----------------------------- MODULE BodyStore -----------------------------
(***************************************************************************)
(* Bodies of logged requests: the logger's flush that appends them to the  *)
(* hourly file and inserts the rows that refer to them, the rotator that   *)
(* moves files from current/ to recent/ to archive/ and deletes them, and  *)
(* the reader of the dashboard (internal/logging/logger.go, bodies, blob,  *)
(* storage/sqlite.go).  The three run concurrently and share no lock.  An  *)
(* hour is its file's name; a body is one unit of a file's length, and an  *)
(* offset counts units.                                                    *)
(***************************************************************************)
EXTENDS Integers, Sequences, Functions, FiniteSetsExt

CONSTANTS
  Entries,        \* log entries
  MaxHour,        \* bound on time
  BatchSizes,     \* of the logger's batches
  RecentMaxAge, ArchiveMaxAge,
  MaxBytes,       \* 0 for no limit
  Faults,         \* the steps that may fail
  None

Files == 0 .. MaxHour
Torn == 0  \* what a write cut short leaves in a file
Bodies == Seq(Entries \cup {Torn})
Objects == [body : Bodies, at : Files]
Refs == Files \X Nat

ASSUME BodyConstants ==
  /\ Entries \subseteq Nat \ {0}
  /\ MaxHour \in Nat /\ RecentMaxAge \in Nat /\ ArchiveMaxAge \in Nat /\ MaxBytes \in Nat
  /\ BatchSizes \subseteq Nat \ {0}
  /\ Faults \subseteq {"write", "insert", "put", "remove", "delete", "notify", "crash"}
  /\ None \notin Files /\ None \notin Bodies /\ None \notin Objects /\ None \notin Refs

VARIABLES
  hour,
  current,          \* the local files: the bodies in them, None for no file
  recent, archive,  \* the backend's objects: bodies and time of writing
  wname, woffset,   \* the writer's open file and offset
  lpc, batch, refs, \* the logger's worker: entries it flushes, references so far
  rows,             \* request_logs: None, or the reference of a row, <<>> for none
  lost,             \* entries whose insertion failed or was cut off by a crash
  rpc, todo, total, victims,  \* the rotator
  qpc, qref,        \* a reader of the dashboard, and the row it read
  gone,             \* history: files of which retention has deleted a copy
  spoilt            \* history: entries appended after their hour or to a torn file

fileVars == <<current, recent, archive>>
logVars == <<wname, woffset, lpc, batch, refs, rows, lost>>
rotVars == <<rpc, todo, total, victims>>
readVars == <<qpc, qref>>
vars == <<hour, fileVars, logVars, rotVars, readVars, gone, spoilt>>

Init ==
  /\ hour = 0
  /\ current = [f \in Files |-> None]
  /\ recent = [f \in Files |-> None]
  /\ archive = [f \in Files |-> None]
  /\ wname = None /\ woffset = 0
  /\ lpc = "idle" /\ batch = <<>> /\ refs = <<>>
  /\ rows = [e \in Entries |-> None] /\ lost = {}
  /\ rpc = "idle" /\ todo = None /\ total = 0 /\ victims = {}
  /\ qpc = "idle" /\ qref = None
  /\ gone = {}
  /\ spoilt = {}

----------------------------------------------------------------------------
(* The logger's worker: flush.                                             *)

Unlogged == {e \in Entries \ lost : rows[e] = None}

(* A batch is full or the timer has fired; entries go in order.            *)
flush(n) ==
  /\ lpc = "idle"
  /\ batch' \in {b \in [1 .. n -> Unlogged] :
                   \A i \in 1 .. n, e \in Unlogged : e < b[i] <=> \E j \in 1 .. i - 1 : e = b[j]}
  /\ lpc' = "rotate" /\ refs' = <<>>
  /\ UNCHANGED <<hour, fileVars, wname, woffset, rows, lost, rotVars, readVars, gone, spoilt>>

Appended(ref) ==
  /\ refs' = Append(refs, ref)
  /\ lpc' = IF Len(refs) + 1 = Len(batch) THEN "insert" ELSE "rotate"

(* rotateIfNeeded: the file of the hour, opened or created.  If that fails *)
(* the entry goes without a body.                                          *)
rotateIfNeeded ==
  /\ lpc = "rotate"
  /\ \/ /\ lpc' = "append" /\ wname' = hour
        /\ IF wname = hour
           THEN UNCHANGED <<current, woffset>>
           ELSE /\ current' = [current EXCEPT ![hour] = IF @ = None THEN <<>> ELSE @]
                /\ woffset' = IF current[hour] = None THEN 0 ELSE Len(current[hour])
        /\ UNCHANGED refs
     \/ /\ "write" \in Faults
        /\ Appended(<<>>)
        /\ UNCHANGED <<current, wname, woffset>>
  /\ UNCHANGED <<hour, recent, archive, batch, rows, lost, rotVars, readVars, gone, spoilt>>

(* Write, after rotateIfNeeded: the line lands at the end of the file, or  *)
(* in a file already unlinked.  A write cut short leaves bytes behind and  *)
(* the offset where it was.                                                *)
Write ==
  /\ lpc = "append"
  /\ LET e == batch[Len(refs) + 1]
         line(x) == current' = [current EXCEPT ![wname] = IF @ = None THEN @ ELSE Append(@, x)]
     IN \/ /\ line(e)
           /\ woffset' = woffset + 1
           /\ Appended(<<wname, woffset>>)
           /\ spoilt' = IF wname # hour \/ (current[wname] # None /\ Torn \in Range(current[wname]))
                        THEN spoilt \cup {e} ELSE spoilt
        \/ /\ "write" \in Faults
           /\ line(Torn)
           /\ Appended(<<>>)
           /\ UNCHANGED <<woffset, spoilt>>
  /\ UNCHANGED <<hour, recent, archive, wname, batch, rows, lost, rotVars, readVars, gone>>

RefOf(e) == refs[CHOOSE i \in DOMAIN batch : batch[i] = e]

(* LogRequestBatch, one transaction: all rows of the batch or, after an    *)
(* error, none; the entries are not tried again.                           *)
LogRequestBatch ==
  /\ lpc = "insert"
  /\ \/ /\ rows' = [e \in Entries |-> IF e \in Range(batch) THEN RefOf(e) ELSE rows[e]]
        /\ UNCHANGED lost
     \/ /\ "insert" \in Faults
        /\ lost' = lost \cup Range(batch)
        /\ UNCHANGED rows
  /\ lpc' = "idle" /\ batch' = <<>> /\ refs' = <<>>
  /\ UNCHANGED <<hour, fileVars, wname, woffset, rotVars, readVars, gone, spoilt>>

----------------------------------------------------------------------------
(* The backend's operations.  Put stages a temporary file and renames it,  *)
(* so that an object is whole or not there; deleting what is not there is  *)
(* no error.                                                               *)

Put(objects, f, body) == [objects EXCEPT ![f] = [body |-> body, at |-> hour]]
Delete(objects, files) == [f \in Files |-> IF f \in files THEN None ELSE objects[f]]
List(objects) == {f \in Files : objects[f] # None}

----------------------------------------------------------------------------
(* The rotator: RunOnce goes through four phases, each with a listing of   *)
(* its own, handled in the order of names; an error ends the phase and not *)
(* the run.                                                                *)

NextPhase(phase) ==
  CASE phase = "promote"  -> "compress"
    [] phase = "compress" -> "purge"
    [] phase = "purge"    -> "evict"
    [] phase = "evict"    -> "idle"

Proceed(p) == rpc' = p /\ todo' = None
EndPhase(phase) == Proceed(NextPhase(phase))

RunOnce ==
  /\ rpc = "idle"
  /\ Proceed("promote")
  /\ UNCHANGED <<hour, fileVars, logVars, total, victims, readVars, gone, spoilt>>

Object(tier, f, body, at) == [tier |-> tier, file |-> f, size |-> Len(body), at |-> at]

Inventory ==
  {Object("current", f, current[f], f) : f \in List(current)}
    \cup {Object("recent", f, recent[f].body, recent[f].at) : f \in List(recent)}
    \cup {Object("archive", f, archive[f].body, archive[f].at) : f \in List(archive)}

Rank == [current |-> 1, recent |-> 2, archive |-> 3]

(* sizeInventory sorts the objects: oldest first, those of one age in the  *)
(* order they were listed.                                                 *)
Precedes(a, b) ==
  \/ a.at < b.at
  \/ /\ a.at = b.at
     /\ Rank[a.tier] < Rank[b.tier] \/ (a.tier = b.tier /\ a.file < b.file)

(* What each phase is about to handle.                                     *)
ClosedHours == {f \in List(current) : f # hour}
OldRecent == {f \in List(recent) : recent[f].at <= hour - RecentMaxAge}
OldArchive == {f \in List(archive) : archive[f].at < hour - ArchiveMaxAge}
Evictable == IF MaxBytes = 0 THEN {} ELSE {i \in Inventory : i.file # hour}

(* ReadDir or List, and the cutoff, at the start of a phase.               *)
BeginPhase ==
  /\ rpc \in {"promote", "compress", "purge", "evict"} /\ todo = None
  /\ todo' = CASE rpc = "promote"  -> ClosedHours
               [] rpc = "compress" -> OldRecent
               [] rpc = "purge"    -> OldArchive
               [] rpc = "evict"    -> Evictable
  /\ total' = IF rpc = "evict" THEN MapThenSumSet(LAMBDA i : i.size, Inventory) ELSE 0
  /\ UNCHANGED <<hour, fileVars, logVars, rpc, victims, readVars, gone, spoilt>>

PhaseDone ==
  /\ rpc \in {"promote", "compress", "purge"} /\ todo = {}
  /\ EndPhase(rpc)
  /\ UNCHANGED <<hour, fileVars, logVars, total, victims, readVars, gone, spoilt>>

(* Mutant: the local copy goes first.                                      *)
promoteUnsafe ==
  /\ rpc = "promote" /\ todo \notin {None, {}}
  /\ \/ /\ recent' = Put(recent, Min(todo), current[Min(todo)])
        /\ current' = Delete(current, {Min(todo)})
        /\ rpc' = "promoteRemove" /\ UNCHANGED todo
     \/ /\ "put" \in Faults /\ EndPhase("promote") /\ UNCHANGED recent
        /\ current' = Delete(current, {Min(todo)})
  /\ UNCHANGED <<hour, archive, logVars, total, victims, readVars, gone, spoilt>>

(* promoteCurrentToRecent, one file: Put, which is atomic, and then Remove. *)
promoteCurrentToRecent ==
  /\ rpc = "promote" /\ todo \notin {None, {}}
  /\ \/ /\ recent' = Put(recent, Min(todo), current[Min(todo)])
        /\ rpc' = "promoteRemove" /\ UNCHANGED todo
     \/ "put" \in Faults /\ EndPhase("promote") /\ UNCHANGED recent
  /\ UNCHANGED <<hour, current, archive, logVars, total, victims, readVars, gone, spoilt>>

promoteRemove ==
  /\ rpc = "promoteRemove"
  /\ \/ /\ current' = Delete(current, {Min(todo)})
        /\ rpc' = "promote" /\ todo' = todo \ {Min(todo)}
     \/ "remove" \in Faults /\ EndPhase("promote") /\ UNCHANGED current
  /\ UNCHANGED <<hour, recent, archive, logVars, total, victims, readVars, gone, spoilt>>

compressObject(f) == archive' = Put(archive, f, recent[f].body)

(* compressToArchive, one object: compressObject and then Delete.          *)
compressToArchive ==
  /\ rpc = "compress" /\ todo \notin {None, {}}
  /\ \/ /\ compressObject(Min(todo))
        /\ rpc' = "compressDelete" /\ UNCHANGED todo
     \/ "put" \in Faults /\ EndPhase("compress") /\ UNCHANGED archive
  /\ UNCHANGED <<hour, current, recent, logVars, total, victims, readVars, gone, spoilt>>

compressDelete ==
  /\ rpc = "compressDelete"
  /\ \/ /\ recent' = Delete(recent, {Min(todo)})
        /\ rpc' = "compress" /\ todo' = todo \ {Min(todo)}
     \/ "delete" \in Faults /\ EndPhase("compress") /\ UNCHANGED recent
  /\ UNCHANGED <<hour, current, archive, logVars, total, victims, readVars, gone, spoilt>>

(* purgeExpired: Delete stops at the first key that fails, and then nobody *)
(* is told of those already deleted.                                       *)
purgeExpired ==
  /\ rpc = "purge" /\ todo \notin {None, {}}
  /\ \E deleted \in SUBSET todo :
       /\ \A f \in deleted, g \in todo : g < f => g \in deleted
       /\ deleted # todo => "delete" \in Faults
       /\ archive' = Delete(archive, deleted)
       /\ gone' = gone \cup deleted
       /\ IF deleted = todo
          THEN rpc' = "purgeNotify" /\ victims' = deleted /\ UNCHANGED todo
          ELSE EndPhase("purge") /\ UNCHANGED victims
  /\ UNCHANGED <<hour, current, recent, logVars, total, readVars, spoilt>>

(* evictBySize, one object; an error returns past the notification.        *)
evictBySize ==
  /\ rpc = "evict" /\ todo # None
  /\ IF todo = {} \/ total <= MaxBytes
     THEN /\ rpc' = "evictNotify"
          /\ UNCHANGED <<fileVars, todo, total, victims, gone>>
     ELSE \E i \in todo :
       /\ \A other \in todo \ {i} : Precedes(i, other)
       /\ \/ /\ current' = IF i.tier = "current" THEN Delete(current, {i.file}) ELSE current
             /\ recent' = IF i.tier = "recent" THEN Delete(recent, {i.file}) ELSE recent
             /\ archive' = IF i.tier = "archive" THEN Delete(archive, {i.file}) ELSE archive
             /\ total' = total - i.size
             /\ victims' = victims \cup {i.file}
             /\ gone' = gone \cup {i.file}
             /\ todo' = todo \ {i} /\ UNCHANGED rpc
          \/ /\ "delete" \in Faults
             /\ EndPhase("evict") /\ victims' = {}
             /\ UNCHANGED <<fileVars, total, gone>>
  /\ UNCHANGED <<hour, logVars, readVars, spoilt>>

(* Mutant: the references of every file but the victims' are cleared.      *)
NullifyOthers(files) ==
  [e \in Entries |-> IF rows[e] \notin {None, <<>>} /\ rows[e][1] \notin files THEN <<>> ELSE rows[e]]

NullifyBodyRefs(files) ==
  [e \in Entries |-> IF rows[e] \notin {None, <<>>} /\ rows[e][1] \in files THEN <<>> ELSE rows[e]]

notifyOrphans ==
  /\ rpc \in {"purgeNotify", "evictNotify"}
  /\ \/ rows' = NullifyBodyRefs(victims)
     \/ "notify" \in Faults /\ UNCHANGED rows
  /\ victims' = {}
  /\ EndPhase(IF rpc = "purgeNotify" THEN "purge" ELSE "evict")
  /\ UNCHANGED <<hour, fileVars, wname, woffset, lpc, batch, refs, lost, total, readVars, gone, spoilt>>

----------------------------------------------------------------------------
(* The reader: a row is read, and then its body, tier by tier.             *)

QueryByID(e) ==
  /\ qpc \in {"idle", "found", "error", "missing"}
  /\ rows[e] \notin {None, <<>>}
  /\ qref' = [entry |-> e, file |-> rows[e][1], offset |-> rows[e][2]]
  /\ qpc' = "stat"
  /\ UNCHANGED <<hour, fileVars, logVars, rotVars, gone, spoilt>>

(* The bytes at the offset decode to the entry, or the read fails.         *)
Outcome(body) ==
  IF qref.offset < Len(body) /\ body[qref.offset + 1] = qref.entry THEN "found" ELSE "error"

readDirect == IF current[qref.file] # None THEN Outcome(current[qref.file]) ELSE "error"

(* Get reports ErrNotFound, and the next tier is tried.                    *)
readFromBackend(objects, next) ==
  IF objects[qref.file] # None THEN Outcome(objects[qref.file].body) ELSE next

(* Mutant: the archive is probed first.                                    *)
ReadBackwards ==
  /\ qpc' = CASE qpc = "stat" -> readFromBackend(archive, "recent")
              [] qpc = "recent" -> readFromBackend(recent, "archive")
              [] qpc = "archive" -> IF current[qref.file] # None THEN Outcome(current[qref.file]) ELSE "missing"
              [] OTHER -> "idle"
  /\ qpc \in {"stat", "recent", "archive"}
  /\ UNCHANGED <<hour, fileVars, logVars, rotVars, qref, gone, spoilt>>

(* Read: current/ (a Stat, then readDirect), recent/, archive/.            *)
Read ==
  /\ qpc \in {"stat", "open", "recent", "archive"}
  /\ qpc' = CASE qpc = "stat" -> IF current[qref.file] # None THEN "open" ELSE "recent"
              [] qpc = "open" -> readDirect
              [] qpc = "recent" -> readFromBackend(recent, "archive")
              [] qpc = "archive" -> readFromBackend(archive, "missing")
  /\ UNCHANGED <<hour, fileVars, logVars, rotVars, qref, gone, spoilt>>

----------------------------------------------------------------------------

HourPasses ==
  /\ hour < MaxHour
  /\ hour' = hour + 1
  /\ UNCHANGED <<fileVars, logVars, rotVars, readVars, gone, spoilt>>

(* The process ends anywhere and is started again.                         *)
CrashRestart ==
  /\ "crash" \in Faults
  /\ wname' = None /\ woffset' = 0
  /\ lpc' = "idle" /\ batch' = <<>> /\ refs' = <<>>
  /\ lost' = lost \cup Range(batch)
  /\ rpc' = "idle" /\ todo' = None /\ total' = 0 /\ victims' = {}
  /\ qpc' = "idle" /\ qref' = None
  /\ UNCHANGED <<hour, fileVars, rows, gone, spoilt>>

Next ==
  \/ \E n \in BatchSizes : flush(n)
  \/ rotateIfNeeded
  \/ Write
  \/ LogRequestBatch
  \/ RunOnce
  \/ BeginPhase
  \/ PhaseDone
  \/ promoteCurrentToRecent
  \/ promoteRemove
  \/ compressToArchive
  \/ compressDelete
  \/ purgeExpired
  \/ evictBySize
  \/ notifyOrphans
  \/ \E e \in Entries : QueryByID(e)
  \/ Read
  \/ HourPasses
  \/ CrashRestart

Spec == Init /\ [][Next]_vars

----------------------------------------------------------------------------

HasRef(e) == rows[e] \notin {None, <<>>}

(* What a read would find of a body if nothing moved meanwhile.            *)
Stored(f) ==
  CASE current[f] # None -> current[f]
    [] current[f] = None /\ recent[f] # None -> recent[f].body
    [] current[f] = None /\ recent[f] = None /\ archive[f] # None -> archive[f].body
    [] OTHER -> <<>>

(* A body a row refers to leaves the store only by retention or eviction:  *)
(* promotion and compression lose nothing and leave it at its offset,      *)
(* whichever step fails and wherever the process ends (rotator.go:129-190, *)
(* writer.go:68-91).  Excepted are lines appended when their hour was over *)
(* and the file on its way, and those behind a write cut short, whose      *)
(* offsets are off by what it left (writer.go:49-54).                      *)
KeptUntilRetention ==
  \A e \in Entries :
    HasRef(e) /\ rows[e][1] \notin gone /\ e \notin spoilt =>
      LET body == Stored(rows[e][1])
      IN rows[e][2] < Len(body) /\ body[rows[e][2] + 1] = e

(* A reader is told a file is not there only if retention has deleted it:  *)
(* it probes the tiers in the order in which files move, so that none can  *)
(* slip past it (reader.go:36-82).                                         *)
MissingMeansGone == qpc = "missing" => qref.file \in gone

(* A row loses its reference only when a copy of its file was deleted for  *)
(* good (rotator.go:229-292, sqlite.go:148-167).                           *)
ClearedOnlyIfDeleted ==
  [][\A e \in Entries : HasRef(e) /\ rows'[e] = <<>> => rows[e][1] \in gone]_vars

(* "For every file deleted, null out (body_file, body_offset, body_length) *)
(* on matching request_logs rows" and "see 'body no longer available'      *)
(* instead of a dangling pointer" (docs/STORAGE.md): when the rotator is   *)
(* not at work, no row refers to a file that is in no tier.                *)
NoDanglingRefs ==
  rpc = "idle" => \A e \in Entries :
    HasRef(e) => \/ current[rows[e][1]] # None
                 \/ recent[rows[e][1]] # None
                 \/ archive[rows[e][1]] # None

=============================================================================
