-------------------------- MODULE BodyStoreProofs ---------------------------
(***************************************************************************)
(* Logger, rotator and reader of the bodies, for any number of entries and *)
(* hours, any batches, limits and faults.                                  *)
(***************************************************************************)
EXTENDS BodyStore, NaturalsInduction, WellFoundedInduction, TLAPS

(* Where a file can be found: somewhere, past current/, past recent/; or   *)
(* retention has taken a copy of it.                                       *)
Archived(f) == f \in gone \/ archive[f] # None
Past(f) == recent[f] # None \/ Archived(f)
Here(f) == current[f] # None \/ Past(f)

(* A body holds an entry at an offset; each copy of a file does.           *)
Holds(body, o, e) == o < Len(body) /\ body[o + 1] = e

KeptAt(f, o, e) ==
  /\ current[f] # None => Holds(current[f], o, e)
  /\ recent[f] # None => Holds(recent[f].body, o, e)
  /\ archive[f] # None => Holds(archive[f].body, o, e)

(* What a reference promises.                                              *)
Safe(e, ref) ==
  ref \in Refs =>
    /\ Here(ref[1])
    /\ ref[1] \notin gone /\ e \notin spoilt => KeptAt(ref[1], ref[2], e)

----------------------------------------------------------------------------

FileTypes ==
  /\ hour \in Files
  /\ current \in [Files -> Bodies \cup {None}]
  /\ recent \in [Files -> Objects \cup {None}]
  /\ archive \in [Files -> Objects \cup {None}]
  /\ gone \subseteq Files

(* A file is written in its own hour and moved on after it.                *)
InTime ==
  \A f \in Files :
    /\ current[f] # None => f <= hour
    /\ recent[f] # None => f < hour
    /\ archive[f] # None => f < hour

LogTypes ==
  /\ wname \in Files \cup {None}
  /\ woffset \in Nat
  /\ lpc \in {"idle", "rotate", "append", "insert"}
  /\ batch \in Seq(Entries)
  /\ refs \in Seq(Refs \cup {<<>>})
  /\ rows \in [Entries -> Refs \cup {None, <<>>}]

(* The writer's file is where its hour left it; within the hour its offset *)
(* is the end of the file, unless a write was cut short.                   *)
Writer ==
  /\ wname # None => wname <= hour /\ Here(wname)
  /\ wname = hour =>
       /\ current[hour] # None
       /\ Torn \in Range(current[hour]) \/ woffset = Len(current[hour])

(* A batch in the making has a reference for each entry behind it, and no  *)
(* row of any.                                                             *)
Flushing ==
  /\ lpc \in {"rotate", "append"} => Len(refs) < Len(batch)
  /\ lpc = "insert" => Len(refs) = Len(batch)
  /\ lpc = "idle" => refs = <<>>
  /\ lpc = "append" => wname # None
  /\ \A i \in 1 .. Len(batch) : rows[batch[i]] = None
  /\ \A i \in 1 .. Len(refs) : Safe(batch[i], refs[i])

RowsSafe == \A e \in Entries : Safe(e, rows[e])

RotatorAt == {"idle", "promote", "promoteRemove", "compress", "compressDelete", "purge",
              "purgeNotify", "evict", "evictNotify"}

(* What the rotator is about to handle is from closed hours, it is the one *)
(* to remove it, and it has made the next copy before.                     *)
Rotating ==
  /\ rpc \in RotatorAt
  /\ victims \subseteq gone
  /\ rpc \in {"promote", "compress", "purge"} /\ todo # None =>
       \A f \in todo : f \in Files /\ f < hour
  /\ rpc \in {"promoteRemove", "compressDelete"} =>
       Min(todo) \in todo /\ \A f \in todo : f \in Files /\ f < hour
  /\ rpc = "promote" /\ todo # None => \A f \in todo : current[f] # None
  /\ rpc = "promoteRemove" => recent[Min(todo)] # None /\ \A f \in todo : current[f] # None
  /\ rpc = "compress" /\ todo # None => \A f \in todo : recent[f] # None
  /\ rpc = "compressDelete" => archive[Min(todo)] # None /\ \A f \in todo : recent[f] # None
  /\ rpc = "evict" /\ todo # None => \A i \in todo : i.file \in Files /\ i.file < hour

(* What the reader has passed, the file it looks for has passed too.       *)
Reading ==
  /\ qpc \in {"stat", "open", "recent", "archive", "missing"} => qref.file \in Files
  /\ qpc = "stat" => Here(qref.file)
  /\ qpc = "recent" => Past(qref.file)
  /\ qpc = "archive" => Archived(qref.file)
  /\ qpc = "missing" => qref.file \in gone

(* The inductive invariant.                                                *)
BodyInv ==
  /\ FileTypes /\ InTime
  /\ LogTypes /\ Writer /\ Flushing /\ RowsSafe
  /\ Rotating
  /\ Reading

----------------------------------------------------------------------------

(* A nonempty set of files has a first one.                                *)
LEMMA MinIn ==
  ASSUME NEW T, T \subseteq Files, T # {}
  PROVE  Min(T) \in T
<1>1. T \subseteq Nat
  BY BodyConstants DEF Files
<1>2. PICK n \in T : \A m \in T : ~ (<<m, n>> \in OpToRel(<, Nat))
  BY <1>1, NatLessThanWellFounded, WFMin, Zenon
<1>3. \A m \in T : ~ (m < n)
  BY <1>1, <1>2, Zenon DEF OpToRel
<1>4. \A m \in T : n <= m
  BY <1>1, <1>3
<1>5. QED BY <1>4, Zenon DEF Min

(* Appending to a body leaves what it holds where it is.                   *)
LEMMA HoldsAppend ==
  ASSUME NEW body \in Bodies, NEW x \in Entries \cup {Torn}, NEW o \in Nat, NEW e,
         Holds(body, o, e)
  PROVE  Holds(Append(body, x), o, e)
BY DEF Holds, Bodies

(* A step that takes no file back a tier, forgets none and keeps what the  *)
(* files hold.                                                             *)
Advance ==
  /\ gone \subseteq gone' /\ spoilt \subseteq spoilt'
  /\ \A f \in Files : Archived(f) => Archived(f)'
  /\ \A f \in Files : Past(f) => Past(f)'
  /\ \A f \in Files : Here(f) => Here(f)'
  /\ \A f \in Files, o \in Nat, e \in Entries :
       Here(f) /\ f \notin gone' /\ KeptAt(f, o, e) => KeptAt(f, o, e)'

(* Such a step keeps the promise of every reference.                       *)
LEMMA SafeKept ==
  ASSUME Advance, NEW e \in Entries, NEW ref, Safe(e, ref)
  PROVE  Safe(e, ref)'
<1> SUFFICES ASSUME ref \in Refs
             PROVE  /\ Here(ref[1])'
                    /\ ref[1] \notin gone' /\ e \notin spoilt' => KeptAt(ref[1], ref[2], e)'
  BY Zenon DEF Safe
<1>1. ref[1] \in Files /\ ref[2] \in Nat
  BY Zenon DEF Refs
<1>2. Here(ref[1]) /\ (ref[1] \notin gone /\ e \notin spoilt => KeptAt(ref[1], ref[2], e))
  BY Zenon DEF Safe
<1>3. gone \subseteq gone' /\ spoilt \subseteq spoilt'
  BY Zenon DEF Advance
<1>4. Here(ref[1])'
  BY <1>1, <1>2, Zenon DEF Advance
<1>5. ASSUME ref[1] \notin gone', e \notin spoilt' PROVE KeptAt(ref[1], ref[2], e)'
  <2>1. KeptAt(ref[1], ref[2], e)
    BY <1>2, <1>3, <1>5, Zenon
  <2>2. QED BY <1>1, <1>2, <1>5, <2>1, Zenon DEF Advance
<1>6. QED BY <1>4, <1>5, Zenon

(* Files that stay as they are advance.                                    *)
LEMMA Still ==
  ASSUME UNCHANGED <<fileVars, gone, spoilt>>
  PROVE  Advance
<1>1. /\ current' = current /\ recent' = recent /\ archive' = archive
      /\ gone' = gone /\ spoilt' = spoilt
  BY Zenon DEF fileVars
<1>2. \A f \in Files : /\ Archived(f) => Archived(f)'
                       /\ Past(f) => Past(f)'
                       /\ Here(f) => Here(f)'
  BY <1>1, Zenon DEF Archived, Past, Here
<1>3. \A f \in Files, o \in Nat, e \in Entries : KeptAt(f, o, e) => KeptAt(f, o, e)'
  BY <1>1, Zenon DEF KeptAt
<1>4. QED BY <1>1, <1>2, <1>3, Zenon DEF Advance

----------------------------------------------------------------------------
(* What each of the three keeps while another moves.                       *)

(* The worker's batch and the rows.                                        *)
LEMMA LogKept ==
  ASSUME LogTypes, Flushing, RowsSafe, Advance, UNCHANGED logVars
  PROVE  LogTypes' /\ Flushing' /\ RowsSafe'
<1>1. /\ wname' = wname /\ woffset' = woffset /\ lpc' = lpc /\ batch' = batch
      /\ refs' = refs /\ rows' = rows
  BY Zenon DEF logVars
<1>2. LogTypes'
  BY <1>1, Zenon DEF LogTypes
<1>3. \A i \in 1 .. Len(batch) : batch[i] \in Entries
  BY DEF LogTypes
<1>4. \A i \in 1 .. Len(refs) : i \in 1 .. Len(batch)
  BY DEF LogTypes, Flushing
<1>5. ASSUME NEW i \in 1 .. Len(refs) PROVE Safe(batch[i], refs[i])'
  <2>1. Safe(batch[i], refs[i]) /\ batch[i] \in Entries
    BY <1>3, <1>4, Zenon DEF Flushing
  <2>2. \A e \in Entries : \A s : Safe(e, s) => Safe(e, s)'
    BY SafeKept, Zenon
  <2>3. QED BY <1>1, <2>1, <2>2, Zenon DEF Safe
<1>6. Flushing'
  BY <1>1, <1>5, Zenon DEF Flushing
<1>7. ASSUME NEW e \in Entries PROVE Safe(e, rows[e])'
  <2>1. Safe(e, rows[e])
    BY Zenon DEF RowsSafe
  <2>2. QED BY <1>1, <2>1, SafeKept, Zenon DEF Safe
<1>8. QED BY <1>2, <1>6, <1>7, Zenon DEF RowsSafe

(* The writer, whose hour's file nobody else touches.                      *)
LEMMA WriterKept ==
  ASSUME LogTypes, Writer, Advance, hour' = hour, current'[hour] = current[hour],
         wname' = wname, woffset' = woffset
  PROVE  Writer'
<1>1. ASSUME wname # None PROVE Here(wname)'
  <2>1. Here(wname) /\ wname \in Files
    BY <1>1, Zenon DEF LogTypes, Writer
  <2>2. \A f \in Files : Here(f) => Here(f)'
    BY Zenon DEF Advance
  <2>3. QED BY <2>1, <2>2, Zenon DEF Here, Past, Archived
<1>2. QED BY <1>1, Zenon DEF Writer

(* The reader.                                                             *)
LEMMA ReadKept ==
  ASSUME Reading, Advance, UNCHANGED readVars
  PROVE  Reading'
<1>1. qpc' = qpc /\ qref' = qref
  BY Zenon DEF readVars
<1>2. qpc \in {"stat", "open", "recent", "archive", "missing"} => qref.file \in Files
  BY Zenon DEF Reading
<1>3. qpc = "stat" => Here(qref.file)'
  BY <1>1, <1>2, Zenon DEF Reading, Advance, Here, Past, Archived
<1>4. qpc = "recent" => Past(qref.file)'
  BY <1>1, <1>2, Zenon DEF Reading, Advance, Past, Archived
<1>5. qpc = "archive" => Archived(qref.file)'
  BY <1>1, <1>2, Zenon DEF Reading, Advance, Archived
<1>6. qpc = "missing" => qref.file \in gone'
  BY Zenon DEF Reading, Advance
<1>7. QED BY <1>1, <1>2, <1>3, <1>4, <1>5, <1>6, Zenon DEF Reading

(* The rotator, while nobody else removes a file.                          *)
LEMMA RotatorKept ==
  ASSUME Rotating, UNCHANGED rotVars, hour' = hour, gone' = gone,
         recent' = recent, archive' = archive,
         \A f \in Files : current[f] # None => current'[f] # None
  PROVE  Rotating'
<1>1. rpc' = rpc /\ todo' = todo /\ victims' = victims
  BY Zenon DEF rotVars
<1>2. /\ rpc = "promote" /\ todo # None => \A f \in todo : current'[f] # None
      /\ rpc = "promoteRemove" => \A f \in todo : current'[f] # None
  BY Zenon DEF Rotating
<1>3. QED BY <1>1, <1>2, Zenon DEF Rotating

(* What is left to show of a step of the rotator.                          *)
LEMMA RotatorStep ==
  ASSUME BodyInv, UNCHANGED <<hour, logVars, readVars>>, current'[hour] = current[hour],
         Advance, FileTypes', InTime', Rotating'
  PROVE  BodyInv'
<1>1. hour' = hour /\ UNCHANGED logVars /\ UNCHANGED readVars
  BY Zenon
<1>2. wname' = wname /\ woffset' = woffset
  BY <1>1, Zenon DEF logVars
<1>3. LogTypes' /\ Flushing' /\ RowsSafe'
  BY <1>1, LogKept, Zenon DEF BodyInv
<1>4. Writer'
  BY <1>1, <1>2, WriterKept, Zenon DEF BodyInv
<1>5. Reading'
  BY <1>1, ReadKept, Zenon DEF BodyInv
<1>6. QED BY <1>3, <1>4, <1>5, Zenon DEF BodyInv

(* A step that touches no file.                                            *)
LEMMA FilesStill ==
  ASSUME BodyInv, UNCHANGED <<hour, fileVars, gone, spoilt>>
  PROVE  Advance /\ FileTypes' /\ InTime'
<1>1. Advance
  BY Still, Zenon
<1>2. UNCHANGED <<hour, current, recent, archive, gone>>
  BY Zenon DEF fileVars
<1>3. FileTypes'
  BY <1>2, Zenon DEF BodyInv, FileTypes
<1>4. InTime'
  BY <1>2, Zenon DEF BodyInv, InTime
<1>5. QED BY <1>1, <1>3, <1>4, Zenon

----------------------------------------------------------------------------
(* The rotator's steps.                                                    *)

(* What Put makes of a tier.                                               *)
LEMMA PutFacts ==
  ASSUME NEW objects \in [Files -> Objects \cup {None}], NEW f \in Files, NEW body \in Bodies,
         hour \in Files
  PROVE  /\ Put(objects, f, body) \in [Files -> Objects \cup {None}]
         /\ Put(objects, f, body)[f] # None
         /\ Put(objects, f, body)[f].body = body
         /\ \A g \in Files \ {f} : Put(objects, f, body)[g] = objects[g]
<1> DEFINE new == [body |-> body, at |-> hour]
<1>1. new \in Objects /\ new # None /\ new.body = body
  BY BodyConstants DEF Objects
<1> HIDE DEF new
<1>2. Put(objects, f, body) = [objects EXCEPT ![f] = new]
  BY Zenon DEF Put, new
<1>3. QED BY <1>1, <1>2

(* At the start of a phase there is nothing to account for.                *)
LEMMA Turns ==
  ASSUME rpc' \in {"idle", "promote", "compress", "purge", "evict"}, todo' = None,
         victims' \subseteq gone'
  PROVE  Rotating'
BY Zenon DEF Rotating, RotatorAt

(* What EndPhase leaves.                                                   *)
LEMMA EndsPhase ==
  ASSUME NEW phase \in {"promote", "compress", "purge", "evict"}, EndPhase(phase)
  PROVE  rpc' \in {"idle", "promote", "compress", "purge", "evict"} /\ todo' = None
BY Zenon DEF EndPhase, Proceed, NextPhase

(* Retention only forgets what it marks.                                   *)
LEMMA Deletes ==
  ASSUME FileTypes, InTime, NEW D \in SUBSET Files, hour \notin D, hour' = hour,
         gone' = gone \cup D, spoilt' = spoilt,
         current' \in {current, Delete(current, D)},
         recent' \in {recent, Delete(recent, D)},
         archive' \in {archive, Delete(archive, D)}
  PROVE  Advance /\ FileTypes' /\ InTime' /\ current'[hour] = current[hour]
<1>1. /\ current' \in [Files -> Bodies \cup {None}]
      /\ \A f \in Files : current'[f] = current[f] \/ (f \in D /\ current'[f] = None)
  <2>1. current \in [Files -> Bodies \cup {None}]
    BY Zenon DEF FileTypes
  <2>2. CASE current' = current
    BY <2>1, <2>2, Zenon
  <2>3. CASE current' = Delete(current, D)
    BY <2>1, <2>3, Zenon DEF Delete
  <2>4. QED BY <2>2, <2>3, Zenon
<1>2. /\ recent' \in [Files -> Objects \cup {None}]
      /\ \A f \in Files : recent'[f] = recent[f] \/ (f \in D /\ recent'[f] = None)
  <2>1. recent \in [Files -> Objects \cup {None}]
    BY Zenon DEF FileTypes
  <2>2. CASE recent' = recent
    BY <2>1, <2>2, Zenon
  <2>3. CASE recent' = Delete(recent, D)
    BY <2>1, <2>3, Zenon DEF Delete
  <2>4. QED BY <2>2, <2>3, Zenon
<1>3. /\ archive' \in [Files -> Objects \cup {None}]
      /\ \A f \in Files : archive'[f] = archive[f] \/ (f \in D /\ archive'[f] = None)
  <2>1. archive \in [Files -> Objects \cup {None}]
    BY Zenon DEF FileTypes
  <2>2. CASE archive' = archive
    BY <2>1, <2>2, Zenon
  <2>3. CASE archive' = Delete(archive, D)
    BY <2>1, <2>3, Zenon DEF Delete
  <2>4. QED BY <2>2, <2>3, Zenon
<1>4. FileTypes'
  BY <1>1, <1>2, <1>3, Zenon DEF FileTypes
<1>5. InTime'
  BY <1>1, <1>2, <1>3, Zenon DEF InTime
<1>6. current'[hour] = current[hour]
  BY <1>1, Zenon DEF FileTypes
<1>7. \A f \in Files : /\ Archived(f) => Archived(f)'
                       /\ Past(f) => Past(f)'
                       /\ Here(f) => Here(f)'
  BY <1>1, <1>2, <1>3, Zenon DEF Archived, Past, Here
<1>8. \A f \in Files, o \in Nat, e \in Entries :
        f \notin gone' /\ KeptAt(f, o, e) => KeptAt(f, o, e)'
  <2> SUFFICES ASSUME NEW f \in Files, NEW o \in Nat, NEW e \in Entries,
                      f \notin gone', KeptAt(f, o, e)
               PROVE  KeptAt(f, o, e)'
    BY Zenon
  <2>1. current'[f] = current[f] /\ recent'[f] = recent[f] /\ archive'[f] = archive[f]
    BY <1>1, <1>2, <1>3, Zenon
  <2>2. QED BY <2>1, Zenon DEF KeptAt
<1>9. QED BY <1>4, <1>5, <1>6, <1>7, <1>8, Zenon DEF Advance

(* RunOnce starts.                                                         *)
LEMMA InvRunOnce ==
  ASSUME BodyInv, RunOnce
  PROVE  BodyInv'
<1>1. rpc' = "promote" /\ todo' = None /\ victims' = victims /\ gone' = gone
  BY Zenon DEF RunOnce, Proceed
<1>2. UNCHANGED <<hour, fileVars, logVars, readVars, gone, spoilt>>
  BY Zenon DEF RunOnce
<1>3. Rotating'
  BY <1>1, Turns, Zenon DEF BodyInv, Rotating
<1>4. current' = current
  BY <1>2, Zenon DEF fileVars
<1>5. QED BY <1>2, <1>3, <1>4, FilesStill, RotatorStep, Zenon

(* A phase that has handled all ends.                                      *)
LEMMA InvPhaseDone ==
  ASSUME BodyInv, PhaseDone
  PROVE  BodyInv'
<1>1. rpc' \in {"idle", "promote", "compress", "purge", "evict"} /\ todo' = None
  BY EndsPhase, Zenon DEF PhaseDone
<1>2. UNCHANGED <<hour, fileVars, logVars, readVars, gone, spoilt, victims>>
  BY Zenon DEF PhaseDone
<1>3. Rotating'
  BY <1>1, <1>2, Turns, Zenon DEF BodyInv, Rotating
<1>4. current' = current
  BY <1>2, Zenon DEF fileVars
<1>5. QED BY <1>2, <1>3, <1>4, FilesStill, RotatorStep, Zenon

(* The listing at the start of a phase has closed hours only.              *)
LEMMA InvBeginPhase ==
  ASSUME BodyInv, BeginPhase
  PROVE  BodyInv'
<1>1. /\ UNCHANGED <<hour, fileVars, logVars, readVars, gone, spoilt>>
      /\ rpc' = rpc /\ victims' = victims
  BY Zenon DEF BeginPhase
<1>2. current' = current /\ recent' = recent /\ archive' = archive /\ gone' = gone /\ hour' = hour
  BY <1>1, Zenon DEF fileVars
<1>3. hour \in Nat /\ Files \subseteq Nat
  BY BodyConstants DEF BodyInv, FileTypes, Files
<1>4. victims \subseteq gone
  BY Zenon DEF BodyInv, Rotating
<1>5. ASSUME rpc = "promote" PROVE Rotating'
  <2>1. todo' = ClosedHours
    BY <1>5, Zenon DEF BeginPhase
  <2>2. \A f \in ClosedHours : f \in Files /\ f < hour /\ current[f] # None
    BY <1>3 DEF ClosedHours, List, BodyInv, InTime
  <2>3. QED BY <1>1, <1>2, <1>4, <1>5, <2>1, <2>2, Zenon DEF Rotating, RotatorAt
<1>6. ASSUME rpc = "compress" PROVE Rotating'
  <2>1. todo' = OldRecent
    BY <1>6, Zenon DEF BeginPhase
  <2>2. \A f \in OldRecent : f \in Files /\ f < hour /\ recent[f] # None
    BY <1>3, Zenon DEF OldRecent, List, BodyInv, InTime
  <2>3. QED BY <1>1, <1>2, <1>4, <1>6, <2>1, <2>2, Zenon DEF Rotating, RotatorAt
<1>7. ASSUME rpc = "purge" PROVE Rotating'
  <2>1. todo' = OldArchive
    BY <1>7, Zenon DEF BeginPhase
  <2>2. \A f \in OldArchive : f \in Files /\ f < hour
    BY Zenon DEF OldArchive, List, BodyInv, InTime
  <2>3. QED BY <1>1, <1>2, <1>4, <1>7, <2>1, <2>2, Zenon DEF Rotating, RotatorAt
<1>8. ASSUME rpc = "evict" PROVE Rotating'
  <2>1. todo' = Evictable
    BY <1>8, Zenon DEF BeginPhase
  <2>2. \A i \in Inventory : i.file \in Files /\ i.file <= hour
    BY <1>3 DEF Inventory, Object, List, BodyInv, InTime
  <2>3. \A i \in Evictable : i \in Inventory /\ i.file # hour
    BY Zenon DEF Evictable
  <2>4. \A i \in Evictable : i.file \in Files /\ i.file < hour
    <3>1. \A a, b \in Nat : a <= b /\ a # b => a < b
      OBVIOUS
    <3>2. QED BY <1>3, <2>2, <2>3, <3>1, Zenon
  <2>5. QED BY <1>1, <1>2, <1>4, <1>8, <2>1, <2>4, Zenon DEF Rotating, RotatorAt
<1>9. Rotating'
  BY <1>5, <1>6, <1>7, <1>8, Zenon DEF BeginPhase
<1>10. QED BY <1>1, <1>2, <1>9, FilesStill, RotatorStep, Zenon

(* A copy one tier on.  The file's own hour is over.                       *)
LEMMA InvPromote ==
  ASSUME BodyInv, promoteCurrentToRecent
  PROVE  BodyInv'
<1> DEFINE f == Min(todo)
<1>1. UNCHANGED <<hour, current, archive, logVars, readVars, gone, spoilt>> /\ victims' = victims
  BY Zenon DEF promoteCurrentToRecent
<1>2. FileTypes /\ InTime /\ Rotating
  BY Zenon DEF BodyInv
<1>3. \A g \in todo : g \in Files /\ g < hour /\ current[g] # None
  BY <1>2, Zenon DEF promoteCurrentToRecent, Rotating
<1>4. f \in todo
  BY <1>3, MinIn, Zenon DEF promoteCurrentToRecent
<1>5. f \in Files /\ f < hour /\ current[f] \in Bodies /\ current[f] # None
  BY <1>2, <1>3, <1>4, Zenon DEF FileTypes
<1>6. victims' \subseteq gone'
  BY <1>1, <1>2, Zenon DEF Rotating
<1> HIDE DEF f
<1>7. CASE recent' = Put(recent, f, current[f]) /\ rpc' = "promoteRemove" /\ todo' = todo
  <2>1. /\ recent' \in [Files -> Objects \cup {None}]
        /\ recent'[f] # None
        /\ recent'[f].body = current[f]
        /\ \A g \in Files \ {f} : recent'[g] = recent[g]
    BY <1>2, <1>5, <1>7, PutFacts DEF FileTypes
  <2>2. FileTypes'
    BY <1>1, <1>2, <2>1, Zenon DEF FileTypes
  <2>3. InTime'
    BY <1>1, <1>2, <1>5, <2>1, Zenon DEF InTime
  <2>4. \A g \in Files : /\ Archived(g) => Archived(g)'
                         /\ Past(g) => Past(g)'
                         /\ Here(g) => Here(g)'
    BY <1>1, <2>1, Zenon DEF Archived, Past, Here
  <2>5. \A g \in Files, o \in Nat, e \in Entries : KeptAt(g, o, e) => KeptAt(g, o, e)'
    <3> SUFFICES ASSUME NEW g \in Files, NEW o \in Nat, NEW e \in Entries, KeptAt(g, o, e)
                 PROVE  KeptAt(g, o, e)'
      BY Zenon
    <3>1. current'[g] = current[g] /\ archive'[g] = archive[g]
      BY <1>1, Zenon
    <3>2. recent'[g] # None => Holds(recent'[g].body, o, e)
      BY <1>5, <2>1, Zenon DEF KeptAt
    <3>3. QED BY <3>1, <3>2, Zenon DEF KeptAt, Holds
  <2>6. Advance
    BY <1>1, <2>4, <2>5, Zenon DEF Advance
  <2>7. Rotating'
    BY <1>1, <1>3, <1>4, <1>6, <1>7, <2>1, Zenon DEF Rotating, RotatorAt, f
  <2>8. QED BY <1>1, <2>2, <2>3, <2>6, <2>7, RotatorStep, Zenon
<1>8. CASE EndPhase("promote") /\ recent' = recent
  <2>1. Rotating'
    BY <1>6, <1>8, EndsPhase, Turns, Zenon
  <2>2. UNCHANGED fileVars
    BY <1>1, <1>8, Zenon DEF fileVars
  <2>3. QED BY <1>1, <2>1, <2>2, FilesStill, RotatorStep, Zenon
<1>9. QED BY <1>7, <1>8, Zenon DEF promoteCurrentToRecent, f

(* The local copy goes when the other is there.                            *)
LEMMA InvPromoteRemove ==
  ASSUME BodyInv, promoteRemove
  PROVE  BodyInv'
<1> DEFINE f == Min(todo)
<1>1. UNCHANGED <<hour, recent, archive, logVars, readVars, gone, spoilt>> /\ victims' = victims
  BY Zenon DEF promoteRemove
<1>2. FileTypes /\ InTime /\ Rotating
  BY Zenon DEF BodyInv
<1>3. /\ \A g \in todo : g \in Files /\ g < hour /\ current[g] # None
      /\ f \in todo /\ recent[f] # None
  BY <1>2, Zenon DEF promoteRemove, Rotating
<1>4. victims' \subseteq gone'
  BY <1>1, <1>2, Zenon DEF Rotating
<1> HIDE DEF f
<1>5. CASE current' = Delete(current, {f}) /\ rpc' = "promote" /\ todo' = todo \ {f}
  <2>1. /\ current' \in [Files -> Bodies \cup {None}]
        /\ current'[f] = None
        /\ \A g \in Files \ {f} : current'[g] = current[g]
    BY <1>2, <1>3, <1>5, Zenon DEF FileTypes, Delete
  <2>2. FileTypes'
    BY <1>1, <1>2, <2>1, Zenon DEF FileTypes
  <2>3. InTime'
    BY <1>1, <1>2, <2>1, Zenon DEF InTime
  <2>4. current'[hour] = current[hour]
    BY <1>2, <1>3, <2>1, BodyConstants DEF FileTypes, Files
  <2>5. \A g \in Files : /\ Archived(g) => Archived(g)'
                         /\ Past(g) => Past(g)'
                         /\ Here(g) => Here(g)'
    BY <1>1, <1>3, <2>1, Zenon DEF Archived, Past, Here
  <2>6. \A g \in Files, o \in Nat, e \in Entries : KeptAt(g, o, e) => KeptAt(g, o, e)'
    BY <1>1, <2>1, Zenon DEF KeptAt
  <2>7. Advance
    BY <1>1, <2>5, <2>6, Zenon DEF Advance
  <2>8. \A g \in todo' : g \in Files /\ g < hour' /\ current'[g] # None
    BY <1>1, <1>3, <1>5, <2>1, Zenon
  <2>9. Rotating'
    BY <1>4, <1>5, <2>8, Zenon DEF Rotating, RotatorAt
  <2>10. QED BY <1>1, <2>2, <2>3, <2>4, <2>7, <2>9, RotatorStep, Zenon
<1>6. CASE EndPhase("promote") /\ current' = current
  <2>1. Rotating'
    BY <1>4, <1>6, EndsPhase, Turns, Zenon
  <2>2. UNCHANGED fileVars
    BY <1>1, <1>6, Zenon DEF fileVars
  <2>3. QED BY <1>1, <1>6, <2>1, <2>2, FilesStill, RotatorStep, Zenon
<1>7. QED BY <1>5, <1>6, Zenon DEF promoteRemove, f

(* The compressed copy.                                                    *)
LEMMA InvCompress ==
  ASSUME BodyInv, compressToArchive
  PROVE  BodyInv'
<1> DEFINE f == Min(todo)
<1>1. UNCHANGED <<hour, current, recent, logVars, readVars, gone, spoilt>> /\ victims' = victims
  BY Zenon DEF compressToArchive
<1>2. FileTypes /\ InTime /\ Rotating
  BY Zenon DEF BodyInv
<1>3. \A g \in todo : g \in Files /\ g < hour /\ recent[g] # None
  BY <1>2, Zenon DEF compressToArchive, Rotating
<1>4. f \in todo
  BY <1>3, MinIn, Zenon DEF compressToArchive
<1>5. f \in Files /\ f < hour /\ recent[f] # None /\ recent[f].body \in Bodies
  BY <1>2, <1>3, <1>4, Zenon DEF FileTypes, Objects
<1>6. victims' \subseteq gone'
  BY <1>1, <1>2, Zenon DEF Rotating
<1> HIDE DEF f
<1>7. CASE compressObject(f) /\ rpc' = "compressDelete" /\ todo' = todo
  <2>1. /\ archive' \in [Files -> Objects \cup {None}]
        /\ archive'[f] # None
        /\ archive'[f].body = recent[f].body
        /\ \A g \in Files \ {f} : archive'[g] = archive[g]
    BY <1>2, <1>5, <1>7, PutFacts DEF FileTypes, compressObject
  <2>2. FileTypes'
    BY <1>1, <1>2, <2>1, Zenon DEF FileTypes
  <2>3. InTime'
    BY <1>1, <1>2, <1>5, <2>1, Zenon DEF InTime
  <2>4. \A g \in Files : /\ Archived(g) => Archived(g)'
                         /\ Past(g) => Past(g)'
                         /\ Here(g) => Here(g)'
    BY <1>1, <2>1, Zenon DEF Archived, Past, Here
  <2>5. \A g \in Files, o \in Nat, e \in Entries : KeptAt(g, o, e) => KeptAt(g, o, e)'
    <3> SUFFICES ASSUME NEW g \in Files, NEW o \in Nat, NEW e \in Entries, KeptAt(g, o, e)
                 PROVE  KeptAt(g, o, e)'
      BY Zenon
    <3>1. current'[g] = current[g] /\ recent'[g] = recent[g]
      BY <1>1, Zenon
    <3>2. archive'[g] # None => Holds(archive'[g].body, o, e)
      BY <1>5, <2>1, Zenon DEF KeptAt
    <3>3. QED BY <3>1, <3>2, Zenon DEF KeptAt, Holds
  <2>6. Advance
    BY <1>1, <2>4, <2>5, Zenon DEF Advance
  <2>7. Rotating'
    BY <1>1, <1>3, <1>4, <1>6, <1>7, <2>1, Zenon DEF Rotating, RotatorAt, f
  <2>8. QED BY <1>1, <2>2, <2>3, <2>6, <2>7, RotatorStep, Zenon
<1>8. CASE EndPhase("compress") /\ archive' = archive
  <2>1. Rotating'
    BY <1>6, <1>8, EndsPhase, Turns, Zenon
  <2>2. UNCHANGED fileVars
    BY <1>1, <1>8, Zenon DEF fileVars
  <2>3. QED BY <1>1, <2>1, <2>2, FilesStill, RotatorStep, Zenon
<1>9. QED BY <1>7, <1>8, Zenon DEF compressToArchive, f

(* The uncompressed copy goes when the other is there.                     *)
LEMMA InvCompressDelete ==
  ASSUME BodyInv, compressDelete
  PROVE  BodyInv'
<1> DEFINE f == Min(todo)
<1>1. UNCHANGED <<hour, current, archive, logVars, readVars, gone, spoilt>> /\ victims' = victims
  BY Zenon DEF compressDelete
<1>2. FileTypes /\ InTime /\ Rotating
  BY Zenon DEF BodyInv
<1>3. /\ \A g \in todo : g \in Files /\ g < hour /\ recent[g] # None
      /\ f \in todo /\ archive[f] # None
  BY <1>2, Zenon DEF compressDelete, Rotating
<1>4. victims' \subseteq gone'
  BY <1>1, <1>2, Zenon DEF Rotating
<1> HIDE DEF f
<1>5. CASE recent' = Delete(recent, {f}) /\ rpc' = "compress" /\ todo' = todo \ {f}
  <2>1. /\ recent' \in [Files -> Objects \cup {None}]
        /\ recent'[f] = None
        /\ \A g \in Files \ {f} : recent'[g] = recent[g]
    BY <1>2, <1>3, <1>5, Zenon DEF FileTypes, Delete
  <2>2. FileTypes'
    BY <1>1, <1>2, <2>1, Zenon DEF FileTypes
  <2>3. InTime'
    BY <1>1, <1>2, <2>1, Zenon DEF InTime
  <2>4. \A g \in Files : /\ Archived(g) => Archived(g)'
                         /\ Past(g) => Past(g)'
                         /\ Here(g) => Here(g)'
    BY <1>1, <1>3, <2>1, Zenon DEF Archived, Past, Here
  <2>5. \A g \in Files, o \in Nat, e \in Entries : KeptAt(g, o, e) => KeptAt(g, o, e)'
    BY <1>1, <2>1, Zenon DEF KeptAt
  <2>6. Advance
    BY <1>1, <2>4, <2>5, Zenon DEF Advance
  <2>7. \A g \in todo' : g \in Files /\ g < hour' /\ recent'[g] # None
    BY <1>1, <1>3, <1>5, <2>1, Zenon
  <2>8. Rotating'
    BY <1>4, <1>5, <2>7, Zenon DEF Rotating, RotatorAt
  <2>9. QED BY <1>1, <2>2, <2>3, <2>6, <2>8, RotatorStep, Zenon
<1>6. CASE EndPhase("compress") /\ recent' = recent
  <2>1. Rotating'
    BY <1>4, <1>6, EndsPhase, Turns, Zenon
  <2>2. UNCHANGED fileVars
    BY <1>1, <1>6, Zenon DEF fileVars
  <2>3. QED BY <1>1, <1>6, <2>1, <2>2, FilesStill, RotatorStep, Zenon
<1>7. QED BY <1>5, <1>6, Zenon DEF compressDelete, f

(* The purge of the archive.                                               *)
LEMMA InvPurge ==
  ASSUME BodyInv, purgeExpired
  PROVE  BodyInv'
<1>1. UNCHANGED <<hour, current, recent, logVars, readVars, spoilt>>
  BY Zenon DEF purgeExpired
<1>2. FileTypes /\ InTime /\ Rotating
  BY Zenon DEF BodyInv
<1>3. \A g \in todo : g \in Files /\ g < hour
  BY <1>2, Zenon DEF purgeExpired, Rotating
<1>4. PICK D \in SUBSET todo :
        /\ archive' = Delete(archive, D)
        /\ gone' = gone \cup D
        /\ \/ rpc' = "purgeNotify" /\ victims' = D
           \/ EndPhase("purge") /\ victims' = victims
  BY Zenon DEF purgeExpired
<1>5. D \in SUBSET Files /\ hour \notin D
  BY <1>2, <1>3, <1>4, BodyConstants DEF FileTypes, Files
<1>6. Advance /\ FileTypes' /\ InTime' /\ current'[hour] = current[hour]
  BY <1>1, <1>2, <1>4, <1>5, Deletes, Zenon
<1>7. victims' \subseteq gone'
  BY <1>2, <1>4, Zenon DEF Rotating
<1>8. Rotating'
  <2>1. CASE rpc' = "purgeNotify"
    BY <1>7, <2>1, Zenon DEF Rotating, RotatorAt
  <2>2. CASE EndPhase("purge")
    BY <1>7, <2>2, EndsPhase, Turns, Zenon
  <2>3. QED BY <1>4, <2>1, <2>2, Zenon
<1>9. QED BY <1>1, <1>6, <1>8, RotatorStep, Zenon

(* An eviction.                                                            *)
LEMMA InvEvict ==
  ASSUME BodyInv, evictBySize
  PROVE  BodyInv'
<1>1. UNCHANGED <<hour, logVars, readVars, spoilt>>
  BY Zenon DEF evictBySize
<1>2. FileTypes /\ InTime /\ Rotating
  BY Zenon DEF BodyInv
<1>3. rpc = "evict" /\ victims \subseteq gone /\ \A i \in todo : i.file \in Files /\ i.file < hour
  BY <1>2, Zenon DEF evictBySize, Rotating
<1>4. CASE rpc' = "evictNotify" /\ UNCHANGED <<fileVars, victims, gone>>
  <2>1. Rotating'
    BY <1>3, <1>4, Zenon DEF Rotating, RotatorAt
  <2>2. UNCHANGED fileVars /\ current' = current
    BY <1>4, Zenon DEF fileVars
  <2>3. QED BY <1>1, <1>4, <2>1, <2>2, FilesStill, RotatorStep, Zenon
<1>5. CASE EndPhase("evict") /\ victims' = {} /\ UNCHANGED <<fileVars, gone>>
  <2>1. Rotating'
    BY <1>5, EndsPhase, Turns, Zenon
  <2>2. UNCHANGED fileVars /\ current' = current
    BY <1>5, Zenon DEF fileVars
  <2>3. QED BY <1>1, <1>5, <2>1, <2>2, FilesStill, RotatorStep, Zenon
<1>6. ASSUME NEW i \in todo,
             current' = IF i.tier = "current" THEN Delete(current, {i.file}) ELSE current,
             recent' = IF i.tier = "recent" THEN Delete(recent, {i.file}) ELSE recent,
             archive' = IF i.tier = "archive" THEN Delete(archive, {i.file}) ELSE archive,
             victims' = victims \cup {i.file}, gone' = gone \cup {i.file},
             todo' = todo \ {i}, rpc' = rpc
      PROVE  BodyInv'
  <2>1. {i.file} \in SUBSET Files /\ hour \notin {i.file}
    BY <1>2, <1>3, BodyConstants DEF FileTypes, Files
  <2>2. /\ current' \in {current, Delete(current, {i.file})}
        /\ recent' \in {recent, Delete(recent, {i.file})}
        /\ archive' \in {archive, Delete(archive, {i.file})}
    BY <1>6, Zenon
  <2>3. Advance /\ FileTypes' /\ InTime' /\ current'[hour] = current[hour]
    BY <1>1, <1>2, <1>6, <2>1, <2>2, Deletes, Zenon
  <2>4. victims' \subseteq gone' /\ \A k \in todo' : k.file \in Files /\ k.file < hour'
    BY <1>1, <1>3, <1>6, Zenon
  <2>5. Rotating'
    BY <1>3, <1>6, <2>4, Zenon DEF Rotating, RotatorAt
  <2>6. QED BY <1>1, <2>3, <2>5, RotatorStep, Zenon
<1>7. QED BY <1>3, <1>4, <1>5, <1>6, Zenon DEF evictBySize

(* A reference that is cleared promises nothing.                           *)
LEMMA NoRef ==
  ASSUME NEW e
  PROVE  Safe(e, <<>>) /\ Safe(e, None)
BY BodyConstants DEF Safe, Refs

(* The rows are told.                                                      *)
LEMMA InvNotify ==
  ASSUME BodyInv, notifyOrphans
  PROVE  BodyInv'
<1>1. /\ UNCHANGED <<hour, fileVars, gone, spoilt>> /\ UNCHANGED readVars
      /\ wname' = wname /\ woffset' = woffset /\ lpc' = lpc /\ batch' = batch /\ refs' = refs
  BY Zenon DEF notifyOrphans
<1>2. Advance /\ FileTypes' /\ InTime'
  BY <1>1, FilesStill, Zenon
<1>3. Rotating'
  <2>1. rpc' \in {"idle", "promote", "compress", "purge", "evict"} /\ todo' = None
    BY EndsPhase, Zenon DEF notifyOrphans
  <2>2. QED BY <2>1, Turns, Zenon DEF notifyOrphans
<1>4. current' = current /\ hour' = hour
  BY <1>1, Zenon DEF fileVars
<1>5. Writer' /\ Reading'
  BY <1>1, <1>2, <1>4, WriterKept, ReadKept, Zenon DEF BodyInv
<1>6. /\ rows' \in [Entries -> Refs \cup {None, <<>>}]
      /\ \A e \in Entries : rows'[e] = rows[e] \/ (rows[e] # None /\ rows'[e] = <<>>)
  <2>1. rows \in [Entries -> Refs \cup {None, <<>>}]
    BY Zenon DEF BodyInv, LogTypes
  <2>2. CASE rows' = NullifyBodyRefs(victims)
    BY <2>1, <2>2, Zenon DEF NullifyBodyRefs
  <2>3. CASE rows' = rows
    BY <2>1, <2>3, Zenon
  <2>4. QED BY <2>2, <2>3, Zenon DEF notifyOrphans
<1>7. LogTypes'
  BY <1>1, <1>6, Zenon DEF BodyInv, LogTypes
<1>8. \A e \in Entries : \A s : Safe(e, s) => Safe(e, s)'
  BY <1>2, SafeKept, Zenon
<1>9. RowsSafe'
  <2> SUFFICES ASSUME NEW e \in Entries PROVE Safe(e, rows[e])'
    BY Zenon DEF RowsSafe
  <2>1. \A s : Safe(e, s) => Safe(e, s)'
    BY <1>8, Zenon
  <2>2. Safe(e, rows[e]) /\ Safe(e, <<>>)
    BY NoRef, Zenon DEF BodyInv, RowsSafe
  <2>3. QED BY <1>6, <2>1, <2>2, Zenon DEF Safe
<1>10. Flushing'
  <2>1. \A i \in 1 .. Len(batch) : batch[i] \in Entries /\ rows'[batch[i]] = None
    BY <1>6 DEF BodyInv, LogTypes, Flushing
  <2>2. \A i \in 1 .. Len(refs) : i \in 1 .. Len(batch)
    BY DEF BodyInv, LogTypes, Flushing
  <2>3. ASSUME NEW i \in 1 .. Len(refs) PROVE Safe(batch[i], refs[i])'
    <3>1. Safe(batch[i], refs[i]) /\ batch[i] \in Entries
      BY <2>1, <2>2, Zenon DEF BodyInv, Flushing
    <3>2. QED BY <1>1, <1>8, <3>1, Zenon DEF Safe
  <2>4. QED BY <1>1, <2>1, <2>3, Zenon DEF BodyInv, Flushing
<1>11. QED BY <1>2, <1>3, <1>5, <1>7, <1>9, <1>10, Zenon DEF BodyInv

----------------------------------------------------------------------------
(* The logger's steps.                                                     *)

(* What a step of the logger leaves to the others.                         *)
LEMMA OthersKept ==
  ASSUME BodyInv, UNCHANGED <<hour, recent, archive, rotVars, readVars, gone>>, Advance,
         \A f \in Files : current[f] # None => current'[f] # None
  PROVE  Rotating' /\ Reading'
<1>1. UNCHANGED rotVars /\ UNCHANGED readVars
  BY Zenon
<1>2. Rotating'
  BY <1>1, RotatorKept, Zenon DEF BodyInv
<1>3. Reading'
  BY <1>1, ReadKept, Zenon DEF BodyInv
<1>4. QED BY <1>2, <1>3, Zenon

(* An entry of the batch gets its reference.                               *)
LEMMA Appends ==
  ASSUME BodyInv, Advance, lpc \in {"rotate", "append"}, NEW ref \in Refs \cup {<<>>},
         Appended(ref), batch' = batch, rows' = rows, wname' = wname, woffset' \in Nat,
         NEW e, e = batch[Len(refs) + 1], Safe(e, ref)'
  PROVE  LogTypes' /\ Flushing' /\ RowsSafe'
<1>1. LogTypes /\ Flushing /\ RowsSafe
  BY Zenon DEF BodyInv
<1>2. /\ refs' = Append(refs, ref)
      /\ lpc' = IF Len(refs) + 1 = Len(batch) THEN "insert" ELSE "rotate"
  BY Zenon DEF Appended
<1>3. refs \in Seq(Refs \cup {<<>>}) /\ batch \in Seq(Entries) /\ Len(refs) < Len(batch)
  BY <1>1, Zenon DEF LogTypes, Flushing
<1>4. /\ refs' \in Seq(Refs \cup {<<>>}) /\ Len(refs') = Len(refs) + 1
      /\ refs'[Len(refs) + 1] = ref
      /\ \A i \in 1 .. Len(refs) : refs'[i] = refs[i]
      /\ Len(refs) \in Nat /\ Len(batch) \in Nat
  BY <1>2, <1>3
<1>5. LogTypes'
  BY <1>1, <1>2, <1>4, Zenon DEF LogTypes
<1>6. \A d \in Entries : \A s : Safe(d, s) => Safe(d, s)'
  BY SafeKept, Zenon
<1>7. RowsSafe'
  <2> SUFFICES ASSUME NEW d \in Entries PROVE Safe(d, rows[d])'
    BY Zenon DEF RowsSafe
  <2>1. Safe(d, rows[d]) /\ \A s : Safe(d, s) => Safe(d, s)'
    BY <1>1, <1>6, Zenon DEF RowsSafe
  <2>2. QED BY <2>1, Zenon DEF Safe
<1>8. ASSUME NEW i \in 1 .. Len(refs') PROVE Safe(batch[i], refs[i])'
  <2>1. CASE i = Len(refs) + 1
    <3>1. refs'[i] = ref /\ batch'[i] = e
      BY <1>4, <2>1, Zenon
    <3>2. QED BY <3>1, Zenon DEF Safe
  <2>2. CASE i \in 1 .. Len(refs)
    <3>1. batch[i] \in Entries /\ refs'[i] = refs[i]
      BY <1>3, <1>4, <2>2
    <3>2. Safe(batch[i], refs[i])
      BY <1>1, <2>2, Zenon DEF Flushing
    <3>3. QED BY <1>6, <3>1, <3>2, Zenon DEF Safe
  <2>3. QED BY <1>4, <2>1, <2>2
<1>9. Flushing'
  <2>1. lpc' \in {"rotate", "append"} => Len(refs') < Len(batch')
    BY <1>2, <1>3, <1>4
  <2>2. lpc' = "insert" => Len(refs') = Len(batch')
    BY <1>2, <1>4, Zenon
  <2>3. lpc' # "idle" /\ lpc' # "append"
    BY <1>2, Zenon
  <2>4. \A i \in 1 .. Len(batch') : rows'[batch'[i]] = None
    BY <1>1, Zenon DEF Flushing
  <2>5. QED BY <1>8, <2>1, <2>2, <2>3, <2>4, Zenon DEF Flushing
<1>10. QED BY <1>5, <1>7, <1>9, Zenon

(* A batch is taken.                                                       *)
LEMMA InvFlush ==
  ASSUME BodyInv, NEW n \in BatchSizes, flush(n)
  PROVE  BodyInv'
<1>1. /\ UNCHANGED <<hour, fileVars, gone, spoilt>> /\ UNCHANGED rotVars /\ UNCHANGED readVars
      /\ wname' = wname /\ woffset' = woffset /\ rows' = rows /\ lpc' = "rotate" /\ refs' = <<>>
      /\ batch' \in [1 .. n -> Unlogged]
  BY Zenon DEF flush
<1>2. Advance /\ FileTypes' /\ InTime'
  BY <1>1, FilesStill, Zenon
<1>3. hour' = hour /\ current' = current /\ recent' = recent /\ archive' = archive
  BY <1>1, Zenon DEF fileVars
<1>4. Rotating' /\ Reading'
  BY <1>1, <1>2, <1>3, OthersKept, Zenon
<1>5. Writer'
  BY <1>1, <1>2, <1>3, WriterKept, Zenon DEF BodyInv
<1>6. n \in Nat \ {0} /\ \A e \in Unlogged : e \in Entries /\ rows[e] = None
  BY BodyConstants, Zenon DEF Unlogged
<1>7. /\ batch' \in Seq(Entries) /\ Len(batch') = n
      /\ \A i \in 1 .. n : rows[batch'[i]] = None
  BY <1>1, <1>6
<1>8. LogTypes'
  BY <1>1, <1>7 DEF BodyInv, LogTypes
<1>9. Flushing'
  BY <1>1, <1>6, <1>7 DEF Flushing
<1>10. RowsSafe'
  <2> SUFFICES ASSUME NEW e \in Entries PROVE Safe(e, rows[e])'
    BY Zenon DEF RowsSafe
  <2>1. Safe(e, rows[e])
    BY Zenon DEF BodyInv, RowsSafe
  <2>2. QED BY <1>1, <1>2, <2>1, SafeKept, Zenon DEF Safe
<1>11. QED BY <1>2, <1>4, <1>5, <1>8, <1>9, <1>10, Zenon DEF BodyInv

(* The file of the hour is opened.                                         *)
LEMMA InvRotateIfNeeded ==
  ASSUME BodyInv, rotateIfNeeded
  PROVE  BodyInv'
<1>1. /\ lpc = "rotate"
      /\ UNCHANGED <<hour, recent, archive, batch, rows, gone, spoilt>>
      /\ UNCHANGED rotVars /\ UNCHANGED readVars
  BY Zenon DEF rotateIfNeeded
<1>2. FileTypes /\ InTime /\ LogTypes /\ Writer /\ Flushing /\ RowsSafe
  BY Zenon DEF BodyInv
<1>3. CASE /\ lpc' = "append" /\ wname' = hour /\ refs' = refs
           /\ woffset' \in Nat
           /\ current' \in [Files -> Bodies \cup {None}]
           /\ \A f \in Files : f # hour \/ current[f] # None => current'[f] = current[f]
           /\ current'[hour] # None
           /\ Torn \in Range(current'[hour]) \/ woffset' = Len(current'[hour])
  <2>1. FileTypes'
    BY <1>1, <1>2, <1>3, Zenon DEF FileTypes
  <2>2. InTime'
    <3>1. hour \in Nat
      BY <1>2, BodyConstants DEF FileTypes, Files
    <3>2. \A f \in Files : current'[f] # None => f <= hour
      BY <1>2, <1>3, <3>1 DEF InTime
    <3>3. QED BY <1>1, <1>2, <3>2, Zenon DEF InTime
  <2>3. \A f \in Files : current[f] # None => current'[f] # None
    BY <1>3, Zenon
  <2>4. \A f \in Files : /\ Archived(f) => Archived(f)'
                         /\ Past(f) => Past(f)'
                         /\ Here(f) => Here(f)'
    BY <1>1, <2>3, Zenon DEF Archived, Past, Here
  <2>5. ASSUME NEW f \in Files, NEW o \in Nat, NEW e \in Entries,
               Here(f), f \notin gone', KeptAt(f, o, e)
        PROVE  KeptAt(f, o, e)'
    <3>1. f = hour => recent[f] = None /\ archive[f] = None
      <4>1. hour \in Nat /\ ~ (hour < hour)
        BY <1>2, BodyConstants DEF FileTypes, Files
      <4>2. QED BY <1>2, <4>1, Zenon DEF InTime
    <3>2. f # hour \/ current[f] # None
      BY <1>1, <2>5, <3>1, Zenon DEF Here, Past, Archived
    <3>3. current'[f] = current[f]
      BY <1>3, <3>2, Zenon
    <3>4. QED BY <1>1, <2>5, <3>3, Zenon DEF KeptAt
  <2>6. Advance
    BY <1>1, <2>4, <2>5, Zenon DEF Advance
  <2>7. Rotating' /\ Reading'
    BY <1>1, <2>3, <2>6, OthersKept, Zenon
  <2>8. Writer'
    <3>1. hour' = hour /\ hour \in Nat /\ hour \in Files
      BY <1>1, <1>2, BodyConstants DEF FileTypes, Files
    <3>2. Here(wname)'
      BY <1>3, Zenon DEF Here
    <3>3. QED BY <1>3, <3>1, <3>2 DEF Writer
  <2>9. LogTypes'
    BY <1>1, <1>2, <1>3, Zenon DEF LogTypes, FileTypes
  <2>10. RowsSafe'
    <3> SUFFICES ASSUME NEW e \in Entries PROVE Safe(e, rows[e])'
      BY Zenon DEF RowsSafe
    <3>1. Safe(e, rows[e])
      BY <1>2, Zenon DEF RowsSafe
    <3>2. QED BY <1>1, <2>6, <3>1, SafeKept, Zenon DEF Safe
  <2>11. Flushing'
    <3>1. \A i \in 1 .. Len(refs) : batch[i] \in Entries /\ Safe(batch[i], refs[i])
      BY <1>1, <1>2 DEF LogTypes, Flushing
    <3>2. \A e \in Entries : \A s : Safe(e, s) => Safe(e, s)'
      BY <2>6, SafeKept, Zenon
    <3>3. ASSUME NEW i \in 1 .. Len(refs) PROVE Safe(batch[i], refs[i])'
      BY <1>1, <1>3, <3>1, <3>2, Zenon DEF Safe
    <3>4. wname' # None
      BY <1>2, <1>3, BodyConstants, Zenon DEF FileTypes
    <3>5. QED BY <1>1, <1>2, <1>3, <3>3, <3>4, Zenon DEF Flushing
  <2>12. QED BY <2>1, <2>2, <2>7, <2>8, <2>9, <2>10, <2>11, Zenon DEF BodyInv
<1>4. CASE Appended(<<>>) /\ UNCHANGED <<current, wname, woffset>>
  <2>1. Advance /\ FileTypes' /\ InTime'
    BY <1>1, <1>4, FilesStill, Zenon DEF fileVars
  <2>2. Rotating' /\ Reading'
    BY <1>1, <1>4, <2>1, OthersKept, Zenon
  <2>3. Writer'
    BY <1>1, <1>2, <1>4, <2>1, WriterKept, Zenon
  <2>4. woffset' \in Nat
    BY <1>2, <1>4, Zenon DEF LogTypes
  <2>5. \A e : Safe(e, <<>>)'
    BY DEF Safe, Refs
  <2>6. LogTypes' /\ Flushing' /\ RowsSafe'
    BY <1>1, <1>4, <2>1, <2>4, <2>5, Appends, Zenon
  <2>7. QED BY <2>1, <2>2, <2>3, <2>6, Zenon DEF BodyInv
<1>5. ASSUME lpc' = "append", wname' = hour, refs' = refs,
             wname = hour, UNCHANGED <<current, woffset>>
      PROVE  BodyInv'
  <2>1. /\ woffset' \in Nat /\ current' \in [Files -> Bodies \cup {None}]
        /\ current'[hour] # None
        /\ Torn \in Range(current'[hour]) \/ woffset' = Len(current'[hour])
    BY <1>2, <1>5, Zenon DEF LogTypes, FileTypes, Writer
  <2>2. QED BY <1>3, <1>5, <2>1, Zenon
<1>6. ASSUME lpc' = "append", wname' = hour, refs' = refs,
             current' = [current EXCEPT ![hour] = IF @ = None THEN <<>> ELSE @],
             woffset' = IF current[hour] = None THEN 0 ELSE Len(current[hour])
      PROVE  BodyInv'
  <2>1. current \in [Files -> Bodies \cup {None}] /\ hour \in Files
    BY <1>2, Zenon DEF FileTypes
  <2>2. <<>> \in Bodies /\ <<>> # None /\ Len(<<>>) = 0 /\ \A b \in Bodies : Len(b) \in Nat
    <3>1. <<>> \in Bodies /\ Len(<<>>) = 0 /\ \A b \in Bodies : Len(b) \in Nat
      BY DEF Bodies
    <3>2. None \notin Bodies
      BY BodyConstants, Zenon
    <3>3. QED BY <3>1, <3>2, Zenon
  <2>3. woffset' \in Nat /\ woffset' = Len(current'[hour])
    <3>1. CASE current[hour] = None
      BY <1>6, <2>1, <2>2, <3>1, Zenon
    <3>2. CASE current[hour] # None
      <4>1. current'[hour] = current[hour] /\ woffset' = Len(current[hour])
        BY <1>6, <2>1, <3>2, Zenon
      <4>2. QED BY <2>1, <2>2, <3>2, <4>1, Zenon
    <3>3. QED BY <3>1, <3>2, Zenon
  <2>4. current' \in [Files -> Bodies \cup {None}] /\ current'[hour] # None
    BY <1>6, <2>1, <2>2, Zenon
  <2>5. \A f \in Files : f # hour \/ current[f] # None => current'[f] = current[f]
    BY <1>6, <2>1, Zenon
  <2>6. QED BY <1>3, <1>6, <2>3, <2>4, <2>5, Zenon
<1>7. QED BY <1>4, <1>5, <1>6, Zenon DEF rotateIfNeeded

(* A body is appended to the writer's file, whole or in part.              *)
LEMMA InvWrite ==
  ASSUME BodyInv, Write
  PROVE  BodyInv'
<1> DEFINE e == batch[Len(refs) + 1]
           Line(x) == current' = [current EXCEPT ![wname] = IF @ = None THEN @ ELSE Append(@, x)]
<1>1. /\ lpc = "append"
      /\ UNCHANGED <<hour, recent, archive, wname, batch, rows, gone>>
      /\ UNCHANGED rotVars /\ UNCHANGED readVars
  BY Zenon DEF Write
<1>2. FileTypes /\ InTime /\ LogTypes /\ Writer /\ Flushing
  BY Zenon DEF BodyInv
<1>3. /\ wname \in Files /\ wname <= hour /\ Here(wname) /\ hour \in Files /\ hour \in Nat
      /\ woffset \in Nat /\ current \in [Files -> Bodies \cup {None}]
  BY <1>1, <1>2, BodyConstants DEF LogTypes, Flushing, Writer, FileTypes, Files
<1>4. e \in Entries
  BY <1>1, <1>2 DEF LogTypes, Flushing
<1> HIDE DEF e, Line
<1>5. ASSUME NEW x \in Entries \cup {Torn}, Line(x), spoilt \subseteq spoilt'
      PROVE  /\ Advance /\ FileTypes' /\ InTime'
             /\ Rotating' /\ Reading'
             /\ \A f \in Files \ {wname} : current'[f] = current[f]
             /\ current[wname] # None =>
                  current'[wname] = Append(current[wname], x) /\ current'[wname] # None
  <2>1. \A f \in Files \ {wname} : current'[f] = current[f]
    BY <1>3, <1>5, Zenon DEF Line
  <2>2. current[wname] = None => current'[wname] = None
    BY <1>3, <1>5, Zenon DEF Line
  <2>3. current[wname] # None => /\ current[wname] \in Bodies
                                 /\ current'[wname] = Append(current[wname], x)
    BY <1>3, <1>5, Zenon DEF Line
  <2>4. \A b \in Bodies : Append(b, x) \in Bodies /\ Append(b, x) # None
    BY BodyConstants DEF Bodies
  <2>5. current' \in [Files -> Bodies \cup {None}]
    BY <1>3, <1>5, <2>3, <2>4, Zenon DEF Line
  <2>6. FileTypes'
    BY <1>1, <1>2, <2>5, Zenon DEF FileTypes
  <2>7. \A f \in Files : current'[f] # None <=> current[f] # None
    BY <2>1, <2>2, <2>3, <2>4, Zenon
  <2>8. InTime'
    BY <1>1, <1>2, <2>7, Zenon DEF InTime
  <2>9. \A f \in Files : /\ Archived(f) => Archived(f)'
                         /\ Past(f) => Past(f)'
                         /\ Here(f) => Here(f)'
    BY <1>1, <2>7, Zenon DEF Archived, Past, Here
  <2>10. ASSUME NEW f \in Files, NEW o \in Nat, NEW d \in Entries, KeptAt(f, o, d)
         PROVE  KeptAt(f, o, d)'
    <3>1. current'[f] # None => Holds(current'[f], o, d)
      <4>1. CASE f # wname
        BY <2>1, <2>10, <4>1, Zenon DEF KeptAt
      <4>2. CASE f = wname /\ current[wname] # None
        BY <2>3, <2>10, <4>2, HoldsAppend, Zenon DEF KeptAt
      <4>3. QED BY <2>7, <4>1, <4>2, Zenon
    <3>2. QED BY <1>1, <2>10, <3>1, Zenon DEF KeptAt, Holds
  <2>11. Advance
    BY <1>1, <1>5, <2>9, <2>10, Zenon DEF Advance
  <2>12. Rotating' /\ Reading'
    BY <1>1, <2>7, <2>11, OthersKept, Zenon
  <2>13. QED BY <2>1, <2>3, <2>4, <2>6, <2>8, <2>11, <2>12, Zenon
<1>6. ASSUME NEW x \in Entries \cup {Torn}, Line(x), spoilt \subseteq spoilt',
             x = Torn \/ woffset' = woffset + 1
      PROVE  Writer'
  <2>1. Here(wname)'
    <3>1. \A f \in Files : Here(f) => Here(f)'
      BY <1>5, <1>6, Zenon DEF Advance
    <3>2. QED BY <1>1, <1>3, <3>1, Zenon DEF Here, Past, Archived
  <2>2. ASSUME wname = hour
        PROVE  /\ current'[hour] # None
               /\ Torn \in Range(current'[hour]) \/ woffset' = Len(current'[hour])
    <3>1. /\ current[hour] \in Bodies
          /\ Torn \in Range(current[hour]) \/ woffset = Len(current[hour])
          /\ current[wname] # None
      BY <1>2, <1>3, <2>2, Zenon DEF Writer
    <3>2. current'[hour] = Append(current[hour], x) /\ current'[hour] # None
      BY <1>5, <1>6, <2>2, <3>1, Zenon
    <3>3. \A b \in Bodies : /\ Len(Append(b, x)) = Len(b) + 1
                            /\ Torn \in Range(b) => Torn \in Range(Append(b, x))
                            /\ x = Torn => Torn \in Range(Append(b, x))
      <4> SUFFICES ASSUME NEW b \in Bodies
                   PROVE  /\ Len(Append(b, x)) = Len(b) + 1
                          /\ Torn \in Range(b) => Torn \in Range(Append(b, x))
                          /\ x = Torn => Torn \in Range(Append(b, x))
        BY Zenon
      <4>1. /\ b \in Seq(Entries \cup {Torn}) /\ Len(b) \in Nat /\ DOMAIN b = 1 .. Len(b)
            /\ Append(b, x) \in Seq(Entries \cup {Torn}) /\ Len(Append(b, x)) = Len(b) + 1
            /\ DOMAIN Append(b, x) = 1 .. Len(b) + 1
            /\ Append(b, x)[Len(b) + 1] = x
            /\ \A i \in 1 .. Len(b) : Append(b, x)[i] = b[i]
        BY DEF Bodies
      <4>2. \A i \in 1 .. Len(b) : i \in 1 .. Len(b) + 1
        BY <4>1
      <4>3. Len(b) + 1 \in 1 .. Len(b) + 1
        BY <4>1
      <4>4. QED BY <4>1, <4>2, <4>3, Zenon DEF Range
    <3>4. QED BY <1>6, <3>1, <3>2, <3>3, Zenon
  <2>3. QED BY <1>1, <1>3, <2>1, <2>2, Zenon DEF Writer
<1>7. CASE /\ Line(e) /\ woffset' = woffset + 1 /\ Appended(<<wname, woffset>>)
           /\ spoilt' = IF wname # hour \/ (current[wname] # None /\ Torn \in Range(current[wname]))
                        THEN spoilt \cup {e} ELSE spoilt
  <2>1. spoilt \subseteq spoilt'
    BY <1>7, Zenon
  <2>2. Writer' /\ Advance /\ FileTypes' /\ InTime' /\ Rotating' /\ Reading'
    BY <1>4, <1>5, <1>6, <1>7, <2>1, Zenon
  <2>3. Here(wname)'
    BY <1>1, <1>2, <1>3, <2>2, BodyConstants, Zenon DEF Writer
  <2>4. ASSUME NEW d, d = e, NEW o \in Nat, o = woffset, NEW f \in Files, f = wname
        PROVE  Safe(d, <<f, o>>)'
    <3>1. ASSUME e \notin spoilt' PROVE KeptAt(f, o, d)'
      <4>1. wname = hour /\ ~ (current[wname] # None /\ Torn \in Range(current[wname]))
        BY <1>7, <3>1, Zenon
      <4>2. current[wname] # None /\ woffset = Len(current[wname])
        BY <1>2, <4>1, Zenon DEF Writer
      <4>3. current'[wname] = Append(current[wname], e) /\ current[wname] \in Bodies
        BY <1>3, <1>4, <1>5, <1>7, <2>1, <4>2, Zenon
      <4>4. Holds(Append(current[wname], e), o, d)
        BY <1>4, <2>4, <4>2, <4>3 DEF Holds, Bodies
      <4>5. recent[wname] = None /\ archive[wname] = None
        BY <1>2, <1>3, <4>1 DEF InTime
      <4>6. current'[f] = Append(current[wname], e) /\ recent'[f] = None /\ archive'[f] = None
        BY <1>1, <2>4, <4>3, <4>5, Zenon
      <4>7. QED BY <4>4, <4>6, Zenon DEF KeptAt, Holds
    <3>2. Here(f)'
      BY <1>1, <2>3, <2>4, Zenon DEF Here, Past, Archived
    <3>3. <<f, o>>[1] = f /\ <<f, o>>[2] = o
      BY Zenon
    <3>4. QED BY <2>4, <3>1, <3>2, <3>3, Zenon DEF Safe
  <2>5. <<wname, woffset>> \in Refs /\ woffset' \in Nat
    BY <1>3, <1>7 DEF Refs
  <2>6. LogTypes' /\ Flushing' /\ RowsSafe'
    BY <1>1, <1>3, <1>7, <2>2, <2>4, <2>5, Appends, Zenon DEF e
  <2>7. QED BY <2>2, <2>6, Zenon DEF BodyInv
<1>8. CASE Line(Torn) /\ Appended(<<>>) /\ UNCHANGED <<woffset, spoilt>>
  <2>1. Writer' /\ Advance /\ FileTypes' /\ InTime' /\ Rotating' /\ Reading'
    BY <1>5, <1>6, <1>8, Zenon
  <2>2. \A d : Safe(d, <<>>)'
    BY DEF Safe, Refs
  <2>3. LogTypes' /\ Flushing' /\ RowsSafe'
    BY <1>1, <1>3, <1>8, <2>1, <2>2, Appends, Zenon
  <2>4. QED BY <2>1, <2>3, Zenon DEF BodyInv
<1>9. QED BY <1>7, <1>8, Zenon DEF Write, e, Line

(* The rows of a batch are inserted, or lost.                              *)
LEMMA InvLogRequestBatch ==
  ASSUME BodyInv, LogRequestBatch
  PROVE  BodyInv'
<1>1. /\ lpc = "insert" /\ lpc' = "idle" /\ batch' = <<>> /\ refs' = <<>>
      /\ UNCHANGED <<hour, fileVars, gone, spoilt>> /\ UNCHANGED rotVars /\ UNCHANGED readVars
      /\ wname' = wname /\ woffset' = woffset
  BY Zenon DEF LogRequestBatch
<1>2. LogTypes /\ Flushing /\ RowsSafe
  BY Zenon DEF BodyInv
<1>3. Advance /\ FileTypes' /\ InTime'
  BY <1>1, FilesStill, Zenon
<1>4. hour' = hour /\ current' = current /\ recent' = recent /\ archive' = archive
  BY <1>1, Zenon DEF fileVars
<1>5. Rotating' /\ Reading'
  BY <1>1, <1>3, <1>4, OthersKept, Zenon
<1>6. Writer'
  BY <1>1, <1>2, <1>3, <1>4, WriterKept, Zenon DEF BodyInv
<1>7. ASSUME NEW e \in Entries, e \in Range(batch)
      PROVE  RefOf(e) \in Refs \cup {<<>>} /\ Safe(e, RefOf(e))
  <2> DEFINE k == CHOOSE i \in DOMAIN batch : batch[i] = e
  <2>1. k \in DOMAIN batch /\ batch[k] = e
    BY <1>7, Zenon DEF Range
  <2> HIDE DEF k
  <2>2. k \in 1 .. Len(refs) /\ refs[k] \in Refs \cup {<<>>}
    BY <1>1, <1>2, <2>1 DEF LogTypes, Flushing
  <2>3. Safe(e, refs[k])
    BY <1>2, <2>1, <2>2, Zenon DEF Flushing
  <2>4. RefOf(e) = refs[k]
    BY Zenon DEF RefOf, k
  <2>5. QED BY <2>2, <2>3, <2>4, Zenon
<1>8. \A e \in Entries : rows'[e] = rows[e] \/ (e \in Range(batch) /\ rows'[e] = RefOf(e))
  <2>1. CASE rows' = [e \in Entries |-> IF e \in Range(batch) THEN RefOf(e) ELSE rows[e]]
    BY <2>1, Zenon
  <2>2. CASE rows' = rows
    BY <2>2, Zenon
  <2>3. QED BY <2>1, <2>2, Zenon DEF LogRequestBatch
<1>9. rows' \in [Entries -> Refs \cup {None, <<>>}]
  <2>1. rows \in [Entries -> Refs \cup {None, <<>>}]
    BY <1>2, Zenon DEF LogTypes
  <2>2. CASE rows' = [e \in Entries |-> IF e \in Range(batch) THEN RefOf(e) ELSE rows[e]]
    BY <1>7, <2>1, <2>2, Zenon
  <2>3. CASE rows' = rows
    BY <2>1, <2>3, Zenon
  <2>4. QED BY <2>2, <2>3, Zenon DEF LogRequestBatch
<1>10. <<>> \in Seq(Entries) /\ <<>> \in Seq(Refs \cup {<<>>}) /\ Len(<<>>) = 0
  OBVIOUS
<1>11. LogTypes'
  BY <1>1, <1>2, <1>9, <1>10, Zenon DEF LogTypes
<1>12. Flushing'
  BY <1>1, <1>10 DEF Flushing
<1>13. RowsSafe'
  <2> SUFFICES ASSUME NEW e \in Entries PROVE Safe(e, rows[e])'
    BY Zenon DEF RowsSafe
  <2>1. Safe(e, rows'[e])
    BY <1>2, <1>7, <1>8, Zenon DEF RowsSafe
  <2>2. \A s : Safe(e, s) => Safe(e, s)'
    BY <1>3, SafeKept, Zenon
  <2>3. QED BY <2>1, <2>2, Zenon DEF Safe
<1>14. QED BY <1>3, <1>5, <1>6, <1>11, <1>12, <1>13, Zenon DEF BodyInv

----------------------------------------------------------------------------
(* The reader's steps.                                                     *)

(* What a step of the reader leaves to the others.                         *)
LEMMA ReaderStep ==
  ASSUME BodyInv, UNCHANGED <<hour, fileVars, logVars, rotVars, gone, spoilt>>, Reading'
  PROVE  BodyInv'
<1>1. UNCHANGED logVars /\ UNCHANGED rotVars
  BY Zenon
<1>2. Advance /\ FileTypes' /\ InTime'
  BY FilesStill, Zenon
<1>3. current' = current /\ recent' = recent /\ archive' = archive
  BY Zenon DEF fileVars
<1>4. wname' = wname /\ woffset' = woffset
  BY <1>1, Zenon DEF logVars
<1>5. LogTypes' /\ Flushing' /\ RowsSafe'
  BY <1>1, <1>2, LogKept, Zenon DEF BodyInv
<1>6. Writer'
  BY <1>2, <1>3, <1>4, WriterKept, Zenon DEF BodyInv
<1>7. Rotating'
  BY <1>1, <1>3, RotatorKept, Zenon DEF BodyInv
<1>8. QED BY <1>2, <1>5, <1>6, <1>7, Zenon DEF BodyInv

(* A row is read.                                                          *)
LEMMA InvQueryByID ==
  ASSUME BodyInv, NEW e \in Entries, QueryByID(e)
  PROVE  BodyInv'
<1>1. rows[e] \in Refs /\ Safe(e, rows[e])
  BY Zenon DEF QueryByID, BodyInv, LogTypes, RowsSafe
<1>2. rows[e][1] \in Files /\ Here(rows[e][1])
  BY <1>1, Zenon DEF Safe, Refs
<1>3. qpc' = "stat" /\ qref'.file = rows[e][1]
  BY Zenon DEF QueryByID
<1>4. UNCHANGED <<hour, fileVars, logVars, rotVars, gone, spoilt>>
  BY Zenon DEF QueryByID
<1>5. current' = current /\ recent' = recent /\ archive' = archive /\ gone' = gone
  BY <1>4, Zenon DEF fileVars
<1>6. Here(qref.file)'
  BY <1>2, <1>3, <1>5, Zenon DEF Here, Past, Archived
<1>7. Reading'
  BY <1>2, <1>3, <1>6, Zenon DEF Reading
<1>8. QED BY <1>4, <1>7, ReaderStep, Zenon

(* A tier is probed.                                                       *)
LEMMA InvRead ==
  ASSUME BodyInv, Read
  PROVE  BodyInv'
<1>1. UNCHANGED <<hour, fileVars, logVars, rotVars, gone, spoilt>>
  BY Zenon DEF Read
<1>2. current' = current /\ recent' = recent /\ archive' = archive /\ gone' = gone /\ qref' = qref
  BY <1>1, Zenon DEF fileVars, Read
<1>3. qpc \in {"stat", "open", "recent", "archive"} /\ qref.file \in Files
  BY Zenon DEF Read, BodyInv, Reading
<1>4. \A body : Outcome(body) \in {"found", "error"}
  BY Zenon DEF Outcome
<1>5. CASE qpc' \in {"found", "error"}
  BY <1>1, <1>5, ReaderStep, Zenon DEF Reading
<1>6. CASE qpc' = "open"
  BY <1>1, <1>2, <1>3, <1>6, ReaderStep, Zenon DEF Reading
<1>7. ASSUME qpc' = "recent", Past(qref.file) PROVE BodyInv'
  <2>1. Past(qref.file)'
    BY <1>2, <1>7, Zenon DEF Past, Archived
  <2>2. QED BY <1>1, <1>2, <1>3, <1>7, <2>1, ReaderStep, Zenon DEF Reading
<1>8. ASSUME qpc' = "archive", Archived(qref.file) PROVE BodyInv'
  <2>1. Archived(qref.file)'
    BY <1>2, <1>8, Zenon DEF Archived
  <2>2. QED BY <1>1, <1>2, <1>3, <1>8, <2>1, ReaderStep, Zenon DEF Reading
<1>9. ASSUME qpc' = "missing", qref.file \in gone PROVE BodyInv'
  BY <1>1, <1>2, <1>3, <1>9, ReaderStep, Zenon DEF Reading
<1>10. CASE qpc = "stat"
  <2>1. qpc' = IF current[qref.file] # None THEN "open" ELSE "recent"
    BY <1>10, Zenon DEF Read
  <2>2. Here(qref.file)
    BY <1>10, Zenon DEF BodyInv, Reading
  <2>3. QED BY <1>6, <1>7, <2>1, <2>2, Zenon DEF Here
<1>11. CASE qpc = "open"
  BY <1>4, <1>5, <1>11, Zenon DEF Read, readDirect
<1>12. CASE qpc = "recent"
  <2>1. qpc' = readFromBackend(recent, "archive")
    BY <1>12, Zenon DEF Read
  <2>2. Past(qref.file)
    BY <1>12, Zenon DEF BodyInv, Reading
  <2>3. QED BY <1>4, <1>5, <1>8, <2>1, <2>2, Zenon DEF readFromBackend, Past
<1>13. CASE qpc = "archive"
  <2>1. qpc' = readFromBackend(archive, "missing")
    BY <1>13, Zenon DEF Read
  <2>2. Archived(qref.file)
    BY <1>13, Zenon DEF BodyInv, Reading
  <2>3. QED BY <1>4, <1>5, <1>9, <2>1, <2>2, Zenon DEF readFromBackend, Archived
<1>14. QED BY <1>3, <1>10, <1>11, <1>12, <1>13, Zenon

----------------------------------------------------------------------------
(* Time and crashes.                                                       *)

(* An hour passes, and the file of the hour before it is closed.           *)
LEMMA InvHourPasses ==
  ASSUME BodyInv, HourPasses
  PROVE  BodyInv'
<1>1. /\ hour' = hour + 1 /\ hour < MaxHour
      /\ UNCHANGED <<fileVars, gone, spoilt>>
      /\ UNCHANGED logVars /\ UNCHANGED rotVars /\ UNCHANGED readVars
  BY Zenon DEF HourPasses
<1>2. current' = current /\ recent' = recent /\ archive' = archive /\ gone' = gone
  BY <1>1, Zenon DEF fileVars
<1>3. hour \in Nat /\ hour' \in Files /\ \A f \in Files : f \in Nat
  BY <1>1, BodyConstants DEF BodyInv, FileTypes, Files
<1>4. FileTypes'
  BY <1>2, <1>3, Zenon DEF BodyInv, FileTypes
<1>5. \A f \in Files : (f <= hour => f <= hour') /\ (f < hour => f < hour')
                       /\ (f <= hour => f # hour')
  BY <1>1, <1>3
<1>6. InTime'
  BY <1>2, <1>5, Zenon DEF BodyInv, InTime
<1>7. Advance
  BY <1>1, Still, Zenon
<1>8. LogTypes' /\ Flushing' /\ RowsSafe'
  BY <1>1, <1>7, LogKept, Zenon DEF BodyInv
<1>9. Reading'
  BY <1>1, <1>7, ReadKept, Zenon DEF BodyInv
<1>10. Writer'
  <2>1. wname' = wname /\ wname \in Files \cup {None} /\ hour' # None
    BY <1>1, <1>3, BodyConstants, Zenon DEF logVars, BodyInv, LogTypes
  <2>2. wname # None => wname <= hour' /\ wname # hour' /\ Here(wname)
    BY <1>5, <2>1, Zenon DEF BodyInv, Writer
  <2>3. wname # None => Here(wname)'
    BY <1>2, <2>1, <2>2, Zenon DEF Here, Past, Archived
  <2>4. QED BY <2>1, <2>2, <2>3, Zenon DEF Writer
<1>11. Rotating'
  <2>1. rpc' = rpc /\ todo' = todo /\ victims' = victims
    BY <1>1, Zenon DEF rotVars
  <2>2. Rotating
    BY Zenon DEF BodyInv
  <2>3. /\ rpc \in {"promote", "compress", "purge"} /\ todo # None =>
             \A f \in todo : f \in Files /\ f < hour'
        /\ rpc \in {"promoteRemove", "compressDelete"} => \A f \in todo : f \in Files /\ f < hour'
    BY <1>5, <2>2, Zenon DEF Rotating
  <2>4. rpc = "evict" /\ todo # None => \A i \in todo : i.file \in Files /\ i.file < hour'
    BY <1>5, <2>2, Zenon DEF Rotating
  <2>5. QED BY <1>2, <2>1, <2>2, <2>3, <2>4, Zenon DEF Rotating
<1>12. QED BY <1>4, <1>6, <1>8, <1>9, <1>10, <1>11, Zenon DEF BodyInv

(* A crash loses what is in memory: the batch, the writer's offset, what   *)
(* the rotator was at, the read.                                           *)
LEMMA InvCrashRestart ==
  ASSUME BodyInv, CrashRestart
  PROVE  BodyInv'
<1>1. /\ UNCHANGED <<hour, fileVars, gone, spoilt>> /\ rows' = rows
      /\ wname' = None /\ woffset' = 0 /\ lpc' = "idle" /\ batch' = <<>> /\ refs' = <<>>
      /\ rpc' = "idle" /\ todo' = None /\ victims' = {} /\ qpc' = "idle"
  BY Zenon DEF CrashRestart
<1>2. Advance /\ FileTypes' /\ InTime'
  BY <1>1, FilesStill, Zenon
<1>3. <<>> \in Seq(Entries) /\ <<>> \in Seq(Refs \cup {<<>>}) /\ Len(<<>>) = 0
  OBVIOUS
<1>4. LogTypes'
  BY <1>1, <1>3, Zenon DEF BodyInv, LogTypes
<1>5. Flushing'
  BY <1>1, <1>3 DEF Flushing
<1>6. Writer'
  <2>1. hour' # None
    BY <1>2, BodyConstants, Zenon DEF FileTypes
  <2>2. QED BY <1>1, <2>1, Zenon DEF Writer
<1>7. RowsSafe'
  <2> SUFFICES ASSUME NEW e \in Entries PROVE Safe(e, rows[e])'
    BY Zenon DEF RowsSafe
  <2>1. Safe(e, rows[e])
    BY Zenon DEF BodyInv, RowsSafe
  <2>2. QED BY <1>1, <1>2, <2>1, SafeKept, Zenon DEF Safe
<1>8. Rotating'
  BY <1>1, Turns, Zenon
<1>9. Reading'
  BY <1>1, Zenon DEF Reading
<1>10. QED BY <1>2, <1>4, <1>5, <1>6, <1>7, <1>8, <1>9, Zenon DEF BodyInv

----------------------------------------------------------------------------
(* The theorems.                                                           *)

(* Nothing is stored, logged or read at first.                             *)
LEMMA InitInv ==
  ASSUME Init
  PROVE  BodyInv
<1>1. FileTypes /\ InTime
  BY BodyConstants DEF Init, FileTypes, InTime, Files
<1>2. LogTypes
  BY DEF Init, LogTypes
<1>3. Writer
  BY <1>1, BodyConstants, Zenon DEF Init, Writer, FileTypes
<1>4. Len(<<>>) = 0
  BY Zenon
<1>5. Flushing
  BY <1>4 DEF Init, Flushing
<1>6. RowsSafe
  BY NoRef, Zenon DEF Init, RowsSafe
<1>7. Rotating
  BY Zenon DEF Init, Rotating, RotatorAt
<1>8. Reading
  BY Zenon DEF Init, Reading
<1>9. QED BY <1>1, <1>2, <1>3, <1>5, <1>6, <1>7, <1>8, Zenon DEF BodyInv

(* Every step keeps the invariant.                                         *)
LEMMA NextInv ==
  ASSUME BodyInv, [Next]_vars
  PROVE  BodyInv'
<1>1. CASE UNCHANGED vars
  <2>1. UNCHANGED <<hour, fileVars, logVars, rotVars, readVars, gone, spoilt>>
    BY <1>1, Zenon DEF vars
  <2>2. UNCHANGED readVars /\ Advance
    BY <2>1, FilesStill, Zenon
  <2>3. QED BY <2>1, <2>2, ReadKept, ReaderStep, Zenon DEF BodyInv
<1>2. CASE \E n \in BatchSizes : flush(n)
  BY <1>2, InvFlush, Zenon
<1>3. CASE \E e \in Entries : QueryByID(e)
  BY <1>3, InvQueryByID, Zenon
<1>4. QED
  BY <1>1, <1>2, <1>3, InvRotateIfNeeded, InvWrite, InvLogRequestBatch, InvRunOnce,
     InvBeginPhase, InvPhaseDone, InvPromote, InvPromoteRemove, InvCompress, InvCompressDelete,
     InvPurge, InvEvict, InvNotify, InvRead, InvHourPasses, InvCrashRestart, Zenon DEF Next

(* The inductive invariant, whoever runs when, whatever fails.             *)
THEOREM BodyInvariant == Spec => []BodyInv
<1>1. Init => BodyInv
  BY InitInv, Zenon
<1>2. BodyInv /\ [Next]_vars => BodyInv'
  BY NextInv, Zenon
<1>3. QED BY <1>1, <1>2, PTL DEF Spec

(* A body a row refers to stays where the row says until retention takes   *)
(* its file: promotion and compression (rotator.go:129-190) lose nothing,  *)
(* for any number of entries, hours and faults, crashes included.          *)
THEOREM BodiesKept == Spec => []KeptUntilRetention
<1>1. BodyInv => KeptUntilRetention
  <2> SUFFICES ASSUME BodyInv, NEW e \in Entries, HasRef(e), rows[e][1] \notin gone, e \notin spoilt
               PROVE  /\ rows[e][2] < Len(Stored(rows[e][1]))
                      /\ Stored(rows[e][1])[rows[e][2] + 1] = e
    BY Zenon DEF KeptUntilRetention
  <2>1. rows[e] \in Refs /\ Safe(e, rows[e])
    BY Zenon DEF BodyInv, LogTypes, RowsSafe, HasRef
  <2>2. Here(rows[e][1]) /\ KeptAt(rows[e][1], rows[e][2], e)
    BY <2>1, Zenon DEF Safe
  <2>3. Holds(Stored(rows[e][1]), rows[e][2], e)
    BY <2>2, Zenon DEF Here, Past, Archived, KeptAt, Stored
  <2>4. QED BY <2>3, Zenon DEF Holds
<1>2. QED BY <1>1, BodyInvariant, PTL

(* A read that finds no tier to hold the file was of a file retention has  *)
(* deleted (reader.go:36-82): a file on its way cannot slip past it.       *)
THEOREM NeverMissed == Spec => []MissingMeansGone
<1>1. BodyInv => MissingMeansGone
  BY Zenon DEF BodyInv, Reading, MissingMeansGone
<1>2. QED BY <1>1, BodyInvariant, PTL

(* A row is told that its body is gone only when a copy of the file was    *)
(* deleted (rotator.go:229-292, sqlite.go:148-167).                        *)
THEOREM ClearedWithCause == Spec => ClearedOnlyIfDeleted
<1>1. ASSUME BodyInv, [Next]_vars, NEW e \in Entries, HasRef(e), rows'[e] = <<>>
      PROVE  rows[e][1] \in gone
  <2>1. rows[e] # <<>> /\ rows[e] # None
    BY <1>1, Zenon DEF HasRef
  <2>2. rows' # rows
    BY <1>1, <2>1, Zenon
  <2>3. LogRequestBatch \/ notifyOrphans
    <3>1. UNCHANGED vars \/ UNCHANGED logVars => rows' = rows
      BY Zenon DEF vars, logVars
    <3>2. (\E n \in BatchSizes : flush(n)) \/ rotateIfNeeded \/ Write \/ CrashRestart
          => rows' = rows
      BY Zenon DEF flush, rotateIfNeeded, Write, CrashRestart
    <3>3. \/ RunOnce \/ BeginPhase \/ PhaseDone \/ promoteCurrentToRecent \/ promoteRemove
          \/ compressToArchive \/ compressDelete \/ purgeExpired \/ evictBySize
          => UNCHANGED logVars
      BY Zenon DEF RunOnce, BeginPhase, PhaseDone, promoteCurrentToRecent, promoteRemove,
         compressToArchive, compressDelete, purgeExpired, evictBySize
    <3>4. (\E d \in Entries : QueryByID(d)) \/ Read \/ HourPasses => UNCHANGED logVars
      BY Zenon DEF QueryByID, Read, HourPasses
    <3>5. QED BY <1>1, <2>2, <3>1, <3>2, <3>3, <3>4, Zenon DEF Next
  <2>4. CASE LogRequestBatch
    <3>1. rows' = [d \in Entries |-> IF d \in Range(batch) THEN RefOf(d) ELSE rows[d]]
      BY <2>2, <2>4, Zenon DEF LogRequestBatch
    <3>2. e \in Range(batch)
      BY <1>1, <2>1, <3>1, Zenon
    <3>3. \A i \in DOMAIN batch : rows[batch[i]] = None
      <4>1. LogTypes /\ Flushing
        BY <1>1, Zenon DEF BodyInv
      <4>2. DOMAIN batch = 1 .. Len(batch)
        BY <4>1 DEF LogTypes
      <4>3. QED BY <4>1, <4>2, Zenon DEF Flushing
    <3>4. QED BY <2>1, <3>2, <3>3, Zenon DEF Range
  <2>5. CASE notifyOrphans
    <3>1. rows' = NullifyBodyRefs(victims)
      BY <2>2, <2>5, Zenon DEF notifyOrphans
    <3>2. rows[e][1] \in victims
      BY <1>1, <2>1, <3>1, Zenon DEF NullifyBodyRefs
    <3>3. QED BY <1>1, <3>2, Zenon DEF BodyInv, Rotating
  <2>6. QED BY <2>3, <2>4, <2>5, Zenon
<1>2. BodyInv /\ [Next]_vars =>
        [\A e \in Entries : HasRef(e) /\ rows'[e] = <<>> => rows[e][1] \in gone]_vars
  BY <1>1, Zenon
<1>3. QED BY <1>2, BodyInvariant, PTL DEF ClearedOnlyIfDeleted, Spec

=============================================================================
