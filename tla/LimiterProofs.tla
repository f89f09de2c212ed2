--------------------------- MODULE LimiterProofs ----------------------------
(***************************************************************************)
(* The registry and the handler of Limiter for any number of requests,     *)
(* keys and entries: no dispatcher is leaked or survives Stop, nobody      *)
(* meets the bucket of another, whatever is forwarded is paid for, and no  *)
(* answer is unfounded.                                                    *)
(***************************************************************************)
EXTENDS Limiter, TLAPS

(* What is registered, held or waited on has been created.                 *)
Used ==
  /\ \A k \in AllKeys : registry[k] # None => state[registry[k]] # "unused"
  /\ \A r \in Requests :
       /\ \A p \in Phases : held[r][p] # None => state[held[r][p]] # "unused"
       /\ waitsOn[r] # None => state[waitsOn[r]] # "unused"

(* An entry being stored is its maker's alone.                             *)
Storing ==
  \A r \in Requests : pc[r] = "store" =>
    /\ held[r][phase[r]] # None
    /\ \A k \in AllKeys : registry[k] # held[r][phase[r]]
    /\ \A s \in Requests :
         pc[s] = "store" /\ held[s][phase[s]] = held[r][phase[r]] => s = r

(* A request has what it is about to use.                                  *)
Placed ==
  \A r \in Requests :
    /\ pc[r] = "touch" => held[r][phase[r]] # None
    /\ phase[r] = "app" => held[r]["own"] # None
    /\ pc[r] \in {"appTry", "appSleep"} => phase[r] = "app" /\ held[r]["app"] # None
    /\ pc[r] = "consume" => held[r]["own"] # None
    /\ pc[r] \in {"enqueue", "wait"} => waitsOn[r] # None

(* Only the collector takes a key out, one at a time.                      *)
Collecting ==
  /\ \A k \in gcTodo : registry[k] # None
  /\ gcpc \in {"stop", "delete"} => registry[gcKey] # None /\ gcKey \notin gcTodo
  /\ gcpc = "delete" => state[registry[gcKey]] = "stopped"

(* Stop waits for the handlers.                                            *)
Quiet == done => \A r \in Requests : pc[r] = "done"

(* The inductive invariant of the registry.                                *)
RegInv ==
  /\ TypeOK /\ KeysKeptApart /\ Used /\ Storing /\ Placed /\ Collecting /\ Quiet
  /\ NoLeakedDispatcher /\ NoneRunAfterStop

----------------------------------------------------------------------------


(* The places of a request.                                                *)
Points == {"load", "touch", "create", "store", "appTry", "appSleep", "consume", "getQueue",
           "enqueue", "wait", "fail", "forward", "done"}

(* None is no entry, and the application-wide key is nobody's own.         *)
LEMMA Apart == /\ None \notin Entries
               /\ App \in AllKeys /\ App \notin Keys
               /\ Keys \subseteq AllKeys
BY LimiterConstants, Zenon DEF Entries, AllKeys

(* Nothing is registered, held or running at the start.                    *)
LEMMA RegInit == Init => RegInv
<1> SUFFICES ASSUME Init PROVE RegInv
    BY Zenon
<1>1. TypeOK
  <2>1. /\ tokens \in [Entries -> 0 .. Burst] /\ idle \in [Entries -> 0 .. TTL]
        /\ registry \in [AllKeys -> Entries \cup {None}]
        /\ held \in [Requests -> [Phases -> Entries \cup {None}]]
    BY LimiterConstants DEF Init
  <2>2. QED BY <2>1, Apart, Zenon DEF Init, TypeOK, Phases
<1>2. KeysKeptApart /\ Used /\ Storing /\ Placed /\ Collecting /\ Quiet
  BY Zenon DEF Init, KeysKeptApart, Used, Storing, Placed, Collecting, Quiet
<1>3. NoLeakedDispatcher /\ NoneRunAfterStop
  BY Zenon DEF Init, NoLeakedDispatcher, NoneRunAfterStop
<1>4. QED BY <1>1, <1>2, <1>3, Zenon DEF RegInv

(* A step that leaves entries, registry and collector alone and lets       *)
(* nobody begin to store.                                                  *)
LEMMA RegFrame ==
  ASSUME RegInv, TypeOK', Placed',
         UNCHANGED <<entryVars, gcVars, held, waitsOn, key>>,
         \A r \in Requests : pc'[r] = "store" <=> pc[r] = "store",
         \A r \in Requests : pc[r] = "store" => phase'[r] = phase[r],
         \A r \in Requests : pc[r] = "done" => pc'[r] = "done"
  PROVE  RegInv'
<1>1. KeysKeptApart' /\ Used'
  BY DEF RegInv, KeysKeptApart, Used, entryVars
<1>2. Storing'
  BY DEF RegInv, Storing, entryVars
<1>3. Collecting' /\ Quiet'
  BY Zenon DEF RegInv, Collecting, Quiet, gcVars, entryVars
<1>4. NoLeakedDispatcher' /\ NoneRunAfterStop'
  BY DEF RegInv, NoLeakedDispatcher, NoneRunAfterStop, gcVars, entryVars
<1>5. QED BY <1>1, <1>2, <1>3, <1>4, Zenon DEF RegInv

(* A token taken leaves fewer tokens and a larger account.                 *)
LEMMA TakeTypes ==
  ASSUME TypeOK, NEW r \in Requests, NEW e \in Entries, Take(r, e)
  PROVE  tokens' \in [Entries -> 0 .. Burst] /\ paid' \in [Requests -> [AllKeys -> Nat]]
<1>1. /\ tokens \in [Entries -> 0 .. Burst] /\ paid \in [Requests -> [AllKeys -> Nat]]
      /\ entryKey[e] \in AllKeys /\ Burst \in Nat
  BY LimiterConstants, Zenon DEF TypeOK
<1>2. tokens' \in [Entries -> 0 .. Burst]
  BY <1>1 DEF Take
<1>3. paid[r] \in [AllKeys -> Nat] /\ paid[r][entryKey[e]] + 1 \in Nat
  BY <1>1
<1>4. [paid[r] EXCEPT ![entryKey[e]] = @ + 1] \in [AllKeys -> Nat]
  BY <1>3, Zenon
<1>5. paid' \in [Requests -> [AllKeys -> Nat]]
  BY <1>1, <1>4, Zenon DEF Take
<1> QED BY <1>2, <1>5, Zenon

(* waitForAppBucket touches tokens and its own request only.               *)
LEMMA RegAppTry == ASSUME RegInv, NEW r \in Requests, AppTry(r) PROVE RegInv'
<1> USE DEF AppTry, Take, Answer, Move
<1>1. UNCHANGED <<entryVars, gcVars, held, waitsOn, key>>
  BY Zenon DEF queueVars, inputVars
<1>2. \A s \in Requests :
        /\ pc'[s] = "store" <=> pc[s] = "store"
        /\ pc[s] = "store" => phase'[s] = phase[s]
        /\ pc[s] = "done" => pc'[s] = "done"
  BY Zenon DEF RegInv, TypeOK
<1>3. TypeOK'
  <2>1. /\ pc' \in [Requests -> Points]
        /\ answer' \in [Requests -> {"none", "forwarded", "429", "499"}]
    <3>1. pc \in [Requests -> Points] /\ answer \in [Requests -> {"none", "forwarded", "429", "499"}]
      BY Zenon DEF RegInv, TypeOK, Points
    <3>2. QED BY <3>1, Zenon DEF Points
  <2>2. held[r]["app"] \in Entries
    BY DEF RegInv, Placed, TypeOK
  <2>3. /\ tokens' \in [Entries -> 0 .. Burst]
        /\ paid' \in [Requests -> [AllKeys -> Nat]]
    <3>1. tokens \in [Entries -> 0 .. Burst] /\ paid \in [Requests -> [AllKeys -> Nat]]
      BY Zenon DEF RegInv, TypeOK
    <3>2. CASE UNCHANGED <<tokens, paid>>
      BY <3>1, <3>2, Zenon
    <3>3. CASE Take(r, held[r]["app"])
      BY <2>2, <3>3, TakeTypes, Zenon DEF RegInv
    <3>4. QED BY <3>2, <3>3, Zenon DEF Take
  <2>4. QED BY <2>1, <2>3, Zenon DEF RegInv, TypeOK, Points, entryVars, gcVars, queueVars, inputVars
<1>4. Placed'
  BY <1>1 DEF RegInv, TypeOK, Placed
<1>5. QED BY <1>1, <1>2, <1>3, <1>4, RegFrame, Zenon

(* So does the fast path.                                                  *)
LEMMA RegConsume == ASSUME RegInv, NEW r \in Requests, Consume(r) PROVE RegInv'
<1> USE DEF Consume, Take, Answer, Move
<1>1. UNCHANGED <<entryVars, gcVars, held, waitsOn, key>>
  BY Zenon DEF queueVars, inputVars
<1>2. \A s \in Requests :
        /\ pc'[s] = "store" <=> pc[s] = "store"
        /\ pc[s] = "store" => phase'[s] = phase[s]
        /\ pc[s] = "done" => pc'[s] = "done"
  BY Zenon DEF RegInv, TypeOK
<1>3. TypeOK'
  <2>1. /\ pc' \in [Requests -> Points]
        /\ answer' \in [Requests -> {"none", "forwarded", "429", "499"}]
    <3>1. pc \in [Requests -> Points] /\ answer \in [Requests -> {"none", "forwarded", "429", "499"}]
      BY Zenon DEF RegInv, TypeOK, Points
    <3>2. QED BY <3>1, Zenon DEF Points
  <2>2. held[r]["own"] \in Entries
    BY DEF RegInv, Placed, TypeOK, Phases
  <2>3. /\ tokens' \in [Entries -> 0 .. Burst]
        /\ paid' \in [Requests -> [AllKeys -> Nat]]
    <3>1. tokens \in [Entries -> 0 .. Burst] /\ paid \in [Requests -> [AllKeys -> Nat]]
      BY Zenon DEF RegInv, TypeOK
    <3>2. CASE UNCHANGED <<tokens, paid>>
      BY <3>1, <3>2, Zenon
    <3>3. CASE Take(r, held[r]["own"])
      BY <2>2, <3>3, TakeTypes, Zenon DEF RegInv
    <3>4. QED BY <3>2, <3>3, Zenon DEF Take
  <2>4. QED BY <2>1, <2>3, Zenon DEF RegInv, TypeOK, Points, entryVars, gcVars, queueVars, inputVars
<1>4. Placed'
  BY <1>1 DEF RegInv, TypeOK, Placed
<1>5. QED BY <1>1, <1>2, <1>3, <1>4, RegFrame, Zenon

(* A sleep ends in another try or in an answer.                            *)
LEMMA RegAppSleep == ASSUME RegInv, NEW r \in Requests, AppSleep(r) PROVE RegInv'
<1> USE DEF AppSleep, Answer, Move
<1>1. UNCHANGED <<entryVars, gcVars, held, waitsOn, key>>
  BY Zenon DEF queueVars, inputVars
<1>2. \A s \in Requests :
        /\ pc'[s] = "store" <=> pc[s] = "store"
        /\ pc[s] = "store" => phase'[s] = phase[s]
        /\ pc[s] = "done" => pc'[s] = "done"
  BY Zenon DEF RegInv, TypeOK
<1>3. TypeOK'
  <2>1. /\ pc' \in [Requests -> Points]
        /\ answer' \in [Requests -> {"none", "forwarded", "429", "499"}]
    <3>1. pc \in [Requests -> Points] /\ answer \in [Requests -> {"none", "forwarded", "429", "499"}]
      BY Zenon DEF RegInv, TypeOK, Points
    <3>2. QED BY <3>1, Zenon DEF Points
  <2>2. QED BY <2>1, Zenon DEF RegInv, TypeOK, Points, entryVars, bucketVars, queueVars, inputVars, gcVars
<1>4. Placed'
  BY <1>1 DEF RegInv, TypeOK, Placed
<1>5. QED BY <1>1, <1>2, <1>3, <1>4, RegFrame, Zenon

(* Entering a queue, with the entry already looked up.                     *)
LEMMA RegEnqueue == ASSUME RegInv, NEW r \in Requests, Enqueue(r) PROVE RegInv'
<1> USE DEF Enqueue, Move
<1>1. UNCHANGED <<entryVars, gcVars, held, waitsOn, key>>
  BY Zenon DEF inputVars
<1>2. \A s \in Requests :
        /\ pc'[s] = "store" <=> pc[s] = "store"
        /\ pc[s] = "store" => phase'[s] = phase[s]
        /\ pc[s] = "done" => pc'[s] = "done"
  BY Zenon DEF RegInv, TypeOK
<1>3. TypeOK'
  <2>1. queued' \in [Entries -> SUBSET Requests]
    <3>1. queued \in [Entries -> SUBSET Requests]
      BY Zenon DEF RegInv, TypeOK
    <3>2. QED BY <3>1
  <2>2. QED BY <2>1, Zenon DEF RegInv, TypeOK, Points, entryVars, bucketVars, inputVars, gcVars
<1>4. Placed'
  BY DEF RegInv, TypeOK, Placed
<1>5. QED BY <1>1, <1>2, <1>3, <1>4, RegFrame, Zenon

(* Leaving a queue, which no longer has the request if it gave up.         *)
LEMMA RegWake == ASSUME RegInv, NEW r \in Requests, Wake(r) PROVE RegInv'
<1> USE DEF Wake, Move
<1>1. UNCHANGED <<entryVars, gcVars, held, waitsOn, key>>
  BY Zenon DEF inputVars
<1>2. \A s \in Requests :
        /\ pc'[s] = "store" <=> pc[s] = "store"
        /\ pc[s] = "store" => phase'[s] = phase[s]
        /\ pc[s] = "done" => pc'[s] = "done"
  BY Zenon DEF RegInv, TypeOK
<1>3. TypeOK'
  <2>1. queued' \in [Entries -> SUBSET Requests]
    <3>1. queued \in [Entries -> SUBSET Requests] /\ waitsOn[r] \in Entries
      BY DEF RegInv, TypeOK, Placed
    <3>2. QED BY <3>1, Zenon
  <2>2. pc' \in [Requests -> Points]
    <3>1. pc \in [Requests -> Points]
      BY Zenon DEF RegInv, TypeOK, Points
    <3>2. QED BY <3>1, Zenon DEF Points
  <2>3. QED BY <2>1, <2>2, Zenon
    DEF RegInv, TypeOK, Points, entryVars, bucketVars, inputVars, gcVars
<1>4. Placed'
  BY DEF RegInv, TypeOK, Placed
<1>5. QED BY <1>1, <1>2, <1>3, <1>4, RegFrame, Zenon

(* A refusal.                                                              *)
LEMMA RegFail == ASSUME RegInv, NEW r \in Requests, Fail(r) PROVE RegInv'
<1> USE DEF Fail, Answer, Move
<1>1. UNCHANGED <<entryVars, gcVars, held, waitsOn, key>>
  BY Zenon DEF queueVars, inputVars
<1>2. TypeOK'
  BY Zenon DEF RegInv, TypeOK, entryVars, bucketVars, queueVars, inputVars, gcVars
<1>3. Placed'
  BY <1>1 DEF RegInv, Placed
<1>4. QED BY <1>1, <1>2, <1>3, RegFrame

(* A response, after which the bucket may be looked up again.              *)
LEMMA RegForward == ASSUME RegInv, NEW r \in Requests, Forward(r) PROVE RegInv'
<1> USE DEF Forward, Move
<1>1. UNCHANGED <<entryVars, gcVars, held, waitsOn, key>>
  BY Zenon DEF queueVars, inputVars
<1>2. TypeOK'
  <2>1. phase' \in [Requests -> Phases]
    BY Zenon DEF RegInv, TypeOK, Phases
  <2>2. QED BY <2>1 DEF RegInv, TypeOK, entryVars, bucketVars, queueVars, inputVars, gcVars
<1>3. Placed'
  BY <1>1 DEF RegInv, Placed
<1>4. QED BY <1>1, <1>2, <1>3, RegFrame

(* A client that goes away.                                                *)
LEMMA RegDisconnect == ASSUME RegInv, NEW r \in Requests, Disconnect(r) PROVE RegInv'
<1> USE DEF Disconnect
<1>1. UNCHANGED <<entryVars, gcVars, held, waitsOn, key>>
  BY Zenon DEF queueVars
<1>2. TypeOK'
  BY Zenon DEF RegInv, TypeOK, entryVars, bucketVars, queueVars, gcVars
<1>3. Placed'
  BY <1>1, Zenon DEF RegInv, Placed
<1>4. QED BY <1>1, <1>2, <1>3, RegFrame, Zenon

(* A dispatcher moves a token and a request, no entry.                     *)
LEMMA RegDispatch == ASSUME RegInv, NEW e \in Entries, NEW r \in Requests, Dispatch(e, r) PROVE RegInv'
<1> USE DEF Dispatch, Take
<1>1. UNCHANGED <<entryVars, gcVars, held, waitsOn, key>>
  BY Zenon DEF inputVars
<1>2. TypeOK'
  <2>1. /\ tokens' \in [Entries -> 0 .. Burst]
        /\ paid' \in [Requests -> [AllKeys -> Nat]]
    BY TakeTypes, Zenon DEF RegInv
  <2>2. QED BY <2>1, Zenon DEF RegInv, TypeOK, entryVars, inputVars, gcVars
<1>3. Placed'
  BY Zenon DEF RegInv, Placed
<1>4. QED BY <1>1, <1>2, <1>3, RegFrame, Zenon

(* A refill never exceeds the burst.                                       *)
LEMMA RegRefill == ASSUME RegInv, NEW e \in Entries, Refill(e) PROVE RegInv'
<1> USE DEF Refill
<1>1. UNCHANGED <<entryVars, gcVars, held, waitsOn, key>>
  BY Zenon DEF queueVars, inputVars
<1>2. TypeOK'
  <2>1. tokens' \in [Entries -> 0 .. Burst]
    BY LimiterConstants DEF RegInv, TypeOK
  <2>2. QED BY <2>1, Zenon DEF RegInv, TypeOK, entryVars, queueVars, inputVars, gcVars
<1>3. Placed'
  BY <1>1, Zenon DEF RegInv, Placed
<1>4. QED BY <1>1, <1>2, <1>3, RegFrame, Zenon

(* Time only ages entries.                                                 *)
LEMMA RegTick == ASSUME RegInv, Tick PROVE RegInv'
<1> USE DEF Tick
<1>1. UNCHANGED <<entryVars, gcVars, held, waitsOn, key>>
  BY Zenon DEF queueVars, inputVars
<1>2. TypeOK'
  <2>1. idle' \in [Entries -> 0 .. TTL]
    BY LimiterConstants DEF RegInv, TypeOK
  <2>2. QED BY <2>1, Zenon DEF RegInv, TypeOK, entryVars, bucketVars, queueVars, inputVars, gcVars
<1>3. Placed'
  BY <1>1, Zenon DEF RegInv, Placed
<1>4. QED BY <1>1, <1>2, <1>3, RegFrame, Zenon

(* Entries in use keep their key and stay in use.                          *)
Lasting == \A f \in Entries : state[f] # "unused" =>
             state'[f] # "unused" /\ entryKey'[f] = entryKey[f]

(* What a request does with an entry it has found or made.                 *)
LEMMA HeldKept ==
  ASSUME RegInv, Lasting, UNCHANGED <<key, waitsOn>>,
         NEW r \in Requests, NEW e \in Entries,
         held' = [held EXCEPT ![r][phase[r]] = e],
         entryKey'[e] = Target(r), state'[e] # "unused"
  PROVE  /\ held' \in [Requests -> [Phases -> Entries \cup {None}]]
         /\ \A s \in Requests, p \in Phases :
              held'[s][p] = IF s = r /\ p = phase[r] THEN e ELSE held[s][p]
         /\ \A s \in Requests : \A p \in Phases : held'[s][p] # None =>
              /\ entryKey'[held'[s][p]] = IF p = "app" THEN App ELSE key'[s]
              /\ state'[held'[s][p]] # "unused"
         /\ \A s \in Requests : waitsOn'[s] # None =>
              entryKey'[waitsOn'[s]] = key'[s] /\ state'[waitsOn'[s]] # "unused"
<1>1. /\ held \in [Requests -> [Phases -> Entries \cup {None}]]
      /\ phase \in [Requests -> Phases] /\ waitsOn \in [Requests -> Entries \cup {None}]
  BY Zenon DEF RegInv, TypeOK
<1>2. held' \in [Requests -> [Phases -> Entries \cup {None}]]
  BY <1>1, Zenon
<1>3. \A s \in Requests : \A p \in Phases : held'[s][p] # None =>
        /\ entryKey'[held'[s][p]] = IF p = "app" THEN App ELSE key'[s]
        /\ state'[held'[s][p]] # "unused"
  BY <1>1 DEF RegInv, KeysKeptApart, Used, Lasting, Target
<1>4. \A s \in Requests : waitsOn'[s] # None =>
        entryKey'[waitsOn'[s]] = key'[s] /\ state'[waitsOn'[s]] # "unused"
  BY <1>1 DEF RegInv, KeysKeptApart, Used, Lasting
<1>5. QED BY <1>2, <1>3, <1>4, Zenon

(* The same when no request gets an entry.                                 *)
LEMMA HeldSame ==
  ASSUME RegInv, Lasting, UNCHANGED <<key, waitsOn, held>>
  PROVE  /\ \A s \in Requests : \A p \in Phases : held'[s][p] # None =>
              /\ entryKey'[held'[s][p]] = IF p = "app" THEN App ELSE key'[s]
              /\ state'[held'[s][p]] # "unused"
         /\ \A s \in Requests : waitsOn'[s] # None =>
              entryKey'[waitsOn'[s]] = key'[s] /\ state'[waitsOn'[s]] # "unused"
<1>1. /\ held \in [Requests -> [Phases -> Entries \cup {None}]]
      /\ waitsOn \in [Requests -> Entries \cup {None}]
  BY Zenon DEF RegInv, TypeOK
<1>2. QED BY <1>1 DEF RegInv, KeysKeptApart, Used, Lasting

(* What is registered, held or waited on is still in use and of its key.   *)
LEMMA RegisteredKept ==
  ASSUME RegInv, Lasting, UNCHANGED <<registry, key, waitsOn, held>>
  PROVE  KeysKeptApart' /\ Used'
<1>1. \A k \in AllKeys : registry[k] # None => registry[k] \in Entries
  BY Zenon DEF RegInv, TypeOK
<1>2. \A k \in AllKeys : registry'[k] # None =>
        entryKey'[registry'[k]] = k /\ state'[registry'[k]] # "unused"
  BY <1>1, Zenon DEF RegInv, KeysKeptApart, Used, Lasting
<1>3. QED BY <1>2, HeldSame DEF KeysKeptApart, Used

(* A running dispatcher keeps its owner while the registry is untouched    *)
(* and whoever is storing an entry goes on storing it.                     *)
LEMMA OwnersKept ==
  ASSUME NoLeakedDispatcher, UNCHANGED <<registry, entryKey>>,
         \A e \in Entries : state'[e] = "running" => state[e] = "running",
         \A s \in Requests : pc[s] = "store" =>
           pc'[s] = "store" /\ held'[s][phase'[s]] = held[s][phase[s]]
  PROVE  NoLeakedDispatcher'
<1> SUFFICES ASSUME NEW e \in Entries, state'[e] = "running"
             PROVE  \/ registry'[entryKey'[e]] = e
                    \/ \E s \in Requests : pc'[s] = "store" /\ held'[s][phase'[s]] = e
  BY Zenon DEF NoLeakedDispatcher
<1>1. registry'[entryKey'[e]] = registry[entryKey[e]]
  BY Zenon
<1>2. CASE registry[entryKey[e]] = e
  BY <1>1, <1>2, Zenon
<1>3. CASE \E s \in Requests : pc[s] = "store" /\ held[s][phase[s]] = e
  BY <1>3, Zenon
<1>4. QED BY <1>2, <1>3, Zenon DEF NoLeakedDispatcher

(* An entry being stored stays its maker's while nobody begins to store.   *)
LEMMA StoringKept ==
  ASSUME Storing, UNCHANGED registry,
         \A s \in Requests : pc'[s] = "store" =>
           pc[s] = "store" /\ held'[s][phase'[s]] = held[s][phase[s]]
  PROVE  Storing'
BY Zenon DEF Storing

(* The collector's bookkeeping alone disturbs nothing else.                *)
LEMMA CollectorApart ==
  ASSUME RegInv, UNCHANGED <<registry, state, entryKey, held, waitsOn, key, phase, pc, done>>
  PROVE  /\ KeysKeptApart' /\ Used' /\ Storing' /\ Placed' /\ Quiet'
         /\ NoLeakedDispatcher' /\ NoneRunAfterStop'
<1>1. KeysKeptApart' /\ Used'
  BY Zenon DEF RegInv, KeysKeptApart, Used
<1>2. Storing' /\ NoLeakedDispatcher'
  BY OwnersKept, StoringKept, Zenon DEF RegInv
<1>3. Placed' /\ Quiet' /\ NoneRunAfterStop'
  BY Zenon DEF RegInv, Placed, Quiet, NoneRunAfterStop
<1>4. QED BY <1>1, <1>2, <1>3, Zenon

-----------------------------------------------------------------------------
(* The steps that look entries up, make, store and remove them.            *)

(* A request that finds its key registered holds that entry from then on.  *)
LEMMA RegLoad == ASSUME RegInv, NEW r \in Requests, Load(r) PROVE RegInv'
<1>1. /\ UNCHANGED <<registry, state, entryKey, tokens, idle, phase, key, mode, queued, ready,
                     waitsOn, paid, gone, answer, gcpc, gcKey, gcTodo, done>>
      /\ pc[r] = "load"
  BY Zenon DEF Load, Move, entryVars, bucketVars, queueVars, inputVars, gcVars
<1>2. /\ Target(r) \in AllKeys /\ registry \in [AllKeys -> Entries \cup {None}]
      /\ held \in [Requests -> [Phases -> Entries \cup {None}]]
      /\ phase[r] \in Phases /\ pc \in [Requests -> Points]
  BY Apart, Zenon DEF RegInv, TypeOK, Target, Points
<1>3. /\ pc' \in [Requests -> Points]
      /\ \A s \in Requests : s # r => pc'[s] = pc[s]
      /\ pc'[r] \in {"touch", "create", "done", "forward"}
      /\ pc'[r] = "touch" => registry[Target(r)] # None
  BY <1>2, Zenon DEF Load, Move, Points
<1>4. Lasting
  BY <1>1, Zenon DEF Lasting
<1>5. /\ held' \in [Requests -> [Phases -> Entries \cup {None}]]
      /\ \A s \in Requests, p \in Phases :
           held'[s][p] = held[s][p] \/ (s = r /\ p = phase[r] /\ held'[s][p] \in Entries)
      /\ \A s \in Requests : \A p \in Phases : held'[s][p] # None =>
           /\ entryKey'[held'[s][p]] = IF p = "app" THEN App ELSE key'[s]
           /\ state'[held'[s][p]] # "unused"
      /\ \A s \in Requests : waitsOn'[s] # None =>
           entryKey'[waitsOn'[s]] = key'[s] /\ state'[waitsOn'[s]] # "unused"
      /\ pc'[r] = "touch" => held'[r][phase[r]] \in Entries
  <2>1. CASE registry[Target(r)] # None
    <3>1. /\ registry[Target(r)] \in Entries
          /\ held' = [held EXCEPT ![r][phase[r]] = registry[Target(r)]]
      BY <1>2, <2>1, Zenon DEF Load
    <3>2. /\ entryKey'[registry[Target(r)]] = Target(r)
          /\ state'[registry[Target(r)]] # "unused"
      BY <1>1, <1>2, <2>1, Zenon DEF RegInv, KeysKeptApart, Used
    <3> DEFINE e == registry[Target(r)]
    <3> HIDE DEF e
    <3>3. /\ held' \in [Requests -> [Phases -> Entries \cup {None}]]
          /\ \A s \in Requests, p \in Phases :
               held'[s][p] = IF s = r /\ p = phase[r] THEN e ELSE held[s][p]
          /\ \A s \in Requests : \A p \in Phases : held'[s][p] # None =>
               /\ entryKey'[held'[s][p]] = IF p = "app" THEN App ELSE key'[s]
               /\ state'[held'[s][p]] # "unused"
          /\ \A s \in Requests : waitsOn'[s] # None =>
               entryKey'[waitsOn'[s]] = key'[s] /\ state'[waitsOn'[s]] # "unused"
      BY <1>1, <1>4, <3>1, <3>2, HeldKept, Zenon DEF e
    <3>4. e \in Entries
      BY <3>1, Zenon DEF e
    <3>5. QED BY <1>2, <3>3, <3>4
  <2>2. CASE registry[Target(r)] = None
    <3>1. held' = held /\ pc'[r] # "touch"
      BY <1>3, <2>2, Zenon DEF Load
    <3>2. QED BY <1>1, <1>2, <1>4, <3>1, HeldSame, Zenon
  <2>3. QED BY <2>1, <2>2, Zenon
<1>6. TypeOK'
  BY <1>1, <1>3, <1>5, Zenon DEF RegInv, TypeOK, Points
<1>7. KeysKeptApart' /\ Used'
  <2>1. KeysKeptApart'
    BY <1>1, <1>5, Zenon DEF RegInv, KeysKeptApart
  <2>2. \A k \in AllKeys : registry'[k] # None => state'[registry'[k]] # "unused"
    BY <1>1, Zenon DEF RegInv, Used
  <2>3. Used'
    BY <1>5, <2>2, Zenon DEF Used
  <2>4. QED BY <2>1, <2>3, Zenon
<1>8. \A s \in Requests :
        /\ pc'[s] = "store" <=> pc[s] = "store"
        /\ pc[s] = "store" => held'[s][phase'[s]] = held[s][phase[s]]
  <2>1. phase \in [Requests -> Phases] /\ phase' = phase
    BY <1>1, Zenon DEF RegInv, TypeOK
  <2>2. QED BY <1>1, <1>3, <1>5, <2>1
<1>9. Storing' /\ NoLeakedDispatcher'
  BY <1>1, <1>8, StoringKept, OwnersKept, Zenon DEF RegInv
<1>10. Placed'
  <2>1. \A s \in Requests, p \in Phases : held[s][p] # None => held'[s][p] # None
    BY <1>5, Apart, Zenon
  <2>2. pc'[r] = "touch" => held'[r][phase'[r]] # None
    BY <1>1, <1>5, Apart, Zenon
  <2>3. \A s \in Requests : phase[s] \in Phases
    BY Zenon DEF RegInv, TypeOK
  <2>4. QED BY <1>1, <1>3, <2>1, <2>2, <2>3, Zenon DEF RegInv, Placed, Phases
<1>11. Collecting' /\ Quiet' /\ NoneRunAfterStop'
  BY <1>1, <1>3, Zenon DEF RegInv, Collecting, Quiet, NoneRunAfterStop
<1>12. QED BY <1>6, <1>7, <1>9, <1>10, <1>11, Zenon DEF RegInv

(* Where Proceed leads.                                                    *)
LEMMA ProceedFacts ==
  ASSUME RegInv, NEW r \in Requests, pc[r] \in {"touch", "store"}, Proceed(r)
  PROVE  /\ pc' \in [Requests -> Points] /\ phase' \in [Requests -> Phases]
         /\ \A s \in Requests \ {r} : pc'[s] = pc[s] /\ phase'[s] = phase[s]
         /\ \/ /\ phase[r] = "own" /\ key[r] \in AppLimited
               /\ pc'[r] = "load" /\ phase'[r] = "app"
            \/ /\ phase[r] = "own" /\ key[r] \notin AppLimited
               /\ pc'[r] = "consume" /\ phase'[r] = "own"
            \/ phase[r] = "app" /\ pc'[r] = "appTry" /\ phase'[r] = "app"
            \/ phase[r] = "update" /\ pc'[r] = "done" /\ phase'[r] = "update"
<1>1. pc \in [Requests -> Points] /\ phase \in [Requests -> Phases]
  BY Zenon DEF RegInv, TypeOK, Points
<1>2. phase[r] \in {"own", "app", "update"}
  BY <1>1, Zenon DEF Phases
<1>3. CASE phase[r] = "own" /\ key[r] \in AppLimited
  BY <1>1, Zenon DEF Proceed, Points, Phases
<1>4. CASE phase[r] = "own" /\ key[r] \notin AppLimited
  BY <1>1, <1>4, Zenon DEF Proceed, Points
<1>5. CASE phase[r] = "app"
  BY <1>1, <1>5, Zenon DEF Proceed, Points
<1>6. CASE phase[r] = "update"
  BY <1>1, <1>6, Zenon DEF Proceed, Points
<1>7. QED BY <1>2, <1>3, <1>4, <1>5, <1>6, Zenon

(* Marking an entry used changes nothing but its age.                      *)
LEMMA RegTouch == ASSUME RegInv, NEW r \in Requests, Touch(r) PROVE RegInv'
<1>1. /\ UNCHANGED <<entryVars, gcVars, held, waitsOn, key>>
      /\ UNCHANGED <<tokens, mode, queued, ready, paid, gone, answer>>
      /\ pc[r] = "touch"
  BY Zenon DEF Touch, bucketVars, queueVars, inputVars
<1>2. /\ pc' \in [Requests -> Points] /\ phase' \in [Requests -> Phases]
      /\ \A s \in Requests \ {r} : pc'[s] = pc[s] /\ phase'[s] = phase[s]
      /\ \/ phase[r] = "own" /\ pc'[r] = "load" /\ phase'[r] = "app"
         \/ phase[r] = "own" /\ pc'[r] = "consume" /\ phase'[r] = "own"
         \/ phase[r] = "app" /\ pc'[r] = "appTry" /\ phase'[r] = "app"
         \/ phase[r] = "update" /\ pc'[r] = "done" /\ phase'[r] = "update"
  BY ProceedFacts, Zenon DEF Touch
<1>3. \A s \in Requests :
        /\ pc'[s] = "store" <=> pc[s] = "store"
        /\ pc[s] = "store" => phase'[s] = phase[s]
        /\ pc[s] = "done" => pc'[s] = "done"
  BY <1>1, <1>2, Zenon
<1>4. TypeOK'
  <2>1. idle' \in [Entries -> 0 .. TTL]
    <3>1. idle \in [Entries -> 0 .. TTL] /\ 0 \in 0 .. TTL
      BY LimiterConstants DEF RegInv, TypeOK
    <3>2. QED BY <3>1, Zenon DEF Touch
  <2>2. QED BY <1>1, <1>2, <2>1, Zenon DEF RegInv, TypeOK, Points, entryVars, gcVars
<1>5. Placed'
  BY <1>1, <1>2, Zenon DEF RegInv, Placed
<1>6. QED BY <1>1, <1>3, <1>4, <1>5, RegFrame, Zenon

(* A new entry belongs to the request that made it.                        *)
LEMMA RegCreate ==
  ASSUME RegInv, NEW r \in Requests, NEW e \in Entries, Create(r, e) PROVE RegInv'
<1>1. /\ UNCHANGED <<registry, phase, key, mode, queued, ready, waitsOn, paid, gone, answer,
                     gcpc, gcKey, gcTodo, done>>
      /\ pc[r] = "create" /\ state[e] = "unused"
  BY Zenon DEF Create, Move, queueVars, inputVars, gcVars
<1>2. /\ pc' = [pc EXCEPT ![r] = "store"]
      /\ state' = [state EXCEPT ![e] = "running"]
      /\ entryKey' = [entryKey EXCEPT ![e] = Target(r)]
      /\ tokens' = [tokens EXCEPT ![e] = Burst] /\ idle' = [idle EXCEPT ![e] = 0]
      /\ held' = [held EXCEPT ![r][phase[r]] = e]
  BY Zenon DEF Create, Move
<1>3. /\ state \in [Entries -> {"unused", "running", "stopped"}]
      /\ entryKey \in [Entries -> AllKeys] /\ registry \in [AllKeys -> Entries \cup {None}]
      /\ held \in [Requests -> [Phases -> Entries \cup {None}]]
      /\ pc \in [Requests -> Points] /\ phase \in [Requests -> Phases]
      /\ tokens \in [Entries -> 0 .. Burst] /\ idle \in [Entries -> 0 .. TTL]
      /\ Target(r) \in AllKeys
  BY Apart, Zenon DEF RegInv, TypeOK, Points, Target
<1> HIDE DEF Target
<1>4. /\ pc' \in [Requests -> Points] /\ pc'[r] = "store"
      /\ \A s \in Requests \ {r} : pc'[s] = pc[s]
  BY <1>2, <1>3, Zenon DEF Points
<1>5. /\ state' \in [Entries -> {"unused", "running", "stopped"}] /\ state'[e] = "running"
      /\ entryKey' \in [Entries -> AllKeys] /\ entryKey'[e] = Target(r)
      /\ \A f \in Entries \ {e} : state'[f] = state[f] /\ entryKey'[f] = entryKey[f]
  BY <1>2, <1>3, Zenon
<1>6. tokens' \in [Entries -> 0 .. Burst] /\ idle' \in [Entries -> 0 .. TTL]
  BY <1>2, <1>3, LimiterConstants
<1>7. Lasting
  BY <1>1, <1>5, Zenon DEF Lasting
<1>8. /\ held' \in [Requests -> [Phases -> Entries \cup {None}]]
      /\ \A s \in Requests, p \in Phases :
           held'[s][p] = IF s = r /\ p = phase[r] THEN e ELSE held[s][p]
      /\ \A s \in Requests : \A p \in Phases : held'[s][p] # None =>
           /\ entryKey'[held'[s][p]] = IF p = "app" THEN App ELSE key'[s]
           /\ state'[held'[s][p]] # "unused"
      /\ \A s \in Requests : waitsOn'[s] # None =>
           entryKey'[waitsOn'[s]] = key'[s] /\ state'[waitsOn'[s]] # "unused"
  <2>1. state'[e] # "unused"
    BY <1>5, Zenon
  <2>2. QED BY <1>1, <1>2, <1>5, <1>7, <2>1, HeldKept, Zenon
<1>9. TypeOK'
  BY <1>1, <1>4, <1>5, <1>6, <1>8, Zenon DEF RegInv, TypeOK, Points
<1>10. \A k \in AllKeys : registry[k] # None => registry[k] \in Entries /\ registry[k] # e
  BY <1>1, <1>3, Zenon DEF RegInv, Used
<1>11. KeysKeptApart' /\ Used'
  <2>1. \A k \in AllKeys : registry'[k] # None =>
          entryKey'[registry'[k]] = k /\ state'[registry'[k]] # "unused"
    BY <1>1, <1>5, <1>10 DEF RegInv, KeysKeptApart, Used
  <2>2. KeysKeptApart'
    BY <1>8, <2>1, Zenon DEF KeysKeptApart
  <2>3. Used'
    BY <1>8, <2>1, Zenon DEF Used
  <2>4. QED BY <2>2, <2>3, Zenon
<1>12. /\ held'[r][phase'[r]] = e /\ e # None
       /\ \A s \in Requests \ {r} :
            pc'[s] = pc[s] /\ held'[s][phase'[s]] = held[s][phase[s]]
  <2>1. phase' = phase
    BY <1>1, Zenon
  <2>2. QED BY <1>3, <1>4, <1>8, <2>1, Apart
<1>13. \A s \in Requests : pc[s] = "store" => s # r /\ held[s][phase[s]] # e
  <2>1. \A s \in Requests : pc[s] = "store" => held[s][phase[s]] # None
    BY Zenon DEF RegInv, Storing
  <2>2. QED BY <1>1, <1>3, <2>1, Zenon DEF RegInv, Used
<1>14. Storing'
  <2>1. \A k \in AllKeys : registry'[k] # e
    BY <1>1, <1>10, <1>12, Zenon
  <2>2. registry' = registry
    BY <1>1, Zenon
  <2> SUFFICES ASSUME NEW s \in Requests, pc'[s] = "store"
               PROVE  /\ held'[s][phase'[s]] # None
                      /\ \A k \in AllKeys : registry'[k] # held'[s][phase'[s]]
                      /\ \A q \in Requests : pc'[q] = "store"
                           /\ held'[q][phase'[q]] = held'[s][phase'[s]] => q = s
    BY Zenon DEF Storing
  <2>3. CASE s = r
    BY <1>12, <1>13, <2>1, <2>3, Zenon
  <2>4. CASE s # r
    <3>1. pc[s] = "store" /\ held'[s][phase'[s]] = held[s][phase[s]]
      BY <1>12, <2>4, Zenon
    <3>2. /\ held[s][phase[s]] # None /\ held[s][phase[s]] # e
          /\ \A k \in AllKeys : registry[k] # held[s][phase[s]]
          /\ \A q \in Requests : pc[q] = "store"
               /\ held[q][phase[q]] = held[s][phase[s]] => q = s
      BY <1>13, <3>1, Zenon DEF RegInv, Storing
    <3>3. QED BY <1>12, <2>2, <3>1, <3>2, Zenon
  <2>5. QED BY <2>3, <2>4, Zenon
<1>15. Placed'
  <2>1. \A s \in Requests, p \in Phases : held[s][p] # None => held'[s][p] # None
    BY <1>8, <1>12
  <2>2. QED BY <1>1, <1>3, <1>4, <2>1, Zenon DEF RegInv, Placed, Phases
<1>16. Collecting'
  <2>1. /\ gcTodo \subseteq AllKeys /\ gcKey \in AllKeys
        /\ \A k \in AllKeys : registry[k] # None => state'[registry[k]] = state[registry[k]]
    BY <1>5, <1>10, Zenon DEF RegInv, TypeOK
  <2>2. QED BY <1>1, <2>1, Zenon DEF RegInv, Collecting
<1>17. Quiet' /\ NoneRunAfterStop'
  BY <1>1, Zenon DEF RegInv, Quiet, NoneRunAfterStop
<1>18. NoLeakedDispatcher'
  <2> SUFFICES ASSUME NEW f \in Entries, state'[f] = "running"
               PROVE  \/ registry'[entryKey'[f]] = f
                      \/ \E s \in Requests : pc'[s] = "store" /\ held'[s][phase'[s]] = f
    BY Zenon DEF NoLeakedDispatcher
  <2>1. CASE f = e
    BY <1>4, <1>12, <2>1, Zenon
  <2>2. CASE f # e
    <3>1. state[f] = "running" /\ entryKey'[f] = entryKey[f] /\ registry' = registry
      BY <1>1, <1>5, <2>2, Zenon
    <3>2. \/ registry[entryKey[f]] = f
          \/ \E s \in Requests : pc[s] = "store" /\ held[s][phase[s]] = f
      BY <3>1, Zenon DEF RegInv, NoLeakedDispatcher
    <3>3. QED BY <1>12, <1>13, <3>1, <3>2, Zenon
  <2>3. QED BY <2>1, <2>2, Zenon
<1>19. QED BY <1>9, <1>11, <1>14, <1>15, <1>16, <1>17, <1>18, Zenon DEF RegInv

(* LoadOrStore registers the new entry, or stops it for another's.         *)
LEMMA RegStore == ASSUME RegInv, NEW r \in Requests, Store(r) PROVE RegInv'
<1> DEFINE mine == held[r][phase[r]]
           found == registry[Target(r)]
<1>1. /\ UNCHANGED <<entryKey, tokens, paid, queued, ready, waitsOn, key, mode, gone, idle,
                     answer, gcpc, gcKey, gcTodo, done>>
      /\ pc[r] = "store"
      /\ \/ /\ found = None
            /\ registry' = [registry EXCEPT ![Target(r)] = mine]
            /\ UNCHANGED <<state, held>>
         \/ /\ found # None
            /\ state' = [state EXCEPT ![mine] = "stopped"]
            /\ held' = [held EXCEPT ![r][phase[r]] = found]
            /\ UNCHANGED registry
  BY Zenon DEF Store, bucketVars, queueVars, inputVars, gcVars
<1>2. /\ state \in [Entries -> {"unused", "running", "stopped"}]
      /\ registry \in [AllKeys -> Entries \cup {None}]
      /\ held \in [Requests -> [Phases -> Entries \cup {None}]]
      /\ phase \in [Requests -> Phases]
      /\ Target(r) \in AllKeys /\ mine \in Entries
  BY <1>1, Apart DEF RegInv, TypeOK, Target, Storing
<1>3. /\ pc' \in [Requests -> Points] /\ phase' \in [Requests -> Phases]
      /\ \A s \in Requests \ {r} : pc'[s] = pc[s] /\ phase'[s] = phase[s]
      /\ \/ phase[r] = "own" /\ pc'[r] = "load" /\ phase'[r] = "app"
         \/ phase[r] = "own" /\ pc'[r] = "consume" /\ phase'[r] = "own"
         \/ phase[r] = "app" /\ pc'[r] = "appTry" /\ phase'[r] = "app"
         \/ phase[r] = "update" /\ pc'[r] = "done" /\ phase'[r] = "update"
  BY ProceedFacts, Zenon DEF Store
<1>4. /\ entryKey[mine] = Target(r) /\ state[mine] # "unused"
      /\ \A k \in AllKeys : registry[k] # mine
      /\ \A s \in Requests \ {r} : pc[s] = "store" => held[s][phase[s]] # mine
      /\ found # None => entryKey[found] = Target(r) /\ state[found] # "unused"
  <2>1. entryKey[mine] = Target(r) /\ state[mine] # "unused"
    BY <1>2, Apart, Zenon DEF RegInv, KeysKeptApart, Used, Target
  <2>2. /\ \A k \in AllKeys : registry[k] # mine
        /\ \A s \in Requests \ {r} : pc[s] = "store" => held[s][phase[s]] # mine
    BY <1>1, Zenon DEF RegInv, Storing
  <2>3. found # None => entryKey[found] = Target(r) /\ state[found] # "unused"
    BY <1>2, Zenon DEF RegInv, KeysKeptApart, Used
  <2>4. QED BY <2>1, <2>2, <2>3, Zenon
<1> HIDE DEF Target
<1>5. Lasting
  BY <1>1, <1>2, Zenon DEF Lasting
<1>6. /\ held' \in [Requests -> [Phases -> Entries \cup {None}]]
      /\ \A s \in Requests, p \in Phases :
           held'[s][p] = held[s][p] \/ (s = r /\ p = phase[r] /\ held'[s][p] \in Entries)
      /\ \A s \in Requests : \A p \in Phases : held'[s][p] # None =>
           /\ entryKey'[held'[s][p]] = IF p = "app" THEN App ELSE key'[s]
           /\ state'[held'[s][p]] # "unused"
      /\ \A s \in Requests : waitsOn'[s] # None =>
           entryKey'[waitsOn'[s]] = key'[s] /\ state'[waitsOn'[s]] # "unused"
      /\ held'[r][phase[r]] \in Entries
  <2>1. CASE found = None
    <3>1. held' = held
      BY <1>1, <2>1, Zenon
    <3>2. QED BY <1>1, <1>2, <1>5, <3>1, HeldSame, Zenon
  <2>2. CASE found # None
    <3>1. /\ found \in Entries /\ held' = [held EXCEPT ![r][phase[r]] = found]
          /\ entryKey'[found] = Target(r) /\ state'[found] # "unused"
      BY <1>1, <1>2, <1>4, <2>2, Zenon
    <3> HIDE DEF found, mine
    <3>2. /\ held' \in [Requests -> [Phases -> Entries \cup {None}]]
          /\ \A s \in Requests, p \in Phases :
               held'[s][p] = IF s = r /\ p = phase[r] THEN found ELSE held[s][p]
          /\ \A s \in Requests : \A p \in Phases : held'[s][p] # None =>
               /\ entryKey'[held'[s][p]] = IF p = "app" THEN App ELSE key'[s]
               /\ state'[held'[s][p]] # "unused"
          /\ \A s \in Requests : waitsOn'[s] # None =>
               entryKey'[waitsOn'[s]] = key'[s] /\ state'[waitsOn'[s]] # "unused"
      BY <1>1, <1>5, <3>1, HeldKept, Zenon
    <3>3. QED BY <3>1, <3>2
  <2>3. QED BY <2>1, <2>2, Zenon
<1>7. /\ registry' \in [AllKeys -> Entries \cup {None}]
      /\ \A k \in AllKeys :
           \/ registry'[k] = registry[k]
           \/ k = Target(r) /\ registry[k] = None /\ registry'[k] = mine
  BY <1>1, <1>2, Zenon
<1>8. /\ state' \in [Entries -> {"unused", "running", "stopped"}]
      /\ \A f \in Entries : state'[f] = state[f] \/ (state'[f] = "stopped" /\ f = mine)
      /\ state'[mine] = "stopped" \/ registry'[Target(r)] = mine
  BY <1>1, <1>2, Zenon
<1>9. TypeOK'
  BY <1>1, <1>3, <1>6, <1>7, Zenon DEF RegInv, TypeOK, Points
<1>10. entryKey' = entryKey
  BY <1>1, Zenon
<1> HIDE DEF mine, found
<1>11. KeysKeptApart' /\ Used'
  <2>1. \A k \in AllKeys : registry[k] # None =>
          registry[k] \in Entries /\ entryKey[registry[k]] = k /\ state[registry[k]] # "unused"
    BY <1>2 DEF RegInv, KeysKeptApart, Used
  <2>2. \A f \in Entries : state[f] # "unused" => state'[f] # "unused"
    BY <1>8, Zenon
  <2>3. \A k \in AllKeys : registry'[k] # None =>
          entryKey[registry'[k]] = k /\ state'[registry'[k]] # "unused"
    BY <1>2, <1>4, <1>7, <2>1, <2>2, Zenon
  <2>4. KeysKeptApart'
    BY <1>6, <1>10, <2>3, Zenon DEF KeysKeptApart
  <2>5. Used'
    BY <1>6, <2>3, Zenon DEF Used
  <2>6. QED BY <2>4, <2>5, Zenon
<1>12. \A s \in Requests : pc'[s] = "store" =>
         s # r /\ pc[s] = "store" /\ held'[s][phase'[s]] = held[s][phase[s]]
  <2>1. \A s \in Requests : pc'[s] = "store" => s # r /\ pc[s] = "store" /\ phase'[s] = phase[s]
    BY <1>3, Zenon
  <2>2. QED BY <1>2, <1>6, <2>1
<1>13. Storing'
  <2> SUFFICES ASSUME NEW s \in Requests, pc'[s] = "store"
               PROVE  /\ held'[s][phase'[s]] # None
                      /\ \A k \in AllKeys : registry'[k] # held'[s][phase'[s]]
                      /\ \A q \in Requests : pc'[q] = "store"
                           /\ held'[q][phase'[q]] = held'[s][phase'[s]] => q = s
    BY Zenon DEF Storing
  <2>1. s # r /\ pc[s] = "store" /\ held'[s][phase'[s]] = held[s][phase[s]]
    BY <1>12, Zenon
  <2>2. /\ held[s][phase[s]] # None /\ held[s][phase[s]] # mine
        /\ \A k \in AllKeys : registry[k] # held[s][phase[s]]
        /\ \A q \in Requests : pc[q] = "store"
             /\ held[q][phase[q]] = held[s][phase[s]] => q = s
    BY <1>4, <2>1, Zenon DEF RegInv, Storing
  <2>3. \A k \in AllKeys : registry'[k] # held[s][phase[s]]
    BY <1>7, <2>2, Zenon
  <2>4. QED BY <1>12, <2>1, <2>2, <2>3, Zenon
<1>14. Placed'
  <2>1. \A s \in Requests, p \in Phases : held[s][p] # None => held'[s][p] # None
    BY <1>6, Apart, Zenon
  <2> SUFFICES ASSUME NEW s \in Requests
               PROVE  /\ pc'[s] = "touch" => held'[s][phase'[s]] # None
                      /\ phase'[s] = "app" => held'[s]["own"] # None
                      /\ pc'[s] \in {"appTry", "appSleep"} =>
                           phase'[s] = "app" /\ held'[s]["app"] # None
                      /\ pc'[s] = "consume" => held'[s]["own"] # None
                      /\ pc'[s] \in {"enqueue", "wait"} => waitsOn'[s] # None
    BY Zenon DEF Placed
  <2>2. /\ pc[s] = "touch" => held[s][phase[s]] # None
        /\ phase[s] = "app" => held[s]["own"] # None
        /\ pc[s] \in {"appTry", "appSleep"} => phase[s] = "app" /\ held[s]["app"] # None
        /\ pc[s] = "consume" => held[s]["own"] # None
        /\ pc[s] \in {"enqueue", "wait"} => waitsOn[s] # None
    BY Zenon DEF RegInv, Placed
  <2>3. CASE s # r
    <3>1. pc'[s] = pc[s] /\ phase'[s] = phase[s] /\ waitsOn' = waitsOn /\ phase[s] \in Phases
      BY <1>1, <1>2, <1>3, <2>3, Zenon
    <3>2. "own" \in Phases /\ "app" \in Phases
      BY Zenon DEF Phases
    <3>3. QED BY <2>1, <2>2, <3>1, <3>2, Zenon
  <2>4. CASE s = r
    <3>1. held'[r][phase[r]] # None
      BY <1>6, Apart, Zenon
    <3>2. QED BY <1>3, <2>1, <2>2, <2>4, <3>1, Zenon DEF Phases
  <2>5. QED BY <2>3, <2>4, Zenon
<1>15. Collecting'
  <2>1. /\ gcTodo \subseteq AllKeys /\ gcKey \in AllKeys
        /\ \A k \in AllKeys : registry[k] # None => registry'[k] = registry[k]
    BY <1>7, Zenon DEF RegInv, TypeOK
  <2>2. \A k \in AllKeys : registry[k] # None /\ state[registry[k]] = "stopped" =>
          state'[registry[k]] = "stopped"
    BY <1>2, <1>4, <1>8, Zenon
  <2>3. QED BY <1>1, <2>1, <2>2, Zenon DEF RegInv, Collecting
<1>16. Quiet' /\ NoneRunAfterStop'
  BY <1>1, Zenon DEF RegInv, Quiet, NoneRunAfterStop
<1>17. NoLeakedDispatcher'
  <2> SUFFICES ASSUME NEW e \in Entries, state'[e] = "running"
               PROVE  \/ registry'[entryKey'[e]] = e
                      \/ \E s \in Requests : pc'[s] = "store" /\ held'[s][phase'[s]] = e
    BY Zenon DEF NoLeakedDispatcher
  <2>1. CASE e = mine
    BY <1>1, <1>4, <1>8, <2>1, Zenon
  <2>2. CASE e # mine
    <3>1. state[e] = "running" /\ entryKey[e] \in AllKeys
      BY <1>8, Zenon DEF RegInv, TypeOK
    <3>2. CASE registry[entryKey[e]] = e
      BY <1>1, <1>7, <3>1, <3>2, Apart, Zenon
    <3>3. CASE \E s \in Requests : pc[s] = "store" /\ held[s][phase[s]] = e
      <4>1. PICK s \in Requests : pc[s] = "store" /\ held[s][phase[s]] = e
        BY <3>3, Zenon
      <4>2. s # r
        BY <2>2, <4>1, Zenon DEF mine
      <4>3. QED BY <1>3, <1>6, <4>1, <4>2
    <3>4. QED BY <3>1, <3>2, <3>3, Zenon DEF RegInv, NoLeakedDispatcher
  <2>3. QED BY <2>1, <2>2, Zenon
<1>18. QED BY <1>9, <1>11, <1>13, <1>14, <1>15, <1>16, <1>17, Zenon DEF RegInv

(* The second lookup finds an entry of the same key, or none.              *)
LEMMA RegGetQueue == ASSUME RegInv, NEW r \in Requests, GetQueue(r) PROVE RegInv'
<1>1. /\ UNCHANGED <<registry, state, entryKey, held, tokens, paid, queued, ready, key, mode,
                     gone, gcpc, gcKey, gcTodo, done, idle, phase, answer>>
      /\ pc[r] = "getQueue"
  BY Zenon DEF GetQueue, Move, entryVars, bucketVars, inputVars, gcVars
<1>2. /\ waitsOn \in [Requests -> Entries \cup {None}] /\ pc \in [Requests -> Points]
      /\ registry \in [AllKeys -> Entries \cup {None}] /\ key[r] \in AllKeys
  BY Apart, Zenon DEF RegInv, TypeOK, Points
<1>3. /\ pc' \in [Requests -> Points]
      /\ \A s \in Requests : s # r => pc'[s] = pc[s]
      /\ pc'[r] \in {"fail", "enqueue"}
  BY <1>2, Zenon DEF GetQueue, Move, Points
<1>4. /\ waitsOn' \in [Requests -> Entries \cup {None}]
      /\ \A s \in Requests : s # r => waitsOn'[s] = waitsOn[s]
      /\ waitsOn'[r] = waitsOn[r] \/ (waitsOn'[r] = registry[key[r]] /\ waitsOn'[r] # None)
  BY <1>2, Zenon DEF GetQueue
<1>5. pc'[r] = "enqueue" => waitsOn'[r] # None
  BY <1>2, Zenon DEF GetQueue, Move
<1>6. TypeOK'
  BY <1>1, <1>3, <1>4, Zenon DEF RegInv, TypeOK, Points
<1>7. KeysKeptApart' /\ Used'
  <2>1. registry[key[r]] # None =>
          entryKey[registry[key[r]]] = key[r] /\ state[registry[key[r]]] # "unused"
    BY <1>2, Zenon DEF RegInv, KeysKeptApart, Used
  <2>2. \A s \in Requests : waitsOn'[s] # None =>
          entryKey[waitsOn'[s]] = key[s] /\ state[waitsOn'[s]] # "unused"
    BY <1>4, <2>1 DEF RegInv, KeysKeptApart, Used
  <2>3. KeysKeptApart'
    BY <1>1, <2>2, Zenon DEF RegInv, KeysKeptApart
  <2>4. Used'
    BY <1>1, <2>2, Zenon DEF RegInv, Used
  <2>5. QED BY <2>3, <2>4, Zenon
<1>8. Storing' /\ NoLeakedDispatcher'
  <2>1. \A s \in Requests : pc'[s] = "store" <=> pc[s] = "store"
    BY <1>1, <1>3, Zenon
  <2>2. QED BY <1>1, <2>1, StoringKept, OwnersKept, Zenon DEF RegInv
<1>9. Placed'
  BY <1>1, <1>3, <1>4, <1>5, Zenon DEF RegInv, Placed
<1>10. Collecting' /\ Quiet' /\ NoneRunAfterStop'
  BY <1>1, <1>3, Zenon DEF RegInv, Collecting, Quiet, NoneRunAfterStop
<1>11. QED BY <1>6, <1>7, <1>8, <1>9, <1>10, Zenon DEF RegInv

(* The collector's pass starts with the keys there are.                    *)
LEMMA RegGcStart == ASSUME RegInv, GcStart PROVE RegInv'
<1>1. /\ UNCHANGED <<registry, state, entryKey, held, tokens, paid, queued, ready, waitsOn, key,
                     mode, gone, gcKey, done, idle, phase, answer, pc>>
      /\ gcTodo' = {k \in AllKeys : registry[k] # None} /\ gcpc' = "check"
  BY Zenon DEF GcStart, entryVars, bucketVars, queueVars, inputVars
<1>2. TypeOK'
  BY <1>1, Zenon DEF RegInv, TypeOK
<1>3. /\ KeysKeptApart' /\ Used' /\ Storing' /\ Placed' /\ Quiet'
      /\ NoLeakedDispatcher' /\ NoneRunAfterStop'
  BY <1>1, CollectorApart, Zenon
<1>4. Collecting'
  BY <1>1, Zenon DEF Collecting
<1>5. QED BY <1>2, <1>3, <1>4, Zenon DEF RegInv

(* A key it has picked stays registered until it deletes it.               *)
LEMMA RegGcCheck == ASSUME RegInv, NEW k \in AllKeys, GcCheck(k) PROVE RegInv'
<1>1. /\ UNCHANGED <<registry, state, entryKey, held, tokens, paid, queued, ready, waitsOn, key,
                     mode, gone, done, idle, phase, answer, pc>>
      /\ k \in gcTodo /\ gcTodo' = gcTodo \ {k}
      /\ \/ gcpc' = "stop" /\ gcKey' = k
         \/ gcpc' \in {"idle", "check"} /\ gcKey' = gcKey
  BY Zenon DEF GcCheck, entryVars, bucketVars, queueVars, inputVars
<1>2. TypeOK'
  BY <1>1, Zenon DEF RegInv, TypeOK
<1>3. /\ KeysKeptApart' /\ Used' /\ Storing' /\ Placed' /\ Quiet'
      /\ NoLeakedDispatcher' /\ NoneRunAfterStop'
  BY <1>1, CollectorApart, Zenon
<1>4. Collecting'
  BY <1>1, Zenon DEF RegInv, Collecting
<1>5. QED BY <1>2, <1>3, <1>4, Zenon DEF RegInv

(* Stopping queues, one or all, leaves entries in use and keys alone.      *)
LEMMA RegGcStop == ASSUME RegInv, GcStop PROVE RegInv'
<1>1. /\ UNCHANGED <<registry, entryKey, held, tokens, paid, queued, ready, waitsOn, key,
                     mode, gone, done, idle, phase, answer, pc, gcKey, gcTodo>>
      /\ gcpc = "stop" /\ gcpc' = "delete"
  BY Zenon DEF GcStop, bucketVars, queueVars, inputVars
<1>2. /\ state \in [Entries -> {"unused", "running", "stopped"}]
      /\ registry[gcKey] \in Entries
  <2>1. registry \in [AllKeys -> Entries \cup {None}] /\ gcKey \in AllKeys
    BY Zenon DEF RegInv, TypeOK
  <2>2. registry[gcKey] # None
    BY <1>1, Zenon DEF RegInv, Collecting
  <2>3. state \in [Entries -> {"unused", "running", "stopped"}]
    BY Zenon DEF RegInv, TypeOK
  <2> QED BY <2>1, <2>2, <2>3, Zenon
<1>3. /\ state' \in [Entries -> {"unused", "running", "stopped"}]
      /\ state'[registry[gcKey]] = "stopped"
      /\ \A f \in Entries : state'[f] = state[f] \/ state'[f] = "stopped"
  BY <1>2, Zenon DEF GcStop
<1>4. Lasting
  BY <1>1, <1>3, Zenon DEF Lasting
<1>5. TypeOK'
  BY <1>1, <1>3, Zenon DEF RegInv, TypeOK
<1>6. KeysKeptApart' /\ Used'
  BY <1>1, <1>4, RegisteredKept, Zenon
<1>7. Storing' /\ Placed' /\ Quiet'
  BY <1>1, StoringKept, Zenon DEF RegInv, Placed, Quiet
<1>8. Collecting'
  BY <1>1, <1>3, Zenon DEF RegInv, Collecting
<1>9. NoLeakedDispatcher' /\ NoneRunAfterStop'
  <2>1. \A f \in Entries : state'[f] = "running" => state[f] = "running"
    BY <1>3, Zenon
  <2>2. QED BY <1>1, <2>1, OwnersKept, Zenon DEF RegInv, NoneRunAfterStop
<1>10. QED BY <1>5, <1>6, <1>7, <1>8, <1>9, Zenon DEF RegInv

(* What the collector deletes has been stopped.                            *)
LEMMA RegGcDelete == ASSUME RegInv, GcDelete PROVE RegInv'
<1>1. /\ UNCHANGED <<state, entryKey, held, tokens, paid, queued, ready, waitsOn, key,
                     mode, gone, done, idle, phase, answer, pc, gcKey, gcTodo>>
      /\ gcpc = "delete" /\ gcpc' \in {"idle", "check"}
  BY Zenon DEF GcDelete, bucketVars, queueVars, inputVars
<1>2. /\ registry \in [AllKeys -> Entries \cup {None}] /\ gcKey \in AllKeys
      /\ gcTodo \subseteq AllKeys /\ entryKey \in [Entries -> AllKeys]
  BY Zenon DEF RegInv, TypeOK
<1>3. /\ registry' \in [AllKeys -> Entries \cup {None}] /\ registry'[gcKey] = None
      /\ \A k \in AllKeys \ {gcKey} : registry'[k] = registry[k]
  BY <1>2, Zenon DEF GcDelete
<1>4. TypeOK'
  BY <1>1, <1>3, Zenon DEF RegInv, TypeOK
<1>5. KeysKeptApart' /\ Used'
  <2>1. \A k \in AllKeys : registry'[k] # None => registry'[k] = registry[k]
    BY <1>3, Zenon
  <2>2. KeysKeptApart'
    BY <1>1, <2>1, Zenon DEF RegInv, KeysKeptApart
  <2>3. Used'
    BY <1>1, <2>1, Zenon DEF RegInv, Used
  <2>4. QED BY <2>2, <2>3, Zenon
<1>6. Storing' /\ Placed' /\ Quiet' /\ NoneRunAfterStop'
  <2>1. \A s \in Requests : pc[s] = "store" => \A k \in AllKeys : registry'[k] # held[s][phase[s]]
    BY <1>3, Zenon DEF RegInv, Storing
  <2>2. Storing'
    BY <1>1, <2>1, Zenon DEF RegInv, Storing
  <2>3. QED BY <1>1, <2>2, Zenon DEF RegInv, Placed, Quiet, NoneRunAfterStop
<1>7. Collecting'
  <2>1. gcKey \notin gcTodo /\ \A k \in gcTodo : registry[k] # None
    BY <1>1, Zenon DEF RegInv, Collecting
  <2>2. QED BY <1>1, <1>2, <1>3, <2>1, Zenon DEF Collecting
<1>8. NoLeakedDispatcher'
  <2>1. \A e \in Entries : state[e] = "running" => registry[gcKey] # e
    BY <1>1, Zenon DEF RegInv, Collecting
  <2>2. \A e \in Entries : state[e] = "running" /\ registry[entryKey[e]] = e =>
          registry'[entryKey[e]] = e
    BY <1>2, <1>3, <2>1, Zenon
  <2>3. QED BY <1>1, <2>2, Zenon DEF RegInv, NoLeakedDispatcher
<1>9. QED BY <1>4, <1>5, <1>6, <1>7, <1>8, Zenon DEF RegInv

(* When the handlers are done every running dispatcher is registered, so   *)
(* Stop reaches it.                                                        *)
LEMMA RegStop == ASSUME RegInv, Stop PROVE RegInv'
<1>1. /\ UNCHANGED <<registry, entryKey, held, tokens, paid, queued, ready, waitsOn, key,
                     mode, gone, idle, phase, answer, pc, gcpc, gcKey, gcTodo>>
      /\ \A r \in Requests : pc[r] = "done"
      /\ done' = TRUE
  BY Zenon DEF Stop, bucketVars, queueVars, inputVars
<1>2. /\ state \in [Entries -> {"unused", "running", "stopped"}]
      /\ entryKey \in [Entries -> AllKeys] /\ gcKey \in AllKeys
      /\ registry \in [AllKeys -> Entries \cup {None}]
  BY Zenon DEF RegInv, TypeOK
<1>3. /\ state' \in [Entries -> {"unused", "running", "stopped"}]
      /\ \A f \in Entries : state'[f] = state[f] \/ state'[f] = "stopped"
      /\ \A f \in Entries : (\E k \in AllKeys : registry[k] = f) => state'[f] = "stopped"
  BY <1>2, Zenon DEF Stop
<1>4. Lasting
  BY <1>1, <1>3, Zenon DEF Lasting
<1>5. TypeOK'
  BY <1>1, <1>3, Zenon DEF RegInv, TypeOK
<1>6. KeysKeptApart' /\ Used'
  BY <1>1, <1>4, RegisteredKept, Zenon
<1>7. Storing' /\ Placed' /\ Quiet'
  BY <1>1, StoringKept, Zenon DEF RegInv, Placed, Quiet
<1>8. Collecting'
  <2>1. gcpc = "delete" => registry[gcKey] \in Entries /\ state[registry[gcKey]] = "stopped"
    BY <1>2, Zenon DEF RegInv, Collecting
  <2>2. gcpc = "delete" => state'[registry[gcKey]] = "stopped"
    BY <1>3, <2>1, Zenon
  <2>3. QED BY <1>1, <2>2, Zenon DEF RegInv, Collecting
<1>9. NoneRunAfterStop' /\ NoLeakedDispatcher'
  <2>1. \A e \in Entries : state[e] = "running" => \E k \in AllKeys : registry[k] = e
    BY <1>1, <1>2, Zenon DEF RegInv, NoLeakedDispatcher
  <2>2. \A e \in Entries : state'[e] # "running"
    BY <1>3, <2>1, Zenon
  <2>3. QED BY <2>2, Zenon DEF NoneRunAfterStop, NoLeakedDispatcher
<1>10. QED BY <1>5, <1>6, <1>7, <1>8, <1>9, Zenon DEF RegInv

(* Every step preserves the registry's invariant.                          *)
LEMMA RegNext == ASSUME RegInv, [Next]_vars PROVE RegInv'
<1>1. ASSUME NEW r \in Requests, RequestStep(r) PROVE RegInv'
  BY <1>1, RegLoad, RegTouch, RegStore, RegCreate, RegAppTry, RegAppSleep, RegConsume,
     RegGetQueue, RegEnqueue, RegWake, RegFail, RegForward, Zenon DEF RequestStep
<1>2. ASSUME NEW r \in Requests, Disconnect(r) PROVE RegInv'
  BY <1>2, RegDisconnect, Zenon
<1>3. ASSUME NEW e \in Entries, NEW r \in Requests, Dispatch(e, r) PROVE RegInv'
  BY <1>3, RegDispatch, Zenon
<1>4. CASE Collector
  BY <1>4, RegGcStart, RegGcCheck, RegGcStop, RegGcDelete, Zenon DEF Collector
<1>5. CASE Stop
  BY <1>5, RegStop, Zenon
<1>6. ASSUME NEW e \in Entries, Refill(e) PROVE RegInv'
  BY <1>6, RegRefill, Zenon
<1>7. CASE Tick
  BY <1>7, RegTick, Zenon
<1>8. CASE UNCHANGED vars
  <2>1. TypeOK' /\ Placed'
    BY <1>8, Zenon
      DEF RegInv, TypeOK, Placed, vars, entryVars, bucketVars, queueVars, inputVars, gcVars
  <2>2. QED BY <1>8, <2>1, RegFrame, Zenon DEF vars, queueVars, inputVars
<1>9. QED BY <1>1, <1>2, <1>3, <1>4, <1>5, <1>6, <1>7, <1>8, Zenon DEF Next

(* The registry's invariant holds in every behaviour of the limiter        *)
(* (limiter.go:36-193).                                                    *)
THEOREM RegistryHolds == Spec => []RegInv
BY RegInit, RegNext, PTL DEF Spec

(* No dispatcher is left running without an owner, however many requests   *)
(* race to create an entry while the collector removes some                *)
(* (limiter.go:47-60, 153-167).                                            *)
THEOREM DispatchersOwned == Spec => []NoLeakedDispatcher
<1>1. RegInv => NoLeakedDispatcher
  BY Zenon DEF RegInv
<1>2. QED BY <1>1, RegistryHolds, PTL

(* After Stop no dispatcher runs, wherever the collector was in its pass   *)
(* (limiter.go:178-193).                                                   *)
THEOREM StopReachesAll == Spec => []NoneRunAfterStop
<1>1. RegInv => NoneRunAfterStop
  BY Zenon DEF RegInv
<1>2. QED BY <1>1, RegistryHolds, PTL

(* Nobody ever uses a bucket or a queue made for another key               *)
(* (limiter.go:36, 94-100).                                                *)
THEOREM BucketsSeparate == Spec => []KeysKeptApart
<1>1. RegInv => KeysKeptApart
  BY Zenon DEF RegInv
<1>2. QED BY <1>1, RegistryHolds, PTL

-----------------------------------------------------------------------------
(* Payments and answers.                                                   *)

(* The tokens of its own key, and of the application-wide limit, that were *)
(* taken for a request.                                                    *)
OwnPaid(r) == paid[r][key[r]]
AppPaid(r) == paid[r][App]

(* It never costs more than one of each, nor anything of another key.      *)
InAccount(r) ==
  /\ OwnPaid(r) \in {0, 1} /\ AppPaid(r) \in {0, 1}
  /\ \A k \in AllKeys \ {key[r], App} : paid[r][k] = 0

(* On its way to a token of its own key.                                   *)
Unpaid(r) ==
  /\ phase[r] # "update"
  /\ pc[r] \in {"load", "touch", "create", "store", "appTry", "appSleep", "consume",
                "getQueue", "enqueue"}

(* Phase, answer and place of a request agree; in reject mode it never     *)
(* comes near a queue.                                                     *)
Course(r) ==
  /\ phase[r] = "update" =>
       answer[r] = "forwarded" /\ pc[r] \in {"load", "touch", "create", "store", "done"}
  /\ answer[r] = "forwarded" => phase[r] = "update"
  /\ answer[r] \in {"429", "499"} => pc[r] = "done"
  /\ answer[r] = "499" => r \in gone
  /\ mode[r] = "reject" =>
       /\ waitsOn[r] = None /\ answer[r] # "499"
       /\ pc[r] \notin {"appSleep", "getQueue", "enqueue", "wait", "fail"}
  /\ phase[r] = "app" => key[r] \in AppLimited

(* A request is in at most one queue, the one it chose, and not released.  *)
Queueing(r) ==
  /\ \A e \in Entries : r \in queued[e] =>
       /\ e = waitsOn[r] /\ r \notin ready
       /\ phase[r] # "update" /\ pc[r] \in {"wait", "fail", "done"}
  /\ Unpaid(r) => r \notin ready

(* It pays its own key on the fast path or in the queue, never both.       *)
OwnTokens(r) ==
  /\ InAccount(r)
  /\ Unpaid(r) \/ (pc[r] = "wait" /\ r \notin ready) \/ (\E e \in Entries : r \in queued[e])
       => OwnPaid(r) = 0
  /\ pc[r] = "wait" /\ r \in ready => OwnPaid(r) = 1
  /\ (pc[r] = "forward" \/ phase[r] = "update") /\ key[r] \in Known
       => OwnPaid(r) = 1

(* It pays the application-wide limit once, before its own key.            *)
AppTokens(r) ==
  /\ key[r] \notin AppLimited => AppPaid(r) = 0
  /\ /\ key[r] \in AppLimited /\ phase[r] # "update"
     /\ pc[r] \in {"load", "touch", "create", "store", "appTry", "appSleep"}
     => AppPaid(r) = 0
  /\ /\ key[r] \in AppLimited
     /\ phase[r] = "update" \/ pc[r] \in {"consume", "getQueue", "enqueue", "wait", "forward"}
     => AppPaid(r) = 1

(* Who may be refused after a dispatcher paid, or while one still may.     *)
Refusal(r) ==
  /\ pc[r] = "fail" \/ answer[r] \in {"429", "499"}
  /\ OwnPaid(r) # 0 \/ \E e \in Entries : r \in queued[e]
  => \/ r \in gone
     \/ mode[r] = "queue-timeout"
     \/ waitsOn[r] # None /\ state[waitsOn[r]] = "stopped"

Standing(r) == Course(r) /\ Queueing(r) /\ OwnTokens(r) /\ AppTokens(r) /\ Refusal(r)

(* The inductive invariant of the payments.                                *)
PayInv == \A r \in Requests : Standing(r)

----------------------------------------------------------------------------


(* No step takes an entry out of use, gives it another key or restarts it. *)
Onward ==
  /\ Lasting
  /\ \A e \in Entries : state[e] = "stopped" => state'[e] = "stopped"
  /\ UNCHANGED <<key, mode>>
  /\ gone \subseteq gone'

(* A step of somebody else, as r sees it.                                  *)
Kept(r) ==
  /\ pc'[r] = pc[r] /\ phase'[r] = phase[r] /\ waitsOn'[r] = waitsOn[r]
  /\ paid'[r] = paid[r] /\ answer'[r] = answer[r]
  /\ r \in ready' <=> r \in ready
  /\ \A e \in Entries : r \in queued'[e] <=> r \in queued[e]

(* Every step of the limiter is one of these.                              *)
LEMMA StepOnward == ASSUME RegInv, [Next]_vars PROVE Onward
<1> USE DEF Onward, Lasting, entryVars, inputVars, Move, Answer
<1>0. state \in [Entries -> {"unused", "running", "stopped"}] /\ entryKey \in [Entries -> AllKeys]
  BY Zenon DEF RegInv, TypeOK
<1>1. ASSUME NEW r \in Requests, RequestStep(r) PROVE Onward
  <2>1. ASSUME NEW e \in Entries, Create(r, e) PROVE Onward
    BY <2>1 DEF Create
  <2>2. CASE Store(r)
    BY <1>0, <2>2, Zenon DEF Store
  <2> QED
    BY <1>1, <2>1, <2>2, Zenon DEF RequestStep, Load, Touch, AppTry, AppSleep, Consume, GetQueue,
       Enqueue, Wake, Fail, Forward
<1>2. ASSUME NEW r \in Requests, Disconnect(r) PROVE Onward
  BY <1>2, Zenon DEF Disconnect
<1>3. ASSUME NEW e \in Entries, NEW r \in Requests, Dispatch(e, r) PROVE Onward
  BY <1>3, Zenon DEF Dispatch
<1>4. CASE Collector
  BY <1>0, <1>4, Zenon DEF Collector, GcStart, GcCheck, GcStop, GcDelete
<1>5. CASE Stop
  BY <1>5, Zenon DEF Stop
<1>6. CASE Tick \/ \E e \in Entries : Refill(e)
  BY <1>6, Zenon DEF Tick, Refill
<1>7. CASE UNCHANGED vars
  BY <1>7, Zenon DEF vars
<1> QED BY <1>1, <1>2, <1>3, <1>4, <1>5, <1>6, <1>7, Zenon DEF Next

(* Paying nothing leaves the accounts as they were.                        *)
LEMMA PaidSame ==
  ASSUME Onward, NEW r \in Requests, OwnTokens(r), paid'[r] = paid[r]
  PROVE  OwnPaid(r)' = OwnPaid(r) /\ AppPaid(r)' = AppPaid(r) /\ InAccount(r)'
BY Zenon DEF Onward, OwnTokens, InAccount, OwnPaid, AppPaid

(* Paying a token adds it to the account of the bucket's key.              *)
LEMMA PaidOne ==
  ASSUME RegInv, Onward, NEW r \in Requests, OwnTokens(r), NEW e \in Entries,
         paid'[r] = [paid[r] EXCEPT ![entryKey[e]] = @ + 1]
  PROVE  /\ entryKey[e] = key[r] /\ OwnPaid(r) = 0 =>
              OwnPaid(r)' = 1 /\ AppPaid(r)' = AppPaid(r) /\ InAccount(r)'
         /\ entryKey[e] = App /\ AppPaid(r) = 0 =>
              OwnPaid(r)' = OwnPaid(r) /\ AppPaid(r)' = 1 /\ InAccount(r)'
<1>1. /\ paid[r] \in [AllKeys -> Nat] /\ key[r] \in AllKeys /\ App \in AllKeys
      /\ key[r] # App /\ key'[r] = key[r]
  <2>1. paid \in [Requests -> [AllKeys -> Nat]] /\ key \in [Requests -> Keys]
    BY Zenon DEF RegInv, TypeOK
  <2>2. paid[r] \in [AllKeys -> Nat] /\ key[r] \in Keys /\ key'[r] = key[r]
    BY <2>1, Zenon DEF Onward
  <2> QED BY <2>2, Apart, Zenon
<1>2. \A k \in AllKeys : paid'[r][k] = IF k = entryKey[e] THEN paid[r][k] + 1 ELSE paid[r][k]
  BY <1>1, Zenon
<1>3. 0 + 1 = 1
  OBVIOUS
<1> QED BY <1>1, <1>2, <1>3, Zenon DEF OwnTokens, InAccount, OwnPaid, AppPaid

(* Nobody else's step changes where a request stands.                      *)
LEMMA StandingKept ==
  ASSUME RegInv, Onward, NEW r \in Requests, Standing(r), Kept(r)
  PROVE  Standing(r)'
<1>1. /\ OwnPaid(r)' = OwnPaid(r) /\ AppPaid(r)' = AppPaid(r)
      /\ InAccount(r)'
  BY PaidSame, Zenon DEF Standing, Kept
<1>2. Course(r)'
  BY Zenon DEF Standing, Kept, Onward, Course
<1>3. Queueing(r)' /\ (Unpaid(r)' <=> Unpaid(r))
  BY Zenon DEF Standing, Kept, Queueing, Unpaid
<1>4. OwnTokens(r)'
  BY <1>1, <1>3, Zenon DEF Standing, Kept, Onward, OwnTokens
<1>5. AppTokens(r)'
  BY <1>1, Zenon DEF Standing, Kept, Onward, AppTokens
<1>6. Refusal(r)'
  <2>1. waitsOn[r] # None => waitsOn[r] \in Entries
    BY Zenon DEF RegInv, TypeOK
  <2> QED BY <1>1, <2>1, Zenon DEF Standing, Kept, Onward, Refusal
<1> QED BY <1>2, <1>3, <1>4, <1>5, <1>6, Zenon DEF Standing

(* Nobody has paid at the start.                                           *)
LEMMA PayInit == ASSUME Init PROVE PayInv
<1> SUFFICES ASSUME NEW r \in Requests PROVE Standing(r)
    BY Zenon DEF PayInv
<1>1. /\ pc[r] = "load" /\ phase[r] = "own" /\ answer[r] = "none" /\ waitsOn[r] = None
      /\ paid[r] = [k \in AllKeys |-> 0] /\ ready = {} /\ \A e \in Entries : queued[e] = {}
  BY Zenon DEF Init
<1>2. OwnPaid(r) = 0 /\ AppPaid(r) = 0 /\ InAccount(r)
  BY <1>1, Apart, Zenon DEF Init, OwnPaid, AppPaid, InAccount
<1>3. Course(r) /\ Queueing(r)
  BY <1>1, Zenon DEF Course, Queueing
<1>4. OwnTokens(r) /\ AppTokens(r) /\ Refusal(r)
  BY <1>1, <1>2, Zenon DEF OwnTokens, AppTokens, Refusal
<1> QED BY <1>3, <1>4, Zenon DEF Standing

(* It is enough to look at the request that moves.                         *)
LEMMA PayMover ==
  ASSUME RegInv, PayInv, Onward, NEW r \in Requests, Standing(r)',
         \A s \in Requests : s # r => Kept(s)
  PROVE  PayInv'
BY StandingKept, Zenon DEF PayInv

(* A step in which no request moves.                                       *)
LEMMA PayNobody ==
  ASSUME RegInv, PayInv, Onward, \A s \in Requests : Kept(s)
  PROVE  PayInv'
BY StandingKept, Zenon DEF PayInv

(* The steps of GetBucket and GetAppBucket, and where they lead.           *)
Lookups == {"load", "touch", "create", "store"}

Walk(r) ==
  /\ pc[r] \in Lookups /\ answer'[r] = answer[r]
  /\ \/ pc'[r] \in Lookups /\ phase'[r] = phase[r]
     \/ pc'[r] = "load" /\ phase[r] = "own" /\ phase'[r] = "app" /\ key[r] \in AppLimited
     \/ pc'[r] = "consume" /\ phase[r] = "own" /\ phase'[r] = "own" /\ key[r] \notin AppLimited
     \/ pc'[r] = "appTry" /\ phase[r] = "app" /\ phase'[r] = "app"
     \/ pc'[r] = "done" /\ phase[r] = "update" /\ phase'[r] = "update"
     \/ pc'[r] = "forward" /\ phase[r] = "own" /\ phase'[r] = "own" /\ key[r] \notin Known

(* Looking a bucket up costs nothing.                                      *)
LEMMA PayWalk ==
  ASSUME RegInv, PayInv, Onward, NEW r \in Requests, Walk(r),
         UNCHANGED <<paid, queued, ready, waitsOn>>,
         \A s \in Requests : s # r => Kept(s)
  PROVE  PayInv'
<1>1. Standing(r)
  BY Zenon DEF PayInv
<1>2. /\ OwnPaid(r)' = OwnPaid(r) /\ AppPaid(r)' = AppPaid(r)
      /\ InAccount(r)'
  BY <1>1, PaidSame, Zenon DEF Standing
<1>3. Course(r)'
  BY <1>1, Zenon DEF Standing, Course, Walk, Lookups, Onward
<1>4. Queueing(r)'
  BY <1>1, Zenon DEF Standing, Queueing, Unpaid, Walk, Lookups
<1>5. OwnTokens(r)'
  BY <1>1, <1>2, Zenon DEF Standing, OwnTokens, Unpaid, Walk, Lookups, Onward
<1>6. AppTokens(r)'
  BY <1>1, <1>2, LimiterConstants, Zenon DEF Standing, AppTokens, Walk, Lookups, Onward
<1>7. Refusal(r)'
  BY <1>1, Zenon DEF Standing, Course, Refusal, Walk, Lookups
<1>8. Standing(r)'
  BY <1>3, <1>4, <1>5, <1>6, <1>7, Zenon DEF Standing
<1> QED BY <1>8, PayMover, Zenon

(* A lookup walks on: to mark what it found, to create, or, where there is *)
(* no limit, to forward or finish.                                         *)
LEMMA PayLoad == ASSUME RegInv, PayInv, Onward, NEW r \in Requests, Load(r) PROVE PayInv'
<1>1. UNCHANGED <<paid, queued, ready, waitsOn, phase, answer>>
  BY Zenon DEF Load, bucketVars, queueVars
<1>2. pc \in [Requests -> Points] /\ phase[r] \in Phases
  BY Zenon DEF RegInv, TypeOK, Points
<1>3. \A s \in Requests : s # r => Kept(s)
  BY <1>1, <1>2, Zenon DEF Load, Move, Kept
<1>4. phase[r] = "app" => key[r] \in Known
  BY LimiterConstants, Zenon DEF PayInv, Standing, Course
<1>5. Walk(r)
  BY <1>2, <1>4, Zenon DEF Load, Move, Walk, Lookups, Phases
<1> QED BY <1>1, <1>3, <1>5, PayWalk, Zenon

(* So does a creation.                                                     *)
LEMMA PayCreate ==
  ASSUME RegInv, PayInv, Onward, NEW r \in Requests, NEW e \in Entries, Create(r, e)
  PROVE  PayInv'
<1>1. UNCHANGED <<paid, queued, ready, waitsOn, phase, answer>>
  BY Zenon DEF Create, queueVars
<1>3. \A s \in Requests : s # r => Kept(s)
  BY <1>1 DEF Create, Move, Kept
<1>4. Walk(r)
  BY DEF Create, Move, Walk, Lookups
<1> QED BY <1>1, <1>3, <1>4, PayWalk, Zenon

(* And what follows once the bucket is there.                              *)
LEMMA PayProceed ==
  ASSUME RegInv, PayInv, Onward, NEW r \in Requests, Proceed(r), pc[r] \in Lookups,
         UNCHANGED <<paid, queued, ready, waitsOn, answer>>
  PROVE  PayInv'
<1>1. pc \in [Requests -> Points] /\ phase \in [Requests -> Phases]
  BY Zenon DEF RegInv, TypeOK, Points
<1>2. \A s \in Requests : s # r => Kept(s)
  BY DEF Proceed, Kept
<1>3. Walk(r)
  <2>1. CASE phase[r] = "own"
    BY <1>1, <2>1, Zenon DEF Proceed, Walk
  <2>2. CASE phase[r] = "app"
    BY <2>2 DEF Proceed, Walk
  <2>3. CASE phase[r] = "update"
    BY <2>3 DEF Proceed, Walk
  <2> QED BY <1>1, <2>1, <2>2, <2>3, Zenon DEF Phases
<1> QED BY <1>2, <1>3, PayWalk, Zenon

(* Marking the entry used.                                                 *)
LEMMA PayTouch == ASSUME RegInv, PayInv, Onward, NEW r \in Requests, Touch(r) PROVE PayInv'
BY PayProceed, Zenon DEF Touch, Lookups, bucketVars, queueVars

(* Winning or losing LoadOrStore.                                          *)
LEMMA PayStore == ASSUME RegInv, PayInv, Onward, NEW r \in Requests, Store(r) PROVE PayInv'
BY PayProceed, Zenon DEF Store, Lookups, bucketVars, queueVars

(* A try for a token of the application-wide limit.                        *)
LEMMA PayAppTry == ASSUME RegInv, PayInv, Onward, NEW r \in Requests, AppTry(r) PROVE PayInv'
<1>0. /\ held[r]["app"] \in Entries /\ state[held[r]["app"]] # "unused"
      /\ entryKey[held[r]["app"]] = App /\ pc[r] = "appTry" /\ phase[r] = "app"
  BY DEF AppTry, RegInv, TypeOK, Placed, Used, KeysKeptApart
<1>1. \A s \in Requests : s # r => Kept(s)
  BY DEF RegInv, TypeOK, AppTry, Take, Move, Answer, queueVars, Kept
<1>2. Standing(r)
  BY Zenon DEF PayInv
<1>3. /\ UNCHANGED <<queued, ready, waitsOn, gone>> /\ phase'[r] = phase[r]
      /\ \/ /\ paid'[r] = [paid[r] EXCEPT ![entryKey[held[r]["app"]]] = @ + 1]
            /\ pc'[r] = "consume" /\ answer'[r] = answer[r]
         \/ /\ paid'[r] = paid[r]
            /\ \/ mode[r] = "reject" /\ pc'[r] = "done" /\ answer'[r] = "429"
               \/ mode[r] # "reject" /\ pc'[r] = "appSleep" /\ answer'[r] = answer[r]
  BY Zenon DEF RegInv, TypeOK, AppTry, Take, Move, Answer, queueVars, inputVars
<1>4. /\ OwnPaid(r)' = OwnPaid(r) /\ InAccount(r)'
      /\ AppPaid(r)' = IF pc'[r] = "consume" THEN 1 ELSE AppPaid(r)
  <2>1. AppPaid(r) = 0
    BY <1>0, <1>2, Zenon DEF Standing, AppTokens
  <2>2. CASE paid'[r] = paid[r] /\ pc'[r] # "consume"
    BY <1>2, <2>2, PaidSame, Zenon DEF Standing
  <2>3. CASE paid'[r] = [paid[r] EXCEPT ![entryKey[held[r]["app"]]] = @ + 1]
    <3>1. pc'[r] = "consume" \/ paid'[r] = paid[r]
      BY <1>3, Zenon
    <3>2. OwnPaid(r)' = OwnPaid(r) /\ AppPaid(r)' = 1 /\ InAccount(r)'
      BY <1>0, <1>2, <2>1, <2>3, PaidOne, Zenon DEF Standing
    <3>3. paid'[r] = paid[r] => AppPaid(r)' = AppPaid(r)
      BY <1>2, PaidSame, Zenon DEF Standing
    <3>4. 0 # 1
      OBVIOUS
    <3> QED BY <2>1, <3>1, <3>2, <3>3, <3>4, Zenon
  <2> QED BY <1>3, <2>2, <2>3, Zenon
<1>5. Course(r)'
  BY <1>0, <1>2, <1>3, Zenon DEF Standing, Course, Onward
<1>6. Queueing(r)'
  BY <1>0, <1>2, <1>3, Zenon DEF Standing, Queueing, Unpaid
<1>7. OwnTokens(r)'
  BY <1>0, <1>2, <1>3, <1>4, Zenon DEF Standing, OwnTokens, Unpaid
<1>8. AppTokens(r)'
  BY <1>0, <1>2, <1>3, <1>4, Zenon DEF Standing, AppTokens, Onward, Course
<1>9. Refusal(r)'
  BY <1>0, <1>2, <1>3, <1>4, Zenon DEF Standing, Queueing, OwnTokens, Unpaid, Refusal
<1>10. Standing(r)'
  BY <1>5, <1>6, <1>7, <1>8, <1>9, Zenon DEF Standing
<1> QED BY <1>1, <1>10, PayMover, Zenon

(* A try for a token of the request's own key.                             *)
LEMMA PayConsume == ASSUME RegInv, PayInv, Onward, NEW r \in Requests, Consume(r) PROVE PayInv'
<1>0. /\ held[r]["own"] \in Entries /\ state[held[r]["own"]] # "unused"
      /\ entryKey[held[r]["own"]] = key[r] /\ pc[r] = "consume"
  BY DEF Consume, RegInv, TypeOK, Placed, Used, KeysKeptApart, Phases
<1>1. \A s \in Requests : s # r => Kept(s)
  BY DEF RegInv, TypeOK, Consume, Take, Move, Answer, queueVars, Kept
<1>2. Standing(r)
  BY Zenon DEF PayInv
<1>3. /\ UNCHANGED <<queued, ready, waitsOn, gone>> /\ phase'[r] = phase[r]
      /\ \/ /\ paid'[r] = [paid[r] EXCEPT ![entryKey[held[r]["own"]]] = @ + 1]
            /\ pc'[r] = "forward" /\ answer'[r] = answer[r]
         \/ /\ paid'[r] = paid[r]
            /\ \/ mode[r] = "reject" /\ pc'[r] = "done" /\ answer'[r] = "429"
               \/ mode[r] # "reject" /\ pc'[r] = "getQueue" /\ answer'[r] = answer[r]
  BY Zenon DEF RegInv, TypeOK, Consume, Take, Move, Answer, queueVars, inputVars
<1>4. /\ AppPaid(r)' = AppPaid(r) /\ InAccount(r)'
      /\ OwnPaid(r)' = IF pc'[r] = "forward" THEN 1 ELSE OwnPaid(r)
      /\ OwnPaid(r) = 0
  <2>1. OwnPaid(r) = 0
    <3>1. phase[r] # "update"
      BY <1>0, <1>2, Zenon DEF Standing, Course
    <3>2. Unpaid(r)
      BY <1>0, <3>1, Zenon DEF Unpaid
    <3> QED BY <1>2, <3>2, Zenon DEF Standing, OwnTokens
  <2>2. CASE paid'[r] = paid[r] /\ pc'[r] # "forward"
    BY <1>2, <2>1, <2>2, PaidSame, Zenon DEF Standing
  <2>3. CASE paid'[r] = [paid[r] EXCEPT ![entryKey[held[r]["own"]]] = @ + 1] /\ pc'[r] = "forward"
    BY <1>0, <1>2, <2>1, <2>3, PaidOne, Zenon DEF Standing
  <2> QED BY <1>3, <2>1, <2>2, <2>3, Zenon
<1>5. Course(r)'
  BY <1>0, <1>2, <1>3, Zenon DEF Standing, Course, Onward
<1>6. Queueing(r)'
  BY <1>0, <1>2, <1>3, Zenon DEF Standing, Queueing, Unpaid
<1>7. OwnTokens(r)'
  BY <1>0, <1>2, <1>3, <1>4, Zenon DEF Standing, OwnTokens, Queueing, Unpaid, Onward
<1>8. AppTokens(r)'
  <2>1. key'[r] = key[r]
    BY Zenon DEF Onward
  <2>2. /\ key[r] \notin AppLimited => AppPaid(r) = 0
        /\ key[r] \in AppLimited => AppPaid(r) = 1
    BY <1>0, <1>2, Zenon DEF Standing, AppTokens
  <2>3. pc'[r] \notin {"load", "touch", "create", "store", "appTry", "appSleep"}
    BY <1>3, Zenon
  <2> QED BY <1>4, <2>1, <2>2, <2>3, Zenon DEF AppTokens
<1>9. Refusal(r)'
  <2>1. \A e \in Entries : r \notin queued[e]
    BY <1>0, <1>2, Zenon DEF Standing, Queueing
  <2>2. answer[r] \notin {"429", "499"}
    BY <1>0, <1>2, Zenon DEF Standing, Course
  <2> QED BY <1>3, <1>4, <2>1, <2>2, Zenon DEF Refusal
<1>10. Standing(r)'
  BY <1>5, <1>6, <1>7, <1>8, <1>9, Zenon DEF Standing
<1> QED BY <1>1, <1>10, PayMover, Zenon

(* The end of a sleep.                                                     *)
LEMMA PayAppSleep == ASSUME RegInv, PayInv, Onward, NEW r \in Requests, AppSleep(r) PROVE PayInv'
<1>1. \A s \in Requests : s # r => Kept(s)
  BY DEF RegInv, TypeOK, AppSleep, Move, Answer, bucketVars, queueVars, Kept
<1>2. Standing(r)
  BY Zenon DEF PayInv
<1>3. /\ UNCHANGED <<queued, ready, waitsOn, gone, paid>> /\ phase'[r] = phase[r]
      /\ pc[r] = "appSleep" /\ phase[r] = "app"
      /\ \/ pc'[r] = "appTry" /\ answer'[r] = answer[r]
         \/ pc'[r] = "done" /\ answer'[r] = "499" /\ r \in gone
         \/ pc'[r] = "done" /\ answer'[r] = "429"
  BY Zenon DEF RegInv, TypeOK, Placed, AppSleep, Move, Answer, bucketVars, queueVars, inputVars
<1>4. /\ OwnPaid(r)' = OwnPaid(r) /\ AppPaid(r)' = AppPaid(r)
      /\ InAccount(r)'
  BY <1>2, <1>3, PaidSame, Zenon DEF Standing
<1>5. Course(r)'
  BY <1>2, <1>3, Zenon DEF Standing, Course, Onward
<1>6. Queueing(r)'
  BY <1>2, <1>3, Zenon DEF Standing, Queueing, Unpaid
<1>7. OwnTokens(r)'
  BY <1>2, <1>3, <1>4, Zenon DEF Standing, OwnTokens, Unpaid
<1>8. AppTokens(r)'
  <2>1. AppPaid(r) = 0
    BY <1>2, <1>3, Zenon DEF Standing, AppTokens
  <2>2. /\ phase'[r] # "update"
        /\ pc'[r] \notin {"consume", "getQueue", "enqueue", "wait", "forward"}
    BY <1>3, Zenon
  <2> QED BY <1>4, <2>1, <2>2, Zenon DEF AppTokens
<1>9. Refusal(r)'
  <2>1. \A e \in Entries : r \notin queued[e]
    BY <1>2, <1>3, Zenon DEF Standing, Queueing
  <2>2. Unpaid(r)
    BY <1>3, Zenon DEF Unpaid
  <2>3. OwnPaid(r) = 0
    BY <1>2, <2>2, Zenon DEF Standing, OwnTokens
  <2> QED BY <1>3, <1>4, <2>1, <2>3, Zenon DEF Refusal
<1>10. Standing(r)'
  BY <1>5, <1>6, <1>7, <1>8, <1>9, Zenon DEF Standing
<1> QED BY <1>1, <1>10, PayMover, Zenon

(* The second lookup: the queue may be another one, or gone.               *)
LEMMA PayGetQueue == ASSUME RegInv, PayInv, Onward, NEW r \in Requests, GetQueue(r) PROVE PayInv'
<1>1. \A s \in Requests : s # r => Kept(s)
  BY Zenon DEF RegInv, TypeOK, GetQueue, Move, bucketVars, Kept
<1>2. Standing(r)
  BY Zenon DEF PayInv
<1>3. /\ UNCHANGED <<queued, ready, gone, paid>> /\ phase'[r] = phase[r] /\ answer'[r] = answer[r]
      /\ pc[r] = "getQueue"
      /\ \/ pc'[r] = "fail" /\ waitsOn'[r] = waitsOn[r]
         \/ pc'[r] = "enqueue"
  BY Zenon DEF RegInv, TypeOK, GetQueue, Move, bucketVars, inputVars
<1>4. /\ OwnPaid(r)' = OwnPaid(r) /\ AppPaid(r)' = AppPaid(r)
      /\ InAccount(r)'
  BY <1>2, <1>3, PaidSame, Zenon DEF Standing
<1>5. Course(r)'
  BY <1>2, <1>3, Zenon DEF Standing, Course, Onward
<1>6. Queueing(r)'
  BY <1>2, <1>3, Zenon DEF Standing, Queueing, Unpaid
<1>7. OwnTokens(r)'
  BY <1>2, <1>3, <1>4, Zenon DEF Standing, OwnTokens, Unpaid, Onward
<1>8. AppTokens(r)'
  BY <1>2, <1>3, <1>4, Zenon DEF Standing, AppTokens, Onward
<1>9. Refusal(r)'
  BY <1>2, <1>3, <1>4, Zenon DEF Standing, Course, Queueing, OwnTokens, Unpaid, Refusal
<1>10. Standing(r)'
  BY <1>5, <1>6, <1>7, <1>8, <1>9, Zenon DEF Standing
<1> QED BY <1>1, <1>10, PayMover, Zenon

(* Entering the queue.                                                     *)
LEMMA PayEnqueue == ASSUME RegInv, PayInv, Onward, NEW r \in Requests, Enqueue(r) PROVE PayInv'
<1>1. \A s \in Requests : s # r => Kept(s)
  BY DEF RegInv, TypeOK, Enqueue, Move, bucketVars, Kept
<1>2. Standing(r)
  BY Zenon DEF PayInv
<1>3. /\ UNCHANGED <<ready, gone, paid, waitsOn>> /\ phase'[r] = phase[r] /\ answer'[r] = answer[r]
      /\ pc[r] = "enqueue" /\ waitsOn[r] \in Entries
      /\ \/ pc'[r] = "fail" /\ \A e \in Entries : r \notin queued'[e]
         \/ /\ pc'[r] = "wait"
            /\ \A e \in Entries : r \in queued'[e] <=> e = waitsOn[r]
  <2>1. /\ UNCHANGED <<ready, gone, paid, waitsOn>> /\ phase'[r] = phase[r] /\ answer'[r] = answer[r]
        /\ pc[r] = "enqueue" /\ waitsOn[r] \in Entries
    BY Zenon DEF RegInv, TypeOK, Placed, Enqueue, bucketVars, inputVars
  <2>2. \A e \in Entries : r \notin queued[e]
    BY <1>2, <2>1, Zenon DEF Standing, Queueing
  <2> QED BY <2>1, <2>2 DEF RegInv, TypeOK, Enqueue, Move
<1>4. /\ OwnPaid(r)' = OwnPaid(r) /\ AppPaid(r)' = AppPaid(r)
      /\ InAccount(r)'
  BY <1>2, <1>3, PaidSame, Zenon DEF Standing
<1>5. Course(r)'
  BY <1>2, <1>3, Zenon DEF Standing, Course, Onward
<1>6. Queueing(r)'
  BY <1>2, <1>3, Zenon DEF Standing, Queueing, Unpaid, Course
<1>7. OwnTokens(r)'
  BY <1>2, <1>3, <1>4, Zenon DEF Standing, OwnTokens, Queueing, Unpaid, Course
<1>8. AppTokens(r)'
  BY <1>2, <1>3, <1>4, Zenon DEF Standing, AppTokens, Onward
<1>9. Refusal(r)'
  BY <1>2, <1>3, <1>4, Zenon DEF Standing, Course, OwnTokens, Unpaid, Refusal
<1>10. Standing(r)'
  BY <1>5, <1>6, <1>7, <1>8, <1>9, Zenon DEF Standing
<1> QED BY <1>1, <1>10, PayMover, Zenon

(* Leaving the queue: released, given up, or thrown out.                   *)
LEMMA PayWake == ASSUME RegInv, PayInv, Onward, NEW r \in Requests, Wake(r) PROVE PayInv'
<1>1. \A s \in Requests : s # r => Kept(s)
  BY DEF RegInv, TypeOK, Wake, Move, bucketVars, Kept
<1>2. Standing(r)
  BY Zenon DEF PayInv
<1>3. /\ UNCHANGED <<ready, gone, paid, waitsOn>> /\ phase'[r] = phase[r] /\ answer'[r] = answer[r]
      /\ pc[r] = "wait" /\ waitsOn[r] \in Entries
      /\ \A e \in Entries : r \in queued'[e] => r \in queued[e]
      /\ \/ pc'[r] = "forward" /\ r \in ready
         \/ /\ pc'[r] = "fail"
            /\ r \in gone \/ mode[r] = "queue-timeout" \/ state[waitsOn[r]] = "stopped"
  <2>1. /\ UNCHANGED <<ready, gone, paid, waitsOn>> /\ phase'[r] = phase[r] /\ answer'[r] = answer[r]
        /\ pc[r] = "wait" /\ waitsOn[r] \in Entries
    BY Zenon DEF RegInv, TypeOK, Placed, Wake, bucketVars, inputVars
  <2>2. \A e \in Entries : r \in queued'[e] => r \in queued[e]
    <3>1. queued \in [Entries -> SUBSET Requests]
      BY Zenon DEF RegInv, TypeOK
    <3> QED BY <2>1, <3>1 DEF Wake
  <2>3. pc \in [Requests -> Points]
    BY Zenon DEF RegInv, TypeOK, Points
  <2> QED BY <2>1, <2>2, <2>3, Zenon DEF Wake, Move
<1>4. /\ OwnPaid(r)' = OwnPaid(r) /\ AppPaid(r)' = AppPaid(r)
      /\ InAccount(r)'
  BY <1>2, <1>3, PaidSame, Zenon DEF Standing
<1>5. Course(r)'
  BY <1>2, <1>3, Zenon DEF Standing, Course, Onward
<1>6. Queueing(r)'
  BY <1>2, <1>3, Zenon DEF Standing, Queueing, Unpaid
<1>7. OwnTokens(r)'
  BY <1>2, <1>3, <1>4, Zenon DEF Standing, OwnTokens, Unpaid, Course
<1>8. AppTokens(r)'
  BY <1>2, <1>3, <1>4, Zenon DEF Standing, AppTokens, Onward
<1>9. Refusal(r)'
  BY <1>2, <1>3, Apart, Zenon DEF Standing, Course, Refusal, Onward
<1>10. Standing(r)'
  BY <1>5, <1>6, <1>7, <1>8, <1>9, Zenon DEF Standing
<1> QED BY <1>1, <1>10, PayMover, Zenon

(* The refusal.                                                            *)
LEMMA PayFail == ASSUME RegInv, PayInv, Onward, NEW r \in Requests, Fail(r) PROVE PayInv'
<1>1. \A s \in Requests : s # r => Kept(s)
  BY DEF Fail, Move, Answer, bucketVars, queueVars, Kept
<1>2. Standing(r)
  BY Zenon DEF PayInv
<1>3. /\ UNCHANGED <<ready, gone, paid, waitsOn, queued>> /\ phase'[r] = phase[r]
      /\ pc[r] = "fail" /\ pc'[r] = "done"
      /\ answer'[r] = IF r \in gone THEN "499" ELSE "429"
  BY Zenon DEF RegInv, TypeOK, Fail, Move, Answer, bucketVars, queueVars, inputVars
<1>4. /\ OwnPaid(r)' = OwnPaid(r) /\ AppPaid(r)' = AppPaid(r)
      /\ InAccount(r)'
  BY <1>2, <1>3, PaidSame, Zenon DEF Standing
<1>5. Course(r)'
  BY <1>2, <1>3, Zenon DEF Standing, Course, Onward
<1>6. Queueing(r)'
  BY <1>2, <1>3, Zenon DEF Standing, Queueing, Unpaid
<1>7. OwnTokens(r)'
  BY <1>2, <1>3, <1>4, Zenon DEF Standing, OwnTokens, Unpaid, Onward
<1>8. AppTokens(r)'
  BY <1>2, <1>3, <1>4, Zenon DEF Standing, AppTokens, Onward
<1>9. Refusal(r)'
  <2>1. waitsOn[r] # None => waitsOn[r] \in Entries
    BY Zenon DEF RegInv, TypeOK
  <2> QED BY <1>2, <1>3, <1>4, <2>1, Zenon DEF Standing, Refusal, Onward
<1>10. Standing(r)'
  BY <1>5, <1>6, <1>7, <1>8, <1>9, Zenon DEF Standing
<1> QED BY <1>1, <1>10, PayMover, Zenon

(* The response of a request that has paid.                                *)
LEMMA PayForward == ASSUME RegInv, PayInv, Onward, NEW r \in Requests, Forward(r) PROVE PayInv'
<1>1. \A s \in Requests : s # r => Kept(s)
  BY DEF Forward, Move, bucketVars, queueVars, Kept
<1>2. Standing(r)
  BY Zenon DEF PayInv
<1>3. /\ UNCHANGED <<ready, gone, paid, waitsOn, queued>> /\ phase'[r] = "update"
      /\ pc[r] = "forward" /\ pc'[r] \in {"load", "done"} /\ answer'[r] = "forwarded"
  BY Zenon DEF RegInv, TypeOK, Forward, Move, bucketVars, queueVars, inputVars
<1>4. /\ OwnPaid(r)' = OwnPaid(r) /\ AppPaid(r)' = AppPaid(r)
      /\ InAccount(r)'
  BY <1>2, <1>3, PaidSame, Zenon DEF Standing
<1>5. Course(r)'
  BY <1>2, <1>3, Zenon DEF Standing, Course, Onward
<1>6. Queueing(r)'
  BY <1>2, <1>3, Zenon DEF Standing, Queueing, Unpaid
<1>7. OwnTokens(r)'
  BY <1>2, <1>3, <1>4, Zenon DEF Standing, OwnTokens, Unpaid, Onward
<1>8. AppTokens(r)'
  BY <1>2, <1>3, <1>4, Zenon DEF Standing, AppTokens, Onward
<1>9. Refusal(r)'
  BY <1>3, Zenon DEF Refusal
<1>10. Standing(r)'
  BY <1>5, <1>6, <1>7, <1>8, <1>9, Zenon DEF Standing
<1> QED BY <1>1, <1>10, PayMover, Zenon

(* A dispatcher pays for the request it releases.                          *)
LEMMA PayDispatch ==
  ASSUME RegInv, PayInv, Onward, NEW e \in Entries, NEW r \in Requests, Dispatch(e, r)
  PROVE  PayInv'
<1>1. \A s \in Requests : s # r => Kept(s)
  BY DEF Dispatch, Take, Kept
<1>2. Standing(r)
  BY Zenon DEF PayInv
<1>3. /\ UNCHANGED <<pc, phase, answer, waitsOn, gone>>
      /\ r \in queued[e] /\ r \in ready' /\ paid'[r] = [paid[r] EXCEPT ![entryKey[e]] = @ + 1]
      /\ e = waitsOn[r] /\ \A f \in Entries : r \notin queued'[f]
      /\ phase[r] # "update" /\ pc[r] \in {"wait", "fail", "done"}
  <2>1. /\ UNCHANGED <<pc, phase, answer, waitsOn, gone>>
        /\ r \in queued[e] /\ r \in ready' /\ paid'[r] = [paid[r] EXCEPT ![entryKey[e]] = @ + 1]
    BY Zenon DEF RegInv, TypeOK, Dispatch, Take, inputVars
  <2>2. /\ \A f \in Entries : r \in queued[f] => f = e
        /\ e = waitsOn[r] /\ phase[r] # "update" /\ pc[r] \in {"wait", "fail", "done"}
    BY <1>2, <2>1, Zenon DEF Standing, Queueing
  <2>3. \A f \in Entries : r \notin queued'[f]
    BY <2>2, Zenon DEF RegInv, TypeOK, Dispatch
  <2> QED BY <2>1, <2>2, <2>3, Zenon
<1>4. /\ OwnPaid(r)' = 1 /\ AppPaid(r)' = AppPaid(r)
      /\ InAccount(r)'
  <2>1. entryKey[e] = key[r] /\ state[e] # "unused"
    BY <1>3, Apart, Zenon DEF RegInv, KeysKeptApart, Used
  <2>2. OwnPaid(r) = 0
    BY <1>2, <1>3, Zenon DEF Standing, OwnTokens
  <2> QED BY <1>2, <1>3, <2>1, <2>2, PaidOne, Zenon DEF Standing
<1>5. Course(r)'
  BY <1>2, <1>3, Zenon DEF Standing, Course, Onward
<1>6. Queueing(r)'
  BY <1>3, Zenon DEF Queueing, Unpaid
<1>7. OwnTokens(r)'
  BY <1>3, <1>4, Zenon DEF OwnTokens, Unpaid
<1>8. AppTokens(r)'
  BY <1>2, <1>3, <1>4, Zenon DEF Standing, AppTokens, Onward
<1>9. Refusal(r)'
  BY <1>2, <1>3, Zenon DEF Standing, Refusal, Onward
<1>10. Standing(r)'
  BY <1>5, <1>6, <1>7, <1>8, <1>9, Zenon DEF Standing
<1> QED BY <1>1, <1>10, PayMover, Zenon

(* Every step preserves the payments' invariant.                           *)
LEMMA PayNext == ASSUME RegInv, PayInv, [Next]_vars PROVE PayInv'
<1>0. Onward
  BY StepOnward, Zenon
<1>1. ASSUME NEW r \in Requests, RequestStep(r) PROVE PayInv'
  BY <1>0, <1>1, PayLoad, PayTouch, PayStore, PayCreate, PayAppTry, PayAppSleep, PayConsume,
     PayGetQueue, PayEnqueue, PayWake, PayFail, PayForward, Zenon DEF RequestStep
<1>2. ASSUME NEW e \in Entries, NEW r \in Requests, Dispatch(e, r) PROVE PayInv'
  BY <1>0, <1>2, PayDispatch, Zenon
<1>3. CASE \/ \E r \in Requests : Disconnect(r)
           \/ Collector \/ Stop \/ Tick \/ (\E e \in Entries : Refill(e)) \/ UNCHANGED vars
  <2>1. UNCHANGED <<pc, phase, waitsOn, paid, answer, ready, queued>>
    BY <1>3, Zenon
      DEF Disconnect, Collector, GcStart, GcCheck, GcStop, GcDelete, Stop, Tick, Refill,
       vars, bucketVars, queueVars
  <2> QED BY <1>0, <2>1, PayNobody, Zenon DEF Kept
<1> QED BY <1>1, <1>2, <1>3, Zenon DEF Next

(* Both invariants hold in every behaviour (middleware.go:36-156).         *)
THEOREM PaymentsHold == Spec => [](RegInv /\ PayInv)
BY RegInit, RegNext, PayInit, PayNext, PTL DEF Spec

(* 499 goes only to a client that has gone, and a request in reject mode   *)
(* never waits in a queue (middleware.go:86-90, 114-116, 138-142).         *)
THEOREM AnswersJustified == Spec => []AnswersFit
<1>1. PayInv => AnswersFit
  BY Zenon DEF PayInv, Standing, Course, AnswersFit
<1> QED BY <1>1, PaymentsHold, PTL

(* Whatever is forwarded has cost one token of its own key and, where it   *)
(* applies, one of the application-wide limit, no more and of no other     *)
(* key; whoever is refused after a token was taken for it gave up or was   *)
(* thrown out (middleware.go:36-55, 131-156).                              *)
THEOREM ForwardedPaid == Spec => []PaidInFull
<1>0. 0 <= 1 /\ 1 <= 1 /\ 0 <= 0 /\ ~(0 > 0)
  OBVIOUS
<1>1. ASSUME RegInv, PayInv PROVE PaidInFull
  <2> SUFFICES ASSUME NEW r \in Requests
               PROVE  /\ \A k \in AllKeys :
                           paid[r][k] <= (IF k = key[r] \/ k = App THEN 1 ELSE 0)
                      /\ answer[r] = "forwarded" /\ key[r] \in Known =>
                           /\ OwnPaid(r) = 1
                           /\ AppPaid(r) = IF key[r] \in AppLimited THEN 1 ELSE 0
                      /\ answer[r] \in {"429", "499"} /\ OwnPaid(r) > 0 =>
                           \/ r \in gone
                           \/ mode[r] = "queue-timeout"
                           \/ state[waitsOn[r]] = "stopped"
      BY Zenon DEF PaidInFull, OwnPaid, AppPaid
  <2>1. Standing(r)
    BY <1>1, Zenon DEF PayInv
  <2>2. ASSUME NEW k \in AllKeys
        PROVE  paid[r][k] <= (IF k = key[r] \/ k = App THEN 1 ELSE 0)
    BY <1>0, <2>1, Zenon DEF Standing, OwnTokens, InAccount, OwnPaid, AppPaid
  <2>3. ASSUME answer[r] = "forwarded", key[r] \in Known
        PROVE  /\ OwnPaid(r) = 1
               /\ AppPaid(r) = IF key[r] \in AppLimited THEN 1 ELSE 0
    BY <2>1, <2>3, Zenon DEF Standing, Course, OwnTokens, AppTokens
  <2>4. ASSUME answer[r] \in {"429", "499"}, OwnPaid(r) > 0
        PROVE  r \in gone \/ mode[r] = "queue-timeout" \/ state[waitsOn[r]] = "stopped"
    BY <1>0, <2>1, <2>4, Zenon DEF Standing, Refusal
  <2> QED BY <2>2, <2>3, <2>4, Zenon
<1> QED BY <1>1, PaymentsHold, PTL

=============================================================================
