------------------------------ MODULE Limiter ------------------------------
(***************************************************************************)
(* The limiter's registry of buckets (internal/ratelimit/limiter.go), its  *)
(* garbage collector, and the rate-limit middleware that requests run      *)
(* through (internal/ratelimit/middleware.go).                             *)
(*                                                                         *)
(* An entry is a bucket with its queue and dispatcher.  Its bucket is a    *)
(* count of whole tokens refilled one by one, and its queue a set of       *)
(* requests: TokenBucket and RequestQueue give the details.                *)
(* The registry is two sync.Maps without a common lock, so a request finds *)
(* an entry, marks it used, takes a token and looks its queue up in        *)
(* separate steps, with the collector running in between.                  *)
(***************************************************************************)
EXTENDS Naturals, FiniteSets

CONSTANTS
  Requests,
  Keys,         \* merchant : method : endpoint
  Known,        \* the keys whose endpoint has default rates
  AppLimited,   \* the keys whose endpoint has an application-wide limit
  App,          \* the key of that limit, in appBuckets
  MaxEntries,   \* bound on the entries ever created
  Burst,        \* tokens a bucket holds
  MaxDepth,     \* queueMaxDepth
  TTL,          \* bucket TTL, in ticks
  Modes,        \* the throttle modes requests may resolve to
  Announced,    \* whether a response may announce a rate: a set of Booleans
  None

ASSUME LimiterConstants ==
  /\ Known \subseteq Keys
  /\ AppLimited \subseteq Known
  /\ App \notin Keys
  /\ Burst \in Nat
  /\ MaxDepth \in Nat
  /\ TTL \in Nat
  /\ Modes \subseteq {"queue", "reject", "queue-timeout"}
  /\ Announced \subseteq BOOLEAN /\ Announced # {}
  /\ MaxEntries \in Nat
  /\ None \notin 1 .. MaxEntries

Entries == 1 .. MaxEntries
AllKeys == Keys \cup {App}
Phases == {"own", "app", "update"}

VARIABLES
  registry,   \* the entry stored under each key
  state,      \* of an entry: "unused", "running" or, after Stop, "stopped"
  entryKey,   \* the key an entry was made for
  tokens,     \* tokens in its bucket
  idle,       \* ticks since lastUsed, saturating at TTL
  queued,     \* the requests in its queue
  pc,         \* where each request is
  phase,      \* which bucket it is asking the registry for, and why
  key, mode,  \* its key and its resolved throttle mode
  held,       \* the entry GetBucket gave it, in each phase
  waitsOn,    \* the entry whose queue it entered
  ready,      \* requests a dispatcher has released
  paid,       \* history: how many tokens of each key's buckets were taken for it
  gone,       \* requests whose client has disconnected
  answer,     \* the response, once there is one
  gcpc, gcKey, gcTodo, \* the collector
  done        \* the limiter's channel is closed

entryVars == <<registry, state, entryKey>>
bucketVars == <<tokens, paid>>
queueVars == <<queued, ready, waitsOn>>
inputVars == <<key, mode, gone>>
gcVars == <<gcpc, gcKey, gcTodo, done>>
vars == <<entryVars, bucketVars, queueVars, inputVars, gcVars, idle, pc, phase,
          held, answer>>

Init ==
  /\ registry = [k \in AllKeys |-> None]
  /\ state = [e \in Entries |-> "unused"]
  /\ entryKey = [e \in Entries |-> App]
  /\ tokens = [e \in Entries |-> 0]
  /\ idle = [e \in Entries |-> 0]
  /\ pc = [r \in Requests |-> "load"]
  /\ phase = [r \in Requests |-> "own"]
  /\ key \in [Requests -> Keys]
  /\ mode \in [Requests -> Modes]
  /\ held = [r \in Requests |-> [p \in Phases |-> None]]
  /\ queued = [e \in Entries |-> {}]
  /\ ready = {}
  /\ waitsOn = [r \in Requests |-> None]
  /\ paid = [r \in Requests |-> [k \in AllKeys |-> 0]]
  /\ gone = {}
  /\ answer = [r \in Requests |-> "none"]
  /\ gcpc = "idle"
  /\ gcKey = App
  /\ gcTodo = {}
  /\ done = FALSE

----------------------------------------------------------------------------
(* GetBucket and GetAppBucket.  UpdateFromResponse calls GetBucket again.  *)

(* Mutant: the application-wide limit is looked up under the merchant's key. *)
TargetOwnKey(r) == key[r]

Target(r) == IF phase[r] = "app" THEN App ELSE key[r]

Move(r, from, to) ==
  /\ pc[r] = from
  /\ pc' = [pc EXCEPT ![r] = to]

(* An endpoint without default rates is forwarded without a limit.         *)
Load(r) ==
  /\ \/ /\ registry[Target(r)] # None
        /\ Move(r, "load", "touch")
        /\ held' = [held EXCEPT ![r][phase[r]] = registry[Target(r)]]
     \/ /\ registry[Target(r)] = None
        /\ Move(r, "load", IF key[r] \in Known THEN "create"
                           ELSE IF phase[r] = "update" THEN "done"
                           ELSE "forward")
        /\ UNCHANGED held
  /\ UNCHANGED <<entryVars, bucketVars, queueVars, inputVars, gcVars, idle, phase, answer>>

(* Where a request goes with the bucket it has got.                        *)
Proceed(r) ==
  LET next == CASE phase[r] = "own" /\ key[r] \in AppLimited -> "load"
                [] phase[r] = "own" /\ key[r] \notin AppLimited -> "consume"
                [] phase[r] = "app" -> "appTry"
                [] phase[r] = "update" -> "done"
  IN /\ pc' = [pc EXCEPT ![r] = next]
     /\ phase' = [phase EXCEPT ![r] = IF next = "load" THEN "app" ELSE @]

Touch(r) ==
  /\ pc[r] = "touch"
  /\ idle' = [idle EXCEPT ![held[r][phase[r]]] = 0]
  /\ Proceed(r)
  /\ UNCHANGED <<entryVars, bucketVars, queueVars, inputVars, gcVars, held, answer>>

(* The new queue starts its dispatcher before it is in the registry.       *)
Create(r, e) ==
  /\ Move(r, "create", "store")
  /\ state[e] = "unused"
  /\ \A f \in Entries : f < e => state[f] # "unused"
  /\ state' = [state EXCEPT ![e] = "running"]
  /\ entryKey' = [entryKey EXCEPT ![e] = Target(r)]
  /\ tokens' = [tokens EXCEPT ![e] = Burst]
  /\ idle' = [idle EXCEPT ![e] = 0]
  /\ held' = [held EXCEPT ![r][phase[r]] = e]
  /\ UNCHANGED <<registry, paid, queueVars, inputVars, gcVars, phase, answer>>

(* Mutant: the loser of the race leaves its dispatcher running.            *)
StoreNoStop(r) ==
  LET mine == held[r][phase[r]]
      found == registry[Target(r)]
  IN /\ pc[r] = "store"
     /\ registry' = [registry EXCEPT ![Target(r)] = IF found = None THEN mine ELSE found]
     /\ held' = [held EXCEPT ![r][phase[r]] = IF found = None THEN mine ELSE found]
     /\ Proceed(r)
     /\ UNCHANGED <<state, entryKey, bucketVars, queueVars, inputVars, gcVars, idle,
                    answer>>

(* LoadOrStore: the loser of a race stops its own queue and uses, without  *)
(* marking it, the entry of the winner.                                    *)
Store(r) ==
  LET mine == held[r][phase[r]]
      found == registry[Target(r)]
  IN /\ pc[r] = "store"
     /\ \/ /\ found = None
           /\ registry' = [registry EXCEPT ![Target(r)] = mine]
           /\ UNCHANGED <<state, held>>
        \/ /\ found # None
           /\ state' = [state EXCEPT ![mine] = "stopped"]
           /\ held' = [held EXCEPT ![r][phase[r]] = found]
           /\ UNCHANGED registry
     /\ Proceed(r)
     /\ UNCHANGED <<entryKey, bucketVars, queueVars, inputVars, gcVars, idle, answer>>

----------------------------------------------------------------------------
(* The middleware.                                                         *)

Take(r, e) ==
  /\ tokens[e] > 0
  /\ tokens' = [tokens EXCEPT ![e] = @ - 1]
  /\ paid' = [paid EXCEPT ![r][entryKey[e]] = @ + 1]

Answer(r, from, a) ==
  /\ Move(r, from, "done")
  /\ answer' = [answer EXCEPT ![r] = a]

(* waitForAppBucket: the first try, and each turn of its loop.             *)
AppTry(r) ==
  /\ pc[r] = "appTry"
  /\ \/ /\ Take(r, held[r]["app"])
        /\ Move(r, "appTry", "consume")
        /\ UNCHANGED answer
     \/ /\ tokens[held[r]["app"]] = 0
        /\ IF mode[r] = "reject"
           THEN Answer(r, "appTry", "429")
           ELSE Move(r, "appTry", "appSleep") /\ UNCHANGED answer
        /\ UNCHANGED <<tokens, paid>>
  /\ UNCHANGED <<entryVars, queueVars, inputVars, gcVars, idle, phase, held>>

(* Mutant: a timeout in the wait is taken for a token.                     *)
AppSleepTimeoutPasses(r) ==
  /\ \/ Move(r, "appSleep", "appTry") /\ UNCHANGED answer
     \/ r \in gone /\ Answer(r, "appSleep", "499")
     \/ r \notin gone /\ Move(r, "appSleep", "consume") /\ UNCHANGED answer
  /\ UNCHANGED <<entryVars, bucketVars, queueVars, inputVars, gcVars, idle, phase, held>>

(* It sleeps at most until the queue timeout, whatever the mode.           *)
AppSleep(r) ==
  /\ \/ Move(r, "appSleep", "appTry") /\ UNCHANGED answer
     \/ r \in gone /\ Answer(r, "appSleep", "499")
     \/ r \notin gone /\ Answer(r, "appSleep", "429")
  /\ UNCHANGED <<entryVars, bucketVars, queueVars, inputVars, gcVars, idle, phase, held>>

(* The fast path, with the bucket found at the start.                      *)
Consume(r) ==
  /\ pc[r] = "consume"
  /\ \/ /\ Take(r, held[r]["own"])
        /\ Move(r, "consume", "forward")
        /\ UNCHANGED answer
     \/ /\ tokens[held[r]["own"]] = 0
        /\ IF mode[r] = "reject"
           THEN Answer(r, "consume", "429")
           ELSE Move(r, "consume", "getQueue") /\ UNCHANGED answer
        /\ UNCHANGED <<tokens, paid>>
  /\ UNCHANGED <<entryVars, queueVars, inputVars, gcVars, idle, phase, held>>

(* getQueue looks the key up again: the entry may be another one, or gone, *)
(* which is reported as a full queue.                                      *)
GetQueue(r) ==
  /\ \/ /\ registry[key[r]] = None
        /\ Move(r, "getQueue", "fail")
        /\ UNCHANGED waitsOn
     \/ /\ registry[key[r]] # None
        /\ Move(r, "getQueue", "enqueue")
        /\ waitsOn' = [waitsOn EXCEPT ![r] = registry[key[r]]]
  /\ UNCHANGED <<entryVars, bucketVars, queued, ready, inputVars, gcVars, idle, phase, held, answer>>

Enqueue(r) ==
  LET e == waitsOn[r]
  IN /\ pc[r] = "enqueue"
     /\ \/ /\ Cardinality(queued[e]) >= MaxDepth
           /\ Move(r, "enqueue", "fail")
           /\ UNCHANGED queued
        \/ /\ Cardinality(queued[e]) < MaxDepth
           /\ Move(r, "enqueue", "wait")
           /\ queued' = [queued EXCEPT ![e] = @ \cup {r}]
     /\ UNCHANGED <<entryVars, bucketVars, ready, waitsOn, inputVars, gcVars,
                    idle, phase, held, answer>>

(* The dispatcher of e takes a token for one of its requests; after Stop   *)
(* it may still serve some before it looks at the done channel.            *)
Dispatch(e, r) ==
  /\ r \in queued[e]
  /\ Take(r, e)
  /\ queued' = [queued EXCEPT ![e] = @ \ {r}]
  /\ ready' = ready \cup {r}
  /\ UNCHANGED <<entryVars, waitsOn, inputVars, gcVars, idle, pc, phase, held, answer>>

(* Mutant: a waiting request does not watch the done channel.              *)
WakeNotOnStop(r) ==
  /\ pc[r] = "wait"
  /\ \/ /\ r \in ready
        /\ Move(r, "wait", "forward")
        /\ UNCHANGED queued
     \/ /\ r \in gone \/ mode[r] = "queue-timeout"
        /\ Move(r, "wait", "fail")
        /\ queued' = [queued EXCEPT ![waitsOn[r]] = @ \ {r}]
  /\ UNCHANGED <<entryVars, bucketVars, ready, waitsOn, inputVars, gcVars, idle,
                 phase, held, answer>>

(* The select of RequestQueue.Enqueue: released, the context has ended (by *)
(* its deadline in queue-timeout mode), or the queue is stopped.           *)
Wake(r) ==
  /\ pc[r] = "wait"
  /\ \/ /\ r \in ready
        /\ Move(r, "wait", "forward")
        /\ UNCHANGED queued
     \/ /\ r \in gone \/ mode[r] = "queue-timeout"
        /\ Move(r, "wait", "fail")
        /\ queued' = [queued EXCEPT ![waitsOn[r]] = @ \ {r}]
     \/ /\ state[waitsOn[r]] = "stopped"
        /\ Move(r, "wait", "fail")
        /\ UNCHANGED queued
  /\ UNCHANGED <<entryVars, bucketVars, ready, waitsOn, inputVars, gcVars, idle,
                 phase, held, answer>>

(* Mutant: every failure is reported as a disconnect.                      *)
FailAlways499(r) ==
  /\ Answer(r, "fail", "499")
  /\ UNCHANGED <<entryVars, bucketVars, queueVars, inputVars, gcVars, idle, phase, held>>

Fail(r) ==
  /\ Answer(r, "fail", IF r \in gone THEN "499" ELSE "429")
  /\ UNCHANGED <<entryVars, bucketVars, queueVars, inputVars, gcVars, idle, phase, held>>

(* The response comes back, with a rate that updates the bucket or without.*)
Forward(r) ==
  /\ \E rate \in Announced : Move(r, "forward", IF rate THEN "load" ELSE "done")
  /\ answer' = [answer EXCEPT ![r] = "forwarded"]
  /\ phase' = [phase EXCEPT ![r] = "update"]
  /\ UNCHANGED <<entryVars, bucketVars, queueVars, inputVars, gcVars, idle, held>>

Disconnect(r) ==
  /\ pc[r] \in {"appSleep", "enqueue", "wait"}
  /\ r \notin gone
  /\ gone' = gone \cup {r}
  /\ UNCHANGED <<entryVars, bucketVars, queueVars, key, mode, gcVars, idle, pc, phase, held, answer>>
----------------------------------------------------------------------------
(* The collector ranges over both maps; for each entry it checks lastUsed, *)
(* stops the queue and deletes the key.                                    *)

GcStart ==
  /\ gcpc = "idle"
  /\ gcTodo' = {k \in AllKeys : registry[k] # None}
  /\ gcTodo' # {}
  /\ gcpc' = "check"
  /\ UNCHANGED <<entryVars, bucketVars, queueVars, inputVars, pc, phase, held, answer, idle, gcKey, done>>

GcCheck(k) ==
  /\ gcpc = "check"
  /\ k \in gcTodo
  /\ gcTodo' = gcTodo \ {k}
  /\ IF idle[registry[k]] >= TTL
     THEN gcpc' = "stop" /\ gcKey' = k
     ELSE gcpc' = (IF gcTodo' = {} THEN "idle" ELSE "check") /\ UNCHANGED gcKey
  /\ UNCHANGED <<entryVars, bucketVars, queueVars, inputVars, pc, phase, held, answer, idle, done>>

GcStop ==
  /\ gcpc = "stop"
  /\ state' = [state EXCEPT ![registry[gcKey]] = "stopped"]
  /\ gcpc' = "delete"
  /\ UNCHANGED <<registry, entryKey, bucketVars, queueVars, inputVars, pc, phase, held, answer, idle, gcKey, gcTodo, done>>

GcDelete ==
  /\ gcpc = "delete"
  /\ registry' = [registry EXCEPT ![gcKey] = None]
  /\ gcpc' = IF gcTodo = {} THEN "idle" ELSE "check"
  /\ UNCHANGED <<state, entryKey, bucketVars, queueVars, inputVars, pc, phase, held, answer, idle, gcKey, gcTodo, done>>

(* Mutant: the application-wide queues are left out.                       *)
StopMerchants ==
  /\ ~done /\ \A r \in Requests : pc[r] = "done"
  /\ done' = TRUE
  /\ state' = [e \in Entries |-> IF \E k \in Keys : registry[k] = e THEN "stopped" ELSE state[e]]
  /\ UNCHANGED <<registry, entryKey, bucketVars, queueVars, inputVars, pc, phase, held, answer, idle, gcpc, gcKey, gcTodo>>

(* Stop, deferred by main until the servers have drained.  The collector   *)
(* may be anywhere in a pass, and its select may still choose a tick.      *)
Stop ==
  /\ ~done /\ \A r \in Requests : pc[r] = "done"
  /\ done' = TRUE
  /\ state' = [e \in Entries |-> IF \E k \in AllKeys : registry[k] = e THEN "stopped" ELSE state[e]]
  /\ UNCHANGED <<registry, entryKey, bucketVars, queueVars, inputVars, pc, phase, held, answer, idle, gcpc, gcKey, gcTodo>>

----------------------------------------------------------------------------
(* Time.                                                                   *)

Refill(e) ==
  /\ state[e] # "unused"
  /\ tokens[e] < Burst
  /\ tokens' = [tokens EXCEPT ![e] = @ + 1]
  /\ UNCHANGED <<entryVars, paid, queueVars, inputVars, gcVars, idle, pc, phase, held, answer>>

Tick ==
  /\ idle' = [e \in Entries |-> IF idle[e] < TTL /\ state[e] # "unused"
                                THEN idle[e] + 1 ELSE idle[e]]
  /\ UNCHANGED <<entryVars, bucketVars, queueVars, inputVars, gcVars, pc, phase, held, answer>>

----------------------------------------------------------------------------

RequestStep(r) ==
  \/ Load(r) \/ Touch(r) \/ Store(r) \/ \E e \in Entries : Create(r, e)
  \/ AppTry(r) \/ AppSleep(r) \/ Consume(r)
  \/ GetQueue(r) \/ Enqueue(r) \/ Wake(r) \/ Fail(r) \/ Forward(r)

Collector == GcStart \/ (\E k \in AllKeys : GcCheck(k)) \/ GcStop \/ GcDelete

Next ==
  \/ \E r \in Requests : RequestStep(r) \/ Disconnect(r)
  \/ \E e \in Entries, r \in Requests : Dispatch(e, r)
  \/ Collector
  \/ Stop
  \/ \E e \in Entries : Refill(e)
  \/ Tick

Spec == Init /\ [][Next]_vars

(* Every handler runs on, every dispatcher that is not stopped serves, and *)
(* buckets refill.  The collector needs no fairness.                       *)
Fairness ==
  /\ \A r \in Requests : WF_vars(RequestStep(r))
  /\ \A e \in Entries :
       /\ WF_vars(Refill(e))
       /\ WF_vars(state[e] = "running" /\ \E r \in Requests : Dispatch(e, r))

FairSpec == Spec /\ Fairness

----------------------------------------------------------------------------

(* Registry, entries, requests and collector have their types.             *)
TypeOK ==
  /\ registry \in [AllKeys -> Entries \cup {None}]
  /\ state \in [Entries -> {"unused", "running", "stopped"}]
  /\ entryKey \in [Entries -> AllKeys]
  /\ tokens \in [Entries -> 0 .. Burst]
  /\ idle \in [Entries -> 0 .. TTL]
  /\ pc \in [Requests -> {"load", "touch", "create", "store", "appTry",
                          "appSleep", "consume", "getQueue", "enqueue", "wait",
                          "fail", "forward", "done"}]
  /\ phase \in [Requests -> Phases]
  /\ key \in [Requests -> Keys]
  /\ mode \in [Requests -> Modes]
  /\ held \in [Requests -> [Phases -> Entries \cup {None}]]
  /\ queued \in [Entries -> SUBSET Requests]
  /\ ready \subseteq Requests
  /\ waitsOn \in [Requests -> Entries \cup {None}]
  /\ paid \in [Requests -> [AllKeys -> Nat]]
  /\ gone \subseteq Requests
  /\ answer \in [Requests -> {"none", "forwarded", "429", "499"}]
  /\ gcpc \in {"idle", "check", "stop", "delete"}
  /\ gcKey \in AllKeys
  /\ gcTodo \subseteq AllKeys
  /\ done \in BOOLEAN

(* No dispatcher goroutine is left running without an owner: a queue that  *)
(* is not stopped is in the registry under its own key, or is being stored *)
(* by the request that made it (limiter.go:47-60, 153-167).                *)
NoLeakedDispatcher ==
  \A e \in Entries : state[e] = "running" =>
    \/ registry[entryKey[e]] = e
    \/ \E r \in Requests : pc[r] = "store" /\ held[r][phase[r]] = e

(* Once Stop has returned no dispatcher runs, neither one of a merchant's  *)
(* queues nor an application-wide one, wherever the collector was          *)
(* (limiter.go:178-193).                                                   *)
NoneRunAfterStop == done => \A e \in Entries : state[e] # "running"

(* An entry is only ever found under the key it was made for, and nobody   *)
(* uses the bucket or the queue of another merchant or endpoint, though    *)
(* the registry may change between the lookups (limiter.go:36, 94-100).    *)
KeysKeptApart ==
  /\ \A k \in AllKeys : registry[k] # None => entryKey[registry[k]] = k
  /\ \A r \in Requests :
       /\ \A p \in Phases : held[r][p] # None =>
            entryKey[held[r][p]] = IF p = "app" THEN App ELSE key[r]
       /\ waitsOn[r] # None => entryKey[waitsOn[r]] = key[r]

(* A forwarded request of a known endpoint has cost exactly one token of   *)
(* its own key and, under an application-wide limit, one of that limit,    *)
(* counting every token taken for it by the fast path, by waitForAppBucket *)
(* and by a dispatcher, whichever entries the collector replaced           *)
(* meanwhile; no request costs more, or a token of another merchant's key; *)
(* and a refused one has cost a token of its own key only if it gave up    *)
(* waiting, because of its context or of the collector                     *)
(* (middleware.go:36-55, 131-156).                                         *)
PaidInFull ==
  \A r \in Requests :
    /\ \A k \in AllKeys : paid[r][k] <= (IF k = key[r] \/ k = App THEN 1 ELSE 0)
    /\ answer[r] = "forwarded" /\ key[r] \in Known =>
         /\ paid[r][key[r]] = 1
         /\ paid[r][App] = IF key[r] \in AppLimited THEN 1 ELSE 0
    /\ answer[r] \in {"429", "499"} /\ paid[r][key[r]] > 0 =>
         \/ r \in gone
         \/ mode[r] = "queue-timeout"
         \/ state[waitsOn[r]] = "stopped"

(* 499 is answered only to a client that has gone, and a request in reject *)
(* mode never waits in a queue (middleware.go:86-90, 114-116, 138-142).    *)
AnswersFit ==
  \A r \in Requests :
    /\ answer[r] = "499" => r \in gone
    /\ mode[r] = "reject" => waitsOn[r] = None /\ answer[r] # "499"

(* Every request gets its answer, even when the collector stops the queue  *)
(* it waits in or removes the entry it has found.                          *)
EveryRequestAnswered == \A r \in Requests : <>(pc[r] = "done")

=============================================================================
