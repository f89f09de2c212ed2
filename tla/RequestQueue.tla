---------------------------- MODULE RequestQueue ----------------------------
(***************************************************************************)
(* The priority queue in front of a token bucket                           *)
(* (internal/ratelimit/queue.go) and the requests that go through it.      *)
(*                                                                         *)
(* A request first tries the bucket itself, the fast path of the           *)
(* middleware (middleware.go:46-53); when it is refused it calls Enqueue   *)
(* and waits.  One dispatcher goroutine per queue takes a token on behalf  *)
(* of the first request of the heap and closes its ready channel.  Every   *)
(* request, the dispatcher, the clock and the callers of UpdateRate,       *)
(* Tokens and Stop interleave; a step is what the code does under one lock *)
(* acquisition or in one channel operation.                                *)
(***************************************************************************)
EXTENDS TokenBucket, FiniteSets

CONSTANTS
  Requests,    \* the requests, each handled once
  Priorities,  \* PriorityHigh = 0, PriorityNormal = 1, PriorityLow = 2
  MaxDepth,    \* queueMaxDepth
  MaxWait,     \* the 100 ms cap of the dispatcher's timer, in ticks
  None         \* no request

ASSUME QueueConstants ==
  /\ IsFiniteSet(Requests)
  /\ Priorities \subseteq 0 .. 2
  /\ MaxDepth \in Nat
  /\ MaxWait \in Nat
  /\ None \notin Requests

VARIABLES
  pc,          \* where each request is
  ctxDone,     \* requests whose context is cancelled or timed out
  heap,        \* the queued requests
  priority,    \* priority given to Enqueue
  enqueuedAt,  \* reading of the clock when queued
  clock,       \* last reading of the clock taken under the queue's lock
  ready,       \* requests whose ready channel is closed
  notify,      \* the one-slot notify channel holds a signal
  done,        \* the done channel is closed
  dpc,         \* where the dispatcher is
  inHand,      \* the request the dispatcher has popped and not yet released
  timer,       \* ticks before the dispatcher's timer fires
  cost,        \* history: tokens consumed on behalf of each request
  late         \* history: requests queued while one is in hand

callerVars == <<pc, ctxDone>>
heapVars == <<heap, priority, enqueuedAt, clock, late>>
channelVars == <<ready, notify, done>>
dispatcherVars == <<dpc, inHand, timer>>
vars == <<bucketVars, callerVars, heapVars, channelVars, dispatcherVars, cost>>

(* Where a request can be: still in the handler, or with its outcome.      *)
Waiting == {"new", "enqueue", "notify", "wait", "remove"}
Admitted == {"direct", "ok"}
Refused == {"full", "cancelled", "stopped"}

----------------------------------------------------------------------------

Less(r, s) ==
  \/ priority[r] < priority[s]
  \/ priority[r] = priority[s] /\ enqueuedAt[r] < enqueuedAt[s]

(* Mutant: the heap is ordered by arrival alone.                           *)
TopsByArrival == {r \in heap : \A s \in heap : enqueuedAt[r] <= enqueuedAt[s]}

(* heap.Pop returns a least element; which one, among equals, depends on   *)
(* the shape of the heap.                                                  *)
Tops == {r \in heap : \A s \in heap : ~Less(s, r)}

NewRequestQueue ==
  /\ pc = [r \in Requests |-> "new"]
  /\ ctxDone = {}
  /\ heap = {}
  /\ priority = [r \in Requests |-> 1]
  /\ enqueuedAt = [r \in Requests |-> 0]
  /\ clock = 0
  /\ ready = {}
  /\ notify = FALSE
  /\ done = FALSE
  /\ dpc = "lock"
  /\ inHand = None
  /\ timer = 0
  /\ cost = [r \in Requests |-> 0]
  /\ late = {}

Init == NewTokenBucket /\ NewRequestQueue

Goto(r, from, to) ==
  /\ pc[r] = from
  /\ pc' = [pc EXCEPT ![r] = to]

----------------------------------------------------------------------------
(* The requests.                                                           *)

TryDirect(r) ==
  /\ \/ /\ TryConsume(TRUE)
        /\ Goto(r, "new", "direct")
        /\ cost' = [cost EXCEPT ![r] = @ + 1]
     \/ /\ TryConsume(FALSE)
        /\ Goto(r, "new", "enqueue")
        /\ UNCHANGED cost
  /\ UNCHANGED <<ctxDone, heapVars, channelVars, dispatcherVars>>

(* Two readings of the clock may be equal: its resolution is finite.       *)
Enqueue(r, p, t) ==
  /\ \/ /\ Cardinality(heap) >= MaxDepth
        /\ Goto(r, "enqueue", "full")
        /\ UNCHANGED heapVars
     \/ /\ Cardinality(heap) < MaxDepth
        /\ Goto(r, "enqueue", "notify")
        /\ heap' = heap \cup {r}
        /\ priority' = [priority EXCEPT ![r] = p]
        /\ enqueuedAt' = [enqueuedAt EXCEPT ![r] = t]
        /\ clock' = t
        /\ late' = IF inHand = None THEN {} ELSE late \cup {r}
  /\ UNCHANGED <<bucketVars, ctxDone, channelVars, dispatcherVars, cost>>

(* Mutant: the signal is sent only to a dispatcher that is already idle.   *)
NotifyIfIdle(r) ==
  /\ Goto(r, "notify", "wait")
  /\ notify' = (notify \/ dpc = "sleep")
  /\ UNCHANGED <<bucketVars, ctxDone, heapVars, ready, done, dispatcherVars, cost>>

(* The send does not block: a full channel already holds a signal.         *)
Notify(r) ==
  /\ Goto(r, "notify", "wait")
  /\ notify' = TRUE
  /\ UNCHANGED <<bucketVars, ctxDone, heapVars, ready, done, dispatcherVars, cost>>

(* The select of Enqueue: any case that is ready may be the one taken.     *)
Wake(r) ==
  /\ \/ r \in ready /\ Goto(r, "wait", "ok")
     \/ r \in ctxDone /\ Goto(r, "wait", "remove")
     \/ done /\ Goto(r, "wait", "stopped")
  /\ UNCHANGED <<bucketVars, ctxDone, heapVars, channelVars, dispatcherVars, cost>>

(* Mutant: a cancelled request is not taken out of the heap.               *)
removeNothing(r) ==
  /\ Goto(r, "remove", "cancelled")
  /\ UNCHANGED <<bucketVars, ctxDone, heapVars, channelVars, dispatcherVars, cost>>

remove(r) ==
  /\ Goto(r, "remove", "cancelled")
  /\ heap' = heap \ {r}
  /\ UNCHANGED <<bucketVars, ctxDone, priority, enqueuedAt, clock, late,
                 channelVars, dispatcherVars, cost>>

(* The client disconnects, or the queue timeout passes.                    *)
Cancel(r) ==
  /\ pc[r] \in {"enqueue", "notify", "wait"}
  /\ r \notin ctxDone
  /\ ctxDone' = ctxDone \cup {r}
  /\ UNCHANGED <<bucketVars, pc, heapVars, channelVars, dispatcherVars, cost>>

----------------------------------------------------------------------------
(* The dispatcher.                                                         *)

(* Mutant: a refused request is released all the same.                     *)
DispatchUnpaid ==
  /\ dpc = "lock"
  /\ \/ /\ heap = {}
        /\ dpc' = "idle"
        /\ UNCHANGED <<bucketVars, heapVars, inHand, timer, cost>>
     \/ /\ heap # {}
        /\ \E allowed \in BOOLEAN, r \in Tops :
             /\ TryConsume(allowed)
             /\ heap' = heap \ {r}
             /\ inHand' = r
             /\ cost' = [cost EXCEPT ![r] = IF allowed THEN @ + 1 ELSE @]
        /\ dpc' = "close"
        /\ UNCHANGED <<priority, enqueuedAt, clock, late, timer>>
  /\ UNCHANGED <<callerVars, channelVars>>

(* Mutant: the first request is looked at and left in the heap.            *)
DispatchPeek ==
  /\ dpc = "lock"
  /\ \/ /\ heap = {}
        /\ dpc' = "idle"
        /\ UNCHANGED <<bucketVars, inHand, timer, cost>>
     \/ /\ heap # {}
        /\ TryConsume(TRUE)
        /\ \E r \in Tops :
             /\ inHand' = r
             /\ cost' = [cost EXCEPT ![r] = @ + 1]
        /\ dpc' = "close"
        /\ UNCHANGED timer
     \/ /\ heap # {}
        /\ TryConsume(FALSE)
        /\ timer' = MinOf(WaitTime, MaxWait)
        /\ dpc' = "sleep"
        /\ UNCHANGED <<inHand, cost>>
  /\ UNCHANGED <<callerVars, heapVars, channelVars>>

(* One pass under the queue's lock.                                        *)
Dispatch ==
  /\ dpc = "lock"
  /\ \/ /\ heap = {}
        /\ dpc' = "idle"
        /\ UNCHANGED <<bucketVars, heapVars, inHand, timer, cost>>
     \/ /\ heap # {}
        /\ TryConsume(TRUE)
        /\ \E r \in Tops :
             /\ heap' = heap \ {r}
             /\ inHand' = r
             /\ cost' = [cost EXCEPT ![r] = @ + 1]
        /\ dpc' = "close"
        /\ UNCHANGED <<priority, enqueuedAt, clock, late, timer>>
     \/ /\ heap # {}
        /\ TryConsume(FALSE)
        /\ timer' = MinOf(WaitTime, MaxWait)
        /\ dpc' = "sleep"
        /\ UNCHANGED <<heapVars, inHand, cost>>
  /\ UNCHANGED <<callerVars, channelVars>>

Close ==
  /\ dpc = "close"
  /\ ready' = ready \cup {inHand}
  /\ inHand' = None
  /\ late' = {}
  /\ dpc' = "lock"
  /\ UNCHANGED <<bucketVars, callerVars, heap, priority, enqueuedAt, clock,
                 notify, done, timer, cost>>

(* Mutant: the dispatcher has no timer and waits for the next signal.      *)
ResumeNoTimer ==
  /\ dpc \in {"idle", "sleep"}
  /\ \/ notify /\ notify' = FALSE /\ dpc' = "lock"
     \/ done /\ dpc' = "exit" /\ UNCHANGED notify
  /\ timer' = 0
  /\ UNCHANGED <<bucketVars, callerVars, heapVars, ready, done, inHand, cost>>

(* Mutant: an idle dispatcher does not watch the done channel.             *)
ResumeNotOnStop ==
  /\ dpc \in {"idle", "sleep"}
  /\ \/ dpc = "sleep" /\ timer = 0 /\ dpc' = "lock" /\ UNCHANGED notify
     \/ notify /\ notify' = FALSE /\ dpc' = "lock"
     \/ dpc = "sleep" /\ done /\ dpc' = "exit" /\ UNCHANGED notify
  /\ timer' = 0
  /\ UNCHANGED <<bucketVars, callerVars, heapVars, ready, done, inHand, cost>>

(* The two selects: idle on an empty heap, or asleep until the timer.      *)
Resume ==
  /\ dpc \in {"idle", "sleep"}
  /\ \/ dpc = "sleep" /\ timer = 0 /\ dpc' = "lock" /\ UNCHANGED notify
     \/ notify /\ notify' = FALSE /\ dpc' = "lock"
     \/ done /\ dpc' = "exit" /\ UNCHANGED notify
  /\ timer' = 0
  /\ UNCHANGED <<bucketVars, callerVars, heapVars, ready, done, inHand, cost>>

----------------------------------------------------------------------------
(* The environment.                                                        *)

Stop ==
  /\ ~done
  /\ done' = TRUE
  /\ UNCHANGED <<bucketVars, callerVars, heapVars, ready, notify, dispatcherVars, cost>>

(* Responses update the rate or read the remaining tokens at any time.     *)
Respond ==
  /\ Tokens \/ \E r \in Rates : UpdateRate(r)
  /\ UNCHANGED <<callerVars, heapVars, channelVars, dispatcherVars, cost>>

Tick ==
  /\ Elapse
  /\ timer' = MaxOf(timer - 1, 0)
  /\ UNCHANGED <<callerVars, heapVars, channelVars, dpc, inHand, cost>>

RequestStep(r) ==
  \/ TryDirect(r)
  \/ \E p \in Priorities, t \in {clock, clock + 1} : Enqueue(r, p, t)
  \/ Notify(r)
  \/ Wake(r)
  \/ remove(r)

DispatcherStep == Dispatch \/ Close \/ Resume

Next ==
  \/ \E r \in Requests : RequestStep(r) \/ Cancel(r)
  \/ DispatcherStep
  \/ Stop
  \/ Respond
  \/ Tick

(* Every goroutine runs when it can, and time passes.  Nothing obliges a   *)
(* client to disconnect, a response to arrive or the queue to be stopped.  *)
Fairness ==
  /\ \A r \in Requests : WF_vars(RequestStep(r))
  /\ WF_vars(DispatcherStep)
  /\ WF_vars(Tick)

Spec == Init /\ [][Next]_vars
FairSpec == Spec /\ Fairness

----------------------------------------------------------------------------

(* Bucket, queue, channels and goroutines have their types.                *)
TypeOK ==
  /\ BucketTypeOK
  /\ pc \in [Requests -> Waiting \cup Admitted \cup Refused]
  /\ ctxDone \subseteq Requests
  /\ heap \subseteq Requests
  /\ priority \in [Requests -> 0 .. 2]
  /\ enqueuedAt \in [Requests -> Nat]
  /\ clock \in Nat
  /\ late \subseteq Requests
  /\ ready \subseteq Requests
  /\ notify \in BOOLEAN
  /\ done \in BOOLEAN
  /\ dpc \in {"lock", "idle", "close", "sleep", "exit"}
  /\ inHand \in Requests \cup {None}
  /\ timer \in Nat
  /\ cost \in [Requests -> Nat]

(* The dispatcher never sleeps on an empty heap while somebody waits: the  *)
(* one-slot channel may drop a signal (queue.go:98-101), but only when one *)
(* is pending, and a request is pushed before it signals.                  *)
NoLostWakeup ==
  dpc = "idle" /\ heap # {} => notify \/ \E r \in Requests : pc[r] = "notify"

(* Where a request is and what it has cost agree, at every point of every  *)
(* goroutine.  A request that waits is in the heap, in the dispatcher's    *)
(* hand or released, never lost between Pop and close, never in two        *)
(* places; a token has been taken for it exactly in the last two cases;    *)
(* and a request gives up only for a reason (queue.go:82-139).             *)
Accounting ==
  /\ dpc = "close" <=> inHand # None
  /\ inHand \notin ready
  /\ \A r \in Requests :
       /\ r \in heap \/ pc[r] \in {"new", "enqueue", "full"} => cost[r] = 0
       /\ r \in ready \cup {inHand} \/ pc[r] = "direct" => cost[r] = 1
       /\ cost[r] \in {0, 1}
       /\ r \in heap \cup ready \cup {inHand}
            => pc[r] \notin {"new", "enqueue", "full", "direct"}
       /\ pc[r] \in {"notify", "wait"} => r \in heap \cup ready \cup {inHand}
       /\ pc[r] = "ok" => r \in ready
       /\ pc[r] \in {"remove", "cancelled"} => r \in ctxDone
       /\ pc[r] = "cancelled" => r \notin heap
       /\ pc[r] = "stopped" => done

(* Every request that goes ahead has used exactly one token, whichever of  *)
(* the middleware and the dispatcher took it, and a token is spent on a    *)
(* request that does not go ahead only when its context ended or the queue *)
(* was stopped while it was waiting (queue.go:104-110).                    *)
OneTokenEach ==
  \A r \in Requests :
    /\ cost[r] <= 1
    /\ pc[r] \in Admitted => cost[r] = 1
    /\ pc[r] \in Refused /\ cost[r] = 1 => r \in ctxDone \/ done

(* The heap never exceeds queueMaxDepth, though cancelled and stopped      *)
(* requests may still be in it (queue.go:84).                              *)
DepthBounded == Cardinality(heap) <= MaxDepth

(* The request the dispatcher is about to release comes before every other *)
(* one that was queued when it was popped: first by priority, then by      *)
(* arrival (queue.go:34-39).                                               *)
PriorityRespected ==
  dpc = "close" => \A r \in heap \ late : ~Less(r, inHand)

(* Every request gets an outcome: the queue starves nobody, however rates  *)
(* change and signals are dropped.                                         *)
WaitersReturn ==
  \A r \in Requests : pc[r] \in Waiting ~> pc[r] \in Admitted \cup Refused

(* After Stop the dispatcher goroutine ends (queue.go:129, 153).           *)
StopEndsDispatcher == done ~> dpc = "exit"

(* Which requests a token was taken for, and how far each has got.         *)
Granted == {r \in Requests : cost[r] > 0}

OutcomeAt(place) ==
  CASE place \in Admitted -> "admitted"
    [] place \in Refused -> "refused"
    [] OTHER -> "pending"

Outcome == [r \in Requests |-> OutcomeAt(pc[r])]

Contract == INSTANCE Admission WITH granted <- Granted, outcome <- Outcome

(* The queue and the fast path together implement Admission: whatever the  *)
(* interleaving of the middleware's TryConsume (middleware.go:47) with the *)
(* dispatcher's (queue.go:133), each admission is paid for by one token of *)
(* its own.                                                                *)
ImplementsAdmission == Contract!AdmissionSpec

=============================================================================
