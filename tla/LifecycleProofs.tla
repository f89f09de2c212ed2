-------------------------- MODULE LifecycleProofs --------------------------
(***************************************************************************)
(* The three invariants of Lifecycle, for any number of requests, starts   *)
(* and releases.                                                           *)
(***************************************************************************)
EXTENDS Lifecycle, TLAPS

ServerSet == {"eu", "na", "dashboard"}

Dead == main \in {"failed", "exited"}

(* main has done the s-th step of its startup.                             *)
Past(s) ==
  main \in {"listen", "serve", "drain", "return", "exited"} \/ (main = "start" /\ step > s)

(* All calls main defers, the latest first, and how many it has deferred   *)
(* before each of its steps.                                               *)
Calls == <<"stopPromCollectors", "auditShutdown", "cancel", "asyncLogger.Close",
           "bodyStore.Close", "metaStore.Close", "closeMemCache", "limiter.Stop">>

Depth == <<0, 0, 1, 2, 3, 4, 5, 6, 6, 6, 7, 8, 8>>

LifeType ==
  /\ main \in {"start", "migrate", "listen", "serve", "drain", "return", "failed", "exited"}
  /\ step \in 1 .. 13
  /\ deferred \in Seq(Range(Calls))
  /\ release \in Releases
  /\ pending \subseteq Nat
  /\ tx \in Nat
  /\ listening \subseteq ServerSet
  /\ todo \subseteq ServerSet
  /\ at \in [Requests -> ServerSet \cup {NoServer}]
  /\ channel \in Seq(Requests)
  /\ batch \in Seq(Requests)
  /\ worker \in {"none", "running", "ended"}
  /\ effects \in Seq(Nat)
  /\ audited \subseteq {"startup", "shutdown"}

(* Where main is in its startup.                                           *)
Phase ==
  /\ main = "start" => step <= 12
  /\ main = "migrate" => step = 4
  /\ main \in {"listen", "serve", "drain", "return"} => step = 13
  /\ tx # 0 => main = "migrate"

(* The stack of deferred calls is the end of Calls.                        *)
Stack ==
  /\ Len(deferred) <= 8
  /\ \A i \in 1 .. Len(deferred) : deferred[i] = Calls[8 - Len(deferred) + i]
  /\ main \in {"start", "migrate", "listen", "serve", "drain"} => Len(deferred) = Depth[step]
  /\ main = "exited" => Len(deferred) = 0

(* Requests are handled where a server listens, is being drained, or was   *)
(* left with an error.                                                     *)
Handled ==
  /\ listening # {} => main \in {"listen", "serve", "drain"}
  /\ main = "listen" => listening \in {{}, {"eu"}, {"eu", "na"}}
  /\ main = "drain" => listening = todo
  /\ draining # NoServer => main = "drain"
  /\ shutdownErr => main \in {"drain", "failed"}
  /\ \A r \in Requests :
       at[r] # NoServer =>
         /\ main \in {"listen", "serve", "drain"}
         /\ at[r] \in listening \/ at[r] = draining \/ shutdownErr

(* The store is open, and the worker running, as long as their deferred    *)
(* calls are to come.                                                      *)
Closing ==
  /\ main \notin {"return", "failed", "exited"} => (open <=> main = "migrate" \/ Past(4))
  /\ main = "return" => (open <=> Len(deferred) >= 3)
  /\ ~Dead => (worker = "none" <=> ~Past(6))
  /\ main = "exited" => worker = "ended"
  /\ main = "return" => (worker = "ended" \/ Len(deferred) >= 5)
  /\ closed => main \in {"return", "exited"}
  /\ worker = "ended" => closed /\ channel = <<>> /\ batch = <<>>

(* What is logged is stored or on its way, unless the store has failed.    *)
Owing ==
  /\ ~storeErr /\ main # "failed" => owed \subseteq rows \cup Range(channel) \cup Range(batch)
  /\ ~storeErr /\ Past(9) => "startup" \in audited
  /\ ~storeErr /\ (main = "exited" \/ (main = "return" /\ Len(deferred) < 7)) =>
       "shutdown" \in audited

(* The next transaction is of the lowest version still missing, and what   *)
(* is recorded was so for a release: all of it that is lower is recorded.  *)
Recorded ==
  /\ IsInjective(effects) /\ Range(effects) = versions
  /\ main = "migrate" => pending = release \ versions
  /\ tx # 0 => tx \in pending /\ \A w \in pending : tx <= w
  /\ Past(4) => release \subseteq versions
  /\ \A w \in versions : \E a \in Releases : w \in a /\ \A u \in a : u < w => u \in versions

Linear == \A a, b \in Releases : \A v \in b \ a, w \in a : w < v

Ordered == Linear => \A i, j \in DOMAIN effects : i < j => effects[i] < effects[j]

LifeInv ==
  LifeType /\ Phase /\ Stack /\ Handled /\ Closing /\ Owing /\ Recorded /\ Ordered

----------------------------------------------------------------------------

(* Each startup step defers the next of Calls, or none.                    *)
LEMMA Defers ==
  ASSUME NEW k \in 1 .. 12
  PROVE DeferOf(StartSteps[k]) = IF Depth[k + 1] = Depth[k] THEN <<>> ELSE <<Calls[8 - Depth[k]]>>
<1>1. CASE k = 1
  BY <1>1 DEF DeferOf, StartSteps, Depth, Calls
<1>2. CASE k = 2
  BY <1>2 DEF DeferOf, StartSteps, Depth, Calls
<1>3. CASE k = 3
  BY <1>3 DEF DeferOf, StartSteps, Depth, Calls
<1>4. CASE k = 4
  BY <1>4 DEF DeferOf, StartSteps, Depth, Calls
<1>5. CASE k = 5
  BY <1>5 DEF DeferOf, StartSteps, Depth, Calls
<1>6. CASE k = 6
  BY <1>6 DEF DeferOf, StartSteps, Depth, Calls
<1>7. CASE k = 7
  BY <1>7 DEF DeferOf, StartSteps, Depth, Calls
<1>8. CASE k = 8
  BY <1>8 DEF DeferOf, StartSteps, Depth, Calls
<1>9. CASE k = 9
  BY <1>9 DEF DeferOf, StartSteps, Depth, Calls
<1>10. CASE k = 10
  BY <1>10 DEF DeferOf, StartSteps, Depth, Calls
<1>11. CASE k = 11
  BY <1>11 DEF DeferOf, StartSteps, Depth, Calls
<1>12. CASE k = 12
  BY <1>12 DEF DeferOf, StartSteps, Depth, Calls
<1>13. QED
  BY <1>1, <1>2, <1>3, <1>4, <1>5, <1>6, <1>7, <1>8, <1>9, <1>10, <1>11, <1>12

(* The stack has the depth that belongs to the step.                       *)
LEMMA Deepens ==
  ASSUME NEW k \in 1 .. 12
  PROVE Depth[k] \in 0 .. 8 /\ Depth[k + 1] \in {Depth[k], Depth[k] + 1} /\ Depth[k + 1] <= 8
  BY DEF Depth

(* Where in the startup the store, the logger and the audit log come.      *)
LEMMA Milestones ==
  /\ Len(StartSteps) = 12
  /\ \A k \in 1 .. 12 : /\ (StartSteps[k] = "store" <=> k = 4)
                        /\ (StartSteps[k] = "logger" <=> k = 6)
                        /\ (StartSteps[k] = "audit" <=> k = 9)
  BY DEF StartSteps

(* One step of main's startup keeps the stack in order.                    *)
LEMMA Advances ==
  ASSUME LifeInv, main \in {"start", "migrate"}, Advance(StartSteps[step])
  PROVE /\ step \in 1 .. 12
        /\ deferred' \in Seq(Range(Calls))
        /\ Stack'
<1>1. step \in 1 .. 12 /\ step' = step + 1 /\ main' \in {"start", "listen"}
  BY DEF LifeInv, LifeType, Phase, Advance
<1>2. deferred \in Seq(Range(Calls)) /\ Len(deferred) = Depth[step]
      /\ \A i \in 1 .. Len(deferred) : deferred[i] = Calls[8 - Len(deferred) + i]
  BY Zenon DEF LifeInv, LifeType, Stack
<1>3. CASE Depth[step + 1] = Depth[step]
  <2>1. deferred' = <<>> \o deferred
    BY <1>1, <1>3, Defers, Zenon DEF Advance
  <2>2. deferred' = deferred
    BY <1>2, <2>1
  <2>3. QED
    BY <1>1, <1>2, <1>3, <2>2, Deepens, Zenon DEF Stack
<1>4. CASE Depth[step + 1] # Depth[step]
  <2>1. deferred' = <<Calls[8 - Depth[step]]>> \o deferred
    BY <1>1, <1>4, Defers, Zenon DEF Advance
  <2>2. Depth[step] \in 0 .. 7 /\ Depth[step + 1] = Depth[step] + 1
    BY <1>1, <1>4, Deepens
  <2>3. Calls[8 - Depth[step]] \in Range(Calls)
    <3>1. 8 - Depth[step] \in DOMAIN Calls
      BY <2>2 DEF Calls
    <3>2. QED
      BY <3>1, Zenon DEF Range
  <2>4. deferred' \in Seq(Range(Calls)) /\ Len(deferred') = Len(deferred) + 1
        /\ \A i \in 1 .. Len(deferred') :
             deferred'[i] = IF i = 1 THEN Calls[8 - Depth[step]] ELSE deferred[i - 1]
    BY <1>2, <2>1, <2>3
  <2>5. \A i \in 1 .. Len(deferred') : deferred'[i] = Calls[8 - Len(deferred') + i]
    <3>1. SUFFICES ASSUME NEW i \in 1 .. Len(deferred')
          PROVE deferred'[i] = Calls[8 - Len(deferred') + i]
      BY Zenon
    <3>2. CASE i = 1
      BY <1>2, <2>4, <3>2
    <3>3. CASE i # 1
      <4>1. i - 1 \in 1 .. Len(deferred) /\ 8 - Len(deferred) + (i - 1) = 8 - Len(deferred') + i
        BY <2>4, <3>3
      <4>2. deferred[i - 1] = Calls[8 - Len(deferred) + (i - 1)]
        BY <1>2, <4>1, Zenon
      <4>3. QED
        BY <2>4, <4>1, <4>2
    <3>4. QED
      BY <3>2, <3>3, Zenon
  <2>6. Len(deferred') = Depth[step'] /\ Depth[step'] <= 8
    BY <1>1, <1>2, <2>2, <2>4
  <2>7. main' # "exited"
    BY <1>1, Zenon
  <2>8. QED
    BY <1>1, <2>4, <2>5, <2>6, <2>7, Zenon DEF Stack
<1>5. QED
  BY <1>3, <1>4, Zenon

(* What is still to be stored, as a set.                                   *)
LEMMA Queued ==
  ASSUME NEW S, NEW s \in Seq(S), NEW x \in S
  PROVE /\ Range(Append(s, x)) = Range(s) \cup {x}
        /\ s # <<>> => Range(s) = {Head(s)} \cup Range(Tail(s))
        /\ Range(<<>>) = {}
        /\ Append(s, x) \in Seq(S) /\ (s # <<>> => Tail(s) \in Seq(S) /\ Head(s) \in S)
<1>1. Range(Append(s, x)) = Range(s) \cup {x}
  <2>1. \A i \in 1 .. Len(s) + 1 : Append(s, x)[i] = IF i = Len(s) + 1 THEN x ELSE s[i]
    OBVIOUS
  <2>2. QED
    BY <2>1 DEF Range
<1>2. ASSUME s # <<>> PROVE Range(s) = {Head(s)} \cup Range(Tail(s))
  <2>1. DOMAIN Tail(s) = 1 .. Len(s) - 1 /\ DOMAIN s = 1 .. Len(s) /\ Len(s) \in Nat \ {0}
    BY <1>2
  <2>2. \A i \in 1 .. Len(s) - 1 : Tail(s)[i] = s[i + 1]
    BY <1>2
  <2>3. \A i \in 1 .. Len(s) : i = 1 \/ (i - 1 \in 1 .. Len(s) - 1 /\ s[i] = Tail(s)[i - 1])
    BY <2>1, <2>2
  <2>4. Range(s) \subseteq {Head(s)} \cup Range(Tail(s))
    <3>1. SUFFICES ASSUME NEW i \in 1 .. Len(s) PROVE s[i] \in {Head(s)} \cup Range(Tail(s))
      BY <2>1, Zenon DEF Range
    <3>2. i = 1 \/ \E j \in DOMAIN Tail(s) : s[i] = Tail(s)[j]
      BY <2>1, <2>3, Zenon
    <3>3. QED
      BY <3>2 DEF Range
  <2>5. {Head(s)} \cup Range(Tail(s)) \subseteq Range(s)
    BY <2>1 DEF Range
  <2>6. QED
    BY <2>4, <2>5, Zenon
<1>3. Range(<<>>) = {}
  BY DEF Range
<1>4. QED
  BY <1>1, <1>2, <1>3

(* The calls that matter, by what is left on the stack with them.          *)
LEMMA CallsAt ==
  \A k \in 1 .. 8 : /\ (Calls[9 - k] = "metaStore.Close" <=> k = 3)
                    /\ (Calls[9 - k] = "asyncLogger.Close" <=> k = 5)
                    /\ (Calls[9 - k] = "auditShutdown" <=> k = 7)
  BY DEF Calls

(* A deferred call: Close of the logger closes the channel and waits for   *)
(* the worker, any other call is done and leaves the stack.                *)
LEMMA Unwinds ==
  ASSUME LifeInv, RunDeferred
  PROVE /\ main = "return" /\ main' = "return"
        /\ Len(deferred) \in 1 .. 8 /\ Len(deferred') \in 0 .. 8 /\ deferred' \in Seq(Range(Calls))
        /\ \/ Len(deferred) = 5 /\ ~closed /\ closed' /\ deferred' = deferred
           \/ /\ Len(deferred') = Len(deferred) - 1 /\ closed' = closed
              /\ \A i \in 1 .. Len(deferred') : deferred'[i] = Calls[8 - Len(deferred') + i]
              /\ Len(deferred) = 5 => worker = "ended"
        /\ (open' <=> open /\ Len(deferred) # 3)
        /\ IF Len(deferred) = 7 THEN Audit("shutdown") ELSE UNCHANGED <<audited, storeErr>>
        /\ UNCHANGED <<step, channel, worker, batch, owed, rows>>
<1>1. /\ main = "return" /\ deferred # <<>> /\ Len(deferred) <= 8 /\ deferred \in Seq(Range(Calls))
  BY Zenon DEF LifeInv, LifeType, Stack, RunDeferred
<1>2. \A i \in 1 .. Len(deferred) : deferred[i] = Calls[8 - Len(deferred) + i]
  BY Zenon DEF LifeInv, Stack
<1>3. /\ Len(deferred) \in 1 .. 8 /\ Head(deferred) = deferred[1]
      /\ Tail(deferred) \in Seq(Range(Calls)) /\ Len(Tail(deferred)) = Len(deferred) - 1
      /\ \A i \in 1 .. Len(deferred) - 1 : Tail(deferred)[i] = deferred[i + 1]
  <2>1. Len(deferred) \in Nat /\ Len(deferred) # 0
    BY <1>1
  <2>2. Len(deferred) \in 1 .. 8
    <3>1. \A n \in Nat : n # 0 /\ n <= 8 => n \in 1 .. 8
      OBVIOUS
    <3>2. QED
      BY <1>1, <2>1, <3>1, Zenon
  <2>3. Head(deferred) = deferred[1]
    BY <1>1
  <2>4. Tail(deferred) \in Seq(Range(Calls)) /\ Len(Tail(deferred)) = Len(deferred) - 1
    BY <1>1
  <2>5. \A i \in 1 .. Len(deferred) - 1 : Tail(deferred)[i] = deferred[i + 1]
    BY <1>1
  <2>6. QED
    BY <2>2, <2>4, <2>5, <2>3, Zenon
<1>4. /\ (Head(deferred) = "metaStore.Close" <=> Len(deferred) = 3)
      /\ (Head(deferred) = "asyncLogger.Close" <=> Len(deferred) = 5)
      /\ (Head(deferred) = "auditShutdown" <=> Len(deferred) = 7)
  <2>1. Head(deferred) = Calls[9 - Len(deferred)]
    BY <1>2, <1>3
  <2>2. QED
    BY <1>3, <2>1, CallsAt, Zenon
<1>5. \/ Len(deferred) = 5 /\ ~closed /\ closed' = TRUE /\ deferred' = deferred
      \/ deferred' = Tail(deferred) /\ closed' = closed /\ (Len(deferred) = 5 => worker = "ended")
  BY <1>4, Zenon DEF RunDeferred
<1>6. /\ (open' <=> open /\ Len(deferred) # 3)
      /\ IF Len(deferred) = 7 THEN Audit("shutdown") ELSE UNCHANGED <<audited, storeErr>>
      /\ main' = main /\ UNCHANGED <<step, channel, worker, batch, owed, rows>>
  BY <1>4, Zenon DEF RunDeferred, startVars
<1>7. CASE Len(deferred) = 5 /\ ~closed /\ closed' = TRUE /\ deferred' = deferred
  <2>1. Len(deferred') \in 0 .. 8
    BY <1>7
  <2>2. QED
    BY <1>1, <1>3, <1>6, <1>7, <2>1, Zenon
<1>8. CASE deferred' = Tail(deferred) /\ closed' = closed /\ (Len(deferred) = 5 => worker = "ended")
  <2>1. Len(deferred') = Len(deferred) - 1 /\ deferred' \in Seq(Range(Calls))
    BY <1>3, <1>8, Zenon
  <2>2. \A i \in 1 .. Len(deferred') : deferred'[i] = Calls[8 - Len(deferred') + i]
    BY <1>2, <1>8, <2>1
  <2>3. Len(deferred') \in 0 .. 8
    <3>1. \A n \in 1 .. 8 : n - 1 \in 0 .. 8
      OBVIOUS
    <3>2. QED
      BY <1>3, <2>1, <3>1, Zenon
  <2>4. QED
    BY <1>1, <1>3, <1>6, <1>8, <2>2, <2>3, Zenon
<1>9. QED
  BY <1>5, <1>7, <1>8, Zenon

(* The end of Start: with an error main exits, without one it returns.     *)
LEMMA Ends ==
  ASSUME StartReturns
  PROVE /\ main = "drain" /\ todo = {} /\ draining = NoServer
        /\ \/ /\ main' = "failed" /\ deferred' = <<>> /\ listening' = {} /\ ~open'
              /\ at' = [r \in Requests |-> NoServer]
           \/ main' = "return" /\ ~shutdownErr /\ UNCHANGED <<deferred, listening, open, at>>
        /\ UNCHANGED <<step, release, pending, tx, todo, draining, shutdownErr, channel, closed,
                       worker, batch, owed, versions, effects, rows, audited, storeErr>>
  BY Zenon DEF StartReturns, Exit, startVars, serverVars, requestVars, loggerVars, storeVars

(* Listen opens the ports in order.                                        *)
LEMMA Opens ==
  ASSUME LifeInv, Listen
  PROVE /\ main = "listen"
        /\ \/ listening = {} /\ listening' = {"eu"} /\ main' = "listen"
           \/ listening = {"eu"} /\ listening' = {"eu", "na"} /\ main' = "listen"
           \/ listening = {"eu", "na"} /\ listening' = ServerSet /\ main' = "serve"
<1>1. PICK n \in DOMAIN Servers :
        /\ listening = {Servers[i] : i \in 1 .. n - 1}
        /\ listening' = listening \cup {Servers[n]}
        /\ main' = IF n = Len(Servers) THEN "serve" ELSE "listen"
  BY Zenon DEF Listen
<1>2. Len(Servers) = 3 /\ Servers[1] = "eu" /\ Servers[2] = "na" /\ Servers[3] = "dashboard"
      /\ DOMAIN Servers = 1 .. 3
  BY DEF Servers
<1>3. CASE n = 1
  BY <1>1, <1>2, <1>3 DEF Listen
<1>4. CASE n = 2
  BY <1>1, <1>2, <1>4 DEF Listen
<1>5. CASE n = 3
  <2>1. QED
    BY <1>2 DEF ServerSet, Listen
<1>6. QED
  BY <1>2, <1>3, <1>4, <1>5

(* As long as the process is there, a running worker finds the store open. *)
LEMMA WorkerFindsStore ==
  ASSUME LifeInv, worker = "running", main \notin {"exited", "failed"}
  PROVE open
<1>1. CASE main = "return"
  <2>1. QED
    BY <1>1 DEF LifeInv, Closing
<1>2. CASE main # "return"
  <2>1. Past(6) /\ step \in Nat
    BY DEF LifeInv, LifeType, Closing, Dead
  <2>2. Past(4)
    BY <2>1 DEF Past
  <2>3. QED
    BY <2>2 DEF LifeInv, Closing
<1>3. QED
  BY <1>1, <1>2, Zenon


(* A startup step that succeeds keeps the invariant: the logger's worker   *)
(* starts with the store open, and the start is audited unless the store   *)
(* fails (main.go:44-189).                                                 *)
LEMMA StartStepKeeps ==
  ASSUME LifeInv, StartStep
  PROVE LifeInv'
<1>1. LifeType'
  <2>1. deferred' \in Seq(Range(Calls)) /\ step \in 1 .. 12
    BY Advances, Zenon DEF StartStep
  <2>2. step' \in 1 .. 13 /\ main' \in {"start", "listen"} /\ worker' \in {worker, "running"}
        /\ audited' \in {audited, audited \cup {"startup"}}
    BY <2>1 DEF StartStep, Advance, Audit
  <2>3. QED
    BY <2>1, <2>2, SMTT(30) DEF LifeInv, LifeType, StartStep, serverVars, requestVars
<1>2. Phase'
  <2>1. step \in 1 .. 12 /\ main = "start"
    BY DEF LifeInv, LifeType, Phase, StartStep
  <2>2. step # 4
    BY Milestones DEF StartStep
  <2>3. QED
    BY <2>1, <2>2, Milestones DEF LifeInv, Phase, StartStep, Advance
<1>3. Stack'
  BY Advances, Zenon DEF StartStep
<1>4. Handled'
  BY Zenon DEF LifeInv, Handled, StartStep, Advance, serverVars, requestVars
<1>5. Closing'
  <2>1. step \in 1 .. 12 /\ main = "start"
    BY DEF LifeInv, LifeType, Phase, StartStep
  <2>2. step # 4
    BY Milestones DEF StartStep
  <2>3. main' \in {"start", "listen"} /\ step' = step + 1 /\ (main' = "start" \/ step = 12)
        /\ worker' = (IF step = 6 THEN "running" ELSE worker) /\ UNCHANGED <<open, closed, channel, batch>>
    BY <2>1, Milestones, Zenon DEF StartStep, Advance
  <2>4. QED
    BY <2>1, <2>2, <2>3 DEF LifeInv, Closing, Dead, Past
<1>6. Owing'
  <2>1. step \in 1 .. 12
    BY DEF LifeInv, LifeType, Phase, StartStep
  <2>2. Past(9)' => (Past(9) \/ StartSteps[step] = "audit")
    BY <2>1, Milestones DEF StartStep, Advance, Past
  <2>3. open \/ StartSteps[step] # "audit"
    BY <2>1, Milestones DEF LifeInv, Closing, Past, StartStep
  <2>4. ~storeErr' => /\ ~storeErr
                      /\ audited \subseteq audited'
                      /\ (StartSteps[step] = "audit" => "startup" \in audited')
    BY <2>3, Zenon DEF StartStep, Audit
  <2>5. main = "start" /\ main' \in {"start", "listen"} /\ UNCHANGED <<channel, batch, rows, owed>>
    BY Zenon DEF StartStep, Advance
  <2>6. QED
    BY <2>2, <2>4, <2>5, Zenon DEF LifeInv, Owing
<1>7. Recorded'
  <2>1. Past(4)' => Past(4)
    BY Milestones DEF StartStep, Advance, Past, LifeInv, LifeType
  <2>2. /\ main = "start"
        /\ main' \in {"start", "listen"}
        /\ UNCHANGED <<effects, versions, pending, release, tx>>
    BY Zenon DEF StartStep, Advance
  <2>3. QED
    BY <2>1, <2>2, Zenon DEF LifeInv, Recorded
<1>8. Ordered'
  BY Zenon DEF LifeInv, Ordered, StartStep
<1>9. QED
  BY <1>1, <1>2, <1>3, <1>4, <1>5, <1>6, <1>7, <1>8, Zenon DEF LifeInv

(* A startup step that fails keeps it: os.Exit leaves no listener and no   *)
(* request (main.go, every os.Exit).                                       *)
LEMMA StartFailsKeeps ==
  ASSUME LifeInv, StartFails
  PROVE LifeInv'
<1>1. LifeType'
  BY DEF LifeInv, LifeType, StartFails, Exit, loggerVars
<1>2. Phase'
  BY Zenon DEF Phase, StartFails, Exit
<1>3. Stack'
  BY DEF Stack, StartFails, Exit
<1>4. Handled'
  BY Zenon DEF LifeInv, Handled, StartFails, Exit
<1>5. Closing'
  BY Zenon DEF LifeInv, Closing, Dead, StartFails, Exit, loggerVars
<1>6. Owing'
  BY Zenon DEF Owing, Past, StartFails, Exit
<1>7. Recorded'
  BY Zenon DEF LifeInv, Recorded, Past, StartFails, Exit
<1>8. Ordered'
  BY Zenon DEF LifeInv, Ordered, StartFails
<1>9. QED
  BY <1>1, <1>2, <1>3, <1>4, <1>5, <1>6, <1>7, <1>8, Zenon DEF LifeInv

(* Opening the store keeps it: what is pending is what the database lacks  *)
(* (migrate.go:34-44).                                                     *)
LEMMA OpenStoreKeeps ==
  ASSUME LifeInv, OpenStore
  PROVE LifeInv'
<1>1. LifeType'
  <2>1. main' = "migrate" /\ pending' \subseteq release /\ release \in Releases
    BY Zenon DEF LifeInv, LifeType, OpenStore
  <2>2. pending' \subseteq Nat
    BY <2>1, LifecycleConstants, Zenon
  <2>3. QED
    BY <2>2, Zenon DEF LifeInv, LifeType, OpenStore, serverVars, requestVars, loggerVars
<1>2. Phase'
  <2>1. main = "start" /\ StartSteps[step] = "store" /\ main' = "migrate" /\ step' = step
    BY Zenon DEF OpenStore
  <2>2. step \in 1 .. 12
    BY <2>1 DEF LifeInv, LifeType, Phase
  <2>3. step' = 4
    BY <2>1, <2>2, Milestones, Zenon
  <2>4. QED
    BY <2>1, <2>3, Zenon DEF Phase
<1>3. Stack'
  BY Zenon DEF LifeInv, Stack, OpenStore
<1>4. Handled'
  BY Zenon DEF LifeInv, Handled, OpenStore, serverVars, requestVars
<1>5. Closing'
  <2>1. main = "start" /\ step = 4 /\ main' = "migrate" /\ UNCHANGED <<step, loggerVars>> /\ open'
    BY Milestones, SMTT(30) DEF LifeInv, LifeType, Phase, OpenStore
  <2>2. QED
    BY <2>1 DEF LifeInv, Closing, Past, Dead, loggerVars
<1>6. Owing'
  <2>1. main = "start" /\ main' = "migrate" /\ UNCHANGED <<loggerVars, rows, storeErr>>
    BY Zenon DEF OpenStore
  <2>2. QED
    BY <2>1, Zenon DEF LifeInv, Owing, Past, loggerVars
<1>7. Recorded'
  <2>1. /\ main' = "migrate"
        /\ pending' = release \ versions
        /\ main = "start"
        /\ UNCHANGED <<release, tx, versions, effects>>
    BY Zenon DEF OpenStore
  <2>2. tx = 0
    BY <2>1, Zenon DEF LifeInv, Phase
  <2>3. QED
    BY <2>1, <2>2, Zenon DEF LifeInv, Recorded, Past
<1>8. Ordered'
  BY Zenon DEF LifeInv, Ordered, OpenStore
<1>9. QED
  BY <1>1, <1>2, <1>3, <1>4, <1>5, <1>6, <1>7, <1>8, Zenon DEF LifeInv

(* A transaction opens for the lowest version still missing                *)
(* (migrate.go:46-51).                                                     *)
LEMMA ApplySQLKeeps ==
  ASSUME LifeInv, ApplySQL
  PROVE LifeInv'
<1>1. LifeType'
  BY Zenon DEF LifeInv, LifeType, ApplySQL, serverVars, requestVars, loggerVars, storeVars
<1>2. Phase'
  BY Zenon DEF LifeInv, Phase, ApplySQL
<1>3. Recorded'
  BY SMTT(30) DEF LifeInv, Recorded, Past, ApplySQL, storeVars
<1>4. Stack' /\ Handled' /\ Closing' /\ Owing' /\ Ordered'
  BY Zenon DEF LifeInv, Stack, Handled, Closing, Owing, Ordered, Dead, Past, ApplySQL, serverVars,
         requestVars, loggerVars, storeVars
<1>5. QED
  BY <1>1, <1>2, <1>3, <1>4, Zenon DEF LifeInv

(* A commit records the version with its SQL: no version twice, and all    *)
(* lower ones of the release before it (migrate.go:117-136).               *)
LEMMA CommitKeeps ==
  ASSUME LifeInv, Commit
  PROVE LifeInv'
<1>1. LifeType'
  BY DEF LifeInv, LifeType, Commit, serverVars, requestVars, loggerVars
<1>2. Phase'
  BY Zenon DEF LifeInv, Phase, Commit
<1>3. Recorded'
  <2>1. /\ main = "migrate"
        /\ tx \in release
        /\ tx \notin versions
        /\ release \in Releases
        /\ tx \in Nat
        /\ pending = release \ versions /\ \A w \in pending : tx <= w
    BY Zenon DEF LifeInv, LifeType, Phase, Recorded, Commit
  <2>2. IsInjective(effects')
    <3>1. effects \in Seq(Nat) /\ IsInjective(effects) /\ Range(effects) = versions
      BY Zenon DEF LifeInv, LifeType, Recorded
    <3>2. \A i \in 1 .. Len(effects) : effects[i] # tx
      BY <2>1, <3>1 DEF Range
    <3>3. effects' = Append(effects, tx)
      BY Zenon DEF Commit
    <3>4. QED
      BY <3>1, <3>2, <3>3 DEF IsInjective
  <2>3. Range(effects') = versions'
    <3>1. effects \in Seq(Nat) /\ Range(effects) = versions
      BY Zenon DEF LifeInv, LifeType, Recorded
    <3>2. Range(Append(effects, tx)) = Range(effects) \cup {tx}
      BY <2>1, <3>1, Queued
    <3>3. QED
      BY <3>1, <3>2, Zenon DEF Commit
  <2>4. pending' = release' \ versions' /\ tx' = 0 /\ main' = "migrate"
    BY <2>1, Zenon DEF Commit
  <2>5. \A w \in versions' : \E a \in Releases : w \in a /\ \A u \in a : u < w => u \in versions'
    <3>1. \A u \in release : u < tx => u \in versions
      BY <2>1, LifecycleConstants
    <3>2. versions' = versions \cup {tx}
      BY Zenon DEF Commit
    <3>3. QED
      BY <2>1, <3>1, <3>2, Zenon DEF LifeInv, Recorded
  <2>6. QED
    BY <2>2, <2>3, <2>4, <2>5, Zenon DEF Recorded, Past
<1>4. Ordered'
  <2>1. tx \in release /\ tx \notin versions /\ release \in Releases /\ tx \in Nat
        /\ effects \in Seq(Nat) /\ Range(effects) = versions
    BY Zenon DEF LifeInv, LifeType, Phase, Recorded, Commit
  <2>2. ASSUME Linear, NEW w \in versions PROVE w < tx
    <3>1. PICK a \in Releases : w \in a /\ \A u \in a : u < w => u \in versions
      BY Zenon DEF LifeInv, Recorded
    <3>2. CASE tx \in a
      BY <2>1, <3>1, <3>2
    <3>3. CASE tx \notin a
      BY <2>1, <2>2, <3>1 DEF Linear
    <3>4. QED
      BY <3>2, <3>3, Zenon
  <2>3. effects' = Append(effects, tx)
    BY Zenon DEF Commit
  <2>4. Linear => \A i \in 1 .. Len(effects) : effects[i] < tx
    BY <2>1, <2>2 DEF Range
  <2>5. Linear => \A i, j \in DOMAIN effects : i < j => effects[i] < effects[j]
    BY Zenon DEF LifeInv, Ordered
  <2>6. DOMAIN effects = 1 .. Len(effects) /\ DOMAIN effects' = 1 .. Len(effects) + 1
        /\ effects'[Len(effects) + 1] = tx /\ \A i \in 1 .. Len(effects) : effects'[i] = effects[i]
    BY <2>1, <2>3, SMTT(30)
  <2>7. QED
    BY <2>4, <2>5, <2>6 DEF Ordered
<1>5. Stack' /\ Handled' /\ Closing' /\ Owing'
  BY Zenon DEF LifeInv, Stack, Handled, Closing, Owing, Dead, Past, Commit, lifeVars, startVars,
         serverVars, requestVars, loggerVars, storeVars
<1>6. QED
  BY <1>1, <1>2, <1>3, <1>4, <1>5, Zenon DEF LifeInv

(* RunMigrations ends with every migration of the binary recorded.         *)
LEMMA MigratedKeeps ==
  ASSUME LifeInv, Migrated
  PROVE LifeInv'
<1>1. LifeType'
  <2>1. step = 4 /\ StartSteps[4] = "store" /\ main = "migrate"
    BY Zenon DEF LifeInv, Phase, Migrated, StartSteps
  <2>2. deferred' \in Seq(Range(Calls))
    BY <2>1, Advances, Zenon DEF Migrated
  <2>3. QED
    BY <2>1, <2>2
      DEF LifeInv, LifeType, Migrated, Advance, serverVars, requestVars, loggerVars, storeVars
<1>2. Phase'
  BY Milestones DEF LifeInv, Phase, Migrated, Advance
<1>3. Stack'
  <2>1. step = 4 /\ StartSteps[4] = "store" /\ main = "migrate"
    BY Zenon DEF LifeInv, Phase, Migrated, StartSteps
  <2>2. QED
    BY <2>1, Advances, Zenon DEF Migrated
<1>4. Handled'
  BY Zenon DEF LifeInv, Handled, Migrated, Advance, serverVars, requestVars
<1>5. Closing'
  <2>1. /\ main = "migrate"
        /\ step = 4
        /\ main' = "start"
        /\ step' = 5
        /\ UNCHANGED <<loggerVars, storeVars>>
    BY Milestones DEF LifeInv, Phase, Migrated, Advance
  <2>2. QED
    BY <2>1 DEF LifeInv, Closing, Past, Dead, loggerVars, storeVars
<1>6. Owing'
  <2>1. /\ main = "migrate"
        /\ step = 4
        /\ main' = "start"
        /\ step' = 5
        /\ UNCHANGED <<loggerVars, storeVars>>
    BY Milestones DEF LifeInv, Phase, Migrated, Advance
  <2>2. QED
    BY <2>1 DEF LifeInv, Owing, Past, loggerVars, storeVars
<1>7. Recorded'
  BY Zenon DEF LifeInv, Recorded, Migrated, storeVars
<1>8. Ordered'
  BY Zenon DEF LifeInv, Ordered, Migrated, storeVars
<1>9. QED
  BY <1>1, <1>2, <1>3, <1>4, <1>5, <1>6, <1>7, <1>8, Zenon DEF LifeInv

(* Ports are opened one after another, each after the full startup         *)
(* (server.go:64-135).                                                     *)
LEMMA ListenKeeps ==
  ASSUME LifeInv, Listen
  PROVE LifeInv'
<1>1. LifeType'
  <2>1. listening' \subseteq ServerSet /\ main' \in {"listen", "serve"}
    BY Opens, Zenon DEF ServerSet
  <2>2. QED
    BY <2>1, SMTT(30) DEF LifeInv, LifeType, Listen, startVars, requestVars, loggerVars, storeVars
<1>2. Phase'
  BY Zenon DEF LifeInv, Phase, Listen, startVars
<1>3. Stack'
  BY Zenon DEF LifeInv, Stack, Listen, startVars
<1>4. Handled'
  <2>1. main' = "listen" => listening' \in {{}, {"eu"}, {"eu", "na"}}
    BY Opens, Zenon
  <2>2. QED
    BY <2>1, Zenon DEF LifeInv, Handled, Listen, requestVars
<1>5. Closing'
  BY Zenon DEF LifeInv, Closing, Past, Dead, Listen, loggerVars, storeVars
<1>6. Owing'
  <2>1. /\ main = "listen"
        /\ main' \in {"listen", "serve"}
        /\ UNCHANGED <<deferred, startVars, loggerVars, storeVars>>
    BY Zenon DEF Listen
  <2>2. QED
    BY <2>1, Zenon DEF LifeInv, Owing, Past, loggerVars, storeVars
<1>7. Recorded'
  BY Zenon DEF LifeInv, Recorded, Past, Listen, startVars, storeVars
<1>8. Ordered'
  BY Zenon DEF LifeInv, Ordered, Listen, storeVars
<1>9. QED
  BY <1>1, <1>2, <1>3, <1>4, <1>5, <1>6, <1>7, <1>8, Zenon DEF LifeInv

(* At the signal every listening server is to be stopped                   *)
(* (server.go:138-167).                                                    *)
LEMMA SignalKeeps ==
  ASSUME LifeInv, Signal
  PROVE LifeInv'
<1>1. LifeType'
  BY Zenon DEF LifeInv, LifeType, Signal, startVars, requestVars, loggerVars, storeVars
<1>2. Phase'
  BY Zenon DEF LifeInv, Phase, Signal, startVars
<1>3. Stack'
  BY Zenon DEF LifeInv, Stack, Signal, startVars
<1>4. Handled'
  BY Zenon DEF LifeInv, Handled, Signal, requestVars
<1>5. Closing'
  BY Zenon DEF LifeInv, Closing, Past, Dead, Signal, loggerVars, storeVars
<1>6. Owing'
  BY Zenon DEF LifeInv, Owing, Past, Signal, loggerVars, storeVars
<1>7. Recorded'
  BY Zenon DEF LifeInv, Recorded, Past, Signal, startVars, storeVars
<1>8. Ordered'
  BY Zenon DEF LifeInv, Ordered, Signal, storeVars
<1>9. QED
  BY <1>1, <1>2, <1>3, <1>4, <1>5, <1>6, <1>7, <1>8, Zenon DEF LifeInv

(* A step of the servers and requests alone leaves the rest as it is.      *)
LEMMA ServersApart ==
  ASSUME LifeInv, UNCHANGED <<main, deferred, startVars, loggerVars, storeVars>>
  PROVE Phase' /\ Stack' /\ Closing' /\ Owing' /\ Recorded' /\ Ordered'
<1>1. UNCHANGED <<main, deferred, step, release, pending, tx>>
  BY Zenon DEF startVars
<1>2. UNCHANGED <<channel, closed, worker, batch, owed>>
  BY Zenon DEF loggerVars
<1>3. UNCHANGED <<open, versions, effects, rows, audited, storeErr>>
  BY Zenon DEF storeVars
<1>4. Phase' /\ Stack'
  BY <1>1, Zenon DEF LifeInv, Phase, Stack
<1>5. Closing'
  BY <1>1, <1>2, <1>3, Zenon DEF LifeInv, Closing, Dead, Past
<1>6. Owing'
  BY <1>1, <1>2, <1>3, Zenon DEF LifeInv, Owing, Past
<1>7. Recorded' /\ Ordered'
  BY <1>1, <1>3, Zenon DEF LifeInv, Recorded, Ordered, Past
<1>8. QED
  BY <1>4, <1>5, <1>6, <1>7, Zenon

(* A server that stops listening is the one being drained                  *)
(* (server.go:169-174).                                                    *)
LEMMA ShutdownServerKeeps ==
  ASSUME LifeInv, NEW s \in ServerSet, ShutdownServer(s)
  PROVE LifeInv'
<1>1. LifeType'
  BY Zenon DEF LifeInv, LifeType, ShutdownServer, startVars, requestVars, loggerVars, storeVars
<1>2. Handled'
  BY SMTT(30) DEF LifeInv, Handled, ShutdownServer, requestVars
<1>3. Phase' /\ Stack' /\ Closing' /\ Owing' /\ Recorded' /\ Ordered'
  BY ServersApart, Zenon DEF ShutdownServer
<1>4. QED
  BY <1>1, <1>2, <1>3, Zenon DEF LifeInv

(* A server is left without requests, or with an error                     *)
(* (server.go:168-173).                                                    *)
LEMMA ServerStoppedKeeps ==
  ASSUME LifeInv, ServerStopped
  PROVE LifeInv'
<1>1. Handled'
  BY Zenon DEF LifeInv, Handled, ServerStopped, InFlight, requestVars
<1>2. LifeType'
  BY Zenon DEF LifeInv, LifeType, ServerStopped, startVars, requestVars, loggerVars, storeVars
<1>3. Phase' /\ Stack' /\ Closing' /\ Owing' /\ Recorded' /\ Ordered'
  BY ServersApart, Zenon DEF ServerStopped
<1>4. QED
  BY <1>1, <1>2, <1>3, Zenon DEF LifeInv

(* The timeout of Shutdown changes nothing by itself.                      *)
LEMMA TimeoutKeeps ==
  ASSUME LifeInv, Timeout
  PROVE LifeInv'
<1>1. LifeType'
  BY Zenon DEF LifeInv, LifeType, Timeout, startVars, requestVars, loggerVars, storeVars
<1>2. Handled'
  BY Zenon DEF LifeInv, Handled, Timeout, requestVars
<1>3. Phase' /\ Stack' /\ Closing' /\ Owing' /\ Recorded' /\ Ordered'
  BY ServersApart, Zenon DEF Timeout
<1>4. QED
  BY <1>1, <1>2, <1>3, Zenon DEF LifeInv

(* main returns only when every server was drained; it exits on an error   *)
(* (main.go:191-194).                                                      *)
LEMMA StartReturnsKeeps ==
  ASSUME LifeInv, StartReturns
  PROVE LifeInv'
<1>1. LifeType'
  <2>1. deferred' \in Seq(Range(Calls)) /\ listening' \subseteq ServerSet
    <3>1. deferred' \in {<<>>, deferred} /\ listening' \in {{}, listening}
      BY Ends, Zenon
    <3>2. deferred \in Seq(Range(Calls)) /\ listening \subseteq ServerSet
      BY Zenon DEF LifeInv, LifeType
    <3>3. <<>> \in Seq(Range(Calls))
      OBVIOUS
    <3>4. QED
      BY <3>1, <3>2, <3>3, Zenon
  <2>2. QED
    BY <2>1, Ends, Zenon DEF LifeInv, LifeType
<1>2. Phase'
  BY Ends, Zenon DEF LifeInv, Phase
<1>3. Stack'
  BY Ends DEF LifeInv, Stack
<1>4. Handled'
  BY Ends DEF LifeInv, Handled
<1>5. Closing'
  <2>1. main = "drain" /\ Len(deferred) = 8 /\ step = 13
    BY Ends, SMTT(30) DEF LifeInv, Stack, Phase, Depth
  <2>2. main' \in {"failed", "return"} /\ UNCHANGED <<worker, closed, channel, batch>>
        /\ (main' = "return" => UNCHANGED <<deferred, open>>)
    BY Ends, Zenon
  <2>3. open /\ worker # "none" /\ ~closed
    BY <2>1, Zenon DEF LifeInv, Closing, Dead, Past
  <2>4. worker \in {"running", "none", "ended"} /\ worker # "ended"
    BY <2>3, Zenon DEF LifeInv, LifeType, Closing
  <2>5. QED
    <3>1. CASE main' = "failed"
      BY <2>2, <2>3, <2>4, <3>1, Zenon DEF Closing, Dead
    <3>2. CASE main' = "return"
      <4>1. Len(deferred') = 8
        BY <2>1, <2>2, <3>2, Zenon
      <4>2. Len(deferred') >= 5 /\ Len(deferred') >= 3
        BY <4>1
      <4>3. QED
        BY <2>2, <2>3, <2>4, <3>2, <4>2, Zenon DEF Closing, Past
    <3>3. QED
      BY <2>2, <3>1, <3>2, Zenon
<1>6. Owing'
  BY Ends, SMTT(30) DEF LifeInv, Owing, Past, Stack, Phase, Depth
<1>7. Recorded'
  BY Ends, Zenon DEF LifeInv, Recorded, Past
<1>8. Ordered'
  BY Zenon DEF LifeInv, Ordered, StartReturns, storeVars
<1>9. QED
  BY <1>1, <1>2, <1>3, <1>4, <1>5, <1>6, <1>7, <1>8, Zenon DEF LifeInv

(* A deferred call keeps it: the store is closed only after the logger,    *)
(* whose Close waits for the worker (main.go:83-101, logger.go:79-84).     *)
LEMMA RunDeferredKeeps ==
  ASSUME LifeInv, RunDeferred
  PROVE LifeInv'
<1>1. LifeType'
  BY Unwinds, Zenon DEF LifeInv, LifeType, RunDeferred, Audit, startVars, serverVars, requestVars
<1>2. Stack'
  <2>1. main = "return" /\ main' = "return" /\ Len(deferred') \in 0 .. 8
    BY Unwinds, Zenon
  <2>2. \/ deferred' = deferred
        \/ /\ Len(deferred') = Len(deferred) - 1
           /\ \A i \in 1 .. Len(deferred') : deferred'[i] = Calls[8 - Len(deferred') + i]
    BY Unwinds, Zenon
  <2>3. CASE deferred' = deferred
    BY <2>1, <2>3, Zenon DEF LifeInv, Stack
  <2>4. CASE /\ Len(deferred') = Len(deferred) - 1
             /\ \A i \in 1 .. Len(deferred') : deferred'[i] = Calls[8 - Len(deferred') + i]
    <3>1. \A n \in 0 .. 8 : n <= 8
      OBVIOUS
    <3>2. Len(deferred') <= 8
      BY <2>1, <3>1, Zenon
    <3>3. QED
      BY <2>1, <2>4, <3>2, Zenon DEF Stack
  <2>5. QED
    BY <2>2, <2>3, <2>4, Zenon
<1>3. Closing'
  <2>1. main = "return" /\ main' = "return" /\ Len(deferred) \in 1 .. 8 /\ Len(deferred') \in 0 .. 8
        /\ UNCHANGED <<channel, worker, batch>>
        /\ (open' <=> open /\ Len(deferred) # 3)
    BY Unwinds, Zenon
  <2>2. \/ Len(deferred) = 5 /\ deferred' = deferred
        \/ Len(deferred') = Len(deferred) - 1 /\ (Len(deferred) = 5 => worker = "ended")
    BY Unwinds, Zenon
  <2>3. closed => closed'
    BY Unwinds, Zenon
  <2>4. (open <=> Len(deferred) >= 3) /\ worker # "none" /\ (worker = "ended" \/ Len(deferred) >= 5)
        /\ (worker = "ended" => closed /\ channel = <<>> /\ batch = <<>>)
    BY <2>1, Zenon DEF LifeInv, Closing, Past, Dead
  <2>5. open' <=> Len(deferred') >= 3
    <3>1. CASE deferred' = deferred /\ Len(deferred) = 5
      BY <2>1, <2>4, <3>1
    <3>2. CASE Len(deferred') = Len(deferred) - 1
      BY <2>1, <2>4, <3>2
    <3>3. QED
      BY <2>2, <3>1, <3>2, Zenon
  <2>6. worker' = "ended" \/ Len(deferred') >= 5
    <3>1. CASE Len(deferred') = Len(deferred) - 1 /\ (Len(deferred) = 5 => worker = "ended")
      <4>1. worker = "ended" \/ Len(deferred) > 5
        BY <2>4, <3>1
      <4>2. QED
        BY <2>1, <3>1, <4>1
    <3>2. QED
      BY <2>2, <3>1
  <2>7. QED
    BY <2>1, <2>3, <2>4, <2>5, <2>6, Zenon DEF Closing, Past
<1>4. Owing'
  <2>1. Len(deferred) = 7 => open
    BY Unwinds DEF LifeInv, Closing
  <2>2. ~storeErr' => /\ ~storeErr
                      /\ audited \subseteq audited'
                      /\ (Len(deferred) = 7 => "shutdown" \in audited')
    BY <2>1, Unwinds, Zenon DEF Audit
  <2>3. /\ Len(deferred) \in 1 .. 8
        /\ Len(deferred') \in 0 .. 8
        /\ (Len(deferred') = Len(deferred) \/ Len(deferred') = Len(deferred) - 1)
    BY Unwinds, Zenon
  <2>4. main = "return" /\ main' = "return" /\ UNCHANGED <<channel, batch, owed, rows>>
    BY Unwinds, Zenon
  <2>5. Len(deferred') < 7 => Len(deferred) < 8
    BY <2>3
  <2>6. Len(deferred') < 7 => Len(deferred) < 7 \/ Len(deferred) = 7
    <3>1. \A n \in 1 .. 8 : n < 8 => n < 7 \/ n = 7
      BY SMTT(30)
    <3>2. QED
      BY <2>3, <2>5, <3>1, Zenon
  <2>7. QED
    BY <2>2, <2>4, <2>6, Zenon DEF LifeInv, Owing, Past
<1>5. Phase' /\ Handled' /\ Recorded' /\ Ordered'
  BY Zenon DEF LifeInv, Phase, Handled, Recorded, Ordered, Past, RunDeferred, startVars, serverVars,
         requestVars
<1>6. QED
  BY <1>1, <1>2, <1>3, <1>4, <1>5, SMTT(30) DEF LifeInv

(* main ends with its stack empty, so with the worker ended and the stop   *)
(* audited.                                                                *)
LEMMA ReturnKeeps ==
  ASSUME LifeInv, Return
  PROVE LifeInv'
<1>1. LifeType'
  BY Zenon DEF LifeInv, LifeType, Return, Exit, startVars, loggerVars
<1>2. Phase'
  BY Zenon DEF LifeInv, Phase, Return, Exit, startVars
<1>3. Stack'
  BY DEF Stack, Return, Exit
<1>4. Handled'
  BY Zenon DEF LifeInv, Handled, Return, Exit
<1>5. Closing'
  BY DEF LifeInv, Closing, Dead, Return, Exit, loggerVars
<1>6. Owing'
  BY SMTT(30) DEF LifeInv, Owing, Past, Return, loggerVars
<1>7. Recorded'
  BY Zenon DEF LifeInv, Recorded, Past, Return, Exit, startVars
<1>8. Ordered'
  BY Zenon DEF LifeInv, Ordered, Return
<1>9. QED
  BY <1>1, <1>2, <1>3, <1>4, <1>5, <1>6, <1>7, <1>8, Zenon DEF LifeInv

(* A response puts at most its own entry in the channel, which is not      *)
(* closed (logger.go:63-75).                                               *)
LEMMA RespondKeeps ==
  ASSUME LifeInv, NEW r \in Requests, Respond(r)
  PROVE LifeInv'
<1>1. LifeType'
  <2>1. channel \in Seq(Requests) /\ channel' \in {channel, Append(channel, r)}
    BY Zenon DEF LifeInv, LifeType, Respond
  <2>2. channel' \in Seq(Requests)
    BY <2>1
  <2>3. QED
    BY <2>2, Zenon DEF LifeInv, LifeType, Respond, startVars, serverVars, storeVars
<1>2. Handled'
  BY DEF LifeInv, Handled, Respond, serverVars
<1>3. Closing'
  BY Zenon DEF LifeInv, Closing, Past, Dead, Respond, startVars, storeVars
<1>4. Owing'
  <2>1. channel \in Seq(Requests)
    BY Zenon DEF LifeInv, LifeType
  <2>2. \/ UNCHANGED <<channel, owed>>
        \/ channel' = Append(channel, r) /\ owed' = owed \cup {r}
    BY Zenon DEF Respond
  <2>3. Range(Append(channel, r)) = Range(channel) \cup {r}
    BY <2>1, Queued
  <2>4. UNCHANGED <<main, step, deferred, batch, rows, audited, storeErr>>
    BY SMTT(30) DEF Respond, startVars, storeVars
  <2>5. QED
    BY <2>2, <2>3, <2>4, Zenon DEF LifeInv, Owing, Past
<1>5. Phase' /\ Stack' /\ Recorded' /\ Ordered'
  BY Zenon DEF LifeInv, Phase, Stack, Recorded, Ordered, Past, Respond, startVars, storeVars
<1>6. QED
  BY <1>1, <1>2, <1>3, <1>4, <1>5, Zenon DEF LifeInv

(* A request is accepted where a server listens.                           *)
LEMMA AcceptKeeps ==
  ASSUME LifeInv, NEW r \in Requests, NEW s \in ServerSet, Accept(r, s)
  PROVE LifeInv'
<1>1. LifeType'
  BY Zenon DEF LifeInv, LifeType, Accept, startVars, serverVars, loggerVars, storeVars
<1>2. Handled'
  BY SMTT(30) DEF LifeInv, Handled, Accept, serverVars
<1>3. Phase' /\ Stack' /\ Closing' /\ Owing' /\ Recorded' /\ Ordered'
  BY ServersApart, Zenon DEF Accept
<1>4. QED
  BY <1>1, <1>2, <1>3, Zenon DEF LifeInv

(* The worker moves an entry from the channel to the batch                 *)
(* (logger.go:97-108).                                                     *)
LEMMA ReceiveKeeps ==
  ASSUME LifeInv, Receive
  PROVE LifeInv'
<1>1. LifeType'
  BY SMTT(30) DEF LifeInv, LifeType, Receive, startVars, serverVars, requestVars, storeVars
<1>2. Closing'
  BY Zenon DEF LifeInv, Closing, Past, Dead, Receive, startVars, storeVars
<1>3. Owing'
  <2>1. channel \in Seq(Requests) /\ batch \in Seq(Requests) /\ channel # <<>>
    BY Zenon DEF LifeInv, LifeType, Receive
  <2>2. /\ Range(channel) = {Head(channel)} \cup Range(channel')
        /\ Range(batch') = Range(batch) \cup {Head(channel)}
    BY <2>1, Queued DEF Receive
  <2>3. UNCHANGED <<main, step, deferred, owed, rows, audited, storeErr>>
    BY SMTT(30) DEF Receive, startVars, storeVars
  <2>4. QED
    BY <2>2, <2>3, Zenon DEF LifeInv, Owing, Past
<1>4. Phase' /\ Stack' /\ Handled' /\ Recorded' /\ Ordered'
  BY Zenon DEF LifeInv, Phase, Stack, Handled, Recorded, Ordered, Past, Receive, startVars,
     serverVars, requestVars, storeVars
<1>5. QED
  BY <1>1, <1>2, <1>3, <1>4, SMTT(30) DEF LifeInv

(* A flush finds the store open: the batch is stored, or the store has     *)
(* failed (logger.go:118-160).                                             *)
LEMMA FlushBatchKeeps ==
  ASSUME LifeInv, FlushBatch
  PROVE LifeInv'
<1>1. LifeType'
  BY SMTT(30) DEF LifeInv, LifeType, FlushBatch, flush, startVars, serverVars, requestVars
<1>2. Closing'
  BY Zenon DEF LifeInv, Closing, Past, Dead, FlushBatch, flush, startVars
<1>3. Owing'
  <2>1. open
    BY WorkerFindsStore, Zenon DEF FlushBatch
  <2>2. storeErr' \/ (~storeErr /\ rows' = rows \cup Range(batch))
    BY <2>1, Zenon DEF FlushBatch, flush
  <2>3. UNCHANGED <<main, step, deferred, owed, audited, channel>> /\ Range(batch') = {}
    BY SMTT(30) DEF FlushBatch, flush, startVars, Range
  <2>4. QED
    BY <2>2, <2>3, Zenon DEF LifeInv, Owing, Past
<1>4. Phase' /\ Stack' /\ Handled' /\ Recorded' /\ Ordered'
  BY SMTT(30)
    DEF LifeInv, Phase, Stack, Handled, Recorded, Ordered, Past, FlushBatch, flush, startVars,
        serverVars, requestVars
<1>5. QED
  BY <1>1, <1>2, <1>3, <1>4, Zenon DEF LifeInv

(* The worker ends with channel and batch empty (logger.go:99-103).        *)
LEMMA WorkerEndsKeeps ==
  ASSUME LifeInv, WorkerEnds
  PROVE LifeInv'
<1>1. LifeType'
  BY Zenon DEF LifeInv, LifeType, WorkerEnds, flush, startVars, serverVars, requestVars
<1>2. Closing'
  BY Zenon DEF LifeInv, Closing, Past, WorkerEnds, flush
<1>3. Owing'
  <2>1. open
    BY WorkerFindsStore, Zenon DEF WorkerEnds
  <2>2. storeErr' \/ (~storeErr /\ rows' = rows \cup Range(batch))
    BY <2>1, Zenon DEF WorkerEnds, flush
  <2>3. UNCHANGED <<main, step, deferred, owed, audited, channel>> /\ Range(batch') = {}
    BY SMTT(30) DEF WorkerEnds, flush, startVars, Range
  <2>4. QED
    BY <2>2, <2>3, Zenon DEF LifeInv, Owing, Past
<1>4. Phase' /\ Stack' /\ Handled' /\ Recorded' /\ Ordered'
  BY Zenon DEF LifeInv, Phase, Stack, Handled, Recorded, Ordered, Past, WorkerEnds, flush,
     startVars, serverVars, requestVars
<1>5. QED
  BY <1>1, <1>2, <1>3, <1>4, Zenon DEF LifeInv

(* The next process finds only the database, which keeps its order.        *)
LEMMA RestartKeeps ==
  ASSUME LifeInv, Restart
  PROVE LifeInv'
<1>1. LifeType'
  BY DEF LifeInv, LifeType, Restart
<1>2. Phase'
  BY DEF Phase, Restart
<1>3. Stack'
  BY DEF Stack, Restart, Depth
<1>4. Handled'
  BY Zenon DEF Handled, Restart
<1>5. Closing'
  BY DEF Closing, Past, Restart
<1>6. Owing'
  BY SMTT(30) DEF Owing, Past, Restart
<1>7. Recorded'
  BY DEF LifeInv, Recorded, Past, Restart
<1>8. Ordered'
  BY Zenon DEF LifeInv, Ordered, Restart
<1>9. QED
  BY <1>1, <1>2, <1>3, <1>4, <1>5, <1>6, <1>7, <1>8, Zenon DEF LifeInv

----------------------------------------------------------------------------

(* The first process starts with the invariant.                            *)
LEMMA LifeInitOK ==
  LifeInit => LifeInv
<1>1. SUFFICES ASSUME LifeInit PROVE LifeInv
  BY Zenon
<1>2. LifeType
  BY <1>1 DEF LifeInit, LifeType
<1>3. Stack
  BY <1>1 DEF LifeInit, Stack, Depth
<1>4. Phase /\ Handled /\ Closing /\ Owing
  BY <1>1, SMTT(30) DEF LifeInit, Phase, Handled, Closing, Owing, Past
<1>5. Recorded /\ Ordered
  BY <1>1 DEF LifeInit, Recorded, Ordered, Past, Range, IsInjective
<1>6. QED
  BY <1>2, <1>3, <1>4, <1>5, Zenon DEF LifeInv

(* Every step keeps the invariant.                                         *)
LEMMA LifeNextKeeps ==
  LifeInv /\ [LifeNext]_lifeVars => LifeInv'
<1>1. SUFFICES ASSUME LifeInv, [LifeNext]_lifeVars PROVE LifeInv'
  BY Zenon
<1>2. Range(Servers) = ServerSet
  BY DEF Range, Servers, ServerSet
<1>3. CASE MainStep
  BY <1>1, <1>2, <1>3, StartStepKeeps, StartFailsKeeps, OpenStoreKeeps, ApplySQLKeeps, CommitKeeps,
     MigratedKeeps, ListenKeeps, ShutdownServerKeeps, ServerStoppedKeeps, StartReturnsKeeps,
     RunDeferredKeeps, ReturnKeeps, Zenon DEF MainStep
<1>4. CASE WorkerStep
  BY <1>1, <1>4, ReceiveKeeps, FlushBatchKeeps, WorkerEndsKeeps, Zenon DEF WorkerStep
<1>5. CASE \E r \in Requests : Respond(r) \/ \E s \in Range(Servers) : Accept(r, s)
  BY <1>1, <1>2, <1>5, RespondKeeps, AcceptKeeps, Zenon
<1>6. CASE UNCHANGED lifeVars
  <2>1. UNCHANGED <<main, deferred, step, release, pending, tx, listening, todo, draining,
                    shutdownErr, at, channel, closed, worker, batch, owed, open, versions,
                    effects, rows, audited, storeErr>>
    BY <1>6, SMTT(30) DEF lifeVars, startVars, serverVars, requestVars, loggerVars, storeVars
  <2>2. LifeType' /\ Phase' /\ Stack' /\ Handled'
    BY <1>1, <2>1, SMTT(30) DEF LifeInv, LifeType, Phase, Stack, Handled
  <2>3. Closing' /\ Owing' /\ Recorded' /\ Ordered'
    BY <1>1, <2>1, Zenon DEF LifeInv, Closing, Owing, Recorded, Ordered, Dead, Past
  <2>4. QED
    BY <2>2, <2>3, Zenon DEF LifeInv
<1>7. QED
  BY <1>1, <1>3, <1>4, <1>5, <1>6, SignalKeeps, TimeoutKeeps, RestartKeeps, Zenon DEF LifeNext

(* The inductive invariant holds of every run of the processes.            *)
THEOREM LifeInvariant == LifeSpec => []LifeInv
  BY LifeInitOK, LifeNextKeeps, PTL DEF LifeSpec

(* Whatever crash interrupts RunMigrations and whichever binary runs next, *)
(* the recorded migrations are those that took effect, each once, no       *)
(* request is served on less than the binary's schema, and they take       *)
(* effect in order if releases only add at the end (migrate.go:24-57,      *)
(* 110-136).                                                               *)
THEOREM SchemaStaysIntact == LifeSpec => []SchemaIntact
<1>1. LifeInv => SchemaIntact
  <2>1. SUFFICES ASSUME LifeInv PROVE SchemaIntact
    BY Zenon
  <2>2. listening # {} => Past(4)
    BY <2>1, Zenon DEF LifeInv, Handled, Past
  <2>3. QED
    BY <2>1, <2>2, Zenon DEF LifeInv, Recorded, Ordered, Linear, SchemaIntact
<1>2. QED
  BY <1>1, LifeInvariant, PTL

(* The deferred calls meet no handler, and the worker no closed store      *)
(* (server.go:168-173, main.go:83-101).                                    *)
THEOREM TeardownIsOrderly == LifeSpec => []OrderlyTeardown
<1>1. LifeInv => OrderlyTeardown
  <2>1. SUFFICES ASSUME LifeInv PROVE OrderlyTeardown
    BY Zenon
  <2>2. main = "return" => listening = {} /\ \A r \in Requests : at[r] = NoServer
    BY <2>1, Zenon DEF LifeInv, Handled
  <2>3. QED
    BY <2>1, <2>2, WorkerFindsStore, Zenon DEF OrderlyTeardown
<1>2. QED
  BY <1>1, LifeInvariant, PTL

(* A process that returned from main has stored all its logger accepted    *)
(* and audited its start and stop, unless the store failed                 *)
(* (logger.go:79-116, main.go:101, 149-151).                               *)
THEOREM NothingIsOwed == LifeSpec => []NothingOwedAtExit
<1>1. LifeInv => NothingOwedAtExit
  <2>1. SUFFICES ASSUME LifeInv, main = "exited", ~storeErr
        PROVE owed \subseteq rows /\ audited = {"startup", "shutdown"}
    BY Zenon DEF NothingOwedAtExit
  <2>2. channel = <<>> /\ batch = <<>>
    BY <2>1, Zenon DEF LifeInv, Closing
  <2>3. Range(channel) = {} /\ Range(batch) = {}
    BY <2>2 DEF Range
  <2>4. QED
    BY <2>1, <2>3, Zenon DEF LifeInv, LifeType, Owing, Past
<1>2. QED
  BY <1>1, LifeInvariant, PTL

=============================================================================
