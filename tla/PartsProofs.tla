---------------------------- MODULE PartsProofs -----------------------------
(***************************************************************************)
(* Parts of the proxy that share no state with one another, each for every *)
(* value of its constants: the purge jobs (Retention), the tokens seen and *)
(* the replays that use them (ReplayTokens), the throttle mode of a request *)
(* (ThrottleMode) and the configuration (Configuration).                   *)
(***************************************************************************)
EXTENDS Retention, ReplayTokens, ThrottleMode, Configuration, TLAPS

(* The scheduler and its jobs.                                             *)

(* A pass over the jobs is under way.                                      *)
Passing == sched.pc \in {"pass", "job", "record"}

(* The pass has still to come to the i-th job.                             *)
Before(i) == \/ sched.pc = "pass" /\ sched.next <= i
             \/ sched.pc \in {"job", "record"} /\ sched.next < i

(* It runs the i-th job, already stamped.                                  *)
InJob(i) == sched.pc = "job" /\ sched.next = i

Scheds == [pc : {"select", "pass", "job", "record", "stopped"}, now : Nat, next : 1 .. 3]
Rows == [at : Nat, is : {"unwritten", "kept", "purged"}]

(* What the variables can be.                                              *)
RetentionType ==
  /\ clock \in Nat /\ busy \in 0 .. MaxJobTime
  /\ ticker \subseteq Nat
  /\ sched \in Scheds
  /\ sched.pc \in {"job", "record"} => sched.next \in DOMAIN jobs
  /\ DOMAIN lastRun \subseteq Jobs /\ \A j \in DOMAIN lastRun : lastRun[j] \in Nat
  /\ row \in [Jobs -> Rows]

(* The tick in the channel, and the one being served, are not old.         *)
Ticks ==
  /\ \A t \in ticker : /\ t <= clock
                       /\ sched.pc = "select" => clock < t + MaxJobTime
                       /\ Passing => clock < t + busy
  /\ Passing => sched.now <= clock /\ clock < sched.now + MaxJobTime + busy

(* How long ago the i-th job was last run by this process.                 *)
RunInTime(i) ==
  LET j == jobs[i]
  IN /\ j \notin DOMAIN lastRun => (Passing => Before(i))
     /\ j \in DOMAIN lastRun =>
          /\ lastRun[j] <= clock
          /\ InJob(i) => lastRun[j] = sched.now
     /\ j \in DOMAIN lastRun /\ j \notin excused =>
          /\ sched.pc = "select" /\ ticker = {} =>
               clock + 2 <= lastRun[j] + Interval[j] + 2 * MaxJobTime
          /\ sched.pc = "select" =>
               clock + 1 <= lastRun[j] + Interval[j] + 2 * MaxJobTime
          /\ Passing /\ Before(i) =>
               clock + 1 <= lastRun[j] + Interval[j] + 2 * MaxJobTime + busy
          /\ Passing /\ ~Before(i) => sched.now + 1 <= lastRun[j] + Interval[j]
          /\ sched.pc = "stopped" => clock + 1 <= lastRun[j] + Interval[j] + 3 * MaxJobTime

(* How long the row of the i-th job has been overdue.                      *)
KeptInTime(i) ==
  LET j == jobs[i]
      due == row[j].at + KeepFor[j]
  IN row[j].is = "kept" /\ j \notin excused =>
       /\ j \in DOMAIN lastRun /\ ~InJob(i) => lastRun[j] <= due
       /\ j \notin DOMAIN lastRun \/ InJob(i) =>
            /\ sched.pc = "select" /\ ticker = {} =>
                 clock + 1 <= due + Interval[j] + 3 * MaxJobTime
            /\ sched.pc = "select" => clock <= due + Interval[j] + 3 * MaxJobTime
            /\ Passing => clock <= due + Interval[j] + 3 * MaxJobTime + busy
            /\ clock <= due + Interval[j] + 4 * MaxJobTime

InTime == \A i \in DOMAIN jobs : RunInTime(i) /\ KeptInTime(i)

RetentionInv == RetentionType /\ Ticks /\ InTime

(* The two jobs.                                                           *)
LEMMA JobFacts ==
  /\ DOMAIN jobs = {1, 2} /\ Len(jobs) = 2
  /\ Jobs = {"metadata-purge", "audit-purge"}
  /\ jobs[1] = "metadata-purge" /\ jobs[2] = "audit-purge"
  /\ \A i \in DOMAIN jobs : i \in Nat /\ jobs[i] \in Jobs
  /\ \A i, k \in DOMAIN jobs : jobs[i] = jobs[k] => i = k
  BY DEF jobs, Jobs

(* The parts of what the scheduler is at.                                  *)
LEMMA SchedFacts ==
  ASSUME NEW s \in Scheds
  PROVE /\ s.pc \in {"select", "pass", "job", "record", "stopped"}
        /\ s.now \in Nat
        /\ s.next \in 1 .. 3
  BY Zenon DEF Scheds

(* A row is written now.                                                   *)
LEMMA RowWritten ==
  ASSUME RetentionInv, NEW j \in Jobs, row' = [row EXCEPT ![j] = [at |-> clock, is |-> "kept"]],
         UNCHANGED <<clock, ticker, busy, lastRun, excused>>,
         sched' = sched
  PROVE RetentionInv'
<1>1. RetentionType /\ clock \in Nat
  BY Zenon DEF RetentionInv, RetentionType
<1>2. [at |-> clock, is |-> "kept"] \in Rows
  BY <1>1, Zenon DEF Rows
<1>3. RetentionType'
  BY <1>1, <1>2, Zenon DEF RetentionType
<1>4. Ticks'
  BY Zenon DEF RetentionInv, Ticks, Passing
<1>5. ASSUME NEW i \in DOMAIN jobs PROVE RunInTime(i)' /\ KeptInTime(i)'
  <2>1. RunInTime(i) /\ KeptInTime(i)
    BY Zenon DEF RetentionInv, InTime
  <2>2. RunInTime(i)'
    BY <2>1, Zenon DEF RunInTime, Passing, Before, InJob
  <2>3. CASE jobs[i] # j
    <3>1. row'[jobs[i]] = row[jobs[i]]
      BY <1>1, <2>3, JobFacts, Zenon DEF RetentionType
    <3>2. QED
      BY <2>1, <2>2, <3>1, Zenon DEF KeptInTime, Passing, InJob
  <2>4. CASE jobs[i] = j
    <3>1. row'[j].at = clock
      BY <1>1, Zenon DEF RetentionType
    <3>2. KeepFor[j] \in Nat /\ Interval[j] \in Nat /\ MaxJobTime \in Nat /\ MaxJobTime > 0
      BY RetentionConstants
    <3>3. j \in DOMAIN lastRun => lastRun[j] <= clock /\ lastRun[j] \in Nat
      BY <1>1, <2>1, <2>4, Zenon DEF RunInTime, RetentionType
    <3>4. busy \in Nat
      BY <1>1, <3>2 DEF RetentionType
    <3>5. KeptInTime(i)'
      BY <1>1, <2>4, <3>1, <3>2, <3>3, <3>4 DEF KeptInTime, Passing, InJob
    <3>6. QED
      BY <2>2, <3>5, Zenon
  <2>5. QED
    BY <2>3, <2>4, Zenon
<1>6. QED
  BY <1>3, <1>4, <1>5, Zenon DEF RetentionInv, InTime

(* The constants and the counters, as numbers.                             *)
LEMMA Counts ==
  ASSUME RetentionType
  PROVE /\ clock \in Nat /\ busy \in Nat /\ busy <= MaxJobTime
        /\ MaxJobTime \in Nat /\ MaxJobTime > 0
        /\ sched \in Scheds /\ sched.now \in Nat /\ sched.next \in 1 .. 3
        /\ \A i \in DOMAIN jobs :
             /\ i \in Nat /\ jobs[i] \in Jobs
             /\ KeepFor[jobs[i]] \in Nat /\ Interval[jobs[i]] \in Nat /\ Interval[jobs[i]] > 0
             /\ row[jobs[i]].at \in Nat
             /\ jobs[i] \in DOMAIN lastRun => lastRun[jobs[i]] \in Nat
<1>1. /\ MaxJobTime \in Nat /\ MaxJobTime > 0
      /\ \A j \in Jobs : KeepFor[j] \in Nat /\ Interval[j] \in Nat /\ Interval[j] > 0
  BY RetentionConstants
<1>2. \A j \in Jobs : row[j].at \in Nat
  BY Zenon DEF RetentionType, Rows
<1>3. busy \in Nat /\ busy <= MaxJobTime
  BY <1>1 DEF RetentionType
<1>4. QED
  BY <1>1, <1>2, <1>3, SchedFacts, JobFacts, Zenon DEF RetentionType

(* A tick of time: the bounds leave room for it, and a stopped scheduler   *)
(* is excused.                                                             *)
LEMMA TimePassesKeeps ==
  ASSUME RetentionInv, TimePasses
  PROVE RetentionInv'
<1>1. RetentionType
  BY Zenon DEF RetentionInv
<1>2. /\ clock \in Nat
      /\ busy \in Nat
      /\ busy <= MaxJobTime
      /\ MaxJobTime \in Nat
      /\ MaxJobTime > 0
      /\ sched.now \in Nat
  BY <1>1, Counts, Zenon
<1>3. /\ clock' = clock + 1 /\ sched' = sched /\ lastRun' = lastRun /\ row' = row
      /\ Passing => busy < MaxJobTime /\ busy' = busy + 1
      /\ ~Passing => busy' = 0
      /\ sched.pc = "select" => ticker = {} /\ ticker' = {clock + 1}
      /\ Passing => ticker' \subseteq ticker \cup {clock + 1}
      /\ ticker' \subseteq ticker \cup {clock + 1}
      /\ sched.pc = "stopped" => excused' = Jobs
      /\ sched.pc # "stopped" => excused' = excused
  BY Zenon DEF TimePasses, Passing
<1>4. RetentionType'
  <2>1. busy' \in 0 .. MaxJobTime
    BY <1>2, <1>3
  <2>2. ticker' \subseteq Nat
    BY <1>1, <1>2, <1>3 DEF RetentionType
  <2>3. QED
    BY <1>1, <1>2, <1>3, <2>1, <2>2 DEF RetentionType
<1>5. Ticks'
  <2>1. ticker \subseteq Nat
    BY <1>1, Zenon DEF RetentionType
  <2>2. ASSUME NEW t \in ticker'
        PROVE /\ t <= clock'
              /\ sched.pc = "select" => clock' < t + MaxJobTime
              /\ Passing => clock' < t + busy'
    BY <1>2, <1>3, <2>1 DEF RetentionInv, Ticks
  <2>3. Passing => sched.now <= clock' /\ clock' < sched.now + MaxJobTime + busy'
    BY <1>2, <1>3 DEF RetentionInv, Ticks
  <2>4. QED
    BY <1>3, <2>2, <2>3, Zenon DEF Ticks, Passing
<1>6. ASSUME NEW i \in DOMAIN jobs PROVE RunInTime(i)' /\ KeptInTime(i)'
  <2>1. RunInTime(i) /\ KeptInTime(i)
    BY Zenon DEF RetentionInv, InTime
  <2>2. /\ /\ jobs[i] \in Jobs
        /\ KeepFor[jobs[i]] \in Nat
        /\ Interval[jobs[i]] \in Nat
        /\ row[jobs[i]].at \in Nat
        /\ jobs[i] \in DOMAIN lastRun => lastRun[jobs[i]] \in Nat
    BY <1>1, Counts, Zenon
  <2>3. (Passing' <=> Passing) /\ (Before(i)' <=> Before(i)) /\ (InJob(i)' <=> InJob(i))
    BY <1>3, Zenon DEF Passing, Before, InJob
  <2>4. RunInTime(i)'
    BY <1>2, <1>3, <2>1, <2>2, <2>3 DEF RunInTime
  <2>5. CASE row[jobs[i]].is = "kept" /\ jobs[i] \notin excused'
    <3>1. sched.pc # "stopped" /\ jobs[i] \notin excused
      BY <1>3, <2>2, <2>5, Zenon
    <3>2. sched.pc = "select" \/ Passing
      BY <1>1, <3>1, SchedFacts, Zenon DEF Passing, RetentionType
    <3>3. CASE sched.pc = "select"
      <4>1. ~Passing /\ ~InJob(i)
        BY <3>3, Zenon DEF Passing, InJob
      <4>2. QED
        BY <1>2, <1>3, <2>1, <2>2, <2>3, <2>4, <2>5, <3>1, <3>3, <4>1 DEF KeptInTime
    <3>4. CASE Passing
      <4>1. sched.pc # "select"
        BY <3>4, Zenon DEF Passing
      <4>2. QED
        BY <1>2, <1>3, <2>1, <2>2, <2>3, <2>4, <2>5, <3>1, <3>4, <4>1 DEF KeptInTime
    <3>5. QED
      BY <3>2, <3>3, <3>4, Zenon
  <2>6. CASE ~(row[jobs[i]].is = "kept" /\ jobs[i] \notin excused')
    BY <1>3, <2>4, <2>6, Zenon DEF KeptInTime
  <2>7. QED
    BY <2>5, <2>6, Zenon
<1>7. QED
  BY <1>4, <1>5, <1>6, Zenon DEF RetentionInv, InTime

(* A pass begins with a tick that is not old.                              *)
LEMMA ReceiveTickKeeps ==
  ASSUME RetentionInv, ReceiveTick
  PROVE RetentionInv'
<1>1. RetentionType
  BY Zenon DEF RetentionInv
<1>2. clock \in Nat /\ MaxJobTime \in Nat /\ MaxJobTime > 0
  BY <1>1, Counts, Zenon
<1>3. PICK t \in ticker : sched' = [pc |-> "pass", now |-> t, next |-> 1]
  BY SMTT(30) DEF ReceiveTick
<1>4. t \in Nat /\ t <= clock /\ clock < t + MaxJobTime
  BY <1>1, Zenon DEF RetentionInv, RetentionType, Ticks, ReceiveTick
<1>5. sched.pc = "select" /\ ticker' = {} /\ busy' = 0 /\ UNCHANGED <<clock, lastRun, row, excused>>
  BY Zenon DEF ReceiveTick
<1>6. sched' \in Scheds /\ sched'.pc = "pass" /\ sched'.now = t /\ sched'.next = 1
  BY <1>3, <1>4 DEF Scheds
<1>7. RetentionType'
  BY <1>1, <1>2, <1>5, <1>6 DEF RetentionType
<1>8. Ticks'
  BY <1>2, <1>4, <1>5, <1>6 DEF Ticks, Passing
<1>9. ASSUME NEW i \in DOMAIN jobs PROVE RunInTime(i)' /\ KeptInTime(i)'
  <2>1. RunInTime(i) /\ KeptInTime(i)
    BY Zenon DEF RetentionInv, InTime
  <2>2. /\ KeepFor[jobs[i]] \in Nat /\ Interval[jobs[i]] \in Nat /\ row[jobs[i]].at \in Nat
        /\ jobs[i] \in DOMAIN lastRun => lastRun[jobs[i]] \in Nat
    BY <1>1, Counts, Zenon
  <2>3. Passing' /\ Before(i)' /\ ~InJob(i)' /\ ~InJob(i)
    BY <1>5, <1>6, JobFacts DEF Passing, Before, InJob
  <2>4. RunInTime(i)'
    BY <1>2, <1>5, <1>6, <2>1, <2>2, <2>3 DEF RunInTime
  <2>5. KeptInTime(i)'
    BY <1>2, <1>5, <1>6, <2>1, <2>2, <2>3 DEF KeptInTime
  <2>6. QED
    BY <2>4, <2>5, Zenon
<1>10. QED
  BY <1>7, <1>8, <1>9, Zenon DEF RetentionInv, InTime

(* Run returns, and no time passes before it counts as excused.            *)
LEMMA RunReturnsKeeps ==
  ASSUME RetentionInv, RunReturns
  PROVE RetentionInv'
<1>1. RetentionType
  BY Zenon DEF RetentionInv
<1>2. /\ clock \in Nat
      /\ busy \in Nat
      /\ busy <= MaxJobTime
      /\ MaxJobTime \in Nat
      /\ MaxJobTime > 0
      /\ sched.now \in Nat
  BY <1>1, Counts, Zenon
<1>3. sched.pc \in {"select", "pass"} /\ UNCHANGED <<clock, ticker, busy, lastRun, row, excused>>
  BY Zenon DEF RunReturns
<1>4. sched' \in Scheds /\ sched'.pc = "stopped"
  BY <1>1, Zenon DEF RunReturns, RetentionType, Scheds
<1>5. RetentionType'
  BY <1>1, <1>3, <1>4, Zenon DEF RetentionType
<1>6. Ticks'
  BY <1>3, <1>4, Zenon DEF RetentionInv, Ticks, Passing
<1>7. ASSUME NEW i \in DOMAIN jobs PROVE RunInTime(i)' /\ KeptInTime(i)'
  <2>1. RunInTime(i) /\ KeptInTime(i)
    BY Zenon DEF RetentionInv, InTime
  <2>2. /\ KeepFor[jobs[i]] \in Nat /\ Interval[jobs[i]] \in Nat /\ row[jobs[i]].at \in Nat
        /\ jobs[i] \in DOMAIN lastRun => lastRun[jobs[i]] \in Nat
    BY <1>1, Counts, Zenon
  <2>3. ~Passing' /\ ~InJob(i)' /\ ~InJob(i) /\ (sched.pc = "pass" <=> Passing)
    BY <1>3, <1>4, Zenon DEF Passing, InJob
  <2>4. Passing => clock < sched.now + MaxJobTime + busy
    BY Zenon DEF RetentionInv, Ticks
  <2>5. RunInTime(i)'
    BY <1>2, <1>3, <1>4, <2>1, <2>2, <2>3, <2>4, SMTT(30) DEF RunInTime
  <2>6. KeptInTime(i)'
    BY <1>2, <1>3, <1>4, <2>1, <2>2, <2>3, Zenon DEF KeptInTime
  <2>7. QED
    BY <2>5, <2>6, Zenon
<1>8. QED
  BY <1>5, <1>6, <1>7, Zenon DEF RetentionInv, InTime

(* A new process has run no job; what the last one owed is in time still.  *)
LEMMA NewProcessKeeps ==
  ASSUME RetentionInv, NewProcess
  PROVE RetentionInv'
<1>1. RetentionType
  BY Zenon DEF RetentionInv
<1>2. /\ clock \in Nat
      /\ busy \in Nat
      /\ busy <= MaxJobTime
      /\ MaxJobTime \in Nat
      /\ MaxJobTime > 0
      /\ sched.now \in Nat
  BY <1>1, Counts, Zenon
<1>3. /\ ticker' = {} /\ busy' = 0 /\ lastRun' = <<>> /\ clock' = clock /\ row' = row
      /\ excused \subseteq excused' /\ Jobs \ DOMAIN lastRun \subseteq excused'
      /\ sched.pc = "job" => jobs[sched.next] \in excused'
  BY Zenon DEF NewProcess
<1>4. sched' \in Scheds /\ sched'.pc = "select"
  BY DEF NewProcess, Idle, Scheds
<1>5. DOMAIN lastRun' = {}
  BY <1>3
<1>6. RetentionType'
  BY <1>1, <1>2, <1>3, <1>4, <1>5 DEF RetentionType
<1>7. Ticks'
  BY <1>3, <1>4, Zenon DEF Ticks, Passing
<1>8. ASSUME NEW i \in DOMAIN jobs PROVE RunInTime(i)' /\ KeptInTime(i)'
  <2>1. RunInTime(i) /\ KeptInTime(i)
    BY Zenon DEF RetentionInv, InTime
  <2>2. /\ /\ jobs[i] \in Jobs
        /\ KeepFor[jobs[i]] \in Nat
        /\ Interval[jobs[i]] \in Nat
        /\ row[jobs[i]].at \in Nat
        /\ jobs[i] \in DOMAIN lastRun => lastRun[jobs[i]] \in Nat
    BY <1>1, Counts, Zenon
  <2>3. ~Passing' /\ ~InJob(i)' /\ (InJob(i) => jobs[i] \in excused')
    BY <1>3, <1>4, Zenon DEF Passing, InJob
  <2>4. Passing => clock < sched.now + MaxJobTime + busy
    BY Zenon DEF RetentionInv, Ticks
  <2>5. sched.pc \in {"select", "stopped"} \/ Passing
    BY <1>1, SchedFacts, Zenon DEF RetentionType, Passing
  <2>6. jobs[i] \in DOMAIN lastRun /\ jobs[i] \notin excused =>
          clock + 1 <= lastRun[jobs[i]] + Interval[jobs[i]] + 3 * MaxJobTime
    BY <1>2, <2>1, <2>2, <2>4, <2>5 DEF RunInTime
  <2>7. RunInTime(i)'
    BY <1>5, <2>3, SMTT(30) DEF RunInTime
  <2>8. KeptInTime(i)'
    <3> DEFINE j == jobs[i]
               due == row[j].at + KeepFor[j]
    <3>1. ASSUME row[j].is = "kept", j \notin excused'
          PROVE  /\ clock + 1 <= due + Interval[j] + 3 * MaxJobTime
                 /\ clock <= due + Interval[j] + 3 * MaxJobTime
                 /\ clock <= due + Interval[j] + 4 * MaxJobTime
      <4>1. j \in DOMAIN lastRun /\ j \notin excused /\ ~InJob(i)
        BY <1>3, <2>2, <2>3, <3>1, Zenon
      <4>2. lastRun[j] <= due
        BY <2>1, <3>1, <4>1, Zenon DEF KeptInTime
      <4>3. clock + 1 <= lastRun[j] + Interval[j] + 3 * MaxJobTime
        BY <2>6, <4>1, Zenon
      <4>4. \A c, l, d, n, m \in Nat : l <= d /\ c + 1 <= l + n + 3 * m =>
              c + 1 <= d + n + 3 * m /\ c <= d + n + 3 * m /\ c <= d + n + 4 * m
        OBVIOUS
      <4>5. due \in Nat /\ lastRun[j] \in Nat
        BY <2>2, <4>1
      <4>6. QED
        BY <1>2, <2>2, <4>2, <4>3, <4>4, <4>5, Zenon
    <3>2. QED
      BY <1>3, <1>4, <1>5, <2>3, <3>1, Zenon DEF KeptInTime
  <2>9. QED
    BY <2>7, <2>8, Zenon
<1>9. QED
  BY <1>6, <1>7, <1>8, Zenon DEF RetentionInv, InTime

(* One turn of the loop: the pass ends, passes over a job run recently, or *)
(* stamps the job and runs it.                                             *)
LEMMA ConsiderJobKeeps ==
  ASSUME RetentionInv, ConsiderJob
  PROVE RetentionInv'
<1>1. RetentionType
  BY Zenon DEF RetentionInv
<1>2. /\ clock \in Nat /\ busy \in Nat /\ busy <= MaxJobTime /\ MaxJobTime \in Nat /\ MaxJobTime > 0
      /\ sched \in Scheds /\ sched.now \in Nat /\ sched.next \in 1 .. 3
  BY <1>1, Counts, Zenon
<1>3. sched.pc = "pass" /\ UNCHANGED <<clock, ticker, busy, row, excused>>
  BY Zenon DEF ConsiderJob
<1>4. sched.now <= clock /\ clock < sched.now + MaxJobTime + busy
  BY <1>3, Zenon DEF RetentionInv, Ticks, Passing
<1>5. CASE sched.next > Len(jobs)
  <2>1. sched' = Idle /\ lastRun' = lastRun
    BY <1>5, Zenon DEF ConsiderJob, PassDone
  <2>2. sched' \in Scheds /\ sched'.pc = "select"
    BY <2>1 DEF Idle, Scheds
  <2>3. RetentionType'
    BY <1>1, <1>3, <2>1, <2>2, Zenon DEF RetentionType
  <2>4. Ticks'
    <3>1. ticker \subseteq Nat
      BY <1>1, Zenon DEF RetentionType
    <3>2. QED
      BY <1>2, <1>3, <2>2, <3>1 DEF RetentionInv, Ticks, Passing
  <2>5. ASSUME NEW i \in DOMAIN jobs PROVE RunInTime(i)' /\ KeptInTime(i)'
    <3>1. RunInTime(i) /\ KeptInTime(i)
      BY Zenon DEF RetentionInv, InTime
    <3>2. /\ KeepFor[jobs[i]] \in Nat /\ Interval[jobs[i]] \in Nat /\ row[jobs[i]].at \in Nat
          /\ jobs[i] \in DOMAIN lastRun => lastRun[jobs[i]] \in Nat
      BY <1>1, Counts, Zenon
    <3>3. Passing /\ ~Before(i) /\ ~InJob(i) /\ ~Passing' /\ ~InJob(i)'
      BY <1>2, <1>3, <1>5, <2>2, JobFacts, SMTT(30) DEF Passing, Before, InJob
    <3>4. RunInTime(i)'
      BY <1>2, <1>3, <1>4, <2>1, <2>2, <3>1, <3>2, <3>3, SMTT(30) DEF RunInTime
    <3>5. KeptInTime(i)'
      BY <1>2, <1>3, <2>1, <2>2, <3>1, <3>2, <3>3, Zenon DEF KeptInTime, RunInTime
    <3>6. QED
      BY <3>4, <3>5, Zenon
  <2>6. QED
    BY <2>3, <2>4, <2>5, Zenon DEF RetentionInv, InTime
<1>6. CASE sched.next <= Len(jobs) /\ ~Due(jobs[sched.next])
  <2>1. sched' = [sched EXCEPT !.next = sched.next + 1] /\ lastRun' = lastRun
    BY <1>2, <1>6, JobFacts DEF ConsiderJob
  <2>2. sched.next + 1 \in 1 .. 3 /\ sched.next \in DOMAIN jobs
    BY <1>2, <1>6, JobFacts
  <2>3. /\ sched' \in Scheds
        /\ sched'.pc = "pass"
        /\ sched'.now = sched.now
        /\ sched'.next = sched.next + 1
    BY <1>2, <1>3, <2>1, <2>2, Zenon DEF Scheds
  <2>4. RetentionType'
    BY <1>1, <1>3, <2>1, <2>3, Zenon DEF RetentionType
  <2>5. Ticks'
    BY <1>3, <2>3, SMTT(30) DEF RetentionInv, Ticks, Passing
  <2>6. ASSUME NEW i \in DOMAIN jobs PROVE RunInTime(i)' /\ KeptInTime(i)'
    <3>1. RunInTime(i) /\ KeptInTime(i)
      BY Zenon DEF RetentionInv, InTime
    <3>2. /\ /\ i \in Nat
          /\ KeepFor[jobs[i]] \in Nat
          /\ Interval[jobs[i]] \in Nat
          /\ row[jobs[i]].at \in Nat
          /\ jobs[i] \in DOMAIN lastRun => lastRun[jobs[i]] \in Nat
      BY <1>1, Counts, Zenon
    <3>3. /\ Passing
          /\ Passing'
          /\ ~InJob(i)
          /\ ~InJob(i)'
          /\ (Before(i)' <=> Before(i) /\ i # sched.next)
      BY <1>2, <1>3, <2>3, <3>2 DEF Passing, Before, InJob
    <3>4. i = sched.next => /\ jobs[i] \in DOMAIN lastRun
                            /\ sched.now + 1 <= lastRun[jobs[i]] + Interval[jobs[i]]
      BY <1>2, <1>6, <3>2 DEF Due
    <3>5. RunInTime(i)'
      BY <1>3, <2>1, <2>3, <3>1, <3>3, <3>4, Zenon DEF RunInTime
    <3>6. KeptInTime(i)'
      BY <1>3, <2>1, <2>3, <3>1, <3>3, Zenon DEF KeptInTime
    <3>7. QED
      BY <3>5, <3>6, Zenon
  <2>7. QED
    BY <2>4, <2>5, <2>6, Zenon DEF RetentionInv, InTime
<1>7. CASE sched.next <= Len(jobs) /\ Due(jobs[sched.next])
  <2>1. sched.next \in DOMAIN jobs /\ jobs[sched.next] \in Jobs
    BY <1>2, <1>7, JobFacts
  <2>2. sched' = [sched EXCEPT !.pc = "job"]
        /\ lastRun' = [j \in DOMAIN lastRun \cup {jobs[sched.next]} |->
                         IF j = jobs[sched.next] THEN sched.now ELSE lastRun[j]]
    BY <1>2, <1>7, JobFacts DEF ConsiderJob
  <2>3. sched' \in Scheds /\ sched'.pc = "job" /\ sched'.now = sched.now /\ sched'.next = sched.next
    BY <1>2, <1>3, <2>2, Zenon DEF Scheds
  <2>4. /\ DOMAIN lastRun' = DOMAIN lastRun \cup {jobs[sched.next]}
        /\ \A j \in DOMAIN lastRun' :
             lastRun'[j] = IF j = jobs[sched.next] THEN sched.now ELSE lastRun[j]
    BY <2>2, Zenon
  <2>5. RetentionType'
    BY <1>1, <1>2, <1>3, <2>1, <2>4, <2>3, Zenon DEF RetentionType
  <2>6. Ticks'
    BY <1>3, <2>3, Zenon DEF RetentionInv, Ticks, Passing
  <2>7. ASSUME NEW i \in DOMAIN jobs PROVE RunInTime(i)' /\ KeptInTime(i)'
    <3>1. RunInTime(i) /\ KeptInTime(i)
      BY Zenon DEF RetentionInv, InTime
    <3>2. /\ /\ i \in Nat
          /\ KeepFor[jobs[i]] \in Nat
          /\ Interval[jobs[i]] \in Nat
          /\ Interval[jobs[i]] > 0
          /\ row[jobs[i]].at \in Nat /\ (jobs[i] \in DOMAIN lastRun => lastRun[jobs[i]] \in Nat)
      BY <1>1, Counts, Zenon
    <3>3. /\ Passing /\ Passing' /\ ~InJob(i) /\ (InJob(i)' <=> i = sched.next)
          /\ (Before(i)' <=> Before(i) /\ i # sched.next) /\ (i = sched.next => Before(i))
      BY <1>2, <1>3, <2>3, <3>2 DEF Passing, Before, InJob
    <3>4. CASE i = sched.next
      <4>1. jobs[i] \in DOMAIN lastRun' /\ lastRun'[jobs[i]] = sched.now
        BY <2>4, <3>4, Zenon
      <4>2. sched.now + 1 <= sched.now + Interval[jobs[i]] /\ sched.now <= clock
        BY <1>2, <1>4, <3>2
      <4>3. RunInTime(i)'
        BY <1>3, <2>3, <3>3, <3>4, <4>1, <4>2, Zenon DEF RunInTime
      <4>4. KeptInTime(i)'
        <5>1. CASE row[jobs[i]].is = "kept" /\ jobs[i] \notin excused
          <6> DEFINE due == row[jobs[i]].at + KeepFor[jobs[i]]
          <6>1. jobs[i] \notin DOMAIN lastRun =>
                  clock <= due + Interval[jobs[i]] + 3 * MaxJobTime + busy
            BY <3>1, <3>3, <5>1, Zenon DEF KeptInTime
          <6>2. jobs[i] \in DOMAIN lastRun =>
                  /\ lastRun[jobs[i]] <= due
                  /\ clock + 1 <= lastRun[jobs[i]] + Interval[jobs[i]] + 2 * MaxJobTime + busy
            BY <3>1, <3>3, <3>4, <5>1, Zenon DEF KeptInTime, RunInTime
          <6>3. clock <= due + Interval[jobs[i]] + 3 * MaxJobTime + busy
            BY <1>2, <3>2, <6>1, <6>2
          <6>4. clock <= due + Interval[jobs[i]] + 4 * MaxJobTime
            BY <1>2, <3>2, <6>3
          <6>5. QED
            BY <1>3, <2>3, <3>3, <3>4, <6>3, <6>4, Zenon DEF KeptInTime
        <5>2. CASE ~(row[jobs[i]].is = "kept" /\ jobs[i] \notin excused)
          BY <1>3, <5>2, Zenon DEF KeptInTime
        <5>3. QED
          BY <5>1, <5>2, Zenon
      <4>5. QED
        BY <4>3, <4>4, Zenon
    <3>5. CASE i # sched.next
      <4>1. jobs[i] # jobs[sched.next]
        BY <2>1, <3>5, JobFacts, Zenon
      <4>2. /\ (jobs[i] \in DOMAIN lastRun' <=> jobs[i] \in DOMAIN lastRun)
            /\ (jobs[i] \in DOMAIN lastRun => lastRun'[jobs[i]] = lastRun[jobs[i]])
        BY <2>4, <4>1, SMTT(30)
      <4>3. RunInTime(i)'
        BY <1>3, <2>3, <3>1, <3>3, <3>5, <4>2, SMTT(30) DEF RunInTime
      <4>4. KeptInTime(i)'
        BY <1>3, <2>3, <3>1, <3>3, <3>5, <4>2, Zenon DEF KeptInTime
      <4>5. QED
        BY <4>3, <4>4, Zenon
    <3>6. QED
      BY <3>4, <3>5, Zenon
  <2>8. QED
    BY <2>5, <2>6, <2>7, Zenon DEF RetentionInv, InTime
<1>8. QED
  BY <1>2, <1>5, <1>6, <1>7, JobFacts

(* The pass goes on from the job it was at: its row is not overdue, or the *)
(* job is excused.                                                         *)
LEMMA PassGoesOn ==
  ASSUME RetentionInv, sched.pc \in {"job", "record"},
         \/ sched' = NextJob
         \/ sched.pc = "job" /\ sched' = [sched EXCEPT !.pc = "record"],
         row' \in [Jobs -> Rows], excused \subseteq excused',
         \A j \in Jobs : row'[j].is = "kept" => row'[j] = row[j] \/ row'[j].at = clock,
         sched.pc = "job" =>
           LET j == jobs[sched.next]
           IN j \in excused' \/ row'[j].is # "kept" \/ clock <= row[j].at + KeepFor[j],
         UNCHANGED <<clock, ticker, busy, lastRun>>
  PROVE RetentionInv'
<1>1. RetentionType
  BY Zenon DEF RetentionInv
<1>2. /\ clock \in Nat /\ busy \in Nat /\ busy <= MaxJobTime /\ MaxJobTime \in Nat /\ MaxJobTime > 0
      /\ sched \in Scheds /\ sched.now \in Nat
  BY <1>1, Counts, Zenon
<1>3. sched.next \in DOMAIN jobs /\ sched.next \in 1 .. 2
  BY <1>1, JobFacts DEF RetentionType
<1>4. /\ sched' \in Scheds /\ sched'.now = sched.now
      /\ \/ sched'.pc = "pass" /\ sched'.next = sched.next + 1
         \/ sched.pc = "job" /\ sched'.pc = "record" /\ sched'.next = sched.next
  <2>1. sched.next + 1 \in 1 .. 3
    BY <1>3
  <2>2. CASE sched' = NextJob
    <3>1. sched' = [sched EXCEPT !.pc = "pass", !.next = sched.next + 1]
      BY <2>2, Zenon DEF NextJob
    <3>2. QED
      BY <1>2, <2>1, <3>1, Zenon DEF Scheds
  <2>3. CASE sched.pc = "job" /\ sched' = [sched EXCEPT !.pc = "record"]
    BY <1>2, <2>3, Zenon DEF Scheds
  <2>4. QED
    BY <2>2, <2>3, Zenon
<1>5. RetentionType'
  BY <1>1, <1>3, <1>4, Zenon DEF RetentionType
<1>6. Ticks'
  BY <1>4, Zenon DEF RetentionInv, Ticks, Passing
<1>7. ASSUME NEW i \in DOMAIN jobs PROVE RunInTime(i)' /\ KeptInTime(i)'
  <2>1. RunInTime(i) /\ KeptInTime(i)
    BY Zenon DEF RetentionInv, InTime
  <2>2. /\ i \in Nat /\ jobs[i] \in Jobs /\ KeepFor[jobs[i]] \in Nat /\ Interval[jobs[i]] \in Nat
        /\ row[jobs[i]].at \in Nat /\ (jobs[i] \in DOMAIN lastRun => lastRun[jobs[i]] \in Nat)
    BY <1>1, Counts, Zenon
  <2>3. /\ Passing /\ Passing' /\ ~InJob(i)' /\ (Before(i)' <=> Before(i))
        /\ (InJob(i) <=> sched.pc = "job" /\ i = sched.next)
    BY <1>2, <1>3, <1>4, <2>2 DEF Passing, Before, InJob
  <2>4. RunInTime(i)'
    BY <1>4, <2>1, <2>3, Zenon DEF RunInTime
  <2>5. CASE row'[jobs[i]].is = "kept" /\ jobs[i] \notin excused'
    <3>1. CASE row'[jobs[i]] = row[jobs[i]]
      <4>1. row[jobs[i]].is = "kept" /\ jobs[i] \notin excused
        BY <2>2, <2>5, <3>1, Zenon
      <4>2. InJob(i) => clock <= row[jobs[i]].at + KeepFor[jobs[i]]
        BY <2>3, <2>5, Zenon
      <4>3. jobs[i] \in DOMAIN lastRun => lastRun[jobs[i]] <= row[jobs[i]].at + KeepFor[jobs[i]]
        BY <1>2, <2>1, <2>2, <4>1, <4>2 DEF KeptInTime, RunInTime
      <4>4. KeptInTime(i)'
        BY <1>2, <1>4, <2>1, <2>3, <3>1, <4>1, <4>3, Zenon DEF KeptInTime, RunInTime
      <4>5. QED
        BY <2>4, <4>4, Zenon
    <3>2. CASE row'[jobs[i]].at = clock
      <4>1. jobs[i] \in DOMAIN lastRun => lastRun[jobs[i]] <= clock
        BY <2>1, Zenon DEF RunInTime
      <4>2. KeptInTime(i)'
        BY <1>2, <2>2, <2>3, <3>2, <4>1 DEF KeptInTime
      <4>3. QED
        BY <2>4, <4>2, Zenon
    <3>3. QED
      BY <2>2, <2>5, <3>1, <3>2, Zenon
  <2>6. CASE ~(row'[jobs[i]].is = "kept" /\ jobs[i] \notin excused')
    BY <2>4, <2>6, Zenon DEF KeptInTime
  <2>7. QED
    BY <2>5, <2>6, Zenon
<1>8. QED
  BY <1>5, <1>6, <1>7, Zenon DEF RetentionInv, InTime

(* DELETE ... WHERE timestamp < now - age leaves no old row.               *)
LEMMA PurgeDeletes ==
  ASSUME RetentionInv, NEW j \in Jobs, row' = PurgeOlderThan(j)
  PROVE /\ row' \in [Jobs -> Rows]
        /\ \A k \in Jobs : row'[k].is = "kept" => row'[k] = row[k]
        /\ row'[j].is # "kept" \/ clock <= row[j].at + KeepFor[j]
<1>1. row \in [Jobs -> Rows] /\ clock \in Nat
  BY Zenon DEF RetentionInv, RetentionType
<1>2. row[j] \in Rows /\ row[j].at \in Nat /\ KeepFor[j] \in Nat
  BY <1>1, RetentionConstants, Zenon DEF Rows
<1>3. CASE row[j].is = "kept" /\ clock - row[j].at > KeepFor[j]
  <2>1. row' = [row EXCEPT ![j] = [row[j] EXCEPT !.is = "purged"]]
    BY <1>3, Zenon DEF PurgeOlderThan
  <2>2. [row[j] EXCEPT !.is = "purged"] \in Rows /\ [row[j] EXCEPT !.is = "purged"].is = "purged"
    BY <1>2, Zenon DEF Rows
  <2>3. /\ row'[j].is = "purged"
        /\ row' \in [Jobs -> Rows]
        /\ \A k \in Jobs : k # j => row'[k] = row[k]
    BY <1>1, <2>1, <2>2, Zenon
  <2>4. QED
    BY <2>3, Zenon
<1>4. CASE ~(row[j].is = "kept" /\ clock - row[j].at > KeepFor[j])
  <2>1. row' = row
    BY <1>4, Zenon DEF PurgeOlderThan
  <2>2. row[j].is # "kept" \/ clock <= row[j].at + KeepFor[j]
    BY <1>1, <1>2, <1>4
  <2>3. QED
    BY <1>1, <2>1, <2>2, Zenon
<1>5. QED
  BY <1>3, <1>4, Zenon

(* The DELETE of a job removes its overdue row, or the job is excused.     *)
LEMMA RunJobKeeps ==
  ASSUME RetentionInv, RunJob
  PROVE RetentionInv'
<1> DEFINE j == jobs[sched.next]
<1>1. sched.pc = "job" /\ UNCHANGED <<clock, ticker, busy, lastRun>>
  BY Zenon DEF RunJob
<1>2. j \in Jobs /\ row \in [Jobs -> Rows]
  BY <1>1, JobFacts, Zenon DEF RetentionInv, RetentionType
<1>3. CASE /\ row' = PurgeOlderThan(j)
           /\ sched' = NextJob \/ sched' = [sched EXCEPT !.pc = "record"]
           /\ UNCHANGED excused
  <2>1. /\ row' \in [Jobs -> Rows]
        /\ \A k \in Jobs : row'[k].is = "kept" => row'[k] = row[k]
        /\ row'[j].is # "kept" \/ clock <= row[j].at + KeepFor[j]
    BY <1>2, <1>3, PurgeDeletes, Zenon
  <2>2. QED
    BY <1>1, <1>3, <2>1, PassGoesOn, Zenon
<1>4. CASE excused' = excused \cup {j} /\ sched' = NextJob /\ UNCHANGED row
  BY <1>1, <1>2, <1>4, PassGoesOn, Zenon
<1>5. QED
  BY <1>3, <1>4, Zenon DEF RunJob

(* A row written at the end of the job is written in the next turn's state. *)
LEMMA RecordPurgeKeeps ==
  ASSUME RetentionInv, RecordPurge
  PROVE RetentionInv'
<1>1. sched.pc = "record" /\ sched' = NextJob /\ UNCHANGED <<clock, ticker, busy, lastRun, excused>>
  BY Zenon DEF RecordPurge
<1>2. row \in [Jobs -> Rows]
  BY Zenon DEF RetentionInv, RetentionType
<1>3. CASE UNCHANGED row
  BY <1>1, <1>2, <1>3, PassGoesOn, Zenon
<1>4. CASE row' = [row EXCEPT !["audit-purge"] = [at |-> clock, is |-> "kept"]]
  <2>1. [at |-> clock, is |-> "kept"] \in Rows /\ "audit-purge" \in Jobs
    BY JobFacts, Zenon DEF RetentionInv, RetentionType, Rows
  <2>2. row' \in [Jobs -> Rows] /\ \A k \in Jobs : row'[k] = row[k] \/ row'[k].at = clock
    BY <1>2, <1>4, <2>1, Zenon
  <2>3. QED
    BY <1>1, <2>2, PassGoesOn, Zenon
<1>5. QED
  BY <1>3, <1>4, Zenon DEF RecordPurge

(* What the other steps leave alone stays as it was.                       *)
LEMMA RetentionStutters ==
  ASSUME RetentionInv, UNCHANGED <<clock, ticker, sched, busy, lastRun, row, excused>>
  PROVE RetentionInv'
<1>1. RetentionType' /\ Ticks'
  <2>1. RetentionType'
    BY Zenon DEF RetentionInv, RetentionType
  <2>2. Ticks'
    BY Zenon DEF RetentionInv, Ticks, Passing
  <2>3. QED
    BY <2>1, <2>2, Zenon
<1>2. ASSUME NEW i \in DOMAIN jobs PROVE RunInTime(i)' /\ KeptInTime(i)'
  <2>1. RunInTime(i) /\ KeptInTime(i)
    BY Zenon DEF RetentionInv, InTime
  <2>2. QED
    BY <2>1 DEF RunInTime, KeptInTime, Passing, Before, InJob
<1>3. QED
  BY <1>1, <1>2, Zenon DEF RetentionInv, InTime

(* From RetentionInv to the bound: the job is not being run, was run, or   *)
(* not.                                                                    *)
LEMMA BoundHolds ==
  ASSUME RetentionInv
  PROVE PurgedInTime
<1> SUFFICES ASSUME NEW j \in Jobs, Overdue(j), j \notin excused
             PROVE clock - row[j].at <= KeepFor[j] + Interval[j] + 4 * MaxJobTime
  BY Zenon DEF PurgedInTime
<1>1. PICK i \in DOMAIN jobs : j = jobs[i]
  BY Zenon DEF Jobs
<1>2. RetentionType /\ RunInTime(i) /\ KeptInTime(i)
  BY Zenon DEF RetentionInv, InTime
<1>3. /\ clock \in Nat /\ busy \in Nat /\ busy <= MaxJobTime /\ MaxJobTime \in Nat
      /\ KeepFor[j] \in Nat /\ Interval[j] \in Nat /\ row[j].at \in Nat /\ sched.now \in Nat
      /\ j \in DOMAIN lastRun => lastRun[j] \in Nat
  BY <1>1, <1>2, Counts, Zenon
<1>4. row[j].is = "kept"
  BY Zenon DEF Overdue
<1>5. CASE j \notin DOMAIN lastRun \/ InJob(i)
  <2>1. clock <= row[j].at + KeepFor[j] + Interval[j] + 4 * MaxJobTime
    BY <1>1, <1>2, <1>4, <1>5, Zenon DEF KeptInTime
  <2>2. QED
    BY <1>3, <2>1
<1>6. CASE j \in DOMAIN lastRun /\ ~InJob(i)
  <2>1. lastRun[j] <= row[j].at + KeepFor[j]
    BY <1>1, <1>2, <1>4, <1>6, Zenon DEF KeptInTime
  <2>2. clock + 1 <= lastRun[j] + Interval[j] + 3 * MaxJobTime
    <3>1. Passing => sched.now <= clock /\ clock < sched.now + MaxJobTime + busy
      BY Zenon DEF RetentionInv, Ticks
    <3>2. Passing \/ sched.pc \in {"select", "stopped"}
      BY <1>2, SchedFacts, Zenon DEF Passing, RetentionType
    <3>3. CASE Passing
      BY <1>1, <1>2, <1>3, <1>6, <3>1, <3>3 DEF RunInTime
    <3>4. CASE sched.pc \in {"select", "stopped"}
      BY <1>1, <1>2, <1>3, <1>6, <3>4 DEF RunInTime
    <3>5. QED
      BY <3>2, <3>3, <3>4, Zenon
  <2>3. QED
    BY <1>3, <1>6, <2>1, <2>2, SMTT(30)
<1>7. QED
  BY <1>5, <1>6, Zenon

(* RetentionInv is inductive.                                              *)
THEOREM RetentionInvariant == RetentionSpec => []RetentionInv
<1>1. RetentionInit => RetentionInv
  <2> SUFFICES ASSUME RetentionInit PROVE RetentionInv
    BY Zenon
  <2>1. sched \in Scheds /\ sched.pc = "select" /\ sched.now = 0
    BY DEF RetentionInit, Idle, Scheds
  <2>2. [at |-> 0, is |-> "unwritten"] \in Rows
    BY Zenon DEF Rows
  <2>3. row \in [Jobs -> Rows] /\ \A j \in Jobs : row[j].is = "unwritten"
    BY <2>2, Zenon DEF RetentionInit
  <2>4. DOMAIN lastRun = {}
    BY DEF RetentionInit
  <2>5. RetentionType
    BY <2>1, <2>3, <2>4, RetentionConstants DEF RetentionInit, RetentionType
  <2>6. Ticks
    BY <2>1, Zenon DEF RetentionInit, Ticks, Passing
  <2>7. InTime
    BY <2>1, <2>3, <2>4, JobFacts, Zenon DEF InTime, RunInTime, KeptInTime, Passing
  <2>8. QED
    BY <2>5, <2>6, <2>7, Zenon DEF RetentionInv
<1>2. RetentionInv /\ [RetentionNext]_retentionVars => RetentionInv'
  <2> SUFFICES ASSUME RetentionInv, [RetentionNext]_retentionVars PROVE RetentionInv'
    BY Zenon
  <2>1. CASE \E j \in Jobs : WriteRow(j)
    BY <2>1, RowWritten, Zenon DEF WriteRow
  <2>2. CASE TimePasses
    BY <2>2, TimePassesKeeps, Zenon
  <2>3. CASE ReceiveTick
    BY <2>3, ReceiveTickKeeps, Zenon
  <2>4. CASE RunReturns
    BY <2>4, RunReturnsKeeps, Zenon
  <2>5. CASE ConsiderJob
    BY <2>5, ConsiderJobKeeps, Zenon
  <2>6. CASE RunJob
    BY <2>6, RunJobKeeps, Zenon
  <2>7. CASE RecordPurge
    BY <2>7, RecordPurgeKeeps, Zenon
  <2>8. CASE Cancel \/ UNCHANGED retentionVars
    BY <2>8, RetentionStutters, Zenon DEF Cancel, retentionVars
  <2>9. CASE NewProcess
    BY <2>9, NewProcessKeeps, Zenon
  <2>10. QED
    BY <2>1, <2>2, <2>3, <2>4, <2>5, <2>6, <2>7, <2>8, <2>9, Zenon DEF RetentionNext
<1>3. QED
  BY <1>1, <1>2, PTL DEF RetentionSpec

(* For every interval, retention and pass length, a row outlives its       *)
(* retention by at most the interval of its job and four passes.           *)
THEOREM RowsArePurgedInTime == RetentionSpec => []PurgedInTime
<1>1. RetentionInv => PurgedInTime
  BY BoundHolds, Zenon
<1>2. QED
  BY <1>1, RetentionInvariant, PTL

----------------------------------------------------------------------------
(* Tokens and replays.                                                     *)

(* What an answer, an entry and a replay can be.                           *)
Answers == {"none", "failed", "sent", "no token", "token expired", ""}
Pcs == {"idle", "get", "expired", "refused", "send", "done"}
Entry == [token : AccessTokens \cup {None}, age : 0 .. TokenTTL]
Reader == [pc : Pcs, merchant : Merchants, token : AccessTokens \cup {None}]

(* What the entries of the token store and the replays can be.             *)
TokensType ==
  /\ seen \in [Merchants -> Entry]
  /\ replay \in [Replays -> Reader]
  /\ answer \in [Replays -> Answers]
  /\ lastSet \in [Merchants -> 0 .. TokenTTL]

(* An entry is as old as the last Set, and a reader about to delete one    *)
(* has found it expired, unless the two overlapped.                        *)
DeletesExpired ==
  /\ \A m \in Merchants : lastSet[m] < TokenTTL => seen[m].age = lastSet[m] \/ m \in overlap
  /\ \A r \in Replays :
       replay[r].pc = "expired" =>
         lastSet[replay[r].merchant] = TokenTTL \/ replay[r].merchant \in overlap

(* A replay is refused without a live token, unless one came since.        *)
RefusedForCause ==
  /\ \A r \in Replays :
       replay[r].pc \in {"expired", "refused"} =>
         seen[replay[r].merchant].age = TokenTTL \/ r \in refreshed
  /\ RefusalExplained

TokensInv == TokensType /\ DeletesExpired /\ RefusedForCause

(* An entry is live as long as it is young: an absent one has the full age. *)
LEMMA Live ==
  ASSUME NEW e \in Entry
  PROVE /\ e.age \in 0 .. TokenTTL /\ e.token \in AccessTokens \cup {None}
        /\ (LiveToken(e) <=> e.age # TokenTTL)
        /\ (e = Absent => e.age = TokenTTL)
  BY TokenConstants DEF Entry, LiveToken, Absent

(* ReplayAt moves one replay, and leaves it with its merchant.             *)
LEMMA Moves ==
  ASSUME replay \in [Replays -> Reader], NEW r \in Replays, NEW pc \in Pcs, ReplayAt(r, pc)
  PROVE /\ replay' \in [Replays -> Reader]
        /\ \A q \in Replays : /\ replay[q].merchant \in Merchants
                              /\ replay'[q].merchant = replay[q].merchant
                              /\ replay'[q].pc = IF q = r THEN pc ELSE replay[q].pc
<1>1. replay' = [replay EXCEPT ![r] = [replay[r] EXCEPT !.pc = pc]]
  BY Zenon DEF ReplayAt
<1>2. \A q \in Replays : replay[q] \in Reader /\ replay[q].merchant \in Merchants
  BY Zenon DEF Reader
<1>3. [replay[r] EXCEPT !.pc = pc] \in Reader
  BY <1>2, Zenon DEF Reader
<1>4. /\ [replay[r] EXCEPT !.pc = pc].merchant = replay[r].merchant
      /\ [replay[r] EXCEPT !.pc = pc].pc = pc
  BY <1>2, Zenon DEF Reader
<1>5. QED
  BY <1>1, <1>2, <1>3, <1>4, Zenon

(* SetToken gives one merchant a new entry, and notes who is about to      *)
(* delete or has just been refused.                                        *)
LEMMA Sets ==
  ASSUME TokensType, NEW m \in Merchants, NEW t \in AccessTokens \cup {None}, SetToken(m, t)
  PROVE /\ seen' \in [Merchants -> Entry] /\ lastSet' \in [Merchants -> 0 .. TokenTTL]
        /\ \A n \in Merchants : /\ seen'[n].age = IF n = m THEN 0 ELSE seen[n].age
                                /\ lastSet'[n] = IF n = m THEN 0 ELSE lastSet[n]
                                /\ (n # m => (n \in overlap' <=> n \in overlap))
        /\ \A q \in Replays :
             replay[q].merchant = m =>
               /\ (replay[q].pc = "expired" => m \in overlap')
               /\ (replay[q].pc \in {"expired", "refused"} => q \in refreshed')
        /\ refreshed \subseteq refreshed'
<1>1. [token |-> t, age |-> 0] \in Entry
  BY TokenConstants DEF Entry
<1>2. /\ seen' \in [Merchants -> Entry]
      /\ \A n \in Merchants : seen'[n].age = IF n = m THEN 0 ELSE seen[n].age
  BY <1>1, Zenon DEF TokensType, SetToken
<1>3. /\ lastSet' \in [Merchants -> 0 .. TokenTTL]
      /\ \A n \in Merchants : lastSet'[n] = IF n = m THEN 0 ELSE lastSet[n]
  BY TokenConstants DEF TokensType, SetToken
<1>4. \A n \in Merchants : n # m => (n \in overlap' <=> n \in overlap)
  BY Zenon DEF SetToken
<1>5. \A q \in Replays :
        replay[q].merchant = m =>
          /\ (replay[q].pc = "expired" => m \in overlap')
          /\ (replay[q].pc \in {"expired", "refused"} => q \in refreshed')
  BY Zenon DEF SetToken, About
<1>6. refreshed \subseteq refreshed'
  BY SMTT(30) DEF SetToken
<1>7. QED
  BY <1>2, <1>3, <1>4, <1>5, <1>6, Zenon

(* A Set makes the entry young, and marks the readers it overtakes         *)
(* (tokenstore/store.go, Set).                                             *)
LEMMA SetTokenKeeps ==
  ASSUME TokensInv, NEW m \in Merchants, NEW t \in AccessTokens \cup {None}, SetToken(m, t),
         replay' \in [Replays -> Reader],
         \A q \in Replays : /\ replay[q].merchant \in Merchants
                            /\ replay'[q].merchant = replay[q].merchant
                            /\ replay'[q].pc \in {replay[q].pc, "done"},
         answer' \in [Replays -> Answers],
         \A q \in Replays : answer'[q] \in {answer[q], "sent"}
  PROVE TokensInv'
<1>1. TokensType
  BY Zenon DEF TokensInv
<1>2. TokensType'
  BY <1>1, Sets, SMTT(30) DEF TokensType
<1>3. DeletesExpired'
  <2>1. ASSUME NEW n \in Merchants, lastSet'[n] < TokenTTL
        PROVE seen'[n].age = lastSet'[n] \/ n \in overlap'
    BY <1>1, <2>1, Sets, SMTT(30) DEF TokensInv, DeletesExpired
  <2>2. ASSUME NEW q \in Replays, replay'[q].pc = "expired"
        PROVE lastSet'[replay'[q].merchant] = TokenTTL \/ replay'[q].merchant \in overlap'
    BY <1>1, <2>2, Sets, SMTT(30) DEF TokensInv, DeletesExpired
  <2>3. QED
    BY <2>1, <2>2, SMTT(30) DEF DeletesExpired
<1>4. RefusedForCause'
  <2>1. ASSUME NEW q \in Replays, replay'[q].pc \in {"expired", "refused"}
        PROVE seen'[replay'[q].merchant].age = TokenTTL \/ q \in refreshed'
    BY <1>1, <2>1, Sets, SMTT(30) DEF TokensInv, RefusedForCause
  <2>2. RefusalExplained'
    BY <1>1, Sets, Zenon DEF TokensInv, RefusedForCause, RefusalExplained
  <2>3. QED
    BY <2>1, <2>2, SMTT(30) DEF RefusedForCause
<1>5. QED
  BY <1>2, <1>3, <1>4, Zenon DEF TokensInv

(* The token of a client request is set, whatever it is.                   *)
LEMMA ClientRequestKeeps ==
  ASSUME TokensInv, NEW m \in Merchants, NEW t \in AccessTokens, ClientRequest(m, t)
  PROVE TokensInv'
<1>1. SetToken(m, t) /\ replay' = replay /\ answer' = answer
  BY Zenon DEF ClientRequest
<1>2. /\ replay \in [Replays -> Reader] /\ answer \in [Replays -> Answers]
      /\ \A q \in Replays : replay[q].merchant \in Merchants
  BY SMTT(30) DEF TokensInv, TokensType, Reader
<1>3. QED
  BY <1>1, <1>2, SetTokenKeeps, Zenon

(* A replay is sent with the token it has, or fails.                       *)
LEMMA SendReplayKeeps ==
  ASSUME TokensInv, NEW r \in Replays, SendReplay(r)
  PROVE TokensInv'
<1>1. replay \in [Replays -> Reader] /\ answer \in [Replays -> Answers]
  BY Zenon DEF TokensInv, TokensType
<1>2. /\ replay' \in [Replays -> Reader]
      /\ \A q \in Replays : /\ replay[q].merchant \in Merchants
                            /\ replay'[q].merchant = replay[q].merchant
                            /\ replay'[q].pc \in {replay[q].pc, "done"}
  BY <1>1, Moves, SMTT(30) DEF SendReplay, Pcs
<1>3. CASE SetToken(replay[r].merchant, replay[r].token) /\ answer' = [answer EXCEPT ![r] = "sent"]
  <2>1. replay[r].merchant \in Merchants /\ replay[r].token \in AccessTokens \cup {None}
    BY <1>1, Zenon DEF Reader
  <2>2. answer' \in [Replays -> Answers] /\ \A q \in Replays : answer'[q] \in {answer[q], "sent"}
    BY <1>1, <1>3, Zenon DEF Answers
  <2>3. QED
    BY <1>2, <1>3, <2>1, <2>2, SetTokenKeeps, Zenon
<1>4. CASE /\ UNCHANGED <<seen, overlap, lastSet, refreshed>>
           /\ answer' = [answer EXCEPT ![r] = "failed"]
  <2>1. answer' \in [Replays -> Answers] /\ \A q \in Replays : answer'[q] \in {answer[q], "failed"}
    BY <1>1, <1>4, Zenon DEF Answers
  <2>2. QED
    BY <1>2, <1>4, <2>1, Zenon
      DEF TokensInv, TokensType, DeletesExpired, RefusedForCause, RefusalExplained
<1>5. QED
  BY <1>3, <1>4, Zenon DEF SendReplay

(* A replay starts with nothing of the store read.                         *)
LEMMA BeginReplayKeeps ==
  ASSUME TokensInv, NEW r \in Replays, BeginReplay(r)
  PROVE TokensInv'
<1>1. replay \in [Replays -> Reader] /\ answer \in [Replays -> Answers]
  BY Zenon DEF TokensInv, TokensType
<1>2. /\ replay' \in [Replays -> Reader]
      /\ \A q \in Replays : /\ replay'[q].merchant = replay[q].merchant
                            /\ replay'[q].pc \in {replay[q].pc, "get", "done"}
  BY <1>1, Moves, Zenon DEF BeginReplay, Pcs
<1>3. answer' \in [Replays -> Answers] /\ \A q \in Replays : answer'[q] \in {answer[q], "failed"}
  BY <1>1, Zenon DEF BeginReplay, Answers
<1>4. UNCHANGED <<seen, overlap, lastSet, refreshed>>
  BY Zenon DEF BeginReplay
<1>5. QED
  BY <1>2, <1>3, <1>4, Zenon
    DEF TokensInv, TokensType, DeletesExpired, RefusedForCause, RefusalExplained

(* Get reads one entry: it is absent, live, or found expired.              *)
LEMMA GetTokenKeeps ==
  ASSUME TokensInv, NEW r \in Replays, GetToken(r)
  PROVE TokensInv'
<1> DEFINE m == replay[r].merchant
           pc == IF seen[m] = Absent THEN "refused"
                 ELSE IF LiveToken(seen[m]) THEN "send" ELSE "expired"
           t == IF LiveToken(seen[m]) THEN seen[m].token ELSE None
           moved == [replay[r] EXCEPT !.pc = pc, !.token = t]
<1>1. /\ replay \in [Replays -> Reader]
      /\ seen \in [Merchants -> Entry]
      /\ lastSet \in [Merchants -> 0 .. TokenTTL]
  BY Zenon DEF TokensInv, TokensType
<1>2. m \in Merchants /\ seen[m] \in Entry
  BY <1>1, Zenon DEF Reader
<1>3. pc \in Pcs /\ t \in AccessTokens \cup {None}
  BY <1>2, Live, Zenon DEF Pcs
<1>4. moved \in Reader /\ moved.merchant = m /\ moved.pc = pc
  BY <1>1, <1>3, Zenon DEF Reader
<1>5. replay' = [replay EXCEPT ![r] = moved]
  BY <1>1, Zenon DEF GetToken, Reader
<1>6. pc \in {"expired", "refused"} => seen[m].age = TokenTTL
  BY <1>2, Live, SMTT(30)
<1>7. pc = "expired" => lastSet[m] = TokenTTL \/ m \in overlap
  <2>1. lastSet[m] \in 0 .. TokenTTL
    BY <1>1, <1>2, Zenon
  <2>2. lastSet[m] = TokenTTL \/ lastSet[m] < TokenTTL
    BY <2>1, TokenConstants
  <2>3. QED
    BY <1>2, <1>6, <2>2, Zenon DEF TokensInv, DeletesExpired
<1>8. UNCHANGED <<seen, answer, overlap, lastSet, refreshed>>
  BY Zenon DEF GetToken
<1>9. /\ replay' \in [Replays -> Reader]
      /\ \A q \in Replays : q # r => replay'[q] = replay[q]
      /\ replay'[r].merchant = m /\ replay'[r].pc = pc
  BY <1>1, <1>4, <1>5, Zenon
<1> HIDE DEF m, pc, t, moved
<1>10. TokensType'
  BY <1>8, <1>9, Zenon DEF TokensInv, TokensType
<1>11. DeletesExpired'
  BY <1>7, <1>8, <1>9, SMTT(30) DEF TokensInv, DeletesExpired
<1>12. RefusedForCause'
  BY <1>6, <1>8, <1>9, Zenon DEF TokensInv, RefusedForCause, RefusalExplained
<1>13. QED
  BY <1>10, <1>11, <1>12, Zenon DEF TokensInv

(* Get deletes what it found expired, and with it a token set meanwhile.   *)
LEMMA GetTokenDeleteKeeps ==
  ASSUME TokensInv, NEW r \in Replays, GetTokenDelete(r)
  PROVE TokensInv'
<1>1. replay \in [Replays -> Reader] /\ seen \in [Merchants -> Entry]
  BY Zenon DEF TokensInv, TokensType
<1>2. Absent \in Entry /\ Absent.age = TokenTTL
  BY TokenConstants DEF Absent, Entry
<1>3. /\ replay[r].pc = "expired" /\ replay[r].merchant \in Merchants
      /\ seen' = [seen EXCEPT ![replay[r].merchant] = Absent]
      /\ UNCHANGED <<answer, overlap, lastSet, refreshed>>
  BY <1>1, Zenon DEF GetTokenDelete, Reader
<1>4. /\ replay' \in [Replays -> Reader]
      /\ \A q \in Replays : /\ replay[q].merchant \in Merchants
                            /\ replay'[q].merchant = replay[q].merchant
                            /\ replay'[q].pc = IF q = r THEN "refused" ELSE replay[q].pc
  BY <1>1, Moves, Zenon DEF GetTokenDelete, Pcs
<1>5. /\ seen' \in [Merchants -> Entry]
      /\ \A n \in Merchants :
           seen'[n].age = IF n = replay[r].merchant THEN TokenTTL ELSE seen[n].age
  BY <1>1, <1>2, <1>3, Zenon
<1>6. TokensType'
  BY <1>3, <1>4, <1>5, SMTT(30) DEF TokensInv, TokensType
<1>7. DeletesExpired'
  <2>1. lastSet[replay[r].merchant] = TokenTTL \/ replay[r].merchant \in overlap
    BY <1>3, Zenon DEF TokensInv, DeletesExpired
  <2>2. \A n \in Merchants : lastSet'[n] < TokenTTL => seen'[n].age = lastSet'[n] \/ n \in overlap'
    BY <1>3, <1>5, <2>1, TokenConstants, SMTT(30) DEF TokensInv, DeletesExpired
  <2>3. QED
    BY <1>3, <1>4, <2>2, SMTT(30) DEF TokensInv, DeletesExpired
<1>8. RefusedForCause'
  BY <1>3, <1>4, <1>5, Zenon DEF TokensInv, RefusedForCause, RefusalExplained
<1>9. QED
  BY <1>6, <1>7, <1>8, Zenon DEF TokensInv

(* The reason of a refusal is read from the store a second time.           *)
LEMMA ReasonKeeps ==
  ASSUME TokensInv, NEW r \in Replays, UnavailabilityReason(r)
  PROVE TokensInv'
<1>1. /\ replay \in [Replays -> Reader]
      /\ seen \in [Merchants -> Entry]
      /\ answer \in [Replays -> Answers]
  BY Zenon DEF TokensInv, TokensType
<1>2. /\ replay' \in [Replays -> Reader]
      /\ \A q \in Replays : /\ replay[q].merchant \in Merchants
                            /\ replay'[q].merchant = replay[q].merchant
                            /\ replay'[q].pc \in {replay[q].pc, "done"}
  BY <1>1, Moves, Zenon DEF UnavailabilityReason, Pcs
<1>3. UNCHANGED <<seen, overlap, lastSet, refreshed>> /\ replay[r].pc = "refused"
  BY Zenon DEF UnavailabilityReason
<1>4. answer' \in [Replays -> Answers] /\ \A q \in Replays : q # r => answer'[q] = answer[q]
  BY <1>1, Zenon DEF UnavailabilityReason, Answers
<1>5. answer'[r] = "" => LiveToken(seen[replay[r].merchant])
  BY <1>1, Zenon DEF UnavailabilityReason
<1>6. answer'[r] = "" => r \in refreshed
  BY <1>1, <1>2, <1>3, <1>5, Live, Zenon DEF TokensInv, RefusedForCause
<1>7. RefusedForCause'
  BY <1>2, <1>3, <1>4, <1>6, Zenon DEF TokensInv, RefusedForCause, RefusalExplained
<1>8. QED
  BY <1>2, <1>3, <1>4, <1>7, Zenon DEF TokensInv, TokensType, DeletesExpired

(* Time makes entries and the last Set older together.                     *)
LEMMA TokenTickKeeps ==
  ASSUME TokensInv, TokenTick
  PROVE TokensInv'
<1>1. /\ seen \in [Merchants -> Entry]
      /\ lastSet \in [Merchants -> 0 .. TokenTTL]
      /\ replay \in [Replays -> Reader]
  BY Zenon DEF TokensInv, TokensType
<1>2. ASSUME NEW m \in Merchants
      PROVE /\ seen'[m] \in Entry
            /\ seen'[m].age = IF seen[m].age = TokenTTL THEN TokenTTL ELSE seen[m].age + 1
  <2>1. /\ seen[m] \in Entry
        /\ seen'[m] = IF LiveToken(seen[m]) THEN [seen[m] EXCEPT !.age = @ + 1] ELSE seen[m]
    BY <1>1, Zenon DEF TokenTick
  <2>2. CASE LiveToken(seen[m])
    <3>1. seen[m].age \in 0 .. TokenTTL /\ seen[m].age # TokenTTL
      BY <2>1, <2>2, Live, Zenon
    <3>2. seen[m].age + 1 \in 0 .. TokenTTL
      BY <3>1, TokenConstants
    <3>3. QED
      BY <2>1, <2>2, <3>1, <3>2, Zenon DEF Entry
  <2>3. CASE ~LiveToken(seen[m])
    BY <2>1, <2>3, Live, Zenon
  <2>4. QED
    BY <2>2, <2>3, Zenon
<1>3. \A m \in Merchants : /\ lastSet[m] \in 0 .. TokenTTL
                           /\ lastSet'[m] = IF lastSet[m] < TokenTTL THEN lastSet[m] + 1 ELSE TokenTTL
  BY <1>1, Zenon DEF TokenTick
<1>4. seen' \in [Merchants -> Entry] /\ lastSet' \in [Merchants -> 0 .. TokenTTL]
  <2>1. \A m \in Merchants : lastSet'[m] \in 0 .. TokenTTL
    BY <1>3, TokenConstants
  <2>2. QED
    BY <1>2, <2>1, Zenon DEF TokenTick
<1>5. UNCHANGED <<replay, answer, overlap, refreshed>>
  BY Zenon DEF TokenTick
<1>6. TokensType'
  BY <1>4, <1>5, Zenon DEF TokensInv, TokensType
<1>7. \A r \in Replays : replay[r].merchant \in Merchants
  BY <1>1, Zenon DEF Reader
<1>8. DeletesExpired'
  <2>1. ASSUME NEW m \in Merchants, lastSet'[m] < TokenTTL
        PROVE seen'[m].age = lastSet'[m] \/ m \in overlap
    <3>1. lastSet[m] < TokenTTL /\ lastSet'[m] = lastSet[m] + 1 /\ lastSet[m] # TokenTTL
      BY <1>3, <2>1, TokenConstants
    <3>2. QED
      BY <1>2, <3>1, Zenon DEF TokensInv, DeletesExpired
  <2>2. \A m \in Merchants : lastSet[m] = TokenTTL => lastSet'[m] = TokenTTL
    BY <1>3, TokenConstants, SMTT(30)
  <2>3. QED
    BY <1>5, <1>7, <2>1, <2>2, Zenon DEF TokensInv, DeletesExpired
<1>9. RefusedForCause'
  BY <1>2, <1>5, <1>7, Zenon DEF TokensInv, RefusedForCause, RefusalExplained
<1>10. QED
  BY <1>6, <1>8, <1>9, Zenon DEF TokensInv

(* TokensInv is inductive.                                                 *)
THEOREM TokensInvariant == TokensSpec => []TokensInv
<1>1. TokensInit => TokensInv
  <2>1. SUFFICES ASSUME TokensInit PROVE TokensInv
    BY Zenon
  <2>2. Absent \in Entry
    BY TokenConstants DEF Absent, Entry
  <2>3. \A x \in [pc : {"idle"}, merchant : Merchants, token : {None}] :
          x \in Reader /\ x.pc = "idle"
    BY Zenon DEF Reader, Pcs
  <2>4. \A r \in Replays : replay[r] \in Reader /\ replay[r].pc = "idle"
    BY <2>1, <2>3, Zenon DEF TokensInit
  <2>5. TokensType
    BY <2>1, <2>2, <2>4, TokenConstants DEF TokensInit, TokensType, Answers, None
  <2>6. DeletesExpired /\ RefusedForCause
    BY <2>1, <2>4, TokenConstants
      DEF TokensInit, DeletesExpired, RefusedForCause, RefusalExplained, None
  <2>7. QED
    BY <2>5, <2>6, Zenon DEF TokensInv
<1>2. TokensInv /\ [TokensNext]_tokenVars => TokensInv'
  <2>1. ASSUME TokensInv, UNCHANGED tokenVars PROVE TokensInv'
    BY <2>1, Zenon
      DEF TokensInv, TokensType, DeletesExpired, RefusedForCause, RefusalExplained, tokenVars
  <2>2. QED
    BY <2>1, ClientRequestKeeps, BeginReplayKeeps, GetTokenKeeps, GetTokenDeleteKeeps, ReasonKeeps,
       SendReplayKeeps, TokenTickKeeps, Zenon DEF TokensNext
<1>3. QED
  BY <1>1, <1>2, PTL DEF TokensSpec

(* For every number of merchants, tokens and replays, and every TTL, a token *)
(* lives from its last Set until the TTL, unless a delete overlapped.      *)
THEOREM TokenStaysLive == TokensSpec => []LiveUnlessOverlapped
<1>1. TokensInv => LiveUnlessOverlapped
  <2>1. SUFFICES ASSUME TokensInv, NEW m \in Merchants, lastSet[m] < TokenTTL, m \notin overlap
                 PROVE LiveToken(seen[m])
    BY Zenon DEF LiveUnlessOverlapped
  <2>2. seen[m] \in Entry /\ lastSet[m] \in 0 .. TokenTTL
    BY <2>1, Zenon DEF TokensInv, TokensType
  <2>3. lastSet[m] # TokenTTL
    BY <2>1, <2>2, TokenConstants
  <2>4. QED
    BY <2>1, <2>2, <2>3, Live, Zenon DEF TokensInv, DeletesExpired
<1>2. QED
  BY <1>1, TokensInvariant, PTL

(* And a refused replay says why, unless a token came since the refusal.   *)
THEOREM RefusalIsExplained == TokensSpec => []RefusalExplained
<1>1. TokensInv => RefusalExplained
  BY Zenon DEF TokensInv, RefusedForCause
<1>2. QED
  BY <1>1, TokensInvariant, PTL

----------------------------------------------------------------------------
(* The throttle mode and the configuration.                                *)

(* What is resolved is resolved from the settings and header of now.       *)
ThrottleInv ==
  /\ merchantMode \in Modes \cup {Unset}
  /\ endpointMode \in Modes \cup {Unset}
  /\ defaultMode \in Modes \cup {Unset}
  /\ queueTimeout \in Nat
  /\ header.wait \in Nat
  /\ Resolved => result.mode = resolveThrottleMode /\ result.timeout = resolveTimeout

(* What the two functions of middleware.go compute is within the ceiling.  *)
LEMMA ResolvedWithin ==
  ASSUME ThrottleInv
  PROVE OperatorIsCeiling
<1> SUFFICES ASSUME Resolved PROVE OperatorIsCeiling
  BY Zenon DEF OperatorIsCeiling
<1>1. /\ resolveTimeout > 0
      /\ resolveTimeout <= IF queueTimeout > 0 THEN queueTimeout ELSE DefaultTimeout
      /\ header.wait > 0 => resolveTimeout <= header.wait
  BY TimeoutConstants DEF ThrottleInv, resolveTimeout
<1>2. \/ endpointMode = "reject"
      \/ merchantMode = "reject" /\ endpointMode = Unset
      \/ {merchantMode, endpointMode} = {Unset} /\ defaultMode = "reject"
      => OperatorMode = "reject"
  BY Zenon DEF OperatorMode, Or, Unset
<1>3. \/ OperatorMode = "reject"
      \/ header.mode = "reject"
      => resolveThrottleMode = "reject"
  BY Zenon DEF resolveThrottleMode, Or, Unset
<1>4. QED
  BY <1>1, <1>2, <1>3, Zenon DEF OperatorIsCeiling, ThrottleInv

(* For every configuration and header, the operator's settings are a       *)
(* ceiling (middleware.go:158-247).                                        *)
THEOREM OperatorStaysCeiling == ThrottleSpec => []OperatorIsCeiling
<1>1. ThrottleInit => ThrottleInv
  BY TimeoutConstants, Zenon DEF ThrottleInit, ThrottleInv, Resolved, Headers
<1>2. ThrottleInv /\ [ThrottleNext]_throttleVars => ThrottleInv'
  <2> SUFFICES ASSUME ThrottleInv, [ThrottleNext]_throttleVars PROVE ThrottleInv'
    BY Zenon
  <2>1. CASE Resolve
    <3>1. UNCHANGED <<merchantMode, endpointMode, defaultMode, queueTimeout, header>>
      BY <2>1, Zenon DEF Resolve
    <3>2. result'.mode = resolveThrottleMode /\ result'.timeout = resolveTimeout
      BY <2>1, Zenon DEF Resolve
    <3>3. resolveThrottleMode' = resolveThrottleMode /\ resolveTimeout' = resolveTimeout
      BY <3>1, Zenon DEF resolveThrottleMode, OperatorMode, resolveTimeout
    <3>4. QED
      BY <3>1, <3>2, <3>3, Zenon DEF ThrottleInv
  <2>2. CASE Arrive
    <3>1. header'.wait \in Nat
      BY <2>2, TimeoutConstants, Zenon DEF Arrive, Headers
    <3>2. QED
      BY <2>2, <3>1, Zenon DEF Arrive, ThrottleInv, Resolved, NoResult
  <2>3. CASE UNCHANGED throttleVars
    BY <2>3, Zenon DEF throttleVars, ThrottleInv, Resolved, resolveThrottleMode, OperatorMode,
       resolveTimeout
  <2>4. QED
    BY <2>1, <2>2, <2>3, Zenon DEF ThrottleNext
<1>3. QED
  BY <1>1, <1>2, ResolvedWithin, PTL DEF ThrottleSpec

----------------------------------------------------------------------------
(* Once loaded, a value is a raw one, or the default; once valid, it has   *)
(* passed every validation.                                                *)
ConfigInv ==
  /\ environment \in Environments
  /\ \A s \in Settings : cfg[s] \in Raw(s) \cup {Default[s]}
  /\ stage \in {"valid", "running", "exited"} =>
       validateRateLimit /\ validateBodies /\ validatePurge
  /\ stage = "exited" => ~newBodyBackend \/ (On("BODIES_ENABLED") /\ ~NewCodec)

(* A value that was loaded is one of its kind, or its default.             *)
LEMMA Loaded ==
  ASSUME environment \in Environments, NEW s \in Settings
  PROVE env(s) \in Raw(s) \cup {Default[s]}
  BY ConfigConstants, Zenon DEF env

(* A duration is not "above one": what is positive parses.                 *)
LEMMA PositiveParses ==
  ASSUME ConfigInv, NEW s \in Durations, Positive(s)
  PROVE parsed(s) = "positive"
<1>1. s \in Settings /\ Raw(s) = {Bad, "negative", "zero", "positive"}
  BY Zenon DEF Settings, Raw, Durations, Numbers, Booleans
<1>2. Default[s] = "positive"
  BY <1>1, Zenon DEF Default, Durations, Numbers, Booleans
<1>3. cfg[s] # "above one"
  BY <1>1, <1>2, Zenon DEF ConfigInv, Bad
<1>4. QED
  BY <1>3, Zenon DEF Positive, parsed, Bad

(* A codec or backend that is validated is one the constructors know.      *)
LEMMA ValidatedIsKnown ==
  ASSUME ConfigInv, validateBodies, On("BODIES_ENABLED")
  PROVE newBodyBackend /\ NewCodec
<1>1. newBodyBackend
  BY Zenon DEF validateBodies, validateBodiesBackend, newBodyBackend
<1>2. "BODIES_COMPRESSION" \in Settings /\ Default["BODIES_COMPRESSION"] = "zstd"
      /\ Raw("BODIES_COMPRESSION") = {"zstd", "gzip", "none", "other"}
  BY Zenon DEF Settings, Strings, Default, Raw, Durations, Numbers, Booleans
<1>3. NewCodec
  BY <1>2, Zenon DEF ConfigInv, NewCodec, validateBodies
<1>4. QED
  BY <1>1, <1>3, Zenon

(* Whatever the environment, a process that runs has retentions that are   *)
(* positive, and one whose configuration was accepted exits over it only   *)
(* with bodies disabled and an S3 or unknown backend                       *)
(* (config.go:339, 403-459, main.go:86, 217, 343-361).                     *)
THEOREM AcceptedStaysUsable == ConfigSpec => []AcceptedIsUsable
<1>1. ConfigInit => ConfigInv
  BY SMTT(30) DEF ConfigInit, ConfigInv
<1>2. ConfigInv /\ [ConfigNext]_configVars => ConfigInv'
  <2> SUFFICES ASSUME ConfigInv, [ConfigNext]_configVars PROVE ConfigInv'
    BY Zenon
  <2>1. CASE loadConfig
    <3>1. \A s \in Settings : cfg'[s] = env(s)
      BY <2>1, SMTT(30) DEF loadConfig
    <3>2. environment \in Environments
      BY Zenon DEF ConfigInv
    <3>3. \A s \in Settings : cfg'[s] \in Raw(s) \cup {Default[s]}
      BY <3>1, <3>2, Loaded, Zenon
    <3>4. QED
      BY <2>1, <3>2, <3>3, Zenon DEF loadConfig, ConfigInv
  <2>a. ASSUME UNCHANGED cfg
        PROVE /\ validateRateLimit' <=> validateRateLimit
              /\ validateBodies' <=> validateBodies
              /\ validatePurge' <=> validatePurge
              /\ newBodyBackend' <=> newBodyBackend
              /\ NewCodec' <=> NewCodec
              /\ On("BODIES_ENABLED")' <=> On("BODIES_ENABLED")
    BY <2>a, Zenon DEF validateRateLimit, validateBodies, validateBodiesBackend, validatePurge,
                       newBodyBackend, NewCodec, Positive, On
  <2>2. CASE Validate
    <3>1. UNCHANGED <<environment, cfg>> /\ stage' \in {"valid", "refused"}
      BY <2>2, Zenon DEF Validate
    <3>2. stage' = "valid" => validateRateLimit /\ validateBodies /\ validatePurge
      BY <2>2, Zenon DEF Validate
    <3>3. QED
      BY <3>1, <3>2, <2>a, Zenon DEF ConfigInv
  <2>3. CASE Construct
    <3>1. UNCHANGED <<environment, cfg>> /\ stage = "valid" /\ stage' \in {"running", "exited"}
      BY <2>3, Zenon DEF Construct
    <3>2. stage' = "exited" => ~newBodyBackend \/ (On("BODIES_ENABLED") /\ ~NewCodec)
      BY <2>3, Zenon DEF Construct
    <3>3. QED
      BY <3>1, <3>2, <2>a, Zenon DEF ConfigInv
  <2>4. CASE UNCHANGED configVars
    BY <2>4, <2>a, Zenon DEF configVars, ConfigInv
  <2>5. QED
    BY <2>1, <2>2, <2>3, <2>4, Zenon DEF ConfigNext
<1>3. ConfigInv => AcceptedIsUsable
  <2> SUFFICES ASSUME ConfigInv PROVE AcceptedIsUsable
    BY Zenon
  <2>1. ASSUME stage = "running", NEW s \in Handed PROVE parsed(s) = "positive"
    <3>1. validateRateLimit /\ validateBodies /\ validatePurge
      BY <2>1, Zenon DEF ConfigInv
    <3>2. Positive(s)
      BY <3>1, Zenon DEF Handed, validateRateLimit, validateBodies, validatePurge
    <3>3. s \in Durations
      BY Zenon DEF Handed, Durations
    <3>4. QED
      BY <3>2, <3>3, PositiveParses, Zenon
  <2>2. ASSUME stage = "exited" PROVE ~On("BODIES_ENABLED") /\ cfg["BODIES_BACKEND"] # "local"
    <3>1. validateBodies /\ (~newBodyBackend \/ (On("BODIES_ENABLED") /\ ~NewCodec))
      BY <2>2, Zenon DEF ConfigInv
    <3>2. ~On("BODIES_ENABLED")
      BY <3>1, ValidatedIsKnown, Zenon
    <3>3. QED
      BY <3>1, <3>2, Zenon DEF newBodyBackend
  <2>3. QED
    BY <2>1, <2>2, Zenon DEF AcceptedIsUsable
<1>4. QED
  BY <1>1, <1>2, <1>3, PTL DEF ConfigSpec

=============================================================================
