----------------------------- MODULE Retention -----------------------------
(***************************************************************************)
(* The scheduler (internal/scheduler/scheduler.go) and the two jobs it     *)
(* runs, which purge request logs and audit events                         *)
(* (internal/purge/purge.go).  Of each table one row is followed: rows do  *)
(* not influence each other, but for the audit event of a purge.           *)
(***************************************************************************)
EXTENDS Naturals, Sequences

CONSTANTS
  Interval,    \* job -> ticks of the scheduler between two runs
  KeepFor,     \* job -> retention of its table
  MaxJobTime,  \* bound on the ticks a pass over the jobs takes
  MaxClock     \* bound on the clock

jobs == <<"metadata-purge", "audit-purge">>
Jobs == {jobs[i] : i \in DOMAIN jobs}

ASSUME RetentionConstants ==
  /\ Interval \in [Jobs -> Nat \ {0}] /\ KeepFor \in [Jobs -> Nat \ {0}]
  /\ MaxJobTime \in Nat \ {0} /\ MaxClock \in Nat

VARIABLES
  clock,
  ticker,     \* the ticker's channel, of capacity one: the times in it
  sched,      \* [pc, now, next]: the tick being served and the job to look at next
  busy,       \* ticks since the pass began
  cancelled,  \* the context of Run
  lastRun,    \* job -> time of the tick it last ran at, if it ran
  row,        \* job -> [at, is]: the row followed in its table
  excused     \* history: jobs that failed, or were not run by a whole process

retentionVars == <<clock, ticker, sched, busy, cancelled, lastRun, row, excused>>

Idle == [pc |-> "select", now |-> 0, next |-> 1]

RetentionInit ==
  /\ clock = 0 /\ ticker = {} /\ sched = Idle /\ busy = 0 /\ cancelled = FALSE
  /\ lastRun = <<>>
  /\ row = [j \in Jobs |-> [at |-> 0, is |-> "unwritten"]]
  /\ excused = {}

Overdue(j) == row[j].is = "kept" /\ clock - row[j].at > KeepFor[j]

(* Request logs are written by the logger, audit events by any part.       *)
WriteRow(j) ==
  /\ row[j].is = "unwritten" /\ sched.pc # "stopped"
  /\ row' = [row EXCEPT ![j] = [at |-> clock, is |-> "kept"]]
  /\ UNCHANGED <<clock, ticker, sched, busy, cancelled, lastRun, excused>>

(* One tick of time.  The channel drops a tick it has no room for.  A      *)
(* waiting scheduler takes a tick before the next; a pass is bounded.      *)
TimePasses ==
  /\ clock < MaxClock
  /\ clock' = clock + 1
  /\ sched.pc \in {"pass", "job", "record"} => busy < MaxJobTime
  /\ sched.pc = "select" => ticker = {}
  /\ ticker' = IF ticker = {} /\ sched.pc # "stopped" THEN {clock + 1} ELSE ticker
  /\ busy' = IF sched.pc \in {"pass", "job", "record"} THEN busy + 1 ELSE 0
  /\ excused' = IF sched.pc = "stopped" THEN Jobs ELSE excused
  /\ UNCHANGED <<sched, cancelled, lastRun, row>>

(* The select of Run.                                                      *)
ReceiveTick ==
  /\ sched.pc = "select"
  /\ \E t \in ticker : sched' = [pc |-> "pass", now |-> t, next |-> 1]
  /\ ticker' = {} /\ busy' = 0
  /\ UNCHANGED <<clock, cancelled, lastRun, row, excused>>

RunReturns ==
  /\ cancelled /\ sched.pc \in {"select", "pass"}
  /\ sched' = [sched EXCEPT !.pc = "stopped"]
  /\ UNCHANGED <<clock, ticker, busy, cancelled, lastRun, row, excused>>

Due(j) == j \notin DOMAIN lastRun \/ sched.now - lastRun[j] >= Interval[j]

PassDone == sched' = Idle

(* Mutant: a job is stamped for every tick it is looked at.                *)
ConsiderJobAlwaysStamps ==
  /\ sched.pc = "pass" /\ ~cancelled
  /\ IF sched.next > Len(jobs) THEN PassDone /\ UNCHANGED lastRun
     ELSE LET j == jobs[sched.next]
          IN /\ sched' = IF Due(j) THEN [sched EXCEPT !.pc = "job"]
                         ELSE [sched EXCEPT !.next = @ + 1]
             /\ lastRun' = [i \in DOMAIN lastRun \cup {j} |->
                              IF i = j THEN sched.now ELSE lastRun[i]]
  /\ UNCHANGED <<clock, ticker, busy, cancelled, row, excused>>

(* One turn of the loop over the jobs.                                     *)
ConsiderJob ==
  /\ sched.pc = "pass" /\ ~cancelled
  /\ IF sched.next > Len(jobs) THEN PassDone /\ UNCHANGED lastRun
     ELSE LET j == jobs[sched.next]
          IN IF Due(j)
             THEN /\ sched' = [sched EXCEPT !.pc = "job"]
                  /\ lastRun' = [i \in DOMAIN lastRun \cup {j} |->
                                   IF i = j THEN sched.now ELSE lastRun[i]]
             ELSE sched' = [sched EXCEPT !.next = @ + 1] /\ UNCHANGED lastRun
  /\ UNCHANGED <<clock, ticker, busy, cancelled, row, excused>>

NextJob == [sched EXCEPT !.pc = "pass", !.next = @ + 1]

(* DELETE ... WHERE timestamp < now - age.                                 *)
PurgeOlderThan(j) ==
  IF row[j].is = "kept" /\ clock - row[j].at > KeepFor[j]
  THEN [row EXCEPT ![j].is = "purged"] ELSE row

(* The job's DELETE, with the job's own context.  If it fails the next try *)
(* is an interval away.  Only the purge of request logs goes on from there.*)
RunJob ==
  /\ sched.pc = "job"
  /\ LET j == jobs[sched.next]
     IN \/ /\ row' = PurgeOlderThan(j)
           /\ sched' = IF j = "metadata-purge" THEN [sched EXCEPT !.pc = "record"] ELSE NextJob
           /\ UNCHANGED excused
        \/ /\ excused' = excused \cup {j}
           /\ sched' = NextJob
           /\ UNCHANGED row
  /\ UNCHANGED <<clock, ticker, busy, cancelled, lastRun>>

(* The audit event, if rows were deleted (of others too), and Maintain;    *)
(* errors of both are logged only.                                         *)
RecordPurge ==
  /\ sched.pc = "record"
  /\ sched' = NextJob
  /\ \/ UNCHANGED row
     \/ /\ row["audit-purge"].is = "unwritten"
        /\ row' = [row EXCEPT !["audit-purge"] = [at |-> clock, is |-> "kept"]]
  /\ UNCHANGED <<clock, ticker, busy, cancelled, lastRun, excused>>

Cancel ==
  /\ ~cancelled
  /\ cancelled' = TRUE
  /\ UNCHANGED <<clock, ticker, sched, busy, lastRun, row, excused>>

(* The process ends, at any point of a job, and another starts: a new      *)
(* scheduler that has run no job.                                          *)
NewProcess ==
  /\ cancelled
  /\ sched' = Idle /\ ticker' = {} /\ busy' = 0 /\ cancelled' = FALSE /\ lastRun' = <<>>
  /\ excused' = excused \cup (Jobs \ DOMAIN lastRun)
                  \cup (IF sched.pc = "job" THEN {jobs[sched.next]} ELSE {})
  /\ UNCHANGED <<clock, row>>

RetentionNext ==
  \/ \E j \in Jobs : WriteRow(j)
  \/ TimePasses \/ ReceiveTick \/ RunReturns \/ ConsiderJob \/ RunJob \/ RecordPurge
  \/ Cancel \/ NewProcess

RetentionSpec == RetentionInit /\ [][RetentionNext]_retentionVars

----------------------------------------------------------------------------

(* A row outlives its retention by no more than its job's interval and the *)
(* time of four passes, also across restarts, unless the job failed, the   *)
(* proxy stood still, or a process ended before it had run the job         *)
(* (scheduler.go:43-68, purge.go:15-48).                                   *)
PurgedInTime ==
  \A j \in Jobs :
    Overdue(j) /\ j \notin excused =>
      clock - row[j].at <= KeepFor[j] + Interval[j] + 4 * MaxJobTime

=============================================================================
