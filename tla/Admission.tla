----------------------------- MODULE Admission -----------------------------
(***************************************************************************)
(* What a rate-limited endpoint promises: every request ends up admitted   *)
(* or refused, it is admitted only with a token of the endpoint's bucket,  *)
(* and no token is taken twice for the same request.  How requests wait,   *)
(* who takes the token and in which order is left open; RequestQueue is    *)
(* the implementation.                                                     *)
(***************************************************************************)
EXTENDS TokenBucket

CONSTANT Requests

VARIABLES
  granted,  \* the requests a token was taken for
  outcome   \* "pending", "admitted" or "refused"

admissionVars == <<bucketVars, granted, outcome>>

AdmissionInit ==
  /\ NewTokenBucket
  /\ granted = {}
  /\ outcome = [r \in Requests |-> "pending"]

Decide(r, o) ==
  /\ outcome[r] = "pending"
  /\ outcome' = [outcome EXCEPT ![r] = o]

(* A token is taken for r, which may by then have given up.                *)
Grant(r) ==
  /\ r \notin granted
  /\ outcome[r] # "admitted"
  /\ TryConsume(TRUE)
  /\ granted' = granted \cup {r}
  /\ UNCHANGED outcome

Admit(r) ==
  /\ r \in granted
  /\ Decide(r, "admitted")
  /\ UNCHANGED <<bucketVars, granted>>

(* The token is taken and used at once.                                    *)
Serve(r) ==
  /\ r \notin granted
  /\ TryConsume(TRUE)
  /\ granted' = granted \cup {r}
  /\ Decide(r, "admitted")

Refuse(r) ==
  /\ Decide(r, "refused")
  /\ UNCHANGED <<bucketVars, granted>>

(* The bucket's own life: refusals, refills, new rates and time.           *)
BucketStep ==
  /\ TryConsume(FALSE) \/ Tokens \/ Elapse \/ \E x \in Rates : UpdateRate(x)
  /\ UNCHANGED <<granted, outcome>>

AdmissionNext ==
  \/ \E r \in Requests : Grant(r) \/ Admit(r) \/ Serve(r) \/ Refuse(r)
  \/ BucketStep

AdmissionSpec == AdmissionInit /\ [][AdmissionNext]_admissionVars
=============================================================================
