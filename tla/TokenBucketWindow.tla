------------------------- MODULE TokenBucketWindow -------------------------
(***************************************************************************)
(* The promise of the token bucket to Amazon: in every window of time, the *)
(* calls let through exceed neither the burst nor what the rate allows.    *)
(* The window is a history: it may be opened in any state, and from then   *)
(* on span counts the ticks and used the tokens granted.                   *)
(***************************************************************************)
EXTENDS TokenBucket

CONSTANTS
  MaxRate,  \* the largest effective rate, in credits per tick
  MaxSpan   \* bound on the length of the observed window

ASSUME WindowConstants ==
  /\ MaxRate \in Nat
  /\ \A r \in Rates \cup {InitRate} : effectiveRate(r) <= MaxRate
  /\ MaxSpan \in Nat

VARIABLES
  span,  \* ticks since the window was opened
  used   \* tokens granted since the window was opened

windowVars == <<bucketVars, span, used>>

WindowInit == NewTokenBucket /\ span = 0 /\ used = 0

OpenWindow ==
  /\ span' = 0
  /\ used' = 0
  /\ UNCHANGED bucketVars

Consume(allowed) ==
  /\ TryConsume(allowed)
  /\ used' = IF allowed THEN used + 1 ELSE used
  /\ UNCHANGED span

Observe ==
  /\ Tokens \/ \E r \in Rates : UpdateRate(r)
  /\ UNCHANGED <<span, used>>

WindowTick ==
  /\ span < MaxSpan
  /\ Elapse
  /\ span' = span + 1
  /\ UNCHANGED used

WindowNext ==
  \/ OpenWindow
  \/ \E allowed \in BOOLEAN : Consume(allowed)
  \/ Observe
  \/ WindowTick

WindowSpec == WindowInit /\ [][WindowNext]_windowVars

----------------------------------------------------------------------------

(* Bucket and history have their types.                                    *)
WindowTypeOK ==
  /\ BucketTypeOK
  /\ span \in 0 .. MaxSpan
  /\ used \in Nat

(* In every window the granted tokens are at most the capacity plus what   *)
(* the largest rate in force earns over the window, even though UpdateRate *)
(* credits past time at the new rate (bucket.go:60-64) and every caller of *)
(* TryConsume and Tokens moves lastRefill (bucket.go:44).                  *)
WindowBound == used * Unit <= maxTokens + span * MaxRate

(* The strengthening that is inductive: credits still in the bucket and    *)
(* time not yet credited are part of the same budget.  Before the first    *)
(* refill of the window nothing has been granted.                          *)
WindowBudget ==
  \/ used = 0
  \/ /\ elapsed <= span
     /\ used * Unit + tokens <= maxTokens + (span - elapsed) * MaxRate

=============================================================================
