---------------------------- MODULE TokenBucket ----------------------------
(***************************************************************************)
(* The token bucket of internal/ratelimit/bucket.go, one per merchant,     *)
(* method and endpoint.                                                    *)
(*                                                                         *)
(* The code counts float64 tokens against wall-clock seconds.  Here a      *)
(* token is Unit credits and time advances in ticks, so that every amount  *)
(* is an integer.  A rate is in tokens per tick, and the throttle factor   *)
(* of the configuration is the fraction Throttle / Unit.                   *)
(*                                                                         *)
(* lastRefill is kept relative to the present: elapsed is the time since   *)
(* the last refill.  It saturates at MaxElapsed, by which time even the    *)
(* slowest bucket is full, so nothing the bucket does can tell a longer    *)
(* wait apart.                                                             *)
(***************************************************************************)
EXTENDS Integers

CONSTANTS
  Unit,        \* credits in a token
  Throttle,    \* credits one token of nominal rate is worth after throttling
  Burst,       \* burst parameter of the endpoint, in tokens
  InitRate,    \* rate parameter of the endpoint, in tokens per tick
  Rates,       \* rates a response may announce (x-amzn-RateLimit-Limit)
  MinRate,     \* the floor of effectiveRate (1e-9 in the code), in credits
  MaxElapsed   \* saturation of the time since the last refill

ASSUME BucketConstants ==
  /\ Unit \in Nat \ {0}
  /\ Throttle \in Nat
  /\ Burst \in Nat
  /\ InitRate \in Nat
  /\ Rates \subseteq Int
  /\ MinRate \in Nat \ {0}
  /\ MaxElapsed \in Nat

VARIABLES
  tokens,      \* credits in the bucket at the last refill
  refillRate,  \* nominal rate, before the throttle factor
  elapsed      \* ticks since lastRefill

bucketVars == <<tokens, refillRate, elapsed>>

----------------------------------------------------------------------------

MinOf(a, b) == IF a <= b THEN a ELSE b
MaxOf(a, b) == IF a >= b THEN a ELSE b

(* A bucket with no burst still holds one token, or one tick's worth.      *)
maxTokens == IF Burst <= 0 THEN MaxOf(InitRate * Unit, Unit) ELSE Burst * Unit

effectiveRate(r) == IF r * Throttle <= 0 THEN MinRate ELSE r * Throttle

(* What refill leaves in the bucket.                                       *)
Refilled == MinOf(maxTokens, tokens + elapsed * effectiveRate(refillRate))

(* Saturating elapsed loses nothing: by then the bucket is full.           *)
ASSUME SaturationIsFull == MaxElapsed * MinRate >= maxTokens

(* No announced rate is slower than the floor.                             *)
ASSUME FloorIsLowest ==
  \A r \in Rates \cup {InitRate} : effectiveRate(r) >= MinRate

----------------------------------------------------------------------------

NewTokenBucket ==
  /\ tokens = Burst * Unit
  /\ refillRate = InitRate
  /\ elapsed = 0

(* Mutant: lastRefill is left behind, so the same time is credited again.  *)
TryConsumeStaleClock(allowed) ==
  /\ allowed = (Refilled >= Unit)
  /\ tokens' = IF allowed THEN Refilled - Unit ELSE Refilled
  /\ UNCHANGED <<elapsed, refillRate>>

(* TryConsume refills first, whether or not it then grants a token.        *)
TryConsume(allowed) ==
  /\ allowed = (Refilled >= Unit)
  /\ tokens' = IF allowed THEN Refilled - Unit ELSE Refilled
  /\ elapsed' = 0
  /\ UNCHANGED refillRate

(* The wait TryConsume reports with a refusal, truncated to whole ticks as *)
(* time.Duration truncates to nanoseconds: it may be one tick short.       *)
WaitTime == (Unit - Refilled) \div effectiveRate(refillRate)

(* UpdateRate does not refill first: time already elapsed will be credited *)
(* at the new rate.                                                        *)
UpdateRate(r) ==
  /\ refillRate' = r
  /\ UNCHANGED <<tokens, elapsed>>

(* The observer Tokens() refills as well.                                  *)
Tokens ==
  /\ tokens' = Refilled
  /\ elapsed' = 0
  /\ UNCHANGED refillRate

Elapse ==
  /\ elapsed' = MinOf(elapsed + 1, MaxElapsed)
  /\ UNCHANGED <<tokens, refillRate>>

----------------------------------------------------------------------------

BucketNext ==
  \/ \E allowed \in BOOLEAN : TryConsume(allowed)
  \/ \E r \in Rates : UpdateRate(r)
  \/ Tokens
  \/ Elapse

BucketSpec == NewTokenBucket /\ [][BucketNext]_bucketVars

(* The bucket never holds more than its capacity and never goes into debt: *)
(* refill clamps at maxTokens (bucket.go:43) and TryConsume subtracts only *)
(* from a bucket holding a whole token (bucket.go:51).                     *)
BucketTypeOK ==
  /\ tokens \in 0 .. maxTokens
  /\ refillRate \in Rates \cup {InitRate}
  /\ elapsed \in 0 .. MaxElapsed

=============================================================================
