--------------------------- MODULE RateLimitProofs --------------------------
(***************************************************************************)
(* The rate-limiting algorithms, each on its own: the token bucket and     *)
(* what it grants in any window of time, for every rate, burst and         *)
(* throttle; the feed limiter, for every window, limit and set of keys;    *)
(* and the request queue in front of a bucket, for any number of requests, *)
(* any depth and any bucket.                                               *)
(***************************************************************************)
EXTENDS RequestQueue, TokenBucketWindow, FeedLimiter, FiniteSetTheorems, TLAPS

(* Multiplication by a natural number preserves order and distributes.     *)
LEMMA TimesMonotone ==
  ASSUME NEW a \in Int, NEW b \in Int, NEW c \in Nat, a <= b
  PROVE  a * c <= b * c
<1>1. (b - a) * c >= 0
  BY SMT
<1>2. (b - a) * c = b * c - a * c
  BY SMT
<1> QED
  BY <1>1, <1>2, SMT

(* A product of naturals is a natural.                                     *)
LEMMA TimesNat ==
  ASSUME NEW a \in Nat, NEW b \in Nat
  PROVE  a * b \in Nat
BY SMT

(* effectiveRate (bucket.go:32-38) never returns zero or less, whatever    *)
(* rate a response announced, so the division in TryConsume is defined.    *)
LEMMA EffectiveRatePositive ==
  ASSUME NEW r \in Int
  PROVE  effectiveRate(r) \in Nat \ {0}
<1>1. r * Throttle \in Int
  BY BucketConstants, SMT
<1> QED
  BY <1>1, BucketConstants, SMT DEF effectiveRate

(* The capacity is a natural number and holds the initial burst.           *)
LEMMA CapacityNat == maxTokens \in Nat /\ Burst * Unit <= maxTokens
<1>1. Burst * Unit \in Nat /\ InitRate * Unit \in Nat
  BY BucketConstants, TimesNat, Zenon
<1>2. CASE Burst <= 0
  <2>1. Burst * Unit = 0
    BY <1>2, BucketConstants, SMT
  <2> QED
    BY <1>1, <1>2, <2>1, BucketConstants, SMT DEF maxTokens, MaxOf
<1>3. CASE ~(Burst <= 0)
  BY <1>1, <1>3, BucketConstants, SMT DEF maxTokens
<1> QED
  BY <1>2, <1>3, Zenon

(* What refill (bucket.go:40-45) leaves is within the capacity, and at     *)
(* most the elapsed time's worth above what was there.                     *)
LEMMA RefilledBounds ==
  ASSUME BucketTypeOK
  PROVE  /\ Refilled \in 0 .. maxTokens
         /\ Refilled <= tokens + elapsed * effectiveRate(refillRate)
<1>1. effectiveRate(refillRate) \in Nat
  BY EffectiveRatePositive, BucketConstants DEF BucketTypeOK
<1>2. elapsed * effectiveRate(refillRate) \in Nat
  BY <1>1, TimesNat, BucketConstants DEF BucketTypeOK
<1> QED
  BY <1>2, CapacityNat, SMT DEF Refilled, MinOf, BucketTypeOK

----------------------------------------------------------------------------

(* The bucket's type is preserved by every operation on it.                *)
LEMMA BucketTypeStep ==
  ASSUME BucketTypeOK, [BucketNext]_bucketVars
  PROVE  BucketTypeOK'
<1> USE BucketConstants
<1>0. maxTokens \in Nat
  BY CapacityNat, Zenon
<1>1. ASSUME NEW allowed \in BOOLEAN, TryConsume(allowed)
      PROVE  BucketTypeOK'
  <2>0. Refilled \in 0 .. maxTokens
    BY RefilledBounds, Zenon
  <2>1. tokens' \in 0 .. maxTokens
    <3>1. CASE allowed
      <4>1. Refilled >= Unit /\ tokens' = Refilled - Unit
        BY <1>1, <3>1, Zenon DEF TryConsume
      <4> QED
        BY <1>0, <2>0, <4>1, SMT
    <3>2. CASE ~allowed
      BY <1>1, <2>0, <3>2, Zenon DEF TryConsume
    <3> QED
      BY <3>1, <3>2, Zenon
  <2> QED
    BY <2>1, <1>1, SMT DEF TryConsume, BucketTypeOK
<1>2. ASSUME NEW r \in Rates, UpdateRate(r)
      PROVE  BucketTypeOK'
  BY <1>2, Zenon DEF UpdateRate, BucketTypeOK
<1>3. CASE Tokens
  BY <1>3, RefilledBounds, SMT DEF Tokens, BucketTypeOK
<1>4. CASE Elapse
  BY <1>4, SMT DEF Elapse, MinOf, BucketTypeOK
<1>5. CASE UNCHANGED bucketVars
  BY <1>5, Zenon DEF bucketVars, BucketTypeOK
<1> QED
  BY <1>1, <1>2, <1>3, <1>4, <1>5, Zenon DEF BucketNext

(* A new bucket (bucket.go:18-30) has its type.                            *)
LEMMA BucketTypeInit == NewTokenBucket => BucketTypeOK
<1>1. Burst * Unit \in Nat
  BY BucketConstants, TimesNat, Zenon
<1> QED
  BY <1>1, CapacityNat, BucketConstants, SMT DEF NewTokenBucket, BucketTypeOK

(* The bucket never overflows its capacity and never goes into debt.       *)
THEOREM BucketTypeCorrect == BucketSpec => []BucketTypeOK
<1>1. NewTokenBucket => BucketTypeOK
  BY BucketTypeInit, Zenon
<1>2. BucketTypeOK /\ [BucketNext]_bucketVars => BucketTypeOK'
  BY BucketTypeStep, Zenon
<1> QED
  BY <1>1, <1>2, PTL DEF BucketSpec

----------------------------------------------------------------------------

(* The bucket: its budget covers what a window has used.                   *)

(* Every step of the windowed bucket is a step of the bucket.              *)
LEMMA WindowStepIsBucketStep ==
  ASSUME [WindowNext]_windowVars
  PROVE  [BucketNext]_bucketVars
BY Zenon DEF WindowNext, OpenWindow, Consume, Observe, WindowTick, windowVars, BucketNext

(* The windowed bucket is type correct.                                    *)
THEOREM WindowTypeCorrect == WindowSpec => []WindowTypeOK
<1>1. WindowInit => WindowTypeOK
  BY BucketTypeInit, WindowConstants, SMT DEF WindowInit, WindowTypeOK
<1>2. WindowTypeOK /\ [WindowNext]_windowVars => WindowTypeOK'
  <2> SUFFICES ASSUME WindowTypeOK, [WindowNext]_windowVars
               PROVE  WindowTypeOK'
    BY Zenon
  <2>1. BucketTypeOK'
    BY BucketTypeStep, WindowStepIsBucketStep, Zenon DEF WindowTypeOK
  <2>2. span' \in 0 .. MaxSpan /\ used' \in Nat
    BY WindowConstants, SMT DEF WindowTypeOK, WindowNext, OpenWindow, Consume,
       Observe, WindowTick, windowVars
  <2> QED
    BY <2>1, <2>2, Zenon DEF WindowTypeOK
<1> QED
  BY <1>1, <1>2, PTL DEF WindowSpec

(* A grant or a refill never spends more than the elapsed time earned.     *)
LEMMA RefilledWithinBudget ==
  ASSUME WindowTypeOK, elapsed <= span,
         used * Unit + tokens <= maxTokens + (span - elapsed) * MaxRate
  PROVE  used * Unit + Refilled <= maxTokens + span * MaxRate
<1>1. effectiveRate(refillRate) \in Nat /\ effectiveRate(refillRate) <= MaxRate
  BY EffectiveRatePositive, WindowConstants, BucketConstants
     DEF WindowTypeOK, BucketTypeOK
<1>2. elapsed \in Nat /\ span \in Nat /\ used \in Nat /\ tokens \in Nat
      /\ MaxRate \in Nat /\ Unit \in Nat
  BY CapacityNat, BucketConstants, WindowConstants, SMT
     DEF WindowTypeOK, BucketTypeOK
<1> DEFINE rate == effectiveRate(refillRate)
<1>3. rate * elapsed <= MaxRate * elapsed
  BY <1>1, <1>2, TimesMonotone
<1>4. elapsed * rate = rate * elapsed /\ rate * elapsed \in Nat
  BY <1>1, <1>2, SMT
<1>5. (span - elapsed) * MaxRate = span * MaxRate - MaxRate * elapsed
  BY <1>2, SMT
<1>6. used * Unit \in Nat /\ span * MaxRate \in Nat /\ MaxRate * elapsed \in Nat
  BY <1>2, TimesNat, Zenon
<1>7. Refilled <= tokens + elapsed * rate /\ Refilled \in Int
  BY RefilledBounds, CapacityNat, SMT DEF WindowTypeOK
<1> HIDE DEF rate
<1> QED
  BY <1>2, <1>3, <1>4, <1>5, <1>6, <1>7, CapacityNat, SMT

(* The inductive strengthening of the window bound.                        *)
THEOREM WindowBudgetHolds == WindowSpec => []WindowBudget
<1>1. WindowInit => WindowBudget
  BY Zenon DEF WindowInit, WindowBudget
<1>2. WindowTypeOK /\ WindowTypeOK' /\ WindowBudget /\ [WindowNext]_windowVars
        => WindowBudget'
  <2> SUFFICES ASSUME WindowTypeOK, WindowTypeOK', WindowBudget,
                      [WindowNext]_windowVars
               PROVE  WindowBudget'
    BY Zenon
  <2>0. /\ elapsed \in Nat /\ span \in Nat /\ used \in Nat /\ tokens \in Nat
        /\ MaxRate \in Nat /\ Unit \in Nat /\ maxTokens \in Nat
    BY CapacityNat, BucketConstants, WindowConstants, SMT
       DEF WindowTypeOK, BucketTypeOK
  <2>a. used * Unit \in Nat /\ span * MaxRate \in Nat
    BY <2>0, TimesNat, Zenon
  <2>b. Refilled \in 0 .. maxTokens
    BY RefilledBounds, Zenon DEF WindowTypeOK
  <2>1. CASE OpenWindow
    BY <2>1, Zenon DEF OpenWindow, WindowBudget
  <2>2. ASSUME NEW allowed \in BOOLEAN, Consume(allowed)
        PROVE  WindowBudget'
    <3>1. CASE ~allowed /\ used = 0
      BY <2>2, <3>1, Zenon DEF Consume, WindowBudget
    <3>2. used * Unit + Refilled <= maxTokens + span * MaxRate
      <4>1. CASE used = 0
        <5>1. used * Unit = 0
          BY <2>0, <4>1, SMT
        <5> QED
          BY <5>1, <2>0, <2>a, <2>b, SMT
      <4>2. CASE used # 0
        BY <4>2, RefilledWithinBudget, Zenon DEF WindowBudget
      <4> QED
        BY <4>1, <4>2, Zenon
    <3>3. (span' - elapsed') * MaxRate = span * MaxRate
      BY <2>0, <2>2, SMT DEF Consume, TryConsume
    <3>4. CASE allowed
      <4>1. (used + 1) * Unit = used * Unit + Unit
        BY <2>0, SMT
      <4>2. used' * Unit + tokens' = used * Unit + Refilled
        BY <2>0, <2>a, <2>b, <2>2, <3>4, <4>1, SMT DEF Consume, TryConsume
      <4>3. elapsed' <= span'
        BY <2>0, <2>2, SMT DEF Consume, TryConsume
      <4> QED
        BY <3>2, <3>3, <4>2, <4>3, Zenon DEF WindowBudget, maxTokens
    <3>5. CASE ~allowed /\ used # 0
      <4>1. used' * Unit + tokens' = used * Unit + Refilled
        BY <2>2, <3>5, Zenon DEF Consume, TryConsume
      <4>2. elapsed' <= span'
        BY <2>0, <2>2, SMT DEF Consume, TryConsume
      <4> QED
        BY <3>2, <3>3, <4>1, <4>2, Zenon DEF WindowBudget, maxTokens
    <3> QED
      BY <3>1, <3>4, <3>5, Zenon
  <2>3. CASE Observe
    <3>1. CASE used = 0
      BY <2>3, <3>1, Zenon DEF Observe, WindowBudget
    <3>2. CASE used # 0 /\ Tokens
      <4>1. used * Unit + Refilled <= maxTokens + span * MaxRate
        BY <3>2, RefilledWithinBudget, Zenon DEF WindowBudget
      <4>2. (span' - elapsed') * MaxRate = span * MaxRate /\ elapsed' <= span'
        BY <2>0, <2>3, <3>2, SMT DEF Observe, Tokens
      <4>3. used' * Unit + tokens' = used * Unit + Refilled
        BY <2>3, <3>2, Zenon DEF Observe, Tokens
      <4> QED
        BY <4>1, <4>2, <4>3, Zenon DEF WindowBudget, maxTokens
    <3>3. ASSUME NEW r \in Rates, UpdateRate(r)
          PROVE  WindowBudget'
      BY <2>3, <3>3, Zenon DEF Observe, UpdateRate, WindowBudget, maxTokens
    <3> QED
      BY <2>3, <3>1, <3>2, <3>3, Zenon DEF Observe
  <2>4. CASE WindowTick
    <3>1. CASE used = 0
      BY <2>4, <3>1, Zenon DEF WindowTick, WindowBudget
    <3>2. CASE used # 0
      <4>1. /\ elapsed' \in Nat /\ span' \in Nat /\ elapsed' <= elapsed + 1
            /\ span' = span + 1 /\ elapsed' <= span'
        BY <2>0, <2>4, <3>2, BucketConstants, SMT
           DEF WindowTick, Elapse, MinOf, WindowBudget, WindowTypeOK, BucketTypeOK
      <4>a. span - elapsed \in Int /\ span' - elapsed' \in Int
        BY <2>0, <4>1
      <4>b. span - elapsed <= span' - elapsed'
        <5>1. \A s, e, e1 \in Nat : e1 <= e + 1 => s - e <= (s + 1) - e1
          BY SMT
        <5> QED
          BY <2>0, <4>1, <5>1, Zenon
      <4>2. (span - elapsed) * MaxRate <= (span' - elapsed') * MaxRate
        <5> DEFINE before == span - elapsed
                   after  == span' - elapsed'
        <5> HIDE DEF before, after
        <5>1. before \in Int /\ after \in Int /\ before <= after
          BY <4>a, <4>b, Zenon DEF before, after
        <5>2. before * MaxRate <= after * MaxRate
          BY <2>0, <5>1, TimesMonotone, Zenon
        <5> QED
          BY <5>2, Zenon DEF before, after
      <4>3. (span - elapsed) * MaxRate \in Int /\ (span' - elapsed') * MaxRate \in Int
        BY <2>0, <4>1, SMT
      <4>4. used' * Unit + tokens' = used * Unit + tokens
        BY <2>4, Zenon DEF WindowTick, Elapse
      <4>5. used' * Unit + tokens' <= maxTokens + (span' - elapsed') * MaxRate
        BY <2>0, <2>a, <3>2, <4>2, <4>3, <4>4, SMT DEF WindowBudget
      <4> QED
        BY <4>1, <4>5, Zenon DEF WindowBudget, maxTokens
    <3> QED
      BY <3>1, <3>2, Zenon
  <2>5. CASE UNCHANGED windowVars
    BY <2>5, Zenon DEF windowVars, bucketVars, WindowBudget, maxTokens
  <2> QED
    BY <2>1, <2>2, <2>3, <2>4, <2>5, Zenon DEF WindowNext
<1> QED
  BY <1>1, <1>2, WindowTypeCorrect, PTL DEF WindowSpec

(* For every burst, rate and throttle: no window of time sees more grants  *)
(* than the capacity plus what the largest rate earns over the window.     *)
THEOREM WindowBoundHolds == WindowSpec => []WindowBound
<1>1. WindowTypeOK /\ WindowBudget => WindowBound
  <2> SUFFICES ASSUME WindowTypeOK, WindowBudget
               PROVE  WindowBound
    BY Zenon
  <2>0. /\ elapsed \in Nat /\ span \in Nat /\ used \in Nat /\ tokens \in Nat
        /\ MaxRate \in Nat /\ Unit \in Nat /\ maxTokens \in Nat
    BY CapacityNat, BucketConstants, WindowConstants, SMT
       DEF WindowTypeOK, BucketTypeOK
  <2>1. used * Unit \in Nat /\ span * MaxRate \in Nat
    BY <2>0, TimesNat, Zenon
  <2>2. CASE used = 0
    <3>1. used * Unit = 0
      BY <2>0, <2>2, SMT
    <3> QED
      BY <2>0, <2>1, <3>1, SMT DEF WindowBound
  <2>3. CASE used # 0
    <3>1. (span - elapsed) * MaxRate <= span * MaxRate
      BY <2>0, TimesMonotone
    <3>2. (span - elapsed) * MaxRate \in Int
      BY <2>0, SMT
    <3> QED
      BY <2>0, <2>1, <2>3, <3>1, <3>2, SMT DEF WindowBound, WindowBudget
  <2> QED
    BY <2>2, <2>3, Zenon
<1> QED
  BY <1>1, WindowTypeCorrect, WindowBudgetHolds, PTL

----------------------------------------------------------------------------
(* The feed limiter forgets what it pruned; the invariant says that it     *)
(* never forgot a submission which still counts.                           *)

Submissions == [id : Nat, at : Nat]

FeedTypes ==
  /\ now \in Nat
  /\ feedEntries \in [FeedKeys -> SUBSET Submissions]
  /\ submitted \in [FeedKeys -> SUBSET Submissions]

(* Kept entries were submitted, at most maxPerWin of them, and everything  *)
(* submitted within the window is kept.                                    *)
NothingForgotten ==
  \A k \in FeedKeys :
    /\ IsFiniteSet(submitted[k])
    /\ \A e \in submitted[k] : e.at <= now
    /\ IsFiniteSet(feedEntries[k])
    /\ Cardinality(feedEntries[k]) <= maxPerWin
    /\ \A e \in submitted[k] : now - e.at < window => e \in feedEntries[k]

FeedInv == FeedTypes /\ NothingForgotten

(* What Allow prunes to is a finite part of the entries, no larger.        *)
LEMMA ValidFacts ==
  ASSUME FeedInv, NEW k \in FeedKeys
  PROVE  /\ Valid(k) \subseteq feedEntries[k]
         /\ IsFiniteSet(Valid(k))
         /\ Cardinality(Valid(k)) \in Nat
         /\ Cardinality(Valid(k)) <= maxPerWin
<1>1. Valid(k) \subseteq feedEntries[k]
  BY Zenon DEF Valid
<1>2. IsFiniteSet(feedEntries[k]) /\ Cardinality(feedEntries[k]) <= maxPerWin
  BY Zenon DEF FeedInv, NothingForgotten
<1>3. IsFiniteSet(Valid(k)) /\ Cardinality(Valid(k)) <= Cardinality(feedEntries[k])
  BY <1>1, <1>2, FS_Subset, Zenon
<1>4. Cardinality(Valid(k)) \in Nat /\ Cardinality(feedEntries[k]) \in Nat
  BY <1>2, <1>3, FS_CardinalityType, Zenon
<1>5. Cardinality(Valid(k)) <= maxPerWin
  BY <1>2, <1>3, <1>4, FeedConstants
<1> QED BY <1>1, <1>3, <1>4, <1>5, Zenon

(* The limiter starts empty.                                               *)
LEMMA FeedInitInv == FeedInit => FeedInv
<1> SUFFICES ASSUME FeedInit PROVE FeedInv
  BY Zenon
<1>1. FeedTypes
  BY Zenon DEF FeedInit, FeedTypes
<1>2. IsFiniteSet({}) /\ Cardinality({}) = 0
  BY FS_EmptySet, Zenon
<1>3. NothingForgotten
  BY <1>2, FeedConstants DEF FeedInit, NothingForgotten
<1> QED BY <1>1, <1>3, Zenon DEF FeedInv

(* A call of Allow keeps the invariant: what it prunes no longer counts,   *)
(* and it adds an entry only below the limit.                              *)
LEMMA AllowInv ==
  ASSUME FeedInv, NEW k \in FeedKeys, Allow(k)
  PROVE  FeedInv'
<1> DEFINE new == [id |-> Cardinality(submitted[k]), at |-> now]
<1> USE DEF FeedInv
<1>v. /\ Valid(k) \subseteq feedEntries[k] /\ IsFiniteSet(Valid(k))
      /\ Cardinality(Valid(k)) \in Nat /\ Cardinality(Valid(k)) <= maxPerWin
  BY ValidFacts, Zenon
<1>n. new \in Submissions
  <2>1. IsFiniteSet(submitted[k])
    BY Zenon DEF NothingForgotten
  <2>2. Cardinality(submitted[k]) \in Nat
    BY <2>1, FS_CardinalityType, Zenon
  <2> QED BY <2>2, Zenon DEF FeedTypes, Submissions
<1>k. \A e \in submitted[k] : now - e.at < window => e \in Valid(k)
  BY Zenon DEF NothingForgotten, Valid
<1>1. CASE Cardinality(Valid(k)) >= maxPerWin
           /\ feedEntries' = [feedEntries EXCEPT ![k] = Valid(k)] /\ UNCHANGED <<now, submitted>>
  <2>1. FeedTypes'
    BY <1>1, <1>v, Zenon DEF FeedTypes
  <2>2. ASSUME NEW j \in FeedKeys
        PROVE  /\ feedEntries'[j] = IF j = k THEN Valid(k) ELSE feedEntries[j]
               /\ submitted'[j] = submitted[j] /\ now' = now
    BY <1>1, Zenon DEF FeedTypes
  <2>3. NothingForgotten'
    BY <2>2, <1>v, <1>k, Zenon DEF NothingForgotten
  <2> QED BY <2>1, <2>3, Zenon
<1>2. CASE /\ Cardinality(Valid(k)) < maxPerWin
           /\ feedEntries' = [feedEntries EXCEPT ![k] = Valid(k) \cup {new}]
           /\ submitted' = [submitted EXCEPT ![k] = @ \cup {new}]
           /\ UNCHANGED now
  <2>1. FeedTypes'
    BY <1>2, <1>v, <1>n, Zenon DEF FeedTypes
  <2>2. ASSUME NEW j \in FeedKeys
        PROVE  /\ feedEntries'[j] = IF j = k THEN Valid(k) \cup {new} ELSE feedEntries[j]
               /\ submitted'[j] = IF j = k THEN submitted[k] \cup {new} ELSE submitted[j]
               /\ now' = now
    BY <1>2, Zenon DEF FeedTypes
  <2>3. /\ IsFiniteSet(Valid(k) \cup {new})
        /\ Cardinality(Valid(k) \cup {new}) <= Cardinality(Valid(k)) + 1
    <3>1. /\ IsFiniteSet(Valid(k) \cup {new})
          /\ Cardinality(Valid(k) \cup {new}) =
               IF new \in Valid(k) THEN Cardinality(Valid(k)) ELSE Cardinality(Valid(k)) + 1
      BY <1>v, FS_AddElement, Zenon
    <3> QED BY <3>1, <1>v
  <2>4. Cardinality(Valid(k) \cup {new}) <= maxPerWin
    <3>1. Cardinality(Valid(k) \cup {new}) \in Nat
      BY <2>3, FS_CardinalityType, Zenon
    <3> QED BY <2>3, <3>1, <1>2, <1>v, FeedConstants
  <2>5. IsFiniteSet(submitted[k] \cup {new})
    <3>1. IsFiniteSet(submitted[k])
      BY Zenon DEF NothingForgotten
    <3> QED BY <3>1, FS_AddElement, Zenon
  <2>6. new.at = now
    BY Zenon
  <2> HIDE DEF new
  <2>7. \A e \in submitted[k] \cup {new} : e.at <= now
    BY <2>6 DEF NothingForgotten, FeedTypes
  <2>8. \A e \in submitted[k] \cup {new} : now - e.at < window => e \in Valid(k) \cup {new}
    BY <1>k, Zenon
  <2>9. NothingForgotten'
    BY <2>2, <2>3, <2>4, <2>5, <2>7, <2>8, Zenon DEF NothingForgotten
  <2> QED BY <2>1, <2>9, Zenon
<1> QED BY <1>1, <1>2, Zenon DEF Allow

(* As time passes fewer submissions count.                                 *)
LEMMA FeedTickInv ==
  ASSUME FeedInv, FeedTick
  PROVE  FeedInv'
<1> USE DEF FeedInv
<1>1. FeedTypes'
  BY DEF FeedTick, FeedTypes
<1>2. now' = now + 1 /\ feedEntries' = feedEntries /\ submitted' = submitted
  BY Zenon DEF FeedTick
<1>3. \A k \in FeedKeys : \A e \in submitted[k] : e.at \in Nat
  BY DEF FeedTypes, Submissions
<1>4. NothingForgotten'
  BY <1>2, <1>3, FeedConstants DEF NothingForgotten, FeedTypes
<1> QED BY <1>1, <1>4, Zenon

(* The limit is kept because what counts is part of the entries.           *)
LEMMA FeedInvLimits == FeedInv => WindowLimit
<1> SUFFICES ASSUME FeedInv, NEW k \in FeedKeys
             PROVE  Cardinality({e \in submitted[k] : now - e.at < window}) <= maxPerWin
  BY Zenon DEF WindowLimit
<1> DEFINE recent == {e \in submitted[k] : now - e.at < window}
<1>1. recent \subseteq feedEntries[k]
  BY Zenon DEF FeedInv, NothingForgotten
<1>2. IsFiniteSet(feedEntries[k]) /\ Cardinality(feedEntries[k]) <= maxPerWin
  BY Zenon DEF FeedInv, NothingForgotten
<1>3. IsFiniteSet(recent) /\ Cardinality(recent) <= Cardinality(feedEntries[k])
  BY <1>1, <1>2, FS_Subset, Zenon
<1>4. Cardinality(recent) \in Nat /\ Cardinality(feedEntries[k]) \in Nat
  BY <1>2, <1>3, FS_CardinalityType, Zenon
<1> QED BY <1>2, <1>3, <1>4, FeedConstants

(* No window of time sees more submissions of a merchant in a region than  *)
(* FeedLimiter.Allow is set to let through, whatever the window, the       *)
(* limit and the order of calls.                                           *)
THEOREM FeedWindow == FeedSpec => []WindowLimit
<1>1. FeedInv /\ [FeedNext]_feedVars => FeedInv'
  <2> SUFFICES ASSUME FeedInv, [FeedNext]_feedVars PROVE FeedInv'
    BY Zenon
  <2>1. CASE FeedTick
    BY <2>1, FeedTickInv, Zenon
  <2>2. ASSUME NEW k \in FeedKeys, Allow(k) PROVE FeedInv'
    BY <2>2, AllowInv, Zenon
  <2>3. CASE UNCHANGED feedVars
    BY <2>3, Zenon DEF FeedInv, FeedTypes, NothingForgotten, feedVars
  <2> QED BY <2>1, <2>2, <2>3, Zenon DEF FeedNext
<1> QED BY <1>1, FeedInitInv, FeedInvLimits, PTL DEF FeedSpec

----------------------------------------------------------------------------

(* Every step of the queue is a step of its bucket.                        *)
LEMMA QueueStepIsBucketStep ==
  ASSUME [Next]_vars
  PROVE  [BucketNext]_bucketVars
BY Zenon DEF Next, RequestStep, DispatcherStep, TryDirect, Enqueue, Notify, Wake,
   remove, Cancel, Dispatch, Close, Resume, Stop, Respond, Tick, vars, BucketNext

(* The wait a refusal reports (bucket.go:55-57) is a natural number.       *)
LEMMA WaitTimeNat ==
  ASSUME BucketTypeOK, TryConsume(FALSE)
  PROVE  MinOf(WaitTime, MaxWait) \in Nat
<1> DEFINE rate == effectiveRate(refillRate)
<1>1. rate \in Nat \ {0}
  BY EffectiveRatePositive, BucketConstants DEF BucketTypeOK
<1>2. Unit - Refilled \in Nat
  BY RefilledBounds, CapacityNat, BucketConstants, SMT DEF TryConsume
<1>3. \A a \in Nat, b \in Nat \ {0} : a \div b \in Nat
  BY SMT
<1> HIDE DEF rate
<1>4. (Unit - Refilled) \div rate \in Nat
  BY <1>1, <1>2, <1>3, Zenon
<1> USE DEF rate
<1> QED
  BY <1>4, QueueConstants, SMT DEF WaitTime, MinOf

(* The queue is type correct.                                              *)
LEMMA TypeStep ==
  ASSUME TypeOK, Accounting, [Next]_vars
  PROVE  TypeOK'
<1> USE DEF TypeOK, Goto, callerVars, heapVars, channelVars, dispatcherVars
<1>0. BucketTypeOK'
  BY QueueStepIsBucketStep, BucketTypeStep, Zenon
<1>1. ASSUME NEW r \in Requests, TryDirect(r)
      PROVE  TypeOK'
  <2>1. pc' \in [Requests -> Waiting \cup Admitted \cup Refused]
    BY <1>1, Zenon DEF TryDirect, Waiting, Admitted, Refused
  <2>2. cost' = [cost EXCEPT ![r] = cost[r] + 1] \/ cost' = cost
    BY <1>1, Zenon DEF TryDirect
  <2>3. cost' \in [Requests -> Nat]
    BY <2>2
  <2> QED
    BY <1>0, <1>1, <2>1, <2>3, Zenon DEF TryDirect
<1>2. ASSUME NEW r \in Requests, NEW p \in Priorities,
             NEW t \in {clock, clock + 1}, Enqueue(r, p, t)
      PROVE  TypeOK'
  BY <1>0, <1>2, QueueConstants DEF Enqueue, Waiting, Admitted, Refused
<1>3. ASSUME NEW r \in Requests, Notify(r)
      PROVE  TypeOK'
  BY <1>0, <1>3, Zenon DEF Notify, Waiting, Admitted, Refused
<1>4. ASSUME NEW r \in Requests, Wake(r)
      PROVE  TypeOK'
  BY <1>0, <1>4, Zenon DEF Wake, Waiting, Admitted, Refused
<1>5. ASSUME NEW r \in Requests, remove(r)
      PROVE  TypeOK'
  BY <1>0, <1>5, Zenon DEF remove, Waiting, Admitted, Refused
<1>6. ASSUME NEW r \in Requests, Cancel(r)
      PROVE  TypeOK'
  BY <1>0, <1>6, Zenon DEF Cancel
<1>7. CASE Dispatch
  <2>1. CASE heap = {} /\ dpc' = "idle"
             /\ UNCHANGED <<bucketVars, heapVars, inHand, timer, cost>>
    BY <1>0, <1>7, <2>1, Zenon DEF Dispatch
  <2>2. ASSUME TryConsume(TRUE), NEW r \in Tops, heap' = heap \ {r},
               inHand' = r, cost' = [cost EXCEPT ![r] = @ + 1], dpc' = "close",
               UNCHANGED <<priority, enqueuedAt, clock, late, timer>>
        PROVE  TypeOK'
    BY <1>0, <1>7, <2>2 DEF Dispatch, Tops
  <2>3. CASE TryConsume(FALSE) /\ timer' = MinOf(WaitTime, MaxWait)
             /\ dpc' = "sleep" /\ UNCHANGED <<heapVars, inHand, cost>>
    BY <1>0, <1>7, <2>3, WaitTimeNat, Zenon DEF Dispatch
  <2> QED
    BY <1>7, <2>1, <2>2, <2>3, Zenon DEF Dispatch
<1>8. CASE Close
  BY <1>0, <1>8, Zenon DEF Close, Accounting
<1>9. CASE Resume
  BY <1>0, <1>9, Zenon DEF Resume
<1>10. CASE Stop
  BY <1>0, <1>10, Zenon DEF Stop
<1>11. CASE Respond
  BY <1>0, <1>11, Zenon DEF Respond
<1>12. CASE Tick
  BY <1>0, <1>12 DEF Tick, MaxOf
<1>13. CASE UNCHANGED vars
  BY <1>0, <1>13, Zenon DEF vars
<1> HIDE DEF TypeOK
<1> QED
  BY <1>1, <1>2, <1>3, <1>4, <1>5, <1>6, <1>7, <1>8, <1>9, <1>10, <1>11,
     <1>12, <1>13, Zenon DEF Next, RequestStep, DispatcherStep

(* Every step keeps the accounts: where a request is, what it has cost and *)
(* why it gave up.                                                         *)
LEMMA AccountingStep ==
  ASSUME TypeOK, Accounting, [Next]_vars
  PROVE  Accounting'
<1> USE DEF TypeOK, Accounting, Goto, callerVars, heapVars, channelVars,
            dispatcherVars
<1>1. ASSUME NEW r \in Requests, TryDirect(r)
      PROVE  Accounting'
  <2>1. CASE Goto(r, "new", "direct") /\ cost' = [cost EXCEPT ![r] = @ + 1]
    BY <1>1, <2>1 DEF TryDirect
  <2>2. CASE Goto(r, "new", "enqueue") /\ UNCHANGED cost
    BY <1>1, <2>2, Zenon DEF TryDirect
  <2> QED
    BY <1>1, <2>1, <2>2, Zenon DEF TryDirect
<1>2. ASSUME NEW r \in Requests, NEW p \in Priorities,
             NEW t \in {clock, clock + 1}, Enqueue(r, p, t)
      PROVE  Accounting'
  <2>1. CASE Goto(r, "enqueue", "full") /\ UNCHANGED heapVars
    BY <1>2, <2>1, Zenon DEF Enqueue
  <2>2. CASE Goto(r, "enqueue", "notify") /\ heap' = heap \cup {r}
    BY <1>2, <2>2, Zenon DEF Enqueue
  <2> QED
    BY <1>2, <2>1, <2>2, Zenon DEF Enqueue
<1>3. ASSUME NEW r \in Requests, Notify(r)
      PROVE  Accounting'
  BY <1>3, Zenon DEF Notify
<1>4. ASSUME NEW r \in Requests, Wake(r)
      PROVE  Accounting'
  BY <1>4 DEF Wake
<1>5. ASSUME NEW r \in Requests, remove(r)
      PROVE  Accounting'
  BY <1>5, Zenon DEF remove
<1>6. ASSUME NEW r \in Requests, Cancel(r)
      PROVE  Accounting'
  BY <1>6, Zenon DEF Cancel
<1>7. CASE Dispatch
  <2>1. CASE UNCHANGED <<heap, inHand, cost>> /\ dpc' \in {"idle", "sleep"}
    BY <1>7, <2>1, Zenon DEF Dispatch
  <2>2. ASSUME NEW r \in Tops, heap' = heap \ {r}, inHand' = r,
               cost' = [cost EXCEPT ![r] = @ + 1], dpc' = "close"
        PROVE  Accounting'
    <3>1. r \in Requests /\ r \in heap /\ r # None
      BY <2>2, QueueConstants, Zenon DEF Tops
    <3>2. /\ UNCHANGED <<pc, ctxDone, ready, done>>
          /\ inHand = None
      BY <1>7, Zenon DEF Dispatch
    <3>3. cost[r] = 0 /\ r \notin ready
      BY <3>1
    <3>4. /\ cost'[r] = 1
          /\ \A s \in Requests : s # r => cost'[s] = cost[s]
      BY <2>2, <3>1, <3>3
    <3>5. dpc' = "close" /\ inHand' # None /\ inHand' \notin ready'
      BY <2>2, <3>1, <3>2, <3>3, Zenon
    <3>6. ASSUME NEW s \in Requests, s # r
          PROVE  /\ s \in heap' <=> s \in heap
                 /\ s # inHand'
                 /\ s # inHand
      BY <2>2, <3>2, <3>6, QueueConstants, Zenon
    <3> QED
      BY <2>2, <3>1, <3>2, <3>3, <3>4, <3>5, <3>6
  <2> QED
    BY <1>7, <2>1, <2>2, Zenon DEF Dispatch
<1>8. CASE Close
  BY <1>8, QueueConstants, Zenon DEF Close
<1>9. CASE Resume
  BY <1>9, Zenon DEF Resume
<1>10. CASE Stop \/ Respond \/ Tick \/ UNCHANGED vars
  BY <1>10, Zenon DEF Stop, Respond, Tick, vars
<1> HIDE DEF TypeOK, Accounting
<1> QED
  BY <1>1, <1>2, <1>3, <1>4, <1>5, <1>6, <1>7, <1>8, <1>9, <1>10, Zenon
     DEF Next, RequestStep, DispatcherStep

(* Types and accounts together are inductive: the dispatcher releases only *)
(* what it has popped.                                                     *)
LEMMA TypeAndAccounting == Spec => [](TypeOK /\ Accounting)
<1>1. Init => TypeOK /\ Accounting
  <2> SUFFICES ASSUME Init PROVE TypeOK /\ Accounting
    BY Zenon
  <2>1. TypeOK
    <3>1. BucketTypeOK
      BY BucketTypeInit, Zenon DEF Init
    <3>2. /\ pc \in [Requests -> Waiting \cup Admitted \cup Refused]
          /\ priority \in [Requests -> 0 .. 2]
          /\ enqueuedAt \in [Requests -> Nat]
          /\ cost \in [Requests -> Nat]
      BY SMT DEF Init, NewRequestQueue, Waiting
    <3>3. notify \in BOOLEAN /\ done \in BOOLEAN
      BY Zenon DEF Init, NewRequestQueue
    <3> QED
      BY <3>1, <3>2, <3>3, Zenon DEF Init, NewRequestQueue, TypeOK
  <2>2. Accounting
    BY QueueConstants, Zenon DEF Init, NewRequestQueue, Accounting
  <2> QED
    BY <2>1, <2>2, Zenon
<1>2. TypeOK /\ Accounting /\ [Next]_vars => (TypeOK /\ Accounting)'
  BY TypeStep, AccountingStep, Zenon
<1> QED
  BY <1>1, <1>2, PTL DEF Spec

(* Bucket, queue, channels and goroutines always have their types.         *)
THEOREM QueueTypeCorrect == Spec => []TypeOK
BY TypeAndAccounting, PTL

(* No request is ever lost or in two places between the heap, the          *)
(* dispatcher and its ready channel.                                       *)
THEOREM AccountingHolds == Spec => []Accounting
BY TypeAndAccounting, PTL

(* Every admission is paid for by exactly one token, and a token is wasted *)
(* only on a request that was cancelled or stopped.                        *)
THEOREM OneTokenEachHolds == Spec => []OneTokenEach
<1>1. TypeOK /\ Accounting => OneTokenEach
  BY DEF TypeOK, Accounting, OneTokenEach, Admitted, Refused
<1> QED
  BY <1>1, TypeAndAccounting, PTL

----------------------------------------------------------------------------

(* The dispatcher never sleeps while a request waits and no signal is      *)
(* pending or on its way.                                                  *)
THEOREM NoLostWakeupHolds == Spec => []NoLostWakeup
<1>1. Init => NoLostWakeup
  BY Zenon DEF Init, NewRequestQueue, NoLostWakeup
<1>2. TypeOK /\ NoLostWakeup /\ [Next]_vars => NoLostWakeup'
  <2> SUFFICES ASSUME TypeOK, NoLostWakeup, [Next]_vars
               PROVE  NoLostWakeup'
    BY Zenon
  <2> USE DEF TypeOK, NoLostWakeup, Goto, callerVars, heapVars, channelVars,
              dispatcherVars
  <2>1. ASSUME NEW r \in Requests,
               TryDirect(r) \/ Wake(r) \/ remove(r) \/ Cancel(r)
        PROVE  NoLostWakeup'
    <3>1. /\ UNCHANGED <<dpc, notify>>
          /\ heap' \subseteq heap
          /\ \A s \in Requests : pc[s] = "notify" => pc'[s] = "notify"
      BY <2>1, Zenon DEF TryDirect, Wake, remove, Cancel
    <3> QED
      BY <3>1, Zenon
  <2>2. ASSUME NEW r \in Requests, NEW p \in Priorities,
               NEW t \in {clock, clock + 1}, Enqueue(r, p, t)
        PROVE  NoLostWakeup'
    BY <2>2, Zenon DEF Enqueue
  <2>3. ASSUME NEW r \in Requests, Notify(r)
        PROVE  NoLostWakeup'
    BY <2>3, Zenon DEF Notify
  <2>4. CASE DispatcherStep
    BY <2>4, Zenon DEF DispatcherStep, Dispatch, Close, Resume
  <2>5. CASE Stop \/ Respond \/ Tick \/ UNCHANGED vars
    BY <2>5, Zenon DEF Stop, Respond, Tick, vars
  <2> HIDE DEF TypeOK, NoLostWakeup
  <2> QED
    BY <2>1, <2>2, <2>3, <2>4, <2>5, Zenon DEF Next, RequestStep
<1> QED
  BY <1>1, <1>2, QueueTypeCorrect, PTL DEF Spec

(* The heap never holds more than queueMaxDepth requests.                  *)
THEOREM DepthBoundedHolds == Spec => []DepthBounded
<1>1. Init => DepthBounded
  BY FS_EmptySet, QueueConstants DEF Init, NewRequestQueue, DepthBounded
<1>2. TypeOK /\ DepthBounded /\ [Next]_vars => DepthBounded'
  <2> SUFFICES ASSUME TypeOK, DepthBounded, [Next]_vars
               PROVE  DepthBounded'
    BY Zenon
  <2>0. IsFiniteSet(heap) /\ Cardinality(heap) \in Nat
    BY FS_Subset, FS_CardinalityType, QueueConstants, Zenon DEF TypeOK
  <2>1. ASSUME NEW r \in Requests, NEW p \in Priorities,
               NEW t \in {clock, clock + 1}, Enqueue(r, p, t)
        PROVE  DepthBounded'
    <3>1. CASE Cardinality(heap) < MaxDepth /\ heap' = heap \cup {r}
      <4>1. Cardinality(heap \cup {r}) <= Cardinality(heap) + 1
        <5>1. Cardinality(heap \cup {r})
                = IF r \in heap THEN Cardinality(heap) ELSE Cardinality(heap) + 1
          BY <2>0, FS_AddElement, Zenon
        <5> QED
          BY <2>0, <5>1, SMT
      <4>2. Cardinality(heap \cup {r}) \in Nat
        BY <2>0, FS_AddElement, FS_CardinalityType, Zenon
      <4>3. Cardinality(heap') <= Cardinality(heap) + 1 /\ Cardinality(heap') \in Nat
        BY <3>1, <4>1, <4>2, Zenon
      <4> QED
        BY <2>0, <3>1, <4>3, QueueConstants, SMT DEF DepthBounded
    <3>2. CASE heap' = heap
      BY <3>2, Zenon DEF DepthBounded
    <3> QED
      BY <2>1, <3>1, <3>2, Zenon DEF Enqueue, heapVars
  <2>2. ASSUME heap' \subseteq heap
        PROVE  DepthBounded'
    <3>1. Cardinality(heap') <= Cardinality(heap) /\ Cardinality(heap') \in Nat
      BY <2>0, <2>2, FS_Subset, FS_CardinalityType, Zenon
    <3> QED
      BY <2>0, <3>1, QueueConstants DEF DepthBounded
  <2>3. CASE \A r \in Requests, p \in Priorities, t \in {clock, clock + 1} :
               ~Enqueue(r, p, t)
    <3>1. heap' \subseteq heap
      BY <2>3, Zenon DEF Next, RequestStep, DispatcherStep, TryDirect, Notify, Wake,
         remove, Cancel, Dispatch, Close, Resume, Stop, Respond, Tick, vars,
         heapVars
    <3> QED
      BY <2>2, <3>1, Zenon
  <2> QED
    BY <2>1, <2>3, Zenon
<1> QED
  BY <1>1, <1>2, QueueTypeCorrect, PTL DEF Spec

(* The request being released precedes every request that was in the heap  *)
(* when it was popped.                                                     *)
THEOREM PriorityRespectedHolds == Spec => []PriorityRespected
<1>1. Init => PriorityRespected
  BY Zenon DEF Init, NewRequestQueue, PriorityRespected
<1>2. TypeOK /\ Accounting /\ PriorityRespected /\ [Next]_vars
        => PriorityRespected'
  <2> SUFFICES ASSUME TypeOK, Accounting, PriorityRespected, [Next]_vars,
                      dpc' = "close", NEW s \in heap' \ late'
               PROVE  ~Less(s, inHand)'
    BY Zenon DEF PriorityRespected
  <2> USE DEF callerVars, heapVars, channelVars, dispatcherVars
  <2>1. ASSUME NEW r \in Requests, NEW p \in Priorities,
               NEW t \in {clock, clock + 1}, Enqueue(r, p, t)
        PROVE  ~Less(s, inHand)'
    <3>1. dpc = "close" /\ inHand' = inHand /\ inHand # None /\ inHand \in Requests
      BY <2>1, Zenon DEF Enqueue, Accounting, TypeOK
    <3>2. pc[r] = "enqueue"
      BY <2>1, Zenon DEF Enqueue, Goto
    <3>3. r # inHand /\ r \notin heap
      BY <3>1, <3>2, Zenon DEF Accounting
    <3>4. CASE UNCHANGED heapVars
      BY <3>1, <3>4, Zenon DEF PriorityRespected, Less
    <3>5. CASE /\ heap' = heap \cup {r}
               /\ priority' = [priority EXCEPT ![r] = p]
               /\ enqueuedAt' = [enqueuedAt EXCEPT ![r] = t]
               /\ late' = late \cup {r}
      <4>1. s # r /\ s \in heap \ late /\ s \in Requests
        BY <3>5, Zenon DEF TypeOK
      <4>2. /\ priority'[s] = priority[s] /\ enqueuedAt'[s] = enqueuedAt[s]
            /\ priority'[inHand] = priority[inHand]
            /\ enqueuedAt'[inHand] = enqueuedAt[inHand]
        BY <3>1, <3>3, <3>5, <4>1, Zenon DEF TypeOK
      <4> QED
        BY <3>1, <4>1, <4>2, Zenon DEF PriorityRespected, Less
    <3> QED
      BY <2>1, <3>1, <3>4, <3>5, Zenon DEF Enqueue
  <2>2. CASE Dispatch
    <3>1. PICK r \in Tops : heap' = heap \ {r} /\ inHand' = r
      BY <2>2, Zenon DEF Dispatch
    <3>2. UNCHANGED <<priority, enqueuedAt>>
      BY <2>2, Zenon DEF Dispatch
    <3> QED
      BY <3>1, <3>2, Zenon DEF Tops, Less
  <2>3. CASE UNCHANGED <<dpc, inHand, priority, enqueuedAt, late>>
             /\ heap' \subseteq heap
    BY <2>3, Zenon DEF PriorityRespected, Less
  <2>4. CASE ~Dispatch /\ \A r \in Requests, p \in Priorities,
                              t \in {clock, clock + 1} : ~Enqueue(r, p, t)
    <3>1. UNCHANGED <<dpc, inHand, priority, enqueuedAt, late>> /\ heap' \subseteq heap
      BY <2>4, Zenon DEF Next, RequestStep, DispatcherStep, TryDirect, Notify, Wake,
         remove, Cancel, Close, Resume, Stop, Respond, Tick, vars
    <3> QED
      BY <2>3, <3>1, Zenon
  <2> QED
    BY <2>1, <2>2, <2>4, Zenon
<1> QED
  BY <1>1, <1>2, TypeAndAccounting, PTL DEF Spec

----------------------------------------------------------------------------

(* The bucket of the contract is the bucket of the queue.                  *)
LEMMA SameBucket ==
  /\ Contract!TryConsume(TRUE) <=> TryConsume(TRUE)
  /\ Contract!TryConsume(FALSE) <=> TryConsume(FALSE)
  /\ Contract!Tokens <=> Tokens
  /\ Contract!Elapse <=> Elapse
  /\ \A x : Contract!UpdateRate(x) <=> UpdateRate(x)
  /\ Contract!NewTokenBucket <=> NewTokenBucket
  /\ Contract!bucketVars = bucketVars
BY Zenon DEF Contract!TryConsume, TryConsume, Contract!Tokens, Tokens,
   Contract!Elapse, Elapse, Contract!UpdateRate, UpdateRate,
   Contract!NewTokenBucket, NewTokenBucket, Contract!bucketVars, bucketVars,
   Contract!Refilled, Refilled, Contract!maxTokens, maxTokens,
   Contract!effectiveRate, effectiveRate, Contract!MinOf, MinOf,
   Contract!MaxOf, MaxOf

(* Moving one request moves its outcome and no other.                      *)
LEMMA OutcomeMoves ==
  ASSUME TypeOK, NEW r \in Requests, NEW from, NEW to, Goto(r, from, to)
  PROVE  /\ Outcome[r] = OutcomeAt(from)
         /\ Outcome' = [Outcome EXCEPT ![r] = OutcomeAt(to)]
BY Zenon DEF TypeOK, Goto, Outcome

(* The outcome each place stands for.                                      *)
LEMMA Outcomes ==
  /\ \A p \in Waiting : OutcomeAt(p) = "pending"
  /\ \A p \in Admitted : OutcomeAt(p) = "admitted"
  /\ \A p \in Refused : OutcomeAt(p) = "refused"
BY Zenon DEF OutcomeAt, Waiting, Admitted, Refused

(* A request that goes on waiting has the same outcome as before.          *)
LEMMA OutcomeStays ==
  ASSUME TypeOK, NEW r \in Requests, NEW from \in Waiting, NEW to \in Waiting,
         Goto(r, from, to)
  PROVE  Outcome' = Outcome
<1>1. OutcomeAt(from) = OutcomeAt(to)
  BY Outcomes, Zenon
<1>2. ASSUME NEW s \in Requests
      PROVE  OutcomeAt(pc'[s]) = OutcomeAt(pc[s])
  <2>1. CASE s = r
    BY <1>1, <2>1, Zenon DEF Goto, TypeOK
  <2>2. CASE s # r
    BY <2>2, Zenon DEF Goto, TypeOK
  <2> QED
    BY <2>1, <2>2, Zenon
<1> QED
  BY <1>2, Zenon DEF Outcome

(* The queue with the fast path implements Admission: every step of every  *)
(* goroutine takes a token for one request, admits one, refuses one, is a  *)
(* step of the bucket alone, or is invisible.                              *)
THEOREM QueueImplementsAdmission == Spec => ImplementsAdmission
<1>1. Init => Contract!AdmissionInit
  BY SameBucket, Outcomes DEF Init, NewRequestQueue, Contract!AdmissionInit,
     Granted, Outcome, Waiting
<1>2. TypeOK /\ Accounting /\ [Next]_vars
        => [Contract!AdmissionNext]_(Contract!admissionVars)
  <2> SUFFICES ASSUME TypeOK, Accounting, [Next]_vars
               PROVE  Contract!AdmissionNext \/ UNCHANGED Contract!admissionVars
    BY Zenon
  <2> DEFINE Abstract == Contract!AdmissionNext \/ UNCHANGED Contract!admissionVars
  <2> USE DEF callerVars, heapVars, channelVars, dispatcherVars
  <2>1. ASSUME UNCHANGED <<bucketVars, cost>>, Outcome' = Outcome
        PROVE  Abstract
    BY <2>1, SameBucket, Zenon DEF Contract!admissionVars, Granted, bucketVars,
       Contract!bucketVars
  <2>2. ASSUME NEW r \in Requests, UNCHANGED <<bucketVars, cost>>,
               Outcome[r] = "pending", Outcome' = [Outcome EXCEPT ![r] = "refused"]
        PROVE  Abstract
    <3>1. Contract!Refuse(r)
      BY <2>2, Zenon DEF Contract!Refuse, Contract!Decide, Contract!bucketVars,
         bucketVars, Granted
    <3> QED
      BY <3>1, Zenon DEF Contract!AdmissionNext
  <2>3. ASSUME TryConsume(FALSE) \/ Tokens \/ Elapse \/ \E x \in Rates : UpdateRate(x),
               UNCHANGED cost, Outcome' = Outcome
        PROVE  Abstract
    <3>1. Contract!BucketStep
      BY <2>3, SameBucket, Zenon DEF Contract!BucketStep, Granted
    <3> QED
      BY <3>1, Zenon DEF Contract!AdmissionNext
  <2>4. ASSUME NEW r \in Requests, TryDirect(r)
        PROVE  Abstract
    <3>1. CASE TryConsume(TRUE) /\ Goto(r, "new", "direct")
               /\ cost' = [cost EXCEPT ![r] = @ + 1]
      <4>1. cost[r] = 0
        BY <3>1, Zenon DEF Goto, Accounting
      <4>2. r \notin Granted /\ Granted' = Granted \cup {r}
        BY <3>1, <4>1 DEF Granted, TypeOK
      <4>3. Outcome[r] = "pending" /\ Outcome' = [Outcome EXCEPT ![r] = "admitted"]
        BY <3>1, OutcomeMoves, Outcomes DEF Waiting, Admitted
      <4>4. Contract!Serve(r)
        BY <3>1, <4>2, <4>3, SameBucket, Zenon DEF Contract!Serve, Contract!Decide
      <4> QED
        BY <4>4, Zenon DEF Contract!AdmissionNext
    <3>2. CASE TryConsume(FALSE) /\ Goto(r, "new", "enqueue") /\ UNCHANGED cost
      <4>1. Outcome' = Outcome
        BY <3>2, OutcomeStays, Zenon DEF Waiting
      <4> QED
        BY <2>3, <3>2, <4>1, Zenon
    <3> QED
      BY <2>4, <3>1, <3>2, Zenon DEF TryDirect
  <2>5. ASSUME NEW r \in Requests, NEW p \in Priorities,
               NEW t \in {clock, clock + 1}, Enqueue(r, p, t)
        PROVE  Abstract
    <3>1. CASE Goto(r, "enqueue", "full")
      <4>1. Outcome[r] = "pending" /\ Outcome' = [Outcome EXCEPT ![r] = "refused"]
        BY <3>1, OutcomeMoves, Outcomes DEF Waiting, Refused
      <4> QED
        BY <2>2, <2>5, <4>1, Zenon DEF Enqueue
    <3>2. CASE Goto(r, "enqueue", "notify")
      <4>1. Outcome' = Outcome
        BY <3>2, OutcomeStays, Zenon DEF Waiting
      <4> QED
        BY <2>1, <2>5, <4>1, Zenon DEF Enqueue
    <3> QED
      BY <2>5, <3>1, <3>2, Zenon DEF Enqueue
  <2>6. ASSUME NEW r \in Requests, Notify(r)
        PROVE  Abstract
    <3>1. Outcome' = Outcome
      BY <2>6, OutcomeStays, Zenon DEF Notify, Waiting
    <3> QED
      BY <2>1, <2>6, <3>1, Zenon DEF Notify
  <2>7. ASSUME NEW r \in Requests, Wake(r)
        PROVE  Abstract
    <3>0. UNCHANGED <<bucketVars, cost>>
      BY <2>7, Zenon DEF Wake
    <3>1. CASE r \in ready /\ Goto(r, "wait", "ok")
      <4>1. Outcome[r] = "pending" /\ Outcome' = [Outcome EXCEPT ![r] = "admitted"]
        BY <3>1, OutcomeMoves, Outcomes DEF Waiting, Admitted
      <4>2. r \in Granted /\ Granted' = Granted
        BY <3>0, <3>1 DEF Granted, Accounting
      <4>3. Contract!Admit(r)
        BY <3>0, <4>1, <4>2, Zenon DEF Contract!Admit, Contract!Decide,
           Contract!bucketVars, bucketVars
      <4> QED
        BY <4>3, Zenon DEF Contract!AdmissionNext
    <3>2. CASE Goto(r, "wait", "remove")
      <4>1. Outcome' = Outcome
        BY <3>2, OutcomeStays, Zenon DEF Waiting
      <4> QED
        BY <2>1, <3>0, <4>1, Zenon
    <3>3. CASE Goto(r, "wait", "stopped")
      <4>1. Outcome[r] = "pending" /\ Outcome' = [Outcome EXCEPT ![r] = "refused"]
        BY <3>3, OutcomeMoves, Outcomes DEF Waiting, Refused
      <4> QED
        BY <2>2, <3>0, <4>1, Zenon
    <3> QED
      BY <2>7, <3>1, <3>2, <3>3, Zenon DEF Wake
  <2>8. ASSUME NEW r \in Requests, remove(r)
        PROVE  Abstract
    <3>1. Outcome[r] = "pending" /\ Outcome' = [Outcome EXCEPT ![r] = "refused"]
      BY <2>8, OutcomeMoves, Outcomes DEF remove, Waiting, Refused
    <3> QED
      BY <2>2, <2>8, <3>1, Zenon DEF remove
  <2>9. CASE Dispatch
    <3>0. Outcome' = Outcome
      BY <2>9, Zenon DEF Dispatch, Outcome
    <3>1. CASE UNCHANGED <<bucketVars, cost>>
      BY <2>1, <3>0, <3>1, Zenon
    <3>2. ASSUME NEW r \in Tops, TryConsume(TRUE), cost' = [cost EXCEPT ![r] = @ + 1]
          PROVE  Abstract
      <4>1. r \in heap /\ r \in Requests
        BY Zenon DEF Tops, TypeOK
      <4>2. cost[r] = 0 /\ pc[r] \notin Admitted
        <5>1. r \notin ready
          BY <4>1 DEF Accounting
        <5> QED
          BY <4>1, <5>1, Zenon DEF Accounting, Admitted
      <4>3. r \notin Granted /\ Granted' = Granted \cup {r}
        BY <3>2, <4>1, <4>2 DEF Granted, TypeOK
      <4>4. Outcome[r] # "admitted"
        BY <4>1, <4>2, Zenon DEF Outcome, OutcomeAt
      <4>5. Contract!Grant(r)
        BY <3>0, <3>2, <4>3, <4>4, SameBucket, Zenon DEF Contract!Grant
      <4> QED
        BY <4>1, <4>5, Zenon DEF Contract!AdmissionNext
    <3>3. CASE TryConsume(FALSE) /\ UNCHANGED cost
      BY <2>3, <3>0, <3>3, Zenon
    <3> QED
      BY <2>9, <3>1, <3>2, <3>3, Zenon DEF Dispatch
  <2>10. CASE Close \/ Resume \/ Stop \/ UNCHANGED vars
              \/ \E r \in Requests : Cancel(r)
    <3>1. UNCHANGED <<bucketVars, cost, pc>>
      BY <2>10, Zenon DEF Close, Resume, Stop, Cancel, vars
    <3> QED
      BY <2>1, <3>1, Zenon DEF Outcome
  <2>11. CASE Respond \/ Tick
    <3>1. UNCHANGED <<cost, pc>>
      BY <2>11, Zenon DEF Respond, Tick
    <3> QED
      BY <2>3, <2>11, <3>1, Zenon DEF Outcome, Respond, Tick
  <2> QED
    BY <2>4, <2>5, <2>6, <2>7, <2>8, <2>9, <2>10, <2>11, Zenon
       DEF Next, RequestStep, DispatcherStep
<1> QED
  BY <1>1, <1>2, TypeAndAccounting, PTL
     DEF Spec, ImplementsAdmission, Contract!AdmissionSpec

=============================================================================
