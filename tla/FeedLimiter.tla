---------------------------- MODULE FeedLimiter ----------------------------
(***************************************************************************)
(* The limiter for listings feeds (internal/ratelimit/feedlimit.go): per   *)
(* key, a merchant in a region, the submissions of the last window.        *)
(***************************************************************************)
EXTENDS Naturals, FiniteSets

CONSTANTS
  FeedKeys,
  window,      \* its length in ticks
  maxPerWin,
  MaxNow       \* bound on the clock, for model checking

ASSUME FeedConstants == window \in Nat /\ maxPerWin \in Nat /\ MaxNow \in Nat

VARIABLES
  now,
  feedEntries, \* key -> the submissions kept; timestamps as [id, at]
  submitted    \* history: key -> every submission let through

feedVars == <<now, feedEntries, submitted>>

FeedInit ==
  /\ now = 0
  /\ feedEntries = [k \in FeedKeys |-> {}]
  /\ submitted = [k \in FeedKeys |-> {}]

(* Mutant: an entry falls out of the window a tick early.                  *)
ValidEarly(k) == {e \in feedEntries[k] : now - e.at + 1 < window}

(* ts.After(now.Add(-window)).                                             *)
Valid(k) == {e \in feedEntries[k] : now - e.at < window}

(* The whole of Allow, which holds the lock, for a JSON_LISTINGS_FEED.     *)
(* Feeds of other types are let through and leave no trace.                *)
Allow(k) ==
  LET new == [id |-> Cardinality(submitted[k]), at |-> now]
  IN \/ /\ Cardinality(Valid(k)) >= maxPerWin
        /\ feedEntries' = [feedEntries EXCEPT ![k] = Valid(k)]
        /\ UNCHANGED <<now, submitted>>
     \/ /\ Cardinality(Valid(k)) < maxPerWin
        /\ feedEntries' = [feedEntries EXCEPT ![k] = Valid(k) \cup {new}]
        /\ submitted' = [submitted EXCEPT ![k] = @ \cup {new}]
        /\ UNCHANGED now

FeedTick ==
  /\ now < MaxNow
  /\ now' = now + 1
  /\ UNCHANGED <<feedEntries, submitted>>

FeedNext == FeedTick \/ \E k \in FeedKeys : Allow(k)

FeedSpec == FeedInit /\ [][FeedNext]_feedVars

----------------------------------------------------------------------------

(* No window of time, wherever it starts, sees more than maxPerWin         *)
(* submissions of one key (feedlimit.go:15-16).  Submissions happen now,   *)
(* so it is enough to look at the window that ends now.                    *)
WindowLimit ==
  \A k \in FeedKeys : Cardinality({e \in submitted[k] : now - e.at < window}) <= maxPerWin

=============================================================================
