---------------------------- MODULE MemoryCache ----------------------------
(***************************************************************************)
(* The in-memory response cache (internal/cache/memory.go).  The map, the  *)
(* list in order of use and the byte count are kept apart, as in the code; *)
(* every method runs under one lock and is one action.  An entry counts    *)
(* the ticks left to its expiresAt; -1 is past it.                         *)
(***************************************************************************)
EXTENDS Integers, Sequences, FiniteSets, Functions, FiniteSetsExt

CONSTANTS
  Keys,
  Values,    \* the responses
  Sizes,     \* what entrySize may return for a response
  TTLs,      \* times to live
  MaxBytes   \* memory limit; 0 is unlimited

ASSUME CacheConstants ==
  /\ Sizes \subseteq Nat \ {0}
  /\ TTLs \subseteq Nat
  /\ MaxBytes \in Nat

VARIABLES
  lruList,    \* the entries, most recently used first
  entries,    \* the keys of the map
  usedBytes,
  stopCh,     \* "open", "closed" by Close, "seen" by the eviction loop
  recency     \* history: keys stored or hit, most recent first, without
              \* the ones deleted or found expired

cacheVars == <<lruList, entries, usedBytes, stopCh, recency>>

NewMemoryCache ==
  /\ lruList = <<>>
  /\ entries = {}
  /\ usedBytes = 0
  /\ stopCh = "open"
  /\ recency = <<>>

----------------------------------------------------------------------------
(* The cache as a value, and what the locked helpers make of it.           *)

Cache == [list |-> lruList, keys |-> entries, used |-> usedBytes]

Become(c) ==
  /\ lruList' = c.list
  /\ entries' = c.keys
  /\ usedBytes' = c.used

(* The elements of a sequence at the positions in P, in order, and the     *)
(* bytes of a list of entries: by recursion over the first n of them.      *)
Picks(s, P) ==
  LET f[n \in 0 .. Len(s)] ==
        IF n = 0 THEN <<>> ELSE IF n \in P THEN Append(f[n - 1], s[n]) ELSE f[n - 1]
  IN f
Pick(s, P) == Picks(s, P)[Len(s)]

Sums(list) ==
  LET f[n \in 0 .. Len(list)] == IF n = 0 THEN 0 ELSE f[n - 1] + list[n].size
  IN f
Bytes(list) == Sums(list)[Len(list)]

KeysOf(list) == {e.key : e \in Range(list)}
PlacesOf(list, ks) == {i \in DOMAIN list : list[i].key \in ks}

removeLocked(c, ks) ==
  LET places == PlacesOf(c.list, ks)
  IN [list |-> Pick(c.list, DOMAIN c.list \ places),
      keys |-> c.keys \ ks,
      used |-> c.used - Bytes(Pick(c.list, places))]

(* Mutant: the front of the list is evicted.                               *)
evictLRUFront(c, limit) ==
  LET n == Len(c.list)
      fits(m) == c.used - Bytes(SubSeq(c.list, 1, m)) <= limit
      drop == Min({n} \cup {m \in 0 .. n : fits(m)})
  IN removeLocked(c, KeysOf(SubSeq(c.list, 1, drop)))

(* The loop of evictLRULocked: entries leave from the back until at most   *)
(* limit bytes are used or the list is empty.                              *)
evictLRU(c, limit) ==
  LET n == Len(c.list)
      fits(m) == c.used - Bytes(SubSeq(c.list, m + 1, n)) <= limit
      keep == Max({0} \cup {m \in 0 .. n : fits(m)})
  IN [list |-> SubSeq(c.list, 1, keep),
      keys |-> c.keys \ KeysOf(SubSeq(c.list, keep + 1, n)),
      used |-> c.used - Bytes(SubSeq(c.list, keep + 1, n))]

Forget(ks) == Pick(recency, {i \in DOMAIN recency : recency[i] \notin ks})
ToFront(k) == <<k>> \o Forget({k})

EntryOf(k) == CHOOSE e \in Range(lruList) : e.key = k
Expired == {e.key : e \in {x \in Range(lruList) : x.left < 0}}

Hit(k) == k \in entries \ Expired

----------------------------------------------------------------------------

(* Mutant: a hit starts the time to live again.                            *)
GetSliding(k) ==
  /\ Become(IF Hit(k)
            THEN LET e == EntryOf(k)
                 IN [removeLocked(Cache, {k}) EXCEPT
                       !.list = <<[e EXCEPT !.left = e.ttl]>> \o @,
                       !.keys = @ \cup {k},
                       !.used = @ + e.size]
            ELSE removeLocked(Cache, {k}))
  /\ recency' = IF Hit(k) THEN ToFront(k) ELSE Forget({k})
  /\ UNCHANGED stopCh

(* A hit moves the entry to the front; an expired entry is dropped.        *)
Get(k) ==
  /\ IF Hit(k)
     THEN /\ lruList' = <<EntryOf(k)>> \o removeLocked(Cache, {k}).list
          /\ UNCHANGED <<entries, usedBytes>>
     ELSE Become(removeLocked(Cache, {k}))
  /\ recency' = IF Hit(k) THEN ToFront(k) ELSE Forget({k})
  /\ UNCHANGED stopCh

(* Mutant: the bytes of a replaced entry stay counted.                     *)
SetLeaky(k, v, size, ttl) ==
  LET replaced == [removeLocked(Cache, {k}) EXCEPT !.used = usedBytes]
      room == IF MaxBytes = 0 THEN replaced ELSE evictLRU(replaced, MaxBytes - size)
      entry == [key |-> k, value |-> v, size |-> size, ttl |-> ttl, left |-> ttl, age |-> 0]
  IN /\ Become([list |-> <<entry>> \o room.list,
                keys |-> room.keys \cup {k},
                used |-> room.used + size])
     /\ recency' = ToFront(k)
     /\ UNCHANGED stopCh

(* An entry larger than the whole cache is stored all the same, alone.     *)
Set(k, v, size, ttl) ==
  LET replaced == removeLocked(Cache, {k})
      room == IF MaxBytes = 0 THEN replaced ELSE evictLRU(replaced, MaxBytes - size)
      entry == [key |-> k, value |-> v, size |-> size, ttl |-> ttl, left |-> ttl, age |-> 0]
  IN /\ Become([list |-> <<entry>> \o room.list,
                keys |-> room.keys \cup {k},
                used |-> room.used + size])
     /\ recency' = ToFront(k)
     /\ UNCHANGED stopCh

(* Delete and DeleteByPrefix: the keys that match.                         *)
Delete(ks) ==
  /\ Become(removeLocked(Cache, ks))
  /\ recency' = Forget(ks)
  /\ UNCHANGED stopCh

(* The sweep every 30 seconds: expired entries, then the least recently    *)
(* used until the cache is at most 80% full.                               *)
evictExpired ==
  LET fresh == removeLocked(Cache, Expired)
  IN /\ stopCh # "seen"
     /\ Become(IF MaxBytes = 0 THEN fresh ELSE evictLRU(fresh, (4 * MaxBytes) \div 5))
     /\ recency' = Forget(Expired)
     /\ UNCHANGED stopCh

(* A second Close would panic; the binary calls it once.                   *)
Close ==
  /\ stopCh = "open"
  /\ stopCh' = "closed"
  /\ Become([list |-> <<>>, keys |-> {}, used |-> 0])
  /\ recency' = <<>>

(* The eviction loop sees the closed channel, maybe a sweep later.         *)
evictionLoopEnds ==
  /\ stopCh = "closed"
  /\ stopCh' = "seen"
  /\ UNCHANGED <<lruList, entries, usedBytes, recency>>

(* Time passes; age is a history and need not count past the expiry.       *)
CacheTick ==
  /\ lruList' = [i \in DOMAIN lruList |->
                   LET e == lruList[i]
                   IN [e EXCEPT !.left = IF @ < 0 THEN @ ELSE @ - 1,
                                !.age = IF @ > e.ttl THEN @ ELSE @ + 1]]
  /\ UNCHANGED <<entries, usedBytes, stopCh, recency>>

----------------------------------------------------------------------------

CacheNext ==
  \/ \E k \in Keys : Get(k)
  \/ \E k \in Keys, v \in Values, s \in Sizes, t \in TTLs : Set(k, v, s, t)
  \/ \E ks \in SUBSET Keys : Delete(ks)
  \/ evictExpired
  \/ Close
  \/ evictionLoopEnds
  \/ CacheTick

CacheSpec == NewMemoryCache /\ [][CacheNext]_cacheVars

----------------------------------------------------------------------------

(* Map, list and byte count describe the same entries after any sequence   *)
(* of operations: removeLocked (memory.go:142-146) keeps the three in      *)
(* step, also for replaced and for expired entries.  So the limit holds,   *)
(* except for a single entry larger than it by itself (memory.go:77-79).   *)
CacheConsistent ==
  /\ entries = KeysOf(lruList)
  /\ Len(lruList) = Cardinality(entries)
  /\ usedBytes = Bytes(lruList)
  /\ MaxBytes > 0 => usedBytes <= MaxBytes \/ Len(lruList) = 1

(* Entries leave for lack of space in the order of their last use: those   *)
(* kept are the most recently stored or hit, in that order, whatever hits, *)
(* replacements, deletions and expiries came between (memory.go:62, 87,    *)
(* 148-155).                                                               *)
LeastRecentlyUsedFirst ==
  /\ Len(lruList) <= Len(recency)
  /\ \A i \in DOMAIN lruList : lruList[i].key = recency[i]

(* No lookup answers with a response stored longer ago than the time to    *)
(* live it was stored with, however often it was hit since (memory.go:56,  *)
(* 84).                                                                    *)
NoHitPastTTL ==
  \A k \in entries : Hit(k) => LET e == EntryOf(k) IN e.age <= e.ttl

=============================================================================
