-------------------------- MODULE CoherenceProofs --------------------------
(***************************************************************************)
(* The cache middleware over MemoryCache, for any number of requests and   *)
(* any keys, reads and writes.                                             *)
(***************************************************************************)
EXTENDS CacheProofs, CacheCoherence

(* The points a goroutine may be at.                                       *)
States ==
  {"idle", "lookup", "forward", "fill", "bypass", "answered", "filled",
   "invalidate", "invalidateBatch", "write", "written", "refused"}

(* What a goroutine holds at each point.                                   *)
FlowTypes ==
  /\ pc \in [Requests -> States]
  /\ req \in [Requests -> Seq(Keys \cup {None})]
  /\ got \in [Requests -> Seq(Nat \cup {None})]
  /\ write \in [Requests -> Writes \cup {None}]
  /\ version \in [Keys -> Nat]

(* The keys still to do and the versions found fit together.               *)
Shape(r) ==
  /\ pc[r] = "idle" => got[r] = <<>>
  /\ pc[r] = "lookup" => Len(got[r]) < Len(req[r])
  /\ pc[r] \in {"forward", "fill"} => req[r] # <<>>
  /\ pc[r] = "fill" => /\ Len(got[r]) = Len(req[r])
                       /\ \A i \in 1 .. Len(req[r]) : got[r][i] # None => req[r][i] \in Keys
  /\ pc[r] \in {"invalidate", "invalidateBatch", "write"} => write[r] \in Writes

(* Who reads k through the cache, or finds it there, races the write that  *)
(* has deleted it.                                                         *)
Covered(k) == k \in KeysOf(lruList) \/ Reading(k) => k \in raced

(* Between its deletions and its answer a write finds every key it has     *)
(* deleted and will change covered.                                        *)
Deleted(r) ==
  pc[r] \in {"invalidateBatch", "write"} =>
    \A k \in Changed(write[r]) : pc[r] = "write" \/ k \in ResourceKeys(write[r]) => Covered(k)

(* A response on its way into the cache that a write has made stale.       *)
StaleRaced(r) ==
  pc[r] = "fill" =>
    \A i \in 1 .. Len(req[r]) :
      got[r][i] # None /\ got[r][i] < version[req[r][i]] => req[r][i] \in raced

(* The inductive invariant behind FreshUnlessRaced.                        *)
CoherenceInv ==
  /\ CacheInv(Nat)
  /\ FlowTypes
  /\ \A r \in Requests : Shape(r) /\ Deleted(r) /\ StaleRaced(r)
  /\ FreshUnlessRaced

(* The keys a write deletes are enough for what it changes: the prefix of  *)
(* ExtractResourcePrefix begins the resource's path and its collection's.  *)
LEMMA ChangedDeleted ==
  ASSUME NEW w \in Writes, NEW k \in Changed(w)
  PROVE  k \in Keys /\ (k \in ResourceKeys(w) \/ k \in invalidateBatchListingOffers(w))
<1> DEFINE p == w.path
           front == SubSeq(p, 1, Len(p) - 1)
           prefix == ExtractResourcePrefix(p)
<1>1. p \in Seq(STRING)
  BY CoherenceConstants, Zenon
<1> HIDE DEF p
<1>2. /\ k \in Keys /\ k.merchant = w.merchant
      /\ \/ k.kind = "GET" /\ (k.path = p \/ (Len(p) > 3 /\ k.path = front))
         \/ /\ k.kind = "BATCH" /\ w.method \in {"PUT", "PATCH"} /\ IsListing(p)
            /\ k.path = <<"listingOffers">> \o SubSeq(p, 5, 5)
  BY Zenon DEF Changed, p
<1>3. CASE k.kind = "BATCH" /\ w.method \in {"PUT", "PATCH"} /\ IsListing(p)
           /\ k.path = <<"listingOffers">> \o SubSeq(p, 5, 5)
  <2>1. SubSeq(p, 5, 5) \in ListingSku(p)
    BY <1>1, <1>3 DEF IsListing, ListingSku
  <2>2. k \in invalidateBatchListingOffers(w)
    BY <1>2, <1>3, <2>1, Zenon DEF invalidateBatchListingOffers, p
  <2> QED BY <1>2, <2>2, Zenon
<1>4. CASE k.kind = "GET" /\ (k.path = p \/ (Len(p) > 3 /\ k.path = front))
  <2>1. CASE Len(p) <= 3
    <3>1. prefix = p /\ k.path = p /\ Len(p) \in Nat
      BY <1>1, <1>4, <2>1 DEF ExtractResourcePrefix
    <3>2. Len(p) <= Len(p)
      BY <3>1
    <3>3. HasPrefix(p, p)
      BY <3>2, Zenon DEF HasPrefix
    <3>4. QED BY <1>2, <1>4, <3>1, <3>3, Zenon DEF ResourceKeys, p
  <2>2. CASE ~ (Len(p) <= 3)
    <3>1. prefix = front
      BY <2>2, Zenon DEF ExtractResourcePrefix
    <3>2. /\ Len(front) = Len(p) - 1 /\ Len(p) \in Nat /\ Len(front) \in Nat /\ Len(front) >= 1
          /\ \A i \in 1 .. Len(front) : front[i] = p[i]
      BY <1>1, <2>2
    <3> HIDE DEF front
    <3>3. /\ Len(front) <= Len(p) /\ Len(front) <= Len(front) /\ Len(front) \in 1 .. Len(front)
          /\ \A i \in 1 .. Len(front) - 1 : i \in 1 .. Len(front)
      BY <3>2
    <3>4. HasPrefix(p, front) /\ HasPrefix(front, front)
      BY <3>2, <3>3, Zenon DEF HasPrefix
    <3>5. k.path = p \/ k.path = front
      BY <1>4, Zenon
    <3>6. HasPrefix(k.path, prefix)
      BY <3>1, <3>4, <3>5, Zenon
    <3>7. QED BY <1>2, <1>4, <3>6, Zenon DEF ResourceKeys, p
  <2>3. QED BY <2>1, <2>2, Zenon
<1>5. QED BY <1>2, <1>3, <1>4, Zenon

(* Covered keys stay covered while nobody starts to read them.             *)
LEMMA StaysCovered ==
  ASSUME raced' = raced,
         \A k : k \in KeysOf(lruList') => k \in KeysOf(lruList) \/ Reading(k),
         \A k : Reading(k)' => Reading(k)
  PROVE  \A k : Covered(k) => Covered(k)'
BY Zenon DEF Covered

(* A key of the cache belongs to one of its entries.                       *)
LEMMA FewerKeys ==
  ASSUME \A x \in Range(lruList') : \E y \in Range(lruList) : x.key = y.key
  PROVE  \A k : k \in KeysOf(lruList') => k \in KeysOf(lruList)
BY Zenon DEF KeysOf

(* What the invariant says.                                                *)
LEMMA CoherenceFacts ==
  ASSUME CoherenceInv
  PROVE  /\ CacheInv(Nat) /\ FlowTypes /\ FreshUnlessRaced
         /\ \A q \in Requests : Shape(q) /\ Deleted(q) /\ StaleRaced(q)
BY Zenon DEF CoherenceInv

(* A step leaves the other goroutines as they are.                         *)
Same(q) == pc'[q] = pc[q] /\ req'[q] = req[q] /\ got'[q] = got[q] /\ write'[q] = write[q]

(* Their shape is theirs alone.                                            *)
LEMMA SameShape ==
  ASSUME NEW q, Same(q), Shape(q)
  PROVE  Shape(q)'
BY Zenon DEF Same, Shape

(* What they have deleted stays covered if the step uncovers no key.       *)
LEMMA SameDeleted ==
  ASSUME NEW q, Same(q), Deleted(q), \A k : Covered(k) => Covered(k)'
  PROVE  Deleted(q)'
BY Zenon DEF Same, Deleted

(* What they carry stays raced if the step forgets no race of a key that   *)
(* is being read.                                                          *)
LEMMA SameStale ==
  ASSUME NEW q \in Requests, Same(q), StaleRaced(q), version' = version, FlowTypes,
         \A k : k \in raced /\ Reading(k) => k \in raced'
  PROVE  StaleRaced(q)'
<1> SUFFICES ASSUME pc[q] = "fill", NEW i \in 1 .. Len(req[q]),
                    got[q][i] # None, got[q][i] < version[req[q][i]]
             PROVE  req[q][i] \in raced'
  BY Zenon DEF Same, StaleRaced
<1>1. req[q][i] \in raced
  BY Zenon DEF StaleRaced
<1>2. req[q] \in Seq(Keys \cup {None})
  BY Zenon DEF FlowTypes
<1>3. req[q][i] \in Range(req[q])
  BY <1>2, KeyPlaces, Zenon
<1>4. Reading(req[q][i])
  BY <1>3, Zenon DEF Reading
<1>5. QED BY <1>1, <1>4, Zenon

(* The cache is left alone.                                                *)
LEMMA CacheAlone ==
  ASSUME NEW V, CacheInv(V), UNCHANGED cacheVars
  PROVE  CacheInv(V)' /\ lruList' = lruList
BY Zenon DEF cacheVars, CacheInv, Cache

(* Entries that stay are as fresh as they were.                            *)
LEMMA StaysFresh ==
  ASSUME FreshUnlessRaced, version' = version,
         \A x \in Range(lruList') : \E y \in Range(lruList) : x.key = y.key /\ x.value = y.value,
         \A x \in Range(lruList') : x.key \in raced => x.key \in raced'
  PROVE  FreshUnlessRaced'
<1> SUFFICES ASSUME NEW x \in Range(lruList'), x.value < version[x.key]
             PROVE  x.key \in raced'
  BY Zenon DEF FreshUnlessRaced
<1>1. PICK y \in Range(lruList) : x.key = y.key /\ x.value = y.value
  BY Zenon
<1>2. QED BY <1>1, Zenon DEF FreshUnlessRaced

(* A goroutine has what FlowTypes gives it.                                *)
LEMMA Typed ==
  ASSUME FlowTypes, NEW q \in Requests
  PROVE  /\ pc[q] \in States /\ write[q] \in Writes \cup {None}
         /\ req[q] \in Seq(Keys \cup {None}) /\ got[q] \in Seq(Nat \cup {None})
BY Zenon DEF FlowTypes

(* A read arrives: of the keys being written it is a race.                 *)
LEMMA ArriveReadStep ==
  ASSUME CoherenceInv, NEW r \in Requests, NEW keys \in Reads, ArriveRead(r, keys)
  PROVE  CoherenceInv'
<1>1. /\ CacheInv(Nat) /\ FlowTypes /\ FreshUnlessRaced
      /\ \A q \in Requests : Shape(q) /\ Deleted(q) /\ StaleRaced(q)
  BY CoherenceFacts, Zenon
<1>2. /\ pc[r] = "idle" /\ pc' = [pc EXCEPT ![r] = "lookup"] /\ req' = [req EXCEPT ![r] = keys]
      /\ raced' = raced \cup {k \in Range(keys) : Writing(k)}
      /\ UNCHANGED cacheVars /\ write' = write /\ got' = got /\ version' = version
  BY Zenon DEF ArriveRead
<1>3. pc \in [Requests -> States] /\ req \in [Requests -> Seq(Keys \cup {None})]
  BY <1>1, Zenon DEF FlowTypes
<1>4. /\ pc'[r] = "lookup" /\ req'[r] = keys
      /\ \A q \in Requests : q # r => pc'[q] = pc[q] /\ req'[q] = req[q]
  BY <1>2, <1>3, Zenon
<1>5. keys \in Seq(Keys \cup {None}) /\ keys # <<>>
  BY CoherenceConstants, Zenon
<1>6. CacheInv(Nat)' /\ lruList' = lruList
  BY <1>1, <1>2, CacheAlone, Zenon
<1>7. FlowTypes'
  <2>1. "lookup" \in States
    BY Zenon DEF States
  <2>2. pc' \in [Requests -> States] /\ req' \in [Requests -> Seq(Keys \cup {None})]
    BY <1>2, <1>3, <1>5, <2>1, Zenon
  <2>3. QED BY <1>1, <1>2, <2>2, Zenon DEF FlowTypes
<1>8. \A q \in Requests : q # r => Same(q)
  BY <1>2, <1>4, Zenon DEF Same
<1>9. \A k : Reading(k)' => Reading(k) \/ k \in Range(keys)
  BY <1>4, Zenon DEF Reading
<1>10. ASSUME NEW q \in Requests PROVE Shape(q)' /\ Deleted(q)' /\ StaleRaced(q)'
  <2>1. CASE q = r
    <3>1. pc'[q] = "lookup"
      BY <1>4, <2>1, Zenon
    <3>2. Len(got'[r]) < Len(req'[r])
      <4>1. got[r] = <<>>
        BY <1>1, <1>2, Zenon DEF Shape
      <4>2. Len(<<>>) < Len(keys)
        BY <1>5
      <4>3. QED BY <1>2, <1>4, <4>1, <4>2, Zenon
    <3>3. Shape(q)'
      BY <2>1, <3>1, <3>2, Zenon DEF Shape
    <3>4. QED BY <3>1, <3>3, Zenon DEF Deleted, StaleRaced
  <2>2. CASE q # r
    <3>1. Same(q) /\ Shape(q) /\ Deleted(q) /\ StaleRaced(q)
      BY <1>1, <1>8, <2>2, Zenon
    <3>2. StaleRaced(q)'
      BY <1>1, <1>2, <3>1, SameStale, Zenon
    <3>3. Deleted(q)'
      <4> SUFFICES ASSUME pc[q] \in {"invalidateBatch", "write"}, NEW k \in Changed(write[q]),
                          pc[q] = "write" \/ k \in ResourceKeys(write[q]),
                          k \in KeysOf(lruList') \/ Reading(k)'
                   PROVE  k \in raced'
        BY <3>1, Zenon DEF Same, Deleted, Covered
      <4>1. Writing(k)
        BY Zenon DEF Writing
      <4>2. Covered(k)
        BY <3>1, Zenon DEF Deleted
      <4>3. k \in KeysOf(lruList) \/ Reading(k) => k \in raced
        BY <4>2, Zenon DEF Covered
      <4>4. QED BY <1>2, <1>6, <1>9, <4>1, <4>3, Zenon
    <3>4. QED BY <3>1, <3>2, <3>3, SameShape, Zenon
  <2>3. QED BY <2>1, <2>2, Zenon
<1>11. FreshUnlessRaced'
  BY <1>1, <1>2, <1>6, StaysFresh, Zenon
<1>12. QED BY <1>6, <1>7, <1>10, <1>11, Zenon DEF CoherenceInv

(* A step of one goroutine that stores nothing and starts no read.         *)
LEMMA QuietStep ==
  ASSUME CoherenceInv, NEW r \in Requests, raced' = raced, version' = version,
         CacheInv(Nat)', FlowTypes', \A q \in Requests : q # r => Same(q),
         \A k : Reading(k)' => Reading(k),
         \A x \in Range(lruList') : \E y \in Range(lruList) : x.key = y.key /\ x.value = y.value,
         Shape(r)', Deleted(r)', StaleRaced(r)'
  PROVE  CoherenceInv'
<1>1. /\ CacheInv(Nat) /\ FlowTypes /\ FreshUnlessRaced
      /\ \A q \in Requests : Shape(q) /\ Deleted(q) /\ StaleRaced(q)
  BY CoherenceFacts, Zenon
<1>2. \A k : k \in KeysOf(lruList') => k \in KeysOf(lruList)
  BY FewerKeys, Zenon
<1>3. \A k : Covered(k) => Covered(k)'
  BY <1>2, StaysCovered, Zenon
<1>4. ASSUME NEW q \in Requests, q # r PROVE Shape(q)' /\ Deleted(q)' /\ StaleRaced(q)'
  <2>1. Same(q) /\ Shape(q) /\ Deleted(q) /\ StaleRaced(q)
    BY <1>1, <1>4, Zenon
  <2>2. StaleRaced(q)'
    BY <1>1, <2>1, SameStale, Zenon
  <2>3. Deleted(q)'
    BY <1>3, <2>1, SameDeleted, Zenon
  <2>4. QED BY <2>1, <2>2, <2>3, SameShape, Zenon
<1>5. FreshUnlessRaced'
  BY <1>1, StaysFresh, Zenon
<1>6. \A q \in Requests : Shape(q)' /\ Deleted(q)' /\ StaleRaced(q)'
  BY <1>4, Zenon
<1>7. QED BY <1>5, <1>6, Zenon DEF CoherenceInv

(* A read that goes past the cache.                                        *)
LEMMA ArriveUncachedStep ==
  ASSUME CoherenceInv, NEW r \in Requests, NEW keys \in Reads, ArriveUncached(r, keys)
  PROVE  CoherenceInv'
<1>1. CacheInv(Nat) /\ FlowTypes
  BY CoherenceFacts, Zenon
<1>2. /\ pc' = [pc EXCEPT ![r] = "bypass"] /\ req' = [req EXCEPT ![r] = keys]
      /\ UNCHANGED cacheVars /\ write' = write /\ got' = got /\ version' = version /\ raced' = raced
  BY Zenon DEF ArriveUncached
<1>3. pc \in [Requests -> States] /\ req \in [Requests -> Seq(Keys \cup {None})]
  BY <1>1, Zenon DEF FlowTypes
<1>4. /\ pc'[r] = "bypass"
      /\ \A q \in Requests : q # r => pc'[q] = pc[q] /\ req'[q] = req[q]
  BY <1>2, <1>3, Zenon
<1>5. CacheInv(Nat)' /\ lruList' = lruList
  BY <1>1, <1>2, CacheAlone, Zenon
<1>6. FlowTypes'
  <2>1. "bypass" \in States /\ keys \in Seq(Keys \cup {None})
    BY CoherenceConstants, Zenon DEF States
  <2>2. pc' \in [Requests -> States] /\ req' \in [Requests -> Seq(Keys \cup {None})]
    BY <1>2, <1>3, <2>1, Zenon
  <2>3. QED BY <1>1, <1>2, <2>2, Zenon DEF FlowTypes
<1>7. \A q \in Requests : q # r => Same(q)
  BY <1>2, <1>4, Zenon DEF Same
<1>8. \A k : Reading(k)' => Reading(k)
  BY <1>4, Zenon DEF Reading
<1>9. Shape(r)' /\ Deleted(r)' /\ StaleRaced(r)'
  BY <1>4, Zenon DEF Shape, Deleted, StaleRaced
<1>10. \A x \in Range(lruList') : \E y \in Range(lruList) : x.key = y.key /\ x.value = y.value
  BY <1>5, Zenon
<1>11. QED BY <1>2, <1>5, <1>6, <1>7, <1>8, <1>9, <1>10, QuietStep, Zenon

(* A write arrives.                                                        *)
LEMMA ArriveWriteStep ==
  ASSUME CoherenceInv, NEW r \in Requests, NEW w \in Writes, ArriveWrite(r, w)
  PROVE  CoherenceInv'
<1>1. CacheInv(Nat) /\ FlowTypes
  BY CoherenceFacts, Zenon
<1>2. /\ pc' = [pc EXCEPT ![r] = "invalidate"] /\ write' = [write EXCEPT ![r] = w]
      /\ UNCHANGED cacheVars /\ req' = req /\ got' = got /\ version' = version /\ raced' = raced
  BY Zenon DEF ArriveWrite
<1>3. pc \in [Requests -> States] /\ write \in [Requests -> Writes \cup {None}]
  BY <1>1, Zenon DEF FlowTypes
<1>4. /\ pc'[r] = "invalidate" /\ write'[r] = w
      /\ \A q \in Requests : q # r => pc'[q] = pc[q] /\ write'[q] = write[q]
  BY <1>2, <1>3, Zenon
<1>5. CacheInv(Nat)' /\ lruList' = lruList
  BY <1>1, <1>2, CacheAlone, Zenon
<1>6. FlowTypes'
  <2>1. "invalidate" \in States
    BY Zenon DEF States
  <2>2. pc' \in [Requests -> States] /\ write' \in [Requests -> Writes \cup {None}]
    BY <1>2, <1>3, <2>1, Zenon
  <2>3. QED BY <1>1, <1>2, <2>2, Zenon DEF FlowTypes
<1>7. \A q \in Requests : q # r => Same(q)
  BY <1>2, <1>4, Zenon DEF Same
<1>8. \A k : Reading(k)' => Reading(k)
  BY <1>2, <1>4, Zenon DEF Reading
<1>9. Shape(r)' /\ Deleted(r)' /\ StaleRaced(r)'
  BY <1>4, Zenon DEF Shape, Deleted, StaleRaced
<1>10. \A x \in Range(lruList') : \E y \in Range(lruList) : x.key = y.key /\ x.value = y.value
  BY <1>5, Zenon
<1>11. QED BY <1>2, <1>5, <1>6, <1>7, <1>8, <1>9, <1>10, QuietStep, Zenon

(* What the cache holds.                                                   *)
LEMMA EntryHeld ==
  ASSUME NEW V, CacheInv(V), NEW e \in Range(lruList)
  PROVE  e \in Held(V) /\ e.key \in Keys /\ e.value \in V
<1>1. lruList \in Seq(Held(V))
  BY CacheFacts, Zenon
<1>2. PICK i \in 1 .. Len(lruList) : lruList[i] = e
  BY <1>1, KeyPlaces, Zenon
<1>3. e \in Held(V)
  BY <1>1, <1>2
<1>4. QED BY <1>3, Zenon DEF Held

(* One key looked up.                                                      *)
LEMMA LookupStep ==
  ASSUME CoherenceInv, NEW r \in Requests, Lookup(r)
  PROVE  CoherenceInv'
<1> DEFINE k == req[r][Len(got[r]) + 1]
           value == IF Hit(k) THEN EntryOf(k).value ELSE None
           found == Append(got[r], value)
           next == CASE Len(found) < Len(req[r]) -> "lookup"
                     [] None \in Range(found) -> "forward"
                     [] OTHER -> "answered"
<1>1. CacheInv(Nat) /\ FlowTypes /\ Shape(r)
  BY CoherenceFacts, Zenon
<1>2. /\ pc[r] = "lookup" /\ pc' = [pc EXCEPT ![r] = next] /\ got' = [got EXCEPT ![r] = found]
      /\ IF k = None THEN UNCHANGED cacheVars ELSE Get(k)
      /\ req' = req /\ write' = write /\ version' = version /\ raced' = raced
  BY Zenon DEF Lookup
<1>3. value \in Nat \cup {None}
  <2>1. ASSUME Hit(k) PROVE EntryOf(k).value \in Nat
    <3>1. k \in entries
      BY <2>1, Zenon DEF Hit
    <3> HIDE DEF k
    <3>2. EntryOf(k) \in Range(lruList)
      BY <1>1, <3>1, EntryFound, Zenon
    <3>3. QED BY <1>1, <3>2, EntryHeld, Zenon
  <2>2. QED BY <2>1, Zenon
<1> HIDE DEF k, value
<1>4. /\ CacheInv(Nat)'
      /\ \A x \in Range(lruList') : \E y \in Range(lruList) : x.key = y.key /\ x.value = y.value
  <2>1. CASE k = None
    BY <1>1, <1>2, <2>1, CacheAlone, Zenon
  <2>2. CASE k # None
    <3>1. Get(k)
      BY <1>2, <2>2, Zenon
    <3>2. CacheInv(Nat)' /\ \A x \in Range(lruList') : x \in Range(lruList)
      BY <1>1, <3>1, GetStep, Zenon
    <3>3. QED BY <3>2, Zenon
  <2>3. QED BY <2>1, <2>2, Zenon
<1>5. /\ got[r] \in Seq(Nat \cup {None}) /\ req[r] \in Seq(Keys \cup {None})
      /\ Len(got[r]) < Len(req[r])
  BY <1>1, <1>2, Typed, Zenon DEF Shape
<1>6. found \in Seq(Nat \cup {None})
  BY <1>3, <1>5
<1>7. req[r] # <<>>
  BY <1>5
<1> HIDE DEF found
<1>8. next \in {"lookup", "forward", "answered"} /\ (next = "lookup" => Len(found) < Len(req[r]))
  BY Zenon
<1> HIDE DEF next
<1>9. pc \in [Requests -> States] /\ got \in [Requests -> Seq(Nat \cup {None})]
  BY <1>1, Zenon DEF FlowTypes
<1>10. /\ pc'[r] = next /\ got'[r] = found
       /\ \A q \in Requests : q # r => pc'[q] = pc[q] /\ got'[q] = got[q]
  BY <1>2, <1>9, Zenon
<1>11. FlowTypes'
  <2>1. next \in States
    BY <1>8, Zenon DEF States
  <2>2. pc' \in [Requests -> States] /\ got' \in [Requests -> Seq(Nat \cup {None})]
    BY <1>2, <1>6, <1>9, <2>1, Zenon
  <2>3. QED BY <1>1, <1>2, <2>2, Zenon DEF FlowTypes
<1>12. \A q \in Requests : q # r => Same(q)
  BY <1>2, <1>10, Zenon DEF Same
<1>13. \A x : Reading(x)' => Reading(x)
  BY <1>2, <1>10, Zenon DEF Reading
<1>14. Shape(r)' /\ Deleted(r)' /\ StaleRaced(r)'
  <2>1. /\ pc'[r] \in {"lookup", "forward", "answered"}
        /\ pc'[r] = "lookup" => Len(got'[r]) < Len(req'[r])
    BY <1>2, <1>8, <1>10, Zenon
  <2>2. /\ pc'[r] # "idle" /\ pc'[r] # "fill"
        /\ pc'[r] \notin {"invalidate", "invalidateBatch", "write"}
    BY <2>1, Zenon
  <2>3. req'[r] # <<>>
    BY <1>2, <1>7, Zenon
  <2>4. QED BY <2>1, <2>2, <2>3, Zenon DEF Shape, Deleted, StaleRaced
<1>15. QED BY <1>2, <1>4, <1>11, <1>12, <1>13, <1>14, QuietStep, Zenon

(* The request goes upstream, and what comes back is current.              *)
LEMMA ForwardStep ==
  ASSUME CoherenceInv, NEW r \in Requests, Forward(r)
  PROVE  CoherenceInv'
<1>1. CacheInv(Nat) /\ FlowTypes /\ Shape(r)
  BY CoherenceFacts, Zenon
<1> DEFINE next == IF pc[r] = "bypass" THEN "answered" ELSE "fill"
           came(failed) ==
             [i \in DOMAIN req[r] |-> IF i \in failed THEN None ELSE Current(req[r][i])]
<1>2. /\ pc[r] \in {"forward", "bypass"} /\ pc' = [pc EXCEPT ![r] = next]
      /\ UNCHANGED cacheVars
      /\ req' = req /\ write' = write /\ version' = version /\ raced' = raced
  BY Zenon DEF Forward
<1>3. PICK failed \in SUBSET DOMAIN req[r] : got' = [got EXCEPT ![r] = came(failed)]
  BY Zenon DEF Forward
<1>4. /\ pc \in [Requests -> States] /\ got \in [Requests -> Seq(Nat \cup {None})]
      /\ version \in [Keys -> Nat] /\ req[r] \in Seq(Keys \cup {None})
  BY <1>1, Zenon DEF FlowTypes
<1> DEFINE g == came(failed)
           s == req[r]
<1>5. DOMAIN s = 1 .. Len(s) /\ Len(s) \in Nat /\ \A i \in 1 .. Len(s) : s[i] \in Keys \cup {None}
  BY <1>4
<1>6. ASSUME NEW i \in 1 .. Len(s)
      PROVE  g[i] = None \/ (s[i] \in Keys /\ g[i] = version[s[i]] /\ version[s[i]] \in Nat)
  <2>1. g[i] = None \/ g[i] = Current(s[i])
    BY <1>5, Zenon
  <2>2. Current(s[i]) = None \/ (s[i] # None /\ Current(s[i]) = version[s[i]])
    BY Zenon DEF Current
  <2> HIDE DEF g, s
  <2>3. s[i] \in Keys => version[s[i]] \in Nat
    BY <1>4, Zenon
  <2>4. QED BY <1>5, <2>1, <2>2, <2>3, Zenon
<1>7. g \in Seq(Nat \cup {None}) /\ Len(g) = Len(s)
  <2>1. \A i \in 1 .. Len(s) : g[i] \in Nat \cup {None}
    BY <1>6, Zenon
  <2>2. DOMAIN g = 1 .. Len(s) /\ g = [i \in 1 .. Len(s) |-> g[i]]
    BY <1>5, Zenon
  <2> HIDE DEF g
  <2>3. g \in [1 .. Len(s) -> Nat \cup {None}]
    BY <2>1, <2>2, Zenon
  <2>4. QED BY <1>5, <2>3
<1>8. got' = [got EXCEPT ![r] = g]
  BY <1>3, Zenon
<1> HIDE DEF g, came, next
<1>9. /\ pc'[r] = next /\ got'[r] = g
      /\ \A q \in Requests : q # r => pc'[q] = pc[q] /\ got'[q] = got[q]
  BY <1>2, <1>4, <1>8, Zenon
<1>10. CacheInv(Nat)' /\ lruList' = lruList
  BY <1>1, <1>2, CacheAlone, Zenon
<1>11. next \in {"answered", "fill"} /\ (next = "fill" => pc[r] = "forward")
  BY <1>2, Zenon DEF next
<1>12. FlowTypes'
  <2>1. next \in States
    BY <1>11, Zenon DEF States
  <2>2. pc' \in [Requests -> States] /\ got' \in [Requests -> Seq(Nat \cup {None})]
    BY <1>2, <1>4, <1>7, <1>8, <2>1, Zenon
  <2>3. QED BY <1>1, <1>2, <2>2, Zenon DEF FlowTypes
<1>13. \A q \in Requests : q # r => Same(q)
  BY <1>2, <1>9, Zenon DEF Same
<1>14. \A k : Reading(k)' => Reading(k)
  <2>1. pc'[r] \in {"lookup", "forward", "fill"} => pc[r] \in {"lookup", "forward", "fill"}
    BY <1>9, <1>11, Zenon
  <2>2. QED BY <1>2, <1>9, <2>1, Zenon DEF Reading
<1>15. StaleRaced(r)'
  <2> SUFFICES ASSUME NEW i \in 1 .. Len(s), g[i] # None, g[i] < version[s[i]] PROVE FALSE
    BY <1>2, <1>9, Zenon DEF StaleRaced
  <2>1. g[i] = version[s[i]] /\ version[s[i]] \in Nat
    BY <1>6, Zenon
  <2>2. \A n \in Nat : ~ (n < n)
    OBVIOUS
  <2>3. QED BY <2>1, <2>2, Zenon
<1>16. Shape(r)' /\ Deleted(r)'
  <2>1. pc'[r] # "idle" /\ pc'[r] # "lookup" /\ pc'[r] # "forward"
        /\ pc'[r] \notin {"invalidate", "invalidateBatch", "write"}
        /\ pc'[r] # "write" /\ pc'[r] # "invalidateBatch"
    BY <1>9, <1>11, Zenon
  <2>2. pc'[r] = "fill" => req'[r] # <<>>
    BY <1>1, <1>2, <1>9, <1>11, Zenon DEF Shape
  <2>3. /\ Len(got'[r]) = Len(req'[r])
        /\ \A i \in 1 .. Len(req'[r]) : got'[r][i] # None => req'[r][i] \in Keys
    BY <1>2, <1>6, <1>7, <1>9, Zenon
  <2>4. QED BY <2>1, <2>2, <2>3, Zenon DEF Shape, Deleted
<1>17. \A x \in Range(lruList') : \E y \in Range(lruList) : x.key = y.key /\ x.value = y.value
  BY <1>10, Zenon
<1>18. QED BY <1>2, <1>10, <1>12, <1>13, <1>14, <1>15, <1>16, <1>17, QuietStep, Zenon

(* The rest of a sequence.                                                 *)
LEMMA TailOf ==
  ASSUME NEW T, NEW s \in Seq(T), s # <<>>
  PROVE  /\ Head(s) = s[1] /\ 1 \in 1 .. Len(s)
         /\ Tail(s) \in Seq(T) /\ Len(Tail(s)) = Len(s) - 1
         /\ \A i \in 1 .. Len(Tail(s)) : Tail(s)[i] = s[i + 1] /\ i + 1 \in 1 .. Len(s)
         /\ Len(s) # 1 => Tail(s) # <<>>
<1>1. Len(s) \in Nat /\ Len(s) >= 1 /\ Head(s) = s[1]
  OBVIOUS
<1>2. /\ Tail(s) \in Seq(T) /\ Len(Tail(s)) = Len(s) - 1
      /\ \A i \in 1 .. Len(s) - 1 : Tail(s)[i] = s[i + 1]
  OBVIOUS
<1>3. 1 \in 1 .. Len(s) /\ \A i \in 1 .. Len(s) - 1 : i + 1 \in 1 .. Len(s)
  BY <1>1
<1>4. Len(s) # 1 => Tail(s) # <<>>
  BY <1>1, <1>2
<1>5. QED BY <1>1, <1>2, <1>3, <1>4, Zenon

(* One element stored, or skipped.                                         *)
LEMMA FillStep ==
  ASSUME CoherenceInv, NEW r \in Requests, NEW size \in Sizes, NEW ttl \in TTLs, Fill(r, size, ttl)
  PROVE  CoherenceInv'
<1> DEFINE s == req[r]
           g == got[r]
           t == Tail(s)
           u == Tail(g)
           next == IF Len(s) = 1 THEN "filled" ELSE "fill"
<1>1. /\ CacheInv(Nat) /\ FlowTypes /\ FreshUnlessRaced
      /\ \A q \in Requests : Shape(q) /\ Deleted(q) /\ StaleRaced(q)
  BY CoherenceFacts, Zenon
<1>2. /\ pc[r] = "fill" /\ pc' = [pc EXCEPT ![r] = next]
      /\ req' = [req EXCEPT ![r] = t] /\ got' = [got EXCEPT ![r] = u]
      /\ write' = write /\ version' = version /\ raced' = raced
      /\ IF Head(g) = None THEN UNCHANGED cacheVars ELSE Set(Head(s), Head(g), size, ttl)
  BY Zenon DEF Fill
<1>3. /\ pc \in [Requests -> States] /\ got \in [Requests -> Seq(Nat \cup {None})]
      /\ req \in [Requests -> Seq(Keys \cup {None})]
  BY <1>1, Zenon DEF FlowTypes
<1>4. s \in Seq(Keys \cup {None}) /\ g \in Seq(Nat \cup {None})
  BY <1>1, Typed, Zenon
<1>5. /\ s # <<>> /\ Len(g) = Len(s)
      /\ \A i \in 1 .. Len(s) : g[i] # None => s[i] \in Keys
      /\ \A i \in 1 .. Len(s) : g[i] # None /\ g[i] < version[s[i]] => s[i] \in raced
  BY <1>1, <1>2, Zenon DEF Shape, StaleRaced
<1> HIDE DEF s, g, next
<1>6. g # <<>>
  <2>1. Len(s) # 0
    BY <1>4, <1>5
  <2>2. Len(<<>>) = 0
    BY Zenon
  <2>3. QED BY <1>5, <2>1, <2>2, Zenon
<1>7. /\ Head(s) = s[1] /\ 1 \in 1 .. Len(s) /\ t \in Seq(Keys \cup {None})
      /\ Len(t) = Len(s) - 1 /\ (Len(s) # 1 => t # <<>>)
      /\ \A i \in 1 .. Len(t) : t[i] = s[i + 1] /\ i + 1 \in 1 .. Len(s)
  BY <1>4, <1>5, TailOf, Zenon DEF t
<1>8. /\ Head(g) = g[1] /\ u \in Seq(Nat \cup {None}) /\ Len(u) = Len(g) - 1
      /\ \A i \in 1 .. Len(u) : u[i] = g[i + 1]
  BY <1>4, <1>6, TailOf, Zenon DEF u
<1> HIDE DEF t, u
<1>9. Len(u) = Len(t)
  BY <1>5, <1>7, <1>8, Zenon
<1>10. /\ pc'[r] = next /\ req'[r] = t /\ got'[r] = u
       /\ \A q \in Requests : q # r => pc'[q] = pc[q] /\ req'[q] = req[q] /\ got'[q] = got[q]
  BY <1>2, <1>3, Zenon
<1>11. next \in {"filled", "fill"} /\ (next = "fill" => t # <<>>)
  BY <1>7, Zenon DEF next
<1>12. FlowTypes'
  <2>1. next \in States
    BY <1>11, Zenon DEF States
  <2>2. /\ pc' \in [Requests -> States] /\ got' \in [Requests -> Seq(Nat \cup {None})]
        /\ req' \in [Requests -> Seq(Keys \cup {None})]
    BY <1>2, <1>3, <1>7, <1>8, <2>1, Zenon
  <2>3. QED BY <1>1, <1>2, <2>2, Zenon DEF FlowTypes
<1>13. \A i \in 1 .. Len(s) : s[i] \in Range(s)
  BY <1>4, KeyPlaces, Zenon
<1>14. \A k : k \in Range(t) => k \in Range(s)
  <2> SUFFICES ASSUME NEW k \in Range(t) PROVE k \in Range(s)
    BY Zenon
  <2>1. PICK i \in 1 .. Len(t) : t[i] = k
    BY <1>7, KeyPlaces
  <2>2. QED BY <1>7, <1>13, <2>1, Zenon
<1>15. \A k : Reading(k)' => Reading(k)
  BY <1>2, <1>10, <1>14, Zenon DEF Reading, s
<1>16. Head(g) # None => Head(s) \in Keys /\ Head(g) \in Nat /\ Reading(Head(s))
  <2>1. g[1] \in Nat \cup {None}
    BY <1>4, <1>5, <1>7
  <2>2. Reading(s[1])
    BY <1>2, <1>7, <1>13, Zenon DEF Reading, s
  <2>3. QED BY <1>5, <1>7, <1>8, <2>1, <2>2, Zenon
<1>17. /\ CacheInv(Nat)'
       /\ \A x \in Range(lruList') :
            \/ x \in Range(lruList)
            \/ Head(g) # None /\ x.key = Head(s) /\ x.value = Head(g)
  <2>1. CASE Head(g) = None
    BY <1>1, <1>2, <2>1, CacheAlone, Zenon
  <2>2. CASE Head(g) # None
    <3>1. Set(Head(s), Head(g), size, ttl)
      BY <1>2, <2>2, Zenon
    <3>2. QED BY <1>1, <1>16, <2>2, <3>1, SetStep, Zenon
  <2>3. QED BY <2>1, <2>2, Zenon
<1>18. \A k : Covered(k) => Covered(k)'
  <2>1. \A k : k \in KeysOf(lruList') => k \in KeysOf(lruList) \/ Reading(k)
    BY <1>16, <1>17, Zenon DEF KeysOf
  <2>2. QED BY <1>2, <1>15, <2>1, StaysCovered, Zenon
<1>19. \A q \in Requests : q # r => Same(q)
  BY <1>2, <1>10, Zenon DEF Same
<1>20. ASSUME NEW q \in Requests, q # r PROVE Shape(q)' /\ Deleted(q)' /\ StaleRaced(q)'
  <2>1. Same(q) /\ Shape(q) /\ Deleted(q) /\ StaleRaced(q)
    BY <1>1, <1>19, <1>20, Zenon
  <2>2. StaleRaced(q)'
    BY <1>1, <1>2, <2>1, SameStale, Zenon
  <2>3. Deleted(q)'
    BY <1>18, <2>1, SameDeleted, Zenon
  <2>4. QED BY <2>1, <2>2, <2>3, SameShape, Zenon
<1>21. Shape(r)' /\ Deleted(r)' /\ StaleRaced(r)'
  <2>1. pc'[r] # "idle" /\ pc'[r] # "lookup" /\ pc'[r] # "forward"
        /\ pc'[r] \notin {"invalidate", "invalidateBatch", "write"}
        /\ pc'[r] # "write" /\ pc'[r] # "invalidateBatch"
    BY <1>10, <1>11, Zenon
  <2>2. pc'[r] = "fill" => req'[r] # <<>>
    BY <1>10, <1>11, Zenon
  <2>3. /\ Len(got'[r]) = Len(req'[r])
        /\ \A i \in 1 .. Len(req'[r]) : got'[r][i] # None => req'[r][i] \in Keys
    <3>1. \A i \in 1 .. Len(t) : u[i] # None => t[i] \in Keys
      BY <1>5, <1>7, <1>8, <1>9, Zenon
    <3>2. QED BY <1>9, <1>10, <3>1, Zenon
  <2>4. \A i \in 1 .. Len(t) :
          u[i] # None /\ u[i] < version[t[i]] => t[i] \in raced
    BY <1>5, <1>7, <1>8, <1>9, Zenon
  <2>5. StaleRaced(r)'
    <3> SUFFICES ASSUME NEW i \in 1 .. Len(req'[r]), got'[r][i] # None,
                        got'[r][i] < version'[req'[r][i]]
                 PROVE  req'[r][i] \in raced'
      BY Zenon DEF StaleRaced
    <3>1. i \in 1 .. Len(t) /\ u[i] # None /\ u[i] < version[t[i]]
      BY <1>2, <1>10, Zenon
    <3>2. t[i] \in raced
      BY <2>4, <3>1, Zenon
    <3>3. raced' = raced /\ req'[r] = t
      BY <1>2, <1>10, Zenon
    <3>4. QED BY <3>2, <3>3, Zenon
  <2>6. QED BY <2>1, <2>2, <2>3, <2>5, Zenon DEF Shape, Deleted
<1>22. FreshUnlessRaced'
  <2> SUFFICES ASSUME NEW x \in Range(lruList'), x.value < version[x.key] PROVE x.key \in raced
    BY <1>2, Zenon DEF FreshUnlessRaced
  <2>1. CASE x \in Range(lruList)
    BY <1>1, <2>1, Zenon DEF FreshUnlessRaced
  <2>2. CASE Head(g) # None /\ x.key = Head(s) /\ x.value = Head(g)
    BY <1>5, <1>7, <1>8, <2>2, Zenon
  <2>3. QED BY <1>17, <2>1, <2>2, Zenon
<1>23. \A q \in Requests : Shape(q)' /\ Deleted(q)' /\ StaleRaced(q)'
  BY <1>20, <1>21, Zenon
<1>24. QED BY <1>12, <1>17, <1>22, <1>23, Zenon DEF CoherenceInv

(* Keys are deleted: those still being read race.                          *)
LEMMA DeleteCovers ==
  ASSUME CacheInv(Nat), NEW ks, Delete(ks), raced' = RacedAfterDelete(ks),
         \A k : Reading(k)' => Reading(k)
  PROVE  /\ \A k : Covered(k) => Covered(k)'
         /\ \A k \in ks : Covered(k)'
<1>1. \A x \in Range(lruList') : x \in Range(lruList) /\ x.key \notin ks
  BY DeleteStep, Zenon
<1>2. \A k : k \in KeysOf(lruList') => k \in KeysOf(lruList) /\ k \notin ks
  BY <1>1, Zenon DEF KeysOf
<1>3. \A k : k \in raced' <=> (k \in raced /\ k \notin ks) \/ (k \in ks /\ Reading(k))
  BY Zenon DEF RacedAfterDelete
<1>4. ASSUME NEW k, Covered(k) PROVE Covered(k)'
  BY <1>2, <1>3, <1>4, Zenon DEF Covered
<1>5. ASSUME NEW k \in ks PROVE Covered(k)'
  BY <1>2, <1>3, <1>5, Zenon DEF Covered
<1>6. QED BY <1>4, <1>5, Zenon

(* A step that deletes keys for a write.                                   *)
LEMMA DeletingStep ==
  ASSUME CoherenceInv, NEW r \in Requests, NEW ks, Delete(ks), raced' = RacedAfterDelete(ks),
         NEW next \in {"invalidateBatch", "write"}, pc' = [pc EXCEPT ![r] = next],
         pc[r] \in {"invalidate", "invalidateBatch"},
         req' = req, write' = write, got' = got, version' = version,
         \A k \in Changed(write[r]) :
           next = "write" \/ k \in ResourceKeys(write[r]) => k \in ks \/ Covered(k)
  PROVE  CoherenceInv'
<1>1. /\ CacheInv(Nat) /\ FlowTypes /\ FreshUnlessRaced
      /\ \A q \in Requests : Shape(q) /\ Deleted(q) /\ StaleRaced(q)
  BY CoherenceFacts, Zenon
<1>2. pc \in [Requests -> States]
  BY <1>1, Zenon DEF FlowTypes
<1>3. pc'[r] = next /\ \A q \in Requests : q # r => pc'[q] = pc[q]
  BY <1>2, Zenon
<1>4. FlowTypes'
  <2>1. next \in States
    BY Zenon DEF States
  <2>2. pc' \in [Requests -> States]
    BY <1>2, <2>1, Zenon
  <2>3. QED BY <1>1, <2>2, Zenon DEF FlowTypes
<1>5. \A q \in Requests : q # r => Same(q)
  BY <1>3, Zenon DEF Same
<1>6. \A k : Reading(k)' => Reading(k)
  BY <1>3, Zenon DEF Reading
<1>7. (\A k : Covered(k) => Covered(k)') /\ \A k \in ks : Covered(k)'
  BY <1>1, <1>6, DeleteCovers, Zenon
<1>8. CacheInv(Nat)' /\ \A x \in Range(lruList') : x \in Range(lruList) /\ x.key \notin ks
  BY <1>1, DeleteStep, Zenon
<1>9. \A k : /\ k \in raced /\ Reading(k) => k \in raced'
             /\ k \in raced /\ k \notin ks => k \in raced'
  BY Zenon DEF RacedAfterDelete
<1>10. ASSUME NEW q \in Requests, q # r PROVE Shape(q)' /\ Deleted(q)' /\ StaleRaced(q)'
  <2>1. Same(q) /\ Shape(q) /\ Deleted(q) /\ StaleRaced(q)
    BY <1>1, <1>5, <1>10, Zenon
  <2>2. StaleRaced(q)'
    BY <1>1, <1>9, <2>1, SameStale, Zenon
  <2>3. Deleted(q)'
    BY <1>7, <2>1, SameDeleted, Zenon
  <2>4. QED BY <2>1, <2>2, <2>3, SameShape, Zenon
<1>11. Shape(r)' /\ Deleted(r)' /\ StaleRaced(r)'
  <2>1. write[r] \in Writes
    BY <1>1, Zenon DEF Shape
  <2>2. \A k \in Changed(write[r]) : next = "write" \/ k \in ResourceKeys(write[r]) => Covered(k)'
    BY <1>7, Zenon
  <2>3. Deleted(r)'
    BY <1>3, <2>2, Zenon DEF Deleted
  <2>4. QED BY <1>3, <2>1, <2>3, Zenon DEF Shape, StaleRaced
<1>12. FreshUnlessRaced'
  BY <1>1, <1>8, <1>9, StaysFresh, Zenon
<1>13. \A q \in Requests : Shape(q)' /\ Deleted(q)' /\ StaleRaced(q)'
  BY <1>10, <1>11, Zenon
<1>14. QED BY <1>4, <1>8, <1>12, <1>13, Zenon DEF CoherenceInv

(* InvalidateOnMutation, first the entries of GETs.                        *)
LEMMA InvalidateStep ==
  ASSUME CoherenceInv, NEW r \in Requests, Invalidate(r)
  PROVE  CoherenceInv'
<1> DEFINE ks == ResourceKeys(write[r])
<1>1. /\ pc[r] = "invalidate" /\ Delete(ks) /\ raced' = RacedAfterDelete(ks)
      /\ pc' = [pc EXCEPT ![r] = "invalidateBatch"]
      /\ req' = req /\ write' = write /\ got' = got /\ version' = version
  BY Zenon DEF Invalidate
<1>2. "invalidateBatch" # "write"
  BY Zenon
<1>3. \A k \in Changed(write[r]) :
        "invalidateBatch" = "write" \/ k \in ResourceKeys(write[r]) => k \in ks \/ Covered(k)
  BY <1>2, Zenon
<1> HIDE DEF ks
<1>4. QED BY <1>1, <1>3, DeletingStep, Zenon

(* Then the batch elements; all it may change has been deleted now.        *)
LEMMA InvalidateBatchStep ==
  ASSUME CoherenceInv, NEW r \in Requests, InvalidateBatch(r)
  PROVE  CoherenceInv'
<1> DEFINE ks == invalidateBatchListingOffers(write[r])
<1>1. Shape(r) /\ Deleted(r)
  BY CoherenceFacts, Zenon
<1>2. /\ pc[r] = "invalidateBatch" /\ Delete(ks) /\ raced' = RacedAfterDelete(ks)
      /\ pc' = [pc EXCEPT ![r] = "write"]
      /\ req' = req /\ write' = write /\ got' = got /\ version' = version
  BY Zenon DEF InvalidateBatch
<1>3. write[r] \in Writes
  BY <1>1, <1>2, Zenon DEF Shape
<1>4. \A k \in Changed(write[r]) : k \in ResourceKeys(write[r]) \/ k \in ks
  BY <1>3, ChangedDeleted, Zenon
<1> HIDE DEF ks
<1>5. \A k \in Changed(write[r]) :
        "write" = "write" \/ k \in ResourceKeys(write[r]) => k \in ks \/ Covered(k)
  BY <1>1, <1>2, <1>4, Zenon DEF Deleted
<1>6. QED BY <1>2, <1>5, DeletingStep, Zenon

(* Amazon applies the write: what it makes stale races.                    *)
LEMMA WriteStep ==
  ASSUME CoherenceInv, NEW r \in Requests, Write(r)
  PROVE  CoherenceInv'
<1> DEFINE W == Changed(write[r])
<1>1. /\ CacheInv(Nat) /\ FlowTypes /\ FreshUnlessRaced
      /\ \A q \in Requests : Shape(q) /\ Deleted(q) /\ StaleRaced(q)
  BY CoherenceFacts, Zenon
<1>2. /\ pc[r] = "write" /\ UNCHANGED cacheVars
      /\ req' = req /\ write' = write /\ got' = got /\ raced' = raced
  BY Zenon DEF Write
<1>3. PICK next \in {"written", "refused"} : pc' = [pc EXCEPT ![r] = next]
  BY Zenon DEF Write
<1>4. pc \in [Requests -> States] /\ version \in [Keys -> Nat]
  BY <1>1, Zenon DEF FlowTypes
<1>5. /\ version' \in [Keys -> Nat]
      /\ \A k \in Keys : k \notin W => version'[k] = version[k]
  <2>1. CASE version' = [k \in Keys |-> version[k] + IF k \in W THEN 1 ELSE 0]
    BY <1>4, <2>1
  <2>2. CASE version' = version
    BY <1>4, <2>2, Zenon
  <2>3. QED BY <2>1, <2>2, Zenon DEF Write
<1>6. pc'[r] = next /\ \A q \in Requests : q # r => pc'[q] = pc[q]
  BY <1>3, <1>4, Zenon
<1>7. CacheInv(Nat)' /\ lruList' = lruList
  BY <1>1, <1>2, CacheAlone, Zenon
<1>8. FlowTypes'
  <2>1. next \in States
    BY Zenon DEF States
  <2>2. pc' \in [Requests -> States]
    BY <1>3, <1>4, <2>1, Zenon
  <2>3. QED BY <1>1, <1>2, <1>5, <2>2, Zenon DEF FlowTypes
<1>9. \A k \in W : Covered(k)
  BY <1>1, <1>2, Zenon DEF Deleted
<1> HIDE DEF W
<1>10. \A q \in Requests : q # r => Same(q)
  BY <1>2, <1>6, Zenon DEF Same
<1>11. pc'[r] \notin {"lookup", "forward", "fill"}
  BY <1>6, Zenon
<1>12. \A k : Reading(k)' => Reading(k)
  BY <1>2, <1>6, <1>11, Zenon DEF Reading
<1>13. \A k : Covered(k) => Covered(k)'
  BY <1>2, <1>7, <1>12, StaysCovered, Zenon
<1>14. ASSUME NEW q \in Requests, q # r PROVE Shape(q)' /\ Deleted(q)' /\ StaleRaced(q)'
  <2>1. Same(q) /\ Shape(q) /\ Deleted(q) /\ StaleRaced(q)
    BY <1>1, <1>10, <1>14, Zenon
  <2>2. Deleted(q)'
    BY <1>13, <2>1, SameDeleted, Zenon
  <2>3. StaleRaced(q)'
    <3> SUFFICES ASSUME pc[q] = "fill", NEW i \in 1 .. Len(req[q]), got[q][i] # None,
                        got[q][i] < version'[req[q][i]]
                 PROVE  req[q][i] \in raced
      BY <1>2, <2>1, Zenon DEF Same, StaleRaced
    <3> DEFINE k == req[q][i]
    <3>1. k \in Keys
      BY <2>1, Zenon DEF Shape
    <3>2. req[q] \in Seq(Keys \cup {None})
      BY <1>1, Typed, Zenon
    <3>3. k \in Range(req[q])
      BY <3>2, KeyPlaces, Zenon
    <3>4. Reading(k)
      BY <3>3, Zenon DEF Reading
    <3>5. CASE k \in W
      BY <1>9, <3>4, <3>5, Zenon DEF Covered
    <3>6. CASE k \notin W
      <4>1. version'[k] = version[k]
        BY <1>5, <3>1, <3>6, Zenon
      <4>2. got[q][i] < version[k]
        BY <4>1, Zenon
      <4>3. QED BY <2>1, <4>2, Zenon DEF StaleRaced
    <3>7. QED BY <3>5, <3>6, Zenon
  <2>4. QED BY <2>1, <2>2, <2>3, SameShape, Zenon
<1>15. Shape(r)' /\ Deleted(r)' /\ StaleRaced(r)'
  <2>1. /\ pc'[r] \notin {"invalidate", "invalidateBatch", "write"}
        /\ pc'[r] \notin {"invalidateBatch", "write"} /\ pc'[r] \notin {"forward", "fill"}
        /\ pc'[r] # "idle" /\ pc'[r] # "lookup" /\ pc'[r] # "fill"
    BY <1>6, Zenon
  <2>2. QED BY <2>1, Zenon DEF Shape, Deleted, StaleRaced
<1>16. FreshUnlessRaced'
  <2> SUFFICES ASSUME NEW x \in Range(lruList), x.value < version'[x.key] PROVE x.key \in raced
    BY <1>2, <1>7, Zenon DEF FreshUnlessRaced
  <2>1. x.key \in Keys
    BY <1>1, EntryHeld, Zenon
  <2>2. x.key \in KeysOf(lruList)
    BY Zenon DEF KeysOf
  <2>3. CASE x.key \in W
    BY <1>9, <2>2, <2>3, Zenon DEF Covered
  <2>4. CASE x.key \notin W
    <3>1. version'[x.key] = version[x.key]
      BY <1>5, <2>1, <2>4, Zenon
    <3>2. x.value < version[x.key]
      BY <3>1, Zenon
    <3>3. QED BY <1>1, <3>2, Zenon DEF FreshUnlessRaced
  <2>5. QED BY <2>3, <2>4, Zenon
<1>17. \A q \in Requests : Shape(q)' /\ Deleted(q)' /\ StaleRaced(q)'
  BY <1>14, <1>15, Zenon
<1>18. QED BY <1>7, <1>8, <1>16, <1>17, Zenon DEF CoherenceInv

(* A step of the cache itself.                                             *)
LEMMA OwnStep ==
  ASSUME CoherenceInv, UNCHANGED flowVars, CacheInv(Nat)',
         \A x \in Range(lruList') : \E y \in Range(lruList) : x.key = y.key /\ x.value = y.value
  PROVE  CoherenceInv'
<1>1. /\ CacheInv(Nat) /\ FlowTypes /\ FreshUnlessRaced
      /\ \A q \in Requests : Shape(q) /\ Deleted(q) /\ StaleRaced(q)
  BY CoherenceFacts, Zenon
<1>2. pc' = pc /\ req' = req /\ write' = write /\ got' = got /\ version' = version /\ raced' = raced
  BY Zenon DEF flowVars
<1>3. FlowTypes'
  BY <1>1, <1>2, Zenon DEF FlowTypes
<1>4. \A k : Reading(k)' => Reading(k)
  BY <1>2, Zenon DEF Reading
<1>5. \A k : k \in KeysOf(lruList') => k \in KeysOf(lruList)
  BY FewerKeys, Zenon
<1>6. \A k : Covered(k) => Covered(k)'
  BY <1>2, <1>4, <1>5, StaysCovered, Zenon
<1>7. ASSUME NEW q \in Requests PROVE Shape(q)' /\ Deleted(q)' /\ StaleRaced(q)'
  <2>1. Same(q) /\ Shape(q) /\ Deleted(q) /\ StaleRaced(q)
    BY <1>1, <1>2, Zenon DEF Same
  <2>2. StaleRaced(q)'
    BY <1>1, <1>2, <2>1, SameStale, Zenon
  <2>3. Deleted(q)'
    BY <1>6, <2>1, SameDeleted, Zenon
  <2>4. QED BY <2>1, <2>2, <2>3, SameShape, Zenon
<1>8. FreshUnlessRaced'
  BY <1>1, <1>2, StaysFresh, Zenon
<1>9. QED BY <1>3, <1>7, <1>8, Zenon DEF CoherenceInv

(* Nothing is cached at first.                                             *)
LEMMA CoherenceStarts ==
  ASSUME Init
  PROVE  CoherenceInv
<1>1. /\ NewMemoryCache /\ pc = [q \in Requests |-> "idle"] /\ req = [q \in Requests |-> <<>>]
      /\ write = [q \in Requests |-> None] /\ got = [q \in Requests |-> <<>>]
      /\ version = [k \in Keys |-> 0]
  BY Zenon DEF Init
<1>2. CacheInv(Nat)
  BY <1>1, NewCacheSound, Zenon
<1>3. FlowTypes
  <2>1. /\ "idle" \in States /\ 0 \in Nat
        /\ <<>> \in Seq(Keys \cup {None}) /\ <<>> \in Seq(Nat \cup {None})
    BY DEF States
  <2>2. QED BY <1>1, <2>1, Zenon DEF FlowTypes
<1>4. ASSUME NEW q \in Requests PROVE Shape(q) /\ Deleted(q) /\ StaleRaced(q)
  <2>1. pc[q] = "idle" /\ got[q] = <<>>
    BY <1>1, Zenon
  <2>2. QED BY <2>1, Zenon DEF Shape, Deleted, StaleRaced
<1>5. FreshUnlessRaced
  <2>1. lruList = <<>> /\ <<>> \in Seq(Keys) /\ ~ \E i \in 1 .. Len(<<>>) : TRUE
    BY <1>1 DEF NewMemoryCache
  <2>2. ~ \E e \in Range(<<>>) : TRUE
    BY <2>1, KeyPlaces, Zenon
  <2>3. QED BY <2>1, <2>2, Zenon DEF FreshUnlessRaced
<1>6. QED BY <1>2, <1>3, <1>4, <1>5, Zenon DEF CoherenceInv

(* The inductive invariant of the middleware.                              *)
THEOREM CoherenceInvariant == Spec => []CoherenceInv
<1>1. Init => CoherenceInv
  BY CoherenceStarts, Zenon
<1>2. CoherenceInv /\ [Next]_vars => CoherenceInv'
  <2> SUFFICES ASSUME CoherenceInv, [Next]_vars PROVE CoherenceInv'
    BY Zenon
  <2>1. ASSUME NEW r \in Requests,
               \/ \E keys \in Reads : ArriveRead(r, keys) \/ ArriveUncached(r, keys)
               \/ \E w \in Writes : ArriveWrite(r, w)
               \/ Lookup(r)
               \/ Forward(r)
               \/ \E s \in Sizes, t \in TTLs : Fill(r, s, t)
               \/ Invalidate(r)
               \/ InvalidateBatch(r)
               \/ Write(r)
        PROVE  CoherenceInv'
    BY <2>1, ArriveReadStep, ArriveUncachedStep, ArriveWriteStep, LookupStep, ForwardStep, FillStep,
       InvalidateStep, InvalidateBatchStep, WriteStep, Zenon
  <2>2. CASE evictExpired /\ UNCHANGED flowVars
    <3>1. CacheInv(Nat)' /\ \A x \in Range(lruList') : x \in Range(lruList)
      BY <2>2, CoherenceFacts, SweepStep, Zenon
    <3>2. QED BY <2>2, <3>1, OwnStep, Zenon
  <2>3. CASE CacheTick /\ UNCHANGED flowVars
    BY <2>3, CoherenceFacts, TickStep, OwnStep, Zenon
  <2>4. CASE UNCHANGED vars
    <3>1. UNCHANGED cacheVars /\ UNCHANGED flowVars
      BY <2>4, Zenon DEF vars
    <3>2. CacheInv(Nat)' /\ lruList' = lruList
      BY <3>1, CoherenceFacts, CacheAlone, Zenon
    <3>3. QED BY <3>1, <3>2, OwnStep, Zenon
  <2>5. QED BY <2>1, <2>2, <2>3, <2>4, Zenon DEF Next
<1>3. QED BY <1>1, <1>2, PTL DEF Spec

(* A stale response is cached only for a key that was read through the     *)
(* cache while being written: what InvalidateOnMutation deletes leaves     *)
(* nothing behind that a write without such a reader makes stale, for any  *)
(* keys, reads, writes and number of goroutines.                           *)
THEOREM StaleOnlyIfRaced == Spec => []FreshUnlessRaced
<1>1. CoherenceInv => FreshUnlessRaced
  BY Zenon DEF CoherenceInv
<1>2. QED BY <1>1, CoherenceInvariant, PTL

-----------------------------------------------------------------------------
(* Counting, for the cache by itself.                                      *)

INSTANCE FiniteSetTheorems

(* As many entries as keys.                                                *)
LEMMA OnePerKey ==
  ASSUME NEW V, NEW c, Proper(c, V)
  PROVE  Len(c.list) = Cardinality(c.keys)
<1> DEFINE s == c.list
           f == [i \in 1 .. Len(s) |-> s[i].key]
<1>1. s \in Seq(Held(V)) /\ Len(s) \in Nat /\ Distinct(s) /\ c.keys = KeysOf(s)
  BY DEF Proper
<1> HIDE DEF s
<1>2. \A k : k \in KeysOf(s) <=> \E i \in 1 .. Len(s) : s[i].key = k
  BY <1>1, KeyPlaces, Zenon
<1>3. f \in [1 .. Len(s) -> KeysOf(s)]
  BY <1>2, Zenon
<1>4. f \in Bijection(1 .. Len(s), KeysOf(s))
  BY <1>1, <1>2, <1>3, Zenon DEF Bijection, Injection, Surjection, IsInjective, Distinct
<1>5. ExistsBijection(1 .. Len(s), KeysOf(s))
  BY <1>4, Zenon DEF ExistsBijection
<1>6. QED BY <1>1, <1>5, FS_CountingElements, Zenon DEF s

(* Map, list and byte count of memory.go describe the same entries, and    *)
(* the limit holds but for a single entry larger than it by itself.        *)
THEOREM CacheStaysConsistent == CacheSpec => []CacheConsistent
<1>1. CacheInv(Values) => CacheConsistent
  <2> SUFFICES ASSUME CacheInv(Values) PROVE CacheConsistent
    BY Zenon
  <2>1. /\ Proper(Cache, Values) /\ Fits(Cache)
        /\ Cache.list = lruList /\ Cache.keys = entries /\ Cache.used = usedBytes
    BY CacheFacts, Zenon
  <2>2. Len(lruList) = Cardinality(entries)
    BY <2>1, OnePerKey, Zenon
  <2>3. entries = KeysOf(lruList) /\ usedBytes = Bytes(lruList)
    BY <2>1, Zenon DEF Proper
  <2>4. QED BY <2>1, <2>2, <2>3, Zenon DEF CacheConsistent, Fits
<1>2. QED BY <1>1, CacheInvariant, PTL

=============================================================================
