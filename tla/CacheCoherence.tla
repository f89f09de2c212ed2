--------------------------- MODULE CacheCoherence ---------------------------
(***************************************************************************)
(* The cache middleware (internal/cache) over MemoryCache and Amazon's     *)
(* API.  Cached reads (a GET, a body-hashed POST, a batch of elements)     *)
(* look their keys up, forward on a miss and store what came back; writes  *)
(* first delete the keys they may make stale and then are forwarded.  The  *)
(* lock is taken per Get, Set and DeleteByPrefix, so requests interleave   *)
(* between them.  A response is the version of what it shows.              *)
(***************************************************************************)
EXTENDS MemoryCache

CONSTANTS
  Requests,  \* handler goroutines, one request each
  Reads,     \* sequences of keys a read may ask for; one key unless a batch,
             \* where None is an element no key can be extracted from
  Writes,    \* records with a merchant, a method and a path
  Begins,    \* pairs of segments <<s, t>> where s is a string prefix of t
  None

ASSUME CoherenceConstants ==
  /\ None \notin Keys
  /\ None \notin Nat
  /\ Reads \subseteq Seq(Keys \cup {None}) \ {<<>>}
  /\ \A w \in Writes : w.path \in Seq(STRING)

VARIABLES
  pc,
  req,       \* the keys a goroutine reads
  write,     \* the write it serves, or None
  got,       \* the versions a read has so far, None where it has none
  version,   \* external: the current version of what each key shows
  needs,     \* history: the versions written when a read arrived
  raced      \* history: keys read through the cache while being written

flowVars == <<pc, req, write, got, version, needs, raced>>
vars == <<cacheVars, flowVars>>

(* A key is a record with the merchant, the kind of request ("GET", "POST" *)
(* or "BATCH") and the path, a sequence of segments.                       *)

Init ==
  /\ NewMemoryCache
  /\ pc = [r \in Requests |-> "idle"]
  /\ req = [r \in Requests |-> <<>>]
  /\ write = [r \in Requests |-> None]
  /\ got = [r \in Requests |-> <<>>]
  /\ version = [k \in Keys |-> 0]
  /\ needs = [r \in Requests |-> <<>>]
  /\ raced = {}

----------------------------------------------------------------------------
(* Which keys a write deletes.                                             *)

(* Mutant: the whole path is the prefix.                                   *)
ExtractWholePath(path) == path

(* The last of more than three segments is taken for an ID.                *)
ExtractResourcePrefix(path) ==
  IF Len(path) <= 3 THEN path ELSE SubSeq(path, 1, Len(path) - 1)

(* strings.HasPrefix does not stop at the end of a segment.                *)
HasPrefix(path, prefix) ==
  LET n == Len(prefix)
  IN /\ n <= Len(path)
     /\ \A i \in 1 .. n - 1 : path[i] = prefix[i]
     /\ path[n] = prefix[n] \/ <<prefix[n], path[n]>> \in Begins

ResourceKeys(w) ==
  {k \in Keys : /\ k.merchant = w.merchant
                /\ k.kind = "GET"
                /\ HasPrefix(k.path, ExtractResourcePrefix(w.path))}

(* The SKU of a listing's path, if it has one: all that follows the seller *)
(* after the first "items".                                                *)
ListingSku(path) ==
  {SubSeq(path, i + 2, Len(path)) :
     i \in {n \in 2 .. Len(path) - 2 : /\ path[1] = "listings" /\ path[n] = "items"
                                       /\ \A m \in 2 .. n - 1 : path[m] # "items"}}

(* Only PUT and PATCH invalidate the offers of a listing's SKU.            *)
invalidateBatchListingOffers(w) ==
  {k \in Keys : /\ w.method \in {"PUT", "PATCH"}
                /\ k.merchant = w.merchant
                /\ k.kind = "BATCH"
                /\ \E sku \in ListingSku(w.path) : k.path = <<"listingOffers">> \o sku}

(* External: the path of a listing, whose second segment is a version.     *)
IsListing(path) ==
  Len(path) = 5 /\ path[1] = "listings" /\ path[2] # "items" /\ path[3] = "items"

(* External: what a write changes at Amazon, as far as the documentation   *)
(* promises to follow it: the resource, the collection that holds it and,  *)
(* for an updated listing, the offers of its SKU.                          *)
Changed(w) ==
  {k \in Keys : /\ k.merchant = w.merchant
                /\ k.kind = "GET"
                /\ \/ k.path = w.path
                   \/ Len(w.path) > 3 /\ k.path = SubSeq(w.path, 1, Len(w.path) - 1)}
    \cup {k \in Keys : /\ k.merchant = w.merchant
                       /\ k.kind = "BATCH"
                       /\ w.method \in {"PUT", "PATCH"}
                       /\ IsListing(w.path)
                       /\ k.path = <<"listingOffers">> \o SubSeq(w.path, 5, 5)}

----------------------------------------------------------------------------

Reading(k) ==
  \E r \in Requests : pc[r] \in {"lookup", "forward", "fill"} /\ k \in Range(req[r])

Writing(k) ==
  \E r \in Requests : /\ pc[r] \in {"invalidate", "invalidateBatch", "write"}
                      /\ k \in Changed(write[r])

(* The keys deleted start afresh, unless a read is on its way.             *)
RacedAfterDelete(ks) == (raced \ ks) \cup {k \in ks : Reading(k)}

Current(k) == IF k = None THEN None ELSE version[k]

(* A read the cache may answer.                                            *)
ArriveRead(r, keys) ==
  /\ pc[r] = "idle"
  /\ pc' = [pc EXCEPT ![r] = "lookup"]
  /\ req' = [req EXCEPT ![r] = keys]
  /\ needs' = [needs EXCEPT ![r] = [i \in DOMAIN keys |-> Current(keys[i])]]
  /\ raced' = raced \cup {k \in Range(keys) : Writing(k)}
  /\ UNCHANGED <<cacheVars, write, got, version>>

(* An endpoint never cached, personal data or X-SP-Proxy-No-Cache.         *)
ArriveUncached(r, keys) ==
  /\ pc[r] = "idle"
  /\ pc' = [pc EXCEPT ![r] = "bypass"]
  /\ req' = [req EXCEPT ![r] = keys]
  /\ needs' = [needs EXCEPT ![r] = [i \in DOMAIN keys |-> Current(keys[i])]]
  /\ UNCHANGED <<cacheVars, write, got, version, raced>>

(* One Get; after the last key the read is answered if all were found.     *)
Lookup(r) ==
  /\ pc[r] = "lookup"
  /\ LET k == req[r][Len(got[r]) + 1]
         found == Append(got[r], IF Hit(k) THEN EntryOf(k).value ELSE None)
     IN /\ IF k = None THEN UNCHANGED cacheVars ELSE Get(k)
        /\ got' = [got EXCEPT ![r] = found]
        /\ pc' = [pc EXCEPT ![r] = CASE Len(found) < Len(req[r]) -> "lookup"
                                     [] None \in Range(found)     -> "forward"
                                     [] OTHER                     -> "answered"]
  /\ UNCHANGED <<req, write, version, needs, raced>>

(* The whole request goes upstream, whatever was found.  Any element may   *)
(* fail, all of them when the status is not 2xx.  The client is answered.  *)
Forward(r) ==
  /\ pc[r] \in {"forward", "bypass"}
  /\ \E failed \in SUBSET DOMAIN req[r] :
       got' = [got EXCEPT ![r] =
                 [i \in DOMAIN req[r] |-> IF i \in failed THEN None ELSE Current(req[r][i])]]
  /\ pc' = [pc EXCEPT ![r] = IF @ = "bypass" THEN "answered" ELSE "fill"]
  /\ UNCHANGED <<cacheVars, req, write, version, needs, raced>>

(* The elements that succeeded are stored one by one, in order.  req[r]    *)
(* keeps the ones still to do.                                             *)
Fill(r, size, ttl) ==
  /\ pc[r] = "fill"
  /\ IF Head(got[r]) = None
     THEN UNCHANGED cacheVars
     ELSE Set(Head(req[r]), Head(got[r]), size, ttl)
  /\ req' = [req EXCEPT ![r] = Tail(@)]
  /\ got' = [got EXCEPT ![r] = Tail(@)]
  /\ pc' = [pc EXCEPT ![r] = IF Len(req[r]) = 1 THEN "filled" ELSE "fill"]
  /\ UNCHANGED <<write, version, needs, raced>>

ArriveWrite(r, w) ==
  /\ pc[r] = "idle"
  /\ pc' = [pc EXCEPT ![r] = "invalidate"]
  /\ write' = [write EXCEPT ![r] = w]
  /\ UNCHANGED <<cacheVars, req, got, version, needs, raced>>

(* InvalidateOnMutation, the entries of GETs.                              *)
Invalidate(r) ==
  /\ pc[r] = "invalidate"
  /\ Delete(ResourceKeys(write[r]))
  /\ raced' = RacedAfterDelete(ResourceKeys(write[r]))
  /\ pc' = [pc EXCEPT ![r] = "invalidateBatch"]
  /\ UNCHANGED <<req, write, got, version, needs>>

(* InvalidateOnMutation, the elements of listingOffers batches.            *)
InvalidateBatch(r) ==
  /\ pc[r] = "invalidateBatch"
  /\ Delete(invalidateBatchListingOffers(write[r]))
  /\ raced' = RacedAfterDelete(invalidateBatchListingOffers(write[r]))
  /\ pc' = [pc EXCEPT ![r] = "write"]
  /\ UNCHANGED <<req, write, got, version, needs>>

(* Amazon applies the write or refuses it, and the client is answered.     *)
Write(r) ==
  /\ pc[r] = "write"
  /\ \/ /\ version' = [k \in Keys |-> version[k] + IF k \in Changed(write[r]) THEN 1 ELSE 0]
        /\ pc' = [pc EXCEPT ![r] = "written"]
     \/ /\ pc' = [pc EXCEPT ![r] = "refused"]
        /\ UNCHANGED version
  /\ UNCHANGED <<cacheVars, req, write, got, needs, raced>>

Next ==
  \/ \E r \in Requests :
       \/ \E keys \in Reads : ArriveRead(r, keys) \/ ArriveUncached(r, keys)
       \/ \E w \in Writes : ArriveWrite(r, w)
       \/ Lookup(r)
       \/ Forward(r)
       \/ \E s \in Sizes, t \in TTLs : Fill(r, s, t)
       \/ Invalidate(r)
       \/ InvalidateBatch(r)
       \/ Write(r)
  \/ evictExpired /\ UNCHANGED flowVars
  \/ CacheTick /\ UNCHANGED flowVars

Spec == Init /\ [][Next]_vars

----------------------------------------------------------------------------

(* A cached response older than what Amazon holds is there only because a  *)
(* read of its key was under way together with a write: the prefix of      *)
(* ExtractResourcePrefix and the SKU's batch prefix leave nothing behind   *)
(* that a write which met no reader would make stale (invalidation.go).    *)
FreshUnlessRaced ==
  \A e \in Range(lruList) : e.value < version[e.key] => e.key \in raced

(* docs/CACHING.md: once a client's update has been answered, the next GET *)
(* returns data no older than the update.                                  *)
ReadYourWrites ==
  \A r \in Requests :
    pc[r] = "answered" =>
      \A i \in DOMAIN got[r] : got[r][i] # None => got[r][i] >= needs[r][i]

=============================================================================
