----------------------------- MODULE RdtTokens -----------------------------
(***************************************************************************)
(* Restricted data tokens (internal/rdt): the handler that swaps a         *)
(* client's token for a minted one, the token cache, singleflight minting  *)
(* and the tracker of report documents.  The cache and the tracker are     *)
(* shared by all regions; a lane is a region and the client's own token,   *)
(* within which identical mints are joined.  One action is one lock        *)
(* acquisition, one call to Amazon or one answer.                          *)
(***************************************************************************)
EXTENDS Integers, Sequences

CONSTANTS
  Requests,    \* handler goroutines, one request each
  Calls,       \* what they may ask for, records as in Call below
  Restricted,  \* restrictedReportTypes
  Lifetimes,   \* external: lifetimes Amazon gives a token, in ticks
  Margin,      \* safetyMargin
  TTL,         \* of a tracker entry
  MaxTokens,   \* bound on the tokens minted
  None

(* "plain" stands for every request passed through at once: no minter,     *)
(* X-SP-Proxy-Force-RDT "false", not a restricted operation, a token that  *)
(* is an RDT already, or a report created without a type that can be read. *)
(* A resource is the generic path of a restricted operation ("pii"), a     *)
(* concrete path ("force") or a report, by which its document is known too *)
(* ("create", "poll", "download").  The type is that of the report to be   *)
(* created, None in the other calls.                                       *)
Kinds == {"plain", "force", "pii", "create", "poll", "download"}
Call(kind, merchant, resource, lane, type) ==
  [kind |-> kind, merchant |-> merchant, resource |-> resource, lane |-> lane, type |-> type]

ASSUME RdtConstants ==
  /\ \A c \in Calls : c.kind \in Kinds /\ (c.kind = "create" => c.type # None)
  /\ Lifetimes \subseteq Nat
  /\ Margin \in Nat /\ TTL \in Nat /\ MaxTokens \in Nat
  /\ None \notin Nat \cup Restricted

(* Mutant: the key leaves the merchant out.                                *)
BuildCacheKeyShared(c) == <<c.resource>>

(* BuildCacheKey.  The dataElements are a function of the path.            *)
BuildCacheKey(c) == <<c.merchant, c.resource>>
CacheKeys == {BuildCacheKey(c) : c \in Calls}
Reports == {c.resource : c \in {d \in Calls : d.kind \in {"create", "poll", "download"}}}

VARIABLES
  pc, call,
  entries,    \* the token cache: the token of a key, or None
  flights,    \* singleflight's calls under way: <<key, lane, leader>>
  token,      \* the token a request goes on with, None for the client's own
  issued,     \* the tokens minted: for which call, and ticks to expiry
  reports,    \* the tracker: the type of a report and ticks to the entry's expiry
  documents,  \* and those of its document
  rejected,   \* history: tokens some request has invalidated
  displaced,  \* history: live tokens that left the cache for another reason
  created     \* external: the types of the reports Amazon has created

tokenStore == <<entries, flights, token, issued, rejected, displaced>>
tracker == <<reports, documents, created>>
vars == <<pc, call, tokenStore, tracker>>

Untracked == [type |-> None, left |-> 0]

Init ==
  /\ pc = [r \in Requests |-> "idle"]
  /\ call = [r \in Requests |-> None]
  /\ entries = [k \in CacheKeys |-> None]
  /\ flights = {}
  /\ token = [r \in Requests |-> None]
  /\ issued = <<>>
  /\ reports = [p \in Reports |-> Untracked]
  /\ documents = [p \in Reports |-> Untracked]
  /\ rejected = {}
  /\ displaced = {}
  /\ created = [p \in Reports |-> None]

KeyOf(r) == BuildCacheKey(call[r])
Goto(r, l) == pc' = [pc EXCEPT ![r] = l]
Expired(t) == issued[t].left < Margin

(* The live token an entry loses that is not the one it is meant to lose.  *)
Displaced(k, meant) == {t \in {entries[k]} \ {None, meant} : ~Expired(t)}

----------------------------------------------------------------------------

(* Handler: a request arrives and is sorted by header, method and path.    *)
Handler(r, c) ==
  /\ pc[r] = "idle"
  /\ call' = [call EXCEPT ![r] = c]
  /\ Goto(r, CASE c.kind = "pii" -> "get"
               [] c.kind = "force" -> "mint"
               [] c.kind = "download" -> "lookup"
               [] OTHER -> "forward")
  /\ UNCHANGED <<tokenStore, tracker>>

(* handleDocumentDownload: LookupDocumentReportType, IsRestrictedReportType. *)
handleDocumentDownload(r) ==
  /\ pc[r] = "lookup"
  /\ LET entry == documents[call[r].resource]
     IN Goto(r, IF entry.left > 0 /\ entry.type \in Restricted THEN "mint" ELSE "forward")
  /\ UNCHANGED <<call, tokenStore, tracker>>

(* Get, up to RUnlock: at first ("get") or again as the leader of a flight *)
(* ("recheck").  An expired entry is deleted under another lock.           *)
Get(r) ==
  /\ pc[r] \in {"get", "recheck"}
  /\ LET t == entries[KeyOf(r)]
         first == pc[r] = "get"
     IN IF t # None /\ ~Expired(t)
        THEN /\ token' = [token EXCEPT ![r] = t]
             /\ Goto(r, IF first THEN "forward" ELSE "land")
        ELSE /\ Goto(r, CASE t # None -> IF first THEN "drop" ELSE "redrop"
                          [] t = None -> IF first THEN "join" ELSE "mint")
             /\ UNCHANGED token
  /\ UNCHANGED <<call, entries, flights, issued, rejected, displaced, tracker>>

(* Get, the lazy deletion: of whatever the key now holds.                  *)
GetDelete(r) ==
  /\ pc[r] \in {"drop", "redrop"}
  /\ entries' = [entries EXCEPT ![KeyOf(r)] = None]
  /\ displaced' = displaced \cup Displaced(KeyOf(r), None)
  /\ Goto(r, IF pc[r] = "drop" THEN "join" ELSE "mint")
  /\ UNCHANGED <<call, flights, token, issued, rejected, tracker>>

SameFlight(r, f) == f[1] = KeyOf(r) /\ f[2] = call[r].lane

(* Mutant: the leader does not look again.                                 *)
joinUnchecked(r) ==
  /\ pc[r] = "join"
  /\ IF \E f \in flights : SameFlight(r, f)
     THEN Goto(r, "wait") /\ UNCHANGED flights
     ELSE /\ flights' = flights \cup {<<KeyOf(r), call[r].lane, r>>}
          /\ Goto(r, "mint")
  /\ UNCHANGED <<call, entries, token, issued, rejected, displaced, tracker>>

(* group.Do: wait for the flight of the same key and lane, or lead one.    *)
join(r) ==
  /\ pc[r] = "join"
  /\ IF \E f \in flights : SameFlight(r, f)
     THEN Goto(r, "wait") /\ UNCHANGED flights
     ELSE /\ flights' = flights \cup {<<KeyOf(r), call[r].lane, r>>}
          /\ Goto(r, "recheck")
  /\ UNCHANGED <<call, entries, token, issued, rejected, displaced, tracker>>

Sharing(r) == {r} \cup {s \in Requests : pc[s] = "wait" /\ SameFlight(s, <<KeyOf(r), call[r].lane>>)}

(* Mutant: the token is handed out before it is stored.                    *)
MintPublishesFirst(r) ==
  /\ pc[r] = "mint"
  /\ \/ \E life \in Lifetimes :
          /\ Len(issued) < MaxTokens
          /\ issued' = Append(issued, [for |-> call[r], left |-> life])
          /\ token' = [s \in Requests |-> IF s \in Sharing(r) THEN Len(issued) + 1 ELSE token[s]]
          /\ pc' = [s \in Requests |-> CASE s = r -> IF call[r].kind = "pii" THEN "store" ELSE "forward"
                                         [] s \in Sharing(r) \ {r} -> "forward"
                                         [] OTHER -> pc[s]]
     \/ /\ Goto(r, IF call[r].kind = "pii" THEN "land" ELSE "forward")
        /\ UNCHANGED <<token, issued>>
  /\ UNCHANGED <<call, entries, flights, rejected, displaced, tracker>>

(* Mint: a token for the resource, or any of its errors; the request goes  *)
(* on with the client's own token then.                                    *)
Mint(r) ==
  /\ pc[r] = "mint"
  /\ \/ \E life \in Lifetimes :
          /\ Len(issued) < MaxTokens
          /\ issued' = Append(issued, [for |-> call[r], left |-> life])
          /\ token' = [token EXCEPT ![r] = Len(issued) + 1]
          /\ Goto(r, IF call[r].kind = "pii" THEN "store" ELSE "forward")
     \/ /\ Goto(r, IF call[r].kind = "pii" THEN "land" ELSE "forward")
        /\ UNCHANGED <<token, issued>>
  /\ UNCHANGED <<call, entries, flights, rejected, displaced, tracker>>

(* Set, by the leader of a flight.                                         *)
Set(r) ==
  /\ pc[r] = "store"
  /\ entries' = [entries EXCEPT ![KeyOf(r)] = token[r]]
  /\ displaced' = displaced \cup Displaced(KeyOf(r), None)
  /\ Goto(r, "land")
  /\ UNCHANGED <<call, flights, token, issued, rejected, tracker>>

(* The flight ends: leader and waiters have its token, or all have none.   *)
land(r) ==
  /\ pc[r] = "land"
  /\ flights' = flights \ {<<KeyOf(r), call[r].lane, r>>}
  /\ token' = [s \in Requests |-> IF s \in Sharing(r) THEN token[r] ELSE token[s]]
  /\ pc' = [s \in Requests |-> IF s \in Sharing(r) THEN "forward" ELSE pc[s]]
  /\ UNCHANGED <<call, entries, issued, rejected, displaced, tracker>>

(* The rest of the chain and Amazon answer.  A 401 or 403 to a swapped     *)
(* token ends in Invalidate (serveWithRDT), an answer to a report call     *)
(* that holds the ID looked for in the tracker.  No ID is given to two     *)
(* reports.                                                                *)
forward(r) ==
  /\ pc[r] = "forward"
  /\ \/ Goto(r, "answered") /\ UNCHANGED created
     \/ /\ call[r].kind = "pii" /\ token[r] # None
        /\ Goto(r, "denied") /\ UNCHANGED created
     \/ /\ call[r].kind = "create" /\ created[call[r].resource] = None
        /\ created' = [created EXCEPT ![call[r].resource] = call[r].type]
        /\ Goto(r, "sniff")
     \/ /\ call[r].kind = "poll"
        /\ Goto(r, "sniff") /\ UNCHANGED created
  /\ UNCHANGED <<call, tokenStore, reports, documents>>

(* Invalidate: whatever token the key now holds.                           *)
Invalidate(r) ==
  /\ pc[r] = "denied"
  /\ entries' = [entries EXCEPT ![KeyOf(r)] = None]
  /\ rejected' = rejected \cup {token[r]}
  /\ displaced' = displaced \cup Displaced(KeyOf(r), token[r])
  /\ Goto(r, "answered")
  /\ UNCHANGED <<call, flights, token, issued, tracker>>

(* Mutant: the type read from a request is kept in the handler they share. *)
TrackReportCreationShared(r) ==
  /\ pc[r] = "sniff" /\ call[r].kind = "create"
  /\ \E s \in Requests :
       /\ pc[s] \in {"forward", "sniff"} /\ call[s].kind = "create"
       /\ reports' = [reports EXCEPT ![call[r].resource] = [type |-> call[s].type, left |-> TTL]]
  /\ Goto(r, "answered")
  /\ UNCHANGED <<call, tokenStore, documents, created>>

TrackReportCreation(r) ==
  /\ pc[r] = "sniff" /\ call[r].kind = "create"
  /\ reports' = [reports EXCEPT ![call[r].resource] = [type |-> call[r].type, left |-> TTL]]
  /\ Goto(r, "answered")
  /\ UNCHANGED <<call, tokenStore, documents, created>>

(* The document of a report unknown or expired is not tracked.             *)
TrackReportDocument(r) ==
  /\ pc[r] = "sniff" /\ call[r].kind = "poll"
  /\ LET entry == reports[call[r].resource]
     IN documents' = [documents EXCEPT ![call[r].resource] =
                        IF entry.left > 0 THEN [type |-> entry.type, left |-> TTL] ELSE @]
  /\ Goto(r, "answered")
  /\ UNCHANGED <<call, tokenStore, reports, created>>

Less(n) == IF n = 0 THEN 0 ELSE n - 1

Age(map) == [x \in DOMAIN map |-> [map[x] EXCEPT !.left = Less(@)]]

Tick ==
  /\ \/ \E t \in DOMAIN issued : issued[t].left > 0
     \/ \E p \in Reports : reports[p].left > 0 \/ documents[p].left > 0
  /\ issued' = Age(issued)
  /\ reports' = Age(reports)
  /\ documents' = Age(documents)
  /\ UNCHANGED <<pc, call, entries, flights, token, rejected, displaced, created>>

Step(r) ==
  \/ handleDocumentDownload(r)
  \/ Get(r)
  \/ GetDelete(r)
  \/ join(r)
  \/ Mint(r)
  \/ Set(r)
  \/ land(r)
  \/ forward(r)
  \/ Invalidate(r)
  \/ TrackReportCreation(r)
  \/ TrackReportDocument(r)

Next ==
  \/ \E r \in Requests : (\E c \in Calls : Handler(r, c)) \/ Step(r)
  \/ Tick

Spec == Init /\ [][Next]_vars

----------------------------------------------------------------------------

Points == {"idle", "lookup", "get", "drop", "join", "wait", "recheck", "redrop", "mint",
           "store", "land", "forward", "denied", "sniff", "answered"}

ReportTypes == {c.type : c \in Calls}
Tracked == [type : ReportTypes \cup {None}, left : 0 .. TTL]

TypeOK ==
  /\ pc \in [Requests -> Points]
  /\ call \in [Requests -> Calls \cup {None}]
  /\ \A r \in Requests : pc[r] # "idle" => call[r] \in Calls
  /\ entries \in [CacheKeys -> DOMAIN issued \cup {None}]
  /\ flights \subseteq CacheKeys \X {c.lane : c \in Calls} \X Requests
  /\ token \in [Requests -> DOMAIN issued \cup {None}]
  /\ reports \in [Reports -> Tracked]
  /\ documents \in [Reports -> Tracked]
  /\ rejected \subseteq DOMAIN issued
  /\ displaced \subseteq DOMAIN issued
  /\ created \in [Reports -> ReportTypes \cup {None}]

(* A request is forwarded with its client's token or with one minted for   *)
(* its own merchant and resource (middleware.go:100-177).  A token minted  *)
(* in another lane, in another region or with another client's token, it   *)
(* has from the cache, whose key knows no lanes (cache.go:10-15, 82-97):   *)
(* a flight hands out no token of another lane on its way to the cache,    *)
(* and a forced mint or one for a document is not shared at all.           *)
OwnToken ==
  \A r \in Requests : token[r] # None =>
    LET for == issued[token[r]].for
    IN /\ for.merchant = call[r].merchant /\ for.resource = call[r].resource
       /\ for.lane # call[r].lane =>
            /\ for.kind = "pii" /\ call[r].kind = "pii"
            /\ \A s \in Requests : pc[s] = "store" => token[s] # token[r]

(* The tracker learns the type of a report from the request that creates   *)
(* it, its ID from the answer and its document from another request's      *)
(* answer: what it holds is the type the report was created with, so that  *)
(* no token is minted for a document of any other than a restricted report *)
(* (middleware.go:240-337, reports.go:74-117).                             *)
TrackedTypesTrue ==
  /\ \A p \in Reports :
       reports[p].type \in {None, created[p]} /\ documents[p].type \in {None, created[p]}
  /\ \A t \in DOMAIN issued :
       issued[t].for.kind = "download" => created[issued[t].for.resource] \in Restricted

(* Would get the same token.                                               *)
Twins(c, d) ==
  c.kind = "pii" /\ d.kind = "pii" /\ BuildCacheKey(c) = BuildCacheKey(d) /\ c.lane = d.lane

(* Concurrent requests of a lane share one mint, and later ones its token  *)
(* (middleware.go:152-177): when a request mints, nobody else of its lane  *)
(* is minting or storing a token for the key, and every token minted for   *)
(* it before has expired, been rejected or been displaced, that is, left   *)
(* the cache to the late deletion of an expired one (cache.go:51-53), to   *)
(* the Invalidate of an older one or to the Set of another lane.           *)
NoDuplicateMint ==
  \A r \in Requests :
    pc[r] = "mint" /\ call[r].kind = "pii" =>
      /\ \A s \in Requests \ {r} :
           pc[s] \in {"mint", "store"} => ~Twins(call[s], call[r])
      /\ \A t \in DOMAIN issued :
           Twins(issued[t].for, call[r]) => Expired(t) \/ t \in rejected \cup displaced

(* As docs/RDT.md:232 has it, "All concurrent requests share the result":  *)
(* while a request goes on with a token that is good, no other mints one   *)
(* for the same operation, merchant and client token                       *)
(* (middleware.go:152-177, cache.go:42-58).                                *)
ConcurrentRequestsShare ==
  \A r, s \in Requests :
    /\ pc[r] = "mint" /\ pc[s] = "forward" /\ token[s] # None
    /\ Twins(call[r], call[s])
    => Expired(token[s]) \/ token[s] \in rejected

(* A token invalidated after a 401 or 403 never returns to the cache: it   *)
(* is stored before the flight that minted it lets anyone use it           *)
(* (middleware.go:134-141, 168-171).                                       *)
RejectedStaysOut == \A k \in CacheKeys : entries[k] \notin rejected

=============================================================================
