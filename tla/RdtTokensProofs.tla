-------------------------- MODULE RdtTokensProofs --------------------------
(***************************************************************************)
(* The invariants of RdtTokens for any number of requests, merchants,      *)
(* lanes, reports and tokens.  None of them is inductive alone: what a     *)
(* request may do with a token depends on whose the cached tokens are, on  *)
(* which requests lead a flight, and on a minted token being known to      *)
(* nobody else until it is stored.                                         *)
(***************************************************************************)
EXTENDS RdtTokens, SequenceTheorems, TLAPS

Issues == [for : Calls, left : Nat]

Types == TypeOK /\ issued \in Seq(Issues)

(* What the place of a request says of its kind, its token and its report. *)
Place(r) ==
  /\ pc[r] = "idle" => token[r] = None
  /\ pc[r] = "lookup" => call[r].kind = "download"
  /\ pc[r] \in {"get", "drop", "join", "wait", "recheck", "redrop", "store", "land"}
       => call[r].kind = "pii"
  /\ pc[r] \in {"store", "denied"} => token[r] # None
  /\ pc[r] = "mint" /\ call[r].kind = "download" => created[call[r].resource] \in Restricted
  /\ pc[r] = "sniff" /\ call[r].kind = "create" => created[call[r].resource] = call[r].type

Places == \A r \in Requests : Place(r)

TokenKey(t) == BuildCacheKey(issued[t].for)

(* A token is used, and cached, for the key of the call it was minted for, *)
(* and shared between calls of restricted operations only.                 *)
Owned ==
  /\ \A r \in Requests : token[r] # None =>
       /\ TokenKey(token[r]) = KeyOf(r)
       /\ \/ issued[token[r]].for = call[r]
          \/ issued[token[r]].for.kind = "pii" /\ call[r].kind = "pii"
  /\ \A k \in CacheKeys : entries[k] # None =>
       TokenKey(entries[k]) = k /\ issued[entries[k]].for.kind = "pii"

Leading == {"recheck", "redrop", "mint", "store", "land"}
FlightOf(r) == <<KeyOf(r), call[r].lane, r>>
Leads(r) == pc[r] \in Leading /\ call[r].kind = "pii"

(* The flights are those of the requests that lead one, and a key and lane *)
(* have one at a time.                                                     *)
Led ==
  /\ \A r \in Requests : Leads(r) => FlightOf(r) \in flights
  /\ \A f \in flights : f = FlightOf(f[3]) /\ Leads(f[3])
  /\ \A f, g \in flights : f[1] = g[1] /\ f[2] = g[2] => f = g

(* A token on its way to the cache was minted for its request's own call,  *)
(* and nobody else has it.                                                 *)
Private ==
  \A r \in Requests : pc[r] = "store" =>
    /\ issued[token[r]].for = call[r]
    /\ token[r] \notin rejected
    /\ \A s \in Requests \ {r} : token[s] # token[r]
    /\ \A k \in CacheKeys : entries[k] # token[r]

Gone(t) == Expired(t) \/ t \in rejected \/ t \in displaced

(* A token that may be shared is in the cache, on its way there or gone.   *)
Stored ==
  \A t \in DOMAIN issued : issued[t].for.kind = "pii" =>
    \/ Gone(t)
    \/ entries[TokenKey(t)] = t
    \/ \E s \in Requests : pc[s] = "store" /\ token[s] = t

(* What a leader that has found no token may find in the cache after all.  *)
Missed ==
  \A r \in Requests :
    pc[r] \in {"redrop", "mint"} /\ call[r].kind = "pii" /\ entries[KeyOf(r)] # None =>
      \/ Expired(entries[KeyOf(r)])
      \/ issued[entries[KeyOf(r)]].for.lane # call[r].lane

RdtInv ==
  /\ Types /\ Places /\ TrackedTypesTrue
  /\ Owned /\ Led /\ Private /\ Stored /\ Missed /\ RejectedStaysOut

----------------------------------------------------------------------------

(* No token is minted, cached or asked for at the start.                   *)
LEMMA RdtInitInv == Init => RdtInv
<1> SUFFICES ASSUME Init PROVE RdtInv
  BY Zenon
<1>1. Types
  <2>1. 0 \in 0 .. TTL
    BY RdtConstants
  <2>2. Untracked \in Tracked
    BY <2>1, Zenon DEF Untracked, Tracked
  <2>3. issued \in Seq(Issues)
    BY DEF Init
  <2> QED BY <2>2, <2>3, Zenon DEF Init, Types, TypeOK, Points
<1>2. Places /\ Owned /\ Led /\ Private
  BY Zenon DEF Init, Places, Place, Owned, Led, Leads, Leading, Private
<1>3. Missed /\ RejectedStaysOut
  BY Zenon DEF Init, Missed, RejectedStaysOut
<1>4. DOMAIN issued = {}
  BY DEF Init
<1>5. Untracked.type = None
  BY Zenon DEF Untracked
<1>6. Stored /\ TrackedTypesTrue
  BY <1>4, <1>5, Zenon DEF Init, Stored, TrackedTypesTrue
<1> QED BY <1>1, <1>2, <1>3, <1>6, Zenon DEF RdtInv

(* Tokens are numbered from one in the order they are minted, and None is  *)
(* not a token.                                                            *)
LEMMA TokenFacts ==
  ASSUME Types
  PROVE  /\ Len(issued) \in Nat
         /\ DOMAIN issued = 1 .. Len(issued)
         /\ None \notin DOMAIN issued
         /\ \A t \in DOMAIN issued : issued[t] \in Issues
<1>1. issued \in Seq(Issues)
  BY Zenon DEF Types
<1>2. Len(issued) \in Nat /\ DOMAIN issued = 1 .. Len(issued)
  BY <1>1
<1>3. \A t \in DOMAIN issued : issued[t] \in Issues
  BY <1>1
<1> QED BY <1>2, <1>3, RdtConstants

(* A request on its way has a call, a key and a lane.                      *)
LEMMA CallFacts ==
  ASSUME Types, NEW r \in Requests, pc[r] # "idle"
  PROVE  /\ call[r] \in Calls
         /\ KeyOf(r) \in CacheKeys
         /\ call[r].lane \in {c.lane : c \in Calls}
  BY Zenon DEF Types, TypeOK, KeyOf, CacheKeys

(* Two leaders of one key and lane are one.                                *)
LEMMA OneLeader ==
  ASSUME Led, NEW r \in Requests, NEW s \in Requests, Leads(r), Leads(s),
         KeyOf(r) = KeyOf(s), call[r].lane = call[s].lane
  PROVE  r = s
<1>1. FlightOf(r) \in flights /\ FlightOf(s) \in flights
  BY Zenon DEF Led
<1>2. FlightOf(r) = FlightOf(s)
  BY <1>1, Zenon DEF Led, FlightOf
<1> QED BY <1>2 DEF FlightOf

(* A step of a request that leads no flight, and that touches no token,    *)
(* changes nothing of what is said of tokens.                              *)
LEMMA OutsideInv ==
  ASSUME RdtInv, NEW r \in Requests, UNCHANGED tokenStore,
         \A s \in Requests \ {r} : pc'[s] = pc[s] /\ call'[s] = call[s],
         ~Leads(r), ~Leads(r)', pc[r] # "store", pc'[r] # "store",
         token[r] = None \/ call'[r] = call[r]
  PROVE  Owned' /\ Led' /\ Private' /\ Stored' /\ Missed' /\ RejectedStaysOut'
<1>0. /\ entries' = entries /\ flights' = flights /\ token' = token /\ issued' = issued
      /\ rejected' = rejected /\ displaced' = displaced
  BY Zenon DEF tokenStore
<1>1. Owned'
  BY <1>0, Zenon DEF RdtInv, Owned, KeyOf, TokenKey
<1>2. Led'
  <2>1. \A f \in flights : f[3] \in Requests
    BY Zenon DEF RdtInv, Types, TypeOK
  <2>2. \A f \in flights : f[3] # r
    BY Zenon DEF RdtInv, Led
  <2>3. \A s \in Requests \ {r} : FlightOf(s)' = FlightOf(s) /\ (Leads(s)' <=> Leads(s))
    BY Zenon DEF FlightOf, KeyOf, Leads
  <2> QED BY <1>0, <2>1, <2>2, <2>3, Zenon DEF RdtInv, Led
<1>3. Private'
  BY <1>0, Zenon DEF RdtInv, Private
<1>4. Stored'
  <2> SUFFICES ASSUME NEW t \in DOMAIN issued, issued[t].for.kind = "pii"
               PROVE  \/ Gone(t)
                      \/ entries[TokenKey(t)] = t
                      \/ \E s \in Requests : pc'[s] = "store" /\ token[s] = t
    BY <1>0, Zenon DEF Stored, Gone, Expired, TokenKey
  <2> QED BY Zenon DEF RdtInv, Stored
<1>5. Missed'
  <2> SUFFICES ASSUME NEW s \in Requests, pc'[s] \in {"redrop", "mint"}, call'[s].kind = "pii",
                      entries[KeyOf(s)'] # None
               PROVE  \/ Expired(entries[KeyOf(s)'])
                      \/ issued[entries[KeyOf(s)']].for.lane # call'[s].lane
    BY <1>0, Zenon DEF Missed, Expired
  <2>1. s # r
    BY Zenon DEF Leads, Leading
  <2>2. pc[s] = pc'[s] /\ call'[s] = call[s] /\ KeyOf(s)' = KeyOf(s)
    BY <2>1, Zenon DEF KeyOf
  <2> QED BY <2>2, Zenon DEF RdtInv, Missed
<1>6. RejectedStaysOut'
  BY <1>0, Zenon DEF RdtInv, RejectedStaysOut
<1> QED BY <1>1, <1>2, <1>3, <1>4, <1>5, <1>6, Zenon

(* The pieces of a step put together.                                      *)
LEMMA OutsideWhole ==
  ASSUME RdtInv, NEW r \in Requests, UNCHANGED tokenStore,
         \A s \in Requests \ {r} : pc'[s] = pc[s] /\ call'[s] = call[s],
         ~Leads(r), ~Leads(r)', pc[r] # "store", pc'[r] # "store",
         token[r] = None \/ call'[r] = call[r],
         pc' \in [Requests -> Points], call' \in [Requests -> Calls \cup {None}],
         pc'[r] # "idle", call'[r] \in Calls,
         reports' \in [Reports -> Tracked], documents' \in [Reports -> Tracked],
         created' \in [Reports -> ReportTypes \cup {None}],
         Places', TrackedTypesTrue'
  PROVE  RdtInv'
<1>1. /\ entries' = entries /\ flights' = flights /\ token' = token /\ issued' = issued
      /\ rejected' = rejected /\ displaced' = displaced
  BY Zenon DEF tokenStore
<1>2. \A s \in Requests : pc'[s] # "idle" => call'[s] \in Calls
  BY Zenon DEF RdtInv, Types, TypeOK
<1>3. Types'
  BY <1>1, <1>2, Zenon DEF RdtInv, Types, TypeOK
<1>4. Owned' /\ Led' /\ Private' /\ Stored' /\ Missed' /\ RejectedStaysOut'
  BY OutsideInv, Zenon
<1> QED BY <1>3, <1>4, Zenon DEF RdtInv

(* A request that arrives has no token yet and leads nothing.              *)
LEMMA HandlerInv ==
  ASSUME RdtInv, NEW r \in Requests, NEW c \in Calls, Handler(r, c)
  PROVE  RdtInv'
<1>1. /\ pc \in [Requests -> Points] /\ call \in [Requests -> Calls \cup {None}]
      /\ token[r] = None /\ pc[r] = "idle"
  BY Zenon DEF RdtInv, Types, TypeOK, Places, Place, Handler
<1>2. /\ call' = [call EXCEPT ![r] = c] /\ UNCHANGED <<tokenStore, reports, documents, created>>
      /\ pc' = [pc EXCEPT ![r] = CASE c.kind = "pii" -> "get"
                                    [] c.kind = "force" -> "mint"
                                    [] c.kind = "download" -> "lookup"
                                    [] OTHER -> "forward"]
  BY Zenon DEF Handler, Goto, tracker
<1>3. /\ pc'[r] \in {"get", "mint", "lookup", "forward"} /\ call'[r] = c
      /\ pc'[r] = "get" => c.kind = "pii"
      /\ pc'[r] = "mint" => c.kind = "force"
      /\ pc'[r] = "lookup" => c.kind = "download"
      /\ \A s \in Requests \ {r} : pc'[s] = pc[s] /\ call'[s] = call[s]
  <2>1. CASE c.kind = "pii"
    BY <1>1, <1>2, <2>1, Zenon
  <2>2. CASE c.kind = "force"
    BY <1>1, <1>2, <2>2
  <2>3. CASE c.kind = "download"
    BY <1>1, <1>2, <2>3
  <2>4. CASE c.kind \notin {"pii", "force", "download"}
    BY <1>1, <1>2, <2>4
  <2> QED BY <2>1, <2>2, <2>3, <2>4, Zenon
<1>4. pc' \in [Requests -> Points] /\ call' \in [Requests -> Calls \cup {None}] /\ pc'[r] # "idle"
  BY <1>1, <1>2, <1>3, Zenon DEF Points
<1>5. Places'
  <2> SUFFICES ASSUME NEW s \in Requests PROVE Place(s)'
    BY Zenon DEF Places
  <2>1. CASE s = r
    BY <1>2, <1>3, <2>1, Zenon DEF Place, tokenStore
  <2>2. CASE s # r
    <3>1. pc'[s] = pc[s] /\ call'[s] = call[s] /\ token' = token /\ created' = created
      BY <1>2, <1>3, <2>2, Zenon DEF tokenStore
    <3>2. Place(s)
      BY Zenon DEF RdtInv, Places
    <3> QED BY <3>1, <3>2, Zenon DEF Place
  <2> QED BY <2>1, <2>2, Zenon
<1>6. TrackedTypesTrue'
  BY <1>2, Zenon DEF RdtInv, TrackedTypesTrue, tokenStore
<1>7. ~Leads(r) /\ ~Leads(r)' /\ pc[r] # "store" /\ pc'[r] # "store"
  BY <1>1, <1>3, Zenon DEF Leads, Leading
<1>8. /\ UNCHANGED tokenStore
      /\ reports' \in [Reports -> Tracked] /\ documents' \in [Reports -> Tracked]
      /\ created' \in [Reports -> ReportTypes \cup {None}]
  BY <1>2, Zenon DEF RdtInv, Types, TypeOK
<1> QED BY <1>1, <1>3, <1>4, <1>5, <1>6, <1>7, <1>8, OutsideWhole, Zenon

(* What a step of one request that only moves on leaves of its types.      *)
LEMMA MovesTypes ==
  ASSUME Types, NEW r \in Requests, NEW l \in Points \ {"idle"}, pc[r] # "idle", Goto(r, l)
  PROVE  /\ pc' \in [Requests -> Points] /\ pc'[r] = l
         /\ \A s \in Requests \ {r} : pc'[s] = pc[s]
         /\ \A s \in Requests : pc'[s] # "idle" => call[s] \in Calls
  BY Zenon DEF Types, TypeOK, Goto

(* A download goes on to mint only for a restricted report.                *)
LEMMA LookupInv ==
  ASSUME RdtInv, NEW r \in Requests, handleDocumentDownload(r)
  PROVE  RdtInv'
<1> DEFINE entry == documents[call[r].resource]
<1>1. /\ pc[r] = "lookup" /\ call[r].kind = "download" /\ call[r] \in Calls
      /\ UNCHANGED <<call, tokenStore, reports, documents, created>>
  BY CallFacts, Zenon DEF RdtInv, Places, Place, handleDocumentDownload, tracker
<1>2. PICK l \in {"mint", "forward"} :
        Goto(r, l) /\ (l = "mint" => entry.left > 0 /\ entry.type \in Restricted)
  BY Zenon DEF handleDocumentDownload
<1>3. /\ pc' \in [Requests -> Points] /\ pc'[r] = l
      /\ \A s \in Requests \ {r} : pc'[s] = pc[s]
  BY <1>1, <1>2, MovesTypes, Zenon DEF RdtInv, Points
<1>4. l = "mint" => created[call[r].resource] \in Restricted
  <2> SUFFICES ASSUME entry.type \in Restricted PROVE created[call[r].resource] \in Restricted
    BY <1>2, Zenon
  <2>1. call[r].resource \in Reports
    BY <1>1, Zenon DEF Reports
  <2>2. None \notin Restricted
    BY RdtConstants, Zenon
  <2> QED BY <2>1, <2>2, Zenon DEF RdtInv, TrackedTypesTrue
<1> HIDE DEF entry
<1>5. Places'
  <2> SUFFICES ASSUME NEW s \in Requests PROVE Place(s)'
    BY Zenon DEF Places
  <2>1. CASE s = r
    BY <1>1, <1>3, <1>4, <2>1, Zenon DEF Place, tokenStore
  <2>2. CASE s # r
    BY <1>1, <1>3, <2>2, Zenon DEF RdtInv, Places, Place, tokenStore
  <2> QED BY <2>1, <2>2, Zenon
<1>6. TrackedTypesTrue'
  BY <1>1, Zenon DEF RdtInv, TrackedTypesTrue, tokenStore
<1>7. ~Leads(r) /\ ~Leads(r)' /\ pc[r] # "store" /\ pc'[r] # "store" /\ pc'[r] # "idle"
  BY <1>1, <1>3, Zenon DEF Leads, Leading
<1>8. /\ reports' \in [Reports -> Tracked] /\ documents' \in [Reports -> Tracked]
      /\ created' \in [Reports -> ReportTypes \cup {None}]
      /\ call' \in [Requests -> Calls \cup {None}] /\ call' = call
  BY <1>1, Zenon DEF RdtInv, Types, TypeOK
<1> QED BY <1>1, <1>3, <1>5, <1>6, <1>7, <1>8, OutsideWhole, Zenon

(* Forwarding changes no token; a report is created once.                  *)
LEMMA ForwardInv ==
  ASSUME RdtInv, NEW r \in Requests, forward(r)
  PROVE  RdtInv'
<1>1. /\ pc[r] = "forward" /\ call[r] \in Calls
      /\ UNCHANGED <<call, tokenStore, reports, documents>>
  BY CallFacts, Zenon DEF RdtInv, forward
<1>2. PICK l \in {"answered", "denied", "sniff"} :
        /\ Goto(r, l)
        /\ l = "denied" => token[r] # None
        /\ \/ UNCHANGED created /\ (l = "sniff" => call[r].kind = "poll")
           \/ /\ call[r].kind = "create" /\ created[call[r].resource] = None
              /\ created' = [created EXCEPT ![call[r].resource] = call[r].type]
  BY Zenon DEF forward
<1>3. /\ pc' \in [Requests -> Points] /\ pc'[r] = l
      /\ \A s \in Requests \ {r} : pc'[s] = pc[s]
  BY <1>1, <1>2, MovesTypes, Zenon DEF RdtInv, Points
<1>4. /\ created' \in [Reports -> ReportTypes \cup {None}]
      /\ l = "sniff" /\ call[r].kind = "create" => created'[call[r].resource] = call[r].type
      /\ \A p \in Reports : created[p] # None => created'[p] = created[p]
  <2>1. call[r].kind = "create" => call[r].resource \in Reports
    BY <1>1, Zenon DEF Reports
  <2>2. call[r].type \in ReportTypes
    BY <1>1, Zenon DEF ReportTypes
  <2>3. created \in [Reports -> ReportTypes \cup {None}]
    BY Zenon DEF RdtInv, Types, TypeOK
  <2>4. CASE UNCHANGED created /\ (l = "sniff" => call[r].kind = "poll")
    BY <2>3, <2>4, Zenon
  <2>5. CASE /\ call[r].kind = "create" /\ created[call[r].resource] = None
             /\ created' = [created EXCEPT ![call[r].resource] = call[r].type]
    BY <2>1, <2>2, <2>3, <2>5, Zenon
  <2> QED BY <1>2, <2>4, <2>5, Zenon
<1>5. Places'
  <2> SUFFICES ASSUME NEW s \in Requests PROVE Place(s)'
    BY Zenon DEF Places
  <2>1. CASE s = r
    BY <1>1, <1>2, <1>3, <1>4, <2>1, Zenon DEF Place, tokenStore
  <2>2. CASE s # r
    <3>1. pc'[s] = pc[s] /\ call'[s] = call[s] /\ token'[s] = token[s]
      BY <1>1, <1>3, <2>2, Zenon DEF tokenStore
    <3>2. Place(s)
      BY Zenon DEF RdtInv, Places
    <3>3. ASSUME pc[s] = "mint", call[s].kind = "download"
          PROVE  created'[call[s].resource] \in Restricted
      <4>1. created[call[s].resource] \in Restricted /\ created[call[s].resource] # None
        BY <3>2, <3>3, RdtConstants, Zenon DEF Place
      <4>2. call[s].resource \in Reports
        BY <3>3, CallFacts, Zenon DEF RdtInv, Reports
      <4> QED BY <1>4, <4>1, <4>2, Zenon
    <3>4. ASSUME pc[s] = "sniff", call[s].kind = "create"
          PROVE  created'[call[s].resource] = call[s].type
      <4>1. created[call[s].resource] = call[s].type
        BY <3>2, <3>4, Zenon DEF Place
      <4>2. call[s].resource \in Reports
        BY <3>4, CallFacts, Zenon DEF RdtInv, Reports
      <4>3. call[s].type # None
        BY <3>4, CallFacts, RdtConstants, Zenon DEF RdtInv
      <4> QED BY <1>4, <4>1, <4>2, <4>3, Zenon
    <3> QED BY <3>1, <3>2, <3>3, <3>4, Zenon DEF Place
  <2> QED BY <2>1, <2>2, Zenon
<1>6. TrackedTypesTrue'
  <2>0. issued' = issued /\ reports' = reports /\ documents' = documents /\ TrackedTypesTrue
    BY <1>1, Zenon DEF tokenStore, RdtInv
  <2>1. \A p \in Reports : \A x : x \in {None, created[p]} => x \in {None, created'[p]}
    BY <1>4, Zenon
  <2>2. ASSUME NEW t \in DOMAIN issued, issued[t].for.kind = "download"
        PROVE  created'[issued[t].for.resource] \in Restricted
    <3>1. issued[t].for \in Calls
      BY TokenFacts, Zenon DEF RdtInv, Issues
    <3>2. issued[t].for.resource \in Reports
      BY <2>2, <3>1, Zenon DEF Reports
    <3>3. created[issued[t].for.resource] \in Restricted /\ None \notin Restricted
      BY <2>0, <2>2, RdtConstants, Zenon DEF TrackedTypesTrue
    <3> QED BY <1>4, <3>2, <3>3, Zenon
  <2> QED BY <2>0, <2>1, <2>2, Zenon DEF TrackedTypesTrue
<1>7. ~Leads(r) /\ ~Leads(r)' /\ pc[r] # "store" /\ pc'[r] # "store" /\ pc'[r] # "idle"
  BY <1>1, <1>3, Zenon DEF Leads, Leading
<1>8. /\ reports' \in [Reports -> Tracked] /\ documents' \in [Reports -> Tracked]
      /\ call' \in [Requests -> Calls \cup {None}] /\ call' = call
  BY <1>1, Zenon DEF RdtInv, Types, TypeOK
<1> QED BY <1>1, <1>3, <1>4, <1>5, <1>6, <1>7, <1>8, OutsideWhole, Zenon

(* The tracker learns what the creating request asked for.                 *)
LEMMA CreationInv ==
  ASSUME RdtInv, NEW r \in Requests, TrackReportCreation(r)
  PROVE  RdtInv'
<1>1. /\ pc[r] = "sniff" /\ call[r].kind = "create" /\ call[r] \in Calls
      /\ created[call[r].resource] = call[r].type
      /\ UNCHANGED <<call, tokenStore, documents, created>>
      /\ reports' = [reports EXCEPT ![call[r].resource] = [type |-> call[r].type, left |-> TTL]]
  BY CallFacts, Zenon DEF RdtInv, Places, Place, TrackReportCreation
<1>2. /\ pc' \in [Requests -> Points] /\ pc'[r] = "answered"
      /\ \A s \in Requests \ {r} : pc'[s] = pc[s]
  BY <1>1, MovesTypes, Zenon DEF RdtInv, Points, TrackReportCreation
<1>3. reports' \in [Reports -> Tracked] /\ \A p \in Reports : reports'[p].type \in {None, created[p]}
  <2>1. TTL \in 0 .. TTL
    BY RdtConstants
  <2>2. [type |-> call[r].type, left |-> TTL] \in Tracked
    BY <1>1, <2>1, Zenon DEF Tracked, ReportTypes
  <2>3. [type |-> call[r].type, left |-> TTL].type = created[call[r].resource]
    BY <1>1, Zenon
  <2>4. reports \in [Reports -> Tracked] /\ \A p \in Reports : reports[p].type \in {None, created[p]}
    BY Zenon DEF RdtInv, Types, TypeOK, TrackedTypesTrue
  <2> QED BY <1>1, <2>2, <2>3, <2>4, Zenon
<1>4. Places'
  BY <1>1, <1>2, Zenon DEF RdtInv, Places, Place, tokenStore
<1>5. TrackedTypesTrue'
  BY <1>1, <1>3, Zenon DEF RdtInv, TrackedTypesTrue, tokenStore
<1>6. ~Leads(r) /\ ~Leads(r)' /\ pc[r] # "store" /\ pc'[r] # "store" /\ pc'[r] # "idle"
  BY <1>1, <1>2, Zenon DEF Leads, Leading
<1>7. /\ documents' \in [Reports -> Tracked] /\ created' \in [Reports -> ReportTypes \cup {None}]
      /\ call' \in [Requests -> Calls \cup {None}] /\ call' = call
  BY <1>1, Zenon DEF RdtInv, Types, TypeOK
<1> QED BY <1>1, <1>2, <1>3, <1>4, <1>5, <1>6, <1>7, OutsideWhole, Zenon

(* A document gets the type of its report.                                 *)
LEMMA DocumentInv ==
  ASSUME RdtInv, NEW r \in Requests, TrackReportDocument(r)
  PROVE  RdtInv'
<1> DEFINE entry == reports[call[r].resource]
<1>1. /\ pc[r] = "sniff" /\ call[r].kind = "poll" /\ call[r] \in Calls
      /\ UNCHANGED <<call, tokenStore, reports, created>>
      /\ documents' = [documents EXCEPT ![call[r].resource] =
                          IF entry.left > 0 THEN [type |-> entry.type, left |-> TTL] ELSE @]
  BY CallFacts, Zenon DEF RdtInv, TrackReportDocument
<1>2. /\ pc' \in [Requests -> Points] /\ pc'[r] = "answered"
      /\ \A s \in Requests \ {r} : pc'[s] = pc[s]
  BY <1>1, MovesTypes, Zenon DEF RdtInv, Points, TrackReportDocument
<1>3. documents' \in [Reports -> Tracked] /\ \A p \in Reports : documents'[p].type \in {None, created[p]}
  <2>1. TTL \in 0 .. TTL
    BY RdtConstants
  <2>2. /\ reports \in [Reports -> Tracked] /\ documents \in [Reports -> Tracked]
        /\ \A p \in Reports : reports[p].type \in {None, created[p]} /\ documents[p].type \in {None, created[p]}
    BY Zenon DEF RdtInv, Types, TypeOK, TrackedTypesTrue
  <2>3. call[r].resource \in Reports
    BY <1>1, Zenon DEF Reports
  <2>4. entry.type \in ReportTypes \cup {None} /\ entry.type \in {None, created[call[r].resource]}
    BY <2>2, <2>3, Zenon DEF Tracked
  <2>5. [type |-> entry.type, left |-> TTL] \in Tracked
    BY <2>1, <2>4, Zenon DEF Tracked
  <2>6. [type |-> entry.type, left |-> TTL].type \in {None, created[call[r].resource]}
    BY <2>4, Zenon
  <2> HIDE DEF entry
  <2>7. CASE entry.left > 0
    BY <1>1, <2>2, <2>5, <2>6, <2>7, Zenon
  <2>8. CASE ~(entry.left > 0)
    BY <1>1, <2>2, <2>3, <2>8, Zenon
  <2> QED BY <2>7, <2>8, Zenon
<1> HIDE DEF entry
<1>4. Places'
  BY <1>1, <1>2, Zenon DEF RdtInv, Places, Place, tokenStore
<1>5. TrackedTypesTrue'
  BY <1>1, <1>3, Zenon DEF RdtInv, TrackedTypesTrue, tokenStore
<1>6. ~Leads(r) /\ ~Leads(r)' /\ pc[r] # "store" /\ pc'[r] # "store" /\ pc'[r] # "idle"
  BY <1>1, <1>2, Zenon DEF Leads, Leading
<1>7. /\ reports' \in [Reports -> Tracked] /\ created' \in [Reports -> ReportTypes \cup {None}]
      /\ call' \in [Requests -> Calls \cup {None}] /\ call' = call
  BY <1>1, Zenon DEF RdtInv, Types, TypeOK
<1> QED BY <1>1, <1>2, <1>3, <1>4, <1>5, <1>6, <1>7, OutsideWhole, Zenon

----------------------------------------------------------------------------

(* Steps that leave calls, issued tokens and the tracker alone.            *)
LEMMA InsideWhole ==
  ASSUME RdtInv, UNCHANGED <<call, issued, tracker>>,
         pc' \in [Requests -> Points],
         \A s \in Requests : pc'[s] # "idle" => call[s] \in Calls,
         entries' \in [CacheKeys -> DOMAIN issued \cup {None}],
         flights' \subseteq CacheKeys \X {c.lane : c \in Calls} \X Requests,
         token' \in [Requests -> DOMAIN issued \cup {None}],
         rejected' \subseteq DOMAIN issued, displaced' \subseteq DOMAIN issued,
         Places', Owned', Led', Private', Stored', Missed', RejectedStaysOut'
  PROVE  RdtInv'
<1>1. /\ call' = call /\ issued' = issued
      /\ reports' = reports /\ documents' = documents /\ created' = created
  BY Zenon DEF tracker
<1>2. Types'
  BY <1>1, Zenon DEF RdtInv, Types, TypeOK
<1>3. TrackedTypesTrue'
  BY <1>1, Zenon DEF RdtInv, TrackedTypesTrue
<1> QED BY <1>2, <1>3, Zenon DEF RdtInv

(* The types that a step on tokens starts from.                            *)
LEMMA TokenTypes ==
  ASSUME RdtInv
  PROVE  /\ entries \in [CacheKeys -> DOMAIN issued \cup {None}]
         /\ flights \subseteq CacheKeys \X {c.lane : c \in Calls} \X Requests
         /\ token \in [Requests -> DOMAIN issued \cup {None}]
         /\ rejected \subseteq DOMAIN issued /\ displaced \subseteq DOMAIN issued
         /\ \A f \in flights : f[3] \in Requests
         /\ None \notin DOMAIN issued
<1>1. /\ entries \in [CacheKeys -> DOMAIN issued \cup {None}]
      /\ flights \subseteq CacheKeys \X {c.lane : c \in Calls} \X Requests
      /\ token \in [Requests -> DOMAIN issued \cup {None}]
      /\ rejected \subseteq DOMAIN issued /\ displaced \subseteq DOMAIN issued
  BY Zenon DEF RdtInv, Types, TypeOK
<1>2. \A f \in flights : f[3] \in Requests
  BY <1>1, Zenon
<1>3. None \notin DOMAIN issued
  BY TokenFacts, Zenon DEF RdtInv
<1> QED BY <1>1, <1>2, <1>3, Zenon

(* The flights stay led while nobody starts or stops to lead.              *)
LEMMA StillLed ==
  ASSUME RdtInv, UNCHANGED <<call, flights>>,
         \A s \in Requests : (pc'[s] \in Leading <=> pc[s] \in Leading)
  PROVE  Led'
<1>1. \A s \in Requests : FlightOf(s)' = FlightOf(s) /\ (Leads(s)' <=> Leads(s))
  BY Zenon DEF FlightOf, KeyOf, Leads
<1>2. \A f \in flights : f[3] \in Requests
  BY TokenTypes, Zenon
<1> QED BY <1>1, <1>2, Zenon DEF RdtInv, Led

(* Get hands out the token of the request's own key.                       *)
LEMMA GetInv ==
  ASSUME RdtInv, NEW r \in Requests, Get(r)
  PROVE  RdtInv'
<1> DEFINE k == KeyOf(r)
           t == entries[k]
<1>1. /\ pc[r] \in {"get", "recheck"} /\ call[r].kind = "pii" /\ k \in CacheKeys
      /\ t \in DOMAIN issued \cup {None}
      /\ UNCHANGED <<call, entries, flights, issued, rejected, displaced, tracker>>
  BY CallFacts, TokenTypes, Zenon DEF RdtInv, Places, Place, Get
<1>2. PICK l \in {"forward", "land", "drop", "redrop", "join", "mint"} :
        /\ Goto(r, l)
        /\ l \in Leading <=> pc[r] \in Leading
        /\ \/ l \in {"forward", "land"} /\ t # None /\ token' = [token EXCEPT ![r] = t]
           \/ l \in {"drop", "redrop"} /\ t # None /\ Expired(t) /\ token' = token
           \/ l \in {"join", "mint"} /\ t = None /\ token' = token
  <2>1. CASE t # None /\ ~Expired(t)
    BY <1>1, <2>1, Zenon DEF Get, Leading
  <2>2. CASE t # None /\ Expired(t)
    <3>1. Goto(r, IF pc[r] = "get" THEN "drop" ELSE "redrop") /\ token' = token
      BY <2>2 DEF Get
    <3> QED BY <1>1, <2>2, <3>1, Zenon DEF Leading
  <2>3. CASE t = None
    <3>1. Goto(r, IF pc[r] = "get" THEN "join" ELSE "mint") /\ token' = token
      BY <2>3 DEF Get
    <3> QED BY <1>1, <2>3, <3>1, Zenon DEF Leading
  <2> QED BY <2>1, <2>2, <2>3, Zenon
<1>3. /\ pc' \in [Requests -> Points] /\ pc'[r] = l
      /\ \A s \in Requests \ {r} : pc'[s] = pc[s]
      /\ \A s \in Requests : pc'[s] # "idle" => call[s] \in Calls
  BY <1>1, <1>2, MovesTypes, Zenon DEF RdtInv, Points
<1>4. /\ token' \in [Requests -> DOMAIN issued \cup {None}]
      /\ \A s \in Requests \ {r} : token'[s] = token[s]
      /\ token'[r] = token[r] \/ (token'[r] = t /\ t # None)
  BY <1>1, <1>2, TokenTypes, Zenon
<1> HIDE DEF t
<1>5. Places'
  <2>1. ASSUME NEW s \in Requests \ {r} PROVE Place(s)'
    BY <1>1, <1>3, <1>4, Zenon DEF RdtInv, Places, Place, tracker
  <2>2. Place(r)'
    BY <1>1, <1>2, <1>3, Zenon DEF Place
  <2> QED BY <2>1, <2>2, Zenon DEF Places
<1>6. Owned'
  <2>1. t # None => TokenKey(t) = k /\ issued[t].for.kind = "pii"
    BY <1>1, Zenon DEF RdtInv, Owned, t
  <2> QED BY <1>1, <1>4, <2>1, Zenon DEF RdtInv, Owned, KeyOf, TokenKey
<1>7. Led'
  BY <1>1, <1>2, <1>3, StillLed, Zenon
<1>8. Private'
  <2> SUFFICES ASSUME NEW s \in Requests, pc'[s] = "store"
               PROVE  /\ issued[token'[s]].for = call[s]
                      /\ token'[s] \notin rejected
                      /\ \A q \in Requests \ {s} : token'[q] # token'[s]
                      /\ \A j \in CacheKeys : entries[j] # token'[s]
    BY <1>1, Zenon DEF Private
  <2>1. s # r /\ pc[s] = "store" /\ token'[s] = token[s]
    BY <1>2, <1>3, <1>4, Zenon
  <2>2. token'[r] # token[s]
    BY <1>1, <1>4, <2>1, Zenon DEF RdtInv, Private, t
  <2> QED BY <1>4, <2>1, <2>2, Zenon DEF RdtInv, Private
<1>9. Stored'
  <2> SUFFICES ASSUME NEW u \in DOMAIN issued, issued[u].for.kind = "pii"
               PROVE  \/ Gone(u)
                      \/ entries[TokenKey(u)] = u
                      \/ \E s \in Requests : pc'[s] = "store" /\ token'[s] = u
    BY <1>1, Zenon DEF Stored, Gone, Expired, TokenKey
  <2>1. \A s \in Requests : pc[s] = "store" => s # r /\ pc'[s] = "store" /\ token'[s] = token[s]
    BY <1>1, <1>3, <1>4, Zenon
  <2>2. Gone(u) \/ entries[TokenKey(u)] = u \/ \E s \in Requests : pc[s] = "store" /\ token[s] = u
    BY Zenon DEF RdtInv, Stored
  <2> QED BY <2>1, <2>2, Zenon
<1>10. Missed'
  <2> SUFFICES ASSUME NEW s \in Requests, pc'[s] \in {"redrop", "mint"}, call[s].kind = "pii",
                      entries[KeyOf(s)] # None
               PROVE  \/ Expired(entries[KeyOf(s)])
                      \/ issued[entries[KeyOf(s)]].for.lane # call[s].lane
    BY <1>1, Zenon DEF Missed, KeyOf, Expired
  <2>1. CASE s = r
    BY <1>2, <1>3, <2>1, Zenon DEF t
  <2>2. CASE s # r
    BY <1>3, <2>2, Zenon DEF RdtInv, Missed
  <2> QED BY <2>1, <2>2, Zenon
<1>11. RejectedStaysOut'
  BY <1>1, Zenon DEF RdtInv, RejectedStaysOut
<1> QED BY <1>1, <1>3, <1>4, <1>5, <1>6, <1>7, <1>8, <1>9, <1>10, <1>11, TokenTypes, InsideWhole, Zenon

(* The lazy deletion only empties the key's entry.                         *)
LEMMA GetDeleteInv ==
  ASSUME RdtInv, NEW r \in Requests, GetDelete(r)
  PROVE  RdtInv'
<1> DEFINE k == KeyOf(r)
<1>1. /\ pc[r] \in {"drop", "redrop"} /\ call[r].kind = "pii" /\ k \in CacheKeys
      /\ UNCHANGED <<call, flights, token, issued, rejected, tracker>>
      /\ entries' = [entries EXCEPT ![k] = None]
      /\ displaced' = displaced \cup Displaced(k, None)
  BY CallFacts, Zenon DEF RdtInv, Places, Place, GetDelete
<1>2. PICK l \in {"join", "mint"} : Goto(r, l) /\ (l \in Leading <=> pc[r] \in Leading)
  BY <1>1, Zenon DEF GetDelete, Leading
<1>3. /\ pc' \in [Requests -> Points] /\ pc'[r] = l
      /\ \A s \in Requests \ {r} : pc'[s] = pc[s]
      /\ \A s \in Requests : pc'[s] # "idle" => call[s] \in Calls
  BY <1>1, <1>2, MovesTypes, Zenon DEF RdtInv, Points
<1> HIDE DEF k
<1>4. /\ entries'[k] = None /\ \A j \in CacheKeys \ {k} : entries'[j] = entries[j]
      /\ entries' \in [CacheKeys -> DOMAIN issued \cup {None}]
      /\ displaced' \subseteq DOMAIN issued /\ displaced \subseteq displaced'
  BY <1>1, TokenTypes, Zenon DEF Displaced
<1>5. Places'
  <2>1. ASSUME NEW s \in Requests \ {r} PROVE Place(s)'
    BY <1>1, <1>3, Zenon DEF RdtInv, Places, Place, tracker
  <2>2. Place(r)'
    BY <1>1, <1>2, <1>3, Zenon DEF Place
  <2> QED BY <2>1, <2>2, Zenon DEF Places
<1>6. Owned'
  BY <1>1, <1>4, Zenon DEF RdtInv, Owned, KeyOf, TokenKey
<1>7. Led'
  BY <1>1, <1>2, <1>3, StillLed, Zenon
<1>8. Private'
  <2> SUFFICES ASSUME NEW s \in Requests, pc'[s] = "store"
               PROVE  /\ issued[token[s]].for = call[s]
                      /\ token[s] \notin rejected
                      /\ \A q \in Requests \ {s} : token[q] # token[s]
                      /\ \A j \in CacheKeys : entries'[j] # token[s]
    BY <1>1, Zenon DEF Private
  <2>1. pc[s] = "store" /\ token[s] # None
    BY <1>2, <1>3, Zenon DEF RdtInv, Places, Place
  <2> QED BY <1>4, <2>1, Zenon DEF RdtInv, Private
<1>9. Stored'
  <2> SUFFICES ASSUME NEW u \in DOMAIN issued, issued[u].for.kind = "pii"
               PROVE  \/ Gone(u)'
                      \/ entries'[TokenKey(u)] = u
                      \/ \E s \in Requests : pc'[s] = "store" /\ token[s] = u
    BY <1>1, Zenon DEF Stored, TokenKey
  <2>1. \A s \in Requests : pc[s] = "store" => pc'[s] = "store"
    BY <1>1, <1>3, Zenon
  <2>2. Gone(u) => Gone(u)'
    BY <1>1, <1>4, Zenon DEF Gone, Expired
  <2>3. TokenKey(u) \in CacheKeys
    BY TokenFacts, Zenon DEF RdtInv, TokenKey, CacheKeys, Issues
  <2>4. ASSUME entries[k] = u PROVE Gone(u)'
    <3>1. u # None
      BY TokenTypes, Zenon
    <3>2. Expired(u) \/ u \in Displaced(k, None)
      BY <2>4, <3>1, Zenon DEF Displaced
    <3> QED BY <1>1, <3>2, Zenon DEF Gone, Expired
  <2> QED BY <1>4, <2>1, <2>2, <2>3, <2>4, Zenon DEF RdtInv, Stored
<1>10. Missed'
  <2> SUFFICES ASSUME NEW s \in Requests, pc'[s] \in {"redrop", "mint"}, call[s].kind = "pii",
                      entries'[KeyOf(s)] # None
               PROVE  \/ Expired(entries'[KeyOf(s)])
                      \/ issued[entries'[KeyOf(s)]].for.lane # call[s].lane
    BY <1>1, Zenon DEF Missed, KeyOf, Expired
  <2>1. s # r /\ KeyOf(s) # k
    BY <1>4, Zenon DEF k
  <2>2. pc[s] = pc'[s] /\ KeyOf(s) \in CacheKeys
    BY <1>3, <2>1, CallFacts, Zenon DEF RdtInv
  <2> QED BY <1>4, <2>1, <2>2, Zenon DEF RdtInv, Missed
<1>11. RejectedStaysOut'
  <2>1. None \notin rejected
    BY TokenTypes, Zenon
  <2> QED BY <1>1, <1>4, <2>1, Zenon DEF RdtInv, RejectedStaysOut
<1> QED BY <1>1, <1>3, <1>4, <1>5, <1>6, <1>7, <1>8, <1>9, <1>10, <1>11, TokenTypes, InsideWhole, Zenon

(* A request joins the flight of its key and lane, or leads a new one.     *)
LEMMA JoinInv ==
  ASSUME RdtInv, NEW r \in Requests, join(r)
  PROVE  RdtInv'
<1>1. /\ pc[r] = "join" /\ call[r].kind = "pii" /\ FlightOf(r) \in CacheKeys \X {c.lane : c \in Calls} \X Requests
      /\ UNCHANGED <<call, entries, token, issued, rejected, displaced, tracker>>
  BY CallFacts, Zenon DEF RdtInv, Places, Place, FlightOf, join
<1>2. PICK l \in {"wait", "recheck"} :
        /\ Goto(r, l)
        /\ \/ l = "wait" /\ flights' = flights
           \/ /\ l = "recheck" /\ flights' = flights \cup {FlightOf(r)}
              /\ \A f \in flights : ~SameFlight(r, f)
  BY Zenon DEF join, FlightOf
<1>3. /\ pc' \in [Requests -> Points] /\ pc'[r] = l
      /\ \A s \in Requests \ {r} : pc'[s] = pc[s]
      /\ \A s \in Requests : pc'[s] # "idle" => call[s] \in Calls
  BY <1>1, <1>2, MovesTypes, Zenon DEF RdtInv, Points
<1>4. flights' \subseteq CacheKeys \X {c.lane : c \in Calls} \X Requests
  BY <1>1, <1>2, TokenTypes, Zenon
<1>5. Places'
  <2>1. ASSUME NEW s \in Requests \ {r} PROVE Place(s)'
    BY <1>1, <1>3, Zenon DEF RdtInv, Places, Place, tracker
  <2>2. Place(r)'
    BY <1>1, <1>2, <1>3, Zenon DEF Place
  <2> QED BY <2>1, <2>2, Zenon DEF Places
<1>6. Owned' /\ RejectedStaysOut'
  BY <1>1, Zenon DEF RdtInv, Owned, KeyOf, TokenKey, RejectedStaysOut
<1>7. Led'
  <2>1. CASE l = "wait"
    BY <1>1, <1>2, <1>3, <2>1, StillLed, Zenon DEF Leading
  <2>2. CASE l = "recheck"
    <3>1. flights' = flights \cup {FlightOf(r)} /\ \A f \in flights : ~SameFlight(r, f)
      BY <1>2, <2>2, Zenon
    <3>2. \A s \in Requests \ {r} : FlightOf(s)' = FlightOf(s) /\ (Leads(s)' <=> Leads(s))
      BY <1>1, <1>3, Zenon DEF FlightOf, KeyOf, Leads
    <3>3. FlightOf(r)' = FlightOf(r) /\ Leads(r)' /\ ~Leads(r) /\ FlightOf(r)[3] = r
      BY <1>1, <1>3, <2>2, Zenon DEF FlightOf, KeyOf, Leads, Leading
    <3>4. \A f \in flights : ~(f[1] = FlightOf(r)[1] /\ f[2] = FlightOf(r)[2])
      BY <3>1, Zenon DEF SameFlight, FlightOf
    <3>5. \A f \in flights : f[3] \in Requests /\ f[3] # r
      BY <3>3, TokenTypes, Zenon DEF RdtInv, Led
    <3>6. \A s \in Requests : Leads(s)' => FlightOf(s)' \in flights'
      BY <3>1, <3>2, <3>3, Zenon DEF RdtInv, Led
    <3>7. \A f \in flights' : f = FlightOf(f[3])' /\ Leads(f[3])'
      BY <3>1, <3>2, <3>3, <3>5, Zenon DEF RdtInv, Led
    <3>8. \A f, g \in flights' : f[1] = g[1] /\ f[2] = g[2] => f = g
      BY <3>1, <3>4, Zenon DEF RdtInv, Led
    <3> QED BY <3>6, <3>7, <3>8, Zenon DEF Led
  <2> QED BY <2>1, <2>2, Zenon
<1>8. Private'
  BY <1>1, <1>2, <1>3, Zenon DEF RdtInv, Private
<1>9. Stored'
  <2> SUFFICES ASSUME NEW u \in DOMAIN issued, issued[u].for.kind = "pii"
               PROVE  \/ Gone(u)
                      \/ entries[TokenKey(u)] = u
                      \/ \E s \in Requests : pc'[s] = "store" /\ token[s] = u
    BY <1>1, Zenon DEF Stored, Gone, Expired, TokenKey
  <2>1. \A s \in Requests : pc[s] = "store" => pc'[s] = "store"
    BY <1>1, <1>3, Zenon
  <2> QED BY <2>1, Zenon DEF RdtInv, Stored
<1>10. Missed'
  <2>1. \A s \in Requests : pc'[s] \in {"redrop", "mint"} => pc[s] = pc'[s]
    BY <1>2, <1>3, Zenon
  <2> QED BY <1>1, <2>1, Zenon DEF RdtInv, Missed, KeyOf, Expired
<1> QED BY <1>1, <1>3, <1>4, <1>5, <1>6, <1>7, <1>8, <1>9, <1>10, TokenTypes, InsideWhole, Zenon

(* A mint that fails only moves the request on.                            *)
LEMMA MintFailsInv ==
  ASSUME RdtInv, NEW r \in Requests, pc[r] = "mint",
         Goto(r, IF call[r].kind = "pii" THEN "land" ELSE "forward"),
         UNCHANGED <<call, tokenStore, tracker>>
  PROVE  RdtInv'
<1>1. UNCHANGED <<call, entries, flights, token, issued, rejected, displaced, reports, documents, created>>
  BY Zenon DEF tokenStore, tracker
<1>2. PICK l \in {"land", "forward"} : Goto(r, l) /\ (l = "land" <=> call[r].kind = "pii")
  BY Zenon
<1>3. /\ pc' \in [Requests -> Points] /\ pc'[r] = l
      /\ \A s \in Requests \ {r} : pc'[s] = pc[s]
      /\ \A s \in Requests : pc'[s] # "idle" => call[s] \in Calls
  BY <1>2, MovesTypes, Zenon DEF RdtInv, Points
<1>4. Places'
  <2>1. ASSUME NEW s \in Requests \ {r} PROVE Place(s)'
    BY <1>1, <1>3, Zenon DEF RdtInv, Places, Place
  <2>2. Place(r)'
    BY <1>1, <1>2, <1>3, Zenon DEF Place
  <2> QED BY <2>1, <2>2, Zenon DEF Places
<1>5. Owned' /\ RejectedStaysOut'
  BY <1>1, Zenon DEF RdtInv, Owned, KeyOf, TokenKey, RejectedStaysOut
<1>6. Led'
  <2>1. \A s \in Requests : FlightOf(s)' = FlightOf(s) /\ (Leads(s)' <=> Leads(s))
    BY <1>1, <1>2, <1>3, Zenon DEF FlightOf, KeyOf, Leads, Leading
  <2>2. \A f \in flights : f[3] \in Requests
    BY TokenTypes, Zenon
  <2> QED BY <1>1, <2>1, <2>2, Zenon DEF RdtInv, Led
<1>7. Private'
  BY <1>1, <1>2, <1>3, Zenon DEF RdtInv, Private
<1>8. Stored'
  <2>1. \A s \in Requests : pc[s] = "store" => pc'[s] = "store"
    BY <1>3, Zenon
  <2> QED BY <1>1, <2>1, Zenon DEF RdtInv, Stored, Gone, Expired, TokenKey
<1>9. Missed'
  <2>1. \A s \in Requests : pc'[s] \in {"redrop", "mint"} => pc[s] = pc'[s]
    BY <1>2, <1>3, Zenon
  <2> QED BY <1>1, <2>1, Zenon DEF RdtInv, Missed, KeyOf, Expired
<1> QED BY <1>1, <1>3, <1>4, <1>5, <1>6, <1>7, <1>8, <1>9, TokenTypes, InsideWhole, Zenon DEF tracker

(* One that succeeds adds a token that nobody has yet.                     *)
LEMMA MintedInv ==
  ASSUME RdtInv, NEW r \in Requests, NEW life \in Lifetimes, pc[r] = "mint",
         issued' = Append(issued, [for |-> call[r], left |-> life]),
         token' = [token EXCEPT ![r] = Len(issued) + 1],
         Goto(r, IF call[r].kind = "pii" THEN "store" ELSE "forward"),
         UNCHANGED <<call, entries, flights, rejected, displaced, tracker>>
  PROVE  RdtInv'
<1> DEFINE n == Len(issued) + 1
<1>a. Len(issued) \in Nat /\ DOMAIN issued = 1 .. Len(issued) /\ None \notin DOMAIN issued
  BY TokenFacts, Zenon DEF RdtInv
<1>b. call[r] \in Calls
  BY CallFacts, Zenon DEF RdtInv
<1>c. n \notin DOMAIN issued /\ n # None
  BY <1>a, RdtConstants
<1>d. /\ issued' \in Seq(Issues)
      /\ DOMAIN issued' = DOMAIN issued \cup {n}
      /\ issued'[n].for = call[r]
      /\ \A t \in DOMAIN issued : issued'[t] = issued[t]
  <2>1. issued \in Seq(Issues) /\ [for |-> call[r], left |-> life] \in Issues
    BY <1>b, RdtConstants, Zenon DEF RdtInv, Types, Issues
  <2>2. /\ issued' \in Seq(Issues)
        /\ Len(issued') = n
        /\ issued'[n] = [for |-> call[r], left |-> life]
        /\ \A t \in 1 .. Len(issued) : issued'[t] = issued[t]
    BY <2>1
  <2> QED BY <2>2
<1> HIDE DEF n
<1>e. /\ token'[r] = n /\ \A s \in Requests \ {r} : token'[s] = token[s]
      /\ token' \in [Requests -> DOMAIN issued' \cup {None}]
  BY <1>d, TokenTypes, Zenon DEF n
<1>f. PICK l \in {"store", "forward"} : Goto(r, l) /\ (l = "store" <=> call[r].kind = "pii")
  BY Zenon
<1>g. /\ pc' \in [Requests -> Points] /\ pc'[r] = l
      /\ \A s \in Requests \ {r} : pc'[s] = pc[s]
      /\ \A s \in Requests : pc'[s] # "idle" => call[s] \in Calls
  BY <1>f, MovesTypes, Zenon DEF RdtInv, Points
<1>h. UNCHANGED <<call, entries, flights, rejected, displaced, reports, documents, created>>
  BY Zenon DEF tracker
<1>i. /\ \A s \in Requests : token[s] # None => token[s] \in DOMAIN issued
      /\ \A k \in CacheKeys : entries[k] # None => entries[k] \in DOMAIN issued
  BY TokenTypes, Zenon
<1>1. Types'
  <2>1. /\ entries' \in [CacheKeys -> DOMAIN issued' \cup {None}]
        /\ rejected' \subseteq DOMAIN issued' /\ displaced' \subseteq DOMAIN issued'
    <3>1. DOMAIN issued \subseteq DOMAIN issued'
      BY <1>d, Zenon
    <3> QED BY <1>h, <3>1, TokenTypes, Zenon
  <2> QED BY <1>d, <1>e, <1>g, <1>h, <2>1, Zenon DEF RdtInv, Types, TypeOK
<1>2. Places'
  <2>1. ASSUME NEW s \in Requests \ {r} PROVE Place(s)'
    <3>1. pc'[s] = pc[s] /\ token'[s] = token[s] /\ call' = call /\ created' = created
      BY <1>e, <1>g, <1>h, Zenon
    <3>2. Place(s)
      BY Zenon DEF RdtInv, Places
    <3> QED BY <3>1, <3>2, Zenon DEF Place
  <2>2. Place(r)'
    BY <1>c, <1>e, <1>f, <1>g, <1>h, Zenon DEF Place
  <2> QED BY <2>1, <2>2, Zenon DEF Places
<1>3. TrackedTypesTrue'
  <2>1. ASSUME NEW t \in DOMAIN issued', issued'[t].for.kind = "download"
        PROVE  created[issued'[t].for.resource] \in Restricted
    <3>1. CASE t \in DOMAIN issued
      BY <1>d, <2>1, <3>1, Zenon DEF RdtInv, TrackedTypesTrue
    <3>2. CASE t = n
      BY <1>d, <2>1, <3>2, Zenon DEF RdtInv, Places, Place
    <3> QED BY <1>d, <3>1, <3>2, Zenon
  <2> QED BY <1>h, <2>1, Zenon DEF RdtInv, TrackedTypesTrue
<1>4. Owned'
  <2>1. \A t \in DOMAIN issued : BuildCacheKey(issued'[t].for) = TokenKey(t)
    BY <1>d, Zenon DEF TokenKey
  <2>2. BuildCacheKey(issued'[n].for) = KeyOf(r)
    BY <1>d, Zenon DEF KeyOf
  <2>3. \A s \in Requests : KeyOf(s)' = KeyOf(s)
    BY <1>h, Zenon DEF KeyOf
  <2>4. ASSUME NEW s \in Requests, token'[s] # None
        PROVE  /\ BuildCacheKey(issued'[token'[s]].for) = KeyOf(s)
               /\ \/ issued'[token'[s]].for = call[s]
                  \/ issued'[token'[s]].for.kind = "pii" /\ call[s].kind = "pii"
    <3>1. CASE s = r
      BY <1>d, <1>e, <2>2, <3>1, Zenon
    <3>2. CASE s # r
      <4>1. token'[s] = token[s] /\ token[s] \in DOMAIN issued
        BY <1>e, <1>i, <2>4, <3>2, Zenon
      <4> QED BY <1>d, <2>1, <2>4, <4>1, Zenon DEF RdtInv, Owned
    <3> QED BY <3>1, <3>2, Zenon
  <2>5. ASSUME NEW k \in CacheKeys, entries[k] # None
        PROVE  BuildCacheKey(issued'[entries[k]].for) = k /\ issued'[entries[k]].for.kind = "pii"
    BY <1>d, <1>h, <1>i, <2>1, <2>5, Zenon DEF RdtInv, Owned
  <2> QED BY <1>h, <2>3, <2>4, <2>5, Zenon DEF Owned, TokenKey
<1>5. Led'
  <2>1. \A s \in Requests : FlightOf(s)' = FlightOf(s) /\ (Leads(s)' <=> Leads(s))
    BY <1>f, <1>g, <1>h, Zenon DEF FlightOf, KeyOf, Leads, Leading
  <2>2. \A f \in flights : f[3] \in Requests
    BY TokenTypes, Zenon
  <2> QED BY <1>h, <2>1, <2>2, Zenon DEF RdtInv, Led
<1>6. Private'
  <2> SUFFICES ASSUME NEW s \in Requests, pc'[s] = "store"
               PROVE  /\ issued'[token'[s]].for = call'[s]
                      /\ token'[s] \notin rejected'
                      /\ \A q \in Requests \ {s} : token'[q] # token'[s]
                      /\ \A k \in CacheKeys : entries'[k] # token'[s]
    BY Zenon DEF Private
  <2>1. CASE s = r
    <3>1. n \notin rejected
      BY <1>c, TokenTypes, Zenon
    <3> QED BY <1>c, <1>d, <1>e, <1>h, <1>i, <2>1, <3>1, Zenon
  <2>2. CASE s # r
    <3>1. pc[s] = "store" /\ token'[s] = token[s] /\ token[s] \in DOMAIN issued
      BY <1>e, <1>g, <1>i, <2>2, Zenon DEF RdtInv, Places, Place
    <3>2. token'[r] # token[s]
      BY <1>c, <1>e, <3>1, Zenon
    <3>3. /\ issued[token[s]].for = call[s] /\ token[s] \notin rejected
          /\ \A q \in Requests \ {s} : token[q] # token[s]
          /\ \A k \in CacheKeys : entries[k] # token[s]
      BY <3>1, Zenon DEF RdtInv, Private
    <3>4. \A q \in Requests \ {s} : token'[q] # token'[s]
      BY <1>e, <3>1, <3>2, <3>3, Zenon
    <3> QED BY <1>d, <1>h, <3>1, <3>3, <3>4, Zenon
  <2> QED BY <2>1, <2>2, Zenon
<1>7. Stored'
  <2> SUFFICES ASSUME NEW u \in DOMAIN issued', issued'[u].for.kind = "pii"
               PROVE  \/ Gone(u)'
                      \/ entries[TokenKey(u)'] = u
                      \/ \E s \in Requests : pc'[s] = "store" /\ token'[s] = u
    BY <1>h, Zenon DEF Stored
  <2>1. CASE u = n
    BY <1>d, <1>e, <1>f, <1>g, <2>1, Zenon
  <2>2. CASE u \in DOMAIN issued
    <3>1. issued'[u] = issued[u]
      BY <1>d, <2>2, Zenon
    <3>2. Gone(u) => Gone(u)'
      BY <1>h, <3>1, Zenon DEF Gone, Expired
    <3>3. TokenKey(u)' = TokenKey(u)
      BY <3>1, Zenon DEF TokenKey
    <3>4. \A s \in Requests : pc[s] = "store" => pc'[s] = "store" /\ token'[s] = token[s]
      BY <1>e, <1>g, Zenon
    <3>5. Gone(u) \/ entries[TokenKey(u)] = u \/ \E s \in Requests : pc[s] = "store" /\ token[s] = u
      BY <2>2, <3>1, Zenon DEF RdtInv, Stored
    <3> QED BY <3>2, <3>3, <3>4, <3>5, Zenon
  <2> QED BY <1>d, <2>1, <2>2, Zenon
<1>8. Missed'
  <2> SUFFICES ASSUME NEW s \in Requests, pc'[s] \in {"redrop", "mint"}, call[s].kind = "pii",
                      entries[KeyOf(s)] # None
               PROVE  \/ Expired(entries[KeyOf(s)])'
                      \/ issued'[entries[KeyOf(s)]].for.lane # call[s].lane
    BY <1>h, Zenon DEF Missed, KeyOf, Expired
  <2>1. pc[s] = pc'[s] /\ KeyOf(s) \in CacheKeys
    BY <1>f, <1>g, CallFacts, Zenon DEF RdtInv
  <2>2. entries' = entries /\ issued'[entries[KeyOf(s)]] = issued[entries[KeyOf(s)]] /\ KeyOf(s)' = KeyOf(s)
    BY <1>d, <1>h, <1>i, <2>1, Zenon DEF KeyOf
  <2> QED BY <2>1, <2>2, Zenon DEF RdtInv, Missed, Expired
<1>9. RejectedStaysOut'
  BY <1>h, Zenon DEF RdtInv, RejectedStaysOut
<1> QED BY <1>1, <1>2, <1>3, <1>4, <1>5, <1>6, <1>7, <1>8, <1>9, Zenon DEF RdtInv

(* Mint: either of the two.                                                *)
LEMMA MintInv ==
  ASSUME RdtInv, NEW r \in Requests, Mint(r)
  PROVE  RdtInv'
<1>1. CASE \E life \in Lifetimes :
             /\ issued' = Append(issued, [for |-> call[r], left |-> life])
             /\ token' = [token EXCEPT ![r] = Len(issued) + 1]
             /\ Goto(r, IF call[r].kind = "pii" THEN "store" ELSE "forward")
  BY <1>1, MintedInv, Zenon DEF Mint
<1>2. CASE /\ Goto(r, IF call[r].kind = "pii" THEN "land" ELSE "forward")
           /\ UNCHANGED <<token, issued>>
  BY <1>2, MintFailsInv, Zenon DEF Mint, tokenStore
<1> QED BY <1>1, <1>2, Zenon DEF Mint

(* Set: the token is no longer its request's own, and is found by all.     *)
LEMMA SetInv ==
  ASSUME RdtInv, NEW r \in Requests, Set(r)
  PROVE  RdtInv'
<1> DEFINE k == KeyOf(r)
<1>1. /\ pc[r] = "store" /\ call[r].kind = "pii" /\ k \in CacheKeys /\ token[r] # None
      /\ UNCHANGED <<call, flights, token, issued, rejected, tracker>>
      /\ entries' = [entries EXCEPT ![k] = token[r]]
      /\ displaced' = displaced \cup Displaced(k, None)
      /\ Goto(r, "land")
  BY CallFacts, Zenon DEF RdtInv, Places, Place, Set
<1>2. /\ pc' \in [Requests -> Points] /\ pc'[r] = "land"
      /\ \A s \in Requests \ {r} : pc'[s] = pc[s]
      /\ \A s \in Requests : pc'[s] # "idle" => call[s] \in Calls
  BY <1>1, MovesTypes, Zenon DEF RdtInv, Points
<1>3. TokenKey(token[r]) = k /\ issued[token[r]].for = call[r] /\ token[r] \notin rejected
  BY <1>1, Zenon DEF RdtInv, Owned, Private
<1>4. \A s \in Requests \ {r} : token[s] # token[r]
  BY <1>1, Zenon DEF RdtInv, Private
<1> HIDE DEF k
<1>5. /\ entries'[k] = token[r] /\ \A j \in CacheKeys \ {k} : entries'[j] = entries[j]
      /\ entries' \in [CacheKeys -> DOMAIN issued \cup {None}]
      /\ displaced' \subseteq DOMAIN issued /\ displaced \subseteq displaced'
  BY <1>1, TokenTypes, Zenon DEF Displaced
<1>6. Places'
  <2>1. ASSUME NEW s \in Requests \ {r} PROVE Place(s)'
    BY <1>1, <1>2, Zenon DEF RdtInv, Places, Place, tracker
  <2>2. Place(r)'
    BY <1>1, <1>2, Zenon DEF Place
  <2> QED BY <2>1, <2>2, Zenon DEF Places
<1>7. Owned'
  <2>1. ASSUME NEW j \in CacheKeys, entries'[j] # None
        PROVE  TokenKey(entries'[j]) = j /\ issued[entries'[j]].for.kind = "pii"
    BY <1>1, <1>3, <1>5, <2>1, Zenon DEF RdtInv, Owned
  <2>2. \A s \in Requests : token[s] # None =>
          /\ TokenKey(token[s]) = KeyOf(s)
          /\ \/ issued[token[s]].for = call[s]
             \/ issued[token[s]].for.kind = "pii" /\ call[s].kind = "pii"
    BY Zenon DEF RdtInv, Owned
  <2> QED BY <1>1, <2>1, <2>2, Zenon DEF Owned, TokenKey, KeyOf
<1>8. Led'
  <2>1. \A s \in Requests : (pc'[s] \in Leading <=> pc[s] \in Leading)
    BY <1>1, <1>2, Zenon DEF Leading
  <2> QED BY <1>1, <2>1, StillLed, Zenon
<1>9. Private'
  <2> SUFFICES ASSUME NEW s \in Requests, pc'[s] = "store"
               PROVE  /\ issued[token[s]].for = call[s]
                      /\ token[s] \notin rejected
                      /\ \A q \in Requests \ {s} : token[q] # token[s]
                      /\ \A j \in CacheKeys : entries'[j] # token[s]
    BY <1>1, Zenon DEF Private
  <2>1. pc[s] = "store" /\ s # r
    BY <1>2, Zenon
  <2>2. token[r] # token[s]
    BY <1>4, <2>1, Zenon
  <2> QED BY <1>5, <2>1, <2>2, Zenon DEF RdtInv, Private
<1>10. Stored'
  <2> SUFFICES ASSUME NEW u \in DOMAIN issued, issued[u].for.kind = "pii"
               PROVE  \/ Gone(u)'
                      \/ entries'[TokenKey(u)] = u
                      \/ \E s \in Requests : pc'[s] = "store" /\ token[s] = u
    BY <1>1, Zenon DEF Stored, TokenKey
  <2>1. \A s \in Requests \ {r} : pc[s] = "store" => pc'[s] = "store"
    BY <1>2, Zenon
  <2>2. Gone(u) => Gone(u)'
    BY <1>1, <1>5, Zenon DEF Gone, Expired
  <2>3. TokenKey(u) \in CacheKeys
    BY TokenFacts, Zenon DEF RdtInv, TokenKey, CacheKeys, Issues
  <2>4. ASSUME entries[k] = u PROVE Gone(u)'
    <3>1. u # None
      BY TokenTypes, Zenon
    <3>2. Expired(u) \/ u \in Displaced(k, None)
      BY <2>4, <3>1, Zenon DEF Displaced
    <3> QED BY <1>1, <3>2, Zenon DEF Gone, Expired
  <2>5. token[r] = u => entries'[TokenKey(u)] = u
    BY <1>3, <1>5, Zenon
  <2>6. Gone(u) \/ entries[TokenKey(u)] = u \/ \E s \in Requests : pc[s] = "store" /\ token[s] = u
    BY Zenon DEF RdtInv, Stored
  <2> QED BY <1>5, <2>1, <2>2, <2>3, <2>4, <2>5, <2>6, Zenon
<1>11. Missed'
  <2> SUFFICES ASSUME NEW s \in Requests, pc'[s] \in {"redrop", "mint"}, call[s].kind = "pii",
                      entries'[KeyOf(s)] # None
               PROVE  \/ Expired(entries'[KeyOf(s)])
                      \/ issued[entries'[KeyOf(s)]].for.lane # call[s].lane
    BY <1>1, Zenon DEF Missed, KeyOf, Expired
  <2>1. s # r /\ pc[s] = pc'[s]
    BY <1>2, Zenon
  <2>2. KeyOf(s) \in CacheKeys
    BY <2>1, CallFacts, Zenon DEF RdtInv
  <2>3. CASE KeyOf(s) = k
    <3>1. Leads(r) /\ Leads(s)
      BY <1>1, <2>1, Zenon DEF Leads, Leading
    <3>2. call[r].lane # call[s].lane
      BY <2>1, <2>3, <3>1, OneLeader, Zenon DEF RdtInv, k
    <3> QED BY <1>3, <1>5, <2>3, <3>2, Zenon
  <2>4. CASE KeyOf(s) # k
    BY <1>5, <2>1, <2>2, <2>4, Zenon DEF RdtInv, Missed
  <2> QED BY <2>3, <2>4, Zenon
<1>12. RejectedStaysOut'
  BY <1>1, <1>3, <1>5, Zenon DEF RdtInv, RejectedStaysOut
<1> QED BY <1>1, <1>2, <1>5, <1>6, <1>7, <1>8, <1>9, <1>10, <1>11, <1>12, TokenTypes, InsideWhole, Zenon

(* The flight is over: its token is its waiters' too.                      *)
LEMMA LandInv ==
  ASSUME RdtInv, NEW r \in Requests, land(r)
  PROVE  RdtInv'
<1>1. /\ pc[r] = "land" /\ call[r].kind = "pii" /\ Leads(r)
      /\ UNCHANGED <<call, entries, issued, rejected, displaced, tracker>>
      /\ flights' = flights \ {FlightOf(r)}
  BY Zenon DEF RdtInv, Places, Place, land, Leads, Leading, FlightOf
<1>2. \A s \in Requests :
        \/ s = r /\ pc'[s] = "forward" /\ token'[s] = token[r]
        \/ /\ s # r /\ pc[s] = "wait" /\ KeyOf(s) = KeyOf(r)
           /\ pc'[s] = "forward" /\ token'[s] = token[r]
        \/ s # r /\ pc'[s] = pc[s] /\ token'[s] = token[s]
  BY Zenon DEF land, Sharing, SameFlight
<1>4. /\ pc' \in [Requests -> Points]
      /\ \A s \in Requests : pc'[s] # "idle" => call[s] \in Calls
  <2>1. \A s \in Requests : pc[s] \in Points /\ (pc'[s] # "idle" => pc[s] # "idle")
    BY <1>1, <1>2, Zenon DEF RdtInv, Types, TypeOK
  <2>2. \A s \in Requests : pc'[s] \in Points
    BY <1>2, <2>1, Zenon DEF Points
  <2>3. pc' \in [Requests -> Points]
    BY <2>2, Zenon DEF land
  <2> QED BY <2>1, <2>3, Zenon DEF RdtInv, Types, TypeOK
<1>5. token' \in [Requests -> DOMAIN issued \cup {None}]
  BY TokenTypes, Zenon DEF land
<1>6. Places'
  <2> SUFFICES ASSUME NEW s \in Requests PROVE Place(s)'
    BY Zenon DEF Places
  <2>1. CASE pc'[s] = "forward"
    BY <2>1, Zenon DEF Place
  <2>2. CASE pc'[s] # "forward"
    <3>1. pc'[s] = pc[s] /\ token'[s] = token[s] /\ call' = call /\ created' = created
      BY <1>1, <1>2, <2>2, Zenon DEF tracker
    <3>2. Place(s)
      BY Zenon DEF RdtInv, Places
    <3> QED BY <3>1, <3>2, Zenon DEF Place
  <2> QED BY <2>1, <2>2, Zenon
<1>7. Owned'
  <2>1. ASSUME NEW s \in Requests, token'[s] # None
        PROVE  /\ TokenKey(token'[s]) = KeyOf(s)
               /\ \/ issued[token'[s]].for = call[s]
                  \/ issued[token'[s]].for.kind = "pii" /\ call[s].kind = "pii"
    <3>1. CASE token'[s] = token[s]
      BY <2>1, <3>1, Zenon DEF RdtInv, Owned
    <3>2. CASE s # r /\ pc[s] = "wait" /\ KeyOf(s) = KeyOf(r) /\ token'[s] = token[r]
      <4>1. call[s].kind = "pii"
        BY <3>2, Zenon DEF RdtInv, Places, Place
      <4>2. TokenKey(token[r]) = KeyOf(r) /\ issued[token[r]].for.kind = "pii"
        BY <1>1, <2>1, <3>2, Zenon DEF RdtInv, Owned
      <4> QED BY <3>2, <4>1, <4>2, Zenon
    <3> QED BY <1>2, <3>1, <3>2, Zenon
  <2>2. \A j \in CacheKeys : entries[j] # None =>
          TokenKey(entries[j]) = j /\ issued[entries[j]].for.kind = "pii"
    BY Zenon DEF RdtInv, Owned
  <2> QED BY <1>1, <2>1, <2>2, Zenon DEF Owned, TokenKey, KeyOf
<1>8. Led'
  <2>1. \A s \in Requests : FlightOf(s)' = FlightOf(s)
    BY <1>1, Zenon DEF FlightOf, KeyOf
  <2>2. \A s \in Requests : Leads(s)' <=> (Leads(s) /\ s # r)
    BY <1>1, <1>2, Zenon DEF Leads, Leading
  <2>3. \A s \in Requests : FlightOf(s)[3] = s
    BY Zenon DEF FlightOf
  <2>4. ASSUME NEW s \in Requests, Leads(s)' PROVE FlightOf(s)' \in flights'
    <3>1. FlightOf(s) \in flights /\ s # r
      BY <2>2, <2>4, Zenon DEF RdtInv, Led
    <3>2. FlightOf(s) # FlightOf(r)
      BY <2>3, <3>1, Zenon
    <3> QED BY <1>1, <2>1, <3>1, <3>2, Zenon
  <2>5. \A f \in flights' : f = FlightOf(f[3])' /\ Leads(f[3])'
    BY <1>1, <2>1, <2>2, TokenTypes, Zenon DEF RdtInv, Led
  <2>6. \A f, g \in flights' : f[1] = g[1] /\ f[2] = g[2] => f = g
    BY <1>1, Zenon DEF RdtInv, Led
  <2> QED BY <2>4, <2>5, <2>6, Zenon DEF Led
<1>9. Private'
  <2> SUFFICES ASSUME NEW s \in Requests, pc'[s] = "store"
               PROVE  /\ issued'[token'[s]].for = call'[s]
                      /\ token'[s] \notin rejected'
                      /\ \A q \in Requests \ {s} : token'[q] # token'[s]
                      /\ \A j \in CacheKeys : entries'[j] # token'[s]
    BY Zenon DEF Private
  <2>1. pc[s] = "store" /\ token'[s] = token[s] /\ s # r
    BY <1>2, Zenon
  <2>2. /\ issued[token[s]].for = call[s] /\ token[s] \notin rejected
        /\ \A q \in Requests \ {s} : token[q] # token[s]
        /\ \A j \in CacheKeys : entries[j] # token[s]
    BY <2>1, Zenon DEF RdtInv, Private
  <2>3. \A q \in Requests \ {s} : token'[q] # token'[s]
    BY <1>2, <2>1, <2>2, Zenon
  <2> QED BY <1>1, <2>1, <2>2, <2>3, Zenon
<1>10. Stored'
  <2> SUFFICES ASSUME NEW u \in DOMAIN issued, issued[u].for.kind = "pii"
               PROVE  \/ Gone(u)
                      \/ entries[TokenKey(u)] = u
                      \/ \E s \in Requests : pc'[s] = "store" /\ token'[s] = u
    BY <1>1, Zenon DEF Stored, TokenKey, Gone, Expired
  <2>1. \A s \in Requests : pc[s] = "store" => pc'[s] = "store" /\ token'[s] = token[s]
    BY <1>1, <1>2, Zenon
  <2>2. Gone(u) \/ entries[TokenKey(u)] = u \/ \E s \in Requests : pc[s] = "store" /\ token[s] = u
    BY Zenon DEF RdtInv, Stored
  <2> QED BY <2>1, <2>2, Zenon
<1>11. Missed'
  <2>1. \A s \in Requests : pc'[s] \in {"redrop", "mint"} => pc[s] = pc'[s]
    BY <1>2, Zenon
  <2> QED BY <1>1, <2>1, Zenon DEF RdtInv, Missed, KeyOf, Expired
<1>12. RejectedStaysOut'
  BY <1>1, Zenon DEF RdtInv, RejectedStaysOut
<1>13. flights' \subseteq CacheKeys \X {c.lane : c \in Calls} \X Requests
  BY <1>1, TokenTypes, Zenon
<1> QED BY <1>1, <1>4, <1>5, <1>6, <1>7, <1>8, <1>9, <1>10, <1>11, <1>12, <1>13, TokenTypes, InsideWhole, Zenon

(* Invalidate empties the only entry that can hold the rejected token.     *)
LEMMA InvalidateInv ==
  ASSUME RdtInv, NEW r \in Requests, Invalidate(r)
  PROVE  RdtInv'
<1> DEFINE k == KeyOf(r)
<1>1. /\ pc[r] = "denied" /\ k \in CacheKeys /\ token[r] # None
      /\ UNCHANGED <<call, flights, token, issued, tracker>>
      /\ entries' = [entries EXCEPT ![k] = None]
      /\ rejected' = rejected \cup {token[r]}
      /\ displaced' = displaced \cup Displaced(k, token[r])
      /\ Goto(r, "answered")
  BY CallFacts, Zenon DEF RdtInv, Places, Place, Invalidate
<1>2. /\ pc' \in [Requests -> Points] /\ pc'[r] = "answered"
      /\ \A s \in Requests \ {r} : pc'[s] = pc[s]
      /\ \A s \in Requests : pc'[s] # "idle" => call[s] \in Calls
  BY <1>1, MovesTypes, Zenon DEF RdtInv, Points
<1>3. TokenKey(token[r]) = k /\ token[r] \in DOMAIN issued
  BY <1>1, TokenTypes, Zenon DEF RdtInv, Owned
<1> HIDE DEF k
<1>4. /\ entries'[k] = None /\ \A j \in CacheKeys \ {k} : entries'[j] = entries[j]
      /\ entries' \in [CacheKeys -> DOMAIN issued \cup {None}]
  BY <1>1, TokenTypes, Zenon
<1>5. rejected' \subseteq DOMAIN issued /\ displaced' \subseteq DOMAIN issued
  BY <1>1, <1>3, TokenTypes, Zenon DEF Displaced
<1>6. Places'
  <2>1. ASSUME NEW s \in Requests \ {r} PROVE Place(s)'
    BY <1>1, <1>2, Zenon DEF RdtInv, Places, Place, tracker
  <2>2. Place(r)'
    BY <1>2, Zenon DEF Place
  <2> QED BY <2>1, <2>2, Zenon DEF Places
<1>7. Owned'
  BY <1>1, <1>4, Zenon DEF RdtInv, Owned, KeyOf, TokenKey
<1>8. Led'
  <2>1. \A s \in Requests : (pc'[s] \in Leading <=> pc[s] \in Leading)
    BY <1>1, <1>2, Zenon DEF Leading
  <2> QED BY <1>1, <2>1, StillLed, Zenon
<1>9. Private'
  <2> SUFFICES ASSUME NEW s \in Requests, pc'[s] = "store"
               PROVE  /\ issued[token[s]].for = call[s]
                      /\ token[s] \notin rejected'
                      /\ \A q \in Requests \ {s} : token[q] # token[s]
                      /\ \A j \in CacheKeys : entries'[j] # token[s]
    BY <1>1, Zenon DEF Private
  <2>1. pc[s] = "store" /\ s # r /\ token[s] # None
    BY <1>2, Zenon DEF RdtInv, Places, Place
  <2>2. /\ issued[token[s]].for = call[s] /\ token[s] \notin rejected
        /\ \A q \in Requests \ {s} : token[q] # token[s]
        /\ \A j \in CacheKeys : entries[j] # token[s]
    BY <2>1, Zenon DEF RdtInv, Private
  <2> QED BY <1>1, <1>4, <2>1, <2>2, Zenon
<1>10. Stored'
  <2> SUFFICES ASSUME NEW u \in DOMAIN issued, issued[u].for.kind = "pii"
               PROVE  \/ Gone(u)'
                      \/ entries'[TokenKey(u)] = u
                      \/ \E s \in Requests : pc'[s] = "store" /\ token[s] = u
    BY <1>1, Zenon DEF Stored, TokenKey
  <2>1. \A s \in Requests : pc[s] = "store" => pc'[s] = "store"
    BY <1>1, <1>2, Zenon
  <2>2. Gone(u) => Gone(u)'
    BY <1>1, Zenon DEF Gone, Expired
  <2>3. TokenKey(u) \in CacheKeys
    BY TokenFacts, Zenon DEF RdtInv, TokenKey, CacheKeys, Issues
  <2>4. ASSUME entries[k] = u PROVE Gone(u)'
    <3>1. u # None
      BY TokenTypes, Zenon
    <3>2. u = token[r] \/ Expired(u) \/ u \in Displaced(k, token[r])
      BY <2>4, <3>1, Zenon DEF Displaced
    <3> QED BY <1>1, <3>2, Zenon DEF Gone, Expired
  <2>5. Gone(u) \/ entries[TokenKey(u)] = u \/ \E s \in Requests : pc[s] = "store" /\ token[s] = u
    BY Zenon DEF RdtInv, Stored
  <2> QED BY <1>4, <2>1, <2>2, <2>3, <2>4, <2>5, Zenon
<1>11. Missed'
  <2> SUFFICES ASSUME NEW s \in Requests, pc'[s] \in {"redrop", "mint"}, call[s].kind = "pii",
                      entries'[KeyOf(s)] # None
               PROVE  \/ Expired(entries'[KeyOf(s)])
                      \/ issued[entries'[KeyOf(s)]].for.lane # call[s].lane
    BY <1>1, Zenon DEF Missed, KeyOf, Expired
  <2>1. pc[s] = pc'[s] /\ KeyOf(s) # k
    BY <1>2, <1>4, Zenon
  <2>2. KeyOf(s) \in CacheKeys
    BY <2>1, CallFacts, Zenon DEF RdtInv
  <2> QED BY <1>4, <2>1, <2>2, Zenon DEF RdtInv, Missed
<1>12. RejectedStaysOut'
  <2> SUFFICES ASSUME NEW j \in CacheKeys PROVE entries'[j] \notin rejected'
    BY Zenon DEF RejectedStaysOut
  <2>1. None \notin rejected
    BY TokenTypes, Zenon
  <2>2. CASE j = k
    BY <1>1, <1>4, <2>1, <2>2, Zenon
  <2>3. CASE j # k
    <3>1. entries[j] \notin rejected /\ (entries[j] # None => TokenKey(entries[j]) = j)
      BY Zenon DEF RdtInv, RejectedStaysOut, Owned
    <3>2. entries[j] # token[r]
      BY <1>1, <1>3, <2>3, <3>1, Zenon
    <3> QED BY <1>1, <1>4, <2>3, <3>1, <3>2, Zenon
  <2> QED BY <2>2, <2>3, Zenon
<1> QED BY <1>1, <1>2, <1>4, <1>5, <1>6, <1>7, <1>8, <1>9, <1>10, <1>11, <1>12, TokenTypes, InsideWhole, Zenon

(* Time leaves the tokens where they are; what has expired stays so.       *)
LEMMA TickInv ==
  ASSUME RdtInv, Tick
  PROVE  RdtInv'
<1>a. /\ Len(issued) \in Nat /\ DOMAIN issued = 1 .. Len(issued)
      /\ \A t \in DOMAIN issued : issued[t] \in Issues
  BY TokenFacts, Zenon DEF RdtInv
<1>b. /\ issued' = Age(issued) /\ reports' = Age(reports) /\ documents' = Age(documents)
      /\ UNCHANGED <<pc, call, entries, flights, token, rejected, displaced, created>>
  BY Zenon DEF Tick
<1>c. DOMAIN issued' = DOMAIN issued
  BY <1>b, Zenon DEF Age
<1>d. ASSUME NEW t \in DOMAIN issued
      PROVE  /\ issued'[t] \in Issues /\ issued'[t].for = issued[t].for
             /\ Expired(t) => Expired(t)'
  <2>1. issued'[t] = [issued[t] EXCEPT !.left = Less(issued[t].left)]
    BY <1>b, Zenon DEF Age
  <2>2. issued[t].left \in Nat
    BY <1>a, Zenon DEF Issues
  <2>3. Less(issued[t].left) \in Nat /\ Less(issued[t].left) <= issued[t].left
    BY <2>2 DEF Less
  <2>4. /\ issued'[t] \in Issues /\ issued'[t].for = issued[t].for
        /\ issued'[t].left = Less(issued[t].left)
    BY <1>a, <2>1, <2>3, Zenon DEF Issues
  <2>5. issued[t].left < Margin => issued'[t].left < Margin
    BY <2>2, <2>3, <2>4, RdtConstants
  <2> QED BY <2>4, <2>5, Zenon DEF Expired
<1>e. issued' \in Seq(Issues)
  <2>1. issued' \in [1 .. Len(issued) -> Issues]
    BY <1>a, <1>b, <1>d, Zenon DEF Age
  <2> QED BY <1>a, <2>1
<1>f. ASSUME NEW e \in Tracked
      PROVE  [e EXCEPT !.left = Less(@)] \in Tracked /\ [e EXCEPT !.left = Less(@)].type = e.type
  <2>1. e.left \in 0 .. TTL
    BY Zenon DEF Tracked
  <2>2. Less(e.left) \in 0 .. TTL
    BY <2>1, RdtConstants DEF Less
  <2> QED BY <2>2, Zenon DEF Tracked
<1>g. /\ reports' \in [Reports -> Tracked] /\ documents' \in [Reports -> Tracked]
      /\ \A p \in Reports :
           reports'[p].type = reports[p].type /\ documents'[p].type = documents[p].type
  <2>1. reports \in [Reports -> Tracked] /\ documents \in [Reports -> Tracked]
    BY Zenon DEF RdtInv, Types, TypeOK
  <2>2. /\ DOMAIN reports = Reports /\ DOMAIN documents = Reports
        /\ \A p \in Reports : reports[p] \in Tracked /\ documents[p] \in Tracked
    BY <2>1, Zenon
  <2> QED BY <1>b, <1>f, <2>2, Zenon DEF Age
<1>1. Types'
  BY <1>b, <1>c, <1>e, <1>g, Zenon DEF RdtInv, Types, TypeOK
<1>2. Places' /\ Led' /\ RejectedStaysOut'
  BY <1>b, Zenon
    DEF RdtInv, Places, Place, Led, Leads, FlightOf, KeyOf, RejectedStaysOut
<1>3. TrackedTypesTrue'
  BY <1>b, <1>c, <1>d, <1>g, Zenon DEF RdtInv, TrackedTypesTrue
<1>h. /\ \A s \in Requests : token[s] # None => token[s] \in DOMAIN issued
      /\ \A k \in CacheKeys : entries[k] # None => entries[k] \in DOMAIN issued
  BY TokenTypes, Zenon
<1>4. Owned'
  BY <1>b, <1>d, <1>h, Zenon DEF RdtInv, Owned, KeyOf, TokenKey
<1>5. Private'
  <2>1. \A s \in Requests : pc[s] = "store" => issued'[token[s]].for = issued[token[s]].for
    BY <1>d, <1>h, Zenon DEF RdtInv, Places, Place
  <2> QED BY <1>b, <2>1, Zenon DEF RdtInv, Private
<1>6. Stored'
  <2> SUFFICES ASSUME NEW u \in DOMAIN issued', issued'[u].for.kind = "pii"
               PROVE  \/ Gone(u)'
                      \/ entries'[TokenKey(u)'] = u
                      \/ \E s \in Requests : pc'[s] = "store" /\ token'[s] = u
    BY Zenon DEF Stored
  <2>1. /\ u \in DOMAIN issued /\ issued[u].for.kind = "pii"
        /\ TokenKey(u)' = TokenKey(u)
    BY <1>c, <1>d, Zenon DEF TokenKey
  <2>2. Gone(u) => Gone(u)'
    BY <1>b, <1>d, <2>1, Zenon DEF Gone
  <2>3. Gone(u) \/ entries[TokenKey(u)] = u \/ \E s \in Requests : pc[s] = "store" /\ token[s] = u
    BY <2>1, Zenon DEF RdtInv, Stored
  <2> QED BY <1>b, <2>1, <2>2, <2>3, Zenon
<1>7. Missed'
  <2> SUFFICES ASSUME NEW s \in Requests, pc[s] \in {"redrop", "mint"}, call[s].kind = "pii",
                      NEW t, t = entries[KeyOf(s)], t # None
               PROVE  Expired(t)' \/ issued'[t].for.lane # call[s].lane
    BY <1>b, Zenon DEF Missed, KeyOf, Expired
  <2>1. t \in DOMAIN issued
    BY <1>h, CallFacts, Zenon DEF RdtInv
  <2> QED BY <1>d, <2>1, Zenon DEF RdtInv, Missed
<1> QED BY <1>1, <1>2, <1>3, <1>4, <1>5, <1>6, <1>7, Zenon DEF RdtInv

(* Nor does a step of nothing change anything.                             *)
LEMMA RdtStutterInv ==
  ASSUME RdtInv, UNCHANGED vars
  PROVE  RdtInv'
<1>1. UNCHANGED <<pc, call, entries, flights, token, issued, rejected, displaced,
                  reports, documents, created>>
  BY Zenon DEF vars, tokenStore, tracker
<1>2. Types' /\ Places' /\ TrackedTypesTrue' /\ RejectedStaysOut'
  BY <1>1, Zenon DEF RdtInv, Types, TypeOK, Places, Place, TrackedTypesTrue, RejectedStaysOut
<1>3. Owned' /\ Led' /\ Private'
  BY <1>1, Zenon DEF RdtInv, Owned, TokenKey, Led, Leads, FlightOf, KeyOf, Private
<1>4. Stored' /\ Missed'
  BY <1>1, Zenon DEF RdtInv, Stored, Gone, TokenKey, Missed, Expired, KeyOf
<1> QED BY <1>2, <1>3, <1>4, Zenon DEF RdtInv

----------------------------------------------------------------------------

(* RdtInv is an invariant: it holds at first and every step of a handler,  *)
(* of the cache, of Amazon or of time keeps it.                            *)
THEOREM RdtInvariant == Spec => []RdtInv
<1>1. ASSUME RdtInv, [Next]_vars
      PROVE  RdtInv'
  <2>1. CASE UNCHANGED vars
    BY <1>1, <2>1, RdtStutterInv, Zenon
  <2>2. CASE Tick
    BY <1>1, <2>2, TickInv, Zenon
  <2>3. ASSUME NEW r \in Requests, NEW c \in Calls, Handler(r, c)
        PROVE  RdtInv'
    BY <1>1, <2>3, HandlerInv, Zenon
  <2>4. ASSUME NEW r \in Requests, Step(r)
        PROVE  RdtInv'
    BY <1>1, <2>4, LookupInv, GetInv, GetDeleteInv, JoinInv, MintInv, SetInv, LandInv,
       ForwardInv, InvalidateInv, CreationInv, DocumentInv, Zenon DEF Step
  <2> QED BY <1>1, <2>1, <2>2, <2>3, <2>4, Zenon DEF Next
<1> QED BY <1>1, RdtInitInv, PTL DEF Spec

(* Every program counter, key, token and tracker entry stays in its range. *)
THEOREM RdtTypes == Spec => []TypeOK
<1>1. RdtInv => TypeOK
  BY Zenon DEF RdtInv, Types
<1> QED BY <1>1, RdtInvariant, PTL

(* No request of handlePIIOperation, handleForceRDT or                     *)
(* handleDocumentDownload is forwarded with a token minted for another     *)
(* merchant or resource, and with one minted in another lane only by way   *)
(* of the cache.                                                           *)
THEOREM TokensOwned == Spec => []OwnToken
<1>1. ASSUME RdtInv PROVE OwnToken
  <2> SUFFICES ASSUME NEW r \in Requests, token[r] # None,
                      NEW for, for = issued[token[r]].for
               PROVE  /\ for.merchant = call[r].merchant /\ for.resource = call[r].resource
                      /\ for.lane # call[r].lane =>
                           /\ for.kind = "pii" /\ call[r].kind = "pii"
                           /\ \A s \in Requests : pc[s] = "store" => token[s] # token[r]
    BY Zenon DEF OwnToken
  <2>1. /\ BuildCacheKey(for) = BuildCacheKey(call[r])
        /\ for = call[r] \/ (for.kind = "pii" /\ call[r].kind = "pii")
    BY <1>1, Zenon DEF RdtInv, Owned, TokenKey, KeyOf
  <2>2. for.merchant = call[r].merchant /\ for.resource = call[r].resource
    BY <2>1 DEF BuildCacheKey
  <2>3. ASSUME NEW s \in Requests, pc[s] = "store", token[s] = token[r] PROVE for = call[r]
    BY <1>1, <2>3, Zenon DEF RdtInv, Private
  <2> QED BY <2>1, <2>2, <2>3, Zenon
<1> QED BY <1>1, RdtInvariant, PTL

(* What sniffCreateReport and sniffGetReport put into the tracker is the   *)
(* type the report was created with, and handleDocumentDownload mints only *)
(* for the document of a restricted one.                                   *)
THEOREM TypesTracked == Spec => []TrackedTypesTrue
<1>1. RdtInv => TrackedTypesTrue
  BY Zenon DEF RdtInv
<1> QED BY <1>1, RdtInvariant, PTL

(* mintWithSingleflight never mints beside another mint of the same key    *)
(* and lane, nor while a token of theirs is neither expired, rejected nor  *)
(* displaced.                                                              *)
THEOREM MintsShared == Spec => []NoDuplicateMint
<1>1. ASSUME RdtInv PROVE NoDuplicateMint
  <2> SUFFICES ASSUME NEW r \in Requests, pc[r] = "mint", call[r].kind = "pii"
               PROVE  /\ \A s \in Requests \ {r} :
                           pc[s] \in {"mint", "store"} => ~Twins(call[s], call[r])
                      /\ \A t \in DOMAIN issued :
                           Twins(issued[t].for, call[r]) => Expired(t) \/ t \in rejected \cup displaced
    BY Zenon DEF NoDuplicateMint
  <2>1. ASSUME NEW s \in Requests \ {r}, pc[s] \in {"mint", "store"}, Twins(call[s], call[r])
        PROVE  FALSE
    <3>1. Leads(r) /\ Leads(s)
      BY <2>1, Zenon DEF Twins, Leads, Leading
    <3>2. KeyOf(r) = KeyOf(s) /\ call[r].lane = call[s].lane
      BY <2>1, Zenon DEF Twins, KeyOf
    <3> QED BY <1>1, <3>1, <3>2, OneLeader, Zenon DEF RdtInv
  <2>2. ASSUME NEW t \in DOMAIN issued, Twins(issued[t].for, call[r])
        PROVE  Gone(t)
    <3>1. CASE entries[TokenKey(t)] = t
      <4>1. TokenKey(t) = KeyOf(r) /\ issued[t].for.lane = call[r].lane
        BY <2>2, Zenon DEF Twins, TokenKey, KeyOf
      <4>2. t # None
        BY <1>1, TokenTypes, Zenon
      <4> QED BY <1>1, <3>1, <4>1, <4>2, Zenon DEF RdtInv, Missed, Gone
    <3>2. CASE \E s \in Requests : pc[s] = "store" /\ token[s] = t
      <4>1. PICK s \in Requests : pc[s] = "store" /\ token[s] = t
        BY <3>2, Zenon
      <4>2. Twins(call[s], call[r]) /\ s # r
        BY <1>1, <2>2, <4>1, Zenon DEF RdtInv, Private
      <4> QED BY <2>1, <4>1, <4>2, Zenon
    <3> QED BY <1>1, <2>2, <3>1, <3>2, Zenon DEF RdtInv, Stored, Twins
  <2> QED BY <2>1, <2>2, Zenon DEF Gone
<1> QED BY <1>1, RdtInvariant, PTL

(* What serveWithRDT has invalidated after a 401 or 403 is never again in  *)
(* the token cache.                                                        *)
THEOREM RejectedGone == Spec => []RejectedStaysOut
<1>1. RdtInv => RejectedStaysOut
  BY Zenon DEF RdtInv
<1> QED BY <1>1, RdtInvariant, PTL

=============================================================================
