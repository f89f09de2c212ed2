---------------------------- MODULE ReplayTokens ----------------------------
(***************************************************************************)
(* The access tokens last seen from each merchant's clients                *)
(* (internal/tokenstore/store.go), filled in by the logging handler and    *)
(* used by the dashboard to replay a logged request                        *)
(* (internal/dashboard/replay.go).  Reading an expired token and deleting  *)
(* it are two steps, each under a lock of its own.                         *)
(***************************************************************************)
EXTENDS Naturals

CONSTANTS Merchants, AccessTokens, Replays, TokenTTL

ASSUME TokenConstants == TokenTTL \in Nat

None == "none"

Absent == [token |-> None, age |-> TokenTTL]

VARIABLES
  seen,      \* merchant -> the entry of the store, its age up to TokenTTL; or Absent
  replay,    \* replay -> where it is, for which merchant, with which token
  answer,    \* replay -> what the dashboard is told
  overlap,   \* history: merchants with a token set while a reader was about to
             \* delete the expired one
  lastSet,   \* history: merchant -> ticks since its last Set, up to TokenTTL
  refreshed  \* history: replays refused whose merchant has sent a token since

tokenVars == <<seen, replay, answer, overlap, lastSet, refreshed>>

TokensInit ==
  /\ seen = [m \in Merchants |-> Absent]
  /\ replay \in [Replays -> [pc : {"idle"}, merchant : Merchants, token : {None}]]
  /\ answer = [r \in Replays |-> None]
  /\ overlap = {}
  /\ lastSet = [m \in Merchants |-> TokenTTL]
  /\ refreshed = {}

LiveToken(e) == e # Absent /\ e.age < TokenTTL

ReplayAt(r, pc) == replay' = [replay EXCEPT ![r].pc = pc]

About(m, pc) == {r \in Replays : replay[r].merchant = m /\ replay[r].pc = pc}

(* Mutant: a token already in the store is not refreshed.                  *)
SetTokenKeepsAge(m, t) ==
  /\ seen' = [seen EXCEPT ![m] = IF @ # Absent THEN [@ EXCEPT !.token = t]
                                 ELSE [token |-> t, age |-> 0]]
  /\ lastSet' = [lastSet EXCEPT ![m] = 0]
  /\ overlap' = IF About(m, "expired") # {} THEN overlap \cup {m} ELSE overlap \ {m}
  /\ refreshed' = refreshed \cup About(m, "expired") \cup About(m, "refused")

SetToken(m, t) ==
  /\ seen' = [seen EXCEPT ![m] = [token |-> t, age |-> 0]]
  /\ lastSet' = [lastSet EXCEPT ![m] = 0]
  /\ overlap' = IF About(m, "expired") # {} THEN overlap \cup {m} ELSE overlap \ {m}
  /\ refreshed' = refreshed \cup About(m, "expired") \cup About(m, "refused")

(* A client's request has been answered, and its client is still there.    *)
ClientRequest(m, t) == SetToken(m, t) /\ UNCHANGED <<replay, answer>>

(* handleReplay up to the read of the token.  The row may be missing or    *)
(* unreadable, or the region without a handler.                            *)
BeginReplay(r) ==
  /\ replay[r].pc = "idle"
  /\ \/ ReplayAt(r, "get") /\ UNCHANGED answer
     \/ ReplayAt(r, "done") /\ answer' = [answer EXCEPT ![r] = "failed"]
  /\ UNCHANGED <<seen, overlap, lastSet, refreshed>>

(* Mutant: Get refuses a token a tick early, and leaves it in the store.   *)
GetTokenEarly(r) ==
  LET e == seen[replay[r].merchant]
  IN /\ replay[r].pc = "get"
     /\ replay' = [replay EXCEPT ![r].pc = IF LiveToken(e) /\ e.age + 1 < TokenTTL
                                            THEN "send" ELSE "refused",
                                 ![r].token = IF LiveToken(e) THEN e.token ELSE None]
     /\ UNCHANGED <<seen, answer, overlap, lastSet, refreshed>>

(* Get, up to RUnlock and the look at the clock.                           *)
GetToken(r) ==
  LET e == seen[replay[r].merchant]
  IN /\ replay[r].pc = "get"
     /\ replay' = [replay EXCEPT ![r].pc = IF e = Absent THEN "refused"
                                           ELSE IF LiveToken(e) THEN "send" ELSE "expired",
                                 ![r].token = IF LiveToken(e) THEN e.token ELSE None]
     /\ UNCHANGED <<seen, answer, overlap, lastSet, refreshed>>

(* The rest of Get: whatever the entry is by now, it goes.                 *)
GetTokenDelete(r) ==
  /\ replay[r].pc = "expired"
  /\ seen' = [seen EXCEPT ![replay[r].merchant] = Absent]
  /\ ReplayAt(r, "refused")
  /\ UNCHANGED <<answer, overlap, lastSet, refreshed>>

UnavailabilityReason(r) ==
  LET e == seen[replay[r].merchant]
  IN /\ replay[r].pc = "refused"
     /\ answer' = [answer EXCEPT ![r] = IF e = Absent THEN "no token"
                                        ELSE IF LiveToken(e) THEN "" ELSE "token expired"]
     /\ ReplayAt(r, "done")
     /\ UNCHANGED <<seen, overlap, lastSet, refreshed>>

(* The replay goes through the proxy's own handlers, which see its token   *)
(* again, unless it cannot be built or the dashboard's client leaves.      *)
SendReplay(r) ==
  /\ replay[r].pc = "send"
  /\ ReplayAt(r, "done")
  /\ \/ /\ answer' = [answer EXCEPT ![r] = "sent"]
        /\ SetToken(replay[r].merchant, replay[r].token)
     \/ /\ answer' = [answer EXCEPT ![r] = "failed"]
        /\ UNCHANGED <<seen, overlap, lastSet, refreshed>>

TokenTick ==
  /\ seen' = [m \in Merchants |->
                IF LiveToken(seen[m]) THEN [seen[m] EXCEPT !.age = @ + 1] ELSE seen[m]]
  /\ lastSet' = [m \in Merchants |-> IF lastSet[m] < TokenTTL THEN lastSet[m] + 1 ELSE TokenTTL]
  /\ UNCHANGED <<replay, answer, overlap, refreshed>>

TokensNext ==
  \/ \E m \in Merchants, t \in AccessTokens : ClientRequest(m, t)
  \/ \E r \in Replays : \/ BeginReplay(r) \/ GetToken(r) \/ GetTokenDelete(r)
                        \/ UnavailabilityReason(r) \/ SendReplay(r)
  \/ TokenTick

TokensSpec == TokensInit /\ [][TokensNext]_tokenVars

----------------------------------------------------------------------------

(* Replay is offered as long as a client was seen within the TTL: a live   *)
(* token is lost only if it arrived while a reader that had found the one  *)
(* before it expired was about to delete that (store.go:52-56).            *)
LiveUnlessOverlapped ==
  \A m \in Merchants : lastSet[m] < TokenTTL => LiveToken(seen[m]) \/ m \in overlap

(* A refused replay says why: the reason is empty only if a token arrived  *)
(* between the refusal and the question (store.go:61-73, replay.go:48-54). *)
RefusalExplained == \A r \in Replays : answer[r] = "" => r \in refreshed

=============================================================================
