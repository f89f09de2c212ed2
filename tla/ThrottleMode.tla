---------------------------- MODULE ThrottleMode ----------------------------
(***************************************************************************)
(* How the throttle mode and the queue timeout of a request are resolved   *)
(* from the operator's configuration and from the request's header         *)
(* (internal/ratelimit/middleware.go:158-247).  A mode that is absent or   *)
(* does not parse is Unset.                                                *)
(***************************************************************************)
EXTENDS Naturals

CONSTANTS
  Timeouts,       \* configured timeouts and header suffixes, in milliseconds; 0 for none
  DefaultTimeout  \* used when the configured one is missing

ASSUME TimeoutConstants ==
  /\ Timeouts \subseteq Nat
  /\ 0 \in Timeouts
  /\ DefaultTimeout \in Nat \ {0}

Modes == {"queue", "reject", "queue-timeout"}
Unset == "unset"

VARIABLES
  merchantMode, endpointMode, defaultMode,  \* the configuration
  queueTimeout,
  header,   \* the request's header: its mode and its timeout suffix
  result    \* the mode and timeout resolved for it, once they are

throttleVars == <<merchantMode, endpointMode, defaultMode, queueTimeout, header, result>>

(* A suffix is part of a queue-timeout header, or of one that is no mode.  *)
Headers == {h \in [mode : Modes \cup {Unset}, wait : Timeouts] :
              h.wait # 0 => h.mode \in {"queue-timeout", Unset}}

NoResult == [mode |-> Unset, timeout |-> 0]

ThrottleInit ==
  /\ merchantMode \in Modes \cup {Unset}
  /\ endpointMode \in Modes \cup {Unset}
  /\ defaultMode \in Modes \cup {Unset}
  /\ queueTimeout \in Timeouts
  /\ header \in Headers
  /\ result = NoResult

Or(m, fallback) == IF m # Unset THEN m ELSE fallback

(* The endpoint's mode overrides the merchant's, and "queue" from either   *)
(* still falls through to the default.                                     *)
OperatorMode ==
  LET override == Or(endpointMode, Or(merchantMode, "queue"))
  IN IF override = "queue" THEN Or(defaultMode, "queue") ELSE override

(* Mutant: the header always wins.                                         *)
resolveThrottleModeHeaderWins == Or(header.mode, OperatorMode)

resolveThrottleMode ==
  IF OperatorMode = "reject" THEN "reject" ELSE Or(header.mode, OperatorMode)

resolveTimeout ==
  LET cfgMax == IF queueTimeout > 0 THEN queueTimeout ELSE DefaultTimeout
  IN IF header.wait > 0 /\ header.wait < cfgMax THEN header.wait ELSE cfgMax

Resolve ==
  /\ result = NoResult
  /\ result' = [mode |-> resolveThrottleMode, timeout |-> resolveTimeout]
  /\ UNCHANGED <<merchantMode, endpointMode, defaultMode, queueTimeout, header>>

(* The next request.                                                       *)
Arrive ==
  /\ result # NoResult
  /\ header' \in Headers
  /\ result' = NoResult
  /\ UNCHANGED <<merchantMode, endpointMode, defaultMode, queueTimeout>>

ThrottleNext == Resolve \/ Arrive

ThrottleSpec == ThrottleInit /\ [][ThrottleNext]_throttleVars

----------------------------------------------------------------------------

Resolved == result # NoResult

(* The operator's settings are a ceiling: "reject", from whichever of the  *)
(* three levels it comes, stays, and a request waits no longer than        *)
(* allowed; a client that asks to fail fast, or sooner, does, and a wait   *)
(* is always positive (middleware.go:158-162, 193-202, 222-247).           *)
OperatorIsCeiling ==
  Resolved =>
    /\ \/ endpointMode = "reject"
       \/ merchantMode = "reject" /\ endpointMode = Unset
       \/ {merchantMode, endpointMode} = {Unset} /\ defaultMode = "reject"
       \/ header.mode = "reject"
       => result.mode = "reject"
    /\ result.timeout > 0
    /\ result.timeout <= IF queueTimeout > 0 THEN queueTimeout ELSE DefaultTimeout
    /\ header.wait > 0 => result.timeout <= header.wait

(* "Resolution order: header > per-merchant > per-endpoint > global        *)
(* default" (middleware.go:164), and "Only fall through to default when no *)
(* per-merchant or per-endpoint override applies." (middleware.go:184-185): *)
(* with no header, the first level that is set is the one used.            *)
DocumentedOrder ==
  Resolved /\ header.mode = Unset =>
    /\ merchantMode # Unset => result.mode = merchantMode
    /\ merchantMode = Unset /\ endpointMode # Unset => result.mode = endpointMode

=============================================================================
