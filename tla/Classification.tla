--------------------------- MODULE Classification ---------------------------
(***************************************************************************)
(* What the handlers decide about a request from its method, path and      *)
(* query: its endpoint pattern, its bucket, the operation a restricted     *)
(* data token is minted for, its cache tier, and how it is redacted in the *)
(* log.  Each decision is the first match in one of the EndpointTables.    *)
(***************************************************************************)
EXTENDS EndpointTables, FiniteSets

CONSTANTS
  ParamValues,        \* what path parameters are filled with
  Methods,
  QuerySelects   \* whether the query asks for personal data: a set of Booleans

NoPattern == <<>>

FirstMatch(rows, Matches(_)) ==
  LET hits == {i \in DOMAIN rows : Matches(rows[i])} IN IF hits = {} THEN 0 ELSE Min(hits)

(* strings.TrimRight(path, "/").  URL.Path holds no query.                 *)
Trim(path) == SubSeq(path, 1, Max({0} \cup {i \in DOMAIN path : path[i] # ""}))

RowMatches(path, row) ==
  /\ HasPrefix(path, row.prefix)
  /\ Len(path) = Len(row.pattern)
  /\ HasSuffix(path, row.suffix)

(* Mutant: the suffix is not compared.                                     *)
ClassifyKnownBySegments(path) ==
  LET p == Trim(path)
      i == FirstMatch(endpointPatterns,
                      LAMBDA row : HasPrefix(p, row.prefix) /\ Len(p) = Len(row.pattern))
  IN IF i = 0 THEN [pattern |-> p, known |-> FALSE]
     ELSE [pattern |-> endpointPatterns[i].pattern, known |-> TRUE]

(* Unknown paths are their own pattern.                                    *)
ClassifyKnown(path) ==
  LET p == Trim(path)
      i == FirstMatch(endpointPatterns, LAMBDA row : RowMatches(p, row))
  IN IF i = 0 THEN [pattern |-> p, known |-> FALSE]
     ELSE [pattern |-> endpointPatterns[i].pattern, known |-> TRUE]

LookupDefaults(method, pattern) ==
  <<method, pattern>> \in MethodBucketOverrides \/ pattern \in DefaultBucketParams

(* Mutant: a rule for another suffix matches too.                          *)
MatchPIIOperationLoosely(method, path) ==
  LET p == Trim(path)
      i == FirstMatch(piiRules, LAMBDA rule : /\ rule.method = method
                                             /\ HasPrefix(p, rule.row.prefix)
                                             /\ Len(p) = Len(rule.row.pattern))
  IN IF i = 0 THEN NoPattern ELSE piiRules[i].row.pattern

(* The generic path of the operation.                                      *)
MatchPIIOperation(method, path) ==
  LET p == Trim(path)
      i == FirstMatch(piiRules, LAMBDA rule : rule.method = method /\ RowMatches(p, rule.row))
  IN IF i = 0 THEN NoPattern ELSE piiRules[i].row.pattern

----------------------------------------------------------------------------
(* The registry of personal data.                                          *)

HasLogRules(pattern) == pattern \in DefaultPIIRules \cup ConditionalPIIRules

IsFullBodyPII(failClosed, pattern, known) ==
  \/ pattern \in DefaultFullBodyPIIEndpoints
  \/ failClosed /\ ~HasLogRules(pattern) /\ ~known

(* Mutant: endpoints with rules for single fields may be cached.           *)
ContainsPIIFullBodyOnly(r) ==
  LET c == ClassifyKnown(r.path)
  IN /\ r.method = "GET"
     /\ \/ c.pattern \in DefaultFullBodyPIIEndpoints
        \/ r.selects
        \/ r.failClosed /\ ~c.known

ContainsPII(r) ==
  LET c == ClassifyKnown(r.path)
  IN /\ r.method = "GET"
     /\ \/ c.pattern \in DefaultFullBodyPIIEndpoints \cup DefaultPIIRules
        \/ r.selects
        \/ r.failClosed /\ ~c.known

(* The actions share one pattern with the GET of a message.  The action is *)
(* what follows the first "/messages/", and the path is not trimmed.       *)
classifyMessagingPOST(r) ==
  LET p == r.path
      middles == {i \in 5 .. Len(p) - 1 : p[i] = "messages"}
  IN IF /\ r.method = "POST"
        /\ IsPrefix(<<"messaging", "v1", "orders">>, p)
        /\ middles # {} /\ Min(middles) = Len(p) - 1
        /\ Last(p) \in messagingPOSTActions
     THEN <<"messaging", "v1", "orders", P, "messages", Last(p)>> ELSE NoPattern

(* Mutant: the shared pattern hides the rules of the messaging actions.    *)
RequestBodyPatternMethodBlind(r) ==
  LET c == ClassifyKnown(r.path)
      p == IF r.method \in {"GET", "HEAD", "OPTIONS"} THEN NoPattern ELSE c.pattern
  IN IF p \in DefaultRequestBodyPIIRules \/ (r.failClosed /\ ~c.known)
     THEN p ELSE NoPattern

(* The key of the rules for the request body, if it may hold personal data.*)
RequestBodyPattern(r) ==
  LET c == ClassifyKnown(r.path)
      m == classifyMessagingPOST(r)
      p == IF r.method \in {"GET", "HEAD", "OPTIONS"} THEN NoPattern
           ELSE IF m # NoPattern THEN m ELSE c.pattern
  IN IF p \in DefaultRequestBodyPIIRules \/ (r.failClosed /\ m = NoPattern /\ ~c.known)
     THEN p ELSE NoPattern

----------------------------------------------------------------------------
(* redactBody: what the log keeps of the bodies.  That a request is to be  *)
(* redacted is decided when it is served, by which rules when the logger's *)
(* worker gets to it.  The engine gives a body back as it is when it is    *)
(* not JSON or no rule matches a field of it.                              *)

RedactForLogging(rules, pattern, r) == pattern \in rules /\ r.matches

redactResponse(r) ==
  LET c == ClassifyKnown(r.path)
  IN IF ~ContainsPII(r) THEN "whole"
     ELSE IF IsFullBodyPII(r.failClosed, c.pattern, c.known) THEN "withheld"
     ELSE IF RedactForLogging(DefaultPIIRules \cup ConditionalPIIRules, c.pattern, r)
          THEN "redacted" ELSE "whole"

redactRequest(r) ==
  LET c == ClassifyKnown(r.path)
      body == RequestBodyPattern(r)
  IN IF body = NoPattern THEN "whole"
     ELSE IF RedactForLogging(DefaultRequestBodyPIIRules, body, r) THEN "redacted"
     ELSE IF IsFullBodyPII(r.failClosed, c.pattern, c.known) THEN "withheld" ELSE "whole"

----------------------------------------------------------------------------
(* TierClassifier.Classify.                                                *)

Applies(row, method) == IF method = "GET" THEN row.kind = "get" ELSE row.kind # "get"

(* Mutant: rows for POST are not skipped, so the first row wins for both.  *)
TierRowOfAny(r) ==
  IF r.method \notin {"GET", "POST"} THEN 0
  ELSE FirstMatch(defaultTierPatterns, LAMBDA row : HasPrefix(r.path, row.prefix))

TierRow(r) ==
  IF r.method \notin {"GET", "POST"} THEN 0
  ELSE FirstMatch(defaultTierPatterns,
                  LAMBDA row : Applies(row, r.method) /\ HasPrefix(r.path, row.prefix))

Classify(r) ==
  IF ContainsPII(r) THEN "Never"
  ELSE IF TierRow(r) # 0 THEN defaultTierPatterns[TierRow(r)].tier
  ELSE IF r.method = "GET" THEN "Short" ELSE "Never"

----------------------------------------------------------------------------
(* A request comes in, and is classified by each handler.                  *)

VARIABLES incoming, verdict

classVars == <<incoming, verdict>>

Patterns == {endpointPatterns[i].pattern : i \in DOMAIN endpointPatterns}
Restricted == {piiRules[i].row.pattern : i \in DOMAIN piiRules}

TableKeys ==
  Patterns \cup DefaultPIIRules \cup ConditionalPIIRules \cup DefaultFullBodyPIIEndpoints
    \cup DefaultBucketParams \cup {k[2] : k \in MethodBucketOverrides \cup AppBucketParams}

Fill(pattern, value) == [i \in DOMAIN pattern |-> IF pattern[i] = P THEN value ELSE pattern[i]]

Undecided == [done |-> FALSE]

ClassInit ==
  /\ \E shape \in TableKeys \cup Restricted \cup DefaultRequestBodyPIIRules,
        value \in ParamValues, method \in Methods, selects \in QuerySelects,
        failClosed \in BOOLEAN, matches \in BOOLEAN, slash \in {<<>>, <<"">>} :
       incoming = [path |-> Fill(shape, value) \o slash, method |-> method,
                   selects |-> selects, failClosed |-> failClosed, matches |-> matches]
  /\ verdict = Undecided

Decide ==
  /\ verdict = Undecided
  /\ LET c == ClassifyKnown(incoming.path)
     IN verdict' =
          [done |-> TRUE, pattern |-> c.pattern, known |-> c.known,
           limited |-> LookupDefaults(incoming.method, c.pattern),
           appLimited |-> <<incoming.method, c.pattern>> \in AppBucketParams,
           restricted |-> MatchPIIOperation(incoming.method, incoming.path),
           tier |-> Classify(incoming), tierRow |-> TierRow(incoming),
           body |-> RequestBodyPattern(incoming),
           response |-> redactResponse(incoming), request |-> redactRequest(incoming)]
  /\ UNCHANGED incoming

ClassSpec == ClassInit /\ [][Decide]_classVars

----------------------------------------------------------------------------

Parameters(pattern) == Cardinality({i \in DOMAIN pattern : pattern[i] = P})

(* The path is an instance of the key, segment by segment.                 *)
Fits(key, path) ==
  Len(key) = Len(path) /\ \A i \in DOMAIN key : key[i] \in {P, path[i]}

(* Every key of the tables of patterns, of rules for responses and of      *)
(* rates is found by the requests it is meant for: a path is classified as *)
(* the key that fits it with the fewest parameters, so no pattern hides a  *)
(* later one (classify.go:9-10), and a method's or an application's limit  *)
(* comes with a bucket of its own (defaults.go:308-317).                   *)
MostSpecificKey ==
  verdict.done =>
    LET keys == {k \in TableKeys : Fits(k, Trim(incoming.path))}
    IN /\ keys # {} => /\ verdict.pattern \in keys
                       /\ \A k \in keys : Parameters(verdict.pattern) <= Parameters(k)
       /\ verdict.appLimited => verdict.limited

(* The two matchers, kept in different packages, agree: a restricted       *)
(* operation of a known endpoint is minted for the pattern that limits,    *)
(* redaction and logs use (matcher.go:96-127, classify.go:205-221).        *)
MatchersAgree ==
  verdict.done /\ verdict.known /\ verdict.restricted # NoPattern =>
    verdict.restricted = verdict.pattern

(* First match is longest match: no tier row is hidden by a broader one    *)
(* above it that applies to the method (tiers.go:46-48, 179-212).          *)
LongestPrefixWins ==
  verdict.done /\ verdict.tierRow # 0 =>
    \A i \in DOMAIN defaultTierPatterns :
      Applies(defaultTierPatterns[i], incoming.method)
        /\ HasPrefix(incoming.path, defaultTierPatterns[i].prefix)
      => Len(defaultTierPatterns[i].prefix) <= Len(defaultTierPatterns[verdict.tierRow].prefix)

(* What is concluded from a request while it is served agrees with what    *)
(* the logger's worker looks up.  The response to a GET of an endpoint     *)
(* with rules, or of an unknown one in fail-closed mode, is not cached,    *)
(* and whole in the log only where rules for fields apply and none matches *)
(* the body.  The same holds of a request body; a query that selects       *)
(* personal data where no rules are marks a response that stays whole.     *)
(* Nothing is said of responses to other methods: ContainsPII leaves them  *)
(* out, rules or not (registry.go:520-535, 609-684; engine.go:28-126;      *)
(* tiers.go:196-198; logger.go:149-193).                                   *)
RuledNeverKeptWhole ==
  verdict.done =>
    /\ incoming.method = "GET"
         /\ \/ verdict.pattern \in DefaultFullBodyPIIEndpoints \cup DefaultPIIRules
            \/ verdict.pattern \in ConditionalPIIRules /\ incoming.selects
            \/ incoming.failClosed /\ ~verdict.known
       => /\ verdict.tier = "Never"
          /\ verdict.response = "whole" =>
               /\ HasLogRules(verdict.pattern) /\ ~incoming.matches
               /\ verdict.pattern \notin DefaultFullBodyPIIEndpoints
    /\ ContainsPII(incoming) /\ verdict.response = "whole" =>
         incoming.selects \/ ~incoming.matches
    /\ verdict.body # NoPattern /\ verdict.request = "whole" =>
         verdict.body \in DefaultRequestBodyPIIRules /\ ~incoming.matches

(* Every rule for request bodies is found by the POST it is written for,   *)
(* with or without a trailing slash, and so are the messaging actions,     *)
(* which share a pattern, but these only without one: the path of an       *)
(* action is not trimmed as others are, and with a slash at the end it is  *)
(* a message without rules (registry.go:565-605; classify.go:205-209).     *)
BodyRulesFound ==
  verdict.done /\ incoming.method = "POST" =>
    \A k \in DefaultRequestBodyPIIRules :
      Fits(k, Trim(incoming.path)) =>
        verdict.body = IF k[1] = "messaging" /\ Last(incoming.path) = "" THEN NoPattern ELSE k

=============================================================================
