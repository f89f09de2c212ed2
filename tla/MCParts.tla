------------------------------ MODULE MCParts ------------------------------
(***************************************************************************)
(* The parts of the proxy that share no state with one another, for model  *)
(* checking: a behaviour is one of the part chosen at the start, the other *)
(* parts stay as they are.                                                 *)
(***************************************************************************)
EXTENDS TokenBucketWindow, ThrottleMode, Classification, FeedLimiter, ReplayTokens,
        Retention, Configuration, Lifecycle, MemoryCache

VARIABLE part

MCInterval == [j \in Jobs |-> IF j = "metadata-purge" THEN 1 ELSE 2]
MCKeepFor == [j \in Jobs |-> 1]

(* Two variables are set at a time, on top of nothing or of bodies in S3.  *)
MCEnvironments ==
  LET empty == [s \in Settings |-> NotSet]
      s3 == [empty EXCEPT !["BODIES_BACKEND"] = "s3", !["S3_BUCKET"] = "named"]
      given == UNION {{<<s, v>> : v \in Raw(s) \cup {NotSet}} : s \in Settings}
  IN {[base EXCEPT ![p[1]] = p[2], ![q[1]] = q[2]] : base \in {empty, s3}, p \in given, q \in given}

ThrottleAtRest ==
  /\ merchantMode = Unset /\ endpointMode = Unset /\ defaultMode = Unset /\ queueTimeout = 0
  /\ header = [mode |-> Unset, wait |-> 0] /\ result = NoResult

RequestAtRest ==
  /\ incoming = [path |-> <<>>, method |-> "GET", selects |-> FALSE, failClosed |-> FALSE,
                 matches |-> FALSE]
  /\ verdict = Undecided

TokensAtRest ==
  TokensInit /\ LET m == CHOOSE m \in Merchants : TRUE IN \A r \in Replays : replay[r].merchant = m

ConfigAtRest == environment = [s \in Settings |-> NotSet] /\ stage = "load" /\ cfg = Default

LifeAtRest == LifeInit /\ release = CHOOSE r \in Releases : TRUE

PartsInit ==
  /\ part \in {"bucket", "throttle", "request", "feeds", "tokens", "retention", "config", "life",
              "cache"}
  /\ WindowInit
  /\ IF part = "throttle" THEN ThrottleInit ELSE ThrottleAtRest
  /\ IF part = "request" THEN ClassInit ELSE RequestAtRest
  /\ FeedInit
  /\ IF part = "tokens" THEN TokensInit ELSE TokensAtRest
  /\ RetentionInit
  /\ IF part = "config" THEN ConfigInit ELSE ConfigAtRest
  /\ IF part = "life" THEN LifeInit ELSE LifeAtRest
  /\ NewMemoryCache

(* All but the named part.                                                 *)
Rest(p) ==
  /\ part = p /\ UNCHANGED part
  /\ IF p = "bucket" THEN TRUE ELSE UNCHANGED windowVars
  /\ IF p = "throttle" THEN TRUE ELSE UNCHANGED throttleVars
  /\ IF p = "request" THEN TRUE ELSE UNCHANGED classVars
  /\ IF p = "feeds" THEN TRUE ELSE UNCHANGED feedVars
  /\ IF p = "tokens" THEN TRUE ELSE UNCHANGED tokenVars
  /\ IF p = "retention" THEN TRUE ELSE UNCHANGED retentionVars
  /\ IF p = "config" THEN TRUE ELSE UNCHANGED configVars
  /\ IF p = "life" THEN TRUE ELSE UNCHANGED lifeVars
  /\ IF p = "cache" THEN TRUE ELSE UNCHANGED cacheVars

PartsNext ==
  \/ Rest("bucket") /\ WindowNext
  \/ Rest("throttle") /\ ThrottleNext
  \/ Rest("request") /\ Decide
  \/ Rest("feeds") /\ FeedNext
  \/ Rest("tokens") /\ TokensNext
  \/ Rest("retention") /\ RetentionNext
  \/ Rest("config") /\ ConfigNext
  \/ Rest("life") /\ LifeNext
  \/ Rest("cache") /\ CacheNext

partsVars ==
  <<part, windowVars, throttleVars, classVars, feedVars, tokenVars, retentionVars, configVars,
    lifeVars, cacheVars>>

PartsSpec ==
  /\ PartsInit /\ [][PartsNext]_partsVars
  /\ WF_lifeVars(part = "life" /\ MainStep)
  /\ WF_lifeVars(part = "life" /\ WorkerStep)
  /\ WF_lifeVars(part = "life" /\ Timeout)

=============================================================================
