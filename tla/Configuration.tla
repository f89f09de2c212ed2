--------------------------- MODULE Configuration ---------------------------
(***************************************************************************)
(* From the environment to the values the parts are started with           *)
(* (internal/config/config.go, cmd/smart-proxy/main.go).  A value is       *)
(* modelled by what the code tells apart: unset, unparsable for its type,  *)
(* or one of a few meanings.                                               *)
(***************************************************************************)
EXTENDS Naturals

CONSTANT Environments  \* the environments the process may be started in

NotSet == "not set"
Bad == "unparsable"

Durations == {"BUCKET_TTL", "CACHE_DEFAULT_TTL", "BODIES_RECENT_MAX_AGE",
              "BODIES_ARCHIVE_MAX_AGE", "PURGE_METADATA_RETENTION", "PURGE_AUDIT_RETENTION"}
Numbers == {"PORT_EU", "PORT_NA", "PORT_FE", "PORT_DASHBOARD", "QUEUE_MAX_DEPTH",
            "THROTTLE_FACTOR", "CACHE_MAX_MEMORY", "BODIES_MAX_CAPTURE_SIZE", "BODIES_MAX_BYTES"}
Booleans == {"CACHE_ENABLED", "BODIES_ENABLED"}
Strings == [STORAGE_BACKEND |-> {"sqlite", "other"},
            SQLITE_PATH |-> {"exists", "missing", ":memory:"},
            BODIES_PATH |-> {"exists", "missing", "."},
            BODIES_BACKEND |-> {"local", "s3", "other"},
            BODIES_COMPRESSION |-> {"zstd", "gzip", "none", "other"},
            S3_BUCKET |-> {"named"},
            S3_SSE |-> {"AES256", "aws:kms", "aws:kms:dsse", "other"},
            S3_ENDPOINT |-> {"http", "https"},
            ENV |-> {"production", "development"}]

Settings == Durations \cup Numbers \cup Booleans \cup DOMAIN Strings

(* A number above the largest allowed matters for the throttle factor only.*)
Raw(s) ==
  CASE s \in Durations -> {Bad, "negative", "zero", "positive"}
    [] s \in Numbers -> {Bad, "negative", "zero", "positive", "above one"}
    [] s \in Booleans -> {Bad, "true", "false"}
    [] OTHER -> Strings[s]

Default ==
  [s \in Settings |->
     CASE s \in Durations \cup Numbers -> "positive"
       [] s \in Booleans -> "true"
       [] OTHER -> [STORAGE_BACKEND |-> "sqlite", SQLITE_PATH |-> "exists",
                    BODIES_PATH |-> "exists", BODIES_BACKEND |-> "local",
                    BODIES_COMPRESSION |-> "zstd", S3_BUCKET |-> "", S3_SSE |-> "",
                    S3_ENDPOINT |-> "", ENV |-> "development"][s]]

(* Every variable is unset, or has a value of its kind.                    *)
ASSUME ConfigConstants ==
  \A e \in Environments : /\ DOMAIN e = Settings
                           /\ \A s \in Settings : e[s] \in Raw(s) \cup {NotSet}

VARIABLES environment, stage, cfg

configVars == <<environment, stage, cfg>>

ConfigInit ==
  /\ environment \in Environments
  /\ stage = "load"
  /\ cfg = Default

(* envInt and its like: what cannot be parsed is as good as unset.  Any    *)
(* string is a string, and durations are kept as strings.                  *)
env(s) ==
  IF environment[s] = NotSet \/ (s \in Numbers \cup Booleans /\ environment[s] = Bad)
  THEN Default[s] ELSE environment[s]

loadConfig ==
  /\ stage = "load"
  /\ cfg' = [s \in Settings |-> env(s)]
  /\ stage' = "validate"
  /\ UNCHANGED environment

Positive(s) == cfg[s] \in {"positive", "above one"}
On(s) == cfg[s] = "true"

validateServer ==
  /\ \E port \in {"PORT_EU", "PORT_NA", "PORT_FE"} : Positive(port)
  /\ Positive("PORT_DASHBOARD")

validateRateLimit ==
  /\ cfg["THROTTLE_FACTOR"] = "positive"
  /\ Positive("QUEUE_MAX_DEPTH")
  /\ Positive("BUCKET_TTL")

validateCache == On("CACHE_ENABLED") => Positive("CACHE_MAX_MEMORY") /\ Positive("CACHE_DEFAULT_TTL")

validateBodiesBackend ==
  \/ cfg["BODIES_BACKEND"] = "local"
  \/ /\ cfg["BODIES_BACKEND"] = "s3"
     /\ cfg["S3_BUCKET"] # ""
     /\ cfg["S3_SSE"] # "other"
     /\ ~(cfg["ENV"] = "production" /\ cfg["S3_ENDPOINT"] = "http")

validateBodies ==
  On("BODIES_ENABLED") =>
    /\ Positive("BODIES_RECENT_MAX_AGE") /\ Positive("BODIES_ARCHIVE_MAX_AGE")
    /\ cfg["BODIES_COMPRESSION"] # "other"
    /\ Positive("BODIES_MAX_CAPTURE_SIZE")
    /\ cfg["BODIES_MAX_BYTES"] # "negative"
    /\ validateBodiesBackend

(* Mutant: only the first of the two retentions is looked at.              *)
validatePurgeFirst == Positive("PURGE_METADATA_RETENTION")

validatePurge == Positive("PURGE_METADATA_RETENTION") /\ Positive("PURGE_AUDIT_RETENTION")

validatePaths ==
  /\ cfg["SQLITE_PATH"] # "missing"
  /\ On("BODIES_ENABLED") => cfg["BODIES_PATH"] # "missing"

Validate ==
  /\ stage = "validate"
  /\ stage' = IF /\ validateServer /\ validateRateLimit /\ validateCache
                 /\ cfg["STORAGE_BACKEND"] = "sqlite"
                 /\ validateBodies /\ validatePurge /\ validatePaths
              THEN "valid" ELSE "refused"
  /\ UNCHANGED <<environment, cfg>>

(* time.ParseDuration with its error ignored: what it cannot parse is zero.*)
parsed(s) == IF cfg[s] = Bad THEN "zero" ELSE cfg[s]

(* NewLocal creates the directory it is given; NewS3 wants a bucket and an *)
(* encryption it knows.                                                    *)
newBodyBackend ==
  \/ cfg["BODIES_BACKEND"] = "local"
  \/ /\ cfg["BODIES_BACKEND"] = "s3"
     /\ cfg["S3_BUCKET"] # ""
     /\ cfg["S3_SSE"] # "other"

NewCodec == cfg["BODIES_COMPRESSION"] \in {"zstd", "gzip", "none"}

(* main goes on to the constructors that may refuse what they are given    *)
(* and end the process: the body backend, made whether or not bodies are   *)
(* enabled, and the rotator's codec.                                       *)
Construct ==
  /\ stage = "valid"
  /\ stage' = IF newBodyBackend /\ (On("BODIES_ENABLED") => NewCodec)
              THEN "running" ELSE "exited"
  /\ UNCHANGED <<environment, cfg>>

ConfigNext == loadConfig \/ Validate \/ Construct

ConfigSpec == ConfigInit /\ [][ConfigNext]_configVars

----------------------------------------------------------------------------

(* The durations main hands to the limiter's collector and the purge jobs, *)
(* and to the rotator when bodies are enabled.                             *)
Handed ==
  {"BUCKET_TTL", "PURGE_METADATA_RETENTION", "PURGE_AUDIT_RETENTION"}
    \cup (IF On("BODIES_ENABLED") THEN {"BODIES_RECENT_MAX_AGE", "BODIES_ARCHIVE_MAX_AGE"} ELSE {})

(* A process that runs purges nothing that is not old: main.go ignores the *)
(* errors of the durations it parses (61, 134, 135, 215, 216), and one     *)
(* that is unparsable, zero or negative would empty a table or a tier.     *)
(* And what Validate has accepted the constructors refuse in one case      *)
(* only: with bodies disabled validateBodies looks at nothing              *)
(* (config.go:404), yet main.go:86 makes the backend, and exits on one it  *)
(* does not know, a bucket without name or an unknown encryption.          *)
AcceptedIsUsable ==
  /\ stage = "running" => \A s \in Handed : parsed(s) = "positive"
  /\ stage = "exited" => ~On("BODIES_ENABLED") /\ cfg["BODIES_BACKEND"] # "local"

=============================================================================
