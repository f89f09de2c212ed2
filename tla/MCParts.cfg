\* The bucket: throttle factor 2/3, a burst of two tokens; a response may
\* announce a zero rate (floored), the nominal rate or a doubled one.
CONSTANTS
  Unit = 3
  Throttle = 2
  Burst = 2
  InitRate = 1
  Rates = {0, 1, 2}
  MinRate = 1
  MaxElapsed = 6
  MaxRate = 4
  MaxSpan = 7
\* Throttle mode.
  Timeouts = {0, 1, 2, 5}
  DefaultTimeout = 3
\* Classification: path parameters that look like the literals of other rows.
  ParamValues = {"x", "preview", "inventory", "rates", "cancel", "messages"}
  Methods = {"GET", "POST", "PUT"}
  QuerySelects = {TRUE, FALSE}
\* The feed limiter.
  FeedKeys = {f1, f2}
  window = 3
  maxPerWin = 2
  MaxNow = 5
\* Tokens and replays.
  Merchants = {m1, m2}
  AccessTokens = {t1, t2}
  Replays = {p1, p2}
  TokenTTL = 2
\* Scheduler and purge jobs.
  Interval <- MCInterval
  KeepFor <- MCKeepFor
  MaxJobTime = 1
  MaxClock = 8
\* Environments, two variables at a time.
  Environments <- MCEnvironments
\* Start, requests, shutdown.
  Requests = {r1, r2}
  Releases = {{1}, {1, 3}}
  Buffer = 1
  BatchSize = 2
  MaxStarts = 2
  NoServer = NoServer
\* The cache: a limit of three bytes, two entries fit or three, and one exceeds it.
  Keys = {k1, k2, k3}
  Values = {v}
  Sizes = {1, 2, 4}
  TTLs = {0, 1}
  MaxBytes = 3
SPECIFICATION PartsSpec
INVARIANTS
  WindowBound
  OperatorIsCeiling
  MostSpecificKey MatchersAgree LongestPrefixWins RuledNeverKeptWhole BodyRulesFound
  WindowLimit
  LiveUnlessOverlapped RefusalExplained
  PurgedInTime
  AcceptedIsUsable
  SchemaIntact OrderlyTeardown NothingOwedAtExit
  CacheConsistent LeastRecentlyUsedFirst NoHitPastTTL
PROPERTY StopCompletes
\* The process may end for good, and the decisions are taken once.
CHECK_DEADLOCK FALSE
