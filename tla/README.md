# Formal verification of Smart Proxy

TLA+ models of Smart Proxy, a reverse proxy in Go for Amazon's Selling Partner
API, with TLC runs on small instances and TLAPS proofs for all values of the
constants. Source paths below are relative to the repository
(`internal/ratelimit/queue.go` and so on).

## The system and its parts

A request passes through a chain of handlers built in `cmd/smart-proxy/main.go`:
metrics, merchant resolution, logging, restricted data tokens (RDT), response
cache, rate limit, reverse proxy. The response comes back through the same
chain; the reverse proxy reports the rate Amazon announces to the limiter.
Every request is a goroutine of its own, so each shared structure (bucket,
queue, registry, cache, token cache, log channel) is used concurrently.
Background goroutines are one dispatcher per queue, the limiter's collector, the
cache's eviction loop, the logger's worker, the body rotator and the scheduler
of purge jobs.

| Part | Source | Module |
|---|---|---|
| Token bucket | `ratelimit/bucket.go` | `TokenBucket`, `TokenBucketWindow` |
| Request queue and dispatcher | `ratelimit/queue.go` | `RequestQueue`, contract `Admission` |
| Registry of buckets, collector | `ratelimit/limiter.go` | `Limiter` |
| Rate-limit handler | `ratelimit/middleware.go` | `Limiter`, `ThrottleMode` |
| Response cache | `cache/memory.go` | `MemoryCache` |
| Cache handler, invalidation, batches | `cache/middleware.go`, `invalidation.go`, `batch.go`, `postcache.go` | `CacheCoherence` |
| RDT handler, token cache, minting, reports | `rdt/` | `RdtTokens` |
| Log flush, body files, rotator, reader | `logging/logger.go`, `bodies/`, `blob/local.go`, `storage/sqlite.go` | `BodyStore` |
| Startup, migrations, shutdown, log channel | `main.go`, `server/`, `storage/migrate.go`, `logging/logger.go` | `Lifecycle` |
| Endpoint classes, rates, tiers, personal data | `endpoint/`, `ratelimit/defaults.go`, `cache/tiers.go`, `rdt/matcher.go`, `pii/registry.go` | `EndpointTables`, `Classification` |
| Token store, replay | `tokenstore/`, `dashboard/replay.go` | `ReplayTokens` |
| Scheduler, purge | `scheduler/`, `purge/` | `Retention` |
| Configuration | `config/` | `Configuration` |
| Feed limiter | `ratelimit/feedlimit.go` | `FeedLimiter` |
| Merchant resolver, reverse proxy, rewriting of documents, dashboard views, metrics | | not modelled |

`PROJECT.json` lists every part with its sources, every hazard at its line, and
the source lines of every definition.

## Modules

### TokenBucket

One bucket. The code counts `float64` tokens against wall-clock time; the model
counts integer credits (`Unit` credits are a token) against ticks, so the throttle
factor is the fraction `Throttle / Unit`. `elapsed` is the time since
`lastRefill`, saturating at `MaxElapsed`; the assumption `SaturationIsFull` says
that by then the bucket is full, so saturation is invisible. `TryConsume`,
`UpdateRate` and `Tokens` are the methods; `Refilled` is `refill`, and `WaitTime`
the wait reported with a refusal, truncated as `time.Duration` truncates.

`TokenBucketWindow` adds a history: a window that may be opened in any state,
counting ticks and granted tokens.

### RequestQueue and Admission

The queue in front of a bucket and the requests going through it. `pc[r]` follows
a request from the handler's own `TryConsume` through `Enqueue` (push, signal,
select) to its outcome; `dpc` follows the dispatcher. One action is what the code
does under one lock acquisition or in one channel operation, so the windows
between unlock and signal, between `Pop` and `close(ready)`, and between
`ctx.Done` and `remove` are all open to every other goroutine. `select` is a
choice among the cases that are ready. `container/heap` is abstracted to the
set of queued requests and its least elements. `cost` and `late` are histories.

`Admission` is the contract: each request ends admitted or refused, is admitted
only with a token taken for it, and no token is taken twice for one request.
`RequestQueue` implements it with `granted` the requests that have cost a token
and `outcome` read off `pc`.

### Limiter

The registry with its collector and the whole handler around it. A lookup, the
refresh of `lastUsed`, the creation of an entry, `LoadOrStore`, the token, the
second lookup for the queue and the wait are separate steps; so are the
collector's check, `Stop` and `Delete`. An entry's bucket is a count of whole
tokens and its queue a set of requests: the details are those of the two modules
above. `phase` tells which of the three calls of the registry a request is in:
its own bucket, the application-wide one, or the update after the response.
`paid` is a history: the tokens taken for each request, counted by key.
`Stop` is the limiter's end: it closes `done`, which ends the collector, and stops
every registered queue.  It comes when no request is under way, as in `main`,
which defers it until the servers are shut down.

### ThrottleMode

Resolution of throttle mode and timeout from the three levels of configuration
and the header, over all inputs.

### MemoryCache and CacheCoherence

`MemoryCache` is the store: the list in order of use, the key index and the byte
count, kept apart as in the code, and one action per method, since each holds the
lock throughout. The loop of `evictLRULocked` is the longest front part of the
list that fits. An entry counts the ticks to its expiry. `recency` and an entry's
`age` are histories.

`CacheCoherence` puts concurrent requests on top. A read has a sequence of keys:
one for a GET or a body-hashed POST, one per element for a batch, `None` for an
element without a key. It looks them
up one lock at a time, forwards the whole request on any miss, answers, and
stores the successful elements one at a time. A write deletes the keys under its
resource prefix, then the batch elements of its SKU (PUT and PATCH), and is then
forwarded. Amazon is the function `version`; what a write changes there
(`Changed`) is an assumption: the resource, its collection and, for a PUT or
PATCH of a listing, the offers of its SKU. A DELETE of a listing leaves its batch
elements in the cache until their TTL, in the code as in `docs/CACHING.md`, so
`Changed` does not count them. A path is a sequence of segments; that
`strings.HasPrefix` also matches a seller whose ID begins alike is kept with
`Begins`. A batch path that `batch.go` does not list falls through to the single key
of a GET, made without the body (`middleware.go:51-71`): in the model a read of one
key. That two bodies would share that key is not modelled; the four pricing batches
are listed. Changes made at Amazon by others are not modelled either: only the TTL
bounds how long they go unseen.

### RdtTokens

The handler that replaces a client's token by a minted one. A request looks in the
cache (a read lock; an expired entry is deleted under a second lock, later), joins
or leads a flight of `singleflight`, and as leader looks again, mints, stores and
lands; then everyone who waited goes on with the result, or with the client's own
token if the mint failed. A 401 or 403 invalidates the key. A *lane* is a region
and a client's token: identical mints are joined within a lane, while the cache is
shared by all lanes of a merchant. `create`, `poll` and `download` are the three
requests from which the tracker of reports learns and by which it is asked: the type
comes from the request that creates a report, its ID from the answer, its document
from a later answer. Entries of the tracker expire and are never removed. `issued`,
`rejected` (tokens invalidated after a 401 or 403), `displaced` (live tokens that left
the cache otherwise) and `created` (the types of the reports there are) are histories.

### BodyStore

Logger, rotator and a reader of the dashboard, with no lock in common. A file is
the sequence of its bodies, a reference a file and an offset. The logger appends
the bodies of a batch one at a time and then inserts the rows; the rotator goes
through its four phases file by file, copy and delete apart; the reader reads a row
and then probes the tiers. Every step that returns an error in the code may fail
(`Faults`), and the process may crash and restart anywhere; what is on disk and in
the database stays. `gone` (files of which retention has deleted a copy) and
`spoilt` (entries written late or behind a torn line) are histories.

### Lifecycle

One process after another on one database. `main` takes its startup steps in order
and defers calls; the store's step applies pending migrations, each in a
transaction of its own; the servers listen, accept and log until a signal; then
they are shut down one by one under a common timeout, and the deferred calls run
in reverse. `os.Exit` skips them, and a crash is possible everywhere. Each start
is of a binary of some release, also an older one. The logger's worker receives,
batches and flushes beside all this.

### EndpointTables and Classification

The tables of five packages in full, with paths as sequences of segments, and the
lookups over them as the code does them: first match by prefix, number of segments
and suffix, exact match on a classified pattern, or longest prefix. `Decide` is
what the handlers together decide of one request: bucket, token, cache tier, and
what the log keeps of both bodies. Of rates and field lists only their presence is
kept, and of a body whether a rule of its endpoint matches a field in it; where none
does, `RedactForLogging` returns the body as it is.

### ReplayTokens, Retention, Configuration, FeedLimiter

`ReplayTokens`: the store of last seen tokens, whose `Get` finds an expired token
under one lock and deletes under another, and replays that ask it and, if refused,
ask for the reason. `Retention`: the scheduler's loop with its ticker of capacity
one, jobs that take time or fail, cancellation and restarts; one row of each table
is followed. `Configuration`: `loadConfig`, `Validate` and then the constructors of
`main` that may refuse what they are given, over values told apart as the code does:
durations and numbers are unset, unparsable, negative, zero or positive.
`FeedLimiter`: the sliding window; in the repository only its tests call it.

## Runs

| Run | Question | Result |
|---|---|---|
| `parts` | The parts that share no state with each other, one per behaviour; see below | All hold |
| `queue_safety` | Can a request, a wakeup or a token be lost, or priority ignored? | No |
| `queue_liveness` | Does queue plus fast path implement `Admission`, also when the queue is full; does every request return, and does `Stop` end the dispatcher? | Yes |
| `limiter_registry` | Can racing creations and the collector leak a dispatcher or leave a request unanswered? | No |
| `limiter_app_limit` | With three keys and the application-wide limit: is everything forwarded paid for exactly once per limit, from the right bucket, and does `Limiter.Stop` leave nothing running? | Yes |
| `cache_coherence` | Does a write leave anything stale behind? | Only where a read of the key overlapped it |
| `rdt` | Can a request get a token of another merchant or resource, a rejected token return, a report be taken for one of another type, or a mint be repeated? | No; a mint is repeated only when the token before it has expired, was rejected, or was displaced from the cache |
| `bodies` | Can a body be lost or a reader be misled before retention deletes the file? | Only by a write after its hour and behind a torn line |
| `cache_read_your_writes` | Does the next GET after an answered write see it? | Violated |
| `bodies_dangling` | Does clearing references leave none to a deleted file? | Violated |
| `throttle_order` | Is the mode that of the first level set: header, merchant, endpoint, default? | Violated |
| `rdt_one_mint` | Do concurrent requests of one client for one operation share one mint? | Violated |

`parts` is the sum of nine independent models; `MCParts` chooses one at the start
and leaves the others at rest.

| Part | Properties |
|---|---|
| Bucket | `WindowBound`: no window of time gets more than capacity plus the largest rate's earnings |
| Throttle mode | `OperatorIsCeiling` |
| Classification | `MostSpecificKey`, `MatchersAgree`, `LongestPrefixWins`: the tables of the packages fit each other and their order hides no row; `RuledNeverKeptWhole`: the response to a GET with redaction rules, and a request body with rules, is logged whole only if no rule matches a field; `BodyRulesFound`: each rule for request bodies is found by the POST it is for, except a messaging action with a trailing slash |
| Feed limiter | `WindowLimit` |
| Tokens and replays | `LiveUnlessOverlapped`: a live token is lost only to one overlap of two lock sections; `RefusalExplained` |
| Scheduler and purge | `PurgedInTime`: an old row goes within its interval and four passes |
| Configuration | `AcceptedIsUsable`: a process that runs has been given positive durations only, and what `Validate` accepts the constructors refuse only with bodies disabled and a backend other than `local` |
| Process | `SchemaIntact`, `OrderlyTeardown`, `NothingOwedAtExit`, `StopCompletes` |
| Cache store | `CacheConsistent`, `LeastRecentlyUsedFirst`, `NoHitPastTTL`; a single entry larger than the limit is stored alone until the next sweep |

The violated properties state what a comment or a document says:

- `DocumentedOrder`: the endpoint's mode is applied after the merchant's and wins;
  and an override to `queue` equals the initial value, so the default replaces it.
- `ReadYourWrites`: a GET forwarded before a write is applied, and stored after
  the write's invalidation, keeps the old response in the cache until its TTL.
- `NoDanglingRefs`: the logger writes bodies before it inserts the rows; a row
  inserted after its file was evicted and the references cleared keeps its own. The
  run has no faults and no crash.
- `ConcurrentRequestsShare`: an expired token is found under one lock and deleted
  under another; the deletion, delayed, removes the token a concurrent request has
  just minted and goes on with, and a second mint follows (`docs/RDT.md:232`
  promises one).

Other places where the code does less than its documents or comments say are part
of the passing properties, which state what the code does:

- `docs/DPP_COMPLIANCE.md:71-72` lists the responses of `/shipping/v2/shipments` and
  `/mfn/v0/shipments` among those redacted. `ContainsPII` is false for every method
  but GET (`registry.go:653`), so the response to a POST there is logged whole.
  `RuledNeverKeptWhole` is about GETs.
- `classifyMessagingPOST` does not trim its path, as `Classify` does: an action with a
  trailing slash finds no rules. `BodyRulesFound` states the exception.
- With `SP_PROXY_BODIES_ENABLED=false` `Validate` does not look at the backend, and
  `main` makes it all the same: an unknown one, or S3 without a bucket, ends the
  process at its start. `AcceptedIsUsable` states the exception.
- The separation of mints by client token, which the comment at
  `rdt/middleware.go:143` explains, covers mints under way. A token once cached
  is handed to every lane of the merchant, since the cache's key knows no lanes.
  `OwnToken` states exactly this: a token of another lane comes from the cache only.
- A document of an unknown report is not "tracked without a reportType"
  (`reports.go:87`), it is not tracked at all.

### Bounds, and why they are enough

- Bucket: a burst of two tokens, a throttle factor of 2/3 and three announced
  rates, one of them zero and so floored. Fractions, truncation of the wait, saturation and
  changes of rate in mid-refill all occur. The theorems remove these bounds.
- Queue: three requests, so that one takes the token, one is in the
  dispatcher's hands and one arrives or gives up, or two wait with different
  priorities. `queue_liveness` has two requests, no symmetry, a depth of one and a
  bucket that is empty at first: one request fills the queue and the other is
  refused, waits in its place or takes the fast path. The theorems remove these
  bounds, except for liveness.
- Limiter: two requests and four entries, as many as they can create (one for
  the request and one for the response's update each, or one per limit), so that
  the bound never blocks a request: a key is created twice in a race,
  collected, and created again. `limiter_app_limit` has a key under the
  application-wide limit, one under its own only, and one without default rates.
- Cache store: three keys, a limit of three bytes (the threshold of the sweep is two),
  sizes one, two and four: two entries fit or three, replacement frees more or
  less than is needed, and four exceeds the limit.
- Cache coherence: three requests, so that a read and a write overlap and a third
  request meets the result; a batch of two so that another request comes between
  its elements. The memory limit is off here; eviction only removes entries.
- RDT: three requests, so that a leader, a waiter and a late comer meet; two
  merchants, two lanes, reports of a restricted and of another type, lifetimes below
  and above the safety margin. The theorems remove these bounds.
  `rdt_one_mint` has one client only.
- Bodies: two entries, in one batch or two, over three hours: one file is
  promoted, compressed and purged while another is written.
- Process: two requests and one log slot, so that the channel fills; three
  servers as in the code, two starts, of releases with and without the second of
  two migrations.
- Classification: every row of every table, with parameters that look like the
  literals of other rows, trailing slashes and unknown paths.
- Retention: intervals of one and two ticks and passes of up to one tick, so that
  a tick is dropped, and a clock long enough for two runs of the slower job.
- Configuration: any two variables set at a time, over two usual environments.
  No check reads more than two beyond those.

### Fairness

Weak fairness of each goroutine's own steps (the Go scheduler runs every runnable
goroutine, and a `select` with a ready case proceeds), and of the passing of time
on which timers and refills rest (`Tick` in `RequestQueue`, `Refill` in `Limiter`).
`StopCompletes` rests on `LifeFairness`: the steps of `main`, those of the logger's
worker, and the timeout that ends a drain. A request that a handler never finishes
is allowed there: that is what the timeout is for. The client's disconnect, the
response of a rate, the signal, `Stop` and the collector's decision to run are never
assumed to happen. With finitely many requests nothing can be overtaken for ever
on the fast path; the code gives no such guarantee for endless arrivals and none is
claimed.

## Proofs

Proved with TLAPS for every value of the constants. Each module has one lemma per
action; none of the properties below is inductive as it stands, except where noted.

- `RateLimitProofs`, the bucket: it stays between empty
  and full, and `WindowBound`. The bound says nothing of tokens left or of time
  not yet credited. `WindowBudget` adds both (tokens spent in the window, plus
  tokens held, plus what the uncredited time may still earn, never exceed the
  budget), is preserved by each step and implies the bound.
- `RateLimitProofs`, the queue: type correctness, `Accounting`, `OneTokenEach`,
  `NoLostWakeup`, `DepthBounded`, `PriorityRespected`, and the refinement
  `ImplementsAdmission`. `Accounting` is the inductive invariant: it says for each
  request where it is (heap, dispatcher's hands, released, or outside), what it
  has cost there, and what the dispatcher's program counter implies.
  `OneTokenEach` and the refinement follow from it. The other three are inductive
  themselves, given types and `Accounting`.
- `LimiterProofs`: `NoLeakedDispatcher`, `NoneRunAfterStop` and `KeysKeptApart` from
  `RegInv`, `PaidInFull` and `AnswersFit` from `RegInv` and `PayInv`. The module begins
  with the lemmas about the steps that leave the registry alone. `RegInv` adds to the
  three what makes them last: an entry being stored is held by its maker alone and
  registered nowhere (`Storing`), only the collector removes a key, and only after
  stopping its queue (`Collecting`), every request has what it is about to use
  (`Placed`), and whatever is registered, held or waited on exists (`Used`).
  `PayInv` says of each request, at each place, how many tokens it has cost of its own
  key and of the application-wide limit, in which one queue it may be, and when a refused
  request may nevertheless have cost a token. A request's standing depends on
  others only through `Onward` (entries keep their key and never restart) and `Kept`,
  so that each action is examined for the request that moves.
- `RateLimitProofs`, the feed limiter: `WindowLimit`. The limiter forgets what it prunes, so the
  invariant `NothingForgotten` says that all that was submitted within the window is
  still among the entries, of which there are never more than the limit.
- `RdtTokensProofs`: `OwnToken`, `NoDuplicateMint`, `RejectedStaysOut` and
  `TrackedTypesTrue`, from `RdtInv`: tokens held or cached were minted for the key
  they are held or cached under (`Owned`), the flights are exactly those of the
  requests that lead one, one to a key and lane (`Led`), a token not yet stored is
  known to its request alone (`Private`), every token that may be shared is cached,
  about to be, or gone (`Stored`), and a leader that has found none can find only an
  expired one or another lane's (`Missed`). The last two make `NoDuplicateMint`
  follow: a token of the same lane that is not gone would be where the leader has
  looked. What `Place` says of a request's report, and that a report is created once,
  carries `TrackedTypesTrue`.
- `LifecycleProofs`: `SchemaIntact`, `OrderlyTeardown` and `NothingOwedAtExit`, from
  `LifeInv`. Its parts: which steps of `main` are behind it at each place (`Phase`)
  and what is deferred there (`Stack`), so that the deferred calls undo exactly what
  was done; that a request being handled keeps its server open (`Handled`) and the
  shutdown goes server by server (`Closing`); that what is owed to the log is in a
  handler, the channel or the worker's batch while the worker runs (`Owing`); that
  the versions recorded are exactly the migrations applied, in order (`Recorded`),
  and the teardown was orderly so far (`Ordered`).
- `BodyStoreProofs`: `KeptUntilRetention`, `MissingMeansGone` and `ClearedOnlyIfDeleted`,
  from `BodyInv`, with every fault and a crash at any step. A reference promises that its
  file is somewhere and that each copy of it holds the entry at its offset, unless
  retention has taken a copy or the entry is spoilt (`Safe`); rows (`RowsSafe`) and the
  references of a batch not yet inserted (`Flushing`) keep that promise. It rests on
  the writer's offset being the end of its file while the hour lasts (`Writer`), on no
  file leaving `current/` before its hour is over (`InTime`), on the rotator having made
  the next copy before it removes one (`Rotating`), and on the file a reader looks for
  being past what the reader has passed (`Reading`). Logger, rotator and reader meet
  only in `Advance`: no step takes a file back a tier or changes what a copy holds.
- `CacheProofs` (and, for what counts entries, the end of `CoherenceProofs`):
  `CacheConsistent`, `LeastRecentlyUsedFirst` and `NoHitPastTTL`, from `CacheInv`: no key
  is twice in the list, map and byte count are those of the list (`Proper`), the limit
  holds with its one exception (`Fits`), the list begins the history of uses
  (`BeginsUses`), and an entry's age and the time it has left add up to at most its time
  to live (`Held`). What the recursions `Picks` and `Sums` compute is shown by the smallest
  number at which they would not (`Upwards`): removing places from a list keeps the
  order of the rest, and the bytes of what is removed and of what stays add up.
- `CoherenceProofs`: `FreshUnlessRaced`, from `CoherenceInv`. The property alone does not
  say why a write may make nothing else stale, so the invariant adds: from its
  deletion until the write is answered, a key the write will change is cached or
  being read again only if it counts as raced (`Deleted`, `Covered`); a response on its
  way into the cache that a write has overtaken belongs to a raced key (`StaleRaced`);
  and what a goroutine still has to do fits what it has found (`Shape`). That the
  prefixes deleted are enough for what a write changes is `ChangedDeleted`, the place
  where `ExtractResourcePrefix` matters.
- `PartsProofs`, on four small parts. `PurgedInTime`, from `RetentionInv`: at each
  place of the loop, how long ago the pending tick fired, how long the pass has
  been running, and so how old the oldest row that has not been purged may be.
  `LiveUnlessOverlapped` and `RefusalExplained`, from `TokensInv`: whoever is about to
  delete has seen the merchant's token expire, and a refused replay has a cause that
  lasts until the explanation is read. `OperatorIsCeiling` and `AcceptedIsUsable`:
  their inputs are chosen at the start, so the arguments are about the operators:
  which default applies, what a parsed value may be, what `Validate` leaves, and what
  the constructors may still refuse of it.

The assumptions are the named `ASSUME`s of the modules proved about: numeric
constants are naturals, the set of requests is finite (`RequestQueue`), no rate is
below the smallest effective one and elapsed time saturates only when the bucket is
full (`TokenBucket`), keys with an application-wide limit have default rates and the
key of that limit is no merchant's (`Limiter`), the bound on a pass is at least
one tick (`Retention`), releases are sets of positive versions
(`Lifecycle`), entries are positive numbers and batches are not empty (`BodyStore`), an
environment's values are of the variable's kind (`Configuration`), a response has at
least one byte (`MemoryCache`), a report is created with a type (`RdtTokens`), a read has at least one element and a write's path is
a sequence of strings (`CacheCoherence`), and `None` is none of the values it stands
beside.

Only proved, not run: type correctness, `WindowBudget` and `DepthBounded`. Only
model-checked: liveness, which is outside the prover's reach, and the properties of
`Classification`. Those are facts about the rows of fixed tables, not about constants:
TLC goes through every row, and a proof would have to evaluate the same tables, which
the provers are slow at and which would show nothing more.

## Not modelled

- Merchant resolution, the reverse proxy's rewriting of headers and the metrics:
  functions of one request, or counters that nothing reads back. The models take
  the merchant as input; the reverse proxy's call of `UpdateFromResponse` is part of
  `Limiter`.
- Redaction along document paths, decoding of reports and batch bodies: recursion
  over JSON. Which rule applies is modelled (`Classification`), not the rewriting.
- Cache keys made from query strings and bodies, and TTLs chosen by headers: a key
  is its merchant, kind and path, a TTL an input.
- Filters and pages of the dashboard's queries: SQL. Its views only read.
- The warnings of `Configuration`, which refuse nothing.
- S3 as a body store: taken to have the local store's atomic `Put` and `Delete`.
- Rounding of `float64` in the bucket.
- `RequestQueue.Stop` tests `done` and closes it in two steps (`queue.go:166`); the
  models stop a queue in one. Two concurrent calls for one queue are therefore
  outside the models.
