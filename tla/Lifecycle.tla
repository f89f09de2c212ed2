----------------------------- MODULE Lifecycle -----------------------------
(***************************************************************************)
(* One process after another on the same database: startup with its        *)
(* migrations and its stack of deferred calls (cmd/smart-proxy/main.go,    *)
(* internal/storage/migrate.go), listening and shutdown                    *)
(* (internal/server/server.go), and the asynchronous logger between the    *)
(* requests and the store (internal/logging).  os.Exit and a crash skip    *)
(* the deferred calls; a return from main runs them last in, first out.    *)
(***************************************************************************)
EXTENDS Naturals, Sequences, Functions

CONSTANTS
  Requests,
  Releases,   \* the sets of migration versions embedded in the binaries run
  Buffer,     \* capacity of the log channel
  BatchSize,  \* defaultBatchSize
  MaxStarts,  \* bound on the processes run
  NoServer

(* The ports are opened in this order.                                     *)
Servers == <<"eu", "na", "dashboard">>

ASSUME LifecycleConstants ==
  /\ Releases \subseteq SUBSET (Nat \ {0})
  /\ Buffer \in Nat \ {0}
  /\ BatchSize \in Nat \ {0}
  /\ MaxStarts \in Nat
  /\ NoServer \notin Range(Servers)

VARIABLES
  main,      \* what main is doing
  step,      \* the startup step it has come to
  deferred,  \* its deferred calls, the latest first
  release,   \* the migrations of this binary
  pending,   \* those RunMigrations has still to apply
  tx,        \* the version in the open transaction, 0 if there is none
  listening, \* servers that accept connections
  todo,      \* servers Shutdown has still to stop
  draining,  \* the one whose requests it waits for
  timedOut,  \* the context of Shutdown has expired
  shutdownErr,
  at,        \* the server that handles each request
  sent,      \* requests that have been sent
  channel, closed, worker, batch,  \* the logger
  open,      \* the metadata store is open
  starts,
  versions, effects, rows, audited,  \* the database
  owed,      \* history: requests this process has put in the channel
  storeErr   \* history: an operation of this process failed in the open store

startVars == <<step, release, pending, tx, starts>>
serverVars == <<listening, todo, draining, timedOut, shutdownErr>>
requestVars == <<at, sent>>
loggerVars == <<channel, closed, worker, batch, owed>>
storeVars == <<open, versions, effects, rows, audited, storeErr>>
lifeVars == <<main, deferred, startVars, serverVars, requestVars, loggerVars, storeVars>>

LifeInit ==
  /\ main = "start" /\ step = 1 /\ deferred = <<>>
  /\ release \in Releases /\ pending = {} /\ tx = 0
  /\ listening = {} /\ todo = {} /\ draining = NoServer
  /\ timedOut = FALSE /\ shutdownErr = FALSE
  /\ at = [r \in Requests |-> NoServer]
  /\ channel = <<>> /\ closed = FALSE /\ worker = "none" /\ batch = <<>>
  /\ open = FALSE /\ owed = {} /\ audited = {} /\ storeErr = FALSE
  /\ sent = {} /\ starts = 1
  /\ versions = {} /\ effects = <<>> /\ rows = {}

(* os.Exit, a signal before signal.Notify, or a crash: nothing deferred    *)
(* runs, an open transaction is rolled back, and the next binary starts.   *)
Restart ==
  /\ starts < MaxStarts
  /\ starts' = starts + 1
  /\ main' = "start" /\ step' = 1 /\ deferred' = <<>>
  /\ release' \in Releases /\ pending' = {} /\ tx' = 0
  /\ listening' = {} /\ todo' = {} /\ draining' = NoServer
  /\ timedOut' = FALSE /\ shutdownErr' = FALSE
  /\ at' = [r \in Requests |-> NoServer]
  /\ channel' = <<>> /\ closed' = FALSE /\ worker' = "none" /\ batch' = <<>>
  /\ open' = FALSE /\ owed' = {} /\ audited' = {} /\ storeErr' = FALSE
  /\ UNCHANGED <<sent, versions, effects, rows>>

Exit(how) ==
  /\ main' = how
  /\ deferred' = <<>> /\ listening' = {} /\ open' = FALSE
  /\ at' = [r \in Requests |-> NoServer]

----------------------------------------------------------------------------
(* Startup.                                                                *)

StartSteps == <<"config", "limiter", "cache", "store", "bodies", "logger", "context",
                "rotator", "audit", "scheduler", "prometheus", "server">>

(* Steps that end the process when they fail.  The store's own are below.  *)
Fallible == {"config", "store", "bodies", "rotator", "server"}

(* Mutant: the logger is built, and its Close deferred, before the store's. *)
DeferOfStoreLast(s) ==
  CASE s = "limiter" -> <<"limiter.Stop">>
    [] s = "cache" -> <<"closeMemCache">>
    [] s = "bodies" -> <<"bodyStore.Close">>
    [] s = "logger" -> <<"metaStore.Close", "asyncLogger.Close">>
    [] s = "context" -> <<"cancel">>
    [] s = "scheduler" -> <<"auditShutdown">>
    [] s = "prometheus" -> <<"stopPromCollectors">>
    [] OTHER -> <<>>

DeferOf(s) ==
  CASE s = "limiter" -> <<"limiter.Stop">>
    [] s = "cache" -> <<"closeMemCache">>
    [] s = "store" -> <<"metaStore.Close">>
    [] s = "bodies" -> <<"bodyStore.Close">>
    [] s = "logger" -> <<"asyncLogger.Close">>
    [] s = "context" -> <<"cancel">>
    [] s = "scheduler" -> <<"auditShutdown">>
    [] s = "prometheus" -> <<"stopPromCollectors">>
    [] OTHER -> <<>>

Advance(s) ==
  /\ deferred' = DeferOf(s) \o deferred
  /\ step' = step + 1
  /\ main' = IF step = Len(StartSteps) THEN "listen" ELSE "start"

(* AuditLogger.Log: main ignores its error.                                *)
Audit(event) ==
  \/ open /\ audited' = audited \cup {event} /\ UNCHANGED storeErr
  \/ open /\ storeErr' = TRUE /\ UNCHANGED audited
  \/ ~open /\ UNCHANGED <<audited, storeErr>>

StartStep ==
  LET s == StartSteps[step]
  IN /\ main = "start"
     /\ s # "store"
     /\ Advance(s)
     /\ worker' = IF s = "logger" THEN "running" ELSE worker
     /\ IF s = "audit" THEN Audit("startup") ELSE UNCHANGED <<audited, storeErr>>
     /\ UNCHANGED <<release, pending, tx, starts, serverVars, requestVars, channel,
                    closed, batch, owed, open, versions, effects, rows>>

StartFails ==
  /\ \/ main = "start" /\ StartSteps[step] \in Fallible
     \/ main \in {"migrate", "listen"}
  /\ Exit("failed")
  /\ tx' = 0
  /\ UNCHANGED <<step, release, pending, starts, todo, draining, timedOut, shutdownErr,
                 sent, loggerVars, versions, effects, rows, audited, storeErr>>

(* loadMigrations, without what loadAppliedVersions says is done.          *)
OpenStore ==
  /\ main = "start" /\ StartSteps[step] = "store"
  /\ main' = "migrate"
  /\ open' = TRUE
  /\ pending' = release \ versions
  /\ UNCHANGED <<deferred, step, release, tx, starts, serverVars, requestVars, loggerVars,
                 versions, effects, rows, audited, storeErr>>

(* The lowest version comes next.  applyMigration runs the SQL and records *)
(* the version in one transaction.                                         *)
ApplySQL ==
  /\ main = "migrate" /\ tx = 0
  /\ tx' \in {v \in pending : \A w \in pending : v <= w}
  /\ UNCHANGED <<main, deferred, step, release, pending, starts, serverVars, requestVars,
                 loggerVars, storeVars>>

(* Mutant: the SQL takes effect by itself, the version is recorded later.  *)
CommitOutsideTx ==
  /\ tx # 0
  /\ \/ /\ effects = <<>> \/ effects[Len(effects)] # tx
        /\ effects' = Append(effects, tx)
        /\ UNCHANGED <<pending, tx, versions>>
     \/ /\ effects # <<>> /\ effects[Len(effects)] = tx
        /\ versions' = versions \cup {tx}
        /\ pending' = pending \ {tx}
        /\ tx' = 0
        /\ UNCHANGED effects
  /\ UNCHANGED <<main, deferred, step, release, starts, serverVars, requestVars, loggerVars,
                 open, rows, audited, storeErr>>

Commit ==
  /\ tx # 0
  /\ effects' = Append(effects, tx)
  /\ versions' = versions \cup {tx}
  /\ pending' = pending \ {tx}
  /\ tx' = 0
  /\ UNCHANGED <<main, deferred, step, release, starts, serverVars, requestVars, loggerVars,
                 open, rows, audited, storeErr>>

Migrated ==
  /\ main = "migrate" /\ tx = 0 /\ pending = {}
  /\ Advance("store")
  /\ UNCHANGED <<release, pending, tx, starts, serverVars, requestVars, loggerVars, storeVars>>

----------------------------------------------------------------------------
(* Server.Start and Server.Shutdown.                                       *)

(* Opens the next port, and waits for the signal once all are open; the    *)
(* ports opened so far already serve.                                      *)
Listen ==
  /\ main = "listen"
  /\ \E n \in DOMAIN Servers :
       /\ listening = {Servers[i] : i \in 1 .. n - 1}
       /\ listening' = listening \cup {Servers[n]}
       /\ main' = IF n = Len(Servers) THEN "serve" ELSE "listen"
  /\ UNCHANGED <<deferred, startVars, todo, draining, timedOut, shutdownErr, requestVars,
                 loggerVars, storeVars>>

Signal ==
  /\ main = "serve"
  /\ main' = "drain"
  /\ todo' = listening
  /\ UNCHANGED <<deferred, startVars, listening, draining, timedOut, shutdownErr,
                 requestVars, loggerVars, storeVars>>

InFlight(s) == {r \in Requests : at[r] = s}

(* http.Server.Shutdown of one server after another, in the order of a map *)
(* and the dashboard last: it stops listening, then waits.                 *)
ShutdownServer(s) ==
  /\ main = "drain" /\ draining = NoServer
  /\ s \in todo
  /\ s = "dashboard" => todo = {s}
  /\ listening' = listening \ {s}
  /\ todo' = todo \ {s}
  /\ draining' = s
  /\ UNCHANGED <<main, deferred, startVars, timedOut, shutdownErr, requestVars, loggerVars,
                 storeVars>>

(* Its requests are done, or the common timeout has expired.               *)
ServerStopped ==
  /\ draining # NoServer
  /\ InFlight(draining) = {} \/ timedOut
  /\ shutdownErr' = (shutdownErr \/ InFlight(draining) # {})
  /\ draining' = NoServer
  /\ UNCHANGED <<main, deferred, startVars, listening, todo, timedOut, requestVars,
                 loggerVars, storeVars>>

Timeout ==
  /\ main = "drain" /\ ~timedOut
  /\ timedOut' = TRUE
  /\ UNCHANGED <<main, deferred, startVars, listening, todo, draining, shutdownErr,
                 requestVars, loggerVars, storeVars>>

(* Start returns the error of Shutdown, and main exits on it.              *)
StartReturns ==
  /\ main = "drain" /\ todo = {} /\ draining = NoServer
  /\ \/ /\ shutdownErr
        /\ Exit("failed")
        /\ UNCHANGED <<startVars, todo, draining, timedOut, shutdownErr, sent, loggerVars,
                       versions, effects, rows, audited, storeErr>>
     \/ /\ ~shutdownErr
        /\ main' = "return"
        /\ UNCHANGED <<deferred, startVars, serverVars, requestVars, loggerVars, storeVars>>

(* Mutant: Close waits for the worker without closing the channel.         *)
RunDeferredNoClose ==
  LET call == Head(deferred)
  IN /\ main = "return" /\ deferred # <<>>
     /\ call = "asyncLogger.Close" => worker = "ended"
     /\ deferred' = Tail(deferred)
     /\ open' = (open /\ call # "metaStore.Close")
     /\ IF call = "auditShutdown" THEN Audit("shutdown") ELSE UNCHANGED <<audited, storeErr>>
     /\ UNCHANGED <<main, startVars, serverVars, requestVars, loggerVars, versions, effects,
                    rows>>

(* AsyncLogger.Close closes the channel and waits for the worker.          *)
RunDeferred ==
  LET call == Head(deferred)
  IN /\ main = "return" /\ deferred # <<>>
     /\ IF call = "asyncLogger.Close" /\ ~closed
        THEN closed' = TRUE /\ UNCHANGED deferred
        ELSE /\ call = "asyncLogger.Close" => worker = "ended"
             /\ deferred' = Tail(deferred)
             /\ UNCHANGED closed
     /\ open' = (open /\ call # "metaStore.Close")
     /\ IF call = "auditShutdown" THEN Audit("shutdown") ELSE UNCHANGED <<audited, storeErr>>
     /\ UNCHANGED <<main, startVars, serverVars, requestVars, channel, worker, batch, owed,
                    versions, effects, rows>>

Return ==
  /\ main = "return" /\ deferred = <<>>
  /\ Exit("exited")
  /\ UNCHANGED <<startVars, todo, draining, timedOut, shutdownErr, sent, loggerVars,
                 versions, effects, rows, audited, storeErr>>

----------------------------------------------------------------------------
(* Requests, through LoggingMiddleware, and the logger.                    *)

Accept(r, s) ==
  /\ r \notin sent /\ s \in listening
  /\ sent' = sent \cup {r}
  /\ at' = [at EXCEPT ![r] = s]
  /\ UNCHANGED <<main, deferred, startVars, serverVars, loggerVars, storeVars>>

(* The handler returns without logging when the client has disconnected;   *)
(* otherwise Log sends without blocking, and drops the entry if it cannot. *)
Respond(r) ==
  /\ at[r] # NoServer
  /\ at' = [at EXCEPT ![r] = NoServer]
  /\ \/ UNCHANGED <<channel, owed>>
     \/ /\ ~closed /\ Len(channel) < Buffer
        /\ channel' = Append(channel, r)
        /\ owed' = owed \cup {r}
  /\ UNCHANGED <<main, deferred, startVars, serverVars, sent, closed, worker, batch,
                 storeVars>>

(* AsyncLogger.flush: an error is logged and the batch is gone.            *)
flush ==
  /\ batch' = <<>>
  /\ \/ open /\ rows' = rows \cup Range(batch) /\ UNCHANGED storeErr
     \/ open /\ storeErr' = TRUE /\ UNCHANGED rows
     \/ ~open /\ UNCHANGED <<rows, storeErr>>
  /\ UNCHANGED <<main, deferred, startVars, serverVars, requestVars, closed, owed, open,
                 versions, effects, audited>>

(* The worker appends what it receives, and flushes a full batch, a        *)
(* non-empty one at the ticker, and the last one once the channel is       *)
(* closed and drained.                                                     *)
Receive ==
  /\ worker = "running" /\ main \notin {"exited", "failed"}
  /\ channel # <<>> /\ Len(batch) < BatchSize
  /\ batch' = Append(batch, Head(channel))
  /\ channel' = Tail(channel)
  /\ UNCHANGED <<main, deferred, startVars, serverVars, requestVars, closed, worker, owed,
                 storeVars>>

FlushBatch ==
  /\ worker = "running" /\ main \notin {"exited", "failed"}
  /\ batch # <<>>
  /\ flush
  /\ UNCHANGED <<channel, worker>>

(* Mutant: the worker stops at the close with entries still in the channel. *)
WorkerEndsEarly ==
  /\ worker = "running" /\ main \notin {"exited", "failed"}
  /\ closed /\ Len(batch) < BatchSize
  /\ flush
  /\ worker' = "ended"
  /\ UNCHANGED channel

WorkerEnds ==
  /\ worker = "running" /\ main \notin {"exited", "failed"}
  /\ closed /\ channel = <<>> /\ Len(batch) < BatchSize
  /\ flush
  /\ worker' = "ended"
  /\ UNCHANGED channel

----------------------------------------------------------------------------

MainStep ==
  \/ StartStep \/ StartFails \/ OpenStore \/ ApplySQL \/ Commit \/ Migrated
  \/ Listen \/ (\E s \in Range(Servers) : ShutdownServer(s)) \/ ServerStopped
  \/ StartReturns \/ RunDeferred \/ Return

WorkerStep == Receive \/ FlushBatch \/ WorkerEnds

LifeNext ==
  \/ MainStep \/ Signal \/ Timeout \/ WorkerStep
  \/ \E r \in Requests : Respond(r) \/ \E s \in Range(Servers) : Accept(r, s)
  \/ Restart

(* main and the worker run on, and the timer of Shutdown fires.  No request *)
(* need ever end.                                                           *)
LifeFairness == WF_lifeVars(MainStep) /\ WF_lifeVars(WorkerStep) /\ WF_lifeVars(Timeout)

LifeSpec == LifeInit /\ [][LifeNext]_lifeVars /\ LifeFairness

----------------------------------------------------------------------------

(* The SQL of every recorded migration has taken effect exactly once, and  *)
(* of no other, whatever crash interrupts RunMigrations and whichever      *)
(* binary runs next (migrate.go:24-57, 117-136); requests are served only  *)
(* on the full schema of the binary.  If what one binary has and another   *)
(* lacks always comes later than all the other has, they take effect in    *)
(* order (migrate.go:110-112).                                             *)
SchemaIntact ==
  /\ IsInjective(effects) /\ Range(effects) = versions
  /\ listening # {} => release \subseteq versions
  /\ (\A a, b \in Releases : \A v \in b \ a, w \in a : w < v)
       => \A i, j \in DOMAIN effects : i < j => effects[i] < effects[j]

(* The deferred calls run only when no handler is left (Shutdown drains    *)
(* every server, or main exits without them), so that no entry meets the   *)
(* closed channel, and the worker never meets the closed store             *)
(* (server.go:168-173, main.go:83-101).                                    *)
OrderlyTeardown ==
  /\ main = "return" => listening = {} /\ \A r \in Requests : at[r] = NoServer
  /\ main = "return" /\ worker = "running" => open

(* A process that ends by returning from main has stored every entry its   *)
(* logger accepted and recorded its start and its stop, unless the store   *)
(* itself failed (logger.go:79-116, main.go:101, 149-151).                 *)
NothingOwedAtExit ==
  main = "exited" /\ ~storeErr => owed \subseteq rows /\ audited = {"startup", "shutdown"}

(* A signal ends the process: the drain is bounded by its timeout, and no  *)
(* deferred call waits for ever (server.go:148-179, logger.go:79-84).      *)
StopCompletes == main = "drain" ~> main \notin {"drain", "return"}

=============================================================================
