--------------------------- MODULE ServerLifecycle ---------------------------
(***************************************************************************)
(* The process from start to end: server.ts binds the listeners, awaits a  *)
(* first database check, installs its signal handlers, and on a signal     *)
(* drains HTTP, stops the metrics listener (metrics-server.ts) and ends    *)
(* the Postgres pool (database.ts), while requests, of one or two          *)
(* statements each, share the pool's few connections.                      *)
(*                                                                         *)
(* A request here begins when its body has been read.  From then on its    *)
(* handler runs to the end, whether or not its client is still there: the  *)
(* handler's signal is a fresh one (app.ts).                               *)
(*                                                                         *)
(* External, as the code uses them: server.terminate() waits for open      *)
(* sockets, not for handlers, and at most gracefulShutdownMs; pool.query() *)
(* queues for a connection, at most connectionTimeoutMs, and is refused    *)
(* once end() was called; end() settles when every connection is back.     *)
(***************************************************************************)
EXTENDS Integers, FiniteSets

CONSTANTS
    Requests,         \* feed requests
    Hydrated,         \* those that run a second statement (getFeed)
    Check,            \* the first compatibility check
    PoolMax,          \* databasePoolMax
    HasMetrics        \* metricsPort is configured

ASSUME LifecycleAssumption ==
    /\ Hydrated \subseteq Requests
    /\ Check \notin Requests
    /\ PoolMax \in Nat \ {0}
    /\ HasMetrics \in BOOLEAN

VARIABLES
    process,          \* "up", "crashed" (startup threw), "killed" or "exited"
    main,             \* where server.ts's top-level statements are
    armed,            \* signals whose once-handler is still installed
    http,             \* "closed", "listening" or "draining"
    metrics,          \* "closed", "listening" or "closing"
    scraping,         \* a client holds a connection to the metrics listener
    pool,             \* "open", "ending" or "ended"
    clients,          \* jobs that hold a pool connection
    work,             \* what each job is doing
    stage,            \* which statement of the job
    cut,              \* requests whose socket the drain's deadline destroyed
    left,             \* requests whose client hung up while their handler ran
    shutdown,         \* where the shutdown is, "none" before the first signal
    exitCode,
    faults            \* history: shutdown steps of libraries that failed

vars == <<process, main, armed, http, metrics, scraping, pool, clients, work, stage, cut, left,
          shutdown, exitCode, faults>>

Jobs == Requests \cup {Check}
Signals == {"SIGTERM", "SIGINT"}
InFlight == {j \in Jobs : work[j] \in {"queued", "querying"}}
\* Those that the drain waits for: their handler runs and their socket is open.
OpenRequests == (InFlight \cap Requests) \ (cut \cup left)

listeners == <<http, metrics, scraping>>
sockets == <<cut, left>>
jobs == <<clients, work, stage, sockets>>
ending == <<shutdown, exitCode, faults>>
-----------------------------------------------------------------------------
Init ==
    /\ process = "up"
    /\ main = IF HasMetrics THEN "bind_metrics" ELSE "bind_http"
    /\ armed = {}
    /\ http = "closed"
    /\ metrics = "closed"
    /\ scraping = FALSE
    /\ pool = "open"
    /\ clients = {}
    /\ work = [j \in Jobs |-> "idle"]
    /\ stage = [j \in Jobs |-> 1]
    /\ cut = {}
    /\ left = {}
    /\ shutdown = "none"
    /\ exitCode = 0
    /\ faults = {}

(* Startup. *)

BindMetrics ==
    /\ process = "up" /\ main = "bind_metrics"
    /\ metrics' = "listening"
    /\ main' = "bind_http"
    /\ UNCHANGED <<process, armed, http, scraping, pool, jobs, ending>>

BindMetricsFails ==
    /\ process = "up" /\ main = "bind_metrics"
    /\ main' = "clean_pool"
    /\ UNCHANGED <<process, armed, listeners, pool, jobs, ending>>

\* Listening resolves; the check is sent in the same turn.
BindHttp ==
    /\ process = "up" /\ main = "bind_http"
    /\ http' = "listening"
    /\ main' = "check"
    /\ work' = [work EXCEPT ![Check] = "queued"]
    /\ UNCHANGED <<process, armed, metrics, scraping, pool, clients, stage, sockets, ending>>

\* Slip: the metrics listener is left open when HTTP cannot bind.
AfterBindFailureLeaky == "clean_pool"
AfterBindFailure == IF metrics = "listening" THEN "clean_metrics" ELSE "clean_pool"

BindHttpFails ==
    /\ process = "up" /\ main = "bind_http"
    /\ main' = AfterBindFailure
    /\ metrics' = IF main' = "clean_metrics" THEN "closing" ELSE metrics
    /\ UNCHANGED <<process, armed, http, scraping, pool, jobs, ending>>

\* closeMetricsServer settles, whatever became of its connections.
CleanMetrics ==
    /\ process = "up" /\ main = "clean_metrics"
    /\ metrics' = "closed"
    /\ scraping' = FALSE
    /\ main' = "clean_pool"
    /\ UNCHANGED <<process, armed, http, pool, jobs, ending>>

\* No statement was sent yet, so ending the pool does not wait; then rethrow.
CleanPool ==
    /\ process = "up" /\ main = "clean_pool"
    /\ pool' = "ended"
    /\ process' = "crashed"
    /\ exitCode' = 1
    /\ UNCHANGED <<main, armed, listeners, jobs, shutdown, faults>>

\* The check never rejects; whatever it found, the handlers come next.
InstallHandlers ==
    /\ process = "up" /\ main = "check"
    /\ work[Check] \notin {"queued", "querying"}
    /\ main' = "serve"
    /\ armed' = Signals
    /\ UNCHANGED <<process, listeners, pool, jobs, ending>>
-----------------------------------------------------------------------------
(* Requests and the pool. *)

Arrive(r) ==
    /\ process = "up" /\ http = "listening"
    /\ work[r] = "idle"
    /\ work' = [work EXCEPT ![r] = "queued"]
    /\ UNCHANGED <<process, main, armed, listeners, pool, clients, stage, sockets, ending>>

Connect(j) ==
    /\ process = "up" /\ pool = "open"
    /\ work[j] = "queued"
    /\ Cardinality(clients) < PoolMax
    /\ clients' = clients \cup {j}
    /\ work' = [work EXCEPT ![j] = "querying"]
    /\ UNCHANGED <<process, main, armed, listeners, pool, stage, sockets, ending>>

\* connectionTimeoutMillis: none came free, none could be opened, or end() was called.
ConnectTimesOut(j) ==
    /\ process = "up"
    /\ work[j] = "queued"
    /\ work' = [work EXCEPT ![j] = "failed"]
    /\ UNCHANGED <<process, main, armed, listeners, pool, clients, stage, sockets, ending>>

\* pool.query gives its connection back as the last statement's rows arrive, or any statement fails or times out.
Finish(j, outcome) ==
    /\ process = "up"
    /\ work[j] = "querying"
    /\ outcome = "answered" => (j \in Hydrated => stage[j] = 2)
    /\ clients' = clients \ {j}
    /\ work' = [work EXCEPT ![j] = outcome]
    /\ UNCHANGED <<process, main, armed, listeners, pool, stage, sockets, ending>>

\* Slip: one connection is kept for both statements.
ClientsKept(j) == clients
ClientsBetween(j) == clients \ {j}

\* The page is there and its identities are asked for: a second pool.query.
SecondStatement(j) ==
    /\ process = "up"
    /\ work[j] = "querying" /\ j \in Hydrated /\ stage[j] = 1
    /\ clients' = ClientsBetween(j)
    /\ stage' = [stage EXCEPT ![j] = 2]
    /\ work' = [work EXCEPT ![j] = IF pool = "open" THEN "queued" ELSE "refused"]
    /\ UNCHANGED <<process, main, armed, listeners, pool, sockets, ending>>

\* The body was read: a client that hangs up now closes its socket and stops nothing.
ClientLeaves(r) ==
    /\ process = "up"
    /\ r \in OpenRequests
    /\ left' = left \cup {r}
    /\ UNCHANGED <<process, main, armed, listeners, pool, clients, work, stage, cut, ending>>
-----------------------------------------------------------------------------
(* Signals and shutdown. *)

\* External: a scraper connects, and leaves when it likes.
Scrape ==
    /\ process = "up" /\ metrics = "listening"
    /\ ~ scraping
    /\ scraping' = TRUE
    /\ UNCHANGED <<process, main, armed, http, metrics, pool, jobs, ending>>

ScraperLeaves ==
    /\ process = "up" /\ scraping
    /\ scraping' = FALSE
    /\ UNCHANGED <<process, main, armed, http, metrics, pool, jobs, ending>>

\* Slip: every signal starts a shutdown of its own.
BeginAgain == "drain"
\* shutdownPromise ??= ...
Begin == IF shutdown = "none" THEN "drain" ELSE shutdown

\* server.terminate() stops accepting at once.
HandleSignal(s) ==
    /\ process = "up"
    /\ s \in armed
    /\ armed' = armed \ {s}
    /\ shutdown' = Begin
    /\ http' = IF shutdown = "none" THEN "draining" ELSE http
    /\ UNCHANGED <<process, main, metrics, scraping, pool, jobs, exitCode, faults>>

\* No handler yet, or a once-handler already spent: the default action.
KilledBySignal(s) ==
    /\ process = "up"
    /\ s \notin armed
    /\ process' = "killed"
    /\ UNCHANGED <<main, armed, listeners, pool, jobs, ending>>

\* Slip: the pool is ended without waiting for the requests.
DrainedAtOnce == TRUE
Drained == OpenRequests = {}

\* Stopping the metrics listener begins as soon as the drain is over.
StopMetrics == metrics' = IF metrics = "listening" THEN "closing" ELSE metrics

DrainEnds ==
    /\ process = "up" /\ shutdown = "drain"
    /\ Drained
    /\ http' = "closed"
    /\ shutdown' = "stop_metrics"
    /\ StopMetrics
    /\ UNCHANGED <<process, main, armed, scraping, pool, jobs, exitCode, faults>>

\* gracefulTerminationTimeout: sockets are destroyed, the handlers run on.
DrainDeadline ==
    /\ process = "up" /\ shutdown = "drain"
    /\ OpenRequests # {}
    /\ cut' = cut \cup OpenRequests
    /\ http' = "closed"
    /\ shutdown' = "stop_metrics"
    /\ StopMetrics
    /\ UNCHANGED <<process, main, armed, scraping, pool, clients, work, stage, left, exitCode, faults>>

\* terminate() rejects: logged, and the next step goes on.
TerminateFails ==
    /\ process = "up" /\ shutdown = "drain"
    /\ faults' = faults \cup {"terminate"}
    /\ shutdown' = "stop_metrics"
    /\ StopMetrics
    /\ UNCHANGED <<process, main, armed, http, scraping, pool, jobs, exitCode>>

\* The listener did not listen, or its last connection has closed.
MetricsClosed ==
    /\ process = "up" /\ shutdown = "stop_metrics"
    /\ ~ scraping
    /\ metrics' = "closed"
    /\ shutdown' = "end_pool"
    /\ UNCHANGED <<process, main, armed, http, scraping, pool, jobs, exitCode, faults>>

\* Slip: closeMetricsServer waits for its connections without a deadline.
NoMetricsDeadline == FALSE /\ UNCHANGED vars
\* closeAllConnections at gracefulShutdownMs.
MetricsDeadline ==
    /\ process = "up" /\ shutdown = "stop_metrics"
    /\ scraping
    /\ scraping' = FALSE
    /\ metrics' = "closed"
    /\ shutdown' = "end_pool"
    /\ UNCHANGED <<process, main, armed, http, pool, jobs, exitCode, faults>>

\* server.close reports an error: logged, and the next step goes on.
MetricsFails ==
    /\ process = "up" /\ shutdown = "stop_metrics"
    /\ metrics = "closing"
    /\ faults' = faults \cup {"metrics"}
    /\ shutdown' = "end_pool"
    /\ UNCHANGED <<process, main, armed, listeners, pool, jobs, exitCode>>

\* A second end() would reject: one of the ways to a failed shutdown.
EndPool ==
    /\ process = "up" /\ shutdown = "end_pool"
    /\ pool' = IF pool = "open" THEN "ending" ELSE pool
    /\ shutdown' = IF pool = "open" THEN "await_pool" ELSE "done"
    /\ exitCode' = IF pool = "open" THEN exitCode ELSE 1
    /\ UNCHANGED <<process, main, armed, listeners, jobs, faults>>

\* Slip: the exit code forgets the steps that failed before the last one.
ExitCodeOfLastStep == 0
\* Slip: the exit code counts the failures.
ExitCodeCounts == Cardinality(faults)
\* process.exitCode = 1 if any step failed.
ExitCodeAfter == IF faults # {} THEN 1 ELSE exitCode

PoolEnded ==
    /\ process = "up" /\ shutdown = "await_pool"
    /\ clients = {}
    /\ pool' = "ended"
    /\ shutdown' = "done"
    /\ exitCode' = ExitCodeAfter
    /\ UNCHANGED <<process, main, armed, listeners, jobs, faults>>

\* Nothing keeps the event loop alive any more.
Exit ==
    /\ process = "up" /\ shutdown = "done"
    /\ InFlight = {}
    /\ process' = "exited"
    /\ UNCHANGED <<main, armed, listeners, pool, jobs, ending>>
-----------------------------------------------------------------------------
Startup == BindMetrics \/ BindHttp \/ CleanMetrics \/ CleanPool \/ InstallHandlers

Shutdown ==
    \/ DrainEnds \/ DrainDeadline
    \/ MetricsClosed \/ MetricsDeadline
    \/ EndPool \/ PoolEnded
    \/ Exit

Next ==
    \/ Startup
    \/ BindMetricsFails \/ BindHttpFails
    \/ \E r \in Requests : Arrive(r) \/ ClientLeaves(r)
    \/ \E j \in Jobs :
        \/ Connect(j)
        \/ ConnectTimesOut(j)
        \/ SecondStatement(j)
        \/ \E outcome \in {"answered", "failed"} : Finish(j, outcome)
    \/ Scrape \/ ScraperLeaves
    \/ \E s \in Signals : HandleSignal(s) \/ KilledBySignal(s)
    \/ Shutdown
    \/ TerminateFails \/ MetricsFails

Spec == Init /\ [][Next]_vars

\* Timeouts bound the wait for a connection, each statement and both listeners;
\* nothing is assumed of clients, of signals or of the order of jobs.
Fairness ==
    /\ WF_vars(Startup)
    /\ WF_vars(Shutdown)
    /\ \A j \in Jobs :
        /\ WF_vars(ConnectTimesOut(j))
        /\ WF_vars(SecondStatement(j) \/ Finish(j, "answered") \/ Finish(j, "failed"))

FairSpec == Spec /\ Fairness
-----------------------------------------------------------------------------
\* The variables are well typed.
TypeOK ==
    /\ process \in {"up", "crashed", "killed", "exited"}
    /\ main \in {"bind_metrics", "bind_http", "clean_metrics", "clean_pool", "check", "serve"}
    /\ armed \subseteq Signals
    /\ http \in {"closed", "listening", "draining"}
    /\ metrics \in {"closed", "listening", "closing"}
    /\ scraping \in BOOLEAN
    /\ pool \in {"open", "ending", "ended"}
    /\ clients \subseteq Jobs
    /\ work \in [Jobs -> {"idle", "queued", "querying", "answered", "failed", "refused"}]
    /\ stage \in [Jobs -> {1, 2}]
    /\ cut \subseteq Requests
    /\ left \subseteq Requests
    /\ shutdown \in {"none", "drain", "stop_metrics", "end_pool", "await_pool", "done"}
    /\ exitCode \in {0, 1}
    /\ faults \subseteq {"terminate", "metrics"}

\* A request never waits for a connection while it holds one, so that requests
\* of two statements cannot starve each other of the pool's connections.
NoHoldAndWait ==
    /\ clients = {j \in Jobs : work[j] = "querying"}
    /\ Cardinality(clients) <= PoolMax

\* The drain protects the work it can see, and only that: the pool is closed over no
\* request whose client still waits on an open socket, and a request loses the pool
\* between its two statements only if the deadline gave it up, terminate() failed, or
\* its client had left, so that the drain no longer waited for its handler.
DrainProtectsWork ==
    /\ pool # "open" => OpenRequests = {} \/ "terminate" \in faults
    /\ \A r \in Requests : work[r] = "refused" => r \in cut \cup left \/ "terminate" \in faults

\* A process that ends of itself leaves nothing open without telling: a startup that
\* failed has closed whatever it had opened, and says so; a shutdown, however many
\* signals asked for it, has ended the pool and reports exactly whether a step failed,
\* and where none did, both listeners are closed.
EndsHonestly ==
    /\ process = "crashed" =>
          exitCode = 1 /\ http = "closed" /\ metrics = "closed" /\ pool = "ended"
    /\ process = "exited" =>
          /\ pool = "ended" /\ (exitCode = 1 <=> faults # {})
          /\ exitCode = 0 => http = "closed" /\ metrics = "closed"

\* Once it has begun, the shutdown ends the process: neither statements in
\* flight nor idle metrics connections hold it up for ever.
ShutdownEnds == shutdown # "none" ~> process # "up"

\* SIGTERM and SIGINT let current work finish.
SignalLetsWorkFinish == process = "killed" => OpenRequests = {}
=============================================================================
