--------------------------- MODULE ProcessProofs ---------------------------
(***************************************************************************)
(* The process: for every set of requests, every size of the pool, with    *)
(* and without a metrics listener, the safety properties of                *)
(* ServerLifecycle; and, for every number of overlapping checks and every  *)
(* sequence of databases, those of the readiness it reports (Readiness).   *)
(***************************************************************************)
EXTENDS ServerLifecycle, Readiness, FiniteSetTheorems, TLAPS
-----------------------------------------------------------------------------
(* The inductive invariant. *)

\* The pool's books: as NoHoldAndWait, and there are finitely many to count.
Connections == NoHoldAndWait /\ IsFiniteSet(clients)

\* Where the startup is, says what it has opened.  The handlers, and with them
\* any shutdown, come last.
StartsInOrder ==
    /\ main \in {"bind_metrics", "bind_http", "clean_metrics", "clean_pool"} =>
           http = "closed" /\ \A j \in Jobs : work[j] = "idle"
    /\ main \in {"bind_metrics", "clean_pool"} => metrics = "closed"
    /\ main = "bind_http" => metrics # "closing"
    /\ armed # {} \/ shutdown # "none" => main = "serve"
    /\ process = "crashed" => main = "clean_pool" /\ pool = "ended"

PoolAt(step) ==
    CASE step = "await_pool" -> "ending"
      [] step = "done" -> "ended"
      [] OTHER -> "open"

AfterDrain == shutdown \in {"stop_metrics", "end_pool", "await_pool", "done"}

\* Where the shutdown is, says what it has closed; nothing else touches the pool,
\* so it is ended once, and after the requests that the drain waited for.
StopsInOrder ==
    /\ shutdown # "none" => http # "listening"
    /\ process # "crashed" => pool = PoolAt(shutdown)
    /\ AfterDrain => OpenRequests = {} \/ "terminate" \in faults

\* A listener that the shutdown has passed is closed, unless closing it failed.
ClosesInOrder ==
    /\ AfterDrain => http = "closed" \/ "terminate" \in faults
    /\ shutdown \in {"end_pool", "await_pool", "done"} => metrics = "closed" \/ "metrics" \in faults

\* The exit code is written once, by the last step.
CodeKept ==
    /\ process # "crashed" /\ shutdown # "done" => exitCode = 0
    /\ process = "crashed" => exitCode = 1
    /\ shutdown = "done" => (exitCode = 1 <=> faults # {})
    /\ process = "exited" => shutdown = "done"

\* A request that lost the pool between its statements was given up, or its client left.
LoserIsGone ==
    \A r \in Requests : work[r] = "refused" => r \in cut \cup left \/ "terminate" \in faults

IInv ==
    /\ TypeOK /\ Connections
    /\ StartsInOrder /\ StopsInOrder /\ ClosesInOrder
    /\ CodeKept /\ LoserIsGone
-----------------------------------------------------------------------------
(* Types. *)

LEMMA TypeInit == Init => TypeOK
BY LifecycleAssumption DEF Init, TypeOK, Jobs, Signals

\* Every step keeps the types.
LEMMA TypeStep ==
    ASSUME TypeOK, [Next]_vars
    PROVE  TypeOK'
<1> USE DEF TypeOK, listeners, jobs, sockets, ending
<1>1. CASE BindMetrics \/ BindHttp \/ BindMetricsFails \/ BindHttpFails
  BY <1>1 DEF BindMetrics, BindHttp, BindMetricsFails, BindHttpFails, AfterBindFailure
<1>2. CASE CleanMetrics \/ CleanPool \/ InstallHandlers
  BY <1>2 DEF CleanMetrics, CleanPool, InstallHandlers
<1>3. ASSUME NEW r \in Requests, Arrive(r) PROVE TypeOK'
  BY <1>3 DEF Arrive
<1>4. ASSUME NEW j \in Jobs, Connect(j) PROVE TypeOK'
  BY <1>4 DEF Connect
<1>5. ASSUME NEW j \in Jobs, ConnectTimesOut(j) PROVE TypeOK'
  BY <1>5 DEF ConnectTimesOut
<1>6. ASSUME NEW j \in Jobs, NEW outcome \in {"answered", "failed"}, Finish(j, outcome)
      PROVE  TypeOK'
  BY <1>6 DEF Finish
<1>7. ASSUME NEW j \in Jobs, SecondStatement(j) PROVE TypeOK'
  BY <1>7 DEF SecondStatement, ClientsBetween
<1>8. ASSUME NEW r \in Requests, ClientLeaves(r) PROVE TypeOK'
  BY <1>8 DEF ClientLeaves, OpenRequests
<1>9. CASE Scrape
  BY <1>9 DEF Scrape
<1>10. CASE ScraperLeaves
  BY <1>10 DEF ScraperLeaves
<1>11. ASSUME NEW s \in Signals, HandleSignal(s) PROVE TypeOK'
  BY <1>11 DEF HandleSignal, Begin
<1>12. ASSUME NEW s \in Signals, KilledBySignal(s) PROVE TypeOK'
  BY <1>12 DEF KilledBySignal
<1>13. CASE DrainEnds \/ DrainDeadline \/ TerminateFails
  BY <1>13 DEF DrainEnds, DrainDeadline, TerminateFails, StopMetrics, OpenRequests
<1>14. CASE MetricsClosed \/ MetricsDeadline \/ MetricsFails
  BY <1>14 DEF MetricsClosed, MetricsDeadline, MetricsFails
<1>15. CASE EndPool \/ PoolEnded \/ Exit
  BY <1>15 DEF EndPool, PoolEnded, Exit, ExitCodeAfter
<1>16. CASE UNCHANGED vars
  BY <1>16 DEF vars
<1>. QED
  BY <1>1, <1>2, <1>3, <1>4, <1>5, <1>6, <1>7, <1>9, <1>10, <1>11, <1>12, <1>13, <1>14, <1>15, <1>16, <1>8
  DEF Next, Startup, Shutdown
-----------------------------------------------------------------------------
(* The pool's books. *)

\* A step that leaves the holders of connections and the jobs that run a statement
\* as they are, leaves the books as they are.
LEMMA BooksUntouched ==
    ASSUME TypeOK, Connections, clients' = clients,
           \A j \in Jobs : work'[j] = "querying" <=> work[j] = "querying"
    PROVE  Connections'
BY DEF Connections, NoHoldAndWait

\* A job that gives its connection back, and one that is given a free one, changes
\* the books by one entry.
LEMMA OneReturned ==
    ASSUME TypeOK, Connections, NEW j \in Jobs, NEW state,
           state # "querying", clients' = clients \ {j}, work' = [work EXCEPT ![j] = state]
    PROVE  Connections'
<1>1. IsFiniteSet(clients') /\ Cardinality(clients') <= Cardinality(clients)
  BY FS_Subset DEF Connections
<1>2. clients' = {i \in Jobs : work'[i] = "querying"}
  BY DEF Connections, NoHoldAndWait, TypeOK
<1>3. Cardinality(clients) \in Nat /\ Cardinality(clients') \in Nat
  BY <1>1, FS_CardinalityType DEF Connections
<1>. QED BY <1>1, <1>2, <1>3, LifecycleAssumption DEF Connections, NoHoldAndWait

LEMMA OneTaken ==
    ASSUME TypeOK, Connections, NEW j \in Jobs, Connect(j)
    PROVE  Connections'
<1>1. j \notin clients
  BY DEF Connect, Connections, NoHoldAndWait
<1>2. IsFiniteSet(clients') /\ Cardinality(clients') = Cardinality(clients) + 1
  BY <1>1, FS_AddElement DEF Connections, Connect
<1>3. clients' = {i \in Jobs : work'[i] = "querying"}
  BY DEF Connections, NoHoldAndWait, TypeOK, Connect
<1>4. Cardinality(clients) \in Nat
  BY FS_CardinalityType DEF Connections
<1>. QED BY <1>2, <1>3, <1>4, LifecycleAssumption DEF Connections, NoHoldAndWait, Connect

\* Every step keeps the books.
LEMMA ConnectionsStep ==
    ASSUME TypeOK, Connections, StartsInOrder, [Next]_vars
    PROVE  Connections'
<1>1. ASSUME NEW j \in Jobs, Connect(j) PROVE Connections'
  BY <1>1, OneTaken
<1>2. ASSUME NEW j \in Jobs, NEW outcome \in {"answered", "failed"}, Finish(j, outcome)
      PROVE  Connections'
  <2>1. outcome # "querying"
    OBVIOUS
  <2>2. clients' = clients \ {j} /\ work' = [work EXCEPT ![j] = outcome]
    BY <1>2 DEF Finish
  <2>. QED BY <2>1, <2>2, OneReturned
<1>3. ASSUME NEW j \in Jobs, SecondStatement(j) PROVE Connections'
  <2> DEFINE state == IF pool = "open" THEN "queued" ELSE "refused"
  <2>1. clients' = clients \ {j} /\ work' = [work EXCEPT ![j] = state]
    BY <1>3 DEF SecondStatement, ClientsBetween
  <2>2. state # "querying"
    OBVIOUS
  <2> HIDE DEF state
  <2>. QED BY <2>1, <2>2, OneReturned
<1>4. ASSUME NEW j \in Jobs, ConnectTimesOut(j) PROVE Connections'
  BY <1>4, BooksUntouched DEF ConnectTimesOut, TypeOK
<1>5. ASSUME NEW r \in Requests, Arrive(r) PROVE Connections'
  BY <1>5, BooksUntouched DEF Arrive, TypeOK, Jobs
<1>6. CASE BindHttp
  <2>1. work[Check] = "idle"
    BY <1>6 DEF BindHttp, StartsInOrder, Jobs
  <2>. QED BY <1>6, <2>1, BooksUntouched DEF BindHttp, TypeOK
<1>7. CASE UNCHANGED <<clients, work>>
  BY <1>7, BooksUntouched
<1>. QED
  BY <1>1, <1>2, <1>3, <1>4, <1>5, <1>6, <1>7
  DEF Next, Startup, Shutdown, vars, jobs, BindMetrics, BindMetricsFails, BindHttpFails,
      CleanMetrics, CleanPool, InstallHandlers, Scrape, ScraperLeaves, HandleSignal,
      KilledBySignal, DrainEnds, DrainDeadline, TerminateFails, MetricsClosed, MetricsDeadline,
      MetricsFails, EndPool, PoolEnded, Exit, ClientLeaves
-----------------------------------------------------------------------------
(* Startup and shutdown. *)

\* What jobs and scrapers do leaves the process where it is.
Elsewhere == UNCHANGED <<process, main, armed, http, metrics, pool, ending>>

LEMMA StartsStep ==
    ASSUME TypeOK, StartsInOrder, [Next]_vars
    PROVE  StartsInOrder'
<1> USE DEF StartsInOrder
<1>1. CASE BindMetrics
  BY <1>1 DEF BindMetrics, jobs, ending
<1>2. CASE BindMetricsFails
  BY <1>2 DEF BindMetricsFails, listeners, jobs, ending
<1>3. CASE BindHttp
  BY <1>3 DEF BindHttp, ending
<1>4. CASE BindHttpFails
  BY <1>4 DEF BindHttpFails, AfterBindFailure, jobs, ending, TypeOK
<1>5. CASE CleanMetrics
  BY <1>5 DEF CleanMetrics, jobs, ending
<1>6. CASE CleanPool
  BY <1>6 DEF CleanPool, listeners, jobs
<1>7. CASE InstallHandlers
  BY <1>7 DEF InstallHandlers, listeners, jobs, ending
<1>8. ASSUME Elsewhere, NEW j \in Jobs, work[j] # "idle" \/ http = "listening"
      PROVE  StartsInOrder'
  <2>1. main \notin {"bind_metrics", "bind_http", "clean_metrics", "clean_pool"}
    BY <1>8
  <2>. QED BY <1>8, <2>1 DEF Elsewhere, ending
<1>9. ASSUME NEW r \in Requests, Arrive(r) PROVE StartsInOrder'
  BY <1>8, <1>9 DEF Arrive, Elsewhere, listeners, Jobs
<1>10. ASSUME NEW j \in Jobs, Connect(j) PROVE StartsInOrder'
  BY <1>8, <1>10 DEF Connect, Elsewhere, listeners
<1>11. ASSUME NEW j \in Jobs, ConnectTimesOut(j) PROVE StartsInOrder'
  BY <1>8, <1>11 DEF ConnectTimesOut, Elsewhere, listeners
<1>12. ASSUME NEW j \in Jobs, NEW outcome \in {"answered", "failed"}, Finish(j, outcome)
       PROVE  StartsInOrder'
  BY <1>8, <1>12 DEF Finish, Elsewhere, listeners
<1>13. ASSUME NEW j \in Jobs, SecondStatement(j) PROVE StartsInOrder'
  BY <1>8, <1>13 DEF SecondStatement, Elsewhere, listeners
<1>14. ASSUME NEW r \in Requests, ClientLeaves(r) PROVE StartsInOrder'
  BY <1>14 DEF ClientLeaves, listeners, ending
<1>15. CASE Scrape \/ ScraperLeaves
  BY <1>15 DEF Scrape, ScraperLeaves, jobs, ending
<1>16. ASSUME NEW s \in Signals, HandleSignal(s) PROVE StartsInOrder'
  BY <1>16 DEF HandleSignal, jobs
<1>17. ASSUME NEW s \in Signals, KilledBySignal(s) PROVE StartsInOrder'
  BY <1>17 DEF KilledBySignal, listeners, jobs, ending
<1>18. CASE UNCHANGED vars
  BY <1>18 DEF vars
<1>19. ASSUME process = "up", shutdown # "none", UNCHANGED <<main, armed>>,
              process' \in {"up", "exited"}
       PROVE  StartsInOrder'
  BY <1>19
<1>20. CASE DrainEnds \/ DrainDeadline \/ TerminateFails
  BY <1>19, <1>20 DEF DrainEnds, DrainDeadline, TerminateFails
<1>21. CASE MetricsClosed \/ MetricsDeadline \/ MetricsFails
  BY <1>19, <1>21 DEF MetricsClosed, MetricsDeadline, MetricsFails
<1>22. CASE EndPool \/ PoolEnded \/ Exit
  BY <1>19, <1>22 DEF EndPool, PoolEnded, Exit
<1>. QED
  BY <1>1, <1>2, <1>3, <1>4, <1>5, <1>6, <1>7, <1>9, <1>10, <1>11, <1>12, <1>13, <1>15, <1>16,
     <1>17, <1>18, <1>20, <1>21, <1>22, <1>14
  DEF Next, Startup, Shutdown

\* A drain that is over stays over: no request is in flight anew.
LEMMA NoneOpenedAnew ==
    ASSUME TypeOK, cut \subseteq cut', left \subseteq left',
           \A j \in Jobs : work'[j] \in {"queued", "querying"} => work[j] \in {"queued", "querying"}
    PROVE  OpenRequests' \subseteq OpenRequests
BY DEF OpenRequests, InFlight

LEMMA StopsStep ==
    ASSUME TypeOK, StartsInOrder, StopsInOrder, [Next]_vars
    PROVE  StopsInOrder'
<1> USE DEF StopsInOrder, AfterDrain, PoolAt
<1>1. ASSUME UNCHANGED <<http, pool, cut, shutdown, faults>>, left \subseteq left',
             process = "crashed" => process' = "crashed",
             \A j \in Jobs : work'[j] \in {"queued", "querying"} => work[j] \in {"queued", "querying"}
      PROVE  StopsInOrder'
  <2>1. OpenRequests' \subseteq OpenRequests
    BY <1>1, NoneOpenedAnew
  <2>. QED BY <1>1, <2>1
<1>2. ASSUME shutdown = "none", shutdown' = "none",
             process' = "crashed" \/ UNCHANGED <<process, pool>>
      PROVE  StopsInOrder'
  BY <1>2
<1>3. CASE Startup \/ BindMetricsFails \/ BindHttpFails
  <2>1. shutdown = "none" /\ shutdown' = "none"
    BY <1>3
    DEF Startup, BindMetrics, BindMetricsFails, BindHttp, BindHttpFails, CleanMetrics, CleanPool,
        InstallHandlers, ending, StartsInOrder
  <2>2. process' = "crashed" \/ UNCHANGED <<process, pool>>
    BY <1>3
    DEF Startup, BindMetrics, BindMetricsFails, BindHttp, BindHttpFails, CleanMetrics, CleanPool,
        InstallHandlers
  <2>. QED BY <1>2, <2>1, <2>2
<1>4. ASSUME NEW r \in Requests, Arrive(r) PROVE StopsInOrder'
  BY <1>2, <1>4 DEF Arrive, ending
<1>5. ASSUME NEW j \in Jobs, Connect(j) PROVE StopsInOrder'
  BY <1>1, <1>5 DEF Connect, listeners, sockets, ending, TypeOK
<1>6. ASSUME NEW j \in Jobs, ConnectTimesOut(j) PROVE StopsInOrder'
  BY <1>1, <1>6 DEF ConnectTimesOut, listeners, sockets, ending, TypeOK
<1>7. ASSUME NEW j \in Jobs, NEW outcome \in {"answered", "failed"}, Finish(j, outcome)
      PROVE  StopsInOrder'
  BY <1>1, <1>7 DEF Finish, listeners, sockets, ending, TypeOK
<1>8. ASSUME NEW j \in Jobs, SecondStatement(j) PROVE StopsInOrder'
  BY <1>1, <1>8 DEF SecondStatement, listeners, sockets, ending, TypeOK
<1>9. ASSUME NEW r \in Requests, ClientLeaves(r) PROVE StopsInOrder'
  BY <1>1, <1>9 DEF ClientLeaves, listeners, ending
<1>10. CASE Scrape \/ ScraperLeaves
  BY <1>1, <1>10 DEF Scrape, ScraperLeaves, jobs, sockets, ending
<1>11. ASSUME NEW s \in Signals, HandleSignal(s) PROVE StopsInOrder'
  <2>1. CASE shutdown = "none"
    BY <1>11, <2>1 DEF HandleSignal, Begin
  <2>2. CASE shutdown # "none"
    BY <1>1, <1>11, <2>2 DEF HandleSignal, Begin, jobs, sockets
  <2>. QED BY <2>1, <2>2
<1>12. ASSUME NEW s \in Signals, KilledBySignal(s) PROVE StopsInOrder'
  BY <1>1, <1>12 DEF KilledBySignal, listeners, jobs, sockets, ending
<1>13. CASE DrainEnds
  BY <1>13 DEF DrainEnds, Drained, jobs, sockets, OpenRequests, InFlight
<1>14. CASE DrainDeadline
  BY <1>14 DEF DrainDeadline, OpenRequests, InFlight
<1>15. CASE TerminateFails
  BY <1>15 DEF TerminateFails
<1>16. ASSUME AfterDrain, UNCHANGED <<http, cut, left, work, process>>, faults \subseteq faults',
              shutdown' # "none", pool' = PoolAt(shutdown)'
       PROVE  StopsInOrder'
  <2>1. OpenRequests' \subseteq OpenRequests
    BY <1>16, NoneOpenedAnew
  <2>. QED BY <1>16, <2>1
<1>17. CASE MetricsClosed \/ MetricsDeadline
  BY <1>16, <1>17 DEF MetricsClosed, MetricsDeadline, jobs, sockets
<1>18. CASE MetricsFails
  BY <1>16, <1>18 DEF MetricsFails, jobs, sockets, listeners
<1>19. CASE EndPool
  BY <1>16, <1>19 DEF EndPool, jobs, sockets, listeners
<1>20. CASE PoolEnded
  BY <1>16, <1>20 DEF PoolEnded, jobs, sockets, listeners
<1>21. CASE Exit
  BY <1>1, <1>21 DEF Exit, jobs, sockets, listeners, ending
<1>22. CASE UNCHANGED vars
  BY <1>1, <1>22 DEF vars
<1>. QED
  BY <1>3, <1>4, <1>5, <1>6, <1>7, <1>8, <1>10, <1>11, <1>12, <1>13, <1>14, <1>15, <1>17, <1>18,
     <1>19, <1>20, <1>21, <1>22, <1>9
  DEF Next, Shutdown

\* Only a startup opens a listener, and each step of the shutdown leaves one closed
\* behind it or a fault.
LEMMA ClosesStep ==
    ASSUME TypeOK, StartsInOrder, StopsInOrder, ClosesInOrder, [Next]_vars
    PROVE  ClosesInOrder'
<1> USE DEF ClosesInOrder, AfterDrain
<1>1. CASE shutdown = "none" /\ shutdown' \in {"none", "drain"}
  BY <1>1
<1>2. CASE UNCHANGED <<http, metrics, shutdown, faults>>
  BY <1>2
<1>3. CASE DrainEnds \/ DrainDeadline \/ TerminateFails
  BY <1>3 DEF DrainEnds, DrainDeadline, TerminateFails
<1>4. CASE MetricsClosed \/ MetricsDeadline \/ MetricsFails
  BY <1>4 DEF MetricsClosed, MetricsDeadline, MetricsFails, listeners
<1>5. CASE EndPool \/ PoolEnded
  BY <1>5 DEF EndPool, PoolEnded, listeners
<1>6. ASSUME NEW s \in Signals, HandleSignal(s) PROVE ClosesInOrder'
  BY <1>1, <1>2, <1>6 DEF HandleSignal, Begin
<1>7. CASE Startup \/ BindMetricsFails \/ BindHttpFails
  BY <1>1, <1>7
  DEF Startup, BindMetrics, BindMetricsFails, BindHttp, BindHttpFails, CleanMetrics, CleanPool,
      InstallHandlers, ending, StartsInOrder
<1>. QED
  BY <1>2, <1>3, <1>4, <1>5, <1>6, <1>7
  DEF Next, Shutdown, Arrive, Connect, ConnectTimesOut, SecondStatement, Finish, Scrape,
      ScraperLeaves, ClientLeaves, KilledBySignal, Exit, listeners, ending, vars
-----------------------------------------------------------------------------
(* The exit code, and what became of the requests. *)

LEMMA CodeStep ==
    ASSUME TypeOK, StartsInOrder, StopsInOrder, CodeKept, [Next]_vars
    PROVE  CodeKept'
<1> USE DEF CodeKept
<1>1. CASE CleanPool
  BY <1>1 DEF CleanPool, StartsInOrder
<1>2. CASE TerminateFails \/ MetricsFails
  BY <1>2 DEF TerminateFails, MetricsFails
<1>3. CASE EndPool
  <2>1. pool = "open"
    BY <1>3 DEF EndPool, StopsInOrder, PoolAt
  <2>. QED BY <1>3, <2>1 DEF EndPool
<1>4. CASE PoolEnded
  BY <1>4 DEF PoolEnded, ExitCodeAfter
<1>5. CASE Exit
  BY <1>5 DEF Exit, ending
<1>6. ASSUME UNCHANGED <<exitCode, faults>>,
             UNCHANGED process \/ (process = "up" /\ process' = "killed"),
             shutdown' = "done" <=> shutdown = "done"
      PROVE  CodeKept'
  BY <1>6 DEF TypeOK
<1>7. CASE BindMetrics \/ BindMetricsFails \/ BindHttp \/ BindHttpFails \/ CleanMetrics \/ InstallHandlers
  BY <1>6, <1>7
  DEF BindMetrics, BindMetricsFails, BindHttp, BindHttpFails, CleanMetrics, InstallHandlers, ending
<1>8. ASSUME NEW r \in Requests, Arrive(r) PROVE CodeKept'
  BY <1>6, <1>8 DEF Arrive, ending
<1>9. ASSUME NEW j \in Jobs, NEW outcome,
             Connect(j) \/ ConnectTimesOut(j) \/ SecondStatement(j) \/ Finish(j, outcome)
      PROVE  CodeKept'
  BY <1>6, <1>9 DEF Connect, ConnectTimesOut, SecondStatement, Finish, ending
<1>10. ASSUME NEW r \in Requests, ClientLeaves(r) PROVE CodeKept'
  BY <1>6, <1>10 DEF ClientLeaves, ending
<1>11. ASSUME NEW s \in Signals, HandleSignal(s) PROVE CodeKept'
  BY <1>6, <1>11 DEF HandleSignal, Begin
<1>12. ASSUME NEW s \in Signals, KilledBySignal(s) PROVE CodeKept'
  BY <1>6, <1>12 DEF KilledBySignal, ending
<1>13. CASE DrainEnds \/ DrainDeadline \/ MetricsClosed \/ MetricsDeadline
  BY <1>6, <1>13 DEF DrainEnds, DrainDeadline, MetricsClosed, MetricsDeadline
<1>14. CASE Scrape \/ ScraperLeaves \/ UNCHANGED vars
  BY <1>6, <1>14 DEF Scrape, ScraperLeaves, vars, ending
<1>. QED
  BY <1>1, <1>2, <1>3, <1>4, <1>5, <1>7, <1>8, <1>9, <1>11, <1>12, <1>13, <1>14, <1>10
  DEF Next, Startup, Shutdown

\* A second statement that is refused finds the pool closed: the drain is over, and
\* has waited for this request, given it up or lost sight of it with its client.
LEMMA RefusedAfterDrain ==
    ASSUME TypeOK, StopsInOrder, NEW r \in Requests, SecondStatement(r), pool # "open"
    PROVE  r \in cut \cup left \/ "terminate" \in faults
<1>1. AfterDrain
  BY DEF SecondStatement, StopsInOrder, PoolAt, AfterDrain, TypeOK
<1>2. r \in OpenRequests \/ r \in cut \cup left
  BY DEF SecondStatement, OpenRequests, InFlight, Jobs
<1>. QED BY <1>1, <1>2 DEF StopsInOrder

\* The pool is closed after the drain only, which has left nobody waiting.
LEMMA ClosedOverNobody ==
    ASSUME TypeOK, StartsInOrder, StopsInOrder, pool # "open"
    PROVE  OpenRequests = {} \/ "terminate" \in faults
<1>1. CASE process = "crashed"
  <2>1. \A j \in Jobs : work[j] = "idle"
    BY <1>1 DEF StartsInOrder
  <2>. QED BY <2>1 DEF OpenRequests, InFlight
<1>2. CASE process # "crashed"
  <2>1. AfterDrain
    BY <1>2 DEF StopsInOrder, PoolAt, AfterDrain, TypeOK
  <2>. QED BY <2>1 DEF StopsInOrder
<1>. QED BY <1>1, <1>2

LEMMA LoserStep ==
    ASSUME TypeOK, StopsInOrder, LoserIsGone, [Next]_vars
    PROVE  LoserIsGone'
<1> SUFFICES ASSUME NEW r \in Requests, work'[r] = "refused"
             PROVE  r \in cut' \cup left' \/ "terminate" \in faults'
  BY DEF LoserIsGone
<1>1. cut \subseteq cut' /\ left \subseteq left' /\ faults \subseteq faults'
  BY DEF Next, Startup, Shutdown, vars, jobs, sockets, ending, BindMetrics, BindMetricsFails,
         BindHttp, BindHttpFails, CleanMetrics, CleanPool, InstallHandlers, Arrive, ClientLeaves,
         Connect, ConnectTimesOut, Finish, SecondStatement, Scrape, ScraperLeaves, HandleSignal,
         KilledBySignal, DrainEnds, DrainDeadline, TerminateFails, MetricsClosed, MetricsDeadline,
         MetricsFails, EndPool, PoolEnded, Exit
<1>2. CASE work[r] = "refused"
  BY <1>1, <1>2 DEF LoserIsGone
<1>3. CASE work[r] # "refused"
  <2>1. SecondStatement(r) /\ pool # "open"
    BY <1>3, LifecycleAssumption
    DEF TypeOK, Jobs, Next, Startup, Shutdown, vars, jobs, BindMetrics, BindMetricsFails, BindHttp,
        BindHttpFails, CleanMetrics, CleanPool, InstallHandlers, Arrive, ClientLeaves, Connect,
        ConnectTimesOut, Finish, SecondStatement, Scrape, ScraperLeaves, HandleSignal,
        KilledBySignal, DrainEnds, DrainDeadline, TerminateFails, MetricsClosed, MetricsDeadline,
        MetricsFails, EndPool, PoolEnded, Exit
  <2>. QED BY <1>1, <2>1, RefusedAfterDrain
<1>. QED BY <1>2, <1>3
-----------------------------------------------------------------------------
(* The theorems. *)

LEMMA Inductive == Spec => []IInv
<1>1. Init => IInv
  <2> SUFFICES ASSUME Init PROVE IInv
    OBVIOUS
  <2>1. TypeOK
    BY TypeInit
  <2>2. Connections
    BY FS_EmptySet, LifecycleAssumption DEF Init, Connections, NoHoldAndWait
  <2>3. StartsInOrder /\ StopsInOrder /\ ClosesInOrder /\ CodeKept /\ LoserIsGone
    BY DEF Init, StartsInOrder, StopsInOrder, PoolAt, AfterDrain, ClosesInOrder, CodeKept,
           LoserIsGone, Jobs
  <2>. QED BY <2>1, <2>2, <2>3 DEF IInv
<1>2. IInv /\ [Next]_vars => IInv'
  BY TypeStep, ConnectionsStep, StartsStep, StopsStep, ClosesStep, CodeStep, LoserStep
  DEF IInv
<1>. QED BY <1>1, <1>2, PTL DEF Spec

\* The variables are well typed.
THEOREM TypeCorrect == Spec => []TypeOK
<1>1. IInv => TypeOK
  BY DEF IInv
<1>. QED BY <1>1, Inductive, PTL

\* Requests of two statements (service.ts) cannot starve each other of connections,
\* however few the pool has and however many they are.
THEOREM NobodyHoldsAndWaits == Spec => []NoHoldAndWait
<1>1. IInv => NoHoldAndWait
  BY DEF IInv, Connections
<1>. QED BY <1>1, Inductive, PTL

\* However clients come and leave, server.ts closes the pool over no request whose
\* client still waits on an open socket, and none loses the pool between its two
\* statements unless the drain gave it up, terminate() failed or its client had left.
THEOREM DrainIsSafe == Spec => []DrainProtectsWork
<1>1. IInv => DrainProtectsWork
  BY ClosedOverNobody DEF IInv, LoserIsGone, DrainProtectsWork
<1>. QED BY <1>1, Inductive, PTL

\* However server.ts ends of itself, after a startup that failed at any step or a
\* shutdown asked for any number of times, it leaves nothing open that its exit code
\* does not tell of.
THEOREM EndsAreHonest == Spec => []EndsHonestly
<1>1. IInv => EndsHonestly
  BY DEF IInv, TypeOK, StartsInOrder, StopsInOrder, PoolAt, AfterDrain, ClosesInOrder, CodeKept,
         EndsHonestly
<1>. QED BY <1>1, Inductive, PTL
-----------------------------------------------------------------------------
(* Readiness: the inductive invariant and its helpers. *)

\* A result on its way is of an epoch at least as new as the newest that had been
\* reported when its check began.
Current(c) == check[c].phase = "read" => check[c].epoch >= known[c]

ReadinessInv == ReadinessTypeOK /\ \A c \in Checks : Current(c)

\* The present database is the last one.
LEMMA PresentDatabase ==
    ASSUME ReadinessTypeOK
    PROVE  db = dbs[Len(dbs)] /\ Len(dbs) \in Nat \ {0}
BY ReadinessAssumption DEF ReadinessTypeOK, db, Last

LEMMA VerdictType ==
    ASSUME NEW d
    PROVE  Verdict(d) \in Verdicts
BY DEF Verdict, Verdicts

\* checkCompatibility says of the database that answers what is true of it.
LEMMA VerdictTruthful ==
    ASSUME NEW d
    PROVE  Truthful(Verdict(d), d)
BY DEF Truthful, Verdict, Compatible

LEMMA MaxOfTwo ==
    ASSUME NEW a \in Int, NEW b \in Int
    PROVE  Max({a, b}) = IF a >= b THEN a ELSE b
BY DEF Max
-----------------------------------------------------------------------------
(* Readiness: types, and the truth of what is reported. *)

LEMMA ReadinessTypeInit ==
    ASSUME ReadinessInit
    PROVE  ReadinessTypeOK
<1>1. PICK d \in Databases : dbs = <<d>>
  BY DEF ReadinessInit
<1>2. dbs \in Seq(Databases) /\ Len(dbs) = 1
  BY <1>1
<1>3. check \in [Checks -> [phase : {"idle", "querying", "read"},
                           verdict : Verdicts \cup {None}, epoch : 0 .. Len(dbs)]]
  BY <1>2 DEF ReadinessInit, Idle
<1>4. \A c \in Checks : check[c].phase # "read"
  BY DEF ReadinessInit, Idle
<1>5. steady \in BOOLEAN /\ ready \in BOOLEAN
  BY DEF ReadinessInit
<1>6. reported \in 0 .. Len(dbs) /\ known \in [Checks -> 0 .. reported]
  BY <1>2 DEF ReadinessInit
<1>. QED BY <1>2, <1>3, <1>4, <1>5, <1>6, ReadinessAssumption DEF ReadinessTypeOK

LEMMA ReadinessTypeStep ==
    ASSUME ReadinessTypeOK, [ReadinessNext]_readinessVars
    PROVE  ReadinessTypeOK'
<1>1. ASSUME NEW d \in Databases, Replace(d) PROVE ReadinessTypeOK'
  <2>1. dbs' \in Seq(Databases) /\ Len(dbs') = Len(dbs) + 1
    BY <1>1 DEF Replace, ReadinessTypeOK
  <2>2. \A i \in 1 .. Len(dbs) : dbs'[i] = dbs[i]
    BY <1>1 DEF Replace, ReadinessTypeOK
  <2>3. Len(dbs') \in 1 .. MaxEpoch
    BY <1>1, <2>1, ReadinessAssumption DEF Replace, ReadinessTypeOK
  <2>. QED BY <1>1, <2>1, <2>2, <2>3 DEF Replace, ReadinessTypeOK
<1>2. CASE Settle
  BY <1>2 DEF Settle, ReadinessTypeOK
<1>3. ASSUME NEW c \in Checks, Probe(c) PROVE ReadinessTypeOK'
  <2>1. /\ check' \in [Checks -> [phase : {"idle", "querying", "read"},
                                  verdict : Verdicts \cup {None}, epoch : 0 .. Len(dbs)]]
        /\ check'[c].phase = "querying"
        /\ \A o \in Checks \ {c} : check'[o] = check[o]
    BY <1>3 DEF Probe, ReadinessTypeOK
  <2>2. known' \in [Checks -> 0 .. reported]
    BY <1>3 DEF Probe, ReadinessTypeOK
  <2>. QED BY <1>3, <2>1, <2>2 DEF Probe, ReadinessTypeOK
<1>4. ASSUME NEW c \in Checks, NEW verdict \in Verdicts, Truthful(verdict, db),
             check' = [check EXCEPT ![c] =
                          [phase |-> "read", verdict |-> verdict, epoch |-> Len(dbs)]],
             UNCHANGED <<dbs, steady, ready, reported, known>>
      PROVE  ReadinessTypeOK'
  <2> DEFINE result == [phase |-> "read", verdict |-> verdict, epoch |-> Len(dbs)]
             Results == [phase : {"idle", "querying", "read"},
                         verdict : Verdicts \cup {None}, epoch : 0 .. Len(dbs)]
  <2>1. result \in Results
    BY PresentDatabase
  <2>2. check' \in [Checks -> Results] /\ check'[c] = result
        /\ \A o \in Checks \ {c} : check'[o] = check[o]
    BY <1>4, <2>1 DEF ReadinessTypeOK
  <2>3. result.phase = "read" /\ result.epoch = Len(dbs) /\ result.verdict = verdict
    OBVIOUS
  <2> HIDE DEF result
  <2>4. \A o \in Checks : check'[o].phase = "read" =>
            check'[o].epoch # 0 /\ Truthful(check'[o].verdict, dbs'[check'[o].epoch])
    BY <1>4, <2>2, <2>3, PresentDatabase DEF ReadinessTypeOK
  <2>. QED BY <1>4, <2>2, <2>4 DEF ReadinessTypeOK
<1>5. ASSUME NEW c \in Checks, Read(c) PROVE ReadinessTypeOK'
  BY <1>4, <1>5, VerdictTruthful, VerdictType DEF Read
<1>6. ASSUME NEW c \in Checks, FailToRead(c) PROVE ReadinessTypeOK'
  BY <1>4, <1>6 DEF FailToRead, Verdicts, Truthful
<1>7. ASSUME NEW c \in Checks, Answer(c) PROVE ReadinessTypeOK'
  <2>1. check[c].epoch \in 0 .. Len(dbs) /\ reported \in 0 .. Len(dbs)
    BY DEF ReadinessTypeOK
  <2>2. reported' = IF reported >= check[c].epoch THEN reported ELSE check[c].epoch
    BY <1>7, <2>1, MaxOfTwo DEF Answer
  <2>3. reported' \in 0 .. Len(dbs) /\ reported' >= reported
    BY <2>1, <2>2
  <2>4. ready' \in BOOLEAN
    BY <1>7 DEF Answer
  <2>5. /\ check' \in [Checks -> [phase : {"idle", "querying", "read"},
                                  verdict : Verdicts \cup {None}, epoch : 0 .. Len(dbs)]]
        /\ check'[c].phase = "idle"
        /\ \A o \in Checks \ {c} : check'[o] = check[o]
    BY <1>7 DEF Answer, ReadinessTypeOK, Idle
  <2>6. known' \in [Checks -> 0 .. reported']
    BY <1>7, <2>3 DEF Answer, ReadinessTypeOK
  <2>. QED BY <1>7, <2>3, <2>4, <2>5, <2>6 DEF Answer, ReadinessTypeOK
<1>8. CASE UNCHANGED readinessVars
  BY <1>8 DEF readinessVars, ReadinessTypeOK
<1>. QED BY <1>1, <1>2, <1>3, <1>5, <1>6, <1>7, <1>8 DEF ReadinessNext
-----------------------------------------------------------------------------
(* Readiness: the order of answers. *)

\* Only a check that reads becomes a result, of the newest epoch; only a check that
\* begins remembers what was reported.
LEMMA CurrentStep ==
    ASSUME ReadinessInv, [ReadinessNext]_readinessVars, NEW o \in Checks
    PROVE  Current(o)'
<1>. USE DEF ReadinessInv, Current
<1>1. reported <= Len(dbs) /\ known[o] \in Int /\ known[o] <= reported /\ Len(dbs) \in Nat
  BY PresentDatabase DEF ReadinessTypeOK
<1>2. ASSUME NEW c \in Checks, Probe(c) PROVE Current(o)'
  BY <1>2 DEF Probe, ReadinessTypeOK
<1>3. ASSUME NEW c \in Checks, Read(c) PROVE Current(o)'
  BY <1>1, <1>3 DEF Read, ReadinessTypeOK
<1>4. ASSUME NEW c \in Checks, FailToRead(c) PROVE Current(o)'
  BY <1>1, <1>4 DEF FailToRead, ReadinessTypeOK
<1>5. ASSUME NEW c \in Checks, Answer(c) PROVE Current(o)'
  BY <1>5 DEF Answer, Idle, ReadinessTypeOK
<1>6. CASE UNCHANGED <<check, known>>
  BY <1>6
<1>. QED BY <1>2, <1>3, <1>4, <1>5, <1>6 DEF ReadinessNext, Replace, Settle, readinessVars

LEMMA ReadinessInductive == ReadinessSpec => []ReadinessInv
<1>1. ASSUME ReadinessInit PROVE ReadinessInv
  BY <1>1, ReadinessTypeInit DEF ReadinessInit, ReadinessInv, Current, Idle
<1>2. ReadinessInv /\ [ReadinessNext]_readinessVars => ReadinessInv'
  BY ReadinessTypeStep, CurrentStep DEF ReadinessInv
<1>. QED BY <1>1, <1>2, PTL DEF ReadinessSpec

\* The variables are well typed, and every reason that checkCompatibility gives is
\* true of the database it was read from.
THEOREM ReadinessTypes == ReadinessSpec => []ReadinessTypeOK
<1>1. ReadinessInv => ReadinessTypeOK
  BY DEF ReadinessInv
<1>. QED BY <1>1, ReadinessInductive, PTL

\* However many checks of app.ts overlap and in whatever order they end, none reports
\* or sets the gauge from a database older than one reported before it began.
THEOREM NoAnswerRelapses == ReadinessSpec => NoRelapse
<1>1. ReadinessInv => \A c \in Checks : Answers(c) => check[c].epoch >= known[c]
  BY DEF ReadinessInv, Current, Answers
<1>. QED BY <1>1, ReadinessInductive, PTL DEF NoRelapse
=============================================================================
