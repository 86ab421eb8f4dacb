----------------------------- MODULE Readiness -----------------------------
(***************************************************************************)
(* Readiness: the check at startup (server.ts) and those of GET /ready     *)
(* (app.ts) run checkCompatibility (database.ts) side by side on the pool; *)
(* each sets the hypercerts_feed_ready gauge (metrics.ts) when its result  *)
(* arrives.  Meanwhile the database is replaced, reconfigured or lost.     *)
(*                                                                         *)
(* A database is [up, modern, validates, readOnly]; `modern' says it is    *)
(* PostgreSQL 16 or newer.  A database without pg_input_is_valid refuses   *)
(* the whole statement with SQLSTATE 42883.  Every replacement starts a    *)
(* new epoch.                                                              *)
(***************************************************************************)
EXTENDS Integers, Sequences, SequencesExt, FiniteSetsExt

CONSTANTS
    Databases,        \* what the service may be connected to
    Checks,           \* readiness checks in flight at once
    MaxEpoch,         \* bound of the epochs
    None

ASSUME ReadinessAssumption == MaxEpoch \in Nat \ {0}

VARIABLES
    dbs,              \* the databases so far, one per epoch; the last is the present one
    steady,           \* it changes no more, and every statement gets through
    check,            \* per check: phase, verdict, epoch read
    ready,            \* the gauge
    reported,         \* history: the newest epoch a check has reported
    known             \* history, per check: `reported' when it began

readinessVars == <<dbs, steady, check, ready, reported, known>>

db == Last(dbs)

Idle == [phase |-> "idle", verdict |-> None, epoch |-> 0]
-----------------------------------------------------------------------------
(* checkCompatibility. *)

Compatible(d) == d.up /\ d.modern /\ d.validates /\ d.readOnly

\* Slip: any error is taken for a missing function.
VerdictOfAnyError(d) ==
    IF ~ d.up \/ ~ d.validates THEN "unvalidated"
    ELSE IF ~ d.modern THEN "old"
    ELSE IF ~ d.readOnly THEN "writable" ELSE "compatible"

\* The answer of a statement that is given its chance, in the order of the code:
\* the statement fails before its version is looked at.
Verdict(d) ==
    IF ~ d.up THEN "unavailable"
    ELSE IF ~ d.validates THEN "unvalidated"
    ELSE IF ~ d.modern THEN "old"
    ELSE IF ~ d.readOnly THEN "writable" ELSE "compatible"

-----------------------------------------------------------------------------
\* The server listens before the startup check begins.
ReadinessInit ==
    /\ dbs \in {<<d>> : d \in Databases}
    /\ steady = FALSE
    /\ check = [c \in Checks |-> Idle]
    /\ ready = FALSE
    /\ reported = 0
    /\ known = [c \in Checks |-> 0]

\* External: an upgrade, a failover, an outage, a change of role or settings.
Replace(d) ==
    /\ ~ steady
    /\ Len(dbs) < MaxEpoch
    /\ d # db
    /\ dbs' = Append(dbs, d)
    /\ UNCHANGED <<steady, check, ready, reported, known>>

\* External: the end of all that, and of a pool without a free connection.
Settle ==
    /\ ~ steady
    /\ steady' = TRUE
    /\ UNCHANGED <<dbs, check, ready, reported, known>>

\* GET /ready, or the check at startup.  A client that gives up cancels nothing.
Probe(c) ==
    /\ check[c].phase = "idle"
    /\ check' = [check EXCEPT ![c].phase = "querying"]
    /\ known' = [known EXCEPT ![c] = reported]
    /\ UNCHANGED <<dbs, steady, ready, reported>>

\* Slip: a check that finds another's result waiting takes it for its own.
ReadShared(c) ==
    /\ check[c].phase = "querying"
    /\ \E o \in Checks :
           check' = [check EXCEPT ![c] =
                        IF check[o].phase = "read" THEN check[o]
                        ELSE [phase |-> "read", verdict |-> Verdict(db), epoch |-> Len(dbs)]]
    /\ UNCHANGED <<dbs, steady, ready, reported, known>>

\* The database evaluates the statement; its result is on its way.
Read(c) ==
    /\ check[c].phase = "querying"
    /\ check' = [check EXCEPT ![c] =
                    [phase |-> "read", verdict |-> Verdict(db), epoch |-> Len(dbs)]]
    /\ UNCHANGED <<dbs, steady, ready, reported, known>>

\* No connection in time, or the statement times out or is cut.
FailToRead(c) ==
    /\ ~ steady
    /\ check[c].phase = "querying"
    /\ check' = [check EXCEPT ![c] = [phase |-> "read", verdict |-> "unavailable", epoch |-> Len(dbs)]]
    /\ UNCHANGED <<dbs, steady, ready, reported, known>>

\* Slip: only the checks that pass touch the gauge.
AnswerIfReady(c) ==
    /\ check[c].phase = "read"
    /\ ready' = (ready \/ check[c].verdict = "compatible")
    /\ reported' = Max({reported, check[c].epoch})
    /\ check' = [check EXCEPT ![c] = Idle]
    /\ UNCHANGED <<dbs, steady, known>>

\* The result arrives: setReady, and the answer 200 or 503 with its reason.
Answer(c) ==
    /\ check[c].phase = "read"
    /\ ready' = (check[c].verdict = "compatible")
    /\ reported' = Max({reported, check[c].epoch})
    /\ check' = [check EXCEPT ![c] = Idle]
    /\ UNCHANGED <<dbs, steady, known>>

ReadinessNext ==
    \/ \E d \in Databases : Replace(d)
    \/ Settle
    \/ \E c \in Checks : Probe(c) \/ Read(c) \/ FailToRead(c) \/ Answer(c)

ReadinessSpec == ReadinessInit /\ [][ReadinessNext]_readinessVars

\* The database settles, the deployment keeps probing, and the timeouts of the pool
\* and of the statement end every check.
FairReadinessSpec ==
    /\ ReadinessSpec
    /\ WF_readinessVars(Settle)
    /\ \A c \in Checks : WF_readinessVars(Probe(c)) /\ WF_readinessVars(Read(c)) /\ WF_readinessVars(Answer(c))
-----------------------------------------------------------------------------
Verdicts == {"compatible", "unavailable", "unvalidated", "old", "writable"}

\* What a verdict says of the database; a check may fail for its own reasons.
Truthful(verdict, d) ==
    CASE verdict = "unavailable" -> TRUE
      [] verdict = "unvalidated" -> d.up /\ ~ d.validates
      [] verdict = "old"         -> d.up /\ ~ d.modern
      [] verdict = "writable"    -> d.up /\ ~ d.readOnly
      [] verdict = "compatible"  -> Compatible(d)

\* Every answer is one of the reasons of checkCompatibility, and says of the database
\* it was read from what is true of it: an operator told to upgrade or to mend a
\* function has a database that is there and needs it.
ReadinessTypeOK ==
    /\ dbs \in Seq(Databases) /\ Len(dbs) \in 1 .. MaxEpoch
    /\ steady \in BOOLEAN /\ ready \in BOOLEAN
    /\ reported \in 0 .. Len(dbs) /\ known \in [Checks -> 0 .. reported]
    /\ check \in [Checks -> [phase : {"idle", "querying", "read"},
                            verdict : Verdicts \cup {None}, epoch : 0 .. Len(dbs)]]
    /\ \A c \in Checks : check[c].phase = "read" =>
           check[c].epoch # 0 /\ Truthful(check[c].verdict, dbs[check[c].epoch])

Answers(c) == check[c].phase = "read" /\ check'[c].phase = "idle"

\* Checks that overlap may end in either order, and the gauge follows the last to
\* end; but no check reports, or sets the gauge from, a database older than one
\* already reported when it began.  A probe sent after an answer never undoes it.
NoRelapse == [][\A c \in Checks : Answers(c) => check[c].epoch >= known[c]]_readinessVars

\* Whatever order the checks of an outage or an upgrade end in, once the database
\* is left alone and probes go on, the gauge comes to say whether it is compatible,
\* and keeps saying it.
GaugeSettles == <>[](ready = Compatible(db))
=============================================================================
