---------------------------- MODULE FeedSelection ----------------------------
(***************************************************************************)
(* What the Hypercerts feed selects from the indexer's tables, statement   *)
(* by statement of src/src/feed/feed-query.sql, while HappyView writes,    *)
(* rewrites and deletes records and labels.                                *)
(*                                                                         *)
(* A record is [uri, cid, did, col, json, created, indexed, body].  `json' *)
(* says whether its text parses; `created' and `indexed' are instants, or  *)
(* None for a text the query's guards reject; `body' holds what the query  *)
(* reads in that collection.  A reference to a record is a pair of URI and *)
(* CID; URIs are numbers in the order their text sorts.  A subject outside *)
(* Dids is a malformed one.                                                *)
(***************************************************************************)
EXTENDS Integers, FiniteSets

CONSTANTS
    Catalogs,         \* what the network can publish: pairs of a set of record versions
                      \* and a set of labels [uri, src, val, dated, exp]
    Dids,
    Viewer,
    Evaluators,       \* trustedEvaluators
    Labelers,         \* trustedQualityLabelerDids
    HasPolicy,        \* organizationQuality is given ...
    AllowedQualities, \* ... with these `allowed' values ...
    IncludeUnrated,   \* ... and this choice
    PairWindow,       \* 60 seconds
    LastNow,          \* bound of the database clock
    None              \* an instant that is absent or not valid

ASSUME CatalogsAssumption ==
    \A c \in Catalogs :
        /\ IsFiniteSet(c.records)
        /\ \A r \in c.records :
              /\ r.uri \in Int
              /\ r.created \in Int \cup {None} /\ r.indexed \in Int \cup {None}

ASSUME TimeAssumption == PairWindow \in Int /\ LastNow \in Nat

VARIABLES
    catalog,          \* what is published in this behaviour
    db,               \* happyview_records
    labels,           \* happyview_labels
    now               \* the database clock

vars == <<catalog, db, labels, now>>

Of(col) == {r \in db : r.col = col}

\* A valid createdAt, else a valid and finite indexed_at.
Created(r) == IF r.json THEN r.created ELSE None
EffectiveAt(r) == IF Created(r) # None THEN Created(r) ELSE r.indexed
Timed(r) == EffectiveAt(r) # None

Ref(r) == [uri |-> r.uri, cid |-> r.cid]
-----------------------------------------------------------------------------
(* Endorsements. *)

\* Slip: the answers are ordered by the time they were indexed.
AnswerByIndex(r, q) == r.indexed # None /\ q.indexed # None /\ r.indexed > q.indexed

\* ORDER BY effective_at DESC, indexed_at DESC NULLS LAST, uri DESC
AnswersLater(r, q) ==
    \/ EffectiveAt(r) > EffectiveAt(q)
    \/ /\ EffectiveAt(r) = EffectiveAt(q)
       /\ \/ r.indexed # None /\ q.indexed = None
          \/ r.indexed # None /\ q.indexed # None /\ r.indexed > q.indexed
          \/ r.indexed = q.indexed /\ r.uri > q.uri

\* Slip: anyone may answer for the subject.
AnswersByAnyone(award) ==
    {r \in Of("response") :
        /\ r.json /\ r.body.award = Ref(award)
        /\ r.body.answer # ""
        /\ Timed(r)}

\* Slip: an answer outlives the version of the award it was given to.
AnswersToAnyVersion(award) ==
    {r \in Of("response") :
        /\ r.did = award.body.subject
        /\ r.json /\ r.body.award.uri = award.uri
        /\ r.body.answer # ""
        /\ Timed(r)}

\* The subject's timed and non-empty answers to this very version of the award.
Answers(award) ==
    {r \in Of("response") :
        /\ r.did = award.body.subject
        /\ r.json /\ r.body.award = Ref(award)
        /\ r.body.answer # ""
        /\ Timed(r)}

Rejected(award) ==
    \E r \in Answers(award) :
        /\ r.body.answer = "rejected"
        /\ \A q \in Answers(award) \ {r} : AnswersLater(r, q)

\* allowedIssuers is absent, or is an array that names the issuer.
MayIssue(definition, issuer) ==
    definition.body.restricted => issuer \in definition.body.allowed

ValidEndorsementAwards ==
    {award \in Of("award") :
        /\ award.json
        /\ \E definition \in Of("definition") :
            /\ definition.json
            /\ Ref(definition) = award.body.badge
            /\ definition.body.badgeType = "endorsement"
            /\ MayIssue(definition, award.did)
        /\ award.body.subject \in Dids
        /\ award.body.subject # award.did
        /\ ~ Rejected(award)}
-----------------------------------------------------------------------------
(* Scope. *)

BaseAuthors ==
    {r.body.subject : r \in {f \in Of("follow") : f.did = Viewer /\ f.json}} \cap Dids

EvaluatorEndorsements ==
    {a.body.subject : a \in {w \in ValidEndorsementAwards : w.did \in Evaluators}}

\* Slip: viewers see themselves.
ScopeWithViewer == BaseAuthors \cup EvaluatorEndorsements

RequestedScope == (BaseAuthors \cup EvaluatorEndorsements) \ {Viewer}

KnownQualities == {"high-quality", "standard", "draft", "likely-test"}

\* A label's exp is None when absent; one that cannot be read has passed.
ActiveQualities(did) ==
    {label.val : label \in
        {l \in labels :
            /\ l.uri = did
            /\ l.src \in Labelers
            /\ l.val \in KnownQualities
            /\ l.dated
            /\ l.exp # None => l.exp > now}}

IsOrganization(did) == \E r \in Of("organization") : r.did = did

QualityAdmits(did) ==
    \/ ~ HasPolicy
    \/ ~ IsOrganization(did)
    \/ ActiveQualities(did) \cap AllowedQualities # {}
    \/ ActiveQualities(did) = {} /\ IncludeUnrated

ResolvedScope == {did \in RequestedScope : QualityAdmits(did)}
-----------------------------------------------------------------------------
(* Projects, eligibility and classification. *)

Close(a, b) ==
    LET d == EffectiveAt(a) - EffectiveAt(b) IN d < PairWindow /\ -d < PairWindow

\* Slip: a project may take in somebody else's activity.
PairsAcrossActors ==
    {p \in Of("collection") \X Of("activity") :
        /\ p[1].did \in ResolvedScope
        /\ p[1].json /\ Ref(p[2]) \in p[1].body.items
        /\ p[2].json
        /\ Timed(p[1]) /\ Timed(p[2])
        /\ Close(p[1], p[2])}

\* A collection and an activity it lists, of one actor and close in time.
ProjectPairs ==
    {p \in Of("collection") \X Of("activity") :
        /\ p[1].did \in ResolvedScope
        /\ p[1].json /\ Ref(p[2]) \in p[1].body.items
        /\ p[2].did = p[1].did
        /\ p[2].json
        /\ Timed(p[1]) /\ Timed(p[2])
        /\ Close(p[1], p[2])}

PairedCollections == {p[1] : p \in ProjectPairs}
PairedActivities == {p[2] : p \in ProjectPairs}

FeedCollections ==
    {"activity", "collection", "evaluation", "measurement", "attachment", "award"}

EligibleRecords ==
    {r \in db :
        /\ r.did \in ResolvedScope
        /\ r.col \in FeedCollections
        /\ Timed(r)
        /\ r.col = "activity" => r \notin PairedActivities
        /\ r.col = "attachment" => r.json /\ r.body.contentType = "update"
        /\ r.col = "award" => r \in ValidEndorsementAwards}

Kind(r) ==
    CASE r.col = "activity" -> "cert.create"
      [] r.col = "collection" ->
            IF r \in PairedCollections THEN "project.created_with_cert"
                                       ELSE "collection.create"
      [] r.col = "evaluation" -> "evaluation.create"
      [] r.col = "measurement" -> "measurement.create"
      [] r.col = "attachment" -> "update.create"
      [] r.col = "award" -> "endorsement.award"

Event(r) == [uri |-> r.uri, cid |-> r.cid, actor |-> r.did, kind |-> Kind(r), at |-> EffectiveAt(r)]

\* All events of the request; `kinds' and the cursor then filter them.
Events == {Event(r) : r \in EligibleRecords}
-----------------------------------------------------------------------------
(* External: the indexer and its labels. *)

Init ==
    /\ catalog \in Catalogs
    /\ db \in {s \in SUBSET catalog.records : \A r, q \in s : r.uri = q.uri => r = q}
    /\ labels \in SUBSET catalog.labels
    /\ now = 0

\* A record is created, or rewritten under its URI.
Write(r) ==
    /\ r \notin db
    /\ db' = {q \in db : q.uri # r.uri} \cup {r}
    /\ UNCHANGED <<catalog, labels, now>>

Delete(r) ==
    /\ r \in db
    /\ db' = db \ {r}
    /\ UNCHANGED <<catalog, labels, now>>

\* HappyView keeps the current positive labels only.
Relabel(l) ==
    /\ labels' = IF l \in labels THEN labels \ {l} ELSE labels \cup {l}
    /\ UNCHANGED <<catalog, db, now>>

Tick ==
    /\ now < LastNow
    /\ now' = now + 1
    /\ UNCHANGED <<catalog, db, labels>>

Next ==
    \/ \E r \in catalog.records : Write(r) \/ Delete(r)
    \/ \E l \in catalog.labels : Relabel(l)
    \/ Tick

Spec == Init /\ [][Next]_vars
-----------------------------------------------------------------------------
FeedKinds ==
    {"cert.create", "collection.create", "project.created_with_cert", "evaluation.create",
     "measurement.create", "update.create", "endorsement.award"}

\* The tables hold one version of each record; a selected event has a public
\* kind, an instant to be ordered by, and an actor other than the viewer.
TypeOK ==
    /\ catalog \in Catalogs
    /\ db \subseteq catalog.records
    /\ \A r, q \in db : r.uri = q.uri => r = q
    /\ labels \subseteq catalog.labels
    /\ now \in 0 .. LastNow
    /\ \A e \in Events : e.kind \in FeedKinds /\ e.at \in Int /\ e.actor \in Dids \ {Viewer}

\* Combining a project with its activities loses none and shows none twice: an
\* activity in scope is an event of its own or stands behind a project event of
\* its actor, and never both.
ActivityRepresentedOnce ==
    \A a \in {r \in Of("activity") : r.did \in ResolvedScope /\ Timed(r)} :
        (\E e \in Events : e.uri = a.uri)
            # (\E c \in Of("collection") :
                  /\ c.json /\ Ref(a) \in c.body.items
                  /\ \E e \in Events : /\ e.uri = c.uri
                                       /\ e.kind = "project.created_with_cert"
                                       /\ e.actor = a.did
                  /\ a.json /\ Close(a, c))

\* The newest answers of the subject decide on an award, in whatever order the
\* answers were indexed; ties of the newest are left to the tie-breakers.
NewestAnswerDecides ==
    \A award \in {w \in Of("award") : w.json /\ Answers(w) # {}} :
        LET newest == {r \in Answers(award) :
                          \A q \in Answers(award) : EffectiveAt(q) <= EffectiveAt(r)}
        IN  /\ (\A r \in newest : r.body.answer = "rejected") => award \notin ValidEndorsementAwards
            /\ (\A r \in newest : r.body.answer # "rejected") => ~ Rejected(award)

\* The accounts whose records a request has a reason to read.
Consulted ==
    LET readers == Evaluators \cup RequestedScope IN
    {Viewer} \cup readers
        \cup {w.body.subject : w \in {a \in Of("award") : a.json /\ a.did \in readers}}
        \cup {d.did : d \in Of("definition")}

\* A trusted label of an organization; all others are none of the request's business.
Counts(l) == l.src \in Labelers /\ IsOrganization(l.uri)

\* An answer to a version of an award that is not there, or a version of a badge that
\* no award refers to.
Stale(r) ==
    \/ r.col = "response" /\ (r.json => \A w \in Of("award") : r.body.award # Ref(w))
    \/ r.col = "definition" /\ \A w \in Of("award") : w.json => w.body.badge # Ref(r)

\* A write of an account the request does not consult, before or after it,
\* leaves the feed as it is: nobody answers for a subject, follows for the
\* viewer or takes part in another actor's project.  So does a write by anyone of
\* an answer or a badge that no award refers to in that version: what was said of
\* an award, or who might issue a badge, before it was rewritten, counts no more.
\* And no label of a labeler who is not trusted, or of a person, admits or hides
\* anybody.
OutsidersHaveNoSay ==
    [][ ( /\ UNCHANGED now
          /\ \A r \in (db \ db') \cup (db' \ db) :
                r.did \notin Consulted \cup Consulted' \/ (Stale(r) /\ Stale(r)')
          /\ \A l \in (labels \ labels') \cup (labels' \ labels) : ~ Counts(l) /\ ~ Counts(l)' )
        => UNCHANGED Events ]_vars
=============================================================================
