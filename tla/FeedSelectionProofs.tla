------------------------ MODULE FeedSelectionProofs ------------------------
(***************************************************************************)
(* For whatever the network publishes and every policy: who decides on an  *)
(* endorsement, how feed-query.sql combines a project with its activities, *)
(* and whose writes and labels have a say in the feed.                     *)
(***************************************************************************)
EXTENDS FeedSelection, FiniteSetTheorems, WellFoundedInduction, TLAPS

(* Types. *)

\* TypeOK but for the events, which follow.
Tables ==
    /\ catalog \in Catalogs
    /\ db \subseteq catalog.records
    /\ \A r, q \in db : r.uri = q.uri => r = q
    /\ labels \subseteq catalog.labels
    /\ now \in 0 .. LastNow

LEMMA TablesStep ==
    ASSUME Tables, [Next]_vars
    PROVE  Tables'
<1>1. ASSUME NEW r \in catalog.records, Write(r) PROVE Tables'
  BY <1>1 DEF Write, Tables
<1>2. ASSUME NEW r \in catalog.records, Delete(r) PROVE Tables'
  BY <1>2 DEF Delete, Tables
<1>3. ASSUME NEW l \in catalog.labels, Relabel(l) PROVE Tables'
  BY <1>3 DEF Relabel, Tables
<1>4. CASE Tick
  BY <1>4, TimeAssumption DEF Tick, Tables
<1>5. CASE UNCHANGED vars
  BY <1>5 DEF vars, Tables
<1>. QED BY <1>1, <1>2, <1>3, <1>4, <1>5 DEF Next

LEMMA TablesKept == Spec => []Tables
<1>1. Init => Tables
  BY TimeAssumption DEF Init, Tables
<1>. QED BY <1>1, TablesStep, PTL DEF Spec

\* A record with an effective instant has one that is a number.
LEMMA InstantType ==
    ASSUME Tables, NEW r \in db
    PROVE  /\ EffectiveAt(r) \in Int \cup {None}
           /\ r.indexed \in Int \cup {None} /\ r.uri \in Int
           /\ Timed(r) => EffectiveAt(r) \in Int
BY CatalogsAssumption DEF Tables, EffectiveAt, Created, Timed

LEMMA ScopeType == RequestedScope \subseteq Dids \ {Viewer}
BY DEF RequestedScope, BaseAuthors, EvaluatorEndorsements, ValidEndorsementAwards

LEMMA EventType ==
    ASSUME Tables, NEW r \in EligibleRecords
    PROVE  Kind(r) \in FeedKinds /\ EffectiveAt(r) \in Int /\ r.did \in Dids \ {Viewer}
<1>1. r \in db /\ Timed(r) /\ r.col \in FeedCollections /\ r.did \in RequestedScope
  BY DEF EligibleRecords, ResolvedScope
<1>2. Kind(r) \in FeedKinds
  BY <1>1 DEF Kind, FeedKinds, FeedCollections
<1>. QED BY <1>1, <1>2, InstantType, ScopeType

\* The tables are well typed, and what is selected has a public kind, an instant to be
\* ordered by, and an actor other than the viewer.
THEOREM TypeCorrect == Spec => []TypeOK
<1>1. Tables => TypeOK
  BY EventType DEF Tables, TypeOK, Events, Event
<1>. QED BY <1>1, TablesKept, PTL
-----------------------------------------------------------------------------
(* Pairing. *)

\* A record is an event under its own URI, and only that.
LEMMA EventOfUri ==
    ASSUME Tables, NEW r \in db
    PROVE  \A e \in Events : e.uri = r.uri => r \in EligibleRecords /\ e = Event(r)
BY DEF Tables, Events, Event, EligibleRecords

\* A collection that is shown for its activity, and stands for it.
StandsFor(c, a) ==
    /\ c.json /\ Ref(a) \in c.body.items
    /\ \E e \in Events : /\ e.uri = c.uri
                         /\ e.kind = "project.created_with_cert"
                         /\ e.actor = a.did
    /\ a.json /\ Close(a, c)

LEMMA CloseSymmetric ==
    ASSUME Tables, NEW a \in db, NEW c \in db, Timed(a), Timed(c)
    PROVE  Close(a, c) <=> Close(c, a)
BY InstantType, TimeAssumption DEF Close

LEMMA PairedStandsBehind ==
    ASSUME Tables, NEW a \in PairedActivities
    PROVE  \E c \in Of("collection") : StandsFor(c, a)
<1>1. PICK p \in ProjectPairs : p[2] = a
  BY DEF PairedActivities
<1> DEFINE c == p[1]
<1>2. /\ c \in db /\ c.col = "collection" /\ a \in db
      /\ c.did \in ResolvedScope /\ a.did = c.did
      /\ c.json /\ Ref(a) \in c.body.items /\ a.json
      /\ Timed(c) /\ Timed(a) /\ Close(c, a)
  BY <1>1 DEF ProjectPairs, Of
<1>3. c \in PairedCollections
  BY DEF PairedCollections
<1> HIDE DEF c
<1>4. c \in EligibleRecords
  BY <1>2 DEF EligibleRecords, FeedCollections
<1>5. Kind(c) = "project.created_with_cert"
  BY <1>2, <1>3 DEF Kind
<1>6. Event(c) \in Events /\ Event(c).uri = c.uri /\ Event(c).actor = a.did
      /\ Event(c).kind = "project.created_with_cert"
  BY <1>2, <1>4, <1>5 DEF Events, Event
<1>7. Close(a, c)
  BY <1>2, CloseSymmetric
<1>. QED BY <1>2, <1>6, <1>7 DEF StandsFor, Of

LEMMA StandsBehindPaired ==
    ASSUME Tables, NEW a \in Of("activity"), Timed(a), NEW c \in Of("collection"), StandsFor(c, a)
    PROVE  a \in PairedActivities
<1>1. PICK e \in Events : e.uri = c.uri /\ e.actor = a.did
  BY DEF StandsFor
<1>2. c \in db /\ a \in db
  BY DEF Of
<1>3. c \in EligibleRecords /\ e = Event(c)
  BY <1>1, <1>2, EventOfUri
<1>4. c.did = a.did
  BY <1>1, <1>3 DEF Event
<1>5. c.did \in ResolvedScope /\ Timed(c)
  BY <1>3 DEF EligibleRecords
<1>6. <<c, a>> \in ProjectPairs
  BY <1>2, <1>4, <1>5, CloseSymmetric DEF ProjectPairs, StandsFor
<1>. QED BY <1>6 DEF PairedActivities

\* An activity in scope is an event of its own, or stands behind a project, and never both.
THEOREM ActivitiesRepresentedOnce == Spec => []ActivityRepresentedOnce
<1>1. ASSUME Tables, NEW a \in Of("activity"), a.did \in ResolvedScope, Timed(a)
      PROVE  (\E e \in Events : e.uri = a.uri) <=> ~ \E c \in Of("collection") : StandsFor(c, a)
  <2>1. a \in db /\ a.col = "activity"
    BY DEF Of
  <2>2. (\E e \in Events : e.uri = a.uri) <=> a \in EligibleRecords
    <3>1. ASSUME a \in EligibleRecords PROVE Event(a) \in Events /\ Event(a).uri = a.uri
      BY <3>1 DEF Events, Event
    <3>. QED BY <1>1, <2>1, <3>1, EventOfUri
  <2>3. a \in EligibleRecords <=> a \notin PairedActivities
    BY <1>1, <2>1 DEF EligibleRecords, FeedCollections
  <2>. QED BY <1>1, <2>2, <2>3, PairedStandsBehind, StandsBehindPaired
<1>2. Tables => ActivityRepresentedOnce
  BY <1>1 DEF ActivityRepresentedOnce, StandsFor
<1>. QED BY <1>2, TablesKept, PTL
-----------------------------------------------------------------------------
(* The newest answer. *)

\* A finite set that is ordered by a total and transitive relation has a greatest
\* element: otherwise, a smallest set without one would get one from the set that
\* lacks one of its elements.
LEMMA FiniteHasGreatest ==
    ASSUME NEW S, IsFiniteSet(S), S # {}, NEW R,
           \A x, y \in S : x # y => <<x, y>> \in R \/ <<y, x>> \in R,
           \A x, y, z \in S : <<x, y>> \in R /\ <<y, z>> \in R => <<x, z>> \in R
    PROVE  \E g \in S : \A x \in S \ {g} : <<g, x>> \in R
<1> DEFINE Greatest(U, g) == g \in U /\ \A x \in U \ {g} : <<g, x>> \in R
           Bad == {U \in FiniteSubsetsOf(S) : U # {} /\ \A g \in U : ~ Greatest(U, g)}
<1> SUFFICES ASSUME Bad # {} PROVE FALSE
  <2>1. S \in FiniteSubsetsOf(S)
    BY DEF FiniteSubsetsOf
  <2>. QED BY <2>1
<1>1. IsWellFoundedOn(StrictSubsetOrdering(S), FiniteSubsetsOf(S))
  BY FS_StrictSubsetOrderingWellFounded
<1>2. Bad \subseteq FiniteSubsetsOf(S)
  OBVIOUS
<1>3. PICK U \in Bad : \A V \in Bad : ~ (<<V, U>> \in StrictSubsetOrdering(S))
  <2> HIDE DEF Bad
  <2>. QED BY <1>1, <1>2, WFMin
<1>4. U \subseteq S /\ IsFiniteSet(U) /\ U # {}
  BY DEF FiniteSubsetsOf
<1>5. PICK u : u \in U
  BY <1>4
<1> DEFINE V == U \ {u}
<1>6. V \in FiniteSubsetsOf(S)
  BY <1>4, <1>5, FS_Subset DEF FiniteSubsetsOf
<1>7. V \notin Bad
  <2>1. <<V, U>> \in StrictSubsetOrdering(S)
    BY <1>4, <1>5 DEF StrictSubsetOrdering
  <2>. QED BY <1>3, <2>1
<1>8. V # {}
  BY <1>5
<1>9. PICK g \in V : Greatest(V, g)
  BY <1>6, <1>7, <1>8
<1>10. Greatest(U, g) \/ Greatest(U, u)
  BY <1>4, <1>5, <1>9
<1>. QED BY <1>5, <1>9, <1>10

\* ORDER BY effective_at DESC, indexed_at DESC NULLS LAST, uri DESC is a total order of
\* the answers, and its first is one of the newest.
LEMMA AnswersOrdered ==
    ASSUME Tables, NEW award
    PROVE  /\ IsFiniteSet(Answers(award))
           /\ \A x, y \in Answers(award) : x # y => AnswersLater(x, y) \/ AnswersLater(y, x)
           /\ \A x, y, z \in Answers(award) :
                  AnswersLater(x, y) /\ AnswersLater(y, z) => AnswersLater(x, z)
           /\ \A x, y \in Answers(award) : AnswersLater(x, y) => EffectiveAt(y) <= EffectiveAt(x)
<1>1. Answers(award) \subseteq db
  BY DEF Answers, Of
<1>2. \A x \in Answers(award) : /\ EffectiveAt(x) \in Int /\ x.uri \in Int
                               /\ x.indexed \in Int \cup {None}
  BY <1>1, InstantType DEF Answers
<1>3. \A x, y \in Answers(award) : x.uri = y.uri => x = y
  BY <1>1 DEF Tables
<1>4. IsFiniteSet(Answers(award))
  BY <1>1, CatalogsAssumption, FS_Subset DEF Tables
<1>5. \A x, y \in Answers(award) : x # y => AnswersLater(x, y) \/ AnswersLater(y, x)
  BY <1>2, <1>3 DEF AnswersLater
<1>6. \A x, y, z \in Answers(award) :
          AnswersLater(x, y) /\ AnswersLater(y, z) => AnswersLater(x, z)
  BY <1>2 DEF AnswersLater
<1>7. \A x, y \in Answers(award) : AnswersLater(x, y) => EffectiveAt(y) <= EffectiveAt(x)
  BY <1>2 DEF AnswersLater
<1>. QED BY <1>4, <1>5, <1>6, <1>7

LEMMA FirstAnswer ==
    ASSUME Tables, NEW award, Answers(award) # {}
    PROVE  \E first \in Answers(award) : \A q \in Answers(award) \ {first} : AnswersLater(first, q)
<1> DEFINE A == Answers(award)
           R == {p \in A \X A : AnswersLater(p[1], p[2])}
<1>1. \A x, y \in A : <<x, y>> \in R <=> AnswersLater(x, y)
  OBVIOUS
<1>2. IsFiniteSet(A)
  BY AnswersOrdered
<1>3. \A x, y \in A : x # y => <<x, y>> \in R \/ <<y, x>> \in R
  BY <1>1, AnswersOrdered
<1>4. \A x, y, z \in A : <<x, y>> \in R /\ <<y, z>> \in R => <<x, z>> \in R
  BY <1>1, AnswersOrdered
<1>5. A # {}
  OBVIOUS
<1> HIDE DEF R, A
<1>6. \E first \in A : \A q \in A \ {first} : <<first, q>> \in R
  BY <1>2, <1>3, <1>4, <1>5, FiniteHasGreatest
<1>. QED BY <1>1, <1>6 DEF A

Newest(award) ==
    {r \in Answers(award) : \A q \in Answers(award) : EffectiveAt(q) <= EffectiveAt(r)}

\* An answer that precedes all others is one of the newest.
LEMMA FirstIsNewest ==
    ASSUME Tables, NEW award, NEW r \in Answers(award),
           \A q \in Answers(award) \ {r} : AnswersLater(r, q)
    PROVE  r \in Newest(award)
<1>1. EffectiveAt(r) \in Int
  BY InstantType DEF Answers, Of
<1>2. \A q \in Answers(award) \ {r} : EffectiveAt(q) <= EffectiveAt(r)
  BY AnswersOrdered
<1>. QED BY <1>1, <1>2 DEF Newest

\* The newest answers of the subject decide on an award, in whatever order the answers
\* were indexed.
THEOREM NewestDecides == Spec => []NewestAnswerDecides
<1>1. ASSUME Tables, NEW award \in Of("award"), Answers(award) # {},
             \A r \in Newest(award) : r.body.answer = "rejected"
      PROVE  award \notin ValidEndorsementAwards
  <2>1. PICK first \in Answers(award) :
            \A q \in Answers(award) \ {first} : AnswersLater(first, q)
    BY <1>1, FirstAnswer
  <2>2. first.body.answer = "rejected"
    BY <1>1, <2>1, FirstIsNewest
  <2>. QED BY <2>1, <2>2 DEF Rejected, ValidEndorsementAwards
<1>2. ASSUME Tables, NEW award \in Of("award"),
             \A r \in Newest(award) : r.body.answer # "rejected"
      PROVE  ~ Rejected(award)
  BY <1>2, FirstIsNewest DEF Rejected
<1>3. Tables => NewestAnswerDecides
  BY <1>1, <1>2 DEF NewestAnswerDecides, Newest
<1>. QED BY <1>3, TablesKept, PTL
-----------------------------------------------------------------------------
(* Who has a say. *)

Readers == Evaluators \cup RequestedScope

Touched == (db \ db') \cup (db' \ db)

\* Nobody whom the request consults, before or after the step, has written, or only
\* what no award refers to.
OnlyOutsiders ==
    \A r \in Touched : r.did \notin Consulted \cup Consulted' \/ (Stale(r) /\ Stale(r)')

LEMMA ConsultedUntouched ==
    ASSUME OnlyOutsiders, NEW r, r.did \in Consulted \/ r.did \in Consulted',
           ~ Stale(r) \/ ~ Stale(r)'
    PROVE  r \in db' <=> r \in db
BY DEF OnlyOutsiders, Touched

LEMMA SameBaseAuthors ==
    ASSUME OnlyOutsiders
    PROVE  BaseAuthors' = BaseAuthors
<1>1. \A r : r.did = Viewer /\ r.col = "follow" => (r \in db' <=> r \in db)
  BY ConsultedUntouched DEF Consulted, Stale
<1>2. {f \in Of("follow") : f.did = Viewer /\ f.json}' = {f \in Of("follow") : f.did = Viewer /\ f.json}
  BY <1>1 DEF Of
<1>. QED BY <1>2 DEF BaseAuthors

\* The badge an award refers to is not stale, and its author is consulted.
LEMMA SameDefinitions ==
    ASSUME OnlyOutsiders, NEW w, w \in Of("award"), w \in Of("award")', w.json,
           NEW d, Ref(d) = w.body.badge
    PROVE  d \in Of("definition")' <=> d \in Of("definition")
<1>1. d.col = "definition" => ~ Stale(d)
  BY DEF Stale
<1>2. ASSUME d \in Of("definition") PROVE d \in db'
  BY <1>1, <1>2, ConsultedUntouched DEF Consulted, Of
<1>3. ASSUME d \in Of("definition")' PROVE d \in db
  BY <1>1, <1>3, ConsultedUntouched DEF Consulted, Of
<1>. QED BY <1>2, <1>3 DEF Of

\* Only the subject answers, and whoever an award of a reader endorses is consulted.
LEMMA SameAward ==
    ASSUME OnlyOutsiders, NEW w, w.did \in Readers, w.did \in Readers'
    PROVE  w \in ValidEndorsementAwards' <=> w \in ValidEndorsementAwards
<1>1. w \in Of("award")' <=> w \in Of("award")
  BY ConsultedUntouched DEF Consulted, Readers, Of, Stale
<1>2. ASSUME w \in Of("award"), w.json
      PROVE  Answers(w)' = Answers(w)
  <2>1. w.body.subject \in Consulted
    BY <1>2 DEF Consulted, Readers
  <2>2. ASSUME NEW r, r.did = w.body.subject, r.col = "response", r.json, r.body.award = Ref(w)
        PROVE  r \in db' <=> r \in db
    <3>1. ~ Stale(r)
      BY <1>2, <2>2 DEF Stale
    <3>. QED BY <2>1, <2>2, <3>1, ConsultedUntouched
  <2>. QED BY <2>2 DEF Answers, Of, Timed, EffectiveAt, Created, Ref
<1>3. ASSUME w \in Of("award"), w.json
      PROVE  Rejected(w)' <=> Rejected(w)
  BY <1>2, <1>3 DEF Rejected, AnswersLater, EffectiveAt, Created
<1>4. ASSUME w \in Of("award"), w.json, NEW d, Ref(d) = w.body.badge
      PROVE  d \in Of("definition")' <=> d \in Of("definition")
  BY <1>1, <1>4, SameDefinitions
<1>. QED BY <1>1, <1>3, <1>4 DEF ValidEndorsementAwards, MayIssue, Ref

LEMMA SameScope ==
    ASSUME OnlyOutsiders
    PROVE  RequestedScope' = RequestedScope
<1>1. \A w : w.did \in Evaluators =>
          (w \in ValidEndorsementAwards' <=> w \in ValidEndorsementAwards)
  BY SameAward DEF Readers
<1>2. {w \in ValidEndorsementAwards : w.did \in Evaluators}'
          = {w \in ValidEndorsementAwards : w.did \in Evaluators}
  BY <1>1
<1>3. EvaluatorEndorsements' = EvaluatorEndorsements
  BY <1>2 DEF EvaluatorEndorsements
<1>. QED BY <1>3, SameBaseAuthors DEF RequestedScope

\* The labels that count are of organizations and from trusted labelers.
OnlyIdleLabels ==
    \A l \in (labels \ labels') \cup (labels' \ labels) : ~ Counts(l) /\ ~ Counts(l)'

\* The labels behind ActiveQualities.
ActiveLabels(did) ==
    {l \in labels :
        /\ l.uri = did
        /\ l.src \in Labelers
        /\ l.val \in KnownQualities
        /\ l.dated
        /\ l.exp # None => l.exp > now}

LEMMA SameQuality ==
    ASSUME OnlyOutsiders, OnlyIdleLabels, UNCHANGED now, NEW did \in RequestedScope
    PROVE  QualityAdmits(did)' <=> QualityAdmits(did)
<1>1. IsOrganization(did)' <=> IsOrganization(did)
  <2>1. \A r : r.did = did /\ r.col = "organization" => (r \in db' <=> r \in db)
    BY ConsultedUntouched DEF Consulted, Stale
  <2>. QED BY <2>1 DEF IsOrganization, Of
<1>2. CASE ~ IsOrganization(did)
  BY <1>1, <1>2 DEF QualityAdmits
<1>3. CASE IsOrganization(did)
  <2>1. ASSUME NEW l, l.uri = did, l.src \in Labelers
        PROVE  l \in labels' <=> l \in labels
    <3>1. Counts(l)
      BY <1>3, <2>1 DEF Counts
    <3>. QED BY <3>1 DEF OnlyIdleLabels
  <2>2. ActiveQualities(did)' = ActiveQualities(did)
    <3>1. ASSUME NEW l PROVE l \in ActiveLabels(did)' <=> l \in ActiveLabels(did)
      BY <2>1 DEF ActiveLabels
    <3>2. ActiveLabels(did)' = ActiveLabels(did)
      <4>1. ActiveLabels(did) \subseteq labels /\ ActiveLabels(did)' \subseteq labels'
        BY DEF ActiveLabels
      <4>. QED BY <3>1, <4>1
    <3>3. /\ ActiveQualities(did) = {l.val : l \in ActiveLabels(did)}
          /\ ActiveQualities(did)' = {l.val : l \in ActiveLabels(did)'}
      BY Zenon DEF ActiveQualities, ActiveLabels
    <3>. QED BY <3>2, <3>3
  <2>. QED BY <1>1, <2>2 DEF QualityAdmits
<1>. QED BY <1>2, <1>3

LEMMA SameResolvedScope ==
    ASSUME OnlyOutsiders, OnlyIdleLabels, UNCHANGED now
    PROVE  ResolvedScope' = ResolvedScope
BY SameScope, SameQuality DEF ResolvedScope

LEMMA OutsiderStep ==
    ASSUME OnlyOutsiders, OnlyIdleLabels, UNCHANGED now
    PROVE  UNCHANGED Events
<1>1. ASSUME NEW r, r.did \in ResolvedScope
      PROVE  /\ r.col \in FeedCollections => (r \in db' <=> r \in db)
             /\ r \in ValidEndorsementAwards' <=> r \in ValidEndorsementAwards
  <2>1. r.did \in Readers /\ r.did \in Readers'
    BY <1>1, SameScope DEF Readers, ResolvedScope
  <2>2. r.col \in FeedCollections => ~ Stale(r)
    BY DEF FeedCollections, Stale
  <2>3. r.did \in Consulted
    BY <2>1 DEF Consulted, Readers
  <2>4. r.col \in FeedCollections => (r \in db' <=> r \in db)
    BY <2>2, <2>3, ConsultedUntouched
  <2>. QED BY <2>1, <2>4, SameAward
<1>2. ProjectPairs' = ProjectPairs
  <2>1. ASSUME NEW c, NEW a PROVE <<c, a>> \in ProjectPairs' <=> <<c, a>> \in ProjectPairs
    BY <1>1, SameResolvedScope
    DEF ProjectPairs, FeedCollections, Of, Timed, Close, EffectiveAt, Created, Ref
  <2>2. /\ ProjectPairs \subseteq Of("collection") \X Of("activity")
        /\ ProjectPairs' \subseteq Of("collection")' \X Of("activity")'
    BY DEF ProjectPairs
  <2>. QED BY <2>1, <2>2
<1>3. PairedCollections' = PairedCollections /\ PairedActivities' = PairedActivities
  BY <1>2 DEF PairedCollections, PairedActivities
<1>4. EligibleRecords' = EligibleRecords
  BY <1>1, <1>3, SameResolvedScope DEF EligibleRecords, Timed, EffectiveAt, Created
<1>5. \A r : Event(r)' = Event(r)
  BY <1>3 DEF Event, Kind, EffectiveAt, Created
<1>. QED BY <1>4, <1>5 DEF Events

\* No write of an account the request does not consult, no answer or badge of a version
\* that no award refers to, and no label of a labeler who is not trusted or of a person,
\* changes the feed.
THEOREM OutsidersChangeNothing == Spec => OutsidersHaveNoSay
<1>1. ( /\ UNCHANGED now
        /\ \A r \in (db \ db') \cup (db' \ db) :
              r.did \notin Consulted \cup Consulted' \/ (Stale(r) /\ Stale(r)')
        /\ \A l \in (labels \ labels') \cup (labels' \ labels) : ~ Counts(l) /\ ~ Counts(l)' )
      => UNCHANGED Events
  BY OutsiderStep DEF OnlyOutsiders, Touched, OnlyIdleLabels
<1>. QED BY <1>1, PTL DEF OutsidersHaveNoSay
=============================================================================
