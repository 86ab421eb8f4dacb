----------------------- MODULE MaearthSelectionProofs -----------------------
(***************************************************************************)
(* For whatever anybody publishes and every viewer: what the two scans of  *)
(* maearth-query.sql find, that no row breaks a page, and what a write or  *)
(* the clock may change of the answers.                                    *)
(***************************************************************************)
EXTENDS MaearthSelection, TLAPS

(* The scans. *)

\* A record that meets the conditions and is not a member's was found by its target.
LEMMA AdmittedHitsTarget ==
    ASSUME NEW r, r.col \in Kinds, Admitted(r), r.did \notin Members
    PROVE  HasTargets(r.col) /\ HitsTarget(r)
<1>1. r.did \notin FollowedAccounts /\ Parses(r)
  BY DEF Members, Admitted, Sound, Parses
<1>2. CASE r.col = "attachment"
  BY <1>1, <1>2 DEF Admitted, PostAdmitted, HasTargets, HitsTarget
<1>3. CASE r.col = "entityFollow"
  BY <1>1, <1>3 DEF Admitted, ProjectFollowAdmitted, HasTargets, HitsTarget, FollowedProjectUris
<1>4. CASE r.col = "follow"
  BY <1>1, <1>4 DEF Admitted, AccountFollowAdmitted, HasTargets, HitsTarget
<1>5. CASE r.col = "repost"
  BY <1>1, <1>5 DEF Admitted, RepostAdmitted
<1>. QED BY <1>2, <1>3, <1>4, <1>5 DEF Kinds

\* UNION ALL of the two scans is a union, and keeps every record that is wanted and
\* meets the conditions, whatever the actor and the kinds asked for.
LEMMA ScansShareTheWork ==
    ASSUME NEW actor, NEW kinds
    PROVE  /\ AuthorRows(actor, kinds) \cap TargetRows(actor, kinds) = {}
           /\ \A r \in db : Wants(r, actor, kinds) /\ Admitted(r) =>
                  r \in AuthorRows(actor, kinds) \cup TargetRows(actor, kinds)
           /\ \A r \in AuthorRows(actor, kinds) \cup TargetRows(actor, kinds) :
                  r \in db /\ Wants(r, actor, kinds)
<1>1. AuthorRows(actor, kinds) \cap TargetRows(actor, kinds) = {}
  BY DEF AuthorRows, TargetRows
<1>2. ASSUME NEW r \in db, Wants(r, actor, kinds), Admitted(r)
      PROVE  r \in AuthorRows(actor, kinds) \cup TargetRows(actor, kinds)
  <2>1. CASE r.did \in Members
    BY <1>2, <2>1 DEF AuthorRows
  <2>2. CASE r.did \notin Members
    <3>1. r.col \in Kinds
      BY <1>2 DEF Wants
    <3>. QED BY <1>2, <2>2, <3>1, AdmittedHitsTarget DEF TargetRows
  <2>. QED BY <2>1, <2>2
<1>3. \A r \in AuthorRows(actor, kinds) \cup TargetRows(actor, kinds) :
          r \in db /\ Wants(r, actor, kinds)
  BY DEF AuthorRows, TargetRows
<1>. QED BY <1>1, <1>2, <1>3

\* The events, without the scans: of a request, and of all.
Shown(r) == Admitted(r) /\ Visible(r)

LEMMA EventsOfRequest ==
    ASSUME NEW actor, NEW kinds
    PROVE  Events(actor, kinds) =
              {Event(r) : r \in {c \in db : Wants(c, actor, kinds) /\ Shown(c)}}
BY ScansShareTheWork DEF Events, Shown

LEMMA EventOfRow ==
    \A e : e \in AllEvents <=> \E r \in db : r.col \in Kinds /\ Shown(r) /\ e = Event(r)
BY EventsOfRequest DEF AllEvents, Wants
-----------------------------------------------------------------------------
(* Types. *)

LEMMA InstantInRange ==
    ASSUME NEW r \in Catalog, now \in Int, Visible(r)
    PROVE  EffectiveAt(r) \in Floor .. now + Skew
BY CatalogAssumption, ClockAssumption DEF Visible, EffectiveAt

LEMMA EventsInRange ==
    ASSUME db \subseteq Catalog, now \in Int
    PROVE  \A e \in AllEvents : e.at \in Floor .. now + Skew
BY EventOfRow, InstantInRange DEF Shown, Event

\* TypeOK but for the events, which follow.
Tables ==
    /\ db \subseteq Catalog
    /\ \A r, q \in db : r.uri = q.uri => r = q
    /\ now \in 0 .. LastNow

LEMMA TablesStep ==
    ASSUME Tables, [Next]_vars
    PROVE  Tables'
<1>1. ASSUME NEW r \in Catalog, Write(r) PROVE Tables'
  BY <1>1 DEF Write, Tables
<1>2. ASSUME NEW r \in Catalog, Delete(r) PROVE Tables'
  BY <1>2 DEF Delete, Tables
<1>3. CASE Tick
  BY <1>3, ClockAssumption DEF Tick, Tables
<1>4. CASE UNCHANGED vars
  BY <1>4 DEF vars, Tables
<1>. QED BY <1>1, <1>2, <1>3, <1>4 DEF Next

LEMMA TablesKept == Spec => []Tables
<1>1. Init => Tables
  BY ClockAssumption DEF Init, Tables
<1>. QED BY <1>1, TablesStep, PTL DEF Spec

\* The tables are well typed, and every instant of an event can be rendered, read
\* again as a cursor, and does not lie in the future.
THEOREM TypeCorrect == Spec => []TypeOK
<1>1. Tables => TypeOK
  BY EventsInRange, ClockAssumption DEF Tables, TypeOK
<1>. QED BY <1>1, TablesKept, PTL

\* The scan by author and the scan by target share every request's work without a gap
\* or an overlap.
THEOREM EveryRecordFoundOnce == Spec => []FoundOnce
<1>1. FoundOnce
  BY ScansShareTheWork DEF FoundOnce
<1>. QED BY <1>1, PTL
-----------------------------------------------------------------------------
(* No row breaks a page. *)

\* What the query admits as a kind's target, rowTarget of maearth.ts accepts.
LEMMA TargetIsWellFormed ==
    ASSUME db \subseteq Catalog, NEW r \in db, r.col \in Kinds, Admitted(r)
    PROVE  HasOwnTarget(Event(r))
<1> DEFINE e == Event(r)
<1>1. /\ e.kind = r.col
      /\ e.repost = IF r.col = "repost" THEN r.body.subject ELSE None
      /\ e.project = IF r.col = "entityFollow" THEN r.body.subject ELSE None
      /\ e.account = IF r.col = "follow" THEN r.body.subject ELSE None
  BY DEF Event
<1> SUFFICES HasOwnTarget(e)
  OBVIOUS
<1> HIDE DEF e
<1>2. CASE r.col = "attachment"
  BY <1>1, <1>2 DEF HasOwnTarget
<1>3. CASE r.col = "entityFollow"
  \* The project was looked up, and so has the URI of a record.
  <2>1. PICK p \in db : p.uri = r.body.subject
    BY <1>3
    DEF Admitted, ProjectFollowAdmitted, FollowedProjectUris, FollowedProjects, Projects
  <2>2. r.body.subject \in ProjectUris \ Misshapen
    BY <1>3, <2>1, CatalogAssumption DEF Admitted, ProjectFollowAdmitted
  <2>. QED BY <1>1, <1>3, <2>2 DEF HasOwnTarget, IsRecordUri
<1>4. CASE r.col = "follow"
  BY <1>1, <1>4 DEF HasOwnTarget, Admitted, AccountFollowAdmitted
<1>5. CASE r.col = "repost"
  BY <1>1, <1>5 DEF HasOwnTarget, IsRecordUri, Admitted, RepostAdmitted
<1>. QED BY <1>2, <1>3, <1>4, <1>5 DEF Kinds

\* Nothing that anybody publishes turns the viewer's feed into HTTP 500.
THEOREM FeedUnbroken == Spec => []NobodyBreaksTheFeed
<1>1. Tables => NobodyBreaksTheFeed
  BY EventOfRow, TargetIsWellFormed DEF Tables, NobodyBreaksTheFeed, PageFails, Shown
<1>. QED BY <1>1, TablesKept, PTL
-----------------------------------------------------------------------------
(* What a step may change of the answers. *)

\* The follows that count.
DirectGraph == {r \in ViewerGraph : Direct(r)}

\* All that the selection reads of other records are these two sets.
SameScope == DirectGraph' = DirectGraph /\ Projects' = Projects

LEMMA ScopeDecides ==
    ASSUME SameScope
    PROVE  /\ FollowedAccounts' = FollowedAccounts
           /\ Members' = Members
           /\ FollowedProjects' = FollowedProjects
           /\ FollowedProjectUris' = FollowedProjectUris
           /\ ProjectSubjectUris' = ProjectSubjectUris
<1>1. FollowedAccounts' = FollowedAccounts
  <2>1. FollowedAccounts = {r.body.subject : r \in {g \in DirectGraph : g.col = "follow"}}
                              \cap (Dids \ Misshapen)
    BY DEF FollowedAccounts, DirectGraph
  <2>2. FollowedAccounts' = {r.body.subject : r \in {g \in DirectGraph' : g.col = "follow"}}
                               \cap (Dids \ Misshapen)
    BY DEF FollowedAccounts, DirectGraph
  <2>. QED BY <2>1, <2>2 DEF SameScope
<1>2. FollowedProjectCandidates' = FollowedProjectCandidates
  <2>1. FollowedProjectCandidates =
            {r.body.subject : r \in {g \in DirectGraph : g.col = "entityFollow"}} \cap ProjectUris
    BY DEF FollowedProjectCandidates, DirectGraph
  <2>2. FollowedProjectCandidates' =
            {r.body.subject : r \in {g \in DirectGraph' : g.col = "entityFollow"}} \cap ProjectUris
    BY DEF FollowedProjectCandidates, DirectGraph
  <2>. QED BY <2>1, <2>2 DEF SameScope
<1>3. FollowedProjects' = FollowedProjects
  BY <1>2 DEF FollowedProjects, SameScope
<1>4. FollowedProjectUris' = FollowedProjectUris
  BY <1>3 DEF FollowedProjectUris
<1>5. ProjectSubjectUris' = ProjectSubjectUris
  BY <1>3, <1>4 DEF ProjectSubjectUris
<1>. QED BY <1>1, <1>3, <1>4, <1>5 DEF Members

LEMMA SameAdmission ==
    ASSUME SameScope, NEW r, r.col \in Kinds
    PROVE  Admitted(r)' <=> Admitted(r)
<1>1. CASE r.col = "attachment"
  BY <1>1, ScopeDecides DEF Admitted, PostAdmitted
<1>2. CASE r.col = "entityFollow"
  BY <1>2, ScopeDecides DEF Admitted, ProjectFollowAdmitted, SameScope
<1>3. CASE r.col = "follow"
  BY <1>3, ScopeDecides DEF Admitted, AccountFollowAdmitted
<1>4. CASE r.col = "repost"
  BY <1>4, ScopeDecides DEF Admitted, RepostAdmitted
<1>. QED BY <1>1, <1>2, <1>3, <1>4 DEF Kinds

\* An event says nothing of the tables, only whether it is shown depends on them.
LEMMA EventFixed ==
    ASSUME NEW r
    PROVE  Event(r)' = Event(r) /\ EffectiveAt(r)' = EffectiveAt(r)
BY DEF Event, EffectiveAt

LEMMA EventOfRowAfter ==
    \A e : e \in AllEvents' <=> \E r \in db' : r.col \in Kinds /\ Shown(r)' /\ e = Event(r)
<1>1. (\A e : e \in AllEvents <=> \E r \in db : r.col \in Kinds /\ Shown(r) /\ e = Event(r))'
  BY EventOfRow, PTL
<1>. QED BY <1>1, EventFixed

LEMMA SameShown ==
    ASSUME SameScope, now' = now, NEW r, r.col \in Kinds
    PROVE  Shown(r)' <=> Shown(r)
BY SameAdmission, EventFixed DEF Shown, Visible

LEMMA MediatedStep ==
    ASSUME UNCHANGED now,
           \A r \in Changed : r.col \in {"follow", "entityFollow"} /\ r.body.mediated
    PROVE  UNCHANGED AllEvents
<1>1. DirectGraph' = DirectGraph
  BY DEF DirectGraph, ViewerGraph, Direct, Changed
<1>2. Projects' = Projects
  BY DEF Projects, Changed
<1>3. SameScope
  BY <1>1, <1>2 DEF SameScope
<1>4. ASSUME NEW r \in Changed, r.col \in Kinds PROVE ~ Shown(r) /\ ~ Shown(r)'
  <2>1. ~ Admitted(r)
    BY <1>4 DEF Admitted, ProjectFollowAdmitted, AccountFollowAdmitted, Direct
  <2>. QED BY <1>3, <1>4, <2>1, SameAdmission DEF Shown
<1>5. ASSUME NEW r, r.col \in Kinds
      PROVE  r \in db' /\ Shown(r)' <=> r \in db /\ Shown(r)
  BY <1>3, <1>4, <1>5, SameShown DEF Changed
<1>6. \A e : e \in AllEvents' <=> e \in AllEvents
  BY <1>5, EventOfRow, EventOfRowAfter
<1>. QED BY <1>6

\* No mediated follow, whoever publishes it, the viewer included, changes an answer.
THEOREM MediatedFollowsChangeNothing == Spec => MediatedFollowsAreSilent
<1>1. ( /\ UNCHANGED now
        /\ \A r \in Changed : r.col \in {"follow", "entityFollow"} /\ r.body.mediated )
      => UNCHANGED AllEvents
  BY MediatedStep
<1>. QED BY <1>1, PTL DEF MediatedFollowsAreSilent

Others(events) == {e \in events : \A r \in Changed : e.actor # r.did}

LEMMA StrangerStep ==
    ASSUME UNCHANGED now,
           \A r \in Changed : r.did \notin Members \cup Members' /\ r.col # "collection"
    PROVE  Others(AllEvents') = Others(AllEvents)
<1>1. DirectGraph' = DirectGraph
  BY DEF DirectGraph, ViewerGraph, Members, Changed
<1>2. Projects' = Projects
  BY DEF Projects, Changed
<1>3. SameScope
  BY <1>1, <1>2 DEF SameScope
<1>4. ASSUME NEW e, \A r \in Changed : e.actor # r.did
      PROVE  e \in AllEvents' <=> e \in AllEvents
  <2>1. ASSUME NEW r, r.col \in Kinds, e = Event(r)
        PROVE  r \in db' /\ Shown(r)' <=> r \in db /\ Shown(r)
    <3>1. r \notin Changed
      BY <1>4, <2>1 DEF Event
    <3>. QED BY <1>3, <2>1, <3>1, SameShown DEF Changed
  <2>. QED BY <2>1, EventOfRow, EventOfRowAfter
<1>. QED BY <1>4 DEF Others

\* Whoever the viewer does not follow changes no event but his own.
THEOREM StrangersHaveTheirOwn == Spec => StrangersSpeakForThemselves
<1>1. ( /\ UNCHANGED now
        /\ \A r \in Changed : r.did \notin Members \cup Members' /\ r.col # "collection" )
      => Others(AllEvents') = Others(AllEvents)
  BY StrangerStep
<1>. QED BY <1>1, PTL DEF StrangersSpeakForThemselves, Others

LEMMA TimeStep ==
    ASSUME Tables, [Next]_vars, db' = db
    PROVE  /\ AllEvents \subseteq AllEvents'
           /\ \A e \in AllEvents' \ AllEvents : e.at > now + Skew
<1>1. now \in Int /\ now' \in Int /\ now' >= now
  BY ClockAssumption DEF Tables, Next, Write, Delete, Tick, vars
<1>2. DirectGraph' = DirectGraph
  BY DEF DirectGraph, ViewerGraph
<1>3. Projects' = Projects
  BY DEF Projects
<1>4. SameScope
  BY <1>2, <1>3 DEF SameScope
<1>5. ASSUME NEW r \in db PROVE EffectiveAt(r) \in Int \cup {None}
  BY CatalogAssumption DEF Tables, EffectiveAt
<1>6. ASSUME NEW r \in db, r.col \in Kinds, Shown(r) PROVE Shown(r)'
  BY <1>1, <1>4, <1>5, <1>6, SameAdmission, EventFixed, ClockAssumption DEF Shown, Visible
<1>7. ASSUME NEW r \in db, r.col \in Kinds, Shown(r)', ~ Shown(r)
      PROVE  EffectiveAt(r) > now + Skew
  BY <1>1, <1>4, <1>5, <1>7, SameAdmission, EventFixed, ClockAssumption DEF Shown, Visible
<1>8. AllEvents \subseteq AllEvents'
  BY <1>6, EventOfRow, EventOfRowAfter
<1>9. ASSUME NEW e \in AllEvents' \ AllEvents PROVE e.at > now + Skew
  <2>1. PICK r \in db : r.col \in Kinds /\ Shown(r)' /\ e = Event(r)
    BY <1>9, EventOfRowAfter
  <2>2. ~ Shown(r)
    BY <1>9, <2>1, EventOfRow
  <2>. QED BY <1>7, <2>1, <2>2 DEF Event
<1>. QED BY <1>8, <1>9

\* The clock takes no event away and moves none; it shows what lay beyond the skew.
THEOREM TimeOnlyReveals == Spec => NeverRedated
<1>1. Tables /\ [Next]_vars =>
          (db' = db => /\ AllEvents \subseteq AllEvents'
                       /\ \A e \in AllEvents' \ AllEvents : e.at > now + Skew)
  BY TimeStep
<1>. QED BY <1>1, TablesKept, PTL DEF Spec, NeverRedated
=============================================================================
