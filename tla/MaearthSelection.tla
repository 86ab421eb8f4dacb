-------------------------- MODULE MaearthSelection --------------------------
(***************************************************************************)
(* What the MaEarth feed selects for one viewer, named query by named      *)
(* query of src/src/feed/maearth-query.sql, while HappyView writes,        *)
(* rewrites and deletes records.                                           *)
(*                                                                         *)
(* A record is [uri, did, col, text, created, indexed, body].  `text' says *)
(* whether the record's JSON is "sound", is "mistyped" (its $type is not   *)
(* its collection) or is "broken"; `created' and `indexed' are instants,   *)
(* or None where the query's guards reject them; `body' holds what the     *)
(* query reads in that collection.  A subject outside Dids, ProjectUris,   *)
(* ActivityUris or PostUris is one the query's patterns reject there;      *)
(* Misshapen are those the patterns admit and the strict parsers of the    *)
(* lexicon reject, being too long or having "." or ".." as record key.     *)
(* No indexed record has a misshapen URI.                                  *)
(* A kind is named by its collection.                                      *)
(***************************************************************************)
EXTENDS Integers

CONSTANTS
    Catalog,          \* the record versions that can be indexed
    Dids,
    Viewer,           \* $1
    ProjectUris,      \* at-uris of org.hypercerts.collection
    ActivityUris,     \* at-uris of org.hypercerts.claim.activity
    PostUris,         \* at-uris of org.hypercerts.context.attachment
    Misshapen,        \* DIDs and URIs only the patterns admit
    Floor,            \* min_effective_at, the first instant of year 1
    Skew,             \* five minutes
    LastNow,          \* bound of the database clock
    None              \* an absent actorDid; an instant absent or not valid

ASSUME CatalogAssumption ==
    \A r \in Catalog :
        /\ r.created \in Int \cup {None}
        /\ r.indexed \in Int \cup {None}
        /\ r.uri \notin Misshapen

ASSUME ClockAssumption == Floor \in Int /\ Skew \in Nat /\ LastNow \in Nat

VARIABLES
    db,               \* happyview_records
    now               \* the database clock, statement_timestamp()

vars == <<db, now>>

Kinds == {"attachment", "entityFollow", "follow", "repost"}

Sound(r) == r.text = "sound"
Parses(r) == r.text # "broken"
-----------------------------------------------------------------------------
(* The viewer's scope. *)

\* Slip: the follows of everybody are the viewer's.
EverybodysGraph == {r \in db : r.col \in {"follow", "entityFollow"} /\ Sound(r)}

ViewerGraph ==
    {r \in db : r.did = Viewer /\ r.col \in {"follow", "entityFollow"} /\ Sound(r)}

\* Slip: any follow counts, mediated or not.
DirectOrNot(r) == TRUE

\* via is absent or null.
Direct(r) == ~ r.body.mediated

FollowedAccounts ==
    {r.body.subject : r \in {g \in ViewerGraph : g.col = "follow" /\ Direct(g)}}
        \cap (Dids \ Misshapen)

FollowedProjectCandidates ==
    {r.body.subject : r \in {g \in ViewerGraph : g.col = "entityFollow" /\ Direct(g)}}
        \cap ProjectUris

\* Current records of type project; their own $type is not read.
Projects == {r \in db : r.col = "collection" /\ Parses(r) /\ r.body.type = "project"}

FollowedProjects == {r \in Projects : r.uri \in FollowedProjectCandidates}
FollowedProjectUris == {r.uri : r \in FollowedProjects}

ProjectSubjectUris ==
    FollowedProjectUris \cup UNION {r.body.items \cap ActivityUris : r \in FollowedProjects}

Members == FollowedAccounts \cup {Viewer}
-----------------------------------------------------------------------------
(* The two scans of one request: `actor' is $2, `kinds' is $3. *)

Wants(r, actor, kinds) ==
    /\ r.col \in Kinds
    /\ kinds = {} \/ r.col \in kinds
    /\ actor = None \/ r.did = actor

HasTargets(col) ==
    CASE col = "attachment"   -> ProjectSubjectUris # {}
      [] col = "entityFollow" -> FollowedProjects # {}
      [] col = "follow"       -> FollowedAccounts # {}
      [] col = "repost"       -> FALSE

AuthorRows(actor, kinds) ==
    LET members == Members IN {r \in db : Wants(r, actor, kinds) /\ r.did \in members}

HitsTarget(r) ==
    /\ Parses(r)
    /\ CASE r.col = "attachment"   -> r.body.subjects \cap ProjectSubjectUris # {}
         [] r.col = "entityFollow" -> r.body.subject \in FollowedProjectUris
         [] r.col = "follow"       -> r.body.subject \in FollowedAccounts
         [] r.col = "repost"       -> FALSE

\* Slip: the viewer is forgotten among the members.
TargetRowsOfViewerToo(actor, kinds) ==
    {r \in db : /\ Wants(r, actor, kinds)
                /\ HasTargets(r.col)
                /\ HitsTarget(r)
                /\ r.did \notin FollowedAccounts}

TargetRows(actor, kinds) ==
    {r \in db : /\ Wants(r, actor, kinds)
                /\ HasTargets(r.col)
                /\ HitsTarget(r)
                /\ r.did \notin Members}
-----------------------------------------------------------------------------
(* The conditions on a candidate, whichever scan found it. *)

PostAdmitted(r) ==
    /\ r.body.contentType = "update"
    /\ r.did \in Members \/ r.body.subjects \cap ProjectSubjectUris # {}

\* Slip: a member's follow of a project not indexed, or no project, is an item.
FollowAdmittedUnread(r) ==
    /\ Direct(r)
    /\ r.body.subject \in ProjectUris
    /\ r.body.subject \in FollowedProjectUris \/ r.did \in FollowedAccounts

\* The URI of a followed project has the shape of a record's because the record
\* is looked up.
ProjectFollowAdmitted(r) ==
    /\ Direct(r)
    /\ r.body.subject \in ProjectUris
    /\ \/ r.body.subject \in FollowedProjectUris
       \/ r.did \in FollowedAccounts /\ \E p \in Projects : p.uri = r.body.subject

AccountFollowAdmitted(r) ==
    /\ Direct(r)
    /\ r.body.subject \in Dids \ Misshapen
    /\ {r.did, r.body.subject} \cap FollowedAccounts # {}

RepostAdmitted(r) ==
    /\ r.did \in FollowedAccounts
    /\ r.body.subject \in PostUris \ Misshapen
    /\ r.body.cid

Admitted(r) ==
    /\ Sound(r)
    /\ CASE r.col = "attachment"   -> PostAdmitted(r)
         [] r.col = "entityFollow" -> ProjectFollowAdmitted(r)
         [] r.col = "follow"       -> AccountFollowAdmitted(r)
         [] r.col = "repost"       -> RepostAdmitted(r)

\* Slip: an instant before year 1 is taken as it is.
EffectiveFromAnyYear(r) == IF r.created # None THEN r.created ELSE r.indexed

\* Slip: a future createdAt gives way to indexed_at.
EffectiveByNow(r) ==
    IF r.created # None /\ r.created >= Floor /\ r.created <= now + Skew THEN r.created
    ELSE IF r.indexed # None /\ r.indexed >= Floor THEN r.indexed ELSE None

EffectiveAt(r) ==
    IF r.created # None /\ r.created >= Floor THEN r.created
    ELSE IF r.indexed # None /\ r.indexed >= Floor THEN r.indexed ELSE None

Visible(r) == EffectiveAt(r) # None /\ EffectiveAt(r) <= now + Skew

\* The columns of a row: each kind exposes its own target.
Event(r) ==
    [uri |-> r.uri, actor |-> r.did, kind |-> r.col, at |-> EffectiveAt(r),
     repost |-> IF r.col = "repost" THEN r.body.subject ELSE None,
     project |-> IF r.col = "entityFollow" THEN r.body.subject ELSE None,
     account |-> IF r.col = "follow" THEN r.body.subject ELSE None]

\* All events of a request; the cursor then filters them.
Events(actor, kinds) ==
    {Event(r) : r \in {c \in AuthorRows(actor, kinds) \cup TargetRows(actor, kinds) :
                          Admitted(c) /\ Visible(c)}}
-----------------------------------------------------------------------------
(* The item of a row. *)

IsRecordUri(value, uris) == value \in uris \ Misshapen

\* rowTarget: the target of the kind, well formed, and no other; otherwise the
\* request fails.
HasOwnTarget(e) ==
    /\ e.repost # None => e.kind = "repost"
    /\ e.project # None => e.kind = "entityFollow"
    /\ e.account # None => e.kind = "follow"
    /\ CASE e.kind = "repost"       -> IsRecordUri(e.repost, PostUris)
         [] e.kind = "entityFollow" -> IsRecordUri(e.project, ProjectUris)
         [] e.kind = "follow"       -> e.account \in Dids \ Misshapen
         [] e.kind = "attachment"   -> TRUE

\* MaearthFeedService.getFeed: one row that breaks the invariant fails the page.
PageFails(rows) == \E e \in rows : ~ HasOwnTarget(e)
-----------------------------------------------------------------------------
(* External: the indexer, from before its backfill on. *)

Init == db = {} /\ now = 0

\* A record is created, or rewritten under its URI.
Write(r) ==
    /\ r \notin db
    /\ db' = {q \in db : q.uri # r.uri} \cup {r}
    /\ UNCHANGED now

Delete(r) ==
    /\ r \in db
    /\ db' = db \ {r}
    /\ UNCHANGED now

Tick ==
    /\ now < LastNow
    /\ now' = now + 1
    /\ UNCHANGED db

Next == (\E r \in Catalog : Write(r) \/ Delete(r)) \/ Tick

Spec == Init /\ [][Next]_vars
-----------------------------------------------------------------------------
Requests == {<<actor, kinds>> : actor \in (Dids \ Misshapen) \cup {None},
                                kinds \in {{}} \cup {{k} : k \in Kinds}}

AllEvents == Events(None, {})

\* The tables hold one version of each record; every instant of an event can be
\* rendered, read again as a cursor, and is not in the future.
TypeOK ==
    /\ db \subseteq Catalog
    /\ \A r, q \in db : r.uri = q.uri => r = q
    /\ now \in 0 .. LastNow
    /\ \A e \in AllEvents : e.at \in Floor .. now + Skew

\* No record anybody writes makes the viewer's feed fail: one follow or repost with
\* a target that the view cannot carry would turn every page it is on, and so every
\* later one, into HTTP 500 until it is deleted.
NobodyBreaksTheFeed == ~ PageFails(AllEvents)

\* The scan by author and the scan by target share the work without a gap or an
\* overlap: whatever the actor and the kinds asked for, each record that meets
\* the conditions is found by one of them, and by one only.  UNION ALL would
\* show a record found twice as two items.
FoundOnce ==
    \A q \in Requests :
        LET author == AuthorRows(q[1], q[2])
            target == TargetRows(q[1], q[2])
            admitted == {r \in db : Wants(r, q[1], q[2]) /\ Admitted(r)}
        IN  author \cap target = {} /\ admitted \subseteq author \cup target

Changed == (db \ db') \cup (db' \ db)

\* A mediated follow widens no scope and is no item: it can be written, deleted
\* or rewritten by anybody, the viewer included, and no answer changes.
MediatedFollowsAreSilent ==
    [][ ( /\ UNCHANGED now
          /\ \A r \in Changed : r.col \in {"follow", "entityFollow"} /\ r.body.mediated )
        => UNCHANGED AllEvents ]_vars

\* Whoever the viewer does not follow speaks only for himself: what he writes,
\* collections aside, changes no event of anybody else.
StrangersSpeakForThemselves ==
    [][ ( /\ UNCHANGED now
          /\ \A r \in Changed : r.did \notin Members \cup Members' /\ r.col # "collection" )
        => LET others(events) == {e \in events : \A r \in Changed : e.actor # r.did}
           IN  others(AllEvents') = others(AllEvents) ]_vars

\* Time only reveals: while no record changes, an event keeps its instant, and
\* one that appears was hidden because it lay beyond the skew.
NeverRedated ==
    [][ db' = db => /\ AllEvents \subseteq AllEvents'
                    /\ \A e \in AllEvents' \ AllEvents : e.at > now + Skew ]_vars
=============================================================================
