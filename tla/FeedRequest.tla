---------------------------- MODULE FeedRequest ----------------------------
(***************************************************************************)
(* A client of the feed procedures that mends its request as each refusal  *)
(* tells it to, until it is served: the checks of api/feed-procedure.ts,   *)
(* auth/input.ts, feed/registry.ts, sql-feed.ts, validation.ts, maearth.ts *)
(* and cursor.ts in their order, what each message advises, and who serves *)
(* the request that passes them (server.ts, hydration/router.ts).          *)
(*                                                                         *)
(* A request is [feed, ptype, viewer, actor, evaluators, kinds, quality,   *)
(* limit, cursor].  Feeds and parameter types are "hypercerts", "maearth"  *)
(* or one unknown; a DID is one of Dids or "malformed"; a quality policy   *)
(* is None or a set of categories, lists standing without their repeats;   *)
(* a cursor is None, "" (the first page), "overlong", "garbage" or the     *)
(* feed it was issued by.                                                  *)
(***************************************************************************)
EXTENDS Integers, Sequences, FiniteSets

CONSTANTS
    Requests,             \* what a client may begin with
    Dids,
    HypercertsKinds, MaearthKinds,
    Qualities,            \* ORGANIZATION_QUALITIES
    DefaultLimit, MaxLimit, MaxPage,  \* of a feed, and of the procedures' lexicon
    MaxEvaluators, MaxKinds, MaxItems, \* of the feed, and of the lexicon
    None

Fields == {"feed", "ptype", "viewer", "actor", "evaluators", "kinds", "quality", "limit", "cursor"}

\* Requests have these fields, and lists in them end.
ASSUME RequestsAssumption ==
    \A r \in Requests : DOMAIN r = Fields /\ IsFiniteSet(r.kinds) /\ IsFiniteSet(r.evaluators)

\* The default of a feed is within its limits, and these are within the lexicon's; None
\* is told apart from DIDs, cursors and tokens; there are DIDs, and each feed has kinds.
ASSUME LimitsAssumption ==
    /\ DefaultLimit \in 1 .. MaxLimit /\ MaxLimit \in Nat /\ MaxPage \in Nat
    /\ MaxLimit <= MaxPage
    /\ MaxEvaluators \in Nat /\ MaxKinds \in Nat /\ MaxItems \in Nat
    /\ None \notin Dids \cup {"overlong"} \cup [iss : Dids]
    /\ Dids # {} /\ HypercertsKinds # {} /\ MaearthKinds # {}

VARIABLES
    maearthEnabled,       \* config.maearthFeedEnabled
    caller,               \* the verified issuer of the client's tokens, or None
    request,
    phase,                \* "sending", "refused" or "served"
    refusal,              \* the answer of a refused request
    served                \* the normalized request, and its reader

vars == <<maearthEnabled, caller, request, phase, refusal, served>>

Feeds == {"hypercerts"} \cup (IF maearthEnabled THEN {"maearth"} ELSE {})

Kinds(feed) == IF feed = "maearth" THEN MaearthKinds ELSE HypercertsKinds
-----------------------------------------------------------------------------
(* The checks, each the sequence of its refusals, of which there is one or    *)
(* none: `fields' are the parts of the request that the message names.        *)

Check(fails, code, status, fields) ==
    IF fails THEN << [code |-> code, status |-> status, fields |-> fields] >> ELSE <<>>

\* External: what the lexicon of the procedures and of known parameters refuses.
\* The feeds parse their parameters by it again, with the caller for viewer.
Malformed(r) ==
    {f \in {"limit"} : r.limit # None /\ r.limit \notin 1 .. MaxPage}
    \cup {f \in {"cursor"} : r.cursor = "overlong"}
    \cup {f \in {"viewer"} : r.ptype \in {"hypercerts", "maearth"} /\ r.viewer \notin Dids \cup {None}}
    \cup {f \in {"kinds"} : r.ptype \in {"hypercerts", "maearth"} /\ Cardinality(r.kinds) > MaxItems}
    \cup {f \in {"actor"} : r.ptype = "maearth" /\ r.actor \notin Dids \cup {None}}
    \cup {f \in {"evaluators"} : r.ptype = "hypercerts" /\
              (~ r.evaluators \subseteq Dids \/ Cardinality(r.evaluators) > MaxItems)}

\* Slip: the viewer of the body is kept, whoever calls.
BodyViewer(r) == r.viewer

\* applyAuthenticatedViewer: the verified caller is the viewer.
BoundViewer(r) ==
    IF caller = None \/ r.ptype \notin {"hypercerts", "maearth"} THEN r.viewer ELSE caller

ViewerChecks(r) ==
    LET scoped == r.ptype \in {"hypercerts", "maearth"} IN
    Check(scoped /\ caller = None /\ r.viewer = None, "InvalidRequest", 400, {"viewer"})
    \o Check(scoped /\ caller # None /\ r.viewer \notin {None, caller},
             "InvalidRequest", 400, {"viewer"})

\* FeedRegistry.loadPage, and the same checks again in sql-feed.
RegistryChecks(r) ==
    Check(r.feed \notin Feeds, "UnsupportedFeed", 400, {"feed"})
    \o Check(r.ptype # r.feed, "InvalidRequest", 400, {"ptype"})

LimitOf(r) == IF r.limit = None THEN DefaultLimit ELSE r.limit

LimitCheck(r) == Check(LimitOf(r) \notin 1 .. MaxLimit, "InvalidRequest", 422, {"limit"})

UnknownKinds(r) == r.kinds \ Kinds(r.feed)

KindsCheck(r) == Check(UnknownKinds(r) # {}, "InvalidRequest", 422, {"kinds"})

\* normalizeFeedRequest.
HypercertsChecks(r) ==
    Check(Cardinality(r.evaluators) > MaxEvaluators, "InvalidRequest", 422, {"evaluators"})
    \o Check(Cardinality(r.kinds) > MaxKinds, "InvalidRequest", 422, {"kinds"})
    \o KindsCheck(r)
    \o Check(r.quality # None /\ ~ r.quality \subseteq Qualities,
             "InvalidRequest", 422, {"quality"})
    \o LimitCheck(r)

\* normalize of the MaEarth feed.
MaearthChecks(r) == LimitCheck(r) \o KindsCheck(r)

FeedChecks(r) == IF r.feed = "maearth" THEN MaearthChecks(r) ELSE HypercertsChecks(r)

\* The request asks for the page behind a position.
Positioned(r) == r.cursor \notin {None, ""}

\* Slip: a position of any feed will do.
CursorOfAnyFeed(r) ==
    Check(Positioned(r) /\ r.cursor \notin {"hypercerts", "maearth"}, "InvalidCursor", 400, {"cursor"})

\* decodeCursor.
CursorCheck(r) == Check(Positioned(r) /\ r.cursor # r.feed, "InvalidCursor", 400, {"cursor"})

\* Slip: the feed is looked up before the viewer is bound.
ProcedureChecksRegistryFirst(r) == RegistryChecks(r) \o ViewerChecks(r)

ProcedureChecks(r) == ViewerChecks(r) \o RegistryChecks(r)

Refusals(r) ==
    Check(Malformed(r) # {}, "InvalidRequest", 400, Malformed(r))
    \o ProcedureChecks(r) \o FeedChecks(r) \o CursorCheck(r)

Refused(r) == Refusals(r) # <<>>
Refusal(r) == Refusals(r)[1]
-----------------------------------------------------------------------------
(* Who serves a request that passes. *)

\* Slip: the MaEarth hydrator is left out of the table.
NoHydrator(feed) == "HydratedFeedService"

\* HydratedFeedRouter, over the table server.ts builds.
Hydrator(feed) ==
    IF feed = "maearth" /\ maearthEnabled THEN "MaearthFeedService" ELSE "HydratedFeedService"

Reader(procedure, feed) == IF procedure = "getFeed" THEN Hydrator(feed) ELSE "FeedService"

Normalized(r) ==
    [feed |-> r.feed, viewer |-> BoundViewer(r), actor |-> r.actor, kinds |-> r.kinds,
     evaluators |-> IF r.feed = "hypercerts" THEN r.evaluators ELSE {},
     quality |-> IF r.feed = "hypercerts" THEN r.quality ELSE None,
     limit |-> LimitOf(r), from |-> IF Positioned(r) THEN r.cursor ELSE None]
-----------------------------------------------------------------------------
(* What the messages advise: the values that the client may try instead. *)

\* Slip: whatever the feed, the kinds of the Hypercerts feed are offered.
OfferHypercertsKinds(feed) == HypercertsKinds

OfferedKinds(feed) == Kinds(feed)

\* Slip: whoever calls, any viewer is offered.
ViewerAdviceToAnyone(r) == Dids

ViewerAdvice(r) ==
    IF caller # None /\ r.viewer \in Dids THEN {None, caller} ELSE Dids

Fewer(list, max) == {s \in SUBSET list : Cardinality(s) = max}

KindsAdvice(r) ==
    IF Cardinality(r.kinds) > MaxItems THEN Fewer(r.kinds, MaxItems)
    ELSE IF r.feed # "maearth" /\ Cardinality(r.kinds) > MaxKinds THEN Fewer(r.kinds, MaxKinds)
    ELSE {(r.kinds \ {unknown}) \cup {kind} :
             unknown \in UnknownKinds(r), kind \in OfferedKinds(r.feed)}

Advice(field, r) ==
    CASE field = "feed"       -> Feeds
      [] field = "ptype"      -> {r.feed}
      [] field = "viewer"     -> ViewerAdvice(r)
      [] field = "actor"      -> Dids \cup {None}
      [] field = "evaluators" ->
            IF Malformed(r) # {}
            THEN {e \in SUBSET (r.evaluators \cap Dids) : Cardinality(e) <= MaxItems}
            ELSE Fewer(r.evaluators, MaxEvaluators)
      [] field = "kinds"      -> KindsAdvice(r)
      [] field = "quality"    -> {r.quality \cap Qualities}
      [] field = "limit"      -> IF r.limit \in 1 .. MaxPage THEN 1 .. MaxLimit ELSE 1 .. MaxPage
      [] field = "cursor"     -> IF refusal.code = "InvalidCursor" THEN {None, r.feed} ELSE {None}
-----------------------------------------------------------------------------
Init ==
    /\ maearthEnabled \in BOOLEAN
    /\ caller \in {None} \cup Dids
    /\ request \in Requests
    /\ phase = "sending"
    /\ refusal = None
    /\ served = None

Refuse ==
    /\ phase = "sending"
    /\ Refused(request)
    /\ refusal' = Refusal(request)
    /\ phase' = "refused"
    /\ UNCHANGED <<maearthEnabled, caller, request, served>>

Serve(procedure) ==
    /\ phase = "sending"
    /\ ~ Refused(request)
    /\ served' = [reader |-> Reader(procedure, request.feed), page |-> Normalized(request)]
    /\ phase' = "served"
    /\ UNCHANGED <<maearthEnabled, caller, request, refusal>>

\* External: the client mends one of the fields named, and no other.
Mend(field) ==
    /\ phase = "refused"
    /\ field \in refusal.fields
    /\ \E value \in Advice(field, request) : request' = [request EXCEPT ![field] = value]
    /\ refusal' = None
    /\ phase' = "sending"
    /\ UNCHANGED <<maearthEnabled, caller, served>>

\* External: a client that was served turns to another feed with what it has.
Turn(feed) ==
    /\ phase = "served"
    /\ feed # request.feed
    /\ request' = [request EXCEPT !.feed = feed, !.cursor = request.feed]
    /\ phase' = "sending"
    /\ refusal' = None
    /\ served' = None
    /\ UNCHANGED <<maearthEnabled, caller>>

Next ==
    \/ Refuse
    \/ \E procedure \in {"getFeed", "getFeedSkeleton"} : Serve(procedure)
    \/ \E field \in Fields : Mend(field)
    \/ \E feed \in {"hypercerts", "maearth"} : Turn(feed)

Spec == Init /\ [][Next]_vars

\* A request sent is answered, and the client does not give up.
FairSpec ==
    /\ Spec
    /\ WF_vars(Refuse \/ \E procedure \in {"getFeed", "getFeedSkeleton"} : Serve(procedure))
    /\ WF_vars(\E field \in Fields : Mend(field))
-----------------------------------------------------------------------------
\* What reaches the SQL of a feed has passed the checks of that feed: its viewer is
\* the verified caller where there is one, its kinds and its cursor are the feed's
\* own, and the reader is the one that can show the rows of that feed; any other
\* throws on the first of them (hydration/service.ts, unsupportedKindError).
TypeOK ==
    /\ maearthEnabled \in BOOLEAN
    /\ phase \in {"sending", "refused", "served"}
    /\ phase = "refused" => refusal.fields \subseteq Fields /\ refusal.status \in {400, 422}
    /\ phase = "served" =>
          LET page == served.page IN
          /\ page.feed \in Feeds
          /\ page.viewer \in Dids /\ (caller # None => page.viewer = caller)
          /\ page.kinds \subseteq Kinds(page.feed)
          /\ page.evaluators \subseteq Dids /\ Cardinality(page.evaluators) <= MaxEvaluators
          /\ page.quality # None => page.quality \subseteq Qualities
          /\ page.limit \in 1 .. MaxLimit
          /\ page.from \in {None, page.feed}
          /\ served.reader = "MaearthFeedService" => page.feed = "maearth"
          /\ served.reader = "HydratedFeedService" => page.feed = "hypercerts"

\* A refusal names a field, and whichever it names, there is something to try for it:
\* no check refuses what the message of that check has no remedy for.
NoDeadEnd ==
    phase = "refused" =>
        refusal.fields # {} /\ \A field \in refusal.fields : Advice(field, request) # {}

\* What is wrong with a field, whether or not it has come to light: how many changes of
\* it the refusals may still ask for.
Count(condition) == IF condition THEN 1 ELSE 0

WrongIn(field, r) ==
    CASE field = "feed"       -> Count(r.feed \notin Feeds)
      [] field = "ptype"      -> Count(r.feed \notin Feeds \/ r.ptype # r.feed)
      [] field = "viewer"     -> Count(r.viewer \notin Dids \cup {None})
                                 + Count(IF caller = None THEN r.viewer = None
                                                          ELSE r.viewer \notin {None, caller})
      [] field = "actor"      -> Count(r.actor \notin Dids \cup {None})
      [] field = "evaluators" -> Count(~ r.evaluators \subseteq Dids \/ Cardinality(r.evaluators) > MaxItems)
                                 + Count(Cardinality(r.evaluators) > MaxEvaluators)
      [] field = "kinds"      -> Cardinality(r.kinds)
                                 + Cardinality(IF r.feed \in Feeds THEN UnknownKinds(r) ELSE r.kinds)
      [] field = "quality"    -> Count(r.quality # None /\ ~ r.quality \subseteq Qualities)
      [] field = "limit"      -> Count(r.limit # None /\ r.limit \notin 1 .. MaxPage)
                                 + Count(LimitOf(r) \notin 1 .. MaxLimit)
      [] field = "cursor"     -> Count(Positioned(r) /\ (r.feed \in Feeds => r.cursor # r.feed))

Wrong(r) ==
    LET in(field) == WrongIn(field, r) IN
    in("feed") + in("ptype") + in("viewer") + in("actor") + in("evaluators")
    + in("kinds") + in("quality") + in("limit") + in("cursor")

\* No advice undoes another: whichever of the fields a refusal names is mended, to
\* whichever value its message allows, less is wrong with the request than before,
\* though the change of one field may bring another one's fault to light.
AdviceUndoesNothing == [][phase = "refused" => Wrong(request)' < Wrong(request)]_vars

\* "Their message identifies the invalid parameter and how to correct it" (README.md):
\* whatever is wrong with a request, and in whatever order it comes to light, a client
\* that changes only what each refusal names, to a value it allows, is served in the
\* end; no advice undoes another, and none leads in a circle.
AdviceConverges == phase = "refused" ~> phase = "served"

(* What HttpPipeline keeps of a client between the router and the page         *)
(* statement: the verdicts on his request, and his answer or the viewer his   *)
(* page is selected for.                                                      *)

Place ==
    CASE phase = "sending" -> "verified"
      [] phase = "refused" -> "answered"
      [] phase = "served"  -> "page"

Verdicts ==
    [feed |-> IF request.feed \in Feeds THEN request.feed ELSE "unregistered",
     params |-> request.ptype, viewer |-> request.viewer,
     token |-> IF caller = None THEN None ELSE [iss |-> caller],
     valid |-> Malformed(request) = {},
     normal |-> IF FeedChecks(request) = <<>> THEN 200 ELSE 422,
     cursor |-> CursorCheck(request) = <<>>]

SelectedFor == IF phase = "served" THEN served.page.viewer ELSE None

Answered == IF phase = "refused" THEN [status |-> refusal.status, error |-> refusal.code] ELSE None

P == INSTANCE HttpPipeline WITH
    Requests <- {"client"}, Messages <- {}, Limit <- 0, Feeds <- {"hypercerts", "maearth"},
    pc <- [q \in {"client"} |-> Place], message <- [q \in {"client"} |-> Verdicts],
    queried <- [q \in {"client"} |-> SelectedFor], answer <- [q \in {"client"} |-> Answered],
    read <- [q \in {"client"} |-> 0], spent <- [t \in {} |-> None], errors <- 0, counted <- 0

\* The checks in detail, with everything that is wrong at once, answer as the pipeline
\* does from their verdicts: the first of them decides, with its status and its code,
\* and the page of a request that passes is selected for the viewer the pipeline binds.
AnswersAsPiped ==
    [][phase = "sending" => \/ P!RefuseInput("client")
                            \/ P!RefuseFeedRequest("client")
                            \/ P!LoadPage("client")]_vars
=============================================================================
