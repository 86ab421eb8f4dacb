---------------------------- MODULE HttpPipeline ----------------------------
(***************************************************************************)
(* Concurrent requests on their way through src/src/app.ts and             *)
(* src/src/api/feed-procedure.ts: the bounded body, the router with its    *)
(* authentication, the viewer, the feed, the answer and its metrics.       *)
(* Between two actions of a request the code awaits something, or is in    *)
(* the router, which is external; others run meanwhile.                    *)
(*                                                                         *)
(* A message is [route, method, size, declared, json, valid, feed, params, *)
(* viewer, normal, cursor, token]: `size' is the length of its body, which *)
(* arrives in units, `declared' whether content-length gives it; `json'    *)
(* and `valid' are the verdicts of the parser and the lexicon, `normal' is *)
(* the status the feed gives its other parameters, `cursor' the verdict on *)
(* its cursor.                                                             *)
(* A token is [id, iss, lxm, good], `good' being the library's verdict.    *)
(***************************************************************************)
EXTENDS Integers, FiniteSets

CONSTANTS
    Requests,
    Messages,         \* what clients send
    Limit,            \* MAX_REQUEST_BODY_BYTES
    Feeds,            \* the registered feeds; params are named as their feed
    None

VARIABLES
    pc,               \* where each request is
    message,
    read,             \* how much of the body is buffered
    queried,          \* None, or the viewer of the request's page statement
    answer,           \* None, or [status, error]
    spent,            \* the request that used up each token, or None
    errors,           \* hypercerts_feed_errors_total
    counted           \* hypercerts_feed_http_requests_total

vars == <<pc, message, read, queried, answer, spent, errors, counted>>

FeedRoutes == {"getFeedSkeleton", "getFeed"}
ViewerScoped == {"hypercerts", "maearth"}
FeedErrorCodes == {"InvalidRequest", "UnsupportedFeed", "InvalidCursor", "InternalError"}
Tokens == {m.token : m \in Messages} \ {None}

Answers ==
    [status : {200, 204, 400, 401, 404, 405, 413, 422, 500, 503},
     error : FeedErrorCodes \cup {None, "AuthenticationRequired"}]

\* None is told apart from everything else; there is a token or there is none.
ASSUME NoneAssumption ==
    /\ None \notin Requests \cup Messages \cup Answers \cup FeedErrorCodes
    /\ \A t \in Tokens : t.iss # None

\* Bodies have a length, and both registered feeds are for a viewer.
ASSUME MessagesAssumption ==
    /\ IsFiniteSet(Requests)
    /\ Limit \in Nat
    /\ \A m \in Messages : m.size \in Nat /\ m.normal \in {200, 400, 422}
    /\ Feeds \subseteq ViewerScoped

Viewers == {m.viewer : m \in Messages} \cup {t.iss : t \in Tokens} \cup {None}

Places == {"idle", "routing", "body", "router", "auth", "verified",
           "page", "identities", "answered", "done"}
Parsed == {"router", "auth", "verified", "page", "identities"}

Ok == [status |-> 200, error |-> None]
Bad(status, error) == [status |-> status, error |-> error]

\* Slip: a failure is reported as the client's.
FailureBlamedOnClient == Bad(400, "InvalidRequest")

\* Whatever is not a FeedError is hidden behind this answer.
Failure == Bad(500, "InternalError")

OnFeedRoute(r) == message[r].route \in FeedRoutes

Goto(r, place) == pc' = [pc EXCEPT ![r] = place]
Reply(r, a) == answer' = [answer EXCEPT ![r] = a] /\ Goto(r, "answered")
Unbilled == UNCHANGED <<errors, counted>>

Init ==
    /\ pc = [r \in Requests |-> "idle"]
    /\ message = [r \in Requests |-> None]
    /\ read = [r \in Requests |-> 0]
    /\ queried = [r \in Requests |-> None]
    /\ answer = [r \in Requests |-> None]
    /\ spent = [t \in Tokens |-> None]
    /\ errors = [c \in FeedErrorCodes |-> 0]
    /\ counted = 0
-----------------------------------------------------------------------------
(* The fetch handler. *)

Arrive(r, m) ==
    /\ pc[r] = "idle"
    /\ message' = [message EXCEPT ![r] = m]
    /\ Goto(r, "routing")
    /\ UNCHANGED <<read, queried, answer, spent>> /\ Unbilled

\* Slip: a body as long as the limit is refused.
FitsBelow(size) == size < Limit

\* Slip: the chunk in hand is not counted.
FitsWithoutLast(size) == size - 1 <= Limit

Fits(size) == size <= Limit

\* A preflight that asks for POST and for no other headers than the feeds read, or not.
PreflightAnswers == {Bad(204, None), Bad(400, "InvalidRequest")}

\* A path without a feed and a method other than POST are answered at once.
AnswerWithoutBody(r) ==
    /\ pc[r] = "routing"
    /\ \/ /\ ~ OnFeedRoute(r)
          /\ \E a \in {Ok, Bad(404, None), Bad(405, "InvalidRequest"), Bad(503, None)} :
                Reply(r, a)
       \/ /\ OnFeedRoute(r) /\ message[r].method = "OPTIONS"
          /\ \E a \in PreflightAnswers : Reply(r, a)
       \/ OnFeedRoute(r) /\ message[r].method = "GET" /\ Reply(r, Bad(405, "InvalidRequest"))
    /\ UNCHANGED <<message, read, queried, spent>> /\ Unbilled

RefuseDeclared(r) ==
    /\ pc[r] = "routing" /\ OnFeedRoute(r) /\ message[r].method = "POST"
    /\ message[r].declared /\ ~ Fits(message[r].size)
    /\ Reply(r, Bad(413, "InvalidRequest"))
    /\ UNCHANGED <<message, read, queried, spent>> /\ Unbilled

StartBody(r) ==
    /\ pc[r] = "routing" /\ OnFeedRoute(r) /\ message[r].method = "POST"
    /\ message[r].declared => Fits(message[r].size)
    /\ Goto(r, "body")
    /\ UNCHANGED <<message, read, queried, answer, spent>> /\ Unbilled

ReadChunk(r) ==
    /\ pc[r] = "body" /\ read[r] < message[r].size
    /\ IF Fits(read[r] + 1)
       THEN read' = [read EXCEPT ![r] = @ + 1] /\ UNCHANGED <<pc, answer>>
       ELSE Reply(r, Bad(413, "InvalidRequest")) /\ UNCHANGED read
    /\ UNCHANGED <<message, queried, spent>> /\ Unbilled

\* The client leaves, or is too slow: the handler throws, nobody is answered.
BodyFails(r) ==
    /\ pc[r] = "body"
    /\ Goto(r, "answered")
    /\ UNCHANGED <<message, read, queried, answer, spent>> /\ Unbilled

BodyEnds(r) ==
    /\ pc[r] = "body" /\ read[r] = message[r].size
    /\ IF message[r].json THEN Goto(r, "router") /\ UNCHANGED answer
                          ELSE Reply(r, Bad(400, "InvalidRequest"))
    /\ UNCHANGED <<message, read, queried, spent>> /\ Unbilled
-----------------------------------------------------------------------------
(* The router: it validates the input and authenticates, in either order. *)

RefuseInput(r) ==
    /\ pc[r] \in {"router", "verified"} /\ ~ message[r].valid
    /\ Reply(r, Bad(400, "InvalidRequest"))
    /\ UNCHANGED <<message, read, queried, spent>> /\ Unbilled

Anonymous(r) ==
    /\ pc[r] = "router" /\ message[r].token = None
    /\ Goto(r, "verified")
    /\ UNCHANGED <<message, read, queried, answer, spent>> /\ Unbilled

Verify(r) ==
    /\ pc[r] = "router" /\ message[r].token # None
    /\ Goto(r, "auth")
    /\ UNCHANGED <<message, read, queried, answer, spent>> /\ Unbilled

\* Slip: that a token was used is not looked at.
UsableAgain(r) == message[r].token.good /\ message[r].token.lxm = message[r].route

Usable(r) ==
    LET t == message[r].token IN t.good /\ t.lxm = message[r].route /\ spent[t] = None

RefuseToken(r) ==
    /\ pc[r] = "auth" /\ ~ Usable(r)
    /\ Reply(r, Bad(401, "AuthenticationRequired"))
    /\ UNCHANGED <<message, read, queried, spent>> /\ Unbilled

\* Slip: the token is stored before the room for it is checked.
SpentWhenFull(r) == [spent EXCEPT ![message[r].token] = r]

SpentAtRefusal(r) == spent

\* No room for another token, by the issuer's or the global limit.
RefuseFull(r) ==
    /\ pc[r] = "auth" /\ Usable(r)
    /\ Reply(r, Bad(503, "InternalError"))
    /\ spent' = SpentAtRefusal(r)
    /\ UNCHANGED <<message, read, queried>> /\ Unbilled

AcceptToken(r) ==
    /\ pc[r] = "auth" /\ Usable(r)
    /\ spent' = [spent EXCEPT ![message[r].token] = r]
    /\ Goto(r, "verified")
    /\ UNCHANGED <<message, read, queried, answer>> /\ Unbilled
-----------------------------------------------------------------------------
(* The procedure: up to the page statement nothing is awaited. *)

Handling(r) == pc[r] = "verified" /\ message[r].valid

Scoped(r) == message[r].params \in ViewerScoped
Issuer(r) == IF message[r].token = None THEN None ELSE message[r].token.iss

ViewerAgrees(r) ==
    Scoped(r) => IF Issuer(r) = None THEN message[r].viewer # None
                                     ELSE message[r].viewer \in {None, Issuer(r)}

BoundViewer(r) ==
    IF Scoped(r) /\ Issuer(r) # None THEN Issuer(r) ELSE message[r].viewer

Registered(r) == message[r].feed \in Feeds
ParamsMatch(r) == message[r].params = message[r].feed

Acceptable(r) ==
    /\ ViewerAgrees(r) /\ Registered(r) /\ ParamsMatch(r)
    /\ message[r].normal = 200 /\ message[r].cursor

\* The first check that fails gives the answer.
Refusal(r) ==
    IF ~ ViewerAgrees(r) THEN Bad(400, "InvalidRequest")
    ELSE IF ~ Registered(r) THEN Bad(400, "UnsupportedFeed")
    ELSE IF ~ ParamsMatch(r) THEN Bad(400, "InvalidRequest")
    ELSE IF message[r].normal # 200 THEN Bad(message[r].normal, "InvalidRequest")
    ELSE Bad(400, "InvalidCursor")

RefuseFeedRequest(r) ==
    /\ Handling(r) /\ ~ Acceptable(r)
    /\ Reply(r, Refusal(r))
    /\ UNCHANGED <<message, read, queried, spent>> /\ Unbilled

LoadPage(r) ==
    /\ Handling(r) /\ Acceptable(r)
    /\ queried' = [queried EXCEPT ![r] = BoundViewer(r)]
    /\ Goto(r, "page")
    /\ UNCHANGED <<message, read, answer, spent>> /\ Unbilled

\* Only hydrated Hypercerts pages with a sound row need the identities.
PageLoaded(r) ==
    /\ pc[r] = "page"
    /\ \/ /\ message[r].route = "getFeed" /\ message[r].feed = "hypercerts"
          /\ Goto(r, "identities") /\ UNCHANGED answer
       \/ Reply(r, Ok)
    /\ UNCHANGED <<message, read, queried, spent>> /\ Unbilled

IdentitiesLoaded(r) ==
    /\ pc[r] = "identities" /\ Reply(r, Ok)
    /\ UNCHANGED <<message, read, queried, spent>> /\ Unbilled

\* A statement fails, or the answer does not meet its schema.
FeedFails(r) ==
    /\ pc[r] \in {"page", "identities"} /\ Reply(r, Failure)
    /\ UNCHANGED <<message, read, queried, spent>> /\ Unbilled
-----------------------------------------------------------------------------
(* The metrics, once the answer's body has been read. *)

\* Slip: operational endpoints count too.
ObservedAnywhere(r) ==
    IF answer[r] # None /\ answer[r].error \in FeedErrorCodes THEN {answer[r].error} ELSE {}

Observed(r) ==
    IF OnFeedRoute(r) /\ answer[r] # None /\ answer[r].error \in FeedErrorCodes
    THEN {answer[r].error} ELSE {}

Observe(r) ==
    /\ pc[r] = "answered"
    /\ errors' = [c \in FeedErrorCodes |-> errors[c] + IF c \in Observed(r) THEN 1 ELSE 0]
    /\ counted' = counted + 1
    /\ Goto(r, "done")
    /\ UNCHANGED <<message, read, queried, answer, spent>>

Body(r) == RefuseDeclared(r) \/ StartBody(r) \/ ReadChunk(r) \/ BodyFails(r) \/ BodyEnds(r)
Router(r) ==
    \/ RefuseInput(r) \/ Anonymous(r) \/ Verify(r)
    \/ RefuseToken(r) \/ RefuseFull(r) \/ AcceptToken(r)
Procedure(r) ==
    RefuseFeedRequest(r) \/ LoadPage(r) \/ PageLoaded(r) \/ IdentitiesLoaded(r) \/ FeedFails(r)

Step(r) ==
    \/ \E m \in Messages : Arrive(r, m)
    \/ AnswerWithoutBody(r) \/ Body(r) \/ Router(r) \/ Procedure(r) \/ Observe(r)

Next == \E r \in Requests : Step(r)

Spec == Init /\ [][Next]_vars
-----------------------------------------------------------------------------
\* Requests move through the known places, and never buffer more than the limit.
TypeOK ==
    /\ pc \in [Requests -> Places]
    /\ message \in [Requests -> Messages \cup {None}]
    /\ read \in [Requests -> 0 .. Limit]
    /\ queried \in [Requests -> Viewers]
    /\ answer \in [Requests -> Answers \cup {None}]
    /\ spent \in [Tokens -> Requests \cup {None}]
    /\ errors \in [FeedErrorCodes -> 0 .. Cardinality(Requests)]
    /\ counted \in 0 .. Cardinality(Requests)

Done(status) == {r \in Requests : answer[r] # None /\ answer[r].status = status}

\* Whether or not its length is declared, and however it arrives: a body is
\* refused as too large exactly when it is, and only a whole one is parsed.
BodyLimitExact ==
    /\ \A r \in Done(413) : message[r].size > Limit
    /\ \A r \in {q \in Requests : pc[q] \in Parsed} :
          message[r].size <= Limit /\ read[r] = message[r].size

\* A page is selected for the caller: for the issuer of a token that verified,
\* was meant for this endpoint and is spent on this request alone, before the
\* statement, whatever the body says; or else for the viewer the body names.  And
\* what the client is told is its own fault, or to retry, has selected none.
PagesAreTheCallers ==
    \A r \in {q \in Requests : queried[q] # None} :
        LET m == message[r] IN
        /\ m.params = m.feed /\ m.feed \in Feeds
        /\ m.token = None => queried[r] = m.viewer
        /\ m.token # None =>
              /\ m.token.good /\ m.token.lxm = m.route
              /\ spent[m.token] = r
              /\ queried[r] = m.token.iss /\ m.viewer \in {None, m.token.iss}
        /\ answer[r] # None => answer[r].status \in {200, 500}

\* A request refused by its method, its length, its token or for lack of room
\* leaves its token unspent; a spent one belongs to a request that got past all
\* of these, and only to it.
TokensSpentLast ==
    \A t \in {u \in Tokens : spent[u] # None} :
        LET r == spent[t] IN
        /\ message[r].token = t
        /\ answer[r] # None => answer[r].status \in {200, 400, 422, 500}
        /\ answer[r] = None => pc[r] \in {"verified", "page", "identities"}

\* Each finished request is counted, and each public error told to a caller of
\* a feed is counted once, under the name he was told; those of operational
\* endpoints are not, nor is a client who left.
ErrorsCounted ==
    LET finished == {r \in Requests : pc[r] = "done"} IN
    /\ counted = Cardinality(finished)
    /\ \A c \in FeedErrorCodes :
          errors[c] = Cardinality({r \in finished :
                          OnFeedRoute(r) /\ answer[r] # None /\ answer[r].error = c})
=============================================================================
