------------------------- MODULE HttpPipelineProofs -------------------------
(***************************************************************************)
(* Proofs about HttpPipeline, for any requests, messages and limit.        *)
(*                                                                         *)
(* Orderly says of one request what its place implies; it is inductive     *)
(* because a step changes no other request's cells, and gives a token away *)
(* only when nobody has it.  The counters are Billed.                      *)
(***************************************************************************)
EXTENDS HttpPipeline, FiniteSetTheorems, TLAPS

\* The type invariant without the counters.
Shape ==
    /\ pc \in [Requests -> Places]
    /\ message \in [Requests -> Messages \cup {None}]
    /\ read \in [Requests -> 0 .. Limit]
    /\ queried \in [Requests -> Viewers]
    /\ answer \in [Requests -> Answers \cup {None}]
    /\ spent \in [Tokens -> Requests \cup {None}]

\* What carries r's token, if it carries one, is good and spent on r.
Paid(r) ==
    LET t == message[r].token IN
    t # None => t.good /\ t.lxm = message[r].route /\ spent[t] = r

\* What the place of a request says about it.
Orderly(r) ==
    /\ pc[r] = "idle" => queried[r] = None /\ answer[r] = None
    /\ pc[r] # "idle" => message[r] \in Messages
    /\ answer[r] # None => pc[r] \in {"answered", "done"}
    /\ queried[r] # None => pc[r] \in {"page", "identities", "answered", "done"}
    /\ pc[r] \in Parsed => message[r].size <= Limit /\ read[r] = message[r].size
    /\ pc[r] \in {"verified", "page", "identities"} => Paid(r)
    /\ queried[r] # None => /\ Acceptable(r) /\ Paid(r)
                            /\ queried[r] = BoundViewer(r)
    /\ answer[r] # None /\ answer[r].status = 413 => message[r].size > Limit
    /\ queried[r] # None /\ answer[r] # None => answer[r].status \in {200, 500}
    /\ \A t \in Tokens : spent[t] = r =>
          /\ message[r].token = t
          /\ answer[r] # None => answer[r].status \in {200, 400, 422, 500}
          /\ answer[r] = None => pc[r] \in {"verified", "page", "identities"}

AllOrderly == \A r \in Requests : Orderly(r)
-----------------------------------------------------------------------------
\* A message with a token is a message of a token.
LEMMA TokenOfMessage ==
    ASSUME NEW m \in Messages, m.token # None
    PROVE  m.token \in Tokens /\ m.token.iss # None /\ m.token.iss \in Viewers
<1>1. m.token \in Tokens
  BY DEF Tokens
<1>2. QED
  BY <1>1, NoneAssumption DEF Viewers

\* An answer is an answer.
LEMMA AnswersKnown ==
    /\ Ok \in Answers /\ Failure \in Answers
    /\ \A s \in {204, 400, 401, 404, 405, 413, 422, 503} :
          \A e \in FeedErrorCodes \cup {None, "AuthenticationRequired"} : Bad(s, e) \in Answers
    /\ None \notin Answers
BY NoneAssumption DEF Ok, Failure, Bad, Answers, FeedErrorCodes

\* The viewer of a message, or of its token, is a viewer.
LEMMA BoundViewerKnown ==
    ASSUME NEW r, message[r] \in Messages
    PROVE  BoundViewer(r) \in Viewers
BY TokenOfMessage DEF BoundViewer, Issuer, Viewers

\* The answer to an unacceptable request is one of the client's errors.
LEMMA RefusalKnown ==
    ASSUME NEW r, message[r] \in Messages, ~ Acceptable(r)
    PROVE  Refusal(r) \in Answers /\ Refusal(r).status \in {400, 422}
BY MessagesAssumption DEF Acceptable, Refusal, Bad, Answers, FeedErrorCodes

\* The steps keep the shape.
LEMMA ShapeStep ==
    ASSUME Shape, AllOrderly, NEW r \in Requests, Step(r)
    PROVE  Shape'
<1> USE MessagesAssumption DEF Shape, Unbilled, Goto, Places
<1>0. pc[r] # "idle" => message[r] \in Messages
  BY DEF AllOrderly, Orderly
<1>1. ASSUME NEW m \in Messages, Arrive(r, m) PROVE Shape'
  BY <1>1 DEF Arrive
<1>2. CASE AnswerWithoutBody(r)
  <2>1. PICK a \in Answers : Reply(r, a)
    BY <1>2, AnswersKnown DEF AnswerWithoutBody, PreflightAnswers, FeedErrorCodes
  <2>2. QED
    BY <1>2, <2>1 DEF AnswerWithoutBody, Reply
<1>3. CASE RefuseDeclared(r)
  BY <1>3, AnswersKnown DEF RefuseDeclared, Reply, FeedErrorCodes
<1>4. CASE StartBody(r)
  BY <1>4 DEF StartBody
<1>5. CASE ReadChunk(r)
  BY <1>5, AnswersKnown DEF ReadChunk, Reply, Fits, FeedErrorCodes
<1>6. CASE BodyFails(r)
  BY <1>6 DEF BodyFails
<1>7. CASE BodyEnds(r)
  BY <1>7, AnswersKnown DEF BodyEnds, Reply, FeedErrorCodes
<1>8. CASE RefuseInput(r)
  BY <1>8, AnswersKnown DEF RefuseInput, Reply, FeedErrorCodes
<1>9. CASE Anonymous(r) \/ Verify(r)
  BY <1>9 DEF Anonymous, Verify
<1>10. CASE RefuseToken(r)
  BY <1>10, AnswersKnown DEF RefuseToken, Reply
<1>11. CASE RefuseFull(r)
  BY <1>11, AnswersKnown DEF RefuseFull, SpentAtRefusal, Reply, FeedErrorCodes
<1>12. CASE AcceptToken(r)
  BY <1>12 DEF AcceptToken
<1>13. CASE RefuseFeedRequest(r)
  BY <1>0, <1>13, RefusalKnown DEF RefuseFeedRequest, Handling, Reply
<1>14. CASE LoadPage(r)
  BY <1>0, <1>14, BoundViewerKnown DEF LoadPage, Handling
<1>15. CASE PageLoaded(r)
  BY <1>15, AnswersKnown DEF PageLoaded, Reply
<1>16. CASE IdentitiesLoaded(r) \/ FeedFails(r)
  BY <1>16, AnswersKnown DEF IdentitiesLoaded, FeedFails, Reply
<1>17. CASE Observe(r)
  BY <1>17 DEF Observe
<1>18. QED
  BY <1>1, <1>2, <1>3, <1>4, <1>5, <1>6, <1>7, <1>8, <1>9, <1>10, <1>11, <1>12, <1>13,
     <1>14, <1>15, <1>16, <1>17 DEF Step, Body, Router, Procedure

\* A step of one request touches no cell of another, and takes only a free token.
LEMMA OthersUntouched ==
    ASSUME Shape, NEW r \in Requests, Step(r), NEW q \in Requests, q # r
    PROVE  /\ pc'[q] = pc[q] /\ message'[q] = message[q] /\ read'[q] = read[q]
           /\ queried'[q] = queried[q] /\ answer'[q] = answer[q]
           /\ \A t \in Tokens : spent'[t] = q <=> spent[t] = q
<1> USE DEF Shape, Goto, Reply
<1>1. CASE \E m \in Messages : Arrive(r, m)
  BY <1>1 DEF Arrive
<1>2. CASE AnswerWithoutBody(r)
  BY <1>2 DEF AnswerWithoutBody
<1>3. CASE Body(r)
  BY <1>3 DEF Body, RefuseDeclared, StartBody, ReadChunk, BodyFails, BodyEnds
<1>4. CASE Router(r)
  <2>1. CASE AcceptToken(r)
    BY <2>1, NoneAssumption DEF AcceptToken, Usable
  <2>2. CASE ~ AcceptToken(r)
    BY <1>4, <2>2 DEF Router, RefuseInput, Anonymous, Verify, RefuseToken, RefuseFull, SpentAtRefusal
  <2>3. QED
    BY <2>1, <2>2
<1>5. CASE Procedure(r)
  BY <1>5 DEF Procedure, RefuseFeedRequest, LoadPage, PageLoaded, IdentitiesLoaded, FeedFails
<1>6. CASE Observe(r)
  BY <1>6 DEF Observe
<1>7. QED
  BY <1>1, <1>2, <1>3, <1>4, <1>5, <1>6 DEF Step

\* A step keeps its own request orderly.
LEMMA OwnOrderly ==
    ASSUME Shape, AllOrderly, NEW r \in Requests, Step(r), Shape'
    PROVE  Orderly(r)'
<1> USE MessagesAssumption, NoneAssumption DEF Shape, Goto, Parsed, Paid
<1>0. Orderly(r)
  BY DEF AllOrderly
<1> DEFINE Clear == queried[r] = None /\ answer[r] = None /\ \A t \in Tokens : spent[t] # r
\* Before authentication ends nothing has been queried, answered or spent.
<1>a. pc[r] \in {"idle", "routing", "body", "router", "auth"} => Clear
  BY <1>0 DEF Orderly
\* An early answer that spends nothing is orderly.
<1>b. ASSUME Clear, message' = message, read' = read, queried' = queried, spent' = spent,
             NEW a \in Answers, Reply(r, a), message[r] \in Messages,
             a.status = 413 => message[r].size > Limit
      PROVE  Orderly(r)'
  BY <1>b DEF Reply, Orderly
<1>1. ASSUME NEW m \in Messages, Arrive(r, m) PROVE Orderly(r)'
  BY <1>0, <1>a, <1>1 DEF Arrive, Orderly
<1>2. CASE AnswerWithoutBody(r)
  <2>1. PICK a \in Answers : Reply(r, a) /\ a.status # 413
    BY <1>2, AnswersKnown DEF AnswerWithoutBody, PreflightAnswers, FeedErrorCodes, Ok, Bad
  <2>2. message[r] \in Messages
    BY <1>0, <1>2 DEF AnswerWithoutBody, Orderly
  <2>3. QED
    BY <1>2, <1>a, <1>b, <2>1, <2>2 DEF AnswerWithoutBody
<1>3. CASE RefuseDeclared(r)
  BY <1>0, <1>3, <1>a, <1>b, AnswersKnown DEF RefuseDeclared, Fits, FeedErrorCodes, Orderly
<1>4. CASE StartBody(r)
  BY <1>0, <1>4 DEF StartBody, Orderly
<1>5. CASE ReadChunk(r)
  <2>1. message[r] \in Messages /\ message[r].size \in Nat
    BY <1>0, <1>5 DEF ReadChunk, Orderly
  <2>2. CASE Fits(read[r] + 1)
    BY <1>0, <1>5, <2>2 DEF ReadChunk, Orderly
  <2>3. CASE ~ Fits(read[r] + 1)
    BY <1>5, <1>a, <1>b, <2>1, <2>3, AnswersKnown DEF ReadChunk, Fits, FeedErrorCodes
  <2>4. QED
    BY <2>2, <2>3
<1>6. CASE BodyFails(r)
  BY <1>0, <1>6, <1>a DEF BodyFails, Orderly
<1>7. CASE BodyEnds(r)
  <2>1. CASE message[r].json
    BY <1>0, <1>7, <2>1 DEF BodyEnds, Orderly
  <2>2. CASE ~ message[r].json
    BY <1>0, <1>7, <1>a, <1>b, <2>2, AnswersKnown DEF BodyEnds, FeedErrorCodes, Bad, Orderly
  <2>3. QED
    BY <2>1, <2>2
<1>8. CASE RefuseInput(r)
  BY <1>0, <1>8, AnswersKnown DEF RefuseInput, Reply, FeedErrorCodes, Bad, Orderly
<1>9. CASE Anonymous(r) \/ Verify(r)
  BY <1>0, <1>9, <1>a DEF Anonymous, Verify, Orderly
<1>10. CASE RefuseToken(r)
  BY <1>0, <1>10, <1>a, <1>b, AnswersKnown DEF RefuseToken, Bad, Orderly
<1>11. CASE RefuseFull(r)
  BY <1>0, <1>11, <1>a, <1>b, AnswersKnown DEF RefuseFull, SpentAtRefusal, FeedErrorCodes, Bad, Orderly
<1>12. CASE AcceptToken(r)
  BY <1>0, <1>12, <1>a DEF AcceptToken, Usable, Orderly
<1>13. CASE RefuseFeedRequest(r)
  BY <1>0, <1>13, RefusalKnown, AnswersKnown DEF RefuseFeedRequest, Handling, Reply, Orderly
<1>14. CASE LoadPage(r)
  BY <1>0, <1>14 DEF LoadPage, Handling, Acceptable, ViewerAgrees, Registered, ParamsMatch,
                     BoundViewer, Scoped, Issuer, Orderly
<1>15. CASE PageLoaded(r)
  BY <1>0, <1>15, AnswersKnown DEF PageLoaded, Reply, Ok, Acceptable, ViewerAgrees, Registered,
                     ParamsMatch, BoundViewer, Scoped, Issuer, Orderly
<1>16. CASE IdentitiesLoaded(r) \/ FeedFails(r)
  BY <1>0, <1>16, AnswersKnown DEF IdentitiesLoaded, FeedFails, Reply, Ok, Failure, Bad, Acceptable,
                     ViewerAgrees, Registered, ParamsMatch, BoundViewer, Scoped, Issuer, Orderly
<1>17. CASE Observe(r)
  BY <1>0, <1>17 DEF Observe, Acceptable, ViewerAgrees, Registered, ParamsMatch,
                     BoundViewer, Scoped, Issuer, Orderly
<1>18. QED
  BY <1>1, <1>2, <1>3, <1>4, <1>5, <1>6, <1>7, <1>8, <1>9, <1>10, <1>11, <1>12, <1>13,
     <1>14, <1>15, <1>16, <1>17 DEF Step, Body, Router, Procedure

\* A step keeps every other request orderly.
LEMMA OthersOrderly ==
    ASSUME Shape, AllOrderly, NEW r \in Requests, Step(r), Shape',
           NEW q \in Requests, q # r
    PROVE  Orderly(q)'
<1>1. Orderly(q)
  BY DEF AllOrderly
<1>2. /\ pc'[q] = pc[q] /\ message'[q] = message[q] /\ read'[q] = read[q]
      /\ queried'[q] = queried[q] /\ answer'[q] = answer[q]
      /\ \A t \in Tokens : spent'[t] = q <=> spent[t] = q
  BY OthersUntouched
<1>3. pc[q] # "idle" /\ Paid(q) => Paid(q)'
  BY <1>1, <1>2, TokenOfMessage DEF Paid, Orderly
<1>4. Acceptable(q)' = Acceptable(q) /\ BoundViewer(q)' = BoundViewer(q)
  BY <1>2 DEF Acceptable, ViewerAgrees, Registered, ParamsMatch, BoundViewer, Scoped, Issuer
<1>5. QED
  BY <1>1, <1>2, <1>3, <1>4 DEF Orderly
-----------------------------------------------------------------------------
(* The counters. *)

Finished == {r \in Requests : pc[r] = "done"}

\* The finished requests that were told c by a feed.
Told(c) == {r \in Finished : OnFeedRoute(r) /\ answer[r] # None /\ answer[r].error = c}

Billed ==
    /\ counted = Cardinality(Finished)
    /\ errors = [c \in FeedErrorCodes |-> Cardinality(Told(c))]

\* Nothing happens to a request that is done.
LEMMA DoneForGood ==
    ASSUME NEW r \in Requests, Step(r)
    PROVE  pc[r] # "done"
BY DEF Step, Arrive, AnswerWithoutBody, Body, RefuseDeclared, StartBody, ReadChunk, BodyFails,
       BodyEnds, Router, RefuseInput, Anonymous, Verify, RefuseToken, RefuseFull, AcceptToken,
       Procedure, Handling, RefuseFeedRequest, LoadPage, PageLoaded, IdentitiesLoaded, FeedFails,
       Observe

\* Only Observe finishes a request or touches a counter.
LEMMA OnlyObserveBills ==
    ASSUME Shape, NEW r \in Requests, Step(r), ~ Observe(r)
    PROVE  errors' = errors /\ counted' = counted /\ pc'[r] # "done"
<1> USE DEF Shape, Goto, Reply, Unbilled
<1>1. CASE (\E m \in Messages : Arrive(r, m)) \/ AnswerWithoutBody(r)
  BY <1>1 DEF Arrive, AnswerWithoutBody
<1>2. CASE Body(r)
  BY <1>2, DoneForGood DEF Body, RefuseDeclared, StartBody, ReadChunk, BodyFails, BodyEnds
<1>3. CASE Router(r)
  BY <1>3 DEF Router, RefuseInput, Anonymous, Verify, RefuseToken, RefuseFull, AcceptToken
<1>4. CASE Procedure(r)
  BY <1>4 DEF Procedure, RefuseFeedRequest, LoadPage, PageLoaded, IdentitiesLoaded, FeedFails
<1>5. QED
  BY <1>1, <1>2, <1>3, <1>4 DEF Step

\* Every step keeps the counters right.
LEMMA BilledStep ==
    ASSUME Shape, NEW r \in Requests, Step(r), Billed
    PROVE  Billed'
<1>1. /\ pc[r] # "done"
      /\ \A q \in Requests \ {r} : /\ pc'[q] = pc[q] /\ message'[q] = message[q]
                                   /\ answer'[q] = answer[q]
  BY DoneForGood, OthersUntouched
<1>2. CASE Observe(r)
  <2>1. /\ pc'[r] = "done" /\ message'[r] = message[r] /\ answer'[r] = answer[r]
        /\ counted' = counted + 1
        /\ errors' = [c \in FeedErrorCodes |-> errors[c] + IF c \in Observed(r) THEN 1 ELSE 0]
    BY <1>2 DEF Observe, Goto, Shape
  <2>2. Finished' = Finished \cup {r} /\ r \notin Finished
    BY <1>1, <2>1 DEF Finished
  <2>3. ASSUME NEW c \in FeedErrorCodes
        PROVE  /\ r \notin Told(c)
               /\ Told(c)' = IF c \in Observed(r) THEN Told(c) \cup {r} ELSE Told(c)
    BY <1>1, <2>1, <2>2 DEF Told, Finished, OnFeedRoute, Observed
  <2>4. ASSUME NEW c \in FeedErrorCodes
        PROVE  Cardinality(Told(c)') = Cardinality(Told(c)) + IF c \in Observed(r) THEN 1 ELSE 0
    <3>1. IsFiniteSet(Told(c)) /\ Cardinality(Told(c)) \in Nat
      BY MessagesAssumption, FS_Subset, FS_CardinalityType DEF Told, Finished
    <3>2. QED
      BY <2>3, <3>1, FS_AddElement
  <2>5. Cardinality(Finished') = Cardinality(Finished) + 1
    <3>1. IsFiniteSet(Finished) /\ Cardinality(Finished) \in Nat
      BY MessagesAssumption, FS_Subset, FS_CardinalityType DEF Finished
    <3>2. Cardinality(Finished \cup {r}) = Cardinality(Finished) + 1
      BY <2>2, <3>1, FS_AddElement
    <3>3. QED
      BY <2>2, <3>2
  <2>6. QED
    BY <2>1, <2>4, <2>5 DEF Billed
<1>3. CASE ~ Observe(r)
  <2>1. errors' = errors /\ counted' = counted /\ pc'[r] # "done"
    BY <1>3, OnlyObserveBills
  <2>2. Finished' = Finished
    BY <1>1, <2>1 DEF Finished
  <2>3. ASSUME NEW c \in FeedErrorCodes PROVE Told(c)' = Told(c)
    BY <1>1, <2>2 DEF Told, Finished, OnFeedRoute
  <2>4. QED
    BY <2>1, <2>2, <2>3 DEF Billed
<1>4. QED
  BY <1>2, <1>3
-----------------------------------------------------------------------------
(* The theorems. *)

IInv == Shape /\ AllOrderly /\ Billed

\* IInv is an inductive invariant.
THEOREM Invariance == Spec => []IInv
<1>1. Init => IInv
  <2> SUFFICES ASSUME Init PROVE IInv
    OBVIOUS
  <2>1. Shape
    BY MessagesAssumption DEF Init, Shape, Places, Viewers
  <2>2. AllOrderly
    BY NoneAssumption DEF Init, AllOrderly, Orderly, Parsed
  <2>3. Finished = {} /\ \A c : Told(c) = {}
    BY DEF Init, Finished, Told
  <2>4. Billed
    BY <2>3, FS_EmptySet DEF Init, Billed
  <2>5. QED
    BY <2>1, <2>2, <2>4 DEF IInv
<1>2. IInv /\ [Next]_vars => IInv'
  <2> SUFFICES ASSUME IInv, [Next]_vars PROVE IInv'
    OBVIOUS
  <2> USE DEF IInv
  <2>1. ASSUME NEW r \in Requests, Step(r) PROVE IInv'
    <3>1. Shape'
      BY <2>1, ShapeStep
    <3>2. AllOrderly'
      BY <2>1, <3>1, OwnOrderly, OthersOrderly DEF AllOrderly
    <3>3. QED
      BY <2>1, <3>1, <3>2, BilledStep
  <2>2. CASE UNCHANGED vars
    <3>1. Shape' /\ Billed'
      BY <2>2 DEF vars, Shape, Billed, Finished, Told, OnFeedRoute
    <3>2. AllOrderly'
      BY <2>2 DEF vars, AllOrderly, Orderly, Paid, Acceptable, ViewerAgrees, Registered,
                  ParamsMatch, BoundViewer, Scoped, Issuer
    <3>3. QED
      BY <3>1, <3>2
  <2>3. QED
    BY <2>1, <2>2 DEF Next
<1>3. QED
  BY <1>1, <1>2, PTL DEF Spec

\* The state of the pipeline keeps its type.
THEOREM TypeCorrect == Spec => []TypeOK
<1>1. IInv => TypeOK
  <2> SUFFICES ASSUME IInv PROVE TypeOK
    OBVIOUS
  <2>1. ASSUME NEW S, S \subseteq Requests
        PROVE  Cardinality(S) \in 0 .. Cardinality(Requests)
    BY <2>1, MessagesAssumption, FS_Subset, FS_CardinalityType
  <2>2. /\ Finished \subseteq Requests
        /\ \A c \in FeedErrorCodes : Told(c) \subseteq Requests
    BY DEF Finished, Told
  <2>3. /\ counted \in 0 .. Cardinality(Requests)
        /\ errors \in [FeedErrorCodes -> 0 .. Cardinality(Requests)]
    BY <2>1, <2>2 DEF IInv, Billed
  <2>4. QED
    BY <2>3 DEF IInv, Shape, TypeOK
<1>2. QED
  BY <1>1, Invariance, PTL

\* Bodies are refused as too large exactly when they are.
THEOREM BodyLimit == Spec => []BodyLimitExact
<1>1. IInv => BodyLimitExact
  BY DEF IInv, AllOrderly, Orderly, BodyLimitExact, Done
<1>2. QED
  BY <1>1, Invariance, PTL

\* Every page is selected for its caller, a token serves one request, and no request
\* that is refused has cost a statement.
THEOREM CallersPages == Spec => []PagesAreTheCallers
<1>1. IInv => PagesAreTheCallers
  <2> SUFFICES ASSUME IInv, NEW r \in Requests, queried[r] # None
               PROVE  LET m == message[r] IN
                      /\ m.params = m.feed /\ m.feed \in Feeds
                      /\ m.token = None => queried[r] = m.viewer
                      /\ m.token # None =>
                            /\ m.token.good /\ m.token.lxm = m.route
                            /\ spent[m.token] = r
                            /\ queried[r] = m.token.iss /\ m.viewer \in {None, m.token.iss}
                      /\ answer[r] # None => answer[r].status \in {200, 500}
    BY DEF PagesAreTheCallers
  <2>1. /\ Acceptable(r) /\ Paid(r) /\ queried[r] = BoundViewer(r)
        /\ message[r] \in Messages
        /\ answer[r] # None => answer[r].status \in {200, 500}
    BY DEF IInv, AllOrderly, Orderly
  <2>2. message[r].params = message[r].feed /\ message[r].feed \in Feeds /\ Scoped(r)
    BY <2>1, MessagesAssumption DEF Acceptable, Registered, ParamsMatch, Scoped
  <2>3. CASE message[r].token = None
    BY <2>1, <2>2, <2>3 DEF BoundViewer, Issuer
  <2>4. CASE message[r].token # None
    <3>1. Issuer(r) = message[r].token.iss /\ Issuer(r) # None
      BY <2>1, <2>4, TokenOfMessage DEF Issuer
    <3>2. QED
      BY <2>1, <2>2, <2>4, <3>1 DEF BoundViewer, Acceptable, ViewerAgrees, Paid
  <2>5. QED
    BY <2>3, <2>4
<1>2. QED
  BY <1>1, Invariance, PTL

\* A token is spent after everything else that can refuse the caller's request.
THEOREM TokensLast == Spec => []TokensSpentLast
<1>1. IInv => TokensSpentLast
  BY DEF IInv, Shape, AllOrderly, Orderly, TokensSpentLast
<1>2. QED
  BY <1>1, Invariance, PTL

\* The error counters say what callers of the feeds were told.
THEOREM CountersHonest == Spec => []ErrorsCounted
<1>1. IInv => ErrorsCounted
  BY DEF IInv, Billed, Finished, Told, ErrorsCounted
<1>2. QED
  BY <1>1, Invariance, PTL
=============================================================================
