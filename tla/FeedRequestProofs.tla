------------------------- MODULE FeedRequestProofs -------------------------
(***************************************************************************)
(* For any requests, any kinds, qualities and limits, and any callers: what *)
(* reaches a statement has passed the checks of its feed; a refusal has a   *)
(* remedy, and none undoes another; and the refusals are HttpPipeline's.    *)
(***************************************************************************)
EXTENDS FeedRequest, FiniteSetTheorems, TLAPS

Answers ==
    [code : {"InvalidRequest", "UnsupportedFeed", "InvalidCursor"}, status : {400, 422},
     fields : SUBSET Fields]

\* The fields of a request are there, and its lists end.
Wellformed(r) == DOMAIN r = Fields /\ IsFiniteSet(r.kinds) /\ IsFiniteSet(r.evaluators)
-----------------------------------------------------------------------------
(* Sequences of refusals. *)

\* Of two sequences, the first that is not empty begins what they make together.
LEMMA FirstOfTwo ==
    ASSUME NEW S, NEW s \in Seq(S), NEW t \in Seq(S)
    PROVE  /\ s \o t \in Seq(S)
           /\ s \o t = <<>> <=> s = <<>> /\ t = <<>>
           /\ s # <<>> => (s \o t)[1] = s[1]
           /\ s = <<>> => s \o t = t
<1>1. s \o t \in Seq(S) /\ Len(s \o t) = Len(s) + Len(t) /\ Len(s) \in Nat /\ Len(t) \in Nat
  OBVIOUS
<1>2. s = <<>> <=> Len(s) = 0
  OBVIOUS
<1>3. t = <<>> <=> Len(t) = 0
  OBVIOUS
<1>4. s \o t = <<>> <=> Len(s \o t) = 0
  BY <1>1
<1>5. ASSUME s # <<>> PROVE (s \o t)[1] = s[1]
  BY <1>1, <1>2, <1>5
<1>6. ASSUME s = <<>> PROVE s \o t = t
  BY <1>6
<1>. QED BY <1>1, <1>2, <1>3, <1>4, <1>5, <1>6

Refusing(code, status, fields) == [code |-> code, status |-> status, fields |-> fields]

LEMMA AnswersAre ==
    /\ Refusing("InvalidCursor", 400, {"cursor"}) \in Answers
    /\ Refusing("UnsupportedFeed", 400, {"feed"}) \in Answers
    /\ Refusing("InvalidRequest", 400, {"ptype"}) \in Answers
    /\ Refusing("InvalidRequest", 400, {"viewer"}) \in Answers
    /\ Refusing("InvalidRequest", 422, {"evaluators"}) \in Answers
    /\ Refusing("InvalidRequest", 422, {"kinds"}) \in Answers
    /\ Refusing("InvalidRequest", 422, {"quality"}) \in Answers
    /\ Refusing("InvalidRequest", 422, {"limit"}) \in Answers
BY DEF Refusing, Answers, Fields

LEMMA MalformedFields == ASSUME NEW r PROVE Malformed(r) \in SUBSET Fields
BY DEF Malformed, Fields

Scoped(r) == r.ptype \in {"hypercerts", "maearth"}

\* What applyAuthenticatedViewer refuses.
Foreign(r) ==
    Scoped(r) /\ IF caller = None THEN r.viewer = None ELSE r.viewer \notin {None, caller}

LEMMA ViewerRefusals ==
    ASSUME NEW r
    PROVE  /\ ViewerChecks(r) \in Seq(Answers)
           /\ ViewerChecks(r) = <<>> <=> ~ Foreign(r)
           /\ Foreign(r) => ViewerChecks(r)[1] = Refusing("InvalidRequest", 400, {"viewer"})
<1> DEFINE fails1 == Scoped(r) /\ caller = None /\ r.viewer = None
           fails2 == Scoped(r) /\ caller # None /\ r.viewer \notin {None, caller}
           c1 == Check(fails1, "InvalidRequest", 400, {"viewer"})
           c2 == Check(fails2, "InvalidRequest", 400, {"viewer"})
<1>1. ViewerChecks(r) = c1 \o c2
  BY DEF ViewerChecks, Scoped
<1>2. /\ c1 \in Seq(Answers) /\ (c1 = <<>> <=> ~ fails1)
      /\ fails1 => c1[1] = Refusing("InvalidRequest", 400, {"viewer"})
  BY AnswersAre DEF Check, Refusing
<1>3. /\ c2 \in Seq(Answers) /\ (c2 = <<>> <=> ~ fails2)
      /\ fails2 => c2[1] = Refusing("InvalidRequest", 400, {"viewer"})
  BY AnswersAre DEF Check, Refusing
<1>4. Foreign(r) <=> fails1 \/ fails2
  BY DEF Foreign
<1> HIDE DEF c1, c2, fails1, fails2
<1>. QED BY <1>1, <1>2, <1>3, <1>4, FirstOfTwo

LEMMA RegistryRefusals ==
    ASSUME NEW r
    PROVE  /\ RegistryChecks(r) \in Seq(Answers)
           /\ RegistryChecks(r) = <<>> <=> r.feed \in Feeds /\ r.ptype = r.feed
           /\ r.feed \notin Feeds =>
                  RegistryChecks(r)[1] = Refusing("UnsupportedFeed", 400, {"feed"})
           /\ r.feed \in Feeds /\ r.ptype # r.feed =>
                  RegistryChecks(r)[1] = Refusing("InvalidRequest", 400, {"ptype"})
<1> DEFINE fails1 == r.feed \notin Feeds
           fails2 == r.ptype # r.feed
           c1 == Check(fails1, "UnsupportedFeed", 400, {"feed"})
           c2 == Check(fails2, "InvalidRequest", 400, {"ptype"})
<1>1. RegistryChecks(r) = c1 \o c2
  BY DEF RegistryChecks
<1>2. /\ c1 \in Seq(Answers) /\ (c1 = <<>> <=> ~ fails1)
      /\ fails1 => c1[1] = Refusing("UnsupportedFeed", 400, {"feed"})
  BY AnswersAre DEF Check, Refusing
<1>3. /\ c2 \in Seq(Answers) /\ (c2 = <<>> <=> ~ fails2)
      /\ fails2 => c2[1] = Refusing("InvalidRequest", 400, {"ptype"})
  BY AnswersAre DEF Check, Refusing
<1> HIDE DEF c1, c2
<1>. QED BY <1>1, <1>2, <1>3, FirstOfTwo

LEMMA CursorRefusals ==
    ASSUME NEW r
    PROVE  /\ CursorCheck(r) \in Seq(Answers)
           /\ CursorCheck(r) = <<>> <=> ~ Positioned(r) \/ r.cursor = r.feed
           /\ CursorCheck(r) # <<>> =>
                  CursorCheck(r)[1] = Refusing("InvalidCursor", 400, {"cursor"})
<1> DEFINE fails == Positioned(r) /\ r.cursor # r.feed
           c == Check(fails, "InvalidCursor", 400, {"cursor"})
<1>1. CursorCheck(r) = c
  BY DEF CursorCheck
<1>2. /\ c \in Seq(Answers) /\ (c = <<>> <=> ~ fails)
      /\ fails => c[1] = Refusing("InvalidCursor", 400, {"cursor"})
  BY AnswersAre DEF Check, Refusing
<1>. QED BY <1>1, <1>2

-----------------------------------------------------------------------------
(* The refusals of the feeds, each with the parameter that is at fault. *)

\* What is wrong with a parameter of the feed itself.
Improper(field, r) ==
    \/ field = "evaluators" /\ r.feed # "maearth" /\ Cardinality(r.evaluators) > MaxEvaluators
    \/ field = "kinds" /\ (UnknownKinds(r) # {} \/ (r.feed # "maearth" /\ Cardinality(r.kinds) > MaxKinds))
    \/ field = "quality" /\ r.feed # "maearth" /\ r.quality # None /\ ~ r.quality \subseteq Qualities
    \/ field = "limit" /\ LimitOf(r) \notin 1 .. MaxLimit

\* The refusals of a list of checks of the feed: none without a fault, and the first
\* has one.
Faithful(checks, r, fields) ==
    /\ checks \in Seq(Answers)
    /\ checks = <<>> <=> \A field \in fields : ~ Improper(field, r)
    /\ checks # <<>> => \E field \in fields :
           Improper(field, r) /\ checks[1] = Refusing("InvalidRequest", 422, {field})

LEMMA FaithfulTogether ==
    ASSUME NEW s, NEW t, NEW r, NEW F, NEW G, Faithful(s, r, F), Faithful(t, r, G)
    PROVE  Faithful(s \o t, r, F \cup G)
<1>1. /\ s \o t \in Seq(Answers) /\ (s \o t = <<>> <=> s = <<>> /\ t = <<>>)
      /\ s # <<>> => (s \o t)[1] = s[1]
      /\ s = <<>> => s \o t = t
  BY FirstOfTwo DEF Faithful
<1>. QED BY <1>1 DEF Faithful

LEMMA LimitFaithful == ASSUME NEW r PROVE Faithful(LimitCheck(r), r, {"limit"})
<1> DEFINE fails == LimitOf(r) \notin 1 .. MaxLimit
           c == Check(fails, "InvalidRequest", 422, {"limit"})
<1>1. /\ c \in Seq(Answers) /\ (c = <<>> <=> ~ fails)
      /\ fails => c[1] = Refusing("InvalidRequest", 422, {"limit"})
  BY AnswersAre DEF Check, Refusing
<1>2. fails <=> Improper("limit", r)
  BY DEF Improper
<1>3. LimitCheck(r) = c
  BY DEF LimitCheck
<1> HIDE DEF fails, c
<1>. QED BY <1>1, <1>2, <1>3 DEF Faithful

LEMMA FeedFaithful ==
    ASSUME NEW r
    PROVE  Faithful(FeedChecks(r), r, {"evaluators", "kinds", "quality", "limit"})
<1> DEFINE unknown == UnknownKinds(r) # {}
           c == Check(unknown, "InvalidRequest", 422, {"kinds"})
<1>1. c = KindsCheck(r)
  BY DEF KindsCheck
<1>2. /\ c \in Seq(Answers) /\ (c = <<>> <=> ~ unknown)
      /\ unknown => c[1] = Refusing("InvalidRequest", 422, {"kinds"})
  BY AnswersAre DEF Check, Refusing
<1>3. unknown => Improper("kinds", r)
  BY DEF Improper
<1> HIDE DEF unknown, c
<1>4. CASE r.feed = "maearth"
  <2>1. Improper("kinds", r) <=> unknown
    BY <1>4 DEF Improper, unknown
  <2>2. Faithful(KindsCheck(r), r, {"kinds"})
    BY <1>1, <1>2, <2>1 DEF Faithful
  <2>3. Faithful(MaearthChecks(r), r, {"limit"} \cup {"kinds"})
    BY <2>2, LimitFaithful, FaithfulTogether DEF MaearthChecks
  <2>4. ~ Improper("evaluators", r) /\ ~ Improper("quality", r)
    BY <1>4 DEF Improper
  <2>. QED BY <1>4, <2>3, <2>4 DEF FeedChecks, Faithful
<1>5. CASE r.feed # "maearth"
  <2> DEFINE many == Cardinality(r.evaluators) > MaxEvaluators
             long == Cardinality(r.kinds) > MaxKinds
             odd == r.quality # None /\ ~ r.quality \subseteq Qualities
             c1 == Check(many, "InvalidRequest", 422, {"evaluators"})
             c2 == Check(long, "InvalidRequest", 422, {"kinds"})
             c4 == Check(odd, "InvalidRequest", 422, {"quality"})
  <2>1. /\ c1 \in Seq(Answers) /\ (c1 = <<>> <=> ~ many)
        /\ many => c1[1] = Refusing("InvalidRequest", 422, {"evaluators"})
    BY AnswersAre DEF Check, Refusing
  <2>2. /\ c2 \in Seq(Answers) /\ (c2 = <<>> <=> ~ long)
        /\ long => c2[1] = Refusing("InvalidRequest", 422, {"kinds"})
    BY AnswersAre DEF Check, Refusing
  <2>3. /\ c4 \in Seq(Answers) /\ (c4 = <<>> <=> ~ odd)
        /\ odd => c4[1] = Refusing("InvalidRequest", 422, {"quality"})
    BY AnswersAre DEF Check, Refusing
  <2>4. /\ many <=> Improper("evaluators", r)
        /\ odd <=> Improper("quality", r)
        /\ long \/ unknown <=> Improper("kinds", r)
    BY <1>5 DEF Improper, unknown
  <2>5. HypercertsChecks(r) = c1 \o c2 \o KindsCheck(r) \o c4 \o LimitCheck(r)
    BY DEF HypercertsChecks
  <2> HIDE DEF many, long, odd, c1, c2, c4
  <2>6. Faithful(c1, r, {"evaluators"}) /\ Faithful(c4, r, {"quality"})
    BY <2>1, <2>3, <2>4 DEF Faithful
  <2>7. Faithful(c2 \o KindsCheck(r), r, {"kinds"})
    BY <1>1, <1>2, <2>2, <2>4, FirstOfTwo DEF Faithful
  <2>8. c1 \o c2 \o KindsCheck(r) = c1 \o (c2 \o KindsCheck(r))
    BY <1>1, <1>2, <2>1, <2>2
  <2>9. Faithful(c1 \o c2 \o KindsCheck(r), r, {"evaluators"} \cup {"kinds"})
    BY <2>6, <2>7, <2>8, FaithfulTogether
  <2>10. Faithful(c1 \o c2 \o KindsCheck(r) \o c4, r, {"evaluators"} \cup {"kinds"} \cup {"quality"})
    BY <2>6, <2>9, FaithfulTogether
  <2>11. Faithful(HypercertsChecks(r), r, {"evaluators"} \cup {"kinds"} \cup {"quality"} \cup {"limit"})
    BY <2>5, <2>10, LimitFaithful, FaithfulTogether
  <2>12. {"evaluators"} \cup {"kinds"} \cup {"quality"} \cup {"limit"}
             = {"evaluators", "kinds", "quality", "limit"}
    OBVIOUS
  <2>. QED BY <1>5, <2>11, <2>12 DEF FeedChecks
<1>. QED BY <1>4, <1>5
-----------------------------------------------------------------------------
(* The order of the checks. *)

Admitted(r) == Malformed(r) = {} /\ ~ Foreign(r)
Registered(r) == r.feed \in Feeds /\ r.ptype = r.feed
Decodable(r) == ~ Positioned(r) \/ r.cursor = r.feed

\* Whichever check is the first to fail gives the answer; without one there is none.
LEMMA RefusalOrder ==
    ASSUME NEW r
    PROVE  /\ Refusals(r) \in Seq(Answers)
           /\ Malformed(r) # {} =>
                  Refused(r) /\ Refusal(r) = Refusing("InvalidRequest", 400, Malformed(r))
           /\ Malformed(r) = {} /\ Foreign(r) =>
                  Refused(r) /\ Refusal(r) = Refusing("InvalidRequest", 400, {"viewer"})
           /\ Admitted(r) /\ r.feed \notin Feeds =>
                  Refused(r) /\ Refusal(r) = Refusing("UnsupportedFeed", 400, {"feed"})
           /\ Admitted(r) /\ r.feed \in Feeds /\ r.ptype # r.feed =>
                  Refused(r) /\ Refusal(r) = Refusing("InvalidRequest", 400, {"ptype"})
           /\ Admitted(r) /\ Registered(r) /\ FeedChecks(r) # <<>> =>
                  Refused(r) /\ Refusal(r) = FeedChecks(r)[1]
           /\ Admitted(r) /\ Registered(r) /\ FeedChecks(r) = <<>> /\ ~ Decodable(r) =>
                  Refused(r) /\ Refusal(r) = Refusing("InvalidCursor", 400, {"cursor"})
           /\ Admitted(r) /\ Registered(r) /\ FeedChecks(r) = <<>> /\ Decodable(r) => ~ Refused(r)
<1> DEFINE bad == Malformed(r) # {}
           m == Check(bad, "InvalidRequest", 400, Malformed(r))
           v == ViewerChecks(r)
           g == RegistryChecks(r)
           f == FeedChecks(r)
           k == CursorCheck(r)
<1>1. Refusing("InvalidRequest", 400, Malformed(r)) \in Answers
  BY MalformedFields DEF Refusing, Answers
<1>2. Refusals(r) = m \o (v \o g) \o f \o k
  BY DEF Refusals, ProcedureChecks
<1>3. bad <=> Malformed(r) # {}
  OBVIOUS
<1> HIDE DEF bad
<1>4. /\ m \in Seq(Answers) /\ (m = <<>> <=> ~ bad)
      /\ bad => m[1] = Refusing("InvalidRequest", 400, Malformed(r))
  BY <1>1 DEF Check, Refusing
<1>5. f \in Seq(Answers)
  BY FeedFaithful DEF Faithful
<1>6. v \in Seq(Answers) /\ g \in Seq(Answers) /\ k \in Seq(Answers)
  BY ViewerRefusals, RegistryRefusals, CursorRefusals
<1>7. /\ v = <<>> <=> ~ Foreign(r)
      /\ Foreign(r) => v[1] = Refusing("InvalidRequest", 400, {"viewer"})
  BY ViewerRefusals
<1>8. /\ g = <<>> <=> Registered(r)
      /\ r.feed \notin Feeds => g[1] = Refusing("UnsupportedFeed", 400, {"feed"})
      /\ r.feed \in Feeds /\ r.ptype # r.feed => g[1] = Refusing("InvalidRequest", 400, {"ptype"})
  BY RegistryRefusals DEF Registered
<1>9. /\ k = <<>> <=> Decodable(r)
      /\ ~ Decodable(r) => k[1] = Refusing("InvalidCursor", 400, {"cursor"})
  BY CursorRefusals DEF Decodable
<1> HIDE DEF m, v, g, f, k
<1>10. /\ v \o g \in Seq(Answers) /\ (v \o g = <<>> <=> v = <<>> /\ g = <<>>)
       /\ v # <<>> => (v \o g)[1] = v[1]
       /\ v = <<>> => v \o g = g
  BY <1>6, FirstOfTwo
<1>11. /\ m \o (v \o g) \in Seq(Answers) /\ (m \o (v \o g) = <<>> <=> m = <<>> /\ v \o g = <<>>)
       /\ m # <<>> => (m \o (v \o g))[1] = m[1]
       /\ m = <<>> => m \o (v \o g) = v \o g
  BY <1>4, <1>10, FirstOfTwo
<1> DEFINE p == m \o (v \o g)
<1> HIDE DEF p
<1>12. /\ p \o f \in Seq(Answers) /\ (p \o f = <<>> <=> p = <<>> /\ f = <<>>)
       /\ p # <<>> => (p \o f)[1] = p[1]
       /\ p = <<>> => p \o f = f
  BY <1>5, <1>11, FirstOfTwo DEF p
<1>13. /\ p \o f \o k \in Seq(Answers) /\ (p \o f \o k = <<>> <=> p \o f = <<>> /\ k = <<>>)
       /\ p \o f # <<>> => (p \o f \o k)[1] = (p \o f)[1]
       /\ p \o f = <<>> => p \o f \o k = k
  BY <1>6, <1>12, FirstOfTwo
<1>14. /\ p = <<>> <=> m = <<>> /\ v = <<>> /\ g = <<>>
       /\ m # <<>> => p[1] = m[1]
       /\ m = <<>> /\ v # <<>> => p[1] = v[1]
       /\ m = <<>> /\ v = <<>> => p = g
  BY <1>10, <1>11 DEF p
<1>15. Refusals(r) = p \o f \o k
  BY <1>2 DEF p
<1>16. /\ Refusals(r) = <<>> <=> p = <<>> /\ f = <<>> /\ k = <<>>
       /\ p # <<>> => Refusals(r)[1] = p[1]
       /\ p = <<>> /\ f # <<>> => Refusals(r)[1] = f[1]
       /\ p = <<>> /\ f = <<>> => Refusals(r) = k
  BY <1>12, <1>13, <1>15
<1>17. Refusals(r) \in Seq(Answers)
  BY <1>13, <1>15
<1>18. f = FeedChecks(r)
  BY DEF f
<1>. QED
  BY <1>3, <1>4, <1>7, <1>8, <1>9, <1>14, <1>16, <1>17, <1>18
  DEF Refused, Refusal, Admitted, Registered

\* What is wrong with a field that a refusal names.
AtFault(field, r) ==
    CASE field = "feed"       -> r.feed \notin Feeds
      [] field = "ptype"      -> r.feed \in Feeds /\ r.ptype # r.feed
      [] field = "viewer"     -> \/ r.viewer \notin Dids \cup {None}
                                 \/ IF caller = None THEN r.viewer = None
                                                     ELSE r.viewer \notin {None, caller}
      [] field = "actor"      -> r.actor \notin Dids \cup {None}
      [] field = "evaluators" ->
            IF Malformed(r) # {}
            THEN ~ r.evaluators \subseteq Dids \/ Cardinality(r.evaluators) > MaxItems
            ELSE Cardinality(r.evaluators) > MaxEvaluators
      [] field = "kinds"      -> Cardinality(r.kinds) > MaxItems \/ (r.feed \in Feeds /\ Improper("kinds", r))
      [] field = "quality"    -> r.quality # None /\ ~ r.quality \subseteq Qualities
      [] field = "limit"      -> \/ r.limit # None /\ r.limit \notin 1 .. MaxPage
                                 \/ LimitOf(r) \notin 1 .. MaxLimit
      [] field = "cursor"     ->
            IF Refusal(r).code = "InvalidCursor" THEN r.feed \in Feeds /\ ~ Decodable(r)
                                                 ELSE r.cursor = "overlong"

\* A refusal names fields, each of them for a fault of its own.
LEMMA NamesFaults ==
    ASSUME NEW r, Refused(r)
    PROVE  /\ Refusal(r) \in Answers /\ Refusal(r).fields # {}
           /\ \A field \in Refusal(r).fields : AtFault(field, r)
<1> DEFINE refused == Refusal(r)
<1>1. CASE Malformed(r) # {}
  <2>1. /\ refused = Refusing("InvalidRequest", 400, Malformed(r))
        /\ refused.code # "InvalidCursor" /\ refused.fields = Malformed(r)
    BY <1>1, RefusalOrder DEF Refusing
  <2>2. refused \in Answers
    BY <2>1, MalformedFields DEF Refusing, Answers
  <2>3. refused.fields # {}
    BY <1>1, <2>1
  <2>4. ASSUME NEW field \in Malformed(r) PROVE AtFault(field, r)
    BY <1>1, <2>1, <2>4 DEF Malformed, AtFault
  <2>. QED BY <2>1, <2>2, <2>3, <2>4
<1>2. CASE Malformed(r) = {} /\ Foreign(r)
  <2>1. refused = Refusing("InvalidRequest", 400, {"viewer"})
    BY <1>2, RefusalOrder
  <2>2. AtFault("viewer", r)
    BY <1>2 DEF Foreign, AtFault
  <2>. QED BY <2>1, <2>2, AnswersAre DEF Refusing
<1>3. CASE Admitted(r) /\ r.feed \notin Feeds
  <2>1. refused = Refusing("UnsupportedFeed", 400, {"feed"})
    BY <1>3, RefusalOrder
  <2>2. AtFault("feed", r)
    BY <1>3 DEF AtFault
  <2>. QED BY <2>1, <2>2, AnswersAre DEF Refusing
<1>4. CASE Admitted(r) /\ r.feed \in Feeds /\ r.ptype # r.feed
  <2>1. refused = Refusing("InvalidRequest", 400, {"ptype"})
    BY <1>4, RefusalOrder
  <2>2. AtFault("ptype", r)
    BY <1>4 DEF AtFault
  <2>. QED BY <2>1, <2>2, AnswersAre DEF Refusing
<1>5. CASE Admitted(r) /\ Registered(r) /\ FeedChecks(r) # <<>>
  <2> DEFINE own == FeedChecks(r)
  <2>1. own # <<>> /\ refused = own[1]
    BY <1>5, RefusalOrder
  <2>2. Faithful(own, r, {"evaluators", "kinds", "quality", "limit"})
    BY FeedFaithful
  <2> HIDE DEF own, refused
  <2>3. PICK field \in {"evaluators", "kinds", "quality", "limit"} :
            Improper(field, r) /\ refused = Refusing("InvalidRequest", 422, {field})
    BY <2>1, <2>2 DEF Faithful
  <2>4. AtFault(field, r)
    BY <1>5, <2>3 DEF Improper, AtFault, Admitted, Registered
  <2>. QED BY <2>3, <2>4, AnswersAre DEF Refusing, refused
<1>6. CASE Admitted(r) /\ Registered(r) /\ FeedChecks(r) = <<>> /\ ~ Decodable(r)
  <2>1. refused = Refusing("InvalidCursor", 400, {"cursor"})
    BY <1>6, RefusalOrder
  <2>2. refused.code = "InvalidCursor" /\ refused.fields = {"cursor"}
    BY <2>1 DEF Refusing
  <2>3. AtFault("cursor", r)
    BY <1>6, <2>2 DEF AtFault, Registered
  <2>. QED BY <2>1, <2>2, <2>3, AnswersAre
<1>7. CASE Admitted(r) /\ Registered(r) /\ FeedChecks(r) = <<>> /\ Decodable(r)
  BY <1>7, RefusalOrder
<1>. QED BY <1>1, <1>2, <1>3, <1>4, <1>5, <1>6, <1>7 DEF Admitted, Registered
-----------------------------------------------------------------------------
(* Types. *)

\* A client who was refused knows why.
IInv ==
    /\ TypeOK
    /\ Wellformed(request)
    /\ caller \in {None} \cup Dids
    /\ phase = "refused" => Refused(request) /\ refusal = Refusal(request)

\* What passes every check is what the statement of its feed expects.
LEMMA PassedIsSound ==
    ASSUME NEW r, ~ Refused(r), Wellformed(r), caller \in {None} \cup Dids
    PROVE  LET page == Normalized(r) IN
           /\ page.feed \in Feeds /\ page.feed = r.feed
           /\ page.viewer \in Dids /\ (caller # None => page.viewer = caller)
           /\ page.kinds \subseteq Kinds(page.feed)
           /\ page.evaluators \subseteq Dids /\ Cardinality(page.evaluators) <= MaxEvaluators
           /\ page.quality # None => page.quality \subseteq Qualities
           /\ page.limit \in 1 .. MaxLimit
           /\ page.from \in {None, page.feed}
<1>1. /\ Malformed(r) = {} /\ ~ Foreign(r) /\ r.feed \in Feeds /\ r.ptype = r.feed
      /\ FeedChecks(r) = <<>> /\ Decodable(r)
  BY RefusalOrder DEF Admitted, Registered
<1>2. \A field \in {"evaluators", "kinds", "quality", "limit"} : ~ Improper(field, r)
  BY <1>1, FeedFaithful DEF Faithful
<1>3. r.feed \in {"hypercerts", "maearth"}
  BY <1>1 DEF Feeds
<1>4. r.viewer \in Dids \cup {None} /\ (r.feed = "hypercerts" => r.evaluators \subseteq Dids)
  <2>1. "viewer" \notin Malformed(r) /\ "evaluators" \notin Malformed(r)
    BY <1>1
  <2>. QED BY <1>1, <1>3, <2>1 DEF Malformed
<1>5. BoundViewer(r) \in Dids /\ (caller # None => BoundViewer(r) = caller)
  BY <1>1, <1>3, <1>4 DEF BoundViewer, Foreign, Scoped
<1>6. Cardinality(r.evaluators) \in Nat /\ Cardinality({}) = 0
  BY FS_CardinalityType, FS_EmptySet DEF Wellformed
<1>7. r.feed # "maearth" => Cardinality(r.evaluators) <= MaxEvaluators
                            /\ (r.quality # None => r.quality \subseteq Qualities)
  BY <1>2, <1>6, LimitsAssumption DEF Improper
<1>8. r.kinds \subseteq Kinds(r.feed) /\ LimitOf(r) \in 1 .. MaxLimit
  BY <1>2 DEF Improper, UnknownKinds
<1>9. (IF Positioned(r) THEN r.cursor ELSE None) \in {None, r.feed}
  BY <1>1 DEF Decodable
<1> DEFINE page == Normalized(r)
<1>10. /\ page.feed = r.feed /\ page.viewer = BoundViewer(r) /\ page.kinds = r.kinds
       /\ page.evaluators = (IF r.feed = "hypercerts" THEN r.evaluators ELSE {})
       /\ page.quality = (IF r.feed = "hypercerts" THEN r.quality ELSE None)
       /\ page.limit = LimitOf(r) /\ page.from = (IF Positioned(r) THEN r.cursor ELSE None)
  BY DEF Normalized
<1> HIDE DEF page
<1>11. page.evaluators \subseteq Dids /\ Cardinality(page.evaluators) <= MaxEvaluators
  <2>1. CASE r.feed = "hypercerts"
    BY <1>4, <1>7, <1>10, <2>1
  <2>2. CASE r.feed # "hypercerts"
    BY <1>6, <1>10, <2>2, LimitsAssumption
  <2>. QED BY <2>1, <2>2
<1>12. page.quality # None => page.quality \subseteq Qualities
  BY <1>3, <1>7, <1>10
<1>. QED BY <1>1, <1>5, <1>8, <1>9, <1>10, <1>11, <1>12 DEF page

LEMMA ReaderIsRight ==
    ASSUME NEW procedure, NEW feed \in Feeds
    PROVE  /\ Reader(procedure, feed) = "MaearthFeedService" => feed = "maearth"
           /\ Reader(procedure, feed) = "HydratedFeedService" => feed = "hypercerts"
BY DEF Reader, Hydrator, Feeds

\* A list that was finite is finite after its change, whatever the advice.
LEMMA MendedWellformed ==
    ASSUME NEW r, Wellformed(r), NEW field \in Fields, NEW value \in Advice(field, r)
    PROVE  Wellformed([r EXCEPT ![field] = value])
<1> DEFINE m == [r EXCEPT ![field] = value]
<1>1. DOMAIN m = Fields /\ m[field] = value /\ \A f \in Fields \ {field} : m[f] = r[f]
  BY DEF Wellformed
<1>2. CASE field = "evaluators"
  <2>1. value \subseteq r.evaluators
    BY <1>2 DEF Advice, Fewer
  <2>. QED BY <1>1, <1>2, <2>1, FS_Subset DEF Wellformed, Fields
<1>3. CASE field = "kinds"
  <2>1. value \in KindsAdvice(r)
    BY <1>3 DEF Advice
  <2>2. value \subseteq r.kinds \/ \E unknown, kind : value = (r.kinds \ {unknown}) \cup {kind}
    <3>1. CASE Cardinality(r.kinds) > MaxItems
      BY <2>1, <3>1 DEF KindsAdvice, Fewer
    <3>2. CASE ~ (Cardinality(r.kinds) > MaxItems) /\ r.feed # "maearth" /\ Cardinality(r.kinds) > MaxKinds
      BY <2>1, <3>2 DEF KindsAdvice, Fewer
    <3>3. CASE ~ (Cardinality(r.kinds) > MaxItems) /\ ~ (r.feed # "maearth" /\ Cardinality(r.kinds) > MaxKinds)
      <4>1. value \in {(r.kinds \ {unknown}) \cup {kind} :
                          unknown \in UnknownKinds(r), kind \in OfferedKinds(r.feed)}
        BY <2>1, <3>3 DEF KindsAdvice
      <4>. QED BY <4>1
    <3>. QED BY <3>1, <3>2, <3>3
  <2>3. IsFiniteSet(value)
    <3>1. ASSUME NEW unknown, NEW kind PROVE IsFiniteSet((r.kinds \ {unknown}) \cup {kind})
      BY FS_Subset, FS_AddElement DEF Wellformed
    <3>. QED BY <2>2, <3>1, FS_Subset DEF Wellformed
  <2>. QED BY <1>1, <1>3, <2>3 DEF Wellformed, Fields
<1>4. CASE field \notin {"evaluators", "kinds"}
  BY <1>1, <1>4 DEF Wellformed, Fields
<1>. QED BY <1>2, <1>3, <1>4

LEMMA Initially == Init => IInv
<1> SUFFICES ASSUME Init PROVE IInv
  OBVIOUS
<1>1. Wellformed(request)
  BY RequestsAssumption DEF Init, Wellformed
<1>. QED BY <1>1 DEF Init, IInv, TypeOK

\* The refusals of a request are those of its caller and of the feeds that are enabled.
LEMMA RefusalsStay ==
    ASSUME UNCHANGED <<maearthEnabled, caller, request>>
    PROVE  Refusals(request)' = Refusals(request)
<1>1. ViewerChecks(request)' = ViewerChecks(request)
  BY DEF ViewerChecks
<1>2. RegistryChecks(request)' = RegistryChecks(request)
  BY DEF RegistryChecks, Feeds
<1>. QED BY <1>1, <1>2 DEF Refusals, ProcedureChecks

LEMMA Stepwise ==
    ASSUME IInv, [Next]_vars
    PROVE  IInv'
<1> USE DEF IInv
<1>1. CASE Refuse
  <2>1. refusal' \in Answers
    BY <1>1, NamesFaults DEF Refuse
  <2>2. UNCHANGED <<maearthEnabled, caller, request>>
    BY <1>1 DEF Refuse
  <2>3. Wellformed(request)' /\ (caller \in {None} \cup Dids)'
    BY <2>2
  <2>4. Refused(request)' /\ (refusal = Refusal(request))'
    BY <1>1, <2>2, RefusalsStay DEF Refuse, Refused, Refusal
  <2>5. phase' = "refused" /\ maearthEnabled' \in BOOLEAN
    BY <1>1 DEF Refuse, TypeOK
  <2>6. TypeOK'
    BY <2>1, <2>5 DEF TypeOK, Answers
  <2>. QED BY <2>3, <2>4, <2>6
<1>2. ASSUME NEW procedure \in {"getFeed", "getFeedSkeleton"}, Serve(procedure) PROVE IInv'
  <2>1. UNCHANGED <<maearthEnabled, caller, request>> /\ phase' = "served" /\ ~ Refused(request)
    BY <1>2 DEF Serve
  <2> DEFINE page == Normalized(request)
             reader == Reader(procedure, request.feed)
  <2>2. served'.page = page /\ served'.reader = reader
    BY <1>2 DEF Serve
  <2>3. Feeds' = Feeds
    BY <2>1 DEF Feeds
  <2>4. /\ page.feed \in Feeds /\ page.feed = request.feed
        /\ page.viewer \in Dids /\ (caller # None => page.viewer = caller)
        /\ page.kinds \subseteq Kinds(page.feed)
        /\ page.evaluators \subseteq Dids /\ Cardinality(page.evaluators) <= MaxEvaluators
        /\ page.quality # None => page.quality \subseteq Qualities
        /\ page.limit \in 1 .. MaxLimit
        /\ page.from \in {None, page.feed}
    BY <2>1, PassedIsSound
  <2>5. /\ reader = "MaearthFeedService" => page.feed = "maearth"
        /\ reader = "HydratedFeedService" => page.feed = "hypercerts"
    BY <2>4, ReaderIsRight
  <2> HIDE DEF page, reader
  <2>6. TypeOK'
    BY <2>1, <2>2, <2>3, <2>4, <2>5 DEF TypeOK
  <2>. QED BY <2>1, <2>6 DEF Wellformed
<1>3. ASSUME NEW field \in Fields, Mend(field) PROVE IInv'
  <2>1. PICK value \in Advice(field, request) : request' = [request EXCEPT ![field] = value]
    BY <1>3 DEF Mend
  <2>2. Wellformed([request EXCEPT ![field] = value])
    BY MendedWellformed
  <2>3. Wellformed(request')
    BY <2>1, <2>2
  <2>4. phase' = "sending" /\ UNCHANGED <<maearthEnabled, caller>>
    BY <1>3 DEF Mend
  <2>. QED BY <2>3, <2>4 DEF TypeOK, Wellformed
<1>4. ASSUME NEW feed \in {"hypercerts", "maearth"}, Turn(feed) PROVE IInv'
  <2>1. Wellformed(request')
    BY <1>4 DEF Turn, Wellformed, Fields
  <2>. QED BY <1>4, <2>1 DEF Turn, TypeOK, Wellformed
<1>5. CASE UNCHANGED vars
  <2>1. TypeOK' /\ Wellformed(request)' /\ (caller \in {None} \cup Dids)'
    BY <1>5 DEF vars, TypeOK, Wellformed, Feeds
  <2>2. (phase = "refused" => Refused(request) /\ refusal = Refusal(request))'
    BY <1>5, RefusalsStay DEF vars, Refused, Refusal
  <2>. QED BY <2>1, <2>2
<1>. QED BY <1>1, <1>2, <1>3, <1>4, <1>5 DEF Next

LEMMA Inductive == Spec => []IInv
BY Initially, Stepwise, PTL DEF Spec

THEOREM TypeCorrect == Spec => []TypeOK
<1>1. IInv => TypeOK
  BY DEF IInv
<1>. QED BY <1>1, Inductive, PTL
-----------------------------------------------------------------------------
(* No advice undoes another. *)

LEMMA WrongInType ==
    ASSUME NEW r, Wellformed(r)
    PROVE  \A field \in Fields : WrongIn(field, r) \in Nat
<1>1. /\ Cardinality(r.kinds) \in Nat
      /\ Cardinality(IF r.feed \in Feeds THEN UnknownKinds(r) ELSE r.kinds) \in Nat
  <2>1. /\ IsFiniteSet(r.kinds) /\ UnknownKinds(r) \subseteq r.kinds
    BY DEF Wellformed, UnknownKinds
  <2>. QED BY <2>1, FS_Subset, FS_CardinalityType
<1>2. ASSUME NEW c PROVE Count(c) \in Nat
  BY DEF Count
<1>. QED BY <1>1, <1>2 DEF WrongIn, Fields

\* What lessens in one field and grows in none, lessens.
LEMMA Outweighs ==
    ASSUME NEW r, Wellformed(r), NEW m, Wellformed(m), NEW field \in Fields,
           WrongIn(field, m) < WrongIn(field, r),
           \A f \in Fields : WrongIn(f, m) <= WrongIn(f, r)
    PROVE  Wrong(m) < Wrong(r)
BY WrongInType DEF Wrong, Fields

\* A change of one field is felt in no other, but for a feed that was not one.
LEMMA OtherwiseAsGood ==
    ASSUME NEW r, Wellformed(r), NEW field \in Fields, NEW m, Wellformed(m),
           \A f \in Fields \ {field} : m[f] = r[f],
           field = "feed" => m.feed \in Feeds /\ r.feed \notin Feeds
    PROVE  \A f \in Fields \ {field} : WrongIn(f, m) <= WrongIn(f, r)
<1>1. field # "feed" => m.feed = r.feed
  BY DEF Fields
<1>2. CASE field # "feed"
  <2>1. WrongIn("feed", m) = WrongIn("feed", r)
    BY <1>1, <1>2 DEF WrongIn
  <2>2. field # "ptype" => WrongIn("ptype", m) = WrongIn("ptype", r)
    BY <1>1, <1>2 DEF WrongIn, Fields
  <2>3. field # "viewer" => WrongIn("viewer", m) = WrongIn("viewer", r)
    BY <1>1, <1>2 DEF WrongIn, Fields
  <2>4. field # "actor" => WrongIn("actor", m) = WrongIn("actor", r)
    BY <1>1, <1>2 DEF WrongIn, Fields
  <2>5. field # "evaluators" => WrongIn("evaluators", m) = WrongIn("evaluators", r)
    BY <1>1, <1>2 DEF WrongIn, Fields
  <2>6. field # "kinds" => WrongIn("kinds", m) = WrongIn("kinds", r)
    BY <1>1, <1>2 DEF WrongIn, Fields, UnknownKinds
  <2>7. field # "quality" => WrongIn("quality", m) = WrongIn("quality", r)
    BY <1>1, <1>2 DEF WrongIn, Fields
  <2>8. field # "limit" => WrongIn("limit", m) = WrongIn("limit", r)
    BY <1>1, <1>2 DEF WrongIn, Fields, LimitOf
  <2>9. field # "cursor" => WrongIn("cursor", m) = WrongIn("cursor", r)
    BY <1>1, <1>2 DEF WrongIn, Fields, Positioned
  <2>. QED BY <1>2, <2>1, <2>2, <2>3, <2>4, <2>5, <2>6, <2>7, <2>8, <2>9, WrongInType DEF Fields
<1>3. CASE field = "feed"
  <2>1. m.feed \in Feeds /\ r.feed \notin Feeds
    BY <1>3
  <2>2. WrongIn("ptype", m) <= WrongIn("ptype", r)
    BY <2>1 DEF WrongIn, Count
  <2>3. WrongIn("cursor", m) <= WrongIn("cursor", r)
    <3>1. m.cursor = r.cursor
      BY <1>3 DEF Fields
    <3>2. Positioned(m) <=> Positioned(r)
      BY <3>1 DEF Positioned
    <3>. QED BY <2>1, <3>1, <3>2 DEF WrongIn, Count
  <2>4. WrongIn("kinds", m) <= WrongIn("kinds", r)
    <3>1. m.kinds = r.kinds
      BY <1>3 DEF Fields
    <3>2. /\ Cardinality(r.kinds) \in Nat /\ Cardinality(UnknownKinds(m)) \in Nat
          /\ Cardinality(UnknownKinds(m)) <= Cardinality(r.kinds)
      BY <3>1, FS_Subset, FS_CardinalityType DEF Wellformed, UnknownKinds
    <3>. QED BY <2>1, <3>1, <3>2 DEF WrongIn
  <2>5. WrongIn("viewer", m) = WrongIn("viewer", r)
    BY <1>3 DEF WrongIn, Fields
  <2>6. WrongIn("actor", m) = WrongIn("actor", r)
    BY <1>3 DEF WrongIn, Fields
  <2>7. WrongIn("evaluators", m) = WrongIn("evaluators", r)
    BY <1>3 DEF WrongIn, Fields
  <2>8. WrongIn("quality", m) = WrongIn("quality", r)
    BY <1>3 DEF WrongIn, Fields
  <2>9. WrongIn("limit", m) = WrongIn("limit", r)
    BY <1>3 DEF WrongIn, Fields, LimitOf
  <2>. QED BY <1>3, <2>2, <2>3, <2>4, <2>5, <2>6, <2>7, <2>8, <2>9, WrongInType DEF Fields
<1>. QED BY <1>2, <1>3

\* Which fields a mended kind list takes from the unknown ones.
LEMMA KindsLessen ==
    ASSUME NEW r, Wellformed(r), NEW m, Wellformed(m), m.feed = r.feed, m.kinds \in KindsAdvice(r),
           Cardinality(r.kinds) > MaxItems \/ r.feed \in Feeds
    PROVE  WrongIn("kinds", m) < WrongIn("kinds", r)
<1> DEFINE before == IF r.feed \in Feeds THEN UnknownKinds(r) ELSE r.kinds
           after == IF m.feed \in Feeds THEN UnknownKinds(m) ELSE m.kinds
<1>1. /\ WrongIn("kinds", r) = Cardinality(r.kinds) + Cardinality(before)
      /\ WrongIn("kinds", m) = Cardinality(m.kinds) + Cardinality(after)
  BY DEF WrongIn
<1>2. /\ IsFiniteSet(r.kinds) /\ before \subseteq r.kinds
      /\ IsFiniteSet(m.kinds) /\ after \subseteq m.kinds
  BY DEF Wellformed, UnknownKinds
<1>3. /\ IsFiniteSet(before) /\ IsFiniteSet(after)
      /\ Cardinality(r.kinds) \in Nat /\ Cardinality(m.kinds) \in Nat
      /\ Cardinality(before) \in Nat /\ Cardinality(after) \in Nat
  BY <1>2, FS_Subset, FS_CardinalityType
<1>4. ASSUME NEW max \in Nat, Cardinality(r.kinds) > max, m.kinds \in Fewer(r.kinds, max)
      PROVE  WrongIn("kinds", m) < WrongIn("kinds", r)
  <2>1. m.kinds \subseteq r.kinds /\ Cardinality(m.kinds) = max
    BY <1>4 DEF Fewer
  <2>2. after \subseteq before
    BY <2>1 DEF UnknownKinds
  <2>3. Cardinality(after) <= Cardinality(before)
    BY <1>3, <2>2, FS_Subset
  <2> HIDE DEF after, before
  <2>. QED BY <1>1, <1>3, <1>4, <2>1, <2>3
<1>5. CASE Cardinality(r.kinds) > MaxItems
  BY <1>4, <1>5, LimitsAssumption DEF KindsAdvice
<1>6. CASE ~ (Cardinality(r.kinds) > MaxItems) /\ r.feed # "maearth" /\ Cardinality(r.kinds) > MaxKinds
  BY <1>4, <1>6, LimitsAssumption DEF KindsAdvice
<1>7. CASE ~ (Cardinality(r.kinds) > MaxItems) /\ ~ (r.feed # "maearth" /\ Cardinality(r.kinds) > MaxKinds)
  <2>1. m.kinds \in {(r.kinds \ {unknown}) \cup {kind} :
                        unknown \in UnknownKinds(r), kind \in OfferedKinds(r.feed)}
    BY <1>7 DEF KindsAdvice
  <2>2. PICK unknown \in UnknownKinds(r), kind \in Kinds(r.feed) :
            m.kinds = (r.kinds \ {unknown}) \cup {kind}
    BY <2>1 DEF OfferedKinds
  <2>3. unknown \in r.kinds /\ unknown \in before /\ r.feed \in Feeds
    BY <1>7, <2>2 DEF UnknownKinds
  <2>4. after = before \ {unknown}
    BY <2>2, <2>3 DEF UnknownKinds, Kinds
  <2>5. Cardinality(after) = Cardinality(before) - 1
    BY <1>3, <2>3, <2>4, FS_RemoveElement
  <2> DEFINE rest == r.kinds \ {unknown}
  <2>6. IsFiniteSet(rest) /\ Cardinality(rest) = Cardinality(r.kinds) - 1
    BY <1>2, <2>3, FS_RemoveElement
  <2> HIDE DEF rest
  <2>7. Cardinality(rest \cup {kind}) = IF kind \in rest THEN Cardinality(rest) ELSE Cardinality(rest) + 1
    BY <2>6, FS_AddElement
  <2>8. Cardinality(m.kinds) <= Cardinality(r.kinds)
    BY <1>3, <2>2, <2>6, <2>7 DEF rest
  <2> HIDE DEF after, before
  <2>. QED BY <1>1, <1>3, <2>5, <2>8
<1>. QED BY <1>5, <1>6, <1>7

\* What a message advises lessens what is wrong with the field it names.
LEMMA AdviceHelps ==
    ASSUME NEW r, Wellformed(r), Refused(r), refusal = Refusal(r), caller \in {None} \cup Dids,
           NEW field \in Refusal(r).fields, field \in Fields,
           NEW value \in Advice(field, r),
           NEW m, Wellformed(m), m[field] = value, \A f \in Fields \ {field} : m[f] = r[f]
    PROVE  WrongIn(field, m) < WrongIn(field, r)
<1>1. AtFault(field, r)
  BY NamesFaults
<1>2. CASE field = "feed"
  <2>1. r.feed \notin Feeds /\ m.feed \in Feeds
    BY <1>1, <1>2 DEF AtFault, Advice
  <2>. QED BY <1>2, <2>1 DEF WrongIn, Count
<1>3. CASE field = "ptype"
  <2>1. r.feed \in Feeds /\ r.ptype # r.feed /\ m.ptype = r.feed /\ m.feed = r.feed
    BY <1>1, <1>3 DEF AtFault, Advice, Fields
  <2>. QED BY <1>3, <2>1 DEF WrongIn, Count
<1>4. CASE field = "viewer"
  <2>1. m.viewer \in (IF caller # None /\ r.viewer \in Dids THEN {None, caller} ELSE Dids)
    BY <1>4 DEF Advice, ViewerAdvice
  <2>2. \/ r.viewer \notin Dids \cup {None}
        \/ IF caller = None THEN r.viewer = None ELSE r.viewer \notin {None, caller}
    BY <1>1, <1>4 DEF AtFault
  <2>3. None \notin Dids
    BY LimitsAssumption
  <2>. QED BY <1>4, <2>1, <2>2, <2>3 DEF WrongIn, Count
<1>5. CASE field = "actor"
  <2>1. r.actor \notin Dids \cup {None} /\ m.actor \in Dids \cup {None}
    BY <1>1, <1>5 DEF AtFault, Advice
  <2>. QED BY <1>5, <2>1 DEF WrongIn, Count
<1>6. CASE field = "evaluators"
  <2>1. /\ m.evaluators \in Advice("evaluators", r) /\ IsFiniteSet(r.evaluators)
        /\ MaxItems \in Nat /\ MaxEvaluators \in Nat
    BY <1>6, LimitsAssumption DEF Wellformed
  <2>2. m.evaluators \subseteq r.evaluators
    BY <2>1 DEF Advice, Fewer
  <2>3. /\ Cardinality(m.evaluators) \in Nat /\ Cardinality(r.evaluators) \in Nat
        /\ Cardinality(m.evaluators) <= Cardinality(r.evaluators)
    BY <2>1, <2>2, FS_Subset, FS_CardinalityType
  <2>4. CASE Malformed(r) # {}
    <3>1. ~ r.evaluators \subseteq Dids \/ Cardinality(r.evaluators) > MaxItems
      BY <1>1, <1>6, <2>4 DEF AtFault
    <3>2. m.evaluators \subseteq Dids /\ Cardinality(m.evaluators) <= MaxItems
      BY <2>1, <2>4 DEF Advice
    <3>. QED BY <1>6, <2>1, <2>3, <3>1, <3>2 DEF WrongIn, Count
  <2>5. CASE Malformed(r) = {}
    <3>1. Cardinality(r.evaluators) > MaxEvaluators
      BY <1>1, <1>6, <2>5 DEF AtFault
    <3>2. Cardinality(m.evaluators) = MaxEvaluators
      BY <2>1, <2>5 DEF Advice, Fewer
    <3>. QED BY <1>6, <2>1, <2>2, <2>3, <3>1, <3>2 DEF WrongIn, Count
  <2>. QED BY <2>4, <2>5
<1>7. CASE field = "kinds"
  <2>1. m.kinds \in KindsAdvice(r)
    BY <1>7 DEF Advice
  <2>2. Cardinality(r.kinds) > MaxItems \/ r.feed \in Feeds
    BY <1>1, <1>7 DEF AtFault
  <2>3. m.feed = r.feed
    BY <1>7 DEF Fields
  <2>. QED BY <1>7, <2>1, <2>2, <2>3, KindsLessen
<1>8. CASE field = "quality"
  <2>1. r.quality # None /\ ~ r.quality \subseteq Qualities /\ m.quality \subseteq Qualities
    BY <1>1, <1>8 DEF AtFault, Advice
  <2>. QED BY <1>8, <2>1 DEF WrongIn, Count
<1>9. CASE field = "limit"
  <2>1. m.limit \in (IF r.limit \in 1 .. MaxPage THEN 1 .. MaxLimit ELSE 1 .. MaxPage)
    BY <1>9 DEF Advice
  <2>2. (r.limit # None /\ r.limit \notin 1 .. MaxPage) \/ LimitOf(r) \notin 1 .. MaxLimit
    BY <1>1, <1>9 DEF AtFault
  <2>. QED BY <1>9, <2>1, <2>2, LimitsAssumption DEF WrongIn, Count, LimitOf
<1>10. CASE field = "cursor"
  <2>1. m.cursor \in (IF Refusal(r).code = "InvalidCursor" THEN {None, r.feed} ELSE {None})
    BY <1>10 DEF Advice
  <2>2. IF Refusal(r).code = "InvalidCursor" THEN r.feed \in Feeds /\ Positioned(r) /\ r.cursor # r.feed
                                             ELSE r.cursor = "overlong"
    BY <1>1, <1>10 DEF AtFault, Decodable
  <2>3. r.cursor = "overlong" => Positioned(r)
    <3>1. "overlong" \notin {None, ""}
      BY LimitsAssumption
    <3>. QED BY <3>1 DEF Positioned
  <2>4. m.cursor = None => ~ Positioned(m)
    BY DEF Positioned
  <2>5. m.feed = r.feed /\ (r.feed \in Feeds => r.feed # "overlong")
    BY <1>10 DEF Fields, Feeds
  <2>6. WrongIn("cursor", r) = 1
    BY <2>2, <2>3, <2>5 DEF WrongIn, Count
  <2>7. WrongIn("cursor", m) = 0
    BY <2>1, <2>2, <2>4, <2>5 DEF WrongIn, Count
  <2>. QED BY <1>10, <2>6, <2>7
<1>. QED BY <1>2, <1>3, <1>4, <1>5, <1>6, <1>7, <1>8, <1>9, <1>10 DEF Fields

\* What is wrong with a request depends on who calls and which feeds are enabled alone.
LEMMA WrongStays ==
    ASSUME UNCHANGED <<maearthEnabled, caller>>
    PROVE  Wrong(request)' = Wrong(request')
BY DEF Wrong, WrongIn, Feeds

\* Mending one field a refusal names, in a way its message allows, leaves less wrong.
THEOREM NoAdviceUndone == Spec => AdviceUndoesNothing
<1>1. ASSUME IInv, [Next]_vars
      PROVE  [phase = "refused" => Wrong(request)' < Wrong(request)]_vars
  <2>1. CASE UNCHANGED vars
    BY <2>1
  <2>2. CASE phase # "refused"
    BY <2>2
  <2>3. ASSUME phase = "refused", NEW field \in Fields, Mend(field)
        PROVE  Wrong(request)' < Wrong(request)
    <3>1. PICK value \in Advice(field, request) : request' = [request EXCEPT ![field] = value]
      BY <2>3 DEF Mend
    <3> DEFINE m == [request EXCEPT ![field] = value]
    <3>2. /\ Wellformed(request) /\ Refused(request) /\ refusal = Refusal(request)
          /\ caller \in {None} \cup Dids
      BY <1>1, <2>3 DEF IInv
    <3>3. field \in Refusal(request).fields
      BY <2>3, <3>2 DEF Mend
    <3>4. Wellformed(m)
      BY <3>2, MendedWellformed
    <3>5. m[field] = value /\ \A f \in Fields \ {field} : m[f] = request[f]
      BY <3>2 DEF Wellformed
    <3>6. WrongIn(field, m) < WrongIn(field, request)
      BY <3>2, <3>3, <3>4, <3>5, AdviceHelps
    <3>7. field = "feed" => m.feed \in Feeds /\ request.feed \notin Feeds
      BY <3>2, <3>3, <3>5, NamesFaults DEF AtFault, Advice
    <3> HIDE DEF m
    <3>8. \A f \in Fields \ {field} : WrongIn(f, m) <= WrongIn(f, request)
      BY <3>2, <3>4, <3>5, <3>7, OtherwiseAsGood
    <3>9. Wrong(m) < Wrong(request)
      BY <3>2, <3>4, <3>6, <3>8, Outweighs, WrongInType
    <3>10. Wrong(request)' = Wrong(request')
      BY <2>3, WrongStays DEF Mend
    <3>. QED BY <3>1, <3>9, <3>10 DEF m
  <2>4. CASE phase = "refused" /\ ~ UNCHANGED vars
    <3>1. \E field \in Fields : Mend(field)
      BY <1>1, <2>4 DEF Next, Refuse, Serve, Turn
    <3>. QED BY <2>3, <2>4, <3>1
  <2>. QED BY <2>1, <2>2, <2>4
<1>. QED BY <1>1, Inductive, PTL DEF Spec, AdviceUndoesNothing

\* A finite set has subsets of each smaller size.
LEMMA SmallerSubsets ==
    ASSUME NEW S, IsFiniteSet(S), NEW n \in Nat, n <= Cardinality(S)
    PROVE  \E T \in SUBSET S : Cardinality(T) = n
<1> DEFINE c == Cardinality(S)
<1>1. c \in Nat /\ ExistsBijection(1 .. c, S)
  BY FS_CardinalityType
<1>2. PICK f : f \in Bijection(1 .. c, S)
  BY <1>1 DEF ExistsBijection
<1> DEFINE T == {f[i] : i \in 1 .. n}
           g == [i \in 1 .. n |-> f[i]]
<1>3. \A i \in 1 .. n : i \in 1 .. c
  BY <1>1
<1>4. /\ \A i \in 1 .. c : f[i] \in S
      /\ \A i, j \in 1 .. c : f[i] = f[j] => i = j
  BY <1>2 DEF Bijection, Injection, IsInjective
<1> HIDE DEF c
<1>5. T \subseteq S /\ \A i, j \in 1 .. n : f[i] = f[j] => i = j
  BY <1>3, <1>4
<1>6. g \in Injection(1 .. n, T)
  BY <1>5 DEF Injection, IsInjective
<1>7. g \in Surjection(1 .. n, T)
  BY DEF Surjection
<1>8. g \in Bijection(1 .. n, T)
  BY <1>6, <1>7 DEF Bijection
<1>9. Cardinality(T) = n
  BY <1>8, FS_CountingElements DEF ExistsBijection
<1>. QED BY <1>5, <1>9

\* Whatever a refusal names, its message has something to try.
THEOREM AdviceThere == Spec => []NoDeadEnd
<1>1. ASSUME IInv PROVE NoDeadEnd
  <2> SUFFICES ASSUME phase = "refused"
               PROVE  refusal.fields # {} /\ \A field \in refusal.fields : Advice(field, request) # {}
    BY DEF NoDeadEnd
  <2> DEFINE r == request
  <2>1. Refused(r) /\ refusal = Refusal(r) /\ Wellformed(r)
    BY <1>1 DEF IInv
  <2>2. /\ refusal \in Answers /\ refusal.fields # {}
        /\ \A field \in refusal.fields : AtFault(field, r)
    BY <2>1, NamesFaults
  <2>3. /\ IsFiniteSet(r.evaluators) /\ IsFiniteSet(r.kinds)
        /\ Cardinality(r.evaluators) \in Nat /\ Cardinality(r.kinds) \in Nat
    BY <2>1, FS_CardinalityType DEF Wellformed
  <2>4. ASSUME NEW field \in refusal.fields PROVE Advice(field, r) # {}
    <3>1. field \in Fields /\ AtFault(field, r)
      BY <2>2 DEF Answers
    <3>2. CASE field = "feed"
      BY <3>2 DEF Advice, Feeds
    <3>3. CASE field = "viewer"
      BY <3>3, LimitsAssumption DEF Advice, ViewerAdvice
    <3>4. CASE field = "evaluators"
      <4>1. CASE Malformed(r) # {}
        <5>1. {} \in Advice("evaluators", r)
          BY <4>1, FS_EmptySet, LimitsAssumption DEF Advice
        <5>. QED BY <3>4, <5>1
      <4>2. CASE Malformed(r) = {}
        <5>1. Cardinality(r.evaluators) > MaxEvaluators
          BY <3>1, <3>4, <4>2 DEF AtFault
        <5>2. Fewer(r.evaluators, MaxEvaluators) # {}
          BY <2>3, <5>1, SmallerSubsets, LimitsAssumption DEF Fewer
        <5>. QED BY <3>4, <4>2, <5>2 DEF Advice
      <4>. QED BY <4>1, <4>2
    <3>5. CASE field = "kinds"
      <4>1. ASSUME NEW max \in Nat, Cardinality(r.kinds) > max PROVE Fewer(r.kinds, max) # {}
        BY <2>3, <4>1, SmallerSubsets DEF Fewer
      <4>2. \/ Cardinality(r.kinds) > MaxItems
            \/ r.feed # "maearth" /\ Cardinality(r.kinds) > MaxKinds
            \/ UnknownKinds(r) # {}
        BY <3>1, <3>5 DEF AtFault, Improper
      <4>3. OfferedKinds(r.feed) # {}
        BY LimitsAssumption DEF OfferedKinds, Kinds
      <4>4. CASE Cardinality(r.kinds) > MaxItems
        BY <3>5, <4>1, <4>4, LimitsAssumption DEF KindsAdvice, Advice
      <4>5. CASE ~ (Cardinality(r.kinds) > MaxItems) /\ r.feed # "maearth" /\ Cardinality(r.kinds) > MaxKinds
        BY <3>5, <4>1, <4>5, LimitsAssumption DEF KindsAdvice, Advice
      <4>6. CASE ~ (Cardinality(r.kinds) > MaxItems) /\ ~ (r.feed # "maearth" /\ Cardinality(r.kinds) > MaxKinds)
        <5>1. PICK unknown \in UnknownKinds(r), kind \in OfferedKinds(r.feed) : TRUE
          BY <4>2, <4>3, <4>6
        <5>2. KindsAdvice(r) = {(r.kinds \ {u}) \cup {k} : u \in UnknownKinds(r), k \in OfferedKinds(r.feed)}
          BY <4>6 DEF KindsAdvice
        <5>3. (r.kinds \ {unknown}) \cup {kind} \in KindsAdvice(r)
          BY <5>1, <5>2
        <5>. QED BY <3>5, <5>3 DEF Advice
      <4>. QED BY <4>4, <4>5, <4>6
    <3>6. CASE field = "limit"
      <4>1. DefaultLimit \in 1 .. MaxLimit /\ DefaultLimit \in 1 .. MaxPage
        BY LimitsAssumption
      <4>. QED BY <3>6, <4>1 DEF Advice
    <3>7. CASE field \in {"ptype", "actor", "quality", "cursor"}
      BY <3>7 DEF Advice
    <3>. QED BY <3>1, <3>2, <3>3, <3>4, <3>5, <3>6, <3>7 DEF Fields
  <2>. QED BY <2>2, <2>4
<1>. QED BY <1>1, Inductive, PTL
-----------------------------------------------------------------------------
(* The pipeline. *)

\* The pipeline's verdicts on a request are those of the checks.
LEMMA VerdictsAgree ==
    ASSUME caller \in {None} \cup Dids
    PROVE  /\ P!ViewerAgrees("client") <=> ~ Foreign(request)
           /\ P!Registered("client") <=> request.feed \in Feeds
           /\ request.feed \in Feeds =>
                  (P!ParamsMatch("client") <=> request.ptype = request.feed)
           /\ P!BoundViewer("client") = BoundViewer(request)
<1>1. /\ Verdicts.params = request.ptype /\ Verdicts.viewer = request.viewer
      /\ Verdicts.feed = (IF request.feed \in Feeds THEN request.feed ELSE "unregistered")
      /\ Verdicts.token = (IF caller = None THEN None ELSE [iss |-> caller])
  BY DEF Verdicts
<1>2. Feeds \subseteq {"hypercerts", "maearth"}
  BY DEF Feeds
<1> DEFINE message == [q \in {"client"} |-> Verdicts]
<1>3. message["client"] = Verdicts
  OBVIOUS
<1>4. P!Issuer("client") = caller
  <2>1. caller # None => [iss |-> caller] # None
    <3>1. caller # None => [iss |-> caller] \in [iss : Dids]
      OBVIOUS
    <3>. QED BY <3>1, LimitsAssumption
  <2>2. P!Issuer("client") = IF Verdicts.token = None THEN None ELSE Verdicts.token.iss
    BY <1>3 DEF P!Issuer
  <2>. QED BY <1>1, <2>1, <2>2
<1>5. P!Scoped("client") <=> Scoped(request)
  BY <1>1, <1>3 DEF P!Scoped, P!ViewerScoped, Scoped
<1>6. P!ViewerAgrees("client") <=> ~ Foreign(request)
  BY <1>1, <1>3, <1>4, <1>5 DEF P!ViewerAgrees, Foreign
<1>7. P!BoundViewer("client") = BoundViewer(request)
  BY <1>1, <1>3, <1>4, <1>5 DEF P!BoundViewer, BoundViewer, Scoped
<1>8. P!Registered("client") <=> request.feed \in Feeds
  BY <1>1, <1>2, <1>3 DEF P!Registered
<1>9. request.feed \in Feeds => (P!ParamsMatch("client") <=> request.ptype = request.feed)
  BY <1>1, <1>3 DEF P!ParamsMatch
<1>. QED BY <1>6, <1>7, <1>8, <1>9

\* The pipeline answers from the verdicts what the first of the checks answers.
LEMMA RefusalsAgree ==
    ASSUME caller \in {None} \cup Dids, Malformed(request) = {}
    PROVE  /\ P!Acceptable("client") <=> ~ Refused(request)
           /\ Refused(request) =>
                  P!Refusal("client") = [status |-> Refusal(request).status, error |-> Refusal(request).code]
<1>1. /\ Verdicts.normal = (IF FeedChecks(request) = <<>> THEN 200 ELSE 422)
      /\ Verdicts.cursor <=> CursorCheck(request) = <<>>
  BY DEF Verdicts
<1> DEFINE message == [q \in {"client"} |-> Verdicts]
<1>2. message["client"] = Verdicts
  OBVIOUS
<1>3. P!Acceptable("client") <=>
          /\ ~ Foreign(request) /\ request.feed \in Feeds /\ request.ptype = request.feed
          /\ FeedChecks(request) = <<>> /\ Decodable(request)
  BY <1>1, <1>2, VerdictsAgree, CursorRefusals DEF P!Acceptable, Decodable
<1>4. P!Acceptable("client") <=> ~ Refused(request)
  BY <1>3, RefusalOrder DEF Admitted, Registered
<1>5. ASSUME Refused(request)
      PROVE  P!Refusal("client") = [status |-> Refusal(request).status, error |-> Refusal(request).code]
  <2>1. CASE Foreign(request)
    <3>1. Refusal(request).status = 400 /\ Refusal(request).code = "InvalidRequest"
      BY <2>1, RefusalOrder DEF Refusing, Admitted, Registered
    <3>2. P!Refusal("client") = P!Bad(400, "InvalidRequest")
      BY <2>1, VerdictsAgree DEF P!Refusal
    <3>. QED BY <3>1, <3>2 DEF P!Bad
  <2>2. CASE ~ Foreign(request) /\ request.feed \notin Feeds
    <3>1. Refusal(request).status = 400 /\ Refusal(request).code = "UnsupportedFeed"
      BY <2>2, RefusalOrder DEF Refusing, Admitted, Registered
    <3>2. P!Refusal("client") = P!Bad(400, "UnsupportedFeed")
      BY <2>2, VerdictsAgree DEF P!Refusal
    <3>. QED BY <3>1, <3>2 DEF P!Bad
  <2>3. CASE ~ Foreign(request) /\ request.feed \in Feeds /\ request.ptype # request.feed
    <3>1. Refusal(request).status = 400 /\ Refusal(request).code = "InvalidRequest"
      BY <2>3, RefusalOrder DEF Refusing, Admitted, Registered
    <3>2. P!Refusal("client") = P!Bad(400, "InvalidRequest")
      BY <2>3, VerdictsAgree DEF P!Refusal
    <3>. QED BY <3>1, <3>2 DEF P!Bad
  <2>4. CASE ~ Foreign(request) /\ Registered(request) /\ FeedChecks(request) # <<>>
    <3>1. Refusal(request) = FeedChecks(request)[1]
      BY <2>4, RefusalOrder DEF Admitted
    <3>2. Refusal(request).status = 422 /\ Refusal(request).code = "InvalidRequest"
      BY <2>4, <3>1, FeedFaithful DEF Faithful, Refusing
    <3>3. P!Refusal("client") = P!Bad(422, "InvalidRequest")
      BY <1>1, <1>2, <2>4, VerdictsAgree DEF P!Refusal, Registered
    <3>. QED BY <3>2, <3>3 DEF P!Bad
  <2>5. CASE ~ Foreign(request) /\ Registered(request) /\ FeedChecks(request) = <<>> /\ ~ Decodable(request)
    <3>1. Refusal(request).status = 400 /\ Refusal(request).code = "InvalidCursor"
      BY <2>5, RefusalOrder DEF Refusing, Admitted, Registered
    <3>2. P!Refusal("client") = P!Bad(400, "InvalidCursor")
      BY <1>1, <1>2, <2>5, VerdictsAgree DEF P!Refusal, Registered
    <3>. QED BY <3>1, <3>2 DEF P!Bad
  <2>. QED BY <1>3, <1>4, <1>5, <2>1, <2>2, <2>3, <2>4, <2>5 DEF Registered
<1>. QED BY <1>4, <1>5

LEMMA VerdictsStay ==
    ASSUME UNCHANGED <<maearthEnabled, caller, request>>
    PROVE  Verdicts' = Verdicts
BY DEF Verdicts, Feeds

\* The pipeline sees the client answered, or his page selected, and nothing else.
LEMMA PipedSteps ==
    /\ phase = "sending" => Place = "verified" /\ SelectedFor = None /\ Answered = None
    /\ phase = "refused" =>
           /\ Place = "answered" /\ SelectedFor = None
           /\ Answered = [status |-> refusal.status, error |-> refusal.code]
    /\ phase = "served" => Place = "page" /\ SelectedFor = served.page.viewer /\ Answered = None
BY DEF Place, SelectedFor, Answered

\* Refusing answers a client as the pipeline does, from the same verdicts.
LEMMA RefusesAsPiped ==
    ASSUME IInv, phase = "sending", Refuse
    PROVE  P!RefuseInput("client") \/ P!RefuseFeedRequest("client")
<1>1. /\ Place = "verified" /\ Place' = "answered" /\ SelectedFor' = SelectedFor
      /\ Answered' = [status |-> Refusal(request).status, error |-> Refusal(request).code]
      /\ Verdicts' = Verdicts /\ (Verdicts.valid <=> Malformed(request) = {})
  <2>1. /\ phase' = "refused" /\ refusal' = Refusal(request) /\ phase = "sending"
        /\ UNCHANGED <<maearthEnabled, caller, request>>
    BY DEF Refuse
  <2>2. /\ Place' = "answered" /\ SelectedFor' = None
        /\ Answered' = [status |-> refusal'.status, error |-> refusal'.code]
    BY <2>1 DEF Place, SelectedFor, Answered
  <2>3. Verdicts.valid <=> Malformed(request) = {}
    BY DEF Verdicts
  <2>. QED BY <2>1, <2>2, <2>3, PipedSteps, VerdictsStay
<1>2. Refused(request) /\ caller \in {None} \cup Dids
  BY DEF Refuse, IInv
<1>3. CASE Malformed(request) # {}
  <2>1. Refusal(request).status = 400 /\ Refusal(request).code = "InvalidRequest"
    BY <1>3, RefusalOrder DEF Refusing
  <2>2. Answered' = P!Bad(400, "InvalidRequest")
    BY <1>1, <2>1 DEF P!Bad
  <2>3. P!RefuseInput("client")
    BY <1>1, <1>3, <2>2 DEF P!RefuseInput, P!Reply, P!Goto, P!Unbilled
  <2>. QED BY <2>3
<1>4. CASE Malformed(request) = {}
  <2>1. Answered' = P!Refusal("client") /\ ~ P!Acceptable("client")
    BY <1>1, <1>2, <1>4, RefusalsAgree
  <2>2. P!RefuseFeedRequest("client")
    BY <1>1, <1>4, <2>1 DEF P!RefuseFeedRequest, P!Handling, P!Reply, P!Goto, P!Unbilled
  <2>. QED BY <2>2
<1>. QED BY <1>3, <1>4

LEMMA ServesAsPiped ==
    ASSUME IInv, phase = "sending", NEW procedure, Serve(procedure)
    PROVE  P!LoadPage("client")
<1>1. /\ phase' = "served" /\ served'.page = Normalized(request) /\ ~ Refused(request)
      /\ UNCHANGED <<maearthEnabled, caller, request>> /\ caller \in {None} \cup Dids
  BY DEF Serve, IInv
<1>2. Malformed(request) = {}
  BY <1>1, RefusalOrder
<1>3. /\ Place = "verified" /\ Place' = "page" /\ Answered' = Answered
      /\ SelectedFor' = BoundViewer(request)
      /\ Verdicts' = Verdicts /\ Verdicts.valid
  <2>1. Place' = "page" /\ SelectedFor' = served'.page.viewer /\ Answered' = None
    BY <1>1 DEF Place, SelectedFor, Answered
  <2>2. served'.page.viewer = BoundViewer(request)
    BY <1>1 DEF Normalized
  <2>3. Verdicts.valid
    BY <1>2 DEF Verdicts
  <2>. QED BY <1>1, <2>1, <2>2, <2>3, PipedSteps, VerdictsStay
<1>4. P!Acceptable("client") /\ P!BoundViewer("client") = BoundViewer(request)
  BY <1>1, <1>2, RefusalsAgree, VerdictsAgree
<1>. QED BY <1>3, <1>4 DEF P!LoadPage, P!Handling, P!Goto, P!Unbilled

\* The checks in detail answer as HttpPipeline does from their verdicts.
THEOREM AnswersThePipeline == Spec => AnswersAsPiped
<1>1. ASSUME IInv, [Next]_vars
      PROVE  [phase = "sending" => \/ P!RefuseInput("client")
                                   \/ P!RefuseFeedRequest("client")
                                   \/ P!LoadPage("client")]_vars
  <2>1. CASE UNCHANGED vars
    BY <2>1
  <2>2. CASE phase = "sending" /\ ~ UNCHANGED vars
    <3>1. Refuse \/ \E procedure \in {"getFeed", "getFeedSkeleton"} : Serve(procedure)
      BY <1>1, <2>2 DEF Next, Mend, Turn
    <3>. QED BY <1>1, <2>2, <3>1, RefusesAsPiped, ServesAsPiped
  <2>3. CASE phase # "sending"
    BY <2>3
  <2>. QED BY <2>1, <2>2, <2>3
<1>. QED BY <1>1, Inductive, PTL DEF Spec, AnswersAsPiped
=============================================================================
