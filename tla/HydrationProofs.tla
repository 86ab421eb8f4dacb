--------------------------- MODULE HydrationProofs ---------------------------
(***************************************************************************)
(* For whatever the network publishes and however it changes between the   *)
(* two statements of a page: the page is answered, nothing unchecked is    *)
(* shown, and the answer is of its two moments.                            *)
(***************************************************************************)
EXTENDS Hydration, FiniteSetTheorems, WellFoundedInduction, TLAPS

(* The order of the feed. *)

\* The records of a page have URIs of their own, that are ordered.
Keyed(S) ==
    /\ IsFiniteSet(S)
    /\ \A r \in S : r.uri \in Int
    /\ \A r, q \in S : r.uri = q.uri => r = q

LEMMA KeyedPart ==
    ASSUME NEW S, Keyed(S), NEW U \in SUBSET S
    PROVE  Keyed(U)
BY FS_Subset DEF Keyed

\* What holds of the empty set, and of a set when it holds of the set without one of
\* its elements, holds of a finite set; the statement is given by the sets that violate it.
LEMMA SmallestViolation ==
    ASSUME NEW S, IsFiniteSet(S), NEW Bad, Bad \subseteq SUBSET S, Bad # {}
    PROVE  \E U \in Bad : IsFiniteSet(U) /\ \A u \in U : U \ {u} \notin Bad
<1>1. Bad \subseteq FiniteSubsetsOf(S)
  BY FS_FiniteSubsetsOfFinite
<1>2. IsWellFoundedOn(StrictSubsetOrdering(S), FiniteSubsetsOf(S))
  BY FS_StrictSubsetOrderingWellFounded
<1>3. PICK U \in Bad : \A V \in Bad : ~ (<<V, U>> \in StrictSubsetOrdering(S))
  BY <1>1, <1>2, WFMin
<1>4. ASSUME NEW u \in U PROVE <<U \ {u}, U>> \in StrictSubsetOrdering(S)
  BY DEF StrictSubsetOrdering
<1>. QED BY <1>3, <1>4, FS_Subset

IsEarliest(S, l) == l \in S /\ \A r \in S \ {l} : r.uri > l.uri

LEMMA HasEarliest ==
    ASSUME NEW S, Keyed(S), S # {}
    PROVE  \E l \in S : IsEarliest(S, l)
<1> DEFINE Bad == {U \in SUBSET S : U # {} /\ \A l \in U : ~ IsEarliest(U, l)}
<1> SUFFICES ASSUME Bad # {} PROVE FALSE
  OBVIOUS
<1>1. PICK U \in Bad : \A u \in U : U \ {u} \notin Bad
  <2> Bad \subseteq SUBSET S
    OBVIOUS
  <2> HIDE DEF Bad
  <2>. QED BY SmallestViolation DEF Keyed
<1>2. PICK u : u \in U
  BY <1>1
<1>3. U \ {u} # {}
  BY <1>1, <1>2 DEF IsEarliest
<1>4. PICK l \in U \ {u} : IsEarliest(U \ {u}, l)
  BY <1>1, <1>2, <1>3
<1>5. l.uri \in Int /\ u.uri \in Int /\ l.uri # u.uri /\ \A r \in U : r.uri \in Int
  BY <1>2, <1>4 DEF Keyed
<1>6. IsEarliest(U, l) \/ IsEarliest(U, u)
  <2>1. CASE u.uri > l.uri
    BY <1>4, <2>1 DEF IsEarliest
  <2>2. CASE l.uri > u.uri
    BY <1>2, <1>4, <1>5, <2>2 DEF IsEarliest
  <2>. QED BY <1>5, <2>1, <2>2
<1>. QED BY <1>1, <1>2, <1>4, <1>6

IsOrdered(S, s) ==
    /\ s \in [1 .. Cardinality(S) -> S]
    /\ \A i, j \in DOMAIN s : i < j => s[i].uri > s[j].uri

LEMMA CanBeOrdered ==
    ASSUME NEW S, Keyed(S)
    PROVE  \E s : IsOrdered(S, s)
<1> DEFINE Bad == {U \in SUBSET S : \A s : ~ IsOrdered(U, s)}
<1> SUFFICES ASSUME Bad # {} PROVE FALSE
  OBVIOUS
<1>1. PICK U \in Bad : IsFiniteSet(U) /\ \A u \in U : U \ {u} \notin Bad
  <2> Bad \subseteq SUBSET S
    OBVIOUS
  <2> HIDE DEF Bad
  <2>. QED BY SmallestViolation DEF Keyed
<1>2. U # {}
  <2>1. IsOrdered({}, [i \in 1 .. 0 |-> i])
    BY FS_EmptySet DEF IsOrdered
  <2>. QED BY <1>1, <2>1
<1>3. PICK l \in U : IsEarliest(U, l)
  BY <1>1, <1>2, KeyedPart, HasEarliest
<1>4. PICK t : IsOrdered(U \ {l}, t)
  BY <1>1, <1>3
<1> DEFINE n == Cardinality(U)
           s == [i \in 1 .. n |-> IF i = n THEN l ELSE t[i]]
<1>5. n \in Nat /\ Cardinality(U \ {l}) = n - 1
  BY <1>1, <1>3, FS_CardinalityType, FS_RemoveElement
<1> HIDE DEF n
<1>6. \A i \in 1 .. n : i # n => i \in DOMAIN t /\ t[i] \in U \ {l} /\ t[i].uri > l.uri
  <2>1. DOMAIN t = 1 .. n - 1 /\ t \in [1 .. n - 1 -> U \ {l}]
    BY <1>4, <1>5 DEF IsOrdered
  <2>2. \A i \in 1 .. n : i # n => i \in 1 .. n - 1
    BY <1>5
  <2>3. \A r \in U \ {l} : r.uri > l.uri
    BY <1>3 DEF IsEarliest
  <2>. QED BY <2>1, <2>2, <2>3
<1>7. s \in [1 .. n -> U]
  BY <1>3, <1>6
<1>8. ASSUME NEW i \in 1 .. n, NEW j \in 1 .. n, i < j PROVE s[i].uri > s[j].uri
  <2>1. i # n
    BY <1>5, <1>8
  <2>2. CASE j = n
    BY <1>6, <2>1, <2>2
  <2>3. CASE j # n
    BY <1>4, <1>6, <1>8, <2>1, <2>3 DEF IsOrdered
  <2>. QED BY <2>2, <2>3
<1>9. IsOrdered(U, s)
  BY <1>7, <1>8 DEF IsOrdered, n
<1>. QED BY <1>1, <1>9

\* ORDER BY gives each of the rows, once, in the order of the feed.
LEMMA FeedOrder ==
    ASSUME NEW S, Keyed(S)
    PROVE  /\ InFeedOrder(S) \in Seq(S)
           /\ \A i, j \in DOMAIN InFeedOrder(S) : i < j => InFeedOrder(S)[i].uri > InFeedOrder(S)[j].uri
           /\ \A r \in S : \E i \in DOMAIN InFeedOrder(S) : InFeedOrder(S)[i] = r
<1> DEFINE s == InFeedOrder(S)
           n == Cardinality(S)
<1>1. n \in Nat /\ Cardinality(1 .. n) = n
  BY FS_CardinalityType, FS_Interval DEF Keyed
<1>2. IsOrdered(S, s)
  <2>1. PICK t : IsOrdered(S, t)
    BY CanBeOrdered
  <2>. QED BY <2>1 DEF IsOrdered, InFeedOrder
<1> HIDE DEF s, n
<1>3. s \in [1 .. n -> S] /\ \A i, j \in 1 .. n : i < j => s[i].uri > s[j].uri
  BY <1>2 DEF IsOrdered, n
<1>4. ASSUME NEW i \in 1 .. n, NEW j \in 1 .. n, s[i] = s[j] PROVE i = j
  <2>1. s[i].uri \in Int
    BY <1>3 DEF Keyed
  <2>. QED BY <1>1, <1>3, <1>4, <2>1
<1>5. s \in Injection(1 .. n, S)
  BY <1>3, <1>4 DEF Injection, IsInjective
<1>6. s \in Surjection(1 .. n, S)
  BY <1>1, <1>5, FS_Injection DEF Keyed, n
<1>. QED BY <1>1, <1>3, <1>6 DEF Surjection, s
-----------------------------------------------------------------------------
(* What is shown of a record that was validated. *)

\* An image that may stand where wrappers of these types may, or none.
MayShow(image, types) ==
    image # None => image \in Images /\ image.type \in types /\ Checked(image)

LEMMA SmallShown ==
    ASSUME NEW image \in Images \cup {None},
           ValidKnownImage(image, "smallImage", SmallImageMax)
    PROVE  /\ MayShow(SmallImageReference(image), {"uri", "smallImage"})
           /\ SmallImageReference(image) \in {image, None}
BY DEF SmallImageReference, ImageReference, MayShow, Checked, MaxSize, ValidKnownImage,
       ValidBlob, Images

LEMMA LargeShown ==
    ASSUME NEW image \in Images \cup {None},
           ValidKnownImage(image, "largeImage", LargeImageMax)
    PROVE  MayShow(LargeImageReference(image), {"uri", "largeImage"})
BY DEF LargeImageReference, ImageReference, MayShow, Checked, MaxSize, ValidKnownImage,
       ValidBlob, Images

\* The first that passes a test is one that passes it.
LEMMA SelectedPasses ==
    ASSUME NEW content \in Seq(Images), SelectInSeq(content, IsImageBlob) # 0
    PROVE  \E i \in 1 .. Len(content) :
              i = SelectInSeq(content, IsImageBlob) /\ IsImageBlob(content[i])
<1> DEFINE first == SelectInSeq(content, IsImageBlob)
           I == {k \in 1 .. Len(content) : IsImageBlob(content[k])}
<1>1. I # {} /\ first = Min(I)
  BY DEF SelectInSeq
<1>2. \E x \in I : \A y \in I : x <= y
  <2>1. I \subseteq Nat
    OBVIOUS
  <2> HIDE DEF I
  <2>2. PICK x \in I : \A y \in I : ~ (<<y, x>> \in OpToRel(<, Nat))
    BY <1>1, <2>1, NatLessThanWellFounded, WFMin
  <2>3. \A y \in I : x <= y
    <3>1. ASSUME NEW y \in I, y < x PROVE <<y, x>> \in OpToRel(<, Nat)
      BY <2>1, <3>1 DEF OpToRel
    <3>2. \A y \in I : ~ (y < x)
      BY <2>2, <3>1, Zenon
    <3>. QED BY <2>1, <3>2
  <2>. QED BY <2>3
<1>3. first \in I
  <2> HIDE DEF I, first
  <2>. QED BY <1>1, <1>2 DEF Min
<1>. QED BY <1>3

LEMMA UpdateShown ==
    ASSUME NEW content \in Seq(Images), ValidContent(content)
    PROVE  /\ MayShow(UpdateImage(content), {"smallBlob"})
           /\ UpdateImage(content) # None => UpdateImage(content).mime \in ImageMimes
<1> DEFINE first == SelectInSeq(content, IsImageBlob)
<1>1. CASE first # 0 /\ content[first].ref
  <2>1. UpdateImage(content) = content[first]
    BY <1>1 DEF UpdateImage
  <2> HIDE DEF first
  <2>2. first \in 1 .. Len(content) /\ IsImageBlob(content[first])
    <3>1. SelectInSeq(content, IsImageBlob) # 0
      BY <1>1 DEF first
    <3>. QED BY <3>1, SelectedPasses DEF first
  <2>3. content[first] \in Images /\ ValidKnownSmallBlob(content[first])
    BY <2>2 DEF ValidContent
  <2>. QED
    BY <2>1, <2>2, <2>3
    DEF MayShow, Checked, MaxSize, ValidKnownSmallBlob, ValidBlob, IsImageBlob, Images
<1>2. CASE ~ (first # 0 /\ content[first].ref)
  BY <1>2 DEF UpdateImage, MayShow
<1>. QED BY <1>1, <1>2

\* The kind of a sound record is one of its collection.
LEMMA KindOfSound ==
    ASSUME NEW r, r.col \in FeedCollections, ValidRecord(r)
    PROVE  r.kind \in KindsOf(r.col) /\ (r.kind = "endorsement.award" <=> r.col = "award")
BY DEF ValidRecord, KindsOf, FeedCollections

LEMMA CardShown ==
    ASSUME NEW r, r.col \in FeedCollections, ValidRecord(r), TypedBody(r)
    PROVE  /\ MayShow(CardImage(r), CardTypes(r.kind))
           /\ CardImage(r) # None /\ CardImage(r).type = "smallBlob" => CardImage(r).mime \in ImageMimes
<1>1. CASE r.col = "activity"
  <2>1. MayShow(CardImage(r), {"uri", "smallImage"})
    BY <1>1, SmallShown DEF CardImage, TypedBody, ValidRecord
  <2>2. CardTypes(r.kind) = {"uri", "smallImage"}
    BY <1>1, KindOfSound DEF KindsOf, CardTypes
  <2>. QED BY <2>1, <2>2 DEF MayShow
<1>2. CASE r.col = "collection"
  <2>1. /\ r.body.avatar \in Images \cup {None} /\ r.body.banner \in Images \cup {None}
        /\ ValidPair(r.body.avatar, r.body.banner)
    BY <1>2 DEF TypedBody, ValidRecord
  <2>2. CardImage(r) \in {SmallImageReference(r.body.avatar), LargeImageReference(r.body.banner)}
    BY <1>2 DEF CardImage
  <2>3. MayShow(CardImage(r), {"uri", "smallImage", "largeImage"})
    BY <2>1, <2>2, SmallShown, LargeShown DEF ValidPair, MayShow
  <2>4. CardTypes(r.kind) = {"uri", "smallImage", "largeImage"}
    BY <1>2, KindOfSound DEF KindsOf, CardTypes
  <2>. QED BY <2>3, <2>4 DEF MayShow
<1>3. CASE r.col = "attachment"
  <2>1. r.body.content \in Seq(Images) /\ ValidContent(r.body.content)
    BY <1>3 DEF TypedBody, ValidRecord
  <2>2. CardImage(r) = UpdateImage(r.body.content)
    BY <1>3 DEF CardImage
  <2>3. CardTypes(r.kind) = {"smallBlob"}
    BY <1>3, KindOfSound DEF KindsOf, CardTypes
  <2>. QED BY <2>1, <2>2, <2>3, UpdateShown
<1>4. CASE r.col \in {"evaluation", "measurement", "award"}
  BY <1>4 DEF CardImage, MayShow
<1>. QED BY <1>1, <1>2, <1>3, <1>4 DEF FeedCollections

\* The profile an account has at the second statement, or none.
ProfileOf(did) == IF Profiles(did) = {} THEN None ELSE CHOOSE p \in Profiles(did) : TRUE

MayFace(face, did) ==
    /\ face \in Faces /\ face.did = did
    /\ MayShow(face.avatar, {"uri", "smallImage"})

LEMMA FaceShown ==
    ASSUME NEW did \in Dids, NEW p, p # None => p.col = "profile" /\ (p.valid => TypedBody(p))
    PROVE  /\ MayFace(ActorSummary(did, p), did)
           /\ ActorSummary(did, p) # DidOnly(did) =>
                 /\ p # None
                 /\ ActorSummary(did, p).name = p.body.name
                 /\ ActorSummary(did, p).avatar \in {p.body.avatar, None}
<1>1. MayFace(DidOnly(did), did)
  BY DEF MayFace, DidOnly, Faces, MayShow
<1>2. CASE p # None /\ ValidProfile(p) /\ Meaningful(p)
  <2>1. /\ p.body.name \in STRING \cup {None} /\ p.body.avatar \in Images \cup {None}
        /\ ValidKnownImage(p.body.avatar, "smallImage", SmallImageMax)
    BY <1>2 DEF ValidProfile, TypedBody, ValidPair
  <2>2. ActorSummary(did, p) =
           [did |-> did, name |-> p.body.name, avatar |-> SmallImageReference(p.body.avatar)]
    BY <1>2 DEF ActorSummary
  <2>3. /\ MayShow(SmallImageReference(p.body.avatar), {"uri", "smallImage"})
        /\ SmallImageReference(p.body.avatar) \in {p.body.avatar, None}
    BY <2>1, SmallShown
  <2>. QED BY <1>2, <2>1, <2>2, <2>3 DEF MayFace, Faces
<1>3. CASE ~ (p # None /\ ValidProfile(p) /\ Meaningful(p))
  BY <1>1, <1>3 DEF ActorSummary
<1>. QED BY <1>2, <1>3
-----------------------------------------------------------------------------
(* The invariant. *)

Tables ==
    /\ catalog \in Catalogs
    /\ db \subseteq catalog
    /\ \A r, q \in db : r.uri = q.uri => r = q

\* The rows are the sound ones of the page, in its order.
OfPage(rows, page) ==
    /\ rows \in Seq(page)
    /\ \A i \in DOMAIN rows : ValidRecord(rows[i])
    /\ \A r \in page : ValidRecord(r) => \E i \in DOMAIN rows : rows[i] = r
    /\ \A i, j \in DOMAIN rows : i < j => rows[i].uri > rows[j].uri

Batched ==
    /\ phase \in {"idle", "hydrating", "answered", "failed"}
    /\ batch.rows \in Seq(catalog) /\ batch.dids \subseteq Dids
    /\ source \subseteq catalog
    /\ \A r \in source : r.col \in FeedCollections
    /\ phase = "hydrating" =>
          OfPage(batch.rows, source) /\ batch.dids = RequestedDids(batch.rows)

ShownItem(item) ==
    /\ item.actor \in Faces /\ Checked(item.actor.avatar)
    /\ MayShow(item.image, CardTypes(item.kind))
    /\ item.image # None /\ item.image.type = "smallBlob" => item.image.mime \in ImageMimes
    /\ IF item.kind = "endorsement.award"
       THEN item.endorsed \in Faces /\ Checked(item.endorsed.avatar)
       ELSE item.endorsed = None

Answered == \A i \in DOMAIN answer : ShownItem(answer[i])

IInv == Tables /\ Batched /\ Answered

LEMMA Bodies ==
    ASSUME Tables, NEW r \in catalog
    PROVE  /\ r.uri \in Int /\ r.did \in Dids /\ (r.valid => TypedBody(r))
           /\ ValidRecord(r) => TypedBody(r)
BY CatalogsAssumption DEF Tables, ValidRecord

LEMMA EndorsedOfSound ==
    ASSUME NEW r, r.col \in FeedCollections, ValidRecord(r), TypedBody(r)
    PROVE  /\ EndorsedDid(r) \in Dids \cup {None}
           /\ r.col = "award" => EndorsedDid(r) = r.body.subject /\ r.body.subject \in Dids
BY DEF EndorsedDid, ValidRecord, TypedBody

\* Every account that an item names has been asked for.
LEMMA AccountsAskedFor ==
    ASSUME Tables, NEW page \in SUBSET catalog, \A r \in page : r.col \in FeedCollections,
           NEW rows, OfPage(rows, page)
    PROVE  RequestedDids(rows) \subseteq Dids /\ AccountsFound(rows, RequestedDids(rows))
<1>1. ASSUME NEW r \in ToSet(rows)
      PROVE  /\ r.did \in Dids /\ EndorsedDid(r) \in Dids \cup {None}
             /\ r.col = "award" => EndorsedDid(r) = r.body.subject /\ r.body.subject \in Dids
  <2>1. r \in page /\ ValidRecord(r)
    BY DEF ToSet, OfPage
  <2>. QED BY <2>1, Bodies, EndorsedOfSound
<1>2. RequestedDids(rows) \subseteq Dids
  BY <1>1 DEF RequestedDids
<1>3. ASSUME NEW r \in ToSet(rows) PROVE r.did \in RequestedDids(rows)
  BY DEF RequestedDids
<1>4. ASSUME NEW r \in ToSet(rows), r.col = "award" PROVE r.body.subject \in RequestedDids(rows)
  <2>1. EndorsedDid(r) = r.body.subject /\ r.body.subject # None
    BY <1>1, <1>4, NoneAssumption
  <2>. QED BY <2>1 DEF RequestedDids
<1>. QED BY <1>2, <1>3, <1>4 DEF AccountsFound

LEMMA OneProfile ==
    ASSUME Tables, NEW dids
    PROVE  OneRowEach(dids)
BY DEF OneRowEach, Profiles, Tables

LEMMA ConsistentBatch ==
    ASSUME IInv, phase = "hydrating"
    PROVE  Consistent
BY AccountsAskedFor, OneProfile DEF IInv, Batched, Consistent

\* The summary of an account is a face, and shows its own profile.
LEMMA SummaryShown ==
    ASSUME Tables, NEW dids \in SUBSET Dids, NEW did \in dids
    PROVE  MayFace(Summaries(dids)[did], did) /\ TrueFace(Summaries(dids)[did], did)
<1>1. Summaries(dids)[did] = ActorSummary(did, ProfileOf(did))
  BY DEF Summaries, ProfileOf
<1>2. ProfileOf(did) # None => ProfileOf(did) \in Profiles(did)
  BY DEF ProfileOf
<1>3. ProfileOf(did) # None =>
          /\ ProfileOf(did) \in db /\ ProfileOf(did).col = "profile"
          /\ ProfileOf(did).did = did /\ ProfileOf(did).uri = SelfUri[did]
          /\ ProfileOf(did).valid => TypedBody(ProfileOf(did))
  BY <1>2, Bodies DEF Profiles, Tables
<1>4. MayFace(Summaries(dids)[did], did)
  BY <1>1, <1>3, FaceShown
<1>5. TrueFace(Summaries(dids)[did], did)
  BY <1>1, <1>3, <1>4, FaceShown DEF TrueFace, MayFace
<1>. QED BY <1>4, <1>5

LEMMA ItemShown ==
    ASSUME IInv, phase = "hydrating", NEW i \in DOMAIN batch.rows
    PROVE  LET item == Item(batch.rows[i], Summaries(batch.dids))
           IN  /\ ShownItem(item)
               /\ batch.rows[i] \in source /\ ValidRecord(batch.rows[i])
               /\ ShowsItem(item, batch.rows[i])
<1> DEFINE r == batch.rows[i]
           summaries == Summaries(batch.dids)
           item == Item(r, summaries)
<1>1. r \in source /\ r \in catalog /\ r.col \in FeedCollections /\ ValidRecord(r)
  BY DEF IInv, Batched, OfPage
<1>2. TypedBody(r)
  BY <1>1, Bodies DEF IInv
<1>3. r.did \in batch.dids /\ (r.col = "award" => r.body.subject \in batch.dids)
  BY ConsistentBatch DEF Consistent, AccountsFound, ToSet
<1>4. batch.dids \in SUBSET Dids
  BY DEF IInv, Batched
<1>5. MayFace(summaries[r.did], r.did) /\ TrueFace(summaries[r.did], r.did)
  BY <1>3, <1>4, SummaryShown DEF IInv
<1>6. r.col = "award" =>
          /\ MayFace(summaries[r.body.subject], r.body.subject)
          /\ TrueFace(summaries[r.body.subject], r.body.subject)
  BY <1>3, <1>4, SummaryShown DEF IInv
<1>7. r.kind = "endorsement.award" <=> r.col = "award"
  BY <1>1, KindOfSound
<1>8. /\ MayShow(CardImage(r), CardTypes(r.kind))
      /\ CardImage(r) # None /\ CardImage(r).type = "smallBlob" => CardImage(r).mime \in ImageMimes
  BY <1>1, <1>2, CardShown
<1>9. /\ item.subject = r.uri /\ item.kind = r.kind /\ item.actor = summaries[r.did]
      /\ item.image = CardImage(r)
      /\ item.endorsed = IF r.col = "award" THEN summaries[r.body.subject] ELSE None
  BY DEF Item
<1> HIDE DEF r, summaries, item
<1>10. ASSUME NEW face, NEW did, MayFace(face, did) PROVE face \in Faces /\ Checked(face.avatar)
  BY <1>10 DEF MayFace, MayShow, Checked
<1>11. ShownItem(item)
  BY <1>5, <1>6, <1>7, <1>8, <1>9, <1>10 DEF ShownItem
<1>12. ShowsItem(item, r)
  BY <1>5, <1>6, <1>9 DEF ShowsItem
<1>. QED BY <1>1, <1>11, <1>12 DEF r, summaries, item

LEMMA InitialInvariant == Init => IInv
<1> SUFFICES ASSUME Init PROVE IInv
  OBVIOUS
<1>1. Tables
  BY DEF Init, Tables
<1>2. Batched
  BY DEF Init, Batched, NoBatch
<1>3. Answered
  BY DEF Init, Answered
<1>. QED BY <1>1, <1>2, <1>3 DEF IInv

\* HappyView changes its table only.
LEMMA IndexerStep ==
    ASSUME IInv, NEW r \in catalog, Write(r) \/ Delete(r)
    PROVE  IInv'
<1>1. Tables'
  BY DEF IInv, Tables, Write, Delete
<1>2. UNCHANGED <<catalog, phase, batch, answer, source>>
  BY DEF Write, Delete
<1>3. Batched'
  BY <1>2 DEF IInv, Batched
<1>4. Answered'
  BY <1>2 DEF IInv, Answered
<1>. QED BY <1>1, <1>3, <1>4 DEF IInv

LEMMA LoadPageStep ==
    ASSUME IInv, LoadPage
    PROVE  IInv'
<1> DEFINE sound == {r \in PageRows : ValidRecord(r)}
           rows == InFeedOrder(sound)
<1>1. /\ batch'.rows = rows /\ batch'.dids = RequestedDids(rows)
      /\ phase' \in {"answered", "hydrating"}
      /\ source' = PageRows
      /\ UNCHANGED <<catalog, db, answer>>
  BY DEF LoadPage
<1>2. PageRows \subseteq catalog /\ \A r \in PageRows : r.col \in FeedCollections
  BY DEF PageRows, IInv, Tables
<1>3. Keyed(sound)
  <2>1. catalog \in Catalogs /\ sound \in SUBSET catalog
    BY <1>2 DEF IInv, Tables
  <2>2. IsFiniteSet(sound)
    BY <2>1, CatalogsAssumption, FS_Subset
  <2>. QED BY <2>1, <2>2, CatalogsAssumption DEF Keyed, PageRows, IInv, Tables
<1>4. OfPage(rows, PageRows)
  <2> \A r : r \in sound <=> r \in PageRows /\ ValidRecord(r)
    OBVIOUS
  <2> HIDE DEF sound
  <2>1. rows \in Seq(sound)
    BY <1>3, FeedOrder
  <2>2. sound \subseteq PageRows
    OBVIOUS
  <2>. QED BY <1>3, <2>1, <2>2, FeedOrder DEF OfPage
<1> HIDE DEF rows, sound
<1>5. rows \in Seq(catalog)
  BY <1>2, <1>4 DEF OfPage
<1>6. RequestedDids(rows) \subseteq Dids
  BY <1>2, <1>4, AccountsAskedFor DEF IInv
<1>7. Tables' /\ Answered'
  BY <1>1 DEF IInv, Tables, Answered
<1>8. Batched'
  BY <1>1, <1>2, <1>4, <1>5, <1>6 DEF Batched, RequestedDids, EndorsedDid, OfPage
<1>. QED BY <1>7, <1>8 DEF IInv

LEMMA HydrateStep ==
    ASSUME IInv, Hydrate
    PROVE  IInv'
<1>1. Consistent
  BY ConsistentBatch DEF Hydrate
<1>2. /\ phase = "hydrating" /\ phase' = "answered"
      /\ UNCHANGED <<catalog, db, batch, source>>
      /\ answer' = [i \in DOMAIN batch.rows |-> Item(batch.rows[i], Summaries(batch.dids))]
  BY <1>1 DEF Hydrate
<1>3. Tables' /\ Batched'
  BY <1>2 DEF IInv, Tables, Batched
<1>4. Answered'
  BY <1>2, ItemShown DEF Answered, ShownItem
<1>. QED BY <1>3, <1>4 DEF IInv

LEMMA Step == IInv /\ [Next]_vars => IInv'
<1> SUFFICES ASSUME IInv, [Next]_vars PROVE IInv'
  OBVIOUS
<1>1. ASSUME NEW r \in catalog, Write(r) \/ Delete(r) PROVE IInv'
  BY <1>1, IndexerStep
<1>2. CASE LoadPage
  BY <1>2, LoadPageStep
<1>3. CASE Hydrate
  BY <1>3, HydrateStep
<1>4. CASE StatementFails
  BY <1>4 DEF StatementFails, IInv, Tables, Batched, Answered
<1>5. CASE NextRequest
  BY <1>5 DEF NextRequest, NoBatch, IInv, Tables, Batched, Answered
<1>6. CASE UNCHANGED vars
  BY <1>6 DEF vars, IInv, Tables, Batched, Answered
<1>. QED BY <1>1, <1>2, <1>3, <1>4, <1>5, <1>6 DEF Next

LEMMA Invariance == Spec => []IInv
BY InitialInvariant, Step, PTL DEF Spec
-----------------------------------------------------------------------------
\* Every item of every answer is a view that the lexicon of the feed admits.
THEOREM TypeCorrect == Spec => []TypeOK
<1>1. IInv => TypeOK
  BY DEF IInv, Tables, Batched, Answered, ShownItem, MayShow, TypeOK
<1>. QED BY <1>1, Invariance, PTL

\* No change between the two statements raises an invariant error.
THEOREM EveryPageAnswered == Spec => []PageAnswered
<1>1. IInv => PageAnswered
  BY DEF IInv, Batched, PageAnswered
<1>. QED BY <1>1, Invariance, PTL

\* No blob is shown that was not checked against its type and size.
THEOREM UncheckedNeverShown == Spec => []OnlyCheckedBlobs
<1>1. IInv => OnlyCheckedBlobs
  <2> SUFFICES ASSUME IInv, NEW i \in DOMAIN answer
               PROVE  /\ Checked(answer[i].image)
                      /\ Checked(answer[i].actor.avatar)
                      /\ answer[i].endorsed # None => Checked(answer[i].endorsed.avatar)
    BY DEF OnlyCheckedBlobs
  <2>1. ShownItem(answer[i])
    BY DEF IInv, Answered
  <2>2. Checked(answer[i].image)
    BY <2>1 DEF ShownItem, MayShow, Checked
  <2>. QED BY <2>1, <2>2 DEF ShownItem
<1>. QED BY <1>1, Invariance, PTL

\* An answer is of its two moments: the sound records of the first statement, each once
\* and in order, with the profiles of the second.
THEOREM TwoMoments == Spec => AnswerOfTwoMoments
<1>1. ASSUME IInv, [Next]_vars, phase = "hydrating", phase' = "answered"
      PROVE  /\ \A i \in DOMAIN answer' : \E r \in source : ValidRecord(r) /\ ShowsItem(answer'[i], r)
             /\ \A r \in source : ValidRecord(r) => \E i \in DOMAIN answer' : answer'[i].subject = r.uri
             /\ \A i, j \in DOMAIN answer' : i < j => answer'[i].subject > answer'[j].subject
  <2>1. Hydrate
    BY <1>1 DEF Next, vars, Write, Delete, LoadPage, StatementFails, NextRequest
  <2>2. answer' = [i \in DOMAIN batch.rows |-> Item(batch.rows[i], Summaries(batch.dids))]
    BY <1>1, <2>1, ConsistentBatch DEF Hydrate
  <2>3. \A i \in DOMAIN answer' : answer'[i].subject = batch.rows[i].uri
    BY <2>2 DEF Item
  <2>4. OfPage(batch.rows, source)
    BY <1>1 DEF IInv, Batched
  <2>5. \A i \in DOMAIN answer' : \E r \in source : ValidRecord(r) /\ ShowsItem(answer'[i], r)
    BY <1>1, <2>2, ItemShown
  <2>6. \A r \in source : ValidRecord(r) => \E i \in DOMAIN answer' : answer'[i].subject = r.uri
    BY <2>2, <2>3, <2>4 DEF OfPage
  <2>7. \A i, j \in DOMAIN answer' : i < j => answer'[i].subject > answer'[j].subject
    BY <2>2, <2>3, <2>4 DEF OfPage
  <2>. QED BY <2>5, <2>6, <2>7
<1>2. IInv /\ [Next]_vars =>
          [phase = "hydrating" /\ phase' = "answered" =>
              /\ \A i \in DOMAIN answer' : \E r \in source : ValidRecord(r) /\ ShowsItem(answer'[i], r)
              /\ \A r \in source : ValidRecord(r) => \E i \in DOMAIN answer' : answer'[i].subject = r.uri
              /\ \A i, j \in DOMAIN answer' : i < j => answer'[i].subject > answer'[j].subject]_vars
  BY <1>1
<1>. QED BY <1>2, Invariance, PTL DEF Spec, AnswerOfTwoMoments
=============================================================================
