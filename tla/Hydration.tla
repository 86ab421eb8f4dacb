------------------------------ MODULE Hydration ------------------------------
(***************************************************************************)
(* One getFeed request of the Hypercerts feed at a time, while HappyView   *)
(* changes records and profiles under it.  A first statement selects the   *)
(* page with its records, the sound rows are kept, and a second statement  *)
(* reads the profiles of the accounts they name (hydration/service.ts,     *)
(* validation.ts, identity.ts, views.ts, feed/query.ts).                   *)
(*                                                                         *)
(* A record is [uri, did, col, kind, json, typed, valid, body]: `kind' is  *)
(* the one the selection gives it, `json' says whether its text parses,    *)
(* `typed' whether its $type is its collection and `valid' is the verdict  *)
(* of the generated validator.  URIs are numbers in the order of the feed. *)
(* `text' of a profile says whether its description, pronouns or website   *)
(* is there and not empty.                                                 *)
(* An image is None or [type, mime, size, ref]; `ref' says whether its     *)
(* blob reference is well formed.                                          *)
(***************************************************************************)
EXTENDS Integers, Sequences, FiniteSets, SequencesExt

CONSTANTS
    Catalogs,         \* what the network can publish: sets of record versions
    Dids,
    SelfUri,          \* per DID, the URI of its profile with record key "self"
    SmallImageMax, LargeImageMax, SmallBlobMax,
    None

Images == [type : {"uri", "smallImage", "largeImage", "smallBlob"}, mime : STRING,
           size : Nat, ref : BOOLEAN]

\* What the validators of @hypercerts-org/lexicon ensure of the bodies they accept.
TypedBody(r) ==
    CASE r.col = "profile" ->
            /\ r.body.name \in STRING \cup {None} /\ r.body.text \in BOOLEAN
            /\ r.body.avatar \in Images \cup {None} /\ r.body.banner \in Images \cup {None}
      [] r.col = "activity" -> r.body.image \in Images \cup {None}
      [] r.col = "collection" ->
            r.body.avatar \in Images \cup {None} /\ r.body.banner \in Images \cup {None}
      [] r.col \in {"evaluation", "attachment"} -> r.body.content \in Seq(Images)
      [] r.col = "award" -> r.body.account => r.body.subject \in Dids
      [] OTHER -> TRUE

ASSUME CatalogsAssumption ==
    \A c \in Catalogs :
        /\ IsFiniteSet(c)
        /\ \A r \in c : /\ r.uri \in Int /\ r.did \in Dids
                        /\ r.valid => TypedBody(r)

ASSUME NoneAssumption == None \notin Dids

VARIABLES
    catalog,          \* what is published in this behaviour
    db,               \* happyview_records
    phase,            \* "idle", "hydrating", "answered", "failed" or "broken"
    batch,            \* the sound rows, and the DIDs to ask for
    answer,           \* the items of the answer
    source            \* history: the records the page was selected from

vars == <<catalog, db, phase, batch, answer, source>>

AllowedMimes == {"image/png"}           \* ALLOWED_IMAGE_MIME_TYPES
ImageMimes == AllowedMimes \cup {"image/svg"}

NoBatch == [rows |-> <<>>, dids |-> {}]
-----------------------------------------------------------------------------
(* Validation of records and profiles. *)

ValidBlob(image, max) == image.size <= max /\ image.ref

\* Images of another type, or none, need no check.
ValidKnownImage(image, type, max) ==
    image # None /\ image.type = type => image.mime \in AllowedMimes /\ ValidBlob(image, max)

ValidKnownSmallBlob(entry) ==
    entry.type = "smallBlob" => ValidBlob(entry, SmallBlobMax)

ValidPair(avatar, banner) ==
    /\ ValidKnownImage(avatar, "smallImage", SmallImageMax)
    /\ ValidKnownImage(banner, "largeImage", LargeImageMax)

ValidContent(content) == \A i \in DOMAIN content : ValidKnownSmallBlob(content[i])

KindsOf(col) ==
    CASE col = "activity"    -> {"cert.create"}
      [] col = "collection"  -> {"collection.create", "project.created_with_cert"}
      [] col = "evaluation"  -> {"evaluation.create"}
      [] col = "measurement" -> {"measurement.create"}
      [] col = "attachment"  -> {"update.create"}
      [] col = "award"       -> {"endorsement.award"}

FeedCollections ==
    {"activity", "collection", "evaluation", "measurement", "attachment", "award"}

\* validateFeedRecord.
ValidRecord(r) ==
    /\ r.json /\ r.typed /\ r.valid
    /\ r.kind \in KindsOf(r.col)
    /\ CASE r.col = "activity"    -> ValidKnownImage(r.body.image, "smallImage", SmallImageMax)
         [] r.col = "collection"  -> ValidPair(r.body.avatar, r.body.banner)
         [] r.col = "evaluation"  -> ValidContent(r.body.content)
         [] r.col = "attachment"  -> ValidContent(r.body.content)
         [] r.col = "measurement" -> TRUE
         [] r.col = "award"       -> r.body.account

\* Slip: the images of a profile are taken as they are.
ValidProfileText(p) == p.json /\ p.valid

\* validateCertifiedProfile: of the indexed text, what may reach a summary.
ValidProfile(p) == p.json /\ p.valid /\ ValidPair(p.body.avatar, p.body.banner)

Meaningful(p) ==
    \/ p.body.name \notin {None, ""} \/ p.body.text
    \/ p.body.avatar # None \/ p.body.banner # None
-----------------------------------------------------------------------------
(* Views: summaries and cards. *)

\* An image reference of the given wrapper, or an external URI.
ImageReference(image, type) ==
    IF image # None /\ (image.type = "uri" \/ (image.type = type /\ image.ref))
    THEN image ELSE None

SmallImageReference(image) == ImageReference(image, "smallImage")

LargeImageReference(image) == ImageReference(image, "largeImage")

DidOnly(did) == [did |-> did, name |-> None, avatar |-> None]

\* buildActorSummary of the context's profile.
ActorSummary(did, p) ==
    IF p # None /\ ValidProfile(p) /\ Meaningful(p)
    THEN [did |-> did, name |-> p.body.name, avatar |-> SmallImageReference(p.body.avatar)]
    ELSE DidOnly(did)

\* Slip: a blob of any type will do.
IsSmallBlob(entry) == entry.type = "smallBlob"

IsImageBlob(entry) == entry.type = "smallBlob" /\ entry.mime \in ImageMimes

\* The first image among the content of an update.
UpdateImage(content) ==
    LET first == SelectInSeq(content, IsImageBlob)
    IN  IF first # 0 /\ content[first].ref THEN content[first] ELSE None

CardImage(r) ==
    CASE r.col = "activity"   -> SmallImageReference(r.body.image)
      [] r.col = "collection" ->
            IF SmallImageReference(r.body.avatar) # None
            THEN SmallImageReference(r.body.avatar)
            ELSE LargeImageReference(r.body.banner)
      [] r.col = "attachment" -> UpdateImage(r.body.content)
      [] OTHER -> None

\* Slip: only the actors of the page are asked for.
ActorOnly(r) == None

EndorsedDid(r) == IF r.col = "award" THEN r.body.subject ELSE None

Item(r, summaries) ==
    [subject |-> r.uri, kind |-> r.kind, actor |-> summaries[r.did], image |-> CardImage(r),
     endorsed |-> IF r.col = "award" THEN summaries[r.body.subject] ELSE None]
-----------------------------------------------------------------------------
Init ==
    /\ catalog \in Catalogs
    /\ db \in {s \in SUBSET catalog : \A r, q \in s : r.uri = q.uri => r = q}
    /\ phase = "idle"
    /\ batch = NoBatch
    /\ answer = <<>>
    /\ source = {}

\* External: HappyView writes, rewrites or deletes a record.
Write(r) ==
    /\ r \notin db
    /\ db' = {q \in db : q.uri # r.uri} \cup {r}
    /\ UNCHANGED <<catalog, phase, batch, answer, source>>

Delete(r) ==
    /\ r \in db
    /\ db' = db \ {r}
    /\ UNCHANGED <<catalog, phase, batch, answer, source>>

\* The first statement: the rows of the page, each joined with its own record.
\* Which rows and how many is FeedSelection's and FeedPaging's.
PageRows == {r \in db : r.col \in FeedCollections}

\* ORDER BY, which the service keeps: each of the rows once, in the order of the feed.
InFeedOrder(rows) ==
    CHOOSE s \in [1 .. Cardinality(rows) -> rows] :
        \A i, j \in DOMAIN s : i < j => s[i].uri > s[j].uri

\* The accounts a page needs: its actors, and whom its awards endorse.
RequestedDids(rows) ==
    {r.did : r \in ToSet(rows)} \cup ({EndorsedDid(r) : r \in ToSet(rows)} \ {None})

\* loadPage, and collectValidatedFeedRows: an unsound row is dropped.
LoadPage ==
    /\ phase = "idle"
    /\ LET rows == InFeedOrder({r \in PageRows : ValidRecord(r)}) IN
           /\ batch' = [rows |-> rows, dids |-> RequestedDids(rows)]
           /\ phase' = IF rows = <<>> THEN "answered" ELSE "hydrating"
    /\ source' = PageRows
    /\ UNCHANGED <<catalog, db, answer>>

\* Slip: any profile record of the account joins, whatever its key.
ProfilesOfAnyKey(did) == {p \in db : p.col = "profile" /\ p.did = did}

\* The rows the identity query joins with a requested DID.
Profiles(did) == {p \in db : p.uri = SelfUri[did] /\ p.col = "profile" /\ p.did = did}

\* getByDids refuses two rows for one DID.
OneRowEach(dids) == \A did \in dids : \A p, q \in Profiles(did) : p = q

\* The second statement: every profile as it is at that moment.
Summaries(dids) ==
    [did \in dids |->
        ActorSummary(did, IF Profiles(did) = {} THEN None ELSE CHOOSE p \in Profiles(did) : TRUE)]

\* A summary is missing for an actor or an endorsed account of the page.
AccountsFound(rows, dids) ==
    \A r \in ToSet(rows) : r.did \in dids /\ (r.col = "award" => r.body.subject \in dids)

Consistent == OneRowEach(batch.dids) /\ AccountsFound(batch.rows, batch.dids)

\* An identity or view invariant that fails is an error, HTTP 500.
Hydrate ==
    /\ phase = "hydrating"
    /\ phase' = IF Consistent THEN "answered" ELSE "broken"
    /\ answer' =
           IF Consistent
           THEN LET summaries == Summaries(batch.dids)
                IN  [i \in DOMAIN batch.rows |-> Item(batch.rows[i], summaries)]
           ELSE <<>>
    /\ UNCHANGED <<catalog, db, batch, source>>

\* Either statement fails or times out: HTTP 500.
StatementFails ==
    /\ phase \in {"idle", "hydrating"}
    /\ phase' = "failed"
    /\ UNCHANGED <<catalog, db, batch, answer, source>>

\* The client has its answer, and asks again later.
NextRequest ==
    /\ phase \in {"answered", "failed", "broken"}
    /\ phase' = "idle"
    /\ batch' = NoBatch
    /\ answer' = <<>>
    /\ source' = {}
    /\ UNCHANGED <<catalog, db>>

Next ==
    \/ \E r \in catalog : Write(r) \/ Delete(r)
    \/ LoadPage
    \/ Hydrate
    \/ StatementFails
    \/ NextRequest

Spec == Init /\ [][Next]_vars
-----------------------------------------------------------------------------
(* Properties. *)

Faces == [did : Dids, name : STRING \cup {None}, avatar : Images \cup {None}]

\* What each kind of card may show as its image.
CardTypes(kind) ==
    CASE kind = "cert.create" -> {"uri", "smallImage"}
      [] kind \in {"collection.create", "project.created_with_cert"} ->
            {"uri", "smallImage", "largeImage"}
      [] kind = "update.create" -> {"smallBlob"}
      [] OTHER -> {}

\* Every item is a view the lexicon of the feed admits: the image of a card is of a
\* wrapper its kind has and, where it is an attachment's, of an image type; a face
\* is a summary; only an endorsement has a second one (hydration/types.ts).
TypeOK ==
    /\ db \subseteq catalog
    /\ phase \in {"idle", "hydrating", "answered", "failed", "broken"}
    /\ batch.rows \in Seq(catalog) /\ batch.dids \subseteq Dids
    /\ source \subseteq catalog
    /\ \A i \in DOMAIN answer :
           /\ answer[i].actor \in Faces
           /\ answer[i].image # None =>
                  /\ answer[i].image \in Images
                  /\ answer[i].image.type \in CardTypes(answer[i].kind)
                  /\ answer[i].image.type = "smallBlob" => answer[i].image.mime \in ImageMimes
           /\ IF answer[i].kind = "endorsement.award"
              THEN answer[i].endorsed \in Faces
              ELSE answer[i].endorsed = None

\* Whatever HappyView writes, rewrites or deletes between the two statements of a
\* page, the invariant errors of identity.ts, service.ts and views.ts are never
\* raised.  (That the finished page may yet fail the check of its output, as
\* get-feed.ts lets it, is a failure of the feed to HttpPipeline.)
PageAnswered == phase # "broken"

MaxSize == [smallImage |-> SmallImageMax, largeImage |-> LargeImageMax, smallBlob |-> SmallBlobMax]

Checked(image) ==
    image # None /\ image.type # "uri" =>
        /\ image.size <= MaxSize[image.type] /\ image.ref
        /\ image.type # "smallBlob" => image.mime \in AllowedMimes

\* validation.ts checks the blob of a slot only when its wrapper is the one expected
\* there; views.ts shows a slot by its wrapper.  The two agree: no blob that was not
\* checked against its type and size is ever shown, on a card or in a face.
OnlyCheckedBlobs ==
    \A i \in DOMAIN answer :
        /\ Checked(answer[i].image)
        /\ Checked(answer[i].actor.avatar)
        /\ answer[i].endorsed # None => Checked(answer[i].endorsed.avatar)

\* A face shows the account's own profile, as published now, or its DID alone.
TrueFace(face, did) ==
    /\ face.did = did
    /\ face # DidOnly(did) =>
          \E p \in db : /\ p.col = "profile" /\ p.did = did /\ p.uri = SelfUri[did]
                        /\ face.name = p.body.name
                        /\ face.avatar \in {p.body.avatar, None}

\* An item shows the record the page was selected with, and faces of the answering
\* moment.
ShowsItem(item, r) ==
    /\ item.subject = r.uri /\ item.kind = r.kind
    /\ item.image = CardImage(r)
    /\ TrueFace(item.actor, r.did)
    /\ r.col = "award" => TrueFace(item.endorsed, r.body.subject)

\* A page is of two moments and mixes no others: its items are the sound records of
\* the first statement, each once and in the order of the page, and its faces are the
\* profiles of the second, whatever was written in between.
AnswerOfTwoMoments ==
    [][phase = "hydrating" /\ phase' = "answered" =>
          /\ \A i \in DOMAIN answer' : \E r \in source : ValidRecord(r) /\ ShowsItem(answer'[i], r)
          /\ \A r \in source : ValidRecord(r) => \E i \in DOMAIN answer' : answer'[i].subject = r.uri
          /\ \A i, j \in DOMAIN answer' : i < j => answer'[i].subject > answer'[j].subject]_vars
=============================================================================
