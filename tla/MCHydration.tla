---------------------------- MODULE MCHydration ----------------------------
(* Four catalogs: images on cards, images in faces, the faces of accounts, and *)
(* records that are unsound.                                                   *)
EXTENDS Hydration

Ann == "ann"
Bob == "bob"

MCDids == {Ann, Bob}
MCSelfUri == [did \in MCDids |-> IF did = Ann THEN 101 ELSE 102]

Image(type, mime, size, ref) == [type |-> type, mime |-> mime, size |-> size, ref |-> ref]
Small == Image("smallImage", "image/png", 1, TRUE)
Large == Image("largeImage", "image/png", 2, TRUE)
Remote == Image("uri", "", 0, TRUE)
Svg(type) == Image(type, "image/svg", 1, TRUE)
Oversized(type) == Image(type, "image/png", 3, TRUE)
Unreferenced(type) == Image(type, "image/png", 1, FALSE)
Text == Image("smallBlob", "text/plain", 1, TRUE)
Photo == Image("smallBlob", "image/png", 2, TRUE)

Record(uri, did, col, kind, body) ==
    [uri |-> uri, did |-> did, col |-> col, kind |-> kind,
     json |-> TRUE, typed |-> TRUE, valid |-> TRUE, body |-> body]
Activity(uri, image) == Record(uri, Ann, "activity", "cert.create", [image |-> image])
Collection(uri, kind, avatar, banner) ==
    Record(uri, Bob, "collection", kind, [avatar |-> avatar, banner |-> banner])
Update(uri, content) == Record(uri, Ann, "attachment", "update.create", [content |-> content])
Evaluation(uri, did, content) ==
    Record(uri, did, "evaluation", "evaluation.create", [content |-> content])
Measurement(uri) == Record(uri, Bob, "measurement", "measurement.create", [none |-> TRUE])
Award(uri, did, subject, account) ==
    Record(uri, did, "award", "endorsement.award", [subject |-> subject, account |-> account])
Profile(uri, did, name, avatar, banner) ==
    Record(uri, did, "profile", "profile",
           [name |-> name, text |-> FALSE, avatar |-> avatar, banner |-> banner])
Described(profile) == [profile EXCEPT !.body.text = TRUE]

Activities ==
    {Activity(1, image) : image \in {Small, Svg("smallImage"), Svg("largeImage"), Remote}}

Cards ==
    {Collection(2, "collection.create", None, Large),
          Collection(2, "collection.create", Remote, Oversized("smallImage")),
          Collection(2, "project.created_with_cert", Oversized("largeImage"), Svg("smallImage")),
          Collection(2, "project.created_with_cert", Small, Oversized("largeImage"))}
    \cup {Update(3, content) : content \in
             {<<>>, <<Text, Photo>>, <<Remote, Svg("smallBlob")>>, <<Text>>,
              <<Photo, Unreferenced("smallBlob")>>}}

AvatarProfiles ==
    {Profile(101, Ann, "Ann", image, None) :
        image \in {Small, Oversized("smallImage"), Svg("largeImage"), Unreferenced("smallImage")}}

FaceRecords ==
    {Award(1, Ann, Bob, TRUE), Award(4, Bob, Bob, TRUE), Evaluation(2, Bob, <<>>)}
    \cup {Profile(101, Ann, "Ann", None, None), Profile(101, Ann, "", None, None),
          Described(Profile(101, Ann, "", None, None)), Profile(103, Ann, "Old Ann", Small, None)}
    \cup {Profile(102, Bob, "Bob", Remote, None), Profile(102, Bob, "Bob", None, Svg("largeImage")),
          [Profile(102, Bob, "Bob", None, None) EXCEPT !.json = FALSE],
          Profile(102, Bob, None, None, Large)}

Unsound ==
    {Award(1, Ann, None, FALSE), Measurement(2),
     [Measurement(2) EXCEPT !.valid = FALSE], [Measurement(2) EXCEPT !.typed = FALSE],
     [Activity(3, None) EXCEPT !.json = FALSE],
     Evaluation(4, Ann, <<Oversized("smallBlob")>>), Evaluation(4, Ann, <<Photo>>),
     Profile(102, Bob, "Bob", None, None)}

MCCatalogs == {Cards, Activities \cup AvatarProfiles, FaceRecords, Unsound}
=============================================================================
