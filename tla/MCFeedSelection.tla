-------------------------- MODULE MCFeedSelection --------------------------
(***************************************************************************)
(* Two catalogs.  The first has an award of an evaluator, two versions of  *)
(* its badge and of the award, and answers of the subject and of somebody  *)
(* else.  The second has a followed organization with a project and its    *)
(* labels, and an outsider's activity within reach of the project.         *)
(***************************************************************************)
EXTENDS FeedSelection

CONSTANTS viewer, evaluator, ann, bob, out, labeler

MCDids == {viewer, evaluator, ann, bob, out}
Rec(uri, cid, did, col, at, body) ==
    [uri |-> uri, cid |-> cid, did |-> did, col |-> col, json |-> TRUE,
     created |-> at, indexed |-> at, body |-> body]
At(uri, cid) == [uri |-> uri, cid |-> cid]

Badge(cid, restricted) ==
    Rec(1, cid, out, "definition", None,
        [badgeType |-> "endorsement", restricted |-> restricted, allowed |-> {bob}])
Award(cid) == Rec(2, cid, evaluator, "award", 4, [badge |-> At(1, 1), subject |-> ann])
Response(uri, did, answer, created, indexed) ==
    [uri |-> uri, cid |-> 1, did |-> did, col |-> "response", json |-> TRUE,
     created |-> created, indexed |-> indexed,
     body |-> [award |-> At(2, 1), answer |-> answer]]
Follow(uri, did, subject) == Rec(uri, 1, did, "follow", 1, [subject |-> subject])

EndorsementCatalog ==
    {Badge(1, FALSE), Badge(1, TRUE), Badge(2, FALSE),
     Award(1), Award(2),
     Response(3, ann, "rejected", 5, 7),
     Response(3, ann, "accepted", 5, 7),
     Response(4, ann, "accepted", 6, 6),
     Response(4, ann, "rejected", None, 6),
     Response(4, ann, "accepted", 5, 6),
     Response(5, bob, "rejected", 8, 8),
     Rec(6, 1, ann, "evaluation", 3, None),
     Rec(6, 1, ann, "measurement", 3, None),
     Follow(7, viewer, evaluator)}

Activity(uri, cid, did, at) == Rec(uri, cid, did, "activity", at, None)
Project(cid, at, items) == Rec(12, cid, ann, "collection", at, [items |-> items])
Attachment(content) == Rec(15, 1, ann, "attachment", 3, [contentType |-> content])

ProjectCatalog ==
    {Follow(10, viewer, ann), Follow(11, viewer, bob), Follow(11, viewer, viewer),
     Activity(13, 1, ann, 4), Activity(13, 1, ann, 6), Activity(13, 2, ann, 4),
     [Activity(13, 1, ann, 4) EXCEPT !.json = FALSE],
     Activity(14, 1, bob, 4),
     Activity(16, 1, viewer, 4),
     Project(1, 5, {At(13, 1)}), Project(2, 3, {At(13, 1), At(14, 1)}), Project(3, None, {At(13, 1)}),
     Attachment("update"), Attachment("other"),
     Rec(17, 1, ann, "organization", 1, None)}

Label(src, val, exp) == [uri |-> ann, src |-> src, val |-> val, dated |-> TRUE, exp |-> exp]
QualityLabels ==
    {Label(labeler, "high-quality", None), Label(labeler, "likely-test", 1),
     Label(out, "high-quality", None)}

MCCatalogs ==
    {[records |-> EndorsementCatalog, labels |-> {}],
     [records |-> ProjectCatalog, labels |-> QualityLabels]}
MCQualities == {"high-quality"}
=============================================================================
