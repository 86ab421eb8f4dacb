------------------------- MODULE MCMaearthSelection -------------------------
(***************************************************************************)
(* One viewer, a project of ann's and a stranger, bob: records that differ *)
(* in what the scope, the two scans and the time range look at.  URIs: 20  *)
(* to 22 are collections, 30 and 31 activities, 40 to 49 posts.            *)
(***************************************************************************)
EXTENDS MaearthSelection

CONSTANTS viewer, ann, bob, overlong

MCDids == {viewer, ann, bob, overlong}
MCProjectUris == {20, 21, 22}
MCActivityUris == {30, 31}
MCPostUris == 40 .. 49
MCMisshapen == {overlong, 22, 49}

Rec(uri, did, col, body) ==
    [uri |-> uri, did |-> did, col |-> col, text |-> "sound",
     created |-> 1, indexed |-> 1, body |-> body]
Dated(r, created, indexed) == [r EXCEPT !.created = created, !.indexed = indexed]
As(r, text) == [r EXCEPT !.text = text]

Follow(uri, did, subject) == Rec(uri, did, "follow", [subject |-> subject, mediated |-> FALSE])
EntityFollow(uri, did, subject) ==
    Rec(uri, did, "entityFollow", [subject |-> subject, mediated |-> FALSE])
Mediated(r) == [r EXCEPT !.body.mediated = TRUE]
Collection(uri, type, items) == Rec(uri, ann, "collection", [type |-> type, items |-> items])
Post(uri, did, contentType, subjects) ==
    Rec(uri, did, "attachment", [contentType |-> contentType, subjects |-> subjects])
Repost(uri, did, subject) == Rec(uri, did, "repost", [subject |-> subject, cid |-> TRUE])

MCCatalog ==
    {Follow(1, viewer, ann), Mediated(Follow(1, viewer, ann)), As(Follow(1, viewer, ann), "mistyped"),
     EntityFollow(3, viewer, 20), Mediated(EntityFollow(3, viewer, 20)),
     Collection(20, "project", {30}), Collection(20, "favorites", {30}),
     As(Collection(20, "project", {31}), "mistyped"),
     Dated(Post(40, bob, "update", {30}), 2, 0), Dated(Post(40, bob, "update", {20}), None, 2),
     As(Post(40, bob, "update", {20}), "broken"),
     Dated(Post(41, viewer, "update", {20, 30}), -1, 1),
     EntityFollow(4, bob, 20),
     EntityFollow(5, ann, 20), EntityFollow(5, ann, 22),
     Follow(6, bob, ann), Mediated(Follow(6, bob, ann)),
     Dated(Follow(7, ann, bob), -1, None), Follow(7, ann, overlong),
     Dated(Repost(8, ann, 40), 2, 1), Repost(8, ann, 49)}
=============================================================================
