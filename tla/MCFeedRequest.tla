--------------------------- MODULE MCFeedRequest ---------------------------
(* Requests that may be wrong in every field at once.  The limits are scaled *)
(* down in their order: feed below lexicon.                                  *)
EXTENDS FeedRequest

CONSTANTS alice, bob

MCDids == {alice, bob}

MCRequests ==
    [feed : {"hypercerts", "maearth", "unknown"},
     ptype : {None, "hypercerts", "maearth", "unknown"},
     viewer : {None, alice, bob, "malformed"},
     actor : {None, "malformed"},
     evaluators : {{alice, bob}, {alice, "malformed"}},
     kinds : {{}, {"cert.create", "post"}, {"cert.create", "post", "like", "reply"}},
     quality : {None, {"standard", "golden"}},
     limit : {None, 0},
     cursor : {"", "overlong", "maearth"}]
=============================================================================
