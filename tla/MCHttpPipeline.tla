--------------------------- MODULE MCHttpPipeline ---------------------------
(***************************************************************************)
(* Two requests.  Each message differs from a good one in what a check of  *)
(* the pipeline looks at; one token is shared by several messages.         *)
(***************************************************************************)
EXTENDS HttpPipeline, TLC

CONSTANTS r1, r2, ann, bob

MCRequests == {r1, r2}
Symmetric == Permutations(MCRequests)

Good ==
    [route |-> "getFeed", method |-> "POST", size |-> 1, declared |-> TRUE,
     json |-> TRUE, valid |-> TRUE, feed |-> "hypercerts", params |-> "hypercerts",
     viewer |-> bob, normal |-> 200, cursor |-> TRUE, token |-> None]

Token(id, lxm, good) == [id |-> id, iss |-> ann, lxm |-> lxm, good |-> good]
T1 == Token(1, "getFeed", TRUE)
With(token, viewer) == [Good EXCEPT !.token = token, !.viewer = viewer]

MCMessages ==
    {Good,
     [Good EXCEPT !.route = "ready"],
     [Good EXCEPT !.method = "OPTIONS"], [Good EXCEPT !.method = "GET"],
     [Good EXCEPT !.size = 2, !.declared = FALSE], [Good EXCEPT !.size = 2],
     [Good EXCEPT !.size = 3, !.declared = FALSE], [Good EXCEPT !.size = 3],
     [Good EXCEPT !.json = FALSE],
     [Good EXCEPT !.feed = "other"], [Good EXCEPT !.params = "maearth"],
     [Good EXCEPT !.feed = "maearth", !.params = "maearth"],
     [Good EXCEPT !.normal = 400], [Good EXCEPT !.normal = 422], [Good EXCEPT !.cursor = FALSE],
     With(None, None),
     With(T1, None), With(T1, ann), With(T1, bob),
     [With(T1, None) EXCEPT !.cursor = FALSE], [With(T1, None) EXCEPT !.valid = FALSE],
     [With(T1, None) EXCEPT !.size = 3], [With(T1, None) EXCEPT !.route = "getFeedSkeleton"],
     With(Token(2, "getFeed", FALSE), None)}
=============================================================================
