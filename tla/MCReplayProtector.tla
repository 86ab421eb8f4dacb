------------------------- MODULE MCReplayProtector -------------------------
(***************************************************************************)
(* A small instance: two issuers, limits of two entries per issuer and     *)
(* three in all, seconds of two milliseconds, tokens of two lifetimes.     *)
(***************************************************************************)
EXTENDS ReplayProtector, TLC

CONSTANTS alice, bob, j1, j2, j3, getFeed, getFeedSkeleton

Token(i, j, e, m) == [issuer |-> i, jti |-> j, exp |-> e, lxm |-> m]

MCTokens ==
    {Token(alice, j1, 0, getFeed),
     Token(alice, j1, 1, getFeed),            \* the same pair, signed again
     Token(alice, j2, 0, getFeed),
     Token(alice, j3, 1, getFeedSkeleton),
     Token(alice, BadJti, 1, getFeed),
     Token(bob, j1, 0, getFeed),
     Token(bob, j2, 1, getFeed)}

MCMethods == {getFeed, getFeedSkeleton}
MCInstants == {0, 2, 4}
MCSymmetry == Permutations(Requests)
=============================================================================
