---------------------------- MODULE MCFeedPaging ----------------------------
(***************************************************************************)
(* Three records; pages of one or two rows; years 0001 to 9999 are the     *)
(* instants 1..4.  MaEarth's records may have any time, also of 1 BC and   *)
(* of year 10000.  In the passing run those of the Hypercerts feed have    *)
(* ordinary times, or one of year 10000; in the two others, any time.      *)
(***************************************************************************)
EXTENDS FeedPaging

Any == {0, 1, 4, 5}
MCInstants ==
    [f \in {"hypercerts", "maearth"} |->
        IF f = "maearth" THEN {Any} ELSE {{2, 3}, {2, 5}}]
MCAnyInstants == [f \in {"hypercerts"} |-> {Any}]
=============================================================================
