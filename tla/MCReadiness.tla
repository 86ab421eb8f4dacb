---------------------------- MODULE MCReadiness ----------------------------
(* A good database, and one with each fault that a check can name.           *)
EXTENDS Readiness

CONSTANTS c1, c2

Good == [up |-> TRUE, modern |-> TRUE, validates |-> TRUE, readOnly |-> TRUE]

MCDatabases ==
    {Good, [Good EXCEPT !.up = FALSE], [Good EXCEPT !.readOnly = FALSE],
     [Good EXCEPT !.modern = FALSE], [Good EXCEPT !.modern = FALSE, !.validates = FALSE]}

MCChecks == {c1, c2}
=============================================================================
