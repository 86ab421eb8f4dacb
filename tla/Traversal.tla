------------------------------ MODULE Traversal ------------------------------
(***************************************************************************)
(* What paging promises a reader, in terms of the collection alone.  The   *)
(* reader's front moves down a collection that changes under it.  An       *)
(* answer accounts for exactly the rows that stood between the old front   *)
(* and the new one at one moment since the front was last moved; it shows  *)
(* the sound ones among them, and perhaps others.  A page may be looked up *)
(* and then lost, which moves nothing.                                     *)
(***************************************************************************)
EXTENDS Integers

VARIABLES
    world,            \* the rows that exist: [uri, at, sound]
    front,            \* Start, a position, or End
    held,             \* Nothing, or a page looked up and not yet answered
    rows,             \* the rows the last answer accounts for
    shown             \* the rows it shows

vars == <<world, front, held, rows, shown>>

Start == [kind |-> "start"]
End == [kind |-> "end"]
Nothing == [rows |-> {}, to |-> Start]
At(r) == [kind |-> "at", at |-> r.at, uri |-> r.uri]

\* Newest first; among equals, the greater URI first.
Below(a, b) == a.at < b.at \/ (a.at = b.at /\ a.uri < b.uri)

Past(r, f) ==
    \/ f.kind = "start"
    \/ f.kind = "at" /\ Below(r, f)

Ahead == {r \in world : Past(r, front)}
UpTo(to) == {r \in Ahead : ~ Past(r, to)}

Init ==
    /\ front = Start
    /\ held = Nothing
    /\ rows = {}
    /\ shown = {}

Change == UNCHANGED <<front, held, rows, shown>>

Account(page) ==
    /\ rows' = page
    /\ shown' \subseteq page
    /\ {r \in page : r.sound} \subseteq shown'

Answer ==
    /\ held = Nothing
    /\ front' \in {End} \cup {At(r) : r \in Ahead}
    /\ Account(UpTo(front'))
    /\ UNCHANGED <<world, held>>

Look ==
    /\ held = Nothing
    /\ \E to \in {End} \cup {At(r) : r \in Ahead} :
           held' = [rows |-> UpTo(to), to |-> to]
    /\ UNCHANGED <<world, front, rows, shown>>

Deliver ==
    /\ held # Nothing
    /\ front' = held.to
    /\ Account(held.rows)
    /\ held' = Nothing
    /\ UNCHANGED world

Lose ==
    /\ held' = Nothing
    /\ UNCHANGED <<world, front, rows, shown>>

Next == Change \/ Answer \/ Look \/ Deliver \/ Lose

Spec == Init /\ [][Next]_vars
=============================================================================
