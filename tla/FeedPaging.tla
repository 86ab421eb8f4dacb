----------------------------- MODULE FeedPaging -----------------------------
(***************************************************************************)
(* One client pages through a feed while the indexer changes the records   *)
(* under it: keyset selection and limit-plus-one (feed-query.sql,          *)
(* maearth-query.sql, sql-feed.ts), the cursor (cursor.ts) and the second  *)
(* statement of a hydrated page (hydration/service.ts).                    *)
(*                                                                         *)
(* An event stands for a record that the feed's selection admits for this  *)
(* viewer.  URIs are numbers in the order their text sorts; instants are   *)
(* integers, years 0001 to 9999 UTC being FirstInstant..LastInstant.       *)
(***************************************************************************)
EXTENDS Integers, FiniteSets

CONSTANTS
    Uris,
    Feeds,            \* "hypercerts", "maearth" or both
    Instants,         \* per feed: sets of effective times its records may have
    Limits,           \* page sizes a client asks for
    FirstInstant, LastInstant,
    YearLength        \* instants in a year

ASSUME PagingAssumption ==
    /\ Uris \subseteq Int
    /\ Feeds \subseteq {"hypercerts", "maearth"}
    /\ Instants \in [Feeds -> SUBSET SUBSET Int]
    /\ Limits \subseteq Nat \ {0}
    /\ IsFiniteSet(Uris)
    /\ FirstInstant \in Int /\ LastInstant \in Int /\ YearLength \in Nat

VARIABLES
    feed,             \* the feed the client pages through
    instants,         \* the effective times records are given while it does
    events,           \* per URI: Absent, or its effective time and soundness
    phase,            \* "ready", "hydrating", "done" or "refused"
    cursor,           \* the cursor the client holds
    batch,            \* the selected page awaiting its identity query
    answer,           \* the last answer: the rows of its page, those among its items
    settled,          \* history: URIs in an answered page, as an item if sound
    steady            \* history: URIs whose event never changed since the start

vars == <<feed, instants, events, phase, cursor, batch, answer, settled, steady>>

Absent == [present |-> FALSE]
NoCursor == [given |-> FALSE]
NoBatch == [rows |-> {}, next |-> NoCursor]
NoAnswer == [rows |-> {}, items |-> {}]
-----------------------------------------------------------------------------
(* Selection. *)

\* Slip: only one end of the range is enforced.
VisibleWithoutCutoff == {i \in instants : feed = "maearth" => i >= FirstInstant}

\* MaEarth hides the instants outside its range; Hypercerts has no range.
VisibleInstants == {i \in instants : feed = "maearth" => i \in FirstInstant .. LastInstant}

\* MaEarth drops no row of a page, so all of its rows are sound.
Soundness == IF feed = "maearth" THEN {TRUE} ELSE BOOLEAN

EventStates == [present : {TRUE}, at : VisibleInstants, sound : Soundness]

Row(u) == [uri |-> u, at |-> events[u].at, sound |-> events[u].sound]

\* ORDER BY effective_at DESC, uri DESC
After(a, b) == a.at < b.at \/ (a.at = b.at /\ a.uri < b.uri)

\* Slip: the keyset condition compares times only.
PastCursorTime(row) == cursor # NoCursor => row.at <= cursor.at

\* The keyset condition on the cursor's value and uri.
PastCursor(row) == cursor # NoCursor => After(row, cursor)

Rows == {Row(u) : u \in {v \in Uris : events[v].present}}

Candidates == {r \in Rows : PastCursor(r)}

\* S is what ORDER BY ... LIMIT k, or slice(0, k), keeps of C.
IsFirst(S, C, k) ==
    /\ Cardinality(S) = IF Cardinality(C) < k THEN Cardinality(C) ELSE k
    /\ \A a \in S, b \in C \ S : After(b, a)

\* sort_value: to_char drops the era, so an instant of 1 BC reads as year 0001.
SortValue(i) == IF i < FirstInstant THEN i + YearLength ELSE i

\* Slip: the position leaves the tie-breaker out.
CursorTime(row) == [given |-> TRUE, at |-> SortValue(row.at)]

\* encodeCursor marks a row.
CursorAt(row) == [given |-> TRUE, at |-> SortValue(row.at), uri |-> row.uri]

IsLast(r, S) == r \in S /\ \A q \in S : q = r \/ After(r, q)

\* finishPage: the extra row only tells whether another page exists.
HasNext(rows, limit) == Cardinality(rows) > limit

\* Slip: the position is the extra row's.
EndsAtExtraRow(rows, page, limit, next) ==
    IF HasNext(rows, limit)
    THEN \E last \in rows : IsLast(last, rows) /\ next = CursorAt(last)
    ELSE next = NoCursor

\* The cursor marks the page's last row.
EndsAt(rows, page, limit, next) ==
    IF HasNext(rows, limit)
    THEN \E last \in page : IsLast(last, page) /\ next = CursorAt(last)
    ELSE next = NoCursor

\* decodeCursor takes an RFC 3339 value: a five-digit year is not one.
CursorAccepted == cursor # NoCursor => cursor.at <= LastInstant
-----------------------------------------------------------------------------
Init ==
    /\ feed \in Feeds
    /\ instants \in Instants[feed]
    /\ events \in [Uris -> EventStates \cup {Absent}]
    /\ phase = "ready"
    /\ cursor = NoCursor
    /\ batch = NoBatch
    /\ answer = NoAnswer
    /\ settled = {}
    /\ steady = {u \in Uris : events[u].present}

\* External: HappyView writes, rewrites or deletes a record.
Change(u, e) ==
    /\ e # events[u]
    /\ events' = [events EXCEPT ![u] = e]
    /\ steady' = steady \ {u}
    /\ UNCHANGED <<feed, instants, phase, cursor, batch, answer, settled>>

\* The client receives a page's items and its cursor, if there is one.
Receive(page, items, next) ==
    /\ answer' = [rows |-> page, items |-> items]
    /\ settled' = settled \cup {r.uri : r \in {q \in page : q.sound => q \in items}}
    /\ cursor' = next
    /\ phase' = IF next = NoCursor THEN "done" ELSE "ready"

\* loadPage: one statement selects the rows of the page, and one more.
Selects(limit, rows) ==
    /\ phase = "ready"
    /\ CursorAccepted
    /\ IsFirst(rows, Candidates, limit + 1)

\* finishPage keeps the page and marks its end.
Finishes(limit, rows, page, next) ==
    /\ IF HasNext(rows, limit) THEN IsFirst(page, rows, limit) ELSE page = rows
    /\ EndsAt(rows, page, limit, next)

\* getFeedSkeleton, and MaEarth's getFeed, answer with the page as it was selected.
SkeletonPage(page, next) ==
    /\ Receive(page, page, next)
    /\ UNCHANGED <<feed, instants, events, batch, steady>>

SoundRows(page) == {r \in page : r.sound}

\* getFeed with no sound row left answers at once, keeping the cursor.
EmptyFeedPage(page, next) ==
    /\ feed # "maearth"
    /\ SoundRows(page) = {}
    /\ Receive(page, {}, next)
    /\ UNCHANGED <<feed, instants, events, batch, steady>>

\* getFeed keeps the sound rows and awaits the identity query.
SelectFeedPage(page, next) ==
    /\ feed # "maearth"
    /\ SoundRows(page) # {}
    /\ batch' = [rows |-> page, next |-> next]
    /\ phase' = "hydrating"
    /\ UNCHANGED <<feed, instants, events, cursor, answer, settled, steady>>

\* The identities arrive: the items are the rows the first statement selected.
HydrateFeedPage ==
    /\ phase = "hydrating"
    /\ Receive(batch.rows, SoundRows(batch.rows), batch.next)
    /\ batch' = NoBatch
    /\ UNCHANGED <<feed, instants, events, steady>>

\* The identity query fails or times out: HTTP 500, and the client, which still
\* holds the cursor it sent, asks again.  (A failed first statement changes nothing.)
HydrationFails ==
    /\ phase = "hydrating"
    /\ phase' = "ready"
    /\ batch' = NoBatch
    /\ UNCHANGED <<feed, instants, events, cursor, answer, settled, steady>>

\* InvalidCursor: the traversal cannot go on.
RefuseCursor ==
    /\ phase = "ready"
    /\ ~ CursorAccepted
    /\ phase' = "refused"
    /\ UNCHANGED <<feed, instants, events, cursor, batch, answer, settled, steady>>

LoadPage ==
    \E limit \in Limits, rows \in SUBSET Candidates :
        /\ Selects(limit, rows)
        /\ \E page \in SUBSET rows, next \in {NoCursor} \cup {CursorAt(r) : r \in rows} :
               /\ Finishes(limit, rows, page, next)
               /\ \/ SkeletonPage(page, next)
                  \/ EmptyFeedPage(page, next)
                  \/ SelectFeedPage(page, next)

Next ==
    \/ \E u \in Uris, e \in EventStates \cup {Absent} : Change(u, e)
    \/ LoadPage
    \/ HydrateFeedPage
    \/ HydrationFails
    \/ RefuseCursor

Spec == Init /\ [][Next]_vars

\* The client goes on asking and an identity query does not fail for ever.
Fairness ==
    /\ WF_vars(LoadPage)
    /\ WF_vars(RefuseCursor)
    /\ SF_vars(HydrateFeedPage)

FairSpec == Spec /\ Fairness
-----------------------------------------------------------------------------
CursorStates == {NoCursor} \cup [given : {TRUE}, at : Int, uri : Uris]
RowStates == [uri : Uris, at : VisibleInstants, sound : BOOLEAN]

\* The variables are well typed.
TypeOK ==
    /\ feed \in Feeds
    /\ instants \in Instants[feed]
    /\ events \in [Uris -> EventStates \cup {Absent}]
    /\ phase \in {"ready", "hydrating", "done", "refused"}
    /\ cursor \in CursorStates
    /\ batch \in [rows : SUBSET RowStates, next : CursorStates]
    /\ answer \in [rows : SUBSET RowStates, items : SUBSET RowStates]
    /\ settled \subseteq Uris
    /\ steady \subseteq {u \in Uris : events[u].present}

\* Nothing is skipped: an event that stays as it is while the client pages has
\* been checked, and delivered if it is sound, or is still ahead of the cursor,
\* whatever is inserted, moved or deleted around it and whichever pages fail.
NothingSkipped ==
    \A u \in steady :
        \/ u \in settled
        \/ phase # "done" /\ PastCursor(Row(u))

\* The refinement mapping: where the client stands, and the page in flight.
Position(c) == [kind |-> "at", at |-> c.at, uri |-> c.uri]
AfterPage(next) == IF next = NoCursor THEN [kind |-> "end"] ELSE Position(next)
Front ==
    IF phase = "done" THEN [kind |-> "end"]
    ELSE IF cursor = NoCursor THEN [kind |-> "start"] ELSE Position(cursor)
Held ==
    IF phase = "hydrating"
    THEN [rows |-> batch.rows, to |-> AfterPage(batch.next)]
    ELSE [rows |-> {}, to |-> [kind |-> "start"]]

Trav == INSTANCE Traversal WITH
    world <- Rows, front <- Front, held <- Held, rows <- answer.rows, shown <- answer.items

\* Each answer accounts for the rows that stood between the position the client
\* sent and the one it received, all of them at one moment: pages neither
\* overlap nor leave a gap, and a failed page moves nothing.
ImplementsTraversal == Trav!Spec

\* The cursor is past every row of the page it came with, valid or dropped.
CursorPastEveryRow ==
    cursor # NoCursor => \A r \in answer.rows : ~ After(r, cursor)

\* A cursor sent back as it was returned is accepted.
ReturnedCursorAccepted == phase # "refused"

\* A client that goes on asking reaches the last page, even through pages whose
\* items were all dropped and while records keep changing.  Only the Hypercerts
\* feed, which has no time range, may end with a refused cursor instead.
TraversalEnds ==
    <>(\/ phase = "done"
       \/ phase = "refused" /\ feed = "hypercerts" /\ \E i \in instants : i > LastInstant)
=============================================================================
