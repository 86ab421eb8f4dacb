-------------------------- MODULE FeedPagingProofs --------------------------
(***************************************************************************)
(* For every set of URIs, times, page sizes and every time range: paging   *)
(* skips nothing, and, while no record is dated before year 0001, it       *)
(* implements Traversal.                                                   *)
(***************************************************************************)
EXTENDS FeedPaging, FiniteSetTheorems, TLAPS

\* What to_char makes of an instant never lies before it.
LEMMA SortValueType ==
    ASSUME NEW i \in Int
    PROVE  SortValue(i) \in Int /\ SortValue(i) >= i
BY PagingAssumption DEF SortValue

\* The rows of a state are typed, and finitely many.
LEMMA RowsType ==
    ASSUME TypeOK
    PROVE  /\ Rows \subseteq RowStates
           /\ IsFiniteSet(Rows)
           /\ VisibleInstants \subseteq Int
<1>1. Rows \subseteq RowStates
  <2>1. ASSUME NEW u \in Uris, events[u].present PROVE Row(u) \in RowStates
    <3>1. events[u] \in EventStates
      BY <2>1 DEF TypeOK, Absent
    <3>2. events[u].at \in VisibleInstants /\ events[u].sound \in BOOLEAN
      BY <3>1 DEF EventStates, Soundness
    <3>. QED BY <3>2 DEF Row, RowStates
  <2>. QED BY <2>1 DEF Rows
<1>2. VisibleInstants \subseteq Int
  BY PagingAssumption DEF TypeOK, VisibleInstants
<1>3. IsFiniteSet(Rows)
  <2> DEFINE here == {v \in Uris : events[v].present}
             row == [v \in here |-> Row(v)]
  <2>1. IsFiniteSet(here)
    BY PagingAssumption, FS_Subset
  <2>2. row \in Surjection(here, Rows)
    BY DEF Surjection, Rows
  <2>. QED BY <2>1, <2>2, FS_Surjection
<1>. QED BY <1>1, <1>2, <1>3

\* A page is its front of the candidates, and its cursor is the place where it ends.
LEMMA PageLemma ==
    ASSUME TypeOK, NEW limit \in Limits,
           NEW rows \in SUBSET Candidates, NEW page \in SUBSET rows, NEW next,
           Selects(limit, rows), Finishes(limit, rows, page, next)
    PROVE  /\ page \subseteq RowStates
           /\ \/ next = NoCursor /\ page = Candidates
              \/ \E last \in page :
                     /\ next = CursorAt(last)
                     /\ \A r \in page : r = last \/ After(last, r)
                     /\ \A r \in Candidates \ page : After(r, last)
<1>1. /\ Candidates \subseteq RowStates
      /\ IsFiniteSet(Candidates) /\ Cardinality(Candidates) \in Nat
      /\ IsFiniteSet(rows) /\ Cardinality(rows) \in Nat
      /\ limit \in Nat
  BY RowsType, FS_Subset, FS_CardinalityType, PagingAssumption DEF Candidates
<1>2. CASE HasNext(rows, limit)
  <2>1. PICK last \in page : IsLast(last, page) /\ next = CursorAt(last)
    BY <1>2 DEF Finishes, EndsAt
  <2>2. ASSUME NEW r \in Candidates \ page PROVE After(r, last)
    BY <1>2, <2>1 DEF Selects, Finishes, IsFirst
  <2>. QED BY <1>1, <2>1, <2>2 DEF IsLast
<1>3. CASE ~ HasNext(rows, limit)
  <2>1. next = NoCursor /\ page = rows
    BY <1>3 DEF Finishes, EndsAt
  <2>2. Cardinality(rows) = Cardinality(Candidates)
    BY <1>1, <1>3 DEF Selects, IsFirst, HasNext
  <2>3. rows = Candidates
    BY <1>1, <2>2, FS_Subset
  <2>. QED BY <1>1, <2>1, <2>3
<1>. QED BY <1>2, <1>3

-----------------------------------------------------------------------------
(* Types. *)

LEMMA CursorAtType ==
    ASSUME TypeOK, NEW r \in RowStates
    PROVE  /\ CursorAt(r) \in CursorStates
           /\ CursorAt(r) # NoCursor
BY RowsType, SortValueType DEF RowStates, CursorStates, CursorAt, NoCursor

LEMMA PageType ==
    ASSUME TypeOK, NEW limit \in Limits,
           NEW rows \in SUBSET Candidates, NEW page \in SUBSET rows, NEW next,
           Selects(limit, rows), Finishes(limit, rows, page, next)
    PROVE  page \subseteq RowStates /\ next \in CursorStates
<1>1. page \subseteq RowStates
  BY PageLemma
<1>2. NoCursor \in CursorStates
  BY DEF CursorStates
<1>3. next = NoCursor \/ \E last \in page : next = CursorAt(last)
  BY PageLemma
<1>. QED BY <1>1, <1>2, <1>3, CursorAtType

\* A step of the traversal keeps the feed and the records' possible times.
LEMMA SameWorld ==
    ASSUME UNCHANGED <<feed, instants>>
    PROVE  /\ VisibleInstants' = VisibleInstants
           /\ EventStates' = EventStates
           /\ RowStates' = RowStates
BY DEF VisibleInstants, EventStates, Soundness, RowStates

\* What the client has after an answer.
LEMMA ReceiveType ==
    ASSUME TypeOK, NEW page \in SUBSET RowStates, NEW items \in SUBSET RowStates,
           NEW next \in CursorStates, Receive(page, items, next)
    PROVE  /\ answer' \in [rows : SUBSET RowStates, items : SUBSET RowStates]
           /\ settled' \subseteq Uris
           /\ cursor' \in CursorStates
           /\ phase' \in {"ready", "done"}
<1>1. \A r \in page : r.uri \in Uris
  BY DEF RowStates
<1>2. {r.uri : r \in {q \in page : q.sound => q \in items}} \subseteq Uris
  BY <1>1
<1>. QED BY <1>2 DEF Receive, TypeOK

LEMMA TypeStep == TypeOK /\ [Next]_vars => TypeOK'
<1> SUFFICES ASSUME TypeOK, [Next]_vars PROVE TypeOK'
  OBVIOUS
<1>0. UNCHANGED <<feed, instants>>
  BY DEF Next, Change, LoadPage, SkeletonPage, EmptyFeedPage, SelectFeedPage,
         HydrateFeedPage, HydrationFails, RefuseCursor, vars
<1>. /\ EventStates' = EventStates
     /\ RowStates' = RowStates
  BY <1>0, SameWorld
<1>. NoBatch \in [rows : SUBSET RowStates, next : CursorStates]
  BY DEF NoBatch, CursorStates
<1>1. ASSUME NEW u \in Uris, NEW e \in EventStates \cup {Absent}, Change(u, e)
      PROVE  TypeOK'
  BY <1>1, <1>0 DEF Change, TypeOK
<1>2. CASE LoadPage
  <2>1. PICK limit \in Limits, rows \in SUBSET Candidates :
            /\ Selects(limit, rows)
            /\ \E page \in SUBSET rows, next \in {NoCursor} \cup {CursorAt(r) : r \in rows} :
                   /\ Finishes(limit, rows, page, next)
                   /\ \/ SkeletonPage(page, next)
                      \/ EmptyFeedPage(page, next)
                      \/ SelectFeedPage(page, next)
    BY <1>2 DEF LoadPage
  <2>2. PICK page \in SUBSET rows, next \in {NoCursor} \cup {CursorAt(r) : r \in rows} :
            /\ Finishes(limit, rows, page, next)
            /\ \/ SkeletonPage(page, next)
               \/ EmptyFeedPage(page, next)
               \/ SelectFeedPage(page, next)
    BY <2>1
  <2>3. page \subseteq RowStates /\ next \in CursorStates
    BY <2>1, <2>2, PageType
  <2>4. CASE SkeletonPage(page, next)
    BY <2>3, <2>4, <1>0, ReceiveType DEF SkeletonPage, TypeOK
  <2>5. CASE EmptyFeedPage(page, next)
    BY <2>3, <2>5, <1>0, ReceiveType DEF EmptyFeedPage, TypeOK
  <2>6. CASE SelectFeedPage(page, next)
    BY <2>3, <2>6, <1>0 DEF SelectFeedPage, TypeOK
  <2>. QED BY <2>2, <2>4, <2>5, <2>6
<1>3. CASE HydrateFeedPage
  <2>1. batch.rows \subseteq RowStates /\ batch.next \in CursorStates
    BY DEF TypeOK
  <2>2. SoundRows(batch.rows) \subseteq RowStates
    BY <2>1 DEF SoundRows
  <2>. QED BY <1>3, <2>1, <2>2, <1>0, ReceiveType DEF HydrateFeedPage, TypeOK
<1>4. CASE HydrationFails
  BY <1>4, <1>0 DEF HydrationFails, TypeOK
<1>5. CASE RefuseCursor
  BY <1>5, <1>0 DEF RefuseCursor, TypeOK
<1>6. CASE UNCHANGED vars
  BY <1>6, <1>0 DEF vars, TypeOK
<1>. QED BY <1>1, <1>2, <1>3, <1>4, <1>5, <1>6 DEF Next

\* The variables keep their types, whatever the records' times.
THEOREM PagingTypes == Spec => []TypeOK
<1>1. Init => TypeOK
  BY DEF Init, TypeOK, NoBatch, NoAnswer, CursorStates
<1>. QED BY <1>1, TypeStep, PTL DEF Spec

-----------------------------------------------------------------------------
(***************************************************************************)
(* Nothing is skipped.  The page in flight is part of the argument: a      *)
(* steady event it was selected before or after is on it or behind it.     *)
(***************************************************************************)

\* A row is on the page, or behind its cursor.
OnOrBehind(r, page, next) ==
    r \in page \/ (next # NoCursor /\ After(r, next))

PageCovers ==
    phase = "hydrating" =>
        \A u \in steady : u \in settled \/ OnOrBehind(Row(u), batch.rows, batch.next)

SkipInv == TypeOK /\ NothingSkipped /\ PageCovers

LEMMA PageCoversCandidates ==
    ASSUME TypeOK, NEW limit \in Limits,
           NEW rows \in SUBSET Candidates, NEW page \in SUBSET rows, NEW next,
           Selects(limit, rows), Finishes(limit, rows, page, next)
    PROVE  \A r \in Candidates : OnOrBehind(r, page, next)
<1>1. CASE page = Candidates
  BY <1>1 DEF OnOrBehind
<1>2. CASE \E last \in page :
               /\ next = CursorAt(last)
               /\ \A r \in Candidates \ page : After(r, last)
  <2>1. PICK last \in page :
            /\ next = CursorAt(last)
            /\ \A r \in Candidates \ page : After(r, last)
    BY <1>2
  <2>2. Candidates \subseteq RowStates /\ last \in RowStates
    BY RowsType DEF Candidates
  <2>3. ASSUME NEW r \in Candidates \ page PROVE next # NoCursor /\ After(r, next)
    <3>1. /\ r.at \in Int /\ r.uri \in Int
          /\ last.at \in Int /\ last.uri \in Int
      <4>1. \A q \in RowStates : q.at \in Int /\ q.uri \in Int
        BY RowsType, PagingAssumption DEF RowStates
      <4>. QED BY <2>2, <4>1
    <3>2. next.at \in Int /\ next.at >= last.at /\ next.uri = last.uri
      BY <2>1, <3>1, SortValueType DEF CursorAt
    <3>3. r.at < last.at \/ (r.at = last.at /\ r.uri < last.uri)
      BY <2>1 DEF After
    <3>4. After(r, next)
      BY <3>1, <3>2, <3>3 DEF After
    <3>. QED BY <2>1, <2>2, <3>4, CursorAtType
  <2>. QED BY <2>3 DEF OnOrBehind
<1>. QED BY <1>1, <1>2, PageLemma

\* A steady event ahead of the cursor is on the page just selected or behind it.
LEMMA SelectionCovers ==
    ASSUME SkipInv, NEW limit \in Limits,
           NEW rows \in SUBSET Candidates, NEW page \in SUBSET rows, NEW next,
           Selects(limit, rows), Finishes(limit, rows, page, next)
    PROVE  \A u \in steady : u \in settled \/ OnOrBehind(Row(u), page, next)
<1>1. ASSUME NEW u \in steady, u \notin settled PROVE Row(u) \in Candidates
  <2>1. PastCursor(Row(u))
    BY <1>1 DEF SkipInv, NothingSkipped
  <2>2. Row(u) \in Rows
    BY DEF SkipInv, TypeOK, Rows
  <2>. QED BY <2>1, <2>2 DEF Candidates
<1>. QED BY <1>1, PageCoversCandidates DEF SkipInv

\* An answer that shows the sound rows of a covering page skips nothing.
LEMMA ReceiveSkipsNothing ==
    ASSUME TypeOK, NEW page, NEW items, NEW next, Receive(page, items, next),
           SoundRows(page) \subseteq items, UNCHANGED <<events, steady>>,
           \A u \in steady : u \in settled \/ OnOrBehind(Row(u), page, next)
    PROVE  NothingSkipped' /\ PageCovers'
<1>1. ASSUME NEW u \in steady', u \notin settled'
      PROVE  phase' # "done" /\ PastCursor(Row(u))'
  <2>1. Row(u)' = Row(u) /\ Row(u).uri = u
    BY DEF Row
  <2>2. Row(u) \notin page
    <3>1. SUFFICES ASSUME Row(u) \in page PROVE FALSE
      OBVIOUS
    <3>2. Row(u).sound => Row(u) \in items
      BY <3>1 DEF SoundRows
    <3>3. u \in settled'
      BY <2>1, <3>1, <3>2 DEF Receive
    <3>. QED BY <1>1, <3>3
  <2>3. next # NoCursor /\ After(Row(u), next)
    BY <1>1, <2>2 DEF OnOrBehind, Receive
  <2>. QED BY <2>1, <2>3 DEF Receive, PastCursor
<1>2. phase' # "hydrating"
  BY DEF Receive
<1>. QED BY <1>1, <1>2 DEF NothingSkipped, PageCovers

LEMMA SkipStep == SkipInv /\ [Next]_vars => SkipInv'
<1> SUFFICES ASSUME SkipInv, [Next]_vars PROVE NothingSkipped' /\ PageCovers'
  BY TypeStep DEF SkipInv
<1>. TypeOK
  BY DEF SkipInv
<1>1. ASSUME NEW u \in Uris, NEW e \in EventStates \cup {Absent}, Change(u, e)
      PROVE  NothingSkipped' /\ PageCovers'
  <2>1. ASSUME NEW v \in steady' PROVE v \in steady /\ Row(v)' = Row(v)
    BY <1>1, <2>1 DEF Change, TypeOK, Row
  <2>. QED BY <1>1, <2>1
           DEF Change, SkipInv, NothingSkipped, PageCovers, PastCursor, OnOrBehind
<1>2. CASE LoadPage
  <2>1. PICK limit \in Limits, rows \in SUBSET Candidates :
            /\ Selects(limit, rows)
            /\ \E page \in SUBSET rows, next \in {NoCursor} \cup {CursorAt(r) : r \in rows} :
                   /\ Finishes(limit, rows, page, next)
                   /\ \/ SkeletonPage(page, next)
                      \/ EmptyFeedPage(page, next)
                      \/ SelectFeedPage(page, next)
    BY <1>2 DEF LoadPage
  <2>2. PICK page \in SUBSET rows, next \in {NoCursor} \cup {CursorAt(r) : r \in rows} :
            /\ Finishes(limit, rows, page, next)
            /\ \/ SkeletonPage(page, next)
               \/ EmptyFeedPage(page, next)
               \/ SelectFeedPage(page, next)
    BY <2>1
  <2>3. \A u \in steady : u \in settled \/ OnOrBehind(Row(u), page, next)
    BY <2>1, <2>2, SelectionCovers
  <2>4. CASE SkeletonPage(page, next)
    BY <2>3, <2>4, ReceiveSkipsNothing DEF SkeletonPage, SoundRows
  <2>5. CASE EmptyFeedPage(page, next)
    BY <2>3, <2>5, ReceiveSkipsNothing DEF EmptyFeedPage
  <2>6. CASE SelectFeedPage(page, next)
    <3>1. ASSUME NEW u \in steady' PROVE u \in steady /\ Row(u)' = Row(u)
      BY <2>6 DEF SelectFeedPage, Row
    <3>2. \A u \in steady : u \in settled \/ (phase # "done" /\ PastCursor(Row(u)))
      BY DEF SkipInv, NothingSkipped
    <3>3. NothingSkipped'
      BY <2>1, <2>6, <3>1, <3>2 DEF SelectFeedPage, NothingSkipped, PastCursor, Selects
    <3>4. PageCovers'
      BY <2>3, <2>6, <3>1 DEF SelectFeedPage, PageCovers, OnOrBehind
    <3>. QED BY <3>3, <3>4
  <2>. QED BY <2>2, <2>4, <2>5, <2>6
<1>3. CASE HydrateFeedPage
  <2>1. \A u \in steady : u \in settled \/ OnOrBehind(Row(u), batch.rows, batch.next)
    BY <1>3 DEF HydrateFeedPage, SkipInv, PageCovers
  <2>. QED BY <1>3, <2>1, ReceiveSkipsNothing DEF HydrateFeedPage
<1>4. CASE HydrationFails
  BY <1>4 DEF HydrationFails, SkipInv, NothingSkipped, PageCovers, PastCursor, Row
<1>5. CASE RefuseCursor
  BY <1>5 DEF RefuseCursor, SkipInv, NothingSkipped, PageCovers, PastCursor, Row
<1>6. CASE UNCHANGED vars
  BY <1>6 DEF vars, SkipInv, NothingSkipped, PageCovers, PastCursor, OnOrBehind, Row
<1>. QED BY <1>1, <1>2, <1>3, <1>4, <1>5, <1>6 DEF Next

\* Whatever is written, moved or deleted while a client pages, and whichever
\* pages fail, no event that stays as it is goes unseen.
THEOREM PagingSkipsNothing == Spec => []NothingSkipped
<1>1. Init => SkipInv
  <2>1. Init => TypeOK
    BY DEF Init, TypeOK, NoBatch, NoAnswer, CursorStates
  <2>. QED BY <2>1 DEF Init, SkipInv, NothingSkipped, PageCovers, PastCursor
<1>2. SkipInv => NothingSkipped
  BY DEF SkipInv
<1>. QED BY <1>1, <1>2, SkipStep, PTL DEF Spec

-----------------------------------------------------------------------------
(***************************************************************************)
(* The refinement.  Of the records' times it needs what a year before 0001 *)
(* would break: that the position a cursor names is the row's own.         *)
(***************************************************************************)

\* No record of the Hypercerts feed is dated before year 0001.
NoEarlyEvents ==
    \A f \in Feeds : \A I \in Instants[f] : \A i \in I :
        f = "hypercerts" => i >= FirstInstant

LEMMA ExactPosition ==
    ASSUME TypeOK, NoEarlyEvents, NEW r \in RowStates
    PROVE  /\ r.at \in Int /\ r.uri \in Int
           /\ CursorAt(r).at = r.at /\ CursorAt(r).uri = r.uri
<1>1. r.at \in VisibleInstants /\ r.uri \in Uris
  BY DEF RowStates
<1>2. r.at \in Int /\ r.uri \in Int
  BY <1>1, RowsType, PagingAssumption
<1>3. r.at >= FirstInstant
  <2>1. CASE feed = "maearth"
    BY <1>1, <1>2, <2>1, PagingAssumption DEF VisibleInstants
  <2>2. CASE feed # "maearth"
    BY <1>1, <2>2, PagingAssumption DEF VisibleInstants, NoEarlyEvents, TypeOK
  <2>. QED BY <2>1, <2>2
<1>. QED BY <1>2, <1>3, PagingAssumption DEF CursorAt, SortValue

\* What is ahead of the client is what the next page is selected from.
LEMMA AheadIsCandidates ==
    ASSUME TypeOK, phase = "ready"
    PROVE  Trav!Ahead = Candidates
<1>1. CASE cursor = NoCursor
  BY <1>1 DEF Trav!Ahead, Trav!Past, Front, Candidates, PastCursor
<1>2. CASE cursor # NoCursor
  <2>1. Front = Position(cursor)
    BY <1>2 DEF Front
  <2>2. \A r \in Rows : Trav!Past(r, Front) <=> After(r, cursor)
    BY <2>1 DEF Trav!Past, Trav!Below, Position, After
  <2>. QED BY <1>2, <2>2 DEF Trav!Ahead, Candidates, PastCursor
<1>. QED BY <1>1, <1>2

\* The page is what lies between the client's position and the one it is given.
LEMMA PageIsInterval ==
    ASSUME TypeOK, NoEarlyEvents, NEW limit \in Limits,
           NEW rows \in SUBSET Candidates, NEW page \in SUBSET rows, NEW next,
           Selects(limit, rows), Finishes(limit, rows, page, next)
    PROVE  /\ AfterPage(next) \in {Trav!End} \cup {Trav!At(r) : r \in Trav!Ahead}
           /\ page = Trav!UpTo(AfterPage(next))
<1>0. Trav!Ahead = Candidates
  BY AheadIsCandidates DEF Selects
<1>1. CASE next = NoCursor /\ page = Candidates
  BY <1>0, <1>1 DEF AfterPage, Trav!End, Trav!UpTo, Trav!Past
<1>2. CASE \E last \in page :
               /\ next = CursorAt(last)
               /\ \A r \in page : r = last \/ After(last, r)
               /\ \A r \in Candidates \ page : After(r, last)
  <2>1. PICK last \in page :
            /\ next = CursorAt(last)
            /\ \A r \in page : r = last \/ After(last, r)
            /\ \A r \in Candidates \ page : After(r, last)
    BY <1>2
  <2>2. Candidates \subseteq RowStates /\ last \in RowStates
    BY RowsType DEF Candidates
  <2>3. AfterPage(next) = Trav!At(last)
    BY <2>1, <2>2, ExactPosition, CursorAtType DEF AfterPage, Position, Trav!At
  <2>4. \A r : Trav!Past(r, Trav!At(last)) <=> After(r, last)
    BY DEF Trav!Past, Trav!At, Trav!Below, After
  <2>5. ASSUME NEW r \in page PROVE ~ After(r, last)
    <3>1. /\ r.at \in Int /\ r.uri \in Int
          /\ last.at \in Int /\ last.uri \in Int
      BY <2>2, ExactPosition
    <3>2. CASE r = last
      BY <3>1, <3>2 DEF After
    <3>3. CASE After(last, r)
      BY <3>1, <3>3 DEF After
    <3>. QED BY <2>1, <3>2, <3>3
  <2>6. page = {r \in Candidates : ~ After(r, last)}
    BY <2>1, <2>5
  <2>. QED BY <1>0, <2>3, <2>4, <2>6 DEF Trav!UpTo
<1>. QED BY <1>1, <1>2, PageLemma

\* An answer that shows the sound rows of its page accounts for the page.
LEMMA ReceiveAccounts ==
    ASSUME NEW page, NEW items, NEW next, Receive(page, items, next),
           SoundRows(page) \subseteq items, items \subseteq page
    PROVE  /\ Trav!Account(page)
           /\ Front' = AfterPage(next)
           /\ Held' = Trav!Nothing
BY DEF Receive, Trav!Account, SoundRows, Front, AfterPage, Position, Held,
       Trav!Nothing, Trav!Start

\* A page in flight has rows.
InFlight == phase = "hydrating" => batch.rows # {}

TravInv == TypeOK /\ InFlight

LEMMA InFlightStep == TravInv /\ [Next]_vars => TravInv'
<1> SUFFICES ASSUME TravInv, [Next]_vars PROVE InFlight'
  BY TypeStep DEF TravInv
<1>. QED BY DEF TravInv, InFlight, Next, Change, LoadPage, SkeletonPage, EmptyFeedPage,
                SelectFeedPage, Receive, SoundRows, HydrateFeedPage, HydrationFails,
                RefuseCursor, vars

LEMMA SimulationStep ==
    ASSUME NoEarlyEvents
    PROVE  TravInv /\ [Next]_vars => [Trav!Next]_(Trav!vars)
<1> SUFFICES ASSUME TravInv, [Next]_vars PROVE [Trav!Next]_(Trav!vars)
  OBVIOUS
<1>. TypeOK
  BY DEF TravInv
<1>1. ASSUME NEW u \in Uris, NEW e \in EventStates \cup {Absent}, Change(u, e)
      PROVE  Trav!Change
  BY <1>1 DEF Change, Trav!Change, Front, Held
<1>2. ASSUME LoadPage PROVE Trav!Answer \/ Trav!Look
  <2>1. PICK limit \in Limits, rows \in SUBSET Candidates :
            /\ Selects(limit, rows)
            /\ \E page \in SUBSET rows, next \in {NoCursor} \cup {CursorAt(r) : r \in rows} :
                   /\ Finishes(limit, rows, page, next)
                   /\ \/ SkeletonPage(page, next)
                      \/ EmptyFeedPage(page, next)
                      \/ SelectFeedPage(page, next)
    BY <1>2 DEF LoadPage
  <2>2. PICK page \in SUBSET rows, next \in {NoCursor} \cup {CursorAt(r) : r \in rows} :
            /\ Finishes(limit, rows, page, next)
            /\ \/ SkeletonPage(page, next)
               \/ EmptyFeedPage(page, next)
               \/ SelectFeedPage(page, next)
    BY <2>1
  <2>3. /\ AfterPage(next) \in {Trav!End} \cup {Trav!At(r) : r \in Trav!Ahead}
        /\ page = Trav!UpTo(AfterPage(next))
    BY <2>1, <2>2, PageIsInterval
  <2>4. Held = Trav!Nothing
    BY <2>1 DEF Selects, Held, Trav!Nothing, Trav!Start
  <2>5. ASSUME NEW items, Receive(page, items, next), UNCHANGED events,
               SoundRows(page) \subseteq items, items \subseteq page
        PROVE  Trav!Answer
    <3>1. Trav!Account(page) /\ Front' = AfterPage(next) /\ Held' = Trav!Nothing
      BY <2>5, ReceiveAccounts
    <3>2. Rows' = Rows
      BY <2>5 DEF Rows, Row
    <3>. QED BY <2>3, <2>4, <3>1, <3>2 DEF Trav!Answer
  <2>6. CASE SkeletonPage(page, next)
    BY <2>5, <2>6 DEF SkeletonPage, SoundRows
  <2>7. CASE EmptyFeedPage(page, next)
    BY <2>5, <2>7 DEF EmptyFeedPage
  <2>8. CASE SelectFeedPage(page, next)
    <3>1. /\ Rows' = Rows
          /\ Front' = Front
          /\ Held' = [rows |-> page, to |-> AfterPage(next)]
          /\ answer' = answer
      BY <2>1, <2>8 DEF SelectFeedPage, Selects, Rows, Row, Front, Held, AfterPage
    <3>. QED BY <2>3, <2>4, <3>1 DEF Trav!Look
  <2>. QED BY <2>2, <2>6, <2>7, <2>8
<1>3. ASSUME HydrateFeedPage PROVE Trav!Deliver
  <2>1. Held = [rows |-> batch.rows, to |-> AfterPage(batch.next)]
    BY <1>3 DEF HydrateFeedPage, Held
  <2>2. Held # Trav!Nothing
    BY <1>3, <2>1 DEF HydrateFeedPage, TravInv, InFlight, Trav!Nothing
  <2>3. /\ Trav!Account(batch.rows)
        /\ Front' = AfterPage(batch.next)
        /\ Held' = Trav!Nothing
    BY <1>3, ReceiveAccounts DEF HydrateFeedPage, SoundRows
  <2>4. Rows' = Rows
    BY <1>3 DEF HydrateFeedPage, Rows, Row
  <2>. QED BY <2>1, <2>2, <2>3, <2>4 DEF Trav!Deliver
<1>4. ASSUME HydrationFails PROVE Trav!Lose
  BY <1>4 DEF HydrationFails, Trav!Lose, Rows, Row, Front, Held, Trav!Nothing, Trav!Start
<1>5. ASSUME RefuseCursor PROVE UNCHANGED Trav!vars
  BY <1>5 DEF RefuseCursor, Trav!vars, Rows, Row, Front, Held
<1>6. ASSUME UNCHANGED vars PROVE UNCHANGED Trav!vars
  BY <1>6 DEF vars, Trav!vars, Rows, Row, Front, Held, AfterPage, Position
<1>. QED BY <1>1, <1>2, <1>3, <1>4, <1>5, <1>6 DEF Next, Trav!Next

\* Each answer is an interval of the feed at one moment: pages neither overlap
\* nor leave a gap.
THEOREM PagingImplementsTraversal ==
    ASSUME NoEarlyEvents
    PROVE  Spec => ImplementsTraversal
<1>1. Init => TravInv
  <2>1. Init => TypeOK
    BY DEF Init, TypeOK, NoBatch, NoAnswer, CursorStates
  <2>. QED BY <2>1 DEF Init, TravInv, InFlight
<1>2. Init => Trav!Init
  BY DEF Init, Trav!Init, Front, Held, Trav!Nothing, Trav!Start, NoAnswer
<1>3. TravInv /\ [Next]_vars => [Trav!Next]_(Trav!vars)
  BY SimulationStep
<1>. QED BY <1>1, <1>2, <1>3, InFlightStep, PTL DEF Spec, ImplementsTraversal, Trav!Spec
=============================================================================
