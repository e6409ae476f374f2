------------------------------- MODULE Paging -------------------------------
(***************************************************************************)
(* Lists in pages: sessions, extensions, deliverables, templates,          *)
(* schedules and their runs.  All are kept newest first, by the time of    *)
(* their last change and then by id; a page begins behind the last row of  *)
(* the page before it, while rows go on being changed.                     *)
(***************************************************************************)
EXTENDS Naturals, FiniteSets, Sequences, SequencesExt

CONSTANTS
    PageRows,       \* ids, in the order the store compares them
    RowsPerPage,      \* rows to a page
    MaxPageTime     \* times a row is changed

ASSUME PagingAssumption ==
    PageRows \subseteq Nat /\ IsFiniteSet(PageRows) /\ RowsPerPage \in Nat \ {0} /\ MaxPageTime \in Nat

VARIABLES
    listed,         \* the rows: the time of their last change, and whether the list shows them
    pageTime,       \* the time
    walker          \* a client that reads page after page, what was changed meanwhile, and
                    \* what of it was written with a time taken earlier

pagingVars == <<listed, pageTime, walker>>

Cursor(at, id) == [at |-> at, id |-> id]
FirstPage == Cursor(MaxPageTime + 3, 0)
NotWalking == [step |-> "idle", got |-> <<>>, cursor |-> FirstPage, changed |-> {}, late |-> {}]

PagingTypeOK ==
    /\ listed \in [PageRows -> [at : 1 .. MaxPageTime + 2, shown : BOOLEAN]]
    /\ walker.step \in {"idle", "paging", "done"} /\ Range(walker.got) \subseteq PageRows
    /\ walker.late \subseteq walker.changed /\ walker.changed \subseteq PageRows

\* Rows of one import carry one time.
PagingInit ==
    /\ listed \in [PageRows -> [at : 1 .. 2, shown : {TRUE}]]
    /\ pageTime = 2 /\ walker = NotWalking

\* A change takes the time before it waits for the store: it brings a row to the front, or
\* no further than that time. Deletion and restoration take it off the list and back.
ChangeRow(id, at, shown) ==
    /\ pageTime < MaxPageTime + 2 /\ pageTime' = pageTime + 1 /\ at <= pageTime'
    /\ listed' = [listed EXCEPT ![id] = [at |-> at, shown |-> shown]]
    /\ walker' = [walker EXCEPT !.changed = @ \cup {id}, !.late = IF at < pageTime' THEN @ \cup {id} ELSE @]

BeginWalk ==
    /\ walker.step # "paging" /\ walker' = [NotWalking EXCEPT !.step = "paging"]
    /\ UNCHANGED <<listed, pageTime>>

\* Newest first, and of one time the larger id first.
Behind(id, cursor) == listed[id].at < cursor.at \/ (listed[id].at = cursor.at /\ id < cursor.id)
\* A slip: the rest of the rows of one time is taken for shown.
BehindInTime(id, cursor) == listed[id].at < cursor.at
\* What the store compares with the cursor
After(id, cursor) == Behind(id, cursor)

PageCandidates == {id \in PageRows : listed[id].shown /\ After(id, walker.cursor)}
\* Each stands behind those it is behind.
PlaceInOrder(id) == Cardinality({y \in PageCandidates : Behind(id, Cursor(listed[y].at, y))}) + 1
InOrder == [n \in 1 .. Cardinality(PageCandidates) |-> CHOOSE id \in PageCandidates : PlaceInOrder(id) = n]

\* One row more than the page is read, to know whether there is a next page.
ReadNextPage ==
    /\ walker.step = "paging"
    /\ LET page == SubSeq(InOrder, 1, IF Len(InOrder) < RowsPerPage THEN Len(InOrder) ELSE RowsPerPage)
           hasMore == Len(InOrder) > RowsPerPage
       IN  walker' = [walker EXCEPT !.got = @ \o page, !.step = IF hasMore THEN "paging" ELSE "done",
               !.cursor = IF hasMore THEN Cursor(listed[Last(page)].at, Last(page)) ELSE @]
    /\ UNCHANGED <<listed, pageTime>>

PagingNext == \/ \E id \in PageRows, at \in 1 .. MaxPageTime + 2, shown \in BOOLEAN : ChangeRow(id, at, shown)
              \/ BeginWalk \/ ReadNextPage

\* Page after page a client sees no row twice, but one that was written meanwhile with a
\* time before its page, and at the end of the list every row that is shown and was not
\* changed meanwhile.
PagesAreWhole ==
    /\ \A m, n \in DOMAIN walker.got :
          walker.got[m] = walker.got[n] => m = n \/ walker.got[m] \in walker.late
    /\ walker.step = "done" =>
          {id \in PageRows : listed[id].shown} \ walker.changed \subseteq Range(walker.got)

PagingSpec == PagingInit /\ [][PagingNext]_pagingVars
=============================================================================
