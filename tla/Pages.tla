------------------------------- MODULE Pages --------------------------------
(***************************************************************************)
(* The pages of a table: the order of a query, the cursor that a page ends *)
(* with, and the filter that goes on behind a cursor.  A row has an id and *)
(* a creation time in whole seconds, which is what a cursor keeps of it.   *)
(***************************************************************************)
EXTENDS Integers, Sequences, FiniteSets

\* The order of a query is by time, then by id.
Before(direction, a, b) ==
    LET earlier == a.at < b.at \/ (a.at = b.at /\ a.id < b.id)
    IN  IF direction = "asc" THEN earlier ELSE a # b /\ ~earlier

OrderBy(direction, rows) ==
    [i \in 1 .. Cardinality(rows) |->
        CHOOSE r \in rows : Cardinality({q \in rows : Before(direction, q, r)}) = i - 1]

NoCursor == [none |-> TRUE]
CursorAt(row) == [lastPreviousId |-> row.id, lastDate |-> row.at]

\* applyCompositeCursorFilter.
AfterCursor_DateOnly(direction, cursor, row) ==  \* mutant: rows of one second are skipped
    IF cursor = NoCursor THEN TRUE
    ELSE IF direction = "asc" THEN row.at > cursor.lastDate ELSE row.at < cursor.lastDate
AfterCursor(direction, cursor, row) ==
    IF cursor = NoCursor THEN TRUE
    ELSE IF direction = "asc"
      THEN row.at > cursor.lastDate \/ (row.at = cursor.lastDate /\ row.id > cursor.lastPreviousId)
      ELSE row.at < cursor.lastDate \/ (row.at = cursor.lastDate /\ row.id < cursor.lastPreviousId)

\* One row more than the limit is asked for; the cursor is the last row kept.
PageOf(rows, direction, limit, cursor) ==
    LET found == OrderBy(direction, {r \in rows : AfterCursor(direction, cursor, r)})
        more  == Len(found) > limit
    IN  [data |-> IF more THEN SubSeq(found, 1, limit) ELSE found,
         next |-> IF more THEN CursorAt(found[limit]) ELSE NoCursor]
=============================================================================
