------------------------------ MODULE PageWalk ------------------------------
(***************************************************************************)
(* A walk through the pages of a table that others change meanwhile, as    *)
(* the client sees it and whatever carries the pages: it asks for a page,  *)
(* reads it and goes on behind its cursor.  It stops when there is no      *)
(* cursor, or at an id that it has already.  Rows are added with growing   *)
(* ids, at times that need not grow, and any may be deleted.               *)
(***************************************************************************)
EXTENDS Pages, Functions

CONSTANTS
    Backtests,    \* the backtests the rows belong to
    Limits,       \* page sizes
    MaxRows,      \* bound: rows ever inserted
    Times         \* bound: the creation times, in whole seconds

\* What the modules that walk assume of these.
WalkParameters == Limits \subseteq Nat \ {0} /\ Times \subseteq Nat

VARIABLES
    rows,       \* the rows of the table
    nextId,
    request,    \* what was asked for last, until the walk ends: filter, direction, limit, cursor
    page,       \* the page on its way to the client: ids and cursor
    seen,       \* the ids the client received
    phase,      \* "idle", "walking", "done", "failed"
    atStart,    \* rows that matched when the first page was read (history)
    gone        \* ids that were deleted (history)

vars == <<rows, nextId, request, page, seen, phase, atStart, gone>>

NoRequest == [limit |-> 0]
NoPage == [next |-> NoCursor]
Matching == {r \in rows : r.backtest \in request.backtests}

Init ==
    /\ rows = {} /\ nextId = 1
    /\ request = NoRequest /\ page = NoPage
    /\ seen = {} /\ phase = "idle"
    /\ atStart = {} /\ gone = {}

Insert ==
    /\ nextId <= MaxRows
    /\ \E b \in Backtests, at \in Times :
         rows' = rows \cup {[id |-> nextId, at |-> at, backtest |-> b]}
    /\ nextId' = nextId + 1
    /\ UNCHANGED <<request, page, seen, phase, atStart, gone>>

Delete ==
    /\ \E deleted \in SUBSET rows :
         /\ rows' = rows \ deleted
         /\ gone' = gone \cup {r.id : r \in deleted}
    /\ UNCHANGED <<nextId, request, page, seen, phase, atStart>>

Open ==
    /\ phase = "idle"
    /\ \E wanted \in SUBSET Backtests, direction \in {"asc", "desc"}, limit \in Limits :
         request' = [backtests |-> wanted, direction |-> direction, limit |-> limit, cursor |-> NoCursor]
    /\ phase' = "walking"
    /\ UNCHANGED <<rows, nextId, page, seen, atStart, gone>>

Serve ==
    /\ request # NoRequest /\ page = NoPage
    /\ LET read == PageOf(Matching, request.direction, request.limit, request.cursor)
       IN  page' = [ids |-> [i \in DOMAIN read.data |-> read.data[i].id], next |-> read.next]
    /\ atStart' = IF request.cursor = NoCursor THEN Matching ELSE atStart
    /\ UNCHANGED <<rows, nextId, request, seen, phase, gone>>

Receive ==
    /\ page # NoPage
    /\ LET unique == Range(page.ids) \cap seen = {} /\ IsInjective(page.ids)
           over == ~unique \/ page.next = NoCursor
       IN  /\ request' = IF over THEN NoRequest ELSE [request EXCEPT !.cursor = page.next]
           /\ phase' = IF ~unique THEN "failed" ELSE IF over THEN "done" ELSE "walking"
    /\ seen' = seen \cup Range(page.ids)
    /\ page' = NoPage
    /\ UNCHANGED <<rows, nextId, atStart, gone>>

Next == Insert \/ Delete \/ Open \/ Serve \/ Receive

Spec == Init /\ [][Next]_vars

-----------------------------------------------------------------------------
(* Properties.                                                             *)

\* No row comes twice, however many were inserted behind the walk, deleted
\* under it or share one second: the client's own assertion never throws.
NeverRepeats == phase # "failed"

\* A walk that ran out of cursors has brought every row that matched when it
\* began and that was not deleted meanwhile.
MissesNothing == phase = "done" => \A r \in atStart : r.id \in seen \cup gone

\* Between them: a walk brings each row that stays, and brings it once.
EachRowOnce == NeverRepeats /\ MissesNothing
=============================================================================
