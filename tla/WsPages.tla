------------------------------ MODULE WsPages -------------------------------
(***************************************************************************)
(* A client walks through a table page by page while rows are added and    *)
(* deleted.  The strategy results are walked with a subscription, whose    *)
(* snapshot is the first page, and `fetchMore`, by the test client of the  *)
(* repository: it stops at an id it has already, or when there is no next  *)
(* cursor.  No client of the repository walks the mint results; one that   *)
(* does has to repeat its `fetch` request with the cursor of each page,    *)
(* and is taken to stop like the other.  Meanwhile the client may ask, by  *)
(* an RPC, that the results of a backtest be deleted.                      *)
(*                                                                         *)
(* A handler is two steps, its query and its answer, and two handlers of   *)
(* one connection run side by side.  The frames keep their order.          *)
(* Every backtest has one run, every mint result a strategy result of its  *)
(* own, with the same id.                                                  *)
(***************************************************************************)
EXTENDS BacktestRows

CONSTANTS
    Tables,       \* which of "strategies", "mints" are walked
    Backtests,    \* the backtests the rows belong to
    Limits,       \* page sizes
    MaxRows,      \* bound: rows ever inserted
    Times         \* bound: the creation times, in whole seconds

ASSUME PagesAssumption ==
    /\ Tables \subseteq {"strategies", "mints"}
    /\ Limits \subseteq 1 .. MaxRows
    /\ MaxRows \in Nat /\ Times \subseteq Nat

VARIABLES
    table,              \* chosen once
    rows,               \* the rows of the table
    nextId,
    context,            \* ws.subscriptions.get(id): filters and limit, or none
    request,            \* the client's request on its way to the server
    rpc,                \* the RPC on its way to the server
    answer,             \* the frame of a handler that has its rows but has not sent them
    frames,             \* on their way to the client
    seen,               \* the ids the client received
    phase,              \* of the walk
    atStart,            \* rows that matched when the first page was read (history)
    gone                \* ids that were deleted (history)

vars == <<table, rows, nextId, context, request, rpc, answer, frames, seen, phase, atStart, gone>>

NoRequest == [event |-> "none"]
NoAnswer == <<>>
Answered == [event |-> "answered"]
NoContext == [limit |-> 0]

Class == IF table = "strategies" THEN "ProtoBacktestStrategyFullResult" ELSE "ProtoBacktestMintFullResult"
AsObject(row) ==
    IF table = "strategies"
      THEN StrategyRow(row.id, row.backtest, 1, "completed", Obj([size |-> Num(row.id)]), row.id - 1, row.at)
      ELSE MintRow(row.id, row.id, row.id - 1, row.id > 1, row.at)

Matching(filters) == {r \in rows : Get(filters, "backtestId") \in {Undefined, Str(r.backtest)}}

Init ==
    /\ table \in Tables
    /\ rows = {}
    /\ nextId = 1
    /\ context = NoContext
    /\ request = NoRequest
    /\ rpc = NoRequest
    /\ answer = NoAnswer
    /\ frames = <<>>
    /\ seen = {}
    /\ phase = "idle"
    /\ atStart = {}
    /\ gone = {}

-----------------------------------------------------------------------------
(* The table.                                                              *)

\* created_at is taken before the row is inserted: the order of the times need
\* not be the order of the ids.  A row that comes between two requests is
\* the same to the walk as one that comes while the second is on its way.
InsertRow ==
    /\ nextId <= MaxRows
    /\ request # NoRequest
    /\ \E b \in Backtests, at \in Times :
           rows' = rows \cup {[id |-> nextId, at |-> at, backtest |-> b]}
    /\ nextId' = nextId + 1
    /\ UNCHANGED <<table, context, request, rpc, answer, frames, seen, phase, atStart, gone>>

-----------------------------------------------------------------------------
(* The client.                                                             *)

PlainFilters == {EmptyObject} \cup {Obj([backtestId |-> Str(b)]) : b \in Backtests}

\* A subscription goes on in descending order whatever it was opened with
\* (see README), so it is opened with that order, the default.
Directions == IF table = "strategies" THEN {Undefined} ELSE {Undefined, Str("asc")}

Open ==
    /\ phase = "idle"
    /\ \E filters \in PlainFilters, direction \in Directions, limit \in Limits :
           request' = [event |-> IF table = "strategies" THEN "subscribe" ELSE "fetch",
                       filters |-> filters, direction |-> direction, limit |-> limit, cursor |-> Undefined]
    /\ phase' = "first"
    /\ UNCHANGED <<table, rows, nextId, context, rpc, answer, frames, seen, atStart, gone>>

\* checkAndFetchMore.
FetchMore_SamePage(asked, cursor) ==  \* mutant: the cursor of the page is not taken over
    [asked EXCEPT !.event = "fetchMore"]
FetchMore(asked, cursor) == [asked EXCEPT !.event = "fetchMore", !.cursor = cursor]
FetchAgain(asked, cursor) == [asked EXCEPT !.cursor = cursor]
MoreAfter(asked, page) ==
    LET cursor == Get(page, "nextCursor")
    IN  IF cursor \in {Undefined, Null} THEN NoRequest
        ELSE IF asked.event = "fetch" THEN FetchAgain(asked, cursor) ELSE FetchMore(asked, cursor)

IdsOf(page) == [i \in DOMAIN Get(page, "data")[2] |-> Get(Get(page, "data")[2][i], "id")[2]]

\* assertIdUniqueness throws at the first id it has, before anything is asked.
ReadPageFrame(frame) ==
    LET page == PageIn(frame.read, frame.header.event)
        ids  == IdsOf(page)
        unique == /\ Range(ids) \cap seen = {}
                  /\ IsInjective(ids)
        more == MoreAfter(frame.header.asked, page)
    IN  /\ seen' = seen \cup Range(ids)
        /\ request' = IF unique THEN more ELSE NoRequest
        /\ phase' = IF ~unique THEN "failed" ELSE IF more = NoRequest THEN "done" ELSE "walking"

ReadRpcFrame == UNCHANGED <<seen, request, phase>>

Read ==
    /\ frames # <<>>
    /\ IF frames[1].header.event = "rpc_response" THEN ReadRpcFrame ELSE ReadPageFrame(frames[1])
    /\ frames' = Tail(frames)
    /\ UNCHANGED <<table, rows, nextId, context, rpc, answer, atStart, gone>>

\* Bound: one RPC.  Either method deletes what a walk may be about to read.
Deletions == {"delete_backtest_strategy_results", "delete_backtest_run"}
AskDelete ==
    /\ request # NoRequest
    /\ rpc = NoRequest
    /\ \E b \in Backtests, method \in Deletions : rpc' = [event |-> "rpc", method |-> method, backtest |-> b]
    /\ UNCHANGED <<table, rows, nextId, context, request, answer, frames, seen, phase, atStart, gone>>

-----------------------------------------------------------------------------
(* The server.                                                             *)

Page(filters, direction, limit, cursor) ==
    fetchCursorPaginatedData(Matching(filters), direction, limit, cursor, [r \in rows |-> AsObject(r)])

\* The client's request travels in the header of the model, to know what the
\* client asked for when the answer comes.
Header(event) == [event |-> event, asked |-> request]

\* handleBacktestsStrategyResultsSubscription.
ServeSubscribe ==
    /\ request.event = "subscribe"
    /\ context' = [filters |-> request.filters, limit |-> request.limit]
    /\ answer' = sendCursorPaginatedSnapshotResponse(
           Header("snapshot"),
           Obj([data |-> Page(request.filters, request.direction, request.limit, request.cursor),
                appliedFilters |-> request.filters]),
           Class)
    /\ atStart' = Matching(request.filters)

\* handleBacktestsStrategyResultsFetchMore: the direction is the default one.
ServeFetchMore ==
    /\ request.event = "fetchMore"
    /\ answer' = sendFetchMoreResponse(
           Header("fetchMore"),
           Obj([paginatedData |-> Page(context.filters, Undefined, request.limit, request.cursor),
                appliedFilters |-> context.filters]),
           Class)
    /\ UNCHANGED <<context, atStart>>

\* handleBacktestMintResultsFetchRequest.
ServeFetch ==
    /\ request.event = "fetch"
    /\ answer' = sendFetchResponse(
           Header("fetch_response"),
           Obj([requestId |-> Str("request"), status |-> Num(FETCH_STATUS_OK),
                data |-> Page(request.filters, request.direction, request.limit, request.cursor)]),
           MintPage)
    /\ atStart' = IF request.cursor = Undefined THEN Matching(request.filters) ELSE atStart
    /\ UNCHANGED context

Serve ==
    /\ ServeSubscribe \/ ServeFetchMore \/ ServeFetch
    /\ request' = NoRequest
    /\ UNCHANGED <<table, rows, nextId, rpc, frames, seen, phase, gone>>

Send ==
    /\ answer # NoAnswer
    /\ frames' = Append(frames, answer)
    /\ answer' = NoAnswer
    /\ UNCHANGED <<table, rows, nextId, context, request, rpc, seen, phase, atStart, gone>>

\* deleteBacktestStrategyResultsById and deleteBacktestRunById: one
\* transaction that deletes the mint results with their strategy results.
Deleted(ids) ==
    LET list == Lst([i \in DOMAIN ids |-> Num(ids[i])])
    IN  IF rpc.method = "delete_backtest_run"
          THEN Obj([backtestRunId |-> Num(1), deletedStrategyResultIds |-> list,
                    deletedMintResultsCount |-> Num(Len(ids))])
          ELSE Obj([deletedStrategyResultIds |-> list, deletedMintResultsCount |-> Num(Len(ids))])

RpcAnswer(payload) ==
    sendRpcResponse([event |-> "rpc_response"], payload,
                    IF rpc.method = "delete_backtest_run" THEN "ProtoDeleteBacktestRunResponseMessage"
                    ELSE "ProtoDeleteBacktestStrategyResultsResponseMessage")

Remaining(deleted) == rows \ deleted

DeleteResults ==
    LET deleted == {r \in rows : r.backtest = rpc.backtest}
        inOrder == OrderBy("asc", deleted)
    IN  /\ rpc.event = "rpc"
        /\ rows' = Remaining(deleted)
        /\ gone' = gone \cup {r.id : r \in deleted}
        /\ rpc' = [event |-> "deleted", method |-> rpc.method, ids |-> [i \in DOMAIN inOrder |-> inOrder[i].id]]
        /\ UNCHANGED <<table, nextId, context, request, answer, frames, seen, phase, atStart>>

AnswerRpc ==
    /\ rpc.event = "deleted"
    /\ frames' = Append(frames, RpcAnswer(Obj([status |-> Str("ok"), method |-> Str(rpc.method),
                                               data |-> Deleted(rpc.ids)])))
    /\ rpc' = Answered
    /\ UNCHANGED <<table, rows, nextId, context, request, answer, seen, phase, atStart, gone>>

\* The transaction fails: everything is rolled back, the answer is an error.
DeleteFails ==
    /\ rpc.event = "rpc"
    /\ frames' = Append(frames, RpcAnswer(Obj([status |-> Str("error"), method |-> Str(rpc.method),
                                               errorCode |-> Str("500"), errorMessage |-> Str("message")])))
    /\ rpc' = Answered
    /\ UNCHANGED <<table, rows, nextId, context, request, answer, seen, phase, atStart, gone>>

Next ==
    \/ InsertRow
    \/ Open \/ AskDelete \/ Read
    \/ Serve \/ Send
    \/ DeleteResults \/ AnswerRpc \/ DeleteFails

Spec == Init /\ [][Next]_vars

-----------------------------------------------------------------------------
(* Properties.                                                             *)

\* The pages on their way to the client, as they were sent.
Sent == {frame \in (IF answer = NoAnswer THEN {} ELSE {answer}) \cup Range(frames) :
           frame.header.event # "rpc_response"}
PageSent == CHOOSE frame \in Sent : TRUE
Asked == IF request # NoRequest THEN request ELSE IF Sent # {} THEN PageSent.header.asked ELSE NoRequest
NextCursor(string) == IF string \in {Undefined, Null} THEN NoCursor ELSE string[2]

\* The walk, without what carries its pages.
Walk == INSTANCE PageWalk WITH
    request <- IF Asked = NoRequest THEN [limit |-> 0]
               ELSE [backtests |-> {b \in Backtests : Get(Asked.filters, "backtestId") \in {Undefined, Str(b)}},
                     direction |-> OrderOf(Asked.direction), limit |-> Asked.limit,
                     cursor |-> NextCursor(Asked.cursor)],
    page <- IF Sent = {} THEN [next |-> NoCursor]
            ELSE LET page == PageIn(PageSent.sent, PageSent.header.event)
                 IN  [ids |-> IdsOf(page), next |-> NextCursor(Get(page, "nextCursor"))],
    phase <- IF phase = "first" THEN "walking" ELSE phase

\* A walk through either table is a walk of PageWalk: the filters, the order and the cursor of the
\* first request hold for the later ones, which a subscription does not repeat, and what the client
\* reads of a page, its ids and its cursor, is what the query returned.
WalksThePages == Walk!Spec

\* No row comes twice, however many were inserted behind the walk, deleted under it or share one
\* second, and a walk that ran out of cursors has brought every row that matched when it began and
\* was not deleted meanwhile.
EachRowOnce == Walk!EachRowOnce

\* What the client makes of a frame is what the handler passed to be sent:
\* rows, counts, cursors, filters and answers, nulls as missing fields; and
\* no encoder throws, which would leave the client without an answer.
FramesSayWhatWasSent == \A i \in DOMAIN frames : SaysWhatWasSent(frames[i])

=============================================================================
