--------------------------- MODULE BacktestRows ----------------------------
(***************************************************************************)
(* The rows of the backtest tables as objects: what an insertion stores    *)
(* and returns, and what a query returns of it.  A figure is a number that *)
(* may be zero; what the columns hold beyond that is left out.             *)
(***************************************************************************)
EXTENDS WsPayloads, Pages

\* initBacktestStrategyResult, or the columns after updateBacktestStrategyResult.
FigureNames == {f.name : f \in StrategyResultFigures}
StrategyFigures(figure) == [n \in FigureNames |-> Num(figure)]
StrategyRow(id, backtest, run, status, config, figure, at) ==
    Spread(Obj([id |-> Num(id), backtest_id |-> Str(backtest), backtest_run_id |-> Num(run),
                status |-> Str(status), strategy |-> Str("strategy"), strategy_id |-> Str("strategy_id"),
                config_variant |-> Str("variant"), config |-> config,
                created_at |-> Date(at), updated_at |-> Date(at)]),
           Obj(StrategyFigures(figure)))

\* A mint that was traded, or one that ended without a trade: no figures, an
\* exit code.  The query renames the columns and normalises the nulls.
MintRow(id, strategyResult, index, traded, at) ==
    normalizeOptionalFields(
        Obj([id |-> Num(id), strategy_result_id |-> Num(strategyResult), index |-> Num(index),
             mint |-> Str("mint"), net_pnl |-> IF traded THEN Num(index) ELSE Null,
             holdings_value |-> IF traded THEN Num(0) ELSE Null, roi |-> IF traded THEN Num(index) ELSE Null,
             exit_code |-> IF traded THEN Null ELSE Str("NO_PUMP"),
             exit_reason |-> IF traded THEN Null ELSE Str("reason"),
             payload |-> Obj([exitCode |-> IF traded THEN Null ELSE Str("NO_PUMP"),
                              tradeHistory |-> Lst(IF traded THEN <<Obj([price |-> Num(index)])>> ELSE <<>>)]),
             created_at |-> Date(at)]),
        {"net_pnl", "holdings_value", "roi", "exit_code", "exit_reason"})

-----------------------------------------------------------------------------
(* Pages, as the API passes them.                                          *)

\* CursorFactory: the string that stands for a cursor.
formCursor(cursor) == IF cursor = NoCursor THEN Null ELSE <<"cursor", cursor>>
decodeCursor(string) == IF string = Undefined THEN NoCursor ELSE string[2]

\* The default order is the descending one.
OrderOf(direction) == IF direction = Undefined THEN "desc" ELSE direction[2]

\* asObject maps a row to what the query selects of it.
fetchCursorPaginatedData(rows, direction, limit, cursor, asObject) ==
    LET page == PageOf(rows, OrderOf(direction), limit, decodeCursor(cursor))
    IN  Obj([data |-> Lst([i \in DOMAIN page.data |-> asObject[page.data[i]]]), count |-> Num(Len(page.data)),
             nextCursor |-> formCursor(page.next)])
=============================================================================
