------------------------------ MODULE LiveRuns ------------------------------
(***************************************************************************)
(* A backtest run watched live: the worker writes the run and its results  *)
(* to the database and publishes each change as JSON; the API server       *)
(* revives the JSON and sends it as an update frame; the client keeps the  *)
(* last word on every row.  What BacktestRun follows through crashes is    *)
(* here one step per strategy; all notifications are on.  The client has   *)
(* been subscribed from the start (WsFeed has the late ones).              *)
(*                                                                         *)
(* Times are 1 for the creation, 2 for the start and 3 for the end.        *)
(***************************************************************************)
EXTENDS BacktestRows

CONSTANTS
    Modes,         \* "all" keeps a row per strategy, "best_only" the champions'
    MaxTests,      \* strategies of the run
    Figures,       \* what a strategy may score
    Backlog        \* bound: messages the worker may be ahead of the server, and frames

ASSUME LiveAssumption ==
    /\ Modes \subseteq {"all", "best_only"}
    /\ MaxTests \in Nat /\ Figures \subseteq Nat /\ Backlog \in Nat

VARIABLES
    mode,
    stage,         \* of the run
    run,           \* the stored run, an object
    held,          \* backtestRun, the worker's copy of it
    version,       \* backtestRunUpdateVersion
    results,       \* id -> the stored strategy result
    heldRows,      \* id -> the worker's copy, of the rows it goes on with
    current,       \* currentStrategyResultId, 0 for none
    tested,
    abort,         \* whether the client has cancelled the run
    channel,       \* messages on their way to the API server
    frames,        \* frames on their way to the client
    shown          \* the run and the results as the client has them

vars == <<mode, stage, run, held, version, results, heldRows, current, tested, abort, channel, frames, shown>>

With(row, fields) == Spread(row, Obj(fields))
Update(id, action, data, v) ==
    Obj([id |-> Num(id), action |-> Str(action), data |-> data, version |-> Num(v)])

\* publishChannel: the message is JSON.
Published(about, item) == [about |-> about, message |-> ThroughJson(item)]

NewRun(status, started) ==
    Obj([id |-> Num(1), backtest_id |-> Str("backtest"), source |-> Str("app"), status |-> Str(status),
         user_id |-> Str("user"), api_client_id |-> Null, started_at |-> started, finished_at |-> Null,
         config |-> Obj([strategies |-> Lst(<<Num(1)>>)]),
         total_iterations |-> Num(MaxTests), total_permutations |-> Num(MaxTests),
         checkpoint |-> Null, failure_details |-> Null, created_at |-> Date(1), updated_at |-> Date(1)])

Init ==
    /\ mode \in Modes
    /\ stage = "none"
    /\ run = Undefined /\ held = Undefined
    /\ version = 1
    /\ results = <<>> /\ heldRows = <<>>
    /\ current = 0 /\ tested = 0
    /\ abort = FALSE
    /\ channel = <<>> /\ frames = <<>>
    /\ shown = [run |-> Undefined, results |-> <<>>]

-----------------------------------------------------------------------------
(* The run begins.                                                         *)

\* scheduleBacktestRun: the row; nothing is published.
Schedule ==
    /\ stage = "none"
    /\ run' = NewRun("pending", Null)
    /\ stage' = "scheduled"
    /\ UNCHANGED <<mode, held, version, results, heldRows, current, tested, abort, channel, frames, shown>>

\* A run started by hand creates its row and announces it.
StartByHand ==
    /\ stage = "none"
    /\ run' = NewRun("running", Date(2))
    /\ held' = normalizeOptionalFields(run', {"user_id", "api_client_id", "failure_details", "checkpoint", "finished_at"})
    /\ channel' = Append(channel, Published("runs", Update(1, "added", held', version)))
    /\ version' = version + 1
    /\ stage' = "between"
    /\ UNCHANGED <<mode, results, heldRows, current, tested, abort, frames, shown>>

\* updateBacktestRunStatus.
StatusUpdate(status) ==
    IF status = "running" THEN [status |-> Str(status)]
    ELSE [status |-> Str(status), finished_at |-> Date(3)]

\* backtestRunProcessor and the head of runBacktest.
FetchedRun ==
    With(normalizeOptionalFields(NewRun("pending", Null), {"user_id", "api_client_id", "started_at", "failure_details",
                                                           "checkpoint", "finished_at"}),
         [config |-> With(Get(NewRun("pending", Null), "config"), [strategyLogger |-> Str("silent")])])
StartScheduled ==
    /\ stage = "scheduled"
    /\ held' = FetchedRun
    /\ run' = With(run, StatusUpdate("running"))
    /\ channel' = Append(channel, Published("runs", Update(1, "updated", With(held', StatusUpdate("running")), version)))
    /\ version' = version + 1
    /\ stage' = "between"
    /\ UNCHANGED <<mode, results, heldRows, current, tested, abort, frames, shown>>

-----------------------------------------------------------------------------
(* The strategies.                                                         *)

ConfigOf(n) == Obj([size |-> Num(n)])
NewId == IF mode = "best_only" /\ heldRows # <<>> THEN tested + 2 ELSE tested + 1
NewRow(id) == StrategyRow(id, "backtest", 1, "running", ConfigOf(tested), 0, 1)
Announce(row) == Published("results", Update(Get(row, "id")[2], "added", row, 1))

\* initAndDispatchStrategyResult, once for all strategies in best_only mode.
BeginTest ==
    /\ stage = "between" /\ ~abort /\ tested < MaxTests
    /\ IF mode = "all" \/ heldRows = <<>>
         THEN /\ results' = (NewId :> NewRow(NewId)) @@ results
              /\ heldRows' = (NewId :> NewRow(NewId))
              /\ current' = NewId
              /\ channel' = Append(channel, Announce(NewRow(NewId)))
         ELSE /\ current' \in DOMAIN heldRows
              /\ UNCHANGED <<results, heldRows, channel>>
    /\ stage' = "testing"
    /\ UNCHANGED <<mode, run, held, version, tested, abort, frames, shown>>

\* A mint is done: its draft result, which has no id yet.
MintDone ==
    /\ stage = "testing"
    /\ \E traded \in BOOLEAN :
           channel' = Append(channel, Published("mints", MintRow(0, current, 1, traded, 1)))
    /\ stage' = "tested"
    /\ UNCHANGED <<mode, run, held, version, results, heldRows, current, tested, abort, frames, shown>>

\* updateBacktestStrategyResult: what it stores, and what it returns, where
\* the configuration of a champion is the text that was stored.
ResultStatus == Str(IF abort THEN "aborted" ELSE "completed")
Scored(figure) == Obj(StrategyFigures(figure) @@ ("status" :> ResultStatus))
UpdatedFields(row, figure, config) == Spread(With(row, [config |-> config]), Scored(figure))
UpdatedResult_NotMerged(row, figure, config) == With(row, [config |-> config])
UpdatedResult(row, figure, config) == UpdatedFields(row, figure, config)

Checkpoint == Obj([lastIterationIndex |-> Num(tested + 1), champions |-> Obj([totalRoi |-> Obj([id |-> Num(current)])])])
AnnounceResult(row) == Published("results", Update(Get(row, "id")[2], "updated", row, 2))
AnnounceCheckpoint == Published("runs", Update(1, "updated", With(held, [checkpoint |-> Checkpoint]), version))

EndTestOfAll ==
    /\ mode = "all"
    /\ \E figure \in Figures :
           /\ results' = [results EXCEPT ![current] = UpdatedFields(@, figure, ConfigOf(tested))]
           /\ channel' = Append(channel, AnnounceResult(UpdatedResult(heldRows[current], figure, ConfigOf(tested))))
    /\ UNCHANGED <<run, version, heldRows>>

\* A new champion takes the row of an old one, or a fresh row when that is
\* still the champion of another metric; rows nobody needs are deleted.
EndTestOfChampion ==
    /\ mode = "best_only"
    /\ \E figure \in Figures, survivor \in DOMAIN heldRows, shared \in BOOLEAN, obsolete \in SUBSET DOMAIN heldRows :
           LET base == IF shared THEN NewId ELSE survivor
               stored == IF shared THEN NewRow(NewId) ELSE results[survivor]
               mine == IF shared THEN NewRow(NewId) ELSE heldRows[survivor]
               winner == UpdatedResult(mine, figure, Json(ConfigOf(tested)))
           IN  /\ survivor \notin obsolete
               /\ results' = Restrict((base :> UpdatedFields(stored, figure, ConfigOf(tested))) @@ results,
                                      (DOMAIN results \cup {base}) \ obsolete)
               /\ heldRows' = Restrict((base :> winner) @@ heldRows, (DOMAIN heldRows \cup {base}) \ obsolete)
               /\ channel' = channel \o (IF shared THEN <<Announce(NewRow(NewId))>> ELSE <<>>)
                                     \o <<AnnounceResult(winner), AnnounceCheckpoint>>
    /\ run' = With(run, [checkpoint |-> Checkpoint])
    /\ version' = version + 1

\* No metric is won; a heartbeat may be due.
EndTestOfLoser ==
    /\ mode = "best_only"
    /\ \/ UNCHANGED <<run, version, channel>>
       \/ /\ run' = With(run, [checkpoint |-> Checkpoint])
          /\ channel' = Append(channel, AnnounceCheckpoint)
          /\ version' = version + 1
    /\ UNCHANGED <<results, heldRows>>

EndTest ==
    /\ stage \in {"testing", "tested"}
    /\ EndTestOfAll \/ EndTestOfChampion \/ EndTestOfLoser
    /\ tested' = tested + 1
    /\ stage' = "between"
    /\ UNCHANGED <<mode, held, current, abort, frames, shown>>

-----------------------------------------------------------------------------
(* The run ends.                                                           *)

FinalCheckpoint == IF mode = "best_only" THEN With(Checkpoint, [lastIterationIndex |-> Num(tested)]) ELSE Undefined
FinalFields == StatusUpdate(IF abort THEN "aborted" ELSE "completed")
AbortAnswer ==
    Published("rpc", Obj([backtestRunId |-> Num(1), finishedAt |-> Date(3),
                          abortedStrategyResultIds |-> Lst(IF current = 0 THEN <<>> ELSE <<Num(current)>>)]))

EndedRun_KeepsStatus == With(held, [checkpoint |-> FinalCheckpoint])
EndedRun == With(With(held, FinalFields), [checkpoint |-> FinalCheckpoint])
EndRun ==
    /\ stage = "between" /\ (abort \/ tested = MaxTests)
    /\ run' = With(With(run, FinalFields),
                   IF mode = "best_only" THEN [checkpoint |-> FinalCheckpoint] ELSE <<>>)
    /\ held' = EndedRun
    /\ channel' = Append(channel, Published("runs", Update(1, "updated", held', version)))
    /\ version' = version + 1
    /\ stage' \in IF mode = "best_only" THEN {"storing", "answering"} ELSE {"answering"}
    /\ UNCHANGED <<mode, results, heldRows, current, tested, abort, frames, shown>>

\* When the mints were not stored on the way, every champion's row is
\* written again with them, and as completed whatever it was; nothing is
\* published.  Only a row that was not completed is changed by that.
Rewritten(row) == With(row, [status |-> Str("completed")])
Unsaved == {id \in DOMAIN heldRows : Get(results[id], "status") = Str("aborted")}
StoreChampion ==
    /\ stage = "storing"
    /\ \E id \in Unsaved : results' = [results EXCEPT ![id] = Rewritten(@)]
    /\ UNCHANGED <<mode, stage, run, held, version, heldRows, current, tested, abort, channel, frames, shown>>

\* An abort request is answered at the very end.
AnswerAbort ==
    /\ stage = "answering" \/ (stage = "storing" /\ Unsaved = {})
    /\ channel' = IF abort THEN Append(channel, AbortAnswer) ELSE channel
    /\ stage' = "over"
    /\ UNCHANGED <<mode, run, held, version, results, heldRows, current, tested, abort, frames, shown>>

\* Anything may throw; the processor marks a scheduled run as failed, from
\* the copy it has had since the start.
Failed_KeepsStatus(details) == [failure_details |-> details, finished_at |-> Date(3)]
Failed(details) == [status |-> Str("failed"), failure_details |-> details, finished_at |-> Date(3)]
FromSchedule == Get(Get(held, "config"), "strategyLogger") # Undefined
FailRun ==
    /\ stage \in {"between", "testing", "tested", "storing", "answering"} /\ FromSchedule
    /\ LET details == Obj([message |-> Str("error"), timestamp |-> Iso(3)])
       IN  /\ run' = With(run, Failed(details))
           /\ channel' = Append(channel, Published("runs", Update(1, "updated",
                             With(FetchedRun, Failed(details)), 2)))
    /\ stage' = "over"
    /\ UNCHANGED <<mode, held, version, results, heldRows, current, tested, abort, frames, shown>>

-----------------------------------------------------------------------------
(* The client, and the server between them.                                *)

Cancel ==
    /\ stage \in {"between", "testing", "tested"} /\ ~abort
    /\ abort' = TRUE
    /\ UNCHANGED <<mode, stage, run, held, version, results, heldRows, current, tested, channel, frames, shown>>

ClassOf ==
    [runs |-> "ProtoBacktestRun", results |-> "ProtoBacktestStrategyFullResult",
     mints |-> "ProtoBacktestMintFullResult", rpc |-> "ProtoAbortBacktestRunResponseMessage"]

\* The mints come as bare rows; their subscription makes the update.
ItemOf(about, data) ==
    IF about = "mints" THEN Obj([id |-> Get(data, "mint"), action |-> Str("added"), data |-> data]) ELSE data

Deliver ==
    /\ channel # <<>> /\ Len(frames) < Backlog
    /\ LET about == channel[1].about
           data  == reviveDates(channel[1].message)
       IN  frames' = Append(frames,
               IF about = "rpc"
                 THEN sendRpcResponse([event |-> "rpc_response", about |-> about],
                                      Obj([status |-> Str("ok"), method |-> Str("cancel_backtest_run"), data |-> data]),
                                      ClassOf[about])
                 ELSE sendUpdatesResponse([event |-> "update", about |-> about],
                                          Obj([items |-> Lst(<<ItemOf(about, data)>>)]), ClassOf[about]))
    /\ channel' = Tail(channel)
    /\ UNCHANGED <<mode, stage, run, held, version, results, heldRows, current, tested, abort, shown>>

RowIn(payload) == Get(Get(payload, "items")[2][1], "data")
Read ==
    /\ frames # <<>>
    /\ frames' = Tail(frames)
    /\ shown' = CASE frames[1].header.about = "runs" -> [shown EXCEPT !.run = RowIn(frames[1].read)]
                  [] frames[1].header.about = "results" ->
                        [shown EXCEPT !.results = (Get(RowIn(frames[1].read), "id")[2] :> RowIn(frames[1].read)) @@ @]
                  [] OTHER -> shown
    /\ UNCHANGED <<mode, stage, run, held, version, results, heldRows, current, tested, abort, channel>>

Worker ==
    \/ Schedule \/ StartByHand \/ StartScheduled
    \/ BeginTest \/ MintDone \/ EndTest
    \/ EndRun \/ StoreChampion \/ AnswerAbort \/ FailRun
Next ==
    \/ Len(channel) < Backlog /\ Worker
    \/ Cancel \/ Deliver \/ Read

Spec == Init /\ [][Next]_vars

-----------------------------------------------------------------------------
(* Properties.                                                             *)

Settled == stage = "over" /\ channel = <<>> /\ frames = <<>>
SameRow(class, fields, a, b) == \A n \in fields : Get(a, n) = MeantValue(Named[class][n].kind, Get(b, n))
FieldsOf(class) == DOMAIN Named[class]

\* When everything has been said, the client has the run as it is stored.
\* The configuration is left out, where a scheduled run shows the logger the
\* worker chose, and so is the checkpoint of a run that failed.
LiveRunMatchesStored ==
    Settled =>
        /\ SameRow("ProtoBacktestRun", FieldsOf("ProtoBacktestRun") \ {"config", "checkpoint", "failure_details"},
                   shown.run, run)
        /\ Get(run, "status") # Str("failed") => SameRow("ProtoBacktestRun", {"checkpoint"}, shown.run, run)
        /\ Get(run, "status") = Str("failed") =>
               Get(Get(shown.run, "failure_details"), "message") = Get(Get(run, "failure_details"), "message")

\* And every result that is still stored, with the figures it is stored
\* with.  The configuration is left out: that of a champion comes garbled.
\* A status differs in one way only: an aborted champion was announced so
\* before its row was written again as completed.
RewrittenSince(id) ==
    /\ mode = "best_only"
    /\ Get(shown.results[id], "status") = Str("aborted") /\ Get(results[id], "status") = Str("completed")
LiveResultsMatchStored ==
    Settled => \A id \in DOMAIN results :
        /\ id \in DOMAIN shown.results
        /\ SameRow("ProtoBacktestStrategyFullResult", FieldsOf("ProtoBacktestStrategyFullResult") \ {"config", "status"},
                   shown.results[id], results[id])
        /\ SameRow("ProtoBacktestStrategyFullResult", {"status"}, shown.results[id], results[id]) \/ RewrittenSince(id)

\* Without that exception it does not hold: nothing is published when an
\* aborted champion's row becomes completed.
LiveStatusesMatchStored ==
    Settled => \A id \in DOMAIN results \cap DOMAIN shown.results :
        SameRow("ProtoBacktestStrategyFullResult", {"status"}, shown.results[id], results[id])

\* Once the client has seen a run end, it never sees it going on.
Ended(r) == r # Undefined /\ Get(r, "status") \in {Str("completed"), Str("aborted"), Str("failed")}
EndIsFinal == [][Ended(shown.run) => Ended(shown'.run)]_vars

\* db/types.ts: "Pending" means that the execution has not started yet.  It
\* does not hold of what the client is told: a checkpoint of a scheduled run
\* is announced with the status the run had when the worker fetched it.
AnnouncedPendingMeansNotStarted ==
    shown.run # Undefined /\ Get(shown.run, "status") = Str("pending") => stage \in {"none", "scheduled"}

\* scheduleBacktestRun: started_at "will be set once started and updated
\* status to RUNNING".  It is not.
StartedRunsHaveTheirStart ==
    run # Undefined /\ Get(run, "status") # Str("pending") => Get(run, "started_at") # Null
=============================================================================
