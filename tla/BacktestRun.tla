----------------------------- MODULE BacktestRun -----------------------------
(***************************************************************************)
(* runBacktest and the job that calls it: one backtest, whose runs follow  *)
(* one another, each resuming from the checkpoint of the last.  A run      *)
(* tests its strategies in order.  With strategyPersistence 'all' it keeps *)
(* one row per strategy; with 'best_only' the rows of the champions, one   *)
(* per ranking metric, shared where one strategy leads several of them.    *)
(*                                                                         *)
(* Every awaited call of the database is a step of its own: a command, a   *)
(* failure or a crash may fall between any two of them.                    *)
(*                                                                         *)
(* A definition named D_Something is D with a bug.  No other definition    *)
(* uses it; it documents what the property it was written for rules out.   *)
(***************************************************************************)
EXTENDS Naturals, Sequences, FiniteSets

CONSTANTS
  RankingMetrics,  (* RANKING_METRICS, in the order of their preference    *)
  NStrategies,     (* strategies and permutations, in the order of testing *)
  MaxScore,        (* bound: a metric's values are 0 .. MaxScore; 0 stands *)
                   (* for every value that is not positive                 *)
  ScoreLimit,      (* the best score that a checkpoint may be resumed with *)
  Outcomes,        (* what a full test of a strategy may yield             *)
  Partials,        (* what a strategy that is cut short may yield          *)
  Settings,        (* the settings of the backtests to look at             *)
  NotifyRunUpdate, (* notifyRunUpdate                                      *)
  MaxRuns,         (* bound: runs of the backtest                          *)
  MaxFaults        (* bound: crashes and rejected calls                    *)

ASSUME RunAssumption ==
  /\ RankingMetrics \in Seq(STRING) /\ RankingMetrics # <<>>
  /\ NStrategies \in Nat /\ MaxScore \in Nat /\ ScoreLimit \in Nat
  /\ Settings \subseteq [bestOnly : BOOLEAN, storeMints : BOOLEAN]
  /\ NotifyRunUpdate \in BOOLEAN
  /\ MaxRuns \in Nat /\ MaxFaults \in Nat

Metrics == {RankingMetrics[i] : i \in DOMAIN RankingMetrics}
Strategies == 1 .. NStrategies
Scores == [Metrics -> 0 .. MaxScore]

ASSUME ScoresAssumption == Outcomes \subseteq Scores /\ Partials \subseteq Scores

NoScore == [m \in Metrics |-> 0]

VARIABLES
  settings,       (* strategyPersistence and storeMintResults              *)
  score,          (* what a full test of each strategy yields              *)
  tested,         (* history: the strategies whose last test was completed *)
  rewound,        (* history: a job was taken again behind its checkpoint  *)
  rows, lastId,   (* backtest_strategy_results by id; its autoincrement    *)
  runs,           (* backtest_runs: from is the config's checkpoint        *)
  pc,             (* where the job of the last run is, "off" without job   *)
  faults,
  paused, aborted,
  request,        (* lastStrategyResultId of the abort request, or 0       *)
  found,          (* the status of the job's copy of the run               *)
  index,          (* tested: the strategies behind the loop                *)
  current,        (* currentStrategyResultId, 0 for null                   *)
  champions,      (* per metric the best result, of = 0 for undefined      *)
  championsRows,  (* per metric its row's id, 0 for undefined              *)
  sr,             (* the result of the strategy just tested                *)
  base,           (* baseObject: the row the result goes to                *)
  left            (* champions' rows whose mints are still to be saved     *)

BestOnly == settings.bestOnly
StoreMints == settings.storeMints

history == <<settings, score, tested, rewound>>
database == <<rows, lastId, runs>>
flags == <<paused, aborted, request, found>>
board == <<champions, championsRows>>
turn == <<sr, base>>
vars == <<history, database, pc, faults, flags, index, current, board, turn, left>>

Results == [of : 0 .. NStrategies, score : Scores, mints : {"some", "empty", "gone"}]
NoResult == [of |-> 0, score |-> NoScore, mints |-> "gone"]
Nobody == [m \in Metrics |-> NoResult]
NoRows == [m \in Metrics |-> 0]

RowStatus == {"running", "completed", "aborted"}
Rows == [strategy : Strategies, score : Scores, status : RowStatus,
         mints : 0 .. NStrategies, run : 1 .. MaxRuns]

Entries == [row : Nat, score : Scores]
NoEntry == [row |-> 0, score |-> NoScore]
Checkpoints == [index : 0 .. NStrategies, champions : [Metrics -> Entries]]
NoCheckpoint == [index |-> 0, champions |-> [m \in Metrics |-> NoEntry]]

Steps == {"fetched", "starting", "init", "loop", "test", "judge", "clean", "update",
          "checkpoint", "mints", "failing"}
Listening == pc \in Steps \ {"fetched", "starting", "failing"}

TypeOK ==
  /\ settings \in Settings
  /\ score \in [Strategies -> Outcomes] /\ tested \subseteq Strategies
  /\ rewound \in BOOLEAN
  /\ lastId \in Nat /\ DOMAIN rows \subseteq 1 .. lastId
  /\ \A id \in DOMAIN rows : rows[id] \in Rows
  /\ runs \in Seq([status : {"pending", "running", "completed", "aborted", "failed"},
                   from : Checkpoints, checkpoint : Checkpoints])
  /\ pc \in Steps \cup {"off", "queued"}
  /\ faults \in 0 .. MaxFaults
  /\ paused \in BOOLEAN /\ aborted \in BOOLEAN /\ request \in 0 .. lastId
  /\ found \in {"none", "pending", "running", "completed", "aborted", "failed"}
  /\ index \in 0 .. NStrategies /\ current \in 0 .. lastId
  /\ champions \in [Metrics -> Results] /\ championsRows \in [Metrics -> 0 .. lastId]
  /\ sr \in Results /\ base \in 0 .. lastId /\ left \subseteq 1 .. lastId

Forget ==
  /\ paused' = FALSE /\ aborted' = FALSE /\ request' = 0 /\ found' = "none"
  /\ index' = 0 /\ current' = 0
  /\ champions' = Nobody /\ championsRows' = NoRows
  /\ sr' = NoResult /\ base' = 0 /\ left' = {}

Init ==
  /\ settings \in Settings
  /\ score \in [Strategies -> Outcomes] /\ tested = {} /\ rewound = FALSE
  /\ rows = <<>> /\ lastId = 0 /\ runs = <<>>
  /\ pc = "off" /\ faults = 0
  /\ paused = FALSE /\ aborted = FALSE /\ request = 0 /\ found = "none"
  /\ index = 0 /\ current = 0
  /\ champions = Nobody /\ championsRows = NoRows
  /\ sr = NoResult /\ base = 0 /\ left = {}

-----------------------------------------------------------------------------
(* The rows of the database: (backtest_id, strategy_id) is unique, and so is *)
(* (strategy_result_id, index) of the mint results.                          *)
Last == Len(runs)

Taken(s, id) == \E r \in DOMAIN rows \ {id} : rows[r].strategy = s

InsertRow(s) ==
  /\ ~Taken(s, 0)
  /\ lastId' = lastId + 1
  /\ rows' = [r \in DOMAIN rows \cup {lastId + 1} |->
                IF r = lastId + 1
                THEN [strategy |-> s, score |-> NoScore, status |-> "running",
                      mints |-> 0, run |-> Last]
                ELSE rows[r]]

MintsConflict(id, result, stores) ==
  stores /\ result.mints = "some" /\ (id \notin DOMAIN rows \/ rows[id].mints # 0)

(* updateBacktestStrategyResult without a conflict; renames says whether the *)
(* champion's fields are written too.  A row that is gone is not updated.    *)
WriteResult(id, status, result, stores, renames) ==
  rows' = [r \in DOMAIN rows |->
    IF r # id THEN rows[r]
    ELSE [strategy |-> IF renames THEN result.of ELSE rows[r].strategy,
          score |-> result.score,
          status |-> status,
          mints |-> IF stores /\ result.mints = "some" THEN result.of ELSE rows[r].mints,
          run |-> rows[r].run]]

SetRun(status, checkpoint) ==
  runs' = [runs EXCEPT ![Last].status = status, ![Last].checkpoint = checkpoint]

-----------------------------------------------------------------------------
(* A run is scheduled with the checkpoint of the last one, if its schema     *)
(* accepts it; its row is stored, then its job queued, which may fail.       *)
Latest(r) == IF r.checkpoint = NoCheckpoint THEN r.from ELSE r.checkpoint

SchemaAccepts(checkpoint) ==
  \A m \in Metrics : LET c == checkpoint.champions[m]
                     IN  c.row # 0 => \A k \in Metrics : c.score[k] \in 1 .. ScoreLimit

Schedule ==
  /\ pc = "off" /\ Last < MaxRuns
  /\ Last > 0 => runs[Last].status # "completed"
  /\ LET from == IF Last = 0 THEN NoCheckpoint ELSE Latest(runs[Last])
     IN  /\ SchemaAccepts(from)
         /\ runs' = Append(runs, [status |-> "pending", from |-> from,
                                  checkpoint |-> NoCheckpoint])
  /\ \/ pc' = "queued" /\ UNCHANGED faults
     \/ pc' = "off" /\ faults < MaxFaults /\ faults' = faults + 1
  /\ UNCHANGED <<history, rows, lastId, flags, index, current, board, turn, left>>

(* The worker takes the job and reads the run: what it does next it does by  *)
(* this copy, whatever becomes of the stored status meanwhile.               *)
Fetch ==
  /\ pc = "queued" /\ pc' = "fetched"
  /\ found' = runs[Last].status
  /\ UNCHANGED <<history, database, faults, paused, aborted, request, index, current, board,
                 turn, left>>

(* A run that was read as pending is marked as running, by a call made while *)
(* the update to publish is put together.                                    *)
MarksRunning_Always(status) == NotifyRunUpdate
MarksRunning(status) == status = "pending" /\ NotifyRunUpdate

Begin ==
  /\ pc = "fetched" /\ pc' = "starting"
  /\ runs' = [runs EXCEPT ![Last].status = IF MarksRunning(found) THEN "running" ELSE @]
  /\ UNCHANGED <<history, rows, lastId, faults, flags, index, current, board, turn, left>>

Subscribe ==
  /\ pc = "starting" /\ pc' = "init"
  /\ UNCHANGED <<history, database, faults, flags, index, current, board, turn, left>>

(* initializeRunState, and the strategies that the loop skips.               *)
InitializeRunState ==
  /\ pc = "init"
  /\ LET from == runs[Last].from
         known == {m \in Metrics : from.champions[m].row # 0}
         row(m) == from.champions[m].row
     IN  IF \A m \in known : row(m) \in DOMAIN rows
         THEN /\ champions' = [m \in Metrics |->
                   IF m \in known
                   THEN [of |-> rows[row(m)].strategy,
                         score |-> from.champions[m].score, mints |-> "gone"]
                   ELSE NoResult]
              /\ championsRows' = [m \in Metrics |-> row(m)]
              /\ index' = from.index
              /\ pc' = "loop"
         ELSE pc' = "failing" /\ UNCHANGED <<board, index>>
  /\ UNCHANGED <<history, database, faults, flags, current, turn, left>>

-----------------------------------------------------------------------------
(* The head of the loop.  The insertion of a strategy that has a row already *)
(* is rejected.                                                              *)
NextIsTested == pc = "loop" /\ index < NStrategies /\ ~paused /\ ~aborted

NeedsRow == BestOnly => \E m \in Metrics : championsRows[m] = 0

CreateRow ==
  /\ NextIsTested /\ NeedsRow
  /\ InsertRow(index + 1)
  /\ championsRows' = IF BestOnly
                      THEN [m \in Metrics |-> IF championsRows[m] = 0 THEN lastId'
                                              ELSE championsRows[m]]
                      ELSE championsRows
  /\ current' = IF BestOnly THEN championsRows'[RankingMetrics[1]] ELSE lastId'
  /\ pc' = "test"
  /\ UNCHANGED <<history, runs, faults, flags, index, champions, turn, left>>

ReuseRows ==
  /\ NextIsTested /\ ~NeedsRow
  /\ current' = championsRows[RankingMetrics[1]]
  /\ pc' = "test"
  /\ UNCHANGED <<history, database, faults, flags, index, board, turn, left>>

(* createCheckpoint *)
NewCheckpoint ==
  [index |-> index,
   champions |-> [m \in Metrics |->
     IF champions[m].of # 0
     THEN [row |-> championsRows[m], score |-> champions[m].score]
     ELSE NoEntry]]

LoopIsOver_AbortUnseen == index = NStrategies
LoopIsOver == index = NStrategies \/ (aborted /\ ~paused)

LeaveLoop ==
  /\ pc = "loop" /\ LoopIsOver
  /\ SetRun(IF aborted THEN "aborted" ELSE "completed",
            IF BestOnly THEN NewCheckpoint ELSE runs[Last].checkpoint)
  /\ left' = IF BestOnly /\ ~StoreMints
             THEN {championsRows[m] : m \in {k \in Metrics : champions[k].of # 0}}
             ELSE {}
  /\ pc' = "mints"
  /\ UNCHANGED <<history, rows, lastId, faults, flags, index, current, board, turn>>

(* runStrategy: an abort is seen before the next mint, a pause holds it      *)
(* there, and neither stops the last mint.                                   *)
FinishStrategy ==
  /\ pc = "test"
  /\ sr' = [of |-> index + 1, score |-> score[index + 1], mints |-> "some"]
  /\ tested' = tested \cup {index + 1}
  /\ pc' = "judge"
  /\ UNCHANGED <<settings, score, rewound, database, faults, flags, index, current, board,
                 base, left>>

AbortStrategy ==
  /\ pc = "test" /\ aborted /\ ~paused
  /\ \E partial \in Partials, mints \in {"some", "empty"} :
       sr' = [of |-> index + 1, score |-> partial, mints |-> mints]
  /\ tested' = tested \ {index + 1}
  /\ pc' = "judge"
  /\ UNCHANGED <<settings, score, rewound, database, faults, flags, index, current, board,
                 base, left>>

-----------------------------------------------------------------------------
(* The result's place.                                                       *)
MetricsWon_FirstMetric ==
  LET first == RankingMetrics[1]
  IN  {m \in Metrics : champions[m].of = 0
                          \/ sr.score[first] > champions[m].score[first]}
MetricsWon == {m \in Metrics : champions[m].of = 0 \/ sr.score[m] > champions[m].score[m]}

PrimaryMetric ==
  RankingMetrics[CHOOSE i \in DOMAIN RankingMetrics :
    /\ RankingMetrics[i] \in MetricsWon
    /\ \A j \in DOMAIN RankingMetrics : RankingMetrics[j] \in MetricsWon => i <= j]

SurvivorRow == championsRows[PrimaryMetric]

StillNeeded_Never(id) == FALSE
StillNeeded(id) == \E m \in Metrics \ MetricsWon : championsRows[m] = id

IdsToDelete_None == {}
IdsToDelete ==
  {id \in {championsRows[m] : m \in MetricsWon} : id # base /\ ~StillNeeded(id)}

KeepAll_AbortedDropped ==
  /\ pc = "judge" /\ ~BestOnly
  /\ base' = current /\ pc' = IF aborted THEN "loop" ELSE "update"
  /\ UNCHANGED <<history, database, faults, flags, index, current, board, sr, left>>
KeepAll ==
  /\ pc = "judge" /\ ~BestOnly
  /\ base' = current /\ pc' = "update"
  /\ UNCHANGED <<history, database, faults, flags, index, current, board, sr, left>>

(* No metric is won; a checkpoint is due every five minutes.                 *)
LoseAll ==
  /\ pc = "judge" /\ BestOnly /\ MetricsWon = {}
  /\ index' = index + 1
  /\ pc' \in {"loop", "checkpoint"}
  /\ UNCHANGED <<history, database, faults, flags, current, board, turn, left>>

Recycle ==
  /\ pc = "judge" /\ BestOnly /\ MetricsWon # {} /\ ~StillNeeded(SurvivorRow)
  /\ base' = SurvivorRow /\ pc' = "clean"
  /\ UNCHANGED <<history, database, faults, flags, index, current, board, sr, left>>

Branch ==
  /\ pc = "judge" /\ BestOnly /\ MetricsWon # {} /\ StillNeeded(SurvivorRow)
  /\ InsertRow(index + 1)
  /\ base' = lastId' /\ pc' = "clean"
  /\ UNCHANGED <<history, runs, faults, flags, index, current, board, sr, left>>

DuplicateRow ==
  /\ Taken(index + 1, 0)
  /\ \/ NextIsTested /\ NeedsRow
     \/ pc = "judge" /\ BestOnly /\ MetricsWon # {} /\ StillNeeded(SurvivorRow)
  /\ pc' = "failing"
  /\ UNCHANGED <<history, database, faults, flags, index, current, board, turn, left>>

Clean ==
  /\ pc = "clean"
  /\ rows' = [r \in DOMAIN rows \ IdsToDelete |-> rows[r]]
  /\ pc' = "update"
  /\ UNCHANGED <<history, lastId, runs, faults, flags, index, current, board, turn, left>>

UpdateConflicts ==
  MintsConflict(base, sr, StoreMints) \/ (BestOnly /\ base \in DOMAIN rows /\ Taken(sr.of, base))

Update ==
  /\ pc = "update" /\ ~UpdateConflicts
  /\ WriteResult(base, IF aborted THEN "aborted" ELSE "completed", sr, StoreMints, BestOnly)
  /\ LET won == IF BestOnly THEN MetricsWon ELSE {}
     IN  /\ champions' = [m \in Metrics |-> IF m \in won THEN sr ELSE champions[m]]
         /\ championsRows' = [m \in Metrics |-> IF m \in won THEN base ELSE championsRows[m]]
  /\ index' = index + 1
  /\ pc' = IF BestOnly THEN "checkpoint" ELSE "loop"
  /\ UNCHANGED <<history, lastId, runs, faults, flags, current, turn, left>>

UpdateRejected ==
  /\ pc = "update" /\ UpdateConflicts
  /\ pc' = "failing"
  /\ UNCHANGED <<history, database, faults, flags, index, current, board, turn, left>>

SaveCheckpoint ==
  /\ pc = "checkpoint" /\ pc' = "loop"
  /\ SetRun(runs[Last].status, NewCheckpoint)
  /\ UNCHANGED <<history, rows, lastId, faults, flags, index, current, board, turn, left>>

-----------------------------------------------------------------------------
(* After the final status: the mints of each champion's row, those of the    *)
(* last metric that holds it.  A champion of the checkpoint has none.        *)
LastOfRow(m) ==
  \A i, j \in DOMAIN RankingMetrics :
    RankingMetrics[i] = m /\ championsRows[RankingMetrics[j]] = championsRows[m] => j <= i

SaveMints ==
  /\ pc = "mints"
  /\ \E m \in Metrics :
       LET id == championsRows[m]
           result == champions[m]
       IN  /\ id \in left /\ LastOfRow(m)
           /\ IF MintsConflict(id, result, TRUE)
              THEN pc' = "failing" /\ UNCHANGED <<rows, left>>
              ELSE /\ IF result.mints = "gone" THEN UNCHANGED rows
                      ELSE WriteResult(id, "completed", result, TRUE, FALSE)
                   /\ left' = left \ {id}
                   /\ UNCHANGED pc
  /\ UNCHANGED <<history, lastId, runs, faults, flags, index, current, board, turn>>

(* The answer to an abort request names the row of the request; the job ends.*)
Respond ==
  /\ pc = "mints" /\ left = {}
  /\ pc' = "off" /\ Forget
  /\ UNCHANGED <<history, database, faults>>

MarkFailed ==
  /\ pc = "failing"
  /\ SetRun("failed", runs[Last].checkpoint)
  /\ pc' = "off" /\ Forget
  /\ UNCHANGED <<history, rows, lastId, faults>>

-----------------------------------------------------------------------------
(* Commands on the request channel, heard once the run has subscribed.  The  *)
(* script's SIGINT sets the same flag as Abort, without a request.           *)
Pause ==
  /\ Listening /\ paused' = TRUE
  /\ UNCHANGED <<history, database, pc, faults, aborted, request, found, index, current, board, turn, left>>

Resume ==
  /\ Listening /\ paused' = FALSE
  /\ UNCHANGED <<history, database, pc, faults, aborted, request, found, index, current, board, turn, left>>

Abort ==
  /\ Listening /\ aborted' = TRUE /\ request' = current
  /\ UNCHANGED <<history, database, pc, faults, paused, found, index, current, board, turn, left>>

(* Any awaited call may reject.  A crash, or the rejected read of the run,   *)
(* loses the job or, once the queue has found it stalled, has it taken       *)
(* again: from the checkpoint of its config, whatever it has saved meanwhile.*)
Throw ==
  /\ pc \in Steps \ {"failing"} /\ faults < MaxFaults
  /\ faults' = faults + 1 /\ pc' = "failing"
  /\ UNCHANGED <<history, database, flags, index, current, board, turn, left>>

Crash ==
  /\ pc # "off" /\ faults < MaxFaults
  /\ faults' = faults + 1
  /\ pc' \in {"off", "queued"} /\ Forget
  /\ rewound' = (rewound \/ (pc' = "queued" /\ runs[Last].checkpoint # NoCheckpoint))
  /\ UNCHANGED <<settings, score, tested, database>>

Work ==
  \/ Fetch \/ Begin \/ Subscribe \/ InitializeRunState
  \/ CreateRow \/ ReuseRows \/ LeaveLoop \/ AbortStrategy
  \/ KeepAll \/ LoseAll \/ Recycle \/ Branch \/ DuplicateRow
  \/ Clean \/ Update \/ UpdateRejected \/ SaveCheckpoint
  \/ SaveMints \/ FinishStrategy \/ Respond \/ MarkFailed

Commands == Pause \/ Resume \/ Abort

Next == Schedule \/ Work \/ Commands \/ Throw \/ Crash

Spec == Init /\ [][Next]_vars

-----------------------------------------------------------------------------
(* Each champion's row is in the database and holds that champion and its    *)
(* score, whatever was recycled, branched or deleted.                        *)
RowsHoldChampions ==
  faults = 0 /\ pc \in {"loop", "test", "judge", "checkpoint", "mints"} =>
    \A m \in Metrics : champions[m].of # 0 =>
      /\ championsRows[m] \in DOMAIN rows
      /\ rows[championsRows[m]].strategy = champions[m].of
      /\ rows[championsRows[m]].score = champions[m].score

(* After faults too the row is there, and never worse than what is known of  *)
(* the champion: a crash may only lose the last checkpoint's improvement.    *)
(* A job that is taken again behind its own checkpoint is the exception: it  *)
(* pairs the older scores with rows that have been recycled since.           *)
RowsNeverWorse ==
  ~rewound /\ pc \in {"loop", "test", "judge", "checkpoint", "mints"} =>
    \A m \in Metrics : champions[m].of # 0 =>
      /\ championsRows[m] \in DOMAIN rows
      /\ rows[championsRows[m]].score[m] >= champions[m].score[m]

(* No strategy that was tested completely beats a champion, in this run or   *)
(* in the ones it resumes, with the same exception: such a job tests again   *)
(* what a later run will skip.                                               *)
ChampionsAreBest ==
  BestOnly /\ ~rewound /\ pc \in {"loop", "test", "checkpoint", "mints"} =>
    \A s \in tested, m \in Metrics :
      s <= index => champions[m].of # 0 /\ score[s][m] <= champions[m].score[m]

(* Without faults 'best_only' leaves no other row than the champions' ones.  *)
NoOrphanRows ==
  BestOnly /\ faults = 0 /\ pc \in {"loop", "checkpoint", "mints"} =>
    DOMAIN rows = {championsRows[m] : m \in Metrics} \ {0}

(* Without faults the first run of 'all' keeps one row per strategy behind   *)
(* the loop, and the status of each tells whether its test was cut short.    *)
OneRowPerStrategy ==
  ~BestOnly /\ faults = 0 /\ Last = 1 /\ pc \in {"loop", "mints"} =>
    /\ {rows[r].strategy : r \in DOMAIN rows} = 1 .. index
    /\ Cardinality(DOMAIN rows) = index
    /\ \A r \in DOMAIN rows : rows[r].status = "completed" => rows[r].strategy \in tested

-----------------------------------------------------------------------------
(* What comments say, and the code does not do.                              *)

(* types.ts: the checkpoint is "fed back in to resume an interrupted         *)
(* process", so the rows it names outlive whatever interrupted the process.  *)
CheckpointResumes ==
  pc = "off" /\ Last > 0 =>
    \A m \in Metrics : LET id == Latest(runs[Last]).champions[m].row
                       IN  id # 0 => id \in DOMAIN rows

(* runBacktest.ts: a row that no other metric needs "is safe to overwrite".  *)
OverwriteIsSafe == pc = "update" => ~UpdateConflicts
=============================================================================
