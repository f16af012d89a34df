------------------------- MODULE BacktestRun_proofs -------------------------
(***************************************************************************)
(* Proofs of the safety properties of BacktestRun, for any ranking metrics, *)
(* strategies, scores, settings and any number of runs and faults.          *)
(*                                                                         *)
(* Three things are kept in step: the champions in memory, the rows of the *)
(* database and the checkpoint the next run would resume from (Saved).     *)
(* Memory runs ahead of Saved only between Update and SaveCheckpoint; rows *)
(* run ahead of memory only between CreateRow or Branch and Update, and    *)
(* the row that is ahead is new or one that no other metric needs.         *)
(***************************************************************************)
EXTENDS BacktestRun, FiniteSetTheorems, WellFoundedInduction, TLAPS

Active == pc \in {"loop", "test", "judge", "clean", "update", "checkpoint", "mints"}
Idle   == pc \in {"off", "queued", "fetched", "starting", "init"}
InTurn == pc \in {"test", "judge", "clean", "update"}

(* What the next run would resume from.                                      *)
Saved == IF Last = 0 THEN NoCheckpoint ELSE Latest(runs[Last])

-----------------------------------------------------------------------------
(* The job and its run.                                                      *)
Jobs ==
  /\ Last <= MaxRuns
  /\ pc # "off" => Last > 0
  /\ Last = 0 => tested = {} /\ lastId = 0
  /\ Idle => champions = Nobody /\ championsRows = NoRows
  /\ InTurn => index < NStrategies
  /\ pc \in {"judge", "clean", "update"} => sr.of = index + 1
  /\ pc \in {"clean", "checkpoint"} => BestOnly
  /\ rewound => faults > 0
  /\ ~rewound /\ pc \in {"queued", "fetched", "starting", "init"} =>
       runs[Last].checkpoint = NoCheckpoint

(* A checkpoint has no champion or all of them, and they say the same of the *)
(* row they share.                                                           *)
WellFormed(c) ==
  c = NoCheckpoint \/
  /\ BestOnly /\ c.index > 0
  /\ \A m \in Metrics : c.champions[m].row \in 1 .. lastId
  /\ \A m, k \in Metrics : c.champions[m].row = c.champions[k].row =>
                             c.champions[m].score = c.champions[k].score

CheckpointsWellFormed ==
  Last > 0 => WellFormed(runs[Last].from) /\ WellFormed(runs[Last].checkpoint)

-----------------------------------------------------------------------------
(* The champions and their rows, whatever has failed before.                 *)
AllSet ==
  /\ index > 0
  /\ \A m \in Metrics : champions[m].of # 0 /\ championsRows[m] # 0

(* The row of the first strategy is shared by all metrics until it is judged.*)
NoneSet ==
  /\ index = 0 /\ pc # "checkpoint"
  /\ champions = Nobody
  /\ IF InTurn THEN current # 0 /\ \A m \in Metrics : championsRows[m] = current
               ELSE \A m \in Metrics : championsRows[m] = 0

(* The metrics whose row is never deleted in this turn.                      *)
Kept == IF pc = "update" THEN Metrics \ MetricsWon ELSE Metrics

Board ==
  /\ ~BestOnly => champions = Nobody /\ championsRows = NoRows
  /\ BestOnly /\ Active => AllSet \/ NoneSet
  /\ Active => \A m, k \in Metrics :
       championsRows[m] = championsRows[k] => champions[m] = champions[k]
  /\ Active => \A m \in Kept :
       championsRows[m] # 0 => championsRows[m] \in DOMAIN rows
  /\ BestOnly /\ pc \in {"clean", "update"} =>
       MetricsWon # {} /\ ~StillNeeded(base) /\ base \in DOMAIN rows

-----------------------------------------------------------------------------
(* What is known of the champions, unless a job was taken again behind its   *)
(* checkpoint.                                                               *)
MemoryIsSaved ==
  /\ Active => Saved.index <= index
  /\ Active /\ pc # "checkpoint" => \A m \in Metrics :
       IF champions[m].of # 0
       THEN /\ Saved.champions[m].row = championsRows[m]
            /\ Saved.champions[m].score = champions[m].score
       ELSE Saved.champions[m].row = 0

SavedNeverWorse ==
  \A m \in Metrics :
    Saved.champions[m].row \in DOMAIN rows =>
      rows[Saved.champions[m].row].score[m] >= Saved.champions[m].score[m]

SavedIsBest ==
  \A s \in tested, m \in Metrics :
    s <= Saved.index => score[s][m] <= Saved.champions[m].score[m]

MemoryIsBest ==
  /\ Active => \A s \in tested, m \in Metrics :
       s <= index => champions[m].of # 0 /\ score[s][m] <= champions[m].score[m]
  /\ pc \in {"judge", "clean", "update"} /\ index + 1 \in tested =>
       sr.score = score[index + 1]

Straight ==
  BestOnly /\ ~rewound =>
    MemoryIsSaved /\ SavedNeverWorse /\ SavedIsBest /\ MemoryIsBest /\ RowsNeverWorse

-----------------------------------------------------------------------------
(* Without faults.                                                           *)

(* The row that this turn has inserted, if it has.                           *)
TurnRow == IF pc \in {"test", "judge"} THEN current ELSE base
InsertedRow ==
  /\ InTurn
  /\ \/ ~BestOnly \/ champions = Nobody
     \/ pc \in {"clean", "update"} /\ \A m \in Metrics : championsRows[m] # base

InsertedRowIsNew ==
  InsertedRow =>
    /\ TurnRow \in DOMAIN rows
    /\ rows[TurnRow].strategy = index + 1 /\ rows[TurnRow].mints = 0
    /\ ~Taken(index + 1, TurnRow)

(* Only the row of this turn is still running.                               *)
OthersAreOver ==
  \A r \in DOMAIN rows :
    rows[r].status = "running" => InsertedRow /\ r = TurnRow

RowsMatchMemory ==
  Active /\ BestOnly =>
    /\ \A m \in Metrics :
         champions[m].of # 0 /\ championsRows[m] \in DOMAIN rows =>
           /\ rows[championsRows[m]].strategy = champions[m].of
           /\ rows[championsRows[m]].score = champions[m].score
    /\ \A r \in DOMAIN rows :
         \/ \E m \in Kept : r = championsRows[m]
         \/ pc \in {"clean", "update"} /\ r = base

(* A checkpoint whose rows are all there describes the whole database.       *)
RowsMatchSaved ==
  /\ ~Active /\ BestOnly
  /\ \A m \in Metrics :
       Saved.champions[m].row # 0 => Saved.champions[m].row \in DOMAIN rows
  => /\ \A m \in Metrics : Saved.champions[m].row # 0 =>
          rows[Saved.champions[m].row].score = Saved.champions[m].score
     /\ \A r \in DOMAIN rows : \E m \in Metrics : r = Saved.champions[m].row

Faultless ==
  faults = 0 =>
    InsertedRowIsNew /\ OthersAreOver /\ RowsMatchMemory /\ RowsMatchSaved

(* The first run of 'all' inserts the row of the i-th strategy as row i.     *)
FirstRunOfAll ==
  faults = 0 /\ ~BestOnly /\ Last = 1 /\ pc \notin {"off", "failing"} =>
    /\ lastId = (IF InTurn THEN index + 1 ELSE IF Active THEN index ELSE 0)
    /\ DOMAIN rows = 1 .. lastId
    /\ \A r \in 1 .. lastId : rows[r].strategy = r
    /\ InTurn => TurnRow = lastId /\ rows[lastId].status # "completed"
    /\ pc \in {"judge", "update"} => index + 1 \in tested \/ aborted
    /\ \A r \in DOMAIN rows :
         rows[r].status = "completed" => rows[r].strategy \in tested

IInv ==
  /\ TypeOK
  /\ Jobs
  /\ CheckpointsWellFormed
  /\ Board
  /\ Straight
  /\ Faultless
  /\ FirstRunOfAll

-----------------------------------------------------------------------------
(* What the operators of the module do.                                      *)

RunRows == [status : {"pending", "running", "completed", "aborted", "failed"},
            from : Checkpoints, checkpoint : Checkpoints]

(* A set of naturals that is not empty has a least element.                  *)
LEMMA LeastNatural ==
  ASSUME NEW T, T \subseteq Nat, T # {}
  PROVE  \E i \in T : \A j \in T : i <= j
<1>1. PICK i \in T : \A j \in T : ~(<<j, i>> \in OpToRel(<, Nat))
  BY NatLessThanWellFounded, WFMin
<1>2. \A j \in T : ~(j < i)
  BY <1>1 DEF OpToRel
<1>3. QED BY <1>2

(* The primary metric is one of those won: the CHOOSE has what to choose.    *)
LEMMA PrimaryIsWon ==
  ASSUME MetricsWon # {}
  PROVE  PrimaryMetric \in MetricsWon /\ PrimaryMetric \in Metrics
<1> DEFINE T == {i \in DOMAIN RankingMetrics : RankingMetrics[i] \in MetricsWon}
<1>1. MetricsWon \subseteq Metrics
  BY DEF MetricsWon
<1>2. T \subseteq Nat /\ T # {}
  BY <1>1, RunAssumption DEF Metrics
<1>3. \E i \in T : \A j \in T : i <= j
  BY <1>2, LeastNatural
<1>4. QED BY <1>1, <1>3 DEF PrimaryMetric

(* RANKING_METRICS is not empty.                                             *)
LEMMA FirstMetric == RankingMetrics[1] \in Metrics
BY RunAssumption DEF Metrics

(* An insertion adds one row under a new id and changes no other.            *)
LEMMA Inserting ==
  ASSUME TypeOK, NEW s \in Strategies, Last \in 1 .. MaxRuns, InsertRow(s)
  PROVE  /\ lastId \in Nat /\ lastId' = lastId + 1
         /\ lastId' \notin DOMAIN rows
         /\ DOMAIN rows' = DOMAIN rows \cup {lastId'}
         /\ DOMAIN rows' \subseteq 1 .. lastId'
         /\ \A r \in DOMAIN rows : rows'[r] = rows[r]
         /\ rows'[lastId'].strategy = s /\ rows'[lastId'].mints = 0
         /\ rows'[lastId'].status = "running"
         /\ \A r \in DOMAIN rows : rows[r].strategy # s
         /\ \A r \in DOMAIN rows' : rows'[r] \in Rows
<1>1. lastId \in Nat
  BY DEF TypeOK
<1>2. NoScore \in Scores
  BY RunAssumption DEF NoScore, Scores
<1>3. QED
  BY <1>1, <1>2, RunAssumption DEF TypeOK, InsertRow, Taken, Rows, RowStatus

(* A result written to a row changes no other row.                           *)
LEMMA Writing ==
  ASSUME TypeOK, NEW id, NEW status \in RowStatus, NEW result \in Results,
         NEW stores \in BOOLEAN, NEW renames \in BOOLEAN,
         renames => result.of # 0,
         WriteResult(id, status, result, stores, renames)
  PROVE  /\ DOMAIN rows' = DOMAIN rows
         /\ \A r \in DOMAIN rows : r # id => rows'[r] = rows[r]
         /\ id \in DOMAIN rows =>
              /\ rows'[id].strategy = IF renames THEN result.of ELSE rows[id].strategy
              /\ rows'[id].score = result.score
              /\ rows'[id].status = status
         /\ \A r \in DOMAIN rows' : rows'[r] \in Rows
BY RunAssumption DEF WriteResult, TypeOK, Rows, Results, Strategies

(* Changing the last run's status and checkpoint keeps where it came from.   *)
LEMMA SettingRun ==
  ASSUME TypeOK, Last > 0, NEW c \in Checkpoints,
         NEW status \in {"pending", "running", "completed", "aborted", "failed"},
         SetRun(status, c)
  PROVE  /\ Last' = Last /\ runs' \in Seq(RunRows)
         /\ runs'[Last].status = status
         /\ runs'[Last].checkpoint = c
         /\ runs'[Last].from = runs[Last].from
<1>1. runs \in Seq(RunRows) /\ Last \in DOMAIN runs
  BY DEF TypeOK, RunRows, Last
<1>2. runs[Last] \in RunRows
  BY <1>1
<1>3. /\ DOMAIN runs' = DOMAIN runs
      /\ \A i \in DOMAIN runs \ {Last} : runs'[i] = runs[i]
      /\ runs'[Last] = [runs[Last] EXCEPT !.status = status, !.checkpoint = c]
  BY <1>1 DEF SetRun
<1>4. /\ runs'[Last] \in RunRows
      /\ runs'[Last].status = status /\ runs'[Last].checkpoint = c
      /\ runs'[Last].from = runs[Last].from
  BY <1>2, <1>3 DEF RunRows
<1>5. /\ DOMAIN runs' = 1 .. Len(runs) /\ Len(runs) \in Nat
      /\ \A i \in 1 .. Len(runs) : runs'[i] \in RunRows
  BY <1>1, <1>3, <1>4
<1>6. runs' \in Seq(RunRows) /\ Len(runs') = Len(runs)
  <2>1. runs' = [i \in 1 .. Len(runs) |-> runs'[i]]
    BY <1>5 DEF SetRun
  <2>2. QED
    BY <1>5, <2>1
<1>7. QED
  BY <1>4, <1>6 DEF Last

(* The checkpoint of a run that has champions for all metrics, or none, has  *)
(* the type of a checkpoint.                                                 *)
LEMMA NewCheckpointType ==
  ASSUME TypeOK
  PROVE  NewCheckpoint \in Checkpoints
<1>1. NoScore \in Scores
  BY RunAssumption DEF NoScore, Scores
<1>2. \A m \in Metrics :
        [row |-> championsRows[m], score |-> champions[m].score] \in Entries
  BY DEF TypeOK, Results, Entries
<1>3. NoEntry \in Entries
  BY <1>1 DEF NoEntry, Entries
<1>4. QED
  BY <1>2, <1>3 DEF NewCheckpoint, Checkpoints, TypeOK

(* Nothing is known in an empty memory.                                      *)
LEMMA NothingTypes ==
  /\ NoScore \in Scores /\ NoResult \in Results
  /\ Nobody \in [Metrics -> Results]
  /\ NoCheckpoint \in Checkpoints
<1>1. NoScore \in Scores
  BY RunAssumption DEF NoScore, Scores
<1>2. QED
  BY <1>1, RunAssumption DEF NoResult, Results, Nobody, NoCheckpoint, Checkpoints,
     NoEntry, Entries

(* A run in the database has the type of a run.                              *)
LEMMA LastRunType ==
  ASSUME TypeOK, Last > 0
  PROVE  /\ runs[Last] \in RunRows
         /\ runs[Last].from \in Checkpoints /\ runs[Last].checkpoint \in Checkpoints
         /\ runs[Last].status \in {"pending", "running", "completed", "aborted", "failed"}
<1>1. runs \in Seq(RunRows) /\ Last \in DOMAIN runs
  BY DEF TypeOK, RunRows, Last
<1>2. runs[Last] \in RunRows
  BY <1>1
<1>3. QED BY <1>2 DEF RunRows

(* The worker changes at most the status of the run it takes.                *)
LEMMA Beginning ==
  ASSUME TypeOK, Last > 0, Begin
  PROVE  /\ Last' = Last /\ runs' \in Seq(RunRows)
         /\ runs'[Last].checkpoint = runs[Last].checkpoint
         /\ runs'[Last].from = runs[Last].from
<1>1. runs \in Seq(RunRows) /\ Last \in DOMAIN runs
  BY DEF TypeOK, RunRows, Last
<1>2. runs[Last] \in RunRows
  BY LastRunType
<1>3. PICK status \in {"pending", "running", "completed", "aborted", "failed"} :
        status = IF MarksRunning(found) THEN "running" ELSE runs[Last].status
  BY <1>2 DEF RunRows
<1>4. /\ DOMAIN runs' = DOMAIN runs
      /\ \A i \in DOMAIN runs \ {Last} : runs'[i] = runs[i]
      /\ runs'[Last] = [runs[Last] EXCEPT !.status = status]
  BY <1>1, <1>3 DEF Begin
<1>5. /\ runs'[Last] \in RunRows
      /\ runs'[Last].checkpoint = runs[Last].checkpoint
      /\ runs'[Last].from = runs[Last].from
  BY <1>2, <1>4 DEF RunRows
<1>6. /\ DOMAIN runs' = 1 .. Len(runs) /\ Len(runs) \in Nat
      /\ \A i \in 1 .. Len(runs) : runs'[i] \in RunRows
  BY <1>1, <1>4, <1>5
<1>7. runs' \in Seq(RunRows) /\ Len(runs') = Len(runs)
  <2>1. runs' = [i \in 1 .. Len(runs) |-> runs'[i]]
    BY <1>6 DEF Begin
  <2>2. QED
    BY <1>6, <2>1
<1>8. QED
  BY <1>5, <1>7 DEF Last

(* A scheduled run starts from what the last one has left.                   *)
LEMMA Scheduling ==
  ASSUME TypeOK, Schedule
  PROVE  /\ Last' = Last + 1 /\ Last \in Nat /\ Last < MaxRuns
         /\ runs' \in Seq(RunRows)
         /\ runs'[Last'].from = Saved
         /\ runs'[Last'].checkpoint = NoCheckpoint
         /\ runs'[Last'].status = "pending"
         /\ Last > 0 => runs[Last].status # "completed"
<1>1. runs \in Seq(RunRows) /\ Last \in Nat
  BY DEF TypeOK, RunRows, Last
<1>2. Saved \in Checkpoints
  BY <1>1, LastRunType, NothingTypes DEF Saved, Latest
<1>3. /\ runs' = Append(runs, [status |-> "pending", from |-> Saved,
                               checkpoint |-> NoCheckpoint])
      /\ Last < MaxRuns
      /\ Last > 0 => runs[Last].status # "completed"
  BY <1>1 DEF Schedule, Saved
<1>4. [status |-> "pending", from |-> Saved, checkpoint |-> NoCheckpoint] \in RunRows
  BY <1>2, NothingTypes DEF RunRows
<1>5. QED
  BY <1>1, <1>3, <1>4 DEF Last

(* What the next run would resume from has the type of a checkpoint.         *)
LEMMA SavedType == ASSUME TypeOK PROVE Saved \in Checkpoints
<1>1. Last \in Nat
  BY DEF TypeOK, Last
<1>2. QED
  BY <1>1, LastRunType, NothingTypes DEF Saved, Latest

-----------------------------------------------------------------------------
(* Types.                                                                    *)

(* The types of the records and of what a step does not touch.               *)
LEMMA JobTypes ==
  ASSUME TypeOK, Jobs, pc # "off"
  PROVE  Last \in 1 .. MaxRuns
BY RunAssumption DEF TypeOK, Jobs, Last

(* What InitializeRunState sets.                                             *)
LEMMA InitializeTypes ==
  ASSUME TypeOK, Jobs, CheckpointsWellFormed, InitializeRunState
  PROVE  /\ champions' \in [Metrics -> Results]
         /\ championsRows' \in [Metrics -> 0 .. lastId]
         /\ index' \in 0 .. NStrategies
         /\ pc' \in {"loop", "failing"}
<1> DEFINE from == runs[Last].from
<1>1. from \in Checkpoints /\ lastId \in Nat
  BY JobTypes, LastRunType DEF InitializeRunState, TypeOK
<1>2. \A m \in Metrics : /\ from.champions[m].row \in 0 .. lastId
                         /\ from.champions[m].score \in Scores
  <2>1. CASE from = NoCheckpoint
    BY <2>1, <1>1, NothingTypes DEF NoCheckpoint, NoEntry
  <2>2. CASE from # NoCheckpoint
    <3>1. WellFormed(from)
      BY JobTypes DEF InitializeRunState, CheckpointsWellFormed
    <3>2. \A m \in Metrics : from.champions[m].row \in 1 .. lastId
      BY <2>2, <3>1 DEF WellFormed
    <3>3. \A m \in Metrics : from.champions[m].score \in Scores
      BY <1>1 DEF Checkpoints, Entries
    <3>4. QED BY <1>1, <3>2, <3>3
  <2>3. QED BY <2>1, <2>2
<1>3. \A m \in Metrics : from.champions[m].row \in DOMAIN rows =>
        [of |-> rows[from.champions[m].row].strategy,
         score |-> from.champions[m].score, mints |-> "gone"] \in Results
  BY <1>2, RunAssumption, SMTT(30) DEF TypeOK, Rows, Results, Strategies
<1>4. from.index \in 0 .. NStrategies
  BY <1>1 DEF Checkpoints
<1> HIDE DEF from
<1>5. CASE pc' = "failing"
  BY <1>5 DEF InitializeRunState, TypeOK, board
<1>6. CASE pc' # "failing"
  <2>1. pc' = "loop" /\ index' = from.index
        /\ \A m \in Metrics : from.champions[m].row # 0 => from.champions[m].row \in DOMAIN rows
    BY <1>6 DEF InitializeRunState, from
  <2>2. championsRows' = [m \in Metrics |-> from.champions[m].row]
    BY <1>6 DEF InitializeRunState, from
  <2>3. champions' = [m \in Metrics |->
          IF from.champions[m].row # 0
          THEN [of |-> rows[from.champions[m].row].strategy,
                score |-> from.champions[m].score, mints |-> "gone"]
          ELSE NoResult]
    BY <1>6 DEF InitializeRunState, from
  <2>4. QED
    BY <1>2, <1>3, <1>4, <2>1, <2>2, <2>3, NothingTypes
<1>7. QED BY <1>5, <1>6

(* A forgotten run leaves values of the right type.                          *)
LEMMA ForgetTypes ==
  ASSUME TypeOK, Forget, lastId' = lastId
  PROVE  /\ paused' \in BOOLEAN /\ aborted' \in BOOLEAN /\ request' \in 0 .. lastId'
         /\ found' = "none"
         /\ index' \in 0 .. NStrategies /\ current' \in 0 .. lastId'
         /\ champions' \in [Metrics -> Results]
         /\ championsRows' \in [Metrics -> 0 .. lastId']
         /\ sr' \in Results /\ base' \in 0 .. lastId' /\ left' \subseteq 1 .. lastId'
<1>1. paused' \in BOOLEAN /\ aborted' \in BOOLEAN
  BY DEF Forget
<1>2. lastId \in Nat /\ NStrategies \in Nat
  BY RunAssumption DEF TypeOK
<1>3. NoRows \in [Metrics -> 0 .. lastId]
  BY <1>2 DEF NoRows
<1>4. QED
  BY <1>1, <1>2, <1>3, NothingTypes DEF Forget

(* Every step keeps the types.                                               *)
LEMMA TypesKept ==
  ASSUME TypeOK, Jobs, CheckpointsWellFormed, Board, [Next]_vars
  PROVE  TypeOK'
<1> USE RunAssumption, NothingTypes DEF TypeOK, history, database, flags, board, turn, Steps
<1>1. CASE Begin
  <2>1. runs' \in Seq(RunRows)
    <3>1. Last > 0
      BY <1>1, JobTypes, SMTT(30) DEF Begin
    <3>2. QED
      BY <1>1, <3>1, Beginning
  <2>2. QED
    BY <1>1, <2>1 DEF Begin, RunRows
<1>2. CASE Subscribe
  BY <1>2 DEF Subscribe
<1>3. CASE InitializeRunState
  <2>1. /\ champions' \in [Metrics -> Results]
        /\ championsRows' \in [Metrics -> 0 .. lastId]
        /\ index' \in 0 .. NStrategies
        /\ pc' \in {"loop", "failing"}
    BY <1>3, InitializeTypes
  <2>2. UNCHANGED <<history, database, faults, flags, current, turn, left>>
    BY <1>3 DEF InitializeRunState
  <2>3. QED
    BY <2>1, <2>2
<1>4. CASE CreateRow
  <2>1. index + 1 \in Strategies /\ Last \in 1 .. MaxRuns
    BY <1>4, JobTypes DEF CreateRow, NextIsTested, Strategies
  <2>2. /\ lastId \in Nat /\ lastId' = lastId + 1
        /\ DOMAIN rows' \subseteq 1 .. lastId'
        /\ \A r \in DOMAIN rows' : rows'[r] \in Rows
    BY <1>4, <2>1, Inserting DEF CreateRow
  <2>3. championsRows' \in [Metrics -> 0 .. lastId']
    BY <1>4, <2>2 DEF CreateRow
  <2>4. current' \in 0 .. lastId'
    BY <1>4, <2>2, <2>3, FirstMetric DEF CreateRow
  <2>5. UNCHANGED <<history, runs, faults, flags, index, champions, turn, left>> /\ pc' = "test"
    BY <1>4 DEF CreateRow
  <2>6. QED
    BY <2>2, <2>3, <2>4, <2>5
<1>5. CASE ReuseRows
  <2>1. current' \in 0 .. lastId
    BY <1>5, FirstMetric DEF ReuseRows
  <2>2. QED
    BY <1>5, <2>1 DEF ReuseRows
<1>6. CASE LeaveLoop
  <2>1. /\ runs' \in Seq(RunRows)
        /\ left' \subseteq 1 .. lastId
    <3>1. Last > 0
      BY <1>6, JobTypes DEF LeaveLoop
    <3>2. (IF BestOnly THEN NewCheckpoint ELSE runs[Last].checkpoint) \in Checkpoints
      BY <3>1, LastRunType, NewCheckpointType
    <3>3. runs' \in Seq(RunRows)
      BY <1>6, <3>1, <3>2, SettingRun DEF LeaveLoop
    <3>4. BestOnly => \A m \in Metrics : champions[m].of # 0 => championsRows[m] \in 1 .. lastId
      BY <1>6 DEF LeaveLoop, Board, Active, AllSet, NoneSet, Nobody, NoResult
    <3>5. QED
      BY <1>6, <3>3, <3>4 DEF LeaveLoop
  <2>2. UNCHANGED <<history, rows, lastId, faults, flags, index, current, board, turn>> /\ pc' = "mints"
    BY <1>6 DEF LeaveLoop
  <2>3. QED
    BY <2>1, <2>2 DEF RunRows
<1>7. CASE FinishStrategy
  <2>1. index + 1 \in Strategies
    BY <1>7 DEF FinishStrategy, Jobs, InTurn, Strategies
  <2>2. sr' \in Results
    BY <1>7, <2>1, ScoresAssumption DEF FinishStrategy, Results, Strategies
  <2>3. QED
    BY <1>7, <2>1, <2>2 DEF FinishStrategy
<1>8. CASE AbortStrategy
  <2>1. index + 1 \in Strategies
    BY <1>8 DEF AbortStrategy, Jobs, InTurn, Strategies
  <2>2. sr' \in Results
    BY <1>8, <2>1, ScoresAssumption DEF AbortStrategy, Results, Strategies
  <2>3. QED
    BY <1>8, <2>1, <2>2 DEF AbortStrategy
<1>9. CASE KeepAll
  BY <1>9 DEF KeepAll
<1>10. CASE LoseAll
  <2>1. index' \in 0 .. NStrategies
    BY <1>10 DEF LoseAll, Jobs, InTurn
  <2>2. QED
    BY <1>10, <2>1 DEF LoseAll
<1>11. CASE Recycle
  <2>1. SurvivorRow \in 0 .. lastId
    BY <1>11, PrimaryIsWon DEF Recycle, SurvivorRow
  <2>2. QED
    BY <1>11, <2>1 DEF Recycle
<1>12. CASE Branch
  <2>1. index + 1 \in Strategies /\ Last \in 1 .. MaxRuns
    BY <1>12, JobTypes DEF Branch, Jobs, InTurn, Strategies
  <2>2. /\ lastId \in Nat /\ lastId' = lastId + 1
        /\ DOMAIN rows' \subseteq 1 .. lastId'
        /\ \A r \in DOMAIN rows' : rows'[r] \in Rows
    BY <1>12, <2>1, Inserting DEF Branch
  <2>3. /\ UNCHANGED <<history, runs, faults, flags, index, current, board, sr, left>>
        /\ base' = lastId' /\ pc' = "clean"
    BY <1>12 DEF Branch
  <2>4. championsRows' \in [Metrics -> 0 .. lastId']
    BY <2>2, <2>3
  <2>5. QED
    BY <2>2, <2>3, <2>4
<1>13. CASE DuplicateRow
  BY <1>13 DEF DuplicateRow
<1>14. CASE Clean
  BY <1>14 DEF Clean
<1>15. CASE Update
  <2>1. /\ DOMAIN rows' = DOMAIN rows
        /\ \A r \in DOMAIN rows' : rows'[r] \in Rows
    <3>1. StoreMints \in BOOLEAN /\ BestOnly \in BOOLEAN
      BY DEF StoreMints, BestOnly
    <3>2. sr.of # 0
      BY <1>15 DEF Update, Jobs
    <3>3. PICK status \in RowStatus : WriteResult(base, status, sr, StoreMints, BestOnly)
      BY <1>15 DEF Update, RowStatus
    <3>4. QED
      BY <3>1, <3>2, <3>3 DEF WriteResult, Rows, Results, Strategies, RowStatus
  <2>2. /\ champions' \in [Metrics -> Results]
        /\ championsRows' \in [Metrics -> 0 .. lastId]
    BY <1>15 DEF Update
  <2>3. index' \in 0 .. NStrategies /\ pc' \in {"loop", "checkpoint"}
    BY <1>15 DEF Update, Jobs, InTurn
  <2>4. UNCHANGED <<history, lastId, runs, faults, flags, current, turn, left>>
    BY <1>15 DEF Update
  <2>5. QED
    BY <2>1, <2>2, <2>3, <2>4
<1>16. CASE UpdateRejected
  BY <1>16 DEF UpdateRejected
<1>17. CASE SaveCheckpoint
  <2>1. runs' \in Seq(RunRows)
    <3>1. Last > 0
      BY <1>17, JobTypes DEF SaveCheckpoint
    <3>2. QED
      BY <1>17, <3>1, LastRunType, NewCheckpointType, SettingRun DEF SaveCheckpoint
  <2>2. QED
    BY <1>17, <2>1 DEF SaveCheckpoint, RunRows
<1>18. CASE SaveMints
  <2>1. DOMAIN rows' = DOMAIN rows /\ \A r \in DOMAIN rows' : rows'[r] \in Rows
    BY <1>18, Writing DEF SaveMints, RowStatus
  <2>2. /\ UNCHANGED <<history, lastId, runs, faults, flags, index, current, board, turn>>
        /\ pc' \in {"mints", "failing"} /\ left' \subseteq left
    BY <1>18 DEF SaveMints
  <2>3. QED
    BY <2>1, <2>2
<1>19. CASE Respond
  BY <1>19, ForgetTypes DEF Respond
<1>20. CASE MarkFailed
  <2>1. runs' \in Seq(RunRows)
    <3>1. Last > 0
      BY <1>20, JobTypes DEF MarkFailed
    <3>2. QED
      BY <1>20, <3>1, LastRunType, SettingRun DEF MarkFailed
  <2>2. QED
    BY <1>20, <2>1, ForgetTypes DEF MarkFailed, RunRows
<1>21. CASE Pause
  BY <1>21 DEF Pause
<1>22. CASE Resume
  BY <1>22 DEF Resume
<1>23. CASE Abort
  BY <1>23 DEF Abort
<1>24. CASE Throw
  BY <1>24 DEF Throw
<1>25. CASE Crash
  <2>1. /\ rewound' \in BOOLEAN
        /\ faults' \in 0 .. MaxFaults
        /\ pc' \in {"off", "queued"}
        /\ UNCHANGED <<settings, score, tested, database>>
    BY <1>25 DEF Crash
  <2>2. QED
    BY <1>25, <2>1, ForgetTypes DEF Crash
<1>26. CASE Schedule
  <2>1. runs' \in Seq(RunRows)
    BY <1>26, Scheduling
  <2>2. /\ faults' \in 0 .. MaxFaults /\ pc' \in {"off", "queued"}
        /\ UNCHANGED <<history, rows, lastId, flags, index, current, board, turn, left>>
    BY <1>26 DEF Schedule
  <2>3. QED
    BY <2>1, <2>2 DEF RunRows
<1>27. CASE UNCHANGED vars
  BY <1>27 DEF vars
<1>28. CASE Fetch
  <2>1. found' \in {"pending", "running", "completed", "aborted", "failed"}
    <3>1. Last > 0
      BY <1>28, JobTypes, SMTT(30) DEF Fetch
    <3>2. QED
      BY <1>28, <3>1, LastRunType DEF Fetch
  <2>2. QED
    BY <1>28, <2>1 DEF Fetch
<1>29. QED
  BY <1>28, <1>1, <1>2, <1>3, <1>4, <1>5, <1>6, <1>7, <1>8, <1>9, <1>10, <1>11, <1>12, <1>13, <1>14, <1>15, <1>16, <1>17, <1>18, <1>19, <1>20, <1>21, <1>22, <1>23, <1>24, <1>25, <1>26, <1>27
     DEF Next, Work, Commands

-----------------------------------------------------------------------------
(* The job, its run and the checkpoints.                                     *)

(* The checkpoint of a full board, or of an empty one, is well formed.       *)
LEMMA NewCheckpointWellFormed ==
  ASSUME TypeOK, Board, BestOnly, pc \in {"loop", "checkpoint"}
  PROVE  WellFormed(NewCheckpoint)
<1>1. CASE AllSet
  <2>1. NewCheckpoint.index > 0
    BY <1>1 DEF NewCheckpoint, AllSet
  <2>2. \A m \in Metrics : /\ NewCheckpoint.champions[m].row = championsRows[m]
                           /\ NewCheckpoint.champions[m].score = champions[m].score
    BY <1>1 DEF NewCheckpoint, AllSet
  <2>3. \A m \in Metrics : championsRows[m] \in 1 .. lastId
    BY <1>1 DEF AllSet, TypeOK
  <2>4. \A m, k \in Metrics : championsRows[m] = championsRows[k] => champions[m] = champions[k]
    BY DEF Board, Active
  <2>5. QED
    BY <2>1, <2>2, <2>3, <2>4 DEF WellFormed
<1>2. CASE NoneSet
  <2>1. NewCheckpoint = NoCheckpoint
    BY <1>2 DEF NewCheckpoint, NoneSet, NoCheckpoint, Nobody, NoResult
  <2>2. QED
    BY <2>1 DEF WellFormed
<1>3. QED
  BY <1>1, <1>2 DEF Board, Active

(* What the actions do to the runs.                                          *)
LEMMA RunsKept ==
  ASSUME IInv, TypeOK', [Next]_vars
  PROVE  \/ Schedule
         \/ LeaveLoop \/ SaveCheckpoint
         \/ /\ Last' = Last
            /\ Last > 0 => /\ runs'[Last].from = runs[Last].from
                           /\ runs'[Last].checkpoint = runs[Last].checkpoint
<1> USE DEF IInv, database
<1>1. CASE Begin
  <2>1. Last > 0
    BY <1>1, JobTypes DEF Begin
  <2>2. QED
    BY <1>1, <2>1, Beginning
<1>2. CASE MarkFailed
  <2>1. Last > 0
    BY <1>2, JobTypes DEF MarkFailed
  <2>2. QED
    BY <1>2, <2>1, LastRunType, SettingRun DEF MarkFailed
<1>3. CASE Fetch \/ Subscribe \/ InitializeRunState \/ CreateRow \/ ReuseRows \/ AbortStrategy
  BY <1>3 DEF Fetch, Subscribe, InitializeRunState, CreateRow, ReuseRows, AbortStrategy, Last
<1>4. CASE KeepAll \/ LoseAll \/ Recycle \/ Branch \/ DuplicateRow
  BY <1>4 DEF KeepAll, LoseAll, Recycle, Branch, DuplicateRow, Last
<1>5. CASE Clean \/ Update \/ UpdateRejected \/ SaveMints \/ FinishStrategy \/ Respond
  BY <1>5 DEF Clean, Update, UpdateRejected, SaveMints, FinishStrategy, Respond, Last
<1>6. CASE Commands \/ Throw \/ Crash \/ UNCHANGED vars
  BY <1>6 DEF Commands, Pause, Resume, Abort, Throw, Crash, vars, Last
<1>7. QED
  BY <1>1, <1>2, <1>3, <1>4, <1>5, <1>6 DEF Next, Work

(* Ids are never given twice.                                                *)
LEMMA IdsGrow ==
  ASSUME IInv, TypeOK', [Next]_vars
  PROVE  lastId \in Nat /\ lastId' \in Nat /\ lastId' >= lastId
         /\ settings' = settings /\ score' = score /\ (BestOnly' <=> BestOnly)
<1>1. UNCHANGED <<settings, score>> /\ (lastId' = lastId + 1 \/ lastId' = lastId)
  <2> USE DEF database, history
  <2>1. CASE Fetch \/ Begin \/ MarkFailed \/ LeaveLoop \/ SaveCheckpoint \/ Schedule
    BY <2>1 DEF Fetch, Begin, MarkFailed, LeaveLoop, SaveCheckpoint, Schedule
  <2>2. CASE CreateRow \/ Branch
    BY <2>2 DEF CreateRow, Branch, InsertRow
  <2>3. CASE Subscribe \/ InitializeRunState \/ ReuseRows \/ AbortStrategy
    BY <2>3 DEF Subscribe, InitializeRunState, ReuseRows, AbortStrategy
  <2>4. CASE KeepAll \/ LoseAll \/ Recycle \/ DuplicateRow
    BY <2>4 DEF KeepAll, LoseAll, Recycle, DuplicateRow
  <2>5. CASE Clean \/ Update \/ UpdateRejected \/ SaveMints \/ FinishStrategy \/ Respond
    BY <2>5 DEF Clean, Update, UpdateRejected, SaveMints, FinishStrategy, Respond
  <2>6. CASE Commands \/ Throw \/ Crash \/ UNCHANGED vars
    BY <2>6 DEF Commands, Pause, Resume, Abort, Throw, Crash, vars
  <2>7. QED
    BY <2>1, <2>2, <2>3, <2>4, <2>5, <2>6 DEF Next, Work
<1>2. lastId \in Nat
  BY DEF IInv, TypeOK
<1>3. QED
  BY <1>1, <1>2 DEF BestOnly

(* What the next run would resume from is well formed.                       *)
LEMMA SavedWellFormed == ASSUME TypeOK, CheckpointsWellFormed PROVE WellFormed(Saved)
<1>1. CASE Last = 0
  BY <1>1 DEF Saved, WellFormed
<1>2. CASE Last # 0
  <2>1. Last > 0
    BY <1>2 DEF TypeOK, Last
  <2>2. WellFormed(runs[Last].from) /\ WellFormed(runs[Last].checkpoint)
    BY <2>1 DEF CheckpointsWellFormed
  <2>3. QED
    BY <1>2, <2>2 DEF Saved, Latest
<1>3. QED BY <1>1, <1>2

(* The checkpoints of the last run stay well formed.                         *)
LEMMA CheckpointsKept ==
  ASSUME IInv, TypeOK', [Next]_vars
  PROVE  CheckpointsWellFormed'
<1> DEFINE StaysWellFormed(c) ==
             c = NoCheckpoint \/
             /\ BestOnly' /\ c.index > 0
             /\ \A m \in Metrics : c.champions[m].row \in 1 .. lastId'
             /\ \A m, k \in Metrics : c.champions[m].row = c.champions[k].row =>
                                        c.champions[m].score = c.champions[k].score
<1>1. lastId \in Nat /\ lastId' \in Nat /\ lastId' >= lastId /\ (BestOnly' <=> BestOnly)
  BY IdsGrow
<1>2. \A c : WellFormed(c) => StaysWellFormed(c)
  BY <1>1 DEF WellFormed
<1>3. SUFFICES Last' > 0 => StaysWellFormed(runs'[Last'].from)
                            /\ StaysWellFormed(runs'[Last'].checkpoint)
  BY DEF CheckpointsWellFormed, WellFormed
<1> HIDE DEF StaysWellFormed
<1> USE DEF IInv, CheckpointsWellFormed
<1>4. CASE Last' = Last /\ (Last > 0 => /\ runs'[Last].from = runs[Last].from
                                        /\ runs'[Last].checkpoint = runs[Last].checkpoint)
  BY <1>2, <1>4
<1>5. CASE Schedule
  <2>1. WellFormed(Saved)
    BY SavedWellFormed
  <2>2. /\ runs'[Last'].from = Saved
        /\ runs'[Last'].checkpoint = NoCheckpoint
    BY <1>5, Scheduling
  <2>3. QED
    BY <1>2, <2>1, <2>2 DEF WellFormed
<1>6. CASE LeaveLoop \/ SaveCheckpoint
  <2>1. Last > 0 /\ (SaveCheckpoint => BestOnly)
    BY <1>6, JobTypes DEF LeaveLoop, SaveCheckpoint, Jobs
  <2>2. PICK c \in Checkpoints :
          /\ Last' = Last /\ runs'[Last].checkpoint = c /\ runs'[Last].from = runs[Last].from
          /\ WellFormed(c)
    <3>1. CASE BestOnly
      <4>1. WellFormed(NewCheckpoint) /\ NewCheckpoint \in Checkpoints
        BY <1>6, <3>1, NewCheckpointWellFormed, NewCheckpointType DEF LeaveLoop, SaveCheckpoint
      <4>2. PICK status \in {"pending", "running", "completed", "aborted", "failed"} :
              SetRun(status, NewCheckpoint)
        BY <1>6, <2>1, <3>1, LastRunType DEF LeaveLoop, SaveCheckpoint
      <4>3. QED
        BY <2>1, <4>1, <4>2, SettingRun
    <3>2. CASE ~BestOnly
      <4>1. WellFormed(runs[Last].checkpoint) /\ runs[Last].checkpoint \in Checkpoints
        BY <2>1, LastRunType DEF CheckpointsWellFormed
      <4>2. PICK status \in {"pending", "running", "completed", "aborted", "failed"} :
              SetRun(status, runs[Last].checkpoint)
        BY <1>6, <2>1, <3>2 DEF LeaveLoop
      <4>3. QED
        BY <2>1, <4>1, <4>2, SettingRun
    <3>3. QED BY <3>1, <3>2
  <2>3. QED
    BY <1>2, <2>1, <2>2
<1>7. QED
  BY <1>4, <1>5, <1>6, RunsKept

(* A run that leaves its loop or saves its checkpoint writes it down, with   *)
(* best_only; with all it has none.                                          *)
LEMMA CheckpointWritten ==
  ASSUME IInv, LeaveLoop \/ SaveCheckpoint
  PROVE  /\ Last > 0 /\ Last' = Last
         /\ runs'[Last].from = runs[Last].from
         /\ runs'[Last].checkpoint = IF BestOnly THEN NewCheckpoint ELSE runs[Last].checkpoint
         /\ SaveCheckpoint => BestOnly
<1> USE DEF IInv
<1>1. Last > 0 /\ (SaveCheckpoint => BestOnly)
  BY JobTypes DEF LeaveLoop, SaveCheckpoint, Jobs
<1>2. CASE BestOnly
  <2>1. PICK status \in {"pending", "running", "completed", "aborted", "failed"} :
          SetRun(status, NewCheckpoint)
    BY <1>1, <1>2, LastRunType DEF LeaveLoop, SaveCheckpoint
  <2>2. QED
    BY <1>1, <1>2, <2>1, NewCheckpointType, SettingRun
<1>3. CASE ~BestOnly
  <2>1. PICK status \in {"pending", "running", "completed", "aborted", "failed"} :
          SetRun(status, runs[Last].checkpoint)
    BY <1>1, <1>3 DEF LeaveLoop
  <2>2. QED
    BY <1>1, <1>3, <2>1, LastRunType, SettingRun
<1>4. QED BY <1>2, <1>3

(* No other step changes what the next run would resume from.                *)
LEMMA SavedKept ==
  ASSUME IInv, TypeOK', [Next]_vars, ~LeaveLoop, ~SaveCheckpoint
  PROVE  Saved' = Saved
<1> USE DEF IInv
<1>1. CASE Schedule
  <2>1. /\ runs'[Last'].from = Saved
        /\ runs'[Last'].checkpoint = NoCheckpoint
        /\ Last' > 0
    BY <1>1, Scheduling DEF Last
  <2>2. QED
    BY <2>1 DEF Saved, Latest
<1>2. CASE /\ Last' = Last
           /\ Last > 0 => /\ runs'[Last].from = runs[Last].from
                          /\ runs'[Last].checkpoint = runs[Last].checkpoint
  <2>1. Last \in Nat
    BY DEF TypeOK, Last
  <2>2. QED
    BY <1>2, <2>1 DEF Saved, Latest
<1>3. QED BY <1>1, <1>2, RunsKept

(* What is saved is the board, unless a job was taken again.                 *)
LEMMA SavedIsBoard ==
  ASSUME IInv, BestOnly, ~rewound, LeaveLoop \/ SaveCheckpoint
  PROVE  /\ Saved'.index = index
         /\ \A m \in Metrics :
              IF champions[m].of # 0
              THEN /\ Saved'.champions[m].row = championsRows[m]
                   /\ Saved'.champions[m].score = champions[m].score
              ELSE Saved'.champions[m].row = 0
<1> USE DEF IInv
<1>1. /\ Last' > 0 /\ runs'[Last'].from = runs[Last].from
      /\ runs'[Last'].checkpoint = NewCheckpoint
      /\ Last > 0
  BY CheckpointWritten
<1>2. CASE AllSet
  <2>1. NewCheckpoint # NoCheckpoint
    BY <1>2 DEF NewCheckpoint, NoCheckpoint, AllSet
  <2>2. Saved' = NewCheckpoint
    BY <1>1, <2>1 DEF Saved, Latest
  <2>3. QED
    BY <1>2, <2>2 DEF NewCheckpoint, AllSet
<1>3. CASE NoneSet
  <2>1. NewCheckpoint = NoCheckpoint /\ LeaveLoop
    BY <1>3 DEF NewCheckpoint, NoneSet, NoCheckpoint, Nobody, NoResult, SaveCheckpoint
  <2>2. Saved' = runs[Last].from
    BY <1>1, <2>1 DEF Saved, Latest
  <2>3. Saved.index = 0
    <3>1. Saved.index <= index /\ index = 0 /\ Saved \in Checkpoints
      BY <1>3, <2>1, SavedType DEF Straight, MemoryIsSaved, Active, LeaveLoop, NoneSet
    <3>2. QED BY <3>1 DEF Checkpoints
  <2>4. runs[Last].from = NoCheckpoint
    <3>1. WellFormed(runs[Last].from) /\ WellFormed(runs[Last].checkpoint)
      BY <1>1 DEF CheckpointsWellFormed
    <3>2. \A c : WellFormed(c) /\ c # NoCheckpoint => c.index > 0
      BY DEF WellFormed
    <3>3. Saved = IF runs[Last].checkpoint = NoCheckpoint
                  THEN runs[Last].from ELSE runs[Last].checkpoint
      BY <1>1 DEF Saved, Latest
    <3>4. ~(Saved.index > 0)
      BY <2>3
    <3>5. CASE runs[Last].checkpoint = NoCheckpoint
      <4>1. Saved = runs[Last].from
        BY <3>3, <3>5
      <4>2. QED
        BY <4>1, <3>1, <3>2, <3>4
    <3>6. CASE runs[Last].checkpoint # NoCheckpoint
      <4>1. Saved = runs[Last].checkpoint
        BY <3>3, <3>6
      <4>2. QED
        BY <4>1, <3>1, <3>2, <3>4, <3>6
    <3>7. QED BY <3>5, <3>6
  <2>5. QED
    BY <1>3, <2>2, <2>4 DEF NoneSet, NoCheckpoint, NoEntry, Nobody, NoResult
<1>4. QED
  BY <1>2, <1>3 DEF Board, Active, LeaveLoop, SaveCheckpoint

(* The job has a run, and what it does at each point is what it can do there.*)
LEMMA JobsKept ==
  ASSUME IInv, TypeOK', [Next]_vars
  PROVE  Jobs'
<1> USE RunAssumption DEF IInv, Jobs, Idle, InTurn, BestOnly, history, database, flags, board, turn
<1>0. faults \in Nat /\ lastId \in Nat /\ index \in Nat /\ Last \in Nat
  BY DEF TypeOK, Last
<1>1. CASE Schedule
  <2>1. /\ Last' = Last + 1 /\ Last \in Nat /\ Last < MaxRuns
        /\ runs'[Last'].checkpoint = NoCheckpoint
    BY <1>1, Scheduling
  <2>2. QED
    <3>1. /\ UNCHANGED <<tested, rewound, lastId, settings, index, champions, championsRows, sr>>
          /\ pc = "off" /\ pc' \in {"queued", "off"}
          /\ faults' = faults \/ faults' = faults + 1
      BY <1>1 DEF Schedule
    <3>2. QED
      BY <1>0, <2>1, <3>1
<1>2. CASE LeaveLoop \/ SaveCheckpoint
  <2>1. Last' = Last
    BY <1>2, CheckpointWritten
  <2>2. QED
    BY <1>2, <2>1 DEF LeaveLoop, SaveCheckpoint
<1>3. CASE /\ ~Schedule /\ ~LeaveLoop /\ ~SaveCheckpoint
           /\ Last' = Last
           /\ Last > 0 => /\ runs'[Last].from = runs[Last].from
                          /\ runs'[Last].checkpoint = runs[Last].checkpoint
  <2>1. CASE Fetch \/ Begin \/ Subscribe \/ InitializeRunState
    <3>1. CASE Begin
      BY <1>3, <3>1 DEF Begin
    <3>2. CASE Subscribe
      BY <1>3, <3>2 DEF Subscribe
    <3>3. CASE InitializeRunState
      BY <1>3, <3>3 DEF InitializeRunState
    <3>4. CASE Fetch
      BY <1>3, <3>4 DEF Fetch
    <3>5. QED BY <2>1, <3>1, <3>2, <3>3, <3>4
  <2>2. CASE CreateRow
    BY <1>0, <1>3, <2>2 DEF CreateRow, NextIsTested, InsertRow, TypeOK
  <2>3. CASE ReuseRows
    BY <1>3, <2>3 DEF ReuseRows, NextIsTested, TypeOK
  <2>4. CASE FinishStrategy
    BY <1>3, <2>4 DEF FinishStrategy
  <2>5. CASE AbortStrategy
    BY <1>3, <2>5 DEF AbortStrategy
  <2>6. CASE Branch
    BY <1>3, <2>6 DEF Branch
  <2>7. CASE KeepAll \/ LoseAll
    BY <1>3, <2>7 DEF KeepAll, LoseAll
  <2>8. CASE Recycle \/ DuplicateRow \/ Clean
    <3>1. /\ UNCHANGED <<tested, rewound, lastId, settings, index, champions, championsRows, sr, faults>>
          /\ pc \in {"loop", "judge", "clean"}
          /\ pc' \in {"clean", "failing", "update"}
          /\ pc' \in {"clean", "update"} => pc \in {"judge", "clean"}
          /\ pc' = "clean" => BestOnly
      BY <2>8 DEF Recycle, DuplicateRow, Clean, NextIsTested
    <3>2. QED
      BY <1>3, <3>1
  <2>9. CASE Update
    BY <1>3, <2>9 DEF Update
  <2>10. CASE UpdateRejected \/ SaveMints
    <3>1. /\ UNCHANGED <<tested, rewound, lastId, settings, index, champions, championsRows, sr, faults>>
          /\ pc \in {"update", "mints"} /\ pc' \in {"mints", "failing"}
      BY <2>10 DEF UpdateRejected, SaveMints
    <3>2. QED
      BY <1>3, <3>1
  <2>11. CASE Respond \/ MarkFailed
    BY <1>3, <2>11 DEF Respond, MarkFailed, Forget
  <2>12. CASE Commands
    BY <1>3, <2>12 DEF Commands, Pause, Resume, Abort
  <2>13. CASE Throw
    BY <1>0, <1>3, <2>13 DEF Throw, Steps
  <2>14. CASE Crash
    <3>1. /\ UNCHANGED <<tested, lastId, settings>> /\ faults' = faults + 1
          /\ pc # "off" /\ pc' \in {"off", "queued"}
          /\ champions' = Nobody /\ championsRows' = NoRows
      BY <2>14 DEF Crash, Forget, Steps
    <3>2. ~rewound' /\ pc' = "queued" => runs[Last].checkpoint = NoCheckpoint
      BY <2>14 DEF Crash
    <3>3. QED
      BY <1>0, <1>3, <3>1, <3>2
  <2>15. CASE UNCHANGED vars
    BY <1>3, <2>15 DEF vars
  <2>16. QED
    BY <1>3, <2>1, <2>2, <2>3, <2>4, <2>5, <2>6, <2>7, <2>8, <2>11, <2>12, <2>13, <2>14, <2>15, <2>9, <2>10
       DEF Next, Work
<1>4. QED BY <1>1, <1>2, <1>3, RunsKept

-----------------------------------------------------------------------------
(* The champions and their rows.                                             *)

(* With 'all' there are no champions.                                        *)
LEMMA NoChampionsWithAll ==
  ASSUME IInv, TypeOK', [Next]_vars, ~BestOnly
  PROVE  Board'
<1> USE DEF IInv, board
<1>1. champions = Nobody /\ championsRows = NoRows
  BY DEF Board
<1>2. champions' = Nobody /\ championsRows' = NoRows
  <2>1. CASE InitializeRunState
    <3>1. Last > 0 /\ runs[Last].from = NoCheckpoint
      <4>1. Last > 0
        BY <2>1, JobTypes DEF InitializeRunState
      <4>2. WellFormed(runs[Last].from)
        BY <4>1 DEF CheckpointsWellFormed
      <4>3. QED
        BY <4>1, <4>2 DEF WellFormed
    <3>2. QED
      BY <1>1, <2>1, <3>1 DEF InitializeRunState, NoCheckpoint, NoEntry, Nobody, NoRows
  <2>2. CASE CreateRow \/ ReuseRows
    BY <1>1, <2>2 DEF CreateRow, ReuseRows
  <2>3. CASE Update
    <3>1. /\ champions' = [m \in Metrics |-> champions[m]]
          /\ championsRows' = [m \in Metrics |-> championsRows[m]]
      BY <2>3 DEF Update
    <3>2. QED
      BY <1>1, <3>1 DEF Nobody, NoRows
  <2>4. CASE Respond \/ MarkFailed \/ Crash
    BY <2>4 DEF Respond, MarkFailed, Crash, Forget
  <2>5. CASE Fetch \/ Begin \/ Subscribe \/ LeaveLoop \/ AbortStrategy \/ FinishStrategy
    BY <1>1, <2>5 DEF Fetch, Begin, Subscribe, LeaveLoop, AbortStrategy, FinishStrategy
  <2>6. CASE KeepAll \/ LoseAll \/ Recycle \/ Branch \/ DuplicateRow
    BY <1>1, <2>6 DEF KeepAll, LoseAll, Recycle, Branch, DuplicateRow
  <2>7. CASE Clean \/ UpdateRejected \/ SaveCheckpoint \/ SaveMints \/ Schedule
    BY <1>1, <2>7 DEF Clean, UpdateRejected, SaveCheckpoint, SaveMints, Schedule
  <2>8. CASE Commands \/ Throw \/ UNCHANGED vars
    BY <1>1, <2>8 DEF Commands, Pause, Resume, Abort, Throw, vars
  <2>9. QED
    BY <2>1, <2>2, <2>3, <2>4, <2>5, <2>6, <2>7, <2>8 DEF Next, Work
<1>3. ~BestOnly'
  BY IdsGrow
<1>4. QED
  BY <1>2, <1>3 DEF Board, Nobody, NoRows, Kept

(* What a judged strategy wins: all metrics of an empty board.               *)
LEMMA EmptyBoardIsWon ==
  ASSUME champions = Nobody
  PROVE  MetricsWon = Metrics
BY DEF MetricsWon, Nobody, NoResult

(* With 'best_only' the board stays empty or full, its rows are there and a  *)
(* row that is to be overwritten is nobody else's.                           *)
LEMMA BoardKept ==
  ASSUME IInv, TypeOK', [Next]_vars, BestOnly
  PROVE  Board'
<1> USE DEF IInv, Board, Active, InTurn, AllSet, NoneSet, Kept, board, turn, history,
           database, flags
<1>0. BestOnly' /\ \A r : r \in DOMAIN rows => r # 0
  <2> HIDE DEF IInv, Board
  <2>1. BestOnly'
    BY IdsGrow
  <2>2. \A r : r \in DOMAIN rows => r # 0
    <3>1. DOMAIN rows \subseteq 1 .. lastId
      BY DEF IInv, TypeOK
    <3>2. QED BY <3>1
  <2>3. QED BY <2>1, <2>2
<1>1. CASE InitializeRunState
  <2>1. Last > 0
    BY <1>1, JobTypes DEF InitializeRunState
  <2>2. CASE pc' = "failing"
    BY <1>0, <2>2
  <2>3. CASE pc' # "failing"
    <3> DEFINE from == runs[Last].from
    <3>1. /\ pc' = "loop" /\ index' = from.index
          /\ \A m \in Metrics : from.champions[m].row # 0 => from.champions[m].row \in DOMAIN rows
          /\ championsRows' = [m \in Metrics |-> from.champions[m].row]
          /\ champions' = [m \in Metrics |->
               IF from.champions[m].row # 0
               THEN [of |-> rows[from.champions[m].row].strategy,
                     score |-> from.champions[m].score, mints |-> "gone"]
               ELSE NoResult]
          /\ rows' = rows
      BY <1>1, <2>3 DEF InitializeRunState
    <3>2. WellFormed(from)
      BY <2>1 DEF CheckpointsWellFormed
    <3> HIDE DEF from
    <3>3. CASE from = NoCheckpoint
      <4>1. /\ champions' = Nobody /\ index' = 0
            /\ \A m \in Metrics : championsRows'[m] = 0
        BY <3>1, <3>3 DEF NoCheckpoint, NoEntry, Nobody
      <4>2. QED
        BY <1>0, <3>1, <4>1 DEF Nobody
    <3>4. CASE from # NoCheckpoint
      <4>1. /\ from.index > 0
            /\ \A m \in Metrics : from.champions[m].row # 0
            /\ \A m, k \in Metrics : from.champions[m].row = from.champions[k].row =>
                                       from.champions[m].score = from.champions[k].score
        BY <3>2, <3>4, SMTT(30) DEF WellFormed, TypeOK
      <4>2. \A m \in Metrics : champions'[m].of # 0
        <5>1. \A m \in Metrics : rows[from.champions[m].row] \in Rows
          BY <3>1, <4>1 DEF TypeOK
        <5>2. \A m \in Metrics : rows[from.champions[m].row].strategy # 0
          BY <5>1, RunAssumption DEF Rows, Strategies
        <5>3. QED
          BY <3>1, <4>1, <5>2
      <4>3. QED
        BY <1>0, <3>1, <4>1, <4>2
    <3>5. QED BY <3>3, <3>4
  <2>4. QED BY <2>2, <2>3
<1>2. CASE CreateRow
  <2>1. NoneSet /\ pc = "loop"
    BY <1>2 DEF CreateRow, NextIsTested, NeedsRow
  <2>2. index + 1 \in Strategies /\ Last \in 1 .. MaxRuns
    <3>1. index < NStrategies /\ index \in Nat /\ NStrategies \in Nat
      BY <1>2, RunAssumption DEF CreateRow, NextIsTested, TypeOK
    <3>2. Last \in 1 .. MaxRuns
      BY <2>1, JobTypes
    <3>3. QED
      BY <3>1, <3>2 DEF Strategies
  <2>3. /\ lastId \in Nat /\ lastId' = lastId + 1
        /\ DOMAIN rows' = DOMAIN rows \cup {lastId'}
    BY <1>2, <2>2, Inserting DEF CreateRow
  <2>4. /\ \A m \in Metrics : championsRows'[m] = lastId'
        /\ current' = lastId' /\ pc' = "test"
        /\ UNCHANGED <<champions, index>>
    BY <1>2, <2>1, FirstMetric DEF CreateRow
  <2>5. QED
    BY <1>0, <2>1, <2>3, <2>4 DEF Nobody
<1>3. CASE ReuseRows
  <2>1. AllSet
    BY <1>3, FirstMetric DEF ReuseRows, NextIsTested, NeedsRow
  <2>2. QED
    BY <1>0, <1>3, <2>1 DEF ReuseRows, NextIsTested
<1>4. CASE FinishStrategy \/ AbortStrategy
  BY <1>0, <1>4 DEF FinishStrategy, AbortStrategy
<1>5. CASE LoseAll
  <2>1. AllSet
    BY <1>5, EmptyBoardIsWon, FirstMetric DEF LoseAll
  <2>2. QED
    BY <1>0, <1>5, <2>1 DEF LoseAll, TypeOK
<1>6. CASE Recycle
  <2>1. PrimaryMetric \in MetricsWon /\ PrimaryMetric \in Metrics
    BY <1>6, PrimaryIsWon DEF Recycle
  <2>2. base' \in DOMAIN rows /\ ~StillNeeded(base')
    BY <1>6, <2>1 DEF Recycle, SurvivorRow
  <2>3. /\ UNCHANGED <<rows, index, current, champions, championsRows, sr>>
        /\ pc = "judge" /\ pc' = "clean" /\ MetricsWon # {}
    BY <1>6 DEF Recycle
  <2>4. MetricsWon' = MetricsWon
    BY <2>3 DEF MetricsWon
  <2>5. QED
    BY <1>0, <2>2, <2>3, <2>4 DEF StillNeeded
<1>7. CASE Branch
  <2>1. index + 1 \in Strategies /\ Last \in 1 .. MaxRuns
    <3>1. index < NStrategies /\ index \in Nat /\ NStrategies \in Nat
      BY <1>7, RunAssumption DEF Branch, Jobs, TypeOK
    <3>2. Last \in 1 .. MaxRuns
      BY <1>7, JobTypes DEF Branch
    <3>3. QED
      BY <3>1, <3>2 DEF Strategies
  <2>2. /\ lastId \in Nat /\ lastId' = lastId + 1
        /\ DOMAIN rows' = DOMAIN rows \cup {lastId'}
    BY <1>7, <2>1, Inserting DEF Branch
  <2>3. /\ UNCHANGED <<index, current, champions, championsRows, sr>>
        /\ pc = "judge" /\ pc' = "clean" /\ MetricsWon # {} /\ base' = lastId'
    BY <1>7 DEF Branch
  <2>4. MetricsWon' = MetricsWon
    BY <2>3 DEF MetricsWon
  <2>5. \A m \in Metrics : championsRows[m] # lastId'
    BY <2>2 DEF TypeOK
  <2>6. QED
    BY <1>0, <2>2, <2>3, <2>4, <2>5 DEF StillNeeded
<1>8. CASE Clean
  <2>1. /\ UNCHANGED <<index, current, champions, championsRows, sr, base>>
        /\ pc = "clean" /\ pc' = "update"
        /\ DOMAIN rows' = DOMAIN rows \ IdsToDelete
    BY <1>8 DEF Clean
  <2>2. MetricsWon' = MetricsWon
    BY <2>1 DEF MetricsWon
  <2>3. base \notin IdsToDelete
    BY DEF IdsToDelete
  <2>4. \A m \in Metrics \ MetricsWon : championsRows[m] \notin IdsToDelete
    BY DEF IdsToDelete, StillNeeded
  <2>5. QED
    BY <1>0, <2>1, <2>2, <2>3, <2>4 DEF StillNeeded
<1>9. CASE Update
  <2>1. /\ \A m \in Metrics : champions'[m] = IF m \in MetricsWon THEN sr ELSE champions[m]
        /\ \A m \in Metrics : championsRows'[m] = IF m \in MetricsWon THEN base ELSE championsRows[m]
        /\ index' = index + 1 /\ pc = "update" /\ pc' = "checkpoint"
        /\ DOMAIN rows' = DOMAIN rows
    BY <1>9 DEF Update, WriteResult
  <2>2. sr.of # 0 /\ base # 0
    BY <1>0, <2>1, SMTT(30) DEF Jobs, TypeOK
  <2>3. \A m \in Metrics \ MetricsWon : championsRows[m] # base
    BY <2>1 DEF StillNeeded
  <2>4. AllSet'
    <3>1. index' > 0
      BY <2>1, SMTT(30) DEF TypeOK
    <3>2. NoneSet => MetricsWon = Metrics
      BY EmptyBoardIsWon
    <3>3. QED
      BY <2>1, <2>2, <3>1, <3>2
  <2>5. QED
    BY <1>0, <2>1, <2>3, <2>4
<1>10. CASE Respond \/ MarkFailed \/ Crash
  BY <1>0, <1>10 DEF Respond, MarkFailed, Crash, Forget
<1>11. CASE SaveMints
  <2>1. /\ UNCHANGED <<index, current, champions, championsRows, base>>
        /\ pc = "mints" /\ pc' \in {"mints", "failing"}
        /\ DOMAIN rows' = DOMAIN rows
    BY <1>11 DEF SaveMints, WriteResult
  <2>2. QED
    BY <1>0, <2>1
<1>12. CASE SaveCheckpoint \/ LeaveLoop
  BY <1>0, <1>12 DEF SaveCheckpoint, LeaveLoop
<1>13. CASE Fetch \/ Begin \/ Subscribe \/ Schedule
  BY <1>0, <1>13 DEF Fetch, Begin, Subscribe, Schedule
<1>14. CASE DuplicateRow \/ UpdateRejected \/ Throw
  BY <1>0, <1>14 DEF DuplicateRow, UpdateRejected, Throw
<1>15. CASE Commands
  <2>1. /\ UNCHANGED <<rows, index, current, champions, championsRows, sr, base, pc>>
    BY <1>15 DEF Commands, Pause, Resume, Abort
  <2>2. MetricsWon' = MetricsWon
    BY <2>1 DEF MetricsWon
  <2>3. QED
    BY <1>0, <2>1, <2>2 DEF StillNeeded
<1>16. CASE UNCHANGED vars
  <2>1. /\ UNCHANGED <<rows, index, current, champions, championsRows, sr, base, pc>>
    BY <1>16 DEF vars
  <2>2. MetricsWon' = MetricsWon
    BY <2>1 DEF MetricsWon
  <2>3. QED
    BY <1>0, <2>1, <2>2 DEF StillNeeded
<1>17. CASE KeepAll
  BY <1>17 DEF KeepAll
<1>18. QED
  BY <1>1, <1>2, <1>3, <1>4, <1>5, <1>6, <1>7, <1>8, <1>9, <1>10, <1>11, <1>12, <1>13,
     <1>14, <1>15, <1>16, <1>17 DEF Next, Work

-----------------------------------------------------------------------------
(* The champions are never worse than what is known of them.                 *)

(* Which steps change what.                                                  *)
LEMMA WhoChangesWhat ==
  ASSUME [Next]_vars
  PROVE  /\ rows' = rows \/ CreateRow \/ Branch \/ Clean \/ Update \/ SaveMints
         /\ \/ UNCHANGED <<champions, index>>
            \/ InitializeRunState \/ LoseAll \/ Update
            \/ pc' \in {"off", "queued"}
         /\ \/ UNCHANGED championsRows
            \/ InitializeRunState \/ CreateRow \/ Update
            \/ pc' \in {"off", "queued"}
         /\ \/ UNCHANGED sr
            \/ FinishStrategy \/ AbortStrategy
            \/ pc' \in {"off", "queued"}
         /\ tested' = tested \/ FinishStrategy \/ AbortStrategy
         /\ rewound => rewound'
<1> USE DEF database, history, board, turn
<1>1. CASE Fetch \/ Begin \/ Subscribe \/ LeaveLoop \/ SaveCheckpoint \/ Schedule
  BY <1>1 DEF Fetch, Begin, Subscribe, LeaveLoop, SaveCheckpoint, Schedule
<1>2. CASE InitializeRunState
  BY <1>2 DEF InitializeRunState
<1>3. CASE LoseAll \/ FinishStrategy \/ AbortStrategy
  BY <1>3 DEF LoseAll, FinishStrategy, AbortStrategy
<1>4. CASE CreateRow \/ ReuseRows
  BY <1>4 DEF CreateRow, ReuseRows
<1>5. CASE KeepAll \/ Recycle \/ Branch \/ DuplicateRow
  BY <1>5 DEF KeepAll, Recycle, Branch, DuplicateRow
<1>6. CASE Clean \/ UpdateRejected
  BY <1>6 DEF Clean, UpdateRejected
<1>7. CASE Update
  BY <1>7 DEF Update
<1>8. CASE SaveMints
  BY <1>8 DEF SaveMints
<1>9. CASE Respond \/ MarkFailed
  BY <1>9 DEF Respond, MarkFailed
<1>10. CASE Crash
  <2>1. pc' \in {"off", "queued"} /\ rows' = rows /\ tested' = tested
    BY <1>10 DEF Crash
  <2>2. rewound => rewound'
    BY <1>10, Zenon DEF Crash
  <2>3. QED
    BY <2>1, <2>2
<1>11. CASE Commands \/ Throw \/ UNCHANGED vars
  BY <1>11 DEF Commands, Pause, Resume, Abort, Throw, vars
<1>12. QED
  BY <1>1, <1>2, <1>3, <1>4, <1>5, <1>6, <1>7, <1>8, <1>9, <1>10, <1>11 DEF Next, Work

(* How the job gets to where it is.                                          *)
LEMMA WhereFrom ==
  ASSUME [Next]_vars
  PROVE  /\ Active' => Active \/ InitializeRunState
         /\ pc' = "loop" => \/ InitializeRunState \/ LoseAll \/ Update \/ SaveCheckpoint
                            \/ pc = "loop"
         /\ pc' = "test" => CreateRow \/ ReuseRows \/ pc = "test"
         /\ pc' = "judge" => FinishStrategy \/ AbortStrategy \/ pc = "judge"
         /\ pc' = "clean" => Recycle \/ Branch \/ pc = "clean"
         /\ pc' = "update" => KeepAll \/ Clean \/ pc = "update"
         /\ pc' = "checkpoint" => LoseAll \/ Update \/ pc = "checkpoint"
         /\ pc' = "mints" => LeaveLoop \/ pc = "mints"
<1> USE DEF Active
<1>1. CASE Fetch \/ Begin \/ Subscribe \/ LeaveLoop \/ SaveCheckpoint \/ Schedule
  BY <1>1 DEF Fetch, Begin, Subscribe, LeaveLoop, SaveCheckpoint, Schedule
<1>2. CASE InitializeRunState \/ LoseAll \/ FinishStrategy
  BY <1>2 DEF InitializeRunState, LoseAll, FinishStrategy
<1>3. CASE CreateRow \/ ReuseRows \/ AbortStrategy
  BY <1>3 DEF CreateRow, ReuseRows, AbortStrategy, NextIsTested
<1>4. CASE KeepAll \/ Recycle \/ Branch \/ DuplicateRow
  BY <1>4 DEF KeepAll, Recycle, Branch, DuplicateRow
<1>5. CASE Clean \/ Update \/ UpdateRejected \/ SaveMints
  BY <1>5 DEF Clean, Update, UpdateRejected, SaveMints
<1>6. CASE Respond \/ MarkFailed \/ Crash
  BY <1>6 DEF Respond, MarkFailed, Crash
<1>7. CASE Commands \/ Throw \/ UNCHANGED vars
  BY <1>7 DEF Commands, Pause, Resume, Abort, Throw, vars
<1>8. QED
  BY <1>1, <1>2, <1>3, <1>4, <1>5, <1>6, <1>7 DEF Next, Work

(* A run that starts takes the board it resumes from.                        *)
LEMMA BoardOfCheckpoint ==
  ASSUME IInv, BestOnly, ~rewound, InitializeRunState, pc' # "failing"
  PROVE  /\ pc' = "loop" /\ index' = Saved.index
         /\ \A m \in Metrics : championsRows'[m] = Saved.champions[m].row
         /\ \A m \in Metrics :
              IF Saved.champions[m].row # 0
              THEN /\ Saved.champions[m].row \in DOMAIN rows
                   /\ champions'[m].of = rows[Saved.champions[m].row].strategy
                   /\ champions'[m].of # 0
                   /\ champions'[m].score = Saved.champions[m].score
              ELSE champions'[m].of = 0
         /\ Saved.index > 0 => \A m \in Metrics : Saved.champions[m].row # 0
<1> USE DEF IInv
<1>1. Last > 0 /\ runs[Last].checkpoint = NoCheckpoint
  BY JobTypes DEF InitializeRunState, Jobs
<1>2. Saved = runs[Last].from /\ WellFormed(Saved)
  BY <1>1 DEF Saved, Latest, CheckpointsWellFormed
<1>3. /\ pc' = "loop" /\ index' = Saved.index
      /\ \A m \in Metrics : Saved.champions[m].row # 0 => Saved.champions[m].row \in DOMAIN rows
      /\ championsRows' = [m \in Metrics |-> Saved.champions[m].row]
      /\ champions' = [m \in Metrics |->
           IF Saved.champions[m].row # 0
           THEN [of |-> rows[Saved.champions[m].row].strategy,
                 score |-> Saved.champions[m].score, mints |-> "gone"]
           ELSE NoResult]
  BY <1>2 DEF InitializeRunState
<1>4. \A r \in DOMAIN rows : rows[r].strategy # 0
  BY RunAssumption DEF TypeOK, Rows, Strategies
<1>5. Saved.index > 0 => \A m \in Metrics : Saved.champions[m].row # 0
  <2>1. CASE Saved = NoCheckpoint
    BY <2>1 DEF NoCheckpoint
  <2>2. CASE Saved # NoCheckpoint
    <3>1. \A m \in Metrics : Saved.champions[m].row \in 1 .. lastId
      BY <1>2, <2>2 DEF WellFormed
    <3>2. QED BY <3>1
  <2>3. QED BY <2>1, <2>2
<1>6. QED
  BY <1>3, <1>4, <1>5 DEF NoResult

(* What is saved stays what is in memory.                                    *)
LEMMA MemoryIsSavedKept ==
  ASSUME IInv, TypeOK', [Next]_vars, BestOnly, ~rewound
  PROVE  MemoryIsSaved'
<1> USE DEF Active
<1>1. IInv /\ MemoryIsSaved
  BY DEF IInv, Straight
<1>2. CASE LeaveLoop \/ SaveCheckpoint
  <2>1. UNCHANGED <<index, champions, championsRows>> /\ index \in Nat
    BY <1>1, <1>2 DEF LeaveLoop, SaveCheckpoint, IInv, TypeOK, board
  <2>2. QED
    BY <1>2, <2>1, SavedIsBoard DEF MemoryIsSaved
<1>3. CASE InitializeRunState
  <2>1. ~LeaveLoop /\ ~SaveCheckpoint
    BY <1>3 DEF InitializeRunState, LeaveLoop, SaveCheckpoint
  <2>2. Saved' = Saved /\ Saved.index <= Saved.index
    BY <2>1, SavedKept, SavedType DEF Checkpoints, IInv
  <2>3. CASE pc' = "failing"
    BY <2>3 DEF MemoryIsSaved
  <2>4. CASE pc' # "failing"
    BY <1>3, <2>2, <2>4, BoardOfCheckpoint DEF MemoryIsSaved
  <2>5. QED BY <2>3, <2>4
<1>4. CASE CreateRow
  <2>1. ~LeaveLoop /\ ~SaveCheckpoint /\ pc = "loop"
    BY <1>4 DEF CreateRow, NextIsTested, LeaveLoop, SaveCheckpoint
  <2>2. Saved' = Saved
    BY <2>1, SavedKept
  <2>3. UNCHANGED <<index, champions>>
    BY <1>4 DEF CreateRow
  <2>4. champions = Nobody
    BY <1>4, <2>1 DEF IInv, Board, AllSet, NoneSet, CreateRow, NeedsRow
  <2>5. QED
    BY <1>1, <2>1, <2>2, <2>3, <2>4 DEF MemoryIsSaved, Nobody, NoResult
<1>5. CASE LoseAll
  <2>1. ~LeaveLoop /\ ~SaveCheckpoint /\ pc = "judge"
    BY <1>5 DEF LoseAll, LeaveLoop, SaveCheckpoint
  <2>2. Saved' = Saved
    BY <2>1, SavedKept
  <2>3. UNCHANGED <<champions, championsRows>> /\ index' = index + 1 /\ index \in Nat
    BY <1>1, <1>5 DEF LoseAll, board, IInv, TypeOK
  <2>4. Saved.index \in Nat
    BY SavedType DEF Checkpoints, IInv
  <2>5. QED
    BY <1>1, <2>1, <2>2, <2>3, <2>4 DEF MemoryIsSaved
<1>6. CASE Update
  <2>1. ~LeaveLoop /\ ~SaveCheckpoint /\ pc = "update"
    BY <1>6 DEF Update, LeaveLoop, SaveCheckpoint
  <2>2. Saved' = Saved
    BY <2>1, SavedKept
  <2>3. pc' = "checkpoint" /\ index' = index + 1 /\ index \in Nat
    BY <1>1, <1>6 DEF Update, IInv, TypeOK
  <2>4. Saved.index \in Nat
    BY SavedType DEF Checkpoints, IInv
  <2>5. QED
    BY <1>1, <2>1, <2>2, <2>3, <2>4 DEF MemoryIsSaved
<1>7. CASE pc' \in {"off", "queued"}
  BY <1>7 DEF MemoryIsSaved
<1>8. CASE /\ ~LeaveLoop /\ ~SaveCheckpoint
           /\ Active' => Active
           /\ pc = "checkpoint" => pc' = "checkpoint" \/ ~Active'
           /\ UNCHANGED <<index, champions, championsRows>>
  <2>1. Saved' = Saved
    BY <1>8, SavedKept
  <2>2. QED
    BY <1>1, <1>8, <2>1 DEF MemoryIsSaved
<1>9. CASE ~LeaveLoop /\ ~SaveCheckpoint /\ ~InitializeRunState /\ ~CreateRow
           /\ ~LoseAll /\ ~Update /\ pc' \notin {"off", "queued"}
  <2>1. UNCHANGED <<index, champions, championsRows>> /\ (Active' => Active)
    BY <1>9, WhoChangesWhat, WhereFrom
  <2>2. pc = "checkpoint" => pc' = "checkpoint" \/ ~Active'
    BY <1>9, WhereFrom DEF CreateRow, ReuseRows, NextIsTested, FinishStrategy, AbortStrategy,
       Recycle, Branch, KeepAll, Clean
  <2>3. QED
    BY <1>8, <1>9, <2>1, <2>2
<1>10. QED
  BY <1>2, <1>3, <1>4, <1>5, <1>6, <1>7, <1>9

(* No row is worse than what is saved of it.                                 *)
LEMMA SavedNeverWorseKept ==
  ASSUME IInv, TypeOK', [Next]_vars, BestOnly, ~rewound
  PROVE  SavedNeverWorse'
<1>1. /\ TypeOK /\ Jobs /\ CheckpointsWellFormed /\ Board
      /\ MemoryIsSaved /\ SavedNeverWorse /\ RowsNeverWorse
  BY DEF IInv, Straight
<1>2. Saved \in Checkpoints /\ 0 \notin DOMAIN rows
  BY <1>1, SavedType, SMTT(30) DEF TypeOK
<1>3. CASE LeaveLoop \/ SaveCheckpoint
  <2>1. rows' = rows /\ pc \in {"loop", "checkpoint"}
    BY <1>3 DEF LeaveLoop, SaveCheckpoint
  <2>2. \A m \in Metrics : champions[m].of # 0 =>
          rows[championsRows[m]].score[m] >= champions[m].score[m]
    BY <1>1, <2>1 DEF RowsNeverWorse
  <2>3. QED
    BY <1>2, <1>3, <2>1, <2>2, SavedIsBoard DEF SavedNeverWorse
<1>4. CASE ~LeaveLoop /\ ~SaveCheckpoint
  <2>1. Saved' = Saved
    BY <1>4, SavedKept
  <2>2. CASE rows' = rows
    BY <1>1, <2>1, <2>2 DEF SavedNeverWorse
  <2>3. CASE CreateRow \/ Branch
    <3>1. \A m \in Metrics : Saved.champions[m].row \in 0 .. lastId
      <4>1. lastId \in Nat
        BY <1>1 DEF TypeOK
      <4>2. QED
        BY <1>1, <4>1, SavedWellFormed DEF WellFormed, NoCheckpoint, NoEntry
    <3>2. /\ DOMAIN rows' = DOMAIN rows \cup {lastId'}
          /\ lastId' \notin 0 .. lastId
          /\ \A r \in DOMAIN rows : rows'[r] = rows[r]
      <4>1. lastId \in Nat /\ lastId + 1 \notin DOMAIN rows
        BY <1>1 DEF TypeOK
      <4>2. PICK s : InsertRow(s)
        BY <2>3 DEF CreateRow, Branch
      <4>3. QED
        BY <4>1, <4>2 DEF InsertRow
    <3>3. QED
      BY <1>1, <2>1, <3>1, <3>2 DEF SavedNeverWorse
  <2>4. CASE Clean
    BY <1>1, <2>1, <2>4 DEF Clean, SavedNeverWorse
  <2>5. CASE Update
    <3>1. /\ DOMAIN rows' = DOMAIN rows /\ pc = "update"
          /\ \A r \in DOMAIN rows \ {base} : rows'[r] = rows[r]
          /\ base \in DOMAIN rows => rows'[base].score = sr.score
      BY <2>5 DEF Update, WriteResult
    <3>2. ASSUME NEW m \in Metrics, Saved.champions[m].row = base, base \in DOMAIN rows
          PROVE  sr.score[m] >= Saved.champions[m].score[m]
      <4>1. /\ champions[m].of # 0 /\ championsRows[m] = base
            /\ Saved.champions[m].score = champions[m].score
        BY <1>1, <1>2, <3>1, <3>2 DEF MemoryIsSaved, Active
      <4>2. m \in MetricsWon
        BY <1>1, <3>1, <4>1, Zenon DEF Board, StillNeeded
      <4>3. sr.score[m] > champions[m].score[m]
        BY <4>1, <4>2 DEF MetricsWon
      <4>4. sr.score[m] \in Nat /\ champions[m].score[m] \in Nat
        BY <1>1, RunAssumption DEF TypeOK, Results, Scores
      <4>5. QED BY <4>1, <4>3, <4>4
    <3>3. QED
      BY <1>1, <2>1, <3>1, <3>2 DEF SavedNeverWorse
  <2>6. CASE SaveMints
    <3>1. pc = "mints"
      BY <2>6 DEF SaveMints
    <3>2. PICK k \in Metrics :
            \/ rows' = rows
            \/ WriteResult(championsRows[k], "completed", champions[k], TRUE, FALSE)
      BY <2>6 DEF SaveMints
    <3>3. CASE WriteResult(championsRows[k], "completed", champions[k], TRUE, FALSE)
      <4>1. /\ DOMAIN rows' = DOMAIN rows
            /\ \A r \in DOMAIN rows \ {championsRows[k]} : rows'[r] = rows[r]
            /\ championsRows[k] \in DOMAIN rows =>
                 rows'[championsRows[k]].score = champions[k].score
        BY <3>3 DEF WriteResult
      <4>2. ASSUME NEW m \in Metrics, Saved.champions[m].row = championsRows[k],
                   championsRows[k] \in DOMAIN rows
            PROVE  champions[k].score[m] >= Saved.champions[m].score[m]
        <5>1. champions[m].of # 0 /\ championsRows[m] = championsRows[k]
              /\ Saved.champions[m].score = champions[m].score
          BY <1>1, <1>2, <3>1, <4>2 DEF MemoryIsSaved, Active
        <5>2. champions[k] = champions[m]
          BY <1>1, <3>1, <5>1 DEF Board, Active
        <5>3. champions[m].score[m] \in Nat
          BY <1>1, RunAssumption DEF TypeOK, Results, Scores
        <5>4. QED BY <5>1, <5>2, <5>3
      <4>3. QED
        BY <1>1, <2>1, <4>1, <4>2 DEF SavedNeverWorse
    <3>4. QED BY <2>2, <3>2, <3>3
  <2>7. QED
    BY <2>2, <2>3, <2>4, <2>5, <2>6, WhoChangesWhat
<1>5. QED BY <1>3, <1>4

(* No strategy behind the checkpoint beats what is saved.                    *)
LEMMA SavedIsBestKept ==
  ASSUME IInv, TypeOK', [Next]_vars, BestOnly, ~rewound
  PROVE  SavedIsBest'
<1>1. TypeOK /\ MemoryIsSaved /\ SavedIsBest /\ MemoryIsBest
  BY DEF IInv, Straight
<1>2. Saved \in Checkpoints /\ index \in Nat
  <2>1. Saved \in Checkpoints
    BY <1>1, SavedType
  <2>2. QED
    BY <1>1, <2>1 DEF TypeOK
<1>3. score' = score
  BY IdsGrow
<1>4. CASE LeaveLoop \/ SaveCheckpoint
  <2>1. tested' = tested /\ Active
    BY <1>4 DEF LeaveLoop, SaveCheckpoint, history, Active
  <2>2. Saved'.index = index
        /\ \A m \in Metrics : champions[m].of # 0 =>
             Saved'.champions[m].score = champions[m].score
    BY <1>4, SavedIsBoard
  <2>3. QED
    BY <1>1, <1>3, <2>1, <2>2 DEF SavedIsBest, MemoryIsBest
<1>5. CASE ~LeaveLoop /\ ~SaveCheckpoint
  <2>1. Saved' = Saved
    BY <1>5, SavedKept
  <2>2. CASE tested' = tested \/ AbortStrategy
    BY <1>1, <1>3, <2>1, <2>2 DEF SavedIsBest, AbortStrategy
  <2>3. CASE FinishStrategy
    <3>1. tested' = tested \cup {index + 1} /\ pc = "test"
      BY <2>3 DEF FinishStrategy
    <3>2. Saved.index <= index /\ Saved.index \in Nat
      BY <1>1, <1>2, <3>1 DEF MemoryIsSaved, Active, Checkpoints
    <3>3. \A s \in tested' : s <= Saved.index => s \in tested
      BY <1>2, <3>1, <3>2
    <3>4. QED
      BY <1>1, <1>3, <2>1, <3>3 DEF SavedIsBest
  <2>4. QED
    BY <2>2, <2>3, WhoChangesWhat
<1>6. QED BY <1>4, <1>5

(* No strategy behind the loop beats a champion.                             *)
LEMMA MemoryIsBestKept ==
  ASSUME IInv, TypeOK', [Next]_vars, BestOnly, ~rewound
  PROVE  MemoryIsBest'
<1>1. /\ TypeOK /\ Jobs /\ Board
      /\ MemoryIsSaved /\ SavedIsBest /\ MemoryIsBest
  BY DEF IInv, Straight
<1>2. /\ Saved \in Checkpoints /\ index \in Nat /\ tested \subseteq Nat
      /\ \A m \in Metrics : champions[m].score[m] \in Nat /\ sr.score[m] \in Nat
      /\ \A s \in tested, m \in Metrics : score[s][m] \in Nat
  <2>1. Saved \in Checkpoints /\ index \in Nat /\ tested \subseteq Strategies
    BY <1>1, SavedType DEF TypeOK
  <2>2. \A m \in Metrics : champions[m].score \in Scores /\ sr.score \in Scores
    BY <1>1 DEF TypeOK, Results
  <2>3. \A s \in tested : score[s] \in Scores
    BY <1>1, ScoresAssumption DEF TypeOK
  <2>4. QED
    BY <2>1, <2>2, <2>3, RunAssumption DEF Scores, Strategies
<1>3. score' = score
  BY IdsGrow
<1> DEFINE Beaten(s) == \A m \in Metrics :
                          champions[m].of # 0 /\ score[s][m] <= champions[m].score[m]
           Beaten2(s) == \A m \in Metrics :
                          champions'[m].of # 0 /\ score[s][m] <= champions'[m].score[m]
<1>4. SUFFICES /\ Active' => \A s \in tested' : s <= index' => Beaten2(s)
               /\ pc' \in {"judge", "clean", "update"} /\ index' + 1 \in tested' =>
                    sr'.score = score[index' + 1]
  BY <1>3 DEF MemoryIsBest, Active
<1>5. Active => \A s \in tested : s <= index => Beaten(s)
  BY <1>1 DEF MemoryIsBest
<1>6. CASE InitializeRunState
  <2>1. CASE pc' = "failing"
    BY <2>1 DEF Active
  <2>2. CASE pc' # "failing"
    <3>1. /\ pc' = "loop" /\ index' = Saved.index /\ tested' = tested
          /\ \A m \in Metrics : Saved.champions[m].row # 0 =>
               champions'[m].of # 0 /\ champions'[m].score = Saved.champions[m].score
          /\ Saved.index > 0 => \A m \in Metrics : Saved.champions[m].row # 0
      BY <1>6, <2>2, BoardOfCheckpoint DEF InitializeRunState, history
    <3>2. \A s \in tested : s > 0 /\ s \in Nat
      BY <1>1 DEF TypeOK, Strategies
    <3>3. \A s \in tested : s <= Saved.index => Saved.index > 0
      BY <1>2, <3>2 DEF Checkpoints
    <3>4. QED
      BY <1>1, <3>1, <3>3 DEF SavedIsBest
  <2>3. QED BY <2>1, <2>2
<1>7. CASE FinishStrategy
  <2>1. /\ UNCHANGED <<champions, index>> /\ pc = "test" /\ pc' = "judge"
        /\ tested' = tested \cup {index + 1} /\ sr'.score = score[index + 1]
    BY <1>7 DEF FinishStrategy, board
  <2>2. \A s \in tested' : s <= index => s \in tested
    BY <1>2, <2>1
  <2>3. \A s \in tested : s <= index => Beaten(s)
    BY <1>5, <2>1 DEF Active
  <2>4. QED
    BY <2>1, <2>2, <2>3
<1>8. CASE AbortStrategy
  <2>1. /\ UNCHANGED <<champions, index>> /\ pc = "test" /\ pc' = "judge"
        /\ tested' = tested \ {index + 1}
    BY <1>8 DEF AbortStrategy, board
  <2>2. QED
    BY <1>2, <1>5, <2>1 DEF Active
<1>9. CASE LoseAll
  <2>1. /\ UNCHANGED <<champions, tested, sr>> /\ index' = index + 1
        /\ pc = "judge" /\ pc' \in {"loop", "checkpoint"}
        /\ MetricsWon = {}
    BY <1>9 DEF LoseAll, board, history, turn
  <2>2. \A m \in Metrics : champions[m].of # 0 /\ sr.score[m] <= champions[m].score[m]
    BY <1>2, <2>1 DEF MetricsWon
  <2>3. index + 1 \in tested => Beaten(index + 1)
    BY <1>1, <2>1, <2>2 DEF MemoryIsBest
  <2>4. \A s \in tested : s <= index + 1 => s <= index \/ s = index + 1
    BY <1>2
  <2>5. QED
    BY <1>5, <2>1, <2>3, <2>4 DEF Active
<1>10. CASE Update
  <2>1. /\ tested' = tested /\ index' = index + 1
        /\ pc = "update" /\ pc' = "checkpoint"
        /\ \A m \in Metrics : champions'[m] = IF m \in MetricsWon THEN sr ELSE champions[m]
    BY <1>10 DEF Update, history
  <2>2. sr.of # 0
    BY <1>1, <1>2, <2>1 DEF Jobs
  <2>3. \A m \in Metrics \ MetricsWon :
          champions[m].of # 0 /\ sr.score[m] <= champions[m].score[m]
    BY <1>2 DEF MetricsWon
  <2>4. \A m \in MetricsWon : champions[m].of # 0 => champions[m].score[m] < sr.score[m]
    BY <1>2 DEF MetricsWon
  <2>5. ASSUME NEW s \in tested, s <= index
        PROVE  Beaten2(s)
    BY <1>2, <1>5, <2>1, <2>2, <2>3, <2>4, <2>5 DEF Active
  <2>6. ASSUME index + 1 \in tested
        PROVE  Beaten2(index + 1)
    <3>1. score[index + 1] = sr.score
      BY <1>1, <2>1, <2>6 DEF MemoryIsBest
    <3>2. QED
      BY <1>2, <2>1, <2>2, <2>3, <3>1
  <2>7. \A s \in tested : s <= index + 1 => s <= index \/ s = index + 1
    BY <1>2
  <2>8. QED
    BY <2>1, <2>5, <2>6, <2>7
<1>11. CASE pc' \in {"off", "queued"}
  BY <1>11 DEF Active
<1>12. CASE ~InitializeRunState /\ ~LoseAll /\ ~Update /\ ~FinishStrategy /\ ~AbortStrategy
            /\ pc' \notin {"off", "queued"}
  <2>1. UNCHANGED <<champions, index, tested, sr>>
    BY <1>12, WhoChangesWhat
  <2>2. /\ Active' => Active
        /\ pc' \in {"judge", "clean", "update"} => pc \in {"judge", "clean", "update"}
    BY <1>12, WhereFrom DEF Recycle, Branch, KeepAll, Clean
  <2>3. pc' \in {"judge", "clean", "update"} /\ index' + 1 \in tested' =>
                    sr'.score = score[index' + 1]
    BY <1>1, <2>1, <2>2 DEF MemoryIsBest
  <2>4. QED
    BY <1>5, <2>1, <2>2, <2>3
<1>13. QED
  BY <1>6, <1>7, <1>8, <1>9, <1>10, <1>11, <1>12

(* The rows of the champions are there and never worse.                      *)
LEMMA RowsNeverWorseKept ==
  ASSUME IInv, TypeOK', Board', MemoryIsSaved', SavedNeverWorse', [Next]_vars,
         BestOnly, ~rewound
  PROVE  RowsNeverWorse'
<1>1. TypeOK /\ Board /\ MemoryIsSaved /\ SavedNeverWorse /\ RowsNeverWorse
  BY DEF IInv, Straight
<1>2. BestOnly' /\ 0 \notin DOMAIN rows'
  BY IdsGrow DEF TypeOK
<1>3. CASE pc' \in {"loop", "test", "judge", "mints"}
  <2>1. \A m \in Metrics : champions'[m].of # 0 => championsRows'[m] \in DOMAIN rows'
    BY <1>2, <1>3 DEF Board, Active, AllSet, NoneSet, Kept, Nobody, NoResult
  <2>2. \A m \in Metrics : champions'[m].of # 0 =>
          /\ Saved'.champions[m].row = championsRows'[m]
          /\ Saved'.champions[m].score = champions'[m].score
    BY <1>3 DEF MemoryIsSaved, Active
  <2>3. QED
    BY <1>3, <2>1, <2>2 DEF RowsNeverWorse, SavedNeverWorse
<1>4. CASE LoseAll
  BY <1>1, <1>4 DEF LoseAll, RowsNeverWorse, board, database
<1>5. CASE Update
  <2>1. /\ \A m \in Metrics : champions'[m] = IF m \in MetricsWon THEN sr ELSE champions[m]
        /\ \A m \in Metrics : championsRows'[m] = IF m \in MetricsWon THEN base ELSE championsRows[m]
        /\ pc = "update"
        /\ DOMAIN rows' = DOMAIN rows
        /\ \A r \in DOMAIN rows \ {base} : rows'[r] = rows[r]
        /\ base \in DOMAIN rows => rows'[base].score = sr.score
    BY <1>5 DEF Update, WriteResult
  <2>2. base \in DOMAIN rows
    BY <1>1, <2>1 DEF Board
  <2>3. \A m \in Metrics : sr.score[m] \in Nat
    BY <1>1, RunAssumption DEF TypeOK, Results, Scores
  <2>4. ASSUME NEW m \in Metrics \ MetricsWon
        PROVE  /\ championsRows[m] # base /\ championsRows[m] \in DOMAIN rows
               /\ rows[championsRows[m]].score[m] >= champions[m].score[m]
    <3>1. champions[m].of # 0
      BY DEF MetricsWon
    <3>2. championsRows[m] # 0 /\ championsRows[m] # base
      BY <1>1, <2>1, <3>1 DEF Board, Active, AllSet, NoneSet, Nobody, NoResult, StillNeeded
    <3>3. championsRows[m] \in DOMAIN rows
      BY <1>1, <2>1, <3>2 DEF Board, Active, Kept
    <3>4. /\ Saved.champions[m].row = championsRows[m]
          /\ Saved.champions[m].score = champions[m].score
      BY <1>1, <2>1, <3>1 DEF MemoryIsSaved, Active
    <3>5. QED
      BY <1>1, <3>2, <3>3, <3>4 DEF SavedNeverWorse
  <2>5. QED
    BY <2>1, <2>2, <2>3, <2>4 DEF RowsNeverWorse
<1>6. CASE pc' = "checkpoint" /\ pc = "checkpoint"
  <2>1. /\ ~InitializeRunState /\ ~LoseAll /\ ~Update /\ ~CreateRow
        /\ ~Branch /\ ~Clean /\ ~SaveMints
    BY <1>6 DEF InitializeRunState, LoseAll, Update, CreateRow, Branch, Clean, SaveMints, NextIsTested
  <2>2. UNCHANGED <<rows, champions, championsRows>>
    BY <1>6, <2>1, WhoChangesWhat
  <2>3. QED
    BY <1>1, <1>6, <2>2 DEF RowsNeverWorse
<1>7. QED
  BY <1>3, <1>4, <1>5, <1>6, WhereFrom DEF RowsNeverWorse

LEMMA StraightKept ==
  ASSUME IInv, TypeOK', Board', [Next]_vars
  PROVE  Straight'
<1>1. SUFFICES ASSUME BestOnly, ~rewound
               PROVE  MemoryIsSaved' /\ SavedNeverWorse' /\ SavedIsBest' /\ MemoryIsBest' /\ RowsNeverWorse'
  BY IdsGrow, WhoChangesWhat DEF Straight
<1>2. QED
  BY <1>1, MemoryIsSavedKept, SavedNeverWorseKept, SavedIsBestKept, MemoryIsBestKept, RowsNeverWorseKept

-----------------------------------------------------------------------------
(* Without faults.                                                           *)

(* The row that a turn inserts.                                              *)
LEMMA NewRow ==
  ASSUME IInv, CreateRow \/ Branch
  PROVE  /\ lastId \in Nat /\ lastId' = lastId + 1
         /\ lastId' \notin DOMAIN rows
         /\ DOMAIN rows' = DOMAIN rows \cup {lastId'}
         /\ \A r \in DOMAIN rows : rows'[r] = rows[r]
         /\ rows'[lastId'].strategy = index + 1 /\ rows'[lastId'].mints = 0
         /\ rows'[lastId'].status = "running"
         /\ \A r \in DOMAIN rows : rows[r].strategy # index + 1
         /\ UNCHANGED <<champions, index, sr>>
         /\ CreateRow =>
              /\ pc = "loop" /\ pc' = "test" /\ current' = lastId'
              /\ BestOnly => NoneSet /\ \A m \in Metrics : championsRows'[m] = lastId'
         /\ Branch =>
              /\ pc = "judge" /\ pc' = "clean" /\ BestOnly /\ AllSet
              /\ base' = lastId' /\ UNCHANGED championsRows
<1>1. TypeOK /\ Jobs /\ Board
  BY DEF IInv
<1>2. index + 1 \in Strategies /\ Last \in 1 .. MaxRuns /\ InsertRow(index + 1)
  <2>1. index < NStrategies /\ index \in Nat /\ NStrategies \in Nat
    BY <1>1, RunAssumption DEF CreateRow, NextIsTested, Branch, Jobs, InTurn, TypeOK
  <2>2. Last \in 1 .. MaxRuns
    BY <1>1, JobTypes DEF CreateRow, NextIsTested, Branch
  <2>3. QED
    BY <2>1, <2>2 DEF Strategies, CreateRow, Branch
<1>3. /\ lastId \in Nat /\ lastId' = lastId + 1
      /\ lastId' \notin DOMAIN rows
      /\ DOMAIN rows' = DOMAIN rows \cup {lastId'}
      /\ \A r \in DOMAIN rows : rows'[r] = rows[r]
      /\ rows'[lastId'].strategy = index + 1 /\ rows'[lastId'].mints = 0
      /\ rows'[lastId'].status = "running"
      /\ \A r \in DOMAIN rows : rows[r].strategy # index + 1
  BY <1>1, <1>2, Inserting
<1>4. CASE CreateRow
  <2>1. /\ pc = "loop" /\ pc' = "test" /\ UNCHANGED <<champions, index, sr>>
    BY <1>4 DEF CreateRow, NextIsTested, turn
  <2>2. BestOnly => NoneSet
    BY <1>1, <1>4, <2>1 DEF Board, Active, AllSet, CreateRow, NeedsRow
  <2>3. BestOnly => \A m \in Metrics : championsRows'[m] = lastId'
    BY <1>4, <2>1, <2>2 DEF CreateRow, NoneSet, InTurn
  <2>4. current' = lastId'
    BY <1>4, <2>3, FirstMetric DEF CreateRow
  <2>5. ~Branch
    BY <2>1 DEF Branch
  <2>6. QED
    BY <1>3, <2>1, <2>2, <2>3, <2>4, <2>5
<1>5. CASE Branch
  <2>1. /\ pc = "judge" /\ pc' = "clean" /\ BestOnly /\ base' = lastId'
        /\ UNCHANGED <<champions, index, sr, championsRows>>
        /\ MetricsWon # Metrics
    BY <1>5 DEF Branch, board, StillNeeded
  <2>2. AllSet
    BY <1>1, <2>1, EmptyBoardIsWon DEF Board, Active, NoneSet
  <2>3. ~CreateRow
    BY <2>1 DEF CreateRow, NextIsTested
  <2>4. QED
    BY <1>3, <2>1, <2>2, <2>3
<1>6. QED BY <1>4, <1>5

(* No fault happens in a step after which there was none.                    *)
LEMMA NoFault ==
  ASSUME IInv, [Next]_vars, faults' = 0
  PROVE  faults = 0 /\ ~rewound /\ ~Throw /\ ~Crash
<1>1. faults \in Nat
  BY DEF IInv, TypeOK
<1>2. ~Throw /\ ~Crash
  BY <1>1 DEF Throw, Crash
<1>3. faults = 0
  <2>1. CASE Fetch \/ Begin \/ MarkFailed \/ LeaveLoop \/ SaveCheckpoint
    BY <2>1 DEF Fetch, Begin, MarkFailed, LeaveLoop, SaveCheckpoint
  <2>2. CASE Subscribe \/ InitializeRunState \/ CreateRow \/ ReuseRows \/ AbortStrategy
    BY <2>2 DEF Subscribe, InitializeRunState, CreateRow, ReuseRows, AbortStrategy
  <2>3. CASE KeepAll \/ LoseAll \/ Recycle \/ Branch \/ DuplicateRow
    BY <2>3 DEF KeepAll, LoseAll, Recycle, Branch, DuplicateRow
  <2>4. CASE Clean \/ Update \/ UpdateRejected \/ SaveMints \/ FinishStrategy \/ Respond
    BY <2>4 DEF Clean, Update, UpdateRejected, SaveMints, FinishStrategy, Respond
  <2>5. CASE Schedule
    BY <1>1, <2>5 DEF Schedule
  <2>6. CASE Commands \/ UNCHANGED vars
    BY <2>6 DEF Commands, Pause, Resume, Abort, vars
  <2>7. QED
    BY <1>2, <2>1, <2>2, <2>3, <2>4, <2>5, <2>6 DEF Next, Work
<1>4. QED
  BY <1>2, <1>3 DEF IInv, Jobs

(* Until it is over, the turn's row is not judged, renamed or given mints.   *)
LEMMA InsertedRowKept ==
  ASSUME IInv, TypeOK', [Next]_vars, faults' = 0
  PROVE  InsertedRowIsNew'
<1>1. /\ TypeOK /\ Board /\ InsertedRowIsNew
      /\ (BestOnly' <=> BestOnly)
  BY NoFault, IdsGrow DEF IInv, Faultless
<1>2. CASE CreateRow \/ Branch
  <2>1. CASE CreateRow
    BY <2>1, NewRow DEF InsertedRowIsNew, TurnRow, Taken
  <2>2. CASE Branch
    BY <2>2, NewRow DEF InsertedRowIsNew, TurnRow, Taken
  <2>3. QED BY <1>2, <2>1, <2>2
<1>3. CASE ReuseRows
  <2>1. pc' = "test" /\ BestOnly /\ champions' = champions /\ pc = "loop"
    BY <1>3 DEF ReuseRows, NeedsRow, NextIsTested, board
  <2>2. champions # Nobody
    BY <1>1, <1>3, <2>1, FirstMetric DEF ReuseRows, NeedsRow, Board, AllSet, NoneSet, Active,
       InTurn, Nobody, NoResult
  <2>3. QED
    BY <1>1, <2>1, <2>2 DEF InsertedRowIsNew, InsertedRow
<1>4. CASE FinishStrategy \/ AbortStrategy
  <2>1. /\ pc = "test" /\ pc' = "judge"
        /\ UNCHANGED <<rows, champions, current, index>>
    BY <1>4 DEF FinishStrategy, AbortStrategy, board, database
  <2>2. QED
    BY <1>1, <2>1 DEF InsertedRowIsNew, InsertedRow, InTurn, TurnRow, Taken
<1>5. CASE KeepAll
  <2>1. /\ pc = "judge" /\ pc' = "update" /\ ~BestOnly /\ base' = current
        /\ UNCHANGED <<rows, index>>
    BY <1>5 DEF KeepAll, database
  <2>2. QED
    BY <1>1, <2>1 DEF InsertedRowIsNew, InsertedRow, InTurn, TurnRow, Taken
<1>6. CASE Recycle
  <2>1. /\ pc = "judge" /\ pc' = "clean" /\ BestOnly /\ base' = SurvivorRow
        /\ UNCHANGED <<rows, index, champions, championsRows>> /\ MetricsWon # {}
    BY <1>6 DEF Recycle, database, board
  <2>2. InsertedRow' => champions = Nobody
    BY <1>1, <2>1, PrimaryIsWon DEF InsertedRow, SurvivorRow
  <2>3. champions = Nobody => base' = current
    BY <1>1, <2>1, PrimaryIsWon DEF Board, Active, AllSet, NoneSet, InTurn, Nobody, NoResult,
       SurvivorRow
  <2>4. QED
    BY <1>1, <2>1, <2>2, <2>3 DEF InsertedRowIsNew, InsertedRow, InTurn, TurnRow, Taken
<1>7. CASE Clean
  <2>1. /\ pc = "clean" /\ pc' = "update" /\ base \notin IdsToDelete
        /\ UNCHANGED <<base, index, champions, championsRows>>
        /\ rows' = [r \in DOMAIN rows \ IdsToDelete |-> rows[r]]
    BY <1>7 DEF Clean, board, turn, IdsToDelete
  <2>2. QED
    BY <1>1, <2>1 DEF InsertedRowIsNew, InsertedRow, InTurn, TurnRow, Taken
<1>8. CASE ~InTurn'
  BY <1>8 DEF InsertedRowIsNew, InsertedRow
<1>9. CASE Commands \/ UNCHANGED vars
  <2>1. UNCHANGED <<pc, rows, base, current, index, champions, championsRows>>
    BY <1>9 DEF Commands, Pause, Resume, Abort, vars, board, turn, database
  <2>2. QED
    BY <1>1, <2>1 DEF InsertedRowIsNew, InsertedRow, InTurn, TurnRow, Taken
<1>10. CASE Fetch \/ Begin \/ Subscribe \/ InitializeRunState \/ LeaveLoop \/ LoseAll \/ DuplicateRow
            \/ Update \/ UpdateRejected \/ SaveCheckpoint
  <2>1. pc' \notin {"test", "judge", "clean", "update"}
    BY <1>10 DEF Fetch, Begin, Subscribe, InitializeRunState, LeaveLoop, LoseAll, DuplicateRow,
       Update, UpdateRejected, SaveCheckpoint
  <2>2. QED
    BY <1>8, <2>1 DEF InTurn
<1>11. CASE SaveMints \/ Respond \/ MarkFailed \/ Schedule
  <2>1. pc' \notin {"test", "judge", "clean", "update"}
    BY <1>11 DEF SaveMints, Respond, MarkFailed, Schedule
  <2>2. QED
    BY <1>8, <2>1 DEF InTurn
<1>12. QED
  BY <1>2, <1>3, <1>4, <1>5, <1>6, <1>7, <1>9, <1>10, <1>11, NoFault DEF Next, Work

(* Champions exist once a metric is lost or the rows of all are reused.      *)
LEMMA FullBoard ==
  ASSUME IInv, BestOnly, InTurn, MetricsWon # Metrics
  PROVE  AllSet /\ champions # Nobody
BY EmptyBoardIsWon, FirstMetric DEF IInv, Board, Active, InTurn, NoneSet, AllSet, Nobody, NoResult

(* A conflict is never about the row that the turn has inserted.             *)
LEMMA ConflictIsOfRecycledRow ==
  ASSUME IInv, faults = 0, UpdateRejected
  PROVE  BestOnly /\ ~InsertedRow
<1>1. /\ pc = "update" /\ UpdateConflicts /\ sr.of = index + 1
      /\ InsertedRowIsNew
  BY DEF UpdateRejected, IInv, Jobs, Faultless
<1>2. ~InsertedRow
  BY <1>1 DEF InsertedRowIsNew, TurnRow, UpdateConflicts, MintsConflict
<1>3. QED
  BY <1>1, <1>2 DEF InsertedRow, InTurn

(* A row that is running is the one of this turn.                            *)
LEMMA OthersAreOverKept ==
  ASSUME IInv, TypeOK', [Next]_vars, faults' = 0
  PROVE  OthersAreOver'
<1>1. /\ TypeOK /\ Board /\ InsertedRowIsNew /\ OthersAreOver
      /\ (BestOnly' <=> BestOnly) /\ faults = 0
  BY NoFault, IdsGrow DEF IInv, Faultless
<1>2. CASE CreateRow
  <2>1. ~InsertedRow /\ pc' = "test"
    BY <1>2, NewRow DEF InsertedRow, InTurn
  <2>2. BestOnly => champions' = Nobody
    BY <1>2, NewRow DEF NoneSet
  <2>3. InsertedRow' /\ TurnRow' = lastId'
    BY <1>1, <1>2, <2>1, <2>2, NewRow DEF InsertedRow, InTurn, TurnRow
  <2>4. QED
    BY <1>1, <1>2, <2>1, <2>3, NewRow DEF OthersAreOver
<1>3. CASE Branch
  <2>1. ~InsertedRow
    BY <1>3, FirstMetric, NewRow DEF InsertedRow, InTurn, AllSet, Nobody, NoResult
  <2>2. \A m \in Metrics : championsRows[m] # lastId'
    BY <1>1, <1>3, NewRow DEF TypeOK
  <2>3. InsertedRow' /\ TurnRow' = lastId'
    BY <1>3, <2>2, NewRow DEF InsertedRow, InTurn, TurnRow
  <2>4. QED
    BY <1>1, <1>3, <2>1, <2>3, NewRow DEF OthersAreOver
<1>4. CASE FinishStrategy \/ AbortStrategy
  <2>1. /\ pc = "test" /\ pc' = "judge"
        /\ UNCHANGED <<rows, champions, current>>
    BY <1>4 DEF FinishStrategy, AbortStrategy, board, database
  <2>2. QED
    BY <1>1, <2>1 DEF OthersAreOver, InsertedRow, InTurn, TurnRow
<1>5. CASE KeepAll
  <2>1. /\ pc = "judge" /\ pc' = "update" /\ ~BestOnly /\ base' = current
        /\ UNCHANGED rows
    BY <1>5 DEF KeepAll, database
  <2>2. QED
    BY <1>1, <2>1 DEF OthersAreOver, InsertedRow, InTurn, TurnRow
<1>6. CASE Recycle
  <2>1. /\ pc = "judge" /\ pc' = "clean" /\ BestOnly /\ base' = SurvivorRow
        /\ UNCHANGED <<rows, champions>> /\ MetricsWon # {}
    BY <1>6 DEF Recycle, database, board
  <2>2. champions = Nobody => base' = current
    BY <1>1, <2>1, PrimaryIsWon DEF Board, Active, AllSet, NoneSet, InTurn, Nobody, NoResult,
       SurvivorRow
  <2>3. QED
    BY <1>1, <2>1, <2>2 DEF OthersAreOver, InsertedRow, InTurn, TurnRow
<1>7. CASE LoseAll \/ DuplicateRow
  <2>1. rows' = rows
    BY <1>7 DEF LoseAll, DuplicateRow, database
  <2>2. pc = "loop" \/ (pc = "judge" /\ BestOnly /\ MetricsWon # Metrics)
    BY <1>7, FirstMetric DEF LoseAll, DuplicateRow, NextIsTested, StillNeeded
  <2>3. ~InsertedRow
    BY <2>2, FullBoard DEF InsertedRow, InTurn
  <2>4. QED
    BY <1>1, <2>1, <2>3 DEF OthersAreOver
<1>8. CASE Clean
  <2>1. /\ pc = "clean" /\ pc' = "update"
        /\ UNCHANGED <<base, champions, championsRows>>
        /\ rows' = [r \in DOMAIN rows \ IdsToDelete |-> rows[r]]
    BY <1>8 DEF Clean, board, turn
  <2>2. QED
    BY <1>1, <2>1 DEF OthersAreOver, InsertedRow, InTurn, TurnRow
<1>9. CASE Update
  <2>1. /\ pc = "update" /\ DOMAIN rows' = DOMAIN rows
        /\ \A r \in DOMAIN rows \ {base} : rows'[r] = rows[r]
        /\ base \in DOMAIN rows => rows'[base].status # "running"
    BY <1>9 DEF Update, WriteResult
  <2>2. QED
    BY <1>1, <2>1 DEF OthersAreOver, TurnRow
<1>10. CASE UpdateRejected
  <2>1. ~InsertedRow /\ rows' = rows
    BY <1>1, <1>10, ConflictIsOfRecycledRow DEF UpdateRejected, database
  <2>2. QED
    BY <1>1, <2>1 DEF OthersAreOver
<1>11. CASE SaveMints
  <2>1. pc = "mints"
    BY <1>11 DEF SaveMints
  <2>2. PICK k \in Metrics :
          \/ rows' = rows
          \/ WriteResult(championsRows[k], "completed", champions[k], TRUE, FALSE)
    BY <1>11 DEF SaveMints
  <2>3. /\ DOMAIN rows' = DOMAIN rows
        /\ \A r \in DOMAIN rows : rows'[r] = rows[r] \/ rows'[r].status = "completed"
    BY <2>2 DEF WriteResult
  <2>4. QED
    BY <1>1, <2>1, <2>3 DEF OthersAreOver, InsertedRow, InTurn
<1>12. CASE Commands \/ UNCHANGED vars
  <2>1. UNCHANGED <<pc, rows, base, current, champions, championsRows>>
    BY <1>12 DEF Commands, Pause, Resume, Abort, vars, board, turn, database
  <2>2. QED
    BY <1>1, <2>1 DEF OthersAreOver, InsertedRow, InTurn, TurnRow
<1>13. CASE Fetch \/ Begin \/ Subscribe \/ InitializeRunState \/ ReuseRows \/ LeaveLoop
            \/ SaveCheckpoint \/ Respond \/ MarkFailed \/ Schedule
  <2>1. pc \notin {"test", "judge", "clean", "update"} /\ rows' = rows
    BY <1>13 DEF Fetch, Begin, Subscribe, InitializeRunState, ReuseRows, NextIsTested, LeaveLoop,
       SaveCheckpoint, Respond, MarkFailed, Schedule, database
  <2>2. QED
    BY <1>1, <2>1 DEF OthersAreOver, InsertedRow, InTurn
<1>14. QED
  BY <1>2, <1>3, <1>4, <1>5, <1>6, <1>7, <1>8, <1>9, <1>10, <1>11, <1>12, <1>13, NoFault
     DEF Next, Work

(* The rows are those of the champions and say what memory says.             *)
LEMMA RowsMatchMemoryKept ==
  ASSUME IInv, TypeOK', [Next]_vars, faults' = 0
  PROVE  RowsMatchMemory'
<1>1. /\ TypeOK /\ Jobs /\ Board /\ RowsMatchMemory /\ RowsMatchSaved
      /\ (BestOnly' <=> BestOnly) /\ faults = 0 /\ ~rewound
  BY NoFault, IdsGrow DEF IInv, Faultless
<1>2. SUFFICES ASSUME BestOnly PROVE RowsMatchMemory'
  BY <1>1 DEF RowsMatchMemory
<1> USE DEF Active, Kept
<1>3. CASE InitializeRunState
  <2>1. CASE pc' = "failing"
    BY <2>1 DEF RowsMatchMemory
  <2>2. CASE pc' # "failing"
    <3>1. /\ pc' = "loop" /\ rows' = rows /\ ~Active
          /\ \A m \in Metrics : championsRows'[m] = Saved.champions[m].row
          /\ \A m \in Metrics :
               IF Saved.champions[m].row # 0
               THEN /\ Saved.champions[m].row \in DOMAIN rows
                    /\ champions'[m].of = rows[Saved.champions[m].row].strategy
                    /\ champions'[m].score = Saved.champions[m].score
               ELSE champions'[m].of = 0
      BY <1>1, <1>2, <1>3, <2>2, BoardOfCheckpoint DEF InitializeRunState, database
    <3>2. /\ \A m \in Metrics : Saved.champions[m].row # 0 =>
               rows[Saved.champions[m].row].score = Saved.champions[m].score
          /\ \A r \in DOMAIN rows : \E m \in Metrics : r = Saved.champions[m].row
      BY <1>1, <1>2, <3>1 DEF RowsMatchSaved
    <3>3. QED
      BY <3>1, <3>2 DEF RowsMatchMemory
  <2>3. QED BY <2>1, <2>2
<1>4. CASE CreateRow
  <2>1. /\ NoneSet /\ pc = "loop" /\ pc' = "test" /\ champions' = champions
        /\ DOMAIN rows' = DOMAIN rows \cup {lastId'}
        /\ \A m \in Metrics : championsRows'[m] = lastId'
    BY <1>2, <1>4, NewRow
  <2>2. DOMAIN rows = {}
    <3>1. 0 \notin DOMAIN rows /\ \A m \in Metrics : championsRows[m] = 0
      BY <1>1, <2>1 DEF NoneSet, InTurn, TypeOK
    <3>2. \A r \in DOMAIN rows : \E m \in Metrics : r = championsRows[m]
      BY <1>1, <1>2, <2>1 DEF RowsMatchMemory
    <3>3. QED
      BY <3>1, <3>2
  <2>3. QED
    BY <2>1, <2>2, FirstMetric DEF RowsMatchMemory, NoneSet, Nobody, NoResult
<1>5. CASE Recycle
  <2>1. /\ UNCHANGED <<rows, champions, championsRows>>
        /\ pc = "judge" /\ pc' = "clean"
    BY <1>5 DEF Recycle, board, database
  <2>2. QED
    BY <1>1, <1>2, <2>1 DEF RowsMatchMemory
<1>6. CASE Branch
  <2>1. /\ UNCHANGED <<champions, championsRows>>
        /\ pc = "judge" /\ pc' = "clean" /\ base' = lastId'
        /\ lastId' \notin DOMAIN rows /\ \A m \in Metrics : championsRows[m] # lastId'
        /\ DOMAIN rows' = DOMAIN rows \cup {lastId'}
        /\ \A r \in DOMAIN rows : rows'[r] = rows[r]
    BY <1>1, <1>6, NewRow DEF TypeOK
  <2>2. QED
    BY <1>1, <1>2, <2>1 DEF RowsMatchMemory
<1>7. CASE Clean
  <2>1. /\ pc = "clean" /\ pc' = "update"
        /\ UNCHANGED <<base, champions, championsRows, sr>>
        /\ rows' = [r \in DOMAIN rows \ IdsToDelete |-> rows[r]]
    BY <1>7 DEF Clean, board, turn
  <2>2. MetricsWon' = MetricsWon
    BY <2>1 DEF MetricsWon
  <2>3. ASSUME NEW r \in DOMAIN rows \ IdsToDelete, r # base
        PROVE  \E m \in Metrics \ MetricsWon : r = championsRows[m]
    <3>1. PICK m \in Metrics : r = championsRows[m]
      BY <1>1, <1>2, <2>1, <2>3 DEF RowsMatchMemory
    <3>2. QED
      BY <2>3, <3>1 DEF IdsToDelete, StillNeeded
  <2>4. QED
    BY <1>1, <1>2, <2>1, <2>2, <2>3 DEF RowsMatchMemory
<1>8. CASE Update
  <2>1. /\ \A m \in Metrics : champions'[m] = IF m \in MetricsWon THEN sr ELSE champions[m]
        /\ \A m \in Metrics : championsRows'[m] = IF m \in MetricsWon THEN base ELSE championsRows[m]
        /\ pc = "update" /\ pc' = "checkpoint"
        /\ DOMAIN rows' = DOMAIN rows
        /\ \A r \in DOMAIN rows \ {base} : rows'[r] = rows[r]
        /\ base \in DOMAIN rows =>
             rows'[base].score = sr.score /\ rows'[base].strategy = sr.of
    BY <1>2, <1>8 DEF Update, WriteResult
  <2>2. MetricsWon # {} /\ MetricsWon \subseteq Metrics /\ base \in DOMAIN rows
        /\ \A m \in Metrics \ MetricsWon : championsRows[m] # base
    BY <1>1, <1>2, <2>1 DEF Board, StillNeeded, MetricsWon
  <2>3. QED
    BY <1>1, <1>2, <2>1, <2>2 DEF RowsMatchMemory
<1>9. CASE SaveMints
  <2>1. pc = "mints" /\ UNCHANGED <<champions, championsRows>>
    BY <1>9 DEF SaveMints, board
  <2>2. PICK k \in Metrics :
          \/ rows' = rows
          \/ WriteResult(championsRows[k], "completed", champions[k], TRUE, FALSE)
    BY <1>9 DEF SaveMints
  <2>3. /\ DOMAIN rows' = DOMAIN rows
        /\ \A r \in DOMAIN rows : rows'[r].strategy = rows[r].strategy
        /\ \A r \in DOMAIN rows :
             rows'[r] = rows[r] \/ (r = championsRows[k] /\ rows'[r].score = champions[k].score)
    BY <2>2 DEF WriteResult
  <2>4. \A m \in Metrics : championsRows[m] = championsRows[k] => champions[m] = champions[k]
    BY <1>1, <2>1 DEF Board
  <2>5. pc' \in {"mints", "failing"}
    BY <1>9 DEF SaveMints
  <2>6. QED
    BY <1>1, <1>2, <2>1, <2>3, <2>4, <2>5 DEF RowsMatchMemory
<1>10. CASE Commands \/ UNCHANGED vars
  <2>1. UNCHANGED <<pc, rows, base, champions, championsRows, sr>>
    BY <1>10 DEF Commands, Pause, Resume, Abort, vars, board, turn, database
  <2>2. MetricsWon' = MetricsWon
    BY <2>1 DEF MetricsWon
  <2>3. QED
    BY <1>1, <1>2, <2>1, <2>2 DEF RowsMatchMemory
<1>11. CASE ReuseRows \/ FinishStrategy \/ AbortStrategy \/ LoseAll \/ LeaveLoop \/ SaveCheckpoint
  <2>1. /\ UNCHANGED <<rows, champions, championsRows>>
        /\ pc \in {"loop", "test", "judge", "checkpoint"}
        /\ pc' \in {"loop", "test", "judge", "checkpoint", "mints"}
    BY <1>11 DEF ReuseRows, NextIsTested, FinishStrategy, AbortStrategy, LoseAll, LeaveLoop,
       SaveCheckpoint, board, database
  <2>2. QED
    BY <1>1, <1>2, <2>1 DEF RowsMatchMemory
<1>12. CASE Fetch \/ Begin \/ Subscribe \/ Schedule \/ Respond \/ MarkFailed \/ DuplicateRow \/ UpdateRejected
  <2>1. ~Active'
    BY <1>12 DEF Fetch, Begin, Subscribe, Schedule, Respond, MarkFailed, DuplicateRow, UpdateRejected
  <2>2. QED
    BY <2>1 DEF RowsMatchMemory
<1>13. CASE KeepAll
  BY <1>2, <1>13 DEF KeepAll
<1>14. QED
  BY <1>3, <1>4, <1>5, <1>6, <1>7, <1>8, <1>9, <1>10, <1>11, <1>12, <1>13, NoFault
     DEF Next, Work

(* What is saved describes the rows, as long as they are all there.          *)
LEMMA RowsMatchSavedKept ==
  ASSUME IInv, TypeOK', [Next]_vars, faults' = 0
  PROVE  RowsMatchSaved'
<1>1. /\ TypeOK /\ Jobs /\ Board /\ RowsMatchMemory /\ RowsMatchSaved
      /\ (BestOnly' <=> BestOnly) /\ faults = 0 /\ ~rewound
  BY NoFault, IdsGrow DEF IInv, Faultless
<1>2. 0 \notin DOMAIN rows
  BY <1>1 DEF TypeOK
<1>3. SUFFICES ASSUME BestOnly, ~Active' PROVE RowsMatchSaved'
  BY <1>1 DEF RowsMatchSaved
<1>4. MemoryIsSaved
  BY <1>1, <1>3 DEF IInv, Straight
<1>5. ~LeaveLoop /\ ~SaveCheckpoint
  BY <1>3 DEF LeaveLoop, SaveCheckpoint, Active
<1>6. Saved' = Saved
  BY <1>5, SavedKept
<1>7. rows' = rows
  <2>1. CASE CreateRow \/ Branch
    BY <1>3, <2>1, NewRow DEF Active
  <2>2. CASE Clean \/ Update
    BY <1>3, <2>2 DEF Clean, Update, Active
  <2>3. CASE SaveMints
    BY <1>3, <2>3 DEF SaveMints, Active
  <2>4. QED
    BY <2>1, <2>2, <2>3, WhoChangesWhat
<1>8. CASE ~Active
  BY <1>1, <1>3, <1>6, <1>7, <1>8 DEF RowsMatchSaved
<1>9. CASE pc \in {"loop", "mints"}
  <2>1. \A m \in Metrics :
          IF champions[m].of # 0
          THEN /\ Saved.champions[m].row = championsRows[m]
               /\ Saved.champions[m].score = champions[m].score
          ELSE Saved.champions[m].row = 0 /\ championsRows[m] = 0
    BY <1>1, <1>2, <1>3, <1>4, <1>9 DEF MemoryIsSaved, Active, Board, AllSet, NoneSet, InTurn, Nobody, NoResult
  <2>2. /\ \A m \in Metrics :
             champions[m].of # 0 /\ championsRows[m] \in DOMAIN rows =>
               rows[championsRows[m]].score = champions[m].score
        /\ \A r \in DOMAIN rows : \E m \in Metrics : r = championsRows[m]
    BY <1>1, <1>3, <1>9 DEF RowsMatchMemory, Active, Kept
  <2>3. QED
    BY <1>1, <1>2, <1>6, <1>7, <2>1, <2>2 DEF RowsMatchSaved
<1>10. CASE (pc = "judge" /\ DuplicateRow) \/ UpdateRejected
  <2>1. AllSet /\ pc \in {"judge", "update"}
        /\ (pc = "update" => \E m \in Metrics : base = championsRows[m])
    <3>1. CASE pc = "judge" /\ DuplicateRow
      <4>1. MetricsWon # Metrics
        BY <3>1 DEF DuplicateRow, NextIsTested, StillNeeded
      <4>2. QED
        BY <1>3, <3>1, <4>1, FullBoard DEF InTurn
    <3>2. CASE UpdateRejected
      <4>1. pc = "update" /\ ~InsertedRow
        BY <1>1, <3>2, ConflictIsOfRecycledRow DEF UpdateRejected
      <4>2. QED
        BY <1>1, <1>3, <4>1 DEF InsertedRow, InTurn, Board, Active, NoneSet
    <3>3. QED BY <1>10, <3>1, <3>2
  <2>2. \A m \in Metrics : /\ Saved.champions[m].row = championsRows[m]
                           /\ Saved.champions[m].score = champions[m].score
    BY <1>4, <2>1 DEF MemoryIsSaved, Active, AllSet
  <2>3. /\ \A m \in Metrics :
             champions[m].of # 0 /\ championsRows[m] \in DOMAIN rows =>
               rows[championsRows[m]].score = champions[m].score
        /\ \A r \in DOMAIN rows : \E m \in Metrics : r = championsRows[m]
    BY <1>1, <1>3, <2>1 DEF RowsMatchMemory, Active, Kept
  <2>4. QED
    BY <1>1, <1>2, <1>6, <1>7, <2>1, <2>2, <2>3 DEF RowsMatchSaved, AllSet
<1>11. Active /\ pc \notin {"loop", "mints"} => (pc = "judge" /\ DuplicateRow) \/ UpdateRejected
  <2> USE DEF Active
  <2>1. CASE CreateRow \/ ReuseRows \/ FinishStrategy \/ AbortStrategy \/ Branch
    BY <1>3, <2>1, NewRow DEF ReuseRows, FinishStrategy, AbortStrategy
  <2>2. CASE KeepAll \/ LoseAll \/ Recycle \/ Clean \/ Update
    BY <1>3, <2>2 DEF KeepAll, LoseAll, Recycle, Clean, Update
  <2>3. CASE DuplicateRow \/ UpdateRejected
    BY <2>3 DEF DuplicateRow, NextIsTested
  <2>4. CASE Fetch \/ Begin \/ Subscribe \/ InitializeRunState \/ Schedule
    BY <2>4 DEF Fetch, Begin, Subscribe, InitializeRunState, Schedule
  <2>5. CASE SaveMints \/ Respond \/ MarkFailed
    BY <2>5 DEF SaveMints, Respond, MarkFailed
  <2>6. CASE Commands \/ UNCHANGED vars
    BY <1>3, <2>6 DEF Commands, Pause, Resume, Abort, vars
  <2>7. QED
    BY <1>5, <2>1, <2>2, <2>3, <2>4, <2>5, <2>6, NoFault DEF Next, Work
<1>12. QED
  BY <1>8, <1>9, <1>10, <1>11

LEMMA FaultlessKept ==
  ASSUME IInv, TypeOK', [Next]_vars
  PROVE  Faultless'
BY InsertedRowKept, OthersAreOverKept, RowsMatchMemoryKept, RowsMatchSavedKept DEF Faultless

(* The first run with 'all', strategy by strategy.                           *)
LEMMA FirstRunKept ==
  ASSUME IInv, TypeOK', [Next]_vars
  PROVE  FirstRunOfAll'
<1>1. SUFFICES ASSUME faults' = 0, ~BestOnly, Last' = 1, pc' \notin {"off", "failing"}
               PROVE  FirstRunOfAll'
  BY IdsGrow DEF FirstRunOfAll
<1>2. /\ TypeOK /\ Jobs /\ Board /\ FirstRunOfAll /\ faults = 0
      /\ lastId \in Nat /\ index \in Nat
  BY <1>1, NoFault, SMTT(30) DEF IInv, TypeOK
<1>3. CASE Schedule
  <2>1. Last = 0 /\ lastId = 0
    BY <1>1, <1>2, <1>3, Scheduling DEF Jobs
  <2>2. pc' = "queued" /\ UNCHANGED <<rows, lastId>>
    BY <1>1, <1>3 DEF Schedule
  <2>3. DOMAIN rows = {}
    <3>1. DOMAIN rows \subseteq 1 .. lastId
      BY <1>2 DEF TypeOK
    <3>2. \A r \in DOMAIN rows : FALSE
      BY <2>1, <3>1
    <3>3. QED BY <3>2
  <2>4. QED
    BY <2>1, <2>2, <2>3 DEF FirstRunOfAll, InTurn, Active
<1>4. ~Schedule => Last = 1
  BY <1>1, RunsKept, CheckpointWritten
<1> DEFINE Known ==
      /\ lastId = (IF InTurn THEN index + 1 ELSE IF Active THEN index ELSE 0)
      /\ DOMAIN rows = 1 .. lastId
      /\ \A r \in 1 .. lastId : rows[r].strategy = r
      /\ InTurn => TurnRow = lastId /\ rows[lastId].status # "completed"
      /\ pc \in {"judge", "update"} => index + 1 \in tested \/ aborted
      /\ \A r \in DOMAIN rows :
           rows[r].status = "completed" => rows[r].strategy \in tested
<1>5. ASSUME ~Schedule, pc \notin {"off", "failing"}
      PROVE  Known
  BY <1>1, <1>2, <1>4, <1>5 DEF FirstRunOfAll
<1>6. SUFFICES ASSUME ~Schedule PROVE Known'
  BY <1>3 DEF FirstRunOfAll
<1>7. CASE Fetch \/ Begin \/ Subscribe
  <2>1. /\ UNCHANGED <<rows, lastId, tested>>
        /\ pc \in {"queued", "fetched", "starting"} /\ pc' \in {"fetched", "starting", "init"}
    BY <1>7 DEF Fetch, Begin, Subscribe, history, database
  <2>2. QED
    BY <1>5, <1>6, <2>1 DEF InTurn, Active
<1>8. CASE InitializeRunState
  <2>1. Last > 0 /\ runs[Last].from = NoCheckpoint
    <3>1. Last > 0
      BY <1>2, <1>8, JobTypes DEF InitializeRunState
    <3>2. WellFormed(runs[Last].from)
      BY <3>1 DEF IInv, CheckpointsWellFormed
    <3>3. QED
      BY <1>1, <3>1, <3>2 DEF WellFormed
  <2>2. /\ UNCHANGED <<rows, lastId, tested>> /\ pc = "init" /\ pc' = "loop" /\ index' = 0
    BY <1>1, <1>8, <2>1 DEF InitializeRunState, history, database, NoCheckpoint
  <2>3. QED
    BY <1>5, <1>6, <2>2 DEF InTurn, Active
<1>9. CASE CreateRow
  <2>1. pc = "loop" /\ pc' = "test" /\ UNCHANGED <<index, tested>> /\ current' = lastId'
    BY <1>1, <1>9 DEF CreateRow, NextIsTested, history
  <2>2. /\ lastId = index /\ DOMAIN rows = 1 .. lastId
        /\ \A r \in 1 .. lastId : rows[r].strategy = r
        /\ \A r \in DOMAIN rows :
             rows[r].status = "completed" => rows[r].strategy \in tested
    BY <1>5, <1>6, <2>1 DEF InTurn, Active
  <2>3. DOMAIN rows' = 1 .. lastId' /\ lastId' = index + 1
    BY <1>2, <1>9, <2>2, NewRow
  <2>4. \A r \in 1 .. lastId' : r = lastId' \/ r \in 1 .. lastId
    BY <1>2, <2>2, <2>3
  <2>5. QED
    BY <1>9, <2>1, <2>2, <2>3, <2>4, NewRow DEF InTurn, Active, TurnRow
<1>10. CASE FinishStrategy \/ AbortStrategy
  <2>1. /\ UNCHANGED <<rows, lastId, index, current, aborted>>
        /\ pc = "test" /\ pc' = "judge"
        /\ \/ tested' = tested \cup {index + 1}
           \/ aborted /\ tested' = tested \ {index + 1}
    BY <1>10 DEF FinishStrategy, AbortStrategy, database, flags
  <2>2. Known /\ lastId = index + 1
    BY <1>5, <1>6, <2>1 DEF InTurn
  <2>3. \A r \in DOMAIN rows : rows[r].status = "completed" => r # lastId
    BY <2>1, <2>2 DEF InTurn
  <2>4. \A r \in DOMAIN rows :
          rows[r].status = "completed" => rows[r].strategy \in tested'
    BY <2>1, <2>2, <2>3
  <2>5. QED
    BY <2>1, <2>2, <2>4 DEF InTurn, TurnRow
<1>11. CASE KeepAll
  <2>1. /\ UNCHANGED <<rows, lastId, index, aborted, tested>> /\ base' = current
        /\ pc = "judge" /\ pc' = "update"
    BY <1>11 DEF KeepAll, database, flags, history
  <2>2. QED
    BY <1>5, <1>6, <2>1 DEF InTurn, TurnRow
<1>12. CASE Update
  <2>1. /\ UNCHANGED <<lastId, tested>> /\ index' = index + 1
        /\ pc = "update" /\ pc' = "loop"
        /\ DOMAIN rows' = DOMAIN rows
        /\ \A r \in DOMAIN rows \ {base} : rows'[r] = rows[r]
        /\ base \in DOMAIN rows =>
             /\ rows'[base].strategy = rows[base].strategy
             /\ rows'[base].status = IF aborted THEN "aborted" ELSE "completed"
    BY <1>1, <1>12 DEF Update, WriteResult, history
  <2>2. Known /\ base = lastId /\ lastId = index + 1 /\ lastId \in DOMAIN rows
    BY <1>2, <1>5, <1>6, <2>1 DEF InTurn, TurnRow
  <2>3. QED
    BY <2>1, <2>2 DEF InTurn, Active
<1>13. CASE LeaveLoop
  <2>1. /\ UNCHANGED <<rows, lastId, index, tested>>
        /\ pc = "loop" /\ pc' = "mints"
    BY <1>13 DEF LeaveLoop, history
  <2>2. QED
    BY <1>5, <1>6, <2>1 DEF InTurn, Active
<1>14. CASE Commands \/ UNCHANGED vars
  <2>1. UNCHANGED <<rows, lastId, index, tested, pc, current, base>>
    BY <1>14 DEF Commands, Pause, Resume, Abort, vars, database, history, turn
  <2>2. aborted => aborted'
    BY <1>14, Zenon DEF Commands, Pause, Resume, Abort, vars, flags
  <2>3. Known
    BY <1>1, <1>5, <1>6, <2>1
  <2>4. QED
    BY <2>1, <2>2, <2>3 DEF InTurn, Active, TurnRow
<1>15. ~ReuseRows /\ ~LoseAll /\ ~Recycle /\ ~Branch /\ ~Clean /\ ~SaveCheckpoint
  BY <1>1, <1>2 DEF ReuseRows, NeedsRow, LoseAll, Recycle, Branch, Clean, SaveCheckpoint, Jobs
<1>16. ~SaveMints
  <2>1. \A m \in Metrics : championsRows[m] = 0
    BY <1>1, <1>2 DEF Board, NoRows
  <2>2. QED
    <3>1. left \subseteq 1 .. lastId
      BY <1>2 DEF TypeOK
    <3>2. SaveMints => \E m \in Metrics : championsRows[m] \in left
      BY DEF SaveMints
    <3>3. QED
      BY <2>1, <3>1, <3>2
<1>17. ~DuplicateRow /\ ~UpdateRejected /\ ~Respond /\ ~MarkFailed
  BY <1>1 DEF DuplicateRow, UpdateRejected, Respond, MarkFailed
<1>18. QED
  BY <1>1, <1>6, <1>7, <1>8, <1>9, <1>10, <1>11, <1>12, <1>13, <1>14, <1>15, <1>16, <1>17,
     NoFault DEF Next, Work

-----------------------------------------------------------------------------
LEMMA Beginnings == ASSUME Init PROVE IInv
<1> USE RunAssumption, NothingTypes
<1>1. /\ Last = 0 /\ lastId = 0 /\ tested = {} /\ pc = "off" /\ DOMAIN rows = {}
      /\ champions = Nobody /\ championsRows = NoRows /\ ~rewound /\ faults = 0
  BY DEF Init, Last
<1>2. TypeOK
  <2>1. runs \in Seq(RunRows)
    BY DEF Init
  <2>2. /\ rewound \in BOOLEAN /\ paused \in BOOLEAN /\ aborted \in BOOLEAN
    BY DEF Init
  <2>3. NoRows \in [Metrics -> 0 .. lastId]
    BY <1>1 DEF NoRows
  <2>4. QED
    BY <1>1, <2>1, <2>2, <2>3 DEF Init, TypeOK, RunRows, Steps
<1>3. Jobs
  BY <1>1 DEF Jobs, Idle, InTurn
<1>4. CheckpointsWellFormed
  BY <1>1 DEF CheckpointsWellFormed
<1>5. Board
  BY <1>1 DEF Board, Active
<1>6. Straight
  <2>1. Saved = NoCheckpoint /\ \A m \in Metrics : Saved.champions[m].row = 0
    BY <1>1 DEF Saved, NoCheckpoint, NoEntry
  <2>2. QED
    BY <1>1, <2>1 DEF Straight, MemoryIsSaved, SavedNeverWorse, SavedIsBest, MemoryIsBest,
       RowsNeverWorse, Active
<1>7. Faultless
  <2>1. Saved = NoCheckpoint /\ \A m \in Metrics : Saved.champions[m].row = 0
    BY <1>1 DEF Saved, NoCheckpoint, NoEntry
  <2>2. QED
    BY <1>1, <2>1 DEF Faultless, InsertedRowIsNew, InsertedRow, OthersAreOver, RowsMatchMemory,
       RowsMatchSaved, InTurn, Active
<1>8. FirstRunOfAll
  BY <1>1 DEF FirstRunOfAll
<1>9. QED
  BY <1>2, <1>3, <1>4, <1>5, <1>6, <1>7, <1>8 DEF IInv

LEMMA StepKeepsIInv == ASSUME IInv, [Next]_vars PROVE IInv'
<1>1. TypeOK'
  BY TypesKept DEF IInv
<1>2. Jobs' /\ CheckpointsWellFormed'
  BY <1>1, JobsKept, CheckpointsKept
<1>3. Board'
  BY <1>1, NoChampionsWithAll, BoardKept
<1>4. Straight' /\ Faultless' /\ FirstRunOfAll'
  BY <1>1, <1>3, StraightKept, FaultlessKept, FirstRunKept
<1>5. QED
  BY <1>1, <1>2, <1>3, <1>4 DEF IInv

LEMMA Invariance == Spec => []IInv
BY Beginnings, StepKeepsIInv, PTL DEF Spec

-----------------------------------------------------------------------------
(* TypeOK, for any metrics, strategies, scores, settings, runs and faults.   *)
THEOREM TypesHold == Spec => []TypeOK
<1>1. IInv => TypeOK
  BY DEF IInv
<1>2. QED BY <1>1, Invariance, PTL

(* RowsHoldChampions: without faults each champion's row is in the database  *)
(* and holds that champion and its score, whatever was recycled, branched    *)
(* or deleted, in any number of runs that resume one another.                *)
THEOREM RowsOfChampions == Spec => []RowsHoldChampions
<1>1. IInv => RowsHoldChampions
  <2>1. SUFFICES ASSUME IInv, faults = 0, NEW m \in Metrics, champions[m].of # 0,
                        pc \in {"loop", "test", "judge", "checkpoint", "mints"}
                 PROVE  /\ championsRows[m] \in DOMAIN rows
                        /\ rows[championsRows[m]].strategy = champions[m].of
                        /\ rows[championsRows[m]].score = champions[m].score
    BY DEF RowsHoldChampions
  <2>2. BestOnly /\ Board /\ RowsMatchMemory /\ Active
    BY <2>1 DEF IInv, Board, Faultless, Nobody, NoResult, Active
  <2>3. championsRows[m] # 0
    BY <2>1, <2>2 DEF Board, AllSet, NoneSet, Nobody, NoResult
  <2>4. championsRows[m] \in DOMAIN rows
    BY <2>1, <2>2, <2>3 DEF Board, Kept
  <2>5. QED
    BY <2>1, <2>2, <2>4 DEF RowsMatchMemory
<1>2. QED BY <1>1, Invariance, PTL

(* RowsNeverWorse: after any crashes and rejected calls the row of each      *)
(* champion is there and no worse than what is known of the champion, unless *)
(* a job was taken again behind the checkpoint that it had saved.            *)
THEOREM RowsSurviveFaults == Spec => []RowsNeverWorse
<1>1. IInv => RowsNeverWorse
  <2>1. SUFFICES ASSUME IInv, ~BestOnly PROVE RowsNeverWorse
    BY DEF IInv, Straight, RowsNeverWorse
  <2>2. champions = Nobody
    BY <2>1 DEF IInv, Board
  <2>3. QED
    BY <2>2 DEF RowsNeverWorse, Nobody, NoResult
<1>2. QED BY <1>1, Invariance, PTL

(* ChampionsAreBest: no strategy that was tested completely, in this run or  *)
(* in those it resumes, beats a champion in the metric it leads.             *)
THEOREM ChampionsBeatAll == Spec => []ChampionsAreBest
<1>1. IInv => ChampionsAreBest
  BY DEF IInv, Straight, MemoryIsBest, ChampionsAreBest, Active
<1>2. QED BY <1>1, Invariance, PTL

(* NoOrphanRows: without faults 'best_only' keeps the rows of the champions  *)
(* and no other.                                                             *)
THEOREM OnlyChampionsKept == Spec => []NoOrphanRows
<1>1. IInv => NoOrphanRows
  <2>1. SUFFICES ASSUME IInv, BestOnly, faults = 0, pc \in {"loop", "checkpoint", "mints"}
                 PROVE  DOMAIN rows = {championsRows[m] : m \in Metrics} \ {0}
    BY DEF NoOrphanRows
  <2>2. 0 \notin DOMAIN rows
    BY <2>1 DEF IInv, TypeOK
  <2>3. \A m \in Metrics : championsRows[m] # 0 => championsRows[m] \in DOMAIN rows
    BY <2>1 DEF IInv, Board, Active, Kept
  <2>4. \A r \in DOMAIN rows : \E m \in Metrics : r = championsRows[m]
    BY <2>1 DEF IInv, Faultless, RowsMatchMemory, Active, Kept
  <2>5. QED
    BY <2>2, <2>3, <2>4
<1>2. QED BY <1>1, Invariance, PTL

(* OneRowPerStrategy: without faults the first run of 'all' has one row per  *)
(* strategy behind the loop, whose status tells whether its test was cut     *)
(* short.                                                                    *)
THEOREM RowPerStrategy == Spec => []OneRowPerStrategy
<1>1. IInv => OneRowPerStrategy
  <2>1. SUFFICES ASSUME IInv, ~BestOnly, faults = 0, Last = 1, pc \in {"loop", "mints"}
                 PROVE  /\ {rows[r].strategy : r \in DOMAIN rows} = 1 .. index
                        /\ Cardinality(DOMAIN rows) = index
                        /\ \A r \in DOMAIN rows :
                             rows[r].status = "completed" => rows[r].strategy \in tested
    BY DEF OneRowPerStrategy
  <2>2. /\ lastId = index /\ DOMAIN rows = 1 .. index
        /\ \A r \in 1 .. index : rows[r].strategy = r
        /\ \A r \in DOMAIN rows :
             rows[r].status = "completed" => rows[r].strategy \in tested
    BY <2>1 DEF IInv, FirstRunOfAll, InTurn, Active
  <2>3. Cardinality(1 .. index) = index
    <3>1. index \in Nat
      BY <2>1 DEF IInv, TypeOK
    <3>2. Cardinality(1 .. index) = IF 1 > index THEN 0 ELSE index - 1 + 1
      BY <3>1, FS_Interval
    <3>3. QED BY <3>1, <3>2
  <2>4. QED
    BY <2>2, <2>3
<1>2. QED BY <1>1, Invariance, PTL
=============================================================================
