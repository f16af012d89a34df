------------------------ MODULE BacktestCancel_proofs ------------------------
(***************************************************************************)
(* Proofs of the safety properties of BacktestCancel.  Every step but the  *)
(* server's timer is a step of BacktestRun or none of it; the timer only   *)
(* turns "running" into "aborted", which the invariant of BacktestRun      *)
(* never relies on.  So that invariant holds here too, and what is added   *)
(* to it is about the status of runs: a cancelled run is marked as running *)
(* only by a job that had read it as pending before (ReadBefore).          *)
(***************************************************************************)
EXTENDS BacktestCancel, BacktestRun_proofs

(* The server waits for a run that there is.                                 *)
Server ==
  /\ target \in 0 .. Last
  /\ rpc \in {"idle", "pending", "answered", "timedOut"}
  /\ heard \in BOOLEAN
  /\ cancelled \subseteq 1 .. Last
  /\ overtaken \subseteq cancelled
  /\ rpc = "pending" => target \in 1 .. Last

(* Once the loop is left the status of the run is final.                     *)
LeftIsOver == pc = "mints" => runs[Last].status \in {"completed", "aborted"}

(* A job that is about to mark a cancelled run has read it before that.      *)
ReadBefore ==
  pc = "fetched" /\ found = "pending" /\ Last \in cancelled => Last \in overtaken

CIInv == IInv /\ Server /\ LeftIsOver /\ ReadBefore /\ CancelledRunsSettled

-----------------------------------------------------------------------------
(* Every step but the timer's is one of the worker or leaves it alone.       *)
LEMMA WorkerOrTimer == ASSUME [CNext]_cvars PROVE [Next]_vars \/ Timeout
<1>1. CASE (Schedule \/ CWork \/ FinishStrategy \/ Pause \/ Resume \/ Throw) /\ UNCHANGED client
  BY <1>1 DEF CWork, Next, Work, Commands
<1>2. CASE Crash /\ heard' = FALSE /\ UNCHANGED <<target, rpc, cancelled, overtaken>>
  BY <1>2 DEF Next
<1>3. CASE Failed \/ Answer
  BY <1>3 DEF Failed, Answer, Next, Work
<1>4. CASE Cancel
  BY <1>4 DEF Cancel, Next, Commands
<1>5. CASE UNCHANGED cvars
  BY <1>5 DEF cvars
<1>6. QED
  BY <1>1, <1>2, <1>3, <1>4, <1>5 DEF CNext

(* What the timer does.                                                      *)
LEMMA Timing ==
  ASSUME CIInv, Timeout
  PROVE  /\ Last' = Last /\ runs' \in Seq(RunRows)
         /\ \A i \in 1 .. Last : /\ runs'[i].from = runs[i].from
                                 /\ runs'[i].checkpoint = runs[i].checkpoint
                                 /\ runs'[i].status = runs[i].status \/ runs'[i].status = "aborted"
         /\ runs'[target].status = "aborted" /\ target \in 1 .. Last
         /\ DOMAIN rows' = DOMAIN rows
         /\ \A r \in DOMAIN rows :
              /\ rows'[r] \in Rows
              /\ rows'[r].strategy = rows[r].strategy /\ rows'[r].score = rows[r].score
              /\ rows'[r].mints = rows[r].mints
              /\ rows'[r].status = rows[r].status \/ rows'[r].status = "aborted"
         /\ UNCHANGED <<history, lastId, pc, faults, flags, index, current, board, turn, left>>
<1>1. TypeOK /\ target \in 1 .. Last
  BY DEF CIInv, IInv, Server, Timeout
<1>2. runs \in Seq(RunRows) /\ target \in DOMAIN runs /\ DOMAIN runs = 1 .. Last
  BY <1>1 DEF TypeOK, RunRows, Last
<1>3. runs' = [runs EXCEPT ![target].status = "aborted"]
  BY DEF Timeout, AbortInDatabase
<1>4. \A i \in DOMAIN runs : runs[i] \in RunRows
  <2>1. runs \in Seq(RunRows)
    BY <1>2
  <2>2. QED BY <2>1
<1>5. /\ DOMAIN runs' = DOMAIN runs
      /\ \A i \in DOMAIN runs \ {target} : runs'[i] = runs[i]
      /\ runs'[target] = [runs[target] EXCEPT !.status = "aborted"]
  BY <1>2, <1>3
<1>6. \A i \in DOMAIN runs :
        /\ runs'[i] \in RunRows
        /\ runs'[i].from = runs[i].from
        /\ runs'[i].checkpoint = runs[i].checkpoint
        /\ runs'[i].status = runs[i].status \/ runs'[i].status = "aborted"
  BY <1>2, <1>4, <1>5 DEF RunRows
<1>7. runs'[target].status = "aborted"
  BY <1>2, <1>4, <1>5 DEF RunRows
<1>8. Last' = Last /\ runs' \in Seq(RunRows)
  <2>1. Len(runs) \in Nat /\ DOMAIN runs = 1 .. Len(runs)
    BY <1>2
  <2>2. runs' = [i \in 1 .. Len(runs) |-> runs'[i]]
    BY <1>3, <2>1
  <2>3. QED
    BY <1>6, <2>1, <2>2 DEF Last
<1>9. /\ DOMAIN rows' = DOMAIN rows
      /\ \A r \in DOMAIN rows :
              /\ rows'[r] \in Rows
              /\ rows'[r].strategy = rows[r].strategy /\ rows'[r].score = rows[r].score
              /\ rows'[r].mints = rows[r].mints
              /\ rows'[r].status = rows[r].status \/ rows'[r].status = "aborted"
  <2>1. \A r \in DOMAIN rows : rows[r] \in Rows
    BY <1>1 DEF TypeOK
  <2>2. rows' = [r \in DOMAIN rows |->
                IF rows[r].run = target /\ rows[r].status = "running"
                THEN [rows[r] EXCEPT !.status = "aborted"] ELSE rows[r]]
    BY DEF Timeout, AbortInDatabase
  <2>3. QED
    BY <2>1, <2>2 DEF Rows, RowStatus
<1>10. UNCHANGED <<history, lastId, pc, faults, flags, index, current, board, turn, left>>
  BY DEF Timeout
<1>11. QED
  BY <1>1, <1>2, <1>6, <1>7, <1>8, <1>9, <1>10

(* The timer breaks nothing that is known of the worker.                     *)
LEMMA TimerKeepsIInv == ASSUME CIInv, Timeout PROVE IInv'
<1>1. IInv
  BY DEF CIInv
<1> USE DEF history, flags, board, turn, BestOnly
<1>2. Last' = Last /\ Last \in Nat
      /\ (Last > 0 => /\ runs'[Last].from = runs[Last].from
                      /\ runs'[Last].checkpoint = runs[Last].checkpoint)
  <2>1. Last \in Nat
    BY <1>1 DEF IInv, TypeOK, Last
  <2>2. QED
    BY <2>1, Timing
<1>3. Saved' = Saved
  BY <1>2 DEF Saved, Latest
<1>4. /\ UNCHANGED <<settings, score, tested, rewound, lastId, pc, faults, paused, aborted, request,
                     found, index, current, champions, championsRows, sr, base, left>>
      /\ DOMAIN rows' = DOMAIN rows
      /\ \A r \in DOMAIN rows :
              /\ rows'[r] \in Rows
              /\ rows'[r].strategy = rows[r].strategy /\ rows'[r].score = rows[r].score
              /\ rows'[r].mints = rows[r].mints
              /\ rows'[r].status = rows[r].status \/ rows'[r].status = "aborted"
  BY Timing
<1>5. MetricsWon' = MetricsWon
  BY <1>4 DEF MetricsWon
<1>6. TypeOK'
  <2>1. runs' \in Seq(RunRows)
    BY Timing
  <2>2. QED
    BY <1>1, <1>4, <2>1 DEF IInv, TypeOK, RunRows
<1>7. Jobs'
  BY <1>1, <1>2, <1>4 DEF IInv, Jobs, Idle, InTurn
<1>8. CheckpointsWellFormed'
  <2> DEFINE StaysWellFormed(c) ==
               c = NoCheckpoint \/
               /\ BestOnly' /\ c.index > 0
               /\ \A m \in Metrics : c.champions[m].row \in 1 .. lastId'
               /\ \A m, k \in Metrics : c.champions[m].row = c.champions[k].row =>
                                          c.champions[m].score = c.champions[k].score
  <2>1. \A c : WellFormed(c) => StaysWellFormed(c)
    BY <1>4 DEF WellFormed
  <2>2. SUFFICES Last' > 0 => StaysWellFormed(runs'[Last'].from)
                              /\ StaysWellFormed(runs'[Last'].checkpoint)
    BY DEF CheckpointsWellFormed, WellFormed
  <2> HIDE DEF StaysWellFormed
  <2>3. QED
    BY <1>1, <1>2, <2>1 DEF IInv, CheckpointsWellFormed
<1>9. Board'
  BY <1>1, <1>4, <1>5 DEF IInv, Board, Active, AllSet, NoneSet, InTurn, Kept, StillNeeded
<1>10. Straight'
  <2>1. SUFFICES ASSUME BestOnly, ~rewound
                 PROVE  MemoryIsSaved' /\ SavedNeverWorse' /\ SavedIsBest' /\ MemoryIsBest'
                        /\ RowsNeverWorse'
    BY <1>4 DEF Straight
  <2>2. MemoryIsSaved /\ SavedNeverWorse /\ SavedIsBest /\ MemoryIsBest /\ RowsNeverWorse
    BY <1>1, <2>1 DEF IInv, Straight
  <2>3. MemoryIsSaved' /\ SavedIsBest' /\ MemoryIsBest'
    BY <1>3, <1>4, <2>2 DEF MemoryIsSaved, SavedIsBest, MemoryIsBest, Active
  <2>4. SavedNeverWorse'
    BY <1>3, <1>4, <2>2 DEF SavedNeverWorse
  <2>5. RowsNeverWorse'
    BY <1>4, <2>2 DEF RowsNeverWorse
  <2>6. QED
    BY <2>3, <2>4, <2>5
<1>11. Faultless'
  <2>1. SUFFICES ASSUME faults = 0
                 PROVE  InsertedRowIsNew' /\ OthersAreOver' /\ RowsMatchMemory' /\ RowsMatchSaved'
    BY <1>4 DEF Faultless
  <2>2. InsertedRowIsNew /\ OthersAreOver /\ RowsMatchMemory /\ RowsMatchSaved
    BY <1>1, <2>1 DEF IInv, Faultless
  <2>3. InsertedRowIsNew' /\ OthersAreOver'
    BY <1>4, <2>2 DEF InsertedRowIsNew, OthersAreOver, InsertedRow, InTurn, TurnRow, Taken
  <2>4. RowsMatchMemory'
    BY <1>4, <1>5, <2>2 DEF RowsMatchMemory, Active, Kept
  <2>5. RowsMatchSaved'
    BY <1>3, <1>4, <2>2 DEF RowsMatchSaved, Active
  <2>6. QED
    BY <2>3, <2>4, <2>5
<1>12. FirstRunOfAll'
  <2>1. lastId \in Nat /\ index \in Nat
    BY <1>1 DEF IInv, TypeOK
  <2>2. SUFFICES ASSUME faults = 0, ~BestOnly, Last = 1, pc \notin {"off", "failing"}
                 PROVE  FirstRunOfAll'
    BY <1>2, <1>4 DEF FirstRunOfAll
  <2>3. /\ lastId = (IF InTurn THEN index + 1 ELSE IF Active THEN index ELSE 0)
        /\ DOMAIN rows = 1 .. lastId
        /\ \A r \in 1 .. lastId : rows[r].strategy = r
        /\ InTurn => TurnRow = lastId /\ rows[lastId].status # "completed"
        /\ pc \in {"judge", "update"} => index + 1 \in tested \/ aborted
        /\ \A r \in DOMAIN rows :
             rows[r].status = "completed" => rows[r].strategy \in tested
    BY <1>1, <2>2 DEF IInv, FirstRunOfAll
  <2>4. InTurn => lastId \in DOMAIN rows
    BY <2>1, <2>3
  <2>5. QED
    BY <1>4, <2>3, <2>4 DEF FirstRunOfAll, InTurn, Active, TurnRow
<1>13. QED
  BY <1>6, <1>7, <1>8, <1>9, <1>10, <1>11, <1>12 DEF IInv

-----------------------------------------------------------------------------
(* The status of runs.                                                       *)

(* The status a step of the worker gives to a run.  Only a run that was read *)
(* as pending is marked as running, and only the last one.                   *)
LEMMA StatusOfRuns ==
  ASSUME IInv, TypeOK', [Next]_vars
  PROVE  /\ Last' >= Last
         /\ \A r \in 1 .. Last :
              \/ runs'[r].status = runs[r].status
              \/ runs'[r].status \in {"completed", "aborted", "failed"}
              \/ Begin /\ r = Last /\ found = "pending" /\ runs'[r].status = "running"
         /\ pc' = "mints" =>
              \/ LeaveLoop /\ runs'[Last'].status \in {"completed", "aborted"}
              \/ pc = "mints" /\ runs' = runs
<1>1. TypeOK /\ runs \in Seq(RunRows) /\ Last \in Nat /\ DOMAIN runs = 1 .. Last
  BY DEF IInv, TypeOK, RunRows, Last
<1>2. CASE Schedule
  <2>1. /\ Last' = Last + 1
        /\ \A r \in 1 .. Last : runs'[r] = runs[r]
    BY <1>1, <1>2, Scheduling DEF Schedule, Last
  <2>2. pc' # "mints"
    BY <1>2 DEF Schedule
  <2>3. QED
    BY <1>1, <2>1, <2>2
<1>3. CASE LeaveLoop \/ SaveCheckpoint \/ MarkFailed
  <2>1. Last > 0
    BY <1>1, <1>3, JobTypes DEF IInv, LeaveLoop, SaveCheckpoint, MarkFailed
  <2>2. PICK status, c :
          /\ runs' = [runs EXCEPT ![Last].status = status, ![Last].checkpoint = c]
          /\ status = runs[Last].status \/ status \in {"completed", "aborted", "failed"}
          /\ LeaveLoop => status \in {"completed", "aborted"}
    BY <1>3 DEF LeaveLoop, SaveCheckpoint, MarkFailed, SetRun
  <2>3. runs[Last] \in RunRows /\ Last \in DOMAIN runs
    BY <1>1, <2>1, LastRunType
  <2>4. /\ DOMAIN runs' = DOMAIN runs
        /\ \A r \in DOMAIN runs \ {Last} : runs'[r] = runs[r]
        /\ runs'[Last] = [runs[Last] EXCEPT !.status = status, !.checkpoint = c]
    BY <2>2, <2>3
  <2>5. runs'[Last].status = status
    BY <2>3, <2>4 DEF RunRows
  <2>6. Last' = Last
    BY <1>3, <2>1, CheckpointWritten, SettingRun, LastRunType, RunsKept, <1>1
       DEF Schedule, LeaveLoop, SaveCheckpoint, MarkFailed
  <2>7. pc' = "mints" => LeaveLoop
    BY <1>3 DEF LeaveLoop, SaveCheckpoint, MarkFailed
  <2>8. QED
    BY <1>1, <2>2, <2>4, <2>5, <2>6, <2>7
<1>4. CASE Begin
  <2>1. Last > 0 /\ Last' = Last
    BY <1>1, <1>4, JobTypes, Beginning DEF IInv, Begin
  <2>2. Last \in DOMAIN runs /\ runs[Last] \in RunRows
    BY <1>1, <2>1, LastRunType
  <2>3. /\ \A r \in DOMAIN runs \ {Last} : runs'[r] = runs[r]
        /\ found # "pending" => runs'[Last].status = runs[Last].status
        /\ runs'[Last].status = runs[Last].status \/ runs'[Last].status = "running"
    BY <1>4, <2>2 DEF Begin, MarksRunning, RunRows
  <2>4. pc' # "mints"
    BY <1>4 DEF Begin
  <2>5. QED
    BY <1>1, <1>4, <2>1, <2>3, <2>4
<1>5. CASE ~Schedule /\ ~LeaveLoop /\ ~SaveCheckpoint /\ ~MarkFailed /\ ~Begin
  <2>1. runs' = runs
    <3> USE DEF database
    <3>1. CASE Fetch \/ Subscribe \/ InitializeRunState \/ CreateRow \/ ReuseRows \/ AbortStrategy
      BY <3>1 DEF Fetch, Subscribe, InitializeRunState, CreateRow, ReuseRows, AbortStrategy
    <3>2. CASE KeepAll \/ LoseAll \/ Recycle \/ Branch \/ DuplicateRow
      BY <3>2 DEF KeepAll, LoseAll, Recycle, Branch, DuplicateRow
    <3>3. CASE Clean \/ Update \/ UpdateRejected \/ SaveMints \/ FinishStrategy \/ Respond
      BY <3>3 DEF Clean, Update, UpdateRejected, SaveMints, FinishStrategy, Respond
    <3>4. CASE Commands \/ Throw \/ Crash \/ UNCHANGED vars
      BY <3>4 DEF Commands, Pause, Resume, Abort, Throw, Crash, vars
    <3>5. QED
      BY <1>5, <3>1, <3>2, <3>3, <3>4 DEF Next, Work
  <2>2. pc' = "mints" => pc = "mints"
    BY <1>5, WhereFrom
  <2>3. QED
    BY <1>1, <2>1, <2>2 DEF Last
<1>6. QED
  BY <1>2, <1>3, <1>4, <1>5

(* A job works on until it answers, is marked as failed or has a fault, and  *)
(* faults are not forgotten.                                                 *)
LEMMA JobGoesOn ==
  ASSUME IInv, TypeOK', [Next]_vars, faults' = 0, pc \in Steps
  PROVE  faults = 0 /\ (pc' \in Steps \/ Respond \/ MarkFailed)
<1>1. faults = 0
  BY NoFault
<1>2. ~Crash /\ ~Throw /\ ~Schedule
  BY <1>1 DEF Crash, Throw, Schedule, Steps
<1> USE DEF Steps
<1>3. CASE Fetch \/ Begin \/ Subscribe \/ InitializeRunState \/ CreateRow \/ ReuseRows
  BY <1>3 DEF Fetch, Begin, Subscribe, InitializeRunState, CreateRow, ReuseRows
<1>4. CASE LeaveLoop \/ AbortStrategy \/ KeepAll \/ LoseAll \/ Recycle \/ Branch \/ DuplicateRow
  BY <1>4 DEF LeaveLoop, AbortStrategy, KeepAll, LoseAll, Recycle, Branch, DuplicateRow
<1>5. CASE Clean \/ Update \/ UpdateRejected \/ SaveCheckpoint \/ SaveMints \/ FinishStrategy
  BY <1>5 DEF Clean, Update, UpdateRejected, SaveCheckpoint, SaveMints, FinishStrategy
<1>6. CASE Commands \/ UNCHANGED vars
  BY <1>6 DEF Commands, Pause, Resume, Abort, vars
<1>7. QED
  BY <1>1, <1>2, <1>3, <1>4, <1>5, <1>6 DEF Next, Work

(* Who reads the run, and who takes the job.                                 *)
LEMMA WhoFetches ==
  ASSUME [Next]_vars, pc' = "fetched"
  PROVE  Fetch \/ (pc = "fetched" /\ found' = found /\ runs' = runs)
<1> USE DEF flags, database
<1>1. CASE Begin \/ Subscribe \/ InitializeRunState \/ CreateRow \/ ReuseRows
  BY <1>1 DEF Begin, Subscribe, InitializeRunState, CreateRow, ReuseRows
<1>2. CASE LeaveLoop \/ AbortStrategy \/ KeepAll \/ LoseAll \/ Recycle \/ Branch \/ DuplicateRow
  BY <1>2 DEF LeaveLoop, AbortStrategy, KeepAll, LoseAll, Recycle, Branch, DuplicateRow
<1>3. CASE Clean \/ Update \/ UpdateRejected \/ SaveCheckpoint \/ SaveMints \/ FinishStrategy
  BY <1>3 DEF Clean, Update, UpdateRejected, SaveCheckpoint, SaveMints, FinishStrategy
<1>4. CASE Commands \/ UNCHANGED vars
  BY <1>4 DEF Commands, Pause, Resume, Abort, vars
<1>5. CASE Respond \/ MarkFailed \/ Crash \/ Throw \/ Schedule
  BY <1>5 DEF Respond, MarkFailed, Crash, Throw, Schedule
<1>6. QED
  BY <1>1, <1>2, <1>3, <1>4, <1>5 DEF Next, Work

(* What the timer keeps of the status of cancelled runs.                     *)
LEMMA TimerKeepsCancelled ==
  ASSUME CIInv, TypeOK', Timeout
  PROVE  Server' /\ LeftIsOver' /\ ReadBefore' /\ CancelledRunsSettled'
<1>1. IInv /\ Server /\ LeftIsOver /\ ReadBefore /\ CancelledRunsSettled
  BY DEF CIInv
<1>2. Last \in Nat
  BY <1>1 DEF IInv, TypeOK, Last
<1>3. /\ Last' = Last /\ pc' = pc /\ target \in 1 .. Last /\ faults' = faults
      /\ found' = found
      /\ \A i \in 1 .. Last : runs'[i].status = runs[i].status \/ runs'[i].status = "aborted"
      /\ runs'[target].status = "aborted"
  BY Timing DEF flags
<1>4. /\ rpc' = "timedOut" /\ heard' = FALSE /\ target' = target
      /\ cancelled' = cancelled \cup {target}
      /\ overtaken' = IF pc = "fetched" /\ found = "pending" /\ target = Last
                      THEN overtaken \cup {target} ELSE overtaken
  BY DEF Timeout
<1>5. overtaken \subseteq overtaken' /\ overtaken' \subseteq cancelled'
  BY <1>1, <1>4 DEF Server
<1>6. Server'
  BY <1>1, <1>3, <1>4, <1>5 DEF Server
<1>7. LeftIsOver'
  <2>1. pc = "mints" => Last \in 1 .. Last
    BY <1>1, <1>2, JobTypes DEF IInv
  <2>2. QED
    BY <1>1, <1>3, <2>1 DEF LeftIsOver
<1>8. ReadBefore'
  BY <1>1, <1>3, <1>4, <1>5 DEF ReadBefore
<1>9. CancelledRunsSettled'
  BY <1>1, <1>3, <1>4, <1>5 DEF CancelledRunsSettled, Server
<1>10. QED
  BY <1>6, <1>7, <1>8, <1>9

(* What the worker's steps keep of it.                                       *)
LEMMA WorkerKeepsCancelled ==
  ASSUME CIInv, TypeOK', [CNext]_cvars, ~Timeout
  PROVE  Server' /\ LeftIsOver' /\ ReadBefore' /\ CancelledRunsSettled'
<1>1. IInv /\ Server /\ LeftIsOver /\ ReadBefore /\ CancelledRunsSettled
  BY DEF CIInv
<1>2. Last \in Nat /\ Last' \in Nat /\ faults \in Nat
  BY <1>1 DEF IInv, TypeOK, Last
<1>3. [Next]_vars
  BY WorkerOrTimer
<1>4. /\ Last' >= Last
      /\ \A r \in 1 .. Last :
              \/ runs'[r].status = runs[r].status
              \/ runs'[r].status \in {"completed", "aborted", "failed"}
              \/ Begin /\ r = Last /\ found = "pending" /\ runs'[r].status = "running"
      /\ pc' = "mints" =>
              \/ LeaveLoop /\ runs'[Last'].status \in {"completed", "aborted"}
              \/ pc = "mints" /\ runs' = runs
  BY <1>1, <1>3, StatusOfRuns
<1>5. cancelled' = cancelled /\ overtaken' = overtaken
  BY DEF CNext, client, Failed, Cancel, Answer, cvars
<1>6. LeftIsOver'
  BY <1>1, <1>4 DEF LeftIsOver, Last
<1>7. ReadBefore'
  <2>1. SUFFICES ASSUME pc' = "fetched", found' = "pending", Last' \in cancelled
                 PROVE  Last' \in overtaken
    BY <1>5 DEF ReadBefore
  <2>2. CASE Fetch
    <3>1. Last' = Last /\ runs[Last].status = "pending"
      BY <2>1, <2>2 DEF Fetch, database, Last
    <3>2. QED
      BY <1>1, <2>1, <3>1 DEF CancelledRunsSettled
  <2>3. CASE pc = "fetched" /\ found' = found /\ runs' = runs
    BY <1>1, <2>1, <2>3 DEF ReadBefore, Last
  <2>4. QED
    BY <1>3, <2>1, <2>2, <2>3, WhoFetches
<1>8. CancelledRunsSettled'
  <2>1. SUFFICES ASSUME NEW r \in cancelled
                 PROVE  /\ runs'[r].status # "pending"
                        /\ runs'[r].status = "running" =>
                             r \in overtaken /\ (faults' = 0 => r = Last' /\ pc' \in Steps)
    BY <1>5 DEF CancelledRunsSettled
  <2>2. r \in 1 .. Last /\ runs[r].status # "pending"
        /\ (runs[r].status = "running" =>
               r \in overtaken /\ (faults = 0 => r = Last /\ pc \in Steps))
    BY <1>1 DEF Server, CancelledRunsSettled
  <2>3. CASE runs'[r].status \in {"completed", "aborted", "failed"}
    BY <2>3
  <2>4. CASE Begin /\ r = Last /\ found = "pending" /\ runs'[r].status = "running"
    <3>1. pc = "fetched" /\ pc' = "starting"
      BY <2>4 DEF Begin
    <3>2. r \in overtaken
      BY <1>1, <2>4, <3>1 DEF ReadBefore
    <3>3. Last' = Last
      BY <1>1, <1>2, <2>4, <3>1, JobTypes, Beginning DEF IInv
    <3>4. QED
      BY <2>4, <3>1, <3>2, <3>3 DEF Steps
  <2>5. CASE runs'[r].status = runs[r].status /\ runs[r].status = "running"
    <3>1. SUFFICES ASSUME faults' = 0
                   PROVE  r = Last' /\ pc' \in Steps
      BY <2>2, <2>5
    <3>2. faults = 0
      BY <1>1, <1>3, <3>1, NoFault
    <3>3. r = Last /\ pc \in Steps
      BY <2>2, <2>5, <3>2
    <3>4. ~MarkFailed
      <4>1. SUFFICES ASSUME MarkFailed PROVE FALSE
        OBVIOUS
      <4>2. runs[Last] \in RunRows /\ runs \in Seq(RunRows) /\ Last \in DOMAIN runs
        BY <1>1, <2>2, <3>3, LastRunType DEF IInv, TypeOK, RunRows, Last
      <4>3. runs'[Last].status = "failed"
        BY <4>1, <4>2 DEF MarkFailed, SetRun, RunRows
      <4>4. QED
        BY <2>5, <3>3, <4>3
    <3>5. ~Respond
      BY <1>1, <2>5, <3>3 DEF Respond, LeftIsOver
    <3>6. pc' \in Steps
      BY <1>1, <1>3, <3>1, <3>3, <3>4, <3>5, JobGoesOn
    <3>7. Last' = Last
      BY <1>1, <1>3, <3>3, RunsKept, CheckpointWritten DEF Schedule, Steps
    <3>8. QED
      BY <3>3, <3>6, <3>7
  <2>6. QED
    BY <1>4, <2>2, <2>3, <2>4, <2>5
<1>9. Server'
  <2>1. heard' \in BOOLEAN
    BY <1>1 DEF Server, CNext, client, Failed, Cancel, Answer, cvars
  <2>2. /\ target' \in 0 .. Last
        /\ rpc' \in {"idle", "pending", "answered", "timedOut"}
        /\ rpc' = "pending" => target' \in 1 .. Last
    BY <1>1, <1>2 DEF Server, CNext, client, Failed, Cancel, Answer, cvars
  <2>3. QED
    BY <1>1, <1>2, <1>4, <1>5, <2>1, <2>2 DEF Server
<1>10. QED
  BY <1>6, <1>7, <1>8, <1>9

LEMMA CancelInvariance == CSpec => []CIInv
<1>1. CInit => CIInv
  <2>1. SUFFICES ASSUME CInit PROVE CIInv
    OBVIOUS
  <2>2. IInv /\ Last = 0 /\ pc = "off"
    BY <2>1, Beginnings DEF CInit, Init, Last
  <2>3. heard \in BOOLEAN
    BY <2>1 DEF CInit
  <2>4. target = 0 /\ rpc = "idle" /\ cancelled = {} /\ overtaken = {}
    BY <2>1 DEF CInit
  <2>5. Server
    BY <2>2, <2>3, <2>4 DEF Server
  <2>6. QED
    BY <2>2, <2>4, <2>5 DEF CIInv, LeftIsOver, ReadBefore, CancelledRunsSettled
<1>2. CIInv /\ [CNext]_cvars => CIInv'
  <2>1. SUFFICES ASSUME CIInv, [CNext]_cvars PROVE CIInv'
    OBVIOUS
  <2>2. IInv'
    BY <2>1, WorkerOrTimer, TimerKeepsIInv, StepKeepsIInv DEF CIInv
  <2>3. TypeOK'
    BY <2>2 DEF IInv
  <2>4. QED
    BY <2>1, <2>2, <2>3, TimerKeepsCancelled, WorkerKeepsCancelled DEF CIInv
<1>3. QED
  BY <1>1, <1>2, PTL DEF CSpec

-----------------------------------------------------------------------------
(* CancelledRunsSettled: a run that was aborted in the database shows as     *)
(* running again only when a job had read it as pending before that, and     *)
(* without faults only until that job ends; it never shows as pending.       *)
THEOREM CancelledStaySettled == CSpec => []CancelledRunsSettled
<1>1. CIInv => CancelledRunsSettled
  BY DEF CIInv
<1>2. QED BY <1>1, CancelInvariance, PTL

(* AnswerMeansOver: without faults the answer to a cancel request comes when *)
(* the status of the run is final and no row of the backtest is running.     *)
THEOREM AnswersComeLast == CSpec => AnswerMeansOver
<1>1. CIInv /\ [CNext]_cvars =>
        [faults = 0 /\ rpc = "pending" /\ rpc' = "answered" =>
           /\ runs[Last].status \in {"completed", "aborted"}
           /\ \A r \in DOMAIN rows : rows[r].status # "running"]_cvars
  <2>1. SUFFICES ASSUME CIInv, CNext, faults = 0, rpc = "pending", rpc' = "answered"
                 PROVE  /\ runs[Last].status \in {"completed", "aborted"}
                        /\ \A r \in DOMAIN rows : rows[r].status # "running"
    BY DEF cvars
  <2>2. pc = "mints"
    BY <2>1 DEF CNext, client, Failed, Cancel, Timeout, Answer, Respond
  <2>3. runs[Last].status \in {"completed", "aborted"}
    BY <2>1, <2>2 DEF CIInv, LeftIsOver
  <2>4. OthersAreOver
    BY <2>1 DEF CIInv, IInv, Faultless
  <2>5. QED
    BY <2>2, <2>3, <2>4 DEF OthersAreOver, InsertedRow, InTurn
<1>2. QED
  BY <1>1, CancelInvariance, PTL DEF CSpec, AnswerMeansOver
=============================================================================
