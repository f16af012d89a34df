---------------------------- MODULE BacktestCancel ----------------------------
(***************************************************************************)
(* cancelBacktestRun of the WebSocket server against the worker's run: the *)
(* abort command goes over pub/sub to whoever listens, the answer comes    *)
(* when the run has ended, and if it has not come in 10 s the server       *)
(* aborts the run in the database.  BacktestRun is the worker; its Abort   *)
(* is the delivery of the command.                                         *)
(*                                                                         *)
(* A definition named D_Something is D with a bug.  No other definition    *)
(* uses it; it documents what the property it was written for rules out.   *)
(***************************************************************************)
EXTENDS BacktestRun

VARIABLES
  target,   (* the run that is, or was last, to be cancelled                *)
  rpc,      (* "idle", "pending", or how it ended: "answered", "timedOut"  *)
  heard,    (* the job at work has heard the pending request               *)
  cancelled,(* runs that were aborted in the database                      *)
  overtaken (* history: those a job had read as pending by then, and was   *)
            (* still to mark as running                                    *)

client == <<target, rpc, heard, cancelled, overtaken>>

CTypeOK ==
  /\ TypeOK
  /\ target \in 0 .. Last
  /\ rpc \in {"idle", "pending", "answered", "timedOut"}
  /\ heard \in BOOLEAN
  /\ cancelled \subseteq 1 .. Last /\ overtaken \subseteq cancelled

CInit ==
  /\ Init
  /\ target = 0 /\ rpc = "idle" /\ heard = FALSE /\ cancelled = {} /\ overtaken = {}

(* sendIcpMessage: a published command that nobody hears is lost; a job      *)
(* ignores the commands for other runs.                                      *)
Cancel ==
  /\ rpc # "pending" /\ rpc' = "pending"
  /\ target' \in 1 .. Last
  /\ heard' = (Listening /\ target' = Last)
  /\ IF heard' THEN Abort ELSE UNCHANGED vars
  /\ UNCHANGED <<cancelled, overtaken>>

(* backtestIpcPlugin: an answer that nobody waits for any more is dropped.   *)
Answer_BeforeEnd ==
  /\ pc = "loop" /\ aborted /\ rpc = "pending" /\ heard
  /\ rpc' = "answered" /\ heard' = FALSE
  /\ UNCHANGED <<vars, target, cancelled, overtaken>>
Answer ==
  /\ Respond
  /\ rpc' = IF rpc = "pending" /\ heard THEN "answered" ELSE rpc
  /\ heard' = FALSE
  /\ UNCHANGED <<target, cancelled, overtaken>>

(* The timer, and abortBacktestRunById.                                      *)
AbortInDatabase ==
  /\ rows' = [r \in DOMAIN rows |->
                IF rows[r].run = target /\ rows[r].status = "running"
                THEN [rows[r] EXCEPT !.status = "aborted"] ELSE rows[r]]
  /\ runs' = [runs EXCEPT ![target].status = "aborted"]

Timeout ==
  /\ rpc = "pending" /\ rpc' = "timedOut" /\ heard' = FALSE
  /\ AbortInDatabase
  /\ cancelled' = cancelled \cup {target}
  /\ overtaken' = IF pc = "fetched" /\ found = "pending" /\ target = Last
                  THEN overtaken \cup {target} ELSE overtaken
  /\ UNCHANGED <<history, lastId, pc, faults, flags, index, current, board, turn, left,
                 target>>

CWork ==
  \/ Fetch \/ Begin \/ Subscribe \/ InitializeRunState
  \/ CreateRow \/ ReuseRows \/ LeaveLoop \/ AbortStrategy
  \/ KeepAll \/ LoseAll \/ Recycle \/ Branch \/ DuplicateRow
  \/ Clean \/ Update \/ UpdateRejected \/ SaveCheckpoint \/ SaveMints

Failed == MarkFailed /\ heard' = FALSE /\ UNCHANGED <<target, rpc, cancelled, overtaken>>

CNext ==
  \/ (Schedule \/ CWork \/ FinishStrategy \/ Pause \/ Resume \/ Throw) /\ UNCHANGED client
  \/ Crash /\ heard' = FALSE /\ UNCHANGED <<target, rpc, cancelled, overtaken>>
  \/ Failed \/ Cancel \/ Answer \/ Timeout

cvars == <<vars, client>>

(* As in BacktestRun; nothing is assumed of the server.                      *)
CFairness ==
  /\ WF_cvars(CWork /\ UNCHANGED client) /\ WF_cvars(Failed) /\ WF_cvars(Answer)
  /\ WF_cvars(~paused /\ FinishStrategy /\ UNCHANGED client)

CSpec == CInit /\ [][CNext]_cvars
CFairSpec == CSpec /\ CFairness

-----------------------------------------------------------------------------
(* A run that was aborted in the database does not show as pending again,    *)
(* and as running only when a job had read it as pending just before: then,  *)
(* without faults, only as long as that job works on it.                     *)
CancelledRunsSettled ==
  \A r \in cancelled :
    /\ runs[r].status # "pending"
    /\ runs[r].status = "running" =>
         r \in overtaken /\ (faults = 0 => r = Last /\ pc \in Steps)

(* Without faults an answer means that the run is over: its status is final  *)
(* and none of the backtest's rows is left running.                          *)
AnswerMeansOver ==
  [][faults = 0 /\ rpc = "pending" /\ rpc' = "answered" =>
       /\ runs[Last].status \in {"completed", "aborted"}
       /\ \A r \in DOMAIN rows : rows[r].status # "running"]_cvars

(* A job ends, cancelled or not, in time or not, unless it is paused.        *)
RunEnds == (pc # "off") ~> (pc = "off" \/ paused)

-----------------------------------------------------------------------------
(* What comments say, and the code does not do.                              *)

(* backtestRuns.ts: a run is aborted in the database because its "process is *)
(* not running anymore"; so it stays aborted.                                *)
AbortedRunStays ==
  [][\A r \in cancelled : runs[r].status = "aborted" => runs'[r].status = "aborted"]_cvars

(* abortBacktestRunById: the run is updated to "aborted" and returned as     *)
(* finished; so it is not shown as running again.                            *)
AbortedRunsRest == \A r \in cancelled : runs[r].status # "running"
=============================================================================
