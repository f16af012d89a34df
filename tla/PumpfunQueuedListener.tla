----------------------- MODULE PumpfunQueuedListener -----------------------
(***************************************************************************)
(* PumpfunQueuedListener: keeps at most MaxConcurrent tokens in process,   *)
(* by closing the subscription to new tokens when the limit is reached and *)
(* opening it again when a task finishes.                                  *)
(*                                                                         *)
(* Every method runs without awaiting anything, and callers call several   *)
(* of them in one synchronous step, so the methods are state functions on  *)
(* the listener's record; BotFleet composes them.                          *)
(*                                                                         *)
(* A definition named D_Something is D with a bug.  No other definition    *)
(* uses it; it documents what the property it was written for rules out.   *)
(***************************************************************************)
EXTENDS Integers

CONSTANT MaxConcurrent   (* maxTokensToProcessInParallel, 0 for null *)

ASSUME MaxConcurrentAssumption == MaxConcurrent \in Nat

VARIABLE listener

(* sockets: subscriptions opened by listenForPumpFunTokens and not closed by *)
(* stopListeningToNewTokens, which closes the last one only.                 *)
ListenerType ==
  [isListening : BOOLEAN, forceStopped : BOOLEAN, inProgress : Nat, sockets : Nat]

NewListener ==
  [isListening |-> FALSE, forceStopped |-> FALSE, inProgress |-> 0, sockets |-> 0]

(* startListening(force)                                                     *)
Start(l, force) ==
  IF ~force /\ (l.isListening \/ l.forceStopped)
    THEN l
    ELSE [isListening |-> TRUE,
          forceStopped |-> IF force THEN FALSE ELSE l.forceStopped,
          inProgress |-> l.inProgress,
          sockets |-> l.sockets + 1]

(* stopListening(force)                                                      *)
Stop_Unguarded(l, force) ==
  [l EXCEPT !.isListening = FALSE, !.forceStopped = force, !.sockets = @ - 1]

Stop_NeverForced(l, force) ==
  [l EXCEPT !.isListening = FALSE,
            !.sockets = IF l.isListening THEN @ - 1 ELSE @]

Stop(l, force) ==
  [isListening |-> FALSE,
   forceStopped |-> force,
   inProgress |-> l.inProgress,
   sockets |-> IF l.isListening THEN l.sockets - 1 ELSE l.sockets]

AtLimit_OneMore(l) == MaxConcurrent > 0 /\ l.inProgress > MaxConcurrent
AtLimit(l) == MaxConcurrent > 0 /\ l.inProgress >= MaxConcurrent

(* The callback of listenForPumpFunTokens: is the new token taken, and what  *)
(* it does to the listener.                                                  *)
Takes(l) == ~l.forceStopped /\ ~AtLimit(l)

OnNewToken_LimitFirst(l) ==
  IF AtLimit(l) THEN Stop(l, FALSE)
  ELSE IF l.forceStopped THEN l
  ELSE [l EXCEPT !.inProgress = @ + 1]

OnNewToken(l) ==
  IF l.forceStopped THEN l
  ELSE IF AtLimit(l) THEN Stop(l, FALSE)
  ELSE [l EXCEPT !.inProgress = @ + 1]

(* The finally of processToken.                                              *)
OnTaskDone_NoRestart(l) == [l EXCEPT !.inProgress = @ - 1]

OnTaskDone(l) ==
  LET m == [l EXCEPT !.inProgress = @ - 1]
  IN  IF ~m.forceStopped /\ ~m.isListening /\ ~AtLimit(m)
        THEN Start(m, FALSE) ELSE m

IsDone_TasksIgnored(l) == ~l.isListening /\ l.forceStopped
IsDone(l) == ~l.isListening /\ l.forceStopped /\ l.inProgress = 0
=============================================================================
