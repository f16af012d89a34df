----------------------- MODULE PumpfunBotTradeManager -----------------------
(***************************************************************************)
(* PumpfunBotTradeManager: counts the open positions and the full trades   *)
(* from the events on the bus and decides to stop the bots or to resume    *)
(* listening.  Its handlers are synchronous up to the balance check, so    *)
(* they are state functions on the manager's record.                       *)
(***************************************************************************)
EXTENDS Integers

CONSTANTS
  MaxOpenPositions,   (* config.maxOpenPositions, 0 for null *)
  MaxFullTrades       (* config.maxFullTrades, 0 for null    *)

ASSUME LimitsAssumption == MaxOpenPositions \in Nat /\ MaxFullTrades \in Nat

VARIABLE manager

ManagerType ==
  [openPositions : Int, askedStopListening : BOOLEAN, fullTrades : Nat]

ManagerInit ==
  manager = [openPositions |-> 0, askedStopListening |-> FALSE, fullTrades |-> 0]

Counted(m, type) ==
  [m EXCEPT !.openPositions = IF type = "buy" THEN @ + 1 ELSE @ - 1]

PositionsFull(m) ==
  MaxOpenPositions > 0 /\ m.openPositions >= MaxOpenPositions

TradesFull(m) == MaxFullTrades > 0 /\ m.fullTrades >= MaxFullTrades

(* onTradeExecuted: the manager afterwards, and whether it stops the bots or *)
(* resumes listening.                                                        *)
OnTradeExecuted_NeverCleared(m, type) ==
  LET n == Counted(m, type)
  IN  [n EXCEPT !.askedStopListening = @ \/ PositionsFull(n)]

OnTradeExecuted(m, type) ==
  LET n == Counted(m, type)
  IN  [n EXCEPT !.askedStopListening = PositionsFull(n)]

AsksStop(m, type) == PositionsFull(Counted(m, type))

AsksResume_Always(m, type) == ~AsksStop(m, type)
AsksResume(m, type) == ~AsksStop(m, type) /\ m.askedStopListening

(* onBotTradeResponse                                                        *)
OnBotTradeResponse(m) == [m EXCEPT !.fullTrades = @ + 1]
=============================================================================
