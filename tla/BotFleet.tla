------------------------------ MODULE BotFleet ------------------------------
(***************************************************************************)
(* scripts/pumpfun/bot.ts: the process that listens for new tokens, runs a *)
(* PumpfunBot for each, stops them all when a limit of the trade manager   *)
(* is reached, resumes after a sale, and exits when the listener is done.  *)
(*                                                                         *)
(* A bot is what TokenTrade promises of it, with the places where a stop   *)
(* event finds it: before its constructor subscribed it, at the head of a  *)
(* turn, in the middle of one, or with a call in flight.  An event is      *)
(* emitted synchronously, so the bot that trades, the manager, every other *)
(* bot and the listener change in one action.                              *)
(***************************************************************************)
EXTENDS PumpfunQueuedListener, PumpfunBotTradeManager, FiniteSets

CONSTANTS
  Bots,            (* the tokens announced, each with the bot that gets it  *)
  ChecksBalance    (* whether stopAtMinWalletBalanceLamports is set         *)

ASSUME FleetAssumption == IsFiniteSet(Bots) /\ ChecksBalance \in BOOLEAN

VARIABLES
  phase,           (* where each token is                                   *)
  stopped,         (* bots with isRunning = FALSE                           *)
  balanceChecks,   (* handlers waiting for wallet.getBalanceLamports        *)
  rejection,       (* a fallback sale is going to reject, unhandled         *)
  main,            (* start(): polls isDone, is done, has closed the db     *)
  crashed          (* the process died of an unhandled rejection            *)

vars == <<listener, manager, phase, stopped, balanceChecks, rejection, main,
          crashed>>

Phases == {"unseen", "announced",   \* before the queued listener has it
           "preparing",             \* in handlePumpToken, no bot constructed
           "head", "turn",          \* monitoring: before and after the stop check
           "buying", "holding", "selling",
           "after",                 \* monitoring after the result
           "lateBuy", "lateSale",   \* the run has thrown, its call is in flight
           "abandoned",             \* the position is held and no bot sells it
           "done"}

(* The process stays after start() has returned: a timer of the apm keeps it. *)
Alive == ~crashed

(* A bot is subscribed from its constructor to the end of its run.           *)
SubscribedPhases == {"head", "turn", "buying", "holding", "selling", "after"}
TaskPhases       == SubscribedPhases \cup {"preparing"}
PositionPhases   == {"holding", "selling", "lateSale", "abandoned"}

In(phases) == {b \in Bots : phase[b] \in phases}

Subscribed == In(SubscribedPhases)
Tasks      == In(TaskPhases)
Positions  == In(PositionPhases)

TypeOK ==
  /\ listener \in ListenerType
  /\ manager \in ManagerType
  /\ phase \in [Bots -> Phases]
  /\ stopped \subseteq Bots
  /\ balanceChecks \in Nat
  /\ rejection \in BOOLEAN
  /\ main \in {"polling", "done", "closed"}
  /\ crashed \in BOOLEAN

(* start() has made its first, unforced startListening call.                 *)
Init ==
  /\ ManagerInit
  /\ listener = Start(NewListener, FALSE)
  /\ phase = [b \in Bots |-> "unseen"]
  /\ stopped = {}
  /\ balanceChecks = 0
  /\ rejection = FALSE /\ main = "polling" /\ crashed = FALSE

Goes(b, from, to) == phase[b] = from /\ phase' = [phase EXCEPT ![b] = to]

-----------------------------------------------------------------------------
(* New tokens.  The websocket handler may await the mint's account, so a     *)
(* token announced while listening can arrive after the listener stopped.    *)

Announce(b) ==
  /\ Alive /\ listener.isListening
  /\ Goes(b, "unseen", "announced")
  /\ UNCHANGED <<listener, manager, stopped, balanceChecks, rejection, main,
                 crashed>>

Deliver(b) ==
  /\ Alive
  /\ Goes(b, "announced", IF Takes(listener) THEN "preparing" ELSE "done")
  /\ listener' = OnNewToken(listener)
  /\ UNCHANGED <<manager, stopped, balanceChecks, rejection, main, crashed>>

(* Coin data, the tokens row and the creator check are done: a bot is        *)
(* constructed and subscribes to stop events, whatever was emitted before.   *)
Construct(b) ==
  /\ Alive
  /\ Goes(b, "preparing", "head")
  /\ UNCHANGED <<listener, manager, stopped, balanceChecks, rejection, main,
                 crashed>>

(* A task ends: processToken settles and the listener's finally runs.  (The  *)
(* report is stored before; that await belongs to the phase that ends.)      *)
TaskEnds(b, from, to) ==
  /\ Alive
  /\ Goes(b, from, to)
  /\ listener' = OnTaskDone(listener)

(* Bad creator or an error before the bot exists.                            *)
Reject(b) ==
  /\ TaskEnds(b, "preparing", "done")
  /\ UNCHANGED <<manager, stopped, balanceChecks, rejection, main, crashed>>

-----------------------------------------------------------------------------
(* Monitoring.                                                               *)

LeaveStopped(b) ==
  /\ b \in stopped
  /\ TaskEnds(b, "head", "done")
  /\ UNCHANGED <<manager, stopped, balanceChecks, rejection, main, crashed>>

BeginTurn(b) ==
  /\ Alive /\ b \notin stopped
  /\ Goes(b, "head", "turn")
  /\ UNCHANGED <<listener, manager, stopped, balanceChecks, rejection, main,
                 crashed>>

EndTurn(b) ==
  /\ Alive
  /\ Goes(b, "turn", "head")
  /\ UNCHANGED <<listener, manager, stopped, balanceChecks, rejection, main,
                 crashed>>

ExitWithoutTrade(b) ==
  /\ Alive
  /\ Goes(b, "turn", "after")
  /\ UNCHANGED <<listener, manager, stopped, balanceChecks, rejection, main,
                 crashed>>

(* isRunning is not looked at again before the purchase starts.              *)
StartBuy(b) ==
  /\ Alive
  /\ Goes(b, "turn", "buying")
  /\ UNCHANGED <<listener, manager, stopped, balanceChecks, rejection, main,
                 crashed>>

FinishMonitoring(b) ==
  /\ TaskEnds(b, "after", "done")
  /\ UNCHANGED <<manager, stopped, balanceChecks, rejection, main, crashed>>

(* An awaited call rejects and the run throws, whatever it has in flight.    *)
RunThrows(b) ==
  /\ \/ TaskEnds(b, "turn", "done")
     \/ TaskEnds(b, "buying", "lateBuy")
     \/ TaskEnds(b, "selling", "lateSale")
  /\ UNCHANGED <<manager, stopped, balanceChecks, rejection, main, crashed>>

-----------------------------------------------------------------------------
(* Trades and the events they emit.                                          *)

(* stopBot: the listener is stopped by force and every subscribed bot too.   *)
StopAll == /\ stopped' = stopped \cup Subscribed
           /\ listener' = Stop(listener, TRUE)

(* The listener after the manager handled a trade event.                     *)
AfterTrade(type) ==
  IF AsksStop(manager, type) THEN Stop(listener, TRUE)
  ELSE IF AsksResume(manager, type) THEN Start(listener, TRUE) ELSE listener

BalanceCheckBegins ==
  balanceChecks' = balanceChecks + (IF ChecksBalance THEN 1 ELSE 0)

(* The apm stores the execution time of a call before its promise resolves,  *)
(* so that without the database a success becomes an error.                  *)
BuySucceeds(b) ==
  /\ Alive /\ main # "closed"
  /\ Goes(b, "buying", "holding") \/ Goes(b, "lateBuy", "abandoned")
  /\ manager' = OnTradeExecuted(manager, "buy")
  /\ listener' = AfterTrade("buy")
  /\ stopped' = IF AsksStop(manager, "buy") THEN stopped \cup Subscribed ELSE stopped
  /\ BalanceCheckBegins
  /\ UNCHANGED <<rejection, main, crashed>>

SellSucceeds_ReportFirst(b) ==
  /\ Alive /\ main # "closed"
  /\ Goes(b, "selling", "after") \/ Goes(b, "lateSale", "done")
  /\ manager' = OnBotTradeResponse(OnTradeExecuted(manager, "sell"))
  /\ listener' = IF TradesFull(manager') /\ ~AsksResume(manager, "sell")
                 THEN Stop(listener, TRUE) ELSE AfterTrade("sell")
  /\ stopped' = IF AsksStop(manager, "sell") \/ TradesFull(manager')
                THEN stopped \cup Subscribed ELSE stopped
  /\ BalanceCheckBegins
  /\ UNCHANGED <<rejection, main, crashed>>

(* The sale event first, then the report of the full trade, in one step: a   *)
(* resumption may be followed by a stop at once.                             *)
SellSucceeds(b) ==
  /\ Alive /\ main # "closed"
  /\ Goes(b, "selling", "after") \/ Goes(b, "lateSale", "done")
  /\ manager' = OnBotTradeResponse(OnTradeExecuted(manager, "sell"))
  /\ listener' = IF TradesFull(manager') THEN Stop(AfterTrade("sell"), TRUE)
                 ELSE AfterTrade("sell")
  /\ stopped' = IF AsksStop(manager, "sell") \/ TradesFull(manager')
                THEN stopped \cup Subscribed ELSE stopped
  /\ BalanceCheckBegins
  /\ UNCHANGED <<rejection, main, crashed>>

(* The rest of onTradeExecuted, after its await.                             *)
BalanceChecked(low) ==
  /\ Alive /\ balanceChecks > 0
  /\ balanceChecks' = balanceChecks - 1
  /\ IF low THEN StopAll ELSE UNCHANGED <<listener, stopped>>
  /\ UNCHANGED <<manager, phase, rejection, main, crashed>>

(* run() threw insufficientFundsToBuy: all bots are stopped, then the task   *)
(* ends.                                                                     *)
BuyLacksFunds(b) ==
  /\ Alive
  /\ Goes(b, "buying", "done")
  /\ stopped' = stopped \cup (Subscribed \ {b})
  /\ listener' = OnTaskDone(Stop(listener, TRUE))
  /\ UNCHANGED <<manager, balanceChecks, rejection, main, crashed>>

LateBuyEnds(b) == Alive /\ Goes(b, "lateBuy", "done") /\ UNCHANGED listener

(* A bot that was stopped meanwhile leaves its loop without throwing, a      *)
(* slippage error may be thrown before the balance is known, and nobody is   *)
(* left to throw the error of a late purchase.                               *)
BuyFails(b) ==
  /\ TaskEnds(b, "buying", "done") \/ LateBuyEnds(b)
  /\ UNCHANGED <<manager, stopped, balanceChecks, rejection, main, crashed>>

(* Unknown error: the run throws while the fallback sale still works.        *)
BuyFailsUnknown(b) ==
  /\ TaskEnds(b, "buying", "done") \/ LateBuyEnds(b)
  /\ rejection' = TRUE
  /\ UNCHANGED <<manager, stopped, balanceChecks, main, crashed>>

StartSell(b) ==
  /\ Alive
  /\ Goes(b, "holding", "selling")
  /\ UNCHANGED <<listener, manager, stopped, balanceChecks, rejection, main,
                 crashed>>

SellFails(b) ==
  /\ Alive
  /\ Goes(b, "selling", "holding") \/ Goes(b, "lateSale", "abandoned")
  /\ UNCHANGED <<listener, manager, stopped, balanceChecks, rejection, main,
                 crashed>>

(* Retries exhausted, tokens missing, or an awaited call rejected: the task  *)
(* ends with no sale in flight, no sale event is ever emitted.               *)
Abandon(b) ==
  /\ TaskEnds(b, "holding", "abandoned")
  /\ UNCHANGED <<manager, stopped, balanceChecks, rejection, main, crashed>>

(* Nobody handles the rejection of a fallback sale, of a balance request of  *)
(* the manager or of the one that start() makes when it is done.             *)
Crash ==
  /\ Alive
  /\ rejection \/ balanceChecks > 0 \/ main = "done"
  /\ crashed' = TRUE
  /\ UNCHANGED <<listener, manager, phase, stopped, balanceChecks, rejection,
                 main>>

(* The main loop polls isDone every 500 ms; it asks for the balance, then    *)
(* closes the database.                                                      *)
SeesDone ==
  /\ Alive /\ main = "polling" /\ IsDone(listener)
  /\ main' = "done"
  /\ UNCHANGED <<listener, manager, phase, stopped, balanceChecks, rejection,
                 crashed>>

ClosesDatabase ==
  /\ Alive /\ main = "done"
  /\ main' = "closed"
  /\ UNCHANGED <<listener, manager, phase, stopped, balanceChecks, rejection,
                 crashed>>

-----------------------------------------------------------------------------
Monitor(b) ==
  \/ Construct(b) \/ Reject(b) \/ LeaveStopped(b) \/ BeginTurn(b) \/ EndTurn(b)
  \/ FinishMonitoring(b)

DecideToken(b) == StartBuy(b) \/ ExitWithoutTrade(b)

EndBuying(b) ==
  BuySucceeds(b) \/ BuyLacksFunds(b) \/ BuyFails(b) \/ BuyFailsUnknown(b)

EndHolding(b) == SellSucceeds(b) \/ Abandon(b)

Next ==
  \/ \E b \in Bots :
       \/ Announce(b) \/ Deliver(b) \/ Monitor(b) \/ DecideToken(b)
       \/ RunThrows(b) \/ EndBuying(b) \/ StartSell(b) \/ SellFails(b)
       \/ EndHolding(b)
  \/ \E low \in BOOLEAN : BalanceChecked(low)
  \/ Crash \/ SeesDone \/ ClosesDatabase

(* Runs make progress.  That a monitored token is bought or given up         *)
(* (maxWaitMs) and that a held one is sold or abandoned (AutoSellEndsHolding *)
(* of PumpfunBot) is promised by the run, not by a single step: strong       *)
(* fairness.  New tokens and crashes are not promised by anybody.            *)
Fairness ==
  /\ \A b \in Bots :
       /\ WF_vars(Deliver(b)) /\ WF_vars(Monitor(b))
       /\ SF_vars(DecideToken(b)) /\ WF_vars(EndBuying(b))
       /\ WF_vars(StartSell(b)) /\ SF_vars(EndHolding(b))
  /\ WF_vars(\E low \in BOOLEAN : BalanceChecked(low))
  /\ WF_vars(SeesDone) /\ WF_vars(ClosesDatabase)

Spec == Init /\ [][Next]_vars
FairSpec == Spec /\ Fairness

-----------------------------------------------------------------------------
(* Properties.                                                               *)

(* maxTokensToProcessInParallel bounds the tasks in process, whatever late   *)
(* tokens, stops and resumptions interleave, and the counter is exact.       *)
ConcurrencyBounded ==
  /\ listener.inProgress = Cardinality(Tasks)
  /\ MaxConcurrent > 0 => listener.inProgress <= MaxConcurrent

(* Exactly one subscription is open while listening, none otherwise: no stop *)
(* and resume sequence opens a second socket or forgets one.                 *)
OneSocket == listener.sockets = IF listener.isListening THEN 1 ELSE 0

(* The fleet is never silently deaf: when it is not listening it was stopped *)
(* by force, or the limit of parallel tokens is used up, so that a task's    *)
(* end will start it again.                                                  *)
NeverDeaf ==
  ~listener.isListening =>
    \/ listener.forceStopped
    \/ MaxConcurrent > 0 /\ listener.inProgress >= MaxConcurrent

(* The manager waits for a sale exactly while the limit of open positions is *)
(* reached, its count is exact, and meanwhile the listener is off by force.  *)
PausedWhileFull ==
  /\ manager.askedStopListening <=> PositionsFull(manager)
  /\ manager.askedStopListening => listener.forceStopped /\ ~listener.isListening
  /\ manager.openPositions = Cardinality(Positions)

(* Once maxFullTrades is reached the fleet does not listen, even when a      *)
(* later sale frees a position and asks to resume.                           *)
FullTradesStopListening ==
  TradesFull(manager) => listener.forceStopped /\ ~listener.isListening

(* The database is given up only when no task is left that would need it,    *)
(* whichever tokens arrived late and whichever stop events were emitted.     *)
DoneWhenIdle == [][main = "polling" /\ main' # "polling" => Tasks = {}]_vars

(* A stop is lifted only by the sale that makes room below maxOpenPositions. *)
StopLiftedOnlyBySale ==
  [][listener.forceStopped /\ ~listener'.forceStopped =>
       /\ PositionsFull(manager) /\ ~PositionsFull(manager')
       /\ manager'.openPositions < manager.openPositions]_vars

(* maxFullTrades reached: the process ends, however many bots were still at  *)
(* work or not even constructed when the stop event was emitted.             *)
FullTradesEndFleet ==
  TradesFull(manager) ~> (main = "closed" \/ crashed)

(* "We are done. The listener is force stopped and all items are processed": *)
(* what the process says before it closes the database stays true.           *)
DoneForGood == main = "closed" => ~listener.isListening /\ Tasks = {}

(* "Maximum number of open positions the bot can hold simultaneously."       *)
MaxOpenPositionsHeld ==
  MaxOpenPositions > 0 => manager.openPositions <= MaxOpenPositions
=============================================================================
