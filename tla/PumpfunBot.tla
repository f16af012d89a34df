----------------------------- MODULE PumpfunBot -----------------------------
(***************************************************************************)
(* One run of PumpfunBot.run: the monitoring loop of one token, the buy    *)
(* and sell calls it starts without awaiting them, and their promise       *)
(* callbacks.  JavaScript runs to completion, so an action is everything   *)
(* between two awaits; callbacks run only while the loop is suspended.     *)
(*                                                                         *)
(* Abstracted: prices, strategies' reasons, history entries and logging.   *)
(* A strategy's answers are arbitrary, within what LimitsBasedStrategy and *)
(* shouldExitLaunchpadToken can answer.  Time: an interval is a loop turn, *)
(* the auto-sell timeout is a flag the environment raises once.            *)
(*                                                                         *)
(* A definition named D_Something is D with a bug.  No other definition    *)
(* uses it; it documents what the property it was written for rules out.   *)
(***************************************************************************)
EXTENDS Naturals, FiniteSets

CONSTANTS
  MaxSellRetries,  (* config.maxSellRetries                                  *)
  MaxIntervals,    (* maxWaitMonitorAfterResultMs in buyMonitorWaitPeriodMs  *)
  AutoSell,        (* whether config.autoSellTimeoutMs is set                *)
  Readings         (* the kinds of market context the provider may return    *)

ASSUME BotAssumption ==
  /\ MaxSellRetries \in Nat
  /\ MaxIntervals \in Nat \ {0}
  /\ AutoSell \in BOOLEAN
  /\ Readings \subseteq {"priced", "drained", "nullPrice", "nullMigrated"}

VARIABLES
  pc,               (* the await the loop is suspended at                    *)
  actionInProgress, (* snapshot taken at the head of the turn                *)
  isRunning,
  shouldBuyRes,     (* shouldBuyRes?.buy                                     *)
  shouldSellRes,    (* shouldSellRes?.sell                                   *)
  buyInProgress,
  sellInProgress,
  buyPosition,      (* strategy.buyPosition is set                           *)
  result,           (* "none", "trade" or "exit"                             *)
  fatalError,
  intervals,        (* intervalsMonitoredAfterResult                         *)
  sellTries,        (* sellTriesCount                                        *)
  autoSellDue,      (* autoSellTimeoutMs have passed since the purchase      *)
  buyCall,          (* where the promise chain of pumpfun.buy is             *)
  sellCall,         (* where the promise chain of pumpfun.sell is            *)
  buyTx,            (* the purchase on the chain                             *)
  flyingSells,      (* sell attempts whose transaction may still land        *)
  soldBy,           (* attempt whose transaction sold the tokens, 0 if none  *)
  fallbackSold,     (* the fallback sale sold the tokens                     *)
  trade,            (* trade events emitted on the bus                       *)
  reported,         (* botTradeResponse emitted                              *)
  row,              (* the positions row in the database                     *)
  rowWrites,        (* insertPosition / closePosition not settled yet        *)
  outcome,          (* how run() ended                                       *)
  crashed           (* the process died of an unhandled rejection            *)

turnVars  == <<actionInProgress, intervals, sellTries>>
loopVars  == <<pc, turnVars>>
answers   == <<shouldBuyRes, shouldSellRes>>
flags     == <<buyInProgress, sellInProgress>>
runVars   == <<answers, flags, isRunning, buyPosition, result, fatalError,
               autoSellDue>>
callVars  == <<buyCall, sellCall>>
chainVars == <<buyTx, flyingSells, soldBy, fallbackSold>>
busVars   == <<trade, reported>>
dbVars    == <<row, rowWrites>>
effects   == <<chainVars, busVars, dbVars>>
outside   == <<callVars, effects>>
endVars   == <<outcome, crashed>>
vars == <<loopVars, runVars, outside, endVars>>

-----------------------------------------------------------------------------
Errors == {"unknown_buying_error", "buy_slippage_more_sol_required",
           "insufficient_funds_to_buy", "max_sell_retries_reached",
           "not_enough_tokens_to_sell"}
Attempts == 1 .. MaxSellRetries + 1

(* A drained bonding curve (the token migrated) has 0 virtual reserves: its  *)
(* price is 0/0, which is not a number and is not null either.               *)
PriceIsNull(m) == m \in {"nullPrice", "nullMigrated"}
IsMigrated(m)  == m \in {"drained", "nullMigrated"}

Ended     == outcome # "running"
Suspended == pc # "loop" /\ ~crashed
HoldsTokens == buyTx = "landed" /\ soldBy = 0 /\ ~fallbackSold

TypeOK ==
  /\ pc \in {"loop", "context", "shouldBuy", "shouldSell", "sleep",
             "resultSleep", "ended"}
  /\ actionInProgress \in BOOLEAN
  /\ isRunning \in BOOLEAN
  /\ shouldBuyRes \in BOOLEAN
  /\ shouldSellRes \in BOOLEAN
  /\ buyInProgress \in BOOLEAN
  /\ sellInProgress \in BOOLEAN
  /\ buyPosition \in BOOLEAN
  /\ autoSellDue \in BOOLEAN
  /\ fallbackSold \in BOOLEAN
  /\ reported \in BOOLEAN
  /\ crashed \in BOOLEAN
  /\ result \in {"none", "trade", "exit"}
  /\ fatalError \in {"none"} \cup Errors
  /\ intervals \in 0 .. MaxIntervals
  /\ sellTries \in 0 .. MaxSellRetries + 1
  /\ buyCall \in {"idle", "pending", "balance", "fallback"}
  /\ sellCall \in {"idle", "pending", "settling"}
  /\ buyTx \in {"none", "flying", "landed", "failed"}
  /\ flyingSells \subseteq Attempts
  /\ soldBy \in {0} \cup Attempts
  /\ trade \in {"none", "open", "closed"}
  /\ row \in {"none", "open", "closed"}
  /\ rowWrites \subseteq {"insert", "close"}
  /\ outcome \in {"running", "trade", "exit", "migrated", "stopped",
                  "rpc_or_strategy_error"} \cup Errors

Init ==
  /\ pc = "loop" /\ actionInProgress = FALSE /\ isRunning = TRUE
  /\ shouldBuyRes = FALSE /\ shouldSellRes = FALSE
  /\ buyInProgress = FALSE /\ sellInProgress = FALSE
  /\ buyPosition = FALSE /\ result = "none" /\ fatalError = "none"
  /\ intervals = 0 /\ sellTries = 0 /\ autoSellDue = FALSE
  /\ buyCall = "idle" /\ sellCall = "idle"
  /\ buyTx = "none" /\ flyingSells = {} /\ soldBy = 0 /\ fallbackSold = FALSE
  /\ trade = "none" /\ reported = FALSE
  /\ row = "none" /\ rowWrites = {}
  /\ outcome = "running" /\ crashed = FALSE

-----------------------------------------------------------------------------
(* The head of a turn.                                                       *)

KeepsMonitoring_BuyForgotten ==
  isRunning \/ buyPosition \/ sellInProgress \/ result # "none"
KeepsMonitoring ==
  isRunning \/ buyPosition \/ sellInProgress \/ buyInProgress \/ result # "none"

End(o) == pc' = "ended" /\ outcome' = o

Leave ==
  /\ pc = "loop"
  /\ ~KeepsMonitoring
  /\ End("stopped")
  /\ UNCHANGED <<turnVars, runVars, outside, crashed>>

ThrowFatalError ==
  /\ pc = "loop"
  /\ KeepsMonitoring
  /\ fatalError # "none"
  /\ End(fatalError)
  /\ UNCHANGED <<turnVars, runVars, outside, crashed>>

ActionIsInProgress_BuyForgotten == sellInProgress
ActionIsInProgress == buyInProgress \/ sellInProgress

BeginTurn ==
  /\ pc = "loop"
  /\ KeepsMonitoring
  /\ fatalError = "none"
  /\ pc' = "context"
  /\ actionInProgress' = ActionIsInProgress
  /\ UNCHANGED <<sellTries, intervals, runVars, outside, endVars>>

-----------------------------------------------------------------------------
(* What follows a decision: start a purchase, a sale, or only sleep.  sb and *)
(* ss are the values of shouldBuyRes and shouldSellRes at this point.        *)

StartBuy(sb, ss) ==
  /\ ~actionInProgress /\ ~buyPosition /\ sb
  /\ pc' = "sleep"
  /\ shouldBuyRes' = sb /\ shouldSellRes' = ss
  /\ buyInProgress' = TRUE
  /\ buyCall' = "pending"
  /\ buyTx' = "flying"
  /\ UNCHANGED <<turnVars, sellInProgress, isRunning, buyPosition, result,
                 fatalError, autoSellDue, sellCall, flyingSells, soldBy,
                 fallbackSold, busVars, dbVars, endVars>>

TriesLeft_OneLess == sellTries < MaxSellRetries
TriesLeft == sellTries <= MaxSellRetries

GiveUpSelling(sb, ss) ==
  /\ ~actionInProgress /\ ss /\ buyPosition
  /\ ~TriesLeft
  /\ fatalError' = "max_sell_retries_reached"
  /\ pc' = "loop"
  /\ shouldBuyRes' = sb /\ shouldSellRes' = ss
  /\ UNCHANGED <<turnVars, flags, isRunning, buyPosition, result, autoSellDue,
                 outside, endVars>>

StartSell(sb, ss) ==
  /\ ~actionInProgress /\ ss /\ buyPosition
  /\ TriesLeft
  /\ sellTries' = sellTries + 1
  /\ sellInProgress' = TRUE
  /\ sellCall' = "pending"
  /\ flyingSells' = flyingSells \cup {sellTries'}
  /\ pc' = "sleep"
  /\ shouldBuyRes' = sb /\ shouldSellRes' = ss
  /\ UNCHANGED <<actionInProgress, buyInProgress, intervals, isRunning,
                 buyPosition, result, fatalError, autoSellDue, buyCall, buyTx,
                 soldBy, fallbackSold, busVars, dbVars, endVars>>

JustSleep(sb, ss) ==
  /\ \/ actionInProgress
     \/ ~buyPosition /\ ~sb
     \/ buyPosition /\ ~ss
  /\ pc' = "sleep"
  /\ shouldBuyRes' = sb /\ shouldSellRes' = ss
  /\ UNCHANGED <<turnVars, flags, isRunning, buyPosition, result, fatalError,
                 autoSellDue, outside, endVars>>

Act(sb, ss) ==
  StartBuy(sb, ss) \/ GiveUpSelling(sb, ss) \/ StartSell(sb, ss) \/ JustSleep(sb, ss)

(* strategy.shouldExit: asks for a sale only with a position, and for an     *)
(* exit only without one (shouldExitLaunchpadToken).                         *)
ExitAnswers ==
  IF actionInProgress THEN {"stay"}
  ELSE IF buyPosition THEN {"stay", "sell"} ELSE {"stay", "exit"}

ExitWithoutTrade(sb) ==
  /\ "exit" \in ExitAnswers
  /\ result' = "exit"
  /\ pc' = "loop"
  /\ shouldBuyRes' = sb
  /\ UNCHANGED <<turnVars, shouldSellRes, flags, isRunning, buyPosition,
                 fatalError, autoSellDue, outside, endVars>>

AskShouldSell(sb, ss) ==
  /\ ~actionInProgress /\ buyPosition
  /\ pc' = "shouldSell"
  /\ shouldBuyRes' = sb /\ shouldSellRes' = ss
  /\ UNCHANGED <<turnVars, flags, isRunning, buyPosition, result, fatalError,
                 autoSellDue, outside, endVars>>

(* The rest of the turn once shouldBuyRes is known.                          *)
Decide(sb) ==
  \/ ExitWithoutTrade(sb)
  \/ \E e \in ExitAnswers \ {"exit"} :
       LET ss == shouldSellRes \/ e = "sell"
       IN  \/ AskShouldSell(sb, ss)
           \/ (actionInProgress \/ ~buyPosition) /\ Act(sb, ss)

-----------------------------------------------------------------------------
(* The market context has arrived.                                           *)

Ignored(m) == PriceIsNull(m) /\ ~buyPosition /\ ~buyInProgress

FindMigrated(m) ==
  /\ pc = "context" /\ Suspended
  /\ Ignored(m) /\ IsMigrated(m)
  /\ End("migrated")
  /\ UNCHANGED <<turnVars, runVars, outside, crashed>>

SkipEntry(m) ==
  /\ pc = "context" /\ Suspended
  /\ Ignored(m) /\ ~IsMigrated(m)
  /\ pc' = "loop"
  /\ UNCHANGED <<turnVars, runVars, outside, endVars>>

MonitorsMore == intervals < MaxIntervals

MonitorAfterResult(m) ==
  /\ pc = "context" /\ Suspended
  /\ ~Ignored(m) /\ result # "none"
  /\ MonitorsMore
  /\ intervals' = intervals + 1
  /\ pc' = "resultSleep"
  /\ UNCHANGED <<sellTries, actionInProgress, runVars, outside, endVars>>

(* strategy.resetState() clears the position, then the result is returned.   *)
ReturnResult(m) ==
  /\ pc = "context" /\ Suspended
  /\ ~Ignored(m) /\ result # "none"
  /\ ~MonitorsMore
  /\ buyPosition' = FALSE
  /\ End(result)
  /\ UNCHANGED <<turnVars, answers, flags, isRunning, result, fatalError,
                 autoSellDue, outside, crashed>>

(* Past "if (result) continue".                                              *)
Undecided(m) == ~Ignored(m) /\ result = "none"

AskShouldBuy(m) ==
  /\ pc = "context" /\ Suspended
  /\ Undecided(m)
  /\ ~actionInProgress /\ ~buyPosition
  /\ pc' = "shouldBuy"
  /\ UNCHANGED <<turnVars, runVars, outside, endVars>>

Watch(m) ==
  /\ pc = "context" /\ Suspended
  /\ Undecided(m)
  /\ actionInProgress \/ buyPosition
  /\ Decide(shouldBuyRes)

ShouldBuyAnswers(sb) ==
  /\ pc = "shouldBuy" /\ Suspended
  /\ Decide(sb)

(* The strategy's answer, or the auto-sell timeout when it says no.  A "no"  *)
(* leaves shouldSellRes as shouldExit may have set it.                       *)
ShouldSellAnswers_NoAutoSell(s) ==
  /\ pc = "shouldSell" /\ Suspended
  /\ Act(shouldBuyRes, shouldSellRes \/ s)

ShouldSellAnswers(s) ==
  /\ pc = "shouldSell" /\ Suspended
  /\ Act(shouldBuyRes, shouldSellRes \/ s \/ (AutoSell /\ autoSellDue))

(* None of the awaited calls is guarded: a rejection ends the run, whatever  *)
(* it holds.                                                                 *)
AwaitRejects ==
  /\ pc \in {"context", "shouldBuy", "shouldSell"} /\ Suspended
  /\ End("rpc_or_strategy_error")
  /\ UNCHANGED <<turnVars, runVars, outside, crashed>>

(* After the sleep that follows a result the turn only continues.            *)
Wake ==
  /\ pc \in {"sleep", "resultSleep"} /\ Suspended
  /\ pc' = "loop"
  /\ UNCHANGED <<turnVars, runVars, outside, endVars>>

-----------------------------------------------------------------------------
(* The promise chain of pumpfun.buy.                                         *)

(* What strategy.afterBuy and afterSell do to the position.                  *)
AfterBuy == buyPosition' = TRUE
AfterSell_Forgotten == UNCHANGED buyPosition
AfterSell == buyPosition' = FALSE

(* tradeExecuted is emitted first; a listener may stop this bot at once.     *)
BuySucceeds ==
  /\ Suspended
  /\ buyCall = "pending" /\ buyTx = "landed"
  /\ trade' = "open"
  /\ isRunning' \in {isRunning, FALSE}
  /\ AfterBuy
  /\ rowWrites' = rowWrites \cup {"insert"}
  /\ shouldBuyRes' = FALSE
  /\ buyInProgress' = FALSE
  /\ buyCall' = "idle"
  /\ UNCHANGED <<loopVars, sellInProgress, shouldSellRes, result, fatalError,
                 autoSellDue, sellCall, chainVars, reported, row, endVars>>

(* A transaction the chain refused; the balance tells which of the two       *)
(* errors it is, but that is awaited.                                        *)
BuyHitsSlippage ==
  /\ Suspended
  /\ buyCall = "pending" /\ buyTx = "flying"
  /\ buyTx' = "failed"
  /\ fatalError' = "buy_slippage_more_sol_required"
  /\ buyCall' = "balance"
  /\ UNCHANGED <<loopVars, answers, flags, isRunning, buyPosition, result,
                 autoSellDue, sellCall, flyingSells, soldBy, fallbackSold,
                 busVars, dbVars, endVars>>

BalanceTooLow ==
  /\ Suspended
  /\ buyCall = "balance"
  /\ fatalError' = "insufficient_funds_to_buy"
  /\ shouldBuyRes' = FALSE
  /\ buyInProgress' = FALSE
  /\ buyCall' = "idle"
  /\ UNCHANGED <<loopVars, sellInProgress, shouldSellRes, isRunning,
                 buyPosition, result, autoSellDue, sellCall, effects,
                 endVars>>

(* The handler returns early: buyInProgress and shouldBuyRes stay set.       *)
BalanceSuffices ==
  /\ Suspended
  /\ buyCall = "balance"
  /\ buyCall' = "idle"
  /\ UNCHANGED <<loopVars, runVars, sellCall, effects, endVars>>

BuyLacksFunds ==
  /\ Suspended
  /\ buyCall = "pending" /\ buyTx = "flying"
  /\ buyTx' = "failed"
  /\ fatalError' = "insufficient_funds_to_buy"
  /\ shouldBuyRes' = FALSE
  /\ buyInProgress' = FALSE
  /\ buyCall' = "idle"
  /\ UNCHANGED <<loopVars, sellInProgress, shouldSellRes, isRunning,
                 buyPosition, result, autoSellDue, sellCall, flyingSells,
                 soldBy, fallbackSold, busVars, dbVars, endVars>>

(* Any other error: the purchase may have landed, or land later.             *)
BuyFails ==
  /\ Suspended
  /\ buyCall = "pending"
  /\ fatalError' = "unknown_buying_error"
  /\ buyCall' = "fallback"
  /\ UNCHANGED <<loopVars, answers, flags, isRunning, buyPosition, result,
                 autoSellDue, sellCall, effects, endVars>>

FallbackSells ==
  /\ Suspended
  /\ buyCall = "fallback" /\ HoldsTokens
  /\ fallbackSold' = TRUE
  /\ UNCHANGED <<loopVars, runVars, callVars, buyTx, flyingSells, soldBy,
                 busVars, dbVars, endVars>>

(* sellPumpfunTokensWithRetries always rejects (module FallbackSale), the    *)
(* handler rejects with it, nobody handles that and Node ends the process.   *)
(* So does an unanswered balance request.                                    *)
BuyHandlerRejects ==
  /\ Suspended
  /\ buyCall \in {"fallback", "balance"}
  /\ crashed' = TRUE
  /\ UNCHANGED <<loopVars, runVars, outside, outcome>>

-----------------------------------------------------------------------------
(* The promise chain of pumpfun.sell: then / catch, and later finally.       *)

(* tradeExecuted and botTradeResponse are emitted; a listener may stop this  *)
(* bot, or the fleet resume.                                                 *)
SellSucceeds ==
  /\ Suspended
  /\ sellCall = "pending" /\ soldBy = sellTries
  /\ trade' = "closed" /\ reported' = TRUE
  /\ isRunning' \in {isRunning, FALSE}
  /\ rowWrites' = rowWrites \cup {"close"}
  /\ result' = "trade"
  /\ AfterSell
  /\ sellCall' = "settling"
  /\ UNCHANGED <<loopVars, answers, flags, fatalError, autoSellDue, buyCall,
                 chainVars, row, endVars>>

(* The tokens are gone: an earlier attempt that reported an error sold them. *)
SellLacksTokens ==
  /\ Suspended
  /\ sellCall = "pending" /\ soldBy \notin {0, sellTries}
  /\ fatalError' = "not_enough_tokens_to_sell"
  /\ flyingSells' = flyingSells \ {sellTries}
  /\ sellCall' = "settling"
  /\ UNCHANGED <<loopVars, answers, flags, isRunning, buyPosition, result,
                 autoSellDue, buyCall, buyTx, soldBy, fallbackSold, busVars,
                 dbVars, endVars>>

(* Any other error; the sale may have landed, or land later.                 *)
SellFails ==
  /\ Suspended
  /\ sellCall = "pending"
  /\ sellCall' = "settling"
  /\ UNCHANGED <<loopVars, runVars, buyCall, effects, endVars>>

(* finally                                                                   *)
SaleIsOver_OnlyWhenSold == sellInProgress' = (result # "trade")
SaleIsOver == sellInProgress' = FALSE

SellSettles ==
  /\ Suspended
  /\ sellCall = "settling"
  /\ shouldSellRes' = FALSE
  /\ SaleIsOver
  /\ sellCall' = "idle"
  /\ UNCHANGED <<loopVars, shouldBuyRes, buyInProgress, isRunning,
                 buyPosition, result, fatalError, autoSellDue, buyCall,
                 effects, endVars>>

-----------------------------------------------------------------------------
(* Everything else: the stop event, the clock, the database and the chain.   *)

StopBot ==
  /\ Suspended /\ isRunning
  /\ isRunning' = FALSE
  /\ UNCHANGED <<loopVars, answers, flags, buyPosition, result, fatalError,
                 autoSellDue, outside, endVars>>

AutoSellTimeout ==
  /\ Suspended /\ AutoSell
  /\ buyPosition /\ ~autoSellDue
  /\ autoSellDue' = TRUE
  /\ UNCHANGED <<loopVars, answers, flags, isRunning, buyPosition, result,
                 fatalError, outside, endVars>>

(* A write may also fail: the error is only logged.  Closing finds its row   *)
(* only if the insertion was executed before.                                *)
RowWritten(w, executed) ==
  /\ Suspended
  /\ w \in rowWrites
  /\ rowWrites' = rowWrites \ {w}
  /\ row' = IF ~executed THEN row
            ELSE IF w = "insert" THEN "open"
            ELSE IF row = "open" THEN "closed" ELSE row
  /\ UNCHANGED <<loopVars, runVars, callVars, chainVars, busVars, endVars>>

BuyTxEnds(how) ==
  /\ pc # "loop"
  /\ buyTx = "flying"
  /\ buyTx' = how
  /\ UNCHANGED <<loopVars, runVars, callVars, flyingSells, soldBy,
                 fallbackSold, busVars, dbVars, endVars>>

SellTxEnds(n, lands) ==
  /\ pc # "loop"
  /\ n \in flyingSells
  /\ lands => HoldsTokens
  /\ flyingSells' = flyingSells \ {n}
  /\ soldBy' = IF lands THEN n ELSE soldBy
  /\ UNCHANGED <<loopVars, runVars, callVars, buyTx, fallbackSold, busVars,
                 dbVars, endVars>>

-----------------------------------------------------------------------------
ContextArrives(readings) ==
  \E m \in readings :
    \/ FindMigrated(m) \/ SkipEntry(m) \/ MonitorAfterResult(m)
    \/ ReturnResult(m) \/ AskShouldBuy(m) \/ Watch(m)

Loop ==
  \/ Leave \/ ThrowFatalError \/ BeginTurn \/ ContextArrives(Readings) \/ Wake
  \/ \E b \in BOOLEAN : ShouldBuyAnswers(b) \/ ShouldSellAnswers(b)
  \/ AwaitRejects

BuyCallback ==
  \/ BuySucceeds \/ BuyHitsSlippage \/ BalanceTooLow \/ BalanceSuffices
  \/ BuyLacksFunds \/ BuyFails \/ BuyHandlerRejects

SellCallback == SellSucceeds \/ SellLacksTokens \/ SellFails \/ SellSettles

Chain ==
  \/ \E how \in {"landed", "failed"} : BuyTxEnds(how)
  \/ \E n \in Attempts, lands \in BOOLEAN : SellTxEnds(n, lands)

Next ==
  \/ Loop \/ BuyCallback \/ SellCallback \/ FallbackSells
  \/ StopBot \/ AutoSellTimeout
  \/ \E w \in {"insert", "close"}, executed \in BOOLEAN : RowWritten(w, executed)
  \/ Chain

(* Awaited calls settle, timers fire and promise callbacks run; nothing says *)
(* that the bot is ever stopped, a transaction lands or a sale succeeds.     *)
(* Strong fairness for the callbacks: they wait while the loop's synchronous *)
(* code runs (pc = "loop"), and the event loop serves them in between.       *)
(* A provider that is asked for ever does not answer null for ever.          *)
Fairness ==
  /\ WF_vars(Loop)
  /\ SF_vars(ContextArrives({m \in Readings : ~PriceIsNull(m)}))
  /\ SF_vars(BuyCallback)
  /\ SF_vars(SellCallback)
  /\ SF_vars(AutoSellTimeout)

Spec == Init /\ [][Next]_vars
FairSpec == Spec /\ Fairness

-----------------------------------------------------------------------------
(* Properties.                                                               *)

(* The two fire-and-forget calls of a run never overlap and never repeat,    *)
(* although the loop keeps turning while they are pending: a purchase starts *)
(* only for a token not traded yet, a sale only for a bought one, and neither*)
(* before the handlers of the call before it have run to their end.          *)
NoOverlap ==
  [][\A sb, ss \in BOOLEAN :
       /\ StartBuy(sb, ss)  => buyCall = "idle" /\ sellCall = "idle" /\ trade = "none"
       /\ StartSell(sb, ss) => buyCall = "idle" /\ sellCall = "idle" /\ trade = "open"]_vars

(* The strategy's position and the events on the bus agree: between the buy  *)
(* and the sell event, and only then, the strategy holds a position.         *)
PositionMatchesEvents == buyPosition <=> trade = "open"

(* maxSellRetries: the run gives up only after the first try and exactly     *)
(* maxSellRetries retries were made, and none of them is still pending.      *)
GivesUpAfterRetries ==
  fatalError = "max_sell_retries_reached" =>
    sellTries = MaxSellRetries + 1 /\ sellCall = "idle"

(* With an auto-sell timeout no token is held for ever: the position is sold *)
(* or the run ends with an exception.                                        *)
AutoSellEndsHolding == AutoSell => (buyPosition ~> (~buyPosition \/ Ended \/ crashed))

(* A stopped bot ends its run, after its pending calls, the sale of its      *)
(* position and the monitoring after the result.                             *)
StoppedRunEnds == AutoSell => (~isRunning ~> (Ended \/ crashed))

(* The run keeps the promises of TokenTrade.                                 *)
Trade == INSTANCE TokenTrade
KeepsTradePromises == Trade!Spec

(* "Token is migrated, bondingCurveProgress=100. Will stop monitoring         *)
(* further": once every reading shows a migrated token, a turn that reads one *)
(* without a position or a purchase in flight ends the run.                   *)
MigratedTokenEndsRun ==
  [][pc = "context" /\ pc' # "context" /\ ~buyPosition /\ ~buyInProgress
       => pc' = "ended"]_vars
=============================================================================
