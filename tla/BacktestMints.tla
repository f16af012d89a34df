--------------------------- MODULE BacktestMints ---------------------------
(***************************************************************************)
(* runStrategy and PumpfunBacktester.run: one strategy is tried on one     *)
(* recorded mint after the other.  The instance of the strategy, its       *)
(* position, orders and confirmations, lives through all of them.          *)
(*                                                                         *)
(* An entry of a history is visited in up to three steps: taking the entry *)
(* (and buying), leaving the mint, selling.  The steps are separated where *)
(* the code awaits shouldBuy and shouldSell; a write that a failed request *)
(* left behind can come at any of these points, or later.                  *)
(*                                                                         *)
(* Amounts are integers: tokens are counted so that a purchase at every    *)
(* price of the instance is whole, and the slippage is whole percents.     *)
(***************************************************************************)
EXTENDS Predictions

CONSTANTS
    Runs,             \* [strategy, config]: what is run; one of them is chosen
    Histories,        \* run -> the recorded reports of a mint
    Replies,          \* run -> the replies of its prediction services
    Files,            \* how many mints are tried
    InitialBalance, BuyAmount,
    BaseFee, PriorityFee, AccountFee, JitoTip,
    BuySlippage, SellSlippage,     \* percents, per mode of randomization.slippages
    BuyLatency, SellLatency        \* what the simulated latencies can be, in ms

ASSUME MintsAssumption ==
    /\ Files \in Nat \ {0}
    /\ {InitialBalance, BuyAmount, BaseFee, PriorityFee, AccountFee} \subseteq Nat \ {0}
    /\ JitoTip \in Nat
    /\ BuyLatency \subseteq Nat \ {0} /\ SellLatency \subseteq Nat \ {0}

\* A recorded price is null or positive, and the configured amount buys at least one token.
Entries ==
    [timestamp : Nat, price : {Unknown} \cup 1 .. BuyAmount, action : STRING,
     marketCap : Int, bondingCurveProgress : Int, holdersCount : Int]
InOrder(history) ==
    \A j, k \in DOMAIN history : j <= k => history[j].timestamp <= history[k].timestamp
Reports ==
    {report \in [history : Seq(Entries),
                 monitor : [buyTimeframeMs : Nat \ {0}, sellTimeframeMs : Nat \ {0}]] :
       InOrder(report.history)}

ASSUME RecordsAssumption == \A r \in Runs : \A report \in Histories[r] : report \in Reports

\* A limit of 0 is one that is not configured.  The schema only asks that a slippage is positive;
\* that of a sale is taken to be at most the price, as a sale would cost money above it.
ASSUME SettingsAssumption ==
    /\ \A r \in Runs :
         /\ r.config.autoSellTimeoutMs \in Nat
         /\ \A limit \in {"takeProfit", "stopLoss", "trailingStop", "trailingProfit", "trailingProfitStop"} :
              r.strategy.limits[limit] \in Nat
    /\ \A r \in Runs : r.config.slippages # "closestEntry" =>
         /\ BuySlippage[r.config.slippages] \subseteq Nat
         /\ SellSlippage[r.config.slippages] \subseteq 0 .. 100

\* Every source has a member, one that is no ensemble is its own; weights are not negative and
\* thresholds are positive.
PredictionStrategies == {"BuyPredictionStrategy", "BuySellPredictionStrategy"}
IsSource(source) ==
    /\ source.weights \in Seq(Nat) /\ source.weights # <<>>
    /\ source.kind = "single" => Len(source.weights) = 1
ASSUME SourcesAssumption ==
    \A r \in Runs : r.strategy.name \in PredictionStrategies =>
        /\ IsSource(r.strategy.source) /\ r.strategy.minPredictedConfidence \in Nat \ {0}
        /\ r.strategy.downside.executionMode # "none" =>
             /\ IsSource(r.strategy.downside.source)
             /\ r.strategy.downside.minPredictedConfidence \in Nat \ {0}

VARIABLES
    chosen,      \* of Runs
    file,        \* ls.currentIndex, from 1
    phase,       \* "file", "entry", "buy", "exit", "sell", "traded", "over", "rejected"
    run,         \* the local variables of PumpfunBacktester.run
    strat,       \* the state of the strategy
    late,        \* confirmations that a failed decision has yet to write
    ls,          \* StrategyResultLiveState
    results      \* mintResults, by file

vars == <<chosen, file, phase, run, strat, late, ls, results>>

NoPosition == [held |-> FALSE]
FreshStrategy == [position |-> NoPosition, orders |-> NoOrders, buys |-> 0, sells |-> 0]
NoRun == [balance |-> 0, holdings |-> 0]
Unsold == [sell |-> FALSE, reason |-> ""]

NewRun(report) ==
    [history |-> report.history, monitor |-> report.monitor, i |-> 1, stepSize |-> 1, soFar |-> <<>>,
     balance |-> ls.balance, holdings |-> 0, soldOnce |-> FALSE, trades |-> <<>>,
     peak |-> ls.balance, drawdown |-> 0, wanted |-> Unsold, evidence |-> <<>>]

InitialLiveState ==
    [balance |-> InitialBalance, profit |-> 0, trades |-> 0, buys |-> 0, sells |-> 0, winRate |-> 0, roi |-> 0,
     holdingsValue |-> 0, wins |-> 0, losses |-> 0, highestPeak |-> InitialBalance, lowestTrough |-> InitialBalance,
     currentPeak |-> InitialBalance, currentTrough |-> InitialBalance, drawdown |-> 0,
     biggestWin |-> -1, biggestLoss |-> 1]

Init ==
    /\ chosen \in Runs
    /\ file = 1 /\ phase = "file"
    /\ run = NoRun /\ strat = FreshStrategy /\ late = {}
    /\ ls = InitialLiveState /\ results = <<>>

Strategy == chosen.strategy
Config == chosen.config
Now == Last(run.soFar)

\* ------------------------------------------------- the loop of the entries

getNextEntryIndex_NextOne(history, from, nextTimestamp, step) ==  \* mutant: whatever the latency
    IF from + step <= Len(history) THEN from + step ELSE Len(history)
getNextEntryIndex(history, from, nextTimestamp, step) ==
    LET later == {j \in from .. Len(history) :
                    (j - from) % step = 0 /\ history[j].timestamp >= nextTimestamp}
    IN  IF later = {} THEN Len(history) ELSE Min(later)

\* Code: `currentIndex < history.length - stepSize`, with indices from 0.
getClosestEntryIndex(history, from, nextTimestamp, step) ==
    LET next == IF from - 1 < Len(history) - step THEN from + step ELSE from
    IN  IF nextTimestamp - history[from].timestamp < history[next].timestamp - nextTimestamp
          THEN from ELSE getNextEntryIndex(history, from, nextTimestamp, step)

\* The price a trade is made at, for an amount that would be `worth` at the price of the entry.
\* A null price counts as 0 in the arithmetic.
Slipped(worth, direction, slippages, latency) ==
    IF Config.slippages # "closestEntry"
      THEN {(worth * (100 + direction * s)) \div 100 : s \in slippages[Config.slippages]}
      ELSE LET at == getClosestEntryIndex(run.history, run.i, Now.timestamp + latency \div 4, run.stepSize)
               price == run.history[at].price
           IN  {(worth \div Now.price) * (IF price = Unknown THEN 0 ELSE price)}

TokenValue(holdings, price) == holdings * (IF price = Unknown THEN 0 ELSE price)
CreationFee == IF run.trades = <<>> THEN AccountFee ELSE 0

\* The end of the loop body: peak and drawdown at the price of the entry, and the next index.
Tallied(r) ==
    LET worth == r.balance + TokenValue(r.holdings, Now.price)
        peak == Max({r.peak, worth})
    IN  [r EXCEPT !.peak = peak, !.drawdown = Max({@, ((peak - worth) * 100) \div peak})]

EndMint(result) ==
    /\ results' = Append(results, result)
    /\ file' = file + 1 /\ phase' = "file" /\ run' = NoRun

\* catch (e): the error is logged.  The strategy stays as it is.
Failed == EndMint([is |-> "failed"]) /\ UNCHANGED <<chosen, ls>>

Buys(trades) == Cardinality({k \in DOMAIN trades : trades[k].type = "buy"})

\* What runStrategy adds up after a mint that was simulated to an end.
Accumulated(r) ==
    LET profit == r.balance - ls.balance
        traded == r.trades # <<>>
        buys == Buys(r.trades)
        wins == ls.wins + (IF traded /\ profit >= 0 THEN 1 ELSE 0)
        losses == ls.losses + (IF traded /\ profit < 0 THEN 1 ELSE 0)
        trades == ls.trades + Len(r.trades)
        total == IF traded THEN ls.profit + profit ELSE ls.profit
    IN  [ls EXCEPT
           !.profit = total, !.trades = trades, !.wins = wins, !.losses = losses,
           !.buys = @ + buys, !.sells = @ + (Len(r.trades) - buys),
           !.holdingsValue = @ + TokenValue(r.holdings, Last(r.history).price),
           !.biggestWin = IF traded /\ profit >= 0 THEN Max({@, profit}) ELSE @,
           !.biggestLoss = IF traded /\ profit < 0 THEN Min({@, profit}) ELSE @,
           !.roi = (total * 100) \div InitialBalance,
           !.winRate = IF trades = 0 THEN 0 ELSE (wins * 100) \div (wins + losses),
           !.balance = @ + profit]

Curved_TroughKept(l) ==                    \* mutant: a new peak does not reset the trough
    IF l.balance > l.currentPeak
      THEN [l EXCEPT !.currentPeak = l.balance, !.highestPeak = Max({@, l.balance})]
    ELSE IF l.balance < l.currentTrough
      THEN [l EXCEPT !.currentTrough = l.balance, !.lowestTrough = Min({@, l.balance}),
                     !.drawdown = Max({@, ((l.currentPeak - l.balance) * 100) \div l.currentPeak})]
    ELSE l
\* Peaks, troughs and the drawdown of the balance.
Curved(l) ==
    IF l.balance > l.currentPeak
      THEN [l EXCEPT !.currentPeak = l.balance, !.currentTrough = l.balance, !.highestPeak = Max({@, l.balance})]
    ELSE IF l.balance < l.currentTrough
      THEN [l EXCEPT !.currentTrough = l.balance, !.lowestTrough = Min({@, l.balance}),
                     !.drawdown = Max({@, ((l.currentPeak - l.balance) * 100) \div l.currentPeak})]
    ELSE l

resetState(st) == [st EXCEPT !.position = NoPosition, !.buys = 0, !.sells = 0]

\* The simulation of a mint came to its end: by its history, its funds or its one trade.
Simulated(r, st) ==
    /\ results' = Append(results, [is |-> "simulated", trades |-> r.trades, holdings |-> r.holdings,
                                   profit |-> r.balance - ls.balance])
    /\ ls' = Curved(Accumulated(r))
    /\ strat' = resetState(st)
    /\ run' = NoRun
    /\ IF ls'.balance <= 0 \/ ls'.balance <= BuyAmount
         THEN phase' = "over" /\ UNCHANGED file
         ELSE phase' = "file" /\ file' = file + 1
    /\ UNCHANGED chosen

\* ------------------------------------------------------- runStrategy, files

StartMint ==
    /\ phase = "file" /\ file <= Files
    /\ \E report \in Histories[chosen] : run' = NewRun(report)
    /\ phase' = "entry"
    /\ UNCHANGED <<chosen, file, strat, late, ls, results>>

\* abortedRef() is asked before every file; after the last one the loop is over.
Stop ==
    /\ phase = "file"
    /\ phase' = "over"
    /\ UNCHANGED <<chosen, file, run, strat, late, ls, results>>

\* forceGetPumpCoinInitialData is awaited outside of the try block.
InfoUnavailable ==
    /\ phase = "file" /\ file <= Files
    /\ phase' = "rejected"
    /\ UNCHANGED <<chosen, file, run, strat, late, ls, results>>

\* ------------------------------------------------------------- taking an entry

AtEntry == phase = "entry" /\ run.i <= Len(run.history)
Entry == run.history[run.i]
ChangesStep == Entry.action = "buyCompleted"
Misfit == ChangesStep /\ run.monitor.buyTimeframeMs % run.monitor.sellTimeframeMs # 0

NextQuestion_Accumulates == "buy"          \* mutant: buys although it holds a position
NextQuestion == IF strat.position.held THEN "sell" ELSE "buy"

SkipEntry ==
    /\ AtEntry /\ Entry.price = Unknown
    /\ run' = [run EXCEPT !.i = @ + run.stepSize]
    /\ UNCHANGED <<chosen, file, phase, strat, late, ls, results>>

TakeEntry ==
    /\ AtEntry /\ Entry.price # Unknown /\ ~Misfit
    /\ run' = [run EXCEPT
                 !.soFar = Append(@, Entry),
                 !.stepSize = IF ChangesStep THEN run.monitor.buyTimeframeMs \div run.monitor.sellTimeframeMs ELSE @]
    /\ phase' = NextQuestion
    /\ UNCHANGED <<chosen, file, strat, late, ls, results>>

MisfitThrows ==
    /\ AtEntry /\ Entry.price # Unknown /\ Misfit
    /\ Failed /\ UNCHANGED <<strat, late>>

EndOfHistory ==
    /\ \/ phase = "traded"
       \/ phase = "entry" /\ run.i > Len(run.history) /\ run.history # <<>>
    /\ Simulated(run, strat)
    /\ UNCHANGED late

\* The holdings are valued at the price of the last entry, which must be there.
NoEntryThrows ==
    /\ phase = "entry" /\ run.history = <<>>
    /\ Failed /\ UNCHANGED <<strat, late>>

\* -------------------------------------------------------------------- buying

minBalanceToBuy(spent) == spent + PriorityFee + CreationFee + JitoTip
Funded ==
    \E latency \in BuyLatency : \E spent \in Slipped(BuyAmount, 1, BuySlippage, latency) :
      run.balance > minBalanceToBuy(spent)
BuyReplies == [DOMAIN Strategy.source.weights -> Replies[chosen]]
DownsideReplies == [DOMAIN Strategy.downside.source.weights -> Replies[chosen]]

NoFunds ==
    /\ phase = "buy"
    /\ \E latency \in BuyLatency : \E spent \in Slipped(BuyAmount, 1, BuySlippage, latency) :
         run.balance <= minBalanceToBuy(spent)
    /\ Simulated(run, strat)
    /\ UNCHANGED late

\* strategy.shouldBuy.  Its count is read before the request and written after it: a late write
\* that comes between is overwritten.
Writes(outcome) ==
    outcome.reason \in {"consecutivePredictionConfirmations", "minPredictedBuyConfidence",
                        "downside_prediction", "downside_prediction_error"}
Asked(outcome) ==
    late' \in {IF outcome.late THEN late \cup {outcome.count} ELSE late}
              \cup (IF Writes(outcome) THEN {{}} ELSE {})

Counted(outcome) == IF outcome.late THEN strat.buys ELSE outcome.count

DontBuy ==
    /\ phase = "buy" /\ Funded
    /\ \E replies \in BuyReplies, downsideReplies \in DownsideReplies :
         \E outcome \in BuyOutcomes(Strategy, strat.buys, run.soFar, replies, downsideReplies) :
           /\ ~outcome.buy /\ ~outcome.throws
           /\ Asked(outcome)
           /\ strat' = [strat EXCEPT !.buys = outcome.count]
    /\ phase' = "exit"
    /\ UNCHANGED <<chosen, file, run, ls, results>>

BuyThrows ==
    /\ phase = "buy" /\ Funded
    /\ \E replies \in BuyReplies, downsideReplies \in DownsideReplies :
         \E outcome \in BuyOutcomes(Strategy, strat.buys, run.soFar, replies, downsideReplies) :
           /\ outcome.throws
           /\ Asked(outcome)
           /\ strat' = [strat EXCEPT !.buys = Counted(outcome)]
    /\ Failed

\* The purchase is complete a latency later: the entries in between are not seen.
Bought(spent, latency, evidence) ==
    LET net == -spent - CreationFee - JitoTip - (BaseFee + PriorityFee)
    IN  [run EXCEPT
           !.holdings = @ + BuyAmount \div Now.price,
           !.balance = @ + net,
           !.trades = Append(@, [type |-> "buy", i |-> run.i, net |-> net,
                                 until |-> Now.timestamp + latency, reason |-> ""]),
           !.evidence = evidence,
           !.i = IF run.i < Len(run.history)
                   THEN getNextEntryIndex(run.history, run.i, Now.timestamp + latency, run.stepSize) ELSE @]

Buy ==
    /\ phase = "buy"
    /\ \E latency \in BuyLatency, replies \in BuyReplies, downsideReplies \in DownsideReplies :
       \E spent \in Slipped(BuyAmount, 1, BuySlippage, latency),
          outcome \in BuyOutcomes(Strategy, strat.buys, run.soFar, replies, downsideReplies) :
         /\ run.balance > minBalanceToBuy(spent)
         /\ outcome.buy
         /\ Asked(outcome)
         /\ run' = Bought(spent, latency, <<replies, downsideReplies>>)
         /\ strat' = [strat EXCEPT
                        !.position = [held |-> TRUE, timestamp |-> Now.timestamp, price |-> Now.price,
                                      seen |-> Len(run.soFar)],
                        !.orders = PlaceOrders(@, Strategy.limits, Now.price),
                        !.buys = outcome.count]
    /\ phase' = IF run.i < Len(run.history) THEN "entry" ELSE "sell"
    /\ UNCHANGED <<chosen, file, ls, results>>

\* ------------------------------------------------------------ leaving the mint

Leaves == ExitCode(Strategy, run.soFar, Now.timestamp - run.history[1].timestamp, FALSE)

Leave ==
    /\ phase = "exit" /\ Leaves # ""
    /\ EndMint([is |-> "left"])
    /\ strat' = resetState(strat)
    /\ UNCHANGED <<chosen, late, ls>>

Stay ==
    /\ phase = "exit" /\ Leaves = ""
    /\ run' = [Tallied(run) EXCEPT !.i = @ + run.stepSize]
    /\ phase' = "entry"
    /\ UNCHANGED <<chosen, file, strat, late, ls, results>>

\* -------------------------------------------------------------------- selling

SellReplies == [DOMAIN Strategy.sellSource.weights -> Replies[chosen]]
AutoSells ==
    Config.autoSellTimeoutMs # 0 /\ Now.timestamp - strat.position.timestamp >= Config.autoSellTimeoutMs

\* shouldSellRes after the three questions; an old answer that was not acted on remains.
Wanted(decision) ==
    LET asked == IF decision.sell THEN [sell |-> TRUE, reason |-> decision.reason]
                 ELSE IF AutoSells THEN [sell |-> TRUE, reason |-> "AUTO_SELL_TIMEOUT"] ELSE run.wanted
    IN  IF ~asked.sell /\ Config.sellUnclosedPositionsAtEnd /\ run.i = Len(run.history)
          THEN [sell |-> TRUE, reason |-> "BEFORE_EXIT_MONITORING"] ELSE asked

Considered(decided) == [strat EXCEPT !.orders = decided.orders, !.sells = decided.decision.count]

SellThrows ==
    /\ phase = "sell"
    /\ \E replies \in SellReplies :
         LET decided == SellDecision(Strategy, strat.orders, strat.sells, run.soFar, replies)
         IN  decided.decision.throws /\ strat' = Considered(decided)
    /\ Failed /\ UNCHANGED late

Hold ==
    /\ phase = "sell"
    /\ \E replies \in SellReplies :
         LET decided == SellDecision(Strategy, strat.orders, strat.sells, run.soFar, replies)
             wanted == Wanted(decided.decision)
         IN  /\ ~decided.decision.throws
             /\ ~wanted.sell \/ run.holdings = 0
             /\ strat' = Considered(decided)
             /\ run' = [Tallied(run) EXCEPT !.i = @ + run.stepSize, !.wanted = wanted]
    /\ phase' = "entry"
    /\ UNCHANGED <<chosen, file, late, ls, results>>

Sold(wanted, received, latency) ==
    LET net == received - JitoTip - (BaseFee + PriorityFee)
        sold == [run EXCEPT
                   !.balance = @ + net, !.holdings = 0, !.soldOnce = TRUE, !.wanted = Unsold,
                   !.trades = Append(@, [type |-> "sell", i |-> run.i, net |-> net,
                                         until |-> Now.timestamp + latency, reason |-> wanted.reason])]
        next == IF run.i < Len(run.history)
                  THEN getNextEntryIndex(run.history, run.i, Now.timestamp + latency, run.stepSize)
                  ELSE run.i + run.stepSize
    IN  [Tallied(sold) EXCEPT !.i = next]

Sell ==
    /\ phase = "sell" /\ run.holdings > 0
    /\ \E replies \in SellReplies, latency \in SellLatency :
         LET decided == SellDecision(Strategy, strat.orders, strat.sells, run.soFar, replies)
             wanted == Wanted(decided.decision)
         IN  /\ ~decided.decision.throws /\ wanted.sell
             /\ \E received \in Slipped(TokenValue(run.holdings, Now.price), -1, SellSlippage, latency) :
                  run' = Sold(wanted, received, latency)
             /\ strat' = [Considered(decided) EXCEPT !.position = NoPosition]
    /\ phase' = IF Config.onlyOneFullTrade THEN "traded" ELSE "entry"
    /\ UNCHANGED <<chosen, file, late, ls, results>>

\* ------------------------------------------------------------------ late writes

\* The other half of a decision whose downside request threw.
LateConfirmation ==
    \E count \in late :
      /\ strat' = [strat EXCEPT !.buys = count]
      /\ late' = late \ {count}
      /\ UNCHANGED <<chosen, file, phase, run, ls, results>>

Over == phase \in {"over", "rejected"} /\ UNCHANGED vars

Next ==
    \/ StartMint \/ Stop \/ InfoUnavailable
    \/ SkipEntry \/ TakeEntry \/ MisfitThrows \/ EndOfHistory \/ NoEntryThrows
    \/ NoFunds \/ DontBuy \/ BuyThrows \/ Buy
    \/ Leave \/ Stay
    \/ SellThrows \/ Hold \/ Sell
    \/ LateConfirmation \/ Over

Spec == Init /\ [][Next]_vars

\* ------------------------------------------------------------------ properties

Running == phase \notin {"file", "over", "rejected"}

\* The account of the strategy, seen from outside: the backtest of a mint is a session of
\* TradeSession.
Session == INSTANCE TradeSession WITH
    Start <- InitialBalance,
    BuyFees <- BaseFee + PriorityFee + JitoTip, SellFees <- BaseFee + PriorityFee + JitoTip, Overdraft <- BaseFee,
    booked <- ls.balance,
    cash <- IF Running THEN run.balance ELSE ls.balance,
    held <- IF Running THEN run.holdings ELSE 0

\* The strategy never holds two positions, a sale sells everything, the balance never falls below
\* zero by a purchase except by the base fee (which the check of the funds leaves out), and a mint
\* counts in the balance as a whole or not at all.
OneSessionPerMint == Session!SessionSpec

\* A position that is still open after an entry was looked at is within all its limits: above the
\* stop loss and the trailing stops under the highest price shown since the purchase, below the
\* take profit, and younger than the timeout.  The levels are computed here from the recorded
\* prices, not from the orders.
HeldWithinLimits ==
    (phase = "entry" /\ strat.position.held /\ run.holdings > 0 /\ Len(run.soFar) > strat.position.seen) =>
      LET limits == Strategy.limits
          paid == strat.position.price
          shown == {run.soFar[k].price : k \in strat.position.seen + 1 .. Len(run.soFar)}
          highest == Max(shown \cup {paid})
          price == 100 * Now.price
          activated == \E p \in shown : 100 * p >= paid * (100 + limits.trailingProfit)
      IN  /\ limits.stopLoss # 0 => price > paid * (100 - limits.stopLoss)
          /\ limits.takeProfit # 0 => price < paid * (100 + limits.takeProfit)
          /\ limits.trailingStop # 0 => price > highest * (100 - limits.trailingStop)
          /\ (limits.trailingProfit # 0 /\ activated) => price > highest * (100 - limits.trailingProfitStop)
          /\ Config.autoSellTimeoutMs # 0 =>
               Now.timestamp - strat.position.timestamp < Config.autoSellTimeoutMs

\* A trade is made on an entry recorded after the previous trade had completed.  Only the last
\* entry of the history stands for everything later.
TradesWaitForTheLast ==
    Running =>
      \A k \in 2 .. Len(run.trades) :
        LET before == run.trades[k - 1]
            at == run.trades[k].i
        IN  at >= before.i /\ (run.history[at].timestamp >= before.until \/ at = Len(run.history))

Good(reply) == reply.status = 200 /\ reply.value \in 0 .. 100

\* A strategy that buys on predictions has bought only with an answer of every model of the
\* ensemble, one of them confident, and with an answer of every downside model, one of them under
\* its threshold: a failed, missing or impossible answer is never taken for a good one, and no
\* way to aggregate answers makes more of them than there is.
BoughtOnEvidence ==
    (Running /\ run.evidence # <<>> /\ Strategy.name \in PredictionStrategies) =>
      LET replies == Range(run.evidence[1])
          downside == Range(run.evidence[2])
      IN  /\ \A reply \in replies : Good(reply)
          /\ \E reply \in replies : reply.value >= Strategy.minPredictedConfidence
          /\ Strategy.downside.executionMode # "none" =>
               /\ \A reply \in downside : Good(reply)
               /\ \E reply \in downside : reply.value < Strategy.downside.minPredictedConfidence

Profit(result) == IF result.is = "simulated" THEN result.profit ELSE 0
\* The balance after each of the first k mints.
Curve == [k \in 0 .. Len(results) |->
            InitialBalance + SumOf([j \in 1 .. k |-> Profit(results[j])])]
\* The mints that were simulated to an end and traded, and those of them left with a position.
Traded == {k \in DOMAIN results : results[k].is = "simulated" /\ results[k].trades # <<>>}
Unclosed == {k \in DOMAIN results : results[k].is = "simulated" /\ results[k].holdings > 0}

\* The result of the strategy describes the curve of its balance: peak, trough and the largest
\* fall from a peak, as if computed from the whole curve, and the wins, losses and trades of the
\* mints that were simulated.  A purchase without its sale is a position left open.
ResultDescribesCurve ==
    LET PeakUntil(k) == Max({Curve[j] : j \in 0 .. k})
        Fall(k) == ((PeakUntil(k) - Curve[k]) * 100) \div PeakUntil(k)
    IN  /\ ls.balance = Curve[Len(results)] /\ ls.profit = ls.balance - InitialBalance
        /\ ls.highestPeak = PeakUntil(Len(results))
        /\ ls.lowestTrough = Min({Curve[k] : k \in DOMAIN Curve})
        /\ ls.drawdown = Max({Fall(k) : k \in DOMAIN Curve})
        /\ ls.wins = Cardinality({k \in Traded : Profit(results[k]) >= 0})
        /\ ls.wins + ls.losses = Cardinality(Traded)
        /\ ls.buys - ls.sells = Cardinality(Traded \cap Unclosed)

\* LaunchpadBotStrategy.ts:57 "This must be always called in order to reuse the strategy with a
\* new asset": a mint is started with a strategy that has neither a position nor confirmations of
\* an earlier one.
EachMintStartsClean ==
    (Running /\ run.soFar = <<>>) => ~strat.position.held /\ strat.buys = 0 /\ strat.sells = 0

\* types.ts:237 "This ensures that all trades are closed by the end of the backtest."
AllTradesAreClosed ==
    Config.sellUnclosedPositionsAtEnd => Unclosed = {}
=============================================================================
