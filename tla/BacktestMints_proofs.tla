------------------------ MODULE BacktestMints_proofs ------------------------
(***************************************************************************)
(* Proofs about the backtest of a strategy, for any strategies, histories, *)
(* fees, slippages and latencies: what it does with its money is a session *)
(* of TradeSession, its trades wait for each other, a position that is     *)
(* kept is within its limits, a purchase rests on answers of all the       *)
(* models, and the result describes the curve of the balance.              *)
(*                                                                         *)
(* The money needs that tokens are only held with a position: an error in  *)
(* the middle of a mint leaves the position to the next one, which starts  *)
(* without tokens, so the converse is false.  The limits need what each    *)
(* order remembers of the prices it was shown, told from the recorded      *)
(* prices alone; the order of a sale is behind by the entry in hand.  The  *)
(* evidence needs what an aggregate says of its values, by sums; the       *)
(* result what it says of the curve so far, and that the purchases of a    *)
(* mint are sold but for the tokens that are left.                         *)
(***************************************************************************)
EXTENDS BacktestMints, FiniteSetTheorems, WellFoundedInduction, TLAPS

-----------------------------------------------------------------------------
(* The inductive invariant.                                                  *)

Phases == {"file", "entry", "buy", "exit", "sell", "traded", "over", "rejected"}
Questions == {"buy", "exit", "sell"}
RunFields == {"history", "monitor", "i", "stepSize", "soFar", "balance", "holdings", "soldOnce",
              "trades", "peak", "drawdown", "wanted", "evidence"}
Priced == {entry \in Entries : entry.price # Unknown}

IsTrades(trades) ==
  /\ trades \in Seq(Range(trades))
  /\ \A k \in DOMAIN trades : trades[k].i \in Nat \ {0} /\ trades[k].until \in Nat

(* The local variables of a run.                                             *)
Fits(r) ==
  /\ DOMAIN r = RunFields
  /\ [history |-> r.history, monitor |-> r.monitor] \in Reports
  /\ r.i \in Nat \ {0} /\ r.stepSize \in Nat \ {0}
  /\ r.soFar \in Seq(Priced) /\ IsTrades(r.trades)
  /\ r.balance \in Int /\ r.holdings \in Nat

Types ==
  /\ chosen \in Runs /\ phase \in Phases
  /\ DOMAIN strat = {"position", "orders", "buys", "sells"}
  /\ strat.position.held \in BOOLEAN
  /\ "balance" \in DOMAIN ls /\ ls.balance \in Int
  /\ Running => Fits(run)

(* The entry a question is about.                                            *)
InHand ==
  phase \in Questions =>
    /\ run.i \in DOMAIN run.history
    /\ run.soFar # <<>> /\ Now = run.history[run.i]

(* Tokens come with a position, and nobody who has one is asked to buy.      *)
Holding ==
  /\ Running /\ run.holdings > 0 => strat.position.held
  /\ phase \in {"buy", "exit"} => ~strat.position.held

(* The loop has waited for the last trade.                                   *)
Waiting ==
  Running /\ run.trades # <<>> =>
    LET last == Last(run.trades)
    IN  /\ last.i \in DOMAIN run.history /\ last.i <= run.i
        /\ run.i >= Len(run.history) \/ run.history[run.i].timestamp >= last.until

(* The prices the orders of a position were shown, and the highest of them.  *)
Paid == strat.position.price
ShownUntil == IF phase = "sell" THEN Len(run.soFar) - 1 ELSE Len(run.soFar)
ShownPrices == {run.soFar[k].price : k \in strat.position.seen + 1 .. ShownUntil}
Highest == {h \in ShownPrices \cup {Paid} : \A p \in ShownPrices \cup {Paid} : h >= p}
Reaches(p) == 100 * p >= Paid * (100 + Strategy.limits.trailingProfit)

FixedOrders ==
  /\ Strategy.limits.takeProfit # 0 =>
       strat.orders.takeProfit = TakeProfitPercentage(Paid, Strategy.limits.takeProfit)
  /\ Strategy.limits.stopLoss # 0 =>
       strat.orders.stopLoss = StopLossPercentage(Paid, Strategy.limits.stopLoss)

StopFields == {"placed", "highestPrice", "trailing", "stopPrice"}
IsTrailingStop(order, h) ==
  LET trailing == Strategy.limits.trailingStop
  IN  /\ DOMAIN order = StopFields /\ order.placed
      /\ order.highestPrice = h /\ order.trailing = trailing
      /\ order.stopPrice = h * (100 - trailing)

TrailingStopFollows ==
  Strategy.limits.trailingStop # 0 =>
    \E h \in Highest : IsTrailingStop(strat.orders.trailingStopLoss, h)

ProfitFields == {"placed", "highestPrice", "profit", "stop", "takeProfitPrice", "stopPrice", "isActive"}
IsTrailingProfit(order, h, active) ==
  LET profit == Strategy.limits.trailingProfit
      stop == Strategy.limits.trailingProfitStop
  IN  /\ DOMAIN order = ProfitFields /\ order.placed
      /\ order.highestPrice = h /\ order.profit = profit /\ order.stop = stop
      /\ order.takeProfitPrice = h * (100 + profit) /\ order.stopPrice = h * (100 - stop)
      /\ order.isActive <=> active

TrailingProfitFollows ==
  Strategy.limits.trailingProfit # 0 =>
    IF \E p \in ShownPrices : Reaches(p)
      THEN \E h \in Highest : IsTrailingProfit(strat.orders.trailingTakeProfit, h, TRUE)
      ELSE IsTrailingProfit(strat.orders.trailingTakeProfit, Paid, FALSE)

OrdersFollow ==
  Running /\ run.holdings > 0 =>
    /\ Paid \in Nat \ {0} /\ strat.position.seen \in DOMAIN run.soFar
    /\ run.soFar[strat.position.seen].price = Paid
    /\ strat.position.timestamp \in Nat /\ DOMAIN strat.orders = OrderNames
    /\ FixedOrders /\ TrailingStopFollows /\ TrailingProfitFollows

(* What the live result says of a curve of n + 1 balances.                   *)
PeakUntil(c, k) == Max({c[j] : j \in 0 .. k})
Fall(peak, balance) == ((peak - balance) * 100) \div peak
IsPeak(peak, c, k) == (\E j \in 0 .. k : peak = c[j]) /\ \A j \in 0 .. k : c[j] <= peak
IsTrough(trough, c, k) == (\E j \in 0 .. k : trough = c[j]) /\ \A j \in 0 .. k : c[j] >= trough

LiveFields ==
  {"balance", "profit", "trades", "buys", "sells", "winRate", "roi", "holdingsValue", "wins", "losses",
   "highestPeak", "lowestTrough", "currentPeak", "currentTrough", "drawdown", "biggestWin", "biggestLoss"}

Describes(l, c, n) ==
  /\ \A k \in 0 .. n : c[k] \in Int
  /\ c[0] > 0 /\ l.balance = c[n]
  /\ l.currentPeak = l.highestPeak /\ IsPeak(l.highestPeak, c, n)
  /\ IsTrough(l.lowestTrough, c, n)
  /\ l.currentTrough \in Int /\ l.lowestTrough <= l.currentTrough
  /\ l.currentTrough <= l.balance /\ l.balance <= l.currentPeak
  /\ l.drawdown \in Int /\ l.drawdown >= Fall(l.currentPeak, l.currentTrough)
  /\ \E k \in 0 .. n : l.drawdown = Fall(PeakUntil(c, k), c[k])
  /\ \A k \in 0 .. n : Fall(PeakUntil(c, k), c[k]) \in Int /\ Fall(PeakUntil(c, k), c[k]) <= l.drawdown

(* The curve and the counts of the mints.                                    *)
IsResult(result) == result.is \in {"simulated", "left", "failed"} /\ Profit(result) \in Int
IsResults(list) == list \in Seq(Range(list)) /\ \A k \in DOMAIN list : IsResult(list[k])
Won == {k \in Traded : Profit(results[k]) >= 0}
Counts ==
  /\ DOMAIN ls = LiveFields
  /\ \A field \in {"profit", "buys", "sells", "wins", "losses"} : ls[field] \in Int
  /\ ls.profit = ls.balance - InitialBalance
  /\ ls.wins = Cardinality(Won) /\ ls.wins + ls.losses = Cardinality(Traded)
  /\ ls.buys - ls.sells = Cardinality(Traded \cap Unclosed)
Described == IsResults(results) /\ Describes(ls, Curve, Len(results)) /\ Counts

(* A mint's purchases are sold but for the tokens it holds.                  *)
Open(r) == IF r.holdings > 0 THEN 1 ELSE 0
Traceable ==
  Running =>
    /\ run.trades = <<>> => run.balance = ls.balance /\ run.holdings = 0
    /\ Buys(run.trades) - (Len(run.trades) - Buys(run.trades)) = Open(run)

IInv ==
  /\ Types /\ InHand /\ Holding
  /\ TradesWaitForTheLast /\ Waiting
  /\ OrdersFollow /\ HeldWithinLimits
  /\ BoughtOnEvidence
  /\ Described /\ Traceable
-----------------------------------------------------------------------------
(* What the operators of the module do.                                      *)

(* A set of naturals that is not empty has its minimum.                      *)
LEMMA MinOfNaturals ==
  ASSUME NEW T, T \subseteq Nat, T # {}
  PROVE  Min(T) \in T /\ \A j \in T : Min(T) <= j
<1>1. PICK i \in T : \A j \in T : ~(<<j, i>> \in OpToRel(<, Nat))
  BY NatLessThanWellFounded, WFMin
<1>2. \A j \in T : ~(j < i)
  BY <1>1 DEF OpToRel
<1>3. \A j \in T : i <= j
  BY <1>2
<1>4. QED BY <1>3 DEF Min

(* A set that contains an upper bound of itself has it as its maximum.       *)
LEMMA MaxIsUpperBound ==
  ASSUME NEW T, T \subseteq Int, NEW h \in T, \A p \in T : h >= p
  PROVE  Max(T) = h
<1>1. Max(T) \in T /\ \A p \in T : Max(T) >= p
  BY DEF Max
<1>2. Max(T) >= h /\ h >= Max(T)
  BY <1>1
<1>3. Max(T) \in Int /\ h \in Int
  BY <1>1
<1>4. QED BY <1>2, <1>3

(* Amounts stay amounts.                                                     *)
LEMMA Product == ASSUME NEW a \in Nat, NEW b \in Nat PROVE a * b \in Nat
OBVIOUS

LEMMA Quotient ==
  ASSUME NEW a \in Nat, NEW b \in Nat \ {0}
  PROVE  a \div b \in Nat /\ (b <= a => a \div b > 0)
OBVIOUS

(* The entry that follows is behind none, and late enough unless it is the   *)
(* last one.                                                                 *)
LEMMA NextEntryWaits ==
  ASSUME NEW history \in Seq(Entries), NEW from \in DOMAIN history, NEW time \in Int, NEW step \in Nat \ {0}
  PROVE  LET next == getNextEntryIndex(history, from, time, step)
         IN  /\ next \in DOMAIN history /\ from <= next
             /\ next = Len(history) \/ history[next].timestamp >= time
<1> DEFINE later == {j \in from .. Len(history) :
                       (j - from) % step = 0 /\ history[j].timestamp >= time}
<1>1. Len(history) \in Nat /\ from \in 1 .. Len(history)
  OBVIOUS
<1>2. CASE later = {}
  BY <1>1, <1>2 DEF getNextEntryIndex
<1>3. CASE later # {}
  <2>1. later \subseteq Nat
    BY <1>1
  <2>2. Min(later) \in later
    <3> HIDE DEF later
    <3>1. QED BY <1>3, <2>1, MinOfNaturals
  <2>3. getNextEntryIndex(history, from, time, step) = Min(later)
    BY <1>3 DEF getNextEntryIndex
  <2>4. QED BY <1>1, <2>2, <2>3
<1>4. QED BY <1>2, <1>3

(* The entry whose price counts is one of the history.                       *)
LEMMA ClosestEntryInside ==
  ASSUME NEW history \in Seq(Entries), NEW from \in DOMAIN history, NEW time \in Int, NEW step \in Nat \ {0}
  PROVE  getClosestEntryIndex(history, from, time, step) \in DOMAIN history
<1>1. getNextEntryIndex(history, from, time, step) \in DOMAIN history
  BY NextEntryWaits
<1>2. \/ getClosestEntryIndex(history, from, time, step) = from
      \/ getClosestEntryIndex(history, from, time, step) = getNextEntryIndex(history, from, time, step)
  BY Zenon DEF getClosestEntryIndex
<1>3. QED BY <1>1, <1>2

(* What a question knows of the entry in hand.                               *)
LEMMA EntryInHand ==
  ASSUME Types, InHand, phase \in Questions
  PROVE  /\ Running /\ Fits(run)
         /\ run.history \in Seq(Entries) /\ InOrder(run.history)
         /\ run.i \in DOMAIN run.history /\ Now = run.history[run.i]
         /\ Now \in Priced /\ Now.timestamp \in Nat /\ Now.price \in 1 .. BuyAmount
<1>1. Running /\ Fits(run)
  BY DEF Types, Running, Questions
<1>2. run.history \in Seq(Entries) /\ InOrder(run.history)
  BY <1>1 DEF Fits, Reports
<1>3. run.i \in DOMAIN run.history /\ Now = run.history[run.i] /\ run.soFar # <<>>
  BY DEF InHand
<1>4. Now \in Priced
  BY <1>1, <1>3 DEF Now, Last, Fits
<1>5. Now.timestamp \in Nat /\ Now.price \in 1 .. BuyAmount
  BY <1>4 DEF Priced, Entries
<1>6. QED BY <1>1, <1>2, <1>3, <1>4, <1>5

(* A price of the closest entry, counted as 0 when it is null.               *)
LEMMA ClosestPrice ==
  ASSUME Types, InHand, phase \in Questions, NEW time \in Int
  PROVE  LET price == run.history[getClosestEntryIndex(run.history, run.i, time, run.stepSize)].price
         IN  (IF price = Unknown THEN 0 ELSE price) \in Nat
<1> DEFINE at == getClosestEntryIndex(run.history, run.i, time, run.stepSize)
<1>1. /\ run.history \in Seq(Entries) /\ run.i \in DOMAIN run.history
      /\ run.stepSize \in Nat \ {0}
  BY EntryInHand DEF Fits
<1>2. at \in DOMAIN run.history
  BY <1>1, ClosestEntryInside
<1> HIDE DEF at
<1>3. run.history[at] \in Entries
  BY <1>1, <1>2
<1>4. run.history[at].price \in {Unknown} \cup 1 .. BuyAmount
  BY <1>3 DEF Entries
<1>5. (IF run.history[at].price = Unknown THEN 0 ELSE run.history[at].price) \in Nat
  BY <1>4, MintsAssumption
<1>6. QED BY <1>5 DEF at

(* Whatever the slippage, nobody is paid for buying or pays for selling.     *)
LEMMA SlippedIsNatural ==
  ASSUME Types, InHand, phase \in Questions,
         NEW worth \in Nat, NEW direction \in {-1, 1}, NEW slippages, NEW latency \in Nat,
         Config.slippages # "closestEntry" =>
           slippages[Config.slippages] \subseteq (IF direction = 1 THEN Nat ELSE 0 .. 100),
         NEW amount \in Slipped(worth, direction, slippages, latency)
  PROVE  amount \in Nat
<1>1. CASE Config.slippages # "closestEntry"
  <2>1. PICK s \in slippages[Config.slippages] : amount = (worth * (100 + direction * s)) \div 100
    BY <1>1 DEF Slipped
  <2>2. 100 + direction * s \in Nat
    BY <1>1, <2>1
  <2>3. worth * (100 + direction * s) \in Nat
    BY <2>2, Product
  <2>4. QED BY <2>1, <2>3, Quotient
<1>2. CASE Config.slippages = "closestEntry"
  <2> DEFINE at == getClosestEntryIndex(run.history, run.i, Now.timestamp + latency \div 4, run.stepSize)
             price == run.history[at].price
  <2>1. amount = (worth \div Now.price) * (IF price = Unknown THEN 0 ELSE price)
    BY <1>2 DEF Slipped
  <2>2. Now.timestamp \in Nat /\ Now.price \in Nat \ {0}
    BY EntryInHand, MintsAssumption
  <2>3. (IF price = Unknown THEN 0 ELSE price) \in Nat
    <3>1. Now.timestamp + latency \div 4 \in Int
      BY <2>2
    <3>2. QED BY <3>1, ClosestPrice
  <2>4. worth \div Now.price \in Nat
    BY <2>2, Quotient
  <2>5. QED
    <3> HIDE DEF price
    <3>1. QED BY <2>1, <2>3, <2>4, Product
<1>3. QED BY <1>1, <1>2

LEMMA SpentIsNatural ==
  ASSUME Types, InHand, phase = "buy", NEW latency \in BuyLatency,
         NEW spent \in Slipped(BuyAmount, 1, BuySlippage, latency)
  PROVE  spent \in Nat
<1>1. Config.slippages # "closestEntry" => BuySlippage[Config.slippages] \subseteq Nat
  BY SettingsAssumption DEF Types, Config
<1>2. BuyAmount \in Nat /\ latency \in Nat /\ phase \in Questions
  BY MintsAssumption DEF Questions
<1>3. QED BY <1>1, <1>2, SlippedIsNatural

LEMMA ReceivedIsNatural ==
  ASSUME Types, InHand, phase = "sell", NEW latency \in SellLatency,
         NEW received \in Slipped(TokenValue(run.holdings, Now.price), -1, SellSlippage, latency)
  PROVE  received \in Nat
<1>1. Config.slippages # "closestEntry" => SellSlippage[Config.slippages] \subseteq 0 .. 100
  BY SettingsAssumption DEF Types, Config
<1>2. latency \in Nat /\ phase \in Questions
  BY MintsAssumption DEF Questions
<1>3. run.holdings \in Nat /\ Now.price \in Nat
  BY <1>2, EntryInHand, MintsAssumption DEF Fits
<1>4. TokenValue(run.holdings, Now.price) \in Nat
  BY <1>3, Product DEF TokenValue
<1>5. QED BY <1>1, <1>2, <1>4, SlippedIsNatural

(* The end of the loop body counts; nothing else of the run changes.         *)
LEMMA TalliedKeeps ==
  ASSUME NEW r, DOMAIN r = RunFields
  PROVE  /\ DOMAIN Tallied(r) = RunFields
         /\ \A field \in RunFields \ {"peak", "drawdown"} : Tallied(r)[field] = r[field]
<1>1. PICK a, b : Tallied(r) = [[r EXCEPT !.peak = a] EXCEPT !.drawdown = b]
  BY DEF Tallied
<1>2. QED BY <1>1 DEF RunFields

(* After a mint the balance is that of its run, whatever is added up besides. *)
LEMMA BalanceCounted ==
  ASSUME NEW r, r.balance \in Int, "balance" \in DOMAIN ls, ls.balance \in Int
  PROVE  /\ "balance" \in DOMAIN Curved(Accumulated(r))
         /\ Curved(Accumulated(r)).balance = r.balance
<1>1. /\ "balance" \in DOMAIN Accumulated(r)
      /\ Accumulated(r).balance = r.balance
  <2>1. DOMAIN Accumulated(r) = DOMAIN ls
    BY DEF Accumulated
  <2>2. Accumulated(r).balance = ls.balance + (r.balance - ls.balance)
    BY DEF Accumulated
  <2>3. QED BY <2>1, <2>2
<1>2. ASSUME NEW l, "balance" \in DOMAIN l
      PROVE  "balance" \in DOMAIN Curved(l) /\ Curved(l).balance = l.balance
  BY <1>2 DEF Curved
<1>3. QED
  <2> DEFINE l == Accumulated(r)
  <2>1. "balance" \in DOMAIN l /\ l.balance = r.balance
    BY <1>1
  <2> HIDE DEF l
  <2>2. "balance" \in DOMAIN Curved(l) /\ Curved(l).balance = r.balance
    BY <1>2, <2>1
  <2>3. QED BY <2>2 DEF l


(* A trade is added at the end.                                              *)
LEMMA Trading ==
  ASSUME NEW trades, IsTrades(trades), NEW trade, trade.i \in Nat \ {0}, trade.until \in Nat
  PROVE  /\ IsTrades(Append(trades, trade))
         /\ Len(trades) \in Nat /\ DOMAIN trades = 1 .. Len(trades)
         /\ Len(Append(trades, trade)) = Len(trades) + 1
         /\ \A k \in DOMAIN trades : Append(trades, trade)[k] = trades[k]
         /\ Append(trades, trade)[Len(trades) + 1] = trade
<1> DEFINE All == Range(trades) \cup {trade}
           longer == Append(trades, trade)
<1>1. trades \in Seq(All) /\ trade \in All
  BY DEF IsTrades
<1> HIDE DEF All
<1>2. /\ longer \in Seq(All) /\ Len(trades) \in Nat /\ DOMAIN trades = 1 .. Len(trades)
      /\ DOMAIN longer = 1 .. Len(trades) + 1 /\ Len(longer) = Len(trades) + 1
      /\ \A k \in DOMAIN trades : longer[k] = trades[k]
      /\ longer[Len(trades) + 1] = trade
  BY <1>1
<1> HIDE DEF longer
<1>3. longer \in Seq(Range(longer))
  BY <1>2 DEF Range
<1>4. \A k \in DOMAIN longer : longer[k].i \in Nat \ {0} /\ longer[k].until \in Nat
  BY <1>2 DEF IsTrades
<1>5. QED BY <1>2, <1>3, <1>4 DEF longer, IsTrades

-----------------------------------------------------------------------------
(* Sums, and what is larger than what.                                       *)

(* A property of 0 that n passes on to n + 1 is one of all up to N.          *)
LEMMA Upwards ==
  ASSUME NEW N \in Nat, NEW Has, 0 \in Has,
         \A n \in 1 .. N : n - 1 \in Has => n \in Has
  PROVE  \A n \in 0 .. N : n \in Has
<1> DEFINE T == {n \in 0 .. N : n \notin Has}
<1>1. SUFFICES ASSUME T # {} PROVE FALSE
  OBVIOUS
<1>2. T \subseteq Nat
  OBVIOUS
<1>3. Min(T) \in T /\ \A j \in T : Min(T) <= j
  <2> HIDE DEF T
  <2>1. QED BY <1>1, <1>2, MinOfNaturals
<1> DEFINE n == Min(T)
<1>4. n \in 1 .. N /\ n - 1 \in 0 .. N /\ n \notin Has
  BY <1>3
<1>5. n - 1 \notin T
  <2> HIDE DEF T
  <2>1. n \in Nat
    BY <1>2, <1>3
  <2>2. QED BY <1>3, <2>1
<1>6. QED BY <1>4, <1>5

LEMMA SumTableExists ==
  ASSUME NEW numbers, NEW N \in Nat
  PROVE  \E g : g = [k \in 0 .. N |-> IF k = 0 THEN 0 ELSE g[k - 1] + numbers[k]]
<1> DEFINE Table(g, n) == g = [k \in 0 .. n |-> IF k = 0 THEN 0 ELSE g[k - 1] + numbers[k]]
           Has == {n \in Nat : \E g : Table(g, n)}
<1>1. 0 \in Has
  <2>1. Table([k \in 0 .. 0 |-> 0], 0)
    OBVIOUS
  <2>2. QED BY <2>1
<1>2. ASSUME NEW n \in 1 .. N, n - 1 \in Has PROVE n \in Has
  <2>1. n - 1 \in Nat /\ n \in Nat /\ n # 0
    OBVIOUS
  <2>2. PICK g : Table(g, n - 1)
    BY <1>2
  <2> DEFINE h == [k \in 0 .. n |-> IF k = n THEN g[n - 1] + numbers[n] ELSE g[k]]
  <2>3. \A k \in 0 .. n : h[k] = IF k = 0 THEN 0 ELSE h[k - 1] + numbers[k]
    <3>1. \A k \in 0 .. n - 1 : g[k] = IF k = 0 THEN 0 ELSE g[k - 1] + numbers[k]
      BY <2>2
    <3>2. \A k \in 0 .. n - 1 : h[k] = g[k]
      BY <2>1
    <3>3. h[n] = h[n - 1] + numbers[n]
      BY <2>1, <3>2
    <3>4. QED
      BY <2>1, <3>1, <3>2, <3>3
  <2>4. Table(h, n)
    <3> HIDE DEF h
    <3>1. h = [k \in 0 .. n |-> h[k]]
      BY DEF h
    <3>2. QED BY <2>3, <3>1
  <2>5. QED BY <2>1, <2>4
<1>3. \A n \in 0 .. N : n \in Has
  <2> HIDE DEF Has
  <2>1. QED BY <1>1, <1>2, Upwards
<1>4. QED BY <1>3

(* The sums of the first numbers.                                            *)
IsSums(sums, numbers) ==
  /\ sums[0] = 0
  /\ \A k \in 1 .. Len(numbers) : sums[k] = sums[k - 1] + numbers[k]

LEMMA SumSteps ==
  ASSUME NEW numbers \in Seq(Int)
  PROVE  \E sums : /\ IsSums(sums, numbers) /\ SumOf(numbers) = sums[Len(numbers)]
                   /\ \A k \in 0 .. Len(numbers) : sums[k] \in Int
<1> DEFINE N == Len(numbers)
           sum[k \in 0 .. N] == IF k = 0 THEN 0 ELSE sum[k - 1] + numbers[k]
<1>1. SumOf(numbers) = sum[N]
  BY DEF SumOf
<1>2. N \in Nat
  OBVIOUS
<1>3. sum = [k \in 0 .. N |-> IF k = 0 THEN 0 ELSE sum[k - 1] + numbers[k]]
  <2>1. \E g : g = [k \in 0 .. N |-> IF k = 0 THEN 0 ELSE g[k - 1] + numbers[k]]
    <3> HIDE DEF N
    <3>1. QED BY <1>2, SumTableExists
  <2>2. QED BY <2>1
<1> HIDE DEF sum
<1>4. sum[0] = 0
  BY <1>2, <1>3
<1>5. \A k \in 1 .. N : sum[k] = sum[k - 1] + numbers[k]
  <2>1. \A k \in 1 .. N : k \in 0 .. N /\ k # 0
    OBVIOUS
  <2>2. QED BY <1>3, <2>1
<1>6. \A k \in 0 .. N : sum[k] \in Int
  <2> DEFINE Has == {k \in 0 .. N : sum[k] \in Int}
  <2>1. 0 \in Has
    BY <1>2, <1>4
  <2>2. ASSUME NEW k \in 1 .. N, k - 1 \in Has PROVE k \in Has
    <3>1. numbers[k] \in Int
      OBVIOUS
    <3>2. QED BY <1>5, <2>2, <3>1
  <2>3. \A k \in 0 .. N : k \in Has
    <3> HIDE DEF Has, N
    <3>1. QED BY <1>2, <2>1, <2>2, Upwards
  <2>4. QED BY <2>3
<1>7. QED BY <1>1, <1>4, <1>5, <1>6 DEF IsSums

(* What starts lower and never grows more stays lower.                       *)
LEMMA GrowsSlower ==
  ASSUME NEW N \in Nat, NEW s, NEW t,
         \A k \in 0 .. N : s[k] \in Int /\ t[k] \in Int,
         s[0] <= t[0],
         \A k \in 1 .. N : s[k] - s[k - 1] <= t[k] - t[k - 1]
  PROVE  \A k \in 0 .. N : s[k] <= t[k]
<1> DEFINE Has == {k \in 0 .. N : s[k] <= t[k]}
<1>1. 0 \in Has
  OBVIOUS
<1>2. ASSUME NEW k \in 1 .. N, k - 1 \in Has PROVE k \in Has
  <2>1. k \in 0 .. N /\ k - 1 \in 0 .. N
    OBVIOUS
  <2>2. s[k] \in Int /\ t[k] \in Int /\ s[k - 1] \in Int /\ t[k - 1] \in Int
    BY <2>1
  <2>3. s[k - 1] <= t[k - 1] /\ s[k] - s[k - 1] <= t[k] - t[k - 1]
    BY <1>2
  <2>4. s[k] <= t[k]
    BY <2>2, <2>3
  <2>5. QED BY <2>1, <2>4
<1>3. \A k \in 0 .. N : k \in Has
  <2> HIDE DEF Has
  <2>1. QED BY <1>1, <1>2, Upwards
<1>4. QED BY <1>3

LEMMA SumIsInteger == ASSUME NEW numbers \in Seq(Int) PROVE SumOf(numbers) \in Int
<1>1. PICK sums : /\ SumOf(numbers) = sums[Len(numbers)]
                  /\ \A k \in 0 .. Len(numbers) : sums[k] \in Int
  BY SumSteps
<1>2. Len(numbers) \in 0 .. Len(numbers)
  OBVIOUS
<1>3. QED BY <1>1, <1>2

(* The sum of a sequence is that of all but the last, and the last.          *)
LEMMA SumGrows ==
  ASSUME NEW shorter \in Seq(Int), NEW longer \in Seq(Int), Len(longer) = Len(shorter) + 1,
         \A k \in DOMAIN shorter : longer[k] = shorter[k]
  PROVE  SumOf(longer) = SumOf(shorter) + longer[Len(longer)]
<1> DEFINE N == Len(shorter)
<1>1. N \in Nat /\ Len(longer) = N + 1
  OBVIOUS
<1>2. PICK s : IsSums(s, shorter) /\ SumOf(shorter) = s[N] /\ \A k \in 0 .. N : s[k] \in Int
  BY SumSteps
<1>3. PICK t : /\ IsSums(t, longer) /\ SumOf(longer) = t[N + 1]
               /\ \A k \in 0 .. N + 1 : t[k] \in Int
  BY <1>1, SumSteps
<1>4. \A k \in 1 .. N : shorter[k] \in Int /\ longer[k] = shorter[k]
  OBVIOUS
<1> HIDE DEF N
<1>5. \A k \in 0 .. N : s[k] \in Int /\ t[k] \in Int
  BY <1>1, <1>2, <1>3
<1>6. s[0] = 0 /\ t[0] = 0
  BY <1>2, <1>3 DEF IsSums
<1>7. \A k \in 1 .. N : s[k] = s[k - 1] + shorter[k] /\ t[k] = t[k - 1] + shorter[k]
  BY <1>1, <1>2, <1>3, <1>4 DEF IsSums, N
<1>8. \A k \in 1 .. N : s[k] - s[k - 1] = t[k] - t[k - 1]
  <2>1. ASSUME NEW k \in 1 .. N PROVE s[k] - s[k - 1] = t[k] - t[k - 1]
    <3>1. k \in 0 .. N /\ k - 1 \in 0 .. N
      BY <1>1
    <3>2. s[k - 1] \in Int /\ t[k - 1] \in Int /\ shorter[k] \in Int
      BY <1>4, <1>5, <3>1
    <3>3. s[k] = s[k - 1] + shorter[k] /\ t[k] = t[k - 1] + shorter[k]
      BY <1>7
    <3>4. QED BY <3>2, <3>3
  <2>2. QED BY <2>1
<1>9. ASSUME NEW k \in 1 .. N
      PROVE  s[k] - s[k - 1] <= t[k] - t[k - 1] /\ t[k] - t[k - 1] <= s[k] - s[k - 1]
  <2>1. k \in 0 .. N /\ k - 1 \in 0 .. N
    BY <1>1
  <2>2. s[k] \in Int /\ s[k - 1] \in Int /\ t[k] \in Int /\ t[k - 1] \in Int
    BY <1>5, <2>1
  <2>3. s[k] - s[k - 1] = t[k] - t[k - 1]
    BY <1>8
  <2>4. QED BY <2>2, <2>3
<1>10. \A k \in 0 .. N : s[k] <= t[k]
  <2>1. s[0] <= t[0]
    BY <1>6
  <2>2. \A k \in 1 .. N : s[k] - s[k - 1] <= t[k] - t[k - 1]
    BY <1>9
  <2>3. QED BY <1>1, <1>5, <2>1, <2>2, GrowsSlower
<1>11. \A k \in 0 .. N : t[k] <= s[k]
  <2>1. t[0] <= s[0]
    BY <1>6
  <2>2. \A k \in 1 .. N : t[k] - t[k - 1] <= s[k] - s[k - 1]
    BY <1>9
  <2>3. QED BY <1>1, <1>5, <2>1, <2>2, GrowsSlower
<1>12. N \in 0 .. N
  BY <1>1
<1>13. t[N] = s[N]
  BY <1>5, <1>10, <1>11, <1>12
<1>14. t[N + 1] = t[N] + longer[N + 1]
  <2>1. \A k \in 1 .. Len(longer) : t[k] = t[k - 1] + longer[k]
    BY <1>3 DEF IsSums
  <2>2. PICK m \in 1 .. Len(longer) : m = N + 1
    BY <1>1
  <2>3. t[m] = t[m - 1] + longer[m]
    BY <2>1
  <2>4. m - 1 = N
    BY <1>1, <2>2
  <2>5. QED BY <2>2, <2>3, <2>4
<1>15. QED BY <1>1, <1>2, <1>3, <1>13, <1>14

(* A sum of multiples, each at most c times its weight, is at most c times   *)
(* the weights; and the same for at least.                                   *)
LEMMA IntProduct == ASSUME NEW a \in Int, NEW b \in Int PROVE a * b \in Int
OBVIOUS

LEMMA Distributes ==
  ASSUME NEW c \in Int, NEW a \in Int, NEW b \in Int PROVE c * (a + b) = c * a + c * b
OBVIOUS

LEMMA SumScaled ==
  ASSUME NEW numbers \in Seq(Int), NEW weights \in Seq(Int), Len(numbers) = Len(weights), NEW c \in Int
  PROVE  /\ (\A k \in DOMAIN numbers : numbers[k] <= c * weights[k]) => SumOf(numbers) <= c * SumOf(weights)
         /\ (\A k \in DOMAIN numbers : numbers[k] >= c * weights[k]) => SumOf(numbers) >= c * SumOf(weights)
<1> DEFINE N == Len(numbers)
<1>1. N \in Nat /\ Len(weights) = N /\ DOMAIN numbers = 1 .. N
  OBVIOUS
<1>2. PICK s : IsSums(s, numbers) /\ SumOf(numbers) = s[N] /\ \A k \in 0 .. N : s[k] \in Int
  BY SumSteps
<1>3. PICK t : IsSums(t, weights) /\ SumOf(weights) = t[N] /\ \A k \in 0 .. N : t[k] \in Int
  BY <1>1, SumSteps
<1>4. \A k \in 1 .. N : numbers[k] \in Int /\ weights[k] \in Int
  BY <1>1
<1>5. \A k \in 1 .. N : s[k] = s[k - 1] + numbers[k] /\ t[k] = t[k - 1] + weights[k]
  BY <1>1, <1>2, <1>3 DEF IsSums
<1>6. s[0] = 0 /\ t[0] = 0
  BY <1>2, <1>3 DEF IsSums
<1> HIDE DEF N
<1> DEFINE u == [k \in 0 .. N |-> c * t[k]]
<1>7. \A k \in 0 .. N : s[k] \in Int /\ u[k] \in Int
  BY <1>2, <1>3
<1>8. s[0] = 0 /\ u[0] = 0 /\ N \in 0 .. N /\ u[N] = c * SumOf(weights)
  BY <1>1, <1>3, <1>6
<1>9. \A k \in 1 .. N : s[k] - s[k - 1] = numbers[k] /\ u[k] - u[k - 1] = c * weights[k]
  <2>1. ASSUME NEW k \in 1 .. N PROVE s[k] - s[k - 1] = numbers[k] /\ u[k] - u[k - 1] = c * weights[k]
    <3>1. k \in 0 .. N /\ k - 1 \in 0 .. N
      BY <1>1
    <3>2. s[k - 1] \in Int /\ t[k - 1] \in Int /\ numbers[k] \in Int /\ weights[k] \in Int
      BY <1>2, <1>3, <1>4, <3>1
    <3>3. u[k] = c * (t[k - 1] + weights[k]) /\ u[k - 1] = c * t[k - 1]
      BY <1>5, <3>1
    <3> DEFINE before == t[k - 1]
               weight == weights[k]
               start == s[k - 1]
    <3>4. before \in Int /\ weight \in Int /\ start \in Int /\ numbers[k] \in Int
      BY <3>2
    <3> HIDE DEF before, weight, start
    <3>5. c * before \in Int /\ c * weight \in Int /\ c * (before + weight) = c * before + c * weight
      BY <3>4, IntProduct, Distributes
    <3>6. u[k] = c * (before + weight) /\ u[k - 1] = c * before
      BY <3>3 DEF before, weight
    <3> DEFINE x == c * before
               y == c * weight
    <3>7. x \in Int /\ y \in Int /\ u[k] = x + y /\ u[k - 1] = x
      BY <3>5, <3>6
    <3> HIDE DEF x, y
    <3>8. u[k] - u[k - 1] = y
      BY <3>7
    <3>9. s[k] = start + numbers[k]
      BY <1>5 DEF start
    <3>10. s[k] - start = numbers[k]
      BY <3>4, <3>9
    <3>11. QED BY <3>8, <3>10 DEF y, weight, start
  <2>2. QED BY <2>1
<1> HIDE DEF u
<1>10. ASSUME \A k \in DOMAIN numbers : numbers[k] <= c * weights[k]
       PROVE  SumOf(numbers) <= c * SumOf(weights)
  <2>1. \A k \in 1 .. N : s[k] - s[k - 1] <= u[k] - u[k - 1]
    BY <1>1, <1>9, <1>10
  <2>2. s[0] <= u[0]
    BY <1>8
  <2>3. \A k \in 0 .. N : s[k] <= u[k]
    BY <1>1, <1>7, <2>1, <2>2, GrowsSlower
  <2>4. QED BY <1>2, <1>8, <2>3
<1>11. ASSUME \A k \in DOMAIN numbers : numbers[k] >= c * weights[k]
       PROVE  SumOf(numbers) >= c * SumOf(weights)
  <2>1. \A k \in 1 .. N : u[k] - u[k - 1] <= s[k] - s[k - 1]
    <3>1. ASSUME NEW k \in 1 .. N PROVE u[k] - u[k - 1] <= s[k] - s[k - 1]
      <4>1. numbers[k] >= c * weights[k]
        BY <1>1, <1>11
      <4>2. c * weights[k] \in Int /\ numbers[k] \in Int
        BY <1>4
      <4>3. QED BY <1>9, <4>1, <4>2
    <3>2. QED BY <3>1
  <2>2. u[0] <= s[0]
    BY <1>8
  <2>3. \A k \in 0 .. N : u[k] <= s[k]
    BY <1>1, <1>7, <2>1, <2>2, GrowsSlower
  <2>4. u[N] <= s[N] /\ u[N] \in Int /\ s[N] \in Int
    BY <1>7, <1>8, <2>3
  <2>5. QED BY <1>2, <1>8, <2>4
<1>12. QED BY <1>10, <1>11

-----------------------------------------------------------------------------
(* What an aggregate of answers says of the answers.                         *)

Percents == 0 .. 100

LEMMA PercentIs == ASSUME NEW p \in Percents PROVE p \in Nat /\ p <= 100 /\ 100 - p \in Nat
BY DEF Percents

LEMMA PercentsIn ==
  ASSUME NEW values \in Seq(Percents)
  PROVE  /\ Len(values) \in Nat /\ DOMAIN values = 1 .. Len(values)
         /\ \A j \in DOMAIN values : values[j] \in Percents /\ values[j] \in Nat
<1>1. Len(values) \in Nat /\ DOMAIN values = 1 .. Len(values)
  OBVIOUS
<1>2. \A j \in DOMAIN values : values[j] \in Percents
  OBVIOUS
<1>3. QED BY <1>1, <1>2, PercentIs

LEMMA MaxOfPercents ==
  ASSUME NEW T, T \subseteq Percents, T # {}
  PROVE  Max(T) \in T /\ \A p \in T : Max(T) >= p
<1> DEFINE U == {100 - p : p \in T}
<1>1. Min(U) \in U /\ \A q \in U : Min(U) <= q
  <2>1. U \subseteq Nat
    BY PercentIs
  <2>3. U # {}
    OBVIOUS
  <2> HIDE DEF U
  <2>2. QED BY <2>1, <2>3, MinOfNaturals
<1>2. PICK h \in T : Min(U) = 100 - h
  BY <1>1
<1>3. \A p \in T : 100 - h <= 100 - p
  BY <1>1, <1>2
<1>4. \A p \in T : h >= p
  <2>1. ASSUME NEW p \in T PROVE h >= p
    <3>1. h \in Nat /\ p \in Nat
      BY PercentIs
    <3>2. QED BY <1>3, <3>1
  <2>2. QED BY <2>1
<1>5. T \subseteq Int
  BY PercentIs
<1>6. QED BY <1>4, <1>5, MaxIsUpperBound

(* The k-th of the values is one of them.                                    *)
LEMMA SortedIsValue ==
  ASSUME NEW values \in Seq(Percents), NEW k \in 1 .. Len(values)
  PROVE  Sorted(values, k) \in Range(values)
<1> DEFINE Below(v) == {j \in DOMAIN values : values[j] < v}
           UpTo(v) == {j \in DOMAIN values : values[j] <= v}
           Enough == {v \in Range(values) : Cardinality(UpTo(v)) >= k}
<1>1. /\ Len(values) \in Nat /\ DOMAIN values = 1 .. Len(values)
      /\ \A j \in DOMAIN values : values[j] \in Percents /\ values[j] \in Nat
  BY PercentsIn
<1>2. Range(values) \subseteq Percents /\ Range(values) # {}
  BY <1>1 DEF Range
<1>3. IsFiniteSet(DOMAIN values) /\ Cardinality(DOMAIN values) = Len(values)
  BY <1>1, FS_Interval
<1>4. \A v : IsFiniteSet(UpTo(v)) /\ Cardinality(UpTo(v)) \in Nat
  BY <1>3, FS_Subset, FS_CardinalityType
<1>5. Enough # {}
  <2> DEFINE h == Max(Range(values))
  <2>1. h \in Range(values) /\ \A p \in Range(values) : h >= p
    BY <1>2, MaxOfPercents
  <2>2. UpTo(h) = DOMAIN values
    <3> HIDE DEF h
    <3>1. QED BY <1>1, <1>2, <2>1 DEF Range
  <2>3. Cardinality(UpTo(h)) >= k
    <3>1. Cardinality(UpTo(h)) = Len(values)
      BY <1>3, <2>2
    <3> HIDE DEF UpTo, h
    <3>2. QED BY <1>1, <3>1
  <2>4. QED BY <2>1, <2>3
<1> DEFINE v == Min(Enough)
<1>6. v \in Enough /\ \A w \in Enough : v <= w
  <2>1. Enough \subseteq Nat
    BY <1>2, PercentIs
  <2> HIDE DEF Enough
  <2>2. QED BY <1>5, <2>1, MinOfNaturals
<1>7. v \in Range(values) /\ Cardinality(UpTo(v)) >= k /\ v \in Nat
  <2>1. v \in Range(values) /\ Cardinality(UpTo(v)) >= k
    BY <1>6
  <2> HIDE DEF v
  <2>2. QED BY <1>2, <2>1, PercentIs
<1> HIDE DEF v
<1>8. Cardinality(Below(v)) < k
  <2>1. CASE Below(v) = {}
    <3>1. Cardinality(Below(v)) = 0
      BY <2>1, FS_EmptySet
    <3>2. k > 0
      BY <1>1
    <3> HIDE DEF Below
    <3>3. QED BY <3>1, <3>2
  <2>2. CASE Below(v) # {}
    <3> DEFINE Smaller == {values[j] : j \in Below(v)}
               w == Max(Smaller)
    <3>1. w \in Smaller /\ \A p \in Smaller : w >= p
      <4>1. Smaller \subseteq Percents /\ Smaller # {}
        BY <1>1, <2>2
      <4> HIDE DEF Smaller
      <4>2. QED BY <4>1, MaxOfPercents
    <3>2. w \in Range(values) /\ w < v /\ w \in Nat
      BY <1>1, <3>1 DEF Range
    <3>3. ASSUME NEW j \in DOMAIN values, values[j] < v PROVE values[j] <= w
      <4>1. w >= values[j]
        BY <3>1, <3>3
      <4> HIDE DEF w
      <4>2. QED BY <1>1, <3>2, <4>1
    <3> HIDE DEF w
    <3>4. ASSUME NEW j \in DOMAIN values, values[j] <= w PROVE values[j] < v
      BY <1>1, <1>7, <3>2, <3>4
    <3>5. Below(v) = UpTo(w)
      BY <3>3, <3>4
    <3>6. w \notin Enough
      BY <1>6, <1>7, <3>2
    <3>7. ~(Cardinality(UpTo(w)) >= k)
      BY <3>2, <3>6
    <3>8. Cardinality(UpTo(w)) < k
      <4>1. Cardinality(UpTo(w)) \in Nat
        BY <1>4
      <4> HIDE DEF UpTo
      <4>2. QED BY <3>7, <4>1
    <3>9. QED BY <3>5, <3>8
  <2>3. QED BY <2>1, <2>2
<1>9. \E u \in Range(values) : Cardinality(Below(u)) < k /\ Cardinality(UpTo(u)) >= k
  BY <1>7, <1>8
<1>10. QED BY <1>9 DEF Sorted

(* Whether an aggregate reaches a threshold, one of the values has decided.  *)
Decided(answer, values, t) ==
  /\ AtLeast(answer, t) => \E k \in DOMAIN values : values[k] >= t
  /\ ~AtLeast(answer, t) /\ answer.num # 0 => \E k \in DOMAIN values : values[k] < t

LEMMA WeightedDecided ==
  ASSUME NEW values \in Seq(Percents), NEW weights \in Seq(Nat), Len(weights) = Len(values),
         NEW t \in Nat \ {0}
  PROVE  Decided(WeightedAverage(values, weights), values, t)
<1> DEFINE answer == WeightedAverage(values, weights)
           parts == [k \in DOMAIN values |-> values[k] * weights[k]]
           total == SumOf(weights)
<1>1. \A k \in DOMAIN values : values[k] \in Nat /\ weights[k] \in Nat /\ parts[k] = values[k] * weights[k]
  <2>1. DOMAIN weights = DOMAIN values
    OBVIOUS
  <2>2. \A k \in DOMAIN weights : weights[k] \in Nat
    OBVIOUS
  <2>3. QED BY <2>1, <2>2, PercentsIn
<1>2. \A k \in DOMAIN values : parts[k] \in Int
  BY <1>1
<1>3. /\ parts \in Seq(Int) /\ Len(parts) = Len(weights) /\ DOMAIN parts = DOMAIN values
      /\ weights \in Seq(Int)
  <2>1. parts = [k \in 1 .. Len(values) |-> parts[k]] /\ Len(values) \in Nat
    OBVIOUS
  <2>2. weights \in Seq(Int)
    OBVIOUS
  <2>3. \A k \in 1 .. Len(values) : parts[k] \in Int
    BY <1>2
  <2> HIDE DEF parts
  <2>4. parts \in Seq(Int) /\ DOMAIN parts = 1 .. Len(values) /\ Len(parts) = Len(values)
    BY <2>1, <2>3
  <2>5. QED BY <2>2, <2>4
<1>4. total \in Int /\ SumOf(parts) \in Int
  BY <1>3, SumIsInteger
<1>5. total >= 0
  <2>1. \A k \in DOMAIN weights : weights[k] >= 0 * weights[k]
    OBVIOUS
  <2>2. SumOf(weights) >= 0 * SumOf(weights)
    BY <1>3, <2>1, SumScaled
  <2>3. QED BY <1>4, <2>2
<1>6. CASE total = 0
  <2>1. answer = Answered(0, 1)
    BY <1>6 DEF WeightedAverage
  <2>2. answer.num = 0 /\ answer.den = 1
    BY <2>1 DEF Answered
  <2> HIDE DEF answer
  <2>3. ~AtLeast(answer, t)
    BY <2>2 DEF AtLeast
  <2>4. Decided(answer, values, t)
    BY <2>2, <2>3 DEF Decided
  <2>5. QED BY <2>4 DEF answer
<1>7. CASE total # 0
  <2>1. answer = Answered(SumOf(parts), total)
    BY <1>7 DEF WeightedAverage
  <2>2. answer.num = SumOf(parts) /\ answer.den = total
    BY <2>1 DEF Answered
  <2> HIDE DEF answer, parts, total
  <2>3. ASSUME AtLeast(answer, t), ~\E k \in DOMAIN values : values[k] >= t PROVE FALSE
    <3>1. ASSUME NEW k \in DOMAIN parts PROVE parts[k] <= (t - 1) * weights[k]
      <4>1. values[k] <= t - 1 /\ values[k] \in Nat /\ weights[k] \in Nat
        BY <1>1, <1>3, <2>3
      <4>2. ASSUME NEW a \in Nat, NEW b \in Nat, NEW c \in Nat, a <= c PROVE a * b <= c * b
        BY <4>2
      <4> DEFINE c == t - 1
      <4>3. values[k] * weights[k] <= c * weights[k]
        <5>1. c \in Nat
          OBVIOUS
        <5>2. values[k] <= c
          BY <4>1
        <5> HIDE DEF c
        <5>3. QED BY <4>1, <4>2, <5>1, <5>2
      <4>4. QED BY <1>1, <1>3, <4>3
    <3>2. SumOf(parts) <= (t - 1) * SumOf(weights)
      <4> DEFINE c == t - 1
      <4>1. c \in Int
        OBVIOUS
      <4>2. \A k \in DOMAIN parts : parts[k] <= c * weights[k]
        BY <3>1
      <4>3. SumOf(parts) <= c * SumOf(weights)
        <5> HIDE DEF c
        <5>1. QED BY <1>3, <4>1, <4>2, SumScaled
      <4>4. QED BY <4>3
    <3>3. SumOf(parts) >= t * total
      BY <2>2, <2>3 DEF AtLeast
    <3>4. (t - 1) * total = t * total - total
      BY <1>4
    <3>5. t * total \in Int
      BY <1>4
    <3>6. QED BY <1>4, <1>5, <1>7, <3>2, <3>3, <3>4, <3>5 DEF total
  <2>4. ASSUME ~AtLeast(answer, t), ~\E k \in DOMAIN values : values[k] < t PROVE FALSE
    <3>1. ASSUME NEW k \in DOMAIN parts PROVE parts[k] >= t * weights[k]
      <4>1. t <= values[k] /\ values[k] \in Nat /\ weights[k] \in Nat
        BY <1>1, <1>3, <2>4
      <4>2. ASSUME NEW a \in Nat, NEW b \in Nat, NEW c \in Nat, a <= c PROVE a * b <= c * b
        BY <4>2
      <4>3. t * weights[k] <= values[k] * weights[k]
        BY <4>1, <4>2
      <4>4. t * weights[k] \in Int /\ values[k] * weights[k] \in Int
        BY <4>1
      <4>5. QED BY <1>1, <1>3, <4>3, <4>4
    <3>2. SumOf(parts) >= t * SumOf(weights)
      <4>1. t \in Int
        OBVIOUS
      <4>2. \A k \in DOMAIN parts : parts[k] >= t * weights[k]
        BY <3>1
      <4>3. QED BY <1>3, <4>1, <4>2, SumScaled
    <3>3. QED BY <2>2, <2>4, <3>2 DEF AtLeast, total
  <2>5. Decided(answer, values, t)
    BY <2>3, <2>4 DEF Decided
  <2>6. QED BY <2>5 DEF answer
<1>8. QED BY <1>6, <1>7

LEMMA MeanDecided ==
  ASSUME NEW values \in Seq(Percents), values # <<>>, NEW t \in Nat \ {0}
  PROVE  Decided(Answered(SumOf(values), Len(values)), values, t)
<1> DEFINE ones == [k \in 1 .. Len(values) |-> 1]
<1>1. /\ Len(values) \in Nat \ {0} /\ DOMAIN values = 1 .. Len(values)
      /\ \A j \in DOMAIN values : values[j] \in Nat
  BY PercentsIn
<1>2. ones \in Seq(Nat) /\ Len(ones) = Len(values) /\ ones \in Seq(Int) /\ values \in Seq(Int)
  BY <1>1
<1>3. \A k \in DOMAIN values : ones[k] = 1
  BY <1>1
<1>4. SumOf(ones) = Len(values)
  <2>1. PICK s : IsSums(s, ones) /\ SumOf(ones) = s[Len(values)] /\ \A k \in 0 .. Len(values) : s[k] \in Int
    BY <1>2, SumSteps
  <2>2. \A k \in 1 .. Len(values) : s[k] = s[k - 1] + 1
    BY <1>1, <1>2, <1>3, <2>1 DEF IsSums
  <2> DEFINE Has == {k \in 0 .. Len(values) : s[k] = k}
  <2>3. 0 \in Has
    BY <1>1, <2>1 DEF IsSums
  <2>4. ASSUME NEW k \in 1 .. Len(values), k - 1 \in Has PROVE k \in Has
    BY <2>2, <2>4
  <2>5. \A k \in 0 .. Len(values) : k \in Has
    <3> HIDE DEF Has
    <3>1. QED BY <1>1, <2>3, <2>4, Upwards
  <2>6. QED BY <1>1, <2>1, <2>5
<1> HIDE DEF ones
<1> DEFINE answer == Answered(SumOf(values), Len(values))
<1>5. answer.num = SumOf(values) /\ answer.den = Len(values)
  BY DEF Answered
<1> HIDE DEF answer
<1>6. SumOf(values) \in Int
  BY <1>2, SumIsInteger
<1>7. ASSUME AtLeast(answer, t), ~\E k \in DOMAIN values : values[k] >= t PROVE FALSE
  <2> DEFINE c == t - 1
  <2>1. \A k \in DOMAIN values : values[k] <= c * ones[k]
    BY <1>1, <1>3, <1>7
  <2>2. c \in Int
    OBVIOUS
  <2> HIDE DEF c
  <2>3. SumOf(values) <= c * SumOf(ones)
    BY <1>2, <2>1, <2>2, SumScaled
  <2>4. SumOf(values) <= (t - 1) * Len(values)
    BY <1>4, <2>3 DEF c
  <2>5. SumOf(values) >= t * Len(values)
    BY <1>5, <1>7 DEF AtLeast
  <2>6. (t - 1) * Len(values) = t * Len(values) - Len(values) /\ t * Len(values) \in Int
    BY <1>1
  <2>7. QED BY <1>1, <1>6, <2>4, <2>5, <2>6
<1>8. ASSUME ~AtLeast(answer, t), ~\E k \in DOMAIN values : values[k] < t PROVE FALSE
  <2>1. \A k \in DOMAIN values : values[k] >= t * ones[k]
    BY <1>1, <1>3, <1>8
  <2>2. t \in Int
    OBVIOUS
  <2>3. SumOf(values) >= t * SumOf(ones)
    BY <1>2, <2>1, <2>2, SumScaled
  <2>4. QED BY <1>4, <1>5, <1>8, <2>3 DEF AtLeast
<1>9. Decided(answer, values, t)
  BY <1>7, <1>8 DEF Decided
<1>10. QED BY <1>9 DEF answer

(* An answer that is one of the values, or between two of them.              *)
LEMMA ValueDecided ==
  ASSUME NEW values \in Seq(Percents), NEW v \in Range(values), NEW t \in Nat \ {0}
  PROVE  Decided(Answered(v, 1), values, t)
<1>1. PICK k \in DOMAIN values : v = values[k]
  BY DEF Range
<1>2. v \in Nat
  BY <1>1, PercentsIn
<1> DEFINE answer == Answered(v, 1)
<1>3. answer.num = v /\ answer.den = 1
  BY DEF Answered
<1> HIDE DEF answer
<1>4. AtLeast(answer, t) => v >= t
  BY <1>2, <1>3 DEF AtLeast
<1>5. ~AtLeast(answer, t) => v < t
  BY <1>2, <1>3 DEF AtLeast
<1>6. Decided(answer, values, t)
  BY <1>1, <1>4, <1>5 DEF Decided
<1>7. QED BY <1>6 DEF answer

LEMMA MedianDecided ==
  ASSUME NEW values \in Seq(Percents), values # <<>>, NEW t \in Nat \ {0}
  PROVE  Decided(Median(values), values, t)
<1> DEFINE mid == Len(values) \div 2
<1>1. Len(values) \in Nat \ {0}
  BY PercentsIn
<1>2. CASE Len(values) % 2 = 1
  <2>1. mid + 1 \in 1 .. Len(values)
    BY <1>1, <1>2
  <2>2. Sorted(values, mid + 1) \in Range(values)
    <3> DEFINE k == mid + 1
    <3>1. k \in 1 .. Len(values)
      BY <2>1
    <3> HIDE DEF k
    <3>2. Sorted(values, k) \in Range(values)
      BY <3>1, SortedIsValue
    <3>3. QED BY <3>2 DEF k
  <2>3. Median(values) = Answered(Sorted(values, mid + 1), 1)
    BY <1>2 DEF Median
  <2> DEFINE v == Sorted(values, mid + 1)
  <2>4. v \in Range(values) /\ Median(values) = Answered(v, 1)
    BY <2>2, <2>3
  <2> HIDE DEF v
  <2>5. QED BY <2>4, ValueDecided
<1>3. CASE Len(values) % 2 # 1
  <2>1. mid \in 1 .. Len(values) /\ mid + 1 \in 1 .. Len(values)
    BY <1>1, <1>3
  <2> DEFINE k == mid + 1
             a == Sorted(values, mid)
             b == Sorted(values, k)
  <2>2. Median(values) = Answered(a + b, 2)
    BY <1>3 DEF Median
  <2>3. k \in 1 .. Len(values)
    BY <2>1
  <2>4. a \in Range(values) /\ b \in Range(values)
    <3> HIDE DEF k, mid
    <3>1. QED BY <2>1, <2>3, SortedIsValue
  <2> HIDE DEF a, b
  <2>5. PICK i \in DOMAIN values, j \in DOMAIN values : a = values[i] /\ b = values[j]
    BY <2>4 DEF Range
  <2>6. a \in Nat /\ b \in Nat
    BY <2>5, PercentsIn
  <2> DEFINE answer == Median(values)
  <2>7. answer.num = a + b /\ answer.den = 2
    BY <2>2 DEF Answered
  <2> HIDE DEF answer
  <2>8. AtLeast(answer, t) => a >= t \/ b >= t
    BY <2>6, <2>7 DEF AtLeast
  <2>9. ~AtLeast(answer, t) => a < t \/ b < t
    BY <2>6, <2>7 DEF AtLeast
  <2>10. Decided(answer, values, t)
    BY <2>5, <2>8, <2>9 DEF Decided
  <2>11. QED BY <2>10 DEF answer
<1>4. QED BY <1>2, <1>3

(* calculateMean, calculateMedian, calculateWeightedAverage and the others:  *)
(* whatever the mode, no aggregate reaches what none of its values reaches,  *)
(* and none misses what all of them reach unless it is 0.                    *)
THEOREM AggregatesDecide ==
  ASSUME NEW values \in Seq(Percents), values # <<>>,
         NEW weights \in Seq(Nat), Len(weights) = Len(values), NEW t \in Nat \ {0}, NEW mode,
         aggregateValue(mode, values, weights).is = "answer"
  PROVE  Decided(aggregateValue(mode, values, weights), values, t)
<1>1. Len(values) \in Nat /\ Range(values) \subseteq Percents /\ Range(values) # {}
  <2>0. Len(values) \in Nat \ {0} /\ DOMAIN values = 1 .. Len(values)
    BY PercentsIn
  <2>1. DOMAIN values # {}
    <3> DEFINE n == Len(values)
    <3>1. n \in Nat \ {0} /\ DOMAIN values = 1 .. n
      BY <2>0
    <3> HIDE DEF n
    <3>2. 1 \in DOMAIN values
      BY <3>1
    <3>3. QED BY <3>2
  <2>2. QED BY <2>1, PercentsIn DEF Range
<1>2. CASE mode = "mean"
  <2>1. aggregateValue(mode, values, weights) = Answered(SumOf(values), Len(values))
    BY <1>2 DEF aggregateValue
  <2>2. QED BY <2>1, MeanDecided
<1>3. CASE mode = "median"
  <2>1. aggregateValue(mode, values, weights) = Median(values)
    BY <1>3 DEF aggregateValue
  <2>2. QED BY <2>1, MedianDecided
<1>4. CASE mode = "weighted"
  <2>1. aggregateValue(mode, values, weights) = WeightedAverage(values, weights)
    BY <1>4 DEF aggregateValue
  <2>2. QED BY <2>1, WeightedDecided
<1>5. CASE mode = "max"
  <2>1. aggregateValue(mode, values, weights) = Answered(Max(Range(values)), 1)
    BY <1>5 DEF aggregateValue
  <2>2. Max(Range(values)) \in Range(values)
    BY <1>1, MaxOfPercents
  <2>3. QED BY <2>1, <2>2, ValueDecided
<1>6. CASE mode = "min"
  <2>1. aggregateValue(mode, values, weights) = Answered(Min(Range(values)), 1)
    BY <1>6 DEF aggregateValue
  <2>2. Range(values) \subseteq Nat
    BY <1>1, PercentIs
  <2>3. Min(Range(values)) \in Range(values)
    BY <1>1, <2>2, MinOfNaturals
  <2>4. QED BY <2>1, <2>3, ValueDecided
<1>7. CASE mode = "recency_weighted"
  <2> DEFINE recency == RecencyWeights(Len(values))
  <2>1. aggregateValue(mode, values, weights) = WeightedAverage(values, recency)
    BY <1>7 DEF aggregateValue
  <2>2. recency \in Seq(Nat) /\ Len(recency) = Len(values)
    <3>1. Recency \in Seq(Nat)
      BY DEF Recency
    <3>2. \A j \in 1 .. Len(Recency) : Recency[j] \in Nat
      BY <3>1
    <3> DEFINE n == Len(values)
    <3>3. Len(Recency) \in Nat /\ n \in Nat
      BY <1>1, <3>1
    <3>4. recency = [k \in 1 .. n |-> IF n - k < Len(Recency) THEN Recency[n - k + 1] ELSE 0]
      BY DEF RecencyWeights
    <3> HIDE DEF recency, n
    <3>5. ASSUME NEW k \in 1 .. n PROVE recency[k] \in Nat
      <4>1. CASE n - k < Len(Recency)
        <5>1. n - k + 1 \in 1 .. Len(Recency)
          BY <3>3, <4>1
        <5>2. recency[k] = Recency[n - k + 1]
          BY <3>4, <4>1
        <5>3. QED BY <3>2, <5>1, <5>2
      <4>2. CASE ~(n - k < Len(Recency))
        BY <3>4, <4>2
      <4>3. QED BY <4>1, <4>2
    <3>6. recency = [k \in 1 .. n |-> recency[k]]
      BY <3>4
    <3>7. recency \in [1 .. n -> Nat]
      BY <3>5, <3>6
    <3>8. recency \in Seq(Nat) /\ Len(recency) = n
      BY <3>3, <3>7
    <3>9. QED BY <3>8 DEF n
  <2> HIDE DEF recency
  <2>3. QED BY <2>1, <2>2, WeightedDecided
<1>8. CASE mode \notin {"mean", "median", "weighted", "max", "min", "recency_weighted"}
  <2>1. aggregateValue(mode, values, weights) = Rejected
    BY <1>8 DEF aggregateValue
  <2>2. aggregateValue(mode, values, weights).is = "rejected"
    BY <2>1 DEF Rejected
  <2>3. QED BY <2>2
<1>9. QED BY <1>2, <1>3, <1>4, <1>5, <1>6, <1>7, <1>8

-----------------------------------------------------------------------------
(* What an answer says of the replies it was made of.                        *)

LEMMA GoodReply ==
  ASSUME NEW reply
  PROVE  /\ makeSinglePredictionRequest(reply).is \in {"answer", "error", "rejected"}
         /\ makeSinglePredictionRequest(reply).is = "answer" =>
              Good(reply) /\ makeSinglePredictionRequest(reply) = Answered(reply.value, 1)
BY DEF makeSinglePredictionRequest, Good, Answered, Refused, Rejected

(* Everyone has answered, and one of the answers has decided.                *)
AllGood(replies) == \A k \in DOMAIN replies : Good(replies[k])
DecidedBy(answer, replies, t) ==
  /\ AtLeast(answer, t) => \E k \in DOMAIN replies : replies[k].value >= t
  /\ ~AtLeast(answer, t) /\ answer.num # 0 => \E k \in DOMAIN replies : replies[k].value < t

LEMMA EnsembleAnswers ==
  ASSUME NEW source, IsSource(source), NEW replies, DOMAIN replies = DOMAIN source.weights,
         NEW t \in Nat \ {0}, makeEnsemblePredictionRequest(source, replies).is = "answer"
  PROVE  AllGood(replies) /\ DecidedBy(makeEnsemblePredictionRequest(source, replies), replies, t)
<1> DEFINE kinds == {makeSinglePredictionRequest(replies[k]).is : k \in DOMAIN replies}
           values == [k \in DOMAIN replies |-> replies[k].value]
           answer == aggregateValue(source.aggregationMode, values, source.weights)
<1>1. "rejected" \notin kinds /\ "error" \notin kinds
  BY DEF makeEnsemblePredictionRequest, Rejected, Refused
<1>2. makeEnsemblePredictionRequest(source, replies) = answer
  BY <1>1 DEF makeEnsemblePredictionRequest
<1>3. AllGood(replies)
  <2>1. ASSUME NEW k \in DOMAIN replies PROVE Good(replies[k])
    BY <1>1, GoodReply
  <2>2. QED BY <2>1 DEF AllGood
<1>4. /\ source.weights \in Seq(Nat) /\ Len(source.weights) \in Nat \ {0}
      /\ DOMAIN replies = 1 .. Len(source.weights)
  BY DEF IsSource
<1>5. \A k \in DOMAIN replies : values[k] = replies[k].value /\ values[k] \in Percents
  BY <1>3 DEF AllGood, Good, Percents
<1>6. values \in Seq(Percents) /\ Len(values) = Len(source.weights) /\ DOMAIN values = DOMAIN replies
  <2>1. values = [k \in 1 .. Len(source.weights) |-> values[k]]
    BY <1>4
  <2>2. DOMAIN values = DOMAIN replies
    OBVIOUS
  <2>3. \A k \in 1 .. Len(source.weights) : values[k] \in Percents
    BY <1>4, <1>5
  <2> DEFINE n == Len(source.weights)
  <2>4. n \in Nat
    BY <1>4
  <2> HIDE DEF values, n
  <2>5. values \in Seq(Percents) /\ Len(values) = n
    BY <2>1, <2>3, <2>4 DEF n
  <2>6. QED BY <2>2, <2>5 DEF n
<1> HIDE DEF values
<1>7. values # <<>>
  BY <1>4, <1>6
<1>8. answer.is = "answer"
  BY <1>2
<1>9. Decided(answer, values, t)
  BY <1>4, <1>6, <1>7, <1>8, AggregatesDecide
<1> HIDE DEF answer
<1>10. DecidedBy(answer, replies, t)
  BY <1>5, <1>6, <1>9 DEF Decided, DecidedBy
<1>11. QED BY <1>2, <1>3, <1>10

LEMMA SourceAnswers ==
  ASSUME NEW source, IsSource(source), NEW replies, DOMAIN replies = DOMAIN source.weights,
         NEW t \in Nat \ {0}, makePredictionRequest(source, replies).is = "answer"
  PROVE  AllGood(replies) /\ DecidedBy(makePredictionRequest(source, replies), replies, t)
<1>1. CASE isMultiSourceEnsemble(source)
  <2>1. HasEndpoint(source)
    BY DEF makePredictionRequest, Rejected
  <2>2. makePredictionRequest(source, replies) = makeEnsemblePredictionRequest(source, replies)
    BY <1>1, <2>1 DEF makePredictionRequest
  <2>3. QED BY <2>2, EnsembleAnswers
<1>2. CASE ~isMultiSourceEnsemble(source)
  <2>1. HasEndpoint(source)
    BY DEF makePredictionRequest, Rejected
  <2>2. makePredictionRequest(source, replies) = makeSinglePredictionRequest(replies[1])
    BY <1>2, <2>1 DEF makePredictionRequest
  <2>3. Len(source.weights) = 1 /\ DOMAIN replies = {1}
    <3>1. Len(source.weights) \in Nat \ {0} /\ ~(Len(source.weights) > 1)
      <4>1. Len(source.weights) \in Nat \ {0}
        BY DEF IsSource
      <4>2. CASE source.kind = "single"
        <5>1. Len(source.weights) = 1
          BY <4>2, Zenon DEF IsSource
        <5>2. QED BY <5>1
      <4>3. CASE source.kind # "single"
        BY <1>2, <4>1, <4>3 DEF isMultiSourceEnsemble
      <4>4. QED BY <4>1, <4>2, <4>3
    <3>2. DOMAIN source.weights = 1 .. Len(source.weights)
      BY DEF IsSource
    <3> DEFINE n == Len(source.weights)
    <3>3. n \in Nat \ {0} /\ ~(n > 1) /\ DOMAIN source.weights = 1 .. n
      BY <3>1, <3>2
    <3> HIDE DEF n
    <3>4. n = 1
      BY <3>3
    <3>5. DOMAIN replies = {1}
      BY <3>3, <3>4
    <3>6. QED BY <3>4, <3>5 DEF n
  <2>4. Good(replies[1]) /\ makePredictionRequest(source, replies) = Answered(replies[1].value, 1)
    BY <2>2, GoodReply
  <2>5. AllGood(replies)
    BY <2>3, <2>4 DEF AllGood
  <2> DEFINE answer == makePredictionRequest(source, replies)
  <2>6. answer.num = replies[1].value /\ answer.den = 1
    BY <2>4 DEF Answered
  <2> HIDE DEF answer
  <2>7. replies[1].value \in Nat
    BY <2>4 DEF Good
  <2>8. AtLeast(answer, t) => replies[1].value >= t
    BY <2>6, <2>7 DEF AtLeast
  <2>9. ~AtLeast(answer, t) => replies[1].value < t
    BY <2>6, <2>7 DEF AtLeast
  <2>10. DecidedBy(answer, replies, t)
    BY <2>3, <2>8, <2>9 DEF DecidedBy
  <2>11. QED BY <2>5, <2>10 DEF answer
<1>3. QED BY <1>1, <1>2

(* What a purchase rests on.                                                 *)
LEMMA CoreBuys ==
  ASSUME NEW s, NEW count, NEW history, NEW replies
  PROVE  LET core == CoreDecision(s, count, history, replies)
             answer == makePredictionRequest(s.source, replies)
         IN  /\ "buy" \in DOMAIN core /\ core.throws \in BOOLEAN
             /\ core.throws => ~core.buy
             /\ core.buy => answer.is = "answer" /\ AtLeast(answer, s.minPredictedConfidence)
<1> DEFINE core == CoreDecision(s, count, history, replies)
           answer == makePredictionRequest(s.source, replies)
<1>1. answer.is \in {"answer", "error", "rejected"}
  <2>1. makeSinglePredictionRequest(replies[1]).is \in {"answer", "error", "rejected"}
    BY GoodReply
  <2>2. makeEnsemblePredictionRequest(s.source, replies).is \in {"answer", "error", "rejected"}
    <3>1. ASSUME NEW mode, NEW values, NEW weights
          PROVE  aggregateValue(mode, values, weights).is \in {"answer", "error", "rejected"}
      <4>1. CASE mode = "mean"
        BY <4>1 DEF aggregateValue, Answered
      <4>2. CASE mode = "median"
        BY <4>2 DEF aggregateValue, Median, Answered
      <4>3. CASE mode = "weighted"
        BY <4>3 DEF aggregateValue, WeightedAverage, Answered
      <4>4. CASE mode = "max" \/ mode = "min"
        BY <4>4 DEF aggregateValue, Answered
      <4>5. CASE mode = "recency_weighted"
        BY <4>5 DEF aggregateValue, WeightedAverage, Answered
      <4>6. CASE mode \notin {"mean", "median", "weighted", "max", "min", "recency_weighted"}
        <5>1. aggregateValue(mode, values, weights) = Rejected
          BY <4>6 DEF aggregateValue
        <5>2. QED BY <5>1 DEF Rejected
      <4>7. QED BY <4>1, <4>2, <4>3, <4>4, <4>5, <4>6
    <3>2. QED BY <3>1 DEF makeEnsemblePredictionRequest, Rejected, Refused
  <2>3. Rejected.is = "rejected"
    BY DEF Rejected
  <2>4. QED BY <2>1, <2>2, <2>3 DEF makePredictionRequest
<1>2. CASE shouldBuyCommon(s.prediction, s.rules, history) # ""
  <2>1. core = Declined(shouldBuyCommon(s.prediction, s.rules, history), count)
    BY <1>2 DEF CoreDecision
  <2>2. "buy" \in DOMAIN core /\ core.buy = FALSE /\ core.throws = FALSE
    BY <2>1 DEF Declined
  <2>3. QED BY <2>2
<1>3. CASE shouldBuyCommon(s.prediction, s.rules, history) = ""
  <2>1. CASE answer.is = "rejected"
    <3>1. core = Thrown(count)
      BY <1>3, <2>1 DEF CoreDecision
    <3>2. "buy" \in DOMAIN Thrown(count) /\ Thrown(count).buy = FALSE /\ Thrown(count).throws = TRUE
      BY DEF Thrown
    <3>3. "buy" \in DOMAIN core /\ core.buy = FALSE /\ core.throws = TRUE
      BY <3>1, <3>2
    <3>4. QED BY <3>3
  <2>2. CASE answer.is = "error"
    <3>1. core = Declined("prediction_error", count)
      BY <1>3, <2>2 DEF CoreDecision
    <3>2. "buy" \in DOMAIN core /\ core.buy = FALSE /\ core.throws = FALSE
      BY <3>1 DEF Declined
    <3>3. QED BY <3>2
  <2>3. CASE answer.is = "answer" /\ ~AtLeast(answer, s.minPredictedConfidence)
    <3>1. core = Declined("minPredictedBuyConfidence", 0)
      BY <1>3, <2>3 DEF CoreDecision
    <3>2. "buy" \in DOMAIN core /\ core.buy = FALSE /\ core.throws = FALSE
      BY <3>1 DEF Declined
    <3>3. QED BY <3>2
  <2>4. CASE answer.is = "answer" /\ AtLeast(answer, s.minPredictedConfidence)
    <3>1. core = Confirmed(count + 1, s.minConsecutive)
      BY <1>3, <2>4 DEF CoreDecision
    <3>2. "buy" \in DOMAIN core /\ core.throws = FALSE
      BY <3>1 DEF Confirmed
    <3>3. QED BY <2>4, <3>2
  <2>5. QED BY <1>1, <2>1, <2>2, <2>3, <2>4
<1>4. QED BY <1>2, <1>3

LEMMA ProtectedBuys ==
  ASSUME NEW s, NEW core, "buy" \in DOMAIN core, NEW downside, Protected(s, core, downside).buy
  PROVE  /\ core.buy /\ downside.is = "answer" /\ downside.num # 0
         /\ ~AtLeast(downside, s.downside.minPredictedConfidence)
<1>1. core.buy
  BY DEF Protected
<1>2. CASE downside.is # "answer" \/ downside.num = 0
  <2>1. Protected(s, core, downside) = [core EXCEPT !.buy = FALSE, !.reason = "downside_prediction_error"]
    BY <1>1, <1>2 DEF Protected
  <2>2. QED BY <2>1
<1>3. CASE downside.is = "answer" /\ downside.num # 0
  <2>1. CASE AtLeast(downside, s.downside.minPredictedConfidence)
    <3>1. Protected(s, core, downside) = [core EXCEPT !.buy = FALSE, !.reason = "downside_prediction"]
      BY <1>1, <1>3, <2>1 DEF Protected
    <3>2. QED BY <3>1
  <2>2. QED BY <1>1, <1>3, <2>1
<1>4. QED BY <1>2, <1>3

(* shouldBuyWithBuyPrediction, whatever the mode of the downside request.    *)
LEMMA PredictionBuys ==
  ASSUME NEW s, NEW count, NEW history, NEW replies, NEW downsideReplies,
         NEW outcome \in BuyPredictionOutcomes(s, count, history, replies, downsideReplies), outcome.buy
  PROVE  LET answer == makePredictionRequest(s.source, replies)
             downside == makePredictionRequest(s.downside.source, downsideReplies)
         IN  /\ answer.is = "answer" /\ AtLeast(answer, s.minPredictedConfidence)
             /\ s.downside.executionMode # "none" =>
                  /\ downside.is = "answer" /\ downside.num # 0
                  /\ ~AtLeast(downside, s.downside.minPredictedConfidence)
<1> DEFINE core == CoreDecision(s, count, history, replies)
           downside == DownsideAnswer(s, history, downsideReplies)
<1>1. /\ "buy" \in DOMAIN core /\ core.throws \in BOOLEAN /\ (core.throws => ~core.buy)
      /\ core.buy => /\ makePredictionRequest(s.source, replies).is = "answer"
                     /\ AtLeast(makePredictionRequest(s.source, replies), s.minPredictedConfidence)
  BY CoreBuys
<1>2. downside.is = "answer" => downside = makePredictionRequest(s.downside.source, downsideReplies)
  BY DEF DownsideAnswer, Refused
<1>3. \A n : Thrown(n).buy = FALSE /\ [Thrown(n) EXCEPT !.late = TRUE].buy = FALSE
  BY DEF Thrown
<1> HIDE DEF core, downside
<1>4. CASE core.throws \/ s.downside.executionMode = "none"
  <2>1. outcome = core
    BY <1>4 DEF BuyPredictionOutcomes, core
  <2>2. QED BY <1>1, <1>4, <2>1
<1>5. CASE ~core.throws /\ s.downside.executionMode # "none"
  <2>1. outcome = Protected(s, core, downside)
    BY <1>3, <1>5 DEF BuyPredictionOutcomes, core, downside
  <2>2. /\ core.buy /\ downside.is = "answer" /\ downside.num # 0
        /\ ~AtLeast(downside, s.downside.minPredictedConfidence)
    BY <1>1, <2>1, ProtectedBuys
  <2>3. QED BY <1>1, <1>2, <2>2
<1>6. QED BY <1>4, <1>5

-----------------------------------------------------------------------------
(* What the actions make of the run.                                         *)

LEMMA TalliedFits == ASSUME NEW r, Fits(r) PROVE Fits(Tallied(r))
<1>1. DOMAIN r = RunFields
  BY DEF Fits
<1>2. /\ DOMAIN Tallied(r) = RunFields
      /\ \A field \in RunFields \ {"peak", "drawdown"} : Tallied(r)[field] = r[field]
  BY <1>1, TalliedKeeps
<1> DEFINE t == Tallied(r)
<1>3. /\ t.history = r.history /\ t.monitor = r.monitor /\ t.i = r.i /\ t.stepSize = r.stepSize
      /\ t.soFar = r.soFar /\ t.trades = r.trades /\ t.balance = r.balance /\ t.holdings = r.holdings
  BY <1>2 DEF RunFields
<1> HIDE DEF t
<1>4. Fits(t)
  BY <1>2, <1>3 DEF Fits, t
<1>5. QED BY <1>4 DEF t

LEMMA MovedFits ==
  ASSUME NEW r, Fits(r)
  PROVE  /\ r.i + r.stepSize \in Nat \ {0}
         /\ Fits([r EXCEPT !.i = @ + r.stepSize])
<1>1. r.i + r.stepSize \in Nat \ {0}
  BY DEF Fits
<1>2. QED BY <1>1 DEF Fits, RunFields

LEMMA WantedFits == ASSUME NEW r, Fits(r), NEW wanted PROVE Fits([r EXCEPT !.wanted = wanted])
BY DEF Fits, RunFields

(* A mint starts with its report.                                            *)
LEMMA NewRunFits ==
  ASSUME Types, NEW report \in Histories[chosen]
  PROVE  Fits(NewRun(report))
<1> DEFINE r == NewRun(report)
<1>1. report \in Reports
  BY RecordsAssumption DEF Types
<1>2. [history |-> r.history, monitor |-> r.monitor] \in Reports
  BY <1>1 DEF NewRun, Reports
<1>3. DOMAIN r = RunFields
  BY DEF NewRun, RunFields
<1>4. r.i = 1 /\ r.stepSize = 1 /\ r.soFar = <<>> /\ r.trades = <<>> /\ r.balance = ls.balance /\ r.holdings = 0
  BY DEF NewRun
<1>5. IsTrades(<<>>)
  BY DEF IsTrades
<1> HIDE DEF r
<1>6. QED BY <1>2, <1>3, <1>4, <1>5 DEF Fits, Types, r

(* The entry that is taken has a price, and the step stays positive.         *)
LEMMA TakenFits ==
  ASSUME Types, TakeEntry
  PROVE  /\ Fits(run')
         /\ run'.history = run.history /\ run'.i = run.i /\ run'.trades = run.trades
         /\ run'.balance = run.balance /\ run'.holdings = run.holdings
         /\ run'.soFar = Append(run.soFar, Entry)
         /\ Entry \in Priced /\ Entry = run.history[run.i] /\ run.i \in DOMAIN run.history
<1>1. Fits(run) /\ AtEntry /\ Entry.price # Unknown /\ ~Misfit
  BY DEF TakeEntry, AtEntry, Types, Running
<1>2. run.history \in Seq(Entries) /\ run.i \in DOMAIN run.history /\ Entry = run.history[run.i]
  BY <1>1 DEF Fits, Reports, AtEntry, Entry
<1>3. Entry \in Priced
  BY <1>1, <1>2 DEF Priced
<1>4. PICK step : /\ step = (IF ChangesStep THEN run.monitor.buyTimeframeMs \div run.monitor.sellTimeframeMs
                             ELSE run.stepSize)
                  /\ run' = [run EXCEPT !.soFar = Append(@, Entry), !.stepSize = step]
  BY DEF TakeEntry
<1>5. step \in Nat \ {0}
  <2>1. run.monitor.buyTimeframeMs \in Nat \ {0} /\ run.monitor.sellTimeframeMs \in Nat \ {0}
    BY <1>1 DEF Fits, Reports
  <2>2. ChangesStep => run.monitor.buyTimeframeMs % run.monitor.sellTimeframeMs = 0
    BY <1>1 DEF Misfit
  <2>3. ASSUME NEW a \in Nat \ {0}, NEW b \in Nat \ {0}, a % b = 0
        PROVE  a \div b \in Nat \ {0}
    BY <2>3
  <2>4. QED BY <1>1, <1>4, <2>1, <2>2, <2>3 DEF Fits
<1>6. Append(run.soFar, Entry) \in Seq(Priced)
  BY <1>1, <1>3 DEF Fits
<1>7. Fits(run')
  <2> HIDE DEF Entry
  <2>1. QED BY <1>1, <1>4, <1>5, <1>6 DEF Fits, RunFields
<1>8. QED BY <1>1, <1>2, <1>3, <1>4, <1>7 DEF Fits, RunFields

(* A purchase the funds suffice for costs more than its fees, and leaves at  *)
(* most the base fee unpaid.                                                 *)
LEMMA PurchaseCosts ==
  ASSUME NEW before \in Int, NEW after, NEW spent \in Nat, NEW account \in Nat, NEW tip \in Nat,
         NEW base \in Nat, NEW priority \in Nat,
         before > spent + priority + account + tip,
         after = before + (-spent - account - tip - (base + priority))
  PROVE  after <= before - (base + priority + tip) /\ after > -base
OBVIOUS

(* A purchase: what it costs, what it brings, and where the loop goes on.    *)
LEMMA Purchase ==
  ASSUME Types, InHand, Buy
  PROVE  /\ Fits(run')
         /\ run'.history = run.history /\ run'.soFar = run.soFar /\ run'.holdings > run.holdings
         /\ run'.balance <= run.balance - (BaseFee + PriorityFee + JitoTip) /\ run'.balance > -BaseFee
         /\ \E trade : /\ run'.trades = Append(run.trades, trade)
                       /\ trade.i = run.i /\ trade.until \in Nat /\ trade.type = "buy"
                       /\ IF run.i < Len(run.history)
                            THEN /\ run'.i \in DOMAIN run.history /\ run.i <= run'.i
                                 /\ \/ run'.i = Len(run.history)
                                    \/ run.history[run'.i].timestamp >= trade.until
                            ELSE run'.i = run.i
         /\ strat'.position = [held |-> TRUE, timestamp |-> Now.timestamp, price |-> Now.price,
                               seen |-> Len(run.soFar)]
         /\ strat'.orders = PlaceOrders(strat.orders, Strategy.limits, Now.price)
         /\ phase' = (IF run.i < Len(run.history) THEN "entry" ELSE "sell")
<1>1. phase = "buy" /\ phase \in Questions
  BY DEF Buy, Questions
<1>2. /\ Fits(run) /\ run.history \in Seq(Entries) /\ run.i \in DOMAIN run.history
      /\ Now.timestamp \in Nat /\ Now.price \in 1 .. BuyAmount
  BY <1>1, EntryInHand
<1>3. PICK latency \in BuyLatency, replies \in BuyReplies, downsideReplies \in DownsideReplies :
        \E spent \in Slipped(BuyAmount, 1, BuySlippage, latency),
           outcome \in BuyOutcomes(Strategy, strat.buys, run.soFar, replies, downsideReplies) :
          /\ run.balance > minBalanceToBuy(spent)
          /\ outcome.buy
          /\ Asked(outcome)
          /\ run' = Bought(spent, latency, <<replies, downsideReplies>>)
          /\ strat' = [strat EXCEPT
                         !.position = [held |-> TRUE, timestamp |-> Now.timestamp, price |-> Now.price,
                                       seen |-> Len(run.soFar)],
                         !.orders = PlaceOrders(@, Strategy.limits, Now.price),
                         !.buys = outcome.count]
  BY DEF Buy
<1>4. PICK spent \in Slipped(BuyAmount, 1, BuySlippage, latency) :
        /\ run.balance > minBalanceToBuy(spent)
        /\ run' = Bought(spent, latency, <<replies, downsideReplies>>)
  BY <1>3
<1>5. spent \in Nat /\ latency \in Nat
  BY <1>1, SpentIsNatural, MintsAssumption
<1> DEFINE net == -spent - CreationFee - JitoTip - (BaseFee + PriorityFee)
           trade == [type |-> "buy", i |-> run.i, net |-> net, until |-> Now.timestamp + latency, reason |-> ""]
           next == IF run.i < Len(run.history)
                     THEN getNextEntryIndex(run.history, run.i, Now.timestamp + latency, run.stepSize) ELSE run.i
<1>6. /\ DOMAIN run' = RunFields
      /\ run'.history = run.history /\ run'.monitor = run.monitor /\ run'.soFar = run.soFar
      /\ run'.stepSize = run.stepSize /\ run'.i = next
      /\ run'.holdings = run.holdings + BuyAmount \div Now.price
      /\ run'.balance = run.balance + net
      /\ run'.trades = Append(run.trades, trade)
  BY <1>2, <1>4 DEF Bought, Fits, RunFields
<1>7. /\ trade.i = run.i /\ trade.until = Now.timestamp + latency /\ trade.until \in Nat
      /\ trade.type = "buy"
  BY <1>2, <1>5
<1>8. /\ next \in DOMAIN run.history
      /\ IF run.i < Len(run.history)
           THEN run.i <= next /\ (next = Len(run.history) \/ run.history[next].timestamp >= trade.until)
           ELSE next = run.i
  <2>1. Now.timestamp + latency \in Int /\ run.stepSize \in Nat \ {0}
    BY <1>2, <1>5 DEF Fits
  <2>2. QED BY <1>2, <1>7, <2>1, NextEntryWaits
<1> HIDE DEF trade, next
<1>9. run.balance \in Int /\ CreationFee \in Nat
      /\ BaseFee \in Nat /\ PriorityFee \in Nat /\ JitoTip \in Nat /\ BuyAmount \in Nat
  BY <1>2, MintsAssumption DEF Fits, CreationFee
<1>10. run'.balance <= run.balance - (BaseFee + PriorityFee + JitoTip) /\ run'.balance > -BaseFee
  <2>1. run.balance > spent + PriorityFee + CreationFee + JitoTip
    BY <1>4 DEF minBalanceToBuy
  <2>2. run'.balance = run.balance + (-spent - CreationFee - JitoTip - (BaseFee + PriorityFee))
    BY <1>6
  <2> DEFINE fee == CreationFee
             after == run'.balance
             before == run.balance
  <2>3. before > spent + PriorityFee + fee + JitoTip
    BY <2>1
  <2>4. after = before + (-spent - fee - JitoTip - (BaseFee + PriorityFee))
    BY <2>2
  <2>5. fee \in Nat /\ before \in Int
    BY <1>9
  <2> HIDE DEF net, fee, after, before
  <2>6. after <= before - (BaseFee + PriorityFee + JitoTip) /\ after > -BaseFee
    BY <1>5, <1>9, <2>3, <2>4, <2>5, PurchaseCosts
  <2>7. QED BY <2>6 DEF after, before
<1>11. run'.holdings > run.holdings /\ run'.holdings \in Nat
  <2> DEFINE tokens == BuyAmount \div Now.price
  <2>1. tokens \in Nat /\ tokens > 0
    BY <1>2, <1>9, Quotient
  <2>2. run'.holdings = run.holdings + tokens
    BY <1>6
  <2>3. run.holdings \in Nat
    BY <1>2 DEF Fits
  <2> HIDE DEF tokens
  <2>4. QED BY <2>1, <2>2, <2>3
<1>12. Fits(run')
  <2>1. IsTrades(run'.trades)
    BY <1>2, <1>6, <1>7, Trading DEF Fits, Reports
  <2>2. run'.i \in Nat \ {0}
    BY <1>2, <1>6, <1>8
  <2>3. QED
    <3> HIDE DEF net
    <3>1. run'.balance \in Int
      BY <1>5, <1>6, <1>9 DEF net
    <3>2. QED BY <1>2, <1>6, <1>11, <2>1, <2>2, <3>1 DEF Fits
<1>13. /\ strat'.position = [held |-> TRUE, timestamp |-> Now.timestamp, price |-> Now.price,
                             seen |-> Len(run.soFar)]
       /\ strat'.orders = PlaceOrders(strat.orders, Strategy.limits, Now.price)
  BY <1>3 DEF Types
<1>14. phase' = (IF run.i < Len(run.history) THEN "entry" ELSE "sell")
  BY DEF Buy
<1>15. QED BY <1>6, <1>7, <1>8, <1>10, <1>11, <1>12, <1>13, <1>14

(* A sale: it takes all the tokens and costs at most its fees.               *)
LEMMA Sale ==
  ASSUME Types, InHand, Sell
  PROVE  /\ Fits(run')
         /\ run'.history = run.history /\ run'.soFar = run.soFar
         /\ run.holdings > 0 /\ run'.holdings = 0
         /\ run'.balance >= run.balance - (BaseFee + PriorityFee + JitoTip)
         /\ \E trade : /\ run'.trades = Append(run.trades, trade)
                       /\ trade.i = run.i /\ trade.until \in Nat /\ trade.type = "sell"
                       /\ run.i <= run'.i
                       /\ \/ run'.i >= Len(run.history)
                          \/ run.history[run'.i].timestamp >= trade.until
         /\ strat'.position = NoPosition
         /\ phase = "sell" /\ phase' \in {"traded", "entry"}
<1>1. phase = "sell" /\ phase \in Questions /\ run.holdings > 0 /\ phase' \in {"traded", "entry"}
  BY DEF Sell, Questions
<1>2. /\ Fits(run) /\ run.history \in Seq(Entries) /\ run.i \in DOMAIN run.history
      /\ Now.timestamp \in Nat
  BY <1>1, EntryInHand
<1>3. PICK replies \in SellReplies, latency \in SellLatency :
        LET decided == SellDecision(Strategy, strat.orders, strat.sells, run.soFar, replies)
            wanted == Wanted(decided.decision)
        IN  /\ \E received \in Slipped(TokenValue(run.holdings, Now.price), -1, SellSlippage, latency) :
                 run' = Sold(wanted, received, latency)
            /\ strat' = [Considered(decided) EXCEPT !.position = NoPosition]
  BY DEF Sell
<1>0. PICK wanted : \E received \in Slipped(TokenValue(run.holdings, Now.price), -1, SellSlippage, latency) :
        run' = Sold(wanted, received, latency)
  BY <1>3
<1>4. PICK received \in Slipped(TokenValue(run.holdings, Now.price), -1, SellSlippage, latency) :
        run' = Sold(wanted, received, latency)
  BY <1>0
<1>5. received \in Nat /\ latency \in Nat
  BY <1>1, ReceivedIsNatural, MintsAssumption
<1> DEFINE net == received - JitoTip - (BaseFee + PriorityFee)
           trade == [type |-> "sell", i |-> run.i, net |-> net,
                     until |-> Now.timestamp + latency, reason |-> wanted.reason]
           next == IF run.i < Len(run.history)
                     THEN getNextEntryIndex(run.history, run.i, Now.timestamp + latency, run.stepSize)
                     ELSE run.i + run.stepSize
           sold == [run EXCEPT !.balance = @ + net, !.holdings = 0, !.soldOnce = TRUE, !.wanted = Unsold,
                               !.trades = Append(@, trade)]
<1>6. run' = [Tallied(sold) EXCEPT !.i = next]
  BY <1>4 DEF Sold
<1>7. /\ trade.i = run.i /\ trade.until = Now.timestamp + latency /\ trade.until \in Nat
      /\ trade.type = "sell"
  BY <1>2, <1>5
<1>8. /\ next \in Nat \ {0} /\ run.i <= next
      /\ next >= Len(run.history) \/ run.history[next].timestamp >= trade.until
  <2>1. Now.timestamp + latency \in Int /\ run.stepSize \in Nat \ {0}
    BY <1>2, <1>5 DEF Fits
  <2>2. CASE run.i < Len(run.history)
    BY <1>2, <1>7, <2>1, <2>2, NextEntryWaits
  <2>3. CASE ~(run.i < Len(run.history))
    BY <1>2, <2>1, <2>3
  <2>4. QED BY <2>2, <2>3
<1> HIDE DEF next, trade
<1>9. /\ DOMAIN sold = RunFields
      /\ sold.history = run.history /\ sold.monitor = run.monitor /\ sold.soFar = run.soFar
      /\ sold.stepSize = run.stepSize /\ sold.i = run.i
      /\ sold.balance = run.balance + net /\ sold.holdings = 0
      /\ sold.trades = Append(run.trades, trade)
  BY <1>2 DEF Fits, RunFields
<1> HIDE DEF sold
<1>10. /\ DOMAIN Tallied(sold) = RunFields
       /\ \A field \in RunFields \ {"peak", "drawdown"} : Tallied(sold)[field] = sold[field]
  BY <1>9, TalliedKeeps
<1>11. /\ DOMAIN run' = RunFields
       /\ run'.history = run.history /\ run'.monitor = run.monitor /\ run'.soFar = run.soFar
       /\ run'.stepSize = run.stepSize /\ run'.i = next
       /\ run'.balance = run.balance + net /\ run'.holdings = 0
       /\ run'.trades = Append(run.trades, trade)
  BY <1>6, <1>9, <1>10 DEF RunFields
<1>12. /\ run.balance \in Int /\ net \in Int
       /\ net >= -(BaseFee + PriorityFee + JitoTip)
       /\ BaseFee \in Nat /\ PriorityFee \in Nat /\ JitoTip \in Nat
  <2>1. run.balance \in Int /\ BaseFee \in Nat /\ PriorityFee \in Nat /\ JitoTip \in Nat
    BY <1>2, MintsAssumption DEF Fits
  <2>2. QED BY <1>5, <2>1
<1> HIDE DEF net
<1>13. run'.balance >= run.balance - (BaseFee + PriorityFee + JitoTip) /\ run'.balance \in Int
  BY <1>11, <1>12
<1>14. Fits(run')
  <2>1. IsTrades(run'.trades)
    BY <1>2, <1>7, <1>11, Trading DEF Fits, Reports
  <2>2. QED BY <1>2, <1>8, <1>11, <1>13, <2>1 DEF Fits
<1>15. strat'.position = NoPosition
  BY <1>3 DEF Considered, Types
<1>16. QED BY <1>1, <1>7, <1>8, <1>11, <1>13, <1>14, <1>15

(* A position that is kept: its orders were shown the price and no question  *)
(* asked for a sale, unless there are no tokens to sell.                     *)
LEMMA Keeping ==
  ASSUME Types, InHand, Hold
  PROVE  /\ phase = "sell" /\ phase' = "entry" /\ Fits(run')
         /\ run'.history = run.history /\ run'.soFar = run.soFar /\ run'.trades = run.trades
         /\ run'.balance = run.balance /\ run'.holdings = run.holdings
         /\ run'.i = run.i + run.stepSize
         /\ strat'.position = strat.position
         /\ strat'.orders = LimitsDecision(strat.orders, Now.price).orders
         /\ run.holdings # 0 => ~LimitsDecision(strat.orders, Now.price).sell /\ ~AutoSells
<1>1. phase = "sell" /\ phase' = "entry" /\ phase \in Questions
  BY DEF Hold, Questions
<1>2. Fits(run)
  BY <1>1, EntryInHand
<1>3. PICK replies \in SellReplies :
        LET decided == SellDecision(Strategy, strat.orders, strat.sells, run.soFar, replies)
            wanted == Wanted(decided.decision)
        IN  /\ ~decided.decision.throws
            /\ ~wanted.sell \/ run.holdings = 0
            /\ strat' = Considered(decided)
            /\ run' = [Tallied(run) EXCEPT !.i = @ + run.stepSize, !.wanted = wanted]
  BY DEF Hold
<1> DEFINE decided == SellDecision(Strategy, strat.orders, strat.sells, run.soFar, replies)
           limits == LimitsDecision(strat.orders, Now.price)
<1>4. decided.orders = limits.orders
  BY DEF SellDecision, Now
<1>5. limits.sell => decided.decision.sell
  BY DEF SellDecision, Now
<1>6. decided.decision.sell \/ AutoSells => Wanted(decided.decision).sell
  BY DEF Wanted
<1> HIDE DEF limits, decided
<1>7. PICK wanted : /\ wanted = Wanted(decided.decision)
                    /\ ~wanted.sell \/ run.holdings = 0
                    /\ strat' = Considered(decided)
                    /\ run' = [Tallied(run) EXCEPT !.i = @ + run.stepSize, !.wanted = wanted]
  BY <1>3 DEF decided
<1>8. strat'.position = strat.position /\ strat'.orders = limits.orders
  BY <1>4, <1>7 DEF Considered, Types
<1>9. run.holdings # 0 => ~limits.sell /\ ~AutoSells
  BY <1>5, <1>6, <1>7
<1>10. /\ DOMAIN Tallied(run) = RunFields
       /\ \A field \in RunFields \ {"peak", "drawdown"} : Tallied(run)[field] = run[field]
  BY <1>2, TalliedKeeps DEF Fits
<1>11. /\ DOMAIN run' = RunFields
       /\ run'.history = run.history /\ run'.monitor = run.monitor /\ run'.soFar = run.soFar
       /\ run'.stepSize = run.stepSize /\ run'.i = run.i + run.stepSize
       /\ run'.balance = run.balance /\ run'.holdings = run.holdings
       /\ run'.trades = run.trades
  BY <1>7, <1>10 DEF RunFields
<1>12. Fits(run')
  BY <1>2, <1>11 DEF Fits
<1>13. QED BY <1>1, <1>8, <1>9, <1>11, <1>12 DEF limits

(* The other actions that leave a mint or the loop over the mints.           *)
Ends == Stop \/ InfoUnavailable \/ MisfitThrows \/ NoEntryThrows \/ EndOfHistory \/ NoFunds \/ BuyThrows
          \/ Leave \/ SellThrows

(* When a mint ends its balance counts or it does not, and a run is over.    *)
LEMMA Ending ==
  ASSUME Types, Ends
  PROVE  /\ phase' \in {"file", "over", "rejected"} /\ chosen' = chosen
         /\ DOMAIN strat' = DOMAIN strat /\ strat'.position.held \in BOOLEAN
         /\ "balance" \in DOMAIN ls'
         /\ ls'.balance = ls.balance \/ (Running /\ ls'.balance = run.balance)
<1>1. CASE Stop \/ InfoUnavailable \/ MisfitThrows \/ NoEntryThrows
  BY <1>1 DEF Stop, InfoUnavailable, MisfitThrows, NoEntryThrows, Failed, EndMint, Types
<1>2. CASE EndOfHistory \/ NoFunds
  <2>1. Running /\ Simulated(run, strat)
    BY <1>2 DEF EndOfHistory, NoFunds, Running
  <2>2. run.balance \in Int
    BY <2>1 DEF Types, Fits
  <2>3. ls' = Curved(Accumulated(run))
    BY <2>1 DEF Simulated
  <2>4. "balance" \in DOMAIN ls' /\ ls'.balance = run.balance
    BY <2>2, <2>3, BalanceCounted DEF Types
  <2>5. strat' = resetState(strat) /\ chosen' = chosen /\ phase' \in {"file", "over"}
    BY <2>1 DEF Simulated
  <2>6. DOMAIN strat' = DOMAIN strat /\ strat'.position.held \in BOOLEAN
    BY <2>5 DEF resetState, NoPosition, Types
  <2>7. QED BY <2>1, <2>4, <2>5, <2>6
<1>3. CASE BuyThrows
  <2>1. phase' = "file" /\ UNCHANGED <<chosen, ls>>
    BY <1>3 DEF BuyThrows, Failed, EndMint
  <2>2. PICK count : strat' = [strat EXCEPT !.buys = count]
    BY <1>3 DEF BuyThrows
  <2>3. QED BY <2>1, <2>2 DEF Types
<1>4. CASE Leave
  <2>1. phase' = "file" /\ UNCHANGED <<chosen, ls>> /\ strat' = resetState(strat)
    BY <1>4 DEF Leave, EndMint
  <2>2. QED BY <2>1 DEF resetState, NoPosition, Types
<1>5. CASE SellThrows
  <2>1. phase' = "file" /\ UNCHANGED <<chosen, ls>>
    BY <1>5 DEF SellThrows, Failed, EndMint
  <2>2. PICK decided : strat' = Considered(decided)
    BY <1>5 DEF SellThrows
  <2>3. QED BY <2>1, <2>2 DEF Considered, Types
<1>6. QED BY <1>1, <1>2, <1>3, <1>4, <1>5 DEF Ends

(* What does not end a run, by what it does to the run and the strategy.     *)
LEMMA Going ==
  ASSUME Next, ~Ends
  PROVE  \/ StartMint \/ SkipEntry \/ TakeEntry \/ DontBuy \/ Buy \/ Stay \/ Hold \/ Sell
         \/ LateConfirmation \/ Over
BY DEF Next, Ends

(* Skipping an entry, deciding against a purchase and staying change nothing *)
(* but the place in the history and the count of confirmations; the writes   *)
(* of a failed decision not even the place.                                  *)
Passes == SkipEntry \/ DontBuy \/ Stay \/ LateConfirmation \/ Over

LEMMA Passing ==
  ASSUME Types, Passes
  PROVE  /\ UNCHANGED <<chosen, ls>>
         /\ DOMAIN strat' = DOMAIN strat
         /\ strat'.position = strat.position /\ strat'.orders = strat.orders
         /\ \/ phase' = phase /\ run' = run
            \/ phase = "buy" /\ phase' = "exit" /\ run' = run
            \/ /\ phase \in {"entry", "exit"} /\ phase' = "entry" /\ Running /\ Fits(run')
               /\ run'.history = run.history /\ run'.soFar = run.soFar /\ run'.trades = run.trades
               /\ run'.balance = run.balance /\ run'.holdings = run.holdings
               /\ run'.i = run.i + run.stepSize
<1>1. CASE SkipEntry
  <2>1. Running /\ Fits(run) /\ phase = "entry"
    BY <1>1 DEF SkipEntry, AtEntry, Types, Running
  <2>2. /\ run' = [run EXCEPT !.i = @ + run.stepSize]
        /\ UNCHANGED <<chosen, phase, strat, ls>>
    BY <1>1 DEF SkipEntry
  <2>3. Fits(run')
    BY <2>1, <2>2, MovedFits
  <2>4. QED BY <2>1, <2>2, <2>3 DEF Fits, RunFields
<1>2. CASE DontBuy
  <2>1. phase = "buy" /\ phase' = "exit" /\ UNCHANGED <<chosen, run, ls>>
    BY <1>2 DEF DontBuy
  <2>2. PICK count : strat' = [strat EXCEPT !.buys = count]
    BY <1>2 DEF DontBuy
  <2>3. QED BY <2>1, <2>2 DEF Types
<1>3. CASE Stay
  <2>1. Running /\ Fits(run) /\ phase = "exit"
    BY <1>3 DEF Stay, Types, Running
  <2>2. /\ run' = [Tallied(run) EXCEPT !.i = @ + run.stepSize]
        /\ phase' = "entry" /\ UNCHANGED <<chosen, strat, ls>>
    BY <1>3 DEF Stay
  <2>3. /\ DOMAIN Tallied(run) = RunFields
        /\ \A field \in RunFields \ {"peak", "drawdown"} : Tallied(run)[field] = run[field]
    BY <2>1, TalliedKeeps DEF Fits
  <2>4. /\ DOMAIN run' = RunFields
        /\ run'.history = run.history /\ run'.monitor = run.monitor /\ run'.soFar = run.soFar
        /\ run'.stepSize = run.stepSize /\ run'.i = run.i + run.stepSize
        /\ run'.balance = run.balance /\ run'.holdings = run.holdings
        /\ run'.trades = run.trades
    BY <2>2, <2>3 DEF RunFields
  <2>5. Fits(run')
    BY <2>1, <2>4 DEF Fits
  <2>6. QED BY <2>1, <2>2, <2>4, <2>5
<1>4. CASE LateConfirmation
  <2>1. PICK count : strat' = [strat EXCEPT !.buys = count]
    BY <1>4 DEF LateConfirmation
  <2>2. UNCHANGED <<chosen, phase, run, ls>>
    BY <1>4 DEF LateConfirmation
  <2>3. QED BY <2>1, <2>2 DEF Types
<1>5. CASE Over
  BY <1>5 DEF Over, vars
<1>6. QED BY <1>1, <1>2, <1>3, <1>4, <1>5 DEF Passes

(* The other actions of a run: what is left to know of them.                 *)
LEMMA Starting ==
  ASSUME Types, StartMint
  PROVE  /\ phase = "file" /\ phase' = "entry" /\ UNCHANGED <<chosen, strat, ls>>
         /\ Fits(run') /\ run'.soFar = <<>> /\ run'.trades = <<>>
         /\ run'.balance = ls.balance /\ run'.holdings = 0
<1>1. PICK report \in Histories[chosen] : run' = NewRun(report)
  BY DEF StartMint
<1>2. Fits(run')
  BY <1>1, NewRunFits
<1>3. run'.soFar = <<>> /\ run'.trades = <<>> /\ run'.balance = ls.balance /\ run'.holdings = 0
  BY <1>1 DEF NewRun
<1>4. QED BY <1>2, <1>3 DEF StartMint

LEMMA Taking ==
  ASSUME TakeEntry
  PROVE  /\ phase = "entry" /\ UNCHANGED <<chosen, strat, ls>>
         /\ phase' = (IF strat.position.held THEN "sell" ELSE "buy")
BY DEF TakeEntry, AtEntry, NextQuestion

-----------------------------------------------------------------------------
(* Types, and the entry in hand.                                             *)

LEMMA TypesKept ==
  ASSUME Types, InHand, [Next]_vars
  PROVE  Types'
<1>1. CASE Ends
  <2>1. /\ phase' \in {"file", "over", "rejected"} /\ chosen' = chosen
        /\ DOMAIN strat' = DOMAIN strat /\ strat'.position.held \in BOOLEAN
        /\ "balance" \in DOMAIN ls'
        /\ ls'.balance = ls.balance \/ (Running /\ ls'.balance = run.balance)
    BY <1>1, Ending
  <2>2. ls'.balance \in Int
    BY <2>1 DEF Types, Fits
  <2>3. ~Running'
    BY <2>1 DEF Running
  <2>4. QED BY <2>1, <2>2, <2>3 DEF Types, Phases
<1>2. CASE StartMint
  BY <1>2, Starting DEF Types, Phases
<1>3. CASE TakeEntry
  <2>1. phase' \in Phases /\ UNCHANGED <<chosen, strat, ls>>
    BY <1>3, Taking DEF Phases
  <2>2. Fits(run')
    BY <1>3, TakenFits
  <2>3. QED BY <2>1, <2>2 DEF Types
<1>4. CASE Passes
  <2>1. /\ UNCHANGED <<chosen, ls>> /\ DOMAIN strat' = DOMAIN strat
        /\ strat'.position = strat.position
    BY <1>4, Passing
  <2>2. phase' \in Phases /\ (Running' => Fits(run'))
    <3>1. CASE phase' = phase /\ run' = run
      BY <3>1 DEF Types, Running
    <3>2. CASE phase = "buy" /\ phase' = "exit" /\ run' = run
      BY <3>2 DEF Types, Running, Phases
    <3>3. CASE phase' = "entry" /\ Fits(run')
      BY <3>3 DEF Phases
    <3>4. QED BY <1>4, <3>1, <3>2, <3>3, Passing
  <2>3. QED BY <2>1, <2>2 DEF Types
<1>5. CASE Buy
  <2>1. Fits(run') /\ phase' \in Phases /\ strat'.position.held \in BOOLEAN
    <3>1. Fits(run') /\ phase' \in {"entry", "sell"} /\ strat'.position.held = TRUE
      BY <1>5, Purchase
    <3>2. QED BY <3>1 DEF Phases
  <2>2. UNCHANGED <<chosen, ls>> /\ DOMAIN strat' = DOMAIN strat
    BY <1>5 DEF Buy
  <2>3. QED BY <2>1, <2>2 DEF Types
<1>6. CASE Hold
  <2>1. /\ Fits(run') /\ phase' \in Phases
        /\ strat'.position.held \in BOOLEAN
    BY <1>6, Keeping DEF Phases, Types
  <2>2. UNCHANGED <<chosen, ls>> /\ DOMAIN strat' = DOMAIN strat
    BY <1>6 DEF Hold, Considered
  <2>3. QED BY <2>1, <2>2 DEF Types
<1>7. CASE Sell
  <2>1. Fits(run') /\ phase' \in Phases /\ strat'.position.held \in BOOLEAN
    <3>1. Fits(run') /\ phase' \in {"traded", "entry"} /\ strat'.position = NoPosition
      BY <1>7, Sale
    <3>2. QED BY <3>1 DEF Phases, NoPosition
  <2>2. UNCHANGED <<chosen, ls>> /\ DOMAIN strat' = DOMAIN strat
    BY <1>7 DEF Sell, Considered
  <2>3. QED BY <2>1, <2>2 DEF Types
<1>8. CASE UNCHANGED vars
  BY <1>8 DEF Types, vars, Running, Fits, Reports
<1>9. QED
  BY <1>1, <1>2, <1>3, <1>4, <1>5, <1>6, <1>7, <1>8, Going DEF Passes

LEMMA InHandKept ==
  ASSUME Types, InHand, [Next]_vars
  PROVE  InHand'
<1>1. CASE Ends \/ StartMint \/ Sell \/ Hold
  <2>1. phase' \notin Questions
    BY <1>1, Ending, Starting, Sale, Keeping DEF Questions
  <2>2. QED BY <2>1 DEF InHand
<1>2. CASE TakeEntry
  <2>1. /\ run'.history = run.history /\ run'.i = run.i
        /\ run'.soFar = Append(run.soFar, Entry) /\ run.soFar \in Seq(Priced)
        /\ Entry = run.history[run.i] /\ run.i \in DOMAIN run.history
    <3>1. Fits(run)
      BY <1>2, Taking DEF Types, Running
    <3>2. QED BY <1>2, <3>1, TakenFits DEF Fits
  <2>2. run'.soFar # <<>> /\ Last(run'.soFar) = Entry
    <3> HIDE DEF Entry
    <3>1. Entry \in Priced
      BY <1>2, TakenFits
    <3>2. QED BY <2>1, <3>1 DEF Last
  <2>3. QED BY <2>1, <2>2 DEF InHand, Now
<1>3. CASE Passes
  <2>1. CASE phase' = phase /\ run' = run
    BY <2>1 DEF InHand, Now
  <2>2. CASE phase = "buy" /\ phase' = "exit" /\ run' = run
    BY <2>2 DEF InHand, Now, Questions
  <2>3. CASE phase' = "entry"
    BY <2>3 DEF InHand, Questions
  <2>4. QED BY <1>3, <2>1, <2>2, <2>3, Passing
<1>4. CASE Buy
  <2>1. /\ run'.history = run.history /\ run'.soFar = run.soFar /\ phase = "buy"
        /\ phase' = (IF run.i < Len(run.history) THEN "entry" ELSE "sell")
        /\ ~(run.i < Len(run.history)) => run'.i = run.i
    BY <1>4, Purchase DEF Buy
  <2>2. QED BY <2>1 DEF InHand, Now, Questions
<1>5. CASE UNCHANGED vars
  BY <1>5 DEF InHand, vars, Now
<1>6. QED BY <1>1, <1>2, <1>3, <1>4, <1>5, Going DEF Passes

-----------------------------------------------------------------------------
(* The money.                                                                *)

LEMMA HoldingKept ==
  ASSUME Types, InHand, Holding, [Next]_vars
  PROVE  Holding'
<1>1. CASE Ends
  <2>1. ~Running' /\ phase' \notin {"buy", "exit"}
    BY <1>1, Ending DEF Running
  <2>2. QED BY <2>1 DEF Holding
<1>2. CASE StartMint \/ Sell
  <2>1. run'.holdings = 0 /\ phase' \notin {"buy", "exit"}
    BY <1>2, Starting, Sale
  <2>2. QED BY <2>1 DEF Holding
<1>3. CASE TakeEntry
  <2>1. /\ Running /\ run'.holdings = run.holdings /\ strat' = strat
        /\ phase' = (IF strat.position.held THEN "sell" ELSE "buy")
    BY <1>3, Taking, TakenFits DEF Running
  <2>2. QED BY <2>1 DEF Holding
<1>4. CASE Passes
  <2>1. strat'.position = strat.position
    BY <1>4, Passing
  <2>2. CASE phase' = phase /\ run' = run
    BY <2>1, <2>2 DEF Holding, Running
  <2>3. CASE phase = "buy" /\ phase' = "exit" /\ run' = run
    BY <2>1, <2>3 DEF Holding, Running
  <2>4. CASE phase' = "entry" /\ Running /\ run'.holdings = run.holdings
    BY <2>1, <2>4 DEF Holding
  <2>5. QED BY <1>4, <2>2, <2>3, <2>4, Passing
<1>5. CASE Buy
  <2>1. strat'.position.held = TRUE /\ phase' \in {"entry", "sell"}
    BY <1>5, Purchase
  <2>2. QED BY <2>1 DEF Holding
<1>6. CASE Hold
  <2>1. /\ Running /\ run'.holdings = run.holdings /\ strat'.position = strat.position
        /\ phase' = "entry"
    BY <1>6, Keeping DEF Running
  <2>2. QED BY <2>1 DEF Holding
<1>7. CASE UNCHANGED vars
  BY <1>7 DEF Holding, vars, Running
<1>8. QED BY <1>1, <1>2, <1>3, <1>4, <1>5, <1>6, <1>7, Going DEF Passes


(* Every step is one of the session's, or none of its business.              *)
LEMMA SessionStep ==
  ASSUME Types, InHand, Holding, [Next]_vars
  PROVE  [Session!SessionNext]_(Session!session)
<1> USE DEF Session!SessionNext, Session!session
<1>1. CASE Ends
  <2>1. ~Running' /\ (ls'.balance = ls.balance \/ (Running /\ ls'.balance = run.balance))
    BY <1>1, Ending DEF Running
  <2>2. CASE ls'.balance = ls.balance
    BY <2>1, <2>2 DEF Session!Discard
  <2>3. CASE Running /\ ls'.balance = run.balance
    BY <2>1, <2>3 DEF Session!Book
  <2>4. QED BY <2>1, <2>2, <2>3
<1>2. CASE StartMint
  <2>1. /\ ~Running /\ Running' /\ ls' = ls /\ run'.balance = ls.balance /\ run'.holdings = 0
    BY <1>2, Starting DEF Running
  <2>2. QED BY <2>1 DEF Session!Discard
<1>3. CASE TakeEntry \/ Hold
  <2>1. /\ Running /\ Running' /\ ls' = ls
        /\ run'.balance = run.balance /\ run'.holdings = run.holdings
    <3>1. CASE TakeEntry
      BY <3>1, Taking, TakenFits DEF Running
    <3>2. CASE Hold
      <4>1. phase = "sell" /\ phase' = "entry" /\ run'.balance = run.balance /\ run'.holdings = run.holdings
        BY <3>2, Keeping
      <4>2. QED BY <3>2, <4>1 DEF Running, Hold
    <3>3. QED BY <1>3, <3>1, <3>2
  <2>2. QED BY <2>1
<1>4. CASE Passes
  <2>1. ls' = ls
    BY <1>4, Passing
  <2>2. CASE phase' = phase /\ run' = run
    BY <2>1, <2>2 DEF Running
  <2>3. CASE phase = "buy" /\ phase' = "exit" /\ run' = run
    BY <2>1, <2>3 DEF Running
  <2>4. CASE Running /\ phase' = "entry" /\ run'.balance = run.balance /\ run'.holdings = run.holdings
    BY <2>1, <2>4 DEF Running
  <2>5. QED BY <1>4, <2>2, <2>3, <2>4, Passing
<1>5. CASE Buy
  <2>1. /\ phase = "buy" /\ phase' \in {"entry", "sell"} /\ ls' = ls
        /\ run'.holdings > run.holdings
        /\ run'.balance <= run.balance - (BaseFee + PriorityFee + JitoTip)
        /\ run'.balance > -BaseFee
    BY <1>5, Purchase DEF Buy
  <2>2. Running /\ Running'
    BY <2>1 DEF Running
  <2>3. run.holdings = 0
    <3>1. run.holdings \in Nat
      BY <2>2 DEF Types, Fits
    <3>2. QED BY <2>1, <2>2, <3>1 DEF Holding
  <2>4. QED BY <2>1, <2>2, <2>3 DEF Session!Buy
<1>6. CASE Sell
  <2>1. /\ phase = "sell" /\ phase' \in {"traded", "entry"} /\ ls' = ls
        /\ run.holdings > 0 /\ run'.holdings = 0
        /\ run'.balance >= run.balance - (BaseFee + PriorityFee + JitoTip)
    BY <1>6, Sale DEF Sell
  <2>2. Running /\ Running'
    BY <2>1 DEF Running
  <2>3. QED BY <2>1, <2>2 DEF Session!Sell
<1>7. CASE UNCHANGED vars
  BY <1>7 DEF vars, Running
<1>8. QED BY <1>1, <1>2, <1>3, <1>4, <1>5, <1>6, <1>7, Going DEF Passes

-----------------------------------------------------------------------------
(* The waiting.                                                              *)

(* The next trade is made on the entry in hand, which has waited.            *)
LEMMA NextTradeWaits ==
  ASSUME Types, InHand, TradesWaitForTheLast, Waiting, phase \in Questions,
         Running', run'.history = run.history,
         NEW trade, trade.i = run.i, trade.until \in Nat,
         run'.trades = Append(run.trades, trade),
         run.i <= run'.i,
         run'.i >= Len(run.history) \/ run.history[run'.i].timestamp >= trade.until
  PROVE  TradesWaitForTheLast' /\ Waiting'
<1> DEFINE trades == run.trades
           n == Len(run.trades)
<1>1. /\ Running /\ Fits(run) /\ run.history \in Seq(Entries) /\ run.i \in DOMAIN run.history
  BY EntryInHand
<1>2. /\ n \in Nat /\ DOMAIN trades = 1 .. n
      /\ Len(run'.trades) = n + 1
      /\ \A k \in 1 .. n : run'.trades[k] = trades[k]
      /\ run'.trades[n + 1] = trade
  <2>1. IsTrades(trades) /\ trade.i \in Nat \ {0}
    BY <1>1 DEF Fits
  <2>2. QED BY <2>1, Trading
<1>3. Waiting'
  <2>1. Last(run'.trades) = trade
    BY <1>2 DEF Last
  <2>2. QED BY <1>1, <2>1 DEF Waiting
<1>4. ASSUME NEW k \in 2 .. n + 1
      PROVE  LET before == run'.trades[k - 1]
                 at == run'.trades[k].i
             IN  at >= before.i /\ (run'.history[at].timestamp >= before.until \/ at = Len(run'.history))
  <2>1. CASE k = n + 1
    <3>1. run'.trades[k] = trade /\ run'.trades[k - 1] = trades[n] /\ n > 0
      BY <1>2, <2>1
    <3>2. trades # <<>> /\ Last(trades) = trades[n]
      BY <3>1 DEF Last
    <3>3. /\ trades[n].i <= run.i
          /\ run.i >= Len(run.history) \/ run.history[run.i].timestamp >= trades[n].until
      BY <1>1, <3>2 DEF Waiting
    <3>4. trades[n].i \in Nat
      <4>1. n \in DOMAIN trades
        BY <1>2, <3>1
      <4>2. IsTrades(trades)
        BY <1>1 DEF Fits
      <4>3. QED BY <4>1, <4>2 DEF IsTrades
    <3> HIDE DEF trades, n
    <3>5. run.i \in Nat /\ Len(run.history) \in Nat /\ run.i <= Len(run.history)
      BY <1>1
    <3>6. QED BY <3>1, <3>3, <3>4, <3>5
  <2>2. CASE k \in 2 .. n
    <3>1. run'.trades[k] = trades[k] /\ run'.trades[k - 1] = trades[k - 1]
      BY <1>2, <2>2
    <3>2. LET before == trades[k - 1]
              at == trades[k].i
          IN  at >= before.i /\ (run.history[at].timestamp >= before.until \/ at = Len(run.history))
      BY <1>1, <2>2 DEF TradesWaitForTheLast
    <3>3. QED BY <3>1, <3>2
  <2>3. QED BY <1>2, <2>1, <2>2
<1>5. TradesWaitForTheLast'
  BY <1>2, <1>4 DEF TradesWaitForTheLast
<1>6. QED BY <1>3, <1>5

(* Going on through the history is waiting too.                              *)
LEMMA GoingOnWaits ==
  ASSUME Types, Running, TradesWaitForTheLast, Waiting,
         run'.history = run.history, run'.trades = run.trades,
         run'.i \in {run.i, run.i + run.stepSize}
  PROVE  TradesWaitForTheLast' /\ Waiting'
<1>1. /\ Fits(run) /\ run.history \in Seq(Entries) /\ InOrder(run.history)
  BY DEF Types, Fits, Reports
<1>2. run.i \in Nat \ {0} /\ run'.i \in Nat \ {0} /\ run.i <= run'.i /\ Len(run.history) \in Nat
  BY <1>1 DEF Fits
<1>3. ASSUME run.trades # <<>>
      PROVE  LET last == Last(run.trades)
             IN  /\ last.i \in DOMAIN run.history /\ last.i <= run'.i
                 /\ run'.i >= Len(run.history) \/ run.history[run'.i].timestamp >= last.until
  <2> DEFINE last == Last(run.trades)
  <2>1. /\ last.i \in DOMAIN run.history /\ last.i <= run.i
        /\ run.i >= Len(run.history) \/ run.history[run.i].timestamp >= last.until
    BY <1>3 DEF Waiting
  <2>2. last.until \in Nat
    <3>1. Len(run.trades) \in DOMAIN run.trades
      BY <1>1, <1>3 DEF Fits, IsTrades
    <3>2. QED BY <1>1, <3>1 DEF Fits, IsTrades, Last
  <2> HIDE DEF last
  <2>3. last.i \in Nat
    BY <1>1, <2>1
  <2>4. CASE run'.i >= Len(run.history)
    BY <1>2, <2>1, <2>3, <2>4 DEF last
  <2>5. CASE run'.i < Len(run.history)
    <3>1. run.i \in DOMAIN run.history /\ run'.i \in DOMAIN run.history
      BY <1>1, <1>2, <2>5
    <3>2. run.history[run.i].timestamp <= run.history[run'.i].timestamp
      BY <1>1, <1>2, <3>1 DEF InOrder
    <3>3. run.history[run.i].timestamp \in Nat /\ run.history[run'.i].timestamp \in Nat
      <4>1. run.history[run.i] \in Entries /\ run.history[run'.i] \in Entries
        BY <1>1, <3>1
      <4>2. QED BY <4>1 DEF Entries
    <3>4. run.history[run.i].timestamp >= last.until
      BY <1>2, <2>1, <2>5
    <3>5. run.history[run'.i].timestamp >= last.until
      BY <2>2, <3>2, <3>3, <3>4
    <3>6. last.i <= run'.i
      BY <1>2, <2>1, <2>3
    <3>7. QED BY <2>1, <3>5, <3>6 DEF last
  <2>6. QED BY <1>2, <2>4, <2>5
<1>4. QED BY <1>3 DEF TradesWaitForTheLast, Waiting

LEMMA WaitsKept ==
  ASSUME Types, InHand, TradesWaitForTheLast, Waiting, [Next]_vars
  PROVE  TradesWaitForTheLast' /\ Waiting'
<1>1. CASE Ends
  <2>1. ~Running'
    BY <1>1, Ending DEF Running
  <2>2. QED BY <2>1 DEF TradesWaitForTheLast, Waiting
<1>2. CASE StartMint
  <2>1. run'.trades = <<>>
    BY <1>2, Starting
  <2>2. QED BY <2>1 DEF TradesWaitForTheLast, Waiting
<1>3. CASE TakeEntry
  <2>1. Running
    BY <1>3, Taking DEF Running
  <2>2. run'.history = run.history /\ run'.trades = run.trades /\ run'.i = run.i
    BY <1>3, TakenFits
  <2>3. QED BY <2>1, <2>2, GoingOnWaits
<1>4. CASE Passes
  <2>1. CASE phase' = phase /\ run' = run
    BY <2>1 DEF TradesWaitForTheLast, Waiting, Running
  <2>2. CASE phase = "buy" /\ phase' = "exit" /\ run' = run
    BY <2>2 DEF TradesWaitForTheLast, Waiting, Running
  <2>3. CASE /\ Running /\ run'.history = run.history /\ run'.trades = run.trades
             /\ run'.i = run.i + run.stepSize
    BY <2>3, GoingOnWaits
  <2>4. QED BY <1>4, <2>1, <2>2, <2>3, Passing
<1>5. CASE Hold
  <2>1. /\ Running /\ run'.history = run.history /\ run'.trades = run.trades
        /\ run'.i = run.i + run.stepSize
    BY <1>5, Keeping DEF Running
  <2>2. QED BY <2>1, GoingOnWaits
<1>6. CASE Buy
  <2>1. phase \in Questions /\ Running'
    BY <1>6, Purchase DEF Buy, Questions, Running
  <2>2. run.i \in DOMAIN run.history /\ run.history \in Seq(Entries)
    BY <2>1, EntryInHand
  <2>3. PICK trade : /\ run'.trades = Append(run.trades, trade)
                     /\ trade.i = run.i /\ trade.until \in Nat
                     /\ IF run.i < Len(run.history)
                          THEN /\ run'.i \in DOMAIN run.history /\ run.i <= run'.i
                               /\ \/ run'.i = Len(run.history)
                                  \/ run.history[run'.i].timestamp >= trade.until
                          ELSE run'.i = run.i
    BY <1>6, Purchase
  <2>4. /\ run.i <= run'.i
        /\ run'.i >= Len(run.history) \/ run.history[run'.i].timestamp >= trade.until
    BY <2>2, <2>3
  <2>5. run'.history = run.history
    BY <1>6, Purchase
  <2>6. QED BY <2>1, <2>3, <2>4, <2>5, NextTradeWaits
<1>7. CASE Sell
  <2>1. phase \in Questions /\ Running' /\ run'.history = run.history
    BY <1>7, Sale DEF Questions, Running
  <2>2. PICK trade : /\ run'.trades = Append(run.trades, trade)
                     /\ trade.i = run.i /\ trade.until \in Nat
                     /\ run.i <= run'.i
                     /\ \/ run'.i >= Len(run.history)
                        \/ run.history[run'.i].timestamp >= trade.until
    BY <1>7, Sale
  <2>3. QED BY <2>1, <2>2, NextTradeWaits
<1>8. CASE UNCHANGED vars
  BY <1>8 DEF TradesWaitForTheLast, Waiting, vars, Running
<1>9. QED BY <1>1, <1>2, <1>3, <1>4, <1>5, <1>6, <1>7, <1>8, Going DEF Passes

-----------------------------------------------------------------------------
(* The limits.                                                               *)

LEMMA PositiveProduct == ASSUME NEW a \in Nat \ {0}, NEW b \in Nat \ {0} PROVE a * b \in Nat \ {0}
OBVIOUS

(* A price that reaches a profit is above the price that was paid.           *)
LEMMA ProfitIsAbove ==
  ASSUME NEW paid \in Nat \ {0}, NEW profit \in Nat \ {0}, NEW price \in Nat,
         100 * price >= paid * (100 + profit)
  PROVE  price > paid
<1>1. paid * profit \in Nat \ {0}
  BY PositiveProduct
<1>2. paid * (100 + profit) = 100 * paid + paid * profit
  OBVIOUS
<1>3. QED BY <1>1, <1>2

(* An order that trails is the order of the highest price it has seen.       *)
LEMMA StopTrails ==
  ASSUME NEW order, NEW h \in Nat, NEW price \in Nat, IsTrailingStop(order, h)
  PROVE  IsTrailingStop(TrailedStop(order, price), IF price > h THEN price ELSE h)
BY DEF IsTrailingStop, StopFields, TrailedStop

LEMMA ActiveProfitTrails ==
  ASSUME NEW order, NEW h \in Nat, NEW price \in Nat, IsTrailingProfit(order, h, TRUE)
  PROVE  IsTrailingProfit(TrailedProfit(order, price), IF price > h THEN price ELSE h, TRUE)
<1>1. IsTrailingProfit(Activated(order, price), h, TRUE)
  BY DEF IsTrailingProfit, ProfitFields, Activated
<1> DEFINE active == Activated(order, price)
<1> HIDE DEF active
<1>2. IsTrailingProfit(active, h, TRUE)
  BY <1>1 DEF active
<1>3. IsTrailingProfit(Raised(active, price), IF price > h THEN price ELSE h, TRUE)
  BY <1>2 DEF IsTrailingProfit, ProfitFields, Raised
<1>4. QED BY <1>3 DEF TrailedProfit, active

LEMMA ProfitSleeps ==
  ASSUME NEW order, NEW price, IsTrailingProfit(order, Paid, FALSE), ~Reaches(price)
  PROVE  IsTrailingProfit(TrailedProfit(order, price), Paid, FALSE)
<1> DEFINE shown == Activated(order, price)
<1>1. IsTrailingProfit(shown, Paid, FALSE)
  BY DEF IsTrailingProfit, ProfitFields, Activated, Reaches
<1> HIDE DEF shown
<1>2. Raised(shown, price) = shown
  BY <1>1 DEF IsTrailingProfit, Raised
<1>3. QED BY <1>1, <1>2 DEF TrailedProfit, shown

LEMMA ProfitActivates ==
  ASSUME NEW order, NEW price \in Nat, IsTrailingProfit(order, Paid, FALSE), Reaches(price),
         Paid \in Nat, price > Paid
  PROVE  IsTrailingProfit(TrailedProfit(order, price), price, TRUE)
<1> DEFINE active == Activated(order, price)
<1>1. IsTrailingProfit(active, Paid, TRUE)
  BY DEF IsTrailingProfit, ProfitFields, Activated, Reaches
<1> HIDE DEF active
<1>2. IsTrailingProfit(Raised(active, price), price, TRUE)
  <2> DEFINE paid == Paid
  <2>1. IsTrailingProfit(active, paid, TRUE) /\ price > paid /\ paid \in Nat
    BY <1>1
  <2> HIDE DEF paid
  <2>2. QED BY <2>1 DEF IsTrailingProfit, ProfitFields, Raised
<1>3. QED BY <1>2 DEF TrailedProfit, active

(* When no order asks for a sale, all have been shown the price.             *)
LEMMA NoneAsks ==
  ASSUME NEW orders, NEW price, DOMAIN orders = OrderNames, ~LimitsDecision(orders, price).sell
  PROVE  LET after == LimitsDecision(orders, price).orders
         IN  /\ DOMAIN after = OrderNames
             /\ after.takeProfit = orders.takeProfit /\ after.stopLoss = orders.stopLoss
             /\ orders.takeProfit.placed => ~TakeProfitHit(orders.takeProfit, price)
             /\ orders.stopLoss.placed => ~StopLossHit(orders.stopLoss, price)
             /\ orders.trailingStopLoss.placed =>
                  /\ after.trailingStopLoss = TrailedStop(orders.trailingStopLoss, price)
                  /\ ~StopLossHit(after.trailingStopLoss, price)
             /\ orders.trailingTakeProfit.placed =>
                  /\ after.trailingTakeProfit = TrailedProfit(orders.trailingTakeProfit, price)
                  /\ ~TrailedProfitHit(after.trailingTakeProfit, price)
<1> DEFINE shownProfit == IF orders.trailingTakeProfit.placed
                            THEN [orders EXCEPT !.trailingTakeProfit = TrailedProfit(@, price)] ELSE orders
           shownStop == IF orders.trailingStopLoss.placed
                          THEN [shownProfit EXCEPT !.trailingStopLoss = TrailedStop(@, price)] ELSE shownProfit
<1>1. /\ LimitsDecision(orders, price).orders = shownStop
      /\ ~(orders.takeProfit.placed /\ TakeProfitHit(orders.takeProfit, price))
      /\ ~(orders.trailingTakeProfit.placed /\ TrailedProfitHit(shownProfit.trailingTakeProfit, price))
      /\ ~(orders.trailingStopLoss.placed /\ StopLossHit(shownStop.trailingStopLoss, price))
      /\ ~(orders.stopLoss.placed /\ StopLossHit(orders.stopLoss, price))
  BY DEF LimitsDecision
<1>2. /\ DOMAIN shownProfit = OrderNames
      /\ shownProfit.takeProfit = orders.takeProfit /\ shownProfit.stopLoss = orders.stopLoss
      /\ shownProfit.trailingStopLoss = orders.trailingStopLoss
      /\ orders.trailingTakeProfit.placed =>
           shownProfit.trailingTakeProfit = TrailedProfit(orders.trailingTakeProfit, price)
  BY DEF OrderNames
<1> HIDE DEF shownProfit
<1>3. /\ DOMAIN shownStop = OrderNames
      /\ shownStop.takeProfit = orders.takeProfit /\ shownStop.stopLoss = orders.stopLoss
      /\ shownStop.trailingTakeProfit = shownProfit.trailingTakeProfit
      /\ orders.trailingStopLoss.placed =>
           shownStop.trailingStopLoss = TrailedStop(orders.trailingStopLoss, price)
  BY <1>2 DEF OrderNames
<1> HIDE DEF shownStop
<1>4. QED BY <1>1, <1>2, <1>3

(* What is known of a position with tokens.                                  *)
LEMMA PositionTypes ==
  ASSUME Types, Running, OrdersFollow, run.holdings > 0
  PROVE  /\ Paid \in Nat \ {0} /\ Len(run.soFar) \in Nat
         /\ strat.position.seen \in 1 .. Len(run.soFar)
         /\ \A k \in 1 .. Len(run.soFar) : run.soFar[k].price \in Nat
         /\ ShownPrices \subseteq Nat
         /\ Strategy.limits.takeProfit \in Nat /\ Strategy.limits.stopLoss \in Nat
         /\ Strategy.limits.trailingStop \in Nat /\ Strategy.limits.trailingProfit \in Nat
         /\ Strategy.limits.trailingProfitStop \in Nat
<1>1. Paid \in Nat \ {0} /\ strat.position.seen \in DOMAIN run.soFar
  BY DEF OrdersFollow
<1>2. run.soFar \in Seq(Priced)
  BY DEF Types, Fits
<1>3. \A k \in 1 .. Len(run.soFar) : run.soFar[k].price \in Nat
  <2>1. \A k \in 1 .. Len(run.soFar) : run.soFar[k] \in Priced
    BY <1>2
  <2>2. \A entry \in Priced : entry.price \in Nat
    BY MintsAssumption DEF Priced, Entries
  <2>3. QED BY <2>1, <2>2
<1>4. ShownPrices \subseteq Nat
  BY <1>1, <1>2, <1>3 DEF ShownPrices, ShownUntil
<1>5. /\ Strategy.limits.takeProfit \in Nat /\ Strategy.limits.stopLoss \in Nat
      /\ Strategy.limits.trailingStop \in Nat /\ Strategy.limits.trailingProfit \in Nat
      /\ Strategy.limits.trailingProfitStop \in Nat
  BY SettingsAssumption DEF Types, Strategy
<1>6. QED BY <1>1, <1>2, <1>3, <1>4, <1>5

(* The orders follow as long as nothing is shown to them.                    *)
LEMMA FollowingUnshown ==
  ASSUME OrdersFollow, Running, run.holdings > 0, chosen' = chosen, run'.holdings = run.holdings,
         strat'.position = strat.position, strat'.orders = strat.orders,
         ShownPrices' = ShownPrices,
         strat.position.seen \in DOMAIN run'.soFar,
         run'.soFar[strat.position.seen] = run.soFar[strat.position.seen]
  PROVE  OrdersFollow'
<1>1. Paid' = Paid /\ Strategy' = Strategy /\ Highest' = Highest
  BY DEF Paid, Strategy, Highest
<1>2. FixedOrders /\ TrailingStopFollows /\ TrailingProfitFollows
  BY DEF OrdersFollow
<1>3. FixedOrders'
  BY <1>1, <1>2 DEF FixedOrders
<1>4. TrailingStopFollows'
  BY <1>1, <1>2 DEF TrailingStopFollows, IsTrailingStop
<1>5. TrailingProfitFollows'
  BY <1>1, <1>2 DEF TrailingProfitFollows, IsTrailingProfit, Reaches
<1>6. QED
  BY <1>1, <1>3, <1>4, <1>5 DEF OrdersFollow

(* A purchase places the orders at the price that was paid.                  *)
LEMMA FollowingPurchase ==
  ASSUME Types, InHand, Buy
  PROVE  OrdersFollow' /\ HeldWithinLimits'
<1>1. /\ chosen' = chosen /\ run'.soFar = run.soFar
      /\ strat'.position = [held |-> TRUE, timestamp |-> Now.timestamp, price |-> Now.price,
                            seen |-> Len(run.soFar)]
      /\ strat'.orders = PlaceOrders(strat.orders, Strategy.limits, Now.price)
  BY Purchase DEF Buy
<1>2. phase \in Questions
  BY DEF Buy, Questions
<1>3. /\ Fits(run) /\ Now.timestamp \in Nat /\ Now.price \in Nat \ {0}
  BY <1>2, EntryInHand, MintsAssumption
<1>4. run.soFar \in Seq(Priced) /\ run.soFar # <<>>
  BY <1>2, <1>3 DEF Fits, InHand
<1>5. /\ Len(run.soFar) \in Nat \ {0} /\ Len(run.soFar) \in DOMAIN run.soFar
      /\ run.soFar[Len(run.soFar)].price = Now.price
  BY <1>4 DEF Now, Last
<1>6. /\ Paid' = Now.price /\ strat'.position.seen = Len(run.soFar) /\ strat'.position.timestamp = Now.timestamp
      /\ Strategy' = Strategy
  BY <1>1 DEF Paid, Strategy
<1>7. ShownPrices' = {}
  <2>1. ShownUntil' <= Len(run.soFar) /\ ShownUntil' \in Int
    BY <1>1, <1>5 DEF ShownUntil
  <2>2. ShownPrices' = {run.soFar[k].price : k \in Len(run.soFar) + 1 .. ShownUntil'}
    BY <1>1, <1>6 DEF ShownPrices
  <2>3. Len(run.soFar) + 1 .. ShownUntil' = {}
    BY <1>5, <2>1
  <2>4. QED BY <2>2, <2>3
<1>8. Highest' = {Now.price}
  BY <1>3, <1>6, <1>7 DEF Highest
<1> DEFINE limits == Strategy.limits
           orders == strat'.orders
<1>9. /\ DOMAIN orders = OrderNames
      /\ limits.takeProfit # 0 => orders.takeProfit = TakeProfitPercentage(Now.price, limits.takeProfit)
      /\ limits.stopLoss # 0 => orders.stopLoss = StopLossPercentage(Now.price, limits.stopLoss)
      /\ limits.trailingStop # 0 => orders.trailingStopLoss = TrailingStopLoss(Now.price, limits.trailingStop)
      /\ limits.trailingProfit # 0 =>
           orders.trailingTakeProfit
             = TrailingTakeProfit(Now.price, limits.trailingProfit, limits.trailingProfitStop)
  BY <1>1 DEF PlaceOrders, OrderNames
<1>10. FixedOrders'
  BY <1>6, <1>9 DEF FixedOrders
<1>11. TrailingStopFollows'
  <2>1. limits.trailingStop # 0 => IsTrailingStop(orders.trailingStopLoss, Now.price)
    BY <1>9 DEF IsTrailingStop, StopFields, TrailingStopLoss
  <2>2. QED BY <1>6, <1>8, <2>1 DEF TrailingStopFollows, IsTrailingStop
<1>12. TrailingProfitFollows'
  <2>1. limits.trailingProfit # 0 => IsTrailingProfit(orders.trailingTakeProfit, Now.price, FALSE)
    BY <1>9 DEF IsTrailingProfit, ProfitFields, TrailingTakeProfit
  <2>2. QED BY <1>6, <1>7, <2>1 DEF TrailingProfitFollows, IsTrailingProfit
<1>13. OrdersFollow'
  <2>1. Paid' \in Nat \ {0} /\ strat'.position.seen \in DOMAIN run'.soFar
        /\ run'.soFar[strat'.position.seen].price = Paid'
    BY <1>1, <1>3, <1>5, <1>6
  <2>2. strat'.position.timestamp \in Nat /\ DOMAIN strat'.orders = OrderNames
    BY <1>3, <1>6, <1>9
  <2>3. QED BY <1>10, <1>11, <1>12, <2>1, <2>2 DEF OrdersFollow
<1>14. HeldWithinLimits'
  <2>1. ~(Len(run'.soFar) > strat'.position.seen)
    BY <1>1, <1>5, <1>6
  <2>2. QED BY <2>1 DEF HeldWithinLimits
<1>15. QED BY <1>13, <1>14

(* What a question about a sale adds to the prices the orders were shown:    *)
(* the price of the entry in hand, unless that is the one of the purchase.   *)
LEMMA ShowingThePrice ==
  ASSUME Types, InHand, OrdersFollow, Hold, run.holdings > 0
  PROVE  /\ Now.price \in Nat /\ Now' = Now /\ Paid' = Paid /\ Strategy' = Strategy /\ Config' = Config
         /\ ShownPrices \subseteq ShownPrices' /\ ShownPrices' \subseteq ShownPrices \cup {Now.price}
         /\ Now.price \in ShownPrices' \cup {Paid}
         /\ Now.price \in ShownPrices' \/ Now.price = Paid
         /\ Len(run'.soFar) > strat'.position.seen => Now.price \in ShownPrices'
<1>1. /\ phase = "sell" /\ phase' = "entry" /\ run'.soFar = run.soFar /\ strat'.position = strat.position
  BY Keeping
<1>2. chosen' = chosen /\ Running
  BY <1>1 DEF Hold, Running
<1> DEFINE seen == strat.position.seen
           n == Len(run.soFar)
<1>3. seen \in 1 .. n /\ n \in Nat /\ run.soFar[seen].price = Paid
  BY <1>2, PositionTypes DEF OrdersFollow
<1>4. Now' = Now /\ Now = run.soFar[n]
  BY <1>1 DEF Now, Last
<1>5. Now.price \in Nat
  BY <1>2, <1>3, <1>4, PositionTypes
<1>6. /\ ShownPrices = {run.soFar[k].price : k \in seen + 1 .. n - 1}
      /\ ShownPrices' = {run.soFar[k].price : k \in seen + 1 .. n}
  BY <1>1 DEF ShownPrices, ShownUntil
<1>7. ShownPrices \subseteq ShownPrices' /\ ShownPrices' \subseteq ShownPrices \cup {Now.price}
  <2>1. seen + 1 .. n - 1 \subseteq seen + 1 .. n
    BY <1>3
  <2>2. \A k \in seen + 1 .. n : k \in seen + 1 .. n - 1 \/ k = n
    BY <1>3
  <2> HIDE DEF seen, n
  <2>3. QED BY <1>4, <1>6, <2>1, <2>2
<1>8. seen < n => Now.price \in ShownPrices'
  <2>1. seen < n => n \in seen + 1 .. n
    BY <1>3
  <2>2. QED BY <1>4, <1>6, <2>1
<1>9. seen = n => Now.price = Paid
  BY <1>3, <1>4
<1>10. Paid' = Paid /\ Strategy' = Strategy /\ Config' = Config
  BY <1>1, <1>2 DEF Paid, Strategy, Config
<1>11. Now.price \in ShownPrices' \/ Now.price = Paid
  BY <1>3, <1>8, <1>9
<1>12. Len(run'.soFar) > strat'.position.seen => Now.price \in ShownPrices'
  BY <1>1, <1>3, <1>8
<1>13. QED BY <1>4, <1>5, <1>7, <1>10, <1>11, <1>12

(* The highest price moves with the price that is shown.                     *)
LEMMA HighestMoves ==
  ASSUME Types, InHand, OrdersFollow, Hold, run.holdings > 0, NEW h \in Highest
  PROVE  (IF Now.price > h THEN Now.price ELSE h) \in Highest'
<1>1. Running
  BY Keeping DEF Running
<1>2. /\ h \in ShownPrices \cup {Paid} /\ \A p \in ShownPrices \cup {Paid} : h >= p
      /\ ShownPrices \cup {Paid} \subseteq Nat
  BY <1>1, PositionTypes DEF Highest
<1>3. /\ Paid' = Paid /\ Now.price \in Nat
      /\ ShownPrices \subseteq ShownPrices' /\ ShownPrices' \subseteq ShownPrices \cup {Now.price}
      /\ Now.price \in ShownPrices' \cup {Paid}
  BY ShowingThePrice
<1> DEFINE higher == IF Now.price > h THEN Now.price ELSE h
<1>4. higher \in ShownPrices' \cup {Paid}
  BY <1>2, <1>3
<1>5. \A p \in ShownPrices' \cup {Paid} : higher >= p
  <2>1. higher \in Nat /\ higher >= Now.price /\ higher >= h /\ h \in Nat
    BY <1>2, <1>3
  <2> HIDE DEF higher
  <2>2. QED BY <1>2, <1>3, <2>1
<1> HIDE DEF higher
<1>6. higher \in Highest'
  BY <1>3, <1>4, <1>5 DEF Highest
<1>7. QED BY <1>6 DEF higher

(* A position that is kept.                                                  *)
LEMMA FollowingHold ==
  ASSUME Types, InHand, OrdersFollow, Hold, run.holdings > 0
  PROVE  OrdersFollow'
<1> DEFINE price == Now.price
           before == strat.orders
           after == strat'.orders
           limits == Strategy.limits
<1>1. /\ phase = "sell" /\ phase' = "entry" /\ run'.soFar = run.soFar /\ run'.holdings = run.holdings
      /\ strat'.position = strat.position
      /\ after = LimitsDecision(before, price).orders /\ ~LimitsDecision(before, price).sell
  BY Keeping
<1>2. Running
  BY <1>1 DEF Running
<1>3. /\ Paid \in Nat \ {0} /\ strat.position.seen \in DOMAIN run.soFar
      /\ run.soFar[strat.position.seen].price = Paid
      /\ strat.position.timestamp \in Nat /\ DOMAIN before = OrderNames
      /\ FixedOrders /\ TrailingStopFollows /\ TrailingProfitFollows
  BY <1>2 DEF OrdersFollow
<1>4. /\ price \in Nat /\ Paid' = Paid /\ Strategy' = Strategy
      /\ ShownPrices \subseteq ShownPrices' /\ ShownPrices' \subseteq ShownPrices \cup {price}
      /\ price \in ShownPrices' \/ price = Paid
  BY ShowingThePrice
<1>5. /\ limits.trailingProfit \in Nat /\ ShownPrices \cup {Paid} \subseteq Nat
  BY <1>2, PositionTypes
<1>6. /\ DOMAIN after = OrderNames
      /\ after.takeProfit = before.takeProfit /\ after.stopLoss = before.stopLoss
      /\ before.trailingStopLoss.placed =>
           after.trailingStopLoss = TrailedStop(before.trailingStopLoss, price)
      /\ before.trailingTakeProfit.placed =>
           after.trailingTakeProfit = TrailedProfit(before.trailingTakeProfit, price)
  BY <1>1, <1>3, NoneAsks
<1> HIDE DEF after, before, price, limits
<1>7. FixedOrders'
  BY <1>3, <1>4, <1>6 DEF FixedOrders, after, before
<1>8. TrailingStopFollows'
  <2>1. SUFFICES ASSUME limits.trailingStop # 0
                 PROVE  \E h \in Highest' : IsTrailingStop(after.trailingStopLoss, h)
    BY <1>4 DEF TrailingStopFollows, IsTrailingStop, after, limits
  <2>2. PICK h \in Highest : IsTrailingStop(before.trailingStopLoss, h)
    BY <1>3, <2>1 DEF TrailingStopFollows, before, limits
  <2>3. h \in Nat
    BY <1>5 DEF Highest
  <2>4. IsTrailingStop(after.trailingStopLoss, IF price > h THEN price ELSE h)
    <3>1. before.trailingStopLoss.placed
      BY <2>2 DEF IsTrailingStop
    <3>2. QED BY <1>4, <1>6, <2>2, <2>3, <3>1, StopTrails
  <2>5. (IF price > h THEN price ELSE h) \in Highest'
    BY HighestMoves DEF price
  <2>6. QED BY <2>4, <2>5
<1>9. TrailingProfitFollows'
  <2>1. SUFFICES ASSUME limits.trailingProfit # 0
                 PROVE  IF \E p \in ShownPrices' : Reaches(p)
                          THEN \E h \in Highest' : IsTrailingProfit(after.trailingTakeProfit, h, TRUE)
                          ELSE IsTrailingProfit(after.trailingTakeProfit, Paid, FALSE)
    BY <1>4 DEF TrailingProfitFollows, IsTrailingProfit, Reaches, after, limits
  <2>2. CASE \E p \in ShownPrices : Reaches(p)
    <3>1. PICK h \in Highest : IsTrailingProfit(before.trailingTakeProfit, h, TRUE)
      BY <1>3, <2>1, <2>2 DEF TrailingProfitFollows, before, limits
    <3>2. h \in Nat
      BY <1>5 DEF Highest
    <3>3. IsTrailingProfit(after.trailingTakeProfit, IF price > h THEN price ELSE h, TRUE)
      <4>1. before.trailingTakeProfit.placed
        BY <3>1 DEF IsTrailingProfit
      <4>2. QED BY <1>4, <1>6, <3>1, <3>2, <4>1, ActiveProfitTrails
    <3>4. (IF price > h THEN price ELSE h) \in Highest'
      BY HighestMoves DEF price
    <3>5. \E p \in ShownPrices' : Reaches(p)
      BY <1>4, <2>2
    <3>6. QED BY <3>3, <3>4, <3>5
  <2>3. CASE ~\E p \in ShownPrices : Reaches(p)
    <3>1. IsTrailingProfit(before.trailingTakeProfit, Paid, FALSE)
      BY <1>3, <2>1, <2>3 DEF TrailingProfitFollows, before, limits
    <3>2. before.trailingTakeProfit.placed
      BY <3>1 DEF IsTrailingProfit
    <3>3. CASE Reaches(price)
      <4>1. price > Paid
        BY <1>3, <1>4, <1>5, <2>1, <3>3, ProfitIsAbove DEF Reaches, limits
      <4>2. IsTrailingProfit(after.trailingTakeProfit, price, TRUE)
        BY <1>3, <1>4, <1>6, <3>1, <3>2, <3>3, <4>1, ProfitActivates
      <4>3. price \in ShownPrices'
        BY <1>3, <1>4, <4>1
      <4>4. price \in Highest'
        <5>1. \A p \in ShownPrices : p <= price
          <6>1. Paid * (100 + limits.trailingProfit) \in Nat
            BY <1>3, <1>5
          <6>2. ASSUME NEW p \in ShownPrices PROVE p <= price
            <7>1. p \in Nat /\ ~Reaches(p)
              BY <1>5, <2>3
            <7>2. PICK level \in Nat : level = Paid * (100 + limits.trailingProfit)
              BY <6>1
            <7>3. 100 * price >= level /\ ~(100 * p >= level)
              BY <3>3, <7>1, <7>2 DEF Reaches, limits
            <7>4. QED BY <1>4, <7>1, <7>2, <7>3
          <6>3. QED BY <6>2
        <5>2. \A p \in ShownPrices' \cup {Paid} : price >= p
          BY <1>3, <1>4, <1>5, <4>1, <5>1
        <5>3. QED BY <1>4, <4>3, <5>2 DEF Highest
      <4>5. QED BY <3>3, <4>2, <4>3, <4>4
    <3>4. CASE ~Reaches(price)
      <4>1. IsTrailingProfit(after.trailingTakeProfit, Paid, FALSE)
        BY <1>6, <3>1, <3>2, <3>4, ProfitSleeps
      <4>2. ~\E p \in ShownPrices' : Reaches(p)
        BY <1>4, <2>3, <3>4
      <4>3. QED BY <4>1, <4>2
    <3>5. QED BY <3>3, <3>4
  <2>4. QED BY <2>2, <2>3
<1>10. QED
  BY <1>1, <1>3, <1>4, <1>6, <1>7, <1>8, <1>9 DEF OrdersFollow, after

(* Nobody keeps a position that has reached a limit.                         *)
LEMMA LimitsHeld ==
  ASSUME Types, InHand, OrdersFollow, Hold, run.holdings > 0
  PROVE  HeldWithinLimits'
<1> DEFINE price == Now.price
           before == strat.orders
           after == strat'.orders
           limits == Strategy.limits
           shown == {run'.soFar[k].price : k \in strat'.position.seen + 1 .. Len(run'.soFar)}
<1>1. /\ phase = "sell" /\ phase' = "entry" /\ run'.soFar = run.soFar /\ run'.holdings = run.holdings
      /\ strat'.position = strat.position
      /\ after = LimitsDecision(before, price).orders /\ ~LimitsDecision(before, price).sell
      /\ ~AutoSells
  BY Keeping
<1>2. Running /\ Running'
  BY <1>1 DEF Running
<1>3. DOMAIN before = OrderNames /\ FixedOrders /\ strat.position.timestamp \in Nat
  BY <1>2 DEF OrdersFollow
<1>4. /\ Paid' = Paid /\ Now' = Now /\ Strategy' = Strategy /\ Config' = Config
      /\ price \in Nat /\ ShownPrices \subseteq ShownPrices' /\ ShownPrices' \subseteq ShownPrices \cup {price}
  BY ShowingThePrice
<1>5. /\ after.takeProfit = before.takeProfit /\ after.stopLoss = before.stopLoss
      /\ before.takeProfit.placed => ~TakeProfitHit(before.takeProfit, price)
      /\ before.stopLoss.placed => ~StopLossHit(before.stopLoss, price)
      /\ before.trailingStopLoss.placed => ~StopLossHit(after.trailingStopLoss, price)
      /\ before.trailingTakeProfit.placed => ~TrailedProfitHit(after.trailingTakeProfit, price)
  BY <1>1, <1>3, NoneAsks
<1>6. TrailingStopFollows /\ TrailingProfitFollows
  BY <1>2 DEF OrdersFollow
<1>7. TrailingStopFollows' /\ TrailingProfitFollows'
  <2>1. OrdersFollow'
    BY FollowingHold
  <2>2. QED BY <1>1, <1>2, <2>1 DEF OrdersFollow
<1>8. shown = ShownPrices'
  BY <1>1 DEF ShownPrices, ShownUntil
<1>9. /\ Paid \in Nat \ {0} /\ ShownPrices' \subseteq Nat
      /\ limits.takeProfit \in Nat /\ limits.stopLoss \in Nat /\ limits.trailingStop \in Nat
      /\ limits.trailingProfit \in Nat /\ limits.trailingProfitStop \in Nat
  BY <1>2, <1>4, PositionTypes
<1> HIDE DEF after, before, price, limits, shown
<1>10. \A h \in Highest' : h \in Nat /\ Max(shown \cup {Paid}) = h
  <2>1. ASSUME NEW h \in Highest' PROVE h \in Nat /\ Max(shown \cup {Paid}) = h
    <3>1. h \in shown \cup {Paid} /\ \A p \in shown \cup {Paid} : h >= p
      BY <1>4, <1>8, <2>1 DEF Highest
    <3>2. shown \cup {Paid} \subseteq Int
      BY <1>8, <1>9
    <3>3. h \in Nat
      BY <1>8, <1>9, <3>1
    <3>4. QED BY <3>1, <3>2, <3>3, MaxIsUpperBound
  <2>2. QED BY <2>1
<1>11. limits.stopLoss # 0 => 100 * price > Paid * (100 - limits.stopLoss)
  <2>1. SUFFICES ASSUME limits.stopLoss # 0 PROVE 100 * price > Paid * (100 - limits.stopLoss)
    OBVIOUS
  <2>2. before.stopLoss = StopLossPercentage(Paid, limits.stopLoss)
    BY <1>3, <2>1 DEF FixedOrders, before, limits
  <2>3. ~(100 * price <= Paid * (100 - limits.stopLoss))
    BY <1>5, <2>2 DEF StopLossPercentage, StopLossHit
  <2>4. Paid * (100 - limits.stopLoss) \in Int
    BY <1>9
  <2>5. QED BY <1>4, <2>3, <2>4
<1>12. limits.takeProfit # 0 => 100 * price < Paid * (100 + limits.takeProfit)
  <2>1. SUFFICES ASSUME limits.takeProfit # 0 PROVE 100 * price < Paid * (100 + limits.takeProfit)
    OBVIOUS
  <2>2. before.takeProfit = TakeProfitPercentage(Paid, limits.takeProfit)
    BY <1>3, <2>1 DEF FixedOrders, before, limits
  <2>3. ~(100 * price >= Paid * (100 + limits.takeProfit))
    BY <1>5, <2>2 DEF TakeProfitPercentage, TakeProfitHit
  <2>4. Paid * (100 + limits.takeProfit) \in Int
    BY <1>9
  <2>5. QED BY <1>4, <2>3, <2>4
<1>13. limits.trailingStop # 0 => 100 * price > Max(shown \cup {Paid}) * (100 - limits.trailingStop)
  <2>1. SUFFICES ASSUME limits.trailingStop # 0
                 PROVE  100 * price > Max(shown \cup {Paid}) * (100 - limits.trailingStop)
    OBVIOUS
  <2>2. before.trailingStopLoss.placed
    BY <1>6, <2>1 DEF TrailingStopFollows, IsTrailingStop, before, limits
  <2>3. PICK h \in Highest' : after.trailingStopLoss.stopPrice = h * (100 - limits.trailingStop)
    BY <1>4, <1>7, <2>1 DEF TrailingStopFollows, IsTrailingStop, after, limits
  <2>4. ~(100 * price <= h * (100 - limits.trailingStop))
    BY <1>5, <2>2, <2>3 DEF StopLossHit
  <2>5. h \in Nat /\ Max(shown \cup {Paid}) = h
    BY <1>10
  <2>6. h * (100 - limits.trailingStop) \in Int
    BY <1>9, <2>5
  <2>7. QED BY <1>4, <2>4, <2>5, <2>6
<1>14. (limits.trailingProfit # 0 /\ \E p \in shown : 100 * p >= Paid * (100 + limits.trailingProfit))
         => 100 * price > Max(shown \cup {Paid}) * (100 - limits.trailingProfitStop)
  <2>1. SUFFICES ASSUME limits.trailingProfit # 0,
                        \E p \in shown : 100 * p >= Paid * (100 + limits.trailingProfit)
                 PROVE  100 * price > Max(shown \cup {Paid}) * (100 - limits.trailingProfitStop)
    OBVIOUS
  <2>2. before.trailingTakeProfit.placed
    BY <1>6, <2>1 DEF TrailingProfitFollows, IsTrailingProfit, before, limits
  <2>3. (\E p \in ShownPrices : Reaches(p))'
    BY <1>4, <1>8, <2>1 DEF Reaches, limits
  <2>4. \E h \in Highest' : IsTrailingProfit(after.trailingTakeProfit, h, TRUE)
    BY <1>4, <1>7, <2>1, <2>3 DEF TrailingProfitFollows, IsTrailingProfit, after, limits
  <2>5. PICK h \in Highest' : IsTrailingProfit(after.trailingTakeProfit, h, TRUE)
    BY <2>4
  <2>6. after.trailingTakeProfit.isActive
    BY <2>5 DEF IsTrailingProfit
  <2>7. after.trailingTakeProfit.stopPrice = h * (100 - limits.trailingProfitStop)
    BY <2>5 DEF IsTrailingProfit, limits
  <2>8. ~(100 * price <= h * (100 - limits.trailingProfitStop))
    BY <1>5, <2>2, <2>6, <2>7 DEF TrailedProfitHit
  <2>9. h \in Nat /\ Max(shown \cup {Paid}) = h
    BY <1>10
  <2>10. h * (100 - limits.trailingProfitStop) \in Int
    BY <1>9, <2>9
  <2>11. QED BY <1>4, <2>8, <2>9, <2>10
<1>15. Config.autoSellTimeoutMs # 0 =>
         Now.timestamp - strat.position.timestamp < Config.autoSellTimeoutMs
  <2>1. Config.autoSellTimeoutMs \in Nat
    BY SettingsAssumption DEF Types, Config
  <2>2. Now.timestamp \in Nat
    BY <1>1, EntryInHand DEF Questions
  <2>3. QED BY <1>1, <1>3, <2>1, <2>2 DEF AutoSells
<1>16. QED
  <2>1. Paid = strat'.position.price /\ Now' = Now
    BY <1>1, <1>4 DEF Paid
  <2>2. QED
    BY <1>1, <1>4, <1>11, <1>12, <1>13, <1>14, <1>15, <2>1 DEF HeldWithinLimits, shown, price, limits

(* The orders and the limits, whatever is done.                              *)
LEMMA FollowKept ==
  ASSUME Types, InHand, Holding, OrdersFollow, HeldWithinLimits, [Next]_vars
  PROVE  OrdersFollow' /\ HeldWithinLimits'
<1>1. CASE Ends
  <2>1. ~Running' /\ phase' # "entry"
    BY <1>1, Ending DEF Running
  <2>2. QED BY <2>1 DEF OrdersFollow, HeldWithinLimits
<1>2. CASE StartMint \/ Sell
  <2>1. run'.holdings = 0
    BY <1>2, Starting, Sale
  <2>2. QED BY <2>1 DEF OrdersFollow, HeldWithinLimits
<1>3. CASE TakeEntry
  <2>1. /\ Running /\ phase = "entry" /\ chosen' = chosen /\ strat' = strat
        /\ run'.holdings = run.holdings /\ run'.soFar = Append(run.soFar, Entry)
        /\ phase' = (IF strat.position.held THEN "sell" ELSE "buy")
    BY <1>3, Taking, TakenFits DEF Running
  <2>2. HeldWithinLimits'
    BY <2>1 DEF HeldWithinLimits
  <2>3. CASE ~(run.holdings > 0)
    BY <2>1, <2>2, <2>3 DEF OrdersFollow
  <2>4. CASE run.holdings > 0
    <3>1. phase' = "sell"
      BY <2>1, <2>4 DEF Holding
    <3>2. run.soFar \in Seq(Priced) /\ Entry \in Priced
      BY <1>3, <2>1, TakenFits DEF Types, Fits
    <3>3. strat.position.seen \in 1 .. Len(run.soFar)
      BY <2>1, <2>4, PositionTypes
    <3>4. /\ Len(run'.soFar) = Len(run.soFar) + 1 /\ Len(run.soFar) \in Nat
          /\ \A k \in 1 .. Len(run.soFar) : run'.soFar[k] = run.soFar[k]
      <4> HIDE DEF Entry
      <4>1. QED BY <2>1, <3>2
    <3>5. ShownPrices' = ShownPrices
      <4>1. ShownUntil' = Len(run.soFar) /\ ShownUntil = Len(run.soFar)
        BY <2>1, <3>1, <3>4 DEF ShownUntil
      <4>2. \A k \in strat.position.seen + 1 .. Len(run.soFar) : run'.soFar[k] = run.soFar[k]
        BY <3>3, <3>4
      <4>3. QED BY <2>1, <4>1, <4>2 DEF ShownPrices
    <3>6. strat.position.seen \in DOMAIN run'.soFar
      <4> HIDE DEF Entry
      <4>1. run'.soFar \in Seq(Priced)
        BY <2>1, <3>2
      <4>2. QED BY <3>3, <3>4, <4>1
    <3>7. run'.soFar[strat.position.seen] = run.soFar[strat.position.seen]
      BY <3>3, <3>4
    <3>8. OrdersFollow'
      BY <2>1, <2>4, <3>5, <3>6, <3>7, FollowingUnshown
    <3>9. QED BY <2>2, <3>8
  <2>5. QED BY <2>3, <2>4
<1>4. CASE Passes
  <2>1. /\ chosen' = chosen
        /\ strat'.position = strat.position /\ strat'.orders = strat.orders
    BY <1>4, Passing
  <2>2. CASE phase' = phase /\ run' = run
    <3>1. Strategy' = Strategy /\ Paid' = Paid /\ ShownPrices' = ShownPrices /\ Highest' = Highest
      BY <2>1, <2>2 DEF Strategy, Paid, ShownPrices, ShownUntil, Highest
    <3>2. HeldWithinLimits'
      BY <2>1, <2>2, <3>1 DEF HeldWithinLimits, Now, Config, Strategy
    <3>3. CASE Running /\ run.holdings > 0
      <4>1. strat.position.seen \in DOMAIN run'.soFar
        BY <2>2, <3>3 DEF OrdersFollow
      <4>2. QED BY <2>1, <2>2, <3>1, <3>2, <3>3, <4>1, FollowingUnshown
    <3>4. CASE ~(Running /\ run.holdings > 0)
      <4>1. OrdersFollow'
        BY <2>2, <3>4 DEF OrdersFollow, Running
      <4>2. QED BY <3>2, <4>1
    <3>5. QED BY <3>3, <3>4
  <2>3. CASE run'.holdings = run.holdings /\ ~(run.holdings > 0)
    BY <2>3 DEF OrdersFollow, HeldWithinLimits
  <2>4. CASE /\ phase = "entry" /\ phase' = "entry"
             /\ run'.soFar = run.soFar /\ run'.holdings = run.holdings /\ run.holdings > 0
    <3>1. Strategy' = Strategy /\ Running /\ ShownPrices' = ShownPrices
      BY <2>1, <2>4 DEF Strategy, Running, ShownPrices, ShownUntil
    <3>2. HeldWithinLimits'
      BY <2>1, <2>4, <3>1 DEF HeldWithinLimits, Now, Config, Strategy
    <3>3. strat.position.seen \in DOMAIN run'.soFar
      BY <2>4, <3>1 DEF OrdersFollow
    <3>4. OrdersFollow'
      BY <2>1, <2>4, <3>1, <3>3, FollowingUnshown
    <3>5. QED BY <3>2, <3>4
  <2>5. phase \in {"buy", "exit"} => ~(run.holdings > 0)
    BY DEF Holding, Running
  <2>6. QED BY <1>4, <2>2, <2>3, <2>4, <2>5, Passing
<1>5. CASE Buy
  BY <1>5, FollowingPurchase
<1>6. CASE Hold
  <2>1. CASE run.holdings > 0
    BY <1>6, <2>1, FollowingHold, LimitsHeld
  <2>2. CASE ~(run.holdings > 0)
    <3>1. run'.holdings = run.holdings
      BY <1>6, Keeping
    <3>2. QED BY <2>2, <3>1 DEF OrdersFollow, HeldWithinLimits
  <2>3. QED BY <2>1, <2>2
<1>7. CASE UNCHANGED vars
  <2>1. /\ Strategy' = Strategy /\ Config' = Config /\ Paid' = Paid
        /\ ShownPrices' = ShownPrices /\ Highest' = Highest /\ Running' = Running
    BY <1>7 DEF Strategy, Config, Paid, ShownPrices, ShownUntil, Highest, vars, Running
  <2>2. HeldWithinLimits'
    BY <1>7, <2>1 DEF HeldWithinLimits, Now, vars
  <2>3. CASE Running /\ run.holdings > 0
    <3>1. strat.position.seen \in DOMAIN run'.soFar
      BY <1>7, <2>3 DEF OrdersFollow, vars
    <3>2. QED BY <1>7, <2>1, <2>2, <2>3, <3>1, FollowingUnshown DEF vars
  <2>4. CASE ~(Running /\ run.holdings > 0)
    <3>1. OrdersFollow'
      BY <1>7, <2>1, <2>4 DEF OrdersFollow, vars
    <3>2. QED BY <2>2, <3>1
  <2>5. QED BY <2>3, <2>4
<1>8. QED BY <1>1, <1>2, <1>3, <1>4, <1>5, <1>6, <1>7, Going DEF Passes

(* The evidence of a purchase.                                               *)
LEMMA PurchaseEvidence ==
  ASSUME Types, Buy, Strategy.name \in PredictionStrategies
  PROVE  /\ \E replies, downsideReplies : run'.evidence = <<replies, downsideReplies>>
         /\ chosen' = chosen /\ BoughtOnEvidence'
<1>1. PICK latency \in BuyLatency, replies \in BuyReplies, downsideReplies \in DownsideReplies :
        \E spent \in Slipped(BuyAmount, 1, BuySlippage, latency),
           outcome \in BuyOutcomes(Strategy, strat.buys, run.soFar, replies, downsideReplies) :
          /\ outcome.buy
          /\ run' = Bought(spent, latency, <<replies, downsideReplies>>)
  BY DEF Buy
<1>2. PICK spent \in Slipped(BuyAmount, 1, BuySlippage, latency),
           outcome \in BuyOutcomes(Strategy, strat.buys, run.soFar, replies, downsideReplies) :
        /\ outcome.buy
        /\ run' = Bought(spent, latency, <<replies, downsideReplies>>)
  BY <1>1
<1>3. chosen' = chosen /\ chosen \in Runs /\ Strategy = chosen.strategy /\ Strategy' = Strategy
  BY DEF Buy, Types, Strategy
<1>4. run'.evidence = <<replies, downsideReplies>>
  <2>1. DOMAIN run = RunFields
    BY DEF Buy, Types, Running, Fits
  <2>2. QED BY <1>2, <2>1 DEF Bought, RunFields
<1>5. BuyOutcomes(Strategy, strat.buys, run.soFar, replies, downsideReplies) =
        BuyPredictionOutcomes(Strategy, strat.buys, run.soFar, replies, downsideReplies)
  BY DEF BuyOutcomes, PredictionStrategies
<1> DEFINE s == Strategy
           answer == makePredictionRequest(s.source, replies)
           downside == makePredictionRequest(s.downside.source, downsideReplies)
<1>6. /\ answer.is = "answer" /\ AtLeast(answer, s.minPredictedConfidence)
      /\ s.downside.executionMode # "none" =>
           /\ downside.is = "answer" /\ downside.num # 0
           /\ ~AtLeast(downside, s.downside.minPredictedConfidence)
  BY <1>2, <1>5, PredictionBuys
<1>7. /\ IsSource(s.source) /\ s.minPredictedConfidence \in Nat \ {0}
      /\ s.downside.executionMode # "none" =>
           IsSource(s.downside.source) /\ s.downside.minPredictedConfidence \in Nat \ {0}
  BY <1>3, SourcesAssumption
<1>8. DOMAIN replies = DOMAIN s.source.weights /\ DOMAIN downsideReplies = DOMAIN s.downside.source.weights
  BY DEF BuyReplies, DownsideReplies
<1>9. AllGood(replies) /\ \E k \in DOMAIN replies : replies[k].value >= s.minPredictedConfidence
  <2>1. AllGood(replies) /\ DecidedBy(answer, replies, s.minPredictedConfidence)
    BY <1>6, <1>7, <1>8, SourceAnswers
  <2>2. QED BY <1>6, <2>1 DEF DecidedBy
<1>10. ASSUME s.downside.executionMode # "none"
       PROVE  /\ AllGood(downsideReplies)
              /\ \E k \in DOMAIN downsideReplies :
                   downsideReplies[k].value < s.downside.minPredictedConfidence
  <2>1. AllGood(downsideReplies) /\ DecidedBy(downside, downsideReplies, s.downside.minPredictedConfidence)
    BY <1>6, <1>7, <1>8, <1>10, SourceAnswers
  <2>2. QED BY <1>6, <1>10, <2>1 DEF DecidedBy
<1>11. /\ \A reply \in Range(replies) : Good(reply)
       /\ \E reply \in Range(replies) : reply.value >= s.minPredictedConfidence
  BY <1>9 DEF AllGood, Range
<1>12. s.downside.executionMode # "none" =>
         /\ \A reply \in Range(downsideReplies) : Good(reply)
         /\ \E reply \in Range(downsideReplies) : reply.value < s.downside.minPredictedConfidence
  BY <1>10 DEF AllGood, Range
<1>13. run'.evidence[1] = replies /\ run'.evidence[2] = downsideReplies
  BY <1>4
<1>14. BoughtOnEvidence'
  BY <1>3, <1>11, <1>12, <1>13 DEF BoughtOnEvidence
<1>15. QED BY <1>3, <1>4, <1>14

(* Nothing else touches it.                                                  *)
LEMMA EvidenceStays ==
  ASSUME Types, SkipEntry \/ TakeEntry \/ DontBuy \/ Stay \/ Hold \/ Sell \/ LateConfirmation \/ Over
                  \/ UNCHANGED vars
  PROVE  /\ chosen' = chosen /\ Running' = Running
         /\ Running => run'.evidence = run.evidence
<1>1. CASE SkipEntry
  <2>1. /\ phase = "entry" /\ phase' = phase /\ chosen' = chosen
        /\ run' = [run EXCEPT !.i = @ + run.stepSize]
    BY <1>1 DEF SkipEntry, AtEntry
  <2>2. QED BY <2>1 DEF Running, Types, Fits
<1>2. CASE TakeEntry
  <2>1. PICK step : run' = [run EXCEPT !.soFar = Append(@, Entry), !.stepSize = step]
    BY <1>2 DEF TakeEntry
  <2>2. phase = "entry" /\ phase' \in {"sell", "buy"} /\ chosen' = chosen
    BY <1>2 DEF TakeEntry, AtEntry, NextQuestion
  <2>3. QED BY <2>1, <2>2 DEF Running, Types, Fits
<1>3. CASE DontBuy
  BY <1>3 DEF DontBuy, Running
<1>4. CASE Stay \/ Hold
  <2>1. phase \in {"exit", "sell"} /\ phase' = "entry" /\ chosen' = chosen
    BY <1>4 DEF Stay, Hold
  <2>2. /\ Running /\ Running' /\ DOMAIN Tallied(run) = RunFields
        /\ Tallied(run)["evidence"] = run["evidence"]
    BY <2>1, TalliedKeeps DEF Types, Fits, Running, RunFields
  <2>3. CASE Stay
    <3>1. run' = [Tallied(run) EXCEPT !.i = @ + run.stepSize]
      BY <2>3 DEF Stay
    <3>2. run'.evidence = Tallied(run).evidence
      BY <2>2, <3>1 DEF RunFields
    <3>3. QED BY <2>1, <2>2, <3>2
  <2>4. CASE Hold
    <3>1. PICK wanted : run' = [Tallied(run) EXCEPT !.i = @ + run.stepSize, !.wanted = wanted]
      BY <2>4 DEF Hold
    <3>2. run'.evidence = Tallied(run).evidence
      BY <2>2, <3>1 DEF RunFields
    <3>3. QED BY <2>1, <2>2, <3>2
  <2>5. QED BY <1>4, <2>3, <2>4
<1>5. CASE Sell
  <2>1. phase = "sell" /\ phase' \in {"traded", "entry"} /\ chosen' = chosen
    BY <1>5 DEF Sell
  <2>2. DOMAIN run = RunFields /\ Running /\ Running'
    BY <2>1 DEF Types, Fits, Running
  <2>3. PICK replies \in SellReplies, latency \in SellLatency :
          LET decided == SellDecision(Strategy, strat.orders, strat.sells, run.soFar, replies)
              wanted == Wanted(decided.decision)
          IN  \E received \in Slipped(TokenValue(run.holdings, Now.price), -1, SellSlippage, latency) :
                 run' = Sold(wanted, received, latency)
    BY <1>5 DEF Sell
  <2>4. PICK wanted : \E received \in Slipped(TokenValue(run.holdings, Now.price), -1, SellSlippage, latency) :
          run' = Sold(wanted, received, latency)
    BY <2>3
  <2>5. PICK received : run' = Sold(wanted, received, latency)
    BY <2>4
  <2> DEFINE net == received - JitoTip - (BaseFee + PriorityFee)
             trade == [type |-> "sell", i |-> run.i, net |-> net,
                       until |-> Now.timestamp + latency, reason |-> wanted.reason]
             next == IF run.i < Len(run.history)
                       THEN getNextEntryIndex(run.history, run.i, Now.timestamp + latency, run.stepSize)
                       ELSE run.i + run.stepSize
             sold == [run EXCEPT !.balance = @ + net, !.holdings = 0, !.soldOnce = TRUE, !.wanted = Unsold,
                                 !.trades = Append(@, trade)]
  <2>6. run' = [Tallied(sold) EXCEPT !.i = next]
    BY <2>5 DEF Sold
  <2> HIDE DEF next, trade, net
  <2>7. DOMAIN sold = RunFields /\ sold["evidence"] = run["evidence"]
    BY <2>2 DEF RunFields
  <2> HIDE DEF sold
  <2>8. DOMAIN Tallied(sold) = RunFields /\ Tallied(sold)["evidence"] = sold["evidence"]
    BY <2>7, TalliedKeeps DEF RunFields
  <2>9. run'.evidence = run.evidence
    BY <2>6, <2>7, <2>8
  <2>10. QED BY <2>1, <2>2, <2>9
<1>6. CASE LateConfirmation \/ Over \/ UNCHANGED vars
  BY <1>6 DEF LateConfirmation, Over, vars, Running
<1>7. QED BY <1>1, <1>2, <1>3, <1>4, <1>5, <1>6

LEMMA EvidenceKept ==
  ASSUME Types, InHand, BoughtOnEvidence, [Next]_vars
  PROVE  BoughtOnEvidence'
<1>1. CASE Ends
  <2>1. ~Running'
    BY <1>1, Ending DEF Running
  <2>2. QED BY <2>1 DEF BoughtOnEvidence
<1>2. CASE StartMint
  <2>1. run'.evidence = <<>>
    BY <1>2 DEF StartMint, NewRun
  <2>2. QED BY <2>1 DEF BoughtOnEvidence
<1>3. CASE Buy
  <2>1. CASE Strategy.name \in PredictionStrategies
    BY <1>3, <2>1, PurchaseEvidence
  <2>2. CASE Strategy.name \notin PredictionStrategies
    <3>1. Strategy' = Strategy
      BY <1>3 DEF Buy, Strategy
    <3>2. QED BY <2>2, <3>1 DEF BoughtOnEvidence
  <2>3. QED BY <2>1, <2>2
<1>4. CASE \/ SkipEntry \/ TakeEntry \/ DontBuy \/ Stay \/ Hold \/ Sell \/ LateConfirmation \/ Over
           \/ UNCHANGED vars
  <2>1. chosen' = chosen /\ Running' = Running /\ (Running => run'.evidence = run.evidence)
    BY <1>4, EvidenceStays
  <2>2. Strategy' = Strategy
    BY <2>1 DEF Strategy
  <2>3. QED BY <2>1, <2>2 DEF BoughtOnEvidence
<1>5. QED BY <1>1, <1>2, <1>3, <1>4, Going

-----------------------------------------------------------------------------
(* The curve of the balance.                                                 *)

LEMMA MinIsLowerBound ==
  ASSUME NEW T, T \subseteq Int, NEW h \in T, \A p \in T : h <= p
  PROVE  Min(T) = h
<1>1. Min(T) \in T /\ \A p \in T : Min(T) <= p
  BY DEF Min
<1>2. Min(T) >= h /\ h >= Min(T)
  BY <1>1
<1>3. Min(T) \in Int /\ h \in Int
  BY <1>1
<1>4. QED BY <1>2, <1>3

LEMMA Larger ==
  ASSUME NEW a \in Int, NEW b \in Int
  PROVE  Max({a, b}) = (IF a >= b THEN a ELSE b) /\ Min({a, b}) = (IF a <= b THEN a ELSE b)
<1>1. {a, b} \subseteq Int /\ a \in {a, b} /\ b \in {a, b}
  OBVIOUS
<1>2. CASE a >= b
  <2>1. \A p \in {a, b} : a >= p
    BY <1>2
  <2>2. \A p \in {a, b} : b <= p
    BY <1>2
  <2>3. Max({a, b}) = a /\ Min({a, b}) = b
    BY <1>1, <2>1, <2>2, MaxIsUpperBound, MinIsLowerBound
  <2>4. QED BY <1>2, <2>3
<1>3. CASE ~(a >= b)
  <2>1. \A p \in {a, b} : b >= p
    BY <1>3
  <2>2. \A p \in {a, b} : a <= p
    BY <1>3
  <2>3. Max({a, b}) = b /\ Min({a, b}) = a
    BY <1>1, <2>1, <2>2, MaxIsUpperBound, MinIsLowerBound
  <2>4. QED BY <1>3, <2>3
<1>4. QED BY <1>2, <1>3

(* A fall from the same peak is larger the lower it ends.                    *)
LEMMA DivGrows ==
  ASSUME NEW x \in Int, NEW y \in Int, x <= y, NEW p \in Nat \ {0}
  PROVE  x \div p \in Int /\ x \div p <= y \div p
<1> DEFINE q == x \div p
           r == y \div p
<1>1. q \in Int /\ r \in Int /\ p * q <= x /\ y < p * r + p
  OBVIOUS
<1> HIDE DEF q, r
<1>2. ASSUME r + 1 <= q PROVE FALSE
  <2>1. p * (r + 1) <= p * q
    BY <1>1, <1>2
  <2>2. p * (r + 1) = p * r + p /\ p * r \in Int /\ p * q \in Int
    BY <1>1
  <2>3. QED BY <1>1, <2>1, <2>2
<1>3. q <= r
  BY <1>1, <1>2
<1>4. QED BY <1>1, <1>3 DEF q, r

LEMMA FallsFurther ==
  ASSUME NEW peak \in Nat \ {0}, NEW low \in Int, NEW high \in Int, low <= high
  PROVE  /\ Fall(peak, low) \in Int /\ Fall(peak, high) \in Int
         /\ Fall(peak, high) <= Fall(peak, low) /\ Fall(peak, peak) = 0
<1> DEFINE x == (peak - high) * 100
           y == (peak - low) * 100
<1>1. x \in Int /\ y \in Int /\ x <= y
  OBVIOUS
<1> HIDE DEF x, y
<1>2. x \div peak \in Int /\ y \div peak \in Int /\ x \div peak <= y \div peak
  BY <1>1, DivGrows
<1>3. (peak - peak) * 100 = 0 /\ 0 \div peak = 0
  OBVIOUS
<1>4. QED BY <1>2, <1>3 DEF Fall, x, y

(* The result after a mint describes the curve with its balance.             *)
SameCourse(m, l) ==
  /\ m.highestPeak = l.highestPeak /\ m.lowestTrough = l.lowestTrough
  /\ m.currentPeak = l.currentPeak /\ m.currentTrough = l.currentTrough /\ m.drawdown = l.drawdown

LEMMA CurveContinues ==
  ASSUME NEW l, NEW c, NEW n \in Nat, Describes(l, c, n),
         NEW d, \A k \in 0 .. n : d[k] = c[k],
         NEW m, DOMAIN m = LiveFields, SameCourse(m, l), m.balance = d[n + 1], d[n + 1] \in Int
  PROVE  Describes(Curved(m), d, n + 1)
<1> DEFINE N == n + 1
           b == d[N]
           peak == l.highestPeak
           after == Curved(m)
<1>1. /\ N \in Nat /\ n \in 0 .. n /\ N \in 0 .. N /\ N \notin 0 .. n /\ 0 \in 0 .. n
      /\ \A k \in 0 .. N : k \in 0 .. n \/ k = N
      /\ \A k \in 0 .. n : k \in 0 .. N
  OBVIOUS
<1>2. /\ \A k \in 0 .. n : c[k] \in Int
      /\ c[0] > 0 /\ IsPeak(peak, c, n) /\ IsTrough(l.lowestTrough, c, n) /\ l.currentPeak = peak
      /\ l.currentTrough \in Int /\ l.lowestTrough <= l.currentTrough
      /\ l.currentTrough <= peak
      /\ l.drawdown \in Int /\ l.drawdown >= Fall(peak, l.currentTrough)
      /\ \E k \in 0 .. n : l.drawdown = Fall(PeakUntil(c, k), c[k])
      /\ \A k \in 0 .. n : Fall(PeakUntil(c, k), c[k]) \in Int /\ Fall(PeakUntil(c, k), c[k]) <= l.drawdown
  <2>1. l.currentTrough <= peak
    <3>1. l.balance \in Int /\ peak \in Int
      BY <1>1 DEF Describes, IsPeak
    <3>2. QED BY <3>1 DEF Describes
  <2>2. QED BY <2>1 DEF Describes
<1>3. peak \in Nat \ {0} /\ l.lowestTrough \in Int
  <2>1. peak \in Int /\ l.lowestTrough \in Int /\ c[0] \in Int /\ c[0] <= peak
    BY <1>1, <1>2 DEF IsPeak, IsTrough
  <2>2. QED BY <1>2, <2>1
<1>4. /\ m.highestPeak = peak /\ m.lowestTrough = l.lowestTrough /\ m.currentPeak = peak
      /\ m.currentTrough = l.currentTrough /\ m.drawdown = l.drawdown /\ m.balance = b /\ b \in Int
  BY <1>2 DEF SameCourse
<1> HIDE DEF N, b, peak
<1>5. \A k \in 0 .. N : d[k] \in Int
  BY <1>1, <1>2, <1>4 DEF b
<1>6. d[0] > 0
  BY <1>1, <1>2
<1>7. \A k \in 0 .. n : PeakUntil(d, k) = PeakUntil(c, k)
  <2>1. ASSUME NEW k \in 0 .. n PROVE {d[j] : j \in 0 .. k} = {c[j] : j \in 0 .. k}
    <3>1. \A j \in 0 .. k : d[j] = c[j]
      OBVIOUS
    <3>2. QED BY <3>1
  <2>2. QED BY <2>1 DEF PeakUntil
<1>8. \A k \in 0 .. n : Fall(PeakUntil(d, k), d[k]) = Fall(PeakUntil(c, k), c[k])
  BY <1>7
<1>9. ASSUME NEW h, IsPeak(h, d, N) PROVE PeakUntil(d, N) = h
  <2>1. {d[j] : j \in 0 .. N} \subseteq Int /\ h \in {d[j] : j \in 0 .. N}
    BY <1>5, <1>9 DEF IsPeak
  <2>2. \A p \in {d[j] : j \in 0 .. N} : h >= p
    <3>1. ASSUME NEW j \in 0 .. N PROVE h >= d[j]
      <4>1. d[j] <= h /\ h \in Int /\ d[j] \in Int
        BY <1>5, <1>9 DEF IsPeak
      <4>2. QED BY <4>1
    <3>2. QED BY <3>1
  <2>3. QED BY <2>1, <2>2, MaxIsUpperBound DEF PeakUntil
<1>10. CASE b > peak
  <2>1. after = [m EXCEPT !.currentPeak = b, !.currentTrough = b, !.highestPeak = Max({peak, b})]
    BY <1>4, <1>10 DEF Curved
  <2>2. Max({peak, b}) = b
    BY <1>3, <1>4, <1>10, Larger
  <2>3. /\ after.balance = b /\ after.currentPeak = b /\ after.currentTrough = b /\ after.highestPeak = b
        /\ after.lowestTrough = l.lowestTrough /\ after.drawdown = l.drawdown
    BY <1>4, <2>1, <2>2 DEF LiveFields
  <2> HIDE DEF after
  <2>4. IsPeak(b, d, N)
    <3>1. ASSUME NEW j \in 0 .. N PROVE d[j] <= b
      <4>1. CASE j \in 0 .. n
        <5>1. d[j] = c[j] /\ c[j] <= peak /\ c[j] \in Int
          BY <1>2, <4>1 DEF IsPeak
        <5>2. QED BY <1>3, <1>4, <1>10, <5>1
      <4>2. CASE j = N
        BY <1>4, <4>2 DEF b
      <4>3. QED BY <1>1, <4>1, <4>2
    <3>2. QED BY <1>1, <3>1 DEF IsPeak, b
  <2>5. IsTrough(l.lowestTrough, d, N)
    <3>1. l.lowestTrough <= b
      BY <1>2, <1>3, <1>4, <1>10
    <3>2. ASSUME NEW j \in 0 .. N PROVE d[j] >= l.lowestTrough
      <4>1. CASE j \in 0 .. n
        BY <1>2, <4>1 DEF IsTrough
      <4>2. CASE j = N
        BY <1>3, <1>4, <3>1, <4>2 DEF b
      <4>3. QED BY <1>1, <4>1, <4>2
    <3>3. \E j \in 0 .. N : l.lowestTrough = d[j]
      BY <1>1, <1>2 DEF IsTrough
    <3>4. QED BY <3>2, <3>3 DEF IsTrough
  <2>6. Fall(b, b) = 0 /\ PeakUntil(d, N) = b /\ l.drawdown >= 0
    <3>1. b \in Nat \ {0}
      BY <1>3, <1>4, <1>10
    <3>2. Fall(b, b) = 0
      BY <3>1, FallsFurther
    <3>3. /\ Fall(peak, peak) \in Int /\ Fall(peak, l.currentTrough) \in Int
          /\ Fall(peak, peak) <= Fall(peak, l.currentTrough) /\ Fall(peak, peak) = 0
      BY <1>2, <1>3, FallsFurther
    <3>4. QED BY <1>2, <1>9, <2>4, <3>2, <3>3
  <2>7. \E k \in 0 .. N : l.drawdown = Fall(PeakUntil(d, k), d[k])
    BY <1>1, <1>2, <1>8
  <2>8. ASSUME NEW k \in 0 .. N
        PROVE  Fall(PeakUntil(d, k), d[k]) \in Int /\ Fall(PeakUntil(d, k), d[k]) <= l.drawdown
    <3>1. CASE k \in 0 .. n
      BY <1>2, <1>8, <3>1
    <3>2. CASE k = N
      BY <2>6, <3>2 DEF b
    <3>3. QED BY <1>1, <3>1, <3>2
  <2>9. l.lowestTrough <= b /\ b <= b
    BY <1>2, <1>3, <1>4, <1>10
  <2>10. Describes(after, d, N)
    BY <1>2, <1>4, <1>5, <1>6, <2>3, <2>4, <2>5, <2>6, <2>7, <2>8, <2>9 DEF Describes, b
  <2>11. QED BY <2>10 DEF after, N
<1>11. CASE ~(b > peak) /\ b < l.currentTrough
  <2> DEFINE fall == Fall(peak, b)
  <2>1. after = [m EXCEPT !.currentTrough = b, !.lowestTrough = Min({l.lowestTrough, b}),
                          !.drawdown = Max({l.drawdown, fall})]
    BY <1>4, <1>11 DEF Curved, Fall
  <2>2. fall \in Int /\ fall >= Fall(peak, l.currentTrough) /\ Fall(peak, l.currentTrough) \in Int
    <3>1. b <= l.currentTrough
      BY <1>2, <1>4, <1>11
    <3>2. /\ Fall(peak, b) \in Int /\ Fall(peak, l.currentTrough) \in Int
          /\ Fall(peak, l.currentTrough) <= Fall(peak, b)
      BY <1>2, <1>3, <1>4, <3>1, FallsFurther
    <3>3. QED BY <3>2
  <2> HIDE DEF fall
  <2> DEFINE low == IF l.lowestTrough <= b THEN l.lowestTrough ELSE b
             deep == IF l.drawdown >= fall THEN l.drawdown ELSE fall
  <2>3. Min({l.lowestTrough, b}) = low /\ Max({l.drawdown, fall}) = deep
    <3>1. l.lowestTrough \in Int /\ b \in Int /\ l.drawdown \in Int /\ fall \in Int
      BY <1>2, <1>3, <1>4, <2>2
    <3>2. Min({l.lowestTrough, b}) = low
      BY <3>1, Larger
    <3>3. Max({l.drawdown, fall}) = deep
      BY <3>1, Larger
    <3>4. QED BY <3>2, <3>3
  <2>4. /\ after.balance = b /\ after.currentPeak = peak /\ after.currentTrough = b /\ after.highestPeak = peak
        /\ after.lowestTrough = low /\ after.drawdown = deep
    <3> HIDE DEF low, deep
    <3>1. QED BY <1>4, <2>1, <2>3 DEF LiveFields
  <2> HIDE DEF after
  <2>5. b <= peak
    BY <1>3, <1>4, <1>11
  <2>6. IsPeak(peak, d, N)
    <3>1. ASSUME NEW j \in 0 .. N PROVE d[j] <= peak
      <4>1. CASE j \in 0 .. n
        BY <1>2, <4>1 DEF IsPeak
      <4>2. CASE j = N
        BY <2>5, <4>2 DEF b
      <4>3. QED BY <1>1, <4>1, <4>2
    <3>2. \E j \in 0 .. N : peak = d[j]
      BY <1>1, <1>2 DEF IsPeak
    <3>3. QED BY <3>1, <3>2 DEF IsPeak
  <2>7. low \in Int /\ low <= l.lowestTrough /\ low <= b
    BY <1>3, <1>4
  <2>8. IsTrough(low, d, N)
    <3>1. ASSUME NEW j \in 0 .. N PROVE d[j] >= low
      <4>1. CASE j \in 0 .. n
        <5>1. d[j] >= l.lowestTrough /\ d[j] \in Int
          BY <1>2, <4>1 DEF IsTrough
        <5> HIDE DEF low
        <5>2. QED BY <1>3, <2>7, <5>1
      <4>2. CASE j = N
        <5>1. d[j] = b
          BY <4>2 DEF b
        <5> HIDE DEF low
        <5>2. QED BY <1>4, <2>7, <5>1
      <4>3. QED BY <1>1, <4>1, <4>2
    <3>2. \E j \in 0 .. N : l.lowestTrough = d[j]
      BY <1>1, <1>2 DEF IsTrough
    <3>3. \E j \in 0 .. N : b = d[j]
      BY <1>1 DEF b
    <3>4. \E j \in 0 .. N : low = d[j]
      BY <3>2, <3>3
    <3> HIDE DEF low
    <3>5. QED BY <3>1, <3>4 DEF IsTrough
  <2>9. deep \in Int /\ deep >= l.drawdown /\ deep >= fall
    BY <1>2, <2>2
  <2>10. Fall(PeakUntil(d, N), d[N]) = fall
    BY <1>9, <2>6 DEF b, fall
  <2>11. \E k \in 0 .. N : deep = Fall(PeakUntil(d, k), d[k])
    <3>1. \E k \in 0 .. N : l.drawdown = Fall(PeakUntil(d, k), d[k])
      BY <1>1, <1>2, <1>8
    <3>2. \E k \in 0 .. N : fall = Fall(PeakUntil(d, k), d[k])
      BY <1>1, <2>10
    <3>3. QED BY <3>1, <3>2
  <2> HIDE DEF deep, low
  <2>12. ASSUME NEW k \in 0 .. N
         PROVE  Fall(PeakUntil(d, k), d[k]) \in Int /\ Fall(PeakUntil(d, k), d[k]) <= deep
    <3>1. CASE k \in 0 .. n
      <4>1. Fall(PeakUntil(d, k), d[k]) \in Int /\ Fall(PeakUntil(d, k), d[k]) <= l.drawdown
        BY <1>2, <1>8, <3>1
      <4>2. QED BY <1>2, <2>9, <4>1
    <3>2. CASE k = N
      BY <2>2, <2>9, <2>10, <3>2
    <3>3. QED BY <1>1, <3>1, <3>2
  <2>13. Describes(after, d, N)
    BY <1>4, <1>5, <1>6, <2>4, <2>5, <2>6, <2>7, <2>8, <2>9, <2>11, <2>12 DEF Describes, b, fall
  <2>14. QED BY <2>13 DEF after, N
<1>12. CASE ~(b > peak) /\ ~(b < l.currentTrough)
  <2>1. after = m
    BY <1>4, <1>12 DEF Curved
  <2> HIDE DEF after
  <2>2. b <= peak /\ l.currentTrough <= b /\ l.lowestTrough <= b
    BY <1>2, <1>3, <1>4, <1>12
  <2>3. IsPeak(peak, d, N)
    <3>1. ASSUME NEW j \in 0 .. N PROVE d[j] <= peak
      <4>1. CASE j \in 0 .. n
        BY <1>2, <4>1 DEF IsPeak
      <4>2. CASE j = N
        BY <2>2, <4>2 DEF b
      <4>3. QED BY <1>1, <4>1, <4>2
    <3>2. \E j \in 0 .. N : peak = d[j]
      BY <1>1, <1>2 DEF IsPeak
    <3>3. QED BY <3>1, <3>2 DEF IsPeak
  <2>4. IsTrough(l.lowestTrough, d, N)
    <3>1. ASSUME NEW j \in 0 .. N PROVE d[j] >= l.lowestTrough
      <4>1. CASE j \in 0 .. n
        BY <1>2, <4>1 DEF IsTrough
      <4>2. CASE j = N
        BY <1>3, <1>4, <2>2, <4>2 DEF b
      <4>3. QED BY <1>1, <4>1, <4>2
    <3>2. \E j \in 0 .. N : l.lowestTrough = d[j]
      BY <1>1, <1>2 DEF IsTrough
    <3>3. QED BY <3>1, <3>2 DEF IsTrough
  <2>5. Fall(PeakUntil(d, N), d[N]) \in Int /\ Fall(PeakUntil(d, N), d[N]) <= l.drawdown
    <3>1. PeakUntil(d, N) = peak /\ d[N] = b
      BY <1>9, <2>3 DEF b
    <3>2. /\ Fall(peak, b) \in Int /\ Fall(peak, l.currentTrough) \in Int
          /\ Fall(peak, b) <= Fall(peak, l.currentTrough)
      BY <1>2, <1>3, <1>4, <2>2, FallsFurther
    <3>3. QED BY <1>2, <3>1, <3>2
  <2>6. \E k \in 0 .. N : l.drawdown = Fall(PeakUntil(d, k), d[k])
    BY <1>1, <1>2, <1>8
  <2>7. ASSUME NEW k \in 0 .. N
        PROVE  Fall(PeakUntil(d, k), d[k]) \in Int /\ Fall(PeakUntil(d, k), d[k]) <= l.drawdown
    <3>1. CASE k \in 0 .. n
      BY <1>2, <1>8, <3>1
    <3>2. CASE k = N
      BY <2>5, <3>2
    <3>3. QED BY <1>1, <3>1, <3>2
  <2>8. Describes(after, d, N)
    BY <1>2, <1>4, <1>5, <1>6, <2>1, <2>2, <2>3, <2>4, <2>6, <2>7 DEF Describes, b
  <2>9. QED BY <2>8 DEF after, N
<1>13. QED BY <1>10, <1>11, <1>12

(* Another mint: the curve goes on by its profit, which is 0 unless the mint *)
(* was simulated to an end.                                                  *)
LEMMA OneMore ==
  ASSUME NEW list, IsResults(list), NEW result, IsResult(result)
  PROVE  /\ IsResults(Append(list, result))
         /\ Len(list) \in Nat /\ DOMAIN list = 1 .. Len(list)
         /\ Len(Append(list, result)) = Len(list) + 1 /\ DOMAIN Append(list, result) = 1 .. Len(list) + 1
         /\ \A k \in DOMAIN list : Append(list, result)[k] = list[k]
         /\ Append(list, result)[Len(list) + 1] = result
<1> DEFINE All == Range(list) \cup {result}
           longer == Append(list, result)
<1>1. list \in Seq(All) /\ result \in All
  BY DEF IsResults
<1> HIDE DEF All
<1>2. /\ longer \in Seq(All) /\ Len(list) \in Nat /\ DOMAIN list = 1 .. Len(list)
      /\ DOMAIN longer = 1 .. Len(list) + 1 /\ Len(longer) = Len(list) + 1
      /\ \A k \in DOMAIN list : longer[k] = list[k]
      /\ longer[Len(list) + 1] = result
  BY <1>1
<1> HIDE DEF longer
<1>3. longer \in Seq(Range(longer))
  BY <1>2 DEF Range
<1>4. \A k \in DOMAIN longer : IsResult(longer[k])
  BY <1>2 DEF IsResults
<1>5. QED BY <1>2, <1>3, <1>4 DEF longer, IsResults

LEMMA CurveGrows ==
  ASSUME IsResults(results), NEW result, IsResult(result), results' = Append(results, result),
         NEW n, n = Len(results)
  PROVE  /\ Len(results') = n + 1 /\ n \in Nat
         /\ \A k \in 0 .. n : Curve'[k] = Curve[k]
         /\ Curve'[n + 1] = Curve[n] + Profit(result)
<1> DEFINE before(k) == [j \in 1 .. k |-> Profit(results[j])]
           after(k) == [j \in 1 .. k |-> Profit(results'[j])]
<1>1. /\ n \in Nat /\ DOMAIN results = 1 .. n /\ Len(results') = n + 1
      /\ \A k \in 1 .. n : results'[k] = results[k]
      /\ results'[n + 1] = result
  BY OneMore
<1>2. /\ Curve = [k \in 0 .. n |-> InitialBalance + SumOf(before(k))]
      /\ Curve' = [k \in 0 .. n + 1 |-> InitialBalance + SumOf(after(k))]
  BY <1>1 DEF Curve
<1>3. ASSUME NEW k \in 0 .. n PROVE Curve'[k] = Curve[k]
  <2>1. \A j \in 1 .. k : results'[j] = results[j]
    BY <1>1
  <2>2. before(k) = after(k)
    BY <2>1
  <2>3. k \in 0 .. n + 1
    BY <1>1
  <2> HIDE DEF before, after
  <2>4. QED BY <1>2, <2>2, <2>3
<1>4. \A k \in 1 .. n : Profit(results[k]) \in Int
  BY <1>1 DEF IsResults, IsResult
<1>5. before(n) \in Seq(Int) /\ Len(before(n)) = n /\ DOMAIN before(n) = 1 .. n
  BY <1>1, <1>4
<1> DEFINE N == n + 1
<1>6. N \in Nat /\ \A k \in 1 .. N : Profit(results'[k]) \in Int
  BY <1>1, <1>4 DEF IsResult
<1>7. after(N) \in Seq(Int) /\ Len(after(N)) = N
  <2> DEFINE longer == after(N)
  <2>1. longer = [k \in 1 .. N |-> longer[k]] /\ \A k \in 1 .. N : longer[k] = Profit(results'[k])
    OBVIOUS
  <2> HIDE DEF N, longer
  <2>2. \A k \in 1 .. N : longer[k] \in Int
    BY <1>6, <2>1
  <2>3. longer \in Seq(Int) /\ Len(longer) = N
    BY <1>6, <2>1, <2>2
  <2>4. QED BY <2>3 DEF longer
<1>8. \A k \in 1 .. n : after(N)[k] = before(n)[k]
  BY <1>1
<1>9. after(N)[N] = Profit(result)
  BY <1>1
<1> DEFINE shorter == before(n)
           longer == after(N)
<1>10. SumOf(longer) = SumOf(shorter) + Profit(result)
  <2>1. longer[Len(longer)] = Profit(result)
    BY <1>7, <1>9
  <2>2. /\ shorter \in Seq(Int) /\ longer \in Seq(Int) /\ Len(longer) = Len(shorter) + 1
        /\ \A k \in DOMAIN shorter : longer[k] = shorter[k]
    BY <1>5, <1>7, <1>8
  <2> HIDE DEF shorter, longer
  <2>3. SumOf(longer) = SumOf(shorter) + longer[Len(longer)]
    BY <2>2, SumGrows
  <2>4. QED BY <2>1, <2>3
<1>11. Curve'[N] = Curve[n] + Profit(result)
  <2>1. SumOf(shorter) \in Int
    BY <1>5, SumIsInteger
  <2>2. Profit(result) \in Int /\ InitialBalance \in Int
    BY MintsAssumption DEF IsResult
  <2>3. N \in 0 .. n + 1 /\ n \in 0 .. n
    BY <1>1
  <2>4. Curve'[N] = InitialBalance + SumOf(longer)
    <3> HIDE DEF after
    <3>1. QED BY <1>2, <2>3
  <2>5. Curve[n] = InitialBalance + SumOf(shorter)
    <3> HIDE DEF before
    <3>1. QED BY <1>2, <2>3
  <2> HIDE DEF longer, shorter
  <2>6. QED BY <1>10, <2>1, <2>2, <2>4, <2>5
<1>12. QED BY <1>1, <1>3, <1>11

(* Counting the mints.                                                       *)
LEMMA CountedUpTo ==
  ASSUME NEW n \in Nat, NEW S, S \subseteq 1 .. n
  PROVE  /\ Cardinality(S) \in Nat
         /\ Cardinality(S \cup {n + 1}) = Cardinality(S) + 1
<1>1. IsFiniteSet(1 .. n)
  BY FS_Interval
<1>2. IsFiniteSet(S)
  BY <1>1, FS_Subset
<1>3. n + 1 \notin S
  OBVIOUS
<1>4. QED BY <1>2, <1>3, FS_AddElement, FS_CardinalityType

LEMMA MintsCounted ==
  ASSUME IsResults(results), NEW result, IsResult(result), results' = Append(results, result),
         NEW n, n = Len(results)
  PROVE  LET traded == result.is = "simulated" /\ result.trades # <<>>
         IN  /\ n \in Nat /\ Traded \subseteq 1 .. n /\ Won \subseteq 1 .. n
             /\ Traded' = IF traded THEN Traded \cup {n + 1} ELSE Traded
             /\ Won' = IF traded /\ Profit(result) >= 0 THEN Won \cup {n + 1} ELSE Won
             /\ (Traded \cap Unclosed)' =
                  IF traded /\ result.holdings > 0 THEN (Traded \cap Unclosed) \cup {n + 1}
                  ELSE Traded \cap Unclosed
<1>1. /\ n \in Nat /\ DOMAIN results = 1 .. n /\ DOMAIN results' = 1 .. n + 1
      /\ \A k \in 1 .. n : results'[k] = results[k]
      /\ results'[n + 1] = result
  BY OneMore
<1>2. \A k : k \in 1 .. n + 1 <=> k \in 1 .. n \/ k = n + 1
  BY <1>1
<1>3. \A k \in 1 .. n : k # n + 1
  BY <1>1
<1>4. Traded \subseteq 1 .. n /\ Won \subseteq 1 .. n
  BY <1>1 DEF Traded, Won
<1>5. \A k : k \in Traded' <=> k \in Traded \/ (k = n + 1 /\ result.is = "simulated" /\ result.trades # <<>>)
  <2>1. ASSUME NEW k PROVE k \in Traded' <=> k \in 1 .. n + 1 /\ results'[k].is = "simulated" /\ results'[k].trades # <<>>
    BY <1>1 DEF Traded
  <2>2. ASSUME NEW k PROVE k \in Traded <=> k \in 1 .. n /\ results[k].is = "simulated" /\ results[k].trades # <<>>
    BY <1>1 DEF Traded
  <2>3. QED BY <1>1, <1>2, <1>3, <2>1, <2>2
<1>6. \A k : k \in Unclosed' <=> k \in Unclosed \/ (k = n + 1 /\ result.is = "simulated" /\ result.holdings > 0)
  <2>1. ASSUME NEW k PROVE k \in Unclosed' <=> k \in 1 .. n + 1 /\ results'[k].is = "simulated" /\ results'[k].holdings > 0
    BY <1>1 DEF Unclosed
  <2>2. ASSUME NEW k PROVE k \in Unclosed <=> k \in 1 .. n /\ results[k].is = "simulated" /\ results[k].holdings > 0
    BY <1>1 DEF Unclosed
  <2>3. QED BY <1>1, <1>2, <1>3, <2>1, <2>2
<1>7. Unclosed \subseteq 1 .. n
  BY <1>1 DEF Unclosed
<1>8. \A k : k \in Won' <=> k \in Won \/ (k = n + 1 /\ k \in Traded' /\ Profit(result) >= 0)
  <2>1. ASSUME NEW k PROVE k \in Won' <=> k \in Traded' /\ Profit(results'[k]) >= 0
    BY DEF Won
  <2>2. ASSUME NEW k PROVE k \in Won <=> k \in Traded /\ Profit(results[k]) >= 0
    BY DEF Won
  <2>3. \A k \in Traded : results'[k] = results[k] /\ k # n + 1
    BY <1>1, <1>3, <1>4
  <2>4. \A k \in Traded' : k \in Traded \/ k = n + 1
    BY <1>5
  <2>5. Traded \subseteq Traded'
    BY <1>5
  <2>6. QED BY <1>1, <2>1, <2>2, <2>3, <2>4, <2>5
<1> DEFINE traded == result.is = "simulated" /\ result.trades # <<>>
<1>9. Traded' = IF traded THEN Traded \cup {n + 1} ELSE Traded
  BY <1>5
<1>10. n + 1 \in Traded' <=> traded
  BY <1>3, <1>4, <1>5
<1>11. Won' = IF traded /\ Profit(result) >= 0 THEN Won \cup {n + 1} ELSE Won
  <2> HIDE DEF traded
  <2>1. QED BY <1>8, <1>10
<1>12. (Traded \cap Unclosed)' =
         IF traded /\ result.holdings > 0 THEN (Traded \cap Unclosed) \cup {n + 1}
         ELSE Traded \cap Unclosed
  <2>1. \A k : k \in (Traded \cap Unclosed)' <=>
                 k \in Traded \cap Unclosed \/ (k = n + 1 /\ traded /\ result.holdings > 0)
    BY <1>3, <1>4, <1>5, <1>6, <1>7
  <2> HIDE DEF traded
  <2>2. QED BY <2>1
<1>13. QED BY <1>1, <1>4, <1>9, <1>11, <1>12

(* What is added up leaves the course of the balance to Curved, and Curved   *)
(* the rest.                                                                 *)
CourseFields == {"highestPeak", "lowestTrough", "currentPeak", "currentTrough", "drawdown"}

LEMMA CurvedKeeps ==
  ASSUME NEW l, DOMAIN l = LiveFields
  PROVE  /\ DOMAIN Curved(l) = LiveFields
         /\ \A field \in LiveFields \ CourseFields : Curved(l)[field] = l[field]
<1>1. CASE l.balance > l.currentPeak
  <2>1. PICK a, b, c : Curved(l) = [[[l EXCEPT !.currentPeak = a] EXCEPT !.currentTrough = b] EXCEPT !.highestPeak = c]
    BY <1>1 DEF Curved
  <2>2. QED BY <2>1 DEF LiveFields, CourseFields
<1>2. CASE ~(l.balance > l.currentPeak) /\ l.balance < l.currentTrough
  <2>1. PICK a, b, c : Curved(l) = [[[l EXCEPT !.currentTrough = a] EXCEPT !.lowestTrough = b] EXCEPT !.drawdown = c]
    BY <1>2 DEF Curved
  <2>2. QED BY <2>1 DEF LiveFields, CourseFields
<1>3. CASE ~(l.balance > l.currentPeak) /\ ~(l.balance < l.currentTrough)
  BY <1>3 DEF Curved
<1>4. QED BY <1>1, <1>2, <1>3

LEMMA AddedUp ==
  ASSUME NEW r, DOMAIN ls = LiveFields
  PROVE  LET m == Accumulated(r)
             profit == r.balance - ls.balance
             traded == r.trades # <<>>
             buys == Buys(r.trades)
         IN  /\ DOMAIN m = LiveFields /\ SameCourse(m, ls)
             /\ m.balance = ls.balance + profit
             /\ m.profit = (IF traded THEN ls.profit + profit ELSE ls.profit)
             /\ m.wins = ls.wins + (IF traded /\ profit >= 0 THEN 1 ELSE 0)
             /\ m.losses = ls.losses + (IF traded /\ profit < 0 THEN 1 ELSE 0)
             /\ m.buys = ls.buys + buys /\ m.sells = ls.sells + (Len(r.trades) - buys)
<1> DEFINE m == Accumulated(r)
<1>1. m.highestPeak = ls.highestPeak /\ m.lowestTrough = ls.lowestTrough /\ m.drawdown = ls.drawdown
  BY DEF Accumulated, LiveFields
<1>2. m.currentPeak = ls.currentPeak /\ m.currentTrough = ls.currentTrough
  BY DEF Accumulated, LiveFields
<1>3. DOMAIN m = LiveFields /\ SameCourse(m, ls)
  <2>1. DOMAIN m = LiveFields
    BY DEF Accumulated
  <2> HIDE DEF m
  <2>2. QED BY <1>1, <1>2, <2>1 DEF SameCourse
<1>4. /\ m.balance = ls.balance + (r.balance - ls.balance)
      /\ m.profit = (IF r.trades # <<>> THEN ls.profit + (r.balance - ls.balance) ELSE ls.profit)
  BY DEF Accumulated, LiveFields
<1>5. /\ m.wins = ls.wins + (IF r.trades # <<>> /\ r.balance - ls.balance >= 0 THEN 1 ELSE 0)
      /\ m.losses = ls.losses + (IF r.trades # <<>> /\ r.balance - ls.balance < 0 THEN 1 ELSE 0)
  BY DEF Accumulated, LiveFields
<1>6. /\ m.buys = ls.buys + Buys(r.trades)
      /\ m.sells = ls.sells + (Len(r.trades) - Buys(r.trades))
  BY DEF Accumulated, LiveFields
<1> HIDE DEF m
<1>7. QED BY <1>3, <1>4, <1>5, <1>6 DEF m

LEMMA BuysCounted ==
  ASSUME NEW trades, IsTrades(trades)
  PROVE  /\ Buys(trades) \in Nat /\ Len(trades) \in Nat
         /\ \A trade : (trade.i \in Nat \ {0} /\ trade.until \in Nat) =>
              /\ Len(Append(trades, trade)) = Len(trades) + 1 /\ Append(trades, trade) # <<>>
              /\ Buys(Append(trades, trade)) = Buys(trades) + (IF trade.type = "buy" THEN 1 ELSE 0)
<1> DEFINE n == Len(trades)
           Which(t) == {k \in DOMAIN t : t[k].type = "buy"}
<1>1. n \in Nat /\ DOMAIN trades = 1 .. n
  BY DEF IsTrades
<1>2. Which(trades) \subseteq 1 .. n
  BY <1>1
<1>3. /\ Cardinality(Which(trades)) \in Nat
      /\ Cardinality(Which(trades) \cup {n + 1}) = Cardinality(Which(trades)) + 1
  <2> HIDE DEF n, Which
  <2>1. QED BY <1>1, <1>2, CountedUpTo
<1>4. ASSUME NEW trade, trade.i \in Nat \ {0}, trade.until \in Nat
      PROVE  /\ Len(Append(trades, trade)) = n + 1 /\ Append(trades, trade) # <<>>
             /\ Buys(Append(trades, trade)) = Buys(trades) + (IF trade.type = "buy" THEN 1 ELSE 0)
  <2> DEFINE longer == Append(trades, trade)
  <2>1. /\ Len(longer) = n + 1 /\ IsTrades(longer) /\ \A k \in DOMAIN trades : longer[k] = trades[k]
        /\ longer[n + 1] = trade
    BY <1>4, Trading
  <2>2. DOMAIN longer = 1 .. n + 1 /\ longer # <<>>
    <3>1. longer \in Seq(Range(longer))
      BY <2>1 DEF IsTrades
    <3> HIDE DEF longer, n
    <3>2. DOMAIN longer = 1 .. n + 1
      BY <2>1, <3>1
    <3>3. Len(<<>>) = 0 /\ n + 1 # 0
      BY <1>1
    <3>4. longer # <<>>
      BY <2>1, <3>3
    <3>5. QED BY <3>2, <3>4
  <2> HIDE DEF longer
  <2>3. Which(longer) = IF trade.type = "buy" THEN Which(trades) \cup {n + 1} ELSE Which(trades)
    BY <1>1, <2>1, <2>2
  <2>4. Buys(longer) = Cardinality(Which(longer)) /\ Buys(trades) = Cardinality(Which(trades))
    BY DEF Buys
  <2> HIDE DEF Which
  <2>5. Buys(longer) = Buys(trades) + (IF trade.type = "buy" THEN 1 ELSE 0)
    BY <1>3, <2>3, <2>4
  <2>6. QED BY <2>1, <2>2, <2>5 DEF longer
<1>5. Buys(trades) \in Nat
  BY <1>3 DEF Buys
<1>6. QED BY <1>1, <1>4, <1>5

LEMMA NothingBought == Buys(<<>>) = 0
<1>1. {k \in DOMAIN <<>> : <<>>[k].type = "buy"} = {}
  OBVIOUS
<1>2. QED BY <1>1, FS_EmptySet DEF Buys

(* A mint that is left or fails counts as a mint without a profit.           *)
LEMMA DescribedWithout ==
  ASSUME Described, NEW kind \in {"left", "failed"},
         results' = Append(results, [is |-> kind]), ls' = ls
  PROVE  Described'
<1> DEFINE result == [is |-> kind]
           n == Len(results)
           c == Curve
           d == Curve'
<1>1. IsResults(results) /\ Describes(ls, c, n) /\ Counts
  BY DEF Described
<1>2. IsResult(result) /\ Profit(result) = 0 /\ result.is # "simulated"
  BY DEF IsResult, Profit
<1>3. results' = Append(results, result) /\ IsResults(results')
  BY <1>1, <1>2, OneMore
<1> HIDE DEF result
<1>4. n \in Nat /\ Len(results') = n + 1 /\ (\A k \in 0 .. n : d[k] = c[k]) /\ d[n + 1] = c[n] + 0
  BY <1>1, <1>2, <1>3, CurveGrows
<1> HIDE DEF n, c, d
<1>5. ls.balance = c[n] /\ c[n] \in Int /\ ls.currentTrough <= ls.balance /\ ls.balance <= ls.currentPeak
      /\ ls.currentPeak \in Int /\ ls.currentTrough \in Int
  <2>1. n \in 0 .. n
    BY <1>4
  <2>2. ls.currentPeak \in Int
    BY <1>1 DEF Describes, IsPeak
  <2>3. QED BY <1>1, <2>1, <2>2 DEF Describes
<1>6. d[n + 1] \in Int /\ ls.balance = d[n + 1]
  BY <1>4, <1>5
<1>7. Curved(ls) = ls
  <2>1. ~(ls.balance > ls.currentPeak) /\ ~(ls.balance < ls.currentTrough)
    BY <1>5
  <2>2. QED BY <2>1 DEF Curved
<1>8. DOMAIN ls = LiveFields /\ SameCourse(ls, ls)
  BY <1>1 DEF Counts, SameCourse
<1>9. Describes(Curved(ls), d, n + 1)
  BY <1>1, <1>4, <1>6, <1>8, CurveContinues
<1>10. Describes(ls', Curve', Len(results'))
  BY <1>4, <1>7, <1>9 DEF d
<1>11. Traded' = Traded /\ Won' = Won /\ (Traded \cap Unclosed)' = Traded \cap Unclosed
  BY <1>1, <1>2, <1>3, MintsCounted
<1>12. Counts'
  BY <1>1, <1>11 DEF Counts
<1>13. QED BY <1>3, <1>10, <1>12 DEF Described

(* A mint that was simulated counts with what its run comes to.              *)
LEMMA DescribedWith ==
  ASSUME Described, Traceable, Running, Fits(run), Simulated(run, strat)
  PROVE  Described'
<1> DEFINE profit == run.balance - ls.balance
           result == [is |-> "simulated", trades |-> run.trades, holdings |-> run.holdings, profit |-> profit]
           m == Accumulated(run)
           n == Len(results)
           c == Curve
           d == Curve'
           traded == run.trades # <<>>
           buys == Buys(run.trades)
           sells == Len(run.trades) - buys
<1>1. IsResults(results) /\ Describes(ls, c, n) /\ Counts
  BY DEF Described
<1>2. results' = Append(results, result) /\ ls' = Curved(m)
  BY DEF Simulated
<1>3. n \in Nat /\ n \in 0 .. n
  BY <1>1, OneMore DEF IsResults
<1>4. ls.balance = c[n] /\ ls.balance \in Int /\ run.balance \in Int /\ run.holdings \in Nat
  <2>1. ls.balance = c[n] /\ \A k \in 0 .. n : c[k] \in Int
    BY <1>1 DEF Describes
  <2> HIDE DEF c, n
  <2>2. QED BY <1>3, <2>1 DEF Fits
<1>5. /\ IsResult(result) /\ Profit(result) = profit /\ profit \in Int /\ result.is = "simulated"
      /\ result.trades = run.trades /\ result.holdings = run.holdings
  BY <1>4 DEF IsResult, Profit
<1>6. IsResults(results')
  <2> HIDE DEF result
  <2>1. QED BY <1>1, <1>2, <1>5, OneMore
<1> HIDE DEF result
<1>7. Len(results') = n + 1 /\ (\A k \in 0 .. n : d[k] = c[k]) /\ d[n + 1] = c[n] + profit
  BY <1>1, <1>2, <1>5, CurveGrows
<1>8. DOMAIN ls = LiveFields
  BY <1>1 DEF Counts
<1>9. /\ DOMAIN m = LiveFields /\ SameCourse(m, ls) /\ m.balance = ls.balance + profit
      /\ m.profit = (IF traded THEN ls.profit + profit ELSE ls.profit)
      /\ m.wins = ls.wins + (IF traded /\ profit >= 0 THEN 1 ELSE 0)
      /\ m.losses = ls.losses + (IF traded /\ profit < 0 THEN 1 ELSE 0)
      /\ m.buys = ls.buys + buys /\ m.sells = ls.sells + sells
  BY <1>8, AddedUp
<1>10. traded \/ (profit = 0 /\ run.holdings = 0)
  BY <1>4 DEF Traceable
<1>11. buys \in Nat /\ sells \in Int /\ buys - sells = Open(run)
  <2>1. buys \in Nat /\ Len(run.trades) \in Nat
    BY BuysCounted DEF Fits
  <2>2. QED BY <2>1 DEF Traceable
<1> HIDE DEF n, c, d, m, profit, traded, buys, sells
<1>12. m.balance = d[n + 1] /\ d[n + 1] \in Int
  BY <1>4, <1>5, <1>7, <1>9
<1>13. Describes(Curved(m), d, n + 1)
  BY <1>1, <1>3, <1>7, <1>9, <1>12, CurveContinues
<1>14. Describes(ls', Curve', Len(results'))
  BY <1>2, <1>7, <1>13 DEF d
<1>15. /\ DOMAIN ls' = LiveFields
       /\ ls'.profit = m.profit /\ ls'.buys = m.buys /\ ls'.sells = m.sells
       /\ ls'.wins = m.wins /\ ls'.losses = m.losses /\ ls'.balance = m.balance
  BY <1>2, <1>9, CurvedKeeps DEF LiveFields, CourseFields
<1>16. /\ ls.profit \in Int /\ ls.buys \in Int /\ ls.sells \in Int /\ ls.wins \in Int /\ ls.losses \in Int
       /\ ls.profit = ls.balance - InitialBalance /\ InitialBalance \in Int
       /\ ls.wins = Cardinality(Won) /\ ls.wins + ls.losses = Cardinality(Traded)
       /\ ls.buys - ls.sells = Cardinality(Traded \cap Unclosed)
  BY <1>1, MintsAssumption DEF Counts
<1>17. /\ Traded \subseteq 1 .. n /\ Won \subseteq 1 .. n
       /\ Traded' = IF traded THEN Traded \cup {n + 1} ELSE Traded
       /\ Won' = IF traded /\ profit >= 0 THEN Won \cup {n + 1} ELSE Won
       /\ (Traded \cap Unclosed)' =
            IF traded /\ run.holdings > 0 THEN (Traded \cap Unclosed) \cup {n + 1} ELSE Traded \cap Unclosed
  BY <1>1, <1>2, <1>5, MintsCounted DEF traded, n
<1>18. ls'.profit \in Int /\ ls'.profit = ls'.balance - InitialBalance
  <2>1. CASE traded
    <3>1. ls'.profit = ls.profit + profit /\ ls'.balance = ls.balance + profit
      BY <1>9, <1>15, <2>1
    <3>2. QED BY <1>4, <1>5, <1>16, <3>1
  <2>2. CASE ~traded
    <3>1. ls'.profit = ls.profit /\ ls'.balance = ls.balance + profit /\ profit = 0
      BY <1>9, <1>10, <1>15, <2>2
    <3>2. QED BY <1>4, <1>16, <3>1
  <2>3. QED BY <2>1, <2>2
<1>19. ls'.wins \in Int /\ ls'.wins = Cardinality(Won')
  <2>1. /\ Cardinality(Won) \in Nat
        /\ Cardinality(Won \cup {n + 1}) = Cardinality(Won) + 1
    BY <1>3, <1>17, CountedUpTo
  <2>2. CASE traded /\ profit >= 0
    <3>1. ls'.wins = ls.wins + 1 /\ Won' = Won \cup {n + 1}
      BY <1>9, <1>15, <1>17, <2>2
    <3>2. QED BY <1>16, <2>1, <3>1
  <2>3. CASE ~(traded /\ profit >= 0)
    <3>1. ls'.wins = ls.wins + 0 /\ Won' = Won
      BY <1>9, <1>15, <1>17, <2>3
    <3>2. QED BY <1>16, <2>1, <3>1
  <2>4. QED BY <2>2, <2>3
<1>20. ls'.losses \in Int /\ ls'.wins + ls'.losses = Cardinality(Traded')
  <2>1. /\ Cardinality(Traded) \in Nat
        /\ Cardinality(Traded \cup {n + 1}) = Cardinality(Traded) + 1
    BY <1>3, <1>17, CountedUpTo
  <2>2. CASE traded /\ profit >= 0
    <3>1. ls'.wins = ls.wins + 1 /\ ls'.losses = ls.losses + 0 /\ Traded' = Traded \cup {n + 1}
      BY <1>5, <1>9, <1>15, <1>17, <2>2
    <3>2. QED BY <1>16, <2>1, <3>1
  <2>3. CASE traded /\ ~(profit >= 0)
    <3>1. ls'.wins = ls.wins + 0 /\ ls'.losses = ls.losses + 1 /\ Traded' = Traded \cup {n + 1}
      BY <1>5, <1>9, <1>15, <1>17, <2>3
    <3>2. QED BY <1>16, <2>1, <3>1
  <2>4. CASE ~traded
    <3>1. ls'.wins = ls.wins + 0 /\ ls'.losses = ls.losses + 0 /\ Traded' = Traded
      BY <1>9, <1>15, <1>17, <2>4
    <3>2. QED BY <1>16, <2>1, <3>1
  <2>5. QED BY <2>2, <2>3, <2>4
<1>21. /\ ls'.buys \in Int /\ ls'.sells \in Int
       /\ ls'.buys - ls'.sells = Cardinality((Traded \cap Unclosed)')
  <2> DEFINE S == Traded \cap Unclosed
  <2>1. S \subseteq 1 .. n
    BY <1>17
  <2>2. Cardinality(S) \in Nat /\ Cardinality(S \cup {n + 1}) = Cardinality(S) + 1
    <3> HIDE DEF S
    <3>1. QED BY <1>3, <2>1, CountedUpTo
  <2>3. ls'.buys = ls.buys + buys /\ ls'.sells = ls.sells + sells
    BY <1>9, <1>15
  <2>4. ls'.buys - ls'.sells = (ls.buys - ls.sells) + Open(run)
    <3>1. Open(run) \in Int
      BY DEF Open
    <3>2. QED BY <1>11, <1>16, <2>3, <3>1
  <2>5. CASE traded /\ run.holdings > 0
    <3>1. Open(run) = 1 /\ S' = S \cup {n + 1}
      BY <1>17, <2>5 DEF Open
    <3>2. ls.buys - ls.sells = Cardinality(S)
      BY <1>16
    <3> HIDE DEF S
    <3>3. ls'.buys - ls'.sells = Cardinality(S')
      BY <2>2, <2>4, <3>1, <3>2
    <3>4. QED BY <1>11, <1>16, <2>3, <3>3 DEF S
  <2>6. CASE ~(traded /\ run.holdings > 0)
    <3>1. Open(run) = 0 /\ S' = S
      BY <1>10, <1>17, <2>6 DEF Open
    <3>2. ls.buys - ls.sells = Cardinality(S)
      BY <1>16
    <3> HIDE DEF S
    <3>3. ls'.buys - ls'.sells = Cardinality(S')
      BY <2>2, <2>4, <3>1, <3>2
    <3>4. QED BY <1>11, <1>16, <2>3, <3>3 DEF S
  <2>7. QED BY <2>5, <2>6
<1>22. Counts'
  BY <1>15, <1>18, <1>19, <1>20, <1>21 DEF Counts
<1>23. QED BY <1>6, <1>14, <1>22 DEF Described

(* Nothing is counted before a mint is over.                                 *)
LEMMA DescribedKept ==
  ASSUME Types, Described, Traceable, [Next]_vars
  PROVE  Described'
<1>1. CASE results' = results /\ ls' = ls
  <2>1. Curve' = Curve /\ Traded' = Traded /\ Won' = Won /\ Unclosed' = Unclosed
    BY <1>1 DEF Curve, Traded, Won, Unclosed
  <2>2. Counts'
    BY <1>1, <2>1 DEF Described, Counts
  <2> DEFINE c == Curve
  <2>3. IsResults(results') /\ Describes(ls', c, Len(results'))
    BY <1>1 DEF Described
  <2>4. Curve' = c
    BY <2>1
  <2> HIDE DEF c
  <2>5. Describes(ls', Curve', Len(results'))
    BY <2>3, <2>4
  <2>6. QED BY <2>2, <2>3, <2>5 DEF Described
<1>2. CASE MisfitThrows \/ NoEntryThrows \/ BuyThrows \/ SellThrows
  <2>1. results' = Append(results, [is |-> "failed"]) /\ ls' = ls
    BY <1>2 DEF MisfitThrows, NoEntryThrows, BuyThrows, SellThrows, Failed, EndMint
  <2>2. QED BY <2>1, DescribedWithout
<1>3. CASE Leave
  <2>1. results' = Append(results, [is |-> "left"]) /\ ls' = ls
    BY <1>3 DEF Leave, EndMint
  <2>2. QED BY <2>1, DescribedWithout
<1>4. CASE EndOfHistory \/ NoFunds
  <2>1. Running /\ Simulated(run, strat)
    BY <1>4 DEF EndOfHistory, NoFunds, Running
  <2>2. Fits(run)
    BY <2>1 DEF Types
  <2>3. QED BY <2>1, <2>2, DescribedWith
<1>5. CASE Stop \/ InfoUnavailable \/ StartMint
  <2>1. results' = results /\ ls' = ls
    BY <1>5 DEF Stop, InfoUnavailable, StartMint
  <2>2. QED BY <1>1, <2>1
<1>6. CASE SkipEntry \/ TakeEntry \/ DontBuy \/ Buy \/ Stay \/ Hold \/ Sell
  <2>1. results' = results /\ ls' = ls
    BY <1>6 DEF SkipEntry, TakeEntry, DontBuy, Buy, Stay, Hold, Sell
  <2>2. QED BY <1>1, <2>1
<1>7. CASE LateConfirmation \/ Over \/ UNCHANGED vars
  <2>1. results' = results /\ ls' = ls
    BY <1>7 DEF LateConfirmation, Over, vars
  <2>2. QED BY <1>1, <2>1
<1>8. QED BY <1>2, <1>3, <1>4, <1>5, <1>6, <1>7 DEF Next

LEMMA TraceableKept ==
  ASSUME Types, InHand, Holding, Traceable, [Next]_vars
  PROVE  Traceable'
<1>1. CASE Ends
  <2>1. ~Running'
    BY <1>1, Ending DEF Running
  <2>2. QED BY <2>1 DEF Traceable
<1>2. CASE StartMint
  <2>1. PICK report \in Histories[chosen] : run' = NewRun(report)
    BY <1>2 DEF StartMint
  <2>2. run'.trades = <<>> /\ run'.balance = ls.balance /\ run'.holdings = 0 /\ ls' = ls
    BY <1>2, <2>1 DEF StartMint, NewRun
  <2>3. Len(<<>>) = 0 /\ Open(run') = 0
    BY <2>2 DEF Open
  <2>4. QED BY <2>2, <2>3, NothingBought DEF Traceable
<1>3. CASE /\ run'.trades = run.trades /\ run'.balance = run.balance /\ run'.holdings = run.holdings
           /\ ls' = ls /\ Running
  <2>1. Open(run') = Open(run)
    BY <1>3 DEF Open
  <2>2. QED BY <1>3, <2>1 DEF Traceable
<1>4. CASE TakeEntry
  <2>1. ls' = ls /\ Running
    BY <1>4 DEF TakeEntry, AtEntry, Running
  <2>2. QED BY <1>3, <1>4, <2>1, TakenFits
<1>5. CASE Passes
  <2>1. ls' = ls
    BY <1>5, Passing
  <2>2. CASE phase' = phase /\ run' = run
    BY <2>1, <2>2 DEF Traceable, Running, Open
  <2>3. CASE phase = "buy" /\ phase' = "exit" /\ run' = run
    BY <2>1, <2>3 DEF Traceable, Running, Open
  <2>4. CASE /\ phase \in {"entry", "exit"} /\ run'.trades = run.trades
             /\ run'.balance = run.balance /\ run'.holdings = run.holdings
    <3>1. Running
      BY <2>4 DEF Running
    <3>2. QED BY <1>3, <2>1, <2>4, <3>1
  <2>5. QED BY <1>5, <2>2, <2>3, <2>4, Passing
<1>6. CASE Hold
  <2>1. ls' = ls /\ Running
    BY <1>6 DEF Hold, Running
  <2>2. QED BY <1>3, <1>6, <2>1, Keeping
<1>7. CASE Buy
  <2>1. ls' = ls /\ Running /\ phase = "buy"
    BY <1>7 DEF Buy, Running
  <2>2. Fits(run) /\ run.holdings \in Nat /\ IsTrades(run.trades) /\ run.i \in Nat \ {0}
    BY <2>1 DEF Types, Fits
  <2>3. run.holdings = 0
    BY <2>1, <2>2 DEF Holding
  <2>4. run'.holdings > run.holdings
    BY <1>7, Purchase
  <2>5. PICK trade : /\ run'.trades = Append(run.trades, trade)
                     /\ trade.i = run.i /\ trade.until \in Nat /\ trade.type = "buy"
    BY <1>7, Purchase
  <2>6. /\ Buys(run.trades) \in Nat /\ Len(run.trades) \in Nat
        /\ Len(run'.trades) = Len(run.trades) + 1 /\ run'.trades # <<>>
        /\ Buys(run'.trades) = Buys(run.trades) + 1
    BY <2>2, <2>5, BuysCounted
  <2>7. Open(run) = 0 /\ Open(run') = 1
    BY <2>3, <2>4 DEF Open
  <2>8. Buys(run.trades) - (Len(run.trades) - Buys(run.trades)) = 0
    BY <2>1, <2>7 DEF Traceable
  <2>9. Buys(run'.trades) - (Len(run'.trades) - Buys(run'.trades)) = Open(run')
    BY <2>6, <2>7, <2>8
  <2>10. QED BY <2>6, <2>9 DEF Traceable
<1>8. CASE Sell
  <2>1. ls' = ls /\ Running
    BY <1>8 DEF Sell, Running
  <2>2. Fits(run) /\ IsTrades(run.trades) /\ run.i \in Nat \ {0}
    BY <2>1 DEF Types, Fits
  <2>3. run.holdings > 0 /\ run'.holdings = 0
    BY <1>8, Sale
  <2>4. PICK trade : /\ run'.trades = Append(run.trades, trade)
                     /\ trade.i = run.i /\ trade.until \in Nat /\ trade.type = "sell"
    BY <1>8, Sale
  <2>5. /\ Buys(run.trades) \in Nat /\ Len(run.trades) \in Nat
        /\ Len(run'.trades) = Len(run.trades) + 1 /\ run'.trades # <<>>
        /\ Buys(run'.trades) = Buys(run.trades) + 0
    BY <2>2, <2>4, BuysCounted
  <2>6. Open(run) = 1 /\ Open(run') = 0
    BY <2>3 DEF Open
  <2>7. Buys(run.trades) - (Len(run.trades) - Buys(run.trades)) = 1
    BY <2>1, <2>6 DEF Traceable
  <2>8. Buys(run'.trades) - (Len(run'.trades) - Buys(run'.trades)) = Open(run')
    BY <2>5, <2>6, <2>7
  <2>9. QED BY <2>5, <2>8 DEF Traceable
<1>9. CASE UNCHANGED vars
  BY <1>9 DEF Traceable, Running, Open, vars
<1>10. QED BY <1>1, <1>2, <1>4, <1>5, <1>6, <1>7, <1>8, <1>9, Going DEF Passes

(* The properties, from what the result is said to describe.                 *)
LEMMA Description == Described => ResultDescribesCurve
<1>1. SUFFICES ASSUME Described PROVE ResultDescribesCurve
  OBVIOUS
<1> DEFINE n == Len(results)
           c == Curve
           F(k) == Fall(PeakUntil(c, k), c[k])
<1>2. n \in Nat /\ n \in 0 .. n /\ 0 \in 0 .. n /\ DOMAIN c = 0 .. n
  BY <1>1, OneMore DEF Described, IsResults, Curve
<1>3. Describes(ls, c, n) /\ Counts
  BY <1>1 DEF Described
<1> HIDE DEF n, c
<1>4. PeakUntil(c, n) = ls.highestPeak
  <2>1. {c[j] : j \in 0 .. n} \subseteq Int /\ ls.highestPeak \in {c[j] : j \in 0 .. n}
    BY <1>3 DEF Describes, IsPeak
  <2>2. \A p \in {c[j] : j \in 0 .. n} : ls.highestPeak >= p
    <3>1. ASSUME NEW j \in 0 .. n PROVE ls.highestPeak >= c[j]
      <4>1. c[j] <= ls.highestPeak /\ c[j] \in Int
        BY <1>3 DEF Describes, IsPeak
      <4>2. ls.highestPeak \in Int
        BY <2>1
      <4>3. QED BY <4>1, <4>2
    <3>2. QED BY <3>1
  <2>3. QED BY <2>1, <2>2, MaxIsUpperBound DEF PeakUntil
<1>5. Min({c[k] : k \in DOMAIN c}) = ls.lowestTrough
  <2> DEFINE T == {c[k] : k \in DOMAIN c}
  <2>1. T \subseteq Int /\ ls.lowestTrough \in T
    BY <1>2, <1>3 DEF Describes, IsTrough
  <2>2. \A p \in T : ls.lowestTrough <= p
    <3>1. ASSUME NEW j \in 0 .. n PROVE ls.lowestTrough <= c[j]
      <4>1. c[j] >= ls.lowestTrough /\ c[j] \in Int
        BY <1>3 DEF Describes, IsTrough
      <4>2. ls.lowestTrough \in Int
        BY <2>1
      <4>3. QED BY <4>1, <4>2
    <3>2. QED BY <1>2, <3>1
  <2> HIDE DEF T
  <2>3. Min(T) = ls.lowestTrough
    BY <2>1, <2>2, MinIsLowerBound
  <2>4. QED BY <2>3 DEF T
<1>6. Max({F(k) : k \in DOMAIN c}) = ls.drawdown
  <2> DEFINE T == {F(k) : k \in DOMAIN c}
  <2>1. \A k \in 0 .. n : F(k) \in Int /\ F(k) <= ls.drawdown
    BY <1>3 DEF Describes
  <2>2. (\E k \in 0 .. n : ls.drawdown = F(k)) /\ ls.drawdown \in Int
    BY <1>3 DEF Describes
  <2> HIDE DEF F
  <2>3. T \subseteq Int /\ ls.drawdown \in T
    BY <1>2, <2>1, <2>2
  <2>4. \A p \in T : ls.drawdown >= p
    BY <1>2, <2>1, <2>2
  <2> HIDE DEF T
  <2>5. Max(T) = ls.drawdown
    BY <2>3, <2>4, MaxIsUpperBound
  <2>6. QED BY <2>5 DEF T
<1>7. \A k \in DOMAIN c : F(k) = ((Max({c[j] : j \in 0 .. k}) - c[k]) * 100) \div Max({c[j] : j \in 0 .. k})
  BY DEF Fall, PeakUntil
<1> HIDE DEF F
<1>8. ls.drawdown = Max({((Max({c[j] : j \in 0 .. k}) - c[k]) * 100) \div Max({c[j] : j \in 0 .. k}) : k \in DOMAIN c})
  BY <1>6, <1>7
<1>9. ls.balance = c[n] /\ ls.profit = ls.balance - InitialBalance
  BY <1>3 DEF Describes, Counts
<1>10. ls.highestPeak = Max({c[j] : j \in 0 .. n})
  BY <1>4 DEF PeakUntil
<1>11. /\ ls.wins = Cardinality({k \in Traded : Profit(results[k]) >= 0})
       /\ ls.wins + ls.losses = Cardinality(Traded)
       /\ ls.buys - ls.sells = Cardinality(Traded \cap Unclosed)
  BY <1>3 DEF Counts, Won
<1>12. QED BY <1>5, <1>8, <1>9, <1>10, <1>11 DEF ResultDescribesCurve, c, n

LEMMA DescribedFirst == Init => Described /\ Traceable
<1>1. SUFFICES ASSUME Init PROVE Described /\ Traceable
  OBVIOUS
<1>2. results = <<>> /\ ls = InitialLiveState /\ ~Running
  BY <1>1 DEF Init, Running
<1>3. Traceable
  BY <1>2 DEF Traceable
<1>4. IsResults(results) /\ Len(results) = 0
  BY <1>2 DEF IsResults
<1> DEFINE c == Curve
<1>5. c[0] = InitialBalance /\ InitialBalance \in Nat \ {0}
  <2> DEFINE none == [j \in 1 .. 0 |-> Profit(results[j])]
  <2>1. none \in Seq(Int) /\ Len(none) = 0
    OBVIOUS
  <2>2. Curve[0] = InitialBalance + SumOf(none)
    BY <1>4 DEF Curve
  <2> HIDE DEF none
  <2>3. SumOf(none) = 0
    BY <2>1, SumSteps DEF IsSums
  <2>4. QED BY <2>2, <2>3, MintsAssumption
<1> HIDE DEF c
<1>6. /\ DOMAIN ls = LiveFields /\ ls.balance = InitialBalance /\ ls.currentPeak = InitialBalance
      /\ ls.highestPeak = InitialBalance /\ ls.lowestTrough = InitialBalance
      /\ ls.currentTrough = InitialBalance /\ ls.drawdown = 0 /\ ls.profit = 0
      /\ ls.buys = 0 /\ ls.sells = 0 /\ ls.wins = 0 /\ ls.losses = 0
  BY <1>2 DEF InitialLiveState, LiveFields
<1>7. Fall(InitialBalance, InitialBalance) = 0
  BY <1>5, FallsFurther
<1>8. 0 .. 0 = {0}
  OBVIOUS
<1>9. PeakUntil(c, 0) = InitialBalance
  <2>1. {c[j] : j \in 0 .. 0} = {InitialBalance}
    BY <1>5, <1>8
  <2>2. {InitialBalance} \subseteq Int /\ \A p \in {InitialBalance} : InitialBalance >= p
    BY <1>5
  <2>3. QED BY <2>1, <2>2, MaxIsUpperBound DEF PeakUntil
<1>10. IsPeak(ls.highestPeak, c, 0) /\ IsTrough(ls.lowestTrough, c, 0)
  BY <1>5, <1>6, <1>8 DEF IsPeak, IsTrough
<1>11. Describes(ls, c, 0)
  BY <1>5, <1>6, <1>7, <1>8, <1>9, <1>10 DEF Describes
<1>12. Traded = {} /\ Won = {} /\ Traded \cap Unclosed = {}
  BY <1>2 DEF Traded, Won, Unclosed
<1>13. Counts
  BY <1>5, <1>6, <1>12, FS_EmptySet DEF Counts
<1>14. QED BY <1>3, <1>4, <1>11, <1>13 DEF Described, c

-----------------------------------------------------------------------------
(* The theorems.                                                             *)

LEMMA InitHolds == Init => IInv /\ Session!SessionInit
<1>1. SUFFICES ASSUME Init PROVE IInv /\ Session!SessionInit
  OBVIOUS
<1>2. phase = "file" /\ chosen \in Runs /\ strat = FreshStrategy /\ ls = InitialLiveState
  BY <1>1 DEF Init
<1>3. ~Running
  BY <1>2 DEF Running
<1>4. "balance" \in DOMAIN ls /\ ls.balance = InitialBalance
  BY <1>2 DEF InitialLiveState
<1>5. Types
  <2>1. DOMAIN strat = {"position", "orders", "buys", "sells"} /\ strat.position = NoPosition
    BY <1>2 DEF FreshStrategy
  <2>2. strat.position.held \in BOOLEAN
    BY <2>1 DEF NoPosition
  <2>3. ls.balance \in Int
    BY <1>4, MintsAssumption
  <2>4. QED BY <1>2, <1>3, <1>4, <2>1, <2>2, <2>3 DEF Types, Phases
<1>6. InHand /\ Holding /\ Waiting
  BY <1>2, <1>3 DEF InHand, Holding, Waiting, Questions
<1>7. TradesWaitForTheLast /\ OrdersFollow
  BY <1>3 DEF TradesWaitForTheLast, OrdersFollow
<1>8. HeldWithinLimits
  BY <1>2 DEF HeldWithinLimits
<1>9. Session!SessionInit
  BY <1>3, <1>4 DEF Session!SessionInit
<1>10. BoughtOnEvidence
  BY <1>3 DEF BoughtOnEvidence
<1>11. Described /\ Traceable
  BY <1>1, DescribedFirst
<1>12. QED BY <1>5, <1>6, <1>7, <1>8, <1>9, <1>10, <1>11 DEF IInv

LEMMA InvKept == IInv /\ [Next]_vars => IInv'
<1>1. SUFFICES ASSUME IInv, [Next]_vars PROVE IInv'
  OBVIOUS
<1>2. /\ Types /\ InHand /\ Holding /\ TradesWaitForTheLast /\ Waiting
      /\ OrdersFollow /\ HeldWithinLimits /\ BoughtOnEvidence
      /\ Described /\ Traceable
  BY <1>1 DEF IInv
<1>3. Types' /\ InHand' /\ Holding'
  BY <1>1, <1>2, TypesKept, InHandKept, HoldingKept
<1>4. TradesWaitForTheLast' /\ Waiting'
  BY <1>1, <1>2, WaitsKept
<1>5. OrdersFollow' /\ HeldWithinLimits'
  BY <1>1, <1>2, FollowKept
<1>6. BoughtOnEvidence'
  BY <1>1, <1>2, EvidenceKept
<1>7. Described' /\ Traceable'
  BY <1>1, <1>2, DescribedKept, TraceableKept
<1>8. QED BY <1>3, <1>4, <1>5, <1>6, <1>7 DEF IInv

(* What runStrategy and PumpfunBacktester.run keep between any two awaits:   *)
(* the types of their variables, the entry in hand, tokens only with a       *)
(* position, orders that are what the recorded prices make of them,          *)
(* purchases with their evidence, and statistics that describe the results.  *)
THEOREM MintsInvariant == Spec => []IInv
BY InitHolds, InvKept, PTL DEF Spec

(* The account of a strategy: one position at a time, a sale sells all of    *)
(* it, a purchase never takes the balance below zero by the base fee, and a  *)
(* mint counts as a whole or not at all (the accounts in PumpfunBacktester   *)
(* and in runStrategy are two).                                              *)
THEOREM SessionsAreKept == Spec => OneSessionPerMint
<1>1. Init => Session!SessionInit
  BY InitHolds
<1>2. IInv /\ [Next]_vars => [Session!SessionNext]_(Session!session)
  BY SessionStep DEF IInv
<1>3. QED BY <1>1, <1>2, MintsInvariant, PTL DEF Spec, OneSessionPerMint, Session!SessionSpec

(* A trade of the backtest is made on an entry recorded after the previous   *)
(* trade had completed, or on the last one (getNextEntryIndex).              *)
THEOREM TradesWait == Spec => []TradesWaitForTheLast
<1>1. IInv => TradesWaitForTheLast
  BY DEF IInv
<1>2. QED BY <1>1, MintsInvariant, PTL

(* A position that is still open after an entry is within its limits, by the *)
(* recorded prices (LimitsBasedStrategy.shouldSell and the four orders).     *)
THEOREM LimitsHold == Spec => []HeldWithinLimits
<1>1. IInv => HeldWithinLimits
  BY DEF IInv
<1>2. QED BY <1>1, MintsInvariant, PTL

(* A strategy that buys on predictions has bought with an answer of every    *)
(* model, one of them confident, and of every downside model, one of them    *)
(* under its threshold (makePredictionRequest and the two strategies).       *)
THEOREM PurchasesHaveEvidence == Spec => []BoughtOnEvidence
<1>1. IInv => BoughtOnEvidence
  BY DEF IInv
<1>2. QED BY <1>1, MintsInvariant, PTL

(* The result of a strategy describes the curve of its balance: peak, trough *)
(* and largest fall are those of the whole curve, and wins, losses, sales    *)
(* and purchases those of the mints (runStrategy).                           *)
THEOREM ResultsDescribe == Spec => []ResultDescribesCurve
<1>1. IInv => ResultDescribesCurve
  BY Description DEF IInv
<1>2. QED BY <1>1, MintsInvariant, PTL
=============================================================================
