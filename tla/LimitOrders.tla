---------------------------- MODULE LimitOrders ----------------------------
(***************************************************************************)
(* The four limit orders (src/src/trading/orders) and what                 *)
(* LimitsBasedStrategy does with them: afterBuy places the configured ones *)
(* at the price that was paid, shouldSell shows them the current price one *)
(* after the other.  Prices are integers and percentages whole, so a level *)
(* is kept in hundredths of a price unit and is exact.  A percentage of 0  *)
(* is an order that is not configured, as in the code.                     *)
(***************************************************************************)
EXTENDS Integers

OrderNames == {"takeProfit", "trailingTakeProfit", "trailingStopLoss", "stopLoss"}
NoOrder == [placed |-> FALSE]
NoOrders == [name \in OrderNames |-> NoOrder]

StopLossPercentage(entry, pct) == [placed |-> TRUE, stopPrice |-> entry * (100 - pct)]
TakeProfitPercentage(entry, pct) == [placed |-> TRUE, takeProfitPrice |-> entry * (100 + pct)]
TrailingStopLoss(entry, pct) ==
    [placed |-> TRUE, highestPrice |-> entry, trailing |-> pct, stopPrice |-> entry * (100 - pct)]
TrailingTakeProfit(entry, profitPct, stopPct) ==
    [placed |-> TRUE, highestPrice |-> entry, profit |-> profitPct, stop |-> stopPct,
     takeProfitPrice |-> entry * (100 + profitPct), stopPrice |-> entry * (100 - stopPct), isActive |-> FALSE]

StopLossHit(order, price) == 100 * price <= order.stopPrice
TakeProfitHit(order, price) == 100 * price >= order.takeProfitPrice

TrailedStop_Follows(order, price) ==       \* mutant: the stop follows the price down
    [order EXCEPT !.highestPrice = price, !.stopPrice = price * (100 - order.trailing)]
\* TrailingStopLoss.updatePrice raises the stop with the price.
TrailedStop(order, price) ==
    IF price > order.highestPrice
      THEN [order EXCEPT !.highestPrice = price, !.stopPrice = price * (100 - order.trailing)]
      ELSE order

\* TrailingTakeProfit.updatePrice: nothing happens until the price has reached the take profit.
Activated(order, price) ==
    [order EXCEPT !.isActive = order.isActive \/ 100 * price >= order.takeProfitPrice]
Raised(order, price) ==
    IF order.isActive /\ price > order.highestPrice
      THEN [order EXCEPT !.highestPrice = price,
                         !.takeProfitPrice = price * (100 + order.profit),
                         !.stopPrice = price * (100 - order.stop)]
      ELSE order
TrailedProfit(order, price) == Raised(Activated(order, price), price)
TrailedProfitHit(order, price) ==
    order.isActive /\ (100 * price <= order.stopPrice \/ 100 * price >= order.takeProfitPrice)

\* LimitsBasedStrategy.afterBuy: an order that is not configured is left as it was.
PlaceOrders(orders, limits, price) ==
    [takeProfit |-> IF limits.takeProfit = 0 THEN orders.takeProfit
                    ELSE TakeProfitPercentage(price, limits.takeProfit),
     trailingTakeProfit |-> IF limits.trailingProfit = 0 THEN orders.trailingTakeProfit
                            ELSE TrailingTakeProfit(price, limits.trailingProfit, limits.trailingProfitStop),
     trailingStopLoss |-> IF limits.trailingStop = 0 THEN orders.trailingStopLoss
                          ELSE TrailingStopLoss(price, limits.trailingStop),
     stopLoss |-> IF limits.stopLoss = 0 THEN orders.stopLoss
                  ELSE StopLossPercentage(price, limits.stopLoss)]

\* LimitsBasedStrategy.shouldSell: an order is shown the price only if those before it did not trigger.
LimitsDecision(orders, price) ==
    LET shownProfit == IF orders.trailingTakeProfit.placed
                         THEN [orders EXCEPT !.trailingTakeProfit = TrailedProfit(@, price)] ELSE orders
        shownStop == IF orders.trailingStopLoss.placed
                       THEN [shownProfit EXCEPT !.trailingStopLoss = TrailedStop(@, price)] ELSE shownProfit
        Sells(reason, after) == [sell |-> TRUE, reason |-> reason, orders |-> after]
    IN  IF orders.takeProfit.placed /\ TakeProfitHit(orders.takeProfit, price)
          THEN Sells("TAKE_PROFIT", orders)
        ELSE IF orders.trailingTakeProfit.placed /\ TrailedProfitHit(shownProfit.trailingTakeProfit, price)
          THEN Sells("TRAILING_TAKE_PROFIT", shownProfit)
        ELSE IF orders.trailingStopLoss.placed /\ StopLossHit(shownStop.trailingStopLoss, price)
          THEN Sells("TRAILING_STOP_LOSS", shownStop)
        ELSE IF orders.stopLoss.placed /\ StopLossHit(orders.stopLoss, price)
          THEN Sells("STOP_LOSS", shownStop)
        ELSE [sell |-> FALSE, reason |-> "no_limit_matches", orders |-> shownStop]
=============================================================================
