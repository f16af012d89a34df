---------------------------- MODULE Predictions ----------------------------
(***************************************************************************)
(* What the strategies make of a history and of the replies of the         *)
(* prediction services: shouldBuy, shouldSell and shouldExit of the        *)
(* launchpad strategies, with the requests of prediction-common.  Every    *)
(* operator takes the replies as arguments.  A reply carries the HTTP      *)
(* status (0 is a request that failed without an answer, "cached" is in    *)
(* Replies as a 200 that was given earlier) and the value: a confidence    *)
(* in percent, or the last predicted price.  Values of a confidence        *)
(* outside 0 .. 100 stand for a missing or an impossible one; a null is    *)
(* the 0 that JavaScript computes with.                                    *)
(***************************************************************************)
EXTENDS LimitOrders, Sequences, SequencesExt, FiniteSetsExt

Unknown == -1      \* a context value that is null

\* ------------------------------------------------------------------ rules

\* checkInterval: a bound of 0 is no bound; a null value fits no interval.
checkInterval(interval, value) ==
    /\ value # Unknown
    /\ interval.min # 0 => value >= interval.min
    /\ interval.max # 0 => value <= interval.max

timeFromStartS(first, now) == (now.timestamp - first.timestamp) \div 1000

\* `rules` maps the keys that are configured to their intervals.
shouldBuyStateless(rules, history) ==
    LET now == Last(history)
        Value(key) == IF key = "timeFromStartS" THEN timeFromStartS(history[1], now) ELSE now[key]
    IN  \A key \in DOMAIN rules : checkInterval(rules[key], Value(key))

\* shouldExitLaunchpadToken: the exit code, or "" when the monitoring goes on.
IsDumped(history, elapsedMs) ==
    LET first == history[1]
        now == Last(history)
        Fell(pct) == 100 * (now.marketCap - first.marketCap) < -pct * first.marketCap
        maxPreviousHolders == Max({h.holdersCount : h \in Range(history)})
    IN  \/ now.price < first.price
        \/ Fell(6) /\ now.holdersCount <= 30 /\ now.bondingCurveProgress <= 35
        \/ /\ now.marketCap < first.marketCap /\ now.holdersCount <= 3
           /\ maxPreviousHolders > now.holdersCount /\ elapsedMs >= 60000
        \/ Fell(5) /\ now.holdersCount <= 3 /\ elapsedMs >= 60000
shouldExitLaunchpadToken(history, elapsedMs, holding, maxWaitMs) ==
    IF IsDumped(history, elapsedMs) THEN "DUMPED"
    ELSE IF ~holding /\ elapsedMs >= maxWaitMs THEN "NO_PUMP" ELSE ""

\* --------------------------------------------------------------- requests

FeaturesOf(entry) == <<entry.price, entry.marketCap, entry.holdersCount, entry.bondingCurveProgress>>

\* The reason a request is not made, or "".
formPredictionRequest(prediction, history) ==
    LET count == IF prediction.upToFeaturesLength = 0 THEN prediction.requiredFeaturesLength
                 ELSE Min({Len(history), prediction.upToFeaturesLength})
        sent == SubSeq(history, Max({1, Len(history) - count + 1}), Len(history))
    IN  IF prediction.skipAllSameFeatures /\ \A i \in 2 .. Len(sent) : FeaturesOf(sent[i]) = FeaturesOf(sent[i - 1])
          THEN "noVariationInFeatures" ELSE ""
NotReady(prediction, history) ==
    IF Len(history) < prediction.requiredFeaturesLength THEN "requiredFeaturesLength"
    ELSE formPredictionRequest(prediction, history)
shouldBuyCommon(prediction, rules, history) ==
    IF Len(history) < prediction.requiredFeaturesLength THEN "requiredFeaturesLength"
    ELSE IF ~shouldBuyStateless(rules, history) THEN "shouldBuyStateless"
    ELSE formPredictionRequest(prediction, history)

\* An answer is a fraction; a request can also end with an error value or by throwing.
Answered(num, den) == [is |-> "answer", num |-> num, den |-> den]
Refused == [is |-> "error", num |-> 0, den |-> 1]
Rejected == [is |-> "rejected", num |-> 0, den |-> 1]
AtLeast(answer, percent) == answer.num >= percent * answer.den

makeSinglePredictionRequest(reply) ==
    IF reply.status = 0 THEN Rejected
    ELSE IF reply.status # 200 THEN Refused
    ELSE IF reply.value \notin 0 .. 100 THEN Rejected
    ELSE Answered(reply.value, 1)

SumOf(numbers) ==
    LET sum[k \in 0 .. Len(numbers)] == IF k = 0 THEN 0 ELSE sum[k - 1] + numbers[k]
    IN  sum[Len(numbers)]
WeightedAverage(values, weights) ==
    IF SumOf(weights) = 0 THEN Answered(0, 1)
    ELSE Answered(SumOf([k \in DOMAIN values |-> values[k] * weights[k]]), SumOf(weights))
\* The k-th of the values in their order.
Sorted(values, k) ==
    CHOOSE v \in Range(values) :
        /\ Cardinality({j \in DOMAIN values : values[j] < v}) < k
        /\ Cardinality({j \in DOMAIN values : values[j] <= v}) >= k
Median(values) ==
    LET mid == Len(values) \div 2
    IN  IF Len(values) % 2 = 1 THEN Answered(Sorted(values, mid + 1), 1)
        ELSE Answered(Sorted(values, mid) + Sorted(values, mid + 1), 2)
\* getRecencyWeights(n, 0.5), as whole percents of the last one: exp(-0.5), exp(-1), ...
Recency == <<100, 61, 37, 22, 14, 8, 5, 3, 2, 1, 1>>
RecencyWeights(n) == [k \in 1 .. n |-> IF n - k < Len(Recency) THEN Recency[n - k + 1] ELSE 0]
aggregateValue(mode, values, weights) ==
    CASE mode = "mean" -> Answered(SumOf(values), Len(values))
      [] mode = "median" -> Median(values)
      [] mode = "weighted" -> WeightedAverage(values, weights)
      [] mode = "max" -> Answered(Max(Range(values)), 1)
      [] mode = "min" -> Answered(Min(Range(values)), 1)
      [] mode = "recency_weighted" -> WeightedAverage(values, RecencyWeights(Len(values)))
      [] OTHER -> Rejected                      \* "stacked" and "custom" throw

makeEnsemblePredictionRequest_Settled(source, replies) ==  \* mutant: the members that failed are left out
    LET good == SelectSeq(replies, LAMBDA r : makeSinglePredictionRequest(r).is = "answer")
    IN  IF good = <<>> THEN Refused
        ELSE aggregateValue(source.aggregationMode, [k \in DOMAIN good |-> good[k].value], source.weights)
\* Promise.allSettled over the members: one that threw throws, one that failed is an error.
makeEnsemblePredictionRequest(source, replies) ==
    LET results == {makeSinglePredictionRequest(replies[k]).is : k \in DOMAIN replies}
    IN  IF "rejected" \in results THEN Rejected
        ELSE IF "error" \in results THEN Refused
        ELSE aggregateValue(source.aggregationMode, [k \in DOMAIN replies |-> replies[k].value], source.weights)

\* A "single" source has no list of sources, an ensemble has one, be it "local" or "remote".
isMultiSourceEnsemble(source) == source.kind # "single" /\ Len(source.weights) > 1
\* The members of a local ensemble have endpoints and it has none itself; with a remote one it is
\* the other way round.  A request without an endpoint throws.
HasEndpoint(source) == isMultiSourceEnsemble(source) <=> source.kind = "local"
makePredictionRequest(source, replies) ==
    IF ~HasEndpoint(source) THEN Rejected
    ELSE IF isMultiSourceEnsemble(source) THEN makeEnsemblePredictionRequest(source, replies)
    ELSE makeSinglePredictionRequest(replies[1])

\* ---------------------------------------------------------------- buying

\* What a decision comes to.  `late` says that the confirmations are written after the
\* caller was already told of a failure.
Declined(reason, count) == [throws |-> FALSE, buy |-> FALSE, reason |-> reason, count |-> count, late |-> FALSE]
Thrown(count) == [throws |-> TRUE, buy |-> FALSE, reason |-> "", count |-> count, late |-> FALSE]
Confirmed(count, needed) ==
    [throws |-> FALSE, buy |-> count >= needed, reason |-> "consecutivePredictionConfirmations",
     count |-> count, late |-> FALSE]

\* shouldBuyWithPredictionBase
CoreDecision(s, count, history, replies) ==
    LET notReady == shouldBuyCommon(s.prediction, s.rules, history)
        answer == makePredictionRequest(s.source, replies)
    IN  IF notReady # "" THEN Declined(notReady, count)
        ELSE IF answer.is = "rejected" THEN Thrown(count)
        ELSE IF answer.is = "error" THEN Declined("prediction_error", count)
        ELSE IF AtLeast(answer, s.minPredictedConfidence) THEN Confirmed(count + 1, s.minConsecutive)
        ELSE Declined("minPredictedBuyConfidence", 0)

\* DownsidePredictor.predict
DownsideAnswer(s, history, replies) ==
    IF NotReady(s.downside.prediction, history) # "" THEN Refused
    ELSE makePredictionRequest(s.downside.source, replies)

\* A confidence of 0 is falsy: it counts as no answer, and there is no purchase without one.
Protected(s, core, downside) ==
    IF ~core.buy THEN core
    ELSE IF downside.is # "answer" \/ downside.num = 0
      THEN [core EXCEPT !.buy = FALSE, !.reason = "downside_prediction_error"]
    ELSE IF AtLeast(downside, s.downside.minPredictedConfidence)
      THEN [core EXCEPT !.buy = FALSE, !.reason = "downside_prediction"]
    ELSE core

\* shouldBuyWithBuyPrediction, the set of its outcomes.  With "always" the two requests run side
\* by side: when the downside request throws the caller is told at once, and the confirmations of
\* the other request may be written later.
BuyPredictionOutcomes(s, count, history, replies, downsideReplies) ==
    LET core == CoreDecision(s, count, history, replies)
        downside == DownsideAnswer(s, history, downsideReplies)
        Wrote == core.reason \in {"consecutivePredictionConfirmations", "minPredictedBuyConfidence"}
    IN  IF core.throws \/ s.downside.executionMode = "none" THEN {core}
        ELSE IF s.downside.executionMode = "onBuyThreshold"
          THEN IF core.buy /\ downside.is = "rejected" THEN {Thrown(core.count)} ELSE {Protected(s, core, downside)}
        ELSE IF downside.is = "rejected"
          THEN {Thrown(core.count)} \cup (IF Wrote THEN {[Thrown(core.count) EXCEPT !.late = TRUE]} ELSE {})
        ELSE {Protected(s, core, downside)}

\* PricePredictionStrategy.shouldBuy: the increase of the last predicted price, in percent.
PriceDecision(s, count, history, reply) ==
    LET notReady == shouldBuyCommon(s.prediction, s.rules, history)
        price == Last(history).price
    IN  IF notReady # "" THEN Declined(notReady, count)
        ELSE IF reply.status = 0 THEN Thrown(count)
        ELSE IF reply.status # 200 THEN Declined("prediction_error", count)
        ELSE IF 100 * (reply.value - price) >= s.minPredictedPriceIncreasePercentage * price
          THEN Confirmed(count + 1, s.minConsecutive)
        ELSE Declined("minPredictedPriceIncreasePercentage", 0)

\* shouldBuy of the five strategies.
BuyOutcomes(s, count, history, replies, downsideReplies) ==
    CASE s.name = "StupidSniperStrategy" -> {[Confirmed(0, 0) EXCEPT !.reason = "always"]}
      [] s.name = "RiseStrategy" ->
           {[Declined("shouldBuyStateless", 0) EXCEPT !.buy = shouldBuyStateless(s.rules, history)]}
      [] s.name = "PricePredictionStrategy" -> {PriceDecision(s, count, history, replies[1])}
      [] s.name \in {"BuyPredictionStrategy", "BuySellPredictionStrategy"} ->
           BuyPredictionOutcomes(s, count, history, replies, downsideReplies)

\* --------------------------------------------------------- selling, exits

\* shouldSellPredicted
SellPrediction(s, count, history, replies) ==
    LET notReady == NotReady(s.sellPrediction, history)
        answer == makePredictionRequest(s.sellSource, replies)
    IN  IF notReady # "" THEN [sell |-> FALSE, throws |-> FALSE, reason |-> notReady, count |-> count]
        ELSE IF answer.is = "rejected" THEN [sell |-> FALSE, throws |-> TRUE, reason |-> "", count |-> count]
        ELSE IF answer.is = "error"
          THEN [sell |-> FALSE, throws |-> FALSE, reason |-> "prediction_error", count |-> count]
        ELSE IF AtLeast(answer, s.minSellConfidence)
          THEN [sell |-> count + 1 >= s.minConsecutiveSells, throws |-> FALSE,
                reason |-> "CONSECUTIVE_SELL_PREDICTION_CONFIRMATIONS", count |-> count + 1]
        ELSE [sell |-> FALSE, throws |-> FALSE, reason |-> "minPredictedSellConfidence", count |-> 0]

\* shouldSell: the limits first; Rise sells what it would no longer buy, BuySell asks its model.
SellDecision(s, orders, count, history, replies) ==
    LET limits == LimitsDecision(orders, Last(history).price)
        ByLimits == [sell |-> limits.sell, throws |-> FALSE, reason |-> limits.reason, count |-> count]
        decision ==
          IF limits.sell THEN ByLimits
          ELSE IF s.name = "RiseStrategy" /\ ~shouldBuyStateless(s.rules, history)
            THEN [ByLimits EXCEPT !.sell = TRUE, !.reason = "NO_LONGER_MEETS_ENTRY_RULES"]
          ELSE IF s.name = "BuySellPredictionStrategy" THEN SellPrediction(s, count, history, replies)
          ELSE ByLimits
    IN  [decision |-> decision, orders |-> limits.orders]

\* shouldExit: the sniper never leaves.
ExitCode(s, history, elapsedMs, holding) ==
    IF s.name = "StupidSniperStrategy" THEN ""
    ELSE shouldExitLaunchpadToken(history, elapsedMs, holding, s.maxWaitMs)
=============================================================================
