-------------------------- MODULE MCBacktestMints --------------------------
(* The five strategies, each over two recorded mints.  An entry is recorded   *)
(* every two seconds; a transaction takes less, or more than two entries.     *)
EXTENDS BacktestMints

At(k, price) ==
    [timestamp |-> 2000 * k, price |-> price, action |-> "",
     marketCap |-> IF price = Unknown THEN 0 ELSE 10 * price,
     bondingCurveProgress |-> IF price = Unknown THEN 0 ELSE 5 * price, holdersCount |-> 10]
Prices(path) == [k \in DOMAIN path |-> At(k, path[k])]
Monitor(buyMs, sellMs) == [buyTimeframeMs |-> buyMs, sellTimeframeMs |-> sellMs]
Report(path) == [history |-> Prices(path), monitor |-> Monitor(500, 250)]
BoughtAt(path, k, monitor) ==
    [history |-> [Prices(path) EXCEPT ![k].action = "buyCompleted"], monitor |-> monitor]

NoLimits == [takeProfit |-> 0, stopLoss |-> 0, trailingStop |-> 0, trailingProfit |-> 0, trailingProfitStop |-> 0]
One(kind) == [kind |-> kind, weights |-> <<1>>, aggregationMode |-> "mean"]
Two(mode) == [kind |-> "local", weights |-> <<1, 3>>, aggregationMode |-> mode]
Three(mode) == [kind |-> "local", weights |-> <<1, 3, 2>>, aggregationMode |-> mode]
Remote == [kind |-> "remote", weights |-> <<1, 3>>, aggregationMode |-> "mean"]
NoRules == [key \in {} |-> 0]
Prediction(required, upTo, skip) ==
    [requiredFeaturesLength |-> required, upToFeaturesLength |-> upTo, skipAllSameFeatures |-> skip]
Downside(mode) ==
    [executionMode |-> mode, source |-> One("single"), prediction |-> Prediction(1, 0, FALSE),
     minPredictedConfidence |-> 60]

Base == [name |-> "StupidSniperStrategy", maxWaitMs |-> 5000, limits |-> NoLimits, rules |-> NoRules,
         source |-> One("single"), sellSource |-> One("single"), prediction |-> Prediction(1, 0, FALSE),
         sellPrediction |-> Prediction(1, 0, FALSE), minPredictedConfidence |-> 50, minConsecutive |-> 1,
         minSellConfidence |-> 50, minConsecutiveSells |-> 1, minPredictedPriceIncreasePercentage |-> 20,
         downside |-> Downside("none")]
Plain == [slippages |-> "off", onlyOneFullTrade |-> FALSE, sellUnclosedPositionsAtEnd |-> TRUE,
          autoSellTimeoutMs |-> 0]

Sniper == [strategy |-> [Base EXCEPT !.limits = [NoLimits EXCEPT !.trailingStop = 25, !.trailingProfit = 50,
                                                                  !.trailingProfitStop = 10]],
           config |-> [Plain EXCEPT !.slippages = "randomized"]]
Rise == [strategy |-> [Base EXCEPT !.name = "RiseStrategy", !.limits = [NoLimits EXCEPT !.stopLoss = 15, !.takeProfit = 40],
                        !.rules = [bondingCurveProgress |-> [min |-> 25, max |-> 35],
                                   timeFromStartS |-> [min |-> 2, max |-> 0]]],
         config |-> [Plain EXCEPT !.slippages = "closestEntry", !.onlyOneFullTrade = TRUE]]
Ensemble == [strategy |-> [Base EXCEPT !.name = "BuyPredictionStrategy", !.source = Two("mean"), !.minConsecutive = 2,
                            !.downside = Downside("always"), !.prediction = Prediction(2, 3, TRUE),
                            !.limits = [NoLimits EXCEPT !.stopLoss = 15]],
             config |-> [Plain EXCEPT !.autoSellTimeoutMs = 4000, !.sellUnclosedPositionsAtEnd = FALSE]]
BuySell == [strategy |-> [Base EXCEPT !.name = "BuySellPredictionStrategy", !.sellSource = Two("weighted"),
                           !.minConsecutiveSells = 2, !.downside = Downside("onBuyThreshold")],
            config |-> Plain]
Price == [strategy |-> [Base EXCEPT !.name = "PricePredictionStrategy", !.minConsecutive = 2,
                         !.limits = [NoLimits EXCEPT !.takeProfit = 20]],
          config |-> Plain]

\* The other ways to aggregate, the local ensemble of one and the remote one of
\* two, and an ensemble that protects another, on one history only.
WithSource(source) == [Ensemble EXCEPT !.strategy.source = source, !.strategy.minConsecutive = 1,
                                       !.config.autoSellTimeoutMs = 0, !.config.sellUnclosedPositionsAtEnd = TRUE]
Others == {WithSource(Two(mode)) : mode \in {"median", "max", "min", "stacked"}}
            \cup {WithSource(Three("recency_weighted")), WithSource(One("local")), WithSource(Remote),
                  [WithSource(Two("min")) EXCEPT !.strategy.downside.source = Two("weighted")]}

MCRuns == {Sniper, Rise, Ensemble, BuySell, Price} \cup Others

Moves == {<<5, a, b, c>> : a, b, c \in {4, 6, 8}}
Special == {<<5, Unknown, 6, 8, 6>>, <<5, 6, 8, 8, 6, 5>>}
MCHistories ==
    [r \in MCRuns |->
       IF r = Sniper
         THEN {Report(path) : path \in Moves \cup Special \cup {<<>>}}
                \cup {BoughtAt(<<5, 6, 6, 6, 8>>, 2, Monitor(500, 250))}
       ELSE IF r = Rise THEN {Report(path) : path \in Moves \cup Special}
       ELSE IF r \in Others THEN {Report(<<5, 6, 8, 6, 8>>)}
       ELSE {Report(<<5, 6, 5, 6>>), Report(<<5, 6, 8, 6, 8>>), Report(<<5, 5, 5, 4>>),
             BoughtAt(<<5, 6, 6, 6, 8>>, 3, Monitor(500, 300))}]

Reply(status, value) == [status |-> status, value |-> value]
MCReplies ==
    [r \in MCRuns |->
       IF r \in {Sniper, Rise} THEN {Reply(200, 0)}
       ELSE IF r = Price THEN {Reply(200, 4), Reply(200, 8), Reply(500, 0), Reply(0, 0)}
       ELSE {Reply(200, 0), Reply(200, 30), Reply(200, 100), Reply(200, 101), Reply(500, 0), Reply(0, 0)}]

MCBuySlippage == [off |-> {25}, randomized |-> {0, 25}]
MCSellSlippage == [off |-> {25}, randomized |-> {0, 25}]
=============================================================================
