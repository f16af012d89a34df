------------------------- MODULE PumpfunBot_proofs --------------------------
(***************************************************************************)
(* Proofs of the safety properties of PumpfunBot, for any number of        *)
(* retries and intervals and any readings: its types, that the strategy's  *)
(* position agrees with the trade events, that the calls of a run never    *)
(* overlap, when it gives up, and that it implements TokenTrade.           *)
(*                                                                         *)
(* What keeps the calls apart is the snapshot taken at the head of a turn: *)
(* while a turn is under way callbacks may clear the two flags but nobody  *)
(* sets them, so a snapshot without a call still tells the truth when the  *)
(* turn acts on it.  IInv says this, and what a pending call implies.      *)
(***************************************************************************)
EXTENDS PumpfunBot, TLAPS

(* Between the head of a turn and the action it ends with.                   *)
InTurn == pc \in {"context", "shouldBuy", "shouldSell"}

(* The snapshot of a turn is never too optimistic.                           *)
SnapshotTrue ==
  /\ InTurn /\ ~actionInProgress =>
       ~buyInProgress /\ ~sellInProgress /\ fatalError = "none"
  /\ pc \in {"shouldBuy", "shouldSell"} =>
       ~actionInProgress /\ result = "none"

(* A call that is pending is flagged, and tells where the trade is.          *)
CallsFlagged ==
  /\ buyCall # "idle" =>
       buyInProgress /\ trade = "none" /\ result = "none" /\ sellCall = "idle"
  /\ buyInProgress /\ buyCall # "pending" => fatalError # "none"
  /\ sellCall # "idle" <=> sellInProgress
  /\ sellCall = "pending" => trade = "open"
  /\ sellCall = "settling" => trade # "none"

(* The result of the run against the events of the bus.                      *)
ResultMatchesEvents ==
  /\ result = "trade" <=> trade = "closed"
  /\ result = "exit" => buyCall = "idle" /\ sellCall = "idle" /\ trade = "none"
  /\ reported <=> trade = "closed"

(* How the run has ended, and what it can then have left behind.             *)
EndedWell ==
  /\ pc = "ended" <=> Ended
  /\ outcome \in {"trade", "exit", "migrated", "stopped"} =>
       buyCall = "idle" /\ trade # "open"

IInv ==
  /\ TypeOK
  /\ SnapshotTrue
  /\ CallsFlagged
  /\ ResultMatchesEvents
  /\ EndedWell
  /\ PositionMatchesEvents
  /\ GivesUpAfterRetries

-----------------------------------------------------------------------------
(* Types.                                                                    *)

(* What a turn decides keeps the types: the retries are counted only below   *)
(* their limit.                                                              *)
LEMMA DecisionTypes ==
  ASSUME TypeOK, NEW sb \in BOOLEAN, NEW ss \in BOOLEAN,
         Act(sb, ss) \/ ExitWithoutTrade(sb) \/ AskShouldSell(sb, ss)
  PROVE  TypeOK'
<1> USE DEF turnVars, loopVars, answers, flags, runVars, callVars, chainVars,
           busVars, dbVars, effects, outside, endVars
<1>1. CASE StartBuy(sb, ss)
  <2>1. buyInProgress' \in BOOLEAN
    BY <1>1 DEF StartBuy
  <2>2. QED
    BY <1>1, <2>1 DEF StartBuy, TypeOK
<1>2. CASE GiveUpSelling(sb, ss)
  BY <1>2 DEF GiveUpSelling, TypeOK, Errors
<1>3. CASE StartSell(sb, ss)
  <2>1. sellInProgress' \in BOOLEAN
    BY <1>3 DEF StartSell
  <2>2. sellTries' \in 1 .. MaxSellRetries + 1
    BY <1>3, BotAssumption DEF StartSell, TriesLeft, TypeOK
  <2>3. QED
    BY <1>3, <2>1, <2>2 DEF StartSell, TypeOK, Attempts
<1>4. CASE JustSleep(sb, ss)
  BY <1>4 DEF JustSleep, TypeOK
<1>5. CASE ExitWithoutTrade(sb)
  BY <1>5 DEF ExitWithoutTrade, TypeOK
<1>6. CASE AskShouldSell(sb, ss)
  BY <1>6 DEF AskShouldSell, TypeOK
<1>7. QED BY <1>1, <1>2, <1>3, <1>4, <1>5, <1>6 DEF Act

(* Every step keeps the types.                                               *)
LEMMA TypesKept ==
  ASSUME TypeOK, [Next]_vars
  PROVE  TypeOK'
<1> USE DEF turnVars, loopVars, answers, flags, runVars, callVars, chainVars,
           busVars, dbVars, effects, outside, endVars
<1>1. CASE Leave
  BY <1>1 DEF Leave, End, TypeOK
<1>2. CASE ThrowFatalError
  BY <1>2 DEF ThrowFatalError, End, Errors, TypeOK
<1>3. CASE BeginTurn
  <2>1. actionInProgress' \in BOOLEAN
    BY <1>3 DEF BeginTurn, ActionIsInProgress, TypeOK
  <2>2. QED
    BY <1>3, <2>1 DEF BeginTurn, TypeOK
<1>4. ASSUME NEW m \in Readings, FindMigrated(m)
      PROVE  TypeOK'
  BY <1>4 DEF FindMigrated, End, TypeOK
<1>5. ASSUME NEW m \in Readings, SkipEntry(m)
      PROVE  TypeOK'
  BY <1>5 DEF SkipEntry, TypeOK
<1>6. ASSUME NEW m \in Readings, MonitorAfterResult(m)
      PROVE  TypeOK'
  BY <1>6, BotAssumption DEF MonitorAfterResult, MonitorsMore, TypeOK
<1>7. ASSUME NEW m \in Readings, ReturnResult(m)
      PROVE  TypeOK'
  <2>1. buyPosition' \in BOOLEAN
    BY <1>7 DEF ReturnResult, End, TypeOK
  <2>2. QED
    BY <1>7, <2>1 DEF ReturnResult, TypeOK, End
<1>8. ASSUME NEW m \in Readings, AskShouldBuy(m)
      PROVE  TypeOK'
  BY <1>8 DEF AskShouldBuy, TypeOK
<1>9. ASSUME NEW sb \in BOOLEAN, Decide(sb)
      PROVE  TypeOK'
  <2>1. TypeOK /\ shouldSellRes \in BOOLEAN
    BY DEF TypeOK
  <2>2. QED
    BY <1>9, <2>1, DecisionTypes DEF Decide
<1>10. ASSUME NEW s \in BOOLEAN, ShouldSellAnswers(s)
      PROVE  TypeOK'
  <2>1. /\ shouldBuyRes \in BOOLEAN
        /\ (shouldSellRes \/ s \/ (AutoSell /\ autoSellDue)) \in BOOLEAN
    BY DEF TypeOK
  <2>2. QED
    BY <1>10, <2>1, DecisionTypes DEF ShouldSellAnswers
<1>11. CASE AwaitRejects
  BY <1>11 DEF AwaitRejects, End, TypeOK
<1>12. CASE Wake
  BY <1>12 DEF Wake, TypeOK
<1>13. CASE BuySucceeds
  <2>1. isRunning' \in BOOLEAN /\ buyPosition' \in BOOLEAN /\ shouldBuyRes' \in BOOLEAN /\ buyInProgress' \in BOOLEAN
    BY <1>13 DEF BuySucceeds, AfterBuy, TypeOK
  <2>2. QED
    BY <1>13, <2>1 DEF BuySucceeds, TypeOK
<1>14. CASE BuyHitsSlippage
  BY <1>14 DEF BuyHitsSlippage, Errors, TypeOK
<1>15. CASE BalanceTooLow
  <2>1. shouldBuyRes' \in BOOLEAN /\ buyInProgress' \in BOOLEAN
    BY <1>15 DEF BalanceTooLow, TypeOK
  <2>2. QED
    BY <1>15, <2>1 DEF BalanceTooLow, TypeOK, Errors
<1>16. CASE BalanceSuffices
  BY <1>16 DEF BalanceSuffices, TypeOK
<1>17. CASE BuyLacksFunds
  <2>1. shouldBuyRes' \in BOOLEAN /\ buyInProgress' \in BOOLEAN
    BY <1>17 DEF BuyLacksFunds, TypeOK
  <2>2. QED
    BY <1>17, <2>1 DEF BuyLacksFunds, TypeOK, Errors
<1>18. CASE BuyFails
  BY <1>18 DEF BuyFails, Errors, TypeOK
<1>19. CASE BuyHandlerRejects
  <2>1. crashed' \in BOOLEAN
    BY <1>19 DEF BuyHandlerRejects, TypeOK
  <2>2. QED
    BY <1>19, <2>1 DEF BuyHandlerRejects, TypeOK
<1>20. CASE SellSucceeds
  <2>1. reported' \in BOOLEAN /\ isRunning' \in BOOLEAN /\ buyPosition' \in BOOLEAN
    BY <1>20 DEF SellSucceeds, AfterSell, TypeOK
  <2>2. QED
    BY <1>20, <2>1 DEF SellSucceeds, TypeOK
<1>21. CASE SellLacksTokens
  BY <1>21 DEF SellLacksTokens, Errors, TypeOK
<1>22. CASE SellFails
  BY <1>22 DEF SellFails, TypeOK
<1>23. CASE SellSettles
  <2>1. shouldSellRes' \in BOOLEAN /\ sellInProgress' \in BOOLEAN
    BY <1>23 DEF SellSettles, SaleIsOver, TypeOK
  <2>2. QED
    BY <1>23, <2>1 DEF SellSettles, TypeOK
<1>24. CASE FallbackSells
  <2>1. fallbackSold' \in BOOLEAN
    BY <1>24 DEF FallbackSells, TypeOK
  <2>2. QED
    BY <1>24, <2>1 DEF FallbackSells, TypeOK
<1>25. CASE StopBot
  <2>1. isRunning' \in BOOLEAN
    BY <1>25 DEF StopBot, TypeOK
  <2>2. QED
    BY <1>25, <2>1 DEF StopBot, TypeOK
<1>26. CASE AutoSellTimeout
  <2>1. autoSellDue' \in BOOLEAN
    BY <1>26 DEF AutoSellTimeout, TypeOK
  <2>2. QED
    BY <1>26, <2>1 DEF AutoSellTimeout, TypeOK
<1>27. ASSUME NEW w \in {"insert", "close"}, NEW executed \in BOOLEAN, RowWritten(w, executed)
      PROVE  TypeOK'
  BY <1>27 DEF RowWritten, TypeOK
<1>28. ASSUME NEW how \in {"landed", "failed"}, BuyTxEnds(how)
      PROVE  TypeOK'
  BY <1>28 DEF BuyTxEnds, TypeOK
<1>29. ASSUME NEW n \in Attempts, NEW lands \in BOOLEAN, SellTxEnds(n, lands)
      PROVE  TypeOK'
  BY <1>29 DEF SellTxEnds, TypeOK
<1>30. CASE UNCHANGED vars
  BY <1>30 DEF vars, TypeOK
<1>31. ASSUME NEW m \in Readings, Watch(m)
      PROVE  TypeOK'
  BY <1>31, <1>9 DEF Watch, TypeOK
<1>32. QED
  BY <1>1, <1>2, <1>3, <1>4, <1>5, <1>6, <1>7, <1>8, <1>9, <1>10, <1>11, <1>12, <1>13, <1>14, <1>15, <1>16, <1>17, <1>18, <1>19, <1>20, <1>21, <1>22, <1>23, <1>24, <1>25, <1>26, <1>27, <1>28, <1>29, <1>30, <1>31
     DEF Next, Loop, ContextArrives, ShouldBuyAnswers, BuyCallback, SellCallback, Chain

(* A run starts with its types.                                              *)
LEMMA InitTypes == Init => TypeOK
<1>1. Init => /\ {actionInProgress, shouldBuyRes, shouldSellRes, buyInProgress,
                  sellInProgress, buyPosition, autoSellDue, fallbackSold,
                  reported, crashed} \subseteq BOOLEAN
              /\ isRunning \in BOOLEAN
  BY Zenon DEF Init
<1>2. QED
  BY <1>1, BotAssumption DEF Init, TypeOK

(* Every reachable state has its type.                                       *)
THEOREM TypesHold == Spec => []TypeOK
<1>1. Init => TypeOK
  BY InitTypes
<1>2. TypeOK /\ [Next]_vars => TypeOK'
  BY TypesKept
<1>3. QED BY <1>1, <1>2, PTL DEF Spec

-----------------------------------------------------------------------------
(* The calls, the events and the result.                                     *)

(* A turn that acts has told the truth about the calls, and has no result.   *)
LEMMA DecisionKeeps ==
  ASSUME IInv, TypeOK', InTurn, result = "none",
         NEW sb \in BOOLEAN, NEW ss \in BOOLEAN,
         Act(sb, ss) \/ ExitWithoutTrade(sb) \/ AskShouldSell(sb, ss)
  PROVE  IInv'
<1> USE BotAssumption DEF IInv, SnapshotTrue, CallsFlagged, ResultMatchesEvents,
           EndedWell, PositionMatchesEvents, GivesUpAfterRetries, InTurn, Ended,
           turnVars, loopVars, answers, flags, runVars, callVars, chainVars,
           busVars, dbVars, effects, outside, endVars
<1>1. CASE StartBuy(sb, ss)
  BY <1>1 DEF StartBuy, TypeOK
<1>2. CASE GiveUpSelling(sb, ss)
  BY <1>2 DEF GiveUpSelling, TriesLeft, TypeOK
<1>3. CASE StartSell(sb, ss)
  BY <1>3 DEF StartSell, TypeOK
<1>4. CASE JustSleep(sb, ss)
  BY <1>4 DEF JustSleep, TypeOK
<1>5. CASE ExitWithoutTrade(sb)
  BY <1>5 DEF ExitWithoutTrade, ExitAnswers, TypeOK
<1>6. CASE AskShouldSell(sb, ss)
  BY <1>6 DEF AskShouldSell, TypeOK
<1>7. QED BY <1>1, <1>2, <1>3, <1>4, <1>5, <1>6 DEF Act

(* The loop: the head of a turn, the market context, the answers of the strategy.*)
LEMMA LoopKeeps ==
  ASSUME IInv, TypeOK',
         Loop
  PROVE  IInv'
<1> USE BotAssumption DEF IInv, SnapshotTrue, CallsFlagged, ResultMatchesEvents,
           EndedWell, PositionMatchesEvents, GivesUpAfterRetries, InTurn, Ended,
           turnVars, loopVars, answers, flags, runVars, callVars, chainVars,
           busVars, dbVars, effects, outside, endVars
<1>1. CASE Leave
  BY <1>1 DEF Leave, End, KeepsMonitoring, TypeOK
<1>2. CASE ThrowFatalError
  BY <1>2 DEF ThrowFatalError, End, KeepsMonitoring, Errors, TypeOK
<1>3. CASE BeginTurn
  BY <1>3 DEF BeginTurn, ActionIsInProgress, TypeOK
<1>4. ASSUME NEW m \in Readings, FindMigrated(m)
      PROVE  IInv'
  BY <1>4 DEF FindMigrated, Ignored, End, TypeOK
<1>5. ASSUME NEW m \in Readings, SkipEntry(m)
      PROVE  IInv'
  BY <1>5 DEF SkipEntry, TypeOK
<1>6. ASSUME NEW m \in Readings, MonitorAfterResult(m)
      PROVE  IInv'
  BY <1>6 DEF MonitorAfterResult, TypeOK
<1>7. ASSUME NEW m \in Readings, ReturnResult(m)
      PROVE  IInv'
  BY <1>7 DEF ReturnResult, End, TypeOK
<1>8. ASSUME NEW m \in Readings, AskShouldBuy(m)
      PROVE  IInv'
  BY <1>8 DEF AskShouldBuy, Undecided, TypeOK
<1>9. CASE AwaitRejects
  BY <1>9 DEF AwaitRejects, End, TypeOK
<1>10. CASE Wake
  BY <1>10 DEF Wake, TypeOK
<1>11. ASSUME NEW sb \in BOOLEAN, Decide(sb), InTurn, result = "none"
      PROVE  IInv'
  <2>1. shouldSellRes \in BOOLEAN
    BY DEF TypeOK
  <2>2. QED
    BY <1>11, <2>1, DecisionKeeps DEF Decide
<1>12. ASSUME NEW m \in Readings, Watch(m)
      PROVE  IInv'
  BY <1>11, <1>12 DEF Watch, Undecided, TypeOK
<1>13. ASSUME NEW b \in BOOLEAN, ShouldBuyAnswers(b)
      PROVE  IInv'
  BY <1>11, <1>13 DEF ShouldBuyAnswers
<1>14. ASSUME NEW b \in BOOLEAN, ShouldSellAnswers(b)
      PROVE  IInv'
  <2>1. /\ shouldBuyRes \in BOOLEAN
        /\ (shouldSellRes \/ b \/ (AutoSell /\ autoSellDue)) \in BOOLEAN
    BY DEF TypeOK
  <2>2. QED
    BY <1>14, <2>1, DecisionKeeps DEF ShouldSellAnswers
<1>15. QED
  BY <1>1, <1>2, <1>3, <1>4, <1>5, <1>6, <1>7, <1>8, <1>9, <1>10, <1>11, <1>12, <1>13, <1>14
     DEF Loop, ContextArrives

(* The promise callbacks.                                                    *)
LEMMA CallbacksKeep ==
  ASSUME IInv, TypeOK',
         BuyCallback \/ SellCallback
  PROVE  IInv'
<1> USE BotAssumption DEF IInv, SnapshotTrue, CallsFlagged, ResultMatchesEvents,
           EndedWell, PositionMatchesEvents, GivesUpAfterRetries, InTurn, Ended,
           turnVars, loopVars, answers, flags, runVars, callVars, chainVars,
           busVars, dbVars, effects, outside, endVars
<1>1. CASE BuySucceeds
  BY <1>1 DEF BuySucceeds, AfterBuy, TypeOK
<1>2. CASE BuyHitsSlippage
  BY <1>2 DEF BuyHitsSlippage, TypeOK
<1>3. CASE BalanceTooLow
  BY <1>3 DEF BalanceTooLow, TypeOK
<1>4. CASE BalanceSuffices
  BY <1>4 DEF BalanceSuffices, TypeOK
<1>5. CASE BuyLacksFunds
  BY <1>5 DEF BuyLacksFunds, TypeOK
<1>6. CASE BuyFails
  BY <1>6 DEF BuyFails, TypeOK
<1>7. CASE BuyHandlerRejects
  BY <1>7 DEF BuyHandlerRejects, TypeOK
<1>8. CASE SellSucceeds
  BY <1>8 DEF SellSucceeds, AfterSell, TypeOK
<1>9. CASE SellLacksTokens
  BY <1>9 DEF SellLacksTokens, TypeOK
<1>10. CASE SellFails
  BY <1>10 DEF SellFails, TypeOK
<1>11. CASE SellSettles
  BY <1>11 DEF SellSettles, SaleIsOver, TypeOK
<1>12. QED
  BY <1>1, <1>2, <1>3, <1>4, <1>5, <1>6, <1>7, <1>8, <1>9, <1>10, <1>11
     DEF BuyCallback, SellCallback

(* The events, the clock, the database and the chain.                        *)
LEMMA OutsideKeeps ==
  ASSUME IInv, TypeOK',
         \/ FallbackSells \/ StopBot \/ AutoSellTimeout \/ Chain
         \/ \E w \in {"insert", "close"}, executed \in BOOLEAN : RowWritten(w, executed)
         \/ UNCHANGED vars
  PROVE  IInv'
<1> USE BotAssumption DEF IInv, SnapshotTrue, CallsFlagged, ResultMatchesEvents,
           EndedWell, PositionMatchesEvents, GivesUpAfterRetries, InTurn, Ended,
           turnVars, loopVars, answers, flags, runVars, callVars, chainVars,
           busVars, dbVars, effects, outside, endVars
<1>1. CASE FallbackSells
  BY <1>1 DEF FallbackSells, TypeOK
<1>2. CASE StopBot
  BY <1>2 DEF StopBot, TypeOK
<1>3. CASE AutoSellTimeout
  BY <1>3 DEF AutoSellTimeout, TypeOK
<1>4. ASSUME NEW w \in {"insert", "close"}, NEW executed \in BOOLEAN, RowWritten(w, executed)
      PROVE  IInv'
  BY <1>4 DEF RowWritten, TypeOK
<1>5. ASSUME NEW how \in {"landed", "failed"}, BuyTxEnds(how)
      PROVE  IInv'
  BY <1>5 DEF BuyTxEnds, TypeOK
<1>6. ASSUME NEW n \in Attempts, NEW lands \in BOOLEAN, SellTxEnds(n, lands)
      PROVE  IInv'
  BY <1>6 DEF SellTxEnds, TypeOK
<1>7. CASE UNCHANGED vars
  BY <1>7 DEF vars, TypeOK
<1>8. QED
  BY <1>1, <1>2, <1>3, <1>4, <1>5, <1>6, <1>7
     DEF Chain

(* IInv is inductive.                                                        *)
LEMMA Invariance == Spec => []IInv
<1>1. Init => IInv
  <2>1. Init => TypeOK
    BY InitTypes
  <2>2. QED
    BY <2>1 DEF Init, IInv, SnapshotTrue, CallsFlagged, ResultMatchesEvents,
       EndedWell, PositionMatchesEvents, GivesUpAfterRetries, InTurn, Ended
<1>2. IInv /\ [Next]_vars => IInv'
  <2>1. IInv /\ [Next]_vars => TypeOK'
    BY TypesKept DEF IInv
  <2>2. QED
    BY <2>1, LoopKeeps, CallbacksKeep, OutsideKeeps DEF Next
<1>3. QED BY <1>1, <1>2, PTL DEF Spec

(* The strategy's position and the trade events agree.                       *)
THEOREM PositionsMatchEvents == Spec => []PositionMatchesEvents
<1>1. IInv => PositionMatchesEvents
  BY DEF IInv
<1>2. QED BY <1>1, Invariance, PTL

(* The run gives up only when every retry was made and none is pending.      *)
THEOREM RetriesExhausted == Spec => []GivesUpAfterRetries
<1>1. IInv => GivesUpAfterRetries
  BY DEF IInv
<1>2. QED BY <1>1, Invariance, PTL

-----------------------------------------------------------------------------
(* The two calls of a run never overlap.                                     *)

(* A step that looks like the start of a call is the decision of a turn: no  *)
(* callback, event or transaction changes what starting a call changes.      *)
LEMMA CallsStartInTurn ==
  ASSUME IInv, Next, NEW sb \in BOOLEAN, NEW ss \in BOOLEAN,
         StartBuy(sb, ss) \/ StartSell(sb, ss)
  PROVE  InTurn /\ result = "none"
<1> USE DEF IInv, TypeOK, SnapshotTrue, InTurn, turnVars, loopVars, answers,
           flags, runVars, callVars, chainVars, busVars, dbVars, effects,
           outside, endVars
<1>1. pc' = "sleep"
  BY DEF StartBuy, StartSell
<1>2. \/ /\ buyCall' = "pending" /\ buyTx' = "flying"
         /\ UNCHANGED <<isRunning, autoSellDue, sellCall, flyingSells,
                        fallbackSold, rowWrites, crashed>>
      \/ sellTries' # sellTries
  BY DEF StartBuy, StartSell
<1>3. CASE Loop
  BY <1>1, <1>3 DEF Loop, Leave, ThrowFatalError, BeginTurn, ContextArrives,
     FindMigrated, SkipEntry, MonitorAfterResult, ReturnResult, AskShouldBuy,
     Watch, Undecided, Wake, ShouldBuyAnswers, ShouldSellAnswers, AwaitRejects,
     End
<1>4. CASE BuyCallback
  BY <1>2, <1>4 DEF BuyCallback, BuySucceeds, BuyHitsSlippage, BalanceTooLow,
     BalanceSuffices, BuyLacksFunds, BuyFails, BuyHandlerRejects, Suspended
<1>5. CASE SellCallback
  BY <1>2, <1>5 DEF SellCallback, SellSucceeds, SellLacksTokens, SellFails,
     SellSettles
<1>6. CASE FallbackSells \/ StopBot \/ AutoSellTimeout
  BY <1>2, <1>6 DEF FallbackSells, StopBot, AutoSellTimeout, HoldsTokens
<1>7. ASSUME NEW w \in {"insert", "close"}, NEW executed \in BOOLEAN,
             RowWritten(w, executed)
      PROVE  FALSE
  BY <1>2, <1>7 DEF RowWritten
<1>8. CASE Chain
  BY <1>2, <1>8 DEF Chain, BuyTxEnds, SellTxEnds
<1>9. QED BY <1>3, <1>4, <1>5, <1>6, <1>7, <1>8 DEF Next

(* A purchase starts only for a token not traded yet, a sale only for a      *)
(* bought one, and neither while a call is pending or settling.              *)
THEOREM CallsNeverOverlap == Spec => NoOverlap
<1> DEFINE Apart ==
      \A sb, ss \in BOOLEAN :
        /\ StartBuy(sb, ss)
             => buyCall = "idle" /\ sellCall = "idle" /\ trade = "none"
        /\ StartSell(sb, ss)
             => buyCall = "idle" /\ sellCall = "idle" /\ trade = "open"
<1>1. IInv /\ [Next]_vars => [Apart]_vars
  <2>1. SUFFICES ASSUME IInv, Next, NEW sb \in BOOLEAN, NEW ss \in BOOLEAN,
                        StartBuy(sb, ss) \/ StartSell(sb, ss)
                 PROVE  /\ StartBuy(sb, ss)  => trade = "none"
                        /\ StartSell(sb, ss) => trade = "open"
                        /\ buyCall = "idle" /\ sellCall = "idle"
    OBVIOUS
  <2>2. InTurn /\ result = "none"
    BY <2>1, CallsStartInTurn
  <2>3. ~actionInProgress
    BY <2>1 DEF StartBuy, StartSell
  <2>4. buyCall = "idle" /\ sellCall = "idle"
    BY <2>1, <2>2, <2>3 DEF IInv, SnapshotTrue, CallsFlagged
  <2>5. trade # "closed"
    BY <2>1, <2>2 DEF IInv, ResultMatchesEvents
  <2>6. QED
    BY <2>1, <2>4, <2>5 DEF IInv, TypeOK, PositionMatchesEvents, StartBuy, StartSell
<1>2. QED BY <1>1, Invariance, PTL DEF Spec, NoOverlap

-----------------------------------------------------------------------------
(* The run implements TokenTrade.                                            *)

(* Only the two success callbacks emit an event, only five actions end the   *)
(* run, and each does it where TokenTrade allows it.                         *)
LEMMA StepsImplementTrade ==
  ASSUME IInv, [Next]_vars
  PROVE  [Trade!Next]_(Trade!vars)
<1> USE DEF Trade!Next, Trade!vars, IInv, PositionMatchesEvents,
           ResultMatchesEvents, CallsFlagged, EndedWell, Ended, Trade!Returns,
           Trade!Throws, turnVars, loopVars, answers, flags, runVars, callVars,
           chainVars, busVars, dbVars, effects, outside, endVars, End
<1>1. CASE Leave
  <2>1. Trade!Return("stopped")
    BY <1>1 DEF Leave, KeepsMonitoring, Trade!Return, TypeOK
  <2>2. QED BY <2>1
<1>2. CASE ThrowFatalError
  <2>1. fatalError \in Trade!Throws
    BY <1>2 DEF ThrowFatalError, TypeOK, Errors
  <2>2. Trade!Throw(fatalError)
    BY <1>2 DEF ThrowFatalError, Trade!Throw
  <2>3. QED BY <2>1, <2>2
<1>3. CASE AwaitRejects
  <2>1. Trade!Throw("rpc_or_strategy_error")
    BY <1>3 DEF AwaitRejects, Trade!Throw
  <2>2. QED BY <2>1
<1>4. ASSUME NEW m \in Readings, FindMigrated(m)
      PROVE  [Trade!Next]_(Trade!vars)
  <2>1. Trade!Return("migrated")
    BY <1>4 DEF FindMigrated, Ignored, Trade!Return
  <2>2. QED BY <2>1
<1>5. ASSUME NEW m \in Readings, ReturnResult(m)
      PROVE  [Trade!Next]_(Trade!vars)
  <2>1. result \in {"trade", "exit"}
    BY <1>5 DEF ReturnResult, TypeOK
  <2>2. Trade!Return(result)
    BY <1>5, <2>1 DEF ReturnResult, Trade!Return
  <2>3. QED BY <2>1, <2>2
<1>6. CASE BuySucceeds
  <2>1. Trade!Open
    BY <1>6 DEF BuySucceeds, Trade!Open, TypeOK, Errors
  <2>2. QED BY <2>1
<1>7. CASE SellSucceeds
  <2>1. Trade!Close
    BY <1>7 DEF SellSucceeds, Trade!Close, TypeOK, Errors
  <2>2. QED BY <2>1
<1>8. ASSUME NEW sb, NEW ss, Act(sb, ss) \/ ExitWithoutTrade(sb) \/ AskShouldSell(sb, ss)
      PROVE  UNCHANGED <<trade, reported, outcome>>
  BY <1>8 DEF Act, StartBuy, GiveUpSelling, StartSell, JustSleep,
     ExitWithoutTrade, AskShouldSell
<1>9. ASSUME NEW sb, Decide(sb)
      PROVE  UNCHANGED <<trade, reported, outcome>>
  BY <1>9, <1>8 DEF Decide
<1>10. CASE Loop
  <2>1. CASE BeginTurn \/ Wake
    BY <2>1 DEF BeginTurn, Wake
  <2>2. ASSUME NEW m \in Readings,
               SkipEntry(m) \/ MonitorAfterResult(m) \/ AskShouldBuy(m)
        PROVE  UNCHANGED <<trade, reported, outcome>>
    BY <2>2 DEF SkipEntry, MonitorAfterResult, AskShouldBuy
  <2>3. ASSUME NEW m \in Readings, Watch(m)
        PROVE  UNCHANGED <<trade, reported, outcome>>
    BY <2>3, <1>9 DEF Watch
  <2>4. ASSUME NEW b, ShouldBuyAnswers(b) \/ ShouldSellAnswers(b)
        PROVE  UNCHANGED <<trade, reported, outcome>>
    BY <2>4, <1>8, <1>9 DEF ShouldBuyAnswers, ShouldSellAnswers
  <2>5. QED
    BY <1>1, <1>2, <1>3, <1>4, <1>5, <1>10, <2>1, <2>2, <2>3, <2>4
       DEF Loop, ContextArrives
<1>11. CASE BuyCallback
  BY <1>6, <1>11 DEF BuyCallback, BuyHitsSlippage, BalanceTooLow,
     BalanceSuffices, BuyLacksFunds, BuyFails, BuyHandlerRejects
<1>12. CASE SellCallback
  BY <1>7, <1>12 DEF SellCallback, SellLacksTokens, SellFails, SellSettles
<1>13. CASE FallbackSells \/ StopBot \/ AutoSellTimeout
  BY <1>13 DEF FallbackSells, StopBot, AutoSellTimeout
<1>14. ASSUME NEW w \in {"insert", "close"}, NEW executed \in BOOLEAN,
              RowWritten(w, executed)
       PROVE  [Trade!Next]_(Trade!vars)
  BY <1>14 DEF RowWritten
<1>15. CASE Chain
  BY <1>15 DEF Chain, BuyTxEnds, SellTxEnds
<1>16. CASE UNCHANGED vars
  BY <1>16 DEF vars
<1>17. QED
  BY <1>10, <1>11, <1>12, <1>13, <1>14, <1>15, <1>16 DEF Next

(* The events and the end of a run are those TokenTrade promises.            *)
THEOREM RunImplementsTokenTrade == Spec => KeepsTradePromises
<1>1. Init => Trade!Init
  BY DEF Init, Trade!Init
<1>2. IInv /\ [Next]_vars => [Trade!Next]_(Trade!vars)
  BY StepsImplementTrade
<1>3. QED BY <1>1, <1>2, Invariance, PTL DEF Spec, KeepsTradePromises, Trade!Spec
=============================================================================
