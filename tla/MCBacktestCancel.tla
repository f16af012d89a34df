--------------------------- MODULE MCBacktestCancel ---------------------------
(***************************************************************************)
(* The constants of BacktestCancel that a configuration cannot write.      *)
(***************************************************************************)
EXTENDS BacktestCancel, TLC

MCRankingMetrics == <<"totalRoi", "winRatePercentage">>

Pair(roi, winRate) == "totalRoi" :> roi @@ "winRatePercentage" :> winRate

(* A result that is good on no metric, and one that is good on both.         *)
MCOutcomes == {Pair(0, 0), Pair(1, 1)}

(* A strategy that is cut short looks like a good one.                       *)
MCPartials == {Pair(1, 1)}

MCSettings ==
  {[bestOnly |-> TRUE, storeMints |-> FALSE], [bestOnly |-> FALSE, storeMints |-> TRUE]}
=============================================================================
