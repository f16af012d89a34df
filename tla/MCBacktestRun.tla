---------------------------- MODULE MCBacktestRun ----------------------------
(***************************************************************************)
(* The constants of BacktestRun that a configuration cannot write.         *)
(***************************************************************************)
EXTENDS BacktestRun, TLC

MCRankingMetrics == <<"totalRoi", "winRatePercentage">>

Pair(roi, winRate) == "totalRoi" :> roi @@ "winRatePercentage" :> winRate

(* A result that is good on no metric, two that each lead on one of them, and *)
(* one that beats them all but is too good for a checkpoint to be resumed.    *)
MCOutcomes == {Pair(0, 0), Pair(1, 2), Pair(2, 1), Pair(4, 3)}

(* A strategy that is cut short looks like nothing or better than most.       *)
MCPartials == {Pair(0, 0), Pair(3, 3)}

MCSettings ==
  {[bestOnly |-> TRUE, storeMints |-> FALSE], [bestOnly |-> FALSE, storeMints |-> TRUE]}

(* Winners only, each with its mints.                                        *)
MCKeepsMints == {[bestOnly |-> TRUE, storeMints |-> TRUE]}
=============================================================================
