----------------------------- MODULE MCWsPages -----------------------------
(* The instance of WsPages that TLC checks: the backtests are alike.       *)
EXTENDS WsPages, TLC

CONSTANTS b1, b2
Symmetry == Permutations(Backtests)
=============================================================================
