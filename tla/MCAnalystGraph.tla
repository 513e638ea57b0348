--------------------------- MODULE MCAnalystGraph ---------------------------
(* Instances of AnalystGraph for TLC: the budgets are given in the .cfg.     *)
EXTENDS AnalystGraph
=============================================================================
