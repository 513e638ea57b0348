-------------------------- MODULE MCAnalystService --------------------------
(* Instances of AnalystService for TLC. *)
EXTENDS AnalystService, TLC

CONSTANTS daily, deep, p1, p2

OneThread == {p1}
TwoThreads == {p1, p2}
Daily == {daily}
Deep == {deep}
DailyAndDeep == {daily, deep}
None == {}
OneTicker == {1}
TwoTickers == {1, 2}
ThreadSymmetry == Permutations(TwoThreads)
=============================================================================
