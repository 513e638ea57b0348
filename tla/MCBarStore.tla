----------------------------- MODULE MCBarStore -----------------------------
(* Instances of BarStore for TLC. *)
EXTENDS BarStore, TLC

CONSTANTS A, B, r1, r2
OneSymbol == {A}
TwoSymbols == {A, B}
NoRuns == {}
OneRun == {r1}
TwoRuns == {r1, r2}
Symmetric == Permutations({A, B}) \cup Permutations({r1, r2})
=============================================================================
