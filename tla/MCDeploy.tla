------------------------------ MODULE MCDeploy ------------------------------
(* Instances of Deploy for TLC. *)
EXTENDS Deploy

CONSTANTS daily, prices, a, b, c, d, d1, d2

OneCall == [n \in {daily, prices} |-> IF n = daily THEN prices ELSE Nobody]

TwoDeployers == {d1, d2}
DeployerSymmetry == Permutations(TwoDeployers)

\* A zone of two nodes with a title only, and two of one node with a text.
FourNodes == {a, b, c, d}
ThreeZones == 1 .. 3
InZone == [n \in FourNodes |-> IF n = c THEN 2 ELSE IF n = d THEN 3 ELSE 1]
Texts == <<0, 60, 200>>

\* Two columns; rows as far apart as the check and as the generator reach, and
\* as apply_layout.py lays them.
Corners == [x : {0, 340}, y : {0, RowTol, RowReach, 260}]
=============================================================================
