--------------------------- MODULE MCRecorderLease ---------------------------
(* Instances of RecorderLease for TLC. *)
EXTENDS RecorderLease

CONSTANTS a, b, c
ThreeSlots == {a, b, c}
=============================================================================
