----------------------------- MODULE MCHoldings -----------------------------
(* Instances of Holdings for TLC. *)
EXTENDS Holdings
=============================================================================
