------------------------------- MODULE MCSetup -------------------------------
(* Two kinds of provider; the default one offers Claude and another model. *)
EXTENDS Setup

MCMenu == [p \in Provider |-> IF p = DefaultProvider THEN {"vendor_claude", "other"}
                              ELSE {"default"}]
=============================================================================
