---------------------------- MODULE MCEntryWatch ----------------------------
(* Instances of EntryWatch for TLC. *)
EXTENDS EntryWatch
=============================================================================
