------------------------------ MODULE MCHaNode ------------------------------
(* One HA node for TLC. *)
EXTENDS HaNode
=============================================================================
