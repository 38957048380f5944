----------------------------- MODULE MCDbLocks ------------------------------
(* The calls of one gateway node for TLC. *)
EXTENDS DbLocks
=============================================================================
