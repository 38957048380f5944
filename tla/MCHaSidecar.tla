---------------------------- MODULE MCHaSidecar -----------------------------
(* A cluster with its sidecar scripts for TLC. *)
EXTENDS HaSidecar, TLC

NodeSymmetry == Permutations(Nodes)
=============================================================================
