----------------------------- MODULE MCHaLease ------------------------------
(* A cluster of HA nodes for TLC; the nodes are interchangeable. *)
EXTENDS HaLease, TLC

(* With the bounds of the configurations this stamp is always fresh, so that a
   freshness file permits a promotion or is empty. *)
FreshStamps == {[source_generation |-> 0, synced_at |-> 1]}

NodeSymmetry == Permutations(Nodes)
=============================================================================
