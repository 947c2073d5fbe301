---------------------------- MODULE MCReplicas ----------------------------
(* Three workers, two replicas; workers and outputs are interchangeable. *)
EXTENDS Replicas, TLC

Symmetry == Permutations(Nodes) \cup Permutations(Outputs)
===========================================================================
