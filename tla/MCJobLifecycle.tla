-------------------------- MODULE MCJobLifecycle --------------------------
(* Instances of JobLifecycle for TLC.                                      *)
EXTENDS JobLifecycle, TLC

AnyNode == Jobs \X Nodes
OneNodeOnly == Jobs \X {CHOOSE n \in Nodes : TRUE}
Symmetric == Permutations(Jobs) \cup Permutations(Nodes)
=============================================================================
