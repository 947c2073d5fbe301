----------------------------- MODULE MCGateway -----------------------------
(* Instances of Gateway for TLC.                                           *)
EXTENDS Gateway, TLC

\* A job under a key, another one under the same key, a workflow under the same text,
\* and a job without a key.
FourShapes == {[kind |-> "job", key |-> "k", body |-> "a"], [kind |-> "job", key |-> "k", body |-> "b"],
               [kind |-> "workflow", key |-> "k", body |-> "a"], [kind |-> "job", key |-> NoKey, body |-> "a"]}
Small == [rate |-> 2, cap |-> 1]
Large == [rate |-> 1, cap |-> 2]
TwoPlans == {Small, Large}
RequestSymmetry == Permutations(Requests)
=============================================================================
