-------------------------- MODULE MCWorkerLeases --------------------------
(* Instances of WorkerLeases for TLC.                                      *)
EXTENDS WorkerLeases, TLC

(* One organization may hold every worker, the others one each.            *)
Caps == [o \in Orgs |-> IF o = CHOOSE p \in Orgs : TRUE
                        THEN Cardinality(Workers) ELSE 1]
=============================================================================
