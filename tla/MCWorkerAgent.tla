--------------------------- MODULE MCWorkerAgent ---------------------------
\* Instances of WorkerAgent: a load of jobs, and loads of work on certificates.
EXTENDS WorkerAgent, TLC

Nothing == [runs |-> 0, cuts |-> 0, faults |-> 0, rotations |-> 0, prunes |-> 0,
            restarts |-> 0, revocations |-> 0, provisioned |-> 0]

JobLoads == {[Nothing EXCEPT !.runs = 2, !.cuts = 1, !.faults = 1, !.provisioned = 1]}

CertLoads ==
    {[Nothing EXCEPT !.faults = 1, !.rotations = 1],
     [Nothing EXCEPT !.faults = 2],
     [Nothing EXCEPT !.rotations = 1, !.restarts = 1, !.prunes = 1],
     [Nothing EXCEPT !.rotations = 2, !.restarts = 1],
     [Nothing EXCEPT !.rotations = 2, !.prunes = 1],
     [Nothing EXCEPT !.rotations = 1, !.restarts = 1, !.revocations = 1, !.provisioned = 1]}

AllLoads == JobLoads \cup CertLoads
=============================================================================
