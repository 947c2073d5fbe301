CONSTANTS
    Jobs = {j1}
    Nodes = {n1, n2}
    NoJob = NoJob
    NoNode = NoNode
    Outcomes = {"success", "failed"}
    Commands = {"cancel", "retry", "clear_queue", "clear_failed", "clear_job",
                "deregister", "stop_worker", "restart_worker"}
    Fits <- AnyNode
    MaxAttempts = 2
    MaxHeld = 2
    MaxRestarts = 1
    MaxQueue = 2
    MaxSessions = 3
    MaxFaults = 0
    CrashAfterAnswer = TRUE
SPECIFICATION Spec
SYMMETRY Symmetric
INVARIANT AttemptsBounded
CHECK_DEADLOCK FALSE
