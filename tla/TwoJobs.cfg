CONSTANTS
    Jobs = {j1, j2}
    Nodes = {n1, n2}
    NoJob = NoJob
    NoNode = NoNode
    Outcomes = {"success", "failed"}
    Commands = {}
    Fits <- OneNodeOnly
    MaxAttempts = 2
    MaxHeld = 1
    MaxRestarts = 1
    MaxQueue = 2
    MaxSessions = 3
    MaxFaults = 0
    CrashAfterAnswer = TRUE
SPECIFICATION Spec
INVARIANT EvictedIsDurable
CHECK_DEADLOCK FALSE
