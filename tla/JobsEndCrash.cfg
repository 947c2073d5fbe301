CONSTANTS
    Jobs = {j1}
    Nodes = {n1}
    NoJob = NoJob
    NoNode = NoNode
    Outcomes = {"success", "failed"}
    Commands = {}
    Fits <- AnyNode
    MaxAttempts = 2
    MaxHeld = 2
    MaxRestarts = 1
    MaxQueue = 2
    MaxSessions = 2
    MaxFaults = 1
    CrashAfterAnswer = TRUE
SPECIFICATION FairSpec
PROPERTY EveryJobEnds
CHECK_DEADLOCK FALSE
