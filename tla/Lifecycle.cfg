CONSTANTS
    Jobs = {j1}
    Nodes = {n1, n2}
    NoJob = NoJob
    NoNode = NoNode
    Outcomes = {"success", "failed"}
    Commands = {}
    Fits <- AnyNode
    MaxAttempts = 2
    MaxHeld = 2
    MaxRestarts = 1
    MaxQueue = 2
    MaxSessions = 3
    MaxFaults = 1
    CrashAfterAnswer = FALSE
SPECIFICATION FairSpec
INVARIANTS PendingIsQueued RunningIsWatched CompletedHasReceipt
PROPERTY EveryJobEnds
CHECK_DEADLOCK FALSE
