\* A docker kill that fails leaves the container of a run that has reported.
SPECIFICATION Spec
CONSTANTS
    Jobs = {a, b}
    MaxRuns = 2
    MaxSessions = 2
    Asks = {1, 2}
    MaxUses = 1
    Threads = 2
    CaOnDisk = TRUE
    Docker = TRUE
    Meets = FALSE
    Loads <- JobLoads
INVARIANT NoContainerLeft
CHECK_DEADLOCK FALSE
