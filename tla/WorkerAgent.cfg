\* A worker's jobs, on one coordinator that stays up, and a worker's enrollment,
\* at a coordinator whose authority is rotated and pruned and which restarts.
SPECIFICATION Spec
CONSTANTS
    Jobs = {a, b}
    MaxRuns = 2
    MaxSessions = 2
    Asks = {1, 2}
    MaxUses = 1
    Threads = 2
    CaOnDisk = TRUE
    Docker = TRUE
    Meets = FALSE
    Loads <- AllLoads
INVARIANTS TableIsTrue AloneIsFaithful EnrollmentHolds TrustKept
PROPERTY EveryRunAnswered
CHECK_DEADLOCK FALSE
