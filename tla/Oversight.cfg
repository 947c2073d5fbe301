\* The receipts' verdicts, webhook deliveries and incidents of a coordinator
\* that restarts, loses keys and shares its database with a second process.
SPECIFICATION Spec
CONSTANTS
    Jobs = {j1, j2}
    Nodes = {n1}
    QuarantineAfter = 2
    MaxInMemory = 1
    MaxRows = 1
    SlashDivisor = 10
    Deposit = 1
    Policy <- MCPolicy
    Metrics <- MCMetrics
    NotReported = NotReported
    Loads <- MCLoads
    Subs = {s1}
    Dispatchers = {p1, p2}
    Leader = p1
    MaxAttempts = 2
    CountCap = 5
    Plants <- MCPlants
    Calm <- MCCalm
    QueueWarn = 2
    StorageWarn = 15
INVARIANT EveryReceiptAccounted
PROPERTIES
    DeliveriesSettle
    IncidentsFollow
CHECK_DEADLOCK FALSE
