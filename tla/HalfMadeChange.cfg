SPECIFICATION Spec
CONSTANTS
    Orgs = {"o1"}
    Jobs = {"j1", "j2"}
    OrgOf <- OneOrg
    Reported <- Runtimes
    Timeout = 3
    OwnWorker = {"j1"}
    Genuine = {"j2"}
    Ended = {"j1"}
    Periods <- SomePeriods
    Providers <- ChargedAtOnce
    Pricings <- BothPrices
    FirstPricing <- FirstPrices
    Joined <- JoinedFirst
    Plans = {"a", "b"}
    Tables <- BothTables
    FirstPlan = "a"
    FirstTable <- Cheap
    Procs = {"p"}
    Catchup = 2
    MaxTime = 4
    MaxStaff = 1
    MaxFaults = 1
INVARIANTS InvoiceIsAlwaysRight
CHECK_DEADLOCK FALSE
