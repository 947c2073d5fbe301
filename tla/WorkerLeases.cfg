CONSTANTS
    Workers = {w1}
    Orgs = {o1, o2}
    NoOrg = NoOrg
    Cap <- Caps
    MaxRefs = 4
    MaxFaults = 3
    MaxLate = 0
    MaxCrashes = 0
SPECIFICATION FairSpec
INVARIANTS PoolIsClean OnlyItsCustomer RegistryShowsLease
PROPERTY LeaseEnds
CHECK_DEADLOCK FALSE
