CONSTANTS
    Coordinators = {A, B}
    NoOne = NoOne
    TTL = 2
    MaxTime = 4
    MaxFaults = 2
SPECIFICATION FairSpec
INVARIANTS OneRightfulLeader LiveGrantIsRow
PROPERTIES NoEarlyTakeover ImplementsLease Failover
