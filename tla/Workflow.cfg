CONSTANTS
    Order <- Four
    Deps <- FourDeps
    Main = "main"
    Caps = {1, 2}
    Refusable = {"b", "c"}
    Raisable <- LastOne
    Unheard = {"exhausted", "answered"}
    MaxRetries = 1
    MaxRestarts = 1
    MaxRaces = 0
    MaxCrashes = 0
SPECIFICATION FairSpec
INVARIANTS Agreement RoomIsUsed
PROPERTIES ParentsFirst WorkflowEnds
CHECK_DEADLOCK FALSE
