CONSTANTS
    Order <- Four
    Deps <- FourDeps
    Main = "main"
    Caps = {1}
    Refusable = {}
    Raisable = {}
    Unheard = {"exhausted"}
    MaxRetries = 0
    MaxRestarts = 0
    MaxRaces = 0
    MaxCrashes = 0
SPECIFICATION FairSpec
PROPERTY WorkflowAlwaysEnds
CHECK_DEADLOCK FALSE
