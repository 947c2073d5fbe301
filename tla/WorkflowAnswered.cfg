CONSTANTS
    Order <- Four
    Deps <- FourDeps
    Main = "main"
    Caps = {1}
    Refusable = {}
    Raisable = {}
    Unheard = {"answered"}
    MaxRetries = 0
    MaxRestarts = 1
    MaxRaces = 0
    MaxCrashes = 0
SPECIFICATION FairSpec
PROPERTY WorkflowAlwaysEnds
CHECK_DEADLOCK FALSE
