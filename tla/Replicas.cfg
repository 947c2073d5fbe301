SPECIFICATION Spec
CONSTANTS
  Nodes = {n1, n2}
  Outputs = {a, b}
  N = 2
  MaxAttempts = 2
  MaxGroups = 2
  MaxFaults = 1
  MaxCrashes = 1
  MaxRaces = 0
  CrashBeforePersist = FALSE
  None = None
SYMMETRY Symmetry
INVARIANTS AgreedIsEarned OneStory VerdictIsKept NothingStranded
CHECK_DEADLOCK FALSE
