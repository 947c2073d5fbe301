SPECIFICATION Spec
CONSTANTS
  Nodes = {n1, n2}
  Outputs = {a, b}
  N = 2
  MaxAttempts = 2
  MaxGroups = 2
  MaxFaults = 1
  MaxCrashes = 1
  MaxRaces = 0
  CrashBeforePersist = TRUE
  None = None
SYMMETRY Symmetry
INVARIANT VerdictIsKept
CHECK_DEADLOCK FALSE
