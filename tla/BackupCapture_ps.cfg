SPECIFICATION Spec
CONSTANTS
  Faults = {"ps"}
  MaxRuns = 1
  MaxWrites = 1
  MaxCrashes = 0
INVARIANT PairsConsistent
CHECK_DEADLOCK FALSE
