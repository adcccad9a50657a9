\* One copy of the run state from the bucket fails.
SPECIFICATION DrillSpec
CONSTANTS
  MaxRuns = 2
  Faults = {"read"}
  Present = {}
INVARIANT PassedEndsOnPrimary
