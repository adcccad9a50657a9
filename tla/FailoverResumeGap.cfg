\* A recovery is resumed that a failed return has begun to undo.
SPECIFICATION Spec
CONSTANTS
  MaxRuns = 1
  MaxEnvs = 1
  MaxSets = 2
  Throughs = {6, 10}
  Gaps <- ResumeGap
INVARIANTS
  CutoverIsFenced
