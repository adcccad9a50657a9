\* Five runs: two recoveries with their returns, and a rerun of any of them.
SPECIFICATION PipelineSpec
CONSTANTS
  MaxRuns = 5
  RecoverLast = 2
  RemoveStage = 2
  ReturnLast = 3
INVARIANTS
  PipelineTypeOK
  ResumesWhereItStopped
  ReturnLeavesNothing
  RecoverLeavesItsEnvironment
PROPERTY NothingLost
\* After MaxRuns runs nothing is dispatched.
CHECK_DEADLOCK FALSE
