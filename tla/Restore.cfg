\* Two sets of a primary that stores two writes, and a restore that is run again.
SPECIFICATION RestoreSpec
CONSTANTS
  MaxWrites = 2
  MaxNames = 2
  MaxJobs = 2
  Faults = {"list", "sidecar", "killed"}
INVARIANTS
  RestoreTypeOK
  CompleteSetsAreWhole
  FailedRestoreStaysStopped
  PassedRestoreIsOneSet
  NoSetOfPartialData
  LossIsSinceTheSets
\* After the last write, set and Job nothing is left to do.
CHECK_DEADLOCK FALSE
