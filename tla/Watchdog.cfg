SPECIFICATION FairSpec
CONSTANT MaxRuns = 4
INVARIANTS
  WatchdogTypeOK
  OneAutomaticRun
PROPERTIES
  FailedStartWaits
  DueStartHappens
