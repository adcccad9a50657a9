\* Every failure, resume, return and reset over two recoveries, two environments
\* and two primary sets; a recovery is run again until it is complete. Runs go up
\* to the check before the fence, or through the last stage. The moves of GapNames
\* are not made.
SPECIFICATION RerunSpec
CONSTANTS
  MaxRuns = 2
  MaxEnvs = 2
  MaxSets = 2
  Throughs = {6, 10}
  Gaps <- NoGaps
INVARIANTS
  TypeOK
  CutoverIsFenced
  FenceOutlastsBackups
  NamesPointAtLive
  ServesRestoredData
  HeadIsOfTheSet
  NoSetBeforeCutover
  CompleteMeansServing
  ReturnEndsOnPrimary
PROPERTIES
  OnlyRecordedRemoved
  HandoverSpec
  EveryRunEnds
  RecoveryCompletes
