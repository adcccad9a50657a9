\* Two runs of one cluster or of two: the second may follow a first that was killed.
SPECIFICATION TunnelsSpec
CONSTANTS
  Runs = {r1, r2}
  Clusters = {primary, recovery}
  Targets = 2
INVARIANTS
  TunnelsTypeOK
  AllReaped
  ReachesItsOwnCluster
PROPERTY WaitsEnd
\* Every run ends.
CHECK_DEADLOCK FALSE
