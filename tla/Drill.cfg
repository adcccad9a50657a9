\* An earlier run, the recovery of the watchdog and the return of the drill; persons
\* dispatch runs before the guard, in the 25 minutes after it and in every wait, and
\* every fault may happen.
SPECIFICATION DrillSpec
CONSTANTS
  MaxRuns = 3
  Faults = {"outage", "listing", "answer", "read", "unsaved", "command"}
  Present = {"guard", "writes", "wait", "lookup", "await"}
INVARIANTS
  DrillTypeOK
  DrillEndsOnPrimary
  OneReturn
  PassedMeansRecovered
 
