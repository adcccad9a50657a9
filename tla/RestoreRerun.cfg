\* One set; the first restore fails after the database is dropped, and is run again.
SPECIFICATION RestoreSpec
CONSTANTS
  MaxWrites = 1
  MaxNames = 1
  MaxJobs = 2
  Faults = {}
INVARIANT NothingServesPartialRestore
\* After the last write, set and Job nothing is left to do.
CHECK_DEADLOCK FALSE
