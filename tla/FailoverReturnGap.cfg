\* A return runs after resume-backups failed past its first command.
SPECIFICATION Spec
CONSTANTS
  MaxRuns = 1
  MaxEnvs = 1
  MaxSets = 2
  Throughs = {6, 10}
  Gaps <- ReturnGap
INVARIANTS
  FenceOutlastsBackups
