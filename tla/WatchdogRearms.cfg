SPECIFICATION Spec
CONSTANT MaxRuns = 3
PROPERTY FailedStartWaitsForSuccess
