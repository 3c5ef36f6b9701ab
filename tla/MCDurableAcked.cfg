SPECIFICATION DbSpec
CONSTANTS
  Call = {c1, c2}
  kWalPageSize = 4
  MaxSegment = 9
  CleanerRuns = TRUE
  MaxWrites = 3
  MaxCrashes = 0
  MaxFailures = 0
INVARIANT AckedSurvivesCrash
CHECK_DEADLOCK FALSE
