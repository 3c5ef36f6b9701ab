SPECIFICATION DbSpec
CONSTANTS
  Call = {c1, c2}
  kWalPageSize = 4
  MaxSegment = 9
  CleanerRuns = TRUE
  MaxWrites = 3
  MaxCrashes = 1
  MaxFailures = 1
SYMMETRY CallSymmetry
INVARIANTS DbTypeOK NumbersWithoutHoles SerialLogDurable
CHECK_DEADLOCK FALSE
