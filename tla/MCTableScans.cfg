SPECIFICATION ScanSpec
CONSTANTS
  Key = {1, 2}
  Tx = {t1, t2, t3}
  MaxRows = 3
  MaxJobs = 2
SYMMETRY TxSymmetry
INVARIANTS ScanTypeOK MergeOrdered  CompactionKeepsAnswers
CHECK_DEADLOCK FALSE
