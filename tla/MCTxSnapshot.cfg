SPECIFICATION TableSpec
CONSTANTS
  Key = {k1}
  Call = {c1, c2, c3}
  MaxTx = 11
  Ops = {"upsert", "lookup", "begin"}
  SerialTransactions = TRUE
SYMMETRY TableSymmetry
INVARIANTS SnapshotReads
CHECK_DEADLOCK FALSE
