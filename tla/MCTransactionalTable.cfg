SPECIFICATION FairTableSpec
CONSTANTS
  Key = {k1}
  Call = {c1, c2}
  MaxTx = 12
  Ops = {"upsert", "lookup", "delete", "begin", "commit", "rollback"}
  SerialTransactions = TRUE
INVARIANTS TableTypeOK LockTablesAgree NoLostWakeup WritersSerialized LookupNotStale  TableInv
 
CHECK_DEADLOCK FALSE
