SPECIFICATION LsmSpec
CONSTANTS
  Key = {k1}
  Compactor = {"compact1"}
  max_records_in_mem_table = 0
  MaxSeqNo = 4
  MaxFileNo = 2
  MaxRestarts = 0
INVARIANT SSTablesImmutable
CHECK_DEADLOCK FALSE
