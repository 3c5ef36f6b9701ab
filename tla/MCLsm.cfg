SPECIFICATION FairLsmSpec
CONSTANTS
  Key = {k1}
  Compactor = {"compact1", "compact2"}
  max_records_in_mem_table = 1
  MaxSeqNo = 4
  MaxFileNo = 2
  MaxRestarts = 1
INVARIANTS LsmTypeOK LayersOrdered ScanStartsAtNewest NoRecordLost PersistentNotOnlyInMemory LsmInv
PROPERTIES ImplementsVersionStore PersistentSurvivesRestart FrozenBecomesPersistent
CHECK_DEADLOCK FALSE
