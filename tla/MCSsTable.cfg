SPECIFICATION SsTableSpec
CONSTANTS
  Scan = {s1, s2}
  Records <- MCRecords
  Ranges <- MCRanges
  page_size = 4
  page_cache_capacity = 2
INVARIANTS SsTableTypeOK CacheConsistent SerialScansExact
PROPERTY ScanEnds
CHECK_DEADLOCK FALSE
