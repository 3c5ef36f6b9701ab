SPECIFICATION CatalogSpec
CONSTANTS
  Client = {c1, c2}
  Key = {"t", "sys_tables"}
  MaxTx = 12
  MaxRestarts = 1
  MaxFailures = 1
INVARIANTS
  CatalogTypeOK
  
  NoDoubleCreate
  OneOwner
  

  
CHECK_DEADLOCK FALSE
