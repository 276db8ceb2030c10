SPECIFICATION Spec
CONSTANTS
  n1 = n1
  n2 = n2
  c1 = c1
  c2 = c2
  Nodes = {n1, n2}
  Lookups = {c1, c2}
  Home <- HomeOf
  Ttl = 2
  Backfill = 2
  MaxBuf <- BufOf
  MaxOp = 1
  MaxTime = 7
INVARIANT TypeOK
PROPERTIES AgeIsBounded ServedDuringPartition IsRecordStore
CHECK_DEADLOCK FALSE
