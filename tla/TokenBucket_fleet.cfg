SPECIFICATION Spec
CONSTANTS
  t1 = t1
  t2 = t2
  Nodes = {n1, n2}
  Tenants = {t1}
  Limit <- LimitFleet
  TicksPerMinute = 2
  MaxTime = 2
PROPERTY GlobalConsistency
