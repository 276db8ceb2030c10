SPECIFICATION Spec
CONSTANTS
  t1 = t1
  t2 = t2
  Nodes = {n1}
  Tenants = {t1, t2}
  Limit <- LimitNode
  TicksPerMinute = 2
  MaxTime = 4
INVARIANTS TypeOK AdmissionBound WindowBound
