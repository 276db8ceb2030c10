SPECIFICATION Spec
CONSTANTS
  t1 = t1
  t2 = t2
  Tenants = {t1, t2}
  x1 = x1
  x2 = x2
  x3 = x3
  Texts = {x1, x2, x3}
  Printed <- PrintSet
  Attempts = 2
  Requests = {r1, r2}
  Budget <- Budgets
  Usages <- UsageSet
  Unit = 10000
  MaxAge = 2
  MaxOp = 1
  MaxTime = 3
  Traffic = 2
INVARIANTS TypeOK OwnAnswer ChargedForCalls
PROPERTIES BudgetLag RefusalIsEarned
SYMMETRY Symmetry
CHECK_DEADLOCK FALSE
