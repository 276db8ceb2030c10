SPECIFICATION FairSpec
CONSTANTS
  Tenants = {t1}
  Costs = {1}
  Unit = 2
  BatchSize = 3
  MaxEvents = 2
  MaxCrashes = 0
PROPERTY PendingIsFlushed
CHECK_DEADLOCK FALSE
