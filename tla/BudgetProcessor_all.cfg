SPECIFICATION FairSpec
CONSTANTS
  Tenants = {t1, t2}
  Costs = {1, 3}
  Unit = 2
  BatchSize = 2
  MaxEvents = 3
  MaxCrashes = 1
INVARIANTS TypeOK NeverOvercharged TruncationBound
PROPERTIES CountedAtMostOnce IsLedger TopicIsRead
CHECK_DEADLOCK FALSE
