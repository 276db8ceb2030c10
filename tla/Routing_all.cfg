SPECIFICATION Spec
CONSTANTS
  Providers <- Three
  Requests = {r1, r2}
  Allowlists <- AllowSome
  Latencies = {0, 1, 3}
  MaxLatency = 3
  Past <- FivePast
  Traffic = 3
INVARIANTS TypeOK SelectsBest TripNeedsSevenErrors
PROPERTIES OnlyUsableIsHeld SelectionProgress
CHECK_DEADLOCK FALSE
