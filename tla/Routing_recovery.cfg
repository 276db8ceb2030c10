SPECIFICATION FairSpec
CONSTANTS
  Providers <- One
  Requests = {r1}
  Allowlists <- AllowAll
  Latencies = {1}
  MaxLatency = 1
  Past <- NoPast
  Traffic = 0
PROPERTY ReturnsToService
CHECK_DEADLOCK FALSE
