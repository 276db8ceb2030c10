SPECIFICATION Spec
CONSTANTS
  MaxRetries = 1
  Chunks = 2
INVARIANT FailureIsRecorded
CHECK_DEADLOCK FALSE
