SPECIFICATION Spec
CONSTANTS
  MaxRetries = 1
  Chunks = 3
INVARIANT PipesRemainingChunks
CHECK_DEADLOCK FALSE
