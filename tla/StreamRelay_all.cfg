SPECIFICATION FairSpec
CONSTANTS
  MaxRetries = 2
  Chunks = 3
INVARIANTS TypeOK SingleAttemptPrefix RelayStuckOnlyIfClientGone ServedProducerEnds ContextsReleased HandlerIsServed
CHECK_DEADLOCK FALSE
PROPERTIES StreamEnds IsRetriedStream
