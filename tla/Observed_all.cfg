SPECIFICATION ObservedSpec
CONSTANTS
  MaxRetries = 2
  Window = 2
  Buffer = 2
  MaxEvents = 4
INVARIANTS ObservedTypeOK AtMostOneLateAttempt OutcomeIsConsistent PageInOrder
PROPERTIES RequestEnds KeepsLast HandedOutIsShown
CHECK_DEADLOCK FALSE
