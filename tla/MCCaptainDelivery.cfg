SPECIFICATION DeliveryFairSpec
CONSTANTS
  Copy = {c1, c2}
  MaxAttempt = 2
  MaxVersion = 5
  MaxFaults = 2
CHECK_DEADLOCK FALSE
INVARIANTS
  AttemptAccounted
  DecidedOnce
PROPERTIES
  AttemptResolvesUnlessMoved
