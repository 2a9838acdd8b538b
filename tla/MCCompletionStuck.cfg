SPECIFICATION DeliveryFairSpec
CONSTANTS
  Copy = {c1}
  MaxAttempt = 1
  MaxVersion = 5
  MaxFaults = 1
CHECK_DEADLOCK FALSE
PROPERTIES
  AttemptResolves
