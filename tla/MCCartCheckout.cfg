SPECIFICATION FairSpec
CONSTANTS
  Price = {1, 2}
  Copy = {c1, c2}
  MaxAttempt = 2
  MaxEdits = 2
  MaxFaults = 2
  Reopen = FALSE
CHECK_DEADLOCK FALSE
INVARIANTS
  OneOrder
  ConfirmedTotal
  IntentAccounted
PROPERTIES
  Resolves
