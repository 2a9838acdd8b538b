SPECIFICATION Spec
CONSTANTS
  Session = {s1}
  NoSession = NoSession
  Caller = {1, 2}
  MaxGen = 2
  MaxReq = 5
  MaxFaults = 1
CHECK_DEADLOCK FALSE
INVARIANTS
  RecoverableAtRest
