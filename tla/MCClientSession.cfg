SPECIFICATION FairSpec
CONSTANTS
  Session = {s1}
  NoSession = NoSession
  Caller = {1, 2}
  MaxGen = 1
  MaxReq = 2
  MaxFaults = 1
CHECK_DEADLOCK FALSE
INVARIANTS
  Recoverable
  HonestDeviceTrusted
PROPERTIES
  WebLogoutTerminal
  LogoutEnds
