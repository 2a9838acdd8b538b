SPECIFICATION Spec
CONSTANTS
  o1 = o1
  o2 = o2
  c1 = c1
  c2 = c2
  None = None
  Orders = {o1, o2}
  Captains = {c1, c2}
  Keys = {k1, k2, k3, k4}
  Payouts = {p1, p2}
  Cash <- MCCash
  Fee <- MCFee
  TopUps = {2}
  MaxBalance = 4
SYMMETRY Symmetry
CHECK_DEADLOCK FALSE
INVARIANTS
  TypeOK
  NeverOverdrawn
  CollectedCashCovered
  ChargedOnce
  ReceivableIsUndebitedCash
  OnlyEarningsPaidOut
  EarnerIsCollector
PROPERTIES
  CoverEndsByDebit
