SPECIFICATION Spec
CONSTANTS
  None = None
  Orders = {o1}
  Captains = {c1}
  Mode <- MCMode
  MaxOffers = 1
  Cash <- MCCash
  Fee <- MCFee
  Opening <- MCOpening
  Requests = {r1}
  MaxFaults = 1
SYMMETRY Symmetry
CHECK_DEADLOCK FALSE
INVARIANTS
  HoldAccounted
