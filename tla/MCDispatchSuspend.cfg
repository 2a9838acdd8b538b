SPECIFICATION Spec
CONSTANTS
  o1 = o1
  None = None
  Orders = {o1, o2}
  Captains = {c1, c2}
  Mode <- MCMode
  MaxOffers = 1
SYMMETRY Symmetry
CHECK_DEADLOCK FALSE
INVARIANTS
  SuspendedHoldsNoOffer
