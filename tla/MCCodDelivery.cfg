SPECIFICATION FairSpec
CONSTANTS
  None = None
  Orders = {o1}
  Captains = {c1, c2}
  Mode <- MCMode
  MaxOffers = 1
  Cash <- MCCash
  Fee <- MCFee
  Opening <- MCOpening
  Requests = {r1}
  MaxFaults = 1
CHECK_DEADLOCK FALSE
INVARIANTS
  OnlyDelivererIsCharged
  HoldAccountedUnlessFault
  PaidMeansSettled
PROPERTIES
  CoveredDeliverySettles
  OffersEnd
