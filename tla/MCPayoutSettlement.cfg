\* Two payouts of one partner, two batches that may share rows, two operators.
SPECIFICATION Spec
CONSTANTS
  owner = owner
  Payouts = {p1, p2}
  Beneficiaries = {owner}
  BeneficiaryOf <- MCBeneficiaryOf
  Batches = {b1, b2}
  Operators = {f1, f2}
  MaxVersion = 2
  None = None
SYMMETRY Alike
INVARIANTS
  TypeOK
  HoldFollowsPayout
  TransferFollowsPayout
  InstructionsAreHeld
  CompletedBatchIsPaid
  PaidByIndependentHands
PROPERTIES
  CompletedBatchStays
  PromiseKept
\* Every payout may end and the bounds on ids and versions are then reached.
CHECK_DEADLOCK FALSE
