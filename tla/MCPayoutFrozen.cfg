\* See FrozenPayoutExecutable.
SPECIFICATION Spec
CONSTANTS
  owner = owner
  Payouts = {p1, p2}
  Beneficiaries = {owner}
  BeneficiaryOf <- MCBeneficiaryOf
  Batches = {b1, b2}
  Operators = {f1, f2}
  MaxVersion = 2
  None = None
SYMMETRY Alike
INVARIANT FrozenPayoutExecutable
CHECK_DEADLOCK FALSE
