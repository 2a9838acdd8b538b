--------------------------- MODULE MCPayoutSettlement ---------------------------
(* An instance of PayoutSettlement for TLC: see the .cfg files. *)
EXTENDS PayoutSettlement, TLC

CONSTANT owner

\* Every payout goes to one partner, for different stores.
MCBeneficiaryOf == [p \in Payouts |-> owner]

\* Payouts, batches and operators are interchangeable.
Alike == Permutations(Payouts) \cup Permutations(Batches) \cup Permutations(Operators)
=============================================================================
