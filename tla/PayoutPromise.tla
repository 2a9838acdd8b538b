----------------------------- MODULE PayoutPromise -----------------------------
(***************************************************************************)
(* What WLT promises about the money of a payout, with no operators,       *)
(* batches or transfers: it is set aside once, until approval it may be    *)
(* given back, and from approval on the only way out is to be paid, once.  *)
(***************************************************************************)
CONSTANT Payouts

VARIABLE money   \* money[p]: what happened to the money of payout p

Init == money = [p \in Payouts |-> "FREE"]

Become(p, before, after) ==
  /\ money[p] = before
  /\ money' = [money EXCEPT ![p] = after]

Reserve(p)  == Become(p, "FREE", "RESERVED")
GiveBack(p) == Become(p, "RESERVED", "RETURNED")
Commit(p)   == Become(p, "RESERVED", "COMMITTED")
Pay(p)      == Become(p, "COMMITTED", "PAID")

Next == \E p \in Payouts : Reserve(p) \/ GiveBack(p) \/ Commit(p) \/ Pay(p)

Spec == Init /\ [][Next]_money
=============================================================================
