--------------------------- MODULE MCCaptainWallet ---------------------------
(* CaptainWallet on two orders, two captains and a few reservation keys. *)
EXTENDS CaptainWallet, TLC

CONSTANTS o1, o2, c1, c2

MCCash == (o1 :> 2) @@ (o2 :> 1)
MCFee  == (o1 :> 1) @@ (o2 :> 1)

KeySymmetry == Permutations(Keys)
CaptainSymmetry == Permutations(Captains)
Symmetry == KeySymmetry \cup CaptainSymmetry
=============================================================================
