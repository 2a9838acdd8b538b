------------------------------ MODULE MCDispatch ------------------------------
(* Dispatch with platform orders and one store-delivered order. *)
EXTENDS Dispatch, TLC

CONSTANTS o1   \* the platform order

MCMode == [o \in Orders |-> IF o = o1 THEN "BTHWANI_CAPTAIN" ELSE "PARTNER_CAPTAIN"]

Symmetry == Permutations(Captains)
=============================================================================
