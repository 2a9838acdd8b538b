---------------------------- MODULE MCCodDelivery ----------------------------
(* One cash order, one or two captains with a funded wallet. *)
EXTENDS CodDelivery, TLC

MCMode == [o \in Orders |-> "BTHWANI_CAPTAIN"]
MCCash == [o \in Orders |-> 2]
MCFee == [o \in Orders |-> 1]
MCOpening == [c \in Captains |-> 2]

Symmetry == Permutations(Captains) \cup Permutations(Requests)
=============================================================================
