-------------------------- MODULE MCCaptainDelivery --------------------------
EXTENDS CaptainDelivery, TLC

(* The copies of a request differ in nothing but their place.              *)
Symmetry == Permutations(Copy)
=============================================================================
