-------------------------- MODULE MCCartCheckout --------------------------
(* One cart, two totals, two attempts, two copies of a request. *)
EXTENDS CartCheckout, TLC

Symmetry == Permutations(Copy)
=============================================================================
