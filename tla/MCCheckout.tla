------------------------------ MODULE MCCheckout ------------------------------
(* An instance of Checkout.                                                *)
EXTENDS Checkout, TLC

CONSTANTS p1, p2

\* Nothing depends on which product is which.
Symmetry == Permutations(Products)
=============================================================================
