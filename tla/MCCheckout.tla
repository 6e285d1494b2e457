------------------------------- MODULE MCCheckout -------------------------------
(* Checkout for TLC: requests are interchangeable.                         *)
EXTENDS Checkout, TLC

CONSTANTS r1, r2

MCRequests == {r1, r2}
Symmetry == Permutations(MCRequests)
===============================================================================
