--------------------------- MODULE MCBillingQueue ---------------------------
(* A billing camera over a short video; the waits are scaled down, with    *)
(* the minimum stay still shorter than the window.                         *)
EXTENDS BillingQueue, TLC

Symmetric == Permutations(Visitors)
=============================================================================
