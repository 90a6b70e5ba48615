---------------------------- MODULE MCPaymentFlow ----------------------------
(***************************************************************************)
(* A small instance of PaymentFlow for TLC.  Banks and message ids are     *)
(* interchangeable, and every property that is checked is an invariant.    *)
(***************************************************************************)
EXTENDS PaymentFlow

Symmetry == Permutations(Banks) \cup Permutations(Messages)

===============================================================================
