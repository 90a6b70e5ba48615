--------------------------- MODULE MCPaymentService ---------------------------
(***************************************************************************)
(* Instances of the contract for TLC, with amounts that cannot overflow.   *)
(***************************************************************************)
EXTENDS PaymentServiceRefinement

TwoBanks == {1, 2}

\* Two banks that deal with each other, one of them with itself as well.
EachOther == {<<1, 2>>, <<2, 1>>}
AndItself == EachOther \cup {<<1, 1>>}
UnitAmounts == {-1, 0, 1}

===============================================================================
