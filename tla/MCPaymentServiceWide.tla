------------------------- MODULE MCPaymentServiceWide -------------------------
(***************************************************************************)
(* The contract with amounts over the whole range of int, which is three   *)
(* bits wide here: -4 .. 3.                                                *)
(***************************************************************************)
EXTENDS PaymentService

TwoBanks == {1, 2}
EachOther == {<<1, 2>>, <<2, 1>>}
WideAmounts == Int256

===============================================================================
