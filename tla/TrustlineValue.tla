---------------------------- MODULE TrustlineValue ----------------------------
(***************************************************************************)
(* The promise of a trustline, as the Java domain class TrustlineValue     *)
(* makes it: two parties, an unbounded balance that is equal and opposite  *)
(* seen from its two ends (reverse()), and for each direction of debt the  *)
(* limit its creditor sets and the allowance its debtor sets.  A payment   *)
(* is booked at the creditor's end and may not take the debt beyond        *)
(* either.                                                                 *)
(*                                                                         *)
(* Every quantity is indexed by a triple <<x, y, ccy>>: the view of the    *)
(* trustline from x's end, where x is the class's p1 and y its p2.  The    *)
(* class is the abstract specification that the contract (module           *)
(* PaymentService) is shown to implement.                                  *)
(***************************************************************************)
EXTENDS Integers

CONSTANTS
  Parties,     \* the parties of trustlines
  Currencies,
  Amounts      \* the amounts callers pass, negative ones included

VARIABLES
  balance,     \* balance[<<x, y, ccy>>]: what y owes x, negative when x owes y
  limit,       \* limit[<<x, y, ccy>>]: what x limits y to owing it
  allow        \* allow[<<x, y, ccy>>]: what x allows itself to owe y

vars == <<balance, limit, allow>>

\* A TrustlineKey refuses a trustline of a party with itself.
Lines == {line \in Parties \X Parties \X Currencies : line[1] # line[2]}

\* The same trustline from the other end: reverse().
Reverse(line) == <<line[2], line[1], line[3]>>

Init ==
  /\ balance = [line \in Lines |-> 0]
  /\ limit = [line \in Lines |-> 0]
  /\ allow = [line \in Lines |-> 0]

\* setLimit: a negative limit is refused with an exception.
SetLimit(line, amount) ==
  /\ amount >= 0
  /\ limit' = [limit EXCEPT ![line] = amount]
  /\ UNCHANGED <<balance, allow>>

\* setAllow: a negative allowance is refused with an exception.
SetAllow(line, amount) ==
  /\ amount >= 0
  /\ allow' = [allow EXCEPT ![line] = amount]
  /\ UNCHANGED <<balance, limit>>

\* sendPayment: the far end's debt to the near end grows, up to the smaller
\* of the limit of the near end and the allowance of the far end.
SendPayment(line, amount) ==
  LET newBalance == balance[line] + amount
  IN  /\ amount >= 0
      /\ newBalance <= limit[line]
      /\ newBalance <= allow[Reverse(line)]
      /\ balance' = [balance EXCEPT ![line] = newBalance, ![Reverse(line)] = -newBalance]
      /\ UNCHANGED <<limit, allow>>

Next ==
  \E line \in Lines, amount \in Amounts :
    \/ SetLimit(line, amount)
    \/ SetAllow(line, amount)
    \/ SendPayment(line, amount)

Spec == Init /\ [][Next]_vars

===============================================================================
