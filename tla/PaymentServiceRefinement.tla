----------------------- MODULE PaymentServiceRefinement -----------------------
(***************************************************************************)
(* The contract implements the trustlines of the Java domain class as long *)
(* as callers keep to half of the int range.  The getters of the contract  *)
(* are the refinement mapping; the class looks at a debt from the          *)
(* creditor's end, the contract from the debtor's.                         *)
(***************************************************************************)
EXTENDS PaymentService

CONSTANT MaxAmount  \* the largest amount any caller passes

\* Two amounts add up without wrapping.
ASSUME SmallAmounts ==
  /\ MaxAmount \in Nat
  /\ 2 * MaxAmount <= MaxInt
  /\ \A amount \in Amounts : amount <= MaxAmount

DistinctLines == {line \in Lines : line[1] # line[2]}

Promise == INSTANCE TrustlineValue WITH
  Parties <- Addresses,
  balance <- [line \in DistinctLines |-> Owed(trustlines, Reverse(line))],
  limit   <- [line \in DistinctLines |-> LimitSet(trustlines, line)],
  allow   <- [line \in DistinctLines |-> AllowSet(trustlines, line)]

\* Every transaction of the contract is a step of the ideal trustlines, whose
\* numbers are unbounded, or changes none of them.
ImplementsTrustlineValue == Promise!Spec

\* The bounds behind the absence of overflow: every grant is an amount some
\* caller passed, and no balance is beyond the grants that were ever given.
GrantsBounded ==
  \A line \in Lines :
    /\ LimitSet(trustlines, line) \in 0 .. MaxAmount
    /\ AllowSet(trustlines, line) \in 0 .. MaxAmount

BalancesBounded ==
  \A line \in Lines : Owed(trustlines, line) \in -MaxAmount .. MaxAmount

\* Every present grant is at most its peak.
GrantsWithinPeaks ==
  \A line \in Lines :
    /\ LimitSet(trustlines, line) <= peakLimit[line]
    /\ AllowSet(trustlines, line) <= peakAllow[line]

\* The inductive invariant: with it no addition of sendPayment wraps, and the
\* safety properties of the contract follow.
NoOverflow ==
  /\ TypeOK
  /\ GrantsBounded
  /\ BalancesBounded
  /\ GrantsWithinPeaks
  /\ BalancesReplayEvents
  /\ DebtBackedByGrants

===============================================================================
