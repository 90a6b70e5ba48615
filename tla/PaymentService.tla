---------------------------- MODULE PaymentService ----------------------------
(***************************************************************************)
(* The PaymentService contract: trustlines between pairs of addresses, one *)
(* per currency, kept in the order of the two addresses, with one action   *)
(* per state-changing function.  A contract call is one transaction and is *)
(* atomic.  int is a machine integer: arithmetic wraps at MaxInt.          *)
(*                                                                         *)
(* receipt holds the sender and the event logs of the last transaction.    *)
(* replayed, peakLimit and peakAllow are history variables: no action      *)
(* reads them, the properties do.                                          *)
(***************************************************************************)
EXTENDS Integers, Sequences

CONSTANTS
  Banks,        \* the accounts that send transactions: positive numbers
  Currencies,
  Amounts,      \* the int arguments callers pass, negative ones included
  MessageIds,   \* identifiers callers give their payments
  Calls,        \* the pairs <<msg.sender, them>> that are exercised
  MaxInt        \* the largest int (2^255 - 1 on the virtual machine)

ZeroAddress == 0
Addresses == Banks \cup {ZeroAddress}
Int256 == (-MaxInt - 1) .. MaxInt

ASSUME BanksAssumption == Banks \subseteq Nat \ {0}
ASSUME MaxIntAssumption == MaxInt \in Nat \ {0}
ASSUME AmountsAssumption == Amounts \subseteq Int256

VARIABLES
  trustlines,   \* the contract's storage
  receipt,      \* sender and logs of the last transaction
  replayed,     \* debts an observer adds up from PaymentMessage events alone
  peakLimit,    \* the highest limit the near end ever set on the far end
  peakAllow     \* the highest allowance the near end ever set for itself

vars == <<trustlines, receipt, replayed, peakLimit, peakAllow>>

-------------------------------------------------------------------------------
(* Storage: struct TrustlineValue for every ordered pair of addresses.     *)

Lines == Addresses \X Addresses \X Currencies
StoredLines == {line \in Lines : line[1] <= line[2]}

AllowLimit == [allow : Int256, limit : Int256]

TrustlineValue ==
  [p2OwesP1Amount : Int256, p2OwesP1 : AllowLimit, p1OwesP2 : AllowLimit]

\* The result of int arithmetic on two ints: it wraps, it never fails.
Wrap(n) ==
  IF n > MaxInt THEN n - 2 * (MaxInt + 1)
  ELSE IF n < -MaxInt - 1 THEN n + 2 * (MaxInt + 1)
  ELSE n

SenderIsP1Against(us, them) == us < them

\* getTrustlineValue: where the trustline of the two is stored.
Stored(us, them, ccy) ==
  IF SenderIsP1Against(us, them) THEN <<us, them, ccy>> ELSE <<them, us, ccy>>

\* The struct member for our debt to them, and for their debt to us.
WeOwe(us, them) ==
  IF SenderIsP1Against(us, them) THEN "p1OwesP2" ELSE "p2OwesP1"
TheyOwe(us, them) ==
  IF SenderIsP1Against(us, them) THEN "p2OwesP1" ELSE "p1OwesP2"

\* The constant functions, on a given state of the storage: the limit we set
\* on them and our allowance, and with reverse those of the other party; our
\* debt to them.
GetLimit(storage, us, them, ccy) ==
  LET tlv == storage[Stored(us, them, ccy)]
  IN  IF SenderIsP1Against(us, them) THEN tlv.p2OwesP1.limit ELSE tlv.p1OwesP2.limit

GetReverseLimit(storage, us, them, ccy) ==
  LET tlv == storage[Stored(us, them, ccy)]
  IN  IF SenderIsP1Against(us, them) THEN tlv.p1OwesP2.limit ELSE tlv.p2OwesP1.limit

GetAllow(storage, us, them, ccy) ==
  LET tlv == storage[Stored(us, them, ccy)]
  IN  IF SenderIsP1Against(us, them) THEN tlv.p1OwesP2.allow ELSE tlv.p2OwesP1.allow

GetReverseAllow(storage, us, them, ccy) ==
  LET tlv == storage[Stored(us, them, ccy)]
  IN  IF SenderIsP1Against(us, them) THEN tlv.p2OwesP1.allow ELSE tlv.p1OwesP2.allow

\* Mutant of the next definition: the same sign for both ends.
GetAmountOwedToUnsigned(storage, us, them, ccy) ==
  storage[Stored(us, them, ccy)].p2OwesP1Amount

GetAmountOwedTo(storage, us, them, ccy) ==
  LET amount == storage[Stored(us, them, ccy)].p2OwesP1Amount
  IN  IF SenderIsP1Against(us, them) THEN Wrap(-amount) ELSE amount

\* Mutant of a next definition: the direction of debt mixed up.
WithAllowOnTheirDebt(storage, us, them, ccy, amount) ==
  [storage EXCEPT ![Stored(us, them, ccy)][TheyOwe(us, them)].allow = amount]

\* The assignments to one trustline: the limit we set on them, our allowance,
\* the balance as it is stored.
WithLimit(storage, us, them, ccy, amount) ==
  [storage EXCEPT ![Stored(us, them, ccy)][TheyOwe(us, them)].limit = amount]

WithAllow(storage, us, them, ccy, amount) ==
  [storage EXCEPT ![Stored(us, them, ccy)][WeOwe(us, them)].allow = amount]

WithBalance(storage, us, them, ccy, amount) ==
  [storage EXCEPT ![Stored(us, them, ccy)].p2OwesP1Amount = amount]

-------------------------------------------------------------------------------
(* Events.  The texts of ResultMessage and the free-form properties of     *)
(* PaymentMessage are left out.                                            *)

\* Mutant of the next definition: the two allowances change places.
TrustlineModifiedSwapped(p1, p2, ccy, trustType, fwdLimit, revLimit, fwdAllow, revAllow) ==
  [event |-> "TrustlineModified", p1 |-> p1, p2 |-> p2, ccy |-> ccy,
   trustType |-> trustType, forwardLimit |-> fwdLimit, reverseLimit |-> revLimit,
   forwardAllow |-> revAllow, reverseAllow |-> fwdAllow]

TrustlineModified(p1, p2, ccy, trustType, fwdLimit, revLimit, fwdAllow, revAllow) ==
  [event |-> "TrustlineModified", p1 |-> p1, p2 |-> p2, ccy |-> ccy,
   trustType |-> trustType, forwardLimit |-> fwdLimit, reverseLimit |-> revLimit,
   forwardAllow |-> fwdAllow, reverseAllow |-> revAllow]

PaymentMessage(fromBank, toBank, messageId, amount, ccy) ==
  [event |-> "PaymentMessage", fromBank |-> fromBank, toBank |-> toBank,
   messageId |-> messageId, amount |-> amount, ccy |-> ccy]

ResultMessage(fromBank, messageId, errorType) ==
  [event |-> "ResultMessage", fromBank |-> fromBank, messageId |-> messageId,
   errorType |-> errorType]

\* The transaction of us ends with these logs.
Emit(us, logs) == receipt' = [from |-> us, logs |-> logs]

Larger(a, b) == IF a > b THEN a ELSE b

\* History: what the observer makes of an accepted payment.
Replay(us, them, ccy, amount) ==
  replayed' = [replayed EXCEPT ![<<us, them, ccy>>] = @ + amount,
                               ![<<them, us, ccy>>] = @ - amount]

-------------------------------------------------------------------------------
Init ==
  /\ trustlines = [line \in StoredLines |->
                     [p2OwesP1Amount |-> 0,
                      p2OwesP1 |-> [allow |-> 0, limit |-> 0],
                      p1OwesP2 |-> [allow |-> 0, limit |-> 0]]]
  /\ receipt = [from |-> ZeroAddress, logs |-> <<>>]
  /\ replayed  = [line \in Lines |-> 0]
  /\ peakLimit = [line \in Lines |-> 0]
  /\ peakAllow = [line \in Lines |-> 0]

\* setLimit with an acceptable amount: no event when nothing changes, and
\* the event is emitted before the assignment.
SetLimit(us, them, ccy, amount) ==
  LET line == Stored(us, them, ccy)
      tlv  == trustlines[line]
      ours == tlv[WeOwe(us, them)]
      theirs == tlv[TheyOwe(us, them)]
  IN  /\ amount >= 0
      /\ Emit(us, IF theirs.limit = amount THEN <<>>
                  ELSE <<TrustlineModified(us, them, ccy, "limit", amount,
                           ours.limit, ours.allow, theirs.allow)>>)
      /\ trustlines' = WithLimit(trustlines, us, them, ccy, amount)
      /\ peakLimit' = [peakLimit EXCEPT ![<<us, them, ccy>>] = Larger(@, amount)]
      /\ UNCHANGED <<replayed, peakAllow>>

\* setAllow with an acceptable amount.  The parties of the event change
\* places when the sender is p2.
SetAllow(us, them, ccy, amount) ==
  LET line == Stored(us, them, ccy)
      tlv  == trustlines[line]
      ours == tlv[WeOwe(us, them)]
      theirs == tlv[TheyOwe(us, them)]
  IN  /\ amount >= 0
      /\ Emit(us, IF ours.allow = amount THEN <<>>
                  ELSE <<TrustlineModified(line[1], line[2], ccy, "allow",
                           theirs.limit, ours.limit, amount, ours.allow)>>)
      /\ trustlines' = WithAllow(trustlines, us, them, ccy, amount)
      /\ peakAllow' = [peakAllow EXCEPT ![<<us, them, ccy>>] = Larger(@, amount)]
      /\ UNCHANGED <<replayed, peakLimit>>

\* setLimit and setAllow return false on a negative amount.
RefuseNegativeGrant(us, amount) ==
  /\ amount < 0
  /\ Emit(us, <<>>)
  /\ UNCHANGED <<trustlines, replayed, peakLimit, peakAllow>>

\* Mutant of the next definition: a negative payment is not refused.
PaymentErrorNegativeAllowed(us, them, amount) ==
  IF them = ZeroAddress THEN 1 ELSE IF them = us THEN 2 ELSE 0

\* The checks of sendPayment that precede any look at the trustline.
PaymentError(us, them, amount) ==
  IF them = ZeroAddress THEN 1
  ELSE IF them = us THEN 2
  ELSE IF amount < 0 THEN 3
  ELSE 0

\* Mutant of the next definition: p2's payments move the balance p1's way.
NewAmountOneWay(us, them, ccy, amount) ==
  Wrap(trustlines[Stored(us, them, ccy)].p2OwesP1Amount - amount)

\* The balance a payment leads to, from p1's point of view as it is stored.
NewAmount(us, them, ccy, amount) ==
  LET balance == trustlines[Stored(us, them, ccy)].p2OwesP1Amount
  IN  IF SenderIsP1Against(us, them) THEN Wrap(balance - amount)
      ELSE Wrap(balance + amount)

\* Mutants of the next definition: the receiver's limit is not looked at, and
\* the grants for the receiver's debt are taken.
WithinAllowance(us, them, ccy, amount) ==
  LET newAmount == NewAmount(us, them, ccy, amount)
      newDebt == IF SenderIsP1Against(us, them) THEN Wrap(-newAmount) ELSE newAmount
  IN  newDebt <= trustlines[Stored(us, them, ccy)][WeOwe(us, them)].allow
WithinOtherGrants(us, them, ccy, amount) ==
  LET newAmount == NewAmount(us, them, ccy, amount)
      newDebt == IF SenderIsP1Against(us, them) THEN Wrap(-newAmount) ELSE newAmount
      theirs == trustlines[Stored(us, them, ccy)][TheyOwe(us, them)]
  IN  newDebt <= theirs.limit /\ newDebt <= theirs.allow

\* The limit test of sendPayment: the sender's new debt against the limit
\* them set on it and its own allowance.
WithinGrants(us, them, ccy, amount) ==
  LET newAmount == NewAmount(us, them, ccy, amount)
      newDebt == IF SenderIsP1Against(us, them) THEN Wrap(-newAmount) ELSE newAmount
      ours == trustlines[Stored(us, them, ccy)][WeOwe(us, them)]
  IN  newDebt <= ours.limit /\ newDebt <= ours.allow

AcceptPayment(us, them, ccy, amount, messageId) ==
  /\ PaymentError(us, them, amount) = 0
  /\ WithinGrants(us, them, ccy, amount)
  /\ trustlines' = WithBalance(trustlines, us, them, ccy,
                               NewAmount(us, them, ccy, amount))
  /\ Emit(us, <<PaymentMessage(us, them, messageId, amount, ccy),
                ResultMessage(us, messageId, 0)>>)
  /\ Replay(us, them, ccy, amount)
  /\ UNCHANGED <<peakLimit, peakAllow>>

RejectPayment(us, them, ccy, amount, messageId) ==
  LET error == PaymentError(us, them, amount)
  IN  /\ error = 0 => ~WithinGrants(us, them, ccy, amount)
      /\ Emit(us, <<ResultMessage(us, messageId, IF error = 0 THEN 4 ELSE error)>>)
      /\ UNCHANGED <<trustlines, replayed, peakLimit, peakAllow>>

Next ==
  \E us \in Banks, them \in Addresses, ccy \in Currencies, amount \in Amounts :
    /\ <<us, them>> \in Calls
    /\ \/ SetLimit(us, them, ccy, amount)
       \/ SetAllow(us, them, ccy, amount)
       \/ RefuseNegativeGrant(us, amount)
       \/ \E messageId \in MessageIds :
            \/ AcceptPayment(us, them, ccy, amount, messageId)
            \/ RejectPayment(us, them, ccy, amount, messageId)

Spec == Init /\ [][Next]_vars

-------------------------------------------------------------------------------
(* Properties                                                              *)

Reverse(line) == <<line[2], line[1], line[3]>>

\* The getters as both ends of a line see them.
Owed(storage, line) == GetAmountOwedTo(storage, line[1], line[2], line[3])
LimitSet(storage, line) == GetLimit(storage, line[1], line[2], line[3])
AllowSet(storage, line) == GetAllow(storage, line[1], line[2], line[3])

Events ==
  [event : {"TrustlineModified"}, p1 : Addresses, p2 : Addresses,
   ccy : Currencies, trustType : {"limit", "allow"}, forwardLimit : Int256,
   reverseLimit : Int256, forwardAllow : Int256, reverseAllow : Int256]
  \cup [event : {"PaymentMessage"}, fromBank : Banks, toBank : Addresses,
        messageId : MessageIds, amount : Int256, ccy : Currencies]
  \cup [event : {"ResultMessage"}, fromBank : Banks,
        messageId : MessageIds, errorType : 0 .. 4]

\* The storage holds ints for every pair, the last receipt is well formed and
\* the histories are numbers (the bookkeeping of getTrustlineValue and of the
\* events of every function).
TypeOK ==
  /\ trustlines \in [StoredLines -> TrustlineValue]
  /\ receipt.from \in Addresses
  /\ \A i \in DOMAIN receipt.logs : receipt.logs[i] \in Events
  /\ replayed \in [Lines -> Int]
  /\ peakLimit \in [Lines -> Nat]
  /\ peakAllow \in [Lines -> Nat]

\* The PaymentMessage events tell the whole story of the balances: whoever
\* adds them up, starting from zero, arrives at what getAmountOwedTo answers
\* at both ends of every trustline.  sendPayment emits the event exactly when
\* it moves the balance, and by the same amount and in the same direction.
BalancesReplayEvents ==
  \A line \in Lines : Owed(trustlines, line) = replayed[line]

\* No debt without consent: a bank never owes more than the highest limit its
\* creditor ever set for it, nor more than the highest allowance it ever gave
\* itself.  (It may owe more than their present values: setLimit and setAllow
\* do not look at the balance.)
DebtBackedByGrants ==
  \A line \in Lines :
    /\ Owed(trustlines, line) <= peakAllow[line]
    /\ Owed(trustlines, line) <= peakLimit[Reverse(line)]

\* The limit test of sendPayment, made on wrapping arithmetic in the stored
\* order of the addresses, says what comment and documentation promise: a
\* payment is within the limits iff the debt it leads to exceeds neither the
\* limit the receiver has set nor the allowance of the sender.
AcceptsExactlyWithinGrants ==
  \A us \in Banks, them \in Banks, ccy \in Currencies, amount \in Amounts :
    us # them /\ amount >= 0 =>
      (WithinGrants(us, them, ccy, amount)
       <=> /\ Owed(trustlines, <<us, them, ccy>>) + amount <= LimitSet(trustlines, <<them, us, ccy>>)
           /\ Owed(trustlines, <<us, them, ccy>>) + amount <= AllowSet(trustlines, <<us, them, ccy>>))

\* Nobody can run up a bank's debt but the bank itself: in every transaction
\* the debts that grow are those of the sender.
OnlyDebtorRaisesDebt ==
  [][\A line \in Lines : Owed(trustlines', line) > Owed(trustlines, line) => receipt'.from = line[1]]_vars

\* A limit is changed only by the creditor that set it and an allowance only
\* by the debtor that gave it, whichever of the two is p1 in the storage.
GrantsChangedOnlyByGrantor ==
  [][\A line \in Lines :
       \/ LimitSet(trustlines', line) # LimitSet(trustlines, line)
       \/ AllowSet(trustlines', line) # AllowSet(trustlines, line)
       => receipt'.from = line[1]]_vars

\* The four amounts of a TrustlineModified event are those of the trustline,
\* forward ones as its party p1 has set them, reverse ones as p2 has.
Describes(e) ==
  /\ e.forwardLimit = GetLimit(trustlines, e.p1, e.p2, e.ccy)
  /\ e.reverseLimit = GetReverseLimit(trustlines, e.p1, e.p2, e.ccy)
  /\ e.forwardAllow = GetAllow(trustlines, e.p1, e.p2, e.ccy)
  /\ e.reverseAllow = GetReverseAllow(trustlines, e.p1, e.p2, e.ccy)

EventsDescribe(trustType) ==
  \A i \in DOMAIN receipt.logs :
    LET e == receipt.logs[i]
    IN  e.event = "TrustlineModified" /\ e.trustType = trustType => Describes(e)

\* A listener that copies the amounts of the event setLimit emits knows the
\* trustline as it is after the transaction.
LimitEventsDescribeTrustline == EventsDescribe("limit")

\* The same of the event setAllow emits, which carries the parameters
\* forwardAllow and reverseAllow of the same declaration.
AllowEventsDescribeTrustline == EventsDescribe("allow")

===============================================================================
