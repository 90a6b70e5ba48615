----------------------------- MODULE PaymentFlow -----------------------------
(***************************************************************************)
(* A payment from end to end: the services of several banks                *)
(* (PaymentServiceImpl), the registrar that maps BICs to banks, and the    *)
(* contract.                                                               *)
(*                                                                         *)
(* The layers below are used in the form their own modules establish:      *)
(* transactions of a bank are mined in the order they were queued, and     *)
(* none after one that was dropped (TransactionSubmission); events are     *)
(* fired in the order of the chain, each once per process, for blocks that *)
(* no reorganisation takes back, while calls see the latest block          *)
(* (PendingEvents); a payment is refused for an address that is zero or    *)
(* the sender's, or for limits, which count for any answer here            *)
(* (PaymentService).                                                       *)
(***************************************************************************)
EXTENDS Integers, Sequences, FiniteSets, SequencesExt

CONSTANTS
  Banks,          \* the services, and the accounts of the node they use
  Bics,
  Messages,       \* the ids that are drawn for payments
  NoBank,         \* the zero address, which an unknown BIC resolves to
  MaxFaults       \* bound on reorganisations, failures and restarts together

ASSUME NamesAssumption == NoBank \notin Banks
ASSUME MaxFaultsAssumption == MaxFaults \in Nat

VARIABLES
  chain,            \* what is mined: transactions with the contract's answer
  queued,           \* per bank, its transactions on their way, in order
  stuck,            \* the banks whose later transactions wait behind a gap
  handled,          \* per bank, how far its service has fired the events
  final,            \* how much of the chain no reorganisation takes back
  payment,          \* what is known of each message id
  future,           \* per message id, the caller's future
  pendingPayments,  \* per bank, the ids that wait for a ResultMessage
  received,         \* per bank, the payments its listener was told
  registration,     \* per bank and BIC, how far registerBic is
  registered,       \* history: all banks a BIC ever was registered for
  lost,             \* history: events lost to a listener's exception
  reorgs, failures, restarts

serviceVars == <<payment, future, pendingPayments, received, registration>>
historyVars == <<registered, lost>>
counters == <<reorgs, failures, restarts>>
vars == <<chain, queued, stuck, handled, final, serviceVars, historyVars, counters>>

MayFail == reorgs + failures + restarts < MaxFaults

NoPayment == [from |-> NoBank, toBic |-> "none", to |-> NoBank]

\* Transactions: sendPayment of the contract, setAddress of the registrar.
Pay(m) == [kind |-> "pay", id |-> m]
SetAddress(bank, bic) == [kind |-> "setAddress", bank |-> bank, bic |-> bic]

\* A transaction that is mined but fails, out of gas for one, changes nothing
\* and emits no event.
NoResult == 5

\* getAddress of the registrar at the latest block.
GetAddress(log, bic) ==
  LET set == {i \in DOMAIN log :
                log[i].tx.kind = "setAddress" /\ log[i].tx.bic = bic /\ log[i].errorType = 0}
  IN  IF set = {} THEN NoBank ELSE log[Max(set)].tx.bank

\* The error types of ResultMessage that the contract may answer with, 3 to an
\* amount that is negative for it.
ErrorTypes(m) ==
  IF payment[m].to = NoBank THEN {1}
  ELSE IF payment[m].to = payment[m].from THEN {2}
  ELSE {0, 3, 4}

\* A bank's next transaction goes behind its others, and behind a gap in its
\* nonces it waits for ever.
Queue(b, tx) ==
  queued' = IF b \in stuck THEN queued ELSE [queued EXCEPT ![b] = Append(@, tx)]

\* What becomes of a transaction that is mined.
Answers(tx) ==
  (IF tx.kind = "pay" THEN ErrorTypes(tx.id) ELSE {0}) \cup (IF MayFail THEN {NoResult} ELSE {})

\* Where m was mined, if it was.
Entries(m) == {i \in DOMAIN chain : chain[i].tx = Pay(m)}
Accepted(m) == \E i \in Entries(m) : chain[i].errorType = 0
Refused(m) == \E i \in Entries(m) : chain[i].errorType \in 1 .. 4

Init ==
  /\ chain = <<>>
  /\ queued = [b \in Banks |-> <<>>]
  /\ stuck = {}
  /\ handled = [b \in Banks |-> 0]
  /\ final = 0
  /\ payment = [m \in Messages |-> NoPayment]
  /\ future = [m \in Messages |-> "none"]
  /\ pendingPayments = [b \in Banks |-> {}]
  /\ received = [b \in Banks |-> <<>>]
  /\ registration = [b \in Banks |-> [bic \in Bics |-> "none"]]
  /\ registered = [bic \in Bics |-> {}]
  /\ lost = {}
  /\ reorgs = 0 /\ failures = 0 /\ restarts = 0

-------------------------------------------------------------------------------
(* The calls a bank makes of its own service.                              *)

\* sendPaymentAsync: an id is drawn and the BIC is resolved.
Resolve(b, m, bic) ==
  /\ future[m] = "none"
  /\ payment' = [payment EXCEPT ![m] =
       [from |-> b, toBic |-> bic, to |-> GetAddress(chain, bic)]]
  /\ future' = [future EXCEPT ![m] = "resolved"]
  /\ UNCHANGED <<chain, queued, stuck, handled, final, pendingPayments, received>>
  /\ UNCHANGED <<registration, historyVars, counters>>

\* Its end: the future waits for the id and the transaction is queued.
Send(m) ==
  LET b == payment[m].from
  IN  /\ future[m] = "resolved"
      /\ future' = [future EXCEPT ![m] = "waiting"]
      /\ pendingPayments' = [pendingPayments EXCEPT ![b] = @ \cup {m}]
      /\ Queue(b, Pay(m))
      /\ UNCHANGED <<chain, stuck, handled, final, payment, received, registration>>
      /\ UNCHANGED <<historyVars, counters>>

\* The arguments cannot be encoded, a negative amount for one (the encoder takes
\* one from 2^255, which only the contract finds negative): the caller has
\* an exception, and the id stays with the pending payments.
SendThrows(m) ==
  LET b == payment[m].from
  IN  /\ future[m] = "resolved"
      /\ MayFail
      /\ failures' = failures + 1
      /\ future' = [future EXCEPT ![m] = "thrown"]
      /\ pendingPayments' = [pendingPayments EXCEPT ![b] = @ \cup {m}]
      /\ UNCHANGED <<chain, queued, stuck, handled, final, payment, received, registration>>
      /\ UNCHANGED <<historyVars, reorgs, restarts>>

\* registerBic queues setAddress and waits for its receipt.
RegisterBic(b, bic) ==
  /\ registration[b][bic] = "none"
  /\ registration' = [registration EXCEPT ![b][bic] = "sent"]
  /\ Queue(b, SetAddress(b, bic))
  /\ UNCHANGED <<chain, stuck, handled, final, payment, future, pendingPayments, received>>
  /\ UNCHANGED <<historyVars, counters>>

\* Mutant of the next definition: registerBic does not wait for the receipt.
AnswersAtOnce(b, bic) == registration[b][bic] = "sent"

\* The receipt of the transaction is there.
HasReceipt(b, bic) ==
  /\ registration[b][bic] = "sent"
  /\ \E i \in DOMAIN chain : chain[i].tx = SetAddress(b, bic)

\* Then it asks the registrar whose the BIC is.
BicRegistered(b, bic) ==
  /\ HasReceipt(b, bic)
  /\ registration' = [registration EXCEPT ![b][bic] =
       IF GetAddress(chain, bic) = b THEN "true" ELSE "false"]
  /\ UNCHANGED <<chain, queued, stuck, handled, final, payment, future, pendingPayments>>
  /\ UNCHANGED <<received, historyVars, counters>>

-------------------------------------------------------------------------------
(* The chain                                                               *)

Mine(b) ==
  /\ queued[b] # <<>>
  /\ LET tx == Head(queued[b])
     IN  \E answer \in Answers(tx) :
           /\ chain' = Append(chain, [tx |-> tx, from |-> b, errorType |-> answer])
           /\ failures' = IF answer = NoResult THEN failures + 1 ELSE failures
           /\ registered' =
                IF tx.kind = "setAddress" /\ answer = 0
                  THEN [registered EXCEPT ![tx.bic] = @ \cup {b}]
                  ELSE registered
  /\ queued' = [queued EXCEPT ![b] = Tail(@)]
  /\ UNCHANGED <<stuck, handled, final, serviceVars, lost, reorgs, restarts>>

\* A reorganisation takes back what no service has fired the events of.
Unmine ==
  /\ MayFail
  /\ final < Len(chain)
  /\ LET entry == Last(chain)
     IN  queued' = [queued EXCEPT ![entry.from] = <<entry.tx>> \o @]
  /\ chain' = Front(chain)
  /\ reorgs' = reorgs + 1
  /\ UNCHANGED <<stuck, handled, final, serviceVars, historyVars, failures, restarts>>

\* A transaction is dropped: neither it nor a later one is mined.
Drop(b, i) ==
  /\ MayFail
  /\ i \in DOMAIN queued[b]
  /\ failures' = failures + 1
  /\ queued' = [queued EXCEPT ![b] = SubSeq(@, 1, i - 1)]
  /\ stuck' = stuck \cup {b}
  /\ UNCHANGED <<chain, handled, final, serviceVars, historyVars, reorgs, restarts>>

-------------------------------------------------------------------------------
(* The events of a service                                                 *)

NextEntry(b) == chain[handled[b] + 1]
HasEvents(b) == handled[b] < Len(chain)
IsPayment(b) ==
  HasEvents(b) /\ NextEntry(b).tx.kind = "pay" /\ NextEntry(b).errorType # NoResult

\* Only final blocks have their events fired.
HandledTo(b, i) ==
  /\ handled' = [handled EXCEPT ![b] = i]
  /\ final' = Max({final, i})

\* Mutants of the next definition: every bank is told; the BIC is compared
\* with the sender's bank.
AlwaysForUs(b, m) == TRUE
ForPayer(b, m) == GetAddress(chain, payment[m].toBic) = payment[m].from

\* The payment listener looks up whose the BIC is now.
ForUs(b, m) == GetAddress(chain, payment[m].toBic) = b

ToldOf(b, m, errorType) ==
  IF errorType = 0 /\ ForUs(b, m)
    THEN [received EXCEPT ![b] = Append(@, m)]
    ELSE received

\* Mutant of the next definition: only exceeded limits are an error.
OutcomeOfLimits(errorType) == IF errorType = 4 THEN "failed" ELSE "done"

Outcome(errorType) == IF errorType # 0 THEN "failed" ELSE "done"

\* Mutant of the next definition: the handler is looked up, not removed.
AnsweredAndKept(b, m, errorType) ==
  /\ UNCHANGED pendingPayments
  /\ future' = IF m \in pendingPayments[b]
                 THEN [future EXCEPT ![m] = Outcome(errorType)] ELSE future

\* The listener of ResultMessage, for messages from this bank's account.
Answered(b, m, errorType) ==
  IF NextEntry(b).from = b /\ m \in pendingPayments[b]
    THEN /\ pendingPayments' = [pendingPayments EXCEPT ![b] = @ \ {m}]
         /\ future' = [future EXCEPT ![m] = Outcome(errorType)]
    ELSE UNCHANGED <<pendingPayments, future>>

\* The events of a payment: PaymentMessage if it was accepted, ResultMessage.
FirePayment(b) ==
  /\ IsPayment(b)
  /\ LET m == NextEntry(b).tx.id
         errorType == NextEntry(b).errorType
     IN  received' = ToldOf(b, m, errorType) /\ Answered(b, m, errorType)
  /\ HandledTo(b, handled[b] + 1)
  /\ UNCHANGED <<chain, queued, stuck, payment, registration, historyVars, counters>>

\* setAddress has no events, nor has a transaction that failed.
FireNothing(b) ==
  /\ HasEvents(b) /\ ~IsPayment(b)
  /\ HandledTo(b, handled[b] + 1)
  /\ UNCHANGED <<chain, queued, stuck, serviceVars, historyVars, counters>>

\* The lookup or the listener of PaymentMessage throws: the ResultMessage and
\* what follows in the block is lost.
ListenerThrows(b) ==
  /\ MayFail
  /\ failures' = failures + 1
  /\ IsPayment(b) /\ NextEntry(b).errorType = 0
  /\ received' \in {received, ToldOf(b, NextEntry(b).tx.id, 0)}
  /\ \E last \in handled[b] + 1 .. Len(chain) :
       /\ HandledTo(b, last)
       /\ lost' = lost \cup {<<b, i>> : i \in handled[b] + 1 .. last}
  /\ UNCHANGED <<chain, queued, stuck, payment, future, pendingPayments>>
  /\ UNCHANGED <<registration, registered, reorgs, restarts>>

\* A service starts again: it knows no payments, of its transactions only
\* those are left that the node has, and its events begin earlier or later
\* than where they stopped.
Restart(b) ==
  /\ MayFail
  /\ restarts' = restarts + 1
  /\ future' = [m \in Messages |->
       IF payment[m].from = b /\ future[m] \in {"resolved", "waiting", "thrown"}
         THEN "gone" ELSE future[m]]
  /\ pendingPayments' = [pendingPayments EXCEPT ![b] = {}]
  /\ received' = [received EXCEPT ![b] = <<>>]
  /\ registration' = [registration EXCEPT ![b] =
       [bic \in Bics |-> IF @[bic] = "sent" THEN "gone" ELSE @[bic]]]
  /\ \E i \in 0 .. Len(queued[b]) : queued' = [queued EXCEPT ![b] = SubSeq(@, 1, i)]
  /\ stuck' \in {stuck, stuck \ {b}}
  /\ \E i \in 0 .. Len(chain) : HandledTo(b, i)
  /\ UNCHANGED <<chain, payment, historyVars, reorgs, failures>>

-------------------------------------------------------------------------------
Next ==
  \/ \E b \in Banks, m \in Messages, bic \in Bics : Resolve(b, m, bic)
  \/ \E m \in Messages : Send(m) \/ SendThrows(m)
  \/ \E b \in Banks, bic \in Bics : RegisterBic(b, bic) \/ BicRegistered(b, bic)
  \/ \E b \in Banks : Mine(b) \/ (\E i \in DOMAIN queued[b] : Drop(b, i))
  \/ Unmine
  \/ \E b \in Banks : FirePayment(b) \/ FireNothing(b) \/ ListenerThrows(b)
  \/ \E b \in Banks : Restart(b)

Spec == Init /\ [][Next]_vars

-------------------------------------------------------------------------------
(* Properties                                                              *)

\* The future of a payment tells the contract's verdict, and a verdict that
\* was told is never taken back by a reorganisation (the ResultMessage
\* listener of PaymentServiceImpl).
FutureTellsVerdict ==
  \A m \in Messages :
    /\ future[m] = "done" => Accepted(m)
    /\ future[m] = "failed" => Refused(m) /\ ~Accepted(m)

\* No answer is forgotten: a payment whose future still waits is on its way,
\* its events are still to come, or its transaction was dropped or failed, or its
\* events were lost to an exception of a listener; and nothing else is kept
\* waiting.
NoAnswerForgotten ==
  /\ \A b \in Banks : \A m \in pendingPayments[b] :
       payment[m].from = b /\ future[m] \in {"waiting", "thrown"}
  /\ \A m \in Messages :
       LET b == payment[m].from
       IN  future[m] = "waiting" =>
             /\ m \in pendingPayments[b]
             /\ \/ Pay(m) \in ToSet(queued[b])
                \/ b \in stuck
                \/ \E i \in Entries(m) :
                     i > handled[b] \/ chain[i].errorType = NoResult \/ <<b, i>> \in lost

\* The i-th transaction has registered the BIC.
Registers(i, b, bic) == chain[i].tx = SetAddress(b, bic) /\ chain[i].errorType = 0

\* A bank is told of a payment only if the contract has accepted it, and if
\* the receiver's BIC was never registered for two banks, only the bank whose
\* debtor the sender became.
ToldAsBooked ==
  \A b \in Banks : \A m \in ToSet(received[b]) :
    /\ Accepted(m)
    /\ Cardinality(registered[payment[m].toBic]) = 1 => payment[m].to = b

\* And it is told: once a service has handled the events of a payment for
\* its BIC, its listener has been called, exactly once, if the chain has the
\* BIC's registration before the payment.
PayeeIsTold ==
  restarts = 0 =>
    \A b \in Banks, m \in Messages : \A i \in Entries(m) :
      /\ chain[i].errorType = 0 /\ payment[m].to = b
      /\ registered[payment[m].toBic] = {b}
      /\ \E j \in 1 .. i : Registers(j, b, payment[m].toBic)
      /\ i <= handled[b] /\ <<b, i>> \notin lost
      => Cardinality({j \in DOMAIN received[b] : received[b][j] = m}) = 1

\* When banks register the same BIC, one of them is told that it has it, if not
\* all of their transactions fail: registerBic reads the registrar after its own
\* transaction was mined.  A reorganisation between the two may leave none.
RegistrationHasWinner ==
  reorgs = 0 =>
    \A bic \in Bics :
      /\ \A b \in Banks : registration[b][bic] \in {"none", "true", "false"}
      /\ \E b \in Banks :
           registration[b][bic] = "false" /\ \E i \in DOMAIN chain : Registers(i, b, bic)
      => \E b \in Banks : registration[b][bic] = "true"

\* "this is only acted upon at the "them" bank", says the contract of the
\* PaymentMessage event (PaymentService.sol:185, 196).
ActedUponOnlyAtThem ==
  \A b \in Banks : \A m \in ToSet(received[b]) : payment[m].to = b

===============================================================================
