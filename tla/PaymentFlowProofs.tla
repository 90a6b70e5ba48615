--------------------------- MODULE PaymentFlowProofs ---------------------------
(***************************************************************************)
(* What holds of a payment from end to end for any banks, BICs, payments   *)
(* and faults: its future tells the contract's final verdict, its answer   *)
(* is not forgotten, and a bank is told of it only as it was booked.       *)
(***************************************************************************)
EXTENDS PaymentFlow, FiniteSetTheorems, WellFoundedInduction, TLAPS

Accounts == Banks \cup {NoBank}
Payments == [kind : {"pay"}, id : Messages]
Registrations == [kind : {"setAddress"}, bank : Banks, bic : Bics]
Txs == Payments \cup Registrations
MinedTxs == [tx : Txs, from : Banks, errorType : 0 .. 5]

Unsent == {"none", "resolved", "thrown"}
Futures == Unsent \cup {"waiting", "done", "failed", "gone"}

Types ==
  /\ chain \in Seq(MinedTxs)
  /\ queued \in [Banks -> Seq(Txs)]
  /\ final \in Nat /\ final <= Len(chain)
  /\ handled \in [Banks -> Nat]
  /\ \A b \in Banks : handled[b] <= final
  /\ payment \in [Messages -> [from : Accounts, toBic : Bics \cup {"none"}, to : Accounts]]
  /\ future \in [Messages -> Futures]
  /\ pendingPayments \in [Banks -> SUBSET Messages]
  /\ received \in [Banks -> Seq(Messages)]
  /\ registration \in [Banks -> [Bics -> {"none", "sent", "true", "false", "gone"}]]
  /\ registered \in [Bics -> SUBSET Banks]
  /\ \A bic \in Bics : IsFiniteSet(registered[bic])

\* What is known of a payment once its id is drawn: the receiver was once
\* registered for the BIC, or there was none.
Known(m) ==
  future[m] # "none" =>
    /\ payment[m].from \in Banks
    /\ payment[m].toBic \in Bics
    /\ payment[m].to \in registered[payment[m].toBic] \cup {NoBank}

\* The bank has called registerBic.
Asked(b, bic) == registration[b][bic] # "none"

\* A transaction on its way is of the bank in whose queue it is ...
OfBank(b, tx) ==
  /\ \A m \in Messages : tx = Pay(m) => payment[m].from = b /\ future[m] \notin Unsent
  /\ \A bank \in Banks, bic \in Bics : tx = SetAddress(bank, bic) => bank = b /\ Asked(b, bic)

\* ... and so is one that was mined, with the contract's answer, and the
\* banks that had their BIC registered are those of the registrations.
IsMined(entry) ==
  /\ OfBank(entry.from, entry.tx)
  /\ \A m \in Messages : entry.tx = Pay(m) => entry.errorType \in ErrorTypes(m) \cup {NoResult}
  /\ \A bank \in Banks, bic \in Bics :
       entry.tx = SetAddress(bank, bic) /\ entry.errorType = 0 => bank \in registered[bic]

Owned ==
  /\ \A b \in Banks : \A j \in 1 .. Len(queued[b]) : OfBank(b, queued[b][j])
  /\ \A i \in 1 .. Len(chain) : IsMined(chain[i])

\* A transaction is in one place at most.
Once ==
  \A tx \in Txs :
    /\ \A i, j \in 1 .. Len(chain) :
         chain[i].tx = tx /\ chain[j].tx = tx => i = j
    /\ \A b \in Banks : \A i, j \in 1 .. Len(queued[b]) :
         queued[b][i] = tx /\ queued[b][j] = tx => i = j
    /\ \A b \in Banks : \A i \in 1 .. Len(chain), j \in 1 .. Len(queued[b]) :
         ~(chain[i].tx = tx /\ queued[b][j] = tx)

\* A verdict is one no reorganisation takes back.
IsFinal(m, i) == i \in 1 .. final /\ chain[i].tx = Pay(m)
Verdicts ==
  \A m \in Messages :
    /\ future[m] = "done" => \E i \in 1 .. final : IsFinal(m, i) /\ chain[i].errorType = 0
    /\ future[m] = "failed" => \E i \in 1 .. final : IsFinal(m, i) /\ chain[i].errorType \in 1 .. 4

\* What waits for an answer.
Pending ==
  \A b \in Banks : \A m \in pendingPayments[b] :
    payment[m].from = b /\ future[m] \in {"waiting", "thrown"}

IsToCome(m, b) ==
  \/ \E j \in 1 .. Len(queued[b]) : queued[b][j] = Pay(m)
  \/ b \in stuck
  \/ \E i \in 1 .. Len(chain) :
       /\ chain[i].tx = Pay(m)
       /\ i > handled[b] \/ chain[i].errorType = NoResult \/ <<b, i>> \in lost

Waiting ==
  \A m \in Messages :
    future[m] = "waiting" =>
      m \in pendingPayments[payment[m].from] /\ IsToCome(m, payment[m].from)

\* What a bank was told.
IsBooked(b, m) ==
  /\ \E i \in 1 .. final : IsFinal(m, i) /\ chain[i].errorType = 0
  /\ b \in registered[payment[m].toBic]
Told == \A b \in Banks : \A j \in 1 .. Len(received[b]) : IsBooked(b, received[b][j])

IInv ==
  /\ Types /\ Owned /\ Once /\ Verdicts /\ Pending /\ Waiting /\ Told
  /\ \A m \in Messages : Known(m)

-------------------------------------------------------------------------------
(* Numbers, and the registrar's answer.                                    *)

LEMMA MaxOfTwo ==
  ASSUME NEW i \in Nat, NEW j \in Nat
  PROVE  Max({i, j}) = IF i >= j THEN i ELSE j
<1> DEFINE IsMax(x) == x \in {i, j} /\ \A y \in {i, j} : x >= y
<1>1. \A x : IsMax(x) <=> x = IF i >= j THEN i ELSE j
  OBVIOUS
<1>2. Max({i, j}) = CHOOSE x : IsMax(x)
  BY DEF Max
<1> QED
  BY <1>1, <1>2

LEMMA MaxOfPositions ==
  ASSUME NEW n \in Nat, NEW S, S \subseteq 1 .. n, S # {}
  PROVE  Max(S) \in S /\ \A x \in S : x <= Max(S)
<1> DEFINE T == {k \in Nat : n - k \in S}
           R == OpToRel(<, Nat)
<1>1. T \subseteq Nat /\ T # {}
  <2>1. PICK x \in S : TRUE
    OBVIOUS
  <2>2. n - x \in T
    BY <2>1
  <2> QED
    BY <2>2
<1>2. IsWellFoundedOn(R, Nat)
  BY NatLessThanWellFounded, Zenon DEF R
<1> HIDE DEF T, R
<1>3. PICK k \in T : \A l \in T : ~(<<l, k>> \in R)
  BY <1>1, <1>2, WFMin, Zenon
<1>4. \A l \in T : ~(l < k)
  <2> SUFFICES ASSUME NEW l \in T, l < k PROVE FALSE
    OBVIOUS
  <2>1. <<l, k>> \in R
    BY <1>1, Zenon DEF R, OpToRel
  <2> QED
    BY <1>3, <2>1
<1>5. n - k \in S /\ \A y \in S : n - k >= y
  <2>1. k \in Nat /\ n - k \in S
    BY DEF T
  <2> SUFFICES ASSUME NEW y \in S PROVE n - k >= y
    BY <2>1
  <2>2. n - y \in T
    BY DEF T
  <2> QED
    BY <1>4, <2>1, <2>2
<1> QED
  BY <1>5 DEF Max

LEMMA PayIsOf == \A m, n : Pay(m) = Pay(n) => m = n
BY DEF Pay

LEMMA PayIsNotSet == \A m, bank, bic : Pay(m) # SetAddress(bank, bic)
<1>1. \A m, bank, bic : Pay(m).kind = "pay" /\ SetAddress(bank, bic).kind = "setAddress"
  BY DEF Pay, SetAddress
<1> QED
  BY <1>1

LEMMA PayIsTx == \A m \in Messages : Pay(m) \in Txs
BY DEF Pay, Txs, Payments

LEMMA TxForm ==
  ASSUME NEW tx \in Txs
  PROVE  \/ \E m \in Messages : tx = Pay(m)
         \/ \E bank \in Banks, bic \in Bics : tx = SetAddress(bank, bic)
BY DEF Txs, Payments, Registrations, Pay, SetAddress

\* A transaction on its way is of one bank.
LEMMA OfOneBank ==
  ASSUME NEW tx \in Txs, NEW b, NEW c, OfBank(b, tx), OfBank(c, tx)
  PROVE  b = c
BY TxForm DEF OfBank

\* The answer is a bank the BIC was registered for, if any was.
LEMMA AnswerIsRegistered ==
  ASSUME IInv, NEW bic \in Bics
  PROVE  GetAddress(chain, bic) \in registered[bic] \cup {NoBank}
<1> DEFINE S == {i \in DOMAIN chain :
                   chain[i].tx.kind = "setAddress" /\ chain[i].tx.bic = bic /\ chain[i].errorType = 0}
<1>1. CASE S = {}
  BY <1>1 DEF GetAddress
<1>2. CASE S # {}
  <2>1. Len(chain) \in Nat /\ DOMAIN chain = 1 .. Len(chain)
    BY DEF IInv, Types
  <2>2. S \subseteq 1 .. Len(chain)
    BY <2>1
  <2> DEFINE i == Max(S)
  <2> HIDE DEF S
  <2>3. i \in S
    BY <1>2, <2>1, <2>2, MaxOfPositions
  <2>4. /\ i \in 1 .. Len(chain) /\ chain[i].errorType = 0
        /\ chain[i].tx.kind = "setAddress" /\ chain[i].tx.bic = bic
    BY <2>1, <2>3 DEF S
  <2>5. GetAddress(chain, bic) = chain[i].tx.bank
    BY <1>2 DEF GetAddress, S
  <2> HIDE DEF i
  <2>6. chain[i] \in MinedTxs /\ IsMined(chain[i])
    BY <2>4 DEF IInv, Types, Owned
  <2>7. chain[i].tx \in Registrations
    BY <2>4, <2>6 DEF MinedTxs, Txs, Payments
  <2>8. chain[i].tx = SetAddress(chain[i].tx.bank, bic) /\ chain[i].tx.bank \in Banks
    BY <2>4, <2>7 DEF Registrations, SetAddress
  <2> QED
    BY <2>4, <2>5, <2>6, <2>8 DEF IsMined
<1> QED
  BY <1>1, <1>2

-------------------------------------------------------------------------------
(* The invariant says what the properties do.                              *)

LEMMA VerdictIsTold == IInv => FutureTellsVerdict
<1> SUFFICES ASSUME IInv, NEW m \in Messages
             PROVE  /\ future[m] = "done" => Accepted(m)
                    /\ future[m] = "failed" => Refused(m) /\ ~Accepted(m)
  BY DEF FutureTellsVerdict
<1>1. /\ final \in Nat /\ final <= Len(chain) /\ DOMAIN chain = 1 .. Len(chain)
      /\ \A i \in 1 .. final : i \in DOMAIN chain
  BY DEF IInv, Types
<1>2. ASSUME future[m] = "done" PROVE Accepted(m)
  <2>1. PICK i \in 1 .. final : IsFinal(m, i) /\ chain[i].errorType = 0
    BY <1>2 DEF IInv, Verdicts
  <2> QED
    BY <1>1, <2>1 DEF IsFinal, Accepted, Entries
<1>3. ASSUME future[m] = "failed" PROVE Refused(m) /\ ~Accepted(m)
  <2>1. PICK i \in 1 .. final : IsFinal(m, i) /\ chain[i].errorType \in 1 .. 4
    BY <1>3 DEF IInv, Verdicts
  <2>2. \A j \in Entries(m) : j = i
    BY <1>1, <2>1, PayIsTx DEF IsFinal, Entries, IInv, Once
  <2> QED
    BY <1>1, <2>1, <2>2 DEF IsFinal, Accepted, Refused, Entries
<1> QED
  BY <1>2, <1>3

LEMMA NothingIsForgotten == IInv => NoAnswerForgotten
<1> SUFFICES ASSUME IInv PROVE NoAnswerForgotten
  OBVIOUS
<1>1. DOMAIN chain = 1 .. Len(chain)
  BY DEF IInv, Types
<1>2. ASSUME NEW m \in Messages, future[m] = "waiting"
      PROVE  LET b == payment[m].from
             IN  /\ m \in pendingPayments[b]
                 /\ \/ Pay(m) \in ToSet(queued[b])
                    \/ b \in stuck
                    \/ \E i \in Entries(m) :
                         i > handled[b] \/ chain[i].errorType = NoResult \/ <<b, i>> \in lost
  <2> DEFINE b == payment[m].from
  <2>1. m \in pendingPayments[b] /\ IsToCome(m, b)
    BY <1>2 DEF IInv, Waiting
  <2>2. b \in Banks
    BY <1>2 DEF IInv, Known
  <2> HIDE DEF b
  <2>3. DOMAIN queued[b] = 1 .. Len(queued[b])
    BY <2>2 DEF IInv, Types
  <2>4. \/ Pay(m) \in ToSet(queued[b])
        \/ b \in stuck
        \/ \E i \in Entries(m) :
             i > handled[b] \/ chain[i].errorType = NoResult \/ <<b, i>> \in lost
    BY <1>1, <2>1, <2>3 DEF IsToCome, Entries, ToSet
  <2> QED
    BY <2>1, <2>4 DEF b
<1>3. \A b \in Banks : \A m \in pendingPayments[b] :
        payment[m].from = b /\ future[m] \in {"waiting", "thrown"}
  BY DEF IInv, Pending
<1> QED
  BY <1>2, <1>3 DEF NoAnswerForgotten

LEMMA OnlyAsBooked == IInv => ToldAsBooked
<1> SUFFICES ASSUME IInv, NEW b \in Banks, NEW m \in ToSet(received[b])
             PROVE  /\ Accepted(m)
                    /\ Cardinality(registered[payment[m].toBic]) = 1 => payment[m].to = b
  BY DEF ToldAsBooked
<1>1. PICK j \in 1 .. Len(received[b]) : received[b][j] = m
  BY DEF IInv, Types, ToSet
<1>2. m \in Messages
  BY <1>1 DEF IInv, Types
<1>3. IsBooked(b, m)
  BY <1>1 DEF IInv, Told
<1>4. PICK i \in 1 .. final : chain[i].tx = Pay(m) /\ chain[i].errorType = 0
  BY <1>3 DEF IsBooked, IsFinal
<1>5. i \in 1 .. Len(chain) /\ i \in DOMAIN chain /\ IsMined(chain[i])
  BY <1>4 DEF IInv, Types, Owned
<1>6. Accepted(m)
  BY <1>4, <1>5 DEF Accepted, Entries
<1>7. 0 \in ErrorTypes(m) /\ future[m] # "none"
  BY <1>2, <1>4, <1>5 DEF IsMined, OfBank, Unsent, NoResult
<1>8. payment[m].to # NoBank
  BY <1>7 DEF ErrorTypes
<1>9. /\ payment[m].toBic \in Bics
      /\ payment[m].to \in registered[payment[m].toBic]
  BY <1>2, <1>7, <1>8 DEF IInv, Known
<1> DEFINE R == registered[payment[m].toBic]
<1>10. IsFiniteSet(R) /\ b \in R /\ payment[m].to \in R
  BY <1>3, <1>9 DEF IInv, Types, IsBooked
<1> HIDE DEF R
<1>11. ASSUME Cardinality(R) = 1 PROVE payment[m].to = b
  <2>1. \E x : R = {x}
    BY <1>10, <1>11, FS_Singleton
  <2> QED
    BY <1>10, <2>1
<1> QED
  BY <1>6, <1>11 DEF R

-------------------------------------------------------------------------------
(* What the parts of the invariant survive.                                *)

\* A payment that was sent is not changed any more, and registerBic that was
\* called is not called again.
Steady ==
  /\ \A m \in Messages :
       future[m] \notin Unsent => future'[m] \notin Unsent /\ payment'[m] = payment[m]
  /\ \A b \in Banks, bic \in Bics : Asked(b, bic) => Asked(b, bic)'

\* Of the queues a part is left.
QueuesCut ==
  \A b \in Banks :
    /\ Len(queued'[b]) <= Len(queued[b])
    /\ \A j \in 1 .. Len(queued'[b]) : queued'[b][j] = queued[b][j]

\* No bank loses a BIC it was once registered for.
Grows == \A bic \in Bics : registered[bic] \subseteq registered'[bic]

LEMMA OfBankKept ==
  ASSUME NEW b, NEW tx, OfBank(b, tx), Steady
  PROVE  OfBank(b, tx)'
BY DEF OfBank, Steady

LEMMA IsMinedKept ==
  ASSUME NEW entry, IsMined(entry), Steady, Grows
  PROVE  IsMined(entry)'
<1>1. OfBank(entry.from, entry.tx)'
  BY OfBankKept DEF IsMined
<1>2. ASSUME NEW m \in Messages, entry.tx = Pay(m)
      PROVE  entry.errorType \in ErrorTypes(m)' \cup {NoResult}
  <2>1. payment'[m] = payment[m]
    BY <1>2 DEF IsMined, OfBank, Steady
  <2>2. entry.errorType \in ErrorTypes(m) \cup {NoResult}
    BY <1>2 DEF IsMined
  <2> QED
    BY <2>1, <2>2 DEF ErrorTypes
<1>3. \A bank \in Banks, bic \in Bics :
        entry.tx = SetAddress(bank, bic) /\ entry.errorType = 0 => bank \in registered'[bic]
  BY DEF IsMined, Grows
<1> QED
  BY <1>1, <1>2, <1>3 DEF IsMined

LEMMA PlacesKept ==
  ASSUME IInv, Types', Steady, QueuesCut, UNCHANGED <<chain, registered>>
  PROVE  Owned' /\ Once'
<1>1. \A b \in Banks : \A j \in 1 .. Len(queued'[b]) :
        j \in 1 .. Len(queued[b]) /\ queued'[b][j] = queued[b][j]
  BY DEF QueuesCut, IInv, Types
<1>2. ASSUME NEW b \in Banks, NEW j \in 1 .. Len(queued'[b]) PROVE OfBank(b, queued[b][j])'
  <2>1. OfBank(b, queued[b][j])
    BY <1>1, <1>2 DEF IInv, Owned
  <2> QED
    BY <1>1, <1>2, <2>1 DEF OfBank, Steady
<1>3. ASSUME NEW i \in 1 .. Len(chain) PROVE IsMined(chain[i])'
  BY IsMinedKept DEF IInv, Owned, Grows
<1>4. Owned'
  BY <1>2, <1>3 DEF Owned
<1>5. Once'
  BY <1>1 DEF IInv, Once
<1> QED
  BY <1>4, <1>5

\* A transaction that is in no place goes to the end of its bank's queue.
LEMMA PlacesQueued ==
  ASSUME IInv, Types', Steady, NEW b \in Banks, NEW tx \in Txs,
         queued' = [queued EXCEPT ![b] = Append(@, tx)],
         OfBank(b, tx)', \A c : ~OfBank(c, tx),
         UNCHANGED <<chain, registered>>
  PROVE  Owned' /\ Once'
<1> DEFINE n == Len(queued[b])
<1>1. /\ n \in Nat /\ Len(queued'[b]) = n + 1 /\ queued'[b][n + 1] = tx
      /\ \A j \in 1 .. n : queued'[b][j] = queued[b][j]
      /\ \A c \in Banks \ {b} : queued'[c] = queued[c]
  BY DEF IInv, Types
<1> HIDE DEF n
<1>2. ASSUME NEW c \in Banks, NEW j \in 1 .. Len(queued'[c])
      PROVE  \/ j \in 1 .. Len(queued[c]) /\ queued'[c][j] = queued[c][j]
             \/ c = b /\ j = n + 1 /\ queued'[c][j] = tx
  <2>1. CASE c = b
    BY <1>1, <1>2, <2>1 DEF n
  <2>2. CASE c # b
    BY <1>1, <1>2, <2>2
  <2> QED
    BY <2>1, <2>2
<1>3. ASSUME NEW c \in Banks, NEW j \in 1 .. Len(queued'[c]) PROVE OfBank(c, queued[c][j])'
  <2>1. CASE j \in 1 .. Len(queued[c]) /\ queued'[c][j] = queued[c][j]
    <3>1. OfBank(c, queued[c][j])
      BY <2>1 DEF IInv, Owned
    <3> QED
      BY <2>1, <3>1 DEF OfBank, Steady
  <2>2. CASE c = b /\ j = n + 1 /\ queued'[c][j] = tx
    BY <2>2 DEF OfBank, Asked
  <2> QED
    BY <1>2, <1>3, <2>1, <2>2
<1>4. ASSUME NEW i \in 1 .. Len(chain) PROVE IsMined(chain[i])'
  BY IsMinedKept DEF IInv, Owned, Grows
<1>5. /\ \A i \in 1 .. Len(chain) : chain[i].tx # tx
      /\ \A c \in Banks : \A j \in 1 .. Len(queued[c]) : queued[c][j] # tx
  BY DEF IInv, Owned, IsMined
<1>6. ASSUME NEW t \in Txs, NEW c \in Banks,
             NEW i \in 1 .. Len(queued'[c]), NEW j \in 1 .. Len(queued'[c]),
             queued'[c][i] = t, queued'[c][j] = t
      PROVE  i = j
  BY <1>2, <1>5, <1>6 DEF IInv, Once
<1>7. ASSUME NEW t \in Txs, NEW c \in Banks,
             NEW i \in 1 .. Len(chain), NEW j \in 1 .. Len(queued'[c]),
             chain[i].tx = t, queued'[c][j] = t
      PROVE  FALSE
  BY <1>2, <1>5, <1>7 DEF IInv, Once
<1>8. \A t \in Txs : \A i, j \in 1 .. Len(chain) :
        chain[i].tx = t /\ chain[j].tx = t => i = j
  BY DEF IInv, Once
<1>9. Once'
  BY <1>6, <1>7, <1>8 DEF Once
<1> QED
  BY <1>3, <1>4, <1>9 DEF Owned

\* Below the final block nothing changes.
FinalKept ==
  /\ final <= final'
  /\ \A i \in 1 .. final : i \in 1 .. final' /\ chain'[i] = chain[i]

LEMMA BookedKept ==
  ASSUME NEW b, NEW m \in Messages, IsBooked(b, m), FinalKept, Grows,
         payment[m].toBic \in Bics, payment'[m] = payment[m]
  PROVE  IsBooked(b, m)'
BY DEF IsBooked, IsFinal, FinalKept, Grows

LEMMA BookedIsKnown ==
  ASSUME IInv, NEW b \in Banks, NEW m \in Messages, IsBooked(b, m)
  PROVE  future[m] \notin Unsent /\ payment[m].toBic \in Bics
<1>1. PICK i \in 1 .. final : chain[i].tx = Pay(m)
  BY DEF IsBooked, IsFinal
<1>2. i \in 1 .. Len(chain)
  BY <1>1 DEF IInv, Types
<1>3. future[m] \notin Unsent
  BY <1>1, <1>2 DEF IInv, Owned, IsMined, OfBank
<1> QED
  BY <1>3 DEF IInv, Known, Unsent

\* What was told stays as it was told, and a listener may be told more of
\* what is booked, or forget.
LEMMA ToldKept ==
  ASSUME IInv, Steady, FinalKept, Grows,
         \A b \in Banks : \A j \in 1 .. Len(received'[b]) :
           \/ \E k \in 1 .. Len(received[b]) : received'[b][j] = received[b][k]
           \/ IsBooked(b, received[b][j])'
  PROVE  Told'
<1>1. ASSUME NEW b \in Banks, NEW k \in 1 .. Len(received[b]), NEW m, m = received[b][k]
      PROVE  IsBooked(b, m)'
  <2>1. m \in Messages /\ IsBooked(b, m)
    BY <1>1 DEF IInv, Types, Told
  <2>2. future[m] \notin Unsent /\ payment[m].toBic \in Bics
    BY <2>1, BookedIsKnown
  <2> QED
    BY <2>1, <2>2, BookedKept DEF Steady, Asked
<1>2. ASSUME NEW b \in Banks, NEW j \in 1 .. Len(received'[b]) PROVE IsBooked(b, received[b][j])'
  <2>1. CASE IsBooked(b, received[b][j])'
    BY <2>1
  <2>2. CASE \E k \in 1 .. Len(received[b]) : received'[b][j] = received[b][k]
    BY <1>1, <2>2 DEF IsBooked, IsFinal
  <2> QED
    BY <1>2, <2>1, <2>2
<1> QED
  BY <1>2 DEF Told

LEMMA VerdictsKept ==
  ASSUME IInv, FinalKept,
         \A m \in Messages : future'[m] \in {"done", "failed"} => future'[m] = future[m]
  PROVE  Verdicts'
<1>1. ASSUME NEW m \in Messages, NEW i \in 1 .. final, IsFinal(m, i)
      PROVE  i \in 1 .. final' /\ IsFinal(m, i)' /\ chain'[i] = chain[i]
  BY <1>1 DEF FinalKept, IsFinal
<1>2. ASSUME NEW m \in Messages, future'[m] = "done"
      PROVE  \E i \in 1 .. final' : IsFinal(m, i)' /\ chain'[i].errorType = 0
  BY <1>1, <1>2 DEF IInv, Verdicts
<1>3. ASSUME NEW m \in Messages, future'[m] = "failed"
      PROVE  \E i \in 1 .. final' : IsFinal(m, i)' /\ chain'[i].errorType \in 1 .. 4
  BY <1>1, <1>3 DEF IInv, Verdicts
<1> QED
  BY <1>2, <1>3 DEF Verdicts

LEMMA SameChain ==
  ASSUME IInv, UNCHANGED <<chain, final>>
  PROVE  FinalKept
BY DEF IInv, Types, FinalKept

LEMMA KnownKept ==
  ASSUME IInv, Grows, payment' = payment,
         \A m \in Messages : future[m] = "none" => future'[m] = "none"
  PROVE  \A m \in Messages : Known(m)'
BY DEF IInv, Known, Grows

-------------------------------------------------------------------------------
(* The calls.                                                              *)

LEMMA ResolveInvariant ==
  ASSUME IInv, NEW b \in Banks, NEW m \in Messages, NEW bic \in Bics, Resolve(b, m, bic)
  PROVE  IInv'
<1> DEFINE a == GetAddress(chain, bic)
<1>1. /\ future[m] = "none"
      /\ payment' = [payment EXCEPT ![m] = [from |-> b, toBic |-> bic, to |-> a]]
      /\ future' = [future EXCEPT ![m] = "resolved"]
      /\ UNCHANGED <<chain, queued, stuck, handled, final, pendingPayments, received>>
      /\ UNCHANGED <<registration, registered, lost>>
  BY DEF Resolve, historyVars
<1>2. a \in registered[bic] \cup {NoBank} /\ registered[bic] \subseteq Banks
  BY AnswerIsRegistered DEF IInv, Types
<1> HIDE DEF a
<1>3. \A n \in Messages :
        /\ payment'[n] = IF n = m THEN [from |-> b, toBic |-> bic, to |-> a] ELSE payment[n]
        /\ future'[n] = IF n = m THEN "resolved" ELSE future[n]
  BY <1>1 DEF IInv, Types
<1>4. Types'
  <2>1. [from |-> b, toBic |-> bic, to |-> a]
          \in [from : Accounts, toBic : Bics \cup {"none"}, to : Accounts]
    BY <1>2 DEF Accounts
  <2>2. payment' \in [Messages -> [from : Accounts, toBic : Bics \cup {"none"}, to : Accounts]]
    BY <1>1, <2>1 DEF IInv, Types
  <2>3. future' \in [Messages -> Futures]
    BY <1>1 DEF IInv, Types, Futures, Unsent
  <2> QED
    BY <1>1, <2>2, <2>3 DEF IInv, Types
<1>5. Steady /\ QueuesCut /\ Grows /\ FinalKept
  <2>1. Steady
    BY <1>1, <1>3 DEF Steady, Unsent, Asked
  <2>2. QueuesCut
    BY <1>1 DEF QueuesCut, IInv, Types
  <2> QED
    BY <1>1, <2>1, <2>2, SameChain DEF Grows
<1>6. Owned' /\ Once'
  BY <1>1, <1>4, <1>5, PlacesKept
<1>7. Verdicts'
  BY <1>3, <1>5, VerdictsKept
<1>8. Pending'
  BY <1>1, <1>3 DEF IInv, Pending, Types
<1>9. Waiting'
  <2>1. ASSUME NEW n \in Messages, future'[n] = "waiting"
        PROVE  n \in pendingPayments[payment'[n].from] /\ IsToCome(n, payment'[n].from)
    BY <1>1, <1>3, <2>1 DEF IInv, Waiting
  <2>2. \A n, c : IsToCome(n, c) => IsToCome(n, c)'
    BY <1>1 DEF IsToCome
  <2> QED
    BY <1>1, <2>1, <2>2 DEF Waiting, IsToCome
<1>10. Told'
  BY <1>1, <1>5, ToldKept
<1>11. ASSUME NEW n \in Messages PROVE Known(n)'
  BY <1>1, <1>2, <1>3 DEF IInv, Known
<1> QED
  BY <1>4, <1>6, <1>7, <1>8, <1>9, <1>10, <1>11 DEF IInv

\* The payment waits, and is behind the others in the queue of its bank.
LEMMA SendInvariant ==
  ASSUME IInv, NEW m \in Messages, Send(m)
  PROVE  IInv'
<1>0. PICK b : b = payment[m].from
  OBVIOUS
<1>1. /\ future[m] = "resolved"
      /\ future' = [future EXCEPT ![m] = "waiting"]
      /\ pendingPayments' = [pendingPayments EXCEPT ![b] = @ \cup {m}]
      /\ queued' = IF b \in stuck THEN queued ELSE [queued EXCEPT ![b] = Append(@, Pay(m))]
      /\ UNCHANGED <<chain, stuck, handled, final, payment, received, registration, registered, lost>>
  BY <1>0 DEF Send, Queue, historyVars
<1>2. b \in Banks /\ payment[m].from = b
  BY <1>0, <1>1 DEF IInv, Known
<1>3. /\ \A n \in Messages : future'[n] = IF n = m THEN "waiting" ELSE future[n]
      /\ \A c \in Banks :
           pendingPayments'[c] = IF c = b THEN pendingPayments[b] \cup {m} ELSE pendingPayments[c]
  BY <1>1, <1>2 DEF IInv, Types
<1>4. Pay(m) \in Txs
  BY DEF Pay, Txs, Payments
<1>5. Types'
  <2>1. future' \in [Messages -> Futures]
    BY <1>1 DEF IInv, Types, Futures
  <2>2. pendingPayments' \in [Banks -> SUBSET Messages]
    BY <1>1, <1>2 DEF IInv, Types
  <2>3. queued' \in [Banks -> Seq(Txs)]
    BY <1>1, <1>2, <1>4 DEF IInv, Types
  <2> QED
    BY <1>1, <2>1, <2>2, <2>3 DEF IInv, Types
<1>6. Steady /\ Grows /\ FinalKept
  <2>1. Steady
    BY <1>1, <1>3 DEF Steady, Unsent, Asked
  <2> QED
    BY <1>1, <2>1, SameChain DEF Grows
<1>7. Owned' /\ Once'
  <2>1. CASE b \in stuck
    <3>1. QueuesCut
      BY <1>1, <2>1 DEF QueuesCut, IInv, Types
    <3> QED
      BY <1>1, <1>5, <1>6, <3>1, PlacesKept
  <2>2. CASE b \notin stuck
    <3>1. OfBank(b, Pay(m))'
      BY <1>1, <1>2, <1>3, PayIsOf, PayIsNotSet DEF OfBank, Unsent, Asked
    <3>2. \A c : ~OfBank(c, Pay(m))
      BY <1>1 DEF OfBank, Unsent, Asked
    <3> QED
      BY <1>1, <1>2, <1>4, <1>5, <1>6, <2>2, <3>1, <3>2, PlacesQueued
  <2> QED
    BY <2>1, <2>2
<1>8. Verdicts'
  BY <1>3, <1>6, VerdictsKept
<1>9. Pending'
  BY <1>1, <1>2, <1>3 DEF IInv, Pending, Types
<1>10. Waiting'
  <2>1. ASSUME NEW n \in Messages, future'[n] = "waiting", n # m
        PROVE  n \in pendingPayments'[payment[n].from] /\ IsToCome(n, payment[n].from)'
    <3>1. n \in pendingPayments[payment[n].from] /\ IsToCome(n, payment[n].from)
      BY <1>3, <2>1 DEF IInv, Waiting
    <3>2. payment[n].from \in Banks
      BY <1>3, <2>1 DEF IInv, Known
    <3>3. ASSUME NEW j \in 1 .. Len(queued[payment[n].from])
          PROVE  /\ j \in 1 .. Len(queued'[payment[n].from])
                 /\ queued'[payment[n].from][j] = queued[payment[n].from][j]
      BY <1>1, <1>2, <3>2, <3>3 DEF IInv, Types
    <3> QED
      BY <1>1, <1>3, <3>1, <3>2, <3>3 DEF IsToCome
  <2>2. m \in pendingPayments'[b] /\ IsToCome(m, b)'
    <3>1. CASE b \notin stuck
      <4>1. /\ Len(queued[b]) + 1 \in 1 .. Len(queued'[b])
            /\ queued'[b][Len(queued[b]) + 1] = Pay(m)
        BY <1>1, <1>2, <3>1 DEF IInv, Types
      <4> QED
        BY <1>2, <1>3, <4>1 DEF IsToCome
    <3>2. CASE b \in stuck
      BY <1>1, <1>2, <1>3, <3>2 DEF IsToCome
    <3> QED
      BY <3>1, <3>2
  <2> QED
    BY <1>1, <1>2, <2>1, <2>2 DEF Waiting, IsToCome
<1>11. Told'
  BY <1>1, <1>6, ToldKept
<1>12. \A n \in Messages : Known(n)'
  BY <1>1, <1>3, <1>6, KnownKept
<1> QED
  BY <1>5, <1>7, <1>8, <1>9, <1>10, <1>11, <1>12 DEF IInv

LEMMA SendThrowsInvariant ==
  ASSUME IInv, NEW m \in Messages, SendThrows(m)
  PROVE  IInv'
<1>0. PICK b : b = payment[m].from
  OBVIOUS
<1>1. /\ future[m] = "resolved"
      /\ future' = [future EXCEPT ![m] = "thrown"]
      /\ pendingPayments' = [pendingPayments EXCEPT ![b] = @ \cup {m}]
      /\ UNCHANGED <<chain, queued, stuck, handled, final, payment, received, registration, registered, lost>>
  BY <1>0 DEF SendThrows, historyVars
<1>2. b \in Banks /\ payment[m].from = b
  BY <1>0, <1>1 DEF IInv, Known
<1>3. /\ \A n \in Messages : future'[n] = IF n = m THEN "thrown" ELSE future[n]
      /\ \A c \in Banks :
           pendingPayments'[c] = IF c = b THEN pendingPayments[b] \cup {m} ELSE pendingPayments[c]
  BY <1>1, <1>2 DEF IInv, Types
<1>4. Types'
  <2>1. future' \in [Messages -> Futures]
    BY <1>1 DEF IInv, Types, Futures, Unsent
  <2>2. pendingPayments' \in [Banks -> SUBSET Messages]
    BY <1>1, <1>2 DEF IInv, Types
  <2> QED
    BY <1>1, <2>1, <2>2 DEF IInv, Types
<1>5. Steady /\ QueuesCut /\ Grows /\ FinalKept
  <2>1. Steady
    BY <1>1, <1>3 DEF Steady, Unsent, Asked
  <2>2. QueuesCut
    BY <1>1 DEF QueuesCut, IInv, Types
  <2> QED
    BY <1>1, <2>1, <2>2, SameChain DEF Grows
<1>6. Owned' /\ Once'
  BY <1>1, <1>4, <1>5, PlacesKept
<1>7. Verdicts'
  BY <1>3, <1>5, VerdictsKept
<1>8. Pending'
  BY <1>1, <1>2, <1>3 DEF IInv, Pending, Types
<1>9. Waiting'
  <2>1. ASSUME NEW n \in Messages, future'[n] = "waiting"
        PROVE  n \in pendingPayments'[payment[n].from] /\ IsToCome(n, payment[n].from)'
    <3>1. payment[n].from \in Banks /\ future[n] = "waiting"
      BY <1>3, <2>1 DEF IInv, Known
    <3> QED
      BY <1>1, <1>3, <3>1 DEF IInv, Waiting, IsToCome
  <2> QED
    BY <1>1, <2>1 DEF Waiting, IsToCome
<1>10. Told'
  BY <1>1, <1>5, ToldKept
<1>11. \A n \in Messages : Known(n)'
  BY <1>1, <1>3, <1>5, KnownKept
<1> QED
  BY <1>4, <1>6, <1>7, <1>8, <1>9, <1>10, <1>11 DEF IInv

\* registerBic puts a transaction behind the others that is no payment.
LEMMA RegisterBicInvariant ==
  ASSUME IInv, NEW b \in Banks, NEW bic \in Bics, RegisterBic(b, bic)
  PROVE  IInv'
<1> DEFINE tx == SetAddress(b, bic)
<1>1. /\ registration[b][bic] = "none"
      /\ registration' = [registration EXCEPT ![b][bic] = "sent"]
      /\ queued' = IF b \in stuck THEN queued ELSE [queued EXCEPT ![b] = Append(@, tx)]
      /\ UNCHANGED <<chain, stuck, handled, final, payment, future, pendingPayments, received>>
      /\ UNCHANGED <<registered, lost>>
  BY DEF RegisterBic, Queue, historyVars
<1>2. tx \in Txs
  BY DEF SetAddress, Txs, Registrations
<1>3. \A bank, c : tx = SetAddress(bank, c) => bank = b /\ c = bic
  BY DEF SetAddress
<1>4. /\ \A c : ~OfBank(c, tx)
      /\ \A m : tx # Pay(m)
  <2>1. \A c : OfBank(c, tx) => c = b /\ Asked(b, bic)
    BY DEF OfBank, Asked
  <2> QED
    BY <1>1, <2>1, PayIsNotSet DEF Asked
<1> HIDE DEF tx
<1>5. Types'
  <2>1. queued' \in [Banks -> Seq(Txs)]
    BY <1>1, <1>2 DEF IInv, Types
  <2>2. registration' \in [Banks -> [Bics -> {"none", "sent", "true", "false", "gone"}]]
    BY <1>1 DEF IInv, Types
  <2> QED
    BY <1>1, <2>1, <2>2 DEF IInv, Types
<1>6. Steady /\ Grows /\ FinalKept
  <2>1. \A c \in Banks, k \in Bics :
          registration'[c][k] = IF c = b /\ k = bic THEN "sent" ELSE registration[c][k]
    BY <1>1 DEF IInv, Types
  <2>2. \A c \in Banks, k \in Bics : Asked(c, k) => Asked(c, k)'
    BY <2>1 DEF Asked
  <2> QED
    BY <1>1, <2>2, SameChain DEF Steady, Grows, Asked
<1>7. Owned' /\ Once'
  <2>1. CASE b \in stuck
    <3>1. QueuesCut
      BY <1>1, <2>1 DEF QueuesCut, IInv, Types
    <3> QED
      BY <1>1, <1>5, <1>6, <3>1, PlacesKept
  <2>2. CASE b \notin stuck
    <3>1. PICK x : x = tx
      OBVIOUS
    <3>2. registration'[b][bic] = "sent"
      BY <1>1 DEF IInv, Types
    <3>3. OfBank(b, x)'
      BY <1>3, <1>4, <3>1, <3>2 DEF OfBank, Asked
    <3> QED
      BY <1>1, <1>2, <1>4, <1>5, <1>6, <2>2, <3>1, <3>3, PlacesQueued
  <2> QED
    BY <2>1, <2>2
<1>8. Verdicts'
  BY <1>1, <1>6, VerdictsKept
<1>9. Pending'
  BY <1>1 DEF IInv, Pending
<1>10. Waiting'
  <2>1. ASSUME NEW c \in Banks, NEW j \in 1 .. Len(queued[c])
        PROVE  j \in 1 .. Len(queued'[c]) /\ queued'[c][j] = queued[c][j]
    BY <1>1, <2>1 DEF IInv, Types
  <2>2. ASSUME NEW m \in Messages, NEW c \in Banks, IsToCome(m, c) PROVE IsToCome(m, c)'
    BY <1>1, <2>1, <2>2 DEF IsToCome
  <2>3. \A m \in Messages : future[m] = "waiting" => payment[m].from \in Banks
    BY DEF IInv, Known
  <2> QED
    BY <1>1, <2>2, <2>3 DEF IInv, Waiting, IsToCome
<1>11. Told'
  BY <1>1, <1>6, ToldKept
<1>12. \A n \in Messages : Known(n)'
  BY <1>1, <1>6, KnownKept
<1> QED
  BY <1>5, <1>7, <1>8, <1>9, <1>10, <1>11, <1>12 DEF IInv

-------------------------------------------------------------------------------
(* The chain.                                                              *)

LEMMA MineInvariant ==
  ASSUME IInv, NEW b \in Banks, Mine(b)
  PROVE  IInv'
<1>0. PICK tx : tx = Head(queued[b])
  OBVIOUS
<1>1. PICK answer \in Answers(tx) :
        /\ chain' = Append(chain, [tx |-> tx, from |-> b, errorType |-> answer])
        /\ registered' =
             IF tx.kind = "setAddress" /\ answer = 0
               THEN [registered EXCEPT ![tx.bic] = @ \cup {b}]
               ELSE registered
  BY <1>0 DEF Mine
<1>2. /\ queued[b] # <<>>
      /\ queued' = [queued EXCEPT ![b] = Tail(@)]
      /\ UNCHANGED <<stuck, handled, final, payment, future, pendingPayments, received, registration, lost>>
  BY <1>0 DEF Mine, serviceVars
<1>3. PICK entry : entry = [tx |-> tx, from |-> b, errorType |-> answer]
  OBVIOUS
<1>4. PICK n : n = Len(chain)
  OBVIOUS
<1>5. /\ tx \in Txs /\ 1 \in 1 .. Len(queued[b]) /\ queued[b][1] = tx
      /\ Len(queued[b]) \in Nat /\ n \in Nat
  BY <1>0, <1>2, <1>4 DEF IInv, Types
<1>6. /\ OfBank(b, tx)
      /\ \A m \in Messages : tx = Pay(m) => answer \in ErrorTypes(m) \cup {NoResult}
      /\ answer \in 0 .. 5
      /\ entry \in MinedTxs
  <2>1. OfBank(b, tx)
    BY <1>5 DEF IInv, Owned
  <2>2. \A m \in Messages : tx = Pay(m) => answer \in ErrorTypes(m) \cup {NoResult}
    BY <1>1 DEF Answers, Pay
  <2>3. answer \in 0 .. 5
    BY <1>1 DEF Answers, ErrorTypes, NoResult
  <2> QED
    BY <1>3, <1>5, <2>1, <2>2, <2>3 DEF MinedTxs
<1>7. /\ chain' \in Seq(MinedTxs) /\ Len(chain') = n + 1 /\ chain'[n + 1] = entry
      /\ \A i \in 1 .. n : chain'[i] = chain[i]
  BY <1>1, <1>3, <1>4, <1>6 DEF IInv, Types
<1>8. /\ queued' \in [Banks -> Seq(Txs)]
      /\ \A c \in Banks \ {b} : queued'[c] = queued[c]
      /\ Len(queued'[b]) = Len(queued[b]) - 1
      /\ \A j \in 1 .. Len(queued'[b]) :
           j + 1 \in 1 .. Len(queued[b]) /\ queued'[b][j] = queued[b][j + 1]
  BY <1>2, <1>5 DEF IInv, Types
<1>9. /\ registered' \in [Bics -> SUBSET Banks] /\ Grows
      /\ \A bic \in Bics : IsFiniteSet(registered'[bic])
      /\ \A bank \in Banks, bic \in Bics :
           tx = SetAddress(bank, bic) /\ answer = 0 => b \in registered'[bic]
  <2>1. CASE tx.kind = "setAddress" /\ answer = 0
    <3>1. tx.bic \in Bics
      BY <1>5, <2>1 DEF Txs, Payments, Registrations
    <3>2. /\ registered \in [Bics -> SUBSET Banks]
          /\ registered' = [registered EXCEPT ![tx.bic] = @ \cup {b}]
          /\ \A bic \in Bics : IsFiniteSet(registered[bic])
      BY <1>1, <2>1 DEF IInv, Types
    <3>3. IsFiniteSet(registered[tx.bic] \cup {b})
      BY <3>1, <3>2, FS_AddElement
    <3>4. \A bank, bic : tx = SetAddress(bank, bic) => tx.bic = bic
      BY DEF SetAddress
    <3> QED
      BY <3>1, <3>2, <3>3, <3>4 DEF Grows
  <2>2. CASE ~(tx.kind = "setAddress" /\ answer = 0)
    BY <1>1, <2>2 DEF IInv, Types, Grows, SetAddress
  <2> QED
    BY <2>1, <2>2
<1>10. Types'
  BY <1>2, <1>4, <1>5, <1>7, <1>8, <1>9 DEF IInv, Types
<1>11. Steady /\ FinalKept
  BY <1>2, <1>4, <1>5, <1>7 DEF Steady, FinalKept, IInv, Types, Asked
<1>12. ASSUME NEW c \in Banks, NEW j \in 1 .. Len(queued'[c])
       PROVE  \E k \in 1 .. Len(queued[c]) :
                queued'[c][j] = queued[c][k] /\ k = IF c = b THEN j + 1 ELSE j
  <2>1. CASE c = b
    BY <1>8, <1>12, <2>1
  <2>2. CASE c # b
    BY <1>8, <1>12, <2>2
  <2> QED
    BY <2>1, <2>2
<1>13. \A i \in 1 .. Len(chain') : i \in 1 .. n \/ (i = n + 1 /\ chain'[i] = entry)
  BY <1>5, <1>7
<1>14. Owned'
  <2>1. ASSUME NEW c \in Banks, NEW j \in 1 .. Len(queued'[c]) PROVE OfBank(c, queued[c][j])'
    <3>1. PICK k \in 1 .. Len(queued[c]) : queued'[c][j] = queued[c][k]
      BY <1>12, <2>1
    <3>2. OfBank(c, queued[c][k])
      BY DEF IInv, Owned
    <3> QED
      BY <1>2, <3>1, <3>2 DEF OfBank, Asked
  <2>2. ASSUME NEW e, IsMined(e) PROVE IsMined(e)'
    BY <1>9, <1>11, <2>2, IsMinedKept
  <2>3. IsMined(entry)'
    <3>1. entry.tx = tx /\ entry.from = b /\ entry.errorType = answer
      BY <1>3
    <3>2. OfBank(b, tx)'
      BY <1>6, <1>11, OfBankKept
    <3>3. \A bank \in Banks, bic \in Bics :
            tx = SetAddress(bank, bic) /\ answer = 0 => bank \in registered'[bic]
      BY <1>6, <1>9 DEF OfBank, Asked
    <3>4. \A m \in Messages : tx = Pay(m) => answer \in ErrorTypes(m)' \cup {NoResult}
      BY <1>2, <1>6 DEF ErrorTypes
    <3> QED
      BY <3>1, <3>2, <3>3, <3>4 DEF IsMined
  <2>4. ASSUME NEW i \in 1 .. Len(chain'), NEW e, e = chain'[i] PROVE IsMined(e)'
    BY <1>4, <1>7, <1>13, <2>2, <2>3, <2>4 DEF IInv, Owned
  <2>5. ASSUME NEW i \in 1 .. Len(chain') PROVE IsMined(chain[i])'
    BY <2>4 DEF IsMined, OfBank, ErrorTypes, Asked
  <2> QED
    BY <2>1, <2>5 DEF Owned
<1>15. Once'
  <2> SUFFICES ASSUME NEW t \in Txs
               PROVE  /\ \A i, j \in 1 .. Len(chain') :
                           chain'[i].tx = t /\ chain'[j].tx = t => i = j
                      /\ \A c \in Banks : \A i, j \in 1 .. Len(queued'[c]) :
                           queued'[c][i] = t /\ queued'[c][j] = t => i = j
                      /\ \A c \in Banks : \A i \in 1 .. Len(chain'), j \in 1 .. Len(queued'[c]) :
                           ~(chain'[i].tx = t /\ queued'[c][j] = t)
    BY DEF Once
  <2>1. /\ \A i, j \in 1 .. n : chain[i].tx = t /\ chain[j].tx = t => i = j
        /\ \A c \in Banks : \A i, j \in 1 .. Len(queued[c]) :
             queued[c][i] = t /\ queued[c][j] = t => i = j
        /\ \A c \in Banks : \A i \in 1 .. n, j \in 1 .. Len(queued[c]) :
             ~(chain[i].tx = t /\ queued[c][j] = t)
    BY <1>4 DEF IInv, Once
  <2>2. entry.tx = tx
    BY <1>3
  <2>3. \A i, j \in 1 .. Len(chain') :
          chain'[i].tx = t /\ chain'[j].tx = t => i = j
    BY <1>5, <1>7, <1>13, <2>1, <2>2
  <2>4. ASSUME NEW c \in Banks, NEW i \in 1 .. Len(queued'[c]), NEW j \in 1 .. Len(queued'[c]),
               queued'[c][i] = t, queued'[c][j] = t
        PROVE  i = j
    <3>1. PICK k \in 1 .. Len(queued[c]) :
            queued'[c][i] = queued[c][k] /\ k = IF c = b THEN i + 1 ELSE i
      BY <1>12
    <3>2. PICK l \in 1 .. Len(queued[c]) :
            queued'[c][j] = queued[c][l] /\ l = IF c = b THEN j + 1 ELSE j
      BY <1>12
    <3>3. queued[c][k] = t /\ queued[c][l] = t
      BY <2>4, <3>1, <3>2
    <3>4. k = l
      BY <2>1, <3>3
    <3>5. i \in Int /\ j \in Int
      OBVIOUS
    <3> QED
      BY <3>1, <3>2, <3>4, <3>5
  <2>5. ASSUME NEW c \in Banks, NEW i \in 1 .. Len(chain'), NEW j \in 1 .. Len(queued'[c]),
               chain'[i].tx = t, queued'[c][j] = t
        PROVE  FALSE
    <3>1. PICK k \in 1 .. Len(queued[c]) :
            queued'[c][j] = queued[c][k] /\ k = IF c = b THEN j + 1 ELSE j
      BY <1>12, <2>5
    <3>2. CASE i \in 1 .. n
      BY <1>7, <2>1, <2>5, <3>1, <3>2
    <3>3. CASE tx = t
      <4>1. OfBank(c, t) /\ OfBank(b, t)
        BY <1>6, <2>5, <3>1, <3>3 DEF IInv, Owned
      <4>2. c = b
        BY <4>1, OfOneBank
      <4>3. k = 1
        BY <1>5, <2>1, <2>5, <3>1, <3>3, <4>2
      <4> QED
        BY <2>5, <3>1, <4>2, <4>3
    <3> QED
      BY <1>13, <2>2, <2>5, <3>2, <3>3
  <2> QED
    BY <2>3, <2>4, <2>5
<1>16. Verdicts'
  BY <1>2, <1>11, VerdictsKept
<1>17. Pending'
  BY <1>2 DEF IInv, Pending
<1>18. Waiting'
  <2>1. ASSUME NEW m \in Messages, NEW c \in Banks, IsToCome(m, c), OfBank(b, tx)
        PROVE  IsToCome(m, c)'
    <3>1. CASE c \in stuck
      BY <1>2, <3>1 DEF IsToCome
    <3>2. ASSUME NEW i \in 1 .. Len(chain), chain[i].tx = Pay(m),
                 i > handled[c] \/ chain[i].errorType = NoResult \/ <<c, i>> \in lost
          PROVE  IsToCome(m, c)'
      <4>1. i \in 1 .. Len(chain') /\ chain'[i] = chain[i]
        BY <1>4, <1>5, <1>7
      <4> QED
        BY <1>2, <3>2, <4>1 DEF IsToCome
    <3>3. ASSUME NEW k \in 1 .. Len(queued[c]), queued[c][k] = Pay(m) PROVE IsToCome(m, c)'
      <4>1. CASE c # b
        BY <1>8, <3>3, <4>1 DEF IsToCome
      <4>2. CASE c = b /\ k # 1
        <5>1. k - 1 \in 1 .. Len(queued'[b]) /\ queued'[b][k - 1] = Pay(m)
          BY <1>5, <1>8, <3>3, <4>2
        <5> QED
          BY <4>2, <5>1 DEF IsToCome
      <4>3. CASE c = b /\ k = 1
        <5>1. chain'[n + 1].tx = Pay(m)
          BY <1>3, <1>5, <1>7, <3>3, <4>3
        <5>2. n + 1 \in 1 .. Len(chain') /\ n + 1 > handled'[b]
          BY <1>2, <1>4, <1>5, <1>7 DEF IInv, Types
        <5> QED
          BY <4>3, <5>1, <5>2 DEF IsToCome
      <4> QED
        BY <4>1, <4>2, <4>3
    <3> QED
      BY <2>1, <3>1, <3>2, <3>3 DEF IsToCome
  <2>2. \A m \in Messages : future[m] = "waiting" => payment[m].from \in Banks
    BY DEF IInv, Known
  <2> QED
    BY <1>2, <1>6, <2>1, <2>2 DEF IInv, Waiting, IsToCome
<1>19. Told'
  BY <1>2, <1>9, <1>11, ToldKept
<1>20. \A m \in Messages : Known(m)'
  BY <1>2, <1>9, KnownKept
<1> QED
  BY <1>10, <1>14, <1>15, <1>16, <1>17, <1>18, <1>19, <1>20 DEF IInv

\* What is taken back was not final, and goes ahead of its bank's queue.
LEMMA UnmineInvariant ==
  ASSUME IInv, Unmine
  PROVE  IInv'
<1>0. PICK entry, n : entry = Last(chain) /\ n = Len(chain)
  OBVIOUS
<1>1. PICK b, tx : b = entry.from /\ tx = entry.tx
  OBVIOUS
<1>2. /\ final < n
      /\ chain' = Front(chain)
      /\ queued' = [queued EXCEPT ![b] = <<tx>> \o @]
      /\ UNCHANGED <<stuck, handled, final, payment, future, pendingPayments, received>>
      /\ UNCHANGED <<registration, registered, lost>>
  BY <1>0, <1>1 DEF Unmine, serviceVars, historyVars
<1>3. n \in Nat /\ n \in 1 .. Len(chain) /\ chain[n] = entry
  BY <1>0, <1>2 DEF IInv, Types, Last
<1>4. entry \in MinedTxs /\ b \in Banks /\ tx \in Txs /\ IsMined(entry)
  <2>1. entry \in MinedTxs
    BY <1>3 DEF IInv, Types
  <2>2. IsMined(entry)
    BY <1>3 DEF IInv, Owned
  <2> QED
    BY <1>1, <2>1, <2>2 DEF MinedTxs
<1>5. /\ chain' \in Seq(MinedTxs) /\ Len(chain') = n - 1
      /\ \A i \in 1 .. n - 1 : i \in 1 .. Len(chain) /\ chain'[i] = chain[i]
  <2>1. chain \in Seq(MinedTxs) /\ chain' = SubSeq(chain, 1, n - 1) /\ n = Len(chain)
    BY <1>0, <1>2 DEF IInv, Types, Front
  <2> QED
    BY <1>3, <2>1
<1>6. /\ queued' \in [Banks -> Seq(Txs)]
      /\ \A c \in Banks \ {b} : queued'[c] = queued[c]
      /\ Len(queued'[b]) = Len(queued[b]) + 1 /\ Len(queued[b]) \in Nat
      /\ queued'[b][1] = tx
      /\ \A j \in 1 .. Len(queued[b]) : queued'[b][j + 1] = queued[b][j]
  BY <1>2, <1>4 DEF IInv, Types
<1>7. Types'
  BY <1>2, <1>3, <1>5, <1>6 DEF IInv, Types
<1>8. Steady /\ FinalKept /\ Grows
  BY <1>2, <1>3, <1>5 DEF Steady, FinalKept, Grows, IInv, Types, Asked
<1>9. ASSUME NEW c \in Banks, NEW j \in 1 .. Len(queued'[c])
      PROVE  \/ c = b /\ j = 1 /\ queued'[c][j] = tx
             \/ \E k \in 1 .. Len(queued[c]) :
                  queued'[c][j] = queued[c][k] /\ j = IF c = b THEN k + 1 ELSE k
  <2>1. CASE c = b /\ j = 1
    BY <1>6, <2>1
  <2>2. CASE c = b /\ j # 1
    <3>1. j - 1 \in 1 .. Len(queued[b]) /\ j = (j - 1) + 1
      BY <1>6, <1>9, <2>2
    <3>2. queued'[b][j] = queued[b][j - 1]
      BY <1>6, <3>1
    <3> QED
      BY <2>2, <3>1, <3>2
  <2>3. CASE c # b
    BY <1>6, <1>9, <2>3
  <2> QED
    BY <2>1, <2>2, <2>3
<1>10. Owned'
  <2>1. ASSUME NEW c \in Banks, NEW j \in 1 .. Len(queued'[c]) PROVE OfBank(c, queued[c][j])'
    <3>1. OfBank(b, tx)
      BY <1>1, <1>4 DEF IsMined
    <3>2. \A k \in 1 .. Len(queued[c]) : OfBank(c, queued[c][k])
      BY DEF IInv, Owned
    <3>3. PICK x : x = queued'[c][j]
      OBVIOUS
    <3>4. OfBank(c, x)
      BY <1>9, <2>1, <3>1, <3>2, <3>3
    <3> QED
      BY <1>2, <3>3, <3>4 DEF OfBank, Asked
  <2>2. ASSUME NEW i \in 1 .. Len(chain') PROVE IsMined(chain[i])'
    <3>1. PICK e : e = chain[i]
      OBVIOUS
    <3>2. e = chain'[i] /\ IsMined(e)
      BY <1>3, <1>5, <2>2, <3>1 DEF IInv, Owned
    <3>3. IsMined(e)'
      BY <1>8, <3>2, IsMinedKept
    <3> QED
      BY <3>2, <3>3 DEF IsMined, OfBank, ErrorTypes, Asked
  <2> QED
    BY <2>1, <2>2 DEF Owned
<1>11. Once'
  <2> SUFFICES ASSUME NEW t \in Txs
               PROVE  /\ \A i, j \in 1 .. Len(chain') :
                           chain'[i].tx = t /\ chain'[j].tx = t => i = j
                      /\ \A c \in Banks : \A i, j \in 1 .. Len(queued'[c]) :
                           queued'[c][i] = t /\ queued'[c][j] = t => i = j
                      /\ \A c \in Banks : \A i \in 1 .. Len(chain'), j \in 1 .. Len(queued'[c]) :
                           ~(chain'[i].tx = t /\ queued'[c][j] = t)
    BY DEF Once
  <2>1. /\ \A i, j \in 1 .. n : chain[i].tx = t /\ chain[j].tx = t => i = j
        /\ \A c \in Banks : \A i, j \in 1 .. Len(queued[c]) :
             queued[c][i] = t /\ queued[c][j] = t => i = j
        /\ \A c \in Banks : \A i \in 1 .. n, j \in 1 .. Len(queued[c]) :
             ~(chain[i].tx = t /\ queued[c][j] = t)
    BY <1>0 DEF IInv, Once
  <2>2. \A i \in 1 .. Len(chain') : i \in 1 .. n /\ i # n /\ chain'[i] = chain[i]
    BY <1>3, <1>5
  <2>3. n \in 1 .. n /\ chain[n].tx = tx
    BY <1>1, <1>3
  <2>4. \A i, j \in 1 .. Len(chain') :
          chain'[i].tx = t /\ chain'[j].tx = t => i = j
    BY <2>1, <2>2
  <2>5. ASSUME NEW c \in Banks, NEW i \in 1 .. Len(queued'[c]), NEW j \in 1 .. Len(queued'[c]),
               queued'[c][i] = t, queued'[c][j] = t
        PROVE  i = j
    BY <1>9, <2>1, <2>3, <2>5
  <2>6. ASSUME NEW c \in Banks, NEW i \in 1 .. Len(chain'), NEW j \in 1 .. Len(queued'[c]),
               chain'[i].tx = t, queued'[c][j] = t
        PROVE  FALSE
    BY <1>9, <2>1, <2>2, <2>3, <2>6
  <2> QED
    BY <2>4, <2>5, <2>6
<1>12. Verdicts'
  BY <1>2, <1>8, VerdictsKept
<1>13. Pending'
  BY <1>2 DEF IInv, Pending
<1>14. Waiting'
  <2>1. ASSUME NEW m \in Messages, NEW c \in Banks, IsToCome(m, c),
               payment[m].from = c
        PROVE  IsToCome(m, c)'
    <3>1. CASE c \in stuck
      BY <1>2, <3>1 DEF IsToCome
    <3>2. ASSUME NEW k \in 1 .. Len(queued[c]), queued[c][k] = Pay(m) PROVE IsToCome(m, c)'
      <4>1. CASE c # b
        BY <1>6, <3>2, <4>1 DEF IsToCome
      <4>2. CASE c = b
        <5>1. k + 1 \in 1 .. Len(queued'[b]) /\ queued'[b][k + 1] = Pay(m)
          BY <1>6, <3>2, <4>2
        <5> QED
          BY <4>2, <5>1 DEF IsToCome
      <4> QED
        BY <4>1, <4>2
    <3>3. ASSUME NEW i \in 1 .. Len(chain), chain[i].tx = Pay(m),
                 i > handled[c] \/ chain[i].errorType = NoResult \/ <<c, i>> \in lost
          PROVE  IsToCome(m, c)'
      <4>1. CASE i = n
        <5>1. tx = Pay(m)
          BY <1>1, <1>3, <3>3, <4>1
        <5>2. c = b
          BY <1>1, <1>4, <2>1, <5>1 DEF IsMined, OfBank
        <5>3. 1 \in 1 .. Len(queued'[b])
          BY <1>6
        <5> QED
          BY <1>6, <5>1, <5>2, <5>3 DEF IsToCome
      <4>2. CASE i # n
        <5>1. i \in 1 .. Len(chain') /\ chain'[i] = chain[i]
          BY <1>0, <1>3, <1>5, <4>2
        <5> QED
          BY <1>2, <3>3, <5>1 DEF IsToCome
      <4> QED
        BY <4>1, <4>2
    <3> QED
      BY <2>1, <3>1, <3>2, <3>3 DEF IsToCome
  <2>2. \A m \in Messages : future[m] = "waiting" => payment[m].from \in Banks
    BY DEF IInv, Known
  <2> QED
    BY <1>2, <2>1, <2>2 DEF IInv, Waiting, IsToCome
<1>15. Told'
  BY <1>2, <1>8, ToldKept
<1>16. \A m \in Messages : Known(m)'
  BY <1>2, <1>8, KnownKept
<1> QED
  BY <1>7, <1>10, <1>11, <1>12, <1>13, <1>14, <1>15, <1>16 DEF IInv

LEMMA DropInvariant ==
  ASSUME IInv, NEW b \in Banks, NEW i \in DOMAIN queued[b], Drop(b, i)
  PROVE  IInv'
<1>1. /\ queued' = [queued EXCEPT ![b] = SubSeq(@, 1, i - 1)]
      /\ stuck' = stuck \cup {b}
      /\ UNCHANGED <<chain, handled, final, payment, future, pendingPayments, received>>
      /\ UNCHANGED <<registration, registered, lost>>
  BY DEF Drop, serviceVars, historyVars
<1>2. queued' \in [Banks -> Seq(Txs)] /\ QueuesCut
  <2>1. /\ queued[b] \in Seq(Txs) /\ i \in 1 .. Len(queued[b]) /\ Len(queued[b]) \in Nat
        /\ queued \in [Banks -> Seq(Txs)]
    BY DEF IInv, Types
  <2> DEFINE q == SubSeq(queued[b], 1, i - 1)
  <2>2. /\ q \in Seq(Txs) /\ Len(q) = i - 1
        /\ \A j \in 1 .. i - 1 : q[j] = queued[b][j]
    BY <2>1
  <2>3. queued' = [queued EXCEPT ![b] = q]
    BY <1>1
  <2> HIDE DEF q
  <2>4. queued' \in [Banks -> Seq(Txs)] /\ queued'[b] = q
        /\ \A c \in Banks \ {b} : queued'[c] = queued[c]
    BY <2>1, <2>2, <2>3
  <2>5. \A c \in Banks : Len(queued[c]) \in Nat
    BY <2>1
  <2> QED
    BY <2>1, <2>2, <2>4, <2>5 DEF QueuesCut
<1>3. Types'
  BY <1>1, <1>2 DEF IInv, Types
<1>4. Steady /\ FinalKept /\ Grows
  BY <1>1, SameChain DEF Steady, Grows, Asked
<1>5. Owned' /\ Once'
  BY <1>1, <1>2, <1>3, <1>4, PlacesKept
<1>6. Verdicts'
  BY <1>1, <1>4, VerdictsKept
<1>7. Pending'
  BY <1>1 DEF IInv, Pending
<1>8. Waiting'
  <2>1. ASSUME NEW m \in Messages, NEW c \in Banks, IsToCome(m, c) PROVE IsToCome(m, c)'
    <3>1. CASE c = b
      BY <1>1, <3>1 DEF IsToCome
    <3>2. CASE c # b
      <4>1. queued'[c] = queued[c]
        BY <1>1, <3>2 DEF IInv, Types
      <4> QED
        BY <1>1, <2>1, <4>1 DEF IsToCome
    <3> QED
      BY <3>1, <3>2
  <2>2. \A m \in Messages : future[m] = "waiting" => payment[m].from \in Banks
    BY DEF IInv, Known
  <2> QED
    BY <1>1, <2>1, <2>2 DEF IInv, Waiting, IsToCome
<1>9. Told'
  BY <1>1, <1>4, ToldKept
<1>10. \A m \in Messages : Known(m)'
  BY <1>1, <1>4, KnownKept
<1> QED
  BY <1>3, <1>5, <1>6, <1>7, <1>8, <1>9, <1>10 DEF IInv

-------------------------------------------------------------------------------
(* The events.                                                             *)

LEMMA FinalMoves ==
  ASSUME IInv, NEW b \in Banks, NEW i \in 0 .. Len(chain), HandledTo(b, i), chain' = chain
  PROVE  /\ final' \in Nat /\ final <= final' /\ final' <= Len(chain) /\ i <= final'
         /\ handled' \in [Banks -> Nat]
         /\ \A c \in Banks : handled'[c] = (IF c = b THEN i ELSE handled[c]) /\ handled'[c] <= final'
         /\ FinalKept
<1>1. /\ final \in Nat /\ i \in Nat /\ Len(chain) \in Nat /\ i <= Len(chain)
      /\ final <= Len(chain)
      /\ handled \in [Banks -> Nat] /\ \A c \in Banks : handled[c] <= final
  BY DEF IInv, Types
<1>2. final' = IF final >= i THEN final ELSE i
  BY <1>1, MaxOfTwo DEF HandledTo
<1>3. handled' = [handled EXCEPT ![b] = i]
  BY DEF HandledTo
<1>4. \A c \in Banks : handled'[c] = IF c = b THEN i ELSE handled[c]
  BY <1>1, <1>3
<1> QED
  BY <1>1, <1>2, <1>3, <1>4 DEF FinalKept

\* The listener is told of an accepted payment if the registrar says that its
\* BIC is this bank's.
LEMMA ToldOfBooked ==
  ASSUME IInv, Steady, FinalKept, NEW b \in Banks, NEW m \in Messages,
         NEW i \in 1 .. Len(chain), chain[i].tx = Pay(m), chain[i].errorType = 0,
         i <= final', final' \in Nat,
         received' \in {received, ToldOf(b, m, 0)},
         UNCHANGED <<chain, payment, registration, registered>>
  PROVE  received' \in [Banks -> Seq(Messages)] /\ Told'
<1>1. i \in 1 .. final' /\ i \in 1 .. Len(chain) /\ IsMined(chain[i])
  BY DEF IInv, Types, Owned
<1>2. future[m] \notin Unsent
  BY <1>1 DEF IsMined, OfBank
<1>3. payment[m].toBic \in Bics
  BY <1>2 DEF IInv, Known, Unsent
<1>4. IsBooked(b, m)' \/ ~ForUs(b, m)
  <2>1. ASSUME ForUs(b, m) PROVE b \in registered[payment[m].toBic]
    BY <1>3, <2>1, AnswerIsRegistered, NamesAssumption DEF ForUs
  <2> QED
    BY <1>1, <2>1 DEF IsBooked, IsFinal
<1>5. received \in [Banks -> Seq(Messages)]
  BY DEF IInv, Types
<1>6. \/ received' = received
      \/ ForUs(b, m) /\ received' = [received EXCEPT ![b] = Append(@, m)]
  BY DEF ToldOf
<1>7. received' \in [Banks -> Seq(Messages)]
  <2>1. Append(received[b], m) \in Seq(Messages)
    BY <1>5
  <2> QED
    BY <1>5, <1>6, <2>1
<1>8. ASSUME NEW c \in Banks, NEW j \in 1 .. Len(received'[c])
      PROVE  \/ \E k \in 1 .. Len(received[c]) : received'[c][j] = received[c][k]
             \/ IsBooked(c, received[c][j])'
  <2>1. CASE j \in 1 .. Len(received[c]) /\ received'[c][j] = received[c][j]
    BY <2>1
  <2>2. CASE c = b /\ received'[c][j] = m /\ ForUs(b, m)
    BY <1>4, <2>2 DEF IsBooked, IsFinal
  <2>3. \/ j \in 1 .. Len(received[c]) /\ received'[c][j] = received[c][j]
        \/ c = b /\ received'[c][j] = m /\ ForUs(b, m)
    <3>1. CASE received' = received
      BY <1>8, <3>1
    <3>2. CASE ForUs(b, m) /\ received' = [received EXCEPT ![b] = Append(@, m)]
      <4>1. CASE c = b
        <5>1. received'[b] = Append(received[b], m) /\ received[b] \in Seq(Messages)
          BY <1>5, <3>2
        <5> QED
          BY <1>8, <3>2, <4>1, <5>1
      <4>2. CASE c # b
        BY <1>5, <1>8, <3>2, <4>2
      <4> QED
        BY <4>1, <4>2
    <3> QED
      BY <1>6, <3>1, <3>2
  <2> QED
    BY <2>1, <2>2, <2>3
<1> QED
  BY <1>7, <1>8, ToldKept DEF Grows

\* The next entry of a service whose events are of a payment.
LEMMA NextPayment ==
  ASSUME IInv, NEW b \in Banks, IsPayment(b), NEW m, m = NextEntry(b).tx.id,
         NEW i, i = handled[b] + 1
  PROVE  /\ i \in 1 .. Len(chain) /\ i \in 0 .. Len(chain) /\ m \in Messages
         /\ chain[i] \in MinedTxs /\ chain[i].tx = Pay(m) /\ IsMined(chain[i])
<1>1. i \in 1 .. Len(chain) /\ i \in 0 .. Len(chain)
  BY DEF IInv, Types, IsPayment, HasEvents
<1>2. chain[i] \in MinedTxs /\ IsMined(chain[i])
  BY <1>1 DEF IInv, Types, Owned
<1>3. chain[i].tx \in Payments
  BY <1>2 DEF IsPayment, NextEntry, MinedTxs, Txs, Registrations
<1>4. m \in Messages /\ chain[i].tx = Pay(m)
  BY <1>3 DEF NextEntry, Payments, Pay
<1> QED
  BY <1>1, <1>2, <1>4

LEMMA FirePaymentInvariant ==
  ASSUME IInv, NEW b \in Banks, FirePayment(b)
  PROVE  IInv'
<1>0. PICK m, i : m = NextEntry(b).tx.id /\ i = handled[b] + 1
  OBVIOUS
<1>1. PICK errorType : errorType = chain[i].errorType
  OBVIOUS
<1>2. /\ IsPayment(b) /\ HandledTo(b, i)
      /\ received' = ToldOf(b, m, errorType)
      /\ Answered(b, m, errorType)
      /\ UNCHANGED <<chain, queued, stuck, payment, registration, registered, lost>>
  BY <1>0, <1>1 DEF FirePayment, NextEntry, historyVars
<1>3. /\ i \in 1 .. Len(chain) /\ i \in 0 .. Len(chain) /\ m \in Messages
      /\ chain[i] \in MinedTxs /\ chain[i].tx = Pay(m) /\ IsMined(chain[i])
  BY <1>0, <1>2, NextPayment
<1>4. /\ final' \in Nat /\ final <= final' /\ final' <= Len(chain) /\ i <= final'
      /\ handled' \in [Banks -> Nat]
      /\ \A c \in Banks : handled'[c] = (IF c = b THEN i ELSE handled[c]) /\ handled'[c] <= final'
      /\ FinalKept
  BY <1>2, <1>3, FinalMoves
<1>5. chain[i].from = payment[m].from /\ future[m] \notin Unsent
  BY <1>3 DEF IsMined, OfBank
<1>6. \/ /\ payment[m].from = b /\ m \in pendingPayments[b]
         /\ pendingPayments' = [pendingPayments EXCEPT ![b] = @ \ {m}]
         /\ future' = [future EXCEPT ![m] = Outcome(errorType)]
      \/ /\ ~(payment[m].from = b /\ m \in pendingPayments[b])
         /\ UNCHANGED <<pendingPayments, future>>
  BY <1>0, <1>2, <1>5 DEF Answered, NextEntry
<1>7. \A n \in Messages : future'[n] = future[n]
        \/ (n = m /\ payment[m].from = b /\ future'[n] = Outcome(errorType))
  BY <1>6 DEF IInv, Types
<1>8. Outcome(errorType) \in {"done", "failed"}
  BY DEF Outcome
<1>9. Steady /\ QueuesCut /\ Grows
  <2>1. Steady
    BY <1>2, <1>7, <1>8 DEF Steady, Unsent, Asked
  <2> QED
    BY <1>2, <2>1 DEF QueuesCut, Grows, IInv, Types
<1>10. received' \in [Banks -> Seq(Messages)] /\ Told'
  <2>1. CASE errorType = 0
    BY <1>1, <1>2, <1>3, <1>4, <1>9, <2>1, ToldOfBooked
  <2>2. CASE errorType # 0
    <3>1. received' = received
      BY <1>2, <2>2 DEF ToldOf
    <3>2. Told'
      BY <1>4, <1>9, <3>1, ToldKept
    <3> QED
      BY <3>1, <3>2 DEF IInv, Types
  <2> QED
    BY <2>1, <2>2
<1>11. Types'
  <2>1. Outcome(errorType) \in Futures
    BY <1>8 DEF Futures
  <2>2. future' \in [Messages -> Futures]
    BY <1>6, <2>1 DEF IInv, Types
  <2>3. pendingPayments \in [Banks -> SUBSET Messages]
    BY DEF IInv, Types
  <2>4. pendingPayments[b] \ {m} \in SUBSET Messages
    BY <2>3
  <2>5. pendingPayments' \in [Banks -> SUBSET Messages]
    BY <1>6, <2>3, <2>4
  <2> QED
    BY <1>2, <1>4, <1>10, <2>2, <2>5 DEF IInv, Types
<1>12. Owned' /\ Once'
  BY <1>2, <1>9, <1>11, PlacesKept
<1>13. Verdicts'
  <2>1. ASSUME NEW n \in Messages, NEW j \in 1 .. final, IsFinal(n, j)
        PROVE  j \in 1 .. final' /\ IsFinal(n, j)' /\ chain'[j] = chain[j]
    BY <1>4, <2>1 DEF FinalKept, IsFinal
  <2>2. i \in 1 .. final' /\ IsFinal(m, i)' /\ chain'[i].errorType = errorType
    BY <1>1, <1>2, <1>3, <1>4 DEF IsFinal
  <2>3. ASSUME NEW n \in Messages, future'[n] = "done"
        PROVE  \E j \in 1 .. final' : IsFinal(n, j)' /\ chain'[j].errorType = 0
    <3>1. CASE future'[n] = future[n]
      BY <2>1, <2>3, <3>1 DEF IInv, Verdicts
    <3>2. CASE n = m /\ future'[n] = Outcome(errorType)
      BY <2>2, <2>3, <3>2 DEF Outcome
    <3> QED
      BY <1>7, <2>3, <3>1, <3>2
  <2>4. ASSUME NEW n \in Messages, future'[n] = "failed"
        PROVE  \E j \in 1 .. final' : IsFinal(n, j)' /\ chain'[j].errorType \in 1 .. 4
    <3>1. CASE future'[n] = future[n]
      BY <2>1, <2>4, <3>1 DEF IInv, Verdicts
    <3>2. CASE n = m /\ future'[n] = Outcome(errorType)
      <4>1. errorType \in 0 .. 5 /\ errorType # NoResult
        BY <1>0, <1>1, <1>2, <1>3 DEF MinedTxs, IsPayment, NextEntry
      <4> QED
        BY <2>2, <2>4, <3>2, <4>1 DEF Outcome, NoResult
    <3> QED
      BY <1>7, <2>4, <3>1, <3>2
  <2> QED
    BY <2>3, <2>4 DEF Verdicts
<1>14. Pending'
  <2> SUFFICES ASSUME NEW c \in Banks, NEW n \in pendingPayments'[c]
               PROVE  payment[n].from = c /\ future'[n] \in {"waiting", "thrown"}
    BY <1>2 DEF Pending
  <2>0. pendingPayments \in [Banks -> SUBSET Messages]
    BY DEF IInv, Types
  <2>1. n \in pendingPayments[c] /\ n \in Messages
    <3>1. CASE pendingPayments' = [pendingPayments EXCEPT ![b] = @ \ {m}]
      <4>1. CASE c = b
        BY <2>0, <3>1, <4>1
      <4>2. CASE c # b
        BY <2>0, <3>1, <4>2
      <4> QED
        BY <4>1, <4>2
    <3>2. CASE pendingPayments' = pendingPayments
      BY <2>0, <3>2
    <3> QED
      BY <1>6, <3>1, <3>2
  <2>2. payment[n].from = c /\ future[n] \in {"waiting", "thrown"}
    BY <2>1 DEF IInv, Pending
  <2>3. CASE n = m /\ c = b
    BY <1>6, <2>1, <2>2, <2>3 DEF IInv, Types
  <2>4. CASE ~(n = m /\ c = b)
    BY <1>7, <2>1, <2>2, <2>4
  <2> QED
    BY <2>3, <2>4
<1>15. Waiting'
  <2>1. ASSUME NEW n \in Messages, NEW c \in Banks, payment[n].from = c, future'[n] = "waiting"
        PROVE  n \in pendingPayments'[c] /\ IsToCome(n, c)'
    <3>1. future[n] = "waiting" /\ ~(n = m /\ c = b)
      <4>1. future[n] = "waiting"
        BY <1>7, <1>8, <2>1
      <4>2. n \in pendingPayments[c]
        BY <2>1, <4>1 DEF IInv, Waiting
      <4>3. ASSUME n = m, c = b PROVE FALSE
        BY <1>6, <1>8, <2>1, <4>2, <4>3 DEF IInv, Types
      <4> QED
        BY <4>1, <4>3
    <3>2. n \in pendingPayments[c] /\ IsToCome(n, c)
      BY <2>1, <3>1 DEF IInv, Waiting
    <3>3. n \in pendingPayments'[c]
      BY <1>6, <3>1, <3>2 DEF IInv, Types
    <3>4. ASSUME NEW j \in 1 .. Len(chain), chain[j].tx = Pay(n), j > handled[c]
          PROVE  j > handled'[c]
      <4>1. c = b => j # i
        BY <1>3, <3>1, <3>4, PayIsOf
      <4> QED
        BY <1>0, <1>3, <1>4, <3>4, <4>1 DEF IInv, Types
    <3> QED
      BY <1>2, <3>2, <3>3, <3>4 DEF IsToCome
  <2>2. \A n \in Messages : future'[n] = "waiting" => payment[n].from \in Banks
    BY <1>7, <1>8 DEF IInv, Known
  <2> QED
    BY <1>2, <2>1, <2>2 DEF Waiting, IsToCome
<1>16. \A n \in Messages : Known(n)'
  BY <1>2, <1>5, <1>7, <1>8, <1>9, KnownKept DEF Unsent
<1> QED
  BY <1>10, <1>11, <1>12, <1>13, <1>14, <1>15, <1>16 DEF IInv

\* Events that answer nobody: they are of no payment, or there are none, or lost.
LEMMA SkipInvariant ==
  ASSUME IInv, NEW b \in Banks, NEW i \in 0 .. Len(chain), HandledTo(b, i), lost \subseteq lost',
         \A j \in handled[b] + 1 .. i :
           \/ <<b, j>> \in lost'
           \/ chain[j].errorType = NoResult
           \/ \A m \in Messages : chain[j].tx # Pay(m),
         FinalKept => received' \in [Banks -> Seq(Messages)] /\ Told',
         UNCHANGED <<chain, queued, stuck, payment, future, pendingPayments, registration, registered>>
  PROVE  IInv'
<1>1. /\ final' \in Nat /\ final <= final' /\ final' <= Len(chain) /\ i <= final'
      /\ handled' \in [Banks -> Nat]
      /\ \A c \in Banks : handled'[c] = (IF c = b THEN i ELSE handled[c]) /\ handled'[c] <= final'
      /\ FinalKept
  BY FinalMoves
<1>2. Steady /\ QueuesCut /\ Grows
  BY DEF Steady, QueuesCut, Grows, IInv, Types, Asked
<1>3. Types'
  BY <1>1 DEF IInv, Types
<1>4. Owned' /\ Once'
  BY <1>2, <1>3, PlacesKept
<1>5. Verdicts'
  BY <1>1, VerdictsKept
<1>6. Pending'
  BY DEF IInv, Pending
<1>7. Waiting'
  <2>1. ASSUME NEW m \in Messages, NEW c \in Banks, IsToCome(m, c) PROVE IsToCome(m, c)'
    <3>1. ASSUME NEW j \in 1 .. Len(chain), chain[j].tx = Pay(m), j > handled[c]
          PROVE  j > handled'[c] \/ chain[j].errorType = NoResult \/ <<c, j>> \in lost'
      <4>1. handled[c] \in Nat /\ handled[b] \in Nat /\ j \in Nat
        BY DEF IInv, Types
      <4>2. CASE c # b
        BY <1>1, <3>1, <4>2
      <4>3. CASE c = b /\ j > i
        BY <1>1, <4>3
      <4>4. CASE c = b /\ j <= i
        <5>1. j \in handled[b] + 1 .. i
          BY <3>1, <4>1, <4>4
        <5> QED
          BY <3>1, <4>4, <5>1
      <4> QED
        BY <4>1, <4>2, <4>3, <4>4
    <3> QED
      BY <2>1, <3>1 DEF IsToCome
  <2>2. \A m \in Messages : future[m] = "waiting" => payment[m].from \in Banks
    BY DEF IInv, Known
  <2> QED
    BY <2>1, <2>2 DEF IInv, Waiting, IsToCome
<1>8. \A m \in Messages : Known(m)'
  BY <1>2, KnownKept
<1> QED
  BY <1>1, <1>3, <1>4, <1>5, <1>6, <1>7, <1>8 DEF IInv

LEMMA FireNothingInvariant ==
  ASSUME IInv, NEW b \in Banks, FireNothing(b)
  PROVE  IInv'
<1>0. PICK i : i = handled[b] + 1
  OBVIOUS
<1>1. /\ HasEvents(b) /\ ~IsPayment(b) /\ HandledTo(b, i)
      /\ UNCHANGED <<chain, queued, stuck, payment, future, pendingPayments, received>>
      /\ UNCHANGED <<registration, registered, lost>>
  BY <1>0 DEF FireNothing, serviceVars, historyVars
<1>2. /\ i \in 0 .. Len(chain)
      /\ \A j \in handled[b] + 1 .. i : j = i
  BY <1>0, <1>1 DEF IInv, Types, HasEvents
<1>3. chain[i].errorType = NoResult \/ \A m : chain[i].tx # Pay(m)
  BY <1>0, <1>1 DEF IsPayment, NextEntry, Pay
<1>4. FinalKept => received' \in [Banks -> Seq(Messages)] /\ Told'
  <2>1. ASSUME FinalKept PROVE Told'
    BY <1>1, <2>1, ToldKept DEF Steady, Grows, Asked
  <2> QED
    BY <1>1, <2>1 DEF IInv, Types
<1>5. \A j \in handled[b] + 1 .. i :
        \/ <<b, j>> \in lost'
        \/ chain[j].errorType = NoResult
        \/ \A m \in Messages : chain[j].tx # Pay(m)
  BY <1>2, <1>3
<1>6. lost \subseteq lost'
  BY <1>1
<1> QED
  BY <1>1, <1>2, <1>4, <1>5, <1>6, SkipInvariant

LEMMA ListenerThrowsInvariant ==
  ASSUME IInv, NEW b \in Banks, ListenerThrows(b)
  PROVE  IInv'
<1>0. PICK m, i : m = NextEntry(b).tx.id /\ i = handled[b] + 1
  OBVIOUS
<1>1. /\ IsPayment(b) /\ NextEntry(b).errorType = 0
      /\ received' \in {received, ToldOf(b, m, 0)}
      /\ UNCHANGED <<chain, queued, stuck, payment, future, pendingPayments, registration, registered>>
  BY <1>0 DEF ListenerThrows
<1>2. PICK last \in handled[b] + 1 .. Len(chain) :
        /\ HandledTo(b, last)
        /\ lost' = lost \cup {<<b, j>> : j \in handled[b] + 1 .. last}
  BY DEF ListenerThrows
<1>3. /\ i \in 1 .. Len(chain) /\ m \in Messages /\ chain[i].tx = Pay(m)
      /\ chain[i].errorType = 0
  BY <1>0, <1>1, NextPayment DEF NextEntry
<1>4. last \in 0 .. Len(chain) /\ i <= last
  BY <1>0, <1>2 DEF IInv, Types
<1>5. final' \in Nat /\ last <= final'
  BY <1>1, <1>2, <1>4, FinalMoves
<1>6. final' \in Nat /\ i <= final'
  BY <1>0, <1>3, <1>4, <1>5
<1>7. Steady
  BY <1>1 DEF Steady, Asked
<1>8. FinalKept => received' \in [Banks -> Seq(Messages)] /\ Told'
  BY <1>1, <1>3, <1>6, <1>7, ToldOfBooked
<1>9. lost \subseteq lost' /\ \A j \in handled[b] + 1 .. last : <<b, j>> \in lost'
  BY <1>2
<1> QED
  BY <1>1, <1>2, <1>4, <1>8, <1>9, SkipInvariant

\* A service that starts again answers no call of the life before.
LEMMA RestartInvariant ==
  ASSUME IInv, NEW b \in Banks, Restart(b)
  PROVE  IInv'
<1>1. /\ future' = [m \in Messages |->
            IF payment[m].from = b /\ future[m] \in {"resolved", "waiting", "thrown"}
              THEN "gone" ELSE future[m]]
      /\ pendingPayments' = [pendingPayments EXCEPT ![b] = {}]
      /\ received' = [received EXCEPT ![b] = <<>>]
      /\ registration' = [registration EXCEPT ![b] =
           [bic \in Bics |-> IF @[bic] = "sent" THEN "gone" ELSE @[bic]]]
      /\ stuck' \in {stuck, stuck \ {b}}
      /\ UNCHANGED <<chain, payment, registered, lost>>
  BY DEF Restart, historyVars
<1>2. PICK n \in 0 .. Len(queued[b]) : queued' = [queued EXCEPT ![b] = SubSeq(@, 1, n)]
  BY DEF Restart
<1>3. PICK i \in 0 .. Len(chain) : HandledTo(b, i)
  BY DEF Restart
<1>4. /\ final' \in Nat /\ final <= final' /\ final' <= Len(chain) /\ i <= final'
      /\ handled' \in [Banks -> Nat]
      /\ \A c \in Banks : handled'[c] = (IF c = b THEN i ELSE handled[c]) /\ handled'[c] <= final'
      /\ FinalKept
  BY <1>1, <1>3, FinalMoves
<1>5. /\ queued' \in [Banks -> Seq(Txs)] /\ QueuesCut
      /\ \A c \in Banks \ {b} : queued'[c] = queued[c]
  <2>1. /\ queued[b] \in Seq(Txs) /\ Len(queued[b]) \in Nat
        /\ queued \in [Banks -> Seq(Txs)]
    BY DEF IInv, Types
  <2> DEFINE q == SubSeq(queued[b], 1, n)
  <2>2. /\ q \in Seq(Txs) /\ Len(q) = n /\ n <= Len(queued[b])
        /\ \A j \in 1 .. n : q[j] = queued[b][j]
    BY <2>1
  <2>3. queued' = [queued EXCEPT ![b] = q]
    BY <1>2
  <2> HIDE DEF q
  <2>4. queued' \in [Banks -> Seq(Txs)] /\ queued'[b] = q
        /\ \A c \in Banks \ {b} : queued'[c] = queued[c]
    BY <2>1, <2>2, <2>3
  <2>5. \A c \in Banks : Len(queued[c]) \in Nat
    BY <2>1
  <2> QED
    BY <2>1, <2>2, <2>4, <2>5 DEF QueuesCut
<1>6. \A m \in Messages : future'[m] = future[m]
        \/ (payment[m].from = b /\ future[m] \in {"resolved", "waiting", "thrown"} /\ future'[m] = "gone")
  BY <1>1
<1>7. /\ pendingPayments' \in [Banks -> SUBSET Messages] /\ pendingPayments'[b] = {}
      /\ \A c \in Banks \ {b} : pendingPayments'[c] = pendingPayments[c]
  BY <1>1 DEF IInv, Types
<1>8. /\ received' \in [Banks -> Seq(Messages)] /\ received'[b] = <<>>
      /\ \A c \in Banks \ {b} : received'[c] = received[c]
  BY <1>1 DEF IInv, Types
<1>9. Types'
  <2>1. future' \in [Messages -> Futures]
    BY <1>1 DEF IInv, Types, Futures
  <2>2. registration' \in [Banks -> [Bics -> {"none", "sent", "true", "false", "gone"}]]
    BY <1>1 DEF IInv, Types
  <2> QED
    BY <1>1, <1>4, <1>5, <1>7, <1>8, <2>1, <2>2 DEF IInv, Types
<1>10. Steady /\ Grows
  <2>1. \A c \in Banks, bic \in Bics : Asked(c, bic) => Asked(c, bic)'
    BY <1>1 DEF IInv, Types, Asked
  <2> QED
    BY <1>1, <1>6, <2>1 DEF Steady, Grows, Unsent, Asked
<1>11. Owned' /\ Once'
  BY <1>1, <1>5, <1>9, <1>10, PlacesKept
<1>12. Verdicts'
  BY <1>4, <1>6, VerdictsKept
<1>13. Pending'
  <2> SUFFICES ASSUME NEW c \in Banks, NEW m \in pendingPayments'[c]
               PROVE  payment[m].from = c /\ future'[m] \in {"waiting", "thrown"}
    BY <1>1 DEF Pending
  <2>1. c # b /\ m \in pendingPayments[c] /\ m \in Messages
    BY <1>7 DEF IInv, Types
  <2>2. payment[m].from = c /\ future[m] \in {"waiting", "thrown"}
    BY <2>1 DEF IInv, Pending
  <2> QED
    BY <1>6, <2>1, <2>2
<1>14. Waiting'
  <2>1. ASSUME NEW m \in Messages, NEW c \in Banks, payment[m].from = c, future'[m] = "waiting"
        PROVE  m \in pendingPayments'[c] /\ IsToCome(m, c)'
    <3>1. future[m] = "waiting" /\ c # b
      BY <1>1, <2>1
    <3>2. m \in pendingPayments[c] /\ IsToCome(m, c)
      BY <2>1, <3>1 DEF IInv, Waiting
    <3>3. queued'[c] = queued[c] /\ handled'[c] = handled[c] /\ (c \in stuck => c \in stuck')
      BY <1>1, <1>4, <1>5, <3>1
    <3> QED
      BY <1>1, <1>7, <3>1, <3>2, <3>3 DEF IsToCome
  <2>2. \A m \in Messages : future'[m] = "waiting" => payment[m].from \in Banks
    BY <1>6 DEF IInv, Known
  <2> QED
    BY <1>1, <2>1, <2>2 DEF Waiting, IsToCome
<1>15. Told'
  <2>1. ASSUME NEW c \in Banks, NEW j \in 1 .. Len(received'[c])
        PROVE  \E k \in 1 .. Len(received[c]) : received'[c][j] = received[c][k]
    <3>1. c # b
      BY <1>8, <2>1
    <3> QED
      BY <1>8, <2>1, <3>1
  <2> QED
    BY <1>4, <1>10, <2>1, ToldKept
<1>16. \A m \in Messages : Known(m)'
  BY <1>1, <1>6, <1>10, KnownKept
<1> QED
  BY <1>9, <1>11, <1>12, <1>13, <1>14, <1>15, <1>16 DEF IInv

\* registerBic has its answer.
LEMMA AnswerKept ==
  ASSUME IInv, NEW b \in Banks, NEW bic \in Bics, BicRegistered(b, bic)
  PROVE  /\ registration' \in [Banks -> [Bics -> {"none", "sent", "true", "false", "gone"}]]
         /\ \A c \in Banks, k \in Bics : Asked(c, k) => Asked(c, k)'
<1>1. PICK answer \in {"true", "false"} :
        registration' = [registration EXCEPT ![b][bic] = answer]
  BY DEF BicRegistered
<1>2. registration \in [Banks -> [Bics -> {"none", "sent", "true", "false", "gone"}]]
  BY DEF IInv, Types
<1>3. \A c \in Banks, k \in Bics :
        registration'[c][k] = IF c = b /\ k = bic THEN answer ELSE registration[c][k]
  BY <1>1, <1>2
<1>4. registration' \in [Banks -> [Bics -> {"none", "sent", "true", "false", "gone"}]]
  BY <1>1, <1>2
<1> QED
  BY <1>3, <1>4 DEF Asked

\* The answer of registerBic, and a stutter, change nothing of the rest.
LEMMA OtherInvariant ==
  ASSUME IInv, UNCHANGED <<chain, queued, stuck, handled, final, payment, future>>,
         UNCHANGED <<pendingPayments, received, registered, lost>>,
         registration' \in [Banks -> [Bics -> {"none", "sent", "true", "false", "gone"}]],
         \A b \in Banks, bic \in Bics : Asked(b, bic) => Asked(b, bic)'
  PROVE  IInv'
<1>1. Types' /\ Owned' /\ Once'
  <2>1. Types'
    BY DEF IInv, Types
  <2>2. Steady /\ QueuesCut
    BY DEF Steady, QueuesCut, IInv, Types, Asked
  <2> QED
    BY <2>1, <2>2, PlacesKept
<1>2. Verdicts' /\ Told'
  BY SameChain, VerdictsKept, ToldKept DEF Steady, Grows, Asked
<1>3. Pending' /\ Waiting'
  BY DEF IInv, Pending, Waiting, IsToCome
<1>4. \A m \in Messages : Known(m)'
  BY KnownKept DEF Grows
<1> QED
  BY <1>1, <1>2, <1>3, <1>4 DEF IInv

-------------------------------------------------------------------------------
LEMMA InitInvariant == Init => IInv
<1> SUFFICES ASSUME Init PROVE IInv
  OBVIOUS
<1>1. Types
  <2>1. NoPayment \in [from : Accounts, toBic : Bics \cup {"none"}, to : Accounts]
    BY DEF NoPayment, Accounts
  <2>2. /\ <<>> \in Seq(MinedTxs) /\ <<>> \in Seq(Txs) /\ <<>> \in Seq(Messages)
        /\ Len(<<>>) = 0 /\ "none" \in Futures
    BY DEF Futures, Unsent
  <2> QED
    BY <2>1, <2>2, FS_EmptySet DEF Init, Types
<1>2. Owned /\ Once /\ Told
  BY DEF Init, Owned, Once, Told
<1>3. Verdicts /\ Pending /\ Waiting /\ \A m \in Messages : Known(m)
  BY DEF Init, Verdicts, Pending, Waiting, Known
<1> QED
  BY <1>1, <1>2, <1>3 DEF IInv

LEMMA StepInvariant == IInv /\ [Next]_vars => IInv'
<1> SUFFICES ASSUME IInv, [Next]_vars PROVE IInv'
  OBVIOUS
<1>1. CASE UNCHANGED vars
  BY <1>1, OtherInvariant DEF vars, serviceVars, historyVars, IInv, Types, Asked
<1>2. ASSUME NEW b \in Banks, NEW m \in Messages, NEW bic \in Bics, Resolve(b, m, bic) PROVE IInv'
  BY <1>2, ResolveInvariant
<1>3. ASSUME NEW m \in Messages, Send(m) \/ SendThrows(m) PROVE IInv'
  BY <1>3, SendInvariant, SendThrowsInvariant
<1>4. ASSUME NEW b \in Banks, NEW bic \in Bics, RegisterBic(b, bic) PROVE IInv'
  BY <1>4, RegisterBicInvariant
<1>5. ASSUME NEW b \in Banks, NEW bic \in Bics, BicRegistered(b, bic) PROVE IInv'
  <2>1. /\ registration' \in [Banks -> [Bics -> {"none", "sent", "true", "false", "gone"}]]
        /\ \A c \in Banks, k \in Bics : Asked(c, k) => Asked(c, k)'
    BY <1>5, AnswerKept
  <2> QED
    BY <1>5, <2>1, OtherInvariant DEF BicRegistered, historyVars
<1>6. ASSUME NEW b \in Banks, Mine(b) PROVE IInv'
  BY <1>6, MineInvariant
<1>7. ASSUME NEW b \in Banks, NEW i \in DOMAIN queued[b], Drop(b, i) PROVE IInv'
  BY <1>7, DropInvariant
<1>8. CASE Unmine
  BY <1>8, UnmineInvariant
<1>9. ASSUME NEW b \in Banks, FirePayment(b) \/ FireNothing(b) \/ ListenerThrows(b) PROVE IInv'
  BY <1>9, FirePaymentInvariant, FireNothingInvariant, ListenerThrowsInvariant
<1>10. ASSUME NEW b \in Banks, Restart(b) PROVE IInv'
  BY <1>10, RestartInvariant
<1> QED
  BY <1>1, <1>2, <1>3, <1>4, <1>5, <1>6, <1>7, <1>8, <1>9, <1>10 DEF Next

LEMMA Invariant == Spec => []IInv
BY InitInvariant, StepInvariant, PTL DEF Spec

-------------------------------------------------------------------------------
\* Whatever is dropped, reorganised, restarted or thrown in between, the
\* future of a payment tells the contract's verdict, and no reorganisation
\* makes it wrong afterwards.
THEOREM VerdictsHold == Spec => []FutureTellsVerdict
BY Invariant, VerdictIsTold, PTL

\* A payment whose caller waits is on its way or has its answer to come,
\* unless its transaction was dropped or failed or a listener lost the event.
THEOREM AnswersCome == Spec => []NoAnswerForgotten
BY Invariant, NothingIsForgotten, PTL

\* A bank is told of accepted payments only, and of none that was booked for
\* another bank, if its BIC was never registered for two.
THEOREM BookedIsTold == Spec => []ToldAsBooked
BY Invariant, OnlyAsBooked, PTL

===============================================================================
