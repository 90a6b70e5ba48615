------------------------------ MODULE PayeeProofs ------------------------------
(***************************************************************************)
(* Of the registrar's answers, for any banks, BICs, payments and faults:   *)
(* one of the banks that registered a BIC is told that it has it, and a    *)
(* bank is told of each payment that is booked for its BIC exactly once.   *)
(***************************************************************************)
EXTENDS PaymentFlowProofs

\* Both counters only count.
Counts == reorgs \in Nat /\ restarts \in Nat

\* The last of the banks that registered a BIC has it, so one that was told
\* "false" was followed by another, or its transaction failed.
IsBeaten(b, bic) ==
  \E i \in 1 .. Len(chain) :
    /\ chain[i].tx = SetAddress(b, bic)
    /\ \/ chain[i].errorType # 0
       \/ \E j \in 1 .. Len(chain), c \in Banks : i < j /\ Registers(j, c, bic)

Beaten ==
  reorgs = 0 =>
    \A b \in Banks, bic \in Bics : registration[b][bic] = "false" => IsBeaten(b, bic)

\* The i-th transaction is a payment m for this bank, whose BIC it was before.
IsPaid(b, m, i) ==
  /\ chain[i].tx = Pay(m) /\ chain[i].errorType = 0
  /\ registered[payment[m].toBic] = {b}
  /\ \E j \in 1 .. i : Registers(j, b, payment[m].toBic)

IsReceived(b, m) == \E k \in 1 .. Len(received[b]) : received[b][k] = m

\* What a service has handled the events of, its listener was called for ...
HandledIsTold ==
  \A b \in Banks, m \in Messages : \A i \in 1 .. handled[b] :
    IsPaid(b, m, i) /\ <<b, i>> \notin lost => IsReceived(b, m)

\* ... for nothing else ...
IsHandled(b, m) == \E i \in 1 .. handled[b] : chain[i].tx = Pay(m)
ToldIsHandled ==
  \A b \in Banks : \A k \in 1 .. Len(received[b]) : IsHandled(b, received[b][k])

\* ... and once.
ToldOnce ==
  \A b \in Banks : \A j, k \in 1 .. Len(received[b]) :
    received[b][j] = received[b][k] => j = k

Listened == HandledIsTold /\ ToldIsHandled /\ ToldOnce

PInv == IInv /\ Counts /\ Beaten /\ (restarts = 0 => Listened)

-------------------------------------------------------------------------------
LEMMA SetIsOf ==
  \A b, c, bic, k : SetAddress(b, bic) = SetAddress(c, k) => b = c /\ bic = k
BY DEF SetAddress

\* The registrar answers with the bank that was last to register the BIC.
LEMMA AnswerIsLast ==
  ASSUME IInv, NEW bic \in Bics, NEW j \in 1 .. Len(chain), NEW b \in Banks,
         Registers(j, b, bic)
  PROVE  \E i \in 1 .. Len(chain) :
           /\ j <= i
           /\ GetAddress(chain, bic) \in Banks
           /\ Registers(i, GetAddress(chain, bic), bic)
           /\ \A k \in 1 .. Len(chain), c \in Banks : Registers(k, c, bic) => k <= i
<1> DEFINE S == {i \in DOMAIN chain :
                   chain[i].tx.kind = "setAddress" /\ chain[i].tx.bic = bic /\ chain[i].errorType = 0}
<1>1. Len(chain) \in Nat /\ DOMAIN chain = 1 .. Len(chain)
  BY DEF IInv, Types
<1>2. \A c \in Banks : SetAddress(c, bic).kind = "setAddress" /\ SetAddress(c, bic).bic = bic
  BY DEF SetAddress
<1>3. \A k \in 1 .. Len(chain), c \in Banks : Registers(k, c, bic) => k \in S
  BY <1>1, <1>2 DEF Registers
<1>4. S \subseteq 1 .. Len(chain) /\ S # {}
  BY <1>1, <1>3
<1>5. GetAddress(chain, bic) = chain[Max(S)].tx.bank
  BY <1>4 DEF GetAddress
<1>6. /\ Max(S) \in 1 .. Len(chain) /\ chain[Max(S)].errorType = 0
      /\ chain[Max(S)].tx.kind = "setAddress" /\ chain[Max(S)].tx.bic = bic
      /\ \A x \in S : x <= Max(S)
  <2> HIDE DEF S
  <2>1. Max(S) \in S /\ \A x \in S : x <= Max(S)
    BY <1>1, <1>4, MaxOfPositions
  <2> QED
    BY <1>4, <2>1 DEF S
<1> HIDE DEF S
<1>7. PICK i : i = Max(S)
  OBVIOUS
<1>8. chain[i].tx \in Registrations
  <2>1. chain[i] \in MinedTxs
    BY <1>6, <1>7 DEF IInv, Types
  <2> QED
    BY <1>6, <1>7, <2>1 DEF MinedTxs, Txs, Payments
<1>9. chain[i].tx.bank \in Banks /\ chain[i].tx = SetAddress(chain[i].tx.bank, bic)
  BY <1>6, <1>7, <1>8 DEF Registrations, SetAddress
<1> QED
  BY <1>3, <1>5, <1>6, <1>7, <1>9 DEF Registers

-------------------------------------------------------------------------------
(* The invariant says what the properties do.                              *)

LEMMA LastHasIt == PInv => RegistrationHasWinner
<1> SUFFICES ASSUME PInv, reorgs = 0, NEW bic \in Bics, NEW b \in Banks,
                    \A c \in Banks : registration[c][bic] \in {"none", "true", "false"},
                    \E i \in DOMAIN chain : Registers(i, b, bic)
             PROVE  \E c \in Banks : registration[c][bic] = "true"
  BY DEF RegistrationHasWinner
<1>1. PICK j \in 1 .. Len(chain) : Registers(j, b, bic)
  BY DEF PInv, IInv, Types
<1>2. PICK c \in Banks, i \in 1 .. Len(chain) :
        /\ Registers(i, c, bic)
        /\ \A k \in 1 .. Len(chain), d \in Banks : Registers(k, d, bic) => k <= i
  BY <1>1, AnswerIsLast DEF PInv
<1>3. registration[c][bic] # "none"
  BY <1>2 DEF Registers, PInv, IInv, Owned, IsMined, OfBank, Asked
<1>4. ASSUME registration[c][bic] = "false" PROVE FALSE
  <2>1. PICK k \in 1 .. Len(chain) :
          /\ chain[k].tx = SetAddress(c, bic)
          /\ \/ chain[k].errorType # 0
             \/ \E l \in 1 .. Len(chain), d \in Banks : k < l /\ Registers(l, d, bic)
    BY <1>4 DEF PInv, Beaten, IsBeaten
  <2>2. SetAddress(c, bic) \in Txs
    BY <1>2 DEF SetAddress, Txs, Registrations
  <2>3. k = i
    BY <1>2, <2>1, <2>2 DEF Registers, PInv, IInv, Once
  <2>4. chain[k].errorType = 0
    BY <1>2, <2>3 DEF Registers
  <2> QED
    BY <1>2, <2>1, <2>3, <2>4
<1> QED
  BY <1>2, <1>3, <1>4

LEMMA ListenedIsTold == PInv => PayeeIsTold
<1> SUFFICES ASSUME PInv, restarts = 0, NEW b \in Banks, NEW m \in Messages, NEW i \in Entries(m),
                    chain[i].errorType = 0,
                    registered[payment[m].toBic] = {b},
                    \E j \in 1 .. i : Registers(j, b, payment[m].toBic),
                    i <= handled[b], <<b, i>> \notin lost
             PROVE  Cardinality({j \in DOMAIN received[b] : received[b][j] = m}) = 1
  BY DEF PayeeIsTold
<1>1. /\ i \in 1 .. handled[b] /\ chain[i].tx = Pay(m)
      /\ DOMAIN received[b] = 1 .. Len(received[b])
  BY DEF PInv, IInv, Types, Entries
<1>2. PICK k \in 1 .. Len(received[b]) : received[b][k] = m
  BY <1>1 DEF PInv, Listened, HandledIsTold, IsPaid, IsReceived
<1>3. {j \in DOMAIN received[b] : received[b][j] = m} = {k}
  BY <1>1, <1>2 DEF PInv, Listened, ToldOnce
<1>4. Cardinality({k}) = 1
  BY FS_Singleton
<1> QED
  BY <1>3, <1>4

-------------------------------------------------------------------------------
(* What no step disturbs.                                                  *)

\* Where a service has fired the events nothing changes.
SettledKept ==
  /\ \A i \in 1 .. final : i \in 1 .. Len(chain') /\ chain'[i] = chain[i]
  /\ \A m \in Messages : future[m] # "none" => payment'[m] = payment[m]
  /\ Grows
  /\ lost \subseteq lost'

\* The chain is as it was, or longer.
Longer ==
  \A i \in 1 .. Len(chain) : i \in 1 .. Len(chain') /\ chain'[i] = chain[i]

LEMMA ChainMoves ==
  ASSUME IInv, [Next]_vars
  PROVE  /\ \A i \in 1 .. final : i \in 1 .. Len(chain') /\ chain'[i] = chain[i]
         /\ Grows
         /\ Unmine \/ Longer
<1>0. /\ chain \in Seq(MinedTxs) /\ final \in Nat /\ final <= Len(chain)
      /\ registered \in [Bics -> SUBSET Banks]
  BY DEF IInv, Types
<1>1. ASSUME UNCHANGED <<chain, registered>> PROVE Longer /\ Grows
  BY <1>1 DEF Longer, Grows
<1>2. ASSUME NEW b \in Banks, Mine(b) PROVE Longer /\ Grows
  <2>1. PICK entry : chain' = Append(chain, entry)
    BY <1>2 DEF Mine
  <2>2. Longer
    BY <1>0, <2>1 DEF Longer
  <2>3. PICK bic : registered' = registered \/ registered' = [registered EXCEPT ![bic] = @ \cup {b}]
    BY <1>2 DEF Mine
  <2>4. Grows
    BY <1>0, <2>3 DEF Grows
  <2> QED
    BY <2>2, <2>4
<1>3. CASE Unmine
  <2>1. final < Len(chain) /\ chain' = Front(chain) /\ registered' = registered
    BY <1>3 DEF Unmine, historyVars
  <2>2. chain' = SubSeq(chain, 1, Len(chain) - 1)
    BY <2>1 DEF Front
  <2>3. \A i \in 1 .. final : i \in 1 .. Len(chain') /\ chain'[i] = chain[i]
    BY <1>0, <2>1, <2>2
  <2> QED
    BY <1>3, <2>1, <2>3 DEF Grows
<1>4. \/ UNCHANGED <<chain, registered>>
      \/ Unmine
      \/ \E b \in Banks : Mine(b)
  BY DEF Next, vars, serviceVars, historyVars, Resolve, Send, SendThrows, RegisterBic, BicRegistered,
         Drop, FirePayment, FireNothing, ListenerThrows, Restart
<1>5. ASSUME Longer PROVE \A i \in 1 .. final : i \in 1 .. Len(chain') /\ chain'[i] = chain[i]
  BY <1>0, <1>5 DEF Longer
<1> QED
  BY <1>1, <1>2, <1>3, <1>4, <1>5

LEMMA NothingSettledMoves ==
  ASSUME IInv, [Next]_vars
  PROVE  SettledKept
<1>1. payment' = payment \/ \E b \in Banks, m \in Messages, bic \in Bics : Resolve(b, m, bic)
  BY DEF Next, vars, serviceVars, historyVars, Send, SendThrows, RegisterBic, BicRegistered,
         Mine, Unmine, Drop, FirePayment, FireNothing, ListenerThrows, Restart
<1>2. ASSUME NEW b \in Banks, NEW m \in Messages, NEW bic \in Bics, Resolve(b, m, bic)
      PROVE  \A n \in Messages : future[n] # "none" => payment'[n] = payment[n]
  BY <1>2 DEF Resolve, IInv, Types
<1>3. lost' = lost \/ \E b \in Banks : ListenerThrows(b)
  BY DEF Next, vars, serviceVars, historyVars, Resolve, Send, SendThrows, RegisterBic, BicRegistered,
         Mine, Unmine, Drop, FirePayment, FireNothing, Restart
<1>4. lost \subseteq lost'
  BY <1>3 DEF ListenerThrows
<1> QED
  BY <1>1, <1>2, <1>4, ChainMoves DEF SettledKept

LEMMA CountsMove ==
  ASSUME Counts, [Next]_vars
  PROVE  /\ Counts'
         /\ reorgs' = 0 => reorgs = 0 /\ ~Unmine
         /\ restarts' = 0 => restarts = 0 /\ \A b \in Banks : ~Restart(b)
<1>1. \/ Unmine /\ reorgs' = reorgs + 1 /\ restarts' = restarts
      \/ ~Unmine /\ (\E b \in Banks : Restart(b)) /\ reorgs' = reorgs /\ restarts' = restarts + 1
      \/ UNCHANGED <<reorgs, restarts>>
  BY DEF Next, vars, counters, Resolve, Send, SendThrows, RegisterBic, BicRegistered,
         Mine, Unmine, Drop, FirePayment, FireNothing, ListenerThrows, Restart
<1>2. Unmine => reorgs' = reorgs + 1
  BY DEF Unmine
<1>3. \A b \in Banks : Restart(b) => restarts' = restarts + 1
  BY DEF Restart
<1> QED
  BY <1>1, <1>2, <1>3 DEF Counts

-------------------------------------------------------------------------------
(* The registrations.                                                      *)

LEMMA BeatenIsKept ==
  ASSUME NEW b, NEW bic, IsBeaten(b, bic), Longer
  PROVE  IsBeaten(b, bic)'
BY DEF IsBeaten, Longer, Registers

\* A bank is told "false" if another was last when it asked.
LEMMA AskedTooLate ==
  ASSUME IInv, NEW b \in Banks, NEW bic \in Bics, BicRegistered(b, bic),
         registration'[b][bic] = "false"
  PROVE  IsBeaten(b, bic)
<1>1. PICK j \in 1 .. Len(chain) : chain[j].tx = SetAddress(b, bic)
  BY DEF BicRegistered, HasReceipt, IInv, Types
<1>2. GetAddress(chain, bic) # b
  BY DEF BicRegistered, IInv, Types
<1>3. CASE chain[j].errorType # 0
  BY <1>1, <1>3 DEF IsBeaten
<1>4. CASE chain[j].errorType = 0
  <2>1. PICK i \in 1 .. Len(chain) :
          /\ j <= i
          /\ GetAddress(chain, bic) \in Banks
          /\ Registers(i, GetAddress(chain, bic), bic)
    BY <1>1, <1>4, AnswerIsLast DEF Registers
  <2>2. j # i
    BY <1>1, <1>2, <2>1, SetIsOf DEF Registers
  <2>3. j < i
    BY <2>1, <2>2
  <2> QED
    BY <1>1, <2>1, <2>3 DEF IsBeaten
<1> QED
  BY <1>3, <1>4

LEMMA BeatenStep ==
  ASSUME PInv, [Next]_vars
  PROVE  Beaten'
<1> SUFFICES ASSUME reorgs' = 0, NEW b \in Banks, NEW bic \in Bics, registration'[b][bic] = "false"
             PROVE  IsBeaten(b, bic)'
  BY DEF Beaten, IsBeaten
<1>1. reorgs = 0 /\ Longer
  BY ChainMoves, CountsMove DEF PInv
<1>2. registration[b][bic] = "false" \/ BicRegistered(b, bic)
  <2>0. registration \in [Banks -> [Bics -> {"none", "sent", "true", "false", "gone"}]]
    BY DEF PInv, IInv, Types
  <2>1. ASSUME NEW c \in Banks, NEW k \in Bics, RegisterBic(c, k)
        PROVE  registration[b][bic] = "false"
    BY <2>0, <2>1 DEF RegisterBic
  <2>2. ASSUME NEW c \in Banks, NEW k \in Bics, BicRegistered(c, k)
        PROVE  registration[b][bic] = "false" \/ BicRegistered(b, bic)
    <3>1. CASE c = b /\ k = bic
      BY <2>2, <3>1
    <3>2. CASE ~(c = b /\ k = bic)
      <4>1. registration'[b][bic] = registration[b][bic]
        BY <2>0, <2>2, <3>2 DEF BicRegistered
      <4> QED
        BY <4>1
    <3> QED
      BY <3>1, <3>2
  <2>3. ASSUME NEW c \in Banks, Restart(c) PROVE registration[b][bic] = "false"
    BY <2>0, <2>3 DEF Restart
  <2>4. \/ registration' = registration
        \/ \E c \in Banks, k \in Bics : RegisterBic(c, k) \/ BicRegistered(c, k)
        \/ \E c \in Banks : Restart(c)
    BY DEF Next, vars, serviceVars, Resolve, Send, SendThrows,
           Mine, Unmine, Drop, FirePayment, FireNothing, ListenerThrows
  <2> QED
    BY <2>1, <2>2, <2>3, <2>4
<1>3. IsBeaten(b, bic)
  BY <1>1, <1>2, AskedTooLate DEF PInv, Beaten
<1> QED
  BY <1>1, <1>3, BeatenIsKept

-------------------------------------------------------------------------------
(* The listeners.                                                          *)

HasFired(b) == FirePayment(b) \/ FireNothing(b) \/ ListenerThrows(b)

\* The events of a service, and nothing else, reach its listener.
LEMMA ServiceMoves ==
  ASSUME IInv, [Next]_vars, \A c \in Banks : ~Restart(c), NEW b \in Banks
  PROVE  HasFired(b) \/ (handled'[b] = handled[b] /\ received'[b] = received[b])
<1>0. handled \in [Banks -> Nat] /\ received \in [Banks -> Seq(Messages)]
  BY DEF IInv, Types
<1>1. ASSUME NEW c \in Banks, c # b, HasFired(c)
      PROVE  handled'[b] = handled[b] /\ received'[b] = received[b]
  <2>1. PICK i : handled' = [handled EXCEPT ![c] = i]
    BY <1>1 DEF HasFired, FirePayment, FireNothing, ListenerThrows, HandledTo
  <2>2. \/ received' = received
        \/ \E m : received' = [received EXCEPT ![c] = Append(@, m)]
    BY <1>1 DEF HasFired, FirePayment, FireNothing, ListenerThrows, ToldOf, serviceVars
  <2> QED
    BY <1>0, <1>1, <2>1, <2>2
<1>2. \/ UNCHANGED <<handled, received>>
      \/ \E c \in Banks : HasFired(c)
  BY DEF Next, vars, serviceVars, Resolve, Send, SendThrows, RegisterBic, BicRegistered,
         Mine, Unmine, Drop, HasFired
<1> QED
  BY <1>1, <1>2

\* Of the payment whose events come next the listener is told, or not; what
\* follows it and is skipped counts as lost.
LEMMA FiringMoves ==
  ASSUME IInv, NEW b \in Banks, HasFired(b), NEW i, i = handled[b] + 1
  PROVE  /\ UNCHANGED <<chain, payment, registered>>
         /\ i \in 1 .. Len(chain)
         /\ handled'[b] \in i .. Len(chain)
         /\ \/ received'[b] = received[b]
            \/ \E m \in Messages :
                 chain[i].tx = Pay(m) /\ received'[b] = Append(received[b], m)
         /\ \A k \in i .. handled'[b] :
              \/ <<b, k>> \in lost'
              \/ k = i /\ (FirePayment(b) \/ FireNothing(b))
<1>0. /\ handled \in [Banks -> Nat] /\ received \in [Banks -> Seq(Messages)]
      /\ Len(chain) \in Nat
  BY DEF IInv, Types
<1>1. UNCHANGED <<chain, payment, registered>>
  BY DEF HasFired, FirePayment, FireNothing, ListenerThrows, serviceVars, historyVars
<1>2. i \in 1 .. Len(chain)
  BY <1>0 DEF HasFired, FirePayment, FireNothing, ListenerThrows, IsPayment, HasEvents
<1>3. \/ received' = received
      \/ IsPayment(b) /\ received' = [received EXCEPT ![b] = Append(@, NextEntry(b).tx.id)]
  BY DEF HasFired, FirePayment, FireNothing, ListenerThrows, ToldOf, serviceVars
<1>4. \/ received'[b] = received[b]
      \/ \E m \in Messages :
           chain[i].tx = Pay(m) /\ received'[b] = Append(received[b], m)
  <2>1. ASSUME IsPayment(b), received' = [received EXCEPT ![b] = Append(@, NextEntry(b).tx.id)]
        PROVE  \E m \in Messages :
                 chain[i].tx = Pay(m) /\ received'[b] = Append(received[b], m)
    <3>1. PICK m : m = NextEntry(b).tx.id
      OBVIOUS
    <3>2. m \in Messages /\ chain[i].tx = Pay(m)
      BY <2>1, <3>1, NextPayment
    <3>3. received'[b] = Append(received[b], m)
      BY <1>0, <2>1, <3>1
    <3> QED
      BY <3>2, <3>3
  <2> QED
    BY <1>3, <2>1
<1>5. ASSUME FirePayment(b) \/ FireNothing(b)
      PROVE  handled'[b] = i
  BY <1>0, <1>5 DEF FirePayment, FireNothing, HandledTo
<1>6. ASSUME ListenerThrows(b)
      PROVE  /\ handled'[b] \in i .. Len(chain)
             /\ \A k \in i .. handled'[b] : <<b, k>> \in lost'
  <2>1. PICK last \in i .. Len(chain) :
          HandledTo(b, last) /\ lost' = lost \cup {<<b, k>> : k \in i .. last}
    BY <1>6 DEF ListenerThrows
  <2>2. handled'[b] = last
    BY <1>0, <2>1 DEF HandledTo
  <2> QED
    BY <2>1, <2>2
<1> QED
  BY <1>0, <1>1, <1>2, <1>4, <1>5, <1>6 DEF HasFired

\* A payment that is for the bank after a step was so before.
LEMMA PaidWas ==
  ASSUME IInv, SettledKept, NEW b \in Banks, NEW m \in Messages, NEW i \in 1 .. final,
         IsPaid(b, m, i)'
  PROVE  IsPaid(b, m, i)
<1>0. /\ final \in Nat /\ final <= Len(chain) /\ Len(chain) \in Nat
      /\ registered \in [Bics -> SUBSET Banks]
  BY DEF IInv, Types
<1>1. \A k \in 1 .. i : k \in 1 .. Len(chain) /\ chain'[k] = chain[k]
  BY <1>0 DEF SettledKept
<1>2. i \in 1 .. i /\ i \in 1 .. Len(chain)
  BY <1>0
<1>3. chain[i].tx = Pay(m) /\ chain[i].errorType = 0
  BY <1>1, <1>2 DEF IsPaid
<1>4. future[m] \notin Unsent
  BY <1>2, <1>3 DEF IInv, Owned, IsMined, OfBank
<1>5. payment'[m] = payment[m] /\ payment[m].toBic \in Bics
  BY <1>4 DEF SettledKept, IInv, Known, Unsent
<1>6. PICK bic \in Bics : bic = payment[m].toBic
  BY <1>5
<1>7. PICK j \in 1 .. i : Registers(j, b, bic)
  BY <1>1, <1>5, <1>6 DEF IsPaid, Registers
<1>8. b \in registered[bic]
  BY <1>1, <1>7 DEF Registers, IInv, Owned, IsMined
<1>9. registered[bic] \subseteq {b}
  BY <1>5, <1>6 DEF SettledKept, Grows, IsPaid
<1> QED
  BY <1>3, <1>6, <1>7, <1>8, <1>9 DEF IsPaid

\* The registrar answers that the BIC is this bank's, whose alone it was.
LEMMA PaidIsForUs ==
  ASSUME IInv, NEW b \in Banks, NEW m \in Messages, NEW i \in 1 .. Len(chain), IsPaid(b, m, i)
  PROVE  ForUs(b, m)
<1>1. future[m] \notin Unsent
  BY DEF IsPaid, IInv, Owned, IsMined, OfBank
<1>2. PICK bic \in Bics : bic = payment[m].toBic
  BY <1>1 DEF IInv, Known, Unsent
<1>3. PICK j \in 1 .. Len(chain) : Registers(j, b, bic)
  BY <1>2 DEF IsPaid, IInv, Types
<1>4. PICK a : a = GetAddress(chain, bic)
  OBVIOUS
<1>5. PICK k \in 1 .. Len(chain) : a \in Banks /\ Registers(k, a, bic)
  BY <1>3, <1>4, AnswerIsLast
<1>6. a \in registered[bic]
  BY <1>5 DEF Registers, IInv, Owned, IsMined
<1> QED
  BY <1>2, <1>4, <1>6 DEF ForUs, IsPaid

\* So the listener is told of the payment, unless the event is lost.
LEMMA PaidIsTold ==
  ASSUME IInv, NEW b \in Banks, NEW m \in Messages, NEW i, i = handled[b] + 1,
         FirePayment(b) \/ FireNothing(b), IsPaid(b, m, i)
  PROVE  IsReceived(b, m)'
<1>0. received \in [Banks -> Seq(Messages)]
  BY DEF IInv, Types
<1>1. i \in 1 .. Len(chain)
  BY FiringMoves DEF HasFired
<1>2. Pay(m).kind = "pay" /\ Pay(m).id = m
  BY DEF Pay
<1>3. FirePayment(b)
  BY <1>2 DEF IsPaid, FireNothing, IsPayment, HasEvents, NextEntry, NoResult
<1>4. NextEntry(b).tx.id = m /\ NextEntry(b).errorType = 0
  BY <1>2 DEF IsPaid, NextEntry
<1>5. received' = [received EXCEPT ![b] = Append(@, m)]
  BY <1>1, <1>3, <1>4, PaidIsForUs DEF FirePayment, ToldOf
<1>6. received'[b] = Append(received[b], m)
  BY <1>0, <1>5
<1>7. /\ Len(received[b]) + 1 \in 1 .. Len(received'[b])
      /\ received'[b][Len(received[b]) + 1] = m
  BY <1>0, <1>6
<1> QED
  BY <1>7 DEF IsReceived

LEMMA ListenedStep ==
  ASSUME IInv, [Next]_vars, \A c \in Banks : ~Restart(c), Listened
  PROVE  Listened'
<1>0. /\ handled \in [Banks -> Nat] /\ received \in [Banks -> Seq(Messages)]
      /\ final \in Nat /\ final <= Len(chain) /\ Len(chain) \in Nat
      /\ \A b \in Banks : handled[b] <= final
  BY DEF IInv, Types
<1>1. SettledKept
  BY NothingSettledMoves
<1>2. ASSUME NEW b \in Banks
      PROVE  \/ /\ handled'[b] = handled[b] /\ received'[b] = received[b]
             \/ /\ HasFired(b)
                /\ handled'[b] \in handled[b] + 1 .. Len(chain)
                /\ \/ received'[b] = received[b]
                   \/ \E m \in Messages :
                        /\ chain[handled[b] + 1].tx = Pay(m)
                        /\ received'[b] = Append(received[b], m)
  BY ServiceMoves, FiringMoves
<1>3. ASSUME NEW b \in Banks, NEW k \in 1 .. Len(received[b])
      PROVE  k \in 1 .. Len(received'[b]) /\ received'[b][k] = received[b][k]
  <2>1. received[b] \in Seq(Messages) /\ Len(received[b]) \in Nat
    BY <1>0
  <2> QED
    BY <1>2, <1>3, <2>1
<1>4. HandledIsTold'
  <2> SUFFICES ASSUME NEW b \in Banks, NEW m \in Messages, NEW i \in 1 .. handled'[b],
                      IsPaid(b, m, i)', <<b, i>> \notin lost'
               PROVE  IsReceived(b, m)'
    BY DEF HandledIsTold, IsPaid, IsReceived, Registers
  <2>1. handled[b] \in Nat /\ handled[b] <= final
    BY <1>0
  <2>2. CASE i <= handled[b]
    <3>1. i \in 1 .. handled[b] /\ i \in 1 .. final
      BY <1>0, <2>1, <2>2
    <3>2. IsPaid(b, m, i) /\ <<b, i>> \notin lost
      BY <1>1, <3>1, PaidWas DEF SettledKept
    <3>3. IsReceived(b, m)
      BY <3>1, <3>2 DEF Listened, HandledIsTold
    <3> QED
      BY <1>3, <3>3 DEF IsReceived
  <2>3. CASE ~(i <= handled[b])
    <3>1. HasFired(b)
      BY <1>2, <2>1, <2>3
    <3>2. PICK j : j = handled[b] + 1
      OBVIOUS
    <3>3. i \in j .. handled'[b]
      BY <2>1, <2>3, <3>2
    <3>4. /\ UNCHANGED <<chain, payment, registered>>
          /\ i = j /\ (FirePayment(b) \/ FireNothing(b))
      BY <3>1, <3>2, <3>3, FiringMoves
    <3>5. IsPaid(b, m, i)
      BY <3>4 DEF IsPaid, Registers
    <3> QED
      BY <3>2, <3>4, <3>5, PaidIsTold
  <2> QED
    BY <2>2, <2>3
<1>5. ToldIsHandled'
  <2> SUFFICES ASSUME NEW b \in Banks, NEW k \in 1 .. Len(received'[b])
               PROVE  IsHandled(b, received[b][k])'
    BY DEF ToldIsHandled
  <2>1. handled[b] \in Nat /\ handled[b] <= final /\ received[b] \in Seq(Messages)
    BY <1>0
  <2>2. handled'[b] \in Nat /\ handled[b] <= handled'[b]
    BY <1>0, <1>2, <2>1
  <2>3. ASSUME NEW m, IsHandled(b, m) PROVE IsHandled(b, m)'
    <3>1. PICK i \in 1 .. handled[b] : chain[i].tx = Pay(m)
      BY <2>3 DEF IsHandled
    <3>2. i \in 1 .. handled'[b] /\ i \in 1 .. final
      BY <1>0, <2>1, <2>2
    <3>3. chain'[i] = chain[i]
      BY <1>1, <3>2 DEF SettledKept
    <3> QED
      BY <3>1, <3>2, <3>3 DEF IsHandled
  <2>4. PICK m : m = received'[b][k]
    OBVIOUS
  <2>5. IsHandled(b, m)'
    <3>1. CASE k \in 1 .. Len(received[b])
      BY <1>3, <2>3, <2>4, <3>1 DEF Listened, ToldIsHandled
    <3>2. CASE k \notin 1 .. Len(received[b])
      <4>1. PICK n \in Messages :
              /\ HasFired(b)
              /\ handled'[b] \in handled[b] + 1 .. Len(chain)
              /\ chain[handled[b] + 1].tx = Pay(n)
              /\ received'[b] = Append(received[b], n)
        BY <1>2, <3>2
      <4>2. n = m
        BY <2>1, <2>4, <3>2, <4>1
      <4>3. chain' = chain
        BY <4>1, FiringMoves
      <4>4. handled[b] + 1 \in 1 .. handled'[b]
        BY <2>1, <4>1
      <4> QED
        BY <4>1, <4>2, <4>3, <4>4 DEF IsHandled
    <3> QED
      BY <3>1, <3>2
  <2> QED
    BY <2>4, <2>5 DEF IsHandled
<1>6. ToldOnce'
  <2> SUFFICES ASSUME NEW b \in Banks, NEW j \in 1 .. Len(received'[b]), NEW k \in 1 .. Len(received'[b]),
                      received'[b][j] = received'[b][k]
               PROVE  j = k
    BY DEF ToldOnce
  <2>1. handled[b] \in Nat /\ handled[b] <= final /\ received[b] \in Seq(Messages)
    BY <1>0
  <2>2. CASE received'[b] = received[b]
    BY <2>2 DEF Listened, ToldOnce
  <2>3. ASSUME NEW m \in Messages, HasFired(b), chain[handled[b] + 1].tx = Pay(m),
               received'[b] = Append(received[b], m)
        PROVE  j = k
    <3>1. ASSUME NEW l \in 1 .. Len(received[b]), received[b][l] = m PROVE FALSE
      <4>1. PICK i \in 1 .. handled[b] : chain[i].tx = Pay(m)
        BY <3>1 DEF Listened, ToldIsHandled, IsHandled
      <4>2. handled[b] + 1 \in 1 .. Len(chain) /\ i \in 1 .. Len(chain)
        BY <1>0, <2>1, <2>3, FiringMoves
      <4>3. i = handled[b] + 1
        BY <2>3, <4>1, <4>2, PayIsTx DEF IInv, Once
      <4> QED
        BY <2>1, <4>1, <4>3
    <3>2. ASSUME NEW l \in 1 .. Len(received'[b])
          PROVE  \/ l \in 1 .. Len(received[b]) /\ received'[b][l] = received[b][l]
                 \/ l = Len(received[b]) + 1 /\ received'[b][l] = m
      BY <2>1, <2>3, <3>2
    <3>3. \A l, n \in 1 .. Len(received[b]) : received[b][l] = received[b][n] => l = n
      BY DEF Listened, ToldOnce
    <3> QED
      BY <3>1, <3>2, <3>3
  <2> QED
    BY <1>2, <2>2, <2>3
<1> QED
  BY <1>4, <1>5, <1>6 DEF Listened

-------------------------------------------------------------------------------
LEMMA PInit == Init => PInv
<1> SUFFICES ASSUME Init PROVE PInv
  OBVIOUS
<1>1. IInv
  BY InitInvariant
<1>2. Counts /\ Beaten
  BY DEF Init, Counts, Beaten
<1>3. Listened
  BY DEF Init, Listened, HandledIsTold, ToldIsHandled, ToldOnce
<1> QED
  BY <1>1, <1>2, <1>3 DEF PInv

LEMMA PStep == PInv /\ [Next]_vars => PInv'
<1> SUFFICES ASSUME PInv, [Next]_vars PROVE PInv'
  OBVIOUS
<1>1. IInv'
  BY StepInvariant DEF PInv
<1>2. Counts' /\ Beaten'
  BY CountsMove, BeatenStep DEF PInv
<1>3. ASSUME restarts' = 0 PROVE Listened'
  BY <1>3, CountsMove, ListenedStep DEF PInv
<1> QED
  BY <1>1, <1>2, <1>3 DEF PInv

LEMMA PInvariant == Spec => []PInv
BY PInit, PStep, PTL DEF Spec

\* Of the banks that register a BIC one is told that it has it, unless a
\* reorganisation has come between a registration and its answer, or one of
\* the answers is still to come.
THEOREM WinnerIsTold == Spec => []RegistrationHasWinner
BY PInvariant, LastHasIt, PTL

\* The listener of a bank is called exactly once for each payment to its BIC
\* that was accepted, when the events are handled, as long as no service is
\* started again and no listener throws on it.
THEOREM PayeeIsToldOnce == Spec => []PayeeIsTold
BY PInvariant, ListenedIsTold, PTL

===============================================================================
