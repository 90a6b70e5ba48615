---------------------- MODULE TransactionSubmissionProofs ----------------------
(***************************************************************************)
(* No transaction is forgotten or doubled, transactions take effect in the *)
(* order of the calls, and what is completed was mined, for any calls,     *)
(* failures, restarts and reorganisations.                                 *)
(***************************************************************************)
EXTENDS TransactionSubmission, FiniteSetTheorems, TLAPS

Types ==
  /\ accountNonce \in Nat /\ nonce \in [Calls -> Int]
  /\ caller \in [Calls -> {"idle", "holding", "returned", "failed"}]
  /\ transactionQueue \in Seq(Calls) /\ taken \in Calls \cup {NoCall}
  /\ failures \in [Calls -> Nat] /\ timerAlive \in BOOLEAN
  /\ dropped \subseteq Calls /\ dead \subseteq Calls
  /\ pool \subseteq Calls /\ mined \in Seq(Calls)

Queued == ToSet(transactionQueue)

\* A call that was not made is nowhere; what is queued or in the hands of the
\* timer is of the present process.
Idle ==
  \A p \in InState("idle") :
    p \notin Queued \cup {taken} \cup AtNode \cup dropped \cup dead
Ours == Queued \cup ({taken} \ {NoCall}) \subseteq Live

\* Exactly one of five.
OneOf(h, q, t, n, d) ==
  \/ h /\ ~q /\ ~t /\ ~n /\ ~d
  \/ ~h /\ q /\ ~t /\ ~n /\ ~d
  \/ ~h /\ ~q /\ t /\ ~n /\ ~d
  \/ ~h /\ ~q /\ ~t /\ n /\ ~d
  \/ ~h /\ ~q /\ ~t /\ ~n /\ d
InOnePlace(p) ==
  OneOf(caller[p] = "holding", p \in Queued, p = taken, p \in AtNode, p \in dropped)
Placed == \A p \in Live : InOnePlace(p)

\* The counter is ahead of the nonces of the present process, and so they
\* differ.
NoncesUsed == \A p \in Live : nonce[p] < accountNonce
NoncesDiffer == \A p, q \in Live : p # q => nonce[p] # nonce[q]

\* Failures are counted up to the one that drops the transaction.
Counted ==
  /\ \A p \in Calls \ dropped : failures[p] <= MaxRetries
  /\ timerAlive => \A p \in (Live \cap dropped) \ Contracts : failures[p] = MaxRetries + 1

QueuedOnce == IsInjective(transactionQueue)

IInv ==
  /\ Types /\ Idle /\ Ours /\ Placed
  /\ NoncesUsed /\ NoncesDiffer /\ Counted /\ QueuedOnce

-------------------------------------------------------------------------------
(* The invariant says what the property does.                              *)

LEMMA OneOfFive ==
  ASSUME NEW p, InOnePlace(p)
  PROVE  \E i \in 1 .. 5 : {j \in 1 .. 5 : Places(p)[j]} = {i}
<1> DEFINE s == Places(p)
<1>1. /\ s[1] <=> caller[p] = "holding"
      /\ s[2] <=> p \in Queued
      /\ s[3] <=> p = taken
      /\ s[4] <=> p \in AtNode
      /\ s[5] <=> p \in dropped
  BY DEF Places, Queued
<1> HIDE DEF s
<1>2. PICK i \in 1 .. 5 : s[i] /\ \A j \in 1 .. 5 : s[j] => j = i
  <2>1. \A j \in 1 .. 5 : j = 1 \/ j = 2 \/ j = 3 \/ j = 4 \/ j = 5
    OBVIOUS
  <2>2. 1 \in 1 .. 5 /\ 2 \in 1 .. 5 /\ 3 \in 1 .. 5 /\ 4 \in 1 .. 5 /\ 5 \in 1 .. 5
    OBVIOUS
  <2>3. \/ s[1] /\ ~s[2] /\ ~s[3] /\ ~s[4] /\ ~s[5]
        \/ ~s[1] /\ s[2] /\ ~s[3] /\ ~s[4] /\ ~s[5]
        \/ ~s[1] /\ ~s[2] /\ s[3] /\ ~s[4] /\ ~s[5]
        \/ ~s[1] /\ ~s[2] /\ ~s[3] /\ s[4] /\ ~s[5]
        \/ ~s[1] /\ ~s[2] /\ ~s[3] /\ ~s[4] /\ s[5]
    BY <1>1, Zenon DEF InOnePlace, OneOf
  <2>4. CASE s[1] /\ ~s[2] /\ ~s[3] /\ ~s[4] /\ ~s[5]
    BY <2>1, <2>2, <2>4, Zenon
  <2>5. CASE ~s[1] /\ s[2] /\ ~s[3] /\ ~s[4] /\ ~s[5]
    BY <2>1, <2>2, <2>5, Zenon
  <2>6. CASE ~s[1] /\ ~s[2] /\ s[3] /\ ~s[4] /\ ~s[5]
    BY <2>1, <2>2, <2>6, Zenon
  <2>7. CASE ~s[1] /\ ~s[2] /\ ~s[3] /\ s[4] /\ ~s[5]
    BY <2>1, <2>2, <2>7, Zenon
  <2>8. CASE ~s[1] /\ ~s[2] /\ ~s[3] /\ ~s[4] /\ s[5]
    BY <2>1, <2>2, <2>8, Zenon
  <2> QED
    BY <2>3, <2>4, <2>5, <2>6, <2>7, <2>8, Zenon
<1>3. {j \in 1 .. 5 : s[j]} = {i}
  BY <1>2
<1> QED
  BY <1>3 DEF s

LEMMA InvariantImplies == IInv => EachInOnePlace
<1> SUFFICES ASSUME IInv PROVE EachInOnePlace
  OBVIOUS
<1>1. ASSUME NEW p \in Live PROVE \E i \in 1 .. 5 : {j \in 1 .. 5 : Places(p)[j]} = {i}
  <2>1. InOnePlace(p)
    BY DEF IInv, Placed
  <2> QED
    BY <2>1, OneOfFive
<1>2. ASSUME NEW p \in Live PROVE \A q \in Live \ {p} : nonce[q] # nonce[p]
  BY DEF IInv, NoncesDiffer
<1>3. ASSUME NEW p \in Live, p \in dropped \ Contracts, timerAlive
      PROVE  failures[p] = MaxRetries + 1
  BY <1>3 DEF IInv, Counted
<1> QED
  BY <1>1, <1>2, <1>3 DEF IInv, QueuedOnce, EachInOnePlace

-------------------------------------------------------------------------------
(* Sequences.                                                              *)

LEMMA OfAppend ==
  ASSUME NEW S, NEW s \in Seq(S), NEW x \in S
  PROVE  /\ Append(s, x) \in Seq(S) /\ ToSet(Append(s, x)) = ToSet(s) \cup {x}
         /\ IsInjective(s) /\ x \notin ToSet(s) => IsInjective(Append(s, x))
<1>1. /\ Append(s, x) \in Seq(S)
      /\ DOMAIN Append(s, x) = DOMAIN s \cup {Len(s) + 1}
      /\ \A i \in DOMAIN s : Append(s, x)[i] = s[i]
      /\ Append(s, x)[Len(s) + 1] = x
  OBVIOUS
<1> QED
  BY <1>1 DEF ToSet, IsInjective

LEMMA OfTail ==
  ASSUME NEW S, NEW s \in Seq(S), s # <<>>
  PROVE  /\ Tail(s) \in Seq(S) /\ Head(s) \in S
         /\ ToSet(s) = ToSet(Tail(s)) \cup {Head(s)}
         /\ IsInjective(s) => IsInjective(Tail(s)) /\ Head(s) \notin ToSet(Tail(s))
<1>1. /\ Tail(s) \in Seq(S) /\ 1 \in DOMAIN s /\ Head(s) = s[1] /\ Head(s) \in S
      /\ \A i \in DOMAIN Tail(s) : i + 1 \in DOMAIN s /\ i + 1 # 1 /\ Tail(s)[i] = s[i + 1]
      /\ \A i \in DOMAIN s : i # 1 => i - 1 \in DOMAIN Tail(s) /\ s[i] = Tail(s)[i - 1]
  OBVIOUS
<1>2. ToSet(s) = ToSet(Tail(s)) \cup {Head(s)}
  <2>1. ToSet(s) \subseteq ToSet(Tail(s)) \cup {Head(s)}
    BY <1>1 DEF ToSet
  <2>2. ToSet(Tail(s)) \cup {Head(s)} \subseteq ToSet(s)
    BY <1>1 DEF ToSet
  <2> QED
    BY <2>1, <2>2
<1>3. ASSUME IsInjective(s) PROVE IsInjective(Tail(s))
  <2>1. \A i, j \in DOMAIN Tail(s) : i \in Int /\ j \in Int
    OBVIOUS
  <2> QED
    BY <1>1, <1>3, <2>1 DEF IsInjective
<1>4. ASSUME IsInjective(s) PROVE Head(s) \notin ToSet(Tail(s))
  BY <1>1, <1>4 DEF IsInjective, ToSet
<1> QED
  BY <1>1, <1>2, <1>3, <1>4

LEMMA OfFront ==
  ASSUME NEW S, NEW s \in Seq(S), s # <<>>
  PROVE  /\ Front(s) \in Seq(S) /\ Last(s) \in S
         /\ ToSet(s) = ToSet(Front(s)) \cup {Last(s)}
         /\ Len(s) \in Nat /\ Len(s) # 0 /\ Len(Front(s)) = Len(s) - 1
         /\ \A i \in 1 .. Len(s) - 1 : Front(s)[i] = s[i]
<1>1. Len(s) \in Nat /\ Len(s) # 0 /\ Len(s) \in DOMAIN s
  OBVIOUS
<1>2. Last(s) = s[Len(s)] /\ Last(s) \in S
  BY <1>1 DEF Last
<1>3. /\ Front(s) \in Seq(S) /\ DOMAIN Front(s) = 1 .. Len(s) - 1
      /\ \A i \in DOMAIN Front(s) : Front(s)[i] = s[i]
  BY <1>1 DEF Front
<1>4. Len(Front(s)) = Len(s) - 1
  <2>1. PICK k \in Nat : k = Len(Front(s)) /\ DOMAIN Front(s) = 1 .. k
    BY <1>3
  <2>2. PICK n \in Nat : n = Len(s) - 1 /\ DOMAIN Front(s) = 1 .. n
    BY <1>1, <1>3
  <2>3. (k # 0 => k \in 1 .. n) /\ (n # 0 => n \in 1 .. k)
    <3>1. (k # 0 => k \in 1 .. k) /\ (n # 0 => n \in 1 .. n)
      OBVIOUS
    <3> QED
      BY <2>1, <2>2, <3>1
  <2> QED
    BY <2>1, <2>2, <2>3
<1>5. DOMAIN s = DOMAIN Front(s) \cup {Len(s)}
  <2>1. DOMAIN s = 1 .. Len(s)
    OBVIOUS
  <2>2. 1 .. Len(s) = (1 .. Len(s) - 1) \cup {Len(s)}
    BY <1>1
  <2> QED
    BY <1>3, <2>1, <2>2
<1>6. \A i \in 1 .. Len(s) - 1 : Front(s)[i] = s[i]
  BY <1>3
<1>7. ToSet(s) = ToSet(Front(s)) \cup {Last(s)}
  BY <1>2, <1>3, <1>5 DEF ToSet
<1> QED
  BY <1>1, <1>2, <1>3, <1>4, <1>6, <1>7

-------------------------------------------------------------------------------
(* A step that moves one call from one place to another.                   *)

LEMMA LiveCalls ==
  ASSUME NEW p
  PROVE  p \in Live <=> p \in Calls /\ caller[p] # "idle" /\ p \notin dead
BY DEF Live, InState

LEMMA LiveStays ==
  ASSUME dead' = dead, \A p \in Calls : caller'[p] = "idle" <=> caller[p] = "idle"
  PROVE  Live' = Live /\ InState("idle")' = InState("idle")
BY DEF Live, InState

LEMMA MoveInvariant ==
  ASSUME IInv, Types', NEW c \in Live, UNCHANGED <<accountNonce, nonce, dead>>,
         \A p \in Calls \ {c} : caller'[p] = caller[p], caller'[c] # "idle",
         Queued' \subseteq Queued \cup {c}, taken' \in {taken, NoCall, c},
         AtNode' \subseteq AtNode \cup {c}, dropped' \subseteq dropped \cup {c},
         \A p \in Live \ {c} :
           /\ p \in Queued' <=> p \in Queued
           /\ p = taken' <=> p = taken
           /\ p \in AtNode' <=> p \in AtNode
           /\ p \in dropped' <=> p \in dropped,
         InOnePlace(c)', Counted', QueuedOnce'
  PROVE  IInv'
<1>1. Live' = Live /\ InState("idle")' = InState("idle")
  <2>1. caller[c] # "idle"
    BY LiveCalls
  <2> QED
    BY <2>1, LiveStays
<1>2. Live \subseteq Calls /\ NoCall \notin Calls /\ c \notin InState("idle")
  BY LiveCalls, CallsAssumption DEF InState
<1>3. Idle'
  <2> SUFFICES ASSUME NEW p \in InState("idle")
               PROVE  p \notin Queued' \cup {taken'} \cup AtNode' \cup dropped' \cup dead'
    BY <1>1 DEF Idle
  <2>1. p \in Calls /\ p # c
    BY <1>2 DEF InState
  <2> QED
    BY <1>2, <2>1 DEF IInv, Idle
<1>4. Ours'
  BY <1>1, <1>2 DEF IInv, Ours
<1>5. Placed'
  <2> SUFFICES ASSUME NEW p \in Live PROVE InOnePlace(p)'
    BY <1>1 DEF Placed
  <2>1. CASE p = c
    BY <2>1
  <2>2. CASE p # c
    <3>1. InOnePlace(p)
      BY DEF IInv, Placed
    <3>2. /\ caller'[p] = caller[p]
          /\ p \in Queued' <=> p \in Queued
          /\ p = taken' <=> p = taken
          /\ p \in AtNode' <=> p \in AtNode
          /\ p \in dropped' <=> p \in dropped
      BY <1>2, <2>2
    <3> QED
      BY <3>1, <3>2 DEF InOnePlace, OneOf
  <2> QED
    BY <2>1, <2>2
<1>6. NoncesUsed' /\ NoncesDiffer'
  BY <1>1 DEF IInv, NoncesUsed, NoncesDiffer
<1> QED
  BY <1>3, <1>4, <1>5, <1>6 DEF IInv

LEMMA CountedStays ==
  ASSUME IInv, UNCHANGED <<failures, dropped, timerAlive>>, Live' \subseteq Live
  PROVE  Counted'
BY DEF IInv, Counted

\* A transaction the node admits replaces none of the present process.
LEMMA AdmitEffect ==
  ASSUME IInv, NEW c \in Live, Admit(c), nonce' = nonce
  PROVE  /\ pool' \subseteq Calls /\ mined' \in Seq(Calls)
         /\ c \in AtNode' /\ AtNode' \subseteq AtNode \cup {c}
         /\ \A p \in Live \ {c} : p \in AtNode' <=> p \in AtNode
<1>1. mined' = mined /\ pool' = (pool \ Rivals(c)) \cup {c}
  BY DEF Admit
<1>2. Rivals(c) \cap Live \subseteq {c}
  BY DEF IInv, NoncesDiffer, Rivals
<1>3. c \in Calls
  BY LiveCalls
<1> QED
  BY <1>1, <1>2, <1>3 DEF IInv, Types, AtNode

-------------------------------------------------------------------------------
(* The callers.                                                            *)

LEMMA TakeNonceInvariant == ASSUME IInv, NEW p \in Calls, TakeNonce(p) PROVE IInv'
<1>1. /\ caller[p] = "idle" /\ caller' = [caller EXCEPT ![p] = "holding"]
      /\ nonce' = [nonce EXCEPT ![p] = accountNonce] /\ accountNonce' = accountNonce + 1
      /\ UNCHANGED <<transactionQueue, taken, failures, timerAlive, dropped, dead, pool, mined>>
  BY DEF TakeNonce, submitVars, nodeVars, restartVars
<1>2. Types
  BY DEF IInv
<1>3. Types'
  BY <1>1, <1>2 DEF Types
<1>4. /\ p \notin Queued /\ p # taken /\ p \notin AtNode /\ p \notin dropped /\ p \notin dead
      /\ p \notin Live
  BY <1>1, LiveCalls DEF IInv, Idle, InState
<1>5. /\ Queued' = Queued /\ AtNode' = AtNode
      /\ caller'[p] = "holding" /\ \A q \in Calls \ {p} : caller'[q] = caller[q]
  BY <1>1, <1>2 DEF Types, Queued, AtNode
<1>6. Live' = Live \cup {p} /\ InState("idle")' = InState("idle") \ {p}
  BY <1>1, <1>4, <1>5 DEF Live, InState
<1>7. Idle' /\ Ours'
  BY <1>1, <1>5, <1>6 DEF IInv, Idle, Ours
<1>8. Placed'
  <2>1. InOnePlace(p)'
    BY <1>1, <1>4, <1>5 DEF InOnePlace, OneOf
  <2>2. ASSUME NEW q \in Live PROVE InOnePlace(q)'
    <3>1. InOnePlace(q) /\ q \in Calls /\ q # p
      BY <1>4, LiveCalls DEF IInv, Placed
    <3> QED
      BY <1>1, <1>5, <3>1 DEF InOnePlace
  <2> QED
    BY <1>6, <2>1, <2>2 DEF Placed
<1>9. /\ nonce'[p] = accountNonce
      /\ \A q \in Live : nonce'[q] = nonce[q] /\ nonce[q] \in Int /\ nonce[q] < accountNonce
  BY <1>1, <1>2, <1>4, LiveCalls DEF IInv, Types, NoncesUsed
<1>10. NoncesUsed'
  BY <1>1, <1>2, <1>6, <1>9 DEF NoncesUsed, Types
<1>11. NoncesDiffer'
  <2> SUFFICES ASSUME NEW q \in Live \cup {p}, NEW r \in Live \cup {p}, q # r
               PROVE  nonce'[q] # nonce'[r]
    BY <1>6 DEF NoncesDiffer
  <2>1. accountNonce \in Int
    BY <1>2 DEF Types
  <2>2. CASE q \in Live /\ r \in Live
    BY <1>9, <2>2 DEF IInv, NoncesDiffer
  <2>3. CASE q = p \/ r = p
    BY <1>9, <2>1, <2>3
  <2> QED
    BY <2>2, <2>3
<1>12. Counted' /\ QueuedOnce'
  BY <1>1, <1>4, <1>6 DEF IInv, Counted, QueuedOnce
<1> QED
  BY <1>3, <1>7, <1>8, <1>10, <1>11, <1>12 DEF IInv

\* What a thread that holds a nonce knows of its call.
LEMMA HoldingCall ==
  ASSUME IInv, NEW p \in Calls, caller[p] = "holding", p \notin dead
  PROVE  /\ p \in Live /\ p \notin Queued /\ p # taken /\ p \notin AtNode /\ p \notin dropped
<1>1. p \in Live
  BY LiveCalls
<1>2. InOnePlace(p)
  BY <1>1 DEF IInv, Placed
<1> QED
  BY <1>1, <1>2 DEF InOnePlace, OneOf

LEMMA EnqueueInvariant == ASSUME IInv, NEW p \in Calls, Enqueue(p) PROVE IInv'
<1>1. /\ caller[p] = "holding" /\ p \notin dead
      /\ transactionQueue' = Append(transactionQueue, p)
      /\ caller' = [caller EXCEPT ![p] = "returned"]
      /\ UNCHANGED <<accountNonce, nonce, taken, failures, timerAlive, dropped, dead, pool, mined>>
  BY DEF Enqueue, nodeVars, restartVars
<1>2. Types /\ QueuedOnce
  BY DEF IInv
<1>3. p \in Live /\ p \notin Queued /\ p # taken /\ p \notin AtNode /\ p \notin dropped
  BY <1>1, HoldingCall
<1>4. /\ transactionQueue' \in Seq(Calls) /\ Queued' = Queued \cup {p} /\ QueuedOnce'
  BY <1>1, <1>2, <1>3, OfAppend DEF Types, Queued, QueuedOnce
<1>5. /\ caller' \in [Calls -> {"idle", "holding", "returned", "failed"}]
      /\ caller'[p] = "returned" /\ \A q \in Calls \ {p} : caller'[q] = caller[q]
  BY <1>1, <1>2 DEF Types
<1>6. Types'
  BY <1>1, <1>2, <1>4, <1>5 DEF Types
<1>7. Live' = Live /\ AtNode' = AtNode
  BY <1>1, <1>5, LiveStays DEF AtNode
<1>8. InOnePlace(p)'
  BY <1>1, <1>3, <1>4, <1>5, <1>7 DEF InOnePlace, OneOf
<1>9. Counted'
  BY <1>1, <1>7, CountedStays
<1> QED
  BY <1>1, <1>3, <1>4, <1>5, <1>6, <1>7, <1>8, <1>9, MoveInvariant

\* newContract: the call goes to the node, or is given up.
LEMMA ContractInvariant ==
  ASSUME IInv, NEW p \in Contracts, SendContract(p) \/ ContractFails(p)
  PROVE  IInv'
<1>1. /\ p \in Calls /\ caller[p] = "holding" /\ p \notin dead
      /\ caller' = [caller EXCEPT ![p] = "returned"] \/ caller' = [caller EXCEPT ![p] = "failed"]
      /\ UNCHANGED <<accountNonce, nonce, transactionQueue, taken, failures, timerAlive, dead>>
  BY CallsAssumption DEF SendContract, ContractFails, submitVars, restartVars
<1>2. \/ Admit(p) /\ dropped' = dropped
      \/ UNCHANGED <<pool, mined>> /\ dropped' = dropped \cup {p}
  BY DEF SendContract, ContractFails, nodeVars
<1>3. Types
  BY DEF IInv
<1>4. p \in Live /\ p \notin Queued /\ p # taken /\ p \notin AtNode /\ p \notin dropped
  BY <1>1, HoldingCall
<1>5. /\ caller' \in [Calls -> {"idle", "holding", "returned", "failed"}]
      /\ caller'[p] \in {"returned", "failed"}
      /\ \A q \in Calls \ {p} : caller'[q] = caller[q]
  BY <1>1, <1>3 DEF Types
<1>6. Live' = Live /\ Queued' = Queued /\ QueuedOnce'
  BY <1>1, <1>5, LiveStays DEF IInv, Queued, QueuedOnce
<1>7. CASE Admit(p) /\ dropped' = dropped
  <2>1. /\ pool' \subseteq Calls /\ mined' \in Seq(Calls)
        /\ p \in AtNode' /\ AtNode' \subseteq AtNode \cup {p}
        /\ \A q \in Live \ {p} : q \in AtNode' <=> q \in AtNode
    BY <1>1, <1>4, <1>7, AdmitEffect
  <2>2. Types'
    BY <1>1, <1>3, <1>5, <1>7, <2>1 DEF Types
  <2>3. InOnePlace(p)'
    BY <1>1, <1>4, <1>5, <1>6, <1>7, <2>1 DEF InOnePlace, OneOf
  <2>4. Counted'
    BY <1>1, <1>6, <1>7, CountedStays
  <2> QED
    BY <1>1, <1>4, <1>5, <1>6, <1>7, <2>1, <2>2, <2>3, <2>4, MoveInvariant
<1>8. CASE UNCHANGED <<pool, mined>> /\ dropped' = dropped \cup {p}
  <2>1. AtNode' = AtNode
    BY <1>8 DEF AtNode
  <2>2. Types'
    BY <1>1, <1>3, <1>5, <1>8 DEF Types
  <2>3. InOnePlace(p)'
    BY <1>1, <1>4, <1>5, <1>6, <1>8, <2>1 DEF InOnePlace, OneOf
  <2>4. Counted'
    BY <1>1, <1>6, <1>8 DEF IInv, Counted
  <2> QED
    BY <1>1, <1>4, <1>5, <1>6, <1>8, <2>1, <2>2, <2>3, <2>4, MoveInvariant
<1> QED
  BY <1>2, <1>7, <1>8

-------------------------------------------------------------------------------
(* The submit timer.                                                       *)

\* What the timer has in its hands.
LEMMA TakenCall ==
  ASSUME IInv, taken # NoCall
  PROVE  /\ taken \in Live /\ taken \in Calls /\ caller[taken] # "holding"
         /\ taken \notin Queued /\ taken \notin AtNode /\ taken \notin dropped
<1>1. taken \in Live
  BY DEF IInv, Ours
<1>2. InOnePlace(taken)
  BY <1>1 DEF IInv, Placed
<1> QED
  BY <1>1, <1>2, LiveCalls DEF InOnePlace, OneOf

LEMMA TakeInvariant == ASSUME IInv, Take PROVE IInv'
<1>p. PICK p : p = Head(transactionQueue)
  OBVIOUS
<1>1. /\ taken = NoCall /\ transactionQueue # <<>>
      /\ taken' = p /\ transactionQueue' = Tail(transactionQueue)
      /\ UNCHANGED <<accountNonce, nonce, caller, failures, timerAlive, dropped, dead, pool, mined>>
  BY <1>p DEF Take, callVars, nodeVars, restartVars
<1>2. Types /\ QueuedOnce
  BY DEF IInv
<1>3. /\ transactionQueue' \in Seq(Calls) /\ p \in Calls /\ Queued = Queued' \cup {p}
      /\ p \notin Queued' /\ QueuedOnce'
  BY <1>p, <1>1, <1>2, OfTail DEF Types, Queued, QueuedOnce
<1>4. p \in Live /\ p \in Queued
  BY <1>3 DEF IInv, Ours
<1>5. InOnePlace(p) /\ caller[p] # "idle"
  BY <1>4, LiveCalls DEF IInv, Placed
<1>6. Types'
  BY <1>1, <1>2, <1>3 DEF Types
<1>7. AtNode' = AtNode /\ Live' = Live
  BY <1>1 DEF AtNode, Live, InState
<1>8. InOnePlace(p)'
  BY <1>1, <1>3, <1>4, <1>5, <1>7 DEF InOnePlace, OneOf
<1>9. Counted'
  BY <1>1, <1>7, CountedStays
<1>10. NoCall \notin Live
  BY CallsAssumption, LiveCalls
<1> QED
  BY <1>1, <1>3, <1>4, <1>5, <1>6, <1>7, <1>8, <1>9, <1>10, MoveInvariant

\* The node has it, or it is given up with the timer.
LEMMA HandedOver ==
  ASSUME IInv, taken # NoCall, taken' = NoCall, timerAlive' \in BOOLEAN,
         UNCHANGED <<accountNonce, nonce, caller, transactionQueue, failures, dead>>,
         \/ Admit(taken) /\ dropped' = dropped /\ (timerAlive' => timerAlive)
         \/ UNCHANGED <<pool, mined>> /\ dropped' = dropped \cup {taken} /\ timerAlive' = FALSE
  PROVE  IInv'
<1>p. PICK p : p = taken
  OBVIOUS
<1>1. /\ p \in Live /\ p \in Calls /\ caller[p] # "holding" /\ caller[p] # "idle"
      /\ p \notin Queued /\ p \notin AtNode /\ p \notin dropped /\ p # NoCall
  BY <1>p, TakenCall, LiveCalls
<1>2. Types /\ NoCall \notin Live
  BY CallsAssumption, LiveCalls DEF IInv
<1>3. Live' = Live /\ Queued' = Queued /\ QueuedOnce'
  BY DEF IInv, Live, InState, Queued, QueuedOnce
<1>4. CASE Admit(p) /\ dropped' = dropped /\ (timerAlive' => timerAlive)
  <2>1. /\ pool' \subseteq Calls /\ mined' \in Seq(Calls)
        /\ p \in AtNode' /\ AtNode' \subseteq AtNode \cup {p}
        /\ \A q \in Live \ {p} : q \in AtNode' <=> q \in AtNode
    BY <1>1, <1>4, AdmitEffect
  <2>2. Types'
    BY <1>2, <1>4, <2>1 DEF Types
  <2>3. InOnePlace(p)'
    BY <1>p, <1>1, <1>3, <1>4, <2>1 DEF InOnePlace, OneOf
  <2>4. Counted'
    BY <1>3, <1>4 DEF IInv, Counted
  <2> QED
    BY <1>p, <1>1, <1>2, <1>3, <1>4, <2>1, <2>2, <2>3, <2>4, MoveInvariant
<1>5. CASE UNCHANGED <<pool, mined>> /\ dropped' = dropped \cup {p} /\ timerAlive' = FALSE
  <2>1. AtNode' = AtNode
    BY <1>5 DEF AtNode
  <2>2. Types'
    BY <1>1, <1>2, <1>5 DEF Types
  <2>3. InOnePlace(p)'
    BY <1>p, <1>1, <1>3, <1>5, <2>1 DEF InOnePlace, OneOf
  <2>4. Counted'
    BY <1>3, <1>5 DEF IInv, Counted
  <2> QED
    BY <1>p, <1>1, <1>2, <1>3, <1>5, <2>1, <2>2, <2>3, <2>4, MoveInvariant
<1> QED
  BY <1>p, <1>4, <1>5

LEMMA SubmitInvariant == ASSUME IInv, Submit \/ SubmitTimerEnds PROVE IInv'
<1>1. /\ taken # NoCall /\ taken' = NoCall
      /\ timerAlive' = timerAlive \/ timerAlive' = FALSE
      /\ UNCHANGED <<accountNonce, nonce, caller, transactionQueue, failures, dead>>
  BY DEF Submit, SubmitTimerEnds, callVars, restartVars
<1>2. \/ Admit(taken) /\ dropped' = dropped /\ (timerAlive' => timerAlive)
      \/ UNCHANGED <<pool, mined>> /\ dropped' = dropped \cup {taken} /\ timerAlive' = FALSE
  <2>1. CASE Submit
    BY <2>1, Zenon DEF Submit
  <2>2. CASE SubmitTimerEnds
    BY <2>2, Zenon DEF SubmitTimerEnds, nodeVars
  <2> QED
    BY <2>1, <2>2
<1>3. timerAlive' \in BOOLEAN
  BY <1>1, Zenon DEF IInv, Types
<1> QED
  BY <1>1, <1>2, <1>3, HandedOver

\* A refused transaction is queued again, or given up at the last failure.
LEMMA SubmitRefusedInvariant == ASSUME IInv, SubmitRefused PROVE IInv'
<1>p. PICK p : p = taken
  OBVIOUS
<1>1. /\ taken # NoCall /\ taken' = NoCall
      /\ failures' = [failures EXCEPT ![p] = @ + 1]
      /\ UNCHANGED <<accountNonce, nonce, caller, timerAlive, dead, pool, mined>>
  BY <1>p DEF SubmitRefused, callVars, nodeVars, restartVars
<1>2. \/ /\ failures[p] + 1 <= MaxRetries
         /\ transactionQueue' = Append(transactionQueue, p) /\ dropped' = dropped
      \/ /\ ~(failures[p] + 1 <= MaxRetries)
         /\ transactionQueue' = transactionQueue /\ dropped' = dropped \cup {p}
  BY <1>p DEF SubmitRefused, Failed
<1>3. /\ p \in Live /\ p \in Calls /\ caller[p] # "holding" /\ caller[p] # "idle"
      /\ p \notin Queued /\ p \notin AtNode /\ p \notin dropped /\ p # NoCall
  BY <1>p, <1>1, TakenCall, LiveCalls
<1>4. Types /\ QueuedOnce /\ Counted /\ NoCall \notin Live
  BY CallsAssumption, LiveCalls DEF IInv
<1>5. Live' = Live /\ AtNode' = AtNode
  BY <1>1 DEF AtNode, Live, InState
<1>6. /\ failures' \in [Calls -> Nat] /\ failures'[p] = failures[p] + 1
      /\ \A q \in Calls \ {p} : failures'[q] = failures[q]
      /\ failures[p] \in Nat /\ failures[p] <= MaxRetries
  BY <1>1, <1>3, <1>4 DEF Types, Counted
<1>7. Live \subseteq Calls
  BY LiveCalls
<1>8. CASE /\ failures[p] + 1 <= MaxRetries
           /\ transactionQueue' = Append(transactionQueue, p) /\ dropped' = dropped
  <2>1. /\ transactionQueue' \in Seq(Calls) /\ Queued' = Queued \cup {p} /\ QueuedOnce'
    BY <1>3, <1>4, <1>8, OfAppend DEF Types, Queued, QueuedOnce
  <2>2. Types'
    BY <1>1, <1>4, <1>6, <1>8, <2>1 DEF Types
  <2>3. InOnePlace(p)'
    BY <1>p, <1>1, <1>3, <1>5, <1>8, <2>1 DEF InOnePlace, OneOf
  <2>4. Counted'
    BY <1>1, <1>3, <1>4, <1>5, <1>6, <1>7, <1>8 DEF Counted
  <2> QED
    BY <1>p, <1>1, <1>3, <1>4, <1>5, <1>8, <2>1, <2>2, <2>3, <2>4, MoveInvariant
<1>9. CASE /\ ~(failures[p] + 1 <= MaxRetries)
           /\ transactionQueue' = transactionQueue /\ dropped' = dropped \cup {p}
  <2>1. Queued' = Queued /\ QueuedOnce'
    BY <1>4, <1>9 DEF Queued, QueuedOnce
  <2>2. Types'
    BY <1>1, <1>3, <1>4, <1>6, <1>9 DEF Types
  <2>3. InOnePlace(p)'
    BY <1>p, <1>1, <1>3, <1>5, <1>9, <2>1 DEF InOnePlace, OneOf
  <2>4. failures'[p] = MaxRetries + 1
    BY <1>6, <1>9 DEF MaxRetries
  <2>5. Counted'
    BY <1>1, <1>3, <1>4, <1>5, <1>6, <1>7, <1>9, <2>4 DEF Counted
  <2> QED
    BY <1>p, <1>1, <1>3, <1>4, <1>5, <1>9, <2>1, <2>2, <2>3, <2>5, MoveInvariant
<1> QED
  BY <1>2, <1>8, <1>9

-------------------------------------------------------------------------------
(* The node, the process, the poller.                                      *)

LEMMA OtherInvariant ==
  ASSUME IInv, AtNode' = AtNode, pool' \subseteq Calls, mined' \in Seq(Calls),
         UNCHANGED <<accountNonce, nonce, caller, transactionQueue, taken, failures, timerAlive,
                     dropped, dead>>
  PROVE  IInv'
<1>1. Live' = Live /\ InState("idle")' = InState("idle") /\ Queued' = Queued
  BY DEF Live, InState, Queued
<1>2. Types' /\ Idle' /\ Ours'
  BY <1>1 DEF IInv, Types, Idle, Ours
<1>3. Placed'
  BY <1>1 DEF IInv, Placed, InOnePlace
<1>4. NoncesUsed' /\ NoncesDiffer' /\ Counted' /\ QueuedOnce'
  BY <1>1 DEF IInv, NoncesUsed, NoncesDiffer, Counted, QueuedOnce
<1> QED
  BY <1>2, <1>3, <1>4 DEF IInv

LEMMA MineInvariant == ASSUME IInv, NEW p \in Calls, Mine(p) PROVE IInv'
<1>1. /\ p \in pool /\ mined' = Append(mined, p) /\ pool' = pool \ {p}
      /\ UNCHANGED <<accountNonce, nonce, caller, transactionQueue, taken, failures, timerAlive,
                     dropped, dead>>
  BY DEF Mine, submitVars, callVars, restartVars
<1>2. mined' \in Seq(Calls) /\ ToSet(mined') = ToSet(mined) \cup {p}
  BY <1>1, OfAppend DEF IInv, Types
<1>3. pool' \subseteq Calls /\ AtNode' = AtNode
  BY <1>1, <1>2 DEF IInv, Types, AtNode
<1> QED
  BY <1>1, <1>2, <1>3, OtherInvariant

LEMMA UnmineInvariant == ASSUME IInv, Unmine PROVE IInv'
<1>1. /\ mined # <<>> /\ mined' = Front(mined) /\ pool' = pool \cup {Last(mined)}
      /\ UNCHANGED <<accountNonce, nonce, caller, transactionQueue, taken, failures, timerAlive,
                     dropped, dead>>
  BY DEF Unmine, submitVars, callVars, restartVars
<1>2. /\ mined' \in Seq(Calls) /\ Last(mined) \in Calls
      /\ ToSet(mined) = ToSet(mined') \cup {Last(mined)}
  BY <1>1, OfFront DEF IInv, Types
<1>3. pool' \subseteq Calls /\ AtNode' = AtNode
  BY <1>1, <1>2 DEF IInv, Types, AtNode
<1> QED
  BY <1>1, <1>2, <1>3, OtherInvariant

\* All calls of the process before are dead.
LEMMA RestartInvariant == ASSUME IInv, Restart PROVE IInv'
<1>1. /\ dead' = Calls \ InState("idle") /\ accountNonce' = Len(mined)
      /\ transactionQueue' = <<>> /\ taken' = NoCall /\ timerAlive' = TRUE
      /\ UNCHANGED <<nonce, caller, failures, dropped, pool, mined>>
  BY DEF Restart, nodeVars
<1>2. Live' = {} /\ InState("idle")' = InState("idle")
  BY <1>1 DEF Live, InState
<1>3. Queued' = {} /\ AtNode' = AtNode /\ transactionQueue' \in Seq(Calls)
  BY <1>1 DEF Queued, AtNode, ToSet
<1>4. Types'
  BY <1>1, <1>3 DEF IInv, Types
<1>5. Idle' /\ Ours'
  BY <1>1, <1>2, <1>3, CallsAssumption DEF IInv, Idle, Ours, InState
<1>6. Placed' /\ NoncesUsed' /\ NoncesDiffer'
  BY <1>2 DEF Placed, NoncesUsed, NoncesDiffer
<1>7. Counted' /\ QueuedOnce'
  BY <1>1, <1>2 DEF IInv, Counted, QueuedOnce, IsInjective
<1> QED
  BY <1>4, <1>5, <1>6, <1>7 DEF IInv

LEMMA StepInvariant == IInv /\ [Next]_vars => IInv'
<1> SUFFICES ASSUME IInv, [Next]_vars PROVE IInv'
  OBVIOUS
<1>1. pool \subseteq Calls /\ mined \in Seq(Calls)
  BY DEF IInv, Types
<1>2. ASSUME /\ UNCHANGED <<accountNonce, nonce, caller, submitVars, dropped, dead>>
             /\ UNCHANGED nodeVars
      PROVE  IInv'
  BY <1>1, <1>2, OtherInvariant DEF submitVars, nodeVars, AtNode
<1>3. CASE UNCHANGED vars
  BY <1>2, <1>3 DEF vars, callVars, restartVars
<1>4. ASSUME NEW p \in Calls, CallerStep(p) PROVE IInv'
  BY <1>4, TakeNonceInvariant, EnqueueInvariant, ContractInvariant DEF CallerStep, SendContract, ContractFails
<1>5. ASSUME NEW p \in Calls, Mine(p) PROVE IInv'
  BY <1>5, MineInvariant
<1>6. CASE SubmitStep \/ SubmitTimerEnds
  BY <1>6, TakeInvariant, SubmitInvariant, SubmitRefusedInvariant DEF SubmitStep
<1>7. CASE PollStep \/ RoundFails
  BY <1>2, <1>7 DEF PollStep, StartRound, Visit, EndRound, RoundFails, callVars, restartVars
<1>8. CASE Unmine \/ Restart
  BY <1>8, UnmineInvariant, RestartInvariant
<1> QED
  BY <1>3, <1>4, <1>5, <1>6, <1>7, <1>8 DEF Next

LEMMA InitInvariant == Init => IInv
<1> SUFFICES ASSUME Init PROVE IInv
  OBVIOUS
<1>1. /\ transactionQueue = <<>> /\ taken = NoCall /\ mined = <<>> /\ pool = {}
      /\ caller = [p \in Calls |-> "idle"] /\ dropped = {} /\ dead = {}
      /\ failures = [p \in Calls |-> 0] /\ nonce = [p \in Calls |-> -1]
      /\ accountNonce = 0 /\ timerAlive = TRUE
  BY DEF Init, NoNonce
<1>2. Live = {} /\ Queued = {} /\ AtNode = {}
  BY <1>1 DEF Live, InState, Queued, AtNode, ToSet
<1>3. Types
  BY <1>1 DEF Types
<1>4. Idle /\ Ours
  BY <1>1, <1>2, CallsAssumption DEF Idle, Ours, InState
<1>5. Placed /\ NoncesUsed /\ NoncesDiffer
  BY <1>2 DEF Placed, NoncesUsed, NoncesDiffer
<1>6. Counted /\ QueuedOnce
  BY <1>1, <1>2 DEF Counted, MaxRetries, QueuedOnce, IsInjective
<1> QED
  BY <1>3, <1>4, <1>5, <1>6 DEF IInv

-------------------------------------------------------------------------------
\* Whatever the threads, the node and the restarts do, each transaction of
\* the present process has a nonce of its own and is in exactly one place,
\* and the timer gives it up after the last retry only.
THEOREM NothingLostOrDoubled == Spec => []EachInOnePlace
BY InitInvariant, StepInvariant, InvariantImplies, PTL DEF Spec

-------------------------------------------------------------------------------
(* The order of effects, and what is completed.  The mined transactions    *)
(* have the nonces 0, 1, 2 and so on; calls of one life stay so; and as    *)
(* long as no restart left a transaction in the pool, those of earlier     *)
(* lives have lower nonces than all that come, and nothing but a call      *)
(* itself has its nonce once a later one is with the node.                 *)

MoreTypes ==
  /\ completed \subseteq Calls /\ reorgs \in Nat
  /\ returnedBefore \in [Calls -> SUBSET Calls]
  /\ \A p \in Calls : caller[p] # "idle" => nonce[p] \in Nat

MinedByNonce == \A i \in 1 .. Len(mined) : nonce[mined[i]] = i - 1

SameLife ==
  \A q \in Calls : \A p \in returnedBefore[q] :
    /\ caller[p] # "idle" /\ caller[q] # "idle"
    /\ nonce[p] < nonce[q]
    /\ p \in dead <=> q \in dead

DeadAreBelow ==
  clean => \A p \in AtNode \cap dead :
             nonce[p] < accountNonce /\ \A q \in Live : nonce[p] < nonce[q]

NonceIsKept ==
  clean => \A q \in AtNode : \A p \in returnedBefore[q] : \A r \in AtNode :
             nonce[r] = nonce[p] => r = p

CompletedAtNode == clean => completed \subseteq AtNode
FewUnmined == Cardinality(completed \ ToSet(mined)) <= reorgs

OInv ==
  /\ MoreTypes /\ MinedByNonce /\ SameLife /\ DeadAreBelow
  /\ NonceIsKept /\ CompletedAtNode /\ FewUnmined

LEMMA OrderIsKept == IInv /\ OInv => EffectsInCallOrder
<1> SUFFICES ASSUME IInv, OInv, clean, NEW q \in ToSet(mined), NEW p \in returnedBefore[q]
             PROVE  MinedBefore(p, q)
  BY DEF EffectsInCallOrder
<1>1. mined \in Seq(Calls) /\ DOMAIN mined = 1 .. Len(mined)
  BY DEF IInv, Types
<1>2. PICK j \in 1 .. Len(mined) : mined[j] = q
  BY <1>1 DEF ToSet
<1>3. q \in Calls /\ q \in AtNode /\ p \in Calls
  BY <1>1, <1>2 DEF AtNode, OInv, MoreTypes
<1>4. nonce[p] \in Nat /\ nonce[p] < nonce[q] /\ nonce[q] = j - 1
  BY <1>2, <1>3 DEF OInv, MoreTypes, SameLife, MinedByNonce
<1>5. PICK i : i = nonce[p] + 1
  OBVIOUS
<1>6. i \in 1 .. Len(mined) /\ i < j
  BY <1>4, <1>5
<1>7. nonce[mined[i]] = nonce[p] /\ mined[i] \in AtNode
  BY <1>1, <1>4, <1>5, <1>6 DEF OInv, MinedByNonce, AtNode, ToSet
<1>8. mined[i] = p
  BY <1>3, <1>7 DEF OInv, NonceIsKept
<1> QED
  BY <1>1, <1>2, <1>6, <1>8 DEF MinedBefore

LEMMA CompletedWasMined == OInv => CompletedIsMined
BY DEF OInv, CompletedIsMined, FewUnmined, CompletedAtNode

LEMMA OrderInit == Init => OInv
<1> SUFFICES ASSUME Init PROVE OInv
  OBVIOUS
<1>1. /\ mined = <<>> /\ pool = {} /\ dead = {} /\ completed = {} /\ reorgs = 0
      /\ caller = [p \in Calls |-> "idle"] /\ returnedBefore = [p \in Calls |-> {}]
  BY DEF Init
<1>2. AtNode = {} /\ completed \ ToSet(mined) = {} /\ Cardinality({}) = 0
  BY <1>1, FS_EmptySet DEF AtNode, ToSet
<1>3. MoreTypes /\ SameLife
  BY <1>1 DEF MoreTypes, SameLife
<1>4. MinedByNonce
  BY <1>1 DEF MinedByNonce
<1>5. DeadAreBelow /\ NonceIsKept /\ CompletedAtNode /\ FewUnmined
  BY <1>1, <1>2 DEF DeadAreBelow, NonceIsKept, CompletedAtNode, FewUnmined
<1> QED
  BY <1>3, <1>4, <1>5 DEF OInv

\* What is with the node was called, in this life of the process or before.
LEMMA NodeHasCalls ==
  ASSUME IInv, NEW p \in AtNode
  PROVE  p \in Calls /\ caller[p] # "idle" /\ (p \in Live \/ p \in dead)
<1>1. p \in Calls
  BY DEF IInv, Types, AtNode, ToSet
<1>2. caller[p] # "idle"
  BY <1>1 DEF IInv, Idle, InState
<1> QED
  BY <1>1, <1>2, LiveCalls

\* Those that returned before a call of this life are of this life.
LEMMA BeforeLive ==
  ASSUME OInv, NEW q \in Live, NEW p \in returnedBefore[q]
  PROVE  p \in Live /\ p \in Calls /\ nonce[p] \in Nat /\ nonce[q] \in Nat /\ nonce[p] < nonce[q]
<1>1. q \in Calls /\ q \notin dead /\ p \in Calls
  BY LiveCalls DEF OInv, MoreTypes
<1>2. caller[p] # "idle" /\ caller[q] # "idle" /\ p \notin dead /\ nonce[p] < nonce[q]
  BY <1>1 DEF OInv, SameLife
<1> QED
  BY <1>1, <1>2, LiveCalls DEF OInv, MoreTypes

\* A transaction of this life comes to the node, or none does.
LEMMA QuietOrder ==
  ASSUME IInv, OInv,
         UNCHANGED <<accountNonce, nonce, returnedBefore, dead, clean, mined, completed, reorgs>>,
         \A p \in Calls : caller'[p] = "idle" <=> caller[p] = "idle",
         pool' = pool \/ \E c \in Live : Admit(c)
  PROVE  OInv'
<1>1. Live' = Live
  BY LiveStays
<1>2. MoreTypes' /\ MinedByNonce' /\ FewUnmined'
  BY DEF OInv, MoreTypes, MinedByNonce, FewUnmined
<1>3. SameLife'
  BY DEF OInv, SameLife, MoreTypes
<1>4. CASE pool' = pool
  <2>1. AtNode' = AtNode
    BY <1>4 DEF AtNode
  <2>2. DeadAreBelow' /\ NonceIsKept' /\ CompletedAtNode'
    BY <1>1, <2>1 DEF OInv, DeadAreBelow, NonceIsKept, CompletedAtNode
  <2> QED
    BY <1>2, <1>3, <2>2 DEF OInv
<1>5. ASSUME NEW c \in Live, Admit(c) PROVE OInv'
  <2>1. pool' = (pool \ Rivals(c)) \cup {c} /\ c \in Calls /\ c \notin dead
    BY <1>5, LiveCalls DEF Admit
  <2>2. AtNode' \subseteq AtNode \cup {c}
    BY <2>1 DEF AtNode
  <2>3. ASSUME clean, NEW p \in AtNode, nonce[p] = nonce[c] PROVE p = c
    <3>1. CASE p \in Live
      BY <2>3, <3>1 DEF IInv, NoncesDiffer
    <3>2. CASE p \in dead
      <4>1. nonce[p] < nonce[c]
        BY <2>3, <3>2 DEF OInv, DeadAreBelow
      <4>2. nonce[c] \in Nat
        BY <2>1, LiveCalls DEF OInv, MoreTypes
      <4> QED
        BY <2>3, <4>1, <4>2
    <3> QED
      BY <3>1, <3>2, NodeHasCalls
  <2>4. ASSUME clean PROVE AtNode' = AtNode \cup {c}
    BY <2>1, <2>2, <2>3, <2>4 DEF AtNode, Rivals
  <2>5. DeadAreBelow'
    BY <1>1, <2>1, <2>2 DEF OInv, DeadAreBelow
  <2>6. CompletedAtNode'
    BY <2>4 DEF OInv, CompletedAtNode
  <2>7. NonceIsKept'
    <3> SUFFICES ASSUME clean, NEW q \in AtNode \cup {c}, NEW p \in returnedBefore[q],
                        NEW r \in AtNode \cup {c}, nonce[r] = nonce[p]
                 PROVE  r = p
      BY <2>2 DEF NonceIsKept
    <3>1. CASE q \in AtNode /\ r \in AtNode
      BY <3>1 DEF OInv, NonceIsKept
    <3>2. CASE q \in Live
      <4>1. p \in Live /\ nonce[p] \in Nat
        BY <3>2, BeforeLive
      <4>2. CASE r \in Live
        BY <4>1, <4>2 DEF IInv, NoncesDiffer
      <4>3. CASE r \in AtNode /\ r \in dead
        <5>1. nonce[r] < nonce[p]
          BY <4>1, <4>3 DEF OInv, DeadAreBelow
        <5> QED
          BY <4>1, <5>1
      <4> QED
        BY <4>2, <4>3, NodeHasCalls
    <3>3. CASE q \in AtNode /\ q \in dead /\ r = c
      <4>1. q \in Calls /\ p \in Calls /\ nonce[p] \in Nat /\ nonce[q] \in Nat /\ nonce[p] < nonce[q]
        BY <3>3, NodeHasCalls DEF OInv, MoreTypes, SameLife
      <4>2. nonce[q] < nonce[c]
        BY <3>3 DEF OInv, DeadAreBelow
      <4>3. nonce[c] \in Nat
        BY <2>1, LiveCalls DEF OInv, MoreTypes
      <4> QED
        BY <3>3, <4>1, <4>2, <4>3
    <3> QED
      BY <3>1, <3>2, <3>3, NodeHasCalls
  <2> QED
    BY <1>2, <1>3, <2>5, <2>6, <2>7 DEF OInv
<1> QED
  BY <1>4, <1>5

LEMMA TakeNonceOrder == ASSUME IInv, OInv, NEW c \in Calls, TakeNonce(c) PROVE OInv'
<1>1. /\ caller[c] = "idle" /\ caller' = [caller EXCEPT ![c] = "holding"]
      /\ nonce' = [nonce EXCEPT ![c] = accountNonce] /\ accountNonce' = accountNonce + 1
      /\ returnedBefore' = [returnedBefore EXCEPT ![c] = InState("returned") \ dead]
      /\ UNCHANGED <<dead, pool, mined, clean, completed, reorgs>>
  BY DEF TakeNonce, nodeVars, restartVars, pollVars
<1>2. /\ nonce'[c] = accountNonce /\ accountNonce \in Nat
      /\ \A p \in Calls \ {c} : nonce'[p] = nonce[p]
      /\ caller'[c] = "holding" /\ \A p \in Calls \ {c} : caller'[p] = caller[p]
      /\ returnedBefore'[c] = InState("returned") \ dead
      /\ \A p \in Calls \ {c} : returnedBefore'[p] = returnedBefore[p]
  BY <1>1 DEF IInv, Types, OInv, MoreTypes
<1>3. c \notin AtNode /\ c \notin dead /\ c \notin Live
  BY <1>1, LiveCalls DEF IInv, Idle, InState
<1>4. Live' = Live \cup {c} /\ AtNode' = AtNode
  <2>1. Live' = Live \cup {c}
    BY <1>1, <1>2, <1>3 DEF Live, InState
  <2> QED
    BY <1>1, <2>1 DEF AtNode
<1>5. \A p \in AtNode : p \in Calls /\ nonce'[p] = nonce[p] /\ returnedBefore'[p] = returnedBefore[p]
                         /\ caller[p] # "idle"
  BY <1>2, <1>3, NodeHasCalls
<1>6. MoreTypes'
  <2>1. InState("returned") \ dead \in SUBSET Calls
    BY DEF InState
  <2>2. returnedBefore' \in [Calls -> SUBSET Calls]
    BY <1>1, <2>1 DEF OInv, MoreTypes
  <2> QED
    BY <1>1, <1>2, <2>2 DEF OInv, MoreTypes
<1>7. MinedByNonce'
  <2>1. \A i \in 1 .. Len(mined) : mined[i] \in AtNode
    BY DEF IInv, Types, AtNode, ToSet
  <2> QED
    BY <1>1, <1>5, <2>1 DEF OInv, MinedByNonce
<1>8. SameLife'
  <2> SUFFICES ASSUME NEW q \in Calls, NEW p \in returnedBefore'[q]
               PROVE  /\ caller'[p] # "idle" /\ caller'[q] # "idle"
                      /\ nonce'[p] < nonce'[q]
                      /\ p \in dead <=> q \in dead
    BY <1>1 DEF SameLife
  <2>1. CASE q = c
    <3>1. p \in Calls /\ caller[p] = "returned" /\ p \notin dead
      BY <1>2, <2>1 DEF InState
    <3>2. p \in Live /\ p # c
      BY <1>1, <3>1, LiveCalls
    <3>3. nonce[p] < accountNonce
      BY <3>2 DEF IInv, NoncesUsed
    <3> QED
      BY <1>2, <1>3, <2>1, <3>1, <3>2, <3>3
  <2>2. CASE q # c
    <3>1. p \in returnedBefore[q] /\ p \in Calls
      BY <1>2, <2>2 DEF OInv, MoreTypes
    <3>2. /\ caller[p] # "idle" /\ caller[q] # "idle" /\ nonce[p] < nonce[q]
          /\ p \in dead <=> q \in dead
      BY <3>1 DEF OInv, SameLife
    <3> QED
      BY <1>1, <1>2, <2>2, <3>1, <3>2
  <2> QED
    BY <2>1, <2>2
<1>9. DeadAreBelow'
  <2> SUFFICES ASSUME clean, NEW p \in AtNode \cap dead
               PROVE  nonce'[p] < accountNonce' /\ \A q \in Live \cup {c} : nonce'[p] < nonce'[q]
    BY <1>1, <1>4 DEF DeadAreBelow
  <2>1. nonce[p] < accountNonce /\ \A q \in Live : nonce[p] < nonce[q]
    BY DEF OInv, DeadAreBelow
  <2>2. nonce'[p] = nonce[p] /\ nonce[p] \in Nat
    BY <1>5 DEF OInv, MoreTypes
  <2>3. \A q \in Live : nonce'[q] = nonce[q]
    BY <1>2, <1>3, LiveCalls
  <2> QED
    BY <1>1, <1>2, <2>1, <2>2, <2>3
<1>10. NonceIsKept'
  <2> SUFFICES ASSUME clean, NEW q \in AtNode, NEW p \in returnedBefore[q],
                      NEW r \in AtNode, nonce'[r] = nonce'[p]
               PROVE  r = p
    BY <1>1, <1>4, <1>5 DEF NonceIsKept
  <2>1. q \in Calls /\ p \in Calls /\ caller[p] # "idle"
    BY <1>5 DEF OInv, MoreTypes, SameLife
  <2>2. nonce'[p] = nonce[p] /\ nonce'[r] = nonce[r]
    BY <1>1, <1>2, <1>5, <2>1
  <2> QED
    BY <2>2 DEF OInv, NonceIsKept
<1>11. CompletedAtNode' /\ FewUnmined'
  BY <1>1, <1>4 DEF OInv, CompletedAtNode, FewUnmined
<1> QED
  BY <1>6, <1>7, <1>8, <1>9, <1>10, <1>11 DEF OInv

\* The poller completes what is mined.
LEMMA VisitOrder == ASSUME IInv, OInv, NEW p \in toVisit, Visit(p) PROVE OInv'
<1>1. /\ UNCHANGED <<accountNonce, nonce, caller, returnedBefore, dead, clean, pool, mined, reorgs>>
      /\ \/ completed' = completed
         \/ p \in ToSet(mined) /\ completed' = completed \cup {p}
  BY DEF Visit, callVars, nodeVars, restartVars
<1>2. ToSet(mined) \subseteq AtNode /\ ToSet(mined) \subseteq Calls
  BY DEF IInv, Types, AtNode, ToSet
<1>3. Live' = Live /\ AtNode' = AtNode
  BY <1>1, LiveStays DEF AtNode
<1>4. completed' \ ToSet(mined) = completed \ ToSet(mined)
  BY <1>1
<1>5. MoreTypes' /\ MinedByNonce' /\ SameLife'
  BY <1>1, <1>2 DEF OInv, MoreTypes, MinedByNonce, SameLife
<1>6. DeadAreBelow' /\ NonceIsKept'
  BY <1>1, <1>3 DEF OInv, DeadAreBelow, NonceIsKept
<1>7. CompletedAtNode' /\ FewUnmined'
  BY <1>1, <1>2, <1>3, <1>4 DEF OInv, CompletedAtNode, FewUnmined
<1> QED
  BY <1>5, <1>6, <1>7 DEF OInv

\* The node moves a transaction from its pool to the chain, or back.
LEMMA NodeOrder ==
  ASSUME IInv, OInv,
         UNCHANGED <<accountNonce, nonce, caller, returnedBefore, dead, clean, completed>>,
         AtNode' = AtNode, MinedByNonce', FewUnmined', reorgs' \in Nat
  PROVE  OInv'
<1>1. Live' = Live
  BY LiveStays
<1>2. MoreTypes' /\ SameLife'
  BY DEF OInv, MoreTypes, SameLife
<1>3. DeadAreBelow' /\ NonceIsKept' /\ CompletedAtNode'
  BY <1>1 DEF OInv, DeadAreBelow, NonceIsKept, CompletedAtNode
<1> QED
  BY <1>2, <1>3 DEF OInv

LEMMA FiniteCalls == ASSUME NEW S, S \subseteq Calls PROVE IsFiniteSet(S) /\ Cardinality(S) \in Nat
BY CallsAssumption, FS_Subset, FS_CardinalityType

LEMMA MineOrder == ASSUME IInv, OInv, NEW p \in Calls, Mine(p) PROVE OInv'
<1>1. /\ p \in pool /\ nonce[p] = Len(mined)
      /\ mined' = Append(mined, p) /\ pool' = pool \ {p}
      /\ UNCHANGED <<accountNonce, nonce, caller, returnedBefore, dead, clean, completed, reorgs>>
  BY DEF Mine, callVars, restartVars, pollVars
<1>2. mined \in Seq(Calls) /\ completed \subseteq Calls /\ reorgs \in Nat
  BY DEF IInv, Types, OInv, MoreTypes
<1>3. ToSet(mined') = ToSet(mined) \cup {p}
  BY <1>1, <1>2, OfAppend
<1>4. AtNode' = AtNode
  BY <1>1, <1>3 DEF AtNode
<1>5. MinedByNonce'
  <2>1. /\ Len(mined') = Len(mined) + 1 /\ mined'[Len(mined) + 1] = p
        /\ \A i \in 1 .. Len(mined) : mined'[i] = mined[i]
    BY <1>1, <1>2
  <2>2. \A i \in 1 .. Len(mined) + 1 : i \in 1 .. Len(mined) \/ i = Len(mined) + 1
    BY <1>2
  <2> QED
    BY <1>1, <1>2, <2>1, <2>2 DEF OInv, MinedByNonce
<1>6. FewUnmined'
  <2> DEFINE S == completed \ ToSet(mined)
             T == completed \ ToSet(mined')
  <2>1. T \subseteq S /\ IsFiniteSet(S) /\ Cardinality(S) \in Nat /\ Cardinality(T) \in Nat
    BY <1>2, <1>3, FiniteCalls
  <2>2. Cardinality(T) <= Cardinality(S)
    BY <2>1, FS_Subset
  <2>3. Cardinality(S) <= reorgs
    BY DEF OInv, FewUnmined
  <2>4. Cardinality(T) <= reorgs
    <3> HIDE DEF S, T
    <3> QED
      BY <1>2, <2>1, <2>2, <2>3
  <2> QED
    BY <1>1, <2>4 DEF FewUnmined
<1> QED
  BY <1>1, <1>2, <1>4, <1>5, <1>6, NodeOrder

LEMMA UnmineOrder == ASSUME IInv, OInv, Unmine PROVE OInv'
<1>1. /\ mined # <<>> /\ mined' = Front(mined) /\ pool' = pool \cup {Last(mined)}
      /\ reorgs' = reorgs + 1
      /\ UNCHANGED <<accountNonce, nonce, caller, returnedBefore, dead, clean, completed>>
  BY DEF Unmine, callVars, restartVars, pollVars
<1>2. mined \in Seq(Calls) /\ completed \subseteq Calls /\ reorgs \in Nat
  BY DEF IInv, Types, OInv, MoreTypes
<1>3. Last(mined) \in Calls /\ ToSet(mined) = ToSet(mined') \cup {Last(mined)}
  BY <1>1, <1>2, OfFront
<1>4. AtNode' = AtNode
  BY <1>1, <1>3 DEF AtNode
<1>5. MinedByNonce'
  <2>1. /\ Len(mined) \in Nat /\ Len(mined) # 0 /\ Len(mined') = Len(mined) - 1
        /\ \A i \in 1 .. Len(mined) - 1 : mined'[i] = mined[i]
    BY <1>1, <1>2, OfFront
  <2>2. \A i \in 1 .. Len(mined) : nonce[mined[i]] = i - 1
    BY DEF OInv, MinedByNonce
  <2>3. PICK n \in Nat : n = Len(mined)
    BY <2>1
  <2>4. ASSUME NEW i \in 1 .. n - 1 PROVE nonce'[mined'[i]] = i - 1
    <3>1. i \in 1 .. Len(mined) /\ mined'[i] = mined[i]
      BY <2>1, <2>3
    <3> QED
      BY <1>1, <2>2, <3>1
  <2>5. 1 .. Len(mined') = 1 .. n - 1
    BY <2>1, <2>3
  <2> QED
    BY <2>4, <2>5 DEF MinedByNonce
<1>6. FewUnmined'
  <2> DEFINE S == completed \ ToSet(mined)
             T == completed \ ToSet(mined')
             U == S \cup {Last(mined)}
  <2>1. T \subseteq U /\ S \subseteq Calls /\ U \subseteq Calls
    BY <1>2, <1>3
  <2>2. /\ IsFiniteSet(S) /\ Cardinality(S) \in Nat /\ IsFiniteSet(U) /\ Cardinality(U) \in Nat
        /\ Cardinality(T) \in Nat
    <3>1. T \subseteq Calls
      BY <1>2
    <3> HIDE DEF S, T, U
    <3> QED
      BY <2>1, <3>1, FiniteCalls
  <2>3. Cardinality(S) <= reorgs
    BY DEF OInv, FewUnmined
  <2>4. Cardinality(U) <= Cardinality(S) + 1
    <3> HIDE DEF S
    <3> QED
      BY <2>2, FS_AddElement
  <2>5. Cardinality(T) <= Cardinality(U)
    <3> HIDE DEF T, U
    <3> QED
      BY <2>1, <2>2, FS_Subset
  <2>6. Cardinality(T) <= reorgs + 1
    <3> HIDE DEF S, T, U
    <3> QED
      BY <1>2, <2>2, <2>3, <2>4, <2>5
  <2> QED
    BY <1>1, <2>6 DEF FewUnmined
<1> QED
  BY <1>1, <1>2, <1>4, <1>5, <1>6, NodeOrder

\* If no restart has left a transaction in the pool, all that is with the
\* node is mined, and the new process counts on from it.
LEMMA RestartOrder == ASSUME IInv, OInv, Restart PROVE OInv'
<1>1. /\ dead' = Calls \ InState("idle") /\ accountNonce' = Len(mined)
      /\ clean' = (clean /\ pool = {})
      /\ UNCHANGED <<nonce, caller, returnedBefore, completed, pool, mined, reorgs>>
  BY DEF Restart, nodeVars
<1>2. Live' = {} /\ AtNode' = AtNode
  BY <1>1 DEF Live, InState, AtNode
<1>3. clean' => clean /\ AtNode = ToSet(mined)
  BY <1>1 DEF AtNode
<1>4. MoreTypes' /\ MinedByNonce' /\ FewUnmined'
  BY <1>1 DEF OInv, MoreTypes, MinedByNonce, FewUnmined
<1>5. SameLife'
  <2> SUFFICES ASSUME NEW q \in Calls, NEW p \in returnedBefore[q]
               PROVE  /\ caller[p] # "idle" /\ caller[q] # "idle" /\ nonce[p] < nonce[q]
                      /\ p \in dead' <=> q \in dead'
    BY <1>1 DEF SameLife
  <2>1. p \in Calls
    BY DEF OInv, MoreTypes
  <2> QED
    BY <1>1, <2>1 DEF OInv, SameLife, InState
<1>6. DeadAreBelow'
  <2> SUFFICES ASSUME clean', NEW p \in AtNode PROVE nonce[p] < accountNonce'
    BY <1>1, <1>2 DEF DeadAreBelow
  <2>1. PICK i \in 1 .. Len(mined) : mined[i] = p
    BY <1>3 DEF ToSet, IInv, Types
  <2>2. nonce[p] = i - 1 /\ Len(mined) \in Nat
    BY <2>1 DEF OInv, MinedByNonce, IInv, Types
  <2> QED
    BY <1>1, <2>2
<1>7. NonceIsKept' /\ CompletedAtNode'
  BY <1>1, <1>2, <1>3 DEF OInv, NonceIsKept, CompletedAtNode
<1> QED
  BY <1>4, <1>5, <1>6, <1>7 DEF OInv

LEMMA CallerOrder == ASSUME IInv, OInv, NEW p \in Calls, CallerStep(p) PROVE OInv'
<1>1. CASE TakeNonce(p)
  BY <1>1, TakeNonceOrder
<1>2. CASE Enqueue(p) \/ SendContract(p) \/ ContractFails(p)
  <2>1. /\ caller[p] = "holding" /\ p \notin dead
        /\ \/ caller' = [caller EXCEPT ![p] = "returned"]
           \/ caller' = [caller EXCEPT ![p] = "failed"]
        /\ UNCHANGED <<accountNonce, nonce, returnedBefore, dead, clean, completed, reorgs>>
    BY <1>2 DEF Enqueue, SendContract, ContractFails, pollVars, restartVars
  <2>2. mined' = mined /\ (pool' = pool \/ Admit(p))
    BY <1>2 DEF Enqueue, SendContract, ContractFails, nodeVars, Admit
  <2>3. p \in Live
    BY <2>1, HoldingCall
  <2>4. \A q \in Calls : caller'[q] = "idle" <=> caller[q] = "idle"
    BY <2>1 DEF IInv, Types
  <2> QED
    BY <2>1, <2>2, <2>3, <2>4, QuietOrder
<1> QED
  BY <1>1, <1>2 DEF CallerStep

LEMMA TimerOrder == ASSUME IInv, OInv, SubmitStep \/ SubmitTimerEnds PROVE OInv'
<1>1. UNCHANGED <<accountNonce, nonce, caller, returnedBefore, dead, clean, completed, reorgs>>
  BY DEF SubmitStep, Take, Submit, SubmitRefused, SubmitTimerEnds, callVars, pollVars, restartVars
<1>2. CASE UNCHANGED <<pool, mined>>
  BY <1>1, <1>2, QuietOrder
<1>3. CASE taken # NoCall /\ Admit(taken)
  <2>1. taken \in Live
    BY <1>3 DEF IInv, Ours
  <2>2. mined' = mined
    BY <1>3 DEF Admit
  <2>3. \E c \in Live : Admit(c)
    BY <1>3, <2>1
  <2> QED
    BY <1>1, <2>2, <2>3, QuietOrder
<1> QED
  BY <1>2, <1>3 DEF SubmitStep, Take, Submit, SubmitRefused, SubmitTimerEnds, nodeVars

LEMMA StepOrder == IInv /\ OInv /\ [Next]_vars => OInv'
<1> SUFFICES ASSUME IInv, OInv, [Next]_vars PROVE OInv'
  OBVIOUS
<1>1. CASE UNCHANGED vars
  BY <1>1, QuietOrder DEF vars, callVars, restartVars, nodeVars, pollVars
<1>2. ASSUME NEW p \in Calls, CallerStep(p) PROVE OInv'
  BY <1>2, CallerOrder
<1>3. ASSUME NEW p \in Calls, Mine(p) PROVE OInv'
  BY <1>3, MineOrder
<1>4. CASE SubmitStep \/ SubmitTimerEnds
  BY <1>4, TimerOrder
<1>5. CASE StartRound \/ EndRound \/ RoundFails
  BY <1>5, QuietOrder DEF StartRound, EndRound, RoundFails, callVars, restartVars, nodeVars
<1>6. ASSUME NEW p \in toVisit, Visit(p) PROVE OInv'
  BY <1>6, VisitOrder
<1>7. CASE Unmine \/ Restart
  BY <1>7, UnmineOrder, RestartOrder
<1> QED
  BY <1>1, <1>2, <1>3, <1>4, <1>5, <1>6, <1>7 DEF Next, PollStep

LEMMA Invariants == Spec => [](IInv /\ OInv)
<1>1. Init => IInv /\ OInv
  BY InitInvariant, OrderInit
<1>2. IInv /\ OInv /\ [Next]_vars => (IInv /\ OInv)'
  BY StepInvariant, StepOrder
<1> QED
  BY <1>1, <1>2, PTL DEF Spec

-------------------------------------------------------------------------------
\* Transactions take effect in the order of the calls: one is mined only
\* after all those whose calls had returned before its own began, however the
\* queue, the retries and the reorganisations shuffle them, unless a restart
\* left a transaction in the pool of the node.
THEOREM OrderHolds == Spec => []EffectsInCallOrder
BY Invariants, OrderIsKept, PTL

\* The transactions whose futures are completed are mined, but for as many as
\* reorganisations took back, and even these are still with the node.
THEOREM CompletionMeansMined == Spec => []CompletedIsMined
<1>1. IInv /\ OInv => CompletedIsMined
  BY CompletedWasMined
<1> QED
  BY <1>1, Invariants, PTL

===============================================================================
