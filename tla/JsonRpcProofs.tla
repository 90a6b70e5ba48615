----------------------------- MODULE JsonRpcProofs -----------------------------
(***************************************************************************)
(* A call is completed with its own answer, and none is forgotten; the     *)
(* client hears of a payment once, and a listener that pays keeps the      *)
(* poller waiting: for any number of threads, calls, payments and faults.  *)
(***************************************************************************)
EXTENDS JsonRpc, FiniteSetTheorems, TLAPS

AnyCall == [life : Nat, id : Nat, kind : Kinds]
Tasks == [call : AnyCall, step : {"begin", "waits", "paid"}]
Answers == {a \in [id : Nat, of : AnyCall] : a.id = a.of.id}

\* An answer bears the correlation id of its request.
Types ==
  /\ life \in Nat /\ nextId \in Nat
  /\ handlers \subseteq AnyCall
  /\ out \in Seq(AnyCall) /\ pool \in Seq(Tasks) /\ in \in Seq(Answers)

CallsOf(h, o, p, a) ==
  h \cup ToSet(o) \cup {t.call : t \in ToSet(p)} \cup {m.of : m \in ToSet(a)}
Sent == CallsOf(handlers, out, pool, in)

\* The counter is ahead of all calls of the present life ...
Issued ==
  /\ \A c \in Sent : c.life < life \/ (c.life = life /\ c.id < nextId)
  /\ \A c \in handlers : c.life = life

\* ... so that no two of them have one id.
Unique == \A c, d \in Sent : c.life = d.life /\ c.id = d.id => c = d

IInv == Types /\ Issued /\ Unique /\ OwnAnswer

-------------------------------------------------------------------------------
(* Elements of sequences.                                                  *)

LEMMA OfSeq == ASSUME NEW S, NEW s \in Seq(S) PROVE ToSet(s) \subseteq S
BY DEF ToSet

LEMMA OfAppend ==
  ASSUME NEW S, NEW s \in Seq(S), NEW x \in S
  PROVE  Append(s, x) \in Seq(S) /\ ToSet(Append(s, x)) = ToSet(s) \cup {x}
<1>1. /\ Append(s, x) \in Seq(S)
      /\ DOMAIN Append(s, x) = DOMAIN s \cup {Len(s) + 1}
      /\ \A i \in DOMAIN s : Append(s, x)[i] = s[i]
      /\ Append(s, x)[Len(s) + 1] = x
  OBVIOUS
<1> QED
  BY <1>1 DEF ToSet

LEMMA OfTail ==
  ASSUME NEW S, NEW s \in Seq(S), s # <<>>
  PROVE  /\ Tail(s) \in Seq(S) /\ Head(s) \in ToSet(s) /\ Head(s) \in S
         /\ ToSet(Tail(s)) \subseteq ToSet(s)
<1>1. /\ Tail(s) \in Seq(S) /\ 1 \in DOMAIN s /\ Head(s) = s[1]
      /\ \A i \in DOMAIN Tail(s) : i + 1 \in DOMAIN s /\ Tail(s)[i] = s[i + 1]
  OBVIOUS
<1> QED
  BY <1>1 DEF ToSet

LEMMA OfRemoveAt ==
  ASSUME NEW S, NEW s \in Seq(S), NEW i \in DOMAIN s
  PROVE  RemoveAt(s, i) \in Seq(S) /\ ToSet(RemoveAt(s, i)) \subseteq ToSet(s)
<1> DEFINE a == SubSeq(s, 1, i - 1)
           b == SubSeq(s, i + 1, Len(s))
<1>1. /\ a \in Seq(S) /\ Len(a) = i - 1
      /\ \A j \in DOMAIN a : j \in DOMAIN s /\ a[j] = s[j]
  OBVIOUS
<1>2. /\ b \in Seq(S) /\ Len(b) = Len(s) - i
      /\ \A j \in DOMAIN b : j + i \in DOMAIN s /\ b[j] = s[j + i]
  OBVIOUS
<1> HIDE DEF a, b
<1>3. a \o b \in Seq(S) /\ ToSet(a \o b) \subseteq ToSet(a) \cup ToSet(b)
  BY <1>1, <1>2 DEF ToSet
<1>4. ToSet(a) \subseteq ToSet(s)
  BY <1>1 DEF ToSet
<1>5. ToSet(b) \subseteq ToSet(s)
  BY <1>2 DEF ToSet
<1> QED
  BY <1>3, <1>4, <1>5 DEF RemoveAt, a, b

LEMMA HeadAndTail ==
  ASSUME NEW S, NEW s \in Seq(S), s # <<>>
  PROVE  ToSet(s) = ToSet(Tail(s)) \cup {Head(s)} /\ Head(s) \in S
<1>1. /\ Tail(s) \in Seq(S) /\ 1 \in DOMAIN s /\ Head(s) = s[1] /\ Head(s) \in S
      /\ \A i \in DOMAIN Tail(s) : i + 1 \in DOMAIN s /\ Tail(s)[i] = s[i + 1]
      /\ \A i \in DOMAIN s : i # 1 => i - 1 \in DOMAIN Tail(s) /\ s[i] = Tail(s)[i - 1]
  OBVIOUS
<1>2. ToSet(s) \subseteq ToSet(Tail(s)) \cup {Head(s)}
  BY <1>1 DEF ToSet
<1>3. ToSet(Tail(s)) \cup {Head(s)} \subseteq ToSet(s)
  BY <1>1 DEF ToSet
<1> QED
  BY <1>1, <1>2, <1>3

LEMMA RemovedOne ==
  ASSUME NEW S, NEW s \in Seq(S), NEW i \in 1 .. Len(s)
  PROVE  /\ RemoveAt(s, i) \in Seq(S) /\ Len(RemoveAt(s, i)) = Len(s) - 1
         /\ \A j \in 1 .. i - 1 : RemoveAt(s, i)[j] = s[j]
         /\ \A j \in i .. Len(s) - 1 : RemoveAt(s, i)[j] = s[j + 1]
<1> DEFINE a == SubSeq(s, 1, i - 1)
           b == SubSeq(s, i + 1, Len(s))
<1>1. /\ a \in Seq(S) /\ Len(a) = i - 1
      /\ \A j \in 1 .. i - 1 : a[j] = s[j]
  OBVIOUS
<1>2. /\ b \in Seq(S) /\ Len(b) = Len(s) - i
      /\ \A j \in 1 .. Len(s) - i : b[j] = s[j + i]
  OBVIOUS
<1>3. i \in Nat /\ i > 0 /\ Len(s) \in Nat /\ i <= Len(s) 
  OBVIOUS
<1> HIDE DEF a, b
<1>4. a \o b \in Seq(S)
  BY <1>1, <1>2
<1>5. Len(a \o b) = Len(a) + Len(b)
  <2>1. a \in Seq(S) /\ b \in Seq(S)
    BY <1>1, <1>2
  <2> QED
    BY <2>1
<1>6. Len(a \o b) = Len(s) - 1
  BY <1>1, <1>2, <1>3, <1>5
<1>7. \A j \in 1 .. i - 1 : (a \o b)[j] = a[j]
  BY <1>1, <1>2, <1>3
<1>8. \A j \in i .. Len(s) - 1 : (a \o b)[j] = b[j - (i - 1)]
  BY <1>1, <1>2, <1>3
<1>9. RemoveAt(s, i) = a \o b
  BY DEF RemoveAt, a, b
<1>10. \A j \in i .. Len(s) - 1 : (a \o b)[j] = s[j + 1]
  <2> SUFFICES ASSUME NEW j \in i .. Len(s) - 1 PROVE (a \o b)[j] = s[j + 1]
    OBVIOUS
  <2>1. PICK k \in 1 .. Len(s) - i : k = j - (i - 1)
    BY <1>3
  <2>2. k + i = j + 1
    BY <1>3, <2>1
  <2> QED
    BY <1>2, <1>8, <2>1, <2>2
<1> QED
  BY <1>1, <1>2, <1>3, <1>4, <1>6, <1>7, <1>9, <1>10

LEMMA AroundOne ==
  ASSUME NEW S, NEW s \in Seq(S), NEW i \in 1 .. Len(s), NEW r \in Seq(S),
         Len(r) = Len(s) - 1, \A j \in 1 .. i - 1 : r[j] = s[j],
         \A j \in i .. Len(s) - 1 : r[j] = s[j + 1]
  PROVE  ToSet(s) \subseteq ToSet(r) \cup {s[i]}
<1>1. ASSUME NEW j \in 1 .. Len(s), j # i PROVE \E k \in 1 .. Len(s) - 1 : r[k] = s[j]
  <2>1. j \in Int /\ i \in Int /\ Len(s) \in Nat
    OBVIOUS
  <2>2. CASE j < i
    <3>1. j \in 1 .. i - 1 /\ j \in 1 .. Len(s) - 1
      BY <2>1, <2>2
    <3> QED
      BY <3>1
  <2>3. CASE j > i
    <3>1. j - 1 \in i .. Len(s) - 1 /\ j - 1 \in 1 .. Len(s) - 1 /\ j - 1 + 1 = j
      BY <2>1, <2>3
    <3> QED
      BY <3>1
  <2> QED
    BY <1>1, <2>1, <2>2, <2>3
<1>2. ASSUME NEW x \in ToSet(s), x # s[i] PROVE x \in ToSet(r)
  <2>1. PICK j \in 1 .. Len(s) : s[j] = x
    BY DEF ToSet
  <2>2. PICK k \in 1 .. Len(s) - 1 : r[k] = s[j]
    BY <1>1, <1>2, <2>1
  <2>3. k \in DOMAIN r
    OBVIOUS
  <2> QED
    BY <2>1, <2>2, <2>3 DEF ToSet
<1> QED
  BY <1>2

LEMMA AllButRemoved ==
  ASSUME NEW S, NEW s \in Seq(S), NEW i \in DOMAIN s
  PROVE  ToSet(s) \subseteq ToSet(RemoveAt(s, i)) \cup {s[i]}
<1>1. i \in 1 .. Len(s)
  OBVIOUS
<1>2. PICK r : r = RemoveAt(s, i)
  OBVIOUS
<1>3. /\ r \in Seq(S) /\ Len(r) = Len(s) - 1
      /\ \A j \in 1 .. i - 1 : r[j] = s[j]
      /\ \A j \in i .. Len(s) - 1 : r[j] = s[j + 1]
  BY <1>1, <1>2, RemovedOne
<1> QED
  BY <1>1, <1>2, <1>3, AroundOne

-------------------------------------------------------------------------------
(* The two ways of a step: it sends a new call, or it only moves calls.    *)

LEMMA SentAreCalls == ASSUME Types PROVE Sent \subseteq AnyCall
<1>1. ToSet(out) \subseteq AnyCall /\ ToSet(pool) \subseteq Tasks /\ ToSet(in) \subseteq Answers
  BY OfSeq DEF Types
<1>2. \A t \in Tasks : t.call \in AnyCall
  BY DEF Tasks
<1>3. \A a \in Answers : a.of \in AnyCall
  BY DEF Answers
<1> QED
  BY <1>1, <1>2, <1>3 DEF Types, Sent, CallsOf

LEMMA SendInvariant ==
  ASSUME IInv, NEW kind \in Kinds, Send(NewCall(kind)), UNCHANGED <<life, pool, in, answered>>
  PROVE  IInv'
<1> DEFINE c == NewCall(kind)
<1>1. /\ c \in AnyCall /\ c.life = life /\ c.id = nextId
      /\ life \in Nat /\ nextId \in Nat /\ nextId' = nextId + 1
      /\ handlers \subseteq AnyCall /\ out \in Seq(AnyCall)
      /\ handlers' = handlers \cup {c}
      /\ out' = out \/ out' = Append(out, c)
  BY DEF IInv, Types, Send, NewCall, AnyCall
<1> HIDE DEF c
<1>2. out' \in Seq(AnyCall) /\ ToSet(out') \subseteq ToSet(out) \cup {c}
  <2>1. ToSet(Append(out, c)) = ToSet(out) \cup {c} /\ Append(out, c) \in Seq(AnyCall)
    BY <1>1, OfAppend
  <2> QED
    BY <1>1, <2>1
<1>3. Types'
  BY <1>1, <1>2 DEF IInv, Types
<1>4. Sent' \subseteq Sent \cup {c}
  BY <1>1, <1>2 DEF Sent, CallsOf
<1>5. \A d \in Sent : d.life # c.life \/ d.id # c.id
  BY <1>1 DEF IInv, Issued
<1>6. Unique'
  BY <1>4, <1>5 DEF IInv, Unique
<1>7. Sent \subseteq AnyCall
  BY SentAreCalls DEF IInv
<1>8. Issued'
  BY <1>1, <1>4, <1>7 DEF IInv, Issued, AnyCall
<1>9. OwnAnswer'
  BY DEF IInv, OwnAnswer
<1> QED
  BY <1>3, <1>6, <1>8, <1>9 DEF IInv

LEMMA MoveInvariant ==
  ASSUME IInv, Types', Sent' \subseteq Sent, handlers' \subseteq handlers, OwnAnswer',
         UNCHANGED <<life, nextId>>
  PROVE  IInv'
BY DEF IInv, Issued, Unique

LEMMA RestartInvariant == ASSUME IInv, ClientRestarts PROVE IInv'
<1>1. /\ life' = life + 1 /\ nextId' = 0 /\ handlers' = {} /\ in' = <<>>
      /\ out' = out /\ pool' = pool /\ answered' = answered
  BY DEF ClientRestarts, serviceVars, historyVars
<1>2. Types'
  BY <1>1 DEF IInv, Types
<1>3. Sent' \subseteq Sent
  BY <1>1 DEF Sent, CallsOf, ToSet
<1>4. Sent \subseteq AnyCall
  BY SentAreCalls DEF IInv
<1>5. Issued'
  BY <1>1, <1>3, <1>4 DEF IInv, Types, Issued, AnyCall
<1>6. Unique' /\ OwnAnswer'
  BY <1>1, <1>3 DEF IInv, Unique, OwnAnswer
<1> QED
  BY <1>2, <1>5, <1>6 DEF IInv

-------------------------------------------------------------------------------
(* The client takes messages.                                              *)

\* An answer finds the call with its id, or one of an earlier life.
LEMMA TakeAnswerInvariant == ASSUME IInv, TakeAnswer PROVE IInv'
<1> DEFINE m == Head(in)
<1>1. /\ in # <<>> /\ in' = Tail(in) /\ handlers' \subseteq handlers
      /\ UNCHANGED <<life, nextId, out, pool>>
  BY DEF TakeAnswer, serviceVars
<1>2. answered' = answered \cup {<<c, m.of>> : c \in {d \in handlers : d.id = m.id}}
  BY DEF TakeAnswer
<1>3. /\ Tail(in) \in Seq(Answers) /\ m \in ToSet(in) /\ m \in Answers
      /\ ToSet(Tail(in)) \subseteq ToSet(in)
  BY <1>1, OfTail DEF IInv, Types
<1> HIDE DEF m
<1>4. m.of \in Sent /\ m.id = m.of.id /\ handlers \subseteq Sent
  BY <1>3 DEF Sent, CallsOf, Answers
<1>5. Types'
  BY <1>1, <1>3 DEF IInv, Types
<1>6. Sent' \subseteq Sent
  BY <1>1, <1>3 DEF Sent, CallsOf
<1>7. ASSUME NEW c \in handlers, c.id = m.id
      PROVE  m.of = c \/ (m.of.life < c.life /\ m.of.id = c.id)
  BY <1>4, <1>7 DEF IInv, Issued, Unique
<1>8. ASSUME NEW a \in answered'
      PROVE  a[2] = a[1] \/ (a[2].life < a[1].life /\ a[2].id = a[1].id)
  BY <1>2, <1>7, <1>8 DEF IInv, OwnAnswer
<1>9. OwnAnswer'
  BY <1>8 DEF OwnAnswer
<1> QED
  BY <1>1, <1>5, <1>6, <1>9, MoveInvariant

LEMMA TakeUnknownAnswerInvariant == ASSUME IInv, TakeUnknownAnswer PROVE IInv'
<1>1. /\ in # <<>>
      /\ in' = Tail(in) \/ in' = <<>>
      /\ UNCHANGED <<life, nextId, handlers, out, pool, answered>>
  BY DEF TakeUnknownAnswer, serviceVars
<1>2. in' \in Seq(Answers) /\ ToSet(in') \subseteq ToSet(in)
  <2>1. Tail(in) \in Seq(Answers) /\ ToSet(Tail(in)) \subseteq ToSet(in)
    BY <1>1, OfTail DEF IInv, Types
  <2>2. <<>> \in Seq(Answers) /\ ToSet(<<>>) = {}
    BY DEF ToSet
  <2> QED
    BY <1>1, <2>1, <2>2
<1>3. Types'
  BY <1>1, <1>2 DEF IInv, Types
<1>4. Sent' \subseteq Sent
  BY <1>1, <1>2 DEF Sent, CallsOf
<1> QED
  BY <1>1, <1>3, <1>4, MoveInvariant DEF IInv, OwnAnswer

-------------------------------------------------------------------------------
(* The service.                                                            *)

LEMMA TakeRequestInvariant == ASSUME IInv, TakeRequest PROVE IInv'
<1> DEFINE task == [call |-> Head(out), step |-> "begin"]
<1>1. /\ out # <<>> /\ out' = Tail(out) /\ pool' = Append(pool, task)
      /\ UNCHANGED <<life, nextId, handlers, in, answered>>
  BY DEF TakeRequest, clientVars, historyVars
<1>2. /\ Tail(out) \in Seq(AnyCall) /\ ToSet(Tail(out)) \subseteq ToSet(out)
      /\ Head(out) \in ToSet(out) /\ Head(out) \in AnyCall
  BY <1>1, OfTail DEF IInv, Types
<1>3. task \in Tasks /\ task.call = Head(out)
  BY <1>2 DEF Tasks
<1> HIDE DEF task
<1>4. pool' \in Seq(Tasks) /\ ToSet(pool') = ToSet(pool) \cup {task}
  BY <1>1, <1>3, OfAppend DEF IInv, Types
<1>5. Types'
  BY <1>1, <1>2, <1>4 DEF IInv, Types
<1>6. Sent' \subseteq Sent
  BY <1>1, <1>2, <1>3, <1>4 DEF Sent, CallsOf
<1> QED
  BY <1>1, <1>5, <1>6, MoveInvariant DEF IInv, OwnAnswer

\* A thread of the pool: its task is finished, goes on or stays, and the
\* answer, if there is one, is to its own call.
LEMMA PoolInvariant ==
  ASSUME IInv, NEW i \in DOMAIN pool,
         \/ Finished(i)
         \/ pool' = pool
         \/ pool' = [pool EXCEPT ![i].step = "waits"],
         Reply(pool[i].call) \/ in' = in,
         UNCHANGED <<life, nextId, handlers, out, answered>>
  PROVE  IInv'
<1> DEFINE c == pool[i].call
<1>1. pool \in Seq(Tasks) /\ pool[i] \in Tasks /\ pool[i] \in ToSet(pool)
  BY DEF IInv, Types, ToSet
<1>2. c \in AnyCall
  BY <1>1 DEF Tasks
<1>3. /\ pool' \in Seq(Tasks)
      /\ \A t \in ToSet(pool') : \E u \in ToSet(pool) : u.call = t.call
  <2>1. CASE Finished(i)
    BY <1>1, <2>1, OfRemoveAt DEF Finished
  <2>2. CASE pool' = pool
    BY <1>1, <2>2
  <2>3. CASE pool' = [pool EXCEPT ![i].step = "waits"]
    <3>1. [pool[i] EXCEPT !.step = "waits"] \in Tasks
      BY <1>1 DEF Tasks
    <3>2. [pool[i] EXCEPT !.step = "waits"].call = c
      BY <1>1 DEF Tasks
    <3>3. pool' = [pool EXCEPT ![i] = [pool[i] EXCEPT !.step = "waits"]]
      BY <2>3
    <3> DEFINE task == [pool[i] EXCEPT !.step = "waits"]
    <3> HIDE DEF task
    <3>4. pool' \in Seq(Tasks) /\ DOMAIN pool' = DOMAIN pool
      BY <1>1, <3>1, <3>3 DEF task
    <3>5. \A j \in DOMAIN pool : pool'[j].call = pool[j].call
      BY <1>1, <3>2, <3>3 DEF task
    <3> QED
      BY <3>4, <3>5 DEF ToSet
  <2> QED
    BY <2>1, <2>2, <2>3
<1>4. /\ in' \in Seq(Answers)
      /\ \A m \in ToSet(in') : m \in ToSet(in) \/ m.of = c
  <2>1. in \in Seq(Answers) /\ [id |-> c.id, of |-> c] \in Answers
    BY <1>2 DEF IInv, Types, Answers, AnyCall
  <2> DEFINE m == [id |-> c.id, of |-> c]
  <2>2. m \in Answers /\ m.of = c
    BY <2>1
  <2>3. in' = in \/ in' = Append(in, m)
    BY DEF Reply
  <2> HIDE DEF m
  <2>4. Append(in, m) \in Seq(Answers) /\ ToSet(Append(in, m)) = ToSet(in) \cup {m}
    BY <2>1, <2>2, OfAppend
  <2> QED
    BY <2>1, <2>2, <2>3, <2>4
<1>5. Types'
  BY <1>3, <1>4 DEF IInv, Types
<1>6. c \in Sent
  BY <1>1 DEF Sent, CallsOf
<1>7. Sent' \subseteq Sent
  BY <1>3, <1>4, <1>6 DEF Sent, CallsOf
<1> QED
  BY <1>5, <1>7, MoveInvariant DEF IInv, OwnAnswer

LEMMA RunInvariant == ASSUME IInv, NEW i \in DOMAIN pool, Run(i) PROVE IInv'
<1>1. UNCHANGED <<life, nextId, handlers, out, answered>>
  BY DEF Run, clientVars
<1>2. /\ Finished(i) \/ pool' = pool \/ pool' = [pool EXCEPT ![i].step = "waits"]
      /\ Reply(pool[i].call) \/ in' = in
  BY DEF Run, Ask, Unknown, Register, Pay, Paid
<1> QED
  BY <1>1, <1>2, PoolInvariant

\* The ResultMessage changes how far tasks are, not which they are.
LEMMA FireResultInvariant == ASSUME IInv, FireResult PROVE IInv'
<1>1. /\ pool' = [i \in DOMAIN pool |-> IsPaid(pool[i])]
      /\ UNCHANGED <<life, nextId, handlers, out, in, answered>>
  BY DEF FireResult, clientVars, queueVars, historyVars
<1>2. pool \in Seq(Tasks)
  BY DEF IInv, Types
<1>3. \A t \in Tasks : IsPaid(t) \in Tasks /\ IsPaid(t).call = t.call
  BY DEF IsPaid, Tasks
<1>4. pool' \in Seq(Tasks) /\ DOMAIN pool' = DOMAIN pool
  BY <1>1, <1>2, <1>3
<1>5. \A i \in DOMAIN pool : pool'[i].call = pool[i].call
  BY <1>1, <1>2, <1>3
<1>6. Types'
  BY <1>1, <1>4 DEF IInv, Types
<1>7. Sent' \subseteq Sent
  BY <1>1, <1>4, <1>5 DEF Sent, CallsOf, ToSet
<1> QED
  BY <1>1, <1>6, <1>7, MoveInvariant DEF IInv, OwnAnswer

LEMMA ServiceStopsInvariant == ASSUME IInv, ServiceStops PROVE IInv'
<1>1. /\ pool' = <<>> /\ out' = <<>>
      /\ UNCHANGED <<life, nextId, handlers, in, answered>>
  BY DEF ServiceStops, clientVars
<1>2. Types'
  BY <1>1 DEF IInv, Types
<1>3. Sent' \subseteq Sent
  BY <1>1 DEF Sent, CallsOf, ToSet
<1> QED
  BY <1>1, <1>2, <1>3, MoveInvariant DEF IInv, OwnAnswer

-------------------------------------------------------------------------------
(* Everything else leaves the calls alone.                                 *)

LEMMA OtherInvariant ==
  ASSUME IInv, UNCHANGED <<life, nextId, handlers, out, in, pool, answered>>
  PROVE  IInv'
<1>1. Types' /\ Sent' = Sent
  BY DEF IInv, Types, Sent
<1> QED
  BY <1>1, MoveInvariant DEF IInv, OwnAnswer

LEMMA StepInvariant == IInv /\ [Next]_vars => IInv'
<1> SUFFICES ASSUME IInv, [Next]_vars PROVE IInv'
  OBVIOUS
<1> USE DEF clientVars, queueVars, serviceVars, historyVars
<1>1. CASE UNCHANGED vars
  BY <1>1, OtherInvariant DEF vars
<1>2. ASSUME NEW kind \in Kinds, Call(kind) PROVE IInv'
  <2>1. Send(NewCall(kind)) /\ UNCHANGED <<life, pool, in, answered>>
    BY <1>2 DEF Call
  <2> QED
    BY <2>1, SendInvariant
<1>3. CASE TakeAnswer \/ TakeUnknownAnswer \/ TakeRequest
  BY <1>3, TakeAnswerInvariant, TakeUnknownAnswerInvariant, TakeRequestInvariant
<1>4. CASE TakeCallback \/ PaymentComes \/ NewBlock \/ CallbackTimesOut \/ ServiceStarts
  BY <1>4, OtherInvariant DEF TakeCallback, PaymentComes, NewBlock, CallbackTimesOut, ServiceStarts
<1>5. ASSUME NEW c, CallTimesOut(c) PROVE IInv'
  BY <1>5, OtherInvariant DEF CallTimesOut
<1>6. ASSUME NEW i \in DOMAIN pool, Run(i) PROVE IInv'
  BY <1>6, RunInvariant
<1>7. CASE Fire
  BY <1>7, FireResultInvariant, OtherInvariant DEF Fire, CallListener, EventDone
<1>8. ASSUME NEW l, TakeCallbackAnswer(l) \/ TakeUnknownCallbackAnswer(l) PROVE IInv'
  BY <1>8, OtherInvariant DEF TakeCallbackAnswer, TakeUnknownCallbackAnswer, Takes
<1>9. ASSUME NEW i, PayBack(i) PROVE IInv'
  <2>1. Send(NewCall("pay")) /\ UNCHANGED <<life, pool, in, answered>>
    BY <1>9 DEF PayBack
  <2> QED
    BY <2>1, SendInvariant DEF Kinds
<1>10. ASSUME NEW i, ListenerReturns(i) PROVE IInv'
  BY <1>10, OtherInvariant DEF ListenerReturns
<1>11. CASE ClientRestarts \/ ServiceStops
  BY <1>11, RestartInvariant, ServiceStopsInvariant
<1> QED
  BY <1>1, <1>2, <1>3, <1>4, <1>5, <1>6, <1>7, <1>8, <1>9, <1>10, <1>11 DEF Next

LEMMA InitInvariant == Init => IInv
<1> SUFFICES ASSUME Init PROVE IInv
  OBVIOUS
<1>1. Types
  BY DEF Init, Types
<1>2. Sent = {}
  BY DEF Init, Sent, CallsOf, ToSet
<1>3. Issued /\ Unique
  BY <1>2 DEF Init, Issued, Unique
<1>4. OwnAnswer
  BY DEF Init, OwnAnswer
<1> QED
  BY <1>1, <1>3, <1>4 DEF IInv

-------------------------------------------------------------------------------
\* Whatever the order in which the threads of the service answer, and
\* however often client and service restart, a call takes its own answer or
\* that of a call an earlier life of the client has made under its id.
THEOREM AnswersMatch == Spec => []OwnAnswer
<1>1. IInv => OwnAnswer
  BY DEF IInv
<1> QED
  BY <1>1, InitInvariant, StepInvariant, PTL DEF Spec

-------------------------------------------------------------------------------
(* No call is forgotten.  Where a call may be, as sets: on its way, with   *)
(* the pool, answered, or lost; and what a thread of the pool waits for.   *)

Events == [kind : {"incoming"}, n : Nat] \cup [kind : {"result"}, of : AnyCall]
Pollers == [block : Seq(Events), listener : Nat, waits : BOOLEAN]
EventTypes == upcoming \in Seq(Events) /\ poller \in Pollers /\ incoming \in Nat

CallsIn(tasks) == {t.call : t \in ToSet(tasks)}
CallsAnswered(a) == {m.of : m \in ToSet(a)}
Kept == handlers \subseteq ToSet(out) \cup CallsIn(pool) \cup CallsAnswered(in) \cup lostCalls

\* A channel that is closed brings no answer.
ClosedLoses == closed => handlers \subseteq lostCalls

EventsToCome == ToSet(upcoming) \cup ToSet(poller.block) \cup lostEvents
Coming == \A t \in ToSet(pool) : t.step = "waits" => Result(t.call) \in EventsToCome

FInv == EventTypes /\ Kept /\ ClosedLoses /\ Coming

LEMMA NothingIsForgotten == IInv /\ FInv => NothingForgotten
<1> SUFFICES ASSUME IInv, FInv PROVE NothingForgotten
  OBVIOUS
<1>1. ASSUME NEW c \in handlers
      PROVE  \/ c \in ToSet(out) \cup {pool[i].call : i \in DOMAIN pool} \cup lostCalls
             \/ \E j \in DOMAIN in : in[j].of = c
  <2>1. c \in ToSet(out) \cup CallsIn(pool) \cup CallsAnswered(in) \cup lostCalls
    BY DEF FInv, Kept
  <2>2. CASE c \in CallsIn(pool)
    BY <2>2 DEF CallsIn, ToSet
  <2>3. CASE c \in CallsAnswered(in)
    BY <2>3 DEF CallsAnswered, ToSet
  <2> QED
    BY <2>1, <2>2, <2>3
<1>2. ASSUME NEW i \in DOMAIN pool, pool[i].step = "waits"
      PROVE  Result(pool[i].call) \in ToSet(upcoming) \cup ToSet(poller.block) \cup lostEvents
  <2>1. pool[i] \in ToSet(pool)
    BY DEF ToSet
  <2> QED
    BY <1>2, <2>1 DEF FInv, Coming, EventsToCome
<1> QED
  BY <1>1, <1>2 DEF NothingForgotten

\* A step that only moves calls and events from place to place, or loses them.
LEMMA PlacesMove ==
  ASSUME FInv, EventTypes',
         handlers' \subseteq handlers, closed' = closed, lostCalls \subseteq lostCalls',
         ToSet(out) \cup CallsIn(pool) \cup CallsAnswered(in) \cup lostCalls
           \subseteq ToSet(out') \cup CallsIn(pool') \cup CallsAnswered(in') \cup lostCalls',
         \A t \in ToSet(pool') : t.step = "waits" =>
           \E u \in ToSet(pool) : u.step = "waits" /\ u.call = t.call,
         EventsToCome \subseteq EventsToCome'
  PROVE  FInv'
<1>1. Kept' /\ ClosedLoses'
  BY DEF FInv, Kept, ClosedLoses
<1>2. Coming'
  BY DEF FInv, Coming
<1> QED
  BY <1>1, <1>2 DEF FInv

LEMMA SendKeeps ==
  ASSUME FInv, IInv, NEW kind \in Kinds, Send(NewCall(kind)),
         UNCHANGED <<closed, pool, in, upcoming, poller, incoming, lostEvents>>
  PROVE  FInv'
<1> DEFINE c == NewCall(kind)
<1>1. /\ c \in AnyCall /\ out \in Seq(AnyCall) /\ handlers' = handlers \cup {c}
      /\ \/ out' = Append(out, c) /\ lostCalls' = lostCalls /\ ~closed
         \/ out' = out /\ lostCalls' = lostCalls \cup {c}
  BY DEF IInv, Types, Send, NewCall, AnyCall
<1> HIDE DEF c
<1>2. ToSet(Append(out, c)) = ToSet(out) \cup {c}
  BY <1>1, OfAppend
<1>3. /\ lostCalls \subseteq lostCalls' /\ ToSet(out) \subseteq ToSet(out')
      /\ c \in ToSet(out') \cup lostCalls' /\ (closed => c \in lostCalls')
  BY <1>1, <1>2
<1>4. Kept' /\ ClosedLoses'
  BY <1>1, <1>3 DEF FInv, Kept, ClosedLoses
<1>5. EventTypes' /\ Coming'
  BY DEF FInv, EventTypes, Coming, EventsToCome
<1> QED
  BY <1>4, <1>5 DEF FInv

\* The first answer is that of the calls with its id only.
LEMMA TakeAnswerKeeps == ASSUME IInv, FInv, TakeAnswer PROVE FInv'
<1> DEFINE m == Head(in)
<1>1. /\ in # <<>> /\ in' = Tail(in) /\ in \in Seq(Answers)
      /\ handlers' = handlers \ {c \in handlers : c.id = m.id}
      /\ UNCHANGED <<closed, out, pool, lostCalls, upcoming, poller, incoming, lostEvents>>
  BY DEF TakeAnswer, serviceVars, chainVars, IInv, Types
<1>2. ToSet(in) = ToSet(in') \cup {m} /\ m \in Answers
  BY <1>1, HeadAndTail
<1>3. m.of.id = m.id
  BY <1>2 DEF Answers
<1> HIDE DEF m
<1>4. CallsAnswered(in) = CallsAnswered(in') \cup {m.of}
  BY <1>2 DEF CallsAnswered
<1>5. Kept' /\ ClosedLoses'
  BY <1>1, <1>3, <1>4 DEF FInv, Kept, ClosedLoses
<1>6. EventTypes' /\ Coming'
  BY <1>1 DEF FInv, EventTypes, Coming, EventsToCome
<1> QED
  BY <1>5, <1>6 DEF FInv

LEMMA TakeUnknownAnswerKeeps == ASSUME IInv, FInv, TakeUnknownAnswer PROVE FInv'
<1> DEFINE m == Head(in)
<1>1. /\ in # <<>> /\ in \in Seq(Answers) /\ \A c \in handlers : c.id # m.id
      /\ \/ in' = Tail(in) /\ closed' = closed /\ lostCalls' = lostCalls
         \/ lostCalls' = lostCalls \cup handlers
      /\ UNCHANGED <<handlers, out, pool, upcoming, poller, incoming, lostEvents>>
  BY DEF TakeUnknownAnswer, serviceVars, chainVars, IInv, Types
<1>2. ToSet(in) = ToSet(Tail(in)) \cup {m} /\ m \in Answers
  BY <1>1, HeadAndTail
<1>3. m.of.id = m.id
  BY <1>2 DEF Answers
<1> HIDE DEF m
<1>4. CallsAnswered(in) = CallsAnswered(Tail(in)) \cup {m.of}
  BY <1>2 DEF CallsAnswered
<1>5. CASE in' = Tail(in) /\ closed' = closed /\ lostCalls' = lostCalls
  <2>1. m.of \notin handlers
    BY <1>1, <1>3
  <2> QED
    BY <1>1, <1>4, <1>5, <2>1 DEF FInv, Kept, ClosedLoses, EventTypes, Coming, EventsToCome
<1>6. CASE lostCalls' = lostCalls \cup handlers
  BY <1>1, <1>6 DEF FInv, Kept, ClosedLoses, EventTypes, Coming, EventsToCome
<1> QED
  BY <1>1, <1>5, <1>6

LEMMA TakeRequestKeeps == ASSUME IInv, FInv, TakeRequest PROVE FInv'
<1> DEFINE task == [call |-> Head(out), step |-> "begin"]
<1>1. /\ out # <<>> /\ out' = Tail(out) /\ pool' = Append(pool, task)
      /\ out \in Seq(AnyCall) /\ pool \in Seq(Tasks)
      /\ UNCHANGED <<closed, handlers, in, lostCalls, upcoming, poller, incoming, lostEvents>>
  BY DEF TakeRequest, clientVars, chainVars, historyVars, IInv, Types
<1>2. ToSet(out) = ToSet(out') \cup {Head(out)} /\ Head(out) \in AnyCall
  BY <1>1, HeadAndTail
<1>3. task \in Tasks /\ task.call = Head(out) /\ task.step # "waits"
  BY <1>2 DEF Tasks
<1> HIDE DEF task
<1>4. ToSet(pool') = ToSet(pool) \cup {task}
  BY <1>1, <1>3, OfAppend
<1>5. CallsIn(pool') = CallsIn(pool) \cup {Head(out)}
  BY <1>3, <1>4 DEF CallsIn
<1>6. EventTypes' /\ EventsToCome' = EventsToCome
  BY <1>1 DEF FInv, EventTypes, EventsToCome
<1> QED
  BY <1>1, <1>2, <1>3, <1>4, <1>5, <1>6, PlacesMove

\* A task that ends has answered its call or lost it, or nobody waits.
LEMMA FinishedKeeps ==
  ASSUME IInv, FInv, NEW i \in DOMAIN pool, Finished(i),
         \/ Reply(pool[i].call) /\ lostCalls' = lostCalls
         \/ in' = in /\ lostCalls' = lostCalls \cup {pool[i].call},
         UNCHANGED <<nextId, handlers, closed, out, upcoming, poller, incoming, lostEvents>>
  PROVE  FInv'
<1> DEFINE c == pool[i].call
<1>1. pool \in Seq(Tasks) /\ in \in Seq(Answers) /\ pool[i] \in Tasks /\ c \in AnyCall
  <2>1. pool \in Seq(Tasks) /\ in \in Seq(Answers) /\ pool[i] \in Tasks
    BY DEF IInv, Types
  <2> QED
    BY <2>1 DEF Tasks
<1>2. /\ ToSet(pool') \subseteq ToSet(pool) /\ ToSet(pool) \subseteq ToSet(pool') \cup {pool[i]}
  BY <1>1, OfRemoveAt, AllButRemoved DEF Finished
<1>3. CallsIn(pool) \subseteq CallsIn(pool') \cup {c}
  BY <1>2 DEF CallsIn
<1>4. EventTypes' /\ Coming'
  BY <1>2 DEF FInv, EventTypes, Coming, EventsToCome
<1>5. CASE in' = in /\ lostCalls' = lostCalls \cup {c}
  BY <1>3, <1>4, <1>5 DEF FInv, Kept, ClosedLoses
<1>6. CASE Reply(c) /\ lostCalls' = lostCalls /\ Consumed
  <2> DEFINE m == [id |-> c.id, of |-> c]
  <2>1. m \in Answers /\ m.of = c /\ in' = Append(in, m)
    BY <1>1, <1>6 DEF Answers, AnyCall, Reply
  <2> HIDE DEF m
  <2>2. ToSet(in') = ToSet(in) \cup {m}
    BY <1>1, <2>1, OfAppend
  <2>3. CallsAnswered(in') = CallsAnswered(in) \cup {c}
    BY <2>1, <2>2 DEF CallsAnswered
  <2> HIDE DEF c
  <2> QED
    BY <1>3, <1>4, <1>6, <2>3 DEF FInv, Kept, ClosedLoses
<1>7. CASE Reply(c) /\ lostCalls' = lostCalls /\ ~Consumed
  <2>1. CASE closed
    BY <1>4, <1>7, <2>1 DEF FInv, Kept, ClosedLoses
  <2>2. CASE ~closed
    <3>1. ~(nextId > 0)
      BY <1>7, <2>2 DEF Consumed
    <3>2. handlers = {}
      <4> SUFFICES ASSUME NEW d \in handlers PROVE FALSE
        OBVIOUS
      <4>1. d.life = life /\ d.id < nextId /\ d.id \in Nat /\ nextId \in Nat /\ life \in Nat
        BY DEF IInv, Issued, Sent, CallsOf, Types, AnyCall
      <4> QED
        BY <3>1, <4>1
    <3> QED
      BY <1>4, <3>2 DEF FInv, Kept, ClosedLoses
  <2> QED
    BY <2>1, <2>2
<1> QED
  BY <1>5, <1>6, <1>7

\* The ResultMessage a thread begins to wait for is to come.
LEMMA PayKeeps ==
  ASSUME IInv, FInv, NEW i \in DOMAIN pool,
         NEW task, pool' = [pool EXCEPT ![i] = task], task.call = pool[i].call,
         upcoming' = Append(upcoming, Result(pool[i].call)),
         UNCHANGED <<handlers, closed, out, in, lostCalls, poller, incoming, lostEvents>>
  PROVE  FInv'
<1> DEFINE c == pool[i].call
<1>1. pool \in Seq(Tasks) /\ pool[i] \in Tasks
  BY DEF IInv, Types
<1>2. c \in AnyCall
  BY <1>1 DEF Tasks
<1>3. Result(c) \in Events
  BY <1>2 DEF Result, Events
<1>4. upcoming' \in Seq(Events) /\ ToSet(upcoming') = ToSet(upcoming) \cup {Result(c)}
  BY <1>3, OfAppend DEF FInv, EventTypes
<1>5. /\ DOMAIN pool' = DOMAIN pool
      /\ \A j \in DOMAIN pool : pool'[j].call = pool[j].call /\ (j # i => pool'[j] = pool[j])
  BY <1>1
<1> HIDE DEF c
<1>6. CallsIn(pool') = CallsIn(pool)
  <2>1. \A x : x \in CallsIn(pool) <=> \E j \in DOMAIN pool : pool[j].call = x
    BY DEF CallsIn, ToSet
  <2>2. \A x : x \in CallsIn(pool') <=> \E j \in DOMAIN pool' : pool'[j].call = x
    BY DEF CallsIn, ToSet
  <2> QED
    BY <1>5, <2>1, <2>2
<1>7. Kept' /\ ClosedLoses'
  BY <1>6 DEF FInv, Kept, ClosedLoses
<1>8. Coming'
  <2> SUFFICES ASSUME NEW j \in DOMAIN pool', pool'[j].step = "waits"
               PROVE  Result(pool'[j].call) \in EventsToCome'
    BY DEF Coming, ToSet
  <2>1. EventsToCome' = EventsToCome \cup {Result(c)}
    BY <1>4 DEF EventsToCome
  <2>2. CASE j = i
    BY <1>5, <2>1, <2>2 DEF c
  <2>3. CASE j # i
    <3>1. pool'[j] = pool[j] /\ pool[j] \in ToSet(pool)
      BY <1>5, <2>3 DEF ToSet
    <3> QED
      BY <2>1, <3>1 DEF FInv, Coming
  <2> QED
    BY <2>2, <2>3
<1> QED
  BY <1>4, <1>7, <1>8 DEF FInv, EventTypes

LEMMA RunKeeps == ASSUME IInv, FInv, NEW i \in DOMAIN pool, Run(i) PROVE FInv'
<1>1. UNCHANGED <<nextId, handlers, closed, out, poller, incoming, lostEvents>>
  BY DEF Run, clientVars
<1>2. \/ /\ Finished(i) /\ UNCHANGED upcoming
         /\ \/ Reply(pool[i].call) /\ lostCalls' = lostCalls
            \/ in' = in /\ lostCalls' = lostCalls \cup {pool[i].call}
      \/ Pay(i)
  BY DEF Run, Ask, Unknown, Register, Paid
<1>3. CASE ~Pay(i)
  BY <1>1, <1>2, <1>3, FinishedKeeps
<1>4. CASE Pay(i)
  <2> DEFINE task == [pool[i] EXCEPT !.step = "waits"]
  <2>1. pool[i] \in Tasks
    BY DEF IInv, Types
  <2>2. task.call = pool[i].call /\ pool' = [pool EXCEPT ![i] = task]
    BY <1>4, <2>1 DEF Pay, Tasks
  <2> HIDE DEF task
  <2>3. upcoming' = Append(upcoming, Result(pool[i].call)) /\ UNCHANGED <<in, lostCalls>>
    BY <1>4 DEF Pay
  <2> QED
    BY <1>1, <2>2, <2>3, PayKeeps
<1> QED
  BY <1>2, <1>3, <1>4

\* The rest of the service and the chain: what the pool waits for goes from
\* what is to come to the block of the poller, and is fired or lost.
LEMMA PollerMoves ==
  ASSUME FInv, EventTypes', UNCHANGED <<handlers, closed, out, in, pool, lostCalls>>,
         EventsToCome \subseteq EventsToCome'
  PROVE  FInv'
<1>1. \A t \in ToSet(pool') : t.step = "waits" =>
        \E u \in ToSet(pool) : u.step = "waits" /\ u.call = t.call
  OBVIOUS
<1> QED
  BY <1>1, PlacesMove

LEMMA SplitSeq ==
  ASSUME NEW S, NEW s \in Seq(S), NEW n \in DOMAIN s
  PROVE  /\ SubSeq(s, 1, n) \in Seq(S) /\ SubSeq(s, n + 1, Len(s)) \in Seq(S)
         /\ ToSet(s) \subseteq ToSet(SubSeq(s, 1, n)) \cup ToSet(SubSeq(s, n + 1, Len(s)))
<1> DEFINE a == SubSeq(s, 1, n)
           b == SubSeq(s, n + 1, Len(s))
<1>1. a \in Seq(S) /\ DOMAIN a = 1 .. n /\ \A j \in 1 .. n : a[j] = s[j]
  OBVIOUS
<1>2. /\ b \in Seq(S) /\ DOMAIN b = 1 .. Len(s) - n
      /\ \A j \in 1 .. Len(s) - n : b[j] = s[j + n]
  OBVIOUS
<1>3. n \in Nat /\ Len(s) \in Nat /\ DOMAIN s = 1 .. Len(s)
  OBVIOUS
<1> HIDE DEF a, b
<1>4. ASSUME NEW i \in DOMAIN s PROVE s[i] \in ToSet(a) \cup ToSet(b)
  <2>1. CASE i <= n
    <3>1. i \in 1 .. n
      BY <1>3, <2>1
    <3> QED
      BY <1>1, <3>1 DEF ToSet
  <2>2. CASE i > n
    <3>1. PICK j \in 1 .. Len(s) - n : j = i - n
      BY <1>3, <2>2
    <3>2. j + n = i
      BY <1>3, <3>1
    <3>3. j \in DOMAIN b /\ b[j] = s[i]
      BY <1>2, <3>1, <3>2
    <3> QED
      BY <3>3 DEF ToSet
  <2> QED
    BY <1>3, <2>1, <2>2
<1>5. ToSet(s) \subseteq ToSet(a) \cup ToSet(b)
  BY <1>4 DEF ToSet
<1> QED
  BY <1>1, <1>2, <1>5 DEF a, b

LEMMA IdlePoller == Idle \in Pollers /\ Idle.block = <<>> /\ ToSet(<<>>) = {}
BY DEF Idle, Pollers, ToSet

LEMMA NewBlockKeeps == ASSUME IInv, FInv, NewBlock PROVE FInv'
<1>1. PICK n \in DOMAIN upcoming :
        /\ poller = Idle /\ poller' = [Idle EXCEPT !.block = SubSeq(upcoming, 1, n)]
        /\ upcoming' = SubSeq(upcoming, n + 1, Len(upcoming))
  BY DEF NewBlock
<1>2. UNCHANGED <<handlers, closed, out, in, pool, lostCalls, lostEvents, incoming>>
  BY DEF NewBlock, clientVars, queueVars, historyVars
<1>3. /\ SubSeq(upcoming, 1, n) \in Seq(Events) /\ upcoming' \in Seq(Events)
      /\ ToSet(upcoming) \subseteq ToSet(SubSeq(upcoming, 1, n)) \cup ToSet(upcoming')
  BY <1>1, SplitSeq DEF FInv, EventTypes
<1>4. poller' \in Pollers /\ poller'.block = SubSeq(upcoming, 1, n)
  BY <1>1, <1>3 DEF Idle, Pollers
<1>5. EventTypes'
  BY <1>2, <1>3, <1>4 DEF FInv, EventTypes
<1>6. ToSet(poller.block) = {}
  BY <1>1, IdlePoller
<1>7. EventsToCome \subseteq EventsToCome'
  BY <1>2, <1>3, <1>4, <1>6 DEF EventsToCome
<1> QED
  BY <1>2, <1>5, <1>7, PollerMoves

LEMMA AbortKeeps ==
  ASSUME FInv, AbortBlock, UNCHANGED <<handlers, closed, out, in, pool, lostCalls, upcoming, incoming>>
  PROVE  FInv'
<1>1. poller' = Idle /\ lostEvents' = lostEvents \cup ToSet(poller.block)
  BY DEF AbortBlock
<1>2. EventTypes'
  BY <1>1, IdlePoller DEF FInv, EventTypes
<1>3. EventsToCome \subseteq EventsToCome'
  BY <1>1 DEF EventsToCome
<1> QED
  BY <1>2, <1>3, PollerMoves

\* The poller turns to the next listener, with the events it has.
LEMMA SameBlock ==
  ASSUME FInv, poller' \in Pollers, poller'.block = poller.block,
         UNCHANGED <<handlers, closed, out, in, pool, lostCalls, upcoming, incoming, lostEvents>>
  PROVE  FInv'
<1>1. EventTypes' /\ EventsToCome' = EventsToCome
  BY DEF FInv, EventTypes, EventsToCome
<1> QED
  BY <1>1, PollerMoves

\* The next event of the block.
LEMMA EventFired ==
  ASSUME FInv, poller.block # <<>>, poller' = NextEvent
  PROVE  /\ poller' \in Pollers
         /\ ToSet(poller.block) = ToSet(poller'.block) \cup {Event}
<1>1. poller.block \in Seq(Events)
  BY DEF FInv, EventTypes, Pollers
<1>2. Tail(poller.block) \in Seq(Events) /\ ToSet(poller.block) = ToSet(Tail(poller.block)) \cup {Event}
  BY <1>1, OfTail, HeadAndTail DEF Event
<1>3. poller' \in Pollers /\ poller'.block = Tail(poller.block)
  BY <1>2 DEF NextEvent, Idle, Pollers
<1> QED
  BY <1>2, <1>3

LEMMA FireResultKeeps == ASSUME IInv, FInv, FireResult PROVE FInv'
<1>1. /\ poller.block # <<>> /\ poller' = NextEvent
      /\ pool' = [i \in DOMAIN pool |-> IsPaid(pool[i])]
      /\ UNCHANGED <<handlers, closed, out, in, lostCalls, upcoming, incoming, lostEvents>>
  BY DEF FireResult, Firing, clientVars, queueVars, chainVars, historyVars
<1>2. pool \in Seq(Tasks)
  BY DEF IInv, Types
<1>3. \A t \in Tasks : IsPaid(t).call = t.call
  BY DEF IsPaid, Tasks
<1>4. \A t \in Tasks : IsPaid(t).step = "waits" => t.step = "waits" /\ Result(t.call) # Event
  BY DEF IsPaid, Tasks, Result
<1>5. /\ DOMAIN pool' = DOMAIN pool
      /\ \A i \in DOMAIN pool : pool'[i] = IsPaid(pool[i]) /\ pool[i] \in Tasks
  BY <1>1, <1>2
<1>6. CallsIn(pool') = CallsIn(pool)
  <2>1. \A x : x \in CallsIn(pool) <=> \E j \in DOMAIN pool : pool[j].call = x
    BY DEF CallsIn, ToSet
  <2>2. \A x : x \in CallsIn(pool') <=> \E j \in DOMAIN pool' : pool'[j].call = x
    BY DEF CallsIn, ToSet
  <2>3. \A j \in DOMAIN pool : pool'[j].call = pool[j].call
    BY <1>3, <1>5
  <2>4. DOMAIN pool' = DOMAIN pool
    BY <1>5
  <2> QED
    BY <2>1, <2>2, <2>3, <2>4
<1>7. poller' \in Pollers /\ ToSet(poller.block) = ToSet(poller'.block) \cup {Event}
  BY <1>1, EventFired
<1>8. EventTypes'
  BY <1>1, <1>7 DEF FInv, EventTypes
<1>9. Kept' /\ ClosedLoses'
  BY <1>1, <1>6 DEF FInv, Kept, ClosedLoses
<1>10. Coming'
  <2> SUFFICES ASSUME NEW i \in DOMAIN pool', pool'[i].step = "waits"
               PROVE  Result(pool'[i].call) \in EventsToCome'
    BY DEF Coming, ToSet
  <2>1. /\ pool[i] \in ToSet(pool) /\ pool[i].step = "waits"
        /\ Result(pool[i].call) # Event /\ pool'[i].call = pool[i].call
    BY <1>3, <1>4, <1>5 DEF ToSet
  <2>2. Result(pool[i].call) \in EventsToCome
    BY <2>1 DEF FInv, Coming
  <2> QED
    BY <1>1, <1>7, <2>1, <2>2 DEF EventsToCome
<1> QED
  BY <1>8, <1>9, <1>10 DEF FInv

\* A payment of others is no ResultMessage.
LEMMA EventDoneKeeps == ASSUME IInv, FInv, EventDone PROVE FInv'
<1>1. /\ poller.block # <<>> /\ poller' = NextEvent /\ Event.kind = "incoming"
      /\ UNCHANGED <<handlers, closed, out, in, pool, lostCalls, upcoming, incoming, lostEvents>>
  BY DEF EventDone, Firing, clientVars, queueVars, chainVars, historyVars
<1>2. poller' \in Pollers /\ ToSet(poller.block) = ToSet(poller'.block) \cup {Event}
  BY <1>1, EventFired
<1>3. \A c : Result(c) # Event
  BY <1>1 DEF Result
<1>4. Coming'
  BY <1>1, <1>2, <1>3 DEF FInv, Coming, EventsToCome
<1>5. EventTypes' /\ Kept' /\ ClosedLoses'
  BY <1>1, <1>2 DEF FInv, EventTypes, Kept, ClosedLoses
<1> QED
  BY <1>4, <1>5 DEF FInv

LEMMA PollerKinds ==
  ASSUME NEW p \in Pollers
  PROVE  /\ [p EXCEPT !.waits = TRUE] \in Pollers
         /\ [p EXCEPT !.waits = TRUE].block = p.block
         /\ [p EXCEPT !.listener = p.listener + 1, !.waits = FALSE] \in Pollers
         /\ [p EXCEPT !.listener = p.listener + 1, !.waits = FALSE].block = p.block
<1>1. [p EXCEPT !.waits = TRUE] \in Pollers
  BY DEF Pollers
<1>2. [p EXCEPT !.waits = TRUE].block = p.block
  BY DEF Pollers
<1>3. p.listener + 1 \in Nat
  BY DEF Pollers
<1>4. [p EXCEPT !.listener = p.listener + 1, !.waits = FALSE] \in Pollers
  BY <1>3 DEF Pollers
<1>5. [p EXCEPT !.listener = p.listener + 1, !.waits = FALSE].block = p.block
  BY DEF Pollers
<1> QED
  BY <1>1, <1>2, <1>4, <1>5

LEMMA ListenersKeep ==
  ASSUME IInv, FInv,
         \/ CallListener \/ CallbackTimesOut
         \/ \E l \in DOMAIN listeners : TakeCallbackAnswer(l) \/ TakeUnknownCallbackAnswer(l)
  PROVE  FInv'
<1>1. UNCHANGED <<handlers, closed, out, in, pool, lostCalls, upcoming, incoming>>
  BY DEF CallListener, CallbackTimesOut, TakeCallbackAnswer, TakeUnknownCallbackAnswer, Takes,
         clientVars, queueVars, chainVars
<1>2. \/ AbortBlock
      \/ UNCHANGED <<poller, lostEvents>>
      \/ poller' = NextListener /\ UNCHANGED lostEvents
      \/ poller' = [poller EXCEPT !.waits = TRUE] /\ UNCHANGED lostEvents
  BY DEF CallListener, CallbackTimesOut, TakeCallbackAnswer, TakeUnknownCallbackAnswer
<1>3. CASE UNCHANGED <<poller, lostEvents>>
  BY <1>1, <1>3, SameBlock DEF FInv, EventTypes
<1> QED
  BY <1>1, <1>2, <1>3, AbortKeeps, SameBlock, PollerKinds DEF NextListener, FInv, EventTypes

LEMMA PaymentComesKeeps == ASSUME IInv, FInv, PaymentComes PROVE FInv'
<1>1. /\ incoming' = incoming + 1 /\ upcoming' = Append(upcoming, Incoming(incoming'))
      /\ UNCHANGED <<handlers, closed, out, in, pool, lostCalls, poller, lostEvents>>
  BY DEF PaymentComes, clientVars, queueVars, serviceVars, historyVars
<1>2. incoming' \in Nat
  BY <1>1 DEF FInv, EventTypes
<1>3. Incoming(incoming') \in Events
  BY <1>2 DEF Incoming, Events
<1>4. upcoming' \in Seq(Events) /\ ToSet(upcoming) \subseteq ToSet(upcoming')
  BY <1>1, <1>3, OfAppend DEF FInv, EventTypes
<1>5. EventTypes' /\ EventsToCome \subseteq EventsToCome'
  BY <1>1, <1>2, <1>4 DEF FInv, EventTypes, EventsToCome
<1> QED
  BY <1>1, <1>5, PollerMoves

-------------------------------------------------------------------------------
(* Restarts.                                                               *)

LEMMA ClientRestartsKeeps == ASSUME IInv, FInv, ClientRestarts PROVE FInv'
<1>1. /\ handlers' = {}
      /\ UNCHANGED <<pool, lostCalls, upcoming, poller, incoming, lostEvents>>
  BY DEF ClientRestarts, serviceVars, chainVars, historyVars
<1> QED
  BY <1>1 DEF FInv, EventTypes, Kept, ClosedLoses, Coming, EventsToCome

LEMMA ServiceStopsKeeps == ASSUME IInv, FInv, ServiceStops PROVE FInv'
<1>1. /\ pool' = <<>> /\ poller' = Idle /\ out' = <<>>
      /\ lostCalls' = lostCalls \cup ToSet(out) \cup {pool[i].call : i \in DOMAIN pool}
      /\ lostEvents' = lostEvents \cup ToSet(poller.block)
      /\ UNCHANGED <<handlers, closed, in, upcoming, incoming>>
  BY DEF ServiceStops, clientVars, chainVars
<1>2. CallsIn(pool) \subseteq {pool[i].call : i \in DOMAIN pool}
  BY DEF CallsIn, ToSet
<1>3. EventTypes'
  BY <1>1, IdlePoller DEF FInv, EventTypes
<1>4. Kept' /\ ClosedLoses'
  BY <1>1, <1>2 DEF FInv, Kept, ClosedLoses
<1>5. Coming'
  BY <1>1, IdlePoller DEF Coming
<1> QED
  BY <1>3, <1>4, <1>5 DEF FInv

LEMMA ServiceStartsKeeps == ASSUME IInv, FInv, ServiceStarts PROVE FInv'
<1>1. /\ upcoming' = <<>> /\ lostEvents' = lostEvents \cup ToSet(upcoming)
      /\ UNCHANGED <<handlers, closed, out, in, pool, lostCalls, poller, incoming>>
  BY DEF ServiceStarts, clientVars, queueVars
<1>2. EventTypes'
  BY <1>1 DEF FInv, EventTypes
<1>3. EventsToCome \subseteq EventsToCome'
  BY <1>1 DEF EventsToCome
<1> QED
  BY <1>1, <1>2, <1>3, PollerMoves

LEMMA NothingMoves ==
  ASSUME FInv,
         UNCHANGED <<handlers, closed, out, in, pool, lostCalls, upcoming, poller, incoming, lostEvents>>
  PROVE  FInv'
BY DEF FInv, EventTypes, Kept, ClosedLoses, Coming, EventsToCome

LEMMA StepKeeps == IInv /\ FInv /\ [Next]_vars => FInv'
<1> SUFFICES ASSUME IInv, FInv, [Next]_vars PROVE FInv'
  OBVIOUS
<1> USE DEF clientVars, queueVars, serviceVars, chainVars, historyVars
<1>1. CASE UNCHANGED vars
  BY <1>1, NothingMoves DEF vars
<1>2. ASSUME NEW kind \in Kinds, Call(kind) PROVE FInv'
  <2>1. /\ Send(NewCall(kind))
        /\ UNCHANGED <<closed, pool, in, upcoming, poller, incoming, lostEvents>>
    BY <1>2 DEF Call
  <2> QED
    BY <2>1, SendKeeps
<1>3. CASE TakeAnswer \/ TakeUnknownAnswer \/ TakeRequest
  BY <1>3, TakeAnswerKeeps, TakeUnknownAnswerKeeps, TakeRequestKeeps
<1>4. CASE TakeCallback
  BY <1>4, NothingMoves DEF TakeCallback
<1>5. ASSUME NEW c, CallTimesOut(c) PROVE FInv'
  BY <1>5, NothingMoves DEF CallTimesOut
<1>6. ASSUME NEW i \in DOMAIN pool, Run(i) PROVE FInv'
  BY <1>6, RunKeeps
<1>7. CASE PaymentComes \/ NewBlock
  BY <1>7, PaymentComesKeeps, NewBlockKeeps
<1>8. CASE Fire \/ CallbackTimesOut
  BY <1>8, FireResultKeeps, EventDoneKeeps, ListenersKeep DEF Fire
<1>9. ASSUME NEW l \in DOMAIN listeners, TakeCallbackAnswer(l) \/ TakeUnknownCallbackAnswer(l)
      PROVE  FInv'
  BY <1>9, ListenersKeep
<1>10. ASSUME NEW i, PayBack(i) PROVE FInv'
  <2>1. /\ Send(NewCall("pay"))
        /\ UNCHANGED <<closed, pool, in, upcoming, poller, incoming, lostEvents>>
    BY <1>10 DEF PayBack
  <2> QED
    BY <2>1, SendKeeps DEF Kinds
<1>11. ASSUME NEW i, ListenerReturns(i) PROVE FInv'
  BY <1>11, NothingMoves DEF ListenerReturns
<1>12. CASE ClientRestarts \/ ServiceStops \/ ServiceStarts
  BY <1>12, ClientRestartsKeeps, ServiceStopsKeeps, ServiceStartsKeeps
<1> QED
  BY <1>1, <1>2, <1>3, <1>4, <1>5, <1>6, <1>7, <1>8, <1>9, <1>10, <1>11, <1>12 DEF Next

LEMMA InitKeeps == Init => FInv
<1> SUFFICES ASSUME Init PROVE FInv
  OBVIOUS
<1>1. /\ handlers = {} /\ pool = <<>> /\ upcoming = <<>> /\ poller = Idle /\ incoming = 0
  BY DEF Init
<1>2. EventTypes /\ Coming
  BY <1>1, IdlePoller DEF EventTypes, Coming
<1> QED
  BY <1>1, <1>2 DEF FInv, Kept, ClosedLoses

-------------------------------------------------------------------------------
\* While its caller waits a call is on its way, with the pool or answered,
\* unless the method is unknown, a stop of the service or a closed channel
\* lost it; and a thread of the pool waits for no event that will not come,
\* unless that was lost.
THEOREM CallsAreKept == Spec => []NothingForgotten
<1>1. Init => IInv /\ FInv
  BY InitInvariant, InitKeeps
<1>2. IInv /\ FInv /\ [Next]_vars => (IInv /\ FInv)'
  BY StepInvariant, StepKeeps
<1> QED
  BY <1>1, <1>2, NothingIsForgotten, PTL DEF Spec

-------------------------------------------------------------------------------
(* The callbacks.  A payment is heard of once per registration: how far    *)
(* the poller has come with its listeners bounds what the client was told  *)
(* and what it is still to be told.                                        *)

Requests == [listener : Nat \ {0}, id : Nat, n : 1 .. MaxIncoming]
Payments == {c \in AnyCall : c.kind = "pay"}
Echoes == [request : Requests, call : Payments \cup {NoCall}]
Transports == [sent : Nat, handlers : SUBSET Nat, open : BOOLEAN]

CallbackTypes ==
  /\ callOut \in Seq(Requests) /\ echoes \in Seq(Echoes)
  /\ listeners \in Seq(Transports)
  /\ told \in [1 .. MaxIncoming -> Nat]
  /\ incoming <= MaxIncoming
  /\ poller.listener # 0
  /\ poller.waits => poller.block # <<>>

\* A call is in one place of the queue of requests and the pool ...
InOnePlace ==
  /\ \A i, k \in 1 .. Len(out) : out[i] = out[k] => i = k
  /\ \A i, k \in 1 .. Len(pool) : pool[i].call = pool[k].call => i = k
  /\ \A i \in 1 .. Len(out), k \in 1 .. Len(pool) : out[i] # pool[k].call

\* ... and a life of the client registers once, so that there are no more
\* registrations than lives.
ToRegister == {c \in ToSet(out) \cup CallsIn(pool) : c.kind = "register"}
Registrations ==
  /\ IsFiniteSet(ToRegister)
  /\ Len(listeners) + Cardinality(ToRegister) <= IF nextId = 0 THEN life ELSE life + 1

\* The events still to fire, in the order of the chain.
ToFire == poller.block \o upcoming
IsToFire(j, n) == j \in 1 .. Len(ToFire) /\ ToFire[j] = Incoming(n)

\* How many of the listeners were called for an event: some for the first of
\* the block, none for the others.
LastCalled == IF poller.waits THEN poller.listener ELSE poller.listener - 1
Reach(j) == IF j = 1 /\ poller.block # <<>> THEN LastCalled ELSE 0

\* Of payment n the client has heard by the first k listeners at most.
HeardTo(n, k) ==
  /\ told[n] <= k
  /\ \A r \in ToSet(callOut) : r.n = n => r.listener <= k
  /\ \A e \in ToSet(echoes) : e.request.n = n => e.request.listener <= k

\* Events are of payments that came, in order; of those to fire nothing was
\* heard, but by the listeners the poller has called.
InOrder ==
  /\ \A j, n \in Nat : IsToFire(j, n) => n \in 1 .. incoming
  /\ \A j, k, m, n \in Nat : IsToFire(j, m) /\ IsToFire(k, n) /\ j < k => m < n
  /\ \A j, n, k \in Nat : IsToFire(j, n) /\ Reach(j) <= k => HeardTo(n, k)
  /\ \A n \in 1 .. MaxIncoming : n > incoming => HeardTo(n, 0)

\* What is on its way comes in the order of the listeners.
IsComing(i, n, l) == i \in 1 .. Len(callOut) /\ callOut[i].n = n /\ callOut[i].listener = l
ByListener ==
  /\ \A i, n, l \in Nat : IsComing(i, n, l) => told[n] < l /\ l <= life + 1
  /\ \A i, j, n, l, k \in Nat : IsComing(i, n, l) /\ IsComing(j, n, k) /\ i < j => l < k
  /\ ToldOnce

\* The poller waits for this listener to return.
IsWaitedFor(e) ==
  poller.waits /\ e.request.listener = poller.listener /\ Event = Incoming(e.request.n)
SelfWait ==
  \A e \in ToSet(echoes) : IsWaitedFor(e) /\ e.call # NoCall =>
    /\ \A t \in ToSet(pool) : t.call = e.call => t.step # "paid"
    /\ e.call \notin CallsAnswered(in)

CInv == CallbackTypes /\ InOnePlace /\ Registrations /\ InOrder /\ ByListener /\ SelfWait

-------------------------------------------------------------------------------
LEMMA TransportKinds ==
  ASSUME NEW t \in Transports, NEW id, NEW open \in BOOLEAN
  PROVE  /\ [t EXCEPT !.sent = t.sent + 1, !.handlers = t.handlers \cup {t.sent}] \in Transports
         /\ [t EXCEPT !.handlers = t.handlers \ {id}] \in Transports
         /\ [t EXCEPT !.open = open] \in Transports
         /\ NewTransport \in Transports
<1>1. t.sent \in Nat /\ t.sent + 1 \in Nat /\ t.handlers \subseteq Nat /\ t.open \in BOOLEAN
  BY DEF Transports
<1>2. t.handlers \cup {t.sent} \subseteq Nat /\ t.handlers \ {id} \subseteq Nat
  BY <1>1
<1>3. t = [sent |-> t.sent, handlers |-> t.handlers, open |-> t.open]
  BY DEF Transports
<1> QED
  BY <1>1, <1>2, <1>3 DEF Transports, NewTransport

\* One listener's transport changes.
LEMMA OneTransport ==
  ASSUME listeners \in Seq(Transports), NEW l \in DOMAIN listeners, NEW t \in Transports,
         listeners' = [listeners EXCEPT ![l] = t]
  PROVE  listeners' \in Seq(Transports) /\ Len(listeners') = Len(listeners)
OBVIOUS

LEMMA ListenersChange ==
  ASSUME listeners \in Seq(Transports), NEW l \in DOMAIN listeners,
         \/ listeners' = [listeners EXCEPT ![l].sent = listeners[l].sent + 1,
                                           ![l].handlers = @ \cup {listeners[l].sent}]
         \/ \E id : listeners' = [listeners EXCEPT ![l].handlers = @ \ {id}]
         \/ \E open \in BOOLEAN : listeners' = [listeners EXCEPT ![l].open = open]
  PROVE  listeners' \in Seq(Transports) /\ Len(listeners') = Len(listeners)
<1>1. listeners[l] \in Transports
  OBVIOUS
<1>2. CASE listeners' = [listeners EXCEPT ![l].sent = listeners[l].sent + 1,
                                          ![l].handlers = @ \cup {listeners[l].sent}]
  <2>1. PICK t : t = [listeners[l] EXCEPT !.sent = listeners[l].sent + 1,
                        !.handlers = listeners[l].handlers \cup {listeners[l].sent}]
    OBVIOUS
  <2>2. listeners' = [listeners EXCEPT ![l] = t]
    BY <1>2, <2>1
  <2>3. t \in Transports
    BY <1>1, <2>1, TransportKinds
  <2> QED
    BY <2>2, <2>3, OneTransport
<1>3. ASSUME NEW id, listeners' = [listeners EXCEPT ![l].handlers = @ \ {id}]
      PROVE  listeners' \in Seq(Transports) /\ Len(listeners') = Len(listeners)
  <2>1. PICK t : t = [listeners[l] EXCEPT !.handlers = listeners[l].handlers \ {id}]
    OBVIOUS
  <2>2. listeners' = [listeners EXCEPT ![l] = t]
    BY <1>3, <2>1
  <2>3. t \in Transports
    BY <1>1, <2>1, TransportKinds
  <2> QED
    BY <2>2, <2>3, OneTransport
<1>4. ASSUME NEW open \in BOOLEAN, listeners' = [listeners EXCEPT ![l].open = open]
      PROVE  listeners' \in Seq(Transports) /\ Len(listeners') = Len(listeners)
  <2>1. PICK t : t = [listeners[l] EXCEPT !.open = open]
    OBVIOUS
  <2>2. listeners' = [listeners EXCEPT ![l] = t]
    BY <1>4, <2>1
  <2>3. t \in Transports
    BY <1>1, <2>1, TransportKinds
  <2> QED
    BY <2>2, <2>3, OneTransport
<1> QED
  BY <1>2, <1>3, <1>4

\* What the steps do to the listeners.
LEMMA ListenersStep ==
  ASSUME CallbackTypes, [Next]_vars
  PROVE  /\ listeners' \in Seq(Transports)
         /\ \/ Len(listeners') = Len(listeners)
            \/ \E i \in DOMAIN pool : Run(i) /\ Register(i) /\ Len(listeners') = Len(listeners) + 1
            \/ ServiceStops /\ listeners' = <<>>
<1> USE DEF serviceVars
<1>1. listeners \in Seq(Transports)
  BY DEF CallbackTypes
<1>2. CASE listeners' = listeners
  BY <1>1, <1>2
<1>3. ASSUME NEW i \in DOMAIN pool, Run(i), Register(i)
      PROVE  listeners' \in Seq(Transports) /\ Len(listeners') = Len(listeners) + 1
  <2>1. NewTransport \in Transports
    BY DEF NewTransport, Transports
  <2>2. listeners' = Append(listeners, NewTransport)
    BY <1>3 DEF Register
  <2> HIDE DEF NewTransport
  <2> QED
    BY <1>1, <2>1, <2>2
<1>4. ASSUME NEW i \in DOMAIN pool, Run(i), ~Register(i) PROVE listeners' = listeners
  BY <1>4 DEF Run, Ask, Unknown, Pay, Paid
<1>5. CASE CallListener
  BY <1>1, <1>5, ListenersChange DEF CallListener
<1>6. ASSUME NEW l \in DOMAIN listeners, TakeCallbackAnswer(l)
      PROVE  listeners' \in Seq(Transports) /\ Len(listeners') = Len(listeners)
  BY <1>1, <1>6, ListenersChange DEF TakeCallbackAnswer
<1>7. ASSUME NEW l \in DOMAIN listeners, TakeUnknownCallbackAnswer(l)
      PROVE  listeners' \in Seq(Transports) /\ Len(listeners') = Len(listeners)
  BY <1>1, <1>7, ListenersChange DEF TakeUnknownCallbackAnswer
<1>8. CASE ServiceStops
  BY <1>1, <1>8 DEF ServiceStops
<1>9. CASE UNCHANGED vars
  BY <1>2, <1>9 DEF vars
<1>10. ASSUME NEW kind, Call(kind) PROVE listeners' = listeners
  BY <1>10 DEF Call
<1>11. CASE \/ TakeAnswer \/ TakeUnknownAnswer \/ TakeRequest \/ TakeCallback
            \/ PaymentComes \/ NewBlock \/ FireResult \/ EventDone \/ CallbackTimesOut
            \/ ClientRestarts \/ ServiceStarts
  <2>1. listeners' = listeners
    BY <1>11 DEF TakeAnswer, TakeUnknownAnswer, TakeRequest, TakeCallback, PaymentComes, NewBlock,
         FireResult, EventDone, CallbackTimesOut, ClientRestarts, ServiceStarts
  <2> QED
    BY <1>2, <2>1
<1>12. ASSUME NEW c, CallTimesOut(c) PROVE listeners' = listeners
  BY <1>12 DEF CallTimesOut
<1>13. ASSUME NEW i, PayBack(i) \/ ListenerReturns(i) PROVE listeners' = listeners
  BY <1>13 DEF PayBack, ListenerReturns
<1> QED
  BY <1>2, <1>3, <1>4, <1>5, <1>6, <1>7, <1>8, <1>9, <1>10, <1>11, <1>12, <1>13 DEF Next, Fire

\* What they do to the callbacks on their way and with the client.
Unheard == UNCHANGED <<callOut, told, echoes>>
Sends(l) ==
  /\ CallListener /\ l = poller.listener /\ ~poller.waits /\ poller' = [poller EXCEPT !.waits = TRUE]
  /\ callOut' = Append(callOut, [listener |-> l, id |-> listeners[l].sent, n |-> Event.n])
  /\ UNCHANGED <<told, echoes, life>>

LEMMA CallbacksStep ==
  ASSUME [Next]_vars
  PROVE  \/ Unheard
         \/ TakeCallback \/ ClientRestarts
         \/ \E l \in DOMAIN listeners : Sends(l)
         \/ \E i \in DOMAIN echoes : PayBack(i) \/ ListenerReturns(i)
<1> USE DEF Unheard, clientVars, queueVars, historyVars
<1>1. CASE UNCHANGED vars
  BY <1>1 DEF vars
<1>2. ASSUME NEW kind, Call(kind) PROVE Unheard
  BY <1>2 DEF Call
<1>3. CASE \/ TakeAnswer \/ TakeUnknownAnswer \/ TakeRequest
           \/ PaymentComes \/ NewBlock \/ FireResult \/ EventDone \/ CallbackTimesOut
           \/ ServiceStops \/ ServiceStarts
  BY <1>3 DEF TakeAnswer, TakeUnknownAnswer, TakeRequest, PaymentComes, NewBlock,
       FireResult, EventDone, CallbackTimesOut, ServiceStops, ServiceStarts
<1>4. ASSUME NEW c, CallTimesOut(c) PROVE Unheard
  BY <1>4 DEF CallTimesOut
<1>5. ASSUME NEW i, Run(i) PROVE Unheard
  BY <1>5 DEF Run
<1>6. ASSUME NEW l, TakeCallbackAnswer(l) \/ TakeUnknownCallbackAnswer(l) PROVE Unheard
  BY <1>6 DEF TakeCallbackAnswer, TakeUnknownCallbackAnswer, Takes
<1>7. ASSUME CallListener
      PROVE  Unheard \/ \E l \in DOMAIN listeners : Sends(l)
  <2> DEFINE l == poller.listener
  <2>1. /\ ~poller.waits /\ l \in DOMAIN listeners /\ UNCHANGED <<told, echoes, life>>
        /\ \/ callOut' = callOut
           \/ /\ callOut' = Append(callOut, [listener |-> l, id |-> listeners[l].sent, n |-> Event.n])
              /\ poller' = [poller EXCEPT !.waits = TRUE]
    BY <1>7 DEF CallListener, Firing
  <2> QED
    BY <1>7, <2>1 DEF Sends
<1> QED
  BY <1>1, <1>2, <1>3, <1>4, <1>5, <1>6, <1>7 DEF Next, Fire

\* The event at the head of the block is the first of those to fire.
LEMMA EventIsToFire ==
  ASSUME FInv, CallbackTypes, InOrder, poller.block # <<>>, Event.kind = "incoming"
  PROVE  /\ Event = Incoming(Event.n) /\ Event.n \in Nat
         /\ IsToFire(1, Event.n) /\ Event.n \in 1 .. incoming /\ Event.n \in 1 .. MaxIncoming
<1>1. /\ poller.block \in Seq(Events) /\ upcoming \in Seq(Events)
      /\ incoming \in Nat /\ incoming <= MaxIncoming /\ MaxIncoming \in Nat
  BY BoundsAssumption DEF FInv, EventTypes, Pollers, CallbackTypes
<1>2. Event \in Events /\ Event = poller.block[1]
  BY <1>1, OfTail DEF Event
<1>3. Event = Incoming(Event.n) /\ Event.n \in Nat
  BY <1>2 DEF Events, Incoming
<1>4. 1 \in 1 .. Len(ToFire) /\ ToFire[1] = poller.block[1]
  BY <1>1 DEF ToFire
<1>5. IsToFire(1, Event.n)
  BY <1>2, <1>3, <1>4 DEF IsToFire
<1>6. Event.n \in 1 .. incoming
  BY <1>3, <1>5 DEF InOrder
<1> QED
  BY <1>1, <1>3, <1>5, <1>6

\* What they do to the events and the poller.
Stays == UNCHANGED <<poller, upcoming, incoming>>
Fired == Firing /\ poller' = NextEvent /\ UNCHANGED <<upcoming, incoming>>
Calls1 == Firing /\ poller' = [poller EXCEPT !.waits = TRUE] /\ UNCHANGED <<upcoming, incoming>>
Returned == poller.waits /\ poller' = NextListener /\ UNCHANGED <<upcoming, incoming>>
Aborts == poller' = Idle /\ UNCHANGED <<upcoming, incoming>>
Mined(i) ==
  upcoming' = Append(upcoming, Result(pool[i].call)) /\ UNCHANGED <<poller, incoming>>

LEMMA PollerStep ==
  ASSUME [Next]_vars
  PROVE  \/ Stays \/ PaymentComes \/ NewBlock \/ ServiceStarts
         \/ Fired \/ Calls1 \/ Returned \/ Aborts
         \/ \E i \in DOMAIN pool : Mined(i)
<1> USE DEF Stays, serviceVars, chainVars
<1>1. CASE UNCHANGED vars
  BY <1>1 DEF vars
<1>2. ASSUME NEW kind, Call(kind) PROVE Stays
  BY <1>2 DEF Call
<1>3. CASE TakeAnswer \/ TakeUnknownAnswer \/ TakeRequest \/ TakeCallback \/ ClientRestarts
  BY <1>3 DEF TakeAnswer, TakeUnknownAnswer, TakeRequest, TakeCallback, ClientRestarts
<1>4. ASSUME NEW c, CallTimesOut(c) PROVE Stays
  BY <1>4 DEF CallTimesOut
<1>5. ASSUME NEW i \in DOMAIN pool, Run(i) PROVE Stays \/ Mined(i)
  BY <1>5 DEF Run, Ask, Unknown, Register, Pay, Paid, Mined
<1>6. CASE FireResult \/ EventDone
  BY <1>6 DEF FireResult, EventDone, Fired
<1>7. CASE CallListener
  BY <1>7 DEF CallListener, Calls1, Aborts, AbortBlock
<1>8. CASE CallbackTimesOut \/ ServiceStops
  BY <1>8 DEF CallbackTimesOut, ServiceStops, Aborts, AbortBlock
<1>9. ASSUME NEW l, TakeCallbackAnswer(l) \/ TakeUnknownCallbackAnswer(l)
      PROVE  Stays \/ Aborts \/ Returned
  BY <1>9 DEF TakeCallbackAnswer, TakeUnknownCallbackAnswer, Takes, Aborts, AbortBlock,
       Returned, IsAwaited
<1>10. ASSUME NEW i, PayBack(i) \/ ListenerReturns(i) PROVE Stays
  BY <1>10 DEF PayBack, ListenerReturns
<1> QED
  BY <1>1, <1>2, <1>3, <1>4, <1>5, <1>6, <1>7, <1>8, <1>9, <1>10 DEF Next, Fire

LEMMA PollerTypes ==
  ASSUME FInv, CallbackTypes, [Next]_vars
  PROVE  incoming' <= MaxIncoming /\ poller'.listener # 0 /\ (poller'.waits => poller'.block # <<>>)
<1>1. /\ incoming \in Nat /\ incoming <= MaxIncoming /\ MaxIncoming \in Nat
      /\ poller \in Pollers /\ poller.listener # 0 /\ (poller.waits => poller.block # <<>>)
  BY BoundsAssumption DEF FInv, EventTypes, CallbackTypes
<1>2. poller = [block |-> poller.block, listener |-> poller.listener, waits |-> poller.waits]
  BY <1>1 DEF Pollers
<1>3. poller.listener \in Nat /\ poller.waits \in BOOLEAN
  BY <1>1 DEF Pollers
<1>4. CASE \/ Stays \/ Aborts \/ ServiceStarts \/ \E i \in DOMAIN pool : Mined(i)
  BY <1>1, <1>4 DEF Stays, Aborts, ServiceStarts, Mined, Idle
<1>5. CASE PaymentComes
  BY <1>1, <1>5 DEF PaymentComes, serviceVars
<1>6. CASE NewBlock
  BY <1>1, <1>6 DEF NewBlock, Idle
<1>7. CASE Fired
  BY <1>1, <1>7 DEF Fired, NextEvent, Idle
<1>8. CASE Calls1
  BY <1>1, <1>2, <1>8 DEF Calls1, Firing
<1>9. CASE Returned
  BY <1>1, <1>2, <1>3, <1>9 DEF Returned, NextListener
<1> QED
  BY <1>4, <1>5, <1>6, <1>7, <1>8, <1>9, PollerStep

LEMMA TypesOfCallbacks ==
  ASSUME IInv, FInv, CallbackTypes, InOrder, [Next]_vars
  PROVE  CallbackTypes'
<1>1. /\ callOut \in Seq(Requests) /\ echoes \in Seq(Echoes) /\ told \in [1 .. MaxIncoming -> Nat]
      /\ poller \in Pollers /\ poller.listener \in Nat \ {0}
  BY DEF CallbackTypes, FInv, EventTypes, Pollers
<1>2. callOut' \in Seq(Requests) /\ echoes' \in Seq(Echoes) /\ told' \in [1 .. MaxIncoming -> Nat]
  <2>1. CASE Unheard
    BY <1>1, <2>1 DEF Unheard
  <2>2. CASE TakeCallback
    <3>1. callOut # <<>>
      BY <2>2 DEF TakeCallback
    <3>2. Tail(callOut) \in Seq(Requests) /\ Head(callOut) \in Requests
      BY <1>1, <3>1, OfTail
    <3>3. PICK e : e = [request |-> Head(callOut), call |-> NoCall]
      OBVIOUS
    <3>4. e \in Echoes
      BY <3>2, <3>3 DEF Echoes
    <3>5. Append(echoes, e) \in Seq(Echoes)
      BY <1>1, <3>4
    <3>6. Head(callOut).n \in 1 .. MaxIncoming
      BY <3>2 DEF Requests
    <3>7. [told EXCEPT ![Head(callOut).n] = @ + 1] \in [1 .. MaxIncoming -> Nat]
      BY <1>1, <3>6
    <3> QED
      BY <2>2, <3>2, <3>3, <3>5, <3>7 DEF TakeCallback
  <2>3. CASE ClientRestarts
    BY <1>1, <2>3 DEF ClientRestarts, historyVars
  <2>4. ASSUME NEW l \in DOMAIN listeners, Sends(l)
        PROVE  callOut' \in Seq(Requests) /\ UNCHANGED <<echoes, told>>
    <3>1. Event.kind = "incoming" /\ poller.block # <<>> /\ l = poller.listener
      BY <2>4 DEF Sends, CallListener, Firing
    <3>4. listeners[l] \in Transports
      BY DEF CallbackTypes
    <3>5. listeners[l].sent \in Nat
      BY <3>4 DEF Transports
    <3>2. Event \in Events
      BY <1>1, <3>1, OfTail DEF Event, Pollers
    <3>3. Event.n \in 1 .. MaxIncoming
      BY <3>1, <3>2, EventIsToFire DEF CallbackTypes
    <3> QED
      BY <1>1, <2>4, <3>1, <3>3, <3>5 DEF Sends, Requests
  <2>5. ASSUME NEW i \in DOMAIN echoes, PayBack(i)
        PROVE  echoes' \in Seq(Echoes) /\ UNCHANGED <<callOut, told>>
    <3>1. NewCall("pay") \in Payments
      BY DEF NewCall, Payments, AnyCall, Kinds, IInv, Types
    <3>2. PICK e : e = [echoes[i] EXCEPT !.call = NewCall("pay")]
      OBVIOUS
    <3>3. echoes[i] \in Echoes
      BY <1>1
    <3>4. e \in Echoes
      BY <3>1, <3>2, <3>3 DEF Echoes
    <3>5. echoes' = [echoes EXCEPT ![i] = e] /\ UNCHANGED <<callOut, told>>
      BY <2>5, <3>2 DEF PayBack
    <3> QED
      BY <1>1, <3>4, <3>5
  <2>6. ASSUME NEW i \in DOMAIN echoes, ListenerReturns(i)
        PROVE  echoes' \in Seq(Echoes) /\ UNCHANGED <<callOut, told>>
    BY <1>1, <2>6, OfRemoveAt DEF ListenerReturns, historyVars
  <2> QED
    BY <1>1, <2>1, <2>2, <2>3, <2>4, <2>5, <2>6, CallbacksStep
<1> QED
  BY <1>2, ListenersStep, PollerTypes DEF CallbackTypes

-------------------------------------------------------------------------------
(* Requests, and registrations among them.                                 *)

SameCalls ==
  /\ out' = out /\ DOMAIN pool' = DOMAIN pool /\ UNCHANGED <<life, nextId>>
  /\ \A i \in DOMAIN pool : pool'[i].call = pool[i].call

Requested(kind) ==
  /\ Send(NewCall(kind)) /\ UNCHANGED <<life, pool, in>>
  /\ kind = "register" => nextId = 0

LEMMA CallsStep ==
  ASSUME IInv, [Next]_vars
  PROVE  \/ SameCalls \/ TakeRequest \/ ClientRestarts \/ ServiceStops
         \/ \E kind \in Kinds : Requested(kind)
         \/ \E i \in DOMAIN pool : Run(i) /\ Finished(i)
<1> USE DEF clientVars, queueVars, serviceVars
<1>1. pool \in Seq(Tasks)
  BY DEF IInv, Types
<1>2. CASE UNCHANGED <<out, pool, life, nextId>>
  BY <1>2 DEF SameCalls
<1>3. CASE \/ UNCHANGED vars \/ TakeAnswer \/ TakeUnknownAnswer \/ TakeCallback \/ PaymentComes
           \/ NewBlock \/ EventDone \/ CallListener \/ CallbackTimesOut \/ ServiceStarts
  BY <1>2, <1>3 DEF vars, TakeAnswer, TakeUnknownAnswer, TakeCallback, PaymentComes, NewBlock,
       EventDone, CallListener, CallbackTimesOut, ServiceStarts
<1>4. ASSUME NEW kind \in Kinds, Call(kind) PROVE Requested(kind)
  BY <1>4 DEF Call, Requested
<1>5. ASSUME NEW c, CallTimesOut(c) PROVE SameCalls
  BY <1>5 DEF CallTimesOut, SameCalls
<1>6. ASSUME NEW i \in DOMAIN pool, Run(i), ~Finished(i) PROVE SameCalls
  <2>1. Pay(i) /\ UNCHANGED <<out, life, nextId>>
    BY <1>6 DEF Run, Ask, Unknown, Register, Paid
  <2>2. pool' = [pool EXCEPT ![i].step = "waits"]
    BY <2>1 DEF Pay
  <2>3. DOMAIN pool' = DOMAIN pool
    BY <1>1, <2>2
  <2>4. ASSUME NEW j \in DOMAIN pool PROVE pool'[j].call = pool[j].call
    <3>1. pool[j] \in Tasks
      BY <1>1
    <3>2. pool[j] = [call |-> pool[j].call, step |-> pool[j].step]
      BY <3>1 DEF Tasks
    <3> QED
      BY <1>1, <2>2, <3>2
  <2> QED
    BY <2>1, <2>3, <2>4 DEF SameCalls
<1>7. CASE FireResult
  <2>1. \A t \in Tasks : IsPaid(t).call = t.call
    BY DEF IsPaid, Tasks
  <2>2. pool' = [i \in DOMAIN pool |-> IsPaid(pool[i])] /\ UNCHANGED <<out, life, nextId>>
    BY <1>7 DEF FireResult
  <2>3. \A i \in DOMAIN pool : pool'[i] = IsPaid(pool[i]) /\ pool[i] \in Tasks
    BY <1>1, <2>2
  <2> QED
    BY <2>1, <2>2, <2>3 DEF SameCalls
<1>8. ASSUME NEW l, TakeCallbackAnswer(l) \/ TakeUnknownCallbackAnswer(l) PROVE SameCalls
  BY <1>8 DEF TakeCallbackAnswer, TakeUnknownCallbackAnswer, Takes, SameCalls
<1>9. ASSUME NEW i, PayBack(i) PROVE Requested("pay")
  BY <1>9 DEF PayBack, Requested
<1>10. ASSUME NEW i, ListenerReturns(i) PROVE SameCalls
  BY <1>10 DEF ListenerReturns, SameCalls
<1>11. "pay" \in Kinds
  BY DEF Kinds
<1> QED
  BY <1>3, <1>4, <1>5, <1>6, <1>7, <1>8, <1>9, <1>10, <1>11 DEF Next, Fire

\* A call that is sent is a new one.
LEMMA RequestIsNew ==
  ASSUME IInv, NEW kind \in Kinds
  PROVE  NewCall(kind) \in AnyCall /\ NewCall(kind).kind = kind /\ NewCall(kind) \notin Sent
<1>1. NewCall(kind).life = life /\ NewCall(kind).id = nextId /\ NewCall(kind).kind = kind
  BY DEF NewCall
<1>2. life \in Nat /\ nextId \in Nat
  BY DEF IInv, Types
<1> QED
  BY <1>1, <1>2 DEF IInv, Issued, NewCall, AnyCall

LEMMA RequestSent ==
  ASSUME IInv, NEW kind \in Kinds, Requested(kind)
  PROVE  /\ out' = out \/ out' = Append(out, NewCall(kind))
         /\ pool' = pool /\ life' = life /\ nextId' = nextId + 1
BY DEF Requested, Send

LEMMA SameCallsSame ==
  ASSUME SameCalls PROVE CallsIn(pool') = CallsIn(pool)
<1>1. \A x : x \in CallsIn(pool) <=> \E j \in DOMAIN pool : pool[j].call = x
  BY DEF CallsIn, ToSet
<1>2. \A x : x \in CallsIn(pool') <=> \E j \in DOMAIN pool' : pool'[j].call = x
  BY DEF CallsIn, ToSet
<1> QED
  BY <1>1, <1>2 DEF SameCalls

LEMMA PlacesStep ==
  ASSUME IInv, InOnePlace, [Next]_vars PROVE InOnePlace'
<1>1. /\ out \in Seq(AnyCall) /\ pool \in Seq(Tasks) /\ Len(out) \in Nat /\ Len(pool) \in Nat
      /\ DOMAIN pool = 1 .. Len(pool)
  BY DEF IInv, Types
<1>2. CASE SameCalls
  <2>1. pool' \in Seq(Tasks)
    BY StepInvariant DEF IInv, Types
  <2>2. 1 .. Len(pool') = 1 .. Len(pool)
    BY <1>1, <1>2, <2>1 DEF SameCalls
  <2> QED
    BY <1>1, <1>2, <2>2 DEF SameCalls, InOnePlace
<1>3. CASE ServiceStops
  BY <1>3 DEF ServiceStops, InOnePlace
<1>4. CASE ClientRestarts
  BY <1>4 DEF ClientRestarts, serviceVars, InOnePlace
<1>5. ASSUME NEW kind \in Kinds, Requested(kind) PROVE InOnePlace'
  <2>1. PICK c \in AnyCall : c = NewCall(kind)
    BY RequestIsNew
  <2>2. /\ \A i \in 1 .. Len(out) : out[i] # c
        /\ \A i \in 1 .. Len(pool) : pool[i].call # c
    BY <1>1, <2>1, RequestIsNew DEF Sent, CallsOf, ToSet
  <2>3. pool' = pool /\ (out' = out \/ out' = Append(out, c))
    BY <1>5, <2>1, RequestSent
  <2>4. CASE out' = Append(out, c)
    <3>1. /\ Len(out') = Len(out) + 1 /\ out'[Len(out) + 1] = c
          /\ \A i \in 1 .. Len(out) : out'[i] = out[i]
      BY <1>1, <2>4
    <3>2. \A i \in 1 .. Len(out') : i = Len(out) + 1 \/ i \in 1 .. Len(out)
      BY <1>1, <3>1
    <3> QED
      BY <2>2, <2>3, <3>1, <3>2 DEF InOnePlace
  <2> QED
    BY <2>3, <2>4 DEF InOnePlace
<1>6. CASE TakeRequest
  <2>1. PICK t : t = [call |-> Head(out), step |-> "begin"]
    OBVIOUS
  <2>2. out # <<>> /\ out' = Tail(out) /\ pool' = Append(pool, t)
    BY <1>6, <2>1 DEF TakeRequest
  <2>3. /\ Len(out') = Len(out) - 1 /\ Len(out) > 0 /\ t.call = out[1]
        /\ \A i \in 1 .. Len(out') : out'[i] = out[i + 1] /\ i + 1 \in 1 .. Len(out)
    BY <1>1, <2>1, <2>2
  <2>4. t \in Tasks
    <3>1. Head(out) \in AnyCall
      BY <1>1, <2>2, OfTail
    <3> QED
      BY <2>1, <3>1 DEF Tasks
  <2>5. /\ Len(pool') = Len(pool) + 1 /\ pool'[Len(pool) + 1] = t
        /\ \A i \in 1 .. Len(pool) : pool'[i] = pool[i]
    BY <1>1, <2>2, <2>4
  <2>6. \A i \in 1 .. Len(pool') : i = Len(pool) + 1 \/ i \in 1 .. Len(pool)
    BY <1>1, <2>5
  <2>7. \A i, k \in 1 .. Len(out') : out'[i] = out'[k] => i = k
    <3> SUFFICES ASSUME NEW i \in 1 .. Len(out'), NEW k \in 1 .. Len(out'), out'[i] = out'[k]
                 PROVE  i = k
      OBVIOUS
    <3>1. i + 1 = k + 1
      BY <2>3 DEF InOnePlace
    <3> QED
      BY <3>1
  <2>8. 1 \in 1 .. Len(out)
    BY <1>1, <2>3
  <2>9. \A i, k \in 1 .. Len(pool') : pool'[i].call = pool'[k].call => i = k
    BY <2>3, <2>5, <2>6, <2>8 DEF InOnePlace
  <2>10. \A i \in 1 .. Len(out'), k \in 1 .. Len(pool') : out'[i] # pool'[k].call
    <3> SUFFICES ASSUME NEW i \in 1 .. Len(out'), NEW k \in 1 .. Len(pool')
                 PROVE  out'[i] # pool'[k].call
      OBVIOUS
    <3>1. out'[i] = out[i + 1] /\ i + 1 \in 1 .. Len(out) /\ i + 1 # 1
      BY <1>1, <2>3
    <3> QED
      BY <2>3, <2>5, <2>6, <2>8, <3>1 DEF InOnePlace
  <2> QED
    BY <2>7, <2>9, <2>10 DEF InOnePlace
<1>7. ASSUME NEW i \in DOMAIN pool, Run(i), Finished(i) PROVE InOnePlace'
  <2>1. out' = out /\ pool' = RemoveAt(pool, i)
    BY <1>7 DEF Run, Finished
  <2>2. /\ Len(pool') = Len(pool) - 1 /\ i \in 1 .. Len(pool)
        /\ \A j \in 1 .. i - 1 : pool'[j] = pool[j]
        /\ \A j \in i .. Len(pool) - 1 : pool'[j] = pool[j + 1]
    <3>1. PICK r : r = RemoveAt(pool, i)
      OBVIOUS
    <3>2. i \in 1 .. Len(pool)
      BY <1>1
    <3>3. /\ Len(r) = Len(pool) - 1
          /\ \A j \in 1 .. i - 1 : r[j] = pool[j]
          /\ \A j \in i .. Len(pool) - 1 : r[j] = pool[j + 1]
      BY <1>1, <3>1, <3>2, RemovedOne
    <3> QED
      BY <2>1, <3>1, <3>2, <3>3
  <2>3. ASSUME NEW j \in 1 .. Len(pool')
        PROVE  \E x \in 1 .. Len(pool) : pool'[j] = pool[x] /\ ((j < i /\ x = j) \/ (j >= i /\ x = j + 1))
    <3>1. j \in Int /\ i \in Int
      BY <2>2
    <3>2. CASE j < i
      <4>1. j \in 1 .. i - 1 /\ j \in 1 .. Len(pool)
        BY <1>1, <2>2, <3>1, <3>2
      <4>2. pool'[j] = pool[j]
        BY <2>2, <4>1
      <4>3. j \in 1 .. Len(pool) /\ ((j < i /\ j = j) \/ (j >= i /\ j = j + 1))
        BY <3>2, <4>1
      <4> QED
        BY <4>2, <4>3
    <3>3. CASE j >= i
      <4>1. j \in i .. Len(pool) - 1 /\ j + 1 \in 1 .. Len(pool)
        BY <1>1, <2>2, <3>1, <3>3
      <4> QED
        BY <2>2, <3>3, <4>1
    <3> QED
      BY <3>1, <3>2, <3>3
  <2>4. ASSUME NEW j \in 1 .. Len(pool'), NEW k \in 1 .. Len(pool'), pool'[j].call = pool'[k].call
        PROVE  j = k
    <3>1. PICK x \in 1 .. Len(pool) : pool'[j] = pool[x] /\ ((j < i /\ x = j) \/ (j >= i /\ x = j + 1))
      BY <2>3
    <3>2. PICK y \in 1 .. Len(pool) : pool'[k] = pool[y] /\ ((k < i /\ y = k) \/ (k >= i /\ y = k + 1))
      BY <2>3
    <3>3. x = y
      BY <2>4, <3>1, <3>2 DEF InOnePlace
    <3> QED
      BY <1>1, <2>2, <3>1, <3>2, <3>3
  <2>5. \A o \in 1 .. Len(out), k \in 1 .. Len(pool') : out[o] # pool'[k].call
    BY <2>3 DEF InOnePlace
  <2> QED
    BY <2>1, <2>4, <2>5 DEF InOnePlace
<1> QED
  BY <1>2, <1>3, <1>4, <1>5, <1>6, <1>7, CallsStep

LEMMA RegistrationsStep ==
  ASSUME IInv, InOnePlace, CallbackTypes, Registrations, [Next]_vars PROVE Registrations'
<1> DEFINE g == Cardinality(ToRegister)
           bound == IF nextId = 0 THEN life ELSE life + 1
<1>1. /\ out \in Seq(AnyCall) /\ pool \in Seq(Tasks) /\ life \in Nat /\ nextId \in Nat
      /\ IsFiniteSet(ToRegister) /\ g \in Nat /\ Len(listeners) \in Nat
      /\ Len(listeners) + g <= bound /\ bound >= life
  BY FS_CardinalityType DEF IInv, Types, Registrations, CallbackTypes
<1>2. ASSUME NEW set, set = ToRegister', set \subseteq ToRegister
      PROVE  IsFiniteSet(ToRegister') /\ Cardinality(ToRegister') \in Nat /\ Cardinality(ToRegister') <= g
  BY <1>1, <1>2, FS_Subset, FS_CardinalityType
<1>3. CASE ServiceStops
  <2>1. ToRegister' = {} /\ listeners' = <<>> /\ UNCHANGED <<life, nextId>>
    BY <1>3 DEF ServiceStops, clientVars, ToRegister, CallsIn, ToSet
  <2>2. IsFiniteSet(ToRegister') /\ Cardinality(ToRegister') = 0
    BY <2>1, FS_EmptySet
  <2> QED
    BY <1>1, <2>1, <2>2 DEF Registrations
<1>4. ASSUME NEW i \in DOMAIN pool, Run(i), Finished(i)
      PROVE  /\ ToRegister' \subseteq ToRegister /\ UNCHANGED <<out, life, nextId>>
             /\ pool[i].call \in CallsIn(pool) /\ pool[i].call \notin CallsIn(pool')
  <2> DEFINE c == pool[i].call
  <2>1. pool' = RemoveAt(pool, i) /\ UNCHANGED <<out, life, nextId>>
    BY <1>4 DEF Run, Finished, clientVars
  <2>2. ToSet(pool') \subseteq ToSet(pool) /\ pool' \in Seq(Tasks)
    BY <1>1, <2>1, OfRemoveAt
  <2>3. CallsIn(pool') \subseteq CallsIn(pool) /\ c \in CallsIn(pool)
    BY <2>2 DEF CallsIn, ToSet
  <2>4. ToRegister' \subseteq ToRegister
    BY <2>1, <2>3 DEF ToRegister
  <2>5. c \notin CallsIn(pool')
    <3>1. PICK r : r = RemoveAt(pool, i)
      OBVIOUS
    <3>2. i \in 1 .. Len(pool)
      BY <1>1
    <3>3. /\ Len(r) = Len(pool) - 1 /\ r \in Seq(Tasks)
          /\ \A j \in 1 .. i - 1 : r[j] = pool[j]
          /\ \A j \in i .. Len(pool) - 1 : r[j] = pool[j + 1]
      BY <1>1, <3>1, <3>2, RemovedOne
    <3>4. ASSUME NEW j \in 1 .. Len(r) PROVE r[j].call # c
      <4>1. j \in Int /\ i \in Int /\ Len(pool) \in Nat
        BY <1>1
      <4>2. CASE j < i
        <5>1. j \in 1 .. i - 1 /\ j \in 1 .. Len(pool) /\ j # i
          BY <3>2, <3>3, <4>1, <4>2
        <5>2. r[j] = pool[j]
          BY <3>3, <5>1
        <5> QED
          BY <3>2, <5>1, <5>2 DEF InOnePlace
      <4>3. CASE j >= i
        <5>1. j \in i .. Len(pool) - 1 /\ j + 1 \in 1 .. Len(pool) /\ j + 1 # i
          BY <3>2, <3>3, <4>1, <4>3
        <5>2. r[j] = pool[j + 1]
          BY <3>3, <5>1
        <5> QED
          BY <3>2, <5>1, <5>2 DEF InOnePlace
      <4> QED
        BY <4>1, <4>2, <4>3
    <3> QED
      BY <2>1, <3>1, <3>3, <3>4 DEF CallsIn, ToSet
  <2> QED
    BY <2>1, <2>3, <2>4, <2>5
<1>5. ASSUME NEW i \in DOMAIN pool, Run(i), Register(i), Len(listeners') = Len(listeners) + 1
      PROVE  Registrations'
  <2> DEFINE c == pool[i].call
  <2>1. c.kind = "register" /\ Finished(i)
    BY <1>5 DEF Register
  <2>2. /\ ToRegister' \subseteq ToRegister /\ UNCHANGED <<out, life, nextId>>
        /\ c \in CallsIn(pool) /\ c \notin CallsIn(pool')
    BY <1>4, <1>5, <2>1
  <2>3. c \notin ToSet(out)
    BY <1>1 DEF InOnePlace, ToSet
  <2> HIDE DEF c
  <2>4. c \in ToRegister /\ ToRegister' \subseteq ToRegister \ {c}
    BY <2>1, <2>2, <2>3 DEF ToRegister
  <2>5. IsFiniteSet(ToRegister \ {c}) /\ Cardinality(ToRegister \ {c}) = g - 1
    BY <1>1, <2>4, FS_RemoveElement
  <2>6. PICK set : set = ToRegister'
    OBVIOUS
  <2>7. IsFiniteSet(set) /\ Cardinality(set) <= g - 1
    BY <2>4, <2>5, <2>6, FS_Subset
  <2>8. Cardinality(set) \in Nat
    BY <2>7, FS_CardinalityType
  <2> QED
    BY <1>1, <1>5, <2>2, <2>6, <2>7, <2>8 DEF Registrations
<1>6. ASSUME Len(listeners') = Len(listeners), ToRegister' \subseteq ToRegister,
             life' >= life, life' \in Nat,
             bound <= IF nextId' = 0 THEN life' ELSE life' + 1
      PROVE  Registrations'
  <2>1. PICK set : set = ToRegister'
    OBVIOUS
  <2>2. IsFiniteSet(set) /\ Cardinality(set) \in Nat /\ Cardinality(set) <= g
    BY <1>1, <1>2, <1>6, <2>1
  <2>3. Len(listeners') + Cardinality(set) <= bound
    BY <1>1, <1>6, <2>2
  <2>4. Len(listeners') \in Nat /\ bound \in Nat
    BY <1>1, <1>6
  <2>5. Len(listeners') + Cardinality(set) <= IF nextId' = 0 THEN life' ELSE life' + 1
    BY <1>6, <2>2, <2>3, <2>4
  <2> QED
    BY <2>1, <2>2, <2>5 DEF Registrations
<1>7. ASSUME Len(listeners') = Len(listeners), NEW i \in DOMAIN pool, Run(i), Finished(i)
      PROVE  Registrations'
  BY <1>1, <1>4, <1>6, <1>7
<1>8. CASE Len(listeners') = Len(listeners) /\ SameCalls
  <2>1. ToRegister' = ToRegister /\ UNCHANGED <<life, nextId>>
    BY <1>8, SameCallsSame DEF SameCalls, ToRegister
  <2> QED
    BY <1>1, <1>6, <1>8, <2>1
<1>9. CASE Len(listeners') = Len(listeners) /\ ClientRestarts
  <2>1. ToRegister' = ToRegister /\ life' = life + 1
    BY <1>9 DEF ClientRestarts, serviceVars, ToRegister
  <2> QED
    BY <1>1, <1>6, <1>9, <2>1
<1>10. CASE Len(listeners') = Len(listeners) /\ TakeRequest
  <2>1. PICK t : t = [call |-> Head(out), step |-> "begin"]
    OBVIOUS
  <2>2. /\ out # <<>> /\ out' = Tail(out) /\ pool' = Append(pool, t)
        /\ UNCHANGED <<life, nextId>>
    BY <1>10, <2>1 DEF TakeRequest, clientVars
  <2>3. ToSet(out) = ToSet(out') \cup {Head(out)} /\ Head(out) \in AnyCall
    BY <1>1, <2>2, HeadAndTail
  <2>4. t \in Tasks /\ t.call = Head(out)
    BY <2>1, <2>3 DEF Tasks
  <2>5. ToSet(pool') = ToSet(pool) \cup {t}
    BY <1>1, <2>2, <2>4, OfAppend
  <2>6. CallsIn(pool') = CallsIn(pool) \cup {Head(out)}
    BY <2>4, <2>5 DEF CallsIn
  <2>7. ToRegister' = ToRegister
    BY <2>3, <2>6 DEF ToRegister
  <2> QED
    BY <1>1, <1>6, <1>10, <2>2, <2>7
<1>11. ASSUME Len(listeners') = Len(listeners), NEW kind \in Kinds, Requested(kind)
       PROVE  Registrations'
  <2>1. PICK c \in AnyCall : c = NewCall(kind) /\ c.kind = kind
    BY RequestIsNew
  <2>2. /\ pool' = pool /\ life' = life /\ nextId' = nextId + 1
        /\ out' = out \/ out' = Append(out, c)
    BY <1>11, <2>1, RequestSent
  <2>3. ToSet(out') \subseteq ToSet(out) \cup {c}
    BY <1>1, <2>2, OfAppend
  <2>4. CASE kind # "register"
    <3>1. ToRegister' \subseteq ToRegister
      BY <2>1, <2>2, <2>3, <2>4 DEF ToRegister
    <3> QED
      BY <1>1, <1>6, <1>11, <2>2, <3>1
  <2>5. CASE kind = "register"
    <3>1. nextId = 0
      BY <1>11, <2>5 DEF Requested
    <3>2. ToRegister' \subseteq ToRegister \cup {c}
      BY <2>2, <2>3 DEF ToRegister
    <3>3. IsFiniteSet(ToRegister \cup {c}) /\ Cardinality(ToRegister \cup {c}) <= g + 1
      <4>1. /\ IsFiniteSet(ToRegister \cup {c})
            /\ Cardinality(ToRegister \cup {c}) = IF c \in ToRegister THEN g ELSE g + 1
        BY <1>1, FS_AddElement
      <4> QED
        BY <1>1, <4>1
    <3>4. PICK set : set = ToRegister'
      OBVIOUS
    <3>5. Cardinality(ToRegister \cup {c}) \in Nat
      BY <3>3, FS_CardinalityType
    <3>6. IsFiniteSet(set) /\ Cardinality(set) <= Cardinality(ToRegister \cup {c})
      BY <3>2, <3>3, <3>4, FS_Subset
    <3>7. Cardinality(set) \in Nat
      BY <3>6, FS_CardinalityType
    <3>8. Len(listeners') + Cardinality(set) <= life' + 1 /\ nextId' # 0
      BY <1>1, <1>11, <2>2, <3>1, <3>3, <3>5, <3>6, <3>7
    <3> QED
      BY <3>4, <3>6, <3>8 DEF Registrations
  <2> QED
    BY <2>4, <2>5
<1>12. ASSUME Len(listeners') = Len(listeners) PROVE Registrations'
  BY <1>3, <1>7, <1>8, <1>9, <1>10, <1>11, <1>12, CallsStep
<1> QED
  BY <1>3, <1>5, <1>12, ListenersStep

-------------------------------------------------------------------------------
(* The poller waits for a listener that waits for the poller.              *)

\* Where the client's callbacks with it come from.
LEMMA EchoesStep ==
  ASSUME CallbackTypes, [Next]_vars, NEW e \in ToSet(echoes'), e.call # NoCall
  PROVE  \/ e \in ToSet(echoes)
         \/ /\ e.call = NewCall("pay") /\ UNCHANGED <<pool, in>>
            /\ \E d \in ToSet(echoes) : d.request = e.request
<1>1. echoes \in Seq(Echoes) /\ callOut \in Seq(Requests)
  BY DEF CallbackTypes
<1>2. CASE Unheard \/ \E l \in DOMAIN listeners : Sends(l)
  BY <1>2 DEF Unheard, Sends
<1>3. CASE TakeCallback
  <2>1. PICK d : d = [request |-> Head(callOut), call |-> NoCall]
    OBVIOUS
  <2>2. callOut # <<>> /\ echoes' = Append(echoes, d)
    BY <1>3, <2>1 DEF TakeCallback
  <2>3. d \in Echoes
    <3>1. Head(callOut) \in Requests
      BY <1>1, <2>2, OfTail
    <3> QED
      BY <2>1, <3>1 DEF Echoes
  <2>4. ToSet(echoes') = ToSet(echoes) \cup {d}
    BY <1>1, <2>2, <2>3, OfAppend
  <2> QED
    BY <2>1, <2>4
<1>4. CASE ClientRestarts
  BY <1>4 DEF ClientRestarts, ToSet
<1>5. ASSUME NEW i \in DOMAIN echoes, PayBack(i)
      PROVE  \/ e \in ToSet(echoes)
             \/ /\ e.call = NewCall("pay") /\ UNCHANGED <<pool, in>>
                /\ \E d \in ToSet(echoes) : d.request = e.request
  <2>1. PICK d : d = [echoes[i] EXCEPT !.call = NewCall("pay")]
    OBVIOUS
  <2>2. echoes' = [echoes EXCEPT ![i] = d] /\ UNCHANGED <<pool, in>>
    BY <1>5, <2>1 DEF PayBack, serviceVars
  <2>3. echoes[i] \in Echoes /\ echoes[i] \in ToSet(echoes)
    BY <1>1 DEF ToSet
  <2>4. d.call = NewCall("pay") /\ d.request = echoes[i].request
    BY <2>1, <2>3 DEF Echoes
  <2>5. e = d \/ e \in ToSet(echoes)
    BY <1>1, <2>2 DEF ToSet
  <2> QED
    BY <2>2, <2>3, <2>4, <2>5
<1>6. ASSUME NEW i \in DOMAIN echoes, ListenerReturns(i) PROVE e \in ToSet(echoes)
  BY <1>1, <1>6, OfRemoveAt DEF ListenerReturns
<1> QED
  BY <1>2, <1>3, <1>4, <1>5, <1>6, CallbacksStep

\* A thread of the pool is woken by the poller only.
LEMMA PaidStep ==
  ASSUME IInv, [Next]_vars, NEW t \in ToSet(pool'), t.step = "paid"
  PROVE  \/ Firing
         \/ \E u \in ToSet(pool) : u.call = t.call /\ u.step = "paid"
<1> USE DEF serviceVars
<1>1. pool \in Seq(Tasks)
  BY DEF IInv, Types
<1>2. CASE pool' = pool
  BY <1>2
<1>3. CASE FireResult
  BY <1>3 DEF FireResult
<1>4. CASE TakeRequest
  <2>1. PICK d : d = [call |-> Head(out), step |-> "begin"]
    OBVIOUS
  <2>2. out # <<>> /\ pool' = Append(pool, d)
    BY <1>4, <2>1 DEF TakeRequest
  <2>3. d \in Tasks
    <3>1. Head(out) \in AnyCall
      BY <2>2, OfTail DEF IInv, Types
    <3> QED
      BY <2>1, <3>1 DEF Tasks
  <2>4. ToSet(pool') = ToSet(pool) \cup {d}
    BY <1>1, <2>2, <2>3, OfAppend
  <2> QED
    BY <2>1, <2>4
<1>5. ASSUME NEW i \in DOMAIN pool, Run(i)
      PROVE  \E u \in ToSet(pool) : u.call = t.call /\ u.step = "paid"
  <2>1. CASE Finished(i)
    BY <1>1, <2>1, OfRemoveAt DEF Finished
  <2>2. CASE pool' = [pool EXCEPT ![i].step = "waits"]
    <3>1. PICK d : d = [pool[i] EXCEPT !.step = "waits"]
      OBVIOUS
    <3>2. pool' = [pool EXCEPT ![i] = d]
      BY <2>2, <3>1
    <3>3. pool[i] \in Tasks
      BY <1>1
    <3>4. d.step = "waits"
      BY <3>1, <3>3 DEF Tasks
    <3>5. t = d \/ t \in ToSet(pool)
      BY <1>1, <3>2 DEF ToSet
    <3> QED
      BY <3>4, <3>5
  <2> QED
    BY <1>5, <2>1, <2>2 DEF Run, Ask, Unknown, Register, Pay, Paid
<1>6. CASE ServiceStops
  BY <1>6 DEF ServiceStops, ToSet
<1>7. CASE \/ UNCHANGED vars \/ TakeAnswer \/ TakeUnknownAnswer \/ TakeCallback \/ PaymentComes
           \/ NewBlock \/ EventDone \/ CallListener \/ CallbackTimesOut \/ ServiceStarts \/ ClientRestarts
  <2>1. pool' = pool
    BY <1>7 DEF vars, TakeAnswer, TakeUnknownAnswer, TakeCallback, PaymentComes, NewBlock,
         EventDone, CallListener, CallbackTimesOut, ServiceStarts, ClientRestarts
  <2> QED
    BY <1>2, <2>1
<1>8. ASSUME NEW kind, Call(kind) PROVE pool' = pool
  BY <1>8 DEF Call
<1>9. ASSUME NEW c, CallTimesOut(c) PROVE pool' = pool
  BY <1>9 DEF CallTimesOut
<1>10. ASSUME NEW l, TakeCallbackAnswer(l) \/ TakeUnknownCallbackAnswer(l) PROVE pool' = pool
  BY <1>10 DEF TakeCallbackAnswer, TakeUnknownCallbackAnswer, Takes
<1>11. ASSUME NEW i, PayBack(i) \/ ListenerReturns(i) PROVE pool' = pool
  BY <1>11 DEF PayBack, ListenerReturns
<1> QED
  BY <1>2, <1>3, <1>4, <1>5, <1>6, <1>7, <1>8, <1>9, <1>10, <1>11 DEF Next, Fire

\* A payment is answered by a thread that was woken.
LEMMA AnsweredStep ==
  ASSUME IInv, [Next]_vars, NEW c \in CallsAnswered(in'), c.kind = "pay"
  PROVE  \/ c \in CallsAnswered(in)
         \/ \E u \in ToSet(pool) : u.call = c /\ u.step = "paid"
<1> USE DEF queueVars
<1>1. in \in Seq(Answers) /\ pool \in Seq(Tasks)
  BY DEF IInv, Types
<1>2. CASE in' = in
  BY <1>2
<1>3. CASE TakeAnswer \/ TakeUnknownAnswer
  <2>1. in # <<>> /\ (in' = Tail(in) \/ in' = <<>>)
    BY <1>3 DEF TakeAnswer, TakeUnknownAnswer
  <2>2. ToSet(Tail(in)) \subseteq ToSet(in) /\ ToSet(<<>>) = {}
    BY <1>1, <2>1, OfTail DEF ToSet
  <2> QED
    BY <2>1, <2>2 DEF CallsAnswered
<1>4. ASSUME NEW i \in DOMAIN pool, Run(i)
      PROVE  \/ c \in CallsAnswered(in)
             \/ \E u \in ToSet(pool) : u.call = c /\ u.step = "paid"
  <2>1. PICK m : m = [id |-> pool[i].call.id, of |-> pool[i].call]
    OBVIOUS
  <2>2. pool[i] \in ToSet(pool) /\ pool[i] \in Tasks
    BY <1>1 DEF ToSet
  <2>3. pool[i].call \in AnyCall
    BY <2>2 DEF Tasks
  <2>4. m \in Answers
    BY <2>1, <2>3 DEF Answers, AnyCall
  <2>5. \/ in' = in
        \/ /\ in' = Append(in, m)
           /\ pool[i].call.kind # "pay" \/ pool[i].step = "paid"
    BY <1>4, <2>1 DEF Run, Ask, Unknown, Register, Pay, Paid, Reply
  <2>6. ToSet(Append(in, m)) = ToSet(in) \cup {m}
    BY <1>1, <2>4, OfAppend
  <2>7. CASE in' = Append(in, m) /\ (pool[i].call.kind # "pay" \/ pool[i].step = "paid")
    <3>1. CallsAnswered(in') = CallsAnswered(in) \cup {pool[i].call}
      BY <2>1, <2>6, <2>7 DEF CallsAnswered
    <3> QED
      BY <2>2, <2>7, <3>1
  <2> QED
    BY <2>5, <2>7
<1>5. CASE ClientRestarts
  BY <1>5 DEF ClientRestarts, CallsAnswered, ToSet
<1>6. CASE \/ UNCHANGED vars \/ TakeRequest \/ TakeCallback \/ PaymentComes \/ NewBlock
           \/ FireResult \/ EventDone \/ CallListener \/ CallbackTimesOut \/ ServiceStarts \/ ServiceStops
  <2>1. in' = in
    BY <1>6 DEF vars, TakeRequest, TakeCallback, PaymentComes, NewBlock, FireResult,
         EventDone, CallListener, CallbackTimesOut, ServiceStarts, ServiceStops
  <2> QED
    BY <1>2, <2>1
<1>7. ASSUME NEW kind, Call(kind) PROVE in' = in
  BY <1>7 DEF Call
<1>8. ASSUME NEW d, CallTimesOut(d) PROVE in' = in
  BY <1>8 DEF CallTimesOut
<1>9. ASSUME NEW l, TakeCallbackAnswer(l) \/ TakeUnknownCallbackAnswer(l) PROVE in' = in
  BY <1>9 DEF TakeCallbackAnswer, TakeUnknownCallbackAnswer, Takes
<1>10. ASSUME NEW i, PayBack(i) \/ ListenerReturns(i) PROVE in' = in
  BY <1>10 DEF PayBack, ListenerReturns
<1> QED
  BY <1>2, <1>3, <1>4, <1>5, <1>6, <1>7, <1>8, <1>9, <1>10 DEF Next, Fire

LEMMA SelfWaitStep ==
  ASSUME IInv, FInv, CallbackTypes, InOrder, SelfWait, [Next]_vars PROVE SelfWait'
<1> SUFFICES ASSUME NEW e \in ToSet(echoes'), IsWaitedFor(e)', e.call # NoCall
             PROVE  /\ \A t \in ToSet(pool') : t.call = e.call => t.step # "paid"
                    /\ e.call \notin CallsAnswered(in')
  BY DEF SelfWait
<1>1. poller'.waits /\ e.request.listener = poller'.listener /\ Head(poller'.block) = Incoming(e.request.n)
  BY DEF IsWaitedFor, Event
<1>2. PICK d \in ToSet(echoes) : /\ d.request = e.request
                                 /\ \/ d = e
                                    \/ e.call = NewCall("pay") /\ UNCHANGED <<pool, in>>
  BY EchoesStep
<1>3. d \in Echoes /\ d.request.listener \in Nat /\ d.request.n \in Nat
  <2>1. d \in Echoes
    BY OfSeq DEF CallbackTypes
  <2> QED
    BY <2>1, BoundsAssumption DEF Echoes, Requests
<1>4. /\ poller = [block |-> poller.block, listener |-> poller.listener, waits |-> poller.waits]
      /\ poller.listener \in Nat /\ poller.listener # 0
  BY DEF FInv, EventTypes, Pollers, CallbackTypes
<1>5. poller' = poller
  <2>1. CASE Calls1
    <3>1. /\ ~poller.waits /\ poller.block # <<>> /\ poller'.block = poller.block
          /\ poller'.listener = poller.listener
      BY <1>4, <2>1 DEF Calls1, Firing
    <3>2. Event = Incoming(d.request.n)
      BY <1>1, <1>2, <3>1 DEF Event
    <3>3. Event.kind = "incoming" /\ Event.n = d.request.n
      BY <3>2 DEF Incoming
    <3>4. IsToFire(1, d.request.n)
      BY <3>1, <3>3, EventIsToFire
    <3>5. Reach(1) = poller.listener - 1 /\ poller.listener - 1 \in Nat
      BY <1>4, <3>1 DEF Reach, LastCalled
    <3>6. HeardTo(d.request.n, poller.listener - 1)
      BY <1>3, <3>4, <3>5 DEF InOrder
    <3>7. d.request.listener <= poller.listener - 1
      BY <3>6 DEF HeardTo
    <3> QED
      BY <1>1, <1>2, <1>3, <1>4, <3>1, <3>7
  <2>2. ~Aborts /\ ~NewBlock /\ ~Fired /\ ~Returned
    <3>1. ~Aborts /\ ~NewBlock /\ ~Fired
      BY <1>1 DEF Aborts, NewBlock, Fired, NextEvent, Idle
    <3>2. ~Returned
      BY <1>1, <1>4 DEF Returned, NextListener
    <3> QED
      BY <3>1, <3>2
  <2> QED
    BY <2>1, <2>2, PollerStep DEF Stays, PaymentComes, serviceVars, ServiceStarts, Mined
<1>6. ~Firing /\ IsWaitedFor(e)
  BY <1>1, <1>5 DEF Firing, IsWaitedFor, Event
<1>7. CASE d = e
  <2>1. e.call.kind = "pay"
    BY <1>3, <1>7 DEF Echoes, Payments
  <2>2. /\ \A t \in ToSet(pool) : t.call = e.call => t.step # "paid"
        /\ e.call \notin CallsAnswered(in)
    BY <1>6, <1>7 DEF SelfWait
  <2> QED
    BY <1>6, <2>1, <2>2, PaidStep, AnsweredStep
<1>8. CASE e.call = NewCall("pay") /\ UNCHANGED <<pool, in>>
  <2>1. e.call \notin Sent
    BY <1>8, RequestIsNew DEF Kinds
  <2> QED
    BY <1>8, <2>1 DEF Sent, CallsOf, CallsAnswered
<1> QED
  BY <1>2, <1>7, <1>8

-------------------------------------------------------------------------------
(* What the client has heard of, and is to hear of.                        *)

LEMMA LifeStep == ASSUME IInv, [Next]_vars PROVE life' = life \/ ClientRestarts
BY CallsStep DEF SameCalls, TakeRequest, ServiceStops, Requested, Run, clientVars

\* The poller calls the next listener, which has heard nothing of this event.
LEMMA NextIsUnheard ==
  ASSUME FInv, CallbackTypes, InOrder, NEW l \in DOMAIN listeners, Sends(l)
  PROVE  /\ l \in Nat /\ l > 0 /\ l = poller.listener /\ Event.n \in Nat
         /\ Event.n \in 1 .. incoming /\ Event.n \in 1 .. MaxIncoming
         /\ IsToFire(1, Event.n) /\ HeardTo(Event.n, l - 1)
         /\ Reach(1) = l - 1 /\ ~poller.waits /\ poller'.waits /\ poller.block # <<>>
<1>1. /\ Event.kind = "incoming" /\ poller.block # <<>> /\ l = poller.listener /\ ~poller.waits
      /\ poller' = [poller EXCEPT !.waits = TRUE]
  BY DEF Sends, CallListener, Firing
<1>2. /\ poller = [block |-> poller.block, listener |-> poller.listener, waits |-> poller.waits]
      /\ poller.listener \in Nat /\ poller.listener # 0
  BY DEF FInv, EventTypes, Pollers, CallbackTypes
<1>3. /\ Event.n \in Nat /\ IsToFire(1, Event.n)
      /\ Event.n \in 1 .. incoming /\ Event.n \in 1 .. MaxIncoming
  BY <1>1, EventIsToFire
<1>4. Reach(1) = l - 1 /\ l - 1 \in Nat /\ l > 0
  BY <1>1, <1>2 DEF Reach, LastCalled
<1>5. HeardTo(Event.n, l - 1)
  BY <1>3, <1>4 DEF InOrder
<1>6. poller'.waits
  BY <1>1, <1>2
<1> QED
  BY <1>1, <1>2, <1>3, <1>4, <1>5, <1>6

LEMMA ByListenerStep ==
  ASSUME IInv, FInv, CallbackTypes, Registrations, InOrder, ByListener, [Next]_vars
  PROVE  ByListener'
<1>1. /\ callOut \in Seq(Requests) /\ Len(callOut) \in Nat /\ life \in Nat
      /\ told \in [1 .. MaxIncoming -> Nat] /\ MaxIncoming \in Nat
      /\ \A i \in 1 .. Len(callOut) : callOut[i] \in Requests
  BY BoundsAssumption DEF CallbackTypes, IInv, Types
<1>2. \A r \in Requests : r.n \in 1 .. MaxIncoming /\ r.n \in Nat /\ r.listener \in Nat
  BY <1>1 DEF Requests
<1>3. \A n \in 1 .. MaxIncoming : told[n] \in Nat /\ told[n] <= life + 1
  BY <1>1 DEF ByListener, ToldOnce
<1>4. life' = life \/ life' = life + 1
  BY LifeStep DEF ClientRestarts
<1>5. CASE UNCHANGED <<callOut, told>>
  <2>1. \A i, n, l \in Nat : IsComing(i, n, l)' => IsComing(i, n, l)
    BY <1>5 DEF IsComing
  <2>2. \A i, n, l \in Nat : IsComing(i, n, l)' => told'[n] < l /\ l <= life' + 1
    BY <1>1, <1>4, <1>5, <2>1 DEF ByListener
  <2>3. ToldOnce'
    BY <1>1, <1>3, <1>4, <1>5 DEF ToldOnce
  <2> QED
    BY <2>1, <2>2, <2>3 DEF ByListener
<1>6. CASE TakeCallback
  <2>1. PICK h : h = Head(callOut)
    OBVIOUS
  <2>2. /\ callOut # <<>> /\ callOut' = Tail(callOut) /\ told' = [told EXCEPT ![h.n] = @ + 1]
        /\ life' = life
    BY <1>6, <2>1 DEF TakeCallback
  <2>3. /\ h = callOut[1] /\ h \in Requests /\ Len(callOut) > 0
        /\ Len(callOut') = Len(callOut) - 1 /\ \A i \in 1 .. Len(callOut') : callOut'[i] = callOut[i + 1]
    BY <1>1, <2>1, <2>2
  <2>4. IsComing(1, h.n, h.listener) /\ h.n \in 1 .. MaxIncoming /\ h.n \in Nat /\ h.listener \in Nat
    BY <1>1, <1>2, <2>3 DEF IsComing
  <2>5. told[h.n] < h.listener /\ h.listener <= life + 1
    BY <2>4 DEF ByListener
  <2>6. \A n \in 1 .. MaxIncoming : told'[n] = IF n = h.n THEN told[n] + 1 ELSE told[n]
    BY <1>1, <2>2
  <2>7. ASSUME NEW i \in Nat, NEW n \in Nat, NEW l \in Nat, IsComing(i, n, l)'
        PROVE  IsComing(i + 1, n, l) /\ i > 0 /\ n \in 1 .. MaxIncoming
    <3>1. i \in 1 .. Len(callOut') /\ callOut'[i].n = n /\ callOut'[i].listener = l
      BY <2>7 DEF IsComing
    <3>2. i + 1 \in 1 .. Len(callOut) /\ callOut'[i] = callOut[i + 1] /\ i > 0
      BY <1>1, <2>3, <3>1
    <3>3. n \in 1 .. MaxIncoming
      BY <1>1, <1>2, <3>1, <3>2
    <3> QED
      BY <3>1, <3>2, <3>3 DEF IsComing
  <2>8. ASSUME NEW i \in Nat, NEW n \in Nat, NEW l \in Nat, IsComing(i, n, l)'
        PROVE  told'[n] < l /\ l <= life' + 1
    <3>1. IsComing(i + 1, n, l) /\ i + 1 > 1 /\ n \in 1 .. MaxIncoming /\ i + 1 \in Nat
      BY <2>7, <2>8
    <3>2. told[n] < l /\ l <= life + 1
      BY <3>1 DEF ByListener
    <3>3. CASE n = h.n
      <4>1. h.listener < l
        BY <2>4, <3>1, <3>3 DEF ByListener
      <4> QED
        BY <1>3, <2>2, <2>4, <2>5, <2>6, <3>1, <3>2, <3>3, <4>1
    <3> QED
      BY <2>2, <2>6, <3>1, <3>2, <3>3
  <2>9. ASSUME NEW i \in Nat, NEW j \in Nat, NEW n \in Nat, NEW l \in Nat, NEW k \in Nat,
               IsComing(i, n, l)', IsComing(j, n, k)', i < j
        PROVE  l < k
    <3>1. IsComing(i + 1, n, l) /\ IsComing(j + 1, n, k) /\ i + 1 < j + 1 /\ i + 1 \in Nat /\ j + 1 \in Nat
      BY <2>7, <2>9
    <3> QED
      BY <3>1 DEF ByListener
  <2>10. ToldOnce'
    <3>1. DOMAIN told' = 1 .. MaxIncoming
      BY <1>1, <2>2
    <3>2. \A n \in 1 .. MaxIncoming : told'[n] <= 1 + life'
      BY <1>1, <1>3, <2>2, <2>4, <2>5, <2>6
    <3> QED
      BY <3>1, <3>2 DEF ToldOnce
  <2> QED
    BY <2>8, <2>9, <2>10 DEF ByListener
<1>7. CASE ClientRestarts
  <2>1. callOut' = <<>> /\ told' = told /\ life' = life + 1
    BY <1>7 DEF ClientRestarts, historyVars
  <2>2. \A i, n, l \in Nat : ~IsComing(i, n, l)'
    BY <2>1 DEF IsComing
  <2>3. ToldOnce'
    BY <1>1, <1>3, <2>1 DEF ToldOnce
  <2> QED
    BY <2>2, <2>3 DEF ByListener
<1>8. ASSUME NEW l \in DOMAIN listeners, Sends(l) PROVE ByListener'
  <2>1. PICK r : r = [listener |-> l, id |-> listeners[l].sent, n |-> Event.n]
    OBVIOUS
  <2>2. callOut' = Append(callOut, r) /\ told' = told /\ life' = life
    BY <1>8, <2>1 DEF Sends
  <2>3. /\ l \in Nat /\ l > 0 /\ Event.n \in Nat /\ Event.n \in 1 .. MaxIncoming /\ HeardTo(Event.n, l - 1)
        /\ r.listener = l /\ r.n = Event.n
    BY <1>8, <2>1, NextIsUnheard
  <2>4. l <= life + 1
    <3>1. Cardinality(ToRegister) \in Nat /\ Len(listeners) \in Nat /\ l <= Len(listeners)
      BY FS_CardinalityType DEF Registrations, CallbackTypes
    <3> QED
      BY <1>1, <2>3, <3>1 DEF Registrations
  <2>5. told[Event.n] <= l - 1
    BY <2>3 DEF HeardTo
  <2>6. /\ Len(callOut') = Len(callOut) + 1 /\ callOut'[Len(callOut) + 1] = r
        /\ \A i \in 1 .. Len(callOut) : callOut'[i] = callOut[i]
    BY <1>1, <2>2
  <2>7. ASSUME NEW i \in Nat, NEW n \in Nat, NEW k \in Nat, IsComing(i, n, k)'
        PROVE  \/ IsComing(i, n, k) /\ i <= Len(callOut)
               \/ i = Len(callOut) + 1 /\ n = Event.n /\ k = l
    <3>1. i \in 1 .. Len(callOut) + 1 /\ callOut'[i].n = n /\ callOut'[i].listener = k
      BY <2>6, <2>7 DEF IsComing
    <3>2. CASE i = Len(callOut) + 1
      BY <2>3, <2>6, <3>1, <3>2
    <3>3. CASE i # Len(callOut) + 1
      <4>1. i \in 1 .. Len(callOut)
        BY <1>1, <3>1, <3>3
      <4> QED
        BY <2>6, <3>1, <4>1 DEF IsComing
    <3> QED
      BY <3>2, <3>3
  <2>8. ASSUME NEW i \in Nat, NEW k \in Nat, IsComing(i, Event.n, k) PROVE k < l
    <3>1. callOut[i] \in ToSet(callOut) /\ callOut[i].n = Event.n /\ callOut[i].listener = k
      BY <1>1, <2>8 DEF IsComing, ToSet
    <3> QED
      BY <2>3, <3>1 DEF HeardTo
  <2>9. ASSUME NEW i \in Nat, NEW n \in Nat, NEW k \in Nat, IsComing(i, n, k)'
        PROVE  told'[n] < k /\ k <= life' + 1
    <3>1. CASE IsComing(i, n, k)
      BY <2>2, <3>1 DEF ByListener
    <3>2. CASE n = Event.n /\ k = l
      <4>1. told[n] \in Nat
        BY <1>3, <2>3, <3>2
      <4> QED
        BY <2>2, <2>3, <2>4, <2>5, <3>2, <4>1
    <3> QED
      BY <2>7, <2>9, <3>1, <3>2
  <2>10. ASSUME NEW i \in Nat, NEW j \in Nat, NEW n \in Nat, NEW m \in Nat, NEW k \in Nat,
                IsComing(i, n, m)', IsComing(j, n, k)', i < j
         PROVE  m < k
    <3>1. IsComing(i, n, m) /\ i <= Len(callOut)
      <4>1. j <= Len(callOut) + 1
        BY <1>1, <2>7, <2>10
      <4> QED
        BY <1>1, <2>7, <2>10, <4>1
    <3>2. CASE IsComing(j, n, k)
      BY <2>10, <3>1, <3>2 DEF ByListener
    <3>3. CASE n = Event.n /\ k = l
      BY <2>8, <3>1, <3>3
    <3> QED
      BY <2>7, <2>10, <3>2, <3>3
  <2>11. ToldOnce'
    BY <2>2 DEF ByListener, ToldOnce
  <2> QED
    BY <2>9, <2>10, <2>11 DEF ByListener
<1>9. ASSUME NEW i, PayBack(i) \/ ListenerReturns(i) PROVE UNCHANGED <<callOut, told>>
  BY <1>9 DEF PayBack, ListenerReturns, historyVars
<1> QED
  BY <1>5, <1>6, <1>7, <1>8, <1>9, CallbacksStep DEF Unheard

\* Hearing of a payment takes a listener of it that was called.
LEMMA HeardStep ==
  ASSUME IInv, FInv, CallbackTypes, InOrder, ByListener, [Next]_vars,
         NEW n \in 1 .. MaxIncoming, NEW k \in Nat, HeardTo(n, k),
         \A l \in DOMAIN listeners : Sends(l) /\ n = Event.n => l <= k
  PROVE  HeardTo(n, k)'
<1>1. /\ callOut \in Seq(Requests) /\ echoes \in Seq(Echoes) /\ told \in [1 .. MaxIncoming -> Nat]
      /\ n \in Nat /\ MaxIncoming \in Nat
  BY BoundsAssumption DEF CallbackTypes
<1>2. CASE Unheard
  BY <1>2 DEF Unheard, HeardTo
<1>3. CASE TakeCallback
  <2>1. PICK h, e : h = Head(callOut) /\ e = [request |-> h, call |-> NoCall]
    OBVIOUS
  <2>2. /\ callOut # <<>> /\ callOut' = Tail(callOut) /\ echoes' = Append(echoes, e)
        /\ told' = [told EXCEPT ![h.n] = @ + 1]
    BY <1>3, <2>1 DEF TakeCallback
  <2>3. /\ h \in Requests /\ h \in ToSet(callOut) /\ ToSet(callOut') \subseteq ToSet(callOut)
        /\ h = callOut[1] /\ Len(callOut) > 0
    BY <1>1, <2>1, <2>2, OfTail
  <2>4. e \in Echoes
    BY <2>1, <2>3 DEF Echoes
  <2>5. ToSet(echoes') = ToSet(echoes) \cup {e}
    BY <1>1, <2>2, <2>4, OfAppend
  <2>6. h.n \in 1 .. MaxIncoming /\ h.n \in Nat /\ h.listener \in Nat
    BY <1>1, <2>3 DEF Requests
  <2>7. told[h.n] < h.listener
    <3>1. IsComing(1, h.n, h.listener)
      BY <1>1, <2>3 DEF IsComing
    <3> QED
      BY <2>6, <3>1 DEF ByListener
  <2>8. told'[n] <= k
    <3>1. told[n] \in Nat /\ told[n] <= k
      BY <1>1 DEF HeardTo
    <3>2. CASE n = h.n
      <4>1. h.listener <= k
        BY <2>3, <3>2 DEF HeardTo
      <4>2. told'[n] = told[n] + 1
        BY <1>1, <2>2, <3>2
      <4> QED
        BY <2>6, <2>7, <3>1, <3>2, <4>1, <4>2
    <3>3. CASE n # h.n
      BY <1>1, <2>2, <3>1, <3>3
    <3> QED
      BY <3>2, <3>3
  <2>9. \A r \in ToSet(callOut') : r.n = n => r.listener <= k
    BY <2>3 DEF HeardTo
  <2>10. e.request.n = n => e.request.listener <= k
    BY <2>1, <2>3 DEF HeardTo
  <2>11. \A x \in ToSet(echoes') : x.request.n = n => x.request.listener <= k
    BY <2>5, <2>10 DEF HeardTo
  <2> QED
    BY <2>8, <2>9, <2>11 DEF HeardTo
<1>4. CASE ClientRestarts
  BY <1>4 DEF ClientRestarts, historyVars, HeardTo, ToSet
<1>5. ASSUME NEW l \in DOMAIN listeners, Sends(l) PROVE HeardTo(n, k)'
  <2>1. PICK r : r = [listener |-> l, id |-> listeners[l].sent, n |-> Event.n]
    OBVIOUS
  <2>2. callOut' = Append(callOut, r) /\ UNCHANGED <<told, echoes>>
    BY <1>5, <2>1 DEF Sends
  <2>3. l \in Nat /\ l > 0 /\ Event.n \in 1 .. MaxIncoming
    BY <1>5, NextIsUnheard
  <2>4. listeners[l].sent \in Nat
    <3>1. listeners[l] \in Transports
      BY DEF CallbackTypes
    <3> QED
      BY <3>1 DEF Transports
  <2>5. r \in Requests
    BY <2>1, <2>3, <2>4 DEF Requests
  <2>6. ToSet(callOut') = ToSet(callOut) \cup {r}
    BY <1>1, <2>2, <2>5, OfAppend
  <2>7. r.n = n => r.listener <= k
    BY <1>5, <2>1
  <2> QED
    BY <2>2, <2>6, <2>7 DEF HeardTo
<1>6. ASSUME NEW i \in DOMAIN echoes, PayBack(i) PROVE HeardTo(n, k)'
  <2>1. PICK d : d = [echoes[i] EXCEPT !.call = NewCall("pay")]
    OBVIOUS
  <2>2. echoes' = [echoes EXCEPT ![i] = d] /\ UNCHANGED <<callOut, told>>
    BY <1>6, <2>1 DEF PayBack
  <2>3. echoes[i] \in Echoes /\ echoes[i] \in ToSet(echoes)
    BY <1>1 DEF ToSet
  <2>4. d.request = echoes[i].request
    BY <2>1, <2>3 DEF Echoes
  <2>5. \A e \in ToSet(echoes') : e = d \/ e \in ToSet(echoes)
    BY <1>1, <2>2 DEF ToSet
  <2>6. \A e \in ToSet(echoes') : e.request.n = n => e.request.listener <= k
    BY <2>3, <2>4, <2>5 DEF HeardTo
  <2> QED
    BY <2>2, <2>6 DEF HeardTo
<1>7. ASSUME NEW i \in DOMAIN echoes, ListenerReturns(i) PROVE HeardTo(n, k)'
  <2>1. UNCHANGED <<callOut, told>> /\ echoes' = RemoveAt(echoes, i)
    BY <1>7 DEF ListenerReturns, historyVars
  <2>2. ToSet(echoes') \subseteq ToSet(echoes)
    BY <1>1, <2>1, OfRemoveAt
  <2> QED
    BY <2>1, <2>2 DEF HeardTo
<1> QED
  BY <1>2, <1>3, <1>4, <1>5, <1>6, <1>7, CallbacksStep

\* The events to fire are those of before from some event on.
LEMMA FromThereOn ==
  ASSUME FInv, CallbackTypes, InOrder, UNCHANGED incoming, NEW s \in Nat,
         \A n \in 1 .. MaxIncoming, k \in Nat : HeardTo(n, k) => HeardTo(n, k)',
         \A j, n \in Nat : IsToFire(j, n)' => IsToFire(j + s, n),
         \A j \in Nat : j > 0 => Reach(j + s) <= Reach(j)',
         \A j \in Nat : Reach(j + s) \in Nat /\ Reach(j)' \in Nat
  PROVE  InOrder'
<1>1. \A j \in Nat : j + s \in Nat
  OBVIOUS
<1>2. incoming \in Nat /\ incoming <= MaxIncoming /\ MaxIncoming \in Nat
  BY BoundsAssumption DEF FInv, EventTypes, CallbackTypes
<1>3. \A j, n \in Nat : IsToFire(j, n)' => n \in 1 .. incoming' /\ n \in 1 .. MaxIncoming /\ j > 0
  <2> SUFFICES ASSUME NEW j \in Nat, NEW n \in Nat, IsToFire(j, n)'
               PROVE  n \in 1 .. incoming' /\ n \in 1 .. MaxIncoming /\ j > 0
    OBVIOUS
  <2>1. n \in 1 .. incoming
    BY <1>1 DEF InOrder
  <2>2. j > 0
    BY DEF IsToFire
  <2> QED
    BY <1>2, <2>1, <2>2
<1>4. ASSUME NEW j \in Nat, NEW k \in Nat, NEW m \in Nat, NEW n \in Nat,
             IsToFire(j, m)', IsToFire(k, n)', j < k
      PROVE  m < n
  <2>1. IsToFire(j + s, m) /\ IsToFire(k + s, n) /\ j + s < k + s
    BY <1>4
  <2> QED
    BY <1>1, <2>1 DEF InOrder
<1>5. ASSUME NEW j \in Nat, NEW n \in Nat, NEW k \in Nat, IsToFire(j, n)', Reach(j)' <= k
      PROVE  HeardTo(n, k)'
  <2>1. IsToFire(j + s, n) /\ j > 0 /\ n \in 1 .. MaxIncoming
    BY <1>3, <1>5
  <2>2. Reach(j + s) <= k
    BY <1>5, <2>1
  <2>3. HeardTo(n, k)
    BY <1>1, <2>1, <2>2 DEF InOrder
  <2> QED
    BY <2>1, <2>3
<1>6. \A n \in 1 .. MaxIncoming : n > incoming' => HeardTo(n, 0)'
  BY DEF InOrder
<1> QED
  BY <1>3, <1>4, <1>5, <1>6 DEF InOrder

LEMMA Concat ==
  ASSUME NEW S, NEW a \in Seq(S), NEW b \in Seq(S)
  PROVE  /\ a \o b \in Seq(S) /\ Len(a \o b) = Len(a) + Len(b)
         /\ \A j \in 1 .. Len(a) : (a \o b)[j] = a[j]
         /\ \A j \in 1 .. Len(b) : (a \o b)[Len(a) + j] = b[j]
OBVIOUS

LEMMA InOrderStep ==
  ASSUME IInv, FInv, CallbackTypes, InOrder, ByListener, [Next]_vars PROVE InOrder'
<1> DEFINE b == poller.block
           u == upcoming
<1>1. /\ b \in Seq(Events) /\ u \in Seq(Events) /\ incoming \in Nat
      /\ poller.listener \in Nat /\ poller.listener # 0 /\ poller.waits \in BOOLEAN
      /\ Len(b) \in Nat /\ Len(u) \in Nat
      /\ poller = [block |-> b, listener |-> poller.listener, waits |-> poller.waits]
  BY DEF FInv, EventTypes, Pollers, CallbackTypes
<1>2. /\ Len(ToFire) = Len(b) + Len(u)
      /\ \A j \in 1 .. Len(b) : ToFire[j] = b[j]
      /\ \A j \in 1 .. Len(u) : ToFire[Len(b) + j] = u[j]
  BY <1>1, Concat DEF ToFire
<1>3. ASSUME ~(~poller.waits /\ poller'.waits)
      PROVE  \A n \in 1 .. MaxIncoming, k \in Nat : HeardTo(n, k) => HeardTo(n, k)'
  BY <1>3, HeardStep, NextIsUnheard
<1>4. \A j \in Nat : Reach(j) \in Nat
  BY <1>1 DEF Reach, LastCalled
<1>5. poller'.listener \in Nat /\ poller'.listener # 0 /\ \A j \in Nat : Reach(j)' \in Nat
  <2>1. poller' \in Pollers /\ poller'.listener # 0
    BY StepKeeps, TypesOfCallbacks DEF FInv, EventTypes, CallbackTypes
  <2>2. poller'.listener \in Nat /\ poller'.listener # 0
    BY <2>1 DEF Pollers
  <2> QED
    BY <2>2 DEF Reach, LastCalled
<1> HIDE DEF b, u
\* The first s events are fired or lost.
<1>6. ASSUME NEW s, NEW g, g = ToFire', s \in Nat, Len(g) \in Nat, Len(g) + s <= Len(ToFire),
             \A j \in 1 .. Len(g) : g[j] = ToFire[j + s],
             incoming' = incoming, ~(~poller.waits /\ poller'.waits),
             s = 0 => \A j \in Nat : Reach(j) <= Reach(j)'
      PROVE  InOrder'
  <2>1. Len(ToFire) \in Nat
    BY <1>1, <1>2
  <2>2. \A j, n \in Nat : IsToFire(j, n)' => IsToFire(j + s, n)
    <3> SUFFICES ASSUME NEW j \in Nat, NEW n \in Nat, IsToFire(j, n)' PROVE IsToFire(j + s, n)
      OBVIOUS
    <3>1. j \in 1 .. Len(g) /\ g[j] = Incoming(n)
      BY <1>6 DEF IsToFire
    <3>2. j + s \in 1 .. Len(ToFire)
      BY <1>6, <2>1, <3>1
    <3> QED
      BY <1>6, <3>1, <3>2 DEF IsToFire
  <2>3. \A j \in Nat : j > 0 => Reach(j + s) <= Reach(j)'
    <3> SUFFICES ASSUME NEW j \in Nat, j > 0 PROVE Reach(j + s) <= Reach(j)'
      OBVIOUS
    <3>1. CASE s = 0
      <4>1. j + s = j
        BY <3>1
      <4> QED
        BY <1>6, <3>1, <4>1
    <3>2. CASE s # 0
      <4>1. j + s # 1
        BY <1>6, <3>2
      <4>2. Reach(j + s) = 0
        BY <4>1 DEF Reach
      <4> QED
        BY <1>5, <4>2
    <3> QED
      BY <3>1, <3>2
  <2>4. \A j \in Nat : Reach(j + s) \in Nat /\ Reach(j)' \in Nat
    <3>1. \A j \in Nat : j + s \in Nat
      BY <1>6
    <3> QED
      BY <1>4, <1>5, <3>1
  <2> QED
    BY <1>3, <1>6, <2>2, <2>3, <2>4, FromThereOn
\* The poller stays where it is.
<1>7. ASSUME poller' = poller PROVE ~(~poller.waits /\ poller'.waits) /\ \A j \in Nat : Reach(j) <= Reach(j)'
  BY <1>4, <1>7 DEF Reach, LastCalled
<1>8. CASE Stays
  <2>1. PICK g : g = ToFire'
    OBVIOUS
  <2>2. g = ToFire
    BY <1>8, <2>1 DEF Stays, ToFire
  <2>3. PICK s : s = 0
    OBVIOUS
  <2>4. /\ s \in Nat /\ Len(g) \in Nat /\ Len(g) + s <= Len(ToFire)
        /\ \A j \in 1 .. Len(g) : g[j] = ToFire[j + s]
    BY <1>1, <1>2, <2>2, <2>3
  <2>5. ~(~poller.waits /\ poller'.waits) /\ (s = 0 => \A j \in Nat : Reach(j) <= Reach(j)')
    BY <1>7, <1>8 DEF Stays
  <2> QED
    BY <1>6, <1>8, <2>1, <2>4, <2>5 DEF Stays
<1>9. CASE ServiceStarts
  <2>1. upcoming' = <<>> /\ poller' = poller /\ incoming' = incoming
    BY <1>9 DEF ServiceStarts
  <2>2. PICK g : g = ToFire'
    OBVIOUS
  <2>3. g = b \o <<>>
    BY <2>1, <2>2 DEF ToFire, b
  <2>4. g = b
    BY <1>1, <2>3
  <2>5. PICK s : s = 0
    OBVIOUS
  <2>6. /\ s \in Nat /\ Len(g) \in Nat /\ Len(g) + s <= Len(ToFire)
        /\ \A j \in 1 .. Len(g) : g[j] = ToFire[j + s]
    BY <1>1, <1>2, <2>4, <2>5
  <2>7. ~(~poller.waits /\ poller'.waits) /\ (s = 0 => \A j \in Nat : Reach(j) <= Reach(j)')
    BY <1>7, <2>1
  <2> QED
    BY <1>6, <2>1, <2>2, <2>6, <2>7
<1>10. ASSUME NEW i \in DOMAIN pool, Mined(i) PROVE InOrder'
  <2>1. PICK e : e = Result(pool[i].call)
    OBVIOUS
  <2>2. upcoming' = Append(u, e) /\ poller' = poller /\ incoming' = incoming
    BY <1>10, <2>1 DEF Mined, u
  <2>3. upcoming' \in Seq(Events)
    BY StepKeeps DEF FInv, EventTypes
  <2>4. Len(upcoming') = Len(u) + 1 /\ upcoming'[Len(u) + 1] = e /\ \A j \in 1 .. Len(u) : upcoming'[j] = u[j]
    BY <1>1, <2>2
  <2>5. PICK g : g = ToFire'
    OBVIOUS
  <2>6. PICK v : v = upcoming'
    OBVIOUS
  <2>7. g = b \o v /\ v \in Seq(Events)
    BY <2>2, <2>3, <2>5, <2>6 DEF ToFire, b
  <2>8. /\ Len(g) = Len(b) + Len(v)
        /\ \A j \in 1 .. Len(b) : g[j] = b[j]
        /\ \A j \in 1 .. Len(v) : g[Len(b) + j] = v[j]
    BY <1>1, <2>7, Concat
  <2>9. ASSUME NEW j \in Nat, NEW n \in Nat, IsToFire(j, n)' PROVE IsToFire(j, n)
    <3>1. j \in 1 .. Len(g) /\ g[j] = Incoming(n)
      BY <2>5, <2>9 DEF IsToFire
    <3>2. CASE j <= Len(b)
      <4>1. j \in 1 .. Len(b) /\ j \in 1 .. Len(ToFire)
        BY <1>1, <1>2, <3>1, <3>2
      <4>2. ToFire[j] = Incoming(n)
        BY <1>2, <2>8, <3>1, <4>1
      <4> QED
        BY <4>1, <4>2 DEF IsToFire
    <3>3. CASE j > Len(b)
      <4>1. PICK k \in Nat : k = j - Len(b) /\ k > 0
        BY <1>1, <3>3
      <4>2. k \in 1 .. Len(v) /\ j = Len(b) + k
        BY <1>1, <2>4, <2>6, <2>8, <3>1, <4>1
      <4>3. v[k] = Incoming(n)
        BY <2>8, <3>1, <4>2
      <4>4. e # Incoming(n)
        BY <2>1 DEF Result, Incoming
      <4>5. k \in 1 .. Len(u)
        BY <1>1, <2>4, <2>6, <4>2, <4>3, <4>4
      <4>6. ToFire[j] = Incoming(n) /\ j \in 1 .. Len(ToFire)
        BY <1>1, <1>2, <2>4, <2>6, <4>2, <4>3, <4>5
      <4> QED
        BY <4>6 DEF IsToFire
    <3> QED
      BY <1>1, <3>1, <3>2, <3>3
  <2>10. \A n \in 1 .. MaxIncoming, k \in Nat : HeardTo(n, k) => HeardTo(n, k)'
    BY <1>3, <1>7, <2>2
  <2>11. PICK s \in Nat : s = 0
    OBVIOUS
  <2>12. \A j \in Nat : j + s = j
    BY <2>11
  <2>13. /\ \A j \in Nat : j > 0 => Reach(j + s) <= Reach(j)'
         /\ \A j \in Nat : Reach(j + s) \in Nat /\ Reach(j)' \in Nat
         /\ \A j, n \in Nat : IsToFire(j, n)' => IsToFire(j + s, n)
    BY <1>4, <1>5, <1>7, <2>2, <2>9, <2>12
  <2> QED
    BY <2>2, <2>10, <2>13, FromThereOn
<1>11. CASE Aborts
  <2>1. PICK g : g = ToFire'
    OBVIOUS
  <2>2. g = <<>> \o u /\ incoming' = incoming /\ ~poller'.waits
    BY <1>11, <2>1 DEF Aborts, Idle, ToFire, u
  <2>3. g = u
    BY <1>1, <2>2
  <2>4. ASSUME Len(b) = 0 PROVE \A j \in Nat : Reach(j) <= Reach(j)'
    <3>1. b = <<>>
      BY <1>1, <2>4
    <3>2. \A j \in Nat : Reach(j) = 0
      BY <3>1 DEF Reach, b
    <3> QED
      BY <1>5, <3>2
  <2>5. \A j \in 1 .. Len(u) : g[j] = ToFire[j + Len(b)]
    BY <1>1, <1>2, <2>3
  <2>6. PICK s : s = Len(b)
    OBVIOUS
  <2>7. /\ s \in Nat /\ Len(g) \in Nat /\ Len(g) + s <= Len(ToFire)
        /\ \A j \in 1 .. Len(g) : g[j] = ToFire[j + s]
    BY <1>1, <1>2, <2>3, <2>5, <2>6
  <2>8. ~(~poller.waits /\ poller'.waits) /\ (s = 0 => \A j \in Nat : Reach(j) <= Reach(j)')
    BY <2>2, <2>4, <2>6
  <2> QED
    BY <1>6, <2>1, <2>2, <2>7, <2>8
<1>12. CASE Fired
  <2>1. PICK g : g = ToFire'
    OBVIOUS
  <2>2. b # <<>> /\ g = Tail(b) \o u /\ incoming' = incoming /\ ~poller'.waits
    BY <1>12, <2>1 DEF Fired, Firing, NextEvent, Idle, ToFire, u, b
  <2>3. PICK t : t = Tail(b)
    OBVIOUS
  <2>4. t \in Seq(Events) /\ Len(t) = Len(b) - 1 /\ Len(b) > 0 /\ \A j \in 1 .. Len(t) : t[j] = b[j + 1]
    BY <1>1, <2>2, <2>3
  <2>5. /\ Len(g) = Len(t) + Len(u)
        /\ \A j \in 1 .. Len(t) : g[j] = t[j]
        /\ \A j \in 1 .. Len(u) : g[Len(t) + j] = u[j]
    BY <1>1, <2>2, <2>3, <2>4, Concat
  <2>6. ASSUME NEW j \in 1 .. Len(g) PROVE g[j] = ToFire[j + 1]
    <3>1. CASE j <= Len(t)
      <4>1. j \in 1 .. Len(t) /\ j + 1 \in 1 .. Len(b)
        BY <1>1, <2>4, <2>5, <3>1
      <4> QED
        BY <1>2, <2>4, <2>5, <4>1
    <3>2. CASE j > Len(t)
      <4>1. PICK k \in Nat : k = j - Len(t) /\ k > 0
        BY <2>4, <3>2
      <4>2. k \in 1 .. Len(u) /\ j = Len(t) + k /\ j + 1 = Len(b) + k
        BY <1>1, <2>4, <2>5, <4>1
      <4> QED
        BY <1>2, <2>5, <4>2
    <3> QED
      BY <1>1, <2>4, <2>5, <3>1, <3>2
  <2>7. Len(g) \in Nat /\ Len(g) + 1 <= Len(ToFire)
    BY <1>1, <1>2, <2>4, <2>5
  <2>8. PICK s : s = 1
    OBVIOUS
  <2>9. /\ s \in Nat /\ Len(g) \in Nat /\ Len(g) + s <= Len(ToFire)
        /\ \A j \in 1 .. Len(g) : g[j] = ToFire[j + s]
    BY <2>6, <2>7, <2>8
  <2>10. ~(~poller.waits /\ poller'.waits) /\ (s = 0 => \A j \in Nat : Reach(j) <= Reach(j)')
    BY <2>2, <2>8
  <2> QED
    BY <1>6, <2>1, <2>2, <2>9, <2>10
<1>13. CASE NewBlock
  <2>1. b = <<>> /\ incoming' = incoming /\ ~poller'.waits
    BY <1>13 DEF NewBlock, Idle, b
  <2>21. DOMAIN u = 1 .. Len(u)
    BY <1>1
  <2>22. PICK n \in DOMAIN u : /\ poller' = [Idle EXCEPT !.block = SubSeq(u, 1, n)]
                              /\ upcoming' = SubSeq(u, n + 1, Len(u))
    BY <1>13 DEF NewBlock, u
  <2>2. n \in 1 .. Len(u) /\ poller'.block = SubSeq(u, 1, n) /\ upcoming' = SubSeq(u, n + 1, Len(u))
    BY <2>21, <2>22 DEF Idle
  <2>3. PICK x, y : x = SubSeq(u, 1, n) /\ y = SubSeq(u, n + 1, Len(u))
    OBVIOUS
  <2>4. /\ x \in Seq(Events) /\ y \in Seq(Events) /\ Len(x) = n /\ Len(y) = Len(u) - n
        /\ \A j \in 1 .. n : x[j] = u[j]
        /\ \A j \in 1 .. Len(u) - n : y[j] = u[n + j]
        /\ n \in Nat /\ n <= Len(u)
    <3>1. n \in Nat /\ n >= 1 /\ n <= Len(u)
      BY <1>1, <2>2
    <3>2. x \in Seq(Events) /\ Len(x) = n /\ \A j \in 1 .. n : x[j] = u[j]
      BY <1>1, <2>3, <3>1
    <3>3. y \in Seq(Events) /\ Len(y) = Len(u) - n /\ \A j \in 1 .. Len(u) - n : y[j] = u[n + j]
      BY <1>1, <2>3, <3>1
    <3> QED
      BY <3>1, <3>2, <3>3
  <2>5. PICK g : g = ToFire'
    OBVIOUS
  <2>6. g = x \o y
    BY <2>2, <2>3, <2>5 DEF ToFire
  <2>7. /\ Len(g) = n + (Len(u) - n)
        /\ \A j \in 1 .. n : g[j] = x[j]
        /\ \A j \in 1 .. Len(u) - n : g[n + j] = y[j]
    <3>1. /\ Len(x \o y) = Len(x) + Len(y)
          /\ \A j \in 1 .. Len(x) : (x \o y)[j] = x[j]
          /\ \A j \in 1 .. Len(y) : (x \o y)[Len(x) + j] = y[j]
      <4>1. x \in Seq(Events) /\ y \in Seq(Events)
        BY <2>4
      <4> QED
        BY <4>1, Concat
    <3> QED
      BY <2>4, <2>6, <3>1
  <2>8. Len(b) = 0 /\ Len(g) = Len(u) /\ Len(ToFire) = Len(u) /\ \A j \in 1 .. Len(u) : ToFire[j] = u[j]
    <3>1. Len(b) = 0
      BY <2>1
    <3>2. \A j \in 1 .. Len(u) : Len(b) + j = j
      BY <3>1
    <3>3. Len(g) = Len(u)
      BY <1>1, <2>4, <2>7
    <3>4. Len(ToFire) = Len(u)
      BY <1>1, <1>2, <3>1
    <3> QED
      BY <1>2, <3>1, <3>2, <3>3, <3>4
  <2>9. ASSUME NEW j \in 1 .. Len(u) PROVE g[j] = ToFire[j + 0]
    <3>1. CASE j <= n
      <4>1. j \in 1 .. n
        BY <3>1
      <4> QED
        BY <2>4, <2>7, <2>8, <4>1
    <3>2. CASE j > n
      <4>1. j - n \in 1 .. Len(u) - n /\ j = n + (j - n)
        BY <1>1, <2>4, <3>2
      <4>2. PICK k \in 1 .. Len(u) - n : j = n + k
        BY <4>1
      <4> QED
        BY <2>4, <2>7, <2>8, <4>2
    <3> QED
      BY <3>1, <3>2
  <2>10. \A j \in Nat : Reach(j) <= Reach(j)'
    BY <1>5, <2>1 DEF Reach, b
  <2>11. PICK s : s = 0
    OBVIOUS
  <2>12. /\ s \in Nat /\ Len(g) \in Nat /\ Len(g) + s <= Len(ToFire)
        /\ \A j \in 1 .. Len(g) : g[j] = ToFire[j + s]
    BY <1>1, <2>8, <2>9, <2>11
  <2>13. ~(~poller.waits /\ poller'.waits) /\ (s = 0 => \A j \in Nat : Reach(j) <= Reach(j)')
    BY <2>1, <2>10
  <2> QED
    BY <1>6, <2>1, <2>5, <2>12, <2>13
<1>14. CASE Returned
  <2>1. /\ poller'.block = b /\ poller'.listener = poller.listener + 1 /\ ~poller'.waits /\ poller.waits
        /\ upcoming' = u /\ incoming' = incoming
    BY <1>1, <1>14 DEF Returned, NextListener, u
  <2>2. PICK g : g = ToFire'
    OBVIOUS
  <2>3. g = ToFire
    BY <2>1, <2>2 DEF ToFire, b, u
  <2>4. \A j \in Nat : Reach(j) <= Reach(j)'
    BY <1>1, <2>1 DEF Reach, LastCalled, b
  <2>5. Len(ToFire) \in Nat
    BY <1>1, <1>2
  <2>6. PICK s : s = 0
    OBVIOUS
  <2>7. /\ s \in Nat /\ Len(g) \in Nat /\ Len(g) + s <= Len(ToFire)
        /\ \A j \in 1 .. Len(g) : g[j] = ToFire[j + s]
    BY <2>3, <2>5, <2>6
  <2>8. ~(~poller.waits /\ poller'.waits) /\ (s = 0 => \A j \in Nat : Reach(j) <= Reach(j)')
    BY <2>1, <2>4
  <2> QED
    BY <1>6, <2>1, <2>2, <2>7, <2>8
<1>15. CASE PaymentComes
  <2>1. PICK e : e = Incoming(incoming + 1)
    OBVIOUS
  <2>2. /\ upcoming' = Append(u, e) /\ poller' = poller /\ incoming' = incoming + 1
        /\ incoming < MaxIncoming
    BY <1>15, <2>1 DEF PaymentComes, serviceVars, u
  <2>3. upcoming' \in Seq(Events)
    BY StepKeeps DEF FInv, EventTypes
  <2>4. Len(upcoming') = Len(u) + 1 /\ upcoming'[Len(u) + 1] = e /\ \A j \in 1 .. Len(u) : upcoming'[j] = u[j]
    BY <1>1, <2>2
  <2>5. PICK g : g = ToFire'
    OBVIOUS
  <2>6. PICK v : v = upcoming'
    OBVIOUS
  <2>61. Len(v) = Len(u) + 1 /\ v[Len(u) + 1] = e /\ \A j \in 1 .. Len(u) : v[j] = u[j]
    BY <2>4, <2>6
  <2>7. g = b \o v /\ v \in Seq(Events)
    BY <2>2, <2>3, <2>5, <2>6 DEF ToFire, b
  <2>8. /\ Len(g) = Len(b) + Len(v)
        /\ \A j \in 1 .. Len(b) : g[j] = b[j]
        /\ \A j \in 1 .. Len(v) : g[Len(b) + j] = v[j]
    BY <1>1, <2>7, Concat
  <2>9. ASSUME NEW j \in Nat, NEW n \in Nat, IsToFire(j, n)'
        PROVE  \/ IsToFire(j, n) /\ j <= Len(b) + Len(u) /\ n \in 1 .. incoming
               \/ j = Len(b) + Len(u) + 1 /\ n = incoming + 1
    <3>1. j \in 1 .. Len(g) /\ g[j] = Incoming(n)
      BY <2>5, <2>9 DEF IsToFire
    <3>2. CASE j <= Len(b)
      <4>1. j \in 1 .. Len(b) /\ j \in 1 .. Len(ToFire) /\ j <= Len(b) + Len(u)
        BY <1>1, <1>2, <3>1, <3>2
      <4>2. ToFire[j] = Incoming(n)
        BY <1>2, <2>8, <3>1, <4>1
      <4> QED
        BY <4>1, <4>2 DEF IsToFire, InOrder
    <3>3. CASE j > Len(b) /\ j # Len(b) + Len(u) + 1
      <4>1. PICK k \in Nat : k = j - Len(b) /\ k > 0
        BY <1>1, <3>3
      <4>2. k \in 1 .. Len(u) /\ k \in 1 .. Len(v) /\ j = Len(b) + k
        BY <1>1, <2>61, <2>8, <3>1, <3>3, <4>1
      <4>3. ToFire[j] = Incoming(n) /\ j \in 1 .. Len(ToFire) /\ j <= Len(b) + Len(u)
        BY <1>1, <1>2, <2>61, <2>8, <3>1, <4>2
      <4> QED
        BY <4>3 DEF IsToFire, InOrder
    <3>4. CASE j = Len(b) + Len(u) + 1
      <4>1. Len(v) \in 1 .. Len(v) /\ j = Len(b) + Len(v)
        BY <1>1, <2>61, <3>4
      <4>2. g[j] = e
        BY <2>61, <2>8, <4>1
      <4> QED
        BY <2>1, <3>1, <3>4, <4>2 DEF Incoming
    <3> QED
      BY <1>1, <3>1, <3>2, <3>3, <3>4
  <2>10. \A n \in 1 .. MaxIncoming, k \in Nat : HeardTo(n, k) => HeardTo(n, k)'
    BY <1>3, <1>7, <2>2
  <2>11. \A j \in Nat : Reach(j) <= Reach(j)'
    BY <1>7, <2>2
  <2>12. incoming + 1 \in 1 .. MaxIncoming /\ incoming \in Nat /\ MaxIncoming \in Nat
    BY <1>1, <2>2, BoundsAssumption
  <2>13. \A j, n \in Nat : IsToFire(j, n)' => n \in 1 .. incoming'
    BY <2>2, <2>9, <2>12
  <2>14. ASSUME NEW j \in Nat, NEW k \in Nat, NEW m \in Nat, NEW n \in Nat,
                IsToFire(j, m)', IsToFire(k, n)', j < k
         PROVE  m < n
    <3>1. /\ IsToFire(j, m) /\ m \in 1 .. incoming
          /\ IsToFire(k, n) \/ n = incoming + 1
      BY <1>1, <2>9, <2>14
    <3> QED
      BY <2>12, <2>14, <3>1 DEF InOrder
  <2>15. ASSUME NEW j \in Nat, NEW n \in Nat, NEW k \in Nat, IsToFire(j, n)', Reach(j)' <= k
         PROVE  HeardTo(n, k)'
    <3>1. CASE IsToFire(j, n) /\ n \in 1 .. incoming
      <4>1. Reach(j) <= k /\ n \in 1 .. MaxIncoming
        BY <1>4, <1>5, <2>11, <2>12, <2>15, <3>1
      <4> QED
        BY <2>10, <3>1, <4>1 DEF InOrder
    <3>2. CASE n = incoming + 1
      <4>1. HeardTo(n, 0)
        BY <2>12, <3>2 DEF InOrder
      <4>2. HeardTo(n, k)
        <5>1. told[n] \in Nat /\ told[n] <= k
          BY <2>12, <3>2, <4>1 DEF HeardTo, CallbackTypes
        <5>2. \A r \in ToSet(callOut) : r.listener \in Nat
          <6>1. \A r \in Requests : r.listener \in Nat
            BY DEF Requests
          <6> QED
            BY <6>1, OfSeq DEF CallbackTypes
        <5>3. \A x \in ToSet(echoes) : x.request.listener \in Nat
          <6>1. \A x \in Echoes : x.request \in Requests
            BY DEF Echoes
          <6> QED
            BY <6>1, OfSeq DEF CallbackTypes, Requests
        <5> QED
          BY <4>1, <5>1, <5>2, <5>3 DEF HeardTo
      <4> QED
        BY <2>10, <2>12, <3>2, <4>2
    <3> QED
      BY <2>9, <2>15, <3>1, <3>2
  <2>16. ASSUME NEW n \in 1 .. MaxIncoming, n > incoming' PROVE HeardTo(n, 0)'
    <3>1. n > incoming
      BY <2>2, <2>12, <2>16
    <3> QED
      BY <2>10, <3>1 DEF InOrder
  <2> QED
    BY <2>13, <2>14, <2>15, <2>16 DEF InOrder
<1>16. CASE Calls1
  <2>1. /\ poller'.block = b /\ b # <<>> /\ poller'.listener = poller.listener /\ poller'.waits /\ ~poller.waits
        /\ upcoming' = u /\ incoming' = incoming
    BY <1>1, <1>16 DEF Calls1, Firing, u, b
  <2>2. ToFire' = ToFire
    BY <2>1 DEF ToFire, b, u
  <2>3. \A j, n \in Nat : IsToFire(j, n)' <=> IsToFire(j, n)
    BY <2>2 DEF IsToFire
  <2>4. Reach(1) = poller.listener - 1 /\ Reach(1)' = poller.listener
    BY <2>1 DEF Reach, LastCalled, b
  <2>5. ASSUME NEW l \in DOMAIN listeners, Sends(l)
        PROVE  l = poller.listener /\ Event.n \in 1 .. incoming /\ IsToFire(1, Event.n) /\ Event.n \in Nat
    BY <2>5, NextIsUnheard
  <2>6. ASSUME NEW j \in Nat, NEW n \in Nat, NEW k \in Nat, IsToFire(j, n)', Reach(j)' <= k
        PROVE  HeardTo(n, k)'
    <3>1. IsToFire(j, n) /\ n \in 1 .. MaxIncoming /\ j > 0
      <4>1. n \in 1 .. incoming
        BY <2>3, <2>6 DEF InOrder
      <4>2. incoming <= MaxIncoming /\ MaxIncoming \in Nat
        BY BoundsAssumption DEF CallbackTypes
      <4> QED
        BY <1>1, <2>3, <2>6, <4>1, <4>2 DEF IsToFire
    <3>2. CASE j = 1
      <4>1. poller.listener <= k /\ Reach(j) <= k
        BY <1>1, <2>4, <2>6, <3>2
      <4>2. HeardTo(n, k)
        BY <3>1, <4>1 DEF InOrder
      <4>3. \A l \in DOMAIN listeners : Sends(l) /\ n = Event.n => l <= k
        BY <2>5, <4>1
      <4> QED
        BY <3>1, <4>2, <4>3, HeardStep
    <3>3. CASE j # 1
      <4>1. Reach(j) = 0
        BY <3>3 DEF Reach
      <4>2. HeardTo(n, k)
        BY <3>1, <4>1 DEF InOrder
      <4>3. \A l \in DOMAIN listeners : Sends(l) /\ n = Event.n => l <= k
        <5> SUFFICES ASSUME NEW l \in DOMAIN listeners, Sends(l), n = Event.n PROVE FALSE
          OBVIOUS
        <5>1. IsToFire(1, n) /\ 1 < j
          BY <2>5, <3>1, <3>3
        <5>2. n < n
          BY <3>1, <5>1 DEF InOrder
        <5> QED
          BY <5>2
      <4> QED
        BY <3>1, <4>2, <4>3, HeardStep
    <3> QED
      BY <3>2, <3>3
  <2>7. ASSUME NEW n \in 1 .. MaxIncoming, n > incoming' PROVE HeardTo(n, 0)'
    <3>1. HeardTo(n, 0)
      BY <2>1, <2>7 DEF InOrder
    <3>2. \A l \in DOMAIN listeners : Sends(l) /\ n = Event.n => l <= 0
      BY <1>1, <2>1, <2>5, <2>7
    <3> QED
      BY <3>1, <3>2, HeardStep
  <2>8. \A j, n \in Nat : IsToFire(j, n)' => n \in 1 .. incoming'
    BY <2>1, <2>3 DEF InOrder
  <2>9. \A j, k, m, n \in Nat : IsToFire(j, m)' /\ IsToFire(k, n)' /\ j < k => m < n
    BY <2>3 DEF InOrder
  <2> QED
    BY <2>6, <2>7, <2>8, <2>9 DEF InOrder
<1> QED
  BY <1>8, <1>9, <1>10, <1>11, <1>12, <1>13, <1>14, <1>15, <1>16, PollerStep

LEMMA CallbacksInvariant == IInv /\ FInv /\ CInv /\ [Next]_vars => CInv'
<1> SUFFICES ASSUME IInv, FInv, CInv, [Next]_vars PROVE CInv'
  OBVIOUS
<1>1. CallbackTypes /\ InOnePlace /\ Registrations /\ InOrder /\ ByListener /\ SelfWait
  BY DEF CInv
<1>2. CallbackTypes'
  BY <1>1, TypesOfCallbacks
<1>3. InOnePlace' /\ Registrations'
  BY <1>1, PlacesStep, RegistrationsStep
<1>4. InOrder' /\ ByListener'
  BY <1>1, InOrderStep, ByListenerStep
<1>5. SelfWait'
  BY <1>1, SelfWaitStep
<1> QED
  BY <1>2, <1>3, <1>4, <1>5 DEF CInv

LEMMA CallbacksInit == Init => CInv
<1> SUFFICES ASSUME Init PROVE CInv
  OBVIOUS
<1>1. /\ life = 0 /\ nextId = 0 /\ echoes = <<>> /\ out = <<>> /\ callOut = <<>> /\ pool = <<>>
      /\ listeners = <<>> /\ poller = Idle /\ upcoming = <<>> /\ incoming = 0
      /\ told = [n \in 1 .. MaxIncoming |-> 0]
  BY DEF Init
<1>2. CallbackTypes
  BY <1>1, BoundsAssumption DEF CallbackTypes, Idle
<1>3. ToRegister = {}
  BY <1>1 DEF ToRegister, CallsIn, ToSet
<1>4. InOnePlace /\ Registrations
  BY <1>1, <1>3, FS_EmptySet DEF InOnePlace, Registrations
<1>5. ToFire = <<>>
  BY <1>1, IdlePoller DEF ToFire
<1>6. \A n \in 1 .. MaxIncoming : HeardTo(n, 0)
  BY <1>1 DEF HeardTo, ToSet
<1>7. InOrder
  BY <1>5, <1>6 DEF InOrder, IsToFire
<1>8. ByListener
  BY <1>1 DEF ByListener, IsComing, ToldOnce
<1>9. SelfWait
  BY <1>1 DEF SelfWait, ToSet
<1> QED
  BY <1>2, <1>4, <1>7, <1>8, <1>9 DEF CInv

LEMMA WaitsForItself == CInv => PollerWaitsForItself
<1> SUFFICES ASSUME CInv, NEW i \in DOMAIN echoes, echoes[i].call # NoCall, IsWaitedFor(echoes[i])
             PROVE  /\ \A j \in DOMAIN pool : pool[j].call = echoes[i].call => pool[j].step # "paid"
                    /\ \A j \in DOMAIN in : in[j].of # echoes[i].call
  BY DEF PollerWaitsForItself, IsWaitedFor
<1>1. echoes[i] \in ToSet(echoes)
  BY DEF ToSet
<1>2. /\ \A t \in ToSet(pool) : t.call = echoes[i].call => t.step # "paid"
      /\ echoes[i].call \notin CallsAnswered(in)
  BY <1>1 DEF CInv, SelfWait
<1> QED
  BY <1>2 DEF CallsAnswered, ToSet

LEMMA CallbacksHold == Spec => []CInv
<1>1. Init => IInv /\ FInv /\ CInv
  BY InitInvariant, InitKeeps, CallbacksInit
<1>2. IInv /\ FInv /\ CInv /\ [Next]_vars => (IInv /\ FInv /\ CInv)'
  BY StepInvariant, StepKeeps, CallbacksInvariant
<1> QED
  BY <1>1, <1>2, PTL DEF Spec

-------------------------------------------------------------------------------
\* The client hears of a payment once per registration it has left with the
\* service, which are no more than its lives, whatever is called, answered,
\* timed out or restarted in between.
THEOREM HeardOnce == Spec => []ToldOnce
<1>1. CInv => ToldOnce
  BY DEF CInv, ByListener
<1> QED
  BY <1>1, CallbacksHold, PTL

\* A listener that pays in its callback is not answered as long as the poller
\* waits for it to return: the poller blocks itself until it times out.
THEOREM PollerBlocksItself == Spec => []PollerWaitsForItself
BY CallbacksHold, WaitsForItself, PTL

===============================================================================
