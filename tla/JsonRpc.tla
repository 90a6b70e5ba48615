------------------------------- MODULE JsonRpc --------------------------------
(***************************************************************************)
(* The payment service over RabbitMQ: a client, for one the echo bot, that *)
(* calls the service (JsonRpcFactory, RabbitMQJsonRpcTransport) and that   *)
(* the service calls back for events.  Requests go to a queue "out", their *)
(* answers to a queue "in" under the correlation id of the request;        *)
(* callbacks have a pair of queues of their own.                           *)
(*                                                                         *)
(* RabbitMQ is external: its queues are FIFO, take no message when nobody  *)
(* has declared them, are deleted with the last of their consumers, and    *)
(* serve each message to one of several consumers.  Its library may close  *)
(* a channel when a consumer throws, and what is sent on a closed channel  *)
(* is an exception.  Of the service there is its pool of threads and the   *)
(* poller, which holds the lock of PendingEvents while it fires the events *)
(* of a block.                                                             *)
(***************************************************************************)
EXTENDS Integers, Sequences, SequencesExt

CONSTANTS
  Threads,      \* of the pool of a JsonRpcFactory
  MaxCalls,     \* bound on the calls of a client before it starts again
  MaxIncoming,  \* bound on the payments of others to the client's bank
  MaxFaults     \* bound on restarts and timed out calls together

ASSUME BoundsAssumption ==
  /\ Threads \in Nat \ {0} /\ MaxCalls \in Nat
  /\ MaxIncoming \in Nat /\ MaxFaults \in Nat

VARIABLES
  life,         \* how often the client was started before
  nextId,       \* correlationIdCounter of its transport
  handlers,     \* resultHandlers: the calls without an answer
  gaveUp,       \* those of them whose caller has stopped waiting
  closed,       \* its channel is closed
  mainCall,     \* the call its main thread waits for, or NoCall
  echoes,       \* the callbacks it has submitted to its pool, in order
  out, in,      \* the queues of requests and answers
  callOut, callIn, \* the queues of callbacks and their answers
  serving,      \* the service runs
  pool,         \* the requests it has submitted to its pool, in order
  listeners,    \* its registrations, each with a transport to the client
  poller,       \* the events of its block still to fire and how far it is
  upcoming,     \* events that were mined and that it has not come to
  incoming,     \* how many payments of others there were
  faults,
  answered,     \* history: calls with the call whose answer they took
  lostCalls,    \* history: calls nobody will answer
  lostEvents,   \* history: events the service will not fire
  told          \* history: per incoming payment, how often the client heard

clientVars == <<life, nextId, handlers, gaveUp, closed, mainCall, echoes>>
queueVars == <<out, in, callOut, callIn>>
serviceVars == <<serving, pool, listeners, poller>>
chainVars == <<upcoming, incoming>>
historyVars == <<answered, lostCalls, lostEvents, told>>
vars == <<clientVars, queueVars, serviceVars, chainVars, faults, historyVars>>

Kinds == {"register", "pay", "ask", "unknown"}
Calls == [life : 0 .. MaxFaults, id : 0 .. MaxCalls - 1, kind : Kinds]
NoCall == [life |-> 0, id |-> -1, kind |-> "ask"]

\* Events: PaymentMessage of others, ResultMessage of a payment of ours.
Incoming(n) == [kind |-> "incoming", n |-> n]
Result(c) == [kind |-> "result", of |-> c]

Idle == [block |-> <<>>, listener |-> 1, waits |-> FALSE]
Running(tasks) == 1 .. IF Len(tasks) < Threads THEN Len(tasks) ELSE Threads

Init ==
  /\ life = 0 /\ nextId = 0 /\ handlers = {} /\ gaveUp = {} /\ closed = FALSE /\ mainCall = NoCall
  /\ echoes = <<>> /\ out = <<>> /\ in = <<>> /\ callOut = <<>> /\ callIn = <<>>
  /\ serving = TRUE /\ pool = <<>> /\ listeners = <<>> /\ poller = Idle
  /\ upcoming = <<>> /\ incoming = 0 /\ faults = 0
  /\ answered = {} /\ lostCalls = {} /\ lostEvents = {}
  /\ told = [n \in 1 .. MaxIncoming |-> 0]

-------------------------------------------------------------------------------
(* The client's calls.                                                     *)

NewCall(kind) == [life |-> life, id |-> nextId, kind |-> kind]

\* sendInternal: on a closed channel it throws, with the handler in place.
Send(c) ==
  /\ nextId < MaxCalls
  /\ nextId' = nextId + 1
  /\ handlers' = handlers \cup {c}
  /\ gaveUp' = IF closed THEN gaveUp \cup {c} ELSE gaveUp
  /\ IF serving /\ ~closed
       THEN out' = Append(out, c) /\ UNCHANGED lostCalls
       ELSE lostCalls' = lostCalls \cup {c} /\ UNCHANGED out

\* The main thread, which registers its listener first.
Call(kind) ==
  LET c == NewCall(kind)
  IN  /\ mainCall = NoCall
      /\ nextId = 0 <=> kind = "register"
      /\ Send(c)
      /\ mainCall' = IF closed THEN NoCall ELSE c
      /\ UNCHANGED <<life, closed, echoes, in, callOut, callIn, serviceVars, chainVars, faults>>
      /\ UNCHANGED <<answered, lostEvents, told>>

\* The consumer of "in" has the answer of a call it knows.
TakeAnswer ==
  LET takers == {c \in handlers : c.id = Head(in).id}
  IN  /\ in # <<>> /\ takers # {}
      /\ in' = Tail(in)
      /\ handlers' = handlers \ takers
      /\ gaveUp' = gaveUp \ takers
      /\ mainCall' = IF mainCall \in takers THEN NoCall ELSE mainCall
      /\ answered' = answered \cup {<<c, Head(in).of>> : c \in takers}
      /\ UNCHANGED <<life, nextId, closed, echoes, out, callOut, callIn, serviceVars>>
      /\ UNCHANGED <<chainVars, faults, lostCalls, lostEvents, told>>

\* "No handler for", of an answer to an earlier life of the client.
TakeUnknownAnswer ==
  /\ in # <<>> /\ \A c \in handlers : c.id # Head(in).id
  /\ \/ /\ in' = Tail(in)
        /\ UNCHANGED <<closed, lostCalls>>
     \/ /\ closed' = TRUE /\ in' = <<>>
        /\ lostCalls' = lostCalls \cup handlers
  /\ UNCHANGED <<life, nextId, handlers, gaveUp, mainCall, echoes, out, callOut, callIn>>
  /\ UNCHANGED <<serviceVars, chainVars, faults, answered, lostEvents, told>>

\* The caller gives up, the handler stays.
CallTimesOut(c) ==
  /\ faults < MaxFaults /\ c \notin gaveUp
  /\ faults' = faults + 1
  /\ gaveUp' = gaveUp \cup {c}
  /\ mainCall' = IF mainCall = c THEN NoCall ELSE mainCall
  /\ UNCHANGED <<life, nextId, handlers, closed, echoes, queueVars, serviceVars, chainVars>>
  /\ UNCHANGED historyVars

-------------------------------------------------------------------------------
(* The service's pool.                                                     *)

\* The consumer of "out" submits and goes on.
TakeRequest ==
  /\ serving /\ out # <<>>
  /\ out' = Tail(out)
  /\ pool' = Append(pool, [call |-> Head(out), step |-> "begin"])
  /\ UNCHANGED <<clientVars, in, callOut, callIn, serving, listeners, poller, chainVars>>
  /\ UNCHANGED <<faults, historyVars>>

Finished(i) == pool' = RemoveAt(pool, i)

\* The queue "in" is there from the client's first request on.
Consumed == nextId > 0 /\ ~closed

\* Mutant of the next definition: the correlation id of the latest request
\* instead of the one that is answered.
ReplyToLatest(c) ==
  in' = IF Consumed THEN Append(in, [id |-> Last(pool).call.id, of |-> c]) ELSE in

Reply(c) == in' = IF Consumed THEN Append(in, [id |-> c.id, of |-> c]) ELSE in

\* A method that only asks the node.
Ask(i) ==
  /\ pool[i].call.kind = "ask"
  /\ Finished(i) /\ Reply(pool[i].call)
  /\ UNCHANGED <<listeners, upcoming, lostCalls>>

\* A method that is not there: the thread runs into an exception.
Unknown(i) ==
  /\ pool[i].call.kind = "unknown"
  /\ Finished(i)
  /\ lostCalls' = lostCalls \cup {pool[i].call}
  /\ UNCHANGED <<in, listeners, upcoming>>

NewTransport == [sent |-> 0, handlers |-> {}, open |-> TRUE]

\* Mutant of the next definition: it gives up when the lock is taken.
RegisterOrGiveUp(i) ==
  /\ pool[i].call.kind = "register"
  /\ Finished(i)
  /\ IF poller = Idle
       THEN /\ listeners' = Append(listeners, NewTransport)
            /\ Reply(pool[i].call)
       ELSE UNCHANGED <<listeners, in>>
  /\ UNCHANGED <<upcoming, lostCalls>>

\* registerPaymentListener waits for the lock of PendingEvents.
Register(i) ==
  /\ pool[i].call.kind = "register"
  /\ poller = Idle
  /\ listeners' = Append(listeners, NewTransport)
  /\ Finished(i) /\ Reply(pool[i].call)
  /\ UNCHANGED <<upcoming, lostCalls>>

\* Mutant of the next definition: it does not wait for the ResultMessage.
PayAtOnce(i) ==
  /\ pool[i].call.kind = "pay" /\ pool[i].step = "begin"
  /\ upcoming' = Append(upcoming, Result(pool[i].call))
  /\ Finished(i) /\ Reply(pool[i].call)
  /\ UNCHANGED <<listeners, lostCalls>>

\* sendPayment sends its transaction ...
Pay(i) ==
  /\ pool[i].call.kind = "pay" /\ pool[i].step = "begin"
  /\ pool' = [pool EXCEPT ![i].step = "waits"]
  /\ upcoming' = Append(upcoming, Result(pool[i].call))
  /\ UNCHANGED <<in, listeners, lostCalls>>

\* Mutant of the next definition: no answer for a method without a result.
PaidSilently(i) ==
  /\ pool[i].step = "paid"
  /\ Finished(i)
  /\ UNCHANGED <<in, listeners, upcoming, lostCalls>>

\* ... and holds its thread until the ResultMessage was fired.
Paid(i) ==
  /\ pool[i].step = "paid"
  /\ Finished(i) /\ Reply(pool[i].call)
  /\ UNCHANGED <<listeners, upcoming, lostCalls>>

Run(i) ==
  /\ serving /\ i \in Running(pool)
  /\ Ask(i) \/ Unknown(i) \/ Register(i) \/ Pay(i) \/ Paid(i)
  /\ UNCHANGED <<clientVars, out, callOut, callIn, serving, poller, incoming, faults>>
  /\ UNCHANGED <<answered, lostEvents, told>>

-------------------------------------------------------------------------------
(* The poller.                                                             *)

\* A payment of another bank is mined.
PaymentComes ==
  /\ incoming < MaxIncoming
  /\ incoming' = incoming + 1
  /\ upcoming' = Append(upcoming, Incoming(incoming'))
  /\ UNCHANGED <<clientVars, queueVars, serviceVars, faults, historyVars>>

\* newBlock takes the lock, with the events of the next block.
NewBlock ==
  /\ serving /\ poller = Idle
  /\ \E n \in DOMAIN upcoming :
       /\ poller' = [Idle EXCEPT !.block = SubSeq(upcoming, 1, n)]
       /\ upcoming' = SubSeq(upcoming, n + 1, Len(upcoming))
  /\ UNCHANGED <<clientVars, queueVars, serving, pool, listeners, incoming, faults, historyVars>>

Firing == serving /\ poller.block # <<>> /\ ~poller.waits
Event == Head(poller.block)
NextEvent == [Idle EXCEPT !.block = Tail(poller.block)]

NextListener == [poller EXCEPT !.listener = @ + 1, !.waits = FALSE]

\* The listener of ResultMessage completes the payment, if it still waits.
IsPaid(task) == IF task.call = Event.of THEN [task EXCEPT !.step = "paid"] ELSE task

FireResult ==
  /\ Firing /\ Event.kind = "result"
  /\ pool' = [i \in DOMAIN pool |-> IsPaid(pool[i])]
  /\ poller' = NextEvent
  /\ UNCHANGED <<clientVars, queueVars, serving, listeners, chainVars, faults, historyVars>>

\* What an exception does to the block: the rest of its events is lost.
AbortBlock ==
  /\ poller' = Idle
  /\ lostEvents' = lostEvents \cup ToSet(poller.block)

\* paymentReceived of the next listener: a request under the next id of its
\* transport.  The client has declared the queue before it registered.
CallListener ==
  LET l == poller.listener
      id == listeners[l].sent
  IN  /\ Firing /\ Event.kind = "incoming" /\ l \in DOMAIN listeners
      /\ listeners' = [listeners EXCEPT ![l].sent = id + 1, ![l].handlers = @ \cup {id}]
      /\ \/ /\ listeners[l].open
            /\ callOut' = IF nextId = 0 THEN callOut
                          ELSE Append(callOut, [listener |-> l, id |-> id, n |-> Event.n])
            /\ poller' = [poller EXCEPT !.waits = TRUE]
            /\ UNCHANGED lostEvents
         \/ /\ ~listeners[l].open
            /\ AbortBlock
            /\ UNCHANGED callOut
      /\ UNCHANGED <<clientVars, out, in, callIn, serving, pool, chainVars, faults>>
      /\ UNCHANGED <<answered, lostCalls, told>>

\* All listeners were called.
EventDone ==
  /\ Firing /\ Event.kind = "incoming" /\ poller.listener \notin DOMAIN listeners
  /\ poller' = NextEvent
  /\ UNCHANGED <<clientVars, queueVars, serving, pool, listeners, chainVars, faults, historyVars>>

IsAwaited(l, id) == poller.waits /\ poller.listener = l /\ id = listeners[l].sent - 1

\* The transports of all registrations take answers from one queue.
Takes(l) ==
  /\ serving /\ callIn # <<>> /\ listeners[l].sent > 0 /\ listeners[l].open
  /\ callIn' = Tail(callIn)
  /\ UNCHANGED <<clientVars, out, in, callOut, serving, pool, chainVars, faults>>
  /\ UNCHANGED <<answered, lostCalls, told>>

\* An answer arrives at a transport that knows its id; the poller waits for
\* it or has given up.
TakeCallbackAnswer(l) ==
  LET m == Head(callIn)
  IN  /\ Takes(l) /\ m.id \in listeners[l].handlers
      /\ listeners' = [listeners EXCEPT ![l].handlers = @ \ {m.id}]
      /\ \/ /\ IsAwaited(l, m.id) /\ m.ok
            /\ poller' = NextListener
            /\ UNCHANGED lostEvents
         \/ /\ IsAwaited(l, m.id) /\ ~m.ok
            /\ AbortBlock
         \/ /\ ~IsAwaited(l, m.id)
            /\ UNCHANGED <<poller, lostEvents>>

\* It arrives at one that does not.
TakeUnknownCallbackAnswer(l) ==
  /\ Takes(l) /\ Head(callIn).id \notin listeners[l].handlers
  /\ \E open \in BOOLEAN : listeners' = [listeners EXCEPT ![l].open = open]
  /\ UNCHANGED <<poller, lostEvents>>

\* Mutant of the next definition: the client is waited for without a limit.
WaitsForEver == FALSE

\* The client has ten seconds.
MayTimeOut == poller.waits

CallbackTimesOut ==
  /\ serving /\ MayTimeOut
  /\ AbortBlock
  /\ UNCHANGED <<clientVars, queueVars, serving, pool, listeners, chainVars, faults>>
  /\ UNCHANGED <<answered, lostCalls, told>>

-------------------------------------------------------------------------------
(* The client's callbacks.                                                 *)

\* Mutant of the next definition: the message stays in its queue.
TakeCallbackTwice ==
  /\ callOut # <<>>
  /\ callOut' = IF told[Head(callOut).n] = 0 THEN callOut ELSE Tail(callOut)
  /\ echoes' = Append(echoes, [request |-> Head(callOut), call |-> NoCall])
  /\ told' = [told EXCEPT ![Head(callOut).n] = @ + 1]
  /\ UNCHANGED <<life, nextId, handlers, gaveUp, closed, mainCall, out, in, callIn>>
  /\ UNCHANGED <<serviceVars, chainVars, faults, answered, lostCalls, lostEvents>>

TakeCallback ==
  /\ callOut # <<>>
  /\ callOut' = Tail(callOut)
  /\ echoes' = Append(echoes, [request |-> Head(callOut), call |-> NoCall])
  /\ told' = [told EXCEPT ![Head(callOut).n] = @ + 1]
  /\ UNCHANGED <<life, nextId, handlers, gaveUp, closed, mainCall, out, in, callIn>>
  /\ UNCHANGED <<serviceVars, chainVars, faults, answered, lostCalls, lostEvents>>

\* The listener pays back, as the echo bot does, and waits for the answer.
PayBack(i) ==
  LET c == NewCall("pay")
  IN  /\ i \in Running(echoes) /\ echoes[i].call = NoCall
      /\ Send(c)
      /\ echoes' = [echoes EXCEPT ![i].call = c]
      /\ UNCHANGED <<life, closed, mainCall, in, callOut, callIn, serviceVars, chainVars>>
      /\ UNCHANGED <<faults, answered, lostEvents, told>>

\* The listener returns: it did not pay, or its call was answered or timed out.
ListenerReturns(i) ==
  LET e == echoes[i]
  IN  /\ i \in Running(echoes) /\ e.call \notin handlers \ gaveUp
      /\ echoes' = RemoveAt(echoes, i)
      /\ callIn' = IF \E l \in DOMAIN listeners : listeners[l].sent > 0 /\ listeners[l].open
                   THEN Append(callIn, [id |-> e.request.id, ok |-> e.call \notin gaveUp])
                   ELSE callIn
      /\ UNCHANGED <<life, nextId, handlers, gaveUp, closed, mainCall, out, in, callOut>>
      /\ UNCHANGED <<serviceVars, chainVars, faults, historyVars>>

-------------------------------------------------------------------------------
(* Restarts.                                                               *)

\* The client starts again with new counters.  The queues it consumes from
\* are gone, what it has sent is not, and the service keeps its listeners.
ClientRestarts ==
  /\ faults < MaxFaults
  /\ faults' = faults + 1
  /\ life' = life + 1
  /\ nextId' = 0 /\ handlers' = {} /\ gaveUp' = {} /\ closed' = FALSE
  /\ mainCall' = NoCall
  /\ echoes' = <<>> /\ in' = <<>> /\ callOut' = <<>>
  /\ UNCHANGED <<out, callIn, serviceVars, chainVars, historyVars>>

\* The service stops, with its threads, listeners and queues.
ServiceStops ==
  /\ serving /\ faults < MaxFaults
  /\ faults' = faults + 1
  /\ serving' = FALSE
  /\ pool' = <<>> /\ listeners' = <<>> /\ poller' = Idle
  /\ out' = <<>> /\ callIn' = <<>>
  /\ lostCalls' = lostCalls \cup ToSet(out) \cup {pool[i].call : i \in DOMAIN pool}
  /\ lostEvents' = lostEvents \cup ToSet(poller.block)
  /\ UNCHANGED <<clientVars, in, callOut, chainVars, answered, told>>

\* It starts again and misses what was mined meanwhile.
ServiceStarts ==
  /\ ~serving
  /\ serving' = TRUE
  /\ upcoming' = <<>>
  /\ lostEvents' = lostEvents \cup ToSet(upcoming)
  /\ UNCHANGED <<clientVars, queueVars, pool, listeners, poller, incoming, faults>>
  /\ UNCHANGED <<answered, lostCalls, told>>

-------------------------------------------------------------------------------
Fire == FireResult \/ CallListener \/ EventDone

Next ==
  \/ \E kind \in Kinds : Call(kind)
  \/ TakeAnswer \/ TakeUnknownAnswer \/ TakeRequest \/ TakeCallback
  \/ \E c \in handlers : CallTimesOut(c)
  \/ \E i \in DOMAIN pool : Run(i)
  \/ PaymentComes \/ NewBlock \/ Fire \/ CallbackTimesOut
  \/ \E l \in DOMAIN listeners : TakeCallbackAnswer(l) \/ TakeUnknownCallbackAnswer(l)
  \/ \E i \in DOMAIN echoes : PayBack(i) \/ ListenerReturns(i)
  \/ ClientRestarts \/ ServiceStops \/ ServiceStarts

Spec == Init /\ [][Next]_vars

\* The threads of the service and of the client run, the blocks go on and the
\* broker delivers.
FairSpec ==
  /\ Spec
  /\ WF_vars(TakeAnswer) /\ WF_vars(TakeUnknownAnswer) /\ WF_vars(TakeRequest)
  /\ \A i \in 1 .. Threads : WF_vars(Run(i))
  /\ WF_vars(NewBlock) /\ WF_vars(Fire) /\ WF_vars(CallbackTimesOut)

-------------------------------------------------------------------------------
(* Properties                                                              *)

\* A call is completed with its own answer, in whatever order the threads of
\* the service answer, unless the client was restarted: its counter begins
\* again, and the late answer of an earlier call completes one with its id.
OwnAnswer ==
  \A a \in answered : a[2] = a[1] \/ (a[2].life < a[1].life /\ a[2].id = a[1].id)

\* No call is forgotten: while its caller waits it is on its way, with the
\* pool or answered, but for the unknown methods and for those that met with
\* a stop of the service; and a thread of the pool holds it no longer than
\* its ResultMessage is still to come, unless that was lost.
NothingForgotten ==
  /\ \A c \in handlers :
       \/ c \in ToSet(out) \cup {pool[i].call : i \in DOMAIN pool} \cup lostCalls
       \/ \E j \in DOMAIN in : in[j].of = c
  /\ \A i \in DOMAIN pool : pool[i].step = "waits" =>
       Result(pool[i].call) \in ToSet(upcoming) \cup ToSet(poller.block) \cup lostEvents

\* A listener that pays back keeps the poller waiting until it times out: as
\* long as the poller waits for it, the ResultMessage of its payment is not
\* fired and its call is not answered, for the poller would have to do it.
PollerWaitsForItself ==
  \A i \in DOMAIN echoes :
    LET e == echoes[i]
    IN  /\ e.call # NoCall /\ poller.waits
        /\ e.request.listener = poller.listener
        /\ e.request.id = listeners[poller.listener].sent - 1
        /\ Event = Incoming(e.request.n)
        => /\ \A j \in DOMAIN pool : pool[j].call = e.call => pool[j].step # "paid"
           /\ \A j \in DOMAIN in : in[j].of # e.call

\* The client hears of a payment once, and once more for every registration
\* an earlier life of it has left with the service.
ToldOnce == \A n \in DOMAIN told : told[n] <= 1 + life

\* The poller does not wait for ever for a client that is slow, gone, or
\* waits for the poller: blocks go on.
PollerIsFreed == poller # Idle ~> poller = Idle

\* A call to a service that keeps running is answered, whatever the other
\* threads of the pool wait for, if no event was lost.
CallIsAnswered ==
  \A id \in 0 .. MaxCalls - 1 :
    (\E c \in handlers : c.id = id)
      ~> (~\E c \in handlers : c.id = id) \/ lostCalls # {} \/ lostEvents # {}

===============================================================================
