------------------------- MODULE TransactionSubmission -------------------------
(***************************************************************************)
(* How the payment service gets its transactions mined: Ethereum takes the *)
(* nonces, queues the transactions and submits them with a timer of its    *)
(* own, and TransactionPoller completes the caller's future as soon as the *)
(* node has a receipt.                                                     *)
(*                                                                         *)
(* A call of sendTransaction or newContract stands for its transaction and *)
(* its future.  The node is external: its pool admits a transaction whose  *)
(* nonce is not used up, mines them in the order of their nonces, and may  *)
(* take the last one back in a reorganisation.                             *)
(***************************************************************************)
EXTENDS Integers, Sequences, FiniteSets, SequencesExt

CONSTANTS
  Calls,        \* the calls that may be made, of sendTransaction ...
  Contracts,    \* ... and those that may be of newContract as well
  NoCall,
  MaxErrors,    \* bound on the failures of the node
  MaxRestarts,  \* bound on the restarts of the process
  MaxReorgs     \* bound on the transactions a reorganisation takes back

ASSUME CallsAssumption ==
  Contracts \subseteq Calls /\ NoCall \notin Calls /\ IsFiniteSet(Calls)
ASSUME BoundsAssumption ==
  MaxErrors \in Nat /\ MaxRestarts \in Nat /\ MaxReorgs \in Nat

VARIABLES
  accountNonce,        \* the next nonce of the process
  nonce,               \* the nonce of each call, NoNonce before it has one
  caller,              \* how far the thread that makes the call is
  transactionQueue,
  taken,               \* the call whose transaction the submit timer holds
  failures,            \* how often the node refused the transaction
  dropped,             \* the transactions given up, by timer or caller
  timerAlive,          \* the thread of the submit timer has not ended
  pendingTransactions, \* those TransactionPoller asks receipts for
  toVisit,             \* entries the current round of the poller has left
  completedTransactions, \* those the round has found a receipt for
  completed,           \* the calls whose future is completed
  pool, mined,         \* the node: waiting, and mined in order of nonces
  dead,                \* the calls of an earlier process
  returnedBefore,      \* history: calls that had returned when a call began
  clean,               \* history: no restart left a transaction in the pool
  errors, reorgs, restarts

submitVars == <<transactionQueue, taken, failures, timerAlive>>
pollVars == <<pendingTransactions, toVisit, completedTransactions, completed>>
callVars == <<accountNonce, nonce, caller, returnedBefore>>
nodeVars == <<pool, mined>>
restartVars == <<dead, clean, restarts>>
vars == <<submitVars, pollVars, callVars, nodeVars, restartVars, dropped, errors, reorgs>>

NoNonce == -1
MaxRetries == 2

InState(s) == {p \in Calls : caller[p] = s}
Live == (Calls \ InState("idle")) \ dead
AtNode == pool \cup ToSet(mined)

Init ==
  /\ accountNonce = 0
  /\ nonce = [p \in Calls |-> NoNonce]
  /\ caller = [p \in Calls |-> "idle"]
  /\ transactionQueue = <<>> /\ taken = NoCall
  /\ failures = [p \in Calls |-> 0]
  /\ dropped = {} /\ timerAlive = TRUE
  /\ pendingTransactions = {} /\ toVisit = {} /\ completedTransactions = {}
  /\ completed = {}
  /\ pool = {} /\ mined = <<>>
  /\ dead = {} /\ clean = TRUE
  /\ returnedBefore = [p \in Calls |-> {}]
  /\ errors = 0 /\ reorgs = 0 /\ restarts = 0

-------------------------------------------------------------------------------
(* The callers: any number of threads of the services.                     *)

\* Mutant of the next definition: the node is asked for the nonce.
TakeNonceOfNode(p) ==
  /\ caller[p] = "idle"
  /\ nonce' = [nonce EXCEPT ![p] = Len(mined)]
  /\ accountNonce' = Len(mined) + 1
  /\ caller' = [caller EXCEPT ![p] = "holding"]
  /\ returnedBefore' = [returnedBefore EXCEPT ![p] = InState("returned") \ dead]
  /\ UNCHANGED <<submitVars, pollVars, nodeVars, restartVars, dropped, errors, reorgs>>

\* accountNonce.getAndIncrement(), in sendTransaction and newContract.
TakeNonce(p) ==
  /\ caller[p] = "idle"
  /\ nonce' = [nonce EXCEPT ![p] = accountNonce]
  /\ accountNonce' = accountNonce + 1
  /\ caller' = [caller EXCEPT ![p] = "holding"]
  /\ returnedBefore' = [returnedBefore EXCEPT ![p] = InState("returned") \ dead]
  /\ UNCHANGED <<submitVars, pollVars, nodeVars, restartVars, dropped, errors, reorgs>>

\* sendTransaction queues its transaction and returns the future.
Enqueue(p) ==
  /\ caller[p] = "holding" /\ p \notin dead
  /\ transactionQueue' = Append(transactionQueue, p)
  /\ caller' = [caller EXCEPT ![p] = "returned"]
  /\ UNCHANGED <<accountNonce, nonce, returnedBefore, taken, failures, timerAlive>>
  /\ UNCHANGED <<pollVars, nodeVars, restartVars, dropped, errors, reorgs>>

\* The transactions in the pool of the node that have the nonce of p.
Rivals(p) == {q \in pool : nonce[q] = nonce[p]}
NonceTooLow(p) == nonce[p] < Len(mined)

\* eth_sendTransaction: a transaction takes the place of the one that has its
\* nonce, or is refused for it, as the node likes.
Admit(p) ==
  /\ ~NonceTooLow(p)
  /\ pool' = (pool \ Rivals(p)) \cup {p}
  /\ UNCHANGED mined

\* The node answers with an error, because of the nonce or, so many times,
\* for reasons of its own.
Refuse(p) ==
  \/ /\ NonceTooLow(p) \/ Rivals(p) # {}
     /\ UNCHANGED errors
  \/ /\ errors < MaxErrors
     /\ errors' = errors + 1

\* newContract submits its transaction itself, ahead of the queue.
SendContract(p) ==
  /\ p \in Contracts /\ caller[p] = "holding" /\ p \notin dead
  /\ Admit(p)
  /\ pendingTransactions' = pendingTransactions \cup {p}
  /\ caller' = [caller EXCEPT ![p] = "returned"]
  /\ UNCHANGED <<accountNonce, nonce, returnedBefore, submitVars, restartVars>>
  /\ UNCHANGED <<toVisit, completedTransactions, completed, dropped, errors, reorgs>>

\* The exception goes to the caller and the nonce is gone; if it is not an
\* error of the node's, the node may have taken the transaction all the same.
ContractFails(p) ==
  /\ p \in Contracts /\ caller[p] = "holding" /\ p \notin dead
  /\ \/ /\ Refuse(p)
        /\ dropped' = dropped \cup {p}
        /\ UNCHANGED nodeVars
     \/ /\ errors < MaxErrors
        /\ errors' = errors + 1
        /\ Admit(p)
        /\ UNCHANGED dropped
  /\ caller' = [caller EXCEPT ![p] = "failed"]
  /\ UNCHANGED <<accountNonce, nonce, returnedBefore, submitVars, pollVars>>
  /\ UNCHANGED <<restartVars, reorgs>>

-------------------------------------------------------------------------------
(* The submit timer.                                                       *)

\* Mutant of the next definition: the queue is looked at, not taken from.
Peek ==
  /\ timerAlive /\ taken = NoCall /\ transactionQueue # <<>>
  /\ taken' = Head(transactionQueue)
  /\ UNCHANGED <<transactionQueue, failures, timerAlive>>
  /\ UNCHANGED <<callVars, pollVars, nodeVars, restartVars, dropped, errors, reorgs>>

\* transactionQueue.take().
Take ==
  /\ timerAlive /\ taken = NoCall /\ transactionQueue # <<>>
  /\ taken' = Head(transactionQueue)
  /\ transactionQueue' = Tail(transactionQueue)
  /\ UNCHANGED <<failures, timerAlive>>
  /\ UNCHANGED <<callVars, pollVars, nodeVars, restartVars, dropped, errors, reorgs>>

\* The node takes the transaction and the poller is told its hash.
Submit ==
  /\ taken # NoCall
  /\ Admit(taken)
  /\ pendingTransactions' = pendingTransactions \cup {taken}
  /\ taken' = NoCall
  /\ UNCHANGED <<transactionQueue, failures, timerAlive, callVars, restartVars>>
  /\ UNCHANGED <<toVisit, completedTransactions, completed, dropped, errors, reorgs>>

\* TransactionAndReceipt.failed, with the failures up to this one.
Failed(n) == n <= MaxRetries

\* Mutant of the next definition: the transaction is not queued again.
ForgetRefused ==
  /\ taken # NoCall
  /\ Refuse(taken)
  /\ failures' = [failures EXCEPT ![taken] = @ + 1]
  /\ UNCHANGED transactionQueue
  /\ dropped' = IF Failed(failures[taken] + 1) THEN dropped ELSE dropped \cup {taken}
  /\ taken' = NoCall
  /\ UNCHANGED <<timerAlive, callVars, pollVars, nodeVars, restartVars, reorgs>>

\* The node answers with an error: the transaction goes to the tail of the
\* queue, or is dropped and its future never completed.
SubmitRefused ==
  /\ taken # NoCall
  /\ Refuse(taken)
  /\ failures' = [failures EXCEPT ![taken] = @ + 1]
  /\ \/ /\ Failed(failures[taken] + 1)
        /\ transactionQueue' = Append(transactionQueue, taken)
        /\ UNCHANGED dropped
     \/ /\ ~Failed(failures[taken] + 1)
        /\ dropped' = dropped \cup {taken}
        /\ UNCHANGED transactionQueue
  /\ taken' = NoCall
  /\ UNCHANGED <<timerAlive, callVars, pollVars, nodeVars, restartVars, reorgs>>

\* Any other failure, a lost connection say, is an exception the timer does
\* not survive.  The node may have taken the transaction all the same.
SubmitTimerEnds ==
  /\ taken # NoCall /\ errors < MaxErrors
  /\ errors' = errors + 1
  /\ timerAlive' = FALSE
  /\ taken' = NoCall
  /\ \/ /\ Admit(taken)
        /\ UNCHANGED dropped
     \/ /\ dropped' = dropped \cup {taken}
        /\ UNCHANGED nodeVars
  /\ UNCHANGED <<transactionQueue, failures, callVars, pollVars, restartVars, reorgs>>

-------------------------------------------------------------------------------
(* TransactionPoller.run                                                   *)

StartRound ==
  /\ toVisit = {} /\ completedTransactions = {} /\ pendingTransactions # {}
  /\ toVisit' = pendingTransactions
  /\ UNCHANGED <<pendingTransactions, completedTransactions, completed>>
  /\ UNCHANGED <<submitVars, callVars, nodeVars, restartVars, dropped, errors, reorgs>>

\* Mutant of the next definition: no look at the receipt.
VisitBlindly(p) ==
  /\ p \in toVisit
  /\ toVisit' = toVisit \ {p}
  /\ completedTransactions' = completedTransactions \cup {p}
  /\ completed' = completed \cup {p}
  /\ UNCHANGED pendingTransactions
  /\ UNCHANGED <<submitVars, callVars, nodeVars, restartVars, dropped, errors, reorgs>>

\* eth_getTransactionReceipt for one entry; a mined transaction has one.
Visit(p) ==
  /\ p \in toVisit
  /\ toVisit' = toVisit \ {p}
  /\ \/ /\ p \in ToSet(mined)
        /\ completedTransactions' = completedTransactions \cup {p}
        /\ completed' = completed \cup {p}
     \/ /\ p \notin ToSet(mined)
        /\ UNCHANGED <<completedTransactions, completed>>
  /\ UNCHANGED pendingTransactions
  /\ UNCHANGED <<submitVars, callVars, nodeVars, restartVars, dropped, errors, reorgs>>

\* Mutant of the next definition: nothing is removed.
EndRoundKeepingAll ==
  /\ toVisit = {} /\ completedTransactions # {}
  /\ completedTransactions' = {}
  /\ UNCHANGED <<pendingTransactions, toVisit, completed>>
  /\ UNCHANGED <<submitVars, callVars, nodeVars, restartVars, dropped, errors, reorgs>>

\* What the round has completed is removed.
EndRound ==
  /\ toVisit = {} /\ completedTransactions # {}
  /\ pendingTransactions' = pendingTransactions \ completedTransactions
  /\ completedTransactions' = {}
  /\ UNCHANGED <<toVisit, completed>>
  /\ UNCHANGED <<submitVars, callVars, nodeVars, restartVars, dropped, errors, reorgs>>

\* An exception ends the round: what it has completed is not removed.
RoundFails ==
  /\ toVisit # {} /\ errors < MaxErrors
  /\ toVisit' = {}
  /\ completedTransactions' = {}
  /\ errors' = errors + 1
  /\ UNCHANGED <<pendingTransactions, completed>>
  /\ UNCHANGED <<submitVars, callVars, nodeVars, restartVars, dropped, reorgs>>

-------------------------------------------------------------------------------
(* The node and the process.                                               *)

Mine(p) ==
  /\ p \in pool /\ nonce[p] = Len(mined)
  /\ mined' = Append(mined, p)
  /\ pool' = pool \ {p}
  /\ UNCHANGED <<submitVars, pollVars, callVars, restartVars, dropped, errors, reorgs>>

\* A reorganisation: the node puts what was mined back into its pool.
Unmine ==
  /\ reorgs < MaxReorgs /\ mined # <<>>
  /\ mined' = Front(mined)
  /\ pool' = pool \cup {Last(mined)}
  /\ reorgs' = reorgs + 1
  /\ UNCHANGED <<submitVars, pollVars, callVars, restartVars, dropped, errors>>

\* The process ends and a new one starts from eth_getTransactionCount of the
\* latest block, which does not count the pool.
Restart ==
  /\ restarts < MaxRestarts
  /\ restarts' = restarts + 1
  /\ dead' = Calls \ InState("idle")
  /\ clean' = (clean /\ pool = {})
  /\ accountNonce' = Len(mined)
  /\ transactionQueue' = <<>> /\ taken' = NoCall /\ timerAlive' = TRUE
  /\ pendingTransactions' = {} /\ toVisit' = {} /\ completedTransactions' = {}
  /\ UNCHANGED <<nonce, caller, returnedBefore, failures, completed, dropped>>
  /\ UNCHANGED <<nodeVars, errors, reorgs>>

-------------------------------------------------------------------------------
CallerStep(p) ==
  TakeNonce(p) \/ Enqueue(p) \/ SendContract(p) \/ ContractFails(p)
SubmitStep == Take \/ Submit \/ SubmitRefused
PollStep == StartRound \/ (\E p \in toVisit : Visit(p)) \/ EndRound

Next ==
  \/ \E p \in Calls : CallerStep(p) \/ Mine(p)
  \/ SubmitStep
  \/ SubmitTimerEnds
  \/ PollStep
  \/ RoundFails
  \/ Unmine
  \/ Restart

Spec == Init /\ [][Next]_vars

\* A thread that has begun a call goes on with it, the timers run, and the
\* node mines what its pool has next.
FairSpec ==
  /\ Spec
  /\ \A p \in Calls : WF_vars(Enqueue(p) \/ SendContract(p) \/ ContractFails(p))
  /\ WF_vars(SubmitStep)
  /\ WF_vars(PollStep)
  /\ \A p \in Calls : WF_vars(Mine(p))

-------------------------------------------------------------------------------
(* Properties                                                              *)

\* No transaction is forgotten or doubled: each of the present process has a
\* nonce of its own and is in exactly one place, with the thread that makes
\* it, in the queue, in the hands of the submit timer, with the node, or
\* given up; and a timer that runs gives up after the last retry only
\* (sendTransaction, the submit timer, TransactionAndReceipt.failed).
Places(p) ==
  <<caller[p] = "holding", p \in ToSet(transactionQueue), p = taken, p \in AtNode, p \in dropped>>

EachInOnePlace ==
  /\ IsInjective(transactionQueue)
  /\ \A p \in Live :
       /\ \E i \in 1 .. 5 : {j \in 1 .. 5 : Places(p)[j]} = {i}
       /\ \A q \in Live \ {p} : nonce[q] # nonce[p]
       /\ p \in dropped \ Contracts /\ timerAlive => failures[p] = MaxRetries + 1

\* Transactions take effect in the order of the calls: one is mined only
\* after all those whose calls had returned before its own began, whatever
\* order the queue and the retries submit them in, and never if one of them
\* was dropped.  It takes that no restart left a transaction in the pool.
MinedBefore(p, q) ==
  \E i, j \in DOMAIN mined : i < j /\ mined[i] = p /\ mined[j] = q
EffectsInCallOrder ==
  clean => \A q \in ToSet(mined) : \A p \in returnedBefore[q] : MinedBefore(p, q)

\* A completed future means a mined transaction, but for those that later
\* reorganisations took back: TransactionPoller waits for no confirmations.
\* Even these are not lost, unless a restart left a transaction in the pool.
CompletedIsMined ==
  /\ Cardinality(completed \ ToSet(mined)) <= reorgs
  /\ clean => completed \subseteq AtNode

\* Every future is completed in the end, unless its transaction or one with a
\* lower nonce was dropped, an exception ended the submit timer or
\* newContract, or the process ended.  A dropped transaction harms none but
\* itself and later ones.  After a restart it takes that the pool was empty.
GaveUp(p) ==
  p \in dead \/ ~clean \/ ~timerAlive \/ caller[p] = "failed" \/ \E q \in dropped : nonce[q] <= nonce[p]
EveryCallCompletes ==
  \A p \in Calls : caller[p] = "holding" ~> p \in completed \/ GaveUp(p)

\* The poller does not ask for the receipts of completed transactions for
\* ever, though an exception may end a round before it removes them.
CompletedIsForgotten ==
  \A p \in Calls : p \in completed ~> p \notin pendingTransactions

===============================================================================
