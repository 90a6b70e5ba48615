# Verification of ethiso in TLA+

ethiso lets banks settle payments over an Ethereum contract: every pair of
banks has a trustline per currency, a payment moves its balance, and limits set
by the creditor and allowances given by the debtor bound the debt.  This
directory holds TLA+ models of the parts of that system where order, failure or
arithmetic decide whether it is right, TLC configurations that check them on
small instances, and proofs that hold for instances of every size.

Paths below are relative to `src/`.

## 1. Inventory

| part | where | state it keeps | operations |
|---|---|---|---|
| PaymentService contract | `ethiso-api/src/main/contracts/PaymentService.sol` | balance, limits and allowances per ordered pair of addresses and currency | `setLimit`, `setAllow`, `sendPayment`; getters; events `TrustlineModified`, `PaymentMessage`, `ResultMessage` |
| trustline domain class | `ethiso-core/.../domain/TrustlineValue.java` | the same for one pair, unbounded | `setLimit`, `setAllow`, `sendPayment`, `reverse` |
| event confirmation | `ethiso-payment-service/.../PendingEvents.java`, `BlockPoller.java` | the youngest blocks, by number and by hash; a block filter in the node | `newBlock`, `importBlocks`, the poll |
| transaction submission | `.../Ethereum.java`, `TransactionPoller.java` | nonce counter, transaction queue, pending transactions | `sendTransaction`, `newContract`, submit timer, receipt poller |
| payment service | `.../contract/PaymentServiceImpl.java` | `pendingPayments` by message id | `sendPayment(Async)`, `setLimit`, `setAllow`, `ResultMessage` listener, payment and trustline listeners |
| registrars | `NameToAddressRegistrar.sol`, `contract/*Registrar.java` | name to address | `setAddress`, `getAddress`, reserve and lookup |
| bootstrap | `PaymentServiceMain.java`, `ContractProxy.java` | addresses of the contracts | WAIT and INSTALL modes |
| JSON-RPC | `json-rpc-core`, `json-rpc-rabbitmq`, `json-rpc-http`, `json-rpc-vertx` | correlation ids and reply handlers, a pool of five threads, a shared HTTP server | call, serve, pass a callback as a service |
| echo bot | `ethiso-echobot/.../EchoBot.java` | none of its own | mirrors grants, echoes payments |
| ISO 20022 broker | `ethiso-iso20022/...` | none of its own | consumes credit transfers, sends status reports |
| REST and WebSocket | `.../rest/*.java` | sessions | delegates to the payment service |
| statistics client | `ethiso-ethstats/src/main/docker/app.js`, `lib/node.js` | flags of node and socket, timers, statistics, queues of blocks | connect and reconnect, update interval, block queues, synchronisation, history, stop |
| ABI encoding | `.../FunctionEncoding.java`, `types/*` | none | encode and decode |

How they interact.  A client (REST, ISO broker, echo bot) calls the payment
service over JSON-RPC.  The service resolves the receiver's BIC with a
registrar contract and queues a transaction; a timer hands the queue to the
node, which mines the transactions in the order of their nonces.  The contract
emits events.  A second timer polls the node for new blocks; `PendingEvents`
holds them back until enough blocks have grown on top and then fires the
handlers: `ResultMessage` completes the payment's future, `PaymentMessage` and
`TrustlineModified` are passed on to listeners, which for remote clients is a
JSON-RPC call in the opposite direction, made by the polling thread.  Before all
that the services come up: a primary installs the contracts and serves their
addresses, a secondary waits for them.  Beside it, a JavaScript client watches
the Ethereum node and reports to a statistics server over a web socket.

What is hard.  The contract stores one balance for two points of view and
computes with wrapping integers; the chain forks and is reorganised while the
service works through it; any call to the node or to a listener may fail half
way; nothing is persisted, so a restart starts from the chain; nonces are taken,
queued, submitted, retried and dropped by different threads; callbacks re-enter
the service from the thread it waits for; correlation ids and callbacks cross a
message broker.  `PROJECT.json` lists each hazard at the line where it bites
("hazards") with the properties that cover it, or the reason
why none does.

What makes the parts correct:

* contract: balances are equal and opposite, move only by accepted payments and
  only against their sender, within grants; events tell the whole story;
* event confirmation: events come once, in order, finally and eventually;
* transaction submission: no transaction is forgotten or doubled, effects come
  in the order of the calls, every future completes unless a nonce was given up;
* payment service: the future of a payment tells the contract's verdict, no
  answer is forgotten, the receiver and nobody else is told;
* JSON-RPC: an answer reaches the call it answers and no other, no call is
  forgotten, and the poller never waits for ever for a client that waits for it;
* bootstrap: every service gets to serve, with the same contracts as the others,
  and these are the ones the registrar names;
* statistics client: one update interval whatever timers race, and the server
  learns of outages, recoveries and blocks, and the socket's flag is never left
  over.

## 2. The modules and the plan

| module | what it is | proofs |
|---|---|---|
| `TrustlineValue` | abstract specification of a trustline | |
| `PaymentService`, `PaymentServiceRefinement` | the contract, and that it implements the abstract one | `PaymentServiceProofs` |
| `Blockchain`, `PendingEvents` | the node's chain (external) and event confirmation over it | `PendingEventsProofs` |
| `TransactionSubmission` | nonces, queue, submit timer, receipt poller | `TransactionSubmissionProofs` |
| `PaymentFlow` | a payment from end to end over the layers below, in abstract form | `PaymentFlowProofs`, `PayeeProofs` |
| `JsonRpc` | a client over RabbitMQ, the service's pool, its poller and its callbacks | `JsonRpcProofs` |
| `Bootstrap` | primaries and secondaries against one chain | `BootstrapProofs` |
| `NetStats` | the statistics client | `NetStatsProofs` |
| `MCPaymentService`, `MCPaymentServiceWide`, `MCPaymentFlow` | sets and symmetries of the instances that TLC checks | |

What is left, in order:

1. The trustline listener with the echo bot's grants in answer to grants.
2. Two primaries that start together, once it is settled what they should do:
   the documentation speaks of one.
3. Pure operators: ABI head and tail layout and the integer converters, checked
   against a reference definition over bounded inputs.

## 3. The contract

### `TrustlineValue.tla`: what a trustline promises

The Java class, with a triple `<<x, y, ccy>>` for the view of a trustline from
x's end; `reverse()` swaps the ends.  `sendPayment` of the class books a payment
from the creditor's point of view, so the near end's claim grows.  Numbers are
unbounded (`BigInteger`).  Calls that throw change nothing and are no action.

### `PaymentService.tla`: the contract

One action per outcome of a contract function; a transaction is atomic.

| contract | module |
|---|---|
| `trustlines[p1][p2][ccy]` for p1 <= p2 | `trustlines`, indexed by `StoredLines` |
| `getTrustlineValue`, `senderIsP1Against` | `Stored`, `SenderIsP1Against`, `WeOwe`, `TheyOwe` |
| `getLimit`, `getAllow` (and with `reverse`), `getAmountOwedTo` | `GetLimit`, `GetReverseLimit`, `GetAllow`, `GetReverseAllow`, `GetAmountOwedTo` |
| assignments of `setLimit`, `setAllow`, `sendPayment` | `WithLimit`, `WithAllow`, `WithBalance` |
| `setLimit`, `setAllow` with a non-negative amount | `SetLimit`, `SetAllow` |
| the same with a negative amount | `RefuseNegativeGrant` |
| `sendPayment` that succeeds / is refused (codes 1 to 4) | `AcceptPayment` / `RejectPayment` |
| `int` | `Int256`, with `Wrap` after every operation; its width is the constant `MaxInt` |

`receipt` holds sender and logs of the last transaction.  `replayed`,
`peakLimit` and `peakAllow` are history: no action reads them.  Texts of
messages, the additional properties of a payment, gas and the never-called
debug events are left out.

### Properties and runs

| run | instance | shows |
|---|---|---|
| `Contract.cfg` | two banks that call each other, one of them itself too, amounts -1, 0, 1, ints -4..3 | `NoOverflow`, the inductive invariant; `BalancesReplayEvents`, `DebtBackedByGrants`, `AcceptsExactlyWithinGrants`, `LimitEventsDescribeTrustline`, `OnlyDebtorRaisesDebt`, `GrantsChangedOnlyByGrantor`, and the refinement `ImplementsTrustlineValue` |
| `AllowEvents.cfg` | two banks that call each other | `AllowEventsDescribeTrustline` is violated: see findings |
| `WideAmounts.cfg` | amounts over all of a three-bit int | `AcceptsExactlyWithinGrants` is violated by wrapping: see findings |

Why the bounds are enough: the contract compares addresses only for their order,
so two banks and the zero address exhaust its cases; trustlines of different
pairs or currencies share no state; two amounts allow a debt to be built up,
reversed, refused at the limit and stranded above a lowered limit.  The proofs
remove the bounds.

No fairness is assumed: a contract promises nothing about when it is called.
The runs contain no deadlock, because a payment can always be tried.

### Proofs (`PaymentServiceRefinement.tla`, `PaymentServiceProofs.tla`)

For every set of banks, currencies, counterparties and amounts and every width
of int, from `BanksAssumption` (addresses are positive numbers), `MaxIntAssumption`,
`AmountsAssumption` and `SmallAmounts` (twice the largest amount is an int):

* `NoOverflowInvariant`: `Spec => []NoOverflow`.  A type invariant alone is not
  inductive, since a stored balance may be any int.  That no sum wraps follows
  from balances being bounded by grants (`BalancesBounded`), which needs grants
  to be bounded by the largest amount (`GrantsBounded`), and the bound in one
  direction gives the bound in the other because the balance is equal and
  opposite — which in turn holds only where negation does not wrap.  So the
  parts are proved together.  `GrantsWithinPeaks` carries `DebtBackedByGrants`.
* `TypeCorrect`, `NoDebtWithoutConsent`, `EventsTellBalances`,
  `LimitTestCorrect`: the invariants the runs check.
* `DebtRaisedByDebtor`, `GrantsChangedByGrantor`: the action properties.
* `Implementation`: the contract implements `TrustlineValue`.

The argument goes through lemmas on the getters: what `WithLimit`, `WithAllow`
and `WithBalance` do to the answer of each getter at each line
(`WithLimitEffect`, `WithAllowEffect`, `PaymentEffect`), that the two ends of a
line see equal and opposite amounts (`EqualAndOpposite`) and that the limit test
is computed exactly (`ExactTest`).  `StepOnLines` then says what one transaction
does to all lines, and the refinement and the action properties follow from it.

`LimitEventsTellTrustline` proves `LimitEventsDescribeTrustline`.  No invariant is
needed beyond the types: the code reads the other three amounts before it writes
the limit, and the event tells the truth after it because the write leaves those
three alone at both ends of the line (`LimitEventDescribes`); the limit events of
earlier transactions are not in the receipt any more.

## 4. Event confirmation

### `Blockchain.tla` (external) and `PendingEvents.tla`

The node is modelled from its use: a tree of blocks, a head, and the block
filter that collects heads between polls.  A branch that gets longer than the
canonical chain replaces it, one that gets as long may.  `MaxReorg` bounds how
many blocks a new head takes off the chain and `MaxBlocks` how many are mined.
The filter is assumed to live as long as the process that created it.

`newBlock` runs under a lock on the one polling thread, but calls the node for
receipts while the node moves on, so it is split there:

| code | module |
|---|---|
| `eth_getFilterChanges` in `BlockPoller.run` | `Poll` |
| `importBlocks`, then the computation of `blocksToRemove` and `inChain` | `NewBlock` (with `Imported`, `OldBlocks`, `InChain`) |
| one round of the removal loop | `Fire`, `Prune`, `NoReceipt` (null receipt, line 107) |
| `blocksToRemove.clear()`, next hash | `Clear` |
| an exception, caught in `BlockPoller.run` | `FiringFails`, `ImportFails`, `FetchFails`, `PollFails`, at most `MaxExceptions` |
| death and restart of the process | `Crash`, `Start`, at most `MaxCrashes` |

`blockDepth` is the set of hashes in the index (its keys are their numbers) and
`blockInfoMap` the set of keys of the map.  A block stands for the events of its
transactions; topics, decoding and the list of handlers are left out.
`ImportDepth` is the 5 that `importBlocks` adds to the confirmation count, so
that a walk brings in at most `BlockConfirmationCount + ImportDepth + 2` blocks.

### Properties and runs

| run | instance | shows |
|---|---|---|
| `Confirmation.cfg` | 7 blocks, 2 confirmations, reorganisations of 1 | `FiredOnce`, `FiredForGood`, and under fairness `ConfirmedIsFired` |
| `Interruptions.cfg` | the same with two exceptions, a crash and reorganisations of up to 3, import depth 0 | `FiredInOrder` while reorganisations are shallow and walks are finished, `NothingSkipped` while no exception hits `newBlock` either, and `OnlyYoungKept` until one does |
| `DeepReorg.cfg` | 8 blocks, reorganisations of 2 | `FiredOnce` is violated: see findings |

Seven blocks hold a fork at every height, a branch that overtakes another, and
several blocks that become confirmed by one head.  Import depth 0 in
`Interruptions.cfg` makes the walk short enough to fall short: `NothingSkipped`
says exactly how far it reaches (`ImportDepth + 2` blocks between two handled
heads; 7 with the depth of the code).

Fairness: `FairSpec` is weakly fair to the polling thread, a `Timer` at a fixed
rate whose task catches every `RuntimeException`, so it always runs again.  No
fairness is asked of the node's mining, of exceptions or of crashes.  Deadlock
is not checked because mining ends at `MaxBlocks`.

### Proofs (`PendingEventsProofs.tla`)

For every confirmation count, import depth and bound, with any tree of blocks,
from `CountsAssumption`, `MaxBlocksAssumption` and `MaxReorgAssumption`:

* `OrderKept` (`FiredInOrder`), `NoneSkipped` (`NothingSkipped`) and
  `MemoryBounded` (`OnlyYoungKept`), without further hypotheses;
* `Final` (`FiredForGood`) when no reorganisation takes off more blocks than the
  confirmation count, which `DeepReorg.cfg` shows to be less than `FiredOnce`
  needs;
* `AtMostOnce` (`FiredOnce`) when every reorganisation takes off fewer, as long
  as walks are finished (`whole`), and `OnceWithoutFailures` with no exception.

One inductive invariant, `IInv`, carries them all.  A theory of the tree comes
first, without recursion: a line has one block of each number, and the line of
each of its blocks is the part below it (`LineOK`); a block stays canonical when
a new head takes off no more blocks than lie on top of it (`Stays`, an injection
and a count of elements).  Then:

* what waits in the filter, in the poll and in the index comes in the order in
  which it was head, and the heights of heads never fall (`QueuesOK`, `DepthOK`);
  what was a head once is settled but for its last blocks (`Settled`);
* what is in the index but not in the map is old (`KeptOK`), and the ancestors of
  a kept block are kept or old (`Connected`) — this is what an unfinished walk
  breaks, and what makes it safe that the walk of `importBlocks` ends at the
  first parent that is kept (`WalkReaches`, `WalkStops`);
* what is old and kept is on the list of the removal loop (`RemovalOK`);
* nothing that is kept lies below a block that was fired (`NoneBelowFired`):
  above each fired block there is a kept block at which the walk of every later
  head ends (`KeptAboveFired`).  So a block cannot be imported and fired again,
  nor below one that was fired: this is `FiredInOrder`;
* canonical blocks that were confirmed when the last head was handled were
  fired, or the loop still has them (`FiredUpTo`): this is `NothingSkipped`.

The attempt corrected two properties that had held in `Interruptions.cfg` for
the smallness of the instance, and TLC showed why on others.  `FiredInOrder`
needs walks to be finished: with three confirmations, a poll that is lost and an
RPC that fails in the middle of the next walk leave blocks without ancestors in
the map; a reorganisation of two blocks, fewer than the count, then forks off
below them, its walk passes the blocks already fired, and they are fired again.
`NothingSkipped` needs reorganisations to be shallow: with one confirmation and
reorganisations of three, the blocks of a branch that comes back have left the
index by then.

`ConfirmedIsFired` is model-checked only.

## 5. Transaction submission

### `TransactionSubmission.tla`

A call of `sendTransaction` or `newContract` (the set `Contracts`) stands for its
transaction and its future.  Any number of threads call; the submit timer and
`TransactionPoller` have a thread each; the node is external.

| code | module |
|---|---|
| `accountNonce.getAndIncrement()` | `TakeNonce`; a thread may stop between it and the queue |
| `transactionQueue.add` in `sendTransaction` | `Enqueue` |
| `newContract` from the RPC on | `SendContract`, `ContractFails` |
| the submit timer: `take`, RPC and `addPendingTransaction`, a `JsonRpcException`, any other exception | `Take`, `Submit`, `SubmitRefused`, `SubmitTimerEnds` |
| `TransactionAndReceipt.failed` | `Failed`, `failures` |
| `TransactionPoller.run`: the loop, one entry, the removal, an exception | `StartRound`, `Visit`, `EndRound`, `RoundFails` |
| a new process and its first nonce | `Restart` |

The answer of `eth_sendTransaction` and `addPendingTransaction` are one action:
nothing else looks at the pending transactions of that hash in between.  The
iteration over the concurrent map is a snapshot; an entry added during a round
may also be seen by the next.  A request that is on its way when the process
ends has reached the node before the restart, or never does.

The node (`Admit`, `Refuse`, `Mine`, `Unmine`) refuses a used nonce, lets a
transaction replace the one with its nonce or refuses it, mines in the order of
nonces, answers with an error of its own at most `MaxErrors` times (a bound
shared with the other failures), and takes back at most `MaxReorgs` mined
transactions, which return to its pool.

`returnedBefore` and `clean` are history.  `clean` is false once a restart left
a transaction of the old process in the node's pool: the new process then takes
nonces that are in use, and its transactions are refused until they are dropped
or replace the old ones.  `EffectsInCallOrder` and half of `CompletedIsMined`
are claimed only while `clean` holds, because they fail without it.

### Properties and runs

| run | instance | shows |
|---|---|---|
| `Submission.cfg` | a call of `sendTransaction` and one of either kind, five failures, one restart, two reorganisations | `EachInOnePlace`, `EffectsInCallOrder`, `CompletedIsMined`, and under fairness `EveryCallCompletes`, `CompletedIsForgotten` |

Two calls are enough for nonces queued in reverse, a retry behind a higher nonce
and a contract that overtakes the queue; three failures drop one transaction,
the others hit another, the timer or the poller.  Three calls are left to the
proofs.

Fairness: `FairSpec` is weakly fair to each thread within a call, to the submit
timer as long as it lives, to the receipt poller (its task catches every
`RuntimeException`), and to the node's mining of what its pool has next, an
assumption on the network.  No fairness is asked of new calls, failures or
reorganisations.  Deadlock is not checked because the calls come to an end.

### Proofs (`TransactionSubmissionProofs.tla`)

For any finite set of calls and any bounds, from `CallsAssumption`.

`NothingLostOrDoubled`: `Spec => []EachInOnePlace`.  The property is not
inductive: that a transaction has a nonce of its own needs the counter to be
ahead of all nonces of the present process (`NoncesUsed`); that it is in one
place needs to know that calls not yet made, and what belongs to an earlier
process, are in none of them (`Idle`, `Ours`); and that a transaction is given
up after the last retry only needs the failures of all others to be below it
(`Counted`).  A step that moves one call is one lemma (`MoveInvariant`), which
the actions of callers and timer instantiate; a transaction the node admits
replaces none of the present process (`AdmitEffect`), because nonces differ.

`OrderHolds` and `CompletionMeansMined` need a second invariant besides.  The
mined transactions have the nonces 0, 1, 2 and so on (`MinedByNonce`), so a
transaction is mined only after one of each lower nonce; that these are those of
the calls that returned before takes that no other transaction with the node has
the nonce of such a call (`NonceIsKept`), and this fails after a restart unless
the transactions of earlier processes have lower nonces than all that come
(`DeadAreBelow`), which is what `clean` is needed for.

`EveryCallCompletes` and `CompletedIsForgotten` are model-checked only.

## 6. A payment from end to end

### `PaymentFlow.tla`

The services of several banks, the registrar of BICs and the contract, with the
layers below in the form their own modules establish: a bank's transactions are
mined in the order they were queued and none after a dropped one
(`EffectsInCallOrder`); events are fired in the order of the chain, once per
process, for blocks that stay (`FiredOnce`, `FiredInOrder`, `FiredForGood`),
while calls see the latest block; the contract answers 1 or 2 by the addresses,
else 0, 3 or 4.  The limit test is any answer here and exact in
`PaymentService.tla`; the encoder refuses a negative amount, but amounts from
2^255 on pass it (`IntTypeConverterFactory.java:46`) and are negative for the
contract, which answers 3.  A transaction may also be mined and fail, out of gas
for one (`NoResult`, a fault): it changes nothing and emits nothing, but its
receipt completes what waits for it.  The future of such a payment waits for
ever, because its receipt is ignored (`PaymentServiceImpl.java:176`).

| code | module |
|---|---|
| `sendPaymentAsync`: resolving the BIC / registering the future and queueing / an exception | `Resolve` / `Send` / `SendThrows` |
| `registerBic`: `setAddress`, its receipt, `getAddress` | `RegisterBic`, `HasReceipt`, `BicRegistered` |
| `ResultMessage` listener | `Answered`, `Outcome` |
| payment listener | `ToldOf`, `ForUs` |
| the events of one transaction | `FirePayment`, `FireNothing`, `ListenerThrows` |
| chain | `Mine`, `Unmine`, `Drop` (external, and `TransactionAndReceipt.failed`) |
| a new process | `Restart` |

`final` is how much of the chain has had its events fired by any service; no
reorganisation goes below it.  A listener's exception loses the rest of the
block, which is any number of the following entries.  A restarted service may
see events again or miss some, as `PendingEvents` explains.

### Properties and runs

| run | instance | shows |
|---|---|---|
| `PaymentFlow.cfg` | two banks, one BIC, two payments, any two faults (6.1 million states), symmetric in banks and ids | `FutureTellsVerdict`, `NoAnswerForgotten`, `ToldAsBooked`, `PayeeIsTold`, `RegistrationHasWinner` |
| `BicChangesHands.cfg` | one payment, no faults | `ActedUponOnlyAtThem` is violated: see findings |

One BIC that both banks may register, before or after a payment to it was
resolved, mined or handled, is the case the lookups can disagree on; two
payments show one overtaken by the fault of the other.  `MaxFaults` bounds
reorganisations, drops, failed transactions, exceptions and restarts together.  Symmetry is sound
because the properties are invariants and treat all banks and ids alike.  That
waiting futures are answered in the end is the safety property
`NoAnswerForgotten` together with the liveness the layers below are checked for
(`EveryCallCompletes`, `ConfirmedIsFired`); no fairness is assumed here.
Deadlock is not checked because the calls come to an end.

### Proofs (`PaymentFlowProofs.tla`)

For any banks, BICs, payments and number of faults, from `NamesAssumption`:
`VerdictsHold` (`FutureTellsVerdict`), `AnswersCome` (`NoAnswerForgotten`) and
`BookedIsTold` (`ToldAsBooked`).  One inductive invariant carries them.  The
verdict a future tells is that of an entry below `final`, which no
reorganisation reaches (`Verdicts`); that it is the only one takes that a
transaction is in one place at most, in one queue or once on the chain (`Once`;
for a registration because a bank asks for a BIC once, `Asked`), and that what a
bank queues is its own (`Owned`).  A future that waits has its id in
the table of the bank that sent the payment and the transaction queued, mined
and not yet handled, mined and failed, or lost (`Waiting`).  What a bank was told is final and was
accepted, and the bank was once registered for the BIC of the payment (`Told`,
`Known`); the property adds that a BIC with one registration has one bank.

`PayeeProofs.tla` adds what banks are told of.  `WinnerIsTold`
(`RegistrationHasWinner`): the registrar answers with the last registration on
the chain (`AnswerIsLast`), so whoever was told "false" was followed by the
registration of another bank (`Beaten`); this stays so while the chain only grows,
which is why the property excludes reorganisations, and the bank that was last
cannot have been told "false".  `PayeeIsToldOnce` (`PayeeIsTold`): what a bank has
handled and was booked for its BIC was told (`HandledIsTold`), what it was told is
an entry it has handled (`ToldIsHandled`), and no payment twice (`ToldOnce`); since
handled entries are final and a payment is mined once, a payment to be handled
was not told before.

## 7. The payment service over RabbitMQ

### `JsonRpc.tla`

A client, for one the echo bot, calls the service over RabbitMQ and the service
calls it back.  The broker is external: its queues are FIFO, take nothing when
nobody has declared them and are deleted with the last of their consumers; its
library may close a channel when a consumer throws.

| code | module |
|---|---|
| `sendInternal`, the handler and the correlation id | `Send`, used by `Call` (main thread) and `PayBack` (callback) |
| the consumer of answers: a handler, none | `TakeAnswer`, `TakeUnknownAnswer` |
| a call that is waited for in vain | `CallTimesOut` |
| the consumer of requests, `executor.submit` | `TakeRequest`; the first `Threads` entries of `pool` run |
| a method, by what it does with its thread | `Ask`, `Unknown`, `Register`, `Pay` and `Paid` |
| the reply under the correlation id of the request | `Reply` |
| `newBlock` under its lock, the fired events | `NewBlock`, `FireResult`, `CallListener`, `EventDone` |
| a listener that is a service of the client | `TakeCallback`, `ListenerReturns`, `TakeCallbackAnswer`, `TakeUnknownCallbackAnswer`, `CallbackTimesOut` |
| restarts | `ClientRestarts`, `ServiceStops`, `ServiceStarts` |

A method is one of four kinds: it only asks the node, it needs the lock of the
poller (`registerPaymentListener`), it holds its thread until an event was fired
(`sendPayment`), or it does not exist.  Mining and confirmation are a sequence
of events to come (`upcoming`); `PendingEvents` is where they are looked at.

| run | instance | shows |
|---|---|---|
| `JsonRpc.cfg` | two threads, three calls, one payment of others, one fault | `OwnAnswer`, `NothingForgotten`, `PollerWaitsForItself`, `ToldOnce`, and under fairness `PollerIsFreed`, `CallIsAnswered` |

Three calls are a registration and two that may fill both threads of the pool,
or one and the payment made from the callback.  One fault is a timed out call, a
restart of the client or a stop of the service; callbacks may time out without
being counted.  `OwnAnswer` says exactly how far it reaches: after a restart
counters begin again and a late answer is taken for that of another call.
`PollerWaitsForItself` is a statement of what goes wrong: a listener that pays
back is not answered before the poller has given up on it, whatever the order.
`CallIsAnswered` excuses itself only by calls or events known to be lost.

Fairness: the threads of the service run (executor, timer), the broker delivers
what it has, and a callback is given up after its ten seconds.  No fairness is
asked of the client, of new calls or of faults.  Deadlock is not checked because
calls and payments are bounded.

### Proofs (`JsonRpcProofs.tla`)

`AnswersMatch`: `Spec => []OwnAnswer`, for any number of threads, calls,
payments and faults.  A handler takes whatever bears its id, so what has to be
shown is that an id names one call: ids of the present life are below the
counter and other calls of an earlier one (`Issued`), so no two calls that are
anywhere on their way share life and id (`Unique`), and an answer bears the id
of its request (`Types`).

`CallsAreKept`: `Spec => []NothingForgotten`, with as much freedom.  On top of the
invariant above the second one, `FInv`, follows a call from the queue of requests
through the pool to the answers or to the lost ones (`Kept`), knows that a
closed channel brings no answer (`ClosedLoses`: a reply it drops is that of a
call already lost), and finds what a thread waits for among the events to come,
in the block of the poller or among the lost ones (`Coming`): the poller fires an
event and wakes its thread in one step, or gives up the rest of the block.

`HeardOnce` (`ToldOnce`) and `PollerBlocksItself` (`PollerWaitsForItself`) rest on a
third invariant, `CInv`.  Events are fired in the order of the chain, and of an
event that is still to be fired the client was told, or has a message on the
way, by the listeners only that the poller has called for it (`InOrder`).  So
messages of one payment come in the order of the listeners (`ByListener`), and
what the client was told of it is bounded by their number.  That is bounded by
the lives of the client: a life registers with its first call, a call is in one
place (`InOnePlace`), and each registration on its way becomes one listener
(`Registrations`).  For the same reason nothing the poller has not yet waited for
can be a callback of its present listener, which is why the calls such a
callback makes are made while it waits (`SelfWait`): only the poller could wake
their thread, and what it fires next it fires when it no longer waits.

The liveness properties are model-checked only.

## 8. How services come up

### `Bootstrap.tla`

A service goes through three stages, one per contract.  There is one chain and
each node has a part of it (`view`); a contract's address is the number of the
transaction that creates it.

| code | module |
|---|---|
| the constructor of `Ethereum`: the nonce is the count of mined transactions | `Start`, with `TransactionCount` |
| `ensureContractInstalled`, code at the address | `Found`, with `Candidate`, `HasContract` |
| the same without: `newContract`, its exception, its receipt | `InstallContract`, `InstallRefused`, `Installed` |
| `storeRegistrarAddress`: the file is opened, and so emptied, then written; each may fail with a warning | `Store`, `Stored` |
| `setAddress` in the registrar: queued, submitted, its receipt | `Installed`, `Tell`, `Named` |
| `getConfiguration` from a primary | `Configured` |
| WAIT: `getAddress` until it is not zero, code at the address | `Resolved`, `Attached` |
| death of the process, and of a node's data with it | `Crash`, `NodeLosesChain` |

**Nonces.**  A transaction that a killed primary left with its node may still be
mined, or may be lost (`pool`).  The next life takes its nonces from the mined
count, so its first transaction has the nonce of the one that waits.  `Admit` and
`Taken` say what the node makes of it: a nonce that is used up on the chain, or
that another transaction waits with, has one winner.  The loser is refused at
once or never mined: `newContract` throws and ends the start, or a receipt is
awaited that does not come.  Only the first transaction of a life can meet an
older one, since every life waits for each of its transactions to be mined before
it sends the next; so `setAddress`, which follows a contract that was mined, is
never refused for its nonce, and the submit timer's retries
(`TransactionSubmission`) do not matter here.  `clean` is history: no service was
started while a transaction of its account was on its way.

**The file.**  `registrar.properties` is rewritten at every start, also if the
registrar was found, and opening it empties it.  `fileLost` is history: a write
has failed, or a process was killed between opening and writing.

What is abstracted: a transaction that is sent again unchanged counts as another
one, since the node refuses it like one with a used nonce; mined transactions are
not taken back; a node loses its pool, if at all, when its service is killed;
there is gas for every contract.  A timeout of a wait and an exception of a call
end the process and are crashes; a submit timer that dies is in
`TransactionSubmission` only.

| run | instance | shows |
|---|---|---|
| `Bootstrap.cfg` | a primary, a secondary, any two faults | `TypeOK`, `SameInstance`, `RegistrarNamesThem`, `StoredIsUsed`, and under fairness `EveryoneServes` |

Two faults are crashes at any two points of two lives, so that what the first
life left may meet the nonces of the second and the third, or a crash and a file
or chain that is lost; a third repeats what two lives can do to each other, and
is left to the proofs.  What the conditions of the properties exclude does
happen, and is a limit of the code:

* a primary that is killed while it rewrites `registrar.properties`, or whose
  write fails, finds no address when it starts again and installs another
  registrar, while a secondary may still serve with the old one; a node that
  lost its chain has the same effect (`SameInstance`, `RegistrarNamesThem`);
* a primary that is started again while a transaction of its earlier life is on
  its way may end with an exception or wait for ever (`EveryoneServes`).  The
  compose files give the payment service no restart policy that would try again.

Fairness: services go on, nodes mine what they were sent and synchronise.
Deadlock is not checked because services come to rest when they serve.

### Proofs (`BootstrapProofs.tla`)

For any primaries, secondaries and faults: `ContractsBeforeService` (`TypeOK`:
no service goes past a stage before its own node has code for it, and what is
stored is a registrar that exists) and `NoSecondRegistrar` (`StoredIsUsed`).
The invariant `IInv` adds that the numbers of contracts mined or waiting were
given out (`Numbered`), so that the one a service waits for is that of the
contract of its stage and of no other (`InstallsItsStage`), and that the node of
a service has the stored registrar unless a chain was lost (`StoredIsRegistrar`).

For one primary (`Primaries = {p}`: the documentation speaks of *the* primary
node, and two that start together each install a registrar), any secondaries and
any number of crashes at any points, unless the file or a chain was lost:
`OneInstanceForAll` (`SameInstance`) and `RegistrarNamesAll`
(`RegistrarNamesThem`).  Neither is inductive: that services agree when they
serve follows from what the primary left behind before any of them joined.  The
invariant is `OneChain`:

* only the primary sends (`Roles`, `Alone`), so that its nonces are positions of
  the chain: the transaction with nonce n is the one after the first n, or is
  never mined;
* the registrar of all that was ever told is the stored one, or the one about to
  be stored while the file is empty (`OneRegistrar`, `Registrar`), and whoever
  has a registrar has that one (`UsesStored`);
* a registrar is told of a contract after it is there (`CodeBefore`), and of each
  name *once*, over all lives (`NamedOnce`): what the primary sends has the nonce
  of all it saw on the chain, so that whatever an earlier life had on its way is
  either seen, and then the name is found and not told again, or takes the
  position, and then the new transaction is never mined (`Sending`);
* whoever uses a contract uses one the registrar was told (`UsesNamed`).

So the nonces that make a start fail are also what keeps a late `setAddress` from
renaming anything.  TLC shows the converse: with a first nonce that counts the
waiting transactions too (`StartAfterPending`), `SameInstance` is violated.
`RegistrarSays` reduces `getAddress` on a part of the chain to the last naming in
it.  The invariant was checked by TLC first.
`EveryoneServes` is model-checked only.

## 9. The statistics client

### `NetStats.tla`

`lib/node.js` is one JavaScript thread; every action is one callback, run to its
end.  The node, web3 and the socket library are external.

| code | module |
|---|---|
| `checkWeb3Connection`, its timer, `reconnectWeb3` | `CheckWeb3Connection`, `TimerFires`, part of `StatsFail` |
| `startSocketConnection` and the socket's handlers | `StartSocketConnection`, `Opens`, `Ready`, `Disturbed`, `Lost`, `Reconnected`, `ReconnectFailed`, `HistoryAsked` |
| `getStats`, from the interval and from the handlers | `Tick`, `Refresh`, `StatsArrive`, `StatsFail`, `SendStats` |
| `setFilters`, the chain filter, debouncing, the queue and its worker | `SetFilters`, `Push`, `ChainFilter`, `DebounceEnds`, `Fetched` |
| `validateLatestBlock`, the gap it asks for | `Validate`, `GapHistory` |
| `isSyncing` watches | `SyncStarted`, `SyncProgress`, `PushCurrent`, `SyncStopped`, `SyncError` |
| `getLatestBlock`, `getHistory` | `LatestArrives`, `HistoryArrives` |
| `stop` and the exception in `getHistory` | `Stop`, `Ends` |

Figures no property needs are left out, and with them pending transactions and
latency; where the code compares them they may have changed or not.

Any request fails while the node is down, and may fail while it is up (`Fails`:
an error, or a bad block); that of a block is then forgotten by
`validateLatestBlock`.  `missed` is history: the blocks that were forgotten so
since they were queued.  A socket that is lost keeps reporting attempts it
schedules and gives up, and each clears the flag again, whatever socket is
connected by then (`Lost`).  Left out is what web3 makes of an error of the chain
filter's own poll: it calls back without a hash, and the fetch of that has no
effect.

| run | instance | shows |
|---|---|---|
| `NetStats.cfg` | one retry, two blocks, one fault | `OneUpdateInterval`, `FlagTellsTheSocket`, and under fairness `OutageIsReported`, `RecoveryIsReported`, `QueuedIsShown` |

One fault is an outage of the node, an error it answers with, a time of
synchronisation or a lost socket, at any moment; the node may be down at the
start besides.  `MaxQueued` bounds what the polls of a synchronising node add to
the present queue: one entry per block.  One retry separates the connection that succeeds late from the
one that is given up.  Two blocks are one at the start and one that comes, at
the same height or above.

Observed on the way, and excluded by the conditions of the properties rather
than held against the code, which promises nothing here: a block that is stored
while the socket is down is not sent when it is back; a block the node answers
with an error is not asked for again; an error of a history request ends the
process; every reconnection leaves its `isSyncing` watch
behind; after the last attempt nobody tries again, though the process runs on.

Fairness: the event loop runs every callback in the end, and a node that can be
reached answers.  None is asked of the sockets or of the node's recovery.
Deadlock is not checked because a process that has ended does nothing.

### Proofs (`NetStatsProofs.tla`)

For any bounds: `OneInterval` (`OneUpdateInterval`) and `FlagIsTrue`
(`FlagTellsTheSocket`): for any number of sockets the flag is up only while one
of them is open, and while there is one only it is up when that is logged in.
That it stands for the *last* socket is not so once there are two: the handlers
of an older one set and clear it as well.  Together the two invariants are
inductive with one more fact, that the flag is never up before there is a
socket: `startSocketConnection` makes the first one only because the flag is
down.

## 10. Findings

* `wide_amounts`: `sendPayment` accepts a payment beyond the limits when the
  balance wraps.  `SmallAmounts` is the precondition under which it cannot.
* `allow_events`: the event of `setAllow` carries the sender's own old allowance
  in place of the other party's, and changes the parties' roles for p2.
* `bic_changes_hands`: the payment listener decides by whose the BIC is when the
  event is handled, not by the receiver in the event: if the BIC was registered
  anew in between, another bank is told of the payment.
* `deep_reorg`: a reorganisation of exactly as many blocks as the confirmation
  count makes `newBlock` fire confirmed, unreplaced blocks a second time.  A
  shallower one does the same after an RPC failed in the middle of
  `importBlocks` (section 4), which no run of its own shows.

## 11. What is not modelled

The parts marked `not_modelled` in `PROJECT.json`:

* contract ownership (`Owned`, `Mortal`): nothing calls it;
* ABI encoding: pure functions of bytes, in the plan above; what the width of
  int means for the contract is `WideAmounts.cfg`;
* the HTTP and Vert.x transports, REST and WebSocket handlers and the ISO 20022
  broker: adapters that keep no state an order of events could spoil;
* the node, its docker and build files: external to every module;
* Swagger UI, with its libraries and translations: third-party code, vendored to
  show the REST documentation in a browser.  It is most of the JavaScript in the
  repository (26330 of about 29700 lines), so that the share of JavaScript lines
  the map covers says little: of the repository's own, `lib/node.js` and `app.js`
  of the statistics client, it covers what `NetStats` models.

And of the parts marked `partly`:

* `setLimit` and `setAllow` of the payment service complete on the first
  receipt and keep no state; the trustline listener is a filter; the echo bot's
  grants go with it;
* account creation, mining control, peers and contract compilation are I/O;
* futures as results of a JSON-RPC method, the in-memory transport of the tests
  and serialisation;
* pending transactions, latency and the adaptive debounce window of the
  statistics client.

Cryptography, gas, formatting and logging are outside every model.

Out of the prover's reach and left to TLC: liveness, and everything that needs
induction over data.
