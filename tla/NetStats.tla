------------------------------- MODULE NetStats -------------------------------
(***************************************************************************)
(* The network statistics client, lib/node.js: one JavaScript thread that  *)
(* watches an Ethereum node over JSON-RPC and tells a statistics server    *)
(* over a socket what it sees.  Every action is one callback.  The node,   *)
(* web3 (which polls the node's filters) and the socket library are        *)
(* external.                                                               *)
(*                                                                         *)
(* Blocks are numbered in the order the node takes them for its latest;    *)
(* numbers holds their heights.  Of the figures that getStats collects,    *)
(* those that no property needs are left out: they may have changed or not *)
(* whenever they are compared.  Pending transactions and latency go the    *)
(* same way and are left out too.                                          *)
(***************************************************************************)
EXTENDS Integers, Sequences, SequencesExt

CONSTANTS
  MAX_CONNECTION_ATTEMPTS,
  MaxBlocks,    \* bound on the blocks the node finds
  MaxFaults     \* bound on outages of the node, errors it answers with, its times
                \* of synchronisation and disturbances of the sockets, together

\* No more queues than this are ever busy.
MaxQueues == 2 + MaxFaults

\* Bound on a queue that every poll of a synchronising node adds to.
MaxQueued == MaxBlocks

ASSUME BoundsAssumption ==
  /\ MAX_CONNECTION_ATTEMPTS \in Nat /\ MaxBlocks \in Nat /\ MaxFaults \in Nat

VARIABLES
  up, nodeSyncs, numbers, \* the node: reached, synchronising, its blocks
  faults,       \* how many there were
  filters,      \* web3: per chain filter the heads it has not reported yet
  watches,      \* web3: per isSyncing watch the last state it has seen
  requests,     \* requests to the node whose callback has not run
  sockets,      \* the sockets made so far, the last one is "socket"
  socketFlag,   \* _socket
  alive,        \* the process runs
  web3On,       \* _web3
  attempts,     \* _connection_attempts
  timers,       \* the timers that will call checkWeb3Connection
  intervals,    \* the update intervals that run
  stats,        \* active and block of this.stats
  lastActive,   \* active of _lastStats
  down,         \* _down > 0
  lastBlock,    \* _lastBlock
  queues,       \* the queues setFilters made, the last one is _latestQueue
  debounced,    \* the head _debouncedChain will push, or NoBlock
  missed,       \* history: blocks the node answered with an error since they
                \* were queued
  told          \* what the server was told last

nodeState == <<up, nodeSyncs, numbers>>
node == <<nodeState, faults>>
connection == <<web3On, attempts, timers, intervals>>
socketVars == <<sockets, socketFlag>>
queueing == <<queues, missed>>
watching == <<filters, watches, queueing, debounced>>
seen == <<stats, lastActive, down, lastBlock>>
vars == <<node, connection, socketVars, watching, seen, requests, alive, told>>

NoBlock == 0
Latest == Len(numbers)
Height(b) == IF b = NoBlock THEN 0 ELSE numbers[b]

-------------------------------------------------------------------------------
(* Requests.  Two requests for the same that stand at the same point are   *)
(* not told apart.                                                         *)

Waiting == [answered |-> FALSE]
Answer(b) == [answered |-> TRUE, block |-> b]
Request(what) == [what |-> what, reply |-> Waiting]
Requests ==
  {Request(what) : what \in {"latest", "stats", "forced", "history"}}
  \cup {[what |-> "latest", reply |-> Answer(b)] : b \in 1 .. MaxBlocks}

\* A request fails: the node cannot be reached, or has an error (the bad block
\* and the missing number of peers are errors here too).
Fails ==
  \/ ~up /\ UNCHANGED faults
  \/ up /\ faults < MaxFaults /\ faults' = faults + 1

\* The latest block leaves the node and may take its time.
NodeAnswers(r) ==
  /\ up /\ r = Request("latest")
  /\ requests' = (requests \ {r}) \cup {[r EXCEPT !.reply = Answer(Latest)]}
  /\ UNCHANGED <<node, connection, socketVars, watching, seen, alive, told>>

-------------------------------------------------------------------------------
(* Sending.                                                                *)

\* Whether what emit sends arrives: it goes to the last socket, if the flag
\* that all sockets share is set.
Connected == socketFlag /\ Last(sockets) \in {"open", "ready"}

\* Mutant of the next definition: only forced updates are sent.
SendForced(s, forced) ==
  told' = IF Connected /\ forced THEN [told EXCEPT !.active = s.active] ELSE told

\* sendStatsUpdate, of the stats s: uptime differs every time once the node
\* was found down, and other figures may have changed.
SendStats(s, forced) ==
  \E figures \in BOOLEAN :
    told' = IF Connected /\ (forced \/ s.active # lastActive \/ down' \/ figures)
            THEN [told EXCEPT !.active = s.active]
            ELSE told

\* Mutant of the next definition: a block of the same height is no news.
ValidateHigher(b) ==
  /\ stats' = IF Height(b) > lastBlock THEN [stats EXCEPT !.block = b] ELSE stats
  /\ told' = IF Height(b) > lastBlock /\ Connected THEN [told EXCEPT !.block = b] ELSE told
  /\ lastBlock' = IF Height(b) > lastBlock THEN Height(b) ELSE lastBlock

\* validateLatestBlock: a block other than the present one is stored and sent.
Validate(b) ==
  /\ stats' = [stats EXCEPT !.block = b]
  /\ told' = IF b # stats.block /\ Connected THEN [told EXCEPT !.block = b] ELSE told
  /\ lastBlock' = IF Height(b) > lastBlock THEN Height(b) ELSE lastBlock

\* It asks for the blocks of a gap, if _latestQueue is idle.
GapHistory(b) ==
  IF b # stats.block /\ Height(b) - lastBlock > 1 /\ Last(queues) = <<>>
  THEN {Request("history")} ELSE {}

-------------------------------------------------------------------------------
(* The connection to the node.                                             *)

\* setFilters: a chain filter besides f, another queue.  Queues that have run
\* empty are forgotten.
SetFilters(f) ==
  /\ filters' = Append(f, <<>>)
  /\ queues' = Append(SelectSeq(queues, LAMBDA q : q # <<>>), <<>>)

\* startSocketConnection
StartSocketConnection ==
  sockets' = IF socketFlag THEN sockets ELSE Append(sockets, "opening")

MayRetry(n) == n < MAX_CONNECTION_ATTEMPTS

\* checkWeb3Connection after n attempts, with t other timers, i intervals and
\* chain filters f.
CheckWeb3Connection(n, t, i, f) ==
  \/ /\ up
     /\ web3On' = TRUE /\ attempts' = n /\ timers' = t /\ intervals' = i + 1
     /\ StartSocketConnection
     /\ SetFilters(f)
     /\ watches' = Append(watches, FALSE)
  \/ /\ ~up
     /\ web3On' = FALSE /\ intervals' = i /\ filters' = f
     /\ \/ /\ MayRetry(n)
           /\ attempts' = n + 1 /\ timers' = t + 1
        \/ /\ ~MayRetry(n)
           /\ attempts' = n /\ timers' = t
     /\ UNCHANGED <<sockets, queues, watches>>

\* Mutant of the next definition: without the test of _web3.
TimerFiresBlindly ==
  /\ timers > 0
  /\ CheckWeb3Connection(attempts, timers - 1, intervals, filters)
  /\ UNCHANGED <<node, socketFlag, debounced, missed, seen, requests, alive, told>>

\* The timer of checkWeb3Connection.
TimerFires ==
  /\ timers > 0
  /\ \/ /\ ~web3On
        /\ CheckWeb3Connection(attempts, timers - 1, intervals, filters)
     \/ /\ web3On
        /\ timers' = timers - 1
        /\ UNCHANGED <<web3On, attempts, intervals, sockets, filters, queues, watches>>
  /\ UNCHANGED <<node, socketFlag, debounced, missed, seen, requests, alive, told>>

-------------------------------------------------------------------------------
(* getStats.                                                               *)

\* The tick of the update interval: the snapshot is taken even if the last
\* fetch is too recent.
Tick ==
  /\ intervals > 0
  /\ lastActive' = IF socketFlag THEN stats.active ELSE lastActive
  /\ \/ /\ web3On
        /\ requests' = requests \cup {Request("stats")}
     \/ UNCHANGED requests
  /\ UNCHANGED <<node, connection, socketVars, watching, stats, down, lastBlock, alive, told>>

StatsArrive(r) ==
  /\ r.what \in {"stats", "forced"} /\ up
  /\ requests' = requests \ {r}
  /\ stats' = [stats EXCEPT !.active = TRUE]
  /\ UNCHANGED down
  /\ SendStats(stats', r.what = "forced")
  /\ UNCHANGED <<node, connection, socketVars, watching, lastActive, lastBlock, alive>>

\* Mutant of the next definition: the server is not told.
StatsFailSilently(r) ==
  /\ r.what \in {"stats", "forced"} /\ Fails
  /\ requests' = requests \ {r}
  /\ stats' = [stats EXCEPT !.active = FALSE]
  /\ down' = TRUE
  /\ CheckWeb3Connection(0, timers, 0, <<>>)
  /\ UNCHANGED <<nodeState, socketFlag, debounced, missed, lastActive, lastBlock, alive, told>>

\* An error, or no number of peers: setInactive and reconnectWeb3, which clears
\* the interval and all filters but keeps the isSyncing watches.
StatsFail(r) ==
  /\ r.what \in {"stats", "forced"} /\ Fails
  /\ requests' = requests \ {r}
  /\ stats' = [stats EXCEPT !.active = FALSE]
  /\ down' = TRUE
  /\ SendStats(stats', TRUE)
  /\ CheckWeb3Connection(0, timers, 0, <<>>)
  /\ UNCHANGED <<nodeState, socketFlag, debounced, missed, lastActive, lastBlock, alive>>

-------------------------------------------------------------------------------
(* Blocks.                                                                 *)

\* b is pushed to _latestQueue, whose worker takes one at a time.
Push(b) ==
  /\ queues' = [queues EXCEPT ![Len(queues)] = Append(@, b)]
  /\ missed' = missed \ {b}

\* The chain filter reports a head: it is queued, or debounced.
ChainFilter(i) ==
  /\ up /\ i \in DOMAIN filters /\ filters[i] # <<>>
  /\ filters' = [filters EXCEPT ![i] = Tail(@)]
  /\ \/ /\ Push(Head(filters[i]))
        /\ UNCHANGED debounced
     \/ /\ debounced' = Head(filters[i])
        /\ UNCHANGED queueing
  /\ UNCHANGED <<node, connection, socketVars, watches, seen, requests, alive, told>>

DebounceEnds ==
  /\ debounced # NoBlock
  /\ Push(debounced)
  /\ debounced' = NoBlock
  /\ UNCHANGED <<node, connection, socketVars, filters, watches, seen, requests, alive, told>>

\* The worker of a queue has its block, or an error and forgets it.
Fetched(i) ==
  /\ i \in DOMAIN queues /\ queues[i] # <<>>
  /\ queues' = [queues EXCEPT ![i] = Tail(@)]
  /\ \/ /\ up
        /\ Validate(Head(queues[i]))
        /\ requests' = requests \cup GapHistory(Head(queues[i]))
        /\ UNCHANGED <<faults, missed>>
     \/ /\ Fails
        /\ missed' = IF up THEN missed \cup {Head(queues[i])} ELSE missed
        /\ UNCHANGED <<stats, told, lastBlock, requests>>
  /\ UNCHANGED <<nodeState, connection, socketVars, filters, watches, debounced>>
  /\ UNCHANGED <<lastActive, down, alive>>

\* The callback of getLatestBlock.
LatestArrives(r) ==
  /\ r.what = "latest"
  /\ requests' = (requests \ {r}) \cup (IF r.reply.answered THEN GapHistory(r.reply.block) ELSE {})
  /\ \/ /\ r.reply.answered
        /\ Validate(r.reply.block)
        /\ UNCHANGED faults
     \/ /\ ~r.reply.answered /\ Fails
        /\ UNCHANGED <<stats, told, lastBlock>>
  /\ UNCHANGED <<nodeState, connection, socketVars, watching, lastActive, down, alive>>

\* The process ends, and with it all it holds.
Ends ==
  /\ alive' = FALSE
  /\ web3On' = FALSE /\ attempts' = 0 /\ timers' = 0 /\ intervals' = 0
  /\ filters' = <<>> /\ watches' = <<>> /\ queues' = <<>> /\ debounced' = NoBlock /\ missed' = {}
  /\ sockets' = <<>> /\ socketFlag' = FALSE /\ requests' = {}
  /\ stats' = told /\ lastActive' = told.active /\ down' = FALSE /\ lastBlock' = 0
  /\ UNCHANGED <<nodeState, told>>

\* stop, on a signal: the socket is ended, the intervals and filters are
\* cleared, and the process exits.
Stop == Ends /\ UNCHANGED faults

\* The callback of getHistory: what it sends is not followed up.  After an
\* error it reverses a Boolean and the process dies of it.
HistoryArrives(r) ==
  /\ r.what = "history"
  /\ \/ /\ up
        /\ requests' = requests \ {r}
        /\ UNCHANGED <<node, connection, socketVars, watching, seen, alive, told>>
     \/ /\ Fails
        /\ Ends

-------------------------------------------------------------------------------
(* Synchronisation: every watch polls the node by itself.                  *)

\* The progress: the block the node is at is queued if it is another one.
PushCurrent ==
  IF Height(Latest) # lastBlock THEN Push(Latest) ELSE UNCHANGED queueing

\* The first news: web3.reset(true), then the progress.
SyncStarted(i) ==
  /\ up /\ nodeSyncs /\ i \in DOMAIN watches /\ ~watches[i]
  /\ watches' = [watches EXCEPT ![i] = TRUE]
  /\ filters' = <<>>
  /\ PushCurrent
  /\ UNCHANGED <<node, connection, socketVars, debounced, seen, requests, alive, told>>

SyncProgress(i) ==
  /\ up /\ nodeSyncs /\ i \in DOMAIN watches /\ watches[i]
  /\ Len(Last(queues)) < MaxQueued
  /\ PushCurrent
  /\ UNCHANGED <<node, connection, socketVars, filters, watches, debounced, seen, requests, alive, told>>

SyncStopped(i) ==
  /\ up /\ ~nodeSyncs /\ i \in DOMAIN watches /\ watches[i]
  /\ watches' = [watches EXCEPT ![i] = FALSE]
  /\ SetFilters(filters)
  /\ UNCHANGED <<node, connection, socketVars, debounced, missed, seen, requests, alive, told>>

\* The node answers a poll with an error (web3 keeps quiet about one that
\* cannot be reached): setFilters, whatever was watched before.
SyncError(i) ==
  /\ up /\ Fails /\ i \in DOMAIN watches
  /\ SetFilters(filters)
  /\ UNCHANGED <<nodeState, connection, socketVars, watches, debounced, missed, seen, requests, alive, told>>

-------------------------------------------------------------------------------
(* The sockets: every one that was made has its handlers.                  *)

\* Handlers of ready and reconnected: getLatestBlock and getStats(true).
Refresh ==
  /\ socketFlag' = TRUE
  /\ lastActive' = stats.active
  /\ requests' = requests \cup (IF web3On THEN {Request("latest"), Request("forced")} ELSE {})

\* The connection is open and hello is on its way.
Opens(s) ==
  /\ sockets[s] = "opening"
  /\ sockets' = [sockets EXCEPT ![s] = "open"]
  /\ UNCHANGED <<node, connection, socketFlag, watching, seen, requests, alive, told>>

\* The server has answered hello.
Ready(s) ==
  /\ sockets[s] = "open"
  /\ sockets' = [sockets EXCEPT ![s] = "ready"]
  /\ Refresh
  /\ UNCHANGED <<node, connection, watching, stats, down, lastBlock, alive, told>>

\* An open socket is disturbed, or one that was lost before has its next attempt
\* scheduled or given up.
Disturbed(s) ==
  \/ sockets[s] \in {"opening", "open", "ready"} /\ faults < MaxFaults /\ faults' = faults + 1
  \/ sockets[s] = "lost" /\ UNCHANGED faults

\* Mutant of the next definition: the flag is left alone.
LostUnnoticed(s) ==
  /\ Disturbed(s)
  /\ sockets' = [sockets EXCEPT ![s] = "lost"]
  /\ UNCHANGED <<socketFlag, nodeState, connection, watching, seen, requests, alive, told>>

\* end, timeout, close, reconnect scheduled, reconnect timeout: they clear the
\* flag even if it stands for another socket.  The socket library emits offline
\* and online in a browser only.
Lost(s) ==
  /\ Disturbed(s)
  /\ sockets' = [sockets EXCEPT ![s] = "lost"]
  /\ socketFlag' = FALSE
  /\ UNCHANGED <<nodeState, connection, watching, seen, requests, alive, told>>

\* reconnected: hello is on its way again.
Reconnected(s) ==
  /\ sockets[s] = "lost"
  /\ sockets' = [sockets EXCEPT ![s] = "open"]
  /\ Refresh
  /\ UNCHANGED <<node, connection, watching, stats, down, lastBlock, alive, told>>

\* reconnect failed, after the last retry.
ReconnectFailed(s) ==
  /\ sockets[s] = "lost"
  /\ sockets' = [sockets EXCEPT ![s] = "ended"]
  /\ socketFlag' = FALSE
  /\ UNCHANGED <<node, connection, watching, seen, requests, alive, told>>

\* history: the server asks for blocks it has not seen.
HistoryAsked(s) ==
  /\ sockets[s] = "ready"
  /\ requests' = requests \cup {Request("history")}
  /\ UNCHANGED <<node, connection, socketVars, watching, seen, alive, told>>

-------------------------------------------------------------------------------
(* The node and the process.                                               *)

\* The node has a new latest block, at the height of the last or above.
FindBlock ==
  /\ Latest < MaxBlocks
  /\ \E n \in {Height(Latest), Height(Latest) + 1} : numbers' = Append(numbers, n)
  /\ filters' = [i \in DOMAIN filters |-> Append(filters[i], Len(numbers'))]
  /\ UNCHANGED <<up, nodeSyncs, faults, watches, queueing, debounced>>
  /\ UNCHANGED <<connection, socketVars, seen, requests, alive, told>>

Outage ==
  /\ up /\ faults < MaxFaults
  /\ up' = FALSE /\ faults' = faults + 1
  /\ UNCHANGED <<nodeSyncs, numbers, connection, socketVars, watching, seen, requests, alive, told>>

\* The node is back, and has forgotten its filters if it was restarted.
Back ==
  /\ ~up
  /\ up' = TRUE
  /\ filters' \in {filters, <<>>}
  /\ UNCHANGED <<nodeSyncs, numbers, faults, watches, queueing, debounced>>
  /\ UNCHANGED <<connection, socketVars, seen, requests, alive, told>>

SyncBegins ==
  /\ ~nodeSyncs /\ faults < MaxFaults
  /\ nodeSyncs' = TRUE /\ faults' = faults + 1
  /\ UNCHANGED <<up, numbers, connection, socketVars, watching, seen, requests, alive, told>>

SyncEnds ==
  /\ nodeSyncs
  /\ nodeSyncs' = FALSE
  /\ UNCHANGED <<up, numbers, faults, connection, socketVars, watching, seen, requests, alive, told>>

-------------------------------------------------------------------------------
\* The constructor, before its first checkWeb3Connection.
Init ==
  /\ up \in BOOLEAN /\ nodeSyncs = FALSE /\ numbers = <<2>> /\ faults = 0
  /\ filters = <<>> /\ watches = <<>> /\ requests = {}
  /\ sockets = <<>> /\ socketFlag = FALSE
  /\ alive = TRUE
  /\ web3On = FALSE /\ attempts = 0 /\ timers = 1 /\ intervals = 0
  /\ told = [active |-> FALSE, block |-> NoBlock]
  /\ stats = told /\ lastActive = told.active /\ down = FALSE /\ lastBlock = 0
  /\ queues = <<>> /\ debounced = NoBlock /\ missed = {}

SocketStep(s) == Opens(s) \/ Ready(s) \/ Reconnected(s)
ReplyStep(r) == StatsArrive(r) \/ StatsFail(r) \/ LatestArrives(r) \/ HistoryArrives(r)

Next ==
  /\ alive
  /\ \/ TimerFires
     \/ Tick
     \/ \E r \in requests : NodeAnswers(r) \/ ReplyStep(r)
     \/ \E i \in DOMAIN filters : ChainFilter(i)
     \/ DebounceEnds
     \/ \E i \in DOMAIN queues : Fetched(i)
     \/ \E i \in DOMAIN watches :
          SyncStarted(i) \/ SyncProgress(i) \/ SyncStopped(i) \/ SyncError(i)
     \/ \E s \in DOMAIN sockets :
          SocketStep(s) \/ Lost(s) \/ ReconnectFailed(s) \/ HistoryAsked(s)
     \/ FindBlock \/ Outage \/ Back \/ SyncBegins \/ SyncEnds
     \/ Stop

Spec == Init /\ [][Next]_vars

\* The event loop runs every callback in the end, and a node that can be
\* reached answers.
FairSpec ==
  /\ Spec
  /\ WF_vars(alive /\ TimerFires)
  /\ WF_vars(alive /\ Tick)
  /\ \A r \in Requests : WF_vars(alive /\ r \in requests /\ (NodeAnswers(r) \/ ReplyStep(r)))
  /\ \A i \in 1 .. MaxQueues : WF_vars(alive /\ Fetched(i))

-------------------------------------------------------------------------------
(* Properties                                                              *)

\* The figures are fetched by one update interval while the node counts as
\* connected and by none while it does not, however many failed fetches have
\* started timers of checkWeb3Connection that race each other.
OneUpdateInterval == intervals = IF web3On THEN 1 ELSE 0

\* _socket is never left over from connections that were lost: one of the
\* sockets made so far is open.  It is not cleared for one that is logged in, as
\* long as there is one only.
FlagTellsTheSocket ==
  /\ socketFlag => \E s \in DOMAIN sockets : sockets[s] \in {"open", "ready"}
  /\ Len(sockets) = 1 /\ sockets[1] = "ready" => socketFlag

Trouble == ~alive \/ ~Connected

\* A node that goes down while it counts as connected is shown as inactive,
\* if the server can be reached (getStats, setInactive).
OutageIsReported ==
  ~up /\ web3On ~> up \/ ~told.active \/ Trouble

\* A node that can be reached is shown as active, after an outage or an error
\* too unless checkWeb3Connection has given up, although the update that says
\* so is not forced.
RecoveryIsReported ==
  up /\ (web3On \/ timers > 0) ~> ~up \/ told.active \/ Trouble

\* A block that has got into a queue and is not the one stored is shown to
\* the server, whatever reconnections replace the queue by another one, and
\* at whatever height it is, unless the node goes down or answers its fetch with
\* an error (validateLatestBlock forgets it then).
InQueue(b) == \E i \in DOMAIN queues : b \in ToSet(queues[i])
QueuedIsShown ==
  \A b \in 1 .. MaxBlocks :
    InQueue(b) /\ b # stats.block ~> told.block = b \/ ~up \/ b \in missed \/ Trouble

===============================================================================
