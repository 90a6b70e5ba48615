----------------------------- MODULE NetStatsProofs -----------------------------
(***************************************************************************)
(* What holds of the statistics client for any number of attempts, blocks, *)
(* faults and sockets.                                                     *)
(***************************************************************************)
EXTENDS NetStats, TLAPS

SocketStates == {"opening", "open", "ready", "lost", "ended"}

\* The inductive invariant: both properties, and no flag without a socket.
IInv ==
  /\ sockets \in Seq(SocketStates)
  /\ socketFlag \in BOOLEAN /\ web3On \in BOOLEAN
  /\ socketFlag => sockets # <<>>
  /\ OneUpdateInterval
  /\ FlagTellsTheSocket

LEMMA NoSocketYet ==
  ASSUME sockets = <<>>, socketFlag = FALSE, web3On = FALSE, intervals = 0
  PROVE  IInv
<1>1. sockets \in Seq(SocketStates)
  OBVIOUS
<1>2. FlagTellsTheSocket
  BY Len(<<>>) = 0 DEF FlagTellsTheSocket
<1> QED
  BY <1>1, <1>2 DEF IInv, OneUpdateInterval

LEMMA InitInvariant == Init => IInv
<1> SUFFICES ASSUME Init PROVE IInv
  OBVIOUS
<1>1. sockets = <<>> /\ socketFlag = FALSE /\ web3On = FALSE /\ intervals = 0
  BY DEF Init
<1> QED
  BY <1>1, NoSocketYet

-------------------------------------------------------------------------------
(* The connection to the node.                                             *)

\* checkWeb3Connection from a state without an interval adds one socket at
\* most, when the flag is down, and one interval if it connects.
LEMMA CheckInvariant ==
  ASSUME IInv, NEW n, NEW t, NEW f, CheckWeb3Connection(n, t, 0, f), UNCHANGED socketFlag
  PROVE  IInv'
<1>1. web3On' \in BOOLEAN /\ OneUpdateInterval'
  <2>1. CASE web3On' = TRUE /\ intervals' = 0 + 1
    BY <2>1 DEF OneUpdateInterval
  <2>2. CASE web3On' = FALSE /\ intervals' = 0
    BY <2>2 DEF OneUpdateInterval
  <2> QED
    BY <2>1, <2>2, Zenon DEF CheckWeb3Connection
<1>2. \/ sockets' = sockets
      \/ ~socketFlag /\ sockets' = Append(sockets, "opening")
  BY Zenon DEF CheckWeb3Connection, StartSocketConnection
<1>3. CASE sockets' = sockets
  BY <1>1, <1>3 DEF IInv, FlagTellsTheSocket
<1>4. CASE ~socketFlag /\ sockets' = Append(sockets, "opening")
  <2>1. /\ sockets \in Seq(SocketStates) /\ "opening" \in SocketStates
        /\ ~socketFlag'
    BY <1>4 DEF IInv, SocketStates
  <2>2. sockets' \in Seq(SocketStates)
    BY <1>4, <2>1
  <2>3. Len(sockets') = 1 => sockets'[1] = "opening"
    BY <1>4, <2>1
  <2> QED
    BY <1>1, <2>1, <2>2, <2>3 DEF IInv, FlagTellsTheSocket
<1> QED
  BY <1>2, <1>3, <1>4

LEMMA TimerFiresInvariant == ASSUME IInv, TimerFires PROVE IInv'
<1>1. CASE ~web3On
  <2>1. intervals = 0
    BY <1>1 DEF IInv, OneUpdateInterval
  <2>2. CheckWeb3Connection(attempts, timers - 1, 0, filters) /\ UNCHANGED socketFlag
    BY <1>1, <2>1 DEF TimerFires
  <2> QED
    BY <2>2, CheckInvariant
<1>2. CASE web3On
  BY <1>2 DEF TimerFires, IInv, OneUpdateInterval, FlagTellsTheSocket
<1> QED
  BY <1>1, <1>2

LEMMA StatsFailInvariant == ASSUME IInv, NEW r \in requests, StatsFail(r) PROVE IInv'
<1>1. CheckWeb3Connection(0, timers, 0, <<>>) /\ UNCHANGED socketFlag
  BY DEF StatsFail
<1> QED
  BY <1>1, CheckInvariant

-------------------------------------------------------------------------------
(* The sockets.                                                            *)

\* What a handler of socket s does to it, and to the flag, fits together.
LEMMA SocketInvariant ==
  ASSUME IInv, NEW s \in DOMAIN sockets, NEW state \in SocketStates,
         sockets' = [sockets EXCEPT ![s] = state],
         \/ socketFlag' = FALSE /\ state # "ready"
         \/ socketFlag' = TRUE /\ state \in {"open", "ready"}
         \/ socketFlag' = socketFlag /\ sockets[s] = "opening" /\ state = "open",
         UNCHANGED <<web3On, intervals>>
  PROVE  IInv'
<1>1. /\ sockets \in Seq(SocketStates) /\ s \in 1 .. Len(sockets)
      /\ sockets' \in Seq(SocketStates) /\ Len(sockets') = Len(sockets)
      /\ Len(sockets) # 0
  BY DEF IInv
<1>2. sockets' # <<>>
  BY <1>1
<1>3. Len(sockets) = 1 => s = 1 /\ sockets'[1] = state
  BY <1>1
<1>4. FlagTellsTheSocket'
  <2>1. s \in DOMAIN sockets' /\ sockets'[s] = state
    BY <1>1
  <2>2. socketFlag' => sockets'[s] \in {"open", "ready"}
    BY <2>1 DEF IInv
  <2>3. Len(sockets') = 1 /\ sockets'[1] = "ready" => socketFlag'
    BY <1>1, <1>3 DEF IInv, FlagTellsTheSocket
  <2> QED
    BY <2>1, <2>2, <2>3 DEF FlagTellsTheSocket
<1>5. OneUpdateInterval'
  BY DEF IInv, OneUpdateInterval
<1> QED
  BY <1>1, <1>2, <1>4, <1>5 DEF IInv

LEMMA SocketsInvariant ==
  ASSUME IInv, NEW s \in DOMAIN sockets, SocketStep(s) \/ Lost(s) \/ ReconnectFailed(s)
  PROVE  IInv'
<1>1. UNCHANGED <<web3On, intervals>>
  BY DEF SocketStep, Opens, Ready, Reconnected, Lost, ReconnectFailed, connection
<1>2. CASE Opens(s)
  BY <1>1, <1>2, SocketInvariant DEF Opens, SocketStates
<1>3. CASE Ready(s)
  BY <1>1, <1>3, SocketInvariant DEF Ready, Refresh, SocketStates
<1>4. CASE Reconnected(s)
  BY <1>1, <1>4, SocketInvariant DEF Reconnected, Refresh, SocketStates
<1>5. CASE Lost(s)
  BY <1>1, <1>5, SocketInvariant DEF Lost, SocketStates
<1>6. CASE ReconnectFailed(s)
  BY <1>1, <1>6, SocketInvariant DEF ReconnectFailed, SocketStates
<1> QED
  BY <1>2, <1>3, <1>4, <1>5, <1>6 DEF SocketStep

-------------------------------------------------------------------------------
(* The end of the process, and everything else.                            *)

LEMMA EndsInvariant == ASSUME IInv, Ends PROVE IInv'
<1>1. sockets' = <<>> /\ socketFlag' = FALSE /\ web3On' = FALSE /\ intervals' = 0
  BY DEF Ends
<1>2. sockets' \in Seq(SocketStates)
  BY <1>1
<1>3. FlagTellsTheSocket'
  BY <1>1, Len(<<>>) = 0 DEF FlagTellsTheSocket
<1> QED
  BY <1>1, <1>2, <1>3 DEF IInv, OneUpdateInterval

LEMMA OtherInvariant ==
  ASSUME IInv, UNCHANGED <<sockets, socketFlag, web3On, intervals>>
  PROVE  IInv'
BY DEF IInv, OneUpdateInterval, FlagTellsTheSocket

LEMMA StepInvariant == IInv /\ [Next]_vars => IInv'
<1> SUFFICES ASSUME IInv, [Next]_vars PROVE IInv'
  OBVIOUS
<1> USE DEF connection, socketVars
<1>1. CASE UNCHANGED vars
  BY <1>1, OtherInvariant DEF vars
<1>2. CASE TimerFires
  BY <1>2, TimerFiresInvariant
<1>3. CASE Tick
  BY <1>3, OtherInvariant DEF Tick
<1>4. ASSUME NEW r \in requests, NodeAnswers(r) \/ ReplyStep(r) PROVE IInv'
  <2>1. CASE StatsFail(r)
    BY <2>1, StatsFailInvariant
  <2>2. CASE HistoryArrives(r)
    BY <2>2, EndsInvariant, OtherInvariant DEF HistoryArrives
  <2>3. CASE NodeAnswers(r) \/ StatsArrive(r) \/ LatestArrives(r)
    BY <2>3, OtherInvariant DEF NodeAnswers, StatsArrive, LatestArrives
  <2> QED
    BY <1>4, <2>1, <2>2, <2>3 DEF ReplyStep
<1>5. ASSUME NEW i, ChainFilter(i) \/ Fetched(i) PROVE IInv'
  BY <1>5, OtherInvariant DEF ChainFilter, Fetched
<1>6. CASE DebounceEnds
  BY <1>6, OtherInvariant DEF DebounceEnds
<1>7. ASSUME NEW i, SyncStarted(i) \/ SyncProgress(i) \/ SyncStopped(i) \/ SyncError(i) PROVE IInv'
  BY <1>7, OtherInvariant DEF SyncStarted, SyncProgress, SyncStopped, SyncError
<1>8. ASSUME NEW s \in DOMAIN sockets,
             SocketStep(s) \/ Lost(s) \/ ReconnectFailed(s) \/ HistoryAsked(s)
      PROVE  IInv'
  BY <1>8, SocketsInvariant, OtherInvariant DEF HistoryAsked
<1>9. CASE FindBlock \/ Outage \/ Back \/ SyncBegins \/ SyncEnds
  BY <1>9, OtherInvariant DEF FindBlock, Outage, Back, SyncBegins, SyncEnds
<1>10. CASE Stop
  BY <1>10, EndsInvariant DEF Stop
<1> QED
  BY <1>1, <1>2, <1>3, <1>4, <1>5, <1>6, <1>7, <1>8, <1>9, <1>10 DEF Next

LEMMA InvariantHolds == Spec => []IInv
BY InitInvariant, StepInvariant, PTL DEF Spec

-------------------------------------------------------------------------------
\* There is exactly one update interval while the node counts as connected,
\* and none otherwise, however many timers, failures and reconnections race.
THEOREM OneInterval == Spec => []OneUpdateInterval
<1>1. IInv => OneUpdateInterval
  BY DEF IInv
<1> QED
  BY <1>1, InvariantHolds, PTL

\* The client takes its sockets for usable only while one of them is, whatever
\* the handlers of the others do, and one that is the only one whenever it is.
THEOREM FlagIsTrue == Spec => []FlagTellsTheSocket
<1>1. IInv => FlagTellsTheSocket
  BY DEF IInv
<1> QED
  BY <1>1, InvariantHolds, PTL

===============================================================================
