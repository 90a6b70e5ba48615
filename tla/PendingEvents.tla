----------------------------- MODULE PendingEvents -----------------------------
(***************************************************************************)
(* How the payment service turns the blocks of its node into events:       *)
(* BlockPoller asks the block filter for new heads and hands each to       *)
(* PendingEvents.newBlock, which keeps the youngest blocks and fires the   *)
(* events of a block, by way of its receipts, when enough blocks have      *)
(* grown on top of it.  A block stands for the events of its transactions. *)
(*                                                                         *)
(* The node grows between any two calls to it, so newBlock is split where  *)
(* it asks for receipts.  An exception, of the node or of a handler, ends  *)
(* the poll that is going on; the process may crash and start again.       *)
(***************************************************************************)
EXTENDS Blockchain, FiniteSetsExt

CONSTANTS
  BlockConfirmationCount,  \* blocks that have to grow on top of an event
  ImportDepth,             \* DEFAULT_NUMBER_OF_BLOCKS_TO_CONFIRM in importBlocks
  MaxExceptions,           \* bound on the exceptions
  MaxCrashes               \* bound on the crashes of the process

ASSUME CountsAssumption ==
  /\ BlockConfirmationCount \in Nat /\ ImportDepth \in Nat
  /\ MaxExceptions \in Nat /\ MaxCrashes \in Nat

VARIABLES
  batch,          \* hashes of the current poll, the first is being handled
  blockDepth,     \* the index by number: the set of hashes it holds
  blockInfoMap,   \* the hashes whose BlockInfo is kept
  blocksToRemove, \* what the loop of newBlock has left to take out
  inChain,        \* the chain of the deepest blocks
  phase,          \* "idle", "firing" within newBlock, "down"
  fired,          \* the blocks whose events were fired, since the last start
  firedBefore,    \* those fired before the last start
  lastHandled,    \* the number of the last head that newBlock finished with
  gapless,        \* no block was lost to an exception or out of reach
  whole,          \* no walk of importBlocks was cut short by an exception
  shallow,        \* no new head took as many blocks off as were asked for
  exceptions,
  crashes

eventVars == <<batch, blockDepth, blockInfoMap, blocksToRemove, inChain, phase>>
historyVars == <<fired, firedBefore, lastHandled, gapless, whole, shallow>>
counters == <<exceptions, crashes>>
vars == <<nodeVars, eventVars, historyVars, counters>>

-------------------------------------------------------------------------------
\* The last key of the index.
LastKey(depth) == Max({Number(b) : b \in depth})

\* Mutants of the next definition: the walk does not stop at a parent that is
\* kept, and stops one block early.
WalkEndsByDepth(b, newHead) ==
  \/ ParentHash(b) = NoHash
  \/ Number(newHead) - Number(b) > BlockConfirmationCount + ImportDepth
WalkEndsEarly(b, newHead) ==
  \/ ParentHash(b) = NoHash
  \/ ParentHash(b) \in blockInfoMap
  \/ Number(newHead) - Number(b) >= BlockConfirmationCount + ImportDepth

\* importBlocks: the walk from a head to its ancestors ends at the genesis
\* block, at a block whose parent is kept already, or so many blocks down.
WalkEndsAt(b, newHead) ==
  \/ ParentHash(b) = NoHash
  \/ ParentHash(b) \in blockInfoMap
  \/ Number(newHead) - Number(b) > BlockConfirmationCount + ImportDepth

Imported(newHead) ==
  {b \in Line(newHead) :
     \A c \in Line(newHead) : Number(c) > Number(b) => ~WalkEndsAt(c, newHead)}

\* Mutants of the next definition: one block too many, one too few.
OldBlocksTooSoon(depth) ==
  {b \in depth : Number(b) <= LastKey(depth) - (BlockConfirmationCount - 1)}
OldBlocksTooLate(depth) ==
  {b \in depth : Number(b) < LastKey(depth) - BlockConfirmationCount}

\* headMap(removalBoundry): the part of the index that leaves it.
OldBlocks(depth) ==
  {b \in depth : Number(b) < LastKey(depth) - (BlockConfirmationCount - 1)}

\* The ancestors of the deepest blocks, as far back as they are kept.
InChain(depth, infoMap) ==
  UNION {{b \in Line(d) : \A c \in Line(d) : Number(c) >= Number(b) => c \in infoMap} :
           d \in {e \in depth : Number(e) = LastKey(depth)}}

\* Mutant of the next definition: the index is not sorted.
AnyToRemove(b) == b \in blocksToRemove

\* The next block the loop takes: numbers ascend, hashes of one number come
\* in any order.
NextToRemove(b) ==
  b \in blocksToRemove /\ \A c \in blocksToRemove : Number(b) <= Number(c)

-------------------------------------------------------------------------------
EventsInit ==
  /\ batch = <<>>
  /\ blockDepth = {}
  /\ blockInfoMap = {}
  /\ blocksToRemove = {}
  /\ inChain = {}
  /\ phase = "idle"
  /\ fired = <<>>
  /\ firedBefore = {}
  /\ lastHandled = 0
  /\ gapless = TRUE /\ whole = TRUE /\ shallow = TRUE
  /\ exceptions = 0
  /\ crashes = 0

\* eth_getFilterChanges.
Poll ==
  /\ phase = "idle" /\ batch = <<>> /\ changes # <<>>
  /\ batch' = changes
  /\ changes' = <<>>
  /\ UNCHANGED <<blocks, head, blockDepth, blockInfoMap, blocksToRemove, inChain, phase>>
  /\ UNCHANGED <<historyVars, counters>>

\* History: a walk that starts further above the last head handled than this
\* need not reach back to where events were last fired.
NoteReach(newHead) ==
  gapless' = (gapless /\ Number(newHead) - lastHandled <= ImportDepth + 2)

\* newBlock up to its loop: import, then find what leaves the index.
NewBlock ==
  /\ phase = "idle" /\ batch # <<>>
  /\ LET newHead == batch[1]
         depth == blockDepth \cup Imported(newHead)
         infoMap == blockInfoMap \cup Imported(newHead)
     IN  /\ blockDepth' = depth
         /\ blockInfoMap' = infoMap
         /\ blocksToRemove' = OldBlocks(depth)
         /\ inChain' = InChain(depth, infoMap)
         /\ NoteReach(newHead)
  /\ phase' = "firing"
  /\ UNCHANGED <<nodeVars, batch, fired, firedBefore, lastHandled, whole, shallow, counters>>

\* The loop takes a block that the chain has left behind: nothing is fired.
Prune(b) ==
  /\ phase = "firing" /\ NextToRemove(b) /\ b \notin inChain
  /\ blocksToRemove' = blocksToRemove \ {b}
  /\ blockInfoMap' = blockInfoMap \ {b}
  /\ UNCHANGED <<nodeVars, batch, blockDepth, inChain, phase, historyVars, counters>>

\* The genesis block has no transactions, every other block has events.
FiredAfter(b) == IF ParentHash(b) = NoHash THEN fired ELSE Append(fired, b)

\* The loop takes a block of the chain and fires its events.  The node has
\* receipts for the transactions of its canonical chain.
Fire(b) ==
  /\ phase = "firing" /\ NextToRemove(b) /\ b \in inChain
  /\ Canonical(b)
  /\ blocksToRemove' = blocksToRemove \ {b}
  /\ blockInfoMap' = blockInfoMap \ {b}
  /\ fired' = FiredAfter(b)
  /\ UNCHANGED <<nodeVars, batch, blockDepth, inChain, phase>>
  /\ UNCHANGED <<firedBefore, lastHandled, gapless, whole, shallow, counters>>

\* Mutant of the next definition: the index is not cleared.
ClearNothing ==
  /\ phase = "firing" /\ blocksToRemove = {}
  /\ inChain' = {}
  /\ lastHandled' = Number(batch[1])
  /\ batch' = Tail(batch)
  /\ phase' = "idle"
  /\ UNCHANGED <<nodeVars, blockDepth, blockInfoMap, blocksToRemove>>
  /\ UNCHANGED <<fired, firedBefore, gapless, whole, shallow, counters>>

\* The loop is done: the index is cleared and the next hash has its turn.
Clear ==
  /\ phase = "firing" /\ blocksToRemove = {}
  /\ blockDepth' = blockDepth \ OldBlocks(blockDepth)
  /\ inChain' = {}
  /\ lastHandled' = Number(batch[1])
  /\ batch' = Tail(batch)
  /\ phase' = "idle"
  /\ UNCHANGED <<nodeVars, blockInfoMap, blocksToRemove>>
  /\ UNCHANGED <<fired, firedBefore, gapless, whole, shallow, counters>>

-------------------------------------------------------------------------------
(* Exceptions: run() of BlockPoller logs them and gives up the poll.       *)

Abandon ==
  /\ batch' = <<>>
  /\ blocksToRemove' = {}
  /\ inChain' = {}
  /\ phase' = "idle"
  /\ UNCHANGED <<nodeVars, firedBefore, lastHandled, shallow, crashes>>

\* A receipt is missing because the node has left the block's chain: line
\* 107 of newBlock fails on null.
NoReceipt(b) ==
  /\ phase = "firing" /\ NextToRemove(b) /\ b \in inChain
  /\ ~Canonical(b)
  /\ blockInfoMap' = blockInfoMap \ {b}
  /\ gapless' = FALSE
  /\ Abandon
  /\ UNCHANGED <<blockDepth, fired, whole, exceptions>>

\* The node fails to answer or a handler throws, before or after the events
\* of the block have reached a handler.
FiringFails(b) ==
  /\ exceptions < MaxExceptions
  /\ phase = "firing" /\ NextToRemove(b) /\ b \in inChain
  /\ blockInfoMap' = blockInfoMap \ {b}
  /\ fired' \in {fired} \cup (IF Canonical(b) THEN {FiredAfter(b)} ELSE {})
  /\ exceptions' = exceptions + 1
  /\ gapless' = FALSE
  /\ Abandon
  /\ UNCHANGED <<blockDepth, whole>>

\* The node fails to answer in the middle of the walk of importBlocks: the
\* blocks above are kept without their ancestors.
ImportFails ==
  /\ exceptions < MaxExceptions
  /\ phase = "idle" /\ batch # <<>>
  /\ \E b \in Imported(batch[1]) :
       LET above == {c \in Imported(batch[1]) : Number(c) > Number(b)}
       IN  /\ above # {}
           /\ blockDepth' = blockDepth \cup above
           /\ blockInfoMap' = blockInfoMap \cup above
  /\ exceptions' = exceptions + 1
  /\ gapless' = FALSE /\ whole' = FALSE
  /\ Abandon
  /\ UNCHANGED fired

\* The node fails to answer for the head itself: the poll is lost.
FetchFails ==
  /\ exceptions < MaxExceptions
  /\ phase = "idle" /\ batch # <<>>
  /\ exceptions' = exceptions + 1
  /\ Abandon
  /\ UNCHANGED <<blockDepth, blockInfoMap, fired, gapless, whole>>

\* The answer of eth_getFilterChanges is lost on its way.
PollFails ==
  /\ exceptions < MaxExceptions
  /\ phase = "idle" /\ batch = <<>> /\ changes # <<>>
  /\ changes' = <<>>
  /\ exceptions' = exceptions + 1
  /\ UNCHANGED <<blocks, head, eventVars, historyVars, crashes>>

\* The process dies; a new one starts with a new filter and nothing kept.
Crash ==
  /\ crashes < MaxCrashes
  /\ phase # "down"
  /\ batch' = <<>>
  /\ blockDepth' = {} /\ blockInfoMap' = {} /\ blocksToRemove' = {} /\ inChain' = {}
  /\ phase' = "down"
  /\ firedBefore' = firedBefore \cup {fired[i] : i \in DOMAIN fired}
  /\ fired' = <<>>
  /\ crashes' = crashes + 1
  /\ UNCHANGED <<nodeVars, lastHandled, gapless, whole, shallow, exceptions>>

Start ==
  /\ phase = "down"
  /\ phase' = "idle"
  /\ changes' = <<>>
  /\ UNCHANGED <<blocks, head, batch, blockDepth, blockInfoMap, blocksToRemove, inChain>>
  /\ UNCHANGED <<historyVars, counters>>

\* The node finds a block.
NewBlockMined(b) ==
  /\ Mine(b)
  /\ shallow' = (shallow /\ (head' # head => Replaced(b) < BlockConfirmationCount))
  /\ UNCHANGED <<eventVars, fired, firedBefore, lastHandled, gapless, whole, counters>>

-------------------------------------------------------------------------------
Init == NodeInit /\ EventsInit

Next ==
  \/ \E b \in Blocks : NewBlockMined(b)
  \/ Poll
  \/ NewBlock
  \/ \E b \in blocksToRemove : Prune(b) \/ Fire(b) \/ NoReceipt(b) \/ FiringFails(b)
  \/ Clear
  \/ ImportFails
  \/ FetchFails
  \/ PollFails
  \/ Crash
  \/ Start

Spec == Init /\ [][Next]_vars

\* The timer of BlockPoller is one thread that never stops while the process
\* runs.
PollerStep ==
  \/ Poll
  \/ NewBlock
  \/ \E b \in blocksToRemove : Prune(b) \/ Fire(b) \/ NoReceipt(b)
  \/ Clear

FairSpec == Spec /\ WF_vars(PollerStep)

-------------------------------------------------------------------------------
(* Properties                                                              *)

EverFired == firedBefore \cup {fired[i] : i \in DOMAIN fired}

\* A running process hands the events of a block to the handlers at most
\* once, whatever forks appear, is replaced or fails.
FiredOnce ==
  \A i, j \in DOMAIN fired : fired[i] = fired[j] => i = j

\* Events are final: a block whose events were fired has as many blocks on
\* top of it as were asked for and never leaves the chain of the node.
FiredForGood ==
  \A b \in EverFired : Canonical(b) /\ Confirmations(b) >= BlockConfirmationCount

\* Events come in the order of the chain, and so each once, whatever polls,
\* receipts or handlers fail in between, as long as no reorganisation is as deep
\* as the confirmation count and no walk of importBlocks was cut short: blocks
\* that are kept without their ancestors end the walk of a later head too early,
\* and after a reorganisation of them the next walk goes too far.
FiredInOrder ==
  shallow /\ whole => \A i, j \in DOMAIN fired : i < j => Number(fired[i]) < Number(fired[j])

\* No block is skipped: when the events of a block are fired those of all its
\* ancestors have been, in this process or an earlier one, as long as no
\* exception hit newBlock, no more than ImportDepth + 2 blocks were added
\* between two heads it handled and no reorganisation is as deep as the
\* confirmation count: the blocks of a branch that comes back are gone by then.
NothingSkipped ==
  gapless /\ shallow => \A b \in EverFired : Line(b) \subseteq EverFired \cup {1}

\* Memory is bounded whatever forks there are: between two calls of newBlock
\* the youngest blocks are kept and no other, in the index and in the map
\* alike, as long as no exception hit newBlock.
OnlyYoungKept ==
  phase = "idle" /\ gapless =>
    /\ blockInfoMap = blockDepth
    /\ OldBlocks(blockDepth) = {}

\* Every event is delivered in the end: once a block has enough blocks on top
\* of it in the node its events are fired.
Deep(b) ==
  b \in Blocks \ {1} /\ Canonical(b) /\ Confirmations(b) >= BlockConfirmationCount
ConfirmedIsFired ==
  \A b \in 1 .. MaxBlocks : Deep(b) ~> b \in EverFired

===============================================================================
