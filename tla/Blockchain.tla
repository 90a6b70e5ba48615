------------------------------ MODULE Blockchain ------------------------------
(***************************************************************************)
(* The Ethereum node as PendingEvents and BlockPoller see it: a tree of    *)
(* blocks that grows, a head, and one block filter that collects the       *)
(* hashes of the heads between two polls.  Blocks are numbered in the      *)
(* order they are mined, 0 stands for the parent hash of the genesis block *)
(* and every block carries the set of its ancestors.                       *)
(***************************************************************************)
EXTENDS Integers, Sequences, FiniteSets

CONSTANTS
  MaxBlocks,   \* bound on the blocks that are mined
  MaxReorg     \* the most blocks a change of the head takes off the chain

ASSUME MaxBlocksAssumption == MaxBlocks \in Nat \ {0}
ASSUME MaxReorgAssumption == MaxReorg \in Nat

VARIABLES
  blocks,      \* the blocks mined so far
  head,        \* the block at the end of the canonical chain
  changes      \* heads the filter holds for the next poll

nodeVars == <<blocks, head, changes>>

NoHash == 0
Blocks == DOMAIN blocks
Number(b) == blocks[b].number
ParentHash(b) == blocks[b].parent

\* A block and its ancestors.
Line(b) == blocks[b].line

Canonical(b) == b \in Line(head)

\* How many blocks lie on top of b in the canonical chain.
Confirmations(b) == Number(head) - Number(b)

NodeInit ==
  /\ blocks = <<[number |-> 0, parent |-> NoHash, line |-> {1}]>>
  /\ head = 1
  /\ changes = <<>>

\* The blocks a head on top of b would take off the chain.
Replaced(b) == Cardinality(Line(head) \ Line(b))

\* A block is found on top of b.  It becomes the head when its chain is
\* longer, and may when it is as long as that of the head.  The filter
\* reports heads, not the other blocks a reorganisation brings in.
Mine(b) ==
  LET new == Len(blocks) + 1
      number == Number(b) + 1
  IN  /\ Len(blocks) < MaxBlocks
      /\ Replaced(b) <= MaxReorg
      /\ blocks' = Append(blocks, [number |-> number, parent |-> b,
                                   line |-> Line(b) \cup {new}])
      /\ \/ /\ number >= Number(head)
            /\ head' = new
            /\ changes' = Append(changes, new)
         \/ /\ number <= Number(head)
            /\ UNCHANGED <<head, changes>>

===============================================================================
