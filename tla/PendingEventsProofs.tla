-------------------------- MODULE PendingEventsProofs --------------------------
(***************************************************************************)
(* The safety properties of PendingEvents, proved for every confirmation   *)
(* count, import depth and bound.                                          *)
(***************************************************************************)
EXTENDS PendingEvents, FiniteSetTheorems, FunctionTheorems, TLAPS

-------------------------------------------------------------------------------
(* The tree of blocks: a line has one block of each number up to that of   *)
(* its end, and the line of each of its blocks is the part below it.       *)

BlockRecords == [number : Nat, parent : Nat, line : SUBSET Nat]

LineOK(b) ==
  /\ b \in Line(b) /\ Line(b) \subseteq 1 .. b
  /\ \A c \in Line(b) : Line(c) \subseteq Line(b) /\ Number(c) <= Number(b)
  /\ \A c, d \in Line(b) : Number(c) <= Number(d) => c \in Line(d)
  /\ \A c, d \in Line(b) : Number(c) = Number(d) => c = d
  /\ \A n \in 0 .. Number(b) : \E c \in Line(b) : Number(c) = n

ParentOK(b) ==
  IF b = 1 THEN ParentHash(b) = NoHash /\ Number(b) = 0
           ELSE ParentHash(b) \in Line(b) /\ Number(ParentHash(b)) + 1 = Number(b)

TreeOK ==
  /\ blocks \in Seq(BlockRecords) /\ head \in Blocks
  /\ \A b \in Blocks : LineOK(b) /\ ParentOK(b)

-------------------------------------------------------------------------------
(* What is on its way from the node is in order and younger than what is   *)
(* kept; and what has been a head once is settled but for its end, as long *)
(* as reorganisations are shallow.                                         *)

Settled(h) ==
  \A a \in Line(h) : Number(a) + BlockConfirmationCount <= Number(h) + 1 => Canonical(a)

Seen(h) == h \in Blocks /\ Number(h) <= Number(head) /\ (shallow => Settled(h))

Before(b, c) == b < c /\ Number(b) <= Number(c)
Ordered(s) ==
  \A i, j \in DOMAIN s : i < j => \A c, d : c = s[i] /\ d = s[j] => Before(c, d)

QueuesOK ==
  /\ batch \in Seq(Blocks) /\ changes \in Seq(Blocks)
  /\ Ordered(batch) /\ Ordered(changes)
  /\ \A c \in Range(batch), d \in Range(changes) : Before(c, d)
  /\ \A c \in Range(batch) \cup Range(changes) : Seen(c)

\* The heads that newBlock has not begun with.
Waiting ==
  Range(changes) \cup {batch[i] : i \in {j \in DOMAIN batch : phase = "firing" => j > 1}}

DepthOK ==
  /\ \A d \in blockDepth : Seen(d)
  /\ \A d \in blockDepth, c \in Waiting : Before(d, c)
  /\ phase = "firing" =>
       /\ batch # <<>>
       /\ \E h \in blockDepth : h = batch[1] /\ \A d \in blockDepth : Number(d) <= Number(h)
  /\ blockDepth # {} => \E d \in blockDepth : \A e \in blockDepth : Number(e) <= Number(d)

-------------------------------------------------------------------------------
(* The index and the map.                                                  *)

IsOld(b) == \E d \in blockDepth : Number(b) + BlockConfirmationCount <= Number(d)

KeptOK ==
  /\ phase \in {"idle", "firing", "down"}
  /\ blockInfoMap \subseteq blockDepth
  /\ \A d \in blockDepth \ blockInfoMap : IsOld(d)
  /\ gapless /\ phase # "firing" => \A d \in blockDepth : ~IsOld(d)
  /\ gapless => whole

\* The ancestors of a kept block are kept, but for the old ones.
Connected ==
  whole => \A k \in blockInfoMap : \A a \in Line(k) : a \in blockInfoMap \/ IsOld(a)

RemovalOK ==
  /\ phase # "firing" => blocksToRemove = {}
  /\ blocksToRemove \subseteq blockDepth
  /\ \A b \in blocksToRemove : IsOld(b)
  /\ blocksToRemove \cap inChain \subseteq blockInfoMap
  /\ phase = "firing" => \A k \in blockInfoMap : IsOld(k) => k \in blocksToRemove

-------------------------------------------------------------------------------
(* What was fired.                                                         *)

\* Nothing that is kept lies below a block that was fired.
NoneBelowFired ==
  shallow /\ whole =>
    \A c \in Range(fired), k \in blockInfoMap : k \notin Line(c)

FiredOK ==
  /\ fired \in Seq(Blocks) /\ firedBefore \subseteq Blocks
  /\ shallow \/ MaxReorg <= BlockConfirmationCount => FiredForGood
  /\ shallow => \A c \in Range(fired) : IsOld(c)
  /\ NoneBelowFired /\ FiredInOrder

\* A head that is asked to have no block on top of it is never settled.
NoneAsked ==
  shallow /\ BlockConfirmationCount = 0 =>
    /\ batch = <<>> /\ changes = <<>> /\ phase # "firing"
    /\ blockDepth = {} /\ fired = <<>>

\* The canonical blocks up to number n that have enough blocks on top of them
\* were fired, but for those in rest.
FiredUpTo(n, rest) ==
  \A a \in Line(head) :
    Number(a) + BlockConfirmationCount <= n => a \in EverFired \cup {1} \cup rest

SkipOK ==
  /\ lastHandled \in Nat /\ lastHandled <= Number(head)
  /\ gapless /\ phase # "firing" => \A d \in blockDepth : Number(d) <= lastHandled
  /\ gapless /\ shallow =>
       /\ FiredUpTo(lastHandled, {})
       /\ phase = "firing" =>
            \A h : h = batch[1] => FiredUpTo(Number(h), blocksToRemove \cap inChain)
  /\ NothingSkipped

FaultsOK ==
  /\ exceptions \in Nat /\ exceptions <= MaxExceptions
  /\ whole \/ exceptions > 0
  /\ MaxReorg < BlockConfirmationCount => shallow

IInv ==
  /\ TreeOK /\ QueuesOK /\ DepthOK /\ KeptOK /\ Connected /\ RemovalOK
  /\ FiredOK /\ NoneAsked /\ SkipOK /\ FaultsOK

-------------------------------------------------------------------------------
(* Lemmas about the tree of blocks.                                        *)

LEMMA BlocksAre ==
  ASSUME TreeOK
  PROVE  /\ Len(blocks) \in Nat /\ Blocks = 1 .. Len(blocks)
         /\ \A b \in Blocks : /\ Number(b) \in Nat /\ ParentHash(b) \in Nat
                              /\ Line(b) \subseteq Blocks /\ b \in Line(b)
<1>1. blocks \in Seq(BlockRecords)
  BY DEF TreeOK
<1>2. Len(blocks) \in Nat /\ Blocks = 1 .. Len(blocks)
  BY <1>1 DEF Blocks
<1>3. ASSUME NEW b \in Blocks PROVE blocks[b] \in BlockRecords
  BY <1>1, <1>3 DEF Blocks
<1>4. ASSUME NEW b \in Blocks
      PROVE  /\ Number(b) \in Nat /\ ParentHash(b) \in Nat
             /\ Line(b) \subseteq Blocks /\ b \in Line(b)
  <2>1. Number(b) \in Nat /\ ParentHash(b) \in Nat
    BY <1>3, <1>4 DEF Number, ParentHash, BlockRecords
  <2>2. b \in Line(b) /\ Line(b) \subseteq 1 .. b
    BY <1>4 DEF TreeOK, LineOK
  <2> QED
    BY <1>2, <1>4, <2>1, <2>2
<1> QED
  BY <1>2, <1>4

\* The line of a block ends with it, and its other blocks are older and have
\* a lower number.
LEMMA BelowEnd ==
  ASSUME TreeOK, NEW b \in Blocks, NEW c \in Line(b)
  PROVE  /\ c \in Blocks /\ Line(c) \subseteq Line(b) /\ c <= b
         /\ Number(c) <= Number(b) /\ (c # b => Number(c) < Number(b))
<1>1. c \in Blocks /\ b \in Line(b)
  BY BlocksAre
<1>2. Number(b) \in Nat /\ Number(c) \in Nat
  BY <1>1, BlocksAre
<1>3. LineOK(b)
  BY DEF TreeOK
<1>4. Line(c) \subseteq Line(b) /\ c <= b /\ Number(c) <= Number(b)
  BY <1>3 DEF LineOK
<1>5. Number(c) = Number(b) => c = b
  BY <1>1, <1>3 DEF LineOK
<1> QED
  BY <1>1, <1>2, <1>4, <1>5

\* A line has one block of each number.
LEMMA OfNumber ==
  ASSUME TreeOK, NEW b \in Blocks
  PROVE  /\ \A n \in 0 .. Number(b) : \E c \in Line(b) : Number(c) = n
         /\ \A c, d \in Line(b) : Number(c) = Number(d) => c = d
         /\ \A c, d \in Line(b) : Number(c) <= Number(d) => c \in Line(d)
BY DEF TreeOK, LineOK

LEMMA ParentIs ==
  ASSUME TreeOK, NEW b \in Blocks
  PROVE  /\ ParentHash(b) = NoHash <=> b = 1
         /\ b = 1 <=> Number(b) = 0
         /\ b # 1 => /\ ParentHash(b) \in Line(b)
                     /\ Number(ParentHash(b)) = Number(b) - 1
<1>1. ParentOK(b) /\ Number(b) \in Nat
  BY BlocksAre DEF TreeOK
<1>2. CASE b = 1
  BY <1>1, <1>2 DEF ParentOK
<1>3. CASE b # 1
  <2>1. ParentHash(b) \in Line(b) /\ Number(ParentHash(b)) + 1 = Number(b)
    BY <1>1, <1>3 DEF ParentOK
  <2>2. ParentHash(b) \in Blocks
    BY <2>1, BlocksAre
  <2>3. Number(ParentHash(b)) \in Nat /\ ParentHash(b) # 0
    BY <2>2, BlocksAre
  <2> QED
    BY <1>1, <1>3, <2>1, <2>3 DEF NoHash
<1> QED
  BY <1>2, <1>3

\* The block of a line above another one is its child.
LEMMA ChildIn ==
  ASSUME TreeOK, NEW b \in Blocks, NEW c \in Line(b), c # b
  PROVE  \E d \in Line(b) : ParentHash(d) = c /\ Number(d) = Number(c) + 1
<1>1. /\ c \in Blocks /\ Number(c) \in Nat /\ Number(b) \in Nat /\ Number(c) < Number(b)
  BY BelowEnd, BlocksAre
<1>2. PICK d \in Line(b) : Number(d) = Number(c) + 1
  BY <1>1, OfNumber
<1>3. d \in Blocks /\ d # 1
  BY <1>1, <1>2, BelowEnd, ParentIs
<1>4. ParentHash(d) \in Line(b) /\ Number(ParentHash(d)) = Number(c)
  BY <1>1, <1>2, <1>3, ParentIs, BelowEnd
<1> QED
  BY <1>2, <1>4, OfNumber

\* A block with at least as many blocks on top of it as a new head replaces
\* stays on the chain.
LEMMA Stays ==
  ASSUME TreeOK, NEW p \in Blocks, NEW b \in Line(head), Replaced(p) <= Confirmations(b)
  PROVE  b \in Line(p)
<1> SUFFICES ASSUME b \notin Line(p) PROVE FALSE
  OBVIOUS
<1> DEFINE k == Confirmations(b)
           S == Line(head) \ Line(p)
           at(n) == CHOOSE c \in Line(head) : Number(c) = Number(b) + n
           f == [n \in 0 .. k |-> at(n)]
<1>1. head \in Blocks /\ b \in Blocks
  BY BlocksAre DEF TreeOK
<1>2. Number(b) \in Nat /\ Number(head) \in Nat /\ Number(b) <= Number(head)
  BY <1>1, BlocksAre, BelowEnd
<1>3. k \in Nat /\ k = Number(head) - Number(b)
  BY <1>2 DEF Confirmations
<1>4. ASSUME NEW n \in 0 .. k
      PROVE  at(n) \in Line(head) /\ Number(at(n)) = Number(b) + n
  <2>1. Number(b) + n \in 0 .. Number(head)
    BY <1>2, <1>3
  <2>2. \E c \in Line(head) : Number(c) = Number(b) + n
    BY <1>1, <2>1, OfNumber
  <2> QED
    BY <2>2
<1> HIDE DEF at
<1>5. ASSUME NEW n \in 0 .. k PROVE at(n) \in S
  <2>1. at(n) \in Line(head) /\ Number(b) <= Number(at(n))
    BY <1>2, <1>4
  <2>2. b \in Line(at(n))
    BY <1>1, <2>1, OfNumber
  <2> QED
    BY <2>1, <2>2, BelowEnd
<1>6. f \in Injection(0 .. k, S)
  <2>1. f \in [0 .. k -> S]
    BY <1>5
  <2>2. ASSUME NEW m \in 0 .. k, NEW n \in 0 .. k, f[m] = f[n] PROVE m = n
    BY <1>2, <1>4, <2>2
  <2> QED
    BY <2>1, <2>2 DEF Injection, IsInjective
<1>7. IsFiniteSet(S)
  <2>1. S \in SUBSET (1 .. Len(blocks)) /\ Len(blocks) \in Nat
    BY <1>1, BlocksAre
  <2>2. IsFiniteSet(1 .. Len(blocks))
    BY <2>1, FS_Interval
  <2> HIDE DEF S
  <2> QED
    BY <2>1, <2>2, FS_Subset
<1>8. Cardinality(0 .. k) <= Cardinality(S) /\ Cardinality(S) \in Nat
  BY <1>6, <1>7, FS_Injection, FS_CardinalityType
<1>9. Cardinality(0 .. k) = k + 1
  BY <1>3, FS_Interval
<1> HIDE DEF k, S
<1>10. Cardinality(S) <= k
  BY DEF Replaced, k, S
<1> QED
  BY <1>3, <1>8, <1>9, <1>10

-------------------------------------------------------------------------------
(* How the tree grows.                                                     *)

\* Old blocks stay as they are.
Grows ==
  /\ Blocks \subseteq Blocks'
  /\ \A c \in Blocks : /\ Number(c)' = Number(c) /\ Line(c)' = Line(c)
                       /\ ParentHash(c)' = ParentHash(c)

LEMMA MineGrows ==
  ASSUME TreeOK, NEW b \in Blocks, Mine(b), NEW new, new = Len(blocks) + 1
  PROVE  /\ Grows /\ Blocks' = Blocks \cup {new} /\ new \notin Blocks
         /\ blocks' \in Seq(BlockRecords)
         /\ \A c \in Blocks : c < new
         /\ Number(new)' = Number(b) + 1 /\ ParentHash(new)' = b
         /\ Line(new)' = Line(b) \cup {new}
<1> DEFINE rec == [number |-> Number(b) + 1, parent |-> b, line |-> Line(b) \cup {new}]
<1>1. blocks' = Append(blocks, rec)
  BY DEF Mine
<1>2. /\ Len(blocks) \in Nat /\ Blocks = 1 .. Len(blocks)
      /\ Number(b) \in Nat /\ Line(b) \subseteq Blocks
  BY BlocksAre
<1>3. rec \in BlockRecords
  BY <1>2 DEF BlockRecords
<1>4. blocks \in Seq(BlockRecords)
  BY DEF TreeOK
<1>5. rec.number = Number(b) + 1 /\ rec.parent = b /\ rec.line = Line(b) \cup {new}
  OBVIOUS
<1> HIDE DEF rec
<1>6. /\ blocks' \in Seq(BlockRecords)
      /\ DOMAIN blocks' = 1 .. Len(blocks) + 1
      /\ \A c \in 1 .. Len(blocks) : blocks'[c] = blocks[c]
      /\ blocks'[Len(blocks) + 1] = rec
  BY <1>1, <1>2, <1>3, <1>4
<1>7. Blocks' = Blocks \cup {new} /\ new \notin Blocks /\ \A c \in Blocks : c < new
  BY <1>2, <1>6 DEF Blocks
<1>8. Grows
  BY <1>2, <1>6, <1>7 DEF Grows, Number, Line, ParentHash
<1>9. /\ Number(new)' = Number(b) + 1 /\ ParentHash(new)' = b
      /\ Line(new)' = Line(b) \cup {new}
  BY <1>5, <1>6 DEF Number, Line, ParentHash
<1> QED
  BY <1>6, <1>7, <1>8, <1>9

LEMMA MineKeepsTree ==
  ASSUME TreeOK, NEW b \in Blocks, Mine(b)
  PROVE  TreeOK'
<1>0. PICK new : new = Len(blocks) + 1
  OBVIOUS
<1>1. /\ Grows /\ Blocks' = Blocks \cup {new} /\ new \notin Blocks
      /\ blocks' \in Seq(BlockRecords)
      /\ \A c \in Blocks : c < new
      /\ Number(new)' = Number(b) + 1 /\ ParentHash(new)' = b
      /\ Line(new)' = Line(b) \cup {new}
  BY <1>0, MineGrows
<1>2. /\ b \in Line(b) /\ Number(b) \in Nat /\ new \in Nat
      /\ \A c \in Blocks : Line(c) \subseteq Blocks /\ LineOK(c) /\ ParentOK(c)
      /\ \A c \in Blocks : Number(c) \in Nat
  BY <1>0, BlocksAre DEF TreeOK
<1>3. ASSUME NEW c \in Blocks PROVE LineOK(c)' /\ ParentOK(c)'
  <2>1. LineOK(c)'
    BY <1>1, <1>2 DEF Grows, LineOK
  <2>2. ParentOK(c)'
    BY <1>1, <1>2 DEF Grows, ParentOK
  <2> QED
    BY <2>1, <2>2
<1>4. LineOK(new)'
  <2>1. \A c \in Line(b) : /\ c \in Blocks /\ c # new /\ Line(c)' = Line(c)
                            /\ Number(c)' = Number(c) /\ Number(c) <= Number(b)
                            /\ Line(c) \subseteq Line(b) /\ c < new /\ Number(c) \in Nat
    BY <1>1, <1>2, BelowEnd DEF Grows
  <2>2. new \in Line(new)' /\ Line(new)' \subseteq 1 .. new
    <3>1. Line(b) \subseteq 1 .. b /\ b < new /\ b \in Nat
      BY <1>1, <1>2, BlocksAre DEF LineOK
    <3>2. new >= 1
      BY <1>2, <3>1
    <3> QED
      BY <1>1, <1>2, <3>1, <3>2
  <2>3. \A c \in Line(new)' : Line(c)' \subseteq Line(new)' /\ Number(c)' <= Number(new)'
    BY <1>1, <1>2, <2>1
  <2>4. \A c, d \in Line(new)' : Number(c)' <= Number(d)' => c \in Line(d)'
    <3> SUFFICES ASSUME NEW c \in Line(new)', NEW d \in Line(new)', Number(c)' <= Number(d)'
                 PROVE  c \in Line(d)'
      OBVIOUS
    <3>1. CASE d = new
      BY <3>1
    <3>2. CASE d # new
      <4>1. c # new
        BY <1>1, <1>2, <2>1, <3>2
      <4> QED
        BY <1>1, <1>2, <2>1, <3>2, <4>1 DEF LineOK
    <3> QED
      BY <3>1, <3>2
  <2>5. \A c, d \in Line(new)' : Number(c)' = Number(d)' => c = d
    BY <1>1, <1>2, <2>1 DEF LineOK
  <2>6. \A n \in 0 .. Number(new)' : \E c \in Line(new)' : Number(c)' = n
    <3> SUFFICES ASSUME NEW n \in 0 .. Number(b) + 1
                 PROVE  \E c \in Line(new)' : Number(c)' = n
      BY <1>1
    <3>1. CASE n = Number(b) + 1
      BY <1>1, <3>1
    <3>2. CASE n # Number(b) + 1
      <4>1. n \in 0 .. Number(b)
        BY <1>2, <3>2
      <4>2. PICK c \in Line(b) : Number(c) = n
        BY <4>1, OfNumber
      <4> QED
        BY <1>1, <2>1, <4>2
    <3> QED
      BY <3>1, <3>2
  <2> QED
    BY <2>2, <2>3, <2>4, <2>5, <2>6 DEF LineOK
<1>5. ParentOK(new)'
  <2>1. new # 1
    BY <1>0, BlocksAre
  <2> QED
    BY <1>1, <1>2, <2>1 DEF ParentOK, Grows
<1>6. head' \in Blocks'
  BY <1>0, <1>1 DEF Mine, TreeOK
<1> QED
  BY <1>1, <1>3, <1>4, <1>5, <1>6 DEF TreeOK

\* The chain of a new head goes on where the old one ends, but for what is
\* replaced; its number is no smaller.
LEMMA MineMovesHead ==
  ASSUME TreeOK, NEW b \in Blocks, Mine(b)
  PROVE  /\ Number(head) \in Nat /\ Number(head)' \in Nat /\ Number(head) <= Number(head)'
         /\ Replaced(b) \in Nat /\ Replaced(b) <= MaxReorg
         /\ head' = head => Line(head)' = Line(head)
         /\ \A a \in Line(head) : Replaced(b) <= Confirmations(a) => a \in Line(head)'
<1>0. PICK new : new = Len(blocks) + 1
  OBVIOUS
<1>1. /\ Grows /\ new \notin Blocks
      /\ Number(new)' = Number(b) + 1 /\ Line(new)' = Line(b) \cup {new}
  BY <1>0, MineGrows
<1>2. head \in Blocks /\ Number(head) \in Nat /\ Number(b) \in Nat
  BY BlocksAre DEF TreeOK
<1>3. \/ head' = head
      \/ head' = new /\ Number(b) + 1 >= Number(head)
  BY <1>0 DEF Mine
<1>4. head' = head => Line(head)' = Line(head) /\ Number(head)' = Number(head)
  BY <1>1, <1>2 DEF Grows
<1>5. head' = new => Line(head)' = Line(new)' /\ Number(head)' = Number(new)'
  OBVIOUS
<1>6. Replaced(b) \in Nat
  <2>1. Line(head) \ Line(b) \in SUBSET (1 .. Len(blocks)) /\ Len(blocks) \in Nat
    BY <1>2, BlocksAre
  <2>2. IsFiniteSet(1 .. Len(blocks))
    BY <2>1, FS_Interval
  <2> QED
    BY <2>1, <2>2, FS_Subset, FS_CardinalityType DEF Replaced
<1>7. Replaced(b) <= MaxReorg
  BY DEF Mine
<1>8. ASSUME NEW a \in Line(head), Replaced(b) <= Confirmations(a) PROVE a \in Line(head)'
  BY <1>1, <1>3, <1>4, <1>5, <1>8, Stays
<1> QED
  BY <1>1, <1>2, <1>3, <1>4, <1>5, <1>6, <1>7, <1>8

\* What has enough blocks on top of it stays, if the new head is shallow.
LEMMA MineKeepsCanonical ==
  ASSUME TreeOK, NEW b \in Blocks, NewBlockMined(b), NEW a \in Blocks, Canonical(a),
         \/ shallow' /\ Number(a) + BlockConfirmationCount <= Number(head) + 1
         \/ /\ MaxReorg <= BlockConfirmationCount
            /\ Number(a) + BlockConfirmationCount <= Number(head)
  PROVE  Canonical(a)'
<1>1. a \in Line(head) /\ Number(a) \in Nat /\ Number(head) \in Nat
  BY BlocksAre DEF Canonical, TreeOK
<1>2. Mine(b) /\ shallow' = (shallow /\ (head' # head => Replaced(b) < BlockConfirmationCount))
  BY DEF NewBlockMined
<1>3. /\ Replaced(b) \in Nat /\ Replaced(b) <= MaxReorg
      /\ head' = head => Line(head)' = Line(head)
      /\ Replaced(b) <= Confirmations(a) => a \in Line(head)'
  BY <1>1, <1>2, MineMovesHead
<1>4. Confirmations(a) = Number(head) - Number(a)
  BY DEF Confirmations
<1>5. CASE head' = head
  BY <1>1, <1>3, <1>5 DEF Canonical
<1>6. CASE head' # head /\ shallow' /\ Number(a) + BlockConfirmationCount <= Number(head) + 1
  <2>1. Replaced(b) < BlockConfirmationCount
    BY <1>2, <1>6
  <2>2. Replaced(b) <= Number(head) - Number(a)
    BY <1>1, <1>3, <1>6, <2>1, CountsAssumption
  <2> QED
    BY <1>3, <1>4, <2>2 DEF Canonical
<1>7. CASE /\ MaxReorg <= BlockConfirmationCount
           /\ Number(a) + BlockConfirmationCount <= Number(head)
  BY <1>1, <1>3, <1>4, <1>7, CountsAssumption, MaxReorgAssumption DEF Canonical
<1> QED
  BY <1>5, <1>6, <1>7

LEMMA MineKeepsSeen ==
  ASSUME TreeOK, NEW b \in Blocks, NewBlockMined(b), NEW h, Seen(h)
  PROVE  Seen(h)'
<1>1. Mine(b) /\ (shallow' => shallow) /\ Grows /\ Blocks \subseteq Blocks'
  BY MineGrows DEF NewBlockMined, Grows
<1>2. h \in Blocks /\ Number(h) \in Nat /\ Number(h) <= Number(head)
  BY BlocksAre DEF Seen
<1>3. Number(h)' = Number(h) /\ Line(h)' = Line(h) /\ h \in Blocks'
  BY <1>1, <1>2 DEF Grows
<1>4. Number(h)' <= Number(head)'
  BY <1>1, <1>2, <1>3, MineMovesHead
<1>5. ASSUME shallow', NEW a \in Line(h), Number(a)' + BlockConfirmationCount <= Number(h) + 1
      PROVE  Canonical(a)'
  <2>1. a \in Blocks /\ Number(a) \in Nat /\ Number(a)' = Number(a) /\ Number(head) \in Nat
    BY <1>1, <1>2, BlocksAre DEF Grows, TreeOK
  <2>2. Canonical(a)
    BY <1>1, <1>5, <2>1 DEF Seen, Settled
  <2>3. Number(a) + BlockConfirmationCount <= Number(head) + 1
    BY <1>2, <1>5, <2>1, CountsAssumption
  <2> QED
    BY <1>5, <2>1, <2>2, <2>3, MineKeepsCanonical
<1>6. shallow' => Settled(h)'
  BY <1>3, <1>5 DEF Settled
<1> QED
  BY <1>3, <1>4, <1>6 DEF Seen

\* A new head is seen and younger than all that was seen.
LEMMA NewHeadSeen ==
  ASSUME TreeOK, NEW b \in Blocks, NewBlockMined(b), NEW new, new = Len(blocks) + 1, head' = new
  PROVE  Seen(new)' /\ \A c : Seen(c) => Before(c, new)'
<1>1. Mine(b) /\ TreeOK'
  BY MineKeepsTree DEF NewBlockMined
<1>2. Grows /\ \A c \in Blocks : c < new
  BY <1>1, MineGrows
<1>3. new \in Blocks' /\ Number(new)' = Number(head)' /\ Line(new)' = Line(head)'
  BY <1>1 DEF TreeOK
<1>4. Number(head) \in Nat /\ Number(head)' \in Nat /\ Number(head) <= Number(head)'
  BY <1>1, MineMovesHead
<1>5. Seen(new)'
  BY <1>3, <1>4 DEF Seen, Settled, Canonical
<1>6. ASSUME NEW c, Seen(c) PROVE Before(c, new)'
  <2>1. c \in Blocks /\ Number(c) \in Nat /\ Number(c) <= Number(head) /\ Number(c)' = Number(c)
    BY <1>2, <1>6, BlocksAre DEF Seen, Grows
  <2> QED
    BY <1>2, <1>3, <1>4, <2>1 DEF Before
<1> QED
  BY <1>5, <1>6

LEMMA MineKeepsBefore ==
  ASSUME TreeOK, NEW b \in Blocks, Mine(b), NEW c \in Blocks, NEW d \in Blocks, Before(c, d)
  PROVE  Before(c, d)'
<1>1. Grows
  BY MineGrows
<1> QED
  BY <1>1 DEF Grows, Before

LEMMA MineKeepsQueues ==
  ASSUME IInv, NEW b \in Blocks, NewBlockMined(b)
  PROVE  QueuesOK'
<1>0. PICK new : new = Len(blocks) + 1
  OBVIOUS
<1>1. TreeOK /\ QueuesOK /\ Mine(b) /\ batch' = batch
  BY DEF IInv, NewBlockMined, eventVars
<1>2. Blocks \subseteq Blocks'
  BY <1>1, MineGrows DEF Grows
<1>3. /\ batch \in Seq(Blocks) /\ changes \in Seq(Blocks)
      /\ \A c \in Range(batch) \cup Range(changes) : c \in Blocks /\ Seen(c)
      /\ \A i \in DOMAIN batch : batch[i] \in Blocks
      /\ \A i \in DOMAIN changes : changes[i] \in Blocks
  BY <1>1 DEF QueuesOK, Seen
<1>4. batch' \in Seq(Blocks') /\ changes \in Seq(Blocks')
  BY <1>1, <1>2, <1>3
<1>5. Ordered(batch)'
  BY <1>1, <1>3, MineKeepsBefore DEF QueuesOK, Ordered
<1>6. \A c \in Range(batch) \cup Range(changes) : Seen(c)'
  BY <1>1, <1>3, MineKeepsSeen
<1>7. \A c \in Range(batch), d \in Range(changes) : Before(c, d)'
  BY <1>1, <1>3, MineKeepsBefore DEF QueuesOK
<1>8. CASE changes' = changes
  <2>1. Ordered(changes)'
    BY <1>1, <1>3, <1>8, MineKeepsBefore DEF QueuesOK, Ordered
  <2> QED
    BY <1>1, <1>4, <1>5, <1>6, <1>7, <1>8, <2>1 DEF QueuesOK
<1>9. CASE changes' = Append(changes, new) /\ head' = new
  <2>1. Seen(new)' /\ new \in Blocks' /\ \A c : Seen(c) => Before(c, new)'
    BY <1>0, <1>1, <1>9, NewHeadSeen DEF Seen
  <2>2. /\ Len(changes) \in Nat /\ DOMAIN changes = 1 .. Len(changes)
        /\ DOMAIN changes' = 1 .. Len(changes) + 1 /\ changes' \in Seq(Blocks')
        /\ \A i \in DOMAIN changes : changes'[i] = changes[i]
        /\ changes'[Len(changes) + 1] = new
    BY <1>3, <1>4, <1>9, <2>1
  <2>3. Range(changes') = Range(changes) \cup {new}
    BY <2>2 DEF Range
  <2>4. Ordered(changes)'
    <3> SUFFICES ASSUME NEW i \in DOMAIN changes', NEW j \in DOMAIN changes', i < j,
                        NEW c, NEW d, c = changes'[i], d = changes'[j]
                 PROVE  Before(c, d)'
      BY DEF Ordered
    <3>1. i \in DOMAIN changes /\ c = changes[i]
      BY <2>2
    <3>2. CASE j \in DOMAIN changes
      <4>1. d = changes[j] /\ Before(c, d)
        BY <1>1, <2>2, <3>1, <3>2 DEF QueuesOK, Ordered
      <4> QED
        BY <1>1, <1>3, <3>1, <3>2, <4>1, MineKeepsBefore
    <3>3. CASE j = Len(changes) + 1
      <4>1. Seen(c) /\ d = new
        BY <1>3, <2>2, <3>1, <3>3 DEF Range
      <4> QED
        BY <2>1, <4>1
    <3> QED
      BY <2>2, <3>2, <3>3
  <2>5. \A c \in Range(batch), d \in Range(changes') : Before(c, d)'
    BY <1>3, <1>7, <2>1, <2>3
  <2>6. \A c \in Range(batch) \cup Range(changes') : Seen(c)'
    BY <1>6, <2>1, <2>3
  <2> QED
    BY <1>1, <1>4, <1>5, <2>2, <2>4, <2>5, <2>6 DEF QueuesOK
<1> QED
  BY <1>0, <1>1, <1>8, <1>9 DEF Mine

LEMMA MineKeepsDepth ==
  ASSUME IInv, NEW b \in Blocks, NewBlockMined(b)
  PROVE  DepthOK'
<1>0. PICK new : new = Len(blocks) + 1
  OBVIOUS
<1>1. /\ TreeOK /\ QueuesOK /\ DepthOK /\ Mine(b)
      /\ batch' = batch /\ blockDepth' = blockDepth /\ phase' = phase
  BY DEF IInv, NewBlockMined, eventVars
<1>2. /\ \A d \in blockDepth : Seen(d) /\ d \in Blocks
      /\ \A c \in Waiting : c \in Blocks
      /\ changes \in Seq(Blocks)
  <2>1. \A d \in blockDepth : Seen(d) /\ d \in Blocks
    BY <1>1 DEF DepthOK, Seen
  <2>2. Waiting \subseteq Range(batch) \cup Range(changes)
    BY DEF Waiting, Range
  <2>3. \A c \in Range(batch) \cup Range(changes) : c \in Blocks
    BY <1>1 DEF QueuesOK, Seen
  <2> QED
    BY <1>1, <2>1, <2>2, <2>3 DEF QueuesOK
<1>3. \A d \in Blocks : Number(d)' = Number(d)
  BY <1>1, MineGrows DEF Grows
<1>4. \A d \in blockDepth : Seen(d)'
  BY <1>1, <1>2, MineKeepsSeen
<1>5. \A d \in blockDepth, c \in Waiting : Before(d, c)'
  BY <1>1, <1>2, MineKeepsBefore DEF DepthOK
<1>6. phase = "firing" =>
        /\ batch # <<>>
        /\ \E h \in blockDepth : h = batch[1] /\ \A d \in blockDepth : Number(d)' <= Number(h)'
  BY <1>1, <1>2, <1>3 DEF DepthOK
<1>7. blockDepth # {} => \E d \in blockDepth : \A e \in blockDepth : Number(e)' <= Number(d)'
  BY <1>1, <1>2, <1>3 DEF DepthOK
<1>8. \A d \in blockDepth, c \in Waiting' : Before(d, c)'
  <2>1. CASE changes' = changes
    BY <1>1, <1>5, <2>1 DEF Waiting
  <2>2. CASE changes' = Append(changes, new) /\ head' = new
    <3>1. \A c : Seen(c) => Before(c, new)'
      BY <1>0, <1>1, <2>2, NewHeadSeen
    <3>2. Range(changes') \subseteq Range(changes) \cup {new}
      BY <1>2, <2>2 DEF Range
    <3>3. Waiting' \subseteq Waiting \cup {new}
      BY <1>1, <3>2 DEF Waiting
    <3> QED
      BY <1>2, <1>5, <3>1, <3>3
  <2> QED
    BY <1>0, <1>1, <2>1, <2>2 DEF Mine
<1> QED
  BY <1>1, <1>4, <1>6, <1>7, <1>8 DEF DepthOK

LEMMA NumbersStay ==
  ASSUME TreeOK, NEW b \in Blocks, Mine(b), NEW a \in Line(head)'
  PROVE  Number(a)' \in Nat
<1>1. TreeOK'
  BY MineKeepsTree
<1>2. PICK h : h = head'
  OBVIOUS
<1>3. /\ h \in Blocks' /\ blocks' \in Seq(BlockRecords) /\ LineOK(h)'
      /\ Line(head)' = Line(h)'
  BY <1>1, <1>2 DEF TreeOK, Line
<1>4. Line(h)' \subseteq 1 .. h /\ Blocks' = 1 .. Len(blocks') /\ Len(blocks') \in Nat
  BY <1>3 DEF LineOK, Blocks
<1>5. a \in Blocks'
  BY <1>3, <1>4
<1>6. blocks'[a] \in BlockRecords
  BY <1>3, <1>5 DEF Blocks
<1> QED
  BY <1>6 DEF Number, BlockRecords

\* No block comes in below what is settled.
LEMMA MineAddsAbove ==
  ASSUME TreeOK, NEW b \in Blocks, NewBlockMined(b), shallow',
         NEW a \in Line(head)', Number(a)' + BlockConfirmationCount <= Number(head) + 1,
         Number(a)' <= Number(head)
  PROVE  a \in Line(head) /\ Number(a)' = Number(a)
<1>1. Mine(b) /\ TreeOK' /\ Grows
  BY MineGrows, MineKeepsTree DEF NewBlockMined
<1>2. head \in Blocks /\ Number(head) \in Nat
  BY BlocksAre DEF TreeOK
<1>3. LineOK(head)'
  BY <1>1 DEF TreeOK, LineOK, Line, Number
<1>4. Number(a)' \in Nat
  BY <1>1, NumbersStay
<1>5. PICK c \in Line(head) : Number(c) = Number(a)'
  BY <1>2, <1>4, OfNumber
<1>6. c \in Blocks /\ Number(c)' = Number(c)
  BY <1>1, <1>2, <1>5, BlocksAre DEF Grows
<1>7. c \in Line(head)'
  BY <1>5, <1>6, MineKeepsCanonical DEF Canonical
<1>8. c = a
  BY <1>3, <1>5, <1>6, <1>7 DEF LineOK
<1> QED
  BY <1>5, <1>6, <1>8

LEMMA MineKeepsOld ==
  ASSUME TreeOK, DepthOK, NEW b \in Blocks, Mine(b), blockDepth' = blockDepth, NEW c \in Blocks
  PROVE  IsOld(c)' <=> IsOld(c)
<1>1. Grows /\ blockDepth \subseteq Blocks
  BY MineGrows DEF DepthOK, Seen
<1>2. /\ Number(c)' = Number(c)
      /\ \A d \in blockDepth : Number(d)' = Number(d)
  BY <1>1 DEF Grows
<1> QED
  BY <1>2 DEF IsOld

LEMMA MineKeepsKept ==
  ASSUME IInv, NEW b \in Blocks, NewBlockMined(b)
  PROVE  KeptOK' /\ Connected' /\ RemovalOK'
<1>1. /\ TreeOK /\ DepthOK /\ KeptOK /\ Connected /\ RemovalOK /\ Mine(b)
      /\ UNCHANGED <<eventVars, gapless, whole>>
  BY DEF IInv, NewBlockMined
<1>2. /\ blockDepth \subseteq Blocks /\ blockInfoMap \subseteq Blocks
      /\ UNCHANGED <<blockDepth, blockInfoMap, blocksToRemove, inChain, phase>>
  BY <1>1 DEF DepthOK, KeptOK, Seen, eventVars
<1>3. \A c \in Blocks : IsOld(c)' <=> IsOld(c)
  BY <1>1, <1>2, MineKeepsOld
<1>4. KeptOK'
  BY <1>1, <1>2, <1>3 DEF KeptOK
<1>5. Connected'
  <2>1. \A k \in blockInfoMap : Line(k)' = Line(k) /\ Line(k) \subseteq Blocks
    BY <1>1, <1>2, MineGrows, BlocksAre DEF Grows
  <2> QED
    BY <1>1, <1>2, <1>3, <2>1 DEF Connected
<1>6. RemovalOK'
  BY <1>1, <1>2, <1>3 DEF RemovalOK
<1> QED
  BY <1>4, <1>5, <1>6

LEMMA MineKeepsFired ==
  ASSUME IInv, NEW b \in Blocks, NewBlockMined(b)
  PROVE  FiredOK'
<1>1. /\ TreeOK /\ DepthOK /\ KeptOK /\ FiredOK /\ Mine(b) /\ Grows
      /\ UNCHANGED <<fired, firedBefore, whole, blockDepth, blockInfoMap>>
      /\ shallow' => shallow
  BY MineGrows DEF IInv, NewBlockMined, eventVars
<1>2. /\ Blocks \subseteq Blocks' /\ fired \in Seq(Blocks) /\ firedBefore \subseteq Blocks
      /\ Range(fired) \subseteq Blocks /\ EverFired' = EverFired /\ EverFired \subseteq Blocks
      /\ \A i \in DOMAIN fired : fired[i] \in Blocks
  BY <1>1 DEF FiredOK, Grows, EverFired, Range
<1>3. fired' \in Seq(Blocks') /\ firedBefore' \subseteq Blocks'
  BY <1>1, <1>2
<1>4. shallow' \/ MaxReorg <= BlockConfirmationCount => FiredForGood'
  <2> SUFFICES ASSUME shallow' \/ MaxReorg <= BlockConfirmationCount, NEW c \in EverFired
               PROVE  Canonical(c)' /\ Confirmations(c)' >= BlockConfirmationCount
    BY <1>2 DEF FiredForGood
  <2>1. /\ c \in Blocks /\ Number(c) \in Nat /\ Number(c)' = Number(c)
        /\ Number(head) \in Nat /\ Number(head)' \in Nat /\ Number(head) <= Number(head)'
    BY <1>1, <1>2, BlocksAre, MineMovesHead DEF Grows
  <2>2. Canonical(c) /\ Confirmations(c) >= BlockConfirmationCount
    BY <1>1 DEF FiredOK, FiredForGood
  <2>3. Number(c) + BlockConfirmationCount <= Number(head)
    BY <2>1, <2>2, CountsAssumption DEF Confirmations
  <2>4. Canonical(c)'
    BY <1>1, <2>1, <2>2, <2>3, MineKeepsCanonical, CountsAssumption
  <2>5. Confirmations(c)' >= BlockConfirmationCount
    BY <2>1, <2>3, CountsAssumption DEF Confirmations
  <2> QED
    BY <2>4, <2>5
<1>5. shallow' => \A c \in Range(fired) : IsOld(c)'
  BY <1>1, <1>2, MineKeepsOld DEF FiredOK
<1>6. NoneBelowFired'
  <2>1. \A c \in Range(fired) : Line(c)' = Line(c)
    BY <1>1, <1>2 DEF Grows
  <2> QED
    BY <1>1, <2>1 DEF FiredOK, NoneBelowFired
<1>7. FiredInOrder'
  BY <1>1, <1>2 DEF FiredOK, FiredInOrder, Grows, Number
<1> QED
  BY <1>1, <1>3, <1>4, <1>5, <1>6, <1>7 DEF FiredOK

LEMMA MineKeepsSkip ==
  ASSUME IInv, NEW b \in Blocks, NewBlockMined(b)
  PROVE  NoneAsked' /\ SkipOK' /\ FaultsOK'
<1>1. /\ TreeOK /\ DepthOK /\ FiredOK /\ SkipOK /\ NoneAsked /\ FaultsOK /\ Mine(b) /\ Grows
      /\ UNCHANGED <<eventVars, fired, firedBefore, lastHandled, gapless, whole, counters>>
      /\ shallow' = (shallow /\ (head' # head => Replaced(b) < BlockConfirmationCount))
  BY MineGrows DEF IInv, NewBlockMined
<1>2. /\ UNCHANGED <<batch, blockDepth, blocksToRemove, inChain, phase, exceptions>>
      /\ EverFired' = EverFired /\ (shallow' => shallow)
  BY <1>1 DEF eventVars, counters, EverFired
<1>3. /\ Replaced(b) \in Nat /\ Replaced(b) <= MaxReorg
      /\ Number(head) \in Nat /\ Number(head)' \in Nat /\ Number(head) <= Number(head)'
  BY <1>1, MineMovesHead
<1>4. NoneAsked'
  <2> SUFFICES ASSUME shallow', BlockConfirmationCount = 0 PROVE changes' = changes
    BY <1>1, <1>2 DEF NoneAsked
  <2>1. head' = head
    <3>1. head' # head => Replaced(b) < BlockConfirmationCount
      BY <1>1, Zenon
    <3> QED
      BY <1>3, <3>1
  <2>2. head # Len(blocks) + 1
    BY <1>1, BlocksAre DEF TreeOK
  <2> QED
    BY <1>1, <2>1, <2>2 DEF Mine
<1>5. FaultsOK'
  <2>1. MaxReorg < BlockConfirmationCount => Replaced(b) < BlockConfirmationCount
    BY <1>3, CountsAssumption, MaxReorgAssumption
  <2>2. MaxReorg < BlockConfirmationCount => shallow'
    BY <1>1, <2>1, Zenon DEF FaultsOK
  <2> QED
    BY <1>1, <1>2, <2>2 DEF FaultsOK
<1>6. /\ lastHandled' \in Nat /\ lastHandled' <= Number(head)'
      /\ lastHandled \in Nat /\ lastHandled <= Number(head)
  BY <1>1, <1>3 DEF SkipOK
<1>7. \A d \in blockDepth : Number(d)' = Number(d) /\ Number(d) \in Nat /\ Number(d) <= Number(head)
  BY <1>1, BlocksAre DEF DepthOK, Seen, Grows
<1>8. gapless' /\ phase' # "firing" => \A d \in blockDepth' : Number(d)' <= lastHandled'
  BY <1>1, <1>2, <1>7 DEF SkipOK
<1>9. ASSUME gapless', shallow', NEW n \in Nat, n <= Number(head), NEW rest, FiredUpTo(n, rest)
      PROVE  \A a \in Line(head)' : Number(a)' + BlockConfirmationCount <= n =>
               a \in EverFired \cup {1} \cup rest
  <2> SUFFICES ASSUME NEW a \in Line(head)', Number(a)' + BlockConfirmationCount <= n
               PROVE  a \in EverFired \cup {1} \cup rest
    OBVIOUS
  <2>1. Number(a)' \in Nat
    BY <1>1, NumbersStay
  <2>2. Number(a)' + BlockConfirmationCount <= Number(head) + 1 /\ Number(a)' <= Number(head)
    BY <1>3, <1>9, <2>1, CountsAssumption
  <2>3. a \in Line(head) /\ Number(a)' = Number(a)
    BY <1>1, <1>9, <2>2, MineAddsAbove
  <2> QED
    BY <1>9, <2>3 DEF FiredUpTo
<1>10. gapless' /\ shallow' => FiredUpTo(lastHandled, {})'
  BY <1>1, <1>2, <1>6, <1>9 DEF SkipOK, FiredUpTo
<1>11. ASSUME gapless', shallow', phase' = "firing", NEW h, h = batch[1]
       PROVE  FiredUpTo(Number(h), blocksToRemove \cap inChain)'
  <2>1. h \in blockDepth
    BY <1>1, <1>2, <1>11 DEF DepthOK
  <2>2. FiredUpTo(Number(h), blocksToRemove \cap inChain)
    BY <1>1, <1>2, <1>11 DEF SkipOK
  <2> QED
    BY <1>2, <1>7, <1>9, <1>11, <2>1, <2>2 DEF FiredUpTo
<1>12. NothingSkipped'
  <2>1. \A c \in EverFired : Line(c)' = Line(c)
    BY <1>1 DEF FiredOK, EverFired, Grows
  <2> QED
    BY <1>1, <1>2, <2>1 DEF SkipOK, NothingSkipped
<1>13. SkipOK'
  BY <1>1, <1>2, <1>6, <1>8, <1>10, <1>11, <1>12 DEF SkipOK
<1> QED
  BY <1>4, <1>5, <1>13

LEMMA MineKeeps ==
  ASSUME IInv, NEW b \in Blocks, NewBlockMined(b)
  PROVE  IInv'
<1>1. TreeOK'
  BY MineKeepsTree DEF IInv, NewBlockMined
<1> QED
  BY <1>1, MineKeepsQueues, MineKeepsDepth, MineKeepsKept, MineKeepsFired, MineKeepsSkip DEF IInv

-------------------------------------------------------------------------------
(* The other actions leave the tree as it is.                              *)

SameTree ==
  /\ Blocks' = Blocks /\ head' = head
  /\ \A c : Number(c)' = Number(c) /\ Line(c)' = Line(c) /\ ParentHash(c)' = ParentHash(c)
  /\ \A c : Canonical(c)' <=> Canonical(c)
  /\ \A c : Confirmations(c)' = Confirmations(c)
  /\ \A c, d : Before(c, d)' <=> Before(c, d)
  /\ \A c : Seen(c)' <=> Seen(c)
  /\ Line(head)' = Line(head) /\ Number(head)' = Number(head)
  /\ TreeOK'

LEMMA TreeStays ==
  ASSUME TreeOK, UNCHANGED <<blocks, head, shallow>>
  PROVE  SameTree
<1>1. /\ Blocks' = Blocks /\ head' = head
      /\ \A c : Number(c)' = Number(c) /\ Line(c)' = Line(c) /\ ParentHash(c)' = ParentHash(c)
      /\ Line(head)' = Line(head) /\ Number(head)' = Number(head)
  BY DEF Blocks, Number, Line, ParentHash
<1>2. \A c : Canonical(c)' <=> Canonical(c)
  BY <1>1 DEF Canonical
<1>3. \A c : Confirmations(c)' = Confirmations(c)
  BY <1>1 DEF Confirmations
<1>4. \A c, d : Before(c, d)' <=> Before(c, d)
  BY <1>1 DEF Before
<1>5. \A c : Seen(c)' <=> Seen(c)
  BY <1>1, <1>2 DEF Seen, Settled
<1>6. TreeOK'
  <2>1. \A b \in Blocks : LineOK(b)' /\ ParentOK(b)'
    BY <1>1 DEF TreeOK, LineOK, ParentOK
  <2> QED
    BY <1>1, <2>1 DEF TreeOK
<1> QED
  BY <1>1, <1>2, <1>3, <1>4, <1>5, <1>6 DEF SameTree

-------------------------------------------------------------------------------
(* The walk of importBlocks and what is old by the index.                  *)

LEMMA LastKeyIs ==
  ASSUME NEW D, NEW d \in D, \A e \in D : Number(e) \in Nat /\ Number(e) <= Number(d)
  PROVE  LastKey(D) = Number(d)
<1> DEFINE S == {Number(e) : e \in D}
<1>1. Number(d) \in S /\ \A x \in S : x \in Nat /\ Number(d) >= x
  OBVIOUS
<1> HIDE DEF S
<1>2. Max(S) \in S /\ \A x \in S : Max(S) >= x
  BY <1>1 DEF Max
<1>3. Max(S) = Number(d)
  BY <1>1, <1>2
<1> QED
  BY <1>3 DEF LastKey, S

LEMMA OldBlocksAre ==
  ASSUME TreeOK, NEW D \in SUBSET Blocks, NEW d \in D, \A e \in D : Number(e) <= Number(d)
  PROVE  OldBlocks(D) = {b \in D : Number(b) + BlockConfirmationCount <= Number(d)}
<1>1. \A e \in D : Number(e) \in Nat
  BY BlocksAre
<1>2. LastKey(D) = Number(d)
  BY <1>1, LastKeyIs
<1> QED
  BY <1>1, <1>2, CountsAssumption DEF OldBlocks

\* The blocks of the index that leave it are the old ones.
LEMMA OldBlocksAreOld ==
  ASSUME TreeOK, DepthOK
  PROVE  OldBlocks(blockDepth) = {b \in blockDepth : IsOld(b)}
<1>1. CASE blockDepth = {}
  BY <1>1 DEF OldBlocks
<1>2. CASE blockDepth # {}
  <2>1. PICK d \in blockDepth : \A e \in blockDepth : Number(e) <= Number(d)
    BY <1>2 DEF DepthOK
  <2>2. blockDepth \in SUBSET Blocks /\ \A e \in blockDepth : Number(e) \in Nat
    BY BlocksAre DEF DepthOK, Seen
  <2>3. \A b \in blockDepth : IsOld(b) <=> Number(b) + BlockConfirmationCount <= Number(d)
    BY <2>1, <2>2, CountsAssumption DEF IsOld
  <2> QED
    BY <2>1, <2>2, <2>3, OldBlocksAre
<1> QED
  BY <1>1, <1>2

LEMMA ImportedIs ==
  ASSUME TreeOK, NEW h \in Blocks
  PROVE  /\ h \in Imported(h) /\ Imported(h) \subseteq Line(h)
         /\ \A b \in Imported(h), c \in Line(h) : Number(b) <= Number(c) => c \in Imported(h)
<1>1. /\ h \in Line(h) /\ Number(h) \in Nat
      /\ \A c \in Line(h) : Number(c) \in Nat /\ Number(c) <= Number(h)
  BY BlocksAre, BelowEnd
<1> QED
  BY <1>1 DEF Imported

\* The walk from a head reaches what is not old and not too far down, or ends
\* at blocks that are kept with it.
LEMMA WalkReaches ==
  ASSUME TreeOK, Connected, whole, NEW h \in Blocks, NEW a \in Line(h), ~IsOld(a),
         Number(h) <= Number(a) + BlockConfirmationCount + ImportDepth + 1
  PROVE  a \in blockInfoMap \cup Imported(h)
<1> SUFFICES ASSUME a \notin Imported(h) PROVE a \in blockInfoMap
  OBVIOUS
<1>1. PICK c \in Line(h) : Number(c) > Number(a) /\ WalkEndsAt(c, h)
  BY DEF Imported
<1>2. /\ c \in Blocks /\ a \in Blocks /\ Line(c) \subseteq Line(h)
      /\ Number(a) \in Nat /\ Number(c) \in Nat /\ Number(h) \in Nat
  BY BelowEnd, BlocksAre
<1>3. ~(Number(h) - Number(c) > BlockConfirmationCount + ImportDepth)
  BY <1>1, <1>2, CountsAssumption
<1>4. c # 1 /\ ParentHash(c) # NoHash
  BY <1>1, <1>2, ParentIs
<1>5. ParentHash(c) \in blockInfoMap
  BY <1>1, <1>3, <1>4 DEF WalkEndsAt
<1>6. ParentHash(c) \in Line(c) /\ Number(ParentHash(c)) = Number(c) - 1
  BY <1>2, <1>4, ParentIs
<1>7. ParentHash(c) \in Line(h) /\ Number(a) <= Number(ParentHash(c))
  BY <1>1, <1>2, <1>6
<1>8. a \in Line(ParentHash(c))
  BY <1>7, OfNumber
<1> QED
  BY <1>5, <1>8 DEF Connected

\* The walk does not go on to a block that is kept, unless it begins there.
LEMMA WalkStops ==
  ASSUME TreeOK, NEW h \in Blocks, NEW k \in Line(h), k # h, k \in blockInfoMap,
         NEW b \in Imported(h)
  PROVE  Number(k) < Number(b)
<1>1. b \in Line(h) /\ b \in Blocks /\ Number(b) \in Nat /\ Number(k) \in Nat
  BY ImportedIs, BelowEnd, BlocksAre
<1>2. PICK c \in Line(h) : ParentHash(c) = k /\ Number(c) = Number(k) + 1
  BY ChildIn
<1>3. WalkEndsAt(c, h)
  BY <1>2 DEF WalkEndsAt
<1>4. ~(Number(c) > Number(b))
  BY <1>2, <1>3 DEF Imported
<1> QED
  BY <1>1, <1>2, <1>4

-------------------------------------------------------------------------------
(* newBlock up to its loop.                                                *)

LEMMA SeenBelow ==
  ASSUME TreeOK, NEW h, Seen(h), NEW c \in Line(h)
  PROVE  Seen(c)
<1>1. /\ h \in Blocks /\ c \in Blocks /\ Line(c) \subseteq Line(h) /\ Number(c) <= Number(h)
      /\ Number(h) <= Number(head)
  BY BelowEnd DEF Seen
<1>2. Number(h) \in Nat /\ Number(c) \in Nat /\ Number(head) \in Nat
  BY <1>1, BlocksAre DEF TreeOK
<1>3. \A a \in Line(h) : Number(a) \in Nat
  BY <1>1, BlocksAre
<1>4. shallow => Settled(c)
  BY <1>1, <1>2, <1>3, CountsAssumption DEF Seen, Settled
<1> QED
  BY <1>1, <1>2, <1>4 DEF Seen

\* Two settled lines have their settled blocks in common.
LEMMA SettledAgree ==
  ASSUME TreeOK, shallow, NEW h, Seen(h), NEW a \in Line(head),
         Number(a) + BlockConfirmationCount <= Number(h) + 1, Number(a) <= Number(h)
  PROVE  a \in Line(h)
<1>1. h \in Blocks /\ head \in Blocks /\ a \in Blocks /\ Number(a) \in Nat /\ Number(h) \in Nat
  BY BlocksAre DEF TreeOK, Seen
<1>2. PICK c \in Line(h) : Number(c) = Number(a)
  BY <1>1, OfNumber
<1>3. c \in Line(head)
  BY <1>2 DEF Seen, Settled, Canonical
<1> QED
  BY <1>1, <1>2, <1>3, OfNumber

LEMMA FirstOfBatch ==
  ASSUME QueuesOK, DepthOK, phase = "idle", batch # <<>>, NEW h, h = batch[1]
  PROVE  /\ Seen(h) /\ h \in Blocks /\ h \in Waiting
         /\ \A d \in blockDepth : Before(d, h)
         /\ \A c : c \in Range(changes) \cup {batch[i] : i \in {j \in DOMAIN batch : j > 1}}
                     => Before(h, c) /\ c \in Waiting
<1>1. 1 \in DOMAIN batch
  BY DEF QueuesOK
<1>2. h \in Range(batch) /\ h \in Waiting
  BY <1>1 DEF Range, Waiting
<1>3. Seen(h) /\ h \in Blocks
  BY <1>2 DEF QueuesOK, Seen
<1>4. \A d \in blockDepth : Before(d, h)
  BY <1>2 DEF DepthOK
<1>5. ASSUME NEW c \in Range(changes) PROVE Before(h, c) /\ c \in Waiting
  BY <1>2, <1>5 DEF QueuesOK, Waiting
<1>6. ASSUME NEW i \in DOMAIN batch, i > 1 PROVE \A c : c = batch[i] => Before(h, c) /\ c \in Waiting
  BY <1>1, <1>6 DEF QueuesOK, Ordered, Waiting
<1> QED
  BY <1>2, <1>3, <1>4, <1>5, <1>6

LEMMA NewBlockIs ==
  ASSUME IInv, NewBlock, NEW h, h = batch[1]
  PROVE  /\ SameTree /\ Seen(h) /\ h \in Blocks /\ h \notin blockInfoMap
         /\ blockDepth' = blockDepth \cup Imported(h)
         /\ blockInfoMap' = blockInfoMap \cup Imported(h)
         /\ blockDepth' \subseteq Blocks /\ h \in blockDepth'
         /\ \A d \in blockDepth' : Number(d) <= Number(h)
         /\ \A d \in blockDepth : Before(d, h)
         /\ \A c \in Blocks : IsOld(c)' <=> Number(c) + BlockConfirmationCount <= Number(h)
         /\ \A c \in Blocks : IsOld(c) => IsOld(c)'
         /\ blocksToRemove' = {b \in blockDepth' : IsOld(b)'}
         /\ inChain' = InChain(blockDepth', blockInfoMap')
<1>1. /\ phase = "idle" /\ batch # <<>>
      /\ blockDepth' = blockDepth \cup Imported(h)
      /\ blockInfoMap' = blockInfoMap \cup Imported(h)
      /\ blocksToRemove' = OldBlocks(blockDepth \cup Imported(h))
      /\ inChain' = InChain(blockDepth \cup Imported(h), blockInfoMap \cup Imported(h))
      /\ UNCHANGED <<blocks, head, shallow>>
  BY DEF NewBlock, nodeVars
<1>2. SameTree
  BY <1>1, TreeStays DEF IInv
<1>3. /\ Seen(h) /\ h \in Blocks /\ \A d \in blockDepth : Before(d, h)
  BY <1>1, FirstOfBatch DEF IInv
<1>4. /\ h \in Imported(h) /\ Imported(h) \subseteq Line(h)
      /\ \A c \in Line(h) : c \in Blocks /\ Number(c) <= Number(h)
  BY <1>3, ImportedIs, BelowEnd DEF IInv
<1>5. blockDepth \subseteq Blocks /\ blockInfoMap \subseteq blockDepth
  BY DEF IInv, DepthOK, KeptOK, Seen
<1>6. h \notin blockInfoMap
  <2>1. h \in Nat
    BY <1>3, BlocksAre DEF IInv
  <2> QED
    BY <1>3, <1>5, <2>1 DEF Before
<1>7. /\ blockDepth' \subseteq Blocks /\ h \in blockDepth'
      /\ \A d \in blockDepth' : Number(d) <= Number(h)
  BY <1>1, <1>3, <1>4, <1>5 DEF Before
<1>8. \A c \in Blocks : Number(c) \in Nat
  BY BlocksAre DEF IInv
<1>9. \A c : IsOld(c)' <=> \E d \in blockDepth' : Number(c) + BlockConfirmationCount <= Number(d)
  BY <1>2 DEF SameTree, IsOld
<1>10. \A c \in Blocks : IsOld(c)' <=> Number(c) + BlockConfirmationCount <= Number(h)
  BY <1>3, <1>7, <1>8, <1>9, CountsAssumption
<1>11. \A c \in Blocks : IsOld(c) => IsOld(c)'
  BY <1>1, <1>9 DEF IsOld
<1>12. blocksToRemove' = {b \in blockDepth' : Number(b) + BlockConfirmationCount <= Number(h)}
  BY <1>1, <1>7, OldBlocksAre DEF IInv
<1>13. blocksToRemove' = {b \in blockDepth' : IsOld(b)'}
  BY <1>7, <1>10, <1>12
<1> QED
  BY <1>1, <1>2, <1>3, <1>6, <1>7, <1>10, <1>11, <1>13

LEMMA NewBlockKeepsQueues ==
  ASSUME IInv, NewBlock
  PROVE  TreeOK' /\ QueuesOK' /\ DepthOK'
<1>0. PICK h : h = batch[1]
  OBVIOUS
<1>1. /\ phase = "idle" /\ phase' = "firing" /\ batch # <<>>
      /\ UNCHANGED <<changes, batch>>
  BY DEF NewBlock, nodeVars
<1>2. /\ SameTree /\ Seen(h) /\ h \in Blocks
      /\ blockDepth' = blockDepth \cup Imported(h)
      /\ h \in blockDepth' /\ \A d \in blockDepth' : Number(d) <= Number(h)
      /\ \A d \in blockDepth : Before(d, h)
  BY <1>0, NewBlockIs
<1>3. TreeOK' /\ QueuesOK'
  BY <1>1, <1>2 DEF IInv, QueuesOK, Ordered, SameTree
<1>4. \A d \in Imported(h) : d \in Line(h) /\ Seen(d) /\ d <= h /\ Number(d) <= Number(h)
  BY <1>2, ImportedIs, SeenBelow, BelowEnd DEF IInv
<1>5. \A d \in blockDepth' : Seen(d)
  BY <1>2, <1>4 DEF IInv, DepthOK
<1>6. ASSUME NEW d \in blockDepth', NEW c \in Waiting' PROVE Before(d, c)
  <2>1. c \in Range(changes) \cup {batch[i] : i \in {j \in DOMAIN batch : j > 1}}
    BY <1>1, <1>6 DEF Waiting
  <2>2. Before(h, c) /\ c \in Waiting
    BY <1>0, <1>1, <2>1, FirstOfBatch DEF IInv
  <2>3. CASE d \in blockDepth
    BY <2>2, <2>3 DEF IInv, DepthOK
  <2>4. CASE d \in Imported(h)
    <3>1. c \in Blocks
      <4>1. c \in Range(batch) \cup Range(changes)
        BY <2>2 DEF Waiting, Range
      <4> QED
        BY <4>1 DEF IInv, QueuesOK, Seen
    <3>2. /\ d \in Blocks /\ d \in Nat /\ h \in Nat /\ c \in Nat /\ Number(d) \in Nat
          /\ Number(h) \in Nat /\ Number(c) \in Nat
      <4>1. d \in Blocks
        BY <1>2, <1>4, <2>4, BelowEnd DEF IInv
      <4> QED
        BY <1>2, <3>1, <4>1, BlocksAre DEF IInv
    <3> QED
      BY <1>4, <2>2, <2>4, <3>2 DEF Before
  <2> QED
    BY <1>2, <2>3, <2>4
<1>7. DepthOK'
  BY <1>0, <1>1, <1>2, <1>5, <1>6 DEF DepthOK, SameTree
<1> QED
  BY <1>3, <1>7

LEMMA InChainIsKept ==
  ASSUME TreeOK, NEW D \in SUBSET Blocks, NEW M
  PROVE  InChain(D, M) \subseteq M
<1> SUFFICES ASSUME NEW b \in InChain(D, M) PROVE b \in M
  OBVIOUS
<1>1. PICK d \in D : b \in {c \in Line(d) : \A e \in Line(d) : Number(e) >= Number(c) => e \in M}
  BY DEF InChain
<1>2. b \in Line(d) /\ d \in Blocks
  BY <1>1
<1>3. Number(b) \in Nat
  BY <1>2, BlocksAre
<1> QED
  BY <1>1, <1>2, <1>3

LEMMA NewBlockKeepsKept ==
  ASSUME IInv, NewBlock
  PROVE  KeptOK' /\ Connected' /\ RemovalOK' /\ FaultsOK'
<1>0. PICK h : h = batch[1]
  OBVIOUS
<1>1. /\ phase' = "firing" /\ UNCHANGED <<whole, shallow, exceptions>>
      /\ gapless' = (gapless /\ Number(h) - lastHandled <= ImportDepth + 2)
  BY <1>0 DEF NewBlock, NoteReach, counters
<1>2. /\ SameTree /\ h \in Blocks
      /\ blockDepth' = blockDepth \cup Imported(h)
      /\ blockInfoMap' = blockInfoMap \cup Imported(h)
      /\ blockDepth' \subseteq Blocks
      /\ \A c \in Blocks : IsOld(c)' <=> Number(c) + BlockConfirmationCount <= Number(h)
      /\ \A c \in Blocks : IsOld(c) => IsOld(c)'
      /\ blocksToRemove' = {b \in blockDepth' : IsOld(b)'}
      /\ inChain' = InChain(blockDepth', blockInfoMap')
  BY <1>0, NewBlockIs
<1>3. TreeOK /\ KeptOK /\ Connected /\ FaultsOK
  BY DEF IInv
<1>4. KeptOK'
  <2>1. gapless' => whole'
    BY <1>1, <1>3, Zenon DEF KeptOK
  <2>2. blockInfoMap' \subseteq blockDepth' /\ \A d \in blockDepth' \ blockInfoMap' : IsOld(d)'
    BY <1>2, <1>3 DEF KeptOK
  <2> QED
    BY <1>1, <2>1, <2>2 DEF KeptOK
<1>5. Connected'
  <2> SUFFICES ASSUME whole, NEW k \in blockInfoMap', NEW a \in Line(k), ~IsOld(a)'
               PROVE  a \in blockInfoMap'
    BY <1>1, <1>2 DEF Connected, SameTree
  <2>1. k \in Blocks /\ a \in Blocks
    <3>1. k \in Blocks
      BY <1>2, <1>4 DEF KeptOK
    <3> QED
      BY <1>3, <3>1, BelowEnd
  <2>2. ~IsOld(a)
    BY <1>2, <2>1
  <2>3. CASE k \in blockInfoMap
    BY <1>2, <1>3, <2>2, <2>3 DEF Connected
  <2>4. CASE k \in Imported(h)
    <3>1. a \in Line(h)
      BY <1>2, <1>3, <2>4, ImportedIs, BelowEnd
    <3>2. Number(h) <= Number(a) + BlockConfirmationCount + ImportDepth + 1
      <4>1. Number(h) \in Nat /\ Number(a) \in Nat
        BY <1>2, <1>3, <2>1, BlocksAre
      <4>2. ~(Number(a) + BlockConfirmationCount <= Number(h))
        BY <1>2, <2>1
      <4> QED
        BY <4>1, <4>2, CountsAssumption
    <3> QED
      BY <1>2, <1>3, <2>2, <3>1, <3>2, WalkReaches
  <2> QED
    BY <1>2, <2>3, <2>4
<1>6. inChain' \subseteq blockInfoMap'
  BY <1>2, <1>3, InChainIsKept
<1>7. RemovalOK'
  BY <1>1, <1>2, <1>4, <1>6 DEF RemovalOK, KeptOK
<1>8. FaultsOK'
  BY <1>1, <1>3 DEF FaultsOK
<1> QED
  BY <1>4, <1>5, <1>7, <1>8

\* Above a block that was fired there is one that is kept and that ends the
\* walk of every later head.
LEMMA KeptAboveFired ==
  ASSUME IInv, shallow, whole, BlockConfirmationCount > 0,
         NEW c \in Range(fired), NEW h, Seen(h), h \notin blockInfoMap,
         \A d \in blockDepth : Number(d) <= Number(h)
  PROVE  \E k \in blockInfoMap : k \in Line(h) /\ k # h /\ Number(c) < Number(k)
<1>1. /\ TreeOK /\ h \in Blocks /\ Number(h) \in Nat /\ c \in Blocks /\ Number(c) \in Nat
      /\ head \in Blocks
  <2>1. c \in Blocks
    BY DEF IInv, FiredOK, Range
  <2> QED
    BY <2>1, BlocksAre DEF IInv, TreeOK, Seen
<1>2. PICK e \in blockDepth : Number(c) + BlockConfirmationCount <= Number(e)
  BY DEF IInv, FiredOK, IsOld
<1>3. PICK d \in blockDepth : \A f \in blockDepth : Number(f) <= Number(d)
  BY <1>2 DEF IInv, DepthOK
<1>4. /\ Seen(d) /\ d \in Blocks /\ \A f \in blockDepth : Number(f) \in Nat
  BY BlocksAre DEF IInv, DepthOK, Seen
<1>5. /\ Number(d) \in Nat /\ Number(c) + BlockConfirmationCount <= Number(d)
      /\ Number(d) <= Number(h)
  BY <1>1, <1>2, <1>3, <1>4, CountsAssumption
<1>6. Number(d) - BlockConfirmationCount + 1 \in 0 .. Number(d)
  BY <1>1, <1>5, CountsAssumption
<1>7. PICK k \in Line(d) : Number(k) = Number(d) - BlockConfirmationCount + 1
  BY <1>1, <1>4, <1>6, OfNumber
<1>8. \A x : Number(x) = Number(d) \/ x = k => ~IsOld(x)
  BY <1>3, <1>4, <1>5, <1>7, CountsAssumption DEF IsOld
<1>9. d \in blockInfoMap
  BY <1>8 DEF IInv, KeptOK
<1>10. k \in blockInfoMap
  BY <1>7, <1>8, <1>9 DEF IInv, Connected
<1>11. Canonical(k)
  BY <1>4, <1>5, <1>7, CountsAssumption DEF Seen, Settled
<1>12. k \in Line(h)
  BY <1>1, <1>5, <1>7, <1>11, SettledAgree, CountsAssumption DEF Canonical
<1>13. Number(c) < Number(k)
  BY <1>1, <1>5, <1>7, CountsAssumption
<1> QED
  BY <1>10, <1>12, <1>13

LEMMA NewBlockKeepsFired ==
  ASSUME IInv, NewBlock
  PROVE  FiredOK' /\ NoneAsked'
<1>0. PICK h : h = batch[1]
  OBVIOUS
<1>1. /\ UNCHANGED <<fired, firedBefore, whole, shallow>> /\ EverFired' = EverFired
      /\ batch # <<>>
  BY DEF NewBlock, EverFired
<1>2. /\ SameTree /\ Seen(h) /\ h \in Blocks /\ h \notin blockInfoMap
      /\ blockInfoMap' = blockInfoMap \cup Imported(h)
      /\ \A d \in blockDepth : Before(d, h)
      /\ \A c \in Blocks : IsOld(c) => IsOld(c)'
  BY <1>0, NewBlockIs
<1>3. NoneAsked' /\ (shallow => BlockConfirmationCount > 0)
  BY <1>1, CountsAssumption DEF IInv, NoneAsked
<1>4. fired' \in Seq(Blocks') /\ firedBefore' \subseteq Blocks' /\ Range(fired) \subseteq Blocks
  BY <1>1, <1>2 DEF IInv, FiredOK, SameTree, Range
<1>5. shallow' \/ MaxReorg <= BlockConfirmationCount => FiredForGood'
  BY <1>1, <1>2 DEF IInv, FiredOK, FiredForGood, SameTree
<1>6. shallow' => \A c \in Range(fired)' : IsOld(c)'
  BY <1>1, <1>2, <1>4 DEF IInv, FiredOK
<1>7. NoneBelowFired'
  <2> SUFFICES ASSUME shallow, whole, NEW c \in Range(fired), NEW b \in blockInfoMap'
               PROVE  b \notin Line(c)
    BY <1>1, <1>2 DEF NoneBelowFired, SameTree
  <2>1. CASE b \in blockInfoMap
    BY <2>1 DEF IInv, FiredOK, NoneBelowFired
  <2>2. CASE b \in Imported(h)
    <3>1. PICK k \in blockInfoMap : k \in Line(h) /\ k # h /\ Number(c) < Number(k)
      BY <1>2, <1>3, KeptAboveFired DEF Before
    <3>2. Number(k) < Number(b)
      BY <1>2, <2>2, <3>1, WalkStops DEF IInv
    <3>3. /\ c \in Blocks /\ b \in Blocks /\ k \in Blocks
          /\ Number(c) \in Nat /\ Number(b) \in Nat /\ Number(k) \in Nat
      <4>1. c \in Blocks /\ b \in Blocks /\ k \in Blocks
        BY <1>2, <1>4, <2>2, <3>1, ImportedIs, BelowEnd DEF IInv
      <4> QED
        BY <4>1, BlocksAre DEF IInv
    <3>4. ~(Number(b) <= Number(c))
      BY <3>1, <3>2, <3>3
    <3> QED
      BY <3>3, <3>4, BelowEnd DEF IInv
  <2> QED
    BY <1>2, <2>1, <2>2
<1>8. FiredInOrder'
  BY <1>1, <1>2 DEF IInv, FiredOK, FiredInOrder, SameTree, Number
<1> QED
  BY <1>3, <1>4, <1>5, <1>6, <1>7, <1>8 DEF FiredOK

LEMMA NewBlockKeepsSkip ==
  ASSUME IInv, NewBlock
  PROVE  SkipOK'
<1>0. PICK h : h = batch[1]
  OBVIOUS
<1>1. /\ UNCHANGED <<fired, firedBefore, shallow, lastHandled, batch>> /\ EverFired' = EverFired
      /\ phase = "idle" /\ phase' = "firing"
      /\ gapless' = (gapless /\ Number(h) - lastHandled <= ImportDepth + 2)
  BY <1>0 DEF NewBlock, EverFired, NoteReach
<1>2. /\ SameTree /\ Seen(h) /\ h \in Blocks
      /\ blockInfoMap' = blockInfoMap \cup Imported(h)
      /\ h \in blockDepth'
      /\ \A d \in blockDepth' : Number(d) <= Number(h)
      /\ \A c \in Blocks : IsOld(c)' <=> Number(c) + BlockConfirmationCount <= Number(h)
      /\ blocksToRemove' = {b \in blockDepth' : IsOld(b)'}
      /\ inChain' = InChain(blockDepth', blockInfoMap')
      /\ blockDepth' \subseteq Blocks /\ blockDepth' = blockDepth \cup Imported(h)
  BY <1>0, NewBlockIs
<1>3. TreeOK /\ SkipOK /\ KeptOK /\ Connected /\ DepthOK /\ (gapless' => gapless)
  BY <1>1, Zenon DEF IInv
<1>4. lastHandled' \in Nat /\ lastHandled' <= Number(head)' /\ NothingSkipped'
  BY <1>1, <1>2, <1>3 DEF SkipOK, NothingSkipped, SameTree
<1>5. gapless' /\ shallow' => FiredUpTo(lastHandled, {})'
  BY <1>1, <1>2, <1>3 DEF SkipOK, FiredUpTo, SameTree
<1>6. ASSUME gapless', shallow', NEW a \in Line(head),
             Number(a) + BlockConfirmationCount <= Number(h)
      PROVE  a \in EverFired \cup {1} \cup (blocksToRemove' \cap inChain')
  <2>1. /\ gapless /\ whole /\ shallow /\ Number(h) - lastHandled <= ImportDepth + 2
        /\ lastHandled \in Nat
    BY <1>1, <1>3, <1>6 DEF KeptOK, SkipOK
  <2>2. /\ a \in Blocks /\ Number(a) \in Nat /\ Number(h) \in Nat
        /\ \A c \in Line(h) : c \in Blocks /\ Number(c) \in Nat /\ Number(c) <= Number(h)
        /\ \A d \in blockDepth : Number(d) \in Nat /\ Number(d) <= lastHandled
    BY <1>1, <1>2, <1>3, <2>1, BelowEnd, BlocksAre DEF TreeOK, SkipOK, DepthOK, Seen
  <2>3. CASE Number(a) + BlockConfirmationCount <= lastHandled
    BY <1>3, <2>1, <2>3 DEF SkipOK, FiredUpTo
  <2>4. CASE ~(Number(a) + BlockConfirmationCount <= lastHandled)
    <3>1. a \in Line(h)
      BY <1>2, <1>3, <1>6, <2>1, <2>2, SettledAgree, CountsAssumption
    <3>2. ASSUME NEW c \in Line(h), Number(c) >= Number(a)
          PROVE  c \in blockInfoMap'
      <4>1. ~IsOld(c)
        BY <2>1, <2>2, <2>4, <3>2, CountsAssumption DEF IsOld
      <4>2. Number(h) <= Number(c) + BlockConfirmationCount + ImportDepth + 1
        BY <2>1, <2>2, <2>4, <3>2, CountsAssumption
      <4> QED
        BY <1>2, <1>3, <2>1, <4>1, <4>2, WalkReaches
    <3>3. a \in InChain(blockDepth', blockInfoMap')
      <4>1. LastKey(blockDepth') = Number(h)
        <5>1. \A e \in blockDepth' : Number(e) \in Nat
          BY <1>2, <1>3, BlocksAre
        <5> QED
          BY <1>2, <5>1, LastKeyIs
      <4>2. a \in {b \in Line(h) : \A c \in Line(h) : Number(c) >= Number(b) => c \in blockInfoMap'}
        BY <3>1, <3>2
      <4> QED
        BY <1>2, <4>1, <4>2 DEF InChain
    <3>4. a \in blockInfoMap' /\ IsOld(a)'
      BY <1>2, <1>6, <2>2, <3>1, <3>2
    <3>5. a \in blockDepth'
      BY <1>2, <1>3, <3>4 DEF KeptOK
    <3> QED
      BY <1>2, <3>3, <3>4, <3>5
  <2> QED
    BY <2>3, <2>4
<1>7. gapless' /\ shallow' /\ phase' = "firing" =>
        \A x : x = batch'[1] => FiredUpTo(Number(x), blocksToRemove \cap inChain)'
  BY <1>0, <1>1, <1>2, <1>6 DEF FiredUpTo, SameTree
<1> QED
  BY <1>1, <1>4, <1>5, <1>7 DEF SkipOK

-------------------------------------------------------------------------------
(* The loop of newBlock takes a block out of the map.                      *)

\* What the steps of the loop have in common, those that give it up included.
TakesOut(b) ==
  /\ phase = "firing" /\ NextToRemove(b)
  /\ blockInfoMap' = blockInfoMap \ {b}
  /\ UNCHANGED <<nodeVars, blockDepth, firedBefore, lastHandled, whole, shallow>>

\* The other steps that leave the queues, the index and the map alone or
\* take something out of them.
LEMMA OldStays ==
  ASSUME SameTree, UNCHANGED blockDepth
  PROVE  \A c : IsOld(c)' <=> IsOld(c)
BY DEF SameTree, IsOld

LEMMA TakenIs ==
  ASSUME IInv, NEW b, TakesOut(b)
  PROVE  /\ SameTree /\ b \in Blocks /\ b \in blocksToRemove /\ IsOld(b)
         /\ Number(b) \in Nat /\ \A c : IsOld(c)' <=> IsOld(c)
         /\ \A c \in blocksToRemove : c \in Blocks /\ Number(b) <= Number(c)
<1>1. SameTree
  BY TreeStays DEF IInv, TakesOut, nodeVars
<1>2. b \in blocksToRemove /\ \A c \in blocksToRemove : Number(b) <= Number(c)
  BY DEF TakesOut, NextToRemove
<1>3. blocksToRemove \subseteq Blocks /\ IsOld(b)
  BY <1>2 DEF IInv, RemovalOK, DepthOK, Seen
<1>4. \A c : IsOld(c)' <=> IsOld(c)
  BY <1>1, OldStays DEF TakesOut
<1> QED
  BY <1>1, <1>2, <1>3, <1>4, BlocksAre DEF IInv

LEMMA TakeKeepsConnected ==
  ASSUME IInv, NEW b, TakesOut(b)
  PROVE  Connected' /\ blockInfoMap' \subseteq blockDepth'
         /\ \A d \in blockDepth' \ blockInfoMap' : IsOld(d)'
<1>1. /\ SameTree /\ IsOld(b) /\ \A c : IsOld(c)' <=> IsOld(c)
      /\ blockInfoMap' = blockInfoMap \ {b} /\ UNCHANGED <<whole, blockDepth>>
  BY TakenIs DEF TakesOut
<1> QED
  BY <1>1 DEF IInv, KeptOK, Connected, SameTree

\* As long as the loop goes on.
GoesOn(b) ==
  /\ TakesOut(b)
  /\ blocksToRemove' = blocksToRemove \ {b}
  /\ UNCHANGED <<batch, inChain, phase, gapless, exceptions>>

LEMMA LoopKeepsIndex ==
  ASSUME IInv, NEW b, GoesOn(b)
  PROVE  /\ TreeOK' /\ QueuesOK' /\ DepthOK' /\ KeptOK' /\ Connected' /\ RemovalOK'
         /\ FaultsOK'
<1>1. /\ SameTree /\ b \in blocksToRemove /\ IsOld(b) /\ \A c : IsOld(c)' <=> IsOld(c)
  BY TakenIs DEF GoesOn
<1>2. /\ phase = "firing" /\ blockInfoMap' = blockInfoMap \ {b}
      /\ blocksToRemove' = blocksToRemove \ {b}
      /\ UNCHANGED <<changes, blockDepth, batch, inChain, phase, gapless, whole, shallow, exceptions>>
  BY DEF GoesOn, TakesOut, nodeVars
<1>3. TreeOK' /\ QueuesOK'
  BY <1>1, <1>2 DEF IInv, QueuesOK, Ordered, SameTree
<1>4. Waiting' = Waiting
  BY <1>2 DEF Waiting
<1>5. DepthOK'
  BY <1>1, <1>2, <1>4 DEF IInv, DepthOK, SameTree
<1>6. Connected' /\ blockInfoMap' \subseteq blockDepth'
      /\ \A d \in blockDepth' \ blockInfoMap' : IsOld(d)'
  BY TakeKeepsConnected DEF GoesOn
<1>7. KeptOK'
  BY <1>1, <1>2, <1>6 DEF IInv, KeptOK
<1>8. RemovalOK'
  BY <1>1, <1>2 DEF IInv, RemovalOK
<1>9. FaultsOK'
  BY <1>2 DEF IInv, FaultsOK
<1> QED
  BY <1>3, <1>5, <1>6, <1>7, <1>8, <1>9

LEMMA PruneKeeps ==
  ASSUME IInv, NEW b, Prune(b)
  PROVE  IInv'
<1>1. /\ GoesOn(b) /\ b \notin inChain /\ UNCHANGED <<batch, phase, inChain, fired>>
  BY DEF Prune, GoesOn, TakesOut, historyVars, counters
<1>2. SameTree /\ (\A c : IsOld(c)' <=> IsOld(c)) /\ EverFired' = EverFired
  BY <1>1, TakenIs DEF GoesOn, TakesOut, EverFired
<1>3. /\ blockInfoMap' = blockInfoMap \ {b} /\ blocksToRemove' = blocksToRemove \ {b}
      /\ UNCHANGED <<changes, blockDepth, firedBefore, lastHandled, whole, shallow, gapless>>
  BY <1>1 DEF GoesOn, TakesOut, nodeVars
<1>4. NoneAsked'
  BY <1>1, <1>3 DEF IInv, NoneAsked
<1>5. FiredOK'
  <2>1. FiredForGood => FiredForGood'
    BY <1>2 DEF FiredForGood, SameTree
  <2>2. NoneBelowFired' /\ FiredInOrder'
    BY <1>1, <1>2, <1>3 DEF IInv, FiredOK, NoneBelowFired, FiredInOrder, SameTree, Number
  <2> QED
    BY <1>1, <1>2, <1>3, <2>1, <2>2 DEF IInv, FiredOK, SameTree
<1>6. SkipOK'
  <2>1. blocksToRemove' \cap inChain' = blocksToRemove \cap inChain
    BY <1>1, <1>3
  <2> QED
    BY <1>1, <1>2, <1>3, <2>1 DEF IInv, SkipOK, FiredUpTo, NothingSkipped, SameTree
<1> QED
  BY <1>1, <1>4, <1>5, <1>6, LoopKeepsIndex DEF IInv

-------------------------------------------------------------------------------
(* The loop fires a block.                                                 *)

\* The events of the block may have reached the handlers or not.
MayFire(b) ==
  /\ TakesOut(b) /\ b \in inChain
  /\ fired' = fired \/ (Canonical(b) /\ fired' = FiredAfter(b))

LEMMA FiredAfterIs ==
  ASSUME IInv, NEW b \in Blocks, UNCHANGED firedBefore
  PROVE  /\ fired' = fired => EverFired' = EverFired /\ Range(fired)' = Range(fired)
         /\ fired' = FiredAfter(b) /\ b = 1 => fired' = fired
         /\ fired' = FiredAfter(b) /\ b # 1 =>
              /\ fired' \in Seq(Blocks)
              /\ DOMAIN fired' = 1 .. Len(fired) + 1 /\ fired'[Len(fired) + 1] = b
              /\ DOMAIN fired = 1 .. Len(fired) /\ Len(fired) \in Nat
              /\ \A i \in 1 .. Len(fired) : fired'[i] = fired[i]
              /\ Range(fired)' = Range(fired) \cup {b}
              /\ EverFired' = EverFired \cup {b}
<1>1. fired \in Seq(Blocks) /\ (ParentHash(b) = NoHash <=> b = 1)
  BY ParentIs DEF IInv, FiredOK
<1>2. fired' = fired => EverFired' = EverFired /\ Range(fired)' = Range(fired)
  BY DEF EverFired, Range
<1>3. fired' = FiredAfter(b) /\ b = 1 => fired' = fired
  BY <1>1 DEF FiredAfter
<1>4. ASSUME fired' = FiredAfter(b), b # 1
      PROVE  /\ fired' \in Seq(Blocks)
             /\ DOMAIN fired' = 1 .. Len(fired) + 1 /\ fired'[Len(fired) + 1] = b
             /\ DOMAIN fired = 1 .. Len(fired) /\ Len(fired) \in Nat
             /\ \A i \in 1 .. Len(fired) : fired'[i] = fired[i]
             /\ Range(fired)' = Range(fired) \cup {b}
             /\ EverFired' = EverFired \cup {b}
  <2>1. fired' = Append(fired, b)
    BY <1>1, <1>4 DEF FiredAfter
  <2>2. /\ fired' \in Seq(Blocks)
        /\ DOMAIN fired' = 1 .. Len(fired) + 1 /\ fired'[Len(fired) + 1] = b
        /\ DOMAIN fired = 1 .. Len(fired) /\ Len(fired) \in Nat
        /\ \A i \in 1 .. Len(fired) : fired'[i] = fired[i]
    BY <1>1, <2>1
  <2>3. {fired'[i] : i \in DOMAIN fired'} = {fired[i] : i \in DOMAIN fired} \cup {b}
    BY <2>2
  <2> QED
    BY <2>2, <2>3 DEF EverFired, Range
<1> QED
  BY <1>2, <1>3, <1>4

\* A block that the loop takes has enough blocks on top of it.
LEMMA TakenIsDeep ==
  ASSUME IInv, NEW b, TakesOut(b)
  PROVE  /\ Confirmations(b) >= BlockConfirmationCount
         /\ \A h : h = batch[1] => Number(b) + BlockConfirmationCount <= Number(h)
<1>1. /\ TreeOK /\ b \in Blocks /\ Number(b) \in Nat /\ phase = "firing"
      /\ Number(head) \in Nat
  BY TakenIs, BlocksAre DEF IInv, TakesOut, TreeOK
<1>2. PICK d \in blockDepth : Number(b) + BlockConfirmationCount <= Number(d)
  BY TakenIs DEF IsOld
<1>3. PICK h \in blockDepth : h = batch[1] /\ \A e \in blockDepth : Number(e) <= Number(h)
  BY <1>1 DEF IInv, DepthOK
<1>4. /\ Number(d) \in Nat /\ Number(h) \in Nat /\ Number(d) <= Number(head)
  BY <1>1, <1>2, <1>3, BlocksAre DEF IInv, DepthOK, Seen
<1>5. Confirmations(b) >= BlockConfirmationCount
  BY <1>1, <1>2, <1>4, CountsAssumption DEF Confirmations
<1>6. Number(b) + BlockConfirmationCount <= Number(h)
  BY <1>1, <1>2, <1>3, <1>4, CountsAssumption
<1> QED
  BY <1>3, <1>5, <1>6

LEMMA FireKeepsFired ==
  ASSUME IInv, NEW b, MayFire(b)
  PROVE  FiredOK'
<1>1. /\ phase = "firing" /\ blockInfoMap' = blockInfoMap \ {b} /\ b \in inChain
      /\ UNCHANGED <<blocks, blockDepth, firedBefore, lastHandled, whole, shallow>>
  BY DEF MayFire, TakesOut, nodeVars
<1>2. /\ SameTree /\ b \in Blocks /\ b \in blocksToRemove /\ IsOld(b) /\ b \in blockInfoMap
      /\ Number(b) \in Nat /\ \A c : IsOld(c)' <=> IsOld(c)
      /\ \A c \in blocksToRemove : c \in Blocks /\ Number(b) <= Number(c)
  BY <1>1, TakenIs DEF MayFire, IInv, RemovalOK
<1>3. FiredOK
  BY DEF IInv
<1>4. CASE fired' = fired
  <2>1. EverFired' = EverFired /\ Range(fired)' = Range(fired)
    BY <1>1, <1>2, <1>4, FiredAfterIs
  <2>2. FiredForGood => FiredForGood'
    BY <1>2, <2>1 DEF FiredForGood, SameTree
  <2>3. NoneBelowFired' /\ FiredInOrder'
    BY <1>1, <1>2, <1>3, <1>4, <2>1
       DEF FiredOK, NoneBelowFired, FiredInOrder, SameTree, Number
  <2> QED
    BY <1>1, <1>2, <1>3, <1>4, <2>1, <2>2, <2>3 DEF FiredOK, SameTree
<1>5. CASE Canonical(b) /\ fired' = FiredAfter(b) /\ b # 1
  <2>1. /\ fired' \in Seq(Blocks)
        /\ DOMAIN fired' = 1 .. Len(fired) + 1 /\ fired'[Len(fired) + 1] = b
        /\ DOMAIN fired = 1 .. Len(fired) /\ Len(fired) \in Nat
        /\ \A i \in 1 .. Len(fired) : fired'[i] = fired[i]
        /\ Range(fired)' = Range(fired) \cup {b}
        /\ EverFired' = EverFired \cup {b}
    BY <1>1, <1>2, <1>5, FiredAfterIs
  <2>2. FiredForGood => FiredForGood'
    <3>1. Confirmations(b) >= BlockConfirmationCount
      BY TakenIsDeep DEF MayFire
    <3> QED
      BY <1>2, <1>5, <2>1, <3>1 DEF FiredForGood, SameTree
  <2>3. shallow' => \A c \in Range(fired)' : IsOld(c)'
    BY <1>1, <1>2, <1>3, <2>1 DEF FiredOK
  <2>4. NoneBelowFired'
    <3> SUFFICES ASSUME shallow, whole, NEW c \in Range(fired) \cup {b},
                        NEW k \in blockInfoMap \ {b}, k \in Line(c)
                 PROVE  FALSE
      BY <1>1, <1>2, <2>1 DEF NoneBelowFired, SameTree
    <3>1. c = b
      BY <1>3 DEF FiredOK, NoneBelowFired
    <3>2. Number(k) < Number(b) /\ k \in Blocks /\ Number(k) \in Nat
      BY <1>2, <3>1, BelowEnd, BlocksAre DEF IInv
    <3>3. IsOld(k)
      <4>1. PICK d \in blockDepth : Number(b) + BlockConfirmationCount <= Number(d)
        BY <1>2 DEF IsOld
      <4>2. Number(d) \in Nat
        BY BlocksAre DEF IInv, DepthOK, Seen
      <4> QED
        BY <1>2, <3>2, <4>1, <4>2, CountsAssumption DEF IsOld
    <3>4. k \in blocksToRemove
      BY <1>1, <3>3 DEF IInv, RemovalOK
    <3> QED
      BY <1>2, <3>2, <3>4
  <2>5. FiredInOrder'
    <3>1. ASSUME shallow, whole, NEW x \in Range(fired) PROVE Number(x) < Number(b)
      <4>1. x \in Line(head) /\ b \in Line(head)
        BY <1>3, <1>5, <3>1 DEF FiredOK, FiredForGood, EverFired, Range, Canonical
      <4>2. b \notin Line(x)
        BY <1>2, <1>3, <3>1 DEF FiredOK, NoneBelowFired
      <4>3. ~(Number(b) <= Number(x))
        BY <4>1, <4>2, OfNumber DEF IInv, TreeOK
      <4>4. Number(x) \in Nat
        BY <4>1, BlocksAre DEF IInv, TreeOK
      <4> QED
        BY <1>2, <4>3, <4>4
    <3> SUFFICES ASSUME shallow, whole, NEW i \in DOMAIN fired', NEW j \in DOMAIN fired', i < j,
                        NEW x, NEW y, x = fired'[i], y = fired'[j]
                 PROVE  Number(x) < Number(y)
      BY <1>1 DEF FiredInOrder, Number
    <3>2. CASE j \in DOMAIN fired
      <4>1. i \in DOMAIN fired
        BY <2>1, <3>2
      <4>2. x = fired[i] /\ y = fired[j]
        BY <2>1, <3>2, <4>1
      <4> QED
        BY <1>3, <3>2, <4>1, <4>2 DEF FiredOK, FiredInOrder
    <3>3. CASE j = Len(fired) + 1
      <4>1. i \in DOMAIN fired /\ x = fired[i] /\ y = b
        BY <2>1, <3>3
      <4> QED
        BY <3>1, <4>1 DEF Range
    <3> QED
      BY <2>1, <3>2, <3>3
  <2> QED
    BY <1>1, <1>2, <1>3, <2>1, <2>2, <2>3, <2>4, <2>5 DEF FiredOK, SameTree
<1> QED
  BY <1>1, <1>2, <1>4, <1>5, FiredAfterIs DEF MayFire

LEMMA FireKeepsSkip ==
  ASSUME IInv, NEW b, GoesOn(b), b \in inChain, Canonical(b), fired' = FiredAfter(b)
  PROVE  SkipOK'
<1>1. /\ phase = "firing" /\ blocksToRemove' = blocksToRemove \ {b}
      /\ UNCHANGED <<batch, blockDepth, firedBefore, lastHandled, gapless, shallow, phase, inChain>>
  BY DEF GoesOn, TakesOut
<1>2. /\ SameTree /\ b \in Blocks /\ Number(b) \in Nat
      /\ \A c \in blocksToRemove : c \in Blocks /\ Number(b) <= Number(c)
  BY TakenIs DEF GoesOn
<1>3. EverFired' \subseteq EverFired \cup {b} /\ EverFired \subseteq EverFired'
      /\ (b # 1 => b \in EverFired') /\ (b = 1 => EverFired' = EverFired)
  BY <1>1, <1>2, FiredAfterIs
<1>4. ASSUME gapless, shallow PROVE FiredUpTo(lastHandled, {})'
  BY <1>1, <1>2, <1>3, <1>4 DEF IInv, SkipOK, FiredUpTo, SameTree
<1>5. PICK h : h = batch[1]
  OBVIOUS
<1>6. ASSUME gapless, shallow PROVE FiredUpTo(Number(h), blocksToRemove \cap inChain)
  BY <1>1, <1>5, <1>6 DEF IInv, SkipOK
<1>7. ASSUME gapless, shallow, NEW x, x = batch'[1]
      PROVE  FiredUpTo(Number(x), blocksToRemove \cap inChain)'
  BY <1>1, <1>2, <1>3, <1>5, <1>6, <1>7 DEF FiredUpTo, SameTree
<1>8. NothingSkipped'
  <2>1. ASSUME gapless, shallow, b # 1, NEW a \in Line(b) PROVE a \in EverFired' \cup {1}
    <3>1. /\ a \in Blocks /\ Number(a) \in Nat /\ (a # b => Number(a) < Number(b))
      BY <1>2, <2>1, BelowEnd, BlocksAre DEF IInv
    <3>2. a \in Line(head)
      BY <2>1, BelowEnd DEF IInv, TreeOK, Canonical
    <3>3. Number(b) + BlockConfirmationCount <= Number(h)
      BY <1>5, TakenIsDeep DEF GoesOn
    <3>4. Number(h) \in Nat
      <4>1. h \in blockDepth
        BY <1>1, <1>5 DEF IInv, DepthOK
      <4> QED
        BY <4>1, BlocksAre DEF IInv, DepthOK, Seen
    <3>5. Number(a) + BlockConfirmationCount <= Number(h)
      BY <1>2, <3>1, <3>3, <3>4, CountsAssumption
    <3>6. a \in EverFired \cup {1} \cup (blocksToRemove \cap inChain)
      BY <1>6, <2>1, <3>2, <3>5 DEF FiredUpTo
    <3>7. a \in blocksToRemove => a = b
      BY <1>2, <3>1
    <3> QED
      BY <1>3, <2>1, <3>6, <3>7
  <2>2. ASSUME gapless, shallow, NEW c \in EverFired PROVE Line(c) \subseteq EverFired' \cup {1}
    BY <1>3, <2>2 DEF IInv, SkipOK, NothingSkipped
  <2>3. ASSUME gapless, shallow, NEW c \in EverFired' PROVE Line(c) \subseteq EverFired' \cup {1}
    BY <1>3, <2>1, <2>2, <2>3
  <2> QED
    BY <1>1, <1>2, <2>3 DEF NothingSkipped, SameTree
<1>9. lastHandled' \in Nat /\ lastHandled' <= Number(head)'
  BY <1>1, <1>2 DEF IInv, SkipOK, SameTree
<1> QED
  BY <1>1, <1>4, <1>7, <1>8, <1>9 DEF SkipOK

LEMMA FireKeeps ==
  ASSUME IInv, NEW b, Fire(b)
  PROVE  IInv'
<1>1. /\ GoesOn(b) /\ b \in inChain /\ Canonical(b) /\ fired' = FiredAfter(b) /\ phase = "firing"
      /\ UNCHANGED shallow
  BY DEF Fire, GoesOn, TakesOut, counters
<1>2. FiredOK'
  BY <1>1, FireKeepsFired DEF MayFire, GoesOn
<1>3. NoneAsked'
  BY <1>1 DEF IInv, NoneAsked
<1> QED
  BY <1>1, <1>2, <1>3, LoopKeepsIndex, FireKeepsSkip DEF IInv

-------------------------------------------------------------------------------
(* A poll is given up or done.                                             *)

\* What the steps that end a poll or lose one have in common.
Ends ==
  /\ batch' = <<>> \/ (batch' = batch /\ phase # "firing")
  /\ phase' \in {"idle", "down"}
  /\ changes' \in {changes, <<>>}
  /\ blocksToRemove' = {}
  /\ UNCHANGED <<blocks, head, shallow>>

LEMMA EndIs ==
  ASSUME IInv, Ends
  PROVE  /\ SameTree /\ TreeOK' /\ QueuesOK' /\ RemovalOK' /\ phase' # "firing"
         /\ Waiting' \subseteq Waiting /\ phase' \in {"idle", "firing", "down"}
<1>1. /\ phase' # "firing" /\ blocksToRemove' = {}
      /\ changes' \in {changes, <<>>} /\ phase' \in {"idle", "firing", "down"}
      /\ UNCHANGED <<blocks, head, shallow>>
  BY DEF Ends
<1>2. SameTree
  BY <1>1, TreeStays DEF IInv
<1>3. RemovalOK'
  BY <1>1 DEF RemovalOK
<1>4. Range(batch)' \subseteq Range(batch) /\ Range(changes)' \subseteq Range(changes)
  BY <1>1 DEF Ends, Range
<1>5. {batch'[i] : i \in DOMAIN batch'} \subseteq
        {batch[i] : i \in {j \in DOMAIN batch : phase = "firing" => j > 1}}
  BY DEF Ends
<1>6. Waiting' \subseteq Waiting
  BY <1>1, <1>4, <1>5 DEF Waiting
<1>7. changes' \in Seq(Blocks) /\ Ordered(changes)'
  <2>1. CASE changes' = changes
    BY <1>2, <2>1 DEF IInv, QueuesOK, Ordered, SameTree
  <2>2. CASE changes' = <<>>
    BY <2>2 DEF Ordered
  <2> QED
    BY <1>1, <2>1, <2>2
<1>8. batch' \in Seq(Blocks) /\ Ordered(batch)'
  <2>1. CASE batch' = batch
    BY <1>2, <2>1 DEF IInv, QueuesOK, Ordered, SameTree
  <2>2. CASE batch' = <<>>
    BY <2>2 DEF Ordered
  <2> QED
    BY <2>1, <2>2 DEF Ends
<1>9. QueuesOK'
  <2>1. \A c \in Range(batch)' \cup Range(changes)' : Seen(c)'
    BY <1>2, <1>4 DEF IInv, QueuesOK, SameTree
  <2>2. \A c \in Range(batch)', d \in Range(changes)' : Before(c, d)'
    BY <1>2, <1>4 DEF IInv, QueuesOK, SameTree
  <2> QED
    BY <1>2, <1>7, <1>8, <2>1, <2>2 DEF QueuesOK, SameTree
<1> QED
  BY <1>1, <1>2, <1>3, <1>6, <1>9 DEF SameTree

LEMMA EndKeepsDepth ==
  ASSUME IInv, Ends, UNCHANGED blockDepth
  PROVE  DepthOK' /\ \A c : IsOld(c)' <=> IsOld(c)
<1>1. SameTree /\ phase' # "firing" /\ Waiting' \subseteq Waiting
  BY EndIs
<1> QED
  BY <1>1, OldStays DEF IInv, DepthOK, SameTree

\* newBlock fails in its loop.
LEMMA LoopFails ==
  ASSUME IInv, NEW b, MayFire(b), Ends, phase' = "idle", gapless' = FALSE,
         exceptions' \in {exceptions, exceptions + 1}, exceptions' <= MaxExceptions
  PROVE  IInv'
<1>1. /\ phase = "firing" /\ TakesOut(b)
      /\ UNCHANGED <<blockDepth, lastHandled, whole, shallow>>
  BY DEF MayFire, TakesOut
<1>2. SameTree /\ TreeOK' /\ QueuesOK' /\ RemovalOK' /\ phase' # "firing"
  BY EndIs
<1>3. DepthOK' /\ \A c : IsOld(c)' <=> IsOld(c)
  BY <1>1, EndKeepsDepth
<1>4. KeptOK' /\ Connected'
  BY <1>1, TakeKeepsConnected DEF KeptOK
<1>5. NoneAsked'
  BY <1>1 DEF IInv, NoneAsked
<1>6. SkipOK'
  BY <1>1, <1>2 DEF IInv, SkipOK, NothingSkipped, SameTree
<1>7. FaultsOK'
  BY <1>1 DEF IInv, FaultsOK
<1> QED
  BY <1>2, <1>3, <1>4, <1>5, <1>6, <1>7, FireKeepsFired DEF IInv

LEMMA NoReceiptKeeps ==
  ASSUME IInv, NEW b, NoReceipt(b)
  PROVE  IInv'
<1>1. MayFire(b) /\ Ends /\ phase' = "idle" /\ gapless' = FALSE /\ UNCHANGED exceptions
  BY DEF NoReceipt, Abandon, MayFire, TakesOut, Ends, nodeVars
<1>2. exceptions' <= MaxExceptions
  BY <1>1 DEF IInv, FaultsOK
<1> QED
  BY <1>1, <1>2, LoopFails

LEMMA FiringFailsKeeps ==
  ASSUME IInv, NEW b, FiringFails(b)
  PROVE  IInv'
<1>1. /\ MayFire(b) /\ Ends /\ phase' = "idle" /\ gapless' = FALSE
      /\ exceptions' = exceptions + 1 /\ exceptions < MaxExceptions
  BY DEF FiringFails, Abandon, MayFire, TakesOut, Ends, nodeVars
<1>2. exceptions' <= MaxExceptions
  BY <1>1, CountsAssumption DEF IInv, FaultsOK
<1> QED
  BY <1>1, <1>2, LoopFails

\* A poll is lost, or the process starts again.
LEMMA LosesPoll ==
  ASSUME IInv, Ends,
         UNCHANGED <<blockDepth, blockInfoMap, fired, firedBefore, lastHandled, gapless, whole>>,
         phase # "firing",
         exceptions' \in {exceptions, exceptions + 1}, exceptions' <= MaxExceptions
  PROVE  IInv'
<1>1. /\ SameTree /\ TreeOK' /\ QueuesOK' /\ RemovalOK' /\ phase' # "firing"
      /\ phase' \in {"idle", "firing", "down"} /\ UNCHANGED shallow /\ batch' \in {batch, <<>>}
      /\ changes' \in {changes, <<>>}
  BY EndIs DEF Ends
<1>2. DepthOK' /\ \A c : IsOld(c)' <=> IsOld(c)
  BY EndKeepsDepth
<1>3. KeptOK' /\ Connected'
  BY <1>1, <1>2 DEF IInv, KeptOK, Connected, SameTree
<1>4. EverFired' = EverFired /\ Range(fired)' = Range(fired)
  BY DEF EverFired, Range
<1>5. FiredOK'
  <2>1. FiredForGood => FiredForGood'
    BY <1>1, <1>4 DEF FiredForGood, SameTree
  <2>2. NoneBelowFired' /\ FiredInOrder'
    BY <1>1, <1>4 DEF IInv, FiredOK, NoneBelowFired, FiredInOrder, SameTree, Number
  <2> QED
    BY <1>1, <1>2, <1>4, <2>1, <2>2 DEF IInv, FiredOK, SameTree
<1>6. NoneAsked'
  BY <1>1 DEF IInv, NoneAsked
<1>7. SkipOK'
  BY <1>1, <1>4 DEF IInv, SkipOK, FiredUpTo, NothingSkipped, SameTree
<1>8. FaultsOK'
  BY <1>1 DEF IInv, FaultsOK
<1> QED
  BY <1>1, <1>2, <1>3, <1>5, <1>6, <1>7, <1>8 DEF IInv

LEMMA FetchFailsKeeps ==
  ASSUME IInv, FetchFails
  PROVE  IInv'
<1>1. /\ Ends /\ phase # "firing" /\ exceptions < MaxExceptions /\ exceptions' = exceptions + 1
      /\ UNCHANGED <<blockDepth, blockInfoMap, fired, firedBefore, lastHandled, gapless, whole>>
  BY DEF FetchFails, Abandon, Ends, nodeVars
<1>2. exceptions' <= MaxExceptions
  BY <1>1, CountsAssumption DEF IInv, FaultsOK
<1> QED
  BY <1>1, <1>2, LosesPoll

LEMMA PollFailsKeeps ==
  ASSUME IInv, PollFails
  PROVE  IInv'
<1>1. /\ phase = "idle" /\ batch = <<>> /\ changes' = <<>>
      /\ exceptions < MaxExceptions /\ exceptions' = exceptions + 1
      /\ UNCHANGED <<blocks, head, eventVars, historyVars>>
  BY DEF PollFails
<1>2. Ends
  BY <1>1 DEF Ends, eventVars, historyVars, IInv, RemovalOK
<1>3. exceptions' <= MaxExceptions
  BY <1>1, CountsAssumption DEF IInv, FaultsOK
<1> QED
  BY <1>1, <1>2, <1>3, LosesPoll DEF eventVars, historyVars

LEMMA StartKeeps ==
  ASSUME IInv, Start
  PROVE  IInv'
<1>1. /\ Ends /\ phase # "firing"
      /\ UNCHANGED <<blockDepth, blockInfoMap, fired, firedBefore, lastHandled, gapless, whole,
                     exceptions>>
  BY DEF Start, Ends, historyVars, counters, IInv, RemovalOK
<1>2. exceptions' <= MaxExceptions
  BY <1>1 DEF IInv, FaultsOK
<1> QED
  BY <1>1, <1>2, LosesPoll

LEMMA CrashKeeps ==
  ASSUME IInv, Crash
  PROVE  IInv'
<1>1. /\ Ends /\ phase' = "down" /\ batch' = <<>> /\ changes' = changes
      /\ blockDepth' = {} /\ blockInfoMap' = {} /\ fired' = <<>> /\ firedBefore' = EverFired
      /\ UNCHANGED <<lastHandled, gapless, whole, shallow, exceptions>>
  BY DEF Crash, Ends, EverFired, nodeVars
<1>2. SameTree /\ TreeOK' /\ QueuesOK' /\ RemovalOK'
  BY <1>1, EndIs
<1>3. DepthOK' /\ Connected'
  BY <1>1 DEF DepthOK, Connected
<1>4. KeptOK'
  BY <1>1 DEF IInv, KeptOK
<1>5. DOMAIN fired' = {} /\ EverFired' = EverFired /\ Range(fired)' = {}
  <2>1. DOMAIN fired' = {}
    BY <1>1
  <2> QED
    BY <1>1, <2>1 DEF EverFired, Range
<1>6. FiredOK'
  <2>1. FiredForGood => FiredForGood'
    BY <1>2, <1>5 DEF FiredForGood, SameTree
  <2>2. EverFired \subseteq Blocks
    BY DEF IInv, FiredOK, EverFired
  <2>3. NoneBelowFired' /\ FiredInOrder'
    BY <1>5 DEF NoneBelowFired, FiredInOrder
  <2> QED
    BY <1>1, <1>2, <1>5, <2>1, <2>2, <2>3 DEF IInv, FiredOK, SameTree
<1>7. NoneAsked'
  BY <1>1 DEF IInv, NoneAsked
<1>8. SkipOK'
  BY <1>1, <1>2, <1>5 DEF IInv, SkipOK, FiredUpTo, NothingSkipped, SameTree
<1>9. FaultsOK'
  BY <1>1 DEF IInv, FaultsOK
<1> QED
  BY <1>2, <1>3, <1>4, <1>6, <1>7, <1>8, <1>9 DEF IInv

\* The steps that do not touch the map nor what was fired.
LEMMA FiredStays ==
  ASSUME IInv, SameTree, UNCHANGED <<blocks, blockInfoMap, fired, firedBefore, whole, shallow>>,
         shallow => \A c \in Range(fired) : IsOld(c)'
  PROVE  FiredOK' /\ EverFired' = EverFired
<1>1. EverFired' = EverFired /\ Range(fired)' = Range(fired)
  BY DEF EverFired, Range
<1>2. FiredForGood => FiredForGood'
  BY <1>1 DEF FiredForGood, SameTree
<1>3. NoneBelowFired' /\ FiredInOrder'
  BY <1>1 DEF IInv, FiredOK, NoneBelowFired, FiredInOrder, SameTree, Number
<1> QED
  BY <1>1, <1>2, <1>3 DEF IInv, FiredOK, SameTree

LEMMA PollKeeps ==
  ASSUME IInv, Poll
  PROVE  IInv'
<1>1. /\ phase = "idle" /\ changes # <<>> /\ batch' = changes /\ changes' = <<>>
      /\ UNCHANGED <<blocks, head, blockDepth, blockInfoMap, blocksToRemove, inChain, phase>>
      /\ UNCHANGED <<fired, firedBefore, lastHandled, gapless, whole, shallow, exceptions>>
  BY DEF Poll, historyVars, counters
<1>2. SameTree /\ TreeOK'
  BY <1>1, TreeStays DEF IInv, SameTree
<1>3. \A c : IsOld(c)' <=> IsOld(c)
  BY <1>1, <1>2, OldStays
<1>4. DOMAIN changes' = {} /\ Range(changes)' = {} /\ Range(batch)' = Range(changes)
  <2>1. DOMAIN changes' = {}
    BY <1>1
  <2> QED
    BY <1>1, <2>1 DEF Range
<1>5. QueuesOK'
  <2>1. Ordered(batch)' /\ Ordered(changes)'
    BY <1>1, <1>2, <1>4 DEF IInv, QueuesOK, Ordered, SameTree
  <2>2. batch' \in Seq(Blocks') /\ changes' \in Seq(Blocks')
    BY <1>1, <1>2 DEF IInv, QueuesOK, SameTree
  <2> QED
    BY <1>2, <1>4, <2>1, <2>2 DEF IInv, QueuesOK, SameTree
<1>6. DepthOK'
  <2>1. Waiting' = Range(changes)
    BY <1>1, <1>4 DEF Waiting, Range
  <2> QED
    BY <1>1, <1>2, <2>1 DEF IInv, DepthOK, Waiting, SameTree
<1>7. KeptOK' /\ Connected' /\ RemovalOK' /\ FaultsOK'
  BY <1>1, <1>2, <1>3 DEF IInv, KeptOK, Connected, RemovalOK, FaultsOK, SameTree
<1>8. FiredOK' /\ EverFired' = EverFired
  BY <1>1, <1>2, <1>3, FiredStays DEF IInv, FiredOK
<1>9. NoneAsked'
  BY <1>1 DEF IInv, NoneAsked
<1>10. SkipOK'
  BY <1>1, <1>2, <1>8 DEF IInv, SkipOK, FiredUpTo, NothingSkipped, SameTree
<1> QED
  BY <1>2, <1>5, <1>6, <1>7, <1>8, <1>9, <1>10 DEF IInv

-------------------------------------------------------------------------------
(* The index is cleared.                                                   *)

LEMMA ClearIs ==
  ASSUME IInv, Clear, NEW h, h = batch[1]
  PROVE  /\ SameTree /\ h \in blockDepth /\ \A d \in blockDepth : Number(d) <= Number(h)
         /\ blockDepth' = {d \in blockDepth : ~IsOld(d)}
         /\ \A k \in blockInfoMap : ~IsOld(k)
         /\ \A c : IsOld(c)' => IsOld(c)
         /\ BlockConfirmationCount > 0 =>
              h \in blockDepth' /\ \A c \in Blocks : IsOld(c) => IsOld(c)'
         /\ BlockConfirmationCount = 0 => blockDepth' = {}
<1>1. /\ phase = "firing" /\ blocksToRemove = {}
      /\ blockDepth' = blockDepth \ OldBlocks(blockDepth)
      /\ UNCHANGED <<blocks, head, shallow>>
  BY DEF Clear, nodeVars
<1>2. SameTree
  BY <1>1, TreeStays DEF IInv
<1>3. h \in blockDepth /\ \A d \in blockDepth : Number(d) <= Number(h)
  BY <1>1 DEF IInv, DepthOK
<1>4. blockDepth' = {d \in blockDepth : ~IsOld(d)}
  BY <1>1, OldBlocksAreOld DEF IInv
<1>5. \A k \in blockInfoMap : ~IsOld(k)
  BY <1>1 DEF IInv, RemovalOK
<1>6. \A c : IsOld(c)' <=> \E d \in blockDepth' : Number(c) + BlockConfirmationCount <= Number(d)
  BY <1>2 DEF SameTree, IsOld
<1>7. \A c : IsOld(c)' => IsOld(c)
  BY <1>4, <1>6 DEF IsOld
<1>8. \A c \in Blocks : Number(c) \in Nat
  BY BlocksAre DEF IInv
<1>9. blockDepth \subseteq Blocks
  BY DEF IInv, DepthOK, Seen
<1>10. ASSUME BlockConfirmationCount > 0
       PROVE  h \in blockDepth' /\ \A c \in Blocks : IsOld(c) => IsOld(c)'
  <2>1. ~IsOld(h)
    BY <1>3, <1>8, <1>9, <1>10, CountsAssumption DEF IsOld
  <2>2. h \in blockDepth'
    BY <1>3, <1>4, <2>1
  <2>3. ASSUME NEW c \in Blocks, IsOld(c) PROVE Number(c) + BlockConfirmationCount <= Number(h)
    BY <1>3, <1>8, <1>9, <2>3, CountsAssumption DEF IsOld
  <2> QED
    BY <1>6, <2>2, <2>3
<1>11. ASSUME BlockConfirmationCount = 0 PROVE blockDepth' = {}
  BY <1>4, <1>8, <1>9, <1>11 DEF IsOld
<1> QED
  BY <1>2, <1>3, <1>4, <1>5, <1>7, <1>10, <1>11

LEMMA ClearKeepsQueues ==
  ASSUME IInv, Clear
  PROVE  QueuesOK' /\ Waiting' \subseteq Waiting
<1>1. /\ phase = "firing" /\ phase' = "idle" /\ batch' = Tail(batch) /\ batch # <<>>
      /\ UNCHANGED <<blocks, head, changes, shallow>>
  BY DEF Clear, nodeVars, IInv, DepthOK
<1>2. SameTree /\ QueuesOK
  BY <1>1, TreeStays DEF IInv
<1>3. /\ batch' \in Seq(Blocks)
      /\ \A i \in DOMAIN batch' : i + 1 \in DOMAIN batch /\ i + 1 > 1 /\ batch'[i] = batch[i + 1]
      /\ \A i, j \in DOMAIN batch' : i < j => i + 1 < j + 1
  BY <1>1, <1>2 DEF QueuesOK
<1>4. Range(batch)' \subseteq Range(batch) /\ Range(changes)' = Range(changes)
  BY <1>1, <1>3 DEF Range
<1>5. Ordered(batch)'
  <2> SUFFICES ASSUME NEW i \in DOMAIN batch', NEW j \in DOMAIN batch', i < j,
                      NEW c, NEW d, c = batch'[i], d = batch'[j]
               PROVE  Before(c, d)
    BY <1>2 DEF Ordered, SameTree
  <2>1. c = batch[i + 1] /\ d = batch[j + 1] /\ i + 1 < j + 1
    BY <1>3
  <2> QED
    BY <1>2, <1>3, <2>1 DEF QueuesOK, Ordered
<1>6. Ordered(changes)'
  BY <1>1, <1>2 DEF QueuesOK, Ordered, SameTree
<1>7. QueuesOK'
  BY <1>1, <1>2, <1>3, <1>4, <1>5, <1>6 DEF QueuesOK, SameTree
<1>8. Waiting' \subseteq Waiting
  BY <1>1, <1>3, <1>4 DEF Waiting
<1> QED
  BY <1>7, <1>8

LEMMA ClearKeeps ==
  ASSUME IInv, Clear
  PROVE  IInv'
<1>0. PICK h : h = batch[1]
  OBVIOUS
<1>1. /\ phase = "firing" /\ phase' = "idle" /\ blocksToRemove = {} /\ blocksToRemove' = {}
      /\ UNCHANGED <<blocks, blockInfoMap, fired, firedBefore, gapless, whole, shallow, exceptions>>
  BY DEF Clear, counters, nodeVars
<1>2. /\ SameTree /\ h \in blockDepth /\ \A d \in blockDepth : Number(d) <= Number(h)
      /\ blockDepth' = {d \in blockDepth : ~IsOld(d)}
      /\ \A k \in blockInfoMap : ~IsOld(k)
      /\ \A c : IsOld(c)' => IsOld(c)
      /\ BlockConfirmationCount > 0 =>
           h \in blockDepth' /\ \A c \in Blocks : IsOld(c) => IsOld(c)'
      /\ BlockConfirmationCount = 0 => blockDepth' = {}
  BY <1>0, ClearIs
<1>3. lastHandled' = Number(h)
  BY <1>0 DEF Clear
<1>4. TreeOK' /\ blockInfoMap \subseteq blockDepth /\ KeptOK
  BY <1>2 DEF SameTree, IInv, KeptOK
<1>5. BlockConfirmationCount = 0 \/ BlockConfirmationCount > 0
  BY CountsAssumption
<1>6. DepthOK'
  <2>1. blockDepth' # {} => \E d \in blockDepth' : \A e \in blockDepth' : Number(e) <= Number(d)
    BY <1>2, <1>5
  <2>2. /\ \A d \in blockDepth' : Seen(d)
        /\ \A d \in blockDepth', c \in Waiting' : Before(d, c)
    BY <1>2, ClearKeepsQueues DEF IInv, DepthOK
  <2> QED
    BY <1>1, <1>2, <2>1, <2>2 DEF DepthOK, SameTree
<1>7. KeptOK'
  <2>1. blockInfoMap' = blockDepth'
    BY <1>1, <1>2, <1>4 DEF KeptOK
  <2>2. \A d \in blockDepth' : ~IsOld(d)'
    BY <1>2
  <2>3. gapless' => whole'
    BY <1>1, <1>4, Zenon DEF KeptOK
  <2> QED
    BY <1>1, <2>1, <2>2, <2>3 DEF KeptOK
<1>8. Connected'
  <2> SUFFICES ASSUME whole, NEW k \in blockInfoMap, NEW a \in Line(k), ~IsOld(a)'
               PROVE  a \in blockInfoMap
    BY <1>1, <1>2 DEF Connected, SameTree
  <2>1. k \in Blocks /\ a \in Blocks
    <3>1. k \in Blocks
      BY <1>4 DEF IInv, DepthOK, Seen
    <3> QED
      BY <3>1, BelowEnd DEF IInv
  <2>2. blockDepth' # {}
    BY <1>2, <1>4
  <2> QED
    BY <1>2, <1>5, <2>1, <2>2 DEF IInv, Connected
<1>9. RemovalOK'
  BY <1>1 DEF RemovalOK
<1>10. shallow => BlockConfirmationCount > 0
  BY <1>1, <1>5 DEF IInv, NoneAsked
<1>11. FiredOK' /\ EverFired' = EverFired
  <2>1. Range(fired) \subseteq Blocks
    BY DEF IInv, FiredOK, Range
  <2>2. shallow => \A c \in Range(fired) : IsOld(c)'
    BY <1>2, <1>10, <2>1 DEF IInv, FiredOK
  <2> QED
    BY <1>1, <1>2, <2>2, FiredStays
<1>12. NoneAsked'
  BY <1>1, <1>10 DEF NoneAsked
<1>13. SkipOK'
  <2>1. Number(h) \in Nat /\ Number(h) <= Number(head)
    BY <1>2, BlocksAre DEF IInv, DepthOK, Seen
  <2>2. ASSUME gapless, shallow PROVE FiredUpTo(Number(h), {})
    BY <1>0, <1>1, <2>2 DEF IInv, SkipOK, FiredUpTo
  <2>3. gapless' /\ shallow' => FiredUpTo(lastHandled, {})'
    BY <1>1, <1>2, <1>3, <1>11, <2>2 DEF FiredUpTo, SameTree
  <2>4. \A d \in blockDepth' : Number(d)' <= lastHandled'
    BY <1>2, <1>3 DEF SameTree
  <2>5. NothingSkipped'
    BY <1>1, <1>2, <1>11 DEF IInv, SkipOK, NothingSkipped, SameTree
  <2> QED
    BY <1>1, <1>2, <1>3, <2>1, <2>3, <2>4, <2>5 DEF SkipOK, SameTree
<1>14. FaultsOK'
  BY <1>1 DEF IInv, FaultsOK
<1> QED
  BY <1>4, <1>6, <1>7, <1>8, <1>9, <1>11, <1>12, <1>13, <1>14, ClearKeepsQueues DEF IInv

LEMMA ImportFailsKeeps ==
  ASSUME IInv, ImportFails
  PROVE  IInv'
<1>0. PICK h : h = batch[1]
  OBVIOUS
<1>1. /\ phase = "idle" /\ batch # <<>> /\ Ends /\ phase' = "idle" /\ batch' = <<>>
      /\ exceptions < MaxExceptions /\ exceptions' = exceptions + 1
      /\ gapless' = FALSE /\ whole' = FALSE
      /\ UNCHANGED <<blocks, changes, shallow, fired, firedBefore, lastHandled>>
  BY DEF ImportFails, Abandon, Ends, nodeVars
<1>2. PICK b \in Imported(h) :
        LET above == {c \in Imported(h) : Number(c) > Number(b)}
        IN  /\ above # {}
            /\ blockDepth' = blockDepth \cup above
            /\ blockInfoMap' = blockInfoMap \cup above
  BY <1>0 DEF ImportFails
<1> DEFINE above == {c \in Imported(h) : Number(c) > Number(b)}
<1>3. /\ SameTree /\ TreeOK' /\ QueuesOK' /\ RemovalOK' /\ phase' # "firing"
  BY <1>1, EndIs
<1>4. /\ Seen(h) /\ h \in Blocks /\ h \in Waiting /\ \A d \in blockDepth : Before(d, h)
      /\ \A c \in Range(changes) : Before(h, c) /\ c \in Waiting
  BY <1>0, <1>1, FirstOfBatch DEF IInv
<1>5. /\ h \in Imported(h)
      /\ \A c \in Imported(h) : c \in Line(h) /\ Seen(c) /\ c <= h /\ Number(c) <= Number(h)
      /\ \A c \in Imported(h) : c \in Blocks /\ Number(c) \in Nat
  BY <1>4, ImportedIs, SeenBelow, BelowEnd, BlocksAre DEF IInv
<1>6. h \in above
  <2>1. PICK c \in Imported(h) : Number(c) > Number(b)
    BY <1>2
  <2>2. Number(h) > Number(b)
    BY <1>5, <2>1
  <2> QED
    BY <1>5, <2>2
<1>7. above \subseteq Imported(h)
  OBVIOUS
<1>8. blockDepth' = blockDepth \cup above /\ blockInfoMap' = blockInfoMap \cup above
  BY <1>2
<1> HIDE DEF above
<1>9. Waiting' = Range(changes)
  BY <1>1 DEF Waiting, Range
<1>10. ASSUME NEW d \in blockDepth', NEW c \in Waiting' PROVE Before(d, c)
  <2>1. Before(h, c) /\ c \in Waiting
    BY <1>4, <1>9, <1>10
  <2>2. CASE d \in blockDepth
    BY <2>1, <2>2 DEF IInv, DepthOK
  <2>3. CASE d \in above
    <3>1. c \in Blocks
      BY <1>9, <1>10 DEF IInv, QueuesOK, Seen
    <3>2. d \in Nat /\ h \in Nat /\ c \in Nat /\ Number(d) \in Nat /\ Number(h) \in Nat
          /\ Number(c) \in Nat
      BY <1>4, <1>5, <1>7, <2>3, <3>1, BlocksAre DEF IInv
    <3> QED
      BY <1>5, <1>7, <2>1, <2>3, <3>2 DEF Before
  <2> QED
    BY <1>8, <2>2, <2>3
<1>11. DepthOK'
  <2>1. \A d \in blockDepth' : Seen(d)
    BY <1>5, <1>7, <1>8 DEF IInv, DepthOK
  <2>2. h \in blockDepth' /\ \A d \in blockDepth' : Number(d) <= Number(h)
    BY <1>4, <1>5, <1>6, <1>7, <1>8 DEF Before
  <2> QED
    BY <1>3, <1>10, <2>1, <2>2 DEF DepthOK, SameTree
<1>12. \A c : IsOld(c) => IsOld(c)'
  BY <1>3, <1>8 DEF IsOld, SameTree
<1>13. KeptOK' /\ Connected'
  BY <1>1, <1>8, <1>12 DEF IInv, KeptOK, Connected
<1>14. EverFired' = EverFired /\ Range(fired)' = Range(fired)
  BY <1>1 DEF EverFired, Range
<1>15. FiredOK'
  <2>1. FiredForGood => FiredForGood'
    BY <1>3, <1>14 DEF FiredForGood, SameTree
  <2>2. NoneBelowFired' /\ FiredInOrder'
    BY <1>1 DEF NoneBelowFired, FiredInOrder
  <2> QED
    BY <1>1, <1>3, <1>12, <1>14, <2>1, <2>2 DEF IInv, FiredOK, SameTree
<1>16. NoneAsked'
  BY <1>1 DEF IInv, NoneAsked
<1>17. SkipOK'
  BY <1>1, <1>3 DEF IInv, SkipOK, NothingSkipped, SameTree
<1>18. FaultsOK'
  BY <1>1, CountsAssumption DEF IInv, FaultsOK
<1> QED
  BY <1>3, <1>11, <1>13, <1>15, <1>16, <1>17, <1>18 DEF IInv

-------------------------------------------------------------------------------
(* The invariant.                                                          *)

LEMMA Initially ==
  ASSUME Init
  PROVE  IInv
<1>1. /\ blocks = <<[number |-> 0, parent |-> NoHash, line |-> {1}]>> /\ head = 1
      /\ changes = <<>> /\ batch = <<>> /\ fired = <<>> /\ firedBefore = {}
      /\ blockDepth = {} /\ blockInfoMap = {} /\ blocksToRemove = {} /\ phase = "idle"
      /\ lastHandled = 0 /\ gapless = TRUE /\ whole = TRUE /\ shallow = TRUE /\ exceptions = 0
  BY DEF Init, NodeInit, EventsInit
<1>2. /\ Blocks = {1} /\ Number(1) = 0 /\ ParentHash(1) = NoHash /\ Line(1) = {1}
  BY <1>1 DEF Blocks, Number, ParentHash, Line
<1>3. TreeOK
  <2>1. blocks \in Seq(BlockRecords)
    <3>1. [number |-> 0, parent |-> NoHash, line |-> {1}] \in BlockRecords
      BY DEF BlockRecords, NoHash
    <3> QED
      BY <1>1, <3>1
  <2>2. LineOK(1) /\ ParentOK(1)
    BY <1>2 DEF LineOK, ParentOK
  <2> QED
    BY <1>1, <1>2, <2>1, <2>2 DEF TreeOK
<1>4. DOMAIN batch = {} /\ DOMAIN changes = {} /\ DOMAIN fired = {}
  BY <1>1
<1>5. Range(batch) = {} /\ Range(changes) = {} /\ Range(fired) = {} /\ EverFired = {}
  BY <1>1, <1>4 DEF Range, EverFired
<1>6. QueuesOK
  BY <1>1, <1>4, <1>5 DEF QueuesOK, Ordered
<1>7. DepthOK /\ KeptOK /\ Connected /\ RemovalOK /\ NoneAsked
  BY <1>1 DEF DepthOK, KeptOK, Connected, RemovalOK, NoneAsked
<1>8. FiredOK
  BY <1>1, <1>4, <1>5 DEF FiredOK, FiredForGood, NoneBelowFired, FiredInOrder
<1>9. SkipOK
  BY <1>1, <1>2, <1>5 DEF SkipOK, FiredUpTo, NothingSkipped
<1>10. FaultsOK
  BY <1>1, CountsAssumption DEF FaultsOK
<1> QED
  BY <1>3, <1>6, <1>7, <1>8, <1>9, <1>10 DEF IInv

LEMMA StutterKeeps ==
  ASSUME IInv, UNCHANGED vars
  PROVE  IInv'
<1>1. /\ UNCHANGED <<blocks, head, changes, batch, blockDepth, blockInfoMap, blocksToRemove,
                     inChain, phase, fired, firedBefore, lastHandled, gapless, whole, shallow,
                     exceptions>>
  BY DEF vars, nodeVars, eventVars, historyVars, counters
<1>2. SameTree /\ TreeOK'
  BY <1>1, TreeStays DEF IInv, SameTree
<1>3. \A c : IsOld(c)' <=> IsOld(c)
  BY <1>1, <1>2, OldStays
<1>4. QueuesOK' /\ DepthOK'
  BY <1>1, <1>2 DEF IInv, QueuesOK, Ordered, DepthOK, Waiting, SameTree
<1>5. KeptOK' /\ Connected' /\ RemovalOK' /\ NoneAsked' /\ FaultsOK'
  BY <1>1, <1>2, <1>3
     DEF IInv, KeptOK, Connected, RemovalOK, NoneAsked, FaultsOK, SameTree
<1>6. FiredOK' /\ EverFired' = EverFired
  BY <1>1, <1>2, <1>3, FiredStays DEF IInv, FiredOK
<1>7. SkipOK'
  BY <1>1, <1>2, <1>6 DEF IInv, SkipOK, FiredUpTo, NothingSkipped, SameTree
<1> QED
  BY <1>2, <1>4, <1>5, <1>6, <1>7 DEF IInv

LEMMA Step ==
  ASSUME IInv, [Next]_vars
  PROVE  IInv'
<1>1. CASE \E b \in Blocks : NewBlockMined(b)
  BY <1>1, MineKeeps
<1>2. CASE NewBlock
  BY <1>2, NewBlockKeepsQueues, NewBlockKeepsKept, NewBlockKeepsFired, NewBlockKeepsSkip DEF IInv
<1>3. CASE \E b \in blocksToRemove : Prune(b) \/ Fire(b) \/ NoReceipt(b) \/ FiringFails(b)
  BY <1>3, PruneKeeps, FireKeeps, NoReceiptKeeps, FiringFailsKeeps
<1>4. CASE Poll \/ Clear
  BY <1>4, PollKeeps, ClearKeeps
<1>5. CASE ImportFails \/ FetchFails \/ PollFails
  BY <1>5, ImportFailsKeeps, FetchFailsKeeps, PollFailsKeeps
<1>6. CASE Crash \/ Start
  BY <1>6, CrashKeeps, StartKeeps
<1>7. CASE UNCHANGED vars
  BY <1>7, StutterKeeps
<1> QED
  BY <1>1, <1>2, <1>3, <1>4, <1>5, <1>6, <1>7 DEF Next

LEMMA Invariance ==
  Spec => []IInv
<1>1. Init => IInv
  BY Initially
<1>2. IInv /\ [Next]_vars => IInv'
  BY Step
<1> QED
  BY <1>1, <1>2, PTL DEF Spec

-------------------------------------------------------------------------------
(* Theorems                                                                *)

\* newBlock fires the blocks of the chain in ascending order, whatever
\* forks there are, whatever polls, receipts and handlers fail and whenever
\* the process dies, as long as reorganisations are shallower than the
\* confirmation count and importBlocks finishes its walks.
THEOREM OrderKept ==
  Spec => []FiredInOrder
<1>1. IInv => FiredInOrder
  BY DEF IInv, FiredOK
<1> QED
  BY <1>1, Invariance, PTL

\* When newBlock fires a block it has fired all its ancestors, in this process
\* or an earlier one, as long as no exception hits it, polls are close and
\* reorganisations shallow.
THEOREM NoneSkipped ==
  Spec => []NothingSkipped
<1>1. IInv => NothingSkipped
  BY DEF IInv, SkipOK
<1> QED
  BY <1>1, Invariance, PTL

\* Between two calls of newBlock the index and the map hold the same blocks
\* and none of them is old, whatever forks there are.
THEOREM MemoryBounded ==
  Spec => []OnlyYoungKept
<1>1. ASSUME IInv, phase = "idle", gapless
      PROVE  blockInfoMap = blockDepth /\ OldBlocks(blockDepth) = {}
  <2>1. \A d \in blockDepth : ~IsOld(d)
    BY <1>1 DEF IInv, KeptOK
  <2> QED
    BY <1>1, <2>1, OldBlocksAreOld DEF IInv, KeptOK
<1>2. IInv => OnlyYoungKept
  BY <1>1 DEF OnlyYoungKept
<1> QED
  BY <1>2, Invariance, PTL

\* What newBlock has fired is final, in every process and whatever fails, when
\* no reorganisation takes off more blocks than the confirmation count.
THEOREM Final ==
  ASSUME MaxReorg <= BlockConfirmationCount
  PROVE  Spec => []FiredForGood
<1>1. IInv => FiredForGood
  BY DEF IInv, FiredOK
<1> QED
  BY <1>1, Invariance, PTL

\* newBlock fires a block at most once in the life of a process, whatever
\* polls, receipts and handlers fail, when every reorganisation takes off
\* fewer blocks than the confirmation count and importBlocks finishes its walks.
THEOREM AtMostOnce ==
  ASSUME MaxReorg < BlockConfirmationCount
  PROVE  Spec => [](whole => FiredOnce)
<1>1. ASSUME IInv, whole, NEW i \in DOMAIN fired, NEW j \in DOMAIN fired, fired[i] = fired[j]
      PROVE  i = j
  <2>1. shallow
    BY <1>1 DEF IInv, FaultsOK
  <2>2. \A m, n \in DOMAIN fired : m < n => Number(fired[m]) < Number(fired[n])
    BY <1>1, <2>1 DEF IInv, FiredOK, FiredInOrder
  <2>3. i \in Int /\ j \in Int /\ Number(fired[i]) \in Nat
    BY <1>1, BlocksAre DEF IInv, FiredOK
  <2> QED
    BY <1>1, <2>2, <2>3
<1>2. IInv => (whole => FiredOnce)
  BY <1>1 DEF FiredOnce
<1> QED
  BY <1>2, Invariance, PTL

\* The same for a node that answers every call and handlers that never throw.
THEOREM OnceWithoutFailures ==
  ASSUME MaxReorg < BlockConfirmationCount, MaxExceptions = 0
  PROVE  Spec => []FiredOnce
<1>1. IInv => whole
  BY DEF IInv, FaultsOK
<1> QED
  BY <1>1, AtMostOnce, Invariance, PTL

================================================================================
