---------------------------- MODULE MemoryProofs ----------------------------
(***************************************************************************)
(* Proofs about what the compiler keeps its data in: the arena of module   *)
(* Arena, and the hash table of module HashMap.  The two are independent   *)
(* of each other; they share the arithmetic of NatFacts.                   *)
(***************************************************************************)
EXTENDS Arena, HashMap, NatFacts, FiniteSetTheorems, TLAPS

(***************************************************************************)
(* The arena of module Arena never hands out memory in use, for any block  *)
(* size, any sizes asked for and any number of blocks.                     *)
(*                                                                         *)
(* The invariant adds to what the runs check that ids come from the length *)
(* of the list (so a new block's id is new), that the first block is a     *)
(* bump block (reset goes back to it), that a checkpoint names a bump      *)
(* block of the list, and that what was handed out before a checkpoint     *)
(* lies before it.  The last is true of bump blocks only: an oversized     *)
(* block is linked in behind the current one, so a rewind gives it up even *)
(* if it was handed out before the checkpoint.  A range is Kept if it is   *)
(* in a bump block, or if checkpoints are taken of an arena that holds     *)
(* nothing.                                                                *)
(***************************************************************************)

BlockType == [id : Nat, capacity : Nat, offset : Nat, dedicated : BOOLEAN]

PieceType == [block : Nat, from : Nat, to : Nat, depth : Nat]

MarkType == [block : Nat, offset : Nat]

ListOK ==
    /\ blocks \in Seq(BlockType)
    /\ ArenaTypeOK
    /\ \A i \in DOMAIN blocks : blocks[i].id <= Len(blocks)
    /\ ~ blocks[1].dedicated
    /\ LaterBlocksAreFree

MarkOK ==
    /\ checkpoints \in Seq(MarkType)
    /\ Len(checkpoints) \in {0, 1}
    /\ checkpoints # <<>> =>
          \E i \in DOMAIN blocks : /\ blocks[i].id = checkpoints[1].block
                                   /\ ~ blocks[i].dedicated
                                   /\ checkpoints[1].offset <= blocks[i].capacity

Kept(i) == ScratchUse \/ ~ blocks[i].dedicated

\* A range under a block's offset and, if it was there first, under the checkpoint.
PieceOK(r) ==
    /\ r \in PieceType /\ r.from < r.to
    /\ r.depth <= Len(checkpoints)
    /\ ScratchUse => r.depth = Len(checkpoints)
    /\ \E i \in DOMAIN blocks : blocks[i].id = r.block
    /\ \A i \in DOMAIN blocks : blocks[i].id = r.block /\ Kept(i) => r.to <= blocks[i].offset
    /\ \A i, j \in DOMAIN blocks :
          (/\ checkpoints # <<>> /\ r.depth = 0
           /\ blocks[i].id = r.block /\ Kept(i)
           /\ blocks[j].id = checkpoints[1].block)
          => i < j \/ (i = j /\ r.to <= checkpoints[1].offset)

HeldOK == \A r \in held : PieceOK(r)

KeptDisjoint ==
    \A r, s \in held : \A i \in DOMAIN blocks :
        (r # s /\ blocks[i].id = r.block /\ r.block = s.block /\ Kept(i))
        => (r.to <= s.from \/ s.to <= r.from)

ArenaInv == ListOK /\ MarkOK /\ HeldOK /\ KeptDisjoint

-----------------------------------------------------------------------------
(***************************************************************************)
(* Facts about the list.                                                   *)
(***************************************************************************)

\* The loops over later blocks stop at one of those they look for.
LEMMA FirstOfIsOne ==
    ASSUME NEW S, S \subseteq Nat, S # {}
    PROVE  FirstOf(S) \in S
BY LeastOfNaturals DEF FirstOf

\* Moving the offset of a block on changes nothing else of it.
LEMMA BlockFilled ==
    ASSUME NEW a \in BlockType, NEW asked \in Nat,
           NEW b, b = [a EXCEPT !.offset = a.offset + asked]
    PROVE  /\ b \in BlockType /\ b.id = a.id /\ b.capacity = a.capacity
           /\ b.dedicated = a.dedicated /\ b.offset = a.offset + asked
BY DEF BlockType

\* List l is m with block b put in after place c.
LinkedIn(m, l, c, b) ==
    /\ l \in Seq(BlockType)
    /\ Len(l) = Len(m) + 1
    /\ \A i \in 1..c : l[i] = m[i]
    /\ l[c + 1] = b
    /\ \A i \in (c + 1)..Len(m) : l[i + 1] = m[i]

\* Linking a block in leaves the others in order.
LEMMA LinkedList ==
    ASSUME blocks \in Seq(BlockType), current \in DOMAIN blocks, NEW b \in BlockType
    PROVE  LinkedIn(blocks, Linked(b), current, b)
<1>0. PICK l : l = Linked(b)
  OBVIOUS
<1>1. /\ Len(blocks) \in Nat /\ DOMAIN blocks = 1..Len(blocks) /\ current \in 1..Len(blocks)
      /\ \A i \in 1..Len(blocks) : blocks[i] \in BlockType
  OBVIOUS
<1> DEFINE n == Len(blocks) + 1
<1>2. l = [i \in 1..n |->
              IF i <= current THEN blocks[i] ELSE IF i = current + 1 THEN b ELSE blocks[i - 1]]
  BY <1>0 DEF Linked
<1>3. n \in Nat
  BY <1>1
<1>4. \A i \in 1..n : l[i] \in BlockType
  BY <1>1, <1>2
<1>5. l \in [1..n -> BlockType]
  BY <1>2, <1>4
<1>6. l \in Seq(BlockType) /\ Len(l) = n
  BY <1>3, <1>5
<1>7. LinkedIn(blocks, l, current, b)
  BY <1>1, <1>2, <1>6 DEF LinkedIn
<1> QED
  BY <1>0, <1>7

(***************************************************************************)
(* List m is list l with asked units from from on taken of the block at    *)
(* place at, which may be new; sh says where each block of l is in m.      *)
(***************************************************************************)
Carried(l, m, sh, at, from, asked) ==
    /\ m[at].offset = from + asked
    /\ sh \in [DOMAIN l -> DOMAIN m]
    /\ \A i, j \in DOMAIN l : i < j => sh[i] < sh[j]
    /\ \A i \in DOMAIN l :
          /\ m[sh[i]].id = l[i].id
          /\ m[sh[i]].dedicated = l[i].dedicated
          /\ m[sh[i]].capacity = l[i].capacity
          /\ sh[i] # at => m[sh[i]].offset = l[i].offset
          /\ sh[i] = at => from = l[i].offset
    /\ \A j \in DOMAIN m : (\A i \in DOMAIN l : sh[i] # j) => j = at

\* Handing out a range past a block's used part, or in a new block, keeps
\* what is known of checkpoints and of the ranges in use.
LEMMA HandsOut ==
    ASSUME ArenaInv, ListOK',
           NEW at \in DOMAIN blocks', NEW from \in Nat, NEW asked \in Nat \ {0},
           Hands(Piece(blocks'[at].id, from, asked)),
           NEW sh, Carried(blocks, blocks', sh, at, from, asked)
    PROVE  ArenaInv'
<1>0. PICK p : p = Piece(blocks'[at].id, from, asked)
  OBVIOUS
<1>1. held' = held \cup {p} /\ checkpoints' = checkpoints
  BY <1>0 DEF Hands
<1>2. /\ blocks \in Seq(BlockType) /\ blocks' \in Seq(BlockType)
      /\ \A i, j \in DOMAIN blocks' : blocks'[i].id = blocks'[j].id => i = j
      /\ checkpoints \in Seq(MarkType) /\ Len(checkpoints) \in {0, 1}
  <2>1. blocks \in Seq(BlockType) /\ blocks' \in Seq(BlockType)
    BY DEF ArenaInv, ListOK
  <2>2. \A i, j \in DOMAIN blocks' : blocks'[i].id = blocks'[j].id => i = j
    BY DEF ListOK, ArenaTypeOK
  <2>3. checkpoints \in Seq(MarkType) /\ Len(checkpoints) \in {0, 1}
    BY DEF ArenaInv, MarkOK
  <2> QED
    BY <2>1, <2>2, <2>3
<1>b. /\ \A i \in DOMAIN blocks : blocks[i].id \in Nat /\ blocks[i].offset \in Nat
      /\ \A i \in DOMAIN blocks' : blocks'[i].id \in Nat /\ blocks'[i].offset \in Nat
      /\ DOMAIN blocks = 1..Len(blocks) /\ DOMAIN blocks' = 1..Len(blocks')
  <2>0. \A l \in Seq(BlockType) : DOMAIN l = 1..Len(l) /\ \A i \in DOMAIN l : l[i] \in BlockType
    OBVIOUS
  <2>1. /\ \A i \in DOMAIN blocks : blocks[i] \in BlockType
        /\ \A i \in DOMAIN blocks' : blocks'[i] \in BlockType
        /\ DOMAIN blocks = 1..Len(blocks) /\ DOMAIN blocks' = 1..Len(blocks')
    BY <1>2, <2>0, Zenon
  <2> QED
    BY <2>1 DEF BlockType
<1>3. p \in PieceType /\ p.from = from /\ p.to = from + asked /\ p.block = blocks'[at].id
      /\ p.depth = Len(checkpoints)
  <2>1. blocks'[at].id \in Nat /\ Len(checkpoints) \in Nat /\ from + asked \in Nat
    BY <1>2, <1>b
  <2> QED
    BY <1>0, <2>1 DEF Piece, PieceType
<1>c. /\ sh \in [DOMAIN blocks -> DOMAIN blocks']
      /\ \A i, j \in DOMAIN blocks : i < j => sh[i] < sh[j]
  BY DEF Carried
<1>d. \A i \in DOMAIN blocks :
          /\ blocks'[sh[i]].id = blocks[i].id
          /\ blocks'[sh[i]].dedicated = blocks[i].dedicated
          /\ blocks'[sh[i]].capacity = blocks[i].capacity
          /\ sh[i] # at => blocks'[sh[i]].offset = blocks[i].offset
          /\ sh[i] = at => from = blocks[i].offset
  BY DEF Carried
<1>4. MarkOK'
  <2>1. CASE checkpoints = <<>>
    BY <2>1, <1>1, <1>2 DEF MarkOK
  <2>2. CASE checkpoints # <<>>
    <3>1. PICK i \in DOMAIN blocks : /\ blocks[i].id = checkpoints[1].block
                                     /\ ~ blocks[i].dedicated
                                     /\ checkpoints[1].offset <= blocks[i].capacity
      BY <2>2 DEF ArenaInv, MarkOK
    <3>2. sh[i] \in DOMAIN blocks'
      BY <1>c
    <3>3. /\ blocks'[sh[i]].id = checkpoints'[1].block
          /\ ~ blocks'[sh[i]].dedicated
          /\ checkpoints'[1].offset <= blocks'[sh[i]].capacity
      BY <3>1, <1>1, <1>d
    <3>4. checkpoints' \in Seq(MarkType) /\ Len(checkpoints') \in {0, 1}
      BY <1>1, <1>2
    <3> QED
      BY <3>2, <3>3, <3>4 DEF MarkOK
  <2> QED
    BY <2>1, <2>2
<1>5. \A i \in DOMAIN blocks : Kept(sh[i])' => Kept(i)
  BY <1>d DEF Kept
<1>6. ASSUME NEW m \in DOMAIN blocks', NEW i \in DOMAIN blocks, blocks'[m].id = blocks[i].id
      PROVE  m = sh[i]
  <2>1. sh[i] \in DOMAIN blocks' /\ blocks'[sh[i]].id = blocks[i].id
    BY <1>c, <1>d
  <2> QED
    BY <2>1, <1>2, <1>6
<1>7. ASSUME NEW r \in held PROVE PieceOK(r)'
  <2>1. PICK k \in DOMAIN blocks : blocks[k].id = r.block
    BY DEF ArenaInv, HeldOK, PieceOK
  <2>2. /\ r \in PieceType /\ r.from < r.to
        /\ r.depth <= Len(checkpoints)
        /\ ScratchUse => r.depth = Len(checkpoints)
    BY DEF ArenaInv, HeldOK, PieceOK
  <2>3. \E i \in DOMAIN blocks' : blocks'[i].id = r.block
    BY <2>1, <1>c, <1>d
  <2>4. ASSUME NEW m \in DOMAIN blocks', blocks'[m].id = r.block, Kept(m)'
        PROVE  r.to <= blocks'[m].offset
    <3>1. m = sh[k]
      BY <2>1, <2>4, <1>6
    <3>2. Kept(k)
      BY <3>1, <2>4, <1>5
    <3>3. r.to <= blocks[k].offset
      BY <2>1, <3>2 DEF ArenaInv, HeldOK, PieceOK
    <3>4. blocks[k].offset <= blocks'[m].offset
      <4>1. blocks'[at].offset = from + asked
        BY DEF Carried
      <4> QED
        BY <1>b, <1>d, <3>1, <4>1
    <3>5. r.to \in Nat /\ blocks[k].offset \in Nat /\ blocks'[m].offset \in Nat
      BY <1>b, <2>2 DEF PieceType
    <3> QED
      BY <3>3, <3>4, <3>5
  <2>5. ASSUME NEW m \in DOMAIN blocks', NEW j \in DOMAIN blocks',
               checkpoints # <<>>, r.depth = 0,
               blocks'[m].id = r.block, Kept(m)', blocks'[j].id = checkpoints[1].block
        PROVE  m < j \/ (m = j /\ r.to <= checkpoints[1].offset)
    <3>1. m = sh[k] /\ Kept(k)
      BY <2>1, <2>5, <1>5, <1>6
    <3>2. PICK c \in DOMAIN blocks : blocks[c].id = checkpoints[1].block
      BY <2>5 DEF ArenaInv, MarkOK
    <3>3. j = sh[c]
      BY <2>5, <3>2, <1>6
    <3>4. k < c \/ (k = c /\ r.to <= checkpoints[1].offset)
      BY <2>1, <2>5, <3>1, <3>2 DEF ArenaInv, HeldOK, PieceOK
    <3> QED
      BY <3>1, <3>3, <3>4, <1>c
  <2> QED
    BY <1>1, <2>2, <2>3, <2>4, <2>5 DEF PieceOK
<1>8. PieceOK(p)'
  <2>1. p.from < p.to /\ p.to = blocks'[at].offset
    BY <1>3 DEF Carried
  <2>2. \A m \in DOMAIN blocks' : blocks'[m].id = p.block => m = at
    BY <1>2, <1>3
  <2>3. checkpoints # <<>> => p.depth # 0
    BY <1>2, <1>3
  <2>4. p.to <= blocks'[at].offset /\ p.depth <= Len(checkpoints)
    BY <2>1, <1>2, <1>3, <1>b
  <2> QED
    BY <1>1, <1>3, <2>1, <2>2, <2>3, <2>4 DEF PieceOK
<1>9. KeptDisjoint'
  <2>1. ASSUME NEW r \in held, NEW m \in DOMAIN blocks', blocks'[m].id = r.block,
               r.block = p.block, Kept(m)'
        PROVE  r.to <= p.from
    <3>1. PICK k \in DOMAIN blocks : blocks[k].id = r.block
      BY DEF ArenaInv, HeldOK, PieceOK
    <3>2. m = sh[k] /\ Kept(k) /\ m = at
      BY <2>1, <3>1, <1>2, <1>3, <1>5, <1>6
    <3>3. r.to <= blocks[k].offset
      BY <3>1, <3>2 DEF ArenaInv, HeldOK, PieceOK
    <3> QED
      BY <3>2, <3>3, <1>3, <1>d
  <2>2. ASSUME NEW r \in held, NEW s \in held, r # s, NEW m \in DOMAIN blocks',
               blocks'[m].id = r.block, r.block = s.block, Kept(m)'
        PROVE  r.to <= s.from \/ s.to <= r.from
    <3>1. PICK k \in DOMAIN blocks : blocks[k].id = r.block
      BY DEF ArenaInv, HeldOK, PieceOK
    <3>2. Kept(k)
      BY <2>2, <3>1, <1>5, <1>6
    <3> QED
      BY <2>2, <3>1, <3>2 DEF ArenaInv, KeptDisjoint
  <2> QED
    BY <1>1, <2>1, <2>2 DEF KeptDisjoint
<1>10. HeldOK'
  BY <1>1, <1>7, <1>8 DEF HeldOK
<1> QED
  BY <1>4, <1>9, <1>10 DEF ArenaInv

-----------------------------------------------------------------------------
(***************************************************************************)
(* The invariant.                                                          *)
(***************************************************************************)

\* A list and its blocks.
LEMMA ListTypes ==
    ASSUME ArenaInv
    PROVE  /\ Len(blocks) \in Nat /\ DOMAIN blocks = 1..Len(blocks)
           /\ current \in 1..Len(blocks)
           /\ \A i \in 1..Len(blocks) :
                /\ blocks[i] \in BlockType
                /\ blocks[i].id \in Nat /\ blocks[i].capacity \in Nat
                /\ blocks[i].offset \in Nat /\ blocks[i].dedicated \in BOOLEAN
                /\ blocks[i].offset <= blocks[i].capacity
                /\ blocks[i].id <= Len(blocks)
<1>1. blocks \in Seq(BlockType) /\ current \in DOMAIN blocks
      /\ \A i \in DOMAIN blocks : /\ blocks[i].offset \in 0..blocks[i].capacity
                                  /\ blocks[i].id <= Len(blocks)
  BY DEF ArenaInv, ListOK, ArenaTypeOK
<1>2. /\ Len(blocks) \in Nat /\ DOMAIN blocks = 1..Len(blocks)
      /\ \A i \in 1..Len(blocks) : blocks[i] \in BlockType
  BY <1>1
<1>3. \A i \in 1..Len(blocks) :
          /\ blocks[i].id \in Nat /\ blocks[i].capacity \in Nat
          /\ blocks[i].offset \in Nat /\ blocks[i].dedicated \in BOOLEAN
  BY <1>2 DEF BlockType
<1> QED
  BY <1>1, <1>2, <1>3

\* An arena just created satisfies it.
LEMMA ArenaInitInvariant == ArenaInit => ArenaInv
<1> SUFFICES ASSUME ArenaInit PROVE ArenaInv
  OBVIOUS
<1> DEFINE b == Block(1, BlockSize, 0, FALSE)
<1>1. b \in BlockType /\ b.id = 1 /\ b.capacity = BlockSize /\ b.offset = 0 /\ b.dedicated = FALSE
  BY ArenaAssumption DEF Block, BlockType
<1> HIDE DEF b
<1>2. blocks = <<b>> /\ current = 1 /\ checkpoints = <<>> /\ held = {}
  BY DEF ArenaInit, b
<1>3. blocks \in Seq(BlockType) /\ Len(blocks) = 1 /\ DOMAIN blocks = {1} /\ blocks[1] = b
  BY <1>1, <1>2
<1>4. ListOK
  <2>1. ArenaTypeOK
    BY <1>1, <1>2, <1>3, ArenaAssumption DEF ArenaTypeOK, Current
  <2>2. LaterBlocksAreFree
    BY <1>2, <1>3 DEF LaterBlocksAreFree
  <2> QED
    BY <1>1, <1>3, <2>1, <2>2 DEF ListOK
<1>5. MarkOK
  BY <1>2 DEF MarkOK
<1> QED
  BY <1>2, <1>4, <1>5 DEF ArenaInv, HeldOK, KeptDisjoint

(***************************************************************************)
(* Taking asked more units of a block that stays in its place.             *)
(***************************************************************************)
LEMMA FillsInPlace ==
    ASSUME ArenaInv, NEW at \in 1..Len(blocks), NEW asked \in Nat \ {0},
           blocks[at].offset + asked <= blocks[at].capacity,
           blocks' = [blocks EXCEPT ![at].offset = blocks[at].offset + asked],
           Hands(Piece(blocks[at].id, blocks[at].offset, asked)),
           current' \in 1..Len(blocks), current <= current', ~ blocks[current'].dedicated,
           blocks[at].dedicated \/ at <= current'
    PROVE  ArenaInv'
<1>1. /\ Len(blocks) \in Nat /\ DOMAIN blocks = 1..Len(blocks)
      /\ current \in 1..Len(blocks)
      /\ \A i \in 1..Len(blocks) :
           /\ blocks[i] \in BlockType
           /\ blocks[i].id \in Nat /\ blocks[i].capacity \in Nat
           /\ blocks[i].offset \in Nat /\ blocks[i].dedicated \in BOOLEAN
           /\ blocks[i].offset <= blocks[i].capacity
           /\ blocks[i].id <= Len(blocks)
  BY ListTypes
<1>2. PICK b : b = [blocks[at] EXCEPT !.offset = blocks[at].offset + asked]
  OBVIOUS
<1>3. /\ b \in BlockType /\ b.id = blocks[at].id /\ b.capacity = blocks[at].capacity
      /\ b.dedicated = blocks[at].dedicated /\ b.offset = blocks[at].offset + asked
  <2>1. blocks[at] \in BlockType
    BY <1>1
  <2> QED
    BY <1>2, <2>1, BlockFilled
<1>4. blocks' = [blocks EXCEPT ![at] = b]
  BY <1>2
<1>5. /\ blocks' \in Seq(BlockType) /\ Len(blocks') = Len(blocks)
      /\ DOMAIN blocks' = 1..Len(blocks)
      /\ blocks'[at] = b /\ \A i \in 1..Len(blocks) : i # at => blocks'[i] = blocks[i]
  <2>1. blocks \in Seq(BlockType)
    BY DEF ArenaInv, ListOK
  <2>2. b \in BlockType
    BY <1>3
  <2>3. blocks' \in Seq(BlockType) /\ Len(blocks') = Len(blocks)
    BY <1>4, <2>1, <2>2
  <2>4. DOMAIN blocks' = 1..Len(blocks) /\ blocks'[at] = b
    BY <1>4, <2>1, <2>2
  <2>5. \A i \in 1..Len(blocks) : i # at => blocks'[i] = blocks[i]
    BY <1>4, <2>1, <2>2
  <2> QED
    BY <2>3, <2>4, <2>5
<1>6. ListOK'
  <2>1. ArenaTypeOK'
    <3>1. \A i, j \in 1..Len(blocks) : blocks[i].id = blocks[j].id => i = j
      BY <1>1 DEF ArenaInv, ListOK, ArenaTypeOK
    <3>2. \A i, j \in 1..Len(blocks) : blocks'[i].id = blocks'[j].id => i = j
      BY <3>1, <1>3, <1>5
    <3>3. ~ blocks'[current'].dedicated
      BY <1>3, <1>5
    <3>4. \A i \in 1..Len(blocks) : blocks'[i].offset \in 0..blocks'[i].capacity
      BY <1>1, <1>3, <1>5
    <3> QED
      BY <1>5, <3>2, <3>3, <3>4 DEF ArenaTypeOK, Current
  <2>2. LaterBlocksAreFree'
    <3>1. \A i \in (current + 1)..Len(blocks) : blocks[i].dedicated \/ blocks[i].offset = 0
      BY DEF ArenaInv, ListOK, LaterBlocksAreFree
    <3>2. ASSUME NEW i \in (current' + 1)..Len(blocks)
          PROVE  blocks'[i].dedicated \/ blocks'[i].offset = 0
      <4>1. i \in (current + 1)..Len(blocks) /\ i \in 1..Len(blocks)
        BY <1>1
      <4>2. CASE i = at
        BY <4>1, <4>2, <1>1, <1>3, <1>5
      <4>3. CASE i # at
        BY <4>1, <4>3, <3>1, <1>5
      <4> QED
        BY <4>2, <4>3
    <3> QED
      BY <3>2, <1>5 DEF LaterBlocksAreFree
  <2>3. ~ blocks'[1].dedicated
    <3>1. ~ blocks[1].dedicated
      BY DEF ArenaInv, ListOK
    <3>2. 1 \in 1..Len(blocks)
      BY <1>1
    <3> QED
      BY <3>1, <3>2, <1>3, <1>5
  <2>4. \A i \in DOMAIN blocks' : blocks'[i].id <= Len(blocks')
    BY <1>1, <1>3, <1>5
  <2> QED
    BY <1>5, <2>1, <2>2, <2>3, <2>4 DEF ListOK
<1>7. Carried(blocks, blocks', [i \in 1..Len(blocks) |-> i], at, blocks[at].offset, asked)
  BY <1>1, <1>3, <1>5 DEF Carried
<1>8. Hands(Piece(blocks'[at].id, blocks[at].offset, asked))
  BY <1>3, <1>5
<1> QED
  BY <1>1, <1>5, <1>6, <1>7, <1>8, HandsOut

(***************************************************************************)
(* A new block, taken from its beginning.                                  *)
(***************************************************************************)
LEMMA FillsNew ==
    ASSUME ArenaInv, NEW asked \in Nat \ {0}, NEW room \in Nat, asked <= room,
           NEW dedicated \in BOOLEAN,
           blocks' = Linked(Block(Len(blocks) + 1, room, asked, dedicated)),
           Hands(Piece(Len(blocks) + 1, 0, asked)),
           current' = IF dedicated THEN current ELSE current + 1
    PROVE  ArenaInv'
<1>1. /\ Len(blocks) \in Nat /\ DOMAIN blocks = 1..Len(blocks)
      /\ current \in 1..Len(blocks)
      /\ \A i \in 1..Len(blocks) :
           /\ blocks[i] \in BlockType
           /\ blocks[i].id \in Nat /\ blocks[i].capacity \in Nat
           /\ blocks[i].offset \in Nat /\ blocks[i].dedicated \in BOOLEAN
           /\ blocks[i].offset <= blocks[i].capacity
           /\ blocks[i].id <= Len(blocks)
  BY ListTypes
<1> DEFINE n == Len(blocks)
<1>2. PICK b : b = Block(n + 1, room, asked, dedicated)
  OBVIOUS
<1>3. /\ b \in BlockType /\ b.id = n + 1 /\ b.capacity = room
      /\ b.offset = asked /\ b.dedicated = dedicated
  BY <1>1, <1>2 DEF Block, BlockType
<1>4. /\ blocks' \in Seq(BlockType)
      /\ Len(blocks') = n + 1
      /\ \A i \in 1..current : blocks'[i] = blocks[i]
      /\ blocks'[current + 1] = b
      /\ \A i \in (current + 1)..n : blocks'[i + 1] = blocks[i]
  <2>1. blocks \in Seq(BlockType)
    BY DEF ArenaInv, ListOK
  <2>2. blocks' = Linked(b) /\ current \in DOMAIN blocks
    BY <1>1, <1>2
  <2>3. b \in BlockType
    BY <1>3
  <2>4. LinkedIn(blocks, Linked(b), current, b)
    BY <2>1, <2>2, <2>3, LinkedList
  <2>5. LinkedIn(blocks, blocks', current, b)
    BY <2>2, <2>4
  <2> QED
    BY <2>5 DEF LinkedIn
<1>5. DOMAIN blocks' = 1..(n + 1)
  BY <1>4
<1> HIDE DEF n
<1>6. PICK sh : sh = [i \in 1..n |-> IF i <= current THEN i ELSE i + 1]
  OBVIOUS
<1>7. n \in Nat /\ current \in 1..n
  BY <1>1 DEF n
<1>8. /\ sh \in [1..n -> 1..(n + 1)]
      /\ \A i \in 1..n : blocks'[sh[i]] = blocks[i] /\ sh[i] # current + 1
      /\ \A i, j \in 1..n : i < j => sh[i] < sh[j]
  BY <1>4, <1>6, <1>7
<1>9. \A j \in 1..(n + 1) : j # current + 1 => \E i \in 1..n : sh[i] = j
  <2> SUFFICES ASSUME NEW j \in 1..(n + 1), j # current + 1 PROVE \E i \in 1..n : sh[i] = j
    OBVIOUS
  <2>1. CASE j <= current
    <3>1. j \in 1..n /\ sh[j] = j
      BY <2>1, <1>6, <1>7
    <3> QED
      BY <3>1
  <2>2. CASE j > current
    <3>1. j - 1 \in 1..n /\ sh[j - 1] = j
      BY <2>2, <1>6, <1>7
    <3> QED
      BY <3>1
  <2> QED
    BY <2>1, <2>2, <1>7
<1>10. ASSUME NEW j \in 1..(n + 1)
       PROVE  j = current + 1 \/ \E i \in 1..n : j = sh[i] /\ blocks'[j] = blocks[i]
  BY <1>8, <1>9
<1>11. ListOK'
  <2>1. ArenaTypeOK'
    <3>1. \A i, j \in 1..n : blocks[i].id = blocks[j].id => i = j
      BY <1>1 DEF ArenaInv, ListOK, ArenaTypeOK, n
    <3>2. \A i \in 1..n : blocks[i].id # b.id
      BY <1>1, <1>3, <1>7 DEF n
    <3>3. ASSUME NEW i \in 1..(n + 1), NEW j \in 1..(n + 1), blocks'[i].id = blocks'[j].id
          PROVE  i = j
      <4>1. blocks'[current + 1] = b
        BY <1>4
      <4>2. CASE i = current + 1 /\ j = current + 1
        BY <4>2
      <4>3. CASE i = current + 1 /\ j # current + 1
        <5>1. PICK k \in 1..n : blocks'[j] = blocks[k]
          BY <1>10, <4>3
        <5> QED
          BY <5>1, <4>1, <4>3, <3>2, <3>3
      <4>4. CASE i # current + 1 /\ j = current + 1
        <5>1. PICK k \in 1..n : blocks'[i] = blocks[k]
          BY <1>10, <4>4
        <5> QED
          BY <5>1, <4>1, <4>4, <3>2, <3>3
      <4>5. CASE i # current + 1 /\ j # current + 1
        <5>1. PICK k \in 1..n : i = sh[k] /\ blocks'[i] = blocks[k]
          BY <1>10, <4>5
        <5>2. PICK l \in 1..n : j = sh[l] /\ blocks'[j] = blocks[l]
          BY <1>10, <4>5
        <5>3. blocks[k].id = blocks[l].id
          BY <5>1, <5>2, <3>3
        <5>4. k = l
          BY <5>3, <3>1
        <5> QED
          BY <5>1, <5>2, <5>4
      <4> QED
        BY <4>2, <4>3, <4>4, <4>5
    <3>4. current' \in 1..(n + 1) /\ ~ blocks'[current'].dedicated
      <4>1. ~ blocks[current].dedicated
        BY DEF ArenaInv, ListOK, ArenaTypeOK, Current
      <4> QED
        BY <4>1, <1>3, <1>4, <1>7
    <3>5. \A i \in 1..(n + 1) : blocks'[i].offset \in 0..blocks'[i].capacity
      <4>1. b.offset \in 0..b.capacity
        BY <1>3
      <4>2. \A i \in 1..n : blocks[i].offset \in 0..blocks[i].capacity
        BY <1>1 DEF n
      <4> QED
        BY <4>1, <4>2, <1>4, <1>10
    <3> QED
      BY <1>5, <3>3, <3>4, <3>5 DEF ArenaTypeOK, Current
  <2>2. LaterBlocksAreFree'
    <3>1. \A i \in (current + 1)..n : blocks[i].dedicated \/ blocks[i].offset = 0
      BY DEF ArenaInv, ListOK, LaterBlocksAreFree, n
    <3>2. ASSUME NEW j \in (current' + 1)..(n + 1)
          PROVE  blocks'[j].dedicated \/ blocks'[j].offset = 0
      <4>1. CASE j = current + 1
        BY <4>1, <1>3, <1>4, <1>7
      <4>2. CASE j # current + 1
        <5>1. j - 1 \in (current + 1)..n /\ (j - 1) + 1 = j
          BY <4>2, <1>7
        <5>2. blocks'[j] = blocks[j - 1]
          BY <5>1, <1>4
        <5> QED
          BY <5>1, <5>2, <3>1
      <4> QED
        BY <4>1, <4>2
    <3> QED
      BY <3>2, <1>4 DEF LaterBlocksAreFree
  <2>3. ~ blocks'[1].dedicated
    BY <1>4, <1>7 DEF ArenaInv, ListOK
  <2>4. \A i \in 1..(n + 1) : blocks'[i].id <= n + 1
    <3>1. \A i \in 1..n : blocks[i].id \in Nat /\ blocks[i].id <= n
      BY <1>1 DEF n
    <3>2. b.id <= n + 1 /\ \A i \in 1..n : blocks[i].id <= n + 1
      BY <3>1, <1>3, <1>7
    <3> QED
      BY <3>2, <1>4, <1>10
  <2> QED
    BY <1>4, <1>5, <2>1, <2>2, <2>3, <2>4 DEF ListOK
<1>12. Carried(blocks, blocks', sh, current + 1, 0, asked)
  <2>1. DOMAIN blocks = 1..n
    BY <1>1 DEF n
  <2>2. blocks'[current + 1].offset = 0 + asked
    BY <1>3, <1>4
  <2> QED
    BY <2>1, <2>2, <1>5, <1>8, <1>9 DEF Carried
<1>13. current + 1 \in DOMAIN blocks' /\ Hands(Piece(blocks'[current + 1].id, 0, asked))
  BY <1>3, <1>4, <1>5, <1>7 DEF n
<1> QED
  BY <1>11, <1>12, <1>13, HandsOut

\* arena_alloc out of the current block.
LEMMA BumpInvariant == ArenaInv /\ Bump => ArenaInv'
<1> SUFFICES ASSUME ArenaInv, Bump PROVE ArenaInv'
  OBVIOUS
<1>1. PICK asked \in Sizes :
        /\ Current.offset + asked <= Current.capacity
        /\ Hands(Piece(Current.id, Current.offset, asked))
        /\ blocks' = [blocks EXCEPT ![current].offset = @ + asked]
        /\ current' = current
  BY DEF Bump, Fits
<1>2. asked \in Nat \ {0}
  BY ArenaAssumption
<1>3. current \in 1..Len(blocks) /\ current <= current
  BY ListTypes
<1>4. ~ blocks[current].dedicated
  BY DEF ArenaInv, ListOK, ArenaTypeOK, Current
<1> QED
  BY <1>1, <1>2, <1>3, <1>4, FillsInPlace DEF Current

\* arena_grow onto a later block: it is free.
LEMMA GrowReusedInvariant == ArenaInv /\ GrowReused => ArenaInv'
<1> SUFFICES ASSUME ArenaInv, GrowReused PROVE ArenaInv'
  OBVIOUS
<1>1. PICK asked \in Sizes :
        /\ GrowTargets(asked) # {}
        /\ Hands(Piece(blocks[FirstOf(GrowTargets(asked))].id,
                       blocks[FirstOf(GrowTargets(asked))].offset, asked))
        /\ current' = FirstOf(GrowTargets(asked))
        /\ blocks' = [blocks EXCEPT ![FirstOf(GrowTargets(asked))].offset = @ + asked]
  BY DEF GrowReused
<1>2. asked \in Nat \ {0}
  BY ArenaAssumption
<1>3. /\ current \in 1..Len(blocks) /\ Len(blocks) \in Nat
      /\ \A i \in 1..Len(blocks) : blocks[i].offset \in Nat /\ blocks[i].capacity \in Nat
  BY ListTypes
<1>4. PICK at : at = FirstOf(GrowTargets(asked))
  OBVIOUS
<1>5. at \in GrowTargets(asked)
  <2>1. GrowTargets(asked) \subseteq Nat
    BY <1>3 DEF GrowTargets
  <2> QED
    BY <1>1, <1>4, <2>1, FirstOfIsOne
<1>6. /\ at \in (current + 1)..Len(blocks) /\ at \in 1..Len(blocks) /\ current <= at
      /\ ~ blocks[at].dedicated /\ asked <= blocks[at].capacity
  BY <1>3, <1>5 DEF GrowTargets
<1>7. blocks[at].offset = 0
  BY <1>6 DEF ArenaInv, ListOK, LaterBlocksAreFree
<1>8. blocks[at].offset + asked <= blocks[at].capacity
  BY <1>2, <1>3, <1>6, <1>7
<1>9. /\ blocks' = [blocks EXCEPT ![at].offset = blocks[at].offset + asked]
      /\ Hands(Piece(blocks[at].id, blocks[at].offset, asked))
      /\ current' = at
  BY <1>1, <1>4
<1>10. at <= at
  BY <1>3, <1>6
<1> QED
  BY <1>2, <1>6, <1>8, <1>9, <1>10, FillsInPlace

\* arena_alloc_oversized in a free dedicated block.
LEMMA OversizedReusedInvariant == ArenaInv /\ OversizedReused => ArenaInv'
<1> SUFFICES ASSUME ArenaInv, OversizedReused PROVE ArenaInv'
  OBVIOUS
<1>1. PICK asked \in Sizes :
        /\ OversizedTargets(asked) # {}
        /\ Hands(Piece(blocks[FirstOf(OversizedTargets(asked))].id, 0, asked))
        /\ blocks' = [blocks EXCEPT ![FirstOf(OversizedTargets(asked))].offset = asked]
        /\ current' = current
  BY DEF OversizedReused
<1>2. asked \in Nat \ {0}
  BY ArenaAssumption
<1>3. current \in 1..Len(blocks) /\ Len(blocks) \in Nat /\ current <= current
  BY ListTypes
<1>4. PICK at : at = FirstOf(OversizedTargets(asked))
  OBVIOUS
<1>5. at \in OversizedTargets(asked)
  <2>1. OversizedTargets(asked) \subseteq Nat
    BY <1>3 DEF OversizedTargets
  <2> QED
    BY <1>1, <1>4, <2>1, FirstOfIsOne
<1>6. /\ at \in 1..Len(blocks) /\ blocks[at].dedicated
      /\ blocks[at].offset = 0 /\ asked <= blocks[at].capacity
  BY <1>3, <1>5 DEF OversizedTargets
<1>7. blocks[at].offset + asked = asked
  BY <1>2, <1>6
<1>8. /\ blocks' = [blocks EXCEPT ![at].offset = blocks[at].offset + asked]
      /\ Hands(Piece(blocks[at].id, blocks[at].offset, asked))
      /\ blocks[at].offset + asked <= blocks[at].capacity
  BY <1>1, <1>4, <1>6, <1>7
<1>9. ~ blocks[current].dedicated
  BY DEF ArenaInv, ListOK, ArenaTypeOK, Current
<1> QED
  BY <1>1, <1>2, <1>3, <1>6, <1>8, <1>9, FillsInPlace

\* arena_grow with a new block.
LEMMA GrowNewInvariant == ArenaInv /\ GrowNew => ArenaInv'
<1> SUFFICES ASSUME ArenaInv, GrowNew PROVE ArenaInv'
  OBVIOUS
<1>1. PICK asked \in Sizes :
        /\ asked <= BlockSize
        /\ Hands(Piece(Len(blocks) + 1, 0, asked))
        /\ blocks' = Linked(Block(Len(blocks) + 1, BlockSize, asked, FALSE))
        /\ current' = current + 1
  BY DEF GrowNew
<1>2. asked \in Nat \ {0} /\ BlockSize \in Nat
  BY ArenaAssumption
<1>3. current' = IF FALSE THEN current ELSE current + 1
  BY <1>1
<1> QED
  BY <1>1, <1>2, <1>3, FillsNew

\* arena_alloc_oversized in a new dedicated block.
LEMMA OversizedNewInvariant == ArenaInv /\ OversizedNew => ArenaInv'
<1> SUFFICES ASSUME ArenaInv, OversizedNew PROVE ArenaInv'
  OBVIOUS
<1>1. PICK asked \in Sizes :
        /\ Hands(Piece(Len(blocks) + 1, 0, asked))
        /\ blocks' = Linked(Block(Len(blocks) + 1, asked, asked, TRUE))
        /\ current' = current
  BY DEF OversizedNew
<1>2. asked \in Nat \ {0} /\ asked \in Nat /\ asked <= asked
  BY ArenaAssumption
<1>3. current' = IF TRUE THEN current ELSE current + 1
  BY <1>1
<1> QED
  BY <1>1, <1>2, <1>3, FillsNew

Moved(l, f) == [i \in DOMAIN l |-> [l[i] EXCEPT !.offset = f[i]]]

\* A list whose offsets are moved is a list still.
LEMMA OffsetsMoved ==
    ASSUME NEW l \in Seq(BlockType), NEW f \in [DOMAIN l -> Nat],
           NEW m, m = Moved(l, f)
    PROVE  /\ m \in Seq(BlockType) /\ Len(m) = Len(l) /\ DOMAIN m = DOMAIN l
           /\ DOMAIN l = 1..Len(l)
           /\ \A i \in DOMAIN l :
                /\ m[i].id = l[i].id /\ m[i].capacity = l[i].capacity
                /\ m[i].dedicated = l[i].dedicated /\ m[i].offset = f[i]
<1>1. Len(l) \in Nat /\ DOMAIN l = 1..Len(l) /\ \A i \in DOMAIN l : l[i] \in BlockType
  OBVIOUS
<1>2. \A i \in DOMAIN l :
         /\ m[i] \in BlockType
         /\ m[i].id = l[i].id /\ m[i].capacity = l[i].capacity
         /\ m[i].dedicated = l[i].dedicated /\ m[i].offset = f[i]
  BY <1>1 DEF BlockType, Moved
<1>3. m \in [1..Len(l) -> BlockType]
  BY <1>1, <1>2 DEF Moved
<1> QED
  BY <1>1, <1>2, <1>3

\* Moving offsets back, with nothing left in use, keeps the list.
LEMMA OffsetsDown ==
    ASSUME ArenaInv, DOMAIN blocks' = DOMAIN blocks, blocks' \in Seq(BlockType),
           Len(blocks') = Len(blocks),
           \A i \in DOMAIN blocks :
              /\ blocks'[i].id = blocks[i].id /\ blocks'[i].capacity = blocks[i].capacity
              /\ blocks'[i].dedicated = blocks[i].dedicated
              /\ blocks'[i].offset \in 0..blocks[i].capacity,
           current' \in DOMAIN blocks, ~ blocks[current'].dedicated,
           \A i \in DOMAIN blocks : i > current' => blocks'[i].offset = 0
    PROVE  ListOK'
<1>1. /\ Len(blocks) \in Nat /\ DOMAIN blocks = 1..Len(blocks) /\ 1 \in DOMAIN blocks
      /\ \A i \in DOMAIN blocks : blocks[i].id <= Len(blocks)
  BY ListTypes
<1>2. /\ \A i, j \in DOMAIN blocks : blocks[i].id = blocks[j].id => i = j
      /\ ~ blocks[1].dedicated
  BY DEF ArenaInv, ListOK, ArenaTypeOK
<1>3. ArenaTypeOK'
  BY <1>2 DEF ArenaTypeOK, Current
<1>4. LaterBlocksAreFree'
  <2>1. \A i \in (current' + 1)..Len(blocks) : i \in DOMAIN blocks /\ i > current'
    BY <1>1
  <2> QED
    BY <2>1 DEF LaterBlocksAreFree
<1> QED
  BY <1>1, <1>2, <1>3, <1>4 DEF ListOK

\* arena_reset gives everything up.
LEMMA ResetInvariant == ArenaInv /\ Reset => ArenaInv'
<1> SUFFICES ASSUME ArenaInv, Reset PROVE ArenaInv'
  OBVIOUS
<1>1. /\ blocks' = [i \in DOMAIN blocks |-> [blocks[i] EXCEPT !.offset = 0]]
      /\ current' = 1 /\ held' = {} /\ checkpoints' = <<>>
  BY DEF Reset
<1>2. PICK f : f = [i \in DOMAIN blocks |-> 0]
  OBVIOUS
<1>3. f \in [DOMAIN blocks -> Nat] /\ \A i \in DOMAIN blocks : f[i] = 0
  BY <1>2
<1>4. blocks' = Moved(blocks, f)
  BY <1>1, <1>3 DEF Moved
<1>5. blocks \in Seq(BlockType) /\ ~ blocks[1].dedicated
  BY DEF ArenaInv, ListOK
<1>6. /\ blocks' \in Seq(BlockType) /\ Len(blocks') = Len(blocks)
      /\ DOMAIN blocks' = DOMAIN blocks
      /\ \A i \in DOMAIN blocks :
           /\ blocks'[i].id = blocks[i].id /\ blocks'[i].capacity = blocks[i].capacity
           /\ blocks'[i].dedicated = blocks[i].dedicated /\ blocks'[i].offset = f[i]
  BY <1>3, <1>4, <1>5, OffsetsMoved
<1>7. 1 \in DOMAIN blocks /\ \A i \in DOMAIN blocks : blocks[i].capacity \in Nat
  BY ListTypes
<1>8. ListOK'
  <2>1. \A i \in DOMAIN blocks : blocks'[i].offset \in 0..blocks[i].capacity
    BY <1>3, <1>6, <1>7
  <2>2. \A i \in DOMAIN blocks : blocks'[i].offset = 0
    BY <1>3, <1>6
  <2> QED
    BY <1>1, <1>5, <1>6, <1>7, <2>1, <2>2, OffsetsDown
<1>9. MarkOK'
  BY <1>1 DEF MarkOK
<1> QED
  BY <1>1, <1>8, <1>9 DEF ArenaInv, HeldOK, KeptDisjoint

\* arena_checkpoint: what is in use in bump blocks lies before it.
LEMMA CheckpointInvariant == ArenaInv /\ Checkpoint => ArenaInv'
<1> SUFFICES ASSUME ArenaInv, Checkpoint PROVE ArenaInv'
  OBVIOUS
<1>1. PICK mark : mark = [block |-> Current.id, offset |-> Current.offset]
  OBVIOUS
<1>2. /\ checkpoints = <<>> /\ checkpoints' = <<mark>>
      /\ UNCHANGED <<blocks, current, held>>
      /\ ScratchUse => held = {}
  BY <1>1 DEF Checkpoint
<1>3. /\ Len(blocks) \in Nat /\ DOMAIN blocks = 1..Len(blocks)
      /\ current \in DOMAIN blocks
      /\ \A i \in DOMAIN blocks :
           /\ blocks[i].id \in Nat /\ blocks[i].offset \in Nat /\ blocks[i].capacity \in Nat
           /\ blocks[i].offset <= blocks[i].capacity
  BY ListTypes
<1>4. /\ \A i, j \in DOMAIN blocks : blocks[i].id = blocks[j].id => i = j
      /\ ~ blocks[current].dedicated
      /\ \A i \in (current + 1)..Len(blocks) : blocks[i].dedicated \/ blocks[i].offset = 0
  BY DEF ArenaInv, ListOK, ArenaTypeOK, Current, LaterBlocksAreFree
<1>5. mark \in MarkType /\ mark.block = blocks[current].id /\ mark.offset = blocks[current].offset
  BY <1>1, <1>3 DEF MarkType, Current
<1>6. checkpoints' \in Seq(MarkType) /\ Len(checkpoints') = 1 /\ checkpoints'[1] = mark
      /\ Len(checkpoints) = 0
  BY <1>2, <1>5
<1>7. ListOK'
  BY <1>2 DEF ArenaInv, ListOK, ArenaTypeOK, Current, LaterBlocksAreFree
<1>8. MarkOK'
  <2>1. \E i \in DOMAIN blocks : /\ blocks[i].id = mark.block /\ ~ blocks[i].dedicated
                                 /\ mark.offset <= blocks[i].capacity
    BY <1>3, <1>4, <1>5
  <2> QED
    BY <1>2, <1>6, <2>1 DEF MarkOK
<1>9. ASSUME NEW r \in held PROVE PieceOK(r)'
  <2>1. ~ ScratchUse
    BY <1>2
  <2>2. /\ r \in PieceType /\ r.from < r.to /\ r.depth <= 0
        /\ \E i \in DOMAIN blocks : blocks[i].id = r.block
        /\ \A i \in DOMAIN blocks : blocks[i].id = r.block /\ Kept(i) => r.to <= blocks[i].offset
    BY <1>6 DEF ArenaInv, HeldOK, PieceOK
  <2>3. ASSUME NEW i \in DOMAIN blocks, NEW j \in DOMAIN blocks,
               blocks[i].id = r.block, Kept(i), blocks[j].id = mark.block
        PROVE  i < j \/ (i = j /\ r.to <= mark.offset)
    <3>1. j = current
      BY <2>3, <1>3, <1>4, <1>5
    <3>2. r.to <= blocks[i].offset /\ ~ blocks[i].dedicated
      BY <2>1, <2>2, <2>3 DEF Kept
    <3>3. i <= current
      <4> SUFFICES ASSUME i > current PROVE FALSE
        BY <1>3
      <4>1. blocks[i].offset = 0
        BY <3>2, <1>3, <1>4
      <4> QED
        BY <4>1, <3>2, <2>2 DEF PieceType
    <3> QED
      BY <1>3, <1>5, <3>1, <3>2, <3>3
  <2>4. r.depth <= Len(checkpoints')
    BY <1>6, <2>2 DEF PieceType
  <2> QED
    BY <1>2, <1>6, <2>1, <2>2, <2>3, <2>4 DEF PieceOK, Kept
<1>10. HeldOK'
  BY <1>2, <1>9 DEF HeldOK
<1>11. KeptDisjoint'
  BY <1>2 DEF ArenaInv, KeptDisjoint, Kept
<1> QED
  BY <1>7, <1>8, <1>10, <1>11 DEF ArenaInv

\* arena_rewind: what stays in use lies before the checkpoint.
LEMMA RewindInvariant == ArenaInv /\ Rewind => ArenaInv'
<1> SUFFICES ASSUME ArenaInv, Rewind PROVE ArenaInv'
  OBVIOUS
<1>1. /\ checkpoints # <<>> /\ checkpoints \in Seq(MarkType) /\ Len(checkpoints) \in {0, 1}
  BY DEF Rewind, ArenaInv, MarkOK
<1>2. Len(checkpoints) = 1
  BY <1>1
<1>3. PICK mark : mark = checkpoints[1]
  OBVIOUS
<1>4. PICK at : at = Place(mark.block)
  OBVIOUS
<1>5. /\ blocks' = [i \in DOMAIN blocks |->
                       IF i < at THEN blocks[i]
                       ELSE [blocks[i] EXCEPT !.offset = IF i = at THEN mark.offset ELSE 0]]
      /\ current' = at
      /\ held' = {r \in held : r.depth < 1}
      /\ checkpoints' = <<>>
  <2>1. SubSeq(checkpoints, 1, 1 - 1) = <<>>
    BY <1>1
  <2> QED
    BY <1>2, <1>3, <1>4, <2>1 DEF Rewind
<1>6. PICK c \in DOMAIN blocks : /\ blocks[c].id = mark.block
                                 /\ ~ blocks[c].dedicated
                                 /\ mark.offset <= blocks[c].capacity
  BY <1>1, <1>3 DEF ArenaInv, MarkOK
<1>7. /\ Len(blocks) \in Nat /\ DOMAIN blocks = 1..Len(blocks)
      /\ \A i \in DOMAIN blocks :
           /\ blocks[i] \in BlockType
           /\ blocks[i].offset \in Nat /\ blocks[i].capacity \in Nat
           /\ blocks[i].offset <= blocks[i].capacity
  BY ListTypes
<1>8. \A i, j \in DOMAIN blocks : blocks[i].id = blocks[j].id => i = j
  BY DEF ArenaInv, ListOK, ArenaTypeOK
<1>9. at = c
  BY <1>4, <1>6, <1>8 DEF Place
<1>10. mark.offset \in Nat
  <2>1. mark \in MarkType
    BY <1>1, <1>2, <1>3
  <2> QED
    BY <2>1 DEF MarkType
<1>11. PICK f : f = [i \in DOMAIN blocks |->
                        IF i < at THEN blocks[i].offset ELSE IF i = at THEN mark.offset ELSE 0]
  OBVIOUS
<1>12. f \in [DOMAIN blocks -> Nat]
       /\ \A i \in DOMAIN blocks :
            f[i] = IF i < at THEN blocks[i].offset ELSE IF i = at THEN mark.offset ELSE 0
  BY <1>7, <1>10, <1>11
<1>13. blocks' = Moved(blocks, f)
  <2>1. ASSUME NEW i \in DOMAIN blocks, i < at
        PROVE  blocks[i] = [blocks[i] EXCEPT !.offset = f[i]]
    <3>1. blocks[i] \in BlockType /\ f[i] = blocks[i].offset
      BY <1>7, <1>12, <2>1
    <3> QED
      BY <3>1 DEF BlockType
  <2> QED
    BY <1>5, <1>12, <2>1 DEF Moved
<1>14. blocks \in Seq(BlockType)
  BY DEF ArenaInv, ListOK
<1>15. /\ blocks' \in Seq(BlockType) /\ Len(blocks') = Len(blocks)
       /\ DOMAIN blocks' = DOMAIN blocks
       /\ \A i \in DOMAIN blocks :
            /\ blocks'[i].id = blocks[i].id /\ blocks'[i].capacity = blocks[i].capacity
            /\ blocks'[i].dedicated = blocks[i].dedicated /\ blocks'[i].offset = f[i]
  BY <1>12, <1>13, <1>14, OffsetsMoved
<1>16. ListOK'
  <2>1. \A i \in DOMAIN blocks : blocks'[i].offset \in 0..blocks[i].capacity
    BY <1>6, <1>7, <1>9, <1>10, <1>12, <1>15
  <2>2. \A i \in DOMAIN blocks : i > at => blocks'[i].offset = 0
    BY <1>6, <1>7, <1>9, <1>12, <1>15
  <2> QED
    BY <1>5, <1>6, <1>9, <1>15, <2>1, <2>2, OffsetsDown
<1>17. MarkOK'
  BY <1>5 DEF MarkOK
<1>18. ASSUME NEW r \in held, r.depth < 1 PROVE PieceOK(r)' /\ ~ ScratchUse
  <2>1. /\ r \in PieceType /\ r.from < r.to
        /\ ScratchUse => r.depth = 1
        /\ \E i \in DOMAIN blocks : blocks[i].id = r.block
        /\ \A i \in DOMAIN blocks : blocks[i].id = r.block /\ Kept(i) => r.to <= blocks[i].offset
    BY <1>2 DEF ArenaInv, HeldOK, PieceOK
  <2>2. r.depth = 0 /\ ~ ScratchUse
    BY <1>18, <2>1 DEF PieceType
  <2>3. \A i \in DOMAIN blocks : blocks[i].id = r.block /\ Kept(i) =>
             i < c \/ (i = c /\ r.to <= mark.offset)
    BY <1>1, <1>3, <1>6, <2>2 DEF ArenaInv, HeldOK, PieceOK
  <2>4. \A i \in DOMAIN blocks : blocks[i].id = r.block /\ Kept(i) => r.to <= f[i]
    <3> SUFFICES ASSUME NEW i \in DOMAIN blocks, blocks[i].id = r.block, Kept(i)
                 PROVE  r.to <= f[i]
      OBVIOUS
    <3>1. CASE i < c
      BY <3>1, <2>1, <1>9, <1>12
    <3>2. CASE i = c /\ r.to <= mark.offset
      BY <3>2, <1>7, <1>9, <1>12
    <3> QED
      BY <3>1, <3>2, <2>3
  <2>5. Len(checkpoints') = 0 /\ checkpoints' = <<>>
    BY <1>5
  <2> QED
    BY <1>15, <2>1, <2>2, <2>4, <2>5 DEF PieceOK, Kept
<1>19. HeldOK'
  BY <1>5, <1>18 DEF HeldOK
<1>20. KeptDisjoint'
  BY <1>5, <1>15 DEF ArenaInv, KeptDisjoint, Kept
<1> QED
  BY <1>16, <1>17, <1>19, <1>20 DEF ArenaInv

\* The invariant depends on the variables alone.
LEMMA ArenaStutterInvariant == ArenaInv /\ UNCHANGED arenaVars => ArenaInv'
<1> SUFFICES ASSUME ArenaInv, UNCHANGED arenaVars PROVE ArenaInv'
  OBVIOUS
<1>1. UNCHANGED <<blocks, current, checkpoints, held>>
  BY DEF arenaVars
<1>2. ListOK' /\ MarkOK'
  BY <1>1 DEF ArenaInv, ListOK, ArenaTypeOK, Current, LaterBlocksAreFree, MarkOK
<1>3. HeldOK' /\ KeptDisjoint'
  BY <1>1 DEF ArenaInv, HeldOK, PieceOK, KeptDisjoint, Kept
<1> QED
  BY <1>2, <1>3 DEF ArenaInv

\* The invariant holds in every state.
LEMMA ArenaInvariant == ArenaSpec => []ArenaInv
<1>1. ArenaInv /\ [ArenaNext]_arenaVars => ArenaInv'
  BY BumpInvariant, GrowReusedInvariant, GrowNewInvariant, OversizedReusedInvariant,
     OversizedNewInvariant, ResetInvariant, CheckpointInvariant, RewindInvariant,
     ArenaStutterInvariant DEF ArenaNext, Alloc
<1> QED
  BY <1>1, ArenaInitInvariant, PTL DEF ArenaSpec

-----------------------------------------------------------------------------
(***************************************************************************)
(* Whatever is asked of an arena and in whatever order, its current block  *)
(* is a bump block of the list, its blocks are told apart, and no offset   *)
(* passes the end of its block.                                            *)
(***************************************************************************)
THEOREM ArenaTypeCorrect == ArenaSpec => []ArenaTypeOK
<1>1. ArenaInv => ArenaTypeOK
  BY DEF ArenaInv, ListOK
<1> QED
  BY <1>1, ArenaInvariant, PTL

(***************************************************************************)
(* arena_grow always moves to a block that holds nothing, over any history *)
(* of resets and rewinds.                                                  *)
(***************************************************************************)
THEOREM LaterBlocksStayFree == ArenaSpec => []LaterBlocksAreFree
<1>1. ArenaInv => LaterBlocksAreFree
  BY DEF ArenaInv, ListOK
<1> QED
  BY <1>1, ArenaInvariant, PTL

(***************************************************************************)
(* With checkpoints taken of an arena that holds nothing, as the borrow    *)
(* checker takes them, two ranges in use never share memory.               *)
(***************************************************************************)
THEOREM RangesStayDisjoint ==
    ASSUME ScratchUse
    PROVE  ArenaSpec => []RangesAreDisjoint
<1>1. ArenaInv => RangesAreDisjoint
  <2> SUFFICES ASSUME ArenaInv PROVE RangesAreDisjoint
    OBVIOUS
  <2>1. \A r \in held : \E i \in DOMAIN blocks : blocks[i].id = r.block
    BY DEF ArenaInv, HeldOK, PieceOK
  <2> QED
    BY <2>1 DEF ArenaInv, KeptDisjoint, Kept, RangesAreDisjoint
<1> QED
  BY <1>1, ArenaInvariant, PTL

(***************************************************************************)
(* Under the same use, a range in use lies below its block's offset, where *)
(* no later allocation reaches it.                                         *)
(***************************************************************************)
THEOREM RangesStayReserved ==
    ASSUME ScratchUse
    PROVE  ArenaSpec => []RangesAreReserved
<1>1. ArenaInv => RangesAreReserved
  <2> SUFFICES ASSUME ArenaInv PROVE RangesAreReserved
    OBVIOUS
  <2>1. \A r \in held : \E i \in DOMAIN blocks : blocks[i].id = r.block
    BY DEF ArenaInv, HeldOK, PieceOK
  <2>2. \A r \in held : Place(r.block) \in DOMAIN blocks /\ blocks[Place(r.block)].id = r.block
    BY <2>1 DEF Place
  <2> QED
    BY <2>2 DEF ArenaInv, HeldOK, PieceOK, Kept, RangesAreReserved
<1> QED
  BY <1>1, ArenaInvariant, PTL

(***************************************************************************)
(* However checkpoints are taken, memory in use in a bump block is safe: a *)
(* rewind past it can only give up what came after the checkpoint.  Only   *)
(* an oversized allocation can be lost to a rewind to a later checkpoint.  *)
(***************************************************************************)
BumpRangesAreSafe ==
    \A r \in held : \A i \in DOMAIN blocks : blocks[i].id = r.block /\ ~ blocks[i].dedicated =>
        /\ r.to <= blocks[i].offset
        /\ \A s \in held : s # r /\ s.block = r.block => r.to <= s.from \/ s.to <= r.from

\* What arena_alloc handed out of such a block is neither handed out again nor
\* beyond the offset of its block, whatever was rewound and when.
THEOREM BumpMemoryIsSafe == ArenaSpec => []BumpRangesAreSafe
<1>1. ArenaInv => BumpRangesAreSafe
  BY DEF ArenaInv, HeldOK, PieceOK, KeptDisjoint, Kept, BumpRangesAreSafe
<1> QED
  BY <1>1, ArenaInvariant, PTL

-----------------------------------------------------------------------------
(***************************************************************************)
(* The table of module HashMap is a map for any keys, values, hash         *)
(* functions and capacity: its counters count, its probes end, and what    *)
(* lookups answer changes as FiniteMap says.                               *)
(*                                                                         *)
(* None of this is inductive by itself.  What linear probing rests on is   *)
(* that no empty entry lies between the home of a key and the entry that   *)
(* holds it (Placed), that a key is held once (Single) and that some entry *)
(* is empty (by the counters).  While a resize runs, the table being       *)
(* filled has the same properties and holds what the entries before next   *)
(* hold (Moving).                                                          *)
(***************************************************************************)

Entry == [state : {"empty", "live", "dead"}, key : Keys \cup {Absent},
          value : Values \cup {Absent}]

\* A table of n entries; a live one has a key and a value.
Tables(n) ==
    {t \in [0..(n - 1) -> Entry] :
        \A i \in 0..(n - 1) : t[i].state = "live" => t[i].key \in Keys /\ t[i].value \in Values}

Live(t, n) == {i \in 0..(n - 1) : t[i].state = "live"}
NonEmpty(t, n) == {i \in 0..(n - 1) : t[i].state # "empty"}

\* A walk from the home of k comes to entry i before it meets an empty one.
Reached(t, n, k, i) ==
    \E j \in 0..(n - 1) :
        /\ Step(n, k, j) = i
        /\ \A m \in 0..(j - 1) : t[Step(n, k, m)].state # "empty"

Placed(t, n) == \A i \in Live(t, n) : Reached(t, n, t[i].key, i)

Single(t, n) == \A i, j \in Live(t, n) : t[i].key = t[j].key => i = j

Sound(t, n) == t \in Tables(n) /\ Placed(t, n) /\ Single(t, n)

Roomy(t, n) == \E i \in 0..(n - 1) : t[i].state = "empty"

\* Table u holds exactly what the first m entries of table t hold.
Filled(u, n, t, c, m) ==
    LET before == {i \in Live(t, c) : i < m}
    IN /\ NonEmpty(u, n) = Live(u, n)
       /\ Cardinality(Live(u, n)) = Cardinality(before)
       /\ \A i \in before : \E j \in Live(u, n) : u[j] = t[i]
       /\ \A j \in Live(u, n) : \E i \in before : u[j] = t[i]

Moving ==
    pc = "resize" =>
        /\ next \in 0..capacity
        /\ Sound(newEntries, NewCapacity)
        /\ Filled(newEntries, NewCapacity, entries, capacity, next)

TableTypeOK ==
    /\ hash \in [Keys -> Nat]
    /\ capacity \in Nat \ {0, 1}
    /\ size \in Nat
    /\ occupied \in Nat
    /\ answer \in BOOLEAN
    /\ pc \in {"idle", "resize", "store"}
    /\ pc # "idle" => call \in [key : Keys, value : Values]

Counted ==
    /\ size = Cardinality(Live(entries, capacity))
    /\ occupied = Cardinality(NonEmpty(entries, capacity))
    /\ occupied < capacity
    /\ pc = "store" => occupied + 1 < capacity

TableInv == TableTypeOK /\ Sound(entries, capacity) /\ Counted /\ Moving

-----------------------------------------------------------------------------
(***************************************************************************)
(* Facts about the walk.                                                   *)
(***************************************************************************)

\* The first of a set of steps is one of them and no later than any.
LEMMA FirstStepIsFirst ==
    ASSUME NEW S, S \subseteq Nat, S # {}
    PROVE  FirstStep(S) \in S /\ \A i \in S : FirstStep(S) <= i
BY LeastOfNaturals DEF FirstStep

\* The home of a key is an entry of the table.
LEMMA HomeInTable ==
    ASSUME TableTypeOK, NEW n \in Nat \ {0}, NEW k \in Keys
    PROVE  hash[k] % n \in 0..(n - 1)
BY DEF TableTypeOK

\* A walk stays inside the table.
LEMMA StepInTable ==
    ASSUME TableTypeOK, NEW n \in Nat \ {0}, NEW k \in Keys, NEW j \in 0..(n - 1)
    PROVE  Step(n, k, j) \in 0..(n - 1)
BY HomeInTable DEF Step

\* It comes to every entry.
LEMMA StepsReachAll ==
    ASSUME TableTypeOK, NEW n \in Nat \ {0}, NEW k \in Keys, NEW i \in 0..(n - 1)
    PROVE  \E j \in 0..(n - 1) : Step(n, k, j) = i
<1> DEFINE home == hash[k] % n
           j == IF home <= i THEN i - home ELSE i - home + n
<1>1. home \in 0..(n - 1)
  BY HomeInTable
<1> HIDE DEF home
<1>2. j \in 0..(n - 1) /\ (IF home + j < n THEN home + j ELSE home + j - n) = i
  BY <1>1
<1>3. Step(n, k, j) = i
  BY <1>2 DEF Step, home
<1> QED
  BY <1>2, <1>3

(***************************************************************************)
(* What _probe answers on a sound table with room: the entry of the key if *)
(* it is held, else a free entry the key can be stored in.                 *)
(***************************************************************************)
LEMMA ProbeFinds ==
    ASSUME TableTypeOK, NEW n \in Nat \ {0}, NEW t, Sound(t, n), Roomy(t, n), NEW k \in Keys
    PROVE  /\ Probe(t, n, k) \in 0..(n - 1)
           /\ Probe(t, n, k) # NoEntry
           /\ Reached(t, n, k, Probe(t, n, k))
           /\ t[Probe(t, n, k)].state = "live" => t[Probe(t, n, k)].key = k
           /\ \A i \in Live(t, n) : t[i].key = k => Probe(t, n, k) = i
<1> DEFINE stops == {j \in 0..(n - 1) : Stops(t, n, k, j)}
           last == FirstStep(stops)
           tombstones == {j \in 0..(last - 1) : t[Step(n, k, j)].state = "dead"}
           p == Probe(t, n, k)
<1>1. PICK e \in 0..(n - 1) : t[e].state = "empty"
  BY DEF Roomy
<1>2. PICK je \in 0..(n - 1) : Step(n, k, je) = e
  BY StepsReachAll
<1>3. stops # {} /\ stops \subseteq Nat
  <2>1. Stops(t, n, k, je)
    BY <1>1, <1>2 DEF Stops
  <2> QED
    BY <2>1
<1>4. last \in stops /\ \A j \in stops : last <= j
  BY <1>3, FirstStepIsFirst
<1>5. \A m \in 0..(last - 1) : m \in 0..(n - 1) /\ ~ Stops(t, n, k, m)
  BY <1>4
<1>6. \A m \in 0..(last - 1) : t[Step(n, k, m)].state # "empty"
  BY <1>5 DEF Stops
<1>7. Step(n, k, last) \in 0..(n - 1)
  BY <1>4, StepInTable
<1>8. CASE t[Step(n, k, last)].state = "empty" /\ tombstones # {}
  <2>1. FirstStep(tombstones) \in tombstones
    <3>1. tombstones \subseteq Nat
      OBVIOUS
    <3> QED
      BY <1>8, <3>1, FirstStepIsFirst
  <2>2. p = Step(n, k, FirstStep(tombstones))
    BY <1>8, <1>3 DEF Probe
  <2> DEFINE f == FirstStep(tombstones)
  <2>3. f \in 0..(n - 1) /\ f < last
    BY <2>1, <1>4
  <2>4. p \in 0..(n - 1) /\ t[p].state = "dead"
    BY <2>1, <2>2, <2>3, StepInTable
  <2>5. Reached(t, n, k, p)
    <3>1. \A m \in 0..(f - 1) : t[Step(n, k, m)].state # "empty"
      BY <2>3, <1>6, <1>4
    <3> QED
      BY <3>1, <2>2, <2>3 DEF Reached
  <2>6. \A i \in Live(t, n) : t[i].key # k
    <3> SUFFICES ASSUME NEW i \in Live(t, n), t[i].key = k PROVE FALSE
      OBVIOUS
    <3>1. PICK j \in 0..(n - 1) : /\ Step(n, k, j) = i
                                  /\ \A m \in 0..(j - 1) : t[Step(n, k, m)].state # "empty"
      BY DEF Sound, Placed, Reached
    <3>2. t[i].state = "live"
      BY DEF Live
    <3>3. Stops(t, n, k, j)
      BY <3>1, <3>2 DEF Stops
    <3>4. last <= j
      BY <3>3, <1>4
    <3>5. last # j
      BY <3>1, <3>2, <1>8
    <3>6. last \in 0..(j - 1)
      BY <3>4, <3>5, <1>4
    <3> QED
      BY <3>6, <3>1, <1>8
  <2> QED
    BY <2>4, <2>5, <2>6 DEF NoEntry
<1>9. CASE ~ (t[Step(n, k, last)].state = "empty" /\ tombstones # {})
  <2>1. p = Step(n, k, last)
    BY <1>9, <1>3 DEF Probe
  <2>2. p \in 0..(n - 1)
    BY <2>1, <1>7
  <2>3. Reached(t, n, k, p)
    BY <2>1, <1>4, <1>6 DEF Reached
  <2>4. t[p].state = "live" => t[p].key = k
    BY <2>1, <1>4 DEF Stops
  <2>5. ASSUME NEW i \in Live(t, n), t[i].key = k PROVE p = i
    <3>1. PICK j \in 0..(n - 1) : /\ Step(n, k, j) = i
                                  /\ \A m \in 0..(j - 1) : t[Step(n, k, m)].state # "empty"
      BY <2>5 DEF Sound, Placed, Reached
    <3>2. t[i].state = "live"
      BY DEF Live
    <3>3. Stops(t, n, k, j)
      BY <3>1, <3>2, <2>5 DEF Stops
    <3>4. last <= j
      BY <3>3, <1>4
    <3>5. CASE last = j
      BY <3>5, <3>1, <2>1
    <3>6. CASE last # j
      <4>1. last \in 0..(j - 1)
        BY <3>4, <3>6, <1>4
      <4>2. t[p].state # "empty"
        BY <4>1, <3>1, <2>1
      <4>3. t[p].state = "live" /\ t[p].key = k
        BY <4>2, <2>1, <1>4 DEF Stops
      <4>4. p \in Live(t, n)
        BY <4>3, <2>2 DEF Live
      <4> QED
        BY <4>3, <4>4, <2>5 DEF Sound, Single
    <3> QED
      BY <3>5, <3>6
  <2> QED
    BY <2>2, <2>3, <2>4, <2>5 DEF NoEntry
<1> QED
  BY <1>8, <1>9

-----------------------------------------------------------------------------
(***************************************************************************)
(* Facts about tables.                                                     *)
(***************************************************************************)

\* The live and the non-empty entries are finitely many, and counted alike.
LEMMA PartsAreFinite ==
    ASSUME NEW n \in Nat, NEW t
    PROVE  /\ IsFiniteSet(Live(t, n)) /\ Cardinality(Live(t, n)) \in Nat
           /\ IsFiniteSet(NonEmpty(t, n)) /\ Cardinality(NonEmpty(t, n)) \in Nat
           /\ Cardinality(Live(t, n)) <= Cardinality(NonEmpty(t, n))
<1>1. IsFiniteSet(0..(n - 1))
  BY FS_Interval
<1>2. NonEmpty(t, n) \in SUBSET (0..(n - 1)) /\ Live(t, n) \in SUBSET NonEmpty(t, n)
  BY DEF NonEmpty, Live
<1>3. IsFiniteSet(NonEmpty(t, n))
  BY <1>1, <1>2, FS_Subset
<1>4. IsFiniteSet(Live(t, n)) /\ Cardinality(Live(t, n)) <= Cardinality(NonEmpty(t, n))
  BY <1>2, <1>3, FS_Subset
<1> QED
  BY <1>3, <1>4, FS_CardinalityType

\* A table with fewer taken entries than entries has an empty one.
LEMMA CountLeavesRoom ==
    ASSUME NEW n \in Nat \ {0}, NEW t, Cardinality(NonEmpty(t, n)) < n
    PROVE  Roomy(t, n)
<1> SUFFICES ASSUME ~ Roomy(t, n) PROVE FALSE
  OBVIOUS
<1>1. NonEmpty(t, n) = 0..(n - 1)
  BY DEF NonEmpty, Roomy
<1>2. Cardinality(0..(n - 1)) = n
  BY FS_Interval
<1> QED
  BY <1>1, <1>2

Stored(t, p, e) == [t EXCEPT ![p] = e]

\* Storing a key where the probe says keeps the table sound.
LEMMA StoreKeepsSound ==
    ASSUME TableTypeOK, NEW n \in Nat \ {0}, NEW t, Sound(t, n), Roomy(t, n),
           NEW e \in Entry, e.state = "live", e.key \in Keys, e.value \in Values,
           NEW p, p = Probe(t, n, e.key), t[p].state # "live",
           NEW u, u = Stored(t, p, e)
    PROVE  /\ Sound(u, n)
           /\ Live(u, n) = Live(t, n) \cup {p}
           /\ NonEmpty(u, n) = NonEmpty(t, n) \cup {p}
<1> DEFINE k == e.key
<1>1. /\ p \in 0..(n - 1)
      /\ Reached(t, n, k, p)
      /\ \A i \in Live(t, n) : t[i].key = k => p = i
  BY ProbeFinds
<1>2. t \in [0..(n - 1) -> Entry]
  BY DEF Sound, Tables
<1>3. u \in [0..(n - 1) -> Entry] /\ u[p] = e
      /\ \A i \in 0..(n - 1) : i # p => u[i] = t[i]
  BY <1>1, <1>2 DEF Stored
<1>4. Live(u, n) = Live(t, n) \cup {p}
  BY <1>1, <1>3 DEF Live
<1>5. NonEmpty(u, n) = NonEmpty(t, n) \cup {p}
  BY <1>1, <1>3 DEF NonEmpty
<1>6. u \in Tables(n)
  <2>1. \A i \in 0..(n - 1) : t[i].state = "live" => t[i].key \in Keys /\ t[i].value \in Values
    BY DEF Sound, Tables
  <2> QED
    BY <1>3, <2>1 DEF Tables
<1>7. \A q \in Keys, i \in 0..(n - 1) : Reached(t, n, q, i) => Reached(u, n, q, i)
  <2> SUFFICES ASSUME NEW q \in Keys, NEW i \in 0..(n - 1), NEW j \in 0..(n - 1),
                      Step(n, q, j) = i,
                      \A m \in 0..(j - 1) : t[Step(n, q, m)].state # "empty"
               PROVE  \A m \in 0..(j - 1) : u[Step(n, q, m)].state # "empty"
    BY DEF Reached
  <2> TAKE m \in 0..(j - 1)
  <2>1. m \in 0..(n - 1)
    OBVIOUS
  <2>2. Step(n, q, m) \in 0..(n - 1)
    BY <2>1, StepInTable
  <2> QED
    BY <2>2, <1>3
<1>8. Placed(u, n)
  <2> SUFFICES ASSUME NEW i \in Live(u, n) PROVE Reached(u, n, u[i].key, i)
    BY DEF Placed
  <2>1. CASE i = p
    BY <2>1, <1>1, <1>3, <1>7
  <2>2. CASE i # p
    <3>1. i \in Live(t, n) /\ i \in 0..(n - 1) /\ u[i] = t[i]
      BY <2>2, <1>3, <1>4 DEF Live
    <3>2. t[i].key \in Keys
      BY <3>1 DEF Sound, Tables, Live
    <3>3. Reached(t, n, t[i].key, i)
      BY <3>1 DEF Sound, Placed
    <3> QED
      BY <3>1, <3>2, <3>3, <1>7
  <2> QED
    BY <2>1, <2>2
<1>9. Single(u, n)
  <2> SUFFICES ASSUME NEW i \in Live(u, n), NEW j \in Live(u, n), u[i].key = u[j].key
               PROVE  i = j
    BY DEF Single
  <2>1. \A a \in Live(u, n) : a # p => a \in Live(t, n) /\ u[a] = t[a]
    BY <1>3, <1>4 DEF Live
  <2>2. CASE i # p /\ j # p
    BY <2>1, <2>2 DEF Sound, Single
  <2>3. CASE i = p /\ j # p
    BY <2>1, <2>3, <1>1, <1>3
  <2>4. CASE i # p /\ j = p
    BY <2>1, <2>4, <1>1, <1>3
  <2> QED
    BY <2>2, <2>3, <2>4
<1> QED
  BY <1>4, <1>5, <1>6, <1>8, <1>9 DEF Sound

\* An empty table is sound and holds nothing.
LEMMA EmptyTableIsSound ==
    ASSUME NEW n \in Nat
    PROVE  /\ Sound(EmptyTable(n), n)
           /\ Live(EmptyTable(n), n) = {}
           /\ NonEmpty(EmptyTable(n), n) = {}
<1> DEFINE t == EmptyTable(n)
<1>1. t \in [0..(n - 1) -> Entry] /\ \A i \in 0..(n - 1) : t[i].state = "empty"
  BY DEF EmptyTable, EmptyEntry, Entry
<1> HIDE DEF t
<1>2. Live(t, n) = {} /\ NonEmpty(t, n) = {}
  BY <1>1 DEF Live, NonEmpty
<1>3. Sound(t, n)
  BY <1>1, <1>2 DEF Sound, Tables, Placed, Single
<1> QED
  BY <1>2, <1>3 DEF t

\* What lookups answer: the value held with the key, or nothing.
LEMMA LookupAnswers ==
    ASSUME TableTypeOK, Sound(entries, capacity), Roomy(entries, capacity), NEW k \in Keys
    PROVE  /\ \A i \in Live(entries, capacity) : entries[i].key = k =>
                 Lookup(k) = entries[i].value /\ Lookup(k) # Absent
           /\ (\A i \in Live(entries, capacity) : entries[i].key # k) => Lookup(k) = Absent
<1>0. capacity \in Nat \ {0}
  BY DEF TableTypeOK
<1> DEFINE p == Probe(entries, capacity, k)
<1>1. /\ p \in 0..(capacity - 1)
      /\ p # NoEntry
      /\ entries[p].state = "live" => entries[p].key = k
      /\ \A i \in Live(entries, capacity) : entries[i].key = k => p = i
  BY <1>0, ProbeFinds
<1>2. Lookup(k) = IF entries[p].state = "live" THEN entries[p].value ELSE Absent
  BY <1>1 DEF Lookup
<1> HIDE DEF p
<1>3. ASSUME NEW i \in Live(entries, capacity), entries[i].key = k
      PROVE  Lookup(k) = entries[i].value /\ Lookup(k) # Absent
  <2>1. p = i /\ entries[i].state = "live" /\ i \in 0..(capacity - 1)
    BY <1>1, <1>3 DEF Live
  <2>2. entries[i].value \in Values
    BY <2>1 DEF Sound, Tables
  <2> QED
    BY <2>1, <2>2, <1>2, MapAssumption
<1>4. ASSUME \A i \in Live(entries, capacity) : entries[i].key # k
      PROVE  Lookup(k) = Absent
  BY <1>1, <1>2, <1>4 DEF Live
<1> QED
  BY <1>3, <1>4

\* Whether a table is sound depends on the table and the hash function alone.
LEMMA SoundNext ==
    ASSUME NEW t, NEW n, Sound(t, n), hash' = hash
    PROVE  /\ entries' = t /\ capacity' = n => Sound(entries, capacity)'
           /\ newEntries' = t /\ NewCapacity' = n => Sound(newEntries, NewCapacity)'
<1>1. ASSUME entries' = t, capacity' = n PROVE Sound(entries, capacity)'
  BY <1>1 DEF Sound, Tables, Placed, Single, Reached, Step, Live
<1>2. ASSUME newEntries' = t, NewCapacity' = n PROVE Sound(newEntries, NewCapacity)'
  BY <1>2 DEF Sound, Tables, Placed, Single, Reached, Step, Live
<1> QED
  BY <1>1, <1>2

\* A resize is as far as the tables it works on.
LEMMA MovingNext ==
    ASSUME NEW u, NEW n, NEW t, NEW c, NEW m,
           hash' = hash, newEntries' = u, NewCapacity' = n, entries' = t, capacity' = c, next' = m,
           m \in 0..c, Sound(u, n), Filled(u, n, t, c, m)
    PROVE  Moving'
<1>1. Sound(newEntries, NewCapacity)'
  BY SoundNext
<1>2. Filled(newEntries, NewCapacity, entries, capacity, next)'
  BY DEF Filled, Live, NonEmpty
<1> QED
  BY <1>1, <1>2 DEF Moving

-----------------------------------------------------------------------------
(***************************************************************************)
(* The invariant.                                                          *)
(***************************************************************************)

\* The table, and the one a resize fills, have an empty entry.
LEMMA TablesHaveRoom ==
    ASSUME TableInv
    PROVE  /\ Roomy(entries, capacity)
           /\ NewCapacity \in Nat \ {0, 1}
           /\ size + 1 < NewCapacity
           /\ pc = "resize" => Roomy(newEntries, NewCapacity)
<1>1. capacity \in Nat \ {0, 1} /\ size \in Nat /\ occupied \in Nat /\ occupied < capacity
  BY DEF TableInv, TableTypeOK, Counted
<1>2. size <= occupied
  BY <1>1, PartsAreFinite DEF TableInv, Counted
<1>3. NewCapacity \in Nat \ {0, 1} /\ size + 1 < NewCapacity
  BY <1>1, <1>2 DEF NewCapacity
<1>4. Roomy(entries, capacity)
  BY <1>1, CountLeavesRoom DEF TableInv, Counted
<1>5. ASSUME pc = "resize" PROVE Roomy(newEntries, NewCapacity)
  <2> DEFINE moved == {i \in Live(entries, capacity) : i < next}
  <2>1. moved \in SUBSET Live(entries, capacity)
    OBVIOUS
  <2>2. Cardinality(moved) <= size
    BY <1>1, <2>1, PartsAreFinite, FS_Subset DEF TableInv, Counted
  <2>3. Cardinality(moved) = Cardinality(NonEmpty(newEntries, NewCapacity))
    BY <1>5 DEF TableInv, Moving, Filled
  <2>4. Cardinality(NonEmpty(newEntries, NewCapacity)) \in Nat
    BY <1>3, PartsAreFinite
  <2>5. Cardinality(NonEmpty(newEntries, NewCapacity)) < NewCapacity
    BY <1>1, <1>3, <2>2, <2>3, <2>4
  <2> QED
    BY <1>3, <2>5, CountLeavesRoom
<1> QED
  BY <1>3, <1>4, <1>5

\* The empty table satisfies the invariant.
LEMMA TableInitInvariant == Init => TableInv
<1> SUFFICES ASSUME Init PROVE TableInv
  OBVIOUS
<1>1. TableTypeOK
  BY MapAssumption DEF Init, TableTypeOK
<1>2. InitialCapacity \in Nat \ {0, 1}
  BY MapAssumption
<1>3. entries = EmptyTable(InitialCapacity) /\ capacity = InitialCapacity
  BY DEF Init
<1>4. Sound(entries, capacity) /\ Live(entries, capacity) = {} /\ NonEmpty(entries, capacity) = {}
  BY <1>2, <1>3, EmptyTableIsSound
<1>5. Counted
  BY <1>2, <1>3, <1>4, FS_EmptySet DEF Init, Counted
<1>6. Moving
  BY DEF Init, Moving
<1> QED
  BY <1>1, <1>4, <1>5, <1>6 DEF TableInv

\* Storing keeps the table sound and its counters right.
LEMMA StoreStep ==
    ASSUME TableInv, NEW k \in Keys, NEW v \in Values, Store(k, v),
           hash' = hash, capacity' = capacity, occupied + 1 < capacity,
           pc' = "idle"
    PROVE  TableInv'
<1>1. capacity \in Nat \ {0, 1} /\ size \in Nat /\ occupied \in Nat /\ hash \in [Keys -> Nat]
  BY DEF TableInv, TableTypeOK
<1>2. Roomy(entries, capacity) /\ Sound(entries, capacity) /\ TableTypeOK
  BY TablesHaveRoom DEF TableInv
<1> DEFINE p == Probe(entries, capacity, k)
           e == [state |-> "live", key |-> k, value |-> v]
<1>3. p \in 0..(capacity - 1)
  BY <1>1, <1>2, ProbeFinds
<1>4. Moving'
  BY DEF Moving
<1>5. answer' \in BOOLEAN
  BY DEF Store
<1>6. CASE entries[p].state = "live"
  <2>1. entries' = entries /\ size' = size /\ occupied' = occupied
    BY <1>6 DEF Store
  <2>2. TableTypeOK'
    BY <1>1, <1>5, <2>1 DEF TableTypeOK
  <2>3. Sound(entries, capacity)'
    BY <1>2, <2>1, SoundNext
  <2>4. Counted'
    BY <2>1, <1>1 DEF TableInv, Counted, Live, NonEmpty
  <2> QED
    BY <2>2, <2>3, <2>4, <1>4 DEF TableInv
<1>7. CASE entries[p].state # "live"
  <2>1. /\ entries' = [entries EXCEPT ![p] = e]
        /\ occupied' = IF entries[p].state = "empty" THEN occupied + 1 ELSE occupied
        /\ size' = size + 1
    BY <1>7 DEF Store
  <2>2. e \in Entry /\ e.state = "live" /\ e.key = k /\ e.value \in Values
    BY DEF Entry
  <2> HIDE DEF e
  <2>3. PICK u : u = entries'
    OBVIOUS
  <2>4. /\ Sound(u, capacity)
        /\ Live(u, capacity) = Live(entries, capacity) \cup {p}
        /\ NonEmpty(u, capacity) = NonEmpty(entries, capacity) \cup {p}
    <3> HIDE DEF p
    <3>1. p = Probe(entries, capacity, e.key)
      BY <2>2 DEF p
    <3>2. e.key \in Keys /\ capacity \in Nat \ {0}
      BY <1>1, <2>2
    <3>3. u = Stored(entries, p, e)
      BY <2>1, <2>3 DEF Stored
    <3> QED
      BY <1>2, <1>7, <2>2, <3>1, <3>2, <3>3, StoreKeepsSound
  <2>5. Sound(entries, capacity)'
    BY <2>3, <2>4, SoundNext
  <2>6. TableTypeOK'
    BY <1>1, <1>5, <2>1 DEF TableTypeOK
  <2>7. /\ p \notin Live(entries, capacity)
        /\ p \in NonEmpty(entries, capacity) <=> entries[p].state # "empty"
    BY <1>3, <1>7 DEF Live, NonEmpty
  <2>8. Cardinality(Live(u, capacity)) = size + 1
    BY <1>1, <2>4, <2>7, PartsAreFinite, FS_AddElement DEF TableInv, Counted
  <2>9. Cardinality(NonEmpty(u, capacity)) = occupied'
    BY <1>1, <2>1, <2>4, <2>7, PartsAreFinite, FS_AddElement DEF TableInv, Counted
  <2>10. Live(entries, capacity)' = Live(u, capacity)
         /\ NonEmpty(entries, capacity)' = NonEmpty(u, capacity)
    BY <2>3 DEF Live, NonEmpty
  <2>11. Counted'
    BY <1>1, <2>1, <2>8, <2>9, <2>10 DEF TableInv, Counted
  <2> QED
    BY <1>4, <2>5, <2>6, <2>11 DEF TableInv
<1> QED
  BY <1>6, <1>7

\* An insert into a table with room keeps it.
LEMMA InsertInvariant == TableInv /\ Insert => TableInv'
<1> SUFFICES ASSUME TableInv, Insert PROVE TableInv'
  OBVIOUS
<1>1. PICK k \in Keys, v \in Values : Store(k, v)
  BY DEF Insert
<1>2. hash' = hash /\ capacity' = capacity /\ pc' = "idle" /\ ~ Full
  BY DEF Insert, resizeVars
<1>3. occupied + 1 < capacity
  BY <1>2 DEF TableInv, TableTypeOK, Full
<1> QED
  BY <1>1, <1>2, <1>3, StoreStep

\* So does the insert a resize was made for.
LEMMA InsertResizedInvariant == TableInv /\ InsertResized => TableInv'
<1> SUFFICES ASSUME TableInv, InsertResized PROVE TableInv'
  OBVIOUS
<1>1. call \in [key : Keys, value : Values] /\ occupied + 1 < capacity
  BY DEF InsertResized, TableInv, TableTypeOK, Counted
<1>2. hash' = hash /\ capacity' = capacity /\ pc' = "idle" /\ Store(call.key, call.value)
  BY DEF InsertResized
<1>3. call.key \in Keys /\ call.value \in Values
  BY <1>1
<1> QED
  BY <1>1, <1>2, <1>3, StoreStep

\* A step that leaves the table alone leaves its invariant alone.
LEMMA TableUnchanged ==
    ASSUME TableInv, UNCHANGED <<entries, capacity, size, occupied, hash, answer>>
    PROVE  /\ Sound(entries, capacity)'
           /\ Live(entries, capacity)' = Live(entries, capacity)
           /\ NonEmpty(entries, capacity)' = NonEmpty(entries, capacity)
           /\ NewCapacity' = NewCapacity
<1>1. Sound(entries, capacity)'
  BY SoundNext DEF TableInv
<1> QED
  BY <1>1 DEF Live, NonEmpty, NewCapacity

\* A resize starts on a table that holds nothing, as the entries before the first do.
LEMMA BeginResizeInvariant == TableInv /\ BeginResize => TableInv'
<1> SUFFICES ASSUME TableInv, BeginResize PROVE TableInv'
  OBVIOUS
<1>1. /\ UNCHANGED <<entries, capacity, size, occupied, hash, answer>>
      /\ pc' = "resize" /\ next' = 0
      /\ call' \in [key : Keys, value : Values]
      /\ newEntries' = EmptyTable(NewCapacity)
  BY DEF BeginResize
<1>2. TableTypeOK' /\ Counted'
  <2>1. TableTypeOK'
    BY <1>1 DEF TableInv, TableTypeOK
  <2>2. Counted'
    BY <1>1, TableUnchanged DEF TableInv, Counted
  <2> QED
    BY <2>1, <2>2
<1>3. NewCapacity \in Nat /\ capacity \in Nat
  BY TablesHaveRoom DEF TableInv, TableTypeOK
<1>4. /\ Sound(EmptyTable(NewCapacity), NewCapacity)
      /\ Live(EmptyTable(NewCapacity), NewCapacity) = {}
      /\ NonEmpty(EmptyTable(NewCapacity), NewCapacity) = {}
  BY <1>3, EmptyTableIsSound
<1>5. PICK u : u = newEntries'
  OBVIOUS
<1>6. PICK n : n = NewCapacity
  OBVIOUS
<1>7. Sound(u, n) /\ Live(u, n) = {} /\ NonEmpty(u, n) = {} /\ NewCapacity' = n
  BY <1>1, <1>4, <1>5, <1>6, TableUnchanged
<1>8. PICK t, c : t = entries /\ c = capacity
  OBVIOUS
<1>9. {i \in Live(t, c) : i < 0} = {}
  BY <1>8, <1>3 DEF Live
<1>10. Filled(u, n, t, c, 0)
  BY <1>7, <1>9 DEF Filled
<1>11. Moving'
  BY <1>1, <1>3, <1>5, <1>7, <1>8, <1>10, MovingNext
<1> QED
  BY <1>1, <1>2, <1>11, TableUnchanged DEF TableInv

\* A round of a resize adds the next live entry to the table it fills.
LEMMA MoveEntryInvariant == TableInv /\ MoveEntry => TableInv'
<1> SUFFICES ASSUME TableInv, MoveEntry PROVE TableInv'
  OBVIOUS
<1> DEFINE n == NewCapacity
           e == entries[next]
           Before(m) == {i \in Live(entries, capacity) : i < m}
<1>1. /\ UNCHANGED <<entries, capacity, size, occupied, hash, answer>>
      /\ pc = "resize" /\ pc' = "resize" /\ call' = call
      /\ next < capacity /\ next' = next + 1
  BY DEF MoveEntry
<1>2. TableTypeOK' /\ Counted'
  <2>1. TableTypeOK'
    BY <1>1 DEF TableInv, TableTypeOK
  <2>2. Counted'
    BY <1>1, TableUnchanged DEF TableInv, Counted
  <2> QED
    BY <2>1, <2>2
<1>3. /\ n \in Nat \ {0, 1} /\ Roomy(newEntries, n)
      /\ capacity \in Nat /\ next \in 0..(capacity - 1)
  BY <1>1, TablesHaveRoom DEF TableInv, TableTypeOK, Moving
<1>4. /\ Sound(newEntries, n)
      /\ NonEmpty(newEntries, n) = Live(newEntries, n)
      /\ Cardinality(Live(newEntries, n)) = Cardinality(Before(next))
      /\ \A i \in Before(next) : \E j \in Live(newEntries, n) : newEntries[j] = entries[i]
      /\ \A j \in Live(newEntries, n) : \E i \in Before(next) : newEntries[j] = entries[i]
  BY <1>1 DEF TableInv, Moving, Filled
<1>5. Before(next + 1) = IF e.state = "live" THEN Before(next) \cup {next} ELSE Before(next)
  BY <1>3 DEF Live
<1>6. PICK u : u = newEntries'
  OBVIOUS
<1>7. /\ Sound(u, n)
      /\ NonEmpty(u, n) = Live(u, n)
      /\ Cardinality(Live(u, n)) = Cardinality(Before(next + 1))
      /\ \A i \in Before(next + 1) : \E j \in Live(u, n) : u[j] = entries[i]
      /\ \A j \in Live(u, n) : \E i \in Before(next + 1) : u[j] = entries[i]
  <2>1. CASE e.state # "live"
    <3>1. u = newEntries
      BY <2>1, <1>6 DEF MoveEntry
    <3> QED
      BY <3>1, <2>1, <1>4, <1>5
  <2>2. CASE e.state = "live"
    <3>1. entries \in [0..(capacity - 1) -> Entry] /\ e \in Entry
          /\ e.key \in Keys /\ e.value \in Values /\ next \in Live(entries, capacity)
      BY <2>2, <1>3 DEF TableInv, Sound, Tables, Live
    <3> DEFINE p == Probe(newEntries, n, e.key)
    <3>2. u = Stored(newEntries, p, e)
      BY <2>2, <1>6 DEF MoveEntry, Stored
    <3>3. TableTypeOK
      BY DEF TableInv
    <3> HIDE DEF n
    <3>4. p \in 0..(n - 1) /\ (newEntries[p].state = "live" => newEntries[p].key = e.key)
      BY <1>3, <1>4, <3>1, <3>3, ProbeFinds
    <3> HIDE DEF e
    <3>5. newEntries[p].state # "live"
      <4> SUFFICES ASSUME newEntries[p].state = "live" PROVE FALSE
        OBVIOUS
      <4>1. p \in Live(newEntries, n)
        BY <3>4 DEF Live
      <4>2. PICK i \in Before(next) : newEntries[p] = entries[i]
        BY <4>1, <1>4
      <4>3. i \in Live(entries, capacity) /\ i # next /\ entries[i].key = entries[next].key
        BY <4>2, <3>4, <1>3 DEF e, Live
      <4> QED
        BY <4>3, <3>1 DEF TableInv, Sound, Single
    <3>6. /\ Sound(u, n)
          /\ Live(u, n) = Live(newEntries, n) \cup {p}
          /\ NonEmpty(u, n) = NonEmpty(newEntries, n) \cup {p}
      BY <1>3, <1>4, <2>2, <3>1, <3>2, <3>3, <3>5, StoreKeepsSound
    <3> HIDE DEF p
    <3>7. newEntries \in [0..(n - 1) -> Entry]
      BY <1>4 DEF Sound, Tables
    <3>8. u[p] = e /\ \A j \in Live(newEntries, n) : u[j] = newEntries[j]
      BY <3>2, <3>4, <3>5, <3>7 DEF Stored, Live
    <3>9. Cardinality(Live(u, n)) = Cardinality(Live(newEntries, n)) + 1
      <4>1. p \notin Live(newEntries, n)
        BY <3>5 DEF Live
      <4>2. IsFiniteSet(Live(newEntries, n))
        BY <1>3, PartsAreFinite
      <4> QED
        BY <3>6, <4>1, <4>2, FS_AddElement
    <3>10. Cardinality(Before(next + 1)) = Cardinality(Before(next)) + 1
      <4>1. IsFiniteSet(Before(next))
        BY <1>3, PartsAreFinite, FS_Subset
      <4>2. next \notin Before(next)
        BY <1>3
      <4> QED
        BY <1>5, <2>2, <4>1, <4>2, FS_AddElement DEF e
    <3>11. \A i \in Before(next + 1) : \E j \in Live(u, n) : u[j] = entries[i]
      <4> SUFFICES ASSUME NEW i \in Before(next + 1)
                   PROVE  \E j \in Live(u, n) : u[j] = entries[i]
        OBVIOUS
      <4>1. CASE i = next
        BY <4>1, <3>6, <3>8 DEF e
      <4>2. CASE i # next
        <5>1. i \in Before(next)
          BY <4>2, <1>5
        <5> HIDE DEF Before
        <5> QED
          BY <5>1, <1>4, <3>6, <3>8
      <4> QED
        BY <4>1, <4>2
    <3>12. \A j \in Live(u, n) : \E i \in Before(next + 1) : u[j] = entries[i]
      <4>1. next \in Before(next + 1) /\ \A i \in Before(next) : i \in Before(next + 1)
        BY <1>3, <3>1
      <4> HIDE DEF Before
      <4> SUFFICES ASSUME NEW j \in Live(u, n)
                   PROVE  \E i \in Before(next + 1) : u[j] = entries[i]
        OBVIOUS
      <4>2. CASE j = p
        BY <4>1, <4>2, <3>8 DEF e
      <4>3. CASE j # p
        <5>1. j \in Live(newEntries, n)
          BY <4>3, <3>6
        <5>2. PICK i \in Before(next) : newEntries[j] = entries[i]
          BY <5>1, <1>4
        <5> QED
          BY <4>1, <5>1, <5>2, <3>8
      <4> QED
        BY <4>2, <4>3
    <3> HIDE DEF Before
    <3> QED
      BY <1>4, <3>6, <3>9, <3>10, <3>11, <3>12
  <2> QED
    BY <2>1, <2>2
<1>8. PICK t, c, m : t = entries /\ c = capacity /\ m = next + 1
  OBVIOUS
<1>9. Filled(u, n, t, c, m)
  BY <1>7, <1>8 DEF Filled
<1>10. NewCapacity' = n /\ m \in 0..c
  BY <1>1, <1>3, <1>8, TableUnchanged
<1>11. Moving'
  <2>1. Sound(u, n)
    BY <1>7
  <2> HIDE DEF n
  <2> QED
    BY <1>1, <1>6, <1>8, <1>9, <1>10, <2>1, MovingNext
<1> QED
  BY <1>1, <1>2, <1>11, TableUnchanged DEF TableInv

\* The filled table takes the old one's place, with nothing in it but live entries.
LEMMA EndResizeInvariant == TableInv /\ EndResize => TableInv'
<1> SUFFICES ASSUME TableInv, EndResize PROVE TableInv'
  OBVIOUS
<1> DEFINE n == NewCapacity
<1>1. /\ pc = "resize" /\ next = capacity
      /\ entries' = newEntries /\ capacity' = n /\ occupied' = size
      /\ pc' = "store" /\ UNCHANGED <<size, call, hash, answer>>
  BY DEF EndResize
<1>2. n \in Nat \ {0, 1} /\ size + 1 < n /\ size \in Nat
  BY TablesHaveRoom DEF TableInv, TableTypeOK
<1> HIDE DEF n
<1>3. TableTypeOK'
  BY <1>1, <1>2 DEF TableInv, TableTypeOK
<1>4. Sound(newEntries, n) /\ NonEmpty(newEntries, n) = Live(newEntries, n)
  BY <1>1 DEF TableInv, Moving, Filled, n
<1>5. Sound(entries, capacity)'
  BY <1>1, <1>4, SoundNext
<1>6. {i \in Live(entries, capacity) : i < next} = Live(entries, capacity)
  BY <1>1 DEF TableInv, TableTypeOK, Live
<1>7. Cardinality(Live(newEntries, n)) = size
  BY <1>1, <1>6 DEF TableInv, Moving, Filled, Counted, n
<1>8. Live(entries, capacity)' = Live(newEntries, n)
      /\ NonEmpty(entries, capacity)' = NonEmpty(newEntries, n)
  BY <1>1 DEF Live, NonEmpty
<1>9. Counted'
  BY <1>1, <1>2, <1>4, <1>7, <1>8 DEF Counted
<1> QED
  BY <1>1, <1>3, <1>5, <1>9 DEF TableInv, Moving

\* A tombstone cuts no walk: the other keys stay where they are found.
LEMMA TombstoneKeepsSound ==
    ASSUME TableTypeOK, NEW n \in Nat \ {0}, NEW t, Sound(t, n), NEW p \in Live(t, n),
           NEW u, u = Stored(t, p, [t[p] EXCEPT !.state = "dead"])
    PROVE  /\ Sound(u, n)
           /\ Live(u, n) = Live(t, n) \ {p}
           /\ NonEmpty(u, n) = NonEmpty(t, n)
           /\ \A i \in Live(u, n) : u[i] = t[i]
<1>1. t \in [0..(n - 1) -> Entry] /\ p \in 0..(n - 1) /\ t[p].state = "live"
  BY DEF Sound, Tables, Live
<1>2. u \in [0..(n - 1) -> Entry] /\ u[p].state = "dead"
      /\ \A i \in 0..(n - 1) : i # p => u[i] = t[i]
  BY <1>1 DEF Stored, Entry
<1>3. Live(u, n) = Live(t, n) \ {p} /\ NonEmpty(u, n) = NonEmpty(t, n)
  BY <1>1, <1>2 DEF Live, NonEmpty
<1>4. \A i \in Live(u, n) : i \in Live(t, n) /\ u[i] = t[i]
  BY <1>2, <1>3 DEF Live
<1>5. u \in Tables(n)
  <2>1. \A i \in 0..(n - 1) : t[i].state = "live" => t[i].key \in Keys /\ t[i].value \in Values
    BY DEF Sound, Tables
  <2> QED
    BY <1>2, <2>1 DEF Tables
<1>6. Placed(u, n)
  <2> SUFFICES ASSUME NEW i \in Live(u, n) PROVE Reached(u, n, u[i].key, i)
    BY DEF Placed
  <2> DEFINE k == t[i].key
  <2>1. i \in Live(t, n) /\ u[i] = t[i]
    BY <1>4
  <2>2. k \in Keys
    BY <2>1 DEF Sound, Tables, Live
  <2>3. PICK j \in 0..(n - 1) : /\ Step(n, k, j) = i
                                /\ \A m \in 0..(j - 1) : t[Step(n, k, m)].state # "empty"
    BY <2>1 DEF Sound, Placed, Reached
  <2> HIDE DEF k
  <2>4. \A m \in 0..(j - 1) : u[Step(n, k, m)].state # "empty"
    <3> TAKE m \in 0..(j - 1)
    <3>1. m \in 0..(n - 1)
      OBVIOUS
    <3>2. Step(n, k, m) \in 0..(n - 1)
      BY <3>1, <2>2, StepInTable
    <3> QED
      BY <3>2, <2>3, <1>2
  <2> QED
    BY <2>1, <2>3, <2>4 DEF Reached, k
<1>7. Single(u, n)
  BY <1>4 DEF Sound, Single
<1> QED
  BY <1>3, <1>4, <1>5, <1>6, <1>7 DEF Sound

\* A delete keeps the invariant: what was live is a tombstone.
LEMMA DeleteInvariant == TableInv /\ Delete => TableInv'
<1> SUFFICES ASSUME TableInv, Delete PROVE TableInv'
  OBVIOUS
<1>1. PICK k \in Keys :
        LET i == Probe(entries, capacity, k)
        IN /\ answer' = (size # 0 /\ entries[i].state = "live")
           /\ IF size = 0 \/ entries[i].state # "live" THEN UNCHANGED <<entries, size>>
              ELSE entries' = [entries EXCEPT ![i].state = "dead"] /\ size' = size - 1
  BY DEF Delete
<1>2. UNCHANGED <<capacity, occupied, pc, hash>> /\ pc = "idle"
  BY DEF Delete, resizeVars
<1> DEFINE p == Probe(entries, capacity, k)
<1>3. /\ capacity \in Nat \ {0, 1} /\ size \in Nat /\ occupied \in Nat
      /\ Sound(entries, capacity) /\ TableTypeOK /\ Roomy(entries, capacity)
  BY TablesHaveRoom DEF TableInv, TableTypeOK
<1>4. p \in 0..(capacity - 1)
  BY <1>3, ProbeFinds
<1>5. Moving' /\ answer' \in BOOLEAN
  BY <1>1, <1>2 DEF Moving
<1>6. CASE size = 0 \/ entries[p].state # "live"
  <2>1. entries' = entries /\ size' = size
    BY <1>1, <1>6
  <2>2. TableTypeOK'
    BY <1>2, <1>3, <1>5, <2>1 DEF TableTypeOK
  <2>3. Sound(entries, capacity)'
    BY <1>2, <1>3, <2>1, SoundNext
  <2>4. Counted'
    BY <1>2, <2>1 DEF TableInv, Counted, Live, NonEmpty
  <2> QED
    BY <2>2, <2>3, <2>4, <1>5 DEF TableInv
<1>7. CASE ~ (size = 0 \/ entries[p].state # "live")
  <2>1. entries' = [entries EXCEPT ![p].state = "dead"] /\ size' = size - 1 /\ size' \in Nat
    BY <1>1, <1>3, <1>7
  <2>2. p \in Live(entries, capacity)
    BY <1>4, <1>7 DEF Live
  <2> HIDE DEF p
  <2>3. PICK u : u = entries'
    OBVIOUS
  <2>4. u = Stored(entries, p, [entries[p] EXCEPT !.state = "dead"])
    BY <2>1, <2>3 DEF Stored
  <2>5. capacity \in Nat \ {0}
    BY <1>3
  <2>6. /\ Sound(u, capacity)
        /\ Live(u, capacity) = Live(entries, capacity) \ {p}
        /\ NonEmpty(u, capacity) = NonEmpty(entries, capacity)
    BY <1>3, <2>2, <2>4, <2>5, TombstoneKeepsSound
  <2>7. Sound(entries, capacity)'
    BY <1>2, <2>3, <2>6, SoundNext
  <2>8. Live(entries, capacity)' = Live(u, capacity)
        /\ NonEmpty(entries, capacity)' = NonEmpty(u, capacity)
    BY <1>2, <2>3 DEF Live, NonEmpty
  <2>9. Cardinality(Live(u, capacity)) = size - 1
    BY <1>3, <2>2, <2>6, PartsAreFinite, FS_RemoveElement DEF TableInv, Counted
  <2>10. Counted'
    BY <1>2, <2>1, <2>6, <2>8, <2>9 DEF TableInv, Counted
  <2>11. TableTypeOK'
    BY <1>2, <1>3, <1>5, <2>1 DEF TableTypeOK
  <2> QED
    BY <1>5, <2>7, <2>10, <2>11 DEF TableInv
<1> QED
  BY <1>6, <1>7

\* The invariant depends on the variables alone.
LEMMA TableStutterInvariant == TableInv /\ UNCHANGED vars => TableInv'
<1> SUFFICES ASSUME TableInv, UNCHANGED vars PROVE TableInv'
  OBVIOUS
<1>1. UNCHANGED <<entries, capacity, size, occupied, hash, answer>>
      /\ UNCHANGED <<pc, call, newEntries, next>>
  BY DEF vars, resizeVars
<1>2. TableTypeOK' /\ Counted' /\ Sound(entries, capacity)'
  <2>1. TableTypeOK'
    BY <1>1 DEF TableInv, TableTypeOK
  <2>2. Counted'
    BY <1>1, TableUnchanged DEF TableInv, Counted
  <2> QED
    BY <1>1, <2>1, <2>2, TableUnchanged
<1>3. Moving'
  <2>1. CASE pc = "resize"
    <3>1. PICK u, n, t, c, m : /\ u = newEntries /\ n = NewCapacity /\ t = entries
                               /\ c = capacity /\ m = next
      OBVIOUS
    <3>2. m \in 0..c /\ Sound(u, n) /\ Filled(u, n, t, c, m)
      BY <2>1, <3>1 DEF TableInv, Moving
    <3>3. NewCapacity' = n
      BY <1>1, <3>1, TableUnchanged
    <3> QED
      BY <1>1, <3>1, <3>2, <3>3, MovingNext
  <2>2. CASE pc # "resize"
    BY <2>2, <1>1 DEF Moving
  <2> QED
    BY <2>1, <2>2
<1> QED
  BY <1>2, <1>3 DEF TableInv

\* The invariant holds in every state.
LEMMA TableInvariant == Spec => []TableInv
<1>1. TableInv /\ [Next]_vars => TableInv'
  BY InsertInvariant, BeginResizeInvariant, MoveEntryInvariant, EndResizeInvariant,
     InsertResizedInvariant, DeleteInvariant, TableStutterInvariant DEF Next
<1> QED
  BY <1>1, TableInitInvariant, PTL DEF Spec

(***************************************************************************)
(* No probe of any table, of any size and over any history, walks for      *)
(* ever: neither _lookup, _insert or _delete on the table nor _resize on   *)
(* the one it fills.                                                       *)
(***************************************************************************)
THEOREM ProbesAlwaysEnd == Spec => []ProbesEnd
<1>1. TableInv => ProbesEnd
  <2> SUFFICES ASSUME TableInv, NEW k \in Keys
               PROVE  /\ Probe(entries, capacity, k) # NoEntry
                      /\ pc = "resize" => Probe(newEntries, NewCapacity, k) # NoEntry
    BY DEF ProbesEnd
  <2>1. /\ capacity \in Nat \ {0} /\ NewCapacity \in Nat \ {0}
        /\ TableTypeOK /\ Sound(entries, capacity) /\ Roomy(entries, capacity)
        /\ pc = "resize" => Sound(newEntries, NewCapacity) /\ Roomy(newEntries, NewCapacity)
    BY TablesHaveRoom DEF TableInv, TableTypeOK, Moving
  <2> QED
    BY <2>1, ProbeFinds
<1> QED
  BY <1>1, TableInvariant, PTL

(***************************************************************************)
(* The counters that decide when and how far the table grows are right in  *)
(* every state, also after a rebuild.                                      *)
(***************************************************************************)
THEOREM CountersAreRight == Spec => []CountersAgree
<1>1. TableInv => CountersAgree
  <2> SUFFICES ASSUME TableInv PROVE CountersAgree
    OBVIOUS
  <2>1. DOMAIN entries = 0..(capacity - 1)
    BY DEF TableInv, Sound, Tables
  <2> QED
    BY <2>1 DEF TableInv, Counted, CountersAgree, Live, NonEmpty
<1> QED
  BY <1>1, TableInvariant, PTL

-----------------------------------------------------------------------------
(***************************************************************************)
(* The table implements FiniteMap: each step changes what lookups answer   *)
(* as an abstract step does, or not at all.                                *)
(***************************************************************************)

\* What lookups answer, in terms of the live entries.
Answers ==
    \A k \in Keys :
        /\ \A i \in Live(entries, capacity) : entries[i].key = k =>
              Lookup(k) = entries[i].value /\ Lookup(k) # Absent
        /\ (\A i \in Live(entries, capacity) : entries[i].key # k) => Lookup(k) = Absent

\* The invariant tells what lookups answer.
LEMMA InvariantAnswers == TableInv => Answers
<1> SUFFICES ASSUME TableInv PROVE Answers
  OBVIOUS
<1>1. TableTypeOK /\ Sound(entries, capacity) /\ Roomy(entries, capacity)
  BY TablesHaveRoom DEF TableInv
<1> QED
  BY <1>1, LookupAnswers DEF Answers

\* A key whose entry is carried over, or that is nowhere before and after, answers the same.
LEMMA AnswerStays ==
    ASSUME Answers, Answers', NEW k \in Keys,
           \A i \in Live(entries, capacity) : entries[i].key = k =>
              \E j \in Live(entries, capacity)' : entries'[j] = entries[i],
           \A j \in Live(entries, capacity)' : entries'[j].key = k =>
              \E i \in Live(entries, capacity) : entries[i].key = k
    PROVE  Lookup(k)' = Lookup(k)
<1>1. CASE \E i \in Live(entries, capacity) : entries[i].key = k
  <2>1. PICK i \in Live(entries, capacity) : entries[i].key = k
    BY <1>1
  <2>2. PICK j \in Live(entries, capacity)' : entries'[j] = entries[i]
    BY <2>1
  <2>3. Lookup(k) = entries[i].value
    BY <2>1 DEF Answers
  <2>4. Lookup(k)' = entries'[j].value
    BY <2>1, <2>2 DEF Answers
  <2> QED
    BY <2>2, <2>3, <2>4
<1>2. CASE ~ \E i \in Live(entries, capacity) : entries[i].key = k
  <2>1. Lookup(k) = Absent
    BY <1>2 DEF Answers
  <2>2. Lookup(k)' = Absent
    BY <1>2 DEF Answers
  <2> QED
    BY <2>1, <2>2
<1> QED
  BY <1>1, <1>2

\* A step that leaves the entries alone leaves every answer alone.
LEMMA AnswersStay ==
    ASSUME Answers, Answers', entries' = entries, capacity' = capacity
    PROVE  \A k \in Keys : Lookup(k)' = Lookup(k)
<1>1. Live(entries, capacity)' = Live(entries, capacity)
  BY DEF Live
<1> QED
  BY <1>1, AnswerStays

\* _insert adds a key that no lookup finds, and leaves one that is there alone.
LEMMA StoreRefines ==
    ASSUME TableInv, Answers, Answers', NEW k \in Keys, NEW v \in Values, Store(k, v),
           capacity' = capacity
    PROVE  /\ answer' = (Lookup(k) = Absent)
           /\ \A q \in Keys : Lookup(q)' = IF q = k /\ Lookup(k) = Absent THEN v ELSE Lookup(q)
<1> DEFINE p == Probe(entries, capacity, k)
           e == [state |-> "live", key |-> k, value |-> v]
<1>1. /\ capacity \in Nat \ {0} /\ entries \in [0..(capacity - 1) -> Entry]
      /\ TableTypeOK /\ Sound(entries, capacity) /\ Roomy(entries, capacity)
  BY TablesHaveRoom DEF TableInv, TableTypeOK, Sound, Tables
<1>2. /\ p \in 0..(capacity - 1)
      /\ entries[p].state = "live" => entries[p].key = k
      /\ \A i \in Live(entries, capacity) : entries[i].key = k => p = i
  BY <1>1, ProbeFinds
<1>3. CASE entries[p].state = "live"
  <2>1. entries' = entries /\ answer' = FALSE
    BY <1>3 DEF Store
  <2>2. p \in Live(entries, capacity)
    BY <1>2, <1>3 DEF Live
  <2>3. Lookup(k) # Absent
    BY <1>2, <1>3, <2>2 DEF Answers
  <2> QED
    BY <2>1, <2>3, AnswersStay
<1>4. CASE entries[p].state # "live"
  <2>1. entries' = [entries EXCEPT ![p] = e] /\ answer' = TRUE
    BY <1>4 DEF Store
  <2> HIDE DEF p
  <2>2. /\ entries'[p] = e
        /\ \A i \in 0..(capacity - 1) : i # p => entries'[i] = entries[i]
    BY <1>1, <1>2, <2>1
  <2>3. Live(entries, capacity)' = Live(entries, capacity) \cup {p}
    BY <1>2, <2>2 DEF Live
  <2>4. \A i \in Live(entries, capacity) : i # p /\ entries'[i] = entries[i]
    BY <1>4, <2>2 DEF Live
  <2>5. Lookup(k) = Absent
    BY <1>2, <2>4 DEF Answers
  <2>6. Lookup(k)' = v
    <3>1. p \in Live(entries, capacity)' /\ entries'[p].key = k /\ entries'[p].value = v
      BY <2>2, <2>3
    <3> QED
      BY <3>1 DEF Answers
  <2>7. ASSUME NEW q \in Keys, q # k PROVE Lookup(q)' = Lookup(q)
    <3>1. \A i \in Live(entries, capacity) : \E j \in Live(entries, capacity)' :
              entries'[j] = entries[i]
      BY <2>3, <2>4
    <3>2. \A j \in Live(entries, capacity)' : entries'[j].key = q =>
              j \in Live(entries, capacity) /\ entries[j].key = q
      BY <2>2, <2>3, <2>4, <2>7
    <3> QED
      BY <3>1, <3>2, AnswerStays
  <2> QED
    BY <2>1, <2>5, <2>6, <2>7
<1> QED
  BY <1>3, <1>4

\* _delete removes the key it is given and no other.
LEMMA DeleteRefines ==
    ASSUME TableInv, Answers, Answers', Delete
    PROVE  \E k \in Keys :
              /\ answer' = (Lookup(k) # Absent)
              /\ \A q \in Keys : Lookup(q)' = IF q = k THEN Absent ELSE Lookup(q)
<1>1. PICK k \in Keys :
        LET i == Probe(entries, capacity, k)
        IN /\ answer' = (size # 0 /\ entries[i].state = "live")
           /\ IF size = 0 \/ entries[i].state # "live" THEN UNCHANGED <<entries, size>>
              ELSE entries' = [entries EXCEPT ![i].state = "dead"] /\ size' = size - 1
  BY DEF Delete
<1> DEFINE p == Probe(entries, capacity, k)
<1>2. /\ capacity \in Nat \ {0} /\ entries \in [0..(capacity - 1) -> Entry]
      /\ TableTypeOK /\ Sound(entries, capacity) /\ Roomy(entries, capacity) /\ capacity' = capacity
  BY TablesHaveRoom DEF TableInv, TableTypeOK, Sound, Tables, Delete
<1>3. /\ p \in 0..(capacity - 1)
      /\ entries[p].state = "live" => entries[p].key = k
      /\ \A i \in Live(entries, capacity) : entries[i].key = k => p = i
  BY <1>2, ProbeFinds
<1>4. CASE size = 0 \/ entries[p].state # "live"
  <2>1. entries' = entries /\ answer' = FALSE
    BY <1>1, <1>4
  <2>2. \A i \in Live(entries, capacity) : entries[i].key # k
    <3>1. CASE size = 0
      <4>1. Live(entries, capacity) = {}
        BY <3>1, <1>2, PartsAreFinite, FS_EmptySet DEF TableInv, Counted
      <4> QED
        BY <4>1
    <3>2. CASE entries[p].state # "live"
      BY <3>2, <1>3 DEF Live
    <3> QED
      BY <1>4, <3>1, <3>2
  <2>3. Lookup(k) = Absent
    BY <2>2 DEF Answers
  <2>4. \A q \in Keys : Lookup(q)' = Lookup(q)
    BY <1>2, <2>1, AnswersStay
  <2> QED
    BY <2>1, <2>3, <2>4
<1>5. CASE ~ (size = 0 \/ entries[p].state # "live")
  <2>1. entries' = [entries EXCEPT ![p].state = "dead"] /\ answer' = TRUE
    BY <1>1, <1>5
  <2>2. p \in Live(entries, capacity) /\ entries[p].key = k
    BY <1>3, <1>5 DEF Live
  <2> HIDE DEF p
  <2>3. /\ entries'[p].state = "dead"
        /\ \A i \in 0..(capacity - 1) : i # p => entries'[i] = entries[i]
    BY <1>2, <1>3, <2>1 DEF Entry
  <2>4. Live(entries, capacity)' = Live(entries, capacity) \ {p}
    BY <1>2, <1>3, <2>3 DEF Live
  <2>5. \A i \in Live(entries, capacity) : i # p => entries'[i] = entries[i]
    BY <2>3 DEF Live
  <2>6. Lookup(k) # Absent
    BY <2>2 DEF Answers
  <2>7. Lookup(k)' = Absent
    <3>1. \A i \in Live(entries, capacity)' : entries'[i].key # k
      BY <1>3, <2>4, <2>5
    <3> QED
      BY <3>1 DEF Answers
  <2>8. ASSUME NEW q \in Keys, q # k PROVE Lookup(q)' = Lookup(q)
    <3>1. \A i \in Live(entries, capacity) : entries[i].key = q =>
              i \in Live(entries, capacity)' /\ entries'[i] = entries[i]
      BY <2>2, <2>4, <2>5, <2>8
    <3>2. \A j \in Live(entries, capacity)' : entries'[j].key = q =>
              j \in Live(entries, capacity) /\ entries[j].key = q
      BY <2>4, <2>5
    <3> QED
      BY <3>1, <3>2, AnswerStays
  <2> QED
    BY <2>1, <2>6, <2>7, <2>8
<1> QED
  BY <1>4, <1>5

\* The rebuilt table answers what the old one did.
LEMMA EndResizeRefines ==
    ASSUME TableInv, Answers, Answers', EndResize
    PROVE  \A k \in Keys : Lookup(k)' = Lookup(k)
<1>1. pc = "resize" /\ next = capacity /\ entries' = newEntries /\ capacity' = NewCapacity
      /\ capacity \in Nat
  BY DEF EndResize, TableInv, TableTypeOK
<1>2. Live(entries, capacity)' = Live(newEntries, NewCapacity)
  BY <1>1 DEF Live
<1>3. {i \in Live(entries, capacity) : i < next} = Live(entries, capacity)
  BY <1>1 DEF Live
<1>4. /\ \A i \in Live(entries, capacity) :
            \E j \in Live(newEntries, NewCapacity) : newEntries[j] = entries[i]
      /\ \A j \in Live(newEntries, NewCapacity) :
            \E i \in Live(entries, capacity) : newEntries[j] = entries[i]
  BY <1>1, <1>3 DEF TableInv, Moving, Filled
<1> SUFFICES ASSUME NEW k \in Keys PROVE Lookup(k)' = Lookup(k)
  OBVIOUS
<1>5. \A i \in Live(entries, capacity) : entries[i].key = k =>
            \E j \in Live(entries, capacity)' : entries'[j] = entries[i]
  BY <1>1, <1>2, <1>4
<1>6. \A j \in Live(entries, capacity)' : entries'[j].key = k =>
            \E i \in Live(entries, capacity) : entries[i].key = k
  BY <1>1, <1>2, <1>4
<1> QED
  BY <1>5, <1>6, AnswerStays

\* Every step of the table is a step of the map, or leaves the map alone.
LEMMA StepRefines ==
    ASSUME TableInv, Answers, Answers', [Next]_vars
    PROVE  [Contents!Insert \/ Contents!Delete]_<<[k \in Keys |-> Lookup(k)], answer>>
<1> DEFINE map == [k \in Keys |-> Lookup(k)]
<1>1. ASSUME \A k \in Keys : Lookup(k)' = Lookup(k), answer' = answer
      PROVE  UNCHANGED <<map, answer>>
  BY <1>1
<1>2. ASSUME NEW k \in Keys, NEW v \in Values, Store(k, v), capacity' = capacity
      PROVE  Contents!Insert
  <2>1. /\ answer' = (Lookup(k) = Absent)
        /\ \A q \in Keys : Lookup(q)' = IF q = k /\ Lookup(k) = Absent THEN v ELSE Lookup(q)
    BY <1>2, StoreRefines
  <2>2. answer' = (map[k] = Absent)
    BY <2>1
  <2>3. map' = IF map[k] = Absent THEN [map EXCEPT ![k] = v] ELSE map
    BY <2>1
  <2> QED
    BY <2>2, <2>3 DEF Contents!Insert
<1>3. CASE Insert
  BY <1>2, <1>3 DEF Insert
<1>4. CASE InsertResized
  <2>1. call.key \in Keys /\ call.value \in Values /\ capacity' = capacity
    BY <1>4 DEF InsertResized, TableInv, TableTypeOK
  <2>2. Store(call.key, call.value)
    BY <1>4 DEF InsertResized
  <2> QED
    BY <2>1, <2>2, <1>2
<1>5. CASE BeginResize
  <2>1. UNCHANGED <<entries, capacity, answer>>
    BY <1>5 DEF BeginResize
  <2> QED
    BY <2>1, <1>1, AnswersStay
<1>6. CASE MoveEntry
  <2>1. UNCHANGED <<entries, capacity, answer>>
    BY <1>6 DEF MoveEntry
  <2> QED
    BY <2>1, <1>1, AnswersStay
<1>7. CASE EndResize
  <2>1. answer' = answer
    BY <1>7 DEF EndResize
  <2> QED
    BY <2>1, <1>1, <1>7, EndResizeRefines
<1>8. CASE Delete
  <2>1. PICK k \in Keys :
            /\ answer' = (Lookup(k) # Absent)
            /\ \A q \in Keys : Lookup(q)' = IF q = k THEN Absent ELSE Lookup(q)
    BY <1>8, DeleteRefines
  <2>2. answer' = (map[k] # Absent)
    BY <2>1
  <2>3. map' = [map EXCEPT ![k] = Absent]
    BY <2>1
  <2> QED
    BY <2>2, <2>3 DEF Contents!Delete
<1>9. CASE UNCHANGED vars
  <2>1. UNCHANGED <<entries, capacity, answer>>
    BY <1>9 DEF vars
  <2> QED
    BY <2>1, <1>1, AnswersStay
<1> QED
  BY <1>3, <1>4, <1>5, <1>6, <1>7, <1>8, <1>9 DEF Next

\* Nothing is found in the empty table.
LEMMA InitRefines == Init => Contents!Init
<1> SUFFICES ASSUME Init PROVE Contents!Init
  OBVIOUS
<1>1. Answers
  BY TableInitInvariant, InvariantAnswers
<1>2. Live(entries, capacity) = {}
  BY MapAssumption, EmptyTableIsSound DEF Init
<1>3. \A k \in Keys : Lookup(k) = Absent
  BY <1>1, <1>2 DEF Answers
<1> QED
  BY <1>3 DEF Contents!Init, Init

(***************************************************************************)
(* Over any history of inserts and deletes the table is a finite map: what *)
(* _lookup answers for each key, and what _insert and _delete report, is   *)
(* what FiniteMap allows, whatever the hash function and the collisions.   *)
(***************************************************************************)
THEOREM TableIsAMap == Spec => IsAMap
<1>1. TableInv /\ Answers /\ Answers' /\ [Next]_vars =>
        [Contents!Insert \/ Contents!Delete]_<<[k \in Keys |-> Lookup(k)], answer>>
  BY StepRefines
<1> QED
  BY <1>1, TableInvariant, InvariantAnswers, InitRefines, PTL DEF Spec, IsAMap, Contents!Spec

=============================================================================
