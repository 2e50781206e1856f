------------------------------- MODULE Arena -------------------------------
(***************************************************************************)
(* The arena allocator (memory/arena.c): a list of blocks, a current block *)
(* allocations are bumped out of, and dedicated blocks for what is larger  *)
(* than a block.  Blocks are kept in list order; sizes are in units of     *)
(* ARENA_ALIGNMENT, and align_up rounds to the next unit.                  *)
(*                                                                         *)
(* Every memory range handed out is remembered, so that handing the same   *)
(* memory out twice can be seen.                                           *)
(***************************************************************************)
EXTENDS Integers, Sequences, FiniteSets

CONSTANTS BlockSize,    \* what arena_create is given
          Sizes,        \* sizes asked for
          MaxBlocks,    \* bound on the blocks of an arena
          MaxHeld,      \* bound on the allocations alive
          ScratchUse    \* checkpoints are taken of an arena that holds nothing

ASSUME ArenaAssumption ==
    /\ BlockSize \in Nat \ {0}
    /\ Sizes \subseteq Nat \ {0}
    /\ MaxBlocks \in Nat /\ MaxHeld \in Nat
    /\ ScratchUse \in BOOLEAN

VARIABLES blocks,      \* the list: records of id, capacity, offset, dedicated
          current,     \* the place of the current block in it
          checkpoints, \* checkpoints not yet rewound to, latest last
          held         \* the ranges handed out and still in use

arenaVars == <<blocks, current, checkpoints, held>>

Block(id, size, used, dedicated) ==
    [id |-> id, capacity |-> size, offset |-> used, dedicated |-> dedicated]

\* arena_create.
ArenaInit ==
    /\ blocks = <<Block(1, BlockSize, 0, FALSE)>>
    /\ current = 1
    /\ checkpoints = <<>>
    /\ held = {}

-----------------------------------------------------------------------------
Current == blocks[current]

Fits(size) == Current.offset + size <= Current.capacity

\* The range [from, from + size) of a block, taken under n checkpoints.
Piece(id, from, size) ==
    [block |-> id, from |-> from, to |-> from + size, depth |-> Len(checkpoints)]

Hands(range) ==
    /\ Cardinality(held) < MaxHeld
    /\ held' = held \cup {range}
    /\ UNCHANGED checkpoints

\* arena_alloc out of the current block.
Bump ==
    \E size \in Sizes :
        /\ Fits(size)
        /\ Hands(Piece(Current.id, Current.offset, size))
        /\ blocks' = [blocks EXCEPT ![current].offset = @ + size]
        /\ UNCHANGED current

\* The blocks after the current one that arena_grow may take, and that
\* arena_alloc_oversized may; either loop stops at the first.
GrowTargets(size) ==
    {i \in (current + 1)..Len(blocks) : ~ blocks[i].dedicated /\ size <= blocks[i].capacity}

OversizedTargets(size) ==
    {i \in (current + 1)..Len(blocks) :
        blocks[i].dedicated /\ blocks[i].offset = 0 /\ size <= blocks[i].capacity}

FirstOf(targets) == CHOOSE i \in targets : \A j \in targets : i <= j

\* A new block linked in right after the current one.
Linked(block) ==
    [i \in 1..(Len(blocks) + 1) |->
        IF i <= current THEN blocks[i] ELSE IF i = current + 1 THEN block ELSE blocks[i - 1]]

\* arena_grow that takes a later block as it comes.
GrowIntoAny ==
    \E size \in Sizes :
        /\ ~ Fits(size) /\ size <= BlockSize
        /\ current < Len(blocks)
        /\ Hands(Piece(blocks[current + 1].id, blocks[current + 1].offset, size))
        /\ current' = current + 1
        /\ blocks' = [blocks EXCEPT ![current + 1].offset = @ + size]

\* arena_grow onto a block a reset or a rewind left behind.
GrowReused ==
    \E size \in Sizes :
        LET next == FirstOf(GrowTargets(size))
        IN /\ ~ Fits(size) /\ size <= BlockSize
           /\ GrowTargets(size) # {}
           /\ Hands(Piece(blocks[next].id, blocks[next].offset, size))
           /\ current' = next
           /\ blocks' = [blocks EXCEPT ![next].offset = @ + size]

\* arena_grow with a new block nothing is taken from.
GrowNewUnused ==
    \E size \in Sizes :
        /\ ~ Fits(size) /\ size <= BlockSize
        /\ GrowTargets(size) = {}
        /\ Len(blocks) < MaxBlocks
        /\ Hands(Piece(Len(blocks) + 1, 0, size))
        /\ blocks' = Linked(Block(Len(blocks) + 1, BlockSize, 0, FALSE))
        /\ current' = current + 1

\* arena_grow with a new block, linked in right after the current one.
GrowNew ==
    \E size \in Sizes :
        /\ ~ Fits(size) /\ size <= BlockSize
        /\ GrowTargets(size) = {}
        /\ Len(blocks) < MaxBlocks
        /\ Hands(Piece(Len(blocks) + 1, 0, size))
        /\ blocks' = Linked(Block(Len(blocks) + 1, BlockSize, size, FALSE))
        /\ current' = current + 1

\* An oversized allocation that takes a dedicated block whether free or not.
OversizedReusedBusy ==
    \E size \in Sizes :
        LET targets == {i \in (current + 1)..Len(blocks) :
                           blocks[i].dedicated /\ size <= blocks[i].capacity}
            next == FirstOf(targets)
        IN /\ ~ Fits(size) /\ size > BlockSize
           /\ targets # {}
           /\ Hands(Piece(blocks[next].id, 0, size))
           /\ blocks' = [blocks EXCEPT ![next].offset = size]
           /\ UNCHANGED current

\* arena_alloc_oversized in a free dedicated block.
OversizedReused ==
    \E size \in Sizes :
        LET next == FirstOf(OversizedTargets(size))
        IN /\ ~ Fits(size) /\ size > BlockSize
           /\ OversizedTargets(size) # {}
           /\ Hands(Piece(blocks[next].id, 0, size))
           /\ blocks' = [blocks EXCEPT ![next].offset = size]
           /\ UNCHANGED current

\* arena_alloc_oversized in a new dedicated block, linked in after the current.
OversizedNew ==
    \E size \in Sizes :
        /\ ~ Fits(size) /\ size > BlockSize
        /\ OversizedTargets(size) = {}
        /\ Len(blocks) < MaxBlocks
        /\ Hands(Piece(Len(blocks) + 1, 0, size))
        /\ blocks' = Linked(Block(Len(blocks) + 1, size, size, TRUE))
        /\ UNCHANGED current

\* arena_reset: nothing handed out before may be used after.
Reset ==
    /\ blocks' = [i \in DOMAIN blocks |-> [blocks[i] EXCEPT !.offset = 0]]
    /\ current' = 1
    /\ held' = {}
    /\ checkpoints' = <<>>

\* arena_checkpoint.
Checkpoint ==
    /\ ScratchUse => held = {}
    /\ checkpoints = <<>>
    /\ checkpoints' = Append(checkpoints, [block |-> Current.id, offset |-> Current.offset])
    /\ UNCHANGED <<blocks, current, held>>

Place(id) == CHOOSE i \in DOMAIN blocks : blocks[i].id = id

\* A rewind that forgets the blocks after the checkpoint's.
RewindOneBlock ==
    /\ checkpoints # <<>>
    /\ LET mark == checkpoints[Len(checkpoints)]
           at == Place(mark.block)
       IN /\ blocks' = [blocks EXCEPT ![at].offset = mark.offset]
          /\ current' = at
    /\ held' = {r \in held : r.depth < Len(checkpoints)}
    /\ checkpoints' = SubSeq(checkpoints, 1, Len(checkpoints) - 1)

\* arena_rewind: what was handed out since the checkpoint is given up.
Rewind ==
    /\ checkpoints # <<>>
    /\ LET mark == checkpoints[Len(checkpoints)]
           at == Place(mark.block)
       IN /\ blocks' = [i \in DOMAIN blocks |->
                           IF i < at THEN blocks[i]
                           ELSE [blocks[i] EXCEPT !.offset = IF i = at THEN mark.offset ELSE 0]]
          /\ current' = at
    /\ held' = {r \in held : r.depth < Len(checkpoints)}
    /\ checkpoints' = SubSeq(checkpoints, 1, Len(checkpoints) - 1)

Alloc == Bump \/ GrowReused \/ GrowNew \/ OversizedReused \/ OversizedNew

ArenaNext == Alloc \/ Reset \/ Checkpoint \/ Rewind

ArenaSpec == ArenaInit /\ [][ArenaNext]_arenaVars

-----------------------------------------------------------------------------
\* The list names each block once and the current one is a bump block.
ArenaTypeOK ==
    /\ current \in DOMAIN blocks
    /\ ~ Current.dedicated
    /\ \A i, j \in DOMAIN blocks : blocks[i].id = blocks[j].id => i = j
    /\ \A i \in DOMAIN blocks : blocks[i].offset \in 0..blocks[i].capacity

(***************************************************************************)
(* Memory in use is handed out once: two ranges still in use never share a *)
(* byte, over any sequence of allocations, growths, resets and rewinds.    *)
(***************************************************************************)
RangesAreDisjoint ==
    \A r, s \in held : (r # s /\ r.block = s.block) => (r.to <= s.from \/ s.to <= r.from)

(***************************************************************************)
(* What is in use lies below its block's offset, so that no later          *)
(* allocation and no poisoning reaches it.                                 *)
(***************************************************************************)
RangesAreReserved == \A r \in held : r.to <= blocks[Place(r.block)].offset

(***************************************************************************)
(* A block growth skipped is not lost: whatever lies after the current     *)
(* block and is not dedicated holds nothing, so arena_grow may start at    *)
(* its beginning.                                                          *)
(***************************************************************************)
LaterBlocksAreFree ==
    \A i \in (current + 1)..Len(blocks) : blocks[i].dedicated \/ blocks[i].offset = 0
=============================================================================
