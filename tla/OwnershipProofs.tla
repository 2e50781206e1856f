-------------------------- MODULE OwnershipProofs --------------------------
(***************************************************************************)
(* Lowering ends every block of every function in one terminator that      *)
(* leads to blocks that exist, and puts none before it, however its        *)
(* statements nest, as long as no statement follows a return or a jump     *)
(* (BodiesAreWellFormed).                                                  *)
(*                                                                         *)
(* The invariant says which blocks may still lack one: the block being     *)
(* written, and the blocks the open statements made and have not come to,  *)
(* which are empty (Laid, Pending).  No two open statements wait for the   *)
(* same block, so a closing brace finds the block it goes on with empty.   *)
(* The targets of break and continue, the ones saved by the loops around   *)
(* them, and the headers of the open loops are blocks made before.         *)
(* What instructions hold beside their op does not matter, so the contents *)
(* of blocks and of locals stay untyped: they are sequences of something.  *)
(***************************************************************************)
EXTENDS Ownership, TLAPS

-----------------------------------------------------------------------------
(***************************************************************************)
(* Blocks.  b is written, the blocks in P wait to be, and the blocks in K  *)
(* are known to later jumps.  No jump leads to the entry block.            *)
(***************************************************************************)
Neat(block) == \A j \in DOMAIN block : IsTerminator(block[j]) => j = Len(block)

Laid(blocks, b, P, K) ==
    /\ \E C : blocks \in Seq(Seq(C))
    /\ b \in DOMAIN blocks /\ b \notin P
    /\ P \cup K \subseteq DOMAIN blocks \ {1}
    /\ \A p \in P : blocks[p] = <<>>
    /\ \A p \in DOMAIN blocks : /\ Neat(blocks[p])
                                /\ SuccessorSet(blocks[p]) \subseteq DOMAIN blocks \ {1}
    /\ \A p \in DOMAIN blocks : p # b /\ p \notin P => IsTerminated(blocks[p])

GoesTo(inst, S) == \A i \in DOMAIN inst.to : inst.to[i] \in S

Straight(insts) == \A j \in DOMAIN insts : ~ IsTerminator(insts[j])

\* A sequence of something stays one when more may stand in it.
LEMMA MoreCode ==
    ASSUME NEW C, NEW D, NEW blocks \in Seq(Seq(C))
    PROVE  blocks \in Seq(Seq(C \cup D))
<1>1. \A s \in Seq(C) : s \in Seq(C \cup D)
  OBVIOUS
<1> QED
  BY <1>1

\* A block that is not terminated grows by what is appended to it.
LEMMA GrownBlock ==
    ASSUME NEW C, NEW block \in Seq(C), Neat(block), ~ IsTerminated(block),
           NEW insts \in Seq(C)
    PROVE  /\ Straight(insts) => Neat(block \o insts) /\ ~ IsTerminated(block \o insts)
           /\ Straight(insts) => SuccessorSet(block \o insts) = {}
           /\ Len(insts) = 1 /\ IsTerminator(insts[1]) =>
                /\ Neat(block \o insts) /\ IsTerminated(block \o insts)
                /\ \A S : GoesTo(insts[1], S) => SuccessorSet(block \o insts) \subseteq S
<1> DEFINE grown == block \o insts
<1>1. /\ grown \in Seq(C) /\ Len(grown) = Len(block) + Len(insts)
      /\ \A j \in 1..Len(block) : grown[j] = block[j]
      /\ \A j \in 1..Len(grown) : j > Len(block) => j - Len(block) \in 1..Len(insts)
                                                   /\ grown[j] = insts[j - Len(block)]
  OBVIOUS
<1>2. Len(block) \in Nat /\ Len(insts) \in Nat /\ DOMAIN grown = 1..Len(grown)
      /\ DOMAIN block = 1..Len(block) /\ DOMAIN insts = 1..Len(insts)
      /\ (grown # <<>> => Len(grown) > 0) /\ (Len(block) > 0 => block # <<>>)
      /\ (Len(grown) > 0 => grown # <<>>)
  BY <1>1
<1> HIDE DEF grown
<1>3. \A j \in 1..Len(block) : ~ IsTerminator(block[j])
  <2> SUFFICES ASSUME NEW j \in 1..Len(block), IsTerminator(block[j]) PROVE FALSE
    OBVIOUS
  <2>1. j = Len(block)
    BY <1>2 DEF Neat
  <2>2. block # <<>>
    BY <1>2
  <2> QED
    BY <2>1, <2>2 DEF IsTerminated
<1>4. ASSUME Straight(insts)
      PROVE  Neat(grown) /\ ~ IsTerminated(grown) /\ SuccessorSet(grown) = {}
  <2>1. \A j \in 1..Len(grown) : ~ IsTerminator(grown[j])
    <3> SUFFICES ASSUME NEW j \in 1..Len(grown) PROVE ~ IsTerminator(grown[j])
      OBVIOUS
    <3>1. CASE j <= Len(block)
      BY <1>1, <1>2, <1>3, <3>1
    <3>2. CASE j > Len(block)
      BY <1>1, <1>2, <1>4, <3>2 DEF Straight
    <3> QED
      BY <1>2, <3>1, <3>2
  <2>2. Neat(grown)
    BY <1>2, <2>1 DEF Neat
  <2>3. ~ IsTerminated(grown)
    <3> SUFFICES ASSUME grown # <<>> PROVE ~ IsTerminator(grown[Len(grown)])
      BY DEF IsTerminated
    <3> QED
      BY <1>1, <1>2, <2>1
  <2>4. SuccessorSet(grown) = {}
    <3>1. DOMAIN Successors(grown) = {}
      BY <2>3 DEF Successors
    <3> QED
      BY <3>1 DEF SuccessorSet
  <2> QED
    BY <2>2, <2>3, <2>4
<1>5. ASSUME Len(insts) = 1, IsTerminator(insts[1])
      PROVE  /\ Neat(grown) /\ IsTerminated(grown)
             /\ \A S : GoesTo(insts[1], S) => SuccessorSet(grown) \subseteq S
  <2>1. Neat(grown)
    <3> SUFFICES ASSUME NEW j \in 1..Len(grown), IsTerminator(grown[j]) PROVE j = Len(grown)
      BY <1>2 DEF Neat
    <3> QED
      BY <1>1, <1>2, <1>3, <1>5
  <2>2. Len(grown) \in 1..Len(grown) /\ Len(grown) > Len(block) /\ Len(grown) - Len(block) = 1
    BY <1>1, <1>2, <1>5
  <2>3. IsTerminated(grown)
    BY <1>1, <1>2, <1>5, <2>2 DEF IsTerminated
  <2>4. Successors(grown) = insts[1].to
    BY <1>1, <1>2, <2>2, <2>3 DEF Successors
  <2>5. \A S : GoesTo(insts[1], S) => SuccessorSet(grown) \subseteq S
    BY <2>4 DEF SuccessorSet, GoesTo
  <2> QED
    BY <2>1, <2>3, <2>5
<1> QED
  BY <1>4, <1>5 DEF grown

\* Appending to the block being written leaves the others alone.
LEMMA LaidGrows ==
    ASSUME NEW blocks, NEW b, NEW P, NEW K, Laid(blocks, b, P, K), ~ IsTerminated(blocks[b]),
           NEW D, NEW insts \in Seq(D), NEW grown, grown = [blocks EXCEPT ![b] = blocks[b] \o insts]
    PROVE  /\ Straight(insts) => Laid(grown, b, P, K) /\ ~ IsTerminated(grown[b])
           /\ Len(insts) = 1 /\ IsTerminator(insts[1]) /\ GoesTo(insts[1], P \cup K) =>
                Laid(grown, b, P, K) /\ IsTerminated(grown[b])
<1>1. PICK C : blocks \in Seq(Seq(C))
  BY DEF Laid
<1> DEFINE E == C \cup D
<1>2. blocks \in Seq(Seq(E))
  BY <1>1, MoreCode
<1>3. insts \in Seq(E)
  OBVIOUS
<1> HIDE DEF E
<1>4. b \in DOMAIN blocks /\ b \in 1..Len(blocks) /\ blocks[b] \in Seq(E) /\ Neat(blocks[b])
  BY <1>2 DEF Laid
<1>5. blocks[b] \o insts \in Seq(E)
  BY <1>3, <1>4
<1>6. grown \in Seq(Seq(E)) /\ DOMAIN grown = DOMAIN blocks /\ grown[b] = blocks[b] \o insts
      /\ \A p \in DOMAIN blocks : p # b => grown[p] = blocks[p]
  BY <1>2, <1>4, <1>5
<1>7. ASSUME Neat(grown[b]), SuccessorSet(grown[b]) \subseteq P \cup K
      PROVE  Laid(grown, b, P, K)
  <2>1. SuccessorSet(grown[b]) \subseteq DOMAIN blocks \ {1}
    BY <1>7 DEF Laid
  <2> QED
    BY <1>6, <1>7, <2>1 DEF Laid
<1>8. CASE Straight(insts)
  <2>1. Neat(grown[b]) /\ ~ IsTerminated(grown[b]) /\ SuccessorSet(grown[b]) = {}
    BY <1>3, <1>4, <1>6, <1>8, GrownBlock
  <2>2. Laid(grown, b, P, K)
    BY <1>7, <2>1
  <2>3. ~ (Len(insts) = 1 /\ IsTerminator(insts[1]))
    BY <1>8 DEF Straight
  <2> QED
    BY <2>1, <2>2, <2>3
<1>9. CASE Len(insts) = 1 /\ IsTerminator(insts[1]) /\ GoesTo(insts[1], P \cup K)
  <2>1. Neat(grown[b]) /\ IsTerminated(grown[b]) /\ SuccessorSet(grown[b]) \subseteq P \cup K
    BY <1>3, <1>4, <1>6, <1>9, GrownBlock
  <2>2. Laid(grown, b, P, K)
    BY <1>7, <2>1
  <2>3. ~ Straight(insts)
    BY <1>9 DEF Straight
  <2> QED
    BY <2>1, <2>2, <2>3
<1> QED
  BY <1>8, <1>9

\* The block being written is done, and one that waits is written next.
LEMMA LaidMoves ==
    ASSUME NEW blocks, NEW b, NEW P, NEW K, Laid(blocks, b, P, K), IsTerminated(blocks[b]), NEW c \in P
    PROVE  Laid(blocks, c, P \ {c}, K) /\ ~ IsTerminated(blocks[c])
  BY DEF Laid, IsTerminated

\* What a sequence of blocks is after n more.
Extended(blocks, more, n) ==
    /\ \E C : more \in Seq(Seq(C))
    /\ Len(blocks) \in Nat /\ DOMAIN blocks = 1..Len(blocks) /\ DOMAIN more = 1..(Len(blocks) + n)
    /\ \A p \in 1..Len(blocks) : more[p] = blocks[p]
    /\ \A p \in (Len(blocks) + 1)..(Len(blocks) + n) : more[p] = <<>>

\* mir_block_create appends empty blocks and leaves the others as they are.
LEMMA MoreBlocks ==
    ASSUME NEW C, NEW blocks \in Seq(Seq(C)), NEW n \in Nat
    PROVE  Extended(blocks, blocks \o [i \in 1..n |-> <<>>], n)
<1> DEFINE new == [i \in 1..n |-> <<>>]
<1>1. new \in Seq(Seq(C)) /\ Len(new) = n /\ \A i \in 1..n : new[i] = <<>>
  OBVIOUS
<1> HIDE DEF new
<1>2. PICK more : more = blocks \o new
  OBVIOUS
<1>3. more \in Seq(Seq(C)) /\ Len(more) = Len(blocks) + n /\ Len(blocks) \in Nat
  <2>1. PICK S : S = Seq(C)
    OBVIOUS
  <2>2. blocks \in Seq(S) /\ new \in Seq(S)
    BY <1>1, <2>1
  <2>3. more \in Seq(S) /\ Len(more) = Len(blocks) + Len(new) /\ Len(blocks) \in Nat
    BY <1>2, <2>2
  <2> QED
    BY <1>1, <2>1, <2>3
<1>4. \A p \in 1..Len(blocks) : more[p] = blocks[p]
  BY <1>1, <1>2
<1>5. \A p \in (Len(blocks) + 1)..(Len(blocks) + n) : more[p] = <<>>
  BY <1>1, <1>2
<1>6. Extended(blocks, more, n)
  BY <1>3, <1>4, <1>5 DEF Extended
<1> QED
  BY <1>2, <1>6 DEF new

\* New blocks wait to be written.
LEMMA LaidCreates ==
    ASSUME NEW blocks, NEW b, NEW P, NEW K, Laid(blocks, b, P, K), NEW n \in Nat,
           NEW more, Extended(blocks, more, n)
    PROVE  /\ Laid(more, b, P \cup ((Len(blocks) + 1)..(Len(blocks) + n)), K)
           /\ more[b] = blocks[b] /\ Len(blocks) \in Nat
           /\ P \cup K \subseteq 2..Len(blocks)
<1>3. /\ \E C : more \in Seq(Seq(C))
      /\ Len(blocks) \in Nat /\ DOMAIN blocks = 1..Len(blocks) /\ DOMAIN more = 1..(Len(blocks) + n)
      /\ \A p \in 1..Len(blocks) : more[p] = blocks[p]
      /\ \A p \in (Len(blocks) + 1)..(Len(blocks) + n) : more[p] = <<>>
  BY DEF Extended
<1>4. Neat(<<>>) /\ SuccessorSet(<<>>) = {}
  <2>1. Successors(<<>>) = <<>>
    BY DEF Successors, IsTerminated
  <2> QED
    BY <2>1 DEF Neat, SuccessorSet
<1>5. \A p \in 1..(Len(blocks) + n) : p \in 1..Len(blocks) \/ p \in (Len(blocks) + 1)..(Len(blocks) + n)
  BY <1>3
<1>6. \A p \in 1..Len(blocks) : p \notin (Len(blocks) + 1)..(Len(blocks) + n) /\ p \in 1..(Len(blocks) + n)
  BY <1>3
<1>7. (Len(blocks) + 1)..(Len(blocks) + n) \subseteq (1..(Len(blocks) + n)) \ {1}
  <2>1. Len(blocks) >= 1
    BY <1>3 DEF Laid
  <2> QED
    BY <1>3, <2>1
<1>8. (1..Len(blocks)) \ {1} \subseteq (1..(Len(blocks) + n)) \ {1}
  BY <1>6
<1>9. \A p \in DOMAIN more : Neat(more[p]) /\ SuccessorSet(more[p]) \subseteq DOMAIN more \ {1}
  <2> SUFFICES ASSUME NEW p \in 1..(Len(blocks) + n)
               PROVE  Neat(more[p]) /\ SuccessorSet(more[p]) \subseteq (1..(Len(blocks) + n)) \ {1}
    BY <1>3
  <2>1. CASE p \in 1..Len(blocks)
    BY <1>3, <1>8, <2>1 DEF Laid
  <2>2. CASE p \in (Len(blocks) + 1)..(Len(blocks) + n)
    BY <1>3, <1>4, <2>2
  <2> QED
    BY <1>5, <2>1, <2>2
<1>10. P \cup K \subseteq (1..Len(blocks)) \ {1} /\ P \cup K \subseteq 2..Len(blocks)
  BY <1>3 DEF Laid
<1> DEFINE Q == P \cup ((Len(blocks) + 1)..(Len(blocks) + n))
<1>11. Q \cup K \subseteq DOMAIN more \ {1}
  BY <1>3, <1>7, <1>8, <1>10
<1>12. b \in DOMAIN more /\ b \notin Q /\ more[b] = blocks[b]
  BY <1>3, <1>6 DEF Laid
<1>13. \A p \in Q : more[p] = <<>>
  BY <1>3, <1>10 DEF Laid
<1>14. \A p \in DOMAIN more : p # b /\ p \notin Q => IsTerminated(more[p])
  BY <1>3, <1>5 DEF Laid
<1> HIDE DEF Q
<1>15. Laid(more, b, Q, K)
  BY <1>3, <1>9, <1>11, <1>12, <1>13, <1>14 DEF Laid
<1> QED
  BY <1>3, <1>10, <1>12, <1>15 DEF Q

-----------------------------------------------------------------------------
(***************************************************************************)
(* struct Lowering.  Open: the block being written takes instructions.     *)
(* Shut: it has its terminator.                                            *)
(***************************************************************************)
LoweringFields ==
    {"blocks", "block", "valueCount", "value", "locals", "tempSlots", "breakTarget",
     "continueTarget", "loopLocalFloor", "returned", "params"}

IsLowering(L, K) ==
    /\ DOMAIN L = LoweringFields
    /\ \E C : L.locals \in Seq(C)
    /\ L.loopLocalFloor \in Nat
    /\ L.breakTarget # None => L.breakTarget \in K /\ L.continueTarget \in K

Written(L, P, K) == IsLowering(L, K) /\ Laid(L.blocks, L.block, P, K)
Open(L, P, K) == Written(L, P, K) /\ ~ Terminated(L)
Shut(L, P, K) == Written(L, P, K) /\ Terminated(L)

\* What the code of a function is does not depend on the other fields.
LEMMA OtherFields ==
    ASSUME NEW L, NEW M, NEW P, NEW K, IsLowering(M, K), M.blocks = L.blocks, M.block = L.block
    PROVE  (Open(L, P, K) => Open(M, P, K)) /\ (Shut(L, P, K) => Shut(M, P, K))
  BY DEF Open, Shut, Written, Terminated

\* To append an element is to append a sequence of one.
LEMMA AppendIsConcat ==
    ASSUME NEW C, NEW s \in Seq(C), NEW e
    PROVE  Append(s, e) = s \o <<e>>
<1> DEFINE E == C \cup {e}
<1>1. s \in Seq(E) /\ e \in E /\ <<e>> \in Seq(E)
  OBVIOUS
<1> HIDE DEF E
<1>2. /\ Append(s, e) \in Seq(E) /\ s \o <<e>> \in Seq(E)
      /\ Len(Append(s, e)) = Len(s) + 1 /\ Len(s \o <<e>>) = Len(s) + 1
  BY <1>1
<1>3. \A i \in 1..(Len(s) + 1) : Append(s, e)[i] = (s \o <<e>>)[i]
  BY <1>1
<1> QED
  BY <1>2, <1>3

\* Several instructions, none a terminator.
LEMMA EmitAllOpen ==
    ASSUME NEW L, NEW P, NEW K, Open(L, P, K), NEW D, NEW insts \in Seq(D), Straight(insts)
    PROVE  Open(EmitAll(L, insts), P, K)
<1> DEFINE M == EmitAll(L, insts)
<1>1. IsLowering(L, K) /\ Laid(L.blocks, L.block, P, K) /\ ~ IsTerminated(L.blocks[L.block])
  BY DEF Open, Written, Terminated
<1>2. /\ DOMAIN M = DOMAIN L /\ M.locals = L.locals /\ M.loopLocalFloor = L.loopLocalFloor
      /\ M.breakTarget = L.breakTarget /\ M.continueTarget = L.continueTarget
      /\ M.block = L.block
      /\ M.blocks = [L.blocks EXCEPT ![L.block] = L.blocks[L.block] \o insts]
  BY <1>1 DEF EmitAll, IsLowering, LoweringFields
<1> HIDE DEF M
<1>3. IsLowering(M, K)
  BY <1>1, <1>2 DEF IsLowering
<1>4. Laid(M.blocks, L.block, P, K) /\ ~ IsTerminated(M.blocks[L.block])
  BY <1>1, <1>2, LaidGrows
<1>5. Open(M, P, K)
  BY <1>2, <1>3, <1>4 DEF Open, Written, Terminated
<1> QED
  BY <1>5 DEF M

\* One instruction keeps the block open unless it is a terminator.
LEMMA EmitEffect ==
    ASSUME NEW L, NEW P, NEW K, Open(L, P, K), NEW inst
    PROVE  /\ ~ IsTerminator(inst) => Open(Emit(L, inst), P, K)
           /\ IsTerminator(inst) /\ GoesTo(inst, P \cup K) => Shut(Emit(L, inst), P, K)
<1> DEFINE M == Emit(L, inst)
           one == <<inst>>
<1>1. IsLowering(L, K) /\ Laid(L.blocks, L.block, P, K) /\ ~ IsTerminated(L.blocks[L.block])
  BY DEF Open, Written, Terminated
<1>2. PICK C : L.blocks \in Seq(Seq(C))
  BY <1>1 DEF Laid
<1>3. L.blocks[L.block] \in Seq(C)
  BY <1>1, <1>2 DEF Laid
<1>4. Append(L.blocks[L.block], inst) = L.blocks[L.block] \o one
  <2>1. PICK s \in Seq(C) : s = L.blocks[L.block]
    BY <1>3
  <2>2. Append(s, inst) = s \o <<inst>>
    BY AppendIsConcat
  <2> QED
    BY <2>1, <2>2
<1>5. one \in Seq({inst}) /\ Len(one) = 1 /\ one[1] = inst
  OBVIOUS
<1>6. ~ IsTerminator(inst) => Straight(one)
  BY <1>5 DEF Straight
<1> HIDE DEF one
<1>7. /\ DOMAIN M = DOMAIN L /\ M.locals = L.locals /\ M.loopLocalFloor = L.loopLocalFloor
      /\ M.breakTarget = L.breakTarget /\ M.continueTarget = L.continueTarget
      /\ M.block = L.block
      /\ M.blocks = [L.blocks EXCEPT ![L.block] = L.blocks[L.block] \o one]
  BY <1>1, <1>4 DEF Emit, IsLowering, LoweringFields
<1> HIDE DEF M
<1>8. IsLowering(M, K)
  BY <1>1, <1>7 DEF IsLowering
<1>9. /\ ~ IsTerminator(inst) => Laid(M.blocks, L.block, P, K) /\ ~ IsTerminated(M.blocks[L.block])
      /\ IsTerminator(inst) /\ GoesTo(inst, P \cup K) =>
           Laid(M.blocks, L.block, P, K) /\ IsTerminated(M.blocks[L.block])
  BY <1>1, <1>5, <1>6, <1>7, LaidGrows
<1>10. /\ ~ IsTerminator(inst) => Open(M, P, K)
       /\ IsTerminator(inst) /\ GoesTo(inst, P \cup K) => Shut(M, P, K)
  BY <1>7, <1>8, <1>9 DEF Open, Shut, Written, Terminated
<1> QED
  BY <1>10 DEF M

\* Which instructions end a block, and where they lead.
LEMMA Ops ==
    /\ \A v, a : /\ ~ IsTerminator(StorageLive(v)) /\ ~ IsTerminator(StorageDead(v))
                 /\ ~ IsTerminator(StorageInit(v)) /\ ~ IsTerminator(Drop(v))
                 /\ ~ IsTerminator(Store(v, a)) /\ ~ IsTerminator(StoreField(v, a))
                 /\ ~ IsTerminator(LoadMove(v, a)) /\ ~ IsTerminator(LoadField(v, a))
                 /\ ~ IsTerminator(Ref(v, a)) /\ \A f : ~ IsTerminator(Call(f, v, a))
    /\ \A a, c : IsTerminator(Jmp(a)) /\ IsTerminator(Branch(a, c)) /\ IsTerminator(Return(a))
    /\ \A a, c, S : /\ a \in S => GoesTo(Jmp(a), S)
                    /\ a \in S /\ c \in S => GoesTo(Branch(a, c), S)
                    /\ GoesTo(Return(a), S)
  BY DEF IsTerminator, GoesTo, Blank, StorageLive, StorageDead, StorageInit, Drop, Store, StoreField,
         LoadCopy, LoadMove, LoadField, Ref, Call, Jmp, Branch, Return

\* lower_terminator leaves the block with one, whether it had one or not.
LEMMA LowerTerminatorShuts ==
    ASSUME NEW L, NEW P, NEW K, Written(L, P, K), NEW inst, IsTerminator(inst),
           GoesTo(inst, P \cup K)
    PROVE  Shut(LowerTerminator(L, inst), P, K)
<1>1. CASE Terminated(L)
  BY <1>1 DEF LowerTerminator, Shut
<1>2. CASE ~ Terminated(L)
  BY <1>2, EmitEffect DEF LowerTerminator, Open
<1> QED
  BY <1>1, <1>2

\* lower_jump, to a block that exists.
LEMMA LowerJumpShuts ==
    ASSUME NEW L, NEW P, NEW K, Written(L, P, K), NEW target \in P \cup K
    PROVE  Shut(LowerJump(L, target), P, K)
  BY LowerTerminatorShuts, Ops DEF LowerJump

\* The block written next is one that waits.
LEMMA MoveOpens ==
    ASSUME NEW L, NEW P, NEW K, Shut(L, P, K), NEW c \in P
    PROVE  Open([L EXCEPT !.block = c], P \ {c}, K)
<1> DEFINE M == [L EXCEPT !.block = c]
<1>1. IsLowering(L, K) /\ Laid(L.blocks, L.block, P, K) /\ IsTerminated(L.blocks[L.block])
  BY DEF Shut, Written, Terminated
<1>2. /\ DOMAIN M = DOMAIN L /\ M.locals = L.locals /\ M.loopLocalFloor = L.loopLocalFloor
      /\ M.breakTarget = L.breakTarget /\ M.continueTarget = L.continueTarget
      /\ M.block = c /\ M.blocks = L.blocks
  BY <1>1 DEF IsLowering, LoweringFields
<1> HIDE DEF M
<1>3. IsLowering(M, K)
  BY <1>1, <1>2 DEF IsLowering
<1>4. Laid(M.blocks, c, P \ {c}, K) /\ ~ IsTerminated(M.blocks[c])
  BY <1>1, <1>2, LaidMoves
<1>5. Open(M, P \ {c}, K)
  BY <1>2, <1>3, <1>4 DEF Open, Written, Terminated
<1> QED
  BY <1>5 DEF M

\* mir_block_create: the new blocks wait, and none of them did before.
LEMMA BlockCreateEffect ==
    ASSUME NEW L, NEW P, NEW K, Written(L, P, K), NEW n \in Nat
    PROVE  /\ Written(BlockCreate(L, n), P \cup ((Len(L.blocks) + 1)..(Len(L.blocks) + n)), K)
           /\ Terminated(BlockCreate(L, n)) <=> Terminated(L)
           /\ BlockCreate(L, n).locals = L.locals
           /\ Len(L.blocks) \in Nat /\ P \cup K \subseteq 2..Len(L.blocks)
<1> DEFINE M == BlockCreate(L, n)
<1>1. IsLowering(L, K) /\ Laid(L.blocks, L.block, P, K)
  BY DEF Written
<1>2. /\ DOMAIN M = DOMAIN L /\ M.locals = L.locals /\ M.loopLocalFloor = L.loopLocalFloor
      /\ M.breakTarget = L.breakTarget /\ M.continueTarget = L.continueTarget
      /\ M.block = L.block /\ M.blocks = L.blocks \o [i \in 1..n |-> <<>>]
  BY <1>1 DEF BlockCreate, IsLowering, LoweringFields
<1> HIDE DEF M
<1>3. IsLowering(M, K)
  BY <1>1, <1>2 DEF IsLowering
<1>4. /\ Laid(M.blocks, L.block, P \cup ((Len(L.blocks) + 1)..(Len(L.blocks) + n)), K)
      /\ M.blocks[L.block] = L.blocks[L.block] /\ Len(L.blocks) \in Nat
      /\ P \cup K \subseteq 2..Len(L.blocks)
  <2>1. PICK C : L.blocks \in Seq(Seq(C))
    BY <1>1 DEF Laid
  <2>2. \A B \in Seq(Seq(C)) : Extended(B, B \o [i \in 1..n |-> <<>>], n)
    BY MoreBlocks
  <2>3. Extended(L.blocks, M.blocks, n)
    BY <1>2, <2>1, <2>2, Zenon
  <2> QED
    BY <1>1, <2>3, LaidCreates
<1>5. /\ Written(M, P \cup ((Len(L.blocks) + 1)..(Len(L.blocks) + n)), K)
      /\ Terminated(M) <=> Terminated(L)
      /\ M.locals = L.locals
      /\ Len(L.blocks) \in Nat /\ P \cup K \subseteq 2..Len(L.blocks)
  BY <1>2, <1>3, <1>4 DEF Written, Terminated
<1> QED
  BY <1>5 DEF M

-----------------------------------------------------------------------------
(***************************************************************************)
(* The helpers leave an open block open.                                   *)
(***************************************************************************)

\* mir_value_create emits nothing.
LEMMA ValueCreateKeeps ==
    ASSUME NEW L, NEW P, NEW K
    PROVE  /\ Open(L, P, K) => Open(ValueCreate(L), P, K)
           /\ Written(L, P, K) => Written(ValueCreate(L), P, K)
<1> DEFINE M == ValueCreate(L)
<1> SUFFICES ASSUME IsLowering(L, K)
             PROVE  (Open(L, P, K) => Open(M, P, K)) /\ (Written(L, P, K) => Written(M, P, K))
  BY DEF Open, Written
<1>1. /\ DOMAIN M = DOMAIN L /\ M.locals = L.locals /\ M.loopLocalFloor = L.loopLocalFloor
      /\ M.breakTarget = L.breakTarget /\ M.continueTarget = L.continueTarget
      /\ M.block = L.block /\ M.blocks = L.blocks
  BY DEF ValueCreate, IsLowering, LoweringFields
<1> HIDE DEF M
<1>2. IsLowering(M, K)
  BY <1>1 DEF IsLowering
<1> QED
  BY <1>1, <1>2 DEF Open, Written, Terminated

\* A local bound is one more of the locals.
LEMMA BindLocalKeeps ==
    ASSUME NEW L, NEW P, NEW K, Open(L, P, K), NEW name, NEW v
    PROVE  Open(BindLocal(L, name, v), P, K)
<1> DEFINE M == BindLocal(L, name, v)
           bound == [name |-> name, value |-> v]
<1>1. IsLowering(L, K)
  BY DEF Open, Written
<1>2. PICK C : L.locals \in Seq(C)
  BY <1>1 DEF IsLowering
<1>3. /\ DOMAIN M = DOMAIN L /\ M.locals = Append(L.locals, bound)
      /\ M.loopLocalFloor = L.loopLocalFloor
      /\ M.breakTarget = L.breakTarget /\ M.continueTarget = L.continueTarget
      /\ M.block = L.block /\ M.blocks = L.blocks
  BY <1>1 DEF BindLocal, IsLowering, LoweringFields
<1> HIDE DEF M, bound
<1>4. M.locals \in Seq(C \cup {bound})
  <2>1. L.locals \in Seq(C \cup {bound})
    BY <1>2
  <2> QED
    BY <1>3, <2>1
<1>5. IsLowering(M, K)
  BY <1>1, <1>3, <1>4 DEF IsLowering
<1>6. Open(M, P, K)
  BY <1>3, <1>5, OtherFields
<1> QED
  BY <1>6 DEF M

\* lower_load_from.
LEMMA LoadKeeps ==
    ASSUME NEW L, NEW P, NEW K, Open(L, P, K), NEW place
    PROVE  /\ Open(LowerLoadFrom(L, LoadMove, place), P, K)
           /\ Open(LowerLoadFrom(L, LoadField, place), P, K)
<1>1. Open(ValueCreate(L), P, K)
  BY ValueCreateKeeps
<1> QED
  BY <1>1, EmitEffect, Ops DEF LowerLoadFrom

\* lower_temp_slot.
LEMMA TempSlotKeeps ==
    ASSUME NEW L, NEW P, NEW K, Open(L, P, K)
    PROVE  Open(LowerTempSlot(L), P, K)
<1> DEFINE v == Fresh(L)
           B == BindLocal(ValueCreate(L), "", v)
           T == [B EXCEPT !.tempSlots = @ \cup {v}]
<1>1. Open(B, P, K)
  BY ValueCreateKeeps, BindLocalKeeps
<1> HIDE DEF B
<1>2. IsLowering(B, K)
  BY <1>1 DEF Open, Written
<1>3. /\ DOMAIN T = DOMAIN B /\ T.locals = B.locals /\ T.loopLocalFloor = B.loopLocalFloor
      /\ T.breakTarget = B.breakTarget /\ T.continueTarget = B.continueTarget
      /\ T.block = B.block /\ T.blocks = B.blocks
  BY <1>2 DEF IsLowering, LoweringFields
<1> HIDE DEF T
<1>4. IsLowering(T, K)
  BY <1>2, <1>3 DEF IsLowering
<1>5. Open(T, P, K)
  BY <1>1, <1>3, <1>4, OtherFields
<1>6. Open(Emit(T, StorageLive(v)), P, K)
  BY <1>5, EmitEffect, Ops
<1> QED
  BY <1>6 DEF LowerTempSlot, T, B

\* lower_call of make.
LEMMA MakeKeeps ==
    ASSUME NEW L, NEW P, NEW K, Open(L, P, K)
    PROVE  Open(LowerMake(L), P, K)
<1> DEFINE r == Fresh(L)
           called == LowerTempSlot(Emit(ValueCreate(L), Call("make", r, None)))
<1>1. Open(Emit(ValueCreate(L), Call("make", r, None)), P, K)
  BY ValueCreateKeeps, EmitEffect, Ops
<1>2. Open(called, P, K)
  BY <1>1, TempSlotKeeps
<1> HIDE DEF called
<1>3. Open(Emit(called, Store(called.value, r)), P, K)
  BY <1>2, EmitEffect, Ops
<1> QED
  BY <1>3 DEF LowerMake, called

\* An owned operand, and the move out of its temporary.
LEMMA MovedKeeps ==
    ASSUME NEW L, NEW P, NEW K, Open(L, P, K), NEW e
    PROVE  Open(LowerMoved(L, e), P, K)
<1> DEFINE M == IF e = "make" THEN LowerMake(L)
                ELSE LowerLoadFrom(L, LoadMove, LocalValue(L, e))
<1>1. Open(M, P, K)
  BY MakeKeeps, LoadKeeps
<1> HIDE DEF M
<1>2. Open(LowerMovedTemp(M), P, K)
  BY <1>1, LoadKeeps DEF LowerMovedTemp
<1> QED
  BY <1>2 DEF LowerMoved, M

\* A field read from a temporary.
LEMMA TempReadKeeps ==
    ASSUME NEW L, NEW P, NEW K, Open(L, P, K)
    PROVE  Open(LowerTempRead(L), P, K)
<1> DEFINE made == LowerMake(L)
<1>1. Open(made, P, K)
  BY MakeKeeps
<1> HIDE DEF made
<1>2. Open(LowerLoadFrom(made, LoadField, made.value), P, K)
  BY <1>1, LoadKeeps
<1> QED
  BY <1>2 DEF LowerTempRead, made

\* lower_logical writes two blocks of its own and goes on with the second.
LEMMA LogicalKeeps ==
    ASSUME NEW L, NEW P, NEW K, Open(L, P, K)
    PROVE  Open(LowerLogical(L), P, K)
<1> DEFINE rhs == Len(L.blocks) + 1
           join == rhs + 1
           created == BlockCreate(ValueCreate(L), 2)
           branched == LowerTerminator(created, Branch(rhs, join))
           inner == [branched EXCEPT !.block = rhs]
           right == LowerJump(LowerTempRead(inner), join)
           Q == P \cup {rhs, join}
<1>1. Written(L, P, K) /\ IsLowering(L, K)
  BY DEF Open, Written
<1>2. Written(ValueCreate(L), P, K) /\ ValueCreate(L).blocks = L.blocks
  BY <1>1, ValueCreateKeeps DEF ValueCreate, IsLowering, LoweringFields
<1>3. /\ Written(created, P \cup ((Len(L.blocks) + 1)..(Len(L.blocks) + 2)), K)
      /\ Len(L.blocks) \in Nat /\ P \cup K \subseteq 2..Len(L.blocks)
  BY <1>2, BlockCreateEffect
<1>4. (Len(L.blocks) + 1)..(Len(L.blocks) + 2) = {rhs, join}
  BY <1>3
<1>5. rhs \notin P /\ join \notin P /\ rhs # join
  BY <1>3
<1> HIDE DEF created, rhs, join
<1>6. Written(created, Q, K)
  BY <1>3, <1>4
<1>7. Shut(branched, Q, K)
  <2>1. GoesTo(Branch(rhs, join), Q \cup K)
    BY Ops
  <2> QED
    BY <1>6, <2>1, LowerTerminatorShuts, Ops
<1> HIDE DEF branched
<1>8. Open(inner, Q \ {rhs}, K)
  BY <1>7, MoveOpens
<1>9. Q \ {rhs} = P \cup {join} /\ (P \cup {join}) \ {join} = P
  BY <1>5
<1> HIDE DEF inner
<1>10. Open(LowerTempRead(inner), P \cup {join}, K)
  BY <1>8, <1>9, TempReadKeeps
<1>11. Shut(right, P \cup {join}, K)
  BY <1>10, LowerJumpShuts DEF Open
<1> HIDE DEF right
<1>12. Open([right EXCEPT !.block = join], P, K)
  BY <1>9, <1>11, MoveOpens
<1> QED
  BY <1>12 DEF LowerLogical, right, inner, branched, created, rhs, join

\* Every kind of condition goes on in an open block, the same or another.
LEMMA ConditionKeeps ==
    ASSUME NEW L, NEW P, NEW K, Open(L, P, K), NEW c
    PROVE  Open(LowerCondition(L, c), P, K)
  BY TempReadKeeps, LogicalKeeps DEF LowerCondition

-----------------------------------------------------------------------------
(***************************************************************************)
(* The drops of a scope.                                                   *)
(***************************************************************************)

\* A function on 1..n is a sequence of its values.
LEMMA SeqOfValues ==
    ASSUME NEW n \in Nat, NEW f, f = [i \in 1..n |-> f[i]]
    PROVE  f \in Seq({f[i] : i \in 1..n}) /\ DOMAIN f = 1..n
  OBVIOUS

\* The locals above a floor are so many.
LEMMA LocalsAboveMany ==
    ASSUME NEW L, NEW K, IsLowering(L, K), NEW floor \in Nat
    PROVE  \E n \in Nat : DOMAIN LocalsAbove(L, floor) = 1..n /\ Len(LocalsAbove(L, floor)) = n
<1>1. PICK C : L.locals \in Seq(C)
  BY DEF IsLowering
<1>2. PICK t : t = SubSeq(L.locals, floor + 1, Len(L.locals))
  OBVIOUS
<1>3. t \in Seq(C) /\ Len(t) \in Nat
  BY <1>1, <1>2
<1>4. Reverse(t) = [i \in 1..Len(t) |-> t[(Len(t) - i) + 1]]
  BY DEF Reverse
<1>5. DOMAIN Reverse(t) = 1..Len(t) /\ Len(Reverse(t)) = Len(t)
  BY <1>3, <1>4
<1> QED
  BY <1>2, <1>3, <1>5 DEF LocalsAbove

\* The drops of a return or a jump.
LEMMA DropsKeep ==
    ASSUME NEW L, NEW P, NEW K, Open(L, P, K), NEW floor \in Nat
    PROVE  Open(DropDownTo(L, floor), P, K)
<1> DEFINE above == LocalsAbove(L, floor)
           drops == [i \in DOMAIN above |-> Drop(above[i].value)]
<1>1. PICK n \in Nat : DOMAIN above = 1..n
  BY LocalsAboveMany DEF Open, Written
<1> HIDE DEF above
<1>2. drops = [i \in 1..n |-> drops[i]] /\ \A i \in 1..n : drops[i] = Drop(above[i].value)
  BY <1>1
<1> HIDE DEF drops
<1>3. drops \in Seq({drops[i] : i \in 1..n}) /\ DOMAIN drops = 1..n
  BY <1>2, SeqOfValues
<1>4. Straight(drops)
  BY <1>2, <1>3, Ops DEF Straight
<1>5. Open(EmitAll(L, drops), P, K)
  BY <1>3, <1>4, EmitAllOpen
<1> QED
  BY <1>5 DEF DropDownTo, drops, above

\* Unbinding the locals of a scope leaves the code alone.
LEMMA UnbindKeeps ==
    ASSUME NEW L, NEW P, NEW K, NEW enclosing \in Nat
    PROVE  LET M == [L EXCEPT !.locals = SubSeq(@, 1, enclosing)]
           IN (Open(L, P, K) => Open(M, P, K)) /\ (Shut(L, P, K) => Shut(M, P, K))
<1> DEFINE M == [L EXCEPT !.locals = SubSeq(@, 1, enclosing)]
<1> SUFFICES ASSUME IsLowering(L, K)
             PROVE  (Open(L, P, K) => Open(M, P, K)) /\ (Shut(L, P, K) => Shut(M, P, K))
  BY DEF Open, Shut, Written
<1>1. /\ DOMAIN M = DOMAIN L /\ M.locals = SubSeq(L.locals, 1, enclosing)
      /\ M.loopLocalFloor = L.loopLocalFloor
      /\ M.breakTarget = L.breakTarget /\ M.continueTarget = L.continueTarget
      /\ M.block = L.block /\ M.blocks = L.blocks
  BY DEF IsLowering, LoweringFields
<1> HIDE DEF M
<1>2. PICK C, s : s \in Seq(C) /\ s = L.locals
  BY DEF IsLowering
<1>3. PICK t : t = SubSeq(s, 1, enclosing)
  OBVIOUS
<1>4. t = [i \in 1..enclosing |-> s[i]]
  BY <1>2, <1>3
<1>5. t = [i \in 1..enclosing |-> t[i]]
  BY <1>4
<1>6. \E D : t \in Seq(D)
  BY <1>5, SeqOfValues
<1>7. IsLowering(M, K)
  BY <1>1, <1>2, <1>3, <1>6 DEF IsLowering
<1> QED
  BY <1>1, <1>7, OtherFields

\* lower_scope_end leaves an open block open and emits nothing into a shut one.
LEMMA ScopeEndKeeps ==
    ASSUME NEW L, NEW P, NEW K, NEW enclosing \in Nat
    PROVE  /\ Open(L, P, K) => Open(LowerScopeEnd(L, enclosing), P, K)
           /\ Shut(L, P, K) => Shut(LowerScopeEnd(L, enclosing), P, K)
<1> DEFINE ending == LocalsAbove(L, enclosing)
           local(i) == ending[(i + 1) \div 2].value
           insts == [i \in 1..(2 * Len(ending)) |->
                       IF i % 2 = 1 THEN Drop(local(i)) ELSE StorageDead(local(i))]
           ended == IF Terminated(L) THEN L ELSE EmitAll(L, insts)
<1>1. LowerScopeEnd(L, enclosing) = [ended EXCEPT !.locals = SubSeq(@, 1, enclosing)]
  BY DEF LowerScopeEnd
<1>2. ASSUME Open(L, P, K) PROVE Open(EmitAll(L, insts), P, K)
  <2>1. PICK n \in Nat : Len(ending) = n
    BY <1>2, LocalsAboveMany DEF Open, Written
  <2> HIDE DEF ending
  <2>2. 2 * Len(ending) \in Nat
    BY <2>1
  <2>3. PICK m \in Nat : m = 2 * Len(ending)
    BY <2>2
  <2>4. /\ insts = [i \in 1..m |-> insts[i]]
        /\ \A i \in 1..m : insts[i] = Drop(local(i)) \/ insts[i] = StorageDead(local(i))
    BY <2>3
  <2> HIDE DEF insts, local
  <2>5. insts \in Seq({insts[i] : i \in 1..m}) /\ DOMAIN insts = 1..m
    BY <2>4, SeqOfValues
  <2>6. Straight(insts)
    BY <2>4, <2>5, Ops DEF Straight
  <2> QED
    BY <1>2, <2>5, <2>6, EmitAllOpen
<1> HIDE DEF insts
<1>3. (Open(L, P, K) => Open(ended, P, K)) /\ (Shut(L, P, K) => Shut(ended, P, K))
  BY <1>2 DEF Open, Shut
<1> HIDE DEF ended
<1>4. /\ Open(ended, P, K) => Open([ended EXCEPT !.locals = SubSeq(@, 1, enclosing)], P, K)
      /\ Shut(ended, P, K) => Shut([ended EXCEPT !.locals = SubSeq(@, 1, enclosing)], P, K)
  BY UnbindKeeps
<1> QED
  BY <1>1, <1>3, <1>4, Zenon

-----------------------------------------------------------------------------
(***************************************************************************)
(* Statements: what each leaves of an open block.                          *)
(***************************************************************************)
LEMMA VarDeclKeeps ==
    ASSUME NEW L, NEW P, NEW K, Open(L, P, K), NEW x, NEW e
    PROVE  Open(VarDecl(L, x, e), P, K)
<1> DEFINE v == Fresh(L)
           moved == LowerMoved(Emit(BindLocal(ValueCreate(L), x, v), StorageLive(v)), e)
<1>1. Open(BindLocal(ValueCreate(L), x, v), P, K)
  BY ValueCreateKeeps, BindLocalKeeps
<1>2. Open(Emit(BindLocal(ValueCreate(L), x, v), StorageLive(v)), P, K)
  BY <1>1, EmitEffect, Ops
<1>3. Open(moved, P, K)
  BY <1>2, MovedKeeps
<1> HIDE DEF moved
<1>4. Open(Emit(moved, Store(v, moved.value)), P, K)
  BY <1>3, EmitEffect, Ops
<1> QED
  BY <1>4 DEF VarDecl, moved

\* Two instructions, none a terminator.
LEMMA EmitTwoOpen ==
    ASSUME NEW L, NEW P, NEW K, Open(L, P, K), NEW i, NEW j, ~ IsTerminator(i), ~ IsTerminator(j)
    PROVE  Open(EmitAll(L, <<i, j>>), P, K)
<1>1. <<i, j>> \in Seq({i, j}) /\ Straight(<<i, j>>)
  BY DEF Straight
<1> QED
  BY <1>1, EmitAllOpen

\* lower_var_decl with a struct literal.
LEMMA LitDeclKeeps ==
    ASSUME NEW L, NEW P, NEW K, Open(L, P, K), NEW x
    PROVE  Open(LitDecl(L, x), P, K)
<1> DEFINE v == Fresh(L)
           bound == BindLocal(ValueCreate(L), x, v)
           moved == LowerMoved(EmitAll(bound, <<StorageLive(v), StorageInit(v)>>), "make")
<1>1. Open(bound, P, K)
  BY ValueCreateKeeps, BindLocalKeeps
<1> HIDE DEF bound
<1>2. Open(EmitAll(bound, <<StorageLive(v), StorageInit(v)>>), P, K)
  BY <1>1, EmitTwoOpen, Ops
<1>3. Open(moved, P, K)
  BY <1>2, MovedKeeps
<1> HIDE DEF moved
<1>4. Open(Emit(moved, StoreField(v, moved.value)), P, K)
  BY <1>3, EmitEffect, Ops
<1> QED
  BY <1>4 DEF LitDecl, moved, bound

\* An assignment to a variable.
LEMMA AssignKeeps ==
    ASSUME NEW L, NEW P, NEW K, Open(L, P, K), NEW x, NEW e
    PROVE  Open(Assign(L, x, e), P, K)
<1>1. Open(LowerMoved(L, e), P, K)
  BY MovedKeeps
<1> QED
  BY <1>1, EmitEffect, Ops DEF Assign

\* An assignment to a field.
LEMMA FieldAssignKeeps ==
    ASSUME NEW L, NEW P, NEW K, Open(L, P, K), NEW x
    PROVE  Open(FieldAssign(L, x), P, K)
<1> DEFINE held == Fresh(L)
           moved == LowerMoved(LowerLoadFrom(L, LoadField, LocalValue(L, x)), "make")
<1>1. Open(moved, P, K)
  BY LoadKeeps, MovedKeeps
<1> HIDE DEF moved
<1>2. Open(EmitAll(moved, <<StoreField(LocalValue(L, x), moved.value), Drop(held)>>), P, K)
  BY <1>1, EmitTwoOpen, Ops
<1> QED
  BY <1>2 DEF FieldAssign, moved

\* A call that consumes its argument.
LEMMA TakeKeeps ==
    ASSUME NEW L, NEW P, NEW K, Open(L, P, K), NEW e
    PROVE  Open(TakeCall(L, e), P, K)
<1> DEFINE moved == LowerMoved(L, e)
<1>1. Open(ValueCreate(moved), P, K)
  BY MovedKeeps, ValueCreateKeeps
<1> HIDE DEF moved
<1>2. Open(Emit(ValueCreate(moved), Call("take", Fresh(moved), moved.value)), P, K)
  BY <1>1, EmitEffect, Ops
<1> QED
  BY <1>2 DEF TakeCall, moved

\* A call that borrows its argument.
LEMMA PeekKeeps ==
    ASSUME NEW L, NEW P, NEW K, Open(L, P, K), NEW x
    PROVE  Open(PeekCall(L, x), P, K)
<1> DEFINE r == Fresh(L)
           lent == Emit(ValueCreate(L), Ref(r, LocalValue(L, x)))
<1>1. Open(lent, P, K)
  BY ValueCreateKeeps, EmitEffect, Ops
<1> HIDE DEF lent
<1>2. Open(Emit(ValueCreate(lent), Call("peek", Fresh(lent), r)), P, K)
  BY <1>1, ValueCreateKeeps, EmitEffect, Ops
<1> QED
  BY <1>2 DEF PeekCall, lent

\* lower_return ends the block.
LEMMA ReturnShuts ==
    ASSUME NEW L, NEW P, NEW K, Open(L, P, K), NEW e
    PROVE  Shut(ReturnOf(L, e), P, K)
<1> DEFINE none == [L EXCEPT !.value = None]
           moved == IF e = "number" THEN none ELSE LowerMoved(L, e)
           done == LowerTerminator(DropDownTo(moved, 0), Return(moved.value))
           M == [done EXCEPT !.returned = TRUE]
<1>1. IsLowering(L, K)
  BY DEF Open, Written
<1>2. IsLowering(none, K) /\ none.blocks = L.blocks /\ none.block = L.block
  BY <1>1 DEF IsLowering, LoweringFields
<1> HIDE DEF none
<1>3. Open(moved, P, K)
  BY <1>2, OtherFields, MovedKeeps
<1> HIDE DEF moved
<1>4. Shut(done, P, K)
  BY <1>3, DropsKeep, LowerTerminatorShuts, Ops DEF Open
<1> HIDE DEF done
<1>5. IsLowering(M, K) /\ M.blocks = done.blocks /\ M.block = done.block
  BY <1>4 DEF Shut, Written, IsLowering, LoweringFields
<1> HIDE DEF M
<1>6. Shut(M, P, K)
  BY <1>4, <1>5, OtherFields
<1> QED
  BY <1>6 DEF ReturnOf, M, done, moved, none

-----------------------------------------------------------------------------
(***************************************************************************)
(* Open statements and the blocks they wait for: the join and the          *)
(* else-block of an if, the post block and the exit of a loop.             *)
(***************************************************************************)
FrameFields == {"kind", "enclosing", "to", "outer", "thenReturned", "post", "scope", "loop"}

IsFrame(f, K) ==
    /\ DOMAIN f = FrameFields
    /\ f.enclosing \in Nat /\ f.scope \in Nat /\ f.loop.floor \in Nat
    /\ f.loop.brk # None => f.loop.brk \in K /\ f.loop.cont \in K
    /\ f.kind = "for" => f.to[1] \in Nat /\ f.to[1] \in K

PendingOf(f) ==
    CASE f.kind = "then" -> {f.to[1], f.to[2]}
      [] f.kind = "else" -> {f.to[1]}
      [] f.kind = "for"  -> {f.to[1] + 2, f.to[1] + 3}
      [] OTHER -> {}

Pending(fs) == UNION {PendingOf(fs[i]) : i \in DOMAIN fs}

Stack(fs, K) ==
    /\ \E C : fs \in Seq(C)
    /\ \A i \in DOMAIN fs : IsFrame(fs[i], K) /\ (fs[i].kind = "body" <=> i = 1)
    /\ \A i, j \in DOMAIN fs : i # j => PendingOf(fs[i]) \cap PendingOf(fs[j]) = {}

\* A statement opened inside another waits for blocks of its own.
LEMMA Push ==
    ASSUME NEW fs, NEW K, Stack(fs, K), fs # <<>>, NEW f, IsFrame(f, K), f.kind # "body",
           PendingOf(f) \cap Pending(fs) = {}
    PROVE  /\ Stack(Append(fs, f), K) /\ Append(fs, f) # <<>>
           /\ Pending(Append(fs, f)) = Pending(fs) \cup PendingOf(f)
<1>1. PICK C : fs \in Seq(C)
  BY DEF Stack
<1> DEFINE E == C \cup {f}
           gs == Append(fs, f)
           n == Len(fs)
<1>2. fs \in Seq(E) /\ f \in E
  BY <1>1
<1> HIDE DEF E
<1>3. /\ gs \in Seq(E) /\ gs # <<>> /\ n \in Nat /\ n > 0 /\ DOMAIN fs = 1..n
      /\ DOMAIN gs = 1..(n + 1) /\ gs[n + 1] = f /\ \A i \in 1..n : gs[i] = fs[i]
  BY <1>2
<1> HIDE DEF gs, n
<1>4. \A i \in 1..(n + 1) : i \in 1..n \/ i = n + 1
  BY <1>3
<1>5. \A i \in 1..n : i \in 1..(n + 1) /\ i # n + 1
  BY <1>3
<1>6. n + 1 \in 1..(n + 1) /\ n + 1 # 1
  BY <1>3
<1>7. Pending(gs) = Pending(fs) \cup PendingOf(f)
  BY <1>3, <1>4, <1>5, <1>6, Zenon DEF Pending
<1>8. \A i \in DOMAIN gs : IsFrame(gs[i], K) /\ (gs[i].kind = "body" <=> i = 1)
  BY <1>3, <1>4, <1>6 DEF Stack
<1>9. ASSUME NEW i \in DOMAIN gs, NEW j \in DOMAIN gs, i # j
      PROVE  PendingOf(gs[i]) \cap PendingOf(gs[j]) = {}
  <2>1. \A k \in 1..n : PendingOf(fs[k]) \subseteq Pending(fs)
    BY <1>3 DEF Pending
  <2>2. CASE i \in 1..n /\ j \in 1..n
    BY <1>3, <1>9, <2>2 DEF Stack
  <2>3. CASE i \in 1..n /\ j = n + 1
    BY <1>3, <2>1, <2>3
  <2>4. CASE i = n + 1 /\ j \in 1..n
    BY <1>3, <2>1, <2>4
  <2> QED
    BY <1>3, <1>4, <1>9, <2>2, <2>3, <2>4
<1>10. Stack(gs, K)
  BY <1>3, <1>8, <1>9 DEF Stack
<1> QED
  BY <1>3, <1>7, <1>10 DEF gs

\* The innermost statement closed, the others wait for what they did.
LEMMA Pop ==
    ASSUME NEW fs, NEW K, Stack(fs, K), fs # <<>>, NEW f, f = fs[Len(fs)],
           NEW below, below = SubSeq(fs, 1, Len(fs) - 1)
    PROVE  /\ Stack(below, K) /\ IsFrame(f, K)
           /\ Pending(fs) = Pending(below) \cup PendingOf(f)
           /\ Pending(below) \cap PendingOf(f) = {}
           /\ f.kind # "body" => below # <<>>
           /\ f.kind = "body" => Pending(fs) = {}
<1>1. PICK C : fs \in Seq(C)
  BY DEF Stack
<1> DEFINE n == Len(fs) - 1
<1>2. /\ below \in Seq(C) /\ n \in Nat /\ DOMAIN fs = 1..(n + 1)
      /\ DOMAIN below = 1..n /\ f = fs[n + 1] /\ \A i \in 1..n : below[i] = fs[i]
      /\ (n # 0 => below # <<>>)
  <2>1. Len(fs) \in Nat /\ Len(fs) > 0 /\ DOMAIN fs = 1..Len(fs)
    BY <1>1
  <2>2. n \in Nat /\ n <= Len(fs) /\ n + 1 = Len(fs)
    BY <2>1
  <2>3. below = SubSeq(fs, 1, n)
    BY Zenon
  <2> HIDE DEF n
  <2>4. below \in Seq(C) /\ Len(below) = n /\ \A i \in 1..n : below[i] = fs[i]
    BY <1>1, <2>2, <2>3
  <2>5. DOMAIN below = 1..n /\ (n # 0 => below # <<>>)
    BY <2>4
  <2> QED
    BY <2>1, <2>2, <2>4, <2>5
<1> HIDE DEF n
<1>3. \A i \in 1..(n + 1) : i \in 1..n \/ i = n + 1
  BY <1>2
<1>4. \A i \in 1..n : i \in 1..(n + 1) /\ i # n + 1
  BY <1>2
<1>5. n + 1 \in 1..(n + 1) /\ (n + 1 = 1 <=> n = 0)
  BY <1>2
<1>6. IsFrame(f, K) /\ (f.kind = "body" <=> n = 0)
  BY <1>2, <1>5 DEF Stack
<1>7. Pending(fs) = Pending(below) \cup PendingOf(f)
  BY <1>2, <1>3, <1>4, <1>5, Zenon DEF Pending
<1>8. Pending(below) \cap PendingOf(f) = {}
  <2>1. \A i \in 1..n : PendingOf(fs[i]) \cap PendingOf(f) = {}
    BY <1>2, <1>4, <1>5 DEF Stack
  <2> QED
    BY <1>2, <2>1 DEF Pending
<1>9. Stack(below, K)
  BY <1>2, <1>4 DEF Stack
<1>10. f.kind = "body" => Pending(fs) = {}
  <2> SUFFICES ASSUME f.kind = "body" PROVE Pending(fs) = {}
    OBVIOUS
  <2>1. PendingOf(f) = {} /\ DOMAIN below = {}
    BY <1>2, <1>6 DEF PendingOf
  <2> QED
    BY <1>7, <2>1 DEF Pending
<1> QED
  BY <1>2, <1>6, <1>7, <1>8, <1>9, <1>10

-----------------------------------------------------------------------------
(***************************************************************************)
(* The invariant.                                                          *)
(***************************************************************************)
Standing(L, fs, K) ==
    /\ Stack(fs, K)
    /\ Written(L, Pending(fs), K)
    /\ fs = <<>> => Terminated(L)

LowerInv == \E K : Standing(lowering, frames, K)

Inv ==
    /\ LowerInv
    /\ stage = "check" => frames = <<>> /\ body = lowering.blocks

\* The function starts out with one block, which is empty.
LEMMA InvInit == Init => Inv
<1> SUFFICES ASSUME Init PROVE Inv
  OBVIOUS
<1>1. PICK params \in Shapes[shape].params :
        /\ lowering = Started(params)
        /\ frames = <<Frame(Started(params), "body", <<>>)>>
  BY DEF Init, LowerInit
<1>2. params \in Seq(Names)
  <2>1. Shapes[shape].params \in SUBSET Seq(Names)
    BY LowerAssumption DEF Init, LowerInit
  <2> QED
    BY <2>1
<1>3. Len(params) \in Nat /\ DOMAIN params = 1..Len(params)
  BY <1>2
<1>4. /\ DOMAIN lowering = LoweringFields /\ lowering.blocks = << <<>> >> /\ lowering.block = 1
      /\ lowering.loopLocalFloor = Len(params) /\ lowering.breakTarget = None
      /\ lowering.locals = [i \in 1..Len(params) |-> [name |-> params[i], value |-> i - 1]]
  BY <1>1, <1>3 DEF Started, LoweringFields
<1>5. lowering.locals = [i \in 1..Len(params) |-> lowering.locals[i]]
  BY <1>4
<1>6. \E C : lowering.locals \in Seq(C)
  BY <1>3, <1>5, SeqOfValues
<1>7. IsLowering(lowering, {})
  BY <1>3, <1>4, <1>6 DEF IsLowering
<1>8. Laid(lowering.blocks, lowering.block, {}, {})
  <2>1. Neat(<<>>) /\ SuccessorSet(<<>>) = {}
    <3>1. Successors(<<>>) = <<>>
      BY DEF Successors, IsTerminated
    <3> QED
      BY <3>1 DEF Neat, SuccessorSet
  <2>2. << <<>> >> \in Seq(Seq({}))
    OBVIOUS
  <2> QED
    BY <1>4, <2>1, <2>2 DEF Laid
<1>9. PICK f : f = Frame(Started(params), "body", <<>>)
  OBVIOUS
<1>10. /\ DOMAIN f = FrameFields /\ f.kind = "body" /\ f.loop.floor = Len(params) /\ f.loop.brk = None
       /\ f.enclosing = Len(Started(params).locals) /\ f.scope = Len(Started(params).locals)
  BY <1>9 DEF Frame, Started, FrameFields
<1>11. Len(lowering.locals) \in Nat
  BY <1>6
<1>12. IsFrame(f, {}) /\ PendingOf(f) = {}
  BY <1>1, <1>3, <1>10, <1>11 DEF IsFrame, PendingOf
<1>13. frames = <<f>> /\ frames \in Seq({f}) /\ DOMAIN frames = {1} /\ frames[1] = f
  BY <1>1, <1>9
<1>14. Stack(frames, {})
  BY <1>10, <1>12, <1>13 DEF Stack
<1>15. Pending(frames) = {}
  BY <1>12, <1>13 DEF Pending
<1>16. frames # <<>> /\ stage # "check"
  BY <1>13 DEF Init
<1> QED
  BY <1>7, <1>8, <1>14, <1>15, <1>16 DEF Inv, LowerInv, Standing, Written

-----------------------------------------------------------------------------
(***************************************************************************)
(* The statements.                                                         *)
(***************************************************************************)

\* A statement that may stand where it does finds its block open.
LEMMA ReadsOpen ==
    ASSUME NEW K, Standing(lowering, frames, K), ~ DeadCode, NEW form, Reads(form)
    PROVE  Open(lowering, Pending(frames), K) /\ frames # <<>>
  BY DEF LowerInv, Standing, Reads, Open

\* A statement that opens no other keeps the invariant.
LEMMA SimpleInv ==
    ASSUME NEW K, Standing(lowering, frames, K), frames # <<>>, NEW M, Simple(M),
           Open(M, Pending(frames), K) \/ Shut(M, Pending(frames), K)
    PROVE  LowerInv'
  BY DEF LowerInv, Standing, Simple, Open, Shut

\* The fields of a frame.
LEMMA FrameIs ==
    ASSUME NEW L, NEW K, IsLowering(L, K), NEW kind, NEW to, NEW f, f = Frame(L, kind, to),
           kind = "for" => to[1] \in Nat /\ to[1] \in K
    PROVE  IsFrame(f, K) /\ f.kind = kind /\ f.to = to
<1>1. Len(L.locals) \in Nat
  BY DEF IsLowering
<1>2. /\ DOMAIN f = FrameFields /\ f.enclosing = Len(L.locals) /\ f.scope = Len(L.locals)
      /\ f.loop.floor = L.loopLocalFloor /\ f.loop.brk = L.breakTarget
      /\ f.loop.cont = L.continueTarget /\ f.kind = kind /\ f.to = to
  BY DEF Frame, FrameFields
<1> QED
  BY <1>1, <1>2 DEF IsFrame, IsLowering

\* stmt_returns' answer has no code.
LEMMA InsideKeeps ==
    ASSUME NEW L, NEW P, NEW K, Open(L, P, K)
    PROVE  Open(Inside(L), P, K)
<1> DEFINE M == Inside(L)
<1>1. IsLowering(L, K)
  BY DEF Open, Written
<1>2. /\ DOMAIN M = DOMAIN L /\ M.locals = L.locals /\ M.loopLocalFloor = L.loopLocalFloor
      /\ M.breakTarget = L.breakTarget /\ M.continueTarget = L.continueTarget
      /\ M.block = L.block /\ M.blocks = L.blocks
  BY <1>1 DEF Inside, IsLowering, LoweringFields
<1> HIDE DEF M
<1>3. Open(M, P, K)
  BY <1>1, <1>2, OtherFields DEF IsLowering
<1> QED
  BY <1>3 DEF M

\* A block statement waits for no block.
LEMMA BlockInv ==
    ASSUME NEW K, Standing(lowering, frames, K), ~ DeadCode, LowerBlock
    PROVE  LowerInv'
<1>1. Open(lowering, Pending(frames), K) /\ frames # <<>> /\ Stack(frames, K)
  BY ReadsOpen DEF LowerBlock, LowerInv, Standing
<1>2. PICK f : f = Frame(lowering, "block", <<>>)
  OBVIOUS
<1>3. IsFrame(f, K) /\ f.kind = "block"
  BY <1>1, <1>2, FrameIs DEF Open, Written
<1>4. PendingOf(f) = {}
  BY <1>3 DEF PendingOf
<1>5. frames' = Append(frames, f) /\ lowering' = Inside(lowering)
  BY <1>2 DEF LowerBlock
<1>6. Stack(frames', K) /\ frames' # <<>> /\ Pending(frames') = Pending(frames)
  BY <1>1, <1>3, <1>4, <1>5, Push
<1>7. Written(lowering', Pending(frames'), K)
  BY <1>1, <1>5, <1>6, InsideKeeps DEF Open
<1> QED
  BY <1>6, <1>7 DEF LowerInv, Standing

\* An if goes on in its then-block and waits for the join and the else-block.
LEMMA IfInv ==
    ASSUME NEW K, Standing(lowering, frames, K), ~ DeadCode, LowerIf
    PROVE  LowerInv'
<1>1. PICK c \in Conditions, otherwise \in {0, 1} :
        /\ Reads(<<"if", c, otherwise>>)
        /\ LET L == LowerCondition(lowering, c)
               then == Len(L.blocks) + 1
               branched == LowerTerminator(BlockCreate(L, 2 + otherwise),
                                           Branch(then, then + 1 + otherwise))
           IN /\ lowering' = Inside([branched EXCEPT !.block = then])
              /\ frames' = Append(frames, Frame(L, "then", <<then + 1, then + 1 + otherwise>>))
  BY DEF LowerIf
<1> DEFINE P == Pending(frames)
<1>2. Open(lowering, P, K) /\ frames # <<>> /\ Stack(frames, K)
  BY <1>1, ReadsOpen DEF LowerInv, Standing
<1>3. PICK L : L = LowerCondition(lowering, c)
  OBVIOUS
<1>4. PICK then : then = Len(L.blocks) + 1
  OBVIOUS
<1>5. PICK branched : branched = LowerTerminator(BlockCreate(L, 2 + otherwise),
                                                 Branch(then, then + 1 + otherwise))
  OBVIOUS
<1>6. PICK f : f = Frame(L, "then", <<then + 1, then + 1 + otherwise>>)
  OBVIOUS
<1>7. lowering' = Inside([branched EXCEPT !.block = then]) /\ frames' = Append(frames, f)
  BY <1>1, <1>3, <1>4, <1>5, <1>6
<1>8. Written(L, P, K) /\ IsLowering(L, K)
  BY <1>2, <1>3, ConditionKeeps DEF Open, Written
<1>9. /\ Written(BlockCreate(L, 2 + otherwise), P \cup (then..(then + 1 + otherwise)), K)
      /\ then \in Nat /\ P \subseteq 1..(then - 1)
  <2>1. 2 + otherwise \in Nat
    OBVIOUS
  <2>2. /\ Written(BlockCreate(L, 2 + otherwise),
                   P \cup ((Len(L.blocks) + 1)..(Len(L.blocks) + (2 + otherwise))), K)
        /\ Len(L.blocks) \in Nat /\ P \cup K \subseteq 2..Len(L.blocks)
    BY <1>8, <2>1, BlockCreateEffect
  <2>3. PICK n \in Nat : n = Len(L.blocks)
    BY <2>2
  <2>4. then = n + 1
    BY <1>4, <2>3
  <2>5. then \in Nat /\ n + (2 + otherwise) = then + 1 + otherwise /\ then - 1 = n
    BY <2>4
  <2>6. /\ Written(BlockCreate(L, 2 + otherwise), P \cup ((n + 1)..(n + (2 + otherwise))), K)
        /\ P \subseteq 1..n
    BY <2>2, <2>3
  <2> QED
    BY <2>4, <2>5, <2>6
<1>10. Shut(branched, P \cup (then..(then + 1 + otherwise)), K)
  <2>1. PICK Q : Q = P \cup (then..(then + 1 + otherwise))
    OBVIOUS
  <2>2. then \in Q \cup K /\ then + 1 + otherwise \in Q \cup K
    BY <1>9, <2>1
  <2>3. GoesTo(Branch(then, then + 1 + otherwise), Q \cup K)
    BY <2>2, Ops
  <2> QED
    BY <1>5, <1>9, <2>1, <2>3, LowerTerminatorShuts, Ops
<1>11. IsFrame(f, K) /\ f.kind = "then" /\ f.to = <<then + 1, then + 1 + otherwise>>
  BY <1>6, <1>8, FrameIs
<1>12. PendingOf(f) = {then + 1, then + 1 + otherwise}
  BY <1>11 DEF PendingOf
<1>13. /\ then \in P \cup (then..(then + 1 + otherwise))
       /\ (P \cup (then..(then + 1 + otherwise))) \ {then} = P \cup {then + 1, then + 1 + otherwise}
       /\ P \cap {then + 1, then + 1 + otherwise} = {}
  BY <1>9
<1>14. Open([branched EXCEPT !.block = then], P \cup PendingOf(f), K)
  <2>1. PICK Q : Q = P \cup (then..(then + 1 + otherwise))
    OBVIOUS
  <2>2. Shut(branched, Q, K) /\ then \in Q /\ Q \ {then} = P \cup PendingOf(f)
    BY <1>10, <1>12, <1>13, <2>1
  <2> QED
    BY <2>2, MoveOpens
<1>15. Stack(frames', K) /\ frames' # <<>> /\ Pending(frames') = P \cup PendingOf(f)
  BY <1>2, <1>7, <1>11, <1>12, <1>13, Push
<1>16. Written(lowering', Pending(frames'), K)
  BY <1>7, <1>14, <1>15, InsideKeeps DEF Open
<1> QED
  BY <1>15, <1>16 DEF LowerInv, Standing

\* What is known of more blocks is known of fewer.
LEMMA StackKnows ==
    ASSUME NEW fs, NEW K, NEW J, K \subseteq J, Stack(fs, K)
    PROVE  Stack(fs, J)
<1>1. \A f : IsFrame(f, K) => IsFrame(f, J)
  BY DEF IsFrame
<1> QED
  BY <1>1 DEF Stack

\* Blocks that wait may be jumped to later.
LEMMA WrittenKnows ==
    ASSUME NEW L, NEW P, NEW K, NEW S, S \subseteq P, Written(L, P, K)
    PROVE  Written(L, P, K \cup S)
  BY DEF Written, IsLowering, Laid

\* A loop goes on in its body, waits for the post block and the exit, and makes
\* them the targets of continue and break.
LEMMA ForInv ==
    ASSUME NEW K, Standing(lowering, frames, K), ~ DeadCode, LowerFor
    PROVE  LowerInv'
<1>1. PICK c \in Conditions \cup {"none"}, post \in {0, 1} :
        /\ Reads(<<"for", c, post>>)
        /\ LET header == Len(lowering.blocks) + 1
               entered == [LowerJump(BlockCreate(lowering, 4), header) EXCEPT !.block = header]
               L == IF c = "none" THEN LowerJump(entered, header + 1)
                    ELSE LowerTerminator(LowerCondition(entered, c), Branch(header + 1, header + 3))
           IN /\ lowering' = Inside([L EXCEPT !.block = header + 1,
                                              !.breakTarget = header + 3,
                                              !.continueTarget = header + 2,
                                              !.loopLocalFloor = Len(L.locals)])
              /\ frames' = Append(frames, [Frame(lowering, "for", <<header>>)
                                             EXCEPT !.scope = Len(L.locals), !.post = (post = 1)])
  BY DEF LowerFor
<1> DEFINE P == Pending(frames)
<1>2. Open(lowering, P, K) /\ frames # <<>> /\ Stack(frames, K)
  BY <1>1, ReadsOpen DEF LowerInv, Standing
<1>3. PICK header : header = Len(lowering.blocks) + 1
  OBVIOUS
<1>4. PICK entered : entered = [LowerJump(BlockCreate(lowering, 4), header) EXCEPT !.block = header]
  OBVIOUS
<1>5. PICK L : L = IF c = "none" THEN LowerJump(entered, header + 1)
                   ELSE LowerTerminator(LowerCondition(entered, c), Branch(header + 1, header + 3))
  OBVIOUS
<1>6. PICK f, g : /\ f = Frame(lowering, "for", <<header>>)
                  /\ g = [f EXCEPT !.scope = Len(L.locals), !.post = (post = 1)]
  OBVIOUS
<1>7. PICK M : M = [L EXCEPT !.block = header + 1, !.breakTarget = header + 3,
                             !.continueTarget = header + 2, !.loopLocalFloor = Len(L.locals)]
  OBVIOUS
<1>8. lowering' = Inside(M) /\ frames' = Append(frames, g)
  BY <1>1, <1>3, <1>4, <1>5, <1>6, <1>7
<1>9. /\ Written(BlockCreate(lowering, 4), P \cup (header..(header + 3)), K)
      /\ header \in Nat /\ P \subseteq 1..(header - 1)
  <2>1. /\ Written(BlockCreate(lowering, 4),
                   P \cup ((Len(lowering.blocks) + 1)..(Len(lowering.blocks) + 4)), K)
        /\ Len(lowering.blocks) \in Nat /\ P \cup K \subseteq 2..Len(lowering.blocks)
    BY <1>2, BlockCreateEffect DEF Open
  <2>2. PICK n \in Nat : n = Len(lowering.blocks)
    BY <2>1
  <2>3. header = n + 1
    BY <1>3, <2>2
  <2>4. header \in Nat /\ n + 4 = header + 3 /\ header - 1 = n
    BY <2>3
  <2>5. Written(BlockCreate(lowering, 4), P \cup ((n + 1)..(n + 4)), K) /\ P \subseteq 1..n
    BY <2>1, <2>2
  <2> QED
    BY <2>3, <2>4, <2>5
<1>10. PICK Q : Q = P \cup (header..(header + 3))
  OBVIOUS
<1>11. PICK one, two, three : one = header + 1 /\ two = header + 2 /\ three = header + 3
  OBVIOUS
<1>12. /\ header \in Q /\ Q \ {header} = P \cup {one, two, three} /\ one \notin P \cup {two, three}
       /\ P \cap {two, three} = {} /\ {header, two, three} \subseteq Q
  BY <1>9, <1>10, <1>11
<1>13. PICK J : J = K \cup {header, two, three}
  OBVIOUS
<1>14. Open(entered, P \cup {one, two, three}, J)
  <2>1. Written(BlockCreate(lowering, 4), Q, J)
    BY <1>9, <1>10, <1>12, <1>13, WrittenKnows
  <2>2. Shut(LowerJump(BlockCreate(lowering, 4), header), Q, J)
    BY <1>12, <2>1, LowerJumpShuts
  <2> QED
    BY <1>4, <1>12, <2>2, MoveOpens
<1>15. Shut(L, P \cup {one, two, three}, J)
  <2>1. CASE c = "none"
    <3>1. L = LowerJump(entered, one)
      BY <1>5, <1>11, <2>1
    <3> QED
      BY <1>14, <3>1, LowerJumpShuts DEF Open
  <2>2. CASE c # "none"
    <3>1. L = LowerTerminator(LowerCondition(entered, c), Branch(one, three))
      BY <1>5, <1>11, <2>2
    <3>2. GoesTo(Branch(one, three), (P \cup {one, two, three}) \cup J)
      BY Ops
    <3> QED
      BY <1>14, <3>1, <3>2, ConditionKeeps, LowerTerminatorShuts, Ops DEF Open
  <2> QED
    BY <2>1, <2>2
<1>16. (P \cup {one, two, three}) \ {one} = P \cup {two, three}
  BY <1>12
<1>17. Open([L EXCEPT !.block = one], P \cup {two, three}, J)
  BY <1>15, <1>16, MoveOpens
<1>18. IsLowering(L, J) /\ Len(L.locals) \in Nat
  BY <1>15 DEF Shut, Written, IsLowering
<1>19. Open(M, P \cup {two, three}, J)
  <2>1. PICK N : N = [L EXCEPT !.block = one]
    OBVIOUS
  <2>2. Open(N, P \cup {two, three}, J) /\ N.blocks = L.blocks /\ N.block = one
    BY <1>17, <1>18, <2>1 DEF IsLowering, LoweringFields
  <2>3. /\ DOMAIN M = DOMAIN L /\ M.locals = L.locals /\ M.loopLocalFloor = Len(L.locals)
        /\ M.breakTarget = three /\ M.continueTarget = two
        /\ M.block = one /\ M.blocks = L.blocks
    BY <1>7, <1>11, <1>18 DEF IsLowering, LoweringFields
  <2>4. IsLowering(M, J)
    BY <1>13, <1>18, <2>3 DEF IsLowering
  <2> QED
    BY <2>2, <2>3, <2>4, OtherFields
<1>20. IsFrame(g, J) /\ g.kind = "for" /\ g.to[1] = header
  <2>1. IsLowering(lowering, J)
    BY <1>2, <1>13 DEF Open, Written, IsLowering
  <2>2. IsFrame(f, J) /\ f.kind = "for" /\ f.to = <<header>>
    BY <1>6, <1>9, <1>13, <2>1, FrameIs
  <2>3. /\ DOMAIN g = DOMAIN f /\ g.kind = f.kind /\ g.to = f.to /\ g.scope = Len(L.locals)
        /\ g.enclosing = f.enclosing /\ g.loop = f.loop
    BY <1>6, <2>2 DEF IsFrame, FrameFields
  <2> QED
    BY <1>18, <2>2, <2>3 DEF IsFrame
<1>21. PendingOf(g) = {two, three}
  BY <1>11, <1>20 DEF PendingOf
<1>22. Stack(frames, J)
  BY <1>2, <1>13, StackKnows
<1>23. Stack(frames', J) /\ frames' # <<>> /\ Pending(frames') = P \cup {two, three}
  BY <1>2, <1>8, <1>12, <1>20, <1>21, <1>22, Push
<1>24. Written(lowering', Pending(frames'), J)
  BY <1>8, <1>19, <1>23, InsideKeeps DEF Open
<1> QED
  BY <1>23, <1>24 DEF LowerInv, Standing

\* break and continue lead to blocks the innermost loop waits for.
LEMMA JumpInv ==
    ASSUME NEW K, Standing(lowering, frames, K), ~ DeadCode, LowerStmtJump
    PROVE  LowerInv'
<1>1. PICK jump \in {"break", "continue"} :
        /\ Reads(<<jump>>) /\ lowering.breakTarget # None
        /\ LET L == DropDownTo(lowering, lowering.loopLocalFloor)
           IN Simple(LowerJump(L, IF jump = "break" THEN L.breakTarget ELSE L.continueTarget))
  BY DEF LowerStmtJump
<1>2. Open(lowering, Pending(frames), K) /\ frames # <<>>
  BY <1>1, ReadsOpen
<1>3. PICK L : L = DropDownTo(lowering, lowering.loopLocalFloor)
  OBVIOUS
<1>4. Open(L, Pending(frames), K)
  BY <1>2, <1>3, DropsKeep DEF Open, Written, IsLowering
<1>5. L.breakTarget = lowering.breakTarget /\ L.breakTarget # None
  <2>1. PICK insts : L = EmitAll(lowering, insts)
    BY <1>3 DEF DropDownTo
  <2> QED
    BY <1>1, <1>2, <2>1 DEF EmitAll, Open, Written, IsLowering, LoweringFields
<1>6. PICK target : Simple(LowerJump(L, target)) /\ target \in {L.breakTarget, L.continueTarget}
  BY <1>1, <1>3
<1>7. Shut(LowerJump(L, target), Pending(frames), K)
  BY <1>4, <1>5, <1>6, LowerJumpShuts DEF Open, Written, IsLowering
<1> QED
  BY <1>2, <1>6, <1>7, SimpleInv

\* Every statement keeps the invariant.
LEMMA StatementInv ==
    ASSUME NEW K, Standing(lowering, frames, K), ~ DeadCode, LowerStatement
    PROVE  LowerInv'
<1> DEFINE P == Pending(frames)
<1>1. CASE LowerVarDecl
  <2>1. PICK x \in Names, e \in Exprs : Reads(<<"let", x, e>>) /\ Simple(VarDecl(lowering, x, e))
    BY <1>1 DEF LowerVarDecl
  <2>2. Open(lowering, P, K) /\ frames # <<>>
    BY <2>1, ReadsOpen
  <2> QED
    BY <2>1, <2>2, VarDeclKeeps, SimpleInv
<1>2. CASE LowerStructLit
  <2>1. PICK x \in Names : Reads(<<"lit", x>>) /\ Simple(LitDecl(lowering, x))
    BY <1>2 DEF LowerStructLit
  <2>2. Open(lowering, P, K) /\ frames # <<>>
    BY <2>1, ReadsOpen
  <2> QED
    BY <2>1, <2>2, LitDeclKeeps, SimpleInv
<1>3. CASE LowerAssign
  <2>1. PICK x \in Names, e \in Exprs : Reads(<<"assign", x, e>>) /\ Simple(Assign(lowering, x, e))
    BY <1>3 DEF LowerAssign
  <2>2. Open(lowering, P, K) /\ frames # <<>>
    BY <2>1, ReadsOpen
  <2> QED
    BY <2>1, <2>2, AssignKeeps, SimpleInv
<1>4. CASE LowerFieldAssign
  <2>1. PICK x \in Names : Reads(<<"fassign", x>>) /\ Simple(FieldAssign(lowering, x))
    BY <1>4 DEF LowerFieldAssign
  <2>2. Open(lowering, P, K) /\ frames # <<>>
    BY <2>1, ReadsOpen
  <2> QED
    BY <2>1, <2>2, FieldAssignKeeps, SimpleInv
<1>5. CASE LowerTake
  <2>1. PICK e \in Exprs : Reads(<<"take", e>>) /\ Simple(TakeCall(lowering, e))
    BY <1>5 DEF LowerTake
  <2>2. Open(lowering, P, K) /\ frames # <<>>
    BY <2>1, ReadsOpen
  <2> QED
    BY <2>1, <2>2, TakeKeeps, SimpleInv
<1>6. CASE LowerPeek
  <2>1. PICK x \in Names : Reads(<<"peek", x>>) /\ Simple(PeekCall(lowering, x))
    BY <1>6 DEF LowerPeek
  <2>2. Open(lowering, P, K) /\ frames # <<>>
    BY <2>1, ReadsOpen
  <2> QED
    BY <2>1, <2>2, PeekKeeps, SimpleInv
<1>7. CASE LowerExprStmt
  <2>1. PICK c \in Conditions : Reads(<<"expr", c>>) /\ Simple(LowerCondition(lowering, c))
    BY <1>7 DEF LowerExprStmt
  <2>2. Open(lowering, P, K) /\ frames # <<>>
    BY <2>1, ReadsOpen
  <2> QED
    BY <2>1, <2>2, ConditionKeeps, SimpleInv
<1>8. CASE LowerReturn
  <2>1. PICK e : (\E form : Reads(form)) /\ Simple(ReturnOf(lowering, e))
    BY <1>8 DEF LowerReturn
  <2>2. Open(lowering, P, K) /\ frames # <<>>
    BY <2>1, ReadsOpen
  <2> QED
    BY <2>1, <2>2, ReturnShuts, SimpleInv
<1> QED
  BY <1>1, <1>2, <1>3, <1>4, <1>5, <1>6, <1>7, <1>8, BlockInv, IfInv, ForInv, JumpInv
     DEF LowerStatement

-----------------------------------------------------------------------------
(***************************************************************************)
(* The closing braces.                                                     *)
(***************************************************************************)

\* What is known when a brace closes a statement: the blocks it waits for are
\* its own, and its scope has ended.
LEMMA ClosesKnows ==
    ASSUME NEW K, Standing(lowering, frames, K), NEW kind, Closes(kind)
    PROVE  /\ Stack(Below, K) /\ IsFrame(Top, K) /\ Top.kind = kind
           /\ Pending(frames) = Pending(Below) \cup PendingOf(Top)
           /\ Pending(Below) \cap PendingOf(Top) = {}
           /\ kind # "body" => Below # <<>>
           /\ kind = "body" => Pending(frames) = {}
           /\ Written(ScopeEnded, Pending(frames), K)
<1>1. frames # <<>> /\ Top.kind = kind /\ Stack(frames, K) /\ Written(lowering, Pending(frames), K)
  BY DEF Closes, LowerInv, Standing
<1>2. /\ Stack(Below, K) /\ IsFrame(Top, K)
      /\ Pending(frames) = Pending(Below) \cup PendingOf(Top)
      /\ Pending(Below) \cap PendingOf(Top) = {}
      /\ Top.kind # "body" => Below # <<>>
      /\ Top.kind = "body" => Pending(frames) = {}
  BY <1>1, Pop DEF Top, Below
<1>3. Top.scope \in Nat
  BY <1>2 DEF IsFrame
<1>4. Open(lowering, Pending(frames), K) \/ Shut(lowering, Pending(frames), K)
  BY <1>1 DEF Open, Shut
<1>5. Written(LowerScopeEnd(lowering, Top.scope), Pending(frames), K)
  BY <1>3, <1>4, ScopeEndKeeps DEF Open, Shut
<1> QED
  BY <1>1, <1>2, <1>5 DEF ScopeEnded

\* A change of stmt_returns' answer, and of nothing else.
LEMMA ReturnedKeeps ==
    ASSUME NEW L, NEW P, NEW K, NEW r, Written(L, P, K)
    PROVE  Written([L EXCEPT !.returned = r], P, K)
<1> DEFINE M == [L EXCEPT !.returned = r]
<1>1. IsLowering(L, K)
  BY DEF Written
<1>2. /\ DOMAIN M = DOMAIN L /\ M.locals = L.locals /\ M.loopLocalFloor = L.loopLocalFloor
      /\ M.breakTarget = L.breakTarget /\ M.continueTarget = L.continueTarget
      /\ M.block = L.block /\ M.blocks = L.blocks
  BY <1>1 DEF IsLowering, LoweringFields
<1> HIDE DEF M
<1>3. Written(M, P, K)
  BY <1>1, <1>2 DEF IsLowering, Written
<1> QED
  BY <1>3 DEF M

\* The block moved to is written, whatever stmt_returns answers.
LEMMA MoveReturned ==
    ASSUME NEW L, NEW P, NEW K, Shut(L, P, K), NEW c \in P, NEW N, DOMAIN N = DOMAIN L, N.block = c,
           N.blocks = L.blocks, N.locals = L.locals, N.loopLocalFloor = L.loopLocalFloor,
           N.breakTarget = L.breakTarget, N.continueTarget = L.continueTarget
    PROVE  Written(N, P \ {c}, K)
<1> DEFINE M == [L EXCEPT !.block = c]
<1>1. Written(M, P \ {c}, K)
  BY MoveOpens DEF Open
<1>2. IsLowering(L, K)
  BY DEF Shut, Written
<1>3. M.block = N.block /\ M.blocks = N.blocks
  BY <1>2 DEF IsLowering, LoweringFields
<1> HIDE DEF M
<1> QED
  BY <1>1, <1>2, <1>3 DEF IsLowering, Written

\* The brace of a block statement leaves the block being written as it is.
LEMMA CloseBlockInv ==
    ASSUME NEW K, Standing(lowering, frames, K), CloseBlock
    PROVE  LowerInv'
<1>1. Closes("block") /\ frames' = Below
  BY DEF CloseBlock
<1>2. PICK r : lowering' = [ScopeEnded EXCEPT !.returned = r]
  BY DEF CloseBlock
<1>3. /\ Stack(Below, K) /\ Top.kind = "block" /\ Below # <<>>
      /\ Pending(frames) = Pending(Below) \cup PendingOf(Top)
      /\ Written(ScopeEnded, Pending(frames), K)
  BY <1>1, ClosesKnows
<1>4. Pending(frames) = Pending(frames')
  BY <1>1, <1>3 DEF PendingOf
<1>5. Written(lowering', Pending(frames), K)
  BY <1>2, <1>3, ReturnedKeeps
<1> QED
  BY <1>1, <1>3, <1>4, <1>5 DEF LowerInv, Standing

\* The brace of a then-block goes on with the join, or with the else-block.
LEMMA CloseThenInv ==
    ASSUME NEW K, Standing(lowering, frames, K), CloseThen
    PROVE  LowerInv'
<1>1. Closes("then")
  BY DEF CloseThen
<1>2. /\ Stack(Below, K) /\ IsFrame(Top, K) /\ Top.kind = "then" /\ Below # <<>>
      /\ Pending(frames) = Pending(Below) \cup PendingOf(Top)
      /\ Pending(Below) \cap PendingOf(Top) = {}
      /\ Written(ScopeEnded, Pending(frames), K)
  BY <1>1, ClosesKnows
<1>3. PendingOf(Top) = {Top.to[1], Top.to[2]}
  BY <1>2 DEF PendingOf
<1>4. PICK joined : joined = LowerJump(ScopeEnded, Top.to[1])
  OBVIOUS
<1>5. Shut(joined, Pending(frames), K)
  BY <1>2, <1>3, <1>4, LowerJumpShuts
<1>6. CASE Top.to[2] = Top.to[1]
  <2>1. /\ lowering' = [joined EXCEPT !.block = Top.to[1], !.returned = Top.outer]
        /\ frames' = Below
    BY <1>4, <1>6 DEF CloseThen
  <2>2. Top.to[1] \in Pending(frames) /\ Pending(frames) \ {Top.to[1]} = Pending(Below)
    BY <1>2, <1>3, <1>6
  <2>3. Written(lowering', Pending(Below), K)
    <3>1. /\ DOMAIN lowering' = DOMAIN joined /\ lowering'.block = Top.to[1]
          /\ lowering'.blocks = joined.blocks /\ lowering'.locals = joined.locals
          /\ lowering'.loopLocalFloor = joined.loopLocalFloor
          /\ lowering'.breakTarget = joined.breakTarget
          /\ lowering'.continueTarget = joined.continueTarget
      BY <1>5, <2>1 DEF Shut, Written, IsLowering, LoweringFields
    <3> QED
      BY <1>5, <2>2, <3>1, MoveReturned
  <2> QED
    BY <1>2, <2>1, <2>3 DEF LowerInv, Standing
<1>7. CASE Top.to[2] # Top.to[1]
  <2>1. PICK f : f = [Top EXCEPT !.kind = "else", !.thenReturned = lowering.returned]
    OBVIOUS
  <2>2. lowering' = Inside([joined EXCEPT !.block = Top.to[2]]) /\ frames' = Append(Below, f)
    BY <1>4, <1>7, <2>1 DEF CloseThen
  <2>3. IsFrame(f, K) /\ f.kind = "else" /\ f.to = Top.to
    BY <1>2, <2>1 DEF IsFrame, FrameFields
  <2>4. PendingOf(f) = {Top.to[1]}
    BY <2>3 DEF PendingOf
  <2>5. Stack(frames', K) /\ frames' # <<>> /\ Pending(frames') = Pending(Below) \cup {Top.to[1]}
    BY <1>2, <1>3, <2>2, <2>3, <2>4, Push
  <2>6. Top.to[2] \in Pending(frames) /\ Pending(frames) \ {Top.to[2]} = Pending(frames')
    BY <1>2, <1>3, <1>7, <2>5
  <2>7. Written(lowering', Pending(frames'), K)
    BY <1>5, <2>2, <2>6, MoveOpens, InsideKeeps DEF Open
  <2> QED
    BY <2>5, <2>7 DEF LowerInv, Standing
<1> QED
  BY <1>6, <1>7

\* The brace of an else-block goes on with the join.
LEMMA CloseElseInv ==
    ASSUME NEW K, Standing(lowering, frames, K), CloseElse
    PROVE  LowerInv'
<1>1. Closes("else") /\ frames' = Below
  BY DEF CloseElse
<1>2. /\ Stack(Below, K) /\ Top.kind = "else" /\ Below # <<>>
      /\ Pending(frames) = Pending(Below) \cup PendingOf(Top)
      /\ Pending(Below) \cap PendingOf(Top) = {}
      /\ Written(ScopeEnded, Pending(frames), K)
  BY <1>1, ClosesKnows
<1>3. PICK joined : joined = LowerJump(ScopeEnded, Top.to[1])
  OBVIOUS
<1>4. Shut(joined, Pending(frames), K)
  <2>1. Top.to[1] \in Pending(frames) \cup K
    BY <1>2 DEF PendingOf
  <2> QED
    BY <1>2, <1>3, <2>1, LowerJumpShuts
<1>5. PICK r : lowering' = [joined EXCEPT !.block = Top.to[1], !.returned = r]
  BY <1>3 DEF CloseElse
<1>6. Top.to[1] \in Pending(frames) /\ Pending(frames) \ {Top.to[1]} = Pending(Below)
  BY <1>2 DEF PendingOf
<1>7. Written(lowering', Pending(Below), K)
  <2>1. /\ DOMAIN lowering' = DOMAIN joined /\ lowering'.block = Top.to[1]
        /\ lowering'.blocks = joined.blocks /\ lowering'.locals = joined.locals
        /\ lowering'.loopLocalFloor = joined.loopLocalFloor
        /\ lowering'.breakTarget = joined.breakTarget
        /\ lowering'.continueTarget = joined.continueTarget
    BY <1>4, <1>5 DEF Shut, Written, IsLowering, LoweringFields
  <2> QED
    BY <1>4, <1>6, <2>1, MoveReturned
<1> QED
  BY <1>1, <1>2, <1>7 DEF LowerInv, Standing

\* The brace of a loop writes the post block, which leads back to the header,
\* and goes on with the exit.
LEMMA CloseForInv ==
    ASSUME NEW K, Standing(lowering, frames, K), CloseFor
    PROVE  LowerInv'
<1>1. Closes("for") /\ frames' = Below /\ lowering' = [ForEnded EXCEPT !.returned = Top.outer]
  BY DEF CloseFor
<1>2. /\ Stack(Below, K) /\ IsFrame(Top, K) /\ Top.kind = "for" /\ Below # <<>>
      /\ Pending(frames) = Pending(Below) \cup PendingOf(Top)
      /\ Pending(Below) \cap PendingOf(Top) = {}
      /\ Written(ScopeEnded, Pending(frames), K)
  BY <1>1, ClosesKnows
<1> DEFINE Q == Pending(Below)
<1>3. PICK header : header = Top.to[1]
  OBVIOUS
<1>4. PICK two, three : two = header + 2 /\ three = header + 3
  OBVIOUS
<1>5. PendingOf(Top) = {two, three} /\ two # three
  BY <1>2, <1>3, <1>4 DEF PendingOf, IsFrame
<1>6. /\ two \in Pending(frames) /\ Pending(frames) \ {two} = Q \cup {three}
      /\ (Q \cup {three}) \ {three} = Q
  BY <1>2, <1>5
<1>7. PICK jumped : jumped = LowerJump(ScopeEnded, two)
  OBVIOUS
<1>8. PICK looped : looped = [jumped EXCEPT
                        !.breakTarget = Top.loop.brk, !.continueTarget = Top.loop.cont,
                        !.loopLocalFloor = Top.loop.floor, !.block = two]
  OBVIOUS
<1>9. PICK back : back = LowerJump(IF Top.post THEN LowerTempRead(looped) ELSE looped, header)
  OBVIOUS
<1>10. ForEnded = LowerScopeEnd([back EXCEPT !.block = three], Top.enclosing)
  BY <1>3, <1>4, <1>7, <1>8, <1>9 DEF ForEnded
<1>11. Shut(jumped, Pending(frames), K)
  BY <1>2, <1>6, <1>7, LowerJumpShuts
<1>12. Open(looped, Q \cup {three}, K)
  <2>1. PICK N : N = [jumped EXCEPT !.block = two]
    OBVIOUS
  <2>2. Open(N, Q \cup {three}, K)
    BY <1>6, <1>11, <2>1, MoveOpens
  <2>3. /\ IsLowering(jumped, K) /\ Top.loop.floor \in Nat
        /\ Top.loop.brk # None => Top.loop.brk \in K /\ Top.loop.cont \in K
    BY <1>2, <1>11 DEF Shut, Written, IsFrame
  <2>4. /\ DOMAIN looped = DOMAIN jumped /\ looped.locals = jumped.locals
        /\ looped.loopLocalFloor = Top.loop.floor
        /\ looped.breakTarget = Top.loop.brk /\ looped.continueTarget = Top.loop.cont
        /\ looped.block = two /\ looped.blocks = jumped.blocks
        /\ N.block = two /\ N.blocks = jumped.blocks
    BY <1>8, <2>1, <2>3 DEF IsLowering, LoweringFields
  <2>5. IsLowering(looped, K)
    BY <2>3, <2>4 DEF IsLowering
  <2> QED
    BY <2>2, <2>4, <2>5, OtherFields
<1>13. Shut(back, Q \cup {three}, K)
  <2>1. header \in K
    BY <1>2, <1>3 DEF IsFrame
  <2> QED
    BY <1>9, <1>12, <2>1, TempReadKeeps, LowerJumpShuts DEF Open
<1>14. Open([back EXCEPT !.block = three], Q, K)
  BY <1>6, <1>13, MoveOpens
<1>15. Written(ForEnded, Q, K)
  BY <1>2, <1>10, <1>14, ScopeEndKeeps DEF IsFrame, Open
<1>16. Written(lowering', Q, K)
  BY <1>1, <1>15, ReturnedKeeps
<1> QED
  BY <1>1, <1>2, <1>16 DEF LowerInv, Standing

\* The last brace leaves no block without a terminator.
LEMMA CloseBodyInv ==
    ASSUME NEW K, Standing(lowering, frames, K), CloseBody
    PROVE  LowerInv'
<1>1. Closes("body") /\ frames' = <<>> /\ lowering' = LowerTerminator(ScopeEnded, Return(None))
  BY DEF CloseBody
<1>2. Pending(frames) = {} /\ Written(ScopeEnded, Pending(frames), K)
  BY <1>1, ClosesKnows
<1>3. Shut(lowering', {}, K)
  BY <1>1, <1>2, LowerTerminatorShuts, Ops
<1>4. Stack(<<>>, K) /\ Pending(<<>>) = {}
  <2>1. <<>> \in Seq({}) /\ DOMAIN <<>> = {}
    OBVIOUS
  <2> QED
    BY <2>1 DEF Stack, Pending
<1> QED
  BY <1>1, <1>3, <1>4 DEF LowerInv, Standing, Shut

-----------------------------------------------------------------------------
\* The body is handed on when every statement is closed, and read nowhere else.
LEMMA InvNext ==
    ASSUME Inv, ~ DeadCode, [Next]_vars
    PROVE  Inv'
<1>1. CASE Lower
  <2>1. stage = "lower" /\ stage' = stage /\ LowerNext
    BY <1>1 DEF Lower
  <2>2. PICK K : Standing(lowering, frames, K)
    BY DEF Inv, LowerInv
  <2>3. LowerInv'
    BY <2>1, <2>2, StatementInv, CloseBlockInv, CloseThenInv, CloseElseInv, CloseForInv, CloseBodyInv
       DEF LowerNext, LowerClose
  <2> QED
    BY <2>1, <2>3 DEF Inv
<1>2. CASE Lowered
  BY <1>2 DEF Lowered, lowerVars, Inv, LowerInv
<1>3. CASE BorrowCheck
  BY <1>3 DEF BorrowCheck, lowerVars, Inv, LowerInv
<1>4. CASE ElaborateDrops
  BY <1>4 DEF ElaborateDrops, lowerVars, Inv, LowerInv
<1>5. CASE Run
  <2>1. stage = "run" /\ UNCHANGED lowerVars /\ stage' \in {"run", "over"}
    BY <1>5 DEF Run, RunStorage, RunStore, RunLoad, RunCall, RunFlag, RunDrop, RunJump, RunReturn,
                Advance, AtInst
  <2> QED
    BY <2>1 DEF lowerVars, Inv, LowerInv
<1>6. CASE UNCHANGED vars
  BY <1>6 DEF vars, lowerVars, Inv, LowerInv
<1> QED
  BY <1>1, <1>2, <1>3, <1>4, <1>5, <1>6 DEF Next, Idle

(***************************************************************************)
(* However the statements of a function nest, and whatever they are, every *)
(* block mir_lower.c leaves ends in a terminator, holds no other, and      *)
(* leads to blocks that exist and are not the entry, as long as no         *)
(* statement follows a return or a jump.                                   *)
(***************************************************************************)
THEOREM LoweredIsWellFormed ==
    ASSUME ~ DeadCode
    PROVE  Spec => []BodiesAreWellFormed
<1>1. Inv => BodiesAreWellFormed
  <2> SUFFICES ASSUME Inv, stage = "check"
               PROVE  \A b \in DOMAIN body : /\ IsTerminated(body[b]) /\ Neat(body[b])
                                             /\ SuccessorSet(body[b]) \subseteq DOMAIN body \ {1}
    BY DEF BodiesAreWellFormed, Neat
  <2>1. PICK K : Standing(lowering, frames, K)
    BY DEF Inv, LowerInv
  <2>2. body = lowering.blocks /\ Terminated(lowering) /\ frames = <<>>
    BY <2>1 DEF Inv, Standing
  <2>3. Pending(frames) = {}
    BY <2>2 DEF Pending
  <2>4. Laid(body, lowering.block, {}, K)
    BY <2>1, <2>2, <2>3 DEF Standing, Written
  <2> QED
    BY <2>2, <2>4 DEF Laid, Terminated
<1>2. Inv /\ [Next]_vars => Inv'
  BY InvNext
<1> QED
  BY <1>1, <1>2, InvInit, PTL DEF Spec
=============================================================================
