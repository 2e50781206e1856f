------------------------- MODULE MirLivenessProofs -------------------------
(***************************************************************************)
(* The answers of mir_live_after are sound for every function body whose   *)
(* stores name a slot or a field, or go through more than one projection.  *)
(*                                                                         *)
(* DeadIsNeverUsed speaks of one instruction.  It is strengthened to: what *)
(* was called dead is still outside the live set before the instruction at *)
(* hand (DeadIsNotLive).  That set moves along an edge because a sweep     *)
(* that changed nothing is closed: the end of a block has what its         *)
(* successors need, and its head what its instructions leave of that       *)
(* (Settled, AllClosed).                                                   *)
(***************************************************************************)
EXTENDS MirLiveness, NatFacts, TLAPS

(***************************************************************************)
(* The stores the analysis gets right.  A store through one dereference or *)
(* into one element is taken for one that overwrites its whole base.       *)
(***************************************************************************)
StoreNamesSlot(inst) ==
    inst.op = "store" => (Len(inst.proj) = 1 => inst.proj[1].kind = "field")

StoresNameSlots ==
    \A body \in Functions : \A b \in 1..Len(body) : \A i \in 1..Len(body[b]) :
        StoreNamesSlot(body[b][i])

Closed(b) ==
    /\ \A t \in SuccessorSet(ir[b]) : entry[t] \subseteq exit[b]
    /\ LiveBefore(ir[b], 1, exit[b]) \subseteq entry[b]

Settled == (phase = "sweep" /\ ~ changed) => \A b \in Blocks : b > at => Closed(b)

AllClosed == phase = "run" => \A b \in Blocks : Closed(b)

NotStarted == phase = "sweep" => dead = {} /\ block = 1 /\ index = 1

DeadIsNotLive ==
    phase = "run" => dead \cap LiveBefore(ir[block], index, exit[block]) = {}

IInv == TypeOK /\ Settled /\ AllClosed /\ NotStarted /\ DeadIsNotLive

-----------------------------------------------------------------------------
(***************************************************************************)
(* Facts about step_backwards.                                             *)
(***************************************************************************)

\* Before the last instruction's end, what is live is what is live on exit.
LEMMA LiveAtEnd ==
    ASSUME NEW code, Len(code) \in Nat, NEW out
    PROVE  LiveBefore(code, Len(code) + 1, out) = Bits \cap out
<1>1. (Len(code) + 1)..Len(code) = {}
  OBVIOUS
<1> QED
  BY <1>1 DEF LiveBefore, ReadFirst, Unwritten

\* One step of step_backwards: writes take a bit out, reads put it in.
LEMMA LiveStep ==
    ASSUME NEW code, Len(code) \in Nat, NEW j \in 1..Len(code), NEW out, NEW c \in Bits
    PROVE  c \in LiveBefore(code, j, out) <=>
             \/ c \in Reads(code[j])
             \/ c \notin Writes(code[j]) /\ c \in LiveBefore(code, j + 1, out)
<1>0. j..Len(code) = {j} \cup ((j + 1)..Len(code)) /\ j \notin (j + 1)..Len(code)
  OBVIOUS
<1>1. Unwritten(code, j, c) <=> c \notin Writes(code[j]) /\ Unwritten(code, j + 1, c)
  BY <1>0 DEF Unwritten
<1>2. ReadFirst(code, j, c) <=>
        c \in Reads(code[j]) \/ (c \notin Writes(code[j]) /\ ReadFirst(code, j + 1, c))
  <2>1. ASSUME c \in Reads(code[j]) PROVE ReadFirst(code, j, c)
    <3>1. j..(j - 1) = {}
      OBVIOUS
    <3> QED
      BY <1>0, <2>1, <3>1 DEF ReadFirst
  <2>2. ASSUME NEW i \in (j + 1)..Len(code)
        PROVE  (\A k \in j..(i - 1) : c \notin Writes(code[k])) <=>
                 (c \notin Writes(code[j]) /\ \A k \in (j + 1)..(i - 1) : c \notin Writes(code[k]))
    <3>1. j..(i - 1) = {j} \cup ((j + 1)..(i - 1))
      OBVIOUS
    <3> QED
      BY <3>1
  <2>3. ASSUME c \notin Reads(code[j])
        PROVE  ReadFirst(code, j, c) <=> (c \notin Writes(code[j]) /\ ReadFirst(code, j + 1, c))
    BY <1>0, <2>2, <2>3 DEF ReadFirst
  <2> QED
    BY <2>1, <2>3
<1> QED
  BY <1>1, <1>2 DEF LiveBefore

\* What is used is read, and what is written but not read is overwritten.
LEMMA StoresJudged ==
    ASSUME NEW inst, inst.proj \in Seq(Projections), StoreNamesSlot(inst)
    PROVE  /\ Uses(inst) \subseteq Reads(inst)
           /\ Writes(inst) \ Reads(inst) \subseteq Overwrites(inst)
<1>0. Len(inst.proj) \in Nat /\ DOMAIN inst.proj = 1..Len(inst.proj)
  OBVIOUS
<1>1. CASE inst.op = "store"
  <2>1. CASE Len(inst.proj) > 1
    BY <1>1, <2>1 DEF Uses, Reads, Writes, Overwrites
  <2>2. CASE Len(inst.proj) = 1
    <3>1. inst.proj[1].kind = "field"
      BY <1>1, <2>2 DEF StoreNamesSlot
    <3>2. ~ Dereferences(inst)
      BY <1>0, <2>2, <3>1 DEF Dereferences
    <3> QED
      BY <1>1, <2>2, <3>1, <3>2 DEF Uses, Reads, Writes, Overwrites
  <2>3. CASE Len(inst.proj) = 0
    <3>1. ~ Dereferences(inst) /\ inst.proj = <<>>
      BY <1>0, <2>3 DEF Dereferences
    <3> QED
      BY <1>1, <3>1 DEF Uses, Reads, Writes, Overwrites
  <2>4. \A n \in Nat : n > 1 \/ n = 1 \/ n = 0
    OBVIOUS
  <2> QED
    BY <1>0, <2>1, <2>2, <2>3, <2>4, Zenon
<1>2. CASE inst.op # "store"
  BY <1>2 DEF Uses, Reads, Writes, Overwrites
<1> QED
  BY <1>1, <1>2

\* What the assumption says of the body analysed.
LEMMA BodyFacts ==
    ASSUME ir \in Functions
    PROVE  /\ Len(ir) \in Nat \ {0}
           /\ Blocks \subseteq Nat
           /\ 1 \in Blocks
           /\ \A b \in Blocks :
                /\ Len(ir[b]) \in Nat
                /\ SuccessorSet(ir[b]) \subseteq Blocks
                /\ \A i \in 1..Len(ir[b]) :
                     /\ ir[b][i] \in PathInsts
                     /\ IsTerminator(ir[b][i]) => i = Len(ir[b]) /\ ir[b][i].res = None
<1>1. ir \in Seq(Seq(PathInsts)) /\ WellFormed(ir)
  BY LivenessAssumption DEF WellFormed
<1>2. Len(ir) \in Nat /\ \A b \in 1..Len(ir) : ir[b] \in Seq(PathInsts)
  BY <1>1
<1>3. \A b \in 1..Len(ir) : /\ Len(ir[b]) \in Nat
                            /\ \A i \in 1..Len(ir[b]) : ir[b][i] \in PathInsts
  BY <1>2
<1> QED
  BY <1>1, <1>2, <1>3 DEF WellFormed, Blocks

\* A terminator ends its block and takes no bit out.
LEMMA TerminatorWritesNothing ==
    ASSUME ir \in Functions, NEW b \in Blocks, NEW i \in 1..Len(ir[b]),
           IsTerminator(ir[b][i])
    PROVE  i = Len(ir[b]) /\ Writes(ir[b][i]) = {}
<1>1. i = Len(ir[b]) /\ ir[b][i].res = None
  BY BodyFacts
<1>2. None \notin Values
  BY LivenessAssumption DEF None
<1>3. ir[b][i].op \notin {"store", "storage_live", "storage_dead"}
  BY DEF IsTerminator
<1> QED
  BY <1>1, <1>2, <1>3 DEF Writes, Touched

-----------------------------------------------------------------------------
(***************************************************************************)
(* Type correctness.                                                       *)
(***************************************************************************)

\* The function starts with nothing live and the run at its first block.
LEMMA TypeAtInit == Init => TypeOK
<1> SUFFICES ASSUME Init PROVE TypeOK
  OBVIOUS
<1>1. 1 \in Blocks /\ Len(ir) \in Nat /\ Len(ir[1]) \in Nat
  BY BodyFacts DEF Init
<1>2. at \in 0..Len(ir) /\ index \in 1..(Len(ir[block]) + 1)
  BY <1>1 DEF Init
<1>3. entry \in [Blocks -> SUBSET Bits] /\ exit \in [Blocks -> SUBSET Bits]
  BY DEF Init
<1>4. changed \in BOOLEAN
  BY Zenon DEF Init
<1> QED
  BY <1>1, <1>2, <1>3, <1>4 DEF Init, TypeOK

\* Every step of the sweep and of the run keeps the types.
LEMMA TypeInStep == TypeOK /\ [Next]_vars => TypeOK'
<1> SUFFICES ASSUME TypeOK, [Next]_vars PROVE TypeOK'
  OBVIOUS
<1>0. /\ Len(ir) \in Nat /\ at \in Int
      /\ \A b \in Blocks : Len(ir[b]) \in Nat /\ SuccessorSet(ir[b]) \subseteq Blocks
  BY BodyFacts DEF TypeOK
<1>1. CASE SweepBlock
  <2>1. FlowsIn(at) \subseteq Bits
    BY <1>0, <1>1 DEF SweepBlock, FlowsIn, TypeOK
  <2>2. LiveBefore(ir[at], 1, FlowsIn(at)) \subseteq Bits
    BY DEF LiveBefore
  <2>3. entry' \in [Blocks -> SUBSET Bits] /\ exit' \in [Blocks -> SUBSET Bits]
    BY <1>1, <2>1, <2>2 DEF SweepBlock, TypeOK
  <2>4. at' \in 0..Len(ir)
    BY <1>0, <1>1 DEF SweepBlock, Blocks
  <2>5. changed' \in BOOLEAN
    BY <1>1 DEF SweepBlock
  <2> QED
    BY <1>1, <2>3, <2>4, <2>5 DEF SweepBlock, TypeOK, Blocks
<1>2. CASE SweepAgain
  <2>1. at' \in 0..Len(ir)
    BY <1>0, <1>2 DEF SweepAgain
  <2>2. changed' \in BOOLEAN
    BY <1>2, Zenon DEF SweepAgain
  <2> QED
    BY <1>2, <2>1, <2>2 DEF SweepAgain, TypeOK, Blocks
<1>3. CASE SweepEnds
  BY <1>3 DEF SweepEnds, TypeOK, Blocks
<1>4. CASE RunInst
  <2>1. dead' \subseteq Bits
    BY <1>4 DEF RunInst, DeadAfter, TypeOK
  <2>2. index' \in 1..(Len(ir[block]) + 1)
    BY <1>0, <1>4 DEF RunInst, Running, TypeOK
  <2> QED
    BY <1>4, <2>1, <2>2 DEF RunInst, TypeOK, Blocks
<1>5. CASE RunEdge
  <2>1. dead' \subseteq Bits
    BY <1>5 DEF RunEdge, DeadAfter, TypeOK
  <2>2. block' \in Blocks
    BY <1>0, <1>5 DEF RunEdge, TypeOK
  <2>3. index' \in 1..(Len(ir[block']) + 1)
    BY <1>0, <1>5, <2>2 DEF RunEdge
  <2> QED
    BY <1>5, <2>1, <2>2, <2>3 DEF RunEdge, TypeOK, Blocks
<1>6. CASE RunOver \/ UNCHANGED vars
  BY <1>6 DEF RunOver, vars, TypeOK, Blocks
<1> QED
  BY <1>1, <1>2, <1>3, <1>4, <1>5, <1>6 DEF Next, Analyse

\* mir_liveness_compute only ever sets bits that exist, and the run of any
\* body stays inside its blocks.
THEOREM LivenessTypeCorrect == Spec => []TypeOK
  BY TypeAtInit, TypeInStep, PTL DEF Spec

-----------------------------------------------------------------------------
(***************************************************************************)
(* The fixed point.                                                        *)
(***************************************************************************)

\* A block the sweep leaves as it was is closed, and the ones before it stay so.
LEMMA SweepSettles ==
    ASSUME TypeOK, Settled, SweepBlock
    PROVE  Settled'
<1> SUFFICES ASSUME ~ changed', NEW b \in Blocks, b > at' PROVE Closed(b)'
  BY DEF Settled, SweepBlock, Blocks
<1>1. ~ changed /\ exit' = exit /\ entry' = entry /\ ir' = ir /\ phase = "sweep"
  BY DEF SweepBlock
<1>2. b = at \/ b > at
  BY BodyFacts DEF SweepBlock, TypeOK, Blocks
<1>3. CASE b > at
  BY <1>1, <1>3 DEF Settled, Closed
<1>4. CASE b = at
  <2>1. exit[at] = FlowsIn(at)
    BY <1>1 DEF SweepBlock, TypeOK
  <2>2. entry[at] = entry[at] \cup LiveBefore(ir[at], 1, exit[at])
    BY <1>1, <2>1 DEF SweepBlock, TypeOK
  <2>3. \A t \in SuccessorSet(ir[at]) : entry[t] \subseteq exit[at]
    BY <2>1 DEF FlowsIn
  <2> QED
    BY <1>1, <1>4, <2>2, <2>3 DEF Closed
<1> QED
  BY <1>2, <1>3, <1>4

-----------------------------------------------------------------------------
(***************************************************************************)
(* The run.                                                                *)
(***************************************************************************)

\* An instruction that does not overwrite dead memory leaves it dead.
LEMMA RunInstKeepsDead ==
    ASSUME StoresNameSlots, TypeOK, DeadIsNotLive, RunInst
    PROVE  DeadIsNotLive'
<1> DEFINE code == ir[block]
           out == exit[block]
<1>1. /\ Len(code) \in Nat /\ index \in 1..Len(code)
      /\ Here \in PathInsts /\ StoreNamesSlot(Here) /\ Here = code[index]
  BY BodyFacts DEF RunInst, Running, TypeOK, StoresNameSlots, Here, Blocks
<1>2. Writes(Here) \ Reads(Here) \subseteq Overwrites(Here)
  BY <1>1, StoresJudged DEF PathInsts
<1>3. ASSUME NEW c \in dead, c \notin Overwrites(Here)
      PROVE  c \notin LiveBefore(code, index + 1, out)
  <2>1. c \in Bits /\ c \notin LiveBefore(code, index, out)
    BY <1>3 DEF TypeOK, DeadIsNotLive, RunInst, Running
  <2>2. c \notin Reads(Here)
        /\ ~ (c \notin Writes(Here) /\ c \in LiveBefore(code, index + 1, out))
    BY <1>1, <2>1, LiveStep
  <2> QED
    BY <1>2, <1>3, <2>2
<1>4. /\ dead' = (dead \ Overwrites(Here)) \cup (Bits \ LiveBefore(code, index + 1, out))
      /\ ir' = ir /\ block' = block /\ exit' = exit /\ index' = index + 1
  BY DEF RunInst, DeadAfter
<1>5. dead' \cap LiveBefore(code, index + 1, out) = {}
  BY <1>3, <1>4
<1> QED
  BY <1>4, <1>5 DEF DeadIsNotLive

\* What is dead at the end of a block is dead at the head of its successors.
LEMMA RunEdgeKeepsDead ==
    ASSUME TypeOK, AllClosed, DeadIsNotLive, RunEdge
    PROVE  DeadIsNotLive'
<1> DEFINE code == ir[block]
           out == exit[block]
           t == block'
<1>1. /\ Len(code) \in Nat /\ index \in 1..Len(code) /\ phase = "run"
      /\ index = Len(code) /\ Writes(code[index]) = {}
  BY BodyFacts, TerminatorWritesNothing DEF RunEdge, Running, TypeOK, Here
<1>2. LiveBefore(code, index + 1, out) = Bits \cap out
  BY <1>1, LiveAtEnd
<1>3. dead \subseteq Bits \ out
  <2> SUFFICES ASSUME NEW c \in dead PROVE c \in Bits \ out
    OBVIOUS
  <2>1. c \in Bits /\ c \notin LiveBefore(code, index, out)
    BY <1>1 DEF TypeOK, DeadIsNotLive
  <2>2. c \notin LiveBefore(code, index + 1, out)
    BY <1>1, <2>1, LiveStep
  <2> QED
    BY <1>2, <2>1, <2>2
<1>4. t \in SuccessorSet(code) /\ t \in Blocks
  BY BodyFacts DEF RunEdge, TypeOK
<1>5. LiveBefore(ir[t], 1, exit[t]) \subseteq out
  BY <1>1, <1>4 DEF AllClosed, Closed, TypeOK
<1>6. dead' = dead \cup (Bits \ (Bits \cap out)) /\ ir' = ir /\ exit' = exit /\ index' = 1
  BY <1>2 DEF RunEdge, DeadAfter
<1>7. dead' \cap LiveBefore(ir[t], 1, exit[t]) = {}
  BY <1>3, <1>5, <1>6
<1> QED
  BY <1>6, <1>7 DEF DeadIsNotLive

(***************************************************************************)
(* For every body whose stores name a slot, a field, or a path of more     *)
(* than one projection, what mir_live_after calls dead is not read again   *)
(* before it is overwritten.  The run store_through_a_reference shows that *)
(* the hypothesis cannot be dropped.                                       *)
(***************************************************************************)
THEOREM DeadSound ==
    ASSUME StoresNameSlots
    PROVE  Spec => []DeadIsNeverUsed
<1>1. Init => IInv
  <2> SUFFICES ASSUME Init PROVE IInv
    OBVIOUS
  <2>1. TypeOK
    BY TypeAtInit
  <2>2. \A b \in Blocks : ~ (b > at)
    BY BodyFacts DEF Init, Blocks
  <2> QED
    BY <2>1, <2>2 DEF Init, IInv, Settled, AllClosed, NotStarted, DeadIsNotLive
<1>2. IInv /\ [Next]_vars => IInv'
  <2> SUFFICES ASSUME IInv, [Next]_vars PROVE IInv'
    OBVIOUS
  <2>0. TypeOK /\ TypeOK'
    BY TypeInStep DEF IInv
  <2>1. CASE SweepBlock
    <3>1. Settled'
      BY <2>1, SweepSettles DEF IInv
    <3> QED
      BY <2>0, <2>1, <3>1 DEF SweepBlock, IInv, AllClosed, NotStarted, DeadIsNotLive
  <2>2. CASE SweepAgain
    <3>1. \A b \in Blocks' : ~ (b > at')
      BY <2>0, <2>2, BodyFacts DEF SweepAgain, Blocks, TypeOK
    <3> QED
      BY <2>0, <2>2, <3>1
      DEF SweepAgain, IInv, Settled, AllClosed, NotStarted, DeadIsNotLive
  <2>3. CASE SweepEnds
    <3>1. \A b \in Blocks : Closed(b)
      BY <2>0, <2>3, BodyFacts DEF SweepEnds, IInv, Settled, Blocks, TypeOK
    <3>2. AllClosed'
      BY <2>3, <3>1 DEF SweepEnds, AllClosed, Closed, Blocks
    <3> QED
      BY <2>0, <2>3, <3>2 DEF SweepEnds, IInv, Settled, NotStarted, DeadIsNotLive
  <2>4. CASE RunInst
    <3>1. DeadIsNotLive'
      BY <2>4, RunInstKeepsDead DEF IInv
    <3> QED
      BY <2>0, <2>4, <3>1
      DEF RunInst, Running, IInv, Settled, AllClosed, Closed, NotStarted, Blocks
  <2>5. CASE RunEdge
    <3>1. DeadIsNotLive'
      BY <2>5, RunEdgeKeepsDead DEF IInv
    <3> QED
      BY <2>0, <2>5, <3>1
      DEF RunEdge, Running, IInv, Settled, AllClosed, Closed, NotStarted, Blocks
  <2>6. CASE RunOver \/ UNCHANGED vars
    BY <2>0, <2>6
    DEF RunOver, vars, IInv, Settled, AllClosed, Closed, NotStarted, DeadIsNotLive, Blocks
  <2> QED
    BY <2>1, <2>2, <2>3, <2>4, <2>5, <2>6 DEF Next, Analyse
<1>3. IInv => DeadIsNeverUsed
  <2> SUFFICES ASSUME IInv, Running, NEW c \in Uses(Here), c \in dead PROVE FALSE
    BY DEF DeadIsNeverUsed
  <2>1. /\ Len(ir[block]) \in Nat /\ index \in 1..Len(ir[block])
        /\ Here \in PathInsts /\ StoreNamesSlot(Here) /\ Here = ir[block][index]
    BY BodyFacts DEF IInv, Running, TypeOK, StoresNameSlots, Here, Blocks
  <2>2. c \in Reads(Here)
    BY <2>1, StoresJudged DEF PathInsts
  <2>3. c \in LiveBefore(ir[block], index, exit[block])
    BY <2>1, <2>2, LiveStep DEF IInv, TypeOK
  <2> QED
    BY <2>3 DEF IInv, DeadIsNotLive, Running
<1> QED
  BY <1>1, <1>2, <1>3, PTL DEF Spec

-----------------------------------------------------------------------------
(***************************************************************************)
(* The fixed point is the least one.                                       *)
(*                                                                         *)
(* Nothing is set without a reason: a bit at the head of a block has a     *)
(* path to a read of it, a bit at its end a successor that has one         *)
(* (Justified).  And nothing is missing once every block is closed: a bit  *)
(* read at the end of a path is carried back along it, block by block.     *)
(***************************************************************************)

\* The edges along which step_backwards carries a bit.
Edges(c) ==
    {e \in Blocks \X Blocks : e[2] \in SuccessorSet(ir[e[1]]) /\ Unwritten(ir[e[1]], 1, c)}

\* The paths of the property, by their length.
PathOf(n, b, t, c) ==
    \E path \in [1..n -> Blocks] :
        /\ path[1] = b /\ path[n] = t
        /\ \A i \in 1..(n - 1) : /\ path[i + 1] \in SuccessorSet(ir[path[i]])
                                 /\ Unwritten(ir[path[i]], 1, c)

\* Some path from the head of b reads c before writing it.
Needed(b, c) ==
    \E t \in Blocks : /\ ReadFirst(ir[t], 1, c)
                      /\ \E n \in Nat \ {0} : Leads(Edges(c), Len(ir), n, b, t)

Justified ==
    \A b \in Blocks : /\ \A c \in entry[b] : Needed(b, c)
                      /\ \A c \in exit[b] : \E s \in SuccessorSet(ir[b]) : Needed(s, c)

\* The edges are those of the property's paths.
LEMMA EdgesAre ==
    ASSUME NEW c, NEW a \in Blocks, NEW b \in Blocks
    PROVE  <<a, b>> \in Edges(c) <=> b \in SuccessorSet(ir[a]) /\ Unwritten(ir[a], 1, c)
  BY DEF Edges

\* The paths of the property are paths along these edges.
LEMMA PathsAre ==
    ASSUME NEW b, NEW t, NEW c, NEW n, n \in Nat, n # 0
    PROVE  Leads(Edges(c), Len(ir), n, b, t) <=> PathOf(n, b, t, c)
<1>1. ASSUME NEW path \in [1..n -> Blocks]
      PROVE  Chain(path, n, Edges(c)) <=>
               \A i \in 1..(n - 1) : /\ path[i + 1] \in SuccessorSet(ir[path[i]])
                                     /\ Unwritten(ir[path[i]], 1, c)
  <2>1. \A i \in 1..(n - 1) : i \in 1..n /\ i + 1 \in 1..n
    OBVIOUS
  <2>2. \A i \in 1..(n - 1) : path[i] \in Blocks /\ path[i + 1] \in Blocks
    BY <2>1
  <2>3. \A i \in 1..(n - 1) : <<path[i], path[i + 1]>> \in Edges(c) <=>
          path[i + 1] \in SuccessorSet(ir[path[i]]) /\ Unwritten(ir[path[i]], 1, c)
    BY <2>2, EdgesAre
  <2> QED
    BY <2>3 DEF Chain
<1> QED
  BY <1>1 DEF Leads, PathOf, Blocks

\* A path of the property has one of these lengths.
LEMMA PathIs ==
    ASSUME NEW b, NEW t, NEW c
    PROVE  PathTo(b, t, c) <=> \E n \in 1..Len(ir) : PathOf(n, b, t, c)
  BY DEF PathTo, PathOf

\* A block that reads the bit first needs it.
LEMMA NeededHere ==
    ASSUME NEW b \in Blocks, NEW c, ReadFirst(ir[b], 1, c)
    PROVE  Needed(b, c)
<1> DEFINE p == [i \in 1..1 |-> b]
<1>1. p \in [1..1 -> Blocks] /\ p[1] = b
  OBVIOUS
<1>2. \A i \in 1..(1 - 1) : FALSE
  OBVIOUS
<1>3. Leads(Edges(c), Len(ir), 1, b, b)
  BY <1>1, <1>2 DEF Leads, Chain, Blocks
<1> QED
  BY <1>3 DEF Needed

\* What a successor needs, a block that does not write it needs.
LEMMA NeededBefore ==
    ASSUME NEW b \in Blocks, NEW c, NEW s \in SuccessorSet(ir[b]), s \in Blocks,
           Unwritten(ir[b], 1, c), Needed(s, c)
    PROVE  Needed(b, c)
<1>1. PICK t \in Blocks : /\ ReadFirst(ir[t], 1, c)
                          /\ \E n \in Nat \ {0} : Leads(Edges(c), Len(ir), n, s, t)
  BY DEF Needed
<1>2. PICK n \in Nat \ {0} : Leads(Edges(c), Len(ir), n, s, t)
  BY <1>1
<1>3. PICK p \in [1..n -> Blocks] : p[1] = s /\ p[n] = t /\ Chain(p, n, Edges(c))
  BY <1>2 DEF Leads, Blocks
<1>4. <<b, s>> \in Edges(c)
  BY EdgesAre
<1> DEFINE q == [i \in 1..(n + 1) |-> IF i = 1 THEN b ELSE p[i - 1]]
<1>5. q \in [1..(n + 1) -> Blocks]
  <2>1. \A i \in 1..(n + 1) : i # 1 => i - 1 \in 1..n
    OBVIOUS
  <2> QED
    BY <2>1
<1>6. q[1] = b /\ \A i \in 1..n : q[i + 1] = p[i]
  <2>1. \A i \in 1..n : i + 1 \in 1..(n + 1) /\ i + 1 # 1 /\ (i + 1) - 1 = i
    OBVIOUS
  <2>2. 1 \in 1..(n + 1)
    OBVIOUS
  <2> QED
    BY <2>1, <2>2
<1> HIDE DEF q
<1>7. Chain(q, n + 1, Edges(c))
  <2> SUFFICES ASSUME NEW i \in 1..n PROVE <<q[i], q[i + 1]>> \in Edges(c)
    BY DEF Chain
  <2>1. CASE i = 1
    BY <1>3, <1>4, <1>6, <2>1
  <2>2. CASE i # 1
    <3>1. PICK j \in 1..(n - 1) : i = j + 1 /\ j \in 1..n
      BY <2>2
    <3>2. <<p[j], p[j + 1]>> \in Edges(c)
      BY <1>3 DEF Chain
    <3> QED
      BY <1>6, <3>1, <3>2
  <2> QED
    BY <2>1, <2>2
<1>8. n + 1 \in Nat \ {0} /\ q[n + 1] = t
  BY <1>3, <1>6
<1>9. Leads(Edges(c), Len(ir), n + 1, b, t)
  BY <1>5, <1>6, <1>7, <1>8 DEF Leads, Blocks
<1> QED
  BY <1>1, <1>8, <1>9 DEF Needed

\* A sweep sets only bits that some path needs.
LEMMA SweepJustified ==
    ASSUME TypeOK, Justified, SweepBlock
    PROVE  Justified'
<1>0. /\ at \in Blocks /\ ir' = ir /\ Blocks' = Blocks
      /\ \A b \in Blocks : SuccessorSet(ir[b]) \subseteq Blocks
  BY BodyFacts DEF TypeOK, SweepBlock, Blocks
<1>1. PICK in, live, ext, ent : /\ in = FlowsIn(at) /\ live = LiveBefore(ir[at], 1, in)
                                /\ ext = exit' /\ ent = entry'
  OBVIOUS
<1>11. ext = [exit EXCEPT ![at] = in] /\ ent = [entry EXCEPT ![at] = entry[at] \cup live]
  BY <1>1 DEF SweepBlock
<1>12. /\ ext[at] = in /\ ent[at] = entry[at] \cup live
       /\ \A b \in Blocks \ {at} : ext[b] = exit[b] /\ ent[b] = entry[b]
  <2>1. exit \in [Blocks -> SUBSET Bits] /\ entry \in [Blocks -> SUBSET Bits]
    BY DEF TypeOK
  <2> QED
    BY <1>0, <1>11, <2>1
<1>2. \A c \in in : \E s \in SuccessorSet(ir[at]) : Needed(s, c)
  BY <1>0, <1>1 DEF FlowsIn, Justified
<1>3. \A c \in live : Needed(at, c)
  <2> SUFFICES ASSUME NEW c \in live PROVE Needed(at, c)
    OBVIOUS
  <2>1. ReadFirst(ir[at], 1, c) \/ (c \in in /\ Unwritten(ir[at], 1, c))
    BY <1>1 DEF LiveBefore
  <2>2. CASE ReadFirst(ir[at], 1, c)
    BY <1>0, <2>2, NeededHere
  <2>3. CASE c \in in /\ Unwritten(ir[at], 1, c)
    BY <1>0, <1>2, <2>3, NeededBefore
  <2> QED
    BY <2>1, <2>2, <2>3
<1>4. ASSUME NEW b \in Blocks
      PROVE  /\ \A c \in ent[b] : Needed(b, c)
             /\ \A c \in ext[b] : \E s \in SuccessorSet(ir[b]) : Needed(s, c)
  <2>1. /\ \A c \in entry[b] : Needed(b, c)
        /\ \A c \in exit[b] : \E s \in SuccessorSet(ir[b]) : Needed(s, c)
    BY <1>4 DEF Justified
  <2>2. CASE b = at
    BY <1>12, <1>2, <1>3, <2>1, <2>2
  <2>3. CASE b # at
    <3>1. ent[b] = entry[b] /\ ext[b] = exit[b]
      BY <1>12, <2>3
    <3> QED
      BY <2>1, <3>1
  <2> QED
    BY <2>2, <2>3
<1>5. \A b, c : Needed(b, c)' <=> Needed(b, c)
  BY <1>0 DEF Needed, Edges
<1> QED
  BY <1>0, <1>1, <1>4, <1>5 DEF Justified

\* Closed blocks carry a bit back along the path to its read.
LEMMA ClosedIsEnough ==
    ASSUME TypeOK, \A b \in Blocks : Closed(b), NEW c \in Bits,
           NEW n \in Nat \ {0}, NEW p \in [1..n -> Blocks], Chain(p, n, Edges(c)),
           ReadFirst(ir[p[n]], 1, c)
    PROVE  c \in entry[p[1]]
<1> DEFINE S == {k \in 0..(n - 1) : c \notin entry[p[n - k]]}
<1>1. ASSUME S # {} PROVE FALSE
  <2>1. PICK k \in S : \A i \in S : k <= i
    <3>1. S \subseteq Nat
      OBVIOUS
    <3> HIDE DEF S
    <3> QED
      BY <1>1, <3>1, LeastOfNaturals
  <2>2. k \in 0..(n - 1) /\ c \notin entry[p[n - k]]
    OBVIOUS
  <2>3. CASE k = 0
    <3>1. p[n] \in Blocks /\ c \in LiveBefore(ir[p[n]], 1, exit[p[n]])
      BY DEF LiveBefore
    <3> QED
      BY <2>2, <2>3, <3>1 DEF Closed
  <2>4. CASE k # 0
    <3>1. /\ k - 1 \in 0..(n - 1) /\ n - (k - 1) = (n - k) + 1 /\ ~ (k <= k - 1)
          /\ n - k \in 1..(n - 1) /\ n - k \in 1..n /\ (n - k) + 1 \in 1..n
      BY <2>2, <2>4
    <3>2. c \in entry[p[(n - k) + 1]]
      BY <2>1, <3>1
    <3>3. PICK a, b \in Blocks : a = p[n - k] /\ b = p[(n - k) + 1]
      BY <3>1
    <3>4. b \in SuccessorSet(ir[a]) /\ Unwritten(ir[a], 1, c)
      <4>1. <<p[n - k], p[(n - k) + 1]>> \in Edges(c)
        BY <3>1 DEF Chain
      <4> QED
        BY <3>3, <4>1, EdgesAre
    <3>5. c \in LiveBefore(ir[a], 1, exit[a])
      BY <3>2, <3>3, <3>4 DEF Closed, LiveBefore
    <3> QED
      BY <2>2, <3>3, <3>5 DEF Closed
  <2> QED
    BY <2>3, <2>4
<1>2. n - 1 \in 0..(n - 1) /\ n - (n - 1) = 1
  OBVIOUS
<1> QED
  BY <1>1, <1>2

\* A settled and justified analysis has exactly the bits that are needed.
LEMMA SettledIsExact ==
    ASSUME TypeOK, Settled, Justified
    PROVE  LivenessIsExact
<1> SUFFICES ASSUME phase = "sweep", at = 0, ~ changed, NEW b \in Blocks
             PROVE  entry[b] =
                      {c \in Bits : \E t \in Blocks : ReadFirst(ir[t], 1, c) /\ PathTo(b, t, c)}
  BY DEF LivenessIsExact
<1>0. Len(ir) \in Nat
  BY BodyFacts DEF TypeOK
<1>1. \A x \in Blocks : Closed(x)
  BY <1>0 DEF Settled, Blocks
<1>2. ASSUME NEW c \in entry[b]
      PROVE  c \in Bits /\ \E t \in Blocks : ReadFirst(ir[t], 1, c) /\ PathTo(b, t, c)
  <2>1. c \in Bits /\ Needed(b, c)
    BY <1>2 DEF TypeOK, Justified
  <2>2. PICK t \in Blocks : /\ ReadFirst(ir[t], 1, c)
                            /\ \E n \in Nat \ {0} : Leads(Edges(c), Len(ir), n, b, t)
    BY <2>1 DEF Needed
  <2>3. PICK n \in 1..Len(ir) : Leads(Edges(c), Len(ir), n, b, t)
    BY <1>0, <2>2, ShortPath
  <2>4. n \in Nat /\ n # 0
    BY <1>0
  <2>5. PathTo(b, t, c)
    BY <2>3, <2>4, PathsAre, PathIs
  <2> QED
    BY <2>1, <2>2, <2>5
<1>3. ASSUME NEW c \in Bits, NEW t \in Blocks, ReadFirst(ir[t], 1, c), PathTo(b, t, c)
      PROVE  c \in entry[b]
  <2>1. PICK n \in 1..Len(ir) : Leads(Edges(c), Len(ir), n, b, t)
    <3>1. \A n \in 1..Len(ir) : n \in Nat /\ n # 0
      BY <1>0
    <3> QED
      BY <1>3, <3>1, PathsAre, PathIs
  <2>2. PICK p \in [1..n -> Blocks] : p[1] = b /\ p[n] = t /\ Chain(p, n, Edges(c))
    BY <2>1 DEF Leads, Blocks
  <2>3. n \in Nat \ {0}
    BY <1>0
  <2> QED
    BY <1>1, <1>3, <2>2, <2>3, ClosedIsEnough
<1> QED
  BY <1>2, <1>3

(***************************************************************************)
(* For every body: when mir_liveness_compute stops, a bit is set at the    *)
(* head of a block exactly when some path from there reads it before       *)
(* writing it.                                                             *)
(***************************************************************************)
THEOREM LivenessExact == Spec => []LivenessIsExact
<1> DEFINE Inv == Settled /\ Justified
<1>1. Init => Inv
  <2> SUFFICES ASSUME Init PROVE Inv
    OBVIOUS
  <2>1. \A b \in Blocks : ~ (b > at)
    BY BodyFacts DEF Init, Blocks
  <2> QED
    BY <2>1 DEF Init, Settled, Justified
<1>2. TypeOK /\ Inv /\ [Next]_vars => Inv'
  <2> SUFFICES ASSUME TypeOK, Inv, [Next]_vars PROVE Inv'
    OBVIOUS
  <2>1. CASE SweepBlock
    BY <2>1, SweepSettles, SweepJustified
  <2>2. ASSUME UNCHANGED <<ir, entry, exit>> PROVE Justified'
    <3>1. \A b, c : Needed(b, c)' <=> Needed(b, c)
      BY <2>2 DEF Needed, Edges, Blocks
    <3> QED
      BY <2>2, <3>1 DEF Justified, Blocks
  <2>3. CASE SweepAgain
    <3>1. \A b \in Blocks' : ~ (b > at')
      BY <2>3, BodyFacts DEF SweepAgain, Blocks, TypeOK
    <3> QED
      BY <2>2, <2>3, <3>1 DEF SweepAgain, Settled
  <2>4. CASE SweepEnds \/ RunInst \/ RunEdge
    BY <2>2, <2>4 DEF SweepEnds, RunInst, RunEdge, Running, Settled
  <2>5. CASE RunOver \/ UNCHANGED vars
    BY <2>2, <2>5 DEF RunOver, vars, Settled, Closed, Blocks
  <2> QED
    BY <2>1, <2>3, <2>4, <2>5 DEF Next, Analyse
<1>3. TypeOK /\ Inv => LivenessIsExact
  BY SettledIsExact
<1> QED
  BY <1>1, <1>2, <1>3, LivenessTypeCorrect, PTL DEF Spec
=============================================================================
