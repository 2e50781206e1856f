------------------------- MODULE DropHoldingsProofs -------------------------
(***************************************************************************)
(* The analysis of module DropHoldings is sound for every function body,   *)
(* of any size and shape: whatever path a run takes, a drop is judged by   *)
(* what really became of its slot.                                         *)
(*                                                                         *)
(* DropsAreJudgedRightly speaks of drops only and is not inductive.  It is *)
(* strengthened in two places.  While the sweep runs, the facts gathered   *)
(* for a block cover the exit facts of every predecessor visited so far    *)
(* (SweepCovers); so the facts of a sweep that changed nothing cover every *)
(* edge of the body (EdgesCovered).  While the body runs, the facts at     *)
(* every instruction describe every slot, not only where a drop stands     *)
(* (RunDescribed).                                                         *)
(***************************************************************************)
EXTENDS DropHoldings, TLAPS

Covers(known, flowing) == known = flowing \/ known = HoldsEither

SweepCovers ==
    phase = "sweep" =>
        /\ 1 \in reached
        /\ \A v \in Values : next[1][v] # HoldsNothing
        /\ \A b \in Blocks : b < at =>
             \A t \in SuccessorSet(ir[b]) :
                /\ t \in reached
                /\ \A v \in Values :
                     Covers(next[t][v], HeldAtExit(ir[b], entries[b][v], v))

EdgesCovered ==
    phase = "run" =>
        \A b \in Blocks : \A t \in SuccessorSet(ir[b]) : \A v \in Values :
            Covers(entries[t][v], HeldAtExit(ir[b], entries[b][v], v))

NotStarted ==
    phase = "sweep" =>
        /\ block = 1
        /\ index = 1
        /\ slot = [v \in Values |-> "unset"]

RunDescribed ==
    phase = "run" =>
        \A v \in Values :
            Describes(HeldAt(ir[block], index, entries[block][v], v), slot[v])

IInv == TypeOK /\ SweepCovers /\ EdgesCovered /\ NotStarted /\ RunDescribed

-----------------------------------------------------------------------------
(***************************************************************************)
(* Facts about walk_block.                                                 *)
(***************************************************************************)

\* At the head of a block walk_block knows what it was given.
LEMMA HeldAtHead ==
    ASSUME NEW code, NEW h, NEW v
    PROVE  HeldAt(code, 1, h, v) = h
<1>1. ~ LastEmptied(code, 1, v)
  BY DEF LastEmptied
<1>2. ~ LastFilled(code, 1, v)
  BY DEF LastFilled
<1> QED
  BY <1>1, <1>2 DEF HeldAt

\* Walking over one instruction of walk_block's loop.
LEMMA HeldAtStep ==
    ASSUME NEW code, NEW j \in Nat \ {0}, NEW h, NEW v
    PROVE  HeldAt(code, j + 1, h, v) =
             IF Empties(code[j], v) THEN HoldsNothing
             ELSE IF Fills(code[j], v) THEN HoldsItsObject
             ELSE HeldAt(code, j, h, v)
<1>1. CASE Empties(code[j], v)
  <2>1. LastEmptied(code, j + 1, v)
    <3>1. j \in 1..(j + 1 - 1)
      OBVIOUS
    <3>2. \A k \in (j + 1)..(j + 1 - 1) : ~ Writes(code[k], v)
      OBVIOUS
    <3> QED
      BY <1>1, <3>1, <3>2 DEF LastEmptied
  <2> QED
    BY <1>1, <2>1 DEF HeldAt
<1>2. CASE ~ Empties(code[j], v) /\ Fills(code[j], v)
  <2>1. ~ LastEmptied(code, j + 1, v)
    <3> SUFFICES ASSUME NEW i \in 1..(j + 1 - 1), Empties(code[i], v),
                        \A k \in (i + 1)..(j + 1 - 1) : ~ Writes(code[k], v)
                 PROVE  FALSE
      BY DEF LastEmptied
    <3>1. i # j
      BY <1>2
    <3>2. j \in (i + 1)..(j + 1 - 1)
      BY <3>1
    <3> QED
      BY <1>2, <3>2 DEF Writes
  <2>2. LastFilled(code, j + 1, v)
    <3>1. j \in 1..(j + 1 - 1)
      OBVIOUS
    <3>2. \A k \in (j + 1)..(j + 1 - 1) : ~ Writes(code[k], v)
      OBVIOUS
    <3> QED
      BY <1>2, <3>1, <3>2 DEF LastFilled
  <2> QED
    BY <1>2, <2>1, <2>2 DEF HeldAt
<1>3. CASE ~ Empties(code[j], v) /\ ~ Fills(code[j], v)
  <2>1. ~ Writes(code[j], v)
    BY <1>3 DEF Writes
  <2>2. \A i \in 1..(j - 1) :
          (\A k \in (i + 1)..(j + 1 - 1) : ~ Writes(code[k], v))
          <=> (\A k \in (i + 1)..(j - 1) : ~ Writes(code[k], v))
    <3> TAKE i \in 1..(j - 1)
    <3>1. (i + 1)..(j + 1 - 1) = ((i + 1)..(j - 1)) \cup {j}
      OBVIOUS
    <3> QED
      BY <2>1, <3>1
  <2>3. 1..(j + 1 - 1) = (1..(j - 1)) \cup {j}
    OBVIOUS
  <2>4. LastEmptied(code, j + 1, v) <=> LastEmptied(code, j, v)
    BY <1>3, <2>2, <2>3 DEF LastEmptied
  <2>5. LastFilled(code, j + 1, v) <=> LastFilled(code, j, v)
    BY <1>3, <2>2, <2>3 DEF LastFilled
  <2> QED
    BY <1>3, <2>4, <2>5 DEF HeldAt
<1> QED
  BY <1>1, <1>2, <1>3

\* walk_block answers with one of the three facts.
LEMMA HeldAtType ==
    ASSUME NEW code, NEW j, NEW h \in Holdings, NEW v
    PROVE  HeldAt(code, j, h, v) \in Holdings
BY DEF HeldAt, Holdings, HoldsNothing, HoldsItsObject

\* holding_merge covers both of its arguments.
LEMMA MergeCovers ==
    ASSUME NEW a \in Holdings, NEW b \in Holdings
    PROVE  /\ HoldingMerge(a, b) \in Holdings
           /\ Covers(HoldingMerge(a, b), b)
           /\ \A c : Covers(a, c) => Covers(HoldingMerge(a, b), c)
           /\ a # HoldsNothing => HoldingMerge(a, b) # HoldsNothing
BY DEF HoldingMerge, Covers, Holdings, HoldsEither, HoldsNothing, HoldsItsObject

-----------------------------------------------------------------------------
(***************************************************************************)
(* What the assumption on bodies says of the one under elaboration.        *)
(***************************************************************************)
LEMMA BodyFacts ==
    ASSUME ir \in Functions
    PROVE  /\ Len(ir) \in Nat \ {0}
           /\ Blocks \subseteq Nat
           /\ 1 \in Blocks
           /\ \A b \in Blocks : /\ Len(ir[b]) \in Nat
                                /\ SuccessorSet(ir[b]) \subseteq Blocks
                                /\ \A i \in 1..Len(ir[b]) :
                                     IsTerminator(ir[b][i]) => i = Len(ir[b])
<1>1. ir \in Seq(Seq(Insts)) /\ WellFormed(ir)
  BY FunctionsAssumption DEF WellFormed
<1>2. Len(ir) \in Nat /\ \A b \in 1..Len(ir) : ir[b] \in Seq(Insts)
  BY <1>1
<1>3. \A b \in 1..Len(ir) : Len(ir[b]) \in Nat
  BY <1>2
<1> QED
  BY <1>1, <1>2, <1>3 DEF WellFormed, Blocks

\* The zeroed table the analysis starts every sweep from.
LEMMA AllZeroType == AllZero \in [Blocks -> [Values -> Holdings]]
BY DEF AllZero, Holdings, HoldsItsObject

\* The facts a sweep reads off the end of a block are of the right kind.
LEMMA ExitType ==
    ASSUME TypeOK, NEW b \in Blocks
    PROVE  Exit(b) \in [Values -> Holdings]
<1>1. \A v \in Values : entries[b][v] \in Holdings
  BY DEF TypeOK
<1>2. \A v \in Values : HeldAtExit(ir[b], entries[b][v], v) \in Holdings
  BY <1>1, HeldAtType DEF HeldAtExit
<1> QED
  BY <1>2 DEF Exit

\* The first facts and the first position are well-typed.
LEMMA TypeAtInit ==
    ASSUME Init
    PROVE  TypeOK
<1>1. ir \in Functions
  BY DEF Init
<1>2. /\ Len(ir) \in Nat \ {0}
      /\ 1 \in Blocks
      /\ Len(ir[1]) \in Nat
  BY <1>1, BodyFacts
<1> QED
  BY <1>1, <1>2, AllZeroType DEF Init, TypeOK, Fates

\* No step of the analysis or the run leaves its tables.
LEMMA TypeInStep ==
    ASSUME TypeOK, [Next]_vars
    PROVE  TypeOK'
<1>0. /\ ir \in Functions
      /\ Len(ir) \in Nat \ {0}
      /\ Blocks \subseteq Nat
      /\ 1 \in Blocks
      /\ \A b \in Blocks : Len(ir[b]) \in Nat /\ SuccessorSet(ir[b]) \subseteq Blocks
  BY BodyFacts DEF TypeOK
<1>1. CASE SweepBlock
  <2>1. ir' = ir /\ Blocks' = Blocks
    BY <1>1 DEF SweepBlock, Blocks
  <2>2. Exit(at) \in [Values -> Holdings]
    BY <1>1, ExitType DEF SweepBlock
  <2>3. \A t \in Blocks :
          [v \in Values |-> HoldingMerge(next[t][v], Exit(at)[v])] \in [Values -> Holdings]
    BY <2>2, MergeCovers DEF TypeOK
  <2>4. next' \in [Blocks -> [Values -> Holdings]]
    BY <1>1, <2>2, <2>3 DEF SweepBlock, TypeOK
  <2>5. reached' \in SUBSET Blocks
    BY <1>0, <1>1 DEF SweepBlock, TypeOK
  <2>6. at' \in 1..(Len(ir) + 1)
    BY <1>0, <1>1 DEF SweepBlock, Blocks
  <2> QED
    BY <1>1, <2>1, <2>4, <2>5, <2>6 DEF SweepBlock, TypeOK
<1>2. CASE SweepAgain
  <2>1. ir' = ir /\ Blocks' = Blocks
    BY <1>2 DEF SweepAgain, Blocks
  <2>2. 1 \in 1..(Len(ir) + 1)
    BY <1>0
  <2> QED
    BY <1>0, <1>2, <2>1, <2>2, AllZeroType DEF SweepAgain, TypeOK
<1>3. CASE SweepEnds
  <2>1. ir' = ir /\ Blocks' = Blocks
    BY <1>3 DEF SweepEnds, Blocks
  <2> QED
    BY <1>3, <2>1 DEF SweepEnds, TypeOK
<1>4. CASE RunInst
  <2>1. ir' = ir /\ Blocks' = Blocks
    BY <1>4 DEF RunInst, Blocks
  <2>2. index' \in 1..(Len(ir[block]) + 1)
    BY <1>0, <1>4 DEF RunInst, Running, TypeOK
  <2>3. slot' \in [Values -> Fates]
    BY <1>4 DEF RunInst, TypeOK, Fates
  <2> QED
    BY <1>4, <2>1, <2>2, <2>3 DEF RunInst, TypeOK
<1>5. CASE RunEdge
  <2>1. ir' = ir /\ Blocks' = Blocks
    BY <1>5 DEF RunEdge, Blocks
  <2>2. block' \in Blocks
    BY <1>0, <1>5 DEF RunEdge, TypeOK
  <2>3. index' \in 1..(Len(ir[block']) + 1)
    BY <1>0, <1>5, <2>2 DEF RunEdge
  <2> QED
    BY <1>5, <2>1, <2>2, <2>3 DEF RunEdge, TypeOK
<1>6. CASE RunOver \/ UNCHANGED vars
  BY <1>6 DEF RunOver, TypeOK, vars, Blocks
<1> QED
  BY <1>1, <1>2, <1>3, <1>4, <1>5, <1>6 DEF Next, Analyse

(***************************************************************************)
(* The analysis keeps a fact for every block and value, and the run never  *)
(* leaves the body: entry_holdings and walk_block index inside their       *)
(* tables.                                                                 *)
(***************************************************************************)
THEOREM TypeCorrect == Spec => []TypeOK
<1>1. Init => TypeOK
  BY TypeAtInit
<1>2. TypeOK /\ [Next]_vars => TypeOK'
  BY TypeInStep
<1> QED
  BY <1>1, <1>2, PTL DEF Spec

-----------------------------------------------------------------------------
(***************************************************************************)
(* One sweep step keeps the gathered facts above every edge it has seen.   *)
(***************************************************************************)
LEMMA SweepBlockCovers ==
    ASSUME TypeOK, SweepCovers, SweepBlock
    PROVE  SweepCovers'
<1>0. /\ ir \in Functions
      /\ Blocks \subseteq Nat
      /\ 1 \in Blocks
      /\ at \in Blocks
      /\ \A b \in Blocks : SuccessorSet(ir[b]) \subseteq Blocks
      /\ phase = "sweep"
  BY BodyFacts DEF TypeOK, SweepBlock
<1>1. /\ ir' = ir /\ Blocks' = Blocks /\ entries' = entries /\ at' = at + 1
      /\ reached' = reached \cup SuccessorSet(ir[at])
  BY DEF SweepBlock, Blocks
<1>2. /\ Exit(at) \in [Values -> Holdings]
      /\ \A v \in Values : Exit(at)[v] = HeldAtExit(ir[at], entries[at][v], v)
  BY <1>0, ExitType DEF Exit
<1>3. \A t \in Blocks : next'[t] =
        IF t \notin SuccessorSet(ir[at]) THEN next[t]
        ELSE IF t \notin reached THEN Exit(at)
        ELSE [v \in Values |-> HoldingMerge(next[t][v], Exit(at)[v])]
  BY DEF SweepBlock
<1>4. \A t \in Blocks, v \in Values : next[t][v] \in Holdings
  BY DEF TypeOK
<1>5. 1 \in reached' /\ \A v \in Values : next'[1][v] # HoldsNothing
  <2>1. 1 \in reached /\ \A v \in Values : next[1][v] # HoldsNothing
    BY <1>0 DEF SweepCovers
  <2> SUFFICES ASSUME NEW v \in Values PROVE next'[1][v] # HoldsNothing
    BY <1>1, <2>1
  <2>2. HoldingMerge(next[1][v], Exit(at)[v]) # HoldsNothing
    BY <1>0, <1>2, <1>4, <2>1, MergeCovers
  <2>3. next'[1][v] = next[1][v] \/ next'[1][v] = HoldingMerge(next[1][v], Exit(at)[v])
    BY <1>0, <1>3, <2>1
  <2> QED
    BY <2>1, <2>2, <2>3
<1>6. ASSUME NEW b \in Blocks, b < at + 1, NEW t \in SuccessorSet(ir[b])
      PROVE  /\ t \in reached'
             /\ \A v \in Values :
                  Covers(next'[t][v], HeldAtExit(ir[b], entries[b][v], v))
  <2>0. t \in Blocks
    BY <1>0, <1>6
  <2>1. CASE b < at
    <3>1. t \in reached /\ \A v \in Values :
             Covers(next[t][v], HeldAtExit(ir[b], entries[b][v], v))
      BY <1>0, <1>6, <2>1 DEF SweepCovers
    <3> SUFFICES ASSUME NEW v \in Values
                 PROVE  Covers(next'[t][v], HeldAtExit(ir[b], entries[b][v], v))
      BY <1>1, <3>1
    <3>2. Covers(HoldingMerge(next[t][v], Exit(at)[v]),
                 HeldAtExit(ir[b], entries[b][v], v))
      BY <1>2, <1>4, <2>0, <3>1, MergeCovers
    <3>3. next'[t][v] = next[t][v] \/ next'[t][v] = HoldingMerge(next[t][v], Exit(at)[v])
      BY <1>3, <2>0, <3>1
    <3> QED
      BY <3>1, <3>2, <3>3
  <2>2. CASE b = at
    <3> SUFFICES ASSUME NEW v \in Values
                 PROVE  Covers(next'[t][v], HeldAtExit(ir[b], entries[b][v], v))
      BY <1>1, <1>6, <2>2
    <3>1. Covers(HoldingMerge(next[t][v], Exit(at)[v]), Exit(at)[v])
      BY <1>2, <1>4, <2>0, MergeCovers
    <3>2. next'[t][v] = Exit(at)[v] \/ next'[t][v] = HoldingMerge(next[t][v], Exit(at)[v])
      BY <1>3, <1>6, <2>0, <2>2
    <3> QED
      BY <1>2, <2>2, <3>1, <3>2 DEF Covers
  <2> QED
    BY <1>0, <1>6, <2>1, <2>2
<1> QED
  BY <1>1, <1>5, <1>6 DEF SweepCovers

(***************************************************************************)
(* A sweep that changed nothing has facts that cover every edge, and they  *)
(* describe the slots of a run that has not started.                       *)
(***************************************************************************)
LEMMA SweepEndsSoundly ==
    ASSUME TypeOK, SweepCovers, NotStarted, SweepEnds
    PROVE  EdgesCovered' /\ RunDescribed'
<1>0. /\ Len(ir) \in Nat /\ 1 \in Blocks /\ at = Len(ir) + 1 /\ phase = "sweep"
      /\ next = entries
  BY BodyFacts DEF TypeOK, SweepEnds, Blocks
<1>1. ir' = ir /\ Blocks' = Blocks /\ entries' = entries
  BY DEF SweepEnds, Blocks
<1>2. block' = 1 /\ index' = 1 /\ slot' = [v \in Values |-> "unset"]
  BY <1>0 DEF SweepEnds, NotStarted
<1>3. EdgesCovered'
  <2>1. \A b \in Blocks : b < at
    BY <1>0 DEF Blocks
  <2> QED
    BY <1>0, <1>1, <2>1 DEF EdgesCovered, SweepCovers
<1>4. RunDescribed'
  <2> SUFFICES ASSUME NEW v \in Values
               PROVE  Describes(HeldAt(ir[1], 1, entries[1][v], v), "unset")
    BY <1>1, <1>2 DEF RunDescribed
  <2>1. entries[1][v] # HoldsNothing
    BY <1>0 DEF SweepCovers
  <2> QED
    BY <2>1, HeldAtHead DEF Describes
<1> QED
  BY <1>3, <1>4

(***************************************************************************)
(* The facts follow the run over an instruction and over an edge.          *)
(***************************************************************************)
LEMMA RunInstDescribed ==
    ASSUME TypeOK, RunDescribed, RunInst
    PROVE  RunDescribed'
<1>1. /\ ir' = ir /\ entries' = entries /\ block' = block /\ phase = "run"
      /\ index \in Nat \ {0} /\ index' = index + 1
  BY BodyFacts DEF RunInst, Running, TypeOK
<1> SUFFICES ASSUME NEW v \in Values
             PROVE  Describes(HeldAt(ir[block], index + 1, entries[block][v], v), slot'[v])
  BY <1>1 DEF RunDescribed
<1>2. Describes(HeldAt(ir[block], index, entries[block][v], v), slot[v])
  BY <1>1 DEF RunDescribed
<1>3. HeldAt(ir[block], index + 1, entries[block][v], v) =
        IF Empties(Here, v) THEN HoldsNothing
        ELSE IF Fills(Here, v) THEN HoldsItsObject
        ELSE HeldAt(ir[block], index, entries[block][v], v)
  BY <1>1, HeldAtStep DEF Here
<1>4. slot'[v] = IF Empties(Here, v) THEN "empty"
                 ELSE IF Fills(Here, v) THEN "full" ELSE slot[v]
  BY DEF RunInst
<1> QED
  BY <1>2, <1>3, <1>4 DEF Describes, HoldsNothing, HoldsItsObject

\* The facts at the head of the block jumped to describe the slots as they are.
LEMMA RunEdgeDescribed ==
    ASSUME TypeOK, EdgesCovered, RunDescribed, RunEdge
    PROVE  RunDescribed'
<1>1. /\ ir' = ir /\ entries' = entries /\ slot' = slot /\ phase = "run" /\ index' = 1
      /\ block \in Blocks /\ block' \in SuccessorSet(ir[block])
      /\ IsTerminator(ir[block][index]) /\ index \in 1..Len(ir[block])
  BY DEF RunEdge, Running, TypeOK, Here
<1>2. index = Len(ir[block]) /\ index \in Nat \ {0}
  BY <1>1, BodyFacts DEF TypeOK
<1> SUFFICES ASSUME NEW v \in Values
             PROVE  Describes(HeldAt(ir[block'], 1, entries[block'][v], v), slot[v])
  BY <1>1 DEF RunDescribed
<1>3. Describes(HeldAt(ir[block], index, entries[block][v], v), slot[v])
  BY <1>1 DEF RunDescribed
<1>4. ~ Empties(ir[block][index], v) /\ ~ Fills(ir[block][index], v)
  BY <1>1 DEF IsTerminator, Empties, Fills
<1>5. HeldAtExit(ir[block], entries[block][v], v)
        = HeldAt(ir[block], index, entries[block][v], v)
  BY <1>2, <1>4, HeldAtStep DEF HeldAtExit
<1>6. Covers(entries[block'][v], HeldAtExit(ir[block], entries[block][v], v))
  BY <1>1 DEF EdgesCovered
<1>7. Describes(entries[block'][v], slot[v])
  BY <1>3, <1>5, <1>6 DEF Covers, Describes, HoldsEither, HoldsNothing, HoldsItsObject
<1> QED
  BY <1>7, HeldAtHead

(***************************************************************************)
(* For every body, a drop drop_releases_of_emptied_places removes would    *)
(* have freed nothing, and a drop left unguarded never meets a slot that a *)
(* move emptied.                                                           *)
(***************************************************************************)
THEOREM DropsSound == Spec => []DropsAreJudgedRightly
<1>1. Init => IInv
  <2> SUFFICES ASSUME Init, TypeOK PROVE IInv
    BY TypeAtInit
  <2>1. SweepCovers
    <3>1. 1 \in Blocks /\ Blocks \subseteq Nat /\ at = 1 /\ reached = {1}
      BY BodyFacts DEF Init
    <3>2. \A v \in Values : next[1][v] # HoldsNothing
      BY <3>1 DEF Init, AllZero, HoldsNothing, HoldsItsObject
    <3>3. \A b \in Blocks : ~ (b < at)
      BY <3>1 DEF Blocks
    <3> QED
      BY <3>1, <3>2, <3>3 DEF SweepCovers
  <2> QED
    BY <2>1 DEF Init, IInv, EdgesCovered, NotStarted, RunDescribed
<1>2. IInv /\ [Next]_vars => IInv'
  <2> SUFFICES ASSUME IInv, [Next]_vars PROVE IInv'
    OBVIOUS
  <2>0. TypeOK'
    BY TypeInStep DEF IInv
  <2>1. CASE SweepBlock
    <3>1. SweepCovers'
      BY <2>1, SweepBlockCovers DEF IInv
    <3> QED
      BY <2>0, <2>1, <3>1 DEF SweepBlock, IInv, EdgesCovered, NotStarted, RunDescribed
  <2>2. CASE SweepAgain
    <3>1. 1 \in Blocks' /\ Blocks' \subseteq Nat /\ at' = 1 /\ reached' = {1}
      BY <2>2, BodyFacts DEF SweepAgain, IInv, TypeOK, Blocks
    <3>2. \A v \in Values : next'[1][v] # HoldsNothing
      BY <2>2, BodyFacts DEF SweepAgain, AllZero, HoldsNothing, HoldsItsObject, IInv, TypeOK
    <3>3. \A b \in Blocks' : ~ (b < at')
      BY <3>1 DEF Blocks
    <3>4. SweepCovers'
      BY <3>1, <3>2, <3>3 DEF SweepCovers
    <3> QED
      BY <2>0, <2>2, <3>4 DEF SweepAgain, IInv, EdgesCovered, NotStarted, RunDescribed
  <2>3. CASE SweepEnds
    <3>1. EdgesCovered' /\ RunDescribed'
      BY <2>3, SweepEndsSoundly DEF IInv
    <3> QED
      BY <2>0, <2>3, <3>1 DEF SweepEnds, IInv, SweepCovers, NotStarted
  <2>4. CASE RunInst
    <3>1. RunDescribed'
      BY <2>4, RunInstDescribed DEF IInv
    <3> QED
      BY <2>0, <2>4, <3>1
      DEF RunInst, Running, IInv, SweepCovers, EdgesCovered, NotStarted, Blocks
  <2>5. CASE RunEdge
    <3>1. RunDescribed'
      BY <2>5, RunEdgeDescribed DEF IInv
    <3> QED
      BY <2>0, <2>5, <3>1
      DEF RunEdge, Running, IInv, SweepCovers, EdgesCovered, NotStarted, Blocks
  <2>6. CASE RunOver \/ UNCHANGED vars
    BY <2>0, <2>6
    DEF RunOver, vars, IInv, SweepCovers, EdgesCovered, NotStarted, RunDescribed, Blocks
  <2> QED
    BY <2>1, <2>2, <2>3, <2>4, <2>5, <2>6 DEF Next, Analyse
<1>3. IInv => DropsAreJudgedRightly
  BY DEF IInv, RunDescribed, DropsAreJudgedRightly, Running
<1> QED
  BY <1>1, <1>2, <1>3, PTL DEF Spec

-----------------------------------------------------------------------------
(***************************************************************************)
(* The table of a finished sweep.  While the sweep runs, what it has       *)
(* gathered for a block is the merge over the edges out of the blocks      *)
(* before at, and a block counts as reached if there is such an edge.      *)
(***************************************************************************)
ArrivedBefore(body, facts, n, b, v) ==
    {HeldAtExit(body[p], facts[p][v], v) :
        p \in {q \in DOMAIN body : q < n /\ b \in SuccessorSet(body[q])}}
        \cup (IF b = 1 THEN {HoldsItsObject} ELSE {})

SweepMerged ==
    phase = "sweep" =>
        /\ \A t \in Blocks :
             t \in reached <=> t = 1 \/ \E q \in Blocks : q < at /\ t \in SuccessorSet(ir[q])
        /\ \A b \in Blocks : \A v \in Values :
             next[b][v] = MergeAll(ArrivedBefore(ir, entries, at, b, v))

\* Merging one more fact is merging the larger set of facts.
LEMMA MergeOneMore ==
    ASSUME NEW F, NEW x
    PROVE  /\ F # {} => MergeAll(F \cup {x}) = HoldingMerge(MergeAll(F), x)
           /\ MergeAll({x}) = x
           /\ MergeAll({}) = HoldsItsObject
<1>1. MergeAll({}) = HoldsItsObject
  BY DEF MergeAll
<1>2. \A f : MergeAll({f}) = f
  <2> SUFFICES ASSUME NEW f PROVE MergeAll({f}) = f
    OBVIOUS
  <2>1. (CHOOSE g \in {f} : TRUE) = f
    OBVIOUS
  <2> QED
    BY <2>1 DEF MergeAll
<1>3. ASSUME F # {} PROVE MergeAll(F \cup {x}) = HoldingMerge(MergeAll(F), x)
  <2>1. CASE \E f \in F : F = {f}
    <3>1. PICK f \in F : F = {f}
      BY <2>1
    <3>2. CASE f = x
      <4>1. F \cup {x} = {x}
        BY <3>1, <3>2
      <4> QED
        BY <3>1, <3>2, <4>1, <1>2 DEF HoldingMerge
    <3>3. CASE f # x
      <4>1. ~ \E g \in F \cup {x} : F \cup {x} = {g}
        BY <3>1, <3>3
      <4>2. MergeAll(F \cup {x}) = HoldsEither
        BY <4>1 DEF MergeAll
      <4> QED
        BY <3>1, <3>3, <4>2, <1>2 DEF HoldingMerge
    <3> QED
      BY <3>2, <3>3
  <2>2. CASE ~ \E f \in F : F = {f}
    <3>1. MergeAll(F) = HoldsEither
      BY <2>2, <1>3 DEF MergeAll
    <3>2. ~ \E g \in F \cup {x} : F \cup {x} = {g}
      <4> SUFFICES ASSUME NEW g, F \cup {x} = {g} PROVE FALSE
        OBVIOUS
      <4>1. \A f \in F : f = g
        OBVIOUS
      <4> QED
        BY <4>1, <2>2, <1>3
    <3>3. MergeAll(F \cup {x}) = HoldsEither
      BY <3>2 DEF MergeAll
    <3> QED
      BY <3>1, <3>3 DEF HoldingMerge
  <2> QED
    BY <2>1, <2>2
<1> QED
  BY <1>1, <1>2, <1>3

\* Without an edge into a block only the entry has facts.
LEMMA NoneArrived ==
    ASSUME NEW body, NEW f, NEW n, NEW b, NEW v,
           \A q \in DOMAIN body : q < n => b \notin SuccessorSet(body[q])
    PROVE  ArrivedBefore(body, f, n, b, v) = IF b = 1 THEN {HoldsItsObject} ELSE {}
<1> DEFINE from == {q \in DOMAIN body : q < n /\ b \in SuccessorSet(body[q])}
<1>1. from = {}
  OBVIOUS
<1> HIDE DEF from
<1>2. {HeldAtExit(body[p], f[p][v], v) : p \in from} = {}
  BY <1>1
<1> QED
  BY <1>2 DEF ArrivedBefore, from

\* Before the first block of a sweep nothing has been gathered.
LEMMA NothingArrived ==
    ASSUME ir \in Functions, NEW f, NEW b, NEW v
    PROVE  MergeAll(ArrivedBefore(ir, f, 1, b, v)) = HoldsItsObject
<1>1. ir \in Seq(Seq(Insts))
  BY FunctionsAssumption DEF WellFormed
<1>2. \A q \in DOMAIN ir : ~ (q < 1)
  BY <1>1
<1>3. ArrivedBefore(ir, f, 1, b, v) = IF b = 1 THEN {HoldsItsObject} ELSE {}
  BY <1>2, NoneArrived
<1> QED
  BY <1>3, MergeOneMore

\* The visit to a block adds its exit facts to those of its successors.
LEMMA SweepBlockMerges ==
    ASSUME TypeOK, SweepMerged, SweepBlock
    PROVE  SweepMerged'
<1>0. /\ ir \in Functions /\ Blocks \subseteq Nat /\ at \in Blocks /\ at \in Nat
      /\ phase = "sweep" /\ DOMAIN ir = Blocks
      /\ \A b \in Blocks : SuccessorSet(ir[b]) \subseteq Blocks
  <2>1. ir \in Seq(Seq(Insts))
    BY FunctionsAssumption DEF TypeOK, WellFormed
  <2> QED
    BY <2>1, BodyFacts DEF TypeOK, SweepBlock, Blocks
<1>1. /\ ir' = ir /\ Blocks' = Blocks /\ entries' = entries /\ at' = at + 1
      /\ reached' = reached \cup SuccessorSet(ir[at])
  BY DEF SweepBlock, Blocks
<1>2. \A t \in Blocks : next'[t] =
        IF t \notin SuccessorSet(ir[at]) THEN next[t]
        ELSE IF t \notin reached THEN Exit(at)
        ELSE [v \in Values |-> HoldingMerge(next[t][v], Exit(at)[v])]
  BY DEF SweepBlock
<1>3. \A q \in Blocks : q < at + 1 <=> q < at \/ q = at
  BY <1>0
<1>4. ASSUME NEW t \in Blocks
      PROVE  t \in reached' <=> t = 1 \/ \E q \in Blocks : q < at + 1 /\ t \in SuccessorSet(ir[q])
  BY <1>0, <1>1, <1>3 DEF SweepMerged
<1>5. ASSUME NEW b \in Blocks, NEW v \in Values
      PROVE  next'[b][v] = MergeAll(ArrivedBefore(ir, entries, at + 1, b, v))
  <2> DEFINE F == ArrivedBefore(ir, entries, at, b, v)
             x == HeldAtExit(ir[at], entries[at][v], v)
             from == {q \in DOMAIN ir : q < at /\ b \in SuccessorSet(ir[q])}
             more == {q \in DOMAIN ir : q < at + 1 /\ b \in SuccessorSet(ir[q])}
  <2>1. next[b][v] = MergeAll(F)
    BY <1>0, <1>5 DEF SweepMerged
  <2>2. CASE b \notin SuccessorSet(ir[at])
    <3>1. more = from
      BY <1>0, <1>3, <2>2
    <3>2. ArrivedBefore(ir, entries, at + 1, b, v) = F
      BY <3>1 DEF ArrivedBefore
    <3> QED
      BY <1>2, <2>1, <2>2, <3>2
  <2>3. CASE b \in SuccessorSet(ir[at])
    <3>1. more = from \cup {at}
      BY <1>0, <1>3, <2>3
    <3>2. ArrivedBefore(ir, entries, at + 1, b, v) = F \cup {x}
      BY <3>1 DEF ArrivedBefore
    <3>3. Exit(at)[v] = x
      BY DEF Exit
    <3>4. CASE b \in reached
      <4>1. F # {}
        <5>1. b = 1 \/ \E q \in Blocks : q < at /\ b \in SuccessorSet(ir[q])
          BY <1>0, <3>4 DEF SweepMerged
        <5>2. CASE b = 1
          BY <5>2 DEF ArrivedBefore
        <5>3. CASE \E q \in Blocks : q < at /\ b \in SuccessorSet(ir[q])
          BY <5>3, <1>0 DEF ArrivedBefore
        <5> QED
          BY <5>1, <5>2, <5>3
      <4>2. next'[b] = [w \in Values |-> HoldingMerge(next[b][w], Exit(at)[w])]
        BY <1>2, <2>3, <3>4
      <4>3. next'[b][v] = HoldingMerge(next[b][v], Exit(at)[v])
        BY <4>2
      <4> HIDE DEF F, x
      <4>4. MergeAll(F \cup {x}) = HoldingMerge(MergeAll(F), x)
        BY <4>1, MergeOneMore
      <4> QED
        BY <2>1, <3>2, <3>3, <4>3, <4>4
    <3>5. CASE b \notin reached
      <4>1. b # 1 /\ \A q \in DOMAIN ir : q < at => b \notin SuccessorSet(ir[q])
        BY <1>0, <3>5 DEF SweepMerged
      <4>2. F = {}
        BY <4>1, NoneArrived
      <4>3. next'[b][v] = x
        BY <1>2, <2>3, <3>3, <3>5
      <4> HIDE DEF F, x
      <4>4. F \cup {x} = {x}
        BY <4>2
      <4> QED
        BY <3>2, <4>3, <4>4, MergeOneMore
    <3> QED
      BY <3>4, <3>5
  <2> QED
    BY <2>2, <2>3
<1> QED
  BY <1>1, <1>4, <1>5 DEF SweepMerged

\* A sweep starts with nothing gathered.
LEMMA SweepStartsMerged ==
    ASSUME ir \in Functions, next = AllZero, reached = {1}, at = 1
    PROVE  SweepMerged
<1>1. ir \in Seq(Seq(Insts))
  BY FunctionsAssumption DEF WellFormed
<1>2. \A q \in Blocks : ~ (q < 1)
  BY <1>1 DEF Blocks
<1>3. \A b \in Blocks : \A v \in Values : next[b][v] = HoldsItsObject
  BY DEF AllZero
<1>4. \A b \in Blocks : \A v \in Values :
        MergeAll(ArrivedBefore(ir, entries, 1, b, v)) = HoldsItsObject
  BY NothingArrived
<1> QED
  BY <1>2, <1>3, <1>4 DEF SweepMerged

\* When every block was visited, every edge has been met.
LEMMA SweepCompletes ==
    ASSUME TypeOK, SweepMerged
    PROVE  SweepMergesAllEdges
<1> SUFFICES ASSUME phase = "sweep", at \notin Blocks
             PROVE  next = HoldingSweep(ir, Values, entries)
  BY DEF SweepMergesAllEdges
<1>1. ir \in Seq(Seq(Insts))
  BY FunctionsAssumption DEF TypeOK, WellFormed
<1>2. DOMAIN ir = Blocks /\ \A q \in DOMAIN ir : q < at
  BY <1>1 DEF TypeOK, Blocks
<1>3. ASSUME NEW b, NEW v
      PROVE  ArrivedBefore(ir, entries, at, b, v) = Arriving(ir, entries, b, v)
  <2> DEFINE from == {q \in DOMAIN ir : q < at /\ b \in SuccessorSet(ir[q])}
             all == {q \in DOMAIN ir : b \in SuccessorSet(ir[q])}
  <2>1. from = all
    BY <1>2
  <2> QED
    BY <2>1 DEF ArrivedBefore, Arriving
<1>4. \A b \in Blocks : \A v \in Values :
        next[b][v] = MergeAll(Arriving(ir, entries, b, v))
  BY <1>3 DEF SweepMerged
<1>5. next \in [Blocks -> [Values -> Holdings]]
  BY DEF TypeOK
<1> DEFINE G(b) == [v \in Values |-> MergeAll(Arriving(ir, entries, b, v))]
<1>6. ASSUME NEW b \in Blocks
      PROVE  next[b] = G(b)
  <2>1. next[b] \in [Values -> Holdings]
    BY <1>5
  <2>2. next[b] = [v \in Values |-> next[b][v]]
    BY <2>1
  <2> QED
    BY <1>4, <2>2
<1> HIDE DEF G
<1>7. next = [b \in Blocks |-> next[b]]
  BY <1>5
<1>8. next = [b \in Blocks |-> G(b)]
  BY <1>6, <1>7
<1> QED
  BY <1>2, <1>8 DEF HoldingSweep, G

(***************************************************************************)
(* For every body and every numbering of its blocks: the table a finished  *)
(* sweep of entry_holdings leaves is the merge over all edges, although    *)
(* the sweep meets them one block at a time and replaces the facts of a    *)
(* block at the first edge instead of merging into them.                   *)
(***************************************************************************)
THEOREM SweepsMerge == Spec => []SweepMergesAllEdges
<1>1. Init => SweepMerged
  BY SweepStartsMerged DEF Init
<1>2. TypeOK /\ TypeOK' /\ SweepMerged /\ [Next]_vars => SweepMerged'
  <2> SUFFICES ASSUME TypeOK, TypeOK', SweepMerged, [Next]_vars
               PROVE  SweepMerged'
    OBVIOUS
  <2>1. CASE SweepBlock
    BY <2>1, SweepBlockMerges
  <2>2. CASE SweepAgain
    <3>1. ir' \in Functions /\ next' = AllZero' /\ reached' = {1} /\ at' = 1
      BY <2>2 DEF SweepAgain, TypeOK, AllZero, Blocks
    <3>2. (ir \in Functions /\ next = AllZero /\ reached = {1} /\ at = 1 => SweepMerged)'
      BY SweepStartsMerged, PTL
    <3> QED
      BY <3>1, <3>2
  <2>3. CASE SweepEnds \/ RunInst \/ RunEdge
    BY <2>3 DEF SweepEnds, RunInst, RunEdge, Running, SweepMerged
  <2>4. CASE RunOver \/ UNCHANGED vars
    BY <2>4 DEF RunOver, vars, SweepMerged, Blocks
  <2> QED
    BY <2>1, <2>2, <2>3, <2>4 DEF Next, Analyse
<1>3. TypeOK /\ SweepMerged => SweepMergesAllEdges
  BY SweepCompletes
<1> QED
  BY <1>1, <1>2, <1>3, TypeCorrect, PTL DEF Spec
=============================================================================
