---------------------------- MODULE DropHoldings ----------------------------
(***************************************************************************)
(* entry_holdings of mir/mir_drop.c: the forward analysis that decides     *)
(* which drops are removed, which run unguarded and which need a flag,     *)
(* followed by a run of the analysed function.                             *)
(*                                                                         *)
(* The analysis sweeps all blocks in order, reached or not, and rebuilds   *)
(* the entry facts of every block from scratch in each sweep, starting     *)
(* from "holds its object" everywhere.  That start is a lattice point of   *)
(* its own and not the bottom, so neither its end nor its soundness is the *)
(* textbook argument.                                                      *)
(*                                                                         *)
(* The run keeps, per slot, what really became of it: never written,       *)
(* written, or emptied by a move.                                          *)
(***************************************************************************)
EXTENDS Holding

CONSTANTS Functions,    \* the function bodies analysed, each a sequence of blocks
          Values        \* the values of those bodies

(***************************************************************************)
(* A body has an entry block, its targets exist, and a terminator ends its *)
(* block.  The lowering promises the last part for a source without dead   *)
(* code; see BodiesAreWellFormed of module Ownership.                      *)
(***************************************************************************)
WellFormed(body) ==
    /\ body \in Seq(Seq(Insts))
    /\ Len(body) >= 1
    /\ \A b \in 1..Len(body) :
         /\ SuccessorSet(body[b]) \subseteq 1..Len(body)
         /\ \A i \in 1..Len(body[b]) : IsTerminator(body[b][i]) => i = Len(body[b])

ASSUME FunctionsAssumption == \A body \in Functions : WellFormed(body)

VARIABLES ir,       \* the function under elaboration
          entries,  \* what is known at the head of each block
          next,     \* the facts the current sweep has gathered
          reached,  \* the blocks the current sweep has met an edge to
          at,       \* the block the sweep visits next
          phase,    \* "sweep" or "run"
          block,    \* where the run is: the block ...
          index,    \* ... and the instruction in it
          slot      \* what really became of each slot

vars == <<ir, entries, next, reached, at, phase, block, index, slot>>

Blocks == 1..Len(ir)

\* memset(entries, 0): HOLDS_ITS_OBJECT is the zero of the enumeration.
AllZero == [b \in Blocks |-> [v \in Values |-> HoldsItsObject]]

Fates == {"unset", "full", "empty"}

Init ==
    /\ ir \in Functions
    /\ entries = AllZero
    /\ next = AllZero
    /\ reached = {1}
    /\ at = 1
    /\ phase = "sweep"
    /\ block = 1
    /\ index = 1
    /\ slot = [v \in Values |-> "unset"]

-----------------------------------------------------------------------------
(***************************************************************************)
(* The analysis.                                                           *)
(***************************************************************************)
Exit(b) == [v \in Values |-> HeldAtExit(ir[b], entries[b][v], v)]

\* A sweep that lets the last edge into a block decide.
SweepBlockLastEdge ==
    /\ phase = "sweep"
    /\ at \in Blocks
    /\ next' = [t \in Blocks |-> IF t \in SuccessorSet(ir[at]) THEN Exit(at) ELSE next[t]]
    /\ reached' = reached \cup SuccessorSet(ir[at])
    /\ at' = at + 1
    /\ UNCHANGED <<ir, entries, phase, block, index, slot>>

\* One block of a sweep: its exit facts flow into each of its successors.
SweepBlock ==
    /\ phase = "sweep"
    /\ at \in Blocks
    /\ LET targets == SuccessorSet(ir[at])
       IN /\ next' = [t \in Blocks |->
                        IF t \notin targets THEN next[t]
                        ELSE IF t \notin reached THEN Exit(at)
                        ELSE [v \in Values |-> HoldingMerge(next[t][v], Exit(at)[v])]]
          /\ reached' = reached \cup targets
    /\ at' = at + 1
    /\ UNCHANGED <<ir, entries, phase, block, index, slot>>

\* A sweep whose facts are not kept.
SweepAgainUnkept ==
    /\ phase = "sweep"
    /\ at \notin Blocks
    /\ next # entries
    /\ next' = AllZero
    /\ reached' = {1}
    /\ at' = 1
    /\ UNCHANGED <<ir, entries, phase, block, index, slot>>

\* The sweep changed something: keep its facts and sweep again.
SweepAgain ==
    /\ phase = "sweep"
    /\ at \notin Blocks
    /\ next # entries
    /\ entries' = next
    /\ next' = AllZero
    /\ reached' = {1}
    /\ at' = 1
    /\ UNCHANGED <<ir, phase, block, index, slot>>

\* The sweep changed nothing: the facts stand.
SweepEnds ==
    /\ phase = "sweep"
    /\ at \notin Blocks
    /\ next = entries
    /\ phase' = "run"
    /\ UNCHANGED <<ir, entries, next, reached, at, block, index, slot>>

Analyse == SweepBlock \/ SweepAgain \/ SweepEnds

-----------------------------------------------------------------------------
(***************************************************************************)
(* The run of the analysed body.                                           *)
(***************************************************************************)
Running == phase = "run" /\ index \in 1..Len(ir[block])

Here == ir[block][index]

\* An instruction that stays in its block.
RunInst ==
    /\ Running
    /\ ~ IsTerminator(Here)
    /\ slot' = [v \in Values |-> IF Empties(Here, v) THEN "empty"
                                 ELSE IF Fills(Here, v) THEN "full"
                                 ELSE slot[v]]
    /\ index' = index + 1
    /\ UNCHANGED <<ir, entries, next, reached, at, phase, block>>

\* A jump that lands before the first instruction.
RunEdgeEarly ==
    /\ Running
    /\ IsTerminator(Here)
    /\ \E t \in SuccessorSet(ir[block]) : block' = t
    /\ index' = 0
    /\ UNCHANGED <<ir, entries, next, reached, at, phase, slot>>

\* A jump or a branch; the condition of a branch may come out either way.
RunEdge ==
    /\ Running
    /\ IsTerminator(Here)
    /\ \E t \in SuccessorSet(ir[block]) : block' = t
    /\ index' = 1
    /\ UNCHANGED <<ir, entries, next, reached, at, phase, slot>>

\* A body that returned, or ran off an unterminated block, stays as it is.
RunOver ==
    /\ phase = "run"
    /\ Running => Here.op = "return"
    /\ UNCHANGED vars

Next == Analyse \/ RunInst \/ RunEdge \/ RunOver

\* The compiler keeps sweeping: nothing suspends entry_holdings.
Spec == Init /\ [][Next]_vars /\ WF_vars(Analyse)

-----------------------------------------------------------------------------
(***************************************************************************)
(* Properties.                                                             *)
(***************************************************************************)

\* Facts cover every block and value, and the run stays inside the body.
TypeOK ==
    /\ ir \in Functions
    /\ entries \in [Blocks -> [Values -> Holdings]]
    /\ next \in [Blocks -> [Values -> Holdings]]
    /\ reached \in SUBSET Blocks
    /\ at \in 1..(Len(ir) + 1)
    /\ phase \in {"sweep", "run"}
    /\ block \in Blocks
    /\ index \in 1..(Len(ir[block]) + 1)
    /\ slot \in [Values -> Fates]

\* "holds nothing" is only said of a slot a move emptied, and "holds its
\* object" never of one.
Describes(held, fate) ==
    /\ held = HoldsNothing => fate = "empty"
    /\ held = HoldsItsObject => fate # "empty"

(***************************************************************************)
(* Whatever path the run took, what elaboration believes of a slot at a    *)
(* drop is true: the drops drop_releases_of_emptied_places removes would   *)
(* have freed nothing, and the drops guard_conditional_drops leaves        *)
(* without a flag never meet a slot that a move emptied.                   *)
(***************************************************************************)
DropsAreJudgedRightly ==
    (Running /\ Here.op = "drop" /\ Here.base \in Values) =>
        Describes(HeldAt(ir[block], index, entries[block][Here.base], Here.base),
                  slot[Here.base])

(***************************************************************************)
(* The order in which a sweep meets the edges does not matter: whatever    *)
(* the numbering of the blocks, the table it ends with is the merge over   *)
(* all predecessors, which is what module MirDrop computes in one step.    *)
(***************************************************************************)
SweepMergesAllEdges ==
    (phase = "sweep" /\ at \notin Blocks) => next = HoldingSweep(ir, Values, entries)

(***************************************************************************)
(* The `while (changed)` loop of entry_holdings ends for every body.       *)
(***************************************************************************)
AnalysisEnds == <>(phase = "run")
=============================================================================
