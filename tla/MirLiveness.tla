---------------------------- MODULE MirLiveness ----------------------------
(***************************************************************************)
(* mir_liveness_compute (mir/mir_liveness.c): the backward analysis the    *)
(* borrow checker asks whether a borrow may still be needed where the      *)
(* storage it names ends, followed by a run of the analysed function.      *)
(*                                                                         *)
(* The run remembers which memory the analysis has called dead and that    *)
(* nothing has overwritten since.                                          *)
(***************************************************************************)
EXTENDS MirPlaces

-----------------------------------------------------------------------------
VARIABLES ir,       \* the function analysed
          entry,    \* liveness->entry: the bits live at the head of each block
          exit,     \* liveness->exit: and at its end
          at,       \* the block the sweep visits next; 0 when it is over
          changed,  \* whether this sweep changed anything
          phase,    \* "sweep" or "run"
          block,    \* where the run is: the block ...
          index,    \* ... and the instruction in it
          dead      \* memory called dead at some point and not overwritten since

vars == <<ir, entry, exit, at, changed, phase, block, index, dead>>

Blocks == 1..Len(ir)

Init ==
    /\ ir \in Functions
    /\ entry = [b \in Blocks |-> {}]
    /\ exit = [b \in Blocks |-> {}]
    /\ at = Len(ir)
    /\ changed = FALSE
    /\ phase = "sweep"
    /\ block = 1
    /\ index = 1
    /\ dead = {}

\* What flows into the end of block b.
FlowsIn(b) == exit[b] \cup UNION {entry[t] : t \in SuccessorSet(ir[b])}

\* A sweep in which the head of a block is judged by what its end was.
SweepBlockLate ==
    /\ phase = "sweep"
    /\ at \in Blocks
    /\ exit' = [exit EXCEPT ![at] = FlowsIn(at)]
    /\ entry' = [entry EXCEPT ![at] = @ \cup LiveBefore(ir[at], 1, exit[at])]
    /\ changed' = (changed \/ entry' # entry)
    /\ at' = at - 1
    /\ UNCHANGED <<ir, phase, block, index, dead>>

\* One block of a sweep, in place, from the last block to the first.
SweepBlock ==
    /\ phase = "sweep"
    /\ at \in Blocks
    /\ exit' = [exit EXCEPT ![at] = FlowsIn(at)]
    /\ entry' = [entry EXCEPT ![at] = @ \cup LiveBefore(ir[at], 1, FlowsIn(at))]
    /\ changed' = (changed \/ exit' # exit \/ entry' # entry)
    /\ at' = at - 1
    /\ UNCHANGED <<ir, phase, block, index, dead>>

\* A sweep that starts one block too far.
SweepAgainPastEnd ==
    /\ phase = "sweep"
    /\ at = 0
    /\ changed
    /\ at' = Len(ir) + 1
    /\ changed' = FALSE
    /\ UNCHANGED <<ir, entry, exit, phase, block, index, dead>>

\* A sweep that does not forget that the last one changed something.
SweepAgainChanged ==
    /\ phase = "sweep"
    /\ at = 0
    /\ changed
    /\ at' = Len(ir)
    /\ UNCHANGED <<ir, entry, exit, changed, phase, block, index, dead>>

SweepAgain ==
    /\ phase = "sweep"
    /\ at = 0
    /\ changed
    /\ at' = Len(ir)
    /\ changed' = FALSE
    /\ UNCHANGED <<ir, entry, exit, phase, block, index, dead>>

SweepEnds ==
    /\ phase = "sweep"
    /\ at = 0
    /\ ~ changed
    /\ phase' = "run"
    /\ UNCHANGED <<ir, entry, exit, at, changed, block, index, dead>>

Analyse == SweepBlock \/ SweepAgain \/ SweepEnds

-----------------------------------------------------------------------------
(***************************************************************************)
(* The run, with what the emitted code really reads and overwrites.        *)
(* place_address walks a path from the slot's address and loads a pointer  *)
(* at every dereference, in a store as in a load.                          *)
(***************************************************************************)
Uses(inst) ==
    ArgBits(inst) \cup
    (IF inst.op \in {"load", "ref", "drop", "store"} THEN IndexBits(inst) ELSE {}) \cup
    (IF inst.op \in {"load", "ref", "drop"} \/ (inst.op = "store" /\ Dereferences(inst))
     THEN Touched(inst.base, LeadingField(inst)) ELSE {})

\* Only a store to a slot or to a field of it leaves nothing of the old; the
\* contents of a slot also end with its storage.
Overwrites(inst) ==
    Touched(inst.res, Whole) \cup
    (IF inst.op = "store" /\ (Len(inst.proj) = 1 => inst.proj[1].kind = "field")
                         /\ Len(inst.proj) \leq 1
     THEN Touched(inst.base, LeadingField(inst)) ELSE {}) \cup
    (IF inst.op \in {"storage_live", "storage_dead"} THEN Touched(inst.base, Whole) ELSE {})

Running == phase = "run" /\ index \in 1..Len(ir[block])

Here == ir[block][index]

\* The bits mir_live_after finds clear after the instruction at hand; it calls
\* a value dead as a whole when all its bits are among them (any_field_live).
DeadAfter == Bits \ LiveBefore(ir[block], index + 1, exit[block])

RunInst ==
    /\ Running
    /\ ~ IsTerminator(Here)
    /\ dead' = (dead \ Overwrites(Here)) \cup DeadAfter
    /\ index' = index + 1
    /\ UNCHANGED <<ir, entry, exit, at, changed, phase, block>>

\* A jump or a branch; the condition of a branch may come out either way.
RunEdge ==
    /\ Running
    /\ IsTerminator(Here)
    /\ \E t \in SuccessorSet(ir[block]) : block' = t
    /\ index' = 1
    /\ dead' = dead \cup DeadAfter
    /\ UNCHANGED <<ir, entry, exit, at, changed, phase>>

\* A body that returned, or ran off an unterminated block, stays as it is.
RunOver ==
    /\ phase = "run"
    /\ Running => Here.op = "return"
    /\ UNCHANGED vars

Next == Analyse \/ RunInst \/ RunEdge \/ RunOver

\* The compiler keeps sweeping: nothing suspends mir_liveness_compute.
Spec == Init /\ [][Next]_vars /\ WF_vars(Analyse)

-----------------------------------------------------------------------------
(***************************************************************************)
(* Properties.                                                             *)
(***************************************************************************)

\* The sets hold bits of the function's values, and the run stays inside
\* the body.
TypeOK ==
    /\ ir \in Functions
    /\ entry \in [Blocks -> SUBSET Bits]
    /\ exit \in [Blocks -> SUBSET Bits]
    /\ at \in 0..Len(ir)
    /\ changed \in BOOLEAN
    /\ phase \in {"sweep", "run"}
    /\ block \in Blocks
    /\ index \in 1..(Len(ir[block]) + 1)
    /\ dead \in SUBSET Bits

(***************************************************************************)
(* What mir_live_after calls dead is not read again before it is           *)
(* overwritten, on any path.  The borrow checker lets a borrow pass where  *)
(* the storage it names ends because of this answer.                       *)
(***************************************************************************)
DeadIsNeverUsed == Running => Uses(Here) \cap dead = {}

(***************************************************************************)
(* When a sweep changes nothing, a bit is in the set of a block's head     *)
(* exactly when some path from there reads it before writing it: the       *)
(* in-place, last-to-first sweep neither stops short of the least fixed    *)
(* point nor overshoots it.                                                *)
(***************************************************************************)
PathTo(b, t, c) ==
    \E n \in 1..Len(ir) : \E path \in [1..n -> Blocks] :
        /\ path[1] = b /\ path[n] = t
        /\ \A i \in 1..(n - 1) : /\ path[i + 1] \in SuccessorSet(ir[path[i]])
                                 /\ Unwritten(ir[path[i]], 1, c)

LivenessIsExact ==
    (phase = "sweep" /\ at = 0 /\ ~ changed) =>
        \A b \in Blocks :
            entry[b] = {c \in Bits : \E t \in Blocks : ReadFirst(ir[t], 1, c) /\ PathTo(b, t, c)}

\* The `while (changed)` loop of mir_liveness_compute ends for every body.
LivenessEnds == <>(phase = "run")
=============================================================================
