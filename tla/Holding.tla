------------------------------ MODULE Holding ------------------------------
(***************************************************************************)
(* What drop elaboration knows of a slot (mir/mir_drop.c, Holding): that   *)
(* it still has what was last stored in it, that a move emptied it, or     *)
(* that it depends on the path taken.                                      *)
(***************************************************************************)
EXTENDS Mir

HoldsItsObject == "object"
HoldsNothing   == "nothing"
HoldsEither    == "either"

Holdings == {HoldsItsObject, HoldsNothing, HoldsEither}

\* A merge that forgets the second path.
FirstPathWins(a, b) == a

\* holding_merge.
HoldingMerge(a, b) == IF a = b THEN a ELSE HoldsEither

\* The instructions walk_block reacts to.  A projected place is skipped.
Empties(inst, v) == inst.op = "null" /\ inst.base = v /\ inst.whole
Fills(inst, v)   == inst.op \in {"store", "storage_init"} /\ inst.base = v /\ inst.whole
Writes(inst, v)  == Empties(inst, v) \/ Fills(inst, v)

(***************************************************************************)
(* walk_block: what is known of v just before instruction j, given h at    *)
(* the head of the block.  The latest write before j decides.              *)
(***************************************************************************)
LastEmptied(block, j, v) ==
    \E i \in 1..(j - 1) : /\ Empties(block[i], v)
                          /\ \A k \in (i + 1)..(j - 1) : ~ Writes(block[k], v)

LastFilled(block, j, v) ==
    \E i \in 1..(j - 1) : /\ Fills(block[i], v)
                          /\ \A k \in (i + 1)..(j - 1) : ~ Writes(block[k], v)

HeldAt(block, j, h, v) ==
    IF LastEmptied(block, j, v) THEN HoldsNothing
    ELSE IF LastFilled(block, j, v) THEN HoldsItsObject
    ELSE h

\* walk_block run to the end of the block.
HeldAtExit(block, h, v) == HeldAt(block, Len(block) + 1, h, v)

-----------------------------------------------------------------------------
(***************************************************************************)
(* One sweep of entry_holdings: the facts at the head of each block are    *)
(* the merge of the exit facts of all its predecessors, reachable or not.  *)
(* The entry block also merges the zero it starts from, and a block        *)
(* nothing leads to keeps that zero.                                       *)
(***************************************************************************)
Arriving(body, entries, b, v) ==
    {HeldAtExit(body[p], entries[p][v], v) : p \in {q \in DOMAIN body : b \in SuccessorSet(body[q])}}
        \cup (IF b = 1 THEN {HoldsItsObject} ELSE {})

MergeAll(facts) ==
    IF facts = {} THEN HoldsItsObject
    ELSE IF \E f \in facts : facts = {f} THEN CHOOSE f \in facts : TRUE
    ELSE HoldsEither

HoldingSweep(body, values, entries) ==
    [b \in DOMAIN body |-> [v \in values |-> MergeAll(Arriving(body, entries, b, v))]]
=============================================================================
