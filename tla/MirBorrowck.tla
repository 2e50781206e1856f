---------------------------- MODULE MirBorrowck ----------------------------
(***************************************************************************)
(* The initialisation half of mir_borrowck (mir/mir_borrowck.c) with the   *)
(* state it flows (mir/mir_state.c): which slots hold a value, which were  *)
(* moved out of, and the reads it turns down.                              *)
(*                                                                         *)
(* The modelled programs keep no borrow past the call it is made for, so   *)
(* the sets of borrows, and the dangling state they lead to, are left out. *)
(* A slot has one tracked field, which is moved and refilled along with    *)
(* it, so one state stands for both.                                       *)
(***************************************************************************)
EXTENDS Mir, MirState, FiniteSets

\* flow_inst: the state of v after an instruction that finds it in state s.
SlotAfter(inst, v, s) ==
    IF inst.res = v THEN Held
    ELSE IF inst.base # v THEN s
    ELSE IF inst.op \in {"storage_live", "storage_dead"} THEN Uninit
    ELSE IF inst.op \in {"storage_init", "store"} THEN Held
    ELSE IF inst.op = "load" /\ inst.move THEN Moved
    ELSE s

\* flow_block, up to but not including instruction j.
SlotBefore(block, j, v, s) ==
    LET after[i \in 0..(j - 1)] == IF i = 0 THEN s ELSE SlotAfter(block[i], v, after[i - 1])
    IN after[j - 1]

(***************************************************************************)
(* The blocks reached and the states at their heads, and one pass over     *)
(* them: what leaves a block is merged into its successors.  The code      *)
(* updates the heads in place, block by block; the merge only ever lowers  *)
(* them, so the point where nothing changes is the same.                   *)
(***************************************************************************)
AtStart(body, values, params) ==
    [reached |-> {1},
     heads |-> [b \in DOMAIN body |->
                 [v \in values |-> IF b = 1 /\ v \in params THEN Held ELSE Unreached]]]

MergeSlots(states) ==
    LET named == states \ {Unreached}
    IN IF named = {} THEN Unreached
       ELSE CHOOSE s \in named : \A t \in named : SlotMerge(s, t) = s

FlowOnce(body, table) ==
    LET arriving(b) == {p \in table.reached : b \in SuccessorSet(body[p])}
    IN [reached |-> table.reached \cup UNION {SuccessorSet(body[p]) : p \in table.reached},
        heads |-> [b \in DOMAIN body |->
          [v \in DOMAIN table.heads[1] |->
             MergeSlots({table.heads[b][v]} \cup
                {SlotBefore(body[p], Len(body[p]) + 1, v, table.heads[p][v]) : p \in arriving(b)})]]]

\* The `while (changed)` loop of mir_borrowck.
FlowUntilStable(body, start) ==
    LET tables == [reached : SUBSET DOMAIN body,
                   heads : [DOMAIN body -> [DOMAIN start.heads[1] -> SlotInits]]]
        from[table \in tables] ==
            LET after == FlowOnce(body, table) IN IF after = table THEN table ELSE from[after]
    IN from[start]

\* check_readable of a LOAD or a REF, and the argument check of a CALL.
ReadBy(inst) ==
    IF inst.op \in {"load", "ref"} THEN inst.base
    ELSE IF inst.op = "call" THEN inst.arg ELSE None

\* mir_borrowck reports nothing: no reachable instruction reads what was moved.
Accepts(body, values, params) ==
    LET table == FlowUntilStable(body, AtStart(body, values, params))
    IN \A b \in table.reached : \A j \in DOMAIN body[b] :
          LET v == ReadBy(body[b][j])
          IN v # None => SlotBefore(body[b], j, v, table.heads[b][v]) # Moved
=============================================================================
