------------------------------ MODULE MirState ------------------------------
(***************************************************************************)
(* What the borrow checker knows of one slot, and how two paths that meet  *)
(* agree on it (mir/mir_state.h, slot_merge of mir/mir_state.c).           *)
(***************************************************************************)
EXTENDS Naturals

\* MIRSlotInit, in its order, which slot_merge compares.
Unreached == 0
Uninit    == 1
Moved     == 2
Held      == 4     \* MIR_SLOT_INIT; 3 is MIR_SLOT_DANGLING

SlotInits == {Unreached, Uninit, Moved, Held}

\* A merge that trusts the better path.
BetterPathWins(a, b) == IF a < b THEN b ELSE a

\* slot_merge.
SlotMerge(a, b) ==
    IF a = Unreached THEN b ELSE IF b = Unreached THEN a ELSE IF b < a THEN b ELSE a
=============================================================================
