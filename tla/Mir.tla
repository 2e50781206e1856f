-------------------------------- MODULE Mir --------------------------------
(***************************************************************************)
(* The mid-level representation of a function body (mir/mir.h, mir/mir.c), *)
(* cut down to what ownership depends on.  A function is a sequence of     *)
(* blocks, a block a sequence of instructions, and a value an index that   *)
(* names a variable's slot, a temporary's slot or an instruction's result. *)
(* Blocks are numbered from 1, so blocks[1] is the entry.                  *)
(*                                                                         *)
(* Types are reduced to "owns a heap object" (what mir_type_needs_drop     *)
(* answers) and arithmetic is left out: nothing here reads a number.       *)
(***************************************************************************)
EXTENDS Integers, Sequences

\* MIR_NO_VALUE and MIR_NO_BLOCK.
None == -1

(***************************************************************************)
(* Instructions.  "base" is the slot an instruction's place starts from    *)
(* and "whole" says the place has no projection; "arg" is the operand, and *)
(* "to" the targets of a terminator.                                       *)
(***************************************************************************)
Blank == [op |-> "nop", base |-> None, whole |-> TRUE, res |-> None,
          arg |-> None, move |-> FALSE, callee |-> "", flag |-> None,
          to |-> <<>>]

Insts == [op : STRING, base : Int, whole : BOOLEAN, res : Int, arg : Int,
          move : BOOLEAN, callee : STRING, flag : Int, to : Seq(Nat)]

StorageLive(v) == [Blank EXCEPT !.op = "storage_live", !.base = v]
StorageDead(v) == [Blank EXCEPT !.op = "storage_dead", !.base = v]
StorageInit(v) == [Blank EXCEPT !.op = "storage_init", !.base = v]
Store(v, a)    == [Blank EXCEPT !.op = "store", !.base = v, !.arg = a]
StoreField(v, a) == [Store(v, a) EXCEPT !.whole = FALSE]
LoadCopy(r, v) == [Blank EXCEPT !.op = "load", !.base = v, !.res = r]
LoadField(r, v) == [LoadCopy(r, v) EXCEPT !.whole = FALSE]
LoadMove(r, v) == [LoadCopy(r, v) EXCEPT !.move = TRUE]
Ref(r, v)      == [Blank EXCEPT !.op = "ref", !.base = v, !.res = r]
Call(f, r, a)  == [Blank EXCEPT !.op = "call", !.callee = f, !.res = r, !.arg = a]
Null(v)        == [Blank EXCEPT !.op = "null", !.base = v]
Drop(v)        == [Blank EXCEPT !.op = "drop", !.base = v]
DropFlag(v, b) == [Blank EXCEPT !.op = "drop_flag", !.base = v, !.flag = v, !.move = b]
Jmp(b)         == [Blank EXCEPT !.op = "jmp", !.to = <<b>>]
Branch(t, e)   == [Blank EXCEPT !.op = "branch", !.to = <<t, e>>]
Return(a)      == [Blank EXCEPT !.op = "return", !.arg = a]

\* mir_op_is_terminator.
IsTerminator(inst) == inst.op \in {"jmp", "branch", "return"}

\* mir_block_is_terminated: only the last instruction is looked at.
IsTerminated(block) == block # <<>> /\ IsTerminator(block[Len(block)])

\* mir_block_successors.
Successors(block) == IF IsTerminated(block) THEN block[Len(block)].to ELSE <<>>

SuccessorSet(block) == {Successors(block)[i] : i \in DOMAIN Successors(block)}
=============================================================================
