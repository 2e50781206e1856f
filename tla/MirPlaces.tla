----------------------------- MODULE MirPlaces -----------------------------
(***************************************************************************)
(* Instructions with the full path of their place, and what of memory they *)
(* touch (mir/mir.h, and step_backwards of mir/mir_liveness.c).            *)
(*                                                                         *)
(* A value has one bit for the whole of it and, when it is a struct, one   *)
(* for each of its fields.  How a path begins decides which bits an        *)
(* instruction touches.                                                    *)
(***************************************************************************)
EXTENDS Mir

CONSTANTS Functions,    \* the function bodies analysed
          Fields        \* how many fields each value has: 0 unless a struct

Values == DOMAIN Fields

Whole == 0    \* MIR_WHOLE_VALUE; fields count from 1

Projections == [kind : {"field", "deref", "index"}, of : Int]

\* "move" is READ_MOVE; "names" are the arguments a call's result may name,
\* the callee's borrowed_params.
PathInsts == [op : STRING, base : Int, proj : Seq(Projections), res : Int, args : Seq(Int),
              to : Seq(Nat), move : BOOLEAN, names : SUBSET Nat]

\* A body has an entry block, its targets exist, and a terminator ends its
\* block and produces nothing.
WellFormed(body) ==
    /\ body \in Seq(Seq(PathInsts))
    /\ Len(body) >= 1
    /\ \A b \in 1..Len(body) :
         /\ SuccessorSet(body[b]) \subseteq 1..Len(body)
         /\ \A i \in 1..Len(body[b]) :
              IsTerminator(body[b][i]) => i = Len(body[b]) /\ body[b][i].res = None

ASSUME LivenessAssumption ==
    /\ \A body \in Functions : WellFormed(body)
    /\ Values \subseteq Nat
    /\ \A v \in Values : Fields[v] \in Nat

-----------------------------------------------------------------------------
(***************************************************************************)
(* Bits and the effect of an instruction on them.                          *)
(***************************************************************************)
BitsOf(v) == {<<v, f>> : f \in 0..Fields[v]}

Bits == UNION {BitsOf(v) : v \in Values}

\* read_place and write_place touch the same bits: a field has its own, the
\* whole of a value has all of them, and MIR_NO_VALUE has none.
Touched(v, f) ==
    IF v \notin Values THEN {}
    ELSE IF f = Whole THEN BitsOf(v)
    ELSE {<<v, IF f \in 1..Fields[v] THEN f ELSE Whole>>}

\* leading_field: a path that does not begin with a field names the whole.
LeadingField(inst) ==
    IF inst.proj # <<>> /\ inst.proj[1].kind = "field" THEN inst.proj[1].of ELSE Whole

IndexBits(inst) ==
    UNION {Touched(inst.proj[i].of, Whole) :
             i \in {j \in DOMAIN inst.proj : inst.proj[j].kind = "index"}}

ArgBits(inst) == UNION {Touched(inst.args[i], Whole) : i \in DOMAIN inst.args}

\* What step_backwards takes for written ...
Writes(inst) ==
    Touched(inst.res, Whole) \cup
    (IF inst.op = "store" THEN Touched(inst.base, LeadingField(inst)) ELSE {}) \cup
    (IF inst.op \in {"storage_live", "storage_dead"} THEN Touched(inst.base, Whole) ELSE {})

\* Reads in which a store reads no part of its own place.
ReadsButStores(inst) ==
    ArgBits(inst) \cup
    (IF inst.op \in {"load", "ref", "drop"}
     THEN Touched(inst.base, LeadingField(inst)) \cup IndexBits(inst) ELSE {})

\* ... and for read.  A store reads its place only past one projection.
Reads(inst) ==
    ArgBits(inst) \cup
    (IF inst.op \in {"store", "load", "ref", "drop"} THEN IndexBits(inst) ELSE {}) \cup
    (IF inst.op \in {"load", "ref", "drop"} \/ (inst.op = "store" /\ Len(inst.proj) > 1)
     THEN Touched(inst.base, LeadingField(inst)) ELSE {})

(***************************************************************************)
(* step_backwards from the end of a block down to instruction j: a bit is  *)
(* live before j if it is read from there on before it is written, or not  *)
(* written at all and live on exit.                                        *)
(***************************************************************************)
ReadFirst(code, j, c) ==
    \E i \in j..Len(code) : /\ c \in Reads(code[i])
                            /\ \A k \in j..(i - 1) : c \notin Writes(code[k])

Unwritten(code, j, c) == \A k \in j..Len(code) : c \notin Writes(code[k])

LiveBefore(code, j, exit) ==
    {c \in Bits : ReadFirst(code, j, c) \/ (c \in exit /\ Unwritten(code, j, c))}

\* reaches_past_its_root.
Dereferences(inst) == \E i \in DOMAIN inst.proj : inst.proj[i].kind = "deref"
=============================================================================
