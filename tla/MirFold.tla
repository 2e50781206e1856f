------------------------------ MODULE MirFold ------------------------------
(***************************************************************************)
(* mir_fold (mir/mir_fold.c, constant.c): arithmetic on constants is done  *)
(* by the compiler, and a constant nothing reads is dropped.               *)
(*                                                                         *)
(* The compiler computes in int32_t on constants kept in an int64_t; the   *)
(* program computes in the type of its operands, as llvm_emit.c emits it.  *)
(* The widths are parameters, so a word is small in a run.  Floats are     *)
(* whole numbers without a width, and their division is left out: the      *)
(* compiler and the program do the same to them.  Blocks follow each other *)
(* in the order the pass walks them.                                       *)
(***************************************************************************)
EXTENDS Integers, Sequences, Rounds

CONSTANTS Programs,    \* the functions folded, each a sequence of instructions
          Inputs,      \* what a parameter may hold
          ByteValues,  \* how many values a u8 has: 2^8;
          WordValues,  \* an i32 and the int32_t of the compiler: 2^32;
          SizeValues   \* and a usize and Constant.as_int: 2^64

None == -1          \* MIR_NO_VALUE
NoType == "none"    \* a Constant without a type
Integral == {"i32", "u8", "usize"}
Types == Integral \cup {"f32", "bool"}

Constant(type, n) == [type |-> type, value |-> n]
Constants == [type : Types \cup {NoType}, value : Int]
NotKnown == Constant("not known", 0)

\* An operand holds a constant or names a value; a place is its base and the
\* values that index it.
ConstOperand(c) == [kind |-> "const", constant |-> c]
ValueOperand(v) == [kind |-> "value", value |-> v]
Operands ==
    [kind : {"const"}, constant : Constants] \cup [kind : {"value"}, value : Nat \cup {None}]

Arithmetic == {"add", "sub", "mul", "div", "mod"}
Operators == Arithmetic \cup {"neg", "not"}
ConstOps == {"const_int", "const_float", "const_bool"}

ConstOpOf(type) ==
    IF type = "f32" THEN "const_float" ELSE IF type = "bool" THEN "const_bool" ELSE "const_int"

-----------------------------------------------------------------------------
(***************************************************************************)
(* Integers of so many values.                                             *)
(***************************************************************************)
Signed(n, count) == IF 2 * (n % count) >= count THEN (n % count) - count ELSE n % count

\* What a register of a type holds of n; LLVMConstInt, sign extended, does so.
AsHeld(type, n) ==
    IF type = "i32" THEN Signed(n, WordValues)
    ELSE IF type = "u8" THEN n % ByteValues
    ELSE IF type = "usize" THEN n % SizeValues
    ELSE n

\* C's / and %, which round towards zero.
Abs(n) == IF n < 0 THEN 0 - n ELSE n
Quotient(a, b) == IF (a < 0) = (b < 0) THEN Abs(a) \div Abs(b) ELSE 0 - (Abs(a) \div Abs(b))
Remainder(a, b) == a - b * Quotient(a, b)

Computed(op, a, b) ==
    CASE op = "add" -> a + b
      [] op = "sub" -> a - b
      [] op = "mul" -> a * b
      [] op = "div" -> Quotient(a, b)
      [] op = "mod" -> Remainder(a, b)

\* An int32_t has no room for the opposite of its least value.
IsLeast(a) == 2 * a = 0 - WordValues

-----------------------------------------------------------------------------
(***************************************************************************)
(* Functions.                                                              *)
(***************************************************************************)
\* What an instruction reads: its operands, the base of its place and what
\* indexes it.
ArgsOf(inst) ==
    {inst.args[i].value : i \in {j \in DOMAIN inst.args : inst.args[j].kind = "value"}}

ReadBy(inst) == ArgsOf(inst) \cup {inst.base} \cup {inst.index[i] : i \in DOMAIN inst.index}

ReadValues(code) == UNION {ReadBy(code[i]) : i \in DOMAIN code}
ResultsOf(code) == {code[i].res : i \in DOMAIN code}

Insts ==
    [op : Operators \cup ConstOps \cup {"store", "return"}, type : Types, args : Seq(Operands),
     res : Nat \cup {None}, constant : Constants, base : Nat \cup {None}, index : Seq(Nat)]

\* An operand of an operator is of its type, or a length, which has none.
IsTyped(code, inst) ==
    \A k \in DOMAIN inst.args :
        IF inst.args[k].kind = "const" THEN inst.args[k].constant.type \in {inst.type, NoType}
        ELSE \A j \in DOMAIN code :
                code[j].res = inst.args[k].value /\ code[j].res # None => code[j].type = inst.type

(***************************************************************************)
(* What lower_* emits: a value has one definition, before it is read;      *)
(* operators have their operands and the resolver's types; a store or a    *)
(* return defines nothing, and constants are ones an int64_t holds.        *)
(***************************************************************************)
IsFunction(code) ==
    /\ code \in Seq(Insts)
    /\ \A i, j \in DOMAIN code : code[i].res = code[j].res /\ code[i].res # None => i = j
    /\ \A i, j \in DOMAIN code : code[j].res \in ReadBy(code[i]) /\ code[j].res # None => j < i
    /\ \A i \in DOMAIN code :
          /\ code[i].res = None <=> code[i].op \in {"store", "return"}
          /\ code[i].op \in ConstOps => /\ code[i].op = ConstOpOf(code[i].type)
                                        /\ code[i].args = <<>>
                                        /\ code[i].constant.type \in {code[i].type, NoType}
          /\ code[i].op \notin ConstOps => code[i].constant = Constant(NoType, 0)
          /\ code[i].op = "const_int" =>
                code[i].constant.value = Signed(code[i].constant.value, SizeValues)
          /\ code[i].op \in Arithmetic => Len(code[i].args) = 2
          /\ code[i].op \in {"neg", "not"} => Len(code[i].args) = 1
          /\ code[i].op \in Operators => IsTyped(code, code[i])
          /\ code[i].op = "div" => code[i].type # "f32"

ASSUME FoldAssumption ==
    /\ ByteValues \in Nat \ {0} /\ WordValues \in Nat \ {0} /\ SizeValues \in Nat \ {0}
    /\ WordValues % ByteValues = 0 /\ WordValues < SizeValues
    /\ Inputs \subseteq Int
    /\ \A code \in Programs : IsFunction(code)

VARIABLES source,   \* the function as it was lowered
          insts,    \* and as it is now
          known,    \* KnownValue of every value: its constant, or NotKnown
          read,     \* the values drop_unread_constants has seen read
          at,       \* the next instruction of the loop
          phase     \* "fold", "drop" or "done"

vars == <<source, insts, known, read, at, phase>>

Values == ResultsOf(source) \cup ReadValues(source)

-----------------------------------------------------------------------------
(***************************************************************************)
(* Folding one instruction.                                                *)
(***************************************************************************)
\* known_values: what the constants of every block produce.
Gives(code, i, v) == code[i].op \in ConstOps /\ code[i].res = v /\ v # None

KnownValues(code) ==
    [v \in Values |-> IF \E i \in DOMAIN code : Gives(code, i, v)
                      THEN code[CHOOSE i \in DOMAIN code : Gives(code, i, v)].constant
                      ELSE NotKnown]

\* known_operand.
KnownOperand(operand) ==
    IF operand.kind = "const" THEN operand.constant
    ELSE IF operand.value = None THEN NotKnown ELSE known[operand.value]

\* The divisions fold_int_binary leaves to the program.
DivisionFolds(a, b) == b # 0 /\ ~(IsLeast(a) /\ b = -1)

\* fold_int_binary, on what an int32_t holds of its operands.
IntBinaryFolds(op, a, b) == op \in {"add", "sub", "mul"} \/ DivisionFolds(a, b)

\* Mutant: the division of two unsigned constants is folded as any other.
BinaryFoldsSigned(op, left, right) ==
    /\ left.type # NoType /\ left.type = right.type
    /\ \/ /\ left.type \in Integral
          /\ IntBinaryFolds(op, Signed(left.value, WordValues), Signed(right.value, WordValues))
       \/ left.type = "f32" /\ op # "mod"

\* fold_binary turns down operands of two types, and unsigned divisions.
BinaryFolds(op, left, right) ==
    /\ left.type # NoType /\ left.type = right.type
    /\ \/ /\ left.type \in Integral
          /\ ~(left.type # "i32" /\ op \in {"div", "mod"})
          /\ IntBinaryFolds(op, Signed(left.value, WordValues), Signed(right.value, WordValues))
       \/ left.type = "f32" /\ op # "mod"

\* Mutant: the result is not brought back to an int32_t.
BinaryUnwrapped(op, left, right) ==
    Constant(left.type, Computed(op, Signed(left.value, WordValues), Signed(right.value, WordValues)))

\* The constant of a folded float has no type: only as_float is assigned.
Binary(op, left, right) ==
    IF left.type = "f32" THEN Constant(NoType, Computed(op, left.value, right.value))
    ELSE Constant(left.type,
                  Signed(Computed(op, Signed(left.value, WordValues), Signed(right.value, WordValues)), WordValues))

\* fold_neg and fold_not.
UnaryFolds(op, operand) ==
    IF op = "not" THEN operand.type = "bool" ELSE operand.type \in Integral \cup {"f32"}

Unary(op, operand) ==
    IF op = "not" THEN Constant("bool", 1 - operand.value)
    ELSE Constant(operand.type,
                  IF operand.type = "f32" THEN 0 - operand.value
                  ELSE Signed(0 - Signed(operand.value, WordValues), WordValues))

\* Whether the switch of mir_fold folds an instruction, and the constant.
Folds(inst) ==
    /\ inst.op \in Operators
    /\ \A i \in DOMAIN inst.args : KnownOperand(inst.args[i]) # NotKnown
    /\ \/ /\ inst.op \in Arithmetic /\ Len(inst.args) = 2
          /\ BinaryFolds(inst.op, KnownOperand(inst.args[1]), KnownOperand(inst.args[2]))
       \/ /\ inst.op \in {"neg", "not"} /\ Len(inst.args) = 1
          /\ UnaryFolds(inst.op, KnownOperand(inst.args[1]))

FoldedTo(inst) ==
    IF inst.op \in Arithmetic
    THEN Binary(inst.op, KnownOperand(inst.args[1]), KnownOperand(inst.args[2]))
    ELSE Unary(inst.op, KnownOperand(inst.args[1]))

Folded(inst) ==
    [inst EXCEPT !.op = ConstOpOf(inst.type), !.args = <<>>, !.constant = FoldedTo(inst)]

-----------------------------------------------------------------------------
Init ==
    /\ source \in Programs
    /\ insts = source
    /\ known = KnownValues(source)
    /\ read = {}
    /\ at = 1
    /\ phase = "fold"

\* One turn of mir_fold's loop.
FoldInst ==
    /\ phase = "fold"
    /\ at \in DOMAIN insts
    /\ IF Folds(insts[at])
       THEN /\ insts' = [insts EXCEPT ![at] = Folded(insts[at])]
            /\ known' = [known EXCEPT ![insts[at].res] = FoldedTo(insts[at])]
       ELSE UNCHANGED <<insts, known>>
    /\ at' = at + 1
    /\ UNCHANGED <<source, read, phase>>

\* Mutant: only operands count as read.
LastFoldedArgs ==
    /\ phase = "fold"
    /\ at \notin DOMAIN insts
    /\ phase' = "drop"
    /\ read' = UNION {ArgsOf(insts[i]) : i \in DOMAIN insts}
    /\ at' = 1
    /\ UNCHANGED <<source, insts, known>>

\* The first loop of drop_unread_constants.
LastFolded ==
    /\ phase = "fold"
    /\ at \notin DOMAIN insts
    /\ phase' = "drop"
    /\ read' = ReadValues(insts)
    /\ at' = 1
    /\ UNCHANGED <<source, insts, known>>

Unread(inst) == inst.op \in ConstOps /\ inst.res # None /\ inst.res \notin read

Without(code, i) == [j \in 1..(Len(code) - 1) |-> IF j < i THEN code[j] ELSE code[j + 1]]

\* One turn of its second: what is kept moves up.
DropInst ==
    /\ phase = "drop"
    /\ at \in DOMAIN insts
    /\ IF Unread(insts[at]) THEN insts' = Without(insts, at) /\ UNCHANGED at
       ELSE at' = at + 1 /\ UNCHANGED insts
    /\ UNCHANGED <<source, known, read, phase>>

LastDropped ==
    /\ phase = "drop"
    /\ at \notin DOMAIN insts
    /\ phase' = "done"
    /\ UNCHANGED <<source, insts, known, read, at>>

Next == FoldInst \/ LastFolded \/ DropInst \/ LastDropped

Spec == Init /\ [][Next]_vars

-----------------------------------------------------------------------------
(***************************************************************************)
(* What the emitted function computes (emit_inst of llvm/llvm_emit.c).     *)
(***************************************************************************)
\* A value held, or none where a division has no result.
Undefined == <<>>

Emitted(inst, a, b) ==
    IF \/ a = Undefined \/ b = Undefined
       \/ inst.op \in {"div", "mod"} /\ b[1] = 0
       \/ inst.op \in {"div", "mod"} /\ inst.type = "i32" /\ IsLeast(a[1]) /\ b[1] = -1
    THEN Undefined
    ELSE <<AsHeld(inst.type, IF inst.op = "neg" THEN 0 - a[1]
                             ELSE IF inst.op = "not" THEN 1 - a[1]
                             ELSE Computed(inst.op, a[1], b[1]))>>

\* An operand in registers, and the result of an instruction.
Operand(inst, k, regs) ==
    IF k > Len(inst.args) THEN <<0>>
    ELSE IF inst.args[k].kind = "const"
    THEN <<AsHeld(inst.args[k].constant.type, inst.args[k].constant.value)>>
    ELSE regs[inst.args[k].value]

Result(inst, regs) ==
    IF inst.op \in ConstOps THEN <<AsHeld(inst.type, inst.constant.value)>>
    ELSE IF inst.op \in Operators THEN Emitted(inst, Operand(inst, 1, regs), Operand(inst, 2, regs))
    ELSE Undefined

\* The registers after code, from ones that hold a parameter each.
Files == [Values -> Seq(Int)]

After(inst, regs) ==
    IF inst.res = None THEN regs ELSE [regs EXCEPT ![inst.res] = Result(inst, regs)]

Execute(code) == [s \in Nat \X Files |-> <<s[1] + 1, After(code[s[1]], s[2])>>]

Registers(code, arg) ==
    Iterated(<<1, [v \in Values |-> <<arg>>]>>, Execute(code), Len(code))[2]

\* What a store or a return is given: its operands, and what indexes it.
Given(inst, regs) ==
    [inst |-> inst, args |-> [k \in DOMAIN inst.args |-> Operand(inst, k, regs)],
     index |-> [k \in DOMAIN inst.index |-> regs[inst.index[k]]]]

Effects(code) == {i \in DOMAIN code : code[i].op \in {"store", "return"}}

Outcome(code, arg) ==
    LET regs == Registers(code, arg) IN {Given(code[i], regs) : i \in Effects(code)}

-----------------------------------------------------------------------------
(***************************************************************************)
(* A usize constant past what an int32_t holds: the compiler's arithmetic  *)
(* loses its upper half (mir_fold.c:199).                                  *)
(***************************************************************************)
PastTheWord(n) == n # Signed(n, WordValues)

FoldsPastTheWord(inst) ==
    /\ inst.type = "usize" /\ Folds(inst)
    /\ \/ \E i \in DOMAIN inst.args : PastTheWord(KnownOperand(inst.args[i]).value)
       \/ inst.op = "neg" /\ PastTheWord(0 - KnownOperand(inst.args[1]).value)
       \/ inst.op \in Arithmetic /\
          PastTheWord(Computed(inst.op, KnownOperand(inst.args[1]).value, KnownOperand(inst.args[2]).value))

SomeFoldsPastTheWord == \E i \in DOMAIN source : FoldsPastTheWord(source[i])

\* A constant is one an int64_t holds, and one that was folded is one that an
\* int32_t does.
TypeOK ==
    /\ insts \in Seq(Insts) /\ Len(insts) <= Len(source)
    /\ known \in [Values -> Constants \cup {NotKnown}]
    /\ \A i \in DOMAIN insts : insts[i].constant.type \in Integral =>
          /\ insts[i].constant.value = Signed(insts[i].constant.value, SizeValues)
          /\ (\E j \in DOMAIN source : source[j].res = insts[i].res /\ source[j].op \notin ConstOps)
                => ~PastTheWord(insts[i].constant.value)
    /\ at \in 1..(Len(source) + 1)
    /\ phase \in {"fold", "drop", "done"}

\* Mid-way and at the end, the function computes what it did before mir_fold,
\* whatever its parameters hold; a division that has no result is still there.
FoldIsExact ==
    insts = source \/ SomeFoldsPastTheWord \/ \A arg \in Inputs : Outcome(insts, arg) = Outcome(source, arg)

\* Nothing a later instruction reads is dropped with the constants.
OperandsStay ==
    \A v \in ReadValues(insts) :
        (\E i \in DOMAIN source : source[i].res = v) => \E i \in DOMAIN insts : insts[i].res = v
=============================================================================
