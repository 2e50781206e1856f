----------------------------- MODULE MCMirFold -----------------------------
(***************************************************************************)
(* Functions for MirFold: two operations on three literals, of which the   *)
(* first may be the parameter instead, a store into an element and a       *)
(* return.  With words of three bits, -4 is the least i32.                 *)
(***************************************************************************)
EXTENDS MirFold

Param == 0

\* Around half of WordValues, WordValues and half of SizeValues.
Literals == {0, 1, 3, 4, 8, 15}

Inst(op, type, args, res) ==
    [op |-> op, type |-> type, args |-> args, res |-> res,
     constant |-> Constant(NoType, 0), base |-> None, index |-> <<>>]

ConstInst(type, of, n, res) == [Inst(ConstOpOf(type), type, <<>>, res) EXCEPT !.constant = Constant(of, n)]

\* lower_operand gives a literal as a constant on the right of an operator.
Right(as, of, n, v) == IF as = "const" THEN ConstOperand(Constant(of, n)) ELSE ValueOperand(v)

Second(op, type, c) ==
    IF op \in {"neg", "not"} THEN Inst(op, type, <<ValueOperand(3)>>, 5)
    ELSE Inst(op, type, <<ValueOperand(3), Right("const", type, c, 4)>>, 5)

Program(type, of, first, a, b, c, left, as, second) ==
    <<ConstInst(type, of, a, 1), ConstInst(type, type, b, 2),
      IF first \in {"neg", "not"} THEN Inst(first, type, <<ValueOperand(left)>>, 3)
      ELSE Inst(first, type, <<ValueOperand(left), Right(as, type, b, 2)>>, 3),
      ConstInst(type, type, c, 4),
      Second(second, type, c),
      [Inst("store", type, <<ValueOperand(5)>>, None) EXCEPT !.base = 6, !.index = <<IF as = "const" THEN 2 ELSE 1>>],
      Inst("return", type, <<ValueOperand(5)>>, None)>>

NegPrograms ==
    {Program(type, type, "neg", a, 1, c, 1, "const", second) :
        type \in Integral, a \in Literals, c \in Literals, second \in Arithmetic \cup {"neg"}}

OtherPrograms ==
    {Program("f32", "f32", first, a, b, 3, left, as, second) :
        first \in {"add", "mul", "neg"}, a \in {0, 3}, b \in {1, 4}, left \in {Param, 1},
        as \in {"const", "value"}, second \in {"sub", "neg"}} \cup
    {Program("bool", "bool", "not", a, 1, 1, left, "const", "not") : a \in {0, 1}, left \in {Param, 1}}

\* A literal without a type is the length of an array, as size_of is.
IntPrograms ==
    {Program(type, IF of[1] = "typed" THEN type ELSE NoType, first, a, b, c, of[2], of[3], second) :
        type \in Integral,
        of \in {<<"typed", 1, "value">>, <<"typed", Param, "const">>, <<"untyped", 1, "value">>},
        first \in Arithmetic, a \in Literals, b \in Literals, c \in {0, 3, 8},
        second \in Arithmetic \cup {"neg"}}

MCPrograms == IntPrograms \cup NegPrograms \cup OtherPrograms

MCInputs == {0, 1}
=============================================================================
