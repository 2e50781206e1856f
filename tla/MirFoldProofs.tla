--------------------------- MODULE MirFoldProofs ---------------------------
(***************************************************************************)
(* mir_fold keeps what a function computes, for every width of its         *)
(* integers, every function without a jump and every value of its          *)
(* parameters.                                                             *)
(***************************************************************************)
EXTENDS MirFold, NatFacts, TLAPS

-----------------------------------------------------------------------------
(***************************************************************************)
(* Arithmetic of so many values.                                           *)
(***************************************************************************)
\* What \div and % are.
LEMMA DivMod ==
    ASSUME NEW n \in Int, NEW M \in Nat \ {0}
    PROVE  \E q \in Int : n = q * M + (n % M) /\ n % M \in 0..(M - 1)
<1>1. n \div M \in Int /\ n % M \in 0..(M - 1) 
  OBVIOUS
<1>2. n = M * (n \div M) + (n % M) 
  OBVIOUS
<1>3. M * (n \div M) = (n \div M) * M
  BY <1>1
<1> QED
  BY <1>1, <1>2, <1>3

\* The remainder is the only one of its range.
LEMMA ModUnique ==
    ASSUME NEW M \in Nat \ {0}, NEW q \in Int, NEW r \in 0..(M - 1), NEW n \in Int, n = q * M + r
    PROVE  n % M = r
  OBVIOUS

\* x and y differ by a multiple of M.
Same(x, y, M) == \E k \in Int : x = y + k * M

\* Then they have the same remainder.
LEMMA SameMod ==
    ASSUME NEW M \in Nat \ {0}, NEW x \in Int, NEW y \in Int, Same(x, y, M)
    PROVE  x % M = y % M
<1>1. PICK k \in Int : x = y + k * M
  BY DEF Same
<1>2. PICK q \in Int : y = q * M + (y % M) /\ y % M \in 0..(M - 1)
  BY DivMod
<1>3. PICK r \in 0..(M - 1) : r = y % M
  BY <1>2
<1>4. PICK p \in Int : p = q + k
  OBVIOUS
<1>5. p * M = q * M + k * M
  BY <1>4
<1>6. x = p * M + r
  BY <1>1, <1>2, <1>3, <1>5
<1>7. x % M = r
  BY <1>6, ModUnique
<1> QED
  BY <1>3, <1>7

\* Sums, differences and products of such numbers do too.
LEMMA SameOps ==
    ASSUME NEW M \in Nat \ {0}, NEW x \in Int, NEW y \in Int, NEW u \in Int, NEW v \in Int,
           Same(x, y, M), Same(u, v, M)
    PROVE  Same(x + u, y + v, M) /\ Same(x - u, y - v, M) /\ Same(x * u, y * v, M)
<1>1. PICK k \in Int : x = y + k * M
  BY DEF Same
<1>2. PICK j \in Int : u = v + j * M
  BY DEF Same
<1>3. x + u = (y + v) + (k + j) * M /\ k + j \in Int
  BY <1>1, <1>2
<1>4. x - u = (y - v) + (k - j) * M /\ k - j \in Int
  BY <1>1, <1>2
<1>5. x * u = (y * v) + (y * j + k * v + k * j * M) * M /\ y * j + k * v + k * j * M \in Int
  BY <1>1, <1>2
<1> QED
  BY <1>3, <1>4, <1>5 DEF Same

\* What an integer of M values holds of x differs from x by a multiple of M and
\* lies between its limits;
LEMMA SignedFacts ==
    ASSUME NEW M \in Nat \ {0}, NEW x \in Int
    PROVE  /\ Signed(x, M) \in Int /\ Same(Signed(x, M), x, M)
           /\ 2 * Signed(x, M) < M /\ 0 - M <= 2 * Signed(x, M)
<1>1. PICK q \in Int : x = q * M + (x % M) /\ x % M \in 0..(M - 1)
  BY DivMod
<1>2. PICK r \in 0..(M - 1) : r = x % M
  BY <1>1
<1>3. r = x + (0 - q) * M /\ r - M = x + (0 - q - 1) * M
  BY <1>1, <1>2
<1>4. Signed(x, M) = r \/ Signed(x, M) = r - M
  BY <1>2 DEF Signed
<1>5. Signed(x, M) \in Int /\ 2 * Signed(x, M) < M /\ 0 - M <= 2 * Signed(x, M)
  BY <1>2 DEF Signed
<1>6. 0 - q \in Int /\ 0 - q - 1 \in Int
  OBVIOUS
<1>7. Same(r, x, M) /\ Same(r - M, x, M)
  BY <1>3, <1>6 DEF Same
<1> QED
  BY <1>4, <1>5, <1>7

\* and what lies between them is held as it is.
LEMMA SignedFixed ==
    ASSUME NEW M \in Nat \ {0}, NEW x \in Int, 2 * x < M, 0 - M <= 2 * x
    PROVE  Signed(x, M) = x
<1>1. CASE x >= 0
  <2>1. x % M = x
    BY <1>1
  <2> QED
    BY <1>1, <2>1 DEF Signed
<1>2. CASE x < 0
  <2>1. x = (0 - 1) * M + (x + M) /\ x + M \in 0..(M - 1)
    BY <1>2
  <2>2. x % M = x + M
    BY <2>1, ModUnique
  <2> QED
    BY <1>2, <2>2 DEF Signed
<1> QED
  BY <1>1, <1>2

\* A multiple of a word is one of its part.
LEMMA SameDivides ==
    ASSUME NEW M \in Nat \ {0}, NEW N \in Nat \ {0}, N % M = 0, NEW x \in Int, NEW y \in Int, Same(x, y, N)
    PROVE  Same(x, y, M)
<1>1. PICK k \in Int : x = y + k * N
  BY DEF Same
<1>2. PICK q \in Int : N = q * M + (N % M)
  <2>1. N \in Int
    OBVIOUS
  <2> QED
    BY <2>1, DivMod
<1>3. PICK a \in Int : a = q * M
  OBVIOUS
<1>4. N = a
  BY <1>2, <1>3
<1>5. k * a = (k * q) * M /\ k * q \in Int
  BY <1>3
<1>6. x = y + (k * q) * M
  BY <1>1, <1>4, <1>5
<1> QED
  BY <1>5, <1>6 DEF Same

-----------------------------------------------------------------------------
(***************************************************************************)
(* What the compiler computes of two constants is what the program would.  *)
(***************************************************************************)
\* The counts of values.
LEMMA Widths ==
    /\ ByteValues \in Nat \ {0} /\ WordValues \in Nat \ {0} /\ SizeValues \in Nat \ {0}
    /\ WordValues % ByteValues = 0 /\ WordValues < SizeValues
  BY FoldAssumption

\* A register holds an integer.
LEMMA HeldIsInt == \A type, n : n \in Int => AsHeld(type, n) \in Int
<1> SUFFICES ASSUME NEW type, NEW n \in Int PROVE AsHeld(type, n) \in Int
  OBVIOUS
<1>1. Signed(n, WordValues) \in Int /\ n % ByteValues \in Int /\ n % SizeValues \in Int
  BY Widths, SignedFacts
<1> QED
  BY <1>1 DEF AsHeld

\* A division that has a result has an integer.
LEMMA ComputedIsInt ==
    ASSUME NEW op \in Arithmetic, NEW a \in Int, NEW b \in Int, op \in {"div", "mod"} => b # 0
    PROVE  Computed(op, a, b) \in Int
<1>1. CASE op \in {"div", "mod"}
  <2>1. PICK x \in Nat, y \in Nat \ {0} : x = Abs(a) /\ y = Abs(b)
    BY <1>1 DEF Abs
  <2>2. x \div y \in Int
    BY <2>1
  <2>3. Quotient(a, b) \in Int
    BY <2>1, <2>2 DEF Quotient
  <2>4. Remainder(a, b) \in Int
    BY <2>3 DEF Remainder
  <2> QED
    BY <1>1, <2>3, <2>4 DEF Computed
<1>2. CASE op \in {"add", "sub", "mul"}
  BY <1>2 DEF Computed
<1> QED
  BY <1>1, <1>2 DEF Arithmetic

\* add, sub and mul of numbers that differ by multiples of M do so.
LEMMA ComputedSame ==
    ASSUME NEW M \in Nat \ {0}, NEW x \in Int, NEW y \in Int, NEW u \in Int, NEW v \in Int,
           Same(x, y, M), Same(u, v, M), NEW op \in {"add", "sub", "mul"}
    PROVE  Same(Computed(op, x, u), Computed(op, y, v), M)
<1>1. /\ op = "add" => Computed(op, x, u) = x + u /\ Computed(op, y, v) = y + v
      /\ op = "sub" => Computed(op, x, u) = x - u /\ Computed(op, y, v) = y - v
      /\ op = "mul" => Computed(op, x, u) = x * u /\ Computed(op, y, v) = y * v
  BY DEF Computed
<1>2. Same(x + u, y + v, M) /\ Same(x - u, y - v, M) /\ Same(x * u, y * v, M)
  BY SameOps
<1> QED
  BY <1>1, <1>2

\* A number differs from its remainder by a multiple.
LEMMA SameAsMod ==
    ASSUME NEW M \in Nat \ {0}, NEW x \in Int
    PROVE  x % M \in Int /\ Same(x % M, x, M) /\ Same(x, x % M, M)
<1>1. PICK q \in Int : x = q * M + (x % M) /\ x % M \in 0..(M - 1)
  BY DivMod
<1>2. PICK r \in Int : r = x % M
  BY <1>1
<1>3. x = r + q * M /\ r = x + (0 - q) * M /\ 0 - q \in Int
  BY <1>1, <1>2
<1>4. Same(x, r, M) /\ Same(r, x, M)
  BY <1>3 DEF Same
<1> QED
  BY <1>2, <1>4

\* Differing by multiples is transitive.
LEMMA SameTransitive ==
    ASSUME NEW M \in Nat \ {0}, NEW x \in Int, NEW y \in Int, NEW z \in Int, Same(x, y, M), Same(y, z, M)
    PROVE  Same(x, z, M)
<1>1. PICK k \in Int : x = y + k * M
  BY DEF Same
<1>2. PICK j \in Int : y = z + j * M
  BY DEF Same
<1>3. x = z + (k + j) * M /\ k + j \in Int
  BY <1>1, <1>2
<1> QED
  BY <1>3 DEF Same

\* An int32_t holds of what it holds all of it.
LEMMA SignedTwice ==
    ASSUME NEW x \in Int
    PROVE  Signed(x, WordValues) \in Int /\ Signed(Signed(x, WordValues), WordValues) = Signed(x, WordValues)
<1>1. PICK y \in Int : y = Signed(x, WordValues) /\ 2 * y < WordValues /\ 0 - WordValues <= 2 * y
  BY Widths, SignedFacts
<1>2. Signed(y, WordValues) = y
  BY <1>1, Widths, SignedFixed
<1> QED
  BY <1>1, <1>2

\* What an int32_t holds is also what an int64_t does.
LEMMA WordFitsSize ==
    ASSUME NEW x \in Int
    PROVE  Signed(Signed(x, WordValues), SizeValues) = Signed(x, WordValues)
<1>1. PICK y \in Int : y = Signed(x, WordValues) /\ 2 * y < WordValues /\ 0 - WordValues <= 2 * y
  BY Widths, SignedFacts
<1>2. 2 * y < SizeValues /\ 0 - SizeValues <= 2 * y
  BY <1>1, Widths
<1>3. Signed(y, SizeValues) = y
  BY <1>1, <1>2, Widths, SignedFixed
<1> QED
  BY <1>1, <1>3

\* Two operands of a type, computed with in an int32_t, give what the program
\* computes in that type; of a usize only as long as the int32_t holds all.
LEMMA IntegersAgree ==
    ASSUME NEW t \in Integral, NEW op \in {"add", "sub", "mul"}, NEW x \in Int, NEW y \in Int,
           t = "usize" => /\ ~PastTheWord(x) /\ ~PastTheWord(y)
                          /\ ~PastTheWord(Computed(op, x, y))
    PROVE  AsHeld(t, Signed(Computed(op, Signed(x, WordValues), Signed(y, WordValues)), WordValues))
             = AsHeld(t, Computed(op, AsHeld(t, x), AsHeld(t, y)))
<1>1. PICK u \in Int, v \in Int : u = Signed(x, WordValues) /\ v = Signed(y, WordValues)
  BY Widths, SignedFacts
<1>2. Same(u, x, WordValues) /\ Same(v, y, WordValues)
  BY <1>1, Widths, SignedFacts
<1>3. op \in Arithmetic /\ op \notin {"div", "mod"}
  BY DEF Arithmetic
<1>4. PICK c \in Int : c = Computed(op, u, v)
  BY <1>3, ComputedIsInt
<1>5. PICK w \in Int : w = Signed(c, WordValues)
  BY Widths, SignedFacts
<1>6. Same(w, c, WordValues)
  BY <1>5, Widths, SignedFacts
<1>7. CASE t = "i32"
  <2>1. AsHeld(t, x) = u /\ AsHeld(t, y) = v /\ AsHeld(t, w) = Signed(w, WordValues) /\ AsHeld(t, c) = w
    BY <1>7, <1>1, <1>5 DEF AsHeld
  <2>2. Signed(w, WordValues) = w
    BY <1>5, SignedTwice
  <2> QED
    BY <2>1, <2>2, <1>1, <1>4, <1>5
<1>8. CASE t = "u8"
  <2>1. PICK a \in Int, b \in Int : a = x % ByteValues /\ b = y % ByteValues
    BY Widths
  <2>2. Same(x, a, ByteValues) /\ Same(y, b, ByteValues)
    BY <2>1, Widths, SameAsMod
  <2>3. /\ Same(u, x, ByteValues) /\ Same(v, y, ByteValues) /\ Same(w, c, ByteValues)
    BY <1>2, <1>6, Widths, SameDivides
  <2>4. Same(u, a, ByteValues) /\ Same(v, b, ByteValues)
    BY <2>2, <2>3, Widths, SameTransitive
  <2>5. PICK d \in Int : d = Computed(op, a, b)
    BY <1>3, ComputedIsInt
  <2>6. Same(c, d, ByteValues)
    BY <1>4, <2>4, <2>5, Widths, ComputedSame
  <2>7. Same(w, d, ByteValues)
    BY <2>3, <2>6, Widths, SameTransitive
  <2>8. w % ByteValues = d % ByteValues
    BY <2>7, Widths, SameMod
  <2>9. AsHeld(t, x) = a /\ AsHeld(t, y) = b /\ AsHeld(t, w) = w % ByteValues /\ AsHeld(t, d) = d % ByteValues
    BY <1>8, <2>1 DEF AsHeld
  <2> QED
    BY <2>5, <2>8, <2>9, <1>1, <1>4, <1>5
<1>9. CASE t = "usize"
  <2>1. u = x /\ v = y /\ w = c
    BY <1>1, <1>4, <1>5, <1>9 DEF PastTheWord
  <2>2. PICK a \in Int, b \in Int : a = x % SizeValues /\ b = y % SizeValues
    BY Widths
  <2>3. Same(x, a, SizeValues) /\ Same(y, b, SizeValues)
    BY <2>2, Widths, SameAsMod
  <2>4. PICK d \in Int : d = Computed(op, a, b)
    BY <1>3, ComputedIsInt
  <2>5. Same(c, d, SizeValues)
    BY <1>4, <2>1, <2>3, <2>4, Widths, ComputedSame
  <2>6. c % SizeValues = d % SizeValues
    BY <2>5, Widths, SameMod
  <2>7. AsHeld(t, x) = a /\ AsHeld(t, y) = b /\ AsHeld(t, w) = w % SizeValues /\ AsHeld(t, d) = d % SizeValues
    BY <1>9, <2>2 DEF AsHeld
  <2> QED
    BY <2>1, <2>4, <2>6, <2>7, <1>1, <1>4, <1>5
<1> QED
  BY <1>7, <1>8, <1>9 DEF Integral

\* What emit_inst does to two numbers.
LEMMA EmittedOf ==
    ASSUME NEW inst, NEW x, NEW y,
           ~(inst.op \in {"div", "mod"} /\ (y = 0 \/ (inst.type = "i32" /\ IsLeast(x) /\ y = -1)))
    PROVE  Emitted(inst, <<x>>, <<y>>) =
             <<AsHeld(inst.type, IF inst.op = "neg" THEN 0 - x
                                 ELSE IF inst.op = "not" THEN 1 - x
                                 ELSE Computed(inst.op, x, y))>>
<1>1. <<x>> # Undefined /\ <<y>> # Undefined /\ <<x>>[1] = x /\ <<y>>[1] = y
  BY DEF Undefined
<1> QED
  BY <1>1, Zenon DEF Emitted

\* fold_binary.
LEMMA BinaryIsExact ==
    ASSUME NEW inst, NEW l \in Constants, NEW r \in Constants, inst.op \in Arithmetic,
           inst.type = l.type, inst.type \in Types, inst.op = "div" => inst.type # "f32",
           BinaryFolds(inst.op, l, r),
           inst.type = "usize" => /\ ~PastTheWord(l.value) /\ ~PastTheWord(r.value)
                                  /\ ~PastTheWord(Computed(inst.op, l.value, r.value))
    PROVE  Emitted(inst, <<AsHeld(inst.type, l.value)>>, <<AsHeld(inst.type, r.value)>>)
             = <<AsHeld(inst.type, Binary(inst.op, l, r).value)>>
<1> DEFINE op == inst.op
           t == inst.type
<1>1. PICK x \in Int, y \in Int : op = inst.op /\ t = inst.type /\ x = l.value /\ y = r.value
  BY DEF Constants
<1> HIDE DEF op, t
<1>2. op \notin {"neg", "not"}
  BY <1>1 DEF Arithmetic
<1>3. CASE t = "f32"
  <2>1. op # "mod" /\ op # "div"
    BY <1>1, <1>3 DEF BinaryFolds, Integral
  <2>2. AsHeld(t, x) = x /\ AsHeld(t, y) = y /\ AsHeld(t, Computed(op, x, y)) = Computed(op, x, y)
    BY <1>3 DEF AsHeld
  <2>3. Emitted(inst, <<x>>, <<y>>) = <<AsHeld(t, Computed(op, x, y))>>
    BY <1>1, <1>2, <2>1, EmittedOf
  <2>4. Binary(inst.op, l, r).value = Computed(op, x, y)
    BY <1>1, <1>3 DEF Binary, Constant
  <2> QED
    BY <1>1, <2>2, <2>3, <2>4
<1>4. CASE t \in Integral
  <2>1. PICK u \in Int, v \in Int : u = Signed(x, WordValues) /\ v = Signed(y, WordValues)
    BY Widths, SignedFacts
  <2>2. Binary(inst.op, l, r).value = Signed(Computed(op, u, v), WordValues)
    BY <1>1, <1>4, <2>1 DEF Binary, Constant, Integral
  <2>3. CASE op \in {"add", "sub", "mul"}
    <3>1. Emitted(inst, <<AsHeld(t, x)>>, <<AsHeld(t, y)>>) = <<AsHeld(t, Computed(op, AsHeld(t, x), AsHeld(t, y)))>>
      BY <1>1, <1>2, <2>3, EmittedOf
    <3>2. AsHeld(t, Signed(Computed(op, u, v), WordValues)) = AsHeld(t, Computed(op, AsHeld(t, x), AsHeld(t, y)))
      BY <1>1, <1>4, <2>1, <2>3, IntegersAgree
    <3> QED
      BY <1>1, <2>2, <3>1, <3>2
  <2>4. CASE op \in {"div", "mod"}
    <3>1. t = "i32" /\ v # 0 /\ ~(IsLeast(u) /\ v = -1)
      BY <1>1, <1>4, <2>1, <2>4 DEF BinaryFolds, IntBinaryFolds, DivisionFolds, Integral
    <3>2. AsHeld(t, x) = u /\ AsHeld(t, y) = v
      BY <2>1, <3>1 DEF AsHeld
    <3>3. Emitted(inst, <<u>>, <<v>>) = <<AsHeld(t, Computed(op, u, v))>>
      BY <1>1, <1>2, <3>1, EmittedOf
    <3>4. PICK c \in Int : c = Computed(op, u, v)
      BY <1>1, <2>4, <3>1, ComputedIsInt
    <3>5. AsHeld(t, Signed(c, WordValues)) = AsHeld(t, c)
      BY <3>1, SignedTwice DEF AsHeld
    <3> QED
      BY <1>1, <2>2, <3>2, <3>3, <3>4, <3>5
  <2> QED
    BY <1>1, <2>3, <2>4 DEF Arithmetic
<1>5. t = "f32" \/ t \in Integral
  BY <1>1 DEF BinaryFolds
<1> QED
  BY <1>3, <1>4, <1>5

\* fold_neg and fold_not.
LEMMA UnaryIsExact ==
    ASSUME NEW inst, NEW l \in Constants, inst.op \in {"neg", "not"}, inst.type = l.type,
           UnaryFolds(inst.op, l),
           inst.type = "usize" => ~PastTheWord(l.value) /\ ~PastTheWord(0 - l.value)
    PROVE  Emitted(inst, <<AsHeld(inst.type, l.value)>>, <<0>>)
             = <<AsHeld(inst.type, Unary(inst.op, l).value)>>
<1> DEFINE op == inst.op
           t == inst.type
<1>1. PICK x \in Int : op = inst.op /\ t = inst.type /\ x = l.value
  BY DEF Constants
<1> HIDE DEF op, t
<1>2. CASE op = "not"
  <2>1. t = "bool" /\ AsHeld(t, x) = x /\ Unary(inst.op, l).value = 1 - x
    BY <1>1, <1>2 DEF UnaryFolds, AsHeld, Unary, Constant
  <2>2. Emitted(inst, <<x>>, <<0>>) = <<AsHeld(t, 1 - x)>>
    BY <1>1, <1>2, EmittedOf
  <2> QED
    BY <1>1, <2>1, <2>2
<1>3. CASE op = "neg" /\ t = "f32"
  <2>1. AsHeld(t, x) = x /\ Unary(inst.op, l).value = 0 - x
    BY <1>1, <1>3 DEF AsHeld, Unary, Constant
  <2>2. Emitted(inst, <<x>>, <<0>>) = <<AsHeld(t, 0 - x)>>
    BY <1>1, <1>3, EmittedOf
  <2> QED
    BY <1>1, <2>1, <2>2
<1>4. CASE op = "neg" /\ t # "f32"
  <2>1. t \in Integral /\ Unary(inst.op, l).value = Signed(0 - Signed(x, WordValues), WordValues)
    BY <1>1, <1>4 DEF UnaryFolds, Unary, Constant
  <2>2. PICK h \in Int : h = AsHeld(t, x)
    BY HeldIsInt
  <2>3. Emitted(inst, <<h>>, <<0>>) = <<AsHeld(t, 0 - h)>>
    BY <1>1, <1>4, EmittedOf
  <2>4. Signed(0, WordValues) = 0 /\ AsHeld(t, 0) = 0
    <3>1. /\ 2 * 0 < WordValues /\ 0 - WordValues <= 2 * 0
          /\ 0 % ByteValues = 0 /\ 0 % SizeValues = 0
      BY Widths
    <3>2. Signed(0, WordValues) = 0
      BY <3>1, Widths, SignedFixed
    <3> QED
      BY <3>1, <3>2, <2>1 DEF AsHeld, Integral
  <2>5. PICK w \in Int : w = Signed(x, WordValues)
    BY Widths, SignedFacts
  <2>6. Computed("sub", 0, w) = 0 - w /\ Computed("sub", 0, h) = 0 - h /\ Computed("sub", 0, x) = 0 - x
    BY DEF Computed
  <2>7. t = "usize" => ~PastTheWord(0) /\ ~PastTheWord(x) /\ ~PastTheWord(Computed("sub", 0, x))
    BY <1>1, <2>4, <2>6 DEF PastTheWord
  <2>8. AsHeld(t, Signed(Computed("sub", Signed(0, WordValues), Signed(x, WordValues)), WordValues))
          = AsHeld(t, Computed("sub", AsHeld(t, 0), AsHeld(t, x)))
    BY <2>1, <2>7, IntegersAgree
  <2>9. AsHeld(t, Signed(0 - w, WordValues)) = AsHeld(t, 0 - h)
    BY <2>2, <2>4, <2>5, <2>6, <2>8
  <2> QED
    BY <1>1, <2>1, <2>2, <2>3, <2>5, <2>9
<1> QED
  BY <1>1, <1>2, <1>3, <1>4

-----------------------------------------------------------------------------
(***************************************************************************)
(* What the emitted function computes: the registers after code hold the   *)
(* results of its instructions on those very registers, because a value is *)
(* set once and before it is read.                                         *)
(***************************************************************************)
Ordered(code) ==
    /\ \A i, j \in DOMAIN code : code[i].res = code[j].res /\ code[i].res # None => i = j
    /\ \A i, j \in DOMAIN code : code[j].res \in ReadBy(code[i]) /\ code[j].res # None => j < i

\* The values of code are values of the function.
Inside(code) == \A i \in DOMAIN code : ReadBy(code[i]) \subseteq Values /\ code[i].res \in Values

Solves(code, regs) ==
    \A i \in DOMAIN code : code[i].res # None => regs[code[i].res] = Result(code[i], regs)

\* The values that code sets.
Sets(code) == ResultsOf(code) \ {None}

\* An instruction's fields.
LEMMA InstFields ==
    ASSUME NEW inst \in Insts
    PROVE  /\ inst.op \in Operators \cup ConstOps \cup {"store", "return"} /\ inst.type \in Types
           /\ inst.args \in Seq(Operands) /\ inst.res \in Nat \cup {None} /\ inst.constant \in Constants
           /\ inst.constant.value \in Int
  BY DEF Insts, Constants

\* An operand holds a constant or names a value.
LEMMA OperandFields ==
    ASSUME NEW inst \in Insts, NEW k \in DOMAIN inst.args
    PROVE  \/ inst.args[k].kind = "const" /\ inst.args[k].constant \in Constants
           \/ inst.args[k].kind = "value" /\ inst.args[k].value \in ArgsOf(inst)
<1>1. inst.args[k] \in Operands
  BY InstFields
<1>2. CASE inst.args[k] \in [kind : {"const"}, constant : Constants]
  BY <1>2
<1>3. CASE inst.args[k] \in [kind : {"value"}, value : Nat \cup {None}]
  BY <1>3 DEF ArgsOf
<1> QED
  BY <1>1, <1>2, <1>3 DEF Operands

\* An instruction depends on the registers of its operands.
LEMMA ResultReads ==
    ASSUME NEW inst \in Insts, NEW f, NEW g, \A v \in ArgsOf(inst) : f[v] = g[v]
    PROVE  /\ Result(inst, f) = Result(inst, g)
           /\ \A k \in Nat \ {0} : Operand(inst, k, f) = Operand(inst, k, g)
<1>1. ASSUME NEW k \in Nat \ {0} PROVE Operand(inst, k, f) = Operand(inst, k, g)
  <2>1. CASE k > Len(inst.args)
    BY <2>1 DEF Operand
  <2>2. CASE ~(k > Len(inst.args))
    <3>1. k \in DOMAIN inst.args
      BY <2>2, InstFields
    <3> QED
      BY <3>1, OperandFields DEF Operand
  <2> QED
    BY <2>1, <2>2
<1>2. Operand(inst, 1, f) = Operand(inst, 1, g) /\ Operand(inst, 2, f) = Operand(inst, 2, g)
  BY <1>1
<1> QED
  BY <1>1, <1>2 DEF Result

\* Registers hold integers or nothing.
LEMMA OperandIsHeld ==
    ASSUME NEW inst \in Insts, NEW regs \in Files, ReadBy(inst) \subseteq Values, NEW k \in Nat \ {0}
    PROVE  Operand(inst, k, regs) \in Seq(Int)
<1>1. CASE k > Len(inst.args)
  BY <1>1 DEF Operand
<1>2. CASE ~(k > Len(inst.args))
  <2>1. k \in DOMAIN inst.args
    BY <1>2, InstFields
  <2>2. CASE inst.args[k].kind = "const" /\ inst.args[k].constant \in Constants
    <3>1. inst.args[k].constant.value \in Int
      BY <2>2 DEF Constants
    <3>2. PICK h \in Int : h = AsHeld(inst.args[k].constant.type, inst.args[k].constant.value)
      BY <3>1, HeldIsInt
    <3>3. Operand(inst, k, regs) = <<h>>
      BY <1>2, <2>2, <3>2 DEF Operand
    <3> QED
      BY <3>3
  <2>3. CASE inst.args[k].kind = "value" /\ inst.args[k].value \in ArgsOf(inst)
    <3>1. inst.args[k].value \in Values
      BY <2>3 DEF ReadBy
    <3>2. Operand(inst, k, regs) = regs[inst.args[k].value]
      BY <1>2, <2>3 DEF Operand
    <3> QED
      BY <3>1, <3>2 DEF Files
  <2> QED
    BY <2>1, <2>2, <2>3, OperandFields
<1> QED
  BY <1>1, <1>2

\* And so do their results.
LEMMA ResultIsHeld ==
    ASSUME NEW inst \in Insts, NEW regs \in Files, ReadBy(inst) \subseteq Values
    PROVE  Result(inst, regs) \in Seq(Int)
<1>1. Undefined \in Seq(Int)
  BY DEF Undefined
<1>2. CASE inst.op \in ConstOps
  <2>1. PICK h \in Int : h = AsHeld(inst.type, inst.constant.value)
    BY InstFields, HeldIsInt
  <2> QED
    BY <1>2, <2>1 DEF Result
<1>3. CASE inst.op \notin ConstOps /\ inst.op \in Operators
  <2>1. PICK a \in Seq(Int), b \in Seq(Int) : a = Operand(inst, 1, regs) /\ b = Operand(inst, 2, regs)
    BY OperandIsHeld
  <2>2. Result(inst, regs) = Emitted(inst, a, b)
    BY <1>3, <2>1 DEF Result
  <2>3. CASE a = Undefined \/ b = Undefined \/ (inst.op \in {"div", "mod"} /\ b[1] = 0)
    BY <1>1, <2>2, <2>3 DEF Emitted
  <2>4. CASE ~(a = Undefined \/ b = Undefined \/ (inst.op \in {"div", "mod"} /\ b[1] = 0))
    <3>1. a # <<>> /\ b # <<>>
      BY <2>4 DEF Undefined
    <3>2. PICK x \in Int, y \in Int : x = a[1] /\ y = b[1]
      BY <3>1
    <3>3. inst.op \in Arithmetic => Computed(inst.op, x, y) \in Int
      BY <2>4, <3>2, ComputedIsInt
    <3>4. \/ Emitted(inst, a, b) = Undefined
          \/ Emitted(inst, a, b) = <<AsHeld(inst.type, 0 - x)>>
          \/ Emitted(inst, a, b) = <<AsHeld(inst.type, 1 - x)>>
          \/ inst.op \in Arithmetic /\ Emitted(inst, a, b) = <<AsHeld(inst.type, Computed(inst.op, x, y))>>
      BY <1>3, <3>2 DEF Emitted, Operators
    <3>5. \A n \in Int : <<AsHeld(inst.type, n)>> \in Seq(Int)
      <4> SUFFICES ASSUME NEW n \in Int PROVE <<AsHeld(inst.type, n)>> \in Seq(Int)
        OBVIOUS
      <4>1. PICK h \in Int : h = AsHeld(inst.type, n)
        BY HeldIsInt
      <4> QED
        BY <4>1
    <3>6. 0 - x \in Int /\ 1 - x \in Int
      OBVIOUS
    <3> QED
      BY <1>1, <2>2, <3>3, <3>4, <3>5, <3>6
  <2> QED
    BY <2>3, <2>4
<1>4. CASE inst.op \notin ConstOps /\ inst.op \notin Operators
  BY <1>1, <1>4 DEF Result
<1> QED
  BY <1>2, <1>3, <1>4

\* The registers s[2] after the first n instructions, s[1] being the next.
RunTo(code, arg, n, s) ==
    /\ s = <<n + 1, s[2]>> /\ s[2] \in Files
    /\ \A i \in 1..n : code[i].res # None => s[2][code[i].res] = Result(code[i], s[2])
    /\ \A v \in Values : (v = None \/ \A i \in 1..n : code[i].res # v) => s[2][v] = <<arg>>

\* One more instruction.
LEMMA RunStep ==
    ASSUME NEW code \in Seq(Insts), Ordered(code), Inside(code), NEW arg \in Int,
           NEW n \in Nat, n + 1 \in DOMAIN code, NEW s, RunTo(code, arg, n, s)
    PROVE  RunTo(code, arg, n + 1, Execute(code)[s])
<1> DEFINE inst == code[n + 1]
           new == After(inst, s[2])
<1>1. inst \in Insts /\ ReadBy(inst) \subseteq Values /\ inst.res \in Values /\ s[2] \in Files
  BY DEF Inside, RunTo
<1>2. s = <<n + 1, s[2]>> /\ s \in Nat \X Files
  BY DEF RunTo
<1>3. Execute(code)[s] = <<(n + 1) + 1, new>>
  <2>1. s[1] = n + 1
    BY <1>2
  <2> QED
    BY <1>2, <2>1 DEF Execute
<1>4. Result(inst, s[2]) \in Seq(Int)
  BY <1>1, ResultIsHeld
<1>5. new \in Files /\ \A v \in Values : v # inst.res \/ inst.res = None => new[v] = s[2][v]
  BY <1>1, <1>4 DEF After, Files
<1>6. inst.res # None => new[inst.res] = Result(inst, s[2])
  BY <1>1 DEF After, Files
<1>7. \A i \in 1..(n + 1) : i \in DOMAIN code /\ code[i] \in Insts
  BY DEF Ordered
<1>8. ASSUME NEW i \in 1..(n + 1) PROVE Result(code[i], new) = Result(code[i], s[2])
  <2>1. inst.res # None => inst.res \notin ReadBy(code[i])
    BY <1>7 DEF Ordered
  <2>2. \A v \in ArgsOf(code[i]) : v \in Values /\ (v # inst.res \/ inst.res = None)
    BY <1>7, <2>1 DEF Inside, ReadBy
  <2>3. \A v \in ArgsOf(code[i]) : new[v] = s[2][v]
    BY <1>5, <2>2
  <2> HIDE DEF new, inst
  <2> QED
    BY <1>7, <2>3, ResultReads
<1>9. ASSUME NEW i \in 1..(n + 1), code[i].res # None
      PROVE  new[code[i].res] = Result(code[i], new)
  <2>1. CASE i = n + 1
    BY <1>6, <1>8, <1>9, <2>1
  <2>2. CASE i # n + 1
    <3>1. i \in 1..n /\ code[i].res # inst.res /\ code[i].res \in Values
      BY <1>7, <1>9, <2>2 DEF Ordered, Inside
    <3>2. s[2][code[i].res] = Result(code[i], s[2])
      BY <3>1, <1>9 DEF RunTo
    <3>3. new[code[i].res] = s[2][code[i].res]
      BY <1>5, <3>1
    <3> QED
      BY <1>8, <3>2, <3>3
  <2> QED
    BY <2>1, <2>2
<1>10. ASSUME NEW v \in Values, v = None \/ \A i \in 1..(n + 1) : code[i].res # v
       PROVE  new[v] = <<arg>>
  <2>1. v = None \/ \A i \in 1..n : code[i].res # v
    BY <1>10
  <2>2. v # inst.res \/ inst.res = None
    BY <1>10
  <2>3. s[2][v] = <<arg>>
    BY <2>1 DEF RunTo
  <2> QED
    BY <1>5, <2>2, <2>3
<1> HIDE DEF new
<1>11. Execute(code)[s][2] = new
  BY <1>3
<1> QED
  BY <1>3, <1>5, <1>9, <1>10, <1>11 DEF RunTo

\* The registers after code.
LEMMA RunSolves ==
    ASSUME NEW code \in Seq(Insts), Ordered(code), Inside(code), NEW arg \in Int
    PROVE  /\ Registers(code, arg) \in Files /\ Solves(code, Registers(code, arg))
           /\ \A v \in Values : v \notin Sets(code) => Registers(code, arg)[v] = <<arg>>
<1> DEFINE base == <<1, [v \in Values |-> <<arg>>]>>
           It(n) == Iterated(base, Execute(code), n)
           S == {n \in Nat : n <= Len(code) /\ ~RunTo(code, arg, n, It(n))}
<1>1. It(0) = base /\ \A n \in Nat : It(n + 1) = Execute(code)[It(n)]
  BY IteratedSteps
<1>2. RunTo(code, arg, 0, base)
  BY DEF RunTo, Files
<1>3. Registers(code, arg) = It(Len(code))[2]
  BY DEF Registers
<1> HIDE DEF base, It
<1>4. S \subseteq Nat /\ \A n \in Nat : n \in S <=> n <= Len(code) /\ ~RunTo(code, arg, n, It(n))
  OBVIOUS
<1> HIDE DEF S
<1>5. ASSUME S # {} PROVE FALSE
  <2>1. PICK n \in S : \A m \in S : n <= m
    BY <1>4, <1>5, LeastOfNaturals
  <2>2. n \in Nat /\ n <= Len(code) /\ ~RunTo(code, arg, n, It(n))
    BY <1>4, <2>1
  <2>3. n # 0
    BY <1>1, <1>2, <2>2
  <2>4. n - 1 \in Nat /\ ~(n <= n - 1) /\ n - 1 <= Len(code) /\ (n - 1) + 1 = n /\ n \in DOMAIN code
    BY <2>2, <2>3
  <2>5. RunTo(code, arg, n - 1, It(n - 1))
    BY <1>4, <2>1, <2>4
  <2>6. RunTo(code, arg, (n - 1) + 1, Execute(code)[It(n - 1)])
    BY <2>4, <2>5, RunStep
  <2>7. It((n - 1) + 1) = Execute(code)[It(n - 1)]
    BY <1>1, <2>4
  <2> QED
    BY <2>2, <2>4, <2>6, <2>7
<1>6. RunTo(code, arg, Len(code), It(Len(code)))
  BY <1>4, <1>5
<1>7. DOMAIN code = 1..Len(code)
  OBVIOUS
<1>8. Registers(code, arg) \in Files /\ Solves(code, Registers(code, arg))
  BY <1>3, <1>6, <1>7 DEF RunTo, Solves
<1>9. ASSUME NEW v \in Values, v \notin Sets(code) PROVE Registers(code, arg)[v] = <<arg>>
  <2>1. v = None \/ \A i \in 1..Len(code) : code[i].res # v
    BY <1>7, <1>9 DEF Sets, ResultsOf
  <2> QED
    BY <1>3, <1>6, <2>1 DEF RunTo
<1> QED
  BY <1>8, <1>9

\* Registers that hold the results of code are the same ones, as far as code
\* reads or sets them, once they agree on what it only reads.
LEMMA SolutionsAgree ==
    ASSUME NEW code \in Seq(Insts), Ordered(code), NEW f, NEW g, Solves(code, f), Solves(code, g),
           \A v \in ReadValues(code) : v \notin Sets(code) => f[v] = g[v]
    PROVE  \A v \in ReadValues(code) : f[v] = g[v]
<1> DEFINE S == {i \in Nat : i \in DOMAIN code /\ code[i].res # None /\ f[code[i].res] # g[code[i].res]}
<1>1. S \subseteq Nat /\ \A i \in DOMAIN code : i \in S <=> code[i].res # None /\ f[code[i].res] # g[code[i].res]
  OBVIOUS
<1>2. \A i \in S : i \in DOMAIN code
  OBVIOUS
<1> HIDE DEF S
<1>3. ASSUME S # {} PROVE FALSE
  <2>1. PICK i \in S : \A j \in S : i <= j
    BY <1>1, <1>3, LeastOfNaturals
  <2>2. i \in DOMAIN code /\ code[i] \in Insts /\ code[i].res # None /\ f[code[i].res] # g[code[i].res]
    BY <1>1, <1>2, <2>1
  <2>3. ASSUME NEW v \in ArgsOf(code[i]) PROVE f[v] = g[v]
    <3>1. v \in ReadBy(code[i]) /\ v \in ReadValues(code)
      BY <2>2 DEF ReadBy, ReadValues
    <3>2. CASE v \in Sets(code)
      <4>1. PICK j \in DOMAIN code : code[j].res = v /\ v # None
        BY <3>2 DEF Sets, ResultsOf
      <4>2. j < i
        BY <2>2, <3>1, <4>1 DEF Ordered
      <4>3. j \notin S
        BY <2>1, <2>2, <4>2
      <4> QED
        BY <1>1, <4>1, <4>3
    <3> QED
      BY <3>1, <3>2
  <2>4. Result(code[i], f) = Result(code[i], g)
    BY <2>2, <2>3, ResultReads
  <2> QED
    BY <2>2, <2>4 DEF Solves
<1>4. ASSUME NEW v \in ReadValues(code), v \in Sets(code) PROVE f[v] = g[v]
  <2>1. PICK i \in DOMAIN code : code[i].res = v /\ v # None
    BY <1>4 DEF Sets, ResultsOf
  <2> QED
    BY <1>1, <1>3, <2>1
<1> QED
  BY <1>4

-----------------------------------------------------------------------------
(***************************************************************************)
(* The inductive invariant.                                                *)
(***************************************************************************)
\* An instruction of the function, as it was lowered or folded.
Came(new, old) ==
    \/ new = old
    \/ /\ old.op \in Operators
       /\ new = [old EXCEPT !.op = ConstOpOf(old.type), !.args = <<>>, !.constant = new.constant]
       /\ new.constant \in Constants
       /\ new.constant.type \in Integral =>
             /\ new.constant.value = Signed(new.constant.value, SizeValues)
             /\ ~PastTheWord(new.constant.value)

\* Each instruction is one of the source's, in an order that sets values before
\* they are read; and no store or return is gone.
InstsOK ==
    /\ insts \in Seq(Insts) /\ Len(insts) <= Len(source)
    /\ Ordered(insts)
    /\ \A i \in DOMAIN insts : \E j \in DOMAIN source : Came(insts[i], source[j])
    /\ {insts[i] : i \in Effects(insts)} = {source[i] : i \in Effects(source)}

\* What is known of a value is of its type, and known because its instruction is
\* a constant or was folded.
KnownBy(v, j) ==
    /\ source[j].res = v /\ v # None
    /\ known[v].type \in {source[j].type, NoType}
    /\ source[j].op \in ConstOps \/ phase # "fold" \/ j < at

KnownOK ==
    /\ known \in [Values -> Constants \cup {NotKnown}]
    /\ \A v \in Values : known[v] # NotKnown => \E j \in DOMAIN source : KnownBy(v, j)

\* The loop leaves alone what it has not come to.
Unfolded ==
    /\ at \in 1..(Len(insts) + 1)
    /\ phase \in {"fold", "drop", "done"}
    /\ phase = "fold" => /\ Len(insts) = Len(source)
                         /\ \A i \in DOMAIN insts : i >= at => insts[i] = source[i]

\* What is gone is not read.
Stays ==
    /\ phase # "fold" => ReadValues(insts) \subseteq read
    /\ \A j \in DOMAIN source :
          \/ source[j].res \in ResultsOf(insts)
          \/ phase # "fold" /\ source[j].res # None /\ source[j].res \notin read

\* The registers hold what is known of their values.
KnownIn(regs) ==
    \A j \in DOMAIN source : source[j].res # None /\ known[source[j].res] # NotKnown =>
        regs[source[j].res] = <<AsHeld(source[j].type, known[source[j].res].value)>>

\* What the source computes, the instructions do too.
Exact ==
    ~SomeFoldsPastTheWord => \A arg \in Inputs : /\ Solves(insts, Registers(source, arg))
                                                 /\ KnownIn(Registers(source, arg))

IInv == source \in Programs /\ InstsOK /\ KnownOK /\ Unfolded /\ Stays /\ Exact

\* What lower_* emitted.
LEMMA SourceFacts ==
    ASSUME source \in Programs
    PROVE  IsFunction(source) /\ source \in Seq(Insts) /\ Ordered(source) /\ Inside(source)
<1>1. IsFunction(source)
  BY FoldAssumption
<1>2. source \in Seq(Insts) /\ Ordered(source)
  BY <1>1 DEF IsFunction, Ordered
<1>3. Inside(source)
  BY DEF Inside, Values, ResultsOf, ReadValues
<1> QED
  BY <1>1, <1>2, <1>3

\* A folded instruction reads and sets what it did.
LEMMA CameReads ==
    ASSUME NEW new, NEW old \in Insts, Came(new, old)
    PROVE  /\ new.res = old.res /\ new.type = old.type /\ ReadBy(new) \subseteq ReadBy(old) /\ new \in Insts
           /\ new.op \in {"store", "return"} => new = old
           /\ old.op \in {"store", "return"} => new = old
<1>1. CASE new = old
  BY <1>1
<1>2. CASE new # old
  <2> DEFINE c == new.constant
  <2>1. new = [old EXCEPT !.op = ConstOpOf(old.type), !.args = <<>>, !.constant = c] /\ c \in Constants
    BY <1>2, Zenon DEF Came
  <2> HIDE DEF c
  <2>2. old.op \in Operators
    BY <1>2 DEF Came
  <2>3. /\ new.op = ConstOpOf(old.type) /\ new.type = old.type /\ new.args = <<>> /\ new.res = old.res
        /\ new.constant = c /\ new.base = old.base /\ new.index = old.index
    BY <2>1 DEF Insts
  <2>4. ConstOpOf(old.type) \in ConstOps
    BY DEF ConstOpOf, ConstOps
  <2>5. new \in Insts
    <3>1. PICK o : o = ConstOpOf(old.type) /\ o \in Operators \cup ConstOps \cup {"store", "return"}
      BY <2>4
    <3>2. PICK e \in Seq(Operands) : e = <<>>
      <4>1. <<>> \in Seq(Operands)
        OBVIOUS
      <4> QED
        BY <4>1, Zenon
    <3>3. new = [old EXCEPT !.op = o, !.args = e, !.constant = c]
      BY <2>1, <3>1, <3>2
    <3> QED
      BY <2>1, <3>1, <3>2, <3>3 DEF Insts
  <2>6. ArgsOf(new) = {}
    BY <2>3 DEF ArgsOf
  <2>7. ReadBy(new) \subseteq ReadBy(old)
    BY <2>3, <2>6 DEF ReadBy
  <2> QED
    BY <2>2, <2>3, <2>4, <2>5, <2>7 DEF ConstOps, Operators, Arithmetic
<1> QED
  BY <1>1, <1>2

\* What the instructions read and set are values of the function.
LEMMA InstsInside ==
    ASSUME source \in Programs, InstsOK
    PROVE  Inside(insts)
<1> SUFFICES ASSUME NEW i \in DOMAIN insts PROVE ReadBy(insts[i]) \subseteq Values /\ insts[i].res \in Values
  BY DEF Inside
<1>1. PICK j \in DOMAIN source : Came(insts[i], source[j])
  BY DEF InstsOK
<1>2. source[j] \in Insts /\ ReadBy(source[j]) \subseteq Values /\ source[j].res \in Values
  BY SourceFacts DEF Inside
<1> QED
  BY <1>1, <1>2, CameReads

\* What a later instruction reads was not dropped.
LEMMA OperandsAreThere ==
    ASSUME source \in Programs, Stays PROVE OperandsStay
  BY DEF Stays, OperandsStay, ResultsOf

\* The function computes what it did.
LEMMA ComputesTheSame ==
    ASSUME IInv PROVE FoldIsExact
<1> SUFFICES ASSUME ~SomeFoldsPastTheWord, NEW arg \in Inputs
             PROVE  Outcome(insts, arg) = Outcome(source, arg)
  BY DEF FoldIsExact
<1> DEFINE H == Registers(source, arg)
           R == Registers(insts, arg)
<1>1. source \in Programs /\ InstsOK /\ Stays /\ arg \in Int
  BY FoldAssumption DEF IInv
<1>2. insts \in Seq(Insts) /\ Ordered(insts) /\ Inside(insts)
  BY <1>1, InstsInside DEF InstsOK
<1>3. Solves(insts, R) /\ \A v \in Values : v \notin Sets(insts) => R[v] = <<arg>>
  BY <1>1, <1>2, RunSolves
<1>4. \A v \in Values : v \notin Sets(source) => H[v] = <<arg>>
  BY <1>1, SourceFacts, RunSolves
<1>5. Solves(insts, H)
  BY DEF IInv, Exact
<1> HIDE DEF H, R
<1>6. ASSUME NEW v \in ReadValues(insts), v \notin Sets(insts) PROVE H[v] = R[v]
  <2>1. v \in Values
    BY <1>2, <1>6 DEF Inside, ReadValues
  <2>2. v \notin Sets(source)
    <3>1. OperandsStay
      BY <1>1, OperandsAreThere
    <3> QED
      BY <3>1, <1>6 DEF OperandsStay, Sets, ResultsOf
  <2> QED
    BY <1>3, <1>4, <1>6, <2>1, <2>2
<1>7. \A v \in ReadValues(insts) : H[v] = R[v]
  BY <1>2, <1>3, <1>5, <1>6, SolutionsAgree
<1>8. ASSUME NEW i \in Effects(insts) PROVE Given(insts[i], H) = Given(insts[i], R)
  <2>1. i \in DOMAIN insts /\ insts[i] \in Insts
    BY <1>2 DEF Effects
  <2>2. \A v \in ReadBy(insts[i]) : H[v] = R[v]
    BY <1>7, <2>1 DEF ReadValues
  <2>3. \A k \in DOMAIN insts[i].index : H[insts[i].index[k]] = R[insts[i].index[k]]
    BY <2>2 DEF ReadBy
  <2>4. \A k \in Nat \ {0} : Operand(insts[i], k, H) = Operand(insts[i], k, R)
    BY <2>1, <2>2, ResultReads DEF ReadBy
  <2>5. \A k \in DOMAIN insts[i].args : k \in Nat \ {0}
    BY <2>1, InstFields
  <2> QED
    BY <2>3, <2>4, <2>5 DEF Given
<1>9. {insts[i] : i \in Effects(insts)} = {source[i] : i \in Effects(source)}
  BY <1>1 DEF InstsOK
<1>10. Outcome(insts, arg) = {Given(x, H) : x \in {insts[i] : i \in Effects(insts)}}
  <2>1. Outcome(insts, arg) = {Given(insts[i], R) : i \in Effects(insts)}
    BY DEF Outcome, R
  <2> QED
    BY <1>8, <2>1, Zenon
<1>11. Outcome(source, arg) = {Given(x, H) : x \in {source[i] : i \in Effects(source)}}
  <2>1. Outcome(source, arg) = {Given(source[i], H) : i \in Effects(source)}
    BY DEF Outcome, H
  <2> QED
    BY <2>1, Zenon
<1> QED
  BY <1>9, <1>10, <1>11

\* The types are right, and a folded constant is one an int32_t holds.
LEMMA TypesAreRight ==
    ASSUME IInv PROVE TypeOK
<1>1. source \in Programs /\ IsFunction(source) /\ Ordered(source) /\ source \in Seq(Insts)
  BY SourceFacts DEF IInv
<1>2. ASSUME NEW i \in DOMAIN insts, insts[i].constant.type \in Integral
      PROVE  /\ insts[i].constant.value = Signed(insts[i].constant.value, SizeValues)
             /\ (\E j \in DOMAIN source : source[j].res = insts[i].res /\ source[j].op \notin ConstOps)
                   => ~PastTheWord(insts[i].constant.value)
  <2>1. PICK j \in DOMAIN source : Came(insts[i], source[j])
    BY DEF IInv, InstsOK
  <2>2. CASE insts[i] = source[j]
    <3>1. source[j].op \in ConstOps
      <4>1. source[j].op \notin ConstOps => source[j].constant.type = NoType
        BY <1>1 DEF IsFunction, Constant
      <4> QED
        BY <1>2, <2>2, <4>1 DEF Integral, NoType
    <3>2. source[j].type \in Integral
      BY <1>1, <1>2, <2>2, <3>1 DEF IsFunction, Integral, NoType
    <3>3. source[j].op = "const_int"
      BY <1>1, <3>1, <3>2 DEF IsFunction, ConstOpOf, Integral
    <3>4. source[j].res # None
      BY <1>1, <3>3 DEF IsFunction
    <3>5. \A k \in DOMAIN source : source[k].res = source[j].res => k = j
      BY <1>1, <3>4 DEF Ordered
    <3>6. source[j].constant.value = Signed(source[j].constant.value, SizeValues)
      BY <1>1, <3>3 DEF IsFunction
    <3> QED
      BY <2>2, <3>1, <3>5, <3>6
  <2>3. CASE insts[i] # source[j]
    BY <1>2, <2>1, <2>3 DEF Came
  <2> QED
    BY <2>2, <2>3
<1>3. at \in 1..(Len(source) + 1)
  BY <1>1 DEF IInv, InstsOK, Unfolded
<1> QED
  BY <1>2, <1>3 DEF IInv, InstsOK, KnownOK, Unfolded, TypeOK

\* Before the first turn.
LEMMA InitIsRight ==
    ASSUME Init PROVE IInv
<1>1. source \in Programs /\ insts = source /\ known = KnownValues(source) /\ at = 1 /\ phase = "fold"
  BY DEF Init
<1>2. IsFunction(source) /\ source \in Seq(Insts) /\ Ordered(source) /\ Inside(source)
  BY <1>1, SourceFacts
<1>3. InstsOK
  <2>1. \A i \in DOMAIN insts : \E j \in DOMAIN source : Came(insts[i], source[j])
    BY <1>1, Zenon DEF Came
  <2>2. Len(insts) <= Len(source)
    BY <1>1, <1>2
  <2> QED
    BY <1>1, <1>2, <2>1, <2>2 DEF InstsOK
<1>4. ASSUME NEW v \in Values
      PROVE  \/ known[v] = NotKnown
             \/ \E j \in DOMAIN source : Gives(source, j, v) /\ known[v] = source[j].constant
  <2>1. CASE \E i \in DOMAIN source : Gives(source, i, v)
    <3>1. PICK j : j = CHOOSE i \in DOMAIN source : Gives(source, i, v)
      OBVIOUS
    <3>2. j \in DOMAIN source /\ Gives(source, j, v)
      BY <2>1, <3>1, Zenon
    <3>3. known[v] = source[j].constant
      BY <1>1, <2>1, <3>1 DEF KnownValues
    <3> QED
      BY <3>2, <3>3
  <2>2. CASE ~ \E i \in DOMAIN source : Gives(source, i, v)
    BY <1>1, <2>2 DEF KnownValues
  <2> QED
    BY <2>1, <2>2
<1>5. \A j \in DOMAIN source : source[j].constant \in Constants
  BY <1>2, InstFields
<1>6. KnownOK
  <2>1. known \in [Values -> Constants \cup {NotKnown}]
    <3>1. known = [v \in Values |-> known[v]]
      BY <1>1 DEF KnownValues
    <3>2. \A v \in Values : known[v] \in Constants \cup {NotKnown}
      BY <1>4, <1>5
    <3> QED
      BY <3>1, <3>2
  <2>2. ASSUME NEW v \in Values, known[v] # NotKnown PROVE \E j \in DOMAIN source : KnownBy(v, j)
    <3>1. PICK j \in DOMAIN source : Gives(source, j, v) /\ known[v] = source[j].constant
      BY <1>4, <2>2
    <3>2. source[j].op \in ConstOps /\ source[j].res = v /\ v # None
      BY <3>1 DEF Gives
    <3>3. source[j].constant.type \in {source[j].type, NoType}
      BY <1>2, <3>2 DEF IsFunction
    <3> QED
      BY <3>1, <3>2, <3>3 DEF KnownBy
  <2> QED
    BY <2>1, <2>2 DEF KnownOK
<1>7. Unfolded
  BY <1>1, <1>2 DEF Unfolded
<1>8. Stays
  BY <1>1 DEF Stays, ResultsOf
<1>9. ASSUME NEW arg \in Inputs
      PROVE  Solves(insts, Registers(source, arg)) /\ KnownIn(Registers(source, arg))
  <2> DEFINE H == Registers(source, arg)
  <2>1. arg \in Int
    BY FoldAssumption
  <2>2. Solves(source, H)
    BY <1>2, <2>1, RunSolves
  <2> HIDE DEF H
  <2>3. ASSUME NEW j \in DOMAIN source, source[j].res # None, known[source[j].res] # NotKnown
        PROVE  H[source[j].res] = <<AsHeld(source[j].type, known[source[j].res].value)>>
    <3>1. source[j].res \in Values
      BY <1>2 DEF Inside
    <3>2. PICK i \in DOMAIN source : Gives(source, i, source[j].res) /\ known[source[j].res] = source[i].constant
      BY <1>4, <2>3, <3>1
    <3>3. i = j /\ source[j].op \in ConstOps
      BY <1>2, <2>3, <3>2 DEF Gives, Ordered
    <3>4. H[source[j].res] = Result(source[j], H)
      BY <2>2, <2>3 DEF Solves
    <3> QED
      BY <3>2, <3>3, <3>4 DEF Result
  <2>4. KnownIn(H)
    BY <2>3 DEF KnownIn
  <2> QED
    BY <1>1, <2>2, <2>4 DEF H
<1>10. Exact
  BY <1>9 DEF Exact
<1> QED
  BY <1>1, <1>3, <1>6, <1>7, <1>8, <1>10 DEF IInv

-----------------------------------------------------------------------------
(***************************************************************************)
(* One turn of the loop.                                                   *)
(***************************************************************************)
\* What is known of an operand is of the operator's type, or a length's.
LEMMA OperandIsTyped ==
    ASSUME source \in Programs, KnownOK, NEW i \in DOMAIN source, source[i].op \in Operators,
           NEW k \in DOMAIN source[i].args, KnownOperand(source[i].args[k]) # NotKnown
    PROVE  /\ KnownOperand(source[i].args[k]) \in Constants
           /\ KnownOperand(source[i].args[k]).type \in {source[i].type, NoType}
<1> DEFINE a == source[i].args[k]
<1>1. IsFunction(source) /\ source[i] \in Insts /\ ReadBy(source[i]) \subseteq Values
  BY SourceFacts DEF Inside
<1>2. IsTyped(source, source[i])
  BY <1>1 DEF IsFunction
<1>3. CASE a.kind = "const" /\ a.constant \in Constants
  <2>1. KnownOperand(a) = a.constant
    BY <1>3 DEF KnownOperand
  <2>2. a.constant.type \in {source[i].type, NoType}
    BY <1>2, <1>3 DEF IsTyped
  <2> QED
    BY <1>3, <2>1, <2>2
<1>4. CASE a.kind = "value" /\ a.value \in ArgsOf(source[i])
  <2>1. a.value # None /\ KnownOperand(a) = known[a.value]
    BY <1>4 DEF KnownOperand
  <2>2. a.value \in Values
    BY <1>1, <1>4 DEF ReadBy
  <2>3. PICK j \in DOMAIN source : KnownBy(a.value, j)
    BY <2>1, <2>2 DEF KnownOK
  <2>4. source[j].type = source[i].type
    BY <1>2, <1>4, <2>1, <2>3 DEF IsTyped, KnownBy
  <2>5. known[a.value] \in Constants
    BY <2>1, <2>2 DEF KnownOK
  <2> QED
    BY <2>1, <2>3, <2>4, <2>5 DEF KnownBy
<1> QED
  BY <1>1, <1>3, <1>4, OperandFields

\* And it is what the register holds.
LEMMA OperandIsRight ==
    ASSUME source \in Programs, KnownOK, NEW i \in DOMAIN source, source[i].op \in Operators,
           NEW k \in DOMAIN source[i].args, KnownOperand(source[i].args[k]).type = source[i].type,
           KnownOperand(source[i].args[k]) # NotKnown, NEW regs, KnownIn(regs)
    PROVE  Operand(source[i], k, regs) = <<AsHeld(source[i].type, KnownOperand(source[i].args[k]).value)>>
<1> DEFINE a == source[i].args[k]
<1>1. IsFunction(source) /\ source[i] \in Insts /\ ReadBy(source[i]) \subseteq Values
  BY SourceFacts DEF Inside
<1>2. IsTyped(source, source[i])
  BY <1>1 DEF IsFunction
<1>3. ~(k > Len(source[i].args))
  BY <1>1, InstFields
<1>4. CASE a.kind = "const" /\ a.constant \in Constants
  BY <1>3, <1>4 DEF KnownOperand, Operand
<1>5. CASE a.kind = "value" /\ a.value \in ArgsOf(source[i])
  <2>1. a.value # None /\ KnownOperand(a) = known[a.value]
    BY <1>5 DEF KnownOperand
  <2>2. a.value \in Values
    BY <1>1, <1>5 DEF ReadBy
  <2>3. PICK j \in DOMAIN source : KnownBy(a.value, j)
    BY <2>1, <2>2 DEF KnownOK
  <2>4. source[j].type = source[i].type /\ source[j].res = a.value
    BY <1>2, <1>5, <2>1, <2>3 DEF IsTyped, KnownBy
  <2>5. regs[a.value] = <<AsHeld(source[i].type, known[a.value].value)>>
    BY <2>1, <2>4 DEF KnownIn
  <2>6. Operand(source[i], k, regs) = regs[a.value]
    BY <1>3, <1>5 DEF Operand
  <2> QED
    BY <2>1, <2>5, <2>6
<1> QED
  BY <1>1, <1>4, <1>5, OperandFields

\* The operands of an instruction that folds are constants of its type.
LEMMA FoldedOperands ==
    ASSUME source \in Programs, KnownOK, NEW i \in DOMAIN source, Folds(source[i])
    PROVE  /\ source[i].op \in Operators
           /\ \A k \in DOMAIN source[i].args : /\ KnownOperand(source[i].args[k]) \in Constants
                                               /\ KnownOperand(source[i].args[k]) # NotKnown
                                               /\ KnownOperand(source[i].args[k]).type = source[i].type
           /\ \/ /\ source[i].op \in Arithmetic /\ DOMAIN source[i].args = {1, 2} /\ Len(source[i].args) = 2
                 /\ BinaryFolds(source[i].op, KnownOperand(source[i].args[1]), KnownOperand(source[i].args[2]))
              \/ /\ source[i].op \in {"neg", "not"} /\ DOMAIN source[i].args = {1} /\ Len(source[i].args) = 1
                 /\ UnaryFolds(source[i].op, KnownOperand(source[i].args[1]))
<1> DEFINE K(k) == KnownOperand(source[i].args[k])
           inst == source[i]
<1>1. inst.op \in Operators /\ \A k \in DOMAIN inst.args : K(k) # NotKnown
  BY DEF Folds
<1>2. \A k \in DOMAIN inst.args : K(k) \in Constants /\ K(k).type \in {inst.type, NoType}
  BY <1>1, OperandIsTyped
<1>3. inst.args \in Seq(Operands)
  BY SourceFacts, InstFields
<1>4. CASE inst.op \in Arithmetic /\ Len(inst.args) = 2 /\ BinaryFolds(inst.op, K(1), K(2))
  <2>1. DOMAIN inst.args = {1, 2}
    BY <1>3, <1>4
  <2>2. K(1).type # NoType /\ K(2).type = K(1).type
    BY <1>4 DEF BinaryFolds
  <2> HIDE DEF K
  <2>3. \A k \in {1, 2} : K(k) \in Constants /\ K(k).type = inst.type
    BY <1>2, <2>1, <2>2
  <2> USE DEF K
  <2> QED
    BY <1>1, <1>4, <2>1, <2>3
<1>5. CASE inst.op \in {"neg", "not"} /\ Len(inst.args) = 1 /\ UnaryFolds(inst.op, K(1))
  <2>1. DOMAIN inst.args = {1}
    BY <1>3, <1>5
  <2>2. K(1).type # NoType
    BY <1>5 DEF UnaryFolds, Integral, NoType
  <2> HIDE DEF K
  <2>3. \A k \in {1} : K(k) \in Constants /\ K(k).type = inst.type
    BY <1>2, <2>1, <2>2
  <2> USE DEF K
  <2> QED
    BY <1>1, <1>5, <2>1, <2>3
<1> QED
  BY <1>4, <1>5 DEF Folds

\* What the compiler makes of an instruction is what the program would.
LEMMA FoldedIsRight ==
    ASSUME source \in Programs, KnownOK, NEW i \in DOMAIN source, Folds(source[i]),
           ~FoldsPastTheWord(source[i]), NEW regs, KnownIn(regs)
    PROVE  Result(source[i], regs) = <<AsHeld(source[i].type, FoldedTo(source[i]).value)>>
<1> DEFINE K(k) == KnownOperand(source[i].args[k])
           inst == source[i]
<1>1. inst.op \in Operators /\ \A k \in DOMAIN inst.args : K(k) \in Constants /\ K(k) # NotKnown /\ K(k).type = inst.type
  BY FoldedOperands
<1>2. \A k \in DOMAIN inst.args : Operand(inst, k, regs) = <<AsHeld(inst.type, K(k).value)>>
  BY <1>1, OperandIsRight
<1>3. inst.op \notin ConstOps
  BY <1>1 DEF Operators, Arithmetic, ConstOps
<1>4. Result(inst, regs) = Emitted(inst, Operand(inst, 1, regs), Operand(inst, 2, regs))
  BY <1>1, <1>3 DEF Result
<1>5. IsFunction(source) /\ inst \in Insts /\ inst.type \in Types
  BY SourceFacts, InstFields
<1>6. inst.op = "div" => inst.type # "f32"
  BY <1>5 DEF IsFunction
<1>7. CASE inst.op \in Arithmetic /\ DOMAIN inst.args = {1, 2} /\ BinaryFolds(inst.op, K(1), K(2))
  <2>1. inst.type = "usize" => /\ ~PastTheWord(K(1).value) /\ ~PastTheWord(K(2).value)
                               /\ ~PastTheWord(Computed(inst.op, K(1).value, K(2).value))
    BY <1>7 DEF FoldsPastTheWord
  <2>2. FoldedTo(inst) = Binary(inst.op, K(1), K(2))
    BY <1>7 DEF FoldedTo
  <2>3. /\ K(1) \in Constants /\ K(2) \in Constants /\ inst.type = K(1).type
        /\ Operand(inst, 1, regs) = <<AsHeld(inst.type, K(1).value)>>
        /\ Operand(inst, 2, regs) = <<AsHeld(inst.type, K(2).value)>>
    BY <1>1, <1>2, <1>7
  <2> HIDE DEF K, inst
  <2>4. Emitted(inst, <<AsHeld(inst.type, K(1).value)>>, <<AsHeld(inst.type, K(2).value)>>)
          = <<AsHeld(inst.type, Binary(inst.op, K(1), K(2)).value)>>
    BY <1>5, <1>6, <1>7, <2>1, <2>3, BinaryIsExact
  <2>5. Result(inst, regs) = <<AsHeld(inst.type, FoldedTo(inst).value)>>
    BY <1>4, <2>2, <2>3, <2>4
  <2> QED
    BY <2>5 DEF inst
<1>8. CASE /\ inst.op \in {"neg", "not"} /\ DOMAIN inst.args = {1} /\ Len(inst.args) = 1
           /\ UnaryFolds(inst.op, K(1))
  <2>1. Len(inst.args) = 1
    BY <1>8
  <2>2. Operand(inst, 2, regs) = <<0>>
    BY <2>1 DEF Operand
  <2>3. K(1) \in Constants /\ inst.type = K(1).type /\ Operand(inst, 1, regs) = <<AsHeld(inst.type, K(1).value)>>
    BY <1>1, <1>2, <1>8
  <2>4. FoldedTo(inst) = Unary(inst.op, K(1))
    BY <1>8 DEF FoldedTo, Arithmetic
  <2>5. inst.type = "usize" => ~PastTheWord(K(1).value) /\ ~PastTheWord(0 - K(1).value)
    <3>1. inst.type = "usize" => inst.op = "neg"
      BY <1>8, <2>3 DEF UnaryFolds
    <3> QED
      BY <1>8, <3>1 DEF FoldsPastTheWord
  <2> HIDE DEF K, inst
  <2>6. Emitted(inst, <<AsHeld(inst.type, K(1).value)>>, <<0>>) = <<AsHeld(inst.type, Unary(inst.op, K(1)).value)>>
    BY <1>8, <2>3, <2>5, UnaryIsExact
  <2>7. Result(inst, regs) = <<AsHeld(inst.type, FoldedTo(inst).value)>>
    BY <1>4, <2>2, <2>3, <2>4, <2>6
  <2> QED
    BY <2>7 DEF inst
<1> QED
  BY <1>7, <1>8, FoldedOperands

\* The constant of a folded instruction.
LEMMA FoldedConstant ==
    ASSUME source \in Programs, KnownOK, NEW i \in DOMAIN source, Folds(source[i])
    PROVE  /\ FoldedTo(source[i]) \in Constants /\ FoldedTo(source[i]).type \in {source[i].type, NoType}
           /\ FoldedTo(source[i]).type \in Integral =>
                 /\ FoldedTo(source[i]).value = Signed(FoldedTo(source[i]).value, SizeValues)
                 /\ ~PastTheWord(FoldedTo(source[i]).value)
<1> DEFINE K(k) == KnownOperand(source[i].args[k])
           inst == source[i]
           c == FoldedTo(inst)
<1>1. \A k \in DOMAIN inst.args : K(k) \in Constants /\ K(k).type = inst.type
  BY FoldedOperands
<1>2. IsFunction(source) /\ inst \in Insts /\ inst.type \in Types
  BY SourceFacts, InstFields
<1>3. \A n \in Int : /\ Signed(n, WordValues) \in Int
                     /\ Signed(n, WordValues) = Signed(Signed(n, WordValues), SizeValues)
                     /\ ~PastTheWord(Signed(n, WordValues))
  BY SignedTwice, WordFitsSize DEF PastTheWord
<1>4. /\ c = Constant(c.type, c.value) /\ c.type \in {inst.type, NoType} /\ c.value \in Int
      /\ c.type \in Integral => \E n \in Int : c.value = Signed(n, WordValues)
  <2>1. CASE inst.op \in Arithmetic /\ DOMAIN inst.args = {1, 2} /\ BinaryFolds(inst.op, K(1), K(2))
    <3>1. c = Binary(inst.op, K(1), K(2))
      BY <2>1 DEF FoldedTo
    <3>2. K(1) \in Constants /\ K(2) \in Constants /\ K(1).type = inst.type
      BY <1>1, <2>1
    <3>3. PICK x \in Int, y \in Int : x = K(1).value /\ y = K(2).value
      BY <3>2 DEF Constants
    <3>4. CASE inst.type = "f32"
      <4>1. inst.op \notin {"div", "mod"}
        BY <1>2, <2>1, <3>2, <3>4 DEF BinaryFolds, IsFunction, Integral
      <4>2. Computed(inst.op, x, y) \in Int
        BY <2>1, <4>1, ComputedIsInt
      <4>3. c = Constant(NoType, Computed(inst.op, x, y))
        BY <3>1, <3>2, <3>3, <3>4 DEF Binary
      <4> QED
        BY <4>2, <4>3 DEF Constant, Integral, NoType
    <3>5. CASE inst.type # "f32"
      <4>1. PICK u \in Int, v \in Int : u = Signed(x, WordValues) /\ v = Signed(y, WordValues)
        BY <1>3
      <4>2. inst.op \in {"div", "mod"} => v # 0
        BY <2>1, <3>2, <3>3, <3>5, <4>1 DEF BinaryFolds, IntBinaryFolds, DivisionFolds
      <4>3. PICK n \in Int : n = Computed(inst.op, u, v)
        BY <2>1, <4>2, ComputedIsInt
      <4>4. c = Constant(inst.type, Signed(n, WordValues))
        BY <3>1, <3>2, <3>3, <3>5, <4>1, <4>3 DEF Binary
      <4> QED
        BY <1>3, <4>4 DEF Constant
    <3> QED
      BY <3>4, <3>5
  <2>2. CASE inst.op \in {"neg", "not"} /\ DOMAIN inst.args = {1} /\ UnaryFolds(inst.op, K(1))
    <3>1. c = Unary(inst.op, K(1))
      BY <2>2 DEF FoldedTo, Arithmetic
    <3>2. K(1) \in Constants /\ K(1).type = inst.type
      BY <1>1, <2>2
    <3>3. PICK x \in Int : x = K(1).value
      BY <3>2 DEF Constants
    <3>4. CASE inst.op = "not"
      BY <2>2, <3>1, <3>2, <3>3, <3>4 DEF Unary, UnaryFolds, Constant, Integral
    <3>5. CASE inst.op # "not" /\ inst.type = "f32"
      BY <3>1, <3>2, <3>3, <3>5 DEF Unary, Constant, Integral
    <3>6. CASE inst.op # "not" /\ inst.type # "f32"
      <4>1. PICK u \in Int : u = Signed(x, WordValues)
        BY <1>3
      <4>2. PICK n \in Int : n = 0 - u
        OBVIOUS
      <4>3. c = Constant(inst.type, Signed(n, WordValues))
        BY <3>1, <3>2, <3>3, <3>6, <4>1, <4>2 DEF Unary
      <4> QED
        BY <1>3, <4>3 DEF Constant
    <3> QED
      BY <3>4, <3>5, <3>6
  <2> QED
    BY <2>1, <2>2, FoldedOperands
<1>5. c \in Constants
  BY <1>2, <1>4 DEF Constant, Constants
<1> QED
  BY <1>3, <1>4, <1>5

\* The source computes one thing, whatever becomes of the instructions.
LEMMA SourceRuns ==
    ASSUME source' = source, NEW arg PROVE Registers(source, arg)' = Registers(source, arg)
  BY DEF Registers, Execute, Files, Values

\* Instructions that fold past the word do so for good: what is known of their
\* operands does not change.
LEMMA PastTheWordStays ==
    ASSUME source' = source, NEW inst \in Insts, ReadBy(inst) \subseteq Values, FoldsPastTheWord(inst),
           \A v \in Values : known[v] # NotKnown => known'[v] = known[v]
    PROVE  FoldsPastTheWord(inst)'
<1>1. Folds(inst) /\ \A k \in DOMAIN inst.args : KnownOperand(inst.args[k]) # NotKnown
  BY DEF FoldsPastTheWord, Folds
<1>2. ASSUME NEW k \in DOMAIN inst.args PROVE KnownOperand(inst.args[k])' = KnownOperand(inst.args[k])
  <2>1. CASE inst.args[k].kind = "const"
    BY <2>1 DEF KnownOperand
  <2>2. CASE inst.args[k].kind = "value" /\ inst.args[k].value \in ArgsOf(inst)
    <3>1. inst.args[k].value \in Values
      BY <2>2 DEF ReadBy
    <3>2. KnownOperand(inst.args[k]) = known[inst.args[k].value] /\ inst.args[k].value # None
      BY <1>1, <2>2 DEF KnownOperand
    <3>3. known'[inst.args[k].value] = known[inst.args[k].value]
      BY <1>1, <3>1, <3>2
    <3> QED
      BY <2>2, <3>2, <3>3 DEF KnownOperand
  <2> QED
    BY <2>1, <2>2, OperandFields
<1>3. inst.args \in Seq(Operands)
  BY InstFields
<1>4. /\ inst.op \in Arithmetic /\ Len(inst.args) = 2 => 1 \in DOMAIN inst.args /\ 2 \in DOMAIN inst.args
      /\ Len(inst.args) = 1 => 1 \in DOMAIN inst.args
  BY <1>3
<1>5. Folds(inst)'
  <2>1. CASE /\ inst.op \in Arithmetic /\ Len(inst.args) = 2
             /\ BinaryFolds(inst.op, KnownOperand(inst.args[1]), KnownOperand(inst.args[2]))
    <3>1. /\ KnownOperand(inst.args[1])' = KnownOperand(inst.args[1])
          /\ KnownOperand(inst.args[2])' = KnownOperand(inst.args[2])
      BY <1>2, <1>4, <2>1
    <3> QED
      BY <1>1, <1>2, <2>1, <3>1 DEF Folds
  <2>2. CASE /\ inst.op \in {"neg", "not"} /\ Len(inst.args) = 1
             /\ UnaryFolds(inst.op, KnownOperand(inst.args[1]))
    <3>1. KnownOperand(inst.args[1])' = KnownOperand(inst.args[1])
      BY <1>2, <1>4, <2>2
    <3> QED
      BY <1>1, <1>2, <2>2, <3>1 DEF Folds
  <2> QED
    BY <1>1, <2>1, <2>2 DEF Folds
<1>6. inst.op \in Arithmetic => 1 \in DOMAIN inst.args /\ 2 \in DOMAIN inst.args
  BY <1>1, <1>4 DEF Folds, Arithmetic
<1>7. inst.op = "neg" => 1 \in DOMAIN inst.args
  BY <1>1, <1>4 DEF Folds, Arithmetic
<1>8. CASE \E k \in DOMAIN inst.args : PastTheWord(KnownOperand(inst.args[k]).value)
  BY <1>2, <1>5, <1>8 DEF FoldsPastTheWord
<1>9. CASE inst.op = "neg" /\ PastTheWord(0 - KnownOperand(inst.args[1]).value)
  <2>1. KnownOperand(inst.args[1])' = KnownOperand(inst.args[1])
    BY <1>2, <1>7, <1>9
  <2> QED
    BY <1>5, <1>9, <2>1 DEF FoldsPastTheWord
<1>10. CASE /\ inst.op \in Arithmetic
            /\ PastTheWord(Computed(inst.op, KnownOperand(inst.args[1]).value, KnownOperand(inst.args[2]).value))
  <2>1. /\ KnownOperand(inst.args[1])' = KnownOperand(inst.args[1])
        /\ KnownOperand(inst.args[2])' = KnownOperand(inst.args[2])
    BY <1>2, <1>6, <1>10
  <2> QED
    BY <1>5, <1>10, <2>1 DEF FoldsPastTheWord
<1> QED
  BY <1>8, <1>9, <1>10 DEF FoldsPastTheWord

\* An instruction that reads no more than the one it replaces.
LEMMA ReplacedOrdered ==
    ASSUME NEW code, NEW n \in DOMAIN code, NEW new, Ordered(code),
           new.res = code[n].res, ReadBy(new) \subseteq ReadBy(code[n])
    PROVE  Ordered([code EXCEPT ![n] = new])
<1> DEFINE then == [code EXCEPT ![n] = new]
<1>1. DOMAIN then = DOMAIN code
  OBVIOUS
<1>2. \A i \in DOMAIN code : then[i].res = code[i].res /\ ReadBy(then[i]) \subseteq ReadBy(code[i])
  OBVIOUS
<1> HIDE DEF then
<1>3. Ordered(then)
  BY <1>1, <1>2 DEF Ordered
<1> QED
  BY <1>3 DEF then

\* A turn that folds nothing.
LEMMA TurnPasses ==
    ASSUME IInv, FoldInst, ~Folds(insts[at]) PROVE IInv'
<1>1. /\ phase = "fold" /\ phase' = phase /\ at \in DOMAIN insts /\ at' = at + 1
      /\ insts' = insts /\ known' = known /\ source' = source /\ read' = read
  BY DEF FoldInst
<1>2. Values' = Values /\ SomeFoldsPastTheWord' = SomeFoldsPastTheWord
  BY <1>1 DEF Values, SomeFoldsPastTheWord, FoldsPastTheWord, Folds, KnownOperand
<1>3. source' \in Programs /\ InstsOK'
  BY <1>1 DEF IInv, InstsOK
<1>4. insts \in Seq(Insts) /\ at \in Nat
  BY DEF IInv, InstsOK, Unfolded
<1>5. Unfolded'
  BY <1>1, <1>4 DEF IInv, Unfolded
<1>6. KnownOK'
  <2>1. \A v, j : j \in DOMAIN source /\ KnownBy(v, j) => KnownBy(v, j)'
    <3> SUFFICES ASSUME NEW v, NEW j \in DOMAIN source, KnownBy(v, j) PROVE KnownBy(v, j)'
      OBVIOUS
    <3>1. j \in Nat
      BY SourceFacts DEF IInv
    <3>2. j < at => j < at'
      BY <1>1, <1>4, <3>1
    <3> QED
      BY <1>1, <3>2 DEF KnownBy
  <2> QED
    BY <1>1, <1>2, <2>1 DEF IInv, KnownOK
<1>7. Stays'
  BY <1>1 DEF IInv, Stays
<1>8. Exact'
  <2>1. \A arg \in Inputs : Registers(source, arg)' = Registers(source, arg)
    BY <1>1, SourceRuns
  <2> QED
    BY <1>1, <1>2, <2>1 DEF IInv, Exact, KnownIn
<1> QED
  BY <1>3, <1>5, <1>6, <1>7, <1>8 DEF IInv

\* A turn that folds the instruction it is at.
LEMMA TurnFolds ==
    ASSUME IInv, FoldInst, Folds(insts[at]) PROVE IInv'
<1>1. /\ phase = "fold" /\ phase' = phase /\ at \in DOMAIN insts /\ at' = at + 1
      /\ insts' = [insts EXCEPT ![at] = Folded(insts[at])]
      /\ known' = [known EXCEPT ![insts[at].res] = FoldedTo(insts[at])]
      /\ source' = source /\ read' = read
  BY DEF FoldInst
<1>2. /\ source \in Programs /\ source' \in Programs /\ IsFunction(source) /\ source \in Seq(Insts)
      /\ Ordered(source) /\ Inside(source) /\ KnownOK
  BY <1>1, SourceFacts DEF IInv
<1>3. /\ insts \in Seq(Insts) /\ Ordered(insts) /\ at \in Nat /\ Len(insts) = Len(source)
      /\ DOMAIN insts = DOMAIN source /\ insts[at] = source[at]
  BY <1>1, <1>2 DEF IInv, InstsOK, Unfolded
<1>4. PICK n \in DOMAIN source : n = at
  BY <1>1, <1>3
<1>5. PICK inst \in Insts : inst = source[n]
  BY <1>2
<1>6. /\ inst.op \in Operators /\ inst.op \notin ConstOps /\ inst.op \notin {"store", "return"}
      /\ inst.res # None /\ inst.res \in Values /\ Folds(inst)
  <2>1. Folds(inst)
    BY <1>3, <1>4, <1>5
  <2>2. inst.op \in Operators
    BY <2>1 DEF Folds
  <2>3. inst.op \notin ConstOps /\ inst.op \notin {"store", "return"}
    BY <2>2 DEF Operators, Arithmetic, ConstOps
  <2> QED
    BY <1>2, <1>5, <2>1, <2>2, <2>3 DEF IsFunction, Inside
<1>7. PICK c \in Constants : c = FoldedTo(inst)
  BY <1>2, <1>5, <1>6, FoldedConstant
<1>8. /\ c.type \in {inst.type, NoType}
      /\ c.type \in Integral => c.value = Signed(c.value, SizeValues) /\ ~PastTheWord(c.value)
  BY <1>2, <1>5, <1>6, <1>7, FoldedConstant
<1>9. PICK new : new = [inst EXCEPT !.op = ConstOpOf(inst.type), !.args = <<>>, !.constant = c]
  OBVIOUS
<1>10. /\ insts' = [insts EXCEPT ![n] = new] /\ known' = [known EXCEPT ![inst.res] = c] /\ insts[n] = inst
  BY <1>1, <1>3, <1>4, <1>5, <1>7, <1>9 DEF Folded
<1>11. Came(new, inst) /\ new.op \in ConstOps /\ new.constant = c
  <2>1. new.op = ConstOpOf(inst.type) /\ new.constant = c
    BY <1>9 DEF Insts
  <2>2. ConstOpOf(inst.type) \in ConstOps
    BY DEF ConstOpOf, ConstOps
  <2>3. Came(new, inst)
    BY <1>6, <1>8, <1>9, <2>1, Zenon DEF Came
  <2> QED
    BY <2>1, <2>2, <2>3
<1>12. new.res = inst.res /\ new.type = inst.type /\ ReadBy(new) \subseteq ReadBy(inst) /\ new \in Insts
  BY <1>11, CameReads
<1>13. DOMAIN insts' = DOMAIN insts /\ insts'[n] = new /\ \A i \in DOMAIN insts : i # n => insts'[i] = insts[i]
  BY <1>3, <1>10, <1>4
<1>14. insts' \in Seq(Insts) /\ Len(insts') = Len(insts)
  BY <1>3, <1>4, <1>10, <1>12
<1>15. Values' = Values
  BY <1>1 DEF Values
<1>16. InstsOK'
  <2>1. Len(insts') <= Len(source')
    BY <1>1, <1>2, <1>3, <1>14
  <2>2. Ordered(insts')
    BY <1>3, <1>4, <1>10, <1>12, ReplacedOrdered
  <2>3. ASSUME NEW i \in DOMAIN insts' PROVE \E j \in DOMAIN source' : Came(insts'[i], source'[j])
    <3>1. CASE i = n
      BY <1>1, <1>5, <1>11, <1>13, <3>1
    <3>2. CASE i # n
      BY <1>1, <1>13, <3>2 DEF IInv, InstsOK
    <3> QED
      BY <3>1, <3>2
  <2>4. Effects(insts') = Effects(insts) /\ n \notin Effects(insts)
    <3>1. new.op \notin {"store", "return"}
      BY <1>11 DEF ConstOps
    <3>2. \A i \in DOMAIN insts : insts'[i].op \in {"store", "return"} <=> insts[i].op \in {"store", "return"}
      BY <1>6, <1>10, <1>13, <3>1
    <3> QED
      BY <1>6, <1>10, <1>13, <3>2 DEF Effects
  <2>5. \A i \in Effects(insts) : insts'[i] = insts[i]
    BY <1>13, <2>4 DEF Effects
  <2>6. {insts'[i] : i \in Effects(insts')} = {insts[i] : i \in Effects(insts)}
    BY <2>4, <2>5
  <2>7. {insts'[i] : i \in Effects(insts')} = {source'[i] : i \in Effects(source')}
    BY <1>1, <2>6 DEF IInv, InstsOK
  <2> QED
    BY <1>14, <2>1, <2>2, <2>3, <2>7 DEF InstsOK
<1>17. known[inst.res] = NotKnown
  <2> SUFFICES ASSUME known[inst.res] # NotKnown PROVE FALSE
    OBVIOUS
  <2>1. PICK j \in DOMAIN source : KnownBy(inst.res, j)
    BY <1>2, <1>6 DEF KnownOK
  <2>2. j = n
    BY <1>2, <1>5, <1>6, <2>1 DEF KnownBy, Ordered
  <2>3. ~(n < at)
    BY <1>4, <1>3
  <2> QED
    BY <1>1, <1>5, <1>6, <2>1, <2>2, <2>3 DEF KnownBy
<1>18. known \in [Values -> Constants \cup {NotKnown}]
  BY <1>2 DEF KnownOK
<1>19. /\ known' \in [Values -> Constants \cup {NotKnown}] /\ known'[inst.res] = c
       /\ \A v \in Values : v # inst.res => known'[v] = known[v]
  BY <1>6, <1>10, <1>18
<1>20. \A v \in Values : known[v] # NotKnown => known'[v] = known[v]
  BY <1>17, <1>19
<1>21. KnownOK'
  <2>1. ASSUME NEW v \in Values, known'[v] # NotKnown PROVE \E j \in DOMAIN source : KnownBy(v, j)'
    <3>1. CASE v = inst.res
      <4>1. n < at'
        BY <1>1, <1>3, <1>4
      <4>2. KnownBy(v, n)'
        BY <1>1, <1>5, <1>6, <1>8, <1>19, <3>1, <4>1 DEF KnownBy
      <4> QED
        BY <4>2
    <3>2. CASE v # inst.res
      <4>1. known'[v] = known[v]
        BY <1>19, <3>2
      <4>2. PICK j \in DOMAIN source : KnownBy(v, j)
        BY <1>2, <2>1, <4>1 DEF KnownOK
      <4>3. j < at => j < at'
        BY <1>1, <1>2, <1>3
      <4>4. KnownBy(v, j)'
        BY <1>1, <4>1, <4>2, <4>3 DEF KnownBy
      <4> QED
        BY <4>4
    <3> QED
      BY <3>1, <3>2
  <2> QED
    BY <1>1, <1>15, <1>19, <2>1 DEF KnownOK
<1>22. Unfolded'
  <2>1. at' \in 1..(Len(insts') + 1)
    BY <1>1, <1>3, <1>14
  <2>2. ASSUME NEW i \in DOMAIN insts', i >= at' PROVE insts'[i] = source'[i]
    <3>1. i # n /\ i >= at /\ i \in DOMAIN insts
      BY <1>1, <1>3, <1>4, <1>13, <2>2
    <3> QED
      BY <1>1, <1>13, <3>1 DEF IInv, Unfolded
  <2> QED
    BY <1>1, <1>3, <1>14, <2>1, <2>2 DEF Unfolded
<1>23. Stays'
  <2>1. ResultsOf(insts') = ResultsOf(insts)
    <3>1. \A i \in DOMAIN insts : insts'[i].res = insts[i].res
      BY <1>10, <1>12, <1>13
    <3> QED
      BY <1>13, <3>1 DEF ResultsOf
  <2> QED
    BY <1>1, <2>1 DEF IInv, Stays
<1>24. ASSUME ~SomeFoldsPastTheWord' PROVE ~SomeFoldsPastTheWord /\ ~FoldsPastTheWord(inst)
  <2>1. ASSUME NEW i \in DOMAIN source, FoldsPastTheWord(source[i]) PROVE FALSE
    <3>1. PICK x \in Insts : x = source[i] /\ ReadBy(x) \subseteq Values
      BY <1>2 DEF Inside
    <3>2. FoldsPastTheWord(x)'
      BY <1>1, <1>20, <2>1, <3>1, PastTheWordStays
    <3>3. x = source'[i] /\ i \in DOMAIN source'
      BY <1>1, <3>1
    <3> QED
      BY <1>24, <3>2, <3>3 DEF SomeFoldsPastTheWord
  <2> QED
    BY <1>5, <2>1 DEF SomeFoldsPastTheWord
<1>25. ASSUME ~SomeFoldsPastTheWord', NEW arg \in Inputs
       PROVE  Solves(insts', Registers(source, arg)') /\ KnownIn(Registers(source, arg))'
  <2>1. PICK H : H = Registers(source, arg)
    OBVIOUS
  <2>2. H = Registers(source, arg)'
    BY <1>1, <2>1, SourceRuns
  <2>3. Solves(insts, H) /\ KnownIn(H)
    BY <1>24, <1>25, <2>1 DEF IInv, Exact
  <2>4. Solves(source, H)
    <3>1. arg \in Int
      BY FoldAssumption
    <3> QED
      BY <1>2, <2>1, <3>1, RunSolves
  <2>5. H[inst.res] = <<AsHeld(inst.type, c.value)>>
    <3>1. H[inst.res] = Result(inst, H)
      BY <1>5, <1>6, <2>4 DEF Solves
    <3>2. Result(inst, H) = <<AsHeld(inst.type, FoldedTo(inst).value)>>
      BY <1>2, <1>5, <1>6, <1>24, <1>25, <2>3, FoldedIsRight
    <3> QED
      BY <1>7, <3>1, <3>2
  <2>6. Solves(insts', H)
    <3> SUFFICES ASSUME NEW i \in DOMAIN insts', insts'[i].res # None
                 PROVE  H[insts'[i].res] = Result(insts'[i], H)
      BY DEF Solves
    <3>1. CASE i = n
      <4>1. Result(new, H) = <<AsHeld(inst.type, c.value)>>
        BY <1>11, <1>12 DEF Result
      <4> QED
        BY <1>12, <1>13, <2>5, <3>1, <4>1
    <3>2. CASE i # n
      BY <1>13, <2>3, <3>2 DEF Solves
    <3> QED
      BY <3>1, <3>2
  <2>7. KnownIn(H)'
    <3>1. H' = H
      BY <2>2
    <3>2. ASSUME NEW j \in DOMAIN source, source[j].res # None, known'[source[j].res] # NotKnown
          PROVE  H[source[j].res] = <<AsHeld(source[j].type, known'[source[j].res].value)>>
      <4>1. CASE source[j].res = inst.res
        <5>1. j = n
          BY <1>2, <1>5, <1>6, <4>1 DEF Ordered
        <5> QED
          BY <1>5, <1>19, <2>5, <5>1
      <4>2. CASE source[j].res # inst.res
        <5>1. known'[source[j].res] = known[source[j].res]
          BY <1>2, <1>19, <4>2 DEF Inside
        <5> QED
          BY <2>3, <3>2, <5>1 DEF KnownIn
      <4> QED
        BY <4>1, <4>2
    <3> QED
      BY <1>1, <3>2 DEF KnownIn
  <2> QED
    BY <2>1, <2>2, <2>6, <2>7 DEF KnownIn
<1>26. Exact'
  BY <1>25 DEF Exact
<1> QED
  BY <1>2, <1>16, <1>21, <1>22, <1>23, <1>26 DEF IInv

\* The first loop of drop_unread_constants.
LEMMA FoldingEnds ==
    ASSUME IInv, LastFolded PROVE IInv'
<1>1. /\ phase = "fold" /\ phase' = "drop" /\ read' = ReadValues(insts) /\ at' = 1
      /\ source' = source /\ insts' = insts /\ known' = known
  BY DEF LastFolded
<1>2. Values' = Values /\ SomeFoldsPastTheWord' = SomeFoldsPastTheWord
  BY <1>1 DEF Values, SomeFoldsPastTheWord, FoldsPastTheWord, Folds, KnownOperand
<1>3. source' \in Programs /\ InstsOK'
  BY <1>1 DEF IInv, InstsOK
<1>4. KnownOK'
  <2>1. \A v, j : KnownBy(v, j) => KnownBy(v, j)'
    BY <1>1 DEF KnownBy
  <2> QED
    BY <1>1, <1>2, <2>1 DEF IInv, KnownOK
<1>5. Unfolded'
  <2>1. insts \in Seq(Insts)
    BY DEF IInv, InstsOK
  <2> QED
    BY <1>1, <2>1 DEF Unfolded
<1>6. Stays'
  BY <1>1 DEF IInv, Stays
<1>7. Exact'
  <2>1. \A arg \in Inputs : Registers(source, arg)' = Registers(source, arg)
    BY <1>1, SourceRuns
  <2> QED
    BY <1>1, <1>2, <2>1 DEF IInv, Exact, KnownIn
<1> QED
  BY <1>3, <1>4, <1>5, <1>6, <1>7 DEF IInv

\* Code without one of its instructions has the others, in their order.
LEMMA WithoutOne ==
    ASSUME NEW code \in Seq(Insts), NEW n \in DOMAIN code, Ordered(code)
    PROVE  /\ Without(code, n) \in Seq(Insts) /\ Len(Without(code, n)) = Len(code) - 1
           /\ Ordered(Without(code, n))
           /\ \A i \in DOMAIN Without(code, n) : \E j \in DOMAIN code : j # n /\ Without(code, n)[i] = code[j]
           /\ \A j \in DOMAIN code : j # n => \E i \in DOMAIN Without(code, n) : Without(code, n)[i] = code[j]
<1> DEFINE rest == Without(code, n)
           m == Len(code) - 1
<1>1. m \in Nat /\ Len(code) = m + 1 /\ DOMAIN code = 1..(m + 1) /\ n \in 1..(m + 1)
  OBVIOUS
<1> HIDE DEF m
<1>2. rest = [i \in 1..m |-> IF i < n THEN code[i] ELSE code[i + 1]]
  BY DEF Without, m
<1> HIDE DEF rest
<1>3. PICK sh : sh = [i \in 1..m |-> IF i < n THEN i ELSE i + 1]
  OBVIOUS
<1>4. /\ sh \in [1..m -> 1..(m + 1)]
      /\ \A i \in 1..m : rest[i] = code[sh[i]] /\ sh[i] # n
      /\ \A i, j \in 1..m : i < j <=> sh[i] < sh[j]
      /\ \A i, j \in 1..m : sh[i] = sh[j] => i = j
  BY <1>1, <1>2, <1>3
<1>5. \A j \in 1..(m + 1) : j # n => \E i \in 1..m : sh[i] = j
  <2> SUFFICES ASSUME NEW j \in 1..(m + 1), j # n PROVE \E i \in 1..m : sh[i] = j
    OBVIOUS
  <2>1. CASE j < n
    <3>1. j \in 1..m /\ sh[j] = j
      BY <1>1, <1>3, <2>1
    <3> QED
      BY <3>1
  <2>2. CASE j > n
    <3>1. j - 1 \in 1..m /\ sh[j - 1] = j
      BY <1>1, <1>3, <2>2
    <3> QED
      BY <3>1
  <2> QED
    BY <1>1, <2>1, <2>2
<1>6. DOMAIN rest = 1..m
  BY <1>2
<1>7. \A i \in 1..m : rest[i] \in Insts
  BY <1>1, <1>4
<1>8. rest \in Seq(Insts) /\ Len(rest) = m
  <2>1. rest \in [1..m -> Insts]
    BY <1>2, <1>7
  <2> QED
    BY <1>1, <2>1
<1>9. Ordered(rest)
  <2>1. ASSUME NEW i \in 1..m, NEW j \in 1..m, rest[i].res = rest[j].res, rest[i].res # None PROVE i = j
    <3>1. sh[i] = sh[j]
      BY <1>1, <1>4, <2>1 DEF Ordered
    <3> QED
      BY <1>4, <3>1
  <2>2. ASSUME NEW i \in 1..m, NEW j \in 1..m, rest[j].res \in ReadBy(rest[i]), rest[j].res # None PROVE j < i
    <3>1. sh[j] < sh[i]
      BY <1>1, <1>4, <2>2 DEF Ordered
    <3> QED
      BY <1>4, <3>1
  <2> QED
    BY <1>6, <2>1, <2>2 DEF Ordered
<1>10. \A i \in DOMAIN rest : \E j \in DOMAIN code : j # n /\ rest[i] = code[j]
  BY <1>1, <1>4, <1>6
<1>11. \A j \in DOMAIN code : j # n => \E i \in DOMAIN rest : rest[i] = code[j]
  BY <1>1, <1>4, <1>5, <1>6
<1>12. Len(rest) = Len(code) - 1
  BY <1>8 DEF m
<1> QED
  BY <1>8, <1>9, <1>10, <1>11, <1>12 DEF rest

\* Dropping the constant it is at.
LEMMA DropDrops ==
    ASSUME IInv, DropInst, Unread(insts[at]) PROVE IInv'
<1>1. /\ phase = "drop" /\ phase' = phase /\ at \in DOMAIN insts /\ at' = at /\ insts' = Without(insts, at)
      /\ source' = source /\ known' = known /\ read' = read
  BY DEF DropInst
<1>2. Values' = Values /\ SomeFoldsPastTheWord' = SomeFoldsPastTheWord
  BY <1>1 DEF Values, SomeFoldsPastTheWord, FoldsPastTheWord, Folds, KnownOperand
<1>3. insts \in Seq(Insts) /\ Ordered(insts) /\ source \in Programs /\ source \in Seq(Insts) /\ source' \in Programs
  BY <1>1, SourceFacts DEF IInv, InstsOK
<1>4. PICK n \in DOMAIN insts : n = at
  BY <1>1
<1>5. insts[n].op \in ConstOps /\ insts[n].res # None /\ insts[n].res \notin read
  BY <1>4 DEF Unread
<1>6. PICK rest : rest = insts'
  OBVIOUS
<1>7. /\ rest \in Seq(Insts) /\ Len(rest) = Len(insts) - 1 /\ Ordered(rest)
      /\ \A i \in DOMAIN rest : \E j \in DOMAIN insts : j # n /\ rest[i] = insts[j]
      /\ \A j \in DOMAIN insts : j # n => \E i \in DOMAIN rest : rest[i] = insts[j]
  <2>1. rest = Without(insts, n)
    BY <1>1, <1>4, <1>6
  <2> QED
    BY <1>3, <2>1, WithoutOne
<1>8. InstsOK'
  <2>1. Len(rest) <= Len(source)
    BY <1>3, <1>7 DEF IInv, InstsOK
  <2>2. \A i \in DOMAIN rest : \E j \in DOMAIN source : Came(rest[i], source[j])
    BY <1>7 DEF IInv, InstsOK
  <2>3. {rest[i] : i \in Effects(rest)} = {insts[i] : i \in Effects(insts)}
    <3>1. insts[n].op \notin {"store", "return"}
      BY <1>5 DEF ConstOps
    <3>2. ASSUME NEW i \in Effects(rest) PROVE \E j \in Effects(insts) : rest[i] = insts[j]
      BY <1>7, <3>2 DEF Effects
    <3>3. ASSUME NEW j \in Effects(insts) PROVE \E i \in Effects(rest) : rest[i] = insts[j]
      <4>1. j \in DOMAIN insts /\ j # n /\ insts[j].op \in {"store", "return"}
        BY <3>1 DEF Effects
      <4> QED
        BY <1>7, <4>1 DEF Effects
    <3> QED
      BY <3>2, <3>3
  <2>4. {rest[i] : i \in Effects(rest)} = {source[i] : i \in Effects(source)}
    BY <2>3 DEF IInv, InstsOK
  <2>5. insts' = rest /\ source' = source
    BY <1>1, <1>6
  <2>6. insts' \in Seq(Insts) /\ Len(insts') <= Len(source') /\ Ordered(insts')
    BY <1>7, <2>1, <2>5
  <2>7. \A i \in DOMAIN insts' : \E j \in DOMAIN source' : Came(insts'[i], source'[j])
    BY <2>2, <2>5
  <2>8. {insts'[i] : i \in Effects(insts')} = {source'[i] : i \in Effects(source')}
    BY <2>4, <2>5
  <2> QED
    BY <2>6, <2>7, <2>8 DEF InstsOK
<1>9. KnownOK'
  <2>1. \A v, j : KnownBy(v, j) => KnownBy(v, j)'
    BY <1>1 DEF KnownBy
  <2> QED
    BY <1>1, <1>2, <2>1 DEF IInv, KnownOK
<1>10. Unfolded'
  BY <1>1, <1>3, <1>6, <1>7 DEF IInv, Unfolded
<1>11. Stays'
  <2>1. ReadValues(rest) \subseteq read
    <3>1. ReadValues(insts) \subseteq read
      BY <1>1 DEF IInv, Stays
    <3>2. ReadValues(rest) \subseteq ReadValues(insts)
      BY <1>7 DEF ReadValues
    <3> QED
      BY <3>1, <3>2
  <2>2. ASSUME NEW j \in DOMAIN source
        PROVE  source[j].res \in ResultsOf(rest) \/ (source[j].res # None /\ source[j].res \notin read)
    <3>1. CASE source[j].res \in ResultsOf(insts)
      <4>1. PICK i \in DOMAIN insts : source[j].res = insts[i].res
        BY <3>1 DEF ResultsOf
      <4>2. CASE i = n
        BY <1>5, <4>1, <4>2
      <4>3. CASE i # n
        BY <1>7, <4>1, <4>3 DEF ResultsOf
      <4> QED
        BY <4>2, <4>3
    <3>2. CASE source[j].res \notin ResultsOf(insts)
      BY <3>2 DEF IInv, Stays
    <3> QED
      BY <3>1, <3>2
  <2> QED
    BY <1>1, <1>6, <2>1, <2>2 DEF Stays
<1>12. Exact'
  <2>1. ASSUME NEW H, Solves(insts, H) PROVE Solves(rest, H)
    BY <1>7, <2>1 DEF Solves
  <2>2. \A arg \in Inputs : Registers(source, arg)' = Registers(source, arg)
    BY <1>1, SourceRuns
  <2>3. \A H : KnownIn(H) => KnownIn(H)'
    BY <1>1 DEF KnownIn
  <2>4. ASSUME ~SomeFoldsPastTheWord', NEW arg \in Inputs
        PROVE  Solves(insts', Registers(source, arg)') /\ KnownIn(Registers(source, arg))'
    <3>1. PICK H : H = Registers(source, arg)
      OBVIOUS
    <3>2. Solves(insts, H) /\ KnownIn(H)
      BY <1>2, <2>4, <3>1 DEF IInv, Exact
    <3>3. Solves(rest, H) /\ KnownIn(H)'
      BY <2>1, <2>3, <3>2
    <3>4. H = Registers(source, arg)'
      BY <2>2, <3>1
    <3> QED
      BY <1>6, <3>3, <3>4 DEF KnownIn
  <2> QED
    BY <2>4 DEF Exact
<1> QED
  BY <1>3, <1>8, <1>9, <1>10, <1>11, <1>12 DEF IInv

\* The steps that leave the function as it is.
LEMMA DropPasses ==
    ASSUME IInv, \/ DropInst /\ ~Unread(insts[at])
                 \/ LastDropped
                 \/ UNCHANGED vars
    PROVE  IInv'
<1>1. /\ insts' = insts /\ source' = source /\ known' = known /\ read' = read
      /\ phase' # "fold" => phase # "fold"
      /\ phase' = "fold" => phase = "fold" /\ at' = at
      /\ phase # "fold" => phase' # "fold"
      /\ phase' \in {"fold", "drop", "done"} /\ at' \in 1..(Len(insts) + 1)
  <2>1. insts \in Seq(Insts) /\ phase \in {"fold", "drop", "done"} /\ at \in 1..(Len(insts) + 1)
    BY DEF IInv, InstsOK, Unfolded
  <2>2. CASE DropInst /\ ~Unread(insts[at])
    BY <2>1, <2>2 DEF DropInst
  <2>3. CASE LastDropped
    BY <2>1, <2>3 DEF LastDropped
  <2>4. CASE UNCHANGED vars
    BY <2>1, <2>4 DEF vars
  <2> QED
    BY <2>2, <2>3, <2>4
<1>2. Values' = Values /\ SomeFoldsPastTheWord' = SomeFoldsPastTheWord
  BY <1>1 DEF Values, SomeFoldsPastTheWord, FoldsPastTheWord, Folds, KnownOperand
<1>3. source' \in Programs /\ InstsOK'
  BY <1>1 DEF IInv, InstsOK
<1>4. KnownOK'
  <2>1. \A v, j : KnownBy(v, j) => KnownBy(v, j)'
    BY <1>1 DEF KnownBy
  <2> QED
    BY <1>1, <1>2, <2>1 DEF IInv, KnownOK
<1>5. Unfolded'
  BY <1>1 DEF IInv, Unfolded
<1>6. Stays'
  BY <1>1 DEF IInv, Stays
<1>7. Exact'
  <2>1. \A arg \in Inputs : Registers(source, arg)' = Registers(source, arg)
    BY <1>1, SourceRuns
  <2> QED
    BY <1>1, <1>2, <2>1 DEF IInv, Exact, KnownIn
<1> QED
  BY <1>3, <1>4, <1>5, <1>6, <1>7 DEF IInv

-----------------------------------------------------------------------------
\* The invariant holds from the first state on.
LEMMA FoldInvariant == Spec => []IInv
<1>1. Init => IInv
  BY InitIsRight
<1>2. IInv /\ [Next]_vars => IInv'
  <2> SUFFICES ASSUME IInv, [Next]_vars PROVE IInv'
    OBVIOUS
  <2>1. CASE FoldInst
    BY <2>1, TurnPasses, TurnFolds
  <2>2. CASE LastFolded
    BY <2>2, FoldingEnds
  <2>3. CASE DropInst
    BY <2>3, DropDrops, DropPasses
  <2>4. CASE LastDropped
    BY <2>4, DropPasses
  <2>5. CASE UNCHANGED vars
    BY <2>5, DropPasses
  <2> QED
    BY <2>1, <2>2, <2>3, <2>4, <2>5 DEF Next
<1> QED
  BY <1>1, <1>2, PTL DEF Spec

\* The pass keeps its types: an instruction that was folded holds a constant of
\* an int32_t, and every other one a constant of an int64_t.
THEOREM FoldTypeCorrect == Spec => []TypeOK
<1>1. IInv => TypeOK
  BY TypesAreRight
<1> QED
  BY <1>1, FoldInvariant, PTL

\* drop_unread_constants drops nothing that an instruction still reads.
THEOREM OperandsAreKept == Spec => []OperandsStay
<1>1. IInv => OperandsStay
  BY OperandsAreThere DEF IInv
<1> QED
  BY <1>1, FoldInvariant, PTL

\* mir_fold keeps what a function stores and returns, after every turn of its
\* loops, unless it has folded a usize past what an int32_t holds.
THEOREM FoldKeepsTheFunction == Spec => []FoldIsExact
<1>1. IInv => FoldIsExact
  BY ComputesTheSame
<1> QED
  BY <1>1, FoldInvariant, PTL
=============================================================================
