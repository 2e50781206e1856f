------------------------------ MODULE NatFacts ------------------------------
(***************************************************************************)
(* What the proofs need to know of natural numbers: the first of several   *)
(* steps, entries or blocks exists, which is what a loop that stops at the *)
(* first one relies on; a path through a graph with m nodes never has to   *)
(* have more than m of them; and a step taken n times does what the        *)
(* recursion that defines it says.                                         *)
(***************************************************************************)
EXTENDS Integers, FiniteSets, Rounds, FiniteSetTheorems, WellFoundedInduction, TLAPS

\* A set of natural numbers that is not empty has a least one.
LEMMA LeastOfNaturals ==
    ASSUME NEW S, S \subseteq Nat, S # {}
    PROVE  \E j \in S : \A i \in S : j <= i
<1>1. \E R : /\ \E j \in S : \A i \in S : ~ (<<i, j>> \in R)
             /\ \A i, j \in S : ~ (<<i, j>> \in R) => ~ (i < j)
  <2>1. \E j \in S : \A i \in S : ~ (<<i, j>> \in OpToRel(<, Nat))
    BY WFMin, NatLessThanWellFounded, Zenon
  <2>2. ASSUME NEW i \in S, NEW j \in S, i < j
        PROVE  <<i, j>> \in OpToRel(<, Nat)
    <3>1. <<i, j>> \in Nat \X Nat
      OBVIOUS
    <3>2. <<i, j>>[1] < <<i, j>>[2]
      BY <2>2
    <3> QED
      BY <3>1, <3>2, Zenon DEF OpToRel
  <2> QED
    BY <2>1, <2>2, Zenon
<1>2. PICK R : /\ \E j \in S : \A i \in S : ~ (<<i, j>> \in R)
               /\ \A i, j \in S : ~ (<<i, j>> \in R) => ~ (i < j)
  BY <1>1
<1>3. PICK j \in S : \A i \in S : ~ (<<i, j>> \in R)
  BY <1>2, Zenon
<1>4. \A i \in S : ~ (i < j)
  BY <1>2, <1>3, Zenon
<1> QED
  BY <1>4

-----------------------------------------------------------------------------
\* The n nodes of p follow each other along the edges E.
Chain(p, n, E) == \A i \in 1..(n - 1) : <<p[i], p[i + 1]>> \in E

\* Such a path of n of the nodes 1..m leads from a to b.
Leads(E, m, n, a, b) ==
    \E p \in [1..n -> 1..m] : p[1] = a /\ p[n] = b /\ Chain(p, n, E)

\* More than m of the numbers 1..m repeat one of them.
LEMMA TwiceTheSame ==
    ASSUME NEW k \in Nat, NEW m \in Nat, m < k, NEW q \in [1..k -> 1..m]
    PROVE  \E i, j \in 1..k : i < j /\ q[i] = q[j]
<1>1. IsFiniteSet(1..k) /\ Cardinality(1..k) = k /\ IsFiniteSet(1..m) /\ Cardinality(1..m) = m
  BY FS_Interval
<1>2. PICK S, T : S = 1..k /\ T = 1..m
  OBVIOUS
<1>3. IsFiniteSet(S) /\ IsFiniteSet(T) /\ Cardinality(T) < Cardinality(S) /\ q \in [S -> T]
  BY <1>1, <1>2
<1>4. \E x, y \in S : x # y /\ q[x] = q[y]
  BY <1>3, FS_PigeonHole
<1>5. PICK x \in 1..k, y \in 1..k : x # y /\ q[x] = q[y]
  BY <1>2, <1>4
<1> QED
  BY <1>5

\* A path that meets a node twice goes on from the second time it does.
LEMMA CutPath ==
    ASSUME NEW m \in Nat, NEW E, NEW n \in Nat \ {0}, NEW p \in [1..n -> 1..m], Chain(p, n, E),
           NEW i \in 1..n, NEW j \in 1..n, i < j, p[i] = p[j]
    PROVE  \E k \in 1..(n - 1) : Leads(E, m, k, p[1], p[n])
<1> DEFINE d == j - i
           k == n - d
           q == [x \in 1..k |-> IF x <= i THEN p[x] ELSE p[x + d]]
<1>1. d \in Nat /\ d >= 1 /\ k \in 1..(n - 1) /\ i <= k
  OBVIOUS
<1>2. q \in [1..k -> 1..m]
  <2>1. \A x \in 1..k : x \in 1..n /\ x + d \in 1..n
    BY <1>1
  <2> QED
    BY <2>1
<1>3. \A x \in 1..k : q[x] = IF x <= i THEN p[x] ELSE p[x + d]
  OBVIOUS
<1>4. n = k + d /\ j = i + d /\ 1 \in 1..k /\ k \in 1..k /\ 1 <= i
  BY <1>1
<1> HIDE DEF d, k, q
<1>5. q[1] = p[1]
  BY <1>3, <1>4
<1>6. q[k] = p[n]
  <2>1. CASE k = i
    BY <1>3, <1>4, <2>1
  <2>2. CASE k # i
    BY <1>1, <1>3, <1>4, <2>2
  <2> QED
    BY <2>1, <2>2
<1>7. Chain(q, k, E)
  <2> SUFFICES ASSUME NEW x \in 1..(k - 1) PROVE <<q[x], q[x + 1]>> \in E
    BY DEF Chain
  <2>1. /\ x \in 1..k /\ x + 1 \in 1..k /\ x \in 1..(n - 1) /\ x + d \in 1..(n - 1)
        /\ (x + d) + 1 = (x + 1) + d
    BY <1>1, <1>4
  <2>2. <<p[x], p[x + 1]>> \in E /\ <<p[x + d], p[(x + d) + 1]>> \in E
    BY <2>1 DEF Chain
  <2>3. CASE x < i
    <3>1. q[x] = p[x] /\ q[x + 1] = p[x + 1]
      BY <1>3, <2>1, <2>3
    <3> QED
      BY <2>2, <3>1
  <2>4. CASE x >= i
    <3>1. q[x] = p[x + d]
      <4>1. CASE x = i
        BY <1>3, <1>4, <2>1, <4>1
      <4>2. CASE x > i
        BY <1>3, <2>1, <4>2
      <4> QED
        BY <2>1, <2>4, <4>1, <4>2
    <3>2. q[x + 1] = p[(x + d) + 1]
      BY <1>3, <2>1, <2>4
    <3> QED
      BY <2>2, <3>1, <3>2
  <2> QED
    BY <2>1, <2>3, <2>4
<1> QED
  BY <1>1, <1>2, <1>5, <1>6, <1>7 DEF Leads

\* Between two of m nodes a path of at most m nodes leads, if any does.
LEMMA ShortPath ==
    ASSUME NEW m \in Nat, NEW E, NEW n \in Nat \ {0}, NEW a, NEW b, Leads(E, m, n, a, b)
    PROVE  \E k \in 1..m : Leads(E, m, k, a, b)
<1> DEFINE S == {k \in Nat \ {0} : Leads(E, m, k, a, b)}
<1>1. PICK k \in S : \A x \in S : k <= x
  BY LeastOfNaturals
<1>2. k \in Nat \ {0} /\ Leads(E, m, k, a, b)
  OBVIOUS
<1>3. \A x \in Nat \ {0} : Leads(E, m, x, a, b) => k <= x
  BY <1>1
<1> HIDE DEF S
<1>4. PICK q \in [1..k -> 1..m] : q[1] = a /\ q[k] = b /\ Chain(q, k, E)
  BY <1>2 DEF Leads
<1>5. ASSUME m < k PROVE FALSE
  <2>1. PICK i \in 1..k, j \in 1..k : i < j /\ q[i] = q[j]
    BY <1>2, <1>5, TwiceTheSame
  <2>2. \E x \in 1..(k - 1) : Leads(E, m, x, q[1], q[k])
    BY <1>2, <1>4, <2>1, CutPath
  <2>3. PICK x \in 1..(k - 1) : Leads(E, m, x, a, b)
    BY <1>4, <2>2
  <2>4. x \in Nat \ {0} /\ ~ (k <= x)
    BY <1>2
  <2> QED
    BY <1>3, <2>3, <2>4
<1>6. k \in 1..m
  BY <1>2, <1>5
<1> QED
  BY <1>2, <1>6

-----------------------------------------------------------------------------
(***************************************************************************)
(* Iterated is what its recursion says.  The recursion exists because its  *)
(* beginnings do, and any two of them agree where both are defined.        *)
(***************************************************************************)
Begins(f, base, step, n) ==
    f = [i \in 0..n |-> IF i = 0 THEN base ELSE step[f[i - 1]]]

\* What a beginning of the recursion says of its elements.
LEMMA BeginsValues ==
    ASSUME NEW f, NEW base, NEW step, NEW n \in Nat, Begins(f, base, step, n)
    PROVE  /\ DOMAIN f = 0..n /\ f[0] = base
           /\ \A i \in 1..n : f[i] = step[f[i - 1]]
<1>1. PICK g : g = f
  OBVIOUS
<1>2. f = [i \in 0..n |-> IF i = 0 THEN base ELSE step[g[i - 1]]]
  BY <1>1 DEF Begins
<1>3. DOMAIN f = 0..n /\ f[0] = base
  BY <1>2
<1>4. \A i \in 1..n : f[i] = step[g[i - 1]]
  BY <1>2
<1> QED
  BY <1>1, <1>3, <1>4

\* Two beginnings agree.
LEMMA BeginsAgree ==
    ASSUME NEW f, NEW g, NEW base, NEW step, NEW m \in Nat, NEW n \in Nat, m <= n,
           Begins(f, base, step, m), Begins(g, base, step, n)
    PROVE  f[m] = g[m]
<1> DEFINE S == {i \in 0..m : f[i] # g[i]}
<1>1. \A i : i \in S <=> i \in 0..m /\ f[i] # g[i]
  OBVIOUS
<1>2. S \subseteq Nat
  OBVIOUS
<1> HIDE DEF S
<1>3. ASSUME S # {} PROVE FALSE
  <2>1. PICK i \in S : \A j \in S : i <= j
    BY <1>2, <1>3, LeastOfNaturals
  <2>2. i \in 0..m /\ f[i] # g[i]
    BY <1>1
  <2>3. f[0] = base /\ g[0] = base /\ (i # 0 => f[i] = step[f[i - 1]] /\ g[i] = step[g[i - 1]])
    BY <2>2, BeginsValues
  <2>4. CASE i = 0
    BY <2>2, <2>3, <2>4
  <2>5. CASE i # 0
    <3>1. i - 1 \in 0..m /\ ~ (i <= i - 1)
      BY <2>2, <2>5
    <3>2. f[i - 1] = g[i - 1]
      BY <1>1, <2>1, <3>1
    <3> QED
      BY <2>2, <2>3, <2>5, <3>2
  <2> QED
    BY <2>4, <2>5
<1> QED
  BY <1>1, <1>3

\* Every beginning exists.
LEMMA BeginsExists ==
    ASSUME NEW base, NEW step, NEW n \in Nat
    PROVE  \E f : Begins(f, base, step, n)
<1> DEFINE S == {i \in Nat : ~ \E f : Begins(f, base, step, i)}
<1>1. \A i : i \in S <=> i \in Nat /\ ~ \E f : Begins(f, base, step, i)
  OBVIOUS
<1>2. S \subseteq Nat
  OBVIOUS
<1> HIDE DEF S
<1>3. ASSUME S # {} PROVE FALSE
  <2>1. PICK i \in S : \A j \in S : i <= j
    BY <1>2, <1>3, LeastOfNaturals
  <2>2. i \in Nat /\ ~ \E f : Begins(f, base, step, i)
    BY <1>1
  <2>3. CASE i = 0
    <3> DEFINE f == [j \in 0..0 |-> base]
    <3>1. \A j \in 0..0 : j = 0
      OBVIOUS
    <3>2. f = [j \in 0..0 |-> IF j = 0 THEN base ELSE step[f[j - 1]]]
      BY <3>1
    <3> QED
      BY <2>2, <2>3, <3>2 DEF Begins
  <2>4. CASE i # 0
    <3>1. i - 1 \in Nat /\ ~ (i <= i - 1)
      BY <2>2, <2>4
    <3>2. PICK f : Begins(f, base, step, i - 1)
      BY <1>1, <2>1, <3>1
    <3>3. /\ DOMAIN f = 0..(i - 1) /\ f[0] = base
          /\ \A j \in 1..(i - 1) : f[j] = step[f[j - 1]]
      BY <3>1, <3>2, BeginsValues
    <3> DEFINE g == [j \in 0..i |-> IF j = 0 THEN base ELSE step[f[j - 1]]]
    <3>4. \A j \in 0..(i - 1) : g[j] = f[j]
      <4> SUFFICES ASSUME NEW j \in 0..(i - 1) PROVE g[j] = f[j]
        OBVIOUS
      <4>1. j \in 0..i /\ (j # 0 => j \in 1..(i - 1))
        BY <2>2, <3>1
      <4>2. g[j] = IF j = 0 THEN base ELSE step[f[j - 1]]
        BY <4>1
      <4> HIDE DEF g
      <4> QED
        BY <3>3, <4>1, <4>2
    <3>5. \A j \in 0..i : j # 0 => j - 1 \in 0..(i - 1)
      BY <2>2
    <3>6. \A j \in 0..i : (IF j = 0 THEN base ELSE step[f[j - 1]]) = (IF j = 0 THEN base ELSE step[g[j - 1]])
      <4> HIDE DEF g
      <4> QED
        BY <3>4, <3>5
    <3>7. g = [j \in 0..i |-> IF j = 0 THEN base ELSE step[g[j - 1]]]
      <4>1. PICK h : h = g
        OBVIOUS
      <4>2. g = [j \in 0..i |-> IF j = 0 THEN base ELSE step[h[j - 1]]]
        BY <3>6, <4>1
      <4> HIDE DEF g
      <4> QED
        BY <4>1, <4>2
    <3> HIDE DEF g
    <3> QED
      BY <2>2, <3>7 DEF Begins
  <2> QED
    BY <2>3, <2>4
<1> QED
  BY <1>1, <1>3

\* Nothing in the first round but the base; each round is a step of the last.
LEMMA IteratedSteps ==
    ASSUME NEW base, NEW step
    PROVE  /\ Iterated(base, step, 0) = base
           /\ \A n \in Nat : Iterated(base, step, n + 1) = step[Iterated(base, step, n)]
<1> DEFINE Full(f) == f = [i \in Nat |-> IF i = 0 THEN base ELSE step[f[i - 1]]]
           b(n) == CHOOSE f : Begins(f, base, step, n)
           r == [n \in Nat |-> b(n)[n]]
<1>1. \A n \in Nat : Begins(b(n), base, step, n)
  BY BeginsExists
<1>2. \A n \in Nat : r[n] = b(n)[n]
  OBVIOUS
<1> HIDE DEF b
<1>3. b(0)[0] = base
  BY <1>1, BeginsValues
<1>4. ASSUME NEW n \in Nat, n # 0 PROVE b(n)[n] = step[r[n - 1]]
  <2>1. b(n)[n] = step[b(n)[n - 1]]
    BY <1>1, <1>4, BeginsValues
  <2>2. n - 1 \in Nat /\ n - 1 <= n
    BY <1>4
  <2>3. b(n)[n - 1] = b(n - 1)[n - 1]
    BY <1>1, <2>2, BeginsAgree
  <2> QED
    BY <1>2, <2>1, <2>2, <2>3
<1>5. Full(r)
  <2>1. \A n \in Nat : b(n)[n] = IF n = 0 THEN base ELSE step[r[n - 1]]
    BY <1>3, <1>4
  <2>2. PICK h : h = r
    OBVIOUS
  <2>3. r = [n \in Nat |-> IF n = 0 THEN base ELSE step[h[n - 1]]]
    BY <2>1, <2>2
  <2> HIDE DEF r
  <2> QED
    BY <2>2, <2>3
<1> DEFINE c == CHOOSE f : Full(f)
<1>6. Full(c)
  <2> HIDE DEF Full, r
  <2> QED
    BY <1>5
<1>7. \A n : Iterated(base, step, n) = c[n]
  BY DEF Iterated
<1> HIDE DEF c
<1>8. PICK h : h = c
  OBVIOUS
<1>9. c = [i \in Nat |-> IF i = 0 THEN base ELSE step[h[i - 1]]]
  BY <1>6, <1>8
<1>10. c[0] = base /\ \A n \in Nat : c[n + 1] = step[h[n]]
  BY <1>9
<1> QED
  BY <1>7, <1>8, <1>10

\* Every round stays in a set that holds the base and is closed under step.
LEMMA IteratedWithin ==
    ASSUME NEW base, NEW step, NEW D, base \in D, \A x \in D : step[x] \in D, NEW n \in Nat
    PROVE  Iterated(base, step, n) \in D
<1> DEFINE It(i) == Iterated(base, step, i)
           S == {i \in Nat : It(i) \notin D}
<1>1. It(0) = base /\ \A i \in Nat : It(i + 1) = step[It(i)]
  BY IteratedSteps
<1> HIDE DEF It
<1>2. S \subseteq Nat /\ \A i \in Nat : i \in S <=> It(i) \notin D
  OBVIOUS
<1> HIDE DEF S
<1>3. ASSUME S # {} PROVE FALSE
  <2>1. PICK i \in S : \A j \in S : i <= j
    BY <1>2, <1>3, LeastOfNaturals
  <2>2. i \in Nat /\ It(i) \notin D
    BY <1>2, <2>1
  <2>3. CASE i = 0
    BY <1>1, <2>2, <2>3
  <2>4. CASE i # 0
    <3>1. i - 1 \in Nat /\ ~ (i <= i - 1) /\ (i - 1) + 1 = i
      BY <2>2, <2>4
    <3>2. It(i - 1) \in D
      BY <1>2, <2>1, <3>1
    <3>3. It(i) = step[It(i - 1)]
      BY <1>1, <3>1
    <3> QED
      BY <2>2, <3>2, <3>3
  <2> QED
    BY <2>3, <2>4
<1>4. It(n) \in D
  BY <1>2, <1>3
<1> QED
  BY <1>4 DEF It

\* Rounds that never lose anything grow.
LEMMA IteratedGrows ==
    ASSUME NEW base, NEW step, NEW D, base \in D, \A x \in D : step[x] \in D /\ x \subseteq step[x],
           NEW m \in Nat, NEW n \in Nat, m <= n
    PROVE  Iterated(base, step, m) \subseteq Iterated(base, step, n)
<1> DEFINE It(i) == Iterated(base, step, i)
           S == {i \in Nat : ~ (It(m) \subseteq It(m + i))}
<1>1. \A i \in Nat : It(i + 1) = step[It(i)] /\ It(i) \in D
  BY IteratedSteps, IteratedWithin
<1> HIDE DEF It
<1>2. S \subseteq Nat /\ \A i \in Nat : i \in S <=> ~ (It(m) \subseteq It(m + i))
  OBVIOUS
<1> HIDE DEF S
<1>3. ASSUME S # {} PROVE FALSE
  <2>1. PICK i \in S : \A j \in S : i <= j
    BY <1>2, <1>3, LeastOfNaturals
  <2>2. i \in Nat /\ ~ (It(m) \subseteq It(m + i))
    BY <1>2, <2>1
  <2>3. CASE i = 0
    BY <2>2, <2>3
  <2>4. CASE i # 0
    <3>1. i - 1 \in Nat /\ ~ (i <= i - 1) /\ (m + (i - 1)) + 1 = m + i /\ m + (i - 1) \in Nat
      BY <2>2, <2>4
    <3>2. It(m) \subseteq It(m + (i - 1))
      BY <1>2, <2>1, <3>1
    <3>3. It(m + i) = step[It(m + (i - 1))] /\ It(m + (i - 1)) \in D
      BY <1>1, <3>1
    <3>4. It(m + (i - 1)) \subseteq It(m + i)
      BY <3>3
    <3> QED
      BY <2>2, <3>2, <3>4
  <2> QED
    BY <2>3, <2>4
<1>4. n - m \in Nat /\ m + (n - m) = n
  OBVIOUS
<1>5. It(m) \subseteq It(n)
  BY <1>2, <1>3, <1>4
<1> QED
  BY <1>5 DEF It
=============================================================================
