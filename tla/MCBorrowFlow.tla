--------------------------- MODULE MCBorrowFlow ---------------------------
(***************************************************************************)
(* Functions for BorrowFlow, as mir_lower writes them: a prologue, a scope *)
(* that may not be entered or may be entered again, and an end.            *)
(*                                                                         *)
(* q, r (references), w (a struct of two) and o (an owner) are parameters, *)
(* but o is a variable in StaleCopies; y (a number) and p (a reference)    *)
(* are variables of the function and x (a number) of the inner scope.      *)
(* Each statement has two results of its own.                              *)
(***************************************************************************)
EXTENDS BorrowFlow

q == 1
r == 2
w == 3
o == 4
x == 5
y == 6
p == 7
Result(n) == 7 + n

MCValues == 1..13
MCKind == [v \in MCValues |->
             IF v \in {q, r, w, p, 8, 10, 12} THEN "ref" ELSE IF v \in {x, y} THEN "plain" ELSE "owner"]
MCFields == [v \in MCValues |-> IF v = w THEN 2 ELSE 0]
MCParams == {q, r, w, o}

Inst(op, base, proj, res, args) ==
    [op |-> op, base |-> base, proj |-> proj, res |-> res, args |-> args,
     to |-> <<>>, move |-> FALSE, names |-> {}]

Field(f) == [kind |-> "field", of |-> f]
Deref == [kind |-> "deref", of |-> None]
Ends(op, targets) == [Inst(op, None, <<>>, None, <<>>) EXCEPT !.to = targets]

Live(v) == Inst("storage_live", v, <<>>, None, <<>>)
Dead(v) == Inst("storage_dead", v, <<>>, None, <<>>)
Set(v, a) == Inst("store", v, <<>>, None, <<a>>)
SetField(v, f, a) == Inst("store", v, <<Field(f)>>, None, <<a>>)

\* The results of statement n: a reference and an owner.
RefAt(n) == Result(2 * n - 1)
OwnerAt(n) == Result(2 * n)

\* p = x; p = w.f; and so on, as statement n.
Borrow(n, to, v) == <<Inst("ref", v, <<>>, RefAt(n), <<>>), Set(to, RefAt(n))>>
BorrowField(n, f, v) == <<Inst("ref", v, <<>>, RefAt(n), <<>>), SetField(w, f, RefAt(n))>>
FromField(n, to, f) == <<Inst("load", w, <<Field(f)>>, RefAt(n), <<>>), Set(to, RefAt(n))>>
Pick(n, to, a, b, names) ==
    <<[Inst("call", None, <<>>, RefAt(n), <<a, b>>) EXCEPT !.names = names], Set(to, RefAt(n))>>
Slice(n, to, v) ==
    <<[Inst("make_slice", None, <<>>, RefAt(n), <<v>>) EXCEPT !.names = {1}], Set(to, RefAt(n))>>
Read(v) == <<Inst("load", v, <<Deref>>, None, <<>>)>>
ReadField(f) == <<Inst("load", w, <<Field(f), Deref>>, None, <<>>)>>
Remake(n) == <<Inst("call", None, <<>>, OwnerAt(n), <<>>), Set(o, OwnerAt(n))>>
GiveAway(n) == <<[Inst("load", o, <<>>, OwnerAt(n), <<>>) EXCEPT !.move = TRUE],
                 Inst("call", None, <<>>, RefAt(n), <<OwnerAt(n)>>)>>

Prologue == <<Live(y), Set(y, None), Live(p)>>

First == {<<Set(p, q)>>, Borrow(1, p, o)}

Inner(n) == {Borrow(n, p, x), Borrow(n, r, y), <<Set(p, r)>>, <<Set(r, p)>>, BorrowField(n, 1, x),
             BorrowField(n, 2, o), FromField(n, p, 1), FromField(n, r, 2),
             Pick(n, r, q, p, {2}), Pick(n, r, q, p, {1}), Slice(n, r, p), Read(p), Remake(n), GiveAway(n)}

\* What is read at the end, and what is returned.
Last == {<<Read(p), None>>, <<Read(r), None>>, <<ReadField(1), None>>, <<ReadField(2), None>>,
         <<<<>>, p>>, <<<<>>, r>>}

\* A scope that may be skipped, or repeats.
Shapes == {<<Ends("branch", <<2, 3>>), Ends("jmp", <<3>>)>>,
           <<Ends("jmp", <<2>>), Ends("branch", <<2, 3>>)>>}

Body(a, b, c, last, shape) ==
    <<Append(Prologue \o a, shape[1]),
      Append(<<Live(x), Set(x, None)>> \o b \o c \o <<Dead(x)>>, shape[2]),
      last[1] \o <<Inst("drop", o, <<>>, None, <<>>), [Ends("return", <<>>) EXCEPT !.args = <<last[2]>>]>>>>

\* The first store to o leaves what it came with; the next frees what that
\* store gave it.
Refilled == Remake(1) \o Borrow(1, p, o)

MCBodies ==
    {Body(a, b, c, last, shape) :
        a \in First, b \in Inner(2), c \in Inner(3), last \in Last, shape \in Shapes}
    \cup {Body(Refilled, pair[1], pair[2], last, shape) :
            pair \in {Remake(2)} \X Inner(3) \cup Inner(2) \X {Remake(3)},
            last \in Last, shape \in Shapes}

\* `let o = make(); p = o; o = make(); r = p; *r`, and the same with the object
\* read through p.
LocalOwner == {q, r, w}

StaleCopies ==
    {Body(<<Live(o)>> \o Refilled, Remake(2), <<Set(r, p)>>, last, shape) :
        last \in {<<Read(p), None>>, <<Read(r), None>>}, shape \in Shapes}
=============================================================================
