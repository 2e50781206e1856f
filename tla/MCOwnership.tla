---------------------------- MODULE MCOwnership ----------------------------
(***************************************************************************)
(* The program shapes the runs of Ownership range over.                    *)
(***************************************************************************)
EXTENDS Ownership, TLC

Shape(lists, results, script) == [params |-> lists, promises |-> results, script |-> script]

Repeat(forms, n) == [i \in 1..n |-> forms]

\* Moves on some paths and not on others; no slot is written a second time.
MoveForms ==
    {<<"let", "p", "make">>, <<"take", "p">>, <<"if", "plain", 0>>, <<"if", "plain", 1>>,
     <<"for", "plain", 0>>, <<"break">>, <<"continue">>}

\* Overwrites on some paths and not on others, with temporaries; no named
\* slot is moved out of.
OverwriteForms ==
    {<<"let", "p", "make">>, <<"assign", "p", "make">>, <<"fassign", "p">>, <<"peek", "p">>,
     <<"if", "temp", 0>>, <<"if", "plain", 1>>, <<"for", "none", 0>>, <<"break">>}

LoopShapes ==
    [moves |-> Shape({<<>>}, {"nothing"},
                     <<{<<"let", "p", "make">>, <<"for", "plain", 0>>}>> \o Repeat(MoveForms, 3)
                        \o <<{<<"take", "p">>, <<"break">>, <<"continue">>}>>),
     overwrites |-> Shape({<<>>}, {"nothing"}, Repeat(OverwriteForms, 4))]

\* Moves and overwrites between two slots, on one path.
StraightForms ==
    {<<"let", "q", "p">>, <<"let", "p", "make">>, <<"assign", "p", "q">>,
     <<"assign", "q", "make">>, <<"take", "p">>, <<"take", "make">>, <<"fassign", "q">>,
     <<"expr", "temp">>, <<"block">>, <<"return", "p">>, <<"return", "number">>}

\* A literal fills its slot field by field; an early return leaves a branch.
LiteralForms == {<<"lit", "p">>, <<"fassign", "p">>, <<"take", "p">>, <<"if", "plain", 1>>,
                 <<"return", "make">>, <<"return", "p">>}

ReturnShapes ==
    [straight |-> Shape({<<>>, <<"p">>}, {"owner", "number"}, Repeat(StraightForms, 5)),
     literals |-> Shape({<<>>}, {"nothing", "owner"}, Repeat(LiteralForms, 5))]

AllShapes == LoopShapes @@ ReturnShapes

-----------------------------------------------------------------------------
(***************************************************************************)
(* A program the compiler gets wrong.                                      *)
(***************************************************************************)
Program(params, result, forms) ==
    [only |-> Shape({params}, {result}, [i \in DOMAIN forms |-> {forms[i]}])]

\* let p = make(); for c { p = make(); take(p); }
LoopRefill == Program(<<>>, "nothing",
    << <<"let", "p", "make">>, <<"for", "plain", 0>>, <<"assign", "p", "make">>, <<"take", "p">> >>)
=============================================================================
