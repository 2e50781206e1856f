---------------------------- MODULE MCInterface ----------------------------
(***************************************************************************)
(* The source texts the runs of Interface parse, as words.                 *)
(***************************************************************************)
EXTENDS Interface

Names == {"x", "y", "i", "f", "S", "T", "U", "I", "m", "n", "t"}

Word(w) ==
    IF w \in Names THEN Ident(w)
    ELSE IF w \in {"1", "2"} THEN Token("INT", w)
    ELSE IF w \in {"1.5", "2.", "1e10."} THEN Token("FLOAT", w)
    ELSE IF w \in {"C", "Z", "line break", "NUL behind Z"} THEN Token("STRING", w)
    ELSE IF w \in {"true", "false"} THEN Token("BOOL", w)
    ELSE IF w = "@b" THEN Token("BUILTIN", w)
    ELSE Mark(w)
Words(ws) == [i \in DOMAIN ws |-> Word(ws[i])]

WholeFloats == {"2."}
LargeFloats == {"1e10."}
EscapedStrings == [s \in {"line break", "NUL behind Z"} |-> IF s = "line break" THEN "" ELSE "Z"]

\* { before \o e \o after : e \in E }
Wrap(before, E, after) == {before \o e \o after : e \in E}

-----------------------------------------------------------------------------
(***************************************************************************)
(* Expressions: every shape, and every shape of every shape.               *)
(***************************************************************************)
Atoms == {<<"x">>, <<"1">>, <<"1.5">>, <<"2.">>, <<"1e10.">>, <<"Z">>, <<"line break">>,
          <<"NUL behind Z">>, <<"true">>, <<"m", "::", "f">>,
          <<"f", "<", "T", ">", "(", ")">>, <<"f", "<", "&", "&", "T", ">", "(", "x", ")">>,
          <<"S", "<", "T", ",", "2", ">", "::", "f">>, <<"@b", "<", "&&", "T", ">">>,
          <<"S", "{", "}">>, <<"S", "<", "T", ">", "{", "x", ":", "1", ",", "}">>,
          <<"*", "T", "(", "x", ")">>, <<"f", "(", "x", ",", "1", ")">>,
          <<"[", "x", ",", "1", "]">>}

Around(E) ==
    Wrap(<<"(">>, E, <<")">>) \cup Wrap(<<"*">>, E, <<>>) \cup Wrap(<<"-">>, E, <<>>)
    \cup Wrap(<<"!">>, E, <<>>) \cup Wrap(<<>>, E, <<".", "y">>)
    \cup Wrap(<<>>, E, <<"[", "1", "]">>) \cup Wrap(<<>>, E, <<"(", "y", ")">>)
    \cup Wrap(<<>>, E, <<"+", "y">>) \cup Wrap(<<"y", "*">>, E, <<>>)
    \cup Wrap(<<"y", "<">>, E, <<>>) \cup Wrap(<<>>, E, <<"&&", "y">>)
    \cup Wrap(<<"S", "{", "x", ":">>, E, <<"}">>) \cup Wrap(<<"f", "(">>, E, <<")">>)

Operators == {"||", "==", "<", ">", "-", "+", "*", "%"}

Near == Atoms \cup Around(Atoms)
Far == Around(Around(Atoms))

-----------------------------------------------------------------------------
(***************************************************************************)
(* Statements, and files of one generic function around them.              *)
(***************************************************************************)
Plain == {<<"let", "y", "=", "x", ";">>, <<"let", "y", ":", "&&", "T", ";">>,
          <<"x", "=", "1", ";">>, <<"x", ".", "y", "+=", "1", ";">>, <<"f", "(", ")", ";">>,
          <<"return", "x", ";">>, <<"break", ";">>, <<"continue", ";">>,
          <<"struct", "S", "{", "x", ":", "T", "}">>}

Clauses == {<<>>, <<"let", "i", "=", "1">>, <<"i", "=", "2">>, <<"i", "+=", "1">>,
            <<"f", "(", ")">>}

Headers == {<<"for">>, <<"for", "x">>}
           \cup {<<"for">> \o a \o <<";">> \o c \o <<";">> \o b :
                    a \in Clauses, b \in Clauses, c \in {<<>>, <<"x">>}}

Blocks(B) == Wrap(<<"{">>, B, <<"}">>)
Nested(B) ==
    Blocks(B) \cup {h \o b : h \in Headers \cup {<<"if", "x">>}, b \in Blocks(B)}
    \cup {<<"if", "x">> \o a \o <<"else">> \o b : a, b \in Blocks(B)}

InBody(B) == Wrap(<<"func", "f", "<", "T", ">", "(", "x", ":", "T", ")", "{">>, B, <<"}">>)

Bodies == InBody(
    Wrap(<<"return">>, Near \cup Far, <<";">>) \cup Wrap(<<"if">>, Near, <<"{", "}">>)
    \cup Wrap(<<"for">>, Near, <<"{", "}">>) \cup Wrap(<<"let", "y", "=">>, Near, <<";">>)
    \cup Wrap(<<"for", "x", "=">>, Near, <<";", ";", "x", "=", "S", "{", "}", "{", "}">>)
    \cup {<<"return", "x", o[1], "y", o[2], "1", o[3], "x", ";">> : o \in [1..3 -> Operators]}
    \cup Plain \cup Nested(Plain)
    \cup {a \o b : a \in Nested({<<>>}), b \in Plain} \cup {a \o b : a, b \in Plain})

-----------------------------------------------------------------------------
(***************************************************************************)
(* Declarations.                                                           *)
(***************************************************************************)
Modifiers == {<<>>, <<"extern">>, <<"extern", "C">>, <<"caller">>, <<"caller", "extern">>,
              <<"intrinsic">>, <<"extern", "intrinsic">>, <<"extern", "Z">>}
Params == {<<>>, <<"<", "T", ">">>, <<"<", "T", ":", "I", "<", "U", ">", ",", "U", ">">>,
           <<"<", "T", ",", "U", ",", "S", ">">>, <<"<", ">">>}
Endings == {<<";">>, <<"{", "}">>, <<"{", "return", "x", ";", "}">>}

Funcs == {q \o <<"func", "f">> \o p \o <<"(">> \o a \o <<")">> \o r \o e :
             q \in Modifiers, p \in Params, a \in {<<>>, <<"x", ":", "*", "T", ",">>},
             r \in {<<>>, <<":", "&&", "&", "m", "::", "T">>}, e \in Endings}
FewFuncs == {q \o <<"func", "f">> \o p \o <<"(", ")">> \o e :
                q \in {<<>>, <<"extern">>, <<"caller">>}, p \in Params, e \in Endings}

Types == Wrap(<<"struct", "S">>, Params, <<"{", "x", ":", "S", "<", "T", ",", "2", ">", "}">>)
         \cup {<<"intrinsic", "struct", "S", "{", "}">>}

Impls == {<<"impl">> \o p \o <<"S">> \o a \o <<"{">> \o f \o <<"}">> :
             p \in Params, a \in {<<>>, <<"as", "I">>, <<"as", "I", "<", "T", ",", "1", ">">>},
             f \in FewFuncs \cup {<<>>}}
Interfaces == {<<"interface", "I">> \o p \o <<"{">> \o f \o <<"}">> :
                  p \in Params, f \in FewFuncs \cup {<<>>}}

Declarations == Funcs \cup Types \cup Impls \cup Interfaces
                \cup {<<"let", "x", "=", "1", ";">>, <<";">>, <<"import", "t", ";">>}

-----------------------------------------------------------------------------
(***************************************************************************)
(* Texts with errors: any few words in a body, and any few at top level.   *)
(***************************************************************************)
Noise == {"let", "func", "extern", "caller", "impl", "interface", "struct", "if",
          "for", "import", "module", "return", "{", "}", ";", "x", "::"}
Few(n) == UNION {[1..k -> Noise] : k \in 0..n}

Broken == InBody(Few(2)) \cup Wrap(<<"func", "f", "(", ")", "{">>, Few(3), <<>>)
          \cup Few(2) \cup Wrap(<<"impl", "S", "{", "func", "f", "(", ")">>, Few(2), <<"}", "}">>)

-----------------------------------------------------------------------------
OneFile == {<<Words(<<"module", "m", ";">> \o t)>> : t \in Bodies \cup Declarations \cup Broken}

TwoFiles ==
    {<<Words(<<"module", "m", ";">> \o a \o d), Words(<<"module">> \o b \o d)>> :
        a \in {<<>>, <<"import", "n", ";">>, <<"import", "n", ";", "import", "t", ";">>},
        b \in {<<"m", ";", "import", "t", ";", "import", "n", ";">>, <<"n", ";">>,
               <<"m", "::", "n", ";">>, <<"m", ";", "import", "n", "::", "t", ";">>},
        d \in Types}

AllModules == OneFile \cup TwoFiles
=============================================================================
