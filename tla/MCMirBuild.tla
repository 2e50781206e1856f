----------------------------- MODULE MCMirBuild -----------------------------
(***************************************************************************)
(* Modules for MirBuild: a function, two generics or functions it calls,   *)
(* and one that is imported or external.                                   *)
(***************************************************************************)
EXTENDS MirBuild

Call(to, arg, args, returned) == [to |-> to, arg |-> arg, args |-> args, returned |-> returned]

Declares(generic, body, returns, made) ==
    [generic |-> generic, body |-> body, returns |-> returns, calls |-> made]

Orders == {<<"f", "g", "h">>, <<"h", "g", "f">>, <<"g", "h", "f">>}

\* f is what it is; g and h are both generic, or neither is.
Calls(generic) ==
    LET wraps == IF generic THEN {"same", "wrap", "ground"} ELSE {"ground"}
    IN {<<>>}
       \cup {<<Call(to, arg, args, TRUE)>> :
                to \in {"g", "h", "k"}, arg \in wraps, args \in {<<0, 1, 2>>, <<2, 0, NoArg>>}}
       \cup {<<Call("h", arg, <<1, NoArg, 2>>, returned), Call("k", "ground", <<2, NoArg, 0>>, TRUE)>> :
                arg \in wraps, returned \in BOOLEAN}

MCPrograms ==
    UNION {{[bodies |-> order,
             declares |->
                [f |-> Declares(FALSE, "here", {}, <<Call("g", "ground", <<0, 1, 2>>, TRUE),
                                                     Call("h", "ground", <<NoArg, NoArg, 1>>, FALSE)>>),
                 g |-> Declares(generic, "here", {0}, made),
                 h |-> Declares(generic, "here", {2}, more),
                 k |-> Declares(kind[1], kind[2], {1}, <<>>)]] :
               order \in Orders, made \in Calls(generic), more \in Calls(generic),
               kind \in {<<TRUE, "import">>, <<FALSE, "none">>}} :
             generic \in BOOLEAN}
=============================================================================
