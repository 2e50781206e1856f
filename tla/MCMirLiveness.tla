--------------------------- MODULE MCMirLiveness ---------------------------
(***************************************************************************)
(* Small bodies for MirLiveness: s is a struct of two fields, r a plain    *)
(* value.                                                                  *)
(***************************************************************************)
EXTENDS MirLiveness

s == 1
r == 2

MCFields == <<2, 0>>

Inst(op, base, proj, res, args) ==
    [op |-> op, base |-> base, proj |-> proj, res |-> res, args |-> args,
     to |-> <<>>, move |-> FALSE, names |-> {}]

Field(f) == [kind |-> "field", of |-> f]
Deref == [kind |-> "deref", of |-> None]
Index(v) == [kind |-> "index", of |-> v]

Ends(op, targets) == [Inst(op, None, <<>>, None, <<>>) EXCEPT !.to = targets]

\* s = r; s.1 = r; *s.1 = r; s.2[r] = 0; r = s.1; r = &s.2; f(s); the end of s.
SlotStores ==
    {Inst("store", s, <<>>, None, <<r>>), Inst("store", s, <<Field(1)>>, None, <<None>>),
     Inst("store", s, <<Field(1), Deref>>, None, <<r>>),
     Inst("store", s, <<Field(2), Index(r)>>, None, <<None>>),
     Inst("load", s, <<Field(1)>>, r, <<>>), Inst("ref", s, <<Field(2)>>, r, <<>>),
     Inst("call", None, <<>>, None, <<s>>), Inst("storage_dead", s, <<>>, None, <<>>)}

Codes == {<<>>} \cup {<<i>> : i \in SlotStores}

\* An entry, a block that may loop or leave, and one that may go back.
MCEnds == <<{Ends("jmp", <<2>>), Ends("branch", <<2, 3>>)},
            {Ends("jmp", <<2>>), Ends("branch", <<1, 3>>), Ends("jmp", <<3>>)},
            {Ends("return", <<>>), Ends("jmp", <<1>>)}>>

MCBodies ==
    {body \in [1..3 -> {Append(c, e) : c \in Codes, e \in UNION {MCEnds[b] : b \in 1..3}}] :
        \A b \in 1..3 : body[b][Len(body[b])] \in MCEnds[b]}

=============================================================================
