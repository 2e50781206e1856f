--------------------------- MODULE MCDropHoldings ---------------------------
(***************************************************************************)
(* Every function of BlockCount blocks over one slot: each block holds at  *)
(* most one instruction that moves out of, stores into or drops the slot,  *)
(* and ends in any way the blocks allow.                                   *)
(***************************************************************************)
EXTENDS DropHoldings

CONSTANT BlockCount

MCValues == {0}

Bodies == {<<>>} \cup {<<i>> : i \in {Null(0), Store(0, 1), Drop(0)}}

Ends == {Return(None)} \cup {Jmp(b) : b \in 1..BlockCount}
            \cup {Branch(t, e) : t, e \in 1..BlockCount}

MCFunctions ==
    [1..BlockCount -> {body \o <<end>> : body \in Bodies,
                        end \in {e \in Ends : e.op # "branch" \/ e.to[1] < e.to[2]}}]
=============================================================================
