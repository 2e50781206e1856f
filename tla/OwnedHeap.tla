----------------------------- MODULE OwnedHeap -----------------------------
(***************************************************************************)
(* What owning a value promises, with nothing said of how it is compiled:  *)
(* an object comes to life, is released once or handed on, and a function  *)
(* that is over leaves no object behind that nobody owns.                  *)
(***************************************************************************)
EXTENDS Naturals, Sequences

VARIABLES heap,  \* the fate of each object made so far
          over   \* whether the function has returned

Init ==
    /\ heap \in Seq({"live"})
    /\ over = FALSE

Make ==
    /\ ~ over
    /\ heap' = Append(heap, "live")
    /\ UNCHANGED over

Release ==
    /\ ~ over
    /\ \E o \in DOMAIN heap : heap[o] = "live" /\ heap' = [heap EXCEPT ![o] = "freed"]
    /\ UNCHANGED over

\* Everything still alive when the function returns is what it returns.
Return ==
    /\ ~ over
    /\ \E given \in SUBSET DOMAIN heap :
         /\ \A o, p \in given : o = p
         /\ \A o \in DOMAIN heap : heap[o] = "live" <=> o \in given
         /\ heap' = [o \in DOMAIN heap |-> IF o \in given THEN "given" ELSE heap[o]]
    /\ over' = TRUE

Next == Make \/ Release \/ Return

Spec == Init /\ [][Next]_<<heap, over>>
=============================================================================
