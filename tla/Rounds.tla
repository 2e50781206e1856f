------------------------------- MODULE Rounds -------------------------------
(***************************************************************************)
(* A step taken again and again.                                           *)
(***************************************************************************)
EXTENDS Naturals

\* What is reached from base in n rounds of step.
Iterated(base, step, n) ==
    LET rounds[i \in Nat] == IF i = 0 THEN base ELSE step[rounds[i - 1]]
    IN rounds[n]
=============================================================================
