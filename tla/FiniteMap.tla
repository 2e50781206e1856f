----------------------------- MODULE FiniteMap -----------------------------
(***************************************************************************)
(* What a map promises: insert adds a key that is absent and leaves one    *)
(* that is present alone, delete removes a key that is present.            *)
(***************************************************************************)
CONSTANTS Keys, Values, Absent

VARIABLES map,     \* what each key is bound to, or Absent
          answer   \* whether the last operation did something

Init ==
    /\ map = [k \in Keys |-> Absent]
    /\ answer \in BOOLEAN

Insert ==
    \E k \in Keys, v \in Values :
        /\ answer' = (map[k] = Absent)
        /\ map' = IF map[k] = Absent THEN [map EXCEPT ![k] = v] ELSE map

Delete ==
    \E k \in Keys :
        /\ answer' = (map[k] # Absent)
        /\ map' = [map EXCEPT ![k] = Absent]

Spec == Init /\ [][Insert \/ Delete]_<<map, answer>>
=============================================================================
