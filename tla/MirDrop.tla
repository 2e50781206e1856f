------------------------------ MODULE MirDrop ------------------------------
(***************************************************************************)
(* mir_drop_elaborate (mir/mir_drop.c): turns the drops the lowering wrote *)
(* at every scope end into the releases the emitted code performs.  Each   *)
(* pass of the C function is an operator from a body to a body; they run   *)
(* in the order Elaborate gives.                                           *)
(*                                                                         *)
(* Every slot of the modelled programs owns what it holds, so the          *)
(* mir_type_needs_drop tests of the passes are true throughout.            *)
(***************************************************************************)
EXTENDS Holding, FiniteSets, SequencesExt

\* Positions of a body and their order, blocks first to last.
Positions(body) == UNION {{<<b, j>> : j \in DOMAIN body[b]} : b \in DOMAIN body}

Precedes(p, q) == p[1] < q[1] \/ (p[1] = q[1] /\ p[2] < q[2])

InstAt(body, p) == body[p[1]][p[2]]

\* block_insert and block_remove: replace each instruction by a sequence.
Rewrite(body, F(_)) ==
    [b \in DOMAIN body |-> FlattenSeq([j \in DOMAIN body[b] |-> F(<<b, j>>)])]

-----------------------------------------------------------------------------
\* Elaboration without that loop.
KeepMovedSources(body) == body

\* The first loop of mir_drop_elaborate: a move empties the slot it read.
NullMovedSources(body) ==
    Rewrite(body, LAMBDA p :
        LET inst == InstAt(body, p)
        IN IF inst.op = "load" /\ inst.move THEN <<inst, Null(inst.base)>> ELSE <<inst>>)

(***************************************************************************)
(* release_before_overwrite.  `stored` is one array walked in block order, *)
(* so what a store overwrites is judged by the latest earlier instruction  *)
(* in the text of the body, not by the paths that reach the store.         *)
(***************************************************************************)
MarksStored(body, p, v) ==
    LET inst == InstAt(body, p)
    IN inst.base = v /\ (inst.op = "null" \/ (inst.op = "store" /\ inst.whole))

Stored(body, p) ==
    \E q \in Positions(body) :
        /\ Precedes(q, p)
        /\ MarksStored(body, q, InstAt(body, p).base)
        /\ InstAt(body, q).op = "store"
        /\ \A r \in Positions(body) :
             (Precedes(q, r) /\ Precedes(r, p)) => ~ MarksStored(body, r, InstAt(body, p).base)

\* No store releases what it overwrites.
OverwritesNothing(body) == {}

Overwrites(body) ==
    {p \in Positions(body) : /\ InstAt(body, p).op = "store"
                             /\ InstAt(body, p).whole
                             /\ Stored(body, p)}

\* Each overwriting store gets a fresh value from valueCount on.
ReleaseBeforeOverwrite(body, valueCount) ==
    LET overwrites == Overwrites(body)
        held(p) == valueCount + Cardinality({q \in overwrites : Precedes(q, p)})
    IN Rewrite(body, LAMBDA p :
          IF p \in overwrites
          THEN <<LoadCopy(held(p), InstAt(body, p).base), InstAt(body, p), Drop(held(p))>>
          ELSE <<InstAt(body, p)>>)

-----------------------------------------------------------------------------
DroppedValues(body) ==
    {InstAt(body, p).base : p \in {q \in Positions(body) : InstAt(body, q).op = "drop"}}

(***************************************************************************)
(* entry_holdings: sweep from the zeroed table until nothing changes.      *)
(* Module DropHoldings is the same loop block by block, and shows that it  *)
(* ends.                                                                   *)
(***************************************************************************)
SweepUntilStable(body, values, entries) ==
    LET from[table \in [DOMAIN body -> [values -> Holdings]]] ==
            LET next == HoldingSweep(body, values, table) IN IF next = table THEN table ELSE from[next]
    IN from[entries]

EntryHoldings(body) ==
    LET values == DroppedValues(body)
    IN SweepUntilStable(body, values, [b \in DOMAIN body |-> [v \in values |-> HoldsItsObject]])

\* What a drop finds in its slot, as far as the analysis knows.
HeldByDrop(body, entries, p) ==
    LET v == InstAt(body, p).base IN HeldAt(body[p[1]], p[2], entries[p[1]][v], v)

\* drop_releases_of_emptied_places, with note_empty_drop.
RemoveEmptyDrops(body) ==
    LET entries == EntryHoldings(body)
    IN Rewrite(body, LAMBDA p :
          IF InstAt(body, p).op = "drop" /\ HeldByDrop(body, entries, p) = HoldsNothing
          THEN <<>> ELSE <<InstAt(body, p)>>)

\* note_conditional_drop: the drops that may find their slot either way.
Conditional(body) ==
    LET entries == EntryHoldings(body)
    IN {p \in Positions(body) : /\ InstAt(body, p).op = "drop"
                                /\ HeldByDrop(body, entries, p) = HoldsEither}

\* Such a drop gets a flag; Onto rewrites the other writes of a flagged slot.
GuardWith(body, Onto(_)) ==
    LET conditional == Conditional(body)
        flagged == {InstAt(body, p).base : p \in conditional}
    IN Rewrite(body, LAMBDA p :
          LET inst == InstAt(body, p)
          IN IF p \in conditional THEN <<[inst EXCEPT !.flag = inst.base]>>
             ELSE IF inst.base \in flagged THEN Onto(inst) ELSE <<inst>>)

\* Flags that a fill does not set.
FlagsNeverSet(body) ==
    GuardWith(body, LAMBDA inst :
        IF Empties(inst, inst.base) THEN <<DropFlag(inst.base, FALSE)>> ELSE <<inst>>)

(***************************************************************************)
(* guard_conditional_drops, with note_conditional_drop and                 *)
(* write_drop_flags: a slot with a drop that may find it either way gets a *)
(* flag, written wherever the slot is filled or emptied, and the nulls of  *)
(* that slot go, since the flag now says what they said.                   *)
(***************************************************************************)
GuardConditionalDrops(body) ==
    GuardWith(body, LAMBDA inst :
        IF Empties(inst, inst.base) THEN <<DropFlag(inst.base, FALSE)>>
        ELSE IF Fills(inst, inst.base) THEN <<inst, DropFlag(inst.base, TRUE)>> ELSE <<inst>>)

Elaborate(body, valueCount) ==
    GuardConditionalDrops(
        RemoveEmptyDrops(
            ReleaseBeforeOverwrite(NullMovedSources(body), valueCount)))
=============================================================================
