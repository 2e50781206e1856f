----------------------------- MODULE BorrowFlow -----------------------------
(***************************************************************************)
(* mir_borrowck (mir/mir_borrowck.c) over the states of mir/mir_state.c:   *)
(* the forward fixed point that flows, for every slot, whether it holds a  *)
(* value and which slots that value may name; the reports made from it;    *)
(* and a run of what was accepted.                                         *)
(*                                                                         *)
(* A slot has its own state and one for each field opened so far.  Fields  *)
(* of fields, arrays of references and structs that own are left out, and  *)
(* so is what lies behind a reference: a reference loaded from there is    *)
(* taken to name nothing of this function.                                 *)
(***************************************************************************)
EXTENDS MirPlaces, MirState, Rounds

CONSTANTS Kind,      \* of each value: "plain", "ref" if type_registry_borrows,
                     \* "owner" if type_registry_is_unique
          Params     \* the values that are parameters

\* tracked_depth: a path is followed through its fields, here one at most.
Tracked(inst) == inst.proj # <<>> /\ inst.proj[1].kind = "field"

\* Where a value keeps references: a struct in its fields.
Places(v) == IF Fields[v] = 0 THEN {Whole} ELSE 1..Fields[v]

CallLike == {"call", "copy", "make_slice"}

\* The arguments the result of a call, a copy or a slice may name.
Passed(inst) == IF inst.op = "call" THEN inst.names ELSE DOMAIN inst.args

(***************************************************************************)
(* What every instruction mir_lower emits is like.  Types are those of the *)
(* checked program: what is copied is of the type it is copied to, and a   *)
(* reference is followed from the value or the field that holds it.        *)
(***************************************************************************)
WellTyped(inst) ==
    /\ {inst.base, inst.res} \cup {inst.args[i] : i \in DOMAIN inst.args} \subseteq Values \cup {None}
    /\ inst.names \subseteq DOMAIN inst.args
    /\ inst.op \in {"load", "ref", "store", "drop", "storage_live", "storage_dead", "storage_init"}
         => inst.base \in Values
    /\ inst.op \notin {"load", "ref", "store"} => inst.proj = <<>>
    /\ inst.res # None => inst.res # inst.base
    /\ inst.op \in CallLike => \A i \in Passed(inst) : inst.args[i] # None => inst.args[i] < inst.res
    /\ inst.op = "store" => Len(inst.args) = 1
    /\ inst.move => Kind[inst.base] = "owner"
    /\ inst.op = "ref" => Fields[inst.res] = 0 /\ Kind[inst.res] = "ref"
    /\ Tracked(inst) => inst.proj[1].of \in 1..Fields[inst.base]
    /\ (inst.base # None /\ inst.proj # <<>> /\ Kind[inst.base] = "ref")
         => inst.proj[1].kind # "index" /\ LeadingField(inst) \in Places(inst.base)

\* What the place of a load or a store holds, and the value loaded or stored.
SameType(inst, v) ==
    v # None =>
        /\ Kind[inst.base] # "ref" => Kind[v] # "ref"
        /\ Kind[v] = "ref" => Fields[v] = IF Tracked(inst) THEN 0 ELSE Fields[inst.base]

ASSUME FlowAssumption ==
    /\ Kind \in [Values -> {"plain", "ref", "owner"}]
    /\ \A v \in Values : Kind[v] = "owner" => Fields[v] = 0
    /\ Params \subseteq Values
    /\ \A body \in Functions : \A b \in DOMAIN body : 1 \notin SuccessorSet(body[b])
    /\ \A body \in Functions : \A b \in DOMAIN body : \A j \in DOMAIN body[b] :
         LET inst == body[b][j]
         IN /\ WellTyped(inst)
            /\ (inst.op = "load" /\ ~Dereferences(inst)) => SameType(inst, inst.res)
            /\ (inst.op = "store" /\ ~Dereferences(inst)) => SameType(inst, inst.args[1])
            /\ inst.op = "storage_init" =>
                 j > 1 /\ body[b][j - 1].op = "storage_live" /\ body[b][j - 1].base = inst.base
            /\ \A c \in DOMAIN body : \A k \in DOMAIN body[c] :
                 (inst.res # None /\ body[c][k].res = inst.res) => body[c][k] = inst

Dangling == 3   \* MIR_SLOT_DANGLING

Inits == SlotInits \cup {Dangling}

VARIABLES ir,        \* the function checked
          exits,     \* the bits live at the end of each block
          reached,   \* the blocks whose entry state is not unreachable
          entries,   \* the state at the head of each block
          state,     \* flow->state, inside a block
          changed,   \* whether this sweep changed anything
          returned,  \* returned_params: what the result may name
          phase,     \* "sweep", "report", "run" or "rejected"
          block,     \* flow->block, and where the run is
          index,     \* the next instruction; 0 before a block is entered
          mem        \* what the slots hold in the run

vars == <<ir, exits, reached, entries, state, changed, returned, phase, block, index, mem>>

Blocks == 1..Len(ir)

-----------------------------------------------------------------------------
(***************************************************************************)
(* Slots and states (mir_state.c).                                         *)
(***************************************************************************)
Part(init, borrows) == [init |-> init, borrows |-> borrows]
Slot(init, borrows) == [init |-> init, borrows |-> borrows, fields |-> <<>>]

Parts == [init : Inits, borrows : SUBSET Values]
Slots == [init : Inits, borrows : SUBSET Values, fields : Seq(Parts)]

\* mir_slot_flattened.
Flattened(slot) ==
    Part(IF slot.init = Held /\ \E i \in DOMAIN slot.fields : slot.fields[i].init = Dangling
         THEN Dangling ELSE slot.init,
         slot.borrows \cup UNION {slot.fields[i].borrows : i \in DOMAIN slot.fields})

\* mir_slot_open_fields.
OpenFields(slot, count) ==
    [slot EXCEPT !.fields =
        [i \in 1..(IF count > Len(@) THEN count ELSE Len(@)) |->
            IF i <= Len(@) THEN @[i] ELSE Part(slot.init, {})]]

\* slot_merge, of a field ...
PartMerge(a, b) ==
    Part(SlotMerge(a.init, b.init),
         (IF a.init = Unreached /\ b.init # Unreached THEN {} ELSE a.borrows) \cup
         (IF b.init = Unreached /\ a.init # Unreached THEN {} ELSE b.borrows))

\* ... and of a slot: a field only one of them has opened is as the other's
\* slot is.
Merged(a, b) ==
    LET wide == IF Len(a.fields) > Len(b.fields) THEN Len(a.fields) ELSE Len(b.fields)
        left == OpenFields(a, wide).fields
        right == OpenFields(b, wide).fields
        whole == PartMerge(a, b)
    IN IF a.init = Unreached THEN b ELSE IF b.init = Unreached THEN a
       ELSE [init |-> whole.init, borrows |-> whole.borrows,
             fields |-> [i \in 1..wide |-> PartMerge(left[i], right[i])]]

\* Mutant: only what can name nothing else dangles.
InvalidIfSole(part, dropped) ==
    [part EXCEPT !.init = IF @ = Held /\ part.borrows = {dropped} THEN Dangling ELSE @]

\* slot_invalidate_borrows_of.
InvalidPart(part, dropped) ==
    [part EXCEPT !.init = IF @ = Held /\ dropped \in part.borrows THEN Dangling ELSE @]

\* mir_state_invalidate_borrows_of.
Invalidated(st, dropped) ==
    [v \in Values |->
        [InvalidPart(st[v], dropped) EXCEPT
            !.fields = [i \in DOMAIN @ |-> InvalidPart(@[i], dropped)]]]

\* mir_slot_set_all.
AllMoved(slot) ==
    [slot EXCEPT !.init = Moved, !.fields = [i \in DOMAIN @ |-> [@[i] EXCEPT !.init = Moved]]]

-----------------------------------------------------------------------------
(***************************************************************************)
(* What a place or a value may name.                                       *)
(***************************************************************************)
\* slot_of, or the root where the field was not opened.
Named(st, inst) ==
    LET root == st[inst.base]
    IN IF Tracked(inst) /\ inst.proj[1].of <= Len(root.fields)
       THEN Slot(root.fields[inst.proj[1].of].init, root.fields[inst.proj[1].of].borrows)
       ELSE root

\* collect_place_sources.
PlaceSources(st, inst) ==
    LET flat == Flattened(Named(st, inst))
    IN IF Kind[inst.base] = "owner" /\ st[inst.base].init # Moved THEN {inst.base}
       ELSE IF flat.borrows = {} /\ flat.init # Moved THEN {inst.base}
       ELSE flat.borrows

\* definition_of: the instruction that produces v, if one does.
HasDefinition(v) == \E b \in DOMAIN ir : \E j \in DOMAIN ir[b] : ir[b][j].res = v

DefinitionOf(v) ==
    LET b == CHOOSE c \in DOMAIN ir : \E j \in DOMAIN ir[c] : ir[c][j].res = v
    IN ir[b][CHOOSE j \in DOMAIN ir[b] : ir[b][j].res = v]

\* collect_sources goes back from a value that an instruction other than a
\* load or a reference produces to the operands whose sources are its own ...
GoesBack(v) ==
    IF HasDefinition(v) /\ DefinitionOf(v).op \notin {"load", "ref"}
    THEN LET inst == DefinitionOf(v)
         IN {inst.args[i] : i \in IF inst.op \in CallLike \/ Kind[v] = "ref" THEN Passed(inst) ELSE {}} \ {None}
    ELSE {}

\* ... as far as it gets; an operand comes before what is made from it ...
Origins(v) ==
    Iterated({v}, [found \in SUBSET Values |-> found \cup UNION {GoesBack(u) : u \in found}], v)

\* ... and takes what each value it gets to names now.
OwnSources(st, v) ==
    LET flat == Flattened(st[v])
    IN IF ~HasDefinition(v) THEN IF flat.borrows = {} /\ Kind[v] # "plain" THEN {v} ELSE flat.borrows
       ELSE IF DefinitionOf(v).op \in {"load", "ref"} THEN PlaceSources(st, DefinitionOf(v))
       ELSE {}

Sources(st, v) == IF v = None THEN {} ELSE UNION {OwnSources(st, u) : u \in Origins(v)}

(***************************************************************************)
(* What mir_liveness_compute settles on (MirLiveness!LivenessIsExact), and *)
(* mir_live_after.                                                         *)
(***************************************************************************)
ExitsOf(body) ==
    LET below(heads, b) == UNION {heads[t] : t \in SuccessorSet(body[b])}
        step == [heads \in [DOMAIN body -> SUBSET Bits] |->
                   [b \in DOMAIN body |-> LiveBefore(body[b], 1, below(heads, b))]]
        settled == Iterated([b \in DOMAIN body |-> {}], step, Len(body))
    IN [b \in DOMAIN body |-> below(settled, b)]

LiveAfter(b, j, v, f) == LiveBefore(ir[b], j + 1, exits[b]) \cap Touched(v, f) # {}

\* live_where_storage_ends.
LiveWhereStorageEnds(source, heldIn, f) ==
    \E b \in DOMAIN ir : \E j \in DOMAIN ir[b] :
        /\ ir[b][j].op \in {"storage_dead", "drop"}
        /\ ir[b][j].base = source
        /\ LiveAfter(b, j, heldIn, f)

\* outlives_its_source.  What an owner names is left to its drops.
OutlivesItsSource(st, borrow, heldIn, f) ==
    \E source \in Sources(st, borrow) \ Params :
        /\ Kind[source] # "owner"
        /\ heldIn = None \/ LiveWhereStorageEnds(source, heldIn, f)

-----------------------------------------------------------------------------
(***************************************************************************)
(* flow_inst: the state after an instruction, and whether it is reported.  *)
(***************************************************************************)
\* Mutant: an owner given another object leaves what names the old one.
StoredQuietly(st, inst) ==
    LET stored == Part(Held, Sources(st, inst.args[1]))
        owner == OpenFields([st[inst.base] EXCEPT !.init = Held], inst.proj[1].of)
    IN IF Tracked(inst)
       THEN [st EXCEPT ![inst.base] = [owner EXCEPT !.fields[inst.proj[1].of] = stored]]
       ELSE [st EXCEPT ![inst.base] = Slot(stored.init, stored.borrows)]

Stored(st, inst) ==
    LET stored == Part(Held, Sources(st, inst.args[1]))
        owner == OpenFields([st[inst.base] EXCEPT !.init = Held], inst.proj[1].of)
        freed == IF Kind[inst.base] = "owner" THEN Invalidated(st, inst.base) ELSE st
    IN IF Tracked(inst)
       THEN [st EXCEPT ![inst.base] = [owner EXCEPT !.fields[inst.proj[1].of] = stored]]
       ELSE [freed EXCEPT ![inst.base] = Slot(stored.init, stored.borrows)]

Loaded(st, inst) ==
    LET result == [st EXCEPT ![inst.res] = Slot(Held, PlaceSources(st, inst))]
    IN IF inst.move THEN [result EXCEPT ![inst.base] = AllMoved(@)] ELSE result

FlowInst(st, inst) ==
    IF inst.op = "storage_live" THEN [st EXCEPT ![inst.base] = Slot(Uninit, {})]
    ELSE IF inst.op = "storage_init" THEN [st EXCEPT ![inst.base].init = Held]
    ELSE IF inst.op = "storage_dead"
    THEN [Invalidated(st, inst.base) EXCEPT ![inst.base] = Slot(Uninit, {})]
    ELSE IF inst.op = "drop" THEN Invalidated(st, inst.base)
    ELSE IF inst.op = "load" THEN Loaded(st, inst)
    ELSE IF inst.op = "ref" THEN [st EXCEPT ![inst.res] = Slot(Held, PlaceSources(st, inst))]
    ELSE IF inst.op = "store" /\ ~Dereferences(inst) THEN Stored(st, inst)
    ELSE IF inst.op \in CallLike
    THEN [st EXCEPT ![inst.res] = Slot(Held, Sources(st, inst.res))]
    ELSE st

\* check_readable: nothing moved, freed or, if it is a reference, never given.
Unreadable(st, inst) ==
    LET named == Named(st, inst)
        init == IF named.init = Held THEN Flattened(named).init ELSE named.init
    IN \/ init \in {Moved, Dangling}
       \/ init = Uninit /\ Kind[inst.base] = "ref" /\ Fields[inst.base] = 0

\* The borrow stored by inst would outlive what it names, told from the state
\* after the store where the store is to a slot.
StoreOutlives(st, after, inst) ==
    LET v == inst.args[1]
    IN /\ v # None /\ Kind[v] = "ref"
       /\ IF Dereferences(inst) THEN OutlivesItsSource(st, v, None, Whole)
          ELSE OutlivesItsSource(after, v, inst.base, LeadingField(inst))

ReturnOutlives(st, inst) ==
    LET v == inst.args[1]
    IN /\ v # None /\ Kind[v] = "ref"
       /\ \/ Flattened(st[v]).init = Dangling
          \/ OutlivesItsSource(st, v, None, Whole)

Reported(st, after, inst) ==
    \/ inst.op \in {"load", "ref"} /\ Unreadable(st, inst)
    \/ inst.op = "store" /\ StoreOutlives(st, after, inst)
    \/ inst.op \in CallLike /\
       \E i \in DOMAIN inst.args : /\ inst.args[i] # None
                                   /\ Flattened(st[inst.args[i]]).init \in {Dangling, Moved}
    \/ inst.op = "return" /\ inst.args # <<>> /\ ReturnOutlives(st, inst)

\* Mutant: only a parameter returned as it is counts ...
ReturnedParamsDirect(st, inst) ==
    IF inst.op = "return" /\ inst.args # <<>> THEN {inst.args[1]} \cap Params ELSE {}

\* ... or whatever is named does.
ReturnedNames(st, inst) ==
    IF inst.op = "return" /\ inst.args # <<>> /\ inst.args[1] # None /\ Kind[inst.args[1]] = "ref"
    THEN Sources(st, inst.args[1]) ELSE {}

\* The parameters a returned value may name: returned_params.
ReturnedParams(st, inst) ==
    IF inst.op = "return" /\ inst.args # <<>> /\ inst.args[1] # None /\ Kind[inst.args[1]] = "ref"
    THEN Sources(st, inst.args[1]) \cap Params ELSE {}

-----------------------------------------------------------------------------
(***************************************************************************)
(* mir_borrowck.                                                           *)
(***************************************************************************)
NoState == [v \in Values |-> Slot(Unreached, {})]

AtEntry ==
    [v \in Values |->
        IF v \in Params THEN Slot(Held, IF Kind[v] = "ref" THEN {v} ELSE {})
        ELSE Slot(Unreached, {})]

(***************************************************************************)
(* The run keeps, for a slot, what its reference (or each of its fields)   *)
(* names and whether an owner has its object.  A target is the storage of  *)
(* a slot, the object of an owner, what the caller gave, or one of:        *)
(* Unset, never given; Gone, storage that ended or an object freed since;  *)
(* Left, an object whose owner was given another one and which nothing     *)
(* frees; and what mir_borrowck loses sight of: Given, an object that has  *)
(* changed owners since, or one already Left when the reference was        *)
(* copied, and Stale, a reference copied when it was already Gone.         *)
(***************************************************************************)
Unset == <<"unset", None>>
Gone  == <<"gone", None>>
Left  == <<"left", None>>
Given == <<"given", None>>
Stale == <<"stale", None>>
StorageOf(v) == <<"storage", v>>
ObjectOf(v) == <<"object", v>>
CallersOf(v) == <<"callers", v>>

Ended == {Gone, Left}

Targets == {Unset, Gone, Left, Given, Stale} \cup {StorageOf(v) : v \in Values}
           \cup {ObjectOf(v) : v \in Values} \cup {CallersOf(v) : v \in Values}

Filled(v, t) == [f \in Places(v) |-> t]

Init ==
    /\ ir \in Functions
    /\ exits = ExitsOf(ir)
    /\ reached = {1}
    /\ entries = [b \in Blocks |-> IF b = 1 THEN AtEntry ELSE NoState]
    /\ state = NoState
    /\ changed = FALSE
    /\ returned = {}
    /\ phase = "sweep"
    /\ block = 1
    /\ index = 0
    /\ mem = [v \in Values |-> Filled(v, IF v \in Params /\ Kind[v] = "ref" THEN CallersOf(v) ELSE Unset)]

Flowing == phase \in {"sweep", "report"} /\ block \in Blocks

\* A block no path has reached is passed over.
EnterBlock ==
    /\ Flowing
    /\ index = 0
    /\ IF block \in reached
       THEN state' = entries[block] /\ index' = 1 /\ UNCHANGED block
       ELSE block' = block + 1 /\ UNCHANGED <<state, index>>
    /\ UNCHANGED <<ir, exits, reached, entries, changed, returned, phase, mem>>

Here == ir[block][index]

\* One instruction of flow_block; what is wrong counts in the second round.
FlowStep ==
    /\ Flowing
    /\ index \in 1..Len(ir[block])
    /\ state' = FlowInst(state, Here)
    /\ returned' = returned \cup ReturnedParams(state, Here)
    /\ phase' = IF phase = "report" /\ Reported(state, state', Here) THEN "rejected" ELSE phase
    /\ index' = index + 1
    /\ UNCHANGED <<ir, exits, reached, entries, changed, block, mem>>

\* Mutant: the successors get the state as it is.
LeavingOver(t) == state

\* mir_state_merge into a successor.
Leaving(t) ==
    IF t \in reached THEN [v \in Values |-> Merged(entries[t][v], state[v])] ELSE state

LeaveBlock ==
    /\ Flowing
    /\ index = Len(ir[block]) + 1
    /\ IF phase = "sweep"
       THEN /\ entries' = [t \in Blocks |-> IF t \in SuccessorSet(ir[block]) THEN Leaving(t) ELSE entries[t]]
            /\ reached' = reached \cup SuccessorSet(ir[block])
            /\ changed' = (changed \/ entries' # entries \/ reached' # reached)
       ELSE UNCHANGED <<entries, reached, changed>>
    /\ state' = NoState
    /\ block' = block + 1
    /\ index' = 0
    /\ UNCHANGED <<ir, exits, returned, phase, mem>>

\* The end of a sweep: another, or the round that reports; and then the run.
SweepOver ==
    /\ phase \in {"sweep", "report"}
    /\ block = Len(ir) + 1
    /\ phase' = IF phase = "report" THEN "run" ELSE IF changed THEN "sweep" ELSE "report"
    /\ changed' = FALSE
    /\ block' = 1
    /\ index' = IF phase = "report" THEN 1 ELSE 0
    /\ UNCHANGED <<ir, exits, reached, entries, state, returned, mem>>

Check == EnterBlock \/ FlowStep \/ LeaveBlock \/ SweepOver

-----------------------------------------------------------------------------
(***************************************************************************)
(* The run.                                                                *)
(***************************************************************************)
\* Every reference to `from` becomes one to `to`.
Retarget(m, from, to) == [v \in Values |-> [f \in DOMAIN m[v] |-> IF m[v][f] = from THEN to ELSE m[v][f]]]

\* What a value, or a field of it, holds: only what is of a reference's type
\* holds one.
Content(m, v, f) == IF v = None THEN Unset ELSE IF Kind[v] = "ref" THEN m[v][f] ELSE Unset

\* What place_address finds where a path leaves its root.
Contents(m, inst) == Content(m, inst.base, LeadingField(inst))

RefTarget(m, inst) ==
    IF Kind[inst.base] = "owner" THEN ObjectOf(inst.base)
    ELSE IF Dereferences(inst) THEN Contents(m, inst) ELSE StorageOf(inst.base)

\* What is loaded: a field, or all of them.  What lies behind a reference is
\* not followed.
LoadedContent(m, inst) ==
    [f \in Places(inst.res) |->
        IF Dereferences(inst) \/ Kind[inst.res] # "ref" THEN Unset
        ELSE Content(m, inst.base, IF Tracked(inst) THEN LeadingField(inst) ELSE f)]

\* An object that leaves its owner is out of sight of what named it there.
LoadEffect(m, inst) ==
    LET left == IF inst.move THEN Retarget(m, ObjectOf(inst.base), Given) ELSE m
    IN IF inst.res = None THEN left ELSE [left EXCEPT ![inst.res] = LoadedContent(m, inst)]

\* What is stored, a copy of what has already ended being out of sight too.
StoredContent(m, inst, f) ==
    LET stored == Content(m, inst.args[1], f)
    IN IF stored = Gone THEN Stale ELSE IF stored = Left THEN Given ELSE stored

(***************************************************************************)
(* release_before_overwrite: whether a store to an owner is made to free   *)
(* what it overwrites.  In the order of the text, another store to all of  *)
(* it comes before, with no move out of it (a MIR_NULL) in between: what a *)
(* parameter came with is not freed by the first store.                    *)
(***************************************************************************)
Precedes(c, k, b, j) == c < b \/ (c = b /\ k < j)

Releases(b, j) ==
    \E c \in DOMAIN ir : \E k \in DOMAIN ir[c] :
        /\ Precedes(c, k, b, j)
        /\ ir[c][k].op = "store" /\ ir[c][k].proj = <<>> /\ ir[c][k].base = ir[b][j].base
        /\ ~\E d \in DOMAIN ir : \E l \in DOMAIN ir[d] :
               /\ Precedes(c, k, d, l) /\ Precedes(d, l, b, j)
               /\ ir[d][l].move /\ ir[d][l].base = ir[b][j].base

\* Storing to an owner leaves its object behind, freed or not.
StoreEffect(m, b, j) ==
    LET inst == ir[b][j]
    IN
    IF Dereferences(inst) \/ Kind[inst.base] = "plain" THEN m
    ELSE IF Kind[inst.base] = "owner"
    THEN Retarget(m, ObjectOf(inst.base), IF Releases(b, j) THEN Gone ELSE Left)
    ELSE IF Tracked(inst) THEN [m EXCEPT ![inst.base][LeadingField(inst)] = StoredContent(m, inst, Whole)]
    ELSE [m EXCEPT ![inst.base] = [f \in Places(inst.base) |-> StoredContent(m, inst, f)]]

\* A call answers with references its result may name, or with others.
Answers(m, inst) ==
    {Unset} \cup UNION {{Content(m, inst.args[i], f) : f \in Places(inst.args[i])} :
                          i \in {j \in Passed(inst) : inst.args[j] # None /\ Kind[inst.res] = "ref"}}

CallEffects(m, inst) ==
    IF inst.res = None THEN {m}
    ELSE {[m EXCEPT ![inst.res] = answer] : answer \in [Places(inst.res) -> Answers(m, inst)]}

\* What the instruction at b, j does.
Effects(m, b, j) ==
    LET inst == ir[b][j]
    IN
    IF inst.op = "storage_live" THEN {[m EXCEPT ![inst.base] = Filled(inst.base, Unset)]}
    ELSE IF inst.op = "storage_dead"
    THEN {[Retarget(m, StorageOf(inst.base), Gone) EXCEPT ![inst.base] = Filled(inst.base, Unset)]}
    ELSE IF inst.op = "drop" THEN {Retarget(m, ObjectOf(inst.base), Gone)}
    ELSE IF inst.op = "load" THEN {LoadEffect(m, inst)}
    ELSE IF inst.op = "ref" THEN {[m EXCEPT ![inst.res] = Filled(inst.res, RefTarget(m, inst))]}
    ELSE IF inst.op = "store" THEN {StoreEffect(m, b, j)}
    ELSE IF inst.op \in CallLike THEN CallEffects(m, inst)
    ELSE {m}

Running == phase = "run" /\ index \in 1..Len(ir[block])

RunInst ==
    /\ Running
    /\ ~IsTerminator(Here)
    /\ mem' \in Effects(mem, block, index)
    /\ index' = index + 1
    /\ UNCHANGED <<ir, exits, reached, entries, state, changed, returned, phase, block>>

RunEdge ==
    /\ Running
    /\ IsTerminator(Here)
    /\ \E t \in SuccessorSet(ir[block]) : block' = t
    /\ index' = 1
    /\ UNCHANGED <<ir, exits, reached, entries, state, changed, returned, phase, mem>>

\* A rejected function does not run; one that returned stays as it is.
RunOver ==
    /\ phase \in {"run", "rejected"}
    /\ Running => Here.op = "return"
    /\ UNCHANGED vars

Next == Check \/ RunInst \/ RunEdge \/ RunOver

\* The compiler keeps sweeping: nothing suspends mir_borrowck.
Spec == Init /\ [][Next]_vars /\ WF_vars(Check)

-----------------------------------------------------------------------------
\* The states flowed are over the function's values, and the run stays inside
\* the body.
TypeOK ==
    /\ exits \in [Blocks -> SUBSET Bits]
    /\ reached \in SUBSET Blocks
    /\ entries \in [Blocks -> [Values -> Slots]]
    /\ state \in [Values -> Slots]
    /\ changed \in BOOLEAN
    /\ returned \in SUBSET Params
    /\ phase \in {"sweep", "report", "run", "rejected"}
    /\ block \in 1..(Len(ir) + 1)
    /\ index \in 0..(IF block \in Blocks THEN Len(ir[block]) + 1 ELSE 0)
    /\ DOMAIN mem = Values
    /\ \A v \in Values : mem[v] \in [Places(v) -> Targets]

(***************************************************************************)
(* What an accepted function reads or calls through a reference is there:  *)
(* the slot it names has not ended, and the object it names has not been   *)
(* freed and is still its owner's, on any path; unless the object has been *)
(* moved to another owner since (Given), or the reference was copied after *)
(* it had ended (Stale, or Given where nothing freed the object).          *)
(***************************************************************************)
Follows(inst, v, f) == inst.base = v /\ Dereferences(inst) /\ f = LeadingField(inst)

Hands(inst, v) == inst.op = "call" /\ \E i \in DOMAIN inst.args : inst.args[i] = v

BorrowsAreValid ==
    Running => \A v \in Values : \A f \in Places(v) :
                   (Here.op \in {"load", "ref"} /\ Follows(Here, v, f)) \/ Hands(Here, v)
                     => mem[v][f] \notin Ended

\* Nothing freed or ended is used, whichever way the reference to it came
\* about and whether it is written through or read: "Memory safety is
\* guaranteed by the compiler checking control flow for valid borrows"
\* (README.md:6).
EveryBorrowIsValid ==
    Running => \A v \in Values : \A f \in Places(v) :
                   Follows(Here, v, f) \/ Hands(Here, v) => mem[v][f] \notin {Gone, Stale}

(***************************************************************************)
(* A reference an accepted function returns names memory of its caller,    *)
(* reached through a parameter that the summary its callers go by          *)
(* (Function.borrowed_params) has.                                         *)
(***************************************************************************)
SummaryIsSound ==
    (Running /\ Here.op = "return" /\ Here.args # <<>>) =>
        LET v == Here.args[1]
        IN (v # None /\ Kind[v] = "ref") =>
               \A f \in Places(v) :
                   mem[v][f] \in {CallersOf(q) : q \in returned} \cup {Given, Stale, Unset}

-----------------------------------------------------------------------------
(***************************************************************************)
(* Where mir_borrowck keeps sight of what is named, told from the states   *)
(* it flows in the round that reports.                                     *)
(***************************************************************************)
Reporting == phase = "report" /\ block \in Blocks

\* The references an instruction reads from slots or is given.
ReadBy(inst) ==
    {v \in Values : /\ Kind[v] = "ref"
                    /\ \/ inst.op \in {"load", "ref"} /\ inst.base = v
                       \/ inst.op \in CallLike \cup {"return"} /\ \E i \in DOMAIN inst.args : inst.args[i] = v}

\* The references it hands on.
HandedOn(inst) ==
    {v \in Values : /\ Kind[v] = "ref"
                    /\ \/ inst.op \in {"store", "return"} /\ \E i \in DOMAIN inst.args : inst.args[i] = v
                       \/ inst.op \in CallLike /\ \E i \in Passed(inst) : inst.args[i] = v}

\* Every part of a slot was given a value, and is there.
Complete(slot) ==
    /\ slot.init # Uninit
    /\ \A i \in DOMAIN slot.fields : slot.fields[i].init \notin {Uninit, Moved}

\* A slot whose fields past the ones opened name nothing that opening them
\* would forget.
OpensSafely(slot, v, count) == Len(slot.fields) < count => slot.borrows \subseteq {v} \cap Params

\* A reference to a slot itself and not to what it owns or names.
OfItsSlot(inst) == inst.op = "ref" /\ ~Dereferences(inst) /\ Kind[inst.base] # "owner"

(***************************************************************************)
(* What is read was given; the sources collected for an operand cover what *)
(* it was taken to name when it was made; a reference to a slot is taken   *)
(* to name the slot; and no field is opened that was given as part of a    *)
(* whole.                                                                  *)
(***************************************************************************)
KeepsSight(st, inst) ==
    /\ \A v \in ReadBy(inst) : Complete(st[v])
    /\ \A v \in HandedOn(inst) : Flattened(st[v]).borrows \subseteq Sources(st, v)
    /\ OfItsSlot(inst) => Kind[inst.base] = "plain" /\ inst.base \in PlaceSources(st, inst)
    /\ (inst.op = "store" /\ Tracked(inst) /\ Kind[inst.base] = "ref")
         => OpensSafely(st[inst.base], inst.base, Fields[inst.base])

BorrowsInSight ==
    Reporting =>
        /\ index \in 1..Len(ir[block]) => KeepsSight(state, Here)
        /\ index = Len(ir[block]) + 1 =>
             \A t \in SuccessorSet(ir[block]) : \A v \in Values :
                 Kind[v] = "ref" => OpensSafely(state[v], v, Len(entries[t][v].fields))

\* Sources that are reported if they are returned.
Tainted(sources) == \E s \in sources : s \notin Params \/ Kind[s] = "owner"

(***************************************************************************)
(* No reference to a parameter's own slot is made; what names an owner is  *)
(* dangling where the function returns, the owner having been dropped; and *)
(* a field of a parameter, or what it names, is taken to come from it.     *)
(***************************************************************************)
KeepsParams(st, inst) ==
    /\ OfItsSlot(inst) => inst.base \notin Params
    /\ inst.op = "return" =>
         \A v \in HandedOn(inst) :
             (\E s \in Sources(st, v) : Kind[s] = "owner") => Flattened(st[v]).init = Dangling
    /\ (inst.op \in {"load", "ref"} /\ inst.base \in Params /\ Tracked(inst) /\ Kind[inst.base] = "ref")
         => inst.base \in PlaceSources(st, inst) \/ Tainted(PlaceSources(st, inst))

ParamsInSight == (Reporting /\ index \in 1..Len(ir[block])) => KeepsParams(state, Here)

\* mir_borrowck keeps sight of what is named all through a function, be it
\* accepted or rejected: what the proofs about accepted functions ask.
NamesInSight == BorrowsInSight /\ ParamsInSight

\* The `while (changed)` loop of mir_borrowck ends for every body, and the
\* function is accepted or rejected.
BorrowckEnds == <>(phase \in {"run", "rejected"})
=============================================================================
