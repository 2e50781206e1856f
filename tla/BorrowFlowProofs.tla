-------------------------- MODULE BorrowFlowProofs --------------------------
(***************************************************************************)
(* What mir_borrowck accepts and sums up is right, for every body, as long *)
(* as it keeps sight of what is named (BorrowsInSight, ParamsInSight).     *)
(*                                                                         *)
(* The invariant is Sound.  It carries the two properties the fixed point  *)
(* is computed for from the sweeps into the run: the state at the head of  *)
(* each reached block has taken in what every block before it ends with    *)
(* (Settled), and no instruction of a reached block was reported from the  *)
(* state flowed to it (Cleared).  Neither the states inside a block nor    *)
(* the round that reported them is kept by the program, so the invariant   *)
(* says of each block that a sequence of states sts with these properties  *)
(* exists; it is the one FlowInst gives from the block's entry.  While the *)
(* run goes on, the state that belongs to its instruction tells the truth  *)
(* of the memory (Tells): a reference whose target ended is marked, one    *)
(* that names a slot, an object or what a caller gave has it among its     *)
(* borrows.                                                                *)
(*                                                                         *)
(* The work is in FlowTells (an instruction that is not reported keeps     *)
(* Tells from its state to the next, whatever the effect) and MergeTells   *)
(* (so does an edge: a settled entry knows at least what flows into it).   *)
(***************************************************************************)
EXTENDS BorrowFlow, NatFacts, TLAPS

-----------------------------------------------------------------------------
(***************************************************************************)
(* What is known of a reference the run holds.                             *)
(***************************************************************************)
\* The part of a slot that speaks for a field: its own if it was opened.
PartOf(slot, f) == IF f \in DOMAIN slot.fields THEN slot.fields[f] ELSE Part(slot.init, slot.borrows)

\* The inits a read is turned down for, or is assumed not to meet.
Lost == {Uninit, Moved, Dangling}

\* A reference whose target ended is marked, one that names a slot or an object has
\* it among its borrows.
InSight(slot, f, target) ==
    /\ target \in Ended => /\ PartOf(slot, f).init \in Lost
                           /\ \E u \in PartOf(slot, f).borrows : Kind[u] # "ref"
    /\ \A u \in Values : target \in {StorageOf(u), ObjectOf(u)} =>
                           u \in PartOf(slot, f).borrows /\ PartOf(slot, f).init # Unreached

\* What came from a caller is known to have, or what is known would be
\* reported; a parameter's own field may be known by its slot.
ParamInSight(slot, v, f, target) ==
    /\ target \in Ended => Tainted(PartOf(slot, f).borrows)
    /\ \A u \in Values : target = StorageOf(u) => u \notin Params
    /\ \A q \in Values : target = CallersOf(q) =>
          /\ PartOf(slot, f).init # Unreached
          /\ \/ q \in PartOf(slot, f).borrows
             \/ Tainted(PartOf(slot, f).borrows)
             \/ f \in DOMAIN slot.fields /\ q = v /\ v \in slot.borrows

\* What the run's memory can hold.
MayHold(v, target) ==
    /\ Kind[v] # "ref" => target = Unset
    /\ \A u \in Values : /\ target = StorageOf(u) => Kind[u] = "plain"
                         /\ target = ObjectOf(u) => Kind[u] = "owner"
                         /\ target = CallersOf(u) => u \in Params

MemTyped(m) == DOMAIN m = Values /\ \A v \in Values : m[v] \in [Places(v) -> Targets]

MemOK(m) == MemTyped(m) /\ \A v \in Values : \A f \in Places(v) : MayHold(v, m[v][f])

\* Slots no path has reached have no fields.
Known == {st \in [Values -> Slots] : \A v \in Values : st[v].init = Unreached => st[v].fields = <<>>}
-----------------------------------------------------------------------------
(***************************************************************************)
(* Slots.                                                                  *)
(***************************************************************************)
\* A slot by its parts.
LEMMA SlotFacts ==
    ASSUME NEW slot \in Slots
    PROVE  /\ slot.init \in Inits /\ slot.borrows \subseteq Values
           /\ slot.fields \in Seq(Parts) /\ Len(slot.fields) \in Nat
           /\ DOMAIN slot.fields = 1..Len(slot.fields)
           /\ \A i \in DOMAIN slot.fields :
                /\ slot.fields[i] \in Parts
                /\ slot.fields[i].init \in Inits /\ slot.fields[i].borrows \subseteq Values
<1>1. slot.init \in Inits /\ slot.borrows \subseteq Values /\ slot.fields \in Seq(Parts)
  BY DEF Slots
<1>2. \A p \in Parts : p.init \in Inits /\ p.borrows \subseteq Values
  BY DEF Parts
<1>3. /\ Len(slot.fields) \in Nat /\ DOMAIN slot.fields = 1..Len(slot.fields)
      /\ \A i \in DOMAIN slot.fields : slot.fields[i] \in Parts
  BY <1>1
<1> QED
  BY <1>1, <1>2, <1>3

\* A function over 1..n with parts for values is a sequence of them.
LEMMA FieldsAre ==
    ASSUME NEW n \in Nat, NEW s, s \in [1..n -> Parts]
    PROVE  s \in Seq(Parts) /\ Len(s) = n /\ DOMAIN s = 1..n
OBVIOUS

\* A slot made of typed parts is one.
LEMMA SlotMade ==
    ASSUME NEW i \in Inits, NEW b \in SUBSET Values
    PROVE  Slot(i, b) \in Slots /\ Part(i, b) \in Parts
BY DEF Slot, Part, Slots, Parts

\* The part that speaks for a field is one.
LEMMA PartOfType ==
    ASSUME NEW slot \in Slots, NEW f
    PROVE  PartOf(slot, f) \in Parts
BY SlotFacts, SlotMade DEF PartOf

\* mir_slot_flattened collects what the slot and its fields name.
LEMMA FlattenedFacts ==
    ASSUME NEW slot \in Slots
    PROVE  /\ Flattened(slot) \in Parts
           /\ slot.borrows \subseteq Flattened(slot).borrows
           /\ \A i \in DOMAIN slot.fields : slot.fields[i].borrows \subseteq Flattened(slot).borrows
           /\ \A f : PartOf(slot, f).borrows \subseteq Flattened(slot).borrows
           /\ slot.init # Held => Flattened(slot).init = slot.init
           /\ (slot.init = Held /\ \E i \in DOMAIN slot.fields : slot.fields[i].init = Dangling)
                => Flattened(slot).init = Dangling
<1>1. Flattened(slot).borrows = slot.borrows \cup UNION {slot.fields[i].borrows : i \in DOMAIN slot.fields}
  BY DEF Flattened, Part
<1>2. Flattened(slot).init = IF slot.init = Held /\ \E i \in DOMAIN slot.fields : slot.fields[i].init = Dangling
                             THEN Dangling ELSE slot.init
  BY DEF Flattened, Part
<1>3. Flattened(slot) \in Parts
  <2>1. Flattened(slot).borrows \subseteq Values
    BY <1>1, SlotFacts
  <2>2. Flattened(slot).init \in Inits
    BY <1>2, SlotFacts DEF Inits
  <2> QED
    BY <2>1, <2>2 DEF Flattened, Part, Parts
<1>4. \A i \in DOMAIN slot.fields : slot.fields[i].borrows \subseteq Flattened(slot).borrows
  BY <1>1
<1>5. \A f : PartOf(slot, f).borrows \subseteq Flattened(slot).borrows
  BY <1>1, <1>4 DEF PartOf, Part
<1> QED
  BY <1>1, <1>2, <1>3, <1>4, <1>5

\* mir_slot_open_fields: what is opened is as the slot is and names nothing.
LEMMA OpenFieldsFacts ==
    ASSUME NEW slot \in Slots, NEW count \in Nat
    PROVE  LET opened == OpenFields(slot, count)
               wide == IF count > Len(slot.fields) THEN count ELSE Len(slot.fields)
           IN /\ opened \in Slots /\ opened.init = slot.init /\ opened.borrows = slot.borrows
              /\ Len(opened.fields) = wide /\ DOMAIN opened.fields = 1..wide
              /\ \A i \in 1..wide : opened.fields[i] =
                   IF i \in DOMAIN slot.fields THEN slot.fields[i] ELSE Part(slot.init, {})
<1> DEFINE wide == IF count > Len(slot.fields) THEN count ELSE Len(slot.fields)
           fields == [i \in 1..wide |->
                        IF i <= Len(slot.fields) THEN slot.fields[i] ELSE Part(slot.init, {})]
<1>1. wide \in Nat /\ Len(slot.fields) \in Nat /\ DOMAIN slot.fields = 1..Len(slot.fields)
  BY SlotFacts
<1>2. fields \in [1..wide -> Parts]
  BY <1>1, SlotFacts, SlotMade
<1>3. fields \in Seq(Parts) /\ Len(fields) = wide /\ DOMAIN fields = 1..wide
  BY <1>1, <1>2, FieldsAre
<1>4. OpenFields(slot, count) = [slot EXCEPT !.fields = fields]
  BY DEF OpenFields
<1>5. OpenFields(slot, count) \in Slots /\ OpenFields(slot, count).fields = fields
  BY <1>3, <1>4 DEF Slots
<1>6. OpenFields(slot, count).init = slot.init /\ OpenFields(slot, count).borrows = slot.borrows
  BY <1>4 DEF Slots
<1>7. \A i \in 1..wide : fields[i] = IF i \in DOMAIN slot.fields THEN slot.fields[i] ELSE Part(slot.init, {})
  BY <1>1
<1> QED
  BY <1>3, <1>5, <1>6, <1>7

-----------------------------------------------------------------------------
(***************************************************************************)
(* slot_merge.                                                             *)
(***************************************************************************)
\* The merge of two inits is the worse one of those reached.
LEMMA SlotMergeFacts ==
    ASSUME NEW a \in Inits, NEW b \in Inits
    PROVE  /\ SlotMerge(a, b) \in Inits
           /\ b # Unreached => SlotMerge(a, b) # Unreached
           /\ b \in Lost => SlotMerge(a, b) \in Lost
BY DEF SlotMerge, Inits, SlotInits, Lost, Unreached, Uninit, Moved, Held, Dangling

\* The merge of two parts keeps what a part that was reached names.
LEMMA PartMergeFacts ==
    ASSUME NEW a \in Parts, NEW b \in Parts
    PROVE  /\ PartMerge(a, b) \in Parts
           /\ PartMerge(a, b).init = SlotMerge(a.init, b.init)
           /\ b.init # Unreached => b.borrows \subseteq PartMerge(a, b).borrows
<1>1. /\ a.init \in Inits /\ a.borrows \subseteq Values
      /\ b.init \in Inits /\ b.borrows \subseteq Values
  BY DEF Parts
<1>2. SlotMerge(a.init, b.init) \in Inits
  BY <1>1, SlotMergeFacts
<1>3. PartMerge(a, b).init = SlotMerge(a.init, b.init)
  BY DEF PartMerge, Part
<1>4. PartMerge(a, b).borrows = (IF a.init = Unreached /\ b.init # Unreached THEN {} ELSE a.borrows) \cup
                                (IF b.init = Unreached /\ a.init # Unreached THEN {} ELSE b.borrows)
  BY DEF PartMerge, Part
<1>5. PartMerge(a, b).borrows \subseteq Values
  BY <1>1, <1>4
<1>6. PartMerge(a, b) \in Parts
  BY <1>2, <1>3, <1>5 DEF PartMerge, Part, Parts
<1> QED
  BY <1>3, <1>4, <1>6

\* The merge of two slots: all that the second one holds is still known, but
\* for what it names as a whole where the first has opened the fields.
LEMMA MergedFacts ==
    ASSUME NEW a \in Slots, NEW b \in Slots,
           a.init = Unreached => a.fields = <<>>, b.init = Unreached => b.fields = <<>>
    PROVE  /\ Merged(a, b) \in Slots
           /\ Merged(a, b).init = Unreached => Merged(a, b).fields = <<>>
           /\ b.init # Unreached => /\ DOMAIN b.fields \subseteq DOMAIN Merged(a, b).fields
                                    /\ DOMAIN a.fields \subseteq DOMAIN Merged(a, b).fields
                                    /\ b.borrows \subseteq Merged(a, b).borrows
                                    /\ Merged(a, b).init = SlotMerge(a.init, b.init)
           /\ b.init # Unreached => \A f :
                LET part == PartOf(b, f)
                    known == IF f \in 1..Len(a.fields) /\ f \notin DOMAIN b.fields THEN {} ELSE part.borrows
                IN /\ part.init \in Lost => PartOf(Merged(a, b), f).init \in Lost
                   /\ part.init # Unreached => /\ PartOf(Merged(a, b), f).init # Unreached
                                               /\ known \subseteq PartOf(Merged(a, b), f).borrows
<1>1. /\ a.init \in Inits /\ b.init \in Inits /\ a.borrows \subseteq Values /\ b.borrows \subseteq Values
      /\ Len(a.fields) \in Nat /\ Len(b.fields) \in Nat
      /\ DOMAIN a.fields = 1..Len(a.fields) /\ DOMAIN b.fields = 1..Len(b.fields)
  BY SlotFacts
<1>2. CASE a.init = Unreached
  <2>1. Merged(a, b) = b
    BY <1>2 DEF Merged
  <2>2. b.init # Unreached => SlotMerge(a.init, b.init) = b.init
    BY <1>2 DEF SlotMerge
  <2>3. \A f : LET part == PartOf(b, f)
                   known == IF f \in 1..Len(a.fields) /\ f \notin DOMAIN b.fields THEN {} ELSE part.borrows
               IN known \subseteq PartOf(b, f).borrows
    OBVIOUS
  <2>4. DOMAIN a.fields = {}
    BY <1>1, <1>2
  <2> QED
    BY <2>1, <2>2, <2>3, <2>4
<1>3. CASE a.init # Unreached /\ b.init = Unreached
  <2>1. Merged(a, b) = a
    BY <1>3 DEF Merged
  <2> QED
    BY <2>1, <1>3
<1>4. CASE a.init # Unreached /\ b.init # Unreached
  <2> DEFINE wide == IF Len(a.fields) > Len(b.fields) THEN Len(a.fields) ELSE Len(b.fields)
             left == OpenFields(a, wide).fields
             right == OpenFields(b, wide).fields
             whole == PartMerge(a, b)
             fields == [i \in 1..wide |-> PartMerge(left[i], right[i])]
             merged == Merged(a, b)
  <2>1. wide \in Nat
    BY <1>1
  <2>2. \A i \in 1..wide : left[i] \in Parts /\ right[i] \in Parts
    <3>1. OpenFields(a, wide) \in Slots /\ DOMAIN left = 1..wide
      BY <1>1, <2>1, OpenFieldsFacts
    <3>2. OpenFields(b, wide) \in Slots /\ DOMAIN right = 1..wide
      BY <1>1, <2>1, OpenFieldsFacts
    <3> QED
      BY <3>1, <3>2, SlotFacts
  <2>3. \A i \in 1..wide : right[i] = IF i \in DOMAIN b.fields THEN b.fields[i] ELSE Part(b.init, {})
    BY <1>1, <2>1, OpenFieldsFacts
  <2>4. fields \in [1..wide -> Parts] /\ \A i \in 1..wide : fields[i] = PartMerge(left[i], right[i])
    BY <2>2, PartMergeFacts
  <2>5. fields \in Seq(Parts) /\ DOMAIN fields = 1..wide
    BY <2>1, <2>4, FieldsAre
  <2>6. merged = [init |-> whole.init, borrows |-> whole.borrows, fields |-> fields]
    BY <1>4 DEF Merged
  <2>7. /\ whole.init = SlotMerge(a.init, b.init) /\ whole.init \in Inits /\ whole.init # Unreached
        /\ b.init \in Lost => whole.init \in Lost
        /\ whole.borrows \subseteq Values /\ b.borrows \subseteq whole.borrows
    <3>1. whole.init = SlotMerge(a.init, b.init)
      BY DEF PartMerge, Part
    <3>2. whole.borrows = a.borrows \cup b.borrows
      BY <1>4 DEF PartMerge, Part
    <3> QED
      BY <1>1, <1>4, <3>1, <3>2, SlotMergeFacts
  <2>8. merged \in Slots
    BY <2>5, <2>6, <2>7 DEF Slots
  <2>9. DOMAIN b.fields \subseteq DOMAIN merged.fields /\ DOMAIN a.fields \subseteq DOMAIN merged.fields
    BY <1>1, <2>5, <2>6
  <2>10. ASSUME NEW f
         PROVE  LET part == PartOf(b, f)
                    known == IF f \in 1..Len(a.fields) /\ f \notin DOMAIN b.fields THEN {} ELSE part.borrows
                IN /\ part.init \in Lost => PartOf(merged, f).init \in Lost
                   /\ part.init # Unreached => /\ PartOf(merged, f).init # Unreached
                                               /\ known \subseteq PartOf(merged, f).borrows
    <3>1. CASE f \in DOMAIN b.fields
      <4>1. f \in 1..wide /\ PartOf(b, f) = b.fields[f] /\ right[f] = b.fields[f]
        BY <1>1, <2>3, <3>1 DEF PartOf
      <4>2. PartOf(merged, f) = PartMerge(left[f], right[f])
        BY <4>1, <2>4, <2>5, <2>6 DEF PartOf
      <4>3. left[f] \in Parts /\ right[f] \in Parts /\ left[f].init \in Inits /\ right[f].init \in Inits
        BY <4>1, <2>2 DEF Parts
      <4> QED
        BY <3>1, <4>1, <4>2, <4>3, PartMergeFacts, SlotMergeFacts
    <3>2. CASE f \notin DOMAIN b.fields /\ f \in 1..wide
      <4>1. PartOf(b, f).init = b.init /\ right[f] = Part(b.init, {}) /\ f \in 1..Len(a.fields)
        BY <1>1, <2>3, <3>2 DEF PartOf, Part
      <4>2. PartOf(merged, f) = PartMerge(left[f], right[f])
        BY <3>2, <2>4, <2>5, <2>6 DEF PartOf
      <4>3. left[f] \in Parts /\ right[f] \in Parts /\ left[f].init \in Inits /\ right[f].init = b.init
        BY <4>1, <3>2, <2>2 DEF Parts, Part
      <4> QED
        BY <1>1, <3>2, <4>1, <4>2, <4>3, PartMergeFacts, SlotMergeFacts
    <3>3. CASE f \notin DOMAIN b.fields /\ f \notin 1..wide
      <4>1. PartOf(b, f) = Part(b.init, b.borrows) /\ PartOf(merged, f) = Part(whole.init, whole.borrows)
        BY <3>3, <2>5, <2>6 DEF PartOf
      <4>2. f \notin 1..Len(a.fields)
        BY <1>1, <3>3
      <4> QED
        BY <4>1, <4>2, <2>7 DEF Part
    <3> QED
      BY <3>1, <3>2, <3>3
  <2>11. merged.init = whole.init /\ merged.borrows = whole.borrows
    BY <2>6
  <2> HIDE DEF wide, left, right, whole, fields
  <2> QED
    BY <1>4, <2>7, <2>8, <2>9, <2>10, <2>11, Zenon
<1> QED
  BY <1>2, <1>3, <1>4

-----------------------------------------------------------------------------
(***************************************************************************)
(* What a place or a value may name.                                       *)
(***************************************************************************)
\* The place an instruction reads is one of its base's.
Placed(inst) ==
    /\ inst.base \in Values
    /\ Tracked(inst) => inst.proj[1].of \in 1..Fields[inst.base]

\* collect_place_sources finds what the parts read name, and check_readable
\* that none of them is lost.
LEMMA PlaceFacts ==
    ASSUME NEW st \in Known, NEW inst, Placed(inst)
    PROVE  /\ PlaceSources(st, inst) \subseteq Values
           /\ \A f : (Tracked(inst) => f = LeadingField(inst)) =>
                /\ Kind[inst.base] # "owner" =>
                     PartOf(st[inst.base], f).borrows \subseteq PlaceSources(st, inst)
                /\ (~Unreadable(st, inst) /\ Complete(st[inst.base])) =>
                     PartOf(st[inst.base], f).init \notin Lost
<1> DEFINE root == st[inst.base]
           at == inst.proj[1].of
           named == Named(st, inst)
           flat == Flattened(named)
<1>1. root \in Slots /\ inst.base \in Values /\ (root.init = Unreached => root.fields = <<>>)
  BY DEF Known, Placed
<1>2. /\ root.init \in Inits /\ root.borrows \subseteq Values /\ Len(root.fields) \in Nat
      /\ DOMAIN root.fields = 1..Len(root.fields)
      /\ \A i \in DOMAIN root.fields : root.fields[i].init \in Inits /\ root.fields[i].borrows \subseteq Values
  BY <1>1, SlotFacts
<1>3. Tracked(inst) => at \in Nat /\ at >= 1 /\ LeadingField(inst) = at
  BY LivenessAssumption DEF Placed, Tracked, LeadingField, Values
<1>4. PlaceSources(st, inst) =
        IF Kind[inst.base] = "owner" /\ root.init # Moved THEN {inst.base}
        ELSE IF flat.borrows = {} /\ flat.init # Moved THEN {inst.base} ELSE flat.borrows
  BY DEF PlaceSources
<1>5. CASE Tracked(inst) /\ at \in DOMAIN root.fields
  <2>1. named = Slot(root.fields[at].init, root.fields[at].borrows)
    BY <1>2, <1>3, <1>5 DEF Named
  <2>2. /\ named.init = root.fields[at].init /\ named.borrows = root.fields[at].borrows
        /\ named.fields = <<>> /\ named \in Slots
    BY <1>2, <1>5, <2>1, SlotMade DEF Slot
  <2>3. flat \in Parts /\ named.borrows \subseteq flat.borrows
    BY <2>2, FlattenedFacts
  <2>4. PlaceSources(st, inst) \subseteq Values
    BY <1>1, <1>4, <2>3 DEF Parts
  <2>5. PartOf(root, at) = root.fields[at]
    BY <1>5 DEF PartOf
  <2>6. Kind[inst.base] # "owner" => PartOf(root, at).borrows \subseteq PlaceSources(st, inst)
    BY <1>4, <2>2, <2>3, <2>5
  <2>7. (~Unreadable(st, inst) /\ Complete(root)) => root.fields[at].init \notin Lost
    <3>1. Named(st, inst).init = Dangling => Unreadable(st, inst)
      BY DEF Unreadable, Held, Dangling
    <3>2. Complete(root) => root.fields[at].init \notin {Uninit, Moved}
      BY <1>5 DEF Complete
    <3> QED
      BY <2>2, <3>1, <3>2 DEF Lost
  <2> QED
    BY <1>3, <1>5, <2>4, <2>5, <2>6, <2>7
<1>6. CASE ~(Tracked(inst) /\ at \in DOMAIN root.fields)
  <2>1. named = root
    BY <1>2, <1>3, <1>6 DEF Named
  <2>2. /\ flat \in Parts /\ \A f : PartOf(root, f).borrows \subseteq flat.borrows
        /\ (root.init = Held /\ \E i \in DOMAIN root.fields : root.fields[i].init = Dangling)
             => flat.init = Dangling
    <3>1. \A slot \in Slots :
            /\ Flattened(slot) \in Parts /\ \A f : PartOf(slot, f).borrows \subseteq Flattened(slot).borrows
            /\ (slot.init = Held /\ \E i \in DOMAIN slot.fields : slot.fields[i].init = Dangling)
                 => Flattened(slot).init = Dangling
      BY FlattenedFacts
    <3> HIDE DEF root, named
    <3> QED
      BY <1>1, <2>1, <3>1
  <2>3. PlaceSources(st, inst) \subseteq Values
    BY <1>1, <1>4, <2>2 DEF Parts
  <2>4. ASSUME NEW f, Kind[inst.base] # "owner"
        PROVE  PartOf(root, f).borrows \subseteq PlaceSources(st, inst)
    BY <1>4, <2>2, <2>4
  <2>5. ASSUME NEW f, ~Unreadable(st, inst), Complete(root)
        PROVE  PartOf(root, f).init \notin Lost
    <3>1. root.init \in {Held, Unreached}
      BY <1>2, <2>1, <2>5 DEF Unreadable, Complete, Inits, SlotInits, Held, Dangling, Moved, Uninit, Unreached
    <3>2. CASE f \in DOMAIN root.fields
      <4>1. root.init = Held
        BY <1>1, <3>1, <3>2
      <4>2. root.fields[f].init # Dangling
        BY <2>1, <2>2, <2>5, <3>2, <4>1 DEF Unreadable
      <4> QED
        BY <2>5, <3>2, <4>2 DEF PartOf, Complete, Lost
    <3>3. CASE f \notin DOMAIN root.fields
      BY <3>1, <3>3 DEF PartOf, Part, Lost, Held, Unreached, Uninit, Moved, Dangling
    <3> QED
      BY <3>2, <3>3
  <2> QED
    BY <2>3, <2>4, <2>5
<1> QED
  BY <1>5, <1>6

\* The definition of a value is an instruction of the function.
LEMMA DefinitionFacts ==
    ASSUME NEW v, HasDefinition(v)
    PROVE  /\ DefinitionOf(v).res = v
           /\ \E b \in DOMAIN ir : \E j \in DOMAIN ir[b] : DefinitionOf(v) = ir[b][j]
<1> DEFINE b == CHOOSE c \in DOMAIN ir : \E j \in DOMAIN ir[c] : ir[c][j].res = v
           j == CHOOSE k \in DOMAIN ir[b] : ir[b][k].res = v
<1>1. b \in DOMAIN ir /\ \E k \in DOMAIN ir[b] : ir[b][k].res = v
  BY DEF HasDefinition
<1>2. j \in DOMAIN ir[b] /\ ir[b][j].res = v
  BY <1>1
<1>3. DefinitionOf(v) = ir[b][j]
  BY DEF DefinitionOf
<1> QED
  BY <1>1, <1>2, <1>3

\* What FlowAssumption and LivenessAssumption say of an instruction.
LEMMA InstFacts ==
    ASSUME ir \in Functions, NEW b \in DOMAIN ir, NEW j \in DOMAIN ir[b]
    PROVE  /\ WellTyped(ir[b][j])
           /\ (ir[b][j].op = "load" /\ ~Dereferences(ir[b][j])) => SameType(ir[b][j], ir[b][j].res)
           /\ (ir[b][j].op = "store" /\ ~Dereferences(ir[b][j])) => SameType(ir[b][j], ir[b][j].args[1])
           /\ ir[b][j].op = "storage_init" =>
                j > 1 /\ ir[b][j - 1].op = "storage_live" /\ ir[b][j - 1].base = ir[b][j].base
           /\ \A c \in DOMAIN ir : \A k \in DOMAIN ir[c] :
                (ir[b][j].res # None /\ ir[c][k].res = ir[b][j].res) => ir[c][k] = ir[b][j]
           /\ 1 \notin SuccessorSet(ir[b])
BY FlowAssumption


\* The operands collect_sources goes back to are values.
LEMMA GoesBackType ==
    ASSUME ir \in Functions, NEW v \in Values
    PROVE  GoesBack(v) \subseteq Values
<1>1. CASE HasDefinition(v) /\ DefinitionOf(v).op \notin {"load", "ref"}
  <2> DEFINE inst == DefinitionOf(v)
             places == IF inst.op \in CallLike \/ Kind[v] = "ref" THEN Passed(inst) ELSE {}
  <2>1. WellTyped(inst)
    BY <1>1, DefinitionFacts, InstFacts
  <2>2. /\ \A i \in DOMAIN inst.args : inst.args[i] \in Values \cup {None}
        /\ inst.names \subseteq DOMAIN inst.args
    BY <2>1 DEF WellTyped
  <2>3. places \subseteq DOMAIN inst.args
    BY <2>2 DEF Passed
  <2>4. GoesBack(v) = {inst.args[i] : i \in places} \ {None}
    BY <1>1 DEF GoesBack
  <2> QED
    BY <2>2, <2>3, <2>4
<1>2. CASE ~(HasDefinition(v) /\ DefinitionOf(v).op \notin {"load", "ref"})
  BY <1>2 DEF GoesBack
<1> QED
  BY <1>1, <1>2

\* One round of collect_sources.
BackStep == [found \in SUBSET Values |-> found \cup UNION {GoesBack(u) : u \in found}]

\* A round stays among the values and keeps what was found.
LEMMA BackStepFacts ==
    ASSUME ir \in Functions, NEW found \in SUBSET Values
    PROVE  /\ BackStep[found] \in SUBSET Values /\ found \subseteq BackStep[found]
           /\ \A u \in found : GoesBack(u) \subseteq BackStep[found]
           /\ \A more \in SUBSET Values : found \subseteq more => BackStep[found] \subseteq BackStep[more]
<1>1. \A x \in SUBSET Values : BackStep[x] = x \cup UNION {GoesBack(u) : u \in x}
  BY DEF BackStep
<1>2. \A u \in Values : GoesBack(u) \subseteq Values
  BY GoesBackType
<1>3. BackStep[found] \in SUBSET Values
  BY <1>1, <1>2
<1>4. \A more \in SUBSET Values : found \subseteq more => BackStep[found] \subseteq BackStep[more]
  BY <1>1
<1> QED
  BY <1>1, <1>3, <1>4

\* collect_sources starts from the value and stays among values.
LEMMA OriginsFacts ==
    ASSUME ir \in Functions, NEW v \in Values
    PROVE  Origins(v) \subseteq Values /\ v \in Origins(v)
<1>1. Origins(v) = Iterated({v}, BackStep, v)
  BY DEF Origins, BackStep
<1>2. v \in Nat
  BY LivenessAssumption
<1>0. PICK D : D = SUBSET Values
  OBVIOUS
<1>3. {v} \in D /\ \A x \in D : BackStep[x] \in D /\ x \subseteq BackStep[x]
  BY <1>0, BackStepFacts
<1>4. Iterated({v}, BackStep, v) \in D
  BY <1>2, <1>3, IteratedWithin
<1>5. Iterated({v}, BackStep, 0) \subseteq Iterated({v}, BackStep, v)
  BY <1>2, <1>3, IteratedGrows
<1>6. Iterated({v}, BackStep, 0) = {v}
  BY IteratedSteps
<1> QED
  BY <1>0, <1>1, <1>4, <1>5, <1>6

\* What is found from an operand is found from what was made with it.
LEMMA OriginsOfOperand ==
    ASSUME ir \in Functions, NEW v \in Values, NEW a \in GoesBack(v), a < v
    PROVE  Origins(a) \subseteq Origins(v)
<1> DEFINE low(n) == Iterated({a}, BackStep, n)
           high(n) == Iterated({v}, BackStep, n)
           S == {n \in Nat : ~ (low(n) \subseteq high(n + 1))}
<1>1. a \in Values /\ a \in Nat /\ v \in Nat
  BY GoesBackType, LivenessAssumption
<1>0. PICK D : D = SUBSET Values
  OBVIOUS
<1>2. \A x \in D : BackStep[x] \in D /\ x \subseteq BackStep[x]
  BY <1>0, BackStepFacts
<1>3. \A n \in Nat : low(n) \in SUBSET Values /\ high(n) \in SUBSET Values
  <2>1. {a} \in D /\ {v} \in D
    BY <1>0, <1>1
  <2>2. \A n \in Nat : low(n) \in D /\ high(n) \in D
    BY <1>2, <2>1, IteratedWithin
  <2> QED
    BY <1>0, <2>2
<1>4. /\ low(0) = {a} /\ high(0) = {v}
      /\ \A n \in Nat : low(n + 1) = BackStep[low(n)] /\ high(n + 1) = BackStep[high(n)]
  BY IteratedSteps
<1>5. low(0) \subseteq high(1)
  <2>1. high(1) = BackStep[{v}]
    <3>1. high(0 + 1) = BackStep[high(0)] /\ 0 + 1 = 1
      BY <1>4
    <3> QED
      BY <1>4, <3>1
  <2>2. GoesBack(v) \subseteq BackStep[{v}]
    <3>1. {v} \in SUBSET Values /\ v \in {v}
      OBVIOUS
    <3> QED
      BY <3>1, BackStepFacts
  <2> QED
    BY <1>4, <2>1, <2>2, Zenon
<1>6. S = {}
  <2>1. SUFFICES ASSUME S # {} PROVE FALSE
    OBVIOUS
  <2>2. S \subseteq Nat
    OBVIOUS
  <2>3. PICK n \in S : \A i \in S : n <= i
    BY <2>1, <2>2, LeastOfNaturals
  <2>4. n \in Nat /\ ~ (low(n) \subseteq high(n + 1))
    BY <2>3
  <2>5. n # 0
    BY <1>5, <2>4
  <2>6. n - 1 \in Nat /\ n - 1 \notin S
    <3>1. n - 1 \in Nat /\ ~ (n <= n - 1)
      BY <2>4, <2>5
    <3> HIDE DEF S
    <3> QED
      BY <2>3, <3>1
  <2>7. low(n - 1) \subseteq high((n - 1) + 1)
    BY <2>6
  <2>8. PICK k \in Nat : n = k + 1 /\ low(k) \subseteq high(k + 1)
    BY <2>6, <2>7
  <2>9. BackStep[low(k)] \subseteq BackStep[high(k + 1)]
    <3>1. low(k) \in SUBSET Values /\ high(k + 1) \in SUBSET Values
      BY <1>3, <2>8
    <3>2. \A x, y \in SUBSET Values : x \subseteq y => BackStep[x] \subseteq BackStep[y]
      BY BackStepFacts
    <3> HIDE DEF low, high
    <3> QED
      BY <2>8, <3>1, <3>2
  <2>10. low(k + 1) = BackStep[low(k)] /\ high((k + 1) + 1) = BackStep[high(k + 1)]
    BY <1>4, <2>8
  <2> QED
    BY <2>4, <2>8, <2>9, <2>10
<1>7. low(a) \subseteq high(a + 1)
  BY <1>1, <1>6
<1>8. high(a + 1) \subseteq high(v)
  <2>1. a + 1 \in Nat /\ a + 1 <= v /\ {v} \in D
    BY <1>0, <1>1
  <2> QED
    BY <1>1, <1>2, <2>1, IteratedGrows
<1>9. Origins(a) = low(a) /\ Origins(v) = high(v)
  BY DEF Origins, BackStep
<1> QED
  BY <1>7, <1>8, <1>9

\* collect_sources finds values.
LEMMA SourcesType ==
    ASSUME ir \in Functions, NEW st \in Known, NEW v \in Values \cup {None}
    PROVE  Sources(st, v) \subseteq Values
<1>1. ASSUME NEW u \in Values PROVE OwnSources(st, u) \subseteq Values
  <2>1. Flattened(st[u]).borrows \subseteq Values
    BY FlattenedFacts DEF Known, Parts
  <2>2. CASE ~HasDefinition(u)
    BY <2>1, <2>2 DEF OwnSources
  <2>3. CASE HasDefinition(u) /\ DefinitionOf(u).op \in {"load", "ref"}
    <3>1. WellTyped(DefinitionOf(u))
      BY <2>3, DefinitionFacts, InstFacts
    <3>2. Placed(DefinitionOf(u))
      BY <2>3, <3>1 DEF WellTyped, Placed
    <3> QED
      BY <2>3, <3>2, PlaceFacts DEF OwnSources
  <2>4. CASE HasDefinition(u) /\ DefinitionOf(u).op \notin {"load", "ref"}
    BY <2>4 DEF OwnSources
  <2> QED
    BY <2>2, <2>3, <2>4
<1>2. v # None => Origins(v) \subseteq Values
  BY OriginsFacts
<1> QED
  BY <1>1, <1>2 DEF Sources

\* The result of a call, a copy or a slice has the sources of its operands.
LEMMA SourcesOfOperand ==
    ASSUME ir \in Functions, NEW st, NEW b \in DOMAIN ir, NEW j \in DOMAIN ir[b],
           ir[b][j].op \in CallLike, ir[b][j].res # None,
           NEW i \in Passed(ir[b][j]), ir[b][j].args[i] # None
    PROVE  Sources(st, ir[b][j].args[i]) \subseteq Sources(st, ir[b][j].res)
<1> DEFINE inst == ir[b][j]
           a == inst.args[i]
           v == inst.res
<1>1. /\ WellTyped(inst)
      /\ \A c \in DOMAIN ir : \A k \in DOMAIN ir[c] : (inst.res # None /\ ir[c][k].res = inst.res) => ir[c][k] = inst
  BY InstFacts
<1>2. v \in Values /\ a < v
  BY <1>1 DEF WellTyped
<1>3. HasDefinition(v)
  BY DEF HasDefinition
<1>4. DefinitionOf(v) = inst
  BY <1>1, <1>3, DefinitionFacts
<1>5. inst.op \notin {"load", "ref"}
  BY DEF CallLike
<1>6. a \in GoesBack(v)
  <2>1. GoesBack(v) = {inst.args[k] : k \in IF inst.op \in CallLike \/ Kind[v] = "ref" THEN Passed(inst) ELSE {}} \ {None}
    BY <1>3, <1>4, <1>5 DEF GoesBack
  <2> QED
    BY <2>1
<1>7. Origins(a) \subseteq Origins(v)
  BY <1>2, <1>6, OriginsOfOperand
<1> QED
  BY <1>7 DEF Sources


-----------------------------------------------------------------------------
(***************************************************************************)
(* flow_inst stays among the states.                                       *)
(***************************************************************************)
\* mir_state_set.
With(st, v, slot) == [st EXCEPT ![v] = slot]

\* A state that is given a reached slot is a state.
LEMMA SlotSet ==
    ASSUME NEW st \in Known, NEW v, NEW slot \in Slots, slot.init # Unreached
    PROVE  /\ With(st, v, slot) \in Known
           /\ v \in Values => With(st, v, slot)[v] = slot
           /\ \A u \in Values : u # v => With(st, v, slot)[u] = st[u]
BY DEF Known, With

\* A slot without fields, given a value, is one.
LEMMA FreshSlot ==
    ASSUME NEW i \in Inits, NEW b \in SUBSET Values
    PROVE  /\ Slot(i, b) \in Slots /\ Slot(i, b).fields = <<>>
           /\ Slot(i, b).init = i /\ Slot(i, b).borrows = b
           /\ \A f : PartOf(Slot(i, b), f) = Part(i, b)
BY SlotMade DEF Slot, PartOf

\* mir_state_invalidate_borrows_of marks what names the slot and changes
\* nothing else.
LEMMA InvalidatedFacts ==
    ASSUME NEW st \in Known, NEW d
    PROVE  /\ Invalidated(st, d) \in Known
           /\ \A v \in Values :
                /\ DOMAIN Invalidated(st, d)[v].fields = DOMAIN st[v].fields
                /\ Invalidated(st, d)[v].borrows = st[v].borrows
                /\ \A f : /\ PartOf(Invalidated(st, d)[v], f).borrows = PartOf(st[v], f).borrows
                          /\ PartOf(Invalidated(st, d)[v], f).init =
                               IF PartOf(st[v], f).init = Held /\ d \in PartOf(st[v], f).borrows
                               THEN Dangling ELSE PartOf(st[v], f).init
<1>1. ASSUME NEW v \in Values
      PROVE  /\ Invalidated(st, d)[v] \in Slots
             /\ Invalidated(st, d)[v].init = Unreached => Invalidated(st, d)[v].fields = <<>>
             /\ DOMAIN Invalidated(st, d)[v].fields = DOMAIN st[v].fields
             /\ Invalidated(st, d)[v].borrows = st[v].borrows
             /\ \A f : /\ PartOf(Invalidated(st, d)[v], f).borrows = PartOf(st[v], f).borrows
                       /\ PartOf(Invalidated(st, d)[v], f).init =
                            IF PartOf(st[v], f).init = Held /\ d \in PartOf(st[v], f).borrows
                            THEN Dangling ELSE PartOf(st[v], f).init
  <2> DEFINE slot == st[v]
             init == IF slot.init = Held /\ d \in slot.borrows THEN Dangling ELSE slot.init
             fields == [i \in DOMAIN slot.fields |-> InvalidPart(slot.fields[i], d)]
             after == Invalidated(st, d)[v]
  <2>1. slot \in Slots /\ (slot.init = Unreached => slot.fields = <<>>)
    BY <1>1 DEF Known
  <2>2. /\ slot.init \in Inits /\ slot.borrows \subseteq Values /\ Len(slot.fields) \in Nat
        /\ DOMAIN slot.fields = 1..Len(slot.fields)
        /\ \A i \in DOMAIN slot.fields :
             /\ slot.fields[i] \in Parts
             /\ slot.fields[i].init \in Inits /\ slot.fields[i].borrows \subseteq Values
    BY <2>1, SlotFacts
  <2>3. \A i \in DOMAIN slot.fields :
          /\ InvalidPart(slot.fields[i], d) \in Parts
          /\ InvalidPart(slot.fields[i], d).borrows = slot.fields[i].borrows
          /\ InvalidPart(slot.fields[i], d).init =
               IF slot.fields[i].init = Held /\ d \in slot.fields[i].borrows THEN Dangling ELSE slot.fields[i].init
    BY <2>2 DEF InvalidPart, Parts, Inits
  <2>4. fields \in [1..Len(slot.fields) -> Parts]
    BY <2>2, <2>3
  <2>5. fields \in Seq(Parts) /\ DOMAIN fields = DOMAIN slot.fields
    BY <2>2, <2>4, FieldsAre
  <2>6. InvalidPart(slot, d) = [slot EXCEPT !.init = init]
    BY DEF InvalidPart
  <2>7. after = [[slot EXCEPT !.init = init] EXCEPT !.fields = fields]
    <3>1. [slot EXCEPT !.init = init].fields = slot.fields
      BY <2>1 DEF Slots
    <3>2. after = [InvalidPart(slot, d) EXCEPT !.fields = [i \in DOMAIN @ |-> InvalidPart(@[i], d)]]
      BY <1>1 DEF Invalidated
    <3> QED
      BY <2>6, <3>1, <3>2
  <2>8. init \in Inits
    BY <2>2 DEF Inits
  <2>9. after.init = init /\ after.borrows = slot.borrows /\ after.fields = fields /\ after \in Slots
    BY <2>1, <2>5, <2>7, <2>8 DEF Slots
  <2>10. init = Unreached => fields = <<>>
    <3>1. init = Unreached => slot.init = Unreached
      BY DEF Unreached, Dangling
    <3>2. slot.fields = <<>> => fields = <<>>
      BY <2>5
    <3> QED
      BY <2>1, <3>1, <3>2
  <2>11. ASSUME NEW f
         PROVE  /\ PartOf(after, f).borrows = PartOf(slot, f).borrows
                /\ PartOf(after, f).init =
                     IF PartOf(slot, f).init = Held /\ d \in PartOf(slot, f).borrows
                     THEN Dangling ELSE PartOf(slot, f).init
    <3>1. CASE f \in DOMAIN slot.fields
      <4>1. PartOf(after, f) = InvalidPart(slot.fields[f], d) /\ PartOf(slot, f) = slot.fields[f]
        BY <2>5, <2>9, <3>1 DEF PartOf
      <4> QED
        BY <2>3, <3>1, <4>1
    <3>2. CASE f \notin DOMAIN slot.fields
      <4>1. PartOf(after, f) = Part(init, slot.borrows) /\ PartOf(slot, f) = Part(slot.init, slot.borrows)
        BY <2>5, <2>9, <3>2 DEF PartOf
      <4> QED
        BY <4>1 DEF Part
    <3> QED
      BY <3>1, <3>2
  <2> QED
    BY <2>5, <2>9, <2>10, <2>11
<1>2. Invalidated(st, d) \in [Values -> Slots]
  BY <1>1 DEF Invalidated
<1> QED
  BY <1>1, <1>2 DEF Known

\* mir_slot_set_all.
LEMMA AllMovedFacts ==
    ASSUME NEW slot \in Slots
    PROVE  AllMoved(slot) \in Slots /\ AllMoved(slot).init = Moved
<1> DEFINE fields == [i \in DOMAIN slot.fields |-> [slot.fields[i] EXCEPT !.init = Moved]]
<1>1. /\ Len(slot.fields) \in Nat /\ DOMAIN slot.fields = 1..Len(slot.fields)
      /\ \A i \in DOMAIN slot.fields : slot.fields[i] \in Parts
  BY SlotFacts
<1>2. Moved \in Inits
  BY DEF Inits, SlotInits
<1>3. fields \in [1..Len(slot.fields) -> Parts]
  BY <1>1, <1>2 DEF Parts
<1>4. fields \in Seq(Parts)
  BY <1>1, <1>3, FieldsAre
<1>5. AllMoved(slot) = [slot EXCEPT !.init = Moved, !.fields = fields]
  BY DEF AllMoved
<1> QED
  BY <1>2, <1>4, <1>5 DEF Slots

\* What a store to a field makes of a slot.
FieldStored(slot, at, part) == [OpenFields([slot EXCEPT !.init = Held], at) EXCEPT !.fields[at] = part]

\* A store to a field of a slot opens it.
LEMMA FieldStoredFacts ==
    ASSUME NEW slot \in Slots, NEW at \in Nat, at >= 1, NEW part \in Parts
    PROVE  LET after == FieldStored(slot, at, part)
           IN /\ after \in Slots /\ after.init = Held /\ after.borrows = slot.borrows
              /\ DOMAIN slot.fields \subseteq DOMAIN after.fields
              /\ at \in DOMAIN after.fields /\ PartOf(after, at) = part
              /\ \A f : f # at =>
                   PartOf(after, f) = IF f \in DOMAIN slot.fields THEN slot.fields[f]
                                      ELSE IF f \in 1..at THEN Part(Held, {}) ELSE Part(Held, slot.borrows)
<1> DEFINE given == [slot EXCEPT !.init = Held]
           owner == OpenFields(given, at)
           after == FieldStored(slot, at, part)
           wide == IF at > Len(slot.fields) THEN at ELSE Len(slot.fields)
           fields == [owner.fields EXCEPT ![at] = part]
<1>1. /\ given \in Slots /\ given.init = Held /\ given.borrows = slot.borrows /\ given.fields = slot.fields
  BY DEF Slots, Inits, SlotInits
<1>2. Len(slot.fields) \in Nat /\ DOMAIN slot.fields = 1..Len(slot.fields)
  BY SlotFacts
<1>3. /\ owner \in Slots /\ owner.init = Held /\ owner.borrows = slot.borrows
      /\ DOMAIN owner.fields = 1..wide
      /\ \A i \in 1..wide : owner.fields[i] = IF i \in DOMAIN slot.fields THEN slot.fields[i] ELSE Part(Held, {})
  <2> HIDE DEF given
  <2> QED
    BY <1>1, OpenFieldsFacts
<1>4. wide \in Nat /\ at \in 1..wide /\ DOMAIN slot.fields \subseteq 1..wide
  BY <1>2
<1>5. fields \in [1..wide -> Parts]
  <2>1. owner.fields \in [1..wide -> Parts]
    <3> HIDE DEF owner, wide
    <3> QED
      BY <1>3, <1>4, SlotFacts DEF Slots
  <2> QED
    BY <2>1
<1>6. fields \in Seq(Parts) /\ DOMAIN fields = 1..wide
  <2> HIDE DEF fields, wide
  <2> QED
    BY <1>4, <1>5, FieldsAre
<1>7. after = [owner EXCEPT !.fields = fields]
  BY DEF FieldStored
<1>8. after \in Slots /\ after.init = Held /\ after.borrows = slot.borrows /\ after.fields = fields
  <2> HIDE DEF owner, fields
  <2> QED
    BY <1>3, <1>6, <1>7 DEF Slots
<1>9. fields[at] = part /\ \A i \in 1..wide : i # at => fields[i] = owner.fields[i]
  BY <1>3, <1>4
<1>10. PartOf(after, at) = part
  BY <1>4, <1>6, <1>8, <1>9 DEF PartOf
<1>11. ASSUME NEW f, f # at
       PROVE  PartOf(after, f) = IF f \in DOMAIN slot.fields THEN slot.fields[f]
                                 ELSE IF f \in 1..at THEN Part(Held, {}) ELSE Part(Held, slot.borrows)
  <2> HIDE DEF fields, owner, after
  <2>1. CASE f \in 1..wide
    <3>1. PartOf(after, f) = owner.fields[f]
      BY <1>6, <1>8, <1>9, <1>11, <2>1 DEF PartOf
    <3>2. f \in DOMAIN slot.fields \/ f \in 1..at
      BY <1>2, <2>1
    <3> QED
      BY <1>3, <2>1, <3>1, <3>2
  <2>2. CASE f \notin 1..wide
    <3>1. PartOf(after, f) = Part(Held, slot.borrows)
      BY <1>6, <1>8, <2>2 DEF PartOf
    <3>2. f \notin DOMAIN slot.fields /\ f \notin 1..at
      BY <1>2, <2>2
    <3> QED
      BY <3>1, <3>2
  <2> QED
    BY <2>1, <2>2
<1> QED
  BY <1>4, <1>6, <1>8, <1>10, <1>11


\* A path an instruction follows is one of its base's.
LEMMA PlacedFacts ==
    ASSUME ir \in Functions, NEW b \in DOMAIN ir, NEW j \in DOMAIN ir[b],
           ir[b][j].op \in {"load", "ref", "store"}
    PROVE  /\ Placed(ir[b][j])
           /\ Tracked(ir[b][j]) => /\ ir[b][j].proj[1].of \in Nat /\ ir[b][j].proj[1].of >= 1
                                   /\ LeadingField(ir[b][j]) = ir[b][j].proj[1].of
                                   /\ ir[b][j].proj[1].of \in 1..Fields[ir[b][j].base]
<1>1. WellTyped(ir[b][j])
  BY InstFacts
<1>2. Placed(ir[b][j])
  BY <1>1 DEF WellTyped, Placed
<1> QED
  BY <1>2, LivenessAssumption DEF Placed, Tracked, LeadingField

\* What a store leaves is a state.
LEMMA StoredType ==
    ASSUME ir \in Functions, NEW b \in DOMAIN ir, NEW j \in DOMAIN ir[b], NEW st \in Known,
           ir[b][j].op = "store"
    PROVE  Stored(st, ir[b][j]) \in Known
<1> DEFINE inst == ir[b][j]
           slot == st[inst.base]
           found == Sources(st, inst.args[1])
           stored == Part(Held, found)
           freed == IF Kind[inst.base] = "owner" THEN Invalidated(st, inst.base) ELSE st
<1>1. WellTyped(inst) /\ Placed(inst)
  BY InstFacts, PlacedFacts
<1>2. inst.base \in Values /\ inst.args[1] \in Values \cup {None} /\ slot \in Slots
  BY <1>1 DEF WellTyped, Known, Placed
<1>3. found \in SUBSET Values /\ Held \in Inits /\ Held # Unreached
  BY <1>2, SourcesType DEF Inits, SlotInits, Held, Unreached
<1>4. stored \in Parts
  <2> HIDE DEF found
  <2> QED
    BY <1>3, SlotMade
<1>5. freed \in Known
  BY InvalidatedFacts
<1>6. CASE Tracked(inst)
  <2> DEFINE after == FieldStored(slot, inst.proj[1].of, stored)
  <2>1. inst.proj[1].of \in Nat /\ inst.proj[1].of >= 1
    BY <1>6, PlacedFacts
  <2>2. after \in Slots /\ after.init = Held
    <3> HIDE DEF stored, slot
    <3> QED
      BY <1>2, <1>4, <2>1, FieldStoredFacts
  <2>3. Stored(st, inst) = With(st, inst.base, after)
    BY <1>6 DEF Stored, With, FieldStored
  <2> HIDE DEF after
  <2> QED
    BY <1>3, <2>2, <2>3, SlotSet
<1>7. CASE ~Tracked(inst)
  <2>1. Stored(st, inst) = With(freed, inst.base, Slot(Held, found))
    BY <1>7 DEF Stored, Part, With
  <2>2. Slot(Held, found) \in Slots /\ Slot(Held, found).init = Held
    <3> HIDE DEF found
    <3> QED
      BY <1>3, FreshSlot
  <2> HIDE DEF freed, found
  <2> QED
    BY <1>3, <1>5, <2>1, <2>2, SlotSet
<1> QED
  BY <1>6, <1>7

\* flow_inst makes a state of a state.
LEMMA FlowInstType ==
    ASSUME ir \in Functions, NEW b \in DOMAIN ir, NEW j \in DOMAIN ir[b], NEW st \in Known
    PROVE  FlowInst(st, ir[b][j]) \in Known
<1> DEFINE inst == ir[b][j]
<1>1. WellTyped(inst)
  BY InstFacts
<1>2. /\ Uninit \in Inits /\ Held \in Inits /\ Moved \in Inits
      /\ Uninit # Unreached /\ Held # Unreached /\ Moved # Unreached
  BY DEF Inits, SlotInits, Uninit, Held, Moved, Unreached
<1>3. Slot(Uninit, {}) \in Slots /\ Slot(Uninit, {}).init = Uninit
  BY <1>2, FreshSlot
<1>4. ASSUME NEW names \in SUBSET Values, NEW v
      PROVE  With(st, v, Slot(Held, names)) \in Known
  <2>1. Slot(Held, names) \in Slots /\ Slot(Held, names).init = Held
    BY <1>2, FreshSlot
  <2> QED
    BY <1>2, <2>1, SlotSet
<1>5. CASE inst.op = "storage_live"
  <2>1. FlowInst(st, inst) = With(st, inst.base, Slot(Uninit, {}))
    BY <1>5 DEF FlowInst, With
  <2> QED
    BY <1>2, <1>3, <2>1, SlotSet
<1>6. CASE inst.op = "storage_init"
  <2> DEFINE after == [st[inst.base] EXCEPT !.init = Held]
  <2>1. inst.base \in Values
    BY <1>1, <1>6 DEF WellTyped
  <2>2. after \in Slots /\ after.init = Held
    <3>1. st[inst.base] \in Slots
      BY <2>1 DEF Known
    <3> QED
      BY <1>2, <3>1 DEF Slots
  <2>3. FlowInst(st, inst) = With(st, inst.base, after)
    BY <1>6 DEF FlowInst, With
  <2> HIDE DEF after
  <2> QED
    BY <1>2, <2>2, <2>3, SlotSet
<1>7. CASE inst.op = "storage_dead"
  <2>1. Invalidated(st, inst.base) \in Known
    BY InvalidatedFacts
  <2>2. FlowInst(st, inst) = With(Invalidated(st, inst.base), inst.base, Slot(Uninit, {}))
    BY <1>7 DEF FlowInst, With
  <2> QED
    BY <1>2, <1>3, <2>1, <2>2, SlotSet
<1>8. CASE inst.op = "drop"
  BY <1>8, InvalidatedFacts DEF FlowInst
<1>9. CASE inst.op = "load"
  <2> DEFINE names == PlaceSources(st, inst)
             result == With(st, inst.res, Slot(Held, names))
  <2>1. Placed(inst) /\ inst.base \in Values
    BY <1>9, PlacedFacts DEF Placed
  <2>2. names \in SUBSET Values
    BY <2>1, PlaceFacts
  <2>3. result \in Known
    BY <1>4, <2>2
  <2>4. AllMoved(result[inst.base]) \in Slots /\ AllMoved(result[inst.base]).init = Moved
    <3>1. result[inst.base] \in Slots
      BY <2>1, <2>3 DEF Known
    <3> HIDE DEF result
    <3> QED
      BY <3>1, AllMovedFacts
  <2>5. FlowInst(st, inst) =
          IF inst.move THEN With(result, inst.base, AllMoved(result[inst.base])) ELSE result
    BY <1>9 DEF FlowInst, Loaded, With
  <2> HIDE DEF result
  <2> QED
    BY <1>2, <2>3, <2>4, <2>5, SlotSet
<1>10. CASE inst.op = "ref"
  <2>1. PlaceSources(st, inst) \in SUBSET Values
    BY <1>10, PlacedFacts, PlaceFacts
  <2> QED
    BY <1>4, <1>10, <2>1 DEF FlowInst, With
<1>11. CASE inst.op = "store"
  BY <1>11, StoredType DEF FlowInst, CallLike
<1>12. CASE inst.op \in CallLike
  <2>1. Sources(st, inst.res) \in SUBSET Values
    BY <1>1, SourcesType DEF WellTyped
  <2>2. FlowInst(st, inst) = With(st, inst.res, Slot(Held, Sources(st, inst.res)))
    BY <1>12 DEF FlowInst, CallLike, With
  <2> QED
    BY <1>4, <2>1, <2>2
<1>13. CASE inst.op \notin {"storage_live", "storage_init", "storage_dead", "drop", "load", "ref", "store"} \cup CallLike
  BY <1>13 DEF FlowInst
<1> QED
  BY <1>5, <1>6, <1>7, <1>8, <1>9, <1>10, <1>11, <1>12, <1>13

-----------------------------------------------------------------------------
(***************************************************************************)
(* Types.                                                                  *)
(***************************************************************************)
\* A body has blocks, and its edges stay inside.
LEMMA BodyFacts ==
    ASSUME NEW body \in Functions
    PROVE  /\ Len(body) \in Nat /\ Len(body) >= 1 /\ DOMAIN body = 1..Len(body)
           /\ \A b \in DOMAIN body : /\ SuccessorSet(body[b]) \subseteq DOMAIN body
                                     /\ Len(body[b]) \in Nat
                                     /\ DOMAIN body[b] = 1..Len(body[b])
<1>1. WellFormed(body)
  BY LivenessAssumption
<1>2. /\ body \in Seq(Seq(PathInsts)) /\ Len(body) >= 1
      /\ \A b \in 1..Len(body) : SuccessorSet(body[b]) \subseteq 1..Len(body)
  BY <1>1 DEF WellFormed
<1>3. Len(body) \in Nat /\ DOMAIN body = 1..Len(body) /\ \A b \in DOMAIN body : body[b] \in Seq(PathInsts)
  BY <1>2
<1> QED
  BY <1>2, <1>3

\* The bits live at the end of blocks are bits.
LEMMA ExitsType ==
    ASSUME NEW body \in Functions
    PROVE  ExitsOf(body) \in [DOMAIN body -> SUBSET Bits]
<1> DEFINE below(heads, b) == UNION {heads[t] : t \in SuccessorSet(body[b])}
           step == [heads \in [DOMAIN body -> SUBSET Bits] |->
                      [b \in DOMAIN body |-> LiveBefore(body[b], 1, below(heads, b))]]
           base == [b \in DOMAIN body |-> {}]
           settled == Iterated(base, step, Len(body))
<1>0. PICK D : D = [DOMAIN body -> SUBSET Bits]
  OBVIOUS
<1>1. base \in D
  BY <1>0
<1>2. ASSUME NEW x \in D PROVE step[x] \in D
  <2>1. \A b \in DOMAIN body : LiveBefore(body[b], 1, below(x, b)) \subseteq Bits
    BY DEF LiveBefore
  <2>2. step[x] = [b \in DOMAIN body |-> LiveBefore(body[b], 1, below(x, b))]
    BY <1>0, <1>2
  <2> HIDE DEF below, step
  <2> QED
    BY <1>0, <2>1, <2>2
<1>3. settled \in D
  <2> HIDE DEF step, base
  <2> QED
    BY <1>1, <1>2, BodyFacts, IteratedWithin
<1>4. \A b \in DOMAIN body : below(settled, b) \subseteq Bits
  <2> HIDE DEF settled
  <2> QED
    BY <1>0, <1>3, BodyFacts
<1>5. ExitsOf(body) = [b \in DOMAIN body |-> below(settled, b)]
  BY DEF ExitsOf
<1> HIDE DEF below, settled
<1> QED
  BY <1>4, <1>5

\* The states a function starts with are states.
LEMMA FirstStates == NoState \in Known /\ AtEntry \in Known
<1>1. Unreached \in Inits /\ Held \in Inits /\ Held # Unreached
  BY DEF Inits, SlotInits, Held, Unreached
<1>2. /\ Slot(Unreached, {}) \in Slots /\ Slot(Unreached, {}).fields = <<>>
      /\ \A b \in SUBSET Values : Slot(Held, b) \in Slots /\ Slot(Held, b).init = Held
  BY <1>1, FreshSlot
<1>3. NoState \in Known
  BY <1>2 DEF NoState, Known
<1>4. ASSUME NEW v \in Values
      PROVE  AtEntry[v] \in Slots /\ (AtEntry[v].init = Unreached => AtEntry[v].fields = <<>>)
  <2>1. CASE v \in Params
    <3>1. PICK b \in SUBSET Values : AtEntry[v] = Slot(Held, b)
      BY <2>1 DEF AtEntry
    <3> QED
      BY <1>1, <1>2, <3>1
  <2>2. CASE v \notin Params
    BY <1>2, <2>2 DEF AtEntry
  <2> QED
    BY <2>1, <2>2
<1>5. AtEntry \in [Values -> Slots]
  BY <1>4 DEF AtEntry
<1> QED
  BY <1>3, <1>4, <1>5 DEF Known

\* mir_state_merge makes a state of two.
LEMMA MergedKnown ==
    ASSUME NEW a \in Known, NEW b \in Known
    PROVE  [v \in Values |-> Merged(a[v], b[v])] \in Known
<1>1. ASSUME NEW v \in Values
      PROVE  Merged(a[v], b[v]) \in Slots /\ (Merged(a[v], b[v]).init = Unreached => Merged(a[v], b[v]).fields = <<>>)
  <2>1. /\ a[v] \in Slots /\ (a[v].init = Unreached => a[v].fields = <<>>)
        /\ b[v] \in Slots /\ (b[v].init = Unreached => b[v].fields = <<>>)
    BY DEF Known
  <2> QED
    BY <2>1, MergedFacts
<1> QED
  BY <1>1 DEF Known


-----------------------------------------------------------------------------
(***************************************************************************)
(* What an instruction does to the run's memory.                           *)
(***************************************************************************)
\* Targets of different makes differ.
LEMMA TargetFacts ==
    /\ Unset \in Targets /\ Given \in Targets /\ Stale \in Targets /\ Ended \subseteq Targets
    /\ Gone \in Ended /\ Left \in Ended /\ \A t \in Ended : t = Gone \/ t = Left
    /\ \A v \in Values : StorageOf(v) \in Targets /\ ObjectOf(v) \in Targets /\ CallersOf(v) \in Targets
    /\ Unset \notin Ended /\ Given \notin Ended /\ Stale \notin Ended /\ Unset # Given /\ Unset # Stale /\ Given # Stale
    /\ \A t \in {Unset, Given, Stale} \cup Ended : \A v : t # StorageOf(v) /\ t # ObjectOf(v) /\ t # CallersOf(v)
    /\ \A v, w : StorageOf(v) # ObjectOf(w) /\ StorageOf(v) # CallersOf(w) /\ ObjectOf(v) # CallersOf(w)
    /\ \A v, w : (StorageOf(v) = StorageOf(w) \/ ObjectOf(v) = ObjectOf(w) \/ CallersOf(v) = CallersOf(w)) => v = w
BY DEF Targets, Ended, Unset, Gone, Left, Given, Stale, StorageOf, ObjectOf, CallersOf

\* Every reference is of one make.
LEMMA TargetKinds ==
    ASSUME NEW t \in Targets
    PROVE  t \in {Unset, Given, Stale} \cup Ended \/ \E v \in Values : t \in {StorageOf(v), ObjectOf(v), CallersOf(v)}
BY DEF Targets, Ended

\* A slot given contents.
MemWith(m, v, content) == [m EXCEPT ![v] = content]

\* Memory with a slot that was given contents.
LEMMA MemSet ==
    ASSUME NEW m, MemTyped(m), NEW v, v \in Values \cup {None},
           NEW content, v \in Values => content \in [Places(v) -> Targets]
    PROVE  /\ MemTyped(MemWith(m, v, content))
           /\ v \in Values => MemWith(m, v, content)[v] = content
           /\ \A u \in Values : u # v => MemWith(m, v, content)[u] = m[u]
BY DEF MemTyped, MemWith

\* A slot that holds one reference everywhere.
LEMMA FilledFacts ==
    ASSUME NEW v, NEW t \in Targets
    PROVE  Filled(v, t) \in [Places(v) -> Targets] /\ \A f \in Places(v) : Filled(v, t)[f] = t
BY DEF Filled

\* Every reference to `from` becomes one to `to`.
LEMMA RetargetFacts ==
    ASSUME NEW m, MemTyped(m), NEW from, NEW to \in Targets
    PROVE  /\ MemTyped(Retarget(m, from, to))
           /\ \A v \in Values : \A f \in Places(v) :
                Retarget(m, from, to)[v][f] = IF m[v][f] = from THEN to ELSE m[v][f]
<1>1. ASSUME NEW v \in Values
      PROVE  /\ Retarget(m, from, to)[v] \in [Places(v) -> Targets]
             /\ \A f \in Places(v) : Retarget(m, from, to)[v][f] = IF m[v][f] = from THEN to ELSE m[v][f]
  <2>1. m[v] \in [Places(v) -> Targets]
    BY DEF MemTyped
  <2>2. Retarget(m, from, to)[v] = [f \in Places(v) |-> IF m[v][f] = from THEN to ELSE m[v][f]]
    BY <2>1 DEF Retarget
  <2> QED
    BY <2>1, <2>2
<1>2. DOMAIN Retarget(m, from, to) = Values
  BY DEF Retarget
<1> QED
  BY <1>1, <1>2 DEF MemTyped

\* None is no value, and a place begins at the whole or at a field.
LEMMA ValueFacts ==
    /\ None \notin Values
    /\ \A v \in Values : Fields[v] \in Nat
    /\ \A v \in Values : (Whole \in Places(v)) <=> Fields[v] = 0
BY LivenessAssumption DEF None, Places, Whole

\* What comes from a place of v, if something does.
ComesFrom(m, v, places, target) == v \in Values /\ Kind[v] = "ref" /\ \E g \in places \cap Places(v) : target = m[v][g]

\* The places a path may read.
Read(inst) == IF Tracked(inst) THEN {LeadingField(inst)} ELSE Places(inst.base)

\* storage_live.
LEMMA LiveEffect ==
    ASSUME ir \in Functions, NEW b \in DOMAIN ir, NEW j \in DOMAIN ir[b], NEW m, MemTyped(m),
           ir[b][j].op = "storage_live", NEW m2 \in Effects(m, b, j)
    PROVE  /\ MemTyped(m2)
           /\ \A v \in Values : \A f \in Places(v) : m2[v][f] = IF v = ir[b][j].base THEN Unset ELSE m[v][f]
<1>1. m2 = MemWith(m, ir[b][j].base, Filled(ir[b][j].base, Unset))
  BY DEF Effects, MemWith
<1>2. ir[b][j].base \in Values
  BY InstFacts DEF WellTyped
<1> QED
  BY <1>1, <1>2, MemSet, FilledFacts, TargetFacts

\* storage_dead ends what names the slot.
LEMMA DeadEffect ==
    ASSUME ir \in Functions, NEW b \in DOMAIN ir, NEW j \in DOMAIN ir[b], NEW m, MemTyped(m),
           ir[b][j].op = "storage_dead", NEW m2 \in Effects(m, b, j)
    PROVE  /\ MemTyped(m2)
           /\ \A v \in Values : \A f \in Places(v) :
                m2[v][f] = IF v = ir[b][j].base THEN Unset ELSE Retarget(m, StorageOf(ir[b][j].base), Gone)[v][f]
<1> DEFINE base == ir[b][j].base
           ended == Retarget(m, StorageOf(base), Gone)
<1>1. m2 = MemWith(ended, base, Filled(base, Unset))
  BY DEF Effects, MemWith
<1>2. base \in Values
  BY InstFacts DEF WellTyped
<1>3. MemTyped(ended)
  BY TargetFacts, RetargetFacts
<1>4. Filled(base, Unset) \in [Places(base) -> Targets] /\ \A f \in Places(base) : Filled(base, Unset)[f] = Unset
  BY FilledFacts, TargetFacts
<1> HIDE DEF ended, base
<1>5. /\ MemTyped(m2) /\ m2[base] = Filled(base, Unset)
      /\ \A u \in Values : u # base => m2[u] = ended[u]
  BY <1>1, <1>2, <1>3, <1>4, MemSet
<1> USE DEF ended, base
<1> QED
  BY <1>4, <1>5

\* A load gives its result what the place read holds.
LEMMA LoadedEffect ==
    ASSUME ir \in Functions, NEW b \in DOMAIN ir, NEW j \in DOMAIN ir[b], NEW m, MemTyped(m),
           ir[b][j].op = "load", NEW m2 \in Effects(m, b, j)
    PROVE  /\ MemTyped(m2)
           /\ \A v \in Values : \A f \in Places(v) :
                /\ v # ir[b][j].res => m2[v][f] \in {m[v][f], Given} /\ (Kind[v] # "ref" /\ m[v][f] = Unset => m2[v][f] = Unset)
                /\ v = ir[b][j].res => \/ m2[v][f] = Unset
                                       \/ /\ Kind[v] = "ref"
                                          /\ ComesFrom(m, ir[b][j].base, Read(ir[b][j]), m2[v][f])
<1> DEFINE inst == ir[b][j]
           left == IF inst.move THEN Retarget(m, ObjectOf(inst.base), Given) ELSE m
           content == LoadedContent(m, inst)
<1>1. /\ inst.base \in Values /\ inst.res \in Values \cup {None}
      /\ Tracked(inst) => LeadingField(inst) \in Places(inst.base)
  <2>1. inst.base \in Values /\ inst.res \in Values \cup {None}
    BY InstFacts DEF WellTyped
  <2>2. Tracked(inst) => LeadingField(inst) \in 1..Fields[inst.base]
    BY PlacedFacts
  <2> QED
    BY <2>1, <2>2, ValueFacts DEF Places
<1>2. ~Dereferences(inst) => SameType(inst, inst.res)
  BY InstFacts
<1>3. /\ MemTyped(left)
      /\ \A v \in Values : \A f \in Places(v) : left[v][f] \in {m[v][f], Given} /\ (m[v][f] = Unset => left[v][f] = Unset)
  <2>1. CASE inst.move
    <3>1. left = Retarget(m, ObjectOf(inst.base), Given)
      BY <2>1
    <3> HIDE DEF left
    <3> QED
      BY <3>1, RetargetFacts, TargetFacts
  <2>2. CASE ~inst.move
    BY <2>2
  <2> QED
    BY <2>1, <2>2
<1>4. ASSUME NEW f \in Places(inst.res), inst.res \in Values
      PROVE  /\ content[f] \in Targets
             /\ content[f] = Unset \/ (Kind[inst.res] = "ref" /\ ComesFrom(m, inst.base, Read(inst), content[f]))
  <2>1. content[f] = IF Dereferences(inst) \/ Kind[inst.res] # "ref" THEN Unset
                     ELSE Content(m, inst.base, IF Tracked(inst) THEN LeadingField(inst) ELSE f)
    BY <1>4 DEF LoadedContent
  <2>2. CASE Dereferences(inst) \/ Kind[inst.res] # "ref" \/ Kind[inst.base] # "ref"
    BY <1>1, <2>1, <2>2, ValueFacts, TargetFacts DEF Content
  <2>3. CASE ~Dereferences(inst) /\ Kind[inst.res] = "ref" /\ Kind[inst.base] = "ref"
    <3> DEFINE g == IF Tracked(inst) THEN LeadingField(inst) ELSE f
    <3>1. g \in Places(inst.base) /\ g \in Read(inst)
      BY <1>1, <1>2, <1>4, <2>3, ValueFacts DEF SameType, Places, Read
    <3>2. content[f] = m[inst.base][g]
      BY <1>1, <2>1, <2>3, ValueFacts DEF Content
    <3>3. content[f] \in Targets
      BY <1>1, <3>1, <3>2 DEF MemTyped
    <3> QED
      BY <1>1, <2>3, <3>1, <3>2, <3>3 DEF ComesFrom
  <2> QED
    BY <2>2, <2>3
<1>5. inst.res \in Values => content \in [Places(inst.res) -> Targets]
  BY <1>4 DEF LoadedContent
<1>6. m2 = IF inst.res = None THEN left ELSE MemWith(left, inst.res, content)
  BY DEF Effects, LoadEffect, MemWith
<1>7. CASE inst.res = None
  BY <1>3, <1>6, <1>7, ValueFacts
<1>8. CASE inst.res # None
  <2>1. inst.res \in Values /\ m2 = MemWith(left, inst.res, content)
    BY <1>1, <1>6, <1>8
  <2>2. /\ MemTyped(m2) /\ m2[inst.res] = content /\ \A u \in Values : u # inst.res => m2[u] = left[u]
    <3> HIDE DEF left, content
    <3> QED
      BY <1>3, <1>5, <2>1, MemSet
  <2> HIDE DEF left, content
  <2> QED
    BY <1>3, <1>4, <2>1, <2>2
<1> QED
  BY <1>7, <1>8


\* A reference names an object, a slot, or what the reference followed names.
LEMMA RefEffect ==
    ASSUME ir \in Functions, NEW b \in DOMAIN ir, NEW j \in DOMAIN ir[b], NEW m, MemTyped(m),
           ir[b][j].op = "ref", NEW m2 \in Effects(m, b, j)
    PROVE  /\ MemTyped(m2)
           /\ \A v \in Values : \A f \in Places(v) :
                /\ v # ir[b][j].res => m2[v][f] = m[v][f]
                /\ v = ir[b][j].res =>
                     /\ Kind[v] = "ref"
                     /\ \/ m2[v][f] = Unset
                        \/ m2[v][f] = ObjectOf(ir[b][j].base) /\ Kind[ir[b][j].base] = "owner"
                        \/ m2[v][f] = StorageOf(ir[b][j].base) /\ OfItsSlot(ir[b][j])
                        \/ ComesFrom(m, ir[b][j].base, Read(ir[b][j]), m2[v][f])
<1> DEFINE inst == ir[b][j]
           t == RefTarget(m, inst)
<1>1. /\ inst.base \in Values /\ inst.res \in Values \cup {None}
      /\ Kind[inst.res] = "ref"
      /\ (inst.proj # <<>> /\ Kind[inst.base] = "ref") => LeadingField(inst) \in Places(inst.base)
  BY InstFacts, ValueFacts DEF WellTyped
<1>2. Dereferences(inst) => inst.proj # <<>>
  BY DEF Dereferences
<1>3. /\ t \in Targets
      /\ \/ t = Unset
         \/ t = ObjectOf(inst.base) /\ Kind[inst.base] = "owner"
         \/ t = StorageOf(inst.base) /\ OfItsSlot(inst)
         \/ ComesFrom(m, inst.base, Read(inst), t)
  <2>1. CASE Kind[inst.base] = "owner" \/ ~Dereferences(inst)
    BY <1>1, <2>1, TargetFacts DEF RefTarget, OfItsSlot
  <2>2. CASE Kind[inst.base] # "owner" /\ Dereferences(inst)
    <3>1. t = Content(m, inst.base, LeadingField(inst))
      BY <2>2 DEF RefTarget, Contents
    <3>2. CASE Kind[inst.base] # "ref"
      BY <1>1, <3>1, <3>2, ValueFacts, TargetFacts DEF Content
    <3>3. CASE Kind[inst.base] = "ref"
      <4>1. t = m[inst.base][LeadingField(inst)] /\ LeadingField(inst) \in Places(inst.base)
        BY <1>1, <1>2, <2>2, <3>1, <3>3, ValueFacts DEF Content
      <4>2. LeadingField(inst) \in Read(inst)
        BY <4>1 DEF Read
      <4>3. t \in Targets
        BY <1>1, <4>1 DEF MemTyped
      <4> QED
        BY <1>1, <3>3, <4>1, <4>2, <4>3 DEF ComesFrom
    <3> QED
      BY <3>2, <3>3
  <2> QED
    BY <2>1, <2>2
<1>4. m2 = MemWith(m, inst.res, Filled(inst.res, t))
  BY DEF Effects, MemWith
<1> HIDE DEF t
<1>5. Filled(inst.res, t) \in [Places(inst.res) -> Targets] /\ \A f \in Places(inst.res) : Filled(inst.res, t)[f] = t
  BY <1>3, FilledFacts
<1>6. /\ MemTyped(m2) /\ (inst.res \in Values => m2[inst.res] = Filled(inst.res, t))
      /\ \A u \in Values : u # inst.res => m2[u] = m[u]
  BY <1>1, <1>4, <1>5, MemSet
<1> QED
  BY <1>1, <1>3, <1>5, <1>6

\* A store to a reference gives it what the value stored holds; a store to an
\* owner frees its object.
LEMMA StoredEffect ==
    ASSUME ir \in Functions, NEW b \in DOMAIN ir, NEW j \in DOMAIN ir[b], NEW m, MemTyped(m),
           ir[b][j].op = "store", NEW m2 \in Effects(m, b, j)
    PROVE  LET inst == ir[b][j]
           IN /\ MemTyped(m2)
              /\ (Dereferences(inst) \/ Kind[inst.base] = "plain") => m2 = m
              /\ (~Dereferences(inst) /\ Kind[inst.base] = "owner") =>
                   (\E to \in Ended : m2 = Retarget(m, ObjectOf(inst.base), to)) /\ ~Tracked(inst)
              /\ (~Dereferences(inst) /\ Kind[inst.base] = "ref") =>
                   \A v \in Values : \A f \in Places(v) :
                     /\ v # inst.base \/ (Tracked(inst) /\ f # LeadingField(inst)) => m2[v][f] = m[v][f]
                     /\ (v = inst.base /\ (Tracked(inst) => f = LeadingField(inst))) =>
                          \/ m2[v][f] \in {Unset, Given, Stale}
                          \/ m2[v][f] \notin Ended /\ inst.args[1] \in HandedOn(inst)
                             /\ ComesFrom(m, inst.args[1], Places(inst.args[1]), m2[v][f])
<1> DEFINE inst == ir[b][j]
           a == inst.args[1]
<1>1. /\ inst.base \in Values /\ DOMAIN inst.args = {1} /\ a \in Values \cup {None}
      /\ Kind[inst.base] \in {"plain", "ref", "owner"} /\ (Kind[inst.base] = "owner" => Fields[inst.base] = 0)
      /\ Tracked(inst) => LeadingField(inst) \in 1..Fields[inst.base]
  <2>1. WellTyped(inst)
    BY InstFacts
  <2>2. inst \in PathInsts
    BY LivenessAssumption DEF WellFormed
  <2>3. inst.args \in Seq(Int) /\ Len(inst.args) = 1
    BY <2>1, <2>2 DEF WellTyped, PathInsts
  <2>4. DOMAIN inst.args = {1}
    BY <2>3
  <2>5. Tracked(inst) => LeadingField(inst) \in 1..Fields[inst.base]
    BY PlacedFacts
  <2> QED
    BY <2>1, <2>4, <2>5, FlowAssumption DEF WellTyped
<1>2. ~Dereferences(inst) => SameType(inst, a)
  BY InstFacts
<1>3. m2 = StoreEffect(m, b, j)
  BY DEF Effects
<1>4. CASE Dereferences(inst) \/ Kind[inst.base] = "plain"
  <2>1. m2 = m
    BY <1>3, <1>4 DEF StoreEffect
  <2> QED
    BY <1>4, <2>1
<1>5. CASE ~Dereferences(inst) /\ Kind[inst.base] = "owner"
  <2>1. PICK to \in Ended : m2 = Retarget(m, ObjectOf(inst.base), to)
    BY <1>3, <1>5, TargetFacts DEF StoreEffect
  <2>2. MemTyped(m2)
    BY <2>1, RetargetFacts, TargetFacts
  <2>3. ~Tracked(inst)
    BY <1>1, <1>5
  <2> QED
    BY <1>5, <2>1, <2>2, <2>3
<1>6. CASE ~Dereferences(inst) /\ Kind[inst.base] = "ref"
  <2>1. ASSUME NEW f \in Places(inst.base), NEW g,
               g = IF Tracked(inst) THEN Whole ELSE f
        PROVE  LET t == StoredContent(m, inst, g)
               IN /\ t \in Targets
                  /\ \/ t \in {Unset, Given, Stale}
                     \/ t \notin Ended /\ a \in HandedOn(inst) /\ ComesFrom(m, a, Places(a), t)
    <3> DEFINE t == StoredContent(m, inst, g)
               held == Content(m, a, g)
    <3>1. t = IF held = Gone THEN Stale ELSE IF held = Left THEN Given ELSE held
      BY DEF StoredContent
    <3>2. CASE a = None \/ Kind[a] # "ref"
      <4>1. held = Unset
        BY <3>2 DEF Content
      <4> QED
        BY <3>1, <4>1, TargetFacts
    <3>3. CASE a # None /\ Kind[a] = "ref"
      <4>1. a \in Values /\ g \in Places(a)
        BY <1>1, <1>2, <1>6, <2>1, <3>3, ValueFacts DEF SameType, Places, Whole
      <4>2. held = m[a][g] /\ held \in Targets
        BY <3>3, <4>1 DEF Content, MemTyped
      <4>3. a \in HandedOn(inst)
        BY <1>1, <3>3, <4>1 DEF HandedOn
      <4> QED
        BY <3>1, <3>3, <4>1, <4>2, <4>3, TargetFacts DEF ComesFrom
    <3> QED
      BY <3>2, <3>3
  <2>2. m[inst.base] \in [Places(inst.base) -> Targets]
    BY <1>1 DEF MemTyped
  <2>3. CASE Tracked(inst)
    <3> DEFINE at == LeadingField(inst)
               t == StoredContent(m, inst, Whole)
               content == [m[inst.base] EXCEPT ![at] = t]
    <3>1. at \in Places(inst.base)
      BY <1>1, <2>3 DEF Places
    <3>2. /\ t \in Targets
          /\ t \in {Unset, Given, Stale} \/ (t \notin Ended /\ a \in HandedOn(inst) /\ ComesFrom(m, a, Places(a), t))
      BY <2>1, <2>3, <3>1
    <3> HIDE DEF t
    <3>3. m2 = MemWith(m, inst.base, content)
      BY <1>3, <1>6, <2>3 DEF StoreEffect, MemWith, t
    <3>4. /\ content \in [Places(inst.base) -> Targets] /\ content[at] = t
          /\ \A f \in Places(inst.base) : f # at => content[f] = m[inst.base][f]
      BY <2>2, <3>1, <3>2
    <3>5. /\ MemTyped(m2) /\ m2[inst.base] = content /\ \A u \in Values : u # inst.base => m2[u] = m[u]
      <4> HIDE DEF content
      <4> QED
        BY <1>1, <3>3, <3>4, MemSet
    <3> HIDE DEF content
    <3> QED
      BY <1>1, <1>6, <2>3, <3>1, <3>2, <3>4, <3>5
  <2>4. CASE ~Tracked(inst)
    <3> DEFINE content == [f \in Places(inst.base) |-> StoredContent(m, inst, f)]
    <3>1. \A f \in Places(inst.base) :
             /\ content[f] \in Targets
             /\ \/ content[f] \in {Unset, Given, Stale}
                \/ content[f] \notin Ended /\ a \in HandedOn(inst) /\ ComesFrom(m, a, Places(a), content[f])
      BY <2>1, <2>4
    <3>2. m2 = MemWith(m, inst.base, content)
      BY <1>3, <1>6, <2>4 DEF StoreEffect, MemWith
    <3>3. content \in [Places(inst.base) -> Targets]
      BY <3>1
    <3> HIDE DEF content
    <3>4. /\ MemTyped(m2) /\ m2[inst.base] = content /\ \A u \in Values : u # inst.base => m2[u] = m[u]
      BY <1>1, <3>2, <3>3, MemSet
    <3> QED
      BY <1>1, <1>6, <2>4, <3>1, <3>4
  <2> QED
    BY <2>3, <2>4
<1> QED
  BY <1>1, <1>4, <1>5, <1>6

\* A call answers with what it was passed.
LEMMA CallEffect ==
    ASSUME ir \in Functions, NEW b \in DOMAIN ir, NEW j \in DOMAIN ir[b], NEW m, MemTyped(m),
           ir[b][j].op \in CallLike, NEW m2 \in Effects(m, b, j)
    PROVE  /\ MemTyped(m2)
           /\ \A v \in Values : \A f \in Places(v) :
                /\ v # ir[b][j].res => m2[v][f] = m[v][f]
                /\ v = ir[b][j].res =>
                     \/ m2[v][f] = Unset
                     \/ /\ Kind[v] = "ref"
                        /\ \E i \in Passed(ir[b][j]) :
                             /\ ir[b][j].args[i] # None
                             /\ ComesFrom(m, ir[b][j].args[i], Places(ir[b][j].args[i]), m2[v][f])
<1> DEFINE inst == ir[b][j]
<1>1. inst.res \in Values \cup {None} /\ \A i \in Passed(inst) : inst.args[i] \in Values \cup {None}
  BY InstFacts DEF WellTyped, Passed
<1>2. m2 \in CallEffects(m, inst)
  BY DEF Effects, CallLike
<1>3. CASE inst.res = None
  BY <1>2, <1>3, ValueFacts DEF CallEffects
<1>4. CASE inst.res # None
  <2>1. PICK answer \in [Places(inst.res) -> Answers(m, inst)] : m2 = MemWith(m, inst.res, answer)
    BY <1>2, <1>4 DEF CallEffects, MemWith
  <2>2. ASSUME NEW t \in Answers(m, inst)
        PROVE  /\ t \in Targets
               /\ \/ t = Unset
                  \/ /\ Kind[inst.res] = "ref"
                     /\ \E i \in Passed(inst) : inst.args[i] # None /\ ComesFrom(m, inst.args[i], Places(inst.args[i]), t)
    <3>1. CASE t = Unset
      BY <3>1, TargetFacts
    <3>2. CASE t # Unset
      <4>1. PICK i \in Passed(inst) : /\ inst.args[i] # None /\ Kind[inst.res] = "ref"
                                      /\ \E f \in Places(inst.args[i]) : t = Content(m, inst.args[i], f)
        BY <2>2, <3>2 DEF Answers
      <4>2. PICK f \in Places(inst.args[i]) : t = Content(m, inst.args[i], f)
        BY <4>1
      <4>3. Kind[inst.args[i]] = "ref" /\ t = m[inst.args[i]][f] /\ inst.args[i] \in Values
        BY <1>1, <3>2, <4>1, <4>2 DEF Content
      <4>4. t \in Targets
        BY <4>2, <4>3 DEF MemTyped
      <4> QED
        BY <4>1, <4>2, <4>3, <4>4 DEF ComesFrom
    <3> QED
      BY <3>1, <3>2
  <2>3. answer \in [Places(inst.res) -> Targets]
    BY <2>2
  <2>4. /\ MemTyped(m2) /\ m2[inst.res] = answer /\ \A u \in Values : u # inst.res => m2[u] = m[u]
    BY <1>1, <1>4, <2>1, <2>3, MemSet
  <2> QED
    BY <2>2, <2>4
<1> QED
  BY <1>3, <1>4

\* What the other instructions do.
LEMMA OtherEffect ==
    ASSUME NEW m, NEW b, NEW j, NEW m2 \in Effects(m, b, j)
    PROVE  /\ ir[b][j].op = "drop" => m2 = Retarget(m, ObjectOf(ir[b][j].base), Gone)
           /\ ir[b][j].op \notin {"storage_live", "storage_dead", "drop", "load", "ref", "store"} \cup CallLike => m2 = m
BY DEF Effects

\* The run's memory stays memory.
LEMMA EffectsTyped ==
    ASSUME ir \in Functions, NEW b \in DOMAIN ir, NEW j \in DOMAIN ir[b], NEW m, MemTyped(m),
           NEW m2 \in Effects(m, b, j)
    PROVE  MemTyped(m2)
<1> DEFINE op == ir[b][j].op
<1>1. CASE op \in {"storage_live", "storage_dead", "load", "ref", "store"} \cup CallLike
  BY <1>1, LiveEffect, DeadEffect, LoadedEffect, RefEffect, StoredEffect, CallEffect
<1>2. CASE op = "drop"
  BY <1>2, OtherEffect, RetargetFacts, TargetFacts
<1>3. CASE op \notin {"storage_live", "storage_dead", "drop", "load", "ref", "store"} \cup CallLike
  BY <1>3, OtherEffect
<1> QED
  BY <1>1, <1>2, <1>3


-----------------------------------------------------------------------------
(***************************************************************************)
(* What is held is what can be.                                            *)
(***************************************************************************)
\* What a reference may hold another may.
LEMMA MayHoldFacts ==
    /\ \A v \in Values : MayHold(v, Unset)
    /\ \A v \in Values : Kind[v] = "ref" => (\A t \in Ended : MayHold(v, t)) /\ MayHold(v, Given) /\ MayHold(v, Stale)
    /\ \A v, w \in Values : \A t : Kind[v] = "ref" /\ MayHold(w, t) => MayHold(v, t)
    /\ \A v \in Values : \A t : MayHold(v, t) /\ Kind[v] # "ref" => t = Unset
BY TargetFacts DEF MayHold

\* What is freed or ended was no reference.
LEMMA RetargetHold ==
    ASSUME NEW m, MemOK(m), NEW from, from # Unset, NEW to \in Ended
    PROVE  MemOK(Retarget(m, from, to))
<1>1. MemTyped(m) /\ MemTyped(Retarget(m, from, to))
  BY RetargetFacts, TargetFacts DEF MemOK
<1>2. ASSUME NEW v \in Values, NEW f \in Places(v)
      PROVE  MayHold(v, Retarget(m, from, to)[v][f])
  <2>1. MayHold(v, m[v][f])
    BY DEF MemOK
  <2>2. Retarget(m, from, to)[v][f] = IF m[v][f] = from THEN to ELSE m[v][f]
    BY <1>1, RetargetFacts, TargetFacts
  <2> QED
    BY <2>1, <2>2, MayHoldFacts
<1> QED
  BY <1>1, <1>2 DEF MemOK

\* What comes from a reference may be held by one.
LEMMA ComesHold ==
    ASSUME NEW m, MemOK(m), NEW w, NEW places, NEW t, ComesFrom(m, w, places, t), NEW v \in Values, Kind[v] = "ref"
    PROVE  MayHold(v, t)
<1>1. PICK g \in Places(w) : t = m[w][g]
  BY DEF ComesFrom
<1>2. w \in Values /\ MayHold(w, t)
  BY <1>1 DEF ComesFrom, MemOK
<1> QED
  BY <1>2, MayHoldFacts

\* An instruction of which mir_borrowck keeps sight keeps memory in order.
LEMMA EffectsOK ==
    ASSUME ir \in Functions, NEW b \in DOMAIN ir, NEW j \in DOMAIN ir[b], NEW m, MemOK(m),
           NEW m2 \in Effects(m, b, j), NEW st, KeepsSight(st, ir[b][j])
    PROVE  MemOK(m2)
<1> DEFINE inst == ir[b][j]
<1>1. MemTyped(m) /\ MemTyped(m2) /\ \A v \in Values : \A f \in Places(v) : MayHold(v, m[v][f])
  BY EffectsTyped DEF MemOK
<1>2. SUFFICES ASSUME NEW v \in Values, NEW f \in Places(v) PROVE MayHold(v, m2[v][f])
  BY <1>1 DEF MemOK
<1>3. MayHold(v, m[v][f])
  BY <1>1
<1>4. CASE inst.op = "storage_live"
  BY <1>1, <1>3, <1>4, LiveEffect, MayHoldFacts
<1>5. CASE inst.op = "storage_dead"
  <2>1. MemOK(Retarget(m, StorageOf(inst.base), Gone))
    BY RetargetHold, TargetFacts
  <2>2. MayHold(v, Retarget(m, StorageOf(inst.base), Gone)[v][f])
    BY <2>1 DEF MemOK
  <2> QED
    BY <1>1, <1>5, <2>2, DeadEffect, MayHoldFacts
<1>6. CASE inst.op = "drop"
  <2>1. MemOK(Retarget(m, ObjectOf(inst.base), Gone))
    BY RetargetHold, TargetFacts
  <2>2. MayHold(v, Retarget(m, ObjectOf(inst.base), Gone)[v][f])
    BY <2>1 DEF MemOK
  <2> QED
    BY <1>6, <2>2, OtherEffect
<1>7. CASE inst.op = "load"
  <2>1. CASE v # inst.res
    <3>1. m2[v][f] \in {m[v][f], Given} /\ (Kind[v] # "ref" /\ m[v][f] = Unset => m2[v][f] = Unset)
      BY <1>1, <1>7, <2>1, LoadedEffect
    <3> QED
      BY <1>3, <3>1, MayHoldFacts
  <2>2. CASE v = inst.res
    <3>1. m2[v][f] = Unset \/ (Kind[v] = "ref" /\ ComesFrom(m, inst.base, Read(inst), m2[v][f]))
      BY <1>1, <1>7, <2>2, LoadedEffect
    <3> QED
      BY <3>1, MayHoldFacts, ComesHold
  <2> QED
    BY <2>1, <2>2
<1>8. CASE inst.op = "ref"
  <2>1. CASE v # inst.res
    BY <1>1, <1>3, <1>8, <2>1, RefEffect
  <2>2. CASE v = inst.res
    <3>1. /\ Kind[v] = "ref"
          /\ \/ m2[v][f] = Unset
             \/ m2[v][f] = ObjectOf(inst.base) /\ Kind[inst.base] = "owner"
             \/ m2[v][f] = StorageOf(inst.base) /\ OfItsSlot(inst)
             \/ ComesFrom(m, inst.base, Read(inst), m2[v][f])
      BY <1>1, <1>8, <2>2, RefEffect
    <3>2. OfItsSlot(inst) => Kind[inst.base] = "plain"
      BY DEF KeepsSight
    <3>3. CASE m2[v][f] = ObjectOf(inst.base) /\ Kind[inst.base] = "owner"
      BY <3>1, <3>3, TargetFacts DEF MayHold
    <3>4. CASE m2[v][f] = StorageOf(inst.base) /\ OfItsSlot(inst)
      BY <3>1, <3>2, <3>4, TargetFacts DEF MayHold
    <3> QED
      BY <3>1, <3>3, <3>4, MayHoldFacts, ComesHold
  <2> QED
    BY <2>1, <2>2
<1>9. CASE inst.op = "store"
  <2>1. CASE Dereferences(inst) \/ Kind[inst.base] = "plain"
    BY <1>1, <1>3, <1>9, <2>1, StoredEffect
  <2>2. CASE ~Dereferences(inst) /\ Kind[inst.base] = "owner"
    <3>1. PICK to \in Ended : m2 = Retarget(m, ObjectOf(inst.base), to)
      BY <1>1, <1>9, <2>2, StoredEffect
    <3>2. MemOK(Retarget(m, ObjectOf(inst.base), to))
      BY RetargetHold, TargetFacts
    <3> QED
      BY <3>1, <3>2 DEF MemOK
  <2>3. CASE ~Dereferences(inst) /\ Kind[inst.base] = "ref"
    <3>1. \/ m2[v][f] = m[v][f]
          \/ v = inst.base /\ \/ m2[v][f] \in {Unset, Given, Stale}
                              \/ ComesFrom(m, inst.args[1], Places(inst.args[1]), m2[v][f])
      BY <1>1, <1>9, <2>3, StoredEffect
    <3> QED
      BY <1>3, <2>3, <3>1, MayHoldFacts, ComesHold
  <2> QED
    <3>1. Kind[inst.base] \in {"plain", "ref", "owner"}
      BY <1>9, InstFacts, FlowAssumption DEF WellTyped
    <3> QED
      BY <2>1, <2>2, <2>3, <3>1
<1>10. CASE inst.op \in CallLike
  <2>1. CASE v # inst.res
    BY <1>1, <1>3, <1>10, <2>1, CallEffect
  <2>2. CASE v = inst.res
    <3>1. \/ m2[v][f] = Unset
          \/ Kind[v] = "ref" /\ \E w : ComesFrom(m, w, Places(w), m2[v][f])
      BY <1>1, <1>10, <2>2, CallEffect
    <3> QED
      BY <3>1, MayHoldFacts, ComesHold
  <2> QED
    BY <2>1, <2>2
<1>11. CASE inst.op \notin {"storage_live", "storage_dead", "drop", "load", "ref", "store"} \cup CallLike
  BY <1>3, <1>11, OtherEffect
<1> QED
  BY <1>4, <1>5, <1>6, <1>7, <1>8, <1>9, <1>10, <1>11


-----------------------------------------------------------------------------
(***************************************************************************)
(* What is known stays true of what is held.  P tells whether what came    *)
(* from callers is followed too.                                           *)
(***************************************************************************)
Sighted(P, slot, v, f, target) == InSight(slot, f, target) /\ (P => ParamInSight(slot, v, f, target))

Tells(P, st, m) == \A v \in Values : Kind[v] = "ref" => \A f \in Places(v) : Sighted(P, st[v], v, f, m[v][f])

Fine(P, st, inst) ==
    ~Reported(st, FlowInst(st, inst), inst) /\ KeepsSight(st, inst) /\ (P => KeepsParams(st, inst))

\* Of some references nothing has to be known.
LEMMA SightOfNothing ==
    ASSUME NEW P, NEW slot, NEW v, NEW f, NEW t \in {Unset, Given, Stale}
    PROVE  Sighted(P, slot, v, f, t)
BY TargetFacts DEF Sighted, InSight, ParamInSight

\* A reference copied to where its names are taken along.
LEMMA SightCarried ==
    ASSUME NEW P, NEW slot, NEW w, NEW g, NEW t, Sighted(P, slot, w, g, t), t \notin Ended,
           NEW slot2, NEW v, NEW f, PartOf(slot2, f).init # Unreached,
           PartOf(slot, g).borrows \subseteq PartOf(slot2, f).borrows,
           (P /\ t = CallersOf(w) /\ g \in DOMAIN slot.fields /\ w \in slot.borrows) =>
               w \in PartOf(slot2, f).borrows \/ Tainted(PartOf(slot2, f).borrows)
    PROVE  Sighted(P, slot2, v, f, t)
<1>1. InSight(slot2, f, t)
  BY DEF Sighted, InSight
<1>2. ASSUME P PROVE ParamInSight(slot2, v, f, t)
  <2>1. ParamInSight(slot, w, g, t)
    BY <1>2 DEF Sighted
  <2>2. ASSUME NEW q \in Values, t = CallersOf(q)
        PROVE  q \in PartOf(slot2, f).borrows \/ Tainted(PartOf(slot2, f).borrows)
    <3>1. CASE q \in PartOf(slot, g).borrows
      BY <3>1
    <3>2. CASE Tainted(PartOf(slot, g).borrows)
      BY <3>2 DEF Tainted
    <3>3. CASE g \in DOMAIN slot.fields /\ q = w /\ w \in slot.borrows
      BY <1>2, <2>2, <3>3
    <3> QED
      BY <2>1, <2>2, <3>1, <3>2, <3>3 DEF ParamInSight
  <2> QED
    BY <2>1, <2>2 DEF ParamInSight
<1> QED
  BY <1>1, <1>2 DEF Sighted

\* A slot that says as much says enough.
LEMMA SightKept ==
    ASSUME NEW P, NEW slot, NEW v, NEW f, NEW t, Sighted(P, slot, v, f, t), NEW slot2,
           PartOf(slot, f).init \in Lost => PartOf(slot2, f).init \in Lost,
           PartOf(slot, f).init # Unreached =>
             PartOf(slot2, f).init # Unreached /\ PartOf(slot, f).borrows \subseteq PartOf(slot2, f).borrows,
           slot.borrows \subseteq slot2.borrows, f \in DOMAIN slot.fields => f \in DOMAIN slot2.fields
    PROVE  Sighted(P, slot2, v, f, t)
<1>1. Unreached \notin Lost
  BY DEF Lost, Unreached, Uninit, Moved, Dangling
<1>2. InSight(slot2, f, t)
  BY <1>1 DEF Sighted, InSight
<1>3. ASSUME P PROVE ParamInSight(slot2, v, f, t)
  <2>1. ParamInSight(slot, v, f, t) /\ InSight(slot, f, t)
    BY <1>3 DEF Sighted
  <2>2. t \in Ended => Tainted(PartOf(slot2, f).borrows)
    <3>1. t \in Ended => PartOf(slot, f).init # Unreached
      BY <1>1, <2>1 DEF InSight
    <3> QED
      BY <2>1, <3>1 DEF ParamInSight, Tainted
  <2>3. ASSUME NEW q \in Values, t = CallersOf(q)
        PROVE  /\ PartOf(slot2, f).init # Unreached
               /\ \/ q \in PartOf(slot2, f).borrows
                  \/ Tainted(PartOf(slot2, f).borrows)
                  \/ f \in DOMAIN slot2.fields /\ q = v /\ v \in slot2.borrows
    <3>1. /\ PartOf(slot, f).init # Unreached
          /\ \/ q \in PartOf(slot, f).borrows
             \/ Tainted(PartOf(slot, f).borrows)
             \/ f \in DOMAIN slot.fields /\ q = v /\ v \in slot.borrows
      BY <2>1, <2>3 DEF ParamInSight
    <3>2. Tainted(PartOf(slot, f).borrows) => Tainted(PartOf(slot2, f).borrows)
      BY <3>1 DEF Tainted
    <3> QED
      BY <3>1, <3>2
  <2> QED
    BY <2>1, <2>2, <2>3 DEF ParamInSight
<1> QED
  BY <1>2, <1>3 DEF Sighted

\* A field opened of a slot that named nothing but itself.
LEMMA SightOpened ==
    ASSUME NEW P, NEW slot \in Slots, NEW v \in Values, Kind[v] = "ref", NEW f, NEW t,
           Sighted(P, slot, v, f, t), MayHold(v, t),
           f \notin DOMAIN slot.fields, slot.borrows \subseteq {v} \cap Params,
           NEW slot2, PartOf(slot2, f).init # Unreached, slot.borrows \subseteq slot2.borrows,
           f \in DOMAIN slot2.fields \/ slot.borrows \subseteq PartOf(slot2, f).borrows
    PROVE  Sighted(P, slot2, v, f, t)
<1>1. PartOf(slot, f).borrows = slot.borrows
  BY DEF PartOf, Part
<1>2. \A u \in slot.borrows : u = v /\ u \in Params /\ Kind[u] = "ref"
  OBVIOUS
<1>3. t \notin Ended
  BY <1>1, <1>2 DEF Sighted, InSight
<1>4. \A u \in Values : t # StorageOf(u) /\ t # ObjectOf(u)
  BY <1>1, <1>2 DEF Sighted, InSight, MayHold
<1>5. InSight(slot2, f, t)
  BY <1>3, <1>4 DEF InSight
<1>6. ASSUME P, NEW q \in Values, t = CallersOf(q)
      PROVE  q \in slot.borrows /\ q = v
  BY <1>1, <1>2, <1>6 DEF Sighted, ParamInSight, Tainted
<1>7. P => ParamInSight(slot2, v, f, t)
  BY <1>3, <1>4, <1>6 DEF ParamInSight
<1> QED
  BY <1>5, <1>7 DEF Sighted

\* What is marked in a part.
LEMMA InvalidatedParts ==
    ASSUME NEW st \in Known, NEW d, NEW v \in Values, NEW x
    PROVE  /\ PartOf(Invalidated(st, d)[v], x).borrows = PartOf(st[v], x).borrows
           /\ PartOf(Invalidated(st, d)[v], x).init =
                IF PartOf(st[v], x).init = Held /\ d \in PartOf(st[v], x).borrows
                THEN Dangling ELSE PartOf(st[v], x).init
<1>1. \A w \in Values : \A f :
        /\ PartOf(Invalidated(st, d)[w], f).borrows = PartOf(st[w], f).borrows
        /\ PartOf(Invalidated(st, d)[w], f).init =
             IF PartOf(st[w], f).init = Held /\ d \in PartOf(st[w], f).borrows
             THEN Dangling ELSE PartOf(st[w], f).init
  BY InvalidatedFacts
<1> QED
  BY <1>1, Zenon

\* What names a slot that ends, or an object that is freed or left behind, is
\* marked.
LEMMA SightOfEnded ==
    ASSUME NEW P, NEW st \in Known, NEW m, MemOK(m), Tells(P, st, m), NEW d \in Values,
           NEW from \in {StorageOf(d), ObjectOf(d)}, NEW to \in Ended,
           NEW v \in Values, Kind[v] = "ref", NEW f \in Places(v)
    PROVE  Sighted(P, Invalidated(st, d)[v], v, f, Retarget(m, from, to)[v][f])
<1>0. \A x : /\ PartOf(Invalidated(st, d)[v], x).borrows = PartOf(st[v], x).borrows
             /\ PartOf(Invalidated(st, d)[v], x).init =
                  IF PartOf(st[v], x).init = Held /\ d \in PartOf(st[v], x).borrows
                  THEN Dangling ELSE PartOf(st[v], x).init
  BY InvalidatedParts
<1> DEFINE slot == st[v]
           after == Invalidated(st, d)[v]
           t == m[v][f]
<1>1. Sighted(P, slot, v, f, t) /\ MayHold(v, t)
  BY DEF Tells, MemOK
<1>2. /\ DOMAIN after.fields = DOMAIN slot.fields /\ after.borrows = slot.borrows
      /\ PartOf(after, f).borrows = PartOf(slot, f).borrows
      /\ PartOf(after, f).init = IF PartOf(slot, f).init = Held /\ d \in PartOf(slot, f).borrows
                                 THEN Dangling ELSE PartOf(slot, f).init
  <2>1. \A x : /\ PartOf(after, x).borrows = PartOf(slot, x).borrows
               /\ PartOf(after, x).init = IF PartOf(slot, x).init = Held /\ d \in PartOf(slot, x).borrows
                                          THEN Dangling ELSE PartOf(slot, x).init
    BY <1>0
  <2>2. DOMAIN after.fields = DOMAIN slot.fields /\ after.borrows = slot.borrows
    BY InvalidatedFacts
  <2> HIDE DEF after, slot
  <2> QED
    BY <2>1, <2>2
<1>3. Retarget(m, from, to)[v][f] = IF t = from THEN to ELSE t
  BY RetargetFacts, TargetFacts DEF MemOK
<1>4. PartOf(slot, f).init \in Inits
  BY PartOfType DEF Known, Parts
<1>5. Held \notin Lost /\ Dangling \in Lost /\ Dangling # Unreached /\ Inits = Lost \cup {Held, Unreached}
  BY DEF Lost, Inits, SlotInits, Held, Dangling, Uninit, Moved, Unreached
<1> HIDE DEF slot, after, t
<1>6. CASE t # from
  <2>1. PartOf(slot, f).init \in Lost => PartOf(after, f).init \in Lost
    BY <1>2, <1>5
  <2>2. PartOf(slot, f).init # Unreached => PartOf(after, f).init # Unreached
    BY <1>2, <1>5
  <2>3. Sighted(P, after, v, f, t)
    BY <1>1, <1>2, <2>1, <2>2, SightKept
  <2> QED
    BY <1>3, <1>6, <2>3 DEF after
<1>7. CASE t = from
  <2>1. d \in PartOf(slot, f).borrows /\ PartOf(slot, f).init # Unreached
    BY <1>1, <1>7 DEF Sighted, InSight
  <2>2. PartOf(after, f).init \in Lost
    BY <1>2, <1>4, <1>5, <2>1
  <2>3. Kind[d] # "ref"
    BY <1>1, <1>7 DEF MayHold
  <2>4. P => Kind[d] = "owner" \/ d \notin Params
    BY <1>1, <1>7 DEF Sighted, ParamInSight, MayHold
  <2>5. InSight(after, f, to)
    BY <1>2, <2>1, <2>2, <2>3, TargetFacts DEF InSight
  <2>6. P => ParamInSight(after, v, f, to)
    BY <1>2, <2>1, <2>4, TargetFacts DEF ParamInSight, Tainted
  <2> QED
    BY <1>3, <1>7, <2>5, <2>6 DEF Sighted, after
<1> QED
  BY <1>6, <1>7


\* check_readable lets no lost reference be read, and what is read names what
\* collect_place_sources finds.
LEMMA ReadThere ==
    ASSUME NEW P, NEW st \in Known, NEW inst, Placed(inst), inst.op \in {"load", "ref"}, Fine(P, st, inst),
           Kind[inst.base] = "ref", NEW g \in Read(inst)
    PROVE  /\ PartOf(st[inst.base], g).init \notin Lost
           /\ PartOf(st[inst.base], g).borrows \subseteq PlaceSources(st, inst)
           /\ (P /\ inst.base \in Params /\ g \in DOMAIN st[inst.base].fields /\ inst.base \in st[inst.base].borrows) =>
                inst.base \in PlaceSources(st, inst) \/ Tainted(PlaceSources(st, inst))
<1>1. ~Unreadable(st, inst)
  BY DEF Fine, Reported
<1>2. inst.base \in Values
  BY DEF Placed
<1>3. Complete(st[inst.base])
  BY <1>2 DEF Fine, KeepsSight, ReadBy
<1>4. Tracked(inst) => g = LeadingField(inst)
  BY DEF Read
<1>5. /\ PartOf(st[inst.base], g).init \notin Lost
      /\ PartOf(st[inst.base], g).borrows \subseteq PlaceSources(st, inst)
  BY <1>1, <1>3, <1>4, PlaceFacts
<1>6. ASSUME P, inst.base \in Params, inst.base \in st[inst.base].borrows
      PROVE  inst.base \in PlaceSources(st, inst) \/ Tainted(PlaceSources(st, inst))
  <2>1. CASE Tracked(inst)
    BY <1>6, <2>1 DEF Fine, KeepsParams
  <2>2. CASE ~Tracked(inst)
    <3>1. Named(st, inst) = st[inst.base]
      BY <2>2 DEF Named
    <3>2. st[inst.base].borrows \subseteq Flattened(st[inst.base]).borrows
      BY <1>2, FlattenedFacts DEF Known
    <3>3. inst.base \in Flattened(Named(st, inst)).borrows
      BY <1>6, <3>1, <3>2
    <3> QED
      BY <3>3 DEF PlaceSources
  <2> QED
    BY <2>1, <2>2
<1> QED
  BY <1>5, <1>6

\* No call is given a lost reference.
LEMMA PassedThere ==
    ASSUME NEW P, NEW st \in Known, NEW inst, inst.op \in CallLike, Fine(P, st, inst),
           NEW i \in DOMAIN inst.args, inst.args[i] \in Values, Kind[inst.args[i]] = "ref", NEW g
    PROVE  PartOf(st[inst.args[i]], g).init \notin Lost
<1> DEFINE slot == st[inst.args[i]]
<1>1. slot \in Slots /\ (slot.init = Unreached => slot.fields = <<>>)
  BY DEF Known
<1>2. Complete(slot)
  BY DEF Fine, KeepsSight, ReadBy
<1>3. Flattened(slot).init \notin {Dangling, Moved}
  BY ValueFacts DEF Fine, Reported
<1>4. slot.init \in Inits /\ DOMAIN slot.fields = 1..Len(slot.fields)
  BY <1>1, SlotFacts
<1>5. /\ slot.init # Held => Flattened(slot).init = slot.init
      /\ (slot.init = Held /\ \E k \in DOMAIN slot.fields : slot.fields[k].init = Dangling)
           => Flattened(slot).init = Dangling
  BY <1>1, FlattenedFacts
<1> HIDE DEF slot
<1>6. slot.init \in {Held, Unreached}
  BY <1>2, <1>3, <1>4, <1>5 DEF Complete, Inits, SlotInits
<1>7. CASE g \in DOMAIN slot.fields
  <2>1. slot.init = Held
    BY <1>1, <1>6, <1>7
  <2>2. slot.fields[g].init # Dangling
    BY <1>3, <1>5, <1>7, <2>1
  <2>3. slot.fields[g].init \notin {Uninit, Moved}
    BY <1>2, <1>7 DEF Complete
  <2> QED
    BY <1>7, <2>2, <2>3 DEF PartOf, Lost, slot
<1>8. CASE g \notin DOMAIN slot.fields
  <2>1. PartOf(slot, g).init = slot.init
    BY <1>8 DEF PartOf, Part
  <2> QED
    BY <1>6, <2>1 DEF Lost, Held, Unreached, Uninit, Moved, Dangling, slot
<1> QED
  BY <1>7, <1>8

\* What a reference handed on names is collected.
LEMMA HandedNames ==
    ASSUME NEW P, NEW st \in Known, NEW inst, Fine(P, st, inst), NEW v \in HandedOn(inst)
    PROVE  /\ \A g : PartOf(st[v], g).borrows \subseteq Sources(st, v)
           /\ st[v].borrows \subseteq Sources(st, v)
<1>1. Flattened(st[v]).borrows \subseteq Sources(st, v)
  BY DEF Fine, KeepsSight
<1>2. st[v] \in Slots
  BY DEF HandedOn, Known
<1>3. st[v].borrows \subseteq Flattened(st[v]).borrows /\ \A g : PartOf(st[v], g).borrows \subseteq Flattened(st[v]).borrows
  BY <1>2, FlattenedFacts
<1> QED
  BY <1>1, <1>3

\* A slot given what comes from a reference whose names it takes.
LEMMA SightOfFresh ==
    ASSUME NEW P, NEW st, NEW m, Tells(P, st, m), NEW w, NEW places, NEW t, ComesFrom(m, w, places, t), MemOK(m),
           t \notin Ended, NEW names \in SUBSET Values,
           \A g \in places \cap Places(w) :
             /\ PartOf(st[w], g).borrows \subseteq names
             /\ (P /\ w \in Params /\ g \in DOMAIN st[w].fields /\ w \in st[w].borrows) => w \in names \/ Tainted(names),
           NEW v, NEW f, NEW slot2, PartOf(slot2, f) = Part(Held, names)
    PROVE  Sighted(P, slot2, v, f, t)
<1>1. PICK g \in places \cap Places(w) : t = m[w][g]
  BY DEF ComesFrom
<1>2. Sighted(P, st[w], w, g, t) /\ w \in Values /\ MayHold(w, t)
  BY <1>1 DEF ComesFrom, Tells, MemOK
<1>3. PartOf(slot2, f).init # Unreached /\ PartOf(slot2, f).borrows = names
  BY DEF Part, Held, Unreached
<1>4. t = CallersOf(w) => w \in Params
  BY <1>2 DEF MayHold
<1> QED
  BY <1>1, <1>2, <1>3, <1>4, SightCarried


\* Storage that begins or ends, and drops.
LEMMA StorageTells ==
    ASSUME ir \in Functions, NEW b \in DOMAIN ir, NEW j \in DOMAIN ir[b],
           ir[b][j].op \in {"storage_live", "storage_init", "storage_dead", "drop"},
           NEW P, NEW st \in Known, NEW m, MemOK(m), Tells(P, st, m), NEW m2 \in Effects(m, b, j),
           ir[b][j].op = "storage_init" => st[ir[b][j].base] = Slot(Uninit, {})
    PROVE  Tells(P, FlowInst(st, ir[b][j]), m2)
<1> DEFINE inst == ir[b][j]
           after == FlowInst(st, inst)
<1>1. inst.base \in Values /\ MemTyped(m)
  BY InstFacts DEF WellTyped, MemOK
<1>2. Uninit \in Inits /\ Uninit # Unreached /\ Held # Unreached
  BY DEF Inits, SlotInits, Uninit, Unreached, Held
<1>3. Slot(Uninit, {}) \in Slots /\ Slot(Uninit, {}).init # Unreached
  BY <1>2, FreshSlot
<1>4. SUFFICES ASSUME NEW v \in Values, Kind[v] = "ref", NEW f \in Places(v)
               PROVE  Sighted(P, after[v], v, f, m2[v][f])
  BY DEF Tells
<1>5. Sighted(P, st[v], v, f, m[v][f])
  BY <1>4 DEF Tells
<1>6. CASE inst.op = "storage_live"
  <2>1. after = With(st, inst.base, Slot(Uninit, {}))
    BY <1>6 DEF FlowInst, With
  <2>2. m2[v][f] = IF v = inst.base THEN Unset ELSE m[v][f]
    BY <1>1, <1>6, LiveEffect
  <2>3. v # inst.base => after[v] = st[v]
    BY <1>3, <2>1, SlotSet
  <2> QED
    BY <1>5, <2>2, <2>3, SightOfNothing
<1>7. CASE inst.op = "storage_init"
  <2>1. m2 = m
    BY <1>7, OtherEffect DEF CallLike
  <2>2. CASE v # inst.base
    <3>1. after[v] = st[v]
      BY <1>7, <2>2 DEF FlowInst, Known
    <3> QED
      BY <1>5, <2>1, <3>1
  <2>3. CASE v = inst.base
    <3>1. st[v] = Slot(Uninit, {})
      BY <1>7, <2>3
    <3>2. PartOf(st[v], f).borrows = {} /\ f \notin DOMAIN st[v].fields
      BY <1>2, <3>1, FreshSlot DEF Part
    <3>3. MayHold(v, m[v][f])
      BY DEF MemOK
    <3>4. m[v][f] \notin Ended /\ \A u \in Values : m[v][f] # StorageOf(u) /\ m[v][f] # ObjectOf(u)
      BY <1>5, <3>2 DEF Sighted, InSight
    <3>5. P => \A u \in Values : m[v][f] # CallersOf(u)
      BY <1>5, <3>2 DEF Sighted, ParamInSight, Tainted
    <3> QED
      BY <2>1, <3>4, <3>5 DEF Sighted, InSight, ParamInSight
  <2> QED
    BY <2>2, <2>3
<1>8. CASE inst.op = "storage_dead"
  <2>1. after = With(Invalidated(st, inst.base), inst.base, Slot(Uninit, {}))
    BY <1>8 DEF FlowInst, With
  <2>2. m2[v][f] = IF v = inst.base THEN Unset ELSE Retarget(m, StorageOf(inst.base), Gone)[v][f]
    BY <1>1, <1>8, DeadEffect
  <2>3. Invalidated(st, inst.base) \in Known
    BY InvalidatedFacts
  <2>4. v # inst.base => after[v] = Invalidated(st, inst.base)[v]
    BY <1>3, <2>1, <2>3, SlotSet
  <2>5. Sighted(P, Invalidated(st, inst.base)[v], v, f, Retarget(m, StorageOf(inst.base), Gone)[v][f])
    BY <1>1, <1>4, SightOfEnded, TargetFacts
  <2> QED
    BY <2>2, <2>4, <2>5, SightOfNothing
<1>9. CASE inst.op = "drop"
  <2>1. after = Invalidated(st, inst.base)
    BY <1>9 DEF FlowInst
  <2>2. m2 = Retarget(m, ObjectOf(inst.base), Gone)
    BY <1>9, OtherEffect
  <2>3. Sighted(P, Invalidated(st, inst.base)[v], v, f, Retarget(m, ObjectOf(inst.base), Gone)[v][f])
    BY <1>1, <1>4, SightOfEnded, TargetFacts
  <2> QED
    BY <2>1, <2>2, <2>3
<1> QED
  BY <1>6, <1>7, <1>8, <1>9

\* Loads.
LEMMA LoadTells ==
    ASSUME ir \in Functions, NEW b \in DOMAIN ir, NEW j \in DOMAIN ir[b], ir[b][j].op = "load",
           NEW P, NEW st \in Known, Fine(P, st, ir[b][j]),
           NEW m, MemOK(m), Tells(P, st, m), NEW m2 \in Effects(m, b, j)
    PROVE  Tells(P, FlowInst(st, ir[b][j]), m2)
<1> DEFINE inst == ir[b][j]
           after == FlowInst(st, inst)
           names == PlaceSources(st, inst)
           result == With(st, inst.res, Slot(Held, names))
<1>1. Placed(inst) /\ MemTyped(m) /\ inst.base \in Values /\ (inst.move => Kind[inst.base] = "owner")
  BY InstFacts, PlacedFacts DEF WellTyped, MemOK
<1>2. Held \in Inits /\ Held # Unreached /\ Moved # Unreached
  BY DEF Inits, SlotInits, Unreached, Held, Moved
<1>3. names \in SUBSET Values
  BY <1>1, PlaceFacts
<1>4. Slot(Held, names) \in Slots /\ Slot(Held, names).init = Held /\ \A f : PartOf(Slot(Held, names), f) = Part(Held, names)
  BY <1>2, <1>3, FreshSlot
<1>5. result \in Known /\ (inst.res \in Values => result[inst.res] = Slot(Held, names))
      /\ \A u \in Values : u # inst.res => result[u] = st[u]
  <2> HIDE DEF names
  <2> QED
    BY <1>2, <1>4, SlotSet
<1>6. \A u \in Values : Kind[u] = "ref" => after[u] = result[u]
  <2>1. after = IF inst.move THEN With(result, inst.base, AllMoved(result[inst.base])) ELSE result
    BY DEF FlowInst, Loaded, With
  <2>2. AllMoved(result[inst.base]) \in Slots /\ AllMoved(result[inst.base]).init = Moved
    BY <1>1, <1>5, AllMovedFacts DEF Known
  <2> HIDE DEF result
  <2> QED
    BY <1>1, <1>2, <1>5, <2>1, <2>2, SlotSet
<1>7. SUFFICES ASSUME NEW v \in Values, Kind[v] = "ref", NEW f \in Places(v)
               PROVE  Sighted(P, after[v], v, f, m2[v][f])
  BY DEF Tells
<1>8. CASE v # inst.res
  <2>1. m2[v][f] \in {m[v][f], Given}
    BY <1>1, <1>8, LoadedEffect
  <2>2. Sighted(P, st[v], v, f, m[v][f])
    BY <1>7 DEF Tells
  <2>3. after[v] = st[v]
    BY <1>5, <1>6, <1>7, <1>8
  <2> QED
    BY <2>1, <2>2, <2>3, SightOfNothing
<1>9. CASE v = inst.res
  <2>1. m2[v][f] = Unset \/ ComesFrom(m, inst.base, Read(inst), m2[v][f])
    BY <1>1, <1>9, LoadedEffect
  <2>2. PartOf(after[v], f) = Part(Held, names)
    BY <1>4, <1>5, <1>6, <1>7, <1>9
  <2>3. CASE ComesFrom(m, inst.base, Read(inst), m2[v][f])
    <3>1. Kind[inst.base] = "ref"
      BY <2>3 DEF ComesFrom
    <3>2. ASSUME NEW g \in Read(inst) \cap Places(inst.base)
          PROVE  /\ PartOf(st[inst.base], g).init \notin Lost
                 /\ PartOf(st[inst.base], g).borrows \subseteq names
                 /\ (P /\ inst.base \in Params /\ g \in DOMAIN st[inst.base].fields /\ inst.base \in st[inst.base].borrows)
                      => inst.base \in names \/ Tainted(names)
      BY <1>1, <3>1, <3>2, ReadThere
    <3>3. m2[v][f] \notin Ended
      <4>1. PICK g \in Read(inst) \cap Places(inst.base) : m2[v][f] = m[inst.base][g]
        BY <2>3 DEF ComesFrom
      <4>2. InSight(st[inst.base], g, m[inst.base][g])
        BY <1>1, <3>1, <4>1 DEF Tells, Sighted
      <4> QED
        BY <3>2, <4>1, <4>2 DEF InSight
    <3> HIDE DEF names, after
    <3> QED
      BY <1>3, <2>2, <2>3, <3>2, <3>3, SightOfFresh
  <2> QED
    BY <2>1, <2>3, SightOfNothing
<1> QED
  BY <1>8, <1>9

\* References made.
LEMMA RefTells ==
    ASSUME ir \in Functions, NEW b \in DOMAIN ir, NEW j \in DOMAIN ir[b], ir[b][j].op = "ref",
           NEW P, NEW st \in Known, Fine(P, st, ir[b][j]),
           NEW m, MemOK(m), Tells(P, st, m), NEW m2 \in Effects(m, b, j)
    PROVE  Tells(P, FlowInst(st, ir[b][j]), m2)
<1> DEFINE inst == ir[b][j]
           after == FlowInst(st, inst)
           names == PlaceSources(st, inst)
<1>1. Placed(inst) /\ MemTyped(m) /\ inst.base \in Values
  BY InstFacts, PlacedFacts DEF WellTyped, MemOK
<1>2. Held \in Inits /\ Held # Unreached
  BY DEF Inits, SlotInits, Unreached, Held
<1>3. names \in SUBSET Values
  BY <1>1, PlaceFacts
<1>4. Slot(Held, names) \in Slots /\ Slot(Held, names).init = Held /\ \A f : PartOf(Slot(Held, names), f) = Part(Held, names)
  BY <1>2, <1>3, FreshSlot
<1>5. (inst.res \in Values => after[inst.res] = Slot(Held, names))
      /\ \A u \in Values : u # inst.res => after[u] = st[u]
  <2>1. after = With(st, inst.res, Slot(Held, names))
    BY DEF FlowInst, With
  <2> HIDE DEF names, after
  <2> QED
    BY <1>2, <1>4, <2>1, SlotSet
<1>6. SUFFICES ASSUME NEW v \in Values, Kind[v] = "ref", NEW f \in Places(v)
               PROVE  Sighted(P, after[v], v, f, m2[v][f])
  BY DEF Tells
<1>7. CASE v # inst.res
  <2>1. m2[v][f] = m[v][f]
    BY <1>1, <1>7, RefEffect
  <2>2. Sighted(P, st[v], v, f, m[v][f])
    BY <1>6 DEF Tells
  <2> QED
    BY <1>5, <1>7, <2>1, <2>2
<1>8. CASE v = inst.res
  <2> DEFINE t == m2[v][f]
  <2>1. \/ t = Unset
        \/ t = ObjectOf(inst.base) /\ Kind[inst.base] = "owner"
        \/ t = StorageOf(inst.base) /\ OfItsSlot(inst)
        \/ ComesFrom(m, inst.base, Read(inst), t)
    BY <1>1, <1>8, RefEffect
  <2>2. PartOf(after[v], f) = Part(Held, names) /\ PartOf(after[v], f).init # Unreached /\ PartOf(after[v], f).borrows = names
    BY <1>2, <1>4, <1>5, <1>8 DEF Part
  <2>3. CASE t = ObjectOf(inst.base) /\ Kind[inst.base] = "owner"
    <3>1. ~Unreadable(st, inst)
      BY DEF Fine, Reported
    <3>2. Fields[inst.base] = 0
      BY <1>1, <2>3, FlowAssumption
    <3>3. ~Tracked(inst)
      BY <1>1, <3>2 DEF Placed
    <3>4. Named(st, inst) = st[inst.base]
      BY <3>3 DEF Named
    <3>5. st[inst.base].init # Moved
      BY <3>1, <3>4 DEF Unreadable, Moved, Held
    <3>6. inst.base \in names
      BY <2>3, <3>5 DEF PlaceSources
    <3>7. InSight(after[v], f, t)
      BY <2>2, <2>3, <3>6, TargetFacts DEF InSight
    <3>8. ParamInSight(after[v], v, f, t)
      BY <2>3, TargetFacts DEF ParamInSight
    <3> QED
      BY <3>7, <3>8 DEF Sighted
  <2>4. CASE t = StorageOf(inst.base) /\ OfItsSlot(inst)
    <3>1. inst.base \in names
      BY <2>4 DEF Fine, KeepsSight
    <3>2. P => inst.base \notin Params
      BY <2>4 DEF Fine, KeepsParams
    <3>3. InSight(after[v], f, t)
      BY <2>2, <2>4, <3>1, TargetFacts DEF InSight
    <3>4. P => ParamInSight(after[v], v, f, t)
      BY <2>4, <3>2, TargetFacts DEF ParamInSight
    <3> QED
      BY <3>3, <3>4 DEF Sighted
  <2>5. CASE ComesFrom(m, inst.base, Read(inst), t)
    <3>1. Kind[inst.base] = "ref"
      BY <2>5 DEF ComesFrom
    <3>2. ASSUME NEW g \in Read(inst) \cap Places(inst.base)
          PROVE  /\ PartOf(st[inst.base], g).init \notin Lost
                 /\ PartOf(st[inst.base], g).borrows \subseteq names
                 /\ (P /\ inst.base \in Params /\ g \in DOMAIN st[inst.base].fields /\ inst.base \in st[inst.base].borrows)
                      => inst.base \in names \/ Tainted(names)
      BY <1>1, <3>1, <3>2, ReadThere
    <3>3. t \notin Ended
      <4>1. PICK g \in Read(inst) \cap Places(inst.base) : t = m[inst.base][g]
        BY <2>5 DEF ComesFrom
      <4>2. InSight(st[inst.base], g, m[inst.base][g])
        BY <1>1, <3>1, <4>1 DEF Tells, Sighted
      <4> QED
        BY <3>2, <4>1, <4>2 DEF InSight
    <3> HIDE DEF names, after
    <3> QED
      BY <1>3, <2>2, <2>5, <3>2, <3>3, SightOfFresh
  <2> QED
    BY <2>1, <2>3, <2>4, <2>5, SightOfNothing
<1> QED
  BY <1>7, <1>8


\* Stores.
LEMMA StoreTells ==
    ASSUME ir \in Functions, NEW b \in DOMAIN ir, NEW j \in DOMAIN ir[b], ir[b][j].op = "store",
           NEW P, NEW st \in Known, Fine(P, st, ir[b][j]),
           NEW m, MemOK(m), Tells(P, st, m), NEW m2 \in Effects(m, b, j)
    PROVE  Tells(P, FlowInst(st, ir[b][j]), m2)
<1> DEFINE inst == ir[b][j]
           after == FlowInst(st, inst)
           a == inst.args[1]
           names == Sources(st, a)
           freed == IF Kind[inst.base] = "owner" THEN Invalidated(st, inst.base) ELSE st
           at == inst.proj[1].of
           opened == FieldStored(st[inst.base], at, Part(Held, names))
<1>1. /\ Placed(inst) /\ MemTyped(m) /\ inst.base \in Values /\ a \in Values \cup {None}
      /\ Kind[inst.base] \in {"plain", "ref", "owner"}
      /\ Tracked(inst) => at \in Nat /\ at >= 1 /\ LeadingField(inst) = at /\ at \in 1..Fields[inst.base]
  <2>1. WellTyped(inst) /\ Placed(inst)
    BY InstFacts, PlacedFacts
  <2>2. inst \in PathInsts
    BY LivenessAssumption DEF WellFormed
  <2>5. inst.args \in Seq(Int) /\ Len(inst.args) = 1
    BY <2>1, <2>2 DEF WellTyped, PathInsts
  <2>3. 1 \in DOMAIN inst.args
    BY <2>5
  <2>4. Tracked(inst) => at \in Nat /\ at >= 1 /\ LeadingField(inst) = at /\ at \in 1..Fields[inst.base]
    BY PlacedFacts
  <2> QED
    BY <2>1, <2>3, <2>4, FlowAssumption DEF WellTyped, MemOK
<1>2. Held \in Inits /\ Held # Unreached
  BY DEF Inits, SlotInits, Unreached, Held
<1>3. names \in SUBSET Values
  BY <1>1, SourcesType
<1>4. /\ Slot(Held, names) \in Slots /\ Slot(Held, names).init = Held /\ Part(Held, names) \in Parts
      /\ \A f : PartOf(Slot(Held, names), f) = Part(Held, names)
  <2> HIDE DEF names
  <2> QED
    BY <1>2, <1>3, FreshSlot, SlotMade
<1>5. freed \in Known
  BY InvalidatedFacts
<1>6. SUFFICES ASSUME NEW v \in Values, Kind[v] = "ref", NEW f \in Places(v)
               PROVE  Sighted(P, after[v], v, f, m2[v][f])
  BY DEF Tells
<1>7. Sighted(P, st[v], v, f, m[v][f]) /\ MayHold(v, m[v][f])
  BY <1>6 DEF Tells, MemOK
<1>8. /\ Dereferences(inst) => after = st
      /\ (~Dereferences(inst) /\ Tracked(inst)) => after = With(st, inst.base, opened)
      /\ (~Dereferences(inst) /\ ~Tracked(inst)) => after = With(freed, inst.base, Slot(Held, names))
  BY DEF FlowInst, CallLike, Stored, Part, With, FieldStored
<1>9. Tracked(inst) => opened \in Slots /\ opened.init = Held
  <2> HIDE DEF names, at
  <2> QED
    BY <1>1, <1>4, FieldStoredFacts DEF Known
<1>10. CASE Dereferences(inst)
  BY <1>1, <1>7, <1>8, <1>10, StoredEffect
<1>11. CASE ~Dereferences(inst) /\ Kind[inst.base] = "plain"
  <2>1. m2 = m
    BY <1>1, <1>11, StoredEffect
  <2>2. after[v] = st[v]
    <3>1. v # inst.base
      BY <1>6, <1>11
    <3>2. CASE Tracked(inst)
      <4> HIDE DEF opened
      <4> QED
        BY <1>2, <1>8, <1>9, <1>11, <3>1, <3>2, SlotSet
    <3>3. CASE ~Tracked(inst)
      <4>1. freed = st
        BY <1>11
      <4> HIDE DEF freed, names
      <4> QED
        BY <1>2, <1>4, <1>5, <1>8, <1>11, <3>1, <3>3, <4>1, SlotSet
    <3> QED
      BY <3>2, <3>3
  <2> QED
    BY <1>7, <2>1, <2>2
<1>12. CASE ~Dereferences(inst) /\ Kind[inst.base] = "owner"
  <2>1. ~Tracked(inst) /\ \E to \in Ended : m2 = Retarget(m, ObjectOf(inst.base), to)
    BY <1>1, <1>12, StoredEffect
  <2>4. PICK to \in Ended : m2 = Retarget(m, ObjectOf(inst.base), to)
    BY <2>1
  <2>2. v # inst.base /\ freed = Invalidated(st, inst.base)
    BY <1>6, <1>12
  <2>3. after[v] = Invalidated(st, inst.base)[v]
    <3> HIDE DEF freed, names
    <3> QED
      BY <1>2, <1>4, <1>5, <1>8, <1>12, <2>1, <2>2, SlotSet
  <2> QED
    BY <1>1, <1>6, <2>3, <2>4, SightOfEnded
<1>13. CASE ~Dereferences(inst) /\ Kind[inst.base] = "ref"
  <2>1. /\ v # inst.base \/ (Tracked(inst) /\ f # LeadingField(inst)) => m2[v][f] = m[v][f]
        /\ (v = inst.base /\ (Tracked(inst) => f = LeadingField(inst))) =>
             \/ m2[v][f] \in {Unset, Given, Stale}
             \/ m2[v][f] \notin Ended /\ a \in HandedOn(inst) /\ ComesFrom(m, a, Places(a), m2[v][f])
    BY <1>1, <1>13, StoredEffect
  <2>2. ASSUME v = inst.base, Tracked(inst) => f = LeadingField(inst), PartOf(after[v], f) = Part(Held, names)
        PROVE  Sighted(P, after[v], v, f, m2[v][f])
    <3>1. CASE m2[v][f] \in {Unset, Given, Stale}
      BY <3>1, SightOfNothing
    <3>2. CASE m2[v][f] \notin Ended /\ a \in HandedOn(inst) /\ ComesFrom(m, a, Places(a), m2[v][f])
      <4>1. /\ \A g : PartOf(st[a], g).borrows \subseteq names
            /\ st[a].borrows \subseteq names
        BY <3>2, HandedNames
      <4> HIDE DEF names, after
      <4> QED
        BY <1>3, <2>2, <3>2, <4>1, SightOfFresh
    <3> QED
      BY <2>1, <2>2, <3>1, <3>2
  <2>3. CASE v # inst.base
    <3>1. CASE Tracked(inst)
      <4>1. after[v] = st[v]
        <5> HIDE DEF opened
        <5> QED
          BY <1>2, <1>8, <1>9, <1>13, <2>3, <3>1, SlotSet
      <4> QED
        BY <1>7, <2>1, <2>3, <4>1
    <3>2. CASE ~Tracked(inst)
      <4>1. freed = st
        BY <1>13
      <4>2. after[v] = st[v]
        <5> HIDE DEF freed, names
        <5> QED
          BY <1>2, <1>4, <1>5, <1>8, <1>13, <2>3, <3>2, <4>1, SlotSet
      <4> QED
        BY <1>7, <2>1, <2>3, <4>2
    <3> QED
      BY <3>1, <3>2
  <2>4. CASE v = inst.base /\ ~Tracked(inst)
    <3>1. after[v] = Slot(Held, names)
      <4> HIDE DEF freed, names
      <4> QED
        BY <1>1, <1>2, <1>4, <1>5, <1>8, <1>13, <2>4, SlotSet
    <3> QED
      BY <1>4, <2>2, <2>4, <3>1
  <2>5. CASE v = inst.base /\ Tracked(inst)
    <3> DEFINE slot == st[v]
    <3>1. after[v] = opened
      <4> HIDE DEF opened
      <4> QED
        BY <1>1, <1>2, <1>8, <1>9, <1>13, <2>5, SlotSet
    <3>2. /\ opened \in Slots /\ opened.borrows = slot.borrows
          /\ DOMAIN slot.fields \subseteq DOMAIN opened.fields
          /\ at \in DOMAIN opened.fields /\ PartOf(opened, at) = Part(Held, names)
          /\ \A g : g # at =>
               PartOf(opened, g) = IF g \in DOMAIN slot.fields THEN slot.fields[g]
                                   ELSE IF g \in 1..at THEN Part(Held, {}) ELSE Part(Held, slot.borrows)
      <4>1. slot \in Slots
        BY DEF Known
      <4>2. opened = FieldStored(slot, at, Part(Held, names))
        BY <2>5
      <4> HIDE DEF names, at, slot, opened
      <4> QED
        BY <1>1, <1>4, <2>5, <4>1, <4>2, FieldStoredFacts
    <3>3. 1..at \subseteq DOMAIN opened.fields
      <4>1. DOMAIN opened.fields = 1..Len(opened.fields) /\ Len(opened.fields) \in Nat
        BY <3>2, SlotFacts
      <4> HIDE DEF opened, at
      <4> QED
        BY <1>1, <2>5, <3>2, <4>1
    <3>4. CASE f = at
      BY <1>1, <2>2, <2>5, <3>1, <3>2, <3>4
    <3>5. CASE f # at
      <4>1. m2[v][f] = m[v][f]
        BY <1>1, <2>1, <2>5, <3>5
      <4>2. CASE f \in DOMAIN slot.fields
        <5>1. PartOf(opened, f) = PartOf(slot, f)
          BY <3>2, <3>5, <4>2 DEF PartOf
        <5> HIDE DEF opened, slot
        <5>2. Sighted(P, opened, v, f, m[v][f])
          BY <1>7, <3>2, <5>1, SightKept DEF slot
        <5> QED
          BY <3>1, <4>1, <5>2
      <4>3. CASE f \notin DOMAIN slot.fields
        <5>1. slot \in Slots /\ Len(slot.fields) \in Nat /\ DOMAIN slot.fields = 1..Len(slot.fields)
          BY SlotFacts DEF Known
        <5>2. Len(slot.fields) < Fields[inst.base]
          <6>1. Fields[inst.base] \in Nat /\ f \in 1..Fields[inst.base]
            BY <1>1, <1>6, <2>5, ValueFacts DEF Places
          <6> HIDE DEF slot
          <6> QED
            BY <4>3, <5>1, <6>1
        <5>3. slot.borrows \subseteq {v} \cap Params
          BY <1>13, <2>5, <5>2 DEF Fine, KeepsSight, OpensSafely
        <5>4. PartOf(opened, f) = IF f \in 1..at THEN Part(Held, {}) ELSE Part(Held, slot.borrows)
          BY <3>2, <3>5, <4>3
        <5>5. /\ PartOf(opened, f).init # Unreached
              /\ f \in DOMAIN opened.fields \/ slot.borrows \subseteq PartOf(opened, f).borrows
          <6> HIDE DEF opened, slot
          <6> QED
            BY <1>2, <3>3, <5>4 DEF Part
        <5>6. Sighted(P, opened, v, f, m[v][f])
          <6>1. Sighted(P, slot, v, f, m[v][f])
            BY <1>7
          <6> HIDE DEF opened, slot
          <6> QED
            BY <1>6, <1>7, <3>2, <4>3, <5>1, <5>3, <5>5, <6>1, SightOpened
        <5> QED
          BY <3>1, <4>1, <5>6
      <4> QED
        BY <4>2, <4>3
    <3> QED
      BY <3>4, <3>5
  <2> QED
    BY <2>3, <2>4, <2>5
<1> QED
  BY <1>1, <1>10, <1>11, <1>12, <1>13

\* Calls, copies and slices.
LEMMA CallTells ==
    ASSUME ir \in Functions, NEW b \in DOMAIN ir, NEW j \in DOMAIN ir[b], ir[b][j].op \in CallLike,
           NEW P, NEW st \in Known, Fine(P, st, ir[b][j]),
           NEW m, MemOK(m), Tells(P, st, m), NEW m2 \in Effects(m, b, j)
    PROVE  Tells(P, FlowInst(st, ir[b][j]), m2)
<1> DEFINE inst == ir[b][j]
           after == FlowInst(st, inst)
           names == Sources(st, inst.res)
<1>1. MemTyped(m) /\ inst.res \in Values \cup {None} /\ Passed(inst) \subseteq DOMAIN inst.args
  BY InstFacts DEF WellTyped, MemOK, Passed
<1>2. Held \in Inits /\ Held # Unreached
  BY DEF Inits, SlotInits, Unreached, Held
<1>3. names \in SUBSET Values
  BY <1>1, SourcesType
<1>4. Slot(Held, names) \in Slots /\ Slot(Held, names).init = Held /\ \A f : PartOf(Slot(Held, names), f) = Part(Held, names)
  <2> HIDE DEF names
  <2> QED
    BY <1>2, <1>3, FreshSlot
<1>5. (inst.res \in Values => after[inst.res] = Slot(Held, names))
      /\ \A u \in Values : u # inst.res => after[u] = st[u]
  <2>1. after = With(st, inst.res, Slot(Held, names))
    BY DEF FlowInst, CallLike, With
  <2> HIDE DEF names, after
  <2> QED
    BY <1>2, <1>4, <2>1, SlotSet
<1>6. SUFFICES ASSUME NEW v \in Values, Kind[v] = "ref", NEW f \in Places(v)
               PROVE  Sighted(P, after[v], v, f, m2[v][f])
  BY DEF Tells
<1>7. CASE v # inst.res
  <2>1. m2[v][f] = m[v][f]
    BY <1>1, <1>7, CallEffect
  <2>2. Sighted(P, st[v], v, f, m[v][f])
    BY <1>6 DEF Tells
  <2> QED
    BY <1>5, <1>7, <2>1, <2>2
<1>8. CASE v = inst.res
  <2> DEFINE t == m2[v][f]
  <2>1. PartOf(after[v], f) = Part(Held, names)
    BY <1>4, <1>5, <1>8
  <2>2. ASSUME NEW i \in Passed(inst), inst.args[i] # None,
               ComesFrom(m, inst.args[i], Places(inst.args[i]), t)
        PROVE  Sighted(P, after[v], v, f, t)
    <3> DEFINE a == inst.args[i]
    <3>1. a \in Values /\ Kind[a] = "ref" /\ i \in DOMAIN inst.args
      BY <1>1, <2>2 DEF ComesFrom
    <3>2. a \in HandedOn(inst)
      BY <3>1 DEF HandedOn
    <3>3. Sources(st, a) \subseteq names
      BY <1>6, <1>8, <2>2, ValueFacts, SourcesOfOperand
    <3>4. (\A g : PartOf(st[a], g).borrows \subseteq names) /\ st[a].borrows \subseteq names
      BY <3>2, <3>3, HandedNames
    <3>5. t \notin Ended
      <4>1. PICK g \in Places(a) : t = m[a][g]
        BY <2>2 DEF ComesFrom
      <4>2. InSight(st[a], g, m[a][g])
        BY <3>1, <4>1 DEF Tells, Sighted
      <4>3. PartOf(st[a], g).init \notin Lost
        BY <3>1, PassedThere
      <4> QED
        BY <4>1, <4>2, <4>3 DEF InSight
    <3> HIDE DEF names, after, t, a
    <3> QED
      BY <1>3, <2>1, <2>2, <3>4, <3>5, SightOfFresh DEF a
  <2>3. t = Unset \/ \E i \in Passed(inst) : inst.args[i] # None /\ ComesFrom(m, inst.args[i], Places(inst.args[i]), t)
    BY <1>1, <1>8, CallEffect
  <2> QED
    BY <2>2, <2>3, SightOfNothing
<1> QED
  BY <1>7, <1>8

\* What is known before an instruction that is let through is known after it.
LEMMA FlowTells ==
    ASSUME ir \in Functions, NEW b \in DOMAIN ir, NEW j \in DOMAIN ir[b],
           NEW P, NEW st \in Known, Fine(P, st, ir[b][j]),
           NEW m, MemOK(m), Tells(P, st, m), NEW m2 \in Effects(m, b, j),
           ir[b][j].op = "storage_init" => st[ir[b][j].base] = Slot(Uninit, {})
    PROVE  Tells(P, FlowInst(st, ir[b][j]), m2)
<1> DEFINE op == ir[b][j].op
<1>1. CASE op \in {"storage_live", "storage_init", "storage_dead", "drop"}
  BY <1>1, StorageTells
<1>2. CASE op = "load"
  BY <1>2, LoadTells
<1>3. CASE op = "ref"
  BY <1>3, RefTells
<1>4. CASE op = "store"
  BY <1>4, StoreTells
<1>5. CASE op \in CallLike
  BY <1>5, CallTells
<1>6. CASE op \notin {"storage_live", "storage_init", "storage_dead", "drop", "load", "ref", "store"} \cup CallLike
  <2>1. m2 = m /\ FlowInst(st, ir[b][j]) = st
    BY <1>6, OtherEffect DEF FlowInst
  <2> QED
    BY <2>1
<1> QED
  BY <1>1, <1>2, <1>3, <1>4, <1>5, <1>6


\* Where paths meet, what is known is true on each of them.
LEMMA MergeTells ==
    ASSUME NEW P, NEW a \in Known, NEW b \in Known, NEW m, MemOK(m), Tells(P, b, m),
           \A v \in Values : Kind[v] = "ref" => OpensSafely(b[v], v, Len(a[v].fields)),
           NEW c, \A v \in Values : c[v] = Merged(a[v], b[v])
    PROVE  Tells(P, c, m)
<1>1. SUFFICES ASSUME NEW v \in Values, Kind[v] = "ref", NEW f \in Places(v)
               PROVE  Sighted(P, c[v], v, f, m[v][f])
  BY DEF Tells
<1> DEFINE old == a[v]
           new == b[v]
           both == Merged(old, new)
           t == m[v][f]
<1>2. /\ old \in Slots /\ (old.init = Unreached => old.fields = <<>>)
      /\ new \in Slots /\ (new.init = Unreached => new.fields = <<>>)
  BY DEF Known
<1>3. Sighted(P, new, v, f, t) /\ MayHold(v, t)
  BY <1>1 DEF Tells, MemOK
<1>4. OpensSafely(new, v, Len(old.fields))
  BY <1>1
<1>5. c[v] = both
  OBVIOUS
<1> HIDE DEF old, new, t
<1>6. /\ Len(old.fields) \in Nat /\ Len(new.fields) \in Nat
      /\ DOMAIN old.fields = 1..Len(old.fields) /\ DOMAIN new.fields = 1..Len(new.fields)
  BY <1>2, SlotFacts
<1>7. CASE new.init = Unreached
  <2>1. f \notin DOMAIN new.fields
    BY <1>2, <1>7
  <2>2. PartOf(new, f).init = Unreached /\ Unreached \notin Lost
    BY <1>7, <2>1 DEF PartOf, Part, Lost, Unreached, Uninit, Moved, Dangling
  <2>3. t \notin Ended /\ \A u \in Values : t # StorageOf(u) /\ t # ObjectOf(u) /\ (P => t # CallersOf(u))
    BY <1>3, <2>2 DEF Sighted, InSight, ParamInSight
  <2>4. Sighted(P, both, v, f, t)
    BY <2>3 DEF Sighted, InSight, ParamInSight
  <2> QED
    BY <1>5, <2>4 DEF t
<1>8. CASE new.init # Unreached
  <2>1. /\ DOMAIN new.fields \subseteq DOMAIN both.fields
        /\ DOMAIN old.fields \subseteq DOMAIN both.fields
        /\ new.borrows \subseteq both.borrows
    BY <1>2, <1>8, MergedFacts
  <2>2. /\ PartOf(new, f).init \in Lost => PartOf(both, f).init \in Lost
        /\ PartOf(new, f).init # Unreached =>
             /\ PartOf(both, f).init # Unreached
             /\ f \notin DOMAIN old.fields \/ f \in DOMAIN new.fields =>
                  PartOf(new, f).borrows \subseteq PartOf(both, f).borrows
    <3>1. \A x : LET part == PartOf(new, x)
                     known == IF x \in 1..Len(old.fields) /\ x \notin DOMAIN new.fields THEN {} ELSE part.borrows
                 IN /\ part.init \in Lost => PartOf(both, x).init \in Lost
                    /\ part.init # Unreached => /\ PartOf(both, x).init # Unreached
                                                /\ known \subseteq PartOf(both, x).borrows
      BY <1>2, <1>8, MergedFacts
    <3> HIDE DEF both
    <3> QED
      BY <1>6, <3>1
  <2> HIDE DEF both
  <2>3. CASE f \notin DOMAIN old.fields \/ f \in DOMAIN new.fields
    <3>1. Sighted(P, both, v, f, t)
      BY <1>3, <2>1, <2>2, <2>3, SightKept
    <3> QED
      BY <1>5, <3>1 DEF t
  <2>4. CASE f \in DOMAIN old.fields /\ f \notin DOMAIN new.fields
    <3>1. Len(new.fields) < Len(old.fields)
      BY <1>6, <2>4
    <3>2. new.borrows \subseteq {v} \cap Params
      BY <1>4, <3>1 DEF OpensSafely
    <3>3. PartOf(new, f).init = new.init
      BY <2>4 DEF PartOf, Part
    <3>4. Sighted(P, both, v, f, t)
      BY <1>1, <1>2, <1>3, <1>8, <2>1, <2>2, <2>4, <3>2, <3>3, SightOpened
    <3> QED
      BY <1>5, <3>4 DEF t
  <2> QED
    BY <2>3, <2>4
<1> QED
  BY <1>7, <1>8

\* What the run starts with.
FirstMem == [v \in Values |-> Filled(v, IF v \in Params /\ Kind[v] = "ref" THEN CallersOf(v) ELSE Unset)]

\* What is known at the entry is true of it.
LEMMA EntryTells ==
    ASSUME NEW P
    PROVE  MemOK(FirstMem) /\ Tells(P, AtEntry, FirstMem)
<1>1. ASSUME NEW v \in Values
      PROVE  /\ FirstMem[v] \in [Places(v) -> Targets]
             /\ \A f \in Places(v) :
                  /\ FirstMem[v][f] = IF v \in Params /\ Kind[v] = "ref" THEN CallersOf(v) ELSE Unset
                  /\ MayHold(v, FirstMem[v][f])
  <2> DEFINE t == IF v \in Params /\ Kind[v] = "ref" THEN CallersOf(v) ELSE Unset
  <2>1. t \in Targets
    BY <1>1, TargetFacts
  <2>2. MayHold(v, t)
    BY TargetFacts DEF MayHold
  <2>3. FirstMem[v] = Filled(v, t)
    BY <1>1 DEF FirstMem
  <2> HIDE DEF t
  <2>4. FirstMem[v] \in [Places(v) -> Targets] /\ \A f \in Places(v) : FirstMem[v][f] = t
    BY <2>1, <2>3, FilledFacts
  <2> QED
    BY <2>2, <2>4 DEF t
<1>2. MemOK(FirstMem)
  BY <1>1 DEF MemOK, MemTyped, FirstMem
<1>3. ASSUME NEW v \in Values, Kind[v] = "ref", NEW f \in Places(v)
      PROVE  Sighted(P, AtEntry[v], v, f, FirstMem[v][f])
  <2>1. CASE v \in Params
    <3>1. AtEntry[v] = Slot(Held, {v}) /\ FirstMem[v][f] = CallersOf(v)
      BY <1>1, <1>3, <2>1 DEF AtEntry
    <3>2. PartOf(AtEntry[v], f) = Part(Held, {v})
      BY <3>1, FreshSlot DEF Inits, SlotInits
    <3>3. PartOf(AtEntry[v], f).init # Unreached /\ PartOf(AtEntry[v], f).borrows = {v}
      BY <3>2 DEF Part, Held, Unreached
    <3>4. InSight(AtEntry[v], f, CallersOf(v))
      BY TargetFacts DEF InSight
    <3>5. ParamInSight(AtEntry[v], v, f, CallersOf(v))
      BY <3>3, TargetFacts DEF ParamInSight
    <3> QED
      BY <3>1, <3>4, <3>5 DEF Sighted
  <2>2. CASE v \notin Params
    BY <1>1, <2>2, SightOfNothing
  <2> QED
    BY <2>1, <2>2
<1> QED
  BY <1>2, <1>3 DEF Tells

\* Nothing that is let through reads or passes what is gone.
LEMMA NothingEnded ==
    ASSUME ir \in Functions, NEW b \in DOMAIN ir, NEW j \in DOMAIN ir[b],
           NEW P, NEW st \in Known, Fine(P, st, ir[b][j]), NEW m, MemOK(m), Tells(P, st, m),
           NEW v \in Values, NEW f \in Places(v),
           (ir[b][j].op \in {"load", "ref"} /\ Follows(ir[b][j], v, f)) \/ Hands(ir[b][j], v)
    PROVE  m[v][f] \notin Ended
<1> DEFINE inst == ir[b][j]
<1>1. SUFFICES ASSUME m[v][f] \in Ended PROVE FALSE
  OBVIOUS
<1>2. Kind[v] = "ref"
  BY <1>1, MayHoldFacts, TargetFacts DEF MemOK
<1>3. PartOf(st[v], f).init \in Lost
  BY <1>1, <1>2 DEF Tells, Sighted, InSight
<1>4. CASE inst.op \in {"load", "ref"} /\ Follows(inst, v, f)
  <2>1. Placed(inst) /\ inst.base = v /\ f \in Read(inst)
    BY <1>4, PlacedFacts DEF Follows, Read
  <2> QED
    BY <1>2, <1>3, <1>4, <2>1, ReadThere
<1>5. CASE Hands(inst, v)
  <2>1. inst.op \in CallLike /\ \E i \in DOMAIN inst.args : inst.args[i] = v
    BY <1>5 DEF Hands, CallLike
  <2> QED
    BY <1>2, <1>3, <2>1, PassedThere
<1> QED
  BY <1>4, <1>5

\* What is returned came through a parameter that is collected.
LEMMA ReturnTold ==
    ASSUME ir \in Functions, NEW b \in DOMAIN ir, NEW j \in DOMAIN ir[b],
           ir[b][j].op = "return", ir[b][j].args # <<>>,
           NEW v, v = ir[b][j].args[1], v # None, Kind[v] = "ref",
           NEW st \in Known, Fine(TRUE, st, ir[b][j]), NEW m, MemOK(m), Tells(TRUE, st, m),
           NEW f \in Places(v)
    PROVE  m[v][f] \in {CallersOf(q) : q \in ReturnedParams(st, ir[b][j])} \cup {Given, Stale, Unset}
<1> DEFINE inst == ir[b][j]
           names == Sources(st, v)
           t == m[v][f]
<1>1. 1 \in DOMAIN inst.args /\ v \in Values
  <2>1. inst \in PathInsts /\ WellTyped(inst)
    BY InstFacts, LivenessAssumption DEF WellFormed
  <2>2. inst.args \in Seq(Int)
    BY <2>1 DEF PathInsts
  <2>3. 1 \in DOMAIN inst.args
    BY <2>2
  <2> QED
    BY <2>1, <2>3 DEF WellTyped
<1>2. v \in HandedOn(inst)
  BY <1>1 DEF HandedOn
<1>3. (\A g : PartOf(st[v], g).borrows \subseteq names) /\ st[v].borrows \subseteq names
  BY <1>2, HandedNames
<1>4. InSight(st[v], f, t) /\ ParamInSight(st[v], v, f, t) /\ MayHold(v, t) /\ t \in Targets
  BY <1>1 DEF Tells, Sighted, MemOK, MemTyped
<1>5. ~Tainted(names)
  <2>1. ~ReturnOutlives(st, inst)
    BY DEF Fine, Reported
  <2>2. Flattened(st[v]).init # Dangling /\ ~OutlivesItsSource(st, v, None, Whole)
    BY <2>1 DEF ReturnOutlives
  <2>3. \A s \in names : Kind[s] # "owner"
    BY <1>2, <2>2 DEF Fine, KeepsParams
  <2>4. \A s \in names \ Params : Kind[s] = "owner"
    BY <2>2 DEF OutlivesItsSource
  <2> QED
    BY <2>3, <2>4 DEF Tainted
<1>6. ~Tainted(PartOf(st[v], f).borrows)
  BY <1>3, <1>5 DEF Tainted
<1>7. t \notin Ended
  BY <1>4, <1>6 DEF ParamInSight
<1>8. \A u \in Values : t # StorageOf(u) /\ t # ObjectOf(u)
  BY <1>4, <1>6 DEF InSight, ParamInSight, MayHold, Tainted
<1>9. ASSUME NEW q \in Values, t = CallersOf(q)
      PROVE  q \in ReturnedParams(st, inst)
  <2>1. q \in names
    BY <1>3, <1>4, <1>6, <1>9 DEF ParamInSight
  <2>2. q \in Params
    BY <1>4, <1>9 DEF MayHold
  <2> QED
    BY <2>1, <2>2 DEF ReturnedParams
<1>10. t \in {Unset, Given, Stale} \/ \E q \in Values : t = CallersOf(q)
  BY <1>4, <1>7, <1>8, TargetKinds
<1> QED
  BY <1>9, <1>10


-----------------------------------------------------------------------------
(***************************************************************************)
(* What is told from the body alone does not change with the step.         *)
(***************************************************************************)
\* definition_of.
LEMMA DefinitionKept ==
    ASSUME ir' = ir, NEW v
    PROVE  (HasDefinition(v)' <=> HasDefinition(v)) /\ DefinitionOf(v)' = DefinitionOf(v)
<1>1. HasDefinition(v)' <=> HasDefinition(v)
  BY DEF HasDefinition
<1>2. DefinitionOf(v)' = DefinitionOf(v)
  BY DEF DefinitionOf
<1> QED
  BY <1>1, <1>2

\* collect_sources.
LEMMA SourcesKept ==
    ASSUME ir' = ir, NEW st, NEW v
    PROVE  Sources(st, v)' = Sources(st, v)
<1>1. \A u : GoesBack(u)' = GoesBack(u)
  BY DefinitionKept DEF GoesBack
<1>2. Origins(v)' = Origins(v)
  BY <1>1 DEF Origins
<1>3. \A u : OwnSources(st, u)' = OwnSources(st, u)
  BY DefinitionKept DEF OwnSources
<1>4. PICK found : found = Origins(v)
  OBVIOUS
<1>5. UNION {OwnSources(st, u)' : u \in found} = UNION {OwnSources(st, u) : u \in found}
  BY <1>3
<1> QED
  BY <1>2, <1>3, <1>4, <1>5 DEF Sources

\* flow_inst and returned_params.
LEMMA FlowKept ==
    ASSUME ir' = ir, NEW st, NEW inst
    PROVE  /\ FlowInst(st, inst)' = FlowInst(st, inst)
           /\ ReturnedParams(st, inst)' = ReturnedParams(st, inst)
<1>1. Stored(st, inst)' = Stored(st, inst)
  BY SourcesKept DEF Stored
<1>2. FlowInst(st, inst)' = FlowInst(st, inst)
  BY <1>1, SourcesKept DEF FlowInst
<1>3. ReturnedParams(st, inst)' = ReturnedParams(st, inst)
  BY SourcesKept DEF ReturnedParams
<1> QED
  BY <1>2, <1>3

\* The reports.
LEMMA ReportedKept ==
    ASSUME ir' = ir, exits' = exits, NEW st, NEW after, NEW inst
    PROVE  Reported(st, after, inst)' <=> Reported(st, after, inst)
<1>1. \A source, heldIn, f : LiveWhereStorageEnds(source, heldIn, f)' <=> LiveWhereStorageEnds(source, heldIn, f)
  BY DEF LiveWhereStorageEnds, LiveAfter
<1>2. \A s, borrow, heldIn, f : OutlivesItsSource(s, borrow, heldIn, f)' <=> OutlivesItsSource(s, borrow, heldIn, f)
  <2>1. ASSUME NEW s, NEW borrow, NEW heldIn, NEW f
        PROVE  OutlivesItsSource(s, borrow, heldIn, f)' <=> OutlivesItsSource(s, borrow, heldIn, f)
    <3>1. Sources(s, borrow)' = Sources(s, borrow)
      BY SourcesKept
    <3> QED
      BY <1>1, <3>1 DEF OutlivesItsSource
  <2> QED
    BY <2>1
<1>3. StoreOutlives(st, after, inst)' <=> StoreOutlives(st, after, inst)
  BY <1>2 DEF StoreOutlives
<1>4. ReturnOutlives(st, inst)' <=> ReturnOutlives(st, inst)
  BY <1>2 DEF ReturnOutlives
<1> QED
  BY <1>3, <1>4 DEF Reported

\* Whether an instruction is let through in sight.
LEMMA FineKept ==
    ASSUME ir' = ir, exits' = exits, NEW P, NEW st, NEW inst
    PROVE  Fine(P, st, inst)' <=> Fine(P, st, inst)
<1>1. PICK after : after = FlowInst(st, inst)
  OBVIOUS
<1>2. FlowInst(st, inst)' = after
  BY <1>1, FlowKept
<1>3. Reported(st, after, inst)' <=> Reported(st, after, inst)
  BY ReportedKept
<1>4. \A v : Sources(st, v)' = Sources(st, v)
  BY SourcesKept
<1>5. KeepsSight(st, inst)' <=> KeepsSight(st, inst)
  BY <1>4 DEF KeepsSight
<1>6. KeepsParams(st, inst)' <=> KeepsParams(st, inst)
  BY <1>4 DEF KeepsParams
<1> QED
  BY <1>1, <1>2, <1>3, <1>5, <1>6 DEF Fine


-----------------------------------------------------------------------------
(***************************************************************************)
(* The invariant: what holds throughout ...                                *)
(***************************************************************************)
Shape ==
    /\ ir \in Functions
    /\ exits \in [Blocks -> SUBSET Bits]
    /\ reached \in SUBSET Blocks /\ 1 \in reached
    /\ entries \in [Blocks -> Known] /\ entries[1] = AtEntry
    /\ state \in Known
    /\ changed \in BOOLEAN
    /\ returned \in SUBSET Params
    /\ phase \in {"sweep", "report", "run", "rejected"}
    /\ block \in 1..(Len(ir) + 1)
    /\ index \in 0..(IF block \in Blocks THEN Len(ir[block]) + 1 ELSE 0)
    /\ MemTyped(mem)
    /\ phase # "run" => mem = FirstMem

\* It has the types.
LEMMA ShapeType == Shape => TypeOK
<1> SUFFICES ASSUME Shape PROVE TypeOK
  OBVIOUS
<1>1. Known \subseteq [Values -> Slots]
  BY DEF Known
<1>2. entries \in [Blocks -> [Values -> Slots]] /\ state \in [Values -> Slots]
  BY <1>1 DEF Shape
<1> QED
  BY <1>2 DEF Shape, TypeOK, MemTyped

\* It holds at the start.
LEMMA ShapeInit == Init => Shape
<1> SUFFICES ASSUME Init PROVE Shape
  OBVIOUS
<1>1. ir \in Functions /\ Len(ir) \in Nat /\ Len(ir) >= 1 /\ DOMAIN ir = Blocks /\ Len(ir[1]) \in Nat
  BY BodyFacts DEF Init, Blocks
<1>2. exits \in [Blocks -> SUBSET Bits]
  BY <1>1, ExitsType DEF Init
<1>3. NoState \in Known /\ AtEntry \in Known
  BY FirstStates
<1>4. entries \in [Blocks -> Known] /\ entries[1] = AtEntry /\ reached \in SUBSET Blocks /\ 1 \in reached
  BY <1>1, <1>3 DEF Init, Blocks
<1>5. mem = FirstMem /\ MemTyped(mem)
  BY EntryTells DEF Init, FirstMem, MemOK
<1>6. block \in 1..(Len(ir) + 1) /\ index \in 0..(IF block \in Blocks THEN Len(ir[block]) + 1 ELSE 0)
  BY <1>1 DEF Init, Blocks
<1> QED
  BY <1>1, <1>2, <1>3, <1>4, <1>5, <1>6 DEF Init, Shape

\* Every step keeps it.
LEMMA ShapeNext == Shape /\ [Next]_vars => Shape'
<1> SUFFICES ASSUME Shape, [Next]_vars PROVE Shape'
  OBVIOUS
<1>1. /\ ir \in Functions /\ Len(ir) \in Nat /\ Len(ir) >= 1 /\ DOMAIN ir = Blocks /\ Blocks = 1..Len(ir)
      /\ \A b \in Blocks : /\ SuccessorSet(ir[b]) \subseteq Blocks /\ Len(ir[b]) \in Nat
                           /\ DOMAIN ir[b] = 1..Len(ir[b]) /\ 1 \notin SuccessorSet(ir[b])
  <2>1. ir \in Functions
    BY DEF Shape
  <2> QED
    BY <2>1, BodyFacts, InstFacts, FlowAssumption DEF Blocks
<1>2. CASE EnterBlock
  <2>1. ir' = ir /\ Blocks' = Blocks
    BY <1>2 DEF EnterBlock, Blocks
  <2>2. state' \in Known
    BY <1>2 DEF EnterBlock, Flowing, Shape
  <2>3. block' \in 1..(Len(ir) + 1) /\ index' \in 0..(IF block' \in Blocks THEN Len(ir[block']) + 1 ELSE 0)
    BY <1>1, <1>2 DEF EnterBlock, Flowing, Shape
  <2> QED
    BY <1>2, <2>1, <2>2, <2>3 DEF EnterBlock, Shape
<1>3. CASE FlowStep
  <2>1. ir' = ir /\ Blocks' = Blocks /\ block \in Blocks /\ index \in DOMAIN ir[block]
    BY <1>1, <1>3 DEF FlowStep, Flowing, Blocks
  <2>2. state' \in Known
    BY <1>1, <1>3, <2>1, FlowInstType DEF FlowStep, Here, Shape
  <2>3. returned' \in SUBSET Params
    BY <1>3 DEF FlowStep, ReturnedParams, Shape
  <2>4. index' \in 0..(IF block \in Blocks THEN Len(ir[block]) + 1 ELSE 0)
    BY <1>1, <1>3, <2>1 DEF FlowStep
  <2>5. phase' \in {"sweep", "report", "run", "rejected"} /\ phase # "run" /\ phase' # "run"
    BY <1>3 DEF FlowStep, Flowing
  <2> QED
    BY <1>3, <2>1, <2>2, <2>3, <2>4, <2>5 DEF FlowStep, Shape
<1>4. CASE LeaveBlock
  <2>1. ir' = ir /\ Blocks' = Blocks /\ block \in Blocks
    BY <1>4 DEF LeaveBlock, Flowing, Blocks
  <2>2. ASSUME NEW t \in Blocks PROVE Leaving(t) \in Known
    <3>1. entries[t] \in Known /\ state \in Known
      BY <2>2 DEF Shape
    <3> QED
      BY <3>1, MergedKnown DEF Leaving
  <2>3. entries' \in [Blocks -> Known] /\ entries'[1] = AtEntry
    <3>1. CASE phase = "sweep"
      <4>1. entries' = [t \in Blocks |-> IF t \in SuccessorSet(ir[block]) THEN Leaving(t) ELSE entries[t]]
        BY <1>4, <3>1 DEF LeaveBlock
      <4>2. 1 \in Blocks /\ 1 \notin SuccessorSet(ir[block])
        BY <1>1, <2>1
      <4> QED
        BY <2>2, <4>1, <4>2 DEF Shape
    <3>2. CASE phase # "sweep"
      BY <1>4, <3>2 DEF LeaveBlock, Shape
    <3> QED
      BY <3>1, <3>2
  <2>4. reached' \in SUBSET Blocks /\ 1 \in reached' /\ changed' \in BOOLEAN
    <3>1. CASE phase = "sweep"
      <4>1. reached' = reached \cup SuccessorSet(ir[block])
        BY <1>4, <3>1 DEF LeaveBlock
      <4>2. changed' = (changed \/ entries' # entries \/ reached' # reached)
        BY <1>4, <3>1 DEF LeaveBlock
      <4> QED
        BY <1>1, <2>1, <4>1, <4>2 DEF Shape
    <3>2. CASE phase # "sweep"
      BY <1>4, <3>2 DEF LeaveBlock, Shape
    <3> QED
      BY <3>1, <3>2
  <2>5. state' \in Known
    BY <1>4, FirstStates DEF LeaveBlock
  <2>6. block' \in 1..(Len(ir) + 1) /\ index' = 0 /\ index' \in 0..(IF block' \in Blocks THEN Len(ir[block']) + 1 ELSE 0)
    BY <1>1, <1>4, <2>1 DEF LeaveBlock
  <2> QED
    BY <1>4, <2>1, <2>3, <2>4, <2>5, <2>6 DEF LeaveBlock, Shape
<1>5. CASE SweepOver
  <2>1. ir' = ir /\ Blocks' = Blocks
    BY <1>5 DEF SweepOver, Blocks
  <2>2. block' \in 1..(Len(ir) + 1) /\ index' \in 0..(IF block' \in Blocks THEN Len(ir[block']) + 1 ELSE 0)
    BY <1>1, <1>5 DEF SweepOver
  <2>3. phase' \in {"sweep", "report", "run", "rejected"} /\ phase # "run"
    BY <1>5 DEF SweepOver
  <2> QED
    BY <1>5, <2>1, <2>2, <2>3 DEF SweepOver, Shape
<1>6. CASE RunInst
  <2>1. ir' = ir /\ Blocks' = Blocks /\ block \in Blocks /\ index \in DOMAIN ir[block]
    BY <1>1, <1>6 DEF RunInst, Running, Blocks, Shape
  <2>2. MemTyped(mem')
    BY <1>1, <1>6, <2>1, EffectsTyped DEF RunInst, Here, Shape
  <2>3. index' \in 0..(IF block \in Blocks THEN Len(ir[block]) + 1 ELSE 0)
    BY <1>1, <1>6, <2>1 DEF RunInst, Running
  <2> QED
    BY <1>6, <2>1, <2>2, <2>3 DEF RunInst, Running, Shape, MemTyped
<1>7. CASE RunEdge
  <2>1. ir' = ir /\ Blocks' = Blocks /\ block \in Blocks
    BY <1>1, <1>7 DEF RunEdge, Running, Blocks, Shape
  <2>2. block' \in Blocks /\ index' = 1
    BY <1>1, <1>7, <2>1 DEF RunEdge
  <2>3. block' \in 1..(Len(ir) + 1) /\ index' \in 0..(IF block' \in Blocks THEN Len(ir[block']) + 1 ELSE 0)
    BY <1>1, <2>2
  <2> QED
    BY <1>7, <2>1, <2>3 DEF RunEdge, Running, Shape
<1>8. CASE RunOver \/ UNCHANGED vars
  <2>1. UNCHANGED vars
    BY <1>8 DEF RunOver
  <2> QED
    BY <2>1 DEF vars, Shape, Blocks, MemTyped
<1> QED
  BY <1>2, <1>3, <1>4, <1>5, <1>6, <1>7, <1>8 DEF Next, Check

\* The states mir_borrowck flows are over the function's values and the run
\* stays inside the body: the type invariant, for every set of functions.
THEOREM FlowTypeCorrect == Spec => []TypeOK
<1>1. Spec => []Shape
  BY ShapeInit, ShapeNext, PTL DEF Spec
<1> QED
  BY <1>1, ShapeType, PTL


(***************************************************************************)
(* ... and in each phase.  sts are the states before each instruction of a *)
(* block and at its end.                                                   *)
(***************************************************************************)
Flows(c, sts, n) ==
    /\ sts \in [1..(Len(ir[c]) + 1) -> Known]
    /\ sts[1] = entries[c]
    /\ \A k \in 1..(n - 1) : sts[k + 1] = FlowInst(sts[k], ir[c][k])

\* Another sweep of the block would change nothing.
Settled(c, sts) ==
    \A t \in SuccessorSet(ir[c]) :
        /\ t \in reached
        /\ \A v \in Values : entries[t][v] = Merged(entries[t][v], sts[Len(ir[c]) + 1][v])

\* The block was gone through up to n without a report.
Cleared(P, c, sts, n) ==
    \A k \in 1..(n - 1) : Fine(P, sts[k], ir[c][k]) /\ ReturnedParams(sts[k], ir[c][k]) \subseteq returned

Joined(c, sts) ==
    \A t \in SuccessorSet(ir[c]) : \A v \in Values :
        Kind[v] = "ref" => OpensSafely(sts[Len(ir[c]) + 1][v], v, Len(entries[t][v].fields))

Swept ==
    phase = "sweep" =>
        /\ index >= 1 => block \in reached /\ \E sts : Flows(block, sts, index) /\ sts[index] = state
        /\ ~changed => \A c \in reached : c < block =>
                         \E sts : Flows(c, sts, Len(ir[c]) + 1) /\ Settled(c, sts)

Reports(P) ==
    phase = "report" =>
        /\ index >= 1 => block \in reached
        /\ \A c \in reached : \E sts :
             /\ Flows(c, sts, Len(ir[c]) + 1) /\ Settled(c, sts)
             /\ c < block => Cleared(P, c, sts, Len(ir[c]) + 1) /\ Joined(c, sts)
             /\ (c = block /\ index >= 1) => state = sts[index] /\ Cleared(P, c, sts, index)

Runs(P) ==
    phase = "run" =>
        /\ block \in reached /\ index >= 1 /\ MemOK(mem)
        /\ \A c \in reached : \E sts :
             /\ Flows(c, sts, Len(ir[c]) + 1) /\ Settled(c, sts)
             /\ Cleared(P, c, sts, Len(ir[c]) + 1) /\ Joined(c, sts)
             /\ c = block => Tells(P, sts[index], mem)

Sound(P) == Shape /\ Swept /\ Reports(P) /\ Runs(P)

\* The states of a block are told from the body and its entry.
LEMMA FlowsKept ==
    ASSUME ir' = ir, NEW c, entries'[c] = entries[c], NEW sts, NEW n
    PROVE  Flows(c, sts, n)' <=> Flows(c, sts, n)
<1>1. PICK body : body = ir
  OBVIOUS
<1>2. \A k : FlowInst(sts[k], body[c][k])' = FlowInst(sts[k], body[c][k])
  BY FlowKept
<1>3. \A k : FlowInst(sts[k], ir[c][k])' = FlowInst(sts[k], ir[c][k])
  BY <1>1, <1>2
<1> QED
  BY <1>3 DEF Flows

\* What was cleared stays so.
LEMMA ClearedKept ==
    ASSUME ir' = ir, exits' = exits, returned \subseteq returned', NEW P, NEW c, NEW sts, NEW n, Cleared(P, c, sts, n)
    PROVE  Cleared(P, c, sts, n)'
<1>1. PICK body : body = ir
  OBVIOUS
<1>2. \A k : (Fine(P, sts[k], body[c][k])' <=> Fine(P, sts[k], body[c][k]))
             /\ ReturnedParams(sts[k], body[c][k])' = ReturnedParams(sts[k], body[c][k])
  BY FlowKept, FineKept
<1>3. \A k : (Fine(P, sts[k], ir[c][k])' <=> Fine(P, sts[k], ir[c][k]))
             /\ ReturnedParams(sts[k], ir[c][k])' = ReturnedParams(sts[k], ir[c][k])
  BY <1>1, <1>2
<1> QED
  BY <1>3 DEF Cleared

\* What holds of settled blocks stays so.
LEMMA SettledKept ==
    ASSUME ir' = ir, entries' = entries, reached' = reached, NEW c, NEW sts
    PROVE  (Settled(c, sts)' <=> Settled(c, sts)) /\ (Joined(c, sts)' <=> Joined(c, sts))
BY DEF Settled, Joined

\* What a body is like, of the function checked.
LEMMA BodyShape ==
    ASSUME Shape
    PROVE  /\ ir \in Functions /\ Len(ir) \in Nat /\ Len(ir) >= 1 /\ DOMAIN ir = Blocks /\ Blocks = 1..Len(ir)
           /\ \A b \in Blocks : /\ SuccessorSet(ir[b]) \subseteq Blocks /\ Len(ir[b]) \in Nat
                                /\ DOMAIN ir[b] = 1..Len(ir[b])
           /\ index \in Nat /\ block \in Nat
           /\ index >= 1 => block \in Blocks /\ index <= Len(ir[block]) + 1
<1>1. ir \in Functions
  BY DEF Shape
<1>2. /\ Len(ir) \in Nat /\ Len(ir) >= 1 /\ DOMAIN ir = Blocks /\ Blocks = 1..Len(ir)
      /\ \A b \in Blocks : /\ SuccessorSet(ir[b]) \subseteq Blocks /\ Len(ir[b]) \in Nat
                           /\ DOMAIN ir[b] = 1..Len(ir[b])
  BY <1>1, BodyFacts DEF Blocks
<1> QED
  BY <1>1, <1>2 DEF Shape

\* A sweep goes through the blocks in order.
LEMMA SweptNext ==
    ASSUME Shape, Swept, [Next]_vars
    PROVE  Swept'
<1>1. SUFFICES ASSUME phase' = "sweep" PROVE Swept'
  BY DEF Swept
<1>2. /\ ir \in Functions /\ Len(ir) \in Nat /\ DOMAIN ir = Blocks
      /\ \A b \in Blocks : Len(ir[b]) \in Nat /\ DOMAIN ir[b] = 1..Len(ir[b])
      /\ index \in Nat /\ block \in Nat /\ (index >= 1 => block \in Blocks)
  BY BodyShape
<1>3. reached \subseteq Blocks /\ entries \in [Blocks -> Known] /\ state \in Known /\ reached \subseteq Nat
  BY BodyShape DEF Shape
<1>4. CASE EnterBlock
  <2>1. /\ phase = "sweep" /\ ir' = ir /\ entries' = entries /\ reached' = reached /\ changed' = changed /\ index = 0
    BY <1>1, <1>4 DEF EnterBlock
  <2>2. ASSUME NEW c \in reached, c < block', ~changed
        PROVE  (\E sts : Flows(c, sts, Len(ir[c]) + 1) /\ Settled(c, sts))'
    <3>1. c < block
      BY <1>2, <1>3, <1>4, <2>2 DEF EnterBlock
    <3>2. PICK sts : Flows(c, sts, Len(ir[c]) + 1) /\ Settled(c, sts)
      BY <2>1, <2>2, <3>1 DEF Swept
    <3>3. PICK n : n = Len(ir[c]) + 1
      OBVIOUS
    <3>4. Flows(c, sts, n)' /\ Settled(c, sts)' /\ Len(ir[c])' + 1 = n
      BY <2>1, <3>2, <3>3, FlowsKept, SettledKept
    <3> QED
      BY <3>4
  <2>3. CASE block \in reached
    <3>1. state' = entries[block] /\ index' = 1 /\ block' = block /\ block \in Blocks
      BY <1>3, <1>4, <2>3 DEF EnterBlock
    <3>2. PICK b, sts : b = block /\ sts = [k \in 1..(Len(ir[block]) + 1) |-> entries[block]]
      OBVIOUS
    <3>3. Flows(b, sts, 1) /\ sts[1] = state'
      BY <1>2, <1>3, <3>1, <3>2 DEF Flows
    <3>4. Flows(b, sts, 1)'
      BY <2>1, <3>3, FlowsKept
    <3>5. (\E s : Flows(block, s, index) /\ s[index] = state)'
      BY <3>1, <3>2, <3>3, <3>4
    <3> QED
      BY <2>1, <2>2, <2>3, <3>1, <3>5 DEF Swept
  <2>4. CASE block \notin reached
    <3>1. index' = 0
      BY <1>4, <2>1, <2>4 DEF EnterBlock
    <3> QED
      BY <2>1, <2>2, <3>1 DEF Swept
  <2> QED
    BY <2>3, <2>4
<1>5. CASE FlowStep
  <2>1. /\ phase = "sweep" /\ ir' = ir /\ entries' = entries /\ reached' = reached /\ changed' = changed
        /\ block' = block /\ index' = index + 1 /\ state' = FlowInst(state, ir[block][index])
        /\ index \in 1..Len(ir[block]) /\ block \in Blocks
    BY <1>1, <1>5 DEF FlowStep, Flowing, Here
  <2>2. PICK sts : Flows(block, sts, index) /\ sts[index] = state
    BY <1>2, <2>1 DEF Swept
  <2>3. block \in reached
    BY <1>2, <2>1 DEF Swept
  <2>4. PICK b, n, next : b = block /\ n = index + 1 /\ next = [sts EXCEPT ![index + 1] = state']
    OBVIOUS
  <2>5. state' \in Known
    BY <1>2, <1>3, <2>1, FlowInstType
  <2>6. sts \in [1..(Len(ir[block]) + 1) -> Known] /\ sts[1] = entries[block]
        /\ \A k \in 1..(index - 1) : sts[k + 1] = FlowInst(sts[k], ir[block][k])
    BY <2>2 DEF Flows
  <2>7. next \in [1..(Len(ir[block]) + 1) -> Known] /\ next[index + 1] = state'
        /\ \A k \in 1..index : next[k] = sts[k]
    BY <1>2, <2>1, <2>4, <2>5, <2>6
  <2>8. ASSUME NEW k \in 1..(n - 1)
        PROVE  next[k + 1] = FlowInst(next[k], ir[b][k])
    <3>1. CASE k = index
      BY <1>2, <2>1, <2>2, <2>4, <2>7, <3>1
    <3>2. CASE k # index
      <4>1. k \in 1..(index - 1) /\ k \in 1..index /\ k + 1 \in 1..index
        BY <1>2, <2>1, <2>4, <2>8, <3>2
      <4> QED
        BY <2>4, <2>6, <2>7, <4>1
    <3> QED
      BY <3>1, <3>2
  <2>9. Flows(b, next, n)
    <3>1. next[1] = entries[b] /\ next \in [1..(Len(ir[b]) + 1) -> Known]
      BY <1>2, <2>1, <2>4, <2>6, <2>7
    <3> QED
      BY <2>8, <3>1 DEF Flows
  <2>10. Flows(b, next, n)'
    BY <2>1, <2>9, FlowsKept
  <2>11. (\E s : Flows(block, s, index) /\ s[index] = state)'
    BY <2>1, <2>4, <2>7, <2>10
  <2>12. ASSUME NEW c \in reached, c < block, ~changed
         PROVE  (\E s : Flows(c, s, Len(ir[c]) + 1) /\ Settled(c, s))'
    <3>2. PICK s : Flows(c, s, Len(ir[c]) + 1) /\ Settled(c, s)
      BY <2>1, <2>12 DEF Swept
    <3>3. PICK m : m = Len(ir[c]) + 1
      OBVIOUS
    <3>4. Flows(c, s, m)' /\ Settled(c, s)' /\ Len(ir[c])' + 1 = m
      BY <2>1, <3>2, <3>3, FlowsKept, SettledKept
    <3> QED
      BY <3>4
  <2> QED
    BY <2>1, <2>3, <2>11, <2>12 DEF Swept
<1>6. CASE LeaveBlock
  <2>1. /\ phase = "sweep" /\ ir' = ir /\ index' = 0 /\ block' = block + 1 /\ block \in Blocks
        /\ index = Len(ir[block]) + 1
        /\ entries' = [t \in Blocks |-> IF t \in SuccessorSet(ir[block]) THEN Leaving(t) ELSE entries[t]]
        /\ reached' = reached \cup SuccessorSet(ir[block])
        /\ changed' = (changed \/ entries' # entries \/ reached' # reached)
    BY <1>1, <1>6 DEF LeaveBlock, Flowing
  <2>2. ASSUME ~changed', NEW c \in reached', c < block'
        PROVE  (\E sts : Flows(c, sts, Len(ir[c]) + 1) /\ Settled(c, sts))'
    <3>1. ~changed /\ entries' = entries /\ reached' = reached
      BY <2>1, <2>2 DEF Shape
    <3>2. \E sts : Flows(c, sts, Len(ir[c]) + 1) /\ Settled(c, sts)
      <4>1. CASE c < block
        BY <2>1, <2>2, <3>1, <4>1 DEF Swept
      <4>2. CASE c = block
        <5>1. PICK sts : Flows(block, sts, index) /\ sts[index] = state
          BY <1>2, <2>1 DEF Swept
        <5>2. ASSUME NEW t \in SuccessorSet(ir[block])
              PROVE  t \in reached /\ \A v \in Values : entries[t][v] = Merged(entries[t][v], state[v])
          <6>1. t \in reached /\ t \in Blocks
            BY <1>3, <2>1, <3>1, <5>2
          <6>2. entries[t] = Leaving(t)
            BY <2>1, <3>1, <5>2, <6>1
          <6> QED
            BY <6>1, <6>2 DEF Leaving
        <5>3. Settled(block, sts)
          BY <2>1, <5>1, <5>2 DEF Settled
        <5> QED
          BY <2>1, <4>2, <5>1, <5>3
      <4> QED
        BY <1>2, <1>3, <2>1, <2>2, <3>1, <4>1, <4>2
    <3>3. PICK sts : Flows(c, sts, Len(ir[c]) + 1) /\ Settled(c, sts)
      BY <3>2
    <3>4. PICK n : n = Len(ir[c]) + 1
      OBVIOUS
    <3>5. Flows(c, sts, n)' /\ Settled(c, sts)' /\ Len(ir[c])' + 1 = n
      BY <2>1, <3>1, <3>3, <3>4, FlowsKept, SettledKept
    <3> QED
      BY <3>5
  <2> QED
    BY <2>1, <2>2 DEF Swept
<1>7. CASE SweepOver
  <2>1. block' = 1 /\ index' = 0 /\ reached' = reached
    BY <1>1, <1>7 DEF SweepOver
  <2>2. \A c \in reached' : ~ (c < 1)
    BY <1>3, <2>1, BodyShape
  <2> QED
    BY <2>1, <2>2 DEF Swept
<1>8. CASE RunInst \/ RunEdge \/ RunOver
  BY <1>1, <1>8 DEF RunInst, RunEdge, RunOver, Running, vars
<1>9. CASE UNCHANGED vars
  <2>1. /\ phase = "sweep" /\ ir' = ir /\ entries' = entries /\ reached' = reached /\ changed' = changed
        /\ block' = block /\ index' = index /\ state' = state
    BY <1>1, <1>9 DEF vars
  <2>2. index >= 1 => (\E sts : Flows(block, sts, index) /\ sts[index] = state)'
    <3>1. SUFFICES ASSUME index >= 1 PROVE (\E sts : Flows(block, sts, index) /\ sts[index] = state)'
      OBVIOUS
    <3>2. PICK sts : Flows(block, sts, index) /\ sts[index] = state
      BY <2>1, <3>1 DEF Swept
    <3>3. PICK b, n : b = block /\ n = index
      OBVIOUS
    <3>4. Flows(b, sts, n)'
      BY <2>1, <3>2, <3>3, FlowsKept
    <3> QED
      BY <2>1, <3>2, <3>3, <3>4
  <2>3. ASSUME NEW c \in reached, c < block, ~changed
        PROVE  (\E s : Flows(c, s, Len(ir[c]) + 1) /\ Settled(c, s))'
    <3>2. PICK s : Flows(c, s, Len(ir[c]) + 1) /\ Settled(c, s)
      BY <2>1, <2>3 DEF Swept
    <3>3. PICK n : n = Len(ir[c]) + 1
      OBVIOUS
    <3>4. Flows(c, s, n)' /\ Settled(c, s)' /\ Len(ir[c])' + 1 = n
      BY <2>1, <3>2, <3>3, FlowsKept, SettledKept
    <3> QED
      BY <3>4
  <2> QED
    BY <2>1, <2>2, <2>3 DEF Swept
<1> QED
  BY <1>4, <1>5, <1>6, <1>7, <1>8, <1>9 DEF Next, Check


\* The round that reports goes through what the sweeps settled on.
LEMMA ReportsNext ==
    ASSUME NEW P, Shape, Swept, Reports(P), BorrowsInSight, P => ParamsInSight, [Next]_vars
    PROVE  Reports(P)'
<1>1. SUFFICES ASSUME phase' = "report" PROVE Reports(P)'
  BY DEF Reports
<1>2. /\ ir \in Functions /\ Len(ir) \in Nat /\ DOMAIN ir = Blocks
      /\ \A b \in Blocks : Len(ir[b]) \in Nat /\ DOMAIN ir[b] = 1..Len(ir[b])
      /\ index \in Nat /\ block \in Nat /\ (index >= 1 => block \in Blocks)
  BY BodyShape
<1>3. reached \subseteq Blocks /\ reached \subseteq Nat /\ Blocks = 1..Len(ir)
  BY BodyShape DEF Shape
<1>4. ASSUME ir' = ir, exits' = exits, entries' = entries, reached' = reached, returned \subseteq returned',
             NEW c \in reached, NEW sts,
             Flows(c, sts, Len(ir[c]) + 1), Settled(c, sts),
             c < block' => Cleared(P, c, sts, Len(ir[c]) + 1) /\ Joined(c, sts),
             (c = block' /\ index' >= 1) => state' = sts[index'] /\ Cleared(P, c, sts, index')
      PROVE  (\E s : /\ Flows(c, s, Len(ir[c]) + 1) /\ Settled(c, s)
                     /\ c < block => Cleared(P, c, s, Len(ir[c]) + 1) /\ Joined(c, s)
                     /\ (c = block /\ index >= 1) => state = s[index] /\ Cleared(P, c, s, index))'
  <2>1. PICK n, i : n = Len(ir[c]) + 1 /\ i = index'
    OBVIOUS
  <2>2. Flows(c, sts, n)' /\ Settled(c, sts)' /\ (Joined(c, sts) => Joined(c, sts)')
    BY <1>4, <2>1, FlowsKept, SettledKept
  <2>3. Cleared(P, c, sts, n) => Cleared(P, c, sts, n)'
    BY <1>4, ClearedKept
  <2>4. Cleared(P, c, sts, i) => Cleared(P, c, sts, i)'
    BY <1>4, ClearedKept
  <2>5. Flows(c, sts, Len(ir[c]) + 1)' /\ Settled(c, sts)'
    BY <1>4, <2>1, <2>2
  <2>6. c < block' => Cleared(P, c, sts, Len(ir[c]) + 1)' /\ Joined(c, sts)'
    BY <1>4, <2>1, <2>2, <2>3
  <2>7. (c = block' /\ index' >= 1) => state' = sts[index'] /\ Cleared(P, c, sts, index)'
    BY <1>4, <2>1, <2>4
  <2> QED
    BY <2>5, <2>6, <2>7
<1>5. CASE EnterBlock
  <2>1. /\ phase = "report" /\ ir' = ir /\ entries' = entries /\ reached' = reached /\ exits' = exits
        /\ returned' = returned /\ index = 0
    BY <1>1, <1>5 DEF EnterBlock
  <2>2. index' >= 1 => block' = block /\ block \in reached /\ index' = 1 /\ state' = entries[block]
    BY <1>5, <2>1 DEF EnterBlock
  <2>3. ASSUME NEW c \in reached
        PROVE  (\E s : /\ Flows(c, s, Len(ir[c]) + 1) /\ Settled(c, s)
                       /\ c < block => Cleared(P, c, s, Len(ir[c]) + 1) /\ Joined(c, s)
                       /\ (c = block /\ index >= 1) => state = s[index] /\ Cleared(P, c, s, index))'
    <3>1. PICK sts : /\ Flows(c, sts, Len(ir[c]) + 1) /\ Settled(c, sts)
                     /\ c < block => Cleared(P, c, sts, Len(ir[c]) + 1) /\ Joined(c, sts)
      BY <2>1 DEF Reports
    <3>2. c < block' => c < block
      <4>1. block' = block \/ (block' = block + 1 /\ block \notin reached)
        BY <1>5 DEF EnterBlock
      <4>2. c \in Nat /\ block \in Nat
        BY <1>2, <1>3
      <4> QED
        BY <2>3, <4>1, <4>2
    <3>3. sts[1] = entries[c]
      BY <3>1 DEF Flows
    <3>4. Cleared(P, c, sts, 1)
      BY DEF Cleared
    <3>5. (c = block' /\ index' >= 1) => state' = sts[index'] /\ Cleared(P, c, sts, index')
      BY <2>2, <3>3, <3>4
    <3>6. c < block' => Cleared(P, c, sts, Len(ir[c]) + 1) /\ Joined(c, sts)
      BY <3>1, <3>2
    <3> QED
      BY <1>4, <2>1, <3>1, <3>5, <3>6
  <2> QED
    BY <2>1, <2>2, <2>3 DEF Reports
<1>6. CASE FlowStep
  <2>1. /\ phase = "report" /\ ir' = ir /\ entries' = entries /\ reached' = reached /\ exits' = exits
        /\ block' = block /\ index' = index + 1 /\ state' = FlowInst(state, ir[block][index])
        /\ index \in 1..Len(ir[block]) /\ block \in Blocks
        /\ returned' = returned \cup ReturnedParams(state, ir[block][index])
        /\ ~Reported(state, state', ir[block][index])
    BY <1>1, <1>6 DEF FlowStep, Flowing, Here
  <2>2. block \in reached
    BY <1>2, <2>1 DEF Reports
  <2>3. Fine(P, state, ir[block][index])
    <3>1. KeepsSight(state, ir[block][index])
      BY <2>1 DEF BorrowsInSight, Reporting, Here
    <3>2. P => KeepsParams(state, ir[block][index])
      BY <2>1 DEF ParamsInSight, Reporting, Here
    <3> QED
      BY <2>1, <3>1, <3>2 DEF Fine
  <2>4. ASSUME NEW c \in reached
        PROVE  (\E s : /\ Flows(c, s, Len(ir[c]) + 1) /\ Settled(c, s)
                       /\ c < block => Cleared(P, c, s, Len(ir[c]) + 1) /\ Joined(c, s)
                       /\ (c = block /\ index >= 1) => state = s[index] /\ Cleared(P, c, s, index))'
    <3>1. PICK sts : /\ Flows(c, sts, Len(ir[c]) + 1) /\ Settled(c, sts)
                     /\ c < block => Cleared(P, c, sts, Len(ir[c]) + 1) /\ Joined(c, sts)
                     /\ (c = block /\ index >= 1) => state = sts[index] /\ Cleared(P, c, sts, index)
      BY <2>1 DEF Reports
    <3>3. CASE c # block
      BY <1>4, <2>1, <3>1, <3>3
    <3>4. CASE c = block
      <4>1. state = sts[index] /\ Cleared(P, c, sts, index)
        BY <1>2, <2>1, <3>1, <3>4
      <4>2. sts[index + 1] = FlowInst(sts[index], ir[c][index])
        <5>1. index \in 1..((Len(ir[c]) + 1) - 1)
          BY <1>2, <2>1, <3>4
        <5> QED
          BY <3>1, <5>1 DEF Flows
      <4>3. state' = sts[index + 1]
        BY <2>1, <3>4, <4>1, <4>2
      <4>4. PICK n, body : n = index /\ body = ir
        OBVIOUS
      <4>5. Cleared(P, c, sts, n)'
        BY <2>1, <4>1, <4>4, ClearedKept
      <4>6. Fine(P, sts[n], body[c][n])' /\ ReturnedParams(sts[n], body[c][n])' \subseteq returned'
        <5>1. Fine(P, sts[n], body[c][n]) /\ ReturnedParams(sts[n], body[c][n]) \subseteq returned'
          BY <2>1, <2>3, <3>4, <4>1, <4>4
        <5> QED
          BY <2>1, <5>1, FineKept, FlowKept
      <4>7. Fine(P, sts[n], ir[c][n])' /\ ReturnedParams(sts[n], ir[c][n])' \subseteq returned'
        BY <2>1, <4>4, <4>6
      <4>8. Cleared(P, c, sts, index)'
        <5>1. \A k \in 1..n : (k \in 1..(n - 1) \/ k = n) /\ n \in Nat
          BY <1>2, <4>4
        <5>2. \A k \in 1..n : Fine(P, sts[k], ir[c][k])' /\ ReturnedParams(sts[k], ir[c][k])' \subseteq returned'
          BY <4>5, <4>7, <5>1 DEF Cleared
        <5>3. index' - 1 = n
          BY <1>2, <2>1, <4>4
        <5> QED
          BY <5>2, <5>3 DEF Cleared
      <4>9. PICK m : m = Len(ir[c]) + 1
        OBVIOUS
      <4>10. Flows(c, sts, m)' /\ Settled(c, sts)' /\ Len(ir[c])' + 1 = m
        BY <2>1, <3>1, <4>9, FlowsKept, SettledKept
      <4>11. ~ (c < block')
        BY <1>2, <2>1, <3>4
      <4> QED
        BY <2>1, <4>3, <4>8, <4>10, <4>11
    <3> QED
      BY <3>3, <3>4
  <2> QED
    BY <1>2, <2>1, <2>2, <2>4 DEF Reports
<1>7. CASE LeaveBlock
  <2>1. /\ phase = "report" /\ ir' = ir /\ entries' = entries /\ reached' = reached /\ exits' = exits
        /\ returned' = returned /\ index' = 0 /\ block' = block + 1
        /\ index = Len(ir[block]) + 1 /\ block \in Blocks
    BY <1>1, <1>7 DEF LeaveBlock, Flowing
  <2>2. \A t \in SuccessorSet(ir[block]) : \A v \in Values :
          Kind[v] = "ref" => OpensSafely(state[v], v, Len(entries[t][v].fields))
    BY <2>1 DEF BorrowsInSight, Reporting
  <2>3. ASSUME NEW c \in reached
        PROVE  (\E s : /\ Flows(c, s, Len(ir[c]) + 1) /\ Settled(c, s)
                       /\ c < block => Cleared(P, c, s, Len(ir[c]) + 1) /\ Joined(c, s)
                       /\ (c = block /\ index >= 1) => state = s[index] /\ Cleared(P, c, s, index))'
    <3>1. PICK sts : /\ Flows(c, sts, Len(ir[c]) + 1) /\ Settled(c, sts)
                     /\ c < block => Cleared(P, c, sts, Len(ir[c]) + 1) /\ Joined(c, sts)
                     /\ (c = block /\ index >= 1) => state = sts[index] /\ Cleared(P, c, sts, index)
      BY <2>1 DEF Reports
    <3>3. c <= block => Cleared(P, c, sts, Len(ir[c]) + 1) /\ Joined(c, sts)
      <4>1. CASE c = block
        <5>1. index >= 1
          BY <1>2, <2>1
        <5>2. state = sts[Len(ir[c]) + 1] /\ Cleared(P, c, sts, Len(ir[c]) + 1)
          BY <2>1, <3>1, <4>1, <5>1
        <5>3. Joined(c, sts)
          BY <2>2, <4>1, <5>2 DEF Joined
        <5> QED
          BY <5>2, <5>3
      <4>2. CASE c # block
        BY <1>2, <1>3, <3>1, <4>2
      <4> QED
        BY <4>1, <4>2
    <3>4. c \in Nat /\ block \in Nat
      BY <1>2, <1>3
    <3>5. (c < block' => c <= block) /\ ~ (index' >= 1)
      BY <2>1, <3>4
    <3> QED
      BY <1>4, <2>1, <3>1, <3>3, <3>5
  <2> QED
    BY <2>1, <2>3 DEF Reports
<1>8. CASE SweepOver
  <2>1. /\ phase = "sweep" /\ ~changed /\ ir' = ir /\ entries' = entries /\ reached' = reached /\ exits' = exits
        /\ returned' = returned /\ index' = 0 /\ block' = 1 /\ block = Len(ir) + 1
    BY <1>1, <1>8 DEF SweepOver
  <2>2. ASSUME NEW c \in reached
        PROVE  (\E s : /\ Flows(c, s, Len(ir[c]) + 1) /\ Settled(c, s)
                       /\ c < block => Cleared(P, c, s, Len(ir[c]) + 1) /\ Joined(c, s)
                       /\ (c = block /\ index >= 1) => state = s[index] /\ Cleared(P, c, s, index))'
    <3>1. c < block /\ ~ (c < block') /\ ~ (index' >= 1)
      BY <1>2, <1>3, <2>1
    <3>2. PICK sts : Flows(c, sts, Len(ir[c]) + 1) /\ Settled(c, sts)
      BY <2>1, <3>1 DEF Swept
    <3> QED
      BY <1>4, <2>1, <3>1, <3>2
  <2> QED
    BY <2>1, <2>2 DEF Reports
<1>9. CASE RunInst \/ RunEdge \/ RunOver
  BY <1>1, <1>9 DEF RunInst, RunEdge, RunOver, Running, vars
<1>10. CASE UNCHANGED vars
  <2>1. /\ phase = "report" /\ ir' = ir /\ entries' = entries /\ reached' = reached /\ exits' = exits
        /\ returned' = returned /\ index' = index /\ block' = block /\ state' = state
    BY <1>1, <1>10 DEF vars
  <2>2. ASSUME NEW c \in reached
        PROVE  (\E s : /\ Flows(c, s, Len(ir[c]) + 1) /\ Settled(c, s)
                       /\ c < block => Cleared(P, c, s, Len(ir[c]) + 1) /\ Joined(c, s)
                       /\ (c = block /\ index >= 1) => state = s[index] /\ Cleared(P, c, s, index))'
    <3>1. PICK sts : /\ Flows(c, sts, Len(ir[c]) + 1) /\ Settled(c, sts)
                     /\ c < block => Cleared(P, c, sts, Len(ir[c]) + 1) /\ Joined(c, sts)
                     /\ (c = block /\ index >= 1) => state = sts[index] /\ Cleared(P, c, sts, index)
      BY <2>1 DEF Reports
    <3>2. /\ c < block' => Cleared(P, c, sts, Len(ir[c]) + 1) /\ Joined(c, sts)
          /\ (c = block' /\ index' >= 1) => state' = sts[index'] /\ Cleared(P, c, sts, index')
      BY <2>1, <3>1
    <3> QED
      BY <1>4, <2>1, <3>1, <3>2
  <2> QED
    BY <2>1, <2>2 DEF Reports
<1> QED
  BY <1>5, <1>6, <1>7, <1>8, <1>9, <1>10 DEF Next, Check


\* What is known before an instruction of a settled block is true of the run
\* that gets there.
LEMMA RunsNext ==
    ASSUME NEW P, Shape, Reports(P), Runs(P), [Next]_vars
    PROVE  Runs(P)'
<1>1. SUFFICES ASSUME phase' = "run" PROVE Runs(P)'
  BY DEF Runs
<1>2. /\ ir \in Functions /\ Len(ir) \in Nat /\ Len(ir) >= 1 /\ DOMAIN ir = Blocks /\ Blocks = 1..Len(ir)
      /\ \A b \in Blocks : Len(ir[b]) \in Nat /\ DOMAIN ir[b] = 1..Len(ir[b])
      /\ index \in Nat /\ block \in Nat
  BY BodyShape
<1>3. reached \subseteq Blocks /\ reached \subseteq Nat /\ 1 \in reached /\ entries \in [Blocks -> Known] /\ entries[1] = AtEntry
  BY <1>2 DEF Shape
<1>4. ASSUME ir' = ir, exits' = exits, entries' = entries, reached' = reached, returned' = returned,
             NEW c \in reached, NEW sts,
             Flows(c, sts, Len(ir[c]) + 1), Settled(c, sts),
             Cleared(P, c, sts, Len(ir[c]) + 1), Joined(c, sts),
             c = block' => Tells(P, sts[index'], mem')
      PROVE  (\E s : /\ Flows(c, s, Len(ir[c]) + 1) /\ Settled(c, s)
                     /\ Cleared(P, c, s, Len(ir[c]) + 1) /\ Joined(c, s)
                     /\ c = block => Tells(P, s[index], mem))'
  <2>1. PICK n : n = Len(ir[c]) + 1
    OBVIOUS
  <2>2. Flows(c, sts, n)' /\ Settled(c, sts)' /\ Joined(c, sts)'
    BY <1>4, <2>1, FlowsKept, SettledKept
  <2>3. Cleared(P, c, sts, n)'
    BY <1>4, <2>1, ClearedKept
  <2>4. n = Len(ir[c])' + 1
    BY <1>4, <2>1
  <2>5. (c = block => Tells(P, sts[index], mem))'
    BY <1>4 DEF Tells
  <2> QED
    BY <2>2, <2>3, <2>4, <2>5
<1>5. CASE SweepOver
  <2>1. /\ phase = "report" /\ ir' = ir /\ exits' = exits /\ entries' = entries /\ reached' = reached
        /\ returned' = returned /\ mem' = mem /\ block' = 1 /\ index' = 1 /\ block = Len(ir) + 1
    BY <1>1, <1>5 DEF SweepOver
  <2>2. mem' = FirstMem
    BY <2>1 DEF Shape
  <2>3. MemOK(FirstMem) /\ Tells(P, AtEntry, FirstMem)
    BY EntryTells
  <2>4. ASSUME NEW c \in reached
        PROVE  (\E s : /\ Flows(c, s, Len(ir[c]) + 1) /\ Settled(c, s)
                       /\ Cleared(P, c, s, Len(ir[c]) + 1) /\ Joined(c, s)
                       /\ c = block => Tells(P, s[index], mem))'
    <3>1. c < block
      BY <1>2, <1>3, <2>1, <2>4
    <3>2. PICK sts : /\ Flows(c, sts, Len(ir[c]) + 1) /\ Settled(c, sts)
                     /\ Cleared(P, c, sts, Len(ir[c]) + 1) /\ Joined(c, sts)
      BY <2>1, <3>1 DEF Reports
    <3>3. sts[1] = entries[c]
      BY <3>2 DEF Flows
    <3>4. c = block' => Tells(P, sts[index'], mem')
      BY <1>3, <2>1, <2>2, <2>3, <3>3
    <3> QED
      BY <1>4, <2>1, <3>2, <3>4
  <2>5. MemOK(mem)' /\ index' >= 1 /\ block' \in reached'
    BY <1>3, <2>1, <2>2, <2>3 DEF MemOK, MemTyped
  <2> QED
    BY <2>1, <2>4, <2>5 DEF Runs
<1>6. CASE RunInst
  <2>1. /\ phase = "run" /\ ir' = ir /\ exits' = exits /\ entries' = entries /\ reached' = reached
        /\ returned' = returned /\ block' = block /\ index' = index + 1
        /\ index \in 1..Len(ir[block]) /\ mem' \in Effects(mem, block, index)
    BY <1>6 DEF RunInst, Running, Here
  <2>2. block \in reached /\ MemOK(mem) /\ block \in Blocks /\ index \in DOMAIN ir[block]
    BY <1>2, <1>3, <2>1 DEF Runs
  <2>3. ASSUME NEW c \in reached
        PROVE  (\E s : /\ Flows(c, s, Len(ir[c]) + 1) /\ Settled(c, s)
                       /\ Cleared(P, c, s, Len(ir[c]) + 1) /\ Joined(c, s)
                       /\ c = block => Tells(P, s[index], mem))'
    <3>1. PICK sts : /\ Flows(c, sts, Len(ir[c]) + 1) /\ Settled(c, sts)
                     /\ Cleared(P, c, sts, Len(ir[c]) + 1) /\ Joined(c, sts)
                     /\ c = block => Tells(P, sts[index], mem)
      BY <2>1 DEF Runs
    <3>2. ASSUME c = block PROVE Tells(P, sts[index + 1], mem')
      <4>1. index \in 1..((Len(ir[c]) + 1) - 1) /\ index \in 1..(Len(ir[c]) + 1)
        BY <1>2, <2>1, <2>2, <3>2
      <4>2. sts[index + 1] = FlowInst(sts[index], ir[block][index]) /\ sts[index] \in Known
        BY <3>1, <3>2, <4>1 DEF Flows
      <4>3. Fine(P, sts[index], ir[block][index])
        BY <3>1, <3>2, <4>1 DEF Cleared
      <4>4. ir[block][index].op = "storage_init" => sts[index][ir[block][index].base] = Slot(Uninit, {})
        <5>1. SUFFICES ASSUME ir[block][index].op = "storage_init"
                       PROVE  sts[index][ir[block][index].base] = Slot(Uninit, {})
          OBVIOUS
        <5>2. /\ index > 1 /\ ir[block][index - 1].op = "storage_live"
              /\ ir[block][index - 1].base = ir[block][index].base
          BY <1>2, <2>2, <5>1, InstFacts
        <5>3. ir[block][index].base \in Values
          BY <1>2, <2>2, <5>1, InstFacts DEF WellTyped
        <5>4. PICK k : k = index - 1
          OBVIOUS
        <5>5. k \in 1..((Len(ir[c]) + 1) - 1) /\ k \in 1..(Len(ir[c]) + 1) /\ k + 1 = index
          BY <1>2, <4>1, <5>2, <5>4
        <5>6. sts[index] = FlowInst(sts[k], ir[block][k]) /\ sts[k] \in Known
          BY <3>1, <3>2, <5>5 DEF Flows
        <5>7. sts[index] = [sts[k] EXCEPT ![ir[block][index].base] = Slot(Uninit, {})]
          BY <5>2, <5>4, <5>6 DEF FlowInst
        <5> QED
          BY <5>3, <5>6, <5>7 DEF Known
      <4> QED
        BY <1>2, <2>1, <2>2, <3>1, <3>2, <4>2, <4>3, <4>4, FlowTells
    <3>3. c = block' => Tells(P, sts[index'], mem')
      BY <2>1, <3>2
    <3> QED
      BY <1>4, <2>1, <3>1, <3>3
  <2>4. MemOK(mem')
    <3>1. PICK sts : Flows(block, sts, Len(ir[block]) + 1) /\ Cleared(P, block, sts, Len(ir[block]) + 1)
      BY <2>1, <2>2 DEF Runs
    <3>2. index \in 1..((Len(ir[block]) + 1) - 1)
      BY <1>2, <2>1, <2>2
    <3>3. KeepsSight(sts[index], ir[block][index])
      BY <3>1, <3>2 DEF Cleared, Fine
    <3> QED
      BY <1>2, <2>1, <2>2, <3>3, EffectsOK
  <2>5. MemOK(mem)' /\ index' >= 1 /\ block' \in reached'
    BY <1>2, <2>1, <2>2, <2>4 DEF MemOK, MemTyped
  <2> QED
    BY <2>1, <2>3, <2>5 DEF Runs
<1>7. CASE RunEdge
  <2>1. /\ phase = "run" /\ ir' = ir /\ exits' = exits /\ entries' = entries /\ reached' = reached
        /\ returned' = returned /\ mem' = mem /\ index' = 1 /\ block' \in SuccessorSet(ir[block])
        /\ index \in 1..Len(ir[block]) /\ IsTerminator(ir[block][index])
    BY <1>7 DEF RunEdge, Running, Here
  <2>2. block \in reached /\ MemOK(mem) /\ block \in Blocks
    BY <1>3, <2>1 DEF Runs
  <2>3. PICK sts : /\ Flows(block, sts, Len(ir[block]) + 1) /\ Settled(block, sts)
                   /\ Joined(block, sts) /\ Tells(P, sts[index], mem)
    BY <2>1, <2>2 DEF Runs
  <2>4. index = Len(ir[block])
    BY <1>2, <2>1, <2>2, LivenessAssumption DEF WellFormed
  <2>5. sts[index + 1] = sts[index]
    <3>1. index \in 1..((Len(ir[block]) + 1) - 1)
      BY <1>2, <2>1, <2>2
    <3>2. sts[index + 1] = FlowInst(sts[index], ir[block][index])
      BY <2>3, <3>1 DEF Flows
    <3>3. FlowInst(sts[index], ir[block][index]) = sts[index]
      BY <2>1 DEF FlowInst, IsTerminator, CallLike
    <3> QED
      BY <3>2, <3>3
  <2>6. Tells(P, entries[block'], mem) /\ block' \in reached
    <3> DEFINE end == sts[Len(ir[block]) + 1]
    <3>1. /\ block' \in reached /\ \A v \in Values : entries[block'][v] = Merged(entries[block'][v], end[v])
      BY <2>1, <2>3 DEF Settled
    <3>2. \A v \in Values : Kind[v] = "ref" => OpensSafely(end[v], v, Len(entries[block'][v].fields))
      BY <2>1, <2>3 DEF Joined
    <3>3. end \in Known /\ entries[block'] \in Known
      <4>1. Len(ir[block]) + 1 \in 1..(Len(ir[block]) + 1)
        BY <1>2, <2>2
      <4> QED
        BY <1>3, <2>3, <3>1, <4>1 DEF Flows
    <3>4. Tells(P, end, mem)
      BY <2>3, <2>4, <2>5
    <3> HIDE DEF end
    <3> QED
      BY <2>2, <3>1, <3>2, <3>3, <3>4, MergeTells
  <2>7. ASSUME NEW c \in reached
        PROVE  (\E s : /\ Flows(c, s, Len(ir[c]) + 1) /\ Settled(c, s)
                       /\ Cleared(P, c, s, Len(ir[c]) + 1) /\ Joined(c, s)
                       /\ c = block => Tells(P, s[index], mem))'
    <3>1. PICK s : /\ Flows(c, s, Len(ir[c]) + 1) /\ Settled(c, s)
                   /\ Cleared(P, c, s, Len(ir[c]) + 1) /\ Joined(c, s)
      BY <2>1 DEF Runs
    <3>2. s[1] = entries[c]
      BY <3>1 DEF Flows
    <3>3. c = block' => Tells(P, s[index'], mem')
      BY <2>1, <2>6, <3>2
    <3> QED
      BY <1>4, <2>1, <3>1, <3>3
  <2>8. MemOK(mem)' /\ index' >= 1 /\ block' \in reached'
    BY <2>1, <2>2, <2>6 DEF MemOK, MemTyped
  <2> QED
    BY <2>1, <2>7, <2>8 DEF Runs
<1>8. CASE RunOver \/ UNCHANGED vars
  <2>1. /\ phase = "run" /\ ir' = ir /\ exits' = exits /\ entries' = entries /\ reached' = reached
        /\ returned' = returned /\ mem' = mem /\ index' = index /\ block' = block
    BY <1>1, <1>8 DEF RunOver, vars
  <2>2. ASSUME NEW c \in reached
        PROVE  (\E s : /\ Flows(c, s, Len(ir[c]) + 1) /\ Settled(c, s)
                       /\ Cleared(P, c, s, Len(ir[c]) + 1) /\ Joined(c, s)
                       /\ c = block => Tells(P, s[index], mem))'
    <3>1. PICK s : /\ Flows(c, s, Len(ir[c]) + 1) /\ Settled(c, s)
                   /\ Cleared(P, c, s, Len(ir[c]) + 1) /\ Joined(c, s)
                   /\ c = block => Tells(P, s[index], mem)
      BY <2>1 DEF Runs
    <3>2. c = block' => Tells(P, s[index'], mem')
      BY <2>1, <3>1
    <3> QED
      BY <1>4, <2>1, <3>1, <3>2
  <2>3. MemOK(mem)' /\ index' >= 1 /\ block' \in reached'
    BY <2>1 DEF Runs, MemOK, MemTyped
  <2> QED
    BY <2>1, <2>2, <2>3 DEF Runs
<1>9. CASE EnterBlock \/ FlowStep \/ LeaveBlock
  BY <1>1, <1>9 DEF EnterBlock, FlowStep, LeaveBlock, Flowing
<1> QED
  BY <1>5, <1>6, <1>7, <1>8, <1>9 DEF Next, Check

\* The whole of it holds at the start ...
LEMMA SoundInit ==
    ASSUME NEW P
    PROVE  Init => Sound(P)
<1> SUFFICES ASSUME Init PROVE Sound(P)
  OBVIOUS
<1>1. Shape
  BY ShapeInit
<1>2. phase = "sweep" /\ index = 0 /\ block = 1 /\ reached = {1}
  BY DEF Init
<1>3. Swept
  BY <1>2 DEF Swept
<1> QED
  BY <1>1, <1>2, <1>3 DEF Sound, Reports, Runs

\* ... and every step keeps it, as long as sight is kept.
LEMMA SoundNext ==
    ASSUME NEW P
    PROVE  Sound(P) /\ BorrowsInSight /\ (P => ParamsInSight) /\ [Next]_vars => Sound(P)'
<1> SUFFICES ASSUME Sound(P), BorrowsInSight, P => ParamsInSight, [Next]_vars PROVE Sound(P)'
  OBVIOUS
<1>1. Shape /\ Swept /\ Reports(P) /\ Runs(P)
  BY DEF Sound
<1>2. Shape' /\ Swept' /\ Reports(P)' /\ Runs(P)'
  BY <1>1, ShapeNext, SweptNext, ReportsNext, RunsNext
<1> QED
  BY <1>2 DEF Sound

\* Where the run is, mir_borrowck let the instruction through and knew what
\* the references hold.
LEMMA RunIsKnown ==
    ASSUME NEW P, Sound(P), Running
    PROVE  /\ ir \in Functions /\ block \in DOMAIN ir /\ index \in DOMAIN ir[block] /\ MemOK(mem)
           /\ \E st \in Known : /\ Fine(P, st, Here) /\ Tells(P, st, mem)
                                /\ ReturnedParams(st, Here) \subseteq returned
<1>1. /\ ir \in Functions /\ DOMAIN ir = Blocks
      /\ \A b \in Blocks : Len(ir[b]) \in Nat /\ DOMAIN ir[b] = 1..Len(ir[b])
  BY BodyShape DEF Sound
<1>2. block \in reached /\ MemOK(mem) /\ block \in Blocks /\ index \in 1..Len(ir[block])
  BY DEF Sound, Runs, Running, Shape
<1>3. PICK sts : /\ Flows(block, sts, Len(ir[block]) + 1) /\ Cleared(P, block, sts, Len(ir[block]) + 1)
                 /\ Tells(P, sts[index], mem)
  BY <1>2 DEF Sound, Runs, Running
<1>4. index \in 1..((Len(ir[block]) + 1) - 1) /\ index \in 1..(Len(ir[block]) + 1)
  BY <1>1, <1>2
<1>5. sts[index] \in Known /\ Fine(P, sts[index], Here) /\ ReturnedParams(sts[index], Here) \subseteq returned
  BY <1>3, <1>4 DEF Flows, Cleared, Here
<1> QED
  BY <1>1, <1>2, <1>3, <1>5

\* Where mir_borrowck keeps sight of what references name, nothing that an
\* accepted function reads or calls through is gone: whatever the functions,
\* their blocks and the paths the run takes.
THEOREM BorrowsSound == Spec /\ []BorrowsInSight => []BorrowsAreValid
<1>1. Init => Sound(FALSE)
  BY SoundInit
<1>2. Sound(FALSE) /\ BorrowsInSight /\ [Next]_vars => Sound(FALSE)'
  BY SoundNext
<1>3. Sound(FALSE) => BorrowsAreValid
  <2>1. SUFFICES ASSUME Sound(FALSE), Running, NEW v \in Values, NEW f \in Places(v),
                        (Here.op \in {"load", "ref"} /\ Follows(Here, v, f)) \/ Hands(Here, v)
                 PROVE  mem[v][f] \notin Ended
    BY DEF BorrowsAreValid
  <2>2. ir \in Functions /\ block \in DOMAIN ir /\ index \in DOMAIN ir[block] /\ MemOK(mem)
    BY <2>1, RunIsKnown
  <2>3. PICK st \in Known : Fine(FALSE, st, Here) /\ Tells(FALSE, st, mem)
    BY <2>1, RunIsKnown
  <2> QED
    BY <2>1, <2>2, <2>3, NothingEnded DEF Here
<1> QED
  BY <1>1, <1>2, <1>3, PTL DEF Spec

\* Where it also keeps sight of parameters, what an accepted function returns
\* came through one that its summary names.
THEOREM SummarySound == Spec /\ []BorrowsInSight /\ []ParamsInSight => []SummaryIsSound
<1>1. Init => Sound(TRUE)
  BY SoundInit
<1>2. Sound(TRUE) /\ BorrowsInSight /\ ParamsInSight /\ [Next]_vars => Sound(TRUE)'
  BY SoundNext
<1>3. Sound(TRUE) => SummaryIsSound
  <2>1. SUFFICES ASSUME Sound(TRUE), Running, Here.op = "return", Here.args # <<>>,
                        NEW v, v = Here.args[1], v # None, Kind[v] = "ref", NEW f \in Places(v)
                 PROVE  mem[v][f] \in {CallersOf(q) : q \in returned} \cup {Given, Stale, Unset}
    BY DEF SummaryIsSound
  <2>2. ir \in Functions /\ block \in DOMAIN ir /\ index \in DOMAIN ir[block] /\ MemOK(mem)
    BY <2>1, RunIsKnown
  <2>3. PICK st \in Known : /\ Fine(TRUE, st, Here) /\ Tells(TRUE, st, mem)
                            /\ ReturnedParams(st, Here) \subseteq returned
    BY <2>1, RunIsKnown
  <2>4. mem[v][f] \in {CallersOf(q) : q \in ReturnedParams(st, Here)} \cup {Given, Stale, Unset}
    BY <2>1, <2>2, <2>3, ReturnTold DEF Here
  <2> QED
    BY <2>3, <2>4
<1> QED
  BY <1>1, <1>2, <1>3, PTL DEF Spec
=============================================================================
