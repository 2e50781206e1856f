------------------------------ MODULE HashMap ------------------------------
(***************************************************************************)
(* GAB_HASH_MAP (util/hash_map.h): the open-addressing table behind scopes,*)
(* the string pool, the registries and the borrow checker's states.        *)
(* Probing is linear, deletion leaves a tombstone, and an insert into a    *)
(* table half occupied rebuilds it first, at twice the capacity unless it  *)
(* is mostly tombstones.                                                   *)
(*                                                                         *)
(* The probe has no bound of its own: it ends only because some entry is   *)
(* empty.                                                                  *)
(***************************************************************************)
EXTENDS Integers, FiniteSets

CONSTANTS Keys, Values,
          Absent,           \* no value
          Hashes,           \* the hash functions tried, each from Keys to Nat
          InitialCapacity   \* what _init_alloc is called with: a power of two, and never 1

\* That the capacity is a power of two only makes masking the remainder it stands for.
ASSUME MapAssumption ==
    /\ Absent \notin Values
    /\ Hashes \subseteq [Keys -> Nat]
    /\ InitialCapacity \in Nat \ {0, 1}

VARIABLES entries,    \* entries[i] for i in 0..capacity-1
          capacity, size, occupied,
          pc,         \* "idle", in _insert's "resize", or back from it to "store"
          call,       \* the key and value of the insert that resizes
          newEntries, \* the table _resize fills
          next,       \* the entry _resize looks at
          hash,       \* the hash function of this instantiation
          answer      \* whether the last operation reported that it did something

resizeVars == <<pc, call, newEntries, next>>

vars == <<entries, capacity, size, occupied, resizeVars, hash, answer>>

\* memset(entries, 0).
EmptyEntry == [state |-> "empty", key |-> Absent, value |-> Absent]
EmptyTable(n) == [i \in 0..(n - 1) |-> EmptyEntry]

NoCall == [key |-> Absent, value |-> Absent]

Init ==
    /\ hash \in Hashes
    /\ entries = EmptyTable(InitialCapacity)
    /\ capacity = InitialCapacity
    /\ size = 0
    /\ occupied = 0
    /\ pc = "idle" /\ call = NoCall /\ newEntries = EmptyTable(0) /\ next = 0
    /\ answer = FALSE

-----------------------------------------------------------------------------
(***************************************************************************)
(* _probe: from the key's home on, around the end of the table, the first  *)
(* entry that is empty or holds the key stops the walk; a tombstone met    *)
(* before an empty entry is taken instead of it.  NoEntry stands for a     *)
(* walk that never stops.                                                  *)
(***************************************************************************)
NoEntry == -1

\* The entry looked at after j others, of a table of n.
Step(n, k, j) ==
    LET home == hash[k] % n
    IN IF home + j < n THEN home + j ELSE home + j - n

Stops(table, n, k, j) ==
    LET entry == table[Step(n, k, j)]
    IN entry.state = "empty" \/ (entry.state = "live" /\ entry.key = k)

FirstStep(S) == CHOOSE j \in S : \A i \in S : j <= i

Probe(table, n, k) ==
    LET stops == {j \in 0..(n - 1) : Stops(table, n, k, j)}
        last == FirstStep(stops)
        tombstones == {j \in 0..(last - 1) : table[Step(n, k, j)].state = "dead"}
    IN IF stops = {} THEN NoEntry
       ELSE IF table[Step(n, k, last)].state = "empty" /\ tombstones # {}
       THEN Step(n, k, FirstStep(tombstones))
       ELSE Step(n, k, last)

-----------------------------------------------------------------------------
\* A table rebuilt only when no entry is left.
FullLate == occupied >= capacity

Full == 2 * occupied >= capacity

\* The capacity _resize chooses: a table of tombstones is only swept.
NewCapacity == IF 4 * size >= capacity THEN 2 * capacity ELSE capacity

\* _insert into a table half occupied calls _resize, which starts on an empty one.
BeginResize ==
    /\ pc = "idle" /\ Full
    /\ \E k \in Keys, v \in Values : call' = [key |-> k, value |-> v]
    /\ pc' = "resize"
    /\ newEntries' = EmptyTable(NewCapacity)
    /\ next' = 0
    /\ UNCHANGED <<entries, capacity, size, occupied, hash, answer>>

\* A round of _resize: a live entry is copied to where its key belongs.
MoveEntry ==
    /\ pc = "resize" /\ next < capacity
    /\ LET i == Probe(newEntries, NewCapacity, entries[next].key)
       IN IF entries[next].state # "live" THEN UNCHANGED newEntries
          ELSE i # NoEntry /\ newEntries' = [newEntries EXCEPT ![i] = entries[next]]
    /\ next' = next + 1
    /\ UNCHANGED <<entries, capacity, size, occupied, pc, call, hash, answer>>

\* A resize that counts the tombstones it left behind.
EndResizeAsBefore ==
    /\ pc = "resize" /\ next = capacity
    /\ entries' = newEntries
    /\ capacity' = NewCapacity
    /\ pc' = "store" /\ newEntries' = EmptyTable(0) /\ next' = 0
    /\ UNCHANGED <<size, occupied, call, hash, answer>>

\* The end of _resize: the tombstones are left behind.
EndResize ==
    /\ pc = "resize" /\ next = capacity
    /\ entries' = newEntries
    /\ capacity' = NewCapacity
    /\ occupied' = size
    /\ pc' = "store" /\ newEntries' = EmptyTable(0) /\ next' = 0
    /\ UNCHANGED <<size, call, hash, answer>>

\* What _insert does once the table has room.
Store(k, v) ==
    LET i == Probe(entries, capacity, k)
    IN /\ i # NoEntry
       /\ answer' = (entries[i].state # "live")
       /\ IF entries[i].state = "live" THEN UNCHANGED <<entries, size, occupied>>
          ELSE /\ entries' = [entries EXCEPT ![i] = [state |-> "live", key |-> k, value |-> v]]
               /\ occupied' = IF entries[i].state = "empty" THEN occupied + 1 ELSE occupied
               /\ size' = size + 1

Insert ==
    /\ pc = "idle" /\ ~ Full
    /\ \E k \in Keys, v \in Values : Store(k, v)
    /\ UNCHANGED <<capacity, resizeVars, hash>>

\* _insert after its call of _resize.
InsertResized ==
    /\ pc = "store"
    /\ Store(call.key, call.value)
    /\ pc' = "idle" /\ call' = NoCall
    /\ UNCHANGED <<capacity, newEntries, next, hash>>

\* A delete that leaves no tombstone.
DeleteToEmpty ==
    /\ pc = "idle"
    /\ \E k \in Keys :
        LET i == Probe(entries, capacity, k)
        IN /\ i # NoEntry
           /\ answer' = (size # 0 /\ entries[i].state = "live")
           /\ IF size = 0 \/ entries[i].state # "live" THEN UNCHANGED <<entries, size>>
              ELSE entries' = [entries EXCEPT ![i] = EmptyEntry] /\ size' = size - 1
    /\ UNCHANGED <<capacity, occupied, resizeVars, hash>>

Delete ==
    /\ pc = "idle"
    /\ \E k \in Keys :
        LET i == Probe(entries, capacity, k)
        IN /\ i # NoEntry
           /\ answer' = (size # 0 /\ entries[i].state = "live")
           /\ IF size = 0 \/ entries[i].state # "live" THEN UNCHANGED <<entries, size>>
              ELSE entries' = [entries EXCEPT ![i].state = "dead"] /\ size' = size - 1
    /\ UNCHANGED <<capacity, occupied, resizeVars, hash>>

Next == Insert \/ BeginResize \/ MoveEntry \/ EndResize \/ InsertResized \/ Delete

Spec == Init /\ [][Next]_vars

-----------------------------------------------------------------------------
(***************************************************************************)
(* Every probe ends, whatever the history of inserts and deletes: some     *)
(* entry is always empty, of the table and of the one a resize fills,      *)
(* because the rebuild at half occupancy comes before the insert that      *)
(* would fill the table.                                                   *)
(***************************************************************************)
ProbesEnd ==
    \A k \in Keys :
        /\ Probe(entries, capacity, k) # NoEntry
        /\ pc = "resize" => Probe(newEntries, NewCapacity, k) # NoEntry

(***************************************************************************)
(* The two counters the resize decision rests on count what they say, over *)
(* any history: live entries, and entries that are not empty.              *)
(***************************************************************************)
CountersAgree ==
    /\ size = Cardinality({i \in DOMAIN entries : entries[i].state = "live"})
    /\ occupied = Cardinality({i \in DOMAIN entries : entries[i].state # "empty"})
    /\ DOMAIN entries = 0..(capacity - 1)

\* _lookup.
Lookup(k) ==
    LET i == Probe(entries, capacity, k)
    IN IF i # NoEntry /\ entries[i].state = "live" THEN entries[i].value ELSE Absent

(***************************************************************************)
(* The table is a map: what lookups answer changes as FiniteMap says, over *)
(* tombstones, collisions, wrap-around and rebuilds.  The steps of a       *)
(* resize change nothing: an insert that needs one takes effect after it.  *)
(***************************************************************************)
Contents == INSTANCE FiniteMap WITH map <- [k \in Keys |-> Lookup(k)]

IsAMap == Contents!Spec
=============================================================================
