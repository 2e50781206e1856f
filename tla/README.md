# A verification project for the Gab compiler

Gab compiles a small language whose types spell ownership: a `*T` owns what it
holds and frees it at the end of its scope, a `&T` borrows, a plain `T` copies.
The compiler, not a runtime, decides where each object is released and whether
a borrow can outlive what it names. This project models those decisions from
source statement to emitted code, the parser and the interface files through
which modules are compiled apart, the loops that make instances of generics and
fold constants, and the two data structures everything else rests on, the hash
map and the arena. TLC checks them over families of programs and histories;
TLAPS proves, for instances of any size, the analyses over arbitrary control flow,
the instances and summaries of generics, constant folding, both data structures, and
the check that keeps stale objects out of a program.

## 1. Inventory

| Component | State it keeps | Operations | Talks to |
|---|---|---|---|
| Lexer, parser (`syntax/`) | position in the text, the C stack of open loops | one function per production; recovery after an error | builds the AST, reports diagnostics |
| AST (`ast/ast.c`, `expr.c`, `stmt.c`, `type_expr.c`) | a tree | a constructor per node | parser, resolver, interface printer |
| Interfaces (`driver/interface.c`) | a text file per module | print, write, read, digest, symbol | the parser of every module that imports it; the objects |
| Driver (`driver/main.c`, `compile.c`, `link.c`) | sources and interfaces read, files written | read, compile, write interface and object, link | other runs of the compiler, through files |
| Resolver (`ast/resolve.c`, `coerce.c`, `typexpr.c`, `facts.c`) | scopes, facts, pending bodies | declare, resolve, check | decides which programs are lowered |
| Types and functions (`type/`, `function_registry.c`) | interned types; methods per receiver; instances | intern, substitute, look up | type equality is pointer identity |
| Instantiation (`mir_build.c`, `mir_instantiate.c`, `pending.c`) | work list of instances, module of bodies, a summary per function | instantiate a generic body, collect what it calls, summarise | the list grows while it is walked |
| Lowering (`mir/mir_lower.c`) | `Lowering`: current block, locals (a stack of bindings), temporary slots, loop targets and `loop_local_floor` | one function per statement and expression kind | reads the resolver's facts, writes MIR |
| MIR (`mir/mir.[ch]`) | a function: blocks, instructions, value count | create block, create value, emit, terminators, successors | written by the lowering, rewritten by folding and drop elaboration, read by all passes |
| Constant folding (`mir_fold.c`, `constant.c`) | the values known to be constants | fold an instruction, drop constants nobody reads | rewrites MIR |
| Liveness (`mir_liveness.c`) | per block, the values still needed | backward fixed point | serves the borrow checker |
| Borrow checker (`mir_borrowck.c`, `mir_state.c`) | per block, the state of every slot and field (unreached, uninit, moved, dangling, init) and its borrows | flow an instruction, merge at joins, report, summarise | asks liveness; its reports stop compilation |
| Drop elaboration (`mir_drop.c`) | entry facts per block and value | null moved sources, release before overwrite, remove empty drops, guard conditional drops | rewrites MIR just before emission |
| Emission (`llvm/llvm_emit.c`) | per function: slots, flags, LLVM blocks | one case of `emit_inst` per instruction; drop glue | produces the program that runs |
| Scopes (`scope.c`), string pool, diagnostics | tables and lists | declare, look up, intern, report | clients of the hash map |
| Hash map (`util/hash_map.h`) | entries, capacity, size, occupied | insert, look up, delete, resize | scopes, string pool, registries, borrow states |
| Arena (`memory/arena.c`) | block list, current block | allocate, grow, reset, checkpoint, rewind | all compiler data |

One run of the compiler is sequential. What is hard is of five kinds.

* **Control flow.** A path through branches, loops, `break`, `continue` and early
  returns decides whether a slot is full where a drop stands. Every pass judges
  this with its own approximation (text order, a forward fixed point, drop flags,
  the numbering of blocks), and the approximations must agree.
* **Fixed points.** `entry_holdings`, the borrow checker and liveness each loop
  until nothing changes, and the instances are a list walked as it grows; neither
  the end nor the soundness of each is the usual monotonicity argument.
* **Long histories.** A hash map or an arena is correct after one operation; the
  question is any sequence of them.
* **Files between runs.** Modules are compiled by separate runs that overlap,
  fail half way and are repeated in any order, and only the link of the last one
  sees the whole.
* **Text as a format.** An interface is source text printed from a tree, so the
  printer and the parser must agree on every shape of it.

What makes each modelled component correct:

* parser: it ends on every text, it returns a tree only if nothing was reported,
  and operators group by precedence and to the left;
* interfaces: who imports a module parses what it declares;
* driver: no program is linked from objects compiled against different versions
  of an interface, and none is refused without cause;
* instantiation: the instances made are those some body calls, each once, and the
  walk ends; a caller never assumes less than its callee may return;
* constant folding: the function computes what it did;
* lowering: each path drops each local of a scope it leaves once; a block ends in
  exactly one terminator, which leads to blocks that exist;
* borrow checker: what an accepted function reads through a reference is there, and
  nothing moved out of is read, on any path;
* liveness: what it calls dead is not read again before it is overwritten;
* drop elaboration: what it believes of a slot at a drop is true on every path;
* emission, with all of the above: every object is released, handed on or
  returned exactly once;
* hash map: lookups answer like a map's and probing ends;
* arena: two live allocations never share memory.

`PROJECT.json` lists the hazards at their lines with the property that watches
each one.

## 2. Modules and the code

| Module | Models | Correspondence |
|---|---|---|
| `Syntax` | `ast/ast.c`, `expr.c`, `stmt.c`, `type_expr.c` | a record per node, made by an operator per C constructor |
| `Parser` | `syntax/parser.c` | what contains no loop over statements is an operator from a position to a result; the loops over a file, a block, an impl and an interface are actions, one round each, with the C stack in `frames` |
| `Interface` | `driver/interface.c`, `parse_module` | the `Print*` operators write tokens as the `print_*` functions write text; the actions parse the files, write the interface and parse it again |
| `Builds` | `driver/main.c`, `compile.c`, `link.c`, the digest and the symbol of `interface.c` | per module, where the run of the compiler for it stands; one action per file read or written, plus `GiveUp`, a run that fails or is killed |
| `MirBuild` | `mir/mir_build.c`, `mir_instantiate.c`, `ast/pending.c`, the instances of `function_registry.c` | `instances` is the work list, `entries` the bodies of the module, `summary` is `borrowed_params`, `calls` what a body still has to have looked at; one action per turn of each loop of `mir_build` and of the walk over a body's calls |
| `BuildProofs` | | proofs about `Builds` and `MirBuild` |
| `Rounds` | | a step taken again and again, for definitions by recursion on a count |
| `Mir` | `mir/mir.h`, `mir/mir.c` | a body is a sequence of blocks of instruction records. Types shrink to "owns an object" |
| `MirFold` | `mir/mir_fold.c`, `constant.c`, the arithmetic of `llvm_emit.c` | `FoldInst` is one turn of the loop, `LastFolded` and `DropInst` are the first loop of `drop_unread_constants` and a turn of its second; `Registers` runs a function as it is emitted; how many values each integer type has is a constant |
| `MirFoldProofs` | | proofs about `MirFold` |
| `MirLower` | `mir/mir_lower.c` | `lowering` is `struct Lowering`; `frames` is the C stack of `lower_stmt`. One action per statement kind and one per closing brace, which does what the enclosing `lower_*` function does after its body. Helpers (`LowerTempSlot`, `LowerMovedTemp`, `LowerScopeEnd`, ...) map a lowering to a lowering as the C helpers do |
| `MirPlaces` | `place_bits`, `step_backwards` | values and fields as bits; what an instruction reads and writes of them |
| `MirState` | `MIRSlotInit`, `slot_merge` | what is known of one slot, and the merge of two paths |
| `MirBorrowck` | slot states of `mir_borrowck.c` | `SlotAfter` is `flow_inst`, `Accepts` says that no reachable read is reported |
| `BorrowFlow` | all of `mir_borrowck` and `mir_state.c`, and a run of what was accepted | `entries` and `state` are the C states, a slot having a state, borrows and fields; one action per block entered, instruction flowed, block left and sweep ended. `mem` is what the references really name. `Sources` is `collect_sources`, its recursion through operands written as rounds of `GoesBack` |
| `BorrowFlowProofs` | | proofs about `BorrowFlow` |
| `MirLiveness` | `mir_liveness_compute`, `mir_live_after`, and a run of the analysed body | `entry` and `exit` are the bit sets per block; `SweepBlock` is one turn of the inner loop, in place. `Uses` and `Overwrites` say what `place_address` and `emit_inst` really read and overwrite; `dead` is what was called dead and not overwritten since |
| `MirLivenessProofs` | | proofs about `MirLiveness` |
| `Holding` | `Holding`, `holding_merge`, `walk_block`, one sweep of `entry_holdings` | the facts of drop elaboration, without state |
| `DropHoldings` | `entry_holdings` block by block, and a run of the analysed body | `entries`, `next`, `reached` are the C arrays; `slot` is what really became of each slot |
| `DropHoldingsProofs` | | proofs about `DropHoldings` |
| `MirDrop` | all passes of `mir_drop_elaborate` | each pass is an operator from body to body, composed in `Elaborate` |
| `Ownership` | lowering, borrow check, elaboration, then the emitted code | composes `MirLower`, `MirBorrowck` and `MirDrop`; the `Run*` actions are the cases of `emit_inst` |
| `OwnershipProofs` | | proofs about the lowering of `Ownership` |
| `OwnedHeap` | abstract specification | objects are made, released once, or returned; nothing is left behind |
| `HashMap` | `util/hash_map.h` | one action per mutating operation; `Probe` is the probe loop, and `_resize` moves one entry per action |
| `FiniteMap` | abstract specification | what a map promises |
| `Arena` | `memory/arena.c` | one action per outcome of `arena_alloc` (bump, reuse a block, new block, reuse an oversized block, new oversized block), reset, checkpoint, rewind |
| `MemoryProofs` | | proofs about `Arena` and `HashMap` |
| `NatFacts` | | facts the proofs share: least elements, short paths, what `Iterated` computes |
| `MCInterface`, `MCBuilds`, `MCMirBuild`, `MCMirFold`, `MCBorrowFlow`, `MCOwnership`, `MCDropHoldings`, `MCMirLiveness`, `MCHashMap` | | constants of the runs |

### The source programs of `Ownership`

A program is not given in advance: TLC reads it statement by statement as it is
lowered. `Shapes` is a set of program families; a family says which parameter lists and
results its functions have and which statement forms may stand first, second,
and so on. Statements: `let x = make()`, `let x = y`, a literal `Owner { f: make()
}`, assignment to a variable or to its field, `take(e)` (consumes), `peek(&x)`
(borrows), an expression whose value is discarded, block, `if` with or without `else`, `for` with or without
condition and post statement, `break`, `continue`, `return`. A condition is a plain
flag, a read of a temporary's field, or `c && ` such a read. `make`, `take` and
`peek` are the externs the repository's own tests use for the purpose. A
branch may go either way.

Every variable and temporary has one owning type with one owning field, so the
`mir_type_needs_drop` tests of the code are true throughout. The model's
elaborated bodies were compared with the dump of the real `mir_drop_elaborate` for programs
with loops, jumps and conditions.

The memory of a slot is an object, null, or undefined, and only emitted
instructions set it: `MIR_STORAGE_LIVE` writes null, a drop flag starts as false,
a parameter arrives full. A release of anything that is neither null nor a live
object appends a corrupt entry to the heap, which `OwnedHeap` has no step for.

### The references of `BorrowFlow`

A reference in the run names the storage of a slot, the object of an owner, what
the caller gave, or nothing any more (`Ended`): storage that ended or an object
that was freed (`Gone`), or an object whose owner was given another one and which
nothing frees (`Left`). Which of the two an overwritten object is, `Releases` says: a store
frees what it overwrites when an earlier store of the text filled the slot and no move emptied it in
between (`release_before_overwrite`), so the first store to a parameter leaks what the caller passed. Two things `mir_borrowck` does not
follow have names of their own, so that the properties can say what they leave
out: `Given`, an object that changed owners after it was borrowed, or was already `Left` when the
reference was copied; and `Stale`, a reference copied when it was already `Gone` (the violation `stale_copy`).

### The tokens of `Interface`

A token is a type and a value. The printer writes tokens where the code writes
text; where two pieces of text stand side by side and the lexer joins them (`&`
`&`, a number before a `.`) the joined token is what is written. `Misread` names
the shapes whose text says something else; section 3 lists them.

## 3. Runs

### Passing

**`drop_holdings`** (`DropHoldings`). All well-formed bodies of three blocks over one
slot: every choice of successor lists and of the instructions that fill, empty
and drop the slot, unreachable blocks and self-loops included. One slot is enough
because the analysis treats slots independently; three blocks are the least that
allow a loop beside a join with an edge from a block that is never reached. Checks the type
invariant, `DropsAreJudgedRightly` (what is known at a drop is true on the path
taken), `SweepMergesAllEdges` (the in-place sweep computes the merge over all
predecessors, which is the one-step form `MirDrop` uses) and `AnalysisEnds`.

**`ownership`** (`Ownership`). Four families: moves on some paths through branches
and loops (five statements); overwrites of a variable or its field with temporaries in
conditions (four); moves and overwrites between two variables and a parameter in
nested scopes, ending in a return (five); and literals moved on a branch or returned
early (five). 832,099 states. Checks the type invariant, `UsesFindAnObject`, `GuardsAreEmitted`,
`BodiesAreWellFormed`, `ReleasesAreSound`, and `KeepsThePromise`: the whole pipeline
implements `OwnedHeap`. The families are separate because mixing them (moving *and* refilling one slot
across a branch) reaches the defects below; each family is as wide as it can be
without them. `MaxBackJumps = 2` lets a loop body run three times: once, once
after itself, and once after a body that followed a body. Five statements allow a
declaration, two nested constructs, a use, and a use after them. `DeadCode = FALSE`
keeps statements from following a `return`, `break` or `continue` in their block.

**`liveness`** (`MirLiveness`). Bodies of three blocks over a struct of two fields and a
plain value: each block holds at most one instruction (a store to the struct, to
a field, through a reference in a field or into an element of one; a load, a reference, a call, the
end of the storage), the blocks branch forward, back and to themselves. Checks the type
invariant, `DeadIsNeverUsed`, `LivenessIsExact` (when a sweep changes nothing, a bit is in
the set of a block's head exactly when some path from there reads it before
writing it, stated over paths and not as a fixed point) and `LivenessEnds`. Three blocks let a fact travel
round a loop against the order of the sweep, which takes a second sweep. Stores of one dereference or one
index are left out (see the relatives below).

**`borrows`** (`BorrowFlow`). Functions with four parameters (two references, a struct
of two references, an owner), a variable of each kind, and an inner scope with a
variable of its own that is skipped or repeated. Two statements in the scope, of
fourteen (borrow the inner or outer variable, copy a reference either way, store
into or load from a field, borrow the owner, remake it, give it away, a call that
returns either argument, a slice, a read), one before and a read or a return after it. In further functions
the owner is stored to before, so that remaking it in the scope frees an object instead of leaking the
caller's. 424,271 states. Two
statements in a loop are enough for a borrow to travel from one slot to another
and meet the end of its source on the second round. Checks the type invariant,
`BorrowsAreValid` (what is read or called through a reference has not ended, been
freed or been overwritten), `SummaryIsSound` (a returned reference names memory of the caller, through a
parameter the summary has) and `BorrowckEnds`. `NamesInSight`, the two hypotheses of the proofs in section
5 together, is checked too: they hold of all these functions, those the checker goes on to reject included, so the theorems speak of
functions with every statement of the run.

**`fold`** (`MirFold`). Two operations on three literals or the parameter, of every
type, a store into an element whose index is one of the constants, and a return. A `u8` has 4 values, an `i32`
8, a `usize` 32, and the literals stand around each limit, so that every
wrap, the least `i32` divided by -1, and a count past the word happen. 508,436
states. Checks the type invariant, `FoldIsExact` (after every step of the pass, the function
stores, indexes with and returns what it did, whichever of two values its parameter holds) and `OperandsStay`. Folds
of a `usize` past the compiler's `int32_t` are left out by name
(`SomeFoldsPastTheWord`; see the relatives).

**`instances`** (`MirBuild`). A function, two functions that are both generic or both
not, and one imported or external, in three orders, calling each other and
themselves at the same, a wrapped or a ground type. `MaxInstantiations = 4` is
reached by a generic that asks for itself wrapped, and is more than the three
instances a program without that needs; three parameters with `SummaryBits = 2` put one
parameter past the width of the summary, as the 33rd is in the code. 169,334 states. Checks the type
invariant, `InstancesAreComplete`, `CallersAreTold` (the borrow checker takes a call's result
to name every argument the callee may return, the truth being a least fixed point
over all bodies) and `BuildEnds`.

**`interface`** (`Interface`). Every shape of expression, and every shape of every
shape of every atom, in a `return`; the same up to one level in the headers of `if` and
`for` and in a `let`; three operators between four operands; every statement, alone, in every block, and before
every simple one; every header of a `for`; functions, structs, impls and interfaces with every
modifier and with more type parameters than fit; modules of two files; strings and floats that print as something else; and texts of up to two arbitrary
tokens in a body, in an impl and at top level, and of up to three in a block that is never closed. 189,797 states. Checks the type
invariant, `RoundTrip` (what is parsed from the interface is what was declared, *exactly* when no
`Misread` shape is in it), `OperatorsGroup` (against a definition of grouping that looks for
the loosest operator; `<` and `>` are among the operators, so the scan for type arguments has to decide in its rows) and `ParserEnds`. The parser hangs in one case, which
`ParserEnds` names (see the relatives).

**`builds`** (`Builds`). Three modules, `main` importing `a` and `b`, `b` importing
`a`; two versions of `a` and of `b`, in any order, one run per module at a time. Every interleaving of the reads and
writes of three runs, with each run failing at each point, half an interface possibly reading as the
older version. 785,502 states. Checks the type invariant, `NoStalePair` and
`RefusedForAReason`.

**`hash_map`** (`HashMap`). Three keys, two values, and four hash functions that make all
keys collide, wrap around the end, or spread; capacity starts at 2, so the first
inserts already resize, entry by entry, and the state space is closed by the three keys. 23,476 states. Checks
`ProbesEnd`, `CountersAgree` and `IsAMap` (implements `FiniteMap`). Capacity 1 passes the code's own
assertion but its first insert fills the table and the next probe for another key
never ends; no caller asks for less than 8, and `MapAssumption` excludes it.

**`arena`** (`Arena`). Block size 3, requests of 1, 2 (fit), 4 and 5 (oversized), at most
`MaxBlocks` = 5 blocks and `MaxHeld` = 4 live allocations: enough for an oversized block between
two ordinary ones, reused after a reset or rewind by a smaller request. Checks
the type invariant, `RangesAreDisjoint`, `RangesAreReserved` (no live range lies beyond its
block's offset, so no later bump reaches it) and `LaterBlocksAreFree`. `ScratchUse` says that a checkpoint is
taken of an arena that holds nothing, as in `mir_borrowck`, the only caller: with
`ScratchUse = FALSE`, `RangesAreReserved` fails, because a rewind empties the dedicated
blocks that precede the checkpoint in time but follow it in the list.

### Violations

Each is one family of programs that the compiler accepts, checked against what the README
or a test's comment says.

| Run | Program | What happens |
|---|---|---|
| `refill_in_a_loop` | `let p = make(); for ; c; { p = make(); take(p); }` | the second iteration releases the object `take` consumed |
| `stale_copy` | `let o = make(); p = o; o = make(); r = p; *r` | the second store frees the first object; copying the reference `p`, which dangles, gives `r` a fresh state, and what it names is read after it was freed |

### Relatives without a run

Shapes the runs leave out, each because the code departs there from the property of the run. The
cause is given at its line.

Ownership:

* `let p = make(); if c { take(p); } p = make();` leaks the first object when `c` is
  false, and `let p = Owner { f: make() }; p = make();` leaks what the literal held
  (`release_before_overwrite` judges by text order and does not count
  `MIR_STORAGE_INIT` as storing); so does the first `o = make()` to an owned parameter `o`, which leaks what
  the caller passed;
* `c && make().f > 0` releases a slot that never came to life when `c` is false, and
  `for ; make().f > 0; { }` leaks every temporary but the last (the temporary of a
  condition belongs to the enclosing scope);
* a function without a result that only borrows its owned parameter leaks it;
  `if c { take(p); } return 1;` leaks it when `c` is false (its flag starts clear and
  no instruction sets it), and `if c { } else { take(p); } return 1;` releases it
  twice (`llvm_emit.c:712`);
* a statement after `return` is lowered behind the terminator of its block
  (`DeadCode = TRUE`: `BodiesAreWellFormed` fails).

Liveness and borrows:

* `let p: &i32 = y; if c { let x = 2; p = x; } *p = 5;` stores through a reference to storage
  that ended, because a store through `p` counts as overwriting `p`
  (`mir_liveness.c:86`); a store into one element of an array of references makes
  the others count as dead. `DeadSound` has this as its hypothesis;
* a store into one element (`a[1] = y`) replaces the borrows of the whole array;
* a reference to the object of an owner is not followed when the object is given
  away (`Given` in `BorrowFlow`);
* `let o = make(); p = o; o = make(); p.n = 5` stores through a freed reference: a store through a reference leaves `flow_inst` before
  any look at the reference's state (`mir_borrowck.c:431`). `BorrowsAreValid` is therefore about reads and calls;
* `if c { let x = q.n; p = x; } *p` with `q`, `p` references reads storage that ended: what is loaded through `q` is taken
  to name what `q` names, so a reference to `x` is taken to name that and not `x` (`mir_borrowck.c:187`);
* `if c { w.a = q; } return w.a` with `w` a struct of references returns what `w` came with, and the summary lists `q` alone:
  opening a field forgets what the whole named (`mir_state.c:56`, and `slot_merge` at 170 where one path has opened it);
* a reference to the slot of a parameter may be returned: `outlives_its_source` leaves every parameter out
  (`mir_borrowck.c:289`). These three are what `BorrowsInSight` and `ParamsInSight` exclude;
* `take(s); s.n = 2; take(s)` is accepted: a store into one field marks the slot as
  initialised (`mir_borrowck.c:457`);
* `break` and `continue` leave a scope without `MIR_STORAGE_DEAD`, so a borrow of a
  variable of that scope is not seen to end there;
* what a callee stores through its parameter is not part of its summary, and a reference that was never set is not
  reported as an operand of a call.

Interfaces and parser, named by `Misread` and by `ParserEnds`:

* the post clause of `for ; x; i += 1` is not printed (`interface.c:417`), nor any clause that is
  an expression; the test that says every shape reaches a reader unchanged
  (`src/test/driver/interface_test.c:129`) has no such clause;
* `(*p).f` is printed as `*p.f`, an integer literal before `.` joins it into a float, `*(f(x))` is
  read again as a cast, a float without a fraction is read as an integer and one printed with an
  exponent as an integer and more, a string is printed as decoded, so one with an escaped line break, quote, backslash or NUL is read as another
  or not at all (`interface.c:186`), `& &T` joins into
  `&&` where type arguments are only scanned, a struct literal in the header of an
  `if` or `for` loses its parentheses, a struct declared in a body is left out, and so is
  one of the two modifiers of `extern intrinsic`;
* `extern`, `caller` or `module` where a statement of a block should start is neither
  parsed nor passed by the recovery, and the parser does not end
  (`parser.c:596`);
* the digest skips what follows `//`, also inside a string, so two such interfaces share a symbol; this is
  the hypothesis of `StalePairsAreRefused`.

Folding: `let n: usize = 3000000000 + 0` is folded in 32 bits (`mir_fold.c:199`), and so is a `-` whose result needs more.

## 4. Fairness

All fairness is weak, and of loops of a single-threaded compiler that wait for nothing, so that
a step that can be taken is taken: `DropHoldings` of `Analyse`, the steps of
`entry_holdings`; `MirLiveness` of the loop of `mir_liveness_compute`; `BorrowFlow` of
`Check`, the loop of `mir_borrowck`; `MirBuild` of `Next`, the loops of `mir_build`; `Interface` of `Next`,
the parser. The runs of compiled functions have none, and nothing is claimed to
happen in them. `Builds` has none either: a run may be killed. All other properties are safety properties.

## 5. Proofs

Each proof module proves its theorems for every value of the constants its assumption allows. An
assumption is a named `ASSUME` of the component, so every run evaluates it on its instance.

`DropHoldingsProofs`, for every set of well-formed bodies and values:

* `TypeCorrect`: `Spec => []TypeOK`;
* `DropsSound`: `Spec => []DropsAreJudgedRightly`;
* `SweepsMerge`: `Spec => []SweepMergesAllEdges`.

The assumption is `FunctionsAssumption`: a body has an entry block, its targets exist, and a
terminator stands last in its block. `LoweredIsWellFormed` below proves that the lowering leaves such bodies for source
without dead code.

`DropsAreJudgedRightly` speaks only of drops in a finished analysis. The inductive
invariant `IInv` adds: `SweepCovers`, while a sweep is at block `at`, the facts gathered
for a block cover the exit facts of each predecessor before `at`, and
the entry block never claims "holds nothing"; `EdgesCovered`, a finished analysis covers every
edge; `NotStarted`, the run has not moved during the analysis; `RunDescribed`, the facts at
the run's current instruction describe every slot. `SweepCovers` becomes
`EdgesCovered` in the one step where the sweep changed nothing, because then the gathered facts *are*
the entry facts; `RunDescribed` follows an instruction by `HeldAtStep` and an edge by
`EdgesCovered`. This is why soundness needs no monotonicity, and why unreachable blocks do no harm beyond precision.

`SweepsMerge` is the converse, precision: what a sweep gathers for a block is not only above
what its edges carry, it is their merge and nothing more. Its invariant `SweepMerged` says so of the edges out
of the blocks before `at`; at the last block these are all of them.

`MirLivenessProofs`, for every set of well-formed bodies and every number of fields:

* `LivenessTypeCorrect`: `Spec => []TypeOK`;
* `DeadSound`: if every store whose place has one projection projects a field
  (`StoresNameSlots`), `Spec => []DeadIsNeverUsed`;
* `LivenessExact`: `Spec => []LivenessIsExact`, without that hypothesis.

`LivenessAssumption` is the same well-formedness, with terminators that produce
nothing. The hypothesis of `DeadSound` is exactly what the store through a reference above
breaks, so it draws the line between the stores
`step_backwards` judges rightly and the ones it does not. The inductive
invariant: `Settled`, as long as a sweep has changed nothing, the blocks behind it are
closed (a block's end has what its successors need, its head what its
instructions leave of that); `AllClosed`, after the last sweep all are; `DeadIsNotLive`, what was
called dead is outside the live set before the current instruction. `LiveStep` carries the last
one over an instruction, `AllClosed` over an edge.

`LivenessExact` says that when a sweep has changed nothing, the bits are the ones some path needs. That a needed bit is
set is walked backwards along the path, block by closed block (`Settled`). That a set bit is needed is the
invariant `Justified`, which holds in the middle of a sweep too: each bit comes with a path on
which it is used before it is written. Paths in the property are as long as the graph has blocks;
`ShortPath` in `NatFacts` cuts the cycles out of a longer one.

`BuildProofs`, of `Builds`, for every set of modules, imports, versions and texts:

* `BuildsTypeCorrect`: `BuildsSpec => []BuildsTypeOK`;
* `StalePairsAreRefused`: if the digest tells texts apart (`DigestTellsTextsApart`),
  `BuildsSpec => []NoStalePair`;
* `RefusalsAreRight`: `BuildsSpec => []RefusedForAReason`, whatever the digest.

`BuildsAssumption` types the constants and keeps `Nothing` apart from a text and from a symbol. The
inductive invariant adds to `BuildsTypeOK` that every object ever written, in a file, in a program or refused, is
`Truthful`: it declares the symbol of the text it was compiled from, if any, and requires exactly
the symbols of the texts it read. It follows each run through its stages: what the run has
read is complete once it has resolved, and the file it reads its own
interface back from is the one it closed, because no other run writes it. `ResolvedIsMatched` and
`MatchedIsResolved` then turn equality of symbols into equality of texts and back, the first by the digest.

`MemoryProofs`, of `HashMap`, for all keys, values, hash functions and initial capacities of at least 2 (`MapAssumption`):

* `ProbesAlwaysEnd`: `Spec => []ProbesEnd`, for the table in use and for the one a resize fills;
* `CountersAreRight`: `Spec => []CountersAgree`;
* `TableIsAMap`: `Spec => IsAMap`, the refinement of `FiniteMap`.

The invariant is made of `Placed`, no entry between the home of a live entry's key and that entry is
empty; `Single`, no key lives twice; `Counted`, `size` and `occupied` count the live
and the used entries and the load limit leaves room; and `Moving`, the table a resize fills holds what
the entries before `next` held. A deletion keeps `Placed` because it leaves a tombstone, and an insert
into a tombstone keeps `Single` because the probe went on to an empty entry first. An empty
entry exists by `Counted`, so the probe ends; by `Placed` and `Single` what it finds is the key's only entry.
The refinement needs every step of a resize to be a stutter of the map, which is `Moving` at the last entry.

`MemoryProofs`, of `Arena`, for every block size and all request sizes (`ArenaAssumption`):

* `ArenaTypeCorrect`: `ArenaSpec => []ArenaTypeOK`;
* `LaterBlocksStayFree`: `ArenaSpec => []LaterBlocksAreFree`;
* `RangesStayDisjoint` and `RangesStayReserved`, under `ScratchUse`: `ArenaSpec => []RangesAreDisjoint`
  and `ArenaSpec => []RangesAreReserved`;
* `BumpMemoryIsSafe`: without it, the same of all ranges outside oversized blocks.

`ScratchUse` says that a checkpoint is taken of an arena that holds nothing, which is how `mir_borrowck`, the
only caller, uses it. A rewind to a fuller arena would empty the oversized blocks linked behind
the current one although they may hold what was handed out before the checkpoint; the last theorem
shows that this is the only harm. The invariant: `ListOK`, the list is well formed and what follows the current block is free; `MarkOK`, a
checkpoint names a block of the list that is not oversized, at an offset inside it; `HeldOK`, each range lies
in the used part of its block and, if it was there first, under the checkpoint, so that neither the next range nor a
rewind reaches it; `KeptDisjoint`.

`BorrowFlowProofs`, for every set of values, kinds and fields, all parameters and every set of well-formed functions:

* `FlowTypeCorrect`: `Spec => []TypeOK`;
* `BorrowsSound`: `Spec /\ []BorrowsInSight => []BorrowsAreValid`;
* `SummarySound`: `Spec /\ []BorrowsInSight /\ []ParamsInSight => []SummaryIsSound`.

Both properties leave out `Given` and `Stale` references (section 2), and the second what was never set.

`FlowAssumption` describes the bodies `mir_lower` emits: nothing jumps to the entry block, operands are defined before what is made of
them and once, a copy is of the type it is copied to, only an owner is moved out of, and `MIR_STORAGE_INIT` follows the `MIR_STORAGE_LIVE` of its slot.

The hypotheses say where the checker keeps sight of what is named. They are conditions on the states it flows in the round
that reports, so a compiler could evaluate them as it goes; they do not mention the run or its memory. `BorrowsInSight`, of each
instruction flowed: what is read was given on every path; the sources collected for an operand now cover what
it was taken to name when it was made; a reference to a variable's slot is taken to name that slot; and no field is
opened, by a store or where paths meet, of a slot whose whole named something. `ParamsInSight`: no reference to
a parameter's slot is made; what is returned and may name an owner dangles, because the owner was dropped before; and what is read of a
field of a parameter is taken to come from it. Each clause excludes one of the relatives of section 3 and is needed: without it
the program listed there is accepted and runs into the harm. The run `borrows` checks both on each of its functions.

What remains is the claim of the algorithm: a flow analysis that merges states where paths meet, sweeps until
nothing changes and then reports once is sound for every graph. `BorrowsAreValid` looks at the memory of a run only, which says nothing of the
sweeps before it. The inductive invariant `Sound` has four parts. `Shape`: types, and what the analysis leaves alone.
`Swept`: while nothing has changed in a sweep, the blocks behind it are `Settled`, a further sweep would change
no successor's entry. `Reports`: all reached blocks are settled, and those behind the reporting round are `Cleared`, no
instruction was reported and the summary has what each return names. `Runs`: all are settled and cleared, and the state that belongs
to the run's instruction `Tells` the truth of its memory: a reference to what has ended (`Ended`) is marked as lost and names
something, one that names a slot, an object or a caller's memory has it among its borrows. The states inside a block
are not kept by the program, so each part says that a sequence of them exists which starts with the block's entry and follows `FlowInst`.
`FlowTells` carries `Tells` over an instruction that was not reported, in one lemma per kind
(`StorageTells`, `LoadTells`, `RefTells`, `StoreTells`, `CallTells`); `MergeTells` and `Settled` carry it over an edge: a slot merged with
another knows at least what each of them knew, the lower of two states being the one that is reported. `LiveWhereStorageEnds` is not part of the
argument for reads: what names an ended slot was marked by `MIR_STORAGE_DEAD`; it is what makes the report early.

`BuildProofs`, of `MirBuild`, for every set of programs and all limits (`BuildAssumption`: names are finite, the bodies are listed once each
and are those written here, and a body that is not generic calls at ground types, as the resolver leaves it):

* `BuildTypeCorrect`: `Spec => [](program \in Programs /\ TypeOK)`;
* `CallersTold`: `Spec => []CallersAreTold`, by `SummariesCover`, a summary names what its body returns: a callee
  without one yet is taken to return everything, so its own summary only takes away; and by `SummarisedOnce`,
  because a second summary may set bits the first did not;
* `InstancesComplete`: `Spec => []InstancesAreComplete`.

The last one compares a worklist that grows while it is walked with the least set closed under calling. `Ranked`: each
instance listed is reached from the source in some number of rounds, so nothing is listed in vain. `Progress`: what a
body before `at` calls is listed or still in `calls`, so at the end nothing is missing. `Overflowing`: the list is
cut off only at its limit, and then the overflow is remembered.

`MirFoldProofs`, for every width, every function without a jump and every value of its parameter:

* `FoldTypeCorrect`: `Spec => []TypeOK`;
* `OperandsAreKept`: `Spec => []OperandsStay`;
* `FoldKeepsTheFunction`: `Spec => []FoldIsExact`.

`FoldAssumption` describes what `lower_*` emits (`IsFunction`): one definition per value, before it is read; the resolver's
types; constants an `int64_t` holds; and widths of which the byte's divides the word's and the word's is below the
size's. The invariant: `InstsOK`, each instruction is one of the source's, as it was or folded, in an order that sets before it reads, and no
store or return is gone; `KnownOK`, what is known of a value is of its type, and known because its instruction is a constant or
was folded; `Unfolded`, what lies ahead of the loop is as lowered; `Stays`, what
is gone is not read; `Exact`, the registers of the source's run satisfy every instruction of the folded code and hold what is known. The argument
avoids induction over the code: the registers after a run solve the equations of its instructions, the
solution of ordered code is unique (`SolutionsAgree`), and a folded constant satisfies the equation of the operation
it replaces modulo the width (`IntegersAgree`). `FoldIsExact` leaves out functions that fold a `usize` past the
word (see the relatives above); the proof showed that a `neg` whose result is past it belongs to them too.

`OwnershipProofs`, for every set of names and every set of program shapes (`LowerAssumption`), so for functions of any
length and any nesting:

* `LoweredIsWellFormed`: without dead code (`~ DeadCode`), `Spec => []BodiesAreWellFormed`.

The hypothesis is the one the relative in section 3 shows to be needed: a statement lowered after a `return` lands behind the
terminator. The property speaks of a finished body; while statements are open, many blocks lack a terminator. The inductive invariant `LowerInv`
says which: the one being written, and the ones the open statements made and have not come to, which are empty (`Laid`,
`Pending`). An `if` waits for its join and its else-block, a loop for its post block and its exit; no two open statements
wait for the same block (`Stack`), so a closing brace finds the block it goes on with empty, and the last brace finds that
no block waits. That targets exist needs what a loop saves: the targets of the loop around it, restored at its brace, and its header, to which the
back edge leads when the header no longer waits; these are the known blocks `K`. One lemma per helper says what it leaves of an
open block, one per statement and one per brace that the invariant is kept. The proof uses nothing of the values
instructions carry, so blocks and locals are sequences of something. The targets are never the entry, which `FlowAssumption` of `BorrowFlow` asks for.

`NatFacts` holds what replaces induction: a nonempty set of naturals has a least element
(`LeastOfNaturals`), so a smallest counterexample can be refuted; that `Iterated` of `Rounds` exists and takes its
steps; and `ShortPath`.

Only model-checked: the liveness properties (`AnalysisEnds`, `LivenessEnds`, `BorrowckEnds`, `BuildEnds`, `ParserEnds`), since
the provers have no rule for fairness; `Parser` and `Interface`, which use recursive operators the provers cannot reach;
and the other properties of `Ownership` with its refinement `KeepsThePromise`. The latter are not theorems: the relatives in section 3
break them for shapes the assumptions allow, so what holds for every function would need hypotheses on the source, one per relative, and
what the fixed points of `MirBorrowck` and `MirDrop` compute needs induction over their recursive functions. `FiniteMap` and `OwnedHeap` are proved and checked about through the modules that implement them.

## 6. Not modelled

* Lexer, string pool, scopes, types, list, symbol names, MIR printer, diagnostics: characters and
  formatting, or tables that are clients of the hash map, which is modelled once. The models
  take types and names as values with equality, which is what interning provides.
* Most of the resolver: the types of expressions, coercions and the order of
  declarations. It is one case per shape of a node, each a few lines over those
  tables; the rules the passes behind it rely on are in `MirLower` and `MirBuild`.
* In the lowering: indexing, slices, strings, bounds checks, casts, intrinsics, compound assignment,
  structs with several owning fields.
* In the borrow checker: fields of fields.
* In emission: LLVM types and drop glue for nested types.
* In `Builds`: two runs for one module at once, a full disk, files removed by others, options and paths.
* In `Interface`: the digits of numbers.

`PROJECT.json` gives the reason for each component.

## 7. What could follow

1. **Proofs**: the source programs for which elaboration keeps the promise of `OwnedHeap`, with the facts about
   `entry_holdings` that `DropsSound` gives.
2. **Borrow checking**: fields of fields, and what lies behind a reference.
3. **Registries and scopes**: method lookup and the matching of impl blocks; lookup through
   parents and imports, over `FiniteMap`.
4. **Resolver**: declaration order and coercions.
