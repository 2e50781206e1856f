------------------------------ MODULE MirLower ------------------------------
(***************************************************************************)
(* The lowering of a function body to MIR (mir/mir_lower.c): which slots   *)
(* exist, where they come to life, where each path drops them, and where   *)
(* a branch or a jump leads.                                               *)
(*                                                                         *)
(* A source program is lowered as it is read: each action is one           *)
(* statement, or the closing brace of one.  Every variable and every       *)
(* temporary is of one owning type with one field that owns the object;    *)
(* numbers and conditions are left out.  The externs of the programs are   *)
(* make, which returns a fresh object, take, which consumes its argument,  *)
(* and peek, which borrows it.                                             *)
(***************************************************************************)
EXTENDS Mir, SequencesExt

CONSTANTS Names,          \* variables of the source
          Shapes,         \* families of source functions: their parameter lists, what
                          \* they promise to return, and the statements that may come
                          \* first, second, ...
          DeadCode        \* whether a statement may follow a return or a jump

Exprs == Names \cup {"make"}
Conditions == {"plain", "temp", "and"}

Statements ==
    ({"let", "assign"} \X Names \X Exprs) \cup ({"lit", "fassign", "peek"} \X Names)
        \cup ({"take"} \X Exprs) \cup ({"return"} \X (Exprs \cup {"number"}))
        \cup ({"expr"} \X Conditions) \cup ({"if"} \X Conditions \X {0, 1})
        \cup ({"for"} \X (Conditions \cup {"none"}) \X {0, 1})
        \cup {<<"block">>, <<"break">>, <<"continue">>}

ASSUME LowerAssumption ==
    /\ "make" \notin Names /\ "" \notin Names
    /\ \A n \in DOMAIN Shapes : Shapes[n] \in [params : SUBSET Seq(Names),
                                               promises : SUBSET {"nothing", "number", "owner"},
                                               script : Seq(SUBSET Statements)]
    /\ DeadCode \in BOOLEAN

VARIABLES lowering,    \* struct Lowering
          frames,      \* the statements still open: the C stack of lower_stmt
          shape,       \* the family the function belongs to
          promises,    \* what the function promises to return
          statements   \* statements lowered so far

lowerVars == <<lowering, frames, shape, promises, statements>>

-----------------------------------------------------------------------------
(***************************************************************************)
(* struct Lowering and its helpers, each from a state to a state.  `value` *)
(* is what the last lower_expr returned.                                   *)
(***************************************************************************)

\* mir_value_create: the id it hands out is the count before the call.
Fresh(L) == L.valueCount
ValueCreate(L) == [L EXCEPT !.valueCount = @ + 1, !.value = Fresh(L)]

\* mir_block_create, n times.
BlockCreate(L, n) == [L EXCEPT !.blocks = @ \o [i \in 1..n |-> <<>>]]

Emit(L, inst) == [L EXCEPT !.blocks[L.block] = Append(@, inst)]

EmitAll(L, insts) == [L EXCEPT !.blocks[L.block] = @ \o insts]

Terminated(L) == IsTerminated(L.blocks[L.block])

\* A terminator emitted whatever the block ends in.
TerminateAlways(L, inst) == Emit(L, inst)

\* lower_terminator, lower_jump.
LowerTerminator(L, inst) == IF Terminated(L) THEN L ELSE Emit(L, inst)
LowerJump(L, target) == LowerTerminator(L, Jmp(target))

BindLocal(L, name, v) == [L EXCEPT !.locals = Append(@, [name |-> name, value |-> v])]

Bound(L) == {L.locals[i].name : i \in DOMAIN L.locals} \ {""}

\* local_value: the innermost binding of a name.
LocalValue(L, name) ==
    L.locals[CHOOSE i \in DOMAIN L.locals :
                /\ L.locals[i].name = name
                /\ \A j \in DOMAIN L.locals : L.locals[j].name = name => j <= i].value

\* lower_load_from.
LowerLoadFrom(L, Load(_, _), place) == Emit(ValueCreate(L), Load(Fresh(L), place))

\* lower_temp_slot: a slot with no name, released by the scope it is bound in.
LowerTempSlot(L) ==
    LET v == Fresh(L)
    IN Emit([BindLocal(ValueCreate(L), "", v) EXCEPT !.tempSlots = @ \cup {v}], StorageLive(v))

\* lower_call of make: an owned result moves into a temporary's slot at once.
LowerMake(L) ==
    LET r == Fresh(L)
        called == LowerTempSlot(Emit(ValueCreate(L), Call("make", r, None)))
    IN Emit(called, Store(called.value, r))

\* lower_moved_temp: ownership leaves a temporary's slot through a move.
LowerMovedTemp(L) ==
    IF L.value \in L.tempSlots THEN LowerLoadFrom(L, LoadMove, L.value) ELSE L

\* lower_expr of an owned operand, with the lower_moved_temp of its context.
LowerMoved(L, e) ==
    LowerMovedTemp(IF e = "make" THEN LowerMake(L)
                   ELSE LowerLoadFrom(L, LoadMove, LocalValue(L, e)))

\* make().f: the field is read and the temporary stays until the scope ends.
LowerTempRead(L) ==
    LET made == LowerMake(L) IN LowerLoadFrom(made, LoadField, made.value)

(***************************************************************************)
(* A condition: a flag read in place, one that reads a field of a          *)
(* temporary, or lower_logical with such a read as the right operand of    *)
(* an "and".  The right operand has its own block, but its slot belongs to *)
(* the enclosing scope.  The stores of the truth value are left out.       *)
(***************************************************************************)
LowerLogical(L) ==
    LET rhs == Len(L.blocks) + 1
        join == rhs + 1
        branched == LowerTerminator(BlockCreate(ValueCreate(L), 2), Branch(rhs, join))
        right == LowerJump(LowerTempRead([branched EXCEPT !.block = rhs]), join)
    IN [right EXCEPT !.block = join]

LowerCondition(L, c) ==
    IF c = "plain" THEN L ELSE IF c = "temp" THEN LowerTempRead(L) ELSE LowerLogical(L)

-----------------------------------------------------------------------------
(***************************************************************************)
(* The drops of a scope, innermost first.  Every local owns.               *)
(***************************************************************************)
LocalsAbove(L, floor) == Reverse(SubSeq(L.locals, floor + 1, Len(L.locals)))

\* The loop lower_return and the jump statement share: drops, and no unbinding.
DropDownTo(L, floor) ==
    EmitAll(L, [i \in DOMAIN LocalsAbove(L, floor) |-> Drop(LocalsAbove(L, floor)[i].value)])

\* lower_scope_end.
LowerScopeEnd(L, enclosing) ==
    LET ending == LocalsAbove(L, enclosing)
        local(i) == ending[(i + 1) \div 2].value
        ended == IF Terminated(L) THEN L
                 ELSE EmitAll(L, [i \in 1..(2 * Len(ending)) |->
                                    IF i % 2 = 1 THEN Drop(local(i)) ELSE StorageDead(local(i))])
    IN [ended EXCEPT !.locals = SubSeq(@, 1, enclosing)]

-----------------------------------------------------------------------------
(***************************************************************************)
(* Open statements.  A frame keeps the locals count at its opening brace,  *)
(* the blocks the statement made, the loop context to restore, and the     *)
(* answers of stmt_returns around it and of a finished then-branch.        *)
(***************************************************************************)
Frame(L, kind, to) ==
    [kind |-> kind, enclosing |-> Len(L.locals), to |-> to, outer |-> L.returned,
     thenReturned |-> FALSE, post |-> FALSE, scope |-> Len(L.locals),
     loop |-> [brk |-> L.breakTarget, cont |-> L.continueTarget, floor |-> L.loopLocalFloor]]

Inside(L) == [L EXCEPT !.returned = FALSE]

\* mir_build_function up to the body: parameters are values 0 up, already bound.
Started(params) ==
    [blocks |-> <<(<<>>)>>, block |-> 1, valueCount |-> Len(params), value |-> None,
     locals |-> [i \in DOMAIN params |-> [name |-> params[i], value |-> i - 1]],
     tempSlots |-> {}, breakTarget |-> None, continueTarget |-> None,
     loopLocalFloor |-> Len(params), returned |-> FALSE, params |-> Len(params)]

LowerInit ==
    /\ shape \in DOMAIN Shapes
    /\ \E params \in Shapes[shape].params :
         /\ lowering = Started(params)
         /\ frames = <<Frame(Started(params), "body", <<>>)>>
    /\ promises \in Shapes[shape].promises
    /\ statements = 0

Script == Shapes[shape].script

\* A statement of the source, read where one may stand.
Reads(form) ==
    /\ frames # <<>>
    /\ statements < Len(Script)
    /\ form \in Script[statements + 1]
    /\ DeadCode \/ ~ Terminated(lowering)
    /\ statements' = statements + 1
    /\ UNCHANGED <<shape, promises>>

Simple(L) == lowering' = L /\ UNCHANGED frames

-----------------------------------------------------------------------------
(***************************************************************************)
(* Statements.                                                             *)
(***************************************************************************)

\* lower_var_decl with an initializer that is an expression.
VarDecl(L, x, e) ==
    LET v == Fresh(L)
        moved == LowerMoved(Emit(BindLocal(ValueCreate(L), x, v), StorageLive(v)), e)
    IN Emit(moved, Store(v, moved.value))

LowerVarDecl ==
    \E x \in Names, e \in Exprs :
        /\ Reads(<<"let", x, e>>)
        /\ x \notin Bound(lowering) /\ (e = "make" \/ e \in Bound(lowering))
        /\ Simple(VarDecl(lowering, x, e))

\* lower_var_decl with a struct literal: the fields are stored in place.
LitDecl(L, x) ==
    LET v == Fresh(L)
        moved == LowerMoved(EmitAll(BindLocal(ValueCreate(L), x, v),
                                    <<StorageLive(v), StorageInit(v)>>), "make")
    IN Emit(moved, StoreField(v, moved.value))

LowerStructLit ==
    \E x \in Names :
        /\ Reads(<<"lit", x>>)
        /\ x \notin Bound(lowering)
        /\ Simple(LitDecl(lowering, x))

\* STMT_ASSIGN to a variable; the resolver turns down x = x.
Assign(L, x, e) ==
    LET moved == LowerMoved(L, e) IN Emit(moved, Store(LocalValue(L, x), moved.value))

LowerAssign ==
    \E x \in Names, e \in Exprs :
        /\ Reads(<<"assign", x, e>>)
        /\ x \in Bound(lowering) /\ x # e /\ (e = "make" \/ e \in Bound(lowering))
        /\ Simple(Assign(lowering, x, e))

\* The field dropped where it is, after the store.
FieldAssignDropsNew(L, x) ==
    LET moved == LowerMoved(L, "make")
    IN EmitAll(moved, <<StoreField(LocalValue(L, x), moved.value), Drop(LocalValue(L, x))>>)

\* STMT_ASSIGN to an owning field: what it held is read out first, dropped last.
FieldAssign(L, x) ==
    LET held == Fresh(L)
        moved == LowerMoved(LowerLoadFrom(L, LoadField, LocalValue(L, x)), "make")
    IN EmitAll(moved, <<StoreField(LocalValue(L, x), moved.value), Drop(held)>>)

LowerFieldAssign ==
    \E x \in Names :
        /\ Reads(<<"fassign", x>>)
        /\ x \in Bound(lowering)
        /\ Simple(FieldAssign(lowering, x))

\* STMT_EXPR take(e): callee_takes_slot, so a temporary is moved out of too.
TakeCall(L, e) ==
    LET moved == LowerMoved(L, e)
    IN Emit(ValueCreate(moved), Call("take", Fresh(moved), moved.value))

LowerTake ==
    \E e \in Exprs :
        /\ Reads(<<"take", e>>)
        /\ e = "make" \/ e \in Bound(lowering)
        /\ Simple(TakeCall(lowering, e))

\* STMT_EXPR peek(&x).
PeekCall(L, x) ==
    LET r == Fresh(L)
        lent == Emit(ValueCreate(L), Ref(r, LocalValue(L, x)))
    IN Emit(ValueCreate(lent), Call("peek", Fresh(lent), r))

LowerPeek ==
    \E x \in Names :
        /\ Reads(<<"peek", x>>)
        /\ x \in Bound(lowering)
        /\ Simple(PeekCall(lowering, x))

\* STMT_EXPR or a bool declaration that only evaluates a condition.
LowerExprStmt ==
    \E c \in Conditions :
        /\ Reads(<<"expr", c>>)
        /\ Simple(LowerCondition(lowering, c))

\* STMT_BLOCK up to its brace.
LowerBlock ==
    /\ Reads(<<"block">>)
    /\ frames' = Append(frames, Frame(lowering, "block", <<>>))
    /\ lowering' = Inside(lowering)

\* lower_if up to the brace of its then-block.  The join precedes the else.
LowerIf ==
    \E c \in Conditions, otherwise \in {0, 1} :
        /\ Reads(<<"if", c, otherwise>>)
        /\ LET L == LowerCondition(lowering, c)
               then == Len(L.blocks) + 1
               branched == LowerTerminator(BlockCreate(L, 2 + otherwise),
                                           Branch(then, then + 1 + otherwise))
           IN /\ lowering' = Inside([branched EXCEPT !.block = then])
              /\ frames' = Append(frames, Frame(L, "then", <<then + 1, then + 1 + otherwise>>))

\* lower_for up to the brace of its body.  An init statement lowers exactly
\* like one before the loop in a block of its own, so none is read here.
LowerFor ==
    \E c \in Conditions \cup {"none"}, post \in {0, 1} :
        /\ Reads(<<"for", c, post>>)
        /\ LET header == Len(lowering.blocks) + 1
               entered == [LowerJump(BlockCreate(lowering, 4), header) EXCEPT !.block = header]
               L == IF c = "none" THEN LowerJump(entered, header + 1)
                    ELSE LowerTerminator(LowerCondition(entered, c), Branch(header + 1, header + 3))
           IN /\ lowering' = Inside([L EXCEPT !.block = header + 1,
                                              !.breakTarget = header + 3,
                                              !.continueTarget = header + 2,
                                              !.loopLocalFloor = Len(L.locals)])
              /\ frames' = Append(frames, [Frame(lowering, "for", <<header>>)
                                             EXCEPT !.scope = Len(L.locals), !.post = (post = 1)])

\* STMT_JUMP; the resolver turns it down outside a loop.
LowerStmtJump ==
    \E jump \in {"break", "continue"} :
        /\ Reads(<<jump>>)
        /\ lowering.breakTarget # None
        /\ LET L == DropDownTo(lowering, lowering.loopLocalFloor)
           IN Simple(LowerJump(L, IF jump = "break" THEN L.breakTarget ELSE L.continueTarget))

\* lower_return; a number moves nothing out.
ReturnOf(L, e) ==
    LET moved == IF e = "number" THEN [L EXCEPT !.value = None] ELSE LowerMoved(L, e)
    IN [LowerTerminator(DropDownTo(moved, 0), Return(moved.value)) EXCEPT !.returned = TRUE]

LowerReturn ==
    \E e \in Exprs \cup {"number"} :
        /\ Reads(<<"return", e>>)
        /\ promises = IF e = "number" THEN "number" ELSE "owner"
        /\ e \in {"make", "number"} \/ e \in Bound(lowering)
        /\ Simple(ReturnOf(lowering, e))

-----------------------------------------------------------------------------
(***************************************************************************)
(* Closing braces.  Each ends the scope of its statement list and goes on  *)
(* with what the enclosing lower_ function does next.                      *)
(***************************************************************************)
Top == frames[Len(frames)]
Below == SubSeq(frames, 1, Len(frames) - 1)

Closes(kind) ==
    /\ frames # <<>>
    /\ Top.kind = kind
    /\ UNCHANGED <<shape, promises, statements>>

ScopeEnded == LowerScopeEnd(lowering, Top.scope)

CloseBlock ==
    /\ Closes("block")
    /\ lowering' = [ScopeEnded EXCEPT !.returned = Top.outer \/ @]
    /\ frames' = Below

CloseThen ==
    /\ Closes("then")
    /\ LET joined == LowerJump(ScopeEnded, Top.to[1])
       IN IF Top.to[2] = Top.to[1]
          THEN /\ lowering' = [joined EXCEPT !.block = Top.to[1], !.returned = Top.outer]
               /\ frames' = Below
          ELSE /\ lowering' = Inside([joined EXCEPT !.block = Top.to[2]])
               /\ frames' = Append(Below, [Top EXCEPT !.kind = "else",
                                                      !.thenReturned = lowering.returned])

CloseElse ==
    /\ Closes("else")
    /\ lowering' = [LowerJump(ScopeEnded, Top.to[1]) EXCEPT
                        !.block = Top.to[1],
                        !.returned = Top.outer \/ (Top.thenReturned /\ @)]
    /\ frames' = Below

\* The rest of lower_for: the post statement, the back edge, and the exit,
\* whose scope holds the temporaries of the condition and of the post too.
ForEnded ==
    LET header == Top.to[1]
        looped == [LowerJump(ScopeEnded, header + 2) EXCEPT
                        !.breakTarget = Top.loop.brk, !.continueTarget = Top.loop.cont,
                        !.loopLocalFloor = Top.loop.floor, !.block = header + 2]
        back == LowerJump(IF Top.post THEN LowerTempRead(looped) ELSE looped, header)
    IN LowerScopeEnd([back EXCEPT !.block = header + 3], Top.enclosing)

CloseFor ==
    /\ Closes("for")
    /\ lowering' = [ForEnded EXCEPT !.returned = Top.outer]
    /\ frames' = Below

\* The end of the function; the resolver wants a promised result returned.
CloseBody ==
    /\ Closes("body")
    /\ promises # "nothing" => lowering.returned
    /\ lowering' = LowerTerminator(ScopeEnded, Return(None))
    /\ frames' = <<>>

LowerStatement ==
    \/ LowerVarDecl \/ LowerStructLit \/ LowerAssign \/ LowerFieldAssign
    \/ LowerTake \/ LowerPeek \/ LowerExprStmt
    \/ LowerBlock \/ LowerIf \/ LowerFor \/ LowerStmtJump \/ LowerReturn

LowerClose == CloseBlock \/ CloseThen \/ CloseElse \/ CloseFor \/ CloseBody

LowerNext == LowerStatement \/ LowerClose
=============================================================================
