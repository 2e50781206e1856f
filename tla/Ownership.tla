----------------------------- MODULE Ownership -----------------------------
(***************************************************************************)
(* The path of a function through the compiler and into execution: its     *)
(* statements are lowered (MirLower), the borrow checker accepts it or not *)
(* (MirBorrowck), its drops are elaborated (MirDrop), and the code         *)
(* llvm/llvm_emit.c emits for the result runs.                             *)
(*                                                                         *)
(* Objects are numbered in the order they are made.  A slot's memory is an *)
(* object, null, or undefined; nothing but the emitted code sets it.       *)
(***************************************************************************)
EXTENDS MirLower, MirBorrowck, MirDrop

CONSTANT MaxBackJumps   \* bound on the backward jumps of a run

ASSUME RunAssumption == MaxBackJumps \in Nat

VARIABLES stage,      \* "lower", "check", "elaborate", "run", "over" or "rejected"
          body,       \* the function's blocks once lowered
          pc,         \* the next instruction, <<block, index>>
          mem,        \* what each value's slot or register holds
          flags,      \* the drop flags
          heap,       \* the fate of each object
          backJumps   \* backward jumps taken

runVars == <<pc, mem, flags, heap, backJumps>>
vars == <<lowerVars, stage, body, runVars>>

NullPtr == 0
Undef == -1

Values == 0..(lowering.valueCount - 1)
Params == 0..(lowering.params - 1)

Init ==
    /\ LowerInit
    /\ stage = "lower"
    /\ body = <<>>
    /\ pc = <<1, 1>>
    /\ mem = <<>>
    /\ flags = <<>>
    /\ heap = [i \in 1..lowering.params |-> "live"]
    /\ backJumps = 0

-----------------------------------------------------------------------------
(***************************************************************************)
(* The compiler.                                                           *)
(***************************************************************************)
Lower ==
    /\ stage = "lower"
    /\ LowerNext
    /\ UNCHANGED <<stage, body, runVars>>

Lowered ==
    /\ stage = "lower"
    /\ frames = <<>>
    /\ stage' = "check"
    /\ body' = lowering.blocks
    /\ UNCHANGED <<lowerVars, runVars>>

BorrowCheck ==
    /\ stage = "check"
    /\ stage' = IF Accepts(body, Values, Params) THEN "elaborate" ELSE "rejected"
    /\ UNCHANGED <<lowerVars, body, runVars>>

(***************************************************************************)
(* mir_drop_elaborate, then the prologue llvm_unit_add emits: a struct     *)
(* parameter is copied into a slot, a drop flag starts out clear, and the  *)
(* other slots start out undefined.                                        *)
(***************************************************************************)
ElaborateDrops ==
    /\ stage = "elaborate"
    /\ stage' = "run"
    /\ body' = Elaborate(body, lowering.valueCount)
    /\ LET count == lowering.valueCount + Cardinality(Overwrites(NullMovedSources(body)))
       IN /\ mem' = [v \in 0..(count - 1) |-> IF v \in Params THEN v + 1 ELSE Undef]
          /\ flags' = [v \in 0..(count - 1) |-> FALSE]
    /\ UNCHANGED <<lowerVars, pc, heap, backJumps>>

-----------------------------------------------------------------------------
(***************************************************************************)
(* The emitted code, one MIR instruction at a time (emit_inst).            *)
(***************************************************************************)
AtInst == stage = "run" /\ pc[1] \in DOMAIN body /\ pc[2] \in DOMAIN body[pc[1]]

Here == InstAt(body, pc)

Advance == pc' = <<pc[1], pc[2] + 1>> /\ UNCHANGED <<lowerVars, stage, body, backJumps>>

Objects == 1..Len(heap)

\* What becomes of the heap when the destructor runs on p: a live object is
\* released, null is left alone, and anything else corrupts the heap.
Freed(p) ==
    IF p = NullPtr THEN heap
    ELSE IF p \in Objects /\ heap[p] = "live" THEN [heap EXCEPT ![p] = "freed"]
    ELSE Append(heap, "corrupt")

\* MIR_STORAGE_LIVE stores null; MIR_STORAGE_DEAD and _INIT emit nothing.
RunStorage ==
    /\ AtInst /\ Here.op \in {"storage_live", "storage_dead", "storage_init", "null"}
    /\ mem' = IF Here.op \in {"storage_live", "null"} THEN [mem EXCEPT ![Here.base] = NullPtr] ELSE mem
    /\ Advance /\ UNCHANGED <<flags, heap>>

RunStore ==
    /\ AtInst /\ Here.op = "store"
    /\ mem' = [mem EXCEPT ![Here.base] = mem[Here.arg]]
    /\ Advance /\ UNCHANGED <<flags, heap>>

\* A reference is the slot's address; peek looks at the slot through it.
RunLoad ==
    /\ AtInst /\ Here.op \in {"load", "ref"}
    /\ mem' = [mem EXCEPT ![Here.res] = mem[Here.base]]
    /\ Advance /\ UNCHANGED <<flags, heap>>

RunCall ==
    /\ AtInst /\ Here.op = "call"
    /\ CASE Here.callee = "make" -> /\ heap' = Append(heap, "live")
                                    /\ mem' = [mem EXCEPT ![Here.res] = Len(heap')]
         [] Here.callee = "take" -> heap' = Freed(mem[Here.arg]) /\ UNCHANGED mem
         [] Here.callee = "peek" -> UNCHANGED <<heap, mem>>
    /\ Advance /\ UNCHANGED flags

RunFlag ==
    /\ AtInst /\ Here.op = "drop_flag"
    /\ flags' = [flags EXCEPT ![Here.flag] = Here.move]
    /\ Advance /\ UNCHANGED <<mem, heap>>

(***************************************************************************)
(* MIR_DROP: the flag guards the release only when its slot exists, that   *)
(* is, when a MIR_DROP_FLAG for it was emitted before this drop.  Blocks   *)
(* are emitted in their numbering.                                         *)
(***************************************************************************)
Guarded(p) ==
    /\ InstAt(body, p).flag # None
    /\ \E q \in Positions(body) : /\ Precedes(q, p)
                                  /\ InstAt(body, q).op = "drop_flag"
                                  /\ InstAt(body, q).flag = InstAt(body, p).flag

Releases == AtInst /\ Here.op = "drop" /\ (Guarded(pc) => flags[Here.flag])

RunDrop ==
    /\ AtInst /\ Here.op = "drop"
    /\ heap' = IF Releases THEN Freed(mem[Here.base]) ELSE heap
    /\ Advance /\ UNCHANGED <<mem, flags>>

\* MIR_JMP and MIR_BRANCH; the condition may come out either way.
RunJump ==
    /\ AtInst /\ Here.op \in {"jmp", "branch"}
    /\ \E i \in DOMAIN Here.to :
         /\ pc' = <<Here.to[i], 1>>
         /\ backJumps' = IF Here.to[i] <= pc[1] THEN backJumps + 1 ELSE backJumps
    /\ backJumps' <= MaxBackJumps
    /\ UNCHANGED <<lowerVars, stage, body, mem, flags, heap>>

\* MIR_RETURN: a returned owner is the caller's from now on.
RunReturn ==
    /\ AtInst /\ Here.op = "return"
    /\ heap' = IF Here.arg = None THEN heap
               ELSE [o \in Objects |-> IF o = mem[Here.arg] /\ heap[o] = "live" THEN "given" ELSE heap[o]]
    /\ stage' = "over"
    /\ UNCHANGED <<lowerVars, body, pc, mem, flags, backJumps>>

\* The function is over or was turned down, the loop bound is reached, or
\* the source stops in the middle of a program.
Idle ==
    /\ \/ stage \in {"over", "rejected"}
       \/ AtInst /\ Here.op \in {"jmp", "branch"} /\ backJumps = MaxBackJumps
       \/ stage = "lower" /\ statements = Len(Script)
    /\ UNCHANGED vars

Run == RunStorage \/ RunStore \/ RunLoad \/ RunCall \/ RunFlag \/ RunDrop \/ RunJump \/ RunReturn

Next == Lower \/ Lowered \/ BorrowCheck \/ ElaborateDrops \/ Run \/ Idle

Spec == Init /\ [][Next]_vars

-----------------------------------------------------------------------------
(***************************************************************************)
(* Properties.                                                             *)
(***************************************************************************)

\* The run stays inside the body, and every slot holds an object that was
\* made, null, or nothing yet.
TypeOK ==
    /\ stage \in {"lower", "check", "elaborate", "run", "over", "rejected"}
    /\ \A o \in DOMAIN heap : heap[o] \in {"live", "freed", "given"}
    /\ backJumps \in 0..MaxBackJumps
    /\ stage = "run" => /\ pc[1] \in DOMAIN body
                        /\ pc[2] \in DOMAIN body[pc[1]]
                        /\ DOMAIN flags = DOMAIN mem
                        /\ \A v \in DOMAIN mem : mem[v] \in {Undef, NullPtr} \cup DOMAIN heap

IsLive(p) == p \in Objects /\ heap[p] = "live"

(***************************************************************************)
(* A value or a slot is never read out of, lent or handed to a call once   *)
(* what it named is gone: what the borrow checker accepts, on whatever     *)
(* path, finds an object there.                                            *)
(***************************************************************************)
UsesFindAnObject ==
    AtInst => /\ (Here.op = "load" /\ Here.move) \/ Here.op = "ref" => IsLive(mem[Here.base])
              /\ Here.op = "call" /\ Here.callee = "take" => IsLive(mem[Here.arg])

(***************************************************************************)
(* A release the emitted code performs meets a live object or null, never  *)
(* an object already released and never memory no instruction wrote.       *)
(***************************************************************************)
ReleasesAreSound == Releases => (mem[Here.base] = NullPtr \/ IsLive(mem[Here.base]))

(***************************************************************************)
(* A drop that guard_conditional_drops gave a flag is emitted as a guarded *)
(* release: the flag is written somewhere before it in the order blocks    *)
(* are emitted in, whichever order the branches were lowered in.           *)
(***************************************************************************)
GuardsAreEmitted == (AtInst /\ Here.op = "drop" /\ Here.flag # None) => Guarded(pc)

(***************************************************************************)
(* Lowering ends every block in one terminator and puts none before it,    *)
(* and every terminator leads to a block that was made, never to the       *)
(* entry: what LLVM's verifier asks of the module llvm_unit_add emits, and *)
(* what the sweeps of mir_borrowck, mir_liveness_compute and               *)
(* entry_holdings take for granted.                                        *)
(***************************************************************************)
BodiesAreWellFormed ==
    stage = "check" =>
        \A b \in DOMAIN body :
            /\ IsTerminated(body[b])
            /\ \A j \in DOMAIN body[b] : IsTerminator(body[b][j]) => j = Len(body[b])
            /\ SuccessorSet(body[b]) \subseteq DOMAIN body \ {1}

(***************************************************************************)
(* The emitted code keeps the promise of ownership: OwnedHeap knows only   *)
(* objects that are made and released once, and when the function returns, *)
(* every object it made or was given has been released, consumed, or       *)
(* returned.                                                               *)
(***************************************************************************)
Promise == INSTANCE OwnedHeap WITH heap <- heap, over <- (stage = "over")

KeepsThePromise == Promise!Spec
=============================================================================
