------------------------------ MODULE MirBuild ------------------------------
(***************************************************************************)
(* mir_build (mir/mir_build.c), with the work list of ast/pending.c and    *)
(* the substitution of mir/mir_instantiate.c: the bodies of a module are   *)
(* lowered, the instances they call are made of templates, which call for  *)
(* more of them, and every body goes through the borrow checker twice: for *)
(* what its result may name, and for what is wrong.                        *)
(*                                                                         *)
(* A type argument is how many times a generic type wraps the ground type. *)
(* A body is the calls in it; the endings of what it drops are calls too   *)
(* (collect_dropped_endings).  Whatever else is in a body is left out.     *)
(***************************************************************************)
EXTENDS Integers, Sequences, FiniteSets, Functions, Rounds

CONSTANTS Programs,           \* the modules built
          MaxInstantiations,  \* GAB_MAX_INSTANTIATIONS
          MaxParams,          \* the parameters of a function
          SummaryBits         \* the width of Function.borrowed_params: 32

Params == 0..(MaxParams - 1)
NoArg == -1     \* of a function that is not generic, and of a template

(***************************************************************************)
(* A program is the names of its bodies in order, and what each name       *)
(* declares: whether it is generic; "body", whether it is "here", in the   *)
(* interface of an "import", or in neither; the parameters it returns; and *)
(* its calls.  A call is what it calls, at which type argument, with which *)
(* of the caller's parameters, and whether its result is returned.  Only   *)
(* the body of a generic mentions its own type argument.                   *)
(***************************************************************************)
CallsTo(names) ==
    [to : names, arg : {"ground", "same", "wrap"}, args : Seq(Params \cup {NoArg}),
     returned : BOOLEAN]

IsProgram(prog) ==
    LET names == DOMAIN prog.declares
    IN /\ IsFiniteSet(names)
       /\ prog.declares \in [names -> [generic : BOOLEAN, body : {"here", "import", "none"},
                                       returns : SUBSET Params, calls : Seq(CallsTo(names))]]
       /\ prog.bodies \in Seq(names) /\ IsInjective(prog.bodies)
       /\ Range(prog.bodies) = {n \in names : prog.declares[n].body = "here"}
       /\ \A n \in names : \A c \in Range(prog.declares[n].calls) :
             ~prog.declares[n].generic => c.arg = "ground"

ASSUME BuildAssumption ==
    /\ MaxInstantiations \in Nat /\ MaxParams \in Nat /\ SummaryBits \in Nat \ {0}
    /\ \A prog \in Programs : IsProgram(prog)

VARIABLES program,
          phase,      \* "resolve", "lower", "instantiate", "summarise", "report", "done"
          at,         \* the index of the loop the phase is
          calls,      \* the functions a body calls that are still to be looked at
          instances,  \* work->instances
          overflowed, \* work->instantiation_overflowed
          entries,    \* the functions mir_module_add was called for, in order
          summary     \* borrowed_params of the bodies known so far

vars == <<program, phase, at, calls, instances, overflowed, entries, summary>>

Decl(name) == program.declares[name]
Body(i) == program.bodies[i]
Instance(name, arg) == <<name, arg>>

\* mir_function_is_template.
IsTemplate(name) == Decl(name).generic

\* subst_callee: the instance a call names in a body made for arg.
Callee(call, arg) ==
    Instance(call.to, IF ~Decl(call.to).generic THEN NoArg
                      ELSE IF call.arg = "ground" THEN 0
                      ELSE IF call.arg = "same" THEN arg ELSE arg + 1)

\* type_args_are_concrete, for a call in the body of name as it is written.
IsConcrete(name, call) == call.arg = "ground" \/ ~IsTemplate(name)

-----------------------------------------------------------------------------
(***************************************************************************)
(* pending_bodies_instantiate.                                             *)
(***************************************************************************)
\* function_lowers_no_body, a function that is not generic, and one that is
\* not fixed to arguments.
IsPending(callee) ==
    Decl(callee[1]).body # "none" /\ Decl(callee[1]).generic /\ callee[2] # NoArg

\* Mutant: the last one is the limit's own.
PendOneLess ==
    /\ calls # <<>>
    /\ IF ~IsPending(Head(calls)) \/ Head(calls) \in Range(instances)
       THEN UNCHANGED <<instances, overflowed>>
       ELSE IF Len(instances) + 1 >= MaxInstantiations
       THEN overflowed' = TRUE /\ UNCHANGED instances
       ELSE instances' = Append(instances, Head(calls)) /\ UNCHANGED overflowed
    /\ calls' = Tail(calls)
    /\ UNCHANGED <<program, phase, at, entries, summary>>

\* Mutant: the limit is looked at once it is past.
PendOneMore ==
    /\ calls # <<>>
    /\ IF ~IsPending(Head(calls)) \/ Head(calls) \in Range(instances)
       THEN UNCHANGED <<instances, overflowed>>
       ELSE IF Len(instances) > MaxInstantiations
       THEN overflowed' = TRUE /\ UNCHANGED instances
       ELSE instances' = Append(instances, Head(calls)) /\ UNCHANGED overflowed
    /\ calls' = Tail(calls)
    /\ UNCHANGED <<program, phase, at, entries, summary>>

\* One function called: an instance that is not on the list yet goes there,
\* unless the list is full.
Pend ==
    /\ calls # <<>>
    /\ IF ~IsPending(Head(calls)) \/ Head(calls) \in Range(instances)
       THEN UNCHANGED <<instances, overflowed>>
       ELSE IF Len(instances) >= MaxInstantiations
       THEN overflowed' = TRUE /\ UNCHANGED instances
       ELSE instances' = Append(instances, Head(calls)) /\ UNCHANGED overflowed
    /\ calls' = Tail(calls)
    /\ UNCHANGED <<program, phase, at, entries, summary>>

\* collect_called_instances, in the body of name for arg.
Called(name, arg) == [i \in DOMAIN Decl(name).calls |-> Callee(Decl(name).calls[i], arg)]

\* What specialize asks for in the body of name: a call in a template that is
\* not fixed to concrete arguments stays a call of the declaration.
Wanted(name) ==
    [i \in DOMAIN Decl(name).calls |->
        IF IsConcrete(name, Decl(name).calls[i]) THEN Callee(Decl(name).calls[i], NoArg)
        ELSE Instance(Decl(name).calls[i].to, NoArg)]

-----------------------------------------------------------------------------
Init ==
    /\ program \in Programs
    /\ phase = "resolve"
    /\ at = 1
    /\ calls = <<>>
    /\ instances = <<>>
    /\ overflowed = FALSE
    /\ entries = <<>>
    /\ summary = <<>>

InPhase(p) == phase = p /\ calls = <<>> /\ at <= Len(program.bodies)

\* The resolver, which asks for what a body calls at concrete arguments, in a
\* template too.
ResolveBody ==
    /\ InPhase("resolve")
    /\ calls' = Wanted(Body(at))
    /\ at' = at + 1
    /\ UNCHANGED <<program, phase, instances, overflowed, entries, summary>>

\* The loop over work->bodies: a template waits to be instantiated.
LowerBody ==
    /\ InPhase("lower")
    /\ entries' = Append(entries, Instance(Body(at), NoArg))
    /\ calls' = IF IsTemplate(Body(at)) THEN <<>> ELSE Called(Body(at), NoArg)
    /\ at' = at + 1
    /\ UNCHANGED <<program, phase, instances, overflowed, summary>>

\* mir_module_lookup_id of the template, here or among those imported.
HasTemplate(name) ==
    \/ Instance(name, NoArg) \in Range(entries)
    \/ Decl(name).body = "import"

\* Mutant: an instance that needs no body is looked at again.
MakeInstanceAgain ==
    /\ phase = "instantiate"
    /\ calls = <<>>
    /\ at <= Len(instances)
    /\ HasTemplate(instances[at][1]) /\ instances[at] \notin Range(entries)
    /\ entries' = Append(entries, instances[at])
    /\ calls' = Called(instances[at][1], instances[at][2])
    /\ at' = 1
    /\ UNCHANGED <<program, phase, instances, overflowed, summary>>

\* The loop over work->instances, which grows as it is walked.
MakeInstance ==
    /\ phase = "instantiate"
    /\ calls = <<>>
    /\ at <= Len(instances)
    /\ IF HasTemplate(instances[at][1]) /\ instances[at] \notin Range(entries)
       THEN /\ entries' = Append(entries, instances[at])
            /\ calls' = Called(instances[at][1], instances[at][2])
       ELSE UNCHANGED <<entries, calls>>
    /\ at' = at + 1
    /\ UNCHANGED <<program, phase, instances, overflowed, summary>>

-----------------------------------------------------------------------------
(***************************************************************************)
(* Summaries.                                                              *)
(***************************************************************************)
\* Mutant: what is not known yet names nothing.
MayNameKnown(callee, p) ==
    callee[2] = NoArg /\ callee[1] \in DOMAIN summary /\ (p >= SummaryBits \/ p \in summary[callee[1]])

\* call_result_may_name: an instance has no summary, its template has.
MayName(callee, p) ==
    \/ callee[2] # NoArg \/ callee[1] \notin DOMAIN summary
    \/ p >= SummaryBits
    \/ p \in summary[callee[1]]

\* What the result of the body of name may name, of its own parameters.
Returned(name) ==
    Decl(name).returns \cup
    UNION {{call.args[i] : i \in {j \in DOMAIN call.args :
                call.args[j] # NoArg /\ MayName(Callee(call, 0), j - 1)}} :
             call \in {c \in Range(Decl(name).calls) : c.returned}}

\* Which bit is set for a parameter: past the width of the summary, the shift
\* sets any bit or none.
BitsFor(p) ==
    IF p < SummaryBits THEN {{p}} ELSE {{}} \cup {{b} : b \in 0..(SummaryBits - 1)}

\* The sets of bits those of each parameter may come to.
Summaries(params) ==
    {UNION {bits[p] : p \in params} :
        bits \in {f \in [params -> UNION {BitsFor(p) : p \in params}] : \A p \in params : f[p] \in BitsFor(p)}}

\* mir_borrowck without reports, of every body in order.
Summarise ==
    /\ InPhase("summarise")
    /\ \E bits \in Summaries(Returned(Body(at))) :
          summary' = [n \in DOMAIN summary \cup {Body(at)} |-> IF n = Body(at) THEN bits ELSE summary[n]]
    /\ at' = at + 1
    /\ UNCHANGED <<program, phase, calls, instances, overflowed, entries>>

\* And with them, which leaves the summary as it is.
Report ==
    /\ InPhase("report")
    /\ at' = at + 1
    /\ UNCHANGED <<program, phase, calls, instances, overflowed, entries, summary>>

NextPhase == [resolve |-> "lower", lower |-> "instantiate", instantiate |-> "summarise",
              summarise |-> "report", report |-> "done"]

\* resolve_module fails on an overflow, and mir_build is not called.
LoopEnds ==
    /\ phase # "done"
    /\ calls = <<>>
    /\ at > (IF phase = "instantiate" THEN Len(instances) ELSE Len(program.bodies))
    /\ phase' = IF phase = "resolve" /\ overflowed THEN "done" ELSE NextPhase[phase]
    /\ at' = 1
    /\ UNCHANGED <<program, calls, instances, overflowed, entries, summary>>

Next == Pend \/ ResolveBody \/ LowerBody \/ MakeInstance \/ Summarise \/ Report \/ LoopEnds

\* The compiler runs until it is done.
Spec == Init /\ [][Next]_vars /\ WF_vars(Next)

-----------------------------------------------------------------------------
(***************************************************************************)
(* What the instances and the summaries are to be.                         *)
(***************************************************************************)
Names == DOMAIN program.declares
Instances == Names \X (Nat \cup {NoArg})

\* The instances bodies ask for, and those that their bodies ask for in turn;
\* MaxInstantiations + 1 rounds reach a count past the limit if more of them
\* exist than fit.
Asked(functions) ==
    {c \in UNION {Range(Called(f[1], f[2])) : f \in functions} : IsPending(c)}

FromSource ==
    {c \in UNION {Range(Wanted(n)) : n \in Range(program.bodies)} : IsPending(c)}

Needed ==
    Iterated(FromSource, [some \in SUBSET Instances |-> some \cup Asked(some)],
             MaxInstantiations + 1)

\* What results name: pairs of a function and one of its parameters, the
\* least set that agrees with every body, where a function without one names
\* all it is given.
Passed(told) ==
    UNION {UNION {{<<name, call.args[i]>> : i \in {j \in DOMAIN call.args :
                      call.args[j] # NoArg /\ <<call.to, j - 1>> \in told}} :
                    call \in {c \in Range(Decl(name).calls) : c.returned}} :
             name \in Names}

Plain == {t \in Names \X Params : t[2] \in Decl(t[1]).returns \/ Decl(t[1]).body = "none"}

Truth ==
    Iterated(Plain, [told \in SUBSET (Names \X Params) |-> told \cup Passed(told)],
             Cardinality(Names) * MaxParams)

\* Indices stay within the lists, and a summary within its bits.
TypeOK ==
    /\ phase \in DOMAIN NextPhase \cup {"done"}
    /\ at \in 1..(Len(instances) + Len(program.bodies) + 1)
    /\ calls \in Seq(Instances) /\ instances \in Seq(Instances) /\ entries \in Seq(Instances)
    /\ Len(instances) <= MaxInstantiations
    /\ overflowed \in BOOLEAN
    /\ DOMAIN summary \subseteq Range(program.bodies)
    /\ \A n \in DOMAIN summary : summary[n] \subseteq 0..(SummaryBits - 1)

\* Once the instances are made, those that some body calls are the ones there
\* are, each with one body, whichever order they were asked for in; and the
\* program is refused only when they are more than the limit.
InstancesAreComplete ==
    phase \in {"summarise", "report", "done"} =>
        IF overflowed THEN Cardinality(Needed) > MaxInstantiations
        ELSE /\ Range(instances) = Needed
             /\ IsInjective(entries)
             /\ \A c \in Needed : HasTemplate(c[1]) => c \in Range(entries)

\* Wherever the borrow checker looks at a call, it takes the result to name
\* every argument the callee may return, in whatever order the bodies come and
\* however they call each other.
CallersAreTold ==
    phase \in {"summarise", "report", "done"} =>
        \A t \in Truth : MayName(Instance(t[1], NoArg), t[2])

\* The loop over the instances ends, though a generic may ask for itself at
\* ever larger types.
BuildEnds == <>(phase = "done")
=============================================================================
