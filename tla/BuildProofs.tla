----------------------------- MODULE BuildProofs -----------------------------
(***************************************************************************)
(* Proofs about how a module is built (MirBuild) and how the modules of a  *)
(* program are, by runs of the compiler that overlap (Builds).             *)
(***************************************************************************)
EXTENDS MirBuild, Builds, NatFacts, TLAPS

(***************************************************************************)
(* What mir_build promises, for every module, every limit on instances and *)
(* every width of a summary: its indices stay in bounds, the instances it  *)
(* makes are the ones the bodies need, and no caller is told less than the *)
(* truth about a result.                                                   *)
(***************************************************************************)

-----------------------------------------------------------------------------
(***************************************************************************)
(* Programs and types.                                                     *)
(***************************************************************************)

\* What the assumption says of the module built.
LEMMA ProgramFacts ==
    ASSUME program \in Programs
    PROVE  /\ IsFiniteSet(Names)
           /\ program.bodies \in Seq(Names) /\ Len(program.bodies) \in Nat
           /\ DOMAIN program.bodies = 1..Len(program.bodies)
           /\ \A i, j \in 1..Len(program.bodies) : Body(i) = Body(j) => i = j
           /\ \A i \in 1..Len(program.bodies) : Body(i) \in Names /\ Decl(Body(i)).body = "here"
           /\ \A n \in Names : /\ n \in Range(program.bodies) <=> Decl(n).body = "here"
                               /\ Decl(n).returns \subseteq Params
                               /\ Decl(n).calls \in Seq(CallsTo(Names))
                               /\ \A c \in Range(Decl(n).calls) : ~Decl(n).generic => c.arg = "ground"
<1>1. IsProgram(program)
  BY BuildAssumption
<1>2. /\ IsFiniteSet(Names)
      /\ program.declares \in [Names -> [generic : BOOLEAN, body : {"here", "import", "none"},
                                      returns : SUBSET Params, calls : Seq(CallsTo(Names))]]
      /\ program.bodies \in Seq(Names) /\ IsInjective(program.bodies)
      /\ Range(program.bodies) = {n \in Names : program.declares[n].body = "here"}
      /\ \A n \in Names : \A c \in Range(program.declares[n].calls) :
            ~program.declares[n].generic => c.arg = "ground"
  BY <1>1 DEF IsProgram, Names
<1>3. Len(program.bodies) \in Nat /\ DOMAIN program.bodies = 1..Len(program.bodies)
  BY <1>2
<1>4. \A i, j \in 1..Len(program.bodies) : Body(i) = Body(j) => i = j
  BY <1>2, <1>3 DEF IsInjective, Body
<1>5. \A i \in 1..Len(program.bodies) : Body(i) \in Range(program.bodies)
  BY <1>3 DEF Body, Range
<1>6. \A n \in Names : n \in Range(program.bodies) <=> Decl(n).body = "here"
  BY <1>2 DEF Decl
<1>7. \A i \in 1..Len(program.bodies) : Body(i) \in Names /\ Decl(Body(i)).body = "here"
  BY <1>2, <1>5, <1>6
<1>8. \A n \in Names : Decl(n).returns \subseteq Params /\ Decl(n).calls \in Seq(CallsTo(Names))
  BY <1>2 DEF Decl
<1> QED
  BY <1>2, <1>3, <1>4, <1>6, <1>7, <1>8 DEF Decl

\* A body is here, in an interface, or nowhere.
LEMMA ProgramBodies ==
    ASSUME program \in Programs, NEW n \in Names
    PROVE  Decl(n).body \in {"here", "import", "none"}
<1>1. program.declares \in [Names -> [generic : BOOLEAN, body : {"here", "import", "none"},
                                     returns : SUBSET Params, calls : Seq(CallsTo(Names))]]
  BY BuildAssumption DEF IsProgram, Names
<1> QED
  BY <1>1 DEF Decl

\* A call names a declared function.
LEMMA CallFacts ==
    ASSUME program \in Programs, NEW n \in Names, NEW call \in Range(Decl(n).calls)
    PROVE  /\ call.to \in Names /\ call.args \in Seq(Params \cup {NoArg})
           /\ call \in CallsTo(Names)
           /\ \A arg \in Nat \cup {NoArg} : Callee(call, arg) \in Instances
<1>1. Decl(n).calls \in Seq(CallsTo(Names))
  BY ProgramFacts
<1>2. call \in CallsTo(Names)
  BY <1>1 DEF Range
<1>3. call.to \in Names /\ call.args \in Seq(Params \cup {NoArg})
  BY <1>2 DEF CallsTo
<1>4. \A arg \in Nat \cup {NoArg} : arg + 1 \in Nat
  BY DEF NoArg
<1> QED
  BY <1>2, <1>3, <1>4 DEF Callee, Instance, Instances

\* The functions a body calls are functions.
LEMMA CalledType ==
    ASSUME program \in Programs, NEW n \in Names, NEW arg \in Nat \cup {NoArg}
    PROVE  Called(n, arg) \in Seq(Instances) /\ Wanted(n) \in Seq(Instances)
<1>1. Decl(n).calls \in Seq(CallsTo(Names))
  BY ProgramFacts
<1>2. PICK k \in Nat : DOMAIN Decl(n).calls = 1..k
  BY <1>1
<1>3. ASSUME NEW i \in 1..k
      PROVE  /\ Callee(Decl(n).calls[i], arg) \in Instances
             /\ Callee(Decl(n).calls[i], NoArg) \in Instances
             /\ Instance(Decl(n).calls[i].to, NoArg) \in Instances
  <2>1. Decl(n).calls[i] \in Range(Decl(n).calls)
    BY <1>2 DEF Range
  <2> QED
    BY <2>1, CallFacts DEF Instance, Instances
<1>4. Called(n, arg) \in [1..k -> Instances]
  BY <1>2, <1>3 DEF Called
<1>5. Wanted(n) \in [1..k -> Instances]
  BY <1>2, <1>3 DEF Wanted
<1> QED
  BY <1>4, <1>5

\* A summary made of bits has those of its own parameters it has room for.
LEMMA SummaryBitsSet ==
    ASSUME NEW params, params \subseteq Nat, NEW bits \in Summaries(params)
    PROVE  /\ bits \subseteq 0..(SummaryBits - 1)
           /\ \A p \in params : p < SummaryBits => p \in bits
<1>0. SummaryBits \in Nat \ {0}
  BY BuildAssumption
<1>1. PICK f \in {f \in [params -> UNION {BitsFor(p) : p \in params}] :
                    \A p \in params : f[p] \in BitsFor(p)} : bits = UNION {f[p] : p \in params}
  BY DEF Summaries
<1>2. \A p \in params : f[p] \in BitsFor(p)
  BY <1>1
<1>3. \A p \in params : \A b \in BitsFor(p) : b \subseteq 0..(SummaryBits - 1)
  BY <1>0 DEF BitsFor
<1>4. \A p \in params : p < SummaryBits => f[p] = {p}
  BY <1>2 DEF BitsFor
<1> QED
  BY <1>1, <1>2, <1>3, <1>4

\* What a body returns are parameters of it.
LEMMA ReturnedType ==
    ASSUME program \in Programs, NEW n \in Names
    PROVE  Returned(n) \subseteq Params /\ Params \subseteq Nat
<1>1. Decl(n).returns \subseteq Params
  BY ProgramFacts
<1>2. ASSUME NEW call \in Range(Decl(n).calls), NEW i \in DOMAIN call.args, call.args[i] # NoArg
      PROVE  call.args[i] \in Params
  <2>1. call.args \in Seq(Params \cup {NoArg})
    BY <1>2, CallFacts
  <2> QED
    BY <1>2, <2>1
<1>3. Params \subseteq Nat
  BY BuildAssumption DEF Params
<1> QED
  BY <1>1, <1>2, <1>3 DEF Returned

\* One function looked at: the list only grows, at its end and up to its limit.
LEMMA PendStep ==
    ASSUME TypeOK, Pend
    PROVE  /\ calls # <<>> /\ calls' \in Seq(Instances) /\ Head(calls) \in Instances
           /\ UNCHANGED <<program, phase, at, entries, summary>>
           /\ \/ UNCHANGED <<instances, overflowed>> /\ (~IsPending(Head(calls)) \/ Head(calls) \in Range(instances))
              \/ /\ IsPending(Head(calls)) /\ Head(calls) \notin Range(instances)
                 /\ Len(instances) = MaxInstantiations /\ overflowed' = TRUE /\ UNCHANGED instances
              \/ /\ IsPending(Head(calls)) /\ Head(calls) \notin Range(instances)
                 /\ Len(instances) < MaxInstantiations /\ UNCHANGED overflowed
                 /\ instances' = Append(instances, Head(calls))
<1>1. Len(instances) \in Nat /\ MaxInstantiations \in Nat /\ Len(instances) <= MaxInstantiations
  BY BuildAssumption DEF TypeOK
<1>2. calls # <<>> /\ calls' = Tail(calls)
  BY DEF Pend
<1>3. Head(calls) \in Instances /\ Tail(calls) \in Seq(Instances)
  BY <1>2 DEF TypeOK
<1>4. UNCHANGED <<program, phase, at, entries, summary>>
  BY DEF Pend
<1>5. CASE ~IsPending(Head(calls)) \/ Head(calls) \in Range(instances)
  BY <1>2, <1>3, <1>4, <1>5 DEF Pend
<1>6. CASE ~ (~IsPending(Head(calls)) \/ Head(calls) \in Range(instances))
  <2>1. IF Len(instances) >= MaxInstantiations
        THEN overflowed' = TRUE /\ UNCHANGED instances
        ELSE instances' = Append(instances, Head(calls)) /\ UNCHANGED overflowed
    BY <1>6 DEF Pend
  <2>2. Len(instances) >= MaxInstantiations => Len(instances) = MaxInstantiations
    BY <1>1
  <2>3. ~ (Len(instances) >= MaxInstantiations) => Len(instances) < MaxInstantiations
    BY <1>1
  <2> QED
    BY <1>2, <1>3, <1>4, <1>6, <2>1, <2>2, <2>3
<1> QED
  BY <1>5, <1>6

\* The build starts with nothing on any list.
LEMMA BuildTypeAtInit == Init => TypeOK
<1> SUFFICES ASSUME Init PROVE TypeOK
  OBVIOUS
<1>1. Len(program.bodies) \in Nat
  BY ProgramFacts DEF Init
<1>2. \A S : <<>> \in Seq(S) /\ Len(<<>>) = 0 /\ DOMAIN <<>> = {}
  OBVIOUS
<1>3. at \in 1..(Len(instances) + Len(program.bodies) + 1) /\ Len(instances) <= MaxInstantiations
  BY <1>1, <1>2, BuildAssumption DEF Init
<1>4. phase \in DOMAIN NextPhase \cup {"done"}
  BY DEF Init, NextPhase
<1>5. overflowed \in BOOLEAN
  BY Zenon DEF Init
<1>6. calls = <<>> /\ instances = <<>> /\ entries = <<>> /\ summary = <<>>
  BY DEF Init
<1>7. calls \in Seq(Instances) /\ instances \in Seq(Instances) /\ entries \in Seq(Instances)
  BY <1>2, <1>6
<1>8. DOMAIN summary \subseteq Range(program.bodies) /\ \A n \in DOMAIN summary : FALSE
  BY <1>2, <1>6
<1> QED
  BY <1>3, <1>4, <1>5, <1>7, <1>8 DEF TypeOK

\* Every step of the build keeps the types.
LEMMA BuildTypeInStep ==
    ASSUME program \in Programs, TypeOK, [Next]_vars
    PROVE  TypeOK'
<1>0. /\ Len(program.bodies) \in Nat /\ Len(instances) \in Nat /\ MaxInstantiations \in Nat
      /\ at \in Nat \ {0}
      /\ \A i \in 1..Len(program.bodies) : Body(i) \in Names /\ Body(i) \in Range(program.bodies)
  BY ProgramFacts, BuildAssumption DEF TypeOK
<1>1. CASE Pend
  <2>1. /\ instances' \in Seq(Instances) /\ Len(instances') \in Nat
        /\ Len(instances) <= Len(instances') /\ Len(instances') <= MaxInstantiations
    <3>1. instances \in Seq(Instances) /\ Len(instances) <= MaxInstantiations
      BY DEF TypeOK
    <3>2. \/ instances' = instances
          \/ /\ Head(calls) \in Instances /\ Len(instances) < MaxInstantiations
             /\ instances' = Append(instances, Head(calls))
      BY <1>1, PendStep
    <3>3. CASE instances' = instances
      BY <1>0, <3>1, <3>3
    <3>4. CASE /\ Head(calls) \in Instances /\ Len(instances) < MaxInstantiations
               /\ instances' = Append(instances, Head(calls))
      <4>1. instances' \in Seq(Instances) /\ Len(instances') = Len(instances) + 1
        BY <3>1, <3>4
      <4> QED
        BY <1>0, <3>4, <4>1
    <3> QED
      BY <3>2, <3>3, <3>4
  <2>2. overflowed' \in BOOLEAN
    <3>1. overflowed' = overflowed \/ overflowed' = TRUE
      BY <1>1, PendStep
    <3> QED
      BY <3>1, Zenon DEF TypeOK
  <2>3. calls' \in Seq(Instances) /\ UNCHANGED <<program, phase, at, entries, summary>>
    BY <1>1, PendStep
  <2>4. Instances' = Instances /\ at' \in 1..(Len(instances') + Len(program.bodies) + 1)
    BY <1>0, <2>1, <2>3 DEF TypeOK, Instances, Names
  <2> QED
    BY <2>1, <2>2, <2>3, <2>4 DEF TypeOK
<1>2. CASE ResolveBody
  <2>1. at <= Len(program.bodies) /\ at' = at + 1 /\ calls' = Wanted(Body(at))
        /\ UNCHANGED <<program, phase, instances, overflowed, entries, summary>>
    BY <1>2 DEF ResolveBody, InPhase
  <2>2. Body(at) \in Names
    BY <1>0, <2>1
  <2>3. calls' \in Seq(Instances)
    BY <2>1, <2>2, CalledType
  <2>4. at' \in 1..(Len(instances) + Len(program.bodies) + 1) /\ Instances' = Instances
    BY <1>0, <2>1 DEF Instances, Names
  <2> QED
    BY <2>1, <2>3, <2>4 DEF TypeOK
<1>3. CASE LowerBody
  <2>1. /\ at <= Len(program.bodies) /\ at' = at + 1
        /\ calls' = IF IsTemplate(Body(at)) THEN <<>> ELSE Called(Body(at), NoArg)
        /\ entries' = Append(entries, Instance(Body(at), NoArg))
        /\ UNCHANGED <<program, phase, instances, overflowed, summary>>
    BY <1>3 DEF LowerBody, InPhase
  <2>2. Body(at) \in Names /\ Instance(Body(at), NoArg) \in Instances
    BY <1>0, <2>1 DEF Instance, Instances
  <2>3. Called(Body(at), NoArg) \in Seq(Instances) /\ <<>> \in Seq(Instances)
    <3>1. NoArg \in Nat \cup {NoArg}
      OBVIOUS
    <3>2. Called(Body(at), NoArg) \in Seq(Instances)
      BY <2>2, <3>1, CalledType
    <3>3. <<>> \in Seq(Instances)
      OBVIOUS
    <3> QED
      BY <3>2, <3>3
  <2>4. entries' \in Seq(Instances)
    BY <2>1, <2>2 DEF TypeOK
  <2>5. at' \in 1..(Len(instances) + Len(program.bodies) + 1) /\ Instances' = Instances
    BY <1>0, <2>1 DEF Instances, Names
  <2> QED
    BY <2>1, <2>3, <2>4, <2>5 DEF TypeOK
<1>4. CASE MakeInstance
  <2>1. /\ at <= Len(instances) /\ at' = at + 1
        /\ UNCHANGED <<program, phase, instances, overflowed, summary>>
        /\ \/ UNCHANGED <<entries, calls>>
           \/ /\ entries' = Append(entries, instances[at])
              /\ calls' = Called(instances[at][1], instances[at][2])
    BY <1>4 DEF MakeInstance
  <2>2. instances[at] \in Instances
    BY <1>0, <2>1 DEF TypeOK
  <2>3. instances[at][1] \in Names /\ instances[at][2] \in Nat \cup {NoArg}
    BY <2>2 DEF Instances
  <2>4. Called(instances[at][1], instances[at][2]) \in Seq(Instances)
    BY <2>3, CalledType
  <2>5. Append(entries, instances[at]) \in Seq(Instances)
    BY <2>2 DEF TypeOK
  <2>6. at' \in 1..(Len(instances) + Len(program.bodies) + 1) /\ Instances' = Instances
    BY <1>0, <2>1 DEF Instances, Names
  <2>7. entries' \in Seq(Instances) /\ calls' \in Seq(Instances)
    BY <2>1, <2>4, <2>5 DEF TypeOK
  <2> QED
    BY <2>1, <2>6, <2>7 DEF TypeOK
<1>5. CASE Summarise
  <2>1. /\ at <= Len(program.bodies) /\ at' = at + 1
        /\ UNCHANGED <<program, phase, calls, instances, overflowed, entries>>
    BY <1>5 DEF Summarise, InPhase
  <2>2. PICK bits \in Summaries(Returned(Body(at))) :
          summary' = [n \in DOMAIN summary \cup {Body(at)} |-> IF n = Body(at) THEN bits ELSE summary[n]]
    BY <1>5 DEF Summarise
  <2>3. Body(at) \in Names /\ Body(at) \in Range(program.bodies)
    BY <1>0, <2>1
  <2>4. bits \subseteq 0..(SummaryBits - 1)
    BY <2>3, ReturnedType, SummaryBitsSet
  <2>5. DOMAIN summary' = DOMAIN summary \cup {Body(at)}
        /\ \A n \in DOMAIN summary' : summary'[n] = IF n = Body(at) THEN bits ELSE summary[n]
    BY <2>2
  <2>6. DOMAIN summary' \subseteq Range(program.bodies)
        /\ \A n \in DOMAIN summary' : summary'[n] \subseteq 0..(SummaryBits - 1)
    BY <2>3, <2>4, <2>5 DEF TypeOK
  <2>7. at' \in 1..(Len(instances) + Len(program.bodies) + 1) /\ Instances' = Instances
    BY <1>0, <2>1 DEF Instances, Names
  <2> QED
    BY <2>1, <2>6, <2>7 DEF TypeOK
<1>6. CASE Report
  <2>1. /\ at <= Len(program.bodies) /\ at' = at + 1
        /\ UNCHANGED <<program, phase, calls, instances, overflowed, entries, summary>>
    BY <1>6 DEF Report, InPhase
  <2>2. at' \in 1..(Len(instances) + Len(program.bodies) + 1) /\ Instances' = Instances
    BY <1>0, <2>1 DEF Instances, Names
  <2> QED
    BY <2>1, <2>2 DEF TypeOK
<1>7. CASE LoopEnds
  <2>1. at' = 1 /\ UNCHANGED <<program, calls, instances, overflowed, entries, summary>>
    BY <1>7 DEF LoopEnds
  <2>2. phase' \in DOMAIN NextPhase \cup {"done"}
    BY <1>7 DEF LoopEnds, NextPhase, TypeOK
  <2>3. at' \in 1..(Len(instances) + Len(program.bodies) + 1) /\ Instances' = Instances
    BY <1>0, <2>1 DEF Instances, Names
  <2> QED
    BY <2>1, <2>2, <2>3 DEF TypeOK
<1>8. CASE UNCHANGED vars
  BY <1>8 DEF vars, TypeOK, Instances, Names
<1> QED
  BY <1>1, <1>2, <1>3, <1>4, <1>5, <1>6, <1>7, <1>8 DEF Next

\* No step changes the program.
LEMMA ProgramStays == Next => program' = program
  BY DEF Next, Pend, ResolveBody, LowerBody, MakeInstance, Summarise, Report, LoopEnds

(***************************************************************************)
(* For every module, limit and width: the loops of mir_build stay within   *)
(* the lists they walk, the list of instances within its limit although it *)
(* grows while it is walked, and a summary within the bits it has.         *)
(***************************************************************************)
THEOREM BuildTypeCorrect == Spec => [](program \in Programs /\ TypeOK)
<1>1. Init => program \in Programs /\ TypeOK
  BY BuildTypeAtInit DEF Init
<1>2. program \in Programs /\ TypeOK /\ [Next]_vars => (program \in Programs /\ TypeOK)'
  <2> SUFFICES ASSUME program \in Programs, TypeOK, [Next]_vars
               PROVE  (program \in Programs /\ TypeOK)'
    OBVIOUS
  <2>1. program' = program
    BY ProgramStays DEF vars
  <2> QED
    BY <2>1, BuildTypeInStep
<1> QED
  BY <1>1, <1>2, PTL DEF Spec

-----------------------------------------------------------------------------
(***************************************************************************)
(* Callers are told.                                                       *)
(*                                                                         *)
(* A body is summarised by what its callees are taken for at that moment,  *)
(* and some of them are summarised only later.  That only takes away from  *)
(* what they were taken for, so a summary made from it still covers what   *)
(* the body returns (SummariesCover); it would not if a body were          *)
(* summarised twice, because the second time may set bits the first did    *)
(* not, by a shift past the width (SummarisedOnce).                        *)
(***************************************************************************)
SummariesCover ==
    \A n \in DOMAIN summary : \A p \in Returned(n) : p < SummaryBits => p \in summary[n]

SummarisedOnce ==
    /\ phase \in {"resolve", "lower", "instantiate"} => DOMAIN summary = {}
    /\ phase = "summarise" => DOMAIN summary \subseteq {Body(i) : i \in 1..(at - 1)}

\* A summary more takes away from what callees are taken for.
LEMMA MayNameShrinks ==
    ASSUME NEW m, NEW bits, m \notin DOMAIN summary,
           summary' = [n \in DOMAIN summary \cup {m} |-> IF n = m THEN bits ELSE summary[n]],
           NEW callee, NEW p, MayName(callee, p)'
    PROVE  MayName(callee, p)
<1>1. DOMAIN summary' = DOMAIN summary \cup {m}
  OBVIOUS
<1>2. \A n \in DOMAIN summary : summary'[n] = summary[n]
  OBVIOUS
<1>3. \/ callee[2] # NoArg \/ callee[1] \notin DOMAIN summary'
      \/ p >= SummaryBits \/ p \in summary'[callee[1]]
  BY DEF MayName
<1>4. callee[1] \notin DOMAIN summary' => callee[1] \notin DOMAIN summary
  BY <1>1
<1>5. callee[1] \in DOMAIN summary => summary'[callee[1]] = summary[callee[1]]
  BY <1>2
<1> QED
  BY <1>3, <1>4, <1>5 DEF MayName

\* And so from what a body returns.
LEMMA ReturnedShrinks ==
    ASSUME program' = program, \A callee, p : MayName(callee, p)' => MayName(callee, p), NEW n
    PROVE  Returned(n)' \subseteq Returned(n)
<1>1. \A x : x \in Returned(n) <=>
        \/ x \in Decl(n).returns
        \/ \E c \in Range(Decl(n).calls) : c.returned /\
              \E j \in DOMAIN c.args : c.args[j] # NoArg /\ MayName(Callee(c, 0), j - 1) /\ x = c.args[j]
  BY DEF Returned
<1>2. \A x : x \in Returned(n)' <=>
        \/ x \in Decl(n)'.returns
        \/ \E c \in Range(Decl(n)'.calls) : c.returned /\
              \E j \in DOMAIN c.args : c.args[j] # NoArg /\ MayName(Callee(c, 0), j - 1)' /\ x = c.args[j]
  BY DEF Returned, Decl, Range
<1>3. Decl(n)' = Decl(n)
  BY DEF Decl
<1>4. \A c : Callee(c, 0)' = Callee(c, 0)
  BY DEF Callee, Decl, Instance
<1>5. \A c, p : MayName(Callee(c, 0), p)' => MayName(Callee(c, 0), p)
  BY <1>4 DEF MayName
<1> QED
  BY <1>1, <1>2, <1>3, <1>5

\* A body is summarised by all it returns at that moment.
LEMMA SummariseCovers ==
    ASSUME program \in Programs, TypeOK, SummariesCover, SummarisedOnce, Summarise
    PROVE  SummariesCover' /\ SummarisedOnce'
<1>1. /\ phase = "summarise" /\ at \in 1..Len(program.bodies) /\ at' = at + 1
      /\ program' = program /\ phase' = phase
  BY ProgramFacts DEF Summarise, InPhase, TypeOK
<1>2. PICK m, bits : /\ m = Body(at) /\ bits \in Summaries(Returned(m))
                     /\ summary' = [n \in DOMAIN summary \cup {m} |-> IF n = m THEN bits ELSE summary[n]]
  BY DEF Summarise
<1>3. m \notin DOMAIN summary
  <2>1. \A i \in 1..(at - 1) : i \in 1..Len(program.bodies) /\ i # at
    BY <1>1, ProgramFacts
  <2>2. \A i \in 1..(at - 1) : Body(i) # Body(at)
    BY <1>1, <2>1, ProgramFacts
  <2> QED
    BY <1>1, <1>2, <2>2 DEF SummarisedOnce
<1>4. m \in Names
  BY <1>1, <1>2, ProgramFacts
<1>5. \A p \in Returned(m) : p < SummaryBits => p \in bits
  BY <1>2, <1>4, ReturnedType, SummaryBitsSet
<1>6. \A n : Returned(n)' \subseteq Returned(n)
  BY <1>1, <1>2, <1>3, MayNameShrinks, ReturnedShrinks
<1>7. /\ DOMAIN summary' = DOMAIN summary \cup {m}
      /\ \A n \in DOMAIN summary : summary'[n] = summary[n]
      /\ summary'[m] = bits
  BY <1>2, <1>3
<1>8. SummariesCover'
  BY <1>5, <1>6, <1>7 DEF SummariesCover
<1>9. SummarisedOnce'
  <2>1. \A i : Body(i)' = Body(i)
    BY <1>1 DEF Body
  <2>2. 1..(at' - 1) = (1..(at - 1)) \cup {at}
    BY <1>1, ProgramFacts
  <2>3. DOMAIN summary' \subseteq {Body(i) : i \in 1..(at' - 1)}
    BY <1>1, <1>2, <1>7, <2>2 DEF SummarisedOnce
  <2> QED
    BY <1>1, <2>1, <2>3 DEF SummarisedOnce
<1> QED
  BY <1>8, <1>9

\* What is passed on when the results named are those of told.
LEMMA PassedIs ==
    ASSUME NEW told, NEW t
    PROVE  t \in Passed(told) <=>
             \E n \in Names : \E c \in Range(Decl(n).calls) : c.returned /\
                \E j \in DOMAIN c.args : /\ c.args[j] # NoArg /\ <<c.to, j - 1>> \in told
                                         /\ t = <<n, c.args[j]>>
  BY DEF Passed

\* All results name is taken to be named.
LEMMA TruthIsTold ==
    ASSUME program \in Programs, TypeOK, SummariesCover
    PROVE  \A t \in Truth : MayName(Instance(t[1], NoArg), t[2])
<1> DEFINE T == {t \in Names \X Params : MayName(Instance(t[1], NoArg), t[2])}
           step == [told \in SUBSET (Names \X Params) |-> told \cup Passed(told)]
<1>1. \A t : t \in T <=> t \in Names \X Params /\ MayName(Instance(t[1], NoArg), t[2])
  OBVIOUS
<1>2. \A told \in SUBSET (Names \X Params) : step[told] = told \cup Passed(told)
  OBVIOUS
<1> HIDE DEF T, step
<1>3. Plain \in SUBSET T
  <2> SUFFICES ASSUME NEW t \in Plain PROVE t \in T
    OBVIOUS
  <2>1. PICK n \in Names, p \in Params : t = <<n, p>>
    BY DEF Plain
  <2>2. p \in Decl(n).returns \/ Decl(n).body = "none"
    BY <2>1 DEF Plain
  <2>3. CASE n \notin DOMAIN summary
    BY <1>1, <2>1, <2>3 DEF MayName, Instance
  <2>4. CASE n \in DOMAIN summary
    <3>1. Decl(n).body = "here"
      BY <2>4, ProgramFacts DEF TypeOK
    <3>2. p \in Returned(n)
      BY <2>2, <3>1 DEF Returned
    <3>3. p \in Nat /\ SummaryBits \in Nat
      BY ReturnedType, BuildAssumption
    <3>4. p >= SummaryBits \/ p \in summary[n]
      BY <2>4, <3>2, <3>3 DEF SummariesCover
    <3>5. MayName(Instance(n, NoArg), p)
      BY <3>4 DEF MayName, Instance
    <3> QED
      BY <1>1, <2>1, <3>5
  <2> QED
    BY <2>3, <2>4
<1>4. \A told \in SUBSET T : step[told] \in SUBSET T
  <2> SUFFICES ASSUME NEW told \in SUBSET T, NEW t \in Passed(told) PROVE t \in T
    BY <1>1, <1>2
  <2>0. PICK n \in Names : \E c \in Range(Decl(n).calls) : c.returned /\
          \E j \in DOMAIN c.args : /\ c.args[j] # NoArg /\ <<c.to, j - 1>> \in told
                                   /\ t = <<n, c.args[j]>>
    BY PassedIs
  <2>1. PICK c \in Range(Decl(n).calls) : c.returned /\
          \E j \in DOMAIN c.args : /\ c.args[j] # NoArg /\ <<c.to, j - 1>> \in told
                                   /\ t = <<n, c.args[j]>>
    BY <2>0
  <2>2. PICK j \in DOMAIN c.args : /\ c.args[j] # NoArg /\ <<c.to, j - 1>> \in told
                                   /\ t = <<n, c.args[j]>>
    BY <2>1
  <2>3. PICK p : p = c.args[j]
    OBVIOUS
  <2>4. p \in Params /\ p \in Nat
    BY <2>2, <2>3, CallFacts, ReturnedType
  <2>5. MayName(Instance(c.to, NoArg), j - 1)
    BY <1>1, <2>2
  <2>6. MayName(Callee(c, 0), j - 1)
    <3>1. CASE Decl(c.to).generic
      <4>1. Callee(c, 0)[2] \in Nat
        BY <3>1 DEF Callee, Instance
      <4>2. Callee(c, 0)[2] # NoArg
        BY <4>1 DEF NoArg
      <4> QED
        BY <4>2 DEF MayName
    <3>2. CASE ~Decl(c.to).generic
      <4>1. Callee(c, 0) = Instance(c.to, NoArg)
        BY <3>2 DEF Callee
      <4> QED
        BY <2>5, <4>1
    <3> QED
      BY <3>1, <3>2
  <2>7. p \in Returned(n)
    BY <2>1, <2>2, <2>3, <2>6 DEF Returned
  <2>8. SummaryBits \in Nat
    BY BuildAssumption
  <2>9. MayName(Instance(n, NoArg), p)
    BY <2>4, <2>7, <2>8 DEF MayName, Instance, SummariesCover
  <2> QED
    BY <1>1, <2>2, <2>3, <2>4, <2>9
<1>5. Cardinality(Names) * MaxParams \in Nat
  BY ProgramFacts, FS_CardinalityType, BuildAssumption
<1>6. Iterated(Plain, step, Cardinality(Names) * MaxParams) \in SUBSET T
  BY <1>3, <1>4, <1>5, IteratedWithin
<1>7. Truth \in SUBSET T
  BY <1>6 DEF Truth, step
<1> QED
  BY <1>1, <1>7

(***************************************************************************)
(* For every module, whatever the order of its bodies, however they call   *)
(* each other and however narrow a summary is: wherever the borrow checker *)
(* looks at a call, it takes the result to name every argument the callee  *)
(* may return.                                                             *)
(***************************************************************************)
THEOREM CallersTold == Spec => []CallersAreTold
<1> DEFINE Inv == SummariesCover /\ SummarisedOnce
<1>1. Init => Inv
  <2> SUFFICES ASSUME Init PROVE Inv
    OBVIOUS
  <2>1. DOMAIN summary = {}
    BY DEF Init
  <2> QED
    BY <2>1 DEF Init, SummariesCover, SummarisedOnce
<1>2. program \in Programs /\ TypeOK /\ Inv /\ [Next]_vars => Inv'
  <2> SUFFICES ASSUME program \in Programs, TypeOK, SummariesCover, SummarisedOnce, [Next]_vars
               PROVE  SummariesCover' /\ SummarisedOnce'
    OBVIOUS
  <2>1. CASE Summarise
    BY <2>1, SummariseCovers
  <2>2. ASSUME UNCHANGED <<program, summary>> PROVE SummariesCover'
    <3>1. \A callee, p : MayName(callee, p)' => MayName(callee, p)
      BY <2>2 DEF MayName
    <3>2. \A n : Returned(n)' \subseteq Returned(n)
      BY <2>2, <3>1, ReturnedShrinks
    <3> QED
      BY <2>2, <3>2 DEF SummariesCover
  <2>3. CASE Pend
    <3>1. UNCHANGED <<program, phase, at, summary>>
      BY <2>3 DEF Pend
    <3> QED
      BY <2>2, <3>1 DEF SummarisedOnce, Body
  <2>4. CASE ResolveBody \/ LowerBody \/ MakeInstance \/ Report
    <3>1. UNCHANGED <<program, phase, summary>> /\ phase # "summarise"
      BY <2>4 DEF ResolveBody, LowerBody, MakeInstance, Report, InPhase
    <3> QED
      BY <2>2, <3>1 DEF SummarisedOnce
  <2>5. CASE LoopEnds
    <3>1. UNCHANGED <<program, summary>> /\ at' = 1
      BY <2>5 DEF LoopEnds
    <3>2. phase' \in {"resolve", "lower", "instantiate", "summarise"} =>
            phase \in {"resolve", "lower", "instantiate"}
      BY <2>5 DEF LoopEnds, NextPhase, TypeOK
    <3> QED
      BY <2>2, <3>1, <3>2 DEF SummarisedOnce
  <2>6. CASE UNCHANGED vars
    BY <2>2, <2>6 DEF vars, SummarisedOnce, Body
  <2> QED
    BY <2>1, <2>3, <2>4, <2>5, <2>6 DEF Next
<1>3. program \in Programs /\ TypeOK /\ Inv => CallersAreTold
  BY TruthIsTold DEF CallersAreTold
<1> QED
  BY <1>1, <1>2, <1>3, BuildTypeCorrect, PTL DEF Spec

-----------------------------------------------------------------------------
(***************************************************************************)
(* The rounds in which instances are needed.                               *)
(***************************************************************************)
AskStep == [some \in SUBSET Instances |-> some \cup Asked(some)]

Round(n) == Iterated(FromSource, AskStep, n)

\* The pending functions a body asks for.
LEMMA AskedIs ==
    ASSUME NEW functions, NEW c
    PROVE  c \in Asked(functions) <=>
             IsPending(c) /\ \E f \in functions : c \in Range(Called(f[1], f[2]))
  BY DEF Asked

\* What is asked for is a function, and asking more asks for more.
LEMMA AskedType ==
    ASSUME program \in Programs, NEW some \in SUBSET Instances
    PROVE  Asked(some) \subseteq Instances
<1> SUFFICES ASSUME NEW c \in Asked(some) PROVE c \in Instances
  OBVIOUS
<1>1. PICK f \in some : c \in Range(Called(f[1], f[2]))
  BY AskedIs
<1>2. f[1] \in Names /\ f[2] \in Nat \cup {NoArg}
  BY DEF Instances
<1>3. Called(f[1], f[2]) \in Seq(Instances)
  BY <1>2, CalledType
<1> QED
  BY <1>1, <1>3 DEF Range

\* The source asks for functions.
LEMMA FromSourceType ==
    ASSUME program \in Programs
    PROVE  FromSource \subseteq Instances
<1> SUFFICES ASSUME NEW c \in FromSource PROVE c \in Instances
  OBVIOUS
<1>1. PICK n \in Range(program.bodies) : c \in Range(Wanted(n))
  BY DEF FromSource
<1>2. n \in Names /\ NoArg \in Nat \cup {NoArg}
  BY ProgramFacts DEF Range
<1>3. Wanted(n) \in Seq(Instances)
  BY <1>2, CalledType
<1> QED
  BY <1>1, <1>3 DEF Range

\* What each round adds.
LEMMA RoundFacts ==
    ASSUME program \in Programs
    PROVE  /\ Round(0) = FromSource
           /\ \A n \in Nat : /\ Round(n) \subseteq Instances
                              /\ Round(n + 1) = Round(n) \cup Asked(Round(n))
           /\ \A m, n \in Nat : m <= n => Round(m) \subseteq Round(n)
<1>1. \A some \in SUBSET Instances : AskStep[some] = some \cup Asked(some)
  BY DEF AskStep
<1>2. FromSource \in SUBSET Instances
  BY FromSourceType
<1>3. \A some \in SUBSET Instances : AskStep[some] \in SUBSET Instances /\ some \subseteq AskStep[some]
  BY <1>1, AskedType
<1>4. \A n \in Nat : Round(n) \in SUBSET Instances
  BY <1>2, <1>3, IteratedWithin DEF Round
<1>5. Round(0) = FromSource /\ \A n \in Nat : Round(n + 1) = AskStep[Round(n)]
  BY IteratedSteps DEF Round
<1>6. \A m, n \in Nat : m <= n => Round(m) \subseteq Round(n)
  BY <1>2, <1>3, IteratedGrows DEF Round
<1> QED
  BY <1>1, <1>4, <1>5, <1>6

\* The range of a function with a finite domain is finite.
LEMMA FiniteRange ==
    ASSUME NEW S, IsFiniteSet(S), NEW f, f = [x \in S |-> f[x]]
    PROVE  IsFiniteSet(Range(f))
<1>1. DOMAIN f = S
  OBVIOUS
<1>2. PICK T : T = Range(f)
  OBVIOUS
<1>3. f \in [S -> T] /\ \A t \in T : \E x \in S : f[x] = t
  BY <1>1, <1>2 DEF Range
<1>4. f \in Surjection(S, T)
  BY <1>3 DEF Surjection
<1> QED
  BY <1>2, <1>4, FS_Surjection

\* The range of a sequence is finite.
LEMMA FiniteList ==
    ASSUME NEW T, NEW s \in Seq(T)
    PROVE  IsFiniteSet(Range(s))
<1>1. Len(s) \in Nat /\ s = [x \in 1..Len(s) |-> s[x]]
  OBVIOUS
<1>2. PICK n \in Nat : n = Len(s)
  BY <1>1
<1>3. IsFiniteSet(1..n)
  BY FS_Interval
<1> QED
  BY <1>1, <1>2, <1>3, FiniteRange

\* Finitely many functions ask for finitely many.
LEMMA AskedFinite ==
    ASSUME program \in Programs, NEW some \in SUBSET Instances, IsFiniteSet(some)
    PROVE  IsFiniteSet(Asked(some))
<1> DEFINE each == [f \in some |-> Range(Called(f[1], f[2]))]
<1>1. IsFiniteSet(Range(each))
  <2>1. each = [f \in some |-> each[f]]
    OBVIOUS
  <2> HIDE DEF each
  <2> QED
    BY <2>1, FiniteRange
<1>2. \A f \in some : IsFiniteSet(Range(Called(f[1], f[2])))
  <2> SUFFICES ASSUME NEW f \in some PROVE IsFiniteSet(Range(Called(f[1], f[2])))
    OBVIOUS
  <2>1. f[1] \in Names /\ f[2] \in Nat \cup {NoArg}
    BY DEF Instances
  <2>2. Called(f[1], f[2]) \in Seq(Instances)
    BY <2>1, CalledType
  <2> QED
    BY <2>2, FiniteList
<1>3. \A T \in Range(each) : IsFiniteSet(T)
  BY <1>2 DEF Range
<1>4. IsFiniteSet(UNION Range(each))
  BY <1>1, <1>3, FS_UNION
<1>5. Asked(some) \in SUBSET (UNION Range(each))
  BY DEF Asked, Range
<1> QED
  BY <1>4, <1>5, FS_Subset

\* So does the source.
LEMMA FromSourceFinite ==
    ASSUME program \in Programs
    PROVE  IsFiniteSet(FromSource)
<1> DEFINE each == [n \in Range(program.bodies) |-> Range(Wanted(n))]
<1>1. program.bodies \in Seq(Names)
  BY ProgramFacts
<1>2. IsFiniteSet(Range(program.bodies)) /\ Range(program.bodies) \subseteq Names
  BY <1>1, FiniteList DEF Range
<1>3. IsFiniteSet(Range(each))
  BY <1>2, FiniteRange
<1>4. \A n \in Range(program.bodies) : IsFiniteSet(Range(Wanted(n)))
  <2>1. NoArg \in Nat \cup {NoArg}
    OBVIOUS
  <2>2. \A n \in Range(program.bodies) : Wanted(n) \in Seq(Instances)
    BY <1>2, <2>1, CalledType
  <2> QED
    BY <2>2, FiniteList
<1>5. \A T \in Range(each) : IsFiniteSet(T)
  BY <1>4 DEF Range
<1>6. IsFiniteSet(UNION Range(each))
  BY <1>3, <1>5, FS_UNION
<1>7. FromSource \in SUBSET (UNION Range(each))
  BY DEF FromSource, Range
<1> QED
  BY <1>6, <1>7, FS_Subset

\* Every round is finite.
LEMMA RoundFinite ==
    ASSUME program \in Programs, NEW n \in Nat
    PROVE  IsFiniteSet(Round(n))
<1> DEFINE D == {some \in SUBSET Instances : IsFiniteSet(some)}
<1>1. FromSource \in D
  BY FromSourceType, FromSourceFinite
<1>2. \A some \in D : AskStep[some] \in D
  <2> SUFFICES ASSUME NEW some \in D PROVE AskStep[some] \in D
    OBVIOUS
  <2>1. AskStep[some] = some \cup Asked(some)
    BY DEF AskStep
  <2>2. IsFiniteSet(some) /\ IsFiniteSet(Asked(some)) /\ Asked(some) \subseteq Instances
    BY AskedFinite, AskedType
  <2>3. IsFiniteSet(some \cup Asked(some))
    BY <2>2, FS_Union
  <2> QED
    BY <2>1, <2>2, <2>3
<1>3. \A x \in D : IsFiniteSet(x)
  OBVIOUS
<1> HIDE DEF D
<1>4. Iterated(FromSource, AskStep, n) \in D
  BY <1>1, <1>2, IteratedWithin
<1> QED
  BY <1>3, <1>4 DEF Round

\* The rounds are a matter of the program alone.
LEMMA RoundsStay ==
    ASSUME program' = program, NEW n
    PROVE  Round(n)' = Round(n)
<1>1. Names' = Names /\ Instances' = Instances
  BY DEF Names, Instances
<1>2. \A c : IsPending(c)' <=> IsPending(c)
  BY DEF IsPending, Decl
<1>3. \A m, arg : Called(m, arg)' = Called(m, arg) /\ Wanted(m)' = Wanted(m)
  BY DEF Called, Wanted, Callee, Instance, IsConcrete, IsTemplate, Decl
<1>4. FromSource' = FromSource
  BY <1>2, <1>3 DEF FromSource
<1>5. \A some : Asked(some)' = Asked(some)
  BY <1>2, <1>3 DEF Asked
<1>6. AskStep' = AskStep
  BY <1>1, <1>5 DEF AskStep
<1> QED
  BY <1>4, <1>6 DEF Round

-----------------------------------------------------------------------------
(***************************************************************************)
(* The instances are the ones needed.                                      *)
(*                                                                         *)
(* The k-th instance on the list is needed by round k - 1, because what    *)
(* asked for it is on the list before it (Ranked): so a list that is full  *)
(* and one instance more are needed within MaxInstantiations + 1 rounds    *)
(* (Overflowing).  And as long as nothing was turned away, what the bodies *)
(* walked so far ask for is on the list or among the calls still to be     *)
(* looked at, and each of them has one entry (Progress).                   *)
(***************************************************************************)
Ranked ==
    /\ \A k \in 1..Len(instances) : instances[k] \in Round(k - 1) /\ IsPending(instances[k])
    /\ \A j, k \in 1..Len(instances) : instances[j] = instances[k] => j = k
    /\ \A c \in Range(calls) : IsPending(c) => c \in Round(Len(instances))

Overflowing ==
    overflowed => /\ Len(instances) = MaxInstantiations
                  /\ \E c \in Round(MaxInstantiations) : c \notin Range(instances)

Listed(c) == c \in Range(instances) \/ c \in Range(calls)

\* What the first b bodies want, and what the first k instances call.
WantedFor(b) ==
    \A i \in 1..b : \A c \in Range(Wanted(Body(i))) : IsPending(c) => Listed(c)

AskedFor(k) ==
    \A j \in 1..k : \A c \in Range(Called(instances[j][1], instances[j][2])) :
        IsPending(c) => Listed(c)

\* The entries are those of the first b bodies and of the first k instances.
Made(b, k) ==
    /\ Len(entries) = b + k
    /\ \A i \in 1..b : entries[i] = Instance(Body(i), NoArg)
    /\ \A j \in 1..k : entries[b + j] = instances[j]

Later == {"summarise", "report", "done"}

Progress ==
    ~overflowed =>
        \/ phase = "resolve" /\ at <= Len(program.bodies) + 1 /\ WantedFor(at - 1) /\ Made(0, 0)
        \/ /\ phase = "lower" /\ at <= Len(program.bodies) + 1
           /\ WantedFor(Len(program.bodies)) /\ Made(at - 1, 0)
        \/ /\ phase = "instantiate" /\ at <= Len(instances) + 1
           /\ WantedFor(Len(program.bodies)) /\ Made(Len(program.bodies), at - 1) /\ AskedFor(at - 1)
        \/ /\ phase \in Later /\ calls = <<>>
           /\ WantedFor(Len(program.bodies)) /\ Made(Len(program.bodies), Len(instances))
           /\ AskedFor(Len(instances))

\* One more at the end of a list, and one less at its front.
LEMMA RangeFacts ==
    ASSUME NEW T, NEW s \in Seq(T)
    PROVE  /\ \A x \in T : Range(Append(s, x)) = Range(s) \cup {x}
           /\ s # <<>> => Range(s) = {Head(s)} \cup Range(Tail(s))
           /\ Range(<<>>) = {}
<1>1. ASSUME NEW x \in T PROVE Range(Append(s, x)) = Range(s) \cup {x}
  <2>1. Len(s) \in Nat /\ DOMAIN s = 1..Len(s)
    OBVIOUS
  <2>2. PICK a : a = Append(s, x)
    OBVIOUS
  <2>3. /\ DOMAIN a = 1..(Len(s) + 1) /\ a[Len(s) + 1] = x
        /\ \A i \in 1..Len(s) : a[i] = s[i]
    BY <1>1, <2>2
  <2>4. DOMAIN a = (DOMAIN s) \cup {Len(s) + 1}
    BY <2>1, <2>3
  <2>5. Range(a) = Range(s) \cup {x}
    BY <2>1, <2>3, <2>4 DEF Range
  <2> QED
    BY <2>2, <2>5
<1>2. ASSUME s # <<>> PROVE Range(s) = {Head(s)} \cup Range(Tail(s))
  <2>1. Len(s) \in Nat /\ Len(s) # 0 /\ DOMAIN s = 1..Len(s)
    BY <1>2
  <2>2. PICK a, h : a = Tail(s) /\ h = Head(s)
    OBVIOUS
  <2>3. DOMAIN a = 1..(Len(s) - 1) /\ \A i \in 1..(Len(s) - 1) : a[i] = s[i + 1]
    BY <1>2, <2>1, <2>2
  <2>4. h = s[1]
    BY <1>2, <2>2
  <2>5. ASSUME NEW y \in Range(s) PROVE y = h \/ y \in Range(a)
    <3>1. PICK i \in 1..Len(s) : y = s[i]
      BY <2>1, <2>5 DEF Range
    <3>2. CASE i = 1
      BY <2>4, <3>1, <3>2
    <3>3. CASE i # 1
      <4>1. i - 1 \in 1..(Len(s) - 1) /\ (i - 1) + 1 = i
        BY <2>1, <3>3
      <4>2. a[i - 1] = y
        BY <2>3, <3>1, <4>1
      <4> QED
        BY <2>3, <4>1, <4>2 DEF Range
    <3> QED
      BY <3>2, <3>3
  <2>6. h \in Range(s)
    <3>1. 1 \in 1..Len(s)
      BY <2>1
    <3> QED
      BY <2>1, <2>4, <3>1 DEF Range
  <2>7. Range(a) \subseteq Range(s)
    <3>1. \A i \in 1..(Len(s) - 1) : i + 1 \in 1..Len(s)
      BY <2>1
    <3> QED
      BY <2>1, <2>3, <3>1 DEF Range
  <2> QED
    BY <2>2, <2>5, <2>6, <2>7
<1>3. Range(<<>>) = {}
  BY DEF Range
<1> QED
  BY <1>1, <1>2, <1>3

\* What is pending, what a body wants or calls is a matter of the program.
LEMMA ProgramDecides ==
    ASSUME program' = program
    PROVE  /\ \A c : IsPending(c)' <=> IsPending(c)
           /\ \A n : Wanted(n)' = Wanted(n)
           /\ \A n, arg : Called(n, arg)' = Called(n, arg)
           /\ \A i : Body(i)' = Body(i)
           /\ \A n : Round(n)' = Round(n)
<1>1. \A c : IsPending(c)' <=> IsPending(c)
  BY DEF IsPending, Decl
<1>2. \A n : Wanted(n)' = Wanted(n)
  BY DEF Wanted, Callee, Instance, IsConcrete, IsTemplate, Decl
<1>3. \A n, arg : Called(n, arg)' = Called(n, arg)
  BY DEF Called, Callee, Instance, Decl
<1>4. \A i : Body(i)' = Body(i)
  BY DEF Body
<1>5. \A n : Round(n)' = Round(n)
  BY RoundsStay
<1> QED
  BY <1>1, <1>2, <1>3, <1>4, <1>5

\* What one function looked at does to the lists.
PendedTo(i2, c2) ==
    /\ Range(calls) = {Head(calls)} \cup Range(c2)
    /\ \/ i2 = instances /\ (IsPending(Head(calls)) => Head(calls) \in Range(instances))
       \/ /\ IsPending(Head(calls)) /\ Head(calls) \notin Range(instances)
          /\ Range(i2) = Range(instances) \cup {Head(calls)}
          /\ Len(i2) = Len(instances) + 1 /\ i2[Len(instances) + 1] = Head(calls)
          /\ \A k \in 1..Len(instances) : i2[k] = instances[k]

\* While nothing is turned away.
LEMMA PendLists ==
    ASSUME TypeOK, Pend, ~overflowed'
    PROVE  /\ ~overflowed /\ PendedTo(instances', calls')
           /\ UNCHANGED <<program, phase, at, entries, summary>> /\ calls # <<>>
<1>1. instances \in Seq(Instances) /\ calls \in Seq(Instances) /\ Len(instances) \in Nat
  BY DEF TypeOK
<1>2. /\ calls # <<>> /\ Head(calls) \in Instances /\ calls' = Tail(calls)
      /\ UNCHANGED <<program, phase, at, entries, summary>>
  BY PendStep DEF Pend
<1>3. Range(calls) = {Head(calls)} \cup Range(calls')
  BY <1>1, <1>2, RangeFacts
<1>4. \/ /\ UNCHANGED <<instances, overflowed>>
         /\ (~IsPending(Head(calls)) \/ Head(calls) \in Range(instances))
      \/ /\ IsPending(Head(calls)) /\ Head(calls) \notin Range(instances)
         /\ UNCHANGED overflowed /\ instances' = Append(instances, Head(calls))
  BY PendStep
<1>5. CASE /\ IsPending(Head(calls)) /\ Head(calls) \notin Range(instances)
           /\ UNCHANGED overflowed /\ instances' = Append(instances, Head(calls))
  <2>1. Range(instances') = Range(instances) \cup {Head(calls)}
    BY <1>1, <1>2, <1>5, RangeFacts
  <2>2. PICK h \in Instances : h = Head(calls)
    BY <1>2
  <2>3. instances' = Append(instances, h)
    BY <1>5, <2>2
  <2>4. /\ Len(instances') = Len(instances) + 1 /\ instances'[Len(instances) + 1] = h
        /\ \A k \in 1..Len(instances) : instances'[k] = instances[k]
    BY <1>1, <2>3
  <2> QED
    BY <1>2, <1>3, <1>5, <2>1, <2>2, <2>4 DEF PendedTo
<1>6. CASE /\ UNCHANGED <<instances, overflowed>>
           /\ (~IsPending(Head(calls)) \/ Head(calls) \in Range(instances))
  BY <1>2, <1>3, <1>6 DEF PendedTo
<1> QED
  BY <1>4, <1>5, <1>6

\* A function looked at keeps the ranks and the reason of an overflow.
LEMMA PendRanks ==
    ASSUME program \in Programs, TypeOK, Ranked, Overflowing, Pend
    PROVE  Ranked' /\ Overflowing'
<1>0. /\ Len(instances) \in Nat /\ instances \in Seq(Instances) /\ calls \in Seq(Instances)
      /\ DOMAIN instances = 1..Len(instances) /\ MaxInstantiations \in Nat
  BY BuildAssumption DEF TypeOK
<1>1. /\ calls # <<>> /\ calls' = Tail(calls) /\ Head(calls) \in Instances
      /\ program' = program
  BY PendStep DEF Pend
<1>2. PICK h \in Instances : h = Head(calls)
  BY <1>1
<1>3. Range(calls) = {h} \cup Range(calls')
  BY <1>0, <1>1, <1>2, RangeFacts
<1>4. /\ \A c : IsPending(c)' <=> IsPending(c)
      /\ \A n : Round(n)' = Round(n)
  BY <1>1, ProgramDecides
<1>5. \A c \in Range(calls) : IsPending(c) => c \in Round(Len(instances))
  BY DEF Ranked
<1>6. CASE instances' = instances
  <2>1. Ranked'
    BY <1>3, <1>4, <1>5, <1>6 DEF Ranked
  <2>2. Overflowing'
    <3>1. CASE overflowed' = overflowed
      BY <1>4, <1>6, <3>1 DEF Overflowing
    <3>2. CASE IsPending(h) /\ h \notin Range(instances) /\ Len(instances) = MaxInstantiations
      <4>1. h \in Round(MaxInstantiations)
        BY <1>3, <1>5, <3>2
      <4> QED
        BY <1>4, <1>6, <3>2, <4>1 DEF Overflowing
    <3>3. \/ overflowed' = overflowed
          \/ IsPending(h) /\ h \notin Range(instances) /\ Len(instances) = MaxInstantiations
      BY <1>2, PendStep
    <3> QED
      BY <3>1, <3>2, <3>3
  <2> QED
    BY <2>1, <2>2
<1>7. CASE /\ IsPending(h) /\ h \notin Range(instances) /\ Len(instances) < MaxInstantiations
           /\ overflowed' = overflowed /\ instances' = Append(instances, h)
  <2>1. /\ Len(instances') = Len(instances) + 1 /\ instances'[Len(instances) + 1] = h
        /\ \A k \in 1..Len(instances) : instances'[k] = instances[k]
    BY <1>0, <1>7
  <2>2. 1..Len(instances') = (1..Len(instances)) \cup {Len(instances) + 1}
    BY <1>0, <2>1
  <2>3. h \in Round(Len(instances))
    BY <1>3, <1>5, <1>7
  <2>4. \A k \in 1..Len(instances) : instances[k] # h
    BY <1>0, <1>7 DEF Range
  <2>5. \A k \in 1..Len(instances') : instances'[k] \in Round(k - 1) /\ IsPending(instances'[k])
    <3>1. (Len(instances) + 1) - 1 = Len(instances)
      BY <1>0
    <3> QED
      BY <1>7, <2>1, <2>2, <2>3, <3>1 DEF Ranked
  <2>6. \A j, k \in 1..Len(instances') : instances'[j] = instances'[k] => j = k
    BY <2>1, <2>2, <2>4 DEF Ranked
  <2>7. Round(Len(instances)) \subseteq Round(Len(instances'))
    BY <1>0, <2>1, RoundFacts
  <2>8. Ranked'
    BY <1>3, <1>4, <1>5, <2>5, <2>6, <2>7 DEF Ranked
  <2>9. ~overflowed
    <3>1. Len(instances) # MaxInstantiations
      <4>1. \A m, n \in Nat : m < n => m # n
        OBVIOUS
      <4> QED
        BY <1>0, <1>7, <4>1, Zenon
    <3> QED
      BY <3>1, Zenon DEF Overflowing
  <2> QED
    BY <1>7, <2>8, <2>9 DEF Overflowing
<1> QED
  BY <1>2, <1>6, <1>7, PendStep

\* The lists stay as they are when a body's calls are taken up.
LEMMA TakeUpRanks ==
    ASSUME program \in Programs, TypeOK, Ranked, Overflowing,
           UNCHANGED <<program, instances, overflowed>>,
           \A c \in Range(calls') : IsPending(c) => c \in Round(Len(instances))
    PROVE  Ranked' /\ Overflowing'
<1>1. (\A c : IsPending(c)' <=> IsPending(c)) /\ \A n : Round(n)' = Round(n)
  BY ProgramDecides
<1>2. Ranked'
  BY <1>1 DEF Ranked
<1>3. Overflowing'
  BY <1>1 DEF Overflowing
<1> QED
  BY <1>2, <1>3

\* What a body wants is needed from the start, and so is what it calls when
\* it is no template.
LEMMA SourceIsRound ==
    ASSUME program \in Programs, TypeOK, NEW n \in Range(program.bodies), NEW c, IsPending(c),
           c \in Range(Wanted(n)) \/ (~IsTemplate(n) /\ c \in Range(Called(n, NoArg)))
    PROVE  c \in FromSource /\ c \in Round(Len(instances))
<1>1. ~IsTemplate(n) => Called(n, NoArg) = Wanted(n)
  BY DEF Called, Wanted, IsConcrete
<1>2. c \in Range(Wanted(n))
  BY <1>1
<1>3. c \in FromSource
  BY <1>2 DEF FromSource
<1>4. Len(instances) \in Nat
  BY DEF TypeOK
<1>5. Round(0) \subseteq Round(Len(instances)) /\ Round(0) = FromSource
  BY <1>4, RoundFacts
<1> QED
  BY <1>3, <1>5

\* What an instance on the list calls is needed one round after it.
LEMMA InstanceIsRound ==
    ASSUME program \in Programs, TypeOK, Ranked, NEW k \in 1..Len(instances), NEW c, IsPending(c),
           c \in Range(Called(instances[k][1], instances[k][2]))
    PROVE  c \in Round(Len(instances))
<1>1. Len(instances) \in Nat /\ k \in Nat /\ k - 1 \in Nat /\ k <= Len(instances) /\ (k - 1) + 1 = k
  BY DEF TypeOK
<1>2. instances[k] \in Round(k - 1)
  BY DEF Ranked
<1>3. c \in Asked(Round(k - 1))
  BY <1>2, AskedIs
<1>4. Round((k - 1) + 1) = Round(k - 1) \cup Asked(Round(k - 1))
  BY <1>1, RoundFacts
<1>5. Round(k) \subseteq Round(Len(instances))
  BY <1>1, RoundFacts
<1> QED
  BY <1>1, <1>3, <1>4, <1>5

\* Every step keeps the ranks and the reason of an overflow.
LEMMA StepRanks ==
    ASSUME program \in Programs, TypeOK, Ranked, Overflowing, [Next]_vars
    PROVE  Ranked' /\ Overflowing'
<1>0. /\ Len(program.bodies) \in Nat /\ DOMAIN program.bodies = 1..Len(program.bodies)
      /\ at \in Nat \ {0} /\ Len(instances) \in Nat
  BY ProgramFacts DEF TypeOK
<1>1. CASE Pend
  BY <1>1, PendRanks
<1>2. CASE ResolveBody
  <2>1. /\ UNCHANGED <<program, instances, overflowed>> /\ calls' = Wanted(Body(at))
        /\ at <= Len(program.bodies)
    BY <1>2 DEF ResolveBody, InPhase
  <2>2. Body(at) \in Range(program.bodies)
    BY <1>0, <2>1 DEF Body, Range
  <2> QED
    BY <2>1, <2>2, SourceIsRound, TakeUpRanks
<1>3. CASE LowerBody
  <2>1. /\ UNCHANGED <<program, instances, overflowed>> /\ at <= Len(program.bodies)
        /\ calls' = IF IsTemplate(Body(at)) THEN <<>> ELSE Called(Body(at), NoArg)
    BY <1>3 DEF LowerBody, InPhase
  <2>2. Body(at) \in Range(program.bodies)
    BY <1>0, <2>1 DEF Body, Range
  <2>3. \A c \in Range(calls') : ~IsTemplate(Body(at)) /\ c \in Range(Called(Body(at), NoArg))
    <3>1. Range(<<>>) = {}
      BY DEF Range
    <3> QED
      BY <2>1, <3>1
  <2> QED
    BY <2>1, <2>2, <2>3, SourceIsRound, TakeUpRanks
<1>4. CASE MakeInstance
  <2>1. /\ UNCHANGED <<program, instances, overflowed>> /\ at <= Len(instances)
        /\ calls' = calls \/ calls' = Called(instances[at][1], instances[at][2])
    BY <1>4 DEF MakeInstance
  <2>2. at \in 1..Len(instances)
    BY <1>0, <2>1
  <2>3. CASE calls' = calls
    BY <2>1, <2>3, TakeUpRanks DEF Ranked
  <2>4. CASE calls' = Called(instances[at][1], instances[at][2])
    BY <2>1, <2>2, <2>4, InstanceIsRound, TakeUpRanks
  <2> QED
    BY <2>1, <2>3, <2>4
<1>5. CASE Summarise \/ Report \/ LoopEnds \/ UNCHANGED vars
  <2>1. UNCHANGED <<program, instances, overflowed, calls>>
    BY <1>5 DEF Summarise, Report, LoopEnds, vars
  <2> QED
    BY <2>1, TakeUpRanks DEF Ranked
<1> QED
  BY <1>1, <1>2, <1>3, <1>4, <1>5 DEF Next

\* A function looked at stays listed, and so does every other one.
LEMMA PendProgress ==
    ASSUME program \in Programs, TypeOK, Progress, Pend
    PROVE  Progress'
<1> SUFFICES ASSUME ~overflowed' PROVE Progress'
  BY DEF Progress
<1>0. Len(instances) \in Nat /\ at \in Nat \ {0} /\ Len(program.bodies) \in Nat
  BY ProgramFacts DEF TypeOK
<1>1. /\ ~overflowed /\ PendedTo(instances', calls') /\ calls # <<>>
      /\ UNCHANGED <<program, phase, at, entries>>
  BY PendLists
<1>2. PICK i2, c2 : i2 = instances' /\ c2 = calls'
  OBVIOUS
<1>3. /\ \A c : IsPending(c)' <=> IsPending(c)
      /\ \A n : Wanted(n)' = Wanted(n)
      /\ \A n, arg : Called(n, arg)' = Called(n, arg)
      /\ \A i : Body(i)' = Body(i)
  BY <1>1, ProgramDecides
<1>4. /\ \A k \in 1..Len(instances) : i2[k] = instances[k]
      /\ Len(i2) \in Nat /\ Len(instances) <= Len(i2)
  BY <1>0, <1>1, <1>2 DEF PendedTo
<1>5. ASSUME NEW c, IsPending(c), Listed(c) PROVE c \in Range(i2) \/ c \in Range(c2)
  BY <1>1, <1>2, <1>5 DEF PendedTo, Listed
<1>6. \A c : IsPending(c) /\ Listed(c) => Listed(c)'
  BY <1>2, <1>5 DEF Listed
<1>7. \A b : WantedFor(b) => WantedFor(b)'
  BY <1>3, <1>6 DEF WantedFor
<1>8. ASSUME NEW k, k \in Int, k <= Len(instances), AskedFor(k) PROVE AskedFor(k)'
  <2>1. \A j \in 1..k : i2[j] = instances[j]
    BY <1>0, <1>4, <1>8
  <2>2. \A j \in 1..k : \A c \in Range(Called(i2[j][1], i2[j][2])) : IsPending(c) => Listed(c)
    BY <1>8, <2>1 DEF AskedFor
  <2> QED
    BY <1>2, <1>3, <1>6, <2>2 DEF AskedFor
<1>9. ASSUME NEW b, NEW k, k \in Int, k <= Len(instances), Made(b, k) PROVE Made(b, k)'
  <2>1. \A j \in 1..k : i2[j] = instances[j]
    BY <1>0, <1>4, <1>9
  <2> QED
    BY <1>1, <1>2, <1>3, <1>9, <2>1 DEF Made, Instance
<1>10. /\ 0 \in Int /\ 0 <= Len(instances) /\ at - 1 \in Int
       /\ (at <= Len(instances) + 1 => at - 1 <= Len(instances) /\ at <= Len(instances') + 1)
  BY <1>0, <1>2, <1>4
<1>11. CASE phase = "resolve" /\ at <= Len(program.bodies) + 1 /\ WantedFor(at - 1) /\ Made(0, 0)
  <2>1. WantedFor(at - 1)' /\ Made(0, 0)'
    BY <1>1, <1>7, <1>9, <1>10, <1>11 DEF WantedFor
  <2> QED
    BY <1>1, <1>11, <2>1 DEF Progress
<1>12. CASE /\ phase = "lower" /\ at <= Len(program.bodies) + 1
            /\ WantedFor(Len(program.bodies)) /\ Made(at - 1, 0)
  <2>1. PICK b, k : b = Len(program.bodies) /\ k = at - 1
    OBVIOUS
  <2>2. WantedFor(b)' /\ Made(k, 0)'
    BY <1>7, <1>9, <1>10, <1>12, <2>1
  <2>3. Len(program.bodies)' = b /\ (at - 1)' = k
    BY <1>1, <2>1
  <2> QED
    BY <1>1, <1>12, <2>2, <2>3 DEF Progress, WantedFor, Made
<1>13. CASE /\ phase = "instantiate" /\ at <= Len(instances) + 1
            /\ WantedFor(Len(program.bodies)) /\ Made(Len(program.bodies), at - 1) /\ AskedFor(at - 1)
  <2>1. PICK b, k : b = Len(program.bodies) /\ k = at - 1
    OBVIOUS
  <2>2. WantedFor(b)' /\ Made(b, k)' /\ AskedFor(k)'
    BY <1>7, <1>8, <1>9, <1>10, <1>13, <2>1
  <2>3. Len(program.bodies)' = b /\ (at - 1)' = k
    BY <1>1, <2>1
  <2> QED
    BY <1>1, <1>10, <1>13, <2>2, <2>3 DEF Progress, WantedFor, Made, AskedFor
<1> QED
  BY <1>1, <1>11, <1>12, <1>13 DEF Progress

\* Progress, a phase at a time.
LEMMA ProgressIn ==
    ASSUME Progress, overflowed = FALSE
    PROVE  /\ phase = "resolve" => at <= Len(program.bodies) + 1 /\ WantedFor(at - 1) /\ Made(0, 0)
           /\ phase = "lower" => /\ at <= Len(program.bodies) + 1
                                 /\ WantedFor(Len(program.bodies)) /\ Made(at - 1, 0)
           /\ phase = "instantiate" =>
                  /\ at <= Len(instances) + 1 /\ WantedFor(Len(program.bodies))
                  /\ Made(Len(program.bodies), at - 1) /\ AskedFor(at - 1)
           /\ phase \in Later =>
                  /\ calls = <<>> /\ WantedFor(Len(program.bodies))
                  /\ Made(Len(program.bodies), Len(instances)) /\ AskedFor(Len(instances))
  BY DEF Progress, Later

\* The calls of a body are taken up when all before are looked at.
LEMMA NothingForgotten ==
    ASSUME UNCHANGED <<program, instances>>, calls = <<>>
    PROVE  /\ \A b : WantedFor(b) => WantedFor(b)'
           /\ \A k : AskedFor(k) => AskedFor(k)'
<1>1. Range(calls) = {}
  BY DEF Range
<1>2. \A c : Listed(c) => Listed(c)'
  BY <1>1 DEF Listed
<1>3. /\ \A c : IsPending(c)' <=> IsPending(c)
      /\ \A n : Wanted(n)' = Wanted(n)
      /\ \A n, arg : Called(n, arg)' = Called(n, arg)
      /\ \A i : Body(i)' = Body(i)
  BY ProgramDecides
<1>4. \A b : WantedFor(b) => WantedFor(b)'
  BY <1>2, <1>3 DEF WantedFor
<1>5. \A k : AskedFor(k) => AskedFor(k)'
  BY <1>2, <1>3 DEF AskedFor
<1> QED
  BY <1>4, <1>5

\* What the body being resolved wants is taken up.
LEMMA ResolveProgress ==
    ASSUME program \in Programs, TypeOK, Progress, ResolveBody
    PROVE  Progress'
<1> SUFFICES ASSUME ~overflowed' PROVE Progress'
  BY DEF Progress
<1>0. at \in Nat \ {0} /\ Len(program.bodies) \in Nat
  BY ProgramFacts DEF TypeOK
<1>1. /\ phase = "resolve" /\ calls = <<>> /\ at <= Len(program.bodies) /\ at' = at + 1
      /\ calls' = Wanted(Body(at)) /\ UNCHANGED <<program, phase, instances, overflowed, entries>>
  BY DEF ResolveBody, InPhase
<1>2. WantedFor(at - 1) /\ Made(0, 0)
  <2>1. overflowed = FALSE
    BY <1>1, Zenon DEF TypeOK
  <2> QED
    BY <1>1, <2>1, ProgressIn
<1>3. PICK k, b : k = at - 1 /\ b = Body(at)
  OBVIOUS
<1>4. WantedFor(k)'
  BY <1>1, <1>2, <1>3, NothingForgotten
<1>5. (\A n : Wanted(n)' = Wanted(n)) /\ \A i : Body(i)' = Body(i)
  BY <1>1, ProgramDecides
<1>6. \A c \in Range(Wanted(Body(at))) : Listed(c)'
  BY <1>1 DEF Listed
<1>7. 1..(at' - 1) = (1..k) \cup {at}
  BY <1>0, <1>1, <1>3
<1>8. WantedFor(at - 1)'
  BY <1>4, <1>5, <1>6, <1>7 DEF WantedFor
<1>9. Made(0, 0)' /\ at' <= Len(program'.bodies) + 1
  BY <1>0, <1>1, <1>2, <1>5 DEF Made, Instance
<1> QED
  BY <1>1, <1>8, <1>9 DEF Progress

\* The body being lowered gets its entry.
LEMMA LowerProgress ==
    ASSUME program \in Programs, TypeOK, Progress, LowerBody
    PROVE  Progress'
<1> SUFFICES ASSUME ~overflowed' PROVE Progress'
  BY DEF Progress
<1>0. /\ at \in Nat \ {0} /\ Len(program.bodies) \in Nat /\ entries \in Seq(Instances)
      /\ Len(entries) \in Nat
  BY ProgramFacts DEF TypeOK
<1>1. /\ phase = "lower" /\ calls = <<>> /\ at <= Len(program.bodies) /\ at' = at + 1
      /\ entries' = Append(entries, Instance(Body(at), NoArg))
      /\ UNCHANGED <<program, phase, instances, overflowed>>
  BY DEF LowerBody, InPhase
<1>2. WantedFor(Len(program.bodies)) /\ Made(at - 1, 0)
  <2>1. overflowed = FALSE
    BY <1>1, Zenon DEF TypeOK
  <2> QED
    BY <1>1, <2>1, ProgressIn
<1>3. PICK b, e2 : b = Len(program.bodies) /\ e2 = entries'
  OBVIOUS
<1>4. WantedFor(b)'
  BY <1>1, <1>2, <1>3, NothingForgotten
<1>5. \A i : Body(i)' = Body(i)
  BY <1>1, ProgramDecides
<1>6. Instance(Body(at), NoArg) \in Instances
  BY <1>0, <1>1, ProgramFacts DEF Instance, Instances
<1>7. Len(entries) = at - 1
  BY <1>0, <1>2 DEF Made
<1>8. /\ Len(e2) = at /\ e2[at] = Instance(Body(at), NoArg)
      /\ \A i \in 1..(at - 1) : e2[i] = entries[i]
  <2>1. PICK x \in Instances : x = Instance(Body(at), NoArg)
    BY <1>6
  <2>2. e2 = Append(entries, x)
    BY <1>1, <1>3, <2>1
  <2>3. /\ Len(e2) = Len(entries) + 1 /\ e2[Len(entries) + 1] = x
        /\ \A i \in 1..Len(entries) : e2[i] = entries[i]
    BY <1>0, <2>2
  <2>4. Len(entries) + 1 = at
    BY <1>0, <1>7
  <2> QED
    BY <1>7, <2>1, <2>3, <2>4
<1>9. \A i \in 1..at : e2[i] = Instance(Body(i), NoArg)
  <2>1. 1..at = (1..(at - 1)) \cup {at}
    BY <1>0
  <2> QED
    BY <1>2, <1>8, <2>1 DEF Made
<1>10. Made(at - 1, 0)'
  <2>1. at' - 1 = at /\ at + 0 = at /\ 1..0 = {}
    BY <1>0, <1>1
  <2> QED
    BY <1>3, <1>5, <1>8, <1>9, <2>1 DEF Made, Instance
<1>11. at' <= Len(program'.bodies) + 1 /\ Len(program.bodies)' = b
  BY <1>0, <1>1, <1>3
<1> QED
  BY <1>1, <1>4, <1>10, <1>11 DEF Progress, WantedFor

\* An instance on the list has a template: one that is imported, or one of the
\* bodies, which all have their entry.
LEMMA TemplatesAreThere ==
    ASSUME program \in Programs, TypeOK, Ranked, NEW k \in Nat, Made(Len(program.bodies), k),
           NEW j \in 1..Len(instances)
    PROVE  HasTemplate(instances[j][1])
<1>1. IsPending(instances[j]) /\ instances[j] \in Instances
  BY DEF Ranked, TypeOK
<1>2. PICK n \in Names : n = instances[j][1] /\ Decl(n).body # "none"
  BY <1>1 DEF IsPending, Instances
<1>3. CASE Decl(n).body = "here"
  <2>1. PICK i \in 1..Len(program.bodies) : n = Body(i)
    BY <1>3, ProgramFacts DEF Range, Body
  <2>2. entries[i] = Instance(n, NoArg)
    BY <2>1 DEF Made
  <2>3. i \in DOMAIN entries
    <3>1. Len(program.bodies) \in Nat /\ entries \in Seq(Instances)
      BY ProgramFacts DEF TypeOK
    <3>2. Len(entries) = Len(program.bodies) + k /\ DOMAIN entries = 1..Len(entries)
      BY <3>1 DEF Made
    <3> QED
      BY <3>1, <3>2
  <2>4. Instance(n, NoArg) \in Range(entries)
    BY <2>2, <2>3 DEF Range
  <2> QED
    BY <1>2, <2>4 DEF HasTemplate
<1>4. CASE Decl(n).body = "import"
  BY <1>2, <1>4 DEF HasTemplate
<1>5. Decl(n).body \in {"here", "import", "none"}
  BY ProgramBodies
<1> QED
  BY <1>2, <1>3, <1>4, <1>5

\* The entries of the bodies and of some instances are different ones.
LEMMA EntriesDiffer ==
    ASSUME program \in Programs, TypeOK, Ranked, NEW k \in Nat, k <= Len(instances),
           Made(Len(program.bodies), k)
    PROVE  /\ IsInjective(entries)
           /\ \A j \in 1..Len(instances) : instances[j] \in Range(entries) <=> j <= k
<1>1. PICK b \in Nat : b = Len(program.bodies)
  BY ProgramFacts
<1>2. /\ DOMAIN entries = 1..(b + k)
      /\ \A i \in 1..b : entries[i] = Instance(Body(i), NoArg)
      /\ \A j \in 1..k : entries[b + j] = instances[j]
  BY <1>1 DEF Made, TypeOK
<1>3. Len(instances) \in Nat /\ 1..k \subseteq 1..Len(instances)
  BY DEF TypeOK
<1>4. \A j \in 1..Len(instances) : instances[j][2] # NoArg
  BY DEF Ranked, IsPending
<1>5. \A i \in 1..b : entries[i][1] = Body(i) /\ entries[i][2] = NoArg
  BY <1>2 DEF Instance
<1>6. \A x \in 1..(b + k) : x \in 1..b \/ (x - b \in 1..k /\ b + (x - b) = x)
  BY <1>1
<1>7. ASSUME NEW x \in 1..(b + k), NEW y \in 1..(b + k), entries[x] = entries[y] PROVE x = y
  <2>1. CASE x \in 1..b /\ y \in 1..b
    BY <1>1, <1>5, <1>7, <2>1, ProgramFacts
  <2>2. CASE x - b \in 1..k /\ b + (x - b) = x /\ y - b \in 1..k /\ b + (y - b) = y
    <3>1. entries[x] = instances[x - b] /\ entries[y] = instances[y - b]
      BY <1>2, <2>2
    <3>2. x - b = y - b
      BY <1>3, <1>7, <2>2, <3>1 DEF Ranked
    <3> QED
      BY <1>1, <3>2
  <2>3. CASE x \in 1..b /\ y - b \in 1..k /\ b + (y - b) = y
    <3>1. entries[y] = instances[y - b] /\ entries[x][2] = NoArg
      BY <1>2, <1>5, <2>3
    <3> QED
      BY <1>3, <1>4, <1>7, <2>3, <3>1
  <2>4. CASE y \in 1..b /\ x - b \in 1..k /\ b + (x - b) = x
    <3>1. entries[x] = instances[x - b] /\ entries[y][2] = NoArg
      BY <1>2, <1>5, <2>4
    <3> QED
      BY <1>3, <1>4, <1>7, <2>4, <3>1
  <2> QED
    BY <1>6, <2>1, <2>2, <2>3, <2>4
<1>8. ASSUME NEW j \in 1..Len(instances), instances[j] \in Range(entries) PROVE j <= k
  <2>1. PICK x \in 1..(b + k) : entries[x] = instances[j]
    BY <1>2, <1>8 DEF Range
  <2>2. x \notin 1..b
    BY <1>4, <1>5, <2>1
  <2>3. x - b \in 1..k /\ b + (x - b) = x
    BY <1>6, <2>2
  <2>4. instances[x - b] = instances[j]
    BY <1>2, <2>1, <2>3
  <2>5. x - b = j
    BY <1>3, <2>3, <2>4 DEF Ranked
  <2> QED
    BY <1>1, <2>3, <2>5
<1>9. ASSUME NEW j \in 1..Len(instances), j <= k PROVE instances[j] \in Range(entries)
  <2>1. j \in 1..k /\ b + j \in 1..(b + k)
    BY <1>1, <1>3, <1>9
  <2> QED
    BY <1>2, <2>1 DEF Range
<1> QED
  BY <1>2, <1>7, <1>8, <1>9 DEF IsInjective

\* The instance being made gets its entry, and what it calls is taken up.
LEMMA MakeProgress ==
    ASSUME program \in Programs, TypeOK, Ranked, Progress, MakeInstance
    PROVE  Progress'
<1> SUFFICES ASSUME ~overflowed' PROVE Progress'
  BY DEF Progress
<1>0. /\ at \in Nat \ {0} /\ Len(program.bodies) \in Nat /\ entries \in Seq(Instances)
      /\ Len(entries) \in Nat /\ Len(instances) \in Nat
  BY ProgramFacts DEF TypeOK
<1>1. /\ phase = "instantiate" /\ calls = <<>> /\ at <= Len(instances) /\ at' = at + 1
      /\ UNCHANGED <<program, phase, instances, overflowed>>
      /\ HasTemplate(instances[at][1]) /\ instances[at] \notin Range(entries) =>
            /\ entries' = Append(entries, instances[at])
            /\ calls' = Called(instances[at][1], instances[at][2])
  BY DEF MakeInstance
<1>2. WantedFor(Len(program.bodies)) /\ Made(Len(program.bodies), at - 1) /\ AskedFor(at - 1)
  <2>1. overflowed = FALSE
    BY <1>1, Zenon DEF TypeOK
  <2> QED
    BY <1>1, <2>1, ProgressIn
<1>3. PICK b, k, e2 : b = Len(program.bodies) /\ k = at - 1 /\ e2 = entries'
  OBVIOUS
<1>4. /\ k \in Nat /\ k <= Len(instances) /\ at \in 1..Len(instances) /\ ~ (at <= k)
      /\ k + 1 = at /\ 1..at = (1..k) \cup {at} /\ b \in Nat
  BY <1>0, <1>1, <1>3
<1>5. HasTemplate(instances[at][1]) /\ instances[at] \notin Range(entries)
  BY <1>2, <1>3, <1>4, TemplatesAreThere, EntriesDiffer
<1>6. WantedFor(b)' /\ AskedFor(k)'
  BY <1>1, <1>2, <1>3, NothingForgotten
<1>7. PICK x \in Instances : x = instances[at]
  BY <1>4 DEF TypeOK
<1>8. Len(entries) = b + k
  BY <1>2, <1>3 DEF Made
<1>9. /\ Len(e2) = b + at /\ e2[b + at] = x
      /\ \A i \in 1..(b + k) : e2[i] = entries[i]
  <2>1. e2 = Append(entries, x)
    BY <1>1, <1>3, <1>5, <1>7
  <2>2. /\ Len(e2) = Len(entries) + 1 /\ e2[Len(entries) + 1] = x
        /\ \A i \in 1..Len(entries) : e2[i] = entries[i]
    BY <1>0, <2>1
  <2>3. Len(entries) + 1 = b + at
    BY <1>4, <1>8
  <2> QED
    BY <1>8, <2>2, <2>3
<1>10. \A i \in 1..b : e2[i] = Instance(Body(i), NoArg)
  <2>1. \A i \in 1..b : i \in 1..(b + k)
    BY <1>4
  <2> QED
    BY <1>2, <1>3, <1>9, <2>1 DEF Made
<1>11. \A j \in 1..at : e2[b + j] = instances[j]
  <2>1. \A j \in 1..k : b + j \in 1..(b + k)
    BY <1>4
  <2> QED
    BY <1>2, <1>3, <1>4, <1>7, <1>9, <2>1 DEF Made
<1>12. /\ \A i : Body(i)' = Body(i)
       /\ \A n, arg : Called(n, arg)' = Called(n, arg)
  BY <1>1, ProgramDecides
<1>13. PICK z : z = at
  OBVIOUS
<1>14. Made(b, z)'
  <2>1. /\ Len(entries') = b + z
        /\ \A i \in 1..b : entries'[i] = Instance(Body(i), NoArg)
        /\ \A j \in 1..z : entries'[b + j] = instances'[j]
    BY <1>1, <1>3, <1>9, <1>10, <1>11, <1>13
  <2> QED
    BY <1>12, <2>1 DEF Made, Instance
<1>15. AskedFor(z)'
  <2>1. \A c \in Range(Called(instances[at][1], instances[at][2])) : Listed(c)'
    BY <1>1, <1>5 DEF Listed
  <2>2. \A j \in 1..z : j \in 1..k \/ j = at
    BY <1>4, <1>13
  <2>3. ASSUME NEW j \in 1..z, NEW c \in Range(Called(instances[j][1], instances[j][2])),
               IsPending(c)
        PROVE  Listed(c)'
    <3>1. CASE j \in 1..k
      BY <1>1, <1>6, <1>12, <2>3, <3>1, ProgramDecides DEF AskedFor
    <3> QED
      BY <2>1, <2>2, <2>3, <3>1
  <2> QED
    BY <1>1, <1>12, <2>3, ProgramDecides DEF AskedFor
<1>16. at' <= Len(instances') + 1 /\ Len(program.bodies)' = b /\ (at - 1)' = z
  BY <1>0, <1>1, <1>3, <1>13
<1> QED
  BY <1>1, <1>6, <1>14, <1>15, <1>16 DEF Progress, WantedFor, Made, AskedFor

\* A phase leaves to the next what that one begins with.
LEMMA LoopEndsProgress ==
    ASSUME program \in Programs, TypeOK, Progress, LoopEnds
    PROVE  Progress'
<1> SUFFICES ASSUME ~overflowed' PROVE Progress'
  BY DEF Progress
<1>0. at \in Nat \ {0} /\ Len(program.bodies) \in Nat /\ Len(instances) \in Nat
  BY ProgramFacts DEF TypeOK
<1>1. /\ phase # "done" /\ calls = <<>> /\ at' = 1 /\ overflowed = FALSE
      /\ UNCHANGED <<program, calls, instances, overflowed, entries>>
  <2>1. overflowed = FALSE
    BY Zenon DEF LoopEnds, TypeOK
  <2> QED
    BY <2>1 DEF LoopEnds
<1>2. phase' = NextPhase[phase]
  BY <1>1 DEF LoopEnds
<1>3. PICK b, n : b = Len(program.bodies) /\ n = Len(instances)
  OBVIOUS
<1>4. /\ Len(program.bodies)' = b /\ Len(instances)' = n /\ (at - 1)' = 0
      /\ b \in Nat /\ n \in Nat
  BY <1>0, <1>1, <1>3
<1>5. /\ \A m : WantedFor(m) => WantedFor(m)'
      /\ \A m : AskedFor(m) => AskedFor(m)'
      /\ \A m, k : Made(m, k) => Made(m, k)'
  <2>1. \A i : Body(i)' = Body(i)
    BY <1>1, ProgramDecides
  <2> QED
    BY <1>1, <2>1, NothingForgotten DEF Made, Instance
<1>6. CASE phase = "resolve"
  <2>1. at - 1 = b
    <3>1. at <= b + 1 /\ at > b
      BY <1>1, <1>3, <1>6, ProgressIn DEF LoopEnds
    <3> QED
      BY <1>0, <1>4, <3>1
  <2>2. WantedFor(b) /\ Made(0, 0)
    BY <1>1, <1>6, <2>1, ProgressIn
  <2>3. WantedFor(b)' /\ Made(0, 0)'
    BY <1>5, <2>2
  <2>4. phase' = "lower" /\ at' <= b + 1
    BY <1>1, <1>2, <1>4, <1>6 DEF NextPhase
  <2> QED
    BY <1>4, <2>3, <2>4 DEF Progress, WantedFor, Made
<1>7. CASE phase = "lower"
  <2>1. at - 1 = b
    <3>1. at <= b + 1 /\ at > b
      BY <1>1, <1>3, <1>7, ProgressIn DEF LoopEnds
    <3> QED
      BY <1>0, <1>4, <3>1
  <2>2. WantedFor(b) /\ Made(b, 0)
    BY <1>1, <1>3, <1>7, <2>1, ProgressIn
  <2>3. WantedFor(b)' /\ Made(b, 0)'
    BY <1>5, <2>2
  <2>4. phase' = "instantiate" /\ at' <= n + 1
    BY <1>1, <1>2, <1>4, <1>7 DEF NextPhase
  <2>5. AskedFor(0)'
    BY DEF AskedFor
  <2> QED
    BY <1>4, <2>3, <2>4, <2>5 DEF Progress, WantedFor, Made, AskedFor
<1>8. CASE phase = "instantiate"
  <2>1. at - 1 = n
    <3>1. at <= n + 1 /\ at > n
      BY <1>1, <1>3, <1>8, ProgressIn DEF LoopEnds
    <3> QED
      BY <1>0, <1>4, <3>1
  <2>2. WantedFor(b) /\ Made(b, n) /\ AskedFor(n)
    BY <1>1, <1>3, <1>8, <2>1, ProgressIn
  <2>3. WantedFor(b)' /\ Made(b, n)' /\ AskedFor(n)'
    BY <1>5, <2>2
  <2>4. phase' \in Later
    BY <1>2, <1>8 DEF NextPhase, Later
  <2> QED
    BY <1>1, <1>4, <2>3, <2>4 DEF Progress, WantedFor, Made, AskedFor
<1>9. CASE phase \in Later
  <2>1. WantedFor(b) /\ Made(b, n) /\ AskedFor(n)
    BY <1>1, <1>3, <1>9, ProgressIn
  <2>2. WantedFor(b)' /\ Made(b, n)' /\ AskedFor(n)'
    BY <1>5, <2>1
  <2>3. phase' \in Later
    BY <1>1, <1>2, <1>9 DEF NextPhase, Later
  <2> QED
    BY <1>1, <1>4, <2>2, <2>3 DEF Progress, WantedFor, Made, AskedFor
<1>10. phase \in {"resolve", "lower", "instantiate"} \cup Later
  BY DEF TypeOK, NextPhase, Later
<1> QED
  BY <1>6, <1>7, <1>8, <1>9, <1>10

\* The borrow checker leaves the lists as they are.
LEMMA CheckProgress ==
    ASSUME program \in Programs, TypeOK, Progress, Summarise \/ Report
    PROVE  Progress'
<1> SUFFICES ASSUME ~overflowed' PROVE Progress'
  BY DEF Progress
<1>1. /\ phase \in Later /\ calls = <<>> /\ overflowed = FALSE
      /\ UNCHANGED <<program, phase, calls, instances, overflowed, entries>>
  <2>1. UNCHANGED <<program, phase, calls, instances, overflowed, entries>>
    BY DEF Summarise, Report
  <2>2. overflowed = FALSE
    BY <2>1, Zenon DEF TypeOK
  <2>3. phase \in Later /\ calls = <<>>
    BY DEF Summarise, Report, InPhase, Later
  <2> QED
    BY <2>1, <2>2, <2>3
<1>2. PICK b, n : b = Len(program.bodies) /\ n = Len(instances)
  OBVIOUS
<1>3. WantedFor(b) /\ Made(b, n) /\ AskedFor(n)
  BY <1>1, <1>2, ProgressIn
<1>4. \A i : Body(i)' = Body(i)
  BY <1>1, ProgramDecides
<1>5. WantedFor(b)' /\ AskedFor(n)'
  BY <1>1, <1>3, NothingForgotten
<1>6. Made(b, n)'
  BY <1>1, <1>3, <1>4 DEF Made, Instance
<1>7. Len(program.bodies)' = b /\ Len(instances)' = n
  BY <1>1, <1>2
<1> QED
  BY <1>1, <1>5, <1>6, <1>7 DEF Progress, WantedFor, Made, AskedFor

\* Nothing at all keeps everything.
LEMMA StutterProgress ==
    ASSUME Progress, UNCHANGED vars
    PROVE  Progress'
<1>1. UNCHANGED <<program, phase, at, calls, instances, overflowed, entries>>
  BY DEF vars
<1>2. /\ \A c : IsPending(c)' <=> IsPending(c)
      /\ \A n : Wanted(n)' = Wanted(n)
      /\ \A n, arg : Called(n, arg)' = Called(n, arg)
      /\ \A i : Body(i)' = Body(i)
  BY <1>1, ProgramDecides
<1>3. \A c : Listed(c)' <=> Listed(c)
  BY <1>1 DEF Listed
<1>4. /\ \A b : WantedFor(b)' <=> WantedFor(b)
      /\ \A k : AskedFor(k)' <=> AskedFor(k)
      /\ \A b, k : Made(b, k)' <=> Made(b, k)
  BY <1>1, <1>2, <1>3 DEF WantedFor, AskedFor, Made, Instance
<1>5. PICK b, n, k : b = Len(program.bodies) /\ n = Len(instances) /\ k = at - 1
  OBVIOUS
<1>6. Len(program.bodies)' = b /\ Len(instances)' = n /\ (at - 1)' = k
  BY <1>1, <1>5
<1>7. CASE overflowed
  BY <1>1, <1>7, Zenon DEF Progress
<1>8. CASE phase = "resolve" /\ at <= b + 1 /\ WantedFor(k) /\ Made(0, 0)
  <2>1. WantedFor(k)' /\ Made(0, 0)' /\ (phase = "resolve" /\ at <= b + 1)'
    BY <1>1, <1>4, <1>8
  <2> QED
    BY <1>6, <2>1 DEF Progress, WantedFor, Made
<1>9. CASE phase = "lower" /\ at <= b + 1 /\ WantedFor(b) /\ Made(k, 0)
  <2>1. WantedFor(b)' /\ Made(k, 0)' /\ (phase = "lower" /\ at <= b + 1)'
    BY <1>1, <1>4, <1>9
  <2> QED
    BY <1>6, <2>1 DEF Progress, WantedFor, Made
<1>10. CASE /\ phase = "instantiate" /\ at <= n + 1 /\ WantedFor(b) /\ Made(b, k) /\ AskedFor(k)
  <2>1. WantedFor(b)' /\ Made(b, k)' /\ AskedFor(k)' /\ (phase = "instantiate" /\ at <= n + 1)'
    BY <1>1, <1>4, <1>10
  <2> QED
    BY <1>6, <2>1 DEF Progress, WantedFor, Made, AskedFor
<1>11. CASE phase \in Later /\ calls = <<>> /\ WantedFor(b) /\ Made(b, n) /\ AskedFor(n)
  <2>1. WantedFor(b)' /\ Made(b, n)' /\ AskedFor(n)' /\ (phase \in Later /\ calls = <<>>)'
    BY <1>1, <1>4, <1>11
  <2> QED
    BY <1>6, <2>1 DEF Progress, WantedFor, Made, AskedFor
<1> QED
  BY <1>5, <1>7, <1>8, <1>9, <1>10, <1>11 DEF Progress

\* Every step keeps Progress.
LEMMA StepProgress ==
    ASSUME program \in Programs, TypeOK, Ranked, Progress, [Next]_vars
    PROVE  Progress'
  BY PendProgress, ResolveProgress, LowerProgress, MakeProgress, LoopEndsProgress, CheckProgress,
     StutterProgress DEF Next

\* And it begins with empty lists.
LEMMA InstancesAtInit ==
    ASSUME Init
    PROVE  Ranked /\ Overflowing /\ Progress
<1>1. /\ phase = "resolve" /\ at = 1 /\ calls = <<>> /\ instances = <<>> /\ overflowed = FALSE
      /\ entries = <<>> /\ program \in Programs
  BY DEF Init
<1>2. Len(instances) = 0 /\ Len(entries) = 0 /\ Range(calls) = {} /\ Len(program.bodies) \in Nat
  BY <1>1, ProgramFacts DEF Range
<1>3. Ranked
  BY <1>2 DEF Ranked
<1>4. Overflowing
  BY <1>1 DEF Overflowing
<1>5. WantedFor(at - 1) /\ Made(0, 0) /\ at <= Len(program.bodies) + 1
  BY <1>1, <1>2 DEF WantedFor, Made
<1> QED
  BY <1>1, <1>3, <1>4, <1>5 DEF Progress

\* Without an overflow, the list holds what is needed and nothing else.
LEMMA ListIsNeeded ==
    ASSUME program \in Programs, TypeOK, Ranked, Progress, overflowed = FALSE, phase \in Later
    PROVE  Range(instances) = Needed
<1>1. /\ calls = <<>> /\ WantedFor(Len(program.bodies)) /\ AskedFor(Len(instances))
  BY ProgressIn
<1>2. /\ instances \in Seq(Instances) /\ Len(instances) \in Nat /\ MaxInstantiations \in Nat
      /\ DOMAIN instances = 1..Len(instances) /\ Len(instances) <= MaxInstantiations
  BY BuildAssumption DEF TypeOK
<1>3. Needed = Round(MaxInstantiations + 1) /\ MaxInstantiations + 1 \in Nat
  BY <1>2 DEF Needed, Round, AskStep
<1>4. Range(instances) \subseteq Needed
  <2> SUFFICES ASSUME NEW k \in 1..Len(instances) PROVE instances[k] \in Needed
    BY <1>2 DEF Range
  <2>1. instances[k] \in Round(k - 1)
    BY DEF Ranked
  <2>2. k - 1 \in Nat /\ k - 1 <= MaxInstantiations + 1
    BY <1>2
  <2>3. Round(k - 1) \subseteq Round(MaxInstantiations + 1)
    BY <1>3, <2>2, RoundFacts
  <2> QED
    BY <1>3, <2>1, <2>3
<1>5. \A c : Listed(c) => c \in Range(instances)
  BY <1>1 DEF Listed, Range
<1>6. Needed \subseteq Range(instances)
  <2>1. PICK D : D = SUBSET Range(instances)
    OBVIOUS
  <2>2. FromSource \in D
    <3> SUFFICES ASSUME NEW c \in FromSource PROVE c \in Range(instances)
      BY <2>1
    <3>1. PICK n \in Range(program.bodies) : c \in Range(Wanted(n)) /\ IsPending(c)
      BY DEF FromSource
    <3>2. PICK i \in 1..Len(program.bodies) : n = Body(i)
      BY ProgramFacts DEF Range, Body
    <3> QED
      BY <1>1, <1>5, <3>1, <3>2 DEF WantedFor
  <2>3. \A some \in D : AskStep[some] \in D
    <3> SUFFICES ASSUME NEW some \in D PROVE AskStep[some] \in D
      OBVIOUS
    <3>1. some \subseteq Range(instances) /\ Range(instances) \subseteq Instances
      BY <1>2, <2>1 DEF Range
    <3>2. AskStep[some] = some \cup Asked(some)
      BY <3>1 DEF AskStep
    <3>3. ASSUME NEW c \in Asked(some) PROVE c \in Range(instances)
      <4>1. IsPending(c) /\ \E f \in some : c \in Range(Called(f[1], f[2]))
        BY <3>3, AskedIs
      <4>2. PICK f \in some : c \in Range(Called(f[1], f[2]))
        BY <4>1
      <4>3. PICK k \in 1..Len(instances) : f = instances[k]
        BY <1>2, <3>1, <4>2 DEF Range
      <4> QED
        BY <1>1, <1>5, <4>1, <4>2, <4>3 DEF AskedFor
    <3> QED
      BY <2>1, <3>1, <3>2, <3>3
  <2>4. Round(MaxInstantiations + 1) \in D
    BY <1>3, <2>2, <2>3, IteratedWithin DEF Round
  <2> QED
    BY <1>3, <2>1, <2>4
<1> QED
  BY <1>4, <1>6

\* An overflow turned away an instance from a list that was full of others.
LEMMA OverflowIsRight ==
    ASSUME program \in Programs, TypeOK, Ranked, Overflowing, overflowed
    PROVE  Cardinality(Needed) > MaxInstantiations
<1>1. PICK m \in Nat : m = MaxInstantiations
  BY BuildAssumption
<1>2. Len(instances) = m /\ \E c \in Round(m) : c \notin Range(instances)
  BY <1>1, Zenon DEF Overflowing
<1>3. PICK c \in Round(m) : c \notin Range(instances)
  BY <1>2
<1>4. Needed = Round(m + 1) /\ m + 1 \in Nat
  BY <1>1 DEF Needed, Round, AskStep
<1>5. DOMAIN instances = 1..m /\ instances \in Seq(Instances)
  BY <1>2 DEF TypeOK
<1>6. PICK L : L = Range(instances)
  OBVIOUS
<1>7. L \subseteq Round(m + 1)
  <2> SUFFICES ASSUME NEW k \in 1..m PROVE instances[k] \in Round(m + 1)
    BY <1>5, <1>6 DEF Range
  <2>1. instances[k] \in Round(k - 1)
    BY <1>2 DEF Ranked
  <2>2. k - 1 \in Nat /\ k - 1 <= m + 1
    BY <1>1
  <2> QED
    BY <1>4, <2>1, <2>2, RoundFacts
<1>8. c \in Round(m + 1)
  <2>1. m <= m + 1
    OBVIOUS
  <2> QED
    BY <1>3, <1>4, <2>1, RoundFacts
<1>9. IsFiniteSet(L) /\ Cardinality(L) = m
  <2>1. PICK s : s = instances
    OBVIOUS
  <2>2. s \in [1..m -> L] /\ \A t \in L : \E x \in 1..m : s[x] = t
    BY <1>5, <1>6, <2>1 DEF Range
  <2>3. \A j, k \in 1..m : s[j] = s[k] => j = k
    BY <1>2, <2>1 DEF Ranked
  <2>4. IsFiniteSet(1..m) /\ Cardinality(1..m) = m
    BY FS_Interval
  <2>5. s \in Surjection(1..m, L)
    BY <2>2 DEF Surjection
  <2>6. s \in Injection(1..m, L)
    BY <2>2, <2>3 DEF Injection, IsInjective
  <2> QED
    BY <2>4, <2>5, <2>6, FS_Surjection
<1>10. IsFiniteSet(L \cup {c}) /\ Cardinality(L \cup {c}) = m + 1
  BY <1>3, <1>6, <1>9, FS_AddElement
<1>11. IsFiniteSet(Round(m + 1))
  BY <1>4, RoundFinite
<1>12. L \cup {c} \in SUBSET Round(m + 1)
  BY <1>7, <1>8
<1>13. Cardinality(L \cup {c}) <= Cardinality(Round(m + 1)) /\ Cardinality(Round(m + 1)) \in Nat
  BY <1>11, <1>12, FS_Subset, FS_CardinalityType
<1> QED
  BY <1>1, <1>4, <1>10, <1>13

(***************************************************************************)
(* For every module and every limit: the instances that mir_build makes    *)
(* are the ones some body calls, whichever way they ask for each other,    *)
(* each of them has one body, and the module is refused for asking for too *)
(* many only when it does.                                                 *)
(***************************************************************************)
THEOREM InstancesComplete == Spec => []InstancesAreComplete
<1> DEFINE Typed == program \in Programs /\ TypeOK
           Inv == Ranked /\ Overflowing /\ Progress
<1>1. Init => Inv
  BY InstancesAtInit
<1>2. Typed /\ Inv /\ [Next]_vars => Inv'
  <2> SUFFICES ASSUME Typed, Inv, [Next]_vars PROVE Inv'
    OBVIOUS
  <2> QED
    BY StepRanks, StepProgress
<1>3. Typed /\ Inv => InstancesAreComplete
  <2> SUFFICES ASSUME Typed, Inv, phase \in Later PROVE InstancesAreComplete
    BY DEF InstancesAreComplete, Later
  <2>1. CASE overflowed
    <3>1. Cardinality(Needed) > MaxInstantiations
      BY <2>1, OverflowIsRight
    <3> QED
      BY <2>1, <3>1, Zenon DEF InstancesAreComplete
  <2>2. CASE overflowed = FALSE
    <3>1. Range(instances) = Needed
      BY <2>2, ListIsNeeded
    <3>2. Made(Len(program.bodies), Len(instances)) /\ Len(instances) \in Nat
          /\ DOMAIN instances = 1..Len(instances)
      <4>1. instances \in Seq(Instances)
        BY DEF TypeOK
      <4>2. Made(Len(program.bodies), Len(instances))
        BY <2>2, ProgressIn
      <4> QED
        BY <4>1, <4>2
    <3>3. /\ IsInjective(entries)
          /\ \A j \in 1..Len(instances) : instances[j] \in Range(entries)
      <4>1. PICK n \in Nat : n = Len(instances)
        BY <3>2
      <4>2. n <= Len(instances) /\ \A j \in 1..Len(instances) : j <= n
        BY <4>1
      <4>3. Made(Len(program.bodies), n)
        BY <3>2, <4>1
      <4>4. /\ IsInjective(entries)
            /\ \A j \in 1..Len(instances) : instances[j] \in Range(entries) <=> j <= n
        BY <4>2, <4>3, EntriesDiffer
      <4> QED
        BY <4>2, <4>4
    <3>4. \A c \in Needed : c \in Range(entries)
      <4>1. \A c \in Range(instances) : \E j \in 1..Len(instances) : c = instances[j]
        BY <3>2 DEF Range
      <4> QED
        BY <3>1, <3>3, <4>1
    <3> QED
      BY <2>2, <3>1, <3>3, <3>4, Zenon DEF InstancesAreComplete
  <2>3. overflowed \in BOOLEAN
    BY DEF TypeOK
  <2> QED
    BY <2>1, <2>2, <2>3, Zenon
<1> HIDE DEF Inv
<1> QED
  BY <1>1, <1>2, <1>3, BuildTypeCorrect, PTL DEF Spec

-----------------------------------------------------------------------------
(***************************************************************************)
(* What the digests of interfaces guarantee, for every set of modules,     *)
(* imports, versions and texts.                                            *)
(***************************************************************************)
SymbolNames == Modules \X {Digest(t) : t \in Texts}

\* An object says truly what it was made of: it declares the interface it was
\* compiled from, unless it is a program's own, and requires those it read.
Truthful(o) ==
    /\ o.against \in [Modules -> Texts \cup {Nothing}]
    /\ \A d \in Deps(o.module) : o.against[d] \in Texts
    /\ o.declares = IF o.module \in Roots THEN Nothing ELSE Symbol(o.module, o.text)
    /\ o.requires = {Symbol(d, o.against[d]) : d \in Deps(o.module)}
    /\ Deps(o.module) \cap Roots = {}

PastReading == {"resolved", "writing", "written", "named", "linking"}

Running ==
    \A m \in Modules :
        /\ stage[m] # "idle" => compiling[m] \in AllSources
        /\ stage[m] \in PastReading => \A d \in Deps(m) : seen[m][d] \in Texts
        /\ stage[m] = "written" => file[m] = Interface[compiling[m]]
        /\ stage[m] = "named" =>
               symbol[m] = IF m \in Roots THEN Nothing ELSE Symbol(m, Interface[compiling[m]])
        /\ stage[m] \in {"idle", "reading", "resolved", "writing", "written"} => symbol[m] = Nothing

RootsHaveNoInterface ==
    \A m \in Roots : /\ file[m] = Nothing
                     /\ open[m] = FALSE
                     /\ stage[m] \in {"idle", "reading", "named", "linking"}

ImportsHadOne == \A m \in Modules : \A d \in Deps(m) : seen[m][d] # Nothing => d \notin Roots

ObjectsAreTruthful == \A m \in Modules : object[m] # Nothing => Truthful(object[m])

LinksAreTruthful ==
    \A m \in Modules :
        /\ \A o \in linked[m] : Truthful(o)
        /\ Resolves(linked[m])
        /\ \A o \in refused[m] : Truthful(o)
        /\ refused[m] # {} => ~Resolves(refused[m])

\* What the runs of the compiler know and have left: the strengthening under
\* which the properties are inductive.
BuildsInv ==
    /\ BuildsTypeOK
    /\ Running
    /\ RootsHaveNoInterface
    /\ ImportsHadOne
    /\ ObjectsAreTruthful
    /\ LinksAreTruthful

-----------------------------------------------------------------------------
\* What a module imports are modules.
LEMMA DepsAreModules == \A m \in Modules : Deps(m) \subseteq Modules
  BY BuildsAssumption DEF Deps

\* interface_symbol gives a name.
LEMMA SymbolsAreNames == \A m \in Modules : \A t \in Texts : Symbol(m, t) \in SymbolNames
  BY DEF Symbol, SymbolNames

\* An object without an interface cannot be taken for one that declares a symbol.
LEMMA NothingIsNoName == Nothing \notin SymbolNames
  BY BuildsAssumption DEF SymbolNames, Digest

\* The objects a link is given are objects that exist, and so is every one of
\* the modules it takes.
LEMMA GivenObjects ==
  ASSUME BuildsTypeOK, ObjectsAreTruthful, NEW m \in Modules
  PROVE  Given(m) \subseteq Objects /\ \A o \in Given(m) : Truthful(o)
<1>1. Extra(m) \subseteq Modules
  BY BuildsAssumption DEF Extra
<1>2. \A o \in Given(m) : \E d \in Modules : o = object[d] /\ o # Nothing
  BY <1>1 DEF Given
<1>3. QED
  BY <1>2 DEF BuildsTypeOK, ObjectsAreTruthful

\* The initial state satisfies the invariant.
LEMMA BuildsInitInv == BuildsInit => BuildsInv
<1> SUFFICES ASSUME BuildsInit PROVE BuildsInv
  OBVIOUS
<1> USE DEF BuildsInit
<1>1. BuildsTypeOK
  BY DEF BuildsTypeOK, Stages
<1>2. Running
  BY DEF Running, PastReading
<1>3. RootsHaveNoInterface
  BY BuildsAssumption DEF RootsHaveNoInterface
<1>4. ImportsHadOne /\ ObjectsAreTruthful
  BY DepsAreModules DEF ImportsHadOne, ObjectsAreTruthful
<1>5. LinksAreTruthful
  BY DEF LinksAreTruthful, Resolves
<1>6. QED
  BY <1>1, <1>2, <1>3, <1>4, <1>5 DEF BuildsInv
-----------------------------------------------------------------------------
\* A run that begins knows nothing yet.
LEMMA StartInv ==
  ASSUME BuildsInv, NEW m \in Modules, Start(m)
  PROVE  BuildsInv'
<1> USE DEF BuildsInv, Start
<1>a. compiling'[m] \in AllSources
  BY DEF AllSources, BuildsTypeOK
<1>b. Resolves({})
  BY DEF Resolves
<1>1. BuildsTypeOK'
  BY BuildsAssumption, DepsAreModules, SymbolsAreNames DEF BuildsTypeOK, Stages, AllSources
<1>2. Running'
  BY <1>a DEF Running, BuildsTypeOK, Stages, PastReading
<1>3. RootsHaveNoInterface'
  BY BuildsAssumption, DepsAreModules, SymbolsAreNames DEF RootsHaveNoInterface, BuildsTypeOK, Stages
<1>4. ImportsHadOne'
  BY BuildsAssumption, DepsAreModules, SymbolsAreNames DEF ImportsHadOne, BuildsTypeOK
<1>5. ObjectsAreTruthful'
  BY BuildsAssumption, DepsAreModules, SymbolsAreNames DEF ObjectsAreTruthful, BuildsTypeOK
<1>6. LinksAreTruthful'
  BY <1>b DEF LinksAreTruthful, BuildsTypeOK
<1>7. QED
  BY <1>1, <1>2, <1>3, <1>4, <1>5, <1>6 DEF BuildsInv

\* What a run reads is a text of a module that is no program's own.
LEMMA ReadInterfaceInv ==
  ASSUME BuildsInv, NEW m \in Modules, NEW i \in DOMAIN Imports[m], ReadInterface(m, i)
  PROVE  BuildsInv'
<1> USE DEF BuildsInv, ReadInterface
<1>0. Imports[m][i] \in Modules
  BY BuildsAssumption
<1>1. BuildsTypeOK'
  BY <1>0, DepsAreModules, SymbolsAreNames DEF Contents, BuildsTypeOK, Stages
<1>2. Running'
  BY <1>0, DepsAreModules, SymbolsAreNames DEF Running, BuildsTypeOK, Stages, PastReading
<1>3. RootsHaveNoInterface'
  BY <1>0, DepsAreModules, SymbolsAreNames DEF RootsHaveNoInterface, BuildsTypeOK, Stages
<1>4. ImportsHadOne'
  BY <1>0, DepsAreModules, SymbolsAreNames DEF Contents, RootsHaveNoInterface, ImportsHadOne, BuildsTypeOK
<1>5. ObjectsAreTruthful'
  BY <1>0, DepsAreModules, SymbolsAreNames DEF ObjectsAreTruthful, BuildsTypeOK
<1>6. LinksAreTruthful'
  BY <1>0, DepsAreModules, SymbolsAreNames DEF LinksAreTruthful, BuildsTypeOK
<1>7. QED
  BY <1>1, <1>2, <1>3, <1>4, <1>5, <1>6 DEF BuildsInv

\* A run goes on only with every import read.
LEMMA ResolveInv ==
  ASSUME BuildsInv, NEW m \in Modules, Resolve(m)
  PROVE  BuildsInv'
<1> USE DEF BuildsInv, Resolve
<1>1. BuildsTypeOK'
  BY BuildsAssumption, DepsAreModules, SymbolsAreNames DEF BuildsTypeOK, Stages
<1>2. Running'
  BY BuildsAssumption, DepsAreModules, SymbolsAreNames DEF Running, BuildsTypeOK, Stages, PastReading
<1>3. RootsHaveNoInterface'
  BY BuildsAssumption, DepsAreModules, SymbolsAreNames DEF RootsHaveNoInterface, BuildsTypeOK, Stages
<1>4. ImportsHadOne'
  BY BuildsAssumption, DepsAreModules, SymbolsAreNames DEF ImportsHadOne, BuildsTypeOK
<1>5. ObjectsAreTruthful'
  BY BuildsAssumption, DepsAreModules, SymbolsAreNames DEF ObjectsAreTruthful, BuildsTypeOK
<1>6. LinksAreTruthful'
  BY BuildsAssumption, DepsAreModules, SymbolsAreNames DEF LinksAreTruthful, BuildsTypeOK
<1>7. QED
  BY <1>1, <1>2, <1>3, <1>4, <1>5, <1>6 DEF BuildsInv

\* An interface being written is no one's yet.
LEMMA OpenInterfaceInv ==
  ASSUME BuildsInv, NEW m \in Modules, OpenInterface(m)
  PROVE  BuildsInv'
<1> USE DEF BuildsInv, OpenInterface
<1>1. BuildsTypeOK'
  BY BuildsAssumption, DepsAreModules, SymbolsAreNames DEF BuildsTypeOK, Stages
<1>2. Running'
  BY BuildsAssumption, DepsAreModules, SymbolsAreNames DEF Running, BuildsTypeOK, Stages, PastReading
<1>3. RootsHaveNoInterface'
  BY BuildsAssumption, DepsAreModules, SymbolsAreNames DEF RootsHaveNoInterface, BuildsTypeOK, Stages
<1>4. ImportsHadOne'
  BY BuildsAssumption, DepsAreModules, SymbolsAreNames DEF ImportsHadOne, BuildsTypeOK
<1>5. ObjectsAreTruthful'
  BY BuildsAssumption, DepsAreModules, SymbolsAreNames DEF ObjectsAreTruthful, BuildsTypeOK
<1>6. LinksAreTruthful'
  BY BuildsAssumption, DepsAreModules, SymbolsAreNames DEF LinksAreTruthful, BuildsTypeOK
<1>7. QED
  BY <1>1, <1>2, <1>3, <1>4, <1>5, <1>6 DEF BuildsInv

\* A finished interface is that of the version compiled.
LEMMA CloseInterfaceInv ==
  ASSUME BuildsInv, NEW m \in Modules, CloseInterface(m)
  PROVE  BuildsInv'
<1> USE DEF BuildsInv, CloseInterface
<1>0. Interface[compiling[m]] \in Texts
  BY BuildsAssumption DEF Running
<1>1. BuildsTypeOK'
  BY <1>0, BuildsAssumption, DepsAreModules, SymbolsAreNames DEF BuildsTypeOK, Running, Stages
<1>2. Running'
  BY <1>0, BuildsAssumption, DepsAreModules, SymbolsAreNames DEF Running, BuildsTypeOK, Stages, PastReading
<1>3. RootsHaveNoInterface'
  BY <1>0, BuildsAssumption, DepsAreModules, SymbolsAreNames DEF RootsHaveNoInterface, BuildsTypeOK, Stages
<1>4. ImportsHadOne'
  BY <1>0, BuildsAssumption, DepsAreModules, SymbolsAreNames DEF ImportsHadOne, BuildsTypeOK
<1>5. ObjectsAreTruthful'
  BY <1>0, BuildsAssumption, DepsAreModules, SymbolsAreNames DEF ObjectsAreTruthful, BuildsTypeOK
<1>6. LinksAreTruthful'
  BY <1>0, BuildsAssumption, DepsAreModules, SymbolsAreNames DEF LinksAreTruthful, BuildsTypeOK
<1>7. QED
  BY <1>1, <1>2, <1>3, <1>4, <1>5, <1>6 DEF BuildsInv

\* The name given to the object is that of the interface just written.
LEMMA ReadBackInv ==
  ASSUME BuildsInv, NEW m \in Modules, ReadBack(m)
  PROVE  BuildsInv'
<1> USE DEF BuildsInv, ReadBack
<1>0. file[m] \in Texts /\ Symbol(m, file[m]) \in SymbolNames
  BY BuildsAssumption, SymbolsAreNames DEF Running
<1>1. BuildsTypeOK'
  BY <1>0, BuildsAssumption DEF SymbolNames, RootsHaveNoInterface, BuildsTypeOK, Stages
<1>2. Running'
  BY <1>0, BuildsAssumption DEF SymbolNames, RootsHaveNoInterface, Running, BuildsTypeOK, Stages, PastReading
<1>3. RootsHaveNoInterface'
  BY <1>0, BuildsAssumption DEF SymbolNames, RootsHaveNoInterface, RootsHaveNoInterface, BuildsTypeOK, Stages
<1>4. ImportsHadOne'
  BY <1>0, BuildsAssumption DEF SymbolNames, RootsHaveNoInterface, ImportsHadOne, BuildsTypeOK
<1>5. ObjectsAreTruthful'
  BY <1>0, BuildsAssumption DEF SymbolNames, RootsHaveNoInterface, ObjectsAreTruthful, BuildsTypeOK
<1>6. LinksAreTruthful'
  BY <1>0, BuildsAssumption DEF SymbolNames, RootsHaveNoInterface, LinksAreTruthful, BuildsTypeOK
<1>7. QED
  BY <1>1, <1>2, <1>3, <1>4, <1>5, <1>6 DEF BuildsInv

\* An object written is truthful.
LEMMA WriteObjectInv ==
  ASSUME BuildsInv, NEW m \in Modules, WriteObject(m)
  PROVE  BuildsInv'
<1> USE DEF BuildsInv, WriteObject, End
<1>a. Interface[compiling[m]] \in Texts
  BY BuildsAssumption DEF Running
<1>b. \A d \in Deps(m) : seen[m][d] \in Texts
  BY DEF Running, PastReading
<1>c. Object(m) \in Objects
  <2>1. {Symbol(d, seen[m][d]) : d \in Deps(m)} \subseteq SymbolNames
    BY <1>b, DepsAreModules, SymbolsAreNames
  <2>2. QED
    BY <1>a, <2>1 DEF Object, Objects, BuildsTypeOK, SymbolNames
<1>d. Truthful(Object(m))
  <2>1. Deps(m) \cap Roots = {}
    BY <1>b, BuildsAssumption, DepsAreModules DEF ImportsHadOne
  <2>2. symbol[m] = IF m \in Roots THEN Nothing ELSE Symbol(m, Interface[compiling[m]])
    BY DEF Running
  <2>3. QED
    BY <1>b, <2>1, <2>2 DEF Object, Truthful, BuildsTypeOK
<1>e. /\ compiling' \in [Modules -> AllSources \cup {Nothing}]
      /\ seen' \in [Modules -> [Modules -> Texts \cup {Nothing}]]
      /\ symbol' \in [Modules -> {Nothing} \cup SymbolNames]
      /\ stage' \in [Modules -> Stages]
  <2>1. CASE m \in Roots
    BY <2>1 DEF BuildsTypeOK, SymbolNames, Stages
  <2>2. CASE m \notin Roots
    BY <2>2 DEF BuildsTypeOK, SymbolNames, Stages
  <2>3. QED
    BY <2>1, <2>2
<1>1. BuildsTypeOK'
  BY <1>c, <1>e DEF BuildsTypeOK, SymbolNames
<1>2. Running'
  <2>1. CASE m \in Roots
    BY <2>1 DEF Running, BuildsTypeOK, PastReading
  <2>2. CASE m \notin Roots
    BY <2>2 DEF Running, BuildsTypeOK, PastReading
  <2>3. QED
    BY <2>1, <2>2
<1>3. RootsHaveNoInterface'
  BY BuildsAssumption DEF RootsHaveNoInterface, BuildsTypeOK
<1>4. ImportsHadOne'
  <2>1. CASE m \in Roots
    BY <2>1 DEF ImportsHadOne
  <2>2. CASE m \notin Roots
    BY <2>2, DepsAreModules DEF ImportsHadOne, BuildsTypeOK
  <2>3. QED
    BY <2>1, <2>2
<1>5. ObjectsAreTruthful'
  BY <1>d DEF ObjectsAreTruthful, BuildsTypeOK
<1>6. LinksAreTruthful'
  BY DEF LinksAreTruthful
<1>7. QED
  BY <1>1, <1>2, <1>3, <1>4, <1>5, <1>6 DEF BuildsInv

\* A run that ends early leaves texts, and objects that are truthful or gone.
LEMMA GiveUpInv ==
  ASSUME BuildsInv, NEW m \in Modules, GiveUp(m)
  PROVE  BuildsInv'
<1> USE DEF BuildsInv, GiveUp, End
<1>1. BuildsTypeOK'
  BY BuildsAssumption, DepsAreModules, SymbolsAreNames DEF BuildsTypeOK, Stages
<1>2. Running'
  BY BuildsAssumption, DepsAreModules, SymbolsAreNames DEF Running, BuildsTypeOK, Stages, PastReading
<1>3. RootsHaveNoInterface'
  BY BuildsAssumption, DepsAreModules, SymbolsAreNames DEF RootsHaveNoInterface, BuildsTypeOK, Stages
<1>4. ImportsHadOne'
  BY BuildsAssumption, DepsAreModules, SymbolsAreNames DEF ImportsHadOne, BuildsTypeOK
<1>5. ObjectsAreTruthful'
  BY BuildsAssumption, DepsAreModules, SymbolsAreNames DEF ObjectsAreTruthful, BuildsTypeOK
<1>6. LinksAreTruthful'
  BY BuildsAssumption, DepsAreModules, SymbolsAreNames DEF LinksAreTruthful, BuildsTypeOK
<1>7. QED
  BY <1>1, <1>2, <1>3, <1>4, <1>5, <1>6 DEF BuildsInv

\* A link takes objects that are truthful.
LEMMA LinkInv ==
  ASSUME BuildsInv, NEW m \in Modules, Link(m)
  PROVE  BuildsInv'
<1> USE DEF BuildsInv, Link, End
<1>0. Given(m) \subseteq Objects /\ \A o \in Given(m) : Truthful(o)
  BY GivenObjects
<1>1. BuildsTypeOK'
  BY <1>0 DEF BuildsTypeOK, Stages
<1>2. Running'
  BY BuildsAssumption, DepsAreModules, SymbolsAreNames DEF Running, BuildsTypeOK, Stages, PastReading
<1>3. RootsHaveNoInterface'
  BY BuildsAssumption, DepsAreModules, SymbolsAreNames DEF RootsHaveNoInterface, BuildsTypeOK, Stages
<1>4. ImportsHadOne'
  BY BuildsAssumption, DepsAreModules, SymbolsAreNames DEF ImportsHadOne, BuildsTypeOK
<1>5. ObjectsAreTruthful'
  BY BuildsAssumption, DepsAreModules, SymbolsAreNames DEF ObjectsAreTruthful, BuildsTypeOK
<1>6. LinksAreTruthful'
  BY <1>0 DEF LinksAreTruthful, BuildsTypeOK
<1>7. QED
  BY <1>1, <1>2, <1>3, <1>4, <1>5, <1>6 DEF BuildsInv

\* Every step preserves the invariant.
LEMMA BuildsNextInv == BuildsInv /\ [BuildsNext]_buildsVars => BuildsInv'
<1> SUFFICES ASSUME BuildsInv, [BuildsNext]_buildsVars PROVE BuildsInv'
  OBVIOUS
<1>1. CASE UNCHANGED buildsVars
  BY <1>1 DEF buildsVars, BuildsInv, BuildsTypeOK, Running, RootsHaveNoInterface, ImportsHadOne,
     ObjectsAreTruthful, LinksAreTruthful
<1>2. CASE BuildsNext
  BY <1>2, StartInv, ReadInterfaceInv, ResolveInv, OpenInterfaceInv, CloseInterfaceInv,
     ReadBackInv, WriteObjectInv, GiveUpInv, LinkInv DEF BuildsNext
<1>3. QED
  BY <1>1, <1>2

\* The files, the runs of the compiler and the programs stay of their kinds,
\* for every set of modules, imports and versions.
THEOREM BuildsTypeCorrect == BuildsSpec => []BuildsTypeOK
<1>1. BuildsInv => BuildsTypeOK
  BY DEF BuildsInv
<1>2. QED
  BY BuildsInitInv, BuildsNextInv, <1>1, PTL DEF BuildsSpec

-----------------------------------------------------------------------------
\* Objects that declare each other's symbols were compiled from the texts the
\* others read, if no two texts have one digest.
LEMMA ResolvedIsMatched ==
  ASSUME DigestTellsTextsApart, NEW objects \in SUBSET Objects,
         \A o \in objects : Truthful(o), Resolves(objects)
  PROVE  Matched(objects)
<1> SUFFICES ASSUME NEW o \in objects, NEW d \in Deps(o.module)
             PROVE  \E p \in objects : p.module = d /\ p.text = o.against[d]
  BY DEF Matched
<1>1. o.module \in Modules /\ d \in Modules /\ o.against[d] \in Texts
  BY DepsAreModules DEF Objects, Truthful
<1>2. Symbol(d, o.against[d]) \in o.requires
  BY DEF Truthful
<1>3. PICK p \in objects : p.declares = Symbol(d, o.against[d])
  BY <1>2 DEF Resolves
<1>4. p.declares # Nothing
  BY <1>1, <1>3, SymbolsAreNames, NothingIsNoName
<1>5. p.declares = Symbol(p.module, p.text)
  BY <1>4 DEF Truthful
<1>6. p.module = d /\ Digest(p.text) = Digest(o.against[d])
  BY <1>3, <1>5 DEF Symbol
<1>7. p.text \in Texts
  BY DEF Objects
<1>8. QED
  BY <1>1, <1>6, <1>7 DEF DigestTellsTextsApart

\* Objects compiled from the texts the others read declare each other's
\* symbols, whatever the digest.
LEMMA MatchedIsResolved ==
  ASSUME NEW objects \in SUBSET Objects, \A o \in objects : Truthful(o), Matched(objects)
  PROVE  Resolves(objects)
<1> SUFFICES ASSUME NEW o \in objects, NEW s \in o.requires
             PROVE  \E p \in objects : p.declares = s
  BY DEF Resolves
<1>1. PICK d \in Deps(o.module) : s = Symbol(d, o.against[d])
  BY DEF Truthful
<1>2. PICK p \in objects : p.module = d /\ p.text = o.against[d]
  BY DEF Matched
<1>3. d \notin Roots
  BY DEF Truthful
<1>4. p.declares = Symbol(d, o.against[d])
  BY <1>2, <1>3 DEF Truthful
<1>5. QED
  BY <1>1, <1>4

\* However runs of the compiler overlap, fail and are repeated, no program
\* holds an object compiled against an interface that is not the one the
\* linked object was compiled from, if the digest tells texts apart.
THEOREM StalePairsAreRefused ==
  ASSUME DigestTellsTextsApart
  PROVE  BuildsSpec => []NoStalePair
<1>1. BuildsInv => NoStalePair
  BY ResolvedIsMatched DEF BuildsInv, BuildsTypeOK, LinksAreTruthful, NoStalePair
<1>2. QED
  BY BuildsInitInv, BuildsNextInv, <1>1, PTL DEF BuildsSpec

\* A link refused for an interface's symbol never held matching objects of
\* every import, whatever the digest.
THEOREM RefusalsAreRight == BuildsSpec => []RefusedForAReason
<1>1. BuildsInv => RefusedForAReason
  BY MatchedIsResolved DEF BuildsInv, BuildsTypeOK, LinksAreTruthful, RefusedForAReason
<1>2. QED
  BY BuildsInitInv, BuildsNextInv, <1>1, PTL DEF BuildsSpec
=============================================================================
