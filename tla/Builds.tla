------------------------------- MODULE Builds -------------------------------
(***************************************************************************)
(* Separate compilation (driver/main.c, driver/compile.c, driver/link.c):  *)
(* the compiler runs once per module, reads the interfaces its imports     *)
(* left, leaves an interface and an object, and the last run links the     *)
(* objects beside the interfaces it imported.                              *)
(*                                                                         *)
(* Sources are edited and runs for different modules overlap, in any       *)
(* order; a run may fail or be killed at any point.  Two runs for the same *)
(* module at once are left out, and so are a full disk and files removed   *)
(* behind the compiler's back.                                             *)
(*                                                                         *)
(* An interface text is [stated, rest]: rest is what follows a // in the   *)
(* line that has one, which gab_interface_digest skips.                    *)
(***************************************************************************)
EXTENDS Naturals, Sequences

CONSTANTS Modules,      \* the modules of a program
          Roots,        \* those compiled to a program: without -c
          Imports,      \* the modules each names with --import, in order
          Sources,      \* the versions of each module's source
          Interface,    \* the text gab_interface_print makes of each version
          Texts,        \* interface texts, those a reader may find half written too
          MaxExtra,     \* files a link takes: the size of extra in main
          Nothing       \* no file, no value

AllSources == UNION {Sources[m] : m \in Modules}

ASSUME BuildsAssumption ==
    /\ Roots \subseteq Modules
    /\ Imports \in [Modules -> Seq(Modules)]
    /\ DOMAIN Sources = Modules
    /\ Interface \in [AllSources -> Texts]
    /\ MaxExtra \in Nat
    /\ Nothing \notin Texts
    /\ \A t \in Texts : \A m \in Modules : Nothing # <<m, t.stated>>

VARIABLES file,       \* the interface of each module: a text, or Nothing
          open,       \* whether it is being written
          object,     \* the object of each module, or Nothing
          stage,      \* where the run of the compiler for each module is
          compiling,  \* the version it read
          seen,       \* the interface texts it read, of its imports
          symbol,     \* the name of its own interface it gave to the object
          linked,     \* the objects in the program each root last made
          refused     \* the objects a root last failed to link

buildsVars == <<file, open, object, stage, compiling, seen, symbol, linked, refused>>

Deps(m) == {Imports[m][i] : i \in DOMAIN Imports[m]}

\* gab_interface_digest.
Digest(text) == text.stated

\* Mutant: the parts of the name the other way round.
SymbolSwapped(m, text) == <<Digest(text), m>>

\* gab_interface_symbol: the name an object declares or requires.
Symbol(m, text) == <<m, Digest(text)>>

\* What a reader of a file finds: what was written, or any part of it so far.
Contents(m) == IF open[m] THEN Texts ELSE {file[m]} \ {Nothing}

Stages == {"idle", "reading", "resolved", "writing", "written", "named", "linking"}

-----------------------------------------------------------------------------
BuildsInit ==
    /\ file = [m \in Modules |-> Nothing]
    /\ open = [m \in Modules |-> FALSE]
    /\ object = [m \in Modules |-> Nothing]
    /\ stage = [m \in Modules |-> "idle"]
    /\ compiling = [m \in Modules |-> Nothing]
    /\ seen = [m \in Modules |-> [d \in Modules |-> Nothing]]
    /\ symbol = [m \in Modules |-> Nothing]
    /\ linked = [m \in Modules |-> {}]
    /\ refused = [m \in Modules |-> {}]

\* main: the sources are read before anything else, at whatever version the
\* last edit left them.
Start(m) ==
    /\ stage[m] = "idle"
    /\ stage' = [stage EXCEPT ![m] = "reading"]
    /\ \E version \in Sources[m] : compiling' = [compiling EXCEPT ![m] = version]
    /\ linked' = [linked EXCEPT ![m] = {}]
    /\ refused' = [refused EXCEPT ![m] = {}]
    /\ UNCHANGED <<file, open, object, seen, symbol>>

\* The end of a run, and of everything it held in memory.
End(m) ==
    /\ stage' = [stage EXCEPT ![m] = "idle"]
    /\ compiling' = [compiling EXCEPT ![m] = Nothing]
    /\ seen' = [seen EXCEPT ![m] = [d \in Modules |-> Nothing]]
    /\ symbol' = [symbol EXCEPT ![m] = Nothing]

\* main: then the interface of every import, in order.
ReadInterface(m, i) ==
    LET d == Imports[m][i] IN
    /\ stage[m] = "reading"
    /\ seen[m][d] = Nothing
    /\ \A j \in 1..i - 1 : seen[m][Imports[m][j]] # Nothing
    /\ \E text \in Contents(d) : seen' = [seen EXCEPT ![m][d] = text]
    /\ UNCHANGED <<file, open, object, stage, compiling, symbol, linked, refused>>

\* gab_compile: the interfaces are parsed and the module is resolved and
\* lowered, if nothing in them is wrong.
Resolve(m) ==
    /\ stage[m] = "reading"
    /\ \A d \in Deps(m) : seen[m][d] # Nothing
    /\ stage' = [stage EXCEPT ![m] = IF m \in Roots THEN "named" ELSE "resolved"]
    /\ UNCHANGED <<file, open, object, compiling, seen, symbol, linked, refused>>

\* gab_interface_write: the file is emptied, and whole again once closed.
OpenInterface(m) ==
    /\ stage[m] = "resolved"
    /\ stage' = [stage EXCEPT ![m] = "writing"]
    /\ file' = [file EXCEPT ![m] = Nothing]
    /\ open' = [open EXCEPT ![m] = TRUE]
    /\ UNCHANGED <<object, compiling, seen, symbol, linked, refused>>

CloseInterface(m) ==
    /\ stage[m] = "writing"
    /\ stage' = [stage EXCEPT ![m] = "written"]
    /\ file' = [file EXCEPT ![m] = Interface[compiling[m]]]
    /\ open' = [open EXCEPT ![m] = FALSE]
    /\ UNCHANGED <<object, compiling, seen, symbol, linked, refused>>

\* Mutant: the object does not name its interface.
ReadBackForgets(m) ==
    /\ stage[m] = "written"
    /\ stage' = [stage EXCEPT ![m] = "named"]
    /\ UNCHANGED <<file, open, object, compiling, seen, symbol, linked, refused>>

\* gab_compile: the text is read back, and its digest named in the object.
ReadBack(m) ==
    /\ stage[m] = "written"
    /\ stage' = [stage EXCEPT ![m] = "named"]
    /\ symbol' = [symbol EXCEPT ![m] = Symbol(m, file[m])]
    /\ UNCHANGED <<file, open, object, compiling, seen, linked, refused>>

\* Mutant: requires the interfaces found there now.
ObjectRereads(m) ==
    [module |-> m,
     declares |-> symbol[m],
     requires |-> {Symbol(d, IF file[d] = Nothing THEN seen[m][d] ELSE file[d]) : d \in Deps(m)},
     text |-> Interface[compiling[m]],
     against |-> seen[m]]

\* llvm_unit_write_object.  What the code in the object was made of is
\* recorded with it: `text`, its own interface, and `against`, those it read.
Object(m) ==
    [module |-> m,
     declares |-> symbol[m],
     requires |-> {Symbol(d, seen[m][d]) : d \in Deps(m)},
     text |-> Interface[compiling[m]],
     against |-> seen[m]]

WriteObject(m) ==
    /\ stage[m] = "named"
    /\ object' = [object EXCEPT ![m] = Object(m)]
    /\ IF m \in Roots
       THEN stage' = [stage EXCEPT ![m] = "linking"] /\ UNCHANGED <<compiling, seen, symbol>>
       ELSE End(m)
    /\ UNCHANGED <<file, open, linked, refused>>

\* A run that reports an error, or is killed, leaves what it has written: part
\* of an interface, or of an object, which no linker takes.
GiveUp(m) ==
    /\ stage[m] # "idle"
    /\ End(m)
    /\ \E left \in IF open[m] THEN Texts ELSE {file[m]} : file' = [file EXCEPT ![m] = left]
    /\ open' = [open EXCEPT ![m] = FALSE]
    /\ \E left \in {object[m]} \cup (IF stage[m] = "named" THEN {Nothing} ELSE {}) :
           object' = [object EXCEPT ![m] = left]
    /\ UNCHANGED <<linked, refused>>

\* main: the objects beside the interfaces imported, as many as fit, are
\* linked with the one just written; gab_link succeeds if every symbol they
\* require is declared among them.
Extra(m) == {Imports[m][i] : i \in {j \in DOMAIN Imports[m] : j <= MaxExtra}}
Given(m) == {object[d] : d \in {m} \cup Extra(m)} \ {Nothing}

Resolves(objects) ==
    \A o \in objects : \A s \in o.requires : \E p \in objects : p.declares = s

Link(m) ==
    /\ stage[m] = "linking"
    /\ End(m)
    /\ IF \A d \in Extra(m) : object[d] # Nothing
       THEN IF Resolves(Given(m))
            THEN linked' = [linked EXCEPT ![m] = Given(m)] /\ UNCHANGED refused
            ELSE refused' = [refused EXCEPT ![m] = Given(m)] /\ UNCHANGED linked
       ELSE UNCHANGED <<linked, refused>>
    /\ UNCHANGED <<file, open, object>>

BuildsNext ==
    \E m \in Modules :
        \/ Start(m) \/ Resolve(m) \/ OpenInterface(m) \/ CloseInterface(m)
        \/ ReadBack(m) \/ WriteObject(m) \/ GiveUp(m) \/ Link(m)
        \/ \E i \in DOMAIN Imports[m] : ReadInterface(m, i)

BuildsSpec == BuildsInit /\ [][BuildsNext]_buildsVars

-----------------------------------------------------------------------------
Objects ==
    [module : Modules,
     declares : {Nothing} \cup (Modules \X {Digest(t) : t \in Texts}),
     requires : SUBSET (Modules \X {Digest(t) : t \in Texts}),
     text : Texts,
     against : [Modules -> Texts \cup {Nothing}]]

BuildsTypeOK ==
    /\ file \in [Modules -> Texts \cup {Nothing}]
    /\ open \in [Modules -> BOOLEAN]
    /\ object \in [Modules -> Objects \cup {Nothing}]
    /\ stage \in [Modules -> Stages]
    /\ compiling \in [Modules -> AllSources \cup {Nothing}]
    /\ seen \in [Modules -> [Modules -> Texts \cup {Nothing}]]
    /\ symbol \in [Modules -> {Nothing} \cup (Modules \X {Digest(t) : t \in Texts})]
    /\ linked \in [Modules -> SUBSET Objects]
    /\ refused \in [Modules -> SUBSET Objects]

\* No two texts differ only behind a //.
DigestTellsTextsApart == \A t, u \in Texts : Digest(t) = Digest(u) => t = u

\* What an object was compiled against is what the object of that module,
\* among these, was compiled from.
Matched(objects) ==
    \A o \in objects : \A d \in Deps(o.module) :
        \E p \in objects : p.module = d /\ p.text = o.against[d]

\* An interface and the object it was compiled from name each other, so a
\* stale pair cannot be linked (gab_interface_symbol, gab_link).
NoStalePair == \A m \in Modules : Matched(linked[m])

\* A link refused for a digest has a stale pair, or an import whose object
\* did not fit on the command line.
RefusedForAReason == \A m \in Modules : refused[m] # {} => ~Matched(refused[m])
=============================================================================
