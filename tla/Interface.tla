----------------------------- MODULE Interface -----------------------------
(***************************************************************************)
(* The interface of a module (driver/interface.c): the files of a module   *)
(* are parsed, what it declares is written as text, and that text is what  *)
(* a module that imports it parses.                                        *)
(*                                                                         *)
(* The text is written here as the tokens the lexer reads in it.  Where    *)
(* two pieces of text stand side by side with no blank between them and    *)
(* the lexer reads them as one token, that token is what is written.       *)
(***************************************************************************)
EXTENDS Parser, FiniteSetsExt, SequencesExt

CONSTANTS Modules,    \* the modules: sets of sequences of files, a file being its tokens
          Whole,      \* the float values "%.9g" writes without a point ...
          Scientific, \* ... and those it writes with an exponent
          Unescaped   \* for the strings that hold what only an escape can say,
                      \* the string lexer_string reads in their text as it
                      \* stands: cut short at a NUL, or with a backslash taken
                      \* for an escape; "" if a line break, a quote or no
                      \* escape makes it no string

VARIABLES sources,    \* the files of the module
          parsed,     \* those parsed so far
          read        \* whether the text being parsed is the interface

interfaceVars == <<sources, parsed, read>>
vars == <<parserVars, interfaceVars>>

Commas(lists) == FlattenSeq([i \in DOMAIN lists |->
                                IF i = 1 THEN lists[i] ELSE <<Mark(",")>> \o lists[i]])

-----------------------------------------------------------------------------
RECURSIVE PrintType(_), PrintExpr(_), PrintStmt(_)

PrintTypes(types) == Commas([i \in DOMAIN types |-> PrintType(types[i])])

\* A '&' written right before another makes '&&'.
PrintType(t) ==
    IF t.kind = "null" THEN <<>>
    ELSE IF t.kind = "named"
    THEN (IF t.qualifier = "" THEN <<>> ELSE <<Ident(t.qualifier), Mark("::")>>) \o <<Ident(t.name)>>
    ELSE IF t.kind = "ref"
    THEN IF t.inner.kind = "ref" THEN <<Mark("&&")>> \o PrintType(t.inner.inner)
         ELSE <<Mark("&")>> \o PrintType(t.inner)
    ELSE IF t.kind = "raw" THEN <<Mark("*")>> \o PrintType(t.inner)
    ELSE IF t.kind = "const" THEN <<Token("INT", t.value)>>
    ELSE PrintType(t.base) \o <<Mark("<")>> \o PrintTypes(t.args) \o <<Mark(">")>>

PrintParams(params) ==
    IF params = <<>> THEN <<>>
    ELSE <<Mark("<")>>
         \o Commas([i \in DOMAIN params |->
                <<Ident(params[i].name)>>
                    \o (IF params[i].bound = Null THEN <<>>
                        ELSE <<Mark(":")>> \o PrintType(params[i].bound))])
         \o <<Mark(">")>>

Unbounded(names) == [i \in DOMAIN names |-> [name |-> names[i], bound |-> Null]]

PrintFields(fields) ==
    [i \in DOMAIN fields |-> <<Ident(fields[i].name), Mark(":")>> \o PrintType(fields[i].type)]

-----------------------------------------------------------------------------
(***************************************************************************)
(* print_literal.  A float that is whole is written without its point; the *)
(* lexer has no exponents and ends the number before one; and a string is  *)
(* written with no escapes.                                                *)
(***************************************************************************)
PrintLiteral(e) ==
    IF e.type = "FLOAT" /\ e.value \in Whole THEN <<Token("INT", e.value)>>
    ELSE IF e.type = "FLOAT" /\ e.value \in Scientific
    THEN <<Token("INT", e.value), Ident("e"), Mark("+"), Token("INT", e.value)>>
    ELSE IF e.type = "STRING" /\ e.value \in DOMAIN Unescaped
    THEN IF Unescaped[e.value] = "" THEN <<Mark("INVALID")>>
         ELSE <<Token("STRING", Unescaped[e.value])>>
    ELSE <<Token(e.type, e.value)>>

PrintArgs(args) ==
    <<Mark("(")>> \o Commas([i \in DOMAIN args |-> PrintExpr(args[i])]) \o <<Mark(")")>>

Prefix(kind) == IF kind = "deref" THEN "*" ELSE IF kind = "neg" THEN "-" ELSE "!"

\* An integer written right before a '.' is read as a float.
PrintField(e) ==
    LET target == PrintExpr(e.target)
        last == Last(target)
    IN  IF last.type = "INT" THEN Front(target) \o <<Token("FLOAT", last.value), Ident(e.name)>>
        ELSE target \o <<Mark("."), Ident(e.name)>>

PrintExpr(e) ==
    IF e.kind = "null" THEN <<>>
    ELSE IF e.kind = "literal" THEN PrintLiteral(e)
    ELSE IF e.kind = "bin_op"
    THEN <<Mark("(")>> \o PrintExpr(e.left) \o <<Mark(e.op)>> \o PrintExpr(e.right) \o <<Mark(")")>>
    ELSE IF e.kind = "name"
    THEN IF e.owner # Null THEN PrintType(e.owner) ELSE <<Ident(e.name)>>
    ELSE IF e.kind = "qualified"
    THEN (IF e.owner # Null THEN PrintType(e.owner) ELSE <<Ident(e.qualifier)>>)
         \o <<Mark("::"), Ident(e.name)>>
    ELSE IF e.kind = "builtin"
    THEN <<Token("BUILTIN", e.name)>>
         \o (IF e.type = Null THEN <<>>
             ELSE <<Mark("<")>> \o PrintTypes(e.type.args) \o <<Mark(">")>>)
    ELSE IF e.kind = "call" THEN PrintExpr(e.target) \o PrintArgs(e.args)
    ELSE IF e.kind = "cast" THEN PrintType(e.type)
    ELSE IF e.kind = "field" THEN PrintField(e)
    ELSE IF e.kind = "index"
    THEN PrintExpr(e.target) \o <<Mark("[")>> \o PrintExpr(e.index) \o <<Mark("]")>>
    ELSE IF e.kind \in UnaryKinds THEN <<Mark(Prefix(e.kind))>> \o PrintExpr(e.target)
    ELSE IF e.kind = "array_lit"
    THEN <<Mark("[")>> \o Commas([i \in DOMAIN e.elements |-> PrintExpr(e.elements[i])])
         \o <<Mark("]")>>
    ELSE PrintType(e.type) \o <<Mark("{")>>
         \o Commas([i \in DOMAIN e.fields |->
                <<Ident(e.fields[i].name), Mark(":")>> \o PrintExpr(e.fields[i].value)])
         \o <<Mark("}")>>

-----------------------------------------------------------------------------
PrintVarDecl(s) ==
    <<Mark("let"), Ident(s.name)>>
        \o (IF s.type = Null THEN <<>> ELSE <<Mark(":")>> \o PrintType(s.type))
        \o (IF s.initializer = Null THEN <<>> ELSE <<Mark("=")>> \o PrintExpr(s.initializer))

PrintAssign(s) == PrintExpr(s.target) \o <<Mark("=")>> \o PrintExpr(s.value)

\* print_for_header: of the clauses only these two shapes are written.
PrintForHeader(s) ==
    IF s.init = Null /\ s.post = Null THEN PrintExpr(s.condition)
    ELSE (IF s.init.kind = "var_decl" THEN PrintVarDecl(s.init)
          ELSE IF s.init.kind = "assign" THEN PrintAssign(s.init) ELSE <<>>)
         \o <<Mark(";")>> \o PrintExpr(s.condition) \o <<Mark(";")>>
         \o (IF s.post.kind = "assign" THEN PrintAssign(s.post) ELSE <<>>)

CompoundToken(op) == CHOOSE t \in DOMAIN CompoundOps : CompoundOps[t] = op

\* print_body_stmt and print_block; a declaration in a body is left out.
PrintStmt(s) ==
    IF s.kind = "block"
    THEN <<Mark("{")>> \o FlattenSeq([i \in DOMAIN s.list |-> PrintStmt(s.list[i])])
         \o <<Mark("}")>>
    ELSE IF s.kind = "if"
    THEN <<Mark("if")>> \o PrintExpr(s.condition) \o PrintStmt(s.then)
         \o (IF s.else = Null THEN <<>> ELSE <<Mark("else")>> \o PrintStmt(s.else))
    ELSE IF s.kind = "for" THEN <<Mark("for")>> \o PrintForHeader(s) \o PrintStmt(s.body)
    ELSE IF s.kind \in {"func_decl", "struct_decl", "impl", "interface_decl"} THEN <<>>
    ELSE (IF s.kind = "var_decl" THEN PrintVarDecl(s)
          ELSE IF s.kind = "expr" THEN PrintExpr(s.value)
          ELSE IF s.kind = "assign" THEN PrintAssign(s)
          ELSE IF s.kind = "compound_assign"
          THEN PrintExpr(s.target) \o <<Mark(CompoundToken(s.op))>> \o PrintExpr(s.value)
          ELSE IF s.kind = "return" THEN <<Mark("return")>> \o PrintExpr(s.result)
          ELSE <<Mark(IF s.isBreak THEN "break" ELSE "continue")>>)
         \o <<Mark(";")>>

-----------------------------------------------------------------------------
CarriesBody(f) == f.body # Null /\ f.typeParams # <<>>

\* print_func: a function whose body is not carried is one to link against.
PrintFunc(f, inherited, statesOnly) ==
    (IF "caller" \in f.syntax THEN <<Mark("caller")>> ELSE <<>>)
    \o (IF "foreign" \in f.syntax THEN <<Mark("extern"), Token("STRING", "C")>>
        ELSE IF "intrinsic" \in f.syntax THEN <<Mark("intrinsic")>>
        ELSE IF ~statesOnly /\ ~CarriesBody(f) /\ (f.body # Null \/ "extern" \in f.syntax)
        THEN <<Mark("extern")>> ELSE <<>>)
    \o <<Mark("func"), Ident(f.name)>>
    \o PrintParams(SubSeq(f.typeParams, inherited + 1, Len(f.typeParams)))
    \o <<Mark("(")>> \o Commas(PrintFields(f.params)) \o <<Mark(")")>>
    \o (IF f.result = Null THEN <<>> ELSE <<Mark(":")>> \o PrintType(f.result))
    \o (IF CarriesBody(f) THEN PrintStmt(f.body) ELSE <<Mark(";")>>)

\* Mutant: a member repeats the parameters it has from its impl.
PrintMembersWhole(members, inherited, statesOnly) ==
    FlattenSeq([i \in DOMAIN members |-> PrintFunc(members[i], 0, statesOnly)])

PrintMembers(members, inherited, statesOnly) ==
    FlattenSeq([i \in DOMAIN members |->
        PrintFunc(members[i], Min({inherited, Len(members[i].typeParams)}), statesOnly)])

\* print_stmt: what a file declares.
PrintDecl(s) ==
    IF s.kind = "func_decl" THEN PrintFunc(s, 0, FALSE)
    ELSE IF s.kind = "struct_decl"
    THEN (IF s.intrinsic THEN <<Mark("intrinsic")>> ELSE <<>>)
         \o <<Mark("struct"), Ident(s.name)>> \o PrintParams(Unbounded(s.typeParams))
         \o <<Mark("{")>>
         \o FlattenSeq([i \in DOMAIN s.fields |-> PrintFields(s.fields)[i] \o <<Mark(",")>>])
         \o <<Mark("}")>>
    ELSE IF s.kind = "interface_decl"
    THEN <<Mark("interface"), Ident(s.name)>> \o PrintParams(Unbounded(s.typeParams))
         \o <<Mark("{")>> \o PrintMembers(s.list, 0, TRUE) \o <<Mark("}")>>
    ELSE IF s.kind = "impl"
    THEN <<Mark("impl")>> \o PrintParams(s.typeParams) \o PrintType(s.type)
         \o (IF s.interface = "" THEN <<>>
             ELSE <<Mark("as"), Ident(s.interface)>>
                  \o (IF s.args = <<>> THEN <<>>
                      ELSE <<Mark("<")>> \o PrintTypes(s.args) \o <<Mark(">")>>))
         \o <<Mark("{")>> \o PrintMembers(s.list, Len(s.typeParams), FALSE) \o <<Mark("}")>>
    ELSE <<>>

\* The imports of the files of a module, each where it is stated first.
Imports(files) ==
    LET all == FlattenSeq([f \in DOMAIN files |-> files[f].imports])
        first == {i \in DOMAIN all : \A j \in 1..(i - 1) : all[j] # all[i]}
        order == SetToSortSeq(first, <)
    IN  [i \in DOMAIN order |-> all[order[i]]]

Declared(files) == FlattenSeq([f \in DOMAIN files |-> files[f].list])

\* gab_interface_print.
InterfacePrint(files) ==
    LET imports == Imports(files)
        declared == Declared(files)
    IN  <<Mark("module"), Ident(files[1].module), Mark(";")>>
        \o FlattenSeq([i \in DOMAIN imports |-> <<Mark("import"), Ident(imports[i]), Mark(";")>>])
        \o FlattenSeq([i \in DOMAIN declared |-> PrintDecl(declared[i])])

-----------------------------------------------------------------------------
(***************************************************************************)
(* parse_module over the files, gab_interface_write of what they declare,  *)
(* and parse_file of the text by whoever imports the module.               *)
(***************************************************************************)
Init ==
    /\ sources \in Modules
    /\ ParserInit(sources[1])
    /\ parsed = <<>>
    /\ read = FALSE

ParseStep == ParserNext /\ UNCHANGED interfaceVars

\* The file that was just parsed, when it declares the module of the first.
FileTaken == /\ ParserDone /\ ~read /\ ret.ok
             /\ parsed # <<>> => ret.node.module = parsed[1].module

ParseFrom(tokens) ==
    /\ text' = tokens
    /\ at' = 1
    /\ frames' = <<Frame("start", Null)>>
    /\ ret' = None
    /\ errors' = FALSE
    /\ UNCHANGED sources

ParseNextFile ==
    /\ FileTaken
    /\ Len(parsed) + 1 < Len(sources)
    /\ parsed' = Append(parsed, ret.node)
    /\ ParseFrom(sources[Len(parsed) + 2])
    /\ UNCHANGED read

WriteInterface ==
    /\ FileTaken
    /\ Len(parsed) + 1 = Len(sources)
    /\ parsed' = Append(parsed, ret.node)
    /\ ParseFrom(InterfacePrint(parsed'))
    /\ read' = TRUE

Next == ParseStep \/ ParseNextFile \/ WriteInterface

\* The compiler is one thread that runs until it is done.
Spec == Init /\ [][Next]_vars /\ WF_vars(Next)

-----------------------------------------------------------------------------
(***************************************************************************)
(* What an interface is to say: every declaration of the module, a         *)
(* function whose body is compiled with the module being one to link.      *)
(***************************************************************************)
Export(f) ==
    IF f.body = Null \/ f.typeParams # <<>> THEN f
    ELSE [f EXCEPT !.body = Null, !.syntax = @ \cup {"extern"}]

Exported(files) ==
    LET kept == SelectSeq(Declared(files), LAMBDA s : s.kind # "var_decl")
    IN  [i \in DOMAIN kept |->
            IF kept[i].kind = "func_decl" THEN Export(kept[i])
            ELSE IF kept[i].kind = "impl"
            THEN [kept[i] EXCEPT !.list = [m \in DOMAIN @ |-> Export(@[m])]]
            ELSE kept[i]]

\* The expressions and statements directly in a node.
Parts(n) ==
    IF n.kind \in UnaryKinds \cup {"field"} THEN <<n.target>>
    ELSE IF n.kind = "bin_op" THEN <<n.left, n.right>>
    ELSE IF n.kind = "call" THEN <<n.target>> \o n.args
    ELSE IF n.kind = "index" THEN <<n.target, n.index>>
    ELSE IF n.kind = "array_lit" THEN n.elements
    ELSE IF n.kind = "struct_lit" THEN [i \in DOMAIN n.fields |-> n.fields[i].value]
    ELSE IF n.kind = "var_decl" THEN <<n.initializer>>
    ELSE IF n.kind = "expr" THEN <<n.value>>
    ELSE IF n.kind \in {"assign", "compound_assign"} THEN <<n.target, n.value>>
    ELSE IF n.kind = "return" THEN <<n.result>>
    ELSE IF n.kind = "block" THEN n.list
    ELSE IF n.kind = "if" THEN <<n.condition, n.then, n.else>>
    ELSE IF n.kind = "for" THEN <<n.init, n.condition, n.post, n.body>>
    ELSE <<>>

Postfix == {"field", "index", "call"}

RECURSIVE OpensWithLit(_), OpensWithCall(_), HoldsRefRef(_), Misread(_)

\* A struct literal that no parenthesis separates from a block.
OpensWithLit(e) ==
    \/ e.kind = "struct_lit"
    \/ e.kind \in Postfix \cup UnaryKinds /\ OpensWithLit(e.target)

OpensWithCall(e) ==
    \/ e.kind = "call" /\ e.target.kind = "name"
    \/ e.kind \in Postfix /\ OpensWithCall(e.target)

HoldsRefRef(t) ==
    \/ t.kind = "ref" /\ (t.inner.kind = "ref" \/ HoldsRefRef(t.inner))
    \/ t.kind = "raw" /\ HoldsRefRef(t.inner)
    \/ t.kind = "apply" /\ \E i \in DOMAIN t.args : HoldsRefRef(t.args[i])

ClauseParts(s) == IF s.kind \in {"var_decl", "assign"} THEN Parts(s) ELSE <<>>

\* The shapes of a body whose text says something else, or nothing:
Misread(n) ==
    \* an operand of a postfix operator that itself starts with an operator,
    \/ n.kind \in Postfix /\ n.target.kind \in UnaryKinds
    \* an integer before a '.',
    \/ n.kind = "field" /\ n.target.kind = "literal" /\ n.target.type = "INT"
    \* a dereference of what a call returns, which reads as a cast,
    \/ n.kind = "deref" /\ OpensWithCall(n.target)
    \* a float without a fraction or with an exponent,
    \/ n.kind = "literal" /\ n.type = "FLOAT" /\ n.value \in Whole \cup Scientific
    \* a string with escapes,
    \/ n.kind = "literal" /\ n.type = "STRING" /\ n.value \in DOMAIN Unescaped
    \* a reference to a reference among type arguments that are only scanned,
    \/ n.kind \in {"name", "qualified"} /\ HoldsRefRef(n.owner)
    \/ n.kind \in {"struct_lit", "cast"} /\ HoldsRefRef(n.type)
    \* a struct literal in the header of an 'if' or of a 'for',
    \/ n.kind = "if" /\ OpensWithLit(n.condition)
    \/ n.kind = "for" /\ LET heads == <<n.condition>> \o ClauseParts(n.init) \o ClauseParts(n.post)
                         IN  \E i \in DOMAIN heads : OpensWithLit(heads[i])
    \* a clause of a 'for' that is neither a declaration nor an assignment,
    \/ n.kind = "for" /\ n.init.kind \in {"expr", "compound_assign"}
    \/ n.kind = "for" /\ n.post.kind \in {"expr", "compound_assign", "var_decl"}
    \* a struct declared in a body.
    \/ n.kind = "struct_decl"
    \/ \E i \in DOMAIN Parts(n) : Misread(Parts(n)[i])

FuncMisread(f) == \/ CarriesBody(f) /\ Misread(f.body)
                  \/ {"extern", "intrinsic"} \subseteq f.syntax

DeclMisread(s) ==
    \/ s.kind = "func_decl" /\ FuncMisread(s)
    \/ s.kind = "impl" /\ \E i \in DOMAIN s.list : FuncMisread(s.list[i])

Says(files) ==
    /\ ret.ok
    /\ ret.node.module = files[1].module
    /\ ret.node.list = Exported(files)
    /\ IsInjective(ret.node.imports)
    /\ ToSet(ret.node.imports) = UNION {ToSet(files[f].imports) : f \in DOMAIN files}

\* The tree of operands p, p + 2, ..., last with an operator between each two:
\* the last of the operators that bind least is at the root.
RECURSIVE Grouped(_, _)
Grouped(p, last) ==
    LET loosest == {q \in p..last : /\ Precedence(Kind(q)) > 0
                                    /\ \A o \in p..last : Precedence(Kind(o)) > 0 =>
                                            Precedence(Kind(q)) <= Precedence(Kind(o))}
    IN  IF p = last THEN ParsePrimary(p).node
        ELSE BinOp(Grouped(p, Max(loosest) - 1), Kind(Max(loosest)),
                   Grouped(Max(loosest) + 1, last))

\* Whether the expression at p is such a row of operands, up to the ';' at end.
IsRow(p, end) ==
    /\ end > p /\ Kind(end) = ";" /\ (end - p) % 2 = 1
    /\ \A q \in p..(end - 1) : IF (q - p) % 2 = 0 THEN Kind(q) \in {"IDENT", "INT"}
                                ELSE Precedence(Kind(q)) > 0

\* The parser stays in its text, and returns a file only if it reported nothing.
TypeOK ==
    /\ at \in 1..(Len(text) + 1)
    /\ ret.at \in 0..at
    /\ errors \in BOOLEAN /\ read \in BOOLEAN
    /\ ParserDone /\ ret.ok => ~errors /\ ret.node.kind = "file"
    /\ Len(parsed) < Len(sources) \/ read

\* A module that imports this one parses exactly what this one declares
\* (gab_interface_print, parse_file), the shapes above left out.
RoundTrip ==
    read /\ ParserDone =>
        (Says(parsed) <=> \A i \in DOMAIN Declared(parsed) : ~DeclMisread(Declared(parsed)[i]))

\* Operators group by precedence and, within one, to the left
\* (parse_precedence): the tree of an expression without parentheses.
OperatorsGroup ==
    In("block") /\ ret = None /\ Kind(at) = "return" =>
        \A end \in at..Len(text) : IsRow(at + 1, end) =>
            ParseReturn(at) = Got(ReturnStmt(Grouped(at + 1, end - 1)), end)

\* The recovery after a syntax error always moves on (parser_synchronize),
\* so that a file is parsed to its end whatever is in it; but a block in
\* which one of three tokens stands where a statement should start is left
\* by neither the statement nor the recovery.
ParserEnds ==
    <>(ParserDone \/ (In("block") /\ ret = None /\ Kind(at) \in {"extern", "caller", "module"}))
=============================================================================
