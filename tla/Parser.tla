------------------------------- MODULE Parser -------------------------------
(***************************************************************************)
(* The parser (syntax/parser.c): from the tokens of a file to its          *)
(* declarations, recovering after an error at the next statement.          *)
(*                                                                         *)
(* What parses without a loop over statements (types, expressions,         *)
(* signatures, statements that hold no block) is an operator from a        *)
(* position to a result.  The loops over the statements of a file, of a    *)
(* block, of an impl and of an interface are actions, one round each, and  *)
(* `frames` is the C stack of the calls between them.                      *)
(*                                                                         *)
(* A diagnostic is only counted as having been reported: `errors`.         *)
(***************************************************************************)
EXTENDS Syntax

CONSTANT MaxTypeParams     \* GAB_MAX_TYPE_PARAMS

ASSUME ParserAssumption == MaxTypeParams \in Nat \ {0}

VARIABLES text,      \* the tokens of the file
          at,        \* the position of parser->current in text
          frames,    \* the loops entered and not left, the innermost first
          ret,       \* what the call that just returned made, if one did
          errors     \* whether a diagnostic was reported

parserVars == <<text, at, frames, ret, errors>>

Kind(p) == IF p <= Len(text) THEN text[p].type ELSE "EOF"
Value(p) == text[p].value

\* What a parse function leaves: a node, or NULL after a diagnostic, where
\* parser->current then stands, and whether nothing was reported.
Got(node, p) == [ok |-> TRUE, node |-> node, at |-> p, clean |-> TRUE]
Fail(p) == [ok |-> FALSE, node |-> Null, at |-> p, clean |-> FALSE]
None == [ok |-> FALSE, node |-> Null, at |-> 0, clean |-> TRUE]

\* What follows a parse that succeeded.  Choosing from a singleton has TLC
\* evaluate the parse once.
Then(r, Next(_)) == CHOOSE y \in {IF x.ok THEN Next(x) ELSE Fail(x.at) : x \in {r}} : TRUE

\* parser_expect, then parser_next_token.
Expect(p, type) == IF Kind(p) = type THEN Got(Value(p), p + 1) ELSE Fail(p)

\* Items separated by commas, one of which may precede the closing token.
Listed(p, close, Item(_)) ==
    LET RECURSIVE From(_, _)
        From(q, items) ==
            IF Kind(q) = close THEN Got(items, q + 1)
            ELSE Then(Item(q), LAMBDA i :
                    IF Kind(i.at) = "," THEN From(i.at + 1, Append(items, i.node))
                    ELSE Then(Expect(i.at, close), LAMBDA c : Got(Append(items, i.node), c.at)))
    IN  From(p, <<>>)

-----------------------------------------------------------------------------
(***************************************************************************)
(* Types.                                                                  *)
(***************************************************************************)
RECURSIVE ParseTypeExpr(_), ParseTypeArgs(_), ParseApplied(_, _)

\* At '<'; one argument at least, and no comma before the '>'.
ParseTypeArgs(p) ==
    LET Arg(q) == IF Kind(q) = "INT" THEN Got(ConstArg(Value(q)), q + 1) ELSE ParseTypeExpr(q)
        RECURSIVE From(_, _)
        From(q, args) ==
            Then(Arg(q), LAMBDA a :
                IF Kind(a.at) = "," THEN From(a.at + 1, Append(args, a.node))
                ELSE Then(Expect(a.at, ">"), LAMBDA c : Got(Append(args, a.node), c.at)))
    IN  From(p + 1, <<>>)

ParseApplied(base, p) ==
    IF Kind(p) = "<" THEN Then(ParseTypeArgs(p), LAMBDA a : Got(Apply(base, a.node), a.at))
    ELSE Got(base, p)

\* The lexer reads '&&' as one token, which stands for two references here.
ParseTypeExpr(p) ==
    IF Kind(p) \in {"&", "*"}
    THEN Then(ParseTypeExpr(p + 1), LAMBDA t :
            Got(Indirect(IF Kind(p) = "*" THEN "raw" ELSE "ref", t.node), t.at))
    ELSE IF Kind(p) = "&&"
    THEN Then(ParseTypeExpr(p + 1), LAMBDA t :
            Got(Indirect("ref", Indirect("ref", t.node)), t.at))
    ELSE Then(Expect(p, "IDENT"), LAMBDA n :
            IF Kind(n.at) # "::" THEN ParseApplied(Named("", n.node), n.at)
            ELSE Then(Expect(n.at + 1, "IDENT"), LAMBDA m :
                    IF Kind(m.at) = "::" THEN Fail(m.at)
                    ELSE ParseApplied(Named(n.node, m.node), m.at)))

\* parse_type_params: names and bounds, or nothing where no '<' stands.
ParseTypeParams(p) ==
    LET Bound(q) == IF Kind(q) = ":" THEN ParseTypeExpr(q + 1) ELSE Got(Null, q)
        RECURSIVE From(_, _)
        From(q, params) ==
            Then(Expect(q, "IDENT"), LAMBDA n :
                IF Len(params) = MaxTypeParams THEN Fail(q)
                ELSE Then(Bound(n.at), LAMBDA b :
                    LET taken == Append(params, [name |-> n.node, bound |-> b.node])
                    IN  IF Kind(b.at) = "," THEN From(b.at + 1, taken)
                        ELSE Then(Expect(b.at, ">"), LAMBDA c : Got(taken, c.at))))
    IN  IF Kind(p) = "<" THEN From(p + 1, <<>>) ELSE Got(<<>>, p)

\* parse_field: a field of a struct or a parameter of a function.
ParseField(p) ==
    Then(Expect(p, "IDENT"), LAMBDA n :
        Then(Expect(n.at, ":"), LAMBDA c :
            Then(ParseTypeExpr(c.at), LAMBDA t :
                Got([name |-> n.node, type |-> t.node], t.at))))

-----------------------------------------------------------------------------
(***************************************************************************)
(* Expressions.  `lits` is EXPR_ANY; without it (EXPR_NO_STRUCT_LIT) a     *)
(* brace after a name opens a block.                                       *)
(***************************************************************************)
RECURSIVE ParseExpression(_, _), ParsePrecedence(_, _, _), ParseUnary(_, _),
          ParsePostfix(_, _, _), ParsePrimary(_), ParseCallArgs(_), ParseFieldInit(_),
          ParseStructLit(_, _)

ParseExpression(p, lits) == ParsePrecedence(p, 0, lits)

Precedence(type) ==
    IF type \in {"&&", "||"} THEN 1
    ELSE IF type \in {"==", "!="} THEN 2
    ELSE IF type \in {"<", ">", "<=", ">="} THEN 3
    ELSE IF type \in {"+", "-"} THEN 5
    ELSE IF type \in {"*", "/", "%"} THEN 6
    ELSE 0

ParseCallArgs(p) == Listed(p + 1, ")", LAMBDA q : ParseExpression(q, TRUE))

\* parser_scan_type_args: whether what opens at p looks like type arguments
\* that close and that the token `after` follows.  The parser is put back.
ScanTypeArgs(p, after) ==
    LET RECURSIVE From(_, _)
        From(q, depth) ==
            IF depth = 0 THEN Kind(q) = after
            ELSE IF Kind(q) = "<" THEN From(q + 1, depth + 1)
            ELSE IF Kind(q) = ">" THEN From(q + 1, depth - 1)
            ELSE /\ Kind(q) \in {"IDENT", ",", "&", "*", "[", "]", ";", "INT"}
                 /\ From(q + 1, depth)
    IN  From(p + 1, 1)

StarPrecedesACast(p) ==
    /\ Kind(p + 1) = "IDENT"
    /\ IF Kind(p + 2) = "<" THEN ScanTypeArgs(p + 2, "(") ELSE Kind(p + 2) = "("

StartsStructLit(e, p, lits) ==
    /\ lits
    /\ e.kind \in {"name", "qualified"}
    /\ Kind(p) = "{" \/ ScanTypeArgs(p, "{")

ParseFieldInit(p) ==
    Then(Expect(p, "IDENT"), LAMBDA n :
        Then(Expect(n.at, ":"), LAMBDA c :
            Then(ParseExpression(c.at, TRUE), LAMBDA v :
                Got([name |-> n.node, value |-> v.node], v.at))))

ParseStructLit(e, p) ==
    LET base == IF e.kind = "qualified" THEN Named(e.qualifier, e.name) ELSE Named("", e.name)
    IN  Then(ParseApplied(base, p), LAMBDA t :
            Then(Expect(t.at, "{"), LAMBDA c :
                Then(Listed(c.at, "}", ParseFieldInit), LAMBDA f :
                    Got(StructLit(t.node, f.node), f.at))))

ParsePostfix(e, p, lits) ==
    IF Kind(p) = "("
    THEN Then(ParseCallArgs(p), LAMBDA a : ParsePostfix(Call(e, a.node), a.at, lits))
    ELSE IF Kind(p) = "["
    THEN Then(ParseExpression(p + 1, TRUE), LAMBDA i :
            Then(Expect(i.at, "]"), LAMBDA c : ParsePostfix(Index(e, i.node), c.at, lits)))
    ELSE IF Kind(p) = "."
    THEN Then(Expect(p + 1, "IDENT"), LAMBDA n :
            ParsePostfix(Field(e, n.node), n.at, lits))
    ELSE IF Kind(p) \in {"{", "<"} /\ StartsStructLit(e, p, lits)
    THEN Then(ParseStructLit(e, p), LAMBDA s : ParsePostfix(s.node, s.at, lits))
    ELSE Got(e, p)

ParseName(p) ==
    LET typed == Kind(p + 1) = "<" /\ (ScanTypeArgs(p + 1, "::") \/ ScanTypeArgs(p + 1, "("))
        owner == IF typed THEN ParseApplied(Named("", Value(p)), p + 1) ELSE Got(Null, p + 1)
    IN  Then(owner, LAMBDA o :
            IF Kind(o.at) # "::" THEN Got(Name(Value(p), o.node), o.at)
            ELSE Then(Expect(o.at + 1, "IDENT"), LAMBDA m :
                    IF Kind(m.at) = "::" THEN Fail(m.at)
                    ELSE Got(Qualified(Value(p), m.node, o.node), m.at)))

ParseBuiltin(p) ==
    Then(IF Kind(p + 1) = "<" THEN ParseApplied(Named("", Value(p)), p + 1) ELSE Got(Null, p + 1),
         LAMBDA t : Got(Builtin(Value(p), t.node), t.at))

LiteralTypes == {"INT", "FLOAT", "STRING", "BOOL"}

ParsePrimary(p) ==
    IF Kind(p) \in LiteralTypes THEN Got(Literal(Kind(p), Value(p)), p + 1)
    ELSE IF Kind(p) = "IDENT" THEN ParseName(p)
    ELSE IF Kind(p) = "BUILTIN" THEN ParseBuiltin(p)
    ELSE IF Kind(p) = "["
    THEN Then(Listed(p + 1, "]", LAMBDA q : ParseExpression(q, TRUE)), LAMBDA l :
            Got(ArrayLit(l.node), l.at))
    ELSE IF Kind(p) = "("
    THEN Then(ParseExpression(p + 1, TRUE), LAMBDA e :
            Then(Expect(e.at, ")"), LAMBDA c : Got(e.node, c.at)))
    ELSE Fail(p)

PrefixKinds == [s \in {"*", "!", "-"} |->
                IF s = "*" THEN "deref" ELSE IF s = "!" THEN "not" ELSE "neg"]

ParseUnary(p, lits) ==
    IF Kind(p) = "*" /\ StarPrecedesACast(p)
    THEN Then(ParseTypeExpr(p), LAMBDA t :
            Then(ParseCallArgs(t.at), LAMBDA a :
                ParsePostfix(Call(Cast(t.node), a.node), a.at, lits)))
    ELSE IF Kind(p) \in DOMAIN PrefixKinds
    THEN Then(ParseUnary(p + 1, lits), LAMBDA e : Got(Unary(PrefixKinds[Kind(p)], e.node), e.at))
    ELSE Then(ParsePrimary(p), LAMBDA e : ParsePostfix(e.node, e.at, lits))

\* Mutant: the right operand takes operators of the same precedence.
ParsePrecedenceRight(p, least, lits) ==
    LET RECURSIVE Rest(_, _)
        Rest(left, q) ==
            IF Precedence(Kind(q)) = 0 \/ Precedence(Kind(q)) < least THEN Got(left, q)
            ELSE Then(ParsePrecedence(q + 1, Precedence(Kind(q)), lits), LAMBDA r :
                    Rest(BinOp(left, Kind(q), r.node), r.at))
    IN  Then(ParseUnary(p, lits), LAMBDA l : Rest(l.node, l.at))

\* An operator is named by the token that spells it.
ParsePrecedence(p, least, lits) ==
    LET RECURSIVE Rest(_, _)
        Rest(left, q) ==
            IF Precedence(Kind(q)) = 0 \/ Precedence(Kind(q)) < least THEN Got(left, q)
            ELSE Then(ParsePrecedence(q + 1, Precedence(Kind(q)) + 1, lits), LAMBDA r :
                    Rest(BinOp(left, Kind(q), r.node), r.at))
    IN  Then(ParseUnary(p, lits), LAMBDA l : Rest(l.node, l.at))

-----------------------------------------------------------------------------
(***************************************************************************)
(* Statements and declarations that hold no block.                         *)
(***************************************************************************)
ParseVarDecl(p, lits) ==
    Then(Expect(p + 1, "IDENT"), LAMBDA n :
        Then(IF Kind(n.at) = ":" THEN ParseTypeExpr(n.at + 1) ELSE Got(Null, n.at), LAMBDA t :
            IF Kind(t.at) = ";" /\ t.node = Null THEN Fail(t.at)
            ELSE IF Kind(t.at) = ";" THEN Got(VarDecl(n.node, t.node, Null), t.at)
            ELSE Then(Expect(t.at, "="), LAMBDA c :
                    Then(ParseExpression(c.at, lits), LAMBDA v :
                        Got(VarDecl(n.node, t.node, v.node), v.at)))))

\* compound_assign_op: the operator each of these tokens applies.
CompoundOps == [t \in {"+=", "-=", "*=", "/=", "%="} |->
                   IF t = "+=" THEN "+" ELSE IF t = "-=" THEN "-" ELSE IF t = "*=" THEN "*"
                   ELSE IF t = "/=" THEN "/" ELSE "%"]

ParseExprStmt(p, lits) ==
    Then(ParseExpression(p, lits), LAMBDA e :
        IF Kind(e.at) # "=" /\ Kind(e.at) \notin DOMAIN CompoundOps
        THEN Got(ExprStmt(e.node), e.at)
        ELSE IF e.node.kind \notin {"name", "field", "deref", "index"} THEN Fail(e.at)
        ELSE Then(ParseExpression(e.at + 1, lits), LAMBDA v :
                Got(IF Kind(e.at) = "=" THEN Assign(e.node, v.node)
                    ELSE CompoundAssign(e.node, CompoundOps[Kind(e.at)], v.node), v.at)))

ParseReturn(p) ==
    Then(ParseExpression(p + 1, TRUE), LAMBDA e : Got(ReturnStmt(e.node), e.at))

\* parse_struct_decl_stmt_at, from the token 'struct'; the bounds of a
\* struct's parameters are read and not kept.
ParseStructDecl(p, intrinsic) ==
    Then(Expect(p + 1, "IDENT"), LAMBDA n :
        Then(ParseTypeParams(n.at), LAMBDA t :
            Then(Expect(t.at, "{"), LAMBDA c :
                Then(Listed(c.at, "}", ParseField), LAMBDA f :
                    Got(StructDecl(n.node, [i \in DOMAIN t.node |-> t.node[i].name],
                                   f.node, intrinsic), f.at)))))

\* parse_func_syntax: the modifiers before 'func'.
ParseFuncSyntax(p, taken) ==
    LET RECURSIVE From(_, _)
        From(q, syntax) ==
            IF Kind(q) \in {"caller", "intrinsic"} THEN From(q + 1, syntax \cup {Kind(q)})
            ELSE IF Kind(q) # "extern" THEN Got(syntax, q)
            ELSE IF Kind(q + 1) # "STRING" THEN From(q + 1, syntax \cup {"extern"})
            ELSE IF Value(q + 1) # "C" THEN Fail(q + 1)
            ELSE From(q + 2, syntax \cup {"extern", "foreign"})
    IN  From(p, taken)

\* parse_func_decl_stmt_at, up to the body.
ParseFuncHeader(p, taken) ==
    Then(ParseFuncSyntax(p, taken), LAMBDA s :
        Then(Expect(s.at, "func"), LAMBDA k :
            Then(Expect(k.at, "IDENT"), LAMBDA n :
                Then(ParseTypeParams(n.at), LAMBDA t :
                    Then(Expect(t.at, "("), LAMBDA c :
                        Then(Listed(c.at, ")", ParseField), LAMBDA f :
                            Then(IF Kind(f.at) = ":" THEN ParseTypeExpr(f.at + 1)
                                 ELSE Got(Null, f.at), LAMBDA r :
                                Got(FuncDecl(n.node, s.node, t.node, f.node, r.node, Null),
                                    r.at))))))))

\* func_decl_take_type_params: those of the impl block come first, and what
\* does not fit is left out.
TakeTypeParams(decl, outer) ==
    LET all == outer \o decl.typeParams
    IN  [decl EXCEPT !.typeParams =
            SubSeq(all, 1, IF Len(all) < MaxTypeParams THEN Len(all) ELSE MaxTypeParams)]

\* parse_for_clause: NULL before the terminator.
ParseForClause(p, terminator) ==
    IF Kind(p) = terminator THEN Got(Null, p)
    ELSE IF Kind(p) = "let" THEN ParseVarDecl(p, FALSE)
    ELSE ParseExprStmt(p, FALSE)

\* parse_for_stmt up to the body.  A clause that fails just before the token
\* that ends it is reported and left out.
ForOf(init, condition, post) ==
    [Got(For(init.node, condition.node, post.node, Null), post.at)
        EXCEPT !.clean = init.ok /\ post.ok]

ParseForClauses(first) ==
    Then(IF Kind(first.at + 1) = ";" THEN Got(Null, first.at + 1)
         ELSE ParseExpression(first.at + 1, FALSE), LAMBDA c :
        Then(Expect(c.at, ";"), LAMBDA s : ForOf(first, c, ParseForClause(s.at, "{"))))

ParseForFirst(first) ==
    IF Kind(first.at) = ";" THEN ParseForClauses(first)
    ELSE IF first.ok /\ first.node.kind = "expr"
    THEN Got(For(Null, first.node.value, Null, Null), first.at)
    ELSE Fail(first.at)

ParseForHeader(p) ==
    IF Kind(p) = "{" THEN Got(For(Null, Null, Null, Null), p)
    ELSE ParseForFirst(ParseForClause(p, ";"))

\* parse_impl_stmt up to its members; parse_interface_decl_stmt likewise.
ParseImplHeader(p) ==
    LET Args(q) == IF Kind(q) = "<" THEN ParseTypeArgs(q) ELSE Got(<<>>, q)
    IN  Then(ParseTypeParams(p + 1), LAMBDA g :
            Then(ParseTypeExpr(g.at), LAMBDA t :
                IF Kind(t.at) # "as"
                THEN Then(Expect(t.at, "{"), LAMBDA c :
                        Got(Impl(g.node, t.node, "", <<>>, <<>>), c.at))
                ELSE Then(Expect(t.at + 1, "IDENT"), LAMBDA n :
                        Then(Args(n.at), LAMBDA a :
                            Then(Expect(a.at, "{"), LAMBDA c :
                                Got(Impl(g.node, t.node, n.node, a.node, <<>>), c.at))))))

ParseInterfaceHeader(p) ==
    Then(Expect(p + 1, "IDENT"), LAMBDA n :
        Then(ParseTypeParams(n.at), LAMBDA t :
            Then(Expect(t.at, "{"), LAMBDA c :
                Got(InterfaceDecl(n.node, [i \in DOMAIN t.node |-> t.node[i].name], <<>>), c.at))))

StmtNeedsTerminator(s) ==
    \/ s.kind \notin {"if", "for", "block", "struct_decl", "impl", "interface_decl", "func_decl"}
    \/ s.kind = "func_decl" /\ s.body = Null

\* Mutant: the ';' that ends a statement in error is not passed.
RECURSIVE SynchronizeBefore(_)
SynchronizeBefore(p) ==
    IF Kind(p) \in {";", "EOF", "}", "let", "func", "extern", "intrinsic", "caller", "struct",
                    "impl", "module", "if", "for", "break", "continue", "return"}
    THEN p
    ELSE SynchronizeBefore(p + 1)

\* parser_synchronize: where a statement may start again.
RECURSIVE Synchronize(_)
Synchronize(p) ==
    IF Kind(p) = ";" THEN p + 1
    ELSE IF Kind(p) \in {"EOF", "}", "let", "func", "extern", "intrinsic", "caller", "struct",
                         "impl", "module", "if", "for", "break", "continue", "return"}
    THEN p
    ELSE Synchronize(p + 1)

\* parse_module_directive and parse_import_directive.
RECURSIVE SkipPath(_)
SkipPath(p) ==
    IF Kind(p) # "::" THEN p ELSE IF Kind(p + 1) = "IDENT" THEN SkipPath(p + 2) ELSE p + 1

ParseModuleDirective(p) ==
    Then(Expect(p + 1, "IDENT"), LAMBDA n :
        IF Kind(n.at) = "::" THEN Fail(SkipPath(n.at))
        ELSE Then(Expect(n.at, ";"), LAMBDA c : Got(n.node, c.at)))

ParseImportDirective(p) ==
    Then(Expect(p + 1, "IDENT"), LAMBDA n :
        Then(Expect(n.at, ";"), LAMBDA c : Got(n.node, c.at)))

\* parser_parse_header: the name of the module, and what it imports.
ParseHeader(p) ==
    LET module == IF Kind(p) = "module" THEN ParseModuleDirective(p) ELSE Fail(p)
        RECURSIVE From(_, _, _)
        From(q, imports, clean) ==
            LET import == ParseImportDirective(q)
            IN  IF Kind(q) # "import"
                THEN [Got(File(module.node, imports, <<>>), q) EXCEPT !.clean = clean]
                ELSE From(import.at, IF import.ok THEN Append(imports, import.node) ELSE imports,
                          clean /\ import.ok)
    IN  From(module.at, <<>>, module.ok)

-----------------------------------------------------------------------------
(***************************************************************************)
(* The loops.  A frame is the call a loop or a body belongs to and the     *)
(* node it has made so far.                                                *)
(***************************************************************************)
Frame(is, node) == [is |-> is, node |-> node]
Top == Head(frames)
Below == Tail(frames)

\* The call on top of `under` returns r to it.
Yield(result, under) ==
    \E r \in {result} :
        /\ frames' = under
        /\ ret' = r
        /\ at' = r.at
        /\ errors' = (errors \/ ~r.clean)

\* parse_block_stmt is called at p, and returns to `under`.
EnterBlock(p, under, clean) ==
    IF Kind(p) = "{"
    THEN /\ frames' = <<Frame("block", Block(<<>>))>> \o under
         /\ at' = p + 1
         /\ ret' = None
         /\ errors' = (errors \/ ~clean)
    ELSE Yield(Fail(p), under)

EnterMembers(header, is, under, clean) ==
    IF header.ok
    THEN /\ frames' = <<Frame(is, header.node)>> \o under
         /\ at' = header.at
         /\ ret' = None
         /\ errors' = (errors \/ ~clean)
    ELSE Yield(header, under)

\* parse_func_decl_stmt_at: an extern function that has a body is refused
\* once the body is read.
BeginFunc(p, taken, under, clean) ==
    \E header \in {ParseFuncHeader(p, taken)} :
        IF ~header.ok THEN Yield(header, under)
        ELSE IF header.node.syntax \cap {"extern", "intrinsic"} = {}
        THEN EnterBlock(header.at, <<Frame("func", header.node)>> \o under, clean)
        ELSE IF Kind(header.at) = "{"
        THEN EnterBlock(header.at, <<Frame("discard", Null)>> \o under, FALSE)
        ELSE Yield([header EXCEPT !.clean = clean], under)

\* What both parse_decl_statement and parse_statement read; a function body
\* refuses all of these but a struct, once it has read them.
ParseDeclaration(under, clean) ==
    IF Kind(at) = "struct"
    THEN Yield([ParseStructDecl(at, FALSE) EXCEPT !.clean = @ /\ clean], under)
    ELSE IF Kind(at) = "intrinsic" /\ Kind(at + 1) = "struct"
    THEN Yield([ParseStructDecl(at + 1, TRUE) EXCEPT !.clean = @ /\ clean], under)
    ELSE IF Kind(at) = "impl" THEN EnterMembers(ParseImplHeader(at), "impl", under, clean)
    ELSE IF Kind(at) = "interface"
    THEN EnterMembers(ParseInterfaceHeader(at), "interface", under, clean)
    ELSE BeginFunc(at, {}, under, clean)

ParseStatement ==
    IF Kind(at) = "let" THEN Yield(ParseVarDecl(at, TRUE), frames)
    ELSE IF Kind(at) = "struct" THEN ParseDeclaration(frames, TRUE)
    ELSE IF Kind(at) \in {"func", "intrinsic", "impl", "interface"}
    THEN ParseDeclaration(<<Frame("discard", Null)>> \o frames, FALSE)
    ELSE IF Kind(at) = "if"
    THEN \E condition \in {ParseExpression(at + 1, FALSE)} :
            IF condition.ok
            THEN EnterBlock(condition.at,
                            <<Frame("if", If(condition.node, Null, Null))>> \o frames, TRUE)
            ELSE Yield(condition, frames)
    ELSE IF Kind(at) = "for"
    THEN \E header \in {ParseForHeader(at + 1)} :
            IF header.ok
            THEN EnterBlock(header.at, <<Frame("for", header.node)>> \o frames, header.clean)
            ELSE Yield(header, frames)
    ELSE IF Kind(at) \in {"break", "continue"}
    THEN Yield(Got(Jump(Kind(at) = "break"), at + 1), frames)
    ELSE IF Kind(at) = "{" THEN EnterBlock(at, frames, TRUE)
    ELSE IF Kind(at) = "return" THEN Yield(ParseReturn(at), frames)
    ELSE Yield(ParseExprStmt(at, TRUE), frames)

ParseDeclStatement ==
    IF Kind(at) = "let" THEN Yield(ParseVarDecl(at, TRUE), frames)
    ELSE IF Kind(at) \in {"intrinsic", "func", "extern", "caller", "struct", "impl", "interface"}
    THEN ParseDeclaration(frames, TRUE)
    ELSE Yield(Fail(at), frames)

-----------------------------------------------------------------------------
In(is) == frames # <<>> /\ Top.is = is

\* parser_parse: the header, then a round of the loop per declaration.
Header ==
    /\ In("start")
    /\ LET h == ParseHeader(at)
       IN  /\ frames' = <<Frame("file", h.node)>>
           /\ at' = h.at
           /\ errors' = ~h.clean
           /\ ret' = None
    /\ UNCHANGED text

FileRound ==
    /\ In("file") /\ ret = None /\ Kind(at) # "EOF"
    /\ IF Kind(at) \in {";", "import", "module"}
       THEN /\ at' = IF Kind(at) = ";" THEN at + 1
                     ELSE IF Kind(at) = "import" THEN ParseImportDirective(at).at
                     ELSE ParseModuleDirective(at).at
            /\ errors' = (errors \/ Kind(at) # ";")
            /\ UNCHANGED <<frames, ret>>
       ELSE ParseDeclStatement
    /\ UNCHANGED text

\* Mutant: the file is returned whatever was reported.
FileEndsAnyway ==
    /\ In("file") /\ ret = None /\ Kind(at) = "EOF"
    /\ frames' = <<>>
    /\ ret' = Got(Top.node, at)
    /\ UNCHANGED <<text, at, errors>>

FileEnds ==
    /\ In("file") /\ ret = None /\ Kind(at) = "EOF"
    /\ frames' = <<>>
    /\ ret' = IF errors THEN Fail(at) ELSE Got(Top.node, at)
    /\ UNCHANGED <<text, at, errors>>

BlockRound ==
    /\ In("block") /\ ret = None
    /\ IF Kind(at) = "}" THEN Yield(Got(Top.node, at + 1), Below)
       ELSE IF Kind(at) = "EOF" THEN Yield(Fail(at), Below)
       ELSE ParseStatement
    /\ UNCHANGED text

\* parse_impl_stmt and parse_interface_decl_stmt, a round of the loop each.
ImplRound ==
    /\ In("impl") /\ ret = None
    /\ IF Kind(at) = "}" THEN Yield(Got(Top.node, at + 1), Below)
       ELSE IF Kind(at) \notin {"func", "extern", "intrinsic", "caller"}
       THEN Yield(Fail(at), Below)
       ELSE BeginFunc(at, {}, frames, TRUE)
    /\ UNCHANGED text

InterfaceRound ==
    /\ In("interface") /\ ret = None
    /\ IF Kind(at) = "}" THEN Yield(Got(Top.node, at + 1), Below)
       ELSE IF Kind(at) # "func" THEN Yield(Fail(at), Below)
       ELSE BeginFunc(at, {"extern"}, frames, TRUE)
    /\ UNCHANGED text

-----------------------------------------------------------------------------
\* The statement that returned, with its terminator.
Terminated(needed) ==
    IF ret.ok /\ needed THEN Then(Expect(at, ";"), LAMBDA c : Got(ret.node, c.at)) ELSE ret

Added(node) == <<[Top EXCEPT !.node.list = Append(@, node)]>> \o Below

\* The end of a round of the loop over a file, or over a block, which has
\* no counterpart of what the loop over a file does when nothing was skipped.
TakeStatement ==
    /\ In("file") \/ In("block")
    /\ ret # None
    /\ LET r == Terminated(StmtNeedsTerminator(ret.node))
           next == Synchronize(r.at)
       IN  /\ frames' = IF r.ok THEN Added(r.node) ELSE frames
           /\ at' = IF r.ok THEN r.at
                    ELSE IF In("file") /\ next = r.at /\ Kind(next) # "EOF" THEN next + 1
                    ELSE next
           /\ errors' = (errors \/ ~r.clean)
    /\ ret' = None
    /\ UNCHANGED text

\* A member that fails ends the impl or the interface it is in.
TakeMember ==
    /\ In("impl") \/ In("interface")
    /\ ret # None
    /\ LET r == Terminated(In("interface") \/ StmtNeedsTerminator(ret.node))
       IN  IF r.ok
           THEN /\ frames' = Added(IF In("impl") THEN TakeTypeParams(r.node, Top.node.typeParams)
                                   ELSE r.node)
                /\ at' = r.at
                /\ ret' = None
                /\ UNCHANGED errors
           ELSE Yield(Fail(r.at), Below)
    /\ UNCHANGED text

\* A body returned to the statement or the function it belongs to.
TakeBody ==
    /\ In("if") \/ In("else") \/ In("for") \/ In("func") \/ In("discard")
    /\ ret # None
    /\ IF ~ret.ok \/ In("discard") THEN Yield(Fail(at), Below)
       ELSE IF In("if") /\ Kind(at) = "else"
       THEN EnterBlock(at + 1, <<Frame("else", [Top.node EXCEPT !.then = ret.node])>> \o Below, TRUE)
       ELSE Yield(Got(IF In("if") THEN [Top.node EXCEPT !.then = ret.node]
                      ELSE IF In("else") THEN [Top.node EXCEPT !.else = ret.node]
                      ELSE [Top.node EXCEPT !.body = ret.node], at), Below)
    /\ UNCHANGED text

ParserInit(tokens) ==
    /\ text = tokens
    /\ at = 1
    /\ frames = <<Frame("start", Null)>>
    /\ ret = None
    /\ errors = FALSE

ParserNext ==
    \/ Header \/ FileRound \/ FileEnds \/ BlockRound \/ ImplRound \/ InterfaceRound
    \/ TakeStatement \/ TakeMember \/ TakeBody

ParserDone == frames = <<>>
=============================================================================
