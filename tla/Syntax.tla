------------------------------- MODULE Syntax -------------------------------
(***************************************************************************)
(* Tokens (syntax/lexer.h) and the nodes the parser makes of them          *)
(* (ast/expr.h, ast/stmt.h, ast/type_expr.h).                              *)
(*                                                                         *)
(* A token is its type and, for the types that have one, its lexeme or     *)
(* value.  A node is a record whose field `kind` is the kind of the C      *)
(* node; NULL is Null.  Spans, and the spelling of names, are left out.    *)
(***************************************************************************)
EXTENDS Naturals, Sequences

Token(type, value) == [type |-> type, value |-> value]
Mark(type) == Token(type, "")
Ident(name) == Token("IDENT", name)

Null == [kind |-> "null"]

-----------------------------------------------------------------------------
\* TypeExpr.
Named(qualifier, name) == [kind |-> "named", qualifier |-> qualifier, name |-> name]
Indirect(kind, inner) == [kind |-> kind, inner |-> inner]
ConstArg(value) == [kind |-> "const", value |-> value]
Apply(base, args) == [kind |-> "apply", base |-> base, args |-> args]

-----------------------------------------------------------------------------
\* ASTExpr.
Literal(type, value) == [kind |-> "literal", type |-> type, value |-> value]
BinOp(left, op, right) == [kind |-> "bin_op", left |-> left, op |-> op, right |-> right]
Name(name, owner) == [kind |-> "name", name |-> name, owner |-> owner]
Qualified(qualifier, name, owner) ==
    [kind |-> "qualified", qualifier |-> qualifier, name |-> name, owner |-> owner]
Builtin(name, type) == [kind |-> "builtin", name |-> name, type |-> type]
Call(target, args) == [kind |-> "call", target |-> target, args |-> args]
Cast(type) == [kind |-> "cast", type |-> type]
Field(target, name) == [kind |-> "field", target |-> target, name |-> name]
Index(target, index) == [kind |-> "index", target |-> target, index |-> index]
Unary(kind, target) == [kind |-> kind, target |-> target]
ArrayLit(elements) == [kind |-> "array_lit", elements |-> elements]
StructLit(type, fields) == [kind |-> "struct_lit", type |-> type, fields |-> fields]

UnaryKinds == {"deref", "neg", "not"}

-----------------------------------------------------------------------------
\* ASTStmt.
VarDecl(name, type, initializer) ==
    [kind |-> "var_decl", name |-> name, type |-> type, initializer |-> initializer]
ExprStmt(value) == [kind |-> "expr", value |-> value]
Assign(target, value) == [kind |-> "assign", target |-> target, value |-> value]
CompoundAssign(target, op, value) ==
    [kind |-> "compound_assign", target |-> target, op |-> op, value |-> value]
ReturnStmt(result) == [kind |-> "return", result |-> result]
Jump(isBreak) == [kind |-> "jump", isBreak |-> isBreak]
Block(list) == [kind |-> "block", list |-> list]
If(condition, then, else) ==
    [kind |-> "if", condition |-> condition, then |-> then, else |-> else]
For(init, condition, post, body) ==
    [kind |-> "for", init |-> init, condition |-> condition, post |-> post, body |-> body]
FuncDecl(name, syntax, typeParams, params, result, body) ==
    [kind |-> "func_decl", name |-> name, syntax |-> syntax, typeParams |-> typeParams,
     params |-> params, result |-> result, body |-> body]
StructDecl(name, typeParams, fields, intrinsic) ==
    [kind |-> "struct_decl", name |-> name, typeParams |-> typeParams, fields |-> fields,
     intrinsic |-> intrinsic]
InterfaceDecl(name, typeParams, members) ==
    [kind |-> "interface_decl", name |-> name, typeParams |-> typeParams, list |-> members]
Impl(typeParams, type, interface, args, members) ==
    [kind |-> "impl", typeParams |-> typeParams, type |-> type, interface |-> interface,
     args |-> args, list |-> members]
File(module, imports, statements) ==
    [kind |-> "file", module |-> module, imports |-> imports, list |-> statements]

=============================================================================
