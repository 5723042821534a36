-------------------------------- MODULE Ast --------------------------------
(***************************************************************************)
(* The nodes of the abstract syntax tree (compiler/ast_nodes.py): one      *)
(* record constructor per class, whose field k names the class.  Source    *)
(* positions (spans) are left out.                                         *)
(***************************************************************************)
EXTENDS Integers, Sequences, SequencesExt

None == [k |-> "None"]
IsNone(x) == x.k = "None"

(* Types *)
Type(name) == [k |-> "Type", name |-> name]
PointerType(base) == [k |-> "PointerType", base |-> base]
ArrayType(size, elem) == [k |-> "ArrayType", size |-> size, elem |-> elem]
SliceType(elem) == [k |-> "SliceType", elem |-> elem]
ListType(elem) == [k |-> "ListType", elem |-> elem]
DictType(key, val) == [k |-> "DictType", key |-> key, val |-> val]
GenericInstanceType(base, args) == [k |-> "GenericInstanceType", base |-> base, args |-> args]

(* Expressions *)
IntLiteral(n) == [k |-> "IntLiteral", n |-> n]
CharLiteral(c) == [k |-> "CharLiteral", s |-> c]
StringLiteral(s) == [k |-> "StringLiteral", s |-> s]
FStringLiteral(s) == [k |-> "FStringLiteral", s |-> s]
BoolLiteral(b) == [k |-> "BoolLiteral", b |-> b]
NoneLiteral == [k |-> "NoneLiteral"]
Identifier(name) == [k |-> "Identifier", name |-> name]
BinaryExpr(l, op, r) == [k |-> "BinaryExpr", left |-> l, op |-> op, right |-> r]
UnaryExpr(op, e) == [k |-> "UnaryExpr", op |-> op, e |-> e]
CallExpr(f, args) == [k |-> "CallExpr", func |-> f, args |-> args, targs |-> <<>>]
GenericCallExpr(f, args, ts) == [k |-> "CallExpr", func |-> f, args |-> args, targs |-> ts]
CastExpr(t, e) == [k |-> "CastExpr", type |-> t, e |-> e]
IsInstanceExpr(e, t) == [k |-> "IsInstanceExpr", e |-> e, check |-> t]
IndexExpr(b, i) == [k |-> "IndexExpr", base |-> b, index |-> i]
AddrOfExpr(e) == [k |-> "AddrOfExpr", e |-> e]
FieldAccessExpr(o, f) == [k |-> "FieldAccessExpr", object |-> o, field |-> f]
StructLiteral(t, fs) == [k |-> "StructLiteral", type |-> t, fields |-> fs]
ArrayLiteral(es) == [k |-> "ArrayLiteral", elems |-> es]
DictLiteral(ps) == [k |-> "DictLiteral", pairs |-> ps]
SetLiteral(es) == [k |-> "SetLiteral", elems |-> es]
TupleLiteral(es) == [k |-> "TupleLiteral", elems |-> es]
SizeOfExpr(t) == [k |-> "SizeOfExpr", type |-> t]
SliceExpr(t, a, b) == [k |-> "SliceExpr", target |-> t, start |-> a, end |-> b]
RangeExpr(a, b, s) == [k |-> "RangeExpr", start |-> a, end |-> b, step |-> s]
AsmExpr(s) == [k |-> "AsmExpr", s |-> s]
ConditionalExpr(c, t, e) == [k |-> "ConditionalExpr", cond |-> c, then |-> t, else |-> e]
MethodCallExpr(o, m, args) == [k |-> "MethodCallExpr", object |-> o, method |-> m, args |-> args]
MatchExpr(e, arms) == [k |-> "MatchExpr", e |-> e, arms |-> arms]
MatchArm(p, body) == [k |-> "MatchArm", pattern |-> p, body |-> body]
Pattern(v, bs) == [k |-> "Pattern", variant |-> v, bindings |-> bs]

(* Statements *)
VarDecl(name, t, v, const) == [k |-> "VarDecl", name |-> name, type |-> t, value |-> v, const |-> const]
Assignment(t, v) == [k |-> "Assignment", target |-> t, value |-> v, hint |-> None]
HintedAssignment(t, v, h) == [k |-> "Assignment", target |-> t, value |-> v, hint |-> h]
ReturnStmt(v) == [k |-> "ReturnStmt", value |-> v]
IfStmt(c, t, elifs, e) == [k |-> "IfStmt", cond |-> c, then |-> t, elifs |-> elifs, else |-> e]
WhileStmt(c, b) == [k |-> "WhileStmt", cond |-> c, body |-> b]
ForStmt(v, a, b, body) == [k |-> "ForStmt", var |-> v, start |-> a, end |-> b, body |-> body]
ForEachStmt(vs, it, body) == [k |-> "ForEachStmt", vars |-> vs, iter |-> it, body |-> body]
ExprStmt(e) == [k |-> "ExprStmt", e |-> e]
BreakStmt == [k |-> "BreakStmt"]
ContinueStmt == [k |-> "ContinueStmt"]
DeferStmt(s) == [k |-> "DeferStmt", stmt |-> s]
PassStmt == [k |-> "PassStmt"]
WithStmt(c, v, body) == [k |-> "WithStmt", context |-> c, var |-> v, body |-> body]
RaiseStmt(e) == [k |-> "RaiseStmt", e |-> e]
TryExceptStmt(t, e, f) == [k |-> "TryExceptStmt", try |-> t, except |-> e, finally |-> f]

(* Declarations *)
StructField(name, t, d) == [k |-> "StructField", name |-> name, type |-> t, default |-> d]
StructDecl(name, fields) == [k |-> "StructDecl", name |-> name, fields |-> fields]
EnumVariant(name, ts) == [k |-> "EnumVariant", name |-> name, payload |-> ts]
EnumDecl(name, vs) == [k |-> "EnumDecl", name |-> name, variants |-> vs]
Parameter(name, t, d) == [k |-> "Parameter", name |-> name, type |-> t, default |-> d]
ProcDecl(name, tparams, params, ret, body) ==
  [k |-> "ProcDecl", name |-> name, tparams |-> tparams, params |-> params, ret |-> ret, body |-> body]
MethodDecl(rt, rn, name, params, ret, body) ==
  [k |-> "MethodDecl", rtype |-> rt, rname |-> rn, name |-> name, params |-> params, ret |-> ret, body |-> body]
ExternDecl(name, params, ret) == [k |-> "ExternDecl", name |-> name, params |-> params, ret |-> ret]
ImportDecl(path, names) == [k |-> "ImportDecl", path |-> path, names |-> names]
Program(decls, imports) == [k |-> "Program", declarations |-> decls, imports |-> imports]
=============================================================================
