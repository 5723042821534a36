----------------------------- MODULE X86Program -----------------------------
(***************************************************************************)
(* generate() of compiler/codegen_x86.py: from the tree of a program to its *)
(* code, its global variables and its texts, in user mode.                 *)
(***************************************************************************)
EXTENDS X86Gen

Empty == [x \in {} |-> x]

\* X86CodeGen().
NewCodeGen ==
    [out |-> <<>>, local_vars |-> Empty, stack_offset |-> 0, type_table |-> Empty,
     struct_types |-> Empty, enum_types |-> Empty, enum_names |-> <<>>, strings |-> <<>>, label_counter |-> 0,
     global_var_names |-> Empty, defer_stack |-> <<>>, method_return_types |-> Empty,
     return_label |-> "None", loop_start_label |-> NoLoop, loop_end_label |-> NoLoop,
     had_loop |-> FALSE, constants |-> Empty, func_names |-> {}, func_param_defaults |-> Empty,
     externs |-> {}, globals |-> <<>>, failed |-> FALSE]

Define(table, name, value) == (name :> value) @@ table

-----------------------------------------------------------------------------
(* Procedures and methods *)

\* The name of the n-th procedure of a name: main is never renamed.
CountName(g, name) ==
    IF name \in {"main", "_start"} THEN g
    ELSE [g EXCEPT !.global_var_names =
            Define(@, name, IF name \in DOMAIN @ THEN @[name] + 1 ELSE 0)]
LabelOf(g, name) ==
    IF name \in {"main", "_start"} \/ name \notin DOMAIN g.global_var_names THEN name
    ELSE name \o "_" \o ToString(g.global_var_names[name] + 1)

\* The part of a name before the first underscore.
ClassPrefix(name) == SubSeq(name, 1, Find(name, "_", 0) - 1)
HasPrefix(name) == Find(name, "_", 0) > 0

\* self without a type is an object of the class the procedure is named after.
ParamType(p, label, g) ==
    IF /\ p.name = "self" /\ IsNone(p.type)
       /\ HasPrefix(label) /\ ClassPrefix(label) \in DOMAIN g.struct_types
    THEN PointerType(Type(ClassPrefix(label))) ELSE p.type

\* The i-th parameter is at ebp + 8 + 4 (i - 1).
BindParams(g, params) ==
    FoldLeft(LAMBDA h, i : SetLocal(SetType(h, params[i].name, params[i].type),
                                    params[i].name, 8 + 4 * (i - 1)),
             g, [i \in DOMAIN params |-> i])

\* The deferred statements run last to first, with the result kept.
Deferred(stack) ==
    IF stack = <<>> THEN <<>>
    ELSE << <<"push", eax>> >> \o Statements(Reverse(stack)) \o << <<"pop", eax>> >>

\* The room for the locals is known, and inserted, after the body.
Prologue(label, room) ==
    << <<"label", label>> >> \o Enter
    \o (IF room > 0 THEN << <<"sub", esp, Imm(room)>> >> ELSE <<>>)

\* Mutant of Epilogue: the locals stay on the stack.
EpilogueKeepsLocals == << <<"pop", ebp>>, <<"ret">> >>
Epilogue == << <<"mov", esp, ebp>>, <<"pop", ebp>>, <<"ret">> >>

Routine(g, label, params, ret, body) ==
    LET fresh == [g EXCEPT !.out = <<>>, !.local_vars = Empty, !.stack_offset = 0,
                           !.defer_stack = <<>>, !.return_label = label \o "_return"]
        h     == Code(BindParams(fresh, params),
                      (IF IsNone(ret) THEN <<>> ELSE <<ZeroEax>>) \o Statements(body))
        room  == h.stack_offset
        d     == Code(Code(h, << <<"label", h.return_label>> >>), Deferred(h.defer_stack))
        done  == Code(d, Epilogue)
    IN  [done EXCEPT !.out = g.out \o Prologue(label, room) \o @,
                     !.local_vars = g.local_vars, !.stack_offset = g.stack_offset,
                     !.return_label = g.return_label, !.defer_stack = g.defer_stack]

GenProcedure(g, d) ==
    LET label  == LabelOf(g, d.name)
        params == [i \in DOMAIN d.params |->
                    [d.params[i] EXCEPT !.type = ParamType(d.params[i], label, g)]]
    IN  Routine(CountName(g, d.name), label, params, d.ret, d.body)

\* The receiver is the first parameter.
MethodLabel(d) ==
    (IF IsA(d.rtype, {"PointerType"}) THEN NameOf(d.rtype.base) ELSE NameOf(d.rtype)) \o "_" \o d.name
GenMethod(g, d) ==
    Routine(g, MethodLabel(d), <<Parameter(d.rname, d.rtype, None)>> \o d.params, d.ret, d.body)

-----------------------------------------------------------------------------
(* The tables, filled before any code *)

HasDefault(params) == \E i \in DOMAIN params : ~IsNone(params[i].default)
NoteFunction(g, name, params) ==
    [g EXCEPT !.func_names = @ \cup {name},
              !.func_param_defaults = IF HasDefault(params) THEN Define(@, name, params) ELSE @]

\* A constant is a number, or a number with a sign.
ConstantValue(v) ==
    CASE IsA(v, {"IntLiteral"}) -> {v.n}
      [] IsA(v, {"UnaryExpr"}) -> IF v.op = "-" /\ IsA(v.e, {"IntLiteral"}) THEN {-v.e.n} ELSE {}
      [] OTHER -> {}

Collect(g, d) ==
    CASE IsA(d, {"StructDecl"}) -> [g EXCEPT !.struct_types = Define(@, d.name, d)]
      [] IsA(d, {"EnumDecl"})   ->
            [g EXCEPT !.enum_types = Define(@, d.name, d),
                      !.enum_names = IF d.name \in ToSet(@) THEN @ ELSE Append(@, d.name)]
      [] IsA(d, {"VarDecl"}) /\ d.const ->
            IF ConstantValue(d.value) = {} THEN g
            ELSE [g EXCEPT !.constants = Define(@, d.name, CHOOSE n \in ConstantValue(d.value) : TRUE)]
      [] IsA(d, {"VarDecl"})    -> SetType(g, d.name, d.type)
      [] IsA(d, {"ExternDecl"}) ->
            [g EXCEPT !.externs = @ \cup {d.name}, !.func_names = @ \cup {d.name}]
      [] IsA(d, {"ProcDecl"})   -> NoteFunction(g, d.name, d.params)
      [] IsA(d, {"MethodDecl"}) ->
            LET h == NoteFunction(g, MethodLabel(d), d.params)
            IN  IF IsNone(d.ret) THEN h
                ELSE [h EXCEPT !.method_return_types = Define(@, MethodLabel(d), d.ret)]
      [] OTHER -> g

\* What stands in try blocks is collected after everything else.
RECURSIVE CollectAll(_, _)
CollectAll(g, decls) ==
    LET later == FlattenSeq([i \in DOMAIN decls |->
                    IF IsA(decls[i], {"TryExceptStmt"}) THEN decls[i].try \o decls[i].except ELSE <<>>])
        h     == FoldLeft(Collect, g, decls)
    IN  IF later = <<>> THEN h ELSE CollectAll(h, later)

IsGlobal(d) == IsA(d, {"VarDecl"}) /\ ~d.const
NoteGlobal(g, d) ==
    IF d.name \in DOMAIN g.global_var_names THEN g
    ELSE SetType([g EXCEPT !.global_var_names = Define(@, d.name, 0)], d.name, d.type)

-----------------------------------------------------------------------------
(* Declarations in order *)

\* A global variable of a name that is taken gets a label nothing refers to.
GlobalLabel(g, name) ==
    LET n == g.global_var_names[name]
    IN  IF n > 0 THEN "_g_" \o name \o "_" \o ToString(n + 1) ELSE name

\* Only texts, numbers and Booleans are initial values; the others are lost.
GenGlobal(g, d) ==
    LET label == GlobalLabel(g, d.name)
        named == SetType([g EXCEPT !.global_var_names[d.name] = IF @ > 0 THEN @ + 1 ELSE 1],
                         d.name, d.type)
        Place_(h, size, value) ==
            [h EXCEPT !.globals = Append(@, [label |-> label, size |-> size, value |-> value])]
        v == d.value
    IN  CASE IsA(v, {"StringLiteral"}) -> Place_(AddString(named, v.s), 4, Sym(NextString(named)))
          [] IsA(v, {"IntLiteral"})    -> Place_(named, 4, Imm(v.n))
          [] IsA(v, {"BoolLiteral"})   -> Place_(named, 4, Imm(IF v.b THEN 1 ELSE 0))
          [] OTHER -> Place_(named, TypeSize(d.type, named), Imm(0))

GenRoutine(g, d) ==
    CASE IsA(d, {"ProcDecl"})   -> GenProcedure(g, d)
      [] IsA(d, {"MethodDecl"}) -> GenMethod(g, d)
      [] OTHER -> g
GenDeclaration(g, d) ==
    CASE IsA(d, {"TryExceptStmt"}) -> FoldLeft(GenRoutine, g, d.try)
      [] IsGlobal(d) -> GenGlobal(g, d)
      [] OTHER -> GenRoutine(g, d)

Declares(decls, name) == \E i \in DOMAIN decls : IsA(decls[i], {"ProcDecl"}) /\ decls[i].name = name

\* The program: instructions, global variables, the texts of str_0, str_1...
Generate(program) ==
    LET decls     == program.declarations
        collected == CollectAll(NewCodeGen, decls)
        globals   == SelectSeq(decls, IsGlobal)
        g         == FoldLeft(GenDeclaration, FoldLeft(NoteGlobal, collected, globals), decls)
    IN  [code    |-> Routines(Declares(decls, "main"), Declares(decls, "strcmp")) \o g.out,
         globals |-> Append(g.globals, [label |-> "_startup_esp", size |-> 4, value |-> Imm(0)]),
         strings |-> g.strings,
         failed  |-> g.failed]
=============================================================================
