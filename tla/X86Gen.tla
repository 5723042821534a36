------------------------------- MODULE X86Gen -------------------------------
(***************************************************************************)
(* The 32-bit code generator, compiler/codegen_x86.py: the instructions it  *)
(* emits for every expression and statement of a program in user mode.      *)
(*                                                                         *)
(* An instruction is a tuple: its mnemonic and its operands. mov moves a    *)
(* word, movb a byte, movw two bytes, movzxb and movzxw extend; the other   *)
(* mnemonics that end in b work on the low byte of a register.  Code        *)
(* appends to the output a sequence of instructions in which <<"expr", e>>, *)
(* <<"addr", e>> and <<"stmt", s>> stand for the code of a part of the tree. *)
(*                                                                         *)
(* Comments in the output are left out. Where the source makes a label     *)
(* unique by id(expr), its place in the output does. CASE arms are meant in *)
(* order.                                                                  *)
(***************************************************************************)
EXTENDS X86Layout, X86Runtime

E(e) == <<"expr", e>>
Address(e) == <<"addr", e>>
Statements(ss) == [i \in DOMAIN ss |-> <<"stmt", ss[i]>>]

\* gen_expression, gen_lvalue_address and gen_statement, and emit.
RECURSIVE Gen(_, _)
Code(g, items) == Gen(<<"code", items>>, g)

\* An exception: the compiler stops without output.
Fail(g) == [g EXCEPT !.failed = TRUE]

\* new_label, for the n-th label from here on; NewLabels counts them.
NewLabel(g, n, prefix) == prefix \o ToString(g.label_counter + n)
NewLabels(g, n) == [g EXCEPT !.label_counter = @ + n]

AddString(g, s) == [g EXCEPT !.strings = Append(@, s)]
NextString(g) == "str_" \o ToString(Len(g.strings))

\* Room in the frame of the procedure.
Reserve(g, n) == [g EXCEPT !.stack_offset = @ + n]
SetLocal(g, name, offset) == [g EXCEPT !.local_vars = (name :> offset) @@ @]
SetType(g, name, t) == [g EXCEPT !.type_table = (name :> t) @@ @]

\* The offset a binding has once its arm is generated: None in the source, here
\* a number no frame reaches.
Gone == -1000000
IsLocal(name, g) == name \in DOMAIN g.local_vars
Usable(name, g) == IsLocal(name, g) => g.local_vars[name] # Gone

\* An address with None for its offset raises when it is written down.
OffFrame(item) ==
    /\ item[1] \in {"mov", "movb", "movw", "movzxb", "movzxw", "lea"}
    /\ \E i \in {2, 3} : item[i] \in {Frame(Gone), Frame(Gone + 4), Frame(-Gone)}

\* Where a variable lives: in the frame, or at the label of its name.
Place(name, g) == IF IsLocal(name, g) THEN Frame(g.local_vars[name]) ELSE Var(name)

Load(place, size) ==
    CASE size = 1 -> << <<"movzxb", eax, place>> >>
      [] size = 2 -> << <<"movzxw", eax, place>> >>
      [] OTHER    -> << <<"mov", eax, place>> >>
StoreFrom(reg, place, size) ==
    CASE size = 1 -> << <<"movb", place, reg>> >>
      [] size = 2 -> << <<"movw", place, reg>> >>
      [] OTHER    -> << <<"mov", place, reg>> >>
Store(place, size) == StoreFrom(eax, place, size)

\* An index counted in elements becomes a number of bytes.
Scaled(reg, size) ==
    CASE size <= 1 -> <<>>
      [] size = 2  -> << <<"shl", reg, Imm(1)>> >>
      [] size = 4  -> << <<"shl", reg, Imm(2)>> >>
      [] OTHER     -> << <<"imul", reg, Imm(size)>> >>

AddOffset(n) == IF n > 0 THEN << <<"add", eax, Imm(n)>> >> ELSE <<>>

Pushed(args) == FlattenSeq([i \in DOMAIN args |-> <<E(args[i]), <<"push", eax>>>>])
\* Calls with the arguments pushed in the order given.
CallWith(f, args) ==
    Pushed(args) \o << <<"call", f>>, <<"add", esp, Imm(4 * Len(args))>> >>
ZeroEax == <<"xor", eax, eax>>

-----------------------------------------------------------------------------
(* Printing *)

WriteOf(ecxSource, length) ==
    << <<"mov", ecx, ecxSource>>, <<"mov", edx, length>>, <<"mov", ebx, Imm(1)>>,
       <<"mov", eax, Imm(4)>>, <<"int">> >>

\* Write a text of the data section.
WriteText(g, s) ==
    Code(AddString(g, s), WriteOf(Sym(NextString(g)), Imm(Len(s))))

\* The length of the text at eax is counted in ecx.
CountLength(loop, done) ==
    << <<"label", loop>>, <<"movb", ebx, At("eax", 0)>>, <<"testb", ebx, ebx>>, <<"jz", done>>,
       <<"inc", eax>>, <<"inc", ecx>>, <<"jmp", loop>>, <<"label", done>> >>

\* Write the text eax points to.
WriteString(g, prefix) ==
    Code(NewLabels(g, 2),
         << <<"push", eax>>, <<"xor", ecx, ecx>> >>
         \o CountLength(NewLabel(g, 0, prefix), NewLabel(g, 1, prefix \o "_done"))
         \o << <<"pop", ebx>>, <<"mov", edx, ecx>>, <<"mov", ecx, ebx>>, <<"mov", ebx, Imm(1)>>,
               <<"mov", eax, Imm(4)>>, <<"int">> >>)

\* Write the character in the word at the top of the stack.
WriteTop == WriteOf(esp, Imm(1)) \o << <<"add", esp, Imm(4)>> >>
WriteChar(source) == << <<"sub", esp, Imm(4)>>, <<"movb", At("esp", 0), source>> >> \o WriteTop

PrintStringExpr(g, e) == WriteString(Code(g, <<E(e)>>), "print_strlen")
PrintCharExpr(g, e) == Code(g, <<E(e)>> \o WriteChar(eax))

\* The digits are pushed from the last to the first, and written off the stack.
EmitPrintInt(g) ==
    LET pos   == NewLabel(g, 0, "print_int_pos")
        done  == NewLabel(g, 1, "print_int_done")
        div   == NewLabel(g, 2, "print_int_div")
        out   == NewLabel(g, 3, "print_int_out")
        inner == NewLabel(g, 4, "print_int_div_inner")
    IN  Code(NewLabels(g, 5),
             << <<"test", eax, eax>>, <<"jns", pos>>, <<"push", eax>> >> \o WriteChar(Imm(45))
             \o << <<"pop", eax>>, <<"neg", eax>>,
                   <<"label", pos>>, <<"test", eax, eax>>, <<"jnz", div>> >> \o WriteChar(Imm(48))
             \o << <<"jmp", done>>,
                   <<"label", div>>, <<"xor", esi, esi>>,
                   <<"label", inner>>, <<"test", eax, eax>>, <<"jz", out>>,
                   <<"xor", edx, edx>>, <<"mov", ebx, Imm(10)>>, <<"div", ebx>>,
                   <<"add", edx, Imm(48)>>, <<"push", edx>>, <<"inc", esi>>, <<"jmp", inner>>,
                   <<"label", out>>, <<"test", esi, esi>>, <<"jz", done>> >> \o WriteTop
             \o << <<"dec", esi>>, <<"jmp", out>>, <<"label", done>> >>)

IntTypes == {"int32", "int16", "int8", "uint32", "uint16", "uint8",
             "i32", "i16", "i8", "u32", "u16", "u8"}

RECURSIVE Trim(_)
Trim(s) == CASE s # "" /\ StartsWith(s, " ") -> Trim(Tail(s))
             [] s # "" /\ SubSeq(s, Len(s), Len(s)) = " " -> Trim(SubSeq(s, 1, Len(s) - 1))
             [] OTHER -> s

\* Where c first occurs in s after position i, 0 when it does not.
Find(s, c, i) ==
    LET here == {j \in (i + 1)..Len(s) : SubSeq(s, j, j) = c}
    IN  IF here = {} THEN 0 ELSE Min(here)

\* The parts of a name between its dots.
RECURSIVE SplitDots(_)
SplitDots(s) ==
    LET d == Find(s, ".", 0) IN
    IF d = 0 THEN <<s>> ELSE <<SubSeq(s, 1, d - 1)>> \o SplitDots(SubSeq(s, d + 1, Len(s)))

\* {object.field}: the type of the object decides every offset on the way.
\* A local of a negative offset is looked for on the other side of the frame.
FieldInFstring(g, object, fields) ==
    LET t      == Get(g.type_table, object)
        name   == IF IsNone(t) THEN ""
                  ELSE IF StartsWith(NameOf(t), "ptr ") THEN SubSeq(NameOf(t), 5, Len(NameOf(t)))
                  ELSE NameOf(t)
        offset == g.local_vars[object]
        Step(f) == CASE IsNone(t) -> 0
                     [] name \in DOMAIN g.struct_types -> FieldOffset(name, f, g)
                     [] OTHER -> IF f = "output_file" THEN 4 ELSE 0
    IN  WriteString(
          Code(g, << <<"mov", eax, Frame(IF offset > 0 THEN offset ELSE -offset)>> >>
                  \o [i \in DOMAIN fields |-> <<"mov", eax, At("eax", Step(fields[i]))>>]),
          "fstr_strlen")

\* The value of one {name} of an f-string.
Interpolate(g, name) ==
    LET parts == SplitDots(name)
        t     == Get(g.type_table, name)
    IN  CASE Len(parts) > 1 /\ IsLocal(parts[1], g) -> FieldInFstring(g, parts[1], Tail(parts))
          [] Len(parts) = 1 /\ IsLocal(name, g) ->
                LET h == Code(g, << <<"mov", eax, Frame(g.local_vars[name])>> >>)
                IN  IF ~IsNone(t) /\ NameOf(t) \in IntTypes THEN EmitPrintInt(h)
                    ELSE WriteString(h, "fstr_strlen")
          [] OTHER -> WriteText(g, "<" \o name \o ">")

\* The text from position i + 1 on.
RECURSIVE PrintFstring(_, _, _)
PrintFstring(g, s, i) ==
    LET open  == Find(s, "{", i)
        close == Find(s, "}", open)
        h     == IF open > i + 1 THEN WriteText(g, SubSeq(s, i + 1, open - 1)) ELSE g
    IN  CASE i >= Len(s) -> g
          [] open = 0    -> WriteText(g, SubSeq(s, i + 1, Len(s)))
          [] close = 0   -> WriteText(h, SubSeq(s, open, Len(s)))
          [] OTHER -> PrintFstring(Interpolate(h, Trim(SubSeq(s, open + 1, close - 1))), s, close)

GenPrint(g, args) ==
    LET arg  == args[1]
        t    == ExprType(arg, g)
        done == CASE args = <<>> -> g
                  [] IsA(arg, {"FStringLiteral"}) -> PrintFstring(g, arg.s, 0)
                  [] IsA(arg, {"CharLiteral"}) \/ IsCharType(t) -> PrintCharExpr(g, arg)
                  [] OTHER -> PrintStringExpr(g, arg)
    IN  Code(WriteText(done, "\n"), <<ZeroEax>>)

-----------------------------------------------------------------------------
(* Operators *)

SingleChar(e) == IsA(e, {"StringLiteral"}) /\ Len(e.s) = 1

\* A char variable against a text of one character: compared as characters.
CharToLeft(e, g)  == IsCharType(ExprType(e.left, g)) /\ SingleChar(e.right)
CharToRight(e, g) == IsCharType(ExprType(e.right, g)) /\ SingleChar(e.left)

IsText(t) == IsStrType(t) \/ TypeName(t) \in {"str", "any"}
TextTypes(e, g) == IsText(ExprType(e.left, g)) \/ IsText(ExprType(e.right, g))

\* Whether == and != call strcmp. != does not make the exception for a char
\* variable and a text of one character.
ComparesText(e, g) ==
    CASE IsA(e.left, {"CharLiteral"}) \/ IsA(e.right, {"CharLiteral"}) -> FALSE
      [] IsA(e.left, {"StringLiteral"}) \/ IsA(e.right, {"StringLiteral"}) ->
            e.op = "!=" \/ ~(CharToLeft(e, g) \/ CharToRight(e, g))
      [] OTHER -> TextTypes(e, g)

\* Both operands: the left one in eax, the right one in ebx.
Operands(e, g) ==
    LET compares == e.op \in {"==", "!="} IN
    CASE compares /\ CharToLeft(e, g) ->
            <<E(e.left), <<"push", eax>>, <<"mov", eax, Imm(Ord(e.right.s))>>,
              <<"mov", ebx, eax>>, <<"pop", eax>>>>
      [] compares /\ CharToRight(e, g) ->
            << <<"mov", eax, Imm(Ord(e.left.s))>>, <<"push", eax>>, E(e.right),
               <<"mov", ebx, eax>>, <<"pop", eax>> >>
      [] OTHER ->
            <<E(e.left), <<"push", eax>>, E(e.right), <<"mov", ebx, eax>>, <<"pop", eax>>>>

\* A flag as 0 or 1.
FlagToEax(set) == << <<set, eax>>, <<"movzxb", eax, eax>> >>
CallOnOperands(f) ==
    << <<"push", ebx>>, <<"push", eax>>, <<"call", f>>, <<"add", esp, Imm(8)>> >>

\* + joins texts when one side is known to be one. A right side of unknown
\* type is taken for a character when the left side is a text.
Concatenates(e, g) ==
    \/ IsA(e.left, {"StringLiteral"}) \/ IsStrType(ExprType(e.left, g))
    \/ IsA(e.right, {"StringLiteral"}) \/ IsStrType(ExprType(e.right, g))
AppendsChar(e, g) ==
    LET t == ExprType(e.right, g)
    IN  \/ TypeName(t) \in {"uint8", "char", "int8"} /\ ~IsA(t, {"PointerType"})
        \/ /\ IsA(e.left, {"StringLiteral"}) \/ IsStrType(ExprType(e.left, g))
           /\ IsNone(t) /\ ~IsA(e.right, {"StringLiteral"})

\* Mutant of Setter: at most is taken for less.
SetterStrict == ("<" :> "setl") @@ (">" :> "setg") @@ ("<=" :> "setl") @@ (">=" :> "setge")
Setter == ("<" :> "setl") @@ (">" :> "setg") @@ ("<=" :> "setle") @@ (">=" :> "setge")
Direct == ("-" :> "sub") @@ ("*" :> "imul") @@ ("|" :> "or") @@ ("&" :> "and") @@ ("^" :> "xor")
Shift  == ("<<" :> "shl") @@ (">>" :> "shr")

\* What is done with eax and ebx. The other operators leave the left operand.
Operate(e, g) ==
    LET op == e.op IN
    CASE op = "+" /\ Concatenates(e, g) ->
            CallOnOperands(IF AppendsChar(e, g) THEN "strcat_char" ELSE "strcat_alloc")
      [] op = "+" -> << <<"add", eax, ebx>> >>
      [] op \in DOMAIN Direct -> << <<Direct[op], eax, ebx>> >>
      [] op = "/" -> << <<"xor", edx, edx>>, <<"idiv", ebx>> >>
      [] op = "%" -> << <<"xor", edx, edx>>, <<"idiv", ebx>>, <<"mov", eax, edx>> >>
      [] op \in {"==", "!="} /\ ComparesText(e, g) ->
            CallOnOperands("strcmp") \o << <<"test", eax, eax>> >>
            \o FlagToEax(IF op = "==" THEN "setz" ELSE "setnz")
      [] op \in {"==", "!="} ->
            << <<"cmp", eax, ebx>> >> \o FlagToEax(IF op = "==" THEN "sete" ELSE "setne")
      [] op \in DOMAIN Setter -> << <<"cmp", eax, ebx>> >> \o FlagToEax(Setter[op])
      [] op \in DOMAIN Shift -> << <<"mov", ecx, ebx>>, <<Shift[op], eax, ecx>> >>
      [] OTHER -> <<>>

\* and, or: the right operand only when the left one does not decide.
ShortCircuit(g, e, prefix, jump) ==
    LET end == NewLabel(g, 0, prefix)
    IN  Code(NewLabels(g, 1),
             <<E(e.left), <<"test", eax, eax>>, <<jump, end>>, E(e.right), <<"label", end>>>>)

GenBinary(g, e) ==
    CASE e.op = "or"  -> ShortCircuit(g, e, "or_end", "jnz")
      [] e.op = "and" -> ShortCircuit(g, e, "and_end", "jz")
      [] OTHER -> LET h == Code(g, Operands(e, g)) IN Code(h, Operate(e, h))

\* The other unary operators emit nothing.
GenUnary(g, e) ==
    Code(g, <<E(e.e)>> \o
            CASE e.op = "-"   -> << <<"neg", eax>> >>
              [] e.op = "!" -> << <<"test", eax, eax>> >> \o FlagToEax("setz")
              [] OTHER -> <<>>)

GenIdentifier(g, name) ==
    CASE name \in DOMAIN g.constants -> Code(g, << <<"mov", eax, Imm(g.constants[name])>> >>)
      [] ~Usable(name, g) -> Fail(g)
      [] OTHER -> Code(g, Load(Place(name, g), SizeOr4(Get(g.type_table, name), g)))

-----------------------------------------------------------------------------
(* Calls *)

\* The length a slice keeps beside its address, the size of an array, the
\* second word of a list, the characters of a text, and 0 of anything else.
GenLen(g, arg) ==
    LET t == ExprType(arg, g)
        h == Code(g, <<E(arg), <<"push", eax>>, <<"xor", ecx, ecx>>>>)
    IN  CASE IsA(t, {"SliceType"}) ->
                Code(g, IF IsA(arg, {"Identifier"}) /\ IsLocal(arg.name, g)
                        THEN << <<"mov", eax, Frame(g.local_vars[arg.name] + 4)>> >>
                        ELSE <<E(arg), <<"mov", eax, edx>>>>)
          [] IsA(t, {"ArrayType"}) -> Code(g, << <<"mov", eax, Imm(t.size)>> >>)
          [] ~IsNone(t) /\ (IsA(t, {"ListType"}) \/ Includes(NameOf(t), "List")) ->
                Code(g, <<E(arg), <<"mov", eax, At("eax", 4)>>>>)
          [] ~IsNone(t) /\ (IsA(t, {"PointerType"}) \/ NameOf(t) = "str") ->
                Code(NewLabels(h, 2), CountLength(NewLabel(h, 0, "strlen"), NewLabel(h, 1, "strlen_done"))
                                      \o << <<"mov", eax, ecx>>, <<"add", esp, Imm(4)>> >>)
          [] OTHER -> Code(g, <<ZeroEax>>)

InitOf(struct) == struct \o "___init__"

\* An object on the heap, initialised by its __init__.
NewObject(g, struct, args) ==
    LET n == 4 * Len(args)
    IN  Code(g, << <<"push", Imm(StructSize(struct, g))>>, <<"call", "alloc">>,
                   <<"add", esp, Imm(4)>>, <<"push", eax>> >>
                \o Pushed(Reverse(args))
                \o << <<"mov", eax, At("esp", n)>>, <<"push", eax>>, <<"call", InitOf(struct)>>,
                      <<"add", esp, Imm(4 + n)>>, <<"pop", eax>> >>)

\* A struct in the frame: its fields in the order of the arguments.
NewStruct(g, struct, args) ==
    LET h      == Reserve(g, StructSize(struct, g))
        base   == -h.stack_offset
        fields == h.struct_types[struct].fields
    IN  Code(h, FlattenSeq([i \in 1..Min({Len(args), Len(fields)}) |->
                    <<E(args[i]),
                      <<"mov", Frame(base + FieldOffset(struct, fields[i].name, h)), eax>>>>])
                \o << <<"lea", eax, Frame(base)>> >>)

\* Flags of the modes: O_WRONLY|O_CREAT|O_TRUNC, O_WRONLY|O_CREAT|O_APPEND.
OpenFlags(args) ==
    CASE Len(args) < 2 \/ (Len(args) >= 2 /\ ~IsA(args[2], {"StringLiteral"})) -> 0
      [] Includes(args[2].s, "w") -> 577
      [] Includes(args[2].s, "a") -> 1089
      [] OTHER -> 0
GenOpen(g, args) ==
    Code(g, <<E(args[1]), <<"push", eax>>, <<"pop", ebx>>, <<"mov", ecx, Imm(OpenFlags(args))>>,
              <<"mov", edx, Imm(420)>>, <<"mov", eax, Imm(5)>>, <<"int">>>>)

\* hasattr is decided by the declaration of the class.
HasAttr(object, attr, g) ==
    LET t == ExprType(object, g)
    IN  /\ IsA(attr, {"StringLiteral"}) /\ attr.s # ""
        /\ \/ IsNone(t)
           \/ ~IsNone(t) /\ NameOf(t) \in DOMAIN g.struct_types /\ FieldIndex(NameOf(t), attr.s, g) > 0
           \/ ~IsNone(t) /\ NameOf(t) = "any" /\ "any" \notin DOMAIN g.struct_types

PythonBuiltins ==
    {"set", "dict", "list", "tuple", "frozenset", "types", "type", "isinstance", "issubclass",
     "getattr", "setattr", "iter", "next", "enumerate", "zip", "map", "filter", "sorted",
     "reversed", "all", "any", "sum", "min", "max", "abs", "int", "str", "bool", "float", "chr",
     "ord", "hex", "bin", "oct", "range", "input", "open", "id", "hash", "repr",
     "LLVMIntType", "LLVMFloatType", "LLVMPointerType", "LLVMArrayType", "LLVMVoidType",
     "LLVMStructType", "LLVMTypeMapper", "LLVMType", "TypeInfo", "Span", "Symbol",
     "VariableSymbol", "ParamSymbol", "FunctionSymbol", "TypeSymbol", "Scope", "SymbolTable",
     "SymbolError", "DuplicateSymbolError", "UndefinedSymbolError"}

Each(args) == [i \in DOMAIN args |-> E(args[i])]

\* Mutant of CallProcedure: the arguments stay on the stack.
CallLeavesArguments(f, args) == Pushed(Reverse(args)) \o << <<"call", f>> >>
\* The last argument first; the caller takes them off the stack.
CallProcedure(f, args) ==
    Pushed(Reverse(args)) \o << <<"call", f>> >>
    \o (IF args = <<>> THEN <<>> ELSE << <<"add", esp, Imm(4 * Len(args))>> >>)

GenCall(g, e) ==
    LET f == e.func
        args == e.args
    IN  CASE f = "len" /\ Len(args) = 1 -> GenLen(g, args[1])
          [] f = "field" -> Code(g, <<ZeroEax>>)
          [] f \in DOMAIN g.struct_types ->
                IF InitOf(f) \in g.func_names THEN NewObject(g, f, args) ELSE NewStruct(g, f, args)
          [] f = "open" /\ args # <<>> -> GenOpen(g, args)
          [] f = "print" -> GenPrint(g, args)
          [] f = "hasattr" /\ Len(args) = 2 ->
                Code(g, << <<"mov", eax, Imm(IF HasAttr(args[1], args[2], g) THEN 1 ELSE 0)>> >>)
          [] f \in PythonBuiltins ->
                Code(g, Each(args) \o <<IF args = <<>> THEN ZeroEax ELSE E(args[1])>>)
          [] OTHER -> Code(g, CallProcedure(f, args))

-----------------------------------------------------------------------------
(* Method calls *)

\* cmp al with a character, and a jump.
Test(n, jump, label) == << <<"cmpb", eax, Imm(n)>>, <<jump, label>> >>
Answer(n, exit) == << <<"mov", eax, Imm(n)>>, <<"jmp", exit>> >>
DropTop == <<"add", esp, Imm(4)>>

\* The character predicates. '\\t' in the output of isspace is a constant of
\* two characters, of which NASM keeps the first, the backslash.
CharPredicate(g, method) ==
    LET Local(name) == "." \o name \o "_" \o ToString(Len(g.out))
        no == Local("no")
        yes == Local("yes")
        alpha == Local("alpha")
        done == Local("done")
        letter == << <<"andb", eax, Imm(223)>> >> \o Test(65, "jl", no) \o Test(90, "jg", no)
    IN  CASE method = "isdigit" ->
                Test(48, "jl", no) \o Test(57, "jg", no) \o Answer(1, done)
                \o << <<"label", no>>, ZeroEax, <<"label", done>> >>
          [] method = "isalpha" ->
                << <<"push", eax>> >> \o letter
                \o << <<"mov", eax, Imm(1)>>, DropTop, <<"jmp", done>>,
                      <<"label", no>>, DropTop, ZeroEax, <<"label", done>> >>
          [] method = "isalnum" ->
                << <<"push", eax>> >> \o Test(48, "jl", alpha) \o Test(57, "jle", yes)
                \o << <<"label", alpha>> >> \o letter
                \o << <<"label", yes>>, <<"mov", eax, Imm(1)>>, DropTop, <<"jmp", done>>,
                      <<"label", no>>, DropTop, ZeroEax, <<"label", done>> >>
          [] method = "isspace" ->
                Test(32, "je", yes) \o Test(92, "je", yes) \o Test(92, "je", yes)
                \o Test(92, "je", yes)
                \o << ZeroEax, <<"jmp", done>>, <<"label", yes>>, <<"mov", eax, Imm(1)>>,
                      <<"label", done>> >>
          [] OTHER -> <<ZeroEax>>

\* lseek to the end and back, brk for a buffer, read, a zero at the end.
GenRead(g, object) ==
    Code(g, <<E(object), <<"push", eax>>,
              <<"mov", ebx, eax>>, <<"xor", ecx, ecx>>, <<"mov", edx, Imm(2)>>,
              <<"mov", eax, Imm(19)>>, <<"int">>, <<"push", eax>>,
              <<"mov", ebx, At("esp", 4)>>, <<"xor", ecx, ecx>>, <<"xor", edx, edx>>,
              <<"mov", eax, Imm(19)>>, <<"int">>,
              <<"xor", ebx, ebx>>, <<"mov", eax, Imm(45)>>, <<"int">>, <<"push", eax>>,
              <<"mov", ebx, eax>>, <<"add", ebx, At("esp", 4)>>, <<"add", ebx, Imm(1)>>,
              <<"mov", eax, Imm(45)>>, <<"int">>,
              <<"mov", edx, At("esp", 4)>>, <<"mov", ecx, At("esp", 0)>>,
              <<"mov", ebx, At("esp", 8)>>, <<"mov", eax, Imm(3)>>, <<"int">>,
              <<"mov", ecx, At("esp", 0)>>, <<"add", ecx, eax>>, <<"movb", At("ecx", 0), Imm(0)>>,
              <<"mov", eax, At("esp", 0)>>, <<"add", esp, Imm(12)>>>>)

GenWrite(g, object, arg) ==
    LET h    == Code(g, <<E(arg), <<"push", eax>>, E(object), <<"mov", ebx, eax>>,
                          <<"pop", ecx>>, <<"push", ecx>>, <<"xor", edx, edx>>>>)
        loop == NewLabel(h, 0, "write_strlen")
        done == ".write_done_len_" \o ToString(Len(h.out))
    IN  Code(NewLabels(h, 1),
             << <<"label", loop>>, <<"cmpb", AtIndex("ecx", "edx"), Imm(0)>>, <<"je", done>>,
                <<"inc", edx>>, <<"jmp", loop>>, <<"label", done>>, <<"pop", ecx>>,
                <<"mov", eax, Imm(4)>>, <<"int">> >>)

\* Methods of lists: the arguments are evaluated before the object.
AppendCall(e) == CallWith("list_append_i32", <<e.args[1], e.object>>)
PopCall(e)    == CallWith("list_pop_i32", <<e.object>>)
ClearCall(e)  == CallWith("list_clear", <<e.object>>) \o <<ZeroEax>>
GetCall(e) ==
    IF Len(e.args) >= 2 THEN CallWith("dict_get_default", <<e.args[2], e.args[1], e.object>>)
    ELSE CallWith("dict_get", <<e.args[1], e.object>>)

ListMethods == {"append", "extend", "pop", "clear"}
ListMethod(g, e) ==
    Code(g, CASE e.method = "append" /\ Len(e.args) = 1 -> AppendCall(e)
              [] e.method = "pop"   -> PopCall(e)
              [] e.method = "clear" -> ClearCall(e)
              [] OTHER -> Each(e.args) \o <<ZeroEax>>)

DictMethods == {"get", "set", "__setitem__", "contains", "__contains__", "remove", "clear",
                "keys", "values", "items"}
DictMethod(g, e) ==
    IF e.method \in {"get", "contains", "__contains__", "remove"} /\ e.args = <<>> THEN Fail(g)
    ELSE
    Code(g, CASE e.method = "get" -> GetCall(e)
              [] e.method \in {"set", "__setitem__"} ->
                    IF Len(e.args) >= 2
                    THEN CallWith("dict_set", <<e.args[2], e.args[1], e.object>>) \o <<ZeroEax>>
                    ELSE <<>>
              [] e.method \in {"contains", "__contains__"} ->
                    CallWith("dict_contains", <<e.args[1], e.object>>)
              [] e.method = "remove" -> CallWith("dict_remove", <<e.args[1], e.object>>)
              [] e.method = "clear"  -> CallWith("dict_clear", <<e.object>>) \o <<ZeroEax>>
              [] OTHER -> <<E(e.object), ZeroEax>>)

StringMethods ==
    {"lower", "upper", "strip", "lstrip", "rstrip", "split", "join", "replace", "startswith",
     "endswith", "find", "rfind", "index", "rindex", "count", "format", "center", "ljust",
     "rjust", "zfill", "capitalize", "title", "swapcase", "encode", "decode"}

\* A method of something of unknown type, guessed from its name.
UnknownMethod(g, e) ==
    Code(g, CASE e.method = "append" /\ Len(e.args) = 1 -> AppendCall(e)
              [] e.method = "pop" /\ e.args = <<>> -> PopCall(e)
              [] e.method = "clear" -> ClearCall(e)
              [] e.method = "get" -> IF e.args = <<>> THEN <<ZeroEax>> ELSE GetCall(e)
              [] e.method \in {"extend", "remove", "insert", "add", "keys", "values", "items",
                               "update"} -> Each(e.args) \o <<ZeroEax>>
              [] e.method \in {"lower", "upper", "strip", "split", "join", "replace", "match",
                               "current_token", "peek_token"} -> <<E(e.object)>>
              [] StartsWith(e.method, "parse_") -> Each(e.args) \o <<E(e.object), ZeroEax>>
              [] OTHER -> Each(e.args) \o <<E(e.object)>>)

\* sanitize_label: [ ] , < > become _, blanks go.
SanitizeLabel(name) ==
    FoldLeft(LAMBDA s, i : LET c == SubSeq(name, i, i) IN
                CASE c \in {"[", "]", ",", "<", ">"} -> s \o "_"
                  [] c = " " -> s
                  [] OTHER -> s \o c, "", [i \in 1..Len(name) |-> i])

\* The arguments of a call, and the defaults of those that are not given.
WithDefaults(f, args, g) ==
    LET params == SelectSeq(g.func_param_defaults[f], LAMBDA p : p.name # "self")
        More   == [i \in 1..(Len(params) - Len(args)) |->
                    LET d == params[Len(args) + i].default IN IF IsNone(d) THEN IntLiteral(0) ELSE d]
    IN  IF f \in DOMAIN g.func_param_defaults THEN args \o More ELSE args

\* The object of a declared method: by its value when that is an address, and
\* by the address of its place otherwise.
Receiver(e, t, g) ==
    IF \/ IsNone(t) \/ IsA(t, {"PointerType"}) \/ IsA(e.object, {"MethodCallExpr", "CallExpr"})
       \/ NameOf(t) \in DOMAIN g.struct_types
    THEN E(e.object) ELSE Address(e.object)

DeclaredMethod(g, e, t, class) ==
    LET f    == SanitizeLabel(class \o "_" \o e.method)
        args == WithDefaults(f, e.args, g)
    IN  Code(g, Pushed(Reverse(args))
                \o <<Receiver(e, t, g), <<"push", eax>>, <<"call", f>>,
                     <<"add", esp, Imm(4 * Len(args) + 4)>>>>)

GenMethodCall(g, e) ==
    LET t     == ExprType(e.object, g)
        name  == IF IsNone(t) THEN "" ELSE NameOf(t)
        class == IF IsNone(t) THEN "Unknown" ELSE ClassName(t)
        m     == e.method
    IN  CASE m \in ListMethods /\ (StartsWith(name, "List[") \/ StartsWith(name, "[")) ->
                ListMethod(g, e)
          [] m \in {"isdigit", "isalpha", "isalnum", "isspace", "isupper", "islower"} ->
                LET h == Code(g, <<E(e.object)>>) IN Code(h, CharPredicate(h, m))
          [] name = "any" /\ m = "get" ->
                Code(g, <<IF Len(e.args) >= 2 THEN E(e.args[2]) ELSE ZeroEax>>)
          [] m \in StringMethods /\ class \in {"str", "string", "Unknown", ""} ->
                Code(g, <<E(e.object)>>)
          [] m = "read"  -> GenRead(g, e.object)
          [] m = "write" -> IF e.args = <<>> THEN Fail(g) ELSE GenWrite(g, e.object, e.args[1])
          [] m = "close" ->
                Code(g, <<E(e.object), <<"mov", ebx, eax>>, <<"mov", eax, Imm(6)>>, <<"int">>>>)
          [] m = "append" /\ Len(e.args) = 1 /\ (IsNone(t) \/ class \o "_append" \notin g.func_names) ->
                Code(g, AppendCall(e))
          [] m = "lookup" -> Code(g, <<E(e.object), ZeroEax>>)
          [] (StartsWith(class, "Dict") \/ class = "dict") /\ m \in DictMethods -> DictMethod(g, e)
          [] class \in {"Unknown", "any"} \/ StartsWith(class, "Set") -> UnknownMethod(g, e)
          [] OTHER -> DeclaredMethod(g, e, t, class)

-----------------------------------------------------------------------------
(* Casts, indices, slices *)

GenCast(g, e) ==
    Code(g, <<IF IsA(e.e, {"Identifier"}) /\ e.e.name \in g.func_names
              THEN <<"lea", eax, Var(e.e.name)>> ELSE E(e.e)>>)

\* The type that decides how far the elements of an indexed base are apart.
IndexedType(base, g) ==
    CASE IsA(base, {"CastExpr"})   -> base.type
      [] IsA(base, {"Identifier"}) -> Get(g.type_table, base.name)
      [] OTHER -> None

\* kinds: the types whose elements the place that asks knows of.
ElementSize(base, kinds, g) ==
    LET t == IndexedType(base, g)
    IN  IF ~IsNone(t) /\ IsA(t, kinds) THEN TypeSize(ElementType(t), g) ELSE 1

\* Where a variable's elements start: at an array, or where it points to.
ElementsOf(name, g) ==
    << <<IF IsA(Get(g.type_table, name), {"ArrayType"}) THEN "lea" ELSE "mov",
         eax, Place(name, g)>> >>

\* Only a cast is generated without saving the index in ebx.
IndexBase(base, g) ==
    CASE IsA(base, {"CastExpr"})   -> <<E(base)>>
      [] IsA(base, {"Identifier"}) -> ElementsOf(base.name, g)
      [] OTHER -> << <<"push", ebx>>, E(base), <<"pop", ebx>> >>

IsList(t) == IsA(t, {"ListType"}) \/ (~IsNone(t) /\ Includes(TypeName(t), "List"))

GenIndex(g, e) ==
    LET indexed == Code(g, <<E(e.index), <<"mov", ebx, eax>>>>)
        known   == ElementSize(e.base, {"PointerType", "SliceType", "ArrayType"}, indexed)
        h       == Code(indexed, IndexBase(e.base, indexed))
        list    == IsList(ExprType(e.base, h))
        size    == IF list THEN 4 ELSE known
    IN  Code(h, (IF list THEN << <<"mov", eax, At("eax", 0)>> >> ELSE <<>>)
                \o Scaled(ebx, size) \o << <<"add", eax, ebx>> >> \o Load(At("eax", 0), size))

\* A slice leaves its address in eax and its length in edx; a slice of a text
\* is copied.
CopySlice(g) ==
    LET copy == NewLabel(g, 0, "slice_copy")
        done == NewLabel(g, 1, "slice_done")
    IN  Code(NewLabels(g, 2),
             << <<"push", eax>>, <<"push", edx>>, <<"lea", eax, At("edx", 1)>>, <<"push", eax>>,
                <<"call", "alloc">>, <<"add", esp, Imm(4)>>, <<"mov", edi, eax>>, <<"pop", ecx>>,
                <<"pop", esi>>, <<"test", ecx, ecx>>, <<"jz", done>>,
                <<"label", copy>>, <<"movb", ebx, At("esi", 0)>>, <<"movb", At("eax", 0), ebx>>,
                <<"inc", esi>>, <<"inc", eax>>, <<"dec", ecx>>, <<"jnz", copy>>,
                <<"label", done>>, <<"movb", At("eax", 0), Imm(0)>>, <<"mov", eax, edi>> >>)

SliceBase(target, g) ==
    CASE IsA(target, {"Identifier"}) /\ IsLocal(target.name, g) -> ElementsOf(target.name, g)
      [] IsA(target, {"Identifier"}) -> << <<"lea", eax, Var(target.name)>> >>
      [] OTHER -> << <<"push", ecx>>, E(target), <<"pop", ecx>> >>

GenSlice(g, e) ==
    LET bounds == Code(g, <<E(e.end), <<"push", eax>>, E(e.start), <<"mov", ecx, eax>>,
                            <<"pop", edx>>, <<"sub", edx, ecx>>, <<"push", edx>>>>)
        t      == ExprType(e.target, bounds)
        text   == t = Type("str")
        size   == CASE IsA(t, {"ArrayType", "PointerType"}) -> TypeSize(ElementType(t), bounds)
                    [] text -> 1
                    [] OTHER -> 4
        h      == Code(bounds, Scaled(ecx, size) \o SliceBase(e.target, bounds)
                               \o << <<"add", eax, ecx>>, <<"pop", edx>> >>)
    IN  IF text THEN CopySlice(h) ELSE h

GenConditional(g, e) ==
    LET else == NewLabel(g, 0, "cond_else")
        end  == NewLabel(g, 1, "cond_end")
    IN  Code(NewLabels(g, 2),
             <<E(e.cond), <<"test", eax, eax>>, <<"jz", else>>, E(e.then), <<"jmp", end>>,
               <<"label", else>>, E(e.else), <<"label", end>>>>)

\* addr(x), addr(a[i]), addr(o.f)
GenAddrOf(g, x) ==
    CASE IsA(x, {"Identifier"}) ->
            IF Usable(x.name, g) THEN Code(g, << <<"lea", eax, Place(x.name, g)>> >>) ELSE Fail(g)
      [] IsA(x, {"IndexExpr"}) ->
            LET h    == Code(g, <<E(x.index), <<"mov", ebx, eax>>>>)
                size == ElementSize(x.base, {"PointerType", "ArrayType"}, h)
                base == IF IsA(x.base, {"CastExpr", "Identifier"}) THEN IndexBase(x.base, h) ELSE <<>>
            IN  Code(h, base \o Scaled(ebx, size) \o << <<"add", eax, ebx>> >>)
      [] IsA(x, {"FieldAccessExpr"}) ->
            LET h == Code(g, <<E(x.object)>>)
                t == ExprType(x.object, h)
            IN  IF IsNone(t) \/ (~IsNone(t) /\ ClassName(t) \notin DOMAIN h.struct_types) THEN Fail(h)
                ELSE Code(h, AddOffset(FieldOffset(ClassName(t), x.field, h)))
      [] OTHER -> Fail(g)

-----------------------------------------------------------------------------
(* Literals, fields, match *)

\* The fields of a struct literal, stored from base on.
StoreFields(g, struct, fields, base) ==
    FoldLeft(LAMBDA h, f : LET s == Code(h, <<E(f[2])>>) IN
                Code(s, Store(Frame(base + FieldOffset(struct, f[1], s)),
                              SizeOr4(FieldType(struct, f[1], s), s))),
             g, fields)

GenStructLiteral(g, e) ==
    LET h    == Reserve(g, StructSize(e.type, g))
        base == -h.stack_offset
    IN  Code(StoreFields(h, e.type, e.fields, base), << <<"lea", eax, Frame(base)>> >>)

\* [a, b]: a list of 16 bytes on the heap with a data block of its own, to
\* which the elements are appended.
GenArrayLiteral(g, elems) ==
    LET cap  == Max({Len(elems), 4})
        h    == Reserve(g, 4)
        list == Frame(-h.stack_offset)
    IN  Code(h, << <<"push", Imm(16)>>, <<"call", "alloc">>, <<"add", esp, Imm(4)>>, <<"push", eax>>,
                   <<"push", Imm(4 * cap)>>, <<"call", "alloc">>, <<"add", esp, Imm(4)>>,
                   <<"mov", ebx, eax>>, <<"pop", eax>>, <<"mov", list, eax>>,
                   <<"mov", At("eax", 0), ebx>>, <<"mov", At("eax", 4), Imm(0)>>,
                   <<"mov", At("eax", 8), Imm(cap)>>, <<"mov", At("eax", 12), Imm(4)>> >>
                \o FlattenSeq([i \in DOMAIN elems |->
                        <<E(elems[i]), <<"push", eax>>, <<"push", list>>,
                          <<"call", "list_append_i32">>, <<"add", esp, Imm(8)>>>>])
                \o << <<"mov", eax, list>> >>)

GenTuple(g, elems) ==
    LET h    == Reserve(g, 4 * Len(elems))
        base == -h.stack_offset
    IN  IF elems = <<>> THEN Code(g, <<ZeroEax>>)
        ELSE Code(h, FlattenSeq([i \in DOMAIN elems |->
                            <<E(elems[i]), <<"mov", Frame(base + 4 * (i - 1)), eax>>>>])
                     \o << <<"lea", eax, Frame(base)>> >>)

\* A field of an object of unknown type.
FieldOfUnknown(g, e) ==
    CASE IsA(e.object, {"Identifier"}) -> Code(g, << <<"mov", eax, Place(e.object.name, g)>> >>)
      [] IsA(e.object, {"MethodCallExpr", "CallExpr", "FieldAccessExpr"}) ->
            Code(g, <<E(e.object), <<"mov", eax, At("eax", CommonOffset(e.field, 0))>>>>)
      [] OTHER -> Code(g, <<E(e.object)>>)

\* The address of the object whose field is read: what a variable of a class
\* holds is taken for the address of the object.
ObjectAddress(e, t, g) ==
    CASE ~IsA(t, {"PointerType"}) /\ IsA(e.object, {"Identifier"}) ->
            << <<IF NameOf(t) \in DOMAIN g.struct_types THEN "mov" ELSE "lea",
                 eax, Place(e.object.name, g)>> >>
      [] OTHER -> <<E(e.object)>>

GenFieldAccess(g, e) ==
    LET t     == ExprType(e.object, g)
        class == ClassName(t)
    IN  CASE IsA(e.object, {"Identifier"}) /\ e.object.name \in DOMAIN g.enum_types ->
                LET i == VariantIndex(e.object.name, e.field, g)
                IN  IF i = 0 THEN Fail(g) ELSE Code(g, << <<"mov", eax, Imm(i - 1)>> >>)
          [] IsNone(t) -> FieldOfUnknown(g, e)
          [] class \in DOMAIN g.enum_types /\ e.field \in {"name", "value"} ->
                Code(g, <<E(e.object)>>)
          [] OTHER ->
                LET h == Code(g, ObjectAddress(e, t, g))
                IN  Code(h, AddOffset(FieldOffset(class, e.field, h))
                            \o Load(At("eax", 0), SizeOr4(FieldType(class, e.field, h), h)))

\* The variables of an arm are in the frame, and lose their place after it.
BindPayload(g, names) ==
    FoldLeft(LAMBDA h, x : LET r == Reserve(h, 4) IN
                Code(SetLocal(r, x, -r.stack_offset), << <<"mov", Frame(-r.stack_offset), eax>> >>),
             g, names)
Unbind(g, names) == FoldLeft(LAMBDA h, x : SetLocal(h, x, Gone), g, names)

\* The arms are tested in order; end is the label behind the last one.
GenArm(g, arm, i, enum, end) ==
    LET p     == arm.pattern
        next  == NewLabel(g, 0, "match_arm_" \o ToString(i))
        tag   == IF enum = "" THEN i - 1 ELSE VariantTag(enum, p.variant, g)
        taken == Code(NewLabels(g, 1),
                      << <<"mov", eax, At("esp", 0)>>, <<"cmp", eax, Imm(tag)>>, <<"jne", next>> >>)
        bound == IF p.bindings = <<>> \/ enum = "" THEN taken
                 ELSE BindPayload(Code(taken, << <<"mov", eax, At("esp", 4)>>,
                                                 <<"add", eax, Imm(4)>>,
                                                 <<"mov", eax, At("eax", 0)>> >>), p.bindings)
        done  == Code(bound, Statements(arm.body))
        known == SelectSeq(p.bindings, LAMBDA x : IsLocal(x, done))
    IN  Code(Unbind(done, known), << <<"jmp", end>>, <<"label", next>> >>)

GenMatch(g, e) ==
    LET end == NewLabel(g, 0, "match_end")
        h   == Code(NewLabels(g, 1), <<Address(e.e), <<"push", eax>>,
                                       <<"mov", eax, At("eax", 0)>>, <<"push", eax>>>>)
        t   == ExprType(e.e, h)
        enum == IF IsNone(t) THEN "" ELSE NameOf(t)
    IN  Code(FoldLeft(LAMBDA s, i : GenArm(s, e.arms[i], i, enum, end), h,
                      [i \in DOMAIN e.arms |-> i]),
             << <<"label", end>>, <<"add", esp, Imm(8)>> >>)

-----------------------------------------------------------------------------
GenExpression(g, e) ==
    CASE IsA(e, {"IntLiteral"})  -> Code(g, << <<"mov", eax, Imm(e.n)>> >>)
      [] IsA(e, {"CharLiteral"}) -> Code(g, << <<"mov", eax, Imm(Ord(e.s))>> >>)
      [] IsA(e, {"BoolLiteral"}) -> Code(g, << <<"mov", eax, Imm(IF e.b THEN 1 ELSE 0)>> >>)
      [] IsA(e, {"NoneLiteral"}) -> Code(g, <<ZeroEax>>)
      [] IsA(e, {"AsmExpr"})     -> Code(g, << <<"asm", e.s>> >>)
      [] IsA(e, {"StringLiteral", "FStringLiteral"}) ->
            Code(AddString(g, e.s), << <<"mov", eax, Sym(NextString(g))>> >>)
      [] IsA(e, {"Identifier"})  -> GenIdentifier(g, e.name)
      [] IsA(e, {"UnaryExpr"})   -> GenUnary(g, e)
      [] IsA(e, {"BinaryExpr"})  -> GenBinary(g, e)
      [] IsA(e, {"CallExpr"})    -> GenCall(g, e)
      [] IsA(e, {"MethodCallExpr"}) -> GenMethodCall(g, e)
      [] IsA(e, {"CastExpr"})    -> GenCast(g, e)
      [] IsA(e, {"IsInstanceExpr"}) -> Code(g, <<E(e.e), <<"mov", eax, Imm(1)>>>>)
      [] IsA(e, {"IndexExpr"})   -> GenIndex(g, e)
      [] IsA(e, {"SliceExpr"})   -> GenSlice(g, e)
      [] IsA(e, {"ConditionalExpr"}) -> GenConditional(g, e)
      [] IsA(e, {"AddrOfExpr"})  -> GenAddrOf(g, e.e)
      [] IsA(e, {"StructLiteral"}) -> GenStructLiteral(g, e)
      [] IsA(e, {"ArrayLiteral"})  -> GenArrayLiteral(g, e.elems)
      [] IsA(e, {"FieldAccessExpr"}) -> GenFieldAccess(g, e)
      [] IsA(e, {"MatchExpr"})   -> GenMatch(g, e)
      [] IsA(e, {"DictLiteral"}) -> Code(g, <<ZeroEax>>)
      [] IsA(e, {"TupleLiteral"}) -> GenTuple(g, e.elems)
      [] OTHER -> Fail(g)

\* The address of an element counts four bytes for every one before it.
GenLvalueAddress(g, e) ==
    CASE IsA(e, {"Identifier"}) ->
            IF Usable(e.name, g) THEN Code(g, << <<"lea", eax, Place(e.name, g)>> >>) ELSE Fail(g)
      [] IsA(e, {"FieldAccessExpr"}) ->
            LET t      == ExprType(e.object, g)
                offset == IF IsNone(t) THEN CommonOffset(e.field, 0) ELSE FieldOffset(ClassName(t), e.field, g)
                object == IF IsNone(t) \/ IsA(t, {"PointerType"}) THEN E(e.object) ELSE Address(e.object)
            IN  Code(g, <<object>> \o AddOffset(offset))
      [] IsA(e, {"IndexExpr"}) ->
            Code(g, <<E(e.index), <<"mov", ebx, eax>>, E(e.base), <<"imul", ebx, Imm(4)>>,
                      <<"add", eax, ebx>>>>)
      [] OTHER -> Fail(g)

-----------------------------------------------------------------------------
(* Declarations of variables *)

IsListType(t) == IsA(t, {"ListType"}) \/ (~IsNone(t) /\ Includes(NameOf(t), "List"))

\* The elements of an array, as far apart as the type of the first one says.
StoreElements(g, elems, base) ==
    LET size == SizeOr4(ExprType(elems[1], g), g)
    IN  IF elems = <<>> THEN g
        ELSE Code(g, FlattenSeq([i \in DOMAIN elems |->
                        <<E(elems[i])>> \o Store(Frame(base + (i - 1) * size), size)]))

\* A value of an enum: its tag, and the payload behind it.
StoreVariant(g, variant, args, base) ==
    Code(g, << <<"mov", Frame(base), Imm(VariantTag(EnumConstructor(variant, g), variant, g))>> >>
            \o (IF args = <<>> THEN <<>> ELSE <<E(args[1]), <<"mov", Frame(base + 4), eax>>>>))

\* x: C = C(...): the object is on the heap, the variable holds its address.
StoreNewObject(g, struct, args, place) ==
    LET all    == WithDefaults(InitOf(struct), args, g)
        fields == g.struct_types[struct].fields
        h      == Code(g, << <<"push", Imm(StructSize(struct, g))>>, <<"call", "alloc">>,
                             <<"add", esp, Imm(4)>>, <<"mov", place, eax>> >>)
    IN  IF InitOf(struct) \in g.func_names
        THEN Code(h, Pushed(Reverse(all))
                     \o << <<"mov", eax, place>>, <<"push", eax>>, <<"call", InitOf(struct)>>,
                           <<"add", esp, Imm(4 + 4 * Len(all))>> >>)
        ELSE Code(h, FlattenSeq([i \in 1..Min({Len(args), Len(fields)}) |->
                        <<E(args[i]), <<"push", eax>>, <<"mov", ebx, place>>, <<"pop", eax>>,
                          <<"mov", At("ebx", FieldOffset(struct, fields[i].name, h)), eax>>>>]))

\* The name of the variant a value is made with, if it is made so.
VariantMade(v, g) ==
    CASE IsA(v, {"CallExpr"})   -> IF EnumConstructor(v.func, g) = "" THEN "" ELSE v.func
      [] IsA(v, {"Identifier"}) -> IF EnumConstructor(v.name, g) = "" THEN "" ELSE v.name
      [] OTHER -> ""

Initialise(g, d, base) ==
    LET v == d.value
        place == Frame(base)
    IN  CASE IsNone(v) -> g
          [] IsA(v, {"StructLiteral"}) -> StoreFields(g, v.type, v.fields, base)
          [] IsA(v, {"ArrayLiteral"}) ->
                IF IsListType(d.type) THEN Code(g, <<E(v), <<"mov", place, eax>>>>)
                ELSE StoreElements(g, v.elems, base)
          [] VariantMade(v, g) # "" ->
                StoreVariant(g, VariantMade(v, g), IF IsA(v, {"CallExpr"}) THEN v.args ELSE <<>>, base)
          [] IsA(v, {"SliceExpr"}) ->
                Code(g, <<E(v), <<"mov", place, eax>>, <<"mov", Frame(base + 4), edx>>>>)
          [] IsA(v, {"CallExpr"}) /\ v.func \in DOMAIN g.struct_types ->
                StoreNewObject(g, v.func, v.args, place)
          [] OTHER -> Code(g, <<E(v)>> \o Store(place, TypeSize(d.type, g)))

GenVarDecl(g, d) ==
    LET h == Reserve(SetType(g, d.name, d.type), TypeSize(d.type, SetType(g, d.name, d.type)))
        base == -h.stack_offset
    IN  Initialise(SetLocal(h, d.name, base), d, base)

-----------------------------------------------------------------------------
(* Assignments *)

\* A place in the frame for a variable that is assigned for the first time.
Declare(g, name, size) ==
    IF IsLocal(name, g) \/ name \in DOMAIN g.global_var_names THEN g
    ELSE LET h == Reserve(g, size) IN SetLocal(h, name, -h.stack_offset)

AssignVariable(g, name, value) ==
    LET typed == IF name \in DOMAIN g.type_table \/ IsNone(InferAssignmentType(value, g)) THEN g
                 ELSE SetType(g, name, InferAssignmentType(value, g))
        h     == Code(typed, <<E(value)>>)
        size  == SizeOr4(Get(h.type_table, name), h)
        d     == Declare(h, name, size)
    IN  CASE SingleChar(value) /\ IsCharType(Get(typed.type_table, name)) ->
                Code(typed, << <<"mov", eax, Imm(Ord(value.s))>>,
                               <<"movb", Place(name, typed), eax>> >>)
          [] OTHER -> IF Usable(name, d) THEN Code(d, Store(Place(name, d), size)) ELSE Fail(d)

AssignElement(g, target, value) ==
    LET h    == Code(g, <<E(value), <<"push", eax>>, E(target.index), <<"mov", ebx, eax>>>>)
        size == ElementSize(target.base, {"PointerType", "ArrayType"}, h)
        base == IF IsA(target.base, {"CastExpr", "Identifier"}) THEN IndexBase(target.base, h) ELSE <<>>
    IN  Code(h, base \o Scaled(ebx, size)
                \o << <<"add", eax, ebx>>, <<"pop", ebx>> >> \o StoreFrom(ebx, At("eax", 0), size))

\* The object whose field is written: the variable of a class itself.
AssignedObject(object, t, g) ==
    IF ~IsA(t, {"PointerType"}) /\ IsA(object, {"Identifier"})
    THEN << <<"lea", eax, Place(object.name, g)>> >> ELSE <<E(object)>>

AssignField(g, target, value) ==
    LET h     == Code(g, <<E(value), <<"push", eax>>>>)
        o     == target.object
        t     == ExprType(o, h)
        class == ClassName(t)
        d     == Code(h, AssignedObject(o, t, h))
        size  == SizeOr4(FieldType(class, target.field, d), d)
    IN  CASE IsNone(t) /\ IsA(o, {"Identifier"}) ->
                Code(h, << <<"mov", eax, Place(o.name, h)>>, <<"pop", ebx>>,
                           <<"mov", At("eax", 0), ebx>> >>)
          [] IsNone(t) -> Fail(h)
          [] OTHER -> Code(d, AddOffset(FieldOffset(class, target.field, d)) \o << <<"pop", ebx>> >>
                              \o StoreFrom(ebx, At("eax", 0), size))

\* a, b = x, y assigns from left to right; the values were generated before,
\* for a tuple nobody reads.
NewWord(g, name) == IF IsLocal(name, g) THEN g
                    ELSE SetLocal(Reserve(g, 4), name, -(g.stack_offset + 4))
Targets(target) ==
    SelectSeq([i \in DOMAIN target.elems |-> i], LAMBDA i : IsA(target.elems[i], {"Identifier"}))

AssignPairs(g, target, value) ==
    FoldLeft(LAMBDA h, i : LET name == target.elems[i].name
                               d == Code(NewWord(h, name), <<E(value.elems[i])>>)
                           IN  Code(d, << <<"mov", Frame(d.local_vars[name]), eax>> >>),
             g, Targets(target))

Unpack(g, target) ==
    Code(FoldLeft(LAMBDA h, i : LET name == target.elems[i].name
                                    d == NewWord(h, name)
                                IN  Code(d, << <<"mov", eax, At("esp", 0)>>,
                                               <<"mov", eax, At("eax", 4 * (i - 1))>>,
                                               <<"mov", Frame(d.local_vars[name]), eax>> >>),
                  Code(g, << <<"push", eax>> >>), Targets(target)),
         << <<"add", esp, Imm(4)>> >>)

AssignTuple(g, target, value) ==
    LET h == Code(g, <<E(value)>>)
    IN  IF IsA(value, {"TupleLiteral"}) /\ Len(value.elems) = Len(target.elems)
        THEN AssignPairs(h, target, value) ELSE Unpack(h, target)

GenAssignment(g, s) ==
    CASE IsA(s.target, {"Identifier"})      -> AssignVariable(g, s.target.name, s.value)
      [] IsA(s.target, {"IndexExpr"})       -> AssignElement(g, s.target, s.value)
      [] IsA(s.target, {"FieldAccessExpr"}) -> AssignField(g, s.target, s.value)
      [] IsA(s.target, {"TupleLiteral"})    -> AssignTuple(g, s.target, s.value)
      [] OTHER -> Code(g, <<E(s.value)>>)

-----------------------------------------------------------------------------
(* Control flow *)

\* The conditions are tested in order; each one that fails jumps to the next
\* test, the last one to the else block.
GenIf(g, s) ==
    LET n     == Len(s.elifs)
        end   == NewLabel(g, 0, "endif")
        else  == NewLabel(g, n + 1, "else")
        Test_(i) == IF i > n THEN else ELSE NewLabel(g, i, "elif")
        Arm(i) == << <<"label", Test_(i)>>, E(s.elifs[i][1]), <<"test", eax, eax>>,
                     <<"jz", Test_(i + 1)>> >> \o Statements(s.elifs[i][2]) \o << <<"jmp", end>> >>
    IN  Code(NewLabels(g, n + 2),
             <<E(s.cond), <<"test", eax, eax>>, <<"jz", Test_(1)>>>> \o Statements(s.then)
             \o << <<"jmp", end>> >> \o FlattenSeq([i \in 1..n |-> Arm(i)])
             \o << <<"label", else>> >> \o Statements(s.else) \o << <<"label", end>> >>)

\* Where break and continue go. A loop that ends restores the labels of the
\* loop around it, or no label.
NoLoop == "None"
EnterLoop(g, start, end) == [g EXCEPT !.loop_start_label = start, !.loop_end_label = end]
LeaveLoop(g, before) == EnterLoop(g, before.loop_start_label, before.loop_end_label)

\* before the first loop of the program there is no attribute to read.
GenJump(g, label) == IF g.had_loop THEN Code(g, << <<"jmp", label>> >>) ELSE Fail(g)
NoteLoop(g) == [g EXCEPT !.had_loop = TRUE]

GenWhile(g, s) ==
    LET start == NewLabel(g, 0, "while_start")
        end   == NewLabel(g, 1, "while_end")
        body  == EnterLoop(NoteLoop(NewLabels(g, 2)), start, end)
    IN  LeaveLoop(Code(body, << <<"label", start>>, E(s.cond), <<"test", eax, eax>>, <<"jz", end>> >>
                             \o Statements(s.body)
                             \o << <<"jmp", start>>, <<"label", end>> >>), g)

\* for i in range: the variable is noted at a positive offset and stored at
\* the negative one; the end is on the stack and included; break and continue
\* belong to the loop around.
GenFor(g, s) ==
    LET r     == Reserve(g, 4)
        first == Code(SetLocal(r, s.var, r.stack_offset), <<E(s.start)>>)
        h     == Code(first, <<<<"mov", Frame(-first.stack_offset), eax>>, E(s.end), <<"push", eax>>>>)
        start == NewLabel(h, 0, "for_start")
        end   == NewLabel(h, 1, "for_end")
        var   == Frame(-h.local_vars[s.var])
    IN  Code(NewLabels(h, 2),
             << <<"label", start>>, <<"mov", eax, var>>, <<"mov", ebx, At("esp", 0)>>,
                <<"cmp", eax, ebx>>, <<"jg", end>> >> \o Statements(s.body)
             \o << <<"inc", var>>, <<"jmp", start>>, <<"label", end>>, <<"add", esp, Imm(4)>> >>)

\* Nothing is generated for a collection of another type.
ForEachUnknown(g, vars) == FoldLeft(LAMBDA h, v : SetLocal(h, v, -4), g, vars)

\* continue jumps to the test, past the increment of the index.
ForEachList(g, s, t) ==
    LET index  == Frame(-(g.stack_offset + 4))
        var    == Frame(-(g.stack_offset + 8))
        length == Frame(-(g.stack_offset + 12))
        named  == SetType(SetLocal(Reserve(g, 8), s.vars[1], -(g.stack_offset + 8)), s.vars[1], t.elem)
        h      == Code(named, CallWith("list_len", <<s.iter>>))
        i      == Code(Reserve(h, 4), << <<"mov", Frame(-(h.stack_offset + 4)), eax>>,
                                         <<"mov", index, Imm(0)>> >>)
        start  == NewLabel(i, 0, "foreach_list_start")
        end    == NewLabel(i, 1, "foreach_list_end")
        count  == Frame(-(h.stack_offset + 4))
        body   == EnterLoop(NoteLoop(NewLabels(i, 2)), start, end)
    IN  LeaveLoop(Code(body,
             << <<"label", start>>, <<"mov", eax, index>>, <<"cmp", eax, count>>, <<"jge", end>>,
                <<"mov", eax, index>>, <<"push", eax>>, E(s.iter), <<"push", eax>>,
                <<"call", "list_get_i32">>, <<"add", esp, Imm(8)>>, <<"mov", var, eax>> >>
             \o Statements(s.body)
             \o << <<"inc", index>>, <<"jmp", start>>, <<"label", end>> >>), g)

ForEachArray(g, s, t) ==
    LET size   == TypeSize(t.elem, g)
        at     == g.stack_offset + 4 + size
        index  == Frame(-(g.stack_offset + 4))
        named  == SetType(SetLocal(Reserve(g, 4 + size), s.vars[1], -at), s.vars[1], t.elem)
        h      == Code(named, << <<"mov", index, Imm(0)>> >>)
        start  == NewLabel(h, 0, "foreach_start")
        end    == NewLabel(h, 1, "foreach_end")
        base   == IF IsA(s.iter, {"Identifier"}) THEN << <<"lea", ebx, Place(s.iter.name, h)>> >>
                  ELSE <<E(s.iter), <<"mov", ebx, eax>>>>
        body   == EnterLoop(NoteLoop(NewLabels(h, 2)), start, end)
    IN  LeaveLoop(Code(body,
             << <<"label", start>>, <<"mov", eax, index>>, <<"cmp", eax, Imm(t.size)>>,
                <<"jge", end>> >> \o base \o << <<"mov", eax, index>> >> \o Scaled(eax, size)
             \o << <<"add", eax, ebx>> >> \o Load(At("eax", 0), size) \o Store(Frame(-at), size)
             \o Statements(s.body)
             \o << <<"inc", index>>, <<"jmp", start>>, <<"label", end>> >>), g)

GenForEach(g, s) ==
    LET t == ExprType(s.iter, g) IN
    CASE IsA(t, {"ListType"})  -> ForEachList(g, s, t)
      [] IsA(t, {"ArrayType"}) -> ForEachArray(g, s, t)
      [] OTHER -> ForEachUnknown(g, s.vars)

\* The context is a value; nothing is closed at the end.
GenWith(g, s) ==
    LET h == Code(g, <<E(s.context)>>)
        r == Reserve(h, 4)
        d == IF s.var = "" THEN h
             ELSE Code(SetLocal(r, s.var, -r.stack_offset), << <<"mov", Frame(-r.stack_offset), eax>> >>)
    IN  Code(d, Statements(s.body))

GenStatement(g, s) ==
    CASE IsA(s, {"VarDecl"})      -> GenVarDecl(g, s)
      [] IsA(s, {"Assignment"})   -> GenAssignment(g, s)
      [] IsA(s, {"ReturnStmt"})   ->
            Code(g, (IF IsNone(s.value) THEN <<>> ELSE <<E(s.value)>>) \o << <<"jmp", g.return_label>> >>)
      [] IsA(s, {"IfStmt"})       -> GenIf(g, s)
      [] IsA(s, {"BreakStmt"})    -> GenJump(g, g.loop_end_label)
      [] IsA(s, {"ContinueStmt"}) -> GenJump(g, g.loop_start_label)
      [] IsA(s, {"WhileStmt"})    -> GenWhile(g, s)
      [] IsA(s, {"ForStmt"})      -> GenFor(g, s)
      [] IsA(s, {"ForEachStmt"})  -> GenForEach(g, s)
      [] IsA(s, {"ExprStmt"})     -> Code(g, <<E(s.e)>>)
      [] IsA(s, {"AsmExpr"})      -> Code(g, << <<"asm", s.s>> >>)
      [] IsA(s, {"DeferStmt"})    -> [g EXCEPT !.defer_stack = Append(@, s.stmt)]
      [] IsA(s, {"TryExceptStmt"}) -> Code(g, Statements(s.try) \o Statements(s.finally))
      [] IsA(s, {"WithStmt"})     -> GenWith(g, s)
      [] OTHER -> g

\* The code of a sequence is that of its halves, one after the other.
GenSequence(g, items) ==
    LET n == Len(items)
    IN  CASE n = 0 -> g
          [] n = 1 -> Gen(items[1], g)
          [] OTHER -> Code(Code(g, SubSeq(items, 1, n \div 2)), SubSeq(items, n \div 2 + 1, n))

\* After an exception nothing is generated.
Gen(item, g) ==
    CASE g.failed -> g
      [] item[1] = "code" -> GenSequence(g, item[2])
      [] item[1] = "expr" -> GenExpression(g, item[2])
      [] item[1] = "addr" -> GenLvalueAddress(g, item[2])
      [] item[1] = "stmt" -> GenStatement(g, item[2])
      [] OffFrame(item)   -> Fail(g)
      [] OTHER -> [g EXCEPT !.out = Append(@, item)]
=============================================================================
