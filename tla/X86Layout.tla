----------------------------- MODULE X86Layout -----------------------------
(***************************************************************************)
(* What the 32-bit code generator (compiler/codegen_x86.py) knows of types: *)
(* how many bytes a value takes, where a field lies, which number a variant *)
(* has, and which type an expression has as far as it can tell (None        *)
(* otherwise).                                                             *)
(*                                                                         *)
(* g is the state of the generator, a record whose fields have the names   *)
(* of the attributes of X86CodeGen.  CASE arms are meant in order.         *)
(***************************************************************************)
EXTENDS Ast, FiniteSets, FiniteSetsExt, Functions, TLC

IsA(x, kinds) == x.k \in kinds

\* table.get(name)
Get(table, name) == IF name \in DOMAIN table THEN table[name] ELSE None

StartsWith(s, p) == Len(s) >= Len(p) /\ SubSeq(s, 1, Len(p)) = p
Includes(s, p) == \E i \in 1..(Len(s) - Len(p) + 1) : SubSeq(s, i, i + Len(p) - 1) = p

\* The name property of the types.
RECURSIVE NameOf(_)
NameOf(t) ==
    CASE IsA(t, {"Type"})        -> t.name
      [] IsA(t, {"PointerType"}) -> "ptr " \o NameOf(t.base)
      [] IsA(t, {"ArrayType"})   -> "array[" \o ToString(t.size) \o ", " \o NameOf(t.elem) \o "]"
      [] IsA(t, {"SliceType"})   -> "[]" \o NameOf(t.elem)
      [] IsA(t, {"ListType"})    -> "List[" \o NameOf(t.elem) \o "]"
      [] IsA(t, {"DictType"})    -> "Dict[" \o NameOf(t.key) \o ", " \o NameOf(t.val) \o "]"
      [] IsA(t, {"GenericInstanceType"}) ->
            t.base \o "[" \o FoldLeft(LAMBDA s, a : IF s = "" THEN NameOf(a) ELSE s \o ", " \o NameOf(a),
                                      "", t.args) \o "]"

IsCharType(t) == t = Type("char")
IsStrType(t) ==
    t \in {Type("str"), Type("string"), PointerType(Type("uint8")), PointerType(Type("char"))}

\* get_type_name: the name of a type, or of what a pointer points to.
TypeName(t) ==
    CASE IsA(t, {"Type"}) -> t.name
      [] IsA(t, {"PointerType"}) -> IF IsA(t.base, {"Type"}) THEN t.base.name ELSE ""
      [] OTHER -> ""

\* The class of a value of type t: what its pointer points to, or t itself.
ClassName(t) == IF IsA(t, {"PointerType"}) THEN NameOf(t.base) ELSE NameOf(t)

\* ord, of the characters the programs have: the first string starts at 32,
\* the second at 97.
FromSpace == " !\"#$%&'()*+,-./0123456789:;<=>?@ABCDEFGHIJKLMNOPQRSTUVWXYZ[\\]^_"
FromA     == "abcdefghijklmnopqrstuvwxyz{|}~"
IndexIn(c, s) == CHOOSE i \in 1..Len(s) : SubSeq(s, i, i) = c
Ord(c) == CASE c = "\n" -> 10
            [] c = "\t" -> 9
            [] c = "\r" -> 13
            [] c = "\f" -> 0                \* for the NUL character
            [] Includes(FromA, c) -> 96 + IndexIn(c, FromA)
            [] OTHER -> 31 + IndexIn(c, FromSpace)

-----------------------------------------------------------------------------
(* Sizes *)

BaseSizes == [int8 |-> 1, uint8 |-> 1, char |-> 1, bool |-> 1, int16 |-> 2, uint16 |-> 2,
              int32 |-> 4, uint32 |-> 4]

RECURSIVE TypeSize(_, _)
StructSize(name, g) ==
    IF name \notin DOMAIN g.struct_types THEN 4
    ELSE FoldLeft(LAMBDA n, f : n + TypeSize(f.type, g), 0, g.struct_types[name].fields)

\* The tag, and room for the largest payload.
EnumSize(name, g) ==
    IF name \notin DOMAIN g.enum_types THEN 8
    ELSE 4 + Max({0} \cup UNION {{TypeSize(t, g) : t \in ToSet(v.payload)} :
                                 v \in ToSet(g.enum_types[name].variants)})

TypeSize(t, g) ==
    CASE IsA(t, {"PointerType"}) -> 4
      [] IsA(t, {"SliceType"})   -> 8
      [] IsA(t, {"ListType"})    -> 16
      [] IsA(t, {"DictType"})    -> 20
      [] IsA(t, {"ArrayType"})   -> t.size * TypeSize(t.elem, g)
      [] OTHER -> LET name == NameOf(t) IN
            CASE name \in DOMAIN g.struct_types -> StructSize(name, g)
              [] name \in DOMAIN g.enum_types   -> EnumSize(name, g)
              [] name \in DOMAIN BaseSizes      -> BaseSizes[name]
              [] OTHER -> 4

\* A variable or field of unknown type takes a word.
SizeOr4(t, g) == IF IsNone(t) THEN 4 ELSE TypeSize(t, g)

-----------------------------------------------------------------------------
(* Fields and variants *)

\* The offsets of fields that objects of unknown type are expected to have.
CommonOffset(field, otherwise) ==
    CASE field \in {"value", "type"} -> 0
      [] field = "name"   -> 4
      [] field = "line"   -> 8
      [] field = "column" -> 12
      [] OTHER -> otherwise

FieldIndex(struct, field, g) ==
    SelectInSeq(g.struct_types[struct].fields, LAMBDA f : f.name = field)

\* Fields are laid out in order, without padding.
OffsetOfNth(struct, i, g) ==
    FoldLeft(LAMBDA n, f : n + TypeSize(f.type, g), 0, SubSeq(g.struct_types[struct].fields, 1, i - 1))

FieldOffset(struct, field, g) ==
    IF struct \notin DOMAIN g.struct_types THEN CommonOffset(field, 0)
    ELSE LET i == FieldIndex(struct, field, g) IN
         IF i > 0 THEN OffsetOfNth(struct, i, g) ELSE CommonOffset(field, StructSize(struct, g))

FieldType(struct, field, g) ==
    IF struct \notin DOMAIN g.struct_types THEN None
    ELSE LET i == FieldIndex(struct, field, g) IN
         IF i > 0 THEN g.struct_types[struct].fields[i].type ELSE None

VariantIndex(enum, variant, g) ==
    SelectInSeq(g.enum_types[enum].variants, LAMBDA v : v.name = variant)

VariantTag(enum, variant, g) ==
    IF enum \notin DOMAIN g.enum_types THEN 0
    ELSE Max({0, VariantIndex(enum, variant, g) - 1})

\* The first enum that has a variant of the name, "" when none does.
EnumConstructor(name, g) ==
    LET i == SelectInSeq(g.enum_names, LAMBDA e : VariantIndex(e, name, g) > 0)
    IN  IF i = 0 THEN "" ELSE g.enum_names[i]

-----------------------------------------------------------------------------
(* The types of expressions *)

Capitalised(name) == name # "" /\ SubSeq(name, 1, 1) \in
    {"A", "B", "C", "D", "E", "F", "G", "H", "I", "J", "K", "L", "M", "N", "O", "P", "Q", "R",
     "S", "T", "U", "V", "W", "X", "Y", "Z"}

ElementType(t) ==
    CASE IsA(t, {"ArrayType", "SliceType"}) -> t.elem
      [] IsA(t, {"PointerType"}) -> t.base
      [] OTHER -> None

RECURSIVE ExprType(_, _)
ExprType(e, g) ==
    CASE IsA(e, {"Identifier"}) -> Get(g.type_table, e.name)
      [] IsA(e, {"FieldAccessExpr"}) ->
            LET t == ExprType(e.object, g)
            IN  IF IsNone(t) THEN None ELSE FieldType(ClassName(t), e.field, g)
      [] IsA(e, {"IndexExpr"}) -> ElementType(ExprType(e.base, g))
      [] IsA(e, {"SliceExpr"}) ->
            LET t == ExprType(e.target, g)
            IN  IF IsA(t, {"ArrayType", "PointerType"}) THEN SliceType(ElementType(t)) ELSE None
      [] IsA(e, {"CastExpr"})      -> e.type
      [] IsA(e, {"StructLiteral"}) -> Type(e.type)
      [] IsA(e, {"IntLiteral"})    -> Type("int32")
      [] IsA(e, {"BoolLiteral"})   -> Type("bool")
      [] IsA(e, {"NoneLiteral"})   -> PointerType(Type("void"))
      [] IsA(e, {"CharLiteral"})   -> Type("char")
      [] IsA(e, {"StringLiteral", "FStringLiteral"}) -> PointerType(Type("uint8"))
      [] IsA(e, {"MethodCallExpr"}) ->
            LET t == ExprType(e.object, g)
            IN  IF IsNone(t) THEN None
                ELSE Get(g.method_return_types, ClassName(t) \o "_" \o e.method)
      [] IsA(e, {"CallExpr"}) ->
            IF Capitalised(e.func) /\ e.func \in DOMAIN g.struct_types
            THEN PointerType(Type(e.func)) ELSE None
      [] OTHER -> None

\* _infer_assignment_type: a capitalised call makes an object.
InferAssignmentType(e, g) ==
    IF IsA(e, {"CallExpr"}) /\ Capitalised(e.func) THEN PointerType(Type(e.func)) ELSE ExprType(e, g)
=============================================================================
