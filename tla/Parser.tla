------------------------------- MODULE Parser ------------------------------
(***************************************************************************)
(* The parser of the Brainhair compiler (compiler/parser.py): recursive    *)
(* descent over the tokens of Lexer, with blocks found by comparing the    *)
(* columns of tokens.                                                      *)
(*                                                                         *)
(* A parser is a record [toks, pos, val, err].  Each operator takes one    *)
(* and returns the parser after what it consumed, val being the node it    *)
(* built.  err is "" , "SyntaxError", or "hang" where the code loops on    *)
(* the last token for ever; operators leave a parser with an error alone.  *)
(* The arms of a CASE are meant in order.                                  *)
(***************************************************************************)
EXTENDS Ast, Lexer

StartParser(toks) == [toks |-> toks, pos |-> 1, val |-> None, err |-> ""]
Ok(p) == p.err = ""
Tok(p) == p.toks[p.pos]
PeekType(p) == IF p.pos + 1 > Len(p.toks) THEN Last(p.toks).type ELSE p.toks[p.pos + 1].type
Is(p, type) == Ok(p) /\ Tok(p).type = type
IsIn(p, types) == Ok(p) /\ Tok(p).type \in types
IsName(p, name) == Is(p, "IDENT") /\ Tok(p).val = name
Adv(p) == IF Ok(p) /\ p.pos < Len(p.toks) THEN [p EXCEPT !.pos = @ + 1] ELSE p
Stop(p, e) == IF Ok(p) THEN [p EXCEPT !.err = e] ELSE p
Ret(p, v) == IF Ok(p) THEN [p EXCEPT !.val = v] ELSE p
(* expect: the value of the parser is then the token. *)
Expect(p, type) == IF Is(p, type) THEN Ret(Adv(p), Tok(p)) ELSE Stop(p, "SyntaxError")
(* Consumes a token when it has the type. *)
Opt(p, type) == IF Is(p, type) THEN Adv(p) ELSE p
RECURSIVE SkipNewlines(_)
SkipNewlines(p) == IF Is(p, "NEWLINE") THEN SkipNewlines(Adv(p)) ELSE p
RECURSIVE SkipTill(_, _)
SkipTill(p, types) == IF ~Ok(p) \/ IsIn(p, types) THEN p ELSE IF Is(p, "EOF") THEN Stop(p, "hang") ELSE SkipTill(Adv(p), types)

KeywordNames ==
  {"var", "def", "class", "from", "import", "as", "return", "if", "elif", "else", "while", "for", "in", "break",
   "continue", "pass", "with", "raise", "try", "except", "finally", "match", "const", "extern", "asm", "defer", "ptr",
   "list", "dict", "tuple", "optional", "array", "enum", "int", "float", "bool", "str", "char", "bytes"}
KeywordName(type) == IF type \in KeywordNames THEN type ELSE "unknown"

CompoundOps == [t \in {"+=", "-=", "*=", "/=", "//=", "%=", "&=", "|=", "^=", "<<=", ">>="} |-> SubSeq(t, 1, Len(t) - 1)]
BasicTypes == {"int8", "int16", "int32", "int64", "uint8", "uint16", "uint32", "uint64", "float32", "float64", "bool",
               "char", "str", "bytes", "int", "float"}
BasicType(t) == IF t \in {"int", "float"} THEN t \o "32" ELSE t
TypeKeywords == {"ptr"} \cup (BasicTypes \ {"bytes", "int", "float"})

(* The parsing functions that call each other around a cycle, by name:     *)
(* Nested(f, p) is the call of f.                                          *)
RECURSIVE Nested(_, _), CommaTypes(_, _)

(***************************************************************************)
(* Types                                                                   *)
(***************************************************************************)
CommaTypes(p, acc) ==
  IF ~Is(p, ",") THEN Ret(p, acc) ELSE LET t == Nested("type", Adv(p)) IN CommaTypes(t, Append(acc, t.val))
(* [A, B, ...]: the value is the sequence of types. *)
BracketTypes(p) ==
  LET first == Nested("type", Expect(p, "["))
      rest == CommaTypes(first, <<first.val>>)
  IN Ret(Expect(rest, "]"), rest.val)

ParseType(p) ==
  LET t == Tok(p)
      q == Adv(p)
  IN CASE ~Ok(p) -> p
       [] t.type = "STRING" -> Ret(q, Type(t.val))
       [] t.type = "none" -> Ret(q, Type("None"))
       [] t.type \in BasicTypes -> Ret(q, Type(BasicType(t.type)))
       [] t.type = "ptr" /\ Is(q, "[") -> LET b == Nested("type", Adv(q)) IN Ret(Expect(b, "]"), PointerType(b.val))
       [] t.type \in {"ptr", "*"} -> LET b == Nested("type", q) IN Ret(b, PointerType(b.val))
       [] t.type = "list" ->
            IF Is(q, "[") THEN LET e == Nested("type", Adv(q)) IN Ret(Expect(e, "]"), ListType(e.val)) ELSE Ret(q, Type("List"))
       [] t.type = "dict" ->
            LET key == Nested("type", Adv(q))
                val == Nested("type", Expect(key, ","))
            IN IF Is(q, "[") THEN Ret(Expect(val, "]"), DictType(key.val, val.val)) ELSE Ret(q, Type("Dict"))
       [] t.type = "optional" -> LET i == Nested("type", Expect(q, "[")) IN Ret(Expect(i, "]"), GenericInstanceType("Optional", <<i.val>>))
       [] t.type = "tuple" -> LET ts == BracketTypes(q) IN Ret(ts, GenericInstanceType("Tuple", ts.val))
       [] t.type = "final" -> LET i == Nested("type", Expect(q, "[")) IN Ret(Expect(i, "]"), i.val)
       [] t.type = "array" ->
            LET size == Expect(Expect(q, "["), "NUMBER")
                elem == Nested("type", Expect(size, ","))
            IN IF ~Ok(size) THEN size ELSE Ret(Expect(elem, "]"), ArrayType(size.val.num, elem.val))
       [] t.type = "[" -> LET e == Nested("type", Expect(q, "]")) IN Ret(e, SliceType(e.val))
       [] t.type = "IDENT" ->
            IF Is(q, "[") THEN LET ts == BracketTypes(q) IN Ret(ts, GenericInstanceType(t.val, ts.val)) ELSE Ret(q, Type(t.val))
       [] OTHER -> Stop(p, "SyntaxError")

(***************************************************************************)
(* Atoms                                                                   *)
(***************************************************************************)
(* expr, expr, ...: the sequence acc extended. *)
RECURSIVE CommaExprs(_, _)
CommaExprs(p, acc) ==
  IF ~Is(p, ",") THEN Ret(p, acc) ELSE LET e == Nested("expression", Adv(p)) IN CommaExprs(e, Append(acc, e.val))
(* The same with newlines after a comma and a comma before the bracket. *)
RECURSIVE Elements(_, _, _)
Elements(p, close, acc) ==
  LET q == SkipNewlines(Adv(p))
      e == Nested("expression", q)
  IN IF ~Is(p, ",") \/ Is(q, close) THEN Ret(IF Is(p, ",") THEN q ELSE p, acc) ELSE Elements(e, close, Append(acc, e.val))
RECURSIVE Pairs(_, _)
Pairs(p, acc) ==
  LET q == SkipNewlines(Adv(p))
      key == Nested("expression", q)
      val == Nested("expression", Expect(key, ":"))
  IN IF ~Is(p, ",") \/ Is(q, "}") THEN Ret(IF Is(p, ",") THEN q ELSE p, acc) ELSE Pairs(val, Append(acc, <<key.val, val.val>>))
(* for name in iterable close: the end of a comprehension, which is dropped. *)
Comprehension(p, close) ==
  Expect(SkipNewlines(Nested("expression", Expect(Expect(Adv(p), "IDENT"), "in"))), close)

ParseListDisplay(p) ==
  LET q == SkipNewlines(Adv(p))
      first == Nested("expression", q)
      all == Elements(first, "]", <<first.val>>)
  IN CASE Is(q, "]") -> Ret(Adv(q), ArrayLiteral(<<>>))
       [] Is(first, "for") -> Ret(Comprehension(first, "]"), ArrayLiteral(<<>>))
       [] OTHER -> Ret(Expect(SkipNewlines(all), "]"), ArrayLiteral(all.val))

ParseBraceDisplay(p) ==
  LET q == SkipNewlines(Adv(p))
      first == Nested("expression", q)
      all == Elements(first, "}", <<first.val>>)
      val == Nested("expression", Expect(first, ":"))
      pairs == Pairs(val, << <<first.val, val.val>> >>)
  IN CASE Is(q, "}") -> Ret(Adv(q), DictLiteral(<<>>))
       [] Is(first, "for") -> Ret(Comprehension(first, "}"), SetLiteral(<<first.val>>))
       [] Is(first, ",") -> Ret(Expect(SkipNewlines(all), "}"), SetLiteral(all.val))
       [] Is(first, "}") -> Ret(Adv(first), SetLiteral(<<first.val>>))
       [] OTHER -> Ret(Expect(SkipNewlines(pairs), "}"), DictLiteral(pairs.val))

ParseParen(p) ==
  LET q == SkipNewlines(Adv(p))
      first == Nested("expression", q)
      all == Elements(first, ")", <<first.val>>)
  IN CASE Is(q, ")") -> Ret(Adv(q), TupleLiteral(<<>>))
       [] Is(first, ",") -> Ret(Expect(all, ")"), TupleLiteral(all.val))
       [] OTHER -> Ret(Expect(first, ")"), first.val)

UnaryOps == [t \in {"-", "not", "~"} |-> IF t = "not" THEN "!" ELSE t]
ParseSigned(p, op) == LET e == Nested("unary", Adv(p)) IN Ret(e, UnaryExpr(op, e.val))

ParseAtom(p) ==
  LET t == Tok(p)
      q == Adv(p)
  IN CASE ~Ok(p) -> p
       [] t.type = "NUMBER" -> Ret(q, IntLiteral(t.num))
       [] t.type = "CHAR" -> Ret(q, CharLiteral(t.val))
       [] t.type = "STRING" -> Ret(q, StringLiteral(t.val))
       [] t.type = "FSTRING" -> Ret(q, FStringLiteral(t.val))
       [] t.type \in {"true", "false"} -> Ret(q, BoolLiteral(t.type = "true"))
       [] t.type = "none" -> Ret(q, NoneLiteral)
       [] t.type = "[" -> ParseListDisplay(p)
       [] t.type = "{" -> ParseBraceDisplay(p)
       [] t.type = "ptr" ->
            LET ty == Nested("type", Expect(q, "["))
                e == Nested("expression", Expect(Expect(ty, "]"), "("))
            IN Ret(Expect(e, ")"), CastExpr(PointerType(ty.val), e.val))
       [] t.type = "IDENT" -> Ret(q, Identifier(t.val))
       [] t.type \in KeywordNames -> Ret(q, Identifier(t.type))
       [] t.type = "(" -> ParseParen(p)
       [] t.type \in DOMAIN UnaryOps -> ParseSigned(p, UnaryOps[t.type])
       [] OTHER -> Stop(p, "SyntaxError")

(***************************************************************************)
(* Primaries: the built-in forms, then an atom with its postfixes          *)
(***************************************************************************)
ParseLambda(p) == Ret(Nested("expression", Adv(SkipTill(Adv(p), {":"}))), NoneLiteral)
ParseAddr(p) == LET e == Nested("expression", Expect(Adv(p), "(")) IN Ret(Expect(e, ")"), AddrOfExpr(e.val))
ParseCast(p) ==
  LET ty == Nested("type", Expect(Adv(p), "["))
      e == Nested("expression", Expect(Expect(ty, "]"), "("))
  IN Ret(Expect(e, ")"), CastExpr(ty.val, e.val))

(* name.name...: the value is the dotted name. *)
RECURSIVE DottedRest(_, _)
DottedRest(p, acc) ==
  LET t == Expect(Adv(p), "IDENT")
  IN IF ~Is(p, ".") THEN Ret(p, acc) ELSE IF Ok(t) THEN DottedRest(t, acc \o "." \o t.val.val) ELSE t
DottedName(p) == LET t == Expect(p, "IDENT") IN IF Ok(t) THEN DottedRest(t, t.val.val) ELSE t
RECURSIVE MoreNames(_)
MoreNames(p) == IF Is(p, ",") THEN MoreNames(DottedName(Adv(p))) ELSE p
ParseIsInstance(p) ==
  LET e == Nested("expression", Expect(Adv(p), "("))
      c == Expect(e, ",")
      one == DottedName(c)
      several == DottedName(Adv(c))
  IN IF Is(c, "(") THEN Ret(Expect(Expect(MoreNames(several), ")"), ")"), IsInstanceExpr(e.val, several.val))
     ELSE Ret(Expect(one, ")"), IsInstanceExpr(e.val, one.val))

ParseIntCall(p) ==
  LET e == Nested("expression", Expect(Adv(p), "("))
  IN Ret(Expect(CommaExprs(e, <<>>), ")"), CastExpr(Type("int32"), e.val))
ParseOneArgument(p, f) ==
  LET e == Nested("expression", Expect(Adv(p), "(")) IN Ret(Expect(e, ")"), CallExpr(f, <<e.val>>))
ParseSizeOf(p) == LET t == Nested("type", Expect(Adv(p), "(")) IN Ret(Expect(t, ")"), SizeOfExpr(t.val))

(* a, b, c in the parentheses of range: the value is the sequence of one to three. *)
RangeArguments(p) ==
  LET a == Nested("expression", p)
      b == Nested("expression", Adv(a))
      c == Nested("expression", Adv(b))
  IN CASE ~Is(a, ",") -> Ret(Expect(a, ")"), <<a.val>>)
       [] ~Is(b, ",") -> Ret(Expect(b, ")"), <<a.val, b.val>>)
       [] OTHER -> Ret(Expect(c, ")"), <<a.val, b.val, c.val>>)
ParseRange(p) ==
  LET r == RangeArguments(Expect(Adv(p), "("))
      nth(i) == IF i <= Len(r.val) THEN r.val[i] ELSE None
  IN IF Ok(r) THEN Ret(r, RangeExpr(r.val[1], nth(2), nth(3))) ELSE r

ParseAsm(p) ==
  LET q == Adv(p)
      s == Expect(IF Is(q, "(") THEN Adv(q) ELSE q, "STRING")
  IN IF ~Ok(s) THEN s ELSE Ret(IF Is(q, "(") THEN Expect(s, ")") ELSE s, AsmExpr(s.val.val))

(* Name(field: value, ...) *)
RECURSIVE FieldValues(_, _)
FieldValues(p, acc) ==
  LET f == Expect(p, "IDENT")
      v == Nested("expression", Expect(f, ":"))
      all == Append(acc, <<f.val.val, v.val>>)
      q == SkipNewlines(Adv(v))
  IN CASE ~Ok(f) -> f
       [] ~Is(v, ",") -> Ret(v, all)
       [] Is(q, ")") -> Ret(q, all)
       [] OTHER -> FieldValues(q, all)
ParseStructLiteral(p, name) ==
  LET fs == FieldValues(SkipNewlines(Adv(p)), <<>>)
  IN Ret(Expect(SkipNewlines(fs), ")"), StructLiteral(name, fs.val))

(* From the for of a generator argument to the parenthesis that closes the call. *)
RECURSIVE SkipGenerator(_, _)
SkipGenerator(p, depth) ==
  LET q == Adv(p)
  IN CASE ~Ok(p) \/ depth = 0 -> p
       [] q.pos = p.pos -> Stop(p, "hang")
       [] Is(q, "(") -> SkipGenerator(q, depth + 1)
       [] Is(q, ")") -> SkipGenerator(q, depth - 1)
       [] OTHER -> SkipGenerator(q, depth)

(* The arguments of a call: a * or ** argument is parsed and dropped, the  *)
(* name of a keyword argument is dropped, a generator becomes an empty     *)
(* array.  Only plain calls skip newlines after a comma.                   *)
RECURSIVE Arguments(_, _, _)
Arguments(p, plain, acc) ==
  LET after(q) == IF Is(q, ",") THEN IF plain THEN SkipNewlines(Adv(q)) ELSE Adv(q) ELSE q
      star == Nested("expression", Opt(Adv(p), "*"))
      first == Nested("expression", p)
      arg == IF Is(first, "=") THEN Nested("expression", Adv(first)) ELSE first
  IN CASE ~Ok(p) \/ Is(p, ")") -> Ret(p, acc)
       [] IsIn(p, {"*", "**"}) -> Arguments(IF plain THEN SkipNewlines(Opt(star, ",")) ELSE Opt(star, ","), plain, acc)
       [] Is(first, "for") -> Ret(SkipGenerator(first, 1), Append(acc, ArrayLiteral(<<>>)))
       [] Is(arg, ",") -> Arguments(after(arg), plain, Append(acc, arg.val))
       [] OTHER -> Ret(arg, Append(acc, arg.val))

ParseCall(p, e) ==
  LET q == SkipNewlines(Adv(p))
      args == Arguments(q, TRUE, <<>>)
      end == Expect(SkipNewlines(args), ")")
  IN CASE e.k = "Identifier" /\ Is(q, "IDENT") /\ PeekType(q) = ":" -> ParseStructLiteral(p, e.name)
       [] e.k = "Identifier" -> Ret(end, CallExpr(e.name, args.val))
       [] OTHER -> Stop(end, "SyntaxError")

(* name[T, ...](...): a bracket that holds only names and type keywords    *)
(* and is followed by a parenthesis.                                       *)
TypeArgumentKeywords == {"ptr", "list", "dict", "optional", "tuple"} \cup (BasicTypes \ {"float32", "float64"})
RECURSIVE TypeArgumentsEnd(_, _)
TypeArgumentsEnd(toks, i) ==
  IF i <= Len(toks) /\ toks[i].type \in TypeArgumentKeywords \cup {"IDENT", ","} THEN TypeArgumentsEnd(toks, i + 1) ELSE i
IsGenericCall(p) ==
  LET q == Adv(p)
      e == TypeArgumentsEnd(p.toks, q.pos)
  IN /\ IsIn(q, TypeArgumentKeywords \cup {"IDENT"})
     /\ e + 1 <= Len(p.toks) /\ p.toks[e].type = "]" /\ p.toks[e + 1].type = "("
ParseGenericCall(p, e) ==
  LET ts == BracketTypes(p)
      q == SkipNewlines(Expect(ts, "("))
      first == Nested("expression", q)
      args == IF Is(q, ")") THEN Ret(q, <<>>) ELSE Elements(first, ")", <<first.val>>)
  IN Ret(Expect(SkipNewlines(args), ")"), GenericCallExpr(e.name, args.val, ts.val))

ParseSubscript(p, e) ==
  LET q == Adv(p)
      head == Nested("expression", Adv(q))
      index == Nested("expression", q)
      tail == Nested("expression", Adv(index))
  IN CASE Is(q, ":") /\ Is(Adv(q), "]") -> Ret(Adv(Adv(q)), e)
       [] Is(q, ":") -> Ret(Expect(head, "]"), SliceExpr(e, IntLiteral(0), head.val))
       [] Is(index, ":") /\ Is(Adv(index), "]") -> Ret(Adv(Adv(index)), SliceExpr(e, index.val, IntLiteral(999999999)))
       [] IsIn(index, {"..", ":"}) -> Ret(Expect(tail, "]"), SliceExpr(e, index.val, tail.val))
       [] OTHER -> Ret(Expect(index, "]"), IndexExpr(e, index.val))

(* A field or method may be named like a keyword. *)
MemberName(p) ==
  CASE Is(p, "IDENT") -> Ret(Adv(p), Tok(p).val)
    [] IsIn(p, KeywordTypes) -> Ret(Adv(p), Tok(p).type)
    [] OTHER -> Stop(p, "SyntaxError")
ParseMember(p, e) ==
  LET f == MemberName(Adv(p))
      args == Arguments(Adv(f), FALSE, <<>>)
  IN IF Is(f, "(") THEN Ret(Expect(args, ")"), MethodCallExpr(e, f.val, args.val)) ELSE Ret(f, FieldAccessExpr(e, f.val))

RECURSIVE Postfix(_)
Postfix(p) ==
  CASE Is(p, "(") -> Postfix(ParseCall(p, p.val))
    [] Is(p, "[") /\ p.val.k = "Identifier" /\ IsGenericCall(p) -> Postfix(ParseGenericCall(p, p.val))
    [] Is(p, "[") -> Postfix(ParseSubscript(p, p.val))
    [] Is(p, ".") -> Postfix(ParseMember(p, p.val))
    [] OTHER -> p

(* match expression: arms at the column of the first one. *)
RECURSIVE Names(_, _)
Names(p, acc) ==
  LET t == Expect(Adv(p), "IDENT")
  IN IF ~Is(p, ",") THEN Ret(p, acc) ELSE IF Ok(t) THEN Names(t, Append(acc, t.val.val)) ELSE t
Bindings(p) ==
  LET q == Adv(p)
      first == Expect(q, "IDENT")
      all == Names(first, <<first.val.val>>)
  IN CASE ~Is(p, "(") -> Ret(p, <<>>)
       [] Is(q, ")") -> Ret(Adv(q), <<>>)
       [] ~Ok(first) -> first
       [] OTHER -> Ret(Expect(all, ")"), all.val)
RECURSIVE Arms(_, _, _)
Arms(p, indent, acc) ==
  LET q == SkipNewlines(p)
      v == Expect(q, "IDENT")
      bs == Bindings(v)
      body == Nested("block", SkipNewlines(Expect(bs, ":")))
  IN CASE ~Ok(q) \/ Is(q, "EOF") \/ (indent > 0 /\ Tok(q).col < indent) -> Ret(q, acc)
       [] ~Ok(v) -> v
       [] OTHER -> Arms(body, IF indent = 0 THEN Tok(q).col ELSE indent, Append(acc, MatchArm(Pattern(v.val.val, bs.val), body.val)))
ParseMatch(p) ==
  LET e == Nested("expression", Adv(p))
      arms == Arms(SkipNewlines(Expect(e, ":")), 0, <<>>)
  IN Ret(arms, MatchExpr(e.val, arms.val))

ParsePrimary(p) ==
  LET call == PeekType(p) = "("
  IN CASE Is(p, "lambda") -> ParseLambda(p)
       [] IsName(p, "addr") /\ call -> ParseAddr(p)
       [] IsName(p, "cast") /\ PeekType(p) = "[" -> ParseCast(p)
       [] Is(p, "isinstance") /\ call -> ParseIsInstance(p)
       [] Is(p, "int") /\ call -> ParseIntCall(p)
       [] Is(p, "str") /\ call -> ParseOneArgument(p, "str")
       [] IsName(p, "len") /\ call -> ParseOneArgument(p, "len")
       [] IsName(p, "sizeof") /\ call -> ParseSizeOf(p)
       [] IsName(p, "range") /\ call -> ParseRange(p)
       [] Is(p, "asm") -> ParseAsm(p)
       [] Is(p, "match") -> ParseMatch(p)
       [] OTHER -> Postfix(ParseAtom(p))

ParseUnary(p) ==
  CASE ~Ok(p) -> p
    [] Tok(p).type \in DOMAIN UnaryOps -> ParseSigned(p, UnaryOps[Tok(p).type])
    [] Tok(p).type = "*" -> ParseSigned(p, "*")
    [] OTHER -> ParsePrimary(p)

(***************************************************************************)
(* Binary operators, loosest last                                          *)
(***************************************************************************)
(* Mutant of ParsePower: the operand to the right takes no further power. *)
ParsePowerOnce(p) ==
  LET l == ParseUnary(p)
      r == ParseUnary(Adv(l))
  IN IF Is(l, "**") THEN Ret(r, BinaryExpr(l.val, "**", r.val)) ELSE l
RECURSIVE ParsePower(_)
ParsePower(p) ==
  LET l == Nested("unary", p)
      r == ParsePower(Adv(l))
  IN IF Is(l, "**") THEN Ret(r, BinaryExpr(l.val, "**", r.val)) ELSE l

(* Levels 1 (tightest) to 6: operators that group to the left. *)
LevelOps == << {"*", "/", "//", "%"}, {"+", "-"}, {"<<", ">>"}, {"&"}, {"^"}, {"|"} >>
RECURSIVE ParseLevel(_, _), LevelRest(_, _)
LevelRest(p, level) ==
  LET r == ParseLevel(Adv(p), level - 1)
  IN IF IsIn(p, LevelOps[level]) THEN LevelRest(Ret(r, BinaryExpr(p.val, Tok(p).type, r.val)), level) ELSE p
ParseLevel(p, level) == IF level = 0 THEN ParsePower(p) ELSE LevelRest(ParseLevel(p, level - 1), level)

CompareOps == [t \in {"==", "!=", "<", "<=", ">", ">=", "in"} |-> t]
(* Comparisons: the value is the sequence of the binary expressions of a chain. *)
RECURSIVE Comparisons(_, _, _)
Comparisons(p, left, acc) ==
  LET width == IF (Is(p, "is") /\ PeekType(p) = "not") \/ Is(p, "not") THEN 2 ELSE 1
      op == CASE Is(p, "not") -> "not in" [] Is(p, "is") -> IF width = 2 THEN "!=" ELSE "==" [] OTHER -> Tok(p).type
      r == ParseLevel(IF width = 2 THEN Adv(Adv(p)) ELSE Adv(p), 6)
  IN IF IsIn(p, DOMAIN CompareOps \cup {"is"}) \/ (Is(p, "not") /\ PeekType(p) = "in")
     THEN Comparisons(r, r.val, Append(acc, BinaryExpr(left, op, r.val))) ELSE Ret(p, acc)
ParseComparison(p) ==
  LET l == ParseLevel(p, 6)
      cs == Comparisons(l, l.val, <<>>)
      both(a, b) == BinaryExpr(a, "and", b)
  IN IF ~Ok(cs) THEN cs ELSE IF cs.val = <<>> THEN Ret(cs, l.val) ELSE Ret(cs, FoldLeft(both, Head(cs.val), Tail(cs.val)))

RECURSIVE ParseNot(_)
ParseNot(p) == IF Is(p, "not") THEN LET e == ParseNot(Adv(p)) IN Ret(e, UnaryExpr("!", e.val)) ELSE ParseComparison(p)
RECURSIVE AndRest(_), OrRest(_)
AndRest(p) == LET r == ParseNot(Adv(p)) IN IF Is(p, "and") THEN AndRest(Ret(r, BinaryExpr(p.val, "and", r.val))) ELSE p
ParseLogicalAnd(p) == AndRest(ParseNot(p))
OrRest(p) == LET r == ParseLogicalAnd(Adv(p)) IN IF Is(p, "or") THEN OrRest(Ret(r, BinaryExpr(p.val, "or", r.val))) ELSE p
ParseLogicalOr(p) == OrRest(ParseLogicalAnd(p))
ParseExpression(p) ==
  LET e == ParseLogicalOr(p)
      c == ParseLogicalOr(Adv(e))
      o == Nested("expression", Expect(c, "else"))
  IN CASE ~Ok(p) -> p
       [] Is(e, "if") -> Ret(o, ConditionalExpr(c.val, e.val, o.val))
       [] OTHER -> e

(***************************************************************************)
(* Statements                                                              *)
(***************************************************************************)
(* = value, when there is one. *)
OptValue(p) == IF Is(p, "=") THEN Nested("expression", Adv(p)) ELSE Ret(p, None)
(* : Type = value, as after var and const. *)
ParseDeclared(p, const) ==
  LET name == Expect(p, "IDENT")
      ty == Nested("type", Expect(name, ":"))
      v == OptValue(ty)
  IN IF Ok(name) THEN Ret(v, VarDecl(name.val.val, ty.val, v.val, const)) ELSE name
(* The type of an annotated name may be Final[T]: parse_type sees through it. *)
ParseAnnotated(p) ==
  LET q == Adv(Adv(p)) IN ParseDeclared(p, Is(q, "final"))

ParseAssignmentOrExpr(p) ==
  LET e == Nested("expression", p)
      targets == CommaExprs(e, <<e.val>>)
      v == Nested("expression", Adv(IF Is(e, ",") THEN targets ELSE e))
      values == CommaExprs(v, <<v.val>>)
      ty == Nested("type", Adv(e))
      typed == Nested("expression", Adv(ty))
      tuple == IF Len(values.val) = 1 /\ v.val.k = "TupleLiteral" THEN v.val ELSE TupleLiteral(values.val)
  IN CASE Is(e, ",") /\ Is(targets, "=") -> IF Ok(values) THEN Ret(values, Assignment(TupleLiteral(targets.val), tuple)) ELSE values
       [] Is(e, ",") -> Ret(targets, TupleLiteral(targets.val))
       [] IsIn(e, DOMAIN CompoundOps) -> Ret(v, Assignment(e.val, BinaryExpr(e.val, CompoundOps[Tok(e).type], v.val)))
       [] Is(e, ":") /\ Is(ty, "=") -> Ret(typed, HintedAssignment(e.val, typed.val, ty.val))
       [] Is(e, ":") -> Ret(ty, ExprStmt(e.val))
       [] Is(e, "=") -> Ret(v, Assignment(e.val, v.val))
       [] OTHER -> Ret(e, ExprStmt(e.val))

ParseReturn(p) ==
  LET q == Adv(p)
      v == Nested("expression", q)
      all == CommaExprs(v, <<v.val>>)
  IN CASE Is(q, "NEWLINE") -> Ret(q, ReturnStmt(None))
       [] Is(v, ",") -> Ret(all, ReturnStmt(TupleLiteral(all.val)))
       [] OTHER -> Ret(v, ReturnStmt(v.val))

(* : and a block *)
ParseBody(p) == Nested("block", SkipNewlines(Expect(p, ":")))
(* Only an elif or else in the column of the if belongs to it. *)
(* Mutant of IsAt: any else is the else of the nearest if. *)
IsAtAny(p, type, col) == Is(p, type)
IsAt(p, type, col) == Is(p, type) /\ Tok(p).col = col
RECURSIVE ElifRest(_, _, _)
ElifRest(p, col, acc) ==
  LET c == Nested("expression", Adv(p))
      body == ParseBody(c)
  IN IF IsAt(p, "elif", col) THEN ElifRest(body, col, Append(acc, <<c.val, body.val>>)) ELSE Ret(p, acc)
ParseIf(p) ==
  LET c == Nested("expression", Adv(p))
      then == ParseBody(c)
      elifs == ElifRest(then, Tok(p).col, <<>>)
      else == IF IsAt(elifs, "else", Tok(p).col) THEN ParseBody(Adv(elifs)) ELSE Ret(elifs, <<>>)
  IN Ret(else, IfStmt(c.val, then.val, elifs.val, else.val))

ParseWhile(p) ==
  LET c == Nested("expression", Adv(p))
      body == ParseBody(c)
  IN Ret(body, WhileStmt(c.val, body.val))

ParseVarName(p) ==
  CASE Is(p, "IDENT") -> Ret(Adv(p), Tok(p).val)
    [] IsIn(p, KeywordNames) -> Ret(Adv(p), Tok(p).type)
    [] OTHER -> Stop(p, "SyntaxError")
(* name, name, (name, name), ... : the parentheses are dropped. *)
RECURSIVE VarNames(_, _, _)
VarNames(p, nested, acc) ==
  LET q == Adv(p)
      first == ParseVarName(Adv(q))
      inner == VarNames(first, TRUE, Append(acc, first.val))
      name == ParseVarName(q)
  IN CASE ~Is(p, ",") -> Ret(p, acc)
       [] ~nested /\ Is(q, "(") -> VarNames(Expect(inner, ")"), FALSE, inner.val)
       [] OTHER -> VarNames(name, nested, Append(acc, name.val))
(* for over range(...) or a..b becomes a ForStmt, whatever the step; any   *)
(* other iterable a ForEachStmt.                                           *)
ParseFor(p) ==
  LET name == ParseVarName(Adv(p))
      vars == VarNames(name, FALSE, <<name.val>>)
      q == Expect(vars, "in")
      r == RangeArguments(Expect(Adv(q), "("))
      first == Nested("expression", q)
      end == IF Is(first, "..") THEN Nested("expression", Adv(first)) ELSE first
      body == ParseBody(IF IsName(q, "range") THEN r ELSE end)
  IN CASE ~Ok(body) -> body
       [] IsName(q, "range") ->
            Ret(body, IF Len(r.val) = 1 THEN ForStmt(name.val, IntLiteral(0), r.val[1], body.val)
                      ELSE ForStmt(name.val, r.val[1], r.val[2], body.val))
       [] Is(first, "..") -> Ret(body, ForStmt(name.val, first.val, end.val, body.val))
       [] OTHER -> Ret(body, ForEachStmt(vars.val, first.val, body.val))

ParseWith(p) ==
  LET c == Nested("expression", Adv(p))
      v == IF Is(c, "as") THEN Expect(Adv(c), "IDENT") ELSE Ret(c, [val |-> ""])
      body == ParseBody(v)
  IN IF Ok(v) THEN Ret(body, WithStmt(c.val, v.val.val, body.val)) ELSE v
ParseDefer(p) == LET e == Nested("expression", Adv(p)) IN Ret(e, DeferStmt(ExprStmt(e.val)))
ParseRaise(p) ==
  LET q == Adv(p)
      e == Nested("expression", q)
  IN IF IsIn(q, {"NEWLINE", "EOF"}) THEN Ret(q, RaiseStmt(None)) ELSE Ret(e, RaiseStmt(e.val))

(* except clauses: the last body stands for all of them. *)
RECURSIVE Excepts(_, _)
Excepts(p, body) ==
  LET q == Adv(p)
      e == Nested("expression", q)
      clause == IF Is(q, ":") THEN q ELSE IF Is(e, "as") THEN Expect(Adv(e), "IDENT") ELSE e
      b == ParseBody(clause)
  IN IF Is(p, "except") THEN Excepts(b, b.val) ELSE Ret(p, body)
ParseTry(p) ==
  LET try == ParseBody(Adv(p))
      exc == Excepts(try, <<>>)
      fin == IF Is(exc, "finally") THEN ParseBody(Adv(exc)) ELSE Ret(exc, <<>>)
  IN Ret(fin, TryExceptStmt(try.val, exc.val, fin.val))

(* Imports: those of the Python standard library are dropped (val None). *)
StdModules == {"typing", "enum", "dataclasses", "copy", "sys", "os", "pathlib", "subprocess"}
RECURSIVE PathRest(_, _)
PathRest(p, acc) ==
  LET t == Expect(Adv(p), "IDENT")
  IN IF ~Is(p, ".") THEN Ret(p, acc) ELSE IF Ok(t) THEN PathRest(t, acc \o "/" \o t.val.val) ELSE t
OptAlias(p) == IF Is(p, "as") THEN Expect(Adv(p), "IDENT") ELSE p
RECURSIVE ImportNames(_, _)
ImportNames(p, acc) ==
  LET t == Expect(Adv(p), "IDENT")
  IN IF ~Is(p, ",") THEN Ret(p, acc) ELSE IF Ok(t) THEN ImportNames(OptAlias(t), Append(acc, t.val.val)) ELSE t
ParseImport(p) ==
  LET first == Expect(Adv(p), "IDENT")
      path == PathRest(first, first.val.val)
      q == Expect(path, "import")
      name == Expect(q, "IDENT")
      names == ImportNames(OptAlias(name), <<name.val.val>>)
  IN CASE ~Ok(first) -> first
       [] first.val.val \in StdModules -> Ret(SkipTill(first, {"NEWLINE", "EOF"}), None)
       [] Is(p, "import") -> Ret(OptAlias(path), ImportDecl(path.val, <<>>))
       [] Is(q, "*") -> Ret(Adv(q), ImportDecl(path.val, <<"*">>))
       [] ~Ok(name) -> name
       [] OTHER -> Ret(names, ImportDecl(path.val, names.val))
ImportStatement(p) == LET i == ParseImport(p) IN IF Ok(i) /\ IsNone(i.val) THEN Ret(i, PassStmt) ELSE i

ParseStatement(p) ==
  LET q == Adv(p)
      e == Nested("expression", q)
  IN CASE ~Ok(p) -> p
       [] Is(p, "IDENT") /\ PeekType(p) = ":" -> ParseAnnotated(p)
       [] Is(p, "return") -> ParseReturn(p)
       [] Is(p, "break") -> Ret(q, BreakStmt)
       [] Is(p, "continue") -> Ret(q, ContinueStmt)
       [] Is(p, "pass") -> Ret(q, PassStmt)
       [] Is(p, "var") -> ParseDeclared(q, FALSE)
       [] Is(p, "const") -> ParseDeclared(q, TRUE)
       [] Is(p, "discard") -> Ret(e, ExprStmt(e.val))
       [] Is(p, "if") -> ParseIf(p)
       [] Is(p, "while") -> ParseWhile(p)
       [] Is(p, "for") -> ParseFor(p)
       [] Is(p, "with") -> ParseWith(p)
       [] Is(p, "defer") -> ParseDefer(p)
       [] Is(p, "raise") -> ParseRaise(p)
       [] Is(p, "try") -> ParseTry(p)
       [] IsIn(p, {"from", "import"}) -> ImportStatement(p)
       [] OTHER -> ParseAssignmentOrExpr(p)

(* A block ends at the end of the file, before a clause of an enclosing    *)
(* statement, and before a token to the left of its first one.  The column *)
(* of its first token is not compared with anything.                       *)
RECURSIVE BlockRest(_, _, _)
BlockRest(p, indent, acc) ==
  LET q == SkipNewlines(p)
      s == CASE Is(q, "class") -> Nested("class", q)
             [] Is(q, "def") -> LET d == Nested("def", q) IN Ret(d, <<d.val>>)
             [] OTHER -> LET st == ParseStatement(q) IN Ret(st, <<st.val>>)
      ended == \/ IsIn(q, {"EOF", "elif", "else", "except", "finally"})
               \/ indent > 0 /\ Tok(q).col < indent /\ acc # <<>>
  IN IF ~Ok(q) \/ ended THEN Ret(q, acc) ELSE IF ~Ok(s) THEN s
     ELSE BlockRest(SkipNewlines(s), IF indent = 0 THEN Tok(q).col ELSE indent, acc \o s.val)
ParseBlock(p) == IF Ok(p) THEN BlockRest(p, 0, <<>>) ELSE p

(***************************************************************************)
(* Declarations                                                            *)
(***************************************************************************)
(* @name or @name(args): the value is the name. *)
ParseDecorator(p) ==
  LET q == Expect(p, "@")
      name == IF Is(q, "IDENT") THEN Tok(q).val ELSE "dataclass"
      r == IF IsIn(q, {"IDENT", "dataclass"}) THEN Adv(q) ELSE Stop(q, "SyntaxError")
      first == Nested("expression", Adv(r))
      args == CASE ~Is(r, "(") -> r
                [] Is(Adv(r), ")") -> Adv(Adv(r))
                [] OTHER -> Expect(CommaExprs(first, <<>>), ")")
  IN Ret(args, name)
RECURSIVE Decorators(_, _)
Decorators(p, acc) ==
  LET d == ParseDecorator(p)
  IN IF ~Is(p, "@") THEN Ret(p, acc) ELSE IF ~Ok(d) THEN d ELSE Decorators(SkipNewlines(d), Append(acc, d.val))

(* A parameter name with an optional type and default. *)
ParseParameter(p) ==
  LET name == Expect(p, "IDENT")
      ty == IF Is(name, ":") THEN Nested("type", Adv(name)) ELSE Ret(name, None)
      d == OptValue(ty)
  IN IF Ok(name) THEN Ret(d, Parameter(name.val.val, ty.val, d.val)) ELSE name
(* *args and **kwargs are dropped. *)
SkipStar(p) == Opt(Opt(Adv(p), "*"), "IDENT")
RECURSIVE DefParameters(_, _)
DefParameters(p, acc) ==
  LET par == ParseParameter(p)
      all == Append(acc, par.val)
  IN CASE ~Ok(p) \/ Is(p, ")") -> Ret(p, acc)
       [] IsIn(p, {"*", "**"}) -> DefParameters(SkipNewlines(Opt(SkipStar(p), ",")), acc)
       [] Is(par, ",") -> DefParameters(SkipNewlines(Adv(par)), all)
       [] OTHER -> Ret(par, all)

TypeParams(p) ==
  LET q == Adv(p)
      first == Expect(q, "IDENT")
      all == Names(first, <<first.val.val>>)
  IN CASE ~Is(p, "[") -> Ret(p, <<>>)
       [] Is(q, "]") -> Ret(Adv(q), <<>>)
       [] ~Ok(first) -> first
       [] OTHER -> Ret(Expect(all, "]"), all.val)

(* -> Type: , or = , or : Type = as in the older syntax; a type after the  *)
(* colon is read even where it is the first statement of the body.         *)
ReturnType(p) ==
  LET q == Adv(p)
      ty == Nested("type", q)
  IN CASE Is(p, "->") -> Ret(Expect(ty, ":"), ty.val)
       [] Is(p, "=") -> Ret(q, None)
       [] Is(p, ":") /\ IsIn(q, TypeKeywords \cup {"IDENT"}) -> Ret(Opt(ty, "="), ty.val)
       [] Is(p, ":") -> Ret(q, None)
       [] OTHER -> Ret(p, None)

ParseDef(p) ==
  LET name == Expect(Adv(p), "IDENT")
      tps == TypeParams(name)
      params == DefParameters(SkipNewlines(Expect(tps, "(")), <<>>)
      ret == ReturnType(Expect(SkipNewlines(params), ")"))
      body == Nested("block", SkipNewlines(ret))
  IN IF Ok(name) THEN Ret(body, ProcDecl(name.val.val, tps.val, params.val, ret.val, body.val)) ELSE name

RECURSIVE MethodParameters(_, _)
MethodParameters(p, acc) ==
  LET q == IF Is(p, ",") THEN SkipNewlines(Adv(p)) ELSE p
      par == ParseParameter(q)
  IN CASE ~Ok(q) \/ Is(q, ")") -> Ret(q, acc)
       [] IsIn(q, {"*", "**"}) -> MethodParameters(SkipStar(q), acc)
       [] OTHER -> MethodParameters(par, Append(acc, par.val))
(* A method without self is a procedure named after the class. *)
ParseMethod(p, class) ==
  LET name == MemberName(Adv(p))
      q == Expect(name, "(")
      first == Expect(q, "IDENT")
      self == Ok(first) /\ first.val.val = "self"
      ty == IF Is(first, ":") THEN Nested("type", Adv(first)) ELSE Ret(first, None)
      params == CASE Is(q, ")") -> Ret(q, <<>>)
                  [] ~Ok(first) -> first
                  [] self -> MethodParameters(Opt(first, ","), <<>>)
                  [] OTHER -> MethodParameters(ty, <<Parameter(first.val.val, ty.val, None)>>)
      r == Expect(params, ")")
      ret == IF Is(r, "->") THEN Nested("type", Adv(r)) ELSE Ret(r, None)
      body == ParseBody(ret)
  IN Ret(body, IF self THEN MethodDecl(PointerType(Type(class)), "self", name.val, params.val, ret.val, body.val)
               ELSE ProcDecl(class \o "_" \o name.val, <<>>, params.val, ret.val, body.val))

(* Fields assigned through self in __init__; try, with and elif blocks are *)
(* not searched.                                                           *)
InferredType(e, params) ==
  LET named == SelectSeq(params, LAMBDA q : e.k = "Identifier" /\ q.name = e.name)
  IN CASE e.k = "IntLiteral" -> Type("int32")
       [] e.k = "BoolLiteral" -> Type("bool")
       [] e.k \in {"StringLiteral", "FStringLiteral"} -> PointerType(Type("uint8"))
       [] e.k = "CharLiteral" -> Type("char")
       [] named # <<>> /\ ~IsNone(Last(named).type) -> Last(named).type
       [] OTHER -> Type("any")
RECURSIVE ScanForFields(_, _, _)
ScanForFields(stmts, params, fields) ==
  LET s == Head(stmts)
      onSelf == s.k = "Assignment" /\ s.target.k = "FieldAccessExpr" /\ s.target.object = Identifier("self")
      known == \E i \in 1..Len(fields) : fields[i].name = s.target.field
      ty == IF IsNone(s.hint) THEN InferredType(s.value, params) ELSE s.hint
      here == CASE onSelf /\ ~known -> Append(fields, StructField(s.target.field, ty, None))
                [] s.k = "IfStmt" -> ScanForFields(s.else, params, ScanForFields(s.then, params, fields))
                [] s.k \in {"WhileStmt", "ForStmt", "ForEachStmt"} -> ScanForFields(s.body, params, fields)
                [] OTHER -> fields
  IN IF stmts = <<>> THEN fields ELSE ScanForFields(Tail(stmts), params, here)
InferFields(methods, fields) ==
  LET inits == SelectSeq(methods, LAMBDA m : m.name = "__init__")
  IN IF inits = <<>> THEN fields ELSE ScanForFields(Head(inits).body, Head(inits).params, fields)

(* The value is the structure followed by its methods, or the enumeration. *)
RECURSIVE ClassRest(_, _, _, _, _)
ClassRest(p, name, indent, fields, methods) ==
  LET start == SkipNewlines(p)
      ds == Decorators(start, <<>>)
      q == ds
      in == IF indent = 0 THEN Tok(start).col ELSE indent
      m == ParseMethod(q, name)
      fname == IF Is(q, "IDENT") THEN Tok(q).val ELSE KeywordName(Tok(q).type)
      r == Adv(q)
      ty == Nested("type", Adv(r))
      d == OptValue(ty)
      done(s) == Ret(s, << StructDecl(name, InferFields(methods, fields)) >> \o methods)
  IN CASE ~Ok(start) -> start
       [] Is(start, "EOF") \/ (indent > 0 /\ Tok(start).col < indent) -> done(start)
       [] ~Ok(q) -> q
       [] Is(q, "def") -> IF Ok(m) THEN ClassRest(m, name, in, fields, Append(methods, m.val)) ELSE m
       [] IsIn(q, {"pass", "STRING"}) -> ClassRest(r, name, in, fields, methods)
       [] (Is(q, "IDENT") \/ PeekType(q) = ":") /\ Is(r, ":") -> ClassRest(d, name, in, Append(fields, StructField(fname, ty.val, d.val)), methods)
       [] Is(q, "IDENT") /\ Is(r, "=") -> ClassRest(Nested("expression", Adv(r)), name, in, fields, methods)
       [] Is(q, "IDENT") -> ClassRest(r, name, in, fields, methods)
       [] OTHER -> done(q)

(* A variant is named by an identifier or by any token that has a value. *)
RECURSIVE EnumRest(_, _, _, _)
EnumRest(p, name, indent, acc) ==
  LET q == SkipNewlines(p)
      in == IF indent = 0 THEN Tok(q).col ELSE indent
      v == Adv(q)
      valued == Tok(q).val # "" /\ ~(Is(q, "NUMBER") /\ Tok(q).num = 0)
      eq == Adv(v)
      value == CASE Is(eq, "auto") -> Expect(Expect(Adv(eq), "("), ")")
                 [] Is(eq, "NUMBER") -> Adv(eq)
                 [] OTHER -> Nested("expression", eq)
      first == Nested("type", Adv(v))
      types == CommaTypes(first, <<first.val>>)
      variant(ts) == Append(acc, EnumVariant(Tok(q).val, ts))
  IN CASE ~Ok(q) -> q
       [] Is(q, "EOF") \/ (indent > 0 /\ Tok(q).col < indent) -> Ret(q, <<EnumDecl(name, acc)>>)
       [] Is(q, "pass") -> EnumRest(v, name, in, acc)
       [] ~valued -> Stop(q, "SyntaxError")
       [] Is(v, "=") -> EnumRest(value, name, in, variant(<<>>))
       [] Is(v, "(") /\ Is(Adv(v), ")") -> EnumRest(Adv(Adv(v)), name, in, variant(<<>>))
       [] Is(v, "(") -> EnumRest(Expect(types, ")"), name, in, variant(types.val))
       [] OTHER -> EnumRest(v, name, in, variant(<<>>))

ParseClass(p) ==
  LET name == Expect(Adv(p), "IDENT")
      inner == Adv(name)
      parent == IF Is(inner, "enum") THEN Adv(inner) ELSE Expect(inner, "IDENT")
      q == IF Is(name, "(") THEN Expect(parent, ")") ELSE name
      body == SkipNewlines(Expect(q, ":"))
  IN CASE ~Ok(name) -> name
       [] Is(name, "(") /\ Is(inner, "enum") -> EnumRest(body, name.val.val, 0, <<>>)
       [] OTHER -> ClassRest(body, name.val.val, 0, <<>>, <<>>)

Nested(f, p) ==
  CASE f = "expression" -> ParseExpression(p)
    [] f = "type" -> ParseType(p)
    [] f = "unary" -> ParseUnary(p)
    [] f = "block" -> ParseBlock(p)
    [] f = "class" -> ParseClass(p)
    [] f = "def" -> ParseDef(p)

RECURSIVE TypedNames(_, _)
TypedNames(p, acc) ==
  LET name == Expect(p, "IDENT")
      ty == Nested("type", Expect(name, ":"))
      all == Append(acc, Parameter(name.val.val, ty.val, None))
  IN IF ~Ok(name) THEN name ELSE IF Is(ty, ",") THEN TypedNames(Adv(ty), all) ELSE Ret(ty, all)
(* extern def f(...) -> T, extern f(...): T, or extern name: T. *)
ParseExtern(p) ==
  LET q == Adv(p)
      isDef == Is(q, "def") \/ IsName(q, "proc")
      name == Expect(IF isDef THEN Adv(q) ELSE q, "IDENT")
      ty == Nested("type", Adv(name))
      open == Expect(name, "(")
      params == IF Is(open, ")") THEN Ret(open, <<>>) ELSE TypedNames(open, <<>>)
      close == Expect(params, ")")
      ret == IF IsIn(close, {"->", ":"}) THEN Nested("type", Adv(close)) ELSE Ret(close, None)
  IN CASE ~Ok(name) -> name
       [] ~isDef /\ Is(name, ":") -> Ret(ty, VarDecl(name.val.val, ty.val, None, FALSE))
       [] OTHER -> Ret(ret, ExternDecl(name.val.val, params.val, ret.val))

(* The imports inside try statements. *)
RECURSIVE NestedImports(_)
NestedImports(stmts) ==
  LET of(s) == IF s.k = "TryExceptStmt" THEN NestedImports(s.try \o s.except) ELSE IF s.k = "ImportDecl" THEN <<s>> ELSE <<>>
  IN IF stmts = <<>> THEN <<>> ELSE of(Head(stmts)) \o NestedImports(Tail(stmts))
ImportsOf(decls) == NestedImports(SelectSeq(decls, LAMBDA d : d.k = "TryExceptStmt"))

(* The declarations, then the methods of all classes. *)
RECURSIVE ProgramRest(_, _, _, _)
ProgramRest(p, imports, decls, methods) ==
  LET i == ParseImport(p)
      ds == Decorators(p, <<>>)
      d == CASE Is(ds, "extern") -> LET x == ParseExtern(ds) IN Ret(x, <<x.val>>)
             [] Is(ds, "const") -> LET x == ParseDeclared(Adv(ds), TRUE) IN Ret(x, <<x.val>>)
             [] Is(ds, "def") \/ IsName(ds, "proc") -> LET x == ParseDef(ds) IN Ret(x, <<x.val>>)
             [] Is(ds, "class") -> ParseClass(ds)
             [] OTHER -> LET x == ParseStatement(ds) IN Ret(x, <<x.val>>)
  IN CASE ~Ok(p) -> p
       [] Is(p, "EOF") -> Ret(p, Program(decls \o methods, imports \o ImportsOf(decls)))
       [] IsIn(p, {"from", "import"}) ->
            ProgramRest(SkipNewlines(i), IF Ok(i) /\ ~IsNone(i.val) THEN Append(imports, i.val) ELSE imports, decls, methods)
       [] ~Ok(d) -> d
       [] OTHER -> ProgramRest(SkipNewlines(d), imports, Append(decls, Head(d.val)), methods \o Tail(d.val))
Parse(toks) ==
  LET p == SkipNewlines(StartParser(toks)) IN ProgramRest(SkipNewlines(Opt(p, "STRING")), <<>>, <<>>, <<>>)

(* The loop of the lexer's tokenize. *)
RECURSIVE LexRest(_)
LexRest(l) == IF l.done \/ l.err # "" THEN l ELSE LexRest(LexStep(l))
Tokenize(src) == LexRest(StartLexer(src))

(* The whole front end: the parser of a text, with the lexer's error if there is one. *)
ParseText(src) ==
  LET l == Tokenize(src) IN IF l.err = "" THEN Parse(l.toks) ELSE [StartParser(<<>>) EXCEPT !.err = l.err]
=============================================================================
