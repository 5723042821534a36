------------------------------ MODULE Frontend -----------------------------
(***************************************************************************)
(* The front end of the Brainhair compiler at work: the lexer reads one    *)
(* text of Texts token by token, then the parser builds the tree.          *)
(* Properties relate what comes out to independent definitions of where    *)
(* tokens are, of how operators group and of what indentation means.       *)
(***************************************************************************)
EXTENDS Parser, Lexing

VARIABLES tree         \* the parser's result, None until it ran
vars == <<lex, tree>>

FrontInit == LexInit /\ tree = None
(* The parser as a function of the tokens: TLC then treats it as a value.  *)
Tokens == [type : STRING, val : STRING, num : Int, line : Nat, col : Nat, eline : Nat, ecol : Nat]
Parser_ == [toks \in Seq(Tokens) |-> Parse(toks)]
BuildTree(parser) ==
  lex.done /\ IsNone(tree) /\ tree' = [k |-> "Tree", p |-> parser[lex.toks]] /\ UNCHANGED lex
FrontNext == (ReadToken /\ UNCHANGED tree) \/ \E parser \in {Parser_} : BuildTree(parser)
FrontSpec == FrontInit /\ [][FrontNext]_vars

Parsed == ~IsNone(tree) /\ tree.p.err = ""

(***************************************************************************)
(* Tokens                                                                  *)
(***************************************************************************)
(* Tokens tile the text: they are in order with nothing of meaning between *)
(* them; a word or an operator ends only where it cannot be longer; and    *)
(* the text of a token read by itself is that token again.                 *)
MaximalAt(t, e) ==
  LET text == SubSeq(lex.src, Start(t), e - 1)
      next == IF e > Len(lex.src) THEN " " ELSE SubSeq(lex.src, e, e)
  IN /\ text \in Operators => text \o next \notin Operators
     /\ t.type \in {"IDENT"} \cup KeywordTypes /\ text # "!" => next \notin Word
Rereads(t) ==
  LET again == Tokenize(SubSeq(lex.src, Start(t), End(t) - 1)).toks
  IN t.type = "EOF" \/ (/\ Len(again) = 2 /\ again[1].val = t.val /\ again[1].num = t.num
                        /\ again[1].type = IF t.type = "FSTRING" THEN "STRING" ELSE t.type)
TokensTile ==
  lex.done /\ IsNone(tree) /\ ~NewlineQuoted(lex.src) =>
    /\ TokensInOrder
    /\ \A i \in 1..Len(lex.toks) : MaximalAt(lex.toks[i], End(lex.toks[i])) /\ Rereads(lex.toks[i])

(* The lexer and the parser come to an end on every text, valid or not:    *)
(* each call of the lexer gets further or ends the text, and the parser    *)
(* returns.  The exceptions the code has: a lambda without a colon and an  *)
(* unclosed call with a generator argument, where it loops on the last     *)
(* token for ever.                                                         *)
TypesOf == {lex.toks[i].type : i \in 1..Len(lex.toks)}
FrontEndEnds ==
  [][/\ GetsFurther
     /\ tree' # tree /\ tree'.p.err = "hang" => "lambda" \in TypesOf \/ {"(", "for"} \subseteq TypesOf]_vars

(***************************************************************************)
(* Operators                                                               *)
(***************************************************************************)
(* The grouping of an expression over names, by the loosest operator: the  *)
(* table of levels is the reference, loosest first.  Bad is no expression. *)
Bad == [k |-> "Bad"]
Levels == << {"or"}, {"and"}, {"==", "!=", "<", "<=", ">", ">="}, {"|"}, {"^"}, {"&"}, {"<<", ">>"}, {"+", "-"},
             {"*", "/", "//", "%"}, {"**"} >>
Depth(s, i) == Cardinality({j \in 1..(i - 1) : s[j] = "("}) - Cardinality({j \in 1..(i - 1) : s[j] = ")"})
(* Binary operators stand outside parentheses, after an operand. *)
OperatorsOf(s, level) == {i \in 2..(Len(s) - 1) : s[i] \in Levels[level] /\ s[i - 1] \in {"a", ")"} /\ Depth(s, i) = 0}
LargestOf(S) == CHOOSE m \in S : \A i \in S : i <= m
SmallestOf(S) == CHOOSE m \in S : \A i \in S : m <= i

RECURSIVE Grouped(_)
Joined(s, i) ==
  LET l == Grouped(SubSeq(s, 1, i - 1))
      r == Grouped(SubSeq(s, i + 1, Len(s)))
  IN IF Bad \in {l, r} THEN Bad ELSE BinaryExpr(l, s[i], r)
(* a < b < c is (a < b) and (b < c), and so on. *)
RECURSIVE Chained(_, _)
Chained(s, ops) ==
  LET last == LargestOf(ops)
      before == ops \ {last}
      from == IF before = {} THEN 0 ELSE LargestOf(before)
      link == Joined(SubSeq(s, from + 1, Len(s)), last - from)
      rest == Chained(SubSeq(s, 1, last - 1), before)
  IN IF before = {} \/ Bad \in {link, rest} THEN link ELSE BinaryExpr(rest, "and", link)
Grouped(s) ==
  LET loosest == {n \in 1..Len(Levels) : OperatorsOf(s, n) # {}}
      n == SmallestOf(loosest)
      ops == OperatorsOf(s, n)
      operand == Grouped(Tail(s))
  IN CASE s = <<>> -> Bad
       [] s = <<"a">> -> Identifier("a")
       [] loosest # {} /\ n <= 2 -> Joined(s, LargestOf(ops))
       [] Head(s) = "not" -> IF operand = Bad THEN Bad ELSE UnaryExpr("!", operand)
       [] loosest # {} /\ "not" \in {s[i] : i \in {j \in 1..Len(s) : Depth(s, j) = 0}} -> Bad
       [] loosest # {} /\ n = 3 -> Chained(s, ops)
       [] loosest # {} /\ n < Len(Levels) -> Joined(s, LargestOf(ops))
       [] loosest # {} -> Joined(s, SmallestOf(ops))
       [] Head(s) \in {"-", "~"} -> IF operand = Bad THEN Bad ELSE UnaryExpr(Head(s), operand)
       [] Head(s) = "(" /\ Last(s) = ")" -> Grouped(SubSeq(s, 2, Len(s) - 1))
       [] OTHER -> Bad

(* Ten functions, one per level, call each other down to parse_atom; an    *)
(* expression must come out grouped as the table of levels says.           *)
IsExpressionText == \A i \in 1..Len(lex.toks) - 1 :
  IF lex.toks[i].type = "IDENT" THEN lex.toks[i].val = "a" ELSE lex.toks[i].type \in UNION {Levels[n] : n \in 1..10} \cup {"not", "~", "(", ")"}
OperatorsGroup ==
  (~IsNone(tree) /\ IsExpressionText) =>
    LET s == [i \in 1..(Len(lex.toks) - 1) |-> IF lex.toks[i].type = "IDENT" THEN "a" ELSE lex.toks[i].type]
        g == Grouped(s)
    IN g # Bad => tree.p.err = "" /\ tree.p.val.declarations = <<ExprStmt(g)>>

(***************************************************************************)
(* Indentation                                                             *)
(***************************************************************************)
(* A layout is a sequence of lines <<column, kind>>, the kinds being a     *)
(* simple statement and the headers of if, else and while.  LayoutBlock is *)
(* the block the lines from i on make at a column, by the rule of Python:  *)
(* same column, a deeper block after each header; next is the line after   *)
(* it and ok whether the rule accepts it.                                  *)
Simple == ExprStmt(Identifier("a"))
RECURSIVE LayoutBlock(_, _, _, _)
LayoutBlock(ls, i, col, acc) ==
  LET kind == ls[i][2]
      inner == LayoutBlock(ls, i + 1, ls[i + 1][1], <<>>)
      deeper == i < Len(ls) /\ ls[i + 1][1] > col
      e == inner.next
      hasElse == e <= Len(ls) /\ ls[e] = <<col, "else:">>
      alt == LayoutBlock(ls, e + 1, ls[e + 1][1], <<>>)
      bad == [ok |-> FALSE, next |-> i, block |-> acc]
  IN CASE i > Len(ls) \/ ls[i][1] < col \/ (ls[i] = <<col, "else:">> /\ acc # <<>>) -> [ok |-> TRUE, next |-> i, block |-> acc]
       [] ls[i][1] > col \/ kind = "else:" -> bad
       [] kind = "a" -> LayoutBlock(ls, i + 1, col, Append(acc, Simple))
       [] ~deeper \/ ~inner.ok -> bad
       [] kind = "while a:" -> LayoutBlock(ls, e, col, Append(acc, WhileStmt(Identifier("a"), inner.block)))
       [] ~hasElse -> LayoutBlock(ls, e, col, Append(acc, IfStmt(Identifier("a"), inner.block, <<>>, <<>>)))
       [] e + 1 > Len(ls) \/ ls[e + 1][1] <= col \/ ~alt.ok -> bad
       [] OTHER -> LayoutBlock(ls, alt.next, col, Append(acc, IfStmt(Identifier("a"), inner.block, <<>>, alt.block)))
ValidLayout(ls) == LET b == LayoutBlock(ls, 1, 1, <<>>) IN b.ok /\ b.next > Len(ls)
IndentOf(col) == CASE col = 1 -> "" [] col = 3 -> "  " [] col = 5 -> "    "
RECURSIVE LayoutText(_)
LayoutText(ls) == IF ls = <<>> THEN "" ELSE IndentOf(ls[1][1]) \o ls[1][2] \o "\n" \o LayoutText(Tail(ls))

CONSTANT Layouts       \* the layouts whose texts are in Texts
LayoutOf == [t \in {LayoutText(ls) : ls \in Layouts} |-> CHOOSE ls \in Layouts : LayoutText(ls) = t]
(* No token marks an indent or a dedent: parse_block compares columns, and *)
(* if looks for its else by column.  A valid layout must nest as Python    *)
(* nests it.                                                               *)
BlocksFollowIndentation ==
  ~IsNone(tree) /\ lex.src \in DOMAIN LayoutOf =>
    tree.p.err = "" /\ tree.p.val.declarations = LayoutBlock(LayoutOf[lex.src], 1, 1, <<>>).block
=============================================================================
