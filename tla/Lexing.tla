------------------------------- MODULE Lexing -------------------------------
(***************************************************************************)
(* The lexer at work on one text of Texts, a token at a time, and what the *)
(* positions of its tokens mean.  Frontend composes it with the parser.    *)
(***************************************************************************)
EXTENDS Lexer

CONSTANTS Texts        \* the source texts, strings of characters
\* A string has a length: TLC knows it, and the provers are told.
ASSUME TextsAssumption == \A t \in Texts : t \in STRING /\ Len(t) \in Nat

VARIABLES lex          \* the lexer

LexInit == lex \in {StartLexer(t) : t \in Texts}
ReadToken == ~lex.done /\ lex.err = "" /\ lex' = LexStep(lex)
LexSpec == LexInit /\ [][ReadToken]_lex

Newlines(s) == {i \in 1..Len(s) : CharAt(s, i) = "\n"}
LineAt(src, p) == 1 + Cardinality({i \in Newlines(src) : i < p})
ColumnAt(src, p) == LET before == {i \in Newlines(src) : i < p} \cup {0} IN p - (CHOOSE m \in before : \A i \in before : i <= m)
(* A newline between single quotes, or escaped after one: the lexer looks  *)
(* over it, goes back, and counts it a second time when it reads it.       *)
NewlineQuoted(src) ==
  \E i \in Newlines(src) :
    \/ i > 1 /\ i < Len(src) /\ CharAt(src, i - 1) = "'" /\ CharAt(src, i + 1) = "'"
    \/ i > 2 /\ CharAt(src, i - 1) = "\\" /\ CharAt(src, i - 2) = "'"
(* A newline after a single quote: if the quote opens a string, the lexer  *)
(* looks over the newline as well, and fails there.                        *)
QuoteBroken(src) == \E i \in Newlines(src) : i > 1 /\ CharAt(src, i - 1) = "'"
OffsetOf(src, line, col) == CHOOSE p \in 1..(Len(src) + 1) : LineAt(src, p) = line /\ ColumnAt(src, p) = col

(* Error messages and, more, the parser's blocks rest on positions: the    *)
(* line and column the lexer keeps are those of the character it is at,    *)
(* whatever it looked ahead at and went back from.                         *)
PositionsAreTrue ==
  \/ NewlineQuoted(lex.src)
  \/ lex.err # "" /\ QuoteBroken(lex.src)
  \/ lex.line = LineAt(lex.src, lex.pos) /\ lex.col = ColumnAt(lex.src, lex.pos)

(* Between two tokens, and before the first, there is nothing but blanks,  *)
(* comments, line continuations and string prefixes; tokens do not overlap *)
(* and none is out of order.                                               *)
Start(t) == OffsetOf(lex.src, t.line, t.col)
End(t) == OffsetOf(lex.src, t.eline, t.ecol)
GapChars == {" ", "\t", "\\", "\n", "f", "F", "r", "R", "b", "B"}
GapIsBlank(src, a, b) ==
  \/ \E i \in a..(b - 1) : CharAt(src, i) = "#"
  \/ \A i \in a..(b - 1) : CharAt(src, i) \in GapChars
TokensInOrder ==
  NewlineQuoted(lex.src) \/
    \A i \in 1..Len(lex.toks) :
      LET from == IF i = 1 THEN 1 ELSE End(lex.toks[i - 1])
      IN from <= Start(lex.toks[i]) /\ Start(lex.toks[i]) <= End(lex.toks[i]) /\ GapIsBlank(lex.src, from, Start(lex.toks[i]))

(* Each call of the lexer gets further, or ends the text.                  *)
GetsFurther == lex' # lex => lex'.pos > lex.pos \/ lex'.done \/ lex'.err # ""
=============================================================================
