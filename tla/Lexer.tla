------------------------------- MODULE Lexer -------------------------------
(***************************************************************************)
(* The lexer of the Brainhair compiler (compiler/lexer.py).  A lexer is a  *)
(* record [src, pos, line, col, toks, err]; LexStep is one iteration of    *)
(* the loop of tokenize (Tokenize of Parser); pos counts from 1.           *)
(*                                                                         *)
(* A token's type is the text of its operator, the name get_keyword_name   *)
(* gives its keyword, or one of IDENT, NUMBER, STRING, FSTRING, CHAR,      *)
(* NEWLINE, EOF; val is its text or value, num the value of a number.      *)
(* err names the Python exception the lexer ends with, "" while it has     *)
(* none.  TLA+ has no escape for the character of code 0 (Nul stands for   *)
(* it), and a character written \xHH is abstracted to "?".  The arms of a  *)
(* CASE are meant in order.                                                *)
(***************************************************************************)
EXTENDS Integers, Sequences, FiniteSets

Chars(s) == {SubSeq(s, i, i) : i \in 1..Len(s)}
Nul == "\f"

(* is_alpha, is_digit, is_alnum, is_hex: classes of characters. *)
Alpha == Chars("abcdefghijklmnopqrstuvwxyzABCDEFGHIJKLMNOPQRSTUVWXYZ")
Digit == Chars("0123456789")
HexDigit == Digit \cup Chars("abcdefABCDEF")
Word == Alpha \cup Digit \cup {"_"}

DigitValue(c) == (CHOOSE i \in 1..22 : SubSeq("0123456789abcdefABCDEF", i, i) = c) - 1
HexValue(c) == IF DigitValue(c) > 15 THEN DigitValue(c) - 6 ELSE DigitValue(c)

(* Keywords whose token is named like the word, and the others. *)
PlainKeywords ==
  {"def", "class", "from", "import", "as", "return", "if", "elif", "else", "while", "for", "in", "break",
   "continue", "pass", "with", "raise", "try", "except", "finally", "lambda", "yield", "async", "await",
   "and", "or", "not", "is", "true", "false", "extern", "asm", "defer", "match", "auto", "array",
   "dataclass", "isinstance", "int8", "int16", "int32", "int64", "uint8", "uint16", "uint32", "uint64",
   "float32", "float64", "bool", "char", "str", "bytes", "int", "float", "var", "discard", "const"}
CapitalKeywords ==
  [w \in {"True", "False", "None", "Final", "Ptr", "List", "Dict", "Tuple", "Optional", "Enum", "Array", "Ref"} |->
    CASE w = "True" -> "true" [] w = "False" -> "false" [] w = "None" -> "none" [] w = "Final" -> "final"
      [] w = "Ptr" -> "ptr" [] w = "List" -> "list" [] w = "Dict" -> "dict" [] w = "Tuple" -> "tuple"
      [] w = "Optional" -> "optional" [] w = "Enum" -> "enum" [] w = "Array" -> "array" [] w = "Ref" -> "ref"]
LookupKeyword(word) ==
  CASE word \in PlainKeywords -> word
    [] word \in DOMAIN CapitalKeywords -> CapitalKeywords[word]
    [] OTHER -> "IDENT"
(* The types get_keyword_name has a name for. *)
KeywordTypes == PlainKeywords \cup {"none", "final", "ptr", "list", "dict", "tuple", "optional", "enum", "ref"}

Arithmetic == {"+", "+=", "-", "-=", "->", "*", "**", "*=", "/", "//", "//=", "/=", "%", "%=", "=", "==", "!", "!="}
BitOperators == {"<", "<=", "<<", "<<=", ">", ">=", ">>", ">>=", "&", "&=", "|", "|=", "^", "^=", "~"}
Punctuation == {"(", ")", "[", "]", "{", "}", ",", ":", ";", ".", "..", "...", "@"}
Operators == Arithmetic \cup BitOperators \cup Punctuation
(* The types of tokens, named like the text of the token where it has one. *)
TokenTypes == Operators \cup KeywordTypes \cup {"IDENT", "NUMBER", "STRING", "FSTRING", "CHAR", "NEWLINE", "EOF"}

StartLexer(src) == [src |-> src, pos |-> 1, line |-> 1, col |-> 1, toks |-> <<>>, err |-> "", done |-> FALSE]
AtEnd(l) == l.pos > Len(l.src)
PeekChar(l, n) == IF l.pos + n > Len(l.src) THEN " " ELSE SubSeq(l.src, l.pos + n, l.pos + n)
PeekValid(l) == l.pos + 1 <= Len(l.src)
Fails(l, e) == [l EXCEPT !.err = IF @ = "" THEN e ELSE @]

(* Mutant of Advance: the column runs on over the end of the line. *)
AdvanceSameColumn(l) ==
  IF AtEnd(l) THEN l ELSE [l EXCEPT !.pos = @ + 1, !.line = IF PeekChar(l, 0) = "\n" THEN @ + 1 ELSE @, !.col = @ + 1]
Advance(l) ==
  IF AtEnd(l) THEN l
  ELSE IF PeekChar(l, 0) = "\n" THEN [l EXCEPT !.pos = @ + 1, !.line = @ + 1, !.col = 1]
  ELSE [l EXCEPT !.pos = @ + 1, !.col = @ + 1]
(* Mutant of AdvanceBy: one character less. *)
AdvanceByLess(l, n) ==
  LET after[k \in 0..n] == IF k <= 1 THEN l ELSE Advance(after[k - 1])
  IN after[n]
(* The lexer after n calls of advance. *)
AdvanceBy(l, n) ==
  LET after[k \in 0..n] == IF k = 0 THEN l ELSE Advance(after[k - 1])
  IN after[n]

Token(start, type, val, num, end) ==
  [type |-> type, val |-> val, num |-> num,
   line |-> start.line, col |-> start.col, eline |-> end.line, ecol |-> end.col]
(* The token from start to end, appended to end's tokens. *)
Produce(start, end, type, val, num) ==
  [end EXCEPT !.toks = Append(@, Token(start, type, val, num, end))]

CharAt(src, i) == SubSeq(src, i, i)
(* The first position from p on whose character is not in cs, and the      *)
(* first one at the end of a line: where the loops that skip stop.         *)
SpanEnd(src, p, cs) ==
  CHOOSE q \in p..(Len(src) + 1) :
    (q > Len(src) \/ CharAt(src, q) \notin cs) /\ \A i \in p..(q - 1) : CharAt(src, i) \in cs
LineEnd(src, p) ==
  CHOOSE q \in p..(Len(src) + 1) :
    (q > Len(src) \/ CharAt(src, q) = "\n") /\ \A i \in p..(q - 1) : CharAt(src, i) # "\n"
NumberValue(s, base) ==
  LET value[i \in 0..Len(s)] ==
        IF i = 0 THEN 0
        ELSE IF CharAt(s, i) = "_" THEN value[i - 1]
        ELSE value[i - 1] * base + HexValue(CharAt(s, i))
  IN value[Len(s)]

ReadNumber(l) ==
  LET mark == IF PeekChar(l, 0) = "0" /\ PeekValid(l) THEN PeekChar(l, 1) ELSE " "
      base == CASE mark \in {"x", "X"} -> 16 [] mark \in {"b", "B"} -> 2 [] mark \in {"o", "O"} -> 8 [] OTHER -> 10
      digits == CASE base = 16 -> HexDigit [] base = 2 -> {"0", "1"} [] base = 8 -> Digit \ {"8", "9"} [] OTHER -> Digit
      start == IF base = 10 THEN l.pos ELSE l.pos + 2
      stop == SpanEnd(l.src, start, digits \cup {"_"})
      text == SubSeq(l.src, start, stop - 1)
      end == AdvanceBy(l, stop - l.pos)
  IN CASE start > Len(l.src) -> Fails(end, "IndexError")
       [] Chars(text) \subseteq {"_"} -> Fails(end, "ValueError")
       [] OTHER -> Produce(l, end, "NUMBER", text, NumberValue(text, base))

Escaped(c) == CASE c = "n" -> "\n" [] c = "t" -> "\t" [] c = "r" -> "\r" [] c = "0" -> Nul [] OTHER -> c

(* One iteration of the loop of read_string, on a record of the lexer, the *)
(* string so far and whether the string is still open.                     *)
Closed(r, l) == [r EXCEPT !.l = l, !.open = FALSE]
Longer(r, l, c) == [r EXCEPT !.l = l, !.text = @ \o c]
StringStep(r, quote, triple) ==
  LET l == r.l
      c == PeekChar(l, 0)
      esc == Advance(l)
      e == PeekChar(esc, 0)
  IN CASE AtEnd(l) -> Closed(r, Fails(l, "IndexError"))
       [] triple /\ c = quote /\ PeekChar(l, 1) = quote /\ PeekChar(l, 2) = quote -> Closed(r, AdvanceBy(l, 3))
       [] ~triple /\ c = quote -> Closed(r, Advance(l))
       [] ~triple /\ c = "\n" -> Closed(r, Fails(l, "SyntaxError"))
       [] ~triple /\ c = "\\" /\ AtEnd(esc) -> Closed(r, Fails(esc, "IndexError"))
       [] ~triple /\ c = "\\" /\ e = "x" /\ esc.pos + 2 > Len(l.src) -> Closed(r, Fails(esc, "IndexError"))
       [] ~triple /\ c = "\\" /\ e = "x" /\ ~({PeekChar(esc, 1), PeekChar(esc, 2)} \subseteq HexDigit) ->
            Closed(r, Fails(esc, "ValueError"))
       [] ~triple /\ c = "\\" /\ e = "x" -> Longer(r, AdvanceBy(esc, 3), "?")
       [] ~triple /\ c = "\\" -> Longer(r, Advance(esc), Escaped(e))
       [] OTHER -> Longer(r, Advance(l), c)
(* The loop ends: every iteration that leaves the string open reads a      *)
(* character.                                                              *)
StringMore(r, quote, triple) == IF r.open THEN StringStep(r, quote, triple) ELSE r
StringRest(l, quote, triple) ==
  LET last == Len(l.src) - l.pos + 2
      after[k \in 0..last] ==
        IF k = 0 THEN [l |-> l, text |-> "", open |-> TRUE] ELSE StringMore(after[k - 1], quote, triple)
  IN after[CHOOSE k \in 0..last : ~after[k].open]

(* The string token that starts at start: open is the lexer after its      *)
(* first quote, rest what the loop read from there.                        *)
StringToken(start, open, rest, type) ==
  CASE AtEnd(open) -> Fails(open, "IndexError")
    [] rest.l.err # "" -> rest.l
    [] OTHER -> Produce(start, rest.l, type, rest.text, 0)
(* The opening quote is at l. *)
ReadString(start, l, type) ==
  LET quote == PeekChar(l, 0)
      open == Advance(l)
      triple == PeekChar(open, 0) = quote /\ PeekChar(open, 1) = quote
      rest == StringRest(IF triple THEN AdvanceBy(open, 2) ELSE open, quote, triple)
  IN StringToken(start, open, rest, type)

ReadChar(l) ==
  LET c == PeekChar(l, 1)
      end == AdvanceBy(l, IF c = "\\" THEN 4 ELSE 3)
  IN Produce(l, end, "CHAR", IF c = "\\" THEN Escaped(PeekChar(l, 2)) ELSE c, 0)

(* Whether the quote at l opens a character literal.  The look-ahead       *)
(* restores position and column, not the line: a newline between the two   *)
(* quotes is counted twice.                                                *)
QuotedChar(l) ==
  LET n == IF PeekChar(l, 1) = "\\" THEN 3 ELSE 2
  IN l.pos + n <= Len(l.src) /\ PeekChar(l, n) = "'"
LinesCrossed(l) == IF PeekChar(l, 1) = "\n" \/ (PeekChar(l, 1) = "\\" /\ PeekChar(l, 2) = "\n") THEN 1 ELSE 0
ReadQuote(l) ==
  LET looked == IF PeekValid(l) THEN [l EXCEPT !.line = @ + LinesCrossed(l)] ELSE l
  IN IF QuotedChar(l) THEN ReadChar(looked) ELSE ReadString(looked, looked, "STRING")

ReadIdentifier(l) ==
  LET stop == SpanEnd(l.src, l.pos, Word)
      ident == SubSeq(l.src, l.pos, stop - 1)
      type == LookupKeyword(ident)
  IN Produce(l, AdvanceBy(l, stop - l.pos), type, IF type = "IDENT" THEN ident ELSE "", 0)

(* Mutant of OperatorLength: one character is tried first. *)
OperatorLengthShort(l) == IF PeekChar(l, 0) \in Operators THEN 1 ELSE 0
(* The length of the longest operator at l. *)
OperatorLength(l) ==
  LET lengths == {n \in 1..3 : l.pos + n - 1 <= Len(l.src) /\ SubSeq(l.src, l.pos, l.pos + n - 1) \in Operators}
  IN IF lengths = {} THEN 0 ELSE CHOOSE n \in lengths : \A m \in lengths : m <= n
ReadOperator(l) ==
  LET n == OperatorLength(l)
      op == SubSeq(l.src, l.pos, l.pos + n - 1)
  IN IF n = 0 THEN Fails(l, "SyntaxError")
     ELSE Produce(l, AdvanceBy(l, n), IF op = "!" THEN "not" ELSE op, "", 0)

LexStep(l) ==
  LET c == PeekChar(l, 0)
      quoted == PeekChar(l, 1) \in {"\"", "'"}
  IN IF AtEnd(l) THEN [Produce(l, l, "EOF", "", 0) EXCEPT !.done = TRUE]
     ELSE CASE c = "\n" -> Produce(l, Advance(l), "NEWLINE", "", 0)
            [] c \in {" ", "\t"} -> AdvanceBy(l, SpanEnd(l.src, l.pos, {" ", "\t"}) - l.pos)
            [] c = "#" -> AdvanceBy(l, LineEnd(l.src, l.pos) - l.pos)
            [] c \in {"f", "F"} /\ quoted -> ReadString(Advance(l), Advance(l), "FSTRING")
            [] c \in {"r", "R", "b", "B"} /\ quoted -> ReadString(Advance(l), Advance(l), "STRING")
            [] c \in Digit -> ReadNumber(l)
            [] c = "\"" -> ReadString(l, l, "STRING")
            [] c = "'" -> ReadQuote(l)
            [] c \in Alpha \cup {"_"} -> ReadIdentifier(l)
            [] c = "\\" /\ ~PeekValid(l) -> Fails(Advance(l), "IndexError")
            [] c = "\\" -> IF PeekChar(l, 1) = "\n" THEN AdvanceBy(l, 2) ELSE Advance(l)
            [] OTHER -> ReadOperator(l)
=============================================================================
