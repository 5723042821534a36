----------------------------- MODULE MCFrontend ----------------------------
(* The texts of the front end's runs. *)
EXTENDS Frontend

RECURSIVE Joinings(_, _)
Joinings(pieces, n) == IF n = 0 THEN {""} ELSE LET shorter == Joinings(pieces, n - 1) IN shorter \cup {s \o p : s \in shorter, p \in pieces}
(* Short texts of awkward characters. *)
CharTexts ==
  Joinings({"a", "0", "x", " ", "\n", "<", "=", "\"", "'", "#", "?"}, 3) \cup Joinings({"'", "\"", "a", "\\"}, 5)
    \cup Joinings({"'", "a", "\\", "\n"}, 4)
(* Operators between signed or negated names, and parentheses around two of three. *)
Binaries == {" ** ", " * ", " + ", " < ", " == ", " & ", " and ", " or "}
Signs == {"", "-", "not "}
ExpressionTexts ==
  {p \o "a" \o o \o q \o "a" \o u \o r \o "a" : p \in Signs, q \in Signs, r \in Signs, o \in Binaries, u \in Binaries}
    \cup {"(a" \o o \o "a)" \o u \o "a" : o \in Binaries, u \in Binaries}
    \cup {"a" \o o \o "(a" \o u \o "a)" : o \in Binaries, u \in Binaries}
(* What may be left open at the end of the text. *)
OpenTexts == Joinings({"f(", "a ", "for ", "in ", ")", ": ", "lambda ", "\n"}, 3)
(* Every valid layout of at most five lines in three columns. *)
Kinds == {"a", "if a:", "else:", "while a:"}
Deeper == {"a", "if a:", "else:"}
MCLayouts ==
  {ls \in UNION {[1..n -> {1, 3, 5} \X Kinds] : n \in 1..4} \cup [1..5 -> {1, 3, 5} \X Deeper] : ls[1][1] = 1 /\ ValidLayout(ls)}
MCTexts == CharTexts \cup ExpressionTexts \cup OpenTexts \cup {LayoutText(ls) : ls \in MCLayouts}
=============================================================================
