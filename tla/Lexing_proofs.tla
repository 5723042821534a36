--------------------------- MODULE Lexing_proofs ---------------------------
(***************************************************************************)
(* Proofs about Lexing, for every set of texts.                            *)
(*                                                                         *)
(* What the loops of the lexer do is proved by induction over the calls of *)
(* advance: SetInduction, which takes a set where an induction theorem     *)
(* would take a predicate, and rests on the least number of a set of       *)
(* numbers.  Every reader of a kind of token then has a lemma that it      *)
(* Steps: it moves on, keeps line and column true, and skips what means    *)
(* nothing or appends one token that starts after it.  The arms of a CASE  *)
(* may be taken in any order as far as these proofs go.                    *)
(***************************************************************************)
EXTENDS Lexing, FiniteSetTheorems, WellFoundedInduction, TLAPS

-----------------------------------------------------------------------------
(* Numbers.                                                                *)

LEMMA LeastNumber ==
    ASSUME NEW T \in SUBSET Nat, NEW n \in T
    PROVE  \E m \in T : \A k \in T : m <= k
<1> DEFINE F == {0 .. m : m \in {k \in T : k <= n}}
<1>1. \A m \in Int : IsFiniteSet(0 .. m)
  BY FS_Interval
<1>2. IsWellFoundedOn(StrictSubsetOrdering(0 .. n), FiniteSubsetsOf(0 .. n))
  BY FS_StrictSubsetOrderingWellFounded
<1>3. F \subseteq FiniteSubsetsOf(0 .. n) /\ F # {}
  BY <1>1 DEF FiniteSubsetsOf
<1> HIDE DEF F
<1>4. PICK s \in F : \A r \in F : ~(<<r, s>> \in StrictSubsetOrdering(0 .. n))
  BY <1>2, <1>3, WFMin
<1>5. PICK m \in T : m <= n /\ s = 0 .. m
  BY DEF F
<1>6. ASSUME NEW k \in T, k < m PROVE FALSE
  <2>1. 0 .. k \in F /\ 0 .. k \in SUBSET (0 .. n) /\ s \in SUBSET (0 .. n)
    BY <1>5, <1>6 DEF F
  <2>2. 0 .. k \subseteq s /\ 0 .. k # s
    BY <1>5, <1>6
  <2> QED
    BY <1>4, <2>1, <2>2 DEF StrictSubsetOrdering
<1> QED
  BY <1>6

\* Induction up to a bound, with a set in place of a predicate.
LEMMA SetInduction ==
    ASSUME NEW max \in Nat, NEW S, 0 \in S,
           \A n \in 1 .. max : n - 1 \in S => n \in S
    PROVE  0 .. max \subseteq S
<1> SUFFICES ASSUME NEW n \in (0 .. max) \ S PROVE FALSE
  OBVIOUS
<1>1. PICK m \in (0 .. max) \ S : \A k \in (0 .. max) \ S : m <= k
  <2>1. (0 .. max) \ S \in SUBSET Nat
    OBVIOUS
  <2> QED
    BY <2>1, LeastNumber
<1>2. m # 0 /\ m - 1 \in S
  BY <1>1
<1> QED
  BY <1>2

-----------------------------------------------------------------------------
(* Lines and columns.                                                      *)

\* The newlines before a position are finitely many.
LEMMA NewlinesFinite ==
    ASSUME NEW src, Len(src) \in Nat, NEW p \in Int
    PROVE  IsFiniteSet({i \in Newlines(src) : i < p})
<1>1. IsFiniteSet(1 .. Len(src))
  BY FS_Interval
<1> QED
  BY <1>1, FS_Subset DEF Newlines

LEMMA LineAfter ==
    ASSUME NEW src, Len(src) \in Nat, NEW p \in 1 .. Len(src)
    PROVE  LineAt(src, p + 1) = LineAt(src, p) + (IF CharAt(src, p) = "\n" THEN 1 ELSE 0)
<1> DEFINE B == {i \in Newlines(src) : i < p}
           A == {i \in Newlines(src) : i < p + 1}
<1>1. IsFiniteSet(B) /\ p \notin B
  BY NewlinesFinite
<1>2. A = IF CharAt(src, p) = "\n" THEN B \cup {p} ELSE B
  BY DEF Newlines
<1>3. Cardinality(B) \in Nat /\ Cardinality(B \cup {p}) = Cardinality(B) + 1
  BY <1>1, FS_CardinalityType, FS_AddElement
<1>4. LineAt(src, p) = 1 + Cardinality(B) /\ LineAt(src, p + 1) = 1 + Cardinality(A)
  BY DEF LineAt
<1> HIDE DEF A, B
<1> QED
  BY <1>2, <1>3, <1>4

LEMMA LineType ==
    ASSUME NEW src, Len(src) \in Nat, NEW p \in Int
    PROVE  LineAt(src, p) \in Nat
  BY NewlinesFinite, FS_CardinalityType DEF LineAt

\* m is the last newline before p, 0 if there is none.
LastBefore(src, p, m) ==
    LET before == {i \in Newlines(src) : i < p} \cup {0}
    IN  m \in before /\ \A i \in before : i <= m

LEMMA ColumnIs ==
    ASSUME NEW src, NEW p, NEW m, LastBefore(src, p, m)
    PROVE  ColumnAt(src, p) = p - m
<1> DEFINE before == {i \in Newlines(src) : i < p} \cup {0}
           last == CHOOSE n \in before : \A i \in before : i <= n
<1>1. before \subseteq Nat
  BY DEF Newlines
<1>2. last \in before /\ \A i \in before : i <= last
  BY DEF LastBefore
<1>3. last = m
  BY <1>1, <1>2 DEF LastBefore
<1>4. ColumnAt(src, p) = p - last
  BY DEF ColumnAt
<1> QED
  BY <1>3, <1>4

LEMMA LastNewline ==
    ASSUME NEW src, Len(src) \in Nat, NEW p \in 1 .. Len(src) + 1
    PROVE  \E m \in 0 .. p - 1 : LastBefore(src, p, m)
<1> DEFINE before == {i \in Newlines(src) : i < p} \cup {0}
           T == {n \in Nat : \A i \in before : i <= n}
<1>1. before \subseteq 0 .. p - 1 /\ p \in T
  BY DEF Newlines
<1>2. PICK n \in T : \A k \in T : n <= k
  BY <1>1, LeastNumber
<1>3. n \in before
  <2>1. CASE n = 0
    BY <2>1
  <2>2. CASE n # 0 /\ n \notin before
    <3>1. n - 1 \in Nat /\ \A i \in before : i <= n - 1
      BY <1>1, <1>2, <2>2
    <3> QED
      BY <1>2, <3>1
  <2> QED
    BY <2>1, <2>2
<1> QED
  BY <1>1, <1>2, <1>3 DEF LastBefore

LEMMA ColumnAfter ==
    ASSUME NEW src, Len(src) \in Nat, NEW p \in 1 .. Len(src)
    PROVE  /\ ColumnAt(src, p) \in Nat
           /\ ColumnAt(src, p + 1) = IF CharAt(src, p) = "\n" THEN 1 ELSE ColumnAt(src, p) + 1
<1>1. PICK m \in 0 .. p - 1 : LastBefore(src, p, m)
  BY LastNewline
<1>2. ColumnAt(src, p) = p - m
  BY <1>1, ColumnIs
<1>3. CASE CharAt(src, p) = "\n"
  <2>1. LastBefore(src, p + 1, p)
    BY <1>3 DEF LastBefore, Newlines
  <2>2. ColumnAt(src, p + 1) = p + 1 - p
    BY <2>1, ColumnIs
  <2> QED
    BY <1>2, <1>3, <2>2
<1>4. CASE CharAt(src, p) # "\n"
  <2>1. \A i \in Newlines(src) : i \in Nat /\ (i < p + 1 => i < p)
    BY <1>4 DEF Newlines
  <2>2. LastBefore(src, p + 1, m)
    BY <1>1, <2>1 DEF LastBefore
  <2>3. ColumnAt(src, p + 1) = p + 1 - m
    BY <2>2, ColumnIs
  <2> QED
    BY <1>2, <1>4, <2>3
<1> QED
  BY <1>3, <1>4

-----------------------------------------------------------------------------
(* Moving on.                                                              *)

LEMMA PeekedIs ==
    ASSUME NEW l, NEW n, NEW i, l.pos + n = i, ~(i > Len(l.src))
    PROVE  PeekChar(l, n) = CharAt(l.src, i)
  BY Zenon DEF PeekChar, CharAt

\* A lexer somewhere in its text.
IsLexer(l) ==
    /\ l = [src |-> l.src, pos |-> l.pos, line |-> l.line, col |-> l.col,
            toks |-> l.toks, err |-> l.err, done |-> l.done]
    /\ Len(l.src) \in Nat /\ l.pos \in 1 .. Len(l.src) + 1

\* The lexer knows where it is.
Placed(l) == l.line = LineAt(l.src, l.pos) /\ l.col = ColumnAt(l.src, l.pos)

\* m is l further on in the text, by n characters if there are as many.
Onward(l, m, n) ==
    /\ m.src = l.src /\ m.toks = l.toks /\ m.err = l.err /\ m.done = l.done
    /\ m.pos = IF l.pos + n > Len(l.src) + 1 THEN Len(l.src) + 1 ELSE l.pos + n
    /\ IsLexer(m)
    /\ Placed(l) => Placed(m)

\* The lexer with another position.
At(l, p, i, j) == [src |-> l.src, pos |-> p, line |-> i, col |-> j,
                   toks |-> l.toks, err |-> l.err, done |-> l.done]

SetPos(l, p) == [l EXCEPT !.pos = p]
SetLine(l, i) == [l EXCEPT !.line = i]
SetCol(l, j) == [l EXCEPT !.col = j]

LEMMA SetAt ==
    ASSUME NEW l, NEW p, NEW i, NEW j, NEW k
    PROVE  /\ SetPos(At(l, p, i, j), k) = At(l, k, i, j)
           /\ SetLine(At(l, p, i, j), k) = At(l, p, k, j)
           /\ SetCol(At(l, p, i, j), k) = At(l, p, i, k)
<1> SUFFICES ASSUME NEW m, m = At(l, p, i, j)
             PROVE  /\ SetPos(m, k) = At(l, k, i, j)
                    /\ SetLine(m, k) = At(l, p, k, j)
                    /\ SetCol(m, k) = At(l, p, i, k)
  OBVIOUS
<1>1. m \in [src : {l.src}, pos : {p}, line : {i}, col : {j},
             toks : {l.toks}, err : {l.err}, done : {l.done}]
  BY DEF At
<1> QED
  BY <1>1 DEF At, SetPos, SetLine, SetCol

LEMMA AtIs ==
    ASSUME NEW l, IsLexer(l), NEW p, NEW i, NEW j
    PROVE  /\ SetCol(SetLine(SetPos(l, p), i), j) = At(l, p, i, j)
           /\ SetCol(SetPos(l, p), j) = At(l, p, l.line, j)
<1>1. l = At(l, l.pos, l.line, l.col)
  BY DEF At, IsLexer
<1>2. SetPos(l, p) = At(l, p, l.line, l.col)
  BY <1>1, SetAt
<1>3. SetLine(SetPos(l, p), i) = At(l, p, i, l.col)
  BY <1>2, SetAt
<1> QED
  BY <1>2, <1>3, SetAt

LEMMA AtMoves ==
    ASSUME NEW l, IsLexer(l), NEW i, NEW j, l.pos <= Len(l.src),
           Placed(l) => i = LineAt(l.src, l.pos + 1) /\ j = ColumnAt(l.src, l.pos + 1)
    PROVE  Onward(l, At(l, l.pos + 1, i, j), 1)
<1> DEFINE m == At(l, l.pos + 1, i, j)
<1>1. /\ m.src = l.src /\ m.toks = l.toks /\ m.err = l.err /\ m.done = l.done
      /\ m.pos = l.pos + 1 /\ m.line = i /\ m.col = j
  BY DEF At
<1>2. m = [src |-> m.src, pos |-> m.pos, line |-> m.line, col |-> m.col,
           toks |-> m.toks, err |-> m.err, done |-> m.done]
  BY DEF At
<1> HIDE DEF m
<1>3. Len(l.src) \in Nat /\ l.pos \in Nat
  BY DEF IsLexer
<1>4. IsLexer(m)
  BY <1>1, <1>2, <1>3 DEF IsLexer
<1>5. Onward(l, m, 1)
  BY <1>1, <1>3, <1>4 DEF Onward, Placed
<1> QED
  BY <1>5 DEF m

LEMMA AdvanceMoves ==
    ASSUME NEW l, IsLexer(l)
    PROVE  Onward(l, Advance(l), 1)
<1>1. CASE AtEnd(l)
  BY <1>1 DEF Advance, AtEnd, IsLexer, Onward
<1>2. CASE ~AtEnd(l)
  <2> DEFINE c == CharAt(l.src, l.pos)
  <2>0. l.pos \in 1 .. Len(l.src) /\ l.pos + 0 = l.pos /\ ~(l.pos > Len(l.src)) /\ l.pos <= Len(l.src)
    BY <1>2 DEF AtEnd, IsLexer
  <2>1. l.pos \in 1 .. Len(l.src) /\ PeekChar(l, 0) = c
    BY <2>0, PeekedIs
  <2>2. LineAt(l.src, l.pos + 1) = LineAt(l.src, l.pos) + (IF c = "\n" THEN 1 ELSE 0)
    BY <2>1, LineAfter DEF IsLexer
  <2>3. LineAt(l.src, l.pos) \in Nat
    BY LineType DEF IsLexer
  <2>4. ColumnAt(l.src, l.pos + 1) = IF c = "\n" THEN 1 ELSE ColumnAt(l.src, l.pos) + 1
    BY <2>1, ColumnAfter DEF IsLexer
  <2> HIDE DEF c
  <2>5. CASE c = "\n"
    <3>1. Advance(l) = SetCol(SetLine(SetPos(l, l.pos + 1), l.line + 1), 1)
      BY <1>2, <2>1, <2>5, Zenon DEF Advance, SetPos, SetLine, SetCol
    <3>2. Placed(l) => l.line + 1 = LineAt(l.src, l.pos + 1) /\ 1 = ColumnAt(l.src, l.pos + 1)
      BY <2>2, <2>3, <2>4, <2>5 DEF Placed
    <3>3. Advance(l) = At(l, l.pos + 1, l.line + 1, 1)
      BY <3>1, AtIs
    <3>4. Onward(l, At(l, l.pos + 1, l.line + 1, 1), 1)
      BY <2>0, <3>2, AtMoves
    <3> QED
      BY <3>3, <3>4
  <2>6. CASE c # "\n"
    <3>1. Advance(l) = SetCol(SetPos(l, l.pos + 1), l.col + 1)
      BY <1>2, <2>1, <2>6, Zenon DEF Advance, SetPos, SetCol
    <3>2. Placed(l) => l.line = LineAt(l.src, l.pos + 1) /\ l.col + 1 = ColumnAt(l.src, l.pos + 1)
      BY <2>2, <2>3, <2>4, <2>6 DEF Placed
    <3>3. Advance(l) = At(l, l.pos + 1, l.line, l.col + 1)
      BY <3>1, AtIs
    <3>4. Onward(l, At(l, l.pos + 1, l.line, l.col + 1), 1)
      BY <2>0, <3>2, AtMoves
    <3> QED
      BY <3>3, <3>4
  <2> QED
    BY <2>5, <2>6
<1> QED
  BY <1>1, <1>2

\* The calls of advance, one after the other.
Advances(l, n, f) == f = [k \in 0 .. n |-> IF k = 0 THEN l ELSE Advance(f[k - 1])]

LEMMA AdvancesExist ==
    ASSUME NEW l, NEW n \in Nat
    PROVE  \E f : Advances(l, n, f)
<1> DEFINE S == {m \in 0 .. n : \E f : Advances(l, m, f)}
<1>1. 0 \in S
  <2>1. Advances(l, 0, [k \in 0 .. 0 |-> l])
    BY DEF Advances
  <2> QED
    BY <2>1
<1>2. ASSUME NEW m \in 1 .. n, m - 1 \in S PROVE m \in S
  <2>1. PICK f : Advances(l, m - 1, f)
    BY <1>2
  <2> DEFINE g == [k \in 0 .. m |-> IF k = m THEN Advance(f[m - 1]) ELSE f[k]]
  <2>2. ASSUME NEW k \in 0 .. m PROVE g[k] = IF k = 0 THEN l ELSE Advance(g[k - 1])
    BY <2>1 DEF Advances
  <2>3. Advances(l, m, g)
    BY <2>2 DEF Advances
  <2> QED
    BY <2>3
<1> HIDE DEF S
<1>3. 0 .. n \subseteq S
  BY <1>1, <1>2, SetInduction
<1> QED
  BY <1>3 DEF S

LEMMA AdvanceByMoves ==
    ASSUME NEW l, NEW n \in Nat, IsLexer(l)
    PROVE  Onward(l, AdvanceBy(l, n), n)
<1>1. PICK f : Advances(l, n, f) /\ AdvanceBy(l, n) = f[n]
  <2>1. AdvanceBy(l, n) = (CHOOSE f : Advances(l, n, f))[n]
    BY DEF AdvanceBy, Advances
  <2> QED
    BY <2>1, AdvancesExist
<1> DEFINE S == {k \in 0 .. n : Onward(l, f[k], k)}
<1>2. 0 \in S
  BY <1>1 DEF Advances, Onward, IsLexer
<1>3. ASSUME NEW k \in 1 .. n, k - 1 \in S PROVE k \in S
  <2>1. f[k] = Advance(f[k - 1]) /\ Onward(l, f[k - 1], k - 1)
    BY <1>1, <1>3 DEF Advances
  <2>2. Onward(f[k - 1], f[k], 1)
    BY <2>1, AdvanceMoves DEF Onward
  <2> QED
    BY <2>1, <2>2 DEF Onward, IsLexer
<1> HIDE DEF S
<1>4. 0 .. n \subseteq S
  BY <1>2, <1>3, SetInduction
<1> QED
  BY <1>1, <1>4 DEF S

\* Where a span ends.
LEMMA SpanIs ==
    ASSUME NEW src, Len(src) \in Nat, NEW p \in 1 .. Len(src) + 1, NEW cs
    PROVE  /\ SpanEnd(src, p, cs) \in p .. Len(src) + 1
           /\ \A i \in p .. SpanEnd(src, p, cs) - 1 : CharAt(src, i) \in cs
           /\ p <= Len(src) /\ CharAt(src, p) \in cs => SpanEnd(src, p, cs) > p
<1> DEFINE T == {q \in p .. Len(src) + 1 : q > Len(src) \/ CharAt(src, q) \notin cs}
           Q(q) == (q > Len(src) \/ CharAt(src, q) \notin cs) /\ \A i \in p .. q - 1 : CharAt(src, i) \in cs
<1>1. T \subseteq Nat /\ Len(src) + 1 \in T
  OBVIOUS
<1>2. PICK q \in T : \A k \in T : q <= k
  BY <1>1, LeastNumber
<1>3. q \in p .. Len(src) + 1 /\ Q(q)
  BY <1>2
<1>4. SpanEnd(src, p, cs) = CHOOSE n \in p .. Len(src) + 1 : Q(n)
  BY Zenon DEF SpanEnd
<1> HIDE DEF Q
<1>5. SpanEnd(src, p, cs) \in p .. Len(src) + 1 /\ Q(SpanEnd(src, p, cs))
  BY <1>3, <1>4
<1> QED
  BY <1>5 DEF Q

LEMMA LineEndIs ==
    ASSUME NEW src, Len(src) \in Nat, NEW p \in 1 .. Len(src) + 1
    PROVE  /\ LineEnd(src, p) \in p .. Len(src) + 1
           /\ p <= Len(src) /\ CharAt(src, p) # "\n" => LineEnd(src, p) > p
<1> DEFINE T == {q \in p .. Len(src) + 1 : q > Len(src) \/ CharAt(src, q) = "\n"}
           Q(q) == (q > Len(src) \/ CharAt(src, q) = "\n") /\ \A i \in p .. q - 1 : CharAt(src, i) # "\n"
<1>1. T \subseteq Nat /\ Len(src) + 1 \in T
  OBVIOUS
<1>2. PICK q \in T : \A k \in T : q <= k
  BY <1>1, LeastNumber
<1>3. q \in p .. Len(src) + 1 /\ Q(q)
  BY <1>2
<1>4. LineEnd(src, p) = CHOOSE n \in p .. Len(src) + 1 : Q(n)
  BY Zenon DEF LineEnd
<1> HIDE DEF Q
<1>5. LineEnd(src, p) \in p .. Len(src) + 1 /\ Q(LineEnd(src, p))
  BY <1>3, <1>4
<1> QED
  BY <1>5 DEF Q

-----------------------------------------------------------------------------
(* Steps of the lexer.                                                     *)

\* m is l further on, with the same tokens, and knows where it is if l does.
On(l, m) ==
    /\ IsLexer(m) /\ m.src = l.src /\ m.toks = l.toks /\ m.pos >= l.pos
    /\ Placed(l) /\ ~NewlineQuoted(l.src) => Placed(m)

NoError(l) == l.err = ""

\* r is l after one call: it skipped what means nothing, or failed, or skipped
\* to a lexer s and read a token from there.
Skipped(l, r) == r.toks = l.toks /\ (~NoError(r) \/ GapIsBlank(l.src, l.pos, r.pos))
TokenFrom(l, r, s, t) ==
    /\ IsLexer(s) /\ s.src = l.src /\ l.pos <= s.pos /\ s.pos <= r.pos
    /\ Placed(l) /\ ~NewlineQuoted(l.src) => Placed(s) /\ Placed(r)
    /\ GapIsBlank(l.src, l.pos, s.pos)
    /\ r.toks = Append(l.toks, t)
    /\ t.line = s.line /\ t.col = s.col /\ t.eline = r.line /\ t.ecol = r.col
Steps(l, r) ==
    /\ IsLexer(r) /\ r.src = l.src /\ r.pos >= l.pos
    /\ Placed(l) /\ ~NewlineQuoted(l.src) => Placed(r) \/ (~NoError(r) /\ QuoteBroken(l.src))
    /\ Skipped(l, r) \/ \E s, t : TokenFrom(l, r, s, t)
    /\ r.pos > l.pos \/ r.done \/ ~NoError(r)

LEMMA OnwardIsOn ==
    ASSUME NEW l, NEW m, NEW n \in Nat, IsLexer(l), Onward(l, m, n)
    PROVE  On(l, m) /\ (n > 0 /\ ~AtEnd(l) => m.pos > l.pos)
  BY DEF Onward, On, IsLexer, AtEnd

LEMMA OnTransitive ==
    ASSUME NEW l, NEW m, NEW n, IsLexer(l), On(l, m), On(m, n)
    PROVE  On(l, n)
  BY DEF On, IsLexer

LEMMA AdvanceOn ==
    ASSUME NEW l, NEW m, IsLexer(l), On(l, m)
    PROVE  On(l, Advance(m)) /\ (~AtEnd(m) => Advance(m).pos > m.pos)
<1>1. IsLexer(m)
  BY DEF On
<1>2. On(m, Advance(m)) /\ (~AtEnd(m) => Advance(m).pos > m.pos)
  BY <1>1, AdvanceMoves, OnwardIsOn
<1> QED
  BY <1>2, OnTransitive

LEMMA AdvanceByOn ==
    ASSUME NEW l, NEW m, NEW n \in Nat, IsLexer(l), On(l, m)
    PROVE  On(l, AdvanceBy(m, n)) /\ (n > 0 /\ ~AtEnd(m) => AdvanceBy(m, n).pos > m.pos)
<1>1. IsLexer(m)
  BY DEF On
<1>2. On(m, AdvanceBy(m, n)) /\ (n > 0 /\ ~AtEnd(m) => AdvanceBy(m, n).pos > m.pos)
  BY <1>1, AdvanceByMoves, OnwardIsOn
<1> QED
  BY <1>2, OnTransitive

LEMMA OnSelf == ASSUME NEW l, IsLexer(l) PROVE On(l, l)
  BY DEF On, IsLexer

\* Only the error is set.
LEMMA FailsOn ==
    ASSUME NEW l, NEW m, NEW e, IsLexer(l), On(l, m), e # ""
    PROVE  On(l, Fails(m, e)) /\ Fails(m, e).err # ""
<1>1. PICK x : Fails(m, e) = [m EXCEPT !.err = x] /\ x # ""
  BY Zenon DEF Fails
<1>2. m \in [src : {m.src}, pos : {m.pos}, line : {m.line}, col : {m.col},
             toks : {m.toks}, err : {m.err}, done : {m.done}]
  BY DEF On, IsLexer
<1> DEFINE r == [m EXCEPT !.err = x]
<1>3. r \in [src : {m.src}, pos : {m.pos}, line : {m.line}, col : {m.col},
             toks : {m.toks}, err : {x}, done : {m.done}]
  BY <1>2
<1> HIDE DEF r
<1>4. /\ r = [src |-> r.src, pos |-> r.pos, line |-> r.line, col |-> r.col,
              toks |-> r.toks, err |-> r.err, done |-> r.done]
      /\ r.src = m.src /\ r.pos = m.pos /\ r.line = m.line /\ r.col = m.col /\ r.toks = m.toks /\ r.err = x
  BY <1>3
<1>5. On(l, r)
  BY <1>4 DEF On, IsLexer, Placed
<1>6. Fails(m, e) = r
  BY <1>1 DEF r
<1> QED
  BY <1>1, <1>4, <1>5, <1>6, Zenon

LEMMA FailSteps ==
    ASSUME NEW l, NEW m, NEW e, IsLexer(l), On(l, m), e # ""
    PROVE  Steps(l, Fails(m, e))
<1>1. On(l, Fails(m, e)) /\ Fails(m, e).err # ""
  BY FailsOn
<1> QED
  BY <1>1, Zenon DEF On, Steps, Skipped, NoError

LEMMA SkipSteps ==
    ASSUME NEW l, NEW m, IsLexer(l), On(l, m), m.pos > l.pos, GapIsBlank(l.src, l.pos, m.pos)
    PROVE  Steps(l, m)
  BY Zenon DEF On, Steps, Skipped

LEMMA ProduceSteps ==
    ASSUME NEW l, NEW s, NEW m, NEW type, NEW val, NEW num,
           IsLexer(l), On(l, s), On(l, m), s.pos <= m.pos, m.pos > l.pos,
           GapIsBlank(l.src, l.pos, s.pos)
    PROVE  Steps(l, Produce(s, m, type, val, num))
<1> DEFINE t == Token(s, type, val, num, m)
           r == [m EXCEPT !.toks = Append(m.toks, t)]
<1>1. t.line = s.line /\ t.col = s.col /\ t.eline = m.line /\ t.ecol = m.col
  BY DEF Token
<1> HIDE DEF t
<1>2. m \in [src : {m.src}, pos : {m.pos}, line : {m.line}, col : {m.col},
             toks : {m.toks}, err : {m.err}, done : {m.done}]
  BY DEF On, IsLexer
<1>3. r \in [src : {m.src}, pos : {m.pos}, line : {m.line}, col : {m.col},
             toks : {Append(m.toks, t)}, err : {m.err}, done : {m.done}]
  BY <1>2
<1> HIDE DEF r
<1>4. /\ r = [src |-> r.src, pos |-> r.pos, line |-> r.line, col |-> r.col,
              toks |-> r.toks, err |-> r.err, done |-> r.done]
      /\ r.src = m.src /\ r.pos = m.pos /\ r.line = m.line /\ r.col = m.col /\ r.toks = Append(m.toks, t)
  BY <1>3
<1>5. IsLexer(r) /\ r.src = l.src /\ r.pos >= l.pos /\ r.pos > l.pos
  BY <1>4 DEF On, IsLexer
<1>6. Placed(l) /\ ~NewlineQuoted(l.src) => Placed(r)
  BY <1>4 DEF On, Placed
<1>7. TokenFrom(l, r, s, t)
  BY <1>1, <1>4, <1>6 DEF On, TokenFrom
<1>8. Steps(l, r)
  BY <1>5, <1>6, <1>7, Zenon DEF Steps
<1> QED
  BY <1>8, Zenon DEF Produce, r, t

-----------------------------------------------------------------------------
(* Strings.                                                                *)

\* A string that is being read.
IsReading(r) == r \in [l : {r.l}, text : {r.text}, open : {r.open}] /\ r.open \in BOOLEAN /\ IsLexer(r.l)

\* One iteration of the loop: it closes the string or reads a character.
Reads(r, s) == IsReading(s) /\ On(r.l, s.l) /\ (s.open => s.l.pos > r.l.pos)

LEMMA ClosedReads ==
    ASSUME NEW r, NEW m, IsReading(r), On(r.l, m)
    PROVE  Reads(r, Closed(r, m))
<1>1. Closed(r, m) \in [l : {m}, text : {r.text}, open : {FALSE}]
  BY DEF IsReading, Closed
<1>2. IsLexer(m)
  BY DEF On
<1> HIDE DEF Closed
<1> QED
  BY <1>1, <1>2 DEF Reads, IsReading

LEMMA LongerReads ==
    ASSUME NEW r, NEW m, NEW c, IsReading(r), r.open, On(r.l, m), m.pos > r.l.pos
    PROVE  Reads(r, Longer(r, m, c))
<1>1. Longer(r, m, c) \in [l : {m}, text : {r.text \o c}, open : {r.open}]
  BY DEF IsReading, Longer
<1>2. IsLexer(m)
  BY DEF On
<1> QED
  BY <1>1, <1>2 DEF Reads, IsReading

LEMMA StringStepReads ==
    ASSUME NEW r, NEW quote, NEW triple, IsReading(r), r.open
    PROVE  Reads(r, StringStep(r, quote, triple))
<1> DEFINE l == r.l
           esc == Advance(l)
           next == StringStep(r, quote, triple)
<1>1. IsLexer(l) /\ On(l, l)
  BY OnSelf DEF IsReading
<1>2. On(l, esc) /\ (~AtEnd(l) => esc.pos > l.pos)
  BY <1>1, AdvanceOn
<1> DEFINE closers == {Fails(l, "IndexError"), Fails(l, "SyntaxError"), AdvanceBy(l, 3), esc,
                       Fails(esc, "IndexError"), Fails(esc, "ValueError")}
           longers == {AdvanceBy(esc, 3), Advance(esc), esc}
           reads == PeekChar(l, 0) = "\\"
<1>3. \/ next \in {Closed(r, m) : m \in closers}
      \/ (reads \/ ~AtEnd(l)) /\ \E c : next \in {Longer(r, m, c) : m \in longers}
  <2>1. PICK v : v = next
    OBVIOUS
  <2>2. \/ v = Closed(r, Fails(l, "IndexError")) \/ v = Closed(r, AdvanceBy(l, 3)) \/ v = Closed(r, esc)
        \/ v = Closed(r, Fails(l, "SyntaxError")) \/ v = Closed(r, Fails(esc, "IndexError"))
        \/ v = Closed(r, Fails(esc, "ValueError"))
        \/ reads /\ v = Longer(r, AdvanceBy(esc, 3), "?")
        \/ reads /\ v = Longer(r, Advance(esc), Escaped(PeekChar(esc, 0)))
        \/ ~AtEnd(l) /\ v = Longer(r, esc, PeekChar(l, 0))
    BY <2>1 DEF StringStep
  <2> HIDE DEF l, esc, next, reads
  <2> QED
    BY <2>1, <2>2
<1>3a. reads => ~AtEnd(l)
  <2>1. l.pos + 0 = l.pos
    BY <1>1 DEF IsLexer
  <2> QED
    BY <2>1, Zenon DEF PeekChar, AtEnd
<1>4. "IndexError" # "" /\ "SyntaxError" # "" /\ "ValueError" # ""
  BY Zenon
<1> HIDE DEF l, esc, next, reads
<1>5. /\ On(l, Fails(l, "IndexError")) /\ On(l, Fails(l, "SyntaxError"))
      /\ On(l, Fails(esc, "IndexError")) /\ On(l, Fails(esc, "ValueError"))
  BY <1>1, <1>2, <1>4, FailsOn, Zenon
<1>6. On(l, AdvanceBy(l, 3)) /\ On(l, Advance(esc)) /\ On(l, AdvanceBy(esc, 3))
  BY <1>1, <1>2, AdvanceByOn, AdvanceOn
<1>7. Advance(esc).pos >= esc.pos /\ AdvanceBy(esc, 3).pos >= esc.pos
  <2>1. IsLexer(esc)
    BY <1>2 DEF On
  <2>2. On(esc, Advance(esc)) /\ On(esc, AdvanceBy(esc, 3))
    BY <2>1, OnSelf, AdvanceOn, AdvanceByOn
  <2> QED
    BY <2>2 DEF On
<1>8. ASSUME NEW m, On(l, m) PROVE Reads(r, Closed(r, m))
  BY <1>8, ClosedReads DEF l
<1>9. ASSUME NEW m, NEW c, On(l, m), m.pos >= esc.pos, ~AtEnd(l) PROVE Reads(r, Longer(r, m, c))
  <2>0. m.pos \in Int /\ esc.pos \in Int /\ l.pos \in Int
    BY <1>1, <1>2, <1>9 DEF On, IsLexer
  <2>1. m.pos > l.pos
    BY <1>2, <1>9, <2>0
  <2> QED
    BY <1>9, <2>1, LongerReads DEF l
<1>10. esc.pos >= esc.pos
  BY <1>2 DEF On, IsLexer
<1>11. Reads(r, next)
  BY <1>2, <1>3, <1>3a, <1>5, <1>6, <1>7, <1>8, <1>9, <1>10, Zenon
<1> QED
  BY <1>11 DEF next

\* The loop, iteration by iteration.
Reading(l, quote, triple, n, f) ==
    f = [k \in 0 .. n |-> IF k = 0 THEN [l |-> l, text |-> "", open |-> TRUE] ELSE StringMore(f[k - 1], quote, triple)]

LEMMA ReadingExists ==
    ASSUME NEW l, NEW quote, NEW triple, NEW n \in Nat
    PROVE  \E f : Reading(l, quote, triple, n, f)
<1> DEFINE S == {m \in 0 .. n : \E f : Reading(l, quote, triple, m, f)}
           first == [l |-> l, text |-> "", open |-> TRUE]
<1>0. \A m, f : Reading(l, quote, triple, m, f) <=>
         f = [k \in 0 .. m |-> IF k = 0 THEN first ELSE StringMore(f[k - 1], quote, triple)]
  BY Zenon DEF Reading
<1> HIDE DEF first
<1>1. 0 \in S
  <2> DEFINE g == [k \in 0 .. 0 |-> first]
  <2>1. ASSUME NEW k \in 0 .. 0 PROVE g[k] = IF k = 0 THEN first ELSE StringMore(g[k - 1], quote, triple)
    OBVIOUS
  <2>2. Reading(l, quote, triple, 0, g)
    BY <2>1, <1>0
  <2> QED
    BY <2>2
<1>2. ASSUME NEW m \in 1 .. n, m - 1 \in S PROVE m \in S
  <2>1. PICK f : Reading(l, quote, triple, m - 1, f)
    BY <1>2
  <2> DEFINE g == [k \in 0 .. m |-> IF k = m THEN StringMore(f[m - 1], quote, triple) ELSE f[k]]
  <2>2. ASSUME NEW k \in 0 .. m PROVE g[k] = IF k = 0 THEN first ELSE StringMore(g[k - 1], quote, triple)
    BY <2>1, <1>0
  <2>3. Reading(l, quote, triple, m, g)
    BY <2>2, <1>0
  <2> QED
    BY <2>3
<1> HIDE DEF S
<1>3. 0 .. n \subseteq S
  BY <1>1, <1>2, SetInduction
<1> QED
  BY <1>3 DEF S

\* The loop ends, further on in the text.
LEMMA StringRestOn ==
    ASSUME NEW l, NEW quote, NEW triple, IsLexer(l)
    PROVE  On(l, StringRest(l, quote, triple).l)
<1> DEFINE n == Len(l.src) - l.pos + 2
           after == CHOOSE f : Reading(l, quote, triple, n, f)
           first == [l |-> l, text |-> "", open |-> TRUE]
           last == CHOOSE k \in 0 .. n : ~after[k].open
<1>1. n \in Nat /\ l.pos \in Nat /\ Len(l.src) \in Nat
  BY DEF IsLexer
<1>2. Reading(l, quote, triple, n, after)
  BY <1>1, ReadingExists
<1>3. after[0] = first /\ \A k \in 1 .. n : after[k] = StringMore(after[k - 1], quote, triple)
  <2> HIDE DEF after, n, first
  <2>1. after = [k \in 0 .. n |-> IF k = 0 THEN first ELSE StringMore(after[k - 1], quote, triple)]
    BY <1>2, Zenon DEF Reading, first
  <2> QED
    BY <1>1, <2>1
<1>4. StringRest(l, quote, triple) = after[last]
  BY Zenon DEF StringRest, Reading
<1>5. first \in [l : {l}, text : {first.text}, open : {TRUE}]
  BY Zenon
<1> DEFINE S == {k \in 0 .. n : IsReading(after[k]) /\ On(l, after[k].l) /\ (after[k].open => after[k].l.pos >= l.pos + k)}
<1> HIDE DEF after, n, first
<1>6. 0 \in S
  <2>1. first.l = l /\ first.open = TRUE /\ IsReading(first) /\ On(l, l)
    BY <1>5, OnSelf DEF IsReading
  <2> QED
    BY <1>1, <1>3, <2>1
<1>7. ASSUME NEW k \in 1 .. n, k - 1 \in S PROVE k \in S
  <2> DEFINE r == after[k - 1]
             s == after[k]
  <2>1. s = StringMore(r, quote, triple) /\ IsReading(r) /\ On(l, r.l) /\ (r.open => r.l.pos >= l.pos + (k - 1))
    BY <1>3, <1>7
  <2> HIDE DEF r, s
  <2>2. CASE r.open
    <3>1. Reads(r, s)
      BY <2>1, <2>2, StringStepReads DEF StringMore
    <3>2. On(l, s.l)
      BY <2>1, <3>1, OnTransitive DEF Reads
    <3>3. s.open => s.l.pos >= l.pos + k
      BY <1>1, <2>1, <2>2, <3>1 DEF Reads, IsReading, IsLexer
    <3> QED
      BY <1>1, <3>1, <3>2, <3>3 DEF Reads, s
  <2>3. CASE ~r.open
    <3>1. s = r
      BY <2>1, <2>3 DEF StringMore
    <3> QED
      BY <1>1, <2>1, <2>3, <3>1 DEF s
  <2> QED
    BY <2>2, <2>3
<1> HIDE DEF S
<1>8. 0 .. n \subseteq S
  BY <1>1, <1>6, <1>7, SetInduction
<1>9. ~after[n].open
  <2>1. IsReading(after[n]) /\ On(l, after[n].l) /\ (after[n].open => after[n].l.pos >= l.pos + n)
    BY <1>1, <1>8 DEF S
  <2> QED
    BY <1>1, <2>1 DEF On, IsLexer, n
<1>10. last \in 0 .. n
  BY <1>1, <1>9
<1> HIDE DEF last
<1>11. On(l, after[last].l)
  BY <1>8, <1>10 DEF S
<1> QED
  BY <1>4, <1>11

-----------------------------------------------------------------------------
(* One call of the lexer, by what it reads.                                *)

LEMMA CharHere ==
    ASSUME NEW l, IsLexer(l), ~AtEnd(l)
    PROVE  PeekChar(l, 0) = CharAt(l.src, l.pos) /\ l.pos \in 1 .. Len(l.src)
<1>1. l.pos \in 1 .. Len(l.src) /\ l.pos + 0 = l.pos /\ ~(l.pos > Len(l.src))
  BY DEF AtEnd, IsLexer
<1> QED
  BY <1>1, PeekedIs

LEMMA NoGap ==
    ASSUME NEW src, NEW p \in Int
    PROVE  GapIsBlank(src, p, p) /\ (CharAt(src, p) \in GapChars => GapIsBlank(src, p, p + 1))
<1>1. p .. p - 1 = {} /\ \A i \in p .. (p + 1) - 1 : i = p
  OBVIOUS
<1> QED
  BY <1>1, Zenon DEF GapIsBlank

\* A lexer that moved to a place in the text ahead.
LEMMA MovesTo ==
    ASSUME NEW l, IsLexer(l), NEW q \in l.pos .. Len(l.src) + 1
    PROVE  On(l, AdvanceBy(l, q - l.pos)) /\ AdvanceBy(l, q - l.pos).pos = q
<1>1. q - l.pos \in Nat /\ l.pos \in Nat /\ Len(l.src) \in Nat
  BY DEF IsLexer
<1>2. Onward(l, AdvanceBy(l, q - l.pos), q - l.pos)
  BY <1>1, AdvanceByMoves
<1>3. On(l, AdvanceBy(l, q - l.pos))
  BY <1>1, OnSelf, AdvanceByOn
<1>4. AdvanceBy(l, q - l.pos).pos = q
  <2> DEFINE m == AdvanceBy(l, q - l.pos)
  <2> HIDE DEF m
  <2>1. Onward(l, m, q - l.pos)
    BY <1>2 DEF m
  <2>2. m.pos = IF l.pos + (q - l.pos) > Len(l.src) + 1 THEN Len(l.src) + 1 ELSE l.pos + (q - l.pos)
    BY <2>1 DEF Onward
  <2>3. m.pos = q
    BY <1>1, <2>2
  <2> QED
    BY <2>3 DEF m
<1> QED
  BY <1>3, <1>4

LEMMA EndSteps ==
    ASSUME NEW l, IsLexer(l)
    PROVE  Steps(l, [Produce(l, l, "EOF", "", 0) EXCEPT !.done = TRUE])
<1> DEFINE t == Token(l, "EOF", "", 0, l)
           p == [l EXCEPT !.toks = Append(l.toks, t)]
           r == [p EXCEPT !.done = TRUE]
<1>1. t.line = l.line /\ t.col = l.col /\ t.eline = l.line /\ t.ecol = l.col
  BY DEF Token
<1> HIDE DEF t
<1>2. l \in [src : {l.src}, pos : {l.pos}, line : {l.line}, col : {l.col},
             toks : {l.toks}, err : {l.err}, done : {l.done}]
  BY DEF IsLexer
<1>3. p \in [src : {l.src}, pos : {l.pos}, line : {l.line}, col : {l.col},
             toks : {Append(l.toks, t)}, err : {l.err}, done : {l.done}]
  BY <1>2
<1> HIDE DEF p
<1>4. r \in [src : {l.src}, pos : {l.pos}, line : {l.line}, col : {l.col},
             toks : {Append(l.toks, t)}, err : {l.err}, done : {TRUE}]
  BY <1>3
<1> HIDE DEF r
<1>5. /\ r = [src |-> r.src, pos |-> r.pos, line |-> r.line, col |-> r.col,
              toks |-> r.toks, err |-> r.err, done |-> r.done]
      /\ r.src = l.src /\ r.pos = l.pos /\ r.line = l.line /\ r.col = l.col /\ r.toks = Append(l.toks, t) /\ r.done
  BY <1>4
<1>6. l.pos \in Int /\ l.pos >= l.pos /\ l.pos <= l.pos
  BY DEF IsLexer
<1>7. IsLexer(r) /\ r.src = l.src /\ r.pos >= l.pos /\ r.done
  BY <1>5, <1>6 DEF IsLexer
<1>8. Placed(l) => Placed(r)
  BY <1>5 DEF Placed
<1>9. TokenFrom(l, r, l, t)
  BY <1>1, <1>5, <1>6, <1>8, NoGap DEF TokenFrom
<1>10. Steps(l, r)
  BY <1>7, <1>8, <1>9, Zenon DEF Steps
<1> QED
  BY <1>10, Zenon DEF Produce, r, p, t

LEMMA NewlineSteps ==
    ASSUME NEW l, NEW type, NEW val, NEW num, IsLexer(l), ~AtEnd(l)
    PROVE  Steps(l, Produce(l, Advance(l), type, val, num))
<1>1. On(l, l) /\ On(l, Advance(l)) /\ Advance(l).pos > l.pos /\ l.pos \in Int
  BY OnSelf, AdvanceOn DEF IsLexer
<1>2. l.pos <= Advance(l).pos /\ GapIsBlank(l.src, l.pos, l.pos)
  BY <1>1, NoGap DEF On
<1> QED
  BY <1>1, <1>2, ProduceSteps

LEMMA SpanSteps ==
    ASSUME NEW l, NEW cs \in SUBSET GapChars, IsLexer(l), ~AtEnd(l), PeekChar(l, 0) \in cs
    PROVE  Steps(l, AdvanceBy(l, SpanEnd(l.src, l.pos, cs) - l.pos))
<1> DEFINE q == SpanEnd(l.src, l.pos, cs)
<1>1. PeekChar(l, 0) = CharAt(l.src, l.pos) /\ l.pos \in 1 .. Len(l.src) /\ Len(l.src) \in Nat
  BY CharHere DEF IsLexer
<1>2. CharAt(l.src, l.pos) \in cs
  BY <1>1
<1>3. q \in l.pos .. Len(l.src) + 1 /\ q > l.pos /\ \A i \in l.pos .. q - 1 : CharAt(l.src, i) \in cs
  BY <1>1, <1>2, SpanIs
<1> HIDE DEF q
<1>4. GapIsBlank(l.src, l.pos, q)
  BY <1>3 DEF GapIsBlank
<1>5. Steps(l, AdvanceBy(l, q - l.pos))
  BY <1>3, <1>4, MovesTo, SkipSteps
<1> QED
  BY <1>5 DEF q

LEMMA CommentSteps ==
    ASSUME NEW l, IsLexer(l), ~AtEnd(l), PeekChar(l, 0) = "#"
    PROVE  Steps(l, AdvanceBy(l, LineEnd(l.src, l.pos) - l.pos))
<1> DEFINE q == LineEnd(l.src, l.pos)
<1>1. CharAt(l.src, l.pos) = "#" /\ l.pos \in 1 .. Len(l.src) /\ Len(l.src) \in Nat
  BY CharHere DEF IsLexer
<1>2. CharAt(l.src, l.pos) # "\n"
  BY <1>1
<1>3. q \in l.pos .. Len(l.src) + 1 /\ q > l.pos
  BY <1>1, <1>2, LineEndIs
<1> HIDE DEF q
<1>4. l.pos \in l.pos .. q - 1
  BY <1>1, <1>3
<1>5. GapIsBlank(l.src, l.pos, q)
  BY <1>1, <1>4, Zenon DEF GapIsBlank
<1>6. Steps(l, AdvanceBy(l, q - l.pos))
  BY <1>3, <1>5, MovesTo, SkipSteps
<1> QED
  BY <1>6 DEF q

\* A string starts at start, after l; what is between them is blank.
LEMMA ReadStringSteps ==
    ASSUME NEW l, NEW start, NEW type, IsLexer(l), On(l, start), GapIsBlank(l.src, l.pos, start.pos)
    PROVE  Steps(l, ReadString(start, start, type))
<1> DEFINE quote == PeekChar(start, 0)
           open == Advance(start)
           triple == PeekChar(open, 0) = quote /\ PeekChar(open, 1) = quote
           from == IF triple THEN AdvanceBy(open, 2) ELSE open
           rest == StringRest(from, quote, triple)
<1>1. ReadString(start, start, type) = StringToken(start, open, rest, type)
  BY Zenon DEF ReadString
<1>2. IsLexer(start) /\ On(l, open) /\ On(start, open) /\ (~AtEnd(start) => open.pos > start.pos)
  BY OnSelf, AdvanceOn DEF On
<1>3. ~AtEnd(open) => ~AtEnd(start)
  BY Zenon DEF Advance
<1> HIDE DEF open, quote, triple
<1>4. IsLexer(open)
  BY <1>2 DEF On
<1>5. On(l, from) /\ On(open, from) /\ IsLexer(from)
  BY <1>2, <1>4, AdvanceByOn, OnSelf DEF On
<1> HIDE DEF from
<1>6. On(from, rest.l)
  BY <1>5, StringRestOn
<1> HIDE DEF rest
<1>7. On(l, rest.l) /\ On(open, rest.l)
  BY <1>4, <1>5, <1>6, OnTransitive
<1>8. "IndexError" # ""
  BY Zenon
<1>9. Steps(l, Fails(open, "IndexError"))
  BY <1>2, <1>8, FailSteps, Zenon
<1>10. rest.l.err # "" => Steps(l, rest.l)
  BY <1>7, Zenon DEF Steps, Skipped, On, NoError
<1>11. ASSUME ~AtEnd(open) PROVE Steps(l, Produce(start, rest.l, type, rest.text, 0))
  <2>1. l.pos \in Int /\ start.pos \in Int /\ open.pos \in Int /\ rest.l.pos \in Int
    BY <1>2, <1>4, <1>7 DEF On, IsLexer
  <2>2. open.pos > start.pos /\ start.pos >= l.pos /\ rest.l.pos >= open.pos
    BY <1>2, <1>3, <1>7, <1>11 DEF On
  <2>3. start.pos <= rest.l.pos /\ rest.l.pos > l.pos
    BY <2>1, <2>2
  <2> QED
    BY <1>7, <2>3, ProduceSteps
<1>12. Steps(l, StringToken(start, open, rest, type))
  BY <1>9, <1>10, <1>11, Zenon DEF StringToken
<1> QED
  BY <1>1, <1>12

LEMMA PrefixedSteps ==
    ASSUME NEW l, NEW type, IsLexer(l), ~AtEnd(l), PeekChar(l, 0) \in GapChars
    PROVE  Steps(l, ReadString(Advance(l), Advance(l), type))
<1>1. On(l, Advance(l)) /\ Advance(l).pos = l.pos + 1
  BY AdvanceMoves, OnSelf, AdvanceOn DEF Onward, IsLexer, AtEnd
<1>2. GapIsBlank(l.src, l.pos, l.pos + 1)
  BY CharHere, NoGap
<1> QED
  BY <1>1, <1>2, ReadStringSteps

LEMMA PlainStringSteps ==
    ASSUME NEW l, NEW type, IsLexer(l)
    PROVE  Steps(l, ReadString(l, l, type))
<1>1. On(l, l) /\ GapIsBlank(l.src, l.pos, l.pos)
  BY OnSelf, NoGap DEF IsLexer
<1> QED
  BY <1>1, ReadStringSteps

\* A token that starts where the lexer is.
LEMMA TokenSteps ==
    ASSUME NEW l, NEW q \in l.pos + 1 .. Len(l.src) + 1, NEW type, NEW val, NEW num, IsLexer(l)
    PROVE  Steps(l, Produce(l, AdvanceBy(l, q - l.pos), type, val, num))
<1>1. l.pos \in Nat /\ Len(l.src) \in Nat /\ q \in l.pos .. Len(l.src) + 1 /\ q > l.pos /\ l.pos <= q
  BY DEF IsLexer
<1>2. On(l, AdvanceBy(l, q - l.pos)) /\ AdvanceBy(l, q - l.pos).pos = q
  BY <1>1, MovesTo
<1>3. On(l, l) /\ GapIsBlank(l.src, l.pos, l.pos)
  BY <1>1, OnSelf, NoGap
<1> QED
  BY <1>1, <1>2, <1>3, ProduceSteps

LEMMA ReadNumberSteps ==
    ASSUME NEW l, IsLexer(l), ~AtEnd(l), PeekChar(l, 0) \in Digit
    PROVE  Steps(l, ReadNumber(l))
<1> DEFINE mark == IF PeekChar(l, 0) = "0" /\ PeekValid(l) THEN PeekChar(l, 1) ELSE " "
           base == CASE mark \in {"x", "X"} -> 16 [] mark \in {"b", "B"} -> 2 [] mark \in {"o", "O"} -> 8 [] OTHER -> 10
           digits == CASE base = 16 -> HexDigit [] base = 2 -> {"0", "1"} [] base = 8 -> Digit \ {"8", "9"} [] OTHER -> Digit
           start == IF base = 10 THEN l.pos ELSE l.pos + 2
           cs == digits \cup {"_"}
           stop == SpanEnd(l.src, start, cs)
           text == SubSeq(l.src, start, stop - 1)
           end == AdvanceBy(l, stop - l.pos)
<1>1. ReadNumber(l) =
        CASE start > Len(l.src) -> Fails(end, "IndexError")
          [] Chars(text) \subseteq {"_"} -> Fails(end, "ValueError")
          [] OTHER -> Produce(l, end, "NUMBER", text, NumberValue(text, base))
  BY Zenon DEF ReadNumber
<1>2. ASSUME ~PeekValid(l) PROVE base = 10
  <2>1. mark = " "
    BY <1>2, Zenon
  <2> HIDE DEF mark
  <2>2. mark \notin {"x", "X"} /\ mark \notin {"b", "B"} /\ mark \notin {"o", "O"}
    BY <2>1, Zenon
  <2> QED
    BY <2>2, Zenon
<1> HIDE DEF base
<1>3. 10 # 16 /\ 10 # 2 /\ 10 # 8
  OBVIOUS
<1>4. base = 10 => digits = Digit
  BY <1>3, Zenon
<1>5. base = 10 => PeekChar(l, 0) \in cs
  BY <1>4, Zenon
<1> HIDE DEF cs, digits
<1>6. l.pos \in Nat /\ Len(l.src) \in Nat /\ l.pos \in 1 .. Len(l.src) /\ PeekChar(l, 0) = CharAt(l.src, l.pos)
  BY CharHere DEF IsLexer
<1>7. start \in l.pos .. Len(l.src) + 1 /\ start \in 1 .. Len(l.src) + 1
  BY <1>2, <1>6 DEF PeekValid
<1>8. stop \in start .. Len(l.src) + 1 /\ (base = 10 => stop > l.pos)
  BY <1>5, <1>6, <1>7, SpanIs
<1>9. stop \in l.pos + 1 .. Len(l.src) + 1 /\ stop \in l.pos .. Len(l.src) + 1
  BY <1>6, <1>7, <1>8
<1> HIDE DEF start, stop, text
<1>10. On(l, end)
  BY <1>9, MovesTo
<1>11. Steps(l, Produce(l, end, "NUMBER", text, NumberValue(text, base)))
  BY <1>9, TokenSteps, Zenon
<1> HIDE DEF end
<1>12. "IndexError" # "" /\ "ValueError" # ""
  BY Zenon
<1>13. Steps(l, Fails(end, "IndexError")) /\ Steps(l, Fails(end, "ValueError"))
  BY <1>10, <1>12, FailSteps, Zenon
<1> QED
  BY <1>1, <1>11, <1>13, Zenon

LEMMA ReadIdentifierSteps ==
    ASSUME NEW l, IsLexer(l), ~AtEnd(l), PeekChar(l, 0) \in Word
    PROVE  Steps(l, ReadIdentifier(l))
<1> DEFINE stop == SpanEnd(l.src, l.pos, Word)
<1>1. PeekChar(l, 0) = CharAt(l.src, l.pos) /\ l.pos \in 1 .. Len(l.src) /\ Len(l.src) \in Nat
  BY CharHere DEF IsLexer
<1>2. CharAt(l.src, l.pos) \in Word /\ l.pos \in 1 .. Len(l.src) + 1 /\ l.pos <= Len(l.src)
  BY <1>1
<1>3. stop \in l.pos + 1 .. Len(l.src) + 1
  BY <1>1, <1>2, SpanIs
<1>4. \E type, val, num : ReadIdentifier(l) = Produce(l, AdvanceBy(l, stop - l.pos), type, val, num)
  BY Zenon DEF ReadIdentifier
<1> QED
  BY <1>3, <1>4, TokenSteps, Zenon

LEMMA ReadOperatorSteps ==
    ASSUME NEW l, IsLexer(l), ~AtEnd(l)
    PROVE  Steps(l, ReadOperator(l))
<1> DEFINE n == OperatorLength(l)
<1>1. n \in 0 .. 3
  <2> DEFINE lengths == {k \in 1 .. 3 : l.pos + k - 1 <= Len(l.src) /\ SubSeq(l.src, l.pos, l.pos + k - 1) \in Operators}
             best == CHOOSE k \in lengths : \A m \in lengths : m <= k
  <2>1. n = IF lengths = {} THEN 0 ELSE best
    BY Zenon DEF OperatorLength
  <2>2. lengths \subseteq 1 .. 3
    OBVIOUS
  <2> HIDE DEF lengths
  <2>3. ASSUME lengths # {} PROVE \E k \in lengths : \A m \in lengths : m <= k
    <3>1. CASE 3 \in lengths
      BY <2>2, <3>1
    <3>2. CASE 3 \notin lengths /\ 2 \in lengths
      BY <2>2, <3>2
    <3>3. CASE 3 \notin lengths /\ 2 \notin lengths
      <4>1. \A m \in lengths : m = 1
        BY <2>2, <3>3
      <4> QED
        BY <2>3, <4>1
    <3> QED
      BY <3>1, <3>2, <3>3
  <2>4. lengths # {} => best \in lengths
    BY <2>3
  <2> HIDE DEF best, n
  <2> QED
    BY <2>1, <2>2, <2>4
<1>2. n = 0 => ReadOperator(l) = Fails(l, "SyntaxError")
  BY Zenon DEF ReadOperator
<1>3. n # 0 => \E type, val, num : ReadOperator(l) = Produce(l, AdvanceBy(l, n), type, val, num)
  BY Zenon DEF ReadOperator
<1> HIDE DEF n
<1>4. "SyntaxError" # ""
  BY Zenon
<1>5. On(l, l) /\ GapIsBlank(l.src, l.pos, l.pos) /\ l.pos \in Int
  BY OnSelf, NoGap DEF IsLexer
<1>6. CASE n = 0
  BY <1>2, <1>4, <1>5, <1>6, FailSteps, Zenon
<1>7. CASE n # 0
  <2>1. n \in Nat /\ n > 0
    BY <1>1, <1>7
  <2>2. On(l, AdvanceBy(l, n)) /\ AdvanceBy(l, n).pos > l.pos
    BY <1>5, <2>1, AdvanceByOn
  <2>3. l.pos <= AdvanceBy(l, n).pos
    BY <1>5, <2>2 DEF On
  <2>4. \A type, val, num : Steps(l, Produce(l, AdvanceBy(l, n), type, val, num))
    BY <1>5, <2>2, <2>3, ProduceSteps
  <2> QED
    BY <1>3, <1>7, <2>4, Zenon
<1> QED
  BY <1>6, <1>7

LEMMA LooksOn ==
    ASSUME NEW l, IsLexer(l), ~AtEnd(l), PeekChar(l, 0) = "'", PeekValid(l),
           PeekChar(l, 1) # "\n" \/ NewlineQuoted(l.src)
    PROVE  On(l, [l EXCEPT !.line = @ + LinesCrossed(l)])
<1> DEFINE n == LinesCrossed(l)
           r == [l EXCEPT !.line = l.line + n]
<1>1. /\ l.pos \in 1 .. Len(l.src) /\ CharAt(l.src, l.pos) = "'"
      /\ Len(l.src) \in Nat /\ l.pos \in Nat /\ l.pos + 1 <= Len(l.src)
  BY CharHere DEF IsLexer, PeekValid
<1>2. n = 0 \/ PeekChar(l, 1) = "\n" \/ (PeekChar(l, 1) = "\\" /\ PeekChar(l, 2) = "\n")
  BY Zenon DEF LinesCrossed
<1>3. PeekChar(l, 1) = CharAt(l.src, l.pos + 1)
  <2>1. l.pos + 1 = l.pos + 1 /\ ~(l.pos + 1 > Len(l.src))
    BY <1>1
  <2> QED
    BY <2>1, PeekedIs
<1>4. ASSUME PeekChar(l, 2) = "\n"
      PROVE  l.pos + 2 <= Len(l.src) /\ CharAt(l.src, l.pos + 2) = "\n"
  <2>1. ~(l.pos + 2 > Len(l.src))
    BY <1>4, Zenon DEF PeekChar
  <2>2. PeekChar(l, 2) = CharAt(l.src, l.pos + 2)
    BY <2>1, PeekedIs
  <2> QED
    BY <1>1, <1>4, <2>1, <2>2
<1> HIDE DEF n
<1>5. CASE NewlineQuoted(l.src) \/ n = 0
  <2>1. l \in [src : {l.src}, pos : {l.pos}, line : {l.line}, col : {l.col},
               toks : {l.toks}, err : {l.err}, done : {l.done}]
    BY DEF IsLexer
  <2>2. r \in [src : {l.src}, pos : {l.pos}, line : {l.line + n}, col : {l.col},
               toks : {l.toks}, err : {l.err}, done : {l.done}]
    BY <2>1
  <2> HIDE DEF r
  <2>3. /\ r = [src |-> r.src, pos |-> r.pos, line |-> r.line, col |-> r.col,
                toks |-> r.toks, err |-> r.err, done |-> r.done]
        /\ r.src = l.src /\ r.pos = l.pos /\ r.line = l.line + n /\ r.col = l.col /\ r.toks = l.toks
    BY <2>2
  <2>4. IsLexer(r) /\ r.src = l.src /\ r.pos >= l.pos
    BY <1>1, <2>3 DEF IsLexer
  <2>5. LineAt(l.src, l.pos) \in Nat
    BY <1>1, LineType
  <2>6. Placed(l) /\ ~NewlineQuoted(l.src) => Placed(r)
    BY <1>5, <2>3, <2>5 DEF Placed
  <2>7. On(l, r)
    BY <2>3, <2>4, <2>6 DEF On
  <2> QED
    BY <2>7, Zenon DEF r, n
<1>7. CASE PeekChar(l, 1) = "\\" /\ PeekChar(l, 2) = "\n"
  <2>1. /\ l.pos + 2 \in Newlines(l.src) /\ CharAt(l.src, (l.pos + 2) - 1) = "\\"
        /\ l.pos + 2 > 2 /\ CharAt(l.src, (l.pos + 2) - 2) = "'"
    <3>1. (l.pos + 2) - 1 = l.pos + 1 /\ (l.pos + 2) - 2 = l.pos /\ l.pos + 2 > 2
      BY <1>1
    <3> QED
      BY <1>1, <1>3, <1>4, <1>7, <3>1 DEF Newlines
  <2> QED
    BY <1>5, <2>1, Zenon DEF NewlineQuoted
<1> QED
  BY <1>2, <1>5, <1>7

Opened(l) == [l |-> l, text |-> "", open |-> TRUE]

\* A string that is closed at once.
LEMMA StringRestClosed ==
    ASSUME NEW l, NEW quote, NEW triple, NEW m, IsLexer(l),
           StringStep(Opened(l), quote, triple) = Closed(Opened(l), m)
    PROVE  StringRest(l, quote, triple).l = m
<1> DEFINE first == Opened(l)
           n == Len(l.src) - l.pos + 2
           after == CHOOSE f : Reading(l, quote, triple, n, f)
           last == CHOOSE k \in 0 .. n : ~after[k].open
<1>1. n \in Nat /\ n >= 1
  BY DEF IsLexer
<1>2. Reading(l, quote, triple, n, after)
  BY <1>1, ReadingExists
<1>3. after[0] = first /\ \A k \in 1 .. n : after[k] = StringMore(after[k - 1], quote, triple)
  <2> HIDE DEF after, n
  <2>1. after = [k \in 0 .. n |-> IF k = 0 THEN first ELSE StringMore(after[k - 1], quote, triple)]
    BY <1>2, Zenon DEF Reading, Opened
  <2> QED
    BY <1>1, <2>1
<1>4. StringRest(l, quote, triple) = after[last]
  BY Zenon DEF StringRest, Reading
<1>5. first.open = TRUE /\ first \in [l : {l}, text : {first.text}, open : {TRUE}]
  BY Zenon DEF Opened
<1> HIDE DEF after, n
<1>6. Closed(first, m) \in [l : {m}, text : {first.text}, open : {FALSE}]
  BY <1>5 DEF Closed
<1>7. after[1] = Closed(first, m)
  <2>1. after[1] = StringMore(after[1 - 1], quote, triple) /\ 1 - 1 = 0
    BY <1>1, <1>3
  <2> QED
    BY <1>3, <1>5, <2>1, Zenon DEF StringMore
<1>8. ~after[1].open /\ after[1].l = m
  BY <1>6, <1>7
<1> DEFINE S == {k \in 0 .. n - 1 : after[k + 1] = after[1]}
<1>9. 0 \in S
  BY <1>1
<1>10. ASSUME NEW k \in 1 .. n - 1, k - 1 \in S PROVE k \in S
  <2>1. after[k + 1] = StringMore(after[k], quote, triple) /\ after[k] = after[1]
    BY <1>1, <1>3, <1>10
  <2>2. after[k + 1] = after[1]
    BY <1>8, <2>1, Zenon DEF StringMore
  <2> QED
    BY <1>1, <2>2
<1> HIDE DEF S
<1>11. 0 .. n - 1 \subseteq S
  <2>1. n - 1 \in Nat
    BY <1>1
  <2> QED
    BY <1>9, <1>10, <2>1, SetInduction
<1>12. last \in 0 .. n /\ ~after[last].open
  BY <1>1, <1>8
<1> HIDE DEF last
<1>13. last # 0
  BY <1>3, <1>5, <1>12, Zenon
<1>14. last - 1 \in S /\ (last - 1) + 1 = last
  BY <1>1, <1>11, <1>12, <1>13
<1>15. after[last] = after[1]
  BY <1>14 DEF S
<1> QED
  BY <1>4, <1>8, <1>15

\* A string opened by a single quote does not go over the end of the line.
LEMMA BrokenStringFails ==
    ASSUME NEW l, NEW type, IsLexer(l), ~AtEnd(l), PeekChar(l, 0) = "'", PeekChar(l, 1) = "\n"
    PROVE  On(l, ReadString(l, l, type)) /\ ~NoError(ReadString(l, l, type))
<1> DEFINE open == Advance(l)
           triple == PeekChar(open, 0) = PeekChar(l, 0) /\ PeekChar(open, 1) = PeekChar(l, 0)
           from == IF triple THEN AdvanceBy(open, 2) ELSE open
           rest == StringRest(from, PeekChar(l, 0), triple)
<1>1. ReadString(l, l, type) = StringToken(l, open, rest, type)
  BY Zenon DEF ReadString
<1>2. ~(l.pos + 1 > Len(l.src))
  BY Zenon DEF PeekChar
<1>3. open.src = l.src /\ open.pos = l.pos + 1 /\ IsLexer(open) /\ On(l, open)
  BY <1>2, AdvanceMoves, OnSelf, AdvanceOn DEF Onward, IsLexer, AtEnd
<1> HIDE DEF open
<1>4. ~AtEnd(open) /\ PeekChar(open, 0) = "\n"
  <2>1. open.pos + 0 = l.pos + 1 /\ ~(l.pos + 1 > Len(open.src))
    BY <1>2, <1>3 DEF IsLexer
  <2>2. PeekChar(open, 0) = CharAt(l.src, l.pos + 1)
    BY <1>3, <2>1, PeekedIs
  <2>3. PeekChar(l, 1) = CharAt(l.src, l.pos + 1)
    BY <1>2, PeekedIs
  <2> QED
    BY <1>2, <1>3, <2>2, <2>3 DEF AtEnd
<1>5. ~triple
  BY <1>4, Zenon
<1> HIDE DEF triple
<1>6. from = open
  BY <1>5
<1>7. Opened(open).l = open
  BY Zenon DEF Opened
<1>8. StringStep(Opened(open), PeekChar(l, 0), triple) = Closed(Opened(open), Fails(open, "SyntaxError"))
  <2>1. "\n" # "'" /\ "\n" # "\\"
    BY Zenon
  <2> QED
    BY <1>4, <1>5, <1>7, <2>1, Zenon DEF StringStep
<1>9. StringRest(open, PeekChar(l, 0), triple).l = Fails(open, "SyntaxError")
  BY <1>3, <1>8, StringRestClosed, Zenon
<1>10. rest.l = Fails(open, "SyntaxError")
  BY <1>6, <1>9
<1> HIDE DEF from, rest
<1>11. "SyntaxError" # ""
  BY Zenon
<1>12. On(l, rest.l) /\ rest.l.err # ""
  BY <1>3, <1>10, <1>11, FailsOn, Zenon
<1>13. StringToken(l, open, rest, type) = rest.l
  BY <1>4, <1>12, Zenon DEF StringToken
<1> QED
  BY <1>1, <1>12, <1>13, Zenon DEF NoError

LEMMA ReadQuoteSteps ==
    ASSUME NEW l, IsLexer(l), ~AtEnd(l), PeekChar(l, 0) = "'"
    PROVE  Steps(l, ReadQuote(l))
<1> DEFINE looked == IF PeekValid(l) THEN [l EXCEPT !.line = @ + LinesCrossed(l)] ELSE l
           Ends == {AdvanceBy(looked, 3), AdvanceBy(looked, 4)}
<1>1. ReadQuote(l) = IF QuotedChar(l) THEN ReadChar(looked) ELSE ReadString(looked, looked, "STRING")
  BY Zenon DEF ReadQuote
<1>2. IsLexer(looked) /\ looked.pos = l.pos /\ looked.src = l.src /\ looked.toks = l.toks
  <2>1. l \in [src : {l.src}, pos : {l.pos}, line : {l.line}, col : {l.col},
               toks : {l.toks}, err : {l.err}, done : {l.done}]
    BY DEF IsLexer
  <2>2. looked \in [src : {l.src}, pos : {l.pos}, line : {l.line, l.line + LinesCrossed(l)}, col : {l.col},
                    toks : {l.toks}, err : {l.err}, done : {l.done}]
    BY <2>1
  <2> HIDE DEF looked
  <2>3. /\ looked = [src |-> looked.src, pos |-> looked.pos, line |-> looked.line, col |-> looked.col,
                     toks |-> looked.toks, err |-> looked.err, done |-> looked.done]
        /\ looked.pos = l.pos /\ looked.src = l.src /\ looked.toks = l.toks
    BY <2>2
  <2> QED
    BY <2>3 DEF IsLexer
<1>3. CASE PeekChar(l, 1) # "\n" \/ NewlineQuoted(l.src)
  <2>1. On(l, looked)
    <3>1. On(l, l)
      BY OnSelf
    <3> QED
      BY <1>3, <3>1, LooksOn, Zenon
  <2>2. \E m \in Ends : \E type, val, num : ReadChar(looked) = Produce(looked, m, type, val, num)
    <3> HIDE DEF looked
    <3> QED
      BY Zenon DEF ReadChar
  <2> HIDE DEF looked
  <2>3. GapIsBlank(l.src, l.pos, looked.pos) /\ l.pos \in Int /\ ~AtEnd(looked)
    BY <1>2, NoGap DEF IsLexer, AtEnd
  <2>4. Steps(l, ReadString(looked, looked, "STRING"))
    BY <2>1, <2>3, ReadStringSteps
  <2>5. ASSUME NEW n \in {3, 4}, NEW type, NEW val, NEW num
        PROVE  Steps(l, Produce(looked, AdvanceBy(looked, n), type, val, num))
    <3> DEFINE m == AdvanceBy(looked, n)
    <3>1. n \in Nat /\ n > 0
      OBVIOUS
    <3>2. On(l, m) /\ m.pos > l.pos
      BY <1>2, <2>1, <2>3, <3>1, AdvanceByOn
    <3> HIDE DEF m
    <3>3. looked.pos <= m.pos
      BY <1>2, <2>3, <3>2 DEF On
    <3>4. Steps(l, Produce(looked, m, type, val, num))
      BY <2>1, <2>3, <3>2, <3>3, ProduceSteps
    <3> QED
      BY <3>4 DEF m
  <2> QED
    BY <1>1, <2>2, <2>4, <2>5, Zenon
<1>4. CASE PeekChar(l, 1) = "\n" /\ ~NewlineQuoted(l.src)
  <2> HIDE DEF looked
  <2>1. /\ l.pos \in 1 .. Len(l.src) /\ CharAt(l.src, l.pos) = "'"
        /\ Len(l.src) \in Nat /\ l.pos \in Nat
    BY CharHere DEF IsLexer
  <2>2. ~(l.pos + 1 > Len(l.src))
    BY <1>4, Zenon DEF PeekChar
  <2>3. CharAt(l.src, l.pos + 1) = "\n"
    BY <1>4, <2>2, PeekedIs
  <2>4. l.pos + 1 \in Newlines(l.src) /\ l.pos + 1 > 1 /\ CharAt(l.src, (l.pos + 1) - 1) = "'"
    BY <2>1, <2>2, <2>3 DEF Newlines
  <2>5. QuoteBroken(l.src)
    BY <2>4, Zenon DEF QuoteBroken
  <2>6. ASSUME QuotedChar(l) PROVE FALSE
    <3>1. l.pos + 2 <= Len(l.src) /\ PeekChar(l, 2) = "'"
      BY <1>4, <2>6, Zenon DEF QuotedChar
    <3>2. ~(l.pos + 2 > Len(l.src)) /\ l.pos + 1 < Len(l.src) /\ (l.pos + 1) + 1 = l.pos + 2
      BY <2>1, <3>1
    <3>3. CharAt(l.src, (l.pos + 1) + 1) = "'"
      BY <3>1, <3>2, PeekedIs
    <3> QED
      BY <1>4, <2>4, <3>2, <3>3, Zenon DEF NewlineQuoted
  <2>7. ~AtEnd(looked) /\ PeekChar(looked, 0) = "'" /\ PeekChar(looked, 1) = "\n"
    BY <1>2, <1>4, Zenon DEF AtEnd, PeekChar
  <2> DEFINE r == ReadString(looked, looked, "STRING")
  <2>8. On(looked, r) /\ ~NoError(r)
    BY <1>2, <2>7, BrokenStringFails
  <2> HIDE DEF r
  <2>9. IsLexer(r) /\ r.src = l.src /\ r.toks = l.toks /\ r.pos >= l.pos
    BY <1>2, <2>8, Zenon DEF On
  <2>10. Steps(l, r)
    BY <2>5, <2>8, <2>9, Zenon DEF Steps, Skipped
  <2> QED
    BY <1>1, <2>6, <2>10, Zenon DEF r
<1> QED
  BY <1>3, <1>4

LEMMA ContinuationSteps ==
    ASSUME NEW l, IsLexer(l), ~AtEnd(l), PeekChar(l, 0) = "\\"
    PROVE  /\ Steps(l, Fails(Advance(l), "IndexError"))
           /\ Steps(l, Advance(l))
           /\ PeekChar(l, 1) = "\n" => Steps(l, AdvanceBy(l, 2))
<1>1. On(l, Advance(l)) /\ Advance(l).pos = l.pos + 1
  BY AdvanceMoves, OnSelf, AdvanceOn DEF Onward, IsLexer, AtEnd
<1>2. /\ l.pos \in 1 .. Len(l.src) /\ CharAt(l.src, l.pos) = "\\"
      /\ Len(l.src) \in Nat /\ l.pos \in Nat
  BY CharHere DEF IsLexer
<1>3. "\\" \in GapChars /\ "\n" \in GapChars /\ "IndexError" # ""
  BY Zenon DEF GapChars
<1>4. GapIsBlank(l.src, l.pos, l.pos + 1)
  BY <1>2, <1>3, NoGap
<1>5. l.pos + 1 > l.pos
  BY <1>2
<1>6. Steps(l, Advance(l))
  BY <1>1, <1>4, <1>5, SkipSteps
<1>7. ASSUME PeekChar(l, 1) = "\n" PROVE Steps(l, AdvanceBy(l, 2))
  <2>1. ~(l.pos + 1 > Len(l.src))
    BY <1>7, Zenon DEF PeekChar
  <2>2. CharAt(l.src, l.pos + 1) = "\n" /\ l.pos + 2 \in l.pos .. Len(l.src) + 1 /\ (l.pos + 2) - l.pos = 2
    BY <1>2, <1>7, <2>1, PeekedIs
  <2>3. On(l, AdvanceBy(l, 2)) /\ AdvanceBy(l, 2).pos = l.pos + 2
    BY <2>2, MovesTo
  <2>4. \A i \in l.pos .. (l.pos + 2) - 1 : i = l.pos \/ i = l.pos + 1
    BY <1>2
  <2>5. GapIsBlank(l.src, l.pos, l.pos + 2)
    BY <1>2, <1>3, <2>2, <2>4, Zenon DEF GapIsBlank
  <2>6. l.pos + 2 > l.pos
    BY <1>2
  <2> QED
    BY <2>3, <2>5, <2>6, SkipSteps
<1>8. Steps(l, Fails(Advance(l), "IndexError"))
  BY <1>1, <1>3, FailSteps, Zenon
<1> QED
  BY <1>6, <1>7, <1>8

\* Each call of the lexer steps on.
LEMMA LexStepSteps ==
    ASSUME NEW l, IsLexer(l)
    PROVE  Steps(l, LexStep(l))
<1> DEFINE c == PeekChar(l, 0)
<1>1. AtEnd(l) => LexStep(l) = [Produce(l, l, "EOF", "", 0) EXCEPT !.done = TRUE]
  BY Zenon DEF LexStep
<1>2. CASE AtEnd(l)
  BY <1>1, <1>2, EndSteps, Zenon
<1>3. CASE ~AtEnd(l)
  <2> DEFINE quoted == PeekChar(l, 1) \in {"\"", "'"}
  <2>1. LexStep(l) =
          CASE c = "\n" -> Produce(l, Advance(l), "NEWLINE", "", 0)
            [] c \in {" ", "\t"} -> AdvanceBy(l, SpanEnd(l.src, l.pos, {" ", "\t"}) - l.pos)
            [] c = "#" -> AdvanceBy(l, LineEnd(l.src, l.pos) - l.pos)
            [] c \in {"f", "F"} /\ quoted -> ReadString(Advance(l), Advance(l), "FSTRING")
            [] c \in {"r", "R", "b", "B"} /\ quoted -> ReadString(Advance(l), Advance(l), "STRING")
            [] c \in Digit -> ReadNumber(l)
            [] c = "\"" -> ReadString(l, l, "STRING")
            [] c = "'" -> ReadQuote(l)
            [] c \in Alpha \cup {"_"} -> ReadIdentifier(l)
            [] c = "\\" /\ ~PeekValid(l) -> Fails(Advance(l), "IndexError")
            [] c = "\\" -> IF PeekChar(l, 1) = "\n" THEN AdvanceBy(l, 2) ELSE Advance(l)
            [] OTHER -> ReadOperator(l)
    BY <1>3, Zenon DEF LexStep
  <2>2. Steps(l, Produce(l, Advance(l), "NEWLINE", "", 0))
    BY <1>3, NewlineSteps
  <2>3. c \in {" ", "\t"} => Steps(l, AdvanceBy(l, SpanEnd(l.src, l.pos, {" ", "\t"}) - l.pos))
    <3>1. {" ", "\t"} \in SUBSET GapChars
      BY Zenon DEF GapChars
    <3> QED
      BY <1>3, <3>1, SpanSteps, Zenon
  <2>4. c = "#" => Steps(l, AdvanceBy(l, LineEnd(l.src, l.pos) - l.pos))
    BY <1>3, CommentSteps, Zenon
  <2>5. c \in {"f", "F"} => Steps(l, ReadString(Advance(l), Advance(l), "FSTRING"))
    BY <1>3, PrefixedSteps, Zenon DEF GapChars
  <2>6. c \in {"r", "R", "b", "B"} => Steps(l, ReadString(Advance(l), Advance(l), "STRING"))
    BY <1>3, PrefixedSteps, Zenon DEF GapChars
  <2>7. c \in Digit => Steps(l, ReadNumber(l))
    BY <1>3, ReadNumberSteps
  <2>8. Steps(l, ReadString(l, l, "STRING"))
    BY PlainStringSteps
  <2>9. c = "'" => Steps(l, ReadQuote(l))
    BY <1>3, ReadQuoteSteps
  <2>10. c \in Alpha \cup {"_"} => Steps(l, ReadIdentifier(l))
    BY <1>3, ReadIdentifierSteps, Zenon DEF Word
  <2>11. c = "\\" => /\ Steps(l, Fails(Advance(l), "IndexError"))
                     /\ Steps(l, IF PeekChar(l, 1) = "\n" THEN AdvanceBy(l, 2) ELSE Advance(l))
    BY <1>3, ContinuationSteps, Zenon
  <2>12. Steps(l, ReadOperator(l))
    BY <1>3, ReadOperatorSteps
  <2> HIDE DEF c, quoted
  <2> QED
    BY <2>1, <2>2, <2>3, <2>4, <2>5, <2>6, <2>7, <2>8, <2>9, <2>10, <2>11, <2>12, ZenonT(60)
<1> QED
  BY <1>2, <1>3
-----------------------------------------------------------------------------
(* The lexer's positions.                                                  *)

\* What every call keeps: the lexer is in its text, and knows where.
Knows(l) ==
    /\ IsLexer(l)
    /\ NewlineQuoted(l.src) \/ (~NoError(l) /\ QuoteBroken(l.src)) \/ Placed(l)

LEMMA StartKnows ==
    ASSUME NEW src \in Texts
    PROVE  Knows(StartLexer(src)) /\ StartLexer(src).src = src /\ StartLexer(src).pos = 1
<1> DEFINE l == StartLexer(src)
<1>1. /\ l.src = src /\ l.pos = 1 /\ l.line = 1 /\ l.col = 1
      /\ l = [src |-> l.src, pos |-> l.pos, line |-> l.line, col |-> l.col,
              toks |-> l.toks, err |-> l.err, done |-> l.done]
  BY Zenon DEF StartLexer
<1> HIDE DEF l
<1>2. Len(src) \in Nat
  BY TextsAssumption
<1>3. IsLexer(l)
  BY <1>1, <1>2 DEF IsLexer
<1>4. {i \in Newlines(src) : i < 1} = {}
  BY DEF Newlines
<1>5. LineAt(src, 1) = 1
  BY <1>4, FS_EmptySet DEF LineAt
<1>6. ColumnAt(src, 1) = 1
  <2>1. LastBefore(src, 1, 0)
    BY <1>4 DEF LastBefore
  <2>2. ColumnAt(src, 1) = 1 - 0
    BY <2>1, ColumnIs
  <2> QED
    BY <2>2
<1>7. Knows(l)
  BY <1>1, <1>3, <1>5, <1>6 DEF Knows, Placed
<1> QED
  BY <1>1, <1>7 DEF l

Knowing == Knows(lex)

\* After every call of tokenize's loop the lexer is at a position of its text,
\* and its line and column are those of it unless a literal holds a newline.
THEOREM LexerKnows == LexSpec => []Knowing
<1>1. LexInit => Knowing
  BY StartKnows DEF LexInit, Knowing
<1>2. Knowing /\ [ReadToken]_lex => Knowing'
  <2> SUFFICES ASSUME Knows(lex), [ReadToken]_lex PROVE Knows(lex')
    BY DEF Knowing
  <2>1. CASE ReadToken
    <3>1. Steps(lex, lex') /\ NoError(lex)
      BY <2>1, LexStepSteps, Zenon DEF ReadToken, Knows, NoError
    <3> QED
      BY <3>1, Zenon DEF Knows, Steps
  <2>2. CASE lex' = lex
    BY <2>2 DEF Knows
  <2> QED
    BY <2>1, <2>2
<1> QED
  BY <1>1, <1>2, PTL DEF LexSpec

\* What the lexer counts as it advances, looks ahead and goes back is the line
\* and the column of the character it is at, in every text.
THEOREM PositionsHold == LexSpec => []PositionsAreTrue
<1>1. Knowing => PositionsAreTrue
  BY Zenon DEF Knowing, Knows, NoError, Placed, PositionsAreTrue
<1> QED
  BY <1>1, LexerKnows, PTL

\* No iteration of tokenize's loop leaves the lexer where it was: it reads on,
\* ends the text or raises an exception.
THEOREM GetsFurtherHolds == LexSpec => [][GetsFurther]_lex
<1>1. Knowing /\ [ReadToken]_lex => [GetsFurther]_lex
  <2> SUFFICES ASSUME Knows(lex), ReadToken PROVE GetsFurther
    BY DEF Knowing
  <2>1. Steps(lex, lex')
    BY LexStepSteps DEF ReadToken, Knows
  <2> QED
    BY <2>1, Zenon DEF Steps, NoError, GetsFurther
<1> QED
  BY <1>1, LexerKnows, PTL DEF LexSpec

-----------------------------------------------------------------------------
(* The order of the tokens.                                                *)

\* A line and a column are of one position only.
LEMMA PositionIsOne ==
    ASSUME NEW src, Len(src) \in Nat, NEW p \in 1 .. Len(src) + 1, NEW q \in 1 .. Len(src) + 1,
           LineAt(src, p) = LineAt(src, q), ColumnAt(src, p) = ColumnAt(src, q), p <= q
    PROVE  p = q
<1> DEFINE P == {i \in Newlines(src) : i < p}
           Q == {i \in Newlines(src) : i < q}
<1>1. IsFiniteSet(Q) /\ IsFiniteSet(P) /\ P \in SUBSET Q
  BY NewlinesFinite DEF Newlines
<1>2. LineAt(src, p) = 1 + Cardinality(P) /\ LineAt(src, q) = 1 + Cardinality(Q)
  BY DEF LineAt
<1>3. Cardinality(P) \in Nat /\ Cardinality(Q) \in Nat
  BY <1>1, FS_CardinalityType
<1>4. Cardinality(P) = Cardinality(Q)
  <2>1. 1 + Cardinality(P) = 1 + Cardinality(Q)
    BY <1>2, Zenon
  <2> QED
    BY <1>3, <2>1
<1> HIDE DEF P, Q
<1>5. P = Q
  BY <1>1, <1>4, FS_Subset
<1>6. PICK m \in 0 .. p - 1 : LastBefore(src, p, m)
  BY LastNewline
<1>7. LastBefore(src, q, m)
  BY <1>5, <1>6, Zenon DEF LastBefore, P, Q
<1>8. ColumnAt(src, p) = p - m /\ ColumnAt(src, q) = q - m
  BY <1>6, <1>7, ColumnIs
<1>9. p - m = q - m
  BY <1>8, Zenon
<1> QED
  BY <1>9

LEMMA OffsetIs ==
    ASSUME NEW src, Len(src) \in Nat, NEW p \in 1 .. Len(src) + 1
    PROVE  OffsetOf(src, LineAt(src, p), ColumnAt(src, p)) = p
<1> DEFINE q == OffsetOf(src, LineAt(src, p), ColumnAt(src, p))
<1>1. q \in 1 .. Len(src) + 1 /\ LineAt(src, q) = LineAt(src, p) /\ ColumnAt(src, q) = ColumnAt(src, p)
  BY DEF OffsetOf
<1> HIDE DEF q
<1>2. p <= q \/ q <= p
  BY <1>1
<1>3. q = p
  BY <1>1, <1>2, PositionIsOne
<1> QED
  BY <1>3 DEF q

\* Blanks after blanks.
LEMMA GapsJoin ==
    ASSUME NEW src, NEW a \in Int, NEW b \in Int, NEW c \in Int, a <= b, b <= c,
           GapIsBlank(src, a, b), GapIsBlank(src, b, c)
    PROVE  GapIsBlank(src, a, c)
<1>1. a .. c - 1 = (a .. b - 1) \cup (b .. c - 1)
  OBVIOUS
<1> QED
  BY <1>1, Zenon DEF GapIsBlank

StartOf(src, t) == OffsetOf(src, t.line, t.col)
EndOf(src, t) == OffsetOf(src, t.eline, t.ecol)
\* Where the text after the first i tokens starts.
After(src, toks, i) == IF i = 0 THEN 1 ELSE EndOf(src, toks[i])
\* The i-th token comes after the one before it, and blanks between them.
InOrder(src, toks, i) ==
    /\ After(src, toks, i - 1) <= StartOf(src, toks[i])
    /\ StartOf(src, toks[i]) <= EndOf(src, toks[i])
    /\ GapIsBlank(src, After(src, toks, i - 1), StartOf(src, toks[i]))
\* The tokens are in order, and from the last one to the lexer it is blank.
Ordered(l) ==
    /\ \A i \in 1 .. Len(l.toks) : InOrder(l.src, l.toks, i)
    /\ After(l.src, l.toks, Len(l.toks)) \in 1 .. l.pos
    /\ NoError(l) => GapIsBlank(l.src, After(l.src, l.toks, Len(l.toks)), l.pos)
Lexed(l) == (\E S : l.toks \in Seq(S)) /\ (NewlineQuoted(l.src) \/ Ordered(l))

LEMMA StartLexed ==
    ASSUME NEW src \in Texts
    PROVE  Lexed(StartLexer(src))
<1> DEFINE l == StartLexer(src)
<1>1. l.toks = <<>> /\ l.pos = 1
  BY Zenon DEF StartLexer
<1> HIDE DEF l
<1>2. l.toks \in Seq({}) /\ Len(l.toks) = 0
  BY <1>1
<1>3. After(l.src, l.toks, Len(l.toks)) = 1
  BY <1>2 DEF After
<1>4. Ordered(l)
  BY <1>1, <1>2, <1>3, NoGap DEF Ordered
<1>5. Lexed(l)
  BY <1>2, <1>4, Zenon DEF Lexed
<1> QED
  BY <1>5 DEF l

\* What is skipped leaves the tokens as they are.
LEMMA SkippedLexed ==
    ASSUME NEW l, NEW r, Knows(l), NoError(l), Lexed(l), Steps(l, r), Skipped(l, r)
    PROVE  Lexed(r)
<1>0. r.toks = l.toks /\ r.src = l.src /\ r.pos >= l.pos /\ IsLexer(r) /\ IsLexer(l)
  BY Zenon DEF Skipped, Steps, Knows
<1>1. r.toks = l.toks /\ r.src = l.src /\ r.pos >= l.pos /\ r.pos \in Int /\ l.pos \in Int
  BY <1>0 DEF IsLexer
<1>2. NoError(r) => GapIsBlank(l.src, l.pos, r.pos)
  BY Zenon DEF Skipped, NoError
<1>3. CASE Ordered(l)
  <2> DEFINE from == After(l.src, l.toks, Len(l.toks))
  <2>1. from \in 1 .. l.pos /\ GapIsBlank(l.src, from, l.pos)
    BY <1>3 DEF Ordered
  <2>2. from \in 1 .. r.pos /\ from \in Int /\ from <= l.pos
    BY <1>1, <2>1
  <2>3. NoError(r) => GapIsBlank(l.src, from, r.pos)
    BY <1>1, <1>2, <2>1, <2>2, GapsJoin
  <2>4. Ordered(r)
    BY <1>1, <1>3, <2>2, <2>3 DEF Ordered
  <2> QED
    BY <1>1, <2>4, Zenon DEF Lexed
<1> QED
  BY <1>1, <1>3, Zenon DEF Lexed

LEMMA AppendIs ==
    ASSUME NEW S, NEW q \in Seq(S), NEW t
    PROVE  /\ Append(q, t) \in Seq(S \cup {t})
           /\ Len(q) \in Nat /\ Len(Append(q, t)) = Len(q) + 1
           /\ \A i \in 1 .. Len(q) : Append(q, t)[i] = q[i]
           /\ Append(q, t)[Len(q) + 1] = t
  OBVIOUS

\* A token is put after the ones that are there.
LEMMA TokenLexed ==
    ASSUME NEW l, NEW r, NEW s, NEW t, Knows(l), NoError(l), Lexed(l), Steps(l, r), TokenFrom(l, r, s, t)
    PROVE  Lexed(r)
<1>1. r.toks = Append(l.toks, t) /\ r.src = l.src
  BY DEF TokenFrom, Steps
<1>2. PICK S : l.toks \in Seq(S)
  BY DEF Lexed
<1> DEFINE n == Len(l.toks)
<1>3. /\ r.toks \in Seq(S \cup {t}) /\ n \in Nat /\ Len(r.toks) = n + 1
      /\ \A i \in 1 .. n : r.toks[i] = l.toks[i]
      /\ r.toks[n + 1] = t
  BY <1>1, <1>2, AppendIs
<1> HIDE DEF n
<1>4. ASSUME ~NewlineQuoted(l.src), Ordered(l) PROVE Ordered(r)
  <2> DEFINE src == l.src
             from == After(src, l.toks, n)
  <2>1. Placed(l) /\ Placed(s) /\ Placed(r)
    BY <1>4 DEF Knows, TokenFrom, Steps
  <2>2. /\ s.pos \in 1 .. Len(src) + 1 /\ r.pos \in 1 .. Len(src) + 1 /\ l.pos \in 1 .. Len(src) + 1
        /\ Len(src) \in Nat /\ s.src = src /\ l.pos <= s.pos /\ s.pos <= r.pos
    BY <1>1 DEF TokenFrom, Steps, Knows, IsLexer
  <2>3. /\ t.line = LineAt(src, s.pos) /\ t.col = ColumnAt(src, s.pos)
        /\ t.eline = LineAt(src, r.pos) /\ t.ecol = ColumnAt(src, r.pos)
    BY <1>1, <2>1, <2>2 DEF TokenFrom, Placed
  <2>4. StartOf(src, t) = s.pos /\ EndOf(src, t) = r.pos
    BY <2>2, <2>3, OffsetIs DEF StartOf, EndOf
  <2>5. from \in 1 .. l.pos /\ GapIsBlank(src, from, l.pos) /\ GapIsBlank(src, l.pos, s.pos)
    BY <1>4 DEF Ordered, TokenFrom, n
  <2>6. from <= s.pos /\ GapIsBlank(src, from, s.pos)
    <3>1. from \in Int /\ l.pos \in Int /\ s.pos \in Int /\ from <= l.pos
      BY <2>2, <2>5
    <3> QED
      BY <2>2, <2>5, <3>1, GapsJoin
  <2>7. \A i \in 0 .. n : After(src, r.toks, i) = After(src, l.toks, i)
    BY <1>3 DEF After
  <2>8. After(src, r.toks, n + 1) = r.pos
    BY <1>3, <2>4 DEF After
  <2>9. ASSUME NEW i \in 1 .. n + 1 PROVE InOrder(src, r.toks, i)
    <3>1. CASE i = n + 1
      <4>1. After(src, r.toks, i - 1) = from /\ r.toks[i] = t
        BY <1>3, <2>7, <3>1
      <4> QED
        BY <2>2, <2>4, <2>6, <4>1 DEF InOrder
    <3>2. CASE i # n + 1
      <4>1. i \in 1 .. n /\ i - 1 \in 0 .. n
        BY <1>3, <3>2
      <4>2. InOrder(src, l.toks, i)
        BY <1>4, <4>1 DEF Ordered, n
      <4>3. r.toks[i] = l.toks[i] /\ After(src, r.toks, i - 1) = After(src, l.toks, i - 1)
        BY <1>3, <2>7, <4>1
      <4> QED
        BY <4>2, <4>3 DEF InOrder
    <3> QED
      BY <3>1, <3>2
  <2>10. r.pos \in 1 .. r.pos /\ GapIsBlank(src, r.pos, r.pos)
    BY <2>2, NoGap
  <2> HIDE DEF from
  <2> QED
    BY <1>1, <1>3, <2>8, <2>9, <2>10 DEF Ordered
<1> QED
  BY <1>1, <1>3, <1>4, Zenon DEF Lexed

Ordering == Lexed(lex)

\* The tokens of every text are in the order of the text, none overlaps
\* another, and what lies between them means nothing.
THEOREM TokensInOrderHold == LexSpec => []TokensInOrder
<1>1. LexInit => Ordering
  BY StartLexed, Zenon DEF LexInit, Ordering
<1>2. Knowing /\ Ordering /\ [ReadToken]_lex => Ordering'
  <2> SUFFICES ASSUME Knows(lex), Lexed(lex), [ReadToken]_lex PROVE Lexed(lex')
    BY DEF Knowing, Ordering
  <2>1. CASE ReadToken
    <3>1. Steps(lex, lex') /\ NoError(lex)
      BY <2>1, LexStepSteps, Zenon DEF ReadToken, Knows, NoError
    <3>2. Skipped(lex, lex') \/ \E s, t : TokenFrom(lex, lex', s, t)
      BY <3>1 DEF Steps
    <3> QED
      BY <3>1, <3>2, SkippedLexed, TokenLexed, Zenon
  <2>2. CASE lex' = lex
    BY <2>2, Zenon
  <2> QED
    BY <2>1, <2>2
<1>3. Ordering => TokensInOrder
  <2> SUFFICES ASSUME Ordered(lex), \E S : lex.toks \in Seq(S), NEW i \in 1 .. Len(lex.toks)
               PROVE  LET from == IF i = 1 THEN 1 ELSE End(lex.toks[i - 1])
                      IN  /\ from <= Start(lex.toks[i]) /\ Start(lex.toks[i]) <= End(lex.toks[i])
                          /\ GapIsBlank(lex.src, from, Start(lex.toks[i]))
    BY Zenon DEF TokensInOrder, Lexed, Ordering
  <2>1. InOrder(lex.src, lex.toks, i)
    BY DEF Ordered
  <2>2. i - 1 = 0 <=> i = 1
    OBVIOUS
  <2> QED
    BY <2>1, <2>2, Zenon DEF InOrder, After, StartOf, EndOf, Start, End
<1> QED
  BY <1>1, <1>2, <1>3, LexerKnows, PTL DEF LexSpec
=============================================================================
