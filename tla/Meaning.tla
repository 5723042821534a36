------------------------------ MODULE Meaning ------------------------------
(***************************************************************************)
(* What a Brainhair program means (docs/LANGUAGE.md): the text it prints    *)
(* and the number main returns, read off its tree with no machine and no   *)
(* memory layout.  The compiled code is compared with it.                  *)
(*                                                                         *)
(* A value is an integer (characters and truth values are integers), a     *)
(* text, a reference to a list or an object, or a variant of an enum.  m is *)
(* the state of the evaluation: val is the value of the last expression    *)
(* and how says whether control goes on or leaves a loop or a procedure.   *)
(***************************************************************************)
EXTENDS X86Layout

IntVal(n) == <<"int", n>>
TextVal(s) == <<"text", s>>
Ref(k) == <<"ref", k>>
Variant(name, payload) == <<"variant", name, payload>>
Truth(b) == IntVal(IF b THEN 1 ELSE 0)
Num(v) == v[2]
True(v) == v # IntVal(0)

\* The reference evaluator: a part of the tree, and the state before it.
RECURSIVE Mean(_, _)
Ev(e, m) == Mean(<<"expr", e>>, m)
Do(block, m) == Mean(<<"block", block>>, m)

Yield(m, v) == [m EXCEPT !.val = v]
\* The values of several expressions, from left to right, in vals.
EvAll(es, m) ==
    FoldLeft(LAMBDA a, e : LET b == Ev(e, a) IN [b EXCEPT !.vals = Append(a.vals, b.val)],
             [m EXCEPT !.vals = <<>>], es)

Bytes(s) == [i \in 1..Len(s) |-> Ord(SubSeq(s, i, i))]
Say(m, bytes) == [m EXCEPT !.out = @ \o bytes]

RECURSIVE Decimal(_)
Decimal(n) == IF n < 0 THEN <<45>> \o Decimal(-n)
              ELSE IF n < 10 THEN <<48 + n>> ELSE Decimal(n \div 10) \o <<48 + (n % 10)>>
AsBytes(v) == IF v[1] = "text" THEN v[2] ELSE Decimal(v[2])

-----------------------------------------------------------------------------
(* Operators *)

\* A text of one character equals that character.
Plain(v) == IF v[1] = "text" /\ Len(v[2]) = 1 THEN IntVal(v[2][1]) ELSE v
Join(v, w) == TextVal((IF v[1] = "text" THEN v[2] ELSE <<v[2]>>) \o (IF w[1] = "text" THEN w[2] ELSE <<w[2]>>))

RECURSIVE BitsAre(_, _, _)
\* The number whose bits are those f holds of.
BitsAre(a, b, op) ==
    LET bit == CASE op = "&" -> (a % 2) * (b % 2)
                 [] op = "|" -> Max({a % 2, b % 2})
                 [] op = "^" -> (a + b) % 2
    IN  IF a = 0 /\ b = 0 THEN 0 ELSE bit + 2 * BitsAre(a \div 2, b \div 2, op)

Apply(op, v, w) ==
    LET a == Num(v)
        b == Num(w)
    IN  CASE op = "==" -> Truth(Plain(v) = Plain(w))
          [] op = "!=" -> Truth(Plain(v) # Plain(w))
          [] op = "+" /\ (v[1] = "text" \/ w[1] = "text") -> Join(v, w)
          [] op = "+" -> IntVal(a + b)
          [] op = "-" -> IntVal(a - b)
          [] op = "*" -> IntVal(a * b)
          [] op = "/" -> IntVal(a \div b)
          [] op = "%" -> IntVal(a % b)
          [] op = "<" -> Truth(a < b)
          [] op = "<=" -> Truth(a <= b)
          [] op = ">" -> Truth(a > b)
          [] op = ">=" -> Truth(a >= b)
          [] op = "<<" -> IntVal(a * 2^b)
          [] op = ">>" -> IntVal(a \div 2^b)
          [] OTHER -> IntVal(BitsAre(a, b, op))

Character(method, c) ==
    CASE method = "isdigit" -> c \in 48..57
      [] method = "isalpha" -> c \in 65..90 \cup 97..122
      [] method = "isalnum" -> c \in 48..57 \cup 65..90 \cup 97..122

-----------------------------------------------------------------------------
(* Variables, lists and objects *)

Look(m, name) ==
    CASE name \in DOMAIN m.env -> m.env[name]
      [] name \in DOMAIN m.globals -> m.globals[name]
      [] OTHER -> Variant(name, IntVal(0))
Bind(m, name, v) ==
    IF name \notin DOMAIN m.env /\ name \in DOMAIN m.globals
    THEN [m EXCEPT !.globals[name] = v]
    ELSE [m EXCEPT !.env = (name :> v) @@ @]

New(m, thing) == [m EXCEPT !.heap = Append(@, thing), !.val = Ref(Len(m.heap) + 1)]
Items(m, v) == IF v[1] = "text" THEN [i \in DOMAIN v[2] |-> IntVal(v[2][i])] ELSE m.heap[v[2]]

-----------------------------------------------------------------------------
(* Calls *)

\* A procedure with its own variables; deferred statements run last to first.
Enter_(m, f, args) ==
    LET params == m.procs[f].params
        Given(i) == IF i <= Len(args) THEN args[i] ELSE Ev(params[i].default, m).val
        body == Do(m.procs[f].body,
                   [m EXCEPT !.env = [x \in {params[i].name : i \in DOMAIN params} |->
                                        Given(CHOOSE i \in DOMAIN params : params[i].name = x)],
                             !.defers = <<>>, !.how = "next", !.val = IntVal(0)])
        done == Do(Reverse(body.defers), [body EXCEPT !.how = "next"])
    IN  [done EXCEPT !.env = m.env, !.defers = m.defers, !.how = "next",
                     !.val = IF body.how = "return" THEN body.val ELSE IntVal(0)]

Construct(m, class, args) ==
    LET fields == m.structs[class]
        bare   == New(m, [x \in {f.name : f \in ToSet(fields)} |-> IntVal(0)] @@ ("class" :> class))
        k      == Len(bare.heap)
        full   == [bare EXCEPT !.heap[k] =
                    [x \in DOMAIN @ |-> IF \E i \in DOMAIN args : fields[i].name = x
                                        THEN args[CHOOSE i \in DOMAIN args : fields[i].name = x] ELSE @[x]]]
    IN  IF class \o "___init__" \in DOMAIN m.procs
        THEN Yield(Enter_(bare, class \o "___init__", <<Ref(k)>> \o args), Ref(k))
        ELSE full

RECURSIVE Format(_, _)
Format(m, s) ==
    LET Places(c) == {i \in 1..Len(s) : SubSeq(s, i, i) = c}
        open  == Min(Places("{"))
        close == Min(Places("}"))
    IN  IF Places("{") = {} THEN Bytes(s)
        ELSE Bytes(SubSeq(s, 1, open - 1)) \o AsBytes(Look(m, SubSeq(s, open + 1, close - 1)))
             \o Format(m, SubSeq(s, close + 1, Len(s)))

PrintMeaning(m, e) ==
    IF IsA(e, {"FStringLiteral"}) THEN Say(m, Format(m, e.s) \o <<10>>)
    ELSE LET h == Ev(e, m)
         IN  Say(h, (IF h.val[1] = "text" THEN h.val[2] ELSE <<h.val[2]>>) \o <<10>>)

CallMeaning(m, e) ==
    IF e.func = "print" THEN Yield(PrintMeaning(m, e.args[1]), IntVal(0))
    ELSE LET h == EvAll(e.args, m) IN
         CASE e.func = "len" -> Yield(h, IntVal(Len(Items(h, h.vals[1]))))
           [] e.func \in DOMAIN h.structs -> Construct(h, e.func, h.vals)
           [] e.func \in DOMAIN h.procs   -> Enter_(h, e.func, h.vals)
           [] OTHER -> Yield(h, Variant(e.func, h.vals[1]))

MethodMeaning(m, e) ==
    LET o == Ev(e.object, m)
        h == EvAll(e.args, o)
        k == o.val[2]
    IN  CASE o.val[1] # "ref" -> Yield(h, Truth(Character(e.method, k)))
          [] e.method = "append" -> [h EXCEPT !.heap[k] = Append(@, h.vals[1])]
          [] e.method = "pop" -> [h EXCEPT !.heap[k] = SubSeq(@, 1, Len(@) - 1),
                                           !.val = h.heap[k][Len(h.heap[k])]]
          [] OTHER -> Enter_(h, h.heap[k]["class"] \o "_" \o e.method, <<o.val>> \o h.vals)

-----------------------------------------------------------------------------
ExprMeaning(m, e) ==
    CASE IsA(e, {"IntLiteral"})  -> Yield(m, IntVal(e.n))
      [] IsA(e, {"CharLiteral"}) -> Yield(m, IntVal(Ord(e.s)))
      [] IsA(e, {"BoolLiteral"}) -> Yield(m, Truth(e.b))
      [] IsA(e, {"NoneLiteral"}) -> Yield(m, IntVal(0))
      [] IsA(e, {"StringLiteral"}) -> Yield(m, TextVal(Bytes(e.s)))
      [] IsA(e, {"Identifier"})  -> Yield(m, Look(m, e.name))
      [] IsA(e, {"UnaryExpr"})   ->
            LET h == Ev(e.e, m) IN Yield(h, IF e.op = "-" THEN IntVal(-Num(h.val)) ELSE Truth(~True(h.val)))
      [] IsA(e, {"BinaryExpr"})  ->
            LET l == Ev(e.left, m)
                r == Ev(e.right, l)
            IN  IF e.op \in {"and", "or"} THEN (IF True(l.val) = (e.op = "or") THEN l ELSE r)
                ELSE Yield(r, Apply(e.op, l.val, r.val))
      [] IsA(e, {"ConditionalExpr"}) ->
            LET c == Ev(e.cond, m) IN Ev(IF True(c.val) THEN e.then ELSE e.else, c)
      [] IsA(e, {"CallExpr"})       -> CallMeaning(m, e)
      [] IsA(e, {"MethodCallExpr"}) -> MethodMeaning(m, e)
      [] IsA(e, {"CastExpr"})       -> Ev(e.e, m)
      [] IsA(e, {"ArrayLiteral"})   -> LET h == EvAll(e.elems, m) IN New(h, h.vals)
      [] IsA(e, {"TupleLiteral"})   -> LET h == EvAll(e.elems, m) IN New(h, h.vals)
      [] IsA(e, {"IndexExpr"}) ->
            LET h == EvAll(<<e.base, e.index>>, m)
            IN  Yield(h, Items(h, h.vals[1])[Num(h.vals[2]) + 1])
      [] IsA(e, {"SliceExpr"}) ->
            LET h == EvAll(<<e.target, e.start, e.end>>, m)
                part == SubSeq(Items(h, h.vals[1]), Num(h.vals[2]) + 1, Num(h.vals[3]))
            IN  IF h.vals[1][1] = "text" THEN Yield(h, TextVal([i \in DOMAIN part |-> Num(part[i])]))
                ELSE New(h, part)
      [] IsA(e, {"FieldAccessExpr"}) ->
            IF IsA(e.object, {"Identifier"}) /\ e.object.name \in DOMAIN m.enums
            THEN Yield(m, IntVal(m.enums[e.object.name][e.field]))
            ELSE LET h == Ev(e.object, m) IN Yield(h, h.heap[h.val[2]][e.field])
      [] IsA(e, {"MatchExpr"}) ->
            LET h == Ev(e.e, m)
                hits == {i \in DOMAIN e.arms : e.arms[i].pattern.variant = h.val[2]}
                arm  == e.arms[CHOOSE i \in hits : TRUE]
            IN  IF hits = {} THEN h
                ELSE Do(arm.body, FoldLeft(LAMBDA a, x : Bind(a, x, h.val[3]), h, arm.pattern.bindings))

AssignMeaning(m, t) ==
    CASE IsA(t, {"Identifier"}) -> Bind(m, t.name, m.val)
      [] IsA(t, {"IndexExpr"}) ->
            LET h == EvAll(<<t.base, t.index>>, m)
            IN  [h EXCEPT !.heap[h.vals[1][2]][Num(h.vals[2]) + 1] = m.val]
      [] IsA(t, {"FieldAccessExpr"}) ->
            LET h == Ev(t.object, m) IN [h EXCEPT !.heap[h.val[2]] = (t.field :> m.val) @@ @]
      [] IsA(t, {"TupleLiteral"}) ->
            FoldLeft(LAMBDA a, i : Bind(a, t.elems[i].name, m.heap[m.val[2]][i]), m,
                     [i \in DOMAIN t.elems |-> i])

\* The first arm whose condition holds.
IfMeaning(m, arms, else) ==
    IF arms = <<>> THEN Do(else, m)
    ELSE LET c == Ev(arms[1][1], m)
         IN  IF True(c.val) THEN Do(arms[1][2], c) ELSE Mean(<<"if", Tail(arms), else>>, c)

\* One more round of a loop, unless the body left it.
Again(h, loop) == CASE h.how = "return" -> h
                    [] h.how = "break" -> [h EXCEPT !.how = "next"]
                    [] OTHER -> Mean(loop, [h EXCEPT !.how = "next"])
Rounds(m, var, items, body) ==
    IF items = <<>> THEN m
    ELSE Again(Do(body, Bind(m, var, items[1])), <<"each", var, Tail(items), body>>)

StmtMeaning(m, s) ==
    CASE IsA(s, {"VarDecl"})    -> IF IsNone(s.value) THEN Bind(m, s.name, IntVal(0))
                                  ELSE LET h == Ev(s.value, m) IN Bind(h, s.name, h.val)
      [] IsA(s, {"Assignment"}) -> AssignMeaning(Ev(s.value, m), s.target)
      [] IsA(s, {"ReturnStmt"}) ->
            [(IF IsNone(s.value) THEN Yield(m, IntVal(0)) ELSE Ev(s.value, m)) EXCEPT !.how = "return"]
      [] IsA(s, {"IfStmt"})     -> IfMeaning(m, <<<<s.cond, s.then>>>> \o s.elifs, s.else)
      [] IsA(s, {"BreakStmt"})  -> [m EXCEPT !.how = "break"]
      [] IsA(s, {"ContinueStmt"}) -> [m EXCEPT !.how = "continue"]
      [] IsA(s, {"WhileStmt"})  ->
            LET c == Ev(s.cond, m) IN IF True(c.val) THEN Again(Do(s.body, c), <<"stmt", s>>) ELSE c
      [] IsA(s, {"ForStmt"})    ->
            LET h == EvAll(<<s.start, s.end>>, m)
                first == Num(h.vals[1])
            IN  Rounds(h, s.var, [i \in 1..(Num(h.vals[2]) - first) |-> IntVal(first + i - 1)], s.body)
      [] IsA(s, {"ForEachStmt"}) ->
            LET h == Ev(s.iter, m) IN Rounds(h, s.vars[1], Items(h, h.val), s.body)
      [] IsA(s, {"ExprStmt"})   -> Ev(s.e, m)
      [] IsA(s, {"DeferStmt"})  -> [m EXCEPT !.defers = Append(@, s.stmt)]
      [] IsA(s, {"TryExceptStmt"}) -> Do(s.try \o s.finally, m)
      [] IsA(s, {"WithStmt"})   -> LET h == Ev(s.context, m) IN Do(s.body, Bind(h, s.var, h.val))
      [] OTHER -> m

Mean(x, m) ==
    CASE x[1] = "expr"  -> ExprMeaning(m, x[2])
      [] x[1] = "stmt"  -> StmtMeaning(m, x[2])
      [] x[1] = "if"    -> IfMeaning(m, x[2], x[3])
      [] x[1] = "each"  -> Rounds(m, x[2], x[3], x[4])
      [] x[1] = "block" -> IF x[2] = <<>> \/ m.how # "next" THEN m
                           ELSE Do(Tail(x[2]), Mean(<<"stmt", Head(x[2])>>, m))

-----------------------------------------------------------------------------
Named(decls, kinds) == SelectSeq(decls, LAMBDA d : IsA(d, kinds))
ProcName(d) == IF IsA(d, {"MethodDecl"}) THEN ClassName(d.rtype) \o "_" \o d.name ELSE d.name
ProcParams(d) == (IF IsA(d, {"MethodDecl"}) THEN <<Parameter(d.rname, d.rtype, None)>> ELSE <<>>) \o d.params

\* The exit code and the output of a program.
MeaningOf(program) ==
    LET decls  == program.declarations
        procs  == ToSet(Named(decls, {"ProcDecl", "MethodDecl"}))
        vars   == Named(decls, {"VarDecl"})
        m      == [env |-> [x \in {} |-> 0], globals |-> [x \in {} |-> 0], heap |-> <<>>, out |-> <<>>,
                   defers |-> <<>>, how |-> "next", val |-> IntVal(0), vals |-> <<>>,
                   procs |-> [f \in {ProcName(d) : d \in procs} |->
                                LET d == CHOOSE d \in procs : ProcName(d) = f
                                IN  [params |-> ProcParams(d), body |-> d.body]],
                   structs |-> [c \in {d.name : d \in ToSet(Named(decls, {"StructDecl"}))} |->
                                (CHOOSE d \in ToSet(Named(decls, {"StructDecl"})) : d.name = c).fields],
                   enums |-> [c \in {d.name : d \in ToSet(Named(decls, {"EnumDecl"}))} |->
                                LET d == CHOOSE d \in ToSet(Named(decls, {"EnumDecl"})) : d.name = c
                                IN  [v \in {w.name : w \in ToSet(d.variants)} |->
                                        SelectInSeq(d.variants, LAMBDA w : w.name = v) - 1]]]
        set    == FoldLeft(LAMBDA a, d : IF IsNone(d.value) THEN [a EXCEPT !.globals = (d.name :> IntVal(0)) @@ @]
                                         ELSE LET h == Ev(d.value, a)
                                              IN  [h EXCEPT !.globals = (d.name :> h.val) @@ @], m, vars)
        end    == Enter_(set, "main", <<>>)
    IN  [exit |-> Num(end.val), out |-> end.out]
=============================================================================
