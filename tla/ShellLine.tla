------------------------------ MODULE ShellLine ------------------------------
(***************************************************************************)
(* What the shell's parser makes of a command line                         *)
(* (src/game/core/shell.py).  A token is a word, which carries the path it *)
(* spells, or one of the operators of the code; expanding variables and    *)
(* quoting, which make the tokens, are left to the line.                   *)
(***************************************************************************)
EXTENDS Naturals, Sequences

Word(path) == [kind |-> "word", path |-> <<path>>]
Sign(kind) == [kind |-> kind, path |-> <<>>]
RedirectSigns == {"<", ">", ">>", "2>", "&>"}

\* The parts between the pipes; an empty one is dropped.
Parts(line) ==
    LET bars == {i \in 1..Len(line) : line[i].kind = "|"} \cup {0}
        Upto(i) == CHOOSE j \in (i + 1)..(Len(line) + 1) :
                      /\ j = Len(line) + 1 \/ line[j].kind = "|"
                      /\ \A k \in (i + 1)..(j - 1) : line[k].kind # "|"
        part[i \in 0..Len(line)] ==
            IF i \notin bars THEN <<>>
            ELSE LET end == Upto(i)
                     here == SubSeq(line, i + 1, end - 1)
                     rest == IF end > Len(line) THEN <<>> ELSE part[end]
                 IN IF here = <<>> THEN rest ELSE <<here>> \o rest
    IN part[0]

\* A redirection takes the token after it, whatever that is.
Operands(tokens) ==
    LET operand[i \in 1..Len(tokens)] ==
            i > 2 /\ tokens[i - 1].kind \in RedirectSigns /\ ~operand[i - 1]
    IN {i \in 1..Len(tokens) : operand[i]}

Redirections(tokens) ==
    {i \in 2..Len(tokens) \ Operands(tokens) : tokens[i].kind \in RedirectSigns}

\* The last of the signs, if there is one, and the path after it.
LatestSign(tokens, signs) ==
    LET at == {i \in Redirections(tokens) : tokens[i].kind \in signs}
    IN IF at = {} THEN 0 ELSE CHOOSE i \in at : \A j \in at : j <= i

Target(tokens, signs) ==
    LET i == LatestSign(tokens, signs) IN IF i = 0 THEN <<>> ELSE tokens[i + 1].path

Arguments(tokens) ==
    LET IsArgument(i) == i \notin Operands(tokens) /\ tokens[i].kind = "word"
        at == SelectSeq([k \in 1..(Len(tokens) - 1) |-> k + 1], IsArgument)
    IN [k \in 1..Len(at) |-> tokens[at[k]].path[1]]

\* `&>' leaves `append' as the last `>' or `>>' has set it.
ParseCommand(tokens) ==
    LET output == LatestSign(tokens, {">", ">>"})
    IN [exe |-> tokens[1].path[1],
        args |-> Arguments(tokens),
        stdin |-> Target(tokens, {"<"}),
        stdout |-> Target(tokens, {">", ">>", "&>"}),
        stderr |-> Target(tokens, {"2>", "&>"}),
        append |-> output # 0 /\ tokens[output].kind = ">>"]

\* A redirection without a file is an error, and the line does nothing.
Readable(line) ==
    \A k \in 1..Len(Parts(line)) :
       LET part == Parts(line)[k]
       IN /\ part[1].kind = "word"
          /\ \A i \in Redirections(part) : i < Len(part) /\ part[i + 1].kind = "word"

ParsePipeline(line) == [k \in 1..Len(Parts(line)) |-> ParseCommand(Parts(line)[k])]
=============================================================================
