----------------------------- MODULE X86Machine -----------------------------
(***************************************************************************)
(* The compiler's programs run: texts go through the lexer, the parser and *)
(* the 32-bit code generator, and the instructions are executed one by one *)
(* on a processor with a byte-addressed memory.  The processor and the     *)
(* kernel's two system calls are external; the allocator and the list      *)
(* routines the code calls are those of lib/memory.bh and lib/list.bh, each *)
(* one step.                                                               *)
(*                                                                         *)
(* Registers hold signed integers; a result beyond 32 bits is an error of  *)
(* the run.  The flags are the two numbers last compared.                  *)
(***************************************************************************)
EXTENDS Parser, X86Program, Meaning

CONSTANTS HeapSize, StackSize,  \* bytes
          MaxSteps,             \* no program takes more instructions
          Cases                 \* CaseOf(t) for the texts t that are run

VARIABLES prog,    \* the program that runs
          image,   \* its linked code, and where its labels are
          wanted,  \* what it means
          pc, reg, flags, mem,
          out,     \* the bytes written
          status,  \* "idle", "runs" or "exited"
          heap,    \* heap_base + heap_used
          calls,   \* ghost: for every active procedure the frame it was called in
          depths,  \* ghost: the depth of the frame at the labels it has passed
          steps

vars == <<prog, image, wanted, pc, reg, flags, mem, out, status, heap, calls, depths, steps>>

-----------------------------------------------------------------------------
(* Linking: addresses for the texts, the variables, the heap and the stack. *)

DataStart == 64
ByteOf(n, k) == IF k = 0 THEN n % 256 ELSE (n \div (256^k)) % 256
WordBytes(n) == [k \in 1..4 |-> ByteOf(n, k - 1)]

\* A backslash is written twice, and the quotes of the assembler keep both.
Stored(text) ==
    FlattenSeq([i \in DOMAIN text |-> IF text[i] = Ord("\\") THEN <<text[i], text[i]>> ELSE <<text[i]>>])

\* Labels and bytes of the data section, the texts first.
Sections(p) ==
    [i \in DOMAIN p.strings |->
            [label |-> "str_" \o ToString(i - 1), bytes |-> Append(Stored(Bytes(p.strings[i])), 0)]]
    \o [i \in DOMAIN p.globals |->
            [label |-> p.globals[i].label, bytes |-> [k \in 1..p.globals[i].size |-> 0]]]
AddressIn(sections, i) == DataStart + FoldLeft(LAMBDA n, s : n + Len(s.bytes), 0, SubSeq(sections, 1, i - 1))

Link(p) ==
    LET data    == Sections(p)
        address == [l \in {data[i].label : i \in DOMAIN data} |->
                        AddressIn(data, SelectInSeq(data, LAMBDA s : s.label = l))]
        start   == AddressIn(data, Len(data) + 1)
        Initial(v) == IF v[1] = "sym" THEN address[v[2]] ELSE v[2]
        values  == FlattenSeq([i \in DOMAIN p.strings |-> data[i].bytes])
                   \o FlattenSeq([i \in DOMAIN p.globals |->
                        SubSeq(WordBytes(Initial(p.globals[i].value)), 1, Min({4, p.globals[i].size}))
                        \o [k \in 1..(p.globals[i].size - 4) |-> 0]])
        places  == {i \in DOMAIN p.code : p.code[i][1] = "label"}
    IN  [code    |-> p.code,
         target  |-> [l \in {p.code[i][2] : i \in places} |->
                        CHOOSE i \in places : p.code[i][2] = l],
         address |-> address,
         heap    |-> start,
         top     |-> start + HeapSize + StackSize,
         mem     |-> [a \in DataStart..(start + HeapSize + StackSize) |->
                        IF a < start THEN values[a - DataStart + 1] ELSE 0]]

\* A program from its text: what runs, and what should come of it.
CaseOf(text) ==
    LET Compiled(tree) == [prog |-> text, image |-> Link(Generate(tree)), wanted |-> MeaningOf(tree)]
    IN  CHOOSE c \in {Compiled(tree) : tree \in {ParseText(text).val}} : TRUE

-----------------------------------------------------------------------------
(* Operands *)

instr == image.code[pc]

Address_(o) == CASE o[1] = "var" -> image.address[o[2]]
                 [] o[1] = "mem" -> reg[o[2]] + o[3]
                 [] o[1] = "idx" -> reg[o[2]] + reg[o[3]]
InMemory(o) == o[1] \in {"var", "mem", "idx"}
Jumps == {"jmp", "je", "jz", "jne", "jnz", "jl", "jle", "jg", "jge", "jns"}
\* The operands of an instruction; those of a jump, a call and a label are labels.
OperandsOf == IF instr[1] \in Jumps \cup {"call", "label", "asm"} THEN {} ELSE ToSet(Tail(instr))

WordAt(m, a) == m[a] + 256 * m[a + 1] + 65536 * m[a + 2]
              + 16777216 * (IF m[a + 3] > 127 THEN m[a + 3] - 256 ELSE m[a + 3])
PutBytes(m, a, n, size) ==
    [x \in DOMAIN m |-> IF x \in a..(a + size - 1) THEN ByteOf(n, x - a) ELSE m[x]]
PutWord(m, a, n) ==
    [m EXCEPT ![a] = ByteOf(n, 0), ![a + 1] = ByteOf(n, 1), ![a + 2] = ByteOf(n, 2), ![a + 3] = ByteOf(n, 3)]

Value(o) == CASE o[1] = "reg" -> reg[o[2]]
              [] o[1] = "imm" -> o[2]
              [] o[1] = "sym" -> image.address[o[2]]
              [] OTHER -> WordAt(mem, Address_(o))
LowByte(o) == IF InMemory(o) THEN mem[Address_(o)] ELSE Value(o) % 256

ByteInstructions == {"movb", "movzxb", "cmpb", "testb", "andb"}
Width == CASE instr[1] \in ByteInstructions -> 1
           [] instr[1] \in {"movw", "movzxw"} -> 2
           [] OTHER -> 4

\* Memory the instruction reads or writes lies in the data, heap and stack.
Inside(a, n) == a >= DataStart /\ a + n - 1 <= image.top
Reachable ==
    /\ instr[1] # "lea" => \A o \in OperandsOf : InMemory(o) => Inside(Address_(o), Width)
    /\ instr[1] \in {"push", "call"} => Inside(reg["esp"] - 4, 4)
    /\ instr[1] \in {"pop", "ret"} => Inside(reg["esp"], 4)

-----------------------------------------------------------------------------
(* Steps *)

Running(kinds) == /\ status = "runs" /\ steps < MaxSteps /\ instr[1] \in kinds /\ Reachable
                  /\ steps' = steps + 1 /\ UNCHANGED <<prog, image, wanted>>
Advance1 == pc' = pc + 1
Unchanged1 == UNCHANGED <<out, status, heap, calls, depths>>

SetOperand(o, v) ==
    IF InMemory(o) THEN mem' = PutWord(mem, Address_(o), v) /\ UNCHANGED reg
    ELSE reg' = [reg EXCEPT ![o[2]] = v] /\ UNCHANGED mem

\* mov, movzx and lea.
Moved ==
    CASE instr[1] = "mov" -> Value(instr[3])
      [] instr[1] = "movzxb" -> LowByte(instr[3])
      [] instr[1] = "movzxw" -> mem[Address_(instr[3])] + 256 * mem[Address_(instr[3]) + 1]
      [] instr[1] = "lea" -> Address_(instr[3])
Move == /\ Running({"mov", "movzxb", "movzxw", "lea"})
        /\ SetOperand(instr[2], Moved)
        /\ Advance1 /\ Unchanged1 /\ UNCHANGED flags

\* A byte goes to memory, or to the low byte of a register.
MoveNarrow ==
    /\ Running({"movb", "movw"})
    /\ IF InMemory(instr[2])
       THEN mem' = PutBytes(mem, Address_(instr[2]), Value(instr[3]), Width) /\ UNCHANGED reg
       ELSE reg' = [reg EXCEPT ![instr[2][2]] = @ - (@ % 256) + LowByte(instr[3])] /\ UNCHANGED mem
    /\ Advance1 /\ Unchanged1 /\ UNCHANGED flags

Bit(n, k) == (n \div (2^k)) % 2
\* The operation on every bit; the sign is that of the highest.
Bitwise2(op, a, b) ==
    LET r(k) == CASE op \in {"and", "andb"} -> Bit(a, k) * Bit(b, k)
                  [] op = "or"  -> Max({Bit(a, k), Bit(b, k)})
                  [] op = "xor" -> (Bit(a, k) + Bit(b, k)) % 2
        sign == CASE op \in {"and", "andb"} -> a < 0 /\ b < 0
                  [] op = "or"  -> a < 0 \/ b < 0
                  [] op = "xor" -> (a < 0) # (b < 0)
    IN  FoldLeft(LAMBDA n, k : n + r(k) * 2^k, IF sign THEN -1073741824 - 1073741824 ELSE 0,
                 [k \in 1..31 |-> k - 1])

\* A shift to the right fills with zeros.
ShiftRight(a, n) == IF a >= 0 \/ n = 0 THEN a \div (2^n) ELSE (a \div (2^n)) + 2^(31 - n) + 2^(31 - n)

Result(a, b) ==
    CASE instr[1] = "add"  -> a + b
      [] instr[1] = "sub"  -> a - b
      [] instr[1] = "imul" -> a * b
      [] instr[1] = "neg"  -> -a
      [] instr[1] = "inc"  -> a + 1
      [] instr[1] = "dec"  -> a - 1
      [] instr[1] = "shl"  -> a * 2^b
      [] instr[1] = "shr"  -> ShiftRight(a, b)
      [] instr[1] = "xor" /\ instr[2] = instr[3] -> 0
      [] OTHER -> Bitwise2(instr[1], a, b)
Compute ==
    /\ Running({"add", "sub", "imul", "neg", "inc", "dec", "shl", "shr", "xor", "or", "and", "andb"})
    /\ LET r == Result(Value(instr[2]), Value(instr[Len(instr)]))
       IN  SetOperand(instr[2], r) /\ flags' = <<r, 0>>
    /\ Advance1 /\ Unchanged1

\* edx is cleared before every division: eax is divided without its sign.
Divide ==
    /\ Running({"div", "idiv"})
    /\ reg["eax"] >= 0 /\ reg["edx"] = 0 /\ reg["ebx"] # 0
    /\ LET a == reg["eax"]
           b == reg["ebx"]
           q == a \div (IF b > 0 THEN b ELSE -b)
       IN  reg' = [reg EXCEPT !["eax"] = IF b > 0 THEN q ELSE -q, !["edx"] = a % (IF b > 0 THEN b ELSE -b)]
    /\ Advance1 /\ Unchanged1 /\ UNCHANGED <<flags, mem>>

Compared ==
    CASE instr[1] = "cmp"   -> <<Value(instr[2]), Value(instr[3])>>
      [] instr[1] = "cmpb"  -> <<LowByte(instr[2]), LowByte(instr[3])>>
      [] instr[1] = "test"  -> <<Value(instr[2]), 0>>
      [] instr[1] = "testb" -> <<LowByte(instr[2]), 0>>
Compare == /\ Running({"cmp", "cmpb", "test", "testb"})
           /\ flags' = Compared
           /\ Advance1 /\ Unchanged1 /\ UNCHANGED <<reg, mem>>

Holds(mnemonic) ==
    LET x == flags[1]
        y == flags[2]
    IN  CASE mnemonic \in {"jmp"} -> TRUE
          [] mnemonic \in {"je", "jz", "sete", "setz"} -> x = y
          [] mnemonic \in {"jne", "jnz", "setne", "setnz"} -> x # y
          [] mnemonic \in {"jl", "setl"} -> x < y
          [] mnemonic \in {"jle", "setle"} -> x <= y
          [] mnemonic \in {"jg", "setg"} -> x > y
          [] mnemonic \in {"jge", "setge", "jns"} -> x >= y

SetFlag ==
    /\ Running({"sete", "setne", "setz", "setnz", "setl", "setle", "setg", "setge"})
    /\ reg' = [reg EXCEPT ![instr[2][2]] = @ - (@ % 256) + (IF Holds(instr[1]) THEN 1 ELSE 0)]
    /\ Advance1 /\ Unchanged1 /\ UNCHANGED <<flags, mem>>

Jump == /\ Running(Jumps)
        /\ pc' = IF Holds(instr[1]) THEN image.target[instr[2]] ELSE pc + 1
        /\ Unchanged1 /\ UNCHANGED <<reg, flags, mem>>

\* The labels of procedures are followed by their prologue.
IsEntry(i) == image.code[i][2] = "_start" \/ image.code[i + 1] = <<"push", ebp>>
Pass == /\ Running({"label"})
        /\ depths' = IF IsEntry(pc) \/ instr[2] \in DOMAIN depths THEN depths
                     ELSE (instr[2] :> reg["ebp"] - reg["esp"]) @@ depths
        /\ Advance1 /\ UNCHANGED <<reg, flags, mem, out, status, heap, calls>>

Push == /\ Running({"push"})
        /\ reg' = [reg EXCEPT !["esp"] = @ - 4]
        /\ mem' = PutWord(mem, reg["esp"] - 4, Value(instr[2]))
        /\ Advance1 /\ Unchanged1 /\ UNCHANGED flags
Pop == /\ Running({"pop"})
       /\ reg' = [reg EXCEPT !["esp"] = @ + 4, ![instr[2][2]] = WordAt(mem, reg["esp"])]
       /\ Advance1 /\ Unchanged1 /\ UNCHANGED <<flags, mem>>

Call == /\ Running({"call"}) /\ instr[2] \in DOMAIN image.target
        /\ reg' = [reg EXCEPT !["esp"] = @ - 4]
        /\ mem' = PutWord(mem, reg["esp"] - 4, pc + 1)
        /\ pc' = image.target[instr[2]]
        /\ calls' = Append(calls, [at |-> reg["esp"] - 4, return |-> pc + 1, ebp |-> reg["ebp"]])
        /\ UNCHANGED <<flags, out, status, heap, depths>>
Return == /\ Running({"ret"}) /\ WordAt(mem, reg["esp"]) \in DOMAIN image.code
          /\ reg' = [reg EXCEPT !["esp"] = @ + 4]
          /\ pc' = WordAt(mem, reg["esp"])
          /\ calls' = SubSeq(calls, 1, Len(calls) - 1)
          /\ UNCHANGED <<flags, mem, out, status, heap, depths>>

\* write to the terminal, and exit.
SystemCall ==
    /\ Running({"int"}) /\ reg["eax"] \in {1, 4}
    /\ IF reg["eax"] = 1
       THEN status' = "exited" /\ UNCHANGED <<out, reg, pc>>
       ELSE /\ out' = out \o [i \in 1..reg["edx"] |-> mem[reg["ecx"] + i - 1]]
            /\ reg' = [reg EXCEPT !["eax"] = reg["edx"]]
            /\ Advance1 /\ UNCHANGED status
    /\ UNCHANGED <<flags, mem, heap, calls, depths>>

-----------------------------------------------------------------------------
(* lib/memory.bh and lib/list.bh *)

Argument(i) == WordAt(mem, reg["esp"] + 4 * (i - 1))

\* alloc: a header of two words before every block, sizes in whole words.
Rounded(n) == n + ((4 - (n % 4)) % 4)
AfterAlloc(m, n) == PutWord(PutWord(m, heap, Rounded(n) + 8), heap + 4, 1)
HeapEnds == image.heap + HeapSize
Library(f) == Running({"call"}) /\ instr[2] = f /\ f \notin DOMAIN image.target
Answer_(v) == /\ reg' = [reg EXCEPT !["eax"] = v]
              /\ Advance1 /\ UNCHANGED <<flags, out, status, calls, depths>>

Alloc == /\ Library("alloc")
         /\ heap + Rounded(Argument(1)) + 8 <= HeapEnds
         /\ mem' = AfterAlloc(mem, Argument(1))
         /\ heap' = heap + Rounded(Argument(1)) + 8
         /\ Answer_(heap + 8)

Field(list, i) == WordAt(mem, list + 4 * i)
\* list_grow: a block of twice the capacity, and the elements copied.
Copied(m, from, to, n) ==
    [a \in DOMAIN m |-> IF a \in to..(to + n - 1) THEN m[from + a - to] ELSE m[a]]
ListAppend ==
    /\ Library("list_append_i32")
    /\ LET list == Argument(1)
           data == Field(list, 0)
           len  == Field(list, 1)
           cap  == Field(list, 2)
           full == len >= cap
           size == 2 * cap * Field(list, 3)
           grown == PutWord(PutWord(Copied(AfterAlloc(mem, size), data, heap + 8, 4 * cap),
                                    list, heap + 8), list + 8, 2 * cap)
           m    == IF full THEN grown ELSE mem
       IN  /\ full => heap + Rounded(size) + 8 <= HeapEnds
           /\ mem' = PutWord(PutWord(m, WordAt(m, list) + 4 * len, Argument(2)), list + 4, len + 1)
           /\ heap' = IF full THEN heap + Rounded(size) + 8 ELSE heap
    /\ \E v \in {0} : Answer_(v)

ListGet == /\ Library("list_get_i32")
           /\ Answer_(WordAt(mem, Field(Argument(1), 0) + 4 * Argument(2)))
           /\ UNCHANGED <<mem, heap>>
ListLen == /\ Library("list_len") /\ Answer_(Field(Argument(1), 1)) /\ UNCHANGED <<mem, heap>>
ListPop ==
    /\ Library("list_pop_i32")
    /\ LET list == Argument(1)
           len  == Field(list, 1)
       IN  IF len = 0 THEN Answer_(0) /\ UNCHANGED mem
           ELSE /\ mem' = PutWord(mem, list + 4, len - 1)
                /\ Answer_(WordAt(mem, Field(list, 0) + 4 * (len - 1)))
    /\ UNCHANGED heap

Step == \/ Move \/ MoveNarrow \/ Compute \/ Divide \/ Compare \/ SetFlag \/ Jump \/ Pass
        \/ Push \/ Pop \/ Call \/ Return \/ SystemCall
        \/ Alloc \/ ListAppend \/ ListGet \/ ListLen \/ ListPop

\* A program that has ended stays as it is.
Ended == status = "exited" /\ UNCHANGED vars

Init == /\ prog = "" /\ image = Empty /\ wanted = Empty /\ status = "idle"
        /\ pc = 0 /\ reg = [r \in {"eax", "ebx", "ecx", "edx", "esi", "edi", "ebp", "esp"} |-> 0]
        /\ flags = <<0, 0>> /\ mem = <<>> /\ out = <<>>
        /\ heap = 0 /\ calls = <<>> /\ depths = Empty /\ steps = 0

\* A program is compiled, linked and put into memory.
LoadProgram(cases) ==
    /\ status = "idle"
    /\ \E c \in cases :
        /\ prog' = c.prog /\ image' = c.image /\ wanted' = c.wanted
        /\ pc' = c.image.target["_start"]
        /\ reg' = [reg EXCEPT !["esp"] = c.image.top - 12]
        /\ mem' = c.image.mem /\ heap' = c.image.heap
    /\ status' = "runs"
    /\ UNCHANGED <<flags, out, calls, depths, steps>>

\* The cases are bound here: TLC evaluates them once.
Next == (\E cases \in {Cases} : LoadProgram(cases)) \/ Step \/ Ended
Spec == Init /\ [][Next]_vars

-----------------------------------------------------------------------------
(* Properties *)

\* A program that exits has printed what the language says, and exits with the
\* number main returns: the whole way from the text to the last instruction.
ComputesMeaning == status = "exited" => [exit |-> reg["ebx"], out |-> out] = wanted

\* The return address of every active procedure is still in its place, and a
\* procedure returns to its caller with the caller's frame.
FramesRestored ==
    /\ \A i \in DOMAIN calls : WordAt(mem, calls[i].at) = calls[i].return
    /\ status = "runs" /\ instr[1] = "ret" =>
          reg["esp"] = Last(calls).at /\ reg["ebp"] = Last(calls).ebp

\* Whichever way a label is reached, in the first round of a loop or a later
\* one, from either branch of a condition, the stack is equally deep; only the
\* loop that prints a number leaves its digits there.
StackAgreesAtLabels ==
    status = "runs" /\ instr[1] = "label" /\ instr[2] \in DOMAIN depths /\ ~StartsWith(instr[2], "print_int") =>
        depths[instr[2]] = reg["ebp"] - reg["esp"]
=============================================================================
