---------------------------- MODULE MCX86Machine ----------------------------
EXTENDS X86Machine

Main(body) == "def main() -> int32:\n" \o body

\* Two operators and three operands, grouped both ways.
Ops == {"+", "-", "*", "/", "%", "<", "<=", ">", ">=", "==", "!=", "and", "or", "&", "|", "^", "<<", ">>"}
WithOperators ==
    {Main("    a: int32 = 13\n    return a " \o x \o " 3 " \o y \o n) : x, y \in Ops, n \in {" 1\n", " 2\n"}}
    \cup {Main("    a: int32 = 13\n    return a + 20 - (3 " \o x \o " a)\n") : x \in Ops}

\* A way out of a loop, or none, in each branch of a condition in a loop that
\* stands in another one.
WaysOn == {"break", "continue", "return s + 70", "s = s + 9", "s += i"}
WithLoops ==
    {Main("    s: int32 = 0\n    i: int32 = 0\n    while i < 3:\n        i = i + 1\n        j: int32 = 0\n"
          \o "        while j < 3:\n            j += 1\n            if j == 2 and i != 2:\n                " \o x
          \o "\n            elif i == 2 or not j < 3:\n                " \o y
          \o "\n            s = s * 2 + j\n        " \o z \o "\n    return s * 2 + i\n") :
        x, y, z \in WaysOn}

WithStatements == {Main(body) : body \in {
"    i: int32 = 0\n    s: int32 = 0\n    while i < 6:\n        i = i + 1\n        if i == 2:\n            continue\n        if i == 5:\n            break\n        s = s + i\n    return s\n",
"    i: int32 = 0\n    s: int32 = 0\n    while i < 3:\n        j: int32 = 0\n        while True:\n            j = j + 1\n            if j > i:\n                break\n            s = s + j * 10\n        i = i + 1\n    return s\n",
"    x: int32 = 7\n    if x < 3:\n        return 1\n    elif x < 8 and not x == 6:\n        if x > 7:\n            return 2\n        else:\n            x = x + 1\n    else:\n        return 3\n    return x\n",
"    a: Array[3, int32] = [4, 5, 6]\n    s: int32 = 0\n    a[1] = a[0] + 1\n    for x in a:\n        s = s * 10 + x\n    return s\n",
"    l: List[int32] = [1, 2]\n    l.append(3)\n    l.append(4)\n    s: int32 = 0\n    for x in l:\n        s = s * 10 + x\n    return s + l.pop() + len(l)\n",
"    l: List[int32] = []\n    i: int32 = 0\n    while i < 9:\n        l.append(i)\n        i = i + 1\n    return l[8] * 10 + len(l)\n",
"    s: str = \"abc\"\n    t: str = s + \"d\"\n    print(t)\n    if t == \"abcd\":\n        return len(t)\n    return 0\n",
"    s: str = \"a1 z\"\n    n: int32 = 0\n    i: int32 = 0\n    while i < 4:\n        c: char = s[i]\n        n = n * 2\n        if c.isdigit():\n            n = n + 1\n        i = i + 1\n    print(s[0:2])\n    return n\n",
"    c: char = 'x'\n    s: str = \"no\"\n    n: int32 = 42\n    print(f\"{n} is {s}\")\n    return 5 if c == 'x' else 6\n",
"    n: int32 = 9\n    defer print(\"last\")\n    defer print(\"first\")\n    while n > 0:\n        if n == 7:\n            return n\n        n = n - 1\n    return 0\n",
"    a, b = (3, 4)\n    return a * 10 + b\n"}}

WithProcedures == {
"def fact(n: int32) -> int32:\n    if n < 2:\n        return 1\n    return n * fact(n - 1)\n" \o Main("    return fact(4) - fact(3)\n"),
"def pack(a: int32, b: int32, c: int32) -> int32:\n    return a * 100 + b * 10 + c\n" \o Main("    return pack(1, 2, 5) + pack(3, pack(0, 0, 4), 6)\n"),
"total: int32 = 3\nSTEP: Final[int32] = 2\ndef bump(n: int32) -> int32:\n    total = total + n * STEP\n    return total\n" \o Main("    x: int32 = bump(4)\n    i: int32 = 0\n    while i < 3:\n        bump(i)\n        i += 1\n    return x + bump(1) + total\n"),
"def even(n: int32) -> bool:\n    defer print(\"e\")\n    if n == 0:\n        return True\n    return odd(n - 1)\ndef odd(n: int32) -> bool:\n    return False if n == 0 else even(n - 1)\n" \o Main("    return 1 if even(3) else 2\n"),
"class Point:\n    x: int32\n    y: int32\n    def __init__(self, x: int32, y: int32):\n        self.x = x\n        self.y = y\n    def area(self) -> int32:\n        return self.x * self.y\n    def move(self, d: int32 = 2):\n        self.x = self.x + d\n" \o Main("    p = Point(3, 4)\n    p.move()\n    p.move(1)\n    return p.area() + p.x\n"),
"class Shape(Enum):\n    Dot(int32)\n    Line(int32)\n" \o Main("    s: Shape = Line(5)\n    n: int32 = 0\n    match s:\n        Dot(r):\n            n = r\n        Line(k):\n            n = k + 1\n    return n\n")}

MCCases == {CaseOf(t) : t \in WithOperators \cup WithLoops \cup WithStatements \cup WithProcedures}

\* The example of docs/LANGUAGE.md for a range.
RangeCases == {CaseOf(Main("    s: int32 = 0\n    for i in range(3):\n        s = s + i\n    return s\n"))}
=============================================================================
