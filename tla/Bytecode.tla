------------------------------ MODULE Bytecode ------------------------------
(***************************************************************************)
(* How the generator joins pieces of bytecode, and the register words and  *)
(* the stack memory that the virtual machine and the processor work on.    *)
(***************************************************************************)
EXTENDS Instructions, Bitwise

CONSTANT Top            \* the stack pointer when the program starts
ASSUME TopAssumption == Top \in Nat /\ Top % 16 = 0

\* emit_pop drops the push before it when both name the same register.
RECURSIVE Join(_, _)
Join(code, more) ==
    IF /\ code # <<>> /\ more # <<>>
       /\ Last(code).op = "PUSH" /\ Head(more) = OnReg("POP", Last(code).a, 0)
    THEN Join(Front(code), Tail(more))
    ELSE code \o more
JoinAll(pieces) == FoldLeft(Join, <<>>, pieces)

-----------------------------------------------------------------------------
(***************************************************************************)
(* A word is the number in the low w bytes of a register, read as signed;  *)
(* the bytes above are not known (or, for four bytes, hold a number that   *)
(* TLC cannot represent).  A word of eight bytes is known in full.         *)
(***************************************************************************)
NoValue == -(2^30)      \* a value nobody may rely on
Known(v) == [v |-> v, w |-> 8]
Part(v, size) == [v |-> v, w |-> IF v = NoValue THEN 8 ELSE size]
Junk == Known(NoValue)

Signed8(v) == IF v % 256 < 128 THEN v % 256 ELSE (v % 256) - 256
Low(x, size) ==
    IF x.v = NoValue \/ size > x.w THEN NoValue
    ELSE IF size = 1 THEN Signed8(x.v) ELSE x.v
ZeroExtended(v, size) ==
    IF v = NoValue THEN Junk
    ELSE CASE size = 1 -> Known(v % 256)
           [] size = 4 /\ v < 0 -> Part(v, 4)
           [] OTHER -> Known(v)

\* What a test of all eight bytes against zero says, when the word decides it.
Truth(x) ==
    IF x.v = NoValue THEN "unknown"
    ELSE IF x.v # 0 THEN "true"
    ELSE IF x.w = 8 THEN "false" ELSE "unknown"

\* !x
Negated(x) == CASE Truth(x) = "true" -> 0 [] Truth(x) = "false" -> 1 [] OTHER -> NoValue

FromBoolean(b) == IF b THEN 1 ELSE 0
Quotient(x, y) == LET q == (IF x < 0 THEN -x ELSE x) \div (IF y < 0 THEN -y ELSE y)
                  IN  IF (x < 0) = (y < 0) THEN q ELSE -q
Remainder(x, y) == x - y * Quotient(x, y)
OnBits(op, x, y) ==
    IF x < 0 \/ y < 0 THEN NoValue
    ELSE CASE op = "BAND" -> x & y
           [] op = "BOR" -> x | y
           [] op = "BXOR" -> x ^^ y

\* The arithmetic that the two back ends agree on, for operands of one size.
Compute(op, x, y) ==
    IF NoValue \in {x, y} THEN NoValue
    ELSE CASE op = "ADD" -> x + y
           [] op = "SUB" -> x - y
           [] op \in {"MUL", "UMUL"} -> x * y
           [] op = "DIV" -> IF y = 0 THEN NoValue ELSE Quotient(x, y)
           [] op = "EQ" -> FromBoolean(x = y)
           [] op = "NEQ" -> FromBoolean(x # y)
           [] op = "LT" -> FromBoolean(x < y)
           [] op = "LTE" -> FromBoolean(x <= y)
           [] op = "GT" -> FromBoolean(x > y)
           [] op = "GTE" -> FromBoolean(x >= y)
           [] op \in Bitwises -> IF op = "BXOR" /\ x = y THEN 0 ELSE OnBits(op, x, y)
           [] op = "BLSHIFT" -> IF y \in 0..8 /\ x >= 0 THEN x * 2^y ELSE NoValue
           [] op = "BRSHIFT" -> IF y \in 0..8 /\ x >= 0 THEN x \div 2^y ELSE NoValue

\* Both operands of && and || are tested in full, whether or not they matter.
Logical(op, x, y) ==
    LET t == {Truth(x), Truth(y)} IN
    IF op = "LAND" /\ "false" \in t THEN 0
    ELSE IF op = "LOR" /\ "true" \in t THEN 1
    ELSE IF "unknown" \in t THEN NoValue ELSE FromBoolean(op = "LAND")

-----------------------------------------------------------------------------
\* Stack memory remembers what was stored at an address and in how many bytes;
\* a store destroys the stores it overlaps.
Bytes(at, n) == at .. (at + n - 1)
Store(mem, at, size, x) ==
    LET kept == {p \in DOMAIN mem : Bytes(p, mem[p].n) \cap Bytes(at, size) = {}} IN
    [p \in kept \cup {at} |-> IF p = at THEN [x |-> x, n |-> size] ELSE mem[p]]
Load(mem, at, size) ==
    IF at \notin DOMAIN mem \/ size > mem[at].n THEN Junk
    ELSE IF size = 8 THEN mem[at].x ELSE Part(Low(mem[at].x, size), size)
=============================================================================
