----------------------------- MODULE Processor -----------------------------
(***************************************************************************)
(* What the machine code of X64Builder does when a processor runs it.  It  *)
(* is called from outside, with the stack aligned as the calling           *)
(* convention demands.                                                     *)
(***************************************************************************)
EXTENDS Bytecode

VARIABLES texts,        \* the machine code of every function
          cpu

PhysicalRegisters == {"A", "B", "C", "D", "DI", "R8", "R9", "R10", "R11", "R12", "SP", "BP", "NONE"}
OuterBase == Known(1)   \* the caller's base pointer
Address64(fn, ip) == fn * 65536 + ip

Running(start) ==
    [registers |-> [r \in PhysicalRegisters |->
                        CASE r = "SP" -> Known(Top - REGISTER_SIZE) [] r = "BP" -> OuterBase [] OTHER -> Junk],
     memory |-> Store(<<>>, Top - REGISTER_SIZE, 8, Known(0)),
     fn |-> start, ip |-> 1, running |-> TRUE]

Fetched == texts[cpu.fn][cpu.ip]
Executing(ops) == cpu.running /\ Fetched.op \in ops
Reg(r) == cpu.registers[r]
Next64(c) == cpu' = [c EXCEPT !.ip = @ + 1]
Set(r, x) == Next64([cpu EXCEPT !.registers[r] = x])

\* A result of this many bytes in a register that held x: four bytes clear what
\* is above them, one leaves it.
Sized(x, v, size) ==
    IF v = NoValue THEN Junk
    ELSE IF size # 1 THEN ZeroExtended(v, size)
    ELSE IF x.v = NoValue \/ x.w = 1 THEN Part(Signed8(v), 1)
    ELSE [x EXCEPT !.v = (@ \div 256) * 256 + (v % 256)]
Extended(op, x, size) == IF op = "movsx" THEN Known(Low(x, size)) ELSE ZeroExtended(Low(x, size), size)
Plus(x, n) == IF x.v = NoValue THEN x ELSE [x EXCEPT !.v = @ + n]

Move ==
    /\ Executing({"mov", "movsx", "movzx", "lea", "li"})
    /\ LET i == Fetched IN
       Set(i.r, CASE i.op = "mov" -> Reg(i.m)
                  [] i.op = "lea" -> Plus(Reg(i.m), i.imm)
                  [] i.op = "li" -> ZeroExtended(i.imm, i.size)
                  [] OTHER -> Extended(i.op, Reg(i.m), i.size))
LoadMemory ==
    /\ Executing({"load"})
    /\ LET i == Fetched IN
       Set(i.r, Sized(Reg(i.r), Low(Load(cpu.memory, Reg(i.m).v + i.imm, i.size), i.size), i.size))
StoreMemory ==
    /\ Executing({"store"})
    /\ LET i == Fetched IN
       Next64([cpu EXCEPT !.memory = Store(@, Reg(i.r).v + i.imm, i.size, Reg(i.m))])
PushPop ==
    /\ Executing({"push", "pop"})
    /\ LET i == Fetched
           sp == Reg("SP").v IN
       IF i.op = "push"
       THEN Next64([cpu EXCEPT !.memory = Store(@, sp - 8, 8, Reg(i.r)), !.registers["SP"] = Known(sp - 8)])
       ELSE Next64([cpu EXCEPT !.registers["SP"] = Known(sp + 8), !.registers[i.r] = Load(cpu.memory, sp, 8)])

\* Two operand arithmetic; a test of && and || is of whole registers.
Outcome(i, x, y) ==
    CASE i.op \in Logicals -> Known(Logical(i.op, x, y))
      [] i.op \in Comparisons -> Known(Compute(i.op, Low(x, i.size), Low(y, i.size)))
      [] i.op = "BXOR" /\ i.r = i.m -> Sized(x, 0, i.size)
      [] OTHER -> Sized(x, Compute(i.op, Low(x, i.size), Low(y, i.size)), i.size)
Calculate ==
    /\ Executing({"ADD", "SUB", "MUL"} \cup Comparisons \cup Logicals \cup Bitwises \cup Shifts)
    /\ LET i == Fetched IN Set(i.r, Outcome(i, Reg(i.r), Reg(i.m)))
Unary ==
    /\ Executing({"sete", "not", "addi"})
    /\ LET i == Fetched IN
       Set(i.r, CASE i.op = "sete" -> Known(Negated(Reg(i.m)))
                  [] i.op = "not" /\ Reg(i.m).v = NoValue -> Junk
                  [] i.op = "not" /\ Reg(i.m).v # NoValue -> [Reg(i.m) EXCEPT !.v = -1 - @]
                  [] i.op = "addi" -> Plus(Reg(i.r), i.imm))
\* mul and idiv take A, leave their results in A and D.
Multiply ==
    /\ Executing({"mul"})
    /\ LET i == Fetched IN
       Next64([cpu EXCEPT !.registers["A"] = Sized(Reg("A"), Compute("MUL", Low(Reg("A"), i.size), Low(Reg(i.m), i.size)), i.size),
                          !.registers["D"] = Junk])
Divide ==
    /\ Executing({"idiv"})
    /\ LET i == Fetched
           x == Low(Reg("A"), i.size)
           y == Low(Reg(i.m), i.size)
           defined == NoValue \notin {x, y} /\ y # 0 IN
       Next64([cpu EXCEPT !.registers["A"] = IF defined THEN Sized(Reg("A"), Quotient(x, y), i.size) ELSE Junk,
                          !.registers["D"] = IF defined THEN Sized(Reg("D"), Remainder(x, y), i.size) ELSE Junk])

SkipUnlessNegative ==
    /\ Executing({"jge"})
    /\ LET v == Low(Reg(Fetched.r), Fetched.size) IN
       cpu' = [cpu EXCEPT !.ip = @ + (IF v # NoValue /\ v < 0 THEN 1 ELSE 1 + Fetched.imm)]
Branch ==
    /\ Executing({"jmp", "jz", "jnz"})
    /\ \E taken \in BOOLEAN :
        /\ Fetched.op = "jmp" => taken
        /\ Fetched.op # "jmp" => Truth(Reg(Fetched.r)) # (IF taken = (Fetched.op = "jz") THEN "true" ELSE "false")
        /\ cpu' = [cpu EXCEPT !.ip = IF taken THEN Fetched.imm ELSE @ + 1]
CallReturn ==
    /\ Executing({"call", "ret"})
    /\ LET sp == Reg("SP").v
           back == Load(cpu.memory, sp, 8).v IN
       IF Fetched.op = "call"
       THEN cpu' = [cpu EXCEPT !.memory = Store(@, sp - 8, 8, Known(Address64(cpu.fn, cpu.ip + 1))),
                               !.registers["SP"] = Known(sp - 8), !.fn = Fetched.imm, !.ip = 1]
       ELSE cpu' = [cpu EXCEPT !.registers["SP"] = Known(sp + 8), !.running = back # 0,
                               !.fn = IF back = 0 THEN @ ELSE back \div 65536,
                               !.ip = IF back = 0 THEN @ ELSE back % 65536]

ProcessorStep ==
    \/ Move \/ LoadMemory \/ StoreMemory \/ PushPop \/ Calculate \/ Unary \/ Multiply \/ Divide
    \/ SkipUnlessNegative \/ Branch \/ CallReturn
=============================================================================
