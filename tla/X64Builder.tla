----------------------------- MODULE X64Builder -----------------------------
(***************************************************************************)
(* X64Builder turns the bytecode of one function after the other into      *)
(* machine code.  A backward pass over the instructions decides which      *)
(* operands share an artificial register and deletes what nobody uses; a   *)
(* forward pass gives artificial registers their physical ones and emits.  *)
(* Functions follow betcall: values travel on the stack and no register is *)
(* saved by the callee.                                                    *)
(***************************************************************************)
EXTENDS Instructions, FiniteSetsExt

VARIABLES bytecode,     \* the functions
          x64           \* the state of the builder
builderVars == <<bytecode, x64>>

NoRegister == "NONE"    \* X64_REG_INVALID
AllocationOrder == <<"C", "D", "B", "R8", "R9", "R10", "R11", "R12">>
RESERVED_REG0 == "DI"
NoUse == [inst |-> 0, nr |-> 0]

\* What starts a value, and what is kept although nobody uses its operands.
Starts(op) == op \in {"MOV_RM", "LI32", "LI64", "CAST", "GET_PARAM", "GET_VAL", "PTR_TO_LOCALS", "PTR_TO_PARAMS"}
Essential(op) == op \in {"RET", "JZ", "JNZ", "JMP", "MOV_MR", "SET_ARG", "SET_RET", "CALL", "ALLOC_ARGS", "FREE_ARGS"}

\* What the generator gives the builder: an operand that is written or pushed is
\* a general register, instructions without operands name none.
NoOperand == {"CALL", "JMP", "RET", "ALLOC_ARGS", "FREE_ARGS"}
OneOperand == {"PUSH", "POP", "INCR", "JZ", "JNZ"}
Instruction == [op : STRING, a : BCRegister, b : BCRegister, size : Nat, signed : BOOLEAN, imm : Int]
IsInstruction(i) ==
    /\ i.op \in NoOperand => i.a = "INVALID"
    /\ i.op \in NoOperand \cup OneOperand => i.b = "INVALID"
    /\ i.op = "SET_RET" \/ ~Essential(i.op) => i.a \in GeneralRegisters
    /\ i.op = "CAST" => i.b \in GeneralRegisters
IsBytecode ==
    /\ bytecode \in Seq([code : Seq(Instruction), frame_size : Int])
    /\ \A f \in DOMAIN bytecode : \A k \in DOMAIN bytecode[f].code : IsInstruction(bytecode[f].code[k])

\* An instruction of machine code: r is the register operand, m the other one.
X(op, r, m, size, imm) == [op |-> op, r |-> r, m |-> m, size |-> size, imm |-> imm]
AddImm(r, n) == X("addi", r, r, 8, n)

\* The builder at the start of function f.
Begun(f, code, texts) ==
    [fn |-> f, stage |-> "backward", index |-> Len(code), texts |-> texts,
     map |-> [r \in GeneralRegisters |-> NoUse], push_list |-> <<>>,
     last_was_pop |-> FALSE, index_of_last_pop |-> 0, original_recipient |-> NoUse,
     regs |-> [i \in 1..Len(code) |-> [nr \in 0..1 |-> 0]], artificial |-> <<>>, deleted |-> {},
     used |-> {}, virtual_stack_pointer |-> 0, push_offsets |-> <<>>, ret_offset |-> 0,
     misalignments |-> <<>>, moments |-> <<>>, text |-> <<>>, starts |-> <<>>]

Code == bytecode[x64.fn].code
Current == Code[x64.index]
Operand(nr) == IF nr = 0 THEN Current.a ELSE Current.b

-----------------------------------------------------------------------------
(***************************************************************************)
(* Backward: map says for every bytecode register which operand of a later *)
(* instruction expects its value.                                          *)
(***************************************************************************)
SetReg(g, nr, id) == [g EXCEPT !.regs[x64.index][nr] = id]
MapReg(g, nr) == [g EXCEPT !.map[Operand(nr)] = [inst |-> x64.index, nr |-> nr]]
FreeMapReg(g, nr) == [g EXCEPT !.map[Operand(nr)] = NoUse]
Recipient(g, nr) == g.map[Operand(nr)]
IdOf(g, use) == g.regs[use.inst][use.nr]
Delete(g, i) == [g EXCEPT !.deleted = @ \cup {i}]

Alloc(g, nr, reg, started_by) ==
    SetReg([g EXCEPT !.artificial = Append(@, [reg |-> reg, started_by |-> started_by])], nr, Len(g.artificial) + 1)
FreshUnmapped(g, nr) == Alloc(g, nr, NoRegister, x64.index)
Fresh(g, nr) == MapReg(Alloc(g, nr, NoRegister, x64.index), nr)
Share(g, nr) == MapReg(SetReg(g, nr, IdOf(g, Recipient(g, nr))), nr)
\* An operand that is read: shared with its recipient, or a value of its own.
Bind(g, nr) ==
    IF Operand(nr) = "INVALID" THEN g
    ELSE IF Operand(nr) = "LOCALS" THEN Alloc(g, nr, "BP", -1)
    ELSE IF Recipient(g, nr) # NoUse THEN Share(g, nr)
    ELSE Fresh(g, nr)

Backward(ops) == x64.stage = "backward" /\ x64.index > 0 /\ Current.op \in ops
Earlier(g) == x64' = [g EXCEPT !.index = @ - 1]

BackwardPop ==
    /\ Backward({"POP"})
    /\ LET i == x64.index
           to == Recipient(x64, 0) IN
       Earlier(FreeMapReg(
           IF to # NoUse
           THEN [SetReg(x64, 0, IdOf(x64, to)) EXCEPT !.push_list = Append(@, i), !.last_was_pop = TRUE,
                                                      !.index_of_last_pop = i, !.original_recipient = to]
           ELSE [Delete(x64, i) EXCEPT !.push_list = Append(@, 0), !.last_was_pop = FALSE], 0))

\* A push right before its pop goes with it: the pushed register is what the
\* recipient of the pop expects.
BackwardPush ==
    /\ Backward({"PUSH"})
    /\ x64.push_list # <<>>
    /\ LET i == x64.index
           g == IF Last(x64.push_list) = 0 THEN Delete(x64, i)
                ELSE IF x64.last_was_pop THEN
                    [Delete(Delete(x64, i), x64.index_of_last_pop) EXCEPT !.map[Current.a] = x64.original_recipient]
                ELSE IF Recipient(x64, 0) # NoUse THEN SetReg(x64, 0, IdOf(x64, Recipient(x64, 0)))
                ELSE Fresh(x64, 0) IN
       Earlier([g EXCEPT !.last_was_pop = FALSE, !.push_list = Front(@)])

\* The operand of a conversion never shares the register of its result.
BackwardCast ==
    /\ Backward({"CAST"})
    /\ LET g == FreeMapReg(Share([x64 EXCEPT !.last_was_pop = FALSE], 0), 0) IN
       Earlier(IF Recipient(x64, 0) = NoUse THEN Delete([x64 EXCEPT !.last_was_pop = FALSE], x64.index)
               ELSE IF Current.a # Current.b THEN Bind(g, 1) ELSE Fresh(g, 1))

\* Calls and jumps forget who expects what; conditional jumps do not.
Forgets(op) == op \in {"CALL", "JMP"}
Cleared(g) == [g EXCEPT !.last_was_pop = FALSE,
                        !.map = IF Forgets(Current.op) THEN [r \in GeneralRegisters |-> NoUse] ELSE @]
BackwardEssential ==
    /\ x64.stage = "backward" /\ x64.index > 0
    /\ Essential(Current.op)
    /\ Earlier(Bind(IF Current.op = "SET_RET" THEN Fresh(Cleared(x64), 0) ELSE Bind(Cleared(x64), 0), 1))
BackwardOther ==
    /\ x64.stage = "backward" /\ x64.index > 0
    /\ ~Essential(Current.op) /\ Current.op \notin {"POP", "PUSH", "CAST"}
    /\ LET g == Cleared(x64) IN
       Earlier(IF Recipient(g, 0) = NoUse THEN Delete(g, x64.index)
               ELSE Bind(IF Starts(Current.op) THEN FreeMapReg(Share(g, 0), 0) ELSE Share(g, 0), 1))

-----------------------------------------------------------------------------
(***************************************************************************)
(* Forward: artificial registers get a physical one where their value is   *)
(* made, and give it back after the instruction that started them.         *)
(***************************************************************************)
Id(g, nr) == g.regs[g.index][nr]
Physical(g, nr) == IF Id(g, nr) = 0 THEN NoRegister ELSE g.artificial[Id(g, nr)].reg
Emit(g, more) == [g EXCEPT !.text = @ \o more]

\* alloc_register: the first one in order that is not used.
AllocRegister(g) ==
    LET k == SelectInSeq(AllocationOrder, LAMBDA r : r \notin g.used) IN
    IF k = 0 THEN NoRegister ELSE AllocationOrder[k]
OutUnmarked(g, nr) ==
    IF Id(g, nr) = 0 \/ Physical(g, nr) # NoRegister THEN g
    ELSE [g EXCEPT !.artificial[Id(g, nr)].reg = AllocRegister(g)]
Out(g, nr) ==
    IF Id(g, nr) = 0 \/ Physical(g, nr) # NoRegister THEN g
    ELSE [g EXCEPT !.artificial[Id(g, nr)].reg = AllocRegister(g), !.used = @ \cup ({AllocRegister(g)} \ {NoRegister})]
Post(g, nr) ==
    IF Id(g, nr) = 0 \/ g.artificial[Id(g, nr)].started_by # g.index THEN g
    ELSE [g EXCEPT !.used = @ \ {Physical(g, nr)}, !.artificial[Id(g, nr)].reg = NoRegister]

\* emit_push and emit_pop keep the offsets that are relative to the stack
\* pointer; PUSH and POP also move the virtual stack pointer.
Moved(g, n) ==
    [g EXCEPT !.ret_offset = @ + n,
              !.push_offsets = IF @ = <<>> THEN @ ELSE Append(Front(@), Last(@) + n)]
EmitPush(g, r) == Moved(Emit(g, <<X("push", r, r, 8, 0)>>), REGISTER_SIZE)
EmitPop(g, r) == Moved(Emit(g, <<X("pop", r, r, 8, 0)>>), -REGISTER_SIZE)
EmitAdd(g, n) == IF n = 0 THEN g ELSE Emit(g, <<AddImm("SP", n)>>)
EnterFrame(g, value) ==
    [EmitAdd(g, -value) EXCEPT !.virtual_stack_pointer = @ - value, !.push_offsets = Append(@, 0)]
LeaveFrame(g, value) ==
    [EmitAdd(g, value) EXCEPT !.virtual_stack_pointer = @ + value, !.ret_offset = @ - value]

\* A stack moment puts the virtual stack pointer back where jumps meet.
PopMoments(g, i) ==
    LET here == SelectSeq(g.moments, LAMBDA m : m.pop_at = i) IN
    [g EXCEPT !.moments = SelectSeq(@, LAMBDA m : m.pop_at # i),
              !.virtual_stack_pointer = IF here = <<>> THEN @ ELSE Last(here).sp]
PushMoment(g, target) ==
    [g EXCEPT !.moments = Append(@, [sp |-> g.virtual_stack_pointer, pop_at |-> target])]

Prologue ==
    /\ x64.stage = "backward" /\ x64.index = 0
    /\ x64' = EnterFrame([EmitPush(x64, "BP") EXCEPT !.text = Append(@, X("mov", "BP", "SP", 8, 0)),
                                                     !.stage = "forward", !.index = 1],
                         bytecode[x64.fn].frame_size)

Remaining(i) == {j \in i..Len(Code) : j \notin x64.deleted}
Forward(ops) == x64.stage = "forward" /\ x64.index <= Len(Code) /\ x64.index \notin x64.deleted /\ Current.op \in ops
\* Where the machine code of an instruction starts, and the moments due there.
Arrived == PopMoments([x64 EXCEPT !.starts = (x64.index :> (Len(x64.text) + 1)) @@ @], x64.index)
Later(g) == x64' = [g EXCEPT !.index = @ + 1]
SkipDeleted ==
    /\ x64.stage = "forward" /\ x64.index <= Len(Code) /\ x64.index \in x64.deleted
    /\ Later(x64)

\* The instructions that make a value from memory or nothing.
Load64(i, r, m) ==
    CASE i.op = "MOV_RM" -> <<X("load", r, m, i.size, i.imm)>> \o IF i.size = 1 THEN <<X("movzx", r, r, 1, 0)>> ELSE <<>>
      [] i.op \in {"GET_PARAM", "GET_VAL"} ->
            <<X("load", r, IF i.op = "GET_PARAM" THEN "BP" ELSE "SP", i.size,
                IF i.op = "GET_PARAM" THEN i.imm + FRAME_SIZE ELSE i.imm - FRAME_SIZE + x64.ret_offset),
              X(IF i.signed THEN "movsx" ELSE "movzx", r, r, i.size, 0)>>
      [] i.op \in {"LI32", "LI64"} -> <<X("li", r, r, IF i.op = "LI32" THEN 4 ELSE 8, i.imm)>>
      [] i.op = "PTR_TO_LOCALS" -> <<X("lea", r, "BP", 8, i.imm)>>
      [] i.op = "PTR_TO_PARAMS" -> <<X("lea", r, "BP", 8, i.imm + FRAME_SIZE)>>
ForwardLoad ==
    /\ Forward({"MOV_RM", "GET_PARAM", "GET_VAL", "LI32", "LI64", "PTR_TO_LOCALS", "PTR_TO_PARAMS"})
    /\ LET m == Physical(Arrived, 1)
           g == Out(Arrived, 0) IN
       Later(Post(Post(Emit(g, Load64(Current, Physical(g, 0), m)), 0), 1))
ForwardStore ==
    /\ Forward({"MOV_MR", "SET_ARG", "SET_RET"})
    /\ LET i == Current
           g == Arrived
           text == CASE i.op = "MOV_MR" -> X("store", Physical(g, 0), Physical(g, 1), i.size, i.imm)
                     [] i.op = "SET_ARG" -> X("store", "SP", Physical(g, 0), i.size, i.imm + Last(g.push_offsets))
                     [] i.op = "SET_RET" -> X("store", "BP", Physical(g, 0), i.size, i.imm) IN
       Later(Post(Post(Emit(g, <<text>>), 0), 1))
ForwardPush ==
    /\ Forward({"PUSH"})
    /\ LET g == EmitPush(Arrived, Physical(Arrived, 0)) IN
       Later(Post([g EXCEPT !.virtual_stack_pointer = @ - REGISTER_SIZE], 0))
ForwardPop ==
    /\ Forward({"POP"})
    /\ LET out == Out(Arrived, 0)
           g == EmitPop(out, Physical(out, 0)) IN
       Later(Post([g EXCEPT !.virtual_stack_pointer = @ + REGISTER_SIZE], 0))

-----------------------------------------------------------------------------
\* Operations of two registers.  Comparisons and the logical ones end with a
\* whole register that is 0 or 1, the others leave the bytes above the size.
Plain == (Arithmetic \ {"UMUL", "DIV", "MOD"}) \cup Comparisons \cup Logicals \cup Bitwises
PlainText(i, r, m) ==
    (IF i.op = "MUL" /\ i.size = 1 THEN <<X("movsx", r, r, 1, 0), X("movsx", m, m, 1, 0)>> ELSE <<>>)
    \o <<X(i.op, r, m, i.size, 0)>>
ForwardPlain ==
    /\ Forward(Plain)
    /\ LET i == Current
           same == i.op = "BXOR" /\ i.a = i.b
           g == IF same THEN Out(Arrived, 0) ELSE Arrived
           done == Post(Emit(g, PlainText(i, Physical(g, 0), IF same THEN Physical(g, 0) ELSE Physical(g, 1))), 0) IN
       Later(IF same THEN done ELSE Post(done, 1))

\* Multiplication and division take A and D: D is pushed when somebody else
\* uses it, the second operand moved when it is in D.  A remainder that is
\* negative has the divisor added to D.
NotPushed(g, r, busy, text) == Emit(g, text)
PushedAround(g, r, busy, text) ==
    IF busy THEN EmitPop(Emit(EmitPush(g, r), text), r) ELSE Emit(g, text)
NonNegative(size, r, divisor) == <<X("jge", r, r, size, 1), X("ADD", "D", divisor, size, 0)>>
Correction(i, r, divisor) == IF i.op = "MOD" /\ i.signed THEN NonNegative(i.size, r, divisor) ELSE <<>>
ForwardMulDiv ==
    /\ Forward({"UMUL", "DIV", "MOD"})
    /\ LET i == Current
           g == Arrived
           r0 == Physical(g, 0)
           r1 == Physical(g, 1)
           divisor == IF r1 = "D" THEN RESERVED_REG0 ELSE r1
           busy == r0 # "D" /\ r1 # "D" /\ "D" \in g.used
           result == IF i.op = "MOD" THEN "D" ELSE "A"
           text == <<X("mov", "A", r0, 8, 0), X(IF i.op = "UMUL" THEN "mul" ELSE "idiv", divisor, divisor, i.size, 0)>>
                   \o (IF r0 = result THEN <<>> ELSE <<X("mov", r0, result, 8, 0)>>)
                   \o (IF r1 = divisor THEN <<>> ELSE <<X("mov", r1, divisor, 8, 0)>>)
           moved == IF r1 = divisor THEN g ELSE Emit(g, <<X("mov", divisor, r1, 8, 0)>>) IN
       Later(Post(Post(Emit(PushedAround(moved, "D", busy, text), Correction(i, r0, divisor)), 0), 1))

\* Shifts take their count in C, which is saved when somebody uses it.
ShiftText(i, r) == <<X(i.op, r, "C", 8, 0)>>
ForwardShift ==
    /\ Forward(Shifts)
    /\ LET i == Current
           g == Arrived
           r0 == Physical(g, 0)
           r1 == Physical(g, 1)
           count == <<X("mov", "C", r1, 8, 0)>>
           shifted == IF r1 = "C" \/ "C" \notin g.used THEN Emit(g, ShiftText(i, r0))
                      ELSE IF r0 = "C" THEN
                          Emit(g, <<X("mov", RESERVED_REG0, "C", 8, 0)>> \o count
                                  \o ShiftText(i, RESERVED_REG0) \o <<X("mov", "C", RESERVED_REG0, 8, 0)>>)
                      ELSE PushedAround(g, "C", TRUE, count \o ShiftText(i, r0)) IN
       Later(Post(Post(shifted, 0), 1))

\* One operand, one result; a conversion extends from the size it comes from.
ConvertText(i, r, m) ==
    CASE i.op = "LNOT" -> <<X("sete", r, m, 8, 0)>>
      [] i.op = "BNOT" -> <<X("mov", r, m, 8, 0), X("not", r, r, 8, 0)>>
      [] i.op = "CAST" /\ i.size = 8 /\ i.imm = 8 -> IF r = m THEN <<>> ELSE <<X("mov", r, m, 8, 0)>>
      [] OTHER -> <<X("movsx", r, m, i.size, 0)>>
ForwardConvert ==
    /\ Forward({"LNOT", "BNOT", "CAST"})
    /\ LET m == Physical(Arrived, 1)
           g == Out(Arrived, 0) IN
       Later(Post(Post(Emit(g, ConvertText(Current, Physical(g, 0), m)), 0), 1))
ForwardIncrement ==
    /\ Forward({"INCR"})
    /\ Later(Post(Emit(Arrived, <<AddImm(Physical(Arrived, 0), Current.imm)>>), 0))

-----------------------------------------------------------------------------
\* Arguments, calls and the end of the function.
ArgsMisalignment(sp, imm) == (sp + imm) % FRAME_SIZE
ArgsUnpadded(imm, misalignment) == imm
ArgsSpace(imm, misalignment) == IF misalignment = 0 THEN imm ELSE imm + FRAME_SIZE - misalignment
ForwardAllocArgs ==
    /\ Forward({"ALLOC_ARGS"})
    /\ LET g == Arrived
           mis == ArgsMisalignment(g.virtual_stack_pointer, Current.imm) IN
       Later(EnterFrame([g EXCEPT !.misalignments = Append(@, mis)], ArgsSpace(Current.imm, mis)))
ForwardFreeArgs ==
    /\ Forward({"FREE_ARGS"})
    /\ LET g == Arrived IN
       Later(LeaveFrame([g EXCEPT !.misalignments = Front(@), !.push_offsets = Front(@)],
                        ArgsSpace(Current.imm, Last(g.misalignments))))
ForwardCall ==
    /\ Forward({"CALL"})
    /\ Later([Emit(Arrived, <<X("call", NoRegister, NoRegister, 8, Current.imm)>>) EXCEPT !.ret_offset = 0])
ForwardReturn ==
    /\ Forward({"RET"})
    /\ Later(Emit(EmitPop(LeaveFrame(Arrived, bytecode[x64.fn].frame_size), "BP"), <<X("ret", "SP", "SP", 8, 0)>>))

\* Jumps name an instruction of the bytecode until Relocate knows where it is.
TargetOf(i) == i + 1 + Code[i].imm
ForwardJumpIf ==
    /\ Forward({"JZ", "JNZ"})
    /\ LET jump == IF Current.op = "JZ" THEN "jz" ELSE "jnz"
           g == Emit(Arrived, <<X(jump, Physical(Arrived, 0), Physical(Arrived, 0), 8, TargetOf(x64.index))>>) IN
       Later(Post(PushMoment(g, TargetOf(x64.index)), 0))
Meets(g, i) == Code[i].imm > 0 /\ g.moments # <<>> /\ TargetOf(i) >= Last(g.moments).pop_at
ForwardJump ==
    /\ Forward({"JMP"})
    /\ LET g == Emit(Arrived, <<X("jmp", NoRegister, NoRegister, 8, TargetOf(x64.index))>>)
           popped == [g EXCEPT !.virtual_stack_pointer = Last(g.moments).sp, !.moments = Front(@)] IN
       Later(IF Meets(g, x64.index) THEN PushMoment(popped, TargetOf(x64.index)) ELSE g)

\* A jump to a deleted instruction goes to the next one that was emitted.
Place(target) ==
    LET after == {i \in DOMAIN x64.starts : i >= target} IN
    IF after = {} THEN Len(x64.text) + 1 ELSE x64.starts[Min(after)]
Relocated == [k \in DOMAIN x64.text |->
    IF x64.text[k].op \in {"jz", "jnz", "jmp"} THEN [x64.text[k] EXCEPT !.imm = Place(@)] ELSE x64.text[k]]
Relocate ==
    /\ x64.stage = "forward" /\ x64.index > Len(Code)
    /\ LET texts == Append(x64.texts, Relocated) IN
       x64' = IF x64.fn < Len(bytecode) THEN Begun(x64.fn + 1, bytecode[x64.fn + 1].code, texts)
              ELSE [x64 EXCEPT !.texts = texts, !.stage = "done"]

BuildStep ==
    \/ BackwardPop \/ BackwardPush \/ BackwardCast \/ BackwardEssential \/ BackwardOther
    \/ Prologue \/ SkipDeleted \/ ForwardLoad \/ ForwardStore \/ ForwardPush \/ ForwardPop
    \/ ForwardPlain \/ ForwardMulDiv \/ ForwardShift \/ ForwardConvert \/ ForwardIncrement
    \/ ForwardAllocArgs \/ ForwardFreeArgs \/ ForwardCall \/ ForwardReturn
    \/ ForwardJumpIf \/ ForwardJump \/ Relocate

BuilderInit ==
    /\ IsBytecode /\ bytecode # <<>>
    /\ x64 = Begun(1, bytecode[1].code, <<>>)
BuilderSpec == BuilderInit /\ [][BuildStep /\ UNCHANGED bytecode]_builderVars

-----------------------------------------------------------------------------
(***************************************************************************)
(* What keeps the values of a function apart.                              *)
(***************************************************************************)
\* Every pop finds its push again before a jump, and at the start of a function.
PushesPaired ==
    x64.stage = "backward" =>
        /\ (x64.index = 0 \/ Current.op = "JMP") => x64.push_list = <<>>
        /\ (x64.index > 0 /\ Current.op = "PUSH") => x64.push_list # <<>>

\* Registers that operands were given: none is used before it was allocated or
\* after it was freed ("Register allocation failed?").
RegistersFound ==
    \A k \in DOMAIN x64.text : x64.text[k].op \notin {"call", "jmp"} => NoRegister \notin {x64.text[k].r, x64.text[k].m}

\* The builder is given what it expects of the generator, pushes and pops pair up
\* and every operand has a register (X64Builder::generate).
RegisterDiscipline == IsBytecode /\ PushesPaired /\ RegistersFound

\* Two values are never in one register, and what is in use has a value.
OneValueEach ==
    /\ \A k, l \in DOMAIN x64.artificial :
          k # l /\ x64.artificial[k].reg = x64.artificial[l].reg => x64.artificial[k].reg \in {NoRegister, "BP"}
    /\ \A r \in x64.used : \E k \in DOMAIN x64.artificial : x64.artificial[k].reg = r

\* No register holds a value across a call, which would destroy it, and none is
\* left allocated at the end of a function.
NothingHeld ==
    x64.stage = "forward" /\ (IF x64.index > Len(Code) THEN TRUE ELSE Current.op = "CALL") => x64.used = {}

\* Live values are kept in registers of their own, and never across a call
\* (alloc_register, free_artifical, clear_register_map).
RegistersApart == OneValueEach /\ NothingHeld
=============================================================================
