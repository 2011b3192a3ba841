--------------------------- MODULE VirtualMachine ---------------------------
(***************************************************************************)
(* VirtualMachine::execute: one step per bytecode instruction.  vm is its  *)
(* VMState, with the stack memory that it works on.                        *)
(***************************************************************************)
EXTENDS Bytecode

VARIABLES bytecode,     \* the functions, as sequences of instructions
          vm

\* What CALL saves: the place to return to, in one word.
Encoded(index, pc) == index * 65536 + pc

\* init_frame and deinit_frame.
InitFrame(m, value) ==
    [m EXCEPT !.registers["LOCALS"] = Known(m.base_pointer), !.stack_pointer = @ - value,
              !.has_return_values = FALSE, !.ret_offset = 0]
DeinitKeepsReturns(m, value) == [m EXCEPT !.stack_pointer = @ + value]
DeinitFrame(m, value) ==
    [m EXCEPT !.stack_pointer = @ + value,
              !.ret_offset = IF m.has_return_values THEN @ - value ELSE @]

\* push_state, and what execute does before its loop.
Started(code, index) ==
    InitFrame([registers |-> [r \in BCRegister |-> Known(0)], memory |-> <<>>,
               stack_pointer |-> Top, base_pointer |-> Top, pc |-> 1, tiny_index |-> index,
               push_offsets |-> <<0>>, misalignments |-> <<>>, ret_offset |-> 0,
               has_return_values |-> FALSE, call_stack |-> 1, running |-> TRUE],
              code[index].frame_size)

Instruction == bytecode[vm.tiny_index].code[vm.pc]
Decoded(ops) == vm.running /\ Instruction.op \in ops
Register(m, r) == m.registers[r]
Advance(m) == [m EXCEPT !.pc = @ + 1]
SetRegister(m, r, x) == [m EXCEPT !.registers[r] = x]
Address(m, r, imm) == Register(m, r).v + imm
SignExtended(mem, at, size) == Known(Low(Load(mem, at, size), size))
AddLast(seq, n) == [seq EXCEPT ![Len(seq)] = @ + n]

-----------------------------------------------------------------------------
\* ALLOC_ARGS rounds what it allocates up until the stack is aligned, FREE_ARGS
\* frees the same amount.
Misalignment(sp, imm) == (sp + imm) % FRAME_SIZE
Padded(imm, misalignment) == IF misalignment = 0 THEN imm ELSE imm + FRAME_SIZE - misalignment

AllocArgs ==
    /\ Decoded({"ALLOC_ARGS"})
    /\ LET mis == Misalignment(vm.stack_pointer, Instruction.imm) IN
       vm' = Advance(InitFrame([vm EXCEPT !.push_offsets = Append(@, 0), !.misalignments = Append(@, mis)],
                               Padded(Instruction.imm, mis)))
FreeArgs ==
    /\ Decoded({"FREE_ARGS"})
    /\ vm' = Advance(DeinitFrame([vm EXCEPT !.push_offsets = Front(@), !.misalignments = Front(@)],
                                 Padded(Instruction.imm, Last(vm.misalignments))))

\* Memory; a load clears the bytes it does not fill.
MovRM ==
    /\ Decoded({"MOV_RM"})
    /\ LET i == Instruction
           x == Load(vm.memory, Address(vm, i.b, i.imm), i.size) IN
       vm' = Advance(SetRegister(vm, i.a, ZeroExtended(Low(x, i.size), i.size)))
MovMR ==
    /\ Decoded({"MOV_MR"})
    /\ LET i == Instruction IN
       vm' = Advance([vm EXCEPT !.memory = Store(@, Address(vm, i.a, i.imm), i.size, Register(vm, i.b))])
SetArg ==
    /\ Decoded({"SET_ARG"})
    /\ LET i == Instruction IN
       vm' = Advance([vm EXCEPT !.memory = Store(@, vm.stack_pointer + Last(vm.push_offsets) + i.imm,
                                                 i.size, Register(vm, i.a))])
GetParam ==
    /\ Decoded({"GET_PARAM"})
    /\ LET i == Instruction IN
       vm' = Advance(SetRegister(vm, i.a, SignExtended(vm.memory, vm.base_pointer + FRAME_SIZE + i.imm, i.size)))
SetRet ==
    /\ Decoded({"SET_RET"})
    /\ LET i == Instruction IN
       vm' = Advance([vm EXCEPT !.memory = Store(@, vm.base_pointer + i.imm, i.size, Register(vm, i.a))])
GetVal ==
    /\ Decoded({"GET_VAL"})
    /\ LET i == Instruction
           at == vm.stack_pointer + vm.ret_offset + i.imm - FRAME_SIZE IN
       vm' = Advance(SetRegister(vm, i.a, SignExtended(vm.memory, at, i.size)))
PointerTo ==
    /\ Decoded({"PTR_TO_LOCALS", "PTR_TO_PARAMS"})
    /\ LET i == Instruction IN
       vm' = Advance(SetRegister(vm, i.a,
                IF i.op = "PTR_TO_LOCALS" THEN Known(Address(vm, "LOCALS", i.imm))
                                          ELSE Known(vm.base_pointer + FRAME_SIZE + i.imm)))

PushRegister ==
    /\ Decoded({"PUSH"})
    /\ LET sp == vm.stack_pointer - REGISTER_SIZE IN
       vm' = Advance([vm EXCEPT !.stack_pointer = sp, !.memory = Store(@, sp, 8, Register(vm, Instruction.a)),
                                !.push_offsets = AddLast(@, REGISTER_SIZE), !.ret_offset = @ + REGISTER_SIZE])
PopRegister ==
    /\ Decoded({"POP"})
    /\ vm' = Advance([vm EXCEPT !.registers[Instruction.a] = Load(vm.memory, vm.stack_pointer, 8),
                                !.stack_pointer = @ + REGISTER_SIZE,
                                !.push_offsets = AddLast(@, -REGISTER_SIZE), !.ret_offset = @ - REGISTER_SIZE])
LoadImmediate ==
    /\ Decoded({"LI32", "LI64"})
    /\ LET i == Instruction IN
       vm' = Advance(SetRegister(vm, i.a, ZeroExtended(i.imm, IF i.op = "LI32" THEN 4 ELSE 8)))

-----------------------------------------------------------------------------
Incremented(x, n) == IF x.v = NoValue THEN x ELSE [x EXCEPT !.v = @ + n]
Converted(x, fsize, tsize) ==
    LET v == Low(x, fsize) IN
    ZeroExtended(IF tsize = 1 /\ v # NoValue THEN Signed8(v) ELSE v, tsize)
\* Arithmetic works on the operands' size, the rest on whole registers; the
\* bytes above the size are cleared, also those of the result of &&.
Result(i, x, y) ==
    LET lx == Low(x, i.size)
        ly == Low(y, i.size) IN
    CASE i.op = "MOD" ->
            (LET t == IF NoValue \in {lx, ly} \/ ly = 0 THEN NoValue ELSE Remainder(lx, ly) IN
             ZeroExtended(IF t # NoValue /\ t < 0 THEN t + ly ELSE t, i.size))
      [] i.op \in Logicals -> ZeroExtended(Logical(i.op, x, y), i.size)
      [] i.op = "LNOT" -> ZeroExtended(Negated(y), i.size)
      [] i.op = "BNOT" -> ZeroExtended(IF ly = NoValue THEN NoValue ELSE -1 - ly, i.size)
      [] i.op = "BXOR" /\ i.a = i.b -> Known(0)
      [] i.op \in Shifts -> ZeroExtended(LET v == Compute(i.op, Low(x, 8), Low(y, 8)) IN
                                         IF i.size = 1 /\ v # NoValue THEN Signed8(v) ELSE v, i.size)
      [] OTHER -> ZeroExtended(Compute(i.op, lx, ly), i.size)

Operate ==
    /\ Decoded(Arithmetic \cup Comparisons \cup Logicals \cup Shifts \cup Bitwises \cup {"LNOT", "BNOT"})
    /\ LET i == Instruction IN
       vm' = Advance(SetRegister(vm, i.a, Result(i, Register(vm, i.a), Register(vm, i.b))))
Cast ==
    /\ Decoded({"CAST"})
    /\ LET i == Instruction IN
       vm' = Advance(SetRegister(vm, i.a, Converted(Register(vm, i.b), i.size, i.imm)))
Increment ==
    /\ Decoded({"INCR"})
    /\ LET i == Instruction IN
       vm' = Advance(SetRegister(vm, i.a, Incremented(Register(vm, i.a), i.imm)))

-----------------------------------------------------------------------------
JumpTo == Decoded({"JMP"}) /\ vm' = [vm EXCEPT !.pc = @ + 1 + Instruction.imm]
\* A register that is not known to be zero or not may go either way.
JumpIf ==
    /\ Decoded({"JZ", "JNZ"})
    /\ \E zero \in BOOLEAN :
        /\ Truth(Register(vm, Instruction.a)) # (IF zero THEN "true" ELSE "false")
        /\ vm' = [vm EXCEPT !.pc = @ + 1 + (IF zero = (Instruction.op = "JZ") THEN Instruction.imm ELSE 0)]

Call ==
    /\ Decoded({"CALL"})
    /\ LET sp == vm.stack_pointer - 2 * REGISTER_SIZE
           saved == Store(Store(vm.memory, sp + REGISTER_SIZE, 8, Known(Encoded(vm.tiny_index, vm.pc + 1))),
                          sp, 8, Known(vm.base_pointer)) IN
       vm' = InitFrame([vm EXCEPT !.memory = saved, !.stack_pointer = sp, !.base_pointer = sp,
                                  !.call_stack = @ + 1, !.pc = 1, !.tiny_index = Instruction.imm],
                       bytecode[Instruction.imm].frame_size)

\* The last function to return ends the machine and leaves its values below the
\* stack pointer.
Return ==
    /\ Decoded({"RET"})
    /\ LET m == DeinitFrame([vm EXCEPT !.call_stack = @ - 1], bytecode[vm.tiny_index].frame_size)
           base == Load(m.memory, m.stack_pointer, 8).v
           encoded == Load(m.memory, m.stack_pointer + REGISTER_SIZE, 8).v IN
       vm' = IF m.call_stack = 0 THEN [m EXCEPT !.running = FALSE]
             ELSE [m EXCEPT !.base_pointer = base, !.stack_pointer = @ + 2 * REGISTER_SIZE,
                            !.registers["LOCALS"] = Known(base), !.has_return_values = TRUE, !.ret_offset = 0,
                            !.pc = encoded % 65536, !.tiny_index = encoded \div 65536]

Step == \/ AllocArgs \/ FreeArgs \/ MovRM \/ MovMR \/ SetArg \/ GetParam \/ SetRet \/ GetVal
        \/ PointerTo \/ PushRegister \/ PopRegister \/ LoadImmediate \/ Operate \/ Cast \/ Increment
        \/ JumpTo \/ JumpIf \/ Call \/ Return

=============================================================================
