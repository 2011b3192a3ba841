------------------------------ MODULE Machine ------------------------------
(***************************************************************************)
(* The two ways in which the compiler runs a program: the virtual machine  *)
(* executes the bytecode, and X64Builder turns the same bytecode into      *)
(* machine code that a processor executes.                                 *)
(*                                                                         *)
(* A program is [fns, values]: its functions as they are written, the      *)
(* first one being main, and the values that main is meant to return.      *)
(***************************************************************************)
EXTENDS Generator, X64Builder

CONSTANT Programs

VARIABLES program, vm, cpu     \* and those of X64Builder
vars == <<program, bytecode, vm, x64, cpu>>

Source == INSTANCE Parser
VM == INSTANCE VirtualMachine
Native == INSTANCE Processor WITH texts <- x64.texts

Init ==
    /\ program \in Programs
    /\ bytecode = Generate(Source!Parse(program.fns))
    /\ vm = VM!Started(bytecode, 1)
    /\ x64 = Begun(1, bytecode[1].code, <<>>)
    /\ cpu = Native!Running(1)

Interpret == VM!Step /\ UNCHANGED <<program, bytecode, x64, cpu>>
Compile == ~vm.running /\ BuildStep /\ UNCHANGED <<program, bytecode, vm, cpu>>
Execute == x64.stage = "done" /\ Native!ProcessorStep /\ UNCHANGED <<program, bytecode, vm, x64>>
Finished == ~cpu.running /\ UNCHANGED vars
Next == Interpret \/ Compile \/ Execute \/ Finished

\* Nobody else runs: as long as the program has not ended there is a next step
\* and it is taken.  This is WF_vars(Next) for a Next that is enabled until then.
Fairness == <>[](~cpu.running) \/ []<><<TRUE>>_vars
Spec == Init /\ [][Next]_vars /\ Fairness

-----------------------------------------------------------------------------
\* What main has returned, read the way GET_VAL reads it.
Main == program.fns[1]
Values(memory, sp) ==
    [k \in DOMAIN Main.rets |->
        Low(Load(memory, sp + RetAt(Main, k), SizeOf(Main.rets[k])), SizeOf(Main.rets[k]))]

\* The virtual machine returns what the program says and leaves the stack as it
\* was (VirtualMachine::execute).
ValuesOnVM ==
    ~vm.running => Values(vm.memory, Top) = program.values /\ vm.stack_pointer = Top

\* Compiled, the program returns the same values, with the caller's stack and
\* base pointer restored (X64Builder::generate).
ValuesNative ==
    ~cpu.running => /\ Values(cpu.memory, Top - FRAME_SIZE) = Values(vm.memory, Top)
                    /\ cpu.registers["SP"] = Known(Top)
                    /\ cpu.registers["BP"] = Native!OuterBase

\* Every call finds the stack aligned to 16 bytes, on the virtual machine (which
\* asserts it for the functions of libraries) and natively.
CallsAligned ==
    /\ vm.running /\ VM!Instruction.op = "CALL" => vm.stack_pointer % FRAME_SIZE = 0
    /\ x64.stage = "done" /\ cpu.running /\ Native!Fetched.op = "call" =>
            cpu.registers["SP"].v % FRAME_SIZE = 0

\* Every program ends, on the virtual machine and natively.
EveryProgramEnds == <>(~vm.running /\ ~cpu.running)
=============================================================================
