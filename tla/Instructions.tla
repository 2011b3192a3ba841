---------------------------- MODULE Instructions ----------------------------
(***************************************************************************)
(* The instructions that the generator emits and that both the virtual     *)
(* machine and the x64 back end consume.                                   *)
(***************************************************************************)
EXTENDS Integers, Sequences, SequencesExt

REGISTER_SIZE == 8
FRAME_SIZE == 16        \* the return address and the saved base pointer

\* The registers the generator uses; BC_REG_LOCALS is the frame pointer.
GeneralRegisters == {"A", "B", "C", "D", "E", "F", "T0", "T1"}
BCRegister == GeneralRegisters \cup {"LOCALS", "INVALID"}

\* op0, op1, the size (of a cast: from) in bytes, signedness, the immediate (of
\* a cast: the size it converts to).  A jump counts whole instructions.
Inst(op, a, b, size, signed, imm) ==
    [op |-> op, a |-> a, b |-> b, size |-> size, signed |-> signed, imm |-> imm]
NoOperands(op, imm) == Inst(op, "INVALID", "INVALID", 8, FALSE, imm)
OnReg(op, a, imm) == Inst(op, a, "INVALID", 8, FALSE, imm)
OnRegs(op, a, b, size, signed) == Inst(op, a, b, size, signed, 0)

Arithmetic == {"ADD", "SUB", "MUL", "UMUL", "DIV", "MOD"}
Comparisons == {"EQ", "NEQ", "LT", "LTE", "GT", "GTE"}
Shifts == {"BLSHIFT", "BRSHIFT"}
Bitwises == {"BAND", "BOR", "BXOR"}
Logicals == {"LAND", "LOR"}
=============================================================================
