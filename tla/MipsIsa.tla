------------------------------ MODULE MipsIsa -------------------------------
(***************************************************************************)
(* What a program may expect of the CPU, its registers and its program     *)
(* counter alone: every instruction writes the register it names and is    *)
(* followed by the one it leads to, $zero is zero, and a branch on a       *)
(* coprocessor is taken, or not, once.                                     *)
(*                                                                         *)
(* A branch that is taken, on a coprocessor too, leads to its offset from  *)
(* the next instruction, pc + 4 + Offset.  isa.tex (625, 651, 677, 703,    *)
(* 730) has PC + Offset for those of the RPU.  MIPS, the CPU (cpu.cpp:877) *)
(* and the assembler (PCSpim.log:119: a branch to itself has offset -1) do *)
(* not, and this module is on their side.                                  *)
(*                                                                         *)
(* An instruction is a record: op, the register rd it writes, the          *)
(* registers rs and rt it reads, and imm: the 16 bits of its immediate or   *)
(* offset, or its target.                                                  *)
(***************************************************************************)
EXTENDS Integers

CONSTANTS
  Programs,  \* functions from addresses to instructions
  Start,     \* _start_addr
  ExitAddr,  \* _exit_addr, the last instruction executed
  Data,      \* values that loads and coprocessors give
  Ccs        \* values of the floating-point condition code

VARIABLES
  prog, pc,
  w,    \* the general registers
  cc,   \* the floating-point condition code
  on    \* the CPU runs

miVars == <<prog, pc, w, cc, on>>

Exit == 10 \* SYSCALL_EXIT
Regs == {"zero", "v0", "ra"}
Nop  == [op |-> "ALU", rd |-> "zero", rs |-> "zero", rt |-> "zero", imm |-> 0]
Ir   == IF pc \in DOMAIN prog THEN prog[pc] ELSE Nop

MIInit ==
  /\ prog \in Programs /\ pc = Start
  /\ w = [r \in Regs |-> 0]
  /\ cc \in Ccs /\ on = TRUE

Does(ops) == on /\ Ir.op \in ops /\ UNCHANGED prog

\* The CPU has a limit of instructions: a program may be cut off after any one.
GoTo(a) ==
  IF pc = ExitAddr THEN ~on' /\ UNCHANGED pc
  ELSE on' \in BOOLEAN /\ pc' = a

NextPc  == GoTo(pc + 4)
Write(r, v) == w' = IF r = "zero" THEN w ELSE [w EXCEPT ![r] = v]
Keeps   == UNCHANGED w

\* A field of so many values as a signed number.
Signed(field, values) == IF field >= values \div 2 THEN field - values ELSE field
Immd   == Signed(Ir.imm, 65536)
Offset == 4 * Immd

Alu    == Does({"ALU"}) /\ Write(Ir.rd, w[Ir.rs]) /\ NextPc /\ UNCHANGED cc
Immediate ==
  /\ Does({"ADDI", "SLTI", "ORI"}) /\ NextPc /\ UNCHANGED cc
  /\ Write(Ir.rd, CASE Ir.op = "ADDI" -> w[Ir.rs] + Immd
                    [] Ir.op = "SLTI" -> IF w[Ir.rs] < Immd THEN 1 ELSE 0
                    [] Ir.op = "ORI" -> Ir.imm)
\* What a narrow load may make of a field of so many values: its signed number if
\* its top four bits are alike.  Of the others a program can expect the field, but
\* not its sign, which the code looks for below the top bit (cpu.cpp:625, 659).
Extensions(field, values) ==
  IF field \div (values \div 16) \in {0, 15} THEN {Signed(field, values)}
  ELSE {field, field - values}
Narrow == /\ Does({"LB", "LH"}) /\ NextPc /\ UNCHANGED cc
          /\ LET n == IF Ir.op = "LB" THEN 256 ELSE 65536
             IN \/ \E v \in Data : \E x \in Extensions(v % n, n) : Write(Ir.rd, x)
                \/ Ir.op = "LH" /\ Keeps
Movn   == /\ Does({"MOVN"}) /\ NextPc /\ UNCHANGED cc
          /\ IF w[Ir.rt] # 0 THEN Write(Ir.rd, w[Ir.rs]) ELSE Keeps
Movf   == /\ Does({"MOVF"}) /\ NextPc /\ UNCHANGED cc
          /\ IF cc = 0 THEN Write(Ir.rd, w[Ir.rs]) ELSE Keeps
Fetch  == /\ Does({"LW", "MFC1", "MFC2"}) /\ NextPc /\ UNCHANGED cc
          /\ Keeps \/ \E v \in Data : Write(Ir.rd, v)
Quiet  == Does({"DIV", "SIDE", "COP1", "COP2"}) /\ Keeps /\ NextPc /\ UNCHANGED cc
Cmp    == Does({"CMP"}) /\ Keeps /\ NextPc /\ cc' \in {0, 1}
Branch == /\ Does({"BNE"}) /\ Keeps /\ UNCHANGED cc
          /\ GoTo(pc + 4 + IF w[Ir.rs] # w[Ir.rt] THEN Offset ELSE 0)
Link   == /\ Does({"BGEZAL"}) /\ UNCHANGED cc
          /\ IF w[Ir.rs] >= 0 THEN Write("ra", pc + 4) /\ GoTo(pc + 4 + Offset)
             ELSE Keeps /\ NextPc
Bc1    == /\ Does({"BC1T", "BC1F"}) /\ Keeps /\ UNCHANGED cc
          /\ LET sense == IF Ir.op = "BC1T" THEN 1 ELSE 0
             IN GoTo(pc + 4 + IF cc = sense THEN Offset ELSE 0)
Bc2    == /\ Does({"BC2"}) /\ Keeps /\ UNCHANGED cc
          /\ \E off \in {0, Offset} : GoTo(pc + 4 + off)
Jump   == Does({"J"}) /\ Keeps /\ GoTo(Ir.imm) /\ UNCHANGED cc
Call   == Does({"JAL"}) /\ Write("ra", pc + 4) /\ GoTo(Ir.imm) /\ UNCHANGED cc
Return == Does({"JR"}) /\ Keeps /\ GoTo(w[Ir.rs]) /\ UNCHANGED cc
CallR  == Does({"JALR"}) /\ Write(Ir.rd, pc + 4) /\ GoTo(w[Ir.rs]) /\ UNCHANGED cc
System == /\ Does({"SYSCALL"}) /\ Keeps /\ NextPc /\ UNCHANGED cc
          /\ w["v0"] = Exit => ~on'

MINext ==
  \/ Alu \/ Immediate \/ Narrow \/ Movn \/ Movf \/ Fetch \/ Quiet \/ Cmp \/ Branch \/ Link \/ Bc1 \/ Bc2
  \/ Jump \/ Call \/ Return \/ CallR \/ System

MISpec == MIInit /\ [][MINext]_miVars
============================================================================
