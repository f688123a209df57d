------------------------------- MODULE MCCpu -------------------------------
(***************************************************************************)
(* Programs of three instructions for CpuCop.                              *)
(***************************************************************************)
EXTENDS CpuCop

I(op, rd, rs, rt, imm) == [op |-> op, rd |-> rd, rs |-> rs, rt |-> rt, imm |-> imm]

\* The fields of a few immediates.  OneK and Top are two of those whose sign the
\* code gets wrong.
MinusTwo == 65534
MinusTen == 65526
OneK     == 4096
Top      == 32768

Branches2 == {I("BC2", "zero", "zero", "zero", MinusTwo)}
Branches1 == {I(op, "zero", "zero", "zero", MinusTwo) : op \in {"BC1T", "BC1F"}}
Specials  == {I("DIV", "zero", "v0", "ra", 0), I("JR", "zero", "ra", "zero", 0),
              I("JALR", "zero", "ra", "zero", 0)}
Straight  == {I("ADDI", "v0", "zero", "zero", v) : v \in {Exit, OneK, Top}}
               \cup {I("ADDI", "v0", "v0", "zero", MinusTen), I("ALU", "v0", "ra", "zero", 0),
                     I("SLTI", "v0", "v0", "zero", MinusTwo), I("ORI", "v0", "zero", "zero", Top),
                     I("MOVN", "v0", "ra", "v0", 0), I("MOVF", "v0", "ra", "zero", 0),
                     I("SIDE", "zero", "zero", "zero", 0),
                     I("COP2", "zero", "zero", "zero", 0), I("MFC2", "v0", "zero", "zero", 0)}
               \cup {I(op, "v0", "zero", "zero", 0) : op \in {"LW", "LB", "LH"}}
Fp        == {I("CMP", "zero", "zero", "zero", 0), I("COP1", "zero", "zero", "zero", 0),
              I("MFC1", "v0", "zero", "zero", 0)}
Jumps     == {I("BNE", "zero", "v0", "zero", MinusTwo), I("BGEZAL", "zero", "v0", "zero", MinusTwo),
              I("J", "zero", "zero", "zero", 4), I("JAL", "ra", "zero", "zero", 4),
              I("SYSCALL", "zero", "zero", "zero", 0)}

Places   == {4, 8, 12}
OnPlaces(instrs) == [Places -> instrs]

\* Every program of three instructions that keeps the rules.
Coded == {p \in OnPlaces(Straight \cup Fp \cup Jumps \cup Branches1 \cup Branches2 \cup Specials) :
            ProgramOK(p)}

FpLoops == OnPlaces(Fp \cup Branches1 \cup {I("ADDI", "v0", "zero", "zero", Exit)})

\* What memory and the coprocessors give.  LB and LH extend the last two wrongly,
\* one of them up and the other one down.
Values     == {0, 3, 65535, 4112, 32896}
AnyRes     == {0, 7}
Quiet      == {[has |-> FALSE, off |-> 0]}
\* The flag of the recorded run was up, with offset 0 (out.log, line 4).
AsRecorded == [has : BOOLEAN, off : {0}]
============================================================================
