------------------------------- MODULE CpuCop -------------------------------
(***************************************************************************)
(* cpu::main (model/src/cpu.cpp) with the coprocessor side of its branches *)
(* (fp_cop.cpp, raim_cop.cpp): one action per class of instructions, each  *)
(* a whole turn of the loop from fetch to the update of the program        *)
(* counter.  What travels between the parts is res, the one local that     *)
(* every instruction, the write-back and the coprocessors' offsets share,  *)
(* and the branch flag that each coprocessor keeps.                        *)
(*                                                                         *)
(* An instruction's imm is the field of its word, 16 bits, extended the    *)
(* way the code does it; for jumps it is the target.                       *)
(*                                                                         *)
(* Abstracted: the arithmetic of two registers (ALU copies one), memory    *)
(* contents, and when COP2 stalls; exceptions are only logged.             *)
(***************************************************************************)
EXTENDS Integers

CONSTANTS
  Programs, Start, ExitAddr, MaxInstr, Data, Ccs,  \* as in MipsIsa
  PowerUpRes,  \* values of the uninitialised local res
  PowerUpBr    \* values of the uninitialised branch of raim_cop: [has, off]


VARIABLES
  prog, pc, w,
  res,    \* int32_t res
  cnt,    \* instr_cnt
  limit,  \* _max_instr_cnt, 1 once exit is called
  on,     \* the loop goes on
  cc,     \* fp_cop::_condition_code
  br1, br2  \* _has_next_pc_offset and _next_pc_offset of fp_cop and raim_cop

cpuVars == <<prog, pc, w, res, cnt, limit, on, cc, br1, br2>>

None == "none"
Exit == 10 \* SYSCALL_EXIT
Regs == {"zero", "v0", "ra"}

Typed(i)  == {i.rd, i.rs, i.rt} \subseteq Regs /\ i.imm \in Nat
Branches  == [has : BOOLEAN, off : Int]

ASSUME CpuAssumption ==
  /\ MaxInstr \in Nat \ {0} /\ ExitAddr \in Nat /\ Start \in Nat
  /\ \A p \in Programs : \A a \in DOMAIN p : Typed(p[a])
  /\ Data \subseteq Nat /\ PowerUpRes \subseteq Int /\ PowerUpBr \subseteq Branches

\* The word 0 that memory gives for an address it does not hold.
Nop == [op |-> "ALU", rd |-> "zero", rs |-> "zero", rt |-> "zero", imm |-> 0]
Ir  == IF pc \in DOMAIN prog THEN prog[pc] ELSE Nop

Init ==
  /\ prog \in Programs /\ pc = Start
  /\ w = [r \in Regs |-> 0]
  /\ res \in PowerUpRes /\ cnt = 0 /\ limit = MaxInstr /\ on = TRUE
  /\ cc \in Ccs
  /\ br1 = [has |-> FALSE, off |-> 0] /\ br2 \in PowerUpBr

----------------------------------------------------------------------------
(* The parts of a turn.                                                    *)

\* sign_extend_immd, and the sign extension of LB and LH: the sign of a field of
\* so many values is taken from the three bits below its top bit.
Extended(field, values) ==
  IF (field \div (values \div 16)) % 8 # 0 THEN field - values ELSE field

\* The immediate, and the offset of a branch in bytes.
Immd   == Extended(Ir.imm, 65536)
Offset == 4 * Immd

Does(ops) == on /\ Ir.op \in ops /\ UNCHANGED prog

\* WRITE-BACK: dst_reg_idx and res over what the instruction wrote itself.
WriteBack(regs, dst, r) == w' = IF dst = None THEN regs ELSE [regs EXCEPT ![dst] = r]

\* Mutant: the reader leaves the flag up, as fp_cop's does.
ConsumedNever(b) == b

\* raim_cop::get_next_pc_offset clears the flag that it returns.
Consumed(b) == [b EXCEPT !.has = FALSE]

\* Mutant: one instruction too many.
GoesPast(n, max) == n <= max

Goes(n, max) == max = 0 \/ n < max

\* "update PC": COP1 is asked first, and each one asked leaves its offset in
\* res; COP2 is asked only when COP1 has no branch.
UpdatePc(next, r, b1, b2) ==
  IF pc = ExitAddr
  THEN on' = FALSE /\ res' = r /\ br1' = b1 /\ br2' = b2 /\ UNCHANGED <<pc, cnt>>
  ELSE /\ pc' = IF b1.has THEN pc + b1.off + 4
                ELSE IF b2.has THEN pc + b2.off + 4 ELSE next
       /\ res' = IF b1.has THEN b1.off ELSE b2.off
       /\ br1' = b1
       /\ br2' = IF b1.has THEN b2 ELSE Consumed(b2)
       /\ cnt' = cnt + 1
       /\ on' = Goes(cnt + 1, limit')

\* What most instructions do: a result or none, and on to the next one.
Result(dst, r) ==
  UNCHANGED <<cc, limit>> /\ WriteBack(w, dst, r) /\ UpdatePc(pc + 4, r, br1, br2)
NoResult == Result(None, res)
JumpTo(regs, dst, a) ==
  UNCHANGED <<cc, limit>> /\ WriteBack(regs, dst, res) /\ UpdatePc(a, res, br1, br2)

----------------------------------------------------------------------------
(* Integer instructions.                                                   *)

Alu  == Does({"ALU"}) /\ Result(Ir.rd, w[Ir.rs])
Addi == Does({"ADDI"}) /\ Result(Ir.rd, w[Ir.rs] + Immd)
Slti == Does({"SLTI"}) /\ Result(Ir.rd, IF w[Ir.rs] < Immd THEN 1 ELSE 0)
\* zero_extend_immd; with $zero, ORI and XORI alike.
Ori  == Does({"ORI"}) /\ Ir.rs = "zero" /\ Result(Ir.rd, Ir.imm)
Movn == Does({"MOVN"}) /\ IF w[Ir.rt] # 0 THEN Result(Ir.rd, w[Ir.rs]) ELSE NoResult
Movf == Does({"MOVF"}) /\ IF cc = 0 THEN Result(Ir.rd, w[Ir.rs]) ELSE NoResult

\* DIV, DIVU, BREAK and the traps leave dst_reg_idx at the rd of their format.
Div == Does({"DIV"}) /\ Result(Ir.rd, res)

\* An unaligned address is an exception and nothing else.
Load == Does({"LW"}) /\ (NoResult \/ \E v \in Data : Result(Ir.rd, v))
\* LB of any lane, and LH, which minds an odd address.
LoadByte == Does({"LB"}) /\ \E v \in Data : Result(Ir.rd, Extended(v % 256, 256))
LoadHalf == /\ Does({"LH"})
            /\ NoResult \/ \E v \in Data : Result(Ir.rd, Extended(v % 65536, 65536))

\* Stores, loads of a coprocessor, MULT, MTHI, MTLO.
Side == Does({"SIDE"}) /\ NoResult

Bne  == /\ Does({"BNE"})
        /\ JumpTo(w, None, IF w[Ir.rs] # w[Ir.rt] THEN pc + Offset + 4 ELSE pc + 4)
\* The branches that link do so only when they are taken.
Bgezal ==
  /\ Does({"BGEZAL"})
  /\ IF w[Ir.rs] >= 0 THEN JumpTo([w EXCEPT !["ra"] = pc + 4], None, pc + Offset + 4)
     ELSE NoResult
J    == Does({"J"}) /\ JumpTo(w, None, Ir.imm)
Jal  == Does({"JAL"}) /\ JumpTo([w EXCEPT !["ra"] = pc + 4], None, Ir.imm)

\* The SPECIAL jumps keep dst_reg_idx = rd.
Jr   == Does({"JR"}) /\ JumpTo(w, Ir.rd, w[Ir.rs])
Jalr == Does({"JALR"}) /\ JumpTo([w EXCEPT ![Ir.rd] = pc + 4], Ir.rd, w[Ir.rs])

Syscall ==
  /\ Does({"SYSCALL"})
  /\ limit' = IF w["v0"] = Exit THEN 1 ELSE limit
  /\ WriteBack(w, None, res) /\ UpdatePc(pc + 4, res, br1, br2) /\ UNCHANGED cc

----------------------------------------------------------------------------
(* Coprocessor instructions.                                               *)

\* fp_cop::execute lowers its flag first.
Cop1(dst, r, b) ==
  UNCHANGED limit /\ WriteBack(w, dst, r) /\ UpdatePc(pc + 4, r, b, br2)

Lowered == [br1 EXCEPT !.has = FALSE]

\* A condition code that was never written is neither true nor false.
Bc1 ==
  /\ Does({"BC1T", "BC1F"})
  /\ LET sense == IF Ir.op = "BC1T" THEN 1 ELSE 0
     IN Cop1(None, res, [has |-> cc = sense, off |-> Offset])
  /\ UNCHANGED cc
Cmp   == Does({"CMP"}) /\ Cop1(None, res, Lowered) /\ cc' \in {0, 1}
Fpu   == Does({"COP1"}) /\ Cop1(None, res, Lowered) /\ UNCHANGED cc
Mfc1  == Does({"MFC1"}) /\ UNCHANGED cc /\ \E v \in Data : Cop1(Ir.rd, v, Lowered)

\* The flags that BC2 looks at are the RPU's own affair.
Bc2 ==
  /\ Does({"BC2"}) /\ UNCHANGED <<cc, limit>>
  /\ WriteBack(w, None, res)
  /\ \E has \in BOOLEAN : UpdatePc(pc + 4, res, br1, [has |-> has, off |-> Offset])

Cop2 == Does({"COP2"}) /\ NoResult
Mfc2 == Does({"MFC2"}) /\ (NoResult \/ \E v \in Data : Result(Ir.rd, v))

Next ==
  \/ Alu \/ Addi \/ Slti \/ Ori \/ Movn \/ Movf \/ Div
  \/ Load \/ LoadByte \/ LoadHalf \/ Side
  \/ Bne \/ Bgezal \/ J \/ Jal \/ Jr \/ Jalr \/ Syscall
  \/ Bc1 \/ Cmp \/ Fpu \/ Mfc1 \/ Bc2 \/ Cop2 \/ Mfc2

Spec == Init /\ [][Next]_cpuVars

----------------------------------------------------------------------------
(* The rules that a program for this CPU has to keep, each forced by the   *)
(* code: it starts with an instruction that does not jump, as the branch   *)
(* flag of the RPU has no initial value; a taken BC1 leads to another COP1 *)
(* instruction, where its flag is lowered; it has no branch of a           *)
(* coprocessor together with an instruction that writes back a stale res;  *)
(* no result is for $zero, which nothing keeps zero; and the sign of an    *)
(* immediate is plain.                                                     *)

Cop1Branches == {"BC1T", "BC1F"}
Cop1Ops == Cop1Branches \cup {"CMP", "COP1", "MFC1"}
Jumping == {"BNE", "BGEZAL", "J", "JAL", "BC2"} \cup Cop1Branches
Stale   == {"DIV", "JR", "JALR"}  \* they write back the res of an earlier one
Writing == {"ALU", "ADDI", "SLTI", "ORI", "MOVN", "MOVF", "LW", "LB", "LH",
            "MFC1", "MFC2"}

At(p, a) == IF a \in DOMAIN p THEN p[a] ELSE Nop

\* The top bit of the field and the three below it are alike.
SignPlain(field, values) ==
  field < values /\ field \div (values \div 16) \in {0, 15}

WordOK(i) ==
  /\ i.op \notin {"ORI", "J", "JAL"} => SignPlain(i.imm, 65536)
  /\ i.op \in Writing /\ i.rd = "zero" => i.op = "ALU" /\ i.rs = "zero"
  /\ i.op \in Stale => i.rd = "zero"

NoCopBranch(p) == \A a \in DOMAIN p : p[a].op \notin Cop1Branches \cup {"BC2"}

ProgramOK(p) ==
  /\ At(p, Start).op \notin Jumping \cup Stale
  /\ \A a \in DOMAIN p :
       /\ WordOK(p[a])
       /\ p[a].op \in Cop1Branches =>
            At(p, a + 4 * Extended(p[a].imm, 65536) + 4).op \in Cop1Ops
  /\ NoCopBranch(p) \/ \A a \in DOMAIN p : p[a].op \notin Stale

RulesKept == \A p \in Programs : ProgramOK(p)

\* An assumption about a member that the code does not initialise
\* (raim_cop::_next_pc_offset): it powers up as 0, as in the recorded run, whether
\* the flag is up or not.  With another value the first instruction may lead
\* anywhere, and the value stays in res for those that write it back.
QuietBranch == \A b \in PowerUpBr : b.off = 0

----------------------------------------------------------------------------
(* Properties.                                                             *)

\* The locals and members keep their types, and the CPU never executes more
\* than _max_instr_cnt instructions, also when exit lowers the limit below
\* the count.
CpuTypeOK ==
  /\ pc \in Int /\ w \in [Regs -> Int] /\ res \in Int
  /\ limit \in {1, MaxInstr} /\ on \in BOOLEAN
  /\ cnt \in 0 .. MaxInstr /\ (on => cnt < MaxInstr)
  /\ br1 \in Branches /\ br2 \in Branches

Mips == INSTANCE MipsIsa

\* To a program the CPU is the machine of MipsIsa: no register is written and
\* no jump taken but what the instruction at pc says, whatever earlier
\* instructions left in res and in the two branch flags.  The target of a BC2
\* is that of cpu.cpp:877, four bytes past the one in isa.tex:625, and of the
\* bytes and halfwords that LB and LH extend wrongly the sign is left open.
ImplementsIsa == Mips!MISpec

\* Each instruction is followed by the one it leads to, a branch of COP1 or
\* COP2 only by its own instruction: "Get the offset for the next program
\* counter if the coprocessor has updated it" (cpu.h).
OffsetOnce ==
  [][Ir.op \in {"ADDI", "BNE", "J", "COP2", "BC2"} /\ pc # ExitAddr
       => pc' \in CASE Ir.op \in {"ADDI", "COP2"} -> {pc + 4}
                    [] Ir.op = "J" -> {Ir.imm}
                    [] OTHER -> {pc + 4, pc + 4 + Offset}]_cpuVars
============================================================================
