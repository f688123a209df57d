----------------------------- MODULE CpuProofs -----------------------------
(***************************************************************************)
(* Theorems about CpuCop, for every set of programs, limit and power-up    *)
(* value that the assumption admits.                                       *)
(***************************************************************************)
EXTENDS CpuCop, TLAPS

USE CpuAssumption

----------------------------------------------------------------------------
(* Type correctness.                                                       *)

TypeInv == CpuTypeOK /\ prog \in Programs

\* The word under the program counter is one of a program, or a nop.
LEMMA IrType ==
  ASSUME TypeInv
  PROVE  Typed(Ir)
<1>1. Typed(Nop)
  BY DEF Nop, Typed, Regs
<1> QED
  BY <1>1 DEF Ir, TypeInv

\* Sign extension stays in the integers, for immediates and narrow loads.
LEMMA ExtendedType ==
  /\ \A field \in Nat : Extended(field, 65536) \in Int
  /\ \A v \in Nat : Extended(v % 256, 256) \in Int
  /\ \A v \in Nat : Extended(v % 65536, 65536) \in Int
BY DEF Extended

\* The operands that cpu::main takes out of a word are numbers and registers.
LEMMA OffsetType ==
  ASSUME TypeInv
  PROVE  /\ Immd \in Int /\ Offset \in Int /\ Ir.imm \in Nat
         /\ Ir.rd \in Regs /\ Ir.rs \in Regs /\ Ir.rt \in Regs
         /\ w[Ir.rs] \in Int /\ w[Ir.rt] \in Int
<1>1. Ir.imm \in Nat /\ Ir.rd \in Regs /\ Ir.rs \in Regs /\ Ir.rt \in Regs
  BY IrType DEF Typed
<1>2. Immd \in Int
  BY <1>1, ExtendedType DEF Immd
<1>3. w \in [Regs -> Int]
  BY DEF TypeInv, CpuTypeOK
<1> QED
  BY <1>1, <1>2, <1>3 DEF Offset

\* The end of a turn: program counter, result and count keep their types, and
\* the loop ends at the limit, also when exit has just lowered it.
LEMMA UpdateType ==
  ASSUME TypeInv, on, NEW next \in Int, NEW r \in Int,
         NEW b1 \in Branches, NEW b2 \in Branches,
         limit' \in {1, MaxInstr}, UpdatePc(next, r, b1, b2)
  PROVE  /\ pc' \in Int /\ res' \in Int /\ on' \in BOOLEAN
         /\ cnt' \in 0 .. MaxInstr /\ (on' => cnt' < MaxInstr)
         /\ br1' \in Branches /\ br2' \in Branches
<1>1. pc \in Int /\ cnt \in 0 .. MaxInstr - 1
  BY DEF TypeInv, CpuTypeOK
<1>2. b1.off \in Int /\ b2.off \in Int /\ Consumed(b2) \in Branches
  BY DEF Branches, Consumed
<1>3. CASE pc = ExitAddr
  BY <1>1, <1>3 DEF UpdatePc, TypeInv, CpuTypeOK
<1>4. CASE pc # ExitAddr
  <2>1. /\ pc' = IF b1.has THEN pc + b1.off + 4
                 ELSE IF b2.has THEN pc + b2.off + 4 ELSE next
        /\ res' = IF b1.has THEN b1.off ELSE b2.off
        /\ br1' = b1 /\ br2' = IF b1.has THEN b2 ELSE Consumed(b2)
        /\ cnt' = cnt + 1 /\ on' = Goes(cnt + 1, limit')
    BY <1>4 DEF UpdatePc
  <2>2. pc' \in Int /\ res' \in Int
    BY <1>1, <1>2, <2>1
  <2>3. on' \in BOOLEAN /\ (on' => limit' = 0 \/ cnt' < limit')
    BY <2>1, Zenon DEF Goes
  <2>4. cnt' \in 0 .. MaxInstr /\ (on' => cnt' < MaxInstr)
    BY <1>1, <2>1, <2>3
  <2> QED
    BY <1>2, <2>1, <2>2, <2>3, <2>4
<1> QED
  BY <1>3, <1>4

\* The write-back keeps the registers numbers.
LEMMA WriteType ==
  ASSUME NEW regs \in [Regs -> Int], NEW dst \in Regs \cup {None}, NEW r \in Int,
         WriteBack(regs, dst, r)
  PROVE  w' \in [Regs -> Int]
BY DEF WriteBack

\* Every instruction keeps the types.
LEMMA NextCpuType ==
  ASSUME TypeInv, [Next]_cpuVars
  PROVE  TypeInv'
<1>t. /\ pc \in Int /\ w \in [Regs -> Int] /\ res \in Int
      /\ limit \in {1, MaxInstr} /\ br1 \in Branches /\ br2 \in Branches
      /\ prog \in Programs
  BY DEF TypeInv, CpuTypeOK
<1>i. /\ Immd \in Int /\ Offset \in Int /\ Ir.imm \in Nat
      /\ Ir.rd \in Regs /\ w[Ir.rs] \in Int
  BY OffsetType
<1>b. /\ Lowered \in Branches
      /\ \A has \in BOOLEAN : [has |-> has, off |-> Offset] \in Branches
  BY <1>t, <1>i DEF Lowered, Branches
<1>1. ASSUME on, UNCHANGED prog, limit' \in {1, MaxInstr},
             NEW regs \in [Regs -> Int], NEW dst \in Regs \cup {None},
             NEW r \in Int, NEW next \in Int,
             NEW b1 \in Branches, NEW b2 \in Branches,
             WriteBack(regs, dst, r), UpdatePc(next, r, b1, b2)
      PROVE  TypeInv'
  BY <1>1, <1>t, UpdateType, WriteType DEF TypeInv, CpuTypeOK
<1>2. ASSUME on, UNCHANGED prog, NEW dst \in Regs \cup {None}, NEW r \in Int,
             Result(dst, r)
      PROVE  TypeInv'
  BY <1>1, <1>2, <1>t DEF Result
<1>3. ASSUME on, UNCHANGED prog, NoResult PROVE TypeInv'
  BY <1>2, <1>3, <1>t DEF NoResult
<1>4. ASSUME on, UNCHANGED prog, NEW regs \in [Regs -> Int],
             NEW dst \in Regs \cup {None}, NEW a \in Int, JumpTo(regs, dst, a)
      PROVE  TypeInv'
  BY <1>1, <1>4, <1>t DEF JumpTo
<1>5. ASSUME on, UNCHANGED prog, NEW dst \in Regs \cup {None}, NEW r \in Int,
             NEW b \in Branches, Cop1(dst, r, b)
      PROVE  TypeInv'
  <2>1. /\ limit' \in {1, MaxInstr} /\ WriteBack(w, dst, r) /\ pc + 4 \in Int
        /\ UpdatePc(pc + 4, r, b, br2)
    BY <1>5, <1>t DEF Cop1
  <2> QED
    BY <1>1, <1>5, <1>t, <2>1
<1>6. CASE Alu \/ Addi \/ Slti \/ Ori \/ Movn \/ Movf \/ Div
  <2>1. CASE Alu
    BY <1>2, <1>i, <2>1 DEF Alu, Does
  <2>2. CASE Addi
    BY <1>2, <1>i, <2>2 DEF Addi, Does
  <2>3. CASE Slti
    BY <1>2, <1>i, <2>3 DEF Slti, Does
  <2>4. CASE Ori
    BY <1>2, <1>i, <2>4 DEF Ori, Does
  <2>5. CASE Movn
    BY <1>2, <1>3, <1>i, <2>5 DEF Movn, Does
  <2>6. CASE Movf
    BY <1>2, <1>3, <1>i, <2>6 DEF Movf, Does
  <2>7. CASE Div
    BY <1>2, <1>i, <1>t, <2>7 DEF Div, Does
  <2> QED
    BY <1>6, <2>1, <2>2, <2>3, <2>4, <2>5, <2>6, <2>7
<1>7. CASE Load \/ LoadByte \/ LoadHalf \/ Side
  <2>1. CASE Load
    BY <1>2, <1>3, <1>i, <2>1 DEF Load, Does
  <2>2. CASE LoadByte
    BY <1>2, <1>i, <2>2, ExtendedType DEF LoadByte, Does
  <2>3. CASE LoadHalf
    BY <1>2, <1>3, <1>i, <2>3, ExtendedType DEF LoadHalf, Does
  <2>4. CASE Side
    BY <1>3, <2>4 DEF Side, Does
  <2> QED
    BY <1>7, <2>1, <2>2, <2>3, <2>4
<1>8. CASE Bne \/ Bgezal \/ J \/ Jal \/ Jr \/ Jalr
  <2>1. pc + 4 \in Int /\ pc + Offset + 4 \in Int
    BY <1>t, <1>i
  <2>2. [w EXCEPT !["ra"] = pc + 4] \in [Regs -> Int]
          /\ [w EXCEPT ![Ir.rd] = pc + 4] \in [Regs -> Int]
    BY <1>t, <1>i, <2>1
  <2>3. CASE Bne
    BY <1>4, <1>t, <2>1, <2>3 DEF Bne, Does
  <2>4. CASE Bgezal
    BY <1>3, <1>4, <2>1, <2>2, <2>4 DEF Bgezal, Does
  <2>5. CASE J
    BY <1>4, <1>t, <1>i, <2>5 DEF J, Does
  <2>6. CASE Jal
    <3>1. on /\ UNCHANGED prog /\ JumpTo([w EXCEPT !["ra"] = pc + 4], None, Ir.imm)
      BY <2>6 DEF Jal, Does
    <3>2. Ir.imm \in Int
      BY <1>i
    <3> QED
      BY <1>4, <2>2, <3>1, <3>2
  <2>7. CASE Jr
    BY <1>4, <1>t, <1>i, <2>7 DEF Jr, Does
  <2>8. CASE Jalr
    BY <1>4, <1>i, <2>2, <2>8 DEF Jalr, Does
  <2> QED
    BY <1>8, <2>3, <2>4, <2>5, <2>6, <2>7, <2>8
<1>9. CASE Syscall
  <2>1. on /\ UNCHANGED prog /\ WriteBack(w, None, res)
          /\ UpdatePc(pc + 4, res, br1, br2) /\ pc + 4 \in Int
    BY <1>9, <1>t DEF Syscall, Does
  <2>2. limit' \in {1, MaxInstr}
    BY <1>9, <1>t DEF Syscall
  <2> QED
    BY <1>1, <1>t, <2>1, <2>2
<1>10. CASE Bc1 \/ Cmp \/ Fpu \/ Mfc1
  <2>1. CASE Bc1
    BY <1>5, <1>b, <1>t, <2>1 DEF Bc1, Does
  <2>2. CASE Cmp
    BY <1>5, <1>b, <1>t, <2>2 DEF Cmp, Does
  <2>3. CASE Fpu
    BY <1>5, <1>b, <1>t, <2>3 DEF Fpu, Does
  <2>4. CASE Mfc1
    BY <1>5, <1>b, <1>i, <2>4 DEF Mfc1, Does
  <2> QED
    BY <1>10, <2>1, <2>2, <2>3, <2>4
<1>11. CASE Bc2
  <2>1. PICK has \in BOOLEAN : UpdatePc(pc + 4, res, br1, [has |-> has, off |-> Offset])
    BY <1>11 DEF Bc2
  <2>2. on /\ UNCHANGED prog /\ limit' \in {1, MaxInstr} /\ WriteBack(w, None, res)
          /\ pc + 4 \in Int
    BY <1>11, <1>t DEF Bc2, Does
  <2> QED
    BY <1>1, <1>b, <1>t, <2>1, <2>2
<1>12. CASE Cop2 \/ Mfc2
  <2>1. CASE Cop2
    BY <1>3, <2>1 DEF Cop2, Does
  <2>2. CASE Mfc2
    <3>1. \A v \in Data : v \in Int
      OBVIOUS
    <3>2. on /\ UNCHANGED prog /\ (NoResult \/ \E v \in Data : Result(Ir.rd, v))
      BY <2>2 DEF Mfc2, Does
    <3> QED
      BY <1>2, <1>3, <1>i, <3>1, <3>2
  <2> QED
    BY <1>12, <2>1, <2>2
<1>13. CASE UNCHANGED cpuVars
  BY <1>13 DEF cpuVars, TypeInv, CpuTypeOK
<1> QED
  BY <1>6, <1>7, <1>8, <1>9, <1>10, <1>11, <1>12, <1>13 DEF Next

\* So does power-up, with any values.
LEMMA InitCpuType == Init => TypeInv
BY DEF Init, TypeInv, CpuTypeOK, Branches

\* The CPU's locals and members stay what they can hold, and it never executes
\* more than _max_instr_cnt instructions, whatever the program.
THEOREM CpuTypeHolds == Spec => []CpuTypeOK
<1>1. TypeInv => CpuTypeOK
  BY DEF TypeInv
<1>2. TypeInv /\ [Next]_cpuVars => TypeInv'
  BY NextCpuType
<1> QED
  BY <1>1, <1>2, InitCpuType, PTL DEF Spec

----------------------------------------------------------------------------
(* The CPU is the machine of MipsIsa for programs that keep the rules of   *)
(* ProgramOK.                                                              *)

\* What the flags of the coprocessors and res may hold between two turns.
FlagsInv ==
  /\ on => /\ br1.has => Ir.op \in Cop1Ops
           /\ cnt = 0 => pc = Start /\ ~br1.has /\ br2.off = 0
           /\ cnt > 0 => ~br2.has
  /\ NoCopBranch(prog) => /\ ~br1.has /\ br2.off = 0
                          /\ on /\ cnt > 0 => res = 0

IsaInv == TypeInv /\ w["zero"] = 0 /\ FlagsInv

\* Where the sign is plain the code finds it.
LEMMA SignRight ==
  \A field \in Nat : SignPlain(field, 65536)
    => Extended(field, 65536) = Mips!Signed(field, 65536)
BY DEF SignPlain, Extended, Mips!Signed

\* What LB and LH make of a field is one of its extensions.
LEMMA NarrowByte ==
  ASSUME NEW b \in Nat, b < 256
  PROVE  Extended(b, 256) \in Mips!Extensions(b, 256)
BY DEF Extended, Mips!Extensions, Mips!Signed

LEMMA NarrowHalf ==
  ASSUME NEW h \in Nat, h < 65536
  PROVE  Extended(h, 65536) \in Mips!Extensions(h, 65536)
<1>1. 65536 \div 16 = 4096 /\ Extended(h, 65536) \in {h, h - 65536}
  BY DEF Extended
<1>2. CASE h \div 4096 \notin {0, 15}
  BY <1>1, <1>2 DEF Mips!Extensions
<1>3. CASE h \div 4096 \in {0, 15}
  <2>1. SignPlain(h, 65536)
    BY <1>1, <1>3 DEF SignPlain
  <2> QED
    BY <1>1, <1>3, <2>1, SignRight DEF Mips!Extensions
<1> QED
  BY <1>2, <1>3

LEMMA NarrowRight ==
  ASSUME NEW v \in Nat
  PROVE  /\ Extended(v % 256, 256) \in Mips!Extensions(v % 256, 256)
         /\ Extended(v % 65536, 65536) \in Mips!Extensions(v % 65536, 65536)
<1>1. v % 256 \in Nat /\ v % 256 < 256
  OBVIOUS
<1>2. v % 65536 \in Nat /\ v % 65536 < 65536
  OBVIOUS
<1>3. Extended(v % 256, 256) \in Mips!Extensions(v % 256, 256)
  BY <1>1, NarrowByte
<1>4. Extended(v % 65536, 65536) \in Mips!Extensions(v % 65536, 65536)
  BY <1>2, NarrowHalf
<1> QED
  BY <1>3, <1>4

\* The instruction at pc keeps the rules, the word 0 included.
LEMMA IrRules ==
  ASSUME RulesKept, IsaInv
  PROVE  /\ WordOK(Ir) /\ Ir = At(prog, pc) /\ Ir = Mips!Ir
         /\ Ir.op \in Cop1Branches => At(prog, pc + Offset + 4).op \in Cop1Ops
         /\ Ir.op \in Stale => NoCopBranch(prog)
         /\ Ir.op \in Cop1Branches \cup {"BC2"} => ~NoCopBranch(prog)
<1>1. ProgramOK(prog) /\ pc \in Int
  BY DEF RulesKept, IsaInv, TypeInv, CpuTypeOK
<1>2. Ir = At(prog, pc) /\ Ir = Mips!Ir
  BY DEF Ir, At, Mips!Ir, Nop, Mips!Nop
<1>3. CASE pc \in DOMAIN prog
  <2>1. Ir = prog[pc]
    BY <1>3 DEF Ir
  <2>2. Ir.op \in Cop1Branches => At(prog, pc + Offset + 4).op \in Cop1Ops
    BY <1>1, <1>3, <2>1 DEF ProgramOK, Offset, Immd
  <2>3. WordOK(Ir) /\ (Ir.op \in Stale => NoCopBranch(prog))
          /\ (Ir.op \in Cop1Branches \cup {"BC2"} => ~NoCopBranch(prog))
    BY <1>1, <1>3, <2>1 DEF ProgramOK, NoCopBranch
  <2> QED
    BY <1>2, <2>2, <2>3
<1>4. CASE pc \notin DOMAIN prog
  <2>1. Ir = Nop
    BY <1>4 DEF Ir
  <2>2. SignPlain(0, 65536)
    BY DEF SignPlain
  <2>3. WordOK(Ir) /\ Ir.op = "ALU"
    BY <2>1, <2>2 DEF WordOK, Nop, Stale
  <2> QED
    BY <1>2, <2>3 DEF Cop1Branches, Stale
<1> QED
  BY <1>3, <1>4

\* The immediate and the offset of a word that is extended with its sign.
LEMMA ImmdRight ==
  ASSUME RulesKept, IsaInv, Ir.op \notin {"ORI", "J", "JAL"}
  PROVE  Immd = Mips!Immd /\ Offset = Mips!Offset
<1>1. SignPlain(Ir.imm, 65536) /\ Ir.imm \in Nat /\ Ir = Mips!Ir
  BY IrRules, IrType DEF WordOK, IsaInv, Typed
<1> QED
  BY <1>1, SignRight DEF Immd, Mips!Immd, Offset, Mips!Offset

\* The end of a turn is a step of the abstract program counter.
LEMMA UpdateGoes ==
  ASSUME TypeInv', NEW next, NEW r, NEW b1, NEW b2, UpdatePc(next, r, b1, b2)
  PROVE  Mips!GoTo(IF b1.has THEN pc + b1.off + 4
                  ELSE IF b2.has THEN pc + b2.off + 4 ELSE next)
BY DEF UpdatePc, Mips!GoTo, TypeInv, CpuTypeOK

\* ... and leaves the flags in order if the instruction did.
LEMMA UpdateFlags ==
  ASSUME IsaInv, on, UNCHANGED prog, NEW next, NEW r,
         NEW b1 \in Branches, NEW b2 \in Branches, UpdatePc(next, r, b1, b2),
         b1.has => ~b2.has /\ At(prog, pc + b1.off + 4).op \in Cop1Ops,
         NoCopBranch(prog) => ~b1.has /\ b2.off = 0
  PROVE  FlagsInv'
<1>1. cnt \in Nat
  BY DEF IsaInv, TypeInv, CpuTypeOK
<1>2. CASE pc = ExitAddr
  BY <1>2 DEF UpdatePc, FlagsInv, NoCopBranch
<1>3. CASE pc # ExitAddr
  <2>1. /\ pc' = IF b1.has THEN pc + b1.off + 4
                 ELSE IF b2.has THEN pc + b2.off + 4 ELSE next
        /\ res' = IF b1.has THEN b1.off ELSE b2.off
        /\ br1' = b1 /\ br2' = IF b1.has THEN b2 ELSE Consumed(b2)
        /\ cnt' = cnt + 1
    BY <1>3 DEF UpdatePc
  <2>2. ~Consumed(b2).has /\ Consumed(b2).off = b2.off
    BY DEF Consumed, Branches
  <2>3. br1'.has => Ir'.op \in Cop1Ops
    BY <2>1 DEF Ir, At
  <2>4. cnt' > 0 /\ cnt' # 0 /\ ~br2'.has
    BY <1>1, <2>1, <2>2
  <2>5. NoCopBranch(prog)' => ~br1'.has /\ br2'.off = 0 /\ res' = 0
    BY <2>1, <2>2 DEF NoCopBranch
  <2> QED
    BY <2>3, <2>4, <2>5 DEF FlagsInv
<1> QED
  BY <1>2, <1>3

\* A turn without COP1 goes where its instruction says: COP1 has no branch, and
\* the one COP2 may have at the start leads to the next instruction.
LEMMA PlainTurn ==
  ASSUME RulesKept, IsaInv, TypeInv', on, UNCHANGED prog, Ir.op \notin Cop1Ops,
         NEW next, NEW r, UpdatePc(next, r, br1, br2),
         next = pc + 4 \/ Ir.op \in Jumping \cup Stale
  PROVE  Mips!GoTo(next) /\ FlagsInv'
<1>1. /\ pc \in Int /\ cnt \in Nat /\ br1 \in Branches /\ br2 \in Branches
      /\ ProgramOK(prog)
  BY DEF IsaInv, TypeInv, CpuTypeOK, RulesKept
<1>2. ~br1.has
  BY DEF IsaInv, FlagsInv
<1>3. br2.has => pc + br2.off + 4 = next
  <2> SUFFICES ASSUME br2.has PROVE pc + br2.off + 4 = next
    OBVIOUS
  <2>1. cnt = 0
    BY <1>1 DEF IsaInv, FlagsInv
  <2>2. pc = Start /\ br2.off = 0
    BY <2>1 DEF IsaInv, FlagsInv
  <2>3. Ir.op \notin Jumping \cup Stale
    BY <1>1, <2>2, IrRules DEF ProgramOK
  <2> QED
    BY <1>1, <2>2, <2>3
<1>4. Mips!GoTo(next)
  BY <1>2, <1>3, UpdateGoes
<1>5. FlagsInv'
  BY <1>1, <1>2, UpdateFlags DEF IsaInv, FlagsInv
<1> QED
  BY <1>4, <1>5

\* A turn of COP1 has lowered the flag or set it for its own branch.
LEMMA Cop1Turn ==
  ASSUME RulesKept, IsaInv, TypeInv', on, UNCHANGED prog, Ir.op \in Cop1Ops,
         NEW r, NEW b \in Branches, UpdatePc(pc + 4, r, b, br2),
         b.has => b.off = Offset /\ Ir.op \in Cop1Branches
  PROVE  /\ Mips!GoTo(IF b.has THEN pc + b.off + 4 ELSE pc + 4)
         /\ FlagsInv'
<1>1. /\ pc \in Int /\ cnt \in Nat /\ br2 \in Branches /\ ProgramOK(prog)
  BY DEF IsaInv, TypeInv, CpuTypeOK, RulesKept
<1>2. br2.has => br2.off = 0 /\ Ir.op \notin Cop1Branches
  <2> SUFFICES ASSUME br2.has PROVE br2.off = 0 /\ Ir.op \notin Cop1Branches
    OBVIOUS
  <2>1. cnt = 0
    BY <1>1 DEF IsaInv, FlagsInv
  <2>2. pc = Start /\ br2.off = 0
    BY <2>1 DEF IsaInv, FlagsInv
  <2> QED
    BY <1>1, <2>2, IrRules DEF ProgramOK, Jumping
<1>3. Mips!GoTo(IF b.has THEN pc + b.off + 4 ELSE pc + 4)
  <2>1. br2.has => pc + br2.off + 4 = pc + 4
    BY <1>1, <1>2
  <2> QED
    BY <2>1, UpdateGoes
<1>4. b.has => ~br2.has /\ At(prog, pc + b.off + 4).op \in Cop1Ops
  BY <1>2, IrRules
<1>5. NoCopBranch(prog) => ~b.has /\ br2.off = 0
  BY IrRules DEF IsaInv, FlagsInv
<1>6. FlagsInv'
  BY <1>1, <1>4, <1>5, UpdateFlags
<1> QED
  BY <1>3, <1>6

\* What a turn does to the registers, in the terms of MipsIsa.
LEMMA WriteRight ==
  ASSUME IsaInv
  PROVE  /\ \A r : WriteBack(w, None, r) => Mips!Keeps /\ w'["zero"] = 0
         /\ \A d \in Regs \ {"zero"}, r \in Int :
              WriteBack(w, d, r) => Mips!Write(d, r) /\ w'["zero"] = 0
         /\ WriteBack(w, "zero", 0) => Mips!Keeps /\ w'["zero"] = 0
<1>1. w \in [Regs -> Int] /\ w["zero"] = 0 /\ "zero" \in Regs /\ None \notin Regs
  BY DEF IsaInv, TypeInv, CpuTypeOK, Regs, None
<1> QED
  BY <1>1 DEF WriteBack, Mips!Keeps, Mips!Write

\* A result for the register that the instruction names, and the next one.
LEMMA ResultRight ==
  ASSUME RulesKept, IsaInv, TypeInv', on, UNCHANGED prog, Ir.op \notin Cop1Ops,
         Ir.op \in Writing, Ir.rd # "zero", NEW r \in Int, Result(Ir.rd, r)
  PROVE  /\ Mips!Write(Ir.rd, r) /\ Mips!NextPc /\ UNCHANGED cc
         /\ w'["zero"] = 0 /\ FlagsInv'
<1>1. Ir.rd \in Regs
  BY OffsetType DEF IsaInv
<1>2. UNCHANGED cc /\ WriteBack(w, Ir.rd, r) /\ UpdatePc(pc + 4, r, br1, br2)
  BY DEF Result
<1> QED
  BY <1>1, <1>2, WriteRight, PlainTurn DEF Mips!NextPc

\* No result.
LEMMA NoResultRight ==
  ASSUME RulesKept, IsaInv, TypeInv', on, UNCHANGED prog, Ir.op \notin Cop1Ops,
         NoResult
  PROVE  /\ Mips!Keeps /\ Mips!NextPc /\ UNCHANGED cc
         /\ w'["zero"] = 0 /\ FlagsInv'
<1>1. UNCHANGED cc /\ WriteBack(w, None, res) /\ UpdatePc(pc + 4, res, br1, br2)
  BY DEF NoResult, Result
<1> QED
  BY <1>1, WriteRight, PlainTurn DEF Mips!NextPc

\* A jump that writes no register but perhaps its link.
LEMMA JumpRight ==
  ASSUME RulesKept, IsaInv, TypeInv', on, UNCHANGED prog, Ir.op \notin Cop1Ops,
         NEW regs, NEW a, JumpTo(regs, None, a), a = pc + 4 \/ Ir.op \in Jumping
  PROVE  w' = regs /\ Mips!GoTo(a) /\ UNCHANGED cc /\ FlagsInv'
<1>1. UNCHANGED cc /\ WriteBack(regs, None, res) /\ UpdatePc(a, res, br1, br2)
  BY DEF JumpTo
<1>2. w' = regs
  BY <1>1 DEF WriteBack
<1> QED
  BY <1>1, <1>2, PlainTurn

\* The words that write back a stale res write a zero to $zero.
LEMMA StaleZero ==
  ASSUME RulesKept, IsaInv, on, Ir.op \in Stale
  PROVE  res = 0 /\ Ir.rd = "zero"
<1>1. ProgramOK(prog) /\ cnt \in Nat
  BY DEF IsaInv, TypeInv, CpuTypeOK, RulesKept
<1>2. NoCopBranch(prog) /\ WordOK(Ir) /\ Ir = At(prog, pc)
  BY IrRules
<1>3. cnt > 0
  BY <1>1, <1>2 DEF ProgramOK, IsaInv, FlagsInv
<1> QED
  BY <1>2, <1>3 DEF WordOK, IsaInv, FlagsInv

\* The link of a call.
LEMMA LinkRight ==
  ASSUME IsaInv, w' = [w EXCEPT !["ra"] = pc + 4]
  PROVE  Mips!Write("ra", pc + 4) /\ w'["zero"] = 0
BY DEF IsaInv, TypeInv, CpuTypeOK, Regs, Mips!Write

----------------------------------------------------------------------------
(* One lemma for each kind of instruction.                                 *)

\* Arithmetic is as in MipsIsa: what the write-back stores is the result, and res is
\* not what an earlier instruction left.
LEMMA IntegerRight ==
  ASSUME RulesKept, IsaInv, TypeInv',
         Alu \/ Addi \/ Slti \/ Ori \/ Movn \/ Movf \/ Div
  PROVE  Mips!MINext /\ w'["zero"] = 0 /\ FlagsInv'
<1>i. /\ Ir = Mips!Ir /\ WordOK(Ir) /\ Ir.rd \in Regs
      /\ w[Ir.rs] \in Int /\ Immd \in Int /\ Ir.imm \in Int
  BY IrRules, OffsetType DEF IsaInv
<1>1. CASE Alu
  <2>1. on /\ Ir.op = "ALU" /\ UNCHANGED prog /\ Result(Ir.rd, w[Ir.rs])
    BY <1>1 DEF Alu, Does
  <2>2. CASE Ir.rd # "zero"
    <3>1. Mips!Write(Ir.rd, w[Ir.rs]) /\ Mips!NextPc /\ UNCHANGED cc
            /\ w'["zero"] = 0 /\ FlagsInv'
      BY <1>i, <2>1, <2>2, ResultRight DEF Writing, Cop1Ops, Cop1Branches
    <3> QED
      BY <1>i, <2>1, <3>1 DEF Mips!MINext, Mips!Alu, Mips!Does
  <2>3. CASE Ir.rd = "zero"
    <3>1. Ir.rs = "zero" /\ w[Ir.rs] = 0
      BY <1>i, <2>1, <2>3 DEF WordOK, Writing, IsaInv
    <3>2. UNCHANGED cc /\ WriteBack(w, "zero", 0) /\ UpdatePc(pc + 4, 0, br1, br2)
      BY <2>1, <2>3, <3>1 DEF Result
    <3>3. Mips!Keeps /\ w'["zero"] = 0 /\ Mips!GoTo(pc + 4) /\ FlagsInv'
      BY <2>1, <3>2, WriteRight, PlainTurn DEF Cop1Ops, Cop1Branches
    <3> QED
      BY <1>i, <2>1, <2>3, <3>2, <3>3
         DEF Mips!MINext, Mips!Alu, Mips!Does, Mips!NextPc, Mips!Write, Mips!Keeps
  <2> QED
    BY <2>2, <2>3
<1>2. CASE Addi
  <2>1. on /\ Ir.op = "ADDI" /\ UNCHANGED prog /\ Result(Ir.rd, w[Ir.rs] + Immd)
    BY <1>2 DEF Addi, Does
  <2>2. Immd = Mips!Immd /\ Ir.rd # "zero"
    BY <1>i, <2>1, ImmdRight DEF WordOK, Writing
  <2>3. Mips!Write(Ir.rd, w[Ir.rs] + Immd) /\ Mips!NextPc /\ UNCHANGED cc
          /\ w'["zero"] = 0 /\ FlagsInv'
    BY <1>i, <2>1, <2>2, ResultRight DEF Writing, Cop1Ops, Cop1Branches
  <2> QED
    BY <1>i, <2>1, <2>2, <2>3 DEF Mips!MINext, Mips!Immediate, Mips!Does
<1>3. CASE Slti
  <2> DEFINE r == IF w[Ir.rs] < Immd THEN 1 ELSE 0
  <2>1. on /\ Ir.op = "SLTI" /\ UNCHANGED prog /\ Result(Ir.rd, r) /\ r \in Int
    BY <1>3 DEF Slti, Does
  <2>2. Immd = Mips!Immd /\ Ir.rd # "zero"
    BY <1>i, <2>1, ImmdRight DEF WordOK, Writing
  <2>3. Mips!Write(Ir.rd, r) /\ Mips!NextPc /\ UNCHANGED cc
          /\ w'["zero"] = 0 /\ FlagsInv'
    BY <1>i, <2>1, <2>2, ResultRight DEF Writing, Cop1Ops, Cop1Branches
  <2> QED
    BY <1>i, <2>1, <2>2, <2>3 DEF Mips!MINext, Mips!Immediate, Mips!Does
<1>4. CASE Ori
  <2>1. on /\ Ir.op = "ORI" /\ UNCHANGED prog /\ Result(Ir.rd, Ir.imm)
    BY <1>4 DEF Ori, Does
  <2>2. Ir.rd # "zero"
    BY <1>i, <2>1 DEF WordOK, Writing
  <2>3. Mips!Write(Ir.rd, Ir.imm) /\ Mips!NextPc /\ UNCHANGED cc
          /\ w'["zero"] = 0 /\ FlagsInv'
    BY <1>i, <2>1, <2>2, ResultRight DEF Writing, Cop1Ops, Cop1Branches
  <2> QED
    BY <1>i, <2>1, <2>3 DEF Mips!MINext, Mips!Immediate, Mips!Does
<1>5. CASE Movn
  <2>1. on /\ Ir.op = "MOVN" /\ UNCHANGED prog /\ Ir.rd # "zero"
          /\ IF w[Ir.rt] # 0 THEN Result(Ir.rd, w[Ir.rs]) ELSE NoResult
    BY <1>5, <1>i DEF Movn, Does, WordOK, Writing
  <2>2. IF w[Ir.rt] # 0 THEN Mips!Write(Ir.rd, w[Ir.rs]) ELSE Mips!Keeps
    BY <1>i, <2>1, ResultRight, NoResultRight DEF Writing, Cop1Ops, Cop1Branches
  <2>3. Mips!NextPc /\ UNCHANGED cc /\ w'["zero"] = 0 /\ FlagsInv'
    BY <1>i, <2>1, ResultRight, NoResultRight DEF Writing, Cop1Ops, Cop1Branches
  <2> QED
    BY <1>i, <2>1, <2>2, <2>3 DEF Mips!MINext, Mips!Movn, Mips!Does
<1>6. CASE Movf
  <2>1. on /\ Ir.op = "MOVF" /\ UNCHANGED prog /\ Ir.rd # "zero"
          /\ IF cc = 0 THEN Result(Ir.rd, w[Ir.rs]) ELSE NoResult
    BY <1>6, <1>i DEF Movf, Does, WordOK, Writing
  <2>2. IF cc = 0 THEN Mips!Write(Ir.rd, w[Ir.rs]) ELSE Mips!Keeps
    BY <1>i, <2>1, ResultRight, NoResultRight DEF Writing, Cop1Ops, Cop1Branches
  <2>3. Mips!NextPc /\ UNCHANGED cc /\ w'["zero"] = 0 /\ FlagsInv'
    BY <1>i, <2>1, ResultRight, NoResultRight DEF Writing, Cop1Ops, Cop1Branches
  <2> QED
    BY <1>i, <2>1, <2>2, <2>3 DEF Mips!MINext, Mips!Movf, Mips!Does
<1>7. CASE Div
  <2>1. on /\ Ir.op = "DIV" /\ UNCHANGED prog /\ Result(Ir.rd, res)
    BY <1>7 DEF Div, Does
  <2>2. UNCHANGED cc /\ WriteBack(w, "zero", 0) /\ UpdatePc(pc + 4, 0, br1, br2)
    BY <2>1, StaleZero DEF Stale, Result
  <2>3. Mips!Keeps /\ w'["zero"] = 0 /\ Mips!GoTo(pc + 4) /\ FlagsInv'
    BY <2>1, <2>2, WriteRight, PlainTurn DEF Cop1Ops, Cop1Branches
  <2> QED
    BY <1>i, <2>1, <2>2, <2>3 DEF Mips!MINext, Mips!Quiet, Mips!Does, Mips!NextPc
<1> QED
  BY <1>1, <1>2, <1>3, <1>4, <1>5, <1>6, <1>7

\* So are loads and what writes no register.
LEMMA MemoryRight ==
  ASSUME RulesKept, IsaInv, TypeInv', Load \/ LoadByte \/ LoadHalf \/ Side
  PROVE  Mips!MINext /\ w'["zero"] = 0 /\ FlagsInv'
<1>i. Ir = Mips!Ir /\ WordOK(Ir) /\ Ir.rd \in Regs
  BY IrRules, OffsetType DEF IsaInv
<1>v. ASSUME NEW v \in Data
      PROVE  /\ v \in Int
             /\ Extended(v % 256, 256) \in Mips!Extensions(v % 256, 256)
             /\ Extended(v % 65536, 65536) \in Mips!Extensions(v % 65536, 65536)
             /\ Extended(v % 256, 256) \in Int
             /\ Extended(v % 65536, 65536) \in Int
  <2>1. v \in Nat /\ v % 256 \in Nat /\ v % 65536 \in Nat
    OBVIOUS
  <2> QED
    BY <2>1, NarrowRight, ExtendedType
<1>1. CASE Load
  <2>1. on /\ Ir.op = "LW" /\ UNCHANGED prog /\ Ir.rd # "zero"
          /\ (NoResult \/ \E v \in Data : Result(Ir.rd, v))
    BY <1>1, <1>i DEF Load, Does, WordOK, Writing
  <2>2. Mips!Keeps \/ \E v \in Data : Mips!Write(Ir.rd, v)
    BY <1>i, <1>v, <2>1, ResultRight, NoResultRight
       DEF Writing, Cop1Ops, Cop1Branches
  <2>3. Mips!NextPc /\ UNCHANGED cc /\ w'["zero"] = 0 /\ FlagsInv'
    BY <1>i, <1>v, <2>1, ResultRight, NoResultRight
       DEF Writing, Cop1Ops, Cop1Branches
  <2> QED
    BY <1>i, <2>1, <2>2, <2>3 DEF Mips!MINext, Mips!Fetch, Mips!Does
<1>2. CASE LoadByte
  <2>1. PICK v \in Data : Result(Ir.rd, Extended(v % 256, 256))
    BY <1>2 DEF LoadByte
  <2>2. on /\ Ir.op = "LB" /\ UNCHANGED prog /\ Ir.rd # "zero"
    BY <1>2, <1>i DEF LoadByte, Does, WordOK, Writing
  <2>3. Mips!Write(Ir.rd, Extended(v % 256, 256)) /\ Mips!NextPc
          /\ UNCHANGED cc /\ w'["zero"] = 0 /\ FlagsInv'
    BY <1>v, <2>1, <2>2, ResultRight DEF Writing, Cop1Ops, Cop1Branches
  <2>4. \E x \in Mips!Extensions(v % 256, 256) : Mips!Write(Ir.rd, x)
    BY <1>v, <2>3
  <2> QED
    BY <1>i, <2>2, <2>3, <2>4 DEF Mips!MINext, Mips!Narrow, Mips!Does
<1>3. CASE LoadHalf
  <2>1. on /\ Ir.op = "LH" /\ UNCHANGED prog /\ Ir.rd # "zero"
          /\ (NoResult \/ \E v \in Data : Result(Ir.rd, Extended(v % 65536, 65536)))
    BY <1>3, <1>i DEF LoadHalf, Does, WordOK, Writing
  <2>2. Mips!Keeps
          \/ \E v \in Data : \E x \in Mips!Extensions(v % 65536, 65536) :
               Mips!Write(Ir.rd, x)
    BY <1>i, <1>v, <2>1, ResultRight, NoResultRight
       DEF Writing, Cop1Ops, Cop1Branches
  <2>3. Mips!NextPc /\ UNCHANGED cc /\ w'["zero"] = 0 /\ FlagsInv'
    BY <1>i, <1>v, <2>1, ResultRight, NoResultRight
       DEF Writing, Cop1Ops, Cop1Branches
  <2> QED
    BY <1>i, <2>1, <2>2, <2>3 DEF Mips!MINext, Mips!Narrow, Mips!Does
<1>4. CASE Side
  <2>1. on /\ Ir.op = "SIDE" /\ UNCHANGED prog /\ NoResult
    BY <1>4 DEF Side, Does
  <2>2. Mips!Keeps /\ Mips!NextPc /\ UNCHANGED cc /\ w'["zero"] = 0 /\ FlagsInv'
    BY <2>1, NoResultRight DEF Cop1Ops, Cop1Branches
  <2> QED
    BY <1>i, <2>1, <2>2 DEF Mips!MINext, Mips!Quiet, Mips!Does
<1> QED
  BY <1>1, <1>2, <1>3, <1>4

\* So are the branches of the CPU, with their links.
LEMMA BranchRight ==
  ASSUME RulesKept, IsaInv, TypeInv', Bne \/ Bgezal \/ J \/ Jal \/ Syscall
  PROVE  Mips!MINext /\ w'["zero"] = 0 /\ FlagsInv'
<1>i. Ir = Mips!Ir /\ WordOK(Ir) /\ pc \in Int /\ w["zero"] = 0
  BY IrRules DEF IsaInv, TypeInv, CpuTypeOK
<1>1. CASE Bne
  <2> DEFINE a == IF w[Ir.rs] # w[Ir.rt] THEN pc + Offset + 4 ELSE pc + 4
  <2>1. on /\ Ir.op = "BNE" /\ UNCHANGED prog /\ JumpTo(w, None, a)
    BY <1>1 DEF Bne, Does
  <2>2. Offset = Mips!Offset /\ Offset \in Int
    BY <2>1, ImmdRight, OffsetType DEF IsaInv
  <2>3. a = pc + 4 + (IF w[Ir.rs] # w[Ir.rt] THEN Offset ELSE 0)
    BY <1>i, <2>2
  <2> HIDE DEF a
  <2>4. w' = w /\ Mips!GoTo(a) /\ UNCHANGED cc /\ FlagsInv'
    BY <2>1, JumpRight DEF Cop1Ops, Cop1Branches, Jumping
  <2> QED
    BY <1>i, <2>1, <2>2, <2>3, <2>4
       DEF Mips!MINext, Mips!Branch, Mips!Does, Mips!Keeps
<1>2. CASE Bgezal
  <2>1. on /\ Ir.op = "BGEZAL" /\ UNCHANGED prog
          /\ IF w[Ir.rs] >= 0
             THEN JumpTo([w EXCEPT !["ra"] = pc + 4], None, pc + Offset + 4)
             ELSE NoResult
    BY <1>2 DEF Bgezal, Does
  <2>2. Offset = Mips!Offset /\ pc + Offset + 4 = pc + 4 + Offset
    BY <1>i, <2>1, ImmdRight, OffsetType DEF IsaInv
  <2>3. CASE w[Ir.rs] >= 0
    <3>1. w' = [w EXCEPT !["ra"] = pc + 4] /\ Mips!GoTo(pc + Offset + 4)
            /\ UNCHANGED cc /\ FlagsInv'
      BY <2>1, <2>3, JumpRight DEF Cop1Ops, Cop1Branches, Jumping
    <3>2. Mips!Write("ra", pc + 4) /\ w'["zero"] = 0
      BY <3>1, LinkRight
    <3> QED
      BY <1>i, <2>1, <2>2, <2>3, <3>1, <3>2 DEF Mips!MINext, Mips!Link, Mips!Does
  <2>4. CASE ~(w[Ir.rs] >= 0)
    <3>1. Mips!Keeps /\ Mips!NextPc /\ UNCHANGED cc /\ w'["zero"] = 0 /\ FlagsInv'
      BY <2>1, <2>4, NoResultRight DEF Cop1Ops, Cop1Branches
    <3> QED
      BY <1>i, <2>1, <2>4, <3>1 DEF Mips!MINext, Mips!Link, Mips!Does
  <2> QED
    BY <2>3, <2>4
<1>3. CASE J
  <2>1. on /\ Ir.op = "J" /\ UNCHANGED prog /\ JumpTo(w, None, Ir.imm)
    BY <1>3 DEF J, Does
  <2>2. w' = w /\ Mips!GoTo(Ir.imm) /\ UNCHANGED cc /\ FlagsInv'
    BY <2>1, JumpRight DEF Cop1Ops, Cop1Branches, Jumping
  <2> QED
    BY <1>i, <2>1, <2>2 DEF Mips!MINext, Mips!Jump, Mips!Does, Mips!Keeps
<1>4. CASE Jal
  <2>1. on /\ Ir.op = "JAL" /\ UNCHANGED prog
          /\ JumpTo([w EXCEPT !["ra"] = pc + 4], None, Ir.imm)
    BY <1>4 DEF Jal, Does
  <2>2. w' = [w EXCEPT !["ra"] = pc + 4] /\ Mips!GoTo(Ir.imm)
          /\ UNCHANGED cc /\ FlagsInv'
    BY <2>1, JumpRight DEF Cop1Ops, Cop1Branches, Jumping
  <2>3. Mips!Write("ra", pc + 4) /\ w'["zero"] = 0
    BY <2>2, LinkRight
  <2> QED
    BY <1>i, <2>1, <2>2, <2>3 DEF Mips!MINext, Mips!Call, Mips!Does
<1>5. CASE Syscall
  <2>1. /\ on /\ Ir.op = "SYSCALL" /\ UNCHANGED <<prog, cc>>
        /\ limit' = IF w["v0"] = Exit THEN 1 ELSE limit
        /\ WriteBack(w, None, res) /\ UpdatePc(pc + 4, res, br1, br2)
    BY <1>5 DEF Syscall, Does
  <2>2. Mips!Keeps /\ w'["zero"] = 0 /\ Mips!GoTo(pc + 4) /\ FlagsInv'
    BY <2>1, WriteRight, PlainTurn DEF Cop1Ops, Cop1Branches
  <2>3. w["v0"] = Exit => ~on'
    <3> SUFFICES ASSUME w["v0"] = Exit PROVE ~on'
      OBVIOUS
    <3>1. limit' = 1 /\ cnt \in Nat
      BY <2>1 DEF IsaInv, TypeInv, CpuTypeOK
    <3>2. pc = ExitAddr => on' = FALSE
      BY <2>1 DEF UpdatePc
    <3>3. pc # ExitAddr => on' = Goes(cnt + 1, 1)
      BY <2>1, <3>1 DEF UpdatePc
    <3>4. ~Goes(cnt + 1, 1)
      BY <3>1 DEF Goes
    <3> QED
      BY <3>2, <3>3, <3>4
  <2> QED
    BY <1>i, <2>1, <2>2, <2>3
       DEF Mips!MINext, Mips!System, Mips!Does, Mips!NextPc, Mips!Exit, Exit
<1> QED
  BY <1>1, <1>2, <1>3, <1>4, <1>5

\* Jumps to a register: a zero goes to $zero, over the link of JALR.
LEMMA ReturnRight ==
  ASSUME RulesKept, IsaInv, TypeInv', Jr \/ Jalr
  PROVE  Mips!MINext /\ w'["zero"] = 0 /\ FlagsInv'
<1>i. /\ Ir = Mips!Ir /\ on /\ UNCHANGED prog /\ Ir.op \in {"JR", "JALR"}
      /\ w \in [Regs -> Int] /\ w["zero"] = 0 /\ "zero" \in Regs
  BY IrRules DEF Jr, Jalr, Does, IsaInv, TypeInv, CpuTypeOK, Regs
<1>1. res = 0 /\ Ir.rd = "zero"
  BY <1>i, StaleZero DEF Stale
<1>2. PICK regs \in {w, [w EXCEPT !["zero"] = pc + 4]} : JumpTo(regs, "zero", w[Ir.rs])
  BY <1>1 DEF Jr, Jalr
<1>3. UNCHANGED cc /\ WriteBack(regs, "zero", 0) /\ UpdatePc(w[Ir.rs], 0, br1, br2)
  BY <1>1, <1>2 DEF JumpTo
<1>4. w' = w
  BY <1>i, <1>3 DEF WriteBack, None
<1>5. Mips!GoTo(w[Ir.rs]) /\ FlagsInv'
  BY <1>i, <1>3, PlainTurn DEF Cop1Ops, Cop1Branches, Stale
<1> QED
  BY <1>i, <1>1, <1>3, <1>4, <1>5
     DEF Mips!MINext, Mips!Return, Mips!CallR, Mips!Does, Mips!Keeps, Mips!Write

\* Branches of COP1 leave their flag up for a COP1 instruction only.
LEMMA Cop1Right ==
  ASSUME RulesKept, IsaInv, TypeInv', Bc1 \/ Cmp \/ Fpu \/ Mfc1
  PROVE  Mips!MINext /\ w'["zero"] = 0 /\ FlagsInv'
<1>i. /\ Ir = Mips!Ir /\ WordOK(Ir) /\ Ir.rd \in Regs /\ Offset \in Int
      /\ pc \in Int /\ br1 \in Branches
  BY IrRules, OffsetType DEF IsaInv, TypeInv, CpuTypeOK
<1>l. Lowered \in Branches /\ ~Lowered.has
  BY <1>i DEF Lowered, Branches
<1>1. ASSUME on, UNCHANGED prog, Ir.op \in Cop1Ops, NEW r, Cop1(None, r, Lowered)
      PROVE  Mips!Keeps /\ Mips!NextPc /\ w'["zero"] = 0 /\ FlagsInv'
  <2>1. WriteBack(w, None, r) /\ UpdatePc(pc + 4, r, Lowered, br2)
    BY <1>1 DEF Cop1
  <2>2. Mips!GoTo(pc + 4) /\ FlagsInv'
    BY <1>1, <1>l, <2>1, Cop1Turn
  <2> QED
    BY <2>1, <2>2, WriteRight DEF Mips!NextPc
<1>2. CASE Bc1
  <2> DEFINE sense == IF Ir.op = "BC1T" THEN 1 ELSE 0
             b == [has |-> cc = sense, off |-> Offset]
  <2>1. on /\ Ir.op \in Cop1Branches /\ UNCHANGED <<prog, cc>> /\ Cop1(None, res, b)
    BY <1>2 DEF Bc1, Does, Cop1Branches
  <2>2. b \in Branches /\ b.off = Offset /\ (b.has <=> cc = sense)
    BY <1>i DEF Branches
  <2>3. WriteBack(w, None, res) /\ UpdatePc(pc + 4, res, b, br2)
    BY <2>1 DEF Cop1
  <2> HIDE DEF b
  <2>4. Mips!GoTo(IF b.has THEN pc + b.off + 4 ELSE pc + 4) /\ FlagsInv'
    BY <2>1, <2>2, <2>3, Cop1Turn DEF Cop1Ops
  <2>5. Offset = Mips!Offset
    BY <2>1, ImmdRight DEF Cop1Branches
  <2>6. (IF b.has THEN pc + b.off + 4 ELSE pc + 4)
          = pc + 4 + (IF cc = sense THEN Offset ELSE 0)
    BY <1>i, <2>2
  <2>7. Mips!Keeps /\ w'["zero"] = 0
    BY <2>3, WriteRight
  <2>8. Mips!GoTo(pc + 4 + (IF cc = sense THEN Offset ELSE 0))
    BY <2>4, <2>6
  <2> QED
    BY <1>i, <2>1, <2>4, <2>5, <2>7, <2>8
       DEF Mips!MINext, Mips!Bc1, Mips!Does, Cop1Branches
<1>3. CASE Cmp
  <2>1. on /\ Ir.op = "CMP" /\ UNCHANGED prog /\ Cop1(None, res, Lowered)
          /\ cc' \in {0, 1}
    BY <1>3 DEF Cmp, Does
  <2>2. Mips!Keeps /\ Mips!NextPc /\ w'["zero"] = 0 /\ FlagsInv'
    BY <1>1, <2>1 DEF Cop1Ops
  <2> QED
    BY <1>i, <2>1, <2>2 DEF Mips!MINext, Mips!Cmp, Mips!Does
<1>4. CASE Fpu
  <2>1. on /\ Ir.op = "COP1" /\ UNCHANGED <<prog, cc>> /\ Cop1(None, res, Lowered)
    BY <1>4 DEF Fpu, Does
  <2>2. Mips!Keeps /\ Mips!NextPc /\ w'["zero"] = 0 /\ FlagsInv'
    BY <1>1, <2>1 DEF Cop1Ops
  <2> QED
    BY <1>i, <2>1, <2>2 DEF Mips!MINext, Mips!Quiet, Mips!Does
<1>5. CASE Mfc1
  <2>1. PICK v \in Data : Cop1(Ir.rd, v, Lowered)
    BY <1>5 DEF Mfc1
  <2>2. on /\ Ir.op = "MFC1" /\ UNCHANGED <<prog, cc>> /\ Ir.rd # "zero" /\ v \in Int
    BY <1>5, <1>i DEF Mfc1, Does, WordOK, Writing
  <2>3. WriteBack(w, Ir.rd, v) /\ UpdatePc(pc + 4, v, Lowered, br2)
    BY <2>1 DEF Cop1
  <2>4. Mips!Write(Ir.rd, v) /\ w'["zero"] = 0
    BY <1>i, <2>2, <2>3, WriteRight
  <2>5. Mips!GoTo(pc + 4) /\ FlagsInv'
    BY <1>l, <2>2, <2>3, Cop1Turn DEF Cop1Ops
  <2> QED
    BY <1>i, <2>2, <2>4, <2>5 DEF Mips!MINext, Mips!Fetch, Mips!Does, Mips!NextPc
<1> QED
  BY <1>2, <1>3, <1>4, <1>5

\* Branches of COP2 lower it at once.
LEMMA Cop2Right ==
  ASSUME RulesKept, IsaInv, TypeInv', Bc2 \/ Cop2 \/ Mfc2
  PROVE  Mips!MINext /\ w'["zero"] = 0 /\ FlagsInv'
<1>i. /\ Ir = Mips!Ir /\ WordOK(Ir) /\ Ir.rd \in Regs /\ Offset \in Int
      /\ pc \in Int /\ br1 \in Branches
  BY IrRules, OffsetType DEF IsaInv, TypeInv, CpuTypeOK
<1>1. CASE Bc2
  <2>1. PICK has \in BOOLEAN : UpdatePc(pc + 4, res, br1, [has |-> has, off |-> Offset])
    BY <1>1 DEF Bc2
  <2>2. on /\ Ir.op = "BC2" /\ UNCHANGED <<prog, cc>> /\ WriteBack(w, None, res)
    BY <1>1 DEF Bc2, Does
  <2> DEFINE b == [has |-> has, off |-> Offset]
  <2>3. b \in Branches /\ b.off = Offset
    BY <1>i DEF Branches
  <2>4. UpdatePc(pc + 4, res, br1, b)
    BY <2>1
  <2> HIDE DEF b
  <2>5. ~br1.has /\ ~NoCopBranch(prog)
    BY <2>2, IrRules DEF IsaInv, FlagsInv, Cop1Ops, Cop1Branches
  <2>6. Mips!GoTo(IF b.has THEN pc + Offset + 4 ELSE pc + 4)
    BY <2>3, <2>4, <2>5, UpdateGoes
  <2>7. FlagsInv'
    BY <1>i, <2>2, <2>3, <2>4, <2>5, UpdateFlags
  <2>8. Offset = Mips!Offset
    BY <2>2, ImmdRight
  <2>9. \E off \in {0, Offset} : Mips!GoTo(pc + 4 + off)
    <3>1. pc + Offset + 4 = pc + 4 + Offset /\ pc + 4 = pc + 4 + 0
      BY <1>i
    <3> QED
      BY <2>6, <3>1
  <2> QED
    BY <1>i, <2>2, <2>7, <2>8, <2>9, WriteRight DEF Mips!MINext, Mips!Bc2, Mips!Does
<1>2. CASE Cop2
  <2>1. on /\ Ir.op = "COP2" /\ UNCHANGED prog /\ NoResult
    BY <1>2 DEF Cop2, Does
  <2>2. Mips!Keeps /\ Mips!NextPc /\ UNCHANGED cc /\ w'["zero"] = 0 /\ FlagsInv'
    BY <2>1, NoResultRight DEF Cop1Ops, Cop1Branches
  <2> QED
    BY <1>i, <2>1, <2>2 DEF Mips!MINext, Mips!Quiet, Mips!Does
<1>3. CASE Mfc2
  <2>1. on /\ Ir.op = "MFC2" /\ UNCHANGED prog /\ Ir.rd # "zero"
          /\ (NoResult \/ \E v \in Data : Result(Ir.rd, v))
    BY <1>3, <1>i DEF Mfc2, Does, WordOK, Writing
  <2>2. \A v \in Data : v \in Int
    OBVIOUS
  <2>3. Mips!Keeps \/ \E v \in Data : Mips!Write(Ir.rd, v)
    BY <1>i, <2>1, <2>2, ResultRight, NoResultRight
       DEF Writing, Cop1Ops, Cop1Branches
  <2>4. Mips!NextPc /\ UNCHANGED cc /\ w'["zero"] = 0 /\ FlagsInv'
    BY <1>i, <2>1, <2>2, ResultRight, NoResultRight
       DEF Writing, Cop1Ops, Cop1Branches
  <2> QED
    BY <1>i, <2>1, <2>3, <2>4 DEF Mips!MINext, Mips!Fetch, Mips!Does
<1> QED
  BY <1>1, <1>2, <1>3

----------------------------------------------------------------------------
\* For every set of programs that keep the rules, however long, and all data, the
\* CPU with its shared res and its two branch flags is the machine of MipsIsa
\* (which says what it takes for the target of a BC2 and for the sign of LB and
\* LH), provided the RPU's branch offset powers up as 0.
THEOREM IsaImplemented ==
  ASSUME RulesKept, QuietBranch
  PROVE  Spec => ImplementsIsa
<1>1. Init => IsaInv /\ Mips!MIInit
  <2> SUFFICES ASSUME Init PROVE IsaInv /\ Mips!MIInit
    OBVIOUS
  <2>1. w["zero"] = 0 /\ cnt = 0 /\ pc = Start /\ ~br1.has /\ br2.off = 0
    BY DEF Init, Regs, QuietBranch
  <2>2. FlagsInv
    BY <2>1 DEF FlagsInv
  <2>3. Mips!MIInit
    BY DEF Init, Mips!MIInit, Regs, Mips!Regs
  <2> QED
    BY <2>1, <2>2, <2>3, InitCpuType DEF IsaInv
<1>2. IsaInv /\ [Next]_cpuVars => IsaInv' /\ [Mips!MINext]_(Mips!miVars)
  <2> SUFFICES ASSUME IsaInv, [Next]_cpuVars
               PROVE  IsaInv' /\ [Mips!MINext]_(Mips!miVars)
    OBVIOUS
  <2>1. TypeInv'
    BY NextCpuType DEF IsaInv
  <2>2. CASE Next
    <3>1. Mips!MINext /\ w'["zero"] = 0 /\ FlagsInv'
      BY <2>1, <2>2, IntegerRight, MemoryRight, BranchRight, ReturnRight,
         Cop1Right, Cop2Right DEF Next
    <3> QED
      BY <2>1, <3>1 DEF IsaInv
  <2>3. CASE UNCHANGED cpuVars
    <3>1. FlagsInv'
      BY <2>3 DEF cpuVars, IsaInv, FlagsInv, Ir, NoCopBranch
    <3> QED
      BY <2>1, <2>3, <3>1 DEF cpuVars, Mips!miVars, IsaInv
  <2> QED
    BY <2>2, <2>3
<1> QED
  BY <1>1, <1>2, PTL DEF Spec, ImplementsIsa, Mips!MISpec
============================================================================
