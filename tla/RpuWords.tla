------------------------------ MODULE RpuWords ------------------------------
(***************************************************************************)
(* The words of the RPU's instructions: the numbers of model/include/isa.h, *)
(* the encoders of model/src/isa.cpp, the table of s2bin (alg/asm/s2bin.c), *)
(* and what the CPU and the RPU make of such a word.                       *)
(*                                                                         *)
(* A word is its two halves, so that no number passes 2^31.                *)
(***************************************************************************)
EXTENDS Integers, Sequences

COP2 == 18
LWC2 == 50
COP2X == 21
LWXCZ == 0

\* rpu_fmt_e, rpu_op_e, rpu_cond_e and rpu_regs_e, where raim.s uses them.
Fmt  == [NONE |-> 0, MT |-> 4, CP |-> 6, BC |-> 8]
Op   == [NOP |-> 0, NEWSV |-> 3, CALCU |-> 4, INITP |-> 5, CALCP |-> 6, WLS |-> 7,
         MULY |-> 8, MOVD |-> 9, POSVAR |-> 10, BIAS |-> 11, CALCSS |-> 12,
         SSVAR |-> 14, NEWSS |-> 15, TSTG |-> 16, TSTL |-> 17]
Cond == [OKAY |-> 0, FULL |-> 1, FD |-> 2, FL |-> 4, MC |-> 8]
Vr   == [I |-> 0, AL0 |-> 1, LX |-> 2, LY |-> 3, LZ |-> 4, C |-> 5, ST |-> 6,
         SR |-> 7, SA2 |-> 8, SE2 |-> 9, BN |-> 10, IDX |-> 11, KX |-> 12,
         KY |-> 13, KZ |-> 14, KR |-> 15, Y15 |-> 31]
\* Registers of the CPU.
R0 == 0
T0 == 8
T1 == 9
T3 == 11

----------------------------------------------------------------------------
(* The encoders.                                                           *)

High(op, rs, rt) == (op % 64) * 1024 + (rs % 32) * 32 + (rt % 32)

GenImmd(op, rs, rt, offset) == [hi |-> High(op, rs, rt), lo |-> offset % 65536]

\* Mutant: rd and sa change places.
GenRegSwapped(op, rs, rt, rd, sa, fn) ==
  [hi |-> High(op, rs, rt), lo |-> (sa % 32) * 2048 + (rd % 32) * 64 + (fn % 64)]

GenReg(op, rs, rt, rd, sa, fn) ==
  [hi |-> High(op, rs, rt), lo |-> (rd % 32) * 2048 + (sa % 32) * 64 + (fn % 64)]

----------------------------------------------------------------------------
(* gen_instr, row by row.                                                  *)

Lwc2Word(base, reg, offset) == GenImmd(LWC2, base, Vr[reg], offset)
NoneWord(op)    == GenReg(COP2, Fmt.NONE, 0, 0, 0, Op[op])
CpWord(r, op)   == GenReg(COP2, Fmt.CP, r, 0, 0, Op[op])
MtWord(r, reg, op) == GenReg(COP2, Fmt.MT, r, Vr[reg], 0, Op[op])
BcWord(c)       == GenImmd(COP2, Fmt.BC, Cond[c], 0)

GenInstr ==
  << Lwc2Word(T0, "AL0", -12), Lwc2Word(T0, "SA2", -8), Lwc2Word(T0, "SE2", -4),
     Lwc2Word(T0, "KX", 4), Lwc2Word(T0, "KY", 8), Lwc2Word(T0, "KZ", 12),
     Lwc2Word(T0, "KR", 16),

     Lwc2Word(T1, "LX", 0), Lwc2Word(T1, "LY", 4), Lwc2Word(T1, "LZ", 8),
     Lwc2Word(T1, "C", 12), Lwc2Word(T1, "ST", 16), Lwc2Word(T1, "SR", 20),
     Lwc2Word(T1, "Y15", 24), Lwc2Word(T0, "BN", 0), NoneWord("NEWSV"),

     NoneWord("CALCU"), MtWord(T0, "IDX", "NOP"), CpWord(R0, "INITP"),
     CpWord(R0, "CALCP"), CpWord(R0, "WLS"), BcWord("MC"), NoneWord("NEWSS"),

     GenReg(COP2X, T0, T1, 0, Vr.IDX, LWXCZ), CpWord(T1, "INITP"),
     CpWord(T1, "CALCP"), CpWord(T1, "WLS"), BcWord("MC"), CpWord(T1, "POSVAR"),
     CpWord(T1, "BIAS"), CpWord(T1, "CALCSS"), CpWord(T1, "SSVAR"), BcWord("MC"),
     CpWord(T1, "MULY"), CpWord(T1, "TSTG"), BcWord("FD"), MtWord(T3, "I", "TSTL"),
     BcWord("FL"), NoneWord("NEWSS") >>

----------------------------------------------------------------------------
(* The decoders: GET_INSTR_BITS at the places where the code takes them.   *)

Opcode(w) == w.hi \div 1024
Reg21(w)  == (w.hi \div 32) % 32
Reg16(w)  == w.hi % 32
Reg11(w)  == w.lo \div 2048
Reg6(w)   == (w.lo \div 64) % 32
CopOp(w)  == w.lo % 64

NameIn(table, n) == CHOOSE x \in DOMAIN table : table[x] = n

\* The case of the switch in cpu::main, and for COP2 the one of execute, with
\* the registers of the CPU that it reads.
Decoded(w) ==
  CASE Opcode(w) = LWC2 ->
         [do |-> "load", reg |-> NameIn(Vr, Reg16(w)), from |-> {Reg21(w)}]
    [] Opcode(w) = COP2X /\ CopOp(w) = LWXCZ ->
         [do |-> "load", reg |-> NameIn(Vr, Reg6(w)), from |-> {Reg21(w), Reg16(w)}]
    [] Opcode(w) = COP2 /\ Reg21(w) = Fmt.BC ->
         [do |-> "branch", cond |-> NameIn(Cond, Reg16(w))]
    [] OTHER ->
         [do |-> "issue", fmt |-> NameIn(Fmt, Reg21(w)), op |-> NameIn(Op, CopOp(w)),
          reg |-> IF Reg21(w) = Fmt.MT THEN NameIn(Vr, Reg11(w)) ELSE "",
          d |-> Reg6(w), from |-> IF Reg21(w) = Fmt.NONE THEN {} ELSE {Reg16(w)}]
============================================================================
