--------------------------- MODULE RaimCopProofs ---------------------------
(***************************************************************************)
(* Theorems about RaimCop, for every number of units, queue size, table    *)
(* size, program and power-up value that the assumptions admit.            *)
(***************************************************************************)
EXTENDS RaimCop, TLAPS

USE SizeAssumption, CopAssumption

----------------------------------------------------------------------------
(* Type correctness.                                                       *)

\* The power-up state, whatever the members without initialiser hold.
LEMMA InitType == Init => TypeOK
<1> SUFFICES ASSUME Init PROVE TypeOK
  OBVIOUS
<1>1. ResetRegs \in RegsType
  <2>1. 0 \in Byte
    BY DEF Byte
  <2> QED
    BY <2>1 DEF ResetRegs, RegsType
<1>2. regs \in RegsType
  BY <1>1 DEF Init, RegsType
<1>3. [ir : PowerUpIr, rt : PowerUpRt, cpsr : PowerUpCpsr, d : PowerUpCol,
       at : {"top"}, i : {0}, k : {0}, n : {0}, r : {0}]
        \subseteq FuType
  <2> SUFFICES ASSUME NEW u \in
        [ir : PowerUpIr, rt : PowerUpRt, cpsr : PowerUpCpsr, d : PowerUpCol,
         at : {"top"}, i : {0}, k : {0}, n : {0}, r : {0}]
      PROVE u \in FuType
    OBVIOUS
  <2>1. u.ir \in InstrType \cup {NoInstr} /\ u.rt \in Nat
          /\ u.cpsr \in SUBSET Flags /\ u.d \in SvIdx
    OBVIOUS
  <2>2. u.at = "top" /\ u.i = 0 /\ u.k = 0 /\ u.n = 0 /\ u.r = 0
    OBVIOUS
  <2>3. 0 \in 0 .. NSvMax /\ 0 \in SsIdx
    BY DEF SsIdx
  <2>4. u = [ir |-> u.ir, rt |-> u.rt, cpsr |-> u.cpsr, d |-> u.d, at |-> u.at,
             i |-> u.i, k |-> u.k, n |-> u.n, r |-> u.r]
    OBVIOUS
  <2> QED
    BY <2>1, <2>2, <2>3, <2>4 DEF FuType
<1>4. fu \in [FUs -> FuType]
  BY <1>3 DEF Init
<1>5. status \in [Loc -> BOOLEAN] /\ due \in [Procs -> Nat]
  BY DEF Init
<1>6. instr_q \in Seq(InstrType) /\ rt_val_q \in Seq(Nat)
  BY DEF Init
<1>7. rt \in Nat /\ rpu_cpsr \in SUBSET Flags
  BY DEF Init
<1> QED
  BY <1>2, <1>4, <1>5, <1>6, <1>7 DEF Init, TypeOK

\* set_regs keeps the registers well typed.
LEMMA SetRegsType ==
  ASSUME NEW rg \in RegsType, NEW reg, NEW v \in Nat
  PROVE  SetRegs(rg, reg, v) \in RegsType
<1>1. Bits(v) \in SUBSET SvIdx
  BY DEF Bits
<1>2. CASE reg = "I"
  BY <1>2 DEF SetRegs, RegsType
<1>3. CASE reg = "C"
  <2>1. rg.N_const \in Byte
    BY DEF RegsType
  <2>2. (IF v % 256 >= rg.N_const THEN (rg.N_const + 1) % 256 ELSE rg.N_const)
          \in Byte
    BY <2>1 DEF Byte
  <2> QED
    BY <1>3, <2>2 DEF SetRegs, RegsType
<1>4. CASE reg = "IDX"
  BY <1>1, <1>4 DEF SetRegs, RegsType
<1>5. CASE reg \notin {"I", "C", "IDX"}
  BY <1>5 DEF SetRegs
<1> QED
  BY <1>2, <1>3, <1>4, <1>5

\* Clearing the flags of a unit, and handing it an instruction.
LEMMA FuUpdate ==
  ASSUME NEW u \in FuType
  PROVE  /\ [u EXCEPT !.cpsr = {}] \in FuType
         /\ \A x \in InstrType, v \in Nat :
              [u EXCEPT !.ir = x, !.rt = v] \in FuType
<1>1. {} \in SUBSET Flags
  OBVIOUS
<1>2. [u EXCEPT !.cpsr = {}] \in FuType
  BY ONLY <1>1, u \in FuType DEF FuType
<1>3. ASSUME NEW x \in InstrType, NEW v \in Nat
      PROVE  [u EXCEPT !.ir = x, !.rt = v] \in FuType
  <2>1. x \in InstrType \cup {NoInstr}
    OBVIOUS
  <2> HIDE DEF InstrType
  <2> QED
    BY ONLY <2>1, v \in Nat, u \in FuType DEF FuType
<1> QED
  BY <1>2, <1>3

\* Neither disturbs what it does not name.
LEMMA FuFrame ==
  ASSUME NEW u \in FuType, NEW x, NEW v, NEW r
  PROVE  /\ [u EXCEPT !.cpsr = {}].ir = u.ir /\ [u EXCEPT !.cpsr = {}].at = u.at
         /\ [u EXCEPT !.cpsr = {}].i = u.i
         /\ [u EXCEPT !.ir = x, !.rt = v].ir = x
         /\ [u EXCEPT !.ir = x, !.rt = v].at = u.at
         /\ [u EXCEPT !.ir = x, !.rt = v].i = u.i
         /\ [u EXCEPT !.r = r].ir = u.ir
BY DEF FuType

\* CLRC leaves the units their instructions.
LEMMA ClearFrame ==
  ASSUME TypeOK
  PROVE  /\ ClearCpsr \in [FUs -> FuType]
         /\ \A g \in FUs : ClearCpsr[g].ir = fu[g].ir /\ ClearCpsr[g].at = fu[g].at
                             /\ ClearCpsr[g].i = fu[g].i
<1>1. ASSUME NEW g \in FUs
      PROVE  /\ ClearCpsr[g] \in FuType
             /\ ClearCpsr[g].ir = fu[g].ir /\ ClearCpsr[g].at = fu[g].at
             /\ ClearCpsr[g].i = fu[g].i
  <2>1. fu[g] \in FuType /\ ClearCpsr[g] = [fu[g] EXCEPT !.cpsr = {}]
    BY DEF TypeOK, ClearCpsr
  <2>2. [fu[g] EXCEPT !.cpsr = {}] \in FuType
    BY <2>1, FuUpdate
  <2>3. /\ [fu[g] EXCEPT !.cpsr = {}].ir = fu[g].ir
        /\ [fu[g] EXCEPT !.cpsr = {}].at = fu[g].at
        /\ [fu[g] EXCEPT !.cpsr = {}].i = fu[g].i
    BY ONLY <2>1, FuFrame
  <2> QED
    BY ONLY <2>1, <2>2, <2>3
<1>2. ClearCpsr = [g \in FUs |-> ClearCpsr[g]]
  BY DEF ClearCpsr
<1> QED
  BY <1>1, <1>2

\* A unit's end or its next round is well typed.
LEMMA ContinueType ==
  ASSUME TypeOK, NEW f \in FUs, NEW u \in FuType,
         regs' \in RegsType, Continue(f, u)
  PROVE  fu' \in [FUs -> FuType] /\ status' \in [Loc -> BOOLEAN]
           /\ due' \in [Procs -> Nat]
<1>1. ASSUME NEW m \in Waits(u, regs') PROVE [u EXCEPT !.r = m] \in FuType
  BY DEF Waits, FuType
<1>2. EndCpsr(u) \in SUBSET Flags
  BY DEF EndCpsr, FuType, Flags
<1>3. [u EXCEPT !.ir = NoInstr, !.at = "top", !.cpsr = EndCpsr(u), !.i = 0,
                !.k = 0, !.n = 0, !.r = 0] \in FuType
  <2>1. 0 \in SsIdx /\ 0 \in 0 .. NSvMax
    BY DEF SsIdx
  <2> QED
    BY <1>2, <2>1 DEF FuType
<1>4. Delay(u) \in Nat
  BY DEF Delay, FuType
<1>5. f \in Procs
  BY DEF Procs
<1>6. ASSUME NEW w \in FuType PROVE [fu EXCEPT ![f] = w] \in [FUs -> FuType]
  BY DEF TypeOK
<1>7. ASSUME NEW n \in Nat PROVE [due EXCEPT ![f] = n] \in [Procs -> Nat]
  BY <1>5 DEF TypeOK
<1>8. CASE Waits(u, regs') = {}
  <2>1. /\ fu' = [fu EXCEPT ![f] = [u EXCEPT !.ir = NoInstr, !.at = "top",
                   !.cpsr = EndCpsr(u), !.i = 0, !.k = 0, !.n = 0, !.r = 0]]
        /\ status' = [l \in Loc |->
                        status[l] \/ l \in Free(u.ir.op, u.i, u.k, u.d)]
        /\ Wait(f, 1)
    BY <1>8 DEF Continue, Released
  <2>2. status' \in [Loc -> BOOLEAN]
    BY ONLY <2>1
  <2> QED
    BY <1>3, <1>6, <1>7, <2>1, <2>2 DEF Wait
<1>9. CASE Waits(u, regs') # {}
  <2>1. PICK m \in Waits(u, regs') :
          /\ fu' = [fu EXCEPT ![f] = [u EXCEPT !.r = m]]
          /\ Wait(f, Delay(u))
          /\ UNCHANGED status
    BY <1>9 DEF Continue
  <2> QED
    BY <1>1, <1>4, <1>6, <1>7, <2>1 DEF Wait, TypeOK
<1> QED
  BY <1>8, <1>9

\* A unit at the start of an operation is well typed, and so are the registers.
LEMMA StartType ==
  ASSUME TypeOK, NEW f \in FUs, NEW test \in {"pass", "fail"}
  PROVE  StartRegs(fu[f].ir.op, test) \in RegsType /\ StartFu(f, test) \in FuType
<1>1. fu[f] \in FuType
  BY DEF TypeOK
<1>2. StartRegs(fu[f].ir.op, test) \in RegsType
  <2>1. regs \in RegsType
    BY DEF TypeOK
  <2>2. (IF fu[f].ir.op = "NEWSV" /\ regs.N_sv < NSvMax
           THEN regs.N_sv + 1 ELSE regs.N_sv) \in 0 .. NSvMax
    BY <2>1 DEF RegsType
  <2>3. (IF fu[f].ir.op = "NEWSS" /\ regs.N_ss < NSsMax
           THEN regs.N_ss + 1 ELSE regs.N_ss) \in 0 .. NSsMax
    BY <2>1 DEF RegsType
  <2>4. (IF fu[f].ir.op = "TSTL" /\ test = "fail"
           THEN regs.idx_faulty_sv \cup {regs.tst_i} ELSE regs.idx_faulty_sv)
          \in SUBSET Nat
    BY <2>1 DEF RegsType
  <2> QED
    BY <2>1, <2>2, <2>3, <2>4 DEF StartRegs, RegsType
<1>3. StartCpsr(f, test) \in SUBSET Flags
  BY <1>1 DEF StartCpsr, FuType, Flags
<1>4. regs.N_sv \in 0 .. NSvMax /\ 3 + regs.N_const \in Nat
        /\ fu[f].rt \div 4 \in Nat
  <2>1. regs.N_sv \in 0 .. NSvMax /\ 3 + regs.N_const \in Nat
    <3>1. regs.N_sv \in 0 .. NSvMax /\ regs.N_const \in Byte
      BY DEF TypeOK, RegsType
    <3> QED
      BY <3>1 DEF Byte
  <2>2. fu[f].rt \in Nat
    BY <1>1 DEF FuType
  <2>3. \A v \in Nat : v \div 4 \in Nat
    OBVIOUS
  <2> QED
    BY <2>1, <2>2, <2>3
<1>5. Rounds(fu[f].ir.op) \in Nat
  BY <1>4 DEF Rounds
<1>6. StartFu(f, test) \in FuType
  BY <1>1, <1>3, <1>4, <1>5 DEF StartFu, FuType
<1> QED
  BY <1>2, <1>6

\* A slice of a unit.
LEMMA FuStepType ==
  ASSUME TypeOK, NEW f \in FUs, FuStep(f)
  PROVE  TypeOK'
<1>1. /\ UNCHANGED <<instr_q, rt_val_q, ir, rt, rpu_cpsr, stalled, subset>>
      /\ fu[f] \in FuType
  BY DEF FuStep, queueVars, cpuVars, TypeOK
<1>2. regs' \in RegsType /\ fu' \in [FUs -> FuType]
        /\ status' \in [Loc -> BOOLEAN] /\ due' \in [Procs -> Nat]
  <2>1. CASE FuIdle(f)
    <3>1. f \in Procs
      BY DEF Procs
    <3> QED
      BY <2>1, <3>1 DEF FuIdle, Wait, TypeOK
  <2>2. CASE FuStart(f)
    <3>1. PICK test \in Outcomes(fu[f].ir.op) :
            regs' = StartRegs(fu[f].ir.op, test) /\ Continue(f, StartFu(f, test))
      BY <2>2 DEF FuStart, FuBegin
    <3>2. test \in {"pass", "fail"}
      BY DEF Outcomes
    <3>3. regs' \in RegsType /\ StartFu(f, test) \in FuType
      BY <3>1, <3>2, StartType
    <3> QED
      BY <3>1, <3>3, ContinueType
  <2>3. CASE FuResume(f)
    BY <1>1, <2>3, ContinueType DEF FuResume, TypeOK
  <2> QED
    BY <2>1, <2>2, <2>3 DEF FuStep
<1> QED
  BY <1>1, <1>2 DEF TypeOK

\* Decoding a word that came through the queue.
LEMMA DecodeType ==
  ASSUME TypeOK, NEW x \in InstrType, NEW v \in Nat, NEW d,
         Decode(x, v, d)
  PROVE  /\ ir' \in InstrType \cup {NoInstr} /\ rt' \in Nat
         /\ status' \in [Loc -> BOOLEAN] /\ fu' \in [FUs -> FuType]
<1>1. 0 \in Nat
  OBVIOUS
<1>2. CASE x.op = "NOP" \/ x.op = "BAD" \/ ~Ready(x, d)
  BY <1>1, <1>2 DEF Decode, TypeOK, Ops
<1>3. CASE x.op \in Ops /\ Ready(x, d)
  <2> DEFINE base == IF x.op = "NEWSS" THEN ClearCpsr ELSE fu
  <2>1. base \in [FUs -> FuType]
    BY ClearFrame DEF TypeOK
  <2>2. status' = [l \in Loc |->
                     status[l] /\ l \notin Claim(x.op, regs.N_sv, regs.N_ss, d)]
    BY <1>3 DEF Decode, Claimed, Ops
  <2>3. status' \in [Loc -> BOOLEAN]
    BY ONLY <2>2
  <2>4. \/ \E f \in FUs : /\ fu' = [base EXCEPT ![f].ir = x, ![f].rt = v]
                          /\ ir' = NoInstr /\ rt' = 0
        \/ fu' = base /\ ir' = x /\ rt' = v
    BY <1>3 DEF Decode, Claimed, Ops
  <2>5. ASSUME NEW f \in FUs
        PROVE  [base EXCEPT ![f].ir = x, ![f].rt = v] \in [FUs -> FuType]
    <3> HIDE DEF base
    <3>1. [base[f] EXCEPT !.ir = x, !.rt = v] \in FuType
      BY <2>1, FuUpdate
    <3> QED
      BY <2>1, <3>1
  <2> HIDE DEF base
  <2> QED
    BY <1>1, <2>1, <2>3, <2>4, <2>5
<1> QED
  BY <1>2, <1>3 DEF Decode

\* A slice of the decoder.
LEMMA CopStepType ==
  ASSUME TypeOK, CopStep
  PROVE  TypeOK'
<1>1. UNCHANGED <<stalled, subset>> /\ due' \in [Procs -> Nat]
  BY DEF CopStep, cpuVars, Wait, TypeOK, Procs
<1>2. /\ instr_q' \in Seq(InstrType) /\ rt_val_q' \in Seq(Nat)
      /\ ir' \in InstrType \cup {NoInstr} /\ rt' \in Nat
      /\ status' \in [Loc -> BOOLEAN] /\ fu' \in [FUs -> FuType]
      /\ regs' \in RegsType
  <2>1. CASE CopIdle
    BY <2>1 DEF CopIdle, queueVars, TypeOK
  <2>2. CASE CopFetch
    <3> DEFINE x == Head(instr_q)
               v == IF Dequeued(x) THEN Head(rt_val_q) ELSE rt
    <3>1. x \in InstrType /\ instr_q' \in Seq(InstrType)
      BY <2>2 DEF CopFetch, TypeOK
    <3>2. v \in Nat
      BY DEF Dequeued, TypeOK
    <3>3. rt_val_q' \in Seq(Nat)
      <4>1. rt_val_q \in Seq(Nat)
        BY DEF TypeOK
      <4>2. \/ rt_val_q' = rt_val_q
            \/ rt_val_q # <<>> /\ rt_val_q' = Tail(rt_val_q)
        BY <2>2 DEF CopFetch, Dequeued
      <4>3. rt_val_q # <<>> => Tail(rt_val_q) \in Seq(Nat)
        BY ONLY <4>1
      <4> QED
        BY ONLY <4>1, <4>2, <4>3
    <3>4. regs' \in RegsType
      <4>1. v \in Nat /\ regs \in RegsType
        BY <3>2 DEF TypeOK
      <4>2. regs' = IF x.fmt = "MT" THEN SetRegs(regs, x.reg, v) ELSE regs
        BY <2>2 DEF CopFetch
      <4> HIDE DEF x, v
      <4> QED
        BY <4>1, <4>2, SetRegsType
    <3>5. \/ Decode(x, v, 0)
          \/ ir' = x /\ rt' = v /\ UNCHANGED <<status, fu>>
      BY <2>2 DEF CopFetch
    <3> HIDE DEF x, v
    <3> QED
      BY <3>1, <3>2, <3>3, <3>4, <3>5, DecodeType DEF TypeOK
  <2>3. CASE CopRetry
    <3>1. ir \in InstrType /\ rt \in Nat
      BY <2>3 DEF CopRetry, TypeOK
    <3> QED
      BY <2>3, <3>1, DecodeType DEF CopRetry, queueVars, TypeOK
  <2> QED
    BY <2>1, <2>2, <2>3 DEF CopStep
<1>3. rpu_cpsr' \in SUBSET Flags
  <2>1. \A f \in FUs : fu'[f].cpsr \in SUBSET Flags
    BY <1>2 DEF FuType
  <2> QED
    BY <2>1 DEF CopStep, Publish, Flags
<1> QED
  BY <1>1, <1>2, <1>3 DEF TypeOK

\* A slice of the CPU.
LEMMA CpuStepType ==
  ASSUME TypeOK, CpuStep
  PROVE  TypeOK'
<1>1. due' \in [Procs -> Nat]
  BY DEF CpuStep, Wait, TypeOK, Procs
<1>2. ClearCpsr \in [FUs -> FuType]
  BY ClearFrame
<1>3. CASE CpuIssue
  <2>1. PICK x \in InstrType : CpuEnqueue(x)
    BY <1>3 DEF CpuIssue, Offered, TypeOK
  <2>2. x.rt \in Nat
    BY DEF InstrType
  <2>3. /\ instr_q' \in Seq(InstrType) /\ rt_val_q' \in Seq(Nat)
        /\ stalled' \in InstrType \cup {NoInstr} /\ subset' \in Nat
    <3>1. instr_q \in Seq(InstrType) /\ rt_val_q \in Seq(Nat) /\ subset \in Nat
      BY DEF TypeOK
    <3>2. instr_q' = Append(instr_q, x) \/ instr_q' = instr_q
      BY <2>1 DEF CpuEnqueue, queueVars
    <3>3. rt_val_q' = Append(rt_val_q, x.rt) \/ rt_val_q' = rt_val_q
      BY <2>1 DEF CpuEnqueue, queueVars
    <3>4. stalled' \in {x, NoInstr} /\ subset' \in {subset, subset + 1}
      BY <2>1 DEF CpuEnqueue
    <3> HIDE DEF InstrType
    <3>5. instr_q' \in Seq(InstrType)
      BY ONLY <3>1, <3>2, x \in InstrType
    <3>6. rt_val_q' \in Seq(Nat)
      <4> DEFINE V == Nat
      <4>1. x.rt \in V /\ rt_val_q \in Seq(V)
        BY <2>2, <3>1
      <4> HIDE DEF V
      <4>2. rt_val_q' \in Seq(V)
        BY ONLY <3>3, <4>1
      <4> QED
        BY <4>2 DEF V
    <3>7. stalled' \in InstrType \cup {NoInstr} /\ subset' \in Nat
      BY ONLY <3>1, <3>4, x \in InstrType
    <3> QED
      BY ONLY <3>5, <3>6, <3>7
  <2> QED
    BY <1>1, <1>3, <2>3 DEF CpuIssue, copVars, TypeOK
<1>4. ASSUME NEW x \in Loads, CpuLoad(x) PROVE TypeOK'
  <2>1. regs' \in RegsType
    BY <1>4, SetRegsType DEF CpuLoad, TypeOK
  <2> QED
    BY <1>1, <1>4, <2>1 DEF CpuLoad, queueVars, TypeOK
<1>5. CASE CpuRst
  <2>1. ResetRegs \in RegsType
    <3>1. 0 \in Byte
      BY DEF Byte
    <3> QED
      BY <3>1 DEF ResetRegs, RegsType
  <2> QED
    BY <1>1, <1>2, <1>5, <2>1 DEF CpuRst, queueVars, TypeOK
<1>6. CASE CpuClrc
  <2>1. regs' \in RegsType
    BY <1>6 DEF CpuClrc, RegsType, TypeOK
  <2> QED
    BY <1>1, <1>2, <1>6, <2>1 DEF CpuClrc, queueVars, TypeOK
<1>7. CASE CpuOther
  BY <1>1, <1>7 DEF CpuOther, queueVars, copVars, TypeOK
<1> QED
  BY <1>3, <1>4, <1>5, <1>6, <1>7 DEF CpuStep

\* Every slice keeps the types.
LEMMA NextType == TypeOK /\ [Next]_vars => TypeOK'
<1> SUFFICES ASSUME TypeOK, [Next]_vars PROVE TypeOK'
  OBVIOUS
<1>1. CASE Tick
  <2>1. due' \in [Procs -> Nat]
    BY <1>1 DEF Tick, TypeOK
  <2> QED
    BY <1>1, <2>1 DEF Tick, queueVars, copVars, cpuVars, TypeOK
<1>2. CASE CopStep
  BY <1>2, CopStepType
<1>3. CASE \E f \in FUs : FuStep(f)
  BY <1>3, FuStepType
<1>4. CASE CpuStep
  BY <1>4, CpuStepType
<1>5. CASE UNCHANGED vars
  BY <1>5 DEF vars, TypeOK
<1> QED
  BY <1>1, <1>2, <1>3, <1>4, <1>5 DEF Next

\* The values stay those that the members can hold: in particular N_sv and
\* N_ss never leave their saturation bounds.
THEOREM TypeCorrect == Spec => []TypeOK
BY InitType, NextType, PTL DEF Spec

----------------------------------------------------------------------------
(* Exclusive use of the guarded registers.                                 *)

\* The guarded registers of an operation: the same at its test, its claim and
\* its release, and dependent on the row alone.
GuardOf(op, i) ==
  CASE op = "NEWSV" -> {SigF, NSvF} \cup (IF i < NSvMax THEN {} ELSE {UF})
    [] op \in {"CALCU", "CALCP"} -> {UF}
    [] op = "INITP" -> {UF, AlphaF}
    [] op = "MULY" -> {YF}
    [] op = "TSTG" -> {KFaF}
    [] op = "TSTL" -> {YF, KFaRF}
    [] OTHER -> {}

\* What unit f holds of the guarded registers.
GuardHeld(f) == IF Idle(f) THEN {} ELSE GuardOf(fu[f].ir.op, Row(f))

\* An operation gives back the guarded flags that GuardOf names.
LEMMA GuardedFree ==
  ASSUME NEW op, NEW i \in 0 .. NSvMax, NEW k, NEW d
  PROVE  Free(op, i, k, d) \cap Guarded = GuardOf(op, i)
BY DEF Free, GuardOf, Guarded, AlphaF, YF, UF, KFaF, KFaRF, NSvF, SigF, GF,
       BNomF, SF, IdxSsF, SigSsF, SprF, WSqrtFs, WAccSqrtFs, SprFs, WSqrtF,
       WAccSqrtF

\* It has tested and claimed them before.
LEMMA GuardedClaim ==
  ASSUME NEW op, NEW i \in 0 .. NSvMax, NEW k, NEW d
  PROVE  GuardOf(op, i) \subseteq Claim(op, i, k, d) \cap Need(op, i, k, d)
BY DEF Claim, Need, GuardOf, AlphaF, YF, UF, KFaF, KFaRF, NSvF, SigF, WAccSqrtF

\* Only NEWSV's depend on the row, and those of row 0 are the fewest.
LEMMA GuardOfRow ==
  ASSUME NEW op, NEW i \in 0 .. NSvMax, NEW j \in 0 .. NSvMax
  PROVE  /\ GuardOf(op, 0) \subseteq GuardOf(op, i)
         /\ op # "NEWSV" => GuardOf(op, i) = GuardOf(op, j)
         /\ op = "NEWSV" => NSvF \in GuardOf(op, i)
         /\ GuardOf(op, i) \subseteq Guarded
BY DEF GuardOf, Guarded

\* The row of a unit is in the tables, or the one behind them.
LEMMA RowType ==
  ASSUME TypeOK, NEW f \in FUs
  PROVE  Row(f) \in 0 .. NSvMax
BY DEF TypeOK, RegsType, FuType, Row

\* Exclusive, in terms of what the units hold of the guarded registers.
GuardExclusive ==
  \A f \in FUs : \A l \in GuardHeld(f) :
    ~status[l] /\ \A g \in FUs : l \in GuardHeld(g) => g = f

\* GuardExclusive is Exclusive.
LEMMA GuardExclusiveIff == TypeOK => (Exclusive <=> GuardExclusive)
<1> SUFFICES ASSUME TypeOK PROVE Exclusive <=> GuardExclusive
  OBVIOUS
<1>1. \A f \in FUs : Held(f) \cap Guarded = GuardHeld(f)
  BY RowType, GuardedFree DEF Held, GuardHeld
<1> QED
  BY <1>1 DEF Exclusive, GuardExclusive

\* A step after which every unit holds at most what it held, and every flag
\* of what it still holds is as it was or down.
LEMMA Shrink ==
  ASSUME GuardExclusive,
         \A f \in FUs : GuardHeld(f)' \subseteq GuardHeld(f),
         \A f \in FUs : \A l \in GuardHeld(f)' : ~status[l] => ~status'[l]
  PROVE  GuardExclusive'
<1> SUFFICES ASSUME NEW f \in FUs, NEW l \in GuardHeld(f)'
             PROVE  /\ ~status'[l]
                    /\ \A g \in FUs : l \in GuardHeld(g)' => g = f
  BY DEF GuardExclusive
<1>1. l \in GuardHeld(f)
  OBVIOUS
<1>2. ~status'[l]
  BY <1>1 DEF GuardExclusive
<1>3. ASSUME NEW g \in FUs, l \in GuardHeld(g)' PROVE g = f
  BY <1>1, <1>3 DEF GuardExclusive
<1> QED
  BY <1>2, <1>3

\* The instruction and the row of a unit decide what it holds.
LEMMA SameHeld ==
  ASSUME NEW f \in FUs, fu'[f].ir = fu[f].ir, Row(f)' = Row(f)
  PROVE  GuardHeld(f)' = GuardHeld(f)
BY DEF GuardHeld, Idle

\* set_regs does not move the row cursor.
LEMMA SetRegsRow ==
  ASSUME NEW rg \in RegsType, NEW reg, NEW v
  PROVE  SetRegs(rg, reg, v).N_sv = rg.N_sv
BY DEF SetRegs, RegsType

\* The guarded flags are flags.
LEMMA GuardedLoc == Guarded \subseteq Loc
BY DEF Guarded, Loc

\* The release at a unit's end, or its next round.
LEMMA ContinueExclusive ==
  ASSUME TypeOK, TypeOK', GuardExclusive, NEW f \in FUs, NEW u \in FuType,
         ~Idle(f), u.ir = fu[f].ir, u.at = "loop", u.i = Row(f),
         \A g \in FUs : g # f => (fu'[g] = fu[g] => GuardHeld(g)' = GuardHeld(g)),
         Continue(f, u)
  PROVE  GuardExclusive'
<1>1. fu \in [FUs -> FuType] /\ status \in [Loc -> BOOLEAN]
  BY DEF TypeOK
<1>2. GuardHeld(f) = GuardOf(u.ir.op, u.i)
  BY DEF GuardHeld
<1>3. CASE Waits(u, regs') = {}
  <2>1. /\ fu' = [fu EXCEPT ![f] = [u EXCEPT !.ir = NoInstr, !.at = "top",
                   !.cpsr = EndCpsr(u), !.i = 0, !.k = 0, !.n = 0, !.r = 0]]
        /\ status' = [l \in Loc |->
                        status[l] \/ l \in Free(u.ir.op, u.i, u.k, u.d)]
    BY <1>3 DEF Continue, Released
  <2>2. fu'[f].ir = NoInstr
    BY <1>1, <2>1 DEF FuType
  <2>3. GuardHeld(f)' = {}
    BY <2>2 DEF GuardHeld, Idle
  <2>4. \A g \in FUs : g # f => GuardHeld(g)' = GuardHeld(g)
    BY <1>1, <2>1
  <2>5. ASSUME NEW g \in FUs, NEW l \in GuardHeld(g)', ~status[l]
        PROVE  ~status'[l]
    <3>1. g # f /\ l \in GuardHeld(g)
      BY <2>3, <2>4, <2>5
    <3>2. l \notin GuardHeld(f)
      BY <3>1 DEF GuardExclusive
    <3>3. Row(g) \in 0 .. NSvMax /\ u.i \in 0 .. NSvMax
      BY RowType DEF FuType
    <3>4. l \in Guarded
      BY <3>1, <3>3, GuardOfRow DEF GuardHeld
    <3>5. l \notin Free(u.ir.op, u.i, u.k, u.d)
      BY <1>2, <3>2, <3>3, <3>4, GuardedFree
    <3>6. l \in Loc
      BY <3>4, GuardedLoc
    <3> QED
      BY ONLY <2>1, <2>5, <3>5, <3>6, Zenon
  <2> QED
    BY <2>3, <2>4, <2>5, Shrink
<1>4. CASE Waits(u, regs') # {}
  <2>1. PICK m \in Waits(u, regs') :
          fu' = [fu EXCEPT ![f] = [u EXCEPT !.r = m]] /\ UNCHANGED status
    BY <1>4 DEF Continue
  <2>2. fu'[f].ir = u.ir /\ fu'[f].at = "loop" /\ fu'[f].i = u.i
    BY <1>1, <2>1 DEF FuType
  <2>3. GuardHeld(f)' = GuardHeld(f)
    BY <2>2, SameHeld DEF Row
  <2>4. \A g \in FUs : g # f => GuardHeld(g)' = GuardHeld(g)
    BY <1>1, <2>1
  <2> QED
    BY <2>1, <2>3, <2>4, Shrink
<1> QED
  BY <1>3, <1>4

\* A unit in the middle of an operation holds its instruction.
LoopBusy == \A f \in FUs : fu[f].at = "loop" => ~Idle(f)

\* A slice of a unit.  NEWSV moves the row cursor as it starts; no other NEWSV
\* is then waiting to start, for both would hold N_sv.
LEMMA FuStepExclusive ==
  ASSUME TypeOK, TypeOK', GuardExclusive, LoopBusy, NEW f \in FUs, FuStep(f)
  PROVE  GuardExclusive'
<1>1. fu[f] \in FuType /\ regs \in RegsType /\ fu \in [FUs -> FuType]
  BY DEF TypeOK
<1>2. CASE FuIdle(f)
  <2>1. \A g \in FUs : GuardHeld(g)' = GuardHeld(g)
    BY <1>2, SameHeld DEF FuIdle, Row
  <2> QED
    BY <1>2, <2>1, Shrink DEF FuIdle
<1>3. CASE FuStart(f)
  <2>1. PICK test \in Outcomes(fu[f].ir.op) :
          regs' = StartRegs(fu[f].ir.op, test) /\ Continue(f, StartFu(f, test))
    BY <1>3 DEF FuStart, FuBegin
  <2>2. ~Idle(f) /\ Row(f) = regs.N_sv
    BY <1>3 DEF FuStart, FuBegin, Row
  <2>3. StartFu(f, test) \in FuType
    BY <2>1, StartType DEF Outcomes
  <2>4. /\ StartFu(f, test).ir = fu[f].ir /\ StartFu(f, test).at = "loop"
        /\ StartFu(f, test).i = Row(f)
    BY <1>1, <2>2 DEF StartFu, FuType
  <2>5. ASSUME NEW g \in FUs, g # f, fu'[g] = fu[g]
        PROVE  GuardHeld(g)' = GuardHeld(g)
    <3>1. CASE fu[f].ir.op # "NEWSV"
      <4>1. regs'.N_sv = regs.N_sv
        BY <1>1, <2>1, <3>1 DEF StartRegs, RegsType
      <4> QED
        BY <2>5, <4>1, SameHeld DEF Row
    <3>2. CASE fu[f].ir.op = "NEWSV" /\ Idle(g)
      BY <2>5, <3>2 DEF GuardHeld, Idle
    <3>3. CASE fu[f].ir.op = "NEWSV" /\ ~Idle(g)
      <4>1. NSvF \in GuardHeld(f)
        BY <2>2, <3>3, RowType, GuardOfRow DEF GuardHeld
      <4>2. NSvF \notin GuardHeld(g)
        BY <2>5, <4>1 DEF GuardExclusive
      <4>3. Row(g) \in 0 .. NSvMax /\ Row(g)' \in 0 .. NSvMax
        <5>1. regs'.N_sv \in 0 .. NSvMax /\ fu'[g].i \in 0 .. NSvMax
          BY DEF TypeOK, RegsType, FuType
        <5> QED
          BY <5>1, RowType DEF Row
      <4>4. fu[g].ir.op # "NEWSV"
        BY <3>3, <4>2, <4>3, GuardOfRow DEF GuardHeld
      <4> QED
        BY <2>5, <4>3, <4>4, GuardOfRow DEF GuardHeld, Idle
    <3> QED
      BY <3>1, <3>2, <3>3
  <2> QED
    BY <2>1, <2>2, <2>3, <2>4, <2>5, ContinueExclusive
<1>4. CASE FuResume(f)
  <2>1. fu[f].at = "loop" /\ UNCHANGED regs /\ Continue(f, fu[f])
    BY <1>4 DEF FuResume
  <2>2. ~Idle(f)
    BY <2>1 DEF LoopBusy
  <2>3. fu[f].i = Row(f)
    BY <2>1 DEF Row
  <2>4. \A g \in FUs : g # f => (fu'[g] = fu[g] => GuardHeld(g)' = GuardHeld(g))
    BY <2>1, SameHeld DEF Row
  <2> QED
    BY <1>1, <2>1, <2>2, <2>3, <2>4, ContinueExclusive
<1> QED
  BY <1>2, <1>3, <1>4 DEF FuStep

\* The decoder: it claims only flags that it has found up, so no unit holds
\* what the instruction takes.
LEMMA DecodeExclusive ==
  ASSUME TypeOK, GuardExclusive, LoopBusy,
         NEW x \in InstrType, NEW v, NEW d, regs'.N_sv = regs.N_sv, Decode(x, v, d)
  PROVE  GuardExclusive'
<1>1. fu \in [FUs -> FuType] /\ regs \in RegsType
  BY DEF TypeOK
<1>2. CASE status' = status /\ fu' = fu
  BY <1>2, SameHeld, Shrink DEF Row
<1>3. CASE x.op \in Ops /\ Ready(x, d)
  <2> DEFINE base == IF x.op = "NEWSS" THEN ClearCpsr ELSE fu
  <2>1. status' = [l \in Loc |->
                     status[l] /\ l \notin Claim(x.op, regs.N_sv, regs.N_ss, d)]
    BY <1>3 DEF Decode, Claimed, Ops
  <2>2. \/ \E f \in FUs : Idle(f) /\ fu' = [base EXCEPT ![f].ir = x, ![f].rt = v]
        \/ fu' = base
    BY <1>3 DEF Decode, Ops, FirstOpen
  <2>3. /\ base \in [FUs -> FuType]
        /\ \A g \in FUs : base[g].ir = fu[g].ir /\ base[g].at = fu[g].at
                            /\ base[g].i = fu[g].i
    BY <1>1, ClearFrame
  <2> HIDE DEF base
  <2>4. ASSUME NEW g \in FUs, NEW l \in GuardHeld(g) PROVE ~status'[l]
    <3>1. l \in Loc
      BY RowType, GuardOfRow, GuardedLoc DEF GuardHeld
    <3>2. ~status[l]
      BY <2>4 DEF GuardExclusive
    <3> QED
      BY ONLY <2>1, <3>1, <3>2, Zenon
  <2>5. CASE fu' = base
    <3>1. \A g \in FUs : GuardHeld(g)' = GuardHeld(g)
      BY <2>3, <2>5, SameHeld DEF Row
    <3> QED
      BY <2>4, <3>1, Shrink
  <2>6. ASSUME NEW f \in FUs, Idle(f), fu' = [base EXCEPT ![f].ir = x, ![f].rt = v]
        PROVE  GuardExclusive'
    <3>1. ASSUME NEW g \in FUs, g # f PROVE GuardHeld(g)' = GuardHeld(g)
      <4>1. fu'[g] = base[g]
        BY <2>3, <2>6, <3>1
      <4> QED
        BY <2>3, <4>1, SameHeld DEF Row
    <3>2. GuardHeld(f) = {}
      BY <2>6 DEF GuardHeld
    <3>3. fu'[f].ir = x
      BY <2>3, <2>6 DEF FuType
    <3>4. ASSUME NEW l \in GuardHeld(f)'
          PROVE  ~status'[l] /\ \A g \in FUs : g # f => l \notin GuardHeld(g)
      <4>1. Row(f)' \in 0 .. NSvMax /\ regs.N_sv \in 0 .. NSvMax
        <5>1. fu'[f].i = fu[f].i /\ fu'[f].at = fu[f].at
          BY <2>3, <2>6 DEF FuType
        <5> QED
          BY <1>1, <5>1 DEF Row, FuType, RegsType
      <4>2. l \in GuardOf(x.op, Row(f)')
        BY <3>3 DEF GuardHeld
      <4>3. l \in GuardOf(x.op, regs.N_sv)
        <5>1. fu'[f].at = fu[f].at
          BY <2>3, <2>6 DEF FuType
        <5>2. fu[f].at # "loop" /\ fu[f].at \in {"top", "loop"}
          BY <1>1, <2>6 DEF LoopBusy, FuType
        <5>3. Row(f)' = regs'.N_sv
          BY <5>1, <5>2 DEF Row
        <5> QED
          BY <4>2, <5>3
      <4>4. /\ l \in Claim(x.op, regs.N_sv, regs.N_ss, d)
            /\ l \in Need(x.op, regs.N_sv, regs.N_ss, d)
        BY <4>1, <4>3, GuardedClaim
      <4>5. status[l]
        BY <1>3, <4>4 DEF Ready
      <4>6. l \in Loc
        BY <4>1, <4>3, GuardOfRow, GuardedLoc
      <4>7. ~status'[l]
        BY ONLY <2>1, <4>4, <4>6, Zenon
      <4> QED
        BY <4>5, <4>7 DEF GuardExclusive
    <3> QED
      BY <2>4, <3>1, <3>4 DEF GuardExclusive
  <2> QED
    BY <2>2, <2>5, <2>6
<1> QED
  BY <1>2, <1>3 DEF Decode

\* The decoder hands out no register that has an owner.
LEMMA CopStepExclusive ==
  ASSUME TypeOK, GuardExclusive, LoopBusy, CopStep
  PROVE  GuardExclusive'
<1>1. CASE CopIdle
  <2>1. \A g \in FUs : GuardHeld(g)' = GuardHeld(g)
    BY <1>1, SameHeld DEF CopIdle, Row
  <2> QED
    BY <1>1, <2>1, Shrink DEF CopIdle
<1>2. CASE CopFetch
  <2> DEFINE x == Head(instr_q)
             v == IF Dequeued(x) THEN Head(rt_val_q) ELSE rt
  <2>1. x \in InstrType
    BY <1>2 DEF CopFetch, TypeOK
  <2>2. /\ regs' = IF x.fmt = "MT" THEN SetRegs(regs, x.reg, v) ELSE regs
        /\ Decode(x, v, 0) \/ UNCHANGED <<status, fu>>
    BY <1>2 DEF CopFetch
  <2> HIDE DEF x, v
  <2>3. regs'.N_sv = regs.N_sv
    BY <2>2, SetRegsRow DEF TypeOK
  <2>4. CASE UNCHANGED <<status, fu>>
    <3>1. \A g \in FUs : GuardHeld(g)' = GuardHeld(g)
      BY <2>3, <2>4, SameHeld DEF Row
    <3> QED
      BY <2>4, <3>1, Shrink
  <2> QED
    BY <2>1, <2>2, <2>3, <2>4, DecodeExclusive
<1>3. CASE CopRetry
  <2>1. ir \in InstrType /\ Decode(ir, rt, ir.d) /\ regs'.N_sv = regs.N_sv
    BY <1>3 DEF CopRetry, TypeOK
  <2> QED
    BY <2>1, DecodeExclusive
<1> QED
  BY <1>1, <1>2, <1>3 DEF CopStep

\* The CPU takes no flag; RST moves the row of the NEWSV still to start to 0.
LEMMA CpuStepExclusive ==
  ASSUME TypeOK, GuardExclusive, CpuStep
  PROVE  GuardExclusive'
<1>1. /\ UNCHANGED status
      /\ regs'.N_sv = regs.N_sv \/ regs'.N_sv = 0
  <2>1. \A y \in Loads : SetRegs(regs, y.reg, y.val).N_sv = regs.N_sv
    BY SetRegsRow DEF TypeOK
  <2>2. ResetRegs.N_sv = 0 /\ [regs EXCEPT !.idx_faulty_sv = {}].N_sv = regs.N_sv
    BY DEF ResetRegs, TypeOK, RegsType
  <2> QED
    BY <2>1, <2>2 DEF CpuStep, CpuIssue, CpuLoad, CpuRst, CpuClrc, CpuOther, copVars
<1>2. \A g \in FUs : fu'[g].ir = fu[g].ir /\ fu'[g].at = fu[g].at
                       /\ fu'[g].i = fu[g].i
  <2>1. fu' = fu \/ fu' = ClearCpsr
    BY DEF CpuStep, CpuIssue, CpuLoad, CpuRst, CpuClrc, CpuOther, copVars
  <2> QED
    BY <2>1, ClearFrame
<1>3. ASSUME NEW g \in FUs PROVE GuardHeld(g)' \subseteq GuardHeld(g)
  <2>1. Row(g) \in 0 .. NSvMax
    BY RowType
  <2>2. Row(g)' = Row(g) \/ Row(g)' = 0
    BY <1>1, <1>2 DEF Row
  <2> QED
    BY <1>2, <2>1, <2>2, GuardOfRow DEF GuardHeld, Idle
<1> QED
  BY <1>1, <1>3, Shrink

\* A unit keeps its instruction from its first round to its last.
LEMMA LoopBusyStep ==
  ASSUME TypeOK, LoopBusy, [Next]_vars
  PROVE  LoopBusy'
<1>1. fu \in [FUs -> FuType]
  BY DEF TypeOK
<1>2. ASSUME NEW f \in FUs, FuStep(f) PROVE LoopBusy'
  <2>1. ASSUME NEW u \in FuType, u.ir # NoInstr, Continue(f, u)
        PROVE  LoopBusy'
    <3>1. \/ \E m \in Waits(u, regs') : fu' = [fu EXCEPT ![f] = [u EXCEPT !.r = m]]
          \/ fu' = [fu EXCEPT ![f] = [u EXCEPT !.ir = NoInstr, !.at = "top",
                      !.cpsr = EndCpsr(u), !.i = 0, !.k = 0, !.n = 0, !.r = 0]]
      BY <2>1 DEF Continue
    <3>2. fu'[f].at = "loop" => fu'[f].ir # NoInstr
      <4>1. ASSUME NEW m, fu' = [fu EXCEPT ![f] = [u EXCEPT !.r = m]]
            PROVE  fu'[f].ir # NoInstr
        BY <1>1, <2>1, <4>1, FuFrame
      <4>2. ASSUME fu' = [fu EXCEPT ![f] = [u EXCEPT !.ir = NoInstr, !.at = "top",
                      !.cpsr = EndCpsr(u), !.i = 0, !.k = 0, !.n = 0, !.r = 0]]
            PROVE  fu'[f].at = "top"
        BY <1>1, <4>2 DEF FuType
      <4> QED
        BY <3>1, <4>1, <4>2
    <3>3. \A g \in FUs : g # f => fu'[g] = fu[g]
      BY <1>1, <3>1
    <3> QED
      BY <3>2, <3>3 DEF LoopBusy, Idle
  <2>2. CASE FuIdle(f)
    BY <2>2 DEF FuIdle, LoopBusy, Idle
  <2>3. CASE FuStart(f)
    <3>1. PICK test \in {"pass", "fail"} : Continue(f, StartFu(f, test))
      BY <2>3 DEF FuStart, FuBegin, Outcomes
    <3>2. StartFu(f, test) \in FuType
      BY StartType
    <3>3. fu[f] \in FuType /\ fu[f].ir # NoInstr
      BY <1>1, <2>3 DEF FuStart, FuBegin, Idle
    <3>4. StartFu(f, test).ir # NoInstr
      BY ONLY <3>3 DEF StartFu, FuType
    <3> QED
      BY <2>1, <3>1, <3>2, <3>4
  <2>4. CASE FuResume(f)
    BY <1>1, <2>1, <2>4 DEF FuResume, LoopBusy, Idle
  <2> QED
    BY <1>2, <2>2, <2>3, <2>4 DEF FuStep
<1>3. ASSUME NEW x \in InstrType, NEW v, NEW d, Decode(x, v, d) PROVE LoopBusy'
  <2> DEFINE base == IF x.op = "NEWSS" THEN ClearCpsr ELSE fu
  <2>1. \/ \E f \in FUs : fu' = [base EXCEPT ![f].ir = x, ![f].rt = v]
        \/ fu' = base \/ fu' = fu
    BY <1>3 DEF Decode
  <2>2. \A g \in FUs : base[g].ir = fu[g].ir /\ base[g].at = fu[g].at
    BY ClearFrame
  <2>3. base \in [FUs -> FuType]
    BY <1>1, ClearFrame
  <2> HIDE DEF base
  <2>4. \A g \in FUs : fu'[g].at = fu[g].at /\ (fu'[g].ir = fu[g].ir \/ fu'[g].ir = x)
    <3>1. CASE fu' = base \/ fu' = fu
      BY <2>2, <3>1
    <3>2. ASSUME NEW f \in FUs, fu' = [base EXCEPT ![f].ir = x, ![f].rt = v],
                 NEW g \in FUs
          PROVE  fu'[g].at = fu[g].at /\ (fu'[g].ir = fu[g].ir \/ fu'[g].ir = x)
      BY <2>2, <2>3, <3>2, FuFrame
    <3> QED
      BY <2>1, <3>1, <3>2
  <2>5. x # NoInstr
    OBVIOUS
  <2> HIDE DEF InstrType
  <2> QED
    BY <2>4, <2>5 DEF LoopBusy, Idle
<1>4. CASE CopStep
  <2>1. CASE CopFetch
    <3>1. Head(instr_q) \in InstrType
      BY <2>1 DEF CopFetch, TypeOK
    <3> QED
      BY <1>3, <2>1, <3>1 DEF CopFetch, LoopBusy, Idle
  <2>2. CASE CopRetry
    <3>1. ir \in InstrType
      BY <2>2 DEF CopRetry, TypeOK
    <3> QED
      BY <1>3, <2>2, <3>1 DEF CopRetry
  <2>3. CASE CopIdle
    BY <2>3 DEF CopIdle, LoopBusy, Idle
  <2> QED
    BY <1>4, <2>1, <2>2, <2>3 DEF CopStep
<1>5. CASE CpuStep
  <2>1. fu' = fu \/ fu' = ClearCpsr
    BY <1>5 DEF CpuStep, CpuIssue, CpuLoad, CpuRst, CpuClrc, CpuOther, copVars
  <2>2. \A g \in FUs : fu'[g].ir = fu[g].ir /\ fu'[g].at = fu[g].at
    BY <2>1, ClearFrame
  <2> QED
    BY <2>2 DEF LoopBusy, Idle
<1>6. CASE Tick
  BY <1>6 DEF Tick, copVars, LoopBusy, Idle
<1>7. CASE UNCHANGED vars
  BY <1>7 DEF vars, LoopBusy, Idle
<1> QED
  BY <1>2, <1>4, <1>5, <1>6, <1>7 DEF Next

\* No unit holds a word when the coprocessor is switched on.
QuietPowerUp == PowerUpIr \subseteq {NoInstr}

\* Whatever the program, the sizes and the order of the threads: a register
\* with a flag of its own that the decoder tests belongs to at most one running
\* operation, and its flag is down as long as it does.
THEOREM ExclusiveHolds ==
  ASSUME QuietPowerUp
  PROVE  Spec => []Exclusive
<1> DEFINE IInv == TypeOK /\ GuardExclusive /\ LoopBusy
<1>1. Init => IInv
  <2> SUFFICES ASSUME Init PROVE GuardExclusive /\ LoopBusy
    BY InitType
  <2>1. \A f \in FUs : fu[f].ir = NoInstr /\ fu[f].at = "top"
    BY QuietPowerUp DEF Init, QuietPowerUp
  <2> QED
    BY <2>1 DEF GuardExclusive, GuardHeld, Idle, LoopBusy
<1>2. IInv /\ [Next]_vars => IInv'
  <2> SUFFICES ASSUME IInv, [Next]_vars PROVE GuardExclusive'
    BY LoopBusyStep, NextType
  <2>1. TypeOK'
    BY NextType
  <2>2. CASE Tick \/ UNCHANGED vars
    <3>1. \A g \in FUs : GuardHeld(g)' = GuardHeld(g)
      BY <2>2, SameHeld DEF Tick, vars, copVars, Row
    <3> QED
      BY <2>2, <3>1, Shrink DEF Tick, vars, copVars
  <2>3. CASE CopStep
    BY <2>3, CopStepExclusive
  <2>4. CASE \E f \in FUs : FuStep(f)
    BY <2>1, <2>4, FuStepExclusive
  <2>5. CASE CpuStep
    BY <2>5, CpuStepExclusive
  <2> QED
    BY <2>2, <2>3, <2>4, <2>5 DEF Next
<1>3. IInv => Exclusive
  BY GuardExclusiveIff
<1> HIDE DEF IInv
<1> QED
  BY <1>1, <1>2, <1>3, PTL DEF Spec
============================================================================
