------------------------------ MODULE RaimCop ------------------------------
(***************************************************************************)
(* The RAIM coprocessor (model/src/raim_cop.cpp): the decoder thread, the  *)
(* functional-unit threads, and the CPU thread as far as it calls into the *)
(* coprocessor.  All of them are SystemC threads: a slice runs without     *)
(* interruption up to its wait(n, SC_NS), and the threads due in one       *)
(* nanosecond run in an order that the language leaves to the kernel.      *)
(*                                                                         *)
(* One action is one slice; due[p] is the time left before p runs again.   *)
(* The numbers are abstracted to what steers the control: the counters,    *)
(* the subset masks, the flags; the outcome of a test is nondeterministic. *)
(***************************************************************************)
EXTENDS RaimIsa, Sequences, FiniteSets

CONSTANTS
  NFu,          \* RPU_N_FUs
  QSize,        \* RPU_INSTR_Q_SIZE
  PseudoMaxIt,  \* RPU_PSEUDO_MAX_IT
  Instrs,       \* the queued instructions the program uses, with the operand
  Loads,        \* the LWC2 / LWXC2 it uses: [reg, val]
  Controls,     \* subset of {"RST", "CLRC"}
  Stretches,    \* the lengths of its stretches of other CPU instructions
  Matched,      \* TRUE: the program's CP operand is 4 * its current subset
  SvLoaded,     \* satellites loaded at the start: 0 at power-up, more to start
                \* from the quiet state that so many NEWSV leave behind
  NoInstr,      \* an instruction word of 0
  PowerUpIr, PowerUpRt, PowerUpCpsr, PowerUpCol
                \* what the members and locals without initialiser may hold

Cpu   == -2
Cop   == -1
FUs   == 0 .. NFu - 1
Procs == {Cpu, Cop} \cup FUs

Byte == 0 .. 255

InstrType == [fmt : QueuedFmts, op : OpCodes, reg : STRING, d : SvIdx, rt : Nat]

ASSUME CopAssumption ==
  /\ NFu \in Nat \ {0} /\ QSize \in Nat \ {0} /\ PseudoMaxIt \in Nat
  /\ Instrs \subseteq InstrType /\ NoInstr \notin InstrType
  /\ Loads \subseteq [reg : STRING, val : Nat]
  /\ Controls \subseteq {"RST", "CLRC"}
  /\ Stretches \subseteq Nat \ {0}
  /\ Matched \in BOOLEAN /\ SvLoaded \in 0 .. NSvMax
  /\ PowerUpIr \subseteq InstrType \cup {NoInstr}
  /\ PowerUpRt \subseteq Nat
  /\ PowerUpCpsr \subseteq SUBSET Flags
  /\ PowerUpCol \subseteq SvIdx

\* A program that works on a subset names one that the tables have, and does so in
\* the instruction itself.  Nothing in the code asks for either: an operation
\* encoded without operand (isa.tex:379) starts with the _rt of whatever came
\* before it, and with a large one indexes s, idx_ss and sig_q2 past their ends,
\* where the model has no data.
ASSUME TablesAssumption ==
  \A x \in Instrs : x.op \in SubsetOps => x.fmt = "CP" /\ x.rt < 4 * NSsMax

VARIABLES
  instr_q,    \* _instr_q, a FIFO (InstrQueue refines it to head and tail)
  rt_val_q,   \* _rt_val_q
  ir, rt,     \* locals of raim_cop::main
  status,     \* _regs_status
  regs,       \* the control registers of _regs
  fu,         \* the functional units and the locals of their main
  rpu_cpsr,   \* _rpu_cpsr
  stalled,    \* the instruction execute is spinning on, or NoInstr
  subset,     \* NEWSS instructions the program has executed (auxiliary)
  due         \* time to the next slice of each thread

queueVars == <<instr_q, rt_val_q>>
copVars   == <<ir, rt, status, regs, fu, rpu_cpsr>>
cpuVars   == <<stalled, subset>>
vars == <<instr_q, rt_val_q, ir, rt, status, regs, fu, rpu_cpsr, stalled,
          subset, due>>

FuType == [ir : InstrType \cup {NoInstr}, rt : Nat, cpsr : SUBSET Flags, d : SvIdx,
           at : {"top", "loop"}, i : 0 .. NSvMax, k : Nat, n : Nat, r : Nat]

RegsType == [N_sv : 0 .. NSvMax, N_ss : 0 .. NSsMax, N_const : Byte,
             tst_i : Nat, idx_ss : [SsIdx -> SUBSET SvIdx],
             idx_faulty_sv : SUBSET Nat]

ResetRegs == [N_sv |-> 0, N_ss |-> 0, N_const |-> 0, tst_i |-> 0,
              idx_ss |-> [k \in SsIdx |-> {}], idx_faulty_sv |-> {}]

Init ==
  /\ instr_q = <<>> /\ rt_val_q = <<>>
  /\ ir = NoInstr /\ rt \in PowerUpRt
  /\ status = [l \in Loc |-> TRUE]
  /\ regs = [ResetRegs EXCEPT !.N_sv = SvLoaded]
  /\ fu \in [FUs -> [ir : PowerUpIr, rt : PowerUpRt, cpsr : PowerUpCpsr,
                     d : PowerUpCol, at : {"top"}, i : {0}, k : {0},
                     n : {0}, r : {0}]]
  /\ rpu_cpsr \in PowerUpCpsr
  /\ stalled = NoInstr /\ subset = 0
  /\ due = [p \in Procs |-> 0]

----------------------------------------------------------------------------
(* Scheduling.                                                             *)

\* In whatever order among those that are due: the language does not fix it,
\* and in out.log (570 ns to 575 ns) it changes from one ns to the next.
CanRun(p) == due[p] = 0

Wait(p, n) == due' = [due EXCEPT ![p] = n]

Tick ==
  /\ \A p \in Procs : due[p] > 0
  /\ due' = [p \in Procs |-> due[p] - 1]
  /\ UNCHANGED <<queueVars, copVars, cpuVars>>

----------------------------------------------------------------------------
(* Helpers.                                                                *)

HasOperand(x) == x.fmt \in {"MT", "CP"}

\* The satellites of a mask: bit r is row r (init_mask walks down from N_sv-1).
Bits(v) == {r \in SvIdx : (v \div 2^r) % 2 = 1}

\* raim_cop::set_regs, the registers that steer the control.  A constellation
\* is new if its number, as a byte, has not been reached before.
SetRegs(rg, reg, v) ==
  CASE reg = "I"   -> [rg EXCEPT !.tst_i = v]
    [] reg = "C"   -> [rg EXCEPT !.N_const =
                             IF v % 256 >= @ THEN (@ + 1) % 256 ELSE @]
    [] reg = "IDX" -> [rg EXCEPT !.idx_ss[rg.N_ss] = Bits(v)]
    [] OTHER -> rg

\* Mutant: clear_cpsr of the units is not called.
ClearNoCpsr == fu

ClearCpsr == [f \in FUs |-> [fu[f] EXCEPT !.cpsr = {}]]

\* Mutant: the flag of u is not tested.
ReadySkipsU(x, d) ==
  \A l \in Need(x.op, regs.N_sv, regs.N_ss, d) \ {UF} : status[l]

Ready(x, d) ==
  /\ \A l \in Need(x.op, regs.N_sv, regs.N_ss, d) : status[l]
  /\ AllTrue(status, NeedAll(x.op))

\* Mutant: the matrix is not claimed.
ClaimedButS(x, d) ==
  [l \in Loc |-> status[l]
     /\ l \notin Claim(x.op, regs.N_sv, regs.N_ss, d) \ {SF(regs.N_ss)}]

Claimed(x, d) ==
  [l \in Loc |-> status[l] /\ l \notin Claim(x.op, regs.N_sv, regs.N_ss, d)]

Idle(f) == fu[f].ir = NoInstr

\* Mutant: issue_instr does not look whether the unit is busy.
FirstUnit(f) == \A g \in FUs : f <= g

\* The unit that the loop over issue_instr gives the instruction to.
FirstOpen(f) == Idle(f) /\ \A g \in FUs : Idle(g) => f <= g

----------------------------------------------------------------------------
(* raim_cop::main, one slice.                                              *)

\* Mutant: full one entry too late.
CopFullLate == Len(instr_q) > QSize

CopFull == Len(instr_q) >= QSize

\* The end of the slice: the flags of the units are merged and published.
Publish ==
  rpu_cpsr' = (IF CopFull THEN {"FULL"} ELSE {})
                \cup UNION {fu'[f].cpsr : f \in FUs}

\* Decode and issue x with operand v; d is the immediate of the word that ir
\* held before this slice's dequeue.
Decode(x, v, d) ==
  \/ /\ x.op = "NOP"
     /\ ir' = NoInstr /\ rt' = v
     /\ UNCHANGED <<status, fu>>
  \/ /\ \/ x.op = "BAD"
        \/ x.op \in Ops /\ ~Ready(x, d)
     /\ ir' = x /\ rt' = v
     /\ UNCHANGED <<status, fu>>
  \/ /\ x.op \in Ops /\ Ready(x, d)
     /\ LET base == IF x.op = "NEWSS" THEN ClearCpsr ELSE fu IN
        \/ \E f \in FUs :
             /\ FirstOpen(f)
             /\ fu' = [base EXCEPT ![f].ir = x, ![f].rt = v]
             /\ ir' = NoInstr /\ rt' = 0
        \/ /\ \A f \in FUs : ~Idle(f)
           /\ fu' = base
           /\ ir' = x /\ rt' = v
     /\ status' = Claimed(x, d)

\* Nothing in ir and nothing queued.
CopIdle ==
  /\ ir = NoInstr /\ instr_q = <<>>
  /\ UNCHANGED <<queueVars, ir, rt, status, regs, fu>>

\* Mutant: only MTC2 takes its operand.
DequeuedByMt(x) == x.fmt = "MT" /\ rt_val_q # <<>>

\* x takes an operand from the second queue.
Dequeued(x) == HasOperand(x) /\ rt_val_q # <<>>

\* Dequeue.  The decoder reads N_sv and N_ss before set_regs, which changes
\* neither.
CopFetch ==
  /\ ir = NoInstr /\ instr_q # <<>>
  /\ LET x == Head(instr_q)
         v == IF Dequeued(x) THEN Head(rt_val_q) ELSE rt
     IN /\ instr_q' = Tail(instr_q)
        /\ rt_val_q' = IF Dequeued(x) THEN Tail(rt_val_q) ELSE rt_val_q
        /\ regs' = IF x.fmt = "MT" THEN SetRegs(regs, x.reg, v) ELSE regs
        /\ \/ x.fmt # "BAD" /\ Decode(x, v, 0)
           \/ /\ x.fmt = "BAD"          \* ir keeps the word; decoded next time
              /\ ir' = x /\ rt' = v
              /\ UNCHANGED <<status, fu>>

\* The instruction that could not issue, once more.
CopRetry ==
  /\ ir # NoInstr
  /\ Decode(ir, rt, ir.d)
  /\ UNCHANGED <<queueVars, regs>>

CopStep ==
  /\ CanRun(Cop)
  /\ CopIdle \/ CopFetch \/ CopRetry
  /\ Publish
  /\ Wait(Cop, 1)
  /\ UNCHANGED cpuVars

----------------------------------------------------------------------------
(* raim_cop_fu::main.  An operation runs through a number of rounds (rows, *)
(* columns, iterations); r rounds are left, and a round that has work ends *)
(* in a wait.                                                              *)

Rounds(op) ==
  CASE op \in {"NEWSV", "TSTG", "TSTL"} -> 1
    [] op \in {"CALCU", "INITP", "WLS"} -> regs.N_sv
    [] op = "CALCP" -> PseudoMaxIt
    [] OTHER -> 0

Delay(u) ==
  CASE u.ir.op = "NEWSV" -> 3
    [] u.ir.op \in {"CALCU", "INITP"} -> 4
    [] u.ir.op = "WLS" -> u.n             \* one wait per row of the column
    [] OTHER -> 1

\* The rounds to come that wait: INITP and WLS skip the excluded satellites.
Waits(u, rg) ==
  {m \in 0 .. u.r - 1 : u.ir.op \in {"INITP", "WLS"} => m \in rg.idx_ss[u.k]}

\* The comparison of a test against its threshold may go either way.
Outcomes(op) == IF op \in {"TSTG", "TSTL"} THEN {"pass", "fail"} ELSE {"pass"}

\* Mutant: no operation tells that a matrix is being computed.
StartCpsrSilent(f, test) ==
  LET op == fu[f].ir.op IN
  (fu[f].cpsr \ (IF op = "TSTL" /\ test = "pass" THEN {"FL"} ELSE {}))
    \cup (IF op = "TSTG" /\ test = "fail" THEN {"FD"} ELSE {})
    \cup (IF op = "TSTL" /\ test = "fail" THEN {"FL"} ELSE {})

\* What the operation does to the unit's flags before its first wait.
StartCpsr(f, test) ==
  LET op == fu[f].ir.op IN
  (fu[f].cpsr \ (IF op = "TSTL" /\ test = "pass" THEN {"FL"} ELSE {}))
    \cup (IF op \in {"CALCU", "INITP", "CALCP", "WLS"} THEN {"MC"} ELSE {})
    \cup (IF op = "TSTG" /\ test = "fail" THEN {"FD"} ELSE {})
    \cup (IF op = "TSTL" /\ test = "fail" THEN {"FL"} ELSE {})

\* Mutant: the row cursor runs past its bound.
StartRegsUnbounded(op, test) ==
  [regs EXCEPT !.N_sv = IF op = "NEWSV" THEN @ + 1 ELSE @]

StartRegs(op, test) ==
  [regs EXCEPT
     !.N_sv = IF op = "NEWSV" /\ @ < NSvMax THEN @ + 1 ELSE @,
     !.N_ss = IF op = "NEWSS" /\ @ < NSsMax THEN @ + 1 ELSE @,
     !.idx_faulty_sv = IF op = "TSTL" /\ test = "fail" THEN @ \cup {regs.tst_i} ELSE @]

\* Mutant: NEWSV takes its row after it has moved the cursor.
StartFuLate(f, test) ==
  [fu[f] EXCEPT !.at = "loop", !.cpsr = StartCpsr(f, test),
                !.i = StartRegs(fu[f].ir.op, test).N_sv,
                !.k = fu[f].rt \div 4, !.n = 3 + regs.N_const,
                !.r = Rounds(fu[f].ir.op)]

\* The unit at its first round, with the locals it takes from the registers.
StartFu(f, test) ==
  [fu[f] EXCEPT !.at = "loop", !.cpsr = StartCpsr(f, test),
                !.i = regs.N_sv, !.k = fu[f].rt \div 4, !.n = 3 + regs.N_const,
                !.r = Rounds(fu[f].ir.op)]

\* WLS toggles MC at its end (a toggle, not a clear).
EndCpsr(u) ==
  IF u.ir.op # "WLS" THEN u.cpsr
  ELSE IF "MC" \in u.cpsr THEN u.cpsr \ {"MC"} ELSE u.cpsr \cup {"MC"}

\* Mutants: a matrix, the scratchpad or u is not released.
ReleasedButS(u) ==
  [l \in Loc |-> status[l] \/ l \in Free(u.ir.op, u.i, u.k, u.d) \ {SF(u.k)}]
ReleasedButSpr(u) ==
  [l \in Loc |-> status[l] \/ l \in Free(u.ir.op, u.i, u.k, u.d) \ SprFs]
ReleasedButU(u) ==
  [l \in Loc |-> status[l] \/ l \in Free(u.ir.op, u.i, u.k, u.d) \ {UF}]

Released(u) ==
  [l \in Loc |-> status[l] \/ l \in Free(u.ir.op, u.i, u.k, u.d)]

\* On to the next round that waits, or to the end.
Continue(f, u) ==
  \/ \E m \in Waits(u, regs') :
       /\ \A j \in Waits(u, regs') : j <= m
       /\ fu' = [fu EXCEPT ![f] = [u EXCEPT !.r = m]]
       /\ Wait(f, Delay(u))
       /\ UNCHANGED status
  \/ /\ Waits(u, regs') = {}
     /\ fu' = [fu EXCEPT ![f] = [u EXCEPT !.ir = NoInstr, !.at = "top",
                 !.cpsr = EndCpsr(u), !.i = 0, !.k = 0, !.n = 0, !.r = 0]]
     /\ status' = Released(u)
     /\ Wait(f, 1)

FuIdle(f) ==
  /\ Idle(f)
  /\ Wait(f, 1)
  /\ UNCHANGED <<status, regs, fu>>

\* The first slice of an operation, for one outcome of its comparison.
FuBegin(f, test) ==
  /\ regs' = StartRegs(fu[f].ir.op, test)
  /\ Continue(f, StartFu(f, test))

FuStart(f) ==
  /\ ~Idle(f) /\ fu[f].at = "top"
  /\ \E test \in Outcomes(fu[f].ir.op) : FuBegin(f, test)

FuResume(f) ==
  /\ fu[f].at = "loop"
  /\ UNCHANGED regs
  /\ Continue(f, fu[f])

FuStep(f) ==
  /\ CanRun(f)
  /\ FuIdle(f) \/ FuStart(f) \/ FuResume(f)
  /\ UNCHANGED <<queueVars, ir, rt, rpu_cpsr, cpuVars>>

----------------------------------------------------------------------------
(* The CPU's slice: raim_cop::execute and set_regs as cpu::main calls      *)
(* them.  get_exception only reaches the log; get_next_pc_offset consumes  *)
(* in the same slice the branch that BC has set up.                        *)

\* What BC compares: OKAY asks for no flag at all, the others for theirs.
BranchTaken(cond) ==
  IF cond = "OKAY" THEN rpu_cpsr = {} ELSE cond \in rpu_cpsr

\* The instructions the program may execute next: at most NSsMax - 1 NEWSS.
Offered ==
  {x \in Instrs :
     /\ x.op = "NEWSS" => subset < NSsMax - 1
     /\ Matched /\ x.op \in SubsetOps => x.rt = 4 * subset}

\* Formats MT, CP, NONE and the invalid ones: enqueue, or spin.
CpuEnqueue(x) ==
  \/ /\ Len(instr_q) # QSize
     /\ instr_q' = Append(instr_q, x)
     /\ rt_val_q' = IF HasOperand(x) /\ Len(rt_val_q) # QSize
                    THEN Append(rt_val_q, x.rt) ELSE rt_val_q
     /\ stalled' = NoInstr
     /\ subset' = IF x.op = "NEWSS" THEN subset + 1 ELSE subset
  \/ /\ Len(instr_q) = QSize
     /\ stalled' = x
     /\ UNCHANGED <<queueVars, subset>>

CpuIssue ==
  /\ IF stalled = NoInstr THEN \E x \in Offered : CpuEnqueue(x)
                          ELSE CpuEnqueue(stalled)
  /\ UNCHANGED copVars

\* LWC2 and LWXC2 write the register at once, past the queue and the flags.
CpuLoad(x) ==
  /\ stalled = NoInstr
  /\ regs' = SetRegs(regs, x.reg, x.val)
  /\ UNCHANGED <<queueVars, ir, rt, status, fu, rpu_cpsr, stalled, subset>>

\* RST clears the registers, not the queue, the flags or what is in flight.
CpuRst ==
  /\ stalled = NoInstr /\ "RST" \in Controls
  /\ rpu_cpsr' = {} /\ fu' = ClearCpsr
  /\ regs' = ResetRegs
  /\ UNCHANGED <<queueVars, ir, rt, status, stalled, subset>>

CpuClrc ==
  /\ stalled = NoInstr /\ "CLRC" \in Controls
  /\ rpu_cpsr' = {} /\ fu' = ClearCpsr
  /\ regs' = [regs EXCEPT !.idx_faulty_sv = {}]
  /\ UNCHANGED <<queueVars, ir, rt, status, stalled, subset>>

\* Instructions of the CPU itself; MFC2, which only reads; or BC, whose outcome
\* BranchTaken is all that it leaves behind, in the program counter.
CpuOther ==
  /\ stalled = NoInstr
  /\ UNCHANGED <<queueVars, copVars, stalled, subset>>

\* cpu::main waits a nanosecond after each instruction.
CpuStep ==
  /\ CanRun(Cpu)
  /\ \/ /\ \/ CpuIssue
           \/ \E x \in Loads : CpuLoad(x)
           \/ CpuRst \/ CpuClrc
        /\ Wait(Cpu, 1)
     \/ \E n \in Stretches : CpuOther /\ Wait(Cpu, n)

Next == Tick \/ CopStep \/ (\E f \in FUs : FuStep(f)) \/ CpuStep

Spec     == Init /\ [][Next]_vars
\* The kernel runs every thread that is due and then advances the time.
FairSpec == Spec /\ WF_vars(Next)

----------------------------------------------------------------------------
(* Properties.                                                             *)

\* Every variable keeps to the values the C++ member or local can hold.
TypeOK ==
  /\ instr_q \in Seq(InstrType) /\ rt_val_q \in Seq(Nat)
  /\ ir \in InstrType \cup {NoInstr} /\ rt \in Nat
  /\ status \in [Loc -> BOOLEAN]
  /\ regs \in RegsType
  /\ fu \in [FUs -> FuType]
  /\ rpu_cpsr \in SUBSET Flags
  /\ stalled \in InstrType \cup {NoInstr}
  /\ subset \in Nat
  /\ due \in [Procs -> Nat]

\* The instruction, the unit that runs it, and the flags it will set at its
\* end.  A unit takes its row number i when it starts.
Row(f) == IF fu[f].at = "top" THEN regs.N_sv ELSE fu[f].i
Sub(f) == fu[f].rt \div 4
Held(f) ==
  IF Idle(f) THEN {} ELSE Free(fu[f].ir.op, Row(f), Sub(f), fu[f].d)

\* The registers that are one flag each and that the decoder really tests.
Guarded == {AlphaF, YF, UF, KFaF, KFaRF, NSvF, SigF}

\* A guarded register belongs to at most one running operation, and its flag
\* stays down until that operation ends: whatever the program, and in every
\* order of the threads (the tests and claims of raim_cop::main against the
\* releases of raim_cop_fu::main).
Exclusive ==
  \A l \in Guarded : \A f \in FUs :
    l \in Held(f) => ~status[l] /\ \A g \in FUs : l \in Held(g) => g = f

\* An MTC2 or CP instruction reaches the decoder, and then its unit, with the
\* operand that it was enqueued with: the second queue never slips against
\* the first, although execute ignores the result of its enqueue.
OperandPaired ==
  /\ ir # NoInstr /\ HasOperand(ir) => rt = ir.rt
  /\ \A f \in FUs : ~Idle(f) /\ HasOperand(fu[f].ir) => fu[f].rt = fu[f].ir.rt

\* A flag that is down has a running operation that will raise it again: no
\* claim is lost between the decoder's N_ss and the unit's own rt / 4.
FlagsOwned == \A l \in Loc : ~status[l] => \E f \in FUs : l \in Held(f)

\* What one running operation writes and another one reads or writes.
Clash(f, g) ==
  LET W(h) == Writes(fu[h].ir.op, Row(h), Sub(h), fu[h].d)
      R(h) == Reads(fu[h].ir.op, Row(h), Sub(h), fu[h].d)
  IN IF f = g \/ Idle(f) \/ Idle(g) THEN {} ELSE W(f) \cap (R(g) \cup W(g))

\* No operation writes a register that another running one uses ("decode
\* operation, ensure no data dependency violations", line 663): any register,
\* and the scratchpad alone.
NoDataHazard    == \A f, g \in FUs : Clash(f, g) = {}
NoScratchHazard == \A f, g \in FUs : Clash(f, g) \cap SprFs = {}

\* A program that sees BFUC2 fall through can issue without stalling ...
FullFlagExact ==
  CanRun(Cpu) /\ stalled = NoInstr /\ ~BranchTaken("FULL")
    => Len(instr_q) < QSize

\* ... as long as the decoder's slice comes before the CPU's in that
\* nanosecond: the flag is one slice of the decoder old, never more.
FullFlagSettled == due[Cop] > 0 => FullFlagExact

\* The instructions accepted and not yet taken up, oldest first.
Pending == IF ir = NoInstr THEN instr_q ELSE <<ir>> \o instr_q

InOrder == INSTANCE IssueOrder WITH
  Units <- FUs, Words <- Instrs, None <- NoInstr,
  Drops <- {x \in Instrs : x.op = "NOP"},
  pending <- Pending, run <- [f \in FUs |-> fu[f].ir]

\* The queue, the held word and the units together issue every instruction
\* once and in program order, across stalls, retries and RST.
IssuesInOrder == InOrder!IOSpec

\* An instruction that waits for its registers issues in the end, and a CPU
\* that spins on the full queue goes on.
IssueProgress == ir # NoInstr ~> ir = NoInstr
StallEnds     == stalled # NoInstr ~> stalled = NoInstr
============================================================================
