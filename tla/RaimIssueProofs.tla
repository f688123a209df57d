-------------------------- MODULE RaimIssueProofs --------------------------
(***************************************************************************)
(* What a program may rely on when it hands instructions to the            *)
(* coprocessor: the order they are taken up in, the operands they come     *)
(* with, and the flag that says that the queue is full.  For every number  *)
(* of units, queue size, table size and program.                           *)
(***************************************************************************)
EXTENDS RaimCopProofs, SequenceTheorems

USE SizeAssumption, CopAssumption

----------------------------------------------------------------------------
(* The FULL flag.                                                          *)

\* FullFlagSettled as it is preserved: whether the CPU is stalled does not
\* matter, and the decoder is never more than one nanosecond away.
FullFlagInv ==
  /\ due[Cop] \in {0, 1}
  /\ due[Cop] > 0 /\ due[Cpu] = 0 /\ "FULL" \notin rpu_cpsr
       => Len(instr_q) < QSize

\* The decoder's slice looks at the queue before it takes its word from it.
LEMMA CopStepFull ==
  ASSUME TypeOK, CopStep
  PROVE  FullFlagInv'
<1>1. due'[Cop] = 1
  BY DEF CopStep, Wait, TypeOK, Procs
<1>2. instr_q \in Seq(InstrType)
  BY DEF TypeOK
<1>3. "FULL" \notin rpu_cpsr' => Len(instr_q) < QSize
  BY <1>2 DEF CopStep, Publish, CopFull
<1>4. instr_q' = instr_q \/ (instr_q # <<>> /\ instr_q' = Tail(instr_q))
  BY DEF CopStep, CopIdle, CopFetch, CopRetry, queueVars
<1>5. Len(instr_q') <= Len(instr_q)
  BY ONLY <1>2, <1>4
<1>6. Len(instr_q) \in Nat /\ Len(instr_q') \in Nat
  BY ONLY <1>2, <1>4
<1> QED
  BY <1>1, <1>3, <1>5, <1>6 DEF FullFlagInv

\* A unit's slice changes neither the queue nor the published flags.
LEMMA FuStepFull ==
  ASSUME TypeOK, FullFlagInv, NEW f \in FUs, FuStep(f)
  PROVE  FullFlagInv'
<1>1. UNCHANGED <<instr_q, rpu_cpsr>>
  BY DEF FuStep, queueVars
<1>2. \E n : due' = [due EXCEPT ![f] = n]
  BY DEF FuStep, FuIdle, FuStart, FuBegin, FuResume, Continue, Wait
<1>3. f # Cop /\ f # Cpu
  BY DEF FUs, Cop, Cpu
<1>4. due'[Cop] = due[Cop] /\ due'[Cpu] = due[Cpu]
  BY <1>2, <1>3 DEF TypeOK
<1> QED
  BY <1>1, <1>4 DEF FullFlagInv

\* Every slice keeps the flag FULL within one slice of the decoder.
LEMMA NextFull ==
  ASSUME TypeOK, FullFlagInv, [Next]_vars
  PROVE  FullFlagInv'
<1>1. CASE Tick
  <2>1. due[Cop] = 1 /\ due'[Cop] = 0
    BY <1>1 DEF Tick, FullFlagInv, TypeOK, Procs
  <2> QED
    BY <2>1 DEF FullFlagInv
<1>2. CASE CopStep
  BY <1>2, CopStepFull
<1>3. CASE \E f \in FUs : FuStep(f)
  BY <1>3, FuStepFull
<1>4. CASE CpuStep
  <2>1. PICK n \in Nat \ {0} : due' = [due EXCEPT ![Cpu] = n]
    BY <1>4 DEF CpuStep, Wait
  <2>2. due'[Cpu] > 0 /\ due'[Cop] = due[Cop]
    BY <2>1 DEF TypeOK, Procs, Cpu, Cop
  <2> QED
    BY <2>2 DEF FullFlagInv
<1>5. CASE UNCHANGED vars
  BY <1>5 DEF vars, FullFlagInv
<1> QED
  BY <1>1, <1>2, <1>3, <1>4, <1>5 DEF Next

\* A program that has seen BFUC2 fall through in a nanosecond in which the
\* decoder has already run can issue without stalling, in every schedule.
THEOREM FullFlagSettledHolds == Spec => []FullFlagSettled
<1>1. Init => TypeOK /\ FullFlagInv
  BY InitType DEF Init, FullFlagInv, Procs
<1>2. TypeOK /\ FullFlagInv /\ [Next]_vars => (TypeOK /\ FullFlagInv)'
  BY NextType, NextFull
<1>3. FullFlagInv => FullFlagSettled
  BY DEF FullFlagInv, FullFlagSettled, FullFlagExact, BranchTaken, CanRun
<1> QED
  BY <1>1, <1>2, <1>3, PTL DEF Spec

----------------------------------------------------------------------------
(* What a slice does to the instructions in flight.                        *)

\* Every unit keeps its instruction and its operand, but for those of gs.
SameRun(gs) ==
  \A g \in FUs \ gs : fu'[g].ir = fu[g].ir /\ fu'[g].rt = fu[g].rt

\* Clearing the flags of the units leaves them at their work.
LEMMA ClearRun ==
  ASSUME TypeOK
  PROVE  \A g \in FUs : ClearCpsr[g].ir = fu[g].ir /\ ClearCpsr[g].rt = fu[g].rt
<1> SUFFICES ASSUME NEW g \in FUs
             PROVE  ClearCpsr[g].ir = fu[g].ir /\ ClearCpsr[g].rt = fu[g].rt
  OBVIOUS
<1>1. fu[g] \in FuType /\ ClearCpsr[g] = [fu[g] EXCEPT !.cpsr = {}]
  BY DEF TypeOK, ClearCpsr
<1> QED
  BY <1>1 DEF FuType

\* The decoder drops x, keeps it in ir, or hands it to a free unit.
Disposed(x, v) ==
  \/ x.op = "NOP" /\ ir' = NoInstr /\ SameRun({})
  \/ ir' = x /\ rt' = v /\ SameRun({})
  \/ /\ ir' = NoInstr
     /\ \E f \in FUs : /\ Idle(f) /\ fu'[f].ir = x /\ fu'[f].rt = v
                       /\ SameRun({f})

\* Decoding drops the word, holds it, or hands it to one unit.
LEMMA DecodeEffect ==
  ASSUME TypeOK, NEW x \in InstrType, NEW v, NEW d, Decode(x, v, d)
  PROVE  Disposed(x, v)
<1>1. fu \in [FUs -> FuType]
  BY DEF TypeOK
<1>2. CASE x.op = "NOP"
  BY <1>2 DEF Decode, Disposed, SameRun, Ops
<1>3. CASE ir' = x /\ rt' = v /\ UNCHANGED <<status, fu>>
  BY <1>3 DEF Disposed, SameRun
<1>4. CASE x.op \in Ops /\ Ready(x, d)
  <2> DEFINE base == IF x.op = "NEWSS" THEN ClearCpsr ELSE fu
  <2>1. base \in [FUs -> FuType]
    BY <1>1, ClearFrame
  <2>2. \A g \in FUs : base[g].ir = fu[g].ir /\ base[g].rt = fu[g].rt
    BY ClearRun
  <2>3. \/ \E f \in FUs : /\ Idle(f) /\ ir' = NoInstr
                          /\ fu' = [base EXCEPT ![f].ir = x, ![f].rt = v]
        \/ fu' = base /\ ir' = x /\ rt' = v
    BY <1>4 DEF Decode, FirstOpen, Ops
  <2> HIDE DEF base
  <2>4. CASE fu' = base /\ ir' = x /\ rt' = v
    BY <2>2, <2>4 DEF Disposed, SameRun
  <2>5. ASSUME NEW f \in FUs, Idle(f), ir' = NoInstr,
               fu' = [base EXCEPT ![f].ir = x, ![f].rt = v]
        PROVE  Disposed(x, v)
    <3>1. fu'[f].ir = x /\ fu'[f].rt = v
      BY <2>1, <2>5 DEF FuType
    <3>2. SameRun({f})
      BY <2>1, <2>2, <2>5 DEF SameRun
    <3> QED
      BY <2>5, <3>1, <3>2 DEF Disposed
  <2> QED
    BY <2>3, <2>4, <2>5
<1> QED
  BY <1>2, <1>3, <1>4 DEF Decode

\* A unit that ends an operation forgets the word, and nothing else moves.
LEMMA FuEffect ==
  ASSUME TypeOK, NEW f \in FUs, FuStep(f)
  PROVE  /\ SameRun({f})
         /\ fu'[f].ir \in {fu[f].ir, NoInstr} /\ fu'[f].rt = fu[f].rt
<1>1. fu \in [FUs -> FuType] /\ fu[f] \in FuType
  BY DEF TypeOK
<1>2. ASSUME NEW u \in FuType, u.ir = fu[f].ir, u.rt = fu[f].rt, Continue(f, u)
      PROVE  /\ SameRun({f})
             /\ fu'[f].ir \in {fu[f].ir, NoInstr} /\ fu'[f].rt = fu[f].rt
  <2>1. \/ \E m : fu' = [fu EXCEPT ![f] = [u EXCEPT !.r = m]]
        \/ fu' = [fu EXCEPT ![f] = [u EXCEPT !.ir = NoInstr, !.at = "top",
                    !.cpsr = EndCpsr(u), !.i = 0, !.k = 0, !.n = 0, !.r = 0]]
    BY <1>2 DEF Continue
  <2>2. SameRun({f})
    BY <1>1, <2>1 DEF SameRun
  <2>3. \/ \E m : fu'[f] = [u EXCEPT !.r = m]
        \/ fu'[f] = [u EXCEPT !.ir = NoInstr, !.at = "top",
                    !.cpsr = EndCpsr(u), !.i = 0, !.k = 0, !.n = 0, !.r = 0]
    BY <1>1, <2>1
  <2>4. fu'[f].ir \in {u.ir, NoInstr} /\ fu'[f].rt = u.rt
    <3>1. CASE \E m : fu'[f] = [u EXCEPT !.r = m]
      BY ONLY u \in FuType, <3>1 DEF FuType
    <3>2. CASE fu'[f] = [u EXCEPT !.ir = NoInstr, !.at = "top",
                    !.cpsr = EndCpsr(u), !.i = 0, !.k = 0, !.n = 0, !.r = 0]
      BY ONLY u \in FuType, <3>2 DEF FuType
    <3> QED
      BY <2>3, <3>1, <3>2
  <2> QED
    BY <1>2, <2>2, <2>4
<1>3. CASE FuIdle(f)
  BY <1>3 DEF FuIdle, SameRun
<1>4. CASE FuStart(f)
  <2>1. PICK test \in {"pass", "fail"} : Continue(f, StartFu(f, test))
    BY <1>4 DEF FuStart, FuBegin, Outcomes
  <2>2. StartFu(f, test) \in FuType
    BY StartType
  <2>3. StartFu(f, test).ir = fu[f].ir /\ StartFu(f, test).rt = fu[f].rt
    BY <1>1 DEF StartFu, FuType
  <2> QED
    BY <1>2, <2>1, <2>2, <2>3
<1>5. CASE FuResume(f)
  BY <1>1, <1>2, <1>5 DEF FuResume
<1> QED
  BY <1>3, <1>4, <1>5 DEF FuStep

\* The CPU appends a word and perhaps its operand, or leaves both queues.
Enqueued(x) ==
  /\ Len(instr_q) # QSize
  /\ instr_q' = Append(instr_q, x)
  /\ rt_val_q' = IF HasOperand(x) /\ Len(rt_val_q) # QSize
                 THEN Append(rt_val_q, x.rt) ELSE rt_val_q

\* The CPU puts at most one word into the queue, and stalls with one at most.
LEMMA CpuEffect ==
  ASSUME TypeOK, CpuStep
  PROVE  /\ SameRun({}) /\ UNCHANGED <<ir, rt>>
         /\ \/ \E x \in Instrs \cup ({stalled} \ {NoInstr}) : Enqueued(x)
            \/ UNCHANGED queueVars
         /\ stalled' \in Instrs \cup {stalled, NoInstr}
<1>1. fu \in [FUs -> FuType]
  BY DEF TypeOK
<1>2. SameRun({})
  <2>1. fu' = fu \/ fu' = ClearCpsr
    BY DEF CpuStep, CpuIssue, CpuLoad, CpuRst, CpuClrc, CpuOther, copVars
  <2> QED
    BY <2>1, ClearRun DEF SameRun
<1>3. UNCHANGED <<ir, rt>>
  BY DEF CpuStep, CpuIssue, CpuLoad, CpuRst, CpuClrc, CpuOther, copVars
<1>4. CASE CpuIssue
  <2>1. PICK x \in Instrs \cup ({stalled} \ {NoInstr}) : CpuEnqueue(x)
    BY <1>4 DEF CpuIssue, Offered
  <2>2. Enqueued(x) \/ UNCHANGED queueVars
    BY <2>1 DEF CpuEnqueue, Enqueued
  <2>3. stalled' \in {x, NoInstr}
    BY <2>1 DEF CpuEnqueue
  <2> QED
    BY <1>2, <1>3, <2>1, <2>2, <2>3
<1>5. CASE ~CpuIssue
  <2>1. UNCHANGED queueVars /\ stalled' = stalled
    BY <1>5 DEF CpuStep, CpuLoad, CpuRst, CpuClrc, CpuOther
  <2> QED
    BY <1>2, <1>3, <2>1
<1> QED
  BY <1>4, <1>5

----------------------------------------------------------------------------
(* The order of issue.                                                     *)

\* Only words of the program are in the queue, in ir or spun on.
ProgramWords ==
  /\ instr_q \in Seq(Instrs)
  /\ ir \in Instrs \cup {NoInstr} /\ stalled \in Instrs \cup {NoInstr}

\* A word put back in front of a queue.
LEMMA FrontOfQueue ==
  ASSUME NEW S, NEW q \in Seq(S), NEW a \in S
  PROVE  /\ <<a>> \o q \in Seq(S) /\ <<a>> \o q # <<>>
         /\ Head(<<a>> \o q) = a /\ Tail(<<a>> \o q) = q
         /\ \A x \in S : Append(<<a>> \o q, x) = <<a>> \o Append(q, x)
<1>1. <<a>> \o q \in Seq(S) /\ Len(<<a>> \o q) = 1 + Len(q)
  OBVIOUS
<1>2. <<a>> \o q # <<>> /\ Head(<<a>> \o q) = a
  OBVIOUS
<1>3. Tail(<<a>> \o q) = q
  <2>1. Tail(<<a>> \o q) \in Seq(S) /\ Len(Tail(<<a>> \o q)) = Len(q)
    BY <1>1
  <2>2. \A k \in 1 .. Len(q) : Tail(<<a>> \o q)[k] = q[k]
    BY <1>1
  <2> QED
    BY <2>1, <2>2, SeqEqual
<1>4. \A x \in S : Append(<<a>> \o q, x) = <<a>> \o Append(q, x)
  BY AppendIsConcat, ConcatAssociative
<1> QED
  BY <1>1, <1>2, <1>3, <1>4

\* What is in flight came from the program.
LEMMA NextProgram ==
  ASSUME TypeOK, ProgramWords, [Next]_vars
  PROVE  ProgramWords'
<1>1. CASE Tick \/ UNCHANGED vars
  BY <1>1 DEF Tick, vars, queueVars, copVars, cpuVars, ProgramWords
<1>2. ASSUME NEW f \in FUs, FuStep(f) PROVE ProgramWords'
  BY <1>2 DEF FuStep, queueVars, cpuVars, ProgramWords
<1>3. CASE CpuStep
  <2>1. UNCHANGED ir /\ stalled' \in Instrs \cup {NoInstr}
    BY <1>3, CpuEffect DEF ProgramWords
  <2>2. CASE UNCHANGED queueVars
    BY <2>1, <2>2 DEF queueVars, ProgramWords
  <2>3. ASSUME NEW x \in Instrs, Enqueued(x) PROVE ProgramWords'
    BY <2>1, <2>3 DEF Enqueued, ProgramWords
  <2> QED
    BY <1>3, <2>2, <2>3, CpuEffect DEF ProgramWords
<1>4. CASE CopStep
  <2>1. UNCHANGED stalled
    BY <1>4 DEF CopStep, cpuVars
  <2>2. CASE CopIdle
    BY <2>1, <2>2 DEF CopIdle, queueVars, ProgramWords
  <2>3. CASE CopRetry
    <3>1. ir \in InstrType /\ Decode(ir, rt, ir.d) /\ UNCHANGED instr_q
      BY <2>3 DEF CopRetry, TypeOK, queueVars
    <3>2. ir' \in {ir, NoInstr}
      BY <3>1, DecodeEffect DEF Disposed
    <3> QED
      BY <2>1, <3>1, <3>2 DEF ProgramWords
  <2>4. CASE CopFetch
    <3> DEFINE x == Head(instr_q)
               v == IF Dequeued(x) THEN Head(rt_val_q) ELSE rt
    <3>1. instr_q # <<>> /\ instr_q' = Tail(instr_q)
            /\ (Decode(x, v, 0) \/ ir' = x)
      BY <2>4 DEF CopFetch
    <3>2. x \in Instrs /\ instr_q' \in Seq(Instrs)
      BY <3>1 DEF ProgramWords
    <3>3. x \in InstrType
      BY <3>2
    <3> HIDE DEF x, v
    <3>4. ir' \in {x, NoInstr}
      BY <3>1, <3>3, DecodeEffect DEF Disposed
    <3> QED
      BY <2>1, <3>2, <3>4 DEF ProgramWords
  <2> QED
    BY <1>4, <2>2, <2>3, <2>4 DEF CopStep
<1> QED
  BY <1>1, <1>2, <1>3, <1>4 DEF Next

\* The instructions of the units, which the abstract specification calls run.
Running == [f \in FUs |-> fu[f].ir]

\* The decoder at the word p, with q behind it: drop, stutter or dispatch.
LEMMA DisposedInOrder ==
  ASSUME ProgramWords, NEW x \in Instrs, NEW v, NEW q \in Seq(Instrs),
         Pending = <<x>> \o q, instr_q' = q, Disposed(x, v)
  PROVE  InOrder!IONext \/ UNCHANGED <<Pending, Running>>
<1>0. x # NoInstr
  OBVIOUS
<1>1. Pending # <<>> /\ Head(Pending) = x /\ Tail(Pending) = q
  BY FrontOfQueue
<1>2. CASE x.op = "NOP" /\ ir' = NoInstr /\ SameRun({})
  <2>1. Pending' = q /\ Running' = Running
    BY <1>2 DEF Pending, Running, SameRun
  <2> QED
    BY <1>1, <1>2, <2>1
       DEF InOrder!IONext, InOrder!Drop, InOrder!Take, Running
<1>3. CASE ir' = x /\ SameRun({})
  <2>1. Pending' = Pending /\ Running' = Running
    BY <1>0, <1>3 DEF Pending, Running, SameRun
  <2> QED
    BY <2>1
<1>4. ASSUME NEW f \in FUs, ir' = NoInstr, Idle(f), fu'[f].ir = x, SameRun({f})
      PROVE  InOrder!Dispatch(f)
  <2>1. Pending' = q
    BY <1>4 DEF Pending
  <2>2. Running[f] = NoInstr /\ Running' = [Running EXCEPT ![f] = x]
    BY <1>4 DEF Running, SameRun, Idle
  <2> QED
    BY <1>1, <2>1, <2>2 DEF InOrder!Dispatch, InOrder!Take, Running
<1> QED
  BY <1>2, <1>3, <1>4 DEF Disposed, InOrder!IONext

\* A slice of the decoder takes up the first word or none ...
LEMMA CopStepInOrder ==
  ASSUME TypeOK, ProgramWords, CopStep
  PROVE  InOrder!IONext \/ UNCHANGED <<Pending, Running>>
<1>1. CASE CopIdle
  BY <1>1 DEF CopIdle, queueVars, Pending, Running
<1>2. CASE CopRetry
  <2>1. ir \in Instrs /\ Decode(ir, rt, ir.d) /\ UNCHANGED instr_q
    BY <1>2 DEF CopRetry, queueVars, ProgramWords
  <2>2. ir \in InstrType /\ Pending = <<ir>> \o instr_q
    BY <1>2, <2>1 DEF Pending, CopRetry
  <2>3. Disposed(ir, rt)
    BY <2>1, <2>2, DecodeEffect
  <2> QED
    BY <2>1, <2>2, <2>3, DisposedInOrder DEF ProgramWords
<1>3. CASE CopFetch
  <2> DEFINE x == Head(instr_q)
             v == IF Dequeued(x) THEN Head(rt_val_q) ELSE rt
  <2>1. /\ ir = NoInstr /\ instr_q # <<>> /\ instr_q' = Tail(instr_q)
        /\ \/ Decode(x, v, 0)
           \/ ir' = x /\ rt' = v /\ UNCHANGED <<status, fu>>
    BY <1>3 DEF CopFetch
  <2>2. /\ x \in Instrs /\ Tail(instr_q) \in Seq(Instrs)
        /\ instr_q = <<x>> \o Tail(instr_q)
    BY <2>1, HeadTailProperties, ConcatProperties DEF ProgramWords
  <2>3. x \in InstrType
    BY <2>2
  <2> HIDE DEF x, v
  <2>4. Disposed(x, v)
    BY <2>1, <2>3, DecodeEffect DEF Disposed, SameRun
  <2>5. Pending = <<x>> \o Tail(instr_q)
    BY <2>1, <2>2 DEF Pending
  <2> QED
    BY <2>1, <2>2, <2>4, <2>5, DisposedInOrder
<1> QED
  BY <1>1, <1>2, <1>3 DEF CopStep

\* ... one of the CPU adds one behind the others ...
LEMMA CpuStepInOrder ==
  ASSUME TypeOK, ProgramWords, CpuStep
  PROVE  InOrder!IONext \/ UNCHANGED <<Pending, Running>>
<1>1. Running' = Running /\ ir' = ir
  BY CpuEffect DEF SameRun, Running
<1>2. CASE UNCHANGED queueVars
  BY <1>1, <1>2 DEF queueVars, Pending
<1>3. ASSUME NEW x \in Instrs, Enqueued(x) PROVE InOrder!Accept(x)
  <2>1. instr_q' = Append(instr_q, x)
    BY <1>3 DEF Enqueued
  <2>2. Pending' = Append(Pending, x)
    BY <1>1, <2>1, FrontOfQueue DEF Pending, ProgramWords
  <2> QED
    BY <1>1, <2>2 DEF InOrder!Accept, Running
<1>4. stalled \in Instrs \cup {NoInstr}
  BY DEF ProgramWords
<1> QED
  BY <1>2, <1>3, <1>4, CpuEffect DEF InOrder!IONext

\* ... and one of a unit ends one that runs.
LEMMA FuStepInOrder ==
  ASSUME TypeOK, NEW f \in FUs, FuStep(f)
  PROVE  InOrder!IONext \/ UNCHANGED <<Pending, Running>>
<1>1. Pending' = Pending
  BY DEF FuStep, queueVars, Pending
<1>2. Running' = Running
        \/ (Running[f] # NoInstr /\ Running' = [Running EXCEPT ![f] = NoInstr])
  <2>1. /\ \A g \in FUs \ {f} : fu'[g].ir = fu[g].ir
        /\ fu'[f].ir \in {fu[f].ir, NoInstr}
    BY FuEffect DEF SameRun
  <2>2. CASE fu'[f].ir = fu[f].ir
    BY <2>1, <2>2 DEF Running
  <2>3. CASE fu'[f].ir = NoInstr /\ fu[f].ir # NoInstr
    BY <2>1, <2>3 DEF Running
  <2> QED
    BY <2>1, <2>2, <2>3
<1> QED
  BY <1>1, <1>2 DEF InOrder!IONext, InOrder!Complete, Running

\* The queue, the word held in ir and the units together take up every
\* instruction once and in program order, in every schedule and across stalls,
\* retries and RST.
THEOREM IssuesInOrderHolds ==
  ASSUME QuietPowerUp
  PROVE  Spec => IssuesInOrder
<1>1. Init => TypeOK /\ ProgramWords
  BY InitType DEF Init, ProgramWords
<1>2. TypeOK /\ ProgramWords /\ [Next]_vars => (TypeOK /\ ProgramWords)'
  BY NextType, NextProgram
<1>3. Init => InOrder!IOInit
  BY QuietPowerUp DEF Init, QuietPowerUp, InOrder!IOInit, Pending
<1>4. TypeOK /\ ProgramWords /\ [Next]_vars
        => [InOrder!IONext]_(InOrder!ioVars)
  <2> SUFFICES ASSUME TypeOK, ProgramWords, [Next]_vars
               PROVE  InOrder!IONext \/ UNCHANGED <<Pending, Running>>
    BY DEF InOrder!ioVars, Running
  <2>1. CASE Tick \/ UNCHANGED vars
    BY <2>1 DEF Tick, vars, queueVars, copVars, Pending, Running
  <2>2. CASE CopStep
    BY <2>2, CopStepInOrder
  <2>3. CASE \E f \in FUs : FuStep(f)
    BY <2>3, FuStepInOrder
  <2>4. CASE CpuStep
    BY <2>4, CpuStepInOrder
  <2> QED
    BY <2>1, <2>2, <2>3, <2>4 DEF Next
<1> QED
  BY <1>1, <1>2, <1>3, <1>4, PTL DEF Spec, IssuesInOrder, InOrder!IOSpec

----------------------------------------------------------------------------
(* The operands.                                                           *)

Value == Nat

\* m tells for each operand of v which word of q it belongs to: in order, none
\* left out, and with room behind it for the operands still to come.
Matching(m, q, v) ==
  /\ m \in [1 .. Len(v) -> 1 .. Len(q)]
  /\ \A j, k \in 1 .. Len(v) : j < k => m[j] < m[k]
  /\ \A k \in 1 .. Len(v) : HasOperand(q[m[k]]) /\ v[k] = q[m[k]].rt
  /\ \A k \in 1 .. Len(v) : Len(v) - k <= Len(q) - m[k]
  /\ \A p \in 1 .. Len(q) :
       HasOperand(q[p]) => \E k \in 1 .. Len(v) : m[k] = p

\* No more operands than words, so the operand queue has room whenever the
\* instruction queue has.
LEMMA OperandRoom ==
  ASSUME NEW q \in Seq(InstrType), NEW v \in Seq(Value),
         NEW m, Matching(m, q, v)
  PROVE  Len(v) <= Len(q)
<1>1. Len(v) \in Nat /\ Len(q) \in Nat
  OBVIOUS
<1>2. CASE Len(v) = 0
  BY <1>1, <1>2
<1>3. CASE Len(v) >= 1
  <2>1. 1 \in 1 .. Len(v)
    BY <1>1, <1>3
  <2>2. m[1] \in 1 .. Len(q) /\ Len(v) - 1 <= Len(q) - m[1]
    BY <2>1 DEF Matching
  <2> QED
    BY ONLY <1>1, <2>2
<1> QED
  BY <1>1, <1>2, <1>3

\* A word appended with its operand: the pairing gains one.
LEMMA AppendPairs ==
  ASSUME NEW q \in Seq(InstrType), NEW v \in Seq(Value),
         NEW m, Matching(m, q, v), NEW x \in InstrType
  PROVE  \E w : Matching(w, Append(q, x),
                         IF HasOperand(x) THEN Append(v, x.rt) ELSE v)
<1> DEFINE qq == Append(q, x)
<1>1. /\ Len(q) \in Nat /\ Len(v) \in Nat
      /\ Len(qq) = Len(q) + 1 /\ qq[Len(q) + 1] = x
      /\ \A p \in 1 .. Len(q) : qq[p] = q[p]
  BY AppendProperties
<1> HIDE DEF qq
<1>2. /\ \A k \in 1 .. Len(v) : m[k] \in 1 .. Len(q)
      /\ \A j, k \in 1 .. Len(v) : j < k => m[j] < m[k]
      /\ \A k \in 1 .. Len(v) : HasOperand(q[m[k]]) /\ v[k] = q[m[k]].rt
      /\ \A k \in 1 .. Len(v) : Len(v) - k <= Len(q) - m[k]
      /\ \A p \in 1 .. Len(q) :
           HasOperand(q[p]) => \E k \in 1 .. Len(v) : m[k] = p
  BY DEF Matching
<1>3. CASE HasOperand(x)
  <2> DEFINE vv == Append(v, x.rt)
             w  == [k \in 1 .. Len(vv) |-> IF k = Len(vv) THEN Len(qq) ELSE m[k]]
  <2>1. /\ Len(vv) = Len(v) + 1 /\ vv[Len(v) + 1] = x.rt
        /\ \A k \in 1 .. Len(v) : vv[k] = v[k]
    <3>1. x.rt \in Value
      BY DEF InstrType, Value
    <3> QED
      BY ONLY <3>1, v \in Seq(Value), AppendProperties
  <2> HIDE DEF vv
  <2>2. \A k \in 1 .. Len(vv) : k = Len(vv) \/ k \in 1 .. Len(v)
    BY ONLY <1>1, <2>1
  <2>3. w[Len(vv)] = Len(qq) /\ \A k \in 1 .. Len(v) : w[k] = m[k]
    BY ONLY <1>1, <2>1
  <2>4. w \in [1 .. Len(vv) -> 1 .. Len(qq)]
    BY ONLY <1>1, <1>2, <2>1
  <2> HIDE DEF w
  <2>5. \A j, k \in 1 .. Len(vv) : j < k => w[j] < w[k]
    <3> SUFFICES ASSUME NEW j \in 1 .. Len(vv), NEW k \in 1 .. Len(vv), j < k
                 PROVE  w[j] < w[k]
      OBVIOUS
    <3>1. j \in 1 .. Len(v) /\ w[j] = m[j] /\ m[j] \in 1 .. Len(q)
      <4>1. j \in 1 .. Len(v)
        BY ONLY <1>1, <2>1, j \in 1 .. Len(vv), k \in 1 .. Len(vv), j < k
      <4> QED
        BY ONLY <1>2, <2>3, <4>1
    <3>2. CASE k = Len(vv)
      <4>1. w[k] = Len(q) + 1
        BY ONLY <1>1, <2>3, <3>2
      <4> QED
        BY ONLY <1>1, <3>1, <4>1
    <3>3. CASE k \in 1 .. Len(v)
      BY ONLY <1>2, <2>3, <3>1, <3>3, j < k
    <3> QED
      BY <2>2, <3>2, <3>3
  <2>6. \A k \in 1 .. Len(vv) : /\ HasOperand(qq[w[k]]) /\ vv[k] = qq[w[k]].rt
                                /\ Len(vv) - k <= Len(qq) - w[k]
    <3> TAKE k \in 1 .. Len(vv)
    <3>1. CASE k = Len(vv)
      <4>1. w[k] = Len(qq) /\ qq[w[k]] = x /\ vv[k] = x.rt
        BY ONLY <1>1, <2>1, <2>3, <3>1
      <4>2. Len(vv) - k <= Len(qq) - w[k]
        BY ONLY <1>1, <2>1, <3>1, <4>1
      <4> QED
        BY <1>3, <4>1, <4>2
    <3>2. CASE k \in 1 .. Len(v)
      <4>1. w[k] = m[k] /\ m[k] \in 1 .. Len(q)
        BY ONLY <1>2, <2>3, <3>2
      <4>2. qq[w[k]] = q[m[k]] /\ vv[k] = v[k]
        BY ONLY <1>1, <2>1, <3>2, <4>1
      <4>3. Len(v) - k <= Len(q) - m[k]
        BY ONLY <1>2, <3>2
      <4>4. Len(vv) - k <= Len(qq) - w[k]
        BY ONLY <1>1, <2>1, <3>2, <4>1, <4>3
      <4>5. HasOperand(q[m[k]]) /\ v[k] = q[m[k]].rt
        BY ONLY <1>2, <3>2
      <4> QED
        BY ONLY <4>2, <4>4, <4>5
    <3> QED
      BY <2>2, <3>1, <3>2
  <2>7. ASSUME NEW p \in 1 .. Len(qq), HasOperand(qq[p])
        PROVE  \E k \in 1 .. Len(vv) : w[k] = p
    <3>1. CASE p = Len(qq)
      <4>1. Len(vv) \in 1 .. Len(vv)
        BY ONLY <1>1, <2>1
      <4> QED
        BY ONLY <2>3, <3>1, <4>1
    <3>2. CASE p \in 1 .. Len(q)
      <4>1. HasOperand(q[p])
        BY ONLY <1>1, <2>7, <3>2
      <4>2. PICK k \in 1 .. Len(v) : m[k] = p
        BY ONLY <1>2, <3>2, <4>1
      <4>3. k \in 1 .. Len(vv) /\ w[k] = p
        BY ONLY <1>1, <2>1, <2>3, <4>2
      <4> QED
        BY ONLY <4>3
    <3>3. p = Len(qq) \/ p \in 1 .. Len(q)
      BY ONLY <1>1, p \in 1 .. Len(qq)
    <3> QED
      BY <3>1, <3>2, <3>3
  <2>8. Matching(w, qq, vv)
    BY ONLY <2>4, <2>5, <2>6, <2>7 DEF Matching
  <2> QED
    BY <1>3, <2>8 DEF qq, vv
<1>4. CASE ~HasOperand(x)
  <2>1. m \in [1 .. Len(v) -> 1 .. Len(qq)]
    BY <1>1 DEF Matching
  <2>2. \A k \in 1 .. Len(v) : /\ HasOperand(qq[m[k]]) /\ v[k] = qq[m[k]].rt
                               /\ Len(v) - k <= Len(qq) - m[k]
    <3> TAKE k \in 1 .. Len(v)
    <3>1. m[k] \in 1 .. Len(q) /\ Len(v) - k <= Len(q) - m[k]
      BY ONLY <1>2, k \in 1 .. Len(v)
    <3>2. Len(v) - k <= Len(qq) - m[k]
      BY ONLY <1>1, <3>1, k \in 1 .. Len(v)
    <3> QED
      BY ONLY <1>1, <1>2, <3>1, <3>2, k \in 1 .. Len(v)
  <2>3. ASSUME NEW p \in 1 .. Len(qq), HasOperand(qq[p])
        PROVE  \E k \in 1 .. Len(v) : m[k] = p
    <3>1. p \in 1 .. Len(q)
      BY ONLY <1>1, <1>4, <2>3, p \in 1 .. Len(qq)
    <3> QED
      BY ONLY <1>1, <1>2, <2>3, <3>1
  <2>4. Matching(m, qq, v)
    BY ONLY <1>2, <2>1, <2>2, <2>3 DEF Matching
  <2> QED
    BY <1>4, <2>4 DEF qq
<1> QED
  BY <1>3, <1>4

\* A word taken from the front: if it has an operand, that operand is in front
\* of the others, and the pairing loses its first.
LEMMA TailPairs ==
  ASSUME NEW q \in Seq(InstrType), NEW v \in Seq(Value), q # <<>>,
         NEW m, Matching(m, q, v)
  PROVE  /\ HasOperand(Head(q)) => v # <<>> /\ Head(v) = Head(q).rt
         /\ \E w : Matching(w, Tail(q), IF HasOperand(Head(q)) THEN Tail(v) ELSE v)
<1> DEFINE x == Head(q)
           qq == Tail(q)
<1>1. /\ Len(q) \in Nat \ {0} /\ Len(v) \in Nat /\ x = q[1]
      /\ Len(qq) = Len(q) - 1 /\ \A p \in 1 .. Len(qq) : qq[p] = q[p + 1]
  BY HeadTailProperties
<1> HIDE DEF x, qq
<1>2. /\ \A k \in 1 .. Len(v) : m[k] \in 1 .. Len(q)
      /\ \A j, k \in 1 .. Len(v) : j < k => m[j] < m[k]
      /\ \A k \in 1 .. Len(v) : HasOperand(q[m[k]]) /\ v[k] = q[m[k]].rt
      /\ \A k \in 1 .. Len(v) : Len(v) - k <= Len(q) - m[k]
      /\ \A p \in 1 .. Len(q) :
           HasOperand(q[p]) => \E k \in 1 .. Len(v) : m[k] = p
  BY DEF Matching
<1>3. CASE HasOperand(x)
  <2>1. 1 \in 1 .. Len(v) /\ m[1] = 1
    <3>1. 1 \in 1 .. Len(q) /\ HasOperand(q[1])
      BY ONLY <1>1, <1>3
    <3>2. PICK k \in 1 .. Len(v) : m[k] = 1
      BY ONLY <1>2, <3>1
    <3>3. 1 \in 1 .. Len(v)
      BY ONLY <1>1, <3>2
    <3>4. m[1] \in 1 .. Len(q) /\ (1 < k => m[1] < m[k])
      BY ONLY <1>2, <3>2, <3>3
    <3>5. k = 1
      BY ONLY <1>1, <3>2, <3>4
    <3> QED
      BY ONLY <3>2, <3>3, <3>5
  <2> DEFINE vv == Tail(v)
  <2>2. /\ v # <<>> /\ Head(v) = v[1]
        /\ Len(vv) = Len(v) - 1 /\ \A k \in 1 .. Len(vv) : vv[k] = v[k + 1]
    <3>1. v # <<>>
      BY ONLY <2>1, v \in Seq(Value)
    <3>2. Head(v) = v[1]
      BY ONLY <3>1, v \in Seq(Value)
    <3> QED
      BY ONLY <3>1, <3>2, v \in Seq(Value), HeadTailProperties
  <2> HIDE DEF vv
  <2>3. Head(v) = x.rt
    <3>1. v[1] = q[m[1]].rt
      BY ONLY <1>2, <2>1
    <3> QED
      BY ONLY <1>1, <2>1, <2>2, <3>1
  <2> DEFINE w == [k \in 1 .. Len(vv) |-> m[k + 1] - 1]
  <2>4. \A k \in 1 .. Len(vv) : /\ k + 1 \in 1 .. Len(v)
                                /\ m[k + 1] \in 2 .. Len(q)
                                /\ w[k] = m[k + 1] - 1
    <3> SUFFICES ASSUME NEW k \in 1 .. Len(vv)
                 PROVE  k + 1 \in 1 .. Len(v) /\ m[k + 1] \in 2 .. Len(q)
      OBVIOUS
    <3>1. k + 1 \in 1 .. Len(v) /\ 1 < k + 1
      BY ONLY <1>1, <2>2, k \in 1 .. Len(vv)
    <3>2. m[k + 1] \in 1 .. Len(q) /\ m[1] < m[k + 1]
      BY ONLY <1>2, <2>1, <3>1
    <3> QED
      BY ONLY <1>1, <2>1, <3>1, <3>2
  <2>5. w \in [1 .. Len(vv) -> 1 .. Len(qq)]
    <3>1. \A k \in 1 .. Len(vv) : w[k] \in 1 .. Len(qq)
      BY ONLY <1>1, <2>4
    <3> QED
      BY <3>1
  <2> HIDE DEF w
  <2>6. \A j, k \in 1 .. Len(vv) : j < k => w[j] < w[k]
    <3> SUFFICES ASSUME NEW j \in 1 .. Len(vv), NEW k \in 1 .. Len(vv), j < k
                 PROVE  w[j] < w[k]
      OBVIOUS
    <3>1. j + 1 < k + 1
      BY ONLY <1>1, <2>2, j \in 1 .. Len(vv), k \in 1 .. Len(vv), j < k
    <3>2. m[j + 1] < m[k + 1]
      BY ONLY <1>2, <2>4, <3>1, j \in 1 .. Len(vv), k \in 1 .. Len(vv)
    <3>3. m[j + 1] \in 2 .. Len(q) /\ m[k + 1] \in 2 .. Len(q)
            /\ w[j] = m[j + 1] - 1 /\ w[k] = m[k + 1] - 1
      BY ONLY <2>4, j \in 1 .. Len(vv), k \in 1 .. Len(vv)
    <3>4. \A g, h \in 2 .. Len(q) : g < h => g - 1 < h - 1
      BY ONLY <1>1
    <3> QED
      BY ONLY <3>2, <3>3, <3>4
  <2>7. \A k \in 1 .. Len(vv) : /\ HasOperand(qq[w[k]]) /\ vv[k] = qq[w[k]].rt
                                /\ Len(vv) - k <= Len(qq) - w[k]
    <3> TAKE k \in 1 .. Len(vv)
    <3>1. k + 1 \in 1 .. Len(v) /\ m[k + 1] \in 2 .. Len(q) /\ w[k] = m[k + 1] - 1
      BY ONLY <2>4, k \in 1 .. Len(vv)
    <3>2. w[k] \in 1 .. Len(qq) /\ w[k] + 1 = m[k + 1]
      BY ONLY <1>1, <3>1
    <3>3. qq[w[k]] = q[m[k + 1]] /\ vv[k] = v[k + 1]
      BY ONLY <1>1, <2>2, <3>2, k \in 1 .. Len(vv)
    <3>4. /\ HasOperand(q[m[k + 1]]) /\ v[k + 1] = q[m[k + 1]].rt
          /\ Len(v) - (k + 1) <= Len(q) - m[k + 1]
      BY ONLY <1>2, <3>1
    <3>5. Len(vv) - k <= Len(qq) - w[k]
      BY ONLY <1>1, <2>2, <3>1, <3>4, k \in 1 .. Len(vv)
    <3> QED
      BY ONLY <3>3, <3>4, <3>5
  <2>8. ASSUME NEW p \in 1 .. Len(qq), HasOperand(qq[p])
        PROVE  \E k \in 1 .. Len(vv) : w[k] = p
    <3>1. p + 1 \in 1 .. Len(q) /\ HasOperand(q[p + 1])
      BY ONLY <1>1, <2>8, p \in 1 .. Len(qq)
    <3>2. PICK k \in 1 .. Len(v) : m[k] = p + 1
      BY ONLY <1>2, <3>1
    <3>3. k # 1
      BY ONLY <1>1, <2>1, <3>2, p \in 1 .. Len(qq)
    <3>4. k - 1 \in 1 .. Len(vv) /\ (k - 1) + 1 = k
      BY ONLY <1>1, <2>2, <3>3, k \in 1 .. Len(v)
    <3>5. w[k - 1] = m[k] - 1
      BY ONLY <2>4, <3>4
    <3>6. w[k - 1] = p
      BY ONLY <1>1, <3>2, <3>5, p \in 1 .. Len(qq)
    <3> QED
      BY ONLY <3>4, <3>6
  <2>9. Matching(w, qq, vv)
    BY ONLY <2>5, <2>6, <2>7, <2>8 DEF Matching
  <2> QED
    BY <1>3, <2>2, <2>3, <2>9 DEF x, qq, vv
<1>4. CASE ~HasOperand(x)
  <2> DEFINE w == [k \in 1 .. Len(v) |-> m[k] - 1]
  <2>1. ASSUME NEW k \in 1 .. Len(v) PROVE m[k] \in 2 .. Len(q) /\ w[k] = m[k] - 1
    <3>1. m[k] \in 1 .. Len(q) /\ HasOperand(q[m[k]])
      BY ONLY <1>2, k \in 1 .. Len(v)
    <3>2. m[k] # 1
      BY ONLY <1>1, <1>4, <3>1
    <3>3. m[k] \in 2 .. Len(q)
      BY ONLY <1>1, <3>1, <3>2
    <3> QED
      BY <3>3
  <2>2. w \in [1 .. Len(v) -> 1 .. Len(qq)]
    <3>1. \A k \in 1 .. Len(v) : w[k] \in 1 .. Len(qq)
      BY ONLY <1>1, <2>1
    <3> QED
      BY <3>1
  <2> HIDE DEF w
  <2>3. \A j, k \in 1 .. Len(v) : j < k => w[j] < w[k]
    <3> SUFFICES ASSUME NEW j \in 1 .. Len(v), NEW k \in 1 .. Len(v), j < k
                 PROVE  w[j] < w[k]
      OBVIOUS
    <3>1. m[j] < m[k] /\ m[j] \in 2 .. Len(q) /\ m[k] \in 2 .. Len(q)
            /\ w[j] = m[j] - 1 /\ w[k] = m[k] - 1
      BY ONLY <1>2, <2>1, j \in 1 .. Len(v), k \in 1 .. Len(v), j < k
    <3> QED
      BY ONLY <1>1, <3>1
  <2>4. \A k \in 1 .. Len(v) : /\ HasOperand(qq[w[k]]) /\ v[k] = qq[w[k]].rt
                               /\ Len(v) - k <= Len(qq) - w[k]
    <3> TAKE k \in 1 .. Len(v)
    <3>1. /\ m[k] \in 2 .. Len(q) /\ w[k] = m[k] - 1
          /\ Len(v) - k <= Len(q) - m[k]
          /\ HasOperand(q[m[k]]) /\ v[k] = q[m[k]].rt
      BY ONLY <1>2, <2>1, k \in 1 .. Len(v)
    <3>2. w[k] \in 1 .. Len(qq) /\ w[k] + 1 = m[k]
      BY ONLY <1>1, <3>1
    <3>3. qq[w[k]] = q[m[k]]
      BY ONLY <1>1, <3>2
    <3>4. Len(v) - k <= Len(qq) - w[k]
      BY ONLY <1>1, <3>1, k \in 1 .. Len(v)
    <3> QED
      BY ONLY <3>1, <3>3, <3>4
  <2>5. ASSUME NEW p \in 1 .. Len(qq), HasOperand(qq[p])
        PROVE  \E k \in 1 .. Len(v) : w[k] = p
    <3>1. p + 1 \in 1 .. Len(q) /\ HasOperand(q[p + 1])
      BY ONLY <1>1, <2>5, p \in 1 .. Len(qq)
    <3>2. PICK k \in 1 .. Len(v) : m[k] = p + 1
      BY ONLY <1>2, <3>1
    <3>3. w[k] = p
      BY ONLY <1>1, <2>1, <3>2, p \in 1 .. Len(qq)
    <3> QED
      BY ONLY <3>3
  <2>6. Matching(w, qq, v)
    BY ONLY <2>2, <2>3, <2>4, <2>5 DEF Matching
  <2> QED
    BY <1>4, <2>6 DEF x, qq
<1> QED
  BY <1>3, <1>4

\* OperandPaired, strengthened by the pairing of what is still queued and by
\* the bound that keeps execute from dropping an operand.
PairedInv ==
  /\ Len(instr_q) <= QSize
  /\ \E m : Matching(m, instr_q, rt_val_q)
  /\ OperandPaired

\* The two queues are sequences.
LEMMA QueueTypes ==
  ASSUME TypeOK
  PROVE  instr_q \in Seq(InstrType) /\ rt_val_q \in Seq(Value)
BY DEF TypeOK, Value

\* The decoder hands on what it holds together with its operand.
LEMMA DisposedPaired ==
  ASSUME OperandPaired, NEW x \in InstrType, NEW v,
         HasOperand(x) => v = x.rt, Disposed(x, v)
  PROVE  OperandPaired'
<1>1. CASE ir' = NoInstr /\ SameRun({})
  BY <1>1 DEF SameRun, OperandPaired, Idle
<1>2. CASE ir' = x /\ rt' = v /\ SameRun({})
  BY <1>2 DEF SameRun, OperandPaired, Idle
<1>3. ASSUME NEW f \in FUs, ir' = NoInstr, fu'[f].ir = x, fu'[f].rt = v,
             SameRun({f})
      PROVE  OperandPaired'
  <2>1. \A g \in FUs : g # f => fu'[g].ir = fu[g].ir /\ fu'[g].rt = fu[g].rt
    BY <1>3 DEF SameRun
  <2>2. \A g \in FUs : fu'[g].ir # NoInstr /\ HasOperand(fu'[g].ir)
                         => fu'[g].rt = fu'[g].ir.rt
    BY <1>3, <2>1 DEF OperandPaired, Idle
  <2> QED
    BY <1>3, <2>2 DEF OperandPaired, Idle
<1> QED
  BY <1>1, <1>2, <1>3 DEF Disposed

\* The decoder takes a word with its operand.
LEMMA CopStepPaired ==
  ASSUME TypeOK, PairedInv, CopStep
  PROVE  PairedInv'
<1>1. CASE CopIdle
  BY <1>1 DEF CopIdle, queueVars, PairedInv, OperandPaired, Idle
<1>2. CASE CopRetry
  <2>1. ir \in InstrType /\ Decode(ir, rt, ir.d) /\ UNCHANGED queueVars
    BY <1>2 DEF CopRetry, TypeOK
  <2>2. Disposed(ir, rt)
    BY <2>1, DecodeEffect
  <2>3. OperandPaired /\ (HasOperand(ir) => rt = ir.rt)
    BY <1>2 DEF CopRetry, PairedInv, OperandPaired
  <2>4. OperandPaired'
    BY <2>1, <2>2, <2>3, DisposedPaired
  <2> QED
    BY <2>1, <2>4 DEF queueVars, PairedInv
<1>3. CASE CopFetch
  <2> DEFINE x == Head(instr_q)
             v == IF Dequeued(x) THEN Head(rt_val_q) ELSE rt
  <2>1. /\ instr_q # <<>> /\ instr_q' = Tail(instr_q)
        /\ rt_val_q' = IF Dequeued(x) THEN Tail(rt_val_q) ELSE rt_val_q
        /\ \/ Decode(x, v, 0)
           \/ ir' = x /\ rt' = v /\ UNCHANGED <<status, fu>>
    BY <1>3 DEF CopFetch
  <2>2. x \in InstrType
    BY <2>1, QueueTypes
  <2>3. PICK m : Matching(m, instr_q, rt_val_q)
    BY DEF PairedInv
  <2>4. /\ HasOperand(x) => rt_val_q # <<>> /\ Head(rt_val_q) = x.rt
        /\ \E w : Matching(w, Tail(instr_q),
                           IF HasOperand(x) THEN Tail(rt_val_q) ELSE rt_val_q)
    BY <2>1, <2>3, QueueTypes, TailPairs
  <2>5. Dequeued(x) <=> HasOperand(x)
    BY <2>4 DEF Dequeued
  <2>6. HasOperand(x) => v = x.rt
    BY <2>4, <2>5
  <2>7. Len(instr_q') <= QSize
    <3>1. Len(instr_q) \in Nat /\ Len(instr_q') = Len(instr_q) - 1
      BY <2>1, QueueTypes, HeadTailProperties
    <3> QED
      BY <3>1 DEF PairedInv
  <2>8. \E w : Matching(w, instr_q', rt_val_q')
    <3>1. rt_val_q' = IF HasOperand(x) THEN Tail(rt_val_q) ELSE rt_val_q
      BY <2>1, <2>5
    <3> QED
      BY <2>1, <2>4, <3>1
  <2> HIDE DEF x, v
  <2>9. Disposed(x, v)
    BY <2>1, <2>2, DecodeEffect DEF Disposed, SameRun
  <2>10. OperandPaired'
    BY <2>2, <2>6, <2>9, DisposedPaired DEF PairedInv
  <2> QED
    BY <2>7, <2>8, <2>10 DEF PairedInv
<1> QED
  BY <1>1, <1>2, <1>3 DEF CopStep

\* The CPU puts a word with its operand, and finds room for both.
LEMMA CpuStepPaired ==
  ASSUME TypeOK, PairedInv, CpuStep
  PROVE  PairedInv'
<1>1. OperandPaired'
  BY CpuEffect DEF SameRun, PairedInv, OperandPaired, Idle
<1>2. CASE UNCHANGED queueVars
  BY <1>1, <1>2 DEF queueVars, PairedInv
<1>3. ASSUME NEW x \in InstrType, Enqueued(x) PROVE PairedInv'
  <2>1. PICK m : Matching(m, instr_q, rt_val_q)
    BY DEF PairedInv
  <2>2. /\ Len(instr_q) \in Nat /\ Len(rt_val_q) \in Nat
        /\ Len(instr_q) < QSize /\ Len(rt_val_q) <= Len(instr_q)
    <3>1. Len(instr_q) \in Nat /\ Len(rt_val_q) \in Nat
      BY QueueTypes
    <3>2. Len(rt_val_q) <= Len(instr_q)
      BY <2>1, QueueTypes, OperandRoom
    <3> QED
      BY <1>3, <3>1, <3>2 DEF PairedInv, Enqueued
  <2>3. /\ instr_q' = Append(instr_q, x)
        /\ rt_val_q' = IF HasOperand(x) THEN Append(rt_val_q, x.rt) ELSE rt_val_q
    BY <1>3, <2>2 DEF Enqueued
  <2>4. \E w : Matching(w, instr_q', rt_val_q')
    BY <2>1, <2>3, QueueTypes, AppendPairs
  <2>5. Len(instr_q') <= QSize
    BY <2>2, <2>3, QueueTypes, AppendProperties
  <2> QED
    BY <1>1, <2>4, <2>5 DEF PairedInv
<1>4. Instrs \cup ({stalled} \ {NoInstr}) \subseteq InstrType
  BY DEF TypeOK
<1> QED
  BY <1>2, <1>3, <1>4, CpuEffect

\* A unit keeps the operand of its word.
LEMMA FuStepPaired ==
  ASSUME TypeOK, PairedInv, NEW f \in FUs, FuStep(f)
  PROVE  PairedInv'
<1>1. UNCHANGED <<instr_q, rt_val_q, ir, rt>>
  BY DEF FuStep, queueVars
<1>2. \A g \in FUs : /\ fu'[g].ir \in {fu[g].ir, NoInstr}
                     /\ fu'[g].rt = fu[g].rt
  BY FuEffect DEF SameRun
<1>3. OperandPaired'
  BY <1>1, <1>2 DEF PairedInv, OperandPaired, Idle
<1> QED
  BY <1>1, <1>3 DEF PairedInv

\* Every MTC2 and CP instruction reaches the decoder, and then its unit, with
\* the operand that it was enqueued with: the two queues never slip against
\* each other, although execute ignores whether the operand was accepted.
THEOREM OperandPairedHolds ==
  ASSUME QuietPowerUp
  PROVE  Spec => []OperandPaired
<1>1. Init => TypeOK /\ PairedInv
  <2> SUFFICES ASSUME Init PROVE PairedInv
    BY InitType
  <2>1. instr_q = <<>> /\ rt_val_q = <<>> /\ ir = NoInstr
          /\ \A f \in FUs : fu[f].ir = NoInstr
    BY QuietPowerUp DEF Init, QuietPowerUp
  <2>2. Matching([k \in 1 .. 0 |-> 0], instr_q, rt_val_q)
    BY <2>1 DEF Matching
  <2>3. Len(instr_q) <= QSize /\ OperandPaired
    BY <2>1 DEF OperandPaired, Idle
  <2> QED
    BY <2>2, <2>3 DEF PairedInv
<1>2. TypeOK /\ PairedInv /\ [Next]_vars => (TypeOK /\ PairedInv)'
  <2> SUFFICES ASSUME TypeOK, PairedInv, [Next]_vars PROVE PairedInv'
    BY NextType
  <2>1. CASE Tick \/ UNCHANGED vars
    BY <2>1 DEF Tick, vars, queueVars, copVars, PairedInv, OperandPaired, Idle
  <2>2. CASE CopStep
    BY <2>2, CopStepPaired
  <2>3. CASE \E f \in FUs : FuStep(f)
    BY <2>3, FuStepPaired
  <2>4. CASE CpuStep
    BY <2>4, CpuStepPaired
  <2> QED
    BY <2>1, <2>2, <2>3, <2>4 DEF Next
<1>3. PairedInv => OperandPaired
  BY DEF PairedInv
<1> QED
  BY <1>1, <1>2, <1>3, PTL DEF Spec
=============================================================================
