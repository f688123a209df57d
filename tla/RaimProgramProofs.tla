-------------------------- MODULE RaimProgramProofs --------------------------
(***************************************************************************)
(* raim.s is a client of the coprocessor as RaimCop describes one, for     *)
(* every number of satellites, every mask and every size of the tables: so *)
(* what is proved of the coprocessor under any program holds under it.     *)
(***************************************************************************)
EXTENDS RaimProgram, RaimIssueProofs

----------------------------------------------------------------------------
(* The text of the program.                                                *)

\* Where each kind of step is.
CpuAt    == {1, 21, 41, 46, 49}
JumpAt   == {43, 48}
FirstAt  == {9, 28, 44}
LoopAt   == {19, 50, 52}
LoadsAt  == (2 .. 8) \cup (10 .. 17) \cup {29}
BranchAt == {26, 33, 38, 42, 47}

\* The text has 52 steps, and each kind of step only where it is said to be.
LEMMA Kinds ==
  /\ DOMAIN Program = 1 .. 52 /\ Len(Program) = 52
  /\ \A i \in 1 .. 52 :
       /\ Program[i].do = "cpu" => i \in CpuAt
       /\ Program[i].do = "jump" => i \in JumpAt
       /\ Program[i].do = "first" => i \in FirstAt
       /\ Program[i].do = "loop" => i \in LoopAt
       /\ Program[i].do = "load" => i \in LoadsAt
       /\ Program[i].do = "branch" => i \in BranchAt
<1>1. DOMAIN Program = 1 .. 52 /\ Len(Program) = 52
  BY DEF Program
<1>2. \A i \in 1 .. 52 : Program[i].do = "cpu" => i \in CpuAt
  BY DEF Program, CpuAt, Plain, Lwc2, Issue, Bc2, Jump, First, Loop
<1>3. \A i \in 1 .. 52 : Program[i].do = "jump" => i \in JumpAt
  BY DEF Program, JumpAt, Plain, Lwc2, Issue, Bc2, Jump, First, Loop
<1>4. \A i \in 1 .. 52 : Program[i].do = "first" => i \in FirstAt
  BY DEF Program, FirstAt, Plain, Lwc2, Issue, Bc2, Jump, First, Loop
<1>5. \A i \in 1 .. 52 : Program[i].do = "loop" => i \in LoopAt
  BY DEF Program, LoopAt, Plain, Lwc2, Issue, Bc2, Jump, First, Loop
<1>6. \A i \in 1 .. 52 : Program[i].do = "load" => i \in LoadsAt
  BY DEF Program, LoadsAt, Plain, Lwc2, Issue, Bc2, Jump, First, Loop
<1>7. \A i \in 1 .. 52 : Program[i].do = "branch" => i \in BranchAt
  BY DEF Program, BranchAt, Plain, Lwc2, Issue, Bc2, Jump, First, Loop
<1> QED
  BY <1>1, <1>2, <1>3, <1>4, <1>5, <1>6, <1>7

\* What the program issues, and where it issues what the client must count:
\* NEWSS, TSTL with its operand, the operations on a subset.
LEMMA IssueText ==
  \A i \in 1 .. 52 : Program[i].do = "issue" =>
    /\ Program[i].op \in NoOperand \cup {"IDX", "TSTL"} \cup (SubsetOps \ {"MOVD"})
    /\ Program[i].op = "NEWSS" => i \in {27, 51}
    /\ Program[i].op = "TSTL" => i = 45
    /\ Program[i].op \in SubsetOps => i \in {23, 24, 25} \cup (30 .. 40)
    /\ i \in {27, 51} => Program[i].op = "NEWSS"
    /\ i \notin {9, 19, 28, 44, 50, 52}
<1>1. \A i \in 1 .. 52 : Program[i].do = "issue" =>
        Program[i].op \in NoOperand \cup {"IDX", "TSTL"} \cup (SubsetOps \ {"MOVD"})
  BY DEF Program, NoOperand, SubsetOps, Plain, Lwc2, Issue, Bc2, Jump, First, Loop
<1>2. \A i \in 1 .. 52 : Program[i].do = "issue" =>
        /\ Program[i].op = "NEWSS" => i \in {27, 51}
        /\ Program[i].op = "TSTL" => i = 45
        /\ i \in {27, 51} => Program[i].op = "NEWSS"
  BY DEF Program, Plain, Lwc2, Issue, Bc2, Jump, First, Loop
<1>3. \A i \in 1 .. 52 : Program[i].do = "issue" =>
        (Program[i].op \in SubsetOps => i \in {23, 24, 25} \cup (30 .. 40))
  BY DEF Program, SubsetOps, Plain, Lwc2, Issue, Bc2, Jump, First, Loop
<1>4. \A i \in 1 .. 52 : Program[i].do = "issue" => i \notin {9, 19, 28, 44, 50, 52}
  BY DEF Program, Plain, Lwc2, Issue, Bc2, Jump, First, Loop
<1> QED
  BY <1>1, <1>2, <1>3, <1>4

\* The two loads whose word the control depends on are in the loops that move
\* their cursors.
LEMMA LoadText ==
  \A i \in 1 .. 52 : Program[i].do = "load" =>
    /\ Program[i].reg = "C" => i = 13
    /\ Program[i].reg = "IDX" => i = 29
BY DEF Program, Plain, Lwc2, Issue, Bc2, Jump, First, Loop

\* Where branches, jumps and loops go, and which cursor a loop moves.
LEMMA GoText ==
  /\ Program[19].to = 10 /\ Program[50].to = 45 /\ Program[52].to = 29
  /\ Program[26].to = 26 /\ Program[33].to = 33 /\ Program[38].to = 38
  /\ Program[42].to = 44 /\ Program[47].to = 49
  /\ Program[43].to = 51 /\ Program[48].to = 50
  /\ Program[9].over = "sat" /\ Program[44].over = "sat" /\ Program[28].over = "ss"
  /\ Program[19].over = "sat" /\ Program[50].over = "sat" /\ Program[52].over = "ss"
BY DEF Program, Plain, Lwc2, Issue, Bc2, Jump, First, Loop, load_loop, aiv_wait_wls,
       subset_loop, ss_wait_wls, ss_wait_var, sv_local_test, sv_local_test_loop,
       faulty_sv_located, sv_local_test_loop_increment, subset_loop_increment
----------------------------------------------------------------------------
(* What the client counts on its way.                                      *)

\* The sizes of the program's data are numbers.
LEMMA Sizes == NSat \in Nat /\ NSat >= 1 /\ Len(Masks) \in Nat /\ Len(Masks) >= 2
BY SizeAssumption, ProgramAssumption

\* The NEWSS that the program has executed when it is at pc.
Counted ==
  IF pc <= 27 THEN 0 ELSE IF pc = 28 THEN 1 ELSE IF pc <= 51 THEN ss ELSE ss + 1

\* The cursors stay within the data of the program, $t1 counts the NEWSS, and
\* the instruction that execute spins on is the one that pc names.
Where ==
  /\ pc \in 1 .. 53 /\ sat \in 0 .. NSat /\ ss \in 0 .. Len(Masks) - 1
  /\ pc \in (10 .. 19) \cup (45 .. 50) => sat # 0
  /\ pc < 29 <=> ss = 0
  /\ subset = Counted

Spins ==
  stalled # NoInstr => ~Ended /\ Step.do = "issue" /\ stalled = WordOf(Step.op)

ProgInv == Where /\ Spins

\* The program starts before its first NEWSS, with nothing to repeat.
LEMMA ProgInitInv == ProgInit => ProgInv
BY Sizes DEF ProgInit, Init, ProgInv, Where, Spins, Counted

\* A step of the program that issues nothing starts with the CPU running free.
LEMMA NotIssuing ==
  ASSUME ProgInv, NEW kind, kind # "issue", Do(kind)
  PROVE  /\ stalled = NoInstr /\ pc \in 1 .. 52 /\ Program[pc].do = kind
         /\ Step = Program[pc]
BY Kinds DEF ProgInv, Where, Spins, Do, Ended, Step

\* The client may have stretches of the lengths that the program has.
LEMMA StretchText ==
  ASSUME NEW i \in 1 .. 52, Program[i].do \in {"cpu", "jump", "first", "loop"}
  PROVE  Program[i].cc \in Stretches
<1>1. i \in Steps({"cpu", "jump", "first", "loop"})
  BY Kinds DEF Steps
<1>2. Program[i].cc \in ClientStretches
  BY <1>1 DEF ClientStretches
<1> QED
  BY <1>2, ClientAssumption

\* As long as the CPU is not held up there is nothing to repeat.
LEMMA FreeStep ==
  ASSUME stalled = NoInstr, stalled' = stalled
  PROVE  Spins'
BY DEF Spins

\* A stretch of integer instructions is a stretch of the client.
LEMMA PlainStepInv ==
  ASSUME ProgInv, PlainStep
  PROVE  ProgInv' /\ CpuStep
<1>1. /\ stalled = NoInstr /\ pc \in CpuAt /\ Step = Program[pc]
      /\ pc \in 1 .. 52 /\ Program[pc].do = "cpu"
  BY NotIssuing, Kinds DEF PlainStep
<1>2. /\ pc' = pc + 1 /\ UNCHANGED <<sat, ss, stalled, subset>>
      /\ Wait(Cpu, Step.cc) /\ Apart /\ CanRun(Cpu)
  BY DEF PlainStep, Apart, cpuVars, Do
<1>3. ProgInv'
  <2>1. Where'
    BY <1>1, <1>2, Sizes DEF ProgInv, Where, Counted, CpuAt
  <2> QED
    BY <1>1, <1>2, <2>1, FreeStep DEF ProgInv
<1>4. Step.cc \in Stretches
  BY <1>1, StretchText
<1> QED
  BY <1>1, <1>2, <1>3, <1>4 DEF CpuStep, CpuOther, Apart, cpuVars

\* Both jumps stay within the loop over the subsets, at the same count.
LEMMA JumpStepInv ==
  ASSUME ProgInv, JumpStep
  PROVE  ProgInv' /\ CpuStep
<1>1. /\ stalled = NoInstr /\ pc \in JumpAt /\ Step = Program[pc]
      /\ pc \in 1 .. 52 /\ Program[pc].do = "jump"
  BY NotIssuing, Kinds DEF JumpStep
<1>2. /\ pc' = Step.to /\ UNCHANGED <<sat, ss, stalled, subset>>
      /\ Wait(Cpu, Step.cc) /\ Apart /\ CanRun(Cpu)
  BY DEF JumpStep, Apart, cpuVars, Do
<1>3. (pc = 43 /\ pc' = 51) \/ (pc = 48 /\ pc' = 50)
  BY <1>1, <1>2, GoText DEF JumpAt
<1>4. Where'
  <2>1. /\ ss \in 0 .. Len(Masks) - 1 /\ ss # 0 /\ subset = ss
        /\ sat \in 0 .. NSat /\ (pc = 48 => sat # 0)
    BY <1>3 DEF ProgInv, Where, Counted
  <2>2. CASE pc = 43
    <3>1. pc' = 51
      BY <1>3, <2>2
    <3> QED
      BY ONLY <1>2, <2>1, <3>1 DEF Where, Counted
  <2>3. CASE pc = 48
    <3>1. pc' = 50
      BY <1>3, <2>3
    <3> QED
      BY ONLY <1>2, <2>1, <3>1, <2>3 DEF Where, Counted
  <2> QED
    BY <1>3, <2>2, <2>3
<1>5. Step.cc \in Stretches
  BY <1>1, StretchText
<1> QED
  BY <1>1, <1>2, <1>4, <1>5, FreeStep DEF ProgInv, CpuStep, CpuOther, Apart, cpuVars

\* The loops start with their first satellite, and with subset 1 after one NEWSS.
LEMMA FirstStepInv ==
  ASSUME ProgInv, FirstStep
  PROVE  ProgInv' /\ CpuStep
<1>1. /\ stalled = NoInstr /\ pc \in FirstAt /\ Step = Program[pc]
      /\ pc \in 1 .. 52 /\ Program[pc].do = "first"
  BY NotIssuing, Kinds DEF FirstStep
<1>2. /\ pc' = pc + 1 /\ UNCHANGED <<stalled, subset>>
      /\ sat' = IF Step.over = "sat" THEN 1 ELSE sat
      /\ ss' = IF Step.over = "ss" THEN 1 ELSE ss
      /\ Wait(Cpu, Step.cc) /\ Apart /\ CanRun(Cpu)
  BY DEF FirstStep, Apart, cpuVars, Do
<1>3. \/ pc \in {9, 44} /\ sat' = 1 /\ ss' = ss
      \/ pc = 28 /\ sat' = sat /\ ss' = 1
  BY <1>1, <1>2, GoText DEF FirstAt
<1>4. ProgInv'
  <2>1. Where'
    BY <1>1, <1>2, <1>3, Sizes DEF ProgInv, Where, Counted
  <2> QED
    BY <1>1, <1>2, <2>1, FreeStep DEF ProgInv
<1>5. Step.cc \in Stretches
  BY <1>1, StretchText
<1> QED
  BY <1>1, <1>2, <1>4, <1>5 DEF CpuStep, CpuOther, Apart, cpuVars

\* The cursor is compared before it moves, and so never leaves its table; when
\* $t1 moves on, NEWSS has been executed once more.
LEMMA LoopStepInv ==
  ASSUME ProgInv, LoopStep
  PROVE  ProgInv' /\ CpuStep
<1>1. /\ stalled = NoInstr /\ pc \in LoopAt /\ Step = Program[pc]
      /\ pc \in 1 .. 52 /\ Program[pc].do = "loop"
  BY NotIssuing, Kinds DEF LoopStep
<1> DEFINE last == IF Step.over = "sat" THEN sat = NSat ELSE ss = Len(Masks) - 1
<1>2. /\ pc' = (IF last THEN pc + 1 ELSE Step.to) /\ UNCHANGED <<stalled, subset>>
      /\ sat' = IF Step.over = "sat" /\ ~last THEN sat + 1 ELSE sat
      /\ ss' = IF Step.over = "ss" /\ ~last THEN ss + 1 ELSE ss
      /\ Wait(Cpu, Step.cc) /\ Apart /\ CanRun(Cpu)
  BY DEF LoopStep, Apart, cpuVars, Do
<1>3. \/ pc \in {19, 50} /\ ss' = ss /\ sat = NSat /\ pc' = pc + 1 /\ sat' = sat
      \/ pc = 19 /\ ss' = ss /\ sat # NSat /\ pc' = 10 /\ sat' = sat + 1
      \/ pc = 50 /\ ss' = ss /\ sat # NSat /\ pc' = 45 /\ sat' = sat + 1
      \/ pc = 52 /\ sat' = sat /\ ss = Len(Masks) - 1 /\ pc' = 53 /\ ss' = ss
      \/ pc = 52 /\ sat' = sat /\ ss # Len(Masks) - 1 /\ pc' = 29 /\ ss' = ss + 1
  <2>1. CASE pc = 19
    BY <1>1, <1>2, <2>1, GoText
  <2>2. CASE pc = 50
    BY <1>1, <1>2, <2>2, GoText
  <2>3. CASE pc = 52
    BY <1>1, <1>2, <2>3, GoText
  <2> QED
    BY <1>1, <2>1, <2>2, <2>3 DEF LoopAt
<1>4. Where'
  <2>1. /\ ss \in 0 .. Len(Masks) - 1 /\ sat \in 0 .. NSat
        /\ Len(Masks) \in Nat /\ Len(Masks) >= 2 /\ NSat \in Nat
        /\ pc = 19 => ss = 0 /\ subset = 0
        /\ pc = 50 => ss # 0 /\ subset = ss
        /\ pc = 52 => ss # 0 /\ subset = ss + 1
        /\ pc \in {19, 50} => sat # 0
    BY Sizes DEF ProgInv, Where, Counted
  <2>2. CASE pc = 19
    <3>1. pc' \in {10, 20} /\ ss' = ss /\ sat' \in 1 .. NSat
      BY ONLY <1>3, <2>1, <2>2
    <3> QED
      BY ONLY <1>2, <2>1, <2>2, <3>1 DEF Where, Counted
  <2>3. CASE pc = 50
    <3>1. pc' \in {45, 51} /\ ss' = ss /\ sat' \in 1 .. NSat
      BY ONLY <1>3, <2>1, <2>3
    <3> QED
      BY ONLY <1>2, <2>1, <2>3, <3>1 DEF Where, Counted
  <2>4. CASE pc = 52
    <3>1. sat' = sat /\ ss' \in 1 .. Len(Masks) - 1 /\ subset' = ss + 1
      BY ONLY <1>2, <1>3, <2>1, <2>4
    <3>2. CASE pc' = 29 /\ ss' = ss + 1
      BY ONLY <2>1, <3>1, <3>2 DEF Where, Counted
    <3>3. CASE pc' = 53 /\ ss' = ss
      BY ONLY <2>1, <3>1, <3>3 DEF Where, Counted
    <3> QED
      BY ONLY <1>3, <2>4, <3>2, <3>3
  <2> QED
    BY <1>1, <2>2, <2>3, <2>4 DEF LoopAt
<1>5. Step.cc \in Stretches
  BY <1>1, StretchText
<1> QED
  BY <1>1, <1>2, <1>4, <1>5, FreeStep DEF ProgInv, CpuStep, CpuOther, Apart, cpuVars

\* The branches on flags do not leave the stretch that has their count.
LEMMA BranchStepInv ==
  ASSUME ProgInv, BranchStep
  PROVE  ProgInv' /\ CpuStep
<1>1. /\ stalled = NoInstr /\ pc \in BranchAt /\ Step = Program[pc]
      /\ pc \in 1 .. 52 /\ Program[pc].do = "branch"
  BY NotIssuing, Kinds DEF BranchStep
<1>2. /\ pc' \in {Step.to, pc + 1} /\ UNCHANGED <<sat, ss, stalled, subset>>
      /\ Wait(Cpu, 1) /\ Apart /\ CanRun(Cpu)
  BY DEF BranchStep, Apart, cpuVars, Do
<1>3. \/ pc \in BranchAt /\ pc' = pc + 1
      \/ pc \in {26, 33, 38} /\ pc' = pc
      \/ pc = 42 /\ pc' = 44
      \/ pc = 47 /\ pc' = 49
  BY <1>1, <1>2, GoText DEF BranchAt
<1>4. Where'
  <2>1. /\ ss \in 0 .. Len(Masks) - 1 /\ sat \in 0 .. NSat
        /\ pc = 26 => ss = 0 /\ subset = 0
        /\ pc \in {33, 38, 42, 47} => ss # 0 /\ subset = ss
        /\ pc = 47 => sat # 0
    BY DEF ProgInv, Where, Counted
  <2>2. CASE pc = 26
    <3>1. pc' \in {26, 27}
      BY ONLY <1>3, <2>2
    <3> QED
      BY ONLY <1>2, <2>1, <2>2, <3>1 DEF Where, Counted
  <2>3. CASE pc \in {33, 38}
    <3>1. pc' \in {33, 34, 38, 39}
      BY ONLY <1>3, <2>3
    <3> QED
      BY ONLY <1>2, <2>1, <2>3, <3>1 DEF Where, Counted
  <2>4. CASE pc = 42
    <3>1. pc' \in {43, 44}
      BY ONLY <1>3, <2>4
    <3> QED
      BY ONLY <1>2, <2>1, <2>4, <3>1 DEF Where, Counted
  <2>5. CASE pc = 47
    <3>1. pc' \in {48, 49}
      BY ONLY <1>3, <2>5
    <3> QED
      BY ONLY <1>2, <2>1, <2>5, <3>1 DEF Where, Counted
  <2> QED
    BY <1>1, <2>2, <2>3, <2>4, <2>5 DEF BranchAt
<1>5. 1 \in Stretches
  BY ClientAssumption DEF ClientStretches
<1> QED
  BY <1>1, <1>2, <1>4, <1>5, FreeStep DEF ProgInv, CpuStep, CpuOther, Apart, cpuVars

\* A load is one that the client may make, with the datum of its cursor.
LEMMA LoadStepInv ==
  ASSUME ProgInv, LoadStep
  PROVE  ProgInv' /\ CpuStep
<1>1. /\ stalled = NoInstr /\ pc \in LoadsAt /\ Step = Program[pc]
      /\ pc \in 1 .. 52 /\ Program[pc].do = "load"
  BY NotIssuing, Kinds DEF LoadStep
<1> DEFINE x == [reg |-> Step.reg, val |-> Datum(Step.reg)]
<1>2. /\ pc' = pc + 1 /\ UNCHANGED <<sat, ss, stalled, subset>>
      /\ Wait(Cpu, 1) /\ CpuLoad(x) /\ CanRun(Cpu)
  BY DEF LoadStep, CpuLoad, Do
<1>3. Where'
  <2>1. /\ ss \in 0 .. Len(Masks) - 1 /\ sat \in 0 .. NSat
        /\ pc # 29 => ss = 0 /\ subset = 0
        /\ pc = 29 => ss # 0 /\ subset = ss
        /\ pc \in 10 .. 17 => sat # 0
    <3>1. /\ ss \in 0 .. Len(Masks) - 1 /\ sat \in 0 .. NSat
          /\ pc \in (10 .. 19) \cup (45 .. 50) => sat # 0
          /\ pc < 29 <=> ss = 0
          /\ subset = IF pc <= 27 THEN 0 ELSE IF pc = 28 THEN 1
                      ELSE IF pc <= 51 THEN ss ELSE ss + 1
      BY DEF ProgInv, Where, Counted
    <3>2. pc \in LoadsAt
      BY <1>1
    <3> QED
      BY ONLY <3>1, <3>2 DEF LoadsAt
  <2>2. CASE pc \in 2 .. 8
    BY ONLY <1>2, <2>1, <2>2 DEF Where, Counted
  <2>3. CASE pc \in 10 .. 17
    BY ONLY <1>2, <2>1, <2>3 DEF Where, Counted
  <2>4. CASE pc = 29
    BY ONLY <1>2, <2>1, <2>4 DEF Where, Counted
  <2> QED
    BY <1>1, <2>2, <2>3, <2>4 DEF LoadsAt
<1>4. x \in ClientLoads
  <2>1. CASE Step.reg = "C"
    <3>1. sat \in 1 .. NSat
      <4>1. pc = 13
        BY <1>1, <2>1, LoadText
      <4> QED
        BY <4>1, Sizes DEF ProgInv, Where
    <3> QED
      BY <2>1, <3>1 DEF Datum, ClientLoads
  <2>2. CASE Step.reg = "IDX"
    <3>1. ss + 1 \in 1 .. Len(Masks)
      BY DEF ProgInv, Where
    <3> QED
      BY <2>2, <3>1 DEF Datum, ClientLoads
  <2>3. CASE Step.reg \notin {"C", "IDX"}
    <3>1. Datum(Step.reg) = 0
      BY <2>3 DEF Datum
    <3>2. pc \in Steps({"load"})
      BY <1>1, Kinds DEF Steps
    <3> QED
      BY <1>1, <3>1, <3>2 DEF ClientLoads
  <2> QED
    BY <2>1, <2>2, <2>3
<1>5. x \in Loads
  BY <1>4, ClientAssumption
<1> QED
  BY <1>1, <1>2, <1>3, <1>5, FreeStep DEF ProgInv, CpuStep

\* What the program issues is offered by the client: its word is a word of the
\* client, an operation on a subset names the one counted, and there is one more
\* subset for every NEWSS.  While execute spins the program names it again.
LEMMA IssueStepInv ==
  ASSUME ProgInv, IssueStep
  PROVE  ProgInv' /\ CpuStep
<1>1. /\ Step = Program[pc] /\ pc \in 1 .. 52 /\ Program[pc].do = "issue"
  BY Kinds DEF IssueStep, Do, Ended, Step, ProgInv, Where
<1> DEFINE x == WordOf(Step.op)
<1>2. /\ Wait(Cpu, 1) /\ CpuEnqueue(x) /\ UNCHANGED copVars /\ CanRun(Cpu)
      /\ pc' = (IF stalled' = NoInstr THEN pc + 1 ELSE pc) /\ UNCHANGED <<sat, ss>>
  BY DEF IssueStep, Do
<1>3. /\ Step.op \in NoOperand \cup {"IDX", "TSTL"} \cup (SubsetOps \ {"MOVD"})
      /\ Step.op = "NEWSS" <=> pc \in {27, 51}
      /\ Step.op = "TSTL" => pc = 45
      /\ Step.op \in SubsetOps => pc \in {23, 24, 25} \cup (30 .. 40)
  BY <1>1, IssueText
<1>4. x \in ClientWords
  <2>1. CASE Step.op \in NoOperand \cup {"IDX"}
    BY <2>1 DEF WordOf, Operand, ClientWords, NoOperand
  <2>2. CASE Step.op = "TSTL"
    <3>1. sat - 1 \in 0 .. NSat - 1
      BY <1>3, <2>2, Sizes DEF ProgInv, Where
    <3> QED
      BY <2>2, <3>1 DEF WordOf, Operand, ClientWords, NoOperand
  <2>3. CASE Step.op \in SubsetOps \ {"MOVD"}
    <3>1. ss \in 0 .. Len(Masks) - 1
      BY DEF ProgInv, Where
    <3>2. Operand(Step.op) = 4 * ss
      BY <2>3 DEF Operand, NoOperand, SubsetOps
    <3> QED
      BY <2>3, <3>1, <3>2 DEF WordOf, ClientWords
  <2> QED
    BY <1>3, <2>1, <2>2, <2>3
<1>5. x # NoInstr /\ x \in Instrs
  BY <1>4, ClientAssumption, CopAssumption
<1>6. /\ x.op = "NEWSS" <=> pc \in {27, 51}
      /\ x.op \in SubsetOps => x.rt = 4 * subset
  <2>1. x.op = (IF Step.op = "IDX" THEN "NOP" ELSE Step.op) /\ x.rt = Operand(Step.op)
    BY DEF WordOf, WordWith
  <2>2. Step.op \in SubsetOps => Operand(Step.op) = 4 * ss
    BY DEF Operand, NoOperand, SubsetOps
  <2>3. Step.op \in SubsetOps => subset = ss
    BY <1>3 DEF ProgInv, Where, Counted
  <2> QED
    BY <1>3, <2>1, <2>2, <2>3 DEF SubsetOps
<1>7. x \in Offered
  <2>1. x.op = "NEWSS" => subset < NSsMax - 1
    <3>1. Len(Masks) < NSsMax /\ NSsMax \in Nat
      BY SizeAssumption, ClientAssumption
    <3> QED
      BY <1>6, <3>1, Sizes DEF ProgInv, Where, Counted
  <2> QED
    BY <1>5, <1>6, <2>1 DEF Offered
<1>8. stalled = NoInstr \/ stalled = x
  BY DEF ProgInv, Spins
<1>9. CpuStep
  BY <1>2, <1>7, <1>8 DEF CpuStep, CpuIssue
<1>10. ProgInv'
  <2>1. CASE stalled' = NoInstr
    <3>1. pc' = pc + 1 /\ subset' = IF pc \in {27, 51} THEN subset + 1 ELSE subset
      BY <1>2, <1>5, <1>6, <2>1 DEF CpuEnqueue
    <3>2. pc \notin {9, 19, 28, 44, 50, 52}
      BY <1>1, IssueText
    <3> QED
      BY <1>1, <1>2, <2>1, <3>1, <3>2 DEF ProgInv, Where, Spins, Counted
  <2>2. CASE stalled' # NoInstr
    <3>1. stalled' = x /\ UNCHANGED <<pc, sat, ss, subset>>
      BY <1>2, <2>2 DEF CpuEnqueue
    <3>2. x' = x /\ Step' = Step /\ Ended' = Ended
      BY <3>1 DEF Step, Ended, WordOf, Operand
    <3> QED
      BY <1>1, <3>1, <3>2, Kinds DEF ProgInv, Where, Spins, Counted, Ended
  <2> QED
    BY <2>1, <2>2
<1> QED
  BY <1>9, <1>10

\* The other threads leave the program alone.
LEMMA OthersInv ==
  ASSUME ProgInv, UNCHANGED <<pc, sat, ss, stalled, subset>>
  PROVE  ProgInv'
<1>1. WordOf(Step.op)' = WordOf(Step.op) /\ Step' = Step /\ Ended' = Ended
  BY DEF WordOf, Operand, Step, Ended
<1> QED
  BY <1>1 DEF ProgInv, Where, Spins, Counted

\* Every step of the program is a step of cpu::main as RaimCop has it.
LEMMA ProgStepInv ==
  ASSUME ProgInv, ProgStep
  PROVE  ProgInv' /\ CpuStep
BY PlainStepInv, JumpStepInv, FirstStepInv, LoopStepInv, LoadStepInv, IssueStepInv,
   BranchStepInv DEF ProgStep

\* A unit's first slice with a test is its first slice.
LEMMA TestStepIsFuStep ==
  ASSUME TypeOK, NEW f \in FUs, TestStep(f)
  PROVE  FuStep(f)
<1>1. fu[f].at = "top"
  BY DEF TypeOK, FuType, TestStep, Testing, Begun
<1> QED
  BY <1>1 DEF TestStep, Testing, FuStep, FuStart

\* Every step of the whole is a step of RaimCop or does not concern it.
LEMMA ProgNextIsNext ==
  ASSUME TypeOK, ProgInv, [ProgNext]_allVars
  PROVE  ProgInv' /\ [Next]_vars
<1>1. CASE ProgStep
  BY <1>1, ProgStepInv DEF Next
<1>2. CASE (Tick \/ CopStep) /\ UNCHANGED progVars
  BY <1>2, OthersInv DEF Next, Tick, CopStep, progVars, cpuVars
<1>3. ASSUME NEW f \in FUs, TestStep(f) PROVE ProgInv' /\ Next
  BY <1>3, TestStepIsFuStep, OthersInv DEF Next, TestStep, cpuVars
<1>4. ASSUME NEW f \in FUs, FuStep(f), UNCHANGED progVars PROVE ProgInv' /\ Next
  BY <1>4, OthersInv DEF Next, FuStep, progVars, cpuVars
<1>5. CASE UNCHANGED allVars
  BY <1>5, OthersInv DEF allVars, progVars, vars
<1> QED
  BY <1>1, <1>2, <1>3, <1>4, <1>5 DEF ProgNext

\* raim.s, for every number of satellites, masks and constellations, is one of
\* the programs that RaimCop quantifies over: each of its steps is a step that
\* cpu::main may make, the words it issues and loads are the ones expected, it
\* repeats the instruction that execute spins on, and with Matched the operand
\* it counts in $t1 is 4 times the NEWSS it has executed.
THEOREM ProgramImplementsCop == ProgSpec => Spec
<1>1. ProgInit => Init /\ ProgInv
  BY ProgInitInv DEF ProgInit
<1>2. TypeOK /\ ProgInv /\ [ProgNext]_allVars => [Next]_vars /\ (TypeOK /\ ProgInv)'
  BY ProgNextIsNext, NextType
<1>3. ProgSpec => [](TypeOK /\ ProgInv)
  BY <1>1, <1>2, InitType, PTL DEF ProgSpec
<1> QED
  BY <1>1, <1>2, <1>3, PTL DEF ProgSpec, Spec

\* IsClient: whatever it does, raim.s does as one of RaimCop's programs would,
\* for all data that ClientAssumption allows.
THEOREM ProgramIsClient == ProgSpec => IsClient
<1>1. ProgInit => TypeOK /\ ProgInv
  BY ProgInitInv, InitType DEF ProgInit
<1>2. TypeOK /\ ProgInv /\ [ProgNext]_allVars => (TypeOK /\ ProgInv)'
  BY ProgNextIsNext, NextType
<1>3. TypeOK /\ ProgInv /\ [ProgNext]_allVars => [ProgStep => CpuStep]_allVars
  BY ProgStepInv
<1> QED
  BY <1>1, <1>2, <1>3, PTL DEF ProgSpec, IsClient

\* What holds of the coprocessor under every program holds under raim.s.
THEOREM ProgramSafe ==
  ASSUME QuietPowerUp
  PROVE  ProgSpec => /\ [](TypeOK /\ Exclusive /\ OperandPaired /\ FullFlagSettled)
                     /\ IssuesInOrder
BY ProgramImplementsCop, TypeCorrect, ExclusiveHolds, OperandPairedHolds,
   FullFlagSettledHolds, IssuesInOrderHolds, PTL
============================================================================
