---------------------------- MODULE RaimProgram ----------------------------
(***************************************************************************)
(* The RAIM program (alg/asm/raim.s, with the words that s2bin puts in the *)
(* place of its nops) as the client of the coprocessor: the loop that      *)
(* loads the satellites, the all-in-view matrix, the loop over the subsets *)
(* with its global test, and the loop of local tests.                      *)
(*                                                                         *)
(* One instruction of the CPU takes a nanosecond; a stretch of them that   *)
(* neither asks nor tells the coprocessor anything is one step of that     *)
(* length, which no other thread can tell from its parts.                  *)
(***************************************************************************)
EXTENDS RaimCop, RpuWords

CONSTANTS
  NSat,           \* satellites in the data section (10 in raim.s)
  Constellation,  \* the constellation of each, numbered from 1
  Masks           \* data_subsets: the mask of each subset, all-in-view first

ASSUME ProgramAssumption ==
  /\ NSat \in 1 .. NSvMax
  /\ Constellation \in [1 .. NSat -> Byte]
  /\ Len(Masks) \in 2 .. NSsMax /\ Masks \in Seq(0 .. 2 ^ NSat - 1)

VARIABLES
  pc,       \* the step of the program, from 1
  sat,      \* the satellite in the load loop ($t1) and in the test loop ($t3)
  ss,       \* the subset: $t1 / 4
  verdict   \* whose last test failed: a subset (FD), a satellite (FL), or
            \* nobody's (auxiliary)

progVars == <<pc, sat, ss, verdict>>
allVars  == <<vars, progVars>>

Nobody == -1

----------------------------------------------------------------------------
(* The text of the program: one record for each step.                      *)

\* Mutant: a stretch without coprocessor instructions takes no time.
Hurried(n) == [do |-> "cpu", cc |-> 1]

Plain(n)    == [do |-> "cpu", cc |-> n]
Lwc2(reg)   == [do |-> "load", reg |-> reg]
Issue(op)   == [do |-> "issue", op |-> op]
Bc2(c, to)  == [do |-> "branch", cond |-> c, to |-> to]
Jump(n, to) == [do |-> "jump", cc |-> n, to |-> to]
\* Start a cursor, in n instructions.
First(n, v) == [do |-> "first", cc |-> n, over |-> v]

\* Mutant: the cursor is compared and moved by the branch itself.
LoopAtOnce(v, to) == [do |-> "loop", cc |-> 1, over |-> v, to |-> to]

\* Move a cursor, and go back unless it is through.
Loop(v, to) == [do |-> "loop", cc |-> 3, over |-> v, to |-> to]

\* The labels of raim.s.
load_loop                    == 10
aiv_wait_wls                 == 26
subset_loop                  == 29
ss_wait_wls                  == 33
ss_wait_var                  == 38
sv_local_test                == 44
sv_local_test_loop           == 45
faulty_sv_located            == 49
sv_local_test_loop_increment == 50
subset_loop_increment        == 51

Program == <<
  Plain(5), Lwc2("AL0"), Lwc2("SA2"), Lwc2("SE2"),                   \*  1
  Lwc2("KX"), Lwc2("KY"), Lwc2("KZ"), Lwc2("KR"), First(4, "sat"),   \*  5
  \* load_loop
  Lwc2("LX"), Lwc2("LY"), Lwc2("LZ"), Lwc2("C"), Lwc2("ST"),         \* 10
  Lwc2("SR"), Lwc2("Y15"), Lwc2("BN"), Issue("NEWSV"),               \* 15
  Loop("sat", load_loop),                                            \* 19
  \* all-in-view
  Issue("CALCU"), Plain(1), Issue("IDX"), Issue("INITP"),            \* 20
  Issue("CALCP"), Issue("WLS"),                                      \* 24
  Bc2("MC", aiv_wait_wls), Issue("NEWSS"), First(3, "ss"),           \* 26
  \* subset_loop
  Lwc2("IDX"), Issue("INITP"), Issue("CALCP"), Issue("WLS"),         \* 29
  Bc2("MC", ss_wait_wls), Issue("POSVAR"), Issue("BIAS"),            \* 33
  Issue("CALCSS"), Issue("SSVAR"), Bc2("MC", ss_wait_var),           \* 36
  Issue("MULY"), Issue("TSTG"), Plain(4), Bc2("FD", sv_local_test),  \* 39
  Jump(5, subset_loop_increment), First(5, "sat"),                   \* 43
  \* sv_local_test_loop
  Issue("TSTL"), Plain(4), Bc2("FL", faulty_sv_located),             \* 45
  Jump(5, sv_local_test_loop_increment), Plain(7),                   \* 48
  Loop("sat", sv_local_test_loop),                                   \* 50
  \* subset_loop_increment
  Issue("NEWSS"), Loop("ss", subset_loop)                            \* 51
>>

Step  == Program[pc]
Ended == pc > Len(Program)

NoOperand == {"NEWSV", "CALCU", "NEWSS"}

\* Mutant: the subset cursor starts at the table's first entry, not at 4.
OperandBehind(op) ==
  CASE op \in NoOperand -> 0
    [] op = "IDX" -> Masks[1]
    [] op = "TSTL" -> sat - 1
    [] OTHER -> IF ss = 0 THEN 0 ELSE 4 * (ss - 1)

\* What the register that the instruction names holds: $t0, $t3, or $zero and
\* then $t1.
Operand(op) ==
  CASE op \in NoOperand -> 0
    [] op = "IDX" -> Masks[1]
    [] op = "TSTL" -> sat - 1
    [] OTHER -> 4 * ss

\* The word of a coprocessor instruction with an operand v.
WordWith(op, v) ==
  [fmt |-> CASE op \in NoOperand -> "NONE"
             [] op \in {"IDX", "TSTL"} -> "MT"
             [] OTHER -> "CP",
   op  |-> IF op = "IDX" THEN "NOP" ELSE op,
   reg |-> CASE op = "IDX" -> "IDX" [] op = "TSTL" -> "I" [] OTHER -> "",
   d   |-> 0,
   rt  |-> v]

WordOf(op) == WordWith(op, Operand(op))

\* The word that LWC2 or LWXC2 loads, where the control depends on it.
Datum(reg) ==
  CASE reg = "C" -> Constellation[sat] [] reg = "IDX" -> Masks[ss + 1] [] OTHER -> 0

----------------------------------------------------------------------------
(* The program as a client of RaimCop: what it asks of the coprocessor.    *)

ClientWords ==
  {WordWith(op, 0) : op \in NoOperand} \cup {WordWith("IDX", Masks[1])}
    \cup {WordWith("TSTL", v) : v \in 0 .. NSat - 1}
    \cup {WordWith(op, 4 * k) : op \in SubsetOps \ {"MOVD"}, k \in 0 .. Len(Masks) - 1}

Steps(kinds) == {i \in DOMAIN Program : Program[i].do \in kinds}

ClientLoads ==
  {[reg |-> Program[i].reg, val |-> 0] : i \in Steps({"load"})}
    \cup {[reg |-> "C", val |-> Constellation[s]] : s \in 1 .. NSat}
    \cup {[reg |-> "IDX", val |-> Masks[k]] : k \in 1 .. Len(Masks)}

\* A branch on a flag takes one nanosecond.
ClientStretches ==
  {1} \cup {Program[i].cc : i \in Steps({"cpu", "jump", "first", "loop"})}

\* A subset for every NEWSS, and the one that is left over.
ASSUME ClientAssumption ==
  /\ ClientWords \subseteq Instrs /\ ClientLoads \subseteq Loads
  /\ ClientStretches \subseteq Stretches
  /\ Len(Masks) < NSsMax

----------------------------------------------------------------------------
(* The steps of the CPU.                                                   *)

ProgInit ==
  /\ Init /\ pc = 1 /\ sat = 0 /\ ss = 0
  /\ verdict = [FD |-> Nobody, FL |-> Nobody]

Do(kind) == ~Ended /\ CanRun(Cpu) /\ Step.do = kind /\ UNCHANGED verdict

\* The coprocessor does not see these.
Apart == UNCHANGED <<queueVars, copVars, cpuVars>>

PlainStep ==
  /\ Do("cpu") /\ pc' = pc + 1
  /\ Wait(Cpu, Step.cc) /\ Apart /\ UNCHANGED <<sat, ss>>

JumpStep ==
  /\ Do("jump") /\ pc' = Step.to
  /\ Wait(Cpu, Step.cc) /\ Apart /\ UNCHANGED <<sat, ss>>

FirstStep ==
  /\ Do("first") /\ pc' = pc + 1
  /\ Wait(Cpu, Step.cc) /\ Apart
  /\ sat' = IF Step.over = "sat" THEN 1 ELSE sat
  /\ ss' = IF Step.over = "ss" THEN 1 ELSE ss

LoopStep ==
  LET last == IF Step.over = "sat" THEN sat = NSat ELSE ss = Len(Masks) - 1 IN
  /\ Do("loop") /\ pc' = (IF last THEN pc + 1 ELSE Step.to)
  /\ Wait(Cpu, Step.cc) /\ Apart
  /\ sat' = IF Step.over = "sat" /\ ~last THEN sat + 1 ELSE sat
  /\ ss' = IF Step.over = "ss" /\ ~last THEN ss + 1 ELSE ss

LoadStep ==
  /\ Do("load") /\ pc' = pc + 1 /\ Wait(Cpu, 1)
  /\ CpuLoad([reg |-> Step.reg, val |-> Datum(Step.reg)])
  /\ UNCHANGED <<sat, ss>>

IssueStep ==
  /\ Do("issue") /\ Wait(Cpu, 1)
  /\ CpuEnqueue(WordOf(Step.op)) /\ UNCHANGED copVars
  /\ pc' = IF stalled' = NoInstr THEN pc + 1 ELSE pc
  /\ UNCHANGED <<sat, ss>>

BranchStep ==
  /\ Do("branch") /\ Wait(Cpu, 1) /\ Apart
  /\ pc' = IF BranchTaken(Step.cond) THEN Step.to ELSE pc + 1
  /\ UNCHANGED <<sat, ss>>

ProgStep ==
  \/ PlainStep \/ JumpStep \/ FirstStep \/ LoopStep
  \/ LoadStep \/ IssueStep \/ BranchStep

----------------------------------------------------------------------------
(* The units, with a record of what each test finds.                       *)

Begun(f)   == fu[f].at = "loop"
Testing(f) == ~Idle(f) /\ ~Begun(f) /\ fu[f].ir.op \in {"TSTG", "TSTL"}

TestStep(f) ==
  /\ CanRun(f) /\ Testing(f)
  /\ \E test \in Outcomes(fu[f].ir.op) :
       /\ FuBegin(f, test)
       /\ verdict' =
            IF fu[f].ir.op = "TSTG"
            THEN [verdict EXCEPT !.FD = IF test = "fail" THEN Sub(f) ELSE Nobody]
            ELSE [verdict EXCEPT !.FL = IF test = "fail" THEN regs.tst_i ELSE Nobody]
  /\ UNCHANGED <<queueVars, ir, rt, rpu_cpsr, cpuVars, pc, sat, ss>>

ProgNext ==
  /\ ~Ended
  /\ \/ ProgStep
     \/ (Tick \/ CopStep) /\ UNCHANGED progVars
     \/ \E f \in FUs : TestStep(f) \/ (FuStep(f) /\ ~Testing(f) /\ UNCHANGED progVars)

ProgSpec     == ProgInit /\ [][ProgNext]_allVars
ProgFairSpec == ProgSpec /\ WF_allVars(ProgNext)

----------------------------------------------------------------------------
(* Properties.                                                             *)

\* The operations that have been queued and have not begun.
Waiting ==
  LET words == {instr_q[i] : i \in DOMAIN instr_q} \cup {ir}
                 \cup {fu[f].ir : f \in {g \in FUs : ~Begun(g)}}
  IN {x.op : x \in words \ {NoInstr}}

\* The CPU is about to execute this branch.
Asks(cond) == ~Ended /\ CanRun(Cpu) /\ Step.do = "branch" /\ Step.cond = cond

\* LWC2 and LWXC2 write row N_sv and subset N_ss of their tables at once (line
\* 535): never while the NEWSV or the NEWSS that is to move the cursor is still
\* on its way, so that no satellite's data lands on the previous one's row.
\* Nothing waits for it: the instructions between are all that gives it time.
LoadsInTime ==
  [][~Ended /\ Step.do = "load" /\ pc' # pc
       => (IF Step.reg = "IDX" THEN "NEWSS" ELSE "NEWSV") \notin Waiting]_allVars

\* Every operation that runs over the satellites runs over all of them: CALCU
\* reads N_sv when it starts and does not test its flag (line 689), and the
\* second unit may have it while the last NEWSV is still with the first.
RowsLoaded ==
  \A f \in FUs : Begun(f) /\ fu[f].ir.op # "NEWSV" => regs.N_sv = NSat

\* The unit works on the subset of its operand, the decoder claims the one that
\* N_ss names (line 615): they are the same one, although NEWSS moves N_ss only
\* when a unit has come to it, and $t1 counts apart from it.
OnCurrentSubset ==
  \A f \in FUs : ~Idle(f) /\ fu[f].ir.op \in SubsetOps => Sub(f) = regs.N_ss

\* If BFDC2 branches, the global test of this very subset has failed: a passing
\* TSTG leaves FD up, and what takes it down is NEWSS (line 800), in time.
NoFalseAlarm == Asks("FD") /\ BranchTaken("FD") => verdict.FD = ss

\* BFLC2 branches if and only if the local test of this very satellite has
\* failed: the pause after TSTL is long enough for the decoder, the unit and the
\* merge of the flags in any order, and no other unit holds an older FL.
LocalVerdict ==
  Asks("FL") => /\ "TSTL" \notin Waiting
                /\ BranchTaken("FL") = (verdict.FL = sat - 1)

\* The program never spins on a full queue, although it never asks BFUC2: the
\* loops on BMCC2 keep it far enough behind.
NeverStalls == stalled = NoInstr

CopSteps == Steps({"load", "issue", "branch"})
TableRow == [i \in CopSteps |-> Cardinality({j \in CopSteps : j <= i})]

\* The register of the CPU that the text of the program names.
From(op) == CASE op \in NoOperand -> {} [] op = "IDX" -> {T0} [] op = "TSTL" -> {T3}
              [] OTHER -> {IF pc < subset_loop THEN R0 ELSE T1}

\* Nothing but their order ties the nops of raim.s to the rows of s2bin's table:
\* what the CPU and the RPU decode at a step of the program is the instruction
\* that its text has there, with its format, its registers and its column.
DecodesAsWritten == pc \in CopSteps =>
  LET d == Decoded(GenInstr[TableRow[pc]]) IN
  /\ d.do = Step.do
  /\ CASE d.do = "load" ->
            /\ d.reg = Step.reg
            /\ d.from = IF Step.reg = "IDX" THEN {T0, T1}
                        ELSE IF Step.reg \in {"LX", "LY", "LZ", "C", "ST", "SR", "Y15"}
                        THEN {T1} ELSE {T0}
       [] d.do = "branch" -> d.cond = Step.cond
       [] OTHER -> LET x == WordOf(Step.op) IN
            /\ d.fmt = x.fmt /\ d.op = x.op /\ d.reg = x.reg /\ d.d = x.d
            /\ d.from = From(Step.op)

\* raim.s is one of the programs that RaimCop speaks of, so that what holds of
\* the coprocessor under each of them holds under this one: it repeats the
\* instruction that execute spins on and does nothing else meanwhile, and the
\* operand that it counts in $t1 names the subset that its NEWSS have counted.
IsClient == [][ProgStep => CpuStep]_allVars

\* What BFDC2 is for: the branch follows the outcome of this subset's global
\* test, for which raim.s waits no longer than it takes to print a line.
GlobalVerdict == Asks("FD") => BranchTaken("FD") = (verdict.FD = ss)

\* The loops on BMCC2 are left and the program comes to its end.
ProgramEnds == <>Ended
============================================================================
