# A TLA+ model of the RAIM coprocessor simulation

The repository simulates a MIPS CPU with a coprocessor, the RAIM processing
unit (RPU, COP2), that runs the satellite-integrity algorithm ARAIM. The
simulation is C++ on SystemC (`src/model`), the program it runs is MIPS
assembly (`src/alg/asm/raim.s`), and the instruction set is described in
`src/alg/doc`. This directory holds TLA+ modules of that code, the TLC
configurations that check them and the TLAPS proofs about them.

Everything is translated from the source. Where a comment or a document says
something else, a run of its own shows the disagreement (the `viol_*` runs), or it is
listed at the end of section 3 with what the models take instead.

## 1. The system

| Component | State | Operations | Talks to |
|---|---|---|---|
| RPU decoder and scoreboard (`raim_cop::main`) | held word and operand, busy flags `_regs_status`, condition flags `_rpu_cpsr` | dequeue, MTC2 move, test and clear busy flags, hand to the first open unit, merge the units' flags | queue (CPU), units, busy flags (units) |
| Two functional units (`raim_cop_fu::main`) | instruction, operand, loop cursors, condition flags | 14 operations of several waits each; set the busy flags again | registers, busy flags |
| Calls from the CPU (`raim_cop::execute`, `set_regs`, ...) | spin on a full queue, branch flag and offset | enqueue, RST, CLRC, MFC2, BC; LWC2 writes a register at once | CPU thread, registers |
| Queues (`queue<T>`) | two wrapping cursors, 16 slots | enqueue, dequeue, is_full, is_empty | CPU and decoder |
| CPU (`cpu::main`) | program counter, 32 registers, `res`, instruction count | one instruction a nanosecond | memory, three coprocessors |
| FP coprocessor (`fp_cop`) | registers, condition code, branch flag | arithmetic, compare, BC1 | CPU |
| Memory (`memory`) | sorted cursors over one array of words | load the file, read, write 1, 2 or 4 bytes | CPU |
| RAIM program (`raim.s`) | loops over satellites and subsets | issues the RPU instructions, polls BMCC2, BFDC2, BFLC2 | RPU |
| `s2bin.c` with the encoders of `isa.cpp` | a cursor in its table of 39 instructions | puts the table's words, in order, in the place of the nops and `bgezl $zero` of PCSpim's listing | `raim.s` (by position), memory (the file) |
| Command line, tracer, fault injector, MATLAB, documents | - | start-up, text, numerics | - |

What is hard here:

- **Threads.** Decoder, units and CPU are SystemC threads that share registers
  and flags without locks. A slice is atomic up to its `wait`, but the order of
  the threads due in one nanosecond is the kernel's choice (`out.log` shows it
  change between 570 ns and 575 ns). The busy flags are all that keeps two
  operations apart.
- **A claim in two halves.** The decoder clears the flags with its own view of
  `N_sv`, `N_ss`; the unit sets them again with its own row, `rt / 4` and
  column. If the two differ a register is busy for ever.
- **Paths past the queue.** LWC2, MTC2, RST and CLRC write registers under
  operations that still run.
- **Stale values.** Condition flags are merged once a slice, branch flags stay
  up, `res` is shared by everything in the CPU, and several members have no
  initial value.
- **Two queues that must stay in step**, and two tests for "full" that differ.
- **A program that does not wait.** `raim.s` loads registers past the queue and
  reads flags after a fixed number of instructions; only BMCC2 waits, and what it
  waits for is four operations' flag, merged over two units.
- **Two texts tied by position.** The nops of `raim.s` and the rows of `s2bin`'s
  table have nothing in common but their order.

Correct means, component by component: no two running operations own the same
register, every claim is given back, every held instruction issues in the end
(decoder and units); instructions issue once, in order and with their operand
(queues); the CPU executes what the program says and ends (CPU, FP); memory is
an array of bytes (memory) that holds the program as written (`s2bin`); the
program gives each satellite and each subset its own data and reports a fault
when, and only when, its tests found one (`raim.s`).

`PROJECT.json` lists the components with their status and every hazard at its
line.

## 2. Modules

| Module | Models | Corresponds to |
|---|---|---|
| `RaimIsa` | instruction set and scoreboard table: flags an operation needs, claims and frees; registers it reads and writes | the decoder's `switch` (raim_cop.cpp:664-835), the units' operations (82-401) |
| `RaimCop` | decoder, units and the CPU's calls; one action is one slice of one thread | `CopStep` = `raim_cop::main`, `FuStep(f)` = `raim_cop_fu::main`, `CpuStep` = `execute` and `set_regs`, `Tick` = simulated time |
| `IssueOrder` | abstract: instructions issue once, in program order | refined by `RaimCop` |
| `InstrQueue` | `queue<T>` with its uint32 cursors | one action per outcome of a call |
| `BoundedFifo` | abstract: a bounded FIFO | refined by `InstrQueue` |
| `CpuCop` | `cpu::main` with the branch side of both coprocessors | one action per class of instructions |
| `MipsIsa` | abstract: registers and program counter only | refined by `CpuCop` |
| `Memory` | loader, read, write | one action per outcome of a turn of `read_input_file` (block apart, block joined, file cut off, end), three outcomes of `write` |
| `FlatMemory` | abstract: bytes at addresses, filled from the file in one step | refined by `Memory` |
| `RpuWords` | the words of the RPU's instructions: encoders, `s2bin`'s table, decoders | `isa.h`, `isa.cpp`, s2bin.c:39-86, the field decoding of cpu.cpp and raim_cop.cpp |
| `RaimProgram` | `raim.s` as the client of `RaimCop` (EXTENDS it) | `Program` = the text with its labels, one record a step; `ProgStep` replaces `CpuStep` |
| `ProgramFile` | the file between `s2bin` and `memory`: the variable both share | the blocks [address, words] |
| `S2bin` | listing to program file | a turn of the inner loop of `main` (a word: nop, branch or neither) or the end of a line (with a block or without) |
| `Toolchain` | `S2bin` and then `Memory` | `s2bin` runs to its end, then `memory::memory` reads the file |
| `MCRaimCop`, `MCRaimProgram`, `MCCpu`, `MCMemory` | values of the constants | - |
| `RaimCopProofs`, `RaimIssueProofs`, `RaimOwnProofs`, `RaimProgramProofs`, `InstrQueueProofs`, `CpuProofs`, `MemoryProofs`, `ToolchainProofs` | theorems about `RaimCop` (three modules), `RaimProgram`, `InstrQueue`, `CpuCop`, `Memory`, `S2bin` and `Toolchain` | - |

`RaimCop` takes its queues as sequences: that is what `FifoHolds` proves of
`queue<T>`. `CpuCop` leaves the outcome of BC2 open, because any value of the
RPU's flags is possible there; `RaimCop!BranchTaken` has the condition itself.

**RaimCop.** `due[p]` is the time left before thread `p` runs again; a thread
with `due = 0` may run, in any order, and `Tick` lets time pass when nobody is
due. So every order of the threads within a nanosecond is explored, and waits
keep their length (`NEWSV` 3 ns, a row of `CALCU` 4 ns, ...). An operation is a
number of rounds; rounds that skip an excluded satellite do not wait. The
numbers of the algorithm are left out: what is kept of the registers is the
counters `N_sv`, `N_ss`, `N_const`, `tst_i`, the subset masks and
`idx_faulty_sv`; the outcome of a test is free. Members and locals without
initialiser take the values of the constants `PowerUp*`. Smaller points:

- the waits of 1 ns that WLS makes for each row of a column are one wait of
  that sum; no other thread can see the difference but for time;
- `_prev_ex` and `_cc_spinning` only reach the log and are left out;
- an operand is any number, but the program encodes an operation on a subset with
  one, below `4 * NSsMax` (`TablesAssumption`), and executes at most `NSsMax - 1`
  NEWSS. The code asks for neither: an operation encoded without operand takes the
  `rt` of an earlier word, and with a large one, or one NEWSS more, `s[k]` and
  `idx_ss[k]` are past their arrays, in data the model does not have;
- the CPU's other instructions come in stretches of the lengths `Stretches`; only
  their length matters to the coprocessor;
- `SvLoaded` starts a run from the quiet state that so many NEWSV leave, to
  save the run the loading;
- the exit of the CPU is in `CpuCop`; in `RaimCop` the CPU goes on for ever.

**CpuCop.** A turn of the loop is one action: the instruction's effect, then
`WriteBack` (`dst_reg_idx`, `res`), then `UpdatePc` (exit address, COP1's
branch, COP2's branch, `next_pc`; each coprocessor that is asked leaves its
offset in `res`). COP3 is the stub, whose calls change nothing. Exceptions are
only logged by the code. An immediate is the 16-bit field of the word, extended
as the code does it (`Extended`: the sign is looked for in bits 12 to 14, in LB
and LH likewise); `MipsIsa` extends it by its top bit, but leaves the sign of what
LB and LH load open where the two differ. A taken branch, BC2 too, leads to
`pc + 4 + offset` in both modules. The arithmetic of two
registers is a copy of one; values of loads and of coprocessor registers are
free; `hi`, `lo` and memory contents are left out.

**RaimProgram.** The program counter walks over `Program`, a listing of `raim.s`
with the labels that its branches name. An instruction is a nanosecond; a stretch
of integer instructions and system calls is one step of their length. Decoder,
units and `Tick` are `RaimCop`'s own actions. `verdict` is auxiliary: whose test
failed last. `GenInstr` is the table of `s2bin`, `Decoded` what the CPU and the RPU
read out of a word of it. `ClientWords`, `ClientLoads` and `ClientStretches` are what
`raim.s` asks of the coprocessor: with them for `Instrs`, `Loads` and `Stretches`, and
`Matched`, `raim.s` is one of the programs that `RaimCop` speaks of (`IsClient`).

**S2bin, Toolchain.** A line of PCSpim's listing is its address and the words that
parse; the characters are left out. `used` is `gen_instr_idx`, which outlives the
lines. `Toolchain` lets `s2bin` run to its end and then memory load what it wrote, or
starts from a file of another origin (one that was cut off).

**Memory.** A turn of the loop of `read_input_file` is an action; the CPU does
not run while the constructor does (`loading`). The list has the entries below
`_n_cursors` only, as no other is ever read. A turn that finds no words ends the
loading, and `_n_cursors` is then the index of the entry, so that a header which
continues the block before takes that block along (`LoadCutOff`). Addresses are
below 2^32 and do not wrap. `StoreInsert` inserts and drops the last entry, because the code
shifts the list and does not count the new one.

## 3. Runs

| Run | Checks | Instance and why it is enough |
|---|---|---|
| `cop_queue` | `TypeOK`, `Exclusive`, `OperandPaired`, `FullFlagSettled`, `IssuesInOrder` | CALCP, MTC2, NEWSV and an undecodable word in any order, RST and CLRC at any time, 2 units; 2 entries, so that the queues can slip against one another and be full; `N_sv` reaches the row past the end. 2.2 million states |
| `cop_matrix` | `NoDataHazard`, `FlagsOwned`, `IssueProgress`, `StallEnds` | CALCU, INITP, CALCP, WLS on one matrix with 2 satellites, masks and constellations loaded past the queue at any time |
| `program` | `FlagsOwned`, `RowsLoaded`, `OnCurrentSubset`, `NoFalseAlarm`, `LocalVerdict`, `NeverStalls`, `DecodesAsWritten`, `LoadsInTime`, `IsClient` | `raim.s` whole, with every table and queue size of the code; 6 satellites instead of 10 (the loops over them only get longer), in two constellations; 3 subsets; every outcome of every test and every order of the threads. 1.1 million states |
| `queue` | `CursorsOK`, `ImplementsFifo` | 4 entries, 4-bit cursors: every position of the wrap against the buffer |
| `cpu` | `CpuTypeOK`, `ImplementsIsa` | all programs of three instructions that keep the rules below (`ProgramOK`), with fields of both signs and data that LB and LH extend wrongly, up and down; at most 7 executed; the RPU's branch flag up or down at power-up, its offset 0 |
| `memory` | `ListOK`, `WritesListing`, `LoadsListing`, `ImplementsFlat` | `s2bin` and then memory: four listings (text in one stretch or two, a nop or a branch first, zeros and branches in the data too) and images that fill the cursor list, and a file cut off after a header; two stores of every size and address inside and above |
| `viol_scratch` | `NoScratchHazard` violated | `raim.s` |
| `viol_spin` | `ProgramEnds` violated | `raim.s`, under fairness |
| `viol_verdict` | `GlobalVerdict` violated | `raim.s` |
| `viol_hang` | `IssueProgress` violated | three independent operations for two units |
| `viol_branch` | `OffsetOnce` violated | compare, BC1 and one integer instruction |
| `viol_store` | `NothingVanishes` violated | one store below or between the stretches |

What they show:

- The scoreboard works for every register that has a single tested flag: one
  running owner, and the flag stays down until it ends (`Exclusive`). On the
  operations of one matrix there is no data hazard on any register
  (`NoDataHazard`) and every claim is given back (`FlagsOwned`).
- It does not work where the flags are arrays: `all_true` tests the pointer and
  not the elements (`viol_scratch`). POSVAR (raim_cop.cpp:761) sets the flag of
  its matrix where it should clear it, which the model has as well.
- An instruction that finds no open unit keeps the flags it has already cleared
  and then waits for itself (`viol_hang`). `raim.s` does not meet it: its
  operations depend on one another, and `FlagsOwned` holds for the whole program.
- `raim.s` loads every satellite and every mask onto its own row, although LWC2
  writes at once and nothing waits for NEWSV and NEWSS (`LoadsInTime`); CALCU,
  which does not test `N_sv`, starts after the last NEWSV all the same
  (`RowsLoaded`); every operation works on the subset that the decoder claimed
  (`OnCurrentSubset`). All three depend on the number of instructions between.
- Its branches never accuse wrongly: FD of an earlier subset is down in time
  (`NoFalseAlarm`), and the pause before BFLC2 is long enough (`LocalVerdict`).
- But it can miss a fault and it can hang. BMCC2 may be executed before a unit
  has raised MC; the loop is then left early, TSTG is still queued when BFDC2
  reads FD (`viol_verdict`), and MULY runs before SSVAR (`viol_scratch`). If
  CALCU ran on one unit and WLS runs on the other, MC is up on the first for
  good and `aiv_wait_wls` is never left (`viol_spin`); the simulation then ends at
  the 1000 instructions that `main.cpp` allows. Which of these happens is the
  kernel's order of the threads; in the recorded run (`out.log`) the loops wait and
  the program ends.
- The 39 rows of `s2bin`'s table decode, format, registers and column, to the 39
  instructions that the comments of `raim.s` name at the same places
  (`DecodesAsWritten`), and `s2bin` and the loader bring a listing into memory with
  those words in place and its data untouched (`WritesListing`, `LoadsListing`),
  provided the text comes first and has as many placeholders as the table has rows.
- Issue is in order and complete, and the two queues stay paired, across
  stalls, retries, RST and words nobody decodes. FULL is never more than one
  slice of the decoder old.
- `queue<T>` is a FIFO across the wrap of its cursors: `== size` in `enqueue`
  and `>= size` in `is_full` never disagree.
- The CPU is the machine of `MipsIsa` for programs that keep five rules, each
  forced by the code (`ProgramOK` in `CpuCop`): the first instruction does not jump
  (the branch flag of the RPU has no initial value; in `out.log` it was up); a
  taken BC1 leads to another COP1 instruction (`fp_cop` never lowers its flag
  when it is read, `viol_branch`); branches of a coprocessor are not mixed with
  JR, JALR, DIV, BREAK or traps (these write the stale `res` to `rd`: to
  `$zero`, or over JALR's link, which is why JALR is used without link); no
  instruction but a nop has `$zero` for its result, as the write-back does not
  keep it zero (cpu.cpp:850); and an immediate that is extended with its sign has its top four bits alike
  (`sign_extend_immd` takes bits 12 to 14 for the sign, cpu.cpp:12). `raim.s`
  keeps all five. Besides, the RPU's branch offset has to power up as 0, as it did in
  `out.log`. LB and LH make the same mistake with the sign (cpu.cpp:625, 659); what
  they load is data, and no rule for the text of a program can help, so `MipsIsa`
  promises the sign of bytes and halfwords whose top four bits are alike, and no other.
- Memory is a flat array of bytes as long as a store outside the image is above
  it; one below or in a hole makes the last stretch unreadable (`viol_store`).
  `raim.s` stores nothing.

Observed while reading, modelled, without a run of their own:

- A taken branch of the RPU leads to `pc + 4 + offset` (cpu.cpp:877); isa.tex:625, 651,
  677, 703 and 730 have `PC + (offset << 2)` and add 4 only if it is not taken. `MipsIsa`,
  and so `ImplementsIsa`, takes the target of the code. MIPS and the assembler do too:
  the offset of `aiv_wait_wls: bgezl $zero, aiv_wait_wls` is -1 (PCSpim.log:119), which by
  isa.tex would lead to the WLSC2 in front of the label.
- LB and LH take the sign from the bits below the top one (cpu.cpp:625, 659): 0x80 stays
  positive, 0x10 becomes negative. `MipsIsa` leaves the sign of such values open.
- A passing TSTG does not clear FD (isa.tex:575 says it does).
- An operation encoded without operand (isa.tex:379) uses the operand of an earlier word;
  `TablesAssumption` keeps the subset operations of the programs from it.
- MTC2 with TSTL moves the next operand before the test before it has begun, when two
  follow one another without a pause (isa.tex:211).
- POSVAR raises the flag of its matrix at its end although another operation may hold it.
- BFUC2 can see the flag of the slice before (isa.tex:649).

`CHECK_DEADLOCK FALSE` is set for `cpu`, `viol_branch` and the runs of
`RaimProgram` (the program ends) and for `memory`, `viol_store` (the bound on
stores is reached).

**Fairness.** `FairSpec` adds `WF_vars(Next)` only: the kernel runs some due
thread as long as there is one, and otherwise advances time. Nothing is assumed
of a single thread. It needs none: a thread that ran waits at least 1 ns, and
`Tick` needs every thread to have run, so none can be passed over. `ProgFairSpec` is the same for `RaimProgram`.

**Bounds.** `NSvMax`, `NSsMax`, `NFu`, `QSize`, `PseudoMaxIt` are the code's own
sizes made small; `MaxStores` and the length of the programs are bounds of the
model. What grows without bound in the code (`_cc_spinning`, time, `_mem_words`)
is left out, relative, or behind `MaxStores`.

## 4. Proofs

For every number of units, table and queue size, program and power-up value that
`SizeAssumption`, `CopAssumption`, `TablesAssumption` and `QueueAssumption` allow:

- `RaimCopProofs!TypeCorrect`: `Spec => []TypeOK`. `TypeOK` is inductive. The
  content is in the saturating counters: `N_sv` stops at `NSvMax` and so the row
  of a unit may be `NSvMax`, which is why `WSqrtF` has to say where row 16 is.
- `RaimCopProofs!ExclusiveHolds`: with units that power up without instruction
  (`QuietPowerUp`), `Spec => []Exclusive`. Not inductive: a unit that has been
  handed an instruction takes its row only when it starts. The invariant is
  `TypeOK /\ GuardExclusive /\ LoopBusy`. `GuardExclusive` is `Exclusive` with
  the flags of each operation given by `GuardOf`, a table without the register's
  row and column except for NEWSV; `LoopBusy` says that a unit inside a loop
  has an instruction. `GuardedClaim` (an operation claims and tests all it
  holds) gives the issue step, `ContinueExclusive` the release, `Shrink` all
  steps in which no operation gains a register.
- `InstrQueueProofs!CursorsHold`: `CursorsOK`, which says besides types that the
  cursors are at most `Size` apart modulo `W`.
- `InstrQueueProofs!FifoHolds`: `Spec => ImplementsFifo`, by the modular
  arithmetic of `ModShift`, `ModApart` and `WrapSlot` (a slot survives the wrap
  because `Size` divides `W`; two slots in use differ because less than `Size`
  apart), then one lemma each for append and take.

- `RaimIssueProofs!FullFlagSettledHolds`: `Spec => []FullFlagSettled`. The
  invariant `FullFlagInv` leaves out whether the CPU is stalled and adds that the
  decoder is never more than 1 ns away: in between only the CPU lengthens the
  queue, and it does so once a nanosecond.
- `RaimIssueProofs!IssuesInOrderHolds`: with `QuietPowerUp`, `Spec =>
  IssuesInOrder`. The invariant is `TypeOK` with `ProgramWords` (what is in flight
  came from the program). `DisposedInOrder` shows for each of the three things
  the decoder does with a word (drop, hold, hand to a unit) that it is a step or
  a stutter of `IssueOrder`; `FrontOfQueue` that the word came from the front.
- `RaimIssueProofs!OperandPairedHolds`: with `QuietPowerUp`, `Spec =>
  []OperandPaired`. `OperandPaired` speaks of the word that is held; the invariant
  has to speak of the whole queues. It says that there is a `Matching`, which pairs
  each queued operand with its word, in order and with room behind it for the
  operands still to come. So the operand queue is never longer than the
  instruction queue (`OperandRoom`), and the return value that `execute` ignores is
  never false. `AppendPairs` and `TailPairs` are enqueue and dequeue.
- `RaimProgramProofs!ProgramIsClient`: `ProgSpec => IsClient`, and
  `ProgramImplementsCop`: `ProgSpec => Spec`. Every step of `raim.s` is a step of a
  client of `RaimCop`. That is a matter of what the program issues: `RaimCop` gives a
  client the operations whose operand names the subset that its NEWSS have counted,
  while `raim.s` counts in `$t1`, apart. The invariant is `ProgInv`: `Where` relates
  the program counter to `ss` and to the NEWSS that were executed (`$t1` is behind
  by one between a NEWSS and the end of its loop), `Spins` says that the
  instruction `execute` spins on is the one at the program counter. It holds for any
  number of satellites and for fewer subsets than `NSsMax` (`ClientAssumption`): `raim.s`
  executes a NEWSS behind its last subset too, so that with 17 subsets, for which the
  tables have room, `N_ss` ends at 17, one past them.
- `RaimProgramProofs!ProgramSafe`: hence the theorems about `RaimCop` hold of
  `raim.s`: `TypeOK`, `Exclusive`, `OperandPaired`, `FullFlagSettled` and
  `IssuesInOrder`.
- `CpuProofs!CpuTypeHolds`: `Spec => []CpuTypeOK`, for every program.
- `CpuProofs!IsaImplemented`: under `RulesKept` (every program keeps the rules of
  section 3) and `QuietBranch` (the RPU's branch offset powers up as 0), `Spec =>
  ImplementsIsa`, for programs of any length and all data. `MipsIsa` has the target of
  BC2 from the code and not from isa.tex, and leaves the sign of LB and LH open where
  the code's test fails (`NarrowRight`). The invariant adds `$zero` = 0 and `FlagsInv`: COP1's flag is up only
  in front of a COP1 instruction, COP2's only before the first turn, and without
  branches of a coprocessor `res` is 0 at the begin of every turn but the first. The rules are
  those that the run `cpu` filters its programs with.

- `RaimOwnProofs`: who owns the flags, for programs on the all-in-view subset
  (`OneSubset`: no NEWSS, the operations on a subset carry an operand below 4 of
  their own, column 0). `FlagsOwned` and `NoDataHazard` are not true of every
  program (`viol_hang`, `viol_scratch`), so each theorem has a hypothesis on the
  table of `RaimIsa` and the operations the program uses. Both are about the
  program's *locks*: flags that every operation which frees them has tested and
  claimed. The invariant `LockInv` says that a lock has one holder and is down
  meanwhile; `NextKind` puts every slice of every thread into one of four kinds (a
  unit is given an operation, the flags are claimed for nobody, a unit ends, nothing
  of the kind), which is all that the two proofs then look at.
  - `FlagsOwnedHolds`: under `EnoughUnits` (some set of at most as many locks as
    there are units has one for every operation), `Spec => []FlagsOwned`. With
    all units busy all these locks are taken, so no operation is ready
    (`NeverStranded`) and the claim for nobody never happens.
  - `NoDataHazardHolds`: under `Serialised` (if one operation writes what another
    uses, they share a lock), `Spec => []NoDataHazard`, for any number of units.
  - `MatrixSound`: the nine operations on a matrix meet both, with `u` and the
    matrix's own flag for locks and two units for the first. POSVAR is not among them
    (it does not clear the flag of its matrix, raim_cop.cpp:761), and TSTL and TSTG
    would need a third unit.
  RST is excluded together with NEWSV: it sets `N_sv` to 0 while a NEWSV waits to
  start, which then gives back the flags of row 0 and leaves those of its own row
  down for ever.
- `MemoryProofs!ListOKHolds`: for files with aligned, sorted, separate blocks
  (`WellFormed`), `Spec => []ListOK`, also when the table is too small and when
  stores go into holes. While the file is read the invariant relates the list to the
  blocks (`Below`, `Taken`, `Started`: an entry starts where a block did, covers what
  was read and is below what comes) and orders the words like the addresses
  (`Ascending`, lost later, when an inserted entry gets the words at the end). After
  it `Kept` says where a store can be. `InsertedFront` and `PlaceRight` are the shift
  of the list. The hypothesis on stores, `StoresOnWords`, is forced by the code: in a
  hole `write` gives the new entry the address of the store and not of its word, so
  that a byte stored there makes an entry that overlaps the next one.
- `MemoryProofs!FlatHolds`: `Spec => ImplementsFlat`, if moreover the file fits the
  table (`Fits`), has no block without words but one of its own at the end
  (`FullBlocks`), and stores are in a block, above all, or the table is full
  (`StoresKept`; `viol_store` is what happens otherwise). The invariant `FlatInv`
  says that each word of a block that was read is where the list has its address
  (`Contents`), and afterwards that the addresses of the list are those of the file
  for ever (`Whole`). `OneAddress` (two addresses in one word of the array are in one
  word of the memory) comes from the disjoint places of `ListOK`, `LaneRight` from
  the alignment that the CPU checks.
- `MemoryProofs!NothingVanishesKept`: `NothingVanishes` under the same hypotheses.
- `ToolchainProofs!WritesListingHolds`: `S2Spec => []WritesListing`, for every listing
  and table. The invariant is `Reading` (the cursor in the table is the number of nops
  and branches up to here, as far as the table goes, and the words of the line are
  those wanted) with `Written` (a block for each line behind with words, at its place).
  `StandsWord` and `StandsLine` count the nops and branches, `BlocksLine` the blocks;
  `PutReads` is what the three actions that put a word share.
- `ToolchainProofs!LoadsListingHolds`: `ToolSpec => []LoadsListing`, and
  `ToolchainSafe`: `ToolSpec => [](ListOK /\ WritesListing) /\ ImplementsFlat`, under
  the hypotheses of `FlatHolds`, the one on the stores among them, and `FilesMade`
  (`Files` has what `s2bin` makes of the listings). `ToolInv` has two parts: before the end of the listing memory is not there
  and `s2bin`'s invariant holds; then the file is made (`DoneMakes`) and memory's
  invariants hold, with `AtRest`: until the first store each word of the file is read
  at its address (`RestStep`, from `ReadsBlock`). `RestLoads` puts the halves together.

The hypotheses of the theorems about `Memory` and `Toolchain` hold for the constants of
the run `memory`, those of `RaimOwnProofs` for the constants of `cop_matrix`, so they can be
met; the inductive invariants were checked with TLC on the same instances.

`QuietPowerUp` and `QuietBranch` are assumptions about members that the code does not
initialise; in the recorded run (`out.log`) they are so.

Only model-checked: liveness (`IssueProgress`, `StallEnds`, `ProgramEnds`), which
the prover cannot do with fairness; what is about one program, `raim.s`
(`RaimProgram`: `RowsLoaded`, `OnCurrentSubset`, `NoFalseAlarm`, `LocalVerdict`,
`NeverStalls`, `LoadsInTime`, which depend on the number of instructions between two
others, and `FlagsOwned` with its several subsets); and `DecodesAsWritten`, about a table
of 39 words, of which TLC goes through each.

## 5. Not modelled

The numbers of the algorithm, of the FP registers and of two-register arithmetic
(floating point and 32-bit values, out of TLC's reach and without control of their
own); `gen_jump_instr` (no caller); the characters of the listing; what SWC2 stores
(cpu.cpp:800; `raim.s` stores nothing); the command line; the tracer (a file
writer); the fault injector: in this commit no variable is registered with it, so
that it only starts the simulation step by step, and the bits it would flip are in
data that the models abstract; the MATLAB scripts and the documents.

## 6. Plan

Done, in this order: `RaimIsa` and `RaimCop` with `IssueOrder`; their proofs;
`InstrQueue` on `BoundedFifo` with proofs; `CpuCop` on `MipsIsa`; `Memory` on
`FlatMemory`; `RaimProgram` on `RaimCop`; immediates in `CpuCop`; `RpuWords` and
`S2bin` with `Memory`; proofs about the issue of instructions and about the CPU.

Then the loader of `Memory` as a machine of its own, which made its refinement
provable, and the proofs about `Memory` and the owners of the flags. Then `raim.s` as a
client of `RaimCop`, with the theorems that hold of each; and `s2bin`'s loop as a machine
composed with `Memory`, with the proof that the CPU reads what the listing says.

What remains: `FlagsOwned` for programs on several subsets; a proof of the timing of
`raim.s` (the properties that depend on the number of instructions between two others); SWC2 once a program uses it; the injector
once something is registered with it.
