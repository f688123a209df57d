--------------------------- MODULE RaimOwnProofs ---------------------------
(***************************************************************************)
(* Theorems about RaimCop: who owns the busy flags, for programs that work *)
(* on one subset.                                                          *)
(***************************************************************************)
EXTENDS RaimIssueProofs, FiniteSetTheorems

USE SizeAssumption, CopAssumption

ProgOps == {x.op : x \in Instrs} \cap Ops
Rows    == 0 .. NSvMax

\* The program stays on the all-in-view subset: no NEWSS, and the operations on
\* a subset name the first one in an operand of their own.  The column of a
\* unit and of a word is 0, and no RST moves the cursor under a NEWSV.
OneSubset ==
  /\ QuietPowerUp /\ PowerUpCol \subseteq {0}
  /\ \A x \in Instrs : /\ x.op # "NEWSS" /\ x.d = 0
                       /\ x.op \in SubsetOps => HasOperand(x) /\ x.rt < 4
  /\ "RST" \in Controls => "NEWSV" \notin ProgOps

\* The flags that every operation of the program that raises them has tested
\* and lowered before.
Locks ==
  {l \in Loc : \A op \in ProgOps : \A i \in Rows :
     l \in Free(op, i, 0, 0) => l \in Need(op, i, 0, 0) \cap Claim(op, i, 0, 0)}

\* As many units as it takes: each operation has one of at most so many locks.
EnoughUnits ==
  \E T \in SUBSET Locks :
    /\ IsFiniteSet(T) /\ Cardinality(T) <= NFu
    /\ \A op \in ProgOps : \A i \in Rows : Free(op, i, 0, 0) \cap T # {}

\* Two operations one of which writes what the other one uses share a lock.
Touches(op, i) == Reads(op, i, 0, 0) \cup Writes(op, i, 0, 0)
Serialised ==
  \A p, q \in ProgOps : \A i, j \in Rows :
    Writes(p, i, 0, 0) \cap Touches(q, j) # {}
      => Locks \cap Free(p, i, 0, 0) \cap Free(q, j, 0, 0) # {}

----------------------------------------------------------------------------
(* What the units hold.                                                    *)

\* Held, with the subset and the column of the program.
OpHeld(f) == IF Idle(f) THEN {} ELSE Free(fu[f].ir.op, Row(f), 0, 0)

\* The units run words of the program, on the first subset.
UnitInv ==
  /\ regs.N_ss = 0
  /\ \A f \in FUs :
       /\ fu[f].d = 0
       /\ ~Idle(f) => fu[f].ir \in Instrs /\ fu[f].ir.op \in Ops
       /\ fu[f].at = "loop" => ~Idle(f) /\ fu[f].k = Sub(f)

Base == TypeOK /\ ProgramWords /\ OperandPaired

\* What is claimed is given back.
LEMMA ClaimFreed ==
  ASSUME NEW op, NEW i, NEW k, NEW d
  PROVE  Claim(op, i, k, d) \subseteq Free(op, i, k, d)
BY DEF Claim, Free

\* Operations without a subset of their own touch the same flags for any.
LEMMA NoSubset ==
  ASSUME NEW op \in Ops \ SubsetOps, op # "NEWSS", NEW i, NEW k
  PROVE  /\ Free(op, i, k, 0) = Free(op, i, 0, 0)
         /\ Reads(op, i, k, 0) = Reads(op, i, 0, 0)
         /\ Writes(op, i, k, 0) = Writes(op, i, 0, 0)
BY DEF Ops, SubsetOps, Free, Reads, Writes

\* A running operation works on the first subset and the first column.
LEMMA UnitSubset ==
  ASSUME OneSubset, Base, UnitInv, NEW f \in FUs, ~Idle(f)
  PROVE  /\ fu[f].ir.op \in ProgOps /\ Row(f) \in Rows
         /\ Held(f) = OpHeld(f)
         /\ Reads(fu[f].ir.op, Row(f), Sub(f), fu[f].d) = Reads(fu[f].ir.op, Row(f), 0, 0)
         /\ Writes(fu[f].ir.op, Row(f), Sub(f), fu[f].d) = Writes(fu[f].ir.op, Row(f), 0, 0)
<1> DEFINE op == fu[f].ir.op
<1>1. op \in ProgOps /\ fu[f].d = 0 /\ op # "NEWSS" /\ op \in Ops
  BY DEF UnitInv, ProgOps, OneSubset
<1>2. Row(f) \in Rows
  BY RowType DEF Base, Rows
<1>3. CASE op \in SubsetOps
  <2>1. HasOperand(fu[f].ir) /\ fu[f].ir.rt < 4 /\ fu[f].ir.rt \in Nat
    <3>1. fu[f].ir \in InstrType
      BY DEF Base, TypeOK, FuType, Idle
    <3> QED
      BY <1>3, <3>1 DEF UnitInv, OneSubset, InstrType
  <2>2. Sub(f) = 0
    BY <2>1 DEF Base, OperandPaired, Sub
  <2> QED
    BY <1>1, <1>2, <2>2 DEF Held, OpHeld
<1>4. CASE op \notin SubsetOps
  BY <1>1, <1>2, <1>4, NoSubset DEF Held, OpHeld
<1> QED
  BY <1>3, <1>4

----------------------------------------------------------------------------
(* The four kinds of steps.                                                *)

\* Neither the flags nor what the units hold.
Quiet == status' = status /\ \A f \in FUs : OpHeld(f)' = OpHeld(f)

Lowered(op) ==
  [l \in Loc |-> status[l] /\ l \notin Claim(op, regs.N_sv, 0, 0)]

ReadyOp(op) == op \in ProgOps /\ \A l \in Need(op, regs.N_sv, 0, 0) : status[l]

\* The decoder hands an operation to a free unit.
Gives(f, op) ==
  /\ Idle(f) /\ ReadyOp(op) /\ status' = Lowered(op)
  /\ OpHeld(f)' = Free(op, regs.N_sv, 0, 0)
  /\ \A g \in FUs \ {f} : OpHeld(g)' = OpHeld(g)

\* The decoder claims the flags and finds no unit.
Strands(op) ==
  /\ \A f \in FUs : ~Idle(f) /\ OpHeld(f)' = OpHeld(f)
  /\ ReadyOp(op) /\ status' = Lowered(op)

\* A unit ends its operation.
Ends(f) ==
  /\ ~Idle(f) /\ status' = [l \in Loc |-> status[l] \/ l \in OpHeld(f)]
  /\ OpHeld(f)' = {}
  /\ \A g \in FUs \ {f} : OpHeld(g)' = OpHeld(g)

Kind ==
  \/ Quiet
  \/ \E f \in FUs : Ends(f) \/ \E op \in ProgOps : Gives(f, op)
  \/ \E op \in ProgOps : Strands(op)

\* A lock has one holder, and is down as long as it is held.
LockInv ==
  \A f \in FUs : \A l \in OpHeld(f) \cap Locks :
    ~status[l] /\ \A g \in FUs : l \in OpHeld(g) => g = f

OwnedInv == \A l \in Loc : ~status[l] => \E f \in FUs : l \in OpHeld(f)

\* A step of one of the kinds leaves every lock with one holder.
LEMMA KindLock ==
  ASSUME TypeOK, LockInv, Kind, \A f \in FUs : ~Idle(f) => Row(f) \in Rows /\ fu[f].ir.op \in ProgOps
  PROVE  LockInv'
<1>0. /\ status \in [Loc -> BOOLEAN] /\ Locks \subseteq Loc /\ regs.N_sv \in Rows
      /\ Locks' = Locks
  BY DEF TypeOK, Locks, RegsType, Rows, ProgOps
<1>1. CASE Quiet
  BY <1>0, <1>1 DEF Quiet, LockInv
<1>2. ASSUME NEW op \in ProgOps, ReadyOp(op), status' = Lowered(op),
             NEW f \in FUs, NEW l \in OpHeld(f) \cap Locks
      PROVE  ~status'[l]
  BY <1>0, <1>2 DEF Lowered, LockInv
<1>3. ASSUME NEW op \in ProgOps, Strands(op) PROVE LockInv'
  BY <1>0, <1>2, <1>3 DEF Strands, LockInv
<1>4. ASSUME NEW f \in FUs, NEW op \in ProgOps, Gives(f, op) PROVE LockInv'
  <2> DEFINE H == Free(op, regs.N_sv, 0, 0)
  <2>1. ASSUME NEW l \in H \cap Locks
        PROVE  status[l] /\ ~status'[l] /\ \A g \in FUs : l \notin OpHeld(g)
    <3>1. l \in Need(op, regs.N_sv, 0, 0) /\ l \in Claim(op, regs.N_sv, 0, 0)
      BY <1>0, <2>1 DEF Locks
    <3>2. status[l] /\ status' = Lowered(op)
      BY <1>4, <3>1 DEF Gives, ReadyOp
    <3> QED
      BY <1>0, <2>1, <3>1, <3>2 DEF Lowered, LockInv
  <2>2. /\ OpHeld(f)' = H /\ OpHeld(f) = {} /\ ReadyOp(op) /\ status' = Lowered(op)
        /\ \A g \in FUs \ {f} : OpHeld(g)' = OpHeld(g)
    BY <1>4 DEF Gives, OpHeld
  <2> HIDE DEF H
  <2>3. ASSUME NEW g \in FUs \ {f}, NEW l \in OpHeld(g) \cap Locks
        PROVE  ~status'[l] /\ \A h \in FUs : l \in OpHeld(h)' => h = g
    <3>1. ~status'[l]
      BY <1>2, <2>2, <2>3
    <3>2. l \notin H
      BY <2>1, <2>3
    <3> QED
      BY <2>2, <2>3, <3>1, <3>2 DEF LockInv
  <2>4. \A l \in H \cap Locks : ~status'[l] /\ \A h \in FUs : l \in OpHeld(h)' => h = f
    BY <2>1, <2>2
  <2> QED
    BY <1>0, <2>2, <2>3, <2>4 DEF LockInv
<1>5. ASSUME NEW f \in FUs, Ends(f) PROVE LockInv'
  <2>1. /\ status' = [l \in Loc |-> status[l] \/ l \in OpHeld(f)] /\ OpHeld(f)' = {}
        /\ \A g \in FUs \ {f} : OpHeld(g)' = OpHeld(g)
    BY <1>5 DEF Ends
  <2>2. ASSUME NEW g \in FUs \ {f}, NEW l \in OpHeld(g) \cap Locks
        PROVE  ~status'[l] /\ \A h \in FUs : l \in OpHeld(h)' => h = g
    <3>1. ~status[l] /\ l \notin OpHeld(f) /\ l \in Loc
      BY <1>0, <2>2 DEF LockInv
    <3>2. ~status'[l]
      BY ONLY <2>1, <3>1, Zenon
    <3> QED
      BY <2>1, <2>2, <3>2 DEF LockInv
  <2> QED
    BY <1>0, <2>1, <2>2 DEF LockInv
<1> QED
  BY <1>1, <1>3, <1>4, <1>5 DEF Kind

\* With all units busy every ticket is taken, so nothing is ready.
LEMMA NeverStranded ==
  ASSUME EnoughUnits, TypeOK, LockInv,
         \A f \in FUs : ~Idle(f) => Row(f) \in Rows /\ fu[f].ir.op \in ProgOps,
         NEW op \in ProgOps, ReadyOp(op)
  PROVE  \E f \in FUs : Idle(f)
<1> SUFFICES ASSUME \A f \in FUs : ~Idle(f) PROVE FALSE
  OBVIOUS
<1>1. PICK T \in SUBSET Locks :
        /\ IsFiniteSet(T) /\ Cardinality(T) <= NFu
        /\ \A p \in ProgOps : \A i \in Rows : Free(p, i, 0, 0) \cap T # {}
  BY DEF EnoughUnits
<1> DEFINE t == [f \in FUs |-> CHOOSE l \in T : l \in OpHeld(f)]
<1>2. \A f \in FUs : t[f] \in T /\ t[f] \in OpHeld(f)
  BY <1>1 DEF OpHeld
<1> HIDE DEF t
<1>3. \A f, g \in FUs : t[f] = t[g] => f = g
  BY <1>1, <1>2 DEF LockInv
<1>4. IsFiniteSet(FUs) /\ Cardinality(FUs) = NFu
  BY FS_Interval DEF FUs
<1>5. PICK S : S = {t[f] : f \in FUs}
  OBVIOUS
<1>6. IsFiniteSet(S) /\ Cardinality(S) = Cardinality(FUs)
  <2>1. [f \in FUs |-> t[f]] \in Bijection(FUs, S)
    BY <1>3, <1>5 DEF Bijection, Injection, Surjection, IsInjective
  <2> QED
    BY <1>4, <2>1, FS_Bijection DEF ExistsBijection
<1>7. S = T
  <2>1. S \in SUBSET T
    BY <1>2, <1>5
  <2>2. Cardinality(S) <= Cardinality(T) /\ Cardinality(T) \in Nat /\ NFu \in Nat
    BY <1>1, <2>1, FS_Subset, FS_CardinalityType
  <2>3. Cardinality(S) = NFu
    BY <1>4, <1>6
  <2>4. Cardinality(S) = Cardinality(T)
    BY <1>1, <2>2, <2>3
  <2> QED
    BY <1>1, <2>1, <2>4, FS_Subset
<1>8. regs.N_sv \in Rows
  BY DEF TypeOK, RegsType, Rows
<1>9. PICK l \in T : l \in Free(op, regs.N_sv, 0, 0)
  BY <1>1, <1>8
<1>10. status[l]
  BY <1>1, <1>8, <1>9 DEF Locks, ReadyOp
<1>11. PICK f \in FUs : l = t[f]
  BY <1>5, <1>7
<1>12. l \in OpHeld(f) \cap Locks
  BY <1>1, <1>2, <1>11
<1> QED
  BY <1>10, <1>12 DEF LockInv

\* No claim is lost: who lowers a flag holds it, and who raises it held it.
LEMMA KindOwned ==
  ASSUME TypeOK, OwnedInv, Kind, ~ \E op \in ProgOps : Strands(op)
  PROVE  OwnedInv'
<1>1. CASE Quiet
  BY <1>1 DEF Quiet, OwnedInv
<1>2. ASSUME NEW f \in FUs, NEW op \in ProgOps, Gives(f, op) PROVE OwnedInv'
  <2>1. /\ OpHeld(f)' = Free(op, regs.N_sv, 0, 0) /\ OpHeld(f) = {}
        /\ \A g \in FUs \ {f} : OpHeld(g)' = OpHeld(g)
        /\ status' = Lowered(op)
    BY <1>2 DEF Gives, OpHeld
  <2>2. ASSUME NEW l \in Loc, ~status'[l]
        PROVE  ~status[l] \/ l \in Claim(op, regs.N_sv, 0, 0)
    BY <2>1, <2>2 DEF Lowered
  <2> QED
    BY <2>1, <2>2, ClaimFreed DEF OwnedInv
<1>3. ASSUME NEW f \in FUs, Ends(f) PROVE OwnedInv'
  <2>1. /\ status' = [l \in Loc |-> status[l] \/ l \in OpHeld(f)]
        /\ \A g \in FUs \ {f} : OpHeld(g)' = OpHeld(g)
    BY <1>3 DEF Ends
  <2>2. ASSUME NEW l \in Loc, ~status'[l] PROVE ~status[l] /\ l \notin OpHeld(f)
    BY <2>1, <2>2
  <2> QED
    BY <2>1, <2>2 DEF OwnedInv
<1> QED
  BY <1>1, <1>2, <1>3 DEF Kind

----------------------------------------------------------------------------
(* Every step is of one of the kinds.                                      *)

\* Only NEWSV holds flags that depend on its row.
LEMMA FreeRow ==
  ASSUME NEW op, op # "NEWSV", NEW i, NEW j
  PROVE  Free(op, i, 0, 0) = Free(op, j, 0, 0)
BY DEF Free

\* The flag of N_sv is a lock.
LEMMA NSvLock ==
  /\ NSvF \in Locks
  /\ \A i : NSvF \in Free("NEWSV", i, 0, 0)
BY DEF Locks, Loc, ProgOps, Rows, NSvF, Need, Claim, Free, AlphaF, YF, UF, KFaF,
       KFaRF, SigF, GF, BNomF, SF, IdxSsF, SigSsF, SprF, WSqrtFs, WAccSqrtFs,
       SprFs, WSqrtF, WAccSqrtF

\* A unit that keeps word, place and row holds what it held.
LEMMA SameOpHeld ==
  ASSUME NEW f \in FUs, fu'[f].ir = fu[f].ir, Row(f)' = Row(f)
  PROVE  OpHeld(f)' = OpHeld(f)
BY DEF OpHeld, Idle

\* A round of an operation changes no flag, or ends it and gives back what it holds.
LEMMA ContinueKind ==
  ASSUME OneSubset, Base, UnitInv, NEW f \in FUs, NEW u \in FuType, ~Idle(f),
         u.ir = fu[f].ir, u.rt = fu[f].rt, u.at = "loop", u.i = Row(f),
         u.k = Sub(f), u.d = fu[f].d, regs'.N_ss = 0,
         \A g \in FUs \ {f} : fu'[g] = fu[g] => OpHeld(g)' = OpHeld(g),
         Continue(f, u)
  PROVE  UnitInv' /\ (Quiet \/ Ends(f))
<1>1. fu \in [FUs -> FuType] /\ status \in [Loc -> BOOLEAN]
  BY DEF Base, TypeOK
<1>2. CASE Waits(u, regs') = {}
  <2>1. /\ fu' = [fu EXCEPT ![f] = [u EXCEPT !.ir = NoInstr, !.at = "top",
                   !.cpsr = EndCpsr(u), !.i = 0, !.k = 0, !.n = 0, !.r = 0]]
        /\ status' = [l \in Loc |->
                        status[l] \/ l \in Free(u.ir.op, u.i, u.k, u.d)]
    BY <1>2 DEF Continue, Released
  <2>2. fu'[f].ir = NoInstr /\ fu'[f].at = "top" /\ fu'[f].d = fu[f].d
    BY <1>1, <2>1 DEF FuType
  <2>3. \A g \in FUs \ {f} : fu'[g] = fu[g]
    BY <1>1, <2>1
  <2>4. Free(u.ir.op, u.i, u.k, u.d) = OpHeld(f)
    BY UnitSubset DEF Held
  <2>5. OpHeld(f)' = {}
    BY <2>2 DEF OpHeld, Idle
  <2>6. Ends(f)
    BY <2>1, <2>3, <2>4, <2>5 DEF Ends
  <2>7. UnitInv'
    BY <2>2, <2>3 DEF UnitInv, Idle, Sub
  <2> QED
    BY <2>6, <2>7
<1>3. CASE Waits(u, regs') # {}
  <2>1. PICK m \in Waits(u, regs') :
          fu' = [fu EXCEPT ![f] = [u EXCEPT !.r = m]] /\ UNCHANGED status
    BY <1>3 DEF Continue
  <2>2. /\ fu'[f].ir = fu[f].ir /\ fu'[f].at = "loop" /\ fu'[f].i = Row(f)
        /\ fu'[f].rt = fu[f].rt /\ fu'[f].k = Sub(f) /\ fu'[f].d = fu[f].d
    BY <1>1, <2>1 DEF FuType
  <2>3. \A g \in FUs \ {f} : fu'[g] = fu[g]
    BY <1>1, <2>1
  <2>4. OpHeld(f)' = OpHeld(f)
    BY <2>2, SameOpHeld DEF Row
  <2>5. UnitInv'
    BY <2>2, <2>3 DEF UnitInv, Idle, Sub
  <2> QED
    BY <2>1, <2>3, <2>4, <2>5 DEF Quiet
<1> QED
  BY <1>2, <1>3

\* A slice of a unit is of one of the kinds.
LEMMA FuStepKind ==
  ASSUME OneSubset, Base, TypeOK', UnitInv, LockInv, NEW f \in FUs, FuStep(f)
  PROVE  UnitInv' /\ (Quiet \/ Ends(f))
<1>1. /\ fu[f] \in FuType /\ regs \in RegsType /\ fu \in [FUs -> FuType]
      /\ fu[f].d = 0 /\ regs.N_ss = 0
  BY DEF Base, TypeOK, UnitInv
<1>2. CASE FuIdle(f)
  <2>1. UNCHANGED <<status, regs, fu>>
    BY <1>2 DEF FuIdle
  <2> QED
    BY <2>1, SameOpHeld DEF Quiet, Row, UnitInv, Idle, Sub
<1>3. CASE FuStart(f)
  <2>1. PICK test \in {"pass", "fail"} :
          regs' = StartRegs(fu[f].ir.op, test) /\ Continue(f, StartFu(f, test))
    BY <1>3 DEF FuStart, FuBegin, Outcomes
  <2>2. ~Idle(f) /\ Row(f) = regs.N_sv /\ fu[f].ir.op \in ProgOps
    BY <1>3, UnitSubset DEF FuStart, FuBegin, Row
  <2>3. StartFu(f, test) \in FuType
    BY <2>1, StartType DEF Base
  <2>4. /\ StartFu(f, test).ir = fu[f].ir /\ StartFu(f, test).at = "loop"
        /\ StartFu(f, test).i = Row(f) /\ StartFu(f, test).rt = fu[f].rt
        /\ StartFu(f, test).k = Sub(f) /\ StartFu(f, test).d = fu[f].d
    BY <1>1, <2>2 DEF StartFu, FuType, Sub
  <2>5. fu[f].ir.op # "NEWSS"
    BY <2>2 DEF OneSubset, ProgOps
  <2>6. regs'.N_ss = 0
    BY <1>1, <2>1, <2>5 DEF StartRegs, RegsType
  <2>7. ASSUME NEW g \in FUs \ {f}, fu'[g] = fu[g]
        PROVE  OpHeld(g)' = OpHeld(g)
    <3>1. CASE fu[f].ir.op # "NEWSV"
      <4>1. regs'.N_sv = regs.N_sv
        BY <1>1, <2>1, <3>1 DEF StartRegs, RegsType
      <4> QED
        BY <2>7, <4>1, SameOpHeld DEF Row
    <3>2. CASE fu[f].ir.op = "NEWSV" /\ ~Idle(g)
      <4>1. NSvF \in OpHeld(f) \cap Locks
        BY <2>2, <3>2, NSvLock DEF OpHeld
      <4>2. NSvF \notin OpHeld(g)
        BY <4>1 DEF LockInv
      <4>3. fu[g].ir.op # "NEWSV"
        BY <3>2, <4>2, NSvLock DEF OpHeld
      <4> QED
        BY <2>7, <4>3, FreeRow DEF OpHeld, Idle
    <3> QED
      BY <2>7, <3>1, <3>2 DEF OpHeld, Idle
  <2> QED
    BY <2>1, <2>2, <2>3, <2>4, <2>6, <2>7, ContinueKind
<1>4. CASE FuResume(f)
  <2>1. fu[f].at = "loop" /\ UNCHANGED regs /\ Continue(f, fu[f])
    BY <1>4 DEF FuResume
  <2>2. ~Idle(f) /\ fu[f].k = Sub(f) /\ fu[f].i = Row(f)
    BY <2>1 DEF UnitInv, Row
  <2>3. \A g \in FUs \ {f} : fu'[g] = fu[g] => OpHeld(g)' = OpHeld(g)
    BY <2>1, SameOpHeld DEF Row
  <2> QED
    BY <1>1, <2>1, <2>2, <2>3, ContinueKind
<1> QED
  BY <1>2, <1>3, <1>4 DEF FuStep

\* Decoding a word is of one of the kinds: no claim, a hand-over, or a claim for nobody.
LEMMA DecodeKind ==
  ASSUME OneSubset, Base, UnitInv, NEW x \in Instrs, NEW v,
         Decode(x, v, 0), regs'.N_sv = regs.N_sv, regs'.N_ss = 0
  PROVE  UnitInv' /\ Kind
<1>1. fu \in [FUs -> FuType] /\ x \in InstrType /\ x.op # "NEWSS" /\ regs.N_ss = 0
  BY DEF Base, TypeOK, OneSubset, UnitInv
<1>2. CASE UNCHANGED <<status, fu>>
  <2>1. \A f \in FUs : OpHeld(f)' = OpHeld(f)
    BY <1>2, SameOpHeld DEF Row
  <2> QED
    BY <1>2, <2>1 DEF Kind, Quiet, UnitInv, Idle, Sub
<1>3. CASE x.op \in Ops /\ Ready(x, 0)
  <2>1. x.op \in ProgOps /\ ReadyOp(x.op)
    BY <1>1, <1>3 DEF Ready, ReadyOp, ProgOps
  <2>2. status' = Lowered(x.op)
    BY <1>1, <1>3 DEF Decode, Claimed, Lowered, Ops
  <2>3. \/ \E f \in FUs : Idle(f) /\ fu' = [fu EXCEPT ![f].ir = x, ![f].rt = v]
        \/ fu' = fu /\ \A f \in FUs : ~Idle(f)
    BY <1>1, <1>3 DEF Decode, FirstOpen, Ops
  <2>4. CASE fu' = fu /\ \A f \in FUs : ~Idle(f)
    <3>1. \A f \in FUs : OpHeld(f)' = OpHeld(f)
      BY <2>4, SameOpHeld DEF Row
    <3>2. Strands(x.op)
      BY <2>1, <2>2, <2>4, <3>1 DEF Strands
    <3> QED
      BY <2>1, <2>4, <3>2 DEF Kind, UnitInv, Idle, Sub
  <2>5. ASSUME NEW f \in FUs, Idle(f), fu' = [fu EXCEPT ![f].ir = x, ![f].rt = v]
        PROVE  UnitInv' /\ Kind
    <3>1. \A g \in FUs \ {f} : fu'[g] = fu[g]
      BY <1>1, <2>5
    <3>2. fu'[f].ir = x /\ fu'[f].at = fu[f].at /\ fu'[f].d = fu[f].d
      BY <1>1, <2>5 DEF FuType
    <3>3. fu[f].at = "top" /\ x # NoInstr
      BY <1>1, <2>5 DEF UnitInv, FuType
    <3>4. OpHeld(f)' = Free(x.op, regs.N_sv, 0, 0)
      BY <3>2, <3>3 DEF OpHeld, Idle, Row
    <3>5. \A g \in FUs \ {f} : OpHeld(g)' = OpHeld(g)
      BY <3>1, SameOpHeld DEF Row
    <3>6. Gives(f, x.op)
      BY <2>1, <2>2, <2>5, <3>4, <3>5 DEF Gives
    <3>7. UnitInv'
      BY <1>3, <3>1, <3>2, <3>3 DEF UnitInv, Idle, Sub
    <3> QED
      BY <2>1, <3>6, <3>7 DEF Kind
  <2> QED
    BY <2>3, <2>4, <2>5
<1> QED
  BY <1>2, <1>3 DEF Decode

\* set_regs moves neither cursor.
LEMMA SetRegsCursors ==
  ASSUME NEW rg \in RegsType, NEW reg, NEW v
  PROVE  SetRegs(rg, reg, v).N_sv = rg.N_sv /\ SetRegs(rg, reg, v).N_ss = rg.N_ss
BY DEF SetRegs, RegsType

\* So is a slice of the decoder, whatever it finds in the queues.
LEMMA CopStepKind ==
  ASSUME OneSubset, Base, UnitInv, CopStep
  PROVE  UnitInv' /\ Kind
<1>1. regs \in RegsType /\ regs.N_ss = 0
  BY DEF Base, TypeOK, UnitInv
<1>2. ASSUME UNCHANGED <<status, fu>>, regs'.N_sv = regs.N_sv, regs'.N_ss = 0
      PROVE  UnitInv' /\ Kind
  <2>1. \A f \in FUs : OpHeld(f)' = OpHeld(f)
    BY <1>2, SameOpHeld DEF Row
  <2> QED
    BY <1>2, <2>1 DEF Kind, Quiet, UnitInv, Idle, Sub
<1>3. CASE CopIdle
  BY <1>1, <1>2, <1>3 DEF CopIdle
<1>4. CASE CopRetry
  <2>1. ir \in Instrs /\ Decode(ir, rt, 0) /\ UNCHANGED regs
    BY <1>4 DEF CopRetry, Base, ProgramWords, OneSubset
  <2> QED
    BY <1>1, <2>1, DecodeKind
<1>5. CASE CopFetch
  <2> DEFINE x == Head(instr_q)
             v == IF Dequeued(x) THEN Head(rt_val_q) ELSE rt
  <2>1. /\ regs' = IF x.fmt = "MT" THEN SetRegs(regs, x.reg, v) ELSE regs
        /\ Decode(x, v, 0) \/ UNCHANGED <<status, fu>>
    BY <1>5 DEF CopFetch
  <2>2. x \in Instrs
    BY <1>5 DEF CopFetch, Base, ProgramWords
  <2> HIDE DEF x, v
  <2>3. regs'.N_sv = regs.N_sv /\ regs'.N_ss = 0
    BY <1>1, <2>1, SetRegsCursors
  <2> QED
    BY <1>2, <2>1, <2>2, <2>3, DecodeKind
<1> QED
  BY <1>3, <1>4, <1>5 DEF CopStep

\* The CPU takes no flag; RST moves the row, but then nobody runs NEWSV.
LEMMA CpuStepKind ==
  ASSUME OneSubset, Base, UnitInv, CpuStep
  PROVE  UnitInv' /\ Quiet
<1>1. /\ UNCHANGED status /\ regs'.N_ss = 0
      /\ regs'.N_sv = regs.N_sv \/ "NEWSV" \notin ProgOps
  <2>1. /\ regs.N_ss = 0
        /\ \A y \in Loads : /\ SetRegs(regs, y.reg, y.val).N_sv = regs.N_sv
                            /\ SetRegs(regs, y.reg, y.val).N_ss = 0
    BY SetRegsCursors DEF Base, TypeOK, UnitInv
  <2>2. /\ ResetRegs.N_ss = 0
        /\ [regs EXCEPT !.idx_faulty_sv = {}].N_sv = regs.N_sv
        /\ [regs EXCEPT !.idx_faulty_sv = {}].N_ss = regs.N_ss
    BY DEF ResetRegs, Base, TypeOK, RegsType
  <2>3. CpuRst => "NEWSV" \notin ProgOps
    BY DEF CpuRst, OneSubset
  <2> QED
    BY <2>1, <2>2, <2>3
       DEF CpuStep, CpuIssue, CpuLoad, CpuRst, CpuClrc, CpuOther, copVars
<1>2. \A g \in FUs : /\ fu'[g].ir = fu[g].ir /\ fu'[g].at = fu[g].at
                     /\ fu'[g].i = fu[g].i /\ fu'[g].d = fu[g].d
                     /\ fu'[g].k = fu[g].k /\ fu'[g].rt = fu[g].rt
  <2>1. fu' = fu \/ fu' = ClearCpsr
    BY DEF CpuStep, CpuIssue, CpuLoad, CpuRst, CpuClrc, CpuOther, copVars
  <2>2. ASSUME NEW g \in FUs
        PROVE  /\ ClearCpsr[g].ir = fu[g].ir /\ ClearCpsr[g].at = fu[g].at
               /\ ClearCpsr[g].i = fu[g].i /\ ClearCpsr[g].d = fu[g].d
               /\ ClearCpsr[g].k = fu[g].k /\ ClearCpsr[g].rt = fu[g].rt
    <3>1. fu[g] \in FuType /\ ClearCpsr[g] = [fu[g] EXCEPT !.cpsr = {}]
      BY DEF Base, TypeOK, ClearCpsr
    <3> QED
      BY <3>1 DEF FuType
  <2> QED
    BY <2>1, <2>2
<1>3. ASSUME NEW g \in FUs PROVE OpHeld(g)' = OpHeld(g)
  <2>1. CASE regs'.N_sv = regs.N_sv
    BY <1>2, <2>1, SameOpHeld DEF Row
  <2>2. CASE "NEWSV" \notin ProgOps /\ ~Idle(g)
    <3>1. fu[g].ir.op # "NEWSV"
      BY <2>2, UnitSubset
    <3> QED
      BY <1>2, <3>1, FreeRow DEF OpHeld, Idle
  <2> QED
    BY <1>1, <1>2, <2>1, <2>2 DEF OpHeld, Idle
<1> QED
  BY <1>1, <1>2, <1>3 DEF Quiet, UnitInv, Idle, Sub

\* Every step is of one of the kinds.
LEMMA NextKind ==
  ASSUME OneSubset, Base, TypeOK', UnitInv, LockInv, [Next]_vars
  PROVE  UnitInv' /\ Kind
<1>1. CASE Tick \/ UNCHANGED vars
  <2>1. UNCHANGED <<status, regs, fu>>
    BY <1>1 DEF Tick, vars, copVars
  <2> QED
    BY <2>1, SameOpHeld DEF Kind, Quiet, Row, UnitInv, Idle, Sub
<1>2. CASE CopStep
  BY <1>2, CopStepKind
<1>3. CASE \E f \in FUs : FuStep(f)
  BY <1>3, FuStepKind DEF Kind
<1>4. CASE CpuStep
  BY <1>4, CpuStepKind DEF Kind
<1> QED
  BY <1>1, <1>2, <1>3, <1>4 DEF Next

----------------------------------------------------------------------------
(* The theorems.                                                           *)

\* At power-up nobody holds anything and every flag is up.
LEMMA InitUnits ==
  ASSUME OneSubset, Init
  PROVE  /\ UnitInv /\ OwnedInv /\ LockInv
         /\ \A f \in FUs : Idle(f)
<1>1. \A f \in FUs : fu[f].ir = NoInstr /\ fu[f].at = "top" /\ fu[f].d = 0
  BY DEF OneSubset, QuietPowerUp, Init
<1>2. regs.N_ss = 0 /\ \A l \in Loc : status[l]
  BY DEF Init, ResetRegs
<1> QED
  BY <1>1, <1>2 DEF UnitInv, OwnedInv, LockInv, OpHeld, Idle

\* What earlier theorems give of this program.
LEMMA BaseHolds ==
  ASSUME OneSubset
  PROVE  Spec => []Base
<1>1. Spec => []OperandPaired
  BY OperandPairedHolds DEF OneSubset
<1>2. Init => TypeOK /\ ProgramWords
  BY InitType DEF Init, ProgramWords
<1>3. TypeOK /\ ProgramWords /\ [Next]_vars => (TypeOK /\ ProgramWords)'
  BY NextType, NextProgram
<1> QED
  BY <1>1, <1>2, <1>3, PTL DEF Spec, Base

\* Rows and operations of the running units.
LEMMA UnitsTyped ==
  ASSUME OneSubset, Base, UnitInv
  PROVE  \A f \in FUs : ~Idle(f) => Row(f) \in Rows /\ fu[f].ir.op \in ProgOps
BY UnitSubset

\* Every lock of the program has one holder, in every schedule, however many
\* units there are.
LEMMA LocksHold ==
  ASSUME OneSubset
  PROVE  Spec => [](Base /\ UnitInv /\ LockInv)
<1>1. Init => UnitInv /\ LockInv
  BY InitUnits
<1>2. Base /\ Base' /\ UnitInv /\ LockInv /\ [Next]_vars => (UnitInv /\ LockInv)'
  BY NextKind, KindLock, UnitsTyped DEF Base
<1> QED
  BY <1>1, <1>2, BaseHolds, PTL DEF Spec

\* For every program on one subset, with as many units as it has independent
\* operations: a flag that is down has a running operation that will raise it,
\* so no operation waits for a register that nobody gives back.
THEOREM FlagsOwnedHolds ==
  ASSUME OneSubset, EnoughUnits
  PROVE  Spec => []FlagsOwned
<1>1. Init => OwnedInv
  BY InitUnits
<1>2. /\ Base /\ UnitInv /\ LockInv
      /\ OwnedInv /\ [Next]_vars /\ Base'
      => OwnedInv'
  <2> SUFFICES ASSUME Base, UnitInv, LockInv, OwnedInv, [Next]_vars, Base'
               PROVE  OwnedInv'
    OBVIOUS
  <2>1. Kind
    BY NextKind DEF Base
  <2>2. ~ \E op \in ProgOps : Strands(op)
    BY NeverStranded, UnitsTyped DEF Strands, Base
  <2> QED
    BY <2>1, <2>2, KindOwned DEF Base
<1>3. Base /\ UnitInv /\ OwnedInv => FlagsOwned
  <2> SUFFICES ASSUME Base, UnitInv, OwnedInv, NEW l \in Loc, ~status[l]
               PROVE  \E f \in FUs : l \in Held(f)
    BY DEF FlagsOwned
  <2>1. PICK f \in FUs : l \in OpHeld(f)
    BY DEF OwnedInv
  <2> QED
    BY <2>1, UnitSubset DEF OpHeld
<1> QED
  BY <1>1, <1>2, <1>3, LocksHold, PTL DEF Spec

\* For every program on one subset whose conflicting operations share a lock, no
\* running operation writes what another one uses, in any schedule and with any
\* number of units: the flags that the decoder does test are enough.
THEOREM NoDataHazardHolds ==
  ASSUME OneSubset, Serialised
  PROVE  Spec => []NoDataHazard
<1>1. Base /\ UnitInv /\ LockInv => NoDataHazard
  <2> SUFFICES ASSUME Base, UnitInv, LockInv, NEW f \in FUs, NEW g \in FUs,
                      Clash(f, g) # {}
               PROVE  FALSE
    BY DEF NoDataHazard
  <2>1. f # g /\ ~Idle(f) /\ ~Idle(g)
    BY DEF Clash
  <2> DEFINE p == fu[f].ir.op
             q == fu[g].ir.op
  <2>2. /\ p \in ProgOps /\ Row(f) \in Rows /\ OpHeld(f) = Free(p, Row(f), 0, 0)
        /\ q \in ProgOps /\ Row(g) \in Rows /\ OpHeld(g) = Free(q, Row(g), 0, 0)
    BY <2>1, UnitSubset DEF OpHeld
  <2>3. Writes(p, Row(f), 0, 0) \cap Touches(q, Row(g)) # {}
    BY <2>1, UnitSubset DEF Clash, Touches
  <2>4. Locks \cap OpHeld(f) \cap OpHeld(g) # {}
    BY <2>2, <2>3 DEF Serialised
  <2> QED
    BY <2>1, <2>4 DEF LockInv
<1> QED
  BY <1>1, LocksHold, PTL

----------------------------------------------------------------------------
(* The operations on a matrix keep both rules.                             *)

MatrixOps == {"CALCU", "INITP", "CALCP", "WLS", "MULY", "MOVD", "BIAS",
              "CALCSS", "SSVAR"}

\* CALCU, INITP and CALCP take u, all but CALCU the matrix.
LEMMA MatrixLocks ==
  ASSUME ProgOps \subseteq MatrixOps
  PROVE  /\ {UF, SF(0)} \subseteq Locks
         /\ \A op \in ProgOps : \A i \in Rows :
              /\ op \in {"CALCU", "INITP", "CALCP"} => UF \in Free(op, i, 0, 0)
              /\ op # "CALCU" => SF(0) \in Free(op, i, 0, 0)
<1>1. {UF, SF(0)} \subseteq Loc
  <2>1. 0 \in SsIdx
    BY DEF SsIdx
  <2> QED
    BY <2>1 DEF Loc, UF, SF
<1>2. ASSUME NEW op \in MatrixOps, NEW i
      PROVE  /\ UF \in Free(op, i, 0, 0)
                  => UF \in Need(op, i, 0, 0) \cap Claim(op, i, 0, 0)
             /\ SF(0) \in Free(op, i, 0, 0)
                  => SF(0) \in Need(op, i, 0, 0) \cap Claim(op, i, 0, 0)
             /\ op \in {"CALCU", "INITP", "CALCP"} => UF \in Free(op, i, 0, 0)
             /\ op # "CALCU" => SF(0) \in Free(op, i, 0, 0)
  BY DEF MatrixOps, Free, Need, Claim, UF, SF, AlphaF, YF, KFaF, KFaRF, NSvF, SigF,
         GF, BNomF, IdxSsF, SigSsF, SprF, WSqrtFs, WAccSqrtFs, SprFs
<1> QED
  BY <1>1, <1>2 DEF Locks

\* What CALCU writes the others do not use but for INITP and CALCP, and what
\* they write it does not use.
LEMMA CalcuApart ==
  ASSUME NEW op \in MatrixOps \ {"CALCU", "INITP", "CALCP"}, NEW i, NEW j
  PROVE  /\ Writes("CALCU", i, 0, 0) \cap Touches(op, j) = {}
         /\ Writes(op, j, 0, 0) \cap Touches("CALCU", i) = {}
BY DEF MatrixOps, Touches, Reads, Writes, UF, SF, AlphaF, YF, KFaF, KFaRF, NSvF,
       SigF, GF, BNomF, IdxSsF, SigSsF, SprF, WSqrtFs, WAccSqrtFs, SprFs

\* Any sequence of the operations on a matrix, with any units (two for the
\* first property): the flags are given back, and nobody disturbs anybody.
THEOREM MatrixSound ==
  ASSUME OneSubset, ProgOps \subseteq MatrixOps
  PROVE  /\ NFu >= 2 => (Spec => []FlagsOwned)
         /\ Spec => []NoDataHazard
<1>1. ASSUME NFu >= 2 PROVE EnoughUnits
  <2> DEFINE T == {UF, SF(0)}
  <2>1. IsFiniteSet(T) /\ Cardinality(T) <= 2
    <3>1. IsFiniteSet({UF}) /\ Cardinality({UF}) = 1
      BY FS_Singleton
    <3>2. /\ IsFiniteSet({UF} \cup {SF(0)})
          /\ Cardinality({UF} \cup {SF(0)}) \in {1, 2}
      <4>1. PICK S : S = {UF}
        OBVIOUS
      <4>2. IsFiniteSet(S \cup {SF(0)})
              /\ Cardinality(S \cup {SF(0)}) \in {Cardinality(S), Cardinality(S) + 1}
        BY <3>1, <4>1, FS_AddElement
      <4> QED
        BY ONLY <3>1, <4>1, <4>2
    <3>3. T = {UF} \cup {SF(0)}
      OBVIOUS
    <3> HIDE DEF T
    <3>4. IsFiniteSet(T) /\ Cardinality(T) \in {1, 2}
      BY ONLY <3>2, <3>3
    <3> QED
      BY ONLY <3>4
  <2>2. \A op \in ProgOps : \A i \in Rows : Free(op, i, 0, 0) \cap T # {}
    BY MatrixLocks
  <2>3. T \in SUBSET Locks
    BY MatrixLocks
  <2>4. Cardinality(T) <= NFu
    BY <1>1, <2>1, FS_CardinalityType
  <2> QED
    BY <2>1, <2>2, <2>3, <2>4 DEF EnoughUnits
<1>2. Serialised
  <2> SUFFICES ASSUME NEW p \in ProgOps, NEW q \in ProgOps, NEW i \in Rows, NEW j \in Rows,
                      Writes(p, i, 0, 0) \cap Touches(q, j) # {}
               PROVE  Locks \cap Free(p, i, 0, 0) \cap Free(q, j, 0, 0) # {}
    BY DEF Serialised
  <2>1. CASE p # "CALCU" /\ q # "CALCU"
    BY <2>1, MatrixLocks
  <2>2. CASE p = "CALCU" \/ q = "CALCU"
    <3>1. {p, q} \subseteq {"CALCU", "INITP", "CALCP"}
      BY <2>2, CalcuApart
    <3> QED
      BY <3>1, MatrixLocks
  <2> QED
    BY <2>1, <2>2
<1> QED
  BY <1>1, <1>2, FlagsOwnedHolds, NoDataHazardHolds
=============================================================================
