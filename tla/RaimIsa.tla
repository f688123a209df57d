------------------------------ MODULE RaimIsa ------------------------------
(***************************************************************************)
(* The instruction set of the RPU (COP2) as the coprocessor decodes it     *)
(* (model/include/isa.h, model/src/raim_cop.cpp), and its scoreboard: which *)
(* busy flags of rpu_regs_status_t an instruction tests, clears and sets   *)
(* again, and which registers of rpu_regs_t it reads and writes.           *)
(*                                                                         *)
(* Everything here is a constant-level operator, so that the coprocessor   *)
(* (RaimCop) and the proofs use the same definitions.                      *)
(***************************************************************************)
EXTENDS Integers

CONSTANTS
  NSvMax,  \* RAIM_N_SV_MAX, satellite vehicles (16 in raim_cop.h)
  NSsMax   \* RAIM_N_SS_MAX, subsets, all-in-view included (17 in raim_cop.h)

ASSUME SizeAssumption == NSvMax \in Nat \ {0} /\ NSsMax \in Nat \ {0}

SvIdx == 0 .. NSvMax - 1
SsIdx == 0 .. NSsMax - 1

----------------------------------------------------------------------------
(* Opcodes, formats and condition flags.                                   *)

Ops == {"NEWSV", "CALCU", "INITP", "CALCP", "WLS", "MULY", "MOVD", "POSVAR",
        "BIAS", "CALCSS", "SSVAR", "NEWSS", "TSTG", "TSTL"}

\* "BAD" stands for every encoding that no case of the decoder's switch takes.
OpCodes == Ops \cup {"NOP", "BAD"}

\* The formats that travel through the instruction queue.
QueuedFmts == {"NONE", "MT", "CP", "BAD"}

\* RST, CLRC, MF and BC never enter the queue: execute handles them in place.
Flags == {"FULL", "FD", "FL", "MC"}
Conds == Flags \cup {"OKAY"}

\* Operations on the current subset, whose CP form carries 4 * subset in rt.
SubsetOps == {"INITP", "CALCP", "WLS", "MULY", "MOVD", "POSVAR", "BIAS",
              "CALCSS", "SSVAR", "TSTG"}

----------------------------------------------------------------------------
(* Busy flags.  A flag is a pair <<register, index>>.  The four flags      *)
(* sig_tropo2 .. sig_ure2, the 16 of G and the 16 of b_nom are each tested, *)
(* cleared and set together everywhere, and are one flag here.             *)

AlphaF == <<"alpha0", 0>>
YF     == <<"y", 0>>
UF     == <<"u", 0>>
KFaF   == <<"k_fa", 0>>
KFaRF  == <<"k_fa_r", 0>>
NSvF   == <<"N_sv", 0>>
SigF   == <<"sig", 0>>
GF     == <<"G", 0>>
BNomF  == <<"b_nom", 0>>
SF(k)     == <<"s", k>>
IdxSsF(k) == <<"idx_ss", k>>
SigSsF(k) == <<"sig_ssq2", k>>
SprF(d)   == <<"spr", d>>

WSqrtFs    == {"w_sqrt"} \X SvIdx
WAccSqrtFs == {"w_acc_sqrt"} \X SvIdx
SprFs      == {"spr"} \X SvIdx

Loc == {AlphaF, YF, UF, KFaF, KFaRF, NSvF, SigF, GF, BNomF}
         \cup WSqrtFs \cup WAccSqrtFs \cup SprFs
         \cup ({"s", "idx_ss", "sig_ssq2"} \X SsIdx)

\* w_sqrt, w_acc_sqrt and u lie next to one another in the struct, and NEWSV
\* indexes both arrays with N_sv, which saturates one past their end.
WSqrtF(i)    == IF i < NSvMax THEN <<"w_sqrt", i>> ELSE <<"w_acc_sqrt", 0>>
WAccSqrtF(i) == IF i < NSvMax THEN <<"w_acc_sqrt", i>> ELSE UF

\* The flags that the decoder tests one by one.
Need(op, i, k, d) ==
  CASE op = "NEWSV"  -> {SigF, WSqrtF(i), WAccSqrtF(i), NSvF}
    [] op = "CALCU"  -> {UF}
    [] op = "INITP"  -> {UF, AlphaF, SF(k)}
    [] op = "CALCP"  -> {UF, SF(k), IdxSsF(k)}
    [] op = "MULY"   -> {SF(k), YF}
    [] op = "CALCSS" -> {SF(k), SF(0)}           \* ss_k_aiv is never written
    [] op = "TSTG"   -> {SprF(d), SigSsF(k), KFaF}
    [] op = "TSTL"   -> {YF, KFaRF}
    [] op \in {"WLS", "MOVD", "POSVAR", "SSVAR", "BIAS"} -> {SF(k)}
    [] OTHER -> {}

\* The arrays that the decoder passes to all_true ...
NeedAll(op) ==
  CASE op = "CALCU" -> {GF} \cup WSqrtFs
    [] op \in {"WLS", "POSVAR", "TSTL"} -> WSqrtFs
    [] op \in {"CALCP", "MOVD"} -> SprFs
    [] op = "SSVAR" -> WAccSqrtFs
    [] op = "BIAS" -> {BNomF}
    [] OTHER -> {}

\* ... which tests the array's address, never an element: always true.
AllTrue(status, arr) == TRUE

\* The flags that the decoder clears when it decides to issue.  POSVAR sets
\* s[k], which it has just found set, where its siblings clear it.
Claim(op, i, k, d) ==
  CASE op = "NEWSV"  -> {SigF, WSqrtF(i), WAccSqrtF(i), NSvF}
    [] op = "CALCU"  -> {UF, GF} \cup WSqrtFs
    [] op = "INITP"  -> {UF, AlphaF, SF(k)}
    [] op = "CALCP"  -> {UF, SF(k), IdxSsF(k)} \cup SprFs
    [] op = "WLS"    -> {SF(k)} \cup WSqrtFs
    [] op = "MULY"   -> {SF(k), YF}
    [] op = "MOVD"   -> {SF(k)} \cup SprFs
    [] op = "POSVAR" -> WSqrtFs
    [] op = "SSVAR"  -> {SF(k)} \cup WAccSqrtFs
    [] op = "BIAS"   -> {SF(k), BNomF}
    [] op = "CALCSS" -> {SF(k), SF(0)}
    [] op = "TSTG"   -> {SprF(d), SigSsF(k), KFaF}
    [] op = "TSTL"   -> {YF, KFaRF} \cup WSqrtFs
    [] OTHER -> {}

\* The flags that the functional unit sets when it has finished.
Free(op, i, k, d) ==
  CASE op = "NEWSV"  -> {SigF, WSqrtF(i), WAccSqrtF(i), NSvF}
    [] op = "CALCU"  -> {UF, GF} \cup WSqrtFs
    [] op = "INITP"  -> {UF, AlphaF, SF(k)}
    [] op = "CALCP"  -> {UF, SF(k), IdxSsF(k)} \cup SprFs
    [] op = "WLS"    -> {SF(k)} \cup WSqrtFs
    [] op = "MULY"   -> {SF(k), YF}
    [] op = "MOVD"   -> {SF(k)} \cup SprFs
    [] op = "POSVAR" -> {SF(k)} \cup WSqrtFs
    [] op = "SSVAR"  -> {SF(k)} \cup WAccSqrtFs
    [] op = "BIAS"   -> {SF(k), BNomF}
    [] op = "CALCSS" -> {SF(k), SF(0)}
    [] op = "TSTG"   -> {SprF(d), SigSsF(k), KFaF}
    [] op = "TSTL"   -> {YF, KFaRF} \cup WSqrtFs
    [] OTHER -> {}

----------------------------------------------------------------------------
(* What the body of a functional unit touches, read off the assignments of *)
(* raim_cop_fu::main and not off the flags.                                *)

Writes(op, i, k, d) ==
  CASE op = "NEWSV"  -> {NSvF, WSqrtF(i), WAccSqrtF(i)}
    [] op = "CALCU"  -> {UF}
    [] op \in {"INITP", "WLS", "MOVD", "CALCSS"} -> {SF(k)}
    [] op = "CALCP"  -> {SF(k)} \cup SprFs
    [] op = "MULY"   -> {SprF(d)}
    [] op = "POSVAR" -> SprFs
    [] op = "SSVAR"  -> SprFs \cup {SigSsF(k)}
    [] OTHER -> {}

\* Every loop over the satellites is bounded by N_sv.
Reads(op, i, k, d) ==
  CASE op = "NEWSV"  -> {SigF}
    [] op = "CALCU"  -> {NSvF, GF} \cup WSqrtFs
    [] op = "INITP"  -> {NSvF, UF, AlphaF, IdxSsF(k)} \cup WSqrtFs
    [] op = "CALCP"  -> {NSvF, UF, IdxSsF(k)}
    [] op = "WLS"    -> {NSvF, SF(k), IdxSsF(k)} \cup WSqrtFs
    [] op = "MULY"   -> {NSvF, SF(k), YF}
    [] op = "MOVD"   -> {NSvF, IdxSsF(k)} \cup SprFs
    [] op = "POSVAR" -> {NSvF, SF(k)} \cup WSqrtFs
    [] op = "SSVAR"  -> {NSvF, SF(k)} \cup WAccSqrtFs
    [] op = "BIAS"   -> {NSvF, SF(k), IdxSsF(k), BNomF}
    [] op = "CALCSS" -> {NSvF, SF(k), SF(0)}
    [] op = "TSTG"   -> {SprF(d), SigSsF(k), KFaF}
    [] op = "TSTL"   -> {YF, KFaRF} \cup WSqrtFs
    [] OTHER -> {}
============================================================================
