----------------------------- MODULE FlatMemory -----------------------------
(***************************************************************************)
(* What the CPU expects of its memory port: the bytes of the program file, *)
(* little endian, each at its own address.  An address outside the file    *)
(* reads as zero and keeps nothing that is stored there.                   *)
(***************************************************************************)
EXTENDS Integers, Sequences

CONSTANTS
  Words,  \* the words stored: functions from 0 .. 3 to bytes
  Sizes,  \* bytes of an access
  Addrs   \* the byte addresses

VARIABLES
  file,    \* the program file: a sequence of [addr, data], data one of words
  loaded,  \* the file has been read
  bytes    \* what each address reads as

fmVars == <<file, loaded, bytes>>

Holds(blk, a) == a \in blk.addr .. blk.addr + 4 * Len(blk.data) - 1
Inside(a)     == \E i \in DOMAIN file : Holds(file[i], a)

FMInit ==
  /\ loaded = FALSE
  /\ bytes = [a \in Addrs |-> 0]

\* The file may be written until it is loaded.
FMWrite == ~loaded /\ UNCHANGED <<loaded, bytes>>

FMLoad ==
  /\ ~loaded /\ loaded' = TRUE
  /\ bytes' = [a \in Addrs |->
       IF ~Inside(a) THEN 0
       ELSE LET blk == file[CHOOSE i \in DOMAIN file : Holds(file[i], a)]
            IN blk.data[(a - blk.addr) \div 4 + 1][a % 4]]
  /\ UNCHANGED file

FMStore(s, a, d) ==
  /\ loaded /\ a % s = 0
  /\ bytes' = [b \in Addrs |->
       IF Inside(b) /\ b - a \in 0 .. s - 1 THEN d[b - a] ELSE bytes[b]]
  /\ UNCHANGED <<file, loaded>>

FMNext ==
  \/ FMWrite
  \/ FMLoad
  \/ \E s \in Sizes : \E a \in Addrs : \E d \in Words : FMStore(s, a, d)

FMSpec == FMInit /\ [][FMNext]_fmVars
============================================================================
