----------------------------- MODULE IssueOrder -----------------------------
(***************************************************************************)
(* What the coprocessor promises a program about the instructions that it  *)
(* queues: each is taken up once, in the order it was issued, by a unit    *)
(* that is free at that moment; only a word without operation is dropped.  *)
(***************************************************************************)
EXTENDS Sequences

CONSTANTS Units, Words, Drops, None   \* Drops: the words without operation

VARIABLES pending, run

ioVars == <<pending, run>>

IOInit == pending = <<>> /\ run = [u \in Units |-> None]

Accept(x) == pending' = Append(pending, x) /\ UNCHANGED run

Take == pending # <<>> /\ pending' = Tail(pending)

Dispatch(u) ==
  /\ Take
  /\ run[u] = None
  /\ run' = [run EXCEPT ![u] = Head(pending)]

Drop == Take /\ Head(pending) \in Drops /\ UNCHANGED run

Complete(u) ==
  /\ run[u] # None
  /\ run' = [run EXCEPT ![u] = None]
  /\ UNCHANGED pending

IONext ==
  \/ \E x \in Words : Accept(x)
  \/ \E u \in Units : Dispatch(u) \/ Complete(u)
  \/ Drop

IOSpec == IOInit /\ [][IONext]_ioVars
============================================================================
