---------------------------- MODULE BoundedFifo ----------------------------
(***************************************************************************)
(* What queue<T> (model/include/queue.hpp) promises its callers: a FIFO of *)
(* at most Size values that refuses a value only when it is full and gives *)
(* none only when it is empty.                                             *)
(***************************************************************************)
EXTENDS Naturals, Sequences

CONSTANTS Vals, Size

VARIABLES
  items,  \* the values that wait, oldest first
  res     \* what the last call gave its caller: ok, its result, and val, the
          \* variable that a dequeue fills

bfVars == <<items, res>>

Answer(b) == res' = [res EXCEPT !.ok = b] /\ UNCHANGED items

BFInit == items = <<>> /\ res \in [ok : {FALSE}, val : Vals]

Put(v) ==
  /\ Len(items) < Size
  /\ items' = Append(items, v)
  /\ res' = [res EXCEPT !.ok = TRUE]

Refuse == Len(items) = Size /\ Answer(FALSE)

Get ==
  /\ items # <<>>
  /\ items' = Tail(items)
  /\ res' = [ok |-> TRUE, val |-> Head(items)]

GiveNone == items = <<>> /\ Answer(FALSE)

AskFull  == Answer(Len(items) = Size)
AskEmpty == Answer(items = <<>>)

BFNext ==
  \/ \E v \in Vals : Put(v)
  \/ Refuse \/ Get \/ GiveNone \/ AskFull \/ AskEmpty

BFSpec == BFInit /\ [][BFNext]_bfVars
============================================================================
