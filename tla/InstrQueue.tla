----------------------------- MODULE InstrQueue -----------------------------
(***************************************************************************)
(* queue<T> (model/include/queue.hpp), the type of the instruction queue   *)
(* and of the operand queue: two uint32 cursors that run freely and wrap,  *)
(* and a buffer indexed with cursor & mask.  The CPU thread enqueues, the  *)
(* decoder thread dequeues; a call has no wait in it, so it is one step.   *)
(***************************************************************************)
EXTENDS Integers, Sequences

CONSTANTS
  Vals,  \* the values queued
  Size,  \* _size, the number of entries; _mask is Size - 1
  W      \* the number of values of a cursor (2^32)

\* Size is a power of two (16, and W is 2^32), so cursor & mask is cursor %
\* Size; a difference of cursors fits an int.
ASSUME QueueAssumption ==
  /\ Size \in Nat \ {0} /\ W \in Nat
  /\ W % Size = 0
  /\ 2 * Size < W

VARIABLES head, tail, q, res

qVars == <<head, tail, q, res>>

Slots   == 0 .. Size - 1
Cursors == 0 .. W - 1

\* The buffer and the caller's variable have no initial value.
Init ==
  /\ head = 0 /\ tail = 0
  /\ q \in [Slots -> Vals]
  /\ res \in [ok : {FALSE}, val : Vals]

----------------------------------------------------------------------------
\* A uint32 assigned to an int.
ToInt(x) == IF 2 * (x % W) < W THEN x % W ELSE (x % W) - W

\* int i = _tail - _head;  then  i -= _size
Used  == ToInt(tail - head)
Slack == ToInt(Used - Size)

IsFull  == Slack >= 0
IsEmpty == Used <= 0

Returns(b) == res' = [res EXCEPT !.ok = b]

\* Mutant: the last entry is not checked for.
RoomUnlimited == TRUE

\* enqueue's own test: not >= 0 but # 0.
Room == Slack # 0

\* Mutant: the cursor is cut to the buffer, not to its width.
NextMasked(c) == (c + 1) % Size

Bump(c) == (c + 1) % W

EnqueueOk(v) ==
  /\ Room
  /\ q' = [q EXCEPT ![tail % Size] = v]
  /\ tail' = Bump(tail)
  /\ Returns(TRUE)
  /\ UNCHANGED head

EnqueueFull == ~Room /\ Returns(FALSE) /\ UNCHANGED <<head, tail, q>>

DequeueOk ==
  /\ Used # 0
  /\ res' = [ok |-> TRUE, val |-> q[head % Size]]
  /\ head' = Bump(head)
  /\ UNCHANGED <<tail, q>>

DequeueEmpty == Used = 0 /\ Returns(FALSE) /\ UNCHANGED <<head, tail, q>>

AskFull  == Returns(IsFull) /\ UNCHANGED <<head, tail, q>>
AskEmpty == Returns(IsEmpty) /\ UNCHANGED <<head, tail, q>>

Next ==
  \/ \E v \in Vals : EnqueueOk(v)
  \/ EnqueueFull \/ DequeueOk \/ DequeueEmpty \/ AskFull \/ AskEmpty

Spec == Init /\ [][Next]_qVars

----------------------------------------------------------------------------
(* Properties.                                                             *)

\* The cursors keep to their width and are never more than Size apart, also
\* after they have wrapped: what enqueue's test for equality relies on.
CursorsOK ==
  /\ head \in Cursors /\ tail \in Cursors
  /\ q \in [Slots -> Vals]
  /\ res \in [ok : BOOLEAN, val : Vals]
  /\ (tail - head) % W \in 0 .. Size

\* The values between the cursors, oldest first.
Items == [i \in 1 .. (tail - head) % W |-> q[(head + i - 1) % Size]]

Fifo == INSTANCE BoundedFifo WITH items <- Items

\* The queue is a bounded FIFO to its callers, across every wrap of the
\* cursors, and is_full, is_empty, enqueue and dequeue agree on when it is
\* full and when it is empty.
ImplementsFifo == Fifo!BFSpec
============================================================================
