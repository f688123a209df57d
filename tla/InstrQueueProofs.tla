-------------------------- MODULE InstrQueueProofs --------------------------
(***************************************************************************)
(* queue<T> is a bounded FIFO for every size, every cursor width and every *)
(* type of value: the wrap of the cursors is never seen.                   *)
(***************************************************************************)
EXTENDS InstrQueue, TLAPS

USE QueueAssumption

\* The number of values between the cursors.
Count == (tail - head) % W

----------------------------------------------------------------------------
(* Remainders.                                                             *)

\* Quotient and remainder.
LEMMA DivMod ==
  ASSUME NEW n \in Nat \ {0}, NEW a \in Int
  PROVE  /\ a = n * (a \div n) + (a % n)
         /\ a \div n \in Int /\ a % n \in 0 .. n - 1
BY SMT

\* The remainder of a multiple and a rest.
LEMMA ModUnique ==
  ASSUME NEW n \in Nat \ {0}, NEW d \in Int, NEW r \in 0 .. n - 1
  PROVE  (n * d + r) % n = r
BY SMT

\* A remainder does not see a multiple of its modulus.
LEMMA ModShift ==
  ASSUME NEW n \in Nat \ {0}, NEW a \in Int, NEW d \in Int
  PROVE  (a + n * d) % n = a % n
<1> DEFINE e == a \div n
           r == a % n
<1>1. a = n * e + r /\ e \in Int /\ r \in 0 .. n - 1
  BY DivMod
<1> HIDE DEF e, r
<1>2. a + n * d = n * (e + d) + r /\ e + d \in Int
  BY ONLY <1>1, n \in Nat, d \in Int, SMT
<1>3. (a + n * d) % n = r
  BY ONLY <1>1, <1>2, n \in Nat \ {0}, ModUnique
<1> QED
  BY <1>3 DEF r

\* Two numbers less than n apart have different remainders.
LEMMA ModApart ==
  ASSUME NEW n \in Nat \ {0}, NEW a \in Int, NEW b \in Int,
         a < b, b < a + n
  PROVE  a % n # b % n
<1> DEFINE da == a \div n
           db == b \div n
<1>1. /\ a = n * da + (a % n) /\ b = n * db + (b % n)
      /\ da \in Int /\ db \in Int /\ a % n \in Int /\ b % n \in Int
  BY DivMod
<1> SUFFICES ASSUME a % n = b % n PROVE FALSE
  OBVIOUS
<1> HIDE DEF da, db
<1>2. b - a = n * (db - da)
  BY <1>1, SMT
<1>3. CASE db - da <= 0
  BY <1>1, <1>2, <1>3, SMT
<1>4. CASE db - da >= 1
  BY <1>1, <1>2, <1>4, SMT
<1> QED
  BY <1>1, <1>3, <1>4

\* The wrap of a cursor does not move its slot, because Size divides W.
LEMMA WrapSlot ==
  ASSUME NEW x \in Int, NEW y \in Nat
  PROVE  ((x % W) + y) % Size = (x + y) % Size
<1>1. W \in Nat \ {0} /\ Size \in Nat \ {0}
  OBVIOUS
<1> DEFINE m == W \div Size
           d == x \div W
           z == x % W
<1>2. W = Size * m + (W % Size) /\ W % Size = 0 /\ m \in Int
  BY DivMod, <1>1
<1>3. x = W * d + z /\ d \in Int /\ z \in 0 .. W - 1
  BY DivMod, <1>1
<1> HIDE DEF m, d, z
<1>4. W * d = Size * (m * d) /\ m * d \in Int
  BY ONLY <1>1, <1>2, <1>3, SMT
<1>5. z + y \in Int /\ x + y = (z + y) + Size * (m * d)
  BY ONLY <1>1, <1>3, <1>4, y \in Nat, SMT
<1>6. (x + y) % Size = (z + y) % Size
  BY ONLY <1>1, <1>4, <1>5, ModShift
<1> QED
  BY <1>6 DEF z

COROLLARY WrapSlotAlone ==
  ASSUME NEW x \in Int PROVE (x % W) % Size = x % Size
<1>1. PICK y \in Nat : y = 0
  OBVIOUS
<1>2. ((x % W) + y) % Size = (x + y) % Size
  BY ONLY WrapSlot, x \in Int, y \in Nat
<1> QED
  BY <1>1, <1>2, DivMod

----------------------------------------------------------------------------
(* The cursors.                                                            *)

\* The C expressions with int and uint32_t give the number of values and the
\* entries that are left, negated.
LEMMA Differences ==
  ASSUME CursorsOK
  PROVE  Used = Count /\ Slack = Count - Size /\ Count \in 0 .. Size
<1>1. Count \in 0 .. Size /\ tail - head \in Int /\ W \in Nat \ {0}
  BY DEF CursorsOK, Count, Cursors
<1>2. Used = Count
  BY <1>1 DEF Used, ToInt, Count
<1>3. (Count - Size) % W = IF Count = Size THEN 0 ELSE Count - Size + W
  BY <1>1, SMT
<1>4. Slack = Count - Size
  BY <1>1, <1>2, <1>3, SMT DEF Slack, ToInt
<1> QED
  BY <1>1, <1>2, <1>4

\* A cursor that moves on changes the number of values by one.
LEMMA Bumped ==
  ASSUME NEW h \in Cursors, NEW t \in Cursors
  PROVE  /\ Bump(t) \in Cursors
         /\ ((t - h) % W) + 1 < W => (Bump(t) - h) % W = ((t - h) % W) + 1
         /\ (t - h) % W > 0 => (t - Bump(h)) % W = ((t - h) % W) - 1
BY SMT DEF Bump, Cursors

\* An empty queue.
LEMMA CursorsInit == Init => CursorsOK
<1> SUFFICES ASSUME Init PROVE CursorsOK
  OBVIOUS
<1>1. head \in Cursors /\ tail \in Cursors /\ (tail - head) % W = 0
  BY SMT DEF Init, Cursors
<1>2. res \in [ok : BOOLEAN, val : Vals]
  BY DEF Init
<1> QED
  BY <1>1, <1>2 DEF Init, CursorsOK

\* enqueue and dequeue move one cursor by one, and not past the other.
LEMMA CursorsStep == CursorsOK /\ [Next]_qVars => CursorsOK'
<1> SUFFICES ASSUME CursorsOK, [Next]_qVars PROVE CursorsOK'
  OBVIOUS
<1>1. /\ Used = Count /\ Slack = Count - Size /\ Count \in 0 .. Size
      /\ head \in Cursors /\ tail \in Cursors /\ q \in [Slots -> Vals]
      /\ res \in [ok : BOOLEAN, val : Vals]
  BY Differences DEF CursorsOK
<1>2. tail % Size \in Slots /\ head % Size \in Slots
  BY <1>1 DEF Cursors, Slots
<1>3. ASSUME NEW v \in Vals, EnqueueOk(v) PROVE CursorsOK'
  <2>1. Bump(tail) \in Cursors /\ (Bump(tail) - head) % W = Count + 1 /\ Count < Size
    BY <1>1, <1>3, Bumped DEF EnqueueOk, Room, Count
  <2>2. q' \in [Slots -> Vals] /\ res' \in [ok : BOOLEAN, val : Vals]
    BY <1>1, <1>2, <1>3 DEF EnqueueOk, Returns
  <2>3. tail' = Bump(tail) /\ head' = head
    BY <1>3 DEF EnqueueOk
  <2>4. Count + 1 \in 0 .. Size
    BY <1>1, <2>1
  <2> QED
    BY <1>1, <2>1, <2>2, <2>3, <2>4 DEF CursorsOK
<1>4. CASE DequeueOk
  <2>1. Bump(head) \in Cursors /\ (tail - Bump(head)) % W = Count - 1 /\ Count > 0
    BY <1>1, <1>4, Bumped DEF DequeueOk, Count
  <2>2. q[head % Size] \in Vals
    BY <1>1, <1>2
  <2> QED
    BY <1>1, <1>4, <2>1, <2>2 DEF DequeueOk, CursorsOK
<1>5. ASSUME NEW b \in BOOLEAN, Returns(b), UNCHANGED <<head, tail, q>>
      PROVE  CursorsOK'
  BY <1>1, <1>5 DEF Returns, CursorsOK
<1>6. CASE EnqueueFull \/ DequeueEmpty
  BY <1>5, <1>6 DEF EnqueueFull, DequeueEmpty
<1>7. CASE AskFull \/ AskEmpty
  <2>1. IsFull \in BOOLEAN /\ IsEmpty \in BOOLEAN
    BY DEF IsFull, IsEmpty
  <2> QED
    BY <1>5, <1>7, <2>1 DEF AskFull, AskEmpty
<1>8. CASE UNCHANGED qVars
  BY <1>1, <1>8 DEF qVars, CursorsOK
<1> QED
  BY <1>3, <1>4, <1>6, <1>7, <1>8 DEF Next

\* The cursors stay in their width and at most Size apart for ever.
THEOREM CursorsHold == Spec => []CursorsOK
BY CursorsInit, CursorsStep, PTL DEF Spec

----------------------------------------------------------------------------
(* The values between the cursors.                                         *)

\* A run of slots read off the buffer is a sequence of values.
LEMMA SlotsSeq ==
  ASSUME NEW n \in Nat, NEW h \in Nat, NEW b \in [Slots -> Vals]
  PROVE  [i \in 1 .. n |-> b[(h + i - 1) % Size]] \in [1 .. n -> Vals]
<1>1. ASSUME NEW i \in 1 .. n PROVE (h + i - 1) % Size \in Slots
  <2> DEFINE a == h + i - 1
  <2>1. a \in Int
    OBVIOUS
  <2> HIDE DEF a
  <2>2. a % Size \in Slots
    BY <2>1, DivMod DEF Slots
  <2> QED
    BY <2>2 DEF a
<1>2. \A i \in 1 .. n : b[(h + i - 1) % Size] \in Vals
  BY <1>1
<1> QED
  BY <1>2

\* What lies between the cursors is a sequence.
LEMMA IsSeq ==
  ASSUME NEW n \in Nat, NEW s \in [1 .. n -> Vals]
  PROVE  s \in Seq(Vals) /\ Len(s) = n
OBVIOUS

\* enqueue writes the slot behind the last value and disturbs none of them.
LEMMA EnqueueAppends ==
  ASSUME CursorsOK, NEW v \in Vals, EnqueueOk(v)
  PROVE  Items' = Append(Items, v) /\ Len(Items) < Size
<1>1. /\ Count \in 0 .. Size - 1 /\ Count' = Count + 1 /\ head' = head
      /\ head \in Nat /\ tail \in Nat /\ q \in [Slots -> Vals]
  <2>1. Slack = Count - Size /\ Count \in 0 .. Size
    BY Differences
  <2> QED
    BY <2>1, Bumped DEF EnqueueOk, Room, Count, CursorsOK, Cursors
<1>2. tail % Size = (head + Count) % Size
  <2>1. tail = (head + Count) % W
    BY <1>1, SMT DEF Count, CursorsOK, Cursors
  <2> DEFINE x == head + Count
  <2>2. x \in Int /\ tail = x % W
    BY <1>1, <2>1
  <2> HIDE DEF x
  <2>3. (x % W) % Size = x % Size
    BY ONLY <2>2, WrapSlotAlone
  <2> QED
    BY <2>2, <2>3 DEF x
<1>3. q' = [q EXCEPT ![(head + Count) % Size] = v] /\ (head + Count) % Size \in Slots
  <2>1. tail % Size \in Slots
    BY <1>1, DivMod DEF Slots
  <2>2. q' = [q EXCEPT ![tail % Size] = v]
    BY DEF EnqueueOk
  <2> QED
    BY <1>2, <2>1, <2>2
<1>4. ASSUME NEW i \in 1 .. Count
      PROVE  q'[(head + i - 1) % Size] = q[(head + i - 1) % Size]
  <2> DEFINE a == head + i - 1
             b == head + Count
  <2>1. a \in Int /\ b \in Int /\ a < b /\ b < a + Size
    BY <1>1
  <2>2. a % Size \in Slots
    BY <2>1 DEF Slots
  <2> HIDE DEF a, b
  <2>3. a % Size # b % Size
    BY ONLY <2>1, ModApart, Size \in Nat \ {0}
  <2> QED
    BY <1>1, <1>3, <2>2, <2>3 DEF a, b
<1> DEFINE s == [i \in 1 .. Count |-> q[(head + i - 1) % Size]]
           s2 == [i \in 1 .. Count + 1 |-> q'[(head + i - 1) % Size]]
<1>5. Items = s /\ Items' = s2
  BY <1>1 DEF Items, Count
<1>6. s \in Seq(Vals) /\ Len(s) = Count
  <2>1. s \in [1 .. Count -> Vals] /\ Count \in Nat
    BY <1>1, SlotsSeq
  <2> QED
    BY ONLY <2>1, IsSeq
<1>7. q' \in [Slots -> Vals]
  BY <1>1, <1>3
<1>8. s2 \in Seq(Vals) /\ Len(s2) = Count + 1
  <2> DEFINE n == Count + 1
  <2>1. n \in Nat
    BY <1>1
  <2> HIDE DEF n
  <2>2. [i \in 1 .. n |-> q'[(head + i - 1) % Size]] \in [1 .. n -> Vals]
    BY <1>1, <1>7, <2>1, SlotsSeq
  <2>3. s2 \in [1 .. n -> Vals]
    BY <2>2 DEF n
  <2>4. s2 \in Seq(Vals) /\ Len(s2) = n
    BY ONLY <2>1, <2>3, IsSeq
  <2> QED
    BY <2>4 DEF n
<1>9. \A i \in 1 .. Count : s2[i] = s[i]
  BY <1>1, <1>4
<1>10. s2[Count + 1] = v
  BY <1>1, <1>3
<1> HIDE DEF s, s2
<1>11. s2 = Append(s, v)
  BY ONLY <1>1, <1>6, <1>8, <1>9, <1>10, v \in Vals
<1> QED
  BY <1>1, <1>5, <1>6, <1>11

\* dequeue takes the oldest value and moves the others up by one.
LEMMA DequeueTakes ==
  ASSUME CursorsOK, DequeueOk
  PROVE  /\ Items # <<>>
         /\ q[head % Size] = Head(Items) /\ Items' = Tail(Items)
<1>1. /\ Count \in 1 .. Size /\ Count' = Count - 1 /\ head' = (head + 1) % W
      /\ q' = q /\ head \in Nat /\ q \in [Slots -> Vals]
  <2>1. Used = Count /\ Count \in 0 .. Size
    BY Differences
  <2> QED
    BY <2>1, Bumped DEF DequeueOk, Bump, Count, CursorsOK, Cursors
<1>2. head' \in Nat
  BY <1>1
<1>3. ASSUME NEW i \in 1 .. Count - 1
      PROVE  (head' + i - 1) % Size = (head + i) % Size
  <2> DEFINE x == head + 1
             y == i - 1
  <2>1. x \in Int /\ y \in Nat /\ x + y = head + i /\ head' = x % W
    BY <1>1
  <2>2. head' + i - 1 = (x % W) + y
    BY <1>2, <2>1
  <2> HIDE DEF x, y
  <2>3. ((x % W) + y) % Size = (x + y) % Size
    BY ONLY <2>1, WrapSlot
  <2> QED
    BY <2>1, <2>2, <2>3
<1> DEFINE s == [i \in 1 .. Count |-> q[(head + i - 1) % Size]]
           s2 == [i \in 1 .. Count - 1 |-> q[(head' + i - 1) % Size]]
<1>4. Items = s /\ Items' = s2
  BY <1>1 DEF Items, Count
<1>5. s \in Seq(Vals) /\ Len(s) = Count
  <2>1. s \in [1 .. Count -> Vals] /\ Count \in Nat
    BY <1>1, SlotsSeq
  <2> QED
    BY ONLY <2>1, IsSeq
<1>6. s2 \in Seq(Vals) /\ Len(s2) = Count - 1
  <2> DEFINE n == Count - 1
  <2>5. q \in [Slots -> Vals]
    BY <1>1
  <2>1. n \in Nat
    BY <1>1
  <2> HIDE DEF n
  <2>2. [i \in 1 .. n |-> q[(head' + i - 1) % Size]] \in [1 .. n -> Vals]
    BY ONLY <1>2, <2>1, <2>5, SlotsSeq
  <2>3. s2 \in [1 .. n -> Vals]
    BY <2>2 DEF n
  <2>4. s2 \in Seq(Vals) /\ Len(s2) = n
    BY ONLY <2>1, <2>3, IsSeq
  <2> QED
    BY <2>4 DEF n
<1>7. \A i \in 1 .. Count - 1 : s2[i] = s[i + 1]
  BY <1>1, <1>3
<1>8. s[1] = q[head % Size]
  BY <1>1
<1> HIDE DEF s, s2
<1>9. s2 = Tail(s) /\ Head(s) = s[1] /\ s # <<>>
  BY ONLY <1>1, <1>5, <1>6, <1>7
<1> QED
  BY <1>4, <1>8, <1>9

\* No value waits exactly when the cursors are equal.
LEMMA ItemsLen ==
  ASSUME CursorsOK
  PROVE  Len(Items) = Count /\ (Items = <<>> <=> Count = 0) /\ Count \in 0 .. Size
<1>1. Count \in 0 .. Size /\ head \in Nat /\ q \in [Slots -> Vals]
  BY Differences DEF CursorsOK, Cursors
<1> DEFINE s == [i \in 1 .. Count |-> q[(head + i - 1) % Size]]
<1>2. s \in Seq(Vals) /\ Len(s) = Count
  <2>1. s \in [1 .. Count -> Vals] /\ Count \in Nat
    BY <1>1, SlotsSeq
  <2> QED
    BY ONLY <2>1, IsSeq
<1>3. Items = s
  BY DEF Items, Count
<1> HIDE DEF s
<1>4. s = <<>> <=> Len(s) = 0
  BY ONLY <1>2
<1> QED
  BY <1>1, <1>2, <1>3, <1>4

----------------------------------------------------------------------------
(* The refinement.                                                         *)

\* The empty queue is the empty FIFO.
LEMMA FifoInit == Init => Fifo!BFInit
<1> SUFFICES ASSUME Init PROVE Fifo!BFInit
  OBVIOUS
<1>1. CursorsOK
  BY CursorsInit
<1>2. Count = 0
  BY SMT DEF Init, Count
<1> QED
  BY <1>1, <1>2, ItemsLen DEF Init, Fifo!BFInit

\* A call of the queue is the call of the FIFO, with the same outcome.
LEMMA FifoStep == CursorsOK /\ [Next]_qVars => [Fifo!BFNext]_(Fifo!bfVars)
<1> SUFFICES ASSUME CursorsOK, [Next]_qVars
    PROVE  Fifo!BFNext \/ UNCHANGED <<Items, res>>
  BY DEF Fifo!bfVars
<1>1. /\ Used = Count /\ Slack = Count - Size /\ Count \in 0 .. Size
      /\ Len(Items) = Count /\ (Items = <<>> <=> Count = 0)
  BY Differences, ItemsLen
<1>2. ASSUME NEW v \in Vals, EnqueueOk(v) PROVE Fifo!Put(v)
  BY <1>2, EnqueueAppends DEF EnqueueOk, Returns, Fifo!Put
<1>3. CASE DequeueOk
  <2>1. Fifo!Get
    BY <1>3, DequeueTakes DEF DequeueOk, Fifo!Get
  <2> QED
    BY <2>1 DEF Fifo!BFNext
<1>4. UNCHANGED <<head, tail, q>> => UNCHANGED Items
  BY DEF Items
<1>5. CASE EnqueueFull
  <2>1. Fifo!Refuse
    BY <1>1, <1>4, <1>5 DEF EnqueueFull, Room, Returns, Fifo!Refuse, Fifo!Answer
  <2> QED
    BY <2>1 DEF Fifo!BFNext
<1>6. CASE DequeueEmpty
  <2>1. Fifo!GiveNone
    BY <1>1, <1>4, <1>6 DEF DequeueEmpty, Returns, Fifo!GiveNone, Fifo!Answer
  <2> QED
    BY <2>1 DEF Fifo!BFNext
<1>7. CASE AskFull
  <2>1. IsFull <=> Len(Items) = Size
    BY <1>1 DEF IsFull
  <2>2. Fifo!AskFull
    BY <1>4, <1>7, <2>1 DEF AskFull, Returns, Fifo!AskFull, Fifo!Answer
  <2> QED
    BY <2>2 DEF Fifo!BFNext
<1>8. CASE AskEmpty
  <2>1. IsEmpty <=> Items = <<>>
    BY <1>1 DEF IsEmpty
  <2>2. Fifo!AskEmpty
    BY <1>4, <1>8, <2>1 DEF AskEmpty, Returns, Fifo!AskEmpty, Fifo!Answer
  <2> QED
    BY <2>2 DEF Fifo!BFNext
<1>9. CASE UNCHANGED qVars
  BY <1>4, <1>9 DEF qVars
<1> QED
  BY <1>2, <1>3, <1>5, <1>6, <1>7, <1>8, <1>9 DEF Next, Fifo!BFNext

\* queue<T> implements the bounded FIFO, whatever its size and its cursors'
\* width.
THEOREM FifoHolds == Spec => ImplementsFifo
BY CursorsHold, FifoInit, FifoStep, PTL DEF Spec, ImplementsFifo, Fifo!BFSpec
============================================================================
