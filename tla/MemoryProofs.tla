---------------------------- MODULE MemoryProofs ----------------------------
(***************************************************************************)
(* Theorems about Memory: the list of stretches is right, and memory is a  *)
(* flat array of bytes, for every file, table and number of stores.        *)
(***************************************************************************)
EXTENDS Memory, SequenceTheorems, FiniteSetTheorems, TLAPS

USE MemoryAssumption

----------------------------------------------------------------------------
(* What the theorems assume of the files and of the stores.                *)

BlockEnd(b)  == b.addr + 4 * Len(b.data)
InBlock(b, a) == b.addr <= a /\ a < BlockEnd(b)

\* Files as an assembler makes them: blocks of words at aligned addresses, in
\* ascending order and without overlap.
WellFormed == \A f \in Files :
  /\ f \in Seq([addr : Nat, data : Seq(Word)])
  /\ \A i \in DOMAIN f : f[i].addr % 4 = 0
  /\ \A i, j \in DOMAIN f : i < j => BlockEnd(f[i]) <= f[j].addr

\* The CPU stores 1, 2 or 4 bytes.
Values == Words \subseteq Word /\ Sizes \subseteq {1, 2, 4} /\ Junk \in 0 .. 255

\* The address is in a block of the file, or above all its words.
InOrAfter(f, a) ==
  \/ \E i \in DOMAIN f : InBlock(f[i], a)
  \/ \A i \in DOMAIN f : f[i].data # <<>> => BlockEnd(f[i]) <= a

\* The blocks that get an entry of their own.
Stretches(f) == {k \in 1 .. Len(f) :
  /\ f[k].data # <<>>
  /\ k > 1 => BlockEnd(f[k - 1]) # f[k].addr}

\* The file fills the table: no store can insert an entry.
Full(f) == /\ \A k \in 1 .. Len(f) : f[k].data # <<>>
           /\ Cardinality(Stretches(f)) >= MaxCursors

\* A store to a part of a word is inside a block or above all: write gives an
\* inserted entry the very address of the store, aligned or not.
StoresOnWords == \A f \in Files : \A a \in StoreAddrs :
  a % 4 = 0 \/ InOrAfter(f, a) \/ Full(f)

----------------------------------------------------------------------------
(* The invariant of the list.                                              *)

Cursor == [addr : Nat, size : Nat \ {0}, base : Nat]

MemType ==
  /\ file \in Files
  /\ at \in Nat \ {0} /\ at <= Len(file) + 1
  /\ loading \in BOOLEAN
  /\ cursors \in Seq(Cursor) /\ Len(cursors) <= MaxCursors
  /\ mem \in Seq(Word)
  /\ stores \in Nat

\* Every entry starts with a word.
OnWords == \A i \in DOMAIN cursors : cursors[i].addr % 4 = 0

\* While the file is read the list is below the blocks to come ...
Below == loading => \A i \in DOMAIN cursors : \A j \in at .. Len(file) :
  End(cursors[i]) <= file[j].addr

\* ... its words are in the order of their addresses ...
Ascending == loading => \A i, j \in DOMAIN cursors : i < j =>
  cursors[i].base + cursors[i].size <= cursors[j].base

\* ... every entry starts with a block that was read ...
Started == loading => \A i \in DOMAIN cursors : \E k \in 1 .. at - 1 :
  cursors[i].addr = file[k].addr /\ file[k].data # <<>>

\* ... and these are all mapped.
Taken == loading => \A k \in 1 .. at - 1 : \A a \in Nat :
  InBlock(file[k], a) => Mapped(a)

\* A store to a part of a word is inside a stretch or above all.
Kept == ~loading => \A a \in StoreAddrs :
  \/ a % 4 = 0 \/ Mapped(a) \/ Len(cursors) = MaxCursors
  \/ \A i \in DOMAIN cursors : cursors[i].addr <= a

\* The loader makes one entry for each stretch that it has begun.
Begun(k) == {i \in Stretches(file) : i < k}

\* The last one ends where the last block that was read does.
Counted == loading =>
  /\ Len(cursors) = Cardinality(Begun(at))
  /\ at > 1 => Len(cursors) > 0 /\ End(cursors[Len(cursors)]) = BlockEnd(file[at - 1])

ListInv ==
  MemType /\ ListOK /\ OnWords /\ Below /\ Ascending /\ Started /\ Taken /\ Kept

----------------------------------------------------------------------------
\* What write_int leaves of a word is a word.
LEMMA MergedType ==
  ASSUME NEW w \in Word, NEW d \in Word, NEW s \in {1, 2, 4}, NEW o \in Nat
  PROVE  Merged(w, d, s, o) \in Word
<1> DEFINE l == Lane(s, o)
<1>1. l \in Int
  BY SMT DEF Lane
<1> HIDE DEF l
<1>2. \A k \in 0 .. 3 : k - l \in 0 .. s - 1 => k - l \in 0 .. 3
  BY <1>1
<1>3. [k \in 0 .. 3 |-> IF k - l \in 0 .. s - 1 THEN d[k - l] ELSE w[k]] \in Word
  BY <1>1, <1>2 DEF Word
<1> QED
  BY <1>3 DEF Merged, l

\* The constructor starts with an empty list.
LEMMA InitList ==
  ASSUME WellFormed, Init
  PROVE  ListInv
BY SMT DEF WellFormed, Init, Boot, ListInv, MemType, ListOK, OnWords, Below, Ascending,
           Started, Taken, Kept

\* The blocks of a file as numbers.
LEMMA FileFacts ==
  ASSUME WellFormed, NEW f \in Files
  PROVE  /\ f \in Seq([addr : Nat, data : Seq(Word)])
         /\ Len(f) \in Nat
         /\ \A i \in 1 .. Len(f) :
              /\ f[i].addr \in Nat /\ f[i].addr % 4 = 0
              /\ f[i].data \in Seq(Word) /\ Len(f[i].data) \in Nat
              /\ BlockEnd(f[i]) \in Nat
              /\ BlockEnd(f[i]) = f[i].addr + 4 * Len(f[i].data)
              /\ f[i].addr <= BlockEnd(f[i])
         /\ \A i, j \in 1 .. Len(f) : i < j => BlockEnd(f[i]) <= f[j].addr
<1>1. f \in Seq([addr : Nat, data : Seq(Word)])
  BY DEF WellFormed
<1>2. Len(f) \in Nat /\ DOMAIN f = 1 .. Len(f)
  BY <1>1, LenProperties
<1>3. ASSUME NEW i \in 1 .. Len(f)
      PROVE  /\ f[i].addr \in Nat /\ f[i].addr % 4 = 0
             /\ f[i].data \in Seq(Word) /\ Len(f[i].data) \in Nat
             /\ BlockEnd(f[i]) \in Nat
             /\ BlockEnd(f[i]) = f[i].addr + 4 * Len(f[i].data)
             /\ f[i].addr <= BlockEnd(f[i])
  <2>1. f[i] \in [addr : Nat, data : Seq(Word)]
    BY <1>1, ElementOfSeq
  <2>2. f[i].addr \in Nat /\ f[i].data \in Seq(Word)
    BY <2>1
  <2>3. Len(f[i].data) \in Nat
    BY <2>2, LenProperties
  <2>4. f[i].addr % 4 = 0
    BY <1>2 DEF WellFormed
  <2> QED
    BY <2>2, <2>3, <2>4 DEF BlockEnd
<1>4. \A i, j \in 1 .. Len(f) : i < j => BlockEnd(f[i]) <= f[j].addr
  BY <1>2 DEF WellFormed
<1> QED
  BY <1>1, <1>2, <1>3, <1>4

\* The entries of a list as numbers.
LEMMA CursorFacts ==
  ASSUME NEW cs \in Seq(Cursor)
  PROVE  /\ Len(cs) \in Nat /\ DOMAIN cs = 1 .. Len(cs)
         /\ \A i \in 1 .. Len(cs) :
              /\ cs[i] \in Cursor
              /\ cs[i].addr \in Nat /\ cs[i].size \in Nat \ {0}
              /\ cs[i].base \in Nat /\ End(cs[i]) \in Nat
              /\ End(cs[i]) = cs[i].addr + 4 * cs[i].size
              /\ cs[i].addr < End(cs[i])
<1>1. Len(cs) \in Nat /\ DOMAIN cs = 1 .. Len(cs)
  BY LenProperties
<1>2. \A i \in 1 .. Len(cs) : cs[i] \in Cursor
  BY ElementOfSeq
<1>3. ASSUME NEW i \in 1 .. Len(cs)
      PROVE  /\ cs[i].addr \in Nat /\ cs[i].size \in Nat \ {0}
             /\ cs[i].base \in Nat /\ End(cs[i]) \in Nat
             /\ End(cs[i]) = cs[i].addr + 4 * cs[i].size
             /\ cs[i].addr < End(cs[i])
  <2>1. cs[i].addr \in Nat /\ cs[i].size \in Nat \ {0} /\ cs[i].base \in Nat
    BY <1>2 DEF Cursor
  <2>2. End(cs[i]) = cs[i].addr + 4 * cs[i].size
    BY DEF End
  <2> QED
    BY <2>1, <2>2
<1> QED
  BY <1>1, <1>2, <1>3

----------------------------------------------------------------------------
(* What a step makes of the list.                                          *)

\* What both kinds of block do.
LEMMA ReadShape ==
  ASSUME WellFormed, MemType, Turn, Block.data # <<>>, ReadWords
  PROVE  /\ loading /\ at \in 1 .. Len(file) /\ at \in Nat
         /\ file[at].addr \in Nat /\ Len(file[at].data) \in Nat \ {0}
         /\ cursors \in Seq(Cursor) /\ Len(cursors) \in Nat /\ Len(mem) \in Nat
         /\ Joins <=> Len(cursors) > 0 /\ End(cursors[Len(cursors)]) = file[at].addr
         /\ mem' \in Seq(Word) /\ Len(mem') = Len(mem) + Len(file[at].data)
         /\ \A k \in 1 .. Len(mem) : mem'[k] = mem[k]
         /\ \A k \in 1 .. Len(file[at].data) : mem'[Len(mem) + k] = file[at].data[k]
         /\ at' = at + 1 /\ loading' = loading /\ file' = file /\ stores' = stores
<1> DEFINE ws == file[at].data
<1>1. loading /\ at \in 1 .. Len(file) /\ at \in Nat
  BY FileFacts DEF MemType, Turn
<1>2. file[at].addr \in Nat /\ ws \in Seq(Word) /\ ws # <<>>
  BY <1>1, FileFacts DEF MemType, Block
<1>3. /\ cursors \in Seq(Cursor) /\ Len(cursors) \in Nat
      /\ mem \in Seq(Word) /\ Len(mem) \in Nat
  BY LenProperties DEF MemType
<1>4. mem' = mem \o ws
  BY DEF ReadWords, Block
<1> HIDE DEF ws
<1>5. Len(ws) \in Nat \ {0}
  BY <1>2, EmptySeq, LenProperties
<1>6. /\ mem' \in Seq(Word) /\ Len(mem') = Len(mem) + Len(ws)
      /\ \A k \in 1 .. Len(mem) + Len(ws) :
           mem'[k] = IF k <= Len(mem) THEN mem[k] ELSE ws[k - Len(mem)]
  BY <1>2, <1>3, <1>4, ConcatProperties
<1>7. \A k \in 1 .. Len(ws) : mem'[Len(mem) + k] = ws[k]
  <2> TAKE k \in 1 .. Len(ws)
  <2>1. Len(mem) + k \in 1 .. Len(mem) + Len(ws) /\ ~(Len(mem) + k <= Len(mem))
    BY <1>3, <1>5
  <2>2. (Len(mem) + k) - Len(mem) = k
    BY <1>3, <1>5
  <2> QED
    BY <1>6, <2>1, <2>2
<1>8. \A k \in 1 .. Len(mem) : mem'[k] = mem[k]
  BY <1>3, <1>5, <1>6
<1>9. Joins <=> Len(cursors) > 0 /\ End(cursors[Len(cursors)]) = file[at].addr
  BY <1>3, EmptySeq DEF Joins, Last, Block
<1> QED
  BY <1>1, <1>2, <1>3, <1>5, <1>6, <1>7, <1>8, <1>9 DEF ReadWords, ws

\* The list gets one entry longer.
LEMMA ApartShape ==
  ASSUME WellFormed, MemType, LoadApart
  PROVE  LET b == file[at]
             n == Len(cursors)
         IN /\ n > 0 => End(cursors[n]) # b.addr
            /\ cursors' \in Seq(Cursor) /\ Len(cursors') = n + 1
            /\ \A i \in 1 .. n : cursors'[i] = cursors[i]
            /\ cursors'[n + 1] = [addr |-> b.addr, size |-> Len(b.data), base |-> Len(mem)]
            /\ End(cursors'[n + 1]) = BlockEnd(b)
<1> DEFINE b == file[at]
           n == Len(cursors)
           c == [addr |-> b.addr, size |-> Len(b.data), base |-> Len(mem)]
<1>1. /\ b.addr \in Nat /\ Len(b.data) \in Nat \ {0}
      /\ cursors \in Seq(Cursor) /\ Len(cursors) \in Nat /\ Len(mem) \in Nat
      /\ n > 0 => End(cursors[n]) # b.addr
  BY ReadShape DEF LoadApart
<1>2. c \in Cursor
  BY <1>1 DEF Cursor
<1>3. cursors' = Append(cursors, c)
  BY DEF LoadApart, Block, OutCursor
<1>4. /\ cursors' \in Seq(Cursor) /\ Len(cursors') = n + 1
      /\ \A i \in 1 .. n : cursors'[i] = cursors[i]
      /\ cursors'[n + 1] = c
  <2> HIDE DEF c
  <2> QED
    BY <1>1, <1>2, <1>3, AppendProperties
<1>5. End(cursors'[n + 1]) = BlockEnd(b)
  BY <1>4 DEF End, BlockEnd
<1> QED
  BY <1>1, <1>4, <1>5

\* An entry to which a block is joined.
LEMMA Longer ==
  ASSUME NEW c \in Cursor, NEW k \in Nat
  PROVE  LET d == [c EXCEPT !.size = @ + k]
         IN /\ d \in Cursor /\ d.addr = c.addr /\ d.base = c.base
            /\ d.size = c.size + k /\ End(d) = End(c) + 4 * k
<1>1. c.addr \in Nat /\ c.size \in Nat \ {0} /\ c.base \in Nat
  BY DEF Cursor
<1> DEFINE d == [c EXCEPT !.size = @ + k]
<1>2. d \in Cursor /\ d.addr = c.addr /\ d.base = c.base /\ d.size = c.size + k
  BY <1>1 DEF Cursor
<1>3. End(d) = c.addr + 4 * (c.size + k) /\ End(c) = c.addr + 4 * c.size
  BY <1>2 DEF End
<1> HIDE DEF d
<1>4. End(d) = End(c) + 4 * k
  BY <1>1, <1>3
<1> QED
  BY <1>2, <1>4 DEF d

\* The last entry gets longer.
LEMMA JoinedShape ==
  ASSUME WellFormed, MemType, LoadJoined
  PROVE  LET b == file[at]
             n == Len(cursors)
         IN /\ n > 0 /\ End(cursors[n]) = b.addr
            /\ cursors' \in Seq(Cursor) /\ Len(cursors') = n
            /\ \A i \in 1 .. n - 1 : cursors'[i] = cursors[i]
            /\ cursors'[n].addr = cursors[n].addr /\ cursors'[n].base = cursors[n].base
            /\ cursors'[n].size = cursors[n].size + Len(b.data)
            /\ End(cursors'[n]) = BlockEnd(b)
<1> DEFINE b == file[at]
           n == Len(cursors)
           c == [cursors[n] EXCEPT !.size = @ + Len(b.data)]
<1>1. /\ b.addr \in Nat /\ Len(b.data) \in Nat \ {0}
      /\ cursors \in Seq(Cursor) /\ Len(cursors) \in Nat
      /\ n > 0 /\ End(cursors[n]) = b.addr
  BY ReadShape DEF LoadJoined
<1>2. cursors[n] \in Cursor
  BY <1>1, ElementOfSeq
<1>3. /\ c \in Cursor /\ c.addr = cursors[n].addr /\ c.base = cursors[n].base
      /\ c.size = cursors[n].size + Len(b.data)
      /\ End(c) = End(cursors[n]) + 4 * Len(b.data)
  BY <1>1, <1>2, Longer
<1>4. cursors' = [cursors EXCEPT ![n] = c]
  BY <1>1 DEF LoadJoined, Block
<1>5. /\ cursors' \in Seq(Cursor) /\ Len(cursors') = n
      /\ \A i \in 1 .. n : cursors'[i] = IF i = n THEN c ELSE cursors[i]
  <2> HIDE DEF c
  <2> QED
    BY <1>1, <1>3, <1>4, ExceptSeq
<1>6. n \in 1 .. n /\ \A i \in 1 .. n - 1 : i \in 1 .. n /\ i # n
  BY <1>1
<1>7. End(c) = BlockEnd(b)
  BY <1>1, <1>3 DEF BlockEnd
<1> HIDE DEF c
<1> QED
  BY <1>1, <1>3, <1>5, <1>6, <1>7

\* The list may lose the last entry, and its words.
LEMMA CutOffShape ==
  ASSUME WellFormed, MemType, ListOK, Ascending, LoadCutOff
  PROVE  LET n == Len(cursors)
             m == Len(cursors')
         IN /\ loading /\ at \in 1 .. Len(file)
            /\ cursors' \in Seq(Cursor) /\ m \in Nat
            /\ m = n \/ (m = n - 1 /\ n > 0)
            /\ \A i \in 1 .. m : cursors'[i] = cursors[i]
            /\ mem' \in Seq(Word)
            /\ \A i \in 1 .. m : cursors[i].base + cursors[i].size <= Len(mem')
            /\ loading' = FALSE /\ at' = at /\ file' = file /\ stores' = stores
<1> DEFINE n == Len(cursors)
           m == Len(cursors')
<1>1. loading /\ at \in 1 .. Len(file)
  BY FileFacts DEF MemType, LoadCutOff, Turn
<1>2. cursors \in Seq(Cursor) /\ n \in Nat /\ mem \in Seq(Word) /\ Len(mem) \in Nat
  BY LenProperties DEF MemType
<1>3. /\ cursors' \in Seq(Cursor)
      /\ m = n \/ (m = n - 1 /\ n > 0)
      /\ \A i \in 1 .. m : cursors'[i] = cursors[i]
  <2>1. CASE Joins
    <3>1. n > 0
      BY <2>1, <1>2, EmptySeq DEF Joins
    <3>2. cursors' = SubSeq(cursors, 1, n - 1)
      BY <2>1 DEF LoadCutOff, Front
    <3>3. n - 1 \in Int /\ \A i \in 1 .. n - 1 : cursors[i] \in Cursor
      BY <1>2, ElementOfSeq
    <3>4. /\ cursors' \in Seq(Cursor)
          /\ m = IF 1 <= n - 1 THEN (n - 1) - 1 + 1 ELSE 0
          /\ \A i \in 1 .. (n - 1) - 1 + 1 : cursors'[i] = cursors[1 + i - 1]
      BY <3>2, <3>3, SubSeqProperties
    <3>5. m = n - 1 /\ (n - 1) - 1 + 1 = n - 1
      <4>1. n \in Nat /\ n > 0 /\ m = IF 1 <= n - 1 THEN (n - 1) - 1 + 1 ELSE 0
        BY <1>2, <3>1, <3>4
      <4> HIDE DEF m, n
      <4> QED
        BY ONLY <4>1
    <3>6. \A i \in 1 .. n - 1 : 1 + i - 1 = i
      BY <1>2
    <3>7. \A i \in 1 .. n - 1 : cursors'[i] = cursors[i]
      BY <3>4, <3>5, <3>6
    <3> QED
      BY <3>1, <3>4, <3>5, <3>7
  <2>2. CASE ~Joins
    BY <2>2, <1>2 DEF LoadCutOff
  <2> QED
    BY <2>1, <2>2
<1>4. m \in Nat
  BY <1>2, <1>3
<1>5. \A i \in 1 .. n : /\ cursors[i].size \in Nat /\ cursors[i].base \in Nat
                        /\ cursors[i].base + cursors[i].size <= Len(mem)
  BY <1>2, CursorFacts DEF ListOK
<1>6. \A i, j \in 1 .. n : i < j => cursors[i].base + cursors[i].size <= cursors[j].base
  BY <1>1, <1>2, CursorFacts DEF Ascending
<1> DEFINE w == MemWords(cursors')
<1>7. /\ w \in Nat /\ w <= Len(mem)
      /\ \A i \in 1 .. m : cursors[i].base + cursors[i].size <= w
  <2>1. CASE m = 0
    <3>1. w = 0
      BY <2>1, <1>3, EmptySeq DEF MemWords
    <3> QED
      BY <2>1, <3>1, <1>2
  <2>2. CASE m > 0
    <3>1. cursors' # <<>>
      BY <2>2, EmptySeq
    <3>2. m \in 1 .. m /\ m \in 1 .. n
      BY <2>2, <1>2, <1>3
    <3>3. w = cursors[m].base + cursors[m].size
      BY <3>1, <3>2, <1>3 DEF MemWords, Last
    <3>4. \A i \in 1 .. m : i = m \/ (i \in 1 .. n /\ i < m)
      BY <1>2, <1>3, <1>4
    <3>5. w \in Nat /\ w <= Len(mem)
      BY <3>2, <3>3, <1>5
    <3>6. ASSUME NEW i \in 1 .. m
          PROVE  cursors[i].base + cursors[i].size <= w
      <4>1. CASE i = m
        BY <4>1, <3>2, <3>3, <1>5
      <4>2. CASE i \in 1 .. n /\ i < m
        <5>1. cursors[i].base + cursors[i].size <= cursors[m].base
          BY <4>2, <3>2, <1>6
        <5> HIDE DEF w
        <5>2. cursors[m].base \in Nat /\ cursors[m].size \in Nat
          BY <3>2, <1>5
        <5>3. cursors[i].base \in Nat /\ cursors[i].size \in Nat
          BY <4>2, <1>5
        <5> DEFINE x == cursors[i].base + cursors[i].size
                   y == cursors[m].base
                   z == cursors[m].size
        <5>4. x \in Nat /\ y \in Nat /\ z \in Nat /\ x <= y /\ w = y + z
          BY <5>1, <5>2, <5>3, <3>3
        <5> HIDE DEF x, y, z
        <5>5. x <= w
          BY ONLY <5>4
        <5> QED
          BY <5>5 DEF x
      <4> QED
        BY <4>1, <4>2, <3>4
    <3> QED
      BY <3>5, <3>6
  <2> QED
    BY <2>1, <2>2, <1>4
<1>8. mem' \in Seq(Word) /\ Len(mem') = w
  <2>1. mem' = SubSeq(mem, 1, w)
    BY DEF LoadCutOff
  <2> HIDE DEF w
  <2>2. \A i \in 1 .. w : mem[i] \in Word
    BY <1>2, <1>7, ElementOfSeq
  <2> QED
    BY <2>1, <2>2, <1>7, SubSeqProperties
<1> QED
  BY <1>1, <1>3, <1>4, <1>7, <1>8 DEF LoadCutOff

----------------------------------------------------------------------------
(* The steps of the loader.                                                *)

\* ListInv with the entries numbered.
LEMMA ListFacts ==
  ASSUME ListInv
  PROVE  LET n == Len(cursors)
         IN /\ n \in Nat /\ Len(mem) \in Nat
            /\ \A i \in 1 .. n : cursors[i].base + cursors[i].size <= Len(mem)
            /\ \A i \in 1 .. n : cursors[i].addr % 4 = 0
            /\ \A i, j \in 1 .. n : i < j => End(cursors[i]) <= cursors[j].addr
            /\ \A i, j \in 1 .. n : i < j =>
                 \/ cursors[i].base + cursors[i].size <= cursors[j].base
                 \/ cursors[j].base + cursors[j].size <= cursors[i].base
            /\ loading => \A i, j \in 1 .. n : i < j =>
                 cursors[i].base + cursors[i].size <= cursors[j].base
            /\ loading => \A i \in 1 .. n : \A j \in at .. Len(file) :
                 End(cursors[i]) <= file[j].addr
<1>1. cursors \in Seq(Cursor) /\ mem \in Seq(Word)
  BY DEF ListInv, MemType
<1>2. Len(mem) \in Nat /\ Len(cursors) \in Nat /\ DOMAIN cursors = 1 .. Len(cursors)
  BY <1>1, LenProperties
<1> QED
  BY <1>2 DEF ListInv, ListOK, OnWords, Ascending, Below

\* A block that gets an entry of its own comes after all others, in the file and in
\* the array.
LEMMA ApartKeeps ==
  ASSUME WellFormed, ListInv, LoadApart
  PROVE  ListInv'
<1> DEFINE b == file[at]
           n == Len(cursors)
           m == Len(mem)
           k == Len(b.data)
<1>1. MemType /\ cursors \in Seq(Cursor)
  BY DEF ListInv, MemType
<1>2. /\ loading /\ at \in 1 .. Len(file) /\ at \in Nat
      /\ b.addr \in Nat /\ k \in Nat \ {0} /\ n \in Nat /\ m \in Nat
      /\ mem' \in Seq(Word) /\ Len(mem') = m + k
      /\ at' = at + 1 /\ loading' = loading /\ file' = file /\ stores' = stores
  BY <1>1, ReadShape DEF LoadApart
<1>3. /\ cursors' \in Seq(Cursor) /\ Len(cursors') = n + 1
      /\ \A i \in 1 .. n : cursors'[i] = cursors[i]
      /\ cursors'[n + 1] = [addr |-> b.addr, size |-> k, base |-> m]
      /\ End(cursors'[n + 1]) = BlockEnd(b)
  BY <1>1, ApartShape
<1>4. /\ cursors'[n + 1].addr = b.addr /\ cursors'[n + 1].size = k
      /\ cursors'[n + 1].base = m
  BY <1>3
<1>5. /\ DOMAIN cursors = 1 .. n /\ DOMAIN cursors' = 1 .. n + 1
      /\ \A i \in 1 .. n + 1 : i = n + 1 \/ i \in 1 .. n
      /\ n + 1 \in 1 .. n + 1 /\ \A i \in 1 .. n : i \in 1 .. n + 1
  BY <1>1, <1>2, <1>3, LenProperties
<1>6. \A i \in 1 .. n : /\ cursors[i].size \in Nat \ {0} /\ cursors[i].base \in Nat
                        /\ End(cursors[i]) \in Nat /\ cursors[i].addr < End(cursors[i])
                        /\ cursors[i].addr \in Nat
  BY <1>1, CursorFacts
<1>7. file \in Files /\ Len(file) \in Nat
  BY <1>1, FileFacts DEF MemType
<1>8. MemType'
  BY <1>1, <1>2, <1>3, <1>7 DEF MemType, LoadApart, Turn
<1> HIDE DEF n, m, k
<1>9. ListOK'
  <2>1. ASSUME NEW i \in 1 .. n + 1
        PROVE  cursors'[i].size > 0 /\ cursors'[i].base + cursors'[i].size <= m + k
    <3>1. CASE i = n + 1
      BY <3>1, <1>2, <1>4
    <3>2. CASE i \in 1 .. n
      <4>1. cursors[i].base + cursors[i].size <= m
        BY <3>2, ListFacts DEF n, m
      <4>2. cursors'[i] = cursors[i]
        BY <3>2, <1>3
      <4>3. cursors[i].size \in Nat \ {0} /\ cursors[i].base \in Nat
        BY <3>2, <1>6
      <4> QED
        BY <4>1, <4>2, <4>3, <1>2
    <3> QED
      BY <3>1, <3>2, <1>5
  <2>2. ASSUME NEW i \in 1 .. n + 1, NEW j \in 1 .. n + 1, i < j
        PROVE  /\ End(cursors'[i]) <= cursors'[j].addr
               /\ cursors'[i].base + cursors'[i].size <= cursors'[j].base
    <3>1. i \in 1 .. n
      BY <2>2, <1>2
    <3>2. CASE j = n + 1
      <4>1. End(cursors[i]) <= b.addr
        BY <3>1, <1>2, ListFacts DEF n
      <4>2. cursors[i].base + cursors[i].size <= m
        BY <3>1, ListFacts DEF n, m
      <4> QED
        BY <4>1, <4>2, <3>1, <3>2, <1>3, <1>4
    <3>3. CASE j \in 1 .. n
      BY <3>1, <3>3, <2>2, <1>2, <1>3, ListFacts DEF n
    <3> QED
      BY <3>2, <3>3, <1>5
  <2> QED
    BY <2>1, <2>2, <1>2, <1>5 DEF ListOK
<1>10. OnWords'
  <2> SUFFICES ASSUME NEW i \in 1 .. n + 1 PROVE cursors'[i].addr % 4 = 0
    BY <1>5 DEF OnWords
  <2>1. CASE i = n + 1
    BY <2>1, <1>2, <1>4, <1>7, FileFacts
  <2>2. CASE i \in 1 .. n
    BY <2>2, <1>3, ListFacts DEF n
  <2> QED
    BY <2>1, <2>2, <1>5
<1>11. Below'
  <2> SUFFICES ASSUME NEW i \in 1 .. n + 1, NEW j \in at + 1 .. Len(file)
               PROVE  End(cursors'[i]) <= file[j].addr
    BY <1>2, <1>5 DEF Below
  <2>1. j \in at .. Len(file) /\ j \in 1 .. Len(file) /\ at < j
    BY <1>2, <1>7
  <2>2. CASE i = n + 1
    BY <2>1, <2>2, <1>2, <1>3, <1>7, FileFacts
  <2>3. CASE i \in 1 .. n
    BY <2>1, <2>3, <1>2, <1>3, ListFacts DEF n
  <2> QED
    BY <2>2, <2>3, <1>5
<1>12. Ascending'
  <2> SUFFICES ASSUME NEW i \in 1 .. n + 1, NEW j \in 1 .. n + 1, i < j
               PROVE  cursors'[i].base + cursors'[i].size <= cursors'[j].base
    BY <1>5 DEF Ascending
  <2>1. i \in 1 .. n
    BY <1>2
  <2>2. CASE j = n + 1
    BY <2>1, <2>2, <1>3, <1>4, ListFacts DEF n, m
  <2>3. CASE j \in 1 .. n
    BY <2>1, <2>3, <1>2, <1>3, ListFacts DEF n
  <2> QED
    BY <2>2, <2>3, <1>5
<1>13. Started'
  <2> SUFFICES ASSUME NEW i \in 1 .. n + 1
               PROVE  \E l \in 1 .. at :
                        cursors'[i].addr = file[l].addr /\ file[l].data # <<>>
    <3>1. at' - 1 = at /\ file' = file
      BY <1>2
    <3> QED
      BY <3>1, <1>5 DEF Started
  <2>1. CASE i = n + 1
    <3>1. cursors'[i].addr = file[at].addr
      BY <2>1, <1>4
    <3>2. file[at].data # <<>> /\ at \in 1 .. at
      BY <1>2 DEF LoadApart, Block
    <3> QED
      BY <3>1, <3>2
  <2>2. CASE i \in 1 .. n
    <3>1. PICK l \in 1 .. at - 1 : cursors[i].addr = file[l].addr /\ file[l].data # <<>>
      BY <2>2, <1>2, <1>5 DEF ListInv, Started
    <3>2. l \in 1 .. at /\ cursors'[i] = cursors[i]
      BY <2>2, <1>2, <1>3
    <3> QED
      BY <3>1, <3>2
  <2> QED
    BY <2>1, <2>2, <1>5
<1>14. Taken'
  <2> SUFFICES ASSUME NEW l \in 1 .. at' - 1, NEW a \in Nat, InBlock(file'[l], a)
               PROVE  \E i \in DOMAIN cursors' : Covers(cursors'[i], a)
    BY DEF Taken, Mapped
  <2>0. l \in 1 .. at /\ InBlock(file[l], a)
    BY <1>2
  <2> SUFFICES \E i \in 1 .. n + 1 : Covers(cursors'[i], a)
    BY <1>2, <1>5
  <2>1. CASE l = at
    BY <2>0, <2>1, <1>3, <1>4, <1>5 DEF InBlock, Covers
  <2>2. CASE l \in 1 .. at - 1
    <3>1. Mapped(a)
      BY <2>0, <2>2, <1>2 DEF ListInv, Taken
    <3>2. PICK i \in 1 .. n : Covers(cursors[i], a)
      BY <3>1, <1>5 DEF Mapped
    <3>3. i \in 1 .. n + 1 /\ cursors'[i] = cursors[i]
      BY <1>3, <1>5
    <3> QED
      BY <3>2, <3>3
  <2>3. l = at \/ l \in 1 .. at - 1
    BY <2>0, <1>2
  <2> QED
    BY <2>1, <2>2, <2>3
<1> QED
  BY <1>2, <1>8, <1>9, <1>10, <1>11, <1>12, <1>13, <1>14 DEF ListInv, Kept

\* A block that is joined makes the last entry longer, up to its own end: the other
\* entries are below it and the blocks to come are above.
LEMMA JoinedKeeps ==
  ASSUME WellFormed, ListInv, LoadJoined
  PROVE  ListInv'
<1> DEFINE b == file[at]
           n == Len(cursors)
           m == Len(mem)
           k == Len(b.data)
<1>1. MemType /\ cursors \in Seq(Cursor)
  BY DEF ListInv, MemType
<1>2. /\ loading /\ at \in 1 .. Len(file) /\ at \in Nat
      /\ b.addr \in Nat /\ k \in Nat \ {0} /\ n \in Nat /\ m \in Nat
      /\ mem' \in Seq(Word) /\ Len(mem') = m + k
      /\ at' = at + 1 /\ loading' = loading /\ file' = file /\ stores' = stores
  BY <1>1, ReadShape DEF LoadJoined
<1>3. /\ n > 0 /\ End(cursors[n]) = b.addr
      /\ cursors' \in Seq(Cursor) /\ Len(cursors') = n
      /\ \A i \in 1 .. n - 1 : cursors'[i] = cursors[i]
      /\ cursors'[n].addr = cursors[n].addr /\ cursors'[n].base = cursors[n].base
      /\ cursors'[n].size = cursors[n].size + k
      /\ End(cursors'[n]) = BlockEnd(b)
  BY <1>1, JoinedShape
<1>4. /\ DOMAIN cursors = 1 .. n /\ DOMAIN cursors' = 1 .. n
      /\ \A i \in 1 .. n : i = n \/ i \in 1 .. n - 1
      /\ n \in 1 .. n /\ \A i \in 1 .. n - 1 : i \in 1 .. n /\ i < n
  BY <1>1, <1>2, <1>3, LenProperties
<1>5. \A i \in 1 .. n : /\ cursors[i].size \in Nat \ {0} /\ cursors[i].base \in Nat
                        /\ End(cursors[i]) \in Nat /\ cursors[i].addr < End(cursors[i])
                        /\ cursors[i].addr \in Nat
  BY <1>1, CursorFacts
<1>6. file \in Files /\ Len(file) \in Nat
  BY <1>1, FileFacts DEF MemType
<1>7. MemType'
  BY <1>1, <1>2, <1>3, <1>6 DEF MemType
<1> HIDE DEF n, m, k
\* Nothing moves.
<1>8. \A i \in 1 .. n : cursors'[i].addr = cursors[i].addr /\ cursors'[i].base = cursors[i].base
  BY <1>3, <1>4
<1>9. BlockEnd(b) \in Nat /\ BlockEnd(b) = b.addr + 4 * k
  BY <1>2, <1>6, FileFacts DEF BlockEnd, k
<1>10. ASSUME NEW i \in 1 .. n, NEW j \in 1 .. n, i < j
       PROVE  /\ End(cursors'[i]) <= cursors'[j].addr
              /\ cursors'[i].base + cursors'[i].size <= cursors'[j].base
  <2>1. i \in 1 .. n - 1
    BY <1>10, <1>2
  <2>2. /\ End(cursors[i]) <= cursors[j].addr
        /\ cursors[i].base + cursors[i].size <= cursors[j].base
    BY <1>10, <1>2, ListFacts DEF n
  <2> QED
    BY <2>1, <2>2, <1>3, <1>8
<1>11. ListOK'
  <2>1. ASSUME NEW i \in 1 .. n
        PROVE  cursors'[i].size > 0 /\ cursors'[i].base + cursors'[i].size <= m + k
    <3>1. cursors[i].base + cursors[i].size <= m
      BY ListFacts DEF n, m
    <3>2. cursors'[i].base = cursors[i].base
      BY <1>8
    <3>3. cursors'[i].size = cursors[i].size \/ cursors'[i].size = cursors[i].size + k
      BY <1>3, <1>4
    <3>4. cursors[i].size \in Nat \ {0} /\ cursors[i].base \in Nat
      BY <1>5
    <3>5. k \in Nat \ {0} /\ m \in Nat
      BY <1>2
    <3>6. cursors'[i].size > 0 /\ cursors[i].base + cursors'[i].size <= m + k
      <4> DEFINE x == cursors[i].size
                 y == cursors'[i].size
                 z == cursors[i].base
      <4>1. /\ x \in Nat \ {0} /\ z \in Nat /\ z + x <= m
            /\ y = x \/ y = x + k
        BY <3>1, <3>3, <3>4
      <4> HIDE DEF x, y, z
      <4>2. y > 0 /\ z + y <= m + k
        BY ONLY <3>5, <4>1
      <4> QED
        BY <4>2 DEF x, y, z
    <3> QED
      BY <3>2, <3>6
  <2> QED
    BY <2>1, <1>10, <1>2, <1>4 DEF ListOK
<1>12. OnWords'
  BY <1>4, <1>8, ListFacts DEF OnWords, n
<1>13. Below'
  <2> SUFFICES ASSUME NEW i \in 1 .. n, NEW j \in at + 1 .. Len(file)
               PROVE  End(cursors'[i]) <= file[j].addr
    BY <1>2, <1>4 DEF Below
  <2>1. j \in at .. Len(file) /\ j \in 1 .. Len(file) /\ at < j
    BY <1>2, <1>6
  <2>2. CASE i = n
    BY <2>1, <2>2, <1>2, <1>3, <1>6, FileFacts
  <2>3. CASE i \in 1 .. n - 1
    BY <2>1, <2>3, <1>2, <1>3, ListFacts DEF n
  <2> QED
    BY <2>2, <2>3, <1>4
<1>14. Ascending'
  BY <1>4, <1>10 DEF Ascending
<1>15. Started'
  <2> SUFFICES ASSUME NEW i \in 1 .. n
               PROVE  \E l \in 1 .. at :
                        cursors'[i].addr = file[l].addr /\ file[l].data # <<>>
    <3>1. at' - 1 = at /\ file' = file
      BY <1>2
    <3> QED
      BY <3>1, <1>4 DEF Started
  <2>1. PICK l \in 1 .. at - 1 : cursors[i].addr = file[l].addr /\ file[l].data # <<>>
    BY <1>2, <1>4 DEF ListInv, Started
  <2>2. l \in 1 .. at
    BY <1>2
  <2>3. cursors'[i].addr = file[l].addr
    BY <2>1, <1>8
  <2> QED
    BY <2>1, <2>2, <2>3
<1>16. Taken'
  <2> SUFFICES ASSUME NEW l \in 1 .. at' - 1, NEW a \in Nat, InBlock(file'[l], a)
               PROVE  \E i \in DOMAIN cursors' : Covers(cursors'[i], a)
    BY DEF Taken, Mapped
  <2>0. l \in 1 .. at /\ InBlock(file[l], a)
    BY <1>2
  <2> SUFFICES \E i \in 1 .. n : Covers(cursors'[i], a)
    BY <1>2, <1>4
  <2>1. CASE l = at
    <3>1. cursors[n].addr <= a /\ a < BlockEnd(b)
      BY <2>0, <2>1, <1>2, <1>3, <1>4, <1>5 DEF InBlock
    <3> QED
      BY <3>1, <1>3, <1>4, <1>8, <1>9 DEF Covers
  <2>2. CASE l \in 1 .. at - 1
    <3>1. PICK i \in 1 .. n : Covers(cursors[i], a)
      BY <2>0, <2>2, <1>2, <1>4 DEF ListInv, Taken, Mapped
    <3>2. CASE i = n
      <4>1. cursors'[n].addr <= a
        BY <3>1, <3>2, <1>3 DEF Covers
      <4>2. a < b.addr
        BY <3>1, <3>2, <1>3 DEF Covers
      <4>3. a < BlockEnd(b)
        <5> HIDE DEF b
        <5> QED
          BY ONLY <4>2, <1>2, <1>9, a \in Nat
      <4>4. n \in 1 .. n /\ End(cursors'[n]) > a
        BY <4>3, <1>3, <1>4, <1>9
      <4> QED
        BY <4>1, <4>4 DEF Covers
    <3>3. CASE i \in 1 .. n - 1
      BY <3>1, <3>3, <1>3 DEF Covers
    <3> QED
      BY <3>2, <3>3, <1>4
  <2>3. l = at \/ l \in 1 .. at - 1
    BY <2>0, <1>2
  <2> QED
    BY <2>1, <2>2, <2>3
<1> QED
  BY <1>2, <1>7, <1>11, <1>12, <1>13, <1>14, <1>15, <1>16 DEF ListInv, Kept

\* Where an address of the program can be once the file is read: in a stretch, or above
\* all that are there.
LEMMA Settled ==
  ASSUME WellFormed, ListInv, loading, NEW a \in StoreAddrs, InOrAfter(file, a)
  PROVE  Mapped(a) \/ \A i \in 1 .. Len(cursors) : cursors[i].addr <= a
<1> DEFINE n == Len(cursors)
<1>1. /\ file \in Files /\ Len(file) \in Nat /\ at \in Nat \ {0}
      /\ cursors \in Seq(Cursor) /\ a \in Nat
  BY FileFacts DEF ListInv, MemType
<1>2. \A i \in 1 .. n : /\ End(cursors[i]) \in Nat /\ cursors[i].addr \in Nat
                        /\ cursors[i].addr < End(cursors[i])
  BY <1>1, CursorFacts
<1>3. \A i \in 1 .. Len(file) : file[i].addr \in Nat /\ BlockEnd(file[i]) \in Nat
                                /\ file[i].addr <= BlockEnd(file[i])
  BY <1>1, FileFacts
<1>4. DOMAIN file = 1 .. Len(file) /\ DOMAIN cursors = 1 .. n
  BY <1>1, FileFacts, LenProperties
<1> HIDE DEF n
<1>5. CASE \E k \in 1 .. Len(file) : InBlock(file[k], a)
  <2>1. PICK k \in 1 .. Len(file) : InBlock(file[k], a)
    BY <1>5
  <2>2. CASE k < at
    BY <2>1, <2>2, <1>1 DEF ListInv, Taken
  <2>3. CASE ~(k < at)
    <3>1. k \in at .. Len(file)
      BY <2>3, <1>1
    <3>2. \A i \in 1 .. n : End(cursors[i]) <= file[k].addr
      BY <3>1, ListFacts DEF n
    <3>3. file[k].addr <= a
      BY <2>1 DEF InBlock
    <3>4. ASSUME NEW i \in 1 .. n PROVE cursors[i].addr <= a
      BY <3>1, <3>2, <3>3, <1>1, <1>2, <1>3
    <3> QED
      BY <3>4 DEF n
  <2> QED
    BY <2>2, <2>3
<1>6. CASE \A k \in 1 .. Len(file) : file[k].data # <<>> => BlockEnd(file[k]) <= a
  <2>1. ASSUME NEW i \in 1 .. n PROVE cursors[i].addr <= a
    <3>1. PICK k \in 1 .. at - 1 : cursors[i].addr = file[k].addr /\ file[k].data # <<>>
      BY <1>4 DEF ListInv, Started
    <3>2. k \in 1 .. Len(file)
      BY <1>1 DEF ListInv, MemType
    <3> QED
      BY <3>1, <3>2, <1>6, <1>1, <1>3
  <2> QED
    BY <2>1 DEF n
<1> QED
  BY <1>4, <1>5, <1>6 DEF InOrAfter

\* A file that fills the table ends with a full table.
LEMMA FullAtEnd ==
  ASSUME WellFormed, ListInv, Counted, LoadEnd, Full(file)
  PROVE  Len(cursors) = MaxCursors
<1>1. /\ loading /\ at \in Nat \ {0} /\ Len(cursors) \in Nat /\ Len(cursors) <= MaxCursors
      /\ Len(file) \in Nat
  BY FileFacts, LenProperties DEF LoadEnd, ListInv, MemType
<1>2. CASE Len(cursors) = MaxCursors
  BY <1>2
<1>3. CASE at > Len(file)
  <2>1. Begun(at) = Stretches(file)
    BY <1>1, <1>3 DEF Begun, Stretches
  <2> QED
    BY <2>1, <1>1 DEF Counted, Full
<1> QED
  BY <1>2, <1>3 DEF LoadEnd

\* At the end of the loading every store address has its place (Settled).
LEMMA EndKeeps ==
  ASSUME WellFormed, StoresOnWords, ListInv, Counted, LoadEnd
  PROVE  ListInv'
<1>1. /\ loading /\ loading' = FALSE
      /\ UNCHANGED <<file, at, cursors, mem, stores>>
  BY DEF LoadEnd
<1>2. MemType'
  BY <1>1 DEF ListInv, MemType
<1>3. ListOK' /\ OnWords'
  BY <1>1 DEF ListInv, ListOK, OnWords
<1>4. Below' /\ Ascending' /\ Started' /\ Taken'
  BY <1>1 DEF Below, Ascending, Started, Taken
<1>5. Kept'
  <2> SUFFICES ASSUME NEW a \in StoreAddrs, a % 4 # 0
               PROVE  \/ Mapped(a) \/ Len(cursors) = MaxCursors
                      \/ \A i \in DOMAIN cursors : cursors[i].addr <= a
    BY <1>1 DEF Kept, Mapped
  <2>1. InOrAfter(file, a) \/ Full(file)
    BY DEF StoresOnWords, ListInv, MemType
  <2>2. DOMAIN cursors = 1 .. Len(cursors)
    BY LenProperties DEF ListInv, MemType
  <2> QED
    BY <2>1, <2>2, <1>1, Settled, FullAtEnd
<1> QED
  BY <1>2, <1>3, <1>4, <1>5 DEF ListInv

\* The entries that a cut off file leaves are those that were there, or all but the
\* last one: still in order, and with their words in the array.
LEMMA CutOffKeeps ==
  ASSUME WellFormed, StoresOnWords, ListInv, LoadCutOff
  PROVE  ListInv'
<1> DEFINE n == Len(cursors)
           m == Len(cursors')
<1>1. /\ loading /\ at \in 1 .. Len(file)
      /\ cursors' \in Seq(Cursor) /\ m \in Nat
      /\ m = n \/ (m = n - 1 /\ n > 0)
      /\ \A i \in 1 .. m : cursors'[i] = cursors[i]
      /\ mem' \in Seq(Word)
      /\ \A i \in 1 .. m : cursors[i].base + cursors[i].size <= Len(mem')
      /\ loading' = FALSE /\ at' = at /\ file' = file /\ stores' = stores
  BY CutOffShape DEF ListInv
<1>2. /\ cursors \in Seq(Cursor) /\ n \in Nat
      /\ DOMAIN cursors = 1 .. n /\ DOMAIN cursors' = 1 .. m
  BY <1>1, LenProperties DEF ListInv, MemType
<1>3. \A i \in 1 .. n : /\ cursors[i].size \in Nat \ {0} /\ cursors[i].addr \in Nat
                        /\ End(cursors[i]) \in Nat /\ cursors[i].addr < End(cursors[i])
  BY <1>2, CursorFacts
<1> HIDE DEF n, m
<1>4. \A i \in 1 .. m : i \in 1 .. n
  BY <1>1, <1>2
<1>5. MemType'
  <2>1. Len(cursors') <= MaxCursors
    <3>1. n <= MaxCursors /\ MaxCursors \in Nat
      BY DEF ListInv, MemType, n
    <3>2. m <= MaxCursors
      BY <3>1, <1>1, <1>2
    <3> QED
      BY <3>2 DEF m
  <2> QED
    BY <2>1, <1>1 DEF ListInv, MemType
<1>6. ListOK'
  <2>1. ASSUME NEW i \in 1 .. m, NEW j \in 1 .. m, i < j
        PROVE  /\ End(cursors'[i]) <= cursors'[j].addr
               /\ cursors'[i].base + cursors'[i].size <= cursors'[j].base
    BY <2>1, <1>1, <1>4, ListFacts DEF n
  <2>2. ASSUME NEW i \in 1 .. m PROVE cursors'[i].size > 0
    <3>1. cursors'[i] = cursors[i] /\ cursors[i].size \in Nat \ {0}
      BY <1>1, <1>3, <1>4
    <3> QED
      BY <3>1
  <2> QED
    BY <2>1, <2>2, <1>1, <1>2 DEF ListOK
<1>7. OnWords'
  BY <1>1, <1>2, <1>4, ListFacts DEF OnWords, n
<1>8. Below' /\ Ascending' /\ Started' /\ Taken'
  BY <1>1 DEF Below, Ascending, Started, Taken
<1>9. Kept'
  <2> SUFFICES ASSUME NEW a \in StoreAddrs, a % 4 # 0
               PROVE  \/ \E i \in 1 .. m : Covers(cursors'[i], a)
                      \/ \A i \in 1 .. m : cursors'[i].addr <= a
    BY <1>2 DEF Kept, Mapped
  <2>1. \/ \E i \in 1 .. n : Covers(cursors[i], a)
        \/ \A i \in 1 .. n : cursors[i].addr <= a
    <3>1. Block.data = <<>> /\ file \in Files
      BY DEF LoadCutOff, ListInv, MemType
    <3>2. ~Full(file)
      BY <3>1, <1>1 DEF Full, Block
    <3>3. InOrAfter(file, a)
      BY <3>1, <3>2 DEF StoresOnWords
    <3> QED
      BY <3>3, <1>1, <1>2, Settled DEF Mapped, n
  <2>2. CASE \E i \in 1 .. n : Covers(cursors[i], a)
    <3>1. PICK i \in 1 .. n : Covers(cursors[i], a)
      BY <2>2
    <3>2. CASE i \in 1 .. m
      BY <3>1, <3>2, <1>1
    <3>3. CASE i \notin 1 .. m
      <4>1. i = n /\ m = n - 1
        BY <3>3, <1>1, <1>2
      <4>2. \A j \in 1 .. m : j < i
        BY <4>1, <1>2
      <4>3. \A j \in 1 .. m : End(cursors[j]) <= cursors[i].addr
        BY <4>2, <1>4, ListFacts DEF n
      <4>4. cursors[i].addr <= a
        BY <3>1 DEF Covers
      <4>5. a \in Nat
        OBVIOUS
      <4>6. ASSUME NEW j \in 1 .. m PROVE cursors'[j].addr <= a
        <5>1. cursors'[j] = cursors[j] /\ j \in 1 .. n
          BY <1>1, <1>4
        <5> QED
          BY <5>1, <4>3, <4>4, <4>5, <1>3
      <4> QED
        BY <4>6
    <3> QED
      BY <3>2, <3>3
  <2>3. CASE \A i \in 1 .. n : cursors[i].addr <= a
    BY <2>3, <1>1, <1>4
  <2> QED
    BY <2>1, <2>2, <2>3
<1> QED
  BY <1>5, <1>6, <1>7, <1>8, <1>9 DEF ListInv

----------------------------------------------------------------------------
(* The stores.                                                             *)

\* One entry at most covers an address.
LEMMA FirstRight ==
  ASSUME ListInv, NEW a \in Nat, NEW i \in 1 .. Len(cursors), Covers(cursors[i], a)
  PROVE  First(a) = i /\ WordAt(a) = cursors[i].base + (a - cursors[i].addr) \div 4 + 1
<1> DEFINE n == Len(cursors)
<1>1. cursors \in Seq(Cursor)
  BY DEF ListInv, MemType
<1>2. \A k \in 1 .. n : /\ End(cursors[k]) \in Nat /\ cursors[k].addr \in Nat
  BY <1>1, CursorFacts
<1>3. n \in Nat /\ DOMAIN cursors = 1 .. n
  BY <1>1, LenProperties
<1> HIDE DEF n
<1>4. ASSUME NEW k \in 1 .. n, Covers(cursors[k], a) PROVE k = i
  <2>1. i \in 1 .. n
    BY DEF n
  <2>2. CASE k < i
    <3>1. End(cursors[k]) <= cursors[i].addr
      BY <2>1, <2>2, ListFacts DEF n
    <3> QED
      BY <3>1, <2>1, <1>2, <1>4 DEF Covers
  <2>3. CASE i < k
    <3>1. End(cursors[i]) <= cursors[k].addr
      BY <2>1, <2>3, ListFacts DEF n
    <3> QED
      BY <3>1, <2>1, <1>2, <1>4 DEF Covers
  <2> QED
    BY <2>1, <2>2, <2>3
<1>5. /\ i \in DOMAIN cursors /\ Covers(cursors[i], a)
      /\ \A j \in 1 .. i - 1 : ~Covers(cursors[j], a)
  <2>1. \A j \in 1 .. i - 1 : j \in 1 .. n /\ j # i
    BY <1>3 DEF n
  <2> QED
    BY <2>1, <1>3, <1>4 DEF n
<1>6. First(a) = i
  BY <1>3, <1>4, <1>5 DEF First
<1> QED
  BY <1>6 DEF WordAt

\* The word that read looks up is in the array.
LEMMA WordInside ==
  ASSUME ListInv, NEW a \in Nat, Mapped(a)
  PROVE  WordAt(a) \in 1 .. Len(mem)
<1>1. cursors \in Seq(Cursor)
  BY DEF ListInv, MemType
<1>2. PICK i \in 1 .. Len(cursors) : Covers(cursors[i], a)
  BY <1>1, LenProperties DEF Mapped
<1>3. WordAt(a) = cursors[i].base + (a - cursors[i].addr) \div 4 + 1
  BY <1>2, FirstRight
<1> DEFINE b == cursors[i].base
           c == cursors[i].addr
           z == cursors[i].size
<1>4. b \in Nat /\ c \in Nat /\ z \in Nat /\ End(cursors[i]) = c + 4 * z
  BY <1>1, CursorFacts
<1>5. b + z <= Len(mem) /\ Len(mem) \in Nat
  BY ListFacts
<1>6. c <= a /\ a < c + 4 * z
  BY <1>2, <1>4 DEF Covers
<1> HIDE DEF b, c, z
<1>7. (a - c) \div 4 \in 0 .. z - 1
  BY <1>4, <1>6
<1>8. WordAt(a) = b + (a - c) \div 4 + 1
  BY <1>3 DEF b, c
<1> DEFINE q == (a - c) \div 4
<1> HIDE DEF q
<1>9. b + q + 1 \in 1 .. Len(mem)
  BY <1>4, <1>5, <1>7 DEF q
<1> QED
  BY <1>8, <1>9 DEF q

\* A store to a covered address changes a word and no entry.
LEMMA MappedKeeps ==
  ASSUME WellFormed, Values, ListInv,
         NEW s \in Sizes, NEW a \in StoreAddrs, NEW d \in Words, StoreMapped(s, a, d)
  PROVE  ListInv'
<1>1. /\ Mapped(a) /\ ~loading /\ cursors' = cursors
      /\ mem' = [mem EXCEPT ![WordAt(a)] = Merged(@, d, s, a % 4)]
      /\ stores' = stores + 1 /\ UNCHANGED <<file, at, loading>>
  BY DEF StoreMapped, StoreCall
<1>2. a \in Nat /\ a % 4 \in Nat /\ mem \in Seq(Word)
  BY DEF ListInv, MemType
<1>3. WordAt(a) \in 1 .. Len(mem)
  BY <1>1, <1>2, WordInside
<1>4. Merged(mem[WordAt(a)], d, s, a % 4) \in Word
  <2> DEFINE w == mem[WordAt(a)]
             o == a % 4
  <2>1. w \in Word
    BY <1>2, <1>3, ElementOfSeq
  <2>2. d \in Word /\ s \in {1, 2, 4} /\ o \in Nat
    BY <1>2 DEF Values
  <2> HIDE DEF w, o
  <2>3. Merged(w, d, s, o) \in Word
    BY <2>1, <2>2, MergedType
  <2> QED
    BY <2>3 DEF w, o
<1>5. mem' \in Seq(Word) /\ Len(mem') = Len(mem)
  BY <1>1, <1>2, <1>3, <1>4, ExceptSeq
<1>6. MemType'
  BY <1>1, <1>5 DEF ListInv, MemType
<1>7. ListOK' /\ OnWords'
  BY <1>1, <1>5 DEF ListInv, ListOK, OnWords
<1>8. Below' /\ Ascending' /\ Started' /\ Taken'
  BY <1>1 DEF Below, Ascending, Started, Taken
<1>9. Kept'
  BY <1>1 DEF ListInv, Kept, Mapped
<1> QED
  BY <1>6, <1>7, <1>8, <1>9 DEF ListInv

\* A refused store changes nothing.
LEMMA RefusedKeeps ==
  ASSUME ListInv, NEW s \in Sizes, NEW a \in StoreAddrs, StoreRefused(s, a)
  PROVE  ListInv'
<1>1. /\ UNCHANGED <<file, at, loading, cursors, mem>> /\ ~loading
      /\ stores' = stores + 1
  BY DEF StoreRefused, StoreCall
<1>2. MemType'
  BY <1>1 DEF ListInv, MemType
<1>3. ListOK' /\ OnWords'
  BY <1>1 DEF ListInv, ListOK, OnWords
<1>4. Below' /\ Ascending' /\ Started' /\ Taken'
  BY <1>1 DEF Below, Ascending, Started, Taken
<1>5. Kept'
  BY <1>1 DEF ListInv, Kept, Mapped
<1> QED
  BY <1>2, <1>3, <1>4, <1>5 DEF ListInv

\* An initial part of 1 .. n is 1 .. its number of members.
LEMMA InitialPart ==
  ASSUME NEW n \in Nat, NEW T \in SUBSET (1 .. n),
         \A x \in T : 1 .. x \subseteq T
  PROVE  Cardinality(T) \in 0 .. n /\ T = 1 .. Cardinality(T)
<1>1. IsFiniteSet(1 .. n) /\ Cardinality(1 .. n) = n
  BY FS_Interval
<1>2. IsFiniteSet(T) /\ Cardinality(T) <= n
  <2>1. IsFiniteSet(T) /\ Cardinality(T) <= Cardinality(1 .. n)
    BY <1>1, FS_Subset
  <2> QED
    BY <2>1, <1>1
<1>3. Cardinality(T) \in Nat
  BY <1>2, FS_CardinalityType
<1> DEFINE c == Cardinality(T)
<1>4. ASSUME NEW x \in T PROVE x \in 1 .. c
  <2>1. Cardinality(1 .. x) = x /\ x \in Nat
    BY FS_Interval
  <2>2. Cardinality(1 .. x) <= c
    BY <1>2, FS_Subset
  <2> QED
    BY <2>1, <2>2, <1>3
<1>5. IsFiniteSet(1 .. c) /\ Cardinality(1 .. c) = c
  BY <1>3, FS_Interval
<1>6. T = 1 .. c
  BY <1>4, <1>5, FS_Subset
<1> QED
  BY <1>2, <1>3, <1>6

\* The new entry goes between those below the address and those above.
LEMMA PlaceRight ==
  ASSUME ListInv, NEW a \in Nat
  PROVE  /\ Place(a) \in 1 .. Len(cursors) + 1
         /\ \A i \in 1 .. Len(cursors) : i < Place(a) <=> cursors[i].addr <= a
<1> DEFINE n == Len(cursors)
           T == {i \in 1 .. n : cursors[i].addr <= a}
<1>1. cursors \in Seq(Cursor)
  BY DEF ListInv, MemType
<1>2. n \in Nat /\ DOMAIN cursors = 1 .. n
  BY <1>1, LenProperties
<1>3. \A i \in 1 .. n : /\ End(cursors[i]) \in Nat /\ cursors[i].addr \in Nat
                        /\ cursors[i].addr < End(cursors[i])
  BY <1>1, CursorFacts
<1>4. ASSUME NEW x \in T, NEW y \in 1 .. x PROVE y \in T
  <2>1. x \in 1 .. n /\ y \in 1 .. n /\ cursors[x].addr <= a
    BY <1>2
  <2>2. CASE y = x
    BY <2>2
  <2>3. CASE y < x
    <3>1. End(cursors[y]) <= cursors[x].addr
      BY <2>1, <2>3, ListFacts
    <3> QED
      BY <3>1, <2>1, <1>3
  <2> QED
    BY <2>1, <2>2, <2>3
<1>5. Cardinality(T) \in 0 .. n /\ T = 1 .. Cardinality(T)
  BY <1>2, <1>4, InitialPart
<1>6. Place(a) = 1 + Cardinality(T)
  BY <1>2 DEF Place
<1>7. \A i \in 1 .. n : i \in T <=> cursors[i].addr <= a
  OBVIOUS
<1> HIDE DEF T
<1>8. \A i \in 1 .. n : i < Place(a) <=> i \in T
  BY <1>2, <1>5, <1>6
<1> QED
  BY <1>2, <1>5, <1>6, <1>7, <1>8

\* The list after the insertion that is not counted.
LEMMA InsertedFront ==
  ASSUME NEW S, NEW q \in Seq(S), NEW p \in 1 .. Len(q) + 1, NEW e \in S
  PROVE  LET r == Front(InsertAt(q, p, e))
         IN /\ r \in Seq(S) /\ Len(r) = Len(q)
            /\ \A i \in 1 .. Len(q) :
                 r[i] = IF i < p THEN q[i] ELSE IF i = p THEN e ELSE q[i - 1]
<1> DEFINE n == Len(q)
           u == SubSeq(q, 1, p - 1)
           v == SubSeq(q, p, n)
           w == InsertAt(q, p, e)
<1>1. n \in Nat /\ p \in 1 .. n + 1
  BY LenProperties
<1>2. \A i \in 1 .. n : q[i] \in S
  BY ElementOfSeq
<1>3. u \in Seq(S) /\ Len(u) = p - 1 /\ \A i \in 1 .. p - 1 : u[i] = q[i]
  <2>1. \A i \in 1 .. p - 1 : i \in 1 .. n /\ 1 + i - 1 = i
    BY <1>1
  <2>2. \A i \in 1 .. p - 1 : q[i] \in S
    BY <2>1, <1>2
  <2>3. /\ u \in Seq(S) /\ Len(u) = IF 1 <= p - 1 THEN (p - 1) - 1 + 1 ELSE 0
        /\ \A i \in 1 .. (p - 1) - 1 + 1 : u[i] = q[1 + i - 1]
    BY <2>2, <1>1, SubSeqProperties
  <2>4. Len(u) = p - 1 /\ (p - 1) - 1 + 1 = p - 1
    <3> HIDE DEF u
    <3> QED
      BY ONLY <2>3, <1>1
  <2> QED
    BY <2>1, <2>3, <2>4
<1>4. /\ v \in Seq(S) /\ Len(v) = n - p + 1
      /\ \A i \in 1 .. n - p + 1 : v[i] = q[p + i - 1]
  <2>1. \A i \in p .. n : q[i] \in S
    BY <1>1, <1>2
  <2>2. /\ v \in Seq(S) /\ Len(v) = IF p <= n THEN n - p + 1 ELSE 0
        /\ \A i \in 1 .. n - p + 1 : v[i] = q[p + i - 1]
    BY <2>1, <1>1, SubSeqProperties
  <2>3. Len(v) = n - p + 1
    <3> HIDE DEF v, n
    <3> QED
      BY ONLY <2>2, <1>1
  <2> QED
    BY <2>2, <2>3
<1> HIDE DEF u, v
<1>5. <<e>> \in Seq(S) /\ Len(<<e>>) = 1 /\ <<e>>[1] = e
  OBVIOUS
<1>6. /\ u \o <<e>> \in Seq(S) /\ Len(u \o <<e>>) = p
      /\ \A i \in 1 .. p : (u \o <<e>>)[i] = IF i < p THEN u[i] ELSE e
  <2>1. /\ u \o <<e>> \in Seq(S) /\ Len(u \o <<e>>) = Len(u) + Len(<<e>>)
        /\ \A i \in 1 .. Len(u) + Len(<<e>>) : (u \o <<e>>)[i] =
              IF i <= Len(u) THEN u[i] ELSE <<e>>[i - Len(u)]
    BY <1>3, <1>5, ConcatProperties
  <2>2. Len(u) + Len(<<e>>) = p
    BY <1>1, <1>3, <1>5
  <2>3. \A i \in 1 .. p : (i <= Len(u) <=> i < p) /\ (~(i < p) => i - Len(u) = 1)
    BY <1>1, <1>3
  <2> QED
    BY <2>1, <2>2, <2>3, <1>5
<1> DEFINE x == u \o <<e>>
<1> HIDE DEF x
<1>7. /\ w \in Seq(S) /\ Len(w) = n + 1
      /\ \A i \in 1 .. n + 1 : w[i] = IF i <= p THEN x[i] ELSE v[i - p]
  <2>1. w = x \o v
    BY DEF InsertAt, u, v, x
  <2>2. x \in Seq(S) /\ Len(x) = p
    BY <1>6 DEF x
  <2> HIDE DEF w, n
  <2>3. /\ w \in Seq(S) /\ Len(w) = Len(x) + Len(v)
        /\ \A i \in 1 .. Len(x) + Len(v) : w[i] = IF i <= Len(x) THEN x[i] ELSE v[i - Len(x)]
    BY <2>1, <2>2, <1>4, ConcatProperties
  <2>4. Len(x) + Len(v) = n + 1
    BY <2>2, <1>1, <1>4
  <2> QED
    BY <2>2, <2>3, <2>4
<1>8. \A i \in 1 .. n : w[i] = IF i < p THEN q[i] ELSE IF i = p THEN e ELSE q[i - 1]
  <2> HIDE DEF w, n
  <2> TAKE i \in 1 .. n
  <2>1. i \in 1 .. n + 1
    BY <1>1
  <2>2. CASE i <= p
    <3>1. i \in 1 .. p /\ (i < p => i \in 1 .. p - 1) /\ (i < p \/ i = p)
      BY <2>2, <1>1
    <3>2. w[i] = x[i]
      BY <2>1, <2>2, <1>7
    <3>3. x[i] = IF i < p THEN u[i] ELSE e
      BY <3>1, <1>6 DEF x
    <3> QED
      BY <3>1, <3>2, <3>3, <1>1, <1>3
  <2>3. CASE p < i
    <3>1. i - p \in 1 .. n - p + 1 /\ p + (i - p) - 1 = i - 1 /\ ~(i <= p)
      BY <2>3, <1>1
    <3>2. w[i] = v[i - p]
      BY <2>1, <3>1, <1>7
    <3>3. v[i - p] = q[i - 1]
      BY <3>1, <1>4
    <3> QED
      BY <3>2, <3>3, <2>3, <1>1
  <2> QED
    BY <2>2, <2>3, <1>1
<1> DEFINE r == Front(w)
<1>9. /\ r \in Seq(S) /\ Len(r) = n /\ \A i \in 1 .. n : r[i] = w[i]
  <2>1. r = SubSeq(w, 1, n)
    BY <1>1, <1>7 DEF Front
  <2> HIDE DEF w, n, r
  <2>2. \A i \in 1 .. n : w[i] \in S
    BY <1>1, <1>7, ElementOfSeq
  <2>3. /\ r \in Seq(S) /\ Len(r) = IF 1 <= n THEN n - 1 + 1 ELSE 0
        /\ \A i \in 1 .. n - 1 + 1 : r[i] = w[1 + i - 1]
    BY <2>1, <2>2, <1>1, SubSeqProperties
  <2>4. Len(r) = n /\ n - 1 + 1 = n
    BY ONLY <2>3, <1>1
  <2>5. \A i \in 1 .. n : 1 + i - 1 = i
    BY <1>1
  <2> QED
    BY <2>3, <2>4, <2>5
<1> QED
  <2> HIDE DEF w, n, r
  <2>1. /\ r \in Seq(S) /\ Len(r) = n
        /\ \A i \in 1 .. n : r[i] = IF i < p THEN q[i] ELSE IF i = p THEN e ELSE q[i - 1]
    BY <1>8, <1>9
  <2> QED
    BY <2>1 DEF r, w, n

\* What a store to an address that no entry covers makes of the list.
LEMMA InsertShape ==
  ASSUME WellFormed, Values, ListInv,
         NEW s \in Sizes, NEW a \in StoreAddrs, NEW d \in Words, StoreInsert(s, a, d)
  PROVE  LET n == Len(cursors)
             p == Place(a)
             e == [addr |-> a, size |-> 1, base |-> Len(mem)]
         IN /\ ~loading /\ UNCHANGED <<file, at, loading>> /\ stores' = stores + 1
            /\ n < MaxCursors
            /\ a \in Nat /\ e \in Cursor /\ n \in Nat /\ p \in 1 .. n + 1
            /\ cursors' \in Seq(Cursor) /\ Len(cursors') = n
            /\ \A i \in 1 .. n :
                 cursors'[i] = IF i < p THEN cursors[i] ELSE IF i = p THEN e ELSE cursors[i - 1]
            /\ mem' \in Seq(Word) /\ Len(mem) \in Nat /\ Len(mem') = Len(mem) + 1
            /\ \A k \in 1 .. Len(mem) : mem'[k] = mem[k]
            /\ \A i \in 1 .. n : i < p <=> cursors[i].addr <= a
            /\ \A i \in 1 .. n : ~Covers(cursors[i], a)
<1> DEFINE n == Len(cursors)
           p == Place(a)
           e == [addr |-> a, size |-> 1, base |-> Len(mem)]
           w == Merged([k \in 0 .. 3 |-> Junk], d, s, a % 4)
<1>1. /\ ~loading /\ UNCHANGED <<file, at, loading>> /\ stores' = stores + 1
      /\ n < MaxCursors
      /\ cursors' = Front(InsertAt(cursors, p, e)) /\ mem' = Append(mem, w)
      /\ ~Mapped(a)
  BY DEF StoreInsert, StoreCall
<1>2. /\ a \in Nat /\ a % 4 \in Nat
      /\ cursors \in Seq(Cursor) /\ mem \in Seq(Word)
  BY DEF ListInv, MemType
<1>3. n \in Nat /\ Len(mem) \in Nat /\ DOMAIN cursors = 1 .. n
  BY <1>2, LenProperties
<1>4. e \in Cursor
  BY <1>2, <1>3 DEF Cursor
<1>5. p \in 1 .. n + 1 /\ \A i \in 1 .. n : i < p <=> cursors[i].addr <= a
  BY <1>2, PlaceRight
<1>6. [k \in 0 .. 3 |-> Junk] \in Word
  BY DEF Values, Word
<1>7. w \in Word
  BY <1>2, <1>6, MergedType DEF Values
<1>8. \A i \in 1 .. n : ~Covers(cursors[i], a)
  BY <1>1, <1>3 DEF Mapped
<1> HIDE DEF e, w, p
<1>9. /\ cursors' \in Seq(Cursor) /\ Len(cursors') = n
      /\ \A i \in 1 .. n :
           cursors'[i] = IF i < p THEN cursors[i] ELSE IF i = p THEN e ELSE cursors[i - 1]
  BY <1>1, <1>2, <1>4, <1>5, InsertedFront
<1>10. /\ mem' \in Seq(Word) /\ Len(mem') = Len(mem) + 1
       /\ \A k \in 1 .. Len(mem) : mem'[k] = mem[k]
  BY <1>1, <1>2, <1>7, AppendProperties
<1> QED
  BY <1>1, <1>2, <1>3, <1>4, <1>5, <1>8, <1>9, <1>10 DEF e, p

\* An inserted entry is new, and starts where the array ends; the list that is left
\* (Front) is in order, whatever entry was dropped from it.
LEMMA InsertKeeps ==
  ASSUME WellFormed, Values, ListInv,
         NEW s \in Sizes, NEW a \in StoreAddrs, NEW d \in Words, StoreInsert(s, a, d)
  PROVE  ListInv'
<1> DEFINE n == Len(cursors)
           p == Place(a)
           m == Len(mem)
           e == [addr |-> a, size |-> 1, base |-> m]
<1>1. /\ ~loading /\ UNCHANGED <<file, at, loading>> /\ stores' = stores + 1
      /\ n < MaxCursors /\ MaxCursors \in Nat
      /\ a \in Nat /\ e \in Cursor /\ n \in Nat /\ p \in 1 .. n + 1
      /\ cursors' \in Seq(Cursor) /\ Len(cursors') = n
      /\ \A i \in 1 .. n :
           cursors'[i] = IF i < p THEN cursors[i] ELSE IF i = p THEN e ELSE cursors[i - 1]
      /\ mem' \in Seq(Word) /\ m \in Nat /\ Len(mem') = m + 1
      /\ \A i \in 1 .. n : i < p <=> cursors[i].addr <= a
      /\ \A i \in 1 .. n : ~Covers(cursors[i], a)
  BY InsertShape
<1>2. e.addr = a /\ e.size = 1 /\ e.base = m /\ End(e) = a + 4
  BY <1>1 DEF End
<1>3. cursors \in Seq(Cursor) /\ DOMAIN cursors = 1 .. n /\ DOMAIN cursors' = 1 .. n
  BY <1>1, LenProperties DEF ListInv, MemType
<1>4. \A i \in 1 .. n : /\ cursors[i].size \in Nat \ {0} /\ cursors[i].base \in Nat
                        /\ End(cursors[i]) \in Nat /\ cursors[i].addr < End(cursors[i])
                        /\ cursors[i].addr \in Nat
  BY <1>3, CursorFacts
<1>5. MemType'
  BY <1>1 DEF ListInv, MemType
<1>6. Below' /\ Ascending' /\ Started' /\ Taken'
  BY <1>1 DEF Below, Ascending, Started, Taken
<1> HIDE DEF n, p, m, e
<1>7. CASE p = n + 1
  <2>1. \A i \in 1 .. n : cursors'[i] = cursors[i]
    BY <1>1, <1>7
  <2>2. cursors' = cursors
    BY <1>1, <1>3, <2>1, SeqEqual DEF n
  <2>3. ListOK'
    <3>1. \A i \in 1 .. n : cursors[i].base + cursors[i].size <= m + 1
      BY <1>1, <1>4, ListFacts DEF n, m
    <3> QED
      BY <3>1, <2>2, <1>1, <1>3 DEF ListInv, ListOK
  <2>4. OnWords' /\ Kept'
    BY <1>1, <2>2 DEF ListInv, OnWords, Kept, Mapped
  <2> QED
    BY <2>3, <2>4, <1>5, <1>6 DEF ListInv
<1>8. CASE p \in 1 .. n
  <2>1. cursors[p].addr > a
    BY <1>1, <1>4, <1>8
  <2>2. a % 4 = 0
    <3>1. ~Mapped(a)
      BY <1>1, <1>3 DEF Mapped
    <3>2. a % 4 = 0 \/ \A i \in 1 .. n : cursors[i].addr <= a
      <4>1. Len(cursors) # MaxCursors
        BY <1>1 DEF n
      <4> QED
        BY <3>1, <4>1, <1>1, <1>3 DEF ListInv, Kept
    <3>3. ~(cursors[p].addr <= a)
      BY <2>1, <1>1, <1>4, <1>8
    <3> QED
      BY <3>2, <3>3, <1>8
  \* An entry is an old one or the new one.
  <2>3. ASSUME NEW i \in 1 .. n
        PROVE  \/ i < p /\ cursors'[i] = cursors[i]
               \/ i = p /\ cursors'[i] = e
               \/ p < i /\ i - 1 \in p .. n - 1 /\ i - 1 \in 1 .. n /\ cursors'[i] = cursors[i - 1]
    <3>1. i < p \/ i = p \/ (p < i /\ ~(i < p) /\ i # p /\ i - 1 \in p .. n - 1 /\ i - 1 \in 1 .. n)
      BY <1>1, <1>8
    <3> QED
      BY <3>1, <1>1
  <2>4. \A i \in 1 .. n : i < p => End(cursors[i]) <= a
    BY <1>1, <1>4 DEF Covers
  <2>5. ASSUME NEW i \in p .. n PROVE a + 4 <= cursors[i].addr
    <3>1. i \in 1 .. n /\ ~(i < p)
      BY <1>1
    <3>2. cursors[i].addr > a /\ cursors[i].addr \in Nat
      BY <3>1, <1>1, <1>4
    <3>3. cursors[i].addr % 4 = 0
      BY <3>1, ListFacts DEF n
    <3> DEFINE c == cursors[i].addr
    <3> HIDE DEF c
    <3>4. c \in Nat /\ c > a /\ c % 4 = 0
      BY <3>2, <3>3 DEF c
    <3>5. a + 4 <= c
      BY ONLY <3>4, <2>2, a \in Nat, SMT
    <3> QED
      BY <3>5 DEF c
  <2>6. ASSUME NEW i \in 1 .. n, NEW j \in 1 .. n, i < j
        PROVE  End(cursors[i]) <= cursors[j].addr
    BY <2>6, ListFacts DEF n
  <2>7. ASSUME NEW i \in 1 .. n, NEW j \in 1 .. n, i < j
        PROVE  End(cursors'[i]) <= cursors'[j].addr
    <3>1. CASE j < p
      BY <3>1, <2>3, <2>6, <2>7, <1>1
    <3>2. CASE j = p
      BY <3>2, <2>3, <2>4, <2>7, <1>1, <1>2
    <3>3. CASE p < j
      <4>1. j - 1 \in p .. n - 1 /\ j - 1 \in 1 .. n /\ cursors'[j] = cursors[j - 1]
        BY <3>3, <2>3, <1>1
      <4>2. CASE i < p
        <5>1. i < j - 1
          BY <4>1, <4>2, <1>1
        <5> QED
          BY <4>1, <4>2, <5>1, <2>3, <2>6, <1>1
      <4>3. CASE i = p
        <5>1. a + 4 <= cursors[j - 1].addr
          BY <4>1, <2>5, <1>1
        <5>2. cursors'[i] = e
          BY <4>3, <2>3, <1>1
        <5>3. End(cursors'[i]) = a + 4
          BY <5>2, <1>2
        <5> QED
          BY <4>1, <5>1, <5>3
      <4>4. CASE p < i
        <5>1. i - 1 \in 1 .. n /\ cursors'[i] = cursors[i - 1] /\ i - 1 < j - 1
          BY <4>4, <2>3, <2>7, <1>1
        <5> QED
          BY <4>1, <5>1, <2>6
      <4> QED
        BY <4>2, <4>3, <4>4, <1>1
    <3> QED
      BY <3>1, <3>2, <3>3, <1>1
  <2>8. ASSUME NEW i \in 1 .. n
        PROVE  /\ cursors[i].base + cursors[i].size <= m
               /\ cursors[i].addr % 4 = 0
    BY ListFacts DEF n, m
  <2>9. ASSUME NEW i \in 1 .. n
        PROVE  /\ cursors'[i].size > 0 /\ cursors'[i].base + cursors'[i].size <= m + 1
               /\ cursors'[i].addr % 4 = 0
    <3>1. CASE cursors'[i] = e
      BY <3>1, <2>2, <1>1, <1>2
    <3>2. CASE \E k \in 1 .. n : cursors'[i] = cursors[k]
      <4>1. PICK k \in 1 .. n : cursors'[i] = cursors[k]
        BY <3>2
      <4>2. cursors[k].size \in Nat \ {0} /\ cursors[k].base \in Nat
        BY <1>4
      <4>3. cursors[k].base + cursors[k].size <= m /\ cursors[k].addr % 4 = 0
        BY <2>8
      <4>4. m \in Nat
        BY <1>1
      <4> QED
        BY <4>1, <4>2, <4>3, <4>4
    <3> QED
      BY <3>1, <3>2, <2>3
  <2>10. ASSUME NEW i \in 1 .. n, NEW j \in 1 .. n, i < j
         PROVE  \/ cursors'[i].base + cursors'[i].size <= cursors'[j].base
                \/ cursors'[j].base + cursors'[j].size <= cursors'[i].base
    <3>1. ASSUME NEW k \in 1 .. n, NEW l \in 1 .. n, k < l
          PROVE  \/ cursors[k].base + cursors[k].size <= cursors[l].base
                 \/ cursors[l].base + cursors[l].size <= cursors[k].base
      BY <3>1, ListFacts DEF n
    <3>2. CASE i = p
      <4>1. j - 1 \in 1 .. n /\ cursors'[j] = cursors[j - 1] /\ cursors'[i] = e
        BY <3>2, <2>3, <2>10, <1>1
      <4> QED
        BY <4>1, <2>8, <1>2
    <3>3. CASE j = p
      <4>1. cursors'[i] = cursors[i] /\ cursors'[j] = e
        BY <3>3, <2>3, <2>10, <1>1
      <4> QED
        BY <4>1, <2>8, <1>2
    <3>4. CASE i # p /\ j # p
      <4>1. PICK k \in 1 .. n, l \in 1 .. n :
              k < l /\ cursors'[i] = cursors[k] /\ cursors'[j] = cursors[l]
        <5>1. CASE j < p
          BY <5>1, <2>3, <2>10, <1>1
        <5>2. CASE i < p /\ p < j
          <6>1. j - 1 \in 1 .. n /\ i < j - 1 /\ cursors'[j] = cursors[j - 1]
            BY <5>2, <2>3, <1>1
          <6>2. cursors'[i] = cursors[i]
            BY <5>2, <2>3, <1>1
          <6> QED
            BY <6>1, <6>2
        <5>3. CASE p < i
          <6>1. i - 1 \in 1 .. n /\ cursors'[i] = cursors[i - 1]
            BY <5>3, <2>3, <1>1
          <6>2. j - 1 \in 1 .. n /\ cursors'[j] = cursors[j - 1] /\ i - 1 < j - 1
            BY <5>3, <2>3, <2>10, <1>1
          <6> QED
            BY <6>1, <6>2
        <5> QED
          BY <5>1, <5>2, <5>3, <3>4, <2>10, <1>1
      <4> QED
        BY <4>1, <3>1
    <3> QED
      BY <3>2, <3>3, <3>4
  <2>11. ListOK'
    BY <2>7, <2>9, <2>10, <1>1, <1>3 DEF ListOK
  <2>12. OnWords'
    BY <2>9, <1>3 DEF OnWords
  <2>13. Kept'
    <3> SUFFICES ASSUME NEW b \in StoreAddrs, b % 4 # 0
                 PROVE  \/ \E i \in 1 .. n : Covers(cursors'[i], b)
                        \/ \A i \in 1 .. n : cursors'[i].addr <= b
      BY <1>3 DEF Kept, Mapped
    <3>1. \/ \E i \in 1 .. n : Covers(cursors[i], b)
          \/ \A i \in 1 .. n : cursors[i].addr <= b
      <4>1. Len(cursors) # MaxCursors
        BY <1>1 DEF n
      <4> QED
        BY <4>1, <1>1, <1>3 DEF ListInv, Kept, Mapped
    <3>2. b \in Nat
      OBVIOUS
    \* Whoever is above the last entry is above the new list.
    <3>3. ASSUME cursors[n].addr <= b, NEW i \in 1 .. n PROVE cursors'[i].addr <= b
      <4>1. \A k \in 1 .. n : cursors[k].addr <= cursors[n].addr
        <5> TAKE k \in 1 .. n
        <5>1. n \in 1 .. n /\ (k = n \/ k < n)
          BY <1>1
        <5>2. CASE k = n
          BY <5>1, <5>2, <1>4
        <5>3. CASE k < n
          BY <5>1, <5>3, <2>6, <1>4
        <5> QED
          BY <5>1, <5>2, <5>3
      <4>2. n \in 1 .. n /\ cursors[n].addr \in Nat
        BY <1>1, <1>4
      <4>3. a <= b
        BY <4>1, <4>2, <2>1, <1>1, <1>4, <1>8, <3>2, <3>3
      <4>4. CASE cursors'[i] = e
        BY <4>3, <4>4, <1>2
      <4>5. CASE \E k \in 1 .. n : cursors'[i] = cursors[k]
        BY <4>1, <4>2, <4>5, <1>4, <3>2, <3>3
      <4> QED
        BY <4>4, <4>5, <2>3
    <3>4. CASE \E i \in 1 .. n : Covers(cursors[i], b)
      <4>1. PICK i \in 1 .. n : Covers(cursors[i], b)
        BY <3>4
      <4>2. CASE i = n
        BY <4>1, <4>2, <3>3 DEF Covers
      <4>3. CASE i < p
        BY <4>1, <4>3, <2>3, <1>1
      <4>4. CASE ~(i < p) /\ i # n
        <5>1. i + 1 \in 1 .. n /\ ~(i + 1 < p) /\ i + 1 # p /\ (i + 1) - 1 = i
          BY <4>4, <1>1
        <5>2. cursors'[i + 1] = cursors[i]
          BY <5>1, <1>1
        <5> QED
          BY <4>1, <5>1, <5>2
      <4> QED
        BY <4>2, <4>3, <4>4
    <3>5. CASE \A i \in 1 .. n : cursors[i].addr <= b
      BY <3>3, <3>5, <1>1, <1>8
    <3> QED
      BY <3>1, <3>4, <3>5
  <2> QED
    BY <2>11, <2>12, <2>13, <1>5, <1>6 DEF ListInv
<1> QED
  BY <1>1, <1>7, <1>8

\* The count of the entries is that of the stretches.
LEMMA CountKeeps ==
  ASSUME WellFormed, MemType, Counted, Load
  PROVE  Counted'
<1> DEFINE n == Len(cursors)
           b == file[at]
<1>1. file \in Files /\ Len(file) \in Nat /\ cursors \in Seq(Cursor) /\ n \in Nat
  BY FileFacts, LenProperties DEF MemType
<1>2. IsFiniteSet(Begun(at))
  <2>1. IsFiniteSet(1 .. Len(file)) /\ Begun(at) \in SUBSET (1 .. Len(file))
    BY <1>1, FS_Interval DEF Begun, Stretches
  <2> QED
    BY <2>1, FS_Subset
<1>3. CASE LoadApart \/ LoadJoined
  <2>1. /\ loading /\ loading' /\ at \in 1 .. Len(file) /\ at \in Nat /\ at' = at + 1
        /\ file' = file /\ b.data # <<>> /\ b.addr \in Nat
        /\ Joins <=> n > 0 /\ End(cursors[n]) = b.addr
    BY <1>3, ReadShape DEF LoadApart, LoadJoined, Block
  <2>2. at > 1 => n > 0 /\ End(cursors[n]) = BlockEnd(file[at - 1])
    BY <2>1 DEF Counted
  <2>3. at = 1 => n = 0
    <3>1. at = 1 => Begun(at) = {}
      BY <1>1 DEF Begun, Stretches
    <3> QED
      BY <3>1, <2>1, FS_EmptySet DEF Counted
  <2>4. Joins <=> at \notin Stretches(file)
    <3>1. CASE at = 1
      BY <3>1, <2>1, <2>3 DEF Stretches
    <3>2. CASE at > 1
      BY <3>2, <2>1, <2>2 DEF Stretches
    <3> QED
      BY <3>1, <3>2, <2>1
  <2>5. Begun(at') = IF Joins THEN Begun(at) ELSE Begun(at) \cup {at}
    <3>1. \A i \in 1 .. Len(file) : i < at + 1 <=> (i < at \/ i = at)
      BY <2>1
    <3> QED
      BY <3>1, <2>1, <2>4 DEF Begun, Stretches
  <2>6. Begun(at)' = Begun(at')
    BY <2>1 DEF Begun, Stretches
  <2>7. at' > 1 /\ at' - 1 = at /\ file'[at' - 1] = b
    BY <2>1
  <2>8. CASE LoadApart
    <3>1. at \notin Begun(at) /\ ~Joins
      BY <2>1, <2>8 DEF Begun, LoadApart
    <3>2. Cardinality(Begun(at')) = Cardinality(Begun(at)) + 1
      BY <3>1, <2>5, <1>2, FS_AddElement
    <3>3. Len(cursors') = n + 1 /\ End(cursors'[n + 1]) = BlockEnd(b)
      BY <2>8, ApartShape
    <3>4. n = Cardinality(Begun(at))
      BY <2>1 DEF Counted
    <3> QED
      BY <3>2, <3>3, <3>4, <2>1, <2>6, <2>7, <1>1 DEF Counted
  <2>9. CASE LoadJoined
    <3>1. Joins
      BY <2>9 DEF LoadJoined
    <3>2. Len(cursors') = n /\ n > 0 /\ End(cursors'[n]) = BlockEnd(b)
      BY <2>9, JoinedShape
    <3>3. n = Cardinality(Begun(at))
      BY <2>1 DEF Counted
    <3> QED
      BY <3>1, <3>2, <3>3, <2>1, <2>5, <2>6, <2>7 DEF Counted
  <2> QED
    BY <1>3, <2>8, <2>9
<1>4. CASE LoadCutOff \/ LoadEnd
  BY <1>4 DEF LoadCutOff, LoadEnd, Counted
<1> QED
  BY <1>3, <1>4 DEF Load

\* Nothing is read, nothing counted.
LEMMA InitCounted ==
  ASSUME Init
  PROVE  Counted
<1>1. at = 1 /\ Len(cursors) = 0 /\ file \in Files
  BY DEF Init, Boot
<1>2. Begun(at) = {}
  BY <1>1 DEF Begun, Stretches
<1>3. Len(cursors) = Cardinality(Begun(at))
  BY <1>1, <1>2, FS_EmptySet
<1>4. ~(at > 1)
  BY <1>1
<1> QED
  BY <1>3, <1>4 DEF Counted

\* The inductive step of ListOKHolds, by the actions of Next.
LEMMA ListStep ==
  ASSUME WellFormed, Values, StoresOnWords, ListInv, Counted, [Next]_mVars
  PROVE  ListInv' /\ Counted'
<1>1. CASE Load
  <2>1. Counted'
    BY <1>1, CountKeeps DEF ListInv
  <2> QED
    BY <1>1, <2>1, JoinedKeeps, ApartKeeps, CutOffKeeps, EndKeeps DEF Load
<1>2. CASE Store
  <2>1. ~loading /\ ~loading'
    BY <1>2 DEF Store, StoreMapped, StoreInsert, StoreRefused, StoreCall
  <2>2. Counted'
    BY <2>1 DEF Counted
  <2> QED
    BY <1>2, <2>2, MappedKeeps, InsertKeeps, RefusedKeeps DEF Store
<1>3. CASE UNCHANGED mVars
  <2>1. UNCHANGED <<file, at, loading, cursors, mem, stores>>
    BY <1>3 DEF mVars
  <2>2. ListInv'
    BY <2>1 DEF ListInv, MemType, ListOK, OnWords, Below, Ascending, Started, Taken,
                Kept, Mapped
  <2>3. Counted'
    BY <2>1 DEF Counted, Begun
  <2> QED
    BY <2>2, <2>3
<1> QED
  BY <1>1, <1>2, <1>3 DEF Next

\* The list of stretches is right at all times, for every set of files with sorted
\* blocks (read_input_file merges them, or gives them an entry) and for stores at
\* every address, by whole words in the holes between the blocks (StoresOnWords:
\* write inserts an entry there that hides none, and drops the last one): entries in ascending
\* order, apart from one another and with words of their own.
THEOREM ListOKHolds ==
  ASSUME WellFormed, Values, StoresOnWords
  PROVE  Spec => []ListOK
<1>1. Init => ListInv /\ Counted
  BY InitCounted, InitList
<1>2. ListInv /\ Counted /\ [Next]_mVars => ListInv' /\ Counted'
  BY ListStep
<1>3. ListInv => ListOK
  BY DEF ListInv
<1> QED
  BY <1>1, <1>2, <1>3, PTL DEF Spec

----------------------------------------------------------------------------
(* The refinement of FlatMemory.                                           *)

\* Only the last block may be without words, and then it joins nothing.
FullBlocks == \A f \in Files : \A k \in 1 .. Len(f) :
  \/ f[k].data # <<>>
  \/ k = Len(f) /\ (k > 1 => BlockEnd(f[k - 1]) # f[k].addr)

\* There is an entry for the last block.
Fits == \A f \in Files : Cardinality({k \in Stretches(f) : k < Len(f)}) < MaxCursors

\* A store goes into a block or above all, or the table has no entry left for it.
StoresKept == \A f \in Files : \A a \in StoreAddrs : InOrAfter(f, a) \/ Full(f)

\* Where entry i has the word of address a.
WordIn(cs, i, a) == cs[i].base + (a - cs[i].addr) \div 4 + 1

\* The last entry ends with the array.
Packed == loading =>
  /\ Len(cursors) = 0 => Len(mem) = 0
  /\ Len(cursors) > 0 =>
       cursors[Len(cursors)].base + cursors[Len(cursors)].size = Len(mem)

\* The words of the blocks that were read are where their addresses are.
Contents == loading => \A k \in 1 .. at - 1 : \A j \in 1 .. Len(file[k].data) :
  \E i \in 1 .. Len(cursors) :
    LET a == file[k].addr + 4 * (j - 1)
    IN Covers(cursors[i], a) /\ mem[WordIn(cursors, i, a)] = file[k].data[j]

\* The list has no address that is not in the blocks.
Nothing == loading => \A a \in Nat :
  Mapped(a) => \E k \in 1 .. at - 1 : InBlock(file[k], a)

\* When the file is read the list has the addresses of its blocks and no others,
\* for ever ...
Whole == ~loading => \A a \in Nat :
  Mapped(a) <=> \E k \in 1 .. Len(file) : InBlock(file[k], a)

\* ... and no store finds an entry above it, if it finds none that covers it.
Outside == ~loading => \A a \in StoreAddrs :
  \/ Mapped(a) \/ Len(cursors) = MaxCursors
  \/ \A i \in DOMAIN cursors : cursors[i].addr <= a

FlatInv == Packed /\ Contents /\ Nothing /\ Whole /\ Outside

\* The word of an address in the array.
LEMMA WordInRange ==
  ASSUME ListInv, NEW a \in Nat, NEW i \in 1 .. Len(cursors), Covers(cursors[i], a)
  PROVE  WordIn(cursors, i, a) \in 1 .. Len(mem)
<1>1. Mapped(a)
  BY LenProperties DEF Mapped, ListInv, MemType
<1>2. WordAt(a) = WordIn(cursors, i, a)
  BY FirstRight DEF WordIn
<1> QED
  BY <1>1, <1>2, WordInside

\* The j-th of the words that come z words after c.
LEMMA WordOffset ==
  ASSUME NEW c \in Nat, NEW z \in Nat, NEW j \in Nat \ {0}, NEW a \in Nat,
         a = c + 4 * z + 4 * (j - 1)
  PROVE  (a - c) \div 4 = z + j - 1
<1>1. a - c = 4 * (z + j - 1)
  OBVIOUS
<1>2. \A q \in Nat : (4 * q) \div 4 = q
  OBVIOUS
<1>3. z + j - 1 \in Nat
  OBVIOUS
<1> QED
  BY ONLY <1>1, <1>2, <1>3

\* The words of a block are in the array where its own entry has them.
LEMMA ApartFlat ==
  ASSUME WellFormed, ListInv, FlatInv, LoadApart
  PROVE  FlatInv'
<1> DEFINE b == file[at]
           n == Len(cursors)
           m == Len(mem)
           z == Len(b.data)
<1>1. MemType /\ cursors \in Seq(Cursor) /\ file \in Files /\ Len(file) \in Nat
  BY FileFacts DEF ListInv, MemType
<1>2. /\ loading /\ at \in 1 .. Len(file) /\ at \in Nat
      /\ b.addr \in Nat /\ z \in Nat \ {0} /\ n \in Nat /\ m \in Nat
      /\ mem' \in Seq(Word) /\ Len(mem') = m + z
      /\ \A k \in 1 .. m : mem'[k] = mem[k]
      /\ \A k \in 1 .. z : mem'[m + k] = b.data[k]
      /\ at' = at + 1 /\ loading' = loading /\ file' = file
  BY <1>1, ReadShape DEF LoadApart
<1>3. /\ cursors' \in Seq(Cursor) /\ Len(cursors') = n + 1
      /\ \A i \in 1 .. n : cursors'[i] = cursors[i]
      /\ cursors'[n + 1] = [addr |-> b.addr, size |-> z, base |-> m]
      /\ End(cursors'[n + 1]) = BlockEnd(b)
  BY <1>1, ApartShape
<1>4. /\ cursors'[n + 1].addr = b.addr /\ cursors'[n + 1].size = z
      /\ cursors'[n + 1].base = m
  BY <1>3
<1>5. /\ DOMAIN cursors = 1 .. n /\ DOMAIN cursors' = 1 .. n + 1
      /\ \A i \in 1 .. n + 1 : i = n + 1 \/ i \in 1 .. n
      /\ n + 1 \in 1 .. n + 1 /\ \A i \in 1 .. n : i \in 1 .. n + 1
  BY <1>1, <1>2, <1>3, LenProperties
<1>6. BlockEnd(b) = b.addr + 4 * z
  BY <1>1, <1>2, FileFacts
<1>7. at' - 1 = at /\ \A k \in 1 .. at : k = at \/ k \in 1 .. at - 1
  BY <1>2
<1>n. b.addr \in Nat /\ z \in Nat \ {0} /\ n \in Nat /\ m \in Nat
  BY <1>2
<1> HIDE DEF n, m, z
<1>8. Packed'
  BY <1>2, <1>3, <1>4 DEF Packed
<1>9. Contents'
  <2> SUFFICES ASSUME NEW k \in 1 .. at' - 1, NEW j \in 1 .. Len(file'[k].data)
               PROVE  \E i \in 1 .. Len(cursors') :
                        LET a == file'[k].addr + 4 * (j - 1)
                        IN /\ Covers(cursors'[i], a)
                           /\ mem'[WordIn(cursors', i, a)] = file'[k].data[j]
    BY DEF Contents
  <2> SUFFICES \E i \in 1 .. n + 1 :
                 LET a == file[k].addr + 4 * (j - 1)
                 IN /\ Covers(cursors'[i], a)
                    /\ mem'[WordIn(cursors', i, a)] = file[k].data[j]
    BY <1>2, <1>3
  <2> DEFINE a == file[k].addr + 4 * (j - 1)
  <2>1. CASE k = at
    <3>1. j \in 1 .. z /\ j \in Nat \ {0}
      BY <2>1, <1>2 DEF z
    <3>3. a = b.addr + 4 * (j - 1)
      BY <2>1
    <3>2. Covers(cursors'[n + 1], a)
      <4> DEFINE c == b.addr
                 e == BlockEnd(b)
      <4>1. c \in Nat /\ z \in Nat /\ e = c + 4 * z /\ a = c + 4 * (j - 1)
        BY <3>3, <1>6, <1>n
      <4>2. cursors'[n + 1].addr = c /\ End(cursors'[n + 1]) = e
        BY <1>3, <1>4
      <4> HIDE DEF a, c, e
      <4>3. c <= a /\ e > a
        BY ONLY <3>1, <4>1
      <4> QED
        BY ONLY <4>2, <4>3 DEF Covers
    <3>4. (a - b.addr) \div 4 = 0 + j - 1
      <4> DEFINE c == b.addr
      <4>1. c \in Nat /\ a = c + 4 * (j - 1)
        BY <3>3, <1>n
      <4> HIDE DEF a, c
      <4>2. a \in Nat /\ a = c + 4 * 0 + 4 * (j - 1)
        BY ONLY <3>1, <4>1
      <4>3. (a - c) \div 4 = 0 + j - 1
        BY ONLY <3>1, <4>1, <4>2, WordOffset
      <4> QED
        BY <4>3 DEF c
    <3>5. WordIn(cursors', n + 1, a) = m + (0 + j - 1) + 1
      BY <3>4, <1>4 DEF WordIn
    <3>6. m + (0 + j - 1) + 1 = m + j
      BY <3>1, <1>2
    <3>7. mem'[WordIn(cursors', n + 1, a)] = b.data[j]
      BY <3>1, <3>5, <3>6, <1>2
    <3> QED
      BY <3>2, <3>7, <2>1, <1>5
  <2>2. CASE k \in 1 .. at - 1
    <3>1. PICK i \in 1 .. n : Covers(cursors[i], a) /\ mem[WordIn(cursors, i, a)] = file[k].data[j]
      BY <2>2, <1>2 DEF FlatInv, Contents, n
    <3>2. a \in Nat
      <4>1. file[k].addr \in Nat /\ Len(file[k].data) \in Nat
        <5>1. k \in 1 .. Len(file)
          BY <1>1, <1>2, <2>2
        <5> QED
          BY <5>1, <1>1, FileFacts
      <4> QED
        BY <4>1
    <3>3. WordIn(cursors, i, a) \in 1 .. m
      BY <3>1, <3>2, WordInRange DEF n, m
    <3>4. WordIn(cursors', i, a) = WordIn(cursors, i, a) /\ cursors'[i] = cursors[i]
      BY <1>3 DEF WordIn
    <3> QED
      BY <3>1, <3>3, <3>4, <1>2, <1>5
  <2> QED
    BY <2>1, <2>2, <1>7
<1>10. Nothing'
  <2> SUFFICES ASSUME NEW a \in Nat, NEW i \in 1 .. n + 1, Covers(cursors'[i], a)
               PROVE  \E k \in 1 .. at : InBlock(file[k], a)
    BY <1>2, <1>5, <1>7 DEF Nothing, Mapped
  <2>1. CASE i = n + 1
    BY <2>1, <1>2, <1>3, <1>4 DEF Covers, InBlock
  <2>2. CASE i \in 1 .. n
    <3>1. Mapped(a)
      BY <2>2, <1>3, <1>5 DEF Mapped
    <3>2. PICK k \in 1 .. at - 1 : InBlock(file[k], a)
      BY <3>1, <1>2 DEF FlatInv, Nothing
    <3> QED
      BY <3>2, <1>2
  <2> QED
    BY <2>1, <2>2, <1>5
<1> QED
  BY <1>2, <1>8, <1>9, <1>10 DEF FlatInv, Whole, Outside

\* The words of a joined block are where the lengthened entry has them: its stretch
\* and the array end together (Packed).
LEMMA JoinedFlat ==
  ASSUME WellFormed, ListInv, FlatInv, LoadJoined
  PROVE  FlatInv'
<1> DEFINE b == file[at]
           n == Len(cursors)
           m == Len(mem)
           z == Len(b.data)
<1>1. MemType /\ cursors \in Seq(Cursor) /\ file \in Files /\ Len(file) \in Nat
  BY FileFacts DEF ListInv, MemType
<1>2. /\ loading /\ at \in 1 .. Len(file) /\ at \in Nat
      /\ b.addr \in Nat /\ z \in Nat \ {0} /\ n \in Nat /\ m \in Nat
      /\ mem' \in Seq(Word) /\ Len(mem') = m + z
      /\ \A k \in 1 .. m : mem'[k] = mem[k]
      /\ \A k \in 1 .. z : mem'[m + k] = b.data[k]
      /\ at' = at + 1 /\ loading' = loading /\ file' = file
  BY <1>1, ReadShape DEF LoadJoined
<1>3. /\ n > 0 /\ End(cursors[n]) = b.addr
      /\ cursors' \in Seq(Cursor) /\ Len(cursors') = n
      /\ \A i \in 1 .. n - 1 : cursors'[i] = cursors[i]
      /\ cursors'[n].addr = cursors[n].addr /\ cursors'[n].base = cursors[n].base
      /\ cursors'[n].size = cursors[n].size + z
      /\ End(cursors'[n]) = BlockEnd(b)
  BY <1>1, JoinedShape
<1>4. /\ DOMAIN cursors = 1 .. n /\ DOMAIN cursors' = 1 .. n
      /\ n \in 1 .. n /\ \A i \in 1 .. n : i = n \/ i \in 1 .. n - 1
  BY <1>1, <1>2, <1>3, LenProperties
<1>5. /\ cursors[n].addr \in Nat /\ cursors[n].size \in Nat /\ cursors[n].base \in Nat
      /\ End(cursors[n]) = cursors[n].addr + 4 * cursors[n].size
  BY <1>1, <1>4, CursorFacts
<1>6. BlockEnd(b) = b.addr + 4 * z
  BY <1>1, <1>2, FileFacts
<1>7. at' - 1 = at /\ \A k \in 1 .. at : k = at \/ k \in 1 .. at - 1
  BY <1>2
<1>n. b.addr \in Nat /\ z \in Nat \ {0} /\ n \in Nat /\ m \in Nat
  BY <1>2
<1>8. cursors[n].base + cursors[n].size = m
  BY <1>2, <1>3 DEF FlatInv, Packed
<1> HIDE DEF n, m, z
<1>9. Packed'
  <2>1. cursors'[n].base + cursors'[n].size = cursors[n].base + (cursors[n].size + z)
    BY <1>3
  <2>2. cursors[n].base + (cursors[n].size + z) = (cursors[n].base + cursors[n].size) + z
    BY <1>5, <1>n
  <2> QED
    BY <2>1, <2>2, <1>2, <1>3, <1>8 DEF Packed
<1>10. \A i \in 1 .. n : cursors'[i].addr = cursors[i].addr /\ cursors'[i].base = cursors[i].base
  BY <1>3, <1>4
<1>11. ASSUME NEW i \in 1 .. n, NEW a \in Nat, Covers(cursors[i], a)
       PROVE  Covers(cursors'[i], a) /\ WordIn(cursors', i, a) = WordIn(cursors, i, a)
  <2>1. CASE i = n
    <3>1. cursors[n].addr <= a /\ End(cursors[n]) > a
      BY <2>1, <1>11 DEF Covers
    <3>2. cursors'[n].addr <= a /\ End(cursors'[n]) > a
      <4>1. End(cursors'[n]) = End(cursors[n]) + 4 * z /\ cursors'[n].addr = cursors[n].addr
        BY <1>3, <1>6
      <4>2. End(cursors[n]) \in Nat
        BY <1>3, <1>n
      <4> QED
        BY <3>1, <4>1, <4>2, <1>n
    <3> QED
      BY <3>2, <2>1, <1>10 DEF Covers, WordIn
  <2>2. CASE i \in 1 .. n - 1
    BY <2>2, <1>3, <1>11 DEF WordIn
  <2> QED
    BY <2>1, <2>2, <1>4
<1>12. Contents'
  <2> SUFFICES ASSUME NEW k \in 1 .. at, NEW j \in 1 .. Len(file[k].data)
               PROVE  \E i \in 1 .. n :
                        LET a == file[k].addr + 4 * (j - 1)
                        IN /\ Covers(cursors'[i], a)
                           /\ mem'[WordIn(cursors', i, a)] = file[k].data[j]
    <3>1. at' - 1 = at /\ file' = file
      BY <1>2, <1>7
    <3>2. Len(cursors') = n
      BY <1>3
    <3> QED
      BY <3>1, <3>2 DEF Contents
  <2> DEFINE a == file[k].addr + 4 * (j - 1)
  <2>1. CASE k = at
    <3> DEFINE c == cursors[n].addr
               y == cursors[n].size
               u == cursors[n].base
    <3>1. j \in 1 .. z /\ j \in Nat \ {0}
      BY <2>1, <1>2 DEF z
    <3>2. b.addr = c + 4 * y /\ a = b.addr + 4 * (j - 1)
      BY <2>1, <1>3, <1>5
    <3>3. c \in Nat /\ y \in Nat /\ u \in Nat /\ u + y = m
      BY <1>5, <1>8
    <3>4. Covers(cursors'[n], a)
      <4>1. c <= a /\ a < b.addr + 4 * z
        <5> HIDE DEF a, b, c, y, u
        <5> QED
          BY ONLY <3>1, <3>2, <3>3, <1>n
      <4> QED
        BY <4>1, <1>3, <1>6 DEF Covers
    <3>5. (a - c) \div 4 = y + j - 1 /\ u + (y + j - 1) + 1 = m + j
      <4> HIDE DEF a, b, c, y, u
      <4>1. a \in Nat /\ a = c + 4 * y + 4 * (j - 1)
        BY ONLY <3>1, <3>2, <3>3
      <4>2. u + (y + j - 1) + 1 = m + j
        BY ONLY <3>1, <3>3
      <4> QED
        BY <4>1, <4>2, <3>1, <3>3, WordOffset
    <3>6. WordIn(cursors', n, a) = u + (y + j - 1) + 1
      BY <3>5, <1>3 DEF WordIn
    <3>7. mem'[WordIn(cursors', n, a)] = b.data[j]
      BY <3>1, <3>5, <3>6, <1>2
    <3> QED
      BY <3>4, <3>7, <2>1, <1>4
  <2>2. CASE k \in 1 .. at - 1
    <3>1. PICK i \in 1 .. n : Covers(cursors[i], a) /\ mem[WordIn(cursors, i, a)] = file[k].data[j]
      BY <2>2, <1>2 DEF FlatInv, Contents, n
    <3>2. a \in Nat
      <4>1. file[k].addr \in Nat /\ Len(file[k].data) \in Nat
        <5>1. k \in 1 .. Len(file)
          BY <1>1, <1>2, <2>2
        <5> QED
          BY <5>1, <1>1, FileFacts
      <4> QED
        BY <4>1
    <3>3. WordIn(cursors, i, a) \in 1 .. m
      BY <3>1, <3>2, WordInRange DEF n, m
    <3> HIDE DEF a
    <3>4. Covers(cursors'[i], a) /\ WordIn(cursors', i, a) = WordIn(cursors, i, a)
      BY <3>1, <3>2, <1>11
    <3>5. mem'[WordIn(cursors', i, a)] = file[k].data[j]
      BY <3>1, <3>3, <3>4, <1>2
    <3> QED
      BY <3>4, <3>5 DEF a
  <2> QED
    BY <2>1, <2>2, <1>7
<1>13. Nothing'
  <2> SUFFICES ASSUME NEW a \in Nat, NEW i \in 1 .. n, Covers(cursors'[i], a)
               PROVE  \E k \in 1 .. at : InBlock(file[k], a)
    BY <1>2, <1>4, <1>7 DEF Nothing, Mapped
  <2>1. CASE Covers(cursors[i], a)
    <3>1. Mapped(a)
      BY <2>1, <1>4 DEF Mapped
    <3>2. PICK k \in 1 .. at - 1 : InBlock(file[k], a)
      BY <3>1, <1>2 DEF FlatInv, Nothing
    <3> QED
      BY <3>2, <1>2
  <2>2. CASE ~Covers(cursors[i], a)
    <3>1. i = n
      BY <2>2, <1>3, <1>4
    <3>2. b.addr <= a /\ a < BlockEnd(b)
      BY <3>1, <2>2, <1>2, <1>3, <1>5, <1>6 DEF Covers
    <3> QED
      BY <3>2, <1>2 DEF InBlock
  <2> QED
    BY <2>1, <2>2
<1> QED
  BY <1>2, <1>9, <1>12, <1>13 DEF FlatInv, Whole, Outside

\* When the loading ends, every block with words is in, and nothing is cut off.
LEMMA AllRead ==
  ASSUME WellFormed, FullBlocks, Fits, ListInv, Counted, FlatInv, LoadEnd \/ LoadCutOff
  PROVE  /\ loading /\ loading' = FALSE
         /\ UNCHANGED <<file, at, cursors, mem>>
         /\ \A k \in 1 .. Len(file) : k \in 1 .. at - 1 \/ Len(file[k].data) = 0
<1> DEFINE n == Len(cursors)
<1>1. /\ file \in Files /\ Len(file) \in Nat /\ at \in Nat \ {0}
      /\ cursors \in Seq(Cursor) /\ n \in Nat /\ mem \in Seq(Word)
  BY FileFacts, LenProperties DEF ListInv, MemType
<1>2. loading /\ loading' = FALSE
  BY DEF LoadEnd, LoadCutOff, Turn
<1>3. CASE LoadEnd
  <2>1. CASE at > Len(file)
    <3>1. \A k \in 1 .. Len(file) : k \in 1 .. at - 1
      BY <2>1, <1>1
    <3> QED
      BY <3>1, <1>2, <1>3 DEF LoadEnd
  <2>2. CASE at <= Len(file)
    <3> DEFINE T == {k \in Stretches(file) : k < Len(file)}
    <3>1. n = Cardinality(Begun(at)) /\ n = MaxCursors
      BY <2>2, <1>1, <1>2, <1>3 DEF Counted, LoadEnd
    <3>2. IsFiniteSet(1 .. Len(file)) /\ T \in SUBSET (1 .. Len(file))
      BY <1>1, FS_Interval DEF Stretches
    <3>3. IsFiniteSet(T)
      BY <3>2, FS_Subset
    <3>4. Begun(at) \in SUBSET T
      BY <2>2, <1>1 DEF Begun, Stretches
    <3>5. Cardinality(Begun(at)) <= Cardinality(T) /\ Cardinality(T) \in Nat
      BY <3>3, <3>4, FS_Subset, FS_CardinalityType
    <3>6. Cardinality(T) < MaxCursors
      BY <1>1 DEF Fits
    <3> QED
      BY <3>1, <3>5, <3>6
  <2>3. at > Len(file) \/ at <= Len(file)
    BY <1>1
  <2> QED
    BY <2>1, <2>2, <2>3
<1>4. CASE LoadCutOff
  <2>1. at \in 1 .. Len(file) /\ file[at].data = <<>>
    BY <1>1, <1>4 DEF LoadCutOff, Turn, Block
  <2>2. at = Len(file) /\ (at > 1 => BlockEnd(file[at - 1]) # file[at].addr)
    BY <2>1, <1>1 DEF FullBlocks
  <2>3. ~Joins
    <3>1. CASE at = 1
      <4>1. Begun(at) = {}
        BY <3>1, <1>1 DEF Begun, Stretches
      <4>2. n = 0
        BY <4>1, <1>2, FS_EmptySet DEF Counted
      <4> QED
        BY <4>2, <1>1, EmptySeq DEF Joins
    <3>2. CASE at > 1
      BY <3>2, <2>2, <1>2 DEF Counted, Joins, Last, Block
    <3> QED
      BY <3>1, <3>2, <1>1
  <2>4. cursors' = cursors
    BY <2>3, <1>4 DEF LoadCutOff
  <2>5. MemWords(cursors) = Len(mem)
    BY <1>1, <1>2, EmptySeq DEF MemWords, Last, FlatInv, Packed
  <2>6. mem' = SubSeq(mem, 1, Len(mem))
    BY <2>4, <2>5, <1>4 DEF LoadCutOff
  <2>7. mem' = mem
    BY <2>6, <1>1, SubSeqFull
  <2>8. \A k \in 1 .. Len(file) : k \in 1 .. at - 1 \/ Len(file[k].data) = 0
    <3>1. Len(file[at].data) = 0
      BY <2>1
    <3>2. \A k \in 1 .. Len(file) : k = at \/ k \in 1 .. at - 1
      BY <2>2, <1>1
    <3> QED
      BY <3>1, <3>2
  <2> QED
    BY <2>4, <2>7, <2>8, <1>2, <1>4 DEF LoadCutOff
<1> QED
  BY <1>3, <1>4

\* After the loading the list has the addresses of the file, and no others.
LEMMA EndFlat ==
  ASSUME WellFormed, FullBlocks, Fits, StoresKept, ListInv, Counted, FlatInv,
         LoadEnd \/ LoadCutOff
  PROVE  FlatInv'
<1>1. /\ loading /\ loading' = FALSE
      /\ file' = file /\ at' = at /\ cursors' = cursors /\ mem' = mem
      /\ \A k \in 1 .. Len(file) : k \in 1 .. at - 1 \/ Len(file[k].data) = 0
  BY AllRead
<1>2. /\ file \in Files /\ Len(file) \in Nat /\ at \in Nat \ {0} /\ at <= Len(file) + 1
      /\ DOMAIN cursors = 1 .. Len(cursors)
  BY FileFacts, LenProperties DEF ListInv, MemType
<1>3. Packed' /\ Contents' /\ Nothing'
  BY <1>1 DEF Packed, Contents, Nothing
<1>4. Whole'
  <2> SUFFICES ASSUME NEW a \in Nat
               PROVE  Mapped(a) <=> \E k \in 1 .. Len(file) : InBlock(file[k], a)
    BY <1>1 DEF Whole, Mapped
  <2>1. ASSUME Mapped(a) PROVE \E k \in 1 .. Len(file) : InBlock(file[k], a)
    <3>1. PICK k \in 1 .. at - 1 : InBlock(file[k], a)
      BY <2>1, <1>1 DEF FlatInv, Nothing
    <3>2. k \in 1 .. Len(file)
      BY <1>2
    <3> QED
      BY <3>1, <3>2
  <2>2. ASSUME NEW k \in 1 .. Len(file), InBlock(file[k], a) PROVE Mapped(a)
    <3>1. BlockEnd(file[k]) = file[k].addr + 4 * Len(file[k].data) /\ file[k].addr \in Nat
      BY <1>2, FileFacts
    <3>2. Len(file[k].data) # 0
      BY <2>2, <3>1 DEF InBlock
    <3> QED
      BY <2>2, <3>2, <1>1 DEF ListInv, Taken
  <2> QED
    BY <2>1, <2>2
<1>5. Outside'
  <2> SUFFICES ASSUME NEW a \in StoreAddrs
               PROVE  \/ Mapped(a) \/ Len(cursors) = MaxCursors
                      \/ \A i \in 1 .. Len(cursors) : cursors[i].addr <= a
    BY <1>1, <1>2 DEF Outside, Mapped
  <2>1. CASE InOrAfter(file, a)
    BY <2>1, <1>1, Settled
  <2>2. CASE Full(file)
    <3>1. CASE LoadEnd
      BY <2>2, <3>1, FullAtEnd
    <3>2. CASE LoadCutOff
      <4>1. at \in 1 .. Len(file) /\ file[at].data = <<>>
        BY <3>2, <1>2 DEF LoadCutOff, Turn, Block
      <4> QED
        BY <2>2, <4>1 DEF Full
    <3> QED
      BY <3>1, <3>2
  <2> QED
    BY <2>1, <2>2, <1>2 DEF StoresKept
<1> QED
  BY <1>3, <1>4, <1>5 DEF FlatInv

----------------------------------------------------------------------------
(* Bytes and words.                                                        *)

\* An address as a word and a byte in it.
LEMMA ByteOfWord ==
  ASSUME NEW a \in Nat
  PROVE  /\ a % 4 \in 0 .. 3 /\ a \div 4 \in Nat /\ a = 4 * (a \div 4) + (a % 4)
BY SMT

\* Both addresses in the same word, seen from an aligned stretch.
LEMMA SameWord ==
  ASSUME NEW a \in Nat, NEW b \in Nat, NEW c \in Nat, c % 4 = 0, c <= a, c <= b
  PROVE  (a - c) \div 4 = (b - c) \div 4 <=> a \div 4 = b \div 4
BY SMT

\* The lane that write_int computes is the byte of the address, for aligned accesses.
LEMMA LaneRight ==
  ASSUME NEW s \in {1, 2, 4}, NEW a \in Nat, a % s = 0
  PROVE  Lane(s, a % 4) = a % 4
<1>1. CASE s = 1
  BY <1>1, SMT DEF Lane
<1>2. CASE s = 2
  BY <1>2, SMT DEF Lane
<1>3. CASE s = 4
  BY <1>3, SMT DEF Lane
<1> QED
  BY <1>1, <1>2, <1>3

\* An access stays in its word.
LEMMA OneWord ==
  ASSUME NEW s \in {1, 2, 4}, NEW a \in Nat, NEW b \in Nat, a % s = 0, b - a \in 0 .. s - 1
  PROVE  a \div 4 = b \div 4
<1>1. CASE s = 1
  BY <1>1, SMT
<1>2. CASE s = 2
  BY <1>2, SMT
<1>3. CASE s = 4
  BY <1>3, SMT
<1> QED
  BY <1>1, <1>2, <1>3

\* The whole word of a covered address is covered, and has one place.
LEMMA WordCovered ==
  ASSUME ListInv, NEW i \in 1 .. Len(cursors), NEW a \in Nat, NEW b \in Nat,
         Covers(cursors[i], a), a \div 4 = b \div 4
  PROVE  Covers(cursors[i], b) /\ WordIn(cursors, i, b) = WordIn(cursors, i, a)
<1> DEFINE c == cursors[i].addr
           z == cursors[i].size
<1>1. c \in Nat /\ z \in Nat /\ End(cursors[i]) = c + 4 * z
  BY CursorFacts DEF ListInv, MemType
<1>2. c % 4 = 0
  BY ListFacts
<1>3. c <= a /\ a < c + 4 * z
  BY <1>1 DEF Covers
<1> HIDE DEF c, z
<1>4. c <= b /\ b < c + 4 * z
  BY <1>1, <1>2, <1>3, SMT
<1>5. (a - c) \div 4 = (b - c) \div 4
  BY <1>1, <1>2, <1>3, <1>4, SameWord
<1> QED
  BY <1>1, <1>4, <1>5 DEF Covers, WordIn, c

\* A word of the array has one address.
LEMMA OneAddress ==
  ASSUME ListInv, NEW i \in 1 .. Len(cursors), NEW j \in 1 .. Len(cursors),
         NEW a \in Nat, NEW b \in Nat,
         Covers(cursors[i], a), Covers(cursors[j], b),
         WordIn(cursors, i, a) = WordIn(cursors, j, b)
  PROVE  a \div 4 = b \div 4
<1>1. ASSUME NEW k \in 1 .. Len(cursors), NEW e \in Nat, Covers(cursors[k], e)
      PROVE  /\ WordIn(cursors, k, e) \in Nat /\ cursors[k].base < WordIn(cursors, k, e)
             /\ WordIn(cursors, k, e) <= cursors[k].base + cursors[k].size
  <2> DEFINE c == cursors[k].addr
             z == cursors[k].size
             u == cursors[k].base
  <2>1. c \in Nat /\ z \in Nat /\ u \in Nat /\ End(cursors[k]) = c + 4 * z
    BY CursorFacts DEF ListInv, MemType
  <2>2. c <= e /\ e < c + 4 * z
    BY <2>1, <1>1 DEF Covers
  <2> HIDE DEF c, z, u
  <2>3. (e - c) \div 4 \in 0 .. z - 1
    BY ONLY <2>1, <2>2, e \in Nat, SMT
  <2> DEFINE q == (e - c) \div 4
  <2>4. WordIn(cursors, k, e) = u + q + 1
    BY DEF WordIn, c, u
  <2> HIDE DEF q
  <2>5. q \in 0 .. z - 1
    BY <2>3 DEF q
  <2>6. u + q + 1 \in Nat /\ u < u + q + 1 /\ u + q + 1 <= u + z
    BY ONLY <2>1, <2>5
  <2> QED
    BY <2>4, <2>6 DEF u, z
<1>2. \A k \in 1 .. Len(cursors) : cursors[k].base \in Nat /\ cursors[k].size \in Nat
  BY CursorFacts DEF ListInv, MemType
<1>3. Len(cursors) \in Nat
  BY LenProperties DEF ListInv, MemType
<1>4. i = j
  <2>1. ASSUME NEW k \in 1 .. Len(cursors), NEW l \in 1 .. Len(cursors), k < l,
               NEW e \in Nat, NEW g \in Nat, Covers(cursors[k], e), Covers(cursors[l], g)
        PROVE  WordIn(cursors, k, e) # WordIn(cursors, l, g)
    <3>1. \/ cursors[k].base + cursors[k].size <= cursors[l].base
          \/ cursors[l].base + cursors[l].size <= cursors[k].base
      BY <2>1, ListFacts
    <3>2. /\ WordIn(cursors, k, e) \in Nat /\ cursors[k].base < WordIn(cursors, k, e)
          /\ WordIn(cursors, k, e) <= cursors[k].base + cursors[k].size
          /\ WordIn(cursors, l, g) \in Nat /\ cursors[l].base < WordIn(cursors, l, g)
          /\ WordIn(cursors, l, g) <= cursors[l].base + cursors[l].size
      BY <2>1, <1>1
    <3>3. /\ cursors[k].base \in Nat /\ cursors[k].size \in Nat
          /\ cursors[l].base \in Nat /\ cursors[l].size \in Nat
      BY <1>2
    <3>4. SUFFICES ASSUME WordIn(cursors, k, e) = WordIn(cursors, l, g) PROVE FALSE
      OBVIOUS
    <3> DEFINE x == WordIn(cursors, k, e)
               ub == cursors[k].base
               uz == cursors[k].size
               vb == cursors[l].base
               vz == cursors[l].size
    <3>5. /\ x \in Nat /\ ub < x /\ x <= ub + uz /\ vb < x /\ x <= vb + vz
          /\ ub \in Nat /\ uz \in Nat /\ vb \in Nat /\ vz \in Nat
          /\ ub + uz <= vb \/ vb + vz <= ub
      BY <3>1, <3>2, <3>3, <3>4
    <3> HIDE DEF x, ub, uz, vb, vz
    <3> QED
      BY ONLY <3>5
  <2>2. CASE i < j
    BY <2>1, <2>2
  <2>3. CASE j < i
    BY <2>1, <2>3
  <2> QED
    BY <2>2, <2>3, <1>3
<1> DEFINE c == cursors[i].addr
           u == cursors[i].base
<1>5. c \in Nat /\ c % 4 = 0 /\ u \in Nat
  BY <1>2, CursorFacts, ListFacts DEF ListInv, MemType
<1>6. c <= a /\ c <= b
  BY <1>4 DEF Covers
<1>7. u + (a - c) \div 4 + 1 = u + (b - c) \div 4 + 1
  BY <1>4 DEF WordIn
<1> HIDE DEF c, u
<1>8. (a - c) \div 4 \in Int /\ (b - c) \div 4 \in Int
  BY <1>5, <1>6, SMT
<1>9. (a - c) \div 4 = (b - c) \div 4
  <2> DEFINE x == (a - c) \div 4
             y == (b - c) \div 4
  <2>1. u + x + 1 = u + y + 1 /\ x \in Int /\ y \in Int
    BY <1>7, <1>8
  <2> HIDE DEF x, y
  <2>2. x = y
    BY <2>1, <1>5
  <2> QED
    BY <2>2 DEF x, y
<1> QED
  BY <1>5, <1>6, <1>9, SameWord

----------------------------------------------------------------------------
(* Every step is one of FlatMemory's or none.                              *)

\* FlatMemory and this module say the same of what a block holds.
LEMMA InsideRight ==
  ASSUME WellFormed, MemType, NEW a \in Nat
  PROVE  /\ F!Inside(a) <=> \E k \in 1 .. Len(file) : InBlock(file[k], a)
         /\ \A k \in 1 .. Len(file) : F!Holds(file[k], a) <=> InBlock(file[k], a)
<1>1. file \in Files /\ DOMAIN file = 1 .. Len(file)
  BY FileFacts, LenProperties DEF MemType
<1>2. ASSUME NEW k \in 1 .. Len(file)
      PROVE  F!Holds(file[k], a) <=> InBlock(file[k], a)
  <2>1. /\ file[k].addr \in Nat /\ Len(file[k].data) \in Nat
        /\ BlockEnd(file[k]) = file[k].addr + 4 * Len(file[k].data)
    BY <1>1, FileFacts
  <2> QED
    BY <2>1 DEF F!Holds, InBlock
<1> QED
  BY <1>1, <1>2 DEF F!Inside

\* What an address of a block reads as once the block is in.
LEMMA ReadsBlock ==
  ASSUME WellFormed, ListInv, FlatInv, loading,
         NEW k \in 1 .. at - 1, k \in 1 .. Len(file),
         NEW a \in Nat, InBlock(file[k], a)
  PROVE  Read(a) = file[k].data[(a - file[k].addr) \div 4 + 1]
<1> DEFINE c == file[k].addr
           z == Len(file[k].data)
           q == (a - c) \div 4
           e == c + 4 * q
<1>1. file \in Files
  BY DEF ListInv, MemType
<1>2. c \in Nat /\ c % 4 = 0 /\ z \in Nat /\ BlockEnd(file[k]) = c + 4 * z
  BY <1>1, FileFacts
<1>3. c <= a /\ a < c + 4 * z
  BY <1>2 DEF InBlock
<1>4. q \in Nat /\ q + 1 \in 1 .. z /\ e \in Nat /\ a \div 4 = e \div 4
  <2> HIDE DEF c, z
  <2> QED
    BY <1>2, <1>3, SMT
<1>5. PICK i \in 1 .. Len(cursors) :
        LET g == file[k].addr + 4 * ((q + 1) - 1)
        IN Covers(cursors[i], g) /\ mem[WordIn(cursors, i, g)] = file[k].data[q + 1]
  BY <1>4 DEF FlatInv, Contents
<1>6. (q + 1) - 1 = q
  BY <1>4
<1>7. Covers(cursors[i], e) /\ mem[WordIn(cursors, i, e)] = file[k].data[q + 1]
  BY <1>5, <1>6
<1> HIDE DEF e
<1>8. Covers(cursors[i], a) /\ WordIn(cursors, i, a) = WordIn(cursors, i, e)
  BY <1>4, <1>7, WordCovered
<1>9. WordAt(a) = WordIn(cursors, i, a)
  BY <1>8, FirstRight DEF WordIn
<1>10. Mapped(a)
  BY <1>8, LenProperties DEF Mapped, ListInv, MemType
<1> QED
  BY <1>7, <1>8, <1>9, <1>10 DEF Read

\* The last turn of read_input_file is the load of the flat array: the words of every
\* block are read at their addresses, and zeros elsewhere.
LEMMA EndLoads ==
  ASSUME WellFormed, FullBlocks, Fits, ListInv, Counted, FlatInv, LoadEnd \/ LoadCutOff
  PROVE  F!FMLoad
<1>1. /\ loading /\ loading' = FALSE
      /\ file' = file /\ at' = at /\ cursors' = cursors /\ mem' = mem
      /\ \A k \in 1 .. Len(file) : k \in 1 .. at - 1 \/ Len(file[k].data) = 0
  BY AllRead
<1>2. MemType /\ file \in Files /\ DOMAIN file = 1 .. Len(file)
  BY FileFacts, LenProperties DEF ListInv, MemType
<1>3. \A a \in Addrs : Read(a)' = Read(a)
  BY <1>1 DEF Read, Mapped, WordAt, First
<1>4. ASSUME NEW a \in Addrs, ~F!Inside(a) PROVE Read(a)[a % 4] = 0
  <2>1. a \in Nat /\ a % 4 \in 0 .. 3
    BY ByteOfWord
  <2>2. ~Mapped(a)
    <3> SUFFICES ASSUME Mapped(a) PROVE FALSE
      OBVIOUS
    <3>1. PICK k \in 1 .. at - 1 : InBlock(file[k], a)
      BY <2>1, <1>1 DEF FlatInv, Nothing
    <3>2. k \in 1 .. Len(file)
      BY FileFacts DEF ListInv, MemType
    <3> QED
      BY <3>1, <3>2, <2>1, <1>2, <1>4, InsideRight
  <2> QED
    BY <2>1, <2>2 DEF Read, Zeros
<1>5. ASSUME NEW a \in Addrs, F!Inside(a)
      PROVE  LET blk == file[CHOOSE i \in DOMAIN file : F!Holds(file[i], a)]
             IN Read(a)[a % 4] = blk.data[(a - blk.addr) \div 4 + 1][a % 4]
  <2> DEFINE k == CHOOSE i \in DOMAIN file : F!Holds(file[i], a)
  <2>1. a \in Nat
    OBVIOUS
  <2>2. k \in 1 .. Len(file) /\ F!Holds(file[k], a)
    BY <1>2, <1>5 DEF F!Inside
  <2> HIDE DEF k
  <2>3. InBlock(file[k], a)
    BY <2>1, <2>2, <1>2, InsideRight
  <2>4. BlockEnd(file[k]) = file[k].addr + 4 * Len(file[k].data) /\ file[k].addr \in Nat
    BY <2>2, <1>2, FileFacts
  <2>5. Len(file[k].data) # 0
    BY <2>1, <2>3, <2>4 DEF InBlock
  <2>6. k \in 1 .. at - 1
    BY <2>2, <2>5, <1>1
  <2>7. Read(a) = file[k].data[(a - file[k].addr) \div 4 + 1]
    BY <2>1, <2>2, <2>3, <2>6, <1>1, ReadsBlock
  <2> QED
    BY <2>7 DEF k
<1> QED
  BY <1>1, <1>3, <1>4, <1>5 DEF F!FMLoad

\* Stores leave the addresses of the list as they are.
LEMMA StoreFlatInv ==
  ASSUME FlatInv, ~loading, UNCHANGED <<file, at, loading, cursors>>
  PROVE  FlatInv'
<1>1. Packed' /\ Contents' /\ Nothing'
  BY DEF Packed, Contents, Nothing
<1>2. Whole' /\ Outside'
  BY DEF FlatInv, Whole, Outside, Mapped
<1> QED
  BY <1>1, <1>2 DEF FlatInv

\* A store to a covered address is a store to the flat array.
LEMMA MappedStores ==
  ASSUME WellFormed, Values, ListInv, FlatInv,
         NEW s \in Sizes, NEW a \in StoreAddrs, NEW d \in Words, StoreMapped(s, a, d)
  PROVE  F!FMStore(s, a, d)
<1> DEFINE w == WordAt(a)
           l == Lane(s, a % 4)
           new == Merged(mem[w], d, s, a % 4)
<1>1. /\ ~loading /\ a % s = 0 /\ Mapped(a) /\ UNCHANGED <<file, loading, cursors>>
      /\ mem' = [mem EXCEPT ![w] = new]
  BY DEF StoreMapped, StoreCall
<1>2. /\ a \in Nat /\ s \in {1, 2, 4} /\ mem \in Seq(Word) /\ DOMAIN mem = 1 .. Len(mem)
      /\ cursors \in Seq(Cursor) /\ DOMAIN cursors = 1 .. Len(cursors) /\ MemType
  BY LenProperties DEF Values, ListInv, MemType
<1>3. PICK i \in 1 .. Len(cursors) : Covers(cursors[i], a)
  BY <1>1, <1>2 DEF Mapped
<1>4. w = WordIn(cursors, i, a) /\ w \in 1 .. Len(mem)
  BY <1>1, <1>2, <1>3, FirstRight, WordInside DEF WordIn
<1>5. l = a % 4
  BY <1>1, <1>2, LaneRight
<1>6. \A b \in Addrs : /\ WordAt(b)' = WordAt(b)
                       /\ Mapped(b)' <=> Mapped(b)
  BY <1>1 DEF WordAt, First, Mapped
<1> HIDE DEF w, l, new
<1>7. \A k \in 0 .. 3 : new[k] = IF k - l \in 0 .. s - 1 THEN d[k - l] ELSE mem[w][k]
  BY DEF Merged, l, new
<1>8. ASSUME NEW b \in Addrs
      PROVE  Read(b)'[b % 4] =
               IF F!Inside(b) /\ b - a \in 0 .. s - 1 THEN d[b - a] ELSE Read(b)[b % 4]
  <2>1. b \in Nat
    OBVIOUS
  <2>2. F!Inside(b) <=> Mapped(b)
    BY <2>1, <1>1, <1>2, InsideRight DEF FlatInv, Whole
  <2>3. CASE ~Mapped(b)
    <3>1. Read(b)' = Zeros /\ Read(b) = Zeros
      BY <2>3, <1>6 DEF Read, Zeros
    <3> QED
      BY <3>1, <2>2, <2>3
  <2>4. CASE Mapped(b) /\ a \div 4 = b \div 4
    <3>1. Covers(cursors[i], b) /\ WordIn(cursors, i, b) = w
      BY <2>1, <2>4, <1>2, <1>3, <1>4, WordCovered
    <3>2. WordAt(b) = w
      BY <3>1, <2>1, <1>2, FirstRight DEF WordIn
    <3>3. Read(b)' = new /\ Read(b) = mem[w]
      BY <3>2, <2>4, <1>1, <1>2, <1>4, <1>6 DEF Read
    <3>4. b % 4 \in 0 .. 3 /\ (b % 4) - l = b - a
      BY <2>1, <2>4, <1>2, <1>5, ByteOfWord
    <3>5. new[b % 4] = IF b - a \in 0 .. s - 1 THEN d[b - a] ELSE mem[w][b % 4]
      BY <3>4, <1>7
    <3> QED
      BY <3>3, <3>5, <2>2, <2>4
  <2>5. CASE Mapped(b) /\ a \div 4 # b \div 4
    <3>1. b - a \notin 0 .. s - 1
      BY <2>1, <2>5, <1>1, <1>2, OneWord
    <3>2. PICK j \in 1 .. Len(cursors) : Covers(cursors[j], b)
      BY <2>5, <1>2 DEF Mapped
    <3>3. WordAt(b) = WordIn(cursors, j, b)
      BY <3>2, <2>1, <1>2, FirstRight DEF WordIn
    <3>4. WordAt(b) # w
      BY <3>2, <3>3, <2>1, <2>5, <1>2, <1>3, <1>4, OneAddress
    <3>5. WordAt(b) \in 1 .. Len(mem)
      BY <2>1, <2>5, WordInside
    <3>6. Read(b)' = Read(b)
      BY <3>4, <3>5, <2>5, <1>1, <1>2, <1>6 DEF Read
    <3> QED
      BY <3>1, <3>6
  <2> QED
    BY <2>3, <2>4, <2>5
<1> QED
  BY <1>1, <1>8 DEF F!FMStore

\* A store outside the list leaves what every address reads as.
LEMMA InsertStutters ==
  ASSUME WellFormed, Values, ListInv, FlatInv,
         NEW s \in Sizes, NEW a \in StoreAddrs, NEW d \in Words, StoreInsert(s, a, d)
  PROVE  cursors' = cursors /\ UNCHANGED F!fmVars
<1> DEFINE n == Len(cursors)
<1>1. /\ ~loading /\ UNCHANGED <<file, at, loading>> /\ n < MaxCursors /\ n \in Nat
      /\ a \in Nat /\ Place(a) \in 1 .. n + 1
      /\ cursors' \in Seq(Cursor) /\ Len(cursors') = n
      /\ \A i \in 1 .. n : i < Place(a) => cursors'[i] = cursors[i]
      /\ \A k \in 1 .. Len(mem) : mem'[k] = mem[k]
      /\ \A i \in 1 .. n : i < Place(a) <=> cursors[i].addr <= a
      /\ \A i \in 1 .. n : ~Covers(cursors[i], a)
  BY InsertShape
<1>2. cursors \in Seq(Cursor) /\ DOMAIN cursors = 1 .. n
  BY LenProperties DEF ListInv, MemType
<1>3. \A i \in 1 .. n : cursors[i].addr <= a
  <2>1. ~Mapped(a)
    BY <1>1, <1>2 DEF Mapped
  <2>2. n # MaxCursors
    BY <1>1
  <2> QED
    BY <2>1, <2>2, <1>1, <1>2 DEF FlatInv, Outside
<1>4. cursors' = cursors
  <2>1. \A i \in 1 .. n : cursors'[i] = cursors[i]
    BY <1>1, <1>3
  <2> QED
    BY <2>1, <1>1, <1>2, SeqEqual
<1>5. ASSUME NEW b \in Addrs PROVE Read(b)' = Read(b)
  <2>1. CASE Mapped(b)
    <3>1. WordAt(b) \in 1 .. Len(mem)
      BY <2>1, WordInside
    <3>2. WordAt(b)' = WordAt(b) /\ Mapped(b)'
      BY <2>1, <1>4 DEF WordAt, First, Mapped
    <3> QED
      BY <3>1, <3>2, <2>1, <1>1 DEF Read
  <2>2. CASE ~Mapped(b)
    BY <2>2, <1>4 DEF Read, Mapped, Zeros
  <2> QED
    BY <2>1, <2>2
<1> QED
  BY <1>1, <1>4, <1>5 DEF F!fmVars

\* A refused store is no step of the flat array.
LEMMA RefusedStutters ==
  ASSUME NEW s \in Sizes, NEW a \in StoreAddrs, StoreRefused(s, a)
  PROVE  cursors' = cursors /\ UNCHANGED F!fmVars
<1>1. UNCHANGED <<file, loading, cursors, mem>>
  BY DEF StoreRefused, StoreCall
<1> QED
  BY <1>1 DEF F!fmVars, Read, Mapped, WordAt, First

\* A joined block takes no address from the list.
LEMMA JoinedCovers ==
  ASSUME WellFormed, ListInv, LoadJoined, NEW a \in Nat, Mapped(a)
  PROVE  Mapped(a)'
<1> DEFINE n == Len(cursors)
<1>1. MemType /\ cursors \in Seq(Cursor) /\ n \in Nat
  BY LenProperties DEF ListInv, MemType
<1>2. /\ n > 0 /\ End(cursors[n]) = file[at].addr
      /\ cursors' \in Seq(Cursor) /\ Len(cursors') = n
      /\ \A i \in 1 .. n - 1 : cursors'[i] = cursors[i]
      /\ cursors'[n].addr = cursors[n].addr
      /\ End(cursors'[n]) = BlockEnd(file[at])
  BY <1>1, JoinedShape
<1>3. DOMAIN cursors = 1 .. n /\ DOMAIN cursors' = 1 .. n
  BY <1>1, <1>2, LenProperties
<1>4. /\ file[at].addr \in Nat /\ BlockEnd(file[at]) \in Nat
      /\ file[at].addr <= BlockEnd(file[at])
  <2>1. at \in 1 .. Len(file) /\ file \in Files
    BY <1>1, ReadShape DEF LoadJoined, MemType
  <2> QED
    BY <2>1, FileFacts
<1>5. PICK i \in 1 .. n : Covers(cursors[i], a)
  BY <1>3 DEF Mapped
<1>6. CASE i = n
  <2>1. cursors'[n].addr <= a /\ End(cursors'[n]) > a
    BY <1>2, <1>4, <1>5, <1>6 DEF Covers
  <2> QED
    BY <2>1, <1>3, <1>6 DEF Mapped, Covers
<1>7. CASE i \in 1 .. n - 1
  BY <1>2, <1>3, <1>5, <1>7 DEF Mapped
<1> QED
  BY <1>1, <1>6, <1>7

\* The invariants hold when read_input_file begins.
LEMMA InitFlat ==
  ASSUME WellFormed, Init
  PROVE  ListInv /\ Counted /\ FlatInv
<1>1. ListInv /\ Counted
  BY InitCounted, InitList
<1>2. at = 1 /\ loading /\ Len(cursors) = 0 /\ Len(mem) = 0 /\ cursors = <<>> /\ file \in Files
  BY DEF Init, Boot
<1>3. FlatInv
  BY <1>2 DEF FlatInv, Packed, Contents, Nothing, Whole, Outside, Mapped
<1> QED
  BY <1>1, <1>3

\* The inductive step of both theorems, by the actions of Next: each is a step of
\* FlatMemory or none, and after the loading no step changes the list.
LEMMA FlatStep ==
  ASSUME WellFormed, Values, FullBlocks, Fits, StoresKept,
         ListInv, Counted, FlatInv, [Next]_mVars
  PROVE  /\ ListInv' /\ Counted' /\ FlatInv'
         /\ [F!FMNext]_(F!fmVars)
         /\ ~loading' => cursors' = cursors
<1>1. ListInv' /\ Counted'
  <2>1. StoresOnWords
    BY DEF StoresKept, StoresOnWords
  <2> QED
    BY <2>1, ListStep
<1>2. CASE LoadJoined \/ LoadApart
  <2>1. FlatInv'
    BY <1>2, JoinedFlat, ApartFlat
  <2>2. file' = file /\ loading' = loading /\ loading
    BY <1>2 DEF LoadJoined, LoadApart, ReadWords, Turn
  <2>3. UNCHANGED F!fmVars
    BY <2>2 DEF F!fmVars
  <2> QED
    BY <1>1, <2>1, <2>2, <2>3
<1>3. CASE LoadEnd \/ LoadCutOff
  <2>1. FlatInv' /\ F!FMLoad
    BY <1>3, EndFlat, EndLoads
  <2>2. cursors' = cursors
    BY <1>3, AllRead
  <2> QED
    BY <1>1, <2>1, <2>2 DEF F!FMNext
<1>4. ASSUME NEW s \in Sizes, NEW a \in StoreAddrs, NEW d \in Words, StoreMapped(s, a, d)
      PROVE  FlatInv' /\ F!FMNext /\ cursors' = cursors
  <2>1. a \in Addrs
    OBVIOUS
  <2>2. F!FMNext
    BY <2>1, <1>4, MappedStores DEF F!FMNext
  <2> QED
    BY <2>2, <1>4, StoreFlatInv DEF StoreMapped, StoreCall
<1>5. ASSUME NEW s \in Sizes, NEW a \in StoreAddrs, NEW d \in Words, StoreInsert(s, a, d)
      PROVE  FlatInv' /\ UNCHANGED F!fmVars /\ cursors' = cursors
  <2>1. cursors' = cursors /\ UNCHANGED F!fmVars
    BY <1>5, InsertStutters
  <2> QED
    BY <2>1, <1>5, StoreFlatInv DEF StoreInsert, StoreCall
<1>6. ASSUME NEW s \in Sizes, NEW a \in StoreAddrs, StoreRefused(s, a)
      PROVE  FlatInv' /\ UNCHANGED F!fmVars /\ cursors' = cursors
  <2>1. cursors' = cursors /\ UNCHANGED F!fmVars
    BY <1>6, RefusedStutters
  <2> QED
    BY <2>1, <1>6, StoreFlatInv DEF StoreRefused, StoreCall
<1>7. CASE UNCHANGED mVars
  <2>1. UNCHANGED <<file, at, loading, cursors, mem>>
    BY <1>7 DEF mVars
  <2>2. FlatInv'
    BY <2>1 DEF FlatInv, Packed, Contents, Nothing, Whole, Outside, Mapped
  <2>3. UNCHANGED F!fmVars
    BY <2>1 DEF F!fmVars, Read, Mapped, WordAt, First
  <2> QED
    BY <1>1, <2>1, <2>2, <2>3
<1> QED
  BY <1>1, <1>2, <1>3, <1>4, <1>5, <1>6, <1>7 DEF Next, Load, Store

\* What memory::read gives the CPU is what a flat array of bytes holds that was filled
\* from the file (FlatMemory): for every set of files that fit the table and any number
\* of stores of 1, 2 or 4 bytes into the blocks, above them all, or once the list is full
\* (StoresKept; a store in a hole makes memory lose words), through merged blocks,
\* stores that write inserts and loses above the image, and stores that a full list
\* refuses.
THEOREM FlatHolds ==
  ASSUME WellFormed, Values, FullBlocks, Fits, StoresKept
  PROVE  Spec => ImplementsFlat
<1> DEFINE Inv == ListInv /\ Counted /\ FlatInv
<1>1. Init => Inv /\ F!FMInit
  <2>1. Init => F!FMInit
    BY DEF Init, Boot, F!FMInit
  <2> QED
    BY <2>1, InitFlat
<1>2. Inv /\ [Next]_mVars => Inv' /\ [F!FMNext]_(F!fmVars)
  BY FlatStep
<1> QED
  BY <1>1, <1>2, PTL DEF Spec, ImplementsFlat, F!FMSpec

\* No address is lost, neither while the file is read nor by a store, as long as the
\* stores stay in the image or above it; those in between are what the comments of
\* write (memory.cpp:122) promise and the code does not do.
THEOREM NothingVanishesKept ==
  ASSUME WellFormed, Values, FullBlocks, Fits, StoresKept
  PROVE  Spec => NothingVanishes
<1> DEFINE Inv == ListInv /\ Counted /\ FlatInv
<1>1. Init => Inv
  BY InitFlat
<1>2. Inv /\ [Next]_mVars => Inv' /\ (\A a \in Addrs : Mapped(a) => Mapped(a)')
  <2> SUFFICES ASSUME Inv, [Next]_mVars
               PROVE  Inv' /\ \A a \in Addrs : Mapped(a) => Mapped(a)'
    OBVIOUS
  <2>1. Inv'
    BY FlatStep
  <2>2. CASE loading'
    <3>1. LoadJoined \/ LoadApart \/ UNCHANGED mVars
      BY <2>2 DEF Next, Load, LoadEnd, LoadCutOff, Store, StoreMapped, StoreInsert,
                  StoreRefused, StoreCall
    <3>2. CASE LoadApart
      <4>1. /\ Len(cursors) \in Nat /\ Len(cursors') = Len(cursors) + 1
            /\ cursors \in Seq(Cursor) /\ cursors' \in Seq(Cursor)
            /\ \A i \in 1 .. Len(cursors) : cursors'[i] = cursors[i]
        BY <3>2, ApartShape, LenProperties DEF ListInv, MemType
      <4>2. \A i \in DOMAIN cursors : i \in DOMAIN cursors' /\ cursors'[i] = cursors[i]
        BY <4>1, LenProperties
      <4> QED
        BY <2>1, <4>2 DEF Mapped
    <3>3. CASE LoadJoined
      BY <2>1, <3>3, JoinedCovers
    <3>4. CASE UNCHANGED mVars
      BY <2>1, <3>4 DEF mVars, Mapped
    <3> QED
      BY <3>1, <3>2, <3>3, <3>4
  <2>3. CASE ~loading'
    BY <2>1, <2>3, FlatStep DEF Mapped
  <2> QED
    BY <2>1, <2>2, <2>3
<1> QED
  BY <1>1, <1>2, PTL DEF Spec, NothingVanishes
=============================================================================
