--------------------------- MODULE ToolchainProofs ---------------------------
(***************************************************************************)
(* s2bin makes the file that the listing and the table of instructions     *)
(* call for, and the CPU reads what the listing says: for every listing,   *)
(* every table and every number of stretches that fits memory's list.      *)
(***************************************************************************)
EXTENDS Toolchain, MemoryProofs

USE ListingAssumption

ABlock == [addr : Nat, data : Seq(Word)]

----------------------------------------------------------------------------
(* Listings and the places in them.                                        *)

\* The lines of a listing as numbers.
LEMMA LineFacts ==
  ASSUME NEW l \in Listings
  PROVE  /\ l \in Seq([addr : Nat, words : Seq(Word)]) /\ Len(l) \in Nat \ {0}
         /\ \A i \in 1 .. Len(l) :
              /\ l[i].addr \in Nat /\ l[i].words \in Seq(Word)
              /\ Len(l[i].words) \in Nat /\ Count(l, i) \in 0 .. LineWords
              /\ Count(l, i) <= Len(l[i].words)
              /\ l[i].words # <<>> <=> Count(l, i) # 0
              /\ \A j \in 1 .. Count(l, i) : l[i].words[j] \in Word
<1>1. l \in Seq([addr : Nat, words : Seq(Word)]) /\ l # <<>>
  OBVIOUS
<1>2. Len(l) \in Nat \ {0}
  BY <1>1, EmptySeq, LenProperties
<1> SUFFICES ASSUME NEW i \in 1 .. Len(l)
             PROVE  /\ l[i].addr \in Nat /\ l[i].words \in Seq(Word)
                    /\ Len(l[i].words) \in Nat /\ Count(l, i) \in 0 .. LineWords
                    /\ Count(l, i) <= Len(l[i].words)
                    /\ l[i].words # <<>> <=> Count(l, i) # 0
                    /\ \A j \in 1 .. Count(l, i) : l[i].words[j] \in Word
  BY <1>1, <1>2
<1>3. l[i] \in [addr : Nat, words : Seq(Word)]
  BY <1>1, ElementOfSeq
<1>4. l[i].addr \in Nat /\ l[i].words \in Seq(Word)
  BY <1>3
<1>5. /\ Len(l[i].words) \in Nat
      /\ l[i].words = <<>> <=> Len(l[i].words) = 0
  BY <1>4, EmptySeq, LenProperties
<1>6. /\ Count(l, i) \in 0 .. LineWords /\ Count(l, i) <= Len(l[i].words)
      /\ Len(l[i].words) # 0 <=> Count(l, i) # 0
  <2> DEFINE n == Len(l[i].words)
  <2>1. Count(l, i) = IF n < LineWords THEN n ELSE LineWords
    BY DEF Count
  <2>2. n \in Nat
    BY <1>5
  <2> HIDE DEF n
  <2>3. /\ Count(l, i) \in 0 .. LineWords /\ Count(l, i) <= n
        /\ n # 0 <=> Count(l, i) # 0
    BY ONLY <2>1, <2>2 DEF LineWords
  <2> QED
    BY <2>3 DEF n
<1>7. \A j \in 1 .. Count(l, i) : l[i].words[j] \in Word
  BY <1>4, <1>5, <1>6, ElementOfSeq
<1> QED
  BY <1>4, <1>5, <1>6, <1>7

\* The number of nops and branches up to a place is a number.
LEMMA StandsFinite ==
  ASSUME NEW l, NEW i \in Nat, NEW n \in Nat
  PROVE  IsFiniteSet(Stands(l, i, n)) /\ Cardinality(Stands(l, i, n)) \in Nat
<1> DEFINE P == (1 .. i) \X (1 .. LineWords)
<1>1. IsFiniteSet(1 .. i) /\ IsFiniteSet(1 .. LineWords)
  <2>1. 1 \in Int /\ i \in Int /\ LineWords \in Int
    BY DEF LineWords
  <2> QED
    BY ONLY <2>1, FS_Interval
<1>2. IsFiniteSet(P)
  BY <1>1, FS_Product
<1>3. Stands(l, i, n) \in SUBSET P
  BY DEF Stands
<1> QED
  BY <1>2, <1>3, FS_Subset, FS_CardinalityType

\* The next word of a line is one more or not.
LEMMA StandsWord ==
  ASSUME NEW l \in Listings, NEW i \in 1 .. Len(l), NEW n \in Nat, n < Count(l, i)
  PROVE  Cardinality(Stands(l, i, n + 1)) =
           Cardinality(Stands(l, i, n)) + IF Stand(l[i].words[n + 1]) THEN 1 ELSE 0
<1>1. Count(l, i) \in 0 .. LineWords /\ Len(l) \in Nat
  BY LineFacts
<1> DEFINE m == Len(l)
           c == Count(l, i)
<1>2. i \in 1 .. m /\ m \in Nat /\ c \in 0 .. LineWords /\ n < c
  BY <1>1
<1> HIDE DEF m, c
<1>3. i \in Nat /\ n + 1 \in 1 .. LineWords /\ i \in 1 .. i /\ n + 1 <= Count(l, i)
  <2>1. i \in Nat /\ n + 1 \in 1 .. LineWords /\ i \in 1 .. i /\ n + 1 <= c
    BY ONLY <1>2, n \in Nat DEF LineWords
  <2> QED
    BY <2>1 DEF c
<1>4. IsFiniteSet(Stands(l, i, n)) /\ Cardinality(Stands(l, i, n)) \in Nat
  BY <1>3, StandsFinite
<1>5. <<i, n + 1>> \notin Stands(l, i, n)
  BY <1>3 DEF Stands
<1>6. CASE Stand(l[i].words[n + 1])
  <2>1. ASSUME NEW p \in (1 .. i) \X (1 .. LineWords)
        PROVE  p \in Stands(l, i, n + 1) <=> p \in Stands(l, i, n) \/ p = <<i, n + 1>>
    <3>1. p = <<p[1], p[2]>> /\ p[1] \in Nat /\ p[2] \in Nat
      BY DEF LineWords
    <3>2. CASE p[1] = i /\ p[2] = n + 1
      <4>1. p[2] <= n + 1 /\ p[2] <= Count(l, p[1]) /\ Stand(l[p[1]].words[p[2]])
        BY <3>2, <1>3, <1>6
      <4> QED
        BY <3>1, <3>2, <4>1 DEF Stands
    <3>3. CASE ~(p[1] = i /\ p[2] = n + 1)
      <4>1. (p[1] = i => p[2] <= n + 1) <=> (p[1] = i => p[2] <= n)
        BY <3>1, <3>3
      <4> QED
        BY <3>3, <4>1 DEF Stands
    <3> QED
      BY <3>2, <3>3
  <2>2. <<i, n + 1>> \in (1 .. i) \X (1 .. LineWords)
    BY <1>3
  <2>3. Stands(l, i, n + 1) = Stands(l, i, n) \cup {<<i, n + 1>>}
    <3>1. Stands(l, i, n + 1) \subseteq (1 .. i) \X (1 .. LineWords)
      BY DEF Stands
    <3>2. Stands(l, i, n) \subseteq (1 .. i) \X (1 .. LineWords)
      BY DEF Stands
    <3> QED
      BY <2>1, <2>2, <3>1, <3>2
  <2> QED
    BY <2>3, <1>4, <1>5, <1>6, FS_AddElement
<1>7. CASE ~Stand(l[i].words[n + 1])
  <2>1. ASSUME NEW p \in (1 .. i) \X (1 .. LineWords)
        PROVE  p \in Stands(l, i, n + 1) <=> p \in Stands(l, i, n)
    <3>1. p[1] \in Nat /\ p[2] \in Nat
      BY DEF LineWords
    <3>2. CASE p[1] = i /\ p[2] = n + 1
      BY <3>1, <3>2, <1>3, <1>7 DEF Stands
    <3>3. CASE ~(p[1] = i /\ p[2] = n + 1)
      <4>1. (p[1] = i => p[2] <= n + 1) <=> (p[1] = i => p[2] <= n)
        BY <3>1, <3>3
      <4> QED
        BY <4>1 DEF Stands
    <3> QED
      BY <3>2, <3>3
  <2>2. Stands(l, i, n + 1) = Stands(l, i, n)
    BY <2>1 DEF Stands
  <2> QED
    BY <2>2, <1>4, <1>7
<1> QED
  BY <1>6, <1>7

\* The count goes on where the last line left it.
LEMMA StandsLine ==
  ASSUME NEW l \in Listings, NEW i \in 1 .. Len(l)
  PROVE  Stands(l, i + 1, 0) = Stands(l, i, Count(l, i))
<1>1. Len(l) \in Nat /\ i \in Nat
  BY LineFacts
<1>2. ASSUME NEW p \in Stands(l, i + 1, 0) PROVE p \in Stands(l, i, Count(l, i))
  <2>1. /\ p \in (1 .. i + 1) \X (1 .. LineWords)
        /\ p[1] = i + 1 => p[2] <= 0
        /\ p[2] <= Count(l, p[1]) /\ Stand(l[p[1]].words[p[2]])
    BY DEF Stands
  <2>2. p = <<p[1], p[2]>> /\ p[1] \in 1 .. i + 1 /\ p[2] \in 1 .. LineWords
    BY <2>1
  <2>3. ~(p[2] <= 0)
    <3>1. \A x \in 1 .. LineWords : ~(x <= 0)
      BY ONLY DEF LineWords
    <3> QED
      BY <2>2, <3>1
  <2>4. p[1] \in 1 .. i
    <3>1. \A x \in 1 .. i + 1 : x # i + 1 => x \in 1 .. i
      BY ONLY <1>1
    <3> QED
      BY <2>1, <2>2, <2>3, <3>1
  <2> QED
    BY <2>1, <2>2, <2>4 DEF Stands
<1>3. ASSUME NEW p \in Stands(l, i, Count(l, i)) PROVE p \in Stands(l, i + 1, 0)
  <2>1. /\ p \in (1 .. i) \X (1 .. LineWords)
        /\ p[2] <= Count(l, p[1]) /\ Stand(l[p[1]].words[p[2]])
    BY DEF Stands
  <2>2. p = <<p[1], p[2]>> /\ p[1] \in 1 .. i /\ p[2] \in 1 .. LineWords
    BY <2>1
  <2>3. p[1] \in 1 .. i + 1 /\ p[1] # i + 1
    BY <1>1, <2>2
  <2> QED
    BY <2>1, <2>2, <2>3 DEF Stands
<1> QED
  BY <1>2, <1>3

\* Before the first word there is none.
LEMMA StandsNone == \A l : Stands(l, 1, 0) = {}
<1> SUFFICES ASSUME NEW l, NEW p \in Stands(l, 1, 0) PROVE FALSE
  OBVIOUS
<1>1. p \in (1 .. 1) \X (1 .. LineWords) /\ (p[1] = 1 => p[2] <= 0)
  BY DEF Stands
<1>2. p[1] \in 1 .. 1 /\ p[2] \in 1 .. LineWords
  BY <1>1
<1> QED
  BY <1>1, <1>2 DEF LineWords

\* The blocks of some lines are a number ...
LEMMA BlocksFinite ==
  ASSUME NEW l, NEW i \in Nat
  PROVE  /\ IsFiniteSet({p \in 1 .. i : l[p].words # <<>>})
         /\ Blocks(l, i) \in Nat
<1>1. IsFiniteSet(1 .. i)
  BY FS_Interval
<1>2. {p \in 1 .. i : l[p].words # <<>>} \in SUBSET (1 .. i)
  OBVIOUS
<1> QED
  BY <1>1, <1>2, FS_Subset, FS_CardinalityType DEF Blocks

\* ... a line with words is one more ...
LEMMA BlocksLine ==
  ASSUME NEW l, NEW i \in Nat \ {0}
  PROVE  Blocks(l, i) = Blocks(l, i - 1) + IF l[i].words # <<>> THEN 1 ELSE 0
<1> DEFINE S == {p \in 1 .. i - 1 : l[p].words # <<>>}
           T == {p \in 1 .. i : l[p].words # <<>>}
<1>1. Blocks(l, i - 1) = Cardinality(S) /\ Blocks(l, i) = Cardinality(T)
  BY DEF Blocks
<1>2. IsFiniteSet(S) /\ Cardinality(S) \in Nat /\ i \notin S
  <2>1. i - 1 \in Nat
    OBVIOUS
  <2> QED
    BY <2>1, <1>1, BlocksFinite
<1>3. T = IF l[i].words # <<>> THEN S \cup {i} ELSE S
  OBVIOUS
<1> HIDE DEF S, T
<1>4. CASE l[i].words # <<>>
  BY <1>1, <1>2, <1>3, <1>4, FS_AddElement
<1>5. CASE l[i].words = <<>>
  BY <1>1, <1>2, <1>3, <1>5
<1> QED
  BY <1>4, <1>5

\* ... and later lines have no fewer before them.
LEMMA BlocksGrow ==
  ASSUME NEW l, NEW m \in Nat, NEW i \in 1 .. m, l[i].words # <<>>
  PROVE  Blocks(l, i) \in 1 .. Blocks(l, m)
<1>1. i \in Nat \ {0} /\ i - 1 \in Nat
  OBVIOUS
<1>2. /\ Blocks(l, i) \in Nat /\ Blocks(l, i - 1) \in Nat /\ Blocks(l, m) \in Nat
      /\ IsFiniteSet({p \in 1 .. m : l[p].words # <<>>})
  BY <1>1, BlocksFinite
<1>3. Blocks(l, i) = Blocks(l, i - 1) + 1
  BY <1>1, BlocksLine
<1>4. {p \in 1 .. i : l[p].words # <<>>} \in SUBSET {p \in 1 .. m : l[p].words # <<>>}
  OBVIOUS
<1>5. Blocks(l, i) <= Blocks(l, m)
  BY <1>2, <1>4, FS_Subset DEF Blocks
<1> QED
  BY <1>2, <1>3, <1>5

----------------------------------------------------------------------------
(* s2bin: what it has made of the listing up to where it is.               *)

UsedUp(n) == IF n < Len(Table) THEN n ELSE Len(Table)

\* The cursor in the table is the number of nops and branches of the listing up to
\* here, the words of the line are those wanted ...
Reading ==
  /\ listing \in Listings /\ line \in 1 .. Len(listing) + 1
  /\ words \in Seq(Word)
  /\ IF Done THEN words = <<>> ELSE Len(words) <= Count(listing, line)
  /\ used = UsedUp(Cardinality(Stands(listing, line, Len(words))))
  /\ \A j \in 1 .. Len(words) : words[j] = Wanted(listing, line, j)

\* ... and the file has a block for each line behind it with words.
Written ==
  /\ file \in Seq(ABlock) /\ Len(file) = Blocks(listing, line - 1)
  /\ \A i \in 1 .. line - 1 :
       listing[i].words # <<>> => file[Blocks(listing, i)] = WantedBlock(listing, i)

\* The places of the listing and of the table as numbers.
LEMMA ReadingFacts ==
  ASSUME Reading
  PROVE  /\ listing \in Listings /\ Len(listing) \in Nat \ {0} /\ line \in Nat \ {0}
         /\ Len(Table) \in Nat /\ Len(words) \in Nat
         /\ IsFiniteSet(Stands(listing, line, Len(words)))
         /\ Cardinality(Stands(listing, line, Len(words))) \in Nat
         /\ Done <=> line = Len(listing) + 1
         /\ ~Done => line \in 1 .. Len(listing)
<1>1. /\ listing \in Listings /\ line \in 1 .. Len(listing) + 1 /\ words \in Seq(Word)
      /\ Table \in Seq(Word)
  BY DEF Reading
<1>2. Len(listing) \in Nat \ {0} /\ Len(words) \in Nat /\ Len(Table) \in Nat
  BY <1>1, LineFacts, LenProperties
<1> DEFINE m == Len(listing)
<1>3. m \in Nat \ {0} /\ line \in 1 .. m + 1
  BY <1>1, <1>2
<1>4. Done <=> line > m
  BY DEF Done
<1> HIDE DEF m
<1>5. /\ line \in Nat \ {0}
      /\ line > m <=> line = m + 1
      /\ ~(line > m) => line \in 1 .. m
  BY ONLY <1>3
<1>6. line \in Nat
  BY <1>5
<1>7. /\ IsFiniteSet(Stands(listing, line, Len(words)))
      /\ Cardinality(Stands(listing, line, Len(words))) \in Nat
  BY <1>2, <1>6, StandsFinite
<1> QED
  BY <1>1, <1>2, <1>4, <1>5, <1>7 DEF m

\* A branch with its offset is a word.
LEMMA PatchedType ==
  ASSUME NEW w \in Word, NEW g \in Word
  PROVE  Patched(w, g) \in Word
BY DEF Patched, Word

\* At the first line nothing has been read.
LEMMA BeginReads ==
  ASSUME NEW l \in Listings, Begin(l), file = <<>>
  PROVE  Reading /\ Written
<1>1. listing = l /\ line = 1 /\ words = <<>> /\ used = 0
  BY DEF Begin
<1>2. Len(l) \in Nat \ {0}
  BY LineFacts
<1>3. ~Done
  BY <1>1, <1>2 DEF Done
<1>4. Count(l, 1) \in 0 .. LineWords
  BY <1>2, LineFacts
<1>5. Len(words) = 0 /\ words \in Seq(Word)
  BY <1>1, EmptySeq
<1>6. Cardinality(Stands(l, 1, 0)) = 0
  BY StandsNone, FS_EmptySet
<1>7. UsedUp(0) = 0
  <2>1. Table \in Seq(Word)
    OBVIOUS
  <2>2. Len(Table) \in Nat
    BY <2>1, LenProperties
  <2> QED
    BY <2>2 DEF UsedUp
<1>8. Reading
  <2>1. 0 <= Count(l, 1)
    BY <1>4
  <2>2. 1 \in 1 .. Len(l) + 1
    BY <1>2
  <2> QED
    BY <2>1, <2>2, <1>1, <1>3, <1>5, <1>6, <1>7 DEF Reading
<1>9. Written
  <2>1. line - 1 = 0
    BY <1>1
  <2>2. {p \in 1 .. 0 : l[p].words # <<>>} = {}
    OBVIOUS
  <2>3. Blocks(l, 0) = 0
    BY <2>2, FS_EmptySet DEF Blocks
  <2>4. file \in Seq(ABlock) /\ Len(file) = 0
    BY EmptySeq
  <2> QED
    BY <2>1, <2>3, <2>4, <1>1 DEF Written
<1> QED
  BY <1>8, <1>9

\* A word of a line is put when it is the one that is wanted there, and the cursor
\* counts it when it is a nop or a branch.
LEMMA PutReads ==
  ASSUME Reading, Written, More, NEW w \in Word, Put(w),
         w = Wanted(listing, line, Len(words) + 1),
         used' = UsedUp(Cardinality(Stands(listing, line, Len(words) + 1)))
  PROVE  Reading' /\ Written'
<1> DEFINE n == Len(words)
<1>1. /\ UNCHANGED <<listing, line, file>> /\ words' = Append(words, w)
      /\ words \in Seq(Word) /\ n \in Nat /\ ~Done
  BY ReadingFacts DEF Put, More, Reading
<1>2. /\ words' \in Seq(Word) /\ Len(words') = n + 1
      /\ \A j \in 1 .. n : words'[j] = words[j]
      /\ words'[n + 1] = w
  BY <1>1, AppendProperties
<1>3. n + 1 <= Count(listing, line)
  <2>1. n < LineWords /\ n < Len(listing[line].words)
    BY DEF More
  <2>2. n < Count(listing, line)
    BY <2>1 DEF Count
  <2>3. Count(listing, line) \in Nat
    <3>1. Count(listing, line) \in 0 .. LineWords
      BY <1>1, ReadingFacts, LineFacts
    <3> QED
      BY <3>1 DEF LineWords
  <2> HIDE DEF n
  <2> QED
    BY ONLY <2>2, <2>3, <1>1
<1>4. \A j \in 1 .. n + 1 : words'[j] = Wanted(listing, line, j)
  <2>1. \A j \in 1 .. n : words[j] = Wanted(listing, line, j)
    BY DEF Reading
  <2>2. ASSUME NEW j \in 1 .. n + 1 PROVE j \in 1 .. n \/ j = n + 1
    <3> HIDE DEF n
    <3> QED
      BY ONLY <1>1, j \in 1 .. n + 1
  <2> QED
    BY <2>1, <2>2, <1>2
<1>5. ~Done'
  BY <1>1 DEF Done
<1>6. Reading'
  <2>1. listing' = listing /\ line' = line
    BY <1>1
  <2>2. listing \in Listings /\ line \in 1 .. Len(listing) + 1
    BY DEF Reading
  <2> QED
    BY <2>1, <2>2, <1>2, <1>3, <1>4, <1>5 DEF Reading
<1>7. Written'
  BY <1>1 DEF Written
<1> QED
  BY <1>6, <1>7

\* The three actions that put a word put the one that is wanted, and the cursor does
\* not leave the table.
LEMMA WordStep ==
  ASSUME Reading, Written, PutNop \/ PutBranch \/ PutAsIs
  PROVE  Reading' /\ Written'
<1> DEFINE n == Len(words)
           x == listing[line].words[n + 1]
           c == Cardinality(Stands(listing, line, n))
           d == Cardinality(Stands(listing, line, n + 1))
           T == Len(Table)
<1>1. More /\ Current = x
  BY DEF PutNop, PutBranch, PutAsIs, Current
<1>2. ~Done
  BY <1>1 DEF More
<1>3. /\ n \in Nat /\ c \in Nat /\ T \in Nat
      /\ listing \in Listings /\ line \in 1 .. Len(listing)
  BY <1>2, ReadingFacts
<1>4. n < Count(listing, line)
  BY <1>1 DEF More, Count
<1>5. d = c + IF Stand(x) THEN 1 ELSE 0
  BY <1>3, <1>4, StandsWord
<1>6. x \in Word
  <2>1. Count(listing, line) \in 0 .. LineWords
    BY <1>3, LineFacts
  <2>2. Count(listing, line) \in Nat
    BY <2>1 DEF LineWords
  <2>3. n + 1 \in 1 .. Count(listing, line)
    BY ONLY <2>2, <1>3, <1>4
  <2> QED
    BY <2>3, <1>3, LineFacts
<1>7. used = IF c < T THEN c ELSE T
  BY DEF Reading, UsedUp
<1>8. \A k \in 1 .. T : Table[k] \in Word
  <2>1. Table \in Seq(Word)
    OBVIOUS
  <2> QED
    BY <2>1, ElementOfSeq
<1>9. Wanted(listing, line, n + 1) =
        IF ~Stand(x) \/ d > T THEN x
        ELSE IF Nop(x) THEN Table[d] ELSE Patched(x, Table[d])
  BY DEF Wanted
<1>10. UsedUp(d) = IF d < T THEN d ELSE T
  BY DEF UsedUp
<1> HIDE DEF n, x, c, d, T
<1>11. CASE PutNop
  <2>1. /\ used < T /\ Nop(x) /\ Put(Table[used + 1]) /\ used' = used + 1
    BY <1>11, <1>1 DEF PutNop, Left, T
  <2>2. Stand(x)
    BY <2>1 DEF Stand
  <2>3. used = c /\ d = c + 1 /\ d \in 1 .. T /\ ~(d > T) /\ used' = UsedUp(d)
    BY ONLY <2>1, <2>2, <1>3, <1>5, <1>7, <1>10
  <2>4. Table[d] \in Word /\ Put(Table[d]) /\ Table[d] = Wanted(listing, line, n + 1)
    BY <2>1, <2>2, <2>3, <1>8, <1>9
  <2> QED
    BY <2>3, <2>4, <1>1, PutReads DEF n, d
<1>12. CASE PutBranch
  <2>1. /\ used < T /\ ~Nop(x) /\ Likely(x) /\ Put(Patched(x, Table[used + 1]))
        /\ used' = used + 1
    BY <1>12, <1>1 DEF PutBranch, Left, T
  <2>2. Stand(x)
    BY <2>1 DEF Stand
  <2>3. used = c /\ d = c + 1 /\ d \in 1 .. T /\ ~(d > T) /\ used' = UsedUp(d)
    BY ONLY <2>1, <2>2, <1>3, <1>5, <1>7, <1>10
  <2>4. Patched(x, Table[d]) \in Word
    <3>1. Table[d] \in Word
      BY <2>3, <1>8
    <3> QED
      BY <1>6, <3>1, PatchedType
  <2>5. /\ Put(Patched(x, Table[d]))
        /\ Patched(x, Table[d]) = Wanted(listing, line, n + 1)
    BY <2>1, <2>2, <2>3, <1>9
  <2> QED
    BY <2>3, <2>4, <2>5, <1>1, PutReads DEF n, d
<1>13. CASE PutAsIs
  <2>1. /\ used < T => ~Stand(x)
        /\ Put(x) /\ used' = used
    BY <1>13, <1>1 DEF PutAsIs, Left, T
  <2>2. (~Stand(x) \/ d > T) /\ used' = UsedUp(d)
    BY ONLY <2>1, <1>3, <1>5, <1>7, <1>10
  <2>3. x = Wanted(listing, line, n + 1)
    BY <2>2, <1>9
  <2> QED
    BY <2>1, <2>2, <2>3, <1>1, <1>6, PutReads DEF n, d
<1> QED
  BY <1>11, <1>12, <1>13

\* At the end of a line its words are all those that are wanted of it, the block is
\* written if there is one, and the cursor stays.
LEMMA LineStep ==
  ASSUME Reading, Written, WriteBlock \/ SkipLine
  PROVE  Reading' /\ Written'
<1> DEFINE n == Len(words)
           b == Len(file)
           k == Count(listing, line)
<1>1. /\ ~Done /\ ~More /\ line' = line + 1 /\ words' = <<>>
      /\ listing' = listing /\ used' = used
  BY DEF WriteBlock, SkipLine, NextLine
<1>2. /\ n \in Nat /\ listing \in Listings /\ line \in 1 .. Len(listing)
      /\ Len(listing) \in Nat /\ line \in Nat \ {0} /\ words \in Seq(Word)
  BY <1>1, ReadingFacts DEF Reading
<1>3. /\ k \in Nat /\ listing[line].addr \in Nat
      /\ listing[line].words # <<>> <=> k # 0
  <2>1. k \in 0 .. LineWords
    BY <1>2, LineFacts
  <2>2. k \in Nat
    BY <2>1 DEF LineWords
  <2> QED
    BY <2>2, <1>2, LineFacts
<1>4. n = k
  <2>1. n <= k
    BY <1>1 DEF Reading
  <2>2. ~(n < k)
    <3> DEFINE z == Len(listing[line].words)
    <3>1. z \in Nat
      BY <1>2, LineFacts
    <3>2. ~(n < LineWords /\ n < z) /\ k = IF z < LineWords THEN z ELSE LineWords
      BY <1>1 DEF More, Count
    <3> HIDE DEF n, k, z
    <3> QED
      BY ONLY <3>1, <3>2, <1>2 DEF LineWords
  <2> HIDE DEF n, k
  <2> QED
    BY ONLY <2>1, <2>2, <1>2, <1>3
<1>5. Stands(listing, line + 1, 0) = Stands(listing, line, n)
  BY <1>2, <1>4, StandsLine
<1>6. Len(words') = 0 /\ words' \in Seq(Word)
  BY <1>1, EmptySeq
<1>7. Reading'
  <2>1. line' \in 1 .. Len(listing) + 1
    BY <1>1, <1>2
  <2>2. ~Done' => 0 <= Count(listing', line')
    <3> SUFFICES ASSUME ~Done' PROVE 0 <= Count(listing', line')
      OBVIOUS
    <3>1. ~(line' > Len(listing))
      BY <1>1 DEF Done
    <3>2. line' \in 1 .. Len(listing)
      BY <3>1, <2>1, <1>2
    <3>3. Count(listing, line') \in 0 .. LineWords
      BY <3>2, <1>2, LineFacts
    <3> QED
      BY <3>3, <1>1 DEF LineWords
  <2>3. used' = UsedUp(Cardinality(Stands(listing', line', Len(words'))))
    BY <1>1, <1>5, <1>6 DEF Reading
  <2> QED
    BY <2>1, <2>2, <2>3, <1>1, <1>2, <1>6 DEF Reading
<1>8. /\ file \in Seq(ABlock) /\ b = Blocks(listing, line - 1) /\ b \in Nat
      /\ \A i \in 1 .. line - 1 : listing[i].words # <<>> =>
           /\ file[Blocks(listing, i)] = WantedBlock(listing, i)
           /\ Blocks(listing, i) \in 1 .. b
  <2>1. line - 1 \in Nat
    BY <1>2
  <2> QED
    BY <2>1, BlocksGrow, LenProperties DEF Written
<1>9. /\ line' - 1 = line
      /\ \A i \in 1 .. line : i \in 1 .. line - 1 \/ i = line
  BY <1>1, <1>2
<1>10. Blocks(listing, line) = Blocks(listing, line - 1)
                                 + IF listing[line].words # <<>> THEN 1 ELSE 0
  BY <1>2, BlocksLine
<1>11. CASE WriteBlock
  <2> DEFINE blk == [addr |-> listing[line].addr, data |-> words]
  <2>1. words # <<>> /\ file' = Append(file, blk)
    BY <1>11 DEF WriteBlock
  <2>2. n # 0
    BY <2>1, <1>2, EmptySeq
  <2>3. listing[line].words # <<>> /\ Blocks(listing, line) = b + 1
    BY <2>2, <1>3, <1>4, <1>8, <1>10
  <2>4. blk \in ABlock
    BY <1>2, <1>3 DEF ABlock
  <2>5. words = [j \in 1 .. k |-> Wanted(listing, line, j)]
    <3>1. \A j \in 1 .. n : words[j] = Wanted(listing, line, j)
      BY DEF Reading
    <3>2. words = [j \in 1 .. n |-> words[j]]
      BY <1>2, LenProperties
    <3> HIDE DEF n, k
    <3> QED
      BY ONLY <3>1, <3>2, <1>4
  <2>6. blk = WantedBlock(listing, line)
    BY <2>5 DEF WantedBlock
  <2> HIDE DEF blk
  <2>7. /\ file' \in Seq(ABlock) /\ Len(file') = b + 1 /\ file'[b + 1] = blk
        /\ \A i \in 1 .. b : file'[i] = file[i]
    BY <2>1, <2>4, <1>8, AppendProperties
  <2>8. \A i \in 1 .. line :
          listing[i].words # <<>> => file'[Blocks(listing, i)] = WantedBlock(listing, i)
    BY <2>3, <2>6, <2>7, <1>8, <1>9
  <2>9. Written'
    BY <2>3, <2>7, <2>8, <1>1, <1>9 DEF Written
  <2> QED
    BY <2>9, <1>7
<1>12. CASE SkipLine
  <2>1. words = <<>> /\ file' = file
    BY <1>12 DEF SkipLine
  <2>2. n = 0
    BY <2>1, EmptySeq
  <2>3. listing[line].words = <<>> /\ Blocks(listing, line) = b
    BY <2>2, <1>3, <1>4, <1>8, <1>10
  <2>4. Written'
    BY <2>1, <2>3, <1>1, <1>8, <1>9 DEF Written
  <2> QED
    BY <2>4, <1>7
<1> QED
  BY <1>11, <1>12

\* The invariant of s2bin, step by step.
LEMMA ReadingStep ==
  ASSUME Reading, Written, [S2Next]_<<s2Vars, file>>
  PROVE  Reading' /\ Written'
<1>1. CASE S2Next
  BY <1>1, WordStep, LineStep DEF S2Next
<1>2. CASE UNCHANGED <<s2Vars, file>>
  BY <1>2 DEF s2Vars, Reading, Written, Done
<1> QED
  BY <1>1, <1>2

\* At the end of the listing the file is made.
LEMMA DoneMakes ==
  ASSUME Reading, Written, Done
  PROVE  Made(listing, file)
<1>1. line - 1 = Len(listing)
  BY ReadingFacts
<1> QED
  BY <1>1 DEF Made, Written

\* s2bin makes of every listing, with every table of instructions, the file with one
\* block for each line with words, in which the n-th nop or branch has become the n-th
\* instruction (gen_instr_idx, s2bin.c:127 and 152-165), and does not read past the
\* table.
THEOREM WritesListingHolds == S2Spec => []WritesListing
<1>1. S2Init => Reading /\ Written
  BY BeginReads DEF S2Init
<1>2. Reading /\ Written /\ [S2Next]_<<s2Vars, file>> => (Reading /\ Written)'
  BY ReadingStep
<1>3. Reading /\ Written => WritesListing
  BY DoneMakes DEF WritesListing
<1> QED
  BY <1>1, <1>2, <1>3, PTL DEF S2Spec

----------------------------------------------------------------------------
(* From the listing to what the CPU reads.                                 *)

\* The files that s2bin makes of the listings, and the others, are those that
\* memory is to be loaded with.
FilesMade ==
  /\ OtherFiles \subseteq Files
  /\ \A l \in Listings : \A f \in Seq(ABlock) : Made(l, f) => f \in Files

\* Until the first store every word of the file is read at its address.
AtRest == ~loading /\ stores = 0 =>
  \A k \in 1 .. Len(file) : \A j \in 1 .. Len(file[k].data) :
    Read(file[k].addr + 4 * (j - 1)) = file[k].data[j]

MemoryInv == ListInv /\ Counted /\ FlatInv /\ AtRest

Ready == file \in Files /\ (listing = <<>> \/ (listing \in Listings /\ Made(listing, file)))

\* First s2bin works and memory is not there; then the file is made, and memory reads it.
ToolInv ==
  \/ ~Done /\ Boot /\ Reading /\ Written
  \/ Done /\ Ready /\ (Boot \/ MemoryInv)

\* The turn of the loader that ends it leaves memory at rest, and a store is counted.
LEMMA RestStep ==
  ASSUME WellFormed, FullBlocks, Fits, ListInv, Counted, FlatInv, AtRest, [Next]_mVars
  PROVE  AtRest'
<1>1. CASE LoadJoined \/ LoadApart
  <2>1. loading'
    BY <1>1 DEF LoadJoined, LoadApart, ReadWords, Turn
  <2> QED
    BY <2>1 DEF AtRest
<1>2. CASE LoadEnd \/ LoadCutOff
  <2>1. /\ loading /\ UNCHANGED <<file, at, cursors, mem>>
        /\ \A k \in 1 .. Len(file) : k \in 1 .. at - 1 \/ Len(file[k].data) = 0
    BY <1>2, AllRead
  <2>2. ASSUME NEW k \in 1 .. Len(file), NEW j \in 1 .. Len(file[k].data)
        PROVE  Read(file[k].addr + 4 * (j - 1)) = file[k].data[j]
    <3> DEFINE c == file[k].addr
               z == Len(file[k].data)
               a == c + 4 * (j - 1)
    <3>1. c \in Nat /\ z \in Nat /\ BlockEnd(file[k]) = c + 4 * z
      BY FileFacts DEF ListInv, MemType
    <3>2. j \in 1 .. z
      OBVIOUS
    <3> HIDE DEF c, z
    <3>3. z # 0 /\ a \in Nat /\ c <= a /\ a < c + 4 * z /\ (a - c) \div 4 + 1 = j
      BY ONLY <3>1, <3>2
    <3> HIDE DEF a
    <3>4. k \in 1 .. at - 1
      BY <2>1, <3>3 DEF z
    <3>5. InBlock(file[k], a)
      BY <3>1, <3>3 DEF InBlock, c
    <3>6. Read(a) = file[k].data[(a - c) \div 4 + 1]
      BY <2>1, <3>3, <3>4, <3>5, ReadsBlock DEF c
    <3> QED
      BY <3>3, <3>6 DEF a, c
  <2>3. \A x : Read(x)' = Read(x)
    BY <2>1 DEF Read, Mapped, WordAt, First
  <2> QED
    BY <2>1, <2>2, <2>3 DEF AtRest
<1>3. CASE Store
  <2>1. stores' = stores + 1 /\ stores \in Nat
    BY <1>3 DEF Store, StoreMapped, StoreInsert, StoreRefused, StoreCall, ListInv, MemType
  <2>2. stores' # 0
    BY <2>1
  <2> QED
    BY <2>2 DEF AtRest
<1>4. CASE UNCHANGED mVars
  <2>1. UNCHANGED <<file, loading, cursors, mem, stores>>
    BY <1>4 DEF mVars
  <2>2. \A x : Read(x)' = Read(x)
    BY <2>1 DEF Read, Mapped, WordAt, First
  <2> QED
    BY <2>1, <2>2 DEF AtRest
<1> QED
  BY <1>1, <1>2, <1>3, <1>4 DEF Next, Load

\* Memory before it reads a file that was made.
LEMMA BootFlat ==
  ASSUME WellFormed, Boot, Ready
  PROVE  MemoryInv
<1>1. Init /\ loading
  BY DEF Init, Boot, Ready
<1> QED
  BY <1>1, InitFlat DEF MemoryInv, AtRest

\* At the beginning s2bin has a listing, or there is a file of another origin.
LEMMA ToolBegins ==
  ASSUME FilesMade, ToolInit
  PROVE  ToolInv /\ F!FMInit
<1>1. Boot
  BY DEF ToolInit
<1>2. F!FMInit
  BY <1>1 DEF Boot, F!FMInit
<1>3. CASE S2Init
  <2>1. PICK l \in Listings : Begin(l) /\ file = <<>>
    BY <1>3 DEF S2Init
  <2>2. Reading /\ Written
    BY <2>1, BeginReads
  <2>3. ~Done
    <3>1. Len(l) \in Nat \ {0} /\ line = 1 /\ listing = l
      BY <2>1, LineFacts DEF Begin
    <3> QED
      BY <3>1 DEF Done
  <2> QED
    BY <1>1, <1>2, <2>2, <2>3 DEF ToolInv
<1>4. CASE Begin(<<>>) /\ file \in OtherFiles
  <2>1. listing = <<>> /\ line = 1 /\ Len(listing) = 0
    BY <1>4, EmptySeq DEF Begin
  <2>2. Done /\ Ready
    BY <2>1, <1>4 DEF Done, Ready, FilesMade
  <2> QED
    BY <1>1, <1>2, <2>2 DEF ToolInv
<1> QED
  BY <1>3, <1>4 DEF ToolInit

\* A step of s2bin is before the loading, and the last makes the file; a step of memory
\* leaves the file as it was made.
LEMMA ToolStep ==
  ASSUME WellFormed, Values, FullBlocks, Fits, StoresKept, FilesMade,
         ToolInv, [ToolNext]_<<mVars, s2Vars>>
  PROVE  ToolInv' /\ [F!FMNext]_(F!fmVars)
<1>1. CASE S2Next /\ UNCHANGED <<at, loading, cursors, mem, stores>>
  <2>1. ~Done
    BY <1>1 DEF S2Next, PutNop, PutBranch, PutAsIs, WriteBlock, SkipLine, NextLine, More
  <2>2. Boot /\ Reading /\ Written
    BY <2>1 DEF ToolInv
  <2>3. Reading' /\ Written'
    BY <1>1, <2>2, ReadingStep
  <2>4. Boot'
    BY <1>1, <2>2 DEF Boot
  <2>5. Done' => Ready'
    <3>1. Done' => Made(listing, file)'
      <4> SUFFICES ASSUME Done' PROVE Made(listing', file')
        OBVIOUS
      <4>1. listing' \in Listings /\ line' \in 1 .. Len(listing') + 1
        BY <2>3 DEF Reading
      <4>2. Len(listing') \in Nat
        BY <4>1, LineFacts
      <4>3. line' > Len(listing')
        BY DEF Done
      <4>4. ASSUME NEW m \in Nat, NEW n \in 1 .. m + 1, n > m PROVE n - 1 = m
        BY ONLY m \in Nat, n \in 1 .. m + 1, <4>4
      <4>5. line' - 1 = Len(listing')
        BY <4>1, <4>2, <4>3, <4>4
      <4> QED
        BY <2>3, <4>5 DEF Made, Written
    <3>2. listing' \in Listings /\ file' \in Seq(ABlock)
      BY <2>3 DEF Reading, Written
    <3> QED
      BY <3>1, <3>2 DEF Ready, FilesMade
  <2>6. F!FMWrite
    BY <1>1, <2>2 DEF F!FMWrite, Boot
  <2> QED
    BY <2>3, <2>4, <2>5, <2>6 DEF ToolInv, F!FMNext
<1>2. CASE Done /\ Next /\ UNCHANGED s2Vars
  <2>1. Ready /\ MemoryInv
    BY <1>2, BootFlat DEF ToolInv
  <2>2. /\ ListInv' /\ Counted' /\ FlatInv'
        /\ [F!FMNext]_(F!fmVars)
    BY <1>2, <2>1, FlatStep DEF MemoryInv
  <2>3. AtRest'
    BY <1>2, <2>1, RestStep DEF MemoryInv
  <2>4. file' = file
    BY <1>2 DEF Next, Load, LoadJoined, LoadApart, ReadWords, LoadCutOff, LoadEnd,
                Store, StoreMapped, StoreInsert, StoreRefused, StoreCall
  <2>5. Done' /\ Ready'
    BY <1>2, <2>1, <2>4 DEF s2Vars, Done, Ready
  <2> QED
    BY <2>2, <2>3, <2>5 DEF ToolInv, MemoryInv
<1>3. CASE UNCHANGED <<mVars, s2Vars>>
  <2>1. UNCHANGED mVars /\ UNCHANGED s2Vars /\ UNCHANGED <<s2Vars, file>>
    BY <1>3 DEF mVars
  <2>2. Done' <=> Done
    BY <2>1 DEF s2Vars, Done
  <2>3. Boot' <=> Boot
    BY <2>1 DEF mVars, Boot
  <2>4. [F!FMNext]_(F!fmVars)
    BY <2>1 DEF mVars, F!fmVars, Read, Mapped, WordAt, First
  <2>5. CASE ~Done
    BY <2>1, <2>2, <2>3, <2>4, <2>5, ReadingStep DEF ToolInv
  <2>6. CASE Done
    <3>1. Ready'
      BY <2>1, <2>6 DEF ToolInv, Ready, mVars, s2Vars
    <3>2. Boot' \/ MemoryInv'
      <4>1. CASE Boot
        BY <4>1, <2>3
      <4>2. CASE MemoryInv
        BY <4>2, <2>1, FlatStep, RestStep DEF MemoryInv
      <4> QED
        BY <4>1, <4>2, <2>6 DEF ToolInv
    <3> QED
      BY <3>1, <3>2, <2>2, <2>4, <2>6 DEF ToolInv
  <2> QED
    BY <2>5, <2>6
<1> QED
  BY <1>1, <1>2, <1>3 DEF ToolNext

\* What the words of the file are follows from what the listing says.
LEMMA RestLoads ==
  ASSUME ToolInv
  PROVE  LoadsListing
<1> SUFFICES ASSUME ~loading, stores = 0,
                    NEW i \in 1 .. Len(listing), NEW j \in 1 .. Count(listing, i)
             PROVE  Read(listing[i].addr + 4 * (j - 1)) = Wanted(listing, i, j)
  BY DEF LoadsListing
<1>1. Ready /\ AtRest
  BY DEF ToolInv, Boot, MemoryInv
<1>2. CASE listing = <<>>
  <2>1. Len(listing) = 0
    BY <1>2, EmptySeq
  <2> QED
    BY <2>1
<1>3. CASE listing \in Listings /\ Made(listing, file)
  <2>1. /\ Len(listing) \in Nat /\ Count(listing, i) \in 0 .. LineWords
        /\ listing[i].words # <<>> <=> Count(listing, i) # 0
    BY <1>3, LineFacts
  <2> DEFINE z == Count(listing, i)
             k == Blocks(listing, i)
  <2>2. z \in Nat /\ z # 0
    <3>1. z \in Nat
      BY <2>1 DEF LineWords
    <3>2. j \in 1 .. z
      OBVIOUS
    <3> HIDE DEF z
    <3> QED
      BY <3>1, <3>2
  <2>3. file[k] = WantedBlock(listing, i) /\ k \in 1 .. Len(file)
    BY <1>3, <2>1, <2>2, BlocksGrow DEF Made
  <2>4. /\ file[k].addr = listing[i].addr
        /\ file[k].data = [n \in 1 .. z |-> Wanted(listing, i, n)]
    BY <2>3 DEF WantedBlock
  <2>5. Len(file[k].data) = z /\ file[k].data[j] = Wanted(listing, i, j)
    <3> HIDE DEF k
    <3> QED
      BY <2>2, <2>4, LenProperties
  <2> QED
    BY <1>1, <2>3, <2>4, <2>5 DEF AtRest
<1> QED
  BY <1>1, <1>2, <1>3 DEF Ready

\* The CPU reads the program that was written: for every listing and table of
\* instructions, and for every split of the listing into lines, blocks and stretches,
\* the n-th nop or branch reads as the n-th RPU instruction and every other word as in
\* the listing (s2bin.c:127-190, memory.cpp's read_input_file and read).
THEOREM LoadsListingHolds ==
  ASSUME WellFormed, Values, FullBlocks, Fits, StoresKept, FilesMade
  PROVE  ToolSpec => []LoadsListing
<1>1. ToolInit => ToolInv
  BY ToolBegins
<1>2. ToolInv /\ [ToolNext]_<<mVars, s2Vars>> => ToolInv'
  BY ToolStep
<1>3. ToolInv => LoadsListing
  BY RestLoads
<1> QED
  BY <1>1, <1>2, <1>3, PTL DEF ToolSpec

\* Memory behind s2bin: its list is right and it is the flat array of bytes of the file
\* that s2bin makes, under any number of stores that StoresKept allows: in a block,
\* above all blocks, or anywhere once the table of cursors is full (viol_store has
\* one that it does not allow).
THEOREM ToolchainSafe ==
  ASSUME WellFormed, Values, FullBlocks, Fits, StoresKept, FilesMade
  PROVE  ToolSpec => [](ListOK /\ WritesListing) /\ ImplementsFlat
<1>1. ToolInit => ToolInv /\ F!FMInit
  BY ToolBegins
<1>2. ToolInv /\ [ToolNext]_<<mVars, s2Vars>> => ToolInv' /\ [F!FMNext]_(F!fmVars)
  BY ToolStep
<1>3. ToolInv => ListOK /\ WritesListing
  <2> SUFFICES ASSUME ToolInv PROVE ListOK /\ WritesListing
    OBVIOUS
  <2>1. CASE ~Done /\ Boot
    <3>1. DOMAIN cursors = {}
      BY <2>1 DEF Boot
    <3> QED
      BY <2>1, <3>1 DEF ListOK, WritesListing
  <2>2. CASE Done /\ Ready /\ (Boot \/ MemoryInv)
    <3>1. MemoryInv
      BY <2>2, BootFlat
    <3>2. <<>> \notin Listings
      OBVIOUS
    <3> QED
      BY <2>2, <3>1, <3>2 DEF MemoryInv, ListInv, WritesListing, Ready
  <2> QED
    BY <2>1, <2>2 DEF ToolInv
<1> QED
  BY <1>1, <1>2, <1>3, PTL DEF ToolSpec, ImplementsFlat, F!FMSpec
=============================================================================
