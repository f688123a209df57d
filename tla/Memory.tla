------------------------------- MODULE Memory -------------------------------
(***************************************************************************)
(* memory (model/src/memory.cpp): an array of words and a sorted list of   *)
(* cursors, each the address and length of a stretch of it, loaded from    *)
(* the program file; with the stores of cpu::main that use it.  A read     *)
(* changes nothing.                                                        *)
(*                                                                         *)
(* The list is the sequence of the first _n_cursors entries, as no other   *)
(* is read.  The words past _mem_words are Junk until they are given out   *)
(* (what a cut off load leaves there is nobody's either).                  *)
(***************************************************************************)
EXTENDS ProgramFile

CONSTANTS
  Files,       \* the program files
  Words, Sizes, Addrs,  \* as in FlatMemory
  MaxCursors,  \* _max_cursors (64)
  Junk,        \* a byte of the array nobody has written
  StoreAddrs,  \* the addresses the program stores to
  MaxStores    \* bound of the model on the number of stores

ASSUME MemoryAssumption ==
  /\ MaxCursors \in Nat \ {0} /\ MaxStores \in Nat
  /\ StoreAddrs \subseteq Addrs /\ Addrs \subseteq Nat

VARIABLES
  at,       \* the block that read_input_file reads next
  loading,  \* the constructor is in read_input_file
  cursors,  \* _cursors[0 .. _n_cursors - 1]: [addr, size, base]
  mem,      \* _mem[0 .. _mem_words - 1]
  stores

mVars == <<file, at, loading, cursors, mem, stores>>

----------------------------------------------------------------------------
(* The loader: a step is a turn of the loop of read_input_file.            *)

End(c) == c.addr + 4 * c.size

\* The constructor, before it reads the file.
Boot ==
  /\ at = 1 /\ loading = TRUE
  /\ cursors = <<>> /\ mem = <<>> /\ stores = 0

Init == file \in Files /\ Boot

Block == file[at]

\* There is a block to read and an entry for it.
Turn == loading /\ at <= Len(file) /\ Len(cursors) < MaxCursors

\* The block continues the previous one.
Joins == cursors # <<>> /\ End(Last(cursors)) = Block.addr

\* Mutant: the place of a stretch is counted in entries.
PlaceByEntry == Len(cursors)

\* out_cursor, where the next word goes.
OutCursor == Len(mem)

\* The words of the block go behind those that are there.
ReadWords ==
  /\ mem' = mem \o Block.data
  /\ at' = at + 1
  /\ UNCHANGED <<file, loading, stores>>

LoadJoined ==
  /\ Turn /\ Block.data # <<>> /\ Joins
  /\ cursors' = [cursors EXCEPT ![Len(cursors)].size = @ + Len(Block.data)]
  /\ ReadWords

LoadApart ==
  /\ Turn /\ Block.data # <<>> /\ ~Joins
  /\ cursors' = Append(cursors, [addr |-> Block.addr, size |-> Len(Block.data),
                                 base |-> OutCursor])
  /\ ReadWords

\* The constructor's sum of the sizes: the stretches follow one another.
MemWords(cs) == IF cs = <<>> THEN 0 ELSE Last(cs).base + Last(cs).size

\* A block without words, or a file that ends after a header, ends the loop (fread
\* of no words returns zero), and takes the entry it was joined to with it.
LoadCutOff ==
  /\ Turn /\ Block.data = <<>>
  /\ cursors' = IF Joins THEN Front(cursors) ELSE cursors
  /\ mem' = SubSeq(mem, 1, MemWords(cursors'))
  /\ loading' = FALSE
  /\ UNCHANGED <<file, at, stores>>

\* The end of the file, or of the table.
LoadEnd ==
  /\ loading /\ (at > Len(file) \/ Len(cursors) = MaxCursors)
  /\ loading' = FALSE
  /\ UNCHANGED <<file, at, cursors, mem, stores>>

----------------------------------------------------------------------------
Covers(c, a) == c.addr <= a /\ End(c) > a
Mapped(a)    == \E i \in DOMAIN cursors : Covers(cursors[i], a)
First(a)     == CHOOSE i \in DOMAIN cursors :
  Covers(cursors[i], a) /\ \A j \in 1 .. i - 1 : ~Covers(cursors[j], a)

\* The position in mem (from 1) of the word that holds address a.
WordAt(a) == LET c == cursors[First(a)] IN c.base + (a - c.addr) \div 4 + 1

Zeros   == [k \in 0 .. 3 |-> 0]
Read(a) == IF Mapped(a) THEN mem[WordAt(a)] ELSE Zeros

\* Mutant: the half of the word is taken for a byte of it.
LaneUnscaled(s, o) == o \div s

\* The first byte that write_int changes: offset >> 1 counts halfwords.
Lane(s, o) == s * (o \div s)

\* write_int: the low bytes of d go to their lane of the word.
Merged(w, d, s, o) ==
  LET l == Lane(s, o)
  IN [k \in 0 .. 3 |-> IF k - l \in 0 .. s - 1 THEN d[k - l] ELSE w[k]]

\* The CPU raises EX_ADDRESS for any other address.
StoreCall(s, a) ==
  /\ ~loading /\ a % s = 0
  /\ stores < MaxStores /\ stores' = stores + 1
  /\ UNCHANGED <<file, at, loading>>

StoreMapped(s, a, d) ==
  /\ StoreCall(s, a) /\ Mapped(a)
  /\ mem' = [mem EXCEPT ![WordAt(a)] = Merged(@, d, s, a % 4)]
  /\ UNCHANGED cursors

\* The first entry above the address.
Place(a) == 1 + Cardinality({i \in DOMAIN cursors : cursors[i].addr <= a})

\* The new entry goes into the list but _n_cursors stays, so that the list
\* loses its last one: the new entry itself when it is above all others.
StoreInsert(s, a, d) ==
  /\ StoreCall(s, a) /\ ~Mapped(a) /\ Len(cursors) < MaxCursors
  /\ cursors' = Front(InsertAt(cursors, Place(a),
                               [addr |-> a, size |-> 1, base |-> Len(mem)]))
  /\ mem' = Append(mem, Merged([k \in 0 .. 3 |-> Junk], d, s, a % 4))

StoreRefused(s, a) ==
  /\ StoreCall(s, a) /\ ~Mapped(a) /\ Len(cursors) = MaxCursors
  /\ UNCHANGED <<cursors, mem>>

Load  == LoadJoined \/ LoadApart \/ LoadCutOff \/ LoadEnd

Store == \E s \in Sizes : \E a \in StoreAddrs :
  \/ \E d \in Words : StoreMapped(s, a, d) \/ StoreInsert(s, a, d)
  \/ StoreRefused(s, a)

Next == Load \/ Store

Spec == Init /\ [][Next]_mVars

----------------------------------------------------------------------------
(* Properties.                                                             *)

\* The list is sorted, its stretches neither overlap nor touch another's
\* words, and all lie in the array: no word has two addresses, no address
\* two words, after merges and inserts alike.
ListOK ==
  /\ \A i \in DOMAIN cursors :
       cursors[i].size > 0 /\ cursors[i].base + cursors[i].size <= Len(mem)
  /\ \A i, j \in DOMAIN cursors : i < j =>
       /\ End(cursors[i]) <= cursors[j].addr
       /\ \/ cursors[i].base + cursors[i].size <= cursors[j].base
          \/ cursors[j].base + cursors[j].size <= cursors[i].base

F == INSTANCE FlatMemory WITH
  loaded <- ~loading,
  bytes  <- [a \in Addrs |-> IF loading THEN 0 ELSE Read(a)[a % 4]]

\* What the CPU reads at every address is what a flat array of bytes that was
\* filled from the file would hold after the same stores, of every size,
\* through merged and separate stretches, refused and lost stores.
ImplementsFlat == F!FMSpec

\* A store maps an address or none, and unmaps no other ("insert into cursor
\* list", "insert into memory").
NothingVanishes == [][\A a \in Addrs : Mapped(a) => Mapped(a)']_mVars
============================================================================
