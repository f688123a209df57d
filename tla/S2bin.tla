------------------------------- MODULE S2bin -------------------------------
(***************************************************************************)
(* s2bin (alg/asm/s2bin.c): makes the program file out of the listing that *)
(* PCSpim saves, and puts the RPU instructions, which PCSpim cannot        *)
(* assemble, in the place of the nops and of the bgezl $zero branches that *)
(* stand for them, in the order of the table gen_instr.                    *)
(*                                                                         *)
(* A line of the listing is its address and the words that parse; a line   *)
(* without an address, or for a stretch of empty memory, has no words.     *)
(***************************************************************************)
EXTENDS ProgramFile

CONSTANTS
  Listings,  \* sequences of lines [addr, words]
  Table      \* the words of gen_instr, those to put in

ASSUME ListingAssumption ==
  /\ Listings \subseteq Seq([addr : Nat, words : Seq(Word)]) \ {<<>>}
  /\ Table \in Seq(Word)

VARIABLES
  listing,
  line,   \* the line that is read, from 1
  words,  \* words[0 .. size - 1] of the line
  used    \* gen_instr_idx

\* What main keeps to itself.
s2Vars == <<listing, line, words, used>>

\* MAX_WORDS_PER_LOG_LINE
LineWords == 4

----------------------------------------------------------------------------
(* A step is a word of a line, or the end of the line.                     *)

Begin(l) == listing = l /\ line = 1 /\ words = <<>> /\ used = 0

S2Init == file = <<>> /\ \E l \in Listings : Begin(l)

Done == line > Len(listing)

Nop(w)    == \A k \in 0 .. 3 : w[k] = 0
\* bgezl $zero with any offset: the high half of the word is 0x0403.
Likely(w) == w[3] = 4 /\ w[2] = 3
Stand(w)  == Nop(w) \/ Likely(w)

\* A branch keeps the offset that PCSpim gave it.
Patched(w, g) == [k \in 0 .. 3 |-> IF k < 2 THEN w[k] ELSE g[k]]

More ==
  /\ ~Done
  /\ Len(words) < LineWords /\ Len(words) < Len(listing[line].words)

Current == listing[line].words[Len(words) + 1]
Left    == used < Len(Table)

Put(w) == words' = Append(words, w) /\ UNCHANGED <<listing, line, file>>

PutNop ==
  /\ More /\ Left /\ Nop(Current)
  /\ Put(Table[used + 1]) /\ used' = used + 1

\* Mutant: the branch is patched and the table stays where it is.
PutBranchKeepsTurn ==
  /\ More /\ Left /\ ~Nop(Current) /\ Likely(Current)
  /\ Put(Patched(Current, Table[used + 1])) /\ UNCHANGED used

PutBranch ==
  /\ More /\ Left /\ ~Nop(Current) /\ Likely(Current)
  /\ Put(Patched(Current, Table[used + 1])) /\ used' = used + 1

PutAsIs ==
  /\ More /\ (Left => ~Stand(Current))
  /\ Put(Current) /\ UNCHANGED used

NextLine ==
  /\ ~Done /\ ~More
  /\ line' = line + 1 /\ words' = <<>> /\ UNCHANGED <<listing, used>>

\* Mutant: the block is written whether it has words or not.
WriteEmptyToo ==
  /\ NextLine
  /\ file' = Append(file, [addr |-> listing[line].addr, data |-> words])

WriteBlock ==
  /\ NextLine /\ words # <<>>
  /\ file' = Append(file, [addr |-> listing[line].addr, data |-> words])

SkipLine == NextLine /\ words = <<>> /\ UNCHANGED file

S2Next == PutNop \/ PutBranch \/ PutAsIs \/ WriteBlock \/ SkipLine

S2Spec == S2Init /\ [][S2Next]_<<s2Vars, file>>

----------------------------------------------------------------------------
(* Properties.                                                             *)

\* The words of a line that are read.
Count(l, i) == IF Len(l[i].words) < LineWords THEN Len(l[i].words) ELSE LineWords

\* The nops and branches up to word n of line i of the listing l.
Stands(l, i, n) ==
  {p \in (1 .. i) \X (1 .. LineWords) :
     /\ p[1] = i => p[2] <= n
     /\ p[2] <= Count(l, p[1]) /\ Stand(l[p[1]].words[p[2]])}

\* What is to be at the place of word j of line i: of the n-th nop or branch the
\* n-th instruction of the table, as long as there are any.
Wanted(l, i, j) ==
  LET w == l[i].words[j]
      n == Cardinality(Stands(l, i, j))
  IN IF ~Stand(w) \/ n > Len(Table) THEN w
     ELSE IF Nop(w) THEN Table[n] ELSE Patched(w, Table[n])

WantedBlock(l, i) ==
  [addr |-> l[i].addr, data |-> [j \in 1 .. Count(l, i) |-> Wanted(l, i, j)]]

\* The blocks that lines 1 to i give.
Blocks(l, i) == Cardinality({p \in 1 .. i : l[p].words # <<>>})

Made(l, f) ==
  /\ Len(f) = Blocks(l, Len(l))
  /\ \A i \in 1 .. Len(l) : l[i].words # <<>> => f[Blocks(l, i)] = WantedBlock(l, i)

\* The file has a block for each line with words, in their order and no others,
\* and the n-th nop or branch of the whole listing has become the n-th
\* instruction, however the lines fall: the cursor in the table outlives them.
WritesListing == Done /\ listing \in Listings => Made(listing, file)
============================================================================
