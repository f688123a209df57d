----------------------------- MODULE MCMemory ------------------------------
(***************************************************************************)
(* A few short listings, and what memory is loaded with.                   *)
(***************************************************************************)
EXTENDS Toolchain

W4(a, b, c, d) == [k \in 0 .. 3 |-> <<a, b, c, d>>[k + 1]]
Line(a, ws)    == [addr |-> a, words |-> ws]

Zero         == W4(0, 0, 0, 0)
Branch(off)  == W4(off, 255, 3, 4)
Bytes(x)     == W4(x.lo % 256, x.lo \div 256, x.hi % 256, x.hi \div 256)
\* CALCPC2 and BMCC2, as raim.s has them.
TwoInstr     == LET G == INSTANCE RpuWords IN <<Bytes(G!GenInstr[20]), Bytes(G!GenInstr[22])>>
TwoWords     == {W4(21, 22, 23, 24), W4(31, 32, 33, 34)}

\* The text of a program, its lines joined by the loader and apart: as many nops
\* and branches as there are instructions to put in.
Texts == {<<Line(8, <<W4(1, 2, 3, 5), Zero>>), Line(16, <<Branch(7)>>)>>,
          <<Line(8, <<Branch(5)>>), Line(16, <<Zero>>)>>}

\* Empty memory, then the data, zeros and what looks like a branch among them.
Datas == {<<Line(20, <<>>), Line(24, <<Zero>>)>>, <<Line(24, <<Branch(8)>>)>>}

SmallListings == {t \o d : t \in Texts, d \in Datas}
\* One that was cut off after the header of its last block.
CutOffFile    == <<[addr |-> 8, data |-> <<Zero>>], [addr |-> 16, data |-> <<>>]>>
OneCutOff     == {CutOffFile}
Nothing       == {}

\* What s2bin is to make of a listing.
FileOf(l)     == [b \in 1 .. Blocks(l, Len(l)) |->
  WantedBlock(l, CHOOSE i \in DOMAIN l : l[i].words # <<>> /\ Blocks(l, i) = b)]
AllFiles      == {FileOf(l) : l \in Listings} \cup OneCutOff

ByteAddrs == 4 .. 31
\* The stretches of all files, the hole of the full list and the end.
InOrAbove == (8 .. 19) \cup (24 .. 31)
Anywhere  == ByteAddrs
============================================================================
