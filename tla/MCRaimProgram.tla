--------------------------- MODULE MCRaimProgram ---------------------------
(***************************************************************************)
(* The program with the tables, the queue and the units of the code, but   *)
(* for six satellites where raim.s has ten, in two constellations, and the *)
(* masks that go with them: all of them, the first three, the last three.  *)
(***************************************************************************)
EXTENDS RaimProgram

TwoConstellations == [s \in 1 .. NSat |-> IF s <= NSat \div 2 THEN 0 ELSE 1]
Halves            == <<63, 7, 56>>

Nothing == {}
Quiet   == {NoInstr}
Zero    == {0}
NoFlags == {{}}
============================================================================
