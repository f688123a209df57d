---------------------------- MODULE ProgramFile ----------------------------
(***************************************************************************)
(* The program file: s2bin writes it, the constructor of memory reads it.  *)
(* A sequence of blocks, each an address, a number of words, and as many   *)
(* words: [addr, data].                                                    *)
(***************************************************************************)
EXTENDS Integers, SequencesExt

VARIABLE file

\* A word is its four bytes, the low one first, as the file holds it.
Word == [0 .. 3 -> 0 .. 255]
============================================================================
