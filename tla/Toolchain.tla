----------------------------- MODULE Toolchain -----------------------------
(***************************************************************************)
(* From the listing to what the CPU reads: s2bin makes the program file,   *)
(* then the simulation starts and memory loads it.                         *)
(***************************************************************************)
EXTENDS Memory, S2bin

CONSTANT OtherFiles  \* files that s2bin did not leave like this

\* The simulation is started when s2bin has ended.
ToolInit == Boot /\ (S2Init \/ (Begin(<<>>) /\ file \in OtherFiles))

ToolNext ==
  \/ S2Next /\ UNCHANGED <<at, loading, cursors, mem, stores>>
  \/ Done /\ Next /\ UNCHANGED s2Vars

ToolSpec == ToolInit /\ [][ToolNext]_<<mVars, s2Vars>>

----------------------------------------------------------------------------
\* The CPU runs the program that was written: once it is loaded, the n-th nop or
\* branch of the listing reads as the n-th RPU instruction, a branch still goes
\* where it went, and every other word, a zero of the data behind the last of
\* them included, is as in the listing, at its own address, whichever lines the
\* loader joined.
LoadsListing ==
  ~loading /\ stores = 0 =>
    \A i \in 1 .. Len(listing) : \A j \in 1 .. Count(listing, i) :
      Read(listing[i].addr + 4 * (j - 1)) = Wanted(listing, i, j)
============================================================================
