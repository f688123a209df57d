----------------------------- MODULE MCRaimCop -----------------------------
(***************************************************************************)
(* Values for the constants of RaimCop: small tables and queues, and one   *)
(* instruction alphabet per question.                                      *)
(***************************************************************************)
EXTENDS RaimCop

Word(fmt, op, reg, v) == [fmt |-> fmt, op |-> op, reg |-> reg, d |-> 0, rt |-> v]
Cp(ops, vs) == {Word("CP", op, "", v) : op \in ops, v \in vs}
Plain(ops)  == {Word("NONE", op, "", 0) : op \in ops}
Mt(reg, vs) == {Word("MT", "NOP", reg, v) : v \in vs}

Nothing   == {}
Quiet     == {NoInstr}
Zero      == {0}
NoFlags   == {{}}
OneByOne  == {1}

\* Operands of both formats, a word in a format no case decodes, and NEWSV, which
\* wants u's flag too once it has come past the end of its table.
QueueWords == Cp({"CALCP"}, {0}) \cup Mt("I", {9}) \cup Plain({"NEWSV"})
                \cup {Word("BAD", "NOP", "", 0)}
OneMask     == {[reg |-> "IDX", val |-> 1]}
AllControls == {"RST", "CLRC"}

\* The life of a least-squares matrix.
MatrixWords == Plain({"CALCU"}) \cup Cp({"INITP", "CALCP", "WLS"}, {0})
OtherMask   == {[reg |-> "IDX", val |-> 2]}
MatrixLoads == OtherMask \cup {[reg |-> "C", val |-> 0]}

\* Three operations that do not wait for one another.
HangWords == Plain({"NEWSV", "CALCU"}) \cup Cp({"WLS"}, {0})
============================================================================
