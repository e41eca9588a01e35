--------------------------- MODULE MCIssueGrouping ---------------------------
(***************************************************************************)
(* Instances of IssueGrouping for TLC.                                     *)
(***************************************************************************)
EXTENDS IssueGrouping, TLC

CONSTANTS i1, i2, i3, r1, r2, r3, r4, f, g

\* Three events of one error, one of another.
TwoErrors == [r \in {r1, r2, r3, r4} |-> IF r = r4 THEN g ELSE f]

\* Nothing tells issue ids apart, nor the events of one error.
Symmetric == Permutations({i1, i2, i3}) \cup Permutations({r1, r2, r3})
=============================================================================
