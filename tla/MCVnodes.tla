------------------------------ MODULE MCVnodes ------------------------------
(* Instances of Vnodes for TLC. *)
EXTENDS Vnodes, TLC

CONSTANTS p1, p2, p3, i1, i2, i3, n1, n2, n3, d1, d2, d3

\* One process that creates files, one that opens them, and one that removes them
\* and serves them by their handles.
Ops3 == [p \in {p1, p2, p3} |-> IF p = p1 THEN {"open"} ELSE IF p = p2 THEN {"create"} ELSE {"unlink", "handle"}]

\* The inodes are interchangeable.
InoSymmetry == Permutations({i1, i2})

\* Two directories with one name in each.
OwnDir == [n \in {n1, n2} |-> IF n = n1 THEN d1 ELSE d2]

\* One process that creates three files and opens them, and one that opens them.
OpsRenumbered == [p \in {p1, p2} |-> IF p = p1 THEN {"open", "create"} ELSE {"open"}]
OwnDir3 == [n \in {n1, n2, n3} |-> CASE n = n1 -> d1 [] n = n2 -> d2 [] OTHER -> d3]
=============================================================================
