----------------------------- MODULE MCBufCache -----------------------------
(* Instances of BufCache for TLC. *)
EXTENDS BufCache

CONSTANTS p1, p2, x, y, b1, b2, b3

\* The first process reads ahead; the other never waits while it has a buffer.
Ahead1 == [p \in {p1, p2} |-> IF p = p1 THEN {<<b1, b2>>} ELSE {}]
\* No read-ahead.
NoAhead == [p \in {p1, p2} |-> {}]
=============================================================================
