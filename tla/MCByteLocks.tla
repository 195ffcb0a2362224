----------------------------- MODULE MCByteLocks ----------------------------
(* Instances of ByteLocks for TLC. *)
EXTENDS ByteLocks

CONSTANTS p1, p2, p3, f

\* Between them the three meet every case of overlap with their own locks, with
\* and without the end of the file, and can wait for each other in a circle.
Mixed == [p \in {p1, p2, p3} |->
            CASE p = p1 -> {<<"W", 1, 0>>, <<"R", 1, 1>>, <<"R", 0, 0>>}
              [] p = p2 -> {<<"W", 0, 1>>, <<"W", 1, 1>>}
              [] p = p3 -> {<<"W", 1, 0>>, <<"W", 0, 2>>}]

\* The third process also uses flock().
SharedBy1 == [p \in {p3} |-> f]
=============================================================================
