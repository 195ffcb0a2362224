----------------------------- MODULE MCSysVSem -----------------------------
(* Instances of SysVSem for TLC. *)
EXTENDS SysVSem

CONSTANTS p1, p2, p3

Op(num, op, flags) == [num |-> num, op |-> op, undo |-> "undo" \in flags, nowait |-> "nowait" \in flags]

\* Two users of sets of one or two semaphores, and ipcs.  A vector that names a
\* semaphore beyond the set names it before it changes another.
Vectors3 == [p \in {p1, p2, p3} |->
  CASE p = p1 -> {<<Op(0, -1, {"undo"})>>,
                  <<Op(1, 1, {"undo"}), Op(0, 1, {"undo"})>>}
    [] p = p2 -> {<<Op(1, -1, {"nowait"}), Op(0, 1, {"undo"})>>,
                  <<Op(0, 0, {}), Op(1, -1, {"nowait"})>>}
    [] OTHER -> {}]

Ctl3 == [p \in {p1, p2, p3} |->
  CASE p = p1 -> {"semget", "setval", "exit"}
    [] p = p2 -> {"rmid", "setall", "exit"}
    [] OTHER -> {"freeze", "thaw", "exit"}]

\* One user of sets of one semaphore, who takes them for larger.
VectorsPartial == [p \in {p1, p2, p3} |-> IF p = p1 THEN {<<Op(0, 1, {}), Op(1, 1, {})>>} ELSE {}]

\* As Vectors3 and Ctl3, with two entries in each undo vector and nobody who
\* waits for zero.
VectorsPassed == [p \in {p1, p2, p3} |->
  CASE p = p1 -> {<<Op(0, -1, {"undo"})>>,
                  <<Op(1, 1, {"undo"}), Op(0, 1, {"undo"})>>}
    [] p = p2 -> {<<Op(1, -1, {"nowait"}), Op(0, 1, {})>>}
    [] OTHER -> {}]

CtlPassed == [p \in {p1, p2, p3} |->
  CASE p = p1 -> {"semget", "setall", "exit"}
    [] p = p2 -> {"rmid", "setval", "exit"}
    [] OTHER -> {"freeze", "thaw", "exit"}]

\* Two processes that wait, and one that makes, removes and sets sets.
VectorsMoved == [p \in {p1, p2, p3} |-> IF p = p3 THEN {<<Op(0, 1, {})>>} ELSE {<<Op(0, -1, {})>>}]
CtlMoved == [p \in {p1, p2, p3} |-> IF p = p3 THEN {"semget", "rmid", "setval"} ELSE {}]
=============================================================================
