----------------------------- MODULE MCProcSync -----------------------------
(* Instances of ProcSync for TLC: a parent and its child. *)
EXTENDS ProcSync

CONSTANTS p1, p2, ch

Two   == {p1, p2}
Alone == {p1}
OneChan == {ch}

\* Every identifier has a sleep queue of its own, or all share one.
Spread  == [c \in Ident |-> c]
Collide == [c \in Ident |-> 0]

Family == [p \in Proc |-> IF p = p2 THEN p1 ELSE NoProc]

Catching(S) == [NoSetup EXCEPT !.disp = [s \in Signal |-> IF s \in S THEN "CATCH" ELSE "DFL"]]
Holding(S)  == [NoSetup EXCEPT !.mask = S]

\* The parent catches SIGCHLD, the child has default actions.
Shell == [p \in Proc |-> IF p = p1 THEN {Catching({SIGCHLD})} ELSE {NoSetup}]

\* A server that catches termination and the end of its children, and at times
\* holds SIGTERM and SIGCONT.
Server == [p \in Proc |-> {Catching({SIGTERM, SIGCHLD}), Holding({SIGTERM, SIGCONT})}]

\* An editor that handles its own suspension.
Editor == [p \in Proc |-> {Catching({SIGTSTP})}]

Plain == [p \in Proc |-> {NoSetup}]

AnySleep(c) == [chan : {c}, catch : BOOLEAN, timo : BOOLEAN]

\* One process that sleeps in every way.
AllCalls == [p \in Proc |-> AnySleep(ch)]
AllSent  == [p \in Proc |-> Signal]

\* The parent waits for its child, in wait4() on its own address; the child does
\* one interruptible sleep on the same or another identifier.
FamilyCalls == [p \in Proc |-> IF p = p1 THEN [chan : {p1}, catch : {TRUE}, timo : {FALSE}]
                                ELSE [chan : {ch}, catch : {TRUE}, timo : {FALSE}]]
ChildSent   == [p \in Proc |-> IF p = p1 THEN {SIGTERM} ELSE {SIGTSTP, SIGCONT, SIGKILL}]
\* A sleeper beside a process that only computes.
HogCalls == [p \in Proc |-> IF p = p1 THEN AnySleep(ch) ELSE {}]
HogSent  == [p \in Proc |-> IF p = p1 THEN {SIGTSTP, SIGCONT} ELSE {}]
JobControl  == [p \in Proc |-> {SIGTSTP, SIGCONT}]
ShellSent   == [p \in Proc |-> {SIGTSTP, SIGCONT, SIGCHLD}]
=============================================================================
