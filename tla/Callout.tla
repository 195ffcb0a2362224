------------------------------ MODULE Callout -------------------------------
(***************************************************************************)
(* The callout queue of sys/kern/kern_clock.c: timeout(), untimeout(), the *)
(* part of hardclock() that runs the queue down, and softclock().          *)
(*                                                                         *)
(* The queue is a list of differences.  At its front are the calls that    *)
(* are due, whose c_time is at most 0 and counts how late they are; from   *)
(* the first positive c_time on, each is a delay relative to its           *)
(* predecessor.  hardclock() interrupts everything that is not under       *)
(* splclock(), softclock() runs below it, and the function it calls runs   *)
(* with the clock let in again, after its entry has been freed.            *)
(***************************************************************************)
EXTENDS Integers, Sequences, SequencesExt

CONSTANTS
  Client,      \* the (function, argument) pairs
  NCallout,    \* ncallout: the size of the table of callouts
  MaxLate      \* bound of the model: how far softclock() falls behind, in ticks

NoCall == "none"

ASSUME CalloutAssumption ==
  /\ NCallout \in Nat \ {0}
  /\ MaxLate \in Nat
  /\ NoCall \notin Client

VARIABLES
  calltodo,    \* the queue: records of c_func and c_arg (c) and c_time (t)
  callfree,    \* how many callouts are on the free list
  softpending, \* setsoftclock() was called and softclock() has not started
  softcall,    \* the function softclock() has taken and not yet returned from
  panicked     \* "timeout table full"

cvars == <<calltodo, callfree, softpending, softcall, panicked>>

CInit ==
  /\ calltodo = <<>>
  /\ callfree = NCallout
  /\ softpending = FALSE
  /\ softcall = NoCall
  /\ panicked = FALSE

-----------------------------------------------------------------------------
(* The queue.                                                               *)

Positive(n) == IF n > 0 THEN n ELSE 0

\* Total[i]: the sum of the positive c_time among the first i.
Total(Q) == LET sum[i \in 0 .. Len(Q)] == IF i = 0 THEN 0 ELSE sum[i - 1] + Positive(Q[i].t)
            IN  sum

\* Deliberate fault: overdue entries are subtracted like the others.
\* (They are negative, so the new entry moves further away.)
InsertNaive(Q, c, ticks) ==
  LET total[i \in 0 .. Len(Q)] == IF i = 0 THEN 0 ELSE total[i - 1] + Q[i].t
      i == CHOOSE k \in 1 .. Len(Q) + 1 :
             /\ k = Len(Q) + 1 \/ ticks - total[k - 1] <= Q[k].t
             /\ \A j \in 1 .. k - 1 : ticks - total[j - 1] > Q[j].t
      left == ticks - total[i - 1]
  IN  SubSeq(Q, 1, i - 1) \o <<[c |-> c, t |-> left]>>
        \o (IF i > Len(Q) THEN <<>>
            ELSE <<[Q[i] EXCEPT !.t = @ - left]>> \o SubSeq(Q, i + 1, Len(Q)))

\* The walk of timeout(): the new entry goes before the first one that is not
\* earlier, and that one's difference is corrected.
Insert(Q, c, ticks) ==
  LET i == CHOOSE k \in 1 .. Len(Q) + 1 :
             /\ k = Len(Q) + 1 \/ ticks - Total(Q)[k - 1] <= Q[k].t
             /\ \A j \in 1 .. k - 1 : ticks - Total(Q)[j - 1] > Q[j].t
      left == ticks - Total(Q)[i - 1]
  IN  SubSeq(Q, 1, i - 1) \o <<[c |-> c, t |-> left]>>
        \o (IF i > Len(Q) THEN <<>>
            ELSE <<[Q[i] EXCEPT !.t = @ - left]>> \o SubSeq(Q, i + 1, Len(Q)))

Scheduled(Q, c) == \E i \in 1 .. Len(Q) : Q[i].c = c

\* Deliberate fault: the delay of the entry is lost to those behind it.
DeleteDrops(Q, c) ==
  LET i == CHOOSE k \in 1 .. Len(Q) : Q[k].c = c /\ \A j \in 1 .. k - 1 : Q[j].c # c
  IN  IF ~Scheduled(Q, c) THEN Q ELSE SubSeq(Q, 1, i - 1) \o SubSeq(Q, i + 1, Len(Q))

\* untimeout(): the first entry of c goes, its delay passes to the next one.
Delete(Q, c) ==
  LET i == CHOOSE k \in 1 .. Len(Q) : Q[k].c = c /\ \A j \in 1 .. k - 1 : Q[j].c # c
      rest == SubSeq(Q, i + 1, Len(Q))
  IN  IF ~Scheduled(Q, c) THEN Q
      ELSE SubSeq(Q, 1, i - 1)
             \o IF rest # <<>> /\ Q[i].t > 0 THEN [rest EXCEPT ![1].t = @ + Q[i].t] ELSE rest

\* The first entry that hardclock() leaves at 0 or above: it decrements all up to
\* and including that one.
LastDown(Q) == LET S == {i \in 1 .. Len(Q) : Q[i].t - 1 >= 0}
               IN  IF S = {} THEN Len(Q) ELSE CHOOSE i \in S : \A j \in S : i <= j

RunDown(Q) == [i \in 1 .. Len(Q) |-> IF i <= LastDown(Q) THEN [Q[i] EXCEPT !.t = @ - 1] ELSE Q[i]]

NeedSoft(Q) == Q # <<>> /\ Q[1].t - 1 <= 0

-----------------------------------------------------------------------------
(* The operations on the queue.                                             *)

\* timeout(): fewer than one tick becomes one; a full table is a panic.
timeout(Q, free, c, ticks) ==
  IF free = 0 THEN panicked' = TRUE /\ UNCHANGED <<calltodo, callfree>>
  ELSE /\ calltodo' = Insert(Q, c, IF ticks <= 0 THEN 1 ELSE ticks)
       /\ callfree' = free - 1
       /\ UNCHANGED panicked

FreeWithout(Q, free, c) == IF Scheduled(Q, c) THEN free + 1 ELSE free

untimeout(c) ==
  /\ calltodo' = Delete(calltodo, c)
  /\ callfree' = FreeWithout(calltodo, callfree, c)
  /\ UNCHANGED panicked

\* The callouts of hardclock(), and setsoftclock() or, at base priority, the
\* call of softclock(), which is then the next thing that happens.
HardclockQueue ==
  /\ \A i \in 1 .. Len(calltodo) : calltodo[i].t > -MaxLate
  /\ calltodo' = RunDown(calltodo)
  /\ softpending' = (softpending \/ NeedSoft(calltodo))
  /\ UNCHANGED <<callfree, softcall, panicked>>

\* Deliberate fault: the entry is not put on the free list.
SoftclockLeaks ==
  /\ softcall = NoCall /\ softpending
  /\ IF calltodo # <<>> /\ Head(calltodo).t <= 0
     THEN softcall' = Head(calltodo).c /\ calltodo' = Tail(calltodo) /\ UNCHANGED softpending
     ELSE softpending' = FALSE /\ UNCHANGED <<calltodo, softcall>>
  /\ UNCHANGED <<callfree, panicked>>

\* Deliberate fault: softclock() makes one call for each request.
SoftclockOne ==
  /\ softcall = NoCall /\ softpending
  /\ softpending' = FALSE
  /\ IF calltodo # <<>> /\ Head(calltodo).t <= 0
     THEN /\ softcall' = Head(calltodo).c
          /\ calltodo' = Tail(calltodo)
          /\ callfree' = callfree + 1
     ELSE UNCHANGED <<calltodo, callfree, softcall>>
  /\ UNCHANGED panicked

\* softclock() starts, or comes back from a call: its loop takes the next call
\* that is due, frees the entry and lets interrupts in.  A tick during the loop
\* asks for softclock() again, which adds nothing to what the loop finds.
SoftclockTake ==
  /\ softcall = NoCall /\ softpending
  /\ IF calltodo # <<>> /\ Head(calltodo).t <= 0
     THEN /\ softcall' = Head(calltodo).c
          /\ calltodo' = Tail(calltodo)
          /\ callfree' = callfree + 1
          /\ UNCHANGED softpending
     ELSE /\ softpending' = FALSE
          /\ UNCHANGED <<calltodo, callfree, softcall>>
  /\ UNCHANGED panicked
=============================================================================
