------------------------------ MODULE Deadlines -----------------------------
(***************************************************************************)
(* What timeout(9) promises: a collection of requests, each a client (a    *)
(* function with its argument) and the number of clock ticks left to it.   *)
(* Every tick brings all of them nearer.  A request is taken only when no  *)
(* ticks are left, the most overdue first, and is taken once.              *)
(***************************************************************************)
EXTENDS Integers, Bags

CONSTANT Client

VARIABLE due      \* the bag of pending requests <<client, ticks left>>

DInit == due = EmptyBag

\* Of the requests of c, the one with the shortest delay left.
Shortest(c) ==
  CHOOSE r \in BagToSet(due) :
    r[1] = c /\ \A q \in BagToSet(due) : q[1] = c => r[2] <= q[2]

Pending(c) == \E r \in BagToSet(due) : r[1] = c

Without(c) == IF Pending(c) THEN due (-) SetToBag({Shortest(c)}) ELSE due

Tick == LET Nearer(r) == <<r[1], r[2] - 1>> IN due' = BagOfAll(Nearer, due)

\* timeout(): at least one tick passes before the call.
Schedule(c) ==
  \E r \in BagToSet(due') : r[1] = c /\ r[2] >= 1 /\ due' = due (+) SetToBag({r})

\* untimeout()
Cancel(c) == due' = Without(c)

\* untimeout() followed by timeout() under splclock().
Reschedule(c) ==
  \E r \in BagToSet(due') : r[1] = c /\ r[2] >= 1 /\ due' = Without(c) (+) SetToBag({r})

\* softclock() takes the request that is due longest.
Take(c) ==
  \E r \in BagToSet(due) :
    /\ r[1] = c /\ r[2] <= 0
    /\ \A q \in BagToSet(due) : r[2] <= q[2]
    /\ due' = due (-) SetToBag({r})

DNext == Tick \/ \E c \in Client : Schedule(c) \/ Cancel(c) \/ Reschedule(c) \/ Take(c)

DSpec == DInit /\ [][DNext]_due
=============================================================================
