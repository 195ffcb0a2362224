----------------------------- MODULE RealTimer ------------------------------
(***************************************************************************)
(* The real interval timers of sys/kern/kern_time.c, setitimer(),          *)
(* realitexpire() and settime(), on the callout queue, beside drivers that *)
(* use the queue from their interrupt handlers.                            *)
(*                                                                         *)
(* Times are in half ticks, so that an expiry may fall between two ticks.  *)
(* it_value is an absolute time in the code; the model keeps its distance  *)
(* to the clock, left, which hardclock() shortens and settime() moves.     *)
(***************************************************************************)
EXTENDS Callout

CONSTANTS
  Proc,        \* the processes; p stands for the callout (realitexpire, p)
  Driver,      \* the callouts of drivers
  Settings,    \* the <<it_value, it_interval>> of setitimer(), in half ticks
  Delays,      \* the ticks drivers give to timeout()
  MaxArmed,    \* bound: the entries one driver has on the queue
  Steps,       \* the jumps of settime(), in half ticks
  MaxLeft      \* bound: the largest distance settime() creates, and how late
               \* realitexpire() gets while it runs

tick == 2

ASSUME TimerAssumption ==
  /\ Client = Proc \cup Driver /\ Proc \cap Driver = {}
  /\ \A s \in Settings : s[1] \in Nat /\ s[2] \in Nat
  /\ Delays \subseteq Int /\ Steps \subseteq Int
  /\ MaxArmed \in Nat /\ MaxLeft \in Nat

VARIABLES
  timer,       \* timer[p]: p_realtimer: is it_value set, its distance, it_interval
  alive,       \* alive[p]: p has not called exit()
  looping,     \* realitexpire() has sent the signal and looks for its next time
  stepped      \* history: settime() has moved the clock

vars == <<calltodo, callfree, softpending, softcall, panicked, timer, alive, looping, stepped>>

Unset == [set |-> FALSE, left |-> 0, interval |-> 0]

Init ==
  /\ CInit
  /\ timer = [p \in Proc |-> Unset]
  /\ alive = [p \in Proc |-> TRUE]
  /\ looping = FALSE
  /\ stepped = FALSE

Moved(by) == [p \in Proc |-> IF timer[p].set THEN [timer[p] EXCEPT !.left = @ - by] ELSE timer[p]]

\* hzto(): whole ticks until then.
hzto(left) == left \div tick

\* itimerfix(): not less than the resolution of the clock.
itimerfix(v) == IF v # 0 /\ v < tick THEN tick ELSE v

\* The places of a client's entries on the queue.
Entries(c) == {i \in 1 .. Len(calltodo) : calltodo[i].c = c}

Armed(d) == Cardinality(Entries(d))

\* A process runs at base priority: no clock work is left over.
AtBase == softcall = NoCall /\ ~softpending

-----------------------------------------------------------------------------
(* Clock interrupts.                                                        *)

Hardclock ==
  /\ ~panicked
  /\ \A p \in Proc : softcall = p => timer[p].left > -MaxLeft
  /\ HardclockQueue
  /\ timer' = Moved(tick)
  /\ UNCHANGED <<alive, looping, stepped>>

Softclock ==
  /\ ~panicked
  /\ SoftclockTake
  /\ UNCHANGED <<timer, alive, looping, stepped>>

\* realitexpire() up to its loop: the signal, and the end of a one-shot timer.
Realitexpire(p) ==
  /\ ~panicked /\ softcall = p /\ ~looping
  /\ IF timer[p].interval = 0
     THEN /\ timer' = [timer EXCEPT ![p] = Unset]
          /\ softcall' = NoCall
          /\ UNCHANGED looping
     ELSE looping' = TRUE /\ UNCHANGED <<timer, softcall>>
  /\ UNCHANGED <<calltodo, callfree, softpending, panicked, alive, stepped>>

\* One round of its loop, under splclock(): the next time of the timer, and the
\* callout for it unless that time has passed already.
RealitLoop(p) ==
  LET left == timer[p].left + timer[p].interval
  IN  /\ ~panicked /\ softcall = p /\ looping
      /\ timer' = [timer EXCEPT ![p].left = left]
      /\ IF left > 0
         THEN /\ timeout(calltodo, callfree, p, hzto(left))
              /\ softcall' = NoCall /\ looping' = FALSE
         ELSE UNCHANGED <<calltodo, callfree, panicked, softcall, looping>>
      /\ UNCHANGED <<softpending, alive, stepped>>

\* The function of a driver runs, and may ask to be called again.
DriverCall(d, ticks) ==
  /\ ~panicked /\ softcall = d
  /\ softcall' = NoCall
  /\ \/ UNCHANGED <<calltodo, callfree, panicked>>
     \/ Armed(d) < MaxArmed /\ timeout(calltodo, callfree, d, ticks)
  /\ UNCHANGED <<softpending, timer, alive, looping, stepped>>

-----------------------------------------------------------------------------
(* System calls, and the interrupts of drivers.                             *)

\* setitimer(ITIMER_REAL): under splclock() from untimeout() on.
Setitimer(p, value, interval) ==
  /\ ~panicked /\ alive[p] /\ AtBase
  /\ IF value # 0
     THEN timeout(Delete(calltodo, p), FreeWithout(calltodo, callfree, p), p,
                  hzto(itimerfix(value)))
     ELSE untimeout(p)
  /\ timer' = [timer EXCEPT ![p] = [set |-> value # 0, left |-> itimerfix(value),
                                    interval |-> itimerfix(interval)]]
  /\ UNCHANGED <<softpending, softcall, alive, looping, stepped>>

\* exit1() cancels the timer before the process goes.
Exit(p) ==
  /\ ~panicked /\ alive[p] /\ AtBase
  /\ untimeout(p)
  /\ alive' = [alive EXCEPT ![p] = FALSE]
  /\ timer' = [timer EXCEPT ![p] = Unset]
  /\ UNCHANGED <<softpending, softcall, looping, stepped>>

\* settime(): the clock jumps; callouts are left as they are.
Settime(by) ==
  /\ ~panicked /\ AtBase
  /\ \A p \in Proc : Moved(by)[p].left \in -MaxLeft .. MaxLeft
  /\ timer' = Moved(by)
  /\ stepped' = TRUE
  /\ UNCHANGED <<calltodo, callfree, softpending, softcall, panicked, alive, looping>>

\* A driver calls timeout() or untimeout() from its interrupt handler.
DriverTimeout(d, ticks) ==
  /\ ~panicked
  /\ Armed(d) < MaxArmed
  /\ timeout(calltodo, callfree, d, ticks)
  /\ UNCHANGED <<softpending, softcall, timer, alive, looping, stepped>>

DriverUntimeout(d) ==
  /\ ~panicked
  /\ untimeout(d)
  /\ UNCHANGED <<softpending, softcall, timer, alive, looping, stepped>>

Next ==
  \/ Hardclock
  \/ Softclock
  \/ \E p \in Proc :
       \/ Realitexpire(p)
       \/ RealitLoop(p)
       \/ \E s \in Settings : Setitimer(p, s[1], s[2])
       \/ Exit(p)
  \/ \E by \in Steps : Settime(by)
  \/ \E d \in Driver :
       \/ \E ticks \in Delays : DriverCall(d, ticks) \/ DriverTimeout(d, ticks)
       \/ DriverUntimeout(d)

Spec == Init /\ [][Next]_vars

\* The clock keeps ticking, a requested software interrupt is taken, and the
\* functions it calls return.
FairSpec ==
  /\ Spec
  /\ WF_vars(Hardclock)
  /\ WF_vars(Softclock)
  /\ \A p \in Proc : WF_vars(Realitexpire(p)) /\ WF_vars(RealitLoop(p))
  /\ \A d \in Driver : WF_vars(\E ticks \in Delays : DriverCall(d, ticks))

-----------------------------------------------------------------------------
(* Properties.                                                              *)

\* The clock's data stay well formed: the queue holds entries of known clients, the
\* free list of timeout() and untimeout() never outgrows the table, and softclock()
\* is in at most one call.
TypeOK ==
  /\ \A i \in 1 .. Len(calltodo) : calltodo[i].c \in Client /\ calltodo[i].t \in Int
  /\ callfree \in 0 .. NCallout
  /\ softcall \in Client \cup {NoCall}
  /\ softpending \in BOOLEAN /\ looping \in BOOLEAN /\ panicked \in BOOLEAN /\ stepped \in BOOLEAN
  /\ \A p \in Proc : timer[p].set \in BOOLEAN /\ timer[p].left \in Int /\ timer[p].interval \in Nat

\* Every callout of the table is on the queue or on the free list, and a timer that
\* reloads itself finds an entry, because its own is freed before realitexpire()
\* is called: a table with one entry for each timer and each request of a driver
\* never gives out.
TableSuffices == callfree + Len(calltodo) = NCallout /\ ~panicked

\* A timer that is set has exactly one callout: on the queue, or taken by softclock()
\* and about to be reloaded.  One that is not set has none.
OneCallout ==
  \A p \in Proc :
    IF timer[p].set THEN (IF softcall = p THEN Entries(p) = {} ELSE \E i \in 1 .. Len(calltodo) : Entries(p) = {i})
    ELSE Entries(p) = {}

\* realitexpire() is never called for a process that has switched its timer off or
\* is gone, though softclock() frees the entry and lets interrupts in before the call.
ExpiryWanted == \A p \in Proc : softcall = p => alive[p] /\ timer[p].set

\* The ticks that are left to the i-th entry.
Remaining(i) == IF \E j \in 1 .. i : calltodo[j].t > 0 THEN Total(calltodo)[i] ELSE calltodo[i].t

\* While nobody sets the clock, the callout of a timer is less than a tick away from
\* the time it is for, early or late, whatever was inserted before it, cancelled
\* or overdue since, and however late softclock() was the times before.
InStep ==
  \A p \in Proc : ~stepped => \A i \in Entries(p) :
    timer[p].left - tick * Remaining(i) \in -(tick - 1) .. tick - 1

D == INSTANCE Deadlines WITH
       due <- LET requests == {<<calltodo[i].c, Remaining(i)>> : i \in 1 .. Len(calltodo)}
              IN  [r \in requests |->
                     Len(SelectSeq([i \in 1 .. Len(calltodo) |-> <<calltodo[i].c, Remaining(i)>>],
                                   LAMBDA x : x = r))]

\* The list of differences stands for the requests with the ticks left to each:
\* insertions and removals disturb no other deadline, no call is early, and the
\* most overdue goes first.
DSpec == D!DSpec

\* A timer that stays set and is not set anew keeps going off.
AlarmComes ==
  \A p \in Proc :
    <>[](timer[p].set) =>
      \/ []<>(softcall = p)
      \/ []<><<\E s \in Settings : Setitimer(p, s[1], s[2])>>_vars

\* The table of callouts is sound: nothing is lost from it, on the queue twice or
\* missing when a timer reloads itself.
TableSound == TypeOK /\ TableSuffices

\* The queue does for every interval timer what setitimer() asked for: one callout
\* while it is set and none otherwise, at the right tick, and no late call.
TimersKept == OneCallout /\ ExpiryWanted /\ InStep
=============================================================================
