--------------------------- MODULE SysVSemProofs ---------------------------
(***************************************************************************)
(* System V semaphores, for any number of processes, sets and vectors:     *)
(*   - nobody sleeps for semlock_holder unless a process that lives and    *)
(*     can thaw has it (LockInv);                                          *)
(*   - the sets share out the array of semaphores, and undo vectors keep   *)
(*     to their limits (Types);                                            *)
(*   - no panic() is reached where everybody can have an undo vector       *)
(*     (RoomInv);                                                          *)
(*   - where no set is moved under a sleeper, the counts of waiters cover  *)
(*     those who wait (CountInv), and nobody who could go on is left       *)
(*     asleep (StuckInv).                                                  *)
(***************************************************************************)
EXTENDS SysVSem, FiniteSetTheorems, FunctionTheorems, TLAPS

LockSleep == {"lockwait", "exitwait"}

\* The inductive invariant.  A holder is not on its way out, nor asleep for the
\* facility that it has itself.
LockInv ==
  /\ pc \in [Proc -> Places]
  /\ holder \in Proc \cup {NoProc}
  /\ holder # NoProc => pc[holder] \notin LockSleep \cup {"dead", "exitwoken"}
  /\ \A p \in Proc : pc[p] \in LockSleep => holder \notin {NoProc, p}

\* The invariant is what LockSleepersKnown says of the waiting, and more.
LEMMA LockInvKnown == LockInv => LockSleepersKnown
  BY DEF LockInv, LockSleepersKnown, LockSleep

\* The facility is free at the start, and nobody is in a call.
LEMMA InitLock == Init => LockInv
  BY DEF Init, LockInv, LockSleep, Places

\* The places pcs differ from pc only in what p itself does and in wakeups of those
\* who sleep on a set.
Moves(p, to, pcs) ==
  /\ pcs \in [Proc -> Places]
  /\ pcs[p] = to
  /\ \A q \in Proc \ {p} : pcs[q] = pc[q] \/ (pc[q] = "semwait" /\ pcs[q] = "semwoken")

\* Returning, and returning after a wakeup() of sets, are such moves.
LEMMA MovesReturn ==
  ASSUME pc \in [Proc -> Places], NEW p \in Proc, NEW to \in Places \ {"semwait"}, NEW S
  PROVE  /\ Moves(p, to, [pc EXCEPT ![p] = to])
         /\ Moves(p, to, WakeSets([pc EXCEPT ![p] = to], S))
  BY DEF Moves, WakeSets, Places

\* A step that leaves the holder alone, and in which p goes where it does not sleep for
\* the facility, keeps the invariant.
LEMMA LockStays ==
  ASSUME LockInv, NEW p \in Proc, NEW to \in Places \ (LockSleep \cup {"exitwoken"}),
         to = "dead" => holder # p,
         Moves(p, to, pc'), holder' = holder
  PROVE  LockInv'
  BY DEF LockInv, Moves, LockSleep, Places

\* One turn of semop() moves p only, back to user mode or to sleep on the set.
LEMMA LockTurn ==
  ASSUME LockInv, NEW p \in Proc, NEW c, NEW sems, Turn(p, c, sems), holder' = holder
  PROVE  LockInv'
<1>0. pc \in [Proc -> Places]
  BY DEF LockInv
<1>1. CASE pc' = [pc EXCEPT ![p] = "semwait"]
  <2>1. Moves(p, "semwait", pc')
    BY <1>0, <1>1 DEF Moves, Places
  <2>2. QED
    BY <2>1, LockStays DEF Places, LockSleep
<1>2. CASE pc' = Return(p) \/ pc' = WakeSets(Return(p), {c.id[1]})
  <2>1. "out" \in Places \ {"semwait"}
    BY DEF Places
  <2>2. Moves(p, "out", pc')
    BY <1>0, <1>2, <2>1, MovesReturn DEF Return
  <2>3. QED
    BY <2>2, LockStays DEF Places, LockSleep
<1>3. \/ pc' = [pc EXCEPT ![p] = "semwait"]
      \/ pc' = Return(p)
      \/ \E w \in BOOLEAN : pc' = IF w THEN WakeSets(Return(p), {c.id[1]}) ELSE Return(p)
  <2> DEFINE w == Try(sema[c.id[1]], sems, c.sops).wake
  <2>1. \/ pc' = [pc EXCEPT ![p] = "semwait"]
        \/ pc' = Return(p)
        \/ pc' = IF w THEN WakeSets(Return(p), {c.id[1]}) ELSE Return(p)
    BY Zenon DEF Turn
  <2> HIDE DEF w
  <2>2. QED
    BY <2>1
<1>4. QED
  BY <1>1, <1>2, <1>3

\* semexit() of a process that is not kept by another: it lets the facility go and
\* wakes everybody who waits for it.
LEMMA LockSemexit ==
  ASSUME LockInv, NEW p \in Proc, holder \in {NoProc, p}, Semexit(p)
  PROVE  LockInv'
<1> DEFINE f == IF undo[p] = NoVector THEN <<>> ELSE undo[p]
           pcs == WakeSets([pc EXCEPT ![p] = "dead"], {f[i].ix : i \in DOMAIN f})
<1>0. pc \in [Proc -> Places] /\ NoProc \notin Proc
  BY SysVSemAssumption DEF LockInv
<1>1. CASE BadEntry(f)
  <2>1. UNCHANGED <<holder, pc>>
    BY <1>1 DEF Semexit
  <2>2. QED
    BY SMTT(60), <2>1 DEF LockInv
<1>2. CASE ~BadEntry(f)
  <2>1. holder' = Released(p) /\ pc' = IF holder' # holder THEN WakeLock(pcs) ELSE pcs
    BY Zenon, <1>2 DEF Semexit
  <2>2. Moves(p, "dead", pcs)
    BY <1>0, MovesReturn DEF Places
  <2> HIDE DEF pcs
  <2>3. holder' = NoProc
    BY <2>1 DEF Released
  <2>4. CASE holder = NoProc
    BY <2>1, <2>2, <2>3, <2>4, <1>0 DEF LockInv, Moves, LockSleep, Places
  <2>5. CASE holder = p
    <3>1. pc' = WakeLock(pcs)
      BY <2>1, <2>3, <2>5, <1>0
    <3>2. \A q \in Proc : pc'[q] \in Places \ LockSleep
      BY <3>1, <2>2 DEF WakeLock, WokenFrom, Moves, Places, LockSleep
    <3>3. pc' = [q \in Proc |-> pc'[q]]
      BY <3>1 DEF WakeLock
    <3>4. QED
      BY <3>2, <3>3, <2>3 DEF LockInv
  <2>6. QED
    BY SMTT(60), <2>4, <2>5
<1>3. QED
  BY <1>1, <1>2
\* p returns, and may wake those who sleep on a set.
LEMMA LockReturn ==
  ASSUME LockInv, NEW p \in Proc, NEW S, holder' = holder,
         pc' = Return(p) \/ pc' = WakeSets(Return(p), S)
  PROVE  LockInv'
<1>1. "out" \in Places \ {"semwait"} /\ pc \in [Proc -> Places]
  BY DEF Places, LockInv
<1>2. Moves(p, "out", pc')
  BY <1>1, MovesReturn DEF Return
<1>3. QED
  BY <1>2, LockStays DEF Places, LockSleep

\* semlock(): p goes to sleep for a facility that somebody else has.
LEMMA LockSemlock ==
  ASSUME LockInv, NEW p \in Proc, Semlock(p)
  PROVE  LockInv'
<1>1. /\ holder \notin {NoProc, p} /\ holder' = holder
      /\ pc' = [pc EXCEPT ![p] = "lockwait"]
  BY DEF Semlock
<1>2. QED
  BY <1>1 DEF LockInv, LockSleep, Places

\* semconfig(): whoever freezes found nobody waiting, or has the facility already;
\* whoever thaws wakes everybody.
LEMMA LockSemconfig ==
  ASSUME LockInv, NEW p \in Proc, Semconfig(p)
  PROVE  LockInv'
<1>0. pc \in [Proc -> Places] /\ NoProc \notin Proc /\ holder \in {NoProc, p}
  BY SysVSemAssumption DEF LockInv, Semconfig, Past
<1>1. CASE holder' = p /\ pc' = Return(p)
  BY <1>0, <1>1 DEF LockInv, LockSleep, Places, Return
<1>2. CASE holder' = NoProc /\ pc' = WakeLock(Return(p))
  <2>1. \A q \in Proc : pc'[q] \in Places \ LockSleep
    BY <1>0, <1>2 DEF WakeLock, WokenFrom, Return, Places, LockSleep
  <2>2. pc' = [q \in Proc |-> pc'[q]]
    BY <1>2 DEF WakeLock
  <2>3. QED
    BY <1>2, <2>1, <2>2 DEF LockInv
<1>3. QED
  BY <1>1, <1>2 DEF Semconfig

\* Every step keeps the invariant.
LEMMA NextLock == LockInv /\ [Next]_vars => LockInv'
<1> SUFFICES ASSUME LockInv, [Next]_vars PROVE LockInv'
  OBVIOUS
<1>0. CASE UNCHANGED vars
  BY <1>0 DEF vars, LockInv
<1> SUFFICES ASSUME NEW p \in Proc,
       \/ Semlock(p) \/ Gone(p) \/ Semget(p) \/ SemgetFull(p) \/ Rmid(p) \/ Setval(p) \/ Setall(p)
       \/ Semconfig(p) \/ Semop(p) \/ SemopWoken(p) \/ SemopIntr(p)
       \/ Exit(p) \/ ExitLocked(p) \/ ExitWoken(p) \/ Fork(p)
     PROVE LockInv'
  BY <1>0 DEF Next
<1>1. CASE Semlock(p)
  BY <1>1, LockSemlock
<1>2. CASE Gone(p)
  BY <1>2, LockReturn DEF Gone, Return
<1>3. CASE Semget(p)
  <2>1. holder' = holder /\ pc' = Return(p)
    BY <1>3, Zenon DEF Semget
  <2>2. QED
    BY <2>1, LockReturn
<1>4. CASE SemgetFull(p)
  BY <1>4, LockReturn DEF SemgetFull
<1>5. CASE Rmid(p)
  <2>1. holder' = holder /\ \E S : pc' = WakeSets(Return(p), S)
    BY <1>5, Zenon DEF Rmid
  <2>2. QED
    BY <2>1, LockReturn
<1>6. CASE Setval(p)
  <2>1. holder' = holder /\ \E S : pc' = WakeSets(Return(p), S)
    BY <1>6, Zenon DEF Setval
  <2>2. QED
    BY <2>1, LockReturn
<1>7. CASE Setall(p)
  <2>1. holder' = holder /\ \E S : pc' = WakeSets(Return(p), S)
    BY <1>7, Zenon DEF Setall
  <2>2. QED
    BY <2>1, LockReturn
<1>8. CASE Semconfig(p)
  BY <1>8, LockSemconfig
<1>9. CASE Semop(p)
  BY <1>9, LockTurn DEF Semop
<1>10. CASE SemopWoken(p)
  BY <1>10, LockTurn, LockReturn DEF SemopWoken
<1>11. CASE SemopIntr(p)
  BY <1>11, LockReturn DEF SemopIntr
<1>12. CASE Exit(p)
  BY <1>12, LockSemexit DEF Exit
<1>13. CASE ExitLocked(p)
  BY <1>13 DEF ExitLocked, LockInv, LockSleep, Places
<1>14. CASE ExitWoken(p)
  <2>1. CASE holder # NoProc
    BY <1>14, <2>1 DEF ExitWoken, LockInv, LockSleep, Places
  <2>2. CASE holder = NoProc
    BY <1>14, <2>2, LockSemexit DEF ExitWoken, LockInv
  <2>3. QED
    BY <2>1, <2>2
<1>15. CASE Fork(p)
  BY <1>15 DEF Fork, LockInv, LockSleep, Places
<1>16. QED
  BY <1>1, <1>2, <1>3, <1>4, <1>5, <1>6, <1>7, <1>8, <1>9, <1>10, <1>11, <1>12, <1>13, <1>14, <1>15

\* Whoever sleeps in semlock() or semexit() for semlock_holder waits for another
\* process, which lives and does not itself wait: nobody is left behind when the holder
\* thaws, exits or is replaced between the test and the sleep.
THEOREM LockSleepersKnownHolds == Spec => []LockSleepersKnown
<1>1. LockInv /\ [Next]_vars => LockInv'
  BY NextLock
<1>2. QED
  BY <1>1, InitLock, LockInvKnown, PTL DEF Spec

-----------------------------------------------------------------------------
(* Induction, for the loops over vectors.                                   *)

\* A set of naturals has a least element.
LEMMA Least ==
  ASSUME NEW S, S \subseteq Nat, S # {}
  PROVE  \E x \in S : \A y \in S : x <= y
<1> DEFINE R == OpToRel(<, Nat)
<1>1. IsWellFoundedOn(R, Nat)
  BY NatLessThanWellFounded, Zenon
<1>2. \A x, y \in Nat : x < y => <<x, y>> \in R
  BY DEF OpToRel
<1> HIDE DEF R
<1>3. PICK x \in S : \A y \in S : ~(<<y, x>> \in R)
  BY <1>1, WFMin
<1>4. \A y \in S : ~(y < x) /\ y \in Nat /\ x \in Nat
  BY <1>2, <1>3
<1> QED
  BY <1>4

\* A set that contains 0 and, up to N, the successor of each of its members contains
\* all numbers up to N.
LEMMA LoopInduction ==
  ASSUME NEW N \in Nat, NEW S, 0 \in S, \A n \in 1 .. N : n - 1 \in S => n \in S
  PROVE  0 .. N \subseteq S
<1> DEFINE T == {n \in 0 .. N : n \notin S}
<1> SUFFICES ASSUME T # {} PROVE FALSE
  OBVIOUS
<1>1. PICK x \in T : \A y \in T : x <= y
  <2>1. T \subseteq Nat
    OBVIOUS
  <2> HIDE DEF T
  <2> QED
    BY <2>1, Least
<1>2. x \in 1 .. N /\ x - 1 \in 0 .. N /\ ~(x <= x - 1)
  BY <1>1
<1> QED
  BY <1>1, <1>2

-----------------------------------------------------------------------------
(* The shapes of the facility's data.                                       *)

SemRec == [val : Nat, ncnt : 0 .. CntMod - 1, zcnt : 0 .. CntMod - 1]
SetRec == [alloc : BOOLEAN, seq : 0 .. SemSeqMod - 1, base : Nat, n : Nat]
CallRec == [do : CtlOps \cup {"none", "semop"}, id : Ix \X Nat, sops : Seq(Sembuf), ptr : Nat, at : Nat]

\* m has a semaphore at each place below t.
Sems(t) == [0 .. t - 1 -> SemRec]

\* The sets of A that are in use divide the places below t among them.
Laid(A, t) ==
  /\ \A ix \in Ix : A[ix].alloc => A[ix].n >= 1 /\ A[ix].base + A[ix].n <= t
  /\ \A ix, jx \in Ix : A[ix].alloc /\ A[jx].alloc /\ ix # jx =>
       A[ix].base + A[ix].n <= A[jx].base \/ A[jx].base + A[jx].n <= A[ix].base
  /\ \A i \in 0 .. t - 1 : \E ix \in Ix : A[ix].alloc /\ A[ix].base <= i /\ i < A[ix].base + A[ix].n

\* The undo vector v is about semaphores that exist, each of them once.
VecOK(v, A) ==
  /\ Len(v) <= SEMUME
  /\ \A i \in 1 .. Len(v) : v[i].ix \in Ix /\ A[v[i].ix].alloc /\ v[i].num < A[v[i].ix].n /\ v[i].adj # 0
  /\ \A i, j \in 1 .. Len(v) : v[i].ix = v[j].ix /\ v[i].num = v[j].num => i = j

\* So are all of u, and there are no more than configured.
VecsOK(u, A) ==
  /\ u \in [Proc -> Seq(Entry) \cup {NoVector}]
  /\ \A p \in Proc : u[p] # NoVector => VecOK(u[p], A)
  /\ Cardinality({p \in Proc : u[p] # NoVector}) <= semmnu

-----------------------------------------------------------------------------
(* The loop of semop() over a vector.                                       *)

TryRec(t) == [n : Nat, end : {"none", "wait", "EFBIG"}, sem : Sems(t), wake : BOOLEAN]

\* The operation o has to wait at the semaphore sm.
Stops(o, sm) == sm.val + o.op < 0 \/ (o.op = 0 /\ sm.val + o.op > 0)

\* A semaphore with another value.
SetVal(m, i, v) == [m EXCEPT ![i].val = v]

\* No semaphore is named twice.
Distinct(sops) == \A i, j \in 1 .. Len(sops) : sops[i].num = sops[j].num => i = j

\* With the semaphores m, the vector stops after n operations because of e.
Ends(s, sops, n, e, m) ==
  /\ e = "wait" => sops[n + 1].num < s.n /\ Stops(sops[n + 1], m[s.base + sops[n + 1].num])
  /\ e = "EFBIG" => sops[n + 1].num >= s.n

\* The semaphores m are what n operations have made of sems.
Changed(s, sems, sops, n, m) ==
  /\ \A j \in 1 .. n : sops[j].num < s.n
  /\ \A i \in DOMAIN sems : /\ m[i].ncnt = sems[i].ncnt /\ m[i].zcnt = sems[i].zcnt
                            /\ (\A j \in 1 .. n : i # s.base + sops[j].num) => m[i].val = sems[i].val
  /\ Distinct(sops) =>
       \A j \in 1 .. n : /\ m[s.base + sops[j].num].val = sems[s.base + sops[j].num].val + sops[j].op
                         /\ ~Stops(sops[j], sems[s.base + sops[j].num])

\* Somebody is to be woken because of an operation that was carried out.
Alarmed(s, sems, sops, st) ==
  Distinct(sops) => \A j \in 1 .. st.n : Wakes(sops[j], sems[s.base + sops[j].num]) => st.wake

\* What m operations on the set s have come to.
Tried(s, sems, sops, m, st) ==
  /\ st.n <= m /\ (st.end = "none" <=> st.n = m)
  /\ Ends(s, sops, st.n, st.end, st.sem)
  /\ Changed(s, sems, sops, st.n, st.sem) /\ Alarmed(s, sems, sops, st)

\* From st to r by the operation o: it was carried out, or the vector has ended.
Went(s, st, o, r) ==
  \/ st.end = "none" /\ r.end = "none" /\ r.n = st.n + 1 /\ o.num < s.n
     /\ r.sem = SetVal(st.sem, s.base + o.num, st.sem[s.base + o.num].val + o.op)
  \/ r.end # "none" /\ r.n = st.n /\ r.sem = st.sem

\* g goes through the vector.
Trying(g, s, sems, sops, N) ==
  g = [m \in 0 .. N |-> IF m = 0 THEN [n |-> 0, end |-> "none", sem |-> sems, wake |-> FALSE]
                        ELSE TryOne(s, g[m - 1], sops[m])]

\* One can go through any vector.
LEMMA TryingExists ==
  ASSUME NEW s, NEW sems, NEW sops, NEW N \in Nat
  PROVE  \E g : Trying(g, s, sems, sops, N)
<1> DEFINE S == {n \in Nat : \E g : Trying(g, s, sems, sops, n)}
<1>1. 0 \in S
  <2> DEFINE z == [m \in 0 .. 0 |-> [n |-> 0, end |-> "none", sem |-> sems, wake |-> FALSE]]
  <2>1. Trying(z, s, sems, sops, 0)
    BY DEF Trying
  <2> QED
    BY <2>1
<1>2. ASSUME NEW n \in 1 .. N, n - 1 \in S PROVE n \in S
  <2>1. PICK g : Trying(g, s, sems, sops, n - 1)
    BY <1>2
  <2> DEFINE h == [m \in 0 .. n |-> IF m = n THEN TryOne(s, g[n - 1], sops[m]) ELSE g[m]]
  <2>2. \A m \in 0 .. n - 1 : g[m] = IF m = 0 THEN [n |-> 0, end |-> "none", sem |-> sems, wake |-> FALSE]
                                     ELSE TryOne(s, g[m - 1], sops[m])
    BY <2>1 DEF Trying
  <2>3. \A m \in 0 .. n : h[m] = IF m = 0 THEN [n |-> 0, end |-> "none", sem |-> sems, wake |-> FALSE]
                                 ELSE TryOne(s, h[m - 1], sops[m])
    <3> TAKE m \in 0 .. n
    <3>1. CASE m = n
      BY <3>1
    <3>2. CASE m # n
      <4>1. m \in 0 .. n - 1 /\ h[m] = g[m]
        BY <3>2
      <4>2. m # 0 => m - 1 \in 0 .. n - 1 /\ h[m - 1] = g[m - 1]
        BY <3>2
      <4> QED
        BY <2>2, <4>1, <4>2
    <3> QED
      BY <3>1, <3>2
  <2>4. Trying(h, s, sems, sops, n)
    BY <2>3 DEF Trying
  <2> QED
    BY <2>4
<1>3. 0 .. N \subseteq S
  <2> HIDE DEF S
  <2> QED
    BY <1>1, <1>2, LoopInduction
<1> QED
  BY <1>3

\* So does Try.
LEMMA TryTries ==
  ASSUME NEW s, NEW sems, NEW sops, Len(sops) \in Nat
  PROVE  \E g : Trying(g, s, sems, sops, Len(sops)) /\ Try(s, sems, sops) = g[Len(sops)]
<1>1. \E g : Trying(g, s, sems, sops, Len(sops))
  BY TryingExists
<1>2. Try(s, sems, sops) = (CHOOSE g : Trying(g, s, sems, sops, Len(sops)))[Len(sops)]
  BY Zenon DEF Try, Trying
<1> QED
  BY <1>1, <1>2

\* Its stages.
LEMMA TryingStages ==
  ASSUME NEW s, NEW sems, NEW sops, NEW N \in Nat, NEW g, Trying(g, s, sems, sops, N)
  PROVE  /\ g[0] = [n |-> 0, end |-> "none", sem |-> sems, wake |-> FALSE]
         /\ \A m \in 1 .. N : g[m] = TryOne(s, g[m - 1], sops[m])
<1> DEFINE z == [n |-> 0, end |-> "none", sem |-> sems, wake |-> FALSE]
<1>1. g = [m \in 0 .. N |-> IF m = 0 THEN z ELSE TryOne(s, g[m - 1], sops[m])]
  BY DEF Trying
<1> HIDE DEF z
<1>2. g[0] = z
  BY <1>1
<1>3. \A m \in 1 .. N : g[m] = TryOne(s, g[m - 1], sops[m])
  BY <1>1
<1> QED
  BY <1>2, <1>3 DEF z

\* A vector that has ended, and one that has carried out one more operation.
Ended(st, e) == [st EXCEPT !.end = e]
Done(st, i, v, o) == [st EXCEPT !.n = @ + 1, !.sem[i].val = v, !.wake = @ \/ Wakes(o, st.sem[i])]

\* The cases of one operation.
LEMMA TryOneStops ==
  ASSUME NEW s, NEW st, NEW o, NEW i, i = s.base + o.num
  PROVE  /\ st.end # "none" => TryOne(s, st, o) = st
         /\ st.end = "none" /\ o.num >= s.n => TryOne(s, st, o) = Ended(st, "EFBIG")
         /\ st.end = "none" /\ ~(o.num >= s.n) /\ Stops(o, st.sem[i]) => TryOne(s, st, o) = Ended(st, "wait")
BY Zenon DEF TryOne, Stops, Ended

LEMMA TryOneDone ==
  ASSUME NEW s, NEW st, NEW o, NEW i, i = s.base + o.num, NEW v, v = st.sem[i].val + o.op,
         st.end = "none", ~(o.num >= s.n), ~Stops(o, st.sem[i])
  PROVE  TryOne(s, st, o) = Done(st, i, v, o)
<1>1. ~(v < 0 \/ (o.op = 0 /\ v > 0))
  BY DEF Stops
<1> QED
  BY <1>1, Zenon DEF TryOne, Done

LEMMA SemsSet ==
  ASSUME NEW t \in Nat, NEW m \in Sems(t), NEW i \in 0 .. t - 1, NEW v \in Nat
  PROVE  /\ SetVal(m, i, v) \in Sems(t) /\ \A x \in 0 .. t - 1 : x # i => SetVal(m, i, v)[x] = m[x]
         /\ SetVal(m, i, v)[i].val = v /\ SetVal(m, i, v)[i].ncnt = m[i].ncnt /\ SetVal(m, i, v)[i].zcnt = m[i].zcnt
<1>1. m[i] \in SemRec /\ DOMAIN m = 0 .. t - 1
  BY DEF Sems
<1>2. /\ [m[i] EXCEPT !.val = v] \in SemRec /\ [m[i] EXCEPT !.val = v].val = v
      /\ [m[i] EXCEPT !.val = v].ncnt = m[i].ncnt /\ [m[i] EXCEPT !.val = v].zcnt = m[i].zcnt
  BY <1>1 DEF SemRec
<1> QED
  BY <1>1, <1>2 DEF Sems, SetVal

\* The state after an operation that is carried out.
LEMMA TryOneGoes ==
  ASSUME NEW t \in Nat, NEW st \in TryRec(t), NEW i \in 0 .. t - 1, NEW v \in Nat, NEW o,
         st.end = "none", NEW r, r = Done(st, i, v, o)
  PROVE  /\ r \in TryRec(t) /\ r.n = st.n + 1 /\ r.end = "none" /\ r.sem = SetVal(st.sem, i, v)
         /\ st.wake \/ Wakes(o, st.sem[i]) => r.wake
<1>1. st.n \in Nat /\ st.sem \in Sems(t) /\ st.wake \in BOOLEAN
  BY DEF TryRec
<1>2. /\ r.n = st.n + 1 /\ r.end = "none" /\ r.sem = SetVal(st.sem, i, v)
      /\ r = [n |-> r.n, end |-> r.end, sem |-> r.sem, wake |-> r.wake]
  BY DEF TryRec, SetVal, Done
<1>3. r.sem \in Sems(t)
  BY <1>1, <1>2, SemsSet
<1>4. r.wake \in BOOLEAN /\ (st.wake \/ Wakes(o, st.sem[i]) => r.wake)
  <2>1. r.wake = (st.wake \/ Wakes(o, st.sem[i]))
    BY DEF TryRec, Done
  <2> QED
    BY <2>1
<1> QED
  BY <1>1, <1>2, <1>3, <1>4 DEF TryRec

\* The operations sops have numbers.
OpsOK(sops) == Len(sops) \in Nat /\ \A j \in 1 .. Len(sops) : sops[j].num \in Nat /\ sops[j].op \in Int

\* The operation q is about the semaphore i, which lies in the set s.
OpAt(t, s, sops, q, i) ==
  /\ s.base \in Nat /\ s.n \in Nat /\ s.base + s.n <= t
  /\ sops[q].num < s.n /\ i = s.base + sops[q].num

\* A vector that names no semaphore twice finds each as it was at the start.
LEMMA Untouched ==
  ASSUME NEW t \in Nat, NEW s, NEW sems \in Sems(t), NEW sops, OpsOK(sops), Distinct(sops), NEW q \in 1 .. Len(sops),
         NEW n, q = n + 1, n \in Nat, NEW m, Changed(s, sems, sops, n, m), NEW i, OpAt(t, s, sops, q, i)
  PROVE  m[i].val = sems[i].val /\ m[i].ncnt = sems[i].ncnt /\ m[i].zcnt = sems[i].zcnt
<1> PICK b, k, l, L : b = s.base /\ k = sops[q].num /\ l = s.n /\ L = Len(sops)
  OBVIOUS
<1>1. /\ b \in Nat /\ l \in Nat /\ b + l <= t /\ k < l /\ i = b + k /\ k \in Nat
      /\ L \in Nat /\ \A j \in 1 .. L : sops[j].num \in Nat /\ sops[j].op \in Int
  BY DEF OpsOK, OpAt
<1>2. ASSUME NEW x \in 1 .. n PROVE i # s.base + sops[x].num
  <2>1. x \in 1 .. L /\ q \in 1 .. L /\ x # q
    BY <1>1
  <2>2. sops[x].num # k /\ sops[x].num \in Nat
    BY <1>1, <2>1 DEF Distinct
  <2>3. PICK z : z = sops[x].num
    OBVIOUS
  <2>4. z # k /\ z \in Nat
    BY <2>2, <2>3
  <2>5. b + z # b + k
    BY ONLY <1>1, <2>4
  <2> QED
    BY <1>1, <2>3, <2>5
<1>3. i \in DOMAIN sems
  <2>1. DOMAIN sems = 0 .. t - 1
    BY DEF Sems
  <2> QED
    BY <1>1, <2>1
<1> QED
  BY <1>2, <1>3 DEF Changed

\* One more operation is carried out.
LEMMA ChangedMore ==
  ASSUME NEW t \in Nat, NEW s, NEW sems \in Sems(t), NEW sops, OpsOK(sops), NEW q \in 1 .. Len(sops),
         NEW n, q = n + 1, n \in Nat, NEW m \in Sems(t), Changed(s, sems, sops, n, m), NEW i, OpAt(t, s, sops, q, i),
         NEW v \in Nat, v = m[i].val + sops[q].op, ~Stops(sops[q], m[i])
  PROVE  Changed(s, sems, sops, q, SetVal(m, i, v))
<1> PICK b, k, l, L : b = s.base /\ k = sops[q].num /\ l = s.n /\ L = Len(sops)
  OBVIOUS
<1>0. /\ b \in Nat /\ l \in Nat /\ b + l <= t /\ k < l /\ i = b + k /\ k \in Nat
      /\ L \in Nat /\ \A j \in 1 .. L : sops[j].num \in Nat /\ sops[j].op \in Int
  BY DEF OpsOK, OpAt
<1>c. DOMAIN sems = 0 .. t - 1
  BY DEF Sems
<1>d. q \in 1 .. L /\ q \in 1 .. q
  BY <1>0
<1>g. i \in 0 .. t - 1
  <2>1. b \in Nat /\ l \in Nat /\ b + l <= t /\ k < l /\ i = b + k /\ k \in Nat
    BY <1>0
  <2> QED
    BY ONLY <2>1, t \in Nat
<1>b. PICK e : e = SetVal(m, i, v)
  OBVIOUS
<1>1. /\ \A x \in 0 .. t - 1 : x # i => e[x] = m[x]
      /\ e[i].val = v /\ e[i].ncnt = m[i].ncnt /\ e[i].zcnt = m[i].zcnt
  <2>1. /\ \A x \in 0 .. t - 1 : x # i => SetVal(m, i, v)[x] = m[x]
        /\ SetVal(m, i, v)[i].val = v /\ SetVal(m, i, v)[i].ncnt = m[i].ncnt /\ SetVal(m, i, v)[i].zcnt = m[i].zcnt
    BY ONLY m \in Sems(t), <1>g, t \in Nat, v \in Nat, SemsSet
  <2> QED
    BY <1>b, <2>1, Zenon
<1>3. \A j \in 1 .. q : j # q => j \in 1 .. n /\ j \in 1 .. L
  BY <1>d
<1>4. \A j \in 1 .. q : sops[j].num < s.n
  BY <1>0, <1>3 DEF Changed
<1>5. ASSUME NEW x \in DOMAIN sems
      PROVE  /\ e[x].ncnt = sems[x].ncnt /\ e[x].zcnt = sems[x].zcnt
             /\ (\A j \in 1 .. q : x # s.base + sops[j].num) => e[x].val = sems[x].val
  <2>1. m[x].ncnt = sems[x].ncnt /\ m[x].zcnt = sems[x].zcnt
    BY DEF Changed
  <2>2. (\A j \in 1 .. n : x # s.base + sops[j].num) => m[x].val = sems[x].val
    BY DEF Changed
  <2>3. CASE x = i
    <3>1. x = s.base + sops[q].num
      BY <1>0, <2>3
    <3>2. ~ \A j \in 1 .. q : x # s.base + sops[j].num
      BY <1>d, <3>1
    <3> QED
      BY <1>1, <2>1, <2>3, <3>2
  <2>4. CASE x # i
    <3>0. \A j \in 1 .. n : j \in 1 .. q
      BY ONLY q = n + 1, n \in Nat
    <3>1. (\A j \in 1 .. q : x # s.base + sops[j].num) => \A j \in 1 .. n : x # s.base + sops[j].num
      BY <3>0
    <3> QED
      BY <1>c, <1>1, <2>1, <2>2, <2>4, <3>1
  <2> QED
    BY <2>3, <2>4
<1>6. ASSUME Distinct(sops), NEW j \in 1 .. q
      PROVE  /\ e[s.base + sops[j].num].val = sems[s.base + sops[j].num].val + sops[j].op
             /\ ~Stops(sops[j], sems[s.base + sops[j].num])
  <2>0. \A x, z \in 1 .. L : sops[x].num = sops[z].num => x = z
    BY <1>6 DEF Distinct
  <2>1. CASE j = q
    <3>1. m[i].val = sems[i].val
      BY <1>6, Untouched
    <3>2. e[i].val = sems[i].val + sops[q].op /\ ~Stops(sops[q], sems[i])
      BY <1>1, <3>1 DEF Stops
    <3> QED
      BY <1>0, <2>1, <3>2
  <2>2. CASE j # q
    <3>1. j \in 1 .. n /\ j \in 1 .. L
      BY <1>3, <2>2
    <3>2. sops[j].num # k /\ sops[j].num \in Nat
      BY <1>0, <1>d, <2>0, <2>2, <3>1
    <3>3. sops[j].num < s.n
      BY <1>4
    <3>4. s.base + sops[j].num # i /\ s.base + sops[j].num \in 0 .. t - 1
      <4>1. PICK z : z = sops[j].num
        OBVIOUS
      <4>3. z \in Nat /\ z # k /\ z < l /\ k \in Nat /\ b \in Nat /\ l \in Nat /\ b + l <= t
        BY <1>0, <3>2, <3>3, <4>1
      <4>4. b + z # b + k /\ b + z \in 0 .. t - 1
        BY ONLY <4>3, t \in Nat
      <4> QED
        BY <4>1, <1>0, <4>4
    <3>5. /\ m[s.base + sops[j].num].val = sems[s.base + sops[j].num].val + sops[j].op
          /\ ~Stops(sops[j], sems[s.base + sops[j].num])
      BY <1>6, <3>1 DEF Changed
    <3> QED
      BY <1>1, <3>4, <3>5
  <2> QED
    BY <2>1, <2>2
<1>7. Changed(s, sems, sops, q, e)
  BY <1>4, <1>5, <1>6 DEF Changed
<1> QED
  BY <1>7, <1>b

\* One operation more.
LEMMA TryOneOK ==
  ASSUME NEW t \in Nat, NEW s \in SetRec, s.base + s.n <= t, NEW sems \in Sems(t), NEW sops \in Seq(Sembuf),
         NEW m \in 1 .. Len(sops), NEW st \in TryRec(t), Tried(s, sems, sops, m - 1, st),
         NEW o, o = sops[m], NEW r, r = TryOne(s, st, o)
  PROVE  r \in TryRec(t) /\ Tried(s, sems, sops, m, r) /\ Went(s, st, o, r)
<1>1. /\ o.num \in Nat /\ o.op \in Int /\ s.base \in Nat /\ s.n \in Nat /\ Len(sops) \in Nat
      /\ \A j \in 1 .. Len(sops) : sops[j].num \in Nat /\ sops[j].op \in Int
      /\ st.n \in Nat /\ st.sem \in Sems(t) /\ m \in Nat /\ st.wake \in BOOLEAN
  <2>1. \A j \in 1 .. Len(sops) : sops[j] \in Sembuf
    OBVIOUS
  <2>2. \A x \in Sembuf : x.num \in Nat /\ x.op \in Int
    BY DEF Sembuf
  <2>3. s.base \in Nat /\ s.n \in Nat
    BY DEF SetRec
  <2>4. st.n \in Nat /\ st.sem \in Sems(t) /\ st.wake \in BOOLEAN
    BY DEF TryRec
  <2> QED
    BY <2>1, <2>2, <2>3, <2>4
<1>2. /\ st.n <= m - 1 /\ (st.end = "none" <=> st.n = m - 1)
      /\ Ends(s, sops, st.n, st.end, st.sem) /\ Changed(s, sems, sops, st.n, st.sem)
      /\ Alarmed(s, sems, sops, st)
  BY DEF Tried
<1>3. PICK i : i = s.base + o.num
  OBVIOUS
<1>4. CASE st.end # "none"
  <2>1. r = st
    BY <1>3, <1>4, TryOneStops, Zenon
  <2>2. st.n <= m /\ st.n # m
    BY <1>1, <1>2, <1>4
  <2>3. Went(s, st, o, r)
    BY <1>4, <2>1 DEF Went
  <2> QED
    BY <1>2, <1>4, <2>1, <2>2, <2>3 DEF Tried
<1>5. CASE st.end = "none" /\ o.num >= s.n
  <2>1. r = Ended(st, "EFBIG")
    BY <1>3, <1>5, TryOneStops, Zenon
  <2>2. r \in TryRec(t) /\ r.n = st.n /\ r.sem = st.sem /\ r.wake = st.wake /\ r.end = "EFBIG"
    BY <2>1 DEF TryRec, Ended
  <2>3. r.n <= m /\ r.n # m /\ r.n + 1 = m
    BY <1>1, <1>2, <1>5, <2>2
  <2>4. Ends(s, sops, r.n, r.end, r.sem)
    BY <1>5, <2>2, <2>3 DEF Ends
  <2>5. Alarmed(s, sems, sops, r)
    BY <1>2, <2>2 DEF Alarmed
  <2>6. Changed(s, sems, sops, r.n, r.sem) /\ (r.end = "none" <=> r.n = m)
    BY <1>2, <2>2, <2>3
  <2>7. Went(s, st, o, r)
    BY <2>2 DEF Went
  <2> QED
    BY <2>2, <2>3, <2>4, <2>5, <2>6, <2>7 DEF Tried
<1>6. CASE st.end = "none" /\ ~(o.num >= s.n) /\ Stops(o, st.sem[i])
  <2>1. r = Ended(st, "wait")
    BY <1>3, <1>6, TryOneStops, Zenon
  <2>2. r \in TryRec(t) /\ r.n = st.n /\ r.sem = st.sem /\ r.wake = st.wake /\ r.end = "wait"
    BY <2>1 DEF TryRec, Ended
  <2>3. r.n <= m /\ r.n # m /\ r.n + 1 = m /\ o.num < s.n
    BY <1>1, <1>2, <1>6, <2>2
  <2>4. Ends(s, sops, r.n, r.end, r.sem)
    BY <1>3, <1>6, <2>2, <2>3 DEF Ends
  <2>5. Alarmed(s, sems, sops, r)
    BY <1>2, <2>2 DEF Alarmed
  <2>6. Changed(s, sems, sops, r.n, r.sem) /\ (r.end = "none" <=> r.n = m)
    BY <1>2, <2>2, <2>3
  <2>7. Went(s, st, o, r)
    BY <2>2 DEF Went
  <2> QED
    BY <2>2, <2>3, <2>4, <2>5, <2>6, <2>7 DEF Tried
<1>7. CASE st.end = "none" /\ ~(o.num >= s.n) /\ ~Stops(o, st.sem[i])
  <2>0. PICK b, l, k, L, n, a : b = s.base /\ l = s.n /\ k = o.num /\ L = Len(sops) /\ n = st.n /\ a = st.sem
    OBVIOUS
  <2>1. /\ b \in Nat /\ l \in Nat /\ k \in Nat /\ L \in Nat /\ n \in 0 .. L - 1 /\ n + 1 = m /\ k < l /\ b + l <= t
        /\ i = b + k /\ o = sops[n + 1] /\ a \in Sems(t)
    BY <1>1, <1>2, <1>3, <1>7, <2>0
  <2>2. i \in 0 .. t - 1 /\ n <= m - 1 /\ n + 1 <= m
    BY <2>1
  <2>3. PICK v : v = a[i].val + o.op
    OBVIOUS
  <2>4. v \in Nat
    <3>1. a[i].val \in Nat
      BY <2>1, <2>2 DEF Sems, SemRec
    <3> QED
      BY <1>1, <1>7, <2>0, <2>3, <3>1 DEF Stops
  <2>5. st.end = "none" /\ ~(o.num >= s.n) /\ ~Stops(o, st.sem[i])
    BY <1>7
  <2>6. r = Done(st, i, v, o)
    BY <1>3, <2>0, <2>3, <2>5, TryOneDone, Zenon
  <2>7. /\ r \in TryRec(t) /\ r.n = n + 1 /\ r.end = "none" /\ r.sem = SetVal(a, i, v)
        /\ st.wake \/ Wakes(o, a[i]) => r.wake
    BY <2>0, <2>2, <2>4, <2>5, <2>6, TryOneGoes
  <2>8. OpsOK(sops) /\ OpAt(t, s, sops, m, i) /\ m \in 1 .. Len(sops) /\ m = n + 1 /\ n \in Nat
    BY <1>1, <2>0, <2>1 DEF OpsOK, OpAt
  <2>9. Changed(s, sems, sops, n, a) /\ v = a[i].val + sops[m].op /\ ~Stops(sops[m], a[i])
    BY <1>2, <2>0, <2>1, <2>3, <2>5
  <2>10. Changed(s, sems, sops, r.n, r.sem)
    <3>1. Changed(s, sems, sops, m, SetVal(a, i, v))
      BY ONLY t \in Nat, sems \in Sems(t), <2>1, <2>4, <2>8, <2>9, ChangedMore
    <3> QED
      BY <2>1, <2>7, <3>1
  <2>11. Alarmed(s, sems, sops, r)
    <3> SUFFICES ASSUME Distinct(sops), NEW j \in 1 .. r.n, Wakes(sops[j], sems[s.base + sops[j].num])
                 PROVE  r.wake
      BY DEF Alarmed
    <3>1. CASE j = n + 1
      <4>1. a[i].val = sems[i].val /\ a[i].ncnt = sems[i].ncnt /\ a[i].zcnt = sems[i].zcnt
        BY ONLY Distinct(sops), t \in Nat, sems \in Sems(t), <2>8, <2>9, Untouched
      <4>2. Wakes(o, a[i])
        BY <2>0, <2>1, <3>1, <4>1 DEF Wakes
      <4> QED
        BY <2>7, <4>2
    <3>2. CASE j # n + 1
      <4>1. j \in 1 .. st.n
        BY <2>0, <2>1, <2>7, <3>2
      <4> QED
        BY <1>2, <2>7, <4>1 DEF Alarmed
    <3> QED
      BY <3>1, <3>2
  <2>12. Ends(s, sops, r.n, r.end, r.sem)
    BY <2>7 DEF Ends
  <2>13. Went(s, st, o, r)
    BY <2>0, <2>1, <2>3, <2>5, <2>7 DEF Went
  <2> QED
    BY <2>1, <2>7, <2>10, <2>11, <2>12, <2>13 DEF Tried
<1> QED
  BY <1>4, <1>5, <1>6, <1>7

\* The whole vector.
LEMMA TryOK ==
  ASSUME NEW t \in Nat, NEW s \in SetRec, s.base + s.n <= t, NEW sems \in Sems(t), NEW sops \in Seq(Sembuf)
  PROVE  Try(s, sems, sops) \in TryRec(t) /\ Tried(s, sems, sops, Len(sops), Try(s, sems, sops))
<1>1. Len(sops) \in Nat
  OBVIOUS
<1>2. PICK g : Trying(g, s, sems, sops, Len(sops)) /\ Try(s, sems, sops) = g[Len(sops)]
  BY <1>1, TryTries
<1>3. /\ g[0] = [n |-> 0, end |-> "none", sem |-> sems, wake |-> FALSE]
      /\ \A m \in 1 .. Len(sops) : g[m] = TryOne(s, g[m - 1], sops[m])
  BY <1>1, <1>2, TryingStages
<1> DEFINE S == {m \in 0 .. Len(sops) : g[m] \in TryRec(t) /\ Tried(s, sems, sops, m, g[m])}
<1>4. 0 \in S
  <2>1. g[0] \in TryRec(t)
    BY <1>3 DEF TryRec
  <2>2. g[0].n = 0 /\ g[0].end = "none" /\ g[0].sem = sems /\ g[0].wake = FALSE
    BY <1>3
  <2>3. Changed(s, sems, sops, 0, sems) /\ Ends(s, sops, 0, "none", sems)
    BY DEF Changed, Ends
  <2>4. Tried(s, sems, sops, 0, g[0])
    <3>1. PICK z : z = g[0]
      OBVIOUS
    <3>2. z.n = 0 /\ z.end = "none" /\ z.sem = sems /\ z.wake = FALSE
      BY <2>2, <3>1
    <3>3. Alarmed(s, sems, sops, z)
      BY <3>2 DEF Alarmed
    <3>4. Tried(s, sems, sops, 0, z)
      BY ONLY <2>3, <3>2, <3>3 DEF Tried
    <3> QED
      BY <3>1, <3>4
  <2> QED
    BY <1>1, <2>1, <2>4
<1>5. ASSUME NEW m \in 1 .. Len(sops), m - 1 \in S PROVE m \in S
  <2>1. g[m - 1] \in TryRec(t) /\ Tried(s, sems, sops, m - 1, g[m - 1]) /\ g[m] = TryOne(s, g[m - 1], sops[m])
    BY <1>3, <1>5
  <2>2. g[m] \in TryRec(t) /\ Tried(s, sems, sops, m, g[m])
    BY <2>1, TryOneOK
  <2> QED
    BY <1>1, <2>2
<1>6. 0 .. Len(sops) \subseteq S
  <2> HIDE DEF S
  <2> QED
    BY <1>1, <1>4, <1>5, LoopInduction
<1> QED
  BY <1>1, <1>2, <1>6

\* The semaphores on the way through the operations that are carried out.
Stages(T, t, s, sems, sops, n, m) ==
  /\ T \in [0 .. n -> Sems(t)] /\ T[0] = sems /\ T[n] = m
  /\ \A k \in 1 .. n : /\ sops[k].num < s.n
                       /\ T[k] = SetVal(T[k - 1], s.base + sops[k].num, T[k - 1][s.base + sops[k].num].val + sops[k].op)

LEMMA TryHasStages ==
  ASSUME NEW t \in Nat, NEW s \in SetRec, s.base + s.n <= t, NEW sems \in Sems(t), NEW sops \in Seq(Sembuf),
         NEW r, r = Try(s, sems, sops)
  PROVE  r.n \in Nat /\ r.n <= Len(sops) /\ \E T : Stages(T, t, s, sems, sops, r.n, r.sem)
<1>1. Len(sops) \in Nat
  OBVIOUS
<1>2. PICK g : Trying(g, s, sems, sops, Len(sops)) /\ Try(s, sems, sops) = g[Len(sops)]
  BY <1>1, TryTries
<1>3. /\ g[0] = [n |-> 0, end |-> "none", sem |-> sems, wake |-> FALSE]
      /\ \A m \in 1 .. Len(sops) : g[m] = TryOne(s, g[m - 1], sops[m])
  BY <1>1, <1>2, TryingStages
<1> DEFINE Good(m) == /\ g[m] \in TryRec(t) /\ Tried(s, sems, sops, m, g[m])
                      /\ \A k \in 0 .. g[m].n : g[k].n = k /\ g[k].end = "none" /\ g[k] \in TryRec(t)
                      /\ \A k \in 1 .. g[m].n : Went(s, g[k - 1], sops[k], g[k])
                      /\ g[m].sem = g[g[m].n].sem
           S == {m \in 0 .. Len(sops) : Good(m)}
<1>4. 0 \in S
  <2>1. g[0] \in TryRec(t)
    BY <1>3 DEF TryRec
  <2>2. g[0].n = 0 /\ g[0].end = "none" /\ g[0].sem = sems /\ g[0].wake = FALSE
    BY <1>3
  <2>3. Changed(s, sems, sops, 0, sems) /\ Ends(s, sops, 0, "none", sems)
    BY DEF Changed, Ends
  <2>4. Tried(s, sems, sops, 0, g[0])
    <3>1. PICK z : z = g[0]
      OBVIOUS
    <3>2. z.n = 0 /\ z.end = "none" /\ z.sem = sems /\ z.wake = FALSE
      BY <2>2, <3>1
    <3>3. Alarmed(s, sems, sops, z)
      BY <3>2 DEF Alarmed
    <3>4. Tried(s, sems, sops, 0, z)
      BY ONLY <2>3, <3>2, <3>3 DEF Tried
    <3> QED
      BY <3>1, <3>4
  <2> QED
    BY <1>1, <2>1, <2>2, <2>4
<1>5. ASSUME NEW m \in 1 .. Len(sops), m - 1 \in S PROVE m \in S
  <2>1. g[m - 1] \in TryRec(t) /\ Tried(s, sems, sops, m - 1, g[m - 1]) /\ g[m] = TryOne(s, g[m - 1], sops[m])
    BY <1>3, <1>5
  <2>2. g[m] \in TryRec(t) /\ Tried(s, sems, sops, m, g[m]) /\ Went(s, g[m - 1], sops[m], g[m])
    BY <2>1, TryOneOK
  <2>3. /\ \A k \in 0 .. g[m - 1].n : g[k].n = k /\ g[k].end = "none" /\ g[k] \in TryRec(t)
        /\ \A k \in 1 .. g[m - 1].n : Went(s, g[k - 1], sops[k], g[k])
        /\ g[m - 1].sem = g[g[m - 1].n].sem
    BY <1>5
  <2>4. PICK x, y : x = g[m - 1].n /\ y = g[m].n
    OBVIOUS
  <2>5. x \in Nat /\ y \in Nat /\ x <= m - 1 /\ y <= m /\ (g[m - 1].end = "none" <=> x = m - 1) /\ (g[m].end = "none" <=> y = m)
    BY <2>1, <2>2, <2>4 DEF Tried, TryRec
  <2>6. CASE g[m].end = "none"
    <3>1. y = m /\ x = m - 1 /\ g[m].n = m
      BY <2>2, <2>4, <2>5, <2>6 DEF Went
    <3>2. \A k \in 0 .. y : g[k].n = k /\ g[k].end = "none" /\ g[k] \in TryRec(t)
      <4> TAKE k \in 0 .. y
      <4>1. CASE k = m
        BY <2>2, <2>6, <3>1, <4>1
      <4>2. CASE k # m
        <5>1. k \in 0 .. x
          BY <3>1, <4>2
        <5> QED
          BY <2>3, <2>4, <5>1
      <4> QED
        BY <4>1, <4>2
    <3>3. \A k \in 1 .. y : Went(s, g[k - 1], sops[k], g[k])
      <4> TAKE k \in 1 .. y
      <4>1. CASE k = m
        BY <2>2, <4>1
      <4>2. CASE k # m
        <5>1. k \in 1 .. x
          BY <3>1, <4>2
        <5> QED
          BY <2>3, <2>4, <5>1
      <4> QED
        BY <4>1, <4>2
    <3>4. g[m].sem = g[y].sem
      BY <3>1
    <3> QED
      BY <2>2, <2>4, <3>2, <3>3, <3>4
  <2>7. CASE g[m].end # "none"
    <3>1. x = y /\ g[m].sem = g[m - 1].sem
      BY <2>2, <2>4, <2>7 DEF Went
    <3> QED
      BY <2>2, <2>3, <2>4, <3>1
  <2> QED
    BY <2>6, <2>7
<1>6. 0 .. Len(sops) \subseteq S
  <2> HIDE DEF S
  <2> QED
    BY <1>1, <1>4, <1>5, LoopInduction
<1>7. Good(Len(sops))
  BY <1>1, <1>6
<1>8. PICK n : n = r.n
  OBVIOUS
<1>9. r = g[Len(sops)]
  BY <1>2
<1>10. n \in Nat /\ n <= Len(sops)
  BY <1>7, <1>8, <1>9 DEF Tried, TryRec
<1>11. /\ \A k \in 0 .. n : g[k].n = k /\ g[k].end = "none" /\ g[k] \in TryRec(t)
       /\ \A k \in 1 .. n : Went(s, g[k - 1], sops[k], g[k])
       /\ r.sem = g[n].sem
  BY <1>7, <1>8, <1>9
<1> HIDE DEF Good, S
<1>12. PICK T : T = [k \in 0 .. n |-> g[k].sem]
  OBVIOUS
<1>13. T \in [0 .. n -> Sems(t)] /\ \A k \in 0 .. n : T[k] = g[k].sem
  <2>1. \A k \in 0 .. n : g[k].sem \in Sems(t)
    BY <1>11 DEF TryRec
  <2> QED
    BY <1>12, <2>1
<1>14. T[0] = sems /\ T[n] = r.sem
  BY <1>3, <1>10, <1>11, <1>13
<1>15. ASSUME NEW k \in 1 .. n
       PROVE  /\ sops[k].num < s.n
              /\ T[k] = SetVal(T[k - 1], s.base + sops[k].num, T[k - 1][s.base + sops[k].num].val + sops[k].op)
  <2>1. k \in 0 .. n /\ k - 1 \in 0 .. n
    BY <1>10
  <2>2. g[k].end = "none" /\ Went(s, g[k - 1], sops[k], g[k]) /\ T[k] = g[k].sem /\ T[k - 1] = g[k - 1].sem
    BY <1>11, <1>13, <2>1
  <2> QED
    BY <2>2 DEF Went
<1> QED
  BY <1>8, <1>10, <1>13, <1>14, <1>15 DEF Stages

-----------------------------------------------------------------------------
(* Taking back what was carried out.                                        *)

\* The semaphores with d less at i.
Less(m, i, d) == [m EXCEPT ![i].val = @ - d]

\* g takes back N operations.
Rolling(g, s, sems, sops, N) ==
  g = [m \in 0 .. N |-> IF m = 0 THEN sems ELSE [g[m - 1] EXCEPT ![s.base + sops[m].num].val = @ - sops[m].op]]

\* One can take back any vector.
LEMMA RollingExists ==
  ASSUME NEW s, NEW sems, NEW sops, NEW N \in Nat
  PROVE  \E g : Rolling(g, s, sems, sops, N)
<1> DEFINE S == {n \in Nat : \E g : Rolling(g, s, sems, sops, n)}
<1>1. 0 \in S
  <2> DEFINE z == [m \in 0 .. 0 |-> sems]
  <2>1. Rolling(z, s, sems, sops, 0)
    BY DEF Rolling
  <2> QED
    BY <2>1
<1>2. ASSUME NEW n \in 1 .. N, n - 1 \in S PROVE n \in S
  <2>1. PICK g : Rolling(g, s, sems, sops, n - 1)
    BY <1>2
  <2> DEFINE h == [m \in 0 .. n |-> IF m = n THEN Less(g[n - 1], s.base + sops[m].num, sops[m].op) ELSE g[m]]
  <2>2. \A m \in 0 .. n - 1 : g[m] = IF m = 0 THEN sems ELSE Less(g[m - 1], s.base + sops[m].num, sops[m].op)
    BY <2>1 DEF Rolling, Less
  <2>3. \A m \in 0 .. n : h[m] = IF m = 0 THEN sems ELSE Less(h[m - 1], s.base + sops[m].num, sops[m].op)
    <3> TAKE m \in 0 .. n
    <3>1. CASE m = n
      BY <3>1
    <3>2. CASE m # n
      <4>1. m \in 0 .. n - 1 /\ h[m] = g[m]
        BY <3>2
      <4>2. m # 0 => m - 1 \in 0 .. n - 1 /\ h[m - 1] = g[m - 1]
        BY <3>2
      <4> QED
        BY <2>2, <4>1, <4>2
    <3> QED
      BY <3>1, <3>2
  <2>4. Rolling(h, s, sems, sops, n)
    BY <2>3 DEF Rolling, Less
  <2> QED
    BY <2>4
<1>3. 0 .. N \subseteq S
  <2> HIDE DEF S
  <2> QED
    BY <1>1, <1>2, LoopInduction
<1> QED
  BY <1>3

\* So does Rollback, in these stages.
LEMMA RollbackRolls ==
  ASSUME NEW s, NEW sems, NEW sops, NEW N \in Nat, Len(sops) = N
  PROVE  \E g : /\ Rollback(s, sems, sops) = g[N] /\ g[0] = sems
                /\ \A m \in 1 .. N : g[m] = Less(g[m - 1], s.base + sops[m].num, sops[m].op)
<1>1. \E g : Rolling(g, s, sems, sops, N)
  BY RollingExists
<1>2. PICK g : Rolling(g, s, sems, sops, N) /\ Rollback(s, sems, sops) = g[N]
  <2>1. Rollback(s, sems, sops) = (CHOOSE g : Rolling(g, s, sems, sops, Len(sops)))[Len(sops)]
    BY Zenon DEF Rollback, Rolling
  <2> QED
    BY <1>1, <2>1
<1>3. g = [m \in 0 .. N |-> IF m = 0 THEN sems ELSE Less(g[m - 1], s.base + sops[m].num, sops[m].op)]
  BY <1>2 DEF Rolling, Less
<1>4. g[0] = sems /\ \A m \in 1 .. N : g[m] = Less(g[m - 1], s.base + sops[m].num, sops[m].op)
  BY <1>3
<1> QED
  BY <1>2, <1>4

\* Semaphores whose values may be below 0.
Signed(t) == [0 .. t - 1 -> [val : Int, ncnt : 0 .. CntMod - 1, zcnt : 0 .. CntMod - 1]]

LEMMA SignedSems ==
  ASSUME NEW t \in Nat, NEW m \in Sems(t)
  PROVE  m \in Signed(t)
BY DEF Sems, Signed, SemRec

\* Less by d at i.
LEMMA LessIs ==
  ASSUME NEW t \in Nat, NEW m \in Signed(t), NEW i \in 0 .. t - 1, NEW d \in Int
  PROVE  /\ Less(m, i, d) \in Signed(t) /\ Less(m, i, d)[i].val = m[i].val - d
         /\ Less(m, i, d)[i].ncnt = m[i].ncnt /\ Less(m, i, d)[i].zcnt = m[i].zcnt
         /\ \A x \in 0 .. t - 1 : x # i => Less(m, i, d)[x] = m[x]
<1>1. m[i] \in [val : Int, ncnt : 0 .. CntMod - 1, zcnt : 0 .. CntMod - 1] /\ DOMAIN m = 0 .. t - 1
  BY DEF Signed
<1>2. Less(m, i, d) = [m EXCEPT ![i] = [m[i] EXCEPT !.val = m[i].val - d]]
  BY DEF Less
<1>3. /\ [m[i] EXCEPT !.val = m[i].val - d] \in [val : Int, ncnt : 0 .. CntMod - 1, zcnt : 0 .. CntMod - 1]
      /\ [m[i] EXCEPT !.val = m[i].val - d].val = m[i].val - d
      /\ [m[i] EXCEPT !.val = m[i].val - d].ncnt = m[i].ncnt /\ [m[i] EXCEPT !.val = m[i].val - d].zcnt = m[i].zcnt
  BY <1>1
<1> QED
  BY <1>1, <1>2, <1>3 DEF Signed

\* Another value at i.
LEMMA SetValIs ==
  ASSUME NEW t \in Nat, NEW m \in Sems(t), NEW i \in 0 .. t - 1, NEW v
  PROVE  /\ SetVal(m, i, v)[i].val = v
         /\ SetVal(m, i, v)[i].ncnt = m[i].ncnt /\ SetVal(m, i, v)[i].zcnt = m[i].zcnt
         /\ \A x \in 0 .. t - 1 : x # i => SetVal(m, i, v)[x] = m[x]
<1>1. m[i] \in SemRec /\ DOMAIN m = 0 .. t - 1
  BY DEF Sems
<1>2. /\ [m[i] EXCEPT !.val = v].val = v
      /\ [m[i] EXCEPT !.val = v].ncnt = m[i].ncnt /\ [m[i] EXCEPT !.val = v].zcnt = m[i].zcnt
  BY <1>1 DEF SemRec
<1> QED
  BY <1>1, <1>2 DEF SetVal

\* Two arrays of semaphores are one if they agree in every field.
LEMMA SignedEqual ==
  ASSUME NEW t \in Nat, NEW m \in Signed(t), NEW w \in Signed(t),
         \A i \in 0 .. t - 1 : m[i].val = w[i].val /\ m[i].ncnt = w[i].ncnt /\ m[i].zcnt = w[i].zcnt
  PROVE  m = w
<1>1. ASSUME NEW i \in 0 .. t - 1 PROVE m[i] = w[i]
  <2>1. m[i] \in [val : Int, ncnt : 0 .. CntMod - 1, zcnt : 0 .. CntMod - 1]
        /\ w[i] \in [val : Int, ncnt : 0 .. CntMod - 1, zcnt : 0 .. CntMod - 1]
    BY DEF Signed
  <2> QED
    BY <2>1
<1> QED
  BY <1>1 DEF Signed

\* Rolling back the operations that were carried out gives the semaphores as they were,
\* although it goes through them in the same order.
LEMMA RollbackIs ==
  ASSUME NEW t \in Nat, NEW s \in SetRec, s.base + s.n <= t, NEW sems \in Sems(t), NEW sops \in Seq(Sembuf),
         NEW r, r = Try(s, sems, sops)
  PROVE  Rollback(s, r.sem, SubSeq(sops, 1, r.n)) = sems
<1>1. PICK n, c : n = r.n /\ c = SubSeq(sops, 1, n)
  OBVIOUS
<1>2. r.n \in Nat /\ r.n <= Len(sops) /\ \E T : Stages(T, t, s, sems, sops, r.n, r.sem)
  BY TryHasStages
<1>3. n \in Nat /\ n <= Len(sops) /\ Len(sops) \in Nat
  BY <1>1, <1>2
<1>4. PICK T : Stages(T, t, s, sems, sops, n, r.sem)
  BY <1>1, <1>2
<1>5. Len(c) = n /\ \A k \in 1 .. n : c[k] = sops[k]
  BY <1>1, <1>3
<1>6. \A k \in 1 .. n : c[k].num \in Nat /\ c[k].op \in Int
  <2> TAKE k \in 1 .. n
  <2>1. k \in 1 .. Len(sops)
    BY <1>3
  <2>2. sops[k] \in Sembuf
    BY <2>1
  <2> QED
    BY <1>5, <2>2 DEF Sembuf
<1>7. PICK g : /\ Rollback(s, r.sem, c) = g[n] /\ g[0] = r.sem
               /\ \A m \in 1 .. n : g[m] = Less(g[m - 1], s.base + c[m].num, c[m].op)
  <2>1. PICK z : z = r.sem
    OBVIOUS
  <2>2. n \in Nat /\ Len(c) = n
    BY <1>3, <1>5
  <2>3. \E g : /\ Rollback(s, z, c) = g[n] /\ g[0] = z
               /\ \A m \in 1 .. n : g[m] = Less(g[m - 1], s.base + c[m].num, c[m].op)
    BY ONLY <2>2, RollbackRolls
  <2> QED
    BY <2>1, <2>3
<1>8. PICK b, l : b = s.base /\ l = s.n
  OBVIOUS
<1>9. b \in Nat /\ l \in Nat /\ b + l <= t
  BY <1>8 DEF SetRec
<1>10. /\ \A k \in 0 .. n : T[k] \in Sems(t)
       /\ T[0] = sems /\ T[n] = r.sem
       /\ \A k \in 1 .. n : c[k].num < l /\ T[k] = SetVal(T[k - 1], b + c[k].num, T[k - 1][b + c[k].num].val + c[k].op)
  BY <1>4, <1>5, <1>8 DEF Stages
<1>11. ASSUME NEW m \in 1 .. n
       PROVE  /\ b + c[m].num \in 0 .. t - 1 /\ T[m - 1] \in Sems(t) /\ T[m] \in Sems(t)
              /\ T[m][b + c[m].num].val = T[m - 1][b + c[m].num].val + c[m].op
              /\ \A i \in 0 .. t - 1 : /\ i # b + c[m].num => T[m][i].val = T[m - 1][i].val
                                       /\ T[m][i].ncnt = T[m - 1][i].ncnt /\ T[m][i].zcnt = T[m - 1][i].zcnt
  <2>1. T[m - 1] \in Sems(t) /\ T[m] \in Sems(t)
    <3>1. m \in 0 .. n /\ m - 1 \in 0 .. n
      BY <1>3
    <3> QED
      BY <1>10, <3>1
  <2>2. PICK k, i, v, x : k = c[m].num /\ i = b + k /\ x = T[m - 1] /\ v = x[i].val + c[m].op
    OBVIOUS
  <2>3. k \in Nat /\ k < l /\ T[m] = SetVal(x, i, v)
    BY <1>6, <1>10, <2>2
  <2>4. i \in 0 .. t - 1
    BY ONLY <1>9, <2>2, <2>3, t \in Nat
  <2>5. x \in Sems(t)
    BY <2>1, <2>2
  <2>6. /\ SetVal(x, i, v)[i].val = v /\ SetVal(x, i, v)[i].ncnt = x[i].ncnt /\ SetVal(x, i, v)[i].zcnt = x[i].zcnt
        /\ \A y \in 0 .. t - 1 : y # i => SetVal(x, i, v)[y] = x[y]
    BY <2>4, <2>5, SetValIs
  <2>7. PICK z : z = SetVal(x, i, v)
    OBVIOUS
  <2>8. /\ z[i].val = v /\ z[i].ncnt = x[i].ncnt /\ z[i].zcnt = x[i].zcnt
        /\ \A y \in 0 .. t - 1 : y # i => z[y] = x[y]
    BY <2>6, <2>7
  <2>9. T[m] = z
    BY <2>3, <2>7
  <2>10. \A y \in 0 .. t - 1 : /\ y # i => z[y].val = x[y].val
                              /\ z[y].ncnt = x[y].ncnt /\ z[y].zcnt = x[y].zcnt
    BY <2>8
  <2> QED
    BY <2>1, <2>2, <2>4, <2>8, <2>9, <2>10
<1> DEFINE Same(m) == \A i \in 0 .. t - 1 : T[m][i].ncnt = sems[i].ncnt /\ T[m][i].zcnt = sems[i].zcnt
           S1 == {m \in 0 .. n : Same(m)}
<1>12. \A m \in 0 .. n : Same(m)
  <2>1. 0 \in S1
    BY <1>3, <1>10
  <2>2. ASSUME NEW m \in 1 .. n, m - 1 \in S1 PROVE m \in S1
    <3>1. Same(m - 1) /\ m \in 0 .. n
      BY <1>3, <2>2
    <3> QED
      BY <1>11, <3>1
  <2>3. 0 .. n \subseteq S1
    <3> HIDE DEF S1
    <3> QED
      BY <1>3, <2>1, <2>2, LoopInduction
  <2> QED
    BY <2>3
<1> DEFINE Good(m) == /\ g[m] \in Signed(t)
                      /\ \A i \in 0 .. t - 1 : /\ g[m][i].val = T[n][i].val - (T[m][i].val - sems[i].val)
                                               /\ g[m][i].ncnt = sems[i].ncnt /\ g[m][i].zcnt = sems[i].zcnt
           S2 == {m \in 0 .. n : Good(m)}
<1>13. \A m \in 0 .. n, i \in 0 .. t - 1 : T[m][i].val \in Int /\ sems[i].val \in Int
  <2>1. \A x \in Sems(t), i \in 0 .. t - 1 : x[i].val \in Int
    BY DEF Sems, SemRec
  <2> QED
    BY <1>10, <2>1
<1>14. 0 \in S2
  <2>1. g[0] \in Signed(t)
    BY <1>3, <1>7, <1>10, SignedSems
  <2>2. ASSUME NEW i \in 0 .. t - 1
        PROVE  /\ g[0][i].val = T[n][i].val - (T[0][i].val - sems[i].val)
               /\ g[0][i].ncnt = sems[i].ncnt /\ g[0][i].zcnt = sems[i].zcnt
    <3>1. g[0] = T[n] /\ T[0] = sems /\ Same(n) /\ n \in 0 .. n
      BY <1>3, <1>7, <1>10, <1>12
    <3>2. T[n][i].val \in Int /\ sems[i].val \in Int
      BY <1>13, <3>1
    <3> QED
      BY <3>1, <3>2
  <2> QED
    BY <1>3, <2>1, <2>2
<1>15. ASSUME NEW m \in 1 .. n, m - 1 \in S2 PROVE m \in S2
  <2>1. PICK i, x, d : i = b + c[m].num /\ x = g[m - 1] /\ d = c[m].op
    OBVIOUS
  <2>2. /\ g[m] = Less(x, i, d) /\ x \in Signed(t) /\ i \in 0 .. t - 1 /\ d \in Int
    BY <1>6, <1>7, <1>8, <1>11, <1>15, <2>1
  <2>3. /\ g[m] \in Signed(t) /\ g[m][i].val = x[i].val - d
        /\ g[m][i].ncnt = x[i].ncnt /\ g[m][i].zcnt = x[i].zcnt
        /\ \A y \in 0 .. t - 1 : y # i => g[m][y] = x[y]
    BY <2>2, LessIs
  <2>4. ASSUME NEW y \in 0 .. t - 1
        PROVE  /\ g[m][y].val = T[n][y].val - (T[m][y].val - sems[y].val)
               /\ g[m][y].ncnt = sems[y].ncnt /\ g[m][y].zcnt = sems[y].zcnt
    <3>1. /\ x[y].val = T[n][y].val - (T[m - 1][y].val - sems[y].val)
          /\ x[y].ncnt = sems[y].ncnt /\ x[y].zcnt = sems[y].zcnt
      BY <1>15, <2>1
    <3>2. PICK e, f, h, k : e = T[n][y].val /\ f = T[m][y].val /\ h = sems[y].val /\ k = T[m - 1][y].val
      OBVIOUS
    <3>3. e \in Int /\ f \in Int /\ h \in Int /\ k \in Int
      <4>1. n \in 0 .. n /\ m \in 0 .. n /\ m - 1 \in 0 .. n
        BY <1>3
      <4> QED
        BY <1>13, <3>2, <4>1
    <3>4. CASE y = i
      <4>1. f = k + d
        BY <1>11, <2>1, <3>2, <3>4
      <4>2. g[m][y].val = e - (k - h) - d
        BY <2>3, <3>1, <3>2, <3>4
      <4>3. e - (k - h) - d = e - (f - h)
        BY ONLY <3>3, <4>1, <2>2
      <4> QED
        BY <2>3, <3>1, <3>2, <3>4, <4>2, <4>3
    <3>5. CASE y # i
      <4>1. f = k
        BY <1>11, <2>1, <3>2, <3>5
      <4> QED
        BY <2>3, <3>1, <3>2, <3>5, <4>1
    <3> QED
      BY <3>4, <3>5
  <2> QED
    BY <1>3, <2>3, <2>4
<1>16. 0 .. n \subseteq S2
  <2> HIDE DEF S2
  <2> QED
    BY <1>3, <1>14, <1>15, LoopInduction
<1>17. Good(n)
  BY <1>3, <1>16
<1>18. g[n] = sems
  <2>1. \A i \in 0 .. t - 1 : g[n][i].val = sems[i].val
    <3> TAKE i \in 0 .. t - 1
    <3>1. g[n][i].val = T[n][i].val - (T[n][i].val - sems[i].val)
      BY <1>17
    <3>2. T[n][i].val \in Int /\ sems[i].val \in Int
      BY <1>3, <1>13
    <3> QED
      BY <3>1, <3>2
  <2> QED
    BY <1>17, <2>1, SignedSems, SignedEqual
<1> QED
  BY <1>1, <1>7, <1>18

-----------------------------------------------------------------------------
(* Undo vectors.                                                            *)

\* DropAt(): the last entry takes the place of the one at i.
LEMMA DropAtIs ==
  ASSUME NEW v \in Seq(Entry), NEW i \in 1 .. Len(v), NEW w, w = DropAt(v, i)
  PROVE  /\ w \in Seq(Entry) /\ Len(w) = Len(v) - 1
         /\ \A j \in 1 .. Len(w) : w[j] = IF j = i THEN v[Len(v)] ELSE v[j]
<1>1. PICK n : n = Len(v)
  OBVIOUS
<1>2. n \in Nat \ {0} /\ i \in 1 .. n
  BY <1>1
<1>3. PICK f : f = Front(v)
  OBVIOUS
<1>4. f \in Seq(Entry) /\ Len(f) = n - 1 /\ \A j \in 1 .. n - 1 : f[j] = v[j]
  <2>1. f = SubSeq(v, 1, n - 1)
    BY <1>1, <1>3 DEF Front
  <2> QED
    BY <1>1, <1>2, <2>1
<1>5. CASE i = n
  <2>1. w = f
    BY <1>1, <1>3, <1>5 DEF DropAt
  <2> QED
    BY <1>1, <1>2, <1>4, <1>5, <2>1
<1>6. CASE i # n
  <2>1. w = [f EXCEPT ![i] = v[n]]
    BY <1>1, <1>3, <1>6 DEF DropAt, Last
  <2>2. v[n] \in Entry /\ i \in 1 .. Len(f)
    BY <1>1, <1>2, <1>4, <1>6
  <2>3. w \in Seq(Entry) /\ Len(w) = Len(f)
    BY <1>4, <2>1, <2>2
  <2>4. \A j \in 1 .. Len(f) : w[j] = IF j = i THEN v[n] ELSE f[j]
    BY <1>4, <2>1, <2>2
  <2> QED
    BY <1>1, <1>2, <1>4, <2>3, <2>4
<1> QED
  BY <1>5, <1>6

\* What is left is in order.
LEMMA DropAtOK ==
  ASSUME NEW A, NEW v \in Seq(Entry), VecOK(v, A), NEW i \in 1 .. Len(v), NEW w, w = DropAt(v, i)
  PROVE  w \in Seq(Entry) /\ VecOK(w, A) /\ Len(w) = Len(v) - 1
<1>1. PICK n : n = Len(v)
  OBVIOUS
<1>2. n \in Nat \ {0} /\ i \in 1 .. n
  BY <1>1
<1>3. /\ w \in Seq(Entry) /\ Len(w) = n - 1
      /\ \A j \in 1 .. n - 1 : w[j] = IF j = i THEN v[n] ELSE v[j]
  BY <1>1, DropAtIs
<1>4. /\ n <= SEMUME
      /\ \A j \in 1 .. n : v[j].ix \in Ix /\ A[v[j].ix].alloc /\ v[j].num < A[v[j].ix].n /\ v[j].adj # 0
      /\ \A j, k \in 1 .. n : v[j].ix = v[k].ix /\ v[j].num = v[k].num => j = k
  BY <1>1 DEF VecOK
<1>5. \A j \in 1 .. n - 1 : \E x \in 1 .. n : w[j] = v[x] /\ x = IF j = i THEN n ELSE j
  BY <1>2, <1>3
<1>6. \A j \in 1 .. n - 1 : w[j].ix \in Ix /\ A[w[j].ix].alloc /\ w[j].num < A[w[j].ix].n /\ w[j].adj # 0
  BY <1>4, <1>5
<1>7. ASSUME NEW j \in 1 .. n - 1, NEW k \in 1 .. n - 1, w[j].ix = w[k].ix, w[j].num = w[k].num
      PROVE  j = k
  <2>1. PICK x \in 1 .. n : w[j] = v[x] /\ x = IF j = i THEN n ELSE j
    BY <1>5
  <2>2. PICK y \in 1 .. n : w[k] = v[y] /\ y = IF k = i THEN n ELSE k
    BY <1>5
  <2>3. x = y
    BY <1>4, <1>7, <2>1, <2>2
  <2> QED
    BY <1>2, <2>1, <2>2, <2>3
<1>8. n - 1 <= SEMUME
  BY <1>2, <1>4, SysVSemAssumption
<1> QED
  BY <1>1, <1>3, <1>6, <1>7, <1>8 DEF VecOK

\* The first entry about a set.
LEMMA FirstOfSet ==
  ASSUME NEW v \in Seq(Entry), NEW ix, OfSet(v, ix) # {}
  PROVE  Min(OfSet(v, ix)) \in 1 .. Len(v)
<1> DEFINE S == OfSet(v, ix)
<1>1. S \subseteq 1 .. Len(v) /\ S \subseteq Nat
  BY DEF OfSet
<1> HIDE DEF S
<1>2. \E x \in S : \A y \in S : x <= y
  BY <1>1, Least DEF S
<1>3. Min(S) \in S
  BY <1>2 DEF Min
<1> QED
  BY <1>1, <1>3 DEF S

\* g drops the entries about ix, in N rounds.
DropFirst(w, ix) == IF OfSet(w, ix) = {} THEN w ELSE DropAt(w, Min(OfSet(w, ix)))
Clearing(g, v, ix, N) ==
  g = [n \in 0 .. N |-> IF n = 0 THEN v
                        ELSE IF OfSet(g[n - 1], ix) = {} THEN g[n - 1] ELSE DropAt(g[n - 1], Min(OfSet(g[n - 1], ix)))]

LEMMA ClearingExists ==
  ASSUME NEW v, NEW ix, NEW N \in Nat
  PROVE  \E g : Clearing(g, v, ix, N)
<1> DEFINE S == {n \in Nat : \E g : Clearing(g, v, ix, n)}
<1>1. 0 \in S
  <2> DEFINE z == [m \in 0 .. 0 |-> v]
  <2>1. Clearing(z, v, ix, 0)
    BY DEF Clearing
  <2> QED
    BY <2>1
<1>2. ASSUME NEW n \in 1 .. N, n - 1 \in S PROVE n \in S
  <2>1. PICK g : Clearing(g, v, ix, n - 1)
    BY <1>2
  <2> DEFINE h == [m \in 0 .. n |-> IF m = n THEN DropFirst(g[n - 1], ix) ELSE g[m]]
  <2>2. \A m \in 0 .. n - 1 : g[m] = IF m = 0 THEN v ELSE DropFirst(g[m - 1], ix)
    BY <2>1 DEF Clearing, DropFirst
  <2>3. \A m \in 0 .. n : h[m] = IF m = 0 THEN v ELSE DropFirst(h[m - 1], ix)
    <3> TAKE m \in 0 .. n
    <3>1. CASE m = n
      BY <3>1
    <3>2. CASE m # n
      <4>1. m \in 0 .. n - 1 /\ h[m] = g[m]
        BY <3>2
      <4>2. m # 0 => m - 1 \in 0 .. n - 1 /\ h[m - 1] = g[m - 1]
        BY <3>2
      <4> QED
        BY <2>2, <4>1, <4>2
    <3> QED
      BY <3>1, <3>2
  <2>4. Clearing(h, v, ix, n)
    BY <2>3 DEF Clearing, DropFirst
  <2> QED
    BY <2>4
<1>3. 0 .. N \subseteq S
  <2> HIDE DEF S
  <2> QED
    BY <1>1, <1>2, LoopInduction
<1> QED
  BY <1>3

\* WithoutSet() leaves a vector in order, with nothing about the set.
LEMMA WithoutSetOK ==
  ASSUME NEW A, NEW v \in Seq(Entry), VecOK(v, A), NEW ix, NEW w, w = WithoutSet(v, ix)
  PROVE  w \in Seq(Entry) /\ VecOK(w, A) /\ OfSet(w, ix) = {}
<1>1. PICK N : N = Len(v) /\ N \in Nat
  OBVIOUS
<1>2. PICK g : Clearing(g, v, ix, N) /\ w = g[N]
  <2>1. WithoutSet(v, ix) = (CHOOSE g : Clearing(g, v, ix, Len(v)))[Len(v)]
    BY Zenon DEF WithoutSet, Clearing
  <2> QED
    BY <1>1, <2>1, ClearingExists
<1>3. g[0] = v /\ \A n \in 1 .. N : g[n] = DropFirst(g[n - 1], ix)
  <2>1. g = [n \in 0 .. N |-> IF n = 0 THEN v ELSE DropFirst(g[n - 1], ix)]
    BY <1>2 DEF Clearing, DropFirst
  <2> QED
    BY <1>1, <2>1
<1> DEFINE S == {n \in 0 .. N : /\ g[n] \in Seq(Entry) /\ VecOK(g[n], A)
                                /\ OfSet(g[n], ix) = {} \/ Len(g[n]) = N - n}
<1>4. 0 \in S
  BY <1>1, <1>3
<1>5. ASSUME NEW n \in 1 .. N, n - 1 \in S PROVE n \in S
  <2>1. PICK x : x = g[n - 1]
    OBVIOUS
  <2>2. x \in Seq(Entry) /\ VecOK(x, A) /\ (OfSet(x, ix) = {} \/ Len(x) = N - (n - 1)) /\ g[n] = DropFirst(x, ix)
    BY <1>3, <1>5, <2>1
  <2>3. CASE OfSet(x, ix) = {}
    BY <1>1, <2>2, <2>3 DEF DropFirst
  <2>4. CASE OfSet(x, ix) # {}
    <3>1. PICK i : i = Min(OfSet(x, ix))
      OBVIOUS
    <3>2. i \in 1 .. Len(x) /\ g[n] = DropAt(x, i)
      BY <2>2, <2>4, <3>1, FirstOfSet DEF DropFirst
    <3>3. g[n] \in Seq(Entry) /\ VecOK(g[n], A) /\ Len(g[n]) = Len(x) - 1
      BY <2>2, <3>2, DropAtOK
    <3>4. Len(g[n]) = N - n
      BY <1>1, <2>2, <2>4, <3>3
    <3> QED
      BY <1>1, <3>3, <3>4
  <2> QED
    BY <2>3, <2>4
<1>6. 0 .. N \subseteq S
  <2> HIDE DEF S
  <2> QED
    BY <1>1, <1>4, <1>5, LoopInduction
<1>7. w \in Seq(Entry) /\ VecOK(w, A) /\ (OfSet(w, ix) = {} \/ Len(w) = 0)
  <2>1. N \in 0 .. N /\ N - N = 0
    BY <1>1
  <2>2. N \in S
    <3> HIDE DEF S
    <3> QED
      BY <1>6, <2>1
  <2> QED
    BY <1>2, <2>1, <2>2
<1> QED
  BY <1>7 DEF OfSet

\* WithoutSem() leaves a vector in order.
LEMMA WithoutSemOK ==
  ASSUME NEW A, NEW v \in Seq(Entry), VecOK(v, A), NEW ix, NEW num, NEW w, w = WithoutSem(v, ix, num)
  PROVE  w \in Seq(Entry) /\ VecOK(w, A)
<1>1. CASE w = v
  BY <1>1
<1>2. CASE w # v
  <2>1. PICK i : i = Min(OfSet(v, ix))
    OBVIOUS
  <2>2. OfSet(v, ix) # {} /\ w = DropAt(v, i)
    BY <1>2, <2>1 DEF WithoutSem
  <2>3. i \in 1 .. Len(v)
    BY <2>1, <2>2, FirstOfSet
  <2> QED
    BY <2>2, <2>3, DropAtOK
<1> QED
  BY <1>1, <1>2

\* The entry e is about the semaphore num of the set ix.
About(e, ix, num) == e.ix = ix /\ e.num = num

\* The entries of a vector.
Content(v) == {v[i] : i \in 1 .. Len(v)}

\* A vector in order has as many entries as places.
LEMMA ContentSize ==
  ASSUME NEW A, NEW v \in Seq(Entry), VecOK(v, A)
  PROVE  IsFiniteSet(Content(v)) /\ Cardinality(Content(v)) = Len(v)
<1>1. PICK n : n = Len(v) /\ n \in Nat
  OBVIOUS
<1>2. PICK f : f = [i \in 1 .. n |-> v[i]]
  OBVIOUS
<1>3. ASSUME NEW i \in 1 .. n, NEW j \in 1 .. n, v[i] = v[j] PROVE i = j
  BY <1>1, <1>3 DEF VecOK
<1>4. f \in Bijection(1 .. n, Content(v))
  <2>1. f \in [1 .. n -> Content(v)]
    BY <1>1, <1>2 DEF Content
  <2>2. \A i, j \in 1 .. n : f[i] = f[j] => i = j
    BY <1>2, <1>3
  <2>3. \A e \in Content(v) : \E i \in 1 .. n : f[i] = e
    BY <1>1, <1>2 DEF Content
  <2> QED
    BY <2>1, <2>2, <2>3 DEF Bijection, Injection, Surjection, IsInjective
<1>5. IsFiniteSet(1 .. n) /\ Cardinality(1 .. n) = n
  <2>1. IsFiniteSet(1 .. n) /\ Cardinality(1 .. n) = IF 1 > n THEN 0 ELSE n - 1 + 1
    <3>1. 1 \in Int /\ n \in Int
      BY <1>1
    <3> QED
      BY <3>1, FS_Interval
  <2> QED
    BY <1>1, <2>1
<1>6. IsFiniteSet(Content(v)) /\ Cardinality(Content(v)) = Cardinality(1 .. n)
  <2>1. ExistsBijection(1 .. n, Content(v))
    BY <1>4 DEF ExistsBijection
  <2> QED
    BY <1>5, <2>1, FS_Bijection
<1> QED
  BY <1>1, <1>5, <1>6

\* The vector v with d added to the entry at i.
Shift(v, i, d) == [v EXCEPT ![i].adj = @ + d]

NoneAbout(v, ix, num) == \A i \in 1 .. Len(v) : ~About(v[i], ix, num)

\* w is v after an adjustment by d for the semaphore num of the set ix.
VecAdjusted(v, w, ix, num, d) ==
  \/ \E i \in 1 .. Len(v) : About(v[i], ix, num) /\ v[i].adj + d = 0 /\ w = DropAt(v, i)
  \/ \E i \in 1 .. Len(v) : About(v[i], ix, num) /\ v[i].adj + d # 0 /\ w = Shift(v, i, d)
  \/ /\ NoneAbout(v, ix, num)
     /\ Len(v) # SEMUME /\ w = Append(v, [ix |-> ix, num |-> num, adj |-> d])

\* What that does to the entries.
Adjustment(C, D, ix, num, d) ==
  \/ \E e \in C : About(e, ix, num) /\ e.adj + d = 0 /\ D = C \ {e}
  \/ \E e \in C : About(e, ix, num) /\ e.adj + d # 0 /\ D = (C \ {e}) \cup {[ix |-> ix, num |-> num, adj |-> e.adj + d]}
  \/ (\A e \in C : ~About(e, ix, num)) /\ D = C \cup {[ix |-> ix, num |-> num, adj |-> d]}

\* The three cases.
LEMMA AdjustDrops ==
  ASSUME NEW A, NEW v \in Seq(Entry), VecOK(v, A), NEW i \in 1 .. Len(v), NEW w, w = DropAt(v, i)
  PROVE  Content(w) = Content(v) \ {v[i]}
<1>1. PICK n : n = Len(v)
  OBVIOUS
<1>2. n \in Nat \ {0} /\ i \in 1 .. n
  BY <1>1
<1>3. /\ Len(w) = n - 1
      /\ \A j \in 1 .. n - 1 : w[j] = IF j = i THEN v[n] ELSE v[j]
  BY <1>1, DropAtIs
<1>4. \A j, k \in 1 .. n : v[j] = v[k] => j = k
  BY <1>1 DEF VecOK
<1>5. ASSUME NEW e \in Content(w) PROVE e \in Content(v) /\ e # v[i]
  <2>1. PICK j \in 1 .. n - 1 : e = w[j]
    BY <1>3, <1>5 DEF Content
  <2>2. PICK k \in 1 .. n : e = v[k] /\ k = IF j = i THEN n ELSE j
    BY <1>2, <1>3, <2>1
  <2>3. k # i
    BY <1>2, <2>1, <2>2
  <2> QED
    BY <1>1, <1>2, <1>4, <2>2, <2>3 DEF Content
<1>6. ASSUME NEW e \in Content(v), e # v[i] PROVE e \in Content(w)
  <2>1. PICK k \in 1 .. n : e = v[k] /\ k # i
    BY <1>1, <1>6 DEF Content
  <2>2. PICK j \in 1 .. n - 1 : k = IF j = i THEN n ELSE j
    <3>1. CASE k = n
      BY <1>2, <2>1, <3>1
    <3>2. CASE k # n
      BY <1>2, <2>1, <3>2
    <3> QED
      BY <3>1, <3>2
  <2>3. w[j] = e
    BY <1>3, <2>1, <2>2
  <2> QED
    BY <1>3, <2>3 DEF Content
<1> QED
  BY <1>5, <1>6

LEMMA AdjustChanges ==
  ASSUME NEW A, NEW v \in Seq(Entry), VecOK(v, A), NEW i \in 1 .. Len(v), NEW d \in Int, v[i].adj + d # 0,
         NEW w, w = Shift(v, i, d)
  PROVE  /\ w \in Seq(Entry) /\ VecOK(w, A)
         /\ Content(w) = (Content(v) \ {v[i]}) \cup {[ix |-> v[i].ix, num |-> v[i].num, adj |-> v[i].adj + d]}
<1>1. PICK n, e : n = Len(v) /\ e = [ix |-> v[i].ix, num |-> v[i].num, adj |-> v[i].adj + d]
  OBVIOUS
<1>2. n \in Nat \ {0} /\ i \in 1 .. n /\ v[i] \in Entry
  BY <1>1
<1>3. [v[i] EXCEPT !.adj = @ + d] = e /\ e \in Entry
  <2>1. PICK x : x = v[i]
    OBVIOUS
  <2>2. x \in [ix : Nat, num : Nat, adj : Int]
    BY <1>2, <2>1 DEF Entry
  <2>3. [x EXCEPT !.adj = @ + d] = [ix |-> x.ix, num |-> x.num, adj |-> x.adj + d]
    BY <2>2
  <2>4. [ix |-> x.ix, num |-> x.num, adj |-> x.adj + d] \in [ix : Nat, num : Nat, adj : Int]
    BY <2>2
  <2> QED
    BY <1>1, <2>1, <2>3, <2>4 DEF Entry
<1>4. w = [v EXCEPT ![i] = e]
  BY <1>3 DEF Shift
<1>5. /\ w \in Seq(Entry) /\ Len(w) = n
      /\ \A j \in 1 .. n : w[j] = IF j = i THEN e ELSE v[j]
  BY <1>1, <1>2, <1>3, <1>4
<1>6. /\ n <= SEMUME
      /\ \A j \in 1 .. n : v[j].ix \in Ix /\ A[v[j].ix].alloc /\ v[j].num < A[v[j].ix].n /\ v[j].adj # 0
      /\ \A j, k \in 1 .. n : v[j].ix = v[k].ix /\ v[j].num = v[k].num => j = k
  BY <1>1 DEF VecOK
<1>7. e.ix = v[i].ix /\ e.num = v[i].num /\ e.adj # 0
  BY <1>1
<1>8. \A j \in 1 .. n : w[j].ix = v[j].ix /\ w[j].num = v[j].num /\ w[j].adj # 0
  BY <1>5, <1>6, <1>7
<1>9. VecOK(w, A)
  <2>1. \A j \in 1 .. n : w[j].ix \in Ix /\ A[w[j].ix].alloc /\ w[j].num < A[w[j].ix].n /\ w[j].adj # 0
    BY <1>6, <1>8
  <2>2. \A j, k \in 1 .. n : w[j].ix = w[k].ix /\ w[j].num = w[k].num => j = k
    BY <1>6, <1>8
  <2> QED
    BY <1>5, <1>6, <2>1, <2>2 DEF VecOK
<1>10. \A j \in 1 .. n : j # i => v[j] # v[i]
  BY <1>2, <1>6
<1>11. Content(w) = (Content(v) \ {v[i]}) \cup {e}
  <2>1. ASSUME NEW x \in Content(w) PROVE x \in (Content(v) \ {v[i]}) \cup {e}
    <3>1. PICK j \in 1 .. n : x = w[j]
      BY <1>5, <2>1 DEF Content
    <3> QED
      BY <1>1, <1>5, <1>10, <3>1 DEF Content
  <2>2. ASSUME NEW x \in (Content(v) \ {v[i]}) \cup {e} PROVE x \in Content(w)
    <3>1. CASE x = e
      BY <1>2, <1>5, <3>1 DEF Content
    <3>2. CASE x # e
      <4>1. PICK j \in 1 .. n : x = v[j] /\ j # i
        BY <1>1, <2>2, <3>2 DEF Content
      <4> QED
        BY <1>5, <4>1 DEF Content
    <3> QED
      BY <3>1, <3>2
  <2> QED
    BY <2>1, <2>2
<1> QED
  BY <1>1, <1>5, <1>9, <1>11

\* The entry e is about a semaphore that exists.
Fits(e, A) == e.ix \in Ix /\ A[e.ix].alloc /\ e.num < A[e.ix].n /\ e.adj # 0

\* There is room in v for the entry e, which makes it w.
Adds(v, w, e) == Len(v) # SEMUME /\ w = Append(v, e)

LEMMA AdjustAppends ==
  ASSUME NEW A, NEW v \in Seq(Entry), VecOK(v, A), NEW e \in Entry, NEW w, Adds(v, w, e),
         Fits(e, A),
         NoneAbout(v, e.ix, e.num)
  PROVE  w \in Seq(Entry) /\ VecOK(w, A) /\ Content(w) = Content(v) \cup {e}
<1>1. PICK n : n = Len(v) /\ n \in Nat
  OBVIOUS
<1>0. n # SEMUME /\ w = Append(v, e)
  BY <1>1 DEF Adds
<1>2. /\ w \in Seq(Entry) /\ Len(w) = n + 1
      /\ \A j \in 1 .. n : w[j] = v[j]
      /\ w[n + 1] = e
  BY <1>0, <1>1
<1>3. /\ n <= SEMUME
      /\ \A j \in 1 .. n : v[j].ix \in Ix /\ A[v[j].ix].alloc /\ v[j].num < A[v[j].ix].n /\ v[j].adj # 0
      /\ \A j, k \in 1 .. n : v[j].ix = v[k].ix /\ v[j].num = v[k].num => j = k
  BY <1>1 DEF VecOK
<1>4. \A j \in 1 .. n + 1 : j \in 1 .. n \/ j = n + 1
  BY <1>1
<1>5. VecOK(w, A)
  <2>1. n + 1 <= SEMUME
    BY <1>0, <1>1, <1>3, SysVSemAssumption
  <2>2. ASSUME NEW j \in 1 .. n + 1
        PROVE  w[j].ix \in Ix /\ A[w[j].ix].alloc /\ w[j].num < A[w[j].ix].n /\ w[j].adj # 0
    BY <1>2, <1>3, <1>4 DEF Fits
  <2>3. ASSUME NEW j \in 1 .. n + 1, NEW k \in 1 .. n + 1, w[j].ix = w[k].ix /\ w[j].num = w[k].num
        PROVE  j = k
    <3>1. \A i \in 1 .. n : ~(v[i].ix = e.ix /\ v[i].num = e.num)
      BY <1>1 DEF About, NoneAbout
    <3> QED
      BY <1>2, <1>3, <1>4, <2>3, <3>1
  <2> QED
    BY <1>2, <2>1, <2>2, <2>3 DEF VecOK
<1>6. Content(w) = Content(v) \cup {e}
  <2>1. n + 1 \in 1 .. n + 1 /\ \A j \in 1 .. n : j \in 1 .. n + 1
    BY <1>1
  <2> QED
    BY <1>1, <1>2, <1>4, <2>1 DEF Content
<1> QED
  BY <1>2, <1>5, <1>6

LEMMA VecAdjustedOK ==
  ASSUME NEW A, NEW v \in Seq(Entry), VecOK(v, A), NEW ix \in Ix, NEW num \in Nat, NEW d \in Int, d # 0,
         A[ix].alloc, num < A[ix].n, NEW w, VecAdjusted(v, w, ix, num, d)
  PROVE  w \in Seq(Entry) /\ VecOK(w, A) /\ Adjustment(Content(v), Content(w), ix, num, d)
<1>1. CASE \E i \in 1 .. Len(v) : About(v[i], ix, num) /\ v[i].adj + d = 0 /\ w = DropAt(v, i)
  <2>1. PICK i \in 1 .. Len(v) : About(v[i], ix, num) /\ v[i].adj + d = 0 /\ w = DropAt(v, i)
    BY <1>1
  <2>2. w \in Seq(Entry) /\ VecOK(w, A)
    BY <2>1, DropAtOK
  <2>3. Content(w) = Content(v) \ {v[i]}
    BY <2>1, AdjustDrops
  <2>4. v[i] \in Content(v)
    BY DEF Content
  <2> QED
    BY <2>1, <2>2, <2>3, <2>4 DEF Adjustment
<1>2. CASE \E i \in 1 .. Len(v) : About(v[i], ix, num) /\ v[i].adj + d # 0 /\ w = Shift(v, i, d)
  <2>1. PICK i \in 1 .. Len(v) : About(v[i], ix, num) /\ v[i].adj + d # 0 /\ w = Shift(v, i, d)
    BY <1>2
  <2>2. /\ w \in Seq(Entry) /\ VecOK(w, A)
        /\ Content(w) = (Content(v) \ {v[i]}) \cup {[ix |-> v[i].ix, num |-> v[i].num, adj |-> v[i].adj + d]}
    BY <2>1, AdjustChanges
  <2>3. v[i].ix = ix /\ v[i].num = num /\ v[i] \in Content(v)
    BY <2>1 DEF About, Content
  <2> QED
    BY <2>1, <2>2, <2>3 DEF Adjustment
<1>3. CASE /\ NoneAbout(v, ix, num)
           /\ Len(v) # SEMUME /\ w = Append(v, [ix |-> ix, num |-> num, adj |-> d])
  <2>1. PICK e : e = [ix |-> ix, num |-> num, adj |-> d]
    OBVIOUS
  <2>2. ix \in Nat
    BY SysVSemAssumption DEF Ix
  <2>3. e \in Entry /\ e.ix = ix /\ e.num = num /\ e.adj = d
    BY <2>1, <2>2 DEF Entry
  <2>4. w \in Seq(Entry) /\ VecOK(w, A) /\ Content(w) = Content(v) \cup {e}
    <3>1. Adds(v, w, e) /\ NoneAbout(v, e.ix, e.num)
      BY <1>3, <2>1, <2>3 DEF Adds
    <3>2. Fits(e, A)
      BY <2>3 DEF Fits
    <3> QED
      BY <2>3, <3>1, <3>2, AdjustAppends
  <2>5. \A x \in Content(v) : ~About(x, ix, num)
    BY <1>3 DEF Content, NoneAbout
  <2> QED
    BY <2>1, <2>4, <2>5 DEF Adjustment
<1> QED
  BY <1>1, <1>2, <1>3 DEF VecAdjusted

\* Entries in order: each for another semaphore, and none for nothing.
Entries(C) ==
  /\ C \subseteq Entry
  /\ \A e, f \in C : e.ix = f.ix /\ e.num = f.num => e = f
  /\ \A e \in C : e.adj # 0

\* An adjustment is taken back by the opposite one.
LEMMA AdjustmentBack ==
  ASSUME NEW C, NEW D, NEW E, Entries(C), NEW ix \in Nat, NEW num \in Nat, NEW d \in Int, d # 0,
         NEW k, k = -d, Adjustment(C, D, ix, num, d), Adjustment(D, E, ix, num, k)
  PROVE  E = C
<1>0. \A e \in C : e = [ix |-> e.ix, num |-> e.num, adj |-> e.adj] /\ e.adj \in Int /\ e.adj # 0
  BY DEF Entries, Entry
<1>1. CASE \E e \in C : About(e, ix, num) /\ e.adj + d = 0 /\ D = C \ {e}
  <2>1. PICK e \in C : About(e, ix, num) /\ e.adj + d = 0 /\ D = C \ {e}
    BY <1>1
  <2>2. \A f \in D : ~About(f, ix, num)
    BY <2>1 DEF Entries, About
  <2>3. E = D \cup {[ix |-> ix, num |-> num, adj |-> k]}
    BY <2>2 DEF Adjustment
  <2>4. e.adj = k
    BY <1>0, <2>1
  <2>5. e = [ix |-> ix, num |-> num, adj |-> k]
    BY <1>0, <2>1, <2>4 DEF About
  <2> QED
    BY <2>1, <2>3, <2>5
<1>2. CASE \E e \in C : /\ About(e, ix, num) /\ e.adj + d # 0
                        /\ D = (C \ {e}) \cup {[ix |-> ix, num |-> num, adj |-> e.adj + d]}
  <2>1. PICK e \in C : /\ About(e, ix, num) /\ e.adj + d # 0
                       /\ D = (C \ {e}) \cup {[ix |-> ix, num |-> num, adj |-> e.adj + d]}
    BY <1>2
  <2>2. PICK f : f = [ix |-> ix, num |-> num, adj |-> e.adj + d]
    OBVIOUS
  <2>3. f \in D /\ About(f, ix, num) /\ f.adj = e.adj + d
    BY <2>1, <2>2 DEF About
  <2>4. \A x \in D : About(x, ix, num) => x = f
    BY <2>1, <2>2 DEF Entries, About
  <2>5. f.adj + k = e.adj /\ f.adj + k # 0
    BY <1>0, <2>3
  <2>6. E = (D \ {f}) \cup {[ix |-> ix, num |-> num, adj |-> f.adj + k]}
    BY <2>3, <2>4, <2>5 DEF Adjustment
  <2>7. [ix |-> ix, num |-> num, adj |-> f.adj + k] = e
    BY <1>0, <2>1, <2>5 DEF About
  <2>8. \A x \in C : x = f => x = e
    BY <2>1, <2>3 DEF Entries, About
  <2>9. D = (C \ {e}) \cup {f}
    BY <2>1, <2>2
  <2> QED
    BY <2>6, <2>7, <2>8, <2>9
<1>3. CASE (\A e \in C : ~About(e, ix, num)) /\ D = C \cup {[ix |-> ix, num |-> num, adj |-> d]}
  <2>1. PICK f : f = [ix |-> ix, num |-> num, adj |-> d]
    OBVIOUS
  <2>2. D = C \cup {f} /\ f \notin C /\ About(f, ix, num) /\ f.adj + k = 0
    BY <1>3, <2>1 DEF About
  <2>3. \A x \in D : About(x, ix, num) => x = f
    BY <1>3, <2>2
  <2>4. E = D \ {f}
    BY <2>2, <2>3 DEF Adjustment
  <2> QED
    BY <2>2, <2>4
<1> QED
  BY <1>1, <1>2, <1>3 DEF Adjustment

\* The entries of a vector in order.
LEMMA ContentEntries ==
  ASSUME NEW A, NEW v \in Seq(Entry), VecOK(v, A)
  PROVE  Entries(Content(v))
<1>1. PICK n : n = Len(v) /\ n \in Nat
  OBVIOUS
<1>2. /\ \A j \in 1 .. n : v[j] \in Entry /\ v[j].adj # 0
      /\ \A j, k \in 1 .. n : v[j].ix = v[k].ix /\ v[j].num = v[k].num => j = k
  BY <1>1 DEF VecOK
<1> QED
  BY <1>1, <1>2 DEF Content, Entries

-----------------------------------------------------------------------------
(* semu_alloc() and semundo_adjust().                                       *)

Used(u) == {q \in Proc : u[q] # NoVector}

\* p has a vector, or there is a free one.
Spare(u, p) == u[p] # NoVector \/ Cardinality(Used(u)) < semmnu

\* From u to w the vectors of others stay, if p need not look for a free one.
Beside(u, w, p) ==
  /\ Spare(u, p) => Spare(w, p) /\ \A q \in Proc \ {p} : w[q] = u[q]
  /\ u[p] # NoVector => w[p] # NoVector

LEMMA BesideTwice ==
  ASSUME NEW u, NEW v, NEW w, NEW p, Beside(u, v, p), Beside(v, w, p)
  PROVE  Beside(u, w, p)
  BY DEF Beside

\* The vectors in use are as many as VecsOK() says.
LEMMA UsedFinite == ASSUME NEW u PROVE IsFiniteSet(Used(u)) /\ Cardinality(Used(u)) \in Nat
<1>1. IsFiniteSet(Proc) /\ Used(u) \subseteq Proc
  BY SysVSemAssumption DEF Used
<1>2. IsFiniteSet(Used(u))
  BY <1>1, FS_Subset
<1> QED
  BY <1>2, FS_CardinalityType

\* The vector of p becomes w.
Takes(u, x, p, w) == x = [u EXCEPT ![p] = w]

LEMMA OneVector ==
  ASSUME NEW A, NEW u, VecsOK(u, A), NEW p \in Proc, u[p] # NoVector, NEW w \in Seq(Entry), VecOK(w, A),
         NEW x, Takes(u, x, p, w)
  PROVE  VecsOK(x, A) /\ x[p] = w /\ x[p] # NoVector /\ Beside(u, x, p)
<1>1. u \in [Proc -> Seq(Entry) \cup {NoVector}] /\ NoVector \notin Seq(Entry)
  BY SysVSemAssumption DEF VecsOK
<1>2. x \in [Proc -> Seq(Entry) \cup {NoVector}] /\ x[p] = w /\ w # NoVector /\ \A q \in Proc \ {p} : x[q] = u[q]
  BY <1>1 DEF Takes
<1>3. \A q \in Proc : x[q] # NoVector <=> u[q] # NoVector
  BY <1>2
<1>4. {q \in Proc : x[q] # NoVector} = {q \in Proc : u[q] # NoVector}
  BY <1>3
<1>5. \A q \in Proc : x[q] # NoVector => VecOK(x[q], A)
  BY <1>2 DEF VecsOK
<1>6. VecsOK(x, A)
  BY <1>2, <1>4, <1>5 DEF VecsOK
<1> QED
  BY <1>2, <1>6 DEF Beside, Spare

LEMMA EmptyVecOK == ASSUME NEW A PROVE VecOK(<<>>, A) /\ <<>> \in Seq(Entry) /\ Content(<<>>) = {}
<1>1. Len(<<>>) = 0 /\ <<>> \in Seq(Entry)
  OBVIOUS
<1>2. 0 <= SEMUME
  BY SysVSemAssumption
<1> QED
  BY <1>1, <1>2 DEF VecOK, Content

\* Fewer than semmnu are in use, and p gets an empty one.
Free(u) == Cardinality(Used(u)) < semmnu
Gets(u, x, p) == x = [u EXCEPT ![p] = <<>>]

LEMMA NewVector ==
  ASSUME NEW A, NEW u, VecsOK(u, A), NEW p \in Proc, u[p] = NoVector, Free(u), NEW x, Gets(u, x, p)
  PROVE  VecsOK(x, A) /\ x[p] = <<>> /\ x[p] # NoVector /\ \A q \in Proc \ {p} : x[q] = u[q]
<1>1. u \in [Proc -> Seq(Entry) \cup {NoVector}] /\ NoVector \notin Seq(Entry) /\ <<>> \in Seq(Entry)
  BY SysVSemAssumption, EmptyVecOK DEF VecsOK
<1>2. /\ x \in [Proc -> Seq(Entry) \cup {NoVector}] /\ x[p] = <<>> /\ <<>> # NoVector
      /\ \A q \in Proc \ {p} : x[q] = u[q]
  BY <1>1 DEF Gets
<1>3. \A q \in Proc : x[q] # NoVector => VecOK(x[q], A)
  BY <1>2, EmptyVecOK DEF VecsOK
<1>4. Used(x) = Used(u) \cup {p}
  BY <1>2 DEF Used
<1>5. p \notin Used(u)
  BY DEF Used
<1>6. Cardinality(Used(x)) <= semmnu
  <2>1. Cardinality(Used(x)) = Cardinality(Used(u)) + 1
    BY <1>4, <1>5, UsedFinite, FS_AddElement
  <2> QED
    BY <2>1, UsedFinite, SysVSemAssumption DEF Free
<1> QED
  BY <1>2, <1>3, <1>6 DEF VecsOK, Used

\* The empty vectors are freed.
LEMMA PurgedOK ==
  ASSUME NEW A, NEW u, VecsOK(u, A), NEW w, w = [q \in Proc |-> IF u[q] = <<>> THEN NoVector ELSE u[q]]
  PROVE  VecsOK(w, A) /\ (w # u => Cardinality(Used(w)) < semmnu)
<1>1. u \in [Proc -> Seq(Entry) \cup {NoVector}] /\ NoVector \notin Seq(Entry) /\ <<>> \in Seq(Entry)
  BY SysVSemAssumption, EmptyVecOK DEF VecsOK
<1>2. w \in [Proc -> Seq(Entry) \cup {NoVector}] /\ \A q \in Proc : w[q] = u[q] \/ w[q] = NoVector
  BY <1>1
<1>3. \A q \in Proc : w[q] # NoVector => VecOK(w[q], A)
  BY <1>2 DEF VecsOK
<1>4. Used(w) \subseteq Used(u)
  BY <1>2 DEF Used
<1>5. Cardinality(Used(u)) <= semmnu
  BY DEF VecsOK, Used
<1>6. Cardinality(Used(w)) <= Cardinality(Used(u))
  BY <1>4, UsedFinite, FS_Subset
<1>7. Cardinality(Used(w)) <= semmnu
  BY <1>5, <1>6, UsedFinite, SysVSemAssumption
<1>8. ASSUME w # u PROVE Cardinality(Used(w)) < semmnu
  <2>1. PICK q \in Proc : w[q] # u[q]
    BY <1>1, <1>2, <1>8
  <2>2. q \in Used(u) /\ q \notin Used(w)
    BY <1>1, <1>2, <2>1 DEF Used
  <2>3. Cardinality(Used(w)) # Cardinality(Used(u))
    BY <1>4, <2>2, UsedFinite, FS_Subset
  <2> QED
    BY <1>5, <1>6, <2>3, UsedFinite, SysVSemAssumption
<1> QED
  BY <1>2, <1>3, <1>7, <1>8 DEF VecsOK, Used

\* semu_alloc() for a process that has no vector.
LEMMA AllocOK ==
  ASSUME NEW A, NEW u, VecsOK(u, A), NEW p \in Proc, u[p] = NoVector, NEW v, v = semu_alloc(u, p)
  PROVE  /\ VecsOK(v, A) /\ Beside(u, v, p)
         /\ v = u \/ (v[p] = <<>> /\ v[p] # NoVector)
<1>1. CASE Cardinality(Used(u)) < semmnu
  <2>1. v = [u EXCEPT ![p] = <<>>]
    BY <1>1 DEF semu_alloc, Used
  <2>2. VecsOK(v, A) /\ v[p] = <<>> /\ v[p] # NoVector /\ \A q \in Proc \ {p} : v[q] = u[q]
    <3>1. Free(u) /\ Gets(u, v, p)
      BY <1>1, <2>1 DEF Free, Gets
    <3> QED
      BY <3>1, NewVector
  <2> QED
    BY <2>2 DEF Beside, Spare
<1>2. CASE ~(Cardinality(Used(u)) < semmnu)
  <2>1. PICK w : w = [q \in Proc |-> IF u[q] = <<>> THEN NoVector ELSE u[q]]
    OBVIOUS
  <2>2. v = IF w # u THEN [w EXCEPT ![p] = <<>>] ELSE u
    BY <1>2, <2>1 DEF semu_alloc, Used
  <2>3. ~Spare(u, p)
    BY <1>2 DEF Spare
  <2>4. CASE w # u
    <3>1. VecsOK(w, A) /\ Cardinality(Used(w)) < semmnu
      BY <2>1, <2>4, PurgedOK
    <3>2. w[p] = NoVector
      BY <2>1
    <3>3. VecsOK(v, A) /\ v[p] = <<>> /\ v[p] # NoVector
      <4>1. Free(w) /\ Gets(w, v, p)
        BY <2>2, <2>4, <3>1 DEF Free, Gets
      <4> QED
        BY <3>1, <3>2, <4>1, NewVector
    <3> QED
      BY <2>3, <3>3 DEF Beside
  <2>5. CASE w = u
    BY <2>2, <2>3, <2>5 DEF Beside
  <2> QED
    BY <2>4, <2>5
<1> QED
  BY <1>1, <1>2

\* What p is to have taken back.
Held(u, p) == IF u[p] = NoVector THEN {} ELSE Content(u[p])

\* The result a of an adjustment of u by d, for the semaphore num of the set ix.
Adjusts(a, u, p, A, ix, num, d) ==
  /\ VecsOK(a.undo, A) /\ Beside(u, a.undo, p)
  /\ a.err \in BOOLEAN
  /\ a.err => /\ a.undo = u
              /\ u[p] # NoVector => Len(u[p]) = SEMUME /\ NoneAbout(u[p], ix, num)
  /\ ~a.err => a.undo[p] # NoVector /\ Adjustment(Held(u, p), Held(a.undo, p), ix, num, d)

\* semundo_adjust() once there is a vector.
AdjustVector(v, p, ix, num, d) ==
  LET i == CHOOSE j \in OfSem(v[p], ix, num) : TRUE
  IN  IF OfSem(v[p], ix, num) # {}
           THEN [err |-> FALSE, undo |-> [v EXCEPT ![p] = Readjusted(@, i, d)]]
      ELSE IF Len(v[p]) = SEMUME THEN [err |-> TRUE, undo |-> v]
      ELSE [err |-> FALSE, undo |-> [v EXCEPT ![p] = Append(@, [ix |-> ix, num |-> num, adj |-> d])]]

LEMMA AdjustVectorOK ==
  ASSUME NEW A, NEW v, VecsOK(v, A), NEW p \in Proc, v[p] # NoVector,
         NEW ix \in Ix, NEW num \in Nat, NEW d \in Int, d # 0, A[ix].alloc, num < A[ix].n,
         NEW a, a = AdjustVector(v, p, ix, num, d)
  PROVE  Adjusts(a, v, p, A, ix, num, d)
<1>1. PICK x : x = v[p]
  OBVIOUS
<1>2. x \in Seq(Entry) /\ VecOK(x, A) /\ v \in [Proc -> Seq(Entry) \cup {NoVector}]
  BY <1>1 DEF VecsOK
<1>3. \A i \in 1 .. Len(x) : i \in OfSem(x, ix, num) <=> About(x[i], ix, num)
  BY <1>2 DEF OfSem, OfSet, About
<1>4. OfSem(x, ix, num) \subseteq 1 .. Len(x)
  BY <1>2 DEF OfSem, OfSet
<1>5. Beside(v, v, p)
  BY DEF Beside
<1>6. ASSUME NEW w, VecAdjusted(x, w, ix, num, d), a = [err |-> FALSE, undo |-> [v EXCEPT ![p] = w]]
      PROVE  Adjusts(a, v, p, A, ix, num, d)
  <2>1. w \in Seq(Entry) /\ VecOK(w, A) /\ Adjustment(Content(x), Content(w), ix, num, d)
    BY <1>2, <1>6, VecAdjustedOK
  <2>2. PICK y : y = [v EXCEPT ![p] = w]
    OBVIOUS
  <2>3. VecsOK(y, A) /\ y[p] = w /\ y[p] # NoVector /\ Beside(v, y, p)
    <3>1. Takes(v, y, p, w)
      BY <2>2 DEF Takes
    <3>2. v[p] # NoVector
      OBVIOUS
    <3> QED
      BY <2>1, <3>1, <3>2, OneVector
  <2>4. a.err = FALSE /\ a.undo = y
    BY <1>6, <2>2
  <2> QED
    BY <1>1, <2>1, <2>3, <2>4 DEF Adjusts, Held
<1>7. CASE OfSem(x, ix, num) # {}
  <2>1. PICK i : i = CHOOSE j \in OfSem(x, ix, num) : TRUE
    OBVIOUS
  <2>2. i \in OfSem(x, ix, num)
    BY <1>7, <2>1
  <2>3. PICK w : w = IF x[i].adj + d = 0 THEN DropAt(x, i) ELSE Shift(x, i, d)
    OBVIOUS
  <2>4. a = [err |-> FALSE, undo |-> [v EXCEPT ![p] = w]]
    <3>1. OfSem(v[p], ix, num) # {} /\ i = CHOOSE j \in OfSem(v[p], ix, num) : TRUE
      BY <1>1, <1>7, <2>1
    <3>2. a = [err |-> FALSE, undo |-> [v EXCEPT ![p] = Readjusted(v[p], i, d)]]
      BY <3>1, Zenon DEF AdjustVector
    <3>3. w = Readjusted(v[p], i, d)
      BY <1>1, <2>3 DEF Shift, Readjusted
    <3> QED
      BY <3>2, <3>3
  <2>5. VecAdjusted(x, w, ix, num, d)
    BY <1>3, <1>4, <2>2, <2>3 DEF VecAdjusted
  <2> QED
    BY <1>6, <2>4, <2>5
<1>8. CASE OfSem(x, ix, num) = {}
  <2>1. NoneAbout(x, ix, num)
    BY <1>3, <1>8 DEF NoneAbout
  <2>2. CASE Len(x) = SEMUME
    <3>1. a = [err |-> TRUE, undo |-> v]
      BY <1>1, <1>8, <2>2 DEF AdjustVector
    <3>2. a.err = TRUE /\ a.undo = v
      BY <3>1
    <3> QED
      BY <1>1, <1>5, <2>1, <2>2, <3>2 DEF Adjusts
  <2>3. CASE Len(x) # SEMUME
    <3>1. PICK w : w = Append(x, [ix |-> ix, num |-> num, adj |-> d])
      OBVIOUS
    <3>2. a = [err |-> FALSE, undo |-> [v EXCEPT ![p] = w]]
      BY <1>1, <1>2, <1>8, <2>3, <3>1 DEF AdjustVector
    <3>3. VecAdjusted(x, w, ix, num, d)
      BY <2>1, <2>3, <3>1 DEF VecAdjusted
    <3> QED
      BY <1>6, <3>2, <3>3
  <2> QED
    BY <2>2, <2>3
<1> QED
  BY <1>7, <1>8

LEMMA AdjustOK ==
  ASSUME NEW A, NEW u, VecsOK(u, A), NEW p \in Proc,
         NEW ix \in Ix, NEW num \in Nat, NEW d \in Int, d # 0, A[ix].alloc, num < A[ix].n,
         NEW a, a = semundo_adjust(u, p, ix, num, d)
  PROVE  Adjusts(a, u, p, A, ix, num, d)
<1>1. PICK v : v = IF u[p] = NoVector THEN semu_alloc(u, p) ELSE u
  OBVIOUS
<1>2. a = IF v[p] = NoVector THEN [err |-> TRUE, undo |-> v] ELSE AdjustVector(v, p, ix, num, d)
  BY <1>1 DEF semundo_adjust, AdjustVector
<1>3. CASE u[p] # NoVector
  <2>1. v = u /\ a = AdjustVector(u, p, ix, num, d)
    BY <1>1, <1>2, <1>3
  <2> QED
    BY <1>3, <2>1, AdjustVectorOK
<1>4. CASE u[p] = NoVector
  <2>1. /\ VecsOK(v, A) /\ Beside(u, v, p)
        /\ v = u \/ (v[p] = <<>> /\ v[p] # NoVector)
    BY <1>1, <1>4, AllocOK
  <2>2. CASE v = u
    <3>1. a.err = TRUE /\ a.undo = u
      BY <1>2, <1>4, <2>2
    <3> QED
      BY <1>4, <2>1, <2>2, <3>1 DEF Adjusts
  <2>3. CASE v[p] = <<>> /\ v[p] # NoVector
    <3>1. a = AdjustVector(v, p, ix, num, d)
      BY <1>2, <2>3
    <3>2. Adjusts(a, v, p, A, ix, num, d)
      BY <2>1, <2>3, <3>1, AdjustVectorOK
    <3>3. Len(v[p]) # SEMUME
      BY <2>3, SysVSemAssumption
    <3>4. ~a.err /\ VecsOK(a.undo, A) /\ Beside(v, a.undo, p) /\ a.err \in BOOLEAN
      BY <2>3, <3>2, <3>3 DEF Adjusts
    <3>5. a.undo[p] # NoVector /\ Adjustment(Held(v, p), Held(a.undo, p), ix, num, d)
      BY <3>2, <3>4 DEF Adjusts
    <3>6. Held(v, p) = Held(u, p)
      BY <1>4, <2>3, EmptyVecOK DEF Held
    <3>7. Beside(u, a.undo, p)
      BY <2>1, <3>4, BesideTwice
    <3> QED
      BY <3>4, <3>5, <3>6, <3>7 DEF Adjusts
  <2> QED
    BY <2>1, <2>2, <2>3
<1> QED
  BY <1>3, <1>4

-----------------------------------------------------------------------------
(* The loop over the adjustments of a vector.                               *)

AdjRec == [err : BOOLEAN, undo : [Proc -> Seq(Entry) \cup {NoVector}], n : Nat]
NoAdj(u) == [err |-> FALSE, undo |-> u, n |-> 0]

\* g makes N adjustments.
Adjusting(g, u, p, ix, c, sg, N) ==
  g = [m \in 0 .. N |-> IF m = 0 THEN [err |-> FALSE, undo |-> u, n |-> 0]
                        ELSE AdjustOne(g[m - 1], p, ix, c[m], sg)]

AdjustsAll(g, u, p, ix, c, sg, N) ==
  g[0] = NoAdj(u) /\ \A m \in 1 .. N : g[m] = AdjustOne(g[m - 1], p, ix, c[m], sg)

\* One can make those of any vector.
LEMMA AdjustingExists ==
  ASSUME NEW u, NEW p, NEW ix, NEW c, NEW sg, NEW N \in Nat
  PROVE  \E g : Adjusting(g, u, p, ix, c, sg, N)
<1> DEFINE S == {n \in Nat : \E g : Adjusting(g, u, p, ix, c, sg, n)}
<1>1. 0 \in S
  <2> DEFINE z == [m \in 0 .. 0 |-> [err |-> FALSE, undo |-> u, n |-> 0]]
  <2>1. Adjusting(z, u, p, ix, c, sg, 0)
    BY DEF Adjusting
  <2> QED
    BY <2>1
<1>2. ASSUME NEW n \in 1 .. N, n - 1 \in S PROVE n \in S
  <2>1. PICK g : Adjusting(g, u, p, ix, c, sg, n - 1)
    BY <1>2
  <2> DEFINE h == [m \in 0 .. n |-> IF m = n THEN AdjustOne(g[n - 1], p, ix, c[m], sg) ELSE g[m]]
  <2>2. \A m \in 0 .. n - 1 : g[m] = IF m = 0 THEN NoAdj(u) ELSE AdjustOne(g[m - 1], p, ix, c[m], sg)
    BY <2>1 DEF Adjusting, NoAdj
  <2>3. \A m \in 0 .. n : h[m] = IF m = 0 THEN NoAdj(u) ELSE AdjustOne(h[m - 1], p, ix, c[m], sg)
    <3> TAKE m \in 0 .. n
    <3>1. CASE m = n
      BY <3>1
    <3>2. CASE m # n
      <4>1. m \in 0 .. n - 1 /\ h[m] = g[m]
        BY <3>2
      <4>2. m # 0 => m - 1 \in 0 .. n - 1 /\ h[m - 1] = g[m - 1]
        BY <3>2
      <4> QED
        BY <2>2, <4>1, <4>2
    <3> QED
      BY <3>1, <3>2
  <2>4. Adjusting(h, u, p, ix, c, sg, n)
    BY <2>3 DEF Adjusting, NoAdj
  <2> QED
    BY <2>4
<1>3. 0 .. N \subseteq S
  <2> HIDE DEF S
  <2> QED
    BY <1>1, <1>2, LoopInduction
<1> QED
  BY <1>3

\* So does AdjustAll, in these stages.
LEMMA AdjustAllAdjusts ==
  ASSUME NEW u, NEW p, NEW ix, NEW c, NEW sg, NEW N \in Nat, Len(c) = N
  PROVE  \E g : AdjustAll(u, p, ix, c, sg) = g[N] /\ AdjustsAll(g, u, p, ix, c, sg, N)
<1>1. \E g : Adjusting(g, u, p, ix, c, sg, N)
  BY AdjustingExists
<1>2. PICK g : Adjusting(g, u, p, ix, c, sg, N) /\ AdjustAll(u, p, ix, c, sg) = g[N]
  <2>1. AdjustAll(u, p, ix, c, sg) = (CHOOSE g : Adjusting(g, u, p, ix, c, sg, Len(c)))[Len(c)]
    BY Zenon DEF AdjustAll, Adjusting
  <2> QED
    BY <1>1, <2>1
<1>3. g = [m \in 0 .. N |-> IF m = 0 THEN NoAdj(u) ELSE AdjustOne(g[m - 1], p, ix, c[m], sg)]
  BY <1>2 DEF Adjusting, NoAdj
<1>4. g[0] = NoAdj(u) /\ \A m \in 1 .. N : g[m] = AdjustOne(g[m - 1], p, ix, c[m], sg)
  BY <1>3
<1> QED
  BY <1>2, <1>4 DEF AdjustsAll

\* The operation o has something to be taken back.
Undone(o) == o.undo /\ o.op # 0

\* From x to y by an adjustment for the operation o, with the sign sg.
Stepped(x, y, p, A, ix, o, sg) ==
  /\ y \in AdjRec
  /\ x.err => y = x
  /\ ~x.err /\ ~Undone(o) => y.err = FALSE /\ y.undo = x.undo /\ y.n = x.n + 1
  /\ ~x.err /\ Undone(o) => /\ Adjusts(y, x.undo, p, A, ix, o.num, sg * o.op)
                            /\ y.n = IF y.err THEN x.n ELSE x.n + 1

LEMMA AdjustOneOK ==
  ASSUME NEW A, NEW x \in AdjRec, VecsOK(x.undo, A), NEW p \in Proc, NEW ix \in Ix, A[ix].alloc,
         NEW o \in Sembuf, o.num < A[ix].n, NEW sg \in {1, -1}, NEW y, y = AdjustOne(x, p, ix, o, sg)
  PROVE  Stepped(x, y, p, A, ix, o, sg)
<1>1. PICK a, d : d = sg * o.op /\ a = semundo_adjust(x.undo, p, ix, o.num, d)
  OBVIOUS
<1>2. y = IF x.err THEN x ELSE IF ~Undone(o) THEN [x EXCEPT !.n = @ + 1]
          ELSE [err |-> a.err, undo |-> a.undo, n |-> IF a.err THEN x.n ELSE x.n + 1]
  BY <1>1 DEF AdjustOne, Undone
<1>3. o.num \in Nat /\ o.op \in Int /\ x.err \in BOOLEAN /\ x.n \in Nat
  BY DEF Sembuf, AdjRec
<1>4. d \in Int /\ (o.op # 0 => d # 0)
  <2>1. CASE sg = 1
    BY <1>1, <1>3, <2>1
  <2>2. CASE sg = -1
    BY <1>1, <1>3, <2>2
  <2> QED
    BY <2>1, <2>2
<1>5. CASE x.err
  BY <1>2, <1>5 DEF Stepped
<1>6. CASE ~x.err /\ ~Undone(o)
  <2>1. y = [err |-> x.err, undo |-> x.undo, n |-> x.n + 1]
    BY <1>2, <1>6 DEF AdjRec
  <2>2. y \in AdjRec
    BY <1>3, <2>1 DEF AdjRec
  <2> QED
    BY <1>6, <2>1, <2>2 DEF Stepped
<1>7. CASE ~x.err /\ Undone(o)
  <2>1. Adjusts(a, x.undo, p, A, ix, o.num, d)
    BY <1>1, <1>3, <1>4, <1>7, AdjustOK DEF Undone
  <2>2. y = [err |-> a.err, undo |-> a.undo, n |-> IF a.err THEN x.n ELSE x.n + 1]
    BY <1>2, <1>7
  <2>3. y.err = a.err /\ y.undo = a.undo /\ y.n = IF a.err THEN x.n ELSE x.n + 1
    BY <2>2
  <2>4. Adjusts(y, x.undo, p, A, ix, o.num, d)
    BY <2>1, <2>3 DEF Adjusts
  <2>5. y \in AdjRec
    <3>1. a.err \in BOOLEAN /\ a.undo \in [Proc -> Seq(Entry) \cup {NoVector}]
      BY <2>1 DEF Adjusts, VecsOK
    <3>2. (IF a.err THEN x.n ELSE x.n + 1) \in Nat
      BY <1>3
    <3> QED
      BY <2>2, <3>1, <3>2 DEF AdjRec
  <2> QED
    BY <1>1, <1>7, <2>3, <2>4, <2>5 DEF Stepped
<1> QED
  BY <1>5, <1>6, <1>7

\* The operations of a vector are about semaphores that exist.
OpsFit(c, A, ix) == c \in Seq(Sembuf) /\ \A m \in 1 .. Len(c) : c[m].num < A[ix].n

\* Stages: as long as all goes well they count, and a failure keeps what there was.
LEMMA AdjustStages ==
  ASSUME NEW A, NEW u, VecsOK(u, A), NEW p \in Proc, NEW ix \in Ix, A[ix].alloc,
         NEW c, OpsFit(c, A, ix), NEW sg \in {1, -1}, NEW N \in Nat, Len(c) = N,
         NEW g, AdjustsAll(g, u, p, ix, c, sg, N)
  PROVE  /\ \A m \in 0 .. N : /\ g[m] \in AdjRec /\ VecsOK(g[m].undo, A) /\ Beside(u, g[m].undo, p)
                              /\ g[m].n <= m /\ (~g[m].err => g[m].n = m)
                              /\ g[m].err => g[m].n < m /\ ~g[g[m].n].err /\ g[m].undo = g[g[m].n].undo
         /\ \A m \in 1 .. N : Stepped(g[m - 1], g[m], p, A, ix, c[m], sg)
<1> DEFINE Good(m) == /\ g[m] \in AdjRec /\ VecsOK(g[m].undo, A) /\ Beside(u, g[m].undo, p)
                      /\ g[m].n <= m /\ (~g[m].err => g[m].n = m)
                      /\ g[m].err => g[m].n < m /\ ~g[g[m].n].err /\ g[m].undo = g[g[m].n].undo
           S == {m \in 0 .. N : Good(m)}
<1>1. 0 \in S
  <2>1. g[0] = [err |-> FALSE, undo |-> u, n |-> 0]
    BY DEF NoAdj, AdjustsAll
  <2>2. g[0] \in AdjRec
    BY <2>1 DEF AdjRec, VecsOK
  <2>3. Beside(u, u, p)
    BY DEF Beside
  <2> QED
    BY <2>1, <2>2, <2>3
<1>2. ASSUME NEW m \in 1 .. N, m - 1 \in S
      PROVE  Stepped(g[m - 1], g[m], p, A, ix, c[m], sg) /\ m \in S
  <2>1. PICK x, y, o : x = g[m - 1] /\ y = g[m] /\ o = c[m]
    OBVIOUS
  <2>2. /\ x \in AdjRec /\ VecsOK(x.undo, A) /\ Beside(u, x.undo, p)
        /\ x.n <= m - 1 /\ (~x.err => x.n = m - 1)
        /\ x.err => x.n < m - 1 /\ ~g[x.n].err /\ x.undo = g[x.n].undo
    BY <1>2, <2>1
  <2>3. o \in Sembuf /\ o.num < A[ix].n
    BY <2>1 DEF OpsFit
  <2>4. y = AdjustOne(x, p, ix, o, sg)
    BY <2>1 DEF AdjustsAll
  <2>5. Stepped(x, y, p, A, ix, o, sg)
    BY <2>2, <2>3, <2>4, AdjustOneOK
  <2>6. x.n \in Nat /\ y \in AdjRec /\ x.err \in BOOLEAN /\ y.err \in BOOLEAN
    BY <2>2, <2>5 DEF Stepped, AdjRec
  <2>7. CASE x.err
    <3>1. y = x
      BY <2>5, <2>7 DEF Stepped
    <3>2. x.n < m /\ x.n <= m
      BY <2>2, <2>6, <2>7
    <3>3. /\ y \in AdjRec /\ VecsOK(y.undo, A) /\ Beside(u, y.undo, p)
          /\ y.n <= m /\ y.err /\ y.n < m /\ ~g[y.n].err /\ y.undo = g[y.n].undo
      BY <2>2, <2>7, <3>1, <3>2
    <3> QED
      BY <2>1, <2>5, <3>3
  <2>8. CASE ~x.err /\ ~Undone(o)
    <3>1. y.err = FALSE /\ y.undo = x.undo /\ y.n = x.n + 1
      BY <2>5, <2>8 DEF Stepped
    <3> QED
      BY <2>1, <2>2, <2>5, <2>6, <2>8, <3>1
  <2>9. CASE ~x.err /\ Undone(o)
    <3>1. Adjusts(y, x.undo, p, A, ix, o.num, sg * o.op) /\ y.n = IF y.err THEN x.n ELSE x.n + 1
      BY <2>5, <2>9 DEF Stepped
    <3>2. VecsOK(y.undo, A) /\ Beside(x.undo, y.undo, p) /\ (y.err => y.undo = x.undo)
      BY <3>1 DEF Adjusts
    <3>3. Beside(u, y.undo, p)
      BY <2>2, <3>2, BesideTwice
    <3>4. x.n = m - 1
      BY <2>2, <2>9
    <3>5. CASE y.err
      <4>1. y.n = m - 1 /\ y.undo = x.undo /\ ~x.err
        BY <2>9, <3>1, <3>2, <3>4, <3>5
      <4> QED
        BY <2>1, <2>5, <2>6, <3>2, <3>3, <3>5, <4>1
    <3>6. CASE ~y.err
      <4>1. y.n = m
        BY <3>1, <3>4, <3>6
      <4> QED
        BY <2>1, <2>5, <2>6, <3>2, <3>3, <3>6, <4>1
    <3> QED
      BY <3>5, <3>6
  <2> QED
    BY <2>6, <2>7, <2>8, <2>9
<1>3. 0 .. N \subseteq S
  <2> HIDE DEF S
  <2> QED
    BY <1>1, <1>2, LoopInduction
<1>4. \A m \in 1 .. N : m - 1 \in 0 .. N
  OBVIOUS
<1>5. \A m \in 1 .. N : m - 1 \in S
  <2> HIDE DEF S
  <2> QED
    BY <1>3, <1>4
<1> QED
  BY <1>2, <1>3, <1>5

\* What p holds is in order, and no more than fits into a vector.
LEMMA HeldOK ==
  ASSUME NEW A, NEW u, VecsOK(u, A), NEW p \in Proc
  PROVE  /\ Entries(Held(u, p)) /\ IsFiniteSet(Held(u, p)) /\ Cardinality(Held(u, p)) <= SEMUME
         /\ u[p] # NoVector => Cardinality(Held(u, p)) = Len(u[p])
<1>1. CASE u[p] = NoVector
  <2>1. Held(u, p) = {}
    BY <1>1 DEF Held
  <2>2. Cardinality(Held(u, p)) <= SEMUME
    BY <2>1, FS_EmptySet, SysVSemAssumption
  <2> QED
    BY <1>1, <2>1, <2>2, FS_EmptySet DEF Entries
<1>2. CASE u[p] # NoVector
  <2>1. u[p] \in Seq(Entry) /\ VecOK(u[p], A)
    BY <1>2 DEF VecsOK
  <2>2. Entries(Content(u[p])) /\ IsFiniteSet(Content(u[p])) /\ Cardinality(Content(u[p])) = Len(u[p])
    BY <2>1, ContentEntries, ContentSize
  <2>3. Len(u[p]) <= SEMUME
    BY <2>1 DEF VecOK
  <2> QED
    BY <1>2, <2>2, <2>3 DEF Held
<1> QED
  BY <1>1, <1>2

\* From x to y by an operation, and from z to w by taking it back: z has what y had, so
\* that there is room, and w has what x had.
LEMMA StepBack ==
  ASSUME NEW A, NEW p \in Proc, NEW ix \in Ix, NEW o \in Sembuf, NEW x, NEW y, NEW z, NEW w,
         Stepped(x, y, p, A, ix, o, -1), Stepped(z, w, p, A, ix, o, 1), ~x.err, ~y.err, ~z.err,
         VecsOK(x.undo, A), VecsOK(z.undo, A),
         Held(z.undo, p) = Held(y.undo, p), y.undo[p] # NoVector => z.undo[p] # NoVector
  PROVE  /\ ~w.err /\ Held(w.undo, p) = Held(x.undo, p)
         /\ x.undo[p] # NoVector => w.undo[p] # NoVector
<1>1. CASE ~Undone(o)
  <2>1. y.undo = x.undo /\ w.err = FALSE /\ w.undo = z.undo
    BY <1>1 DEF Stepped
  <2> QED
    BY <2>1
<1>2. CASE Undone(o)
  <2>1. PICK d, k, ux, uy, uz : d = (-1) * o.op /\ k = 1 * o.op /\ ux = x.undo /\ uy = y.undo /\ uz = z.undo
    OBVIOUS
  <2>2. o.op \in Int /\ o.op # 0 /\ o.num \in Nat /\ ix \in Nat
    BY <1>2, SysVSemAssumption DEF Sembuf, Undone, Ix
  <2>3. d \in Int /\ d # 0 /\ k \in Int /\ k # 0 /\ k = -d
    BY <2>1, <2>2
  <2>4. Adjusts(y, ux, p, A, ix, o.num, d) /\ Adjusts(w, uz, p, A, ix, o.num, k)
    BY <1>2, <2>1 DEF Stepped
  <2>5. uy[p] # NoVector /\ Adjustment(Held(ux, p), Held(uy, p), ix, o.num, d) /\ Beside(ux, uy, p)
    BY <2>1, <2>4 DEF Adjusts
  <2>6. uz[p] # NoVector /\ Held(uz, p) = Held(uy, p)
    BY <2>1, <2>5
  <2>7. /\ Entries(Held(ux, p)) /\ IsFiniteSet(Held(ux, p)) /\ Cardinality(Held(ux, p)) <= SEMUME
        /\ Cardinality(Held(uz, p)) = Len(uz[p])
    BY <2>1, <2>6, HeldOK
  <2>8. ASSUME w.err PROVE FALSE
    <3>1. Len(uz[p]) = SEMUME /\ NoneAbout(uz[p], ix, o.num)
      BY <2>4, <2>6, <2>8 DEF Adjusts
    <3>2. \A e \in Held(uz, p) : ~About(e, ix, o.num)
      BY <2>6, <3>1 DEF Held, Content, NoneAbout
    <3>3. PICK e \in Held(ux, p) : Held(uy, p) = Held(ux, p) \ {e}
      <4>1. ASSUME NEW e \in Held(ux, p),
                   Held(uy, p) = (Held(ux, p) \ {e}) \cup {[ix |-> ix, num |-> o.num, adj |-> e.adj + d]}
            PROVE  FALSE
        <5>1. PICK q : q = [ix |-> ix, num |-> o.num, adj |-> e.adj + d]
          OBVIOUS
        <5>2. q \in Held(uz, p) /\ About(q, ix, o.num)
          BY <2>6, <4>1, <5>1 DEF About
        <5> QED
          BY <3>2, <5>2
      <4>2. ASSUME Held(uy, p) = Held(ux, p) \cup {[ix |-> ix, num |-> o.num, adj |-> d]} PROVE FALSE
        <5>1. PICK q : q = [ix |-> ix, num |-> o.num, adj |-> d]
          OBVIOUS
        <5>2. q \in Held(uz, p) /\ About(q, ix, o.num)
          BY <2>6, <4>2, <5>1 DEF About
        <5> QED
          BY <3>2, <5>2
      <4> QED
        BY <2>5, <4>1, <4>2 DEF Adjustment
    <3>4. Cardinality(Held(uy, p)) = Cardinality(Held(ux, p)) - 1
      BY <2>7, <3>3, FS_RemoveElement
    <3>5. Cardinality(Held(ux, p)) \in Nat
      BY <2>7, FS_CardinalityType
    <3> QED
      BY <2>6, <2>7, <3>1, <3>4, <3>5, SysVSemAssumption
  <2>9. PICK uw : uw = w.undo
    OBVIOUS
  <2>10. uw[p] # NoVector /\ Adjustment(Held(uz, p), Held(uw, p), ix, o.num, k)
    BY <2>4, <2>8, <2>9 DEF Adjusts
  <2>11. Held(uw, p) = Held(ux, p)
    BY <2>2, <2>3, <2>5, <2>6, <2>7, <2>10, AdjustmentBack
  <2> QED
    BY <2>1, <2>8, <2>9, <2>10, <2>11
<1> QED
  BY <1>1, <1>2

\* The vectors stay in order whatever a finished vector of operations does to them, and
\* undos can be undone.
LEMMA UndosOK ==
  ASSUME NEW A, VecsOK(undo, A), NEW p \in Proc, NEW ix \in Ix, A[ix].alloc, NEW c, OpsFit(c, A, ix),
         NEW un, un = Undos(p, ix, c)
  PROVE  VecsOK(un.undo, A) /\ Beside(undo, un.undo, p) /\ un.n # -1 /\ un.err \in BOOLEAN
<1>1. PICK f : f = AdjustAll(undo, p, ix, c, -1)
  OBVIOUS
<1>2. PICK N : N = Len(c) /\ N \in Nat
  BY DEF OpsFit
<1>3. PICK g : f = g[N] /\ AdjustsAll(g, undo, p, ix, c, -1, N)
  BY <1>1, <1>2, AdjustAllAdjusts
<1>4. /\ \A m \in 0 .. N : /\ g[m] \in AdjRec /\ VecsOK(g[m].undo, A) /\ Beside(undo, g[m].undo, p)
                           /\ g[m].n <= m /\ (~g[m].err => g[m].n = m)
                           /\ g[m].err => g[m].n < m /\ ~g[g[m].n].err /\ g[m].undo = g[g[m].n].undo
      /\ \A m \in 1 .. N : Stepped(g[m - 1], g[m], p, A, ix, c[m], -1)
  <2>1. -1 \in {1, -1}
    OBVIOUS
  <2> QED
    BY <1>2, <1>3, <2>1, AdjustStages
<1>5. f \in AdjRec /\ VecsOK(f.undo, A) /\ Beside(undo, f.undo, p) /\ f.err \in BOOLEAN /\ f.n \in Nat
  <2>1. N \in 0 .. N
    BY <1>2
  <2> QED
    BY <1>3, <1>4, <2>1 DEF AdjRec
<1>6. CASE ~f.err
  <2>1. un = f
    BY <1>1, <1>6 DEF Undos
  <2> QED
    BY <1>5, <2>1
<1>7. CASE f.err
  <2>1. PICK k : k = f.n
    OBVIOUS
  <2>2. k \in Nat /\ k < N /\ ~g[k].err /\ f.undo = g[k].undo
    <3>1. N \in 0 .. N
      BY <1>2
    <3> QED
      BY <1>3, <1>4, <1>5, <1>7, <2>1, <3>1
  <2>3. PICK r : r = Reverse(SubSeq(c, 1, k))
    OBVIOUS
  <2>4. Len(r) = k /\ DOMAIN r = 1 .. k /\ r = [j \in 1 .. k |-> r[j]] /\ \A j \in 1 .. k : r[j] = c[k + 1 - j]
    <3>1. PICK s : s = SubSeq(c, 1, k)
      OBVIOUS
    <3>2. Len(s) = k /\ \A j \in 1 .. k : s[j] = c[j]
      BY <1>2, <2>2, <3>1 DEF OpsFit
    <3>3. r = [i \in 1 .. k |-> s[(k - i) + 1]]
      BY <2>3, <3>1, <3>2 DEF Reverse
    <3>4. \A j \in 1 .. k : (k - j) + 1 \in 1 .. k /\ (k - j) + 1 = k + 1 - j
      BY <2>2
    <3> QED
      <4>1. Len(r) = k /\ r = [j \in 1 .. k |-> r[j]]
        BY <2>2, <3>3
      <4> QED
        BY <3>2, <3>3, <3>4, <4>1
  <2>5. OpsFit(r, A, ix)
    <3>1. \A j \in 1 .. k : k + 1 - j \in 1 .. N
      BY <1>2, <2>2
    <3>2. \A m \in 1 .. N : c[m] \in Sembuf /\ c[m].num < A[ix].n
      BY <1>2 DEF OpsFit
    <3>3. \A j \in 1 .. k : r[j] \in Sembuf /\ r[j].num < A[ix].n
      BY <2>4, <3>1, <3>2
    <3>4. r \in Seq(Sembuf)
      BY <2>2, <2>4, <3>3
    <3> QED
      BY <2>4, <3>3, <3>4 DEF OpsFit
  <2>6. PICK v, b : v = f.undo /\ b = AdjustAll(v, p, ix, r, 1)
    OBVIOUS
  <2>7. un = [err |-> TRUE, undo |-> b.undo, n |-> IF b.err THEN -1 ELSE 0]
    BY <1>1, <1>7, <2>1, <2>3, <2>6 DEF Undos
  <2>8. PICK h : b = h[k] /\ AdjustsAll(h, v, p, ix, r, 1, k)
    <3>1. k \in Nat /\ Len(r) = k
      BY <2>2, <2>4
    <3> QED
      BY <2>6, <3>1, AdjustAllAdjusts
  <2>9. /\ \A m \in 0 .. k : VecsOK(h[m].undo, A) /\ Beside(f.undo, h[m].undo, p)
        /\ \A m \in 1 .. k : Stepped(h[m - 1], h[m], p, A, ix, r[m], 1)
    <3>1. 1 \in {1, -1}
      OBVIOUS
    <3> QED
      <4>2. VecsOK(v, A)
        BY <1>5, <2>6
      <4>3. AdjustsAll(h, v, p, ix, r, 1, k)
        BY <2>8
      <4>4. /\ \A m \in 0 .. k : VecsOK(h[m].undo, A) /\ Beside(v, h[m].undo, p)
            /\ \A m \in 1 .. k : Stepped(h[m - 1], h[m], p, A, ix, r[m], 1)
        <5>1. k \in Nat /\ Len(r) = k
          BY <2>2, <2>4
        <5> QED
          BY <2>5, <3>1, <4>2, <4>3, <5>1, AdjustStages
      <4> QED
        BY <2>6, <4>4
  <2>10. \A m \in 0 .. k : ~g[m].err
    <3> DEFINE R == {j \in 0 .. k : ~g[k - j].err}
    <3>1. 0 \in R
      BY <2>2
    <3>2. ASSUME NEW j \in 1 .. k, j - 1 \in R PROVE j \in R
      <4>1. PICK m : m = k - (j - 1)
        OBVIOUS
      <4>2. m \in 1 .. N /\ k - j = m - 1 /\ ~g[m].err /\ j \in 0 .. k
        <5>1. ~g[m].err
          BY <3>2, <4>1
        <5>2. k - j = m - 1 /\ j \in 0 .. k /\ m \in 1 .. N
          BY ONLY <1>2, <2>2, <4>1, j \in 1 .. k
        <5> QED
          BY <5>1, <5>2
      <4>3. g[m - 1].err => g[m] = g[m - 1]
        BY <1>4, <4>2 DEF Stepped
      <4> QED
        BY <4>2, <4>3
    <3>3. 0 .. k \subseteq R
      <4> HIDE DEF R
      <4> QED
        BY <2>2, <3>1, <3>2, LoopInduction
    <3>4. \A m \in 0 .. k : k - m \in 0 .. k /\ k - (k - m) = m
      BY <2>2
    <3>5. \A m \in 0 .. k : k - m \in R
      <4> HIDE DEF R
      <4> QED
        BY <3>3, <3>4
    <3> QED
      BY <3>4, <3>5
  <2> DEFINE Same(j) == /\ ~h[j].err /\ Held(h[j].undo, p) = Held(g[k - j].undo, p)
                        /\ g[k - j].undo[p] # NoVector => h[j].undo[p] # NoVector
             S == {j \in 0 .. k : Same(j)}
  <2>11. 0 \in S
    <3>1. h[0].err = FALSE /\ h[0].undo = g[k].undo /\ k - 0 = k /\ 0 \in 0 .. k
      BY <2>2, <2>6, <2>8 DEF NoAdj, AdjustsAll
    <3> QED
      BY <3>1
  <2>12. ASSUME NEW j \in 1 .. k, j - 1 \in S PROVE j \in S
    <3>1. PICK m, o : m = k - (j - 1) /\ o = c[m]
      OBVIOUS
    <3>2. m \in 1 .. N /\ k - j = m - 1 /\ m - 1 \in 0 .. k /\ m \in 0 .. k /\ k + 1 - j = m /\ j - 1 \in 0 .. k /\ j \in 0 .. k
      BY ONLY <1>2, <2>2, <3>1, j \in 1 .. k
    <3>3. PICK x, y, z, w : x = g[m - 1] /\ y = g[m] /\ z = h[j - 1] /\ w = h[j]
      OBVIOUS
    <3>4. o \in Sembuf
      BY <1>2, <3>1, <3>2 DEF OpsFit
    <3>5. Stepped(x, y, p, A, ix, o, -1) /\ ~x.err /\ ~y.err
      BY <1>4, <2>10, <3>1, <3>2, <3>3
    <3>6. r[j] = o
      BY <2>4, <3>1, <3>2
    <3>7. Stepped(z, w, p, A, ix, o, 1)
      BY <2>9, <3>3, <3>6
    <3>8. ~z.err /\ Held(z.undo, p) = Held(y.undo, p) /\ (y.undo[p] # NoVector => z.undo[p] # NoVector)
      BY <2>12, <3>1, <3>3
    <3>9. VecsOK(x.undo, A) /\ VecsOK(z.undo, A)
      <4>1. m - 1 \in 0 .. N
        BY ONLY <1>2, <3>2
      <4> QED
        BY <1>4, <2>9, <3>2, <3>3, <4>1
    <3>10. /\ ~w.err /\ Held(w.undo, p) = Held(x.undo, p)
           /\ x.undo[p] # NoVector => w.undo[p] # NoVector
      BY <3>4, <3>5, <3>7, <3>8, <3>9, StepBack
    <3> QED
      BY <3>2, <3>3, <3>10
  <2>13. 0 .. k \subseteq S
    <3> HIDE DEF S
    <3> QED
      BY <2>2, <2>11, <2>12, LoopInduction
  <2>14. k \in 0 .. k
    BY <2>2
  <2>15. k \in S
    <3> HIDE DEF S
    <3> QED
      BY <2>13, <2>14
  <2>16. ~b.err /\ VecsOK(b.undo, A) /\ Beside(f.undo, b.undo, p)
    BY <2>8, <2>9, <2>14, <2>15
  <2>17. un.n = 0 /\ un.undo = b.undo /\ un.err = TRUE
    BY <2>7, <2>16
  <2>18. Beside(undo, b.undo, p)
    BY <1>5, <2>16, BesideTwice
  <2>19. un.n # -1 /\ un.err \in BOOLEAN
    <3>1. ~(0 = -1)
      OBVIOUS
    <3>2. un.n = 0 /\ un.err = TRUE
      BY <2>17
    <3> QED
      BY <3>1, <3>2, Zenon
  <2> QED
    BY <2>16, <2>17, <2>18, <2>19
<1> QED
  BY <1>5, <1>6, <1>7

-----------------------------------------------------------------------------
(* One turn of semop(), as it looks to everybody else.                      *)

\* The sets and the semaphores.
Arrays(A, m, t) == t \in Nat /\ t <= semmns /\ A \in [Ix -> SetRec] /\ m \in Sems(t) /\ Laid(A, t)

LEMMA Semtot ==
  ASSUME NEW t \in Nat, NEW m \in Sems(t)
  PROVE  Cardinality(DOMAIN m) = t
<1>1. DOMAIN m = 0 .. t - 1
  BY DEF Sems
<1>2. Cardinality(0 .. t - 1) = IF 0 > t - 1 THEN 0 ELSE t - 1 - 0 + 1
  BY FS_Interval
<1> QED
  BY <1>1, <1>2

\* w is m with one more who waits at i because of the operation o.
Bumped(m, w, i, o) ==
  /\ IF o.op = 0 THEN m[i].zcnt < MaxCnt ELSE m[i].ncnt < MaxCnt
  /\ w = IF o.op = 0 THEN [m EXCEPT ![i].zcnt = (@ + 1) % CntMod] ELSE [m EXCEPT ![i].ncnt = (@ + 1) % CntMod]

\* With their counts as x at i.
Counts(m, w, i, z, n) ==
  /\ \A j \in DOMAIN m : w[j].val = m[j].val /\ (j # i => w[j] = m[j])
  /\ w[i].zcnt = z /\ w[i].ncnt = n

LEMMA CountSet ==
  ASSUME NEW t \in Nat, NEW m \in Sems(t), NEW i \in 0 .. t - 1, NEW x \in 0 .. CntMod - 1
  PROVE  /\ [m EXCEPT ![i].zcnt = x] \in Sems(t) /\ Counts(m, [m EXCEPT ![i].zcnt = x], i, x, m[i].ncnt)
         /\ [m EXCEPT ![i].ncnt = x] \in Sems(t) /\ Counts(m, [m EXCEPT ![i].ncnt = x], i, m[i].zcnt, x)
<1>1. PICK e : e = m[i]
  OBVIOUS
<1>2. e \in SemRec /\ DOMAIN m = 0 .. t - 1
  BY <1>1 DEF Sems
<1>3. /\ [e EXCEPT !.zcnt = x] \in SemRec /\ [e EXCEPT !.zcnt = x].val = e.val
      /\ [e EXCEPT !.zcnt = x].ncnt = e.ncnt /\ [e EXCEPT !.zcnt = x].zcnt = x
      /\ [e EXCEPT !.ncnt = x] \in SemRec /\ [e EXCEPT !.ncnt = x].val = e.val
      /\ [e EXCEPT !.ncnt = x].zcnt = e.zcnt /\ [e EXCEPT !.ncnt = x].ncnt = x
  BY <1>2 DEF SemRec
<1>4. PICK y, z : y = [e EXCEPT !.zcnt = x] /\ z = [e EXCEPT !.ncnt = x]
  OBVIOUS
<1>5. [m EXCEPT ![i].zcnt = x] = [m EXCEPT ![i] = y] /\ [m EXCEPT ![i].ncnt = x] = [m EXCEPT ![i] = z]
  BY <1>1, <1>4
<1> QED
  BY <1>1, <1>2, <1>3, <1>4, <1>5 DEF Sems, Counts

LEMMA BumpedOK ==
  ASSUME NEW t \in Nat, NEW m \in Sems(t), NEW i \in 0 .. t - 1, NEW o, NEW w, Bumped(m, w, i, o)
  PROVE  /\ w \in Sems(t)
         /\ o.op = 0 => Counts(m, w, i, m[i].zcnt + 1, m[i].ncnt)
         /\ o.op # 0 => Counts(m, w, i, m[i].zcnt, m[i].ncnt + 1)
<1>1. PICK z, n : z = m[i].zcnt /\ n = m[i].ncnt
  OBVIOUS
<1>2. z \in 0 .. CntMod - 1 /\ n \in 0 .. CntMod - 1
  BY <1>1 DEF Sems, SemRec
<1>3. CntMod \in Nat /\ MaxCnt \in Nat /\ MaxCnt <= CntMod - 1
  BY SysVSemAssumption
<1>4. CASE o.op = 0
  <2>1. z < MaxCnt /\ w = [m EXCEPT ![i].zcnt = (z + 1) % CntMod]
    BY <1>1, <1>4 DEF Bumped
  <2>2. (z + 1) % CntMod = z + 1 /\ z + 1 \in 0 .. CntMod - 1
    BY <1>2, <1>3, <2>1
  <2>3. PICK x : x = z + 1
    OBVIOUS
  <2>4. w = [m EXCEPT ![i].zcnt = x] /\ x \in 0 .. CntMod - 1
    BY <2>1, <2>2, <2>3
  <2>5. w \in Sems(t) /\ Counts(m, w, i, x, m[i].ncnt)
    BY <2>4, CountSet
  <2> QED
    BY <1>1, <1>4, <2>3, <2>5
<1>5. CASE o.op # 0
  <2>1. n < MaxCnt /\ w = [m EXCEPT ![i].ncnt = (n + 1) % CntMod]
    BY <1>1, <1>5 DEF Bumped
  <2>2. (n + 1) % CntMod = n + 1 /\ n + 1 \in 0 .. CntMod - 1
    BY <1>2, <1>3, <2>1
  <2>3. PICK x : x = n + 1
    OBVIOUS
  <2>4. w = [m EXCEPT ![i].ncnt = x] /\ x \in 0 .. CntMod - 1
    BY <2>1, <2>2, <2>3
  <2>5. w \in Sems(t) /\ Counts(m, w, i, m[i].zcnt, x)
    BY <2>4, CountSet
  <2> QED
    BY <1>1, <1>5, <2>3, <2>5
<1> QED
  BY <1>4, <1>5

\* p goes to sleep in the call c, at its m-th operation.
Sleeps(p, c, s, sems, m, at) ==
  /\ at = s.base + c.sops[m].num
  /\ \A j \in 1 .. m : c.sops[j].num < s.n
  /\ Distinct(c.sops) => Stops(c.sops[m], sems[at])
  /\ Bumped(sems, sem', at, c.sops[m])
  /\ pc' = [pc EXCEPT ![p] = "semwait"]
  /\ call' = [call EXCEPT ![p] = [c EXCEPT !.ptr = at, !.at = m]]
  /\ undo' = undo

\* No semaphore is named twice, and none is changed before one further up is named, so
\* that EFBIG comes before anything is done.
Plain(sops) ==
  /\ \A i, j \in 1 .. Len(sops) : sops[i].num = sops[j].num => i = j
  /\ \A i, j \in 1 .. Len(sops) : i < j /\ sops[i].num < sops[j].num => sops[i].op = 0

\* p returns from the call c, after n of its operations, and wakes the sleepers on the set.
Returns(p, c, s, sems, n, w) ==
  /\ Changed(s, sems, c.sops, n, sem')
  /\ Plain(c.sops) => \A j \in 1 .. n : Wakes(c.sops[j], sems[s.base + c.sops[j].num]) => w = "wake"
  /\ pc' = IF w = "wake" THEN WakeSets(Return(p), {c.id[1]}) ELSE Return(p)
  /\ call' = [call EXCEPT ![p] = NoCall]

Turned(p, c, sems) ==
  /\ sem' \in Sems(semtot) /\ VecsOK(undo', sema) /\ Beside(undo, undo', p)
  /\ panicked' = panicked \/ panicked' = FALSE
  /\ \/ \E m \in 1 .. Len(c.sops), at \in 0 .. semtot - 1 : Sleeps(p, c, sema[c.id[1]], sems, m, at)
     \/ \E n \in 0 .. Len(c.sops), w \in {"wake", "quiet"} : Returns(p, c, sema[c.id[1]], sems, n, w)

\* Nothing is changed by no operation.
LEMMA ChangedNot == ASSUME NEW s, NEW sems, NEW sops PROVE Changed(s, sems, sops, 0, sems)
  BY DEF Changed

LEMMA ReturnsQuiet ==
  ASSUME NEW p, NEW c, c.sops \in Seq(Sembuf), NEW s, NEW sems, sem' = sems, pc' = Return(p), call' = [call EXCEPT ![p] = NoCall]
  PROVE  \E n \in 0 .. Len(c.sops), w \in {"wake", "quiet"} : Returns(p, c, s, sems, n, w)
<1>1. 0 \in 0 .. Len(c.sops) /\ "quiet" \in {"wake", "quiet"} /\ "quiet" # "wake"
  OBVIOUS
<1>2. Changed(s, sems, c.sops, 0, sem')
  BY ChangedNot
<1>3. Returns(p, c, s, sems, 0, "quiet")
  BY <1>1, <1>2 DEF Returns
<1> QED
  BY <1>1, <1>3

\* The vector that EFBIG ends before it has done anything.
LEMMA PlainTooBig ==
  ASSUME NEW s \in SetRec, NEW sops \in Seq(Sembuf), Plain(sops), NEW n \in Nat, n < Len(sops),
         \A j \in 1 .. n : sops[j].num < s.n, sops[n + 1].num >= s.n
  PROVE  \A j \in 1 .. n : sops[j].op = 0
<1> SUFFICES ASSUME NEW j \in 1 .. n PROVE sops[j].op = 0
  OBVIOUS
<1>1. PICK k, a, b, l : k = n + 1 /\ a = sops[j].num /\ b = sops[k].num /\ l = s.n
  OBVIOUS
<1>2. j \in 1 .. Len(sops) /\ k \in 1 .. Len(sops) /\ j < k
  BY <1>1
<1>3. a \in Nat /\ b \in Nat /\ l \in Nat
  <2>1. sops[j] \in Sembuf /\ sops[k] \in Sembuf
    BY <1>2
  <2> QED
    BY <1>1, <2>1 DEF Sembuf, SetRec
<1>4. a < l /\ b >= l
  BY <1>1
<1>5. a < b
  BY ONLY <1>3, <1>4
<1> QED
  BY <1>1, <1>2, <1>5 DEF Plain

LEMMA TurnOK ==
  ASSUME Arrays(sema, sem, semtot), VecsOK(undo, sema), NEW p \in Proc, NEW c \in CallRec, Live(c.id),
         NEW sems \in Sems(semtot), Turn(p, c, sems)
  PROVE  Turned(p, c, sems)
<1>1. PICK ix, s, r, t, sops : ix = c.id[1] /\ s = sema[ix] /\ r = Try(s, sems, sops) /\ t = semtot /\ sops = c.sops
  OBVIOUS
<1>2. ix \in Ix /\ sops \in Seq(Sembuf)
  BY <1>1 DEF CallRec
<1>3. t \in Nat /\ s \in SetRec /\ sems \in Sems(t) /\ s.alloc /\ s.base + s.n <= t
  BY <1>1, <1>2 DEF Arrays, Live, Laid
<1>4. r \in TryRec(t) /\ Tried(s, sems, sops, Len(sops), r)
  BY <1>1, <1>2, <1>3, TryOK
<1>5. Rollback(s, r.sem, SubSeq(sops, 1, r.n)) = sems
  BY <1>1, <1>2, <1>3, RollbackIs
<1>6. /\ r.n \in Nat /\ r.end \in {"none", "wait", "EFBIG"} /\ r.sem \in Sems(t) /\ r.wake \in BOOLEAN
      /\ r.n <= Len(sops) /\ (r.end = "none" <=> r.n = Len(sops)) /\ Len(sops) \in Nat
      /\ Ends(s, sops, r.n, r.end, r.sem) /\ Changed(s, sems, sops, r.n, r.sem) /\ Alarmed(s, sems, sops, r)
  BY <1>2, <1>4 DEF TryRec, Tried
<1>7. \A j \in 1 .. r.n : sops[j].num < s.n
  BY <1>6 DEF Changed
<1>8. PICK un : un = Undos(p, ix, sops)
  OBVIOUS
<1>9. r.end = "none" => VecsOK(un.undo, sema) /\ Beside(undo, un.undo, p) /\ un.n # -1
  <2> SUFFICES ASSUME r.end = "none" PROVE VecsOK(un.undo, sema) /\ Beside(undo, un.undo, p) /\ un.n # -1
    OBVIOUS
  <2>1. OpsFit(sops, sema, ix)
    BY <1>1, <1>2, <1>6, <1>7 DEF OpsFit
  <2>2. sema[ix].alloc
    BY <1>1, <1>3
  <2> QED
    BY <1>2, <1>8, <2>1, <2>2, UndosOK
<1>10. VecsOK(undo, sema) /\ Beside(undo, undo, p)
  BY DEF Beside
<1>11. CASE /\ r.end = "none" /\ ~un.err
            /\ sem' = r.sem /\ undo' = un.undo
            /\ pc' = IF r.wake THEN WakeSets(Return(p), {ix}) ELSE Return(p)
            /\ call' = [call EXCEPT ![p] = NoCall]
            /\ UNCHANGED panicked
  <2>1. PICK w : w = IF r.wake THEN "wake" ELSE "quiet"
    OBVIOUS
  <2>2. w \in {"wake", "quiet"} /\ (w = "wake" <=> r.wake)
    BY <1>6, <2>1
  <2>3. Returns(p, c, s, sems, r.n, w)
    <3>1. Plain(sops) => \A j \in 1 .. r.n : Wakes(sops[j], sems[s.base + sops[j].num]) => w = "wake"
      <4>1. Plain(sops) => Distinct(sops)
        BY DEF Plain, Distinct
      <4> QED
        BY <1>6, <2>2, <4>1 DEF Alarmed
    <3>2. pc' = IF w = "wake" THEN WakeSets(Return(p), {ix}) ELSE Return(p)
      BY <1>11, <2>2
    <3> QED
      BY <1>1, <1>6, <1>11, <3>1, <3>2 DEF Returns
  <2>4. r.n \in 0 .. Len(c.sops)
    BY <1>1, <1>6
  <2> QED
    BY <1>1, <1>6, <1>9, <1>11, <2>2, <2>3, <2>4 DEF Turned
<1>12. CASE /\ r.end = "none" /\ un.err
            /\ sem' = sems /\ undo' = un.undo
            /\ panicked' = (un.n = -1)
            /\ pc' = Return(p) /\ call' = [call EXCEPT ![p] = NoCall]
  <2>1. panicked' = FALSE
    BY <1>9, <1>12
  <2>2. \E n \in 0 .. Len(c.sops), w \in {"wake", "quiet"} : Returns(p, c, s, sems, n, w)
    BY <1>1, <1>2, <1>12, ReturnsQuiet
  <2> QED
    BY <1>1, <1>3, <1>9, <1>12, <2>1, <2>2 DEF Turned
<1>13. CASE \E b : /\ r.end = "wait" /\ b = sops[r.n + 1]
                   /\ Bumped(sems, sem', s.base + b.num, b)
                   /\ pc' = [pc EXCEPT ![p] = "semwait"]
                   /\ call' = [call EXCEPT ![p] = [c EXCEPT !.ptr = s.base + b.num, !.at = r.n + 1]]
                   /\ UNCHANGED <<undo, given, panicked>>
  <2>1. PICK m, at : m = r.n + 1 /\ at = s.base + sops[m].num
    OBVIOUS
  <2>2. /\ r.end = "wait" /\ Bumped(sems, sem', at, sops[m])
        /\ pc' = [pc EXCEPT ![p] = "semwait"]
        /\ call' = [call EXCEPT ![p] = [c EXCEPT !.ptr = at, !.at = m]]
        /\ undo' = undo /\ panicked' = panicked
    BY <1>13, <2>1
  <2>3. m \in 1 .. Len(sops)
    BY <1>6, <2>1, <2>2
  <2>4. sops[m].num < s.n /\ Stops(sops[m], r.sem[at])
    BY <1>6, <2>1, <2>2 DEF Ends
  <2>5. sops[m] \in Sembuf
    BY <1>2, <2>3
  <2>6. at \in 0 .. t - 1
    <3>1. PICK x, y, z : x = sops[m].num /\ y = s.base /\ z = s.n
      OBVIOUS
    <3>2. x \in Nat /\ y \in Nat /\ z \in Nat /\ x < z /\ y + z <= t /\ at = y + x
      BY <1>3, <2>1, <2>4, <2>5, <3>1 DEF SetRec, Sembuf
    <3> QED
      BY <1>3, <3>2
  <2>7. \A j \in 1 .. m : sops[j].num < s.n
    <3>1. \A j \in 1 .. m : j \in 1 .. r.n \/ j = m
      BY <1>6, <2>1
    <3> QED
      BY <1>7, <2>4, <3>1
  <2>8. ASSUME Distinct(sops) PROVE Stops(sops[m], sems[at])
    <3>1. at \in DOMAIN sems
      BY <1>3, <2>6 DEF Sems
    <3>2. ASSUME NEW j \in 1 .. r.n PROVE at # s.base + sops[j].num
      <4>1. j \in 1 .. Len(sops) /\ j # m
        BY <1>6, <2>1
      <4>2. sops[j].num # sops[m].num
        BY <2>3, <2>8, <4>1 DEF Distinct
      <4>3. PICK x, y, z : x = sops[m].num /\ y = s.base /\ z = sops[j].num
        OBVIOUS
      <4>4. x \in Nat /\ y \in Nat /\ z \in Nat /\ x # z
        <5>1. sops[j] \in Sembuf
          BY <1>2, <4>1
        <5> QED
          BY <1>3, <2>5, <4>2, <4>3, <5>1 DEF SetRec, Sembuf
      <4>5. y + x # y + z
        BY ONLY <4>4
      <4> QED
        BY <2>1, <4>3, <4>5
    <3>3. r.sem[at].val = sems[at].val
      BY <1>6, <3>1, <3>2 DEF Changed
    <3> QED
      BY <2>4, <3>3 DEF Stops
  <2>9. Sleeps(p, c, s, sems, m, at)
    BY <1>1, <2>1, <2>2, <2>7, <2>8 DEF Sleeps
  <2>10. sem' \in Sems(t)
    BY <1>3, <2>2, <2>6, BumpedOK
  <2> QED
    BY <1>1, <1>10, <2>2, <2>3, <2>6, <2>9, <2>10 DEF Turned
<1>14. CASE /\ r.end = "EFBIG" \/ r.end = "wait"
            /\ sem' = IF r.end = "EFBIG" THEN r.sem ELSE sems
            /\ pc' = Return(p) /\ call' = [call EXCEPT ![p] = NoCall]
            /\ UNCHANGED <<undo, panicked>>
  <2>1. CASE r.end = "EFBIG"
    <3>1. r.n < Len(sops) /\ sops[r.n + 1].num >= s.n
      BY <1>6, <2>1 DEF Ends
    <3>2. Plain(sops) => \A j \in 1 .. r.n : sops[j].op = 0
      BY <1>2, <1>3, <1>6, <1>7, <3>1, PlainTooBig
    <3>3. Plain(sops) => \A j \in 1 .. r.n : Wakes(sops[j], sems[s.base + sops[j].num]) => "quiet" = "wake"
      BY <3>2 DEF Wakes
    <3>4. Returns(p, c, s, sems, r.n, "quiet")
      BY <1>1, <1>6, <1>14, <2>1, <3>3 DEF Returns
    <3>5. r.n \in 0 .. Len(c.sops) /\ "quiet" \in {"wake", "quiet"}
      BY <1>1, <1>6
    <3>6. sem' = r.sem
      BY <1>14, <2>1
    <3> QED
      BY <1>1, <1>6, <1>10, <1>14, <3>4, <3>5, <3>6 DEF Turned
  <2>2. CASE r.end # "EFBIG"
    <3>1. sem' = sems
      BY <1>14, <2>2
    <3>2. \E n \in 0 .. Len(c.sops), w \in {"wake", "quiet"} : Returns(p, c, s, sems, n, w)
      BY <1>1, <1>2, <1>14, <3>1, ReturnsQuiet
    <3> QED
      BY <1>1, <1>3, <1>10, <1>14, <3>1, <3>2 DEF Turned
  <2> QED
    BY <2>1, <2>2
<1> DEFINE b == sops[r.n + 1]
           at == s.base + b.num
           back == Rollback(s, r.sem, SubSeq(sops, 1, r.n))
<1>15. \/ /\ r.end = "none" /\ ~un.err
          /\ sem' = r.sem /\ undo' = un.undo
          /\ pc' = IF r.wake THEN WakeSets(Return(p), {ix}) ELSE Return(p)
          /\ call' = [call EXCEPT ![p] = NoCall]
          /\ UNCHANGED panicked
       \/ /\ r.end = "none" /\ un.err
          /\ sem' = back /\ undo' = un.undo
          /\ panicked' = (un.n = -1)
          /\ pc' = Return(p) /\ call' = [call EXCEPT ![p] = NoCall]
       \/ /\ r.end = "wait"
          /\ IF b.op = 0 THEN back[at].zcnt < MaxCnt ELSE back[at].ncnt < MaxCnt
          /\ sem' = IF b.op = 0 THEN [back EXCEPT ![at].zcnt = (@ + 1) % CntMod]
                                ELSE [back EXCEPT ![at].ncnt = (@ + 1) % CntMod]
          /\ pc' = [pc EXCEPT ![p] = "semwait"]
          /\ call' = [call EXCEPT ![p] = [c EXCEPT !.ptr = at, !.at = r.n + 1]]
          /\ UNCHANGED <<undo, given, panicked>>
       \/ /\ r.end = "EFBIG" \/ r.end = "wait"
          /\ sem' = IF r.end = "EFBIG" THEN r.sem ELSE back
          /\ pc' = Return(p) /\ call' = [call EXCEPT ![p] = NoCall]
          /\ UNCHANGED <<undo, panicked>>
  BY <1>1, <1>8, Zenon DEF Turn
<1>16. back = sems
  BY <1>5
<1>17. ASSUME /\ r.end = "wait"
              /\ IF b.op = 0 THEN back[at].zcnt < MaxCnt ELSE back[at].ncnt < MaxCnt
              /\ sem' = IF b.op = 0 THEN [back EXCEPT ![at].zcnt = (@ + 1) % CntMod]
                                    ELSE [back EXCEPT ![at].ncnt = (@ + 1) % CntMod]
       PROVE  Bumped(sems, sem', at, b)
  BY <1>16, <1>17, Zenon DEF Bumped
<1> HIDE DEF b, at, back
<1> QED
  BY <1>11, <1>12, <1>13, <1>14, <1>15, <1>16, <1>17 DEF b, at

-----------------------------------------------------------------------------
(* Making and removing sets, and setting values.                            *)

\* The sets that the vectors of w are about are in B as they are in A.
SetsSame(w, A, B) ==
  \A p \in Proc : w[p] # NoVector =>
    \A i \in 1 .. Len(w[p]) : B[w[p][i].ix].alloc /\ B[w[p][i].ix].n = A[w[p][i].ix].n

LEMMA VecsCarry ==
  ASSUME NEW A, NEW B, NEW u, VecsOK(u, A), SetsSame(u, A, B)
  PROVE  VecsOK(u, B)
<1>1. ASSUME NEW p \in Proc, u[p] # NoVector PROVE VecOK(u[p], B)
  <2>1. PICK v : v = u[p]
    OBVIOUS
  <2>2. VecOK(v, A) /\ \A i \in 1 .. Len(v) : B[v[i].ix].alloc /\ B[v[i].ix].n = A[v[i].ix].n
    BY <1>1, <2>1 DEF VecsOK, SetsSame
  <2>3. VecOK(v, B)
    BY <2>2 DEF VecOK
  <2> QED
    BY <2>1, <2>3
<1> QED
  BY <1>1 DEF VecsOK

\* semundo_clear() takes entries out of the vectors, and no vector from a process.
LEMMA ClearOK ==
  ASSUME NEW A, VecsOK(undo, A), NEW ix, NEW num, NEW w, w = semundo_clear(ix, num)
  PROVE  /\ VecsOK(w, A)
         /\ \A p \in Proc : /\ w[p] = NoVector <=> undo[p] = NoVector
                            /\ num = -1 /\ w[p] # NoVector => OfSet(w[p], ix) = {}
<1>1. NoVector \notin Seq(Entry)
  BY SysVSemAssumption
<1>2. ASSUME NEW p \in Proc, undo[p] # NoVector
      PROVE  w[p] \in Seq(Entry) /\ VecOK(w[p], A) /\ (num = -1 => OfSet(w[p], ix) = {})
  <2>1. PICK v, x : v = undo[p] /\ x = w[p]
    OBVIOUS
  <2>2. v \in Seq(Entry) /\ VecOK(v, A)
    BY <1>2, <2>1 DEF VecsOK
  <2>3. x = IF num = -1 THEN WithoutSet(v, ix) ELSE WithoutSem(v, ix, num)
    BY <1>2, <2>1 DEF semundo_clear
  <2>4. CASE num = -1
    <3>1. x = WithoutSet(v, ix)
      BY <2>3, <2>4
    <3>2. x \in Seq(Entry) /\ VecOK(x, A) /\ OfSet(x, ix) = {}
      BY <2>2, <3>1, WithoutSetOK
    <3> QED
      BY <2>1, <3>2
  <2>5. CASE num # -1
    <3>1. x = WithoutSem(v, ix, num)
      BY <2>3, <2>5
    <3>2. x \in Seq(Entry) /\ VecOK(x, A)
      BY <2>2, <3>1, WithoutSemOK
    <3> QED
      BY <2>1, <2>5, <3>2
  <2> QED
    BY <2>4, <2>5
<1>3. \A p \in Proc : undo[p] = NoVector => w[p] = NoVector
  BY DEF semundo_clear
<1>4. w = [p \in Proc |-> w[p]]
  BY DEF semundo_clear
<1>5. w \in [Proc -> Seq(Entry) \cup {NoVector}]
  BY <1>2, <1>3, <1>4
<1>6. \A p \in Proc : w[p] = NoVector <=> undo[p] = NoVector
  BY <1>1, <1>2, <1>3
<1>7. Used(w) = Used(undo)
  BY <1>6 DEF Used
<1>8. VecsOK(w, A)
  <2>1. Cardinality(Used(undo)) <= semmnu
    BY DEF VecsOK, Used
  <2>2. Cardinality({p \in Proc : w[p] # NoVector}) <= semmnu
    BY <1>7, <2>1 DEF Used
  <2>3. \A p \in Proc : w[p] # NoVector => VecOK(w[p], A)
    BY <1>2, <1>3
  <2> QED
    BY <1>5, <2>2, <2>3 DEF VecsOK
<1> QED
  BY <1>2, <1>6, <1>8

\* The place i is one of a set of X.
Within(A, i, X) == \E ix \in X : A[ix].alloc /\ A[ix].base <= i /\ i < A[ix].base + A[ix].n

\* w is m with other values in the sets X, and the same counts.
Revalued(A, m, w, X) ==
  \A i \in DOMAIN m : /\ w[i].ncnt = m[i].ncnt /\ w[i].zcnt = m[i].zcnt
                      /\ w[i].val # m[i].val => Within(A, i, X)

\* The value at one place of the set ix.
LEMMA RevaluedOne ==
  ASSUME NEW A, NEW t \in Nat, NEW m \in Sems(t), NEW X, NEW ix \in X, A[ix].alloc, A[ix] \in SetRec, A[ix].base + A[ix].n <= t,
         NEW num \in Nat, num < A[ix].n, NEW v \in Nat, NEW w, w = SetVal(m, A[ix].base + num, v)
  PROVE  w \in Sems(t) /\ Revalued(A, m, w, X)
<1>1. PICK i, b, l : i = b + num /\ b = A[ix].base /\ l = A[ix].n
  OBVIOUS
<1>2. b \in Nat /\ l \in Nat /\ b + l <= t /\ num < l
  BY <1>1 DEF SetRec
<1>3. i \in 0 .. t - 1 /\ b <= i /\ i < b + l
  BY <1>1, <1>2
<1>4. w = SetVal(m, i, v)
  BY <1>1
<1>5. /\ w \in Sems(t) /\ \A x \in 0 .. t - 1 : x # i => w[x] = m[x]
      /\ w[i].ncnt = m[i].ncnt /\ w[i].zcnt = m[i].zcnt
  <2>1. PICK z : z = SetVal(m, i, v)
    OBVIOUS
  <2>2. /\ z \in Sems(t) /\ \A x \in 0 .. t - 1 : x # i => z[x] = m[x]
        /\ z[i].ncnt = m[i].ncnt /\ z[i].zcnt = m[i].zcnt
    BY ONLY t \in Nat, m \in Sems(t), v \in Nat, <1>3, <2>1, SemsSet
  <2>3. w = z
    BY <1>4, <2>1
  <2> QED
    BY <2>2, <2>3
<1>6. Within(A, i, X)
  BY <1>1, <1>3 DEF Within
<1>7. DOMAIN m = 0 .. t - 1
  BY DEF Sems
<1> QED
  BY <1>5, <1>6, <1>7 DEF Revalued

LEMMA RevaluedTwice ==
  ASSUME NEW A, NEW m, NEW w, NEW z, NEW X, DOMAIN w = DOMAIN m, Revalued(A, m, w, X), Revalued(A, w, z, X)
  PROVE  Revalued(A, m, z, X)
BY DEF Revalued

\* The first d values of a set.
Fills(A, ix, m, w, d, v) ==
  w = [i \in DOMAIN m |-> IF i \in A[ix].base .. A[ix].base + d - 1 THEN [m[i] EXCEPT !.val = v[i - A[ix].base]] ELSE m[i]]

LEMMA RevaluedSet ==
  ASSUME NEW A, NEW t \in Nat, NEW m \in Sems(t), NEW X, NEW ix \in X, A[ix].alloc, A[ix] \in SetRec, A[ix].base + A[ix].n <= t,
         NEW d \in Nat, d <= A[ix].n, NEW v \in [0 .. A[ix].n - 1 -> Nat], NEW w,
         Fills(A, ix, m, w, d, v)
  PROVE  w \in Sems(t) /\ Revalued(A, m, w, X)
<1>0. w = [i \in DOMAIN m |-> IF i \in A[ix].base .. A[ix].base + d - 1 THEN [m[i] EXCEPT !.val = v[i - A[ix].base]] ELSE m[i]]
  BY DEF Fills
<1>1. PICK b, l : b = A[ix].base /\ l = A[ix].n
  OBVIOUS
<1>2. b \in Nat /\ l \in Nat /\ b + l <= t /\ d <= l /\ v \in [0 .. l - 1 -> Nat]
  BY <1>1 DEF SetRec
<1>3. DOMAIN m = 0 .. t - 1
  BY DEF Sems
<1>4. ASSUME NEW i \in 0 .. t - 1
      PROVE  /\ w[i] \in SemRec /\ w[i].ncnt = m[i].ncnt /\ w[i].zcnt = m[i].zcnt
             /\ w[i].val # m[i].val => Within(A, i, X)
  <2>1. PICK e, x : e = m[i] /\ x = v[i - b]
    OBVIOUS
  <2>2. e \in SemRec
    BY <2>1 DEF Sems
  <2>3. CASE i \in b .. b + d - 1
    <3>1. w[i] = [e EXCEPT !.val = x]
      BY <1>0, <1>1, <1>3, <2>1, <2>3
    <3>2. i - b \in 0 .. l - 1 /\ b <= i /\ i < b + l
      BY <1>2, <2>3
    <3>3. x \in Nat
      BY <1>2, <2>1, <3>2
    <3>4. [e EXCEPT !.val = x] \in SemRec /\ [e EXCEPT !.val = x].ncnt = e.ncnt /\ [e EXCEPT !.val = x].zcnt = e.zcnt
      BY <2>2, <3>3 DEF SemRec
    <3>5. Within(A, i, X)
      BY <1>1, <3>2 DEF Within
    <3> QED
      BY <2>1, <3>1, <3>4, <3>5
  <2>4. CASE i \notin b .. b + d - 1
    BY <1>0, <1>1, <1>3, <2>1, <2>2, <2>4
  <2> QED
    BY <2>3, <2>4
<1>5. w = [i \in 0 .. t - 1 |-> w[i]]
  BY <1>0, <1>3
<1>6. w \in Sems(t)
  BY <1>4, <1>5 DEF Sems
<1> QED
  BY <1>3, <1>4, <1>6 DEF Revalued

\* Every set lies where it is said to, as far as numbers go.
LEMMA SetNums ==
  ASSUME NEW A \in [Ix -> SetRec], NEW t \in Nat, Laid(A, t), NEW ix \in Ix
  PROVE  /\ A[ix].base \in Nat /\ A[ix].n \in Nat /\ A[ix].seq \in 0 .. SemSeqMod - 1 /\ A[ix].alloc \in BOOLEAN
         /\ A[ix].alloc => A[ix].n >= 1 /\ A[ix].base + A[ix].n <= t
<1>1. A[ix] \in SetRec
  OBVIOUS
<1> QED
  BY <1>1 DEF SetRec, Laid

\* semget() puts the new set above all others.
Above(A, B, ix, q, t, n) == B = [A EXCEPT ![ix] = [alloc |-> TRUE, seq |-> q, base |-> t, n |-> n]]
Longer(m, w, t, u) == w = [i \in 0 .. u - 1 |-> IF i < t THEN m[i] ELSE Zero]

LEMMA SemgetArrays ==
  ASSUME NEW A, NEW m, NEW t, Arrays(A, m, t), NEW ix \in Ix, ~A[ix].alloc, NEW n \in Nat, n >= 1, NEW u, u = t + n, u <= semmns,
         NEW q \in 0 .. SemSeqMod - 1, NEW B, Above(A, B, ix, q, t, n), NEW w, Longer(m, w, t, u)
  PROVE  Arrays(B, w, u) /\ \A i \in 0 .. u - 1 : w[i] = IF i < t THEN m[i] ELSE Zero
<1>1. t \in Nat /\ A \in [Ix -> SetRec] /\ m \in Sems(t) /\ Laid(A, t) /\ u \in Nat
  BY DEF Arrays
<1>2. PICK e : e = [alloc |-> TRUE, seq |-> q, base |-> t, n |-> n]
  OBVIOUS
<1>3. e \in SetRec /\ e.alloc = TRUE /\ e.base = t /\ e.n = n
  BY <1>1, <1>2 DEF SetRec
<1>4. B \in [Ix -> SetRec] /\ B[ix] = e /\ \A jx \in Ix \ {ix} : B[jx] = A[jx]
  BY <1>1, <1>2, <1>3 DEF Above
<1>5. \A i \in 0 .. u - 1 : w[i] = IF i < t THEN m[i] ELSE Zero
  BY DEF Longer
<1>6. w \in Sems(u)
  <2>1. Zero \in SemRec
    BY SysVSemAssumption DEF Zero, SemRec
  <2>2. \A i \in 0 .. u - 1 : i < t => m[i] \in SemRec
    BY <1>1 DEF Sems
  <2>3. w = [i \in 0 .. u - 1 |-> w[i]]
    BY DEF Longer
  <2> QED
    BY <1>5, <2>1, <2>2, <2>3 DEF Sems
<1>7. \A jx \in Ix : /\ A[jx].base \in Nat /\ A[jx].n \in Nat
                     /\ A[jx].alloc => A[jx].n >= 1 /\ A[jx].base + A[jx].n <= t
  BY <1>1, SetNums
<1>8. Laid(B, u)
  <2>1. ASSUME NEW jx \in Ix, B[jx].alloc PROVE B[jx].n >= 1 /\ B[jx].base + B[jx].n <= u
    <3>1. CASE jx = ix
      BY <1>1, <1>3, <1>4, <3>1
    <3>2. CASE jx # ix
      <4>1. PICK b, l : b = A[jx].base /\ l = A[jx].n
        OBVIOUS
      <4>2. b \in Nat /\ l \in Nat /\ l >= 1 /\ b + l <= t /\ B[jx].base = b /\ B[jx].n = l
        BY <1>4, <1>7, <2>1, <3>2, <4>1
      <4> QED
        BY <1>1, <4>2
    <3> QED
      BY <3>1, <3>2
  <2>2. ASSUME NEW jx \in Ix, NEW kx \in Ix, B[jx].alloc /\ B[kx].alloc /\ jx # kx
        PROVE  B[jx].base + B[jx].n <= B[kx].base \/ B[kx].base + B[kx].n <= B[jx].base
    <3>1. CASE jx = ix
      BY <1>3, <1>4, <1>7, <2>2, <3>1
    <3>2. CASE kx = ix
      BY <1>3, <1>4, <1>7, <2>2, <3>2
    <3>3. CASE jx # ix /\ kx # ix
      BY <1>1, <1>4, <2>2, <3>3 DEF Laid
    <3> QED
      BY <3>1, <3>2, <3>3
  <2>3. ASSUME NEW i \in 0 .. u - 1
        PROVE  \E jx \in Ix : B[jx].alloc /\ B[jx].base <= i /\ i < B[jx].base + B[jx].n
    <3>1. CASE i < t
      <4>1. i \in 0 .. t - 1
        BY <1>1, <3>1
      <4>2. PICK jx \in Ix : A[jx].alloc /\ A[jx].base <= i /\ i < A[jx].base + A[jx].n
        BY <1>1, <4>1 DEF Laid
      <4>3. jx # ix
        BY <4>2
      <4> QED
        BY <1>4, <4>2, <4>3
    <3>2. CASE ~(i < t)
      <4>1. t <= i /\ i < t + n
        BY <1>1, <3>2
      <4> QED
        BY <1>3, <1>4, <4>1
    <3> QED
      BY <3>1, <3>2
  <2> QED
    BY <2>1, <2>2, <2>3 DEF Laid
<1> QED
  BY <1>1, <1>4, <1>5, <1>6, <1>8 DEF Arrays

\* IPC_RMID closes the gap.
Shorter(m, w, b, l, u) == w = [i \in 0 .. u - 1 |-> IF i >= b THEN m[i + l] ELSE m[i]]

\* The set jx is where it was, or lower by l if it was above b.
Lower(A, B, jx, b, l) ==
  /\ B[jx].alloc = A[jx].alloc /\ B[jx].seq = A[jx].seq /\ B[jx].n = A[jx].n
  /\ A[jx].alloc => B[jx].base = IF A[jx].base > b THEN A[jx].base - l ELSE A[jx].base

LEMMA LoweredIs ==
  ASSUME sema \in [Ix -> SetRec], NEW t \in Nat, Laid(sema, t), NEW ix \in Ix, sema[ix].alloc,
         NEW b, NEW l, b = sema[ix].base, l = sema[ix].n, NEW B, B = Lowered(ix)
  PROVE  /\ B \in [Ix -> SetRec] /\ ~B[ix].alloc /\ B[ix].seq = sema[ix].seq
         /\ \A jx \in Ix \ {ix} : Lower(sema, B, jx, b, l)
<1>1. \A jx \in Ix : /\ sema[jx].base \in Nat /\ sema[jx].n \in Nat /\ sema[jx].seq \in 0 .. SemSeqMod - 1
                     /\ sema[jx].alloc \in BOOLEAN
                     /\ sema[jx].alloc => sema[jx].n >= 1 /\ sema[jx].base + sema[jx].n <= t
  BY SetNums
<1>2. B = [i \in Ix |-> IF i = ix THEN [sema[i] EXCEPT !.alloc = FALSE]
                        ELSE IF sema[i].alloc /\ sema[i].base > b THEN [sema[i] EXCEPT !.base = @ - l]
                        ELSE sema[i]]
  BY DEF Lowered
<1>3. B[ix] \in SetRec /\ ~B[ix].alloc /\ B[ix].seq = sema[ix].seq
  <2>1. PICK e : e = sema[ix] /\ e \in SetRec
    OBVIOUS
  <2>2. B[ix] = [e EXCEPT !.alloc = FALSE]
    BY <1>2, <2>1
  <2>3. [e EXCEPT !.alloc = FALSE] \in SetRec /\ [e EXCEPT !.alloc = FALSE].alloc = FALSE /\ [e EXCEPT !.alloc = FALSE].seq = e.seq
    BY <2>1 DEF SetRec
  <2> QED
    BY <2>1, <2>2, <2>3
<1>4. ASSUME NEW jx \in Ix \ {ix} PROVE B[jx] \in SetRec /\ Lower(sema, B, jx, b, l)
  <2>1. PICK e : e = sema[jx] /\ e \in SetRec
    OBVIOUS
  <2>2. CASE e.alloc /\ e.base > b
    <3>1. B[jx] = [e EXCEPT !.base = @ - l]
      BY <1>2, <2>1, <2>2
    <3>2. PICK x, y : x = e.base /\ y = e.n
      OBVIOUS
    <3>3. x \in Nat /\ b \in Nat /\ l \in Nat /\ l >= 1 /\ y >= 1 /\ y \in Nat
      BY <1>1, <2>1, <2>2, <3>2
    <3>4. b + l <= x
      <4>1. b + l <= x \/ x + y <= b
        BY <2>1, <2>2, <3>2 DEF Laid
      <4> QED
        BY <2>2, <3>2, <3>3, <4>1
    <3>5. x - l \in Nat
      BY <3>3, <3>4
    <3>6. /\ [e EXCEPT !.base = @ - l] \in SetRec /\ [e EXCEPT !.base = @ - l].base = x - l
          /\ [e EXCEPT !.base = @ - l].alloc = e.alloc /\ [e EXCEPT !.base = @ - l].seq = e.seq
          /\ [e EXCEPT !.base = @ - l].n = e.n
      BY <2>1, <3>2, <3>5 DEF SetRec
    <3> QED
      BY <2>1, <2>2, <3>1, <3>2, <3>6 DEF Lower
  <2>3. CASE ~(e.alloc /\ e.base > b)
    <3>1. B[jx] = e
      BY <1>2, <2>1, <2>3
    <3> QED
      BY <2>1, <2>3, <3>1 DEF Lower
  <2> QED
    BY <2>2, <2>3
<1>5. B = [i \in Ix |-> B[i]]
  BY <1>2
<1>6. B \in [Ix -> SetRec]
  BY <1>3, <1>4, <1>5
<1> QED
  BY <1>3, <1>4, <1>6

LEMMA RmidArrays ==
  ASSUME NEW A, NEW m, NEW t, Arrays(A, m, t), NEW ix \in Ix, A[ix].alloc,
         NEW b, NEW l, b = A[ix].base, l = A[ix].n, NEW B \in [Ix -> SetRec], ~B[ix].alloc,
         \A jx \in Ix \ {ix} : Lower(A, B, jx, b, l), NEW u, u = t - l, NEW w, Shorter(m, w, b, l, u)
  PROVE  /\ Arrays(B, w, u) /\ \A i \in 0 .. u - 1 : i < b => w[i] = m[i]
         /\ \A jx \in Ix \ {ix} : A[jx].alloc => \/ A[jx].base + A[jx].n <= b /\ B[jx].base = A[jx].base
                                                 \/ A[jx].base > b /\ B[jx].base >= b
<1>1. t \in Nat /\ A \in [Ix -> SetRec] /\ m \in Sems(t) /\ Laid(A, t) /\ t <= semmns
  BY DEF Arrays
<1>2. \A jx \in Ix : /\ A[jx].base \in Nat /\ A[jx].n \in Nat
                     /\ A[jx].alloc => A[jx].n >= 1 /\ A[jx].base + A[jx].n <= t
  BY <1>1, SetNums
<1>3. b \in Nat /\ l \in Nat /\ l >= 1 /\ b + l <= t
  BY <1>2
<1>4. u \in Nat /\ u <= t /\ b <= u /\ u <= semmns
  <2>1. semmns \in Nat
    BY SysVSemAssumption
  <2> QED
    BY ONLY <1>1, <1>3, <2>1, u = t - l
<1>5. ASSUME NEW jx \in Ix \ {ix}, A[jx].alloc
      PROVE  \/ A[jx].base + A[jx].n <= b /\ B[jx].base = A[jx].base
             \/ A[jx].base >= b + l /\ B[jx].base = A[jx].base - l
  <2>1. PICK x, y : x = A[jx].base /\ y = A[jx].n
    OBVIOUS
  <2>2. x \in Nat /\ y \in Nat /\ y >= 1 /\ (b + l <= x \/ x + y <= b)
    BY <1>1, <1>2, <1>5, <2>1 DEF Laid
  <2>3. B[jx].base = IF x > b THEN x - l ELSE x
    BY <1>5, <2>1 DEF Lower
  <2>4. CASE b + l <= x
    <3>1. x > b
      BY <1>3, <2>2, <2>4
    <3> QED
      BY <2>1, <2>3, <2>4, <3>1
  <2>5. CASE x + y <= b
    <3>1. ~(x > b)
      BY <1>3, <2>2, <2>5
    <3> QED
      BY <2>1, <2>3, <2>5, <3>1
  <2> QED
    BY <2>2, <2>4, <2>5
<1>6. \A jx \in Ix : B[jx].alloc => jx # ix /\ A[jx].alloc /\ B[jx].n = A[jx].n
  BY DEF Lower
<1>7. Laid(B, u)
  <2>1. ASSUME NEW jx \in Ix, B[jx].alloc PROVE B[jx].n >= 1 /\ B[jx].base + B[jx].n <= u
    <3>1. PICK x, y, z : x = A[jx].base /\ y = A[jx].n /\ z = B[jx].base
      OBVIOUS
    <3>2. /\ x \in Nat /\ y \in Nat /\ y >= 1 /\ x + y <= t /\ B[jx].n = y
          /\ (x + y <= b /\ z = x) \/ (x >= b + l /\ z = x - l)
      BY <1>2, <1>5, <1>6, <2>1, <3>1
    <3>3. z + y <= u
      BY ONLY <1>1, <1>3, <1>4, <3>2, u = t - l
    <3> QED
      BY <3>1, <3>2, <3>3
  <2>2. ASSUME NEW jx \in Ix, NEW kx \in Ix, B[jx].alloc /\ B[kx].alloc /\ jx # kx
        PROVE  B[jx].base + B[jx].n <= B[kx].base \/ B[kx].base + B[kx].n <= B[jx].base
    <3>1. PICK x, y, z : x = A[jx].base /\ y = A[jx].n /\ z = B[jx].base
      OBVIOUS
    <3>2. PICK d, e, f : d = A[kx].base /\ e = A[kx].n /\ f = B[kx].base
      OBVIOUS
    <3>3. /\ x \in Nat /\ y \in Nat /\ y >= 1 /\ B[jx].n = y
          /\ (x + y <= b /\ z = x) \/ (x >= b + l /\ z = x - l)
      BY <1>2, <1>5, <1>6, <2>2, <3>1
    <3>4. /\ d \in Nat /\ e \in Nat /\ e >= 1 /\ B[kx].n = e
          /\ (d + e <= b /\ f = d) \/ (d >= b + l /\ f = d - l)
      BY <1>2, <1>5, <1>6, <2>2, <3>2
    <3>5. x + y <= d \/ d + e <= x
      BY <1>1, <1>6, <2>2, <3>1, <3>2 DEF Laid
    <3>6. z + y <= f \/ f + e <= z
      BY ONLY <1>3, <3>3, <3>4, <3>5
    <3> QED
      BY <3>1, <3>2, <3>3, <3>4, <3>6
  <2>3. ASSUME NEW i \in 0 .. u - 1
        PROVE  \E jx \in Ix : B[jx].alloc /\ B[jx].base <= i /\ i < B[jx].base + B[jx].n
    <3>1. PICK k : k = IF i < b THEN i ELSE i + l
      OBVIOUS
    <3>2. k \in 0 .. t - 1 /\ (k < b \/ k >= b + l)
      BY <1>1, <1>3, <1>4, <3>1
    <3>3. PICK jx \in Ix : A[jx].alloc /\ A[jx].base <= k /\ k < A[jx].base + A[jx].n
      BY <1>1, <3>2 DEF Laid
    <3>4. jx # ix
      BY <1>3, <3>2, <3>3
    <3>5. B[jx].alloc /\ B[jx].n = A[jx].n
      BY <3>3, <3>4 DEF Lower
    <3>6. PICK x, y, z : x = A[jx].base /\ y = A[jx].n /\ z = B[jx].base
      OBVIOUS
    <3>7. /\ x \in Nat /\ y \in Nat /\ x <= k /\ k < x + y
          /\ (x + y <= b /\ z = x) \/ (x >= b + l /\ z = x - l)
      BY <1>2, <1>5, <3>3, <3>4, <3>6
    <3>8. z <= i /\ i < z + y
      BY ONLY <1>3, <3>1, <3>2, <3>7, i \in 0 .. u - 1, u \in Nat, <1>4
    <3> QED
      BY <3>5, <3>6, <3>8
  <2> QED
    BY <2>1, <2>2, <2>3 DEF Laid
<1>8. w \in Sems(u)
  <2>1. ASSUME NEW i \in 0 .. u - 1 PROVE w[i] \in SemRec
    <3>1. i >= b => i + l \in 0 .. t - 1
      BY <1>1, <1>3, <1>4
    <3>2. i \in 0 .. t - 1
      BY <1>1, <1>4
    <3>3. w[i] = IF i >= b THEN m[i + l] ELSE m[i]
      BY DEF Shorter
    <3> QED
      BY <1>1, <3>1, <3>2, <3>3 DEF Sems
  <2>2. w = [i \in 0 .. u - 1 |-> w[i]]
    BY DEF Shorter
  <2> QED
    BY <2>1, <2>2 DEF Sems
<1>9. \A i \in 0 .. u - 1 : i < b => w[i] = m[i]
  BY <1>3, <1>4 DEF Shorter
<1>10. \A jx \in Ix \ {ix} : A[jx].alloc => \/ A[jx].base + A[jx].n <= b /\ B[jx].base = A[jx].base
                                            \/ A[jx].base > b /\ B[jx].base >= b
  <2> TAKE jx \in Ix \ {ix}
  <2> HAVE A[jx].alloc
  <2>1. PICK x, z : x = A[jx].base /\ z = B[jx].base
    OBVIOUS
  <2>2. x \in Nat /\ (x >= b + l /\ z = x - l => x > b /\ z >= b)
    BY <1>2, <1>3, <2>1
  <2> QED
    BY <1>5, <2>1, <2>2
<1> QED
  BY <1>1, <1>4, <1>7, <1>8, <1>9, <1>10 DEF Arrays

\* What exit gives back.
AdjustTo(m, i, d) == [m EXCEPT ![i].val = Adjusted(@, d)]
Giving(g, f, N) ==
  g = [n \in 0 .. N |-> IF n = 0 THEN sem
                        ELSE [g[n - 1] EXCEPT ![sema[f[n].ix].base + f[n].num].val = Adjusted(@, f[n].adj)]]

LEMMA GivingExists ==
  ASSUME NEW f, NEW N \in Nat
  PROVE  \E g : Giving(g, f, N)
<1> DEFINE S == {n \in Nat : \E g : Giving(g, f, n)}
<1>1. 0 \in S
  <2> DEFINE z == [m \in 0 .. 0 |-> sem]
  <2>1. Giving(z, f, 0)
    BY DEF Giving
  <2> QED
    BY <2>1
<1>2. ASSUME NEW n \in 1 .. N, n - 1 \in S PROVE n \in S
  <2>1. PICK g : Giving(g, f, n - 1)
    BY <1>2
  <2> DEFINE h == [m \in 0 .. n |-> IF m = n THEN AdjustTo(g[n - 1], sema[f[n].ix].base + f[n].num, f[n].adj) ELSE g[m]]
  <2>2. \A m \in 0 .. n - 1 : g[m] = IF m = 0 THEN sem ELSE AdjustTo(g[m - 1], sema[f[m].ix].base + f[m].num, f[m].adj)
    BY <2>1 DEF Giving, AdjustTo
  <2>3. \A m \in 0 .. n : h[m] = IF m = 0 THEN sem ELSE AdjustTo(h[m - 1], sema[f[m].ix].base + f[m].num, f[m].adj)
    <3> TAKE m \in 0 .. n
    <3>1. CASE m = n
      BY <3>1
    <3>2. CASE m # n
      <4>1. m \in 0 .. n - 1 /\ h[m] = g[m]
        BY <3>2
      <4>2. m # 0 => m - 1 \in 0 .. n - 1 /\ h[m - 1] = g[m - 1]
        BY <3>2
      <4> QED
        BY <2>2, <4>1, <4>2
    <3> QED
      BY <3>1, <3>2
  <2>4. Giving(h, f, n)
    BY <2>3 DEF Giving, AdjustTo
  <2> QED
    BY <2>4
<1>3. 0 .. N \subseteq S
  <2> HIDE DEF S
  <2> QED
    BY <1>1, <1>2, LoopInduction
<1> QED
  BY <1>3

\* Values stay at 0 or above, and those of other sets as they are.
LEMMA AdjustedAllOK ==
  ASSUME Arrays(sema, sem, semtot), NEW f \in Seq(Entry), VecOK(f, sema), NEW w, w = AdjustedAll(f),
         NEW X, X = {f[i].ix : i \in DOMAIN f}
  PROVE  w \in Sems(semtot) /\ Revalued(sema, sem, w, X)
<1>1. PICK N, t : N = Len(f) /\ N \in Nat /\ t = semtot /\ DOMAIN f = 1 .. N
  OBVIOUS
<1>2. PICK g : Giving(g, f, N) /\ w = g[N]
  <2>1. AdjustedAll(f) = (CHOOSE g : Giving(g, f, Len(f)))[Len(f)]
    BY Zenon DEF AdjustedAll, Giving
  <2> QED
    BY <1>1, <2>1, GivingExists
<1>3. g[0] = sem /\ \A n \in 1 .. N : g[n] = AdjustTo(g[n - 1], sema[f[n].ix].base + f[n].num, f[n].adj)
  <2>1. g = [n \in 0 .. N |-> IF n = 0 THEN sem ELSE AdjustTo(g[n - 1], sema[f[n].ix].base + f[n].num, f[n].adj)]
    BY <1>2 DEF Giving, AdjustTo
  <2> QED
    BY <1>1, <2>1
<1>4. t \in Nat /\ sem \in Sems(t) /\ sema \in [Ix -> SetRec] /\ Laid(sema, t)
  BY <1>1 DEF Arrays
<1> DEFINE S == {n \in 0 .. N : g[n] \in Sems(t) /\ Revalued(sema, sem, g[n], X)}
<1>5. 0 \in S
  BY <1>1, <1>3, <1>4 DEF Revalued
<1>6. ASSUME NEW n \in 1 .. N, n - 1 \in S PROVE n \in S
  <2>1. PICK m, ix, num, d : m = g[n - 1] /\ ix = f[n].ix /\ num = f[n].num /\ d = f[n].adj
    OBVIOUS
  <2>2. m \in Sems(t) /\ Revalued(sema, sem, m, X)
    BY <1>6, <2>1
  <2>3. ix \in X /\ ix \in Ix /\ sema[ix].alloc /\ num < sema[ix].n
    BY <1>1, <2>1 DEF VecOK
  <2>4. num \in Nat /\ d \in Int
    <3>1. f[n] \in Entry
      BY <1>1
    <3> QED
      BY <2>1, <3>1 DEF Entry
  <2>5. sema[ix] \in SetRec /\ sema[ix].base + sema[ix].n <= t
    BY <1>4, <2>3 DEF Laid
  <2>6. PICK i, v : i = sema[ix].base + num /\ v = Adjusted(m[i].val, d)
    OBVIOUS
  <2>7. i \in 0 .. t - 1
    <3>1. PICK b, l : b = sema[ix].base /\ l = sema[ix].n
      OBVIOUS
    <3>2. b \in Nat /\ l \in Nat /\ b + l <= t /\ num < l /\ i = b + num
      BY <2>3, <2>5, <2>6, <3>1 DEF SetRec
    <3> QED
      BY <1>4, <2>4, <3>2
  <2>8. v \in Nat
    <3>1. m[i].val \in Nat
      BY <2>2, <2>7 DEF Sems, SemRec
    <3> QED
      BY <2>4, <2>6, <3>1 DEF Adjusted
  <2>9. g[n] = SetVal(m, i, v)
    <3>1. g[n] = AdjustTo(m, i, d)
      BY <1>3, <2>1, <2>6
    <3> QED
      BY <2>6, <3>1 DEF AdjustTo, SetVal
  <2>10. PICK z : z = SetVal(m, sema[ix].base + num, v)
    OBVIOUS
  <2>11. z \in Sems(t) /\ Revalued(sema, m, z, X)
    BY <1>4, <2>2, <2>3, <2>4, <2>5, <2>8, <2>10, RevaluedOne
  <2>12. DOMAIN m = DOMAIN sem
    BY <1>4, <2>2 DEF Sems
  <2>13. Revalued(sema, sem, z, X)
    BY <2>2, <2>11, <2>12, RevaluedTwice
  <2>14. g[n] = z
    BY <2>6, <2>9, <2>10
  <2> QED
    BY <1>1, <2>11, <2>13, <2>14
<1>7. 0 .. N \subseteq S
  <2> HIDE DEF S
  <2> QED
    BY <1>1, <1>5, <1>6, LoopInduction
<1>8. N \in S
  <2>1. N \in 0 .. N
    BY <1>1
  <2> HIDE DEF S
  <2> QED
    BY <1>7, <2>1
<1> QED
  BY <1>1, <1>2, <1>8

\* m is sem without the one who slept at ptr because of the operation o.
Dropped(m, ptr, o) ==
  \/ ptr >= semtot /\ m = sem
  \/ /\ ptr < semtot /\ o.op = 0
     /\ Counts(sem, m, ptr, (sem[ptr].zcnt - 1) % CntMod, sem[ptr].ncnt)
  \/ /\ ptr < semtot /\ o.op # 0
     /\ Counts(sem, m, ptr, sem[ptr].zcnt, (sem[ptr].ncnt - 1) % CntMod)

LEMMA UncountedOK ==
  ASSUME semtot \in Nat, sem \in Sems(semtot), NEW c, c.ptr \in Nat
  PROVE  Uncounted(c) \in Sems(semtot) /\ Dropped(Uncounted(c), c.ptr, c.sops[c.at])
<1>1. PICK t, i, o, m : t = semtot /\ i = c.ptr /\ o = c.sops[c.at] /\ m = Uncounted(c)
  OBVIOUS
<1>2. m = IF i >= t THEN sem
          ELSE IF o.op = 0 THEN [sem EXCEPT ![i].zcnt = (@ - 1) % CntMod]
          ELSE [sem EXCEPT ![i].ncnt = (@ - 1) % CntMod]
  BY <1>1, Zenon DEF Uncounted
<1>3. t \in Nat /\ i \in Nat /\ sem \in Sems(t)
  BY <1>1
<1>4. CASE i >= t
  BY <1>1, <1>2, <1>3, <1>4 DEF Dropped
<1>5. CASE ~(i >= t)
  <2>1. i \in 0 .. t - 1 /\ i < t
    BY <1>3, <1>5
  <2>2. PICK x, y : x = (sem[i].zcnt - 1) % CntMod /\ y = (sem[i].ncnt - 1) % CntMod
    OBVIOUS
  <2>3. x \in 0 .. CntMod - 1 /\ y \in 0 .. CntMod - 1
    <3>1. PICK z, n : z = sem[i].zcnt - 1 /\ n = sem[i].ncnt - 1
      OBVIOUS
    <3>2. z \in Int /\ n \in Int
      <4>1. sem[i] \in SemRec
        BY <1>3, <2>1 DEF Sems
      <4>2. sem[i].zcnt \in Int /\ sem[i].ncnt \in Int
        <5>1. sem[i].zcnt \in 0 .. CntMod - 1 /\ sem[i].ncnt \in 0 .. CntMod - 1
          BY <4>1 DEF SemRec
        <5>2. CntMod \in Nat
          BY SysVSemAssumption
        <5> QED
          BY ONLY <5>1, <5>2
      <4> QED
        BY <3>1, <4>2
    <3>3. CntMod \in Nat \ {0}
      BY SysVSemAssumption
    <3>4. z % CntMod \in 0 .. CntMod - 1 /\ n % CntMod \in 0 .. CntMod - 1
      BY ONLY <3>2, <3>3
    <3> QED
      BY <2>2, <3>1, <3>4
  <2>4. /\ [sem EXCEPT ![i].zcnt = x] \in Sems(t) /\ Counts(sem, [sem EXCEPT ![i].zcnt = x], i, x, sem[i].ncnt)
        /\ [sem EXCEPT ![i].ncnt = y] \in Sems(t) /\ Counts(sem, [sem EXCEPT ![i].ncnt = y], i, sem[i].zcnt, y)
    BY <1>3, <2>1, <2>3, CountSet
  <2>5. CASE o.op = 0
    <3>1. m = [sem EXCEPT ![i].zcnt = x]
      BY <1>2, <1>5, <2>2, <2>5
    <3>2. m \in Sems(t) /\ Counts(sem, m, i, x, sem[i].ncnt)
      BY <2>4, <3>1
    <3> QED
      BY <1>1, <2>1, <2>2, <2>5, <3>2 DEF Dropped
  <2>6. CASE o.op # 0
    <3>1. m = [sem EXCEPT ![i].ncnt = y]
      BY <1>2, <1>5, <2>2, <2>6
    <3>2. m \in Sems(t) /\ Counts(sem, m, i, sem[i].zcnt, y)
      BY <2>4, <3>1
    <3> QED
      BY <1>1, <2>1, <2>2, <2>6, <3>2 DEF Dropped
  <2> QED
    BY <2>5, <2>6
<1> QED
  BY <1>4, <1>5

-----------------------------------------------------------------------------
(* What a step does.                                                        *)

Sleepy == {"semwait", "semwoken"}

\* c is a call that p can make.
CallOK(p, c) == c \in CallRec /\ (c.do = "semop" => c.sops \in Vectors[p])

\* The call c of one who sleeps in semop(), with the sets A: a set that is still there has
\* the semaphore that it sleeps at.
LiveIn(A, id) == A[id[1]].alloc /\ A[id[1]].seq = id[2]
SleeperOK(c, A) ==
  /\ c.do = "semop" /\ c.at \in 1 .. Len(c.sops) /\ c.id[2] <= A[c.id[1]].seq
  /\ LiveIn(A, c.id) => c.sops[c.at].num < A[c.id[1]].n

CallsOK ==
  /\ call \in [Proc -> CallRec]
  /\ \A p \in Proc : CallOK(p, call[p]) /\ (pc[p] \in Sleepy => SleeperOK(call[p], sema))

\* The inductive invariant of the arrays.
Types ==
  /\ LockInv
  /\ Arrays(sema, sem, semtot) /\ VecsOK(undo, sema)
  /\ CallsOK
  /\ panicked \in BOOLEAN

\* p goes to the place "to", and those who sleep on a set of X are woken.
Goes(p, to, X) ==
  /\ pc'[p] = to
  /\ \A q \in Proc \ {p} :
       /\ pc[q] = "semwait" => pc'[q] = IF call[q].id[1] \in X THEN "semwoken" ELSE "semwait"
       /\ pc[q] # "semwait" => pc'[q] = pc[q] \/ (pc[q] \in LockSleep /\ pc'[q] = WokenFrom[pc[q]])

LEMMA GoesOnly ==
  ASSUME pc \in [Proc -> Places], NEW p \in Proc, NEW to, pc' = [pc EXCEPT ![p] = to]
  PROVE  Goes(p, to, {})
BY DEF Goes

LEMMA GoesWakes ==
  ASSUME pc \in [Proc -> Places], NEW p \in Proc, NEW to, to # "semwait", NEW X, pc' = WakeSets([pc EXCEPT ![p] = to], X)
  PROVE  Goes(p, to, X)
<1>1. PICK y : y = [pc EXCEPT ![p] = to]
  OBVIOUS
<1>2. y[p] = to /\ \A q \in Proc \ {p} : y[q] = pc[q]
  BY <1>1
<1>3. \A q \in Proc : pc'[q] = IF y[q] = "semwait" /\ call[q].id[1] \in X THEN "semwoken" ELSE y[q]
  BY <1>1 DEF WakeSets
<1> QED
  BY <1>2, <1>3 DEF Goes

LEMMA GoesThaws ==
  ASSUME pc \in [Proc -> Places], NEW p \in Proc, NEW to, to \notin LockSleep, pc' = WakeLock([pc EXCEPT ![p] = to])
  PROVE  Goes(p, to, {})
<1>1. PICK y : y = [pc EXCEPT ![p] = to]
  OBVIOUS
<1>2. y[p] = to /\ \A q \in Proc \ {p} : y[q] = pc[q]
  BY <1>1
<1>3. \A q \in Proc : pc'[q] = IF y[q] \in LockSleep THEN WokenFrom[y[q]] ELSE y[q]
  BY <1>1 DEF WakeLock, LockSleep
<1>4. "semwait" \notin LockSleep
  BY DEF LockSleep
<1> QED
  BY <1>2, <1>3, <1>4 DEF Goes

LEMMA GoesExits ==
  ASSUME pc \in [Proc -> Places], NEW p \in Proc, NEW X, pc' = WakeLock(WakeSets([pc EXCEPT ![p] = "dead"], X))
  PROVE  Goes(p, "dead", X)
<1>1. PICK y, z : y = [pc EXCEPT ![p] = "dead"] /\ z = WakeSets(y, X)
  OBVIOUS
<1>2. y[p] = "dead" /\ \A q \in Proc \ {p} : y[q] = pc[q]
  BY <1>1
<1>3. \A q \in Proc : z[q] = IF y[q] = "semwait" /\ call[q].id[1] \in X THEN "semwoken" ELSE y[q]
  BY <1>1 DEF WakeSets
<1>4. \A q \in Proc : pc'[q] = IF z[q] \in LockSleep THEN WokenFrom[z[q]] ELSE z[q]
  BY <1>1 DEF WakeLock, LockSleep
<1>5. "semwait" \notin LockSleep /\ "semwoken" \notin LockSleep /\ "dead" \notin LockSleep
  BY DEF LockSleep
<1>6. pc'[p] = "dead"
  BY <1>2, <1>3, <1>4, <1>5
<1>7. ASSUME NEW q \in Proc \ {p}
      PROVE  /\ pc[q] = "semwait" => pc'[q] = IF call[q].id[1] \in X THEN "semwoken" ELSE "semwait"
             /\ pc[q] # "semwait" => pc'[q] = pc[q] \/ (pc[q] \in LockSleep /\ pc'[q] = WokenFrom[pc[q]])
  BY <1>2, <1>3, <1>4, <1>5
<1> QED
  BY <1>6, <1>7 DEF Goes

\* The calls that a process makes.
LEMMA CallsAre ==
  ASSUME Arrays(sema, sem, semtot), CallsOK, NEW p \in Proc, NEW do \in CtlOps \cup {"semop"}, NEW c \in Calls(p, do)
  PROVE  CallOK(p, c) /\ c.do = do /\ pc[p] \in {"out", "lockwoken"}
<1>1. sema \in [Ix -> SetRec]
  BY DEF Arrays
<1>2. 0 \in Ix /\ NoCall.sops \in Seq(Sembuf)
  BY SysVSemAssumption DEF Ix, NoCall
<1>3. CASE pc[p] = "lockwoken"
  <2>1. c = call[p] /\ c.do = do
    BY <1>3 DEF Calls
  <2> QED
    BY <1>3, <2>1 DEF CallsOK
<1>4. CASE pc[p] # "lockwoken"
  <2>1. pc[p] = "out"
    BY <1>4 DEF Calls
  <2>2. CASE do \in SetOps
    <3>1. c \in NewCalls(p, do)
      BY <1>4, <2>1, <2>2 DEF Calls
    <3>0. PICK V : V = IF do = "semop" THEN Vectors[p] ELSE {<<>>}
      OBVIOUS
    <3>2. PICK ix \in Ix, v \in V :
            sema[ix].alloc /\ c = [NoCall EXCEPT !.do = do, !.id = <<ix, sema[ix].seq>>, !.sops = v]
      <4>1. PICK ix \in {i \in Ix : sema[i].alloc}, v \in IF do = "semop" THEN Vectors[p] ELSE {<<>>} :
              c = NewCall(do, ix, v)
        BY <3>1 DEF NewCalls
      <4> QED
        BY <3>0, <4>1 DEF NewCall
    <3>3. c = [do |-> do, id |-> <<ix, sema[ix].seq>>, sops |-> v, ptr |-> 0, at |-> 0]
      BY <3>2 DEF NoCall
    <3>4. v \in Seq(Sembuf) /\ (do = "semop" => v \in Vectors[p])
      <4>1. Vectors[p] \subseteq Seq(Sembuf) /\ <<>> \in Seq(Sembuf)
        BY SysVSemAssumption
      <4> QED
        BY <3>0, <3>2, <4>1
    <3>5. sema[ix].seq \in Nat
      <4>1. sema[ix] \in SetRec
        BY <1>1
      <4>2. sema[ix].seq \in 0 .. SemSeqMod - 1
        BY <4>1 DEF SetRec
      <4> QED
        BY <4>2
    <3>6. c \in CallRec
      BY <3>3, <3>4, <3>5 DEF CallRec
    <3> QED
      BY <2>1, <3>3, <3>4, <3>6 DEF CallOK
  <2>3. CASE do \notin SetOps
    <3>1. c = [NoCall EXCEPT !.do = do]
      BY <1>4, <2>1, <2>3 DEF Calls
    <3>2. c = [do |-> do, id |-> <<0, 0>>, sops |-> <<>>, ptr |-> 0, at |-> 0]
      BY <3>1 DEF NoCall
    <3>3. c \in CallRec
      BY <1>2, <3>2 DEF CallRec, NoCall
    <3>4. c.do # "semop" /\ c.do = do
      BY <2>3, <3>2 DEF SetOps
    <3> QED
      BY <2>1, <3>3, <3>4 DEF CallOK
  <2> QED
    BY <2>2, <2>3
<1> QED
  BY <1>3, <1>4

LEMMA NoCallOK == ASSUME NEW p PROVE CallOK(p, NoCall)
<1>1. 0 \in Ix /\ <<>> \in Seq(Sembuf)
  BY SysVSemAssumption DEF Ix
<1> QED
  BY <1>1 DEF CallOK, CallRec, NoCall

\* Numbers of sets do not come around as long as there are no more than MaxGets.
LEMMA SeqGrows ==
  ASSUME sema \in [Ix -> SetRec], Cardinality(Given(sema)) < MaxGets, NEW ix \in Ix
  PROVE  /\ (sema[ix].seq + 1) % SemSeqMod = sema[ix].seq + 1
         /\ sema[ix].seq + 1 \in 0 .. SemSeqMod - 1
<1>1. PICK k, G : k = sema[ix].seq /\ G = Given(sema)
  OBVIOUS
<1>2. k \in 0 .. SemSeqMod - 1 /\ SemSeqMod \in Nat /\ MaxGets \in 1 .. SemSeqMod - 1 /\ k \in Nat
  <2>1. sema[ix] \in SetRec
    OBVIOUS
  <2> QED
    BY <1>1, <2>1, SysVSemAssumption DEF SetRec
<1>3. IsFiniteSet(G)
  <2>1. semmni - 1 \in Int /\ SemSeqMod - 1 \in Int
    BY SysVSemAssumption
  <2>2. IsFiniteSet(Ix) /\ IsFiniteSet(1 .. SemSeqMod - 1)
    BY <2>1, FS_Interval DEF Ix
  <2>3. IsFiniteSet(Ix \X (1 .. SemSeqMod - 1))
    BY <2>2, FS_Product
  <2>4. G \subseteq Ix \X (1 .. SemSeqMod - 1)
    BY <1>1 DEF Given
  <2> QED
    BY <2>3, <2>4, FS_Subset
<1>4. PICK f : f = [n \in 1 .. k |-> <<ix, n>>]
  OBVIOUS
<1>5. f \in Injection(1 .. k, G)
  <2>1. ASSUME NEW n \in 1 .. k PROVE f[n] \in G /\ f[n] = <<ix, n>>
    <3>1. n \in 1 .. SemSeqMod - 1 /\ n <= sema[ix].seq
      BY <1>1, <1>2
    <3> QED
      BY <1>1, <1>4, <3>1 DEF Given
  <2> QED
    BY <1>4, <2>1 DEF Injection, IsInjective
<1>6. Cardinality(1 .. k) <= Cardinality(G)
  BY <1>3, <1>5, FS_Injection
<1>7. Cardinality(1 .. k) = k
  <2>1. Cardinality(1 .. k) = IF 1 > k THEN 0 ELSE k - 1 + 1
    BY <1>2, FS_Interval
  <2> QED
    BY <1>2, <2>1
<1>8. Cardinality(G) \in Nat /\ Cardinality(G) < MaxGets
  BY <1>1, <1>3, FS_CardinalityType
<1>9. k < SemSeqMod - 1
  BY ONLY <1>2, <1>6, <1>7, <1>8
<1>10. k + 1 \in 0 .. SemSeqMod - 1
  BY ONLY <1>2, <1>9
<1>11. PICK j : j = k + 1
  OBVIOUS
<1>12. j % SemSeqMod = j
  BY ONLY <1>2, <1>10, <1>11
<1> QED
  BY <1>1, <1>10, <1>11, <1>12

Exiting == {"exitwait", "exitwoken"}

\* p goes to the place "to" with the call c, and nothing changes but values in the sets X.
Simple(p, to, X, c) ==
  /\ sema' = sema /\ sem' \in Sems(semtot) /\ X \subseteq Ix /\ Revalued(sema, sem, sem', X)
  /\ VecsOK(undo', sema)
  /\ Goes(p, to, X) /\ to \in Places \ Sleepy
  /\ CallOK(p, c) /\ call' = [call EXCEPT ![p] = c]

\* p makes the set ix, of n semaphores.
Made(p, ix, n) ==
  /\ ix \in Ix /\ n \in Nat /\ n >= 1 /\ ~sema[ix].alloc /\ semtot + n <= semmns
  /\ sema[ix].seq + 1 \in 0 .. SemSeqMod - 1
  /\ Above(sema, sema', ix, sema[ix].seq + 1, semtot, n)
  /\ Longer(sem, sem', semtot, semtot + n)
  /\ undo' = undo
  /\ Goes(p, "out", {}) /\ call' = [call EXCEPT ![p] = NoCall]

\* p removes the set ix, which lies at b and has l semaphores.
Removed(p, ix, b, l) ==
  /\ ix \in Ix /\ sema[ix].alloc /\ b = sema[ix].base /\ l = sema[ix].n
  /\ QuietMoves => ~SleptAbove(b)
  /\ Shorter(sem, sem', b, l, semtot - l) /\ sema' = Lowered(ix)
  /\ undo' = semundo_clear(ix, -1)
  /\ Goes(p, "out", {ix}) /\ call' = [call EXCEPT ![p] = NoCall]

\* p takes a turn of semop(), in the call c.
Turns(p, c, sems) ==
  /\ sema' = sema
  /\ Live(c.id) /\ c \in CallRec /\ CallOK(p, c) /\ c.do = "semop" /\ sems \in Sems(semtot)
  /\ \/ pc[p] \notin Sleepy /\ sems = sem
     \/ pc[p] = "semwoken" /\ c = call[p] /\ Dropped(sems, c.ptr, c.sops[c.at])
  /\ Turned(p, c, sems)

\* What becomes of the vectors, and of the panics of semexit().
VecStep(p) ==
  /\ \/ \A q \in Proc : undo'[q] = NoVector <=> undo[q] = NoVector
     \/ pc'[p] = "dead" /\ undo'[p] = NoVector /\ \A q \in Proc \ {p} : undo'[q] = undo[q]
     \/ Vectors[p] # {} /\ Beside(undo, undo', p)
  /\ pc'[p] \in Exiting => pc[p] \in Exiting \/ undo'[p] # NoVector
  /\ panicked' \in BOOLEAN /\ (panicked' => panicked \/ (pc[p] = "exitwoken" /\ undo[p] = NoVector))

Effect(p) ==
  \/ \E to, X, c : Simple(p, to, X, c)
  \/ \E ix, n : Made(p, ix, n)
  \/ \E ix, b, l : Removed(p, ix, b, l)
  \/ \E c, sems : Turns(p, c, sems)

\* A step of p that changes nothing but where it is and its call.
LEMMA StepSimple ==
  ASSUME Types, NEW p \in Proc, NEW to \in Places \ Sleepy, Goes(p, to, {}), NEW c, CallOK(p, c),
         call' = [call EXCEPT ![p] = c], UNCHANGED <<sema, sem, undo, panicked>>,
         to \in Exiting => pc[p] \in Exiting \/ undo[p] # NoVector
  PROVE  Effect(p) /\ VecStep(p)
<1>1. Arrays(sema, sem, semtot) /\ VecsOK(undo, sema) /\ panicked \in BOOLEAN
  BY DEF Types
<1>2. sem' \in Sems(semtot) /\ VecsOK(undo', sema)
  BY <1>1 DEF Arrays
<1>3. Revalued(sema, sem, sem', {})
  BY DEF Revalued
<1>4. Simple(p, to, {}, c)
  BY <1>2, <1>3 DEF Simple
<1>5. VecStep(p)
  <2>1. pc'[p] = to
    BY DEF Goes
  <2> QED
    BY <1>1, <2>1 DEF VecStep
<1> QED
  BY <1>4, <1>5 DEF Effect

\* Gone(), SemgetFull(), SemopIntr() and SemopWoken() of a set that has gone.
LEMMA StepReturn ==
  ASSUME Types, NEW p \in Proc, pc' = Return(p), call' = [call EXCEPT ![p] = NoCall], UNCHANGED <<sema, sem, undo, panicked>>
  PROVE  Effect(p) /\ VecStep(p)
<1>1. pc \in [Proc -> Places]
  BY DEF Types, LockInv
<1>2. "out" \in Places \ Sleepy /\ "out" \notin Exiting
  BY DEF Places, Sleepy, Exiting
<1>3. pc' = [pc EXCEPT ![p] = "out"]
  BY DEF Return
<1>4. Goes(p, "out", {})
  BY <1>1, <1>3, GoesOnly
<1> QED
  BY <1>2, <1>4, NoCallOK, StepSimple

LEMMA StepSemlock ==
  ASSUME Types, NEW p \in Proc, Semlock(p)
  PROVE  Effect(p) /\ VecStep(p)
<1>0. PICK do \in CtlOps \cup {"semop"} : \E c \in Calls(p, do) : call' = [call EXCEPT ![p] = c]
  BY DEF Semlock
<1>1. PICK c \in Calls(p, do) : call' = [call EXCEPT ![p] = c]
  BY <1>0
<1>2. CallOK(p, c)
  BY <1>1, CallsAre DEF Types
<1>3. pc' = [pc EXCEPT ![p] = "lockwait"] /\ UNCHANGED <<sema, sem, undo, panicked>>
  BY DEF Semlock
<1>4. pc \in [Proc -> Places]
  BY DEF Types, LockInv
<1>5. Goes(p, "lockwait", {})
  BY <1>3, <1>4, GoesOnly
<1>6. "lockwait" \in Places \ Sleepy /\ "lockwait" \notin Exiting
  BY DEF Places, Sleepy, Exiting
<1> QED
  BY <1>1, <1>2, <1>3, <1>5, <1>6, StepSimple

LEMMA StepSemconfig ==
  ASSUME Types, NEW p \in Proc, Semconfig(p)
  PROVE  Effect(p) /\ VecStep(p)
<1>1. call' = [call EXCEPT ![p] = NoCall] /\ UNCHANGED <<sema, sem, undo, panicked>>
  BY DEF Semconfig
<1>2. pc \in [Proc -> Places]
  BY DEF Types, LockInv
<1>3. "out" \in Places \ Sleepy /\ "out" \notin Exiting /\ "out" \notin LockSleep
  BY DEF Places, Sleepy, Exiting, LockSleep
<1>4. pc' = [pc EXCEPT ![p] = "out"] \/ pc' = WakeLock([pc EXCEPT ![p] = "out"])
  BY DEF Semconfig, Return
<1>5. Goes(p, "out", {})
  BY <1>2, <1>3, <1>4, GoesOnly, GoesThaws
<1> QED
  BY <1>1, <1>3, <1>5, NoCallOK, StepSimple

LEMMA StepExitLocked ==
  ASSUME Types, NEW p \in Proc, ExitLocked(p)
  PROVE  Effect(p) /\ VecStep(p)
<1>1. PICK to : to = IF undo[p] = NoVector THEN "dead" ELSE "exitwait"
  OBVIOUS
<1>2. pc' = [pc EXCEPT ![p] = to] /\ UNCHANGED <<sema, sem, undo, call, panicked>>
  BY <1>1 DEF ExitLocked
<1>3. pc \in [Proc -> Places] /\ call \in [Proc -> CallRec] /\ CallOK(p, call[p])
  BY DEF Types, LockInv, CallsOK
<1>4. to \in Places \ Sleepy /\ (to \in Exiting => undo[p] # NoVector)
  BY <1>1 DEF Places, Sleepy, Exiting
<1>5. call' = [call EXCEPT ![p] = call[p]]
  BY <1>2, <1>3
<1>6. Goes(p, to, {})
  BY <1>2, <1>3, GoesOnly
<1> QED
  BY <1>2, <1>3, <1>4, <1>5, <1>6, StepSimple

LEMMA StepFork ==
  ASSUME Types, NEW p \in Proc, Fork(p)
  PROVE  Effect(p) /\ VecStep(p)
<1>2. pc' = [pc EXCEPT ![p] = "out"] /\ UNCHANGED <<sema, sem, undo, call, panicked>>
  BY DEF Fork
<1>3. pc \in [Proc -> Places] /\ call \in [Proc -> CallRec] /\ CallOK(p, call[p])
  BY DEF Types, LockInv, CallsOK
<1>4. "out" \in Places \ Sleepy /\ "out" \notin Exiting
  BY DEF Places, Sleepy, Exiting
<1>5. call' = [call EXCEPT ![p] = call[p]]
  BY <1>2, <1>3
<1>6. Goes(p, "out", {})
  BY <1>2, <1>3, GoesOnly
<1> QED
  BY <1>2, <1>3, <1>4, <1>5, <1>6, StepSimple

\* A call about a set that is there.
LEMMA CallLives ==
  ASSUME Types, NEW p \in Proc, NEW do \in CtlOps \cup {"semop"}, NEW c \in Calls(p, do), Live(c.id),
         NEW ix, ix = c.id[1]
  PROVE  /\ ix \in Ix /\ sema[ix].alloc /\ sema[ix] \in SetRec /\ sema[ix].base + sema[ix].n <= semtot
         /\ sema[ix].base \in Nat /\ sema[ix].n \in Nat
<1>1. CallOK(p, c) /\ sema \in [Ix -> SetRec] /\ Laid(sema, semtot) /\ semtot \in Nat
  BY CallsAre DEF Types, Arrays
<1>2. ix \in Ix
  BY <1>1 DEF CallOK, CallRec
<1>3. sema[ix].alloc
  BY DEF Live
<1>4. sema[ix] \in SetRec
  BY <1>1, <1>2
<1> QED
  BY <1>1, <1>2, <1>3, <1>4, SetNums

\* Setval() and Setall(): values and vectors change, and the sleepers on the set are woken.
LEMMA StepRevalue ==
  ASSUME Types, NEW p \in Proc, NEW ix \in Ix, NEW num, undo' = semundo_clear(ix, num),
         sema' = sema, panicked' = panicked, sem' \in Sems(semtot), Revalued(sema, sem, sem', {ix}),
         pc' = WakeSets(Return(p), {ix}), call' = [call EXCEPT ![p] = NoCall]
  PROVE  Effect(p) /\ VecStep(p)
<1>1. pc \in [Proc -> Places] /\ VecsOK(undo, sema) /\ panicked \in BOOLEAN
  BY DEF Types, LockInv
<1>2. "out" \in Places \ Sleepy /\ "out" \notin Exiting /\ "out" # "semwait"
  BY DEF Places, Sleepy, Exiting
<1>3. pc' = WakeSets([pc EXCEPT ![p] = "out"], {ix})
  BY DEF Return
<1>4. Goes(p, "out", {ix})
  BY <1>1, <1>2, <1>3, GoesWakes
<1>5. PICK w : w = undo'
  OBVIOUS
<1>6. VecsOK(w, sema) /\ \A q \in Proc : w[q] = NoVector <=> undo[q] = NoVector
  BY <1>1, <1>5, ClearOK
<1>7. Simple(p, "out", {ix}, NoCall)
  BY <1>2, <1>4, <1>5, <1>6, NoCallOK DEF Simple
<1>8. VecStep(p)
  <2>1. pc'[p] = "out"
    BY <1>4 DEF Goes
  <2> QED
    BY <1>1, <1>2, <1>5, <1>6, <2>1 DEF VecStep
<1> QED
  BY <1>7, <1>8 DEF Effect

LEMMA StepSetval ==
  ASSUME Types, NEW p \in Proc, Setval(p)
  PROVE  Effect(p) /\ VecStep(p)
<1>1. PICK c \in Calls(p, "setval") :
        /\ Live(c.id)
        /\ \E num \in 0 .. sema[c.id[1]].n - 1, v \in 0 .. MaxVal :
             /\ sem' = [sem EXCEPT ![sema[c.id[1]].base + num].val = v]
             /\ undo' = semundo_clear(c.id[1], num)
        /\ pc' = WakeSets(Return(p), {c.id[1]}) /\ call' = [call EXCEPT ![p] = NoCall]
        /\ UNCHANGED <<sema, holder, panicked>>
  BY Zenon DEF Setval
<1>2. PICK ix : ix = c.id[1]
  OBVIOUS
<1>3. PICK num, v : /\ num \in 0 .. sema[ix].n - 1 /\ v \in 0 .. MaxVal
                    /\ sem' = [sem EXCEPT ![sema[ix].base + num].val = v]
                    /\ undo' = semundo_clear(ix, num)
  BY <1>1, <1>2
<1>4. /\ ix \in Ix /\ sema[ix].alloc /\ sema[ix] \in SetRec /\ sema[ix].base + sema[ix].n <= semtot
      /\ sema[ix].base \in Nat /\ sema[ix].n \in Nat
  BY <1>1, <1>2, CallLives DEF CtlOps
<1>5. semtot \in Nat /\ sem \in Sems(semtot)
  BY DEF Types, Arrays
<1>6. v \in Nat /\ num \in Nat /\ num < sema[ix].n
  BY <1>3, <1>4, SysVSemAssumption
<1>7. PICK w, t : w = sem' /\ t = semtot
  OBVIOUS
<1>8. w = SetVal(sem, sema[ix].base + num, v)
  BY <1>3, <1>7, Zenon DEF SetVal
<1>9. w \in Sems(t) /\ Revalued(sema, sem, w, {ix})
  BY <1>4, <1>5, <1>6, <1>7, <1>8, RevaluedOne
<1> QED
  BY <1>1, <1>2, <1>3, <1>4, <1>7, <1>9, StepRevalue

LEMMA StepSetall ==
  ASSUME Types, NEW p \in Proc, Setall(p)
  PROVE  Effect(p) /\ VecStep(p)
<1>1. PICK c \in Calls(p, "setall") :
        /\ Live(c.id)
        /\ \E done \in 0 .. sema[c.id[1]].n, v \in [0 .. sema[c.id[1]].n - 1 -> 0 .. MaxVal] :
             Fills(sema, c.id[1], sem, sem', done, v)
        /\ undo' = semundo_clear(c.id[1], -1)
        /\ pc' = WakeSets(Return(p), {c.id[1]}) /\ call' = [call EXCEPT ![p] = NoCall]
        /\ UNCHANGED <<sema, holder, panicked>>
  BY Zenon DEF Setall, Fills
<1>2. PICK ix : ix = c.id[1]
  OBVIOUS
<1>0. \E done \in 0 .. sema[ix].n, v \in [0 .. sema[ix].n - 1 -> 0 .. MaxVal] : Fills(sema, ix, sem, sem', done, v)
  BY <1>1, <1>2
<1>3. PICK done, v : /\ done \in 0 .. sema[ix].n /\ v \in [0 .. sema[ix].n - 1 -> 0 .. MaxVal]
                     /\ Fills(sema, ix, sem, sem', done, v)
  BY <1>0
<1>4. /\ ix \in Ix /\ sema[ix].alloc /\ sema[ix] \in SetRec /\ sema[ix].base + sema[ix].n <= semtot
      /\ sema[ix].base \in Nat /\ sema[ix].n \in Nat
  BY <1>1, <1>2, CallLives DEF CtlOps
<1>5. semtot \in Nat /\ sem \in Sems(semtot)
  BY DEF Types, Arrays
<1>6. done \in Nat /\ done <= sema[ix].n /\ v \in [0 .. sema[ix].n - 1 -> Nat]
  <2>1. MaxVal \in Nat
    BY SysVSemAssumption
  <2> QED
    BY <1>3, <1>4, <2>1
<1>7. PICK w, t : w = sem' /\ t = semtot
  OBVIOUS
<1>8. Fills(sema, ix, sem, w, done, v)
  BY <1>3, <1>7
<1>9. w \in Sems(t) /\ Revalued(sema, sem, w, {ix})
  BY <1>4, <1>5, <1>6, <1>7, <1>8, RevaluedSet
<1> QED
  BY <1>1, <1>2, <1>4, <1>7, <1>9, StepRevalue

\* The vector of a process that exits.
LEMMA ExitVector ==
  ASSUME sema \in [Ix -> SetRec], VecsOK(undo, sema), NEW p \in Proc, NEW f, f = IF undo[p] = NoVector THEN <<>> ELSE undo[p]
  PROVE  f \in Seq(Entry) /\ VecOK(f, sema) /\ BadEntry(f) = FALSE /\ {f[i].ix : i \in DOMAIN f} \subseteq Ix
<1>1. f \in Seq(Entry) /\ VecOK(f, sema)
  BY EmptyVecOK DEF VecsOK
<1>2. DOMAIN f = 1 .. Len(f)
  BY <1>1
<1>3. ASSUME NEW i \in DOMAIN f PROVE f[i].ix \in Ix /\ sema[f[i].ix].alloc /\ ~(f[i].num >= sema[f[i].ix].n)
  <2>1. f[i].ix \in Ix /\ sema[f[i].ix].alloc /\ f[i].num < sema[f[i].ix].n
    BY <1>1, <1>2 DEF VecOK
  <2>2. PICK x, y : x = f[i].num /\ y = sema[f[i].ix].n
    OBVIOUS
  <2>3. x \in Nat
    <3>1. f[i] \in Entry
      BY <1>1, <1>2
    <3> QED
      BY <2>2, <3>1 DEF Entry
  <2>4. y \in Nat
    BY <2>1, <2>2 DEF SetRec
  <2> QED
    BY <2>1, <2>2, <2>3, <2>4
<1>4. ~BadEntry(f)
  BY <1>3 DEF BadEntry
<1> QED
  BY <1>1, <1>3, <1>4

LEMMA NoVectorOK ==
  ASSUME NEW A, NEW u, VecsOK(u, A), NEW p \in Proc, NEW w, w = [u EXCEPT ![p] = NoVector]
  PROVE  VecsOK(w, A)
<1>1. u \in [Proc -> Seq(Entry) \cup {NoVector}]
  BY DEF VecsOK
<1>2. w \in [Proc -> Seq(Entry) \cup {NoVector}] /\ w[p] = NoVector /\ \A q \in Proc \ {p} : w[q] = u[q]
  BY <1>1
<1>3. Used(w) \subseteq Used(u)
  BY <1>2 DEF Used
<1>4. Cardinality(Used(w)) <= Cardinality(Used(u)) /\ Cardinality(Used(w)) \in Nat /\ Cardinality(Used(u)) \in Nat
  BY <1>3, UsedFinite, FS_Subset
<1>5. Cardinality(Used(u)) <= semmnu /\ semmnu \in Nat
  BY SysVSemAssumption DEF VecsOK, Used
<1>6. Cardinality(Used(w)) <= semmnu
  BY ONLY <1>4, <1>5
<1>7. \A q \in Proc : w[q] # NoVector => VecOK(w[q], A)
  BY <1>2 DEF VecsOK
<1> QED
  BY <1>2, <1>6, <1>7 DEF VecsOK, Used

LEMMA StepSemexit ==
  ASSUME Types, NEW p \in Proc, Semexit(p)
  PROVE  Effect(p) /\ VecStep(p)
<1>1. PICK f, X, sems : /\ f = IF undo[p] = NoVector THEN <<>> ELSE undo[p]
                        /\ X = {f[i].ix : i \in DOMAIN f} /\ sems = AdjustedAll(f)
  OBVIOUS
<1>2. /\ pc \in [Proc -> Places] /\ Arrays(sema, sem, semtot) /\ VecsOK(undo, sema) /\ sema \in [Ix -> SetRec]
      /\ call \in [Proc -> CallRec] /\ CallOK(p, call[p])
  BY DEF Types, LockInv, Arrays, CallsOK
<1>3. f \in Seq(Entry) /\ VecOK(f, sema) /\ BadEntry(f) = FALSE /\ X \subseteq Ix
  <2>1. /\ f \in Seq(Entry) /\ VecOK(f, sema) /\ BadEntry(f) = FALSE /\ {f[i].ix : i \in DOMAIN f} \subseteq Ix
    BY <1>1, <1>2, ExitVector
  <2> QED
    BY <1>1, <2>1
<1>4. /\ panicked' = FALSE /\ sem' = sems /\ undo' = [undo EXCEPT ![p] = NoVector]
      /\ \/ pc' = WakeLock(WakeSets([pc EXCEPT ![p] = "dead"], X))
         \/ pc' = WakeSets([pc EXCEPT ![p] = "dead"], X)
      /\ sema' = sema /\ call' = call
  <2> DEFINE F == IF undo[p] = NoVector THEN <<>> ELSE undo[p]
             Y == {F[i].ix : i \in DOMAIN F}
  <2>1. /\ panicked' = BadEntry(F)
        /\ ~BadEntry(F) => /\ sem' = AdjustedAll(F) /\ undo' = [undo EXCEPT ![p] = NoVector]
                           /\ \/ pc' = WakeLock(WakeSets([pc EXCEPT ![p] = "dead"], Y))
                              \/ pc' = WakeSets([pc EXCEPT ![p] = "dead"], Y)
        /\ UNCHANGED <<sema, call>>
    BY Zenon DEF Semexit
  <2>2. F = f /\ Y = X
    BY <1>1
  <2> HIDE DEF F, Y
  <2> QED
    BY <1>1, <1>3, <2>1, <2>2
<1>5. sems \in Sems(semtot) /\ Revalued(sema, sem, sems, X)
  BY <1>1, <1>2, <1>3, AdjustedAllOK
<1>6. Goes(p, "dead", X)
  BY <1>2, <1>4, GoesExits, GoesWakes
<1>7. VecsOK(undo', sema)
  BY <1>2, <1>4, NoVectorOK
<1>8. "dead" \in Places \ Sleepy /\ "dead" \notin Exiting
  BY DEF Places, Sleepy, Exiting
<1>9. call' = [call EXCEPT ![p] = call[p]]
  BY <1>2, <1>4
<1>10. Simple(p, "dead", X, call[p])
  BY <1>2, <1>3, <1>4, <1>5, <1>6, <1>7, <1>8, <1>9 DEF Simple
<1>11. VecStep(p)
  <2>1. pc'[p] = "dead"
    BY <1>6 DEF Goes
  <2>2. undo \in [Proc -> Seq(Entry) \cup {NoVector}]
    BY <1>2 DEF VecsOK
  <2>3. undo'[p] = NoVector /\ \A q \in Proc \ {p} : undo'[q] = undo[q]
    BY <1>4, <2>2
  <2> QED
    BY <1>4, <1>8, <2>1, <2>3 DEF VecStep
<1> QED
  BY <1>10, <1>11 DEF Effect

LEMMA StepExitWoken ==
  ASSUME Types, NEW p \in Proc, ExitWoken(p)
  PROVE  Effect(p) /\ VecStep(p)
<1>1. CASE holder = NoProc /\ undo[p] # NoVector
  BY <1>1, StepSemexit DEF ExitWoken
<1>2. CASE holder # NoProc
  <2>1. pc[p] = "exitwoken" /\ pc' = [pc EXCEPT ![p] = "exitwait"] /\ UNCHANGED <<sema, sem, undo, call, panicked>>
    BY <1>2 DEF ExitWoken
  <2>2. pc \in [Proc -> Places] /\ call \in [Proc -> CallRec] /\ CallOK(p, call[p])
    BY DEF Types, LockInv, CallsOK
  <2>3. "exitwait" \in Places \ Sleepy /\ pc[p] \in Exiting
    BY <2>1 DEF Places, Sleepy, Exiting
  <2>4. call' = [call EXCEPT ![p] = call[p]]
    BY <2>1, <2>2
  <2>5. Goes(p, "exitwait", {})
    BY <2>1, <2>2, GoesOnly
  <2> QED
    BY <2>1, <2>2, <2>3, <2>4, <2>5, StepSimple
<1>3. CASE holder = NoProc /\ undo[p] = NoVector
  <2>1. pc[p] = "exitwoken" /\ panicked' = TRUE /\ UNCHANGED <<sema, sem, undo, pc, call>>
    BY <1>3 DEF ExitWoken
  <2>2. /\ pc \in [Proc -> Places] /\ call \in [Proc -> CallRec] /\ CallOK(p, call[p])
        /\ Arrays(sema, sem, semtot) /\ VecsOK(undo, sema)
    BY DEF Types, LockInv, CallsOK
  <2>3. "exitwoken" \in Places \ Sleepy /\ pc[p] \in Exiting
    BY <2>1 DEF Places, Sleepy, Exiting
  <2>4. call' = [call EXCEPT ![p] = call[p]] /\ pc' = [pc EXCEPT ![p] = "exitwoken"]
    BY <2>1, <2>2
  <2>5. Goes(p, "exitwoken", {})
    BY <2>2, <2>4, GoesOnly
  <2>6. Revalued(sema, sem, sem', {}) /\ sem' \in Sems(semtot) /\ VecsOK(undo', sema)
    BY <2>1, <2>2 DEF Revalued, Arrays
  <2>7. Simple(p, "exitwoken", {}, call[p])
    BY <2>1, <2>2, <2>3, <2>4, <2>5, <2>6 DEF Simple
  <2>8. VecStep(p)
    BY <1>3, <2>1, <2>3 DEF VecStep
  <2> QED
    BY <2>7, <2>8 DEF Effect
<1> QED
  BY <1>1, <1>2, <1>3 DEF ExitWoken

LEMMA StepSemget ==
  ASSUME Types, NEW p \in Proc, Semget(p)
  PROVE  Effect(p) /\ VecStep(p)
<1>1. PICK n \in Sizes, ix \in Ix :
        /\ n <= semmns - semtot
        /\ ~sema[ix].alloc
        /\ Cardinality(Given(sema)) < MaxGets
        /\ sema' = [sema EXCEPT ![ix] = [alloc |-> TRUE, seq |-> (@.seq + 1) % SemSeqMod,
                                         base |-> semtot, n |-> n]]
        /\ sem' = [i \in 0 .. semtot + n - 1 |-> IF i < semtot THEN sem[i] ELSE Zero]
        /\ pc' = Return(p) /\ call' = [call EXCEPT ![p] = NoCall]
        /\ UNCHANGED <<undo, holder, panicked>>
  BY Zenon DEF Semget
<1>2. pc \in [Proc -> Places] /\ sema \in [Ix -> SetRec] /\ semtot \in Nat /\ panicked \in BOOLEAN
  BY DEF Types, LockInv, Arrays
<1>3. n \in Nat /\ n >= 1 /\ semtot + n <= semmns
  <2>1. Sizes \subseteq 1 .. semmns /\ semmns \in Nat
    BY SysVSemAssumption
  <2>2. n \in 1 .. semmns
    BY <2>1
  <2>3. PICK t : t = semtot
    OBVIOUS
  <2>4. t \in Nat /\ n <= semmns - t
    BY <1>1, <1>2, <2>3
  <2>5. n \in Nat /\ n >= 1 /\ t + n <= semmns
    BY ONLY <2>1, <2>2, <2>4
  <2> QED
    BY <2>3, <2>5
<1>4. /\ (sema[ix].seq + 1) % SemSeqMod = sema[ix].seq + 1
      /\ sema[ix].seq + 1 \in 0 .. SemSeqMod - 1
  BY <1>1, <1>2, SeqGrows
<1>5. Above(sema, sema', ix, sema[ix].seq + 1, semtot, n)
  <2>1. sema' = [sema EXCEPT ![ix] = [alloc |-> TRUE, seq |-> (sema[ix].seq + 1) % SemSeqMod,
                                      base |-> semtot, n |-> n]]
    BY <1>1, Zenon
  <2> QED
    BY <1>4, <2>1, Zenon DEF Above
<1>6. PICK u : u = semtot + n
  OBVIOUS
<1>7. Longer(sem, sem', semtot, semtot + n)
  <2>1. semtot + n - 1 = (semtot + n) - 1
    BY <1>2, <1>3
  <2> QED
    BY <1>1, <2>1, Zenon DEF Longer
<1>8. Goes(p, "out", {})
  <2>1. pc' = [pc EXCEPT ![p] = "out"]
    BY <1>1 DEF Return
  <2> QED
    BY <1>2, <2>1, GoesOnly
<1>9. Made(p, ix, n)
  BY <1>1, <1>3, <1>4, <1>5, <1>7, <1>8 DEF Made
<1>10. VecStep(p)
  <2>1. pc'[p] = "out"
    BY <1>8 DEF Goes
  <2> QED
    BY <1>1, <1>2, <2>1 DEF VecStep, Exiting
<1> QED
  BY <1>9, <1>10 DEF Effect

LEMMA StepRmid ==
  ASSUME Types, NEW p \in Proc, Rmid(p)
  PROVE  Effect(p) /\ VecStep(p)
<1>1. PICK c \in Calls(p, "rmid") :
        /\ Live(c.id)
        /\ QuietMoves => ~SleptAbove(sema[c.id[1]].base)
        /\ sem' = [i \in 0 .. semtot - sema[c.id[1]].n - 1 |->
                     IF i >= sema[c.id[1]].base THEN sem[i + sema[c.id[1]].n] ELSE sem[i]]
        /\ sema' = Lowered(c.id[1])
        /\ undo' = semundo_clear(c.id[1], -1)
        /\ pc' = WakeSets(Return(p), {c.id[1]}) /\ call' = [call EXCEPT ![p] = NoCall]
        /\ UNCHANGED <<holder, panicked>>
  BY Zenon DEF Rmid
<1>2. PICK ix, b, l : ix = c.id[1] /\ b = sema[ix].base /\ l = sema[ix].n
  OBVIOUS
<1>3. ix \in Ix /\ sema[ix].alloc
  BY <1>1, <1>2, CallLives DEF CtlOps
<1>4. pc \in [Proc -> Places] /\ VecsOK(undo, sema) /\ panicked \in BOOLEAN
  BY DEF Types, LockInv
<1>5. Shorter(sem, sem', b, l, semtot - l)
  BY <1>1, <1>2 DEF Shorter
<1>6. Goes(p, "out", {ix})
  <2>1. pc' = WakeSets([pc EXCEPT ![p] = "out"], {ix})
    BY <1>1, <1>2 DEF Return
  <2> QED
    BY <1>4, <2>1, GoesWakes
<1>7. sema' = Lowered(ix) /\ undo' = semundo_clear(ix, -1) /\ (QuietMoves => ~SleptAbove(b))
  BY <1>1, <1>2
<1>8. Removed(p, ix, b, l)
  BY <1>1, <1>2, <1>3, <1>5, <1>6, <1>7 DEF Removed
<1>9. VecStep(p)
  <2>1. pc'[p] = "out"
    BY <1>6 DEF Goes
  <2>2. PICK w : w = undo'
    OBVIOUS
  <2>3. \A q \in Proc : w[q] = NoVector <=> undo[q] = NoVector
    BY <1>4, <1>7, <2>2, ClearOK
  <2> QED
    BY <1>1, <1>4, <2>1, <2>2, <2>3 DEF VecStep, Exiting
<1> QED
  BY <1>8, <1>9 DEF Effect

\* The turns of semop(), of one who calls it and of one who has slept.
LEMMA StepTurn ==
  ASSUME Types, NEW p \in Proc, NEW c, CallOK(p, c), c.do = "semop", Live(c.id), NEW sems \in Sems(semtot),
         pc[p] \notin Exiting,
         \/ pc[p] \notin Sleepy /\ sems = sem
         \/ pc[p] = "semwoken" /\ c = call[p] /\ Dropped(sems, c.ptr, c.sops[c.at]),
         Turn(p, c, sems), sema' = sema
  PROVE  Effect(p) /\ VecStep(p)
<1>1. Arrays(sema, sem, semtot) /\ VecsOK(undo, sema) /\ pc \in [Proc -> Places] /\ panicked \in BOOLEAN
  BY DEF Types, LockInv
<1>2. c \in CallRec /\ c.sops \in Vectors[p]
  BY DEF CallOK
<1>3. Turned(p, c, sems)
  BY <1>1, <1>2, TurnOK
<1>4. Turns(p, c, sems)
  BY <1>2, <1>3 DEF Turns
<1>5. pc'[p] \in {"out", "semwait"}
  <2>1. CASE \E m \in 1 .. Len(c.sops), at \in 0 .. semtot - 1 : Sleeps(p, c, sema[c.id[1]], sems, m, at)
    BY <1>1, <2>1 DEF Sleeps
  <2>2. CASE \E n \in 0 .. Len(c.sops), w \in {"wake", "quiet"} : Returns(p, c, sema[c.id[1]], sems, n, w)
    <3>1. pc' = WakeSets(Return(p), {c.id[1]}) \/ pc' = Return(p)
      BY <2>2 DEF Returns
    <3>2. Return(p) \in [Proc -> Places] /\ Return(p)[p] = "out"
      BY <1>1 DEF Return, Places
    <3>3. pc'[p] = "out"
      BY <3>1, <3>2 DEF WakeSets
    <3> QED
      BY <3>3
  <2> QED
    BY <1>3, <2>1, <2>2 DEF Turned
<1>6. VecStep(p)
  <2>1. Beside(undo, undo', p) /\ (panicked' = panicked \/ panicked' = FALSE)
    BY <1>3 DEF Turned
  <2>2. Vectors[p] # {}
    BY <1>2
  <2>3. pc'[p] \notin Exiting
    BY <1>5 DEF Exiting
  <2>4. panicked' \in BOOLEAN /\ (panicked' => panicked)
    <3>1. CASE panicked' = panicked
      BY <1>1, <3>1
    <3>2. CASE panicked' = FALSE
      BY <3>2
    <3> QED
      BY <2>1, <3>1, <3>2
  <2> QED
    BY <2>1, <2>2, <2>3, <2>4 DEF VecStep
<1> QED
  BY <1>4, <1>6 DEF Effect

LEMMA StepSemop ==
  ASSUME Types, NEW p \in Proc, Semop(p)
  PROVE  Effect(p) /\ VecStep(p)
<1>1. PICK c \in Calls(p, "semop") : Live(c.id) /\ Turn(p, c, sem)
  BY DEF Semop
<1>2. sema' = sema
  BY DEF Semop
<1>3. CallOK(p, c) /\ c.do = "semop" /\ pc[p] \in {"out", "lockwoken"} /\ sem \in Sems(semtot)
  BY CallsAre DEF Types, Arrays
<1>4. pc[p] \notin Exiting /\ pc[p] \notin Sleepy
  BY <1>3 DEF Exiting, Sleepy
<1> QED
  BY <1>1, <1>2, <1>3, <1>4, StepTurn

LEMMA StepSemopWoken ==
  ASSUME Types, NEW p \in Proc, SemopWoken(p)
  PROVE  Effect(p) /\ VecStep(p)
<1>1. pc[p] = "semwoken" /\ sema' = sema
  BY DEF SemopWoken
<1>2. CASE Live(call[p].id)
  <2>1. PICK c, sems : c = call[p] /\ sems = Uncounted(c)
    OBVIOUS
  <2>2. Turn(p, c, sems) /\ Live(c.id)
    BY <1>2, <2>1 DEF SemopWoken
  <2>3. CallOK(p, c) /\ SleeperOK(c, sema) /\ sem \in Sems(semtot) /\ semtot \in Nat
    BY <1>1, <2>1 DEF Types, CallsOK, Sleepy, Arrays
  <2>4. c.do = "semop" /\ c.ptr \in Nat
    BY <2>3 DEF SleeperOK, CallOK, CallRec
  <2>5. sems \in Sems(semtot) /\ Dropped(sems, c.ptr, c.sops[c.at])
    BY <2>1, <2>3, <2>4, UncountedOK
  <2>6. pc[p] \notin Exiting
    BY <1>1 DEF Exiting
  <2> QED
    BY <1>1, <2>1, <2>2, <2>3, <2>4, <2>5, <2>6, StepTurn
<1>3. CASE ~Live(call[p].id)
  BY <1>3, StepReturn DEF SemopWoken
<1> QED
  BY <1>2, <1>3

\* Every step is one of these.
LEMMA NextEffect ==
  ASSUME Types, Next
  PROVE  \E p \in Proc : Effect(p) /\ VecStep(p)
<1>1. PICK p \in Proc :
       \/ Semlock(p) \/ Gone(p) \/ Semget(p) \/ SemgetFull(p) \/ Rmid(p) \/ Setval(p) \/ Setall(p)
       \/ Semconfig(p) \/ Semop(p) \/ SemopWoken(p) \/ SemopIntr(p)
       \/ Exit(p) \/ ExitLocked(p) \/ ExitWoken(p) \/ Fork(p)
  BY DEF Next
<1>2. CASE Gone(p) \/ SemgetFull(p) \/ SemopIntr(p)
  <2>1. pc' = Return(p) /\ call' = [call EXCEPT ![p] = NoCall] /\ UNCHANGED <<sema, sem, undo, panicked>>
    <3>1. CASE Gone(p)
      BY <3>1 DEF Gone, Return
    <3>2. CASE SemgetFull(p)
      BY <3>2, Zenon DEF SemgetFull
    <3>3. CASE SemopIntr(p)
      BY <3>3 DEF SemopIntr
    <3> QED
      BY <1>2, <3>1, <3>2, <3>3
  <2> QED
    BY <2>1, StepReturn
<1>3. CASE Exit(p)
  BY <1>3, StepSemexit DEF Exit
<1> QED
  BY <1>1, <1>2, <1>3, StepSemlock, StepSemget, StepRmid, StepSetval, StepSetall, StepSemconfig, StepSemop,
     StepSemopWoken, StepExitLocked, StepExitWoken, StepFork

-----------------------------------------------------------------------------
(* The arrays stay sound.                                                   *)

\* From A to B no number of a set is given a second time, and the sets that are still
\* there keep their size.
SetsKeep(A, B) ==
  \A ix \in Ix : /\ A[ix].seq <= B[ix].seq
                 /\ B[ix].alloc /\ B[ix].seq = A[ix].seq => A[ix].alloc /\ B[ix].n = A[ix].n

LEMMA LiveBefore ==
  ASSUME NEW A \in [Ix -> SetRec], NEW B \in [Ix -> SetRec], SetsKeep(A, B), NEW c \in CallRec,
         c.id[2] <= A[c.id[1]].seq, LiveIn(B, c.id)
  PROVE  LiveIn(A, c.id) /\ B[c.id[1]].n = A[c.id[1]].n
<1>1. PICK ix, k, x, y : ix = c.id[1] /\ k = c.id[2] /\ x = A[ix].seq /\ y = B[ix].seq
  OBVIOUS
<1>2. ix \in Ix /\ k \in Nat
  BY <1>1 DEF CallRec
<1>3. x \in Nat /\ y \in Nat
  <2>1. A[ix] \in SetRec /\ B[ix] \in SetRec
    BY <1>2
  <2>2. A[ix].seq \in 0 .. SemSeqMod - 1 /\ B[ix].seq \in 0 .. SemSeqMod - 1
    BY <2>1 DEF SetRec
  <2> QED
    BY <1>1, <2>2
<1>4. k <= x /\ x <= y /\ y = k /\ B[ix].alloc
  BY <1>1, <1>2 DEF SetsKeep, LiveIn
<1>5. x = y /\ x = k
  BY ONLY <1>2, <1>3, <1>4
<1> QED
  BY <1>1, <1>2, <1>4, <1>5 DEF SetsKeep, LiveIn

LEMMA SleeperKeeps ==
  ASSUME NEW A \in [Ix -> SetRec], NEW B \in [Ix -> SetRec], SetsKeep(A, B), NEW c \in CallRec, SleeperOK(c, A)
  PROVE  SleeperOK(c, B)
<1>1. LiveIn(B, c.id) => LiveIn(A, c.id) /\ B[c.id[1]].n = A[c.id[1]].n
  BY LiveBefore DEF SleeperOK
<1>2. c.id[2] <= B[c.id[1]].seq
  <2>1. PICK ix, k, x, y : ix = c.id[1] /\ k = c.id[2] /\ x = A[ix].seq /\ y = B[ix].seq
    OBVIOUS
  <2>2. ix \in Ix /\ k \in Nat
    BY <2>1 DEF CallRec
  <2>3. x \in Nat /\ y \in Nat
    <3>1. A[ix] \in SetRec /\ B[ix] \in SetRec
      BY <2>2
    <3>2. A[ix].seq \in 0 .. SemSeqMod - 1 /\ B[ix].seq \in 0 .. SemSeqMod - 1
      BY <3>1 DEF SetRec
    <3> QED
      BY <2>1, <3>2
  <2>4. k <= x /\ x <= y
    BY <2>1, <2>2 DEF SetsKeep, SleeperOK
  <2>5. k <= y
    BY ONLY <2>2, <2>3, <2>4
  <2> QED
    BY <2>1, <2>5
<1> QED
  BY <1>1, <1>2 DEF SleeperOK

\* The sleepers on sets are among those of before, but for p.
LEMMA SleepyBefore ==
  ASSUME pc \in [Proc -> Places], NEW p \in Proc, NEW to, NEW X, Goes(p, to, X), NEW q \in Proc \ {p}, pc'[q] \in Sleepy
  PROVE  /\ pc[q] \in Sleepy
         /\ pc'[q] = "semwait" => pc[q] = "semwait" /\ call[q].id[1] \notin X
BY DEF Goes, Sleepy, LockSleep, WokenFrom

LEMMA CallsStay ==
  ASSUME pc \in [Proc -> Places], CallsOK, NEW p \in Proc, NEW to, NEW X, Goes(p, to, X), NEW c, CallOK(p, c),
         to \in Sleepy => SleeperOK(c, sema'), call' = [call EXCEPT ![p] = c],
         sema \in [Ix -> SetRec], sema' \in [Ix -> SetRec], SetsKeep(sema, sema')
  PROVE  CallsOK'
<1>1. c \in CallRec /\ call \in [Proc -> CallRec]
  BY DEF CallOK, CallsOK
<1>2. call' \in [Proc -> CallRec] /\ call'[p] = c /\ \A q \in Proc \ {p} : call'[q] = call[q]
  BY <1>1
<1>3. ASSUME NEW q \in Proc \ {p} PROVE CallOK(q, call'[q]) /\ (pc'[q] \in Sleepy => SleeperOK(call'[q], sema'))
  <2>1. CallOK(q, call[q]) /\ call[q] \in CallRec /\ (pc[q] \in Sleepy => SleeperOK(call[q], sema))
    BY DEF CallsOK
  <2>2. pc'[q] \in Sleepy => pc[q] \in Sleepy
    BY SleepyBefore
  <2>3. pc'[q] \in Sleepy => SleeperOK(call[q], sema')
    BY <2>1, <2>2, SleeperKeeps
  <2> QED
    BY <1>2, <2>1, <2>3
<1>4. CallOK(p, call'[p]) /\ (pc'[p] \in Sleepy => SleeperOK(call'[p], sema'))
  BY <1>2 DEF Goes
<1>5. \A q \in Proc : CallOK(q, call'[q]) /\ (pc'[q] \in Sleepy => SleeperOK(call'[q], sema'))
  BY <1>3, <1>4
<1> QED
  BY <1>2, <1>5 DEF CallsOK

\* The two ends of a turn, with who is woken.
TurnSleeps(p, c, sems, m, at) ==
  Sleeps(p, c, sema[c.id[1]], sems, m, at) /\ Goes(p, "semwait", {})
TurnReturns(p, c, sems, n, X) ==
  /\ Changed(sema[c.id[1]], sems, c.sops, n, sem')
  /\ Plain(c.sops) => \A j \in 1 .. n : Wakes(c.sops[j], sems[sema[c.id[1]].base + c.sops[j].num]) => c.id[1] \in X
  /\ Goes(p, "out", X) /\ call' = [call EXCEPT ![p] = NoCall]

LEMMA TurnEnds ==
  ASSUME pc \in [Proc -> Places], NEW p \in Proc, NEW c, NEW sems, Turned(p, c, sems)
  PROVE  \/ \E m \in 1 .. Len(c.sops), at \in 0 .. semtot - 1 : TurnSleeps(p, c, sems, m, at)
         \/ \E X : \E n \in 0 .. Len(c.sops) : TurnReturns(p, c, sems, n, X)
<1>1. CASE \E m \in 1 .. Len(c.sops), at \in 0 .. semtot - 1 : Sleeps(p, c, sema[c.id[1]], sems, m, at)
  <2>1. PICK m \in 1 .. Len(c.sops), at \in 0 .. semtot - 1 : Sleeps(p, c, sema[c.id[1]], sems, m, at)
    BY <1>1
  <2>2. pc' = [pc EXCEPT ![p] = "semwait"]
    BY <2>1 DEF Sleeps
  <2>3. Goes(p, "semwait", {})
    BY <2>2, GoesOnly
  <2> QED
    BY <2>1, <2>3 DEF TurnSleeps
<1>2. CASE \E n \in 0 .. Len(c.sops), w \in {"wake", "quiet"} : Returns(p, c, sema[c.id[1]], sems, n, w)
  <2>1. PICK n \in 0 .. Len(c.sops), w \in {"wake", "quiet"} : Returns(p, c, sema[c.id[1]], sems, n, w)
    BY <1>2
  <2>2. PICK X : X = IF w = "wake" THEN {c.id[1]} ELSE {}
    OBVIOUS
  <2>3. Goes(p, "out", X)
    <3>1. CASE w = "wake"
      <4>1. pc' = WakeSets([pc EXCEPT ![p] = "out"], X)
        BY <2>1, <2>2, <3>1 DEF Returns, Return
      <4> QED
        BY <4>1, GoesWakes
    <3>2. CASE w # "wake"
      <4>1. pc' = [pc EXCEPT ![p] = "out"] /\ X = {}
        BY <2>1, <2>2, <3>2 DEF Returns, Return
      <4> QED
        BY <4>1, GoesOnly
    <3> QED
      BY <3>1, <3>2
  <2>4. w = "wake" => c.id[1] \in X
    BY <2>2
  <2>5. TurnReturns(p, c, sems, n, X)
    BY <2>1, <2>3, <2>4 DEF Returns, TurnReturns
  <2> QED
    BY <2>5
<1> QED
  BY <1>1, <1>2 DEF Turned

LEMMA SetsKeepSame == ASSUME NEW A \in [Ix -> SetRec] PROVE SetsKeep(A, A)
<1>1. ASSUME NEW ix \in Ix PROVE A[ix].seq <= A[ix].seq
  <2>1. A[ix] \in SetRec
    OBVIOUS
  <2>2. A[ix].seq \in 0 .. SemSeqMod - 1
    BY <2>1 DEF SetRec
  <2> QED
    BY <2>2
<1> QED
  BY <1>1 DEF SetsKeep

LEMMA CallsTurn ==
  ASSUME Types, NEW p \in Proc, NEW c, NEW sems, Turns(p, c, sems)
  PROVE  CallsOK'
<1>1. /\ pc \in [Proc -> Places] /\ CallsOK /\ sema \in [Ix -> SetRec] /\ SetsKeep(sema, sema)
      /\ sema' = sema /\ c \in CallRec /\ CallOK(p, c) /\ Live(c.id) /\ c.do = "semop"
  BY SetsKeepSame DEF Types, LockInv, Arrays, Turns
<1>2. CASE \E m \in 1 .. Len(c.sops), at \in 0 .. semtot - 1 : TurnSleeps(p, c, sems, m, at)
  <2>1. PICK m \in 1 .. Len(c.sops), at \in 0 .. semtot - 1 : TurnSleeps(p, c, sems, m, at)
    BY <1>2
  <2>2. PICK d : d = [c EXCEPT !.ptr = at, !.at = m]
    OBVIOUS
  <2>3. /\ Goes(p, "semwait", {}) /\ call' = [call EXCEPT ![p] = d] /\ c.sops[m].num < sema[c.id[1]].n
    BY <2>1, <2>2 DEF TurnSleeps, Sleeps
  <2>4. d \in CallRec /\ d.do = "semop" /\ d.id = c.id /\ d.sops = c.sops /\ d.at = m /\ d.ptr = at
    <3>1. m \in Nat /\ at \in Nat
      BY <1>1 DEF CallRec
    <3> QED
      BY <1>1, <2>2, <3>1 DEF CallRec
  <2>5. CallOK(p, d)
    BY <1>1, <2>4 DEF CallOK
  <2>6. SleeperOK(d, sema')
    <3>1. PICK ix, k, x : ix = c.id[1] /\ k = c.id[2] /\ x = sema[ix].seq
      OBVIOUS
    <3>2. ix \in Ix /\ k = x
      BY <1>1, <3>1 DEF CallRec, Live
    <3>3. sema[ix].seq \in 0 .. SemSeqMod - 1
      <4>1. sema[ix] \in SetRec
        BY <1>1, <3>2
      <4> QED
        BY <4>1 DEF SetRec
    <3>4. k <= x
      BY <3>1, <3>2, <3>3
    <3> QED
      BY <1>1, <2>3, <2>4, <3>1, <3>4 DEF SleeperOK
  <2> QED
    BY <1>1, <2>3, <2>5, <2>6, CallsStay
<1>3. CASE \E X : \E n \in 0 .. Len(c.sops) : TurnReturns(p, c, sems, n, X)
  <2>1. PICK X : Goes(p, "out", X) /\ call' = [call EXCEPT ![p] = NoCall]
    BY <1>3 DEF TurnReturns
  <2>2. "out" \notin Sleepy
    BY DEF Sleepy
  <2> QED
    BY <1>1, <2>1, <2>2, NoCallOK, CallsStay
<1> QED
  BY <1>1, <1>2, <1>3, TurnEnds DEF Turns

LEMMA CallsQuiet ==
  ASSUME Types, NEW p \in Proc, NEW to, NEW X, Goes(p, to, X), to \notin Sleepy, NEW c, CallOK(p, c),
         call' = [call EXCEPT ![p] = c], sema' \in [Ix -> SetRec], SetsKeep(sema, sema')
  PROVE  CallsOK'
BY CallsStay DEF Types, LockInv, Arrays

LEMMA TypesSimple ==
  ASSUME Types, LockInv', NEW p \in Proc, VecStep(p), NEW to, NEW X, NEW c, Simple(p, to, X, c)
  PROVE  Types'
<1>1. /\ Arrays(sema, sem, semtot) /\ sema' = sema /\ sem' \in Sems(semtot) /\ VecsOK(undo', sema')
      /\ sema \in [Ix -> SetRec] /\ semtot \in Nat
  BY DEF Types, Simple, Arrays
<1>2. CallsOK'
  <2>1. SetsKeep(sema, sema')
    BY <1>1, SetsKeepSame
  <2> QED
    BY <1>1, <2>1, CallsQuiet DEF Simple
<1>3. semtot' = semtot
  BY <1>1, Semtot DEF semtot
<1>4. Arrays(sema', sem', semtot')
  BY <1>1, <1>3 DEF Arrays
<1> QED
  BY <1>1, <1>2, <1>4 DEF Types, VecStep

LEMMA TypesTurn ==
  ASSUME Types, LockInv', NEW p \in Proc, VecStep(p), NEW c, NEW sems, Turns(p, c, sems)
  PROVE  Types'
<1>1. /\ Arrays(sema, sem, semtot) /\ sema' = sema /\ sem' \in Sems(semtot) /\ VecsOK(undo', sema') /\ semtot \in Nat
  BY DEF Types, Turns, Turned, Arrays
<1>2. CallsOK'
  BY CallsTurn
<1>3. semtot' = semtot
  BY <1>1, Semtot DEF semtot
<1>4. Arrays(sema', sem', semtot')
  BY <1>1, <1>3 DEF Arrays
<1> QED
  BY <1>1, <1>2, <1>4 DEF Types, VecStep

LEMMA TypesMade ==
  ASSUME Types, LockInv', NEW p \in Proc, VecStep(p), NEW ix, NEW n, Made(p, ix, n)
  PROVE  Types' /\ SetsKeep(sema, sema') /\ semtot' = semtot + n
<1>1. PICK t, u, q, B, w : t = semtot /\ u = t + n /\ q = sema[ix].seq + 1 /\ B = sema' /\ w = sem'
  OBVIOUS
<1>2. /\ ix \in Ix /\ n \in Nat /\ n >= 1 /\ ~sema[ix].alloc /\ u <= semmns /\ q \in 0 .. SemSeqMod - 1
      /\ Above(sema, B, ix, q, t, n) /\ Longer(sem, w, t, u) /\ undo' = undo
  BY <1>1 DEF Made
<1>3. Arrays(sema, sem, t) /\ sema \in [Ix -> SetRec] /\ VecsOK(undo, sema) /\ t \in Nat
  BY <1>1 DEF Types, Arrays
<1>4. Arrays(B, w, u)
  BY <1>1, <1>2, <1>3, SemgetArrays
<1>5. w \in Sems(u) /\ u \in Nat /\ B \in [Ix -> SetRec]
  BY <1>4 DEF Arrays
<1>6. semtot' = u
  BY <1>1, <1>5, Semtot DEF semtot
<1>7. B[ix] = [alloc |-> TRUE, seq |-> q, base |-> t, n |-> n] /\ \A jx \in Ix \ {ix} : B[jx] = sema[jx]
  BY <1>2, <1>3 DEF Above
<1>8. SetsKeep(sema, B)
  <2>1. \A jx \in Ix : sema[jx].seq \in Nat
    <3>1. ASSUME NEW jx \in Ix PROVE sema[jx].seq \in Nat
      <4>1. sema[jx] \in SetRec
        BY <1>3
      <4>2. sema[jx].seq \in 0 .. SemSeqMod - 1
        BY <4>1 DEF SetRec
      <4> QED
        BY <4>2
    <3> QED
      BY <3>1
  <2>2. B[ix].seq = sema[ix].seq + 1
    BY <1>1, <1>7
  <2>3. \A jx \in Ix \ {ix} : sema[jx].seq <= B[jx].seq
    BY <1>7, <2>1
  <2>4. sema[ix].seq <= B[ix].seq /\ B[ix].seq # sema[ix].seq
    BY <1>2, <2>1, <2>2
  <2> QED
    BY <1>7, <2>3, <2>4 DEF SetsKeep
<1>9. VecsOK(undo, B)
  <2>1. ASSUME NEW q2 \in Proc, undo[q2] # NoVector, NEW i \in 1 .. Len(undo[q2])
        PROVE  B[undo[q2][i].ix].alloc /\ B[undo[q2][i].ix].n = sema[undo[q2][i].ix].n
    <3>1. undo[q2][i].ix \in Ix /\ sema[undo[q2][i].ix].alloc
      BY <1>3, <2>1 DEF VecsOK, VecOK
    <3> QED
      BY <1>2, <1>7, <3>1
  <2>2. SetsSame(undo, sema, B)
    BY <2>1 DEF SetsSame
  <2> QED
    BY <1>3, <2>2, VecsCarry
<1>10. CallsOK'
  <2>1. Goes(p, "out", {}) /\ call' = [call EXCEPT ![p] = NoCall] /\ "out" \notin Sleepy
    BY DEF Made, Sleepy
  <2> QED
    BY <1>1, <1>5, <1>8, <2>1, NoCallOK, CallsQuiet
<1>11. Arrays(sema', sem', semtot') /\ VecsOK(undo', sema')
  BY <1>1, <1>2, <1>4, <1>6, <1>9
<1> QED
  BY <1>1, <1>6, <1>8, <1>10, <1>11 DEF Types, VecStep

\* What IPC_RMID leaves: the sets below stay and those above come down.
LEMMA RemovedArrays ==
  ASSUME Types, NEW p \in Proc, NEW ix, NEW b, NEW l, Removed(p, ix, b, l)
  PROVE  /\ Arrays(sema', sem', semtot') /\ semtot' = semtot - l /\ ix \in Ix /\ ~sema'[ix].alloc
         /\ \A jx \in Ix \ {ix} : Lower(sema, sema', jx, b, l)
         /\ sema'[ix].seq = sema[ix].seq
         /\ \A i \in 0 .. semtot' - 1 : i < b => sem'[i] = sem[i]
         /\ \A jx \in Ix \ {ix} : sema[jx].alloc => \/ sema[jx].base + sema[jx].n <= b /\ sema'[jx].base = sema[jx].base
                                                    \/ sema[jx].base > b /\ sema'[jx].base >= b
<1>1. PICK t, u, B, w : t = semtot /\ u = t - l /\ B = sema' /\ w = sem'
  OBVIOUS
<1>2. /\ ix \in Ix /\ sema[ix].alloc /\ b = sema[ix].base /\ l = sema[ix].n
      /\ Shorter(sem, w, b, l, u) /\ B = Lowered(ix)
  BY <1>1 DEF Removed
<1>3. Arrays(sema, sem, t) /\ sema \in [Ix -> SetRec] /\ t \in Nat /\ Laid(sema, t)
  BY <1>1 DEF Types, Arrays
<1>4. B \in [Ix -> SetRec] /\ ~B[ix].alloc /\ B[ix].seq = sema[ix].seq /\ \A jx \in Ix \ {ix} : Lower(sema, B, jx, b, l)
  BY <1>2, <1>3, LoweredIs
<1>5. /\ Arrays(B, w, u) /\ \A i \in 0 .. u - 1 : i < b => w[i] = sem[i]
      /\ \A jx \in Ix \ {ix} : sema[jx].alloc => \/ sema[jx].base + sema[jx].n <= b /\ B[jx].base = sema[jx].base
                                                 \/ sema[jx].base > b /\ B[jx].base >= b
  BY <1>1, <1>2, <1>3, <1>4, RmidArrays
<1>6. w \in Sems(u) /\ u \in Nat
  BY <1>5 DEF Arrays
<1>7. semtot' = u
  BY <1>1, <1>6, Semtot DEF semtot
<1> QED
  BY <1>1, <1>2, <1>4, <1>5, <1>7

LEMMA TypesRemoved ==
  ASSUME Types, LockInv', NEW p \in Proc, VecStep(p), NEW ix, NEW b, NEW l, Removed(p, ix, b, l)
  PROVE  Types' /\ SetsKeep(sema, sema')
<1>1. PICK B, w : B = sema' /\ w = undo'
  OBVIOUS
<1>2. /\ Arrays(sema', sem', semtot') /\ ix \in Ix /\ ~B[ix].alloc /\ B[ix].seq = sema[ix].seq
      /\ \A jx \in Ix \ {ix} : Lower(sema, B, jx, b, l)
  BY <1>1, RemovedArrays
<1>3. sema \in [Ix -> SetRec] /\ VecsOK(undo, sema) /\ w = semundo_clear(ix, -1) /\ B \in [Ix -> SetRec]
  BY <1>1, <1>2 DEF Types, Arrays, Removed
<1>4. VecsOK(w, sema) /\ \A q \in Proc : w[q] # NoVector => OfSet(w[q], ix) = {}
  BY <1>3, ClearOK
<1>5. SetsKeep(sema, B)
  <2>1. ASSUME NEW jx \in Ix PROVE sema[jx].seq <= sema[jx].seq
    BY <1>3, SetsKeepSame DEF SetsKeep
  <2> QED
    BY <1>2, <2>1 DEF SetsKeep, Lower
<1>6. VecsOK(w, B)
  <2>1. ASSUME NEW q \in Proc, w[q] # NoVector, NEW i \in 1 .. Len(w[q])
        PROVE  B[w[q][i].ix].alloc /\ B[w[q][i].ix].n = sema[w[q][i].ix].n
    <3>1. w[q] \in Seq(Entry) /\ w[q][i].ix \in Ix /\ sema[w[q][i].ix].alloc
      BY <1>4, <2>1 DEF VecsOK, VecOK
    <3>2. w[q][i].ix # ix
      <4>1. i \in DOMAIN w[q]
        BY <3>1
      <4> QED
        BY <1>4, <2>1, <4>1 DEF OfSet
    <3> QED
      BY <1>2, <3>1, <3>2 DEF Lower
  <2>2. SetsSame(w, sema, B)
    BY <2>1 DEF SetsSame
  <2> QED
    BY <1>4, <2>2, VecsCarry
<1>7. CallsOK'
  <2>1. Goes(p, "out", {ix}) /\ call' = [call EXCEPT ![p] = NoCall] /\ "out" \notin Sleepy
    BY DEF Removed, Sleepy
  <2> QED
    BY <1>1, <1>3, <1>5, <2>1, NoCallOK, CallsQuiet
<1> QED
  BY <1>1, <1>2, <1>5, <1>6, <1>7 DEF Types, VecStep

LEMMA TypesNext ==
  ASSUME Types, [Next]_vars
  PROVE  Types'
<1>1. CASE UNCHANGED vars
  <2>1. UNCHANGED <<sema, sem, undo, holder, pc, call, panicked>>
    BY <1>1 DEF vars
  <2>2. semtot' = semtot
    BY <2>1 DEF semtot
  <2>3. LockInv'
    BY <1>1, NextLock DEF Types
  <2> QED
    BY <2>1, <2>2, <2>3 DEF Types, CallsOK
<1>2. CASE Next
  <2>1. LockInv'
    BY <1>2, NextLock DEF Types
  <2>2. PICK p \in Proc : Effect(p) /\ VecStep(p)
    BY <1>2, NextEffect
  <2> QED
    BY <2>1, <2>2, TypesSimple, TypesTurn, TypesMade, TypesRemoved DEF Effect
<1> QED
  BY <1>1, <1>2

LEMMA InitTypes == Init => Types
<1> SUFFICES ASSUME Init PROVE Types
  OBVIOUS
<1>1. LockInv
  BY InitLock
<1>2. DOMAIN sem = {} /\ sem = [i \in {} |-> Zero]
  BY DEF Init
<1>3. semtot = 0
  BY <1>2, FS_EmptySet DEF semtot
<1>4. sem \in Sems(0)
  <2>1. 0 .. 0 - 1 = {}
    OBVIOUS
  <2> QED
    BY <1>2, <2>1 DEF Sems
<1>5. sema \in [Ix -> SetRec] /\ \A ix \in Ix : ~sema[ix].alloc
  <2>1. 0 \in 0 .. SemSeqMod - 1
    BY SysVSemAssumption
  <2> QED
    BY <2>1 DEF Init, SetRec
<1>6. Laid(sema, 0)
  BY <1>5 DEF Laid
<1>7. Arrays(sema, sem, semtot)
  BY <1>3, <1>4, <1>5, <1>6, SysVSemAssumption DEF Arrays
<1>8. VecsOK(undo, sema)
  <2>1. undo \in [Proc -> Seq(Entry) \cup {NoVector}] /\ \A p \in Proc : undo[p] = NoVector
    BY DEF Init
  <2>2. {p \in Proc : undo[p] # NoVector} = {}
    BY <2>1
  <2>3. Cardinality({p \in Proc : undo[p] # NoVector}) <= semmnu
    <3>1. semmnu \in Nat
      BY SysVSemAssumption
    <3> QED
      BY <2>2, <3>1, FS_EmptySet
  <2> QED
    BY <2>1, <2>3 DEF VecsOK
<1>9. CallsOK
  <2>1. \A p \in Proc : CallOK(p, NoCall)
    BY NoCallOK
  <2>2. NoCall \in CallRec \/ Proc = {}
    BY <2>1 DEF CallOK
  <2>3. call = [p \in Proc |-> NoCall] /\ \A p \in Proc : pc[p] = "out"
    BY DEF Init
  <2> QED
    BY <2>1, <2>2, <2>3 DEF CallsOK, Sleepy
<1> QED
  BY <1>1, <1>7, <1>8, <1>9 DEF Types, Init

LEMMA TypesTypeOK == Types => TypeOK
<1> SUFFICES ASSUME Types PROVE TypeOK
  OBVIOUS
<1>1. PICK t : t = semtot
  OBVIOUS
<1>2. /\ LockInv /\ t \in Nat /\ t <= semmns /\ sema \in [Ix -> SetRec] /\ sem \in Sems(t) /\ Laid(sema, t)
      /\ VecsOK(undo, sema) /\ panicked \in BOOLEAN
  BY <1>1 DEF Types, Arrays
<1>3. DOMAIN sem = 0 .. t - 1
  BY <1>2 DEF Sems
<1>4. \A i \in DOMAIN sem : sem[i].val \in Nat /\ {sem[i].ncnt, sem[i].zcnt} \subseteq 0 .. CntMod - 1
  <2>1. ASSUME NEW i \in DOMAIN sem PROVE sem[i].val \in Nat /\ {sem[i].ncnt, sem[i].zcnt} \subseteq 0 .. CntMod - 1
    <3>1. sem[i] \in SemRec
      BY <1>2, <1>3 DEF Sems
    <3> QED
      BY <3>1 DEF SemRec
  <2> QED
    BY <2>1
<1>5. ASSUME NEW ix \in Ix, sema[ix].alloc
      PROVE  /\ sema[ix].base \in Nat /\ sema[ix].n \in Nat /\ sema[ix].base + sema[ix].n <= t
             /\ sema[ix].base .. sema[ix].base + sema[ix].n - 1 =
                  {i \in Int : sema[ix].base <= i /\ i < sema[ix].base + sema[ix].n}
  <2>1. sema[ix].base \in Nat /\ sema[ix].n \in Nat /\ sema[ix].base + sema[ix].n <= t
    BY <1>2, <1>5, SetNums
  <2>2. PICK x, y : x = sema[ix].base /\ y = sema[ix].n
    OBVIOUS
  <2>3. x .. x + y - 1 = {i \in Int : x <= i /\ i < x + y}
    BY ONLY <2>1, <2>2
  <2> QED
    BY <2>1, <2>2, <2>3
<1>6. ASSUME NEW i \in 0 .. t - 1
      PROVE  Cardinality({ix \in Ix : sema[ix].alloc /\ i \in sema[ix].base .. sema[ix].base + sema[ix].n - 1}) = 1
  <2>1. PICK jx \in Ix : sema[jx].alloc /\ sema[jx].base <= i /\ i < sema[jx].base + sema[jx].n
    BY <1>2 DEF Laid
  <2>2. \A ix \in Ix : sema[ix].alloc /\ i \in sema[ix].base .. sema[ix].base + sema[ix].n - 1
                       <=> sema[ix].alloc /\ sema[ix].base <= i /\ i < sema[ix].base + sema[ix].n
    BY <1>5
  <2>3. ASSUME NEW ix \in Ix, sema[ix].alloc, sema[ix].base <= i, i < sema[ix].base + sema[ix].n PROVE ix = jx
    <3> SUFFICES ASSUME ix # jx PROVE FALSE
      OBVIOUS
    <3>1. sema[ix].base + sema[ix].n <= sema[jx].base \/ sema[jx].base + sema[jx].n <= sema[ix].base
      BY <1>2, <2>1, <2>3 DEF Laid
    <3>2. PICK x, y, v, w : x = sema[ix].base /\ y = sema[ix].n /\ v = sema[jx].base /\ w = sema[jx].n
      OBVIOUS
    <3>3. x \in Nat /\ y \in Nat /\ v \in Nat /\ w \in Nat
      BY <1>5, <2>1, <2>3, <3>2
    <3> QED
      BY <2>1, <2>3, <3>1, <3>2, <3>3
  <2>4. {ix \in Ix : sema[ix].alloc /\ i \in sema[ix].base .. sema[ix].base + sema[ix].n - 1} = {jx}
    BY <2>1, <2>2, <2>3
  <2> QED
    BY <2>4, FS_Singleton
<1>7. ASSUME NEW p \in Proc, undo[p] # NoVector
      PROVE  Len(undo[p]) <= SEMUME /\ \A i \in DOMAIN undo[p] : undo[p][i].adj \in Int \ {0}
  <2>1. PICK v : v = undo[p]
    OBVIOUS
  <2>2. v \in Seq(Entry) /\ VecOK(v, sema)
    BY <1>2, <1>7, <2>1 DEF VecsOK
  <2>3. ASSUME NEW i \in DOMAIN v PROVE v[i].adj \in Int \ {0}
    <3>1. i \in 1 .. Len(v) /\ v[i] \in Entry
      BY <2>2
    <3> QED
      BY <2>2, <3>1 DEF VecOK, Entry
  <2> QED
    BY <2>1, <2>2, <2>3 DEF VecOK
<1>8. \A p \in Proc : pc[p] \in Places
  BY <1>2 DEF LockInv
<1>9. holder \in Proc \cup {NoProc}
  BY <1>2 DEF LockInv
<1>10. Cardinality({p \in Proc : undo[p] # NoVector}) <= semmnu
  BY <1>2 DEF VecsOK
<1>11. \A ix \in Ix : sema[ix].alloc => sema[ix].base + sema[ix].n <= t
  BY <1>5
<1> QED
  BY <1>1, <1>2, <1>3, <1>4, <1>6, <1>7, <1>8, <1>9, <1>10, <1>11 DEF TypeOK

\* The inductive invariant holds in every behaviour.
THEOREM TypesHolds == Spec => []Types
<1>1. Types /\ [Next]_vars => Types'
  BY TypesNext
<1>2. QED
  BY <1>1, InitTypes, PTL DEF Spec

\* The sets divide the array sem among them without gap or overlap, values and counts keep
\* to their types, and there are no more undo vectors and entries than configured, whatever
\* sets are made and removed while processes sleep in semop().
THEOREM TypeCorrect == Spec => []TypeOK
<1> QED
  BY TypesHolds, TypesTypeOK, PTL

-----------------------------------------------------------------------------
(* No panic, as long as there is an undo vector for everybody who may need  *)
(* one.                                                                     *)

Users == {p \in Proc : Vectors[p] # {}}
Room  == Cardinality(Users) <= semmnu

\* Only those who call semop() have vectors, and nobody who sleeps in semexit() loses his.
RoomInv ==
  /\ Types /\ ~panicked
  /\ \A p \in Proc : /\ undo[p] # NoVector => Vectors[p] # {}
                     /\ pc[p] \in Exiting => undo[p] # NoVector

LEMMA SpareVector ==
  ASSUME Room, RoomInv, NEW p \in Proc, Vectors[p] # {}
  PROVE  Spare(undo, p)
<1> SUFFICES ASSUME undo[p] = NoVector PROVE Cardinality(Used(undo)) < semmnu
  BY DEF Spare
<1>1. IsFiniteSet(Users)
  BY SysVSemAssumption, FS_Subset DEF Users
<1>2. p \in Users /\ Used(undo) \subseteq Users \ {p}
  BY DEF Users, Used, RoomInv
<1>3. /\ IsFiniteSet(Users \ {p}) /\ Cardinality(Users \ {p}) = Cardinality(Users) - 1
      /\ Cardinality(Users) \in Nat
  BY <1>1, <1>2, FS_RemoveElement, FS_CardinalityType
<1>4. Cardinality(Used(undo)) <= Cardinality(Users \ {p}) /\ Cardinality(Used(undo)) \in Nat
  BY <1>2, <1>3, FS_Subset, UsedFinite
<1>5. semmnu \in Nat /\ Cardinality(Users) <= semmnu
  BY SysVSemAssumption DEF Room
<1>6. PICK x, y : x = Cardinality(Users) /\ y = Cardinality(Used(undo))
  OBVIOUS
<1> QED
  BY <1>3, <1>4, <1>5, <1>6

\* Whoever gets on his way out keeps his place there, but for waking up.
LEMMA ExitingBefore ==
  ASSUME Types, NEW p \in Proc, Effect(p), NEW q \in Proc \ {p}, pc'[q] \in Exiting
  PROVE  pc[q] \in Exiting
<1>1. pc \in [Proc -> Places]
  BY DEF Types, LockInv
<1>2. \E to, X : Goes(p, to, X)
  <2>1. CASE \E c, sems : Turns(p, c, sems)
    BY <1>1, <2>1, TurnEnds DEF Turns, TurnSleeps, TurnReturns
  <2>2. CASE ~\E c, sems : Turns(p, c, sems)
    BY <2>2 DEF Effect, Simple, Made, Removed
  <2> QED
    BY <2>1, <2>2
<1> QED
  BY <1>1, <1>2 DEF Goes, Exiting, LockSleep, WokenFrom

LEMMA RoomNext ==
  ASSUME Room, RoomInv, [Next]_vars
  PROVE  RoomInv'
<1>1. Types'
  BY TypesNext DEF RoomInv
<1>2. CASE UNCHANGED vars
  <2>1. UNCHANGED <<undo, pc, panicked>>
    BY <1>2 DEF vars
  <2> QED
    BY <1>1, <2>1 DEF RoomInv
<1>3. CASE Next
  <2>1. PICK p \in Proc : Effect(p) /\ VecStep(p)
    BY <1>3, NextEffect DEF RoomInv
  <2>2. ~panicked'
    <3>1. ~(pc[p] = "exitwoken" /\ undo[p] = NoVector)
      BY DEF RoomInv, Exiting
    <3> QED
      BY <2>1, <3>1 DEF VecStep, RoomInv
  <2>3. \A q \in Proc \ {p} : undo'[q] = NoVector <=> undo[q] = NoVector
    BY <2>1, SpareVector DEF VecStep, Beside
  <2>4. undo'[p] # NoVector => Vectors[p] # {}
    BY <2>1 DEF VecStep, RoomInv
  <2>5. pc'[p] \in Exiting => undo'[p] # NoVector
    <3>1. "dead" \notin Exiting
      BY DEF Exiting
    <3> QED
      BY <2>1, <3>1 DEF VecStep, RoomInv, Beside
  <2>6. \A q \in Proc \ {p} : pc'[q] \in Exiting => pc[q] \in Exiting
    BY <2>1, ExitingBefore DEF RoomInv
  <2>7. ASSUME NEW q \in Proc
        PROVE  /\ undo'[q] # NoVector => Vectors[q] # {}
               /\ pc'[q] \in Exiting => undo'[q] # NoVector
    BY <2>3, <2>4, <2>5, <2>6 DEF RoomInv
  <2> QED
    BY <1>1, <2>2, <2>7 DEF RoomInv
<1> QED
  BY <1>2, <1>3

\* With an undo vector for everybody who calls semop(), no panic() of sysv_sem.c is reached:
\* the undos that were done can be undone, whoever has slept in semexit() finds his vector
\* again, and its entries are about semaphores that exist.
THEOREM NoPanicHolds == ASSUME Room PROVE Spec => []StructuresSound
<1>1. Init => RoomInv
  <2> SUFFICES ASSUME Init PROVE RoomInv
    OBVIOUS
  <2>1. Types
    BY InitTypes
  <2>2. ~panicked /\ \A p \in Proc : undo[p] = NoVector /\ pc[p] = "out"
    BY DEF Init
  <2> QED
    BY <2>1, <2>2 DEF RoomInv, Exiting
<1>2. RoomInv /\ [Next]_vars => RoomInv'
  BY RoomNext
<1>3. RoomInv => StructuresSound
  BY TypesTypeOK DEF RoomInv, StructuresSound, NoPanic
<1>4. QED
  BY <1>1, <1>2, <1>3, PTL DEF Spec

-----------------------------------------------------------------------------
(* Nobody who sleeps in semop() goes uncounted, as long as the set that he  *)
(* sleeps on does not move under him.                                       *)

\* The semaphore that one sleeps at in the call c, with the sets A.
PlaceIn(A, c) == A[c.id[1]].base + c.sops[c.at].num

\* Those who sleep on a set that is there, after a step of p, slept on it before, and it has
\* not moved.
Stays(p) ==
  \A q \in Proc \ {p} : pc'[q] \in Sleepy /\ LiveIn(sema', call'[q].id) =>
    /\ pc[q] \in Sleepy /\ LiveIn(sema, call[q].id) /\ call'[q] = call[q]
    /\ sema'[call[q].id[1]].base = sema[call[q].id[1]].base /\ sema'[call[q].id[1]].n = sema[call[q].id[1]].n

LEMMA SleeperBefore ==
  ASSUME Types, sema' \in [Ix -> SetRec], NEW p \in Proc, NEW to, NEW X, Goes(p, to, X), NEW c, call' = [call EXCEPT ![p] = c],
         SetsKeep(sema, sema'), NEW q \in Proc \ {p}, pc'[q] \in Sleepy, LiveIn(sema', call'[q].id)
  PROVE  /\ pc[q] \in Sleepy /\ LiveIn(sema, call[q].id) /\ call'[q] = call[q] /\ call[q].id[1] \in Ix
         /\ sema'[call[q].id[1]].n = sema[call[q].id[1]].n
<1>1. pc \in [Proc -> Places] /\ CallsOK /\ sema \in [Ix -> SetRec]
  BY DEF Types, LockInv, Arrays
<1>2. pc[q] \in Sleepy
  BY <1>1, SleepyBefore
<1>3. call'[q] = call[q] /\ call[q] \in CallRec /\ SleeperOK(call[q], sema)
  BY <1>1, <1>2 DEF CallsOK
<1>4. LiveIn(sema, call[q].id) /\ sema'[call[q].id[1]].n = sema[call[q].id[1]].n
  BY <1>1, <1>3, LiveBefore DEF SleeperOK
<1>5. call[q].id[1] \in Ix
  BY <1>3 DEF CallRec
<1> QED
  BY <1>2, <1>3, <1>4, <1>5

LEMMA StaysSame ==
  ASSUME Types, sema' = sema, NEW p \in Proc, NEW to, NEW X, Goes(p, to, X), NEW c, call' = [call EXCEPT ![p] = c]
  PROVE  Stays(p)
<1>1. sema \in [Ix -> SetRec] /\ SetsKeep(sema, sema)
  BY SetsKeepSame DEF Types, Arrays
<1> QED
  BY <1>1, SleeperBefore DEF Stays

LEMMA StaysMade ==
  ASSUME Types, Types', SetsKeep(sema, sema'), NEW p \in Proc, NEW ix, NEW n, Made(p, ix, n)
  PROVE  Stays(p)
<1>1. sema \in [Ix -> SetRec] /\ sema' \in [Ix -> SetRec]
  BY DEF Types, Arrays
<1>2. /\ ix \in Ix /\ ~sema[ix].alloc /\ Above(sema, sema', ix, sema[ix].seq + 1, semtot, n)
      /\ Goes(p, "out", {}) /\ call' = [call EXCEPT ![p] = NoCall]
  BY DEF Made
<1>3. \A jx \in Ix \ {ix} : sema'[jx] = sema[jx]
  BY <1>1, <1>2 DEF Above
<1>4. ASSUME NEW q \in Proc \ {p}, pc'[q] \in Sleepy, LiveIn(sema', call'[q].id)
      PROVE  /\ pc[q] \in Sleepy /\ LiveIn(sema, call[q].id) /\ call'[q] = call[q]
             /\ sema'[call[q].id[1]].base = sema[call[q].id[1]].base /\ sema'[call[q].id[1]].n = sema[call[q].id[1]].n
  <2>1. /\ pc[q] \in Sleepy /\ LiveIn(sema, call[q].id) /\ call'[q] = call[q] /\ call[q].id[1] \in Ix
        /\ sema'[call[q].id[1]].n = sema[call[q].id[1]].n
    BY <1>1, <1>2, <1>4, SleeperBefore
  <2>2. call[q].id[1] # ix
    BY <1>2, <2>1 DEF LiveIn
  <2> QED
    BY <1>3, <2>1, <2>2
<1> QED
  BY <1>4 DEF Stays

LEMMA StaysRemoved ==
  ASSUME QuietMoves, Types, Types', SetsKeep(sema, sema'), NEW p \in Proc, NEW ix, NEW b, NEW l, Removed(p, ix, b, l)
  PROVE  /\ Stays(p)
         /\ \A q \in Proc \ {p} : pc'[q] \in Sleepy /\ LiveIn(sema', call'[q].id) =>
              sema[call[q].id[1]].base + sema[call[q].id[1]].n <= b
<1>1. sema \in [Ix -> SetRec] /\ sema' \in [Ix -> SetRec]
  BY DEF Types, Arrays
<1>2. Goes(p, "out", {ix}) /\ call' = [call EXCEPT ![p] = NoCall] /\ ~SleptAbove(b)
  BY DEF Removed
<1>3. /\ ~sema'[ix].alloc
      /\ \A jx \in Ix \ {ix} : sema[jx].alloc => \/ sema[jx].base + sema[jx].n <= b /\ sema'[jx].base = sema[jx].base
                                                 \/ sema[jx].base > b /\ sema'[jx].base >= b
  BY RemovedArrays
<1>4. ASSUME NEW q \in Proc \ {p}, pc'[q] \in Sleepy, LiveIn(sema', call'[q].id)
      PROVE  /\ pc[q] \in Sleepy /\ LiveIn(sema, call[q].id) /\ call'[q] = call[q]
             /\ sema'[call[q].id[1]].base = sema[call[q].id[1]].base /\ sema'[call[q].id[1]].n = sema[call[q].id[1]].n
             /\ sema[call[q].id[1]].base + sema[call[q].id[1]].n <= b
  <2>1. /\ pc[q] \in Sleepy /\ LiveIn(sema, call[q].id) /\ call'[q] = call[q] /\ call[q].id[1] \in Ix
        /\ sema'[call[q].id[1]].n = sema[call[q].id[1]].n
    BY <1>1, <1>2, <1>4, SleeperBefore
  <2>2. call[q].id[1] # ix
    BY <1>3, <1>4, <2>1 DEF LiveIn
  <2>3. ~(sema[call[q].id[1]].base > b)
    BY <1>2, <2>1 DEF SleptAbove, Sleepy
  <2> QED
    BY <1>3, <2>1, <2>2, <2>3 DEF LiveIn
<1> QED
  BY <1>4 DEF Stays

Kinds == {"z", "n"}
Kind(o) == IF o.op = 0 THEN "z" ELSE "n"
Count(m, i, k) == IF k = "z" THEN m[i].zcnt ELSE m[i].ncnt

\* q sleeps in semop() on a set that is there; those who do at i, for the same reason.
Asleep(q) == pc[q] \in Sleepy /\ LiveIn(sema, call[q].id)
Waiting(i, k) == {q \in Proc : Asleep(q) /\ i = PlaceIn(sema, call[q]) /\ k = Kind(call[q].sops[call[q].at])}

\* Whoever sleeps will be taken off the count that he is in, and the counts suffice.
CountInv ==
  /\ Types
  /\ \A q \in Proc : Asleep(q) => call[q].ptr = PlaceIn(sema, call[q])
  /\ \A i \in 0 .. semtot - 1, k \in Kinds : Cardinality(Waiting(i, k)) <= Count(sem, i, k)

LEMMA WaitingFinite ==
  ASSUME NEW i, NEW k, NEW S, S \subseteq Waiting(i, k)
  PROVE  /\ IsFiniteSet(Waiting(i, k)) /\ IsFiniteSet(S)
         /\ Cardinality(S) \in Nat /\ Cardinality(Waiting(i, k)) \in Nat /\ Cardinality(S) <= Cardinality(Waiting(i, k))
<1>1. IsFiniteSet(Waiting(i, k))
  BY SysVSemAssumption, FS_Subset DEF Waiting
<1> QED
  BY <1>1, FS_Subset, FS_CardinalityType

\* Where a sleeper sleeps.
LEMMA PlaceOf ==
  ASSUME Types, NEW q \in Proc, Asleep(q)
  PROVE  /\ PlaceIn(sema, call[q]) \in 0 .. semtot - 1 /\ call[q].id[1] \in Ix /\ sema[call[q].id[1]].alloc
         /\ sema[call[q].id[1]].base <= PlaceIn(sema, call[q])
         /\ PlaceIn(sema, call[q]) < sema[call[q].id[1]].base + sema[call[q].id[1]].n
         /\ Kind(call[q].sops[call[q].at]) \in Kinds
<1>1. PICK c, ix : c = call[q] /\ ix = c.id[1]
  OBVIOUS
<1>2. c \in CallRec /\ SleeperOK(c, sema) /\ LiveIn(sema, c.id)
  BY <1>1 DEF Types, CallsOK, Asleep
<1>3. ix \in Ix /\ sema[ix].alloc /\ c.at \in 1 .. Len(c.sops) /\ c.sops[c.at].num < sema[ix].n
  BY <1>1, <1>2 DEF CallRec, SleeperOK, LiveIn
<1>4. PICK b, n, m : b = sema[ix].base /\ n = sema[ix].n /\ m = c.sops[c.at].num
  OBVIOUS
<1>5. b \in Nat /\ n \in Nat /\ b + n <= semtot /\ semtot \in Nat
  BY <1>3, <1>4, SetNums DEF Types, Arrays
<1>6. m \in Nat
  <2>1. c.sops[c.at] \in Sembuf
    BY <1>2, <1>3 DEF CallRec
  <2> QED
    BY <1>4, <2>1 DEF Sembuf
<1>7. PICK t : t = semtot
  OBVIOUS
<1>8. b + m \in 0 .. t - 1 /\ b <= b + m /\ b + m < b + n
  <2>1. m < n /\ t \in Nat /\ b + n <= t
    BY <1>3, <1>4, <1>5, <1>7
  <2>2. b \in Nat /\ n \in Nat
    BY <1>5
  <2> QED
    BY ONLY <1>6, <2>1, <2>2
<1>9. PlaceIn(sema, call[q]) = b + m
  BY <1>1, <1>4 DEF PlaceIn
<1> QED
  BY <1>1, <1>3, <1>4, <1>7, <1>8, <1>9 DEF Kind, Kinds

LEMMA WaitingStay ==
  ASSUME NEW p \in Proc, Stays(p), NEW i, NEW k
  PROVE  Waiting(i, k)' \ {p} \subseteq Waiting(i, k)
<1> SUFFICES ASSUME NEW q \in Waiting(i, k)' \ {p} PROVE q \in Waiting(i, k)
  OBVIOUS
<1>1. /\ q \in Proc \ {p} /\ pc'[q] \in Sleepy /\ LiveIn(sema', call'[q].id) /\ i = PlaceIn(sema', call'[q])
      /\ k = Kind(call'[q].sops[call'[q].at])
  BY DEF Waiting, Asleep
<1>2. /\ pc[q] \in Sleepy /\ LiveIn(sema, call[q].id) /\ call'[q] = call[q]
      /\ sema'[call[q].id[1]].base = sema[call[q].id[1]].base
  BY <1>1 DEF Stays
<1>3. PlaceIn(sema', call'[q]) = PlaceIn(sema, call[q])
  BY <1>2 DEF PlaceIn
<1> QED
  BY <1>1, <1>2, <1>3 DEF Waiting, Asleep

\* The place in the count is that of the one who is counted, unless p has just gone to sleep.
LEMMA PtrStays ==
  ASSUME CountInv, NEW p \in Proc, Stays(p), NEW q \in Proc \ {p}, Asleep(q)'
  PROVE  call'[q].ptr = PlaceIn(sema', call'[q])
<1>1. pc'[q] \in Sleepy /\ LiveIn(sema', call'[q].id)
  BY DEF Asleep
<1>2. /\ pc[q] \in Sleepy /\ LiveIn(sema, call[q].id) /\ call'[q] = call[q]
      /\ sema'[call[q].id[1]].base = sema[call[q].id[1]].base
  BY <1>1 DEF Stays
<1>3. PlaceIn(sema', call'[q]) = PlaceIn(sema, call[q])
  BY <1>2 DEF PlaceIn
<1> QED
  BY <1>2, <1>3 DEF CountInv, Asleep

LEMMA NotAsleep ==
  ASSUME NEW p, NEW to, NEW X, Goes(p, to, X), to \notin Sleepy, NEW i, NEW k
  PROVE  ~Asleep(p)' /\ p \notin Waiting(i, k)'
BY DEF Goes, Asleep, Waiting

\* p is not asleep afterwards, and the others are counted where they were.
LEMMA CountNat ==
  ASSUME NEW t \in Nat, NEW m \in Sems(t), NEW i \in 0 .. t - 1, NEW k
  PROVE  Count(m, i, k) \in 0 .. CntMod - 1 /\ Count(m, i, k) \in Nat
<1>1. m[i] \in SemRec
  BY DEF Sems
<1>2. Count(m, i, k) \in 0 .. CntMod - 1
  BY <1>1 DEF SemRec, Count
<1>3. CntMod \in Nat
  BY SysVSemAssumption
<1> QED
  BY <1>2, <1>3

LEMMA CountStays ==
  ASSUME CountInv, Types', NEW p \in Proc, Stays(p), NEW to, NEW X, Goes(p, to, X), to \notin Sleepy,
         NEW m, semtot' \in Nat,
         \A i \in 0 .. semtot - 1, k \in Kinds : Cardinality(Waiting(i, k) \ {p}) <= Count(m, i, k),
         \A i \in 0 .. semtot' - 1, k \in Kinds :
            \/ i \in 0 .. semtot - 1 /\ Count(sem', i, k) = Count(m, i, k)
            \/ Waiting(i, k)' = {} /\ Count(sem', i, k) \in Nat
  PROVE  CountInv'
<1>1. \A q \in Proc : Asleep(q)' => call'[q].ptr = PlaceIn(sema', call'[q])
  BY PtrStays, NotAsleep
<1>2. ASSUME NEW i \in 0 .. semtot' - 1, NEW k \in Kinds
      PROVE  Cardinality(Waiting(i, k)') <= Count(sem', i, k)
  <2>1. PICK S : S = Waiting(i, k)'
    OBVIOUS
  <2>2. S \subseteq Waiting(i, k) /\ p \notin S
    BY <2>1, WaitingStay, NotAsleep
  <2>3. CASE i \in 0 .. semtot - 1 /\ Count(sem', i, k) = Count(m, i, k)
    <3>1. PICK R : R = Waiting(i, k) \ {p}
      OBVIOUS
    <3>2. S \subseteq R /\ IsFiniteSet(R) /\ Cardinality(R) \in Nat /\ Cardinality(R) <= Count(m, i, k)
      BY <2>2, <2>3, <3>1, WaitingFinite
    <3>3. Cardinality(S) <= Cardinality(R) /\ Cardinality(S) \in Nat
      BY <3>2, FS_Subset, FS_CardinalityType
    <3>4. Count(sem', i, k) \in Nat
      BY CountNat DEF Types, Arrays
    <3>5. PICK x, y, z : x = Cardinality(S) /\ y = Cardinality(R) /\ z = Count(sem', i, k)
      OBVIOUS
    <3>6. x <= z
      BY <2>3, <3>2, <3>3, <3>4, <3>5
    <3> QED
      BY <2>1, <3>5, <3>6
  <2>4. CASE Waiting(i, k)' = {} /\ Count(sem', i, k) \in Nat
    BY <2>4, FS_EmptySet
  <2> QED
    BY <2>3, <2>4
<1> QED
  BY <1>1, <1>2 DEF CountInv

LEMMA CountOthers ==
  ASSUME CountInv, NEW p, NEW i \in 0 .. semtot - 1, NEW k \in Kinds
  PROVE  Cardinality(Waiting(i, k) \ {p}) <= Count(sem, i, k)
<1>1. PICK x, y, z : x = Cardinality(Waiting(i, k) \ {p}) /\ y = Cardinality(Waiting(i, k)) /\ z = Count(sem, i, k)
  OBVIOUS
<1>2. x \in Nat /\ y \in Nat /\ x <= y
  BY <1>1, WaitingFinite
<1>3. z \in Nat
  BY <1>1, CountNat DEF CountInv, Types, Arrays
<1>4. y <= z
  BY <1>1 DEF CountInv
<1> QED
  BY <1>1, <1>2, <1>3, <1>4

LEMMA CountSimple ==
  ASSUME CountInv, Types', NEW p \in Proc, NEW to, NEW X, NEW c, Simple(p, to, X, c)
  PROVE  CountInv'
<1>1. /\ Types /\ sema' = sema /\ sem' \in Sems(semtot) /\ Revalued(sema, sem, sem', X) /\ semtot \in Nat
      /\ Goes(p, to, X) /\ to \notin Sleepy /\ call' = [call EXCEPT ![p] = c] /\ sem \in Sems(semtot)
  BY DEF CountInv, Simple, Types, Arrays
<1>2. semtot' = semtot
  BY <1>1, Semtot DEF semtot
<1>3. Stays(p)
  BY <1>1, StaysSame
<1>4. DOMAIN sem = 0 .. semtot - 1
  BY <1>1 DEF Sems
<1>5. \A i \in 0 .. semtot - 1, k \in Kinds : Count(sem', i, k) = Count(sem, i, k)
  BY <1>1, <1>4 DEF Revalued, Count
<1> QED
  BY <1>1, <1>2, <1>3, <1>5, CountOthers, CountStays

LEMMA CountMade ==
  ASSUME CountInv, Types', SetsKeep(sema, sema'), NEW p \in Proc, NEW ix, NEW n, Made(p, ix, n), semtot' = semtot + n
  PROVE  CountInv'
<1>1. PICK t, u : t = semtot /\ u = semtot'
  OBVIOUS
<1>2. /\ Types /\ t \in Nat /\ n \in Nat /\ u = t + n /\ Longer(sem, sem', t, u)
      /\ Goes(p, "out", {}) /\ call' = [call EXCEPT ![p] = NoCall] /\ "out" \notin Sleepy /\ u \in Nat
  BY <1>1 DEF CountInv, Made, Types, Arrays, Sleepy
<1>3. Stays(p)
  BY <1>2, StaysMade
<1>4. ASSUME NEW i \in 0 .. u - 1, NEW k \in Kinds
      PROVE  \/ i \in 0 .. t - 1 /\ Count(sem', i, k) = Count(sem, i, k)
             \/ Waiting(i, k)' = {} /\ Count(sem', i, k) \in Nat
  <2>1. CASE i < t
    <3>1. i \in 0 .. t - 1
      BY <1>2, <2>1
    <3>2. sem'[i] = sem[i]
      BY <1>2, <2>1 DEF Longer
    <3> QED
      BY <3>1, <3>2 DEF Count
  <2>2. CASE ~(i < t)
    <3>1. Count(sem', i, k) \in Nat
      BY <1>1, CountNat DEF Types, Arrays
    <3>2. Waiting(i, k)' \subseteq Waiting(i, k)
      BY <1>2, <1>3, WaitingStay, NotAsleep
    <3>3. ASSUME NEW q \in Waiting(i, k) PROVE FALSE
      <4>1. q \in Proc /\ Asleep(q) /\ i = PlaceIn(sema, call[q])
        BY DEF Waiting
      <4>2. i \in 0 .. t - 1
        BY <1>1, <1>2, <4>1, PlaceOf
      <4> QED
        BY <1>2, <2>2, <4>2
    <3> QED
      BY <3>1, <3>2, <3>3
  <2> QED
    BY <2>1, <2>2
<1> QED
  BY <1>1, <1>2, <1>3, <1>4, CountOthers, CountStays

LEMMA CountRemoved ==
  ASSUME QuietMoves, CountInv, Types', SetsKeep(sema, sema'), NEW p \in Proc, NEW ix, NEW b, NEW l, Removed(p, ix, b, l)
  PROVE  CountInv'
<1>1. PICK t, u : t = semtot /\ u = semtot'
  OBVIOUS
<1>2. /\ Types /\ t \in Nat /\ u \in Nat /\ sema \in [Ix -> SetRec] /\ Laid(sema, t)
      /\ Goes(p, "out", {ix}) /\ call' = [call EXCEPT ![p] = NoCall] /\ "out" \notin Sleepy
      /\ ix \in Ix /\ b = sema[ix].base /\ l = sema[ix].n
  BY <1>1 DEF CountInv, Removed, Types, Arrays, Sleepy
<1>3. /\ Stays(p)
      /\ \A q \in Proc \ {p} : pc'[q] \in Sleepy /\ LiveIn(sema', call'[q].id) =>
           sema[call[q].id[1]].base + sema[call[q].id[1]].n <= b
  BY <1>2, StaysRemoved
<1>4. u = t - l /\ \A i \in 0 .. u - 1 : i < b => sem'[i] = sem[i]
  BY <1>1, <1>2, RemovedArrays
<1>5. b \in Nat /\ l \in Nat
  BY <1>2, SetNums
<1>6. ASSUME NEW i \in 0 .. u - 1, NEW k \in Kinds
      PROVE  \/ i \in 0 .. t - 1 /\ Count(sem', i, k) = Count(sem, i, k)
             \/ Waiting(i, k)' = {} /\ Count(sem', i, k) \in Nat
  <2>0. i \in 0 .. t - 1
    BY <1>2, <1>4, <1>5
  <2>1. CASE i < b
    BY <1>4, <2>0, <2>1 DEF Count
  <2>2. CASE ~(i < b)
    <3>1. Count(sem', i, k) \in Nat
      BY <1>1, CountNat DEF Types, Arrays
    <3>2. ASSUME NEW q \in Waiting(i, k)' PROVE FALSE
      <4>1. q \in Proc \ {p} /\ pc'[q] \in Sleepy /\ LiveIn(sema', call'[q].id)
        BY <1>2, NotAsleep DEF Waiting, Asleep
      <4>2. q \in Waiting(i, k)
        BY <1>3, <4>1, WaitingStay
      <4>3. Asleep(q) /\ i = PlaceIn(sema, call[q])
        BY <4>2 DEF Waiting
      <4>4. PICK x, y : x = sema[call[q].id[1]].base /\ y = sema[call[q].id[1]].n
        OBVIOUS
      <4>5. x \in Nat /\ y \in Nat
        BY <1>2, <4>1, <4>3, <4>4, PlaceOf, SetNums
      <4>6. i < x + y
        BY <1>2, <4>1, <4>3, <4>4, PlaceOf
      <4>7. x + y <= b
        BY <1>3, <4>1, <4>4
      <4> QED
        BY <1>5, <2>0, <2>2, <4>5, <4>6, <4>7
    <3> QED
      BY <3>1, <3>2
  <2> QED
    BY <2>1, <2>2
<1> QED
  BY <1>1, <1>2, <1>3, <1>6, CountOthers, CountStays

LEMMA OneLess ==
  ASSUME NEW x \in 0 .. CntMod - 1, x >= 1
  PROVE  (x - 1) % CntMod = x - 1
<1>1. CntMod \in Nat
  BY SysVSemAssumption
<1>2. PICK y : y = x - 1
  OBVIOUS
<1>3. y \in 0 .. CntMod - 1
  BY <1>1, <1>2
<1>4. y % CntMod = y
  BY ONLY <1>1, <1>3
<1> QED
  BY <1>2, <1>4

\* At the start of a turn p is no longer counted, and the others are.
LEMMA TurnOthers ==
  ASSUME CountInv, NEW p \in Proc, NEW c, NEW sems, Turns(p, c, sems)
  PROVE  /\ \A i \in 0 .. semtot - 1, k \in Kinds : Cardinality(Waiting(i, k) \ {p}) <= Count(sems, i, k)
         /\ \A i \in 0 .. semtot - 1 : sems[i].val = sem[i].val
<1>1. CASE pc[p] \notin Sleepy /\ sems = sem
  BY <1>1, CountOthers
<1>2. CASE pc[p] = "semwoken" /\ c = call[p] /\ Dropped(sems, c.ptr, c.sops[c.at])
  <2>1. PICK a, o, k0, t : a = c.ptr /\ o = c.sops[c.at] /\ k0 = Kind(o) /\ t = semtot
    OBVIOUS
  <2>2. Types /\ t \in Nat /\ sem \in Sems(t) /\ DOMAIN sem = 0 .. t - 1
    BY <2>1 DEF CountInv, Types, Arrays, Sems
  <2>3. Asleep(p)
    BY <1>2 DEF Asleep, Sleepy, Turns, Live, LiveIn
  <2>4. a \in 0 .. t - 1 /\ a = PlaceIn(sema, call[p]) /\ k0 \in Kinds
    BY <1>2, <2>1, <2>2, <2>3, PlaceOf DEF CountInv
  <2>5. p \in Waiting(a, k0)
    BY <1>2, <2>1, <2>3, <2>4 DEF Waiting
  <2>6. PICK x, y, z : x = Count(sem, a, k0) /\ y = Cardinality(Waiting(a, k0)) /\ z = Cardinality(Waiting(a, k0) \ {p})
    OBVIOUS
  <2>7. y \in Nat /\ z \in Nat /\ z = y - 1
    <3>1. IsFiniteSet(Waiting(a, k0)) /\ y \in Nat /\ z \in Nat
      BY <2>6, WaitingFinite
    <3>2. Cardinality(Waiting(a, k0) \ {p}) = Cardinality(Waiting(a, k0)) - 1
      BY <2>5, <3>1, FS_RemoveElement
    <3> QED
      BY <2>6, <3>1, <3>2
  <2>8. x \in 0 .. CntMod - 1 /\ x \in Nat /\ y <= x
    BY <2>1, <2>2, <2>4, <2>6, CountNat DEF CountInv
  <2>9. x >= 1 /\ z <= x - 1
    BY <2>7, <2>8
  <2>10. (x - 1) % CntMod = x - 1
    BY <2>8, <2>9, OneLess
  <2>11. ~(a >= semtot) /\ Dropped(sems, a, o)
    BY <1>2, <2>1, <2>2, <2>4
  <2>12. /\ \A i \in 0 .. t - 1 : sems[i].val = sem[i].val /\ (i # a => sems[i] = sem[i])
         /\ \A k \in Kinds : Count(sems, a, k) = IF k = k0 THEN x - 1 ELSE Count(sem, a, k)
    <3>1. CASE o.op = 0
      <4>1. Counts(sem, sems, a, (sem[a].zcnt - 1) % CntMod, sem[a].ncnt)
        BY <2>11, <3>1, Zenon DEF Dropped
      <4>2. k0 = "z" /\ x = sem[a].zcnt
        BY <2>1, <2>6, <3>1 DEF Kind, Count
      <4>3. Counts(sem, sems, a, x - 1, sem[a].ncnt)
        BY <2>10, <4>1, <4>2
      <4> QED
        BY <2>2, <4>2, <4>3 DEF Counts, Count, Kinds
    <3>2. CASE o.op # 0
      <4>1. Counts(sem, sems, a, sem[a].zcnt, (sem[a].ncnt - 1) % CntMod)
        BY <2>11, <3>2, Zenon DEF Dropped
      <4>2. k0 = "n" /\ x = sem[a].ncnt
        BY <2>1, <2>6, <3>2 DEF Kind, Count
      <4>3. Counts(sem, sems, a, sem[a].zcnt, x - 1)
        BY <2>10, <4>1, <4>2
      <4> QED
        BY <2>2, <4>2, <4>3 DEF Counts, Count, Kinds
    <3> QED
      BY <3>1, <3>2
  <2>13. ASSUME NEW i \in 0 .. t - 1, NEW k \in Kinds
         PROVE  Cardinality(Waiting(i, k) \ {p}) <= Count(sems, i, k)
    <3>1. Cardinality(Waiting(i, k) \ {p}) <= Count(sem, i, k)
      BY <2>1, CountOthers
    <3>2. CASE i = a /\ k = k0
      BY <2>6, <2>9, <2>12, <3>2
    <3>3. CASE i = a /\ k # k0
      BY <2>12, <3>1, <3>3
    <3>4. CASE i # a
      <4>1. Count(sems, i, k) = Count(sem, i, k)
        BY <2>12, <3>4 DEF Count
      <4> QED
        BY <3>1, <4>1
    <3> QED
      BY <3>2, <3>3, <3>4
  <2> QED
    BY <2>1, <2>12, <2>13
<1> QED
  BY <1>1, <1>2 DEF Turns

LEMMA CountTurn ==
  ASSUME CountInv, Types', NEW p \in Proc, NEW c, NEW sems, Turns(p, c, sems)
  PROVE  CountInv'
<1>1. PICK t, s : t = semtot /\ s = sema[c.id[1]]
  OBVIOUS
<1>2. /\ Types /\ t \in Nat /\ sema' = sema /\ sem' \in Sems(t) /\ sems \in Sems(t) /\ c \in CallRec
      /\ pc \in [Proc -> Places] /\ call \in [Proc -> CallRec] /\ DOMAIN sems = 0 .. t - 1
  BY <1>1 DEF CountInv, Turns, Turned, Types, Arrays, LockInv, CallsOK, Sems
<1>3. semtot' = t
  BY <1>2, Semtot DEF semtot
<1>4. \A i \in 0 .. t - 1, k \in Kinds : Cardinality(Waiting(i, k) \ {p}) <= Count(sems, i, k)
  BY <1>1, TurnOthers
<1>5. CASE \E X : \E n \in 0 .. Len(c.sops) : TurnReturns(p, c, sems, n, X)
  <2>0. PICK X : \E n \in 0 .. Len(c.sops) : TurnReturns(p, c, sems, n, X)
    BY <1>5
  <2>1. PICK n \in 0 .. Len(c.sops) : TurnReturns(p, c, sems, n, X)
    BY <2>0
  <2>2. /\ Goes(p, "out", X) /\ call' = [call EXCEPT ![p] = NoCall] /\ "out" \notin Sleepy
        /\ Changed(s, sems, c.sops, n, sem')
    BY <1>1, <2>1 DEF TurnReturns, Sleepy
  <2>3. Stays(p)
    BY <1>2, <2>2, StaysSame
  <2>4. \A i \in 0 .. t - 1, k \in Kinds : Count(sem', i, k) = Count(sems, i, k)
    BY <1>2, <2>2 DEF Changed, Count
  <2> QED
    BY <1>1, <1>2, <1>3, <1>4, <2>2, <2>3, <2>4, CountStays
<1>6. CASE \E m \in 1 .. Len(c.sops), at \in 0 .. semtot - 1 : TurnSleeps(p, c, sems, m, at)
  <2>1. PICK m \in 1 .. Len(c.sops), at \in 0 .. semtot - 1 : TurnSleeps(p, c, sems, m, at)
    BY <1>6
  <2>2. PICK o, d, k0 : o = c.sops[m] /\ d = [c EXCEPT !.ptr = at, !.at = m] /\ k0 = Kind(o)
    OBVIOUS
  <2>3. /\ Goes(p, "semwait", {}) /\ call' = [call EXCEPT ![p] = d] /\ at = s.base + o.num
        /\ Bumped(sems, sem', at, o) /\ at \in 0 .. t - 1
    BY <1>1, <2>1, <2>2 DEF TurnSleeps, Sleeps
  <2>4. Stays(p)
    BY <1>2, <2>3, StaysSame
  <2>5. call'[p] = d /\ d.ptr = at /\ d.at = m /\ d.sops = c.sops /\ d.id = c.id
    BY <1>2, <2>2, <2>3 DEF CallRec
  <2>6. PlaceIn(sema', call'[p]) = at /\ Kind(call'[p].sops[call'[p].at]) = k0
    BY <1>1, <1>2, <2>2, <2>3, <2>5 DEF PlaceIn
  <2>7. \A q \in Proc : Asleep(q)' => call'[q].ptr = PlaceIn(sema', call'[q])
    BY <2>4, <2>5, <2>6, PtrStays
  <2>8. k0 \in Kinds
    BY <2>2 DEF Kind, Kinds
  <2>9. /\ \A i \in 0 .. t - 1 : i # at => sem'[i] = sems[i]
        /\ \A k \in Kinds : Count(sem', at, k) = IF k = k0 THEN Count(sems, at, k) + 1 ELSE Count(sems, at, k)
    <3>1. /\ o.op = 0 => Counts(sems, sem', at, sems[at].zcnt + 1, sems[at].ncnt)
          /\ o.op # 0 => Counts(sems, sem', at, sems[at].zcnt, sems[at].ncnt + 1)
      BY <1>2, <2>3, BumpedOK
    <3>2. CASE o.op = 0
      BY <1>2, <2>2, <3>1, <3>2 DEF Counts, Count, Kind, Kinds
    <3>3. CASE o.op # 0
      BY <1>2, <2>2, <3>1, <3>3 DEF Counts, Count, Kind, Kinds
    <3> QED
      BY <3>2, <3>3
  <2>10. ASSUME NEW i \in 0 .. t - 1, NEW k \in Kinds
         PROVE  Cardinality(Waiting(i, k)') <= Count(sem', i, k)
    <3>1. PICK R, S : R = Waiting(i, k) \ {p} /\ S = Waiting(i, k)'
      OBVIOUS
    <3>2. IsFiniteSet(R) /\ Cardinality(R) \in Nat /\ Cardinality(R) <= Count(sems, i, k)
      BY <1>4, <3>1, WaitingFinite
    <3>3. S \ {p} \subseteq R /\ p \notin R
      BY <2>4, <3>1, WaitingStay
    <3>4. Count(sems, i, k) \in Nat
      BY <1>2, CountNat
    <3>5. CASE i = at /\ k = k0
      <4>1. S \subseteq R \cup {p} /\ IsFiniteSet(R \cup {p}) /\ Cardinality(R \cup {p}) = Cardinality(R) + 1
        BY <3>2, <3>3, FS_AddElement
      <4>2. Cardinality(S) \in Nat /\ Cardinality(S) <= Cardinality(R \cup {p})
        BY <4>1, FS_Subset, FS_CardinalityType
      <4>3. Count(sem', i, k) = Count(sems, i, k) + 1
        BY <2>9, <3>5
      <4>4. PICK x, y, z : x = Cardinality(S) /\ y = Cardinality(R) /\ z = Count(sems, i, k)
        OBVIOUS
      <4>5. x <= z + 1
        BY <3>2, <3>4, <4>1, <4>2, <4>4
      <4> QED
        BY <3>1, <4>3, <4>4, <4>5
    <3>6. CASE ~(i = at /\ k = k0)
      <4>1. p \notin S
        BY <2>6, <3>1, <3>6 DEF Waiting
      <4>2. Cardinality(S) \in Nat /\ Cardinality(S) <= Cardinality(R)
        BY <3>2, <3>3, <4>1, FS_Subset, FS_CardinalityType
      <4>3. Count(sem', i, k) = Count(sems, i, k)
        BY <2>9, <3>6 DEF Count
      <4>4. PICK x, y, z : x = Cardinality(S) /\ y = Cardinality(R) /\ z = Count(sems, i, k)
        OBVIOUS
      <4>5. x <= z
        BY <3>2, <3>4, <4>2, <4>4
      <4> QED
        BY <3>1, <4>3, <4>4, <4>5
    <3> QED
      BY <3>5, <3>6
  <2> QED
    BY <1>3, <2>7, <2>10 DEF CountInv
<1> QED
  BY <1>2, <1>5, <1>6, TurnEnds DEF Turns

LEMMA CountNext ==
  ASSUME QuietMoves, CountInv, [Next]_vars
  PROVE  CountInv'
<1>1. CASE UNCHANGED vars
  <2>1. UNCHANGED <<sema, sem, undo, holder, pc, call, panicked>>
    BY <1>1 DEF vars
  <2>2. semtot' = semtot /\ \A i, k : Waiting(i, k)' = Waiting(i, k)
    BY <2>1 DEF semtot, Waiting, Asleep
  <2>3. Types'
    BY <1>1, TypesNext DEF CountInv
  <2> QED
    BY <2>1, <2>2, <2>3 DEF CountInv, Asleep
<1>2. CASE Next
  <2>1. Types /\ Types' /\ LockInv'
    BY <1>2, TypesNext DEF CountInv, Types
  <2>2. PICK p \in Proc : Effect(p) /\ VecStep(p)
    BY <1>2, <2>1, NextEffect
  <2>3. ASSUME NEW ix, NEW n, Made(p, ix, n) PROVE CountInv'
    BY <2>1, <2>2, <2>3, TypesMade, CountMade
  <2>4. ASSUME NEW ix, NEW b, NEW l, Removed(p, ix, b, l) PROVE CountInv'
    BY <2>1, <2>2, <2>4, TypesRemoved, CountRemoved
  <2> QED
    BY <2>1, <2>2, <2>3, <2>4, CountSimple, CountTurn DEF Effect
<1> QED
  BY <1>1, <1>2

LEMMA InitCount == Init => CountInv
<1> SUFFICES ASSUME Init PROVE CountInv
  OBVIOUS
<1>1. Types
  BY InitTypes
<1>2. \A q \in Proc : ~Asleep(q)
  BY DEF Init, Asleep, Sleepy
<1>3. DOMAIN sem = {}
  BY DEF Init
<1>4. semtot = 0
  BY <1>3, FS_EmptySet DEF semtot
<1> QED
  BY <1>1, <1>2, <1>4 DEF CountInv

LEMMA CountSleepers == CountInv => SleepersCounted
<1> SUFFICES ASSUME CountInv, NEW i \in 0 .. semtot - 1
             PROVE  LET S == {p \in Proc : SleepsAt(p, i)}
                        Z == {p \in S : call[p].sops[call[p].at].op = 0}
                    IN  Cardinality(Z) <= sem[i].zcnt /\ Cardinality(S \ Z) <= sem[i].ncnt
  BY DEF SleepersCounted
<1> DEFINE S == {p \in Proc : SleepsAt(p, i)}
           Z == {p \in S : call[p].sops[call[p].at].op = 0}
<1>1. \A p \in Proc : SleepsAt(p, i) <=> Asleep(p) /\ i = PlaceIn(sema, call[p])
  BY DEF SleepsAt, Asleep, Live, LiveIn, PlaceIn, Sleepy
<1>2. Z = Waiting(i, "z") /\ S \ Z = Waiting(i, "n")
  BY <1>1 DEF Waiting, Kind
<1>3. Cardinality(Waiting(i, "z")) <= sem[i].zcnt /\ Cardinality(Waiting(i, "n")) <= sem[i].ncnt
  BY DEF CountInv, Kinds, Count
<1> HIDE DEF S, Z
<1>4. Cardinality(Z) <= sem[i].zcnt /\ Cardinality(S \ Z) <= sem[i].ncnt
  BY <1>2, <1>3
<1> QED
  BY <1>4 DEF S, Z

\* While sets are removed only below sets that nobody sleeps on, semncnt and semzcnt count at
\* least those who sleep: no waiter is taken off the count of another semaphore than the one
\* he joined, and no count comes around.
THEOREM SleepersCountedHolds == ASSUME QuietMoves PROVE Spec => []SleepersCounted
<1>1. CountInv /\ [Next]_vars => CountInv'
  BY CountNext
<1>2. QED
  BY <1>1, InitCount, CountSleepers, PTL DEF Spec

-----------------------------------------------------------------------------
(* Nobody sleeps in semop() for what he could have.                         *)

\* The call c cannot go on with the sets A and the semaphores m: the operation that it sleeps
\* for has to wait, and those before it are on semaphores of the set.
StuckIn(c, A, m) ==
  /\ LiveIn(A, c.id)
  /\ \A j \in 1 .. c.at : c.sops[j].num < A[c.id[1]].n
  /\ Stops(c.sops[c.at], m[PlaceIn(A, c)])

AllPlain == \A p \in Proc : \A v \in Vectors[p] : Plain(v)

StuckInv ==
  /\ CountInv
  /\ \A q \in Proc : pc[q] = "semwait" => StuckIn(call[q], sema, sem)

\* Such a vector does stop, and not because it is too big.
LEMMA StuckWaits ==
  ASSUME AllPlain, Types, NEW q \in Proc, pc[q] = "semwait", StuckIn(call[q], sema, sem)
  PROVE  Live(call[q].id) /\ Try(sema[call[q].id[1]], sem, call[q].sops).end = "wait"
<1>1. PICK c, s, t, r, at, sops : /\ c = call[q] /\ s = sema[c.id[1]] /\ t = semtot /\ at = c.at /\ sops = c.sops
                                  /\ r = Try(s, sem, sops)
  OBVIOUS
<1>2. c \in CallRec /\ SleeperOK(c, sema) /\ sops \in Vectors[q] /\ sema \in [Ix -> SetRec] /\ sem \in Sems(t) /\ Laid(sema, t)
  BY <1>1 DEF Types, CallsOK, CallOK, SleeperOK, Sleepy, Arrays
<1>3. s \in SetRec /\ s.alloc /\ s.base + s.n <= t /\ t \in Nat /\ sops \in Seq(Sembuf) /\ at \in 1 .. Len(sops)
  <2>1. c.id[1] \in Ix /\ sops \in Seq(Sembuf) /\ at \in 1 .. Len(sops) /\ t \in Nat
    BY <1>1, <1>2 DEF CallRec, SleeperOK, Types, Arrays
  <2>2. s.alloc
    BY <1>1 DEF StuckIn, LiveIn
  <2> QED
    BY <1>1, <1>2, <2>1, <2>2, SetNums
<1>4. r \in TryRec(t) /\ Tried(s, sem, sops, Len(sops), r)
  BY <1>1, <1>2, <1>3, TryOK
<1>5. /\ r.n \in Nat /\ r.end \in {"none", "wait", "EFBIG"} /\ Len(sops) \in Nat
      /\ (r.end = "none" <=> r.n = Len(sops)) /\ r.n <= Len(sops)
      /\ Ends(s, sops, r.n, r.end, r.sem) /\ Changed(s, sem, sops, r.n, r.sem)
  BY <1>3, <1>4 DEF TryRec, Tried
<1>6. /\ \A j \in 1 .. at : sops[j].num < s.n
      /\ Stops(sops[at], sem[s.base + sops[at].num])
  BY <1>1 DEF StuckIn, PlaceIn
<1>7. Distinct(sops)
  BY <1>2 DEF AllPlain, Plain, Distinct
<1>8. ~(at <= r.n)
  <2> SUFFICES ASSUME at <= r.n PROVE FALSE
    OBVIOUS
  <2>1. at \in 1 .. r.n
    BY <1>3, <1>5
  <2> QED
    BY <1>5, <1>6, <1>7, <2>1 DEF Changed
<1>9. r.n < at /\ r.n + 1 \in 1 .. at
  BY <1>3, <1>5, <1>8
<1>10. r.end # "none"
  BY <1>3, <1>5, <1>9
<1>11. r.end # "EFBIG"
  <2> SUFFICES ASSUME r.end = "EFBIG" PROVE FALSE
    OBVIOUS
  <2>1. PICK x, y : x = sops[r.n + 1].num /\ y = s.n
    OBVIOUS
  <2>2. x < y /\ x >= y
    BY <1>5, <1>6, <1>9, <2>1 DEF Ends
  <2>3. x \in Nat /\ y \in Nat
    <3>1. r.n + 1 \in 1 .. Len(sops)
      BY <1>3, <1>9
    <3>2. sops[r.n + 1] \in Sembuf
      BY <1>3, <3>1
    <3> QED
      BY <1>3, <2>1, <3>2 DEF Sembuf, SetRec
  <2> QED
    BY <2>2, <2>3
<1>12. r.end = "wait"
  BY <1>5, <1>10, <1>11
<1> QED
  BY <1>1, <1>12 DEF StuckIn, LiveIn, Live

LEMMA StuckServed == AllPlain /\ StuckInv => WaitersServed
  BY StuckWaits DEF StuckInv, CountInv, WaitersServed

\* One who sleeps goes on being stuck if his set stays and the value that he waits at does not
\* let him go.
LEMMA StuckKeeps ==
  ASSUME NEW A, NEW B, NEW m, NEW w, NEW c, StuckIn(c, A, m), LiveIn(B, c.id), B[c.id[1]].base = A[c.id[1]].base, B[c.id[1]].n = A[c.id[1]].n,
         w[PlaceIn(A, c)].val = m[PlaceIn(A, c)].val \/ Stops(c.sops[c.at], w[PlaceIn(A, c)])
  PROVE  StuckIn(c, B, w)
<1>1. PlaceIn(B, c) = PlaceIn(A, c)
  BY DEF PlaceIn
<1> QED
  BY <1>1 DEF StuckIn, Stops

\* Two sets do not share a semaphore.
LEMMA OneSet ==
  ASSUME NEW A \in [Ix -> SetRec], NEW t \in Nat, Laid(A, t), NEW ix \in Ix, NEW jx \in Ix, A[ix].alloc, A[jx].alloc, NEW i \in Int,
         A[ix].base <= i, i < A[ix].base + A[ix].n, A[jx].base <= i, i < A[jx].base + A[jx].n
  PROVE  ix = jx
<1> SUFFICES ASSUME ix # jx PROVE FALSE
  OBVIOUS
<1>1. A[ix].base + A[ix].n <= A[jx].base \/ A[jx].base + A[jx].n <= A[ix].base
  BY DEF Laid
<1>2. PICK x, y, v, w : x = A[ix].base /\ y = A[ix].n /\ v = A[jx].base /\ w = A[jx].n
  OBVIOUS
<1>3. x \in Nat /\ y \in Nat /\ v \in Nat /\ w \in Nat
  BY <1>2, SetNums
<1> QED
  BY <1>1, <1>2, <1>3

\* Whoever waits with the operation o, and is counted, waits still after an operation e that
\* does not call for wakeup().
LEMMA StillWaits ==
  ASSUME NEW sm \in SemRec, NEW sw, NEW o, NEW e, o.op \in Int, e.op \in Int, Stops(o, sm),
         o.op = 0 => sm.zcnt >= 1, o.op # 0 => sm.ncnt >= 1,
         ~Stops(e, sm), ~Wakes(e, sm), sw.val = sm.val + e.op
  PROVE  Stops(o, sw)
<1>1. PICK x, y, a, b, z, n : x = sm.val /\ y = sw.val /\ a = o.op /\ b = e.op /\ z = sm.zcnt /\ n = sm.ncnt
  OBVIOUS
<1>2. x \in Nat /\ a \in Int /\ b \in Int /\ z \in Int /\ n \in Int
  <2>1. sm.zcnt \in 0 .. CntMod - 1 /\ sm.ncnt \in 0 .. CntMod - 1 /\ sm.val \in Nat
    BY DEF SemRec
  <2>2. CntMod \in Nat
    BY SysVSemAssumption
  <2> QED
    BY <1>1, <2>1, <2>2
<1>3. x + a < 0 \/ (a = 0 /\ x + a > 0)
  BY <1>1 DEF Stops
<1>4. ~(x + b < 0) /\ ~(b = 0 /\ x + b > 0)
  BY <1>1 DEF Stops
<1>5. ~(b < 0 /\ x + b = 0 /\ z > 0) /\ ~(b > 0 /\ n > 0)
  BY <1>1 DEF Wakes
<1>6. (a = 0 => z >= 1) /\ (a # 0 => n >= 1) /\ y = x + b
  BY <1>1
<1>7. y + a < 0 \/ (a = 0 /\ y + a > 0)
  BY ONLY <1>2, <1>3, <1>4, <1>5, <1>6
<1> QED
  BY <1>1, <1>7 DEF Stops

\* Those who sleep on after a step of p slept before it, on a set that nobody was woken from.
LEMMA SleptOn ==
  ASSUME StuckInv, NEW p \in Proc, NEW to, NEW X, Goes(p, to, X), NEW c, call' = [call EXCEPT ![p] = c],
         NEW q \in Proc \ {p}, pc'[q] = "semwait"
  PROVE  /\ pc[q] = "semwait" /\ call'[q] = call[q] /\ call[q].id[1] \notin X /\ call[q].id[1] \in Ix
         /\ StuckIn(call[q], sema, sem) /\ Asleep(q)
<1>1. pc \in [Proc -> Places] /\ Types /\ CallsOK
  BY DEF StuckInv, CountInv, Types, LockInv
<1>2. pc[q] = "semwait" /\ call[q].id[1] \notin X
  BY <1>1, SleepyBefore DEF Sleepy
<1>3. call'[q] = call[q] /\ call[q] \in CallRec
  BY <1>1 DEF CallsOK
<1>4. StuckIn(call[q], sema, sem)
  BY <1>2 DEF StuckInv
<1>5. Asleep(q)
  BY <1>2, <1>4 DEF Asleep, Sleepy, StuckIn
<1>6. call[q].id[1] \in Ix
  BY <1>3 DEF CallRec
<1> QED
  BY <1>2, <1>3, <1>4, <1>5, <1>6

LEMMA StuckSimple ==
  ASSUME StuckInv, NEW p \in Proc, NEW to, NEW X, NEW c, Simple(p, to, X, c), NEW q \in Proc, pc'[q] = "semwait"
  PROVE  StuckIn(call'[q], sema', sem')
<1>1. /\ sema' = sema /\ X \subseteq Ix /\ Revalued(sema, sem, sem', X) /\ Goes(p, to, X) /\ to \notin Sleepy
      /\ call' = [call EXCEPT ![p] = c]
  BY DEF Simple
<1>2. q \in Proc \ {p}
  BY <1>1 DEF Goes, Sleepy
<1>3. /\ call'[q] = call[q] /\ call[q].id[1] \notin X /\ call[q].id[1] \in Ix
      /\ StuckIn(call[q], sema, sem) /\ Asleep(q)
  BY <1>1, <1>2, SleptOn
<1>4. PICK i, ix, t : i = PlaceIn(sema, call[q]) /\ ix = call[q].id[1] /\ t = semtot
  OBVIOUS
<1>5. /\ Types /\ t \in Nat /\ sema \in [Ix -> SetRec] /\ Laid(sema, t) /\ DOMAIN sem = 0 .. t - 1
  BY <1>4 DEF StuckInv, CountInv, Types, Arrays, Sems
<1>6. i \in 0 .. t - 1 /\ sema[ix].alloc /\ sema[ix].base <= i /\ i < sema[ix].base + sema[ix].n
  BY <1>3, <1>4, <1>5, PlaceOf
<1>7. ~Within(sema, i, X)
  <2> SUFFICES ASSUME Within(sema, i, X) PROVE FALSE
    OBVIOUS
  <2>1. PICK jx \in X : sema[jx].alloc /\ sema[jx].base <= i /\ i < sema[jx].base + sema[jx].n
    BY DEF Within
  <2>2. jx \in Ix /\ ix \in Ix
    BY <1>1, <1>3, <1>4
  <2>3. ix = jx
    BY <1>5, <1>6, <2>1, <2>2, OneSet
  <2> QED
    BY <1>3, <1>4, <2>1, <2>3
<1>8. sem'[i].val = sem[i].val
  BY <1>1, <1>5, <1>6, <1>7 DEF Revalued
<1>9. LiveIn(sema', call[q].id)
  BY <1>1, <1>3 DEF StuckIn
<1> QED
  BY <1>1, <1>3, <1>4, <1>8, <1>9, StuckKeeps

LEMMA StuckMade ==
  ASSUME StuckInv, NEW p \in Proc, NEW ix, NEW n, Made(p, ix, n), NEW q \in Proc, pc'[q] = "semwait"
  PROVE  StuckIn(call'[q], sema', sem')
<1>1. PICK t, u : t = semtot /\ u = t + n
  OBVIOUS
<1>2. /\ ix \in Ix /\ ~sema[ix].alloc /\ Above(sema, sema', ix, sema[ix].seq + 1, t, n) /\ Longer(sem, sem', t, u) /\ n \in Nat
      /\ Goes(p, "out", {}) /\ call' = [call EXCEPT ![p] = NoCall]
  BY <1>1 DEF Made
<1>3. q \in Proc \ {p}
  BY <1>2 DEF Goes
<1>4. /\ call'[q] = call[q] /\ call[q].id[1] \in Ix
      /\ StuckIn(call[q], sema, sem) /\ Asleep(q)
  BY <1>2, <1>3, SleptOn
<1>5. Types /\ t \in Nat /\ sema \in [Ix -> SetRec]
  BY <1>1 DEF StuckInv, CountInv, Types, Arrays
<1>6. PICK i : i = PlaceIn(sema, call[q])
  OBVIOUS
<1>7. i \in 0 .. t - 1 /\ sema[call[q].id[1]].alloc
  BY <1>1, <1>4, <1>5, <1>6, PlaceOf
<1>8. sema'[call[q].id[1]] = sema[call[q].id[1]]
  <2>1. \A jx \in Ix \ {ix} : sema'[jx] = sema[jx]
    BY <1>2, <1>5 DEF Above
  <2> QED
    BY <1>2, <1>4, <1>7, <2>1
<1>9. sem'[i] = sem[i]
  <2>1. i \in 0 .. u - 1 /\ i < t
    BY <1>1, <1>2, <1>5, <1>7
  <2> QED
    BY <1>2, <2>1 DEF Longer
<1>10. LiveIn(sema', call[q].id)
  BY <1>4, <1>8 DEF StuckIn, LiveIn
<1> QED
  BY <1>4, <1>6, <1>8, <1>9, <1>10, StuckKeeps

LEMMA StuckRemoved ==
  ASSUME QuietMoves, StuckInv, Types', SetsKeep(sema, sema'), NEW p \in Proc, NEW ix, NEW b, NEW l, Removed(p, ix, b, l),
         NEW q \in Proc, pc'[q] = "semwait"
  PROVE  StuckIn(call'[q], sema', sem')
<1>1. PICK t, u, jx : t = semtot /\ u = semtot' /\ jx = call[q].id[1]
  OBVIOUS
<1>2. /\ Types /\ t \in Nat /\ u \in Nat /\ sema \in [Ix -> SetRec] /\ Laid(sema, t)
      /\ Goes(p, "out", {ix}) /\ call' = [call EXCEPT ![p] = NoCall]
      /\ ix \in Ix /\ b = sema[ix].base /\ l = sema[ix].n /\ sema[ix].alloc
  BY <1>1 DEF StuckInv, CountInv, Removed, Types, Arrays
<1>3. q \in Proc \ {p}
  BY <1>2 DEF Goes
<1>4. /\ call'[q] = call[q] /\ jx # ix /\ jx \in Ix /\ StuckIn(call[q], sema, sem) /\ Asleep(q)
  <2>1. /\ call'[q] = call[q] /\ call[q].id[1] \notin {ix} /\ call[q].id[1] \in Ix
        /\ StuckIn(call[q], sema, sem) /\ Asleep(q)
    BY <1>2, <1>3, SleptOn
  <2> QED
    BY <1>1, <2>1
<1>5. /\ u = t - l /\ \A i \in 0 .. u - 1 : i < b => sem'[i] = sem[i]
      /\ Lower(sema, sema', jx, b, l)
  <2>1. /\ semtot' = semtot - l /\ \A i \in 0 .. semtot' - 1 : i < b => sem'[i] = sem[i]
        /\ \A kx \in Ix \ {ix} : Lower(sema, sema', kx, b, l)
    BY <1>2, RemovedArrays
  <2> QED
    BY <1>1, <1>4, <2>1
<1>6. LiveIn(sema', call[q].id)
  BY <1>1, <1>4, <1>5 DEF StuckIn, LiveIn, Lower
<1>7. pc'[q] \in Sleepy
  BY DEF Sleepy
<1>8. sema'[jx].base = sema[jx].base /\ sema'[jx].n = sema[jx].n /\ sema[jx].base + sema[jx].n <= b
  BY <1>1, <1>2, <1>3, <1>4, <1>6, <1>7, StaysRemoved DEF Stays
<1>9. PICK i, x, y : i = PlaceIn(sema, call[q]) /\ x = sema[jx].base /\ y = sema[jx].n
  OBVIOUS
<1>10. i \in 0 .. t - 1 /\ i < x + y
  BY <1>1, <1>2, <1>4, <1>9, PlaceOf
<1>11. b \in Nat /\ l \in Nat /\ b + l <= t /\ x \in Nat /\ y \in Nat
  BY <1>2, <1>4, <1>9, SetNums
<1>12. i < b /\ i \in 0 .. u - 1
  <2>1. x + y <= b
    BY <1>8, <1>9
  <2>2. u = t - l
    BY <1>5
  <2> QED
    BY ONLY <1>2, <1>10, <1>11, <2>1, <2>2
<1>13. sem'[i] = sem[i]
  BY <1>5, <1>12
<1> QED
  BY <1>1, <1>4, <1>6, <1>8, <1>9, <1>13, StuckKeeps

LEMMA StuckReturns ==
  ASSUME AllPlain, StuckInv, NEW p \in Proc, NEW c, NEW sems, Turns(p, c, sems),
         NEW n \in 0 .. Len(c.sops), NEW X, TurnReturns(p, c, sems, n, X), NEW q \in Proc, pc'[q] = "semwait"
  PROVE  StuckIn(call'[q], sema', sem')
<1>1. PICK t, cx, s, sops : t = semtot /\ cx = c.id[1] /\ s = sema[cx] /\ sops = c.sops
  OBVIOUS
<1>2. /\ CountInv /\ Types /\ t \in Nat /\ sema \in [Ix -> SetRec] /\ Laid(sema, t) /\ sema' = sema /\ cx \in Ix /\ s.alloc
      /\ sops \in Seq(Sembuf) /\ sems \in Sems(t) /\ Distinct(sops) /\ Plain(sops) /\ DOMAIN sems = 0 .. t - 1
  <2>1. c \in CallRec /\ Plain(sops) /\ s.alloc
    BY <1>1 DEF Turns, CallOK, AllPlain, Live
  <2> QED
    BY <1>1, <2>1 DEF StuckInv, CountInv, Types, Arrays, Turns, CallRec, Plain, Distinct, Sems
<1>3. /\ Goes(p, "out", X) /\ call' = [call EXCEPT ![p] = NoCall] /\ Changed(s, sems, sops, n, sem')
      /\ \A j \in 1 .. n : Wakes(sops[j], sems[s.base + sops[j].num]) => cx \in X
  BY <1>1, <1>2 DEF TurnReturns
<1>4. q \in Proc \ {p}
  BY <1>3 DEF Goes
<1>5. PICK d, i, ix, o, k : /\ d = call[q] /\ i = PlaceIn(sema, d) /\ ix = d.id[1] /\ o = d.sops[d.at] /\ k = Kind(o)
  OBVIOUS
<1>6. call'[q] = d /\ ix \notin X /\ ix \in Ix /\ StuckIn(d, sema, sem) /\ Asleep(q)
  BY <1>3, <1>4, <1>5, SleptOn
<1>7. i \in 0 .. t - 1 /\ sema[ix].alloc /\ sema[ix].base <= i /\ i < sema[ix].base + sema[ix].n /\ k \in Kinds
  BY <1>1, <1>2, <1>5, <1>6, PlaceOf
<1>8. sems[i].val = sem[i].val /\ Cardinality(Waiting(i, k) \ {p}) <= Count(sems, i, k)
  BY <1>1, <1>2, <1>7, TurnOthers
<1>9. Count(sems, i, k) >= 1
  <2>1. PICK S, x, y : S = Waiting(i, k) \ {p} /\ x = Cardinality(S) /\ y = Count(sems, i, k)
    OBVIOUS
  <2>2. q \in S
    BY <1>4, <1>5, <1>6, <2>1 DEF Waiting
  <2>3. IsFiniteSet(S) /\ x \in Nat
    BY <2>1, WaitingFinite
  <2>4. x # 0
    BY <2>1, <2>2, <2>3, FS_EmptySet
  <2>5. y \in Nat
    BY <1>2, <1>7, <2>1, CountNat
  <2> QED
    BY <1>8, <2>1, <2>3, <2>4, <2>5
<1>10. sem'[i].val = sem[i].val \/ Stops(o, sem'[i])
  <2>1. CASE \A j \in 1 .. n : i # s.base + sops[j].num
    BY <1>2, <1>3, <1>7, <1>8, <2>1 DEF Changed
  <2>2. CASE \E j \in 1 .. n : i = s.base + sops[j].num
    <3>1. PICK j \in 1 .. n : i = s.base + sops[j].num
      BY <2>2
    <3>2. PICK e : e = sops[j]
      OBVIOUS
    <3>3. sem'[i].val = sems[i].val + e.op /\ ~Stops(e, sems[i]) /\ e.num < s.n
      BY <1>2, <1>3, <3>1, <3>2 DEF Changed
    <3>4. e \in Sembuf
      <4>1. j \in 1 .. Len(sops)
        BY <1>1, <1>2
      <4> QED
        BY <1>2, <3>2, <4>1
    <3>5. e.op \in Int /\ e.num \in Nat
      BY <3>4 DEF Sembuf
    <3>6. s.base <= i /\ i < s.base + s.n
      <4>1. PICK x, y, z : x = s.base /\ y = s.n /\ z = e.num
        OBVIOUS
      <4>2. x \in Nat /\ y \in Nat
        BY <1>1, <1>2, <4>1, SetNums
      <4>3. z \in Nat /\ z < y /\ i = x + z
        BY <3>1, <3>2, <3>3, <3>5, <4>1
      <4> QED
        BY <4>1, <4>2, <4>3
    <3>7. cx = ix
      BY <1>1, <1>2, <1>6, <1>7, <3>6, OneSet
    <3>8. ~Wakes(e, sems[i])
      BY <1>3, <1>6, <3>1, <3>2, <3>7
    <3>9. PICK sm : sm = sems[i]
      OBVIOUS
    <3>10. sm \in SemRec
      BY <1>2, <1>7, <3>9 DEF Sems
    <3>11. o.op \in Int
      <4>1. d \in CallRec /\ d.at \in 1 .. Len(d.sops)
        BY <1>2, <1>5, <1>6 DEF Types, CallsOK, SleeperOK, Asleep
      <4>2. d.sops \in Seq(Sembuf)
        BY <4>1 DEF CallRec
      <4>3. o \in Sembuf
        BY <1>5, <4>1, <4>2
      <4> QED
        BY <4>3 DEF Sembuf
    <3>12. Stops(o, sm)
      <4>1. Stops(o, sem[i])
        BY <1>5, <1>6 DEF StuckIn
      <4> QED
        BY <1>8, <3>9, <4>1 DEF Stops
    <3>13. (o.op = 0 => sm.zcnt >= 1) /\ (o.op # 0 => sm.ncnt >= 1)
      BY <1>5, <1>9, <3>9 DEF Count, Kind
    <3>14. ~Stops(e, sm) /\ ~Wakes(e, sm) /\ sem'[i].val = sm.val + e.op
      BY <3>3, <3>8, <3>9
    <3>15. PICK sw : sw = sem'[i]
      OBVIOUS
    <3>16. Stops(o, sw)
      BY <3>5, <3>10, <3>11, <3>12, <3>13, <3>14, <3>15, StillWaits
    <3> QED
      BY <3>15, <3>16
  <2> QED
    BY <2>1, <2>2
<1>11. LiveIn(sema', d.id)
  BY <1>2, <1>6 DEF StuckIn
<1> QED
  BY <1>2, <1>5, <1>6, <1>10, <1>11, StuckKeeps

LEMMA StuckSleeps ==
  ASSUME AllPlain, StuckInv, NEW p \in Proc, NEW c, NEW sems, Turns(p, c, sems),
         NEW m \in 1 .. Len(c.sops), NEW at \in 0 .. semtot - 1, TurnSleeps(p, c, sems, m, at), NEW q \in Proc, pc'[q] = "semwait"
  PROVE  StuckIn(call'[q], sema', sem')
<1>1. PICK t, s, o, d : t = semtot /\ s = sema[c.id[1]] /\ o = c.sops[m] /\ d = [c EXCEPT !.ptr = at, !.at = m]
  OBVIOUS
<1>2. /\ CountInv /\ Types /\ t \in Nat /\ sema' = sema /\ c \in CallRec /\ call \in [Proc -> CallRec] /\ Live(c.id)
      /\ sems \in Sems(t) /\ Distinct(c.sops) /\ DOMAIN sems = 0 .. t - 1
  <2>1. c \in CallRec /\ Plain(c.sops)
    BY DEF Turns, CallOK, AllPlain
  <2> QED
    BY <1>1, <2>1 DEF StuckInv, CountInv, Types, Arrays, CallsOK, Turns, Plain, Distinct, Sems
<1>3. /\ Goes(p, "semwait", {}) /\ call' = [call EXCEPT ![p] = d] /\ at = s.base + o.num /\ at \in 0 .. t - 1
      /\ \A j \in 1 .. m : c.sops[j].num < s.n
      /\ Stops(o, sems[at]) /\ Bumped(sems, sem', at, o)
  BY <1>1, <1>2 DEF TurnSleeps, Sleeps
<1>4. \A i \in 0 .. t - 1 : sem'[i].val = sems[i].val
  <2>1. \E z, n : Counts(sems, sem', at, z, n)
    BY <1>2, <1>3, BumpedOK
  <2> QED
    BY <1>2, <2>1 DEF Counts
<1>5. \A i \in 0 .. t - 1 : sem'[i].val = sem[i].val
  BY <1>1, <1>2, <1>4, TurnOthers
<1>6. CASE q # p
  <2>1. /\ call'[q] = call[q] /\ StuckIn(call[q], sema, sem) /\ Asleep(q)
    BY <1>3, <1>6, SleptOn
  <2>2. PlaceIn(sema, call[q]) \in 0 .. t - 1
    BY <1>1, <1>2, <2>1, PlaceOf
  <2>3. sem'[PlaceIn(sema, call[q])].val = sem[PlaceIn(sema, call[q])].val
    BY <1>5, <2>2
  <2>4. LiveIn(sema', call[q].id)
    BY <1>2, <2>1 DEF StuckIn
  <2> QED
    BY <1>2, <2>1, <2>3, <2>4, StuckKeeps
<1>7. CASE q = p
  <2>1. call'[p] = d /\ d.at = m /\ d.sops = c.sops /\ d.id = c.id
    BY <1>1, <1>2, <1>3 DEF CallRec
  <2>2. PlaceIn(sema, d) = at
    BY <1>1, <1>3, <2>1 DEF PlaceIn
  <2>3. Stops(o, sem'[at])
    BY <1>3, <1>4 DEF Stops
  <2>4. LiveIn(sema, d.id)
    BY <1>2, <2>1 DEF Live, LiveIn
  <2>5. StuckIn(d, sema, sem')
    BY <1>1, <1>3, <2>1, <2>2, <2>3, <2>4 DEF StuckIn
  <2> QED
    BY <1>2, <1>7, <2>1, <2>5
<1> QED
  BY <1>6, <1>7

LEMMA StuckNext ==
  ASSUME QuietMoves, AllPlain, StuckInv, [Next]_vars
  PROVE  StuckInv'
<1>0. CountInv' /\ Types' /\ Types /\ CountInv
  BY CountNext DEF StuckInv, CountInv
<1> SUFFICES ASSUME NEW q \in Proc, pc'[q] = "semwait" PROVE StuckIn(call'[q], sema', sem')
  BY <1>0 DEF StuckInv
<1>1. CASE UNCHANGED vars
  BY <1>1 DEF vars, StuckInv
<1>2. CASE Next
  <2>1. LockInv'
    BY <1>0 DEF Types
  <2>2. PICK p \in Proc : Effect(p) /\ VecStep(p)
    BY <1>0, <1>2, NextEffect
  <2>3. ASSUME NEW ix, NEW n, Made(p, ix, n) PROVE StuckIn(call'[q], sema', sem')
    BY <2>3, StuckMade
  <2>4. ASSUME NEW ix, NEW b, NEW l, Removed(p, ix, b, l) PROVE StuckIn(call'[q], sema', sem')
    <3>1. SetsKeep(sema, sema')
      BY <1>0, <2>1, <2>2, <2>4, TypesRemoved
    <3> QED
      BY <1>0, <2>4, <3>1, StuckRemoved
  <2>5. ASSUME NEW to, NEW X, NEW c, Simple(p, to, X, c) PROVE StuckIn(call'[q], sema', sem')
    BY <2>5, StuckSimple
  <2>6. ASSUME NEW c, NEW sems, Turns(p, c, sems) PROVE StuckIn(call'[q], sema', sem')
    <3>1. pc \in [Proc -> Places] /\ Turned(p, c, sems)
      BY <1>0, <2>6 DEF Types, LockInv, Turns
    <3>2. CASE \E m \in 1 .. Len(c.sops), at \in 0 .. semtot - 1 : TurnSleeps(p, c, sems, m, at)
      BY <2>6, <3>2, StuckSleeps
    <3>3. CASE \E X : \E n \in 0 .. Len(c.sops) : TurnReturns(p, c, sems, n, X)
      BY <2>6, <3>3, StuckReturns
    <3> QED
      BY <3>1, <3>2, <3>3, TurnEnds
  <2> QED
    BY <2>2, <2>3, <2>4, <2>5, <2>6 DEF Effect
<1> QED
  BY <1>1, <1>2

\* Nobody sleeps in semop() on a set that is gone, or for a vector that need not wait, while
\* sets are removed only below sets that nobody sleeps on and the vectors are plain: semop()
\* wakes the sleepers whenever it may have let one go, although it looks only at the counts.
THEOREM WaitersServedHolds == ASSUME QuietMoves, AllPlain PROVE Spec => []WaitersServed
<1>1. Init => StuckInv
  <2> SUFFICES ASSUME Init PROVE StuckInv
    OBVIOUS
  <2>1. CountInv
    BY InitCount
  <2>2. \A q \in Proc : pc[q] = "out"
    BY DEF Init
  <2> QED
    BY <2>1, <2>2 DEF StuckInv
<1>2. StuckInv /\ [Next]_vars => StuckInv'
  BY StuckNext
<1>3. StuckInv => WaitersServed
  BY StuckServed
<1>4. QED
  BY <1>1, <1>2, <1>3, PTL DEF Spec
=============================================================================
