------------------------------ MODULE SysVSem ------------------------------
(***************************************************************************)
(* System V semaphores, sys/kern/sysv_sem.c: semget(), semop(), semctl(),  *)
(* semconfig() and what semexit() does for a process that exits.           *)
(*                                                                         *)
(* The kernel is not preempted: a step is a stretch of one process up to   *)
(* where it sleeps.  A set lies in one piece in the array sem, and is      *)
(* moved down when a set below it is removed.  Keys, permissions, times    *)
(* and the calls that only read are left out: they change nothing here.    *)
(***************************************************************************)
EXTENDS Integers, FiniteSets, SequencesExt

CONSTANTS
  Proc,
  semmni, semmns, \* how many sets and how many semaphores there may be
  semmnu, SEMUME, \* how many undo vectors, and entries in each
  SemSeqMod,         \* sequence numbers count modulo 2^15
  CntMod,         \* semncnt and semzcnt count modulo 2^16
  Vectors,        \* Vectors[p]: what p asks semop() for
  Ctl,            \* Ctl[p]: what else p does, of CtlOps
  Sizes,          \* the sizes of sets that semget() is called with
  MaxVal,         \* bound: the largest value that semop() and semctl() give a semaphore
  MaxAdj,         \* bound: the largest adjustment
  MaxGets,        \* bound: how many sets are made
  MaxCnt,         \* bound: the largest count of waiters that somebody joins
  QuietMoves,     \* are sets removed only while nobody sleeps on a set above?
  NoProc, NoVector

CtlOps == {"semget", "rmid", "setval", "setall", "freeze", "thaw", "exit"}
SetOps == {"semop", "rmid", "setval", "setall"}   \* the calls about a set
Sembuf == [num : Nat, op : Int, undo : BOOLEAN, nowait : BOOLEAN]

Entry  == [ix : Nat, num : Nat, adj : Int]   \* of an undo vector: about a set, which semaphore, how much

ASSUME SysVSemAssumption ==
  /\ IsFiniteSet(Proc) /\ NoVector \notin Seq(Entry)
  /\ {semmni, semmns, semmnu, SEMUME, SemSeqMod, CntMod, MaxVal, MaxAdj} \subseteq Nat \ {0}
  /\ MaxGets \in 1 .. SemSeqMod - 1 /\ MaxCnt \in 1 .. CntMod - 1
  /\ Sizes \subseteq 1 .. semmns
  /\ \A p \in Proc : Ctl[p] \subseteq CtlOps /\ Vectors[p] \subseteq Seq(Sembuf)
  /\ QuietMoves \in BOOLEAN
  /\ NoProc \notin Proc

VARIABLES
  sema,       \* sema[ix]: the semid_ds of a set
  sem,        \* sem[i]: the semaphores in use, all in one array; what lies above is
              \* cleared before it is used
  undo,       \* undo[p]: the undo vector of p, a sequence of entries
  holder,     \* semlock_holder
  pc, call,   \* where p is, and in which call
  given,      \* history: given[ix][num] has what the operations without SEM_UNDO made of
              \* it, and is empty while nothing can be said, see Balanced
  panicked

vars == <<sema, sem, undo, holder, pc, call, given, panicked>>

Ix     == 0 .. semmni - 1
semtot == Cardinality(DOMAIN sem)
Zero   == [val |-> 0, ncnt |-> 0, zcnt |-> 0]
NoCall == [do |-> "none", id |-> <<0, 0>>, sops |-> <<>>, ptr |-> 0, at |-> 0]

\* sema[ix] is in use and is the set that id was given for: the test of every call.
Live(id) == sema[id[1]].alloc /\ sema[id[1]].seq = id[2]

Init ==
  /\ sema = [ix \in Ix |-> [alloc |-> FALSE, seq |-> 0, base |-> 0, n |-> 0]]
  /\ sem = [i \in {} |-> Zero]
  /\ undo = [p \in Proc |-> NoVector]
  /\ holder = NoProc
  /\ pc = [p \in Proc |-> "out"]
  /\ call = [p \in Proc |-> NoCall]
  /\ given = [ix \in Ix |-> <<>>]
  /\ panicked = FALSE

----------------------------------------------------------------------------
(* Sleeping.  "semwait" is the sleep of semop(), on the set; "lockwait" and *)
(* "exitwait" are those of semlock() and semexit(), on semlock_holder.      *)

WokenFrom == [semwait |-> "semwoken", lockwait |-> "lockwoken", exitwait |-> "exitwoken"]

\* wakeup(semaptr) for the sets in S, given the places pcs.
WakeSets(pcs, S) ==
  [p \in Proc |-> IF pcs[p] = "semwait" /\ call[p].id[1] \in S THEN "semwoken" ELSE pcs[p]]

\* wakeup(&semlock_holder)
WakeLock(pcs) ==
  [p \in Proc |-> IF pcs[p] \in {"lockwait", "exitwait"} THEN WokenFrom[pcs[p]] ELSE pcs[p]]

\* The calls of semop() or semctl() that p can make.
NewCall(do, ix, v) == [NoCall EXCEPT !.do = do, !.id = <<ix, sema[ix].seq>>, !.sops = v]
NewCalls(p, do) ==
  {NewCall(do, ix, v) :
     ix \in {i \in Ix : sema[i].alloc}, v \in IF do = "semop" THEN Vectors[p] ELSE {<<>>}}

\* What p may call now: anything of its own, or what it was about to call when it
\* had to wait in semlock().
Calls(p, do) ==
  IF pc[p] = "lockwoken" THEN {c \in {call[p]} : c.do = do}
  ELSE IF pc[p] # "out" \/ (do # "semop" /\ do \notin Ctl[p]) THEN {}
  ELSE IF do \in SetOps THEN NewCalls(p, do)
  ELSE {[NoCall EXCEPT !.do = do]}

\* p may call what is past semlock().
Past(p) == holder \in {NoProc, p} /\ ~panicked

\* semlock(): somebody else has the facility.
Semlock(p) ==
  /\ ~panicked /\ holder \notin {NoProc, p}
  /\ \E do \in (CtlOps \ {"exit"}) \cup {"semop"} :
       \E c \in Calls(p, do) : call' = [call EXCEPT ![p] = c]
  /\ pc' = [pc EXCEPT ![p] = "lockwait"]
  /\ UNCHANGED <<sema, sem, undo, holder, given, panicked>>

\* The set has gone while p waited in semlock(): EINVAL.
Gone(p) ==
  /\ Past(p)
  /\ \E do \in SetOps : \E c \in Calls(p, do) : ~Live(c.id)
  /\ pc' = [pc EXCEPT ![p] = "out"]
  /\ call' = [call EXCEPT ![p] = NoCall]
  /\ UNCHANGED <<sema, sem, undo, holder, given, panicked>>

----------------------------------------------------------------------------
(* Undo vectors *)

\* semu_alloc(): a free vector, if need be after all empty ones have been freed.
semu_alloc(u, p) ==
  LET used   == {q \in Proc : u[q] # NoVector}
      purged == [q \in Proc |-> IF u[q] = <<>> THEN NoVector ELSE u[q]]
  IN  IF Cardinality(used) < semmnu THEN [u EXCEPT ![p] = <<>>]
      ELSE IF purged # u THEN [purged EXCEPT ![p] = <<>>]
      ELSE u

\* The vector v without its entry at i, whose place the last one takes.
DropAt(v, i) == IF i = Len(v) THEN Front(v) ELSE [Front(v) EXCEPT ![i] = Last(v)]

\* The vector v with d added to its entry at i, which goes when nothing is left of it.
Readjusted(v, i, d) == IF v[i].adj + d = 0 THEN DropAt(v, i) ELSE [v EXCEPT ![i].adj = @ + d]

\* The places of the entries about the set ix, and about its semaphore num.
OfSet(v, ix) == {i \in DOMAIN v : v[i].ix = ix}
OfSem(v, ix, num) == {i \in OfSet(v, ix) : v[i].num = num}

\* semundo_adjust() by d, which is not 0, for the semaphore num of the set ix.
semundo_adjust(u, p, ix, num, d) ==
  LET v == IF u[p] = NoVector THEN semu_alloc(u, p) ELSE u
      i == CHOOSE j \in OfSem(v[p], ix, num) : TRUE
  IN  IF v[p] = NoVector THEN [err |-> TRUE, undo |-> v]
      ELSE IF OfSem(v[p], ix, num) # {}
           THEN [err |-> FALSE, undo |-> [v EXCEPT ![p] = Readjusted(@, i, d)]]
      ELSE IF Len(v[p]) = SEMUME THEN [err |-> TRUE, undo |-> v]
      ELSE [err |-> FALSE, undo |-> [v EXCEPT ![p] = Append(@, [ix |-> ix, num |-> num, adj |-> d])]]

\* The vector v without the entries about the set ix, dropped from the front on.
WithoutSet(v, ix) ==
  LET w[n \in 0 .. Len(v)] ==
        IF n = 0 THEN v
        ELSE IF OfSet(w[n - 1], ix) = {} THEN w[n - 1] ELSE DropAt(w[n - 1], Min(OfSet(w[n - 1], ix)))
  IN  w[Len(v)]

\* The vector v after semundo_clear() for one semaphore, which looks no further than
\* the first entry about the set.
WithoutSem(v, ix, num) ==
  IF OfSet(v, ix) # {} /\ v[Min(OfSet(v, ix))].num = num THEN DropAt(v, Min(OfSet(v, ix))) ELSE v

\* Fault: an entry that is alone in its vector is passed over.
semundo_clearShort(ix, num) ==
  [p \in Proc |-> IF undo[p] = NoVector THEN NoVector
                  ELSE IF Len(undo[p]) = 1 THEN undo[p]
                  ELSE IF num = -1 THEN WithoutSet(undo[p], ix) ELSE WithoutSem(undo[p], ix, num)]

\* semundo_clear() of the semaphore num, or of all of the set for -1.
semundo_clear(ix, num) ==
  [p \in Proc |-> IF undo[p] = NoVector THEN NoVector
                  ELSE IF num = -1 THEN WithoutSet(undo[p], ix) ELSE WithoutSem(undo[p], ix, num)]

----------------------------------------------------------------------------
(* semget() and semctl() *)

Return(p) == [pc EXCEPT ![p] = "out"]

\* The sets made so far, by their index and sequence number.
Given(A) == {x \in Ix \X (1 .. SemSeqMod - 1) : x[2] <= A[x[1]].seq}

\* semget() that makes a set of n semaphores at the end of sem.
Semget(p) ==
  \E c \in Calls(p, "semget"), n \in Sizes, ix \in Ix :
    /\ Past(p)
    /\ n <= semmns - semtot
    /\ ~sema[ix].alloc /\ \A i \in 0 .. ix - 1 : sema[i].alloc
    /\ Cardinality(Given(sema)) < MaxGets
    /\ sema' = [sema EXCEPT ![ix] = [alloc |-> TRUE, seq |-> (@.seq + 1) % SemSeqMod,
                                     base |-> semtot, n |-> n]]
    /\ sem' = [i \in 0 .. semtot + n - 1 |-> IF i < semtot THEN sem[i] ELSE Zero]
    /\ given' = [given EXCEPT ![ix] = [num \in 0 .. n - 1 |-> {0}]]
    /\ pc' = Return(p) /\ call' = [call EXCEPT ![p] = NoCall]
    /\ UNCHANGED <<undo, holder, panicked>>

\* Semget() that has no room: EINVAL or ENOSPC.
SemgetFull(p) ==
  /\ Past(p)
  /\ \E c \in Calls(p, "semget"), n \in Sizes :
       n > semmns - semtot \/ \A ix \in Ix : sema[ix].alloc
  /\ pc' = Return(p) /\ call' = [call EXCEPT ![p] = NoCall]
  /\ UNCHANGED <<sema, sem, undo, holder, given, panicked>>

\* Somebody sleeps in semop() on a set that lies above the one at base.
SleptAbove(base) ==
  \E p \in Proc : pc[p] \in {"semwait", "semwoken"} /\ sema[call[p].id[1]].base > base

\* sema after the set ix is removed.
Lowered(ix) ==
  [i \in Ix |-> IF i = ix THEN [sema[i] EXCEPT !.alloc = FALSE]
                ELSE IF sema[i].alloc /\ sema[i].base > sema[ix].base
                     THEN [sema[i] EXCEPT !.base = @ - sema[ix].n]
                ELSE sema[i]]

\* IPC_RMID: the semaphores above are moved down over those of the set.
Rmid(p) ==
  \E c \in Calls(p, "rmid") :
    LET ix == c.id[1]
        s  == sema[ix]
        t  == semtot - s.n
    IN  /\ Past(p) /\ Live(c.id)
        /\ QuietMoves => ~SleptAbove(s.base)
        /\ sem' = [i \in 0 .. t - 1 |-> IF i >= s.base THEN sem[i + s.n] ELSE sem[i]]
        /\ sema' = Lowered(ix)
        /\ undo' = semundo_clear(ix, -1)
        /\ given' = [given EXCEPT ![ix] = <<>>]
        /\ pc' = WakeSets(Return(p), {ix}) /\ call' = [call EXCEPT ![p] = NoCall]
        /\ UNCHANGED <<holder, panicked>>

\* Somebody has an adjustment for the semaphore num that lies behind one for another
\* semaphore of the set, where semundo_clear() does not look.
PassedOver(ix, num) ==
  \E p \in Proc : /\ undo[p] # NoVector /\ OfSem(undo[p], ix, num) # {}
                  /\ undo[p][Min(OfSet(undo[p], ix))].num # num

\* SETVAL.
Setval(p) ==
  \E c \in Calls(p, "setval") :
    LET ix == c.id[1]
    IN  /\ Past(p) /\ Live(c.id)
        /\ \E num \in 0 .. sema[ix].n - 1, v \in 0 .. MaxVal :
             /\ sem' = [sem EXCEPT ![sema[ix].base + num].val = v]
             /\ undo' = semundo_clear(ix, num)
             /\ given' = [given EXCEPT ![ix][num] = IF PassedOver(ix, num) THEN {} ELSE {v}]
        /\ pc' = WakeSets(Return(p), {ix}) /\ call' = [call EXCEPT ![p] = NoCall]
        /\ UNCHANGED <<sema, holder, panicked>>

\* SETALL: a bad address ends the loop early, and what follows it is done all the
\* same, so that the semaphores not reached lose their adjustments.
Setall(p) ==
  \E c \in Calls(p, "setall") :
    LET ix == c.id[1]
        s  == sema[ix]
    IN  /\ Past(p) /\ Live(c.id)
        /\ \E done \in 0 .. s.n, v \in [0 .. s.n - 1 -> 0 .. MaxVal] :
             sem' = [i \in DOMAIN sem |-> IF i \in s.base .. s.base + done - 1
                                          THEN [sem[i] EXCEPT !.val = v[i - s.base]] ELSE sem[i]]
        /\ undo' = semundo_clear(ix, -1)
        /\ given' = [given EXCEPT ![ix] = [num \in DOMAIN @ |-> {sem'[s.base + num].val}]]
        /\ pc' = WakeSets(Return(p), {ix}) /\ call' = [call EXCEPT ![p] = NoCall]
        /\ UNCHANGED <<sema, holder, panicked>>

\* semconfig(SEM_CONFIG_FREEZE) and semconfig(SEM_CONFIG_THAW)
Semconfig(p) ==
  /\ Past(p)
  /\ \/ Calls(p, "freeze") # {} /\ holder' = p /\ pc' = Return(p)
     \/ Calls(p, "thaw") # {} /\ holder' = NoProc /\ pc' = WakeLock(Return(p))
  /\ call' = [call EXCEPT ![p] = NoCall]
  /\ UNCHANGED <<sema, sem, undo, given, panicked>>

----------------------------------------------------------------------------
(* semop() *)

\* Fault: only those who wait for units are thought of.
WakesGiven(o, sm) == o.op > 0 /\ sm.ncnt > 0

\* The operation o on the semaphore sm makes semop() call wakeup() at the end.
Wakes(o, sm) ==
  \/ o.op < 0 /\ sm.val + o.op = 0 /\ sm.zcnt > 0
  \/ o.op > 0 /\ sm.ncnt > 0

\* One operation o of a vector, on the set s.  The vector is st.n operations on its
\* way; it stops where one has to wait.
TryOne(s, st, o) ==
  LET i == s.base + o.num
      v == st.sem[i].val + o.op
  IN  IF st.end # "none" THEN st
      ELSE IF o.num >= s.n THEN [st EXCEPT !.end = "EFBIG"]
      ELSE IF v < 0 \/ (o.op = 0 /\ v > 0) THEN [st EXCEPT !.end = "wait"]
      ELSE [st EXCEPT !.n = @ + 1, !.sem[i].val = v, !.wake = @ \/ Wakes(o, st.sem[i])]

Try(s, sems, sops) ==
  LET st[m \in 0 .. Len(sops)] ==
        IF m = 0 THEN [n |-> 0, end |-> "none", sem |-> sems, wake |-> FALSE]
        ELSE TryOne(s, st[m - 1], sops[m])
  IN  st[Len(sops)]

\* Taking back the operations sops.
Rollback(s, sems, sops) ==
  LET b[m \in 0 .. Len(sops)] ==
        IF m = 0 THEN sems ELSE [b[m - 1] EXCEPT ![s.base + sops[m].num].val = @ - sops[m].op]
  IN  b[Len(sops)]

\* The adjustment of the operation o, with the sign sg, unless one has failed.
AdjustOne(st, p, ix, o, sg) ==
  LET a == semundo_adjust(st.undo, p, ix, o.num, sg * o.op)
  IN  IF st.err THEN st
      ELSE IF ~o.undo \/ o.op = 0 THEN [st EXCEPT !.n = @ + 1]
      ELSE [err |-> a.err, undo |-> a.undo, n |-> IF a.err THEN st.n ELSE st.n + 1]

\* The adjustments of sops, as far as they succeed.
AdjustAll(u, p, ix, sops, sg) ==
  LET st[m \in 0 .. Len(sops)] ==
        IF m = 0 THEN [err |-> FALSE, undo |-> u, n |-> 0]
        ELSE AdjustOne(st[m - 1], p, ix, sops[m], sg)
  IN  st[Len(sops)]

\* Fault: the adjustments made before the one that failed are kept.
UndosKept(p, ix, sops) == AdjustAll(undo, p, ix, sops, -1)

\* What a finished vector of p does to the undo vectors: the adjustments made are
\* taken back, in the reverse order, when one of them fails.
Undos(p, ix, sops) ==
  LET fwd == AdjustAll(undo, p, ix, sops, -1)
  IN  IF ~fwd.err THEN fwd
      ELSE LET back == AdjustAll(fwd.undo, p, ix, Reverse(SubSeq(sops, 1, fwd.n)), 1)
           IN  [err |-> TRUE, undo |-> back.undo, n |-> IF back.err THEN -1 ELSE 0]

\* The part of sops on the semaphore num that exit does not take back.
Kept(sops, num) ==
  FoldLeft(LAMBDA t, o : IF o.num = num /\ ~o.undo THEN t + o.op ELSE t, 0, sops)

\* One turn of the loop of semop(), with the semaphores as sems, up to where it
\* returns or sleeps.
Turn(p, c, sems) ==
  LET ix == c.id[1]
      s  == sema[ix]
      r  == Try(s, sems, c.sops)
      b  == c.sops[r.n + 1]
      at == s.base + b.num
      un == Undos(p, ix, c.sops)
      back == Rollback(s, r.sem, SubSeq(c.sops, 1, r.n))
  IN  \/ \* It all went through.
         /\ r.end = "none" /\ ~un.err
         /\ \A i \in DOMAIN sem : r.sem[i].val <= MaxVal
         /\ un.undo[p] # NoVector => \A i \in DOMAIN un.undo[p] : un.undo[p][i].adj \in -MaxAdj .. MaxAdj
         /\ sem' = r.sem /\ undo' = un.undo
         /\ given' = [given EXCEPT ![ix] = [num \in DOMAIN @ |-> {g + Kept(c.sops, num) : g \in @[num]}]]
         /\ pc' = IF r.wake THEN WakeSets(Return(p), {ix}) ELSE Return(p)
         /\ call' = [call EXCEPT ![p] = NoCall]
         /\ UNCHANGED panicked
      \/ \* No room for the adjustments: ENOSPC or EINVAL, or panic("semop - can't undo undos").
         /\ r.end = "none" /\ un.err
         /\ sem' = back /\ undo' = un.undo
         /\ panicked' = (un.n = -1)
         /\ pc' = Return(p) /\ call' = [call EXCEPT ![p] = NoCall]
         /\ UNCHANGED given
      \/ \* Sleep until the set changes.
         /\ r.end = "wait" /\ ~b.nowait
         /\ IF b.op = 0 THEN back[at].zcnt < MaxCnt ELSE back[at].ncnt < MaxCnt
         /\ sem' = IF b.op = 0 THEN [back EXCEPT ![at].zcnt = (@ + 1) % CntMod]
                               ELSE [back EXCEPT ![at].ncnt = (@ + 1) % CntMod]
         /\ pc' = [pc EXCEPT ![p] = "semwait"]
         /\ call' = [call EXCEPT ![p] = [c EXCEPT !.ptr = at, !.at = r.n + 1]]
         /\ UNCHANGED <<undo, given, panicked>>
      \/ \* EAGAIN, or EFBIG, which does not take back what was done before it.
         /\ r.end = "EFBIG" \/ (r.end = "wait" /\ b.nowait)
         /\ sem' = IF r.end = "EFBIG" THEN r.sem ELSE back
         /\ given' = [given EXCEPT ![ix] = [num \in DOMAIN @ |->
                        IF sem'[s.base + num].val = sems[s.base + num].val THEN @[num] ELSE {}]]
         /\ pc' = Return(p) /\ call' = [call EXCEPT ![p] = NoCall]
         /\ UNCHANGED <<undo, panicked>>

Semop(p) ==
  /\ Past(p)
  /\ \E c \in Calls(p, "semop") : Live(c.id) /\ Turn(p, c, sem)
  /\ UNCHANGED <<sema, holder>>

\* Fault: the counts are started anew, as if everybody had been woken.
UncountedAll(c) ==
  IF c.ptr >= semtot THEN sem ELSE [sem EXCEPT ![c.ptr].zcnt = 0, ![c.ptr].ncnt = 0]

\* p has slept in semop() and is no longer counted, at the semaphore where it was
\* counted when it fell asleep.
Uncounted(c) ==
  IF c.ptr >= semtot THEN sem
  ELSE IF c.sops[c.at].op = 0 THEN [sem EXCEPT ![c.ptr].zcnt = (@ - 1) % CntMod]
  ELSE [sem EXCEPT ![c.ptr].ncnt = (@ - 1) % CntMod]

\* p wakes up in semop(): it looks whether the set is still there, and starts over.
\* It does not ask for semlock_holder again.
SemopWoken(p) ==
  /\ pc[p] = "semwoken" /\ ~panicked
  /\ IF Live(call[p].id) THEN Turn(p, call[p], Uncounted(call[p]))
     ELSE /\ pc' = Return(p) /\ call' = [call EXCEPT ![p] = NoCall]
          /\ UNCHANGED <<sem, undo, given, panicked>>
  /\ UNCHANGED <<sema, holder>>

\* A signal ends the sleep: EINTR, and p stays counted.
SemopIntr(p) ==
  /\ pc[p] \in {"semwait", "semwoken"} /\ ~panicked
  /\ pc' = Return(p) /\ call' = [call EXCEPT ![p] = NoCall]
  /\ UNCHANGED <<sema, sem, undo, holder, given, panicked>>

----------------------------------------------------------------------------
(* semexit() *)

\* A value after the adjustment d on exit.
Adjusted(v, d) == IF d < 0 /\ v < -d THEN 0 ELSE v + d

\* The panics of semexit() over an entry of the vector f.
BadEntry(f) == \E i \in DOMAIN f : ~sema[f[i].ix].alloc \/ f[i].num >= sema[f[i].ix].n

\* Fault: without an undo vector there is nothing to do, not even to unlock.
ReleasedVector(p) == IF holder = p /\ undo[p] # NoVector THEN NoProc ELSE holder

\* semlock_holder after p has exited.
Released(p) == IF holder = p THEN NoProc ELSE holder

\* The semaphores after the adjustments of the vector f.
AdjustedAll(f) ==
  LET m[n \in 0 .. Len(f)] ==
        IF n = 0 THEN sem
        ELSE [m[n - 1] EXCEPT ![sema[f[n].ix].base + f[n].num].val = Adjusted(@, f[n].adj)]
  IN  m[Len(f)]

\* The adjustments are made, the vector is freed, and the facility if p has it.
Semexit(p) ==
  LET f == IF undo[p] = NoVector THEN <<>> ELSE undo[p]
      sems == AdjustedAll(f)
      pcs  == WakeSets([pc EXCEPT ![p] = "dead"], {f[i].ix : i \in DOMAIN f})
  IN  /\ panicked' = BadEntry(f)
      /\ IF BadEntry(f) THEN UNCHANGED <<sem, undo, given, holder, pc>>
         ELSE /\ sem' = sems
              /\ undo' = [undo EXCEPT ![p] = NoVector]
              /\ given' = [ix \in Ix |-> [num \in DOMAIN given[ix] |->
                             LET at == sema[ix].base + num
                                 E  == {f[i].adj : i \in OfSem(f, ix, num)}
                             IN  IF E = {} THEN given[ix][num]
                                 ELSE {g + sems[at].val - sem[at].val - CHOOSE d \in E : TRUE : g \in given[ix][num]}]]
              /\ holder' = Released(p)
              /\ pc' = IF holder' # holder THEN WakeLock(pcs) ELSE pcs
      /\ UNCHANGED <<sema, call>>

\* Exit, cases 1 and 2 of semexit(): nobody else has the facility.
Exit(p) ==
  /\ pc[p] = "out" /\ "exit" \in Ctl[p] /\ ~panicked
  /\ holder \in {NoProc, p}
  /\ Semexit(p)

\* Cases 3 and 4: somebody else has it; p waits if it has a vector.
ExitLocked(p) ==
  /\ pc[p] = "out" /\ "exit" \in Ctl[p] /\ ~panicked
  /\ holder \notin {NoProc, p}
  /\ pc' = [pc EXCEPT ![p] = IF undo[p] = NoVector THEN "dead" ELSE "exitwait"]
  /\ UNCHANGED <<sema, sem, undo, holder, call, given, panicked>>

\* p wakes up in semexit(): panic("semexit: undo vector disappeared") if its vector
\* was freed meanwhile.
ExitWoken(p) ==
  /\ pc[p] = "exitwoken" /\ ~panicked
  /\ \/ /\ holder # NoProc
        /\ pc' = [pc EXCEPT ![p] = "exitwait"]
        /\ UNCHANGED <<sema, sem, undo, holder, call, given, panicked>>
     \/ /\ holder = NoProc
        /\ IF undo[p] # NoVector THEN Semexit(p)
           ELSE panicked' = TRUE /\ UNCHANGED <<sema, sem, undo, holder, pc, call, given>>

\* The proc structure serves a new process.
Fork(p) ==
  /\ pc[p] = "dead" /\ ~panicked
  /\ pc' = [pc EXCEPT ![p] = "out"]
  /\ UNCHANGED <<sema, sem, undo, holder, call, given, panicked>>

Next ==
  \E p \in Proc :
    \/ Semlock(p) \/ Gone(p) \/ Semget(p) \/ SemgetFull(p) \/ Rmid(p) \/ Setval(p) \/ Setall(p)
    \/ Semconfig(p) \/ Semop(p) \/ SemopWoken(p) \/ SemopIntr(p)
    \/ Exit(p) \/ ExitLocked(p) \/ ExitWoken(p) \/ Fork(p)

Spec == Init /\ [][Next]_vars

----------------------------------------------------------------------------
(* Properties *)

Places == {"out", "lockwait", "lockwoken", "semwait", "semwoken", "exitwait", "exitwoken", "dead"}

\* Values never go below 0, counts keep to their width, the sets in use fill sem up to
\* semtot without a gap or an overlap, and there are no more undo vectors and entries
\* than configured.
TypeOK ==
  /\ DOMAIN sem = 0 .. semtot - 1 /\ semtot <= semmns
  /\ \A i \in DOMAIN sem : sem[i].val \in Nat /\ {sem[i].ncnt, sem[i].zcnt} \subseteq 0 .. CntMod - 1
  /\ \A i \in 0 .. semtot - 1 :
       Cardinality({ix \in Ix : sema[ix].alloc /\ i \in sema[ix].base .. sema[ix].base + sema[ix].n - 1}) = 1
  /\ \A ix \in Ix : sema[ix].alloc => sema[ix].base + sema[ix].n <= semtot
  /\ Cardinality({p \in Proc : undo[p] # NoVector}) <= semmnu
  /\ \A p \in Proc : /\ pc[p] \in Places
                     /\ undo[p] # NoVector => Len(undo[p]) <= SEMUME
                                              /\ \A i \in DOMAIN undo[p] : undo[p][i].adj \in Int \ {0}
  /\ holder \in Proc \cup {NoProc} /\ panicked \in BOOLEAN

\* No panic() of sysv_sem.c is reached: undos can be undone in the reverse order, an
\* exiting process finds its vector again after it has slept, and every entry of the
\* vector is about a semaphore that exists.  (The second needs a vector for every user:
\* with fewer, the vector of one who sleeps in his exit may be emptied and taken.)
NoPanic == ~panicked

\* Nobody sleeps in semop() on a set that is gone, or for a vector that need not wait:
\* whoever made it possible has woken them, although do_wakeup asks only the counts.
WaitersServed ==
  \A p \in Proc : pc[p] = "semwait" =>
    Live(call[p].id) /\ Try(sema[call[p].id[1]], sem, call[p].sops).end = "wait"

\* p sleeps in semop(), or has been woken and not run yet, at the semaphore i.
SleepsAt(p, i) ==
  /\ pc[p] \in {"semwait", "semwoken"} /\ Live(call[p].id)
  /\ i = sema[call[p].id[1]].base + call[p].sops[call[p].at].num

\* semncnt and semzcnt, which decide whether anybody is woken, count at least the
\* processes that do sleep at the semaphore, although sets move and are removed.
SleepersCounted ==
  \A i \in 0 .. semtot - 1 :
    LET S == {p \in Proc : SleepsAt(p, i)}
        Z == {p \in S : call[p].sops[call[p].at].op = 0}
    IN  Cardinality(Z) <= sem[i].zcnt /\ Cardinality(S \ Z) <= sem[i].ncnt

\* The value of a semaphore and the adjustments that exits will make to it add up to what
\* the operations without SEM_UNDO have made of it: no vector of operations is done in part
\* or twice, no adjustment is lost, none outlives the value or the set that it was for.
\* (Where an exit finds less than it is to take away, the rest is forgiven.)  Nothing is
\* said of a semaphore in two cases, up to the next SETALL, or SETVAL that clears all its
\* adjustments: a vector changed it and then left with EFBIG, or SETVAL passed over an
\* adjustment for it, behind one for another semaphore of the set.
Balanced ==
  \A ix \in Ix : sema[ix].alloc =>
    \A num \in 0 .. sema[ix].n - 1 :
      LET due == {x \in Proc \X (1 .. SEMUME) :
                    undo[x[1]] # NoVector /\ x[2] \in OfSem(undo[x[1]], ix, num)}
          adj == MapThenSumSet(LAMBDA x : undo[x[1]][x[2]].adj, due)
      IN  \A g \in given[ix][num] : sem[sema[ix].base + num].val + adj = g

\* Balanced without its exceptions.  semop() says of itself that "a set of requests is
\* atomic (never partially satisfied)", and SETVAL starts a semaphore anew.
FullyBalanced ==
  /\ Balanced
  /\ \A ix \in Ix : sema[ix].alloc => \A num \in 0 .. sema[ix].n - 1 : given[ix][num] # {}

\* Whoever sleeps for semlock_holder waits for a process that lives and can thaw.
LockSleepersKnown ==
  /\ holder # NoProc => pc[holder] # "dead"
  /\ \A p \in Proc : pc[p] \in {"lockwait", "exitwait"} => holder \notin {NoProc, p}

\* The arrays of sysv_sem.c stay sound: sets fill sem without gaps, undo entries are
\* about semaphores that exist, and no panic() is reached.
StructuresSound == TypeOK /\ NoPanic
=============================================================================
