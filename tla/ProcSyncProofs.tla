--------------------------- MODULE ProcSyncProofs ---------------------------
(***************************************************************************)
(* What ProcSync guarantees for any number of processes, any sleep calls,  *)
(* signals, dispositions and sleep queues: the queues of the scheduler     *)
(* hold exactly the processes they should, timers and signals end the      *)
(* sleeps they are for, and a stopped process stays stopped.               *)
(*                                                                         *)
(* The operators of ProcSync map a kernel state to the next one.  Each has *)
(* a lemma about what it does to a kernel state that is in order; a step   *)
(* is then a chain of such lemmas.                                         *)
(***************************************************************************)
EXTENDS ProcSync, TLAPS

Rets == {"none", "OK", "EINTR", "EWOULDBLOCK"}
Whys == {"none", "wakeup", "timeout", "signal"}

ProcRec ==
  [stat : Stat, wchan : Ident \cup {NoChan}, sintr : BOOLEAN, timeout : BOOLEAN,
   inmem : BOOLEAN, siglist : SUBSET Signal, sigs : SigSetup, pptr : Proc \cup {NoProc},
   at : Site, catch : BOOLEAN, timo : BOOLEAN, ret : Rets, why : Whys]

KernelRec ==
  [proc : [AnyProc -> ProcRec], slpque : [Bucket -> SUBSET AnyProc],
   runq : SUBSET AnyProc, panicked : BOOLEAN]

\* The fields that only the process itself, its timer and the swapper change.
SameOwn(P, Q) ==
  /\ Q.sintr = P.sintr /\ Q.timeout = P.timeout /\ Q.inmem = P.inmem /\ Q.sigs = P.sigs
  /\ Q.pptr = P.pptr /\ Q.at = P.at /\ Q.catch = P.catch /\ Q.timo = P.timo /\ Q.ret = P.ret

-----------------------------------------------------------------------------
(* Records.                                                                 *)

\* The updates that the operators of ProcSync are made of.
Put(K, p, P)      == [K EXCEPT !.proc[p] = P]
PutRunq(K, S)     == [K EXCEPT !.runq = S]
PutPanic(K, b)    == [K EXCEPT !.panicked = b]
PutQueue(K, b, S) == [K EXCEPT !.slpque[b] = S]

\* Every process of a kernel state is a process, and so on.
LEMMA KernelIs ==
  ASSUME NEW K \in KernelRec
  PROVE  /\ \A q \in AnyProc : K.proc[q] \in ProcRec
         /\ K.slpque \in [Bucket -> SUBSET AnyProc] /\ K.runq \subseteq AnyProc
         /\ K.panicked \in BOOLEAN
  BY DEF KernelRec

\* Replacing one process of a kernel state.
LEMMA PutIs ==
  ASSUME NEW K \in KernelRec, NEW p \in AnyProc, NEW P \in ProcRec
  PROVE  /\ Put(K, p, P) \in KernelRec
         /\ Put(K, p, P).proc[p] = P
         /\ \A q \in AnyProc \ {p} : Put(K, p, P).proc[q] = K.proc[q]
         /\ Put(K, p, P).slpque = K.slpque /\ Put(K, p, P).runq = K.runq
         /\ Put(K, p, P).panicked = K.panicked
  BY DEF KernelRec, Put

\* Replacing the run queue.
LEMMA PutRunqIs ==
  ASSUME NEW K \in KernelRec, NEW S \in SUBSET AnyProc
  PROVE  /\ PutRunq(K, S) \in KernelRec /\ PutRunq(K, S).runq = S
         /\ PutRunq(K, S).proc = K.proc /\ PutRunq(K, S).slpque = K.slpque
         /\ PutRunq(K, S).panicked = K.panicked
  BY DEF KernelRec, PutRunq

\* Replacing the panic flag.
LEMMA PutPanicIs ==
  ASSUME NEW K \in KernelRec, NEW b \in BOOLEAN
  PROVE  /\ PutPanic(K, b) \in KernelRec /\ PutPanic(K, b).panicked = b
         /\ PutPanic(K, b).proc = K.proc /\ PutPanic(K, b).slpque = K.slpque
         /\ PutPanic(K, b).runq = K.runq
  BY DEF KernelRec, PutPanic

\* Replacing one sleep queue.
LEMMA PutQueueIs ==
  ASSUME NEW K \in KernelRec, NEW b \in Bucket, NEW S \in SUBSET AnyProc
  PROVE  /\ PutQueue(K, b, S) \in KernelRec
         /\ PutQueue(K, b, S).slpque[b] = S
         /\ \A d \in Bucket \ {b} : PutQueue(K, b, S).slpque[d] = K.slpque[d]
         /\ PutQueue(K, b, S).proc = K.proc /\ PutQueue(K, b, S).runq = K.runq
         /\ PutQueue(K, b, S).panicked = K.panicked
  BY DEF KernelRec, PutQueue

\* p_stat, p_siglist and p_wchan with the reason of a process.
SetStat(P, st)     == [P EXCEPT !.stat = st]
SetSigs(P, S)      == [P EXCEPT !.siglist = S]
SetWchan(P, c)     == [P EXCEPT !.wchan = c]
SetWhy(P, why)     == [P EXCEPT !.why = why]
SetAt(P, site)     == [P EXCEPT !.at = site]
SetRet(P, ret)     == [P EXCEPT !.ret = ret]
SetTimeout(P, b)   == [P EXCEPT !.timeout = b]
SetSintr(P, b)     == [P EXCEPT !.sintr = b]
SetInmem(P, b)     == [P EXCEPT !.inmem = b]
SetPptr(P, q)      == [P EXCEPT !.pptr = q]

\* The fields that wakeups and signals change.
SameShared(P, Q) ==
  Q.stat = P.stat /\ Q.wchan = P.wchan /\ Q.siglist = P.siglist /\ Q.why = P.why

\* Each changes its own field only: p_stat.
LEMMA SetStatIs ==
  ASSUME NEW P \in ProcRec, NEW st \in Stat
  PROVE  /\ SetStat(P, st) \in ProcRec /\ SetStat(P, st).stat = st
         /\ SameOwn(P, SetStat(P, st)) /\ SetStat(P, st).wchan = P.wchan
         /\ SetStat(P, st).siglist = P.siglist /\ SetStat(P, st).why = P.why
  BY DEF ProcRec, SetStat, SameOwn

\* p_siglist.
LEMMA SetSigsIs ==
  ASSUME NEW P \in ProcRec, NEW S \in SUBSET Signal
  PROVE  /\ SetSigs(P, S) \in ProcRec /\ SetSigs(P, S).siglist = S
         /\ SameOwn(P, SetSigs(P, S)) /\ SetSigs(P, S).wchan = P.wchan
         /\ SetSigs(P, S).stat = P.stat /\ SetSigs(P, S).why = P.why
  BY DEF ProcRec, SetSigs, SameOwn

\* p_wchan.
LEMMA SetWchanIs ==
  ASSUME NEW P \in ProcRec, NEW c \in Ident \cup {NoChan}
  PROVE  /\ SetWchan(P, c) \in ProcRec /\ SetWchan(P, c).wchan = c
         /\ SameOwn(P, SetWchan(P, c)) /\ SetWchan(P, c).siglist = P.siglist
         /\ SetWchan(P, c).stat = P.stat /\ SetWchan(P, c).why = P.why
  BY DEF ProcRec, SetWchan, SameOwn

\* The reason for which it left its queue.
LEMMA SetWhyIs ==
  ASSUME NEW P \in ProcRec, NEW why \in Whys
  PROVE  /\ SetWhy(P, why) \in ProcRec /\ SetWhy(P, why).why = why
         /\ SameOwn(P, SetWhy(P, why)) /\ SetWhy(P, why).siglist = P.siglist
         /\ SetWhy(P, why).stat = P.stat /\ SetWhy(P, why).wchan = P.wchan
  BY DEF ProcRec, SetWhy, SameOwn

\* What one of the other setters leaves alone.
SetOne(P, Q) ==
  /\ Q \in ProcRec /\ SameShared(P, Q)
  /\ Q.sigs = P.sigs /\ Q.catch = P.catch /\ Q.timo = P.timo

\* Where it is in the kernel.
LEMMA SetAtIs ==
  ASSUME NEW P \in ProcRec, NEW x \in Site
  PROVE  /\ SetOne(P, SetAt(P, x)) /\ SetAt(P, x).at = x /\ SetAt(P, x).sintr = P.sintr
         /\ SetAt(P, x).timeout = P.timeout /\ SetAt(P, x).inmem = P.inmem
         /\ SetAt(P, x).ret = P.ret /\ SetAt(P, x).pptr = P.pptr
  BY DEF ProcRec, SetOne, SameShared, SetAt

\* What tsleep() returned.
LEMMA SetRetIs ==
  ASSUME NEW P \in ProcRec, NEW x \in Rets
  PROVE  /\ SetOne(P, SetRet(P, x)) /\ SetRet(P, x).ret = x /\ SetRet(P, x).sintr = P.sintr
         /\ SetRet(P, x).timeout = P.timeout /\ SetRet(P, x).inmem = P.inmem
         /\ SetRet(P, x).at = P.at /\ SetRet(P, x).pptr = P.pptr
  BY DEF ProcRec, SetOne, SameShared, SetRet

\* P_TIMEOUT.
LEMMA SetTimeoutIs ==
  ASSUME NEW P \in ProcRec, NEW x \in BOOLEAN
  PROVE  /\ SetOne(P, SetTimeout(P, x)) /\ SetTimeout(P, x).timeout = x
         /\ SetTimeout(P, x).sintr = P.sintr /\ SetTimeout(P, x).inmem = P.inmem
         /\ SetTimeout(P, x).at = P.at /\ SetTimeout(P, x).ret = P.ret
         /\ SetTimeout(P, x).pptr = P.pptr
  BY DEF ProcRec, SetOne, SameShared, SetTimeout

\* P_SINTR.
LEMMA SetSintrIs ==
  ASSUME NEW P \in ProcRec, NEW x \in BOOLEAN
  PROVE  /\ SetOne(P, SetSintr(P, x)) /\ SetSintr(P, x).sintr = x
         /\ SetSintr(P, x).timeout = P.timeout /\ SetSintr(P, x).inmem = P.inmem
         /\ SetSintr(P, x).at = P.at /\ SetSintr(P, x).ret = P.ret
         /\ SetSintr(P, x).pptr = P.pptr
  BY DEF ProcRec, SetOne, SameShared, SetSintr

\* P_INMEM.
LEMMA SetInmemIs ==
  ASSUME NEW P \in ProcRec, NEW x \in BOOLEAN
  PROVE  /\ SetOne(P, SetInmem(P, x)) /\ SetInmem(P, x).inmem = x
         /\ SetInmem(P, x).timeout = P.timeout /\ SetInmem(P, x).sintr = P.sintr
         /\ SetInmem(P, x).at = P.at /\ SetInmem(P, x).ret = P.ret
         /\ SetInmem(P, x).pptr = P.pptr
  BY DEF ProcRec, SetOne, SameShared, SetInmem

\* p_pptr.
LEMMA SetPptrIs ==
  ASSUME NEW P \in ProcRec, NEW x \in Proc \cup {NoProc}
  PROVE  /\ SetOne(P, SetPptr(P, x)) /\ SetPptr(P, x).pptr = x
         /\ SetPptr(P, x).timeout = P.timeout /\ SetPptr(P, x).sintr = P.sintr
         /\ SetPptr(P, x).at = P.at /\ SetPptr(P, x).ret = P.ret
         /\ SetPptr(P, x).inmem = P.inmem
  BY DEF ProcRec, SetOne, SameShared, SetPptr

-----------------------------------------------------------------------------
(* Kernel states that are in order.                                         *)

\* The sleep queues agree with p_wchan.
Queued(K) ==
  \A q \in AnyProc : \A b \in Bucket :
    q \in K.slpque[b] <=> K.proc[q].wchan # NoChan /\ b = LOOKUP[K.proc[q].wchan]

\* The run queue holds the runnable processes in memory, apart from the running one x.
RunExact(K, x) ==
  /\ x \notin K.runq
  /\ \A q \in AnyProc \ {x} : q \in K.runq <=> K.proc[q].stat = "SRUN" /\ K.proc[q].inmem

\* A process that is at the given site: it has a p_wchan if it sleeps, and only if it
\* sleeps or stopped in tsleep().
WaitOK(P, at) ==
  /\ P.stat = "SSLEEP" => P.wchan # NoChan
  /\ P.wchan # NoChan => P.stat \in {"SSLEEP", "SSTOP"} /\ at \in {"sleep", "cursig1"}

\* In order, with every q at the site at[q], while x runs.  Nothing is said about where
\* x waits: in the midst of tsleep() it is on a sleep queue and still SRUN.
Orderly(K, at, x) ==
  /\ K \in KernelRec
  /\ Queued(K)
  /\ RunExact(K, x)
  /\ \A q \in AnyProc \ {x} : WaitOK(K.proc[q], at[q])

Ready(K, at, x) ==
  /\ Orderly(K, at, x)
  /\ x \in AnyProc => K.proc[x].stat = "SRUN"

\* L comes from K by waking processes and signalling t.
Frame(K, L, t, why) ==
  \A q \in AnyProc :
    /\ SameOwn(K.proc[q], L.proc[q])
    /\ \/ L.proc[q].wchan = K.proc[q].wchan /\ L.proc[q].why = K.proc[q].why
       \/ /\ K.proc[q].wchan # NoChan /\ L.proc[q].wchan = NoChan
          /\ L.proc[q].why \in {"wakeup", "signal"} \cup (IF q = t THEN {why} ELSE {})
    /\ q # t => /\ L.proc[q].siglist = K.proc[q].siglist
                /\ K.proc[q].stat = "SSTOP" => L.proc[q].stat = "SSTOP"
                /\ K.proc[q].stat = "SRUN" => L.proc[q] = K.proc[q]

\* All but t stay stopped, even in a panic.
StopKept(K, L, t) ==
  \A q \in AnyProc \ {t} : K.proc[q].stat = "SSTOP" => L.proc[q].stat = "SSTOP"

\* The operation from K to L on t did its work, unless it panicked.
Did(K, L, at, x, t, why) ==
  /\ L \in KernelRec /\ StopKept(K, L, t)
  /\ ~L.panicked => ~K.panicked /\ Orderly(L, at, x) /\ Frame(K, L, t, why)

\* Doing nothing.
LEMMA FrameRefl ==
  ASSUME NEW K \in KernelRec, NEW t, NEW why
  PROVE  Frame(K, K, t, why)
  BY DEF Frame, SameOwn

\* Doing two things.
LEMMA FrameTrans ==
  ASSUME NEW K, NEW L, NEW M, NEW t, NEW why, Frame(K, L, t, why), Frame(L, M, t, why)
  PROVE  Frame(K, M, t, why)
<1> SUFFICES ASSUME NEW q \in AnyProc
             PROVE  /\ SameOwn(K.proc[q], M.proc[q])
                    /\ \/ M.proc[q].wchan = K.proc[q].wchan /\ M.proc[q].why = K.proc[q].why
                       \/ /\ K.proc[q].wchan # NoChan /\ M.proc[q].wchan = NoChan
                          /\ M.proc[q].why \in {"wakeup", "signal"} \cup (IF q = t THEN {why} ELSE {})
                    /\ q # t => /\ M.proc[q].siglist = K.proc[q].siglist
                                /\ K.proc[q].stat = "SSTOP" => M.proc[q].stat = "SSTOP"
                                /\ K.proc[q].stat = "SRUN" => M.proc[q] = K.proc[q]
  BY DEF Frame
<1>1. SameOwn(K.proc[q], M.proc[q])
  BY DEF Frame, SameOwn
<1>2. QED
  BY <1>1 DEF Frame

\* Nobody asleep on the queue of proc0 is still running: what wakeup(&proc0) relies on.
Apart(K, x) ==
  x \in AnyProc /\ K.proc[x].wchan # NoChan => LOOKUP[K.proc[x].wchan] # LOOKUP[proc0]

\* Whom wakeup() finds on the queue of c: those who wait for c, and of these the ones
\* that it makes runnable.
Woken(K, c) == {p \in K.slpque[LOOKUP[c]] : K.proc[p].wchan = c}
ToRun(K, c) == {p \in Woken(K, c) : K.proc[p].stat = "SSLEEP"}
Scared(K, c) == \E p \in K.slpque[LOOKUP[c]] : \/ p \in K.runq
                                               \/ K.proc[p].stat \notin {"SSLEEP", "SSTOP"}

\* One pass of wakeup() over a sleep queue, in a kernel state of any kind.
LEMMA WakeQueueIs ==
  ASSUME NEW K \in KernelRec, NEW c \in Ident
  PROVE  /\ WakeQueue(K, c) \in KernelRec
         /\ \A p \in AnyProc \ Woken(K, c) : WakeQueue(K, c).proc[p] = K.proc[p]
         /\ \A p \in AnyProc \cap Woken(K, c) :
              /\ SameOwn(K.proc[p], WakeQueue(K, c).proc[p])
              /\ WakeQueue(K, c).proc[p].siglist = K.proc[p].siglist
              /\ WakeQueue(K, c).proc[p].wchan = NoChan
              /\ WakeQueue(K, c).proc[p].why = "wakeup"
              /\ WakeQueue(K, c).proc[p].stat = IF p \in ToRun(K, c) THEN "SRUN" ELSE K.proc[p].stat
         /\ \A d \in Bucket :
              WakeQueue(K, c).slpque[d] = IF d = LOOKUP[c] THEN K.slpque[d] \ Woken(K, c) ELSE K.slpque[d]
         /\ \A p : p \in WakeQueue(K, c).runq <=> p \in K.runq \/ (p \in ToRun(K, c) /\ K.proc[p].inmem)
         /\ WakeQueue(K, c).panicked <=> K.panicked \/ Scared(K, c)
<1> DEFINE W(p) == [K.proc[p] EXCEPT !.wchan = NoChan, !.why = "wakeup",
                                     !.stat = IF p \in ToRun(K, c) THEN "SRUN" ELSE @]
           L == WakeQueue(K, c)
<1>0. /\ LOOKUP[c] \in Bucket /\ Woken(K, c) \subseteq AnyProc /\ ToRun(K, c) \subseteq AnyProc
      /\ K.proc \in [AnyProc -> ProcRec] /\ K.slpque \in [Bucket -> SUBSET AnyProc]
      /\ K.runq \subseteq AnyProc
  BY DEF Bucket, Woken, ToRun, KernelRec
<1>1. \A p \in AnyProc :
        /\ W(p) \in ProcRec /\ SameOwn(K.proc[p], W(p)) /\ W(p).siglist = K.proc[p].siglist
        /\ W(p).wchan = NoChan /\ W(p).why = "wakeup"
        /\ W(p).stat = IF p \in ToRun(K, c) THEN "SRUN" ELSE K.proc[p].stat
  <2> SUFFICES ASSUME NEW p \in AnyProc
               PROVE  /\ W(p) \in ProcRec /\ SameOwn(K.proc[p], W(p)) /\ W(p).siglist = K.proc[p].siglist
                      /\ W(p).wchan = NoChan /\ W(p).why = "wakeup"
                      /\ W(p).stat = IF p \in ToRun(K, c) THEN "SRUN" ELSE K.proc[p].stat
    OBVIOUS
  <2> DEFINE A == SetWchan(K.proc[p], NoChan)
             B == SetWhy(A, "wakeup")
             st == IF p \in ToRun(K, c) THEN "SRUN" ELSE B.stat
  <2>1. W(p) = SetStat(B, st)
    BY Zenon DEF SetWchan, SetWhy, SetStat
  <2>2. K.proc[p] \in ProcRec
    BY <1>0
  <2> HIDE DEF A, B, st, W
  <2>3. /\ A \in ProcRec /\ SameOwn(K.proc[p], A) /\ A.siglist = K.proc[p].siglist
        /\ A.wchan = NoChan /\ A.stat = K.proc[p].stat
    BY <2>2, SetWchanIs DEF A
  <2>4. /\ B \in ProcRec /\ SameOwn(A, B) /\ B.siglist = A.siglist
        /\ B.wchan = NoChan /\ B.stat = A.stat /\ B.why = "wakeup"
    BY <2>3, SetWhyIs DEF B, Whys
  <2>5. st \in Stat /\ st = IF p \in ToRun(K, c) THEN "SRUN" ELSE K.proc[p].stat
    BY <2>2, <2>3, <2>4 DEF ProcRec, Stat, st
  <2>6. QED
    BY <2>1, <2>3, <2>4, <2>5, SetStatIs DEF SameOwn
<1>2. L = [proc |-> [p \in AnyProc |-> IF p \notin Woken(K, c) THEN K.proc[p] ELSE W(p)],
           slpque |-> [K.slpque EXCEPT ![LOOKUP[c]] = @ \ Woken(K, c)],
           runq |-> K.runq \cup {p \in ToRun(K, c) : K.proc[p].inmem},
           panicked |-> K.panicked \/ Scared(K, c)]
  BY Zenon DEF WakeQueue, Woken, ToRun, Scared
<1> HIDE DEF L, W
<1>3. /\ L.proc = [p \in AnyProc |-> IF p \notin Woken(K, c) THEN K.proc[p] ELSE W(p)]
      /\ L.slpque = [K.slpque EXCEPT ![LOOKUP[c]] = @ \ Woken(K, c)]
      /\ L.runq = K.runq \cup {p \in ToRun(K, c) : K.proc[p].inmem}
      /\ L.panicked = (K.panicked \/ Scared(K, c))
      /\ L = [proc |-> L.proc, slpque |-> L.slpque, runq |-> L.runq, panicked |-> L.panicked]
  BY <1>2
<1>4. L.proc \in [AnyProc -> ProcRec]
  BY <1>0, <1>1, <1>3
<1>5. L.slpque \in [Bucket -> SUBSET AnyProc] /\ L.runq \in SUBSET AnyProc
  BY <1>0, <1>3
<1>6. L.panicked \in BOOLEAN
  BY <1>3
<1>7. L \in KernelRec
  BY <1>3, <1>4, <1>5, <1>6 DEF KernelRec
<1>8. \A d \in Bucket : L.slpque[d] = IF d = LOOKUP[c] THEN K.slpque[d] \ Woken(K, c) ELSE K.slpque[d]
  BY <1>0, <1>3
<1>9. /\ \A p \in AnyProc \ Woken(K, c) : L.proc[p] = K.proc[p]
      /\ \A p \in AnyProc \cap Woken(K, c) : L.proc[p] = W(p)
  BY <1>3
<1>10. \A p : p \in L.runq <=> p \in K.runq \/ (p \in ToRun(K, c) /\ K.proc[p].inmem)
  BY <1>3
<1>11. L.panicked <=> K.panicked \/ Scared(K, c)
  BY <1>3
<1>12. \A p \in AnyProc \cap Woken(K, c) :
         /\ SameOwn(K.proc[p], L.proc[p]) /\ L.proc[p].siglist = K.proc[p].siglist
         /\ L.proc[p].wchan = NoChan /\ L.proc[p].why = "wakeup"
         /\ L.proc[p].stat = IF p \in ToRun(K, c) THEN "SRUN" ELSE K.proc[p].stat
  BY <1>1, <1>9
<1>13. QED
  BY <1>7, <1>8, <1>9, <1>10, <1>11, <1>12, Zenon DEF L

\* One pass of wakeup() over a sleep queue, in a kernel state that is in order.
LEMMA WakeQueueDoes ==
  ASSUME NEW K, NEW at, NEW x, Ready(K, at, x), NEW c \in Ident, NEW t, NEW why
  PROVE  /\ Did(K, WakeQueue(K, c), at, x, t, why)
         /\ ~K.panicked /\ (x \in AnyProc /\ K.proc[x].wchan # NoChan =>
                              LOOKUP[K.proc[x].wchan] # LOOKUP[c]) => ~WakeQueue(K, c).panicked
<1> DEFINE b == LOOKUP[c]
           queue == K.slpque[b]
           woken == Woken(K, c)
           toRun == ToRun(K, c)
           L == WakeQueue(K, c)
<1>0. /\ K \in KernelRec /\ b \in Bucket /\ queue \subseteq AnyProc
      /\ NoChan \notin Ident /\ c # NoChan
      /\ woken = {p \in queue : K.proc[p].wchan = c} /\ toRun = {p \in woken : K.proc[p].stat = "SSLEEP"}
  BY ProcAssumption DEF Ready, Orderly, KernelRec, Bucket, Woken, ToRun
<1>1. \A p \in AnyProc :
        \/ p \notin woken /\ L.proc[p] = K.proc[p]
        \/ /\ p \in woken
           /\ SameOwn(K.proc[p], L.proc[p]) /\ L.proc[p].siglist = K.proc[p].siglist
           /\ L.proc[p].wchan = NoChan /\ L.proc[p].why = "wakeup"
           /\ L.proc[p].stat = IF p \in toRun THEN "SRUN" ELSE K.proc[p].stat
  BY <1>0, WakeQueueIs
<1>2. /\ \A d \in Bucket : L.slpque[d] = IF d = b THEN K.slpque[d] \ woken ELSE K.slpque[d]
      /\ \A p : p \in L.runq <=> p \in K.runq \/ (p \in toRun /\ K.proc[p].inmem)
      /\ L.panicked <=> K.panicked \/ Scared(K, c)
  BY <1>0, WakeQueueIs, Zenon
<1>3. L \in KernelRec
  BY <1>0, WakeQueueIs
<1> HIDE DEF L, woken, toRun
<1>4. ASSUME ~L.panicked
      PROVE  ~K.panicked /\ Orderly(L, at, x) /\ Frame(K, L, t, why)
  <2>1. ~K.panicked /\ \A p \in queue : K.proc[p].stat \in {"SSLEEP", "SSTOP"} /\ p \notin K.runq
    BY <1>4, <1>2, <1>0 DEF Scared
  <2>2. \A q \in AnyProc : q \in woken <=> K.proc[q].wchan = c
    BY <1>0 DEF Ready, Orderly, Queued
  <2>3. Queued(L)
    <3> SUFFICES ASSUME NEW q \in AnyProc, NEW d \in Bucket
                 PROVE  q \in L.slpque[d] <=> L.proc[q].wchan # NoChan /\ d = LOOKUP[L.proc[q].wchan]
      BY DEF Queued
    <3>1. q \in K.slpque[d] <=> K.proc[q].wchan # NoChan /\ d = LOOKUP[K.proc[q].wchan]
      BY DEF Ready, Orderly, Queued
    <3>2. L.slpque[d] = IF d = b THEN queue \ woken ELSE K.slpque[d]
      BY <1>0, <1>2, KernelIs
    <3>3. CASE q \in woken
      BY <3>1, <3>2, <3>3, <1>1, <1>2, <2>2
    <3>4. CASE q \notin woken
      BY <3>1, <3>2, <3>4, <1>1, <1>2, <2>2
    <3>5. QED
      BY <3>3, <3>4
  <2>4. \A q \in AnyProc :
          \/ q \notin woken /\ L.proc[q] = K.proc[q]
          \/ q \in woken /\ L.proc[q].wchan = NoChan
    BY <1>1
  <2>5. Frame(K, L, t, why)
    <3> SUFFICES ASSUME NEW q \in AnyProc
                 PROVE  /\ SameOwn(K.proc[q], L.proc[q])
                        /\ \/ L.proc[q].wchan = K.proc[q].wchan /\ L.proc[q].why = K.proc[q].why
                           \/ /\ K.proc[q].wchan # NoChan /\ L.proc[q].wchan = NoChan
                              /\ L.proc[q].why \in {"wakeup", "signal"} \cup (IF q = t THEN {why} ELSE {})
                        /\ q # t => /\ L.proc[q].siglist = K.proc[q].siglist
                                    /\ K.proc[q].stat = "SSTOP" => L.proc[q].stat = "SSTOP"
                                    /\ K.proc[q].stat = "SRUN" => L.proc[q] = K.proc[q]
      BY DEF Frame
    <3>1. CASE q \notin woken
      BY <3>1, <2>4 DEF SameOwn
    <3>2. CASE q \in woken
      BY <3>2, <2>1, <2>2, <2>4, <1>0, <1>1
    <3>3. QED
      BY <3>1, <3>2
  <2>6. RunExact(L, x)
    <3>1. x \notin woken
      BY <2>1, <1>0 DEF Ready
    <3>2. x \notin L.runq
      BY <3>1, <1>0, <1>2 DEF Ready, Orderly, RunExact
    <3>3. ASSUME NEW q \in AnyProc \ {x}
          PROVE  q \in L.runq <=> L.proc[q].stat = "SRUN" /\ L.proc[q].inmem
      <4>1. q \in K.runq <=> K.proc[q].stat = "SRUN" /\ K.proc[q].inmem
        BY DEF Ready, Orderly, RunExact
      <4>2. CASE q \notin woken
        BY <4>1, <4>2, <2>4, <1>0, <1>2
      <4>3. CASE q \in woken
        BY <4>1, <4>3, <2>1, <2>4, <1>0, <1>1, <1>2 DEF SameOwn
      <4>4. QED
        BY <4>2, <4>3
    <3>4. QED
      BY <3>2, <3>3 DEF RunExact
  <2>7. \A q \in AnyProc \ {x} : WaitOK(L.proc[q], at[q])
    <3> SUFFICES ASSUME NEW q \in AnyProc \ {x}
                 PROVE  WaitOK(L.proc[q], at[q])
      OBVIOUS
    <3>1. WaitOK(K.proc[q], at[q])
      BY DEF Ready, Orderly
    <3>2. CASE q \in woken
      BY <3>1, <3>2, <2>1, <2>4, <1>0, <1>1 DEF WaitOK
    <3>3. QED
      BY <3>1, <3>2, <2>4
  <2>8. QED
    BY <1>3, <2>1, <2>3, <2>5, <2>6, <2>7 DEF Orderly
<1>5. ASSUME ~K.panicked, x \in AnyProc /\ K.proc[x].wchan # NoChan => LOOKUP[K.proc[x].wchan] # b
      PROVE  ~L.panicked
  <2>1. x \notin queue
    BY <1>5, <1>0 DEF Ready, Orderly, Queued
  <2>2. ASSUME NEW p \in queue
        PROVE  p \notin K.runq /\ K.proc[p].stat \in {"SSLEEP", "SSTOP"}
    <3>1. p \in AnyProc \ {x} /\ K.proc[p].wchan # NoChan
      BY <2>1, <1>0 DEF Ready, Orderly, Queued
    <3>2. QED
      BY <3>1 DEF Ready, Orderly, RunExact, WaitOK
  <2>3. QED
    BY <2>2, <1>2, <1>5 DEF Scared
<1>6. StopKept(K, L, t)
  BY <1>0, <1>1 DEF StopKept
<1>7. QED
  BY <1>3, <1>4, <1>5, <1>6 DEF Did, L

\* One pass of wakeup() never starts a stopped process, whatever the state.
LEMMA WakeQueueStops ==
  ASSUME NEW K \in KernelRec, NEW c \in Ident, NEW t
  PROVE  /\ WakeQueue(K, c) \in KernelRec /\ StopKept(K, WakeQueue(K, c), t)
         /\ K.panicked => WakeQueue(K, c).panicked
<1>1. \A p \in AnyProc : K.proc[p].stat = "SSTOP" => p \notin ToRun(K, c)
  BY DEF ToRun
<1>2. QED
  BY <1>1, WakeQueueIs DEF StopKept

\* Nor does wakeup() as a whole.
LEMMA WakeupStops ==
  ASSUME NEW K \in KernelRec, NEW c \in Ident, NEW t
  PROVE  /\ wakeup(K, c) \in KernelRec /\ StopKept(K, wakeup(K, c), t)
         /\ K.panicked => wakeup(K, c).panicked
<1>0. proc0 \in Ident
  BY DEF Ident, AnyProc
<1>1. wakeup(K, c) \in {WakeQueue(K, c), WakeQueue(WakeQueue(K, c), proc0)}
  BY DEF wakeup
<1>2. /\ WakeQueue(K, c) \in KernelRec /\ StopKept(K, WakeQueue(K, c), t)
      /\ K.panicked => WakeQueue(K, c).panicked
  BY WakeQueueStops
<1>3. /\ WakeQueue(WakeQueue(K, c), proc0) \in KernelRec
      /\ StopKept(WakeQueue(K, c), WakeQueue(WakeQueue(K, c), proc0), t)
      /\ WakeQueue(K, c).panicked => WakeQueue(WakeQueue(K, c), proc0).panicked
  BY <1>0, <1>2, WakeQueueStops
<1>4. QED
  BY <1>1, <1>2, <1>3 DEF StopKept

\* wakeup(): the swapper is woken too if a process that is not in memory became runnable.
LEMMA WakeupDoes ==
  ASSUME NEW K, NEW at, NEW x, Ready(K, at, x), NEW c \in Ident, NEW t, NEW why,
         x \in AnyProc => t # x
  PROVE  /\ Did(K, wakeup(K, c), at, x, t, why)
         /\ ~K.panicked /\ Apart(K, x) /\ (x \in AnyProc /\ K.proc[x].wchan # NoChan =>
                              LOOKUP[K.proc[x].wchan] # LOOKUP[c]) => ~wakeup(K, c).panicked
<1> DEFINE W == WakeQueue(K, c)
           V == WakeQueue(W, proc0)
<1>0. proc0 \in Ident /\ K \in KernelRec
  BY DEF Ident, AnyProc, Ready, Orderly
<1>1. /\ Did(K, W, at, x, t, why)
      /\ ~K.panicked /\ (x \in AnyProc /\ K.proc[x].wchan # NoChan =>
                              LOOKUP[K.proc[x].wchan] # LOOKUP[c]) => ~W.panicked
  BY WakeQueueDoes
<1>2. wakeup(K, c) \in {W, V}
  BY DEF wakeup
<1> HIDE DEF W
<1>3. W.panicked => V.panicked
  BY DEF WakeQueue
<1>4. ASSUME ~W.panicked
      PROVE  Ready(W, at, x) /\ (x \in AnyProc => W.proc[x] = K.proc[x])
  <2>1. Orderly(W, at, x) /\ Frame(K, W, t, why)
    BY <1>1, <1>4 DEF Did
  <2>2. x \in AnyProc => W.proc[x] = K.proc[x]
    BY <2>1 DEF Frame, Ready
  <2>3. QED
    BY <2>1, <2>2 DEF Ready
<1>5. ASSUME ~W.panicked
      PROVE  Did(K, V, at, x, t, why) /\ (Apart(K, x) => ~V.panicked)
  <2>1. /\ Did(W, V, at, x, t, why)
        /\ Apart(W, x) => ~V.panicked
    BY <1>0, <1>4, <1>5, WakeQueueDoes DEF Apart
  <2>2. Apart(K, x) => Apart(W, x)
    BY <1>4, <1>5 DEF Apart
  <2> HIDE DEF V
  <2>3. StopKept(K, V, t)
    BY <1>1, <2>1 DEF Did, StopKept
  <2>4. QED
    BY <1>1, <1>5, <2>1, <2>2, <2>3, FrameTrans DEF Did
<1>6. V \in KernelRec /\ StopKept(K, V, t)
  <2>1. W \in KernelRec /\ StopKept(K, W, t)
    BY <1>1 DEF Did
  <2>2. V \in KernelRec /\ StopKept(W, V, t)
    BY <2>1, <1>0, WakeQueueStops DEF V
  <2>3. QED
    BY <2>1, <2>2 DEF StopKept
<1> HIDE DEF V
<1>7. QED
  BY <1>1, <1>2, <1>3, <1>5, <1>6 DEF Did

\* Apart from t, only those who sleep on &proc0 are touched.
OnlySwapper(K, L, t) ==
  \A q \in AnyProc \ {t} : K.proc[q].wchan # proc0 => L.proc[q] = K.proc[q]

\* What wakeup(&proc0) touches, whatever the state.
LEMMA WakeSwapperOnly ==
  ASSUME NEW K \in KernelRec, NEW t
  PROVE  OnlySwapper(K, wakeup(K, proc0), t)
<1>0. proc0 \in Ident
  BY DEF Ident, AnyProc
<1>1. wakeup(K, proc0) \in {WakeQueue(K, proc0), WakeQueue(WakeQueue(K, proc0), proc0)}
  BY DEF wakeup
<1>2. /\ WakeQueue(K, proc0) \in KernelRec
      /\ \A q \in AnyProc : K.proc[q].wchan # proc0 => WakeQueue(K, proc0).proc[q] = K.proc[q]
  BY <1>0, WakeQueueIs DEF Woken
<1> DEFINE L == WakeQueue(K, proc0)
<1> HIDE DEF L
<1>3. \A q \in AnyProc : L.proc[q].wchan # proc0 => WakeQueue(L, proc0).proc[q] = L.proc[q]
  BY <1>0, <1>2, WakeQueueIs DEF Woken, L
<1>4. QED
  BY <1>1, <1>2, <1>3 DEF OnlySwapper, L

\* unsleep() of a process that is on a sleep queue.
LEMMA UnsleepIs ==
  ASSUME NEW K \in KernelRec, Queued(K), NEW p \in AnyProc, NEW why \in Whys
  PROVE  LET L == unsleep(K, p, why)
         IN  /\ L \in KernelRec /\ Queued(L) /\ L.runq = K.runq /\ L.panicked = K.panicked
             /\ \A q \in AnyProc \ {p} : L.proc[q] = K.proc[q]
             /\ SameOwn(K.proc[p], L.proc[p]) /\ L.proc[p].stat = K.proc[p].stat
             /\ L.proc[p].siglist = K.proc[p].siglist /\ L.proc[p].wchan = NoChan
             /\ L.proc[p].why = IF K.proc[p].wchan = NoChan THEN K.proc[p].why ELSE why
<1>1. CASE K.proc[p].wchan = NoChan
  <2>1. unsleep(K, p, why) = K
    BY <1>1 DEF unsleep
  <2>2. QED
    BY <2>1, <1>1 DEF SameOwn
<1>2. CASE K.proc[p].wchan # NoChan
  <2> DEFINE w == K.proc[p].wchan
             b == LOOKUP[w]
             S == K.slpque[b] \ {p}
             A == PutQueue(K, b, S)
             P == SetWchan(A.proc[p], NoChan)
             B == Put(A, p, P)
             Q == SetWhy(B.proc[p], why)
             C == Put(B, p, Q)
  <2>1. unsleep(K, p, why) = C
    BY <1>2, Zenon DEF unsleep, PutQueue, Put, SetWchan, SetWhy
  <2>2. K.proc[p] \in ProcRec /\ w \in Ident /\ b \in Bucket /\ S \in SUBSET AnyProc
    BY ZenonT(60), <1>2, KernelIs DEF ProcRec, Bucket
  <2> HIDE DEF A, P, B, Q, C
  <2>3. /\ A \in KernelRec /\ A.proc = K.proc /\ A.runq = K.runq /\ A.panicked = K.panicked
        /\ A.slpque[b] = K.slpque[b] \ {p}
        /\ \A d \in Bucket \ {b} : A.slpque[d] = K.slpque[d]
    <3> HIDE DEF b, S
    <3>1. /\ A \in KernelRec /\ A.proc = K.proc /\ A.runq = K.runq /\ A.panicked = K.panicked
          /\ A.slpque[b] = S /\ \A d \in Bucket \ {b} : A.slpque[d] = K.slpque[d]
      BY <2>2, PutQueueIs DEF A
    <3>2. QED
      BY <3>1 DEF S
  <2>4. /\ P \in ProcRec /\ SameOwn(K.proc[p], P) /\ P.wchan = NoChan
        /\ P.stat = K.proc[p].stat /\ P.siglist = K.proc[p].siglist
    BY <2>2, <2>3, SetWchanIs DEF P
  <2>5. /\ B \in KernelRec /\ B.slpque = A.slpque /\ B.runq = K.runq /\ B.panicked = K.panicked
        /\ B.proc[p] = P /\ \A q \in AnyProc \ {p} : B.proc[q] = K.proc[q]
    BY <2>3, <2>4, PutIs DEF B
  <2>6. /\ Q \in ProcRec /\ SameOwn(K.proc[p], Q) /\ Q.wchan = NoChan /\ Q.why = why
        /\ Q.stat = K.proc[p].stat /\ Q.siglist = K.proc[p].siglist
    BY <2>4, <2>5, SetWhyIs DEF Q, SameOwn
  <2>7. /\ C \in KernelRec /\ C.slpque = A.slpque /\ C.runq = K.runq /\ C.panicked = K.panicked
        /\ C.proc[p] = Q /\ \A q \in AnyProc \ {p} : C.proc[q] = K.proc[q]
    BY <2>5, <2>6, PutIs DEF C
  <2>8. Queued(C)
    <3> SUFFICES ASSUME NEW q \in AnyProc, NEW d \in Bucket
                 PROVE  q \in C.slpque[d] <=> C.proc[q].wchan # NoChan /\ d = LOOKUP[C.proc[q].wchan]
      BY DEF Queued
    <3>1. q \in K.slpque[d] <=> K.proc[q].wchan # NoChan /\ d = LOOKUP[K.proc[q].wchan]
      BY DEF Queued
    <3>2. CASE q = p
      BY <3>1, <3>2, <2>2, <2>3, <2>6, <2>7
    <3>3. CASE q # p
      BY <3>1, <3>3, <2>2, <2>3, <2>7
    <3>4. QED
      BY <3>2, <3>3
  <2>9. QED
    BY <1>2, <2>1, <2>6, <2>7, <2>8
<1>3. QED
  BY <1>1, <1>2

\* setrunnable(): the process leaves its sleep queue and is runnable, in memory or for
\* the swapper to bring in.
LEMMA SetrunnableDoes ==
  ASSUME NEW K, NEW at, NEW x, Ready(K, at, x), NEW p \in AnyProc, p # x, NEW why \in Whys
  PROVE  /\ Did(K, setrunnable(K, p, why), at, x, p, why)
         /\ ~setrunnable(K, p, why).panicked =>
              /\ setrunnable(K, p, why).proc[p].wchan = NoChan
              /\ setrunnable(K, p, why).proc[p].siglist = K.proc[p].siglist
              /\ setrunnable(K, p, why).proc[p].why =
                   IF K.proc[p].wchan = NoChan THEN K.proc[p].why ELSE why
         /\ ~K.panicked /\ Apart(K, x) /\ K.proc[p].stat \in {"SSLEEP", "SSTOP"} =>
              ~setrunnable(K, p, why).panicked
         /\ OnlySwapper(K, setrunnable(K, p, why), p)
<1> DEFINE U == unsleep(K, p, why)
           P == SetStat(U.proc[p], "SRUN")
           R == Put(U, p, P)
           whyp == IF K.proc[p].wchan = NoChan THEN K.proc[p].why ELSE why
<1>0. K \in KernelRec /\ Queued(K) /\ K.panicked \in BOOLEAN
  BY KernelIs DEF Ready, Orderly
<1>1. /\ U \in KernelRec /\ Queued(U) /\ U.runq = K.runq /\ U.panicked = K.panicked
      /\ \A q \in AnyProc \ {p} : U.proc[q] = K.proc[q]
      /\ SameOwn(K.proc[p], U.proc[p]) /\ U.proc[p].stat = K.proc[p].stat
      /\ U.proc[p].siglist = K.proc[p].siglist /\ U.proc[p].wchan = NoChan
      /\ U.proc[p].why = whyp
  BY <1>0, UnsleepIs, Zenon
<1>2. CASE K.proc[p].stat \notin {"SSLEEP", "SSTOP"}
  <2>1. setrunnable(K, p, why) = PutPanic(K, TRUE)
    BY <1>2 DEF setrunnable, PutPanic
  <2>2. /\ PutPanic(K, TRUE) \in KernelRec /\ PutPanic(K, TRUE).panicked
        /\ PutPanic(K, TRUE).proc = K.proc
    BY <1>0, PutPanicIs
  <2>3. QED
    BY <1>2, <2>1, <2>2 DEF Did, StopKept, OnlySwapper
<1>3. CASE K.proc[p].stat \in {"SSLEEP", "SSTOP"}
  <2>1. setrunnable(K, p, why) = IF K.proc[p].inmem THEN setrunqueue(R, p) ELSE wakeup(R, proc0)
    BY <1>3, Zenon DEF setrunnable, Put, SetStat
  <2> HIDE DEF U
  <2>2. /\ P \in ProcRec /\ SameOwn(K.proc[p], P) /\ P.wchan = NoChan /\ P.stat = "SRUN"
        /\ P.siglist = K.proc[p].siglist /\ P.why = whyp
    <3>1. U.proc[p] \in ProcRec /\ "SRUN" \in Stat
      BY <1>1, KernelIs DEF Stat
    <3>2. /\ P \in ProcRec /\ SameOwn(U.proc[p], P) /\ P.wchan = U.proc[p].wchan /\ P.stat = "SRUN"
          /\ P.siglist = U.proc[p].siglist /\ P.why = U.proc[p].why
      BY <3>1, SetStatIs
    <3> HIDE DEF P
    <3>3. QED
      BY <3>2, <1>1 DEF SameOwn
  <2> HIDE DEF P
  <2>3. /\ R \in KernelRec /\ R.slpque = U.slpque /\ R.runq = K.runq /\ R.panicked = K.panicked
        /\ R.proc[p] = P /\ \A q \in AnyProc \ {p} : R.proc[q] = K.proc[q]
    BY <1>1, <2>2, PutIs
  <2> HIDE DEF R
  <2>4. Queued(R)
    BY <1>1, <2>2, <2>3 DEF Queued
  <2>5. Frame(K, R, p, why)
    BY <1>0, <2>2, <2>3 DEF Frame, SameOwn
  <2>6. \A q \in AnyProc \ {x} : WaitOK(R.proc[q], at[q])
    BY <2>2, <2>3 DEF Ready, Orderly, WaitOK
  <2>7. CASE K.proc[p].inmem
    <3> DEFINE A == PutRunq(R, R.runq \cup {p})
               pk == A.panicked \/ p \in R.runq \/ NotForRunQueue(R.proc[p])
               L == PutPanic(A, pk)
    <3>1. setrunnable(K, p, why) = L
      BY <2>1, <2>7, Zenon DEF setrunqueue, PutRunq, PutPanic
    <3> HIDE DEF A
    <3>2. /\ A \in KernelRec /\ A.runq = K.runq \cup {p} /\ A.proc = R.proc /\ A.slpque = R.slpque
          /\ A.panicked = K.panicked
      <4>1. R.runq \cup {p} \in SUBSET AnyProc
        BY <2>3, KernelIs
      <4>2. QED
        BY <2>3, <4>1, PutRunqIs DEF A
    <3>3. ~NotForRunQueue(R.proc[p])
      BY <2>2, <2>3 DEF NotForRunQueue
    <3>4. p \notin K.runq
      BY <1>3 DEF Ready, Orderly, RunExact
    <3>5. pk = K.panicked
      BY <3>2, <3>3, <3>4, <2>3, <1>0
    <3> HIDE DEF pk
    <3>6. /\ L \in KernelRec /\ L.runq = K.runq \cup {p} /\ L.proc = R.proc /\ L.slpque = R.slpque
          /\ L.panicked = K.panicked
      BY <3>2, <3>5, <1>0, PutPanicIs
    <3> HIDE DEF L
    <3>7. RunExact(L, x)
      <4>1. RunExact(K, x)
        BY DEF Ready, Orderly
      <4>2. x \notin L.runq
        BY <4>1, <3>6 DEF RunExact
      <4>3. \A q \in AnyProc \ {x, p} : q \in L.runq <=> L.proc[q].stat = "SRUN" /\ L.proc[q].inmem
        BY <4>1, <3>6, <2>3 DEF RunExact
      <4>4. p \in L.runq /\ L.proc[p].stat = "SRUN" /\ L.proc[p].inmem
        BY <3>6, <2>2, <2>3, <2>7 DEF SameOwn
      <4>5. QED
        BY <4>2, <4>3, <4>4 DEF RunExact
    <3>8. Orderly(L, at, x)
      BY <2>4, <2>6, <3>6, <3>7 DEF Orderly, Queued
    <3>9. Frame(K, L, p, why)
      BY <2>5, <3>6 DEF Frame
    <3>10. StopKept(K, L, p)
      BY <3>9 DEF Frame, StopKept
    <3>11. OnlySwapper(K, L, p)
      BY <2>3, <3>6 DEF OnlySwapper
    <3>12. QED
      BY <1>0, <2>2, <2>3, <3>1, <3>6, <3>8, <3>9, <3>10, <3>11 DEF Did
  <2>8. CASE ~K.proc[p].inmem
    <3> DEFINE L == wakeup(R, proc0)
    <3>1. setrunnable(K, p, why) = L
      BY <2>1, <2>8
    <3>2. RunExact(R, x)
      BY <1>3, <2>2, <2>3, <2>8 DEF RunExact, Ready, Orderly, SameOwn
    <3>3. Ready(R, at, x)
      BY <2>3, <2>4, <2>6, <3>2 DEF Ready, Orderly
    <3>4. proc0 \in Ident
      BY DEF Ident, AnyProc
    <3>5. Did(R, L, at, x, p, why) /\ (~R.panicked /\ Apart(R, x) => ~L.panicked)
      BY <3>3, <3>4, WakeupDoes DEF Apart
    <3> HIDE DEF L
    <3>6. Apart(K, x) => Apart(R, x)
      BY <2>3 DEF Apart
    <3>7. ~L.panicked => Frame(R, L, p, why) /\ L.proc[p].wchan = NoChan /\ L.proc[p].why = whyp
      BY <3>5, <2>2, <2>3 DEF Did, Frame
    <3>8. ~L.panicked => L.proc[p].siglist = K.proc[p].siglist
      <4>1. ~L.panicked => Frame(R, L, NoProc, why)
        BY <3>3, <3>4, WakeupDoes, ProcAssumption DEF Did, L
      <4>2. QED
        BY <4>1, <2>2, <2>3, ProcAssumption DEF Frame
    <3>9. StopKept(K, L, p)
      BY <3>5, <2>3 DEF Did, StopKept
    <3>10. OnlySwapper(K, L, p)
      <4>1. OnlySwapper(R, L, p)
        BY <2>3, WakeSwapperOnly DEF L
      <4>2. QED
        BY <4>1, <2>3 DEF OnlySwapper
    <3>11. QED
      BY <3>1, <3>5, <3>6, <3>7, <3>8, <3>9, <3>10, <2>3, <2>5, FrameTrans DEF Did
  <2>9. QED
    BY <2>7, <2>8
<1>4. QED
  BY <1>2, <1>3

-----------------------------------------------------------------------------
(* Signals.                                                                 *)

\* L differs from K in p_siglist of p only.
Listed(K, L, p, S) ==
  /\ L \in KernelRec /\ L.slpque = K.slpque /\ L.runq = K.runq /\ L.panicked = K.panicked
  /\ \A q \in AnyProc \ {p} : L.proc[q] = K.proc[q]
  /\ SameOwn(K.proc[p], L.proc[p]) /\ L.proc[p].stat = K.proc[p].stat
  /\ L.proc[p].wchan = K.proc[p].wchan /\ L.proc[p].why = K.proc[p].why
  /\ L.proc[p].siglist = S

\* Setting p_siglist.
LEMMA PutSigsIs ==
  ASSUME NEW K \in KernelRec, NEW p \in AnyProc, NEW S \in SUBSET Signal
  PROVE  Listed(K, Put(K, p, SetSigs(K.proc[p], S)), p, S)
<1> DEFINE P == SetSigs(K.proc[p], S)
<1>1. /\ P \in ProcRec /\ P.siglist = S /\ SameOwn(K.proc[p], P) /\ P.wchan = K.proc[p].wchan
      /\ P.stat = K.proc[p].stat /\ P.why = K.proc[p].why
  BY KernelIs, SetSigsIs
<1> HIDE DEF P
<1>2. Listed(K, Put(K, p, P), p, S)
  BY <1>1, PutIs DEF Listed
<1>3. QED
  BY <1>2 DEF P

\* A change of p_siglist leaves a kernel state in order.
LEMMA ListedDoes ==
  ASSUME NEW K, NEW at, NEW x, Ready(K, at, x), NEW p \in AnyProc, NEW L, NEW S, Listed(K, L, p, S),
         NEW why
  PROVE  /\ Ready(L, at, x) /\ Frame(K, L, p, why) /\ StopKept(K, L, p)
         /\ Did(K, L, at, x, p, why) /\ (Apart(K, x) => Apart(L, x))
<1>1. Ready(L, at, x)
  <2>1. Queued(L)
    BY DEF Ready, Orderly, Queued, Listed
  <2>2. RunExact(L, x)
    BY DEF Ready, Orderly, RunExact, Listed, SameOwn
  <2>3. \A q \in AnyProc \ {x} : WaitOK(L.proc[q], at[q])
    BY DEF Ready, Orderly, WaitOK, Listed
  <2>4. x \in AnyProc => L.proc[x].stat = "SRUN"
    BY DEF Ready, Listed
  <2>5. QED
    BY <2>1, <2>2, <2>3, <2>4 DEF Ready, Orderly, Listed
<1>2. Frame(K, L, p, why) /\ StopKept(K, L, p)
  BY DEF Frame, SameOwn, StopKept, Listed
<1>3. Apart(K, x) => Apart(L, x)
  BY DEF Apart, Listed
<1>4. QED
  BY <1>1, <1>2, <1>3 DEF Did, Ready, Orderly, Listed

\* What psignal() puts aside when s is posted.
Cancelled(s) == IF s = SIGCONT THEN StopSignals ELSE IF s \in StopSignals THEN {SIGCONT} ELSE {}

\* Posting a signal.
LEMMA PostIs ==
  ASSUME NEW K \in KernelRec, NEW p \in AnyProc, NEW s \in Signal
  PROVE  Listed(K, Post(K, p, s), p, {s} \cup (K.proc[p].siglist \ Cancelled(s)))
<1>1. Post(K, p, s) = Put(K, p, SetSigs(K.proc[p], {s} \cup (K.proc[p].siglist \ Cancelled(s))))
  BY Zenon DEF Post, Put, SetSigs, Cancelled
<1>2. {s} \cup (K.proc[p].siglist \ Cancelled(s)) \in SUBSET Signal
  BY KernelIs DEF ProcRec
<1>3. QED
  BY <1>1, <1>2, PutSigsIs

\* Taking a signal.
LEMMA TakeIs ==
  ASSUME NEW K \in KernelRec, NEW p \in AnyProc, NEW s
  PROVE  Listed(K, Take(K, p, s), p, K.proc[p].siglist \ {s})
<1>1. Take(K, p, s) = Put(K, p, SetSigs(K.proc[p], K.proc[p].siglist \ {s}))
  BY Zenon DEF Take, Put, SetSigs
<1>2. K.proc[p].siglist \ {s} \in SUBSET Signal
  BY KernelIs DEF ProcRec
<1>3. QED
  BY <1>1, <1>2, PutSigsIs

\* unsleep() of another process than the running one.
LEMMA UnsleepDoes ==
  ASSUME NEW K, NEW at, NEW x, Ready(K, at, x), NEW p \in AnyProc, p # x, NEW why \in Whys,
         K.proc[p].stat # "SSLEEP"
  PROVE  /\ Did(K, unsleep(K, p, why), at, x, p, why)
         /\ unsleep(K, p, why).proc[p].wchan = NoChan
         /\ unsleep(K, p, why).proc[p].stat = K.proc[p].stat
         /\ unsleep(K, p, why).panicked = K.panicked
         /\ unsleep(K, p, why).proc[p].why = IF K.proc[p].wchan = NoChan THEN K.proc[p].why ELSE why
         /\ unsleep(K, p, why).proc[p].siglist = K.proc[p].siglist
         /\ OnlySwapper(K, unsleep(K, p, why), p)
<1> DEFINE U == unsleep(K, p, why)
<1>0. K \in KernelRec /\ Queued(K)
  BY DEF Ready, Orderly
<1>1. /\ U \in KernelRec /\ Queued(U) /\ U.runq = K.runq /\ U.panicked = K.panicked
      /\ \A q \in AnyProc \ {p} : U.proc[q] = K.proc[q]
      /\ SameOwn(K.proc[p], U.proc[p]) /\ U.proc[p].stat = K.proc[p].stat
      /\ U.proc[p].siglist = K.proc[p].siglist /\ U.proc[p].wchan = NoChan
      /\ U.proc[p].why = IF K.proc[p].wchan = NoChan THEN K.proc[p].why ELSE why
  BY ZenonT(60), <1>0, UnsleepIs
<1> HIDE DEF U
<1>2. RunExact(U, x)
  BY <1>1 DEF Ready, Orderly, RunExact, SameOwn
<1>3. \A q \in AnyProc \ {x} : WaitOK(U.proc[q], at[q])
  BY <1>1 DEF Ready, Orderly, WaitOK
<1>4. Frame(K, U, p, why) /\ StopKept(K, U, p)
  BY <1>1 DEF Frame, SameOwn, StopKept
<1>5. QED
  BY <1>1, <1>2, <1>3, <1>4 DEF Did, Orderly, U, OnlySwapper

\* A process with no new signal but masked ones has no new signal of effect.
LEMMA EffectiveSub ==
  ASSUME NEW P, NEW Q, Q.sigs = P.sigs, Q.siglist \subseteq P.siglist \cup P.sigs.mask
  PROVE  Effective(Q) \subseteq Effective(P)
  BY DEF Effective

\* The signal of a process that may still be woken is on its list for nothing: it is
\* masked or has been taken.
Settled(K, L, p, s) ==
  L.proc[p].wchan # NoChan /\ L.proc[p].sintr =>
    \/ L.proc[p].siglist = K.proc[p].siglist \ {s}
    \/ Action(K.proc[p], s) = "HOLD" /\ L.proc[p].siglist = K.proc[p].siglist

\* psignal() on a stopped process.
LEMMA SignalStoppedDoes ==
  ASSUME NEW K, NEW at, NEW x, Ready(K, at, x), NEW p \in AnyProc, p # x, NEW s \in Signal,
         K.proc[p].stat = "SSTOP"
  PROVE  /\ Did(K, SignalStopped(K, p, s), at, x, p, "signal")
         /\ ~SignalStopped(K, p, s).panicked => Settled(K, SignalStopped(K, p, s), p, s)
         /\ ~K.panicked /\ Apart(K, x) => ~SignalStopped(K, p, s).panicked
         /\ s \notin {SIGCONT, SIGKILL} => SignalStopped(K, p, s).proc[p].stat = "SSTOP"
         /\ OnlySwapper(K, SignalStopped(K, p, s), p)
<1> DEFINE C == IF Action(K.proc[p], s) = "DFL" THEN Take(K, p, s) ELSE K
           L == SignalStopped(K, p, s)
           T == Take(K, p, s)
<1>0. /\ K \in KernelRec /\ K.proc[p] \in ProcRec /\ "signal" \in Whys
      /\ SIGKILL # SIGCONT /\ SIGKILL \notin StopSignals /\ SIGCONT \notin StopSignals
  BY KernelIs DEF Ready, Orderly, Whys, SIGKILL, SIGCONT, StopSignals, SIGTSTP
<1>1. Listed(K, T, p, K.proc[p].siglist \ {s})
  BY <1>0, TakeIs
<1>2. /\ Ready(T, at, x) /\ Frame(K, T, p, "signal") /\ StopKept(K, T, p)
      /\ Did(K, T, at, x, p, "signal") /\ (Apart(K, x) => Apart(T, x))
  BY <1>1, ListedDoes
<1>3. Did(K, K, at, x, p, "signal") /\ Frame(K, K, p, "signal") /\ StopKept(K, K, p)
  BY <1>0, FrameRefl DEF Did, StopKept, Ready
<1> HIDE DEF T
<1>4. CASE s = SIGKILL
  <2>1. L = setrunnable(K, p, "signal")
    BY <1>4 DEF SignalStopped
  <2>2. QED
    BY <1>0, <1>4, <2>1, SetrunnableDoes DEF Settled
<1>5. CASE s = SIGCONT
  <2>1. /\ C \in KernelRec /\ Ready(C, at, x) /\ Frame(K, C, p, "signal") /\ StopKept(K, C, p)
        /\ C.panicked = K.panicked /\ (Apart(K, x) => Apart(C, x))
        /\ C.proc[p].stat = "SSTOP" /\ C.proc[p].wchan = K.proc[p].wchan
        /\ \A q \in AnyProc \ {p} : C.proc[q] = K.proc[q]
    BY <1>0, <1>1, <1>2, <1>3 DEF Listed, T
  <2>2. Action(K.proc[p], s) \in {"DFL", "HOLD", "CATCH"}
    BY DEF Action
  <2>3. \/ Action(K.proc[p], s) = "DFL" /\ C.proc[p].siglist = K.proc[p].siglist \ {s}
        \/ Action(K.proc[p], s) # "DFL" /\ C.proc[p].siglist = K.proc[p].siglist
    BY <1>1 DEF Listed, T
  <2>4. L = IF Action(K.proc[p], s) = "CATCH" \/ K.proc[p].wchan = NoChan
            THEN setrunnable(C, p, "signal") ELSE Put(C, p, SetStat(C.proc[p], "SSLEEP"))
    BY <1>0, <1>5, Zenon DEF SignalStopped, Put, SetStat
  <2> HIDE DEF C
  <2>5. CASE Action(K.proc[p], s) = "CATCH" \/ K.proc[p].wchan = NoChan
    <3>1. L = setrunnable(C, p, "signal")
      BY <2>4, <2>5
    <3>2. /\ Did(C, L, at, x, p, "signal")
          /\ ~L.panicked => L.proc[p].wchan = NoChan
          /\ ~C.panicked /\ Apart(C, x) => ~L.panicked
          /\ OnlySwapper(C, L, p)
      BY <1>0, <2>1, <3>1, SetrunnableDoes
    <3> HIDE DEF L
    <3>3. Did(K, L, at, x, p, "signal")
      BY <2>1, <3>2, FrameTrans DEF Did, StopKept
    <3>4. OnlySwapper(K, L, p)
      BY <2>1, <3>2 DEF OnlySwapper
    <3>5. QED
      BY <1>5, <2>1, <3>2, <3>3, <3>4 DEF L, Settled
  <2>6. CASE ~(Action(K.proc[p], s) = "CATCH" \/ K.proc[p].wchan = NoChan)
    <3> DEFINE P == SetStat(C.proc[p], "SSLEEP")
    <3>1. /\ P \in ProcRec /\ P.stat = "SSLEEP" /\ SameOwn(C.proc[p], P)
          /\ P.wchan = C.proc[p].wchan /\ P.siglist = C.proc[p].siglist /\ P.why = C.proc[p].why
      BY <2>1, KernelIs, SetStatIs DEF Stat
    <3> HIDE DEF P
    <3>2. L = Put(C, p, P)
      BY <2>4, <2>6 DEF P
    <3>3. /\ L \in KernelRec /\ L.proc[p] = P /\ \A q \in AnyProc \ {p} : L.proc[q] = C.proc[q]
          /\ L.slpque = C.slpque /\ L.runq = C.runq /\ L.panicked = C.panicked
      BY <2>1, <3>1, <3>2, PutIs
    <3> HIDE DEF L
    <3>4. Queued(L)
      BY <2>1, <3>1, <3>3 DEF Ready, Orderly, Queued
    <3>5. RunExact(L, x)
      BY <2>1, <3>1, <3>3 DEF Ready, Orderly, RunExact
    <3>6. \A q \in AnyProc \ {x} : WaitOK(L.proc[q], at[q])
      BY <2>1, <2>6, <3>1, <3>3 DEF Ready, Orderly, WaitOK
    <3>7. Frame(C, L, p, "signal") /\ StopKept(C, L, p)
      BY <3>1, <3>3 DEF Frame, SameOwn, StopKept
    <3>8. Did(K, L, at, x, p, "signal")
      BY <2>1, <3>3, <3>4, <3>5, <3>6, <3>7, FrameTrans DEF Did, StopKept, Orderly
    <3>9. Settled(K, L, p, s)
      BY <2>2, <2>3, <2>6, <3>1, <3>3 DEF Settled
    <3>10. OnlySwapper(K, L, p)
      BY <2>1, <3>3 DEF OnlySwapper
    <3>11. QED
      BY <1>5, <2>1, <3>3, <3>8, <3>9, <3>10 DEF L
  <2>7. QED
    BY <2>5, <2>6
<1>6. CASE s \in StopSignals
  <2>1. L = T
    BY <1>0, <1>6 DEF SignalStopped, T
  <2>2. QED
    BY <1>1, <1>2, <2>1 DEF Listed, Settled, OnlySwapper
<1>7. CASE s \notin {SIGKILL, SIGCONT} \cup StopSignals
  <2>1. L = IF K.proc[p].sintr THEN unsleep(K, p, "signal") ELSE K
    BY <1>7 DEF SignalStopped
  <2>2. CASE K.proc[p].sintr
    BY <1>0, <2>1, <2>2, UnsleepDoes DEF Settled
  <2>3. CASE ~K.proc[p].sintr
    BY <1>3, <2>1, <2>3 DEF Settled, OnlySwapper
  <2>4. QED
    BY <2>2, <2>3
<1>8. QED
  BY <1>4, <1>5, <1>6, <1>7

\* A process that may still be woken by a wakeup() has got no signal that should end
\* its sleep.
Hushed(K, L, p) ==
  L.proc[p].wchan # NoChan /\ L.proc[p].sintr => Effective(L.proc[p]) \subseteq Effective(K.proc[p])

\* psignal() on another process than the running one, but for the stop of a sleeper.
LEMMA PsignalRestDoes ==
  ASSUME NEW K, NEW at, NEW x, Ready(K, at, x), NEW p \in AnyProc, p # x, NEW s \in Signal
  PROVE  /\ Did(K, PsignalRest(K, p, s), at, x, p, "signal")
         /\ ~PsignalRest(K, p, s).panicked => Hushed(K, PsignalRest(K, p, s), p)
         /\ ~K.panicked /\ Apart(K, x) => ~PsignalRest(K, p, s).panicked
         /\ s \notin {SIGCONT, SIGKILL} /\ K.proc[p].stat = "SSTOP" =>
              PsignalRest(K, p, s).proc[p].stat = "SSTOP"
         /\ OnlySwapper(K, PsignalRest(K, p, s), p)
<1> DEFINE P == K.proc[p]
           a == Action(P, s)
           N == Post(K, p, s)
           L == PsignalRest(K, p, s)
           S == {s} \cup (P.siglist \ Cancelled(s))
<1>0. K \in KernelRec /\ P \in ProcRec /\ "signal" \in Whys /\ WaitOK(P, at[p])
  BY KernelIs DEF Ready, Orderly, Whys
<1>1. Listed(K, N, p, S)
  BY <1>0, PostIs
<1>2. /\ Ready(N, at, x) /\ Frame(K, N, p, "signal") /\ StopKept(K, N, p)
      /\ Did(K, N, at, x, p, "signal") /\ (Apart(K, x) => Apart(N, x))
  BY <1>1, ListedDoes
<1> HIDE DEF N
<1>3. /\ N.panicked = K.panicked /\ N.proc[p].stat = P.stat /\ N.proc[p].wchan = P.wchan
      /\ N.proc[p].sigs = P.sigs /\ N.proc[p].siglist = S /\ N.proc[p].sintr = P.sintr
      /\ Action(N.proc[p], s) = a
  BY <1>1 DEF Listed, SameOwn, Action
<1>4. a = "HOLD" <=> s \in P.sigs.mask
  BY DEF Action
<1>5. L = IF Ignored(P, s) THEN K
          ELSE IF a = "HOLD" /\ (s # SIGCONT \/ P.stat # "SSTOP") THEN N
          ELSE IF P.stat = "SSTOP" THEN SignalStopped(N, p, s)
          ELSE IF P.stat # "SSLEEP" \/ ~P.sintr THEN N
          ELSE IF s = SIGCONT /\ a = "DFL" THEN Take(N, p, s)
          ELSE setrunnable(N, p, "signal")
  BY Zenon DEF PsignalRest, N
<1> HIDE DEF L, S, a
<1>6. CASE L = K
  <2>1. Did(K, K, at, x, p, "signal")
    BY <1>0, FrameRefl DEF Did, StopKept, Ready
  <2>2. QED
    BY <1>6, <2>1 DEF L, Hushed, OnlySwapper
<1>7. ASSUME L = N, a = "HOLD" \/ P.wchan = NoChan \/ ~P.sintr
      PROVE  /\ Did(K, L, at, x, p, "signal") /\ Hushed(K, L, p)
             /\ ~K.panicked /\ Apart(K, x) => ~L.panicked
             /\ P.stat = "SSTOP" => L.proc[p].stat = "SSTOP"
             /\ OnlySwapper(K, L, p)
  <2>1. a = "HOLD" => Effective(L.proc[p]) \subseteq Effective(P)
    BY <1>3, <1>4, <1>7, EffectiveSub DEF S
  <2>2. QED
    BY <1>1, <1>2, <1>3, <1>7, <2>1 DEF Hushed, OnlySwapper, Listed
<1>8. ASSUME L = SignalStopped(N, p, s), P.stat = "SSTOP"
      PROVE  /\ Did(K, L, at, x, p, "signal") /\ (~L.panicked => Hushed(K, L, p))
             /\ ~K.panicked /\ Apart(K, x) => ~L.panicked
             /\ s \notin {SIGCONT, SIGKILL} => L.proc[p].stat = "SSTOP"
             /\ OnlySwapper(K, L, p)
  <2>1. /\ Did(N, L, at, x, p, "signal") /\ (~L.panicked => Settled(N, L, p, s))
        /\ OnlySwapper(N, L, p)
        /\ ~N.panicked /\ Apart(N, x) => ~L.panicked
        /\ s \notin {SIGCONT, SIGKILL} => L.proc[p].stat = "SSTOP"
    BY <1>2, <1>3, <1>8, SignalStoppedDoes
  <2>2. Did(K, L, at, x, p, "signal")
    BY <1>2, <1>3, <2>1, FrameTrans DEF Did, StopKept
  <2>3. ASSUME ~L.panicked
        PROVE  Hushed(K, L, p)
    <3> SUFFICES ASSUME L.proc[p].wchan # NoChan, L.proc[p].sintr
                 PROVE  Effective(L.proc[p]) \subseteq Effective(P)
      BY DEF Hushed
    <3>1. L.proc[p].sigs = P.sigs
      BY <2>2, <2>3 DEF Did, Frame, SameOwn
    <3>2. L.proc[p].siglist \subseteq P.siglist \cup P.sigs.mask
      BY <1>3, <1>4, <2>1, <2>3 DEF Settled, S
    <3>3. QED
      BY <3>1, <3>2, EffectiveSub
  <2>4. OnlySwapper(K, L, p)
    BY <1>1, <2>1 DEF OnlySwapper, Listed
  <2>5. QED
    BY <1>2, <1>3, <2>1, <2>2, <2>3, <2>4
<1>9. ASSUME L = Take(N, p, s), P.stat # "SSTOP"
      PROVE  /\ Did(K, L, at, x, p, "signal") /\ Hushed(K, L, p)
             /\ ~K.panicked /\ Apart(K, x) => ~L.panicked
             /\ OnlySwapper(K, L, p)
  <2>1. Listed(N, L, p, S \ {s})
    BY <1>2, <1>3, <1>9, TakeIs DEF Ready, Orderly
  <2>2. Did(N, L, at, x, p, "signal")
    BY <1>2, <2>1, ListedDoes
  <2>3. Did(K, L, at, x, p, "signal")
    BY <1>2, <1>3, <2>2, FrameTrans DEF Did, StopKept
  <2>4. L.proc[p].sigs = P.sigs /\ L.proc[p].siglist \subseteq P.siglist
    BY <1>3, <2>1 DEF Listed, SameOwn, S
  <2>5. QED
    BY <1>1, <1>3, <2>1, <2>3, <2>4, EffectiveSub DEF Hushed, Listed, OnlySwapper
<1>10. ASSUME L = setrunnable(N, p, "signal"), P.stat = "SSLEEP"
       PROVE  /\ Did(K, L, at, x, p, "signal") /\ (~L.panicked => Hushed(K, L, p))
              /\ ~K.panicked /\ Apart(K, x) => ~L.panicked
              /\ OnlySwapper(K, L, p)
  <2>1. /\ Did(N, L, at, x, p, "signal") /\ (~L.panicked => L.proc[p].wchan = NoChan)
        /\ OnlySwapper(N, L, p)
        /\ ~N.panicked /\ Apart(N, x) => ~L.panicked
    BY <1>0, <1>2, <1>3, <1>10, SetrunnableDoes
  <2>2. Did(K, L, at, x, p, "signal")
    BY <1>2, <1>3, <2>1, FrameTrans DEF Did, StopKept
  <2>3. OnlySwapper(K, L, p)
    BY <1>1, <2>1 DEF OnlySwapper, Listed
  <2>4. QED
    BY <1>2, <1>3, <2>1, <2>2, <2>3 DEF Hushed
<1>11. P.stat # "SSLEEP" /\ P.stat # "SSTOP" => P.wchan = NoChan
  BY <1>0 DEF WaitOK
<1>12. \/ L = K
       \/ L = N /\ (a = "HOLD" \/ P.wchan = NoChan \/ ~P.sintr)
       \/ L = SignalStopped(N, p, s) /\ P.stat = "SSTOP"
       \/ L = Take(N, p, s) /\ P.stat # "SSTOP"
       \/ L = setrunnable(N, p, "signal") /\ P.stat = "SSLEEP"
  BY <1>5, <1>11
<1>13. QED
  BY <1>6, <1>7, <1>8, <1>9, <1>10, <1>12 DEF L

-----------------------------------------------------------------------------
(* Telling the parent, stopping, and looking for signals.                   *)

\* From P to Q the process was at most taken off its queue, by a wakeup or a signal.
Light(P, Q) ==
  /\ SameOwn(P, Q)
  /\ \/ Q.wchan = P.wchan /\ Q.why = P.why
     \/ P.wchan # NoChan /\ Q.wchan = NoChan /\ Q.why \in {"wakeup", "signal"}

Gentle(K, L) ==
  \A q \in AnyProc : Light(K.proc[q], L.proc[q]) /\ Hushed(K, L, q)

\* Doing two things gently.
LEMMA GentleTrans ==
  ASSUME NEW K, NEW L, NEW M, Gentle(K, L), Gentle(L, M)
  PROVE  Gentle(K, M)
<1> SUFFICES ASSUME NEW q \in AnyProc
             PROVE  Light(K.proc[q], M.proc[q]) /\ Hushed(K, M, q)
  BY DEF Gentle
<1>1. Light(K.proc[q], M.proc[q])
  BY DEF Gentle, Light, SameOwn
<1>2. Hushed(K, M, q)
  BY DEF Gentle, Light, SameOwn, Hushed
<1>3. QED
  BY <1>1, <1>2

\* Waking processes and signalling t is gentle, if it is for t.
LEMMA FrameGentle ==
  ASSUME NEW K, NEW L, NEW t, Frame(K, L, t, "signal"), t \in AnyProc => Hushed(K, L, t)
  PROVE  Gentle(K, L)
<1> SUFFICES ASSUME NEW q \in AnyProc
             PROVE  Light(K.proc[q], L.proc[q]) /\ Hushed(K, L, q)
  BY DEF Gentle
<1>1. Light(K.proc[q], L.proc[q])
  BY DEF Frame, Light
<1>2. CASE q # t
  <2>1. L.proc[q].sigs = K.proc[q].sigs /\ L.proc[q].siglist = K.proc[q].siglist
    BY <1>2 DEF Frame, SameOwn
  <2>2. QED
    BY <1>1, <2>1 DEF Hushed, Effective
<1>3. QED
  BY <1>1, <1>2

\* The operation did its work gently, unless it panicked.
Stepped(K, L, at, x) ==
  /\ L \in KernelRec /\ StopKept(K, L, NoProc)
  /\ ~L.panicked => ~K.panicked /\ Orderly(L, at, x) /\ Gentle(K, L)

\* psignal() for a process that runs only posts the signal.
LEMMA PsignalSelf ==
  ASSUME NEW K, NEW at, NEW x \in AnyProc, Ready(K, at, x), K.proc[x].wchan = NoChan, NEW s \in Signal
  PROVE  /\ Stepped(K, PsignalRest(K, x, s), at, x) /\ Ready(PsignalRest(K, x, s), at, x)
         /\ PsignalRest(K, x, s).panicked = K.panicked
         /\ \A q \in AnyProc \ {x} : PsignalRest(K, x, s).proc[q] = K.proc[q]
<1> DEFINE N == Post(K, x, s)
<1>0. K \in KernelRec /\ NoProc \notin AnyProc
  BY ProcAssumption DEF Ready, Orderly
<1>1. PsignalRest(K, x, s) \in {K, N}
  <2>1. K.proc[x].stat # "SSTOP" /\ K.proc[x].stat # "SSLEEP"
    BY DEF Ready
  <2>2. QED
    BY <2>1 DEF PsignalRest
<1>2. Listed(K, N, x, {s} \cup (K.proc[x].siglist \ Cancelled(s)))
  BY <1>0, PostIs
<1>3. Ready(N, at, x) /\ Did(K, N, at, x, x, "signal") /\ Frame(K, N, x, "signal")
  BY <1>2, ListedDoes
<1> HIDE DEF N
<1>4. /\ N.panicked = K.panicked /\ N.proc[x].wchan = NoChan /\ N.proc[x].stat = "SRUN"
      /\ \A q \in AnyProc \ {x} : N.proc[q] = K.proc[q]
  BY <1>2 DEF Listed, Ready
<1>5. Gentle(K, N)
  BY <1>3, <1>4, FrameGentle DEF Hushed
<1>6. Stepped(K, N, at, x)
  BY <1>3, <1>4, <1>5 DEF Stepped, Did, Ready, StopKept
<1>7. Gentle(K, K)
  BY DEF Gentle, Light, SameOwn, Hushed
<1>8. Stepped(K, K, at, x)
  BY <1>0, <1>7 DEF Stepped, Ready, StopKept
<1>9. QED
  BY <1>1, <1>3, <1>4, <1>6, <1>8

\* SIGCHLD to the parent, which may be the running process x.
LEMMA SignalParentDoes ==
  ASSUME NEW K, NEW at, NEW x, Ready(K, at, x), NEW p \in Proc, K.proc[p].pptr # p,
         x \in AnyProc \ {p} => K.proc[x].wchan = NoChan
  PROVE  LET L == SignalParent(K, p)
         IN  /\ Stepped(K, L, at, x) /\ (~L.panicked => Ready(L, at, x))
             /\ ~K.panicked /\ Apart(K, x) => ~L.panicked
             /\ K.proc[p].wchan # proc0 => L.proc[p] = K.proc[p]
             /\ x = p => L.proc[p] = K.proc[p] \/ L.panicked
<1> DEFINE pp == K.proc[p].pptr
           L == SignalParent(K, p)
<1>0. K \in KernelRec /\ pp \in Proc \cup {NoProc} /\ SIGCHLD \in Signal /\ NoProc \notin AnyProc
      /\ Proc \subseteq AnyProc /\ SIGCHLD \notin {SIGCONT, SIGKILL}
  BY ProcAssumption, KernelIs DEF Ready, Orderly, ProcRec, Signal, AnyProc, SIGCHLD, SIGCONT, SIGKILL
<1>1. CASE pp = NoProc
  <2>1. L = K
    BY <1>1 DEF SignalParent
  <2>2. Gentle(K, K)
    BY DEF Gentle, Light, SameOwn, Hushed
  <2>3. Stepped(K, K, at, x)
    BY <1>0, <2>2 DEF Stepped, Ready, StopKept
  <2>4. QED
    BY <2>1, <2>3
<1>2. CASE pp # NoProc /\ pp # x
  <2>1. L = PsignalRest(K, pp, SIGCHLD) /\ pp \in AnyProc /\ pp # p
    BY <1>0, <1>2 DEF SignalParent
  <2> HIDE DEF pp
  <2>2. /\ Did(K, L, at, x, pp, "signal") /\ (~L.panicked => Hushed(K, L, pp))
        /\ ~K.panicked /\ Apart(K, x) => ~L.panicked
        /\ K.proc[pp].stat = "SSTOP" => L.proc[pp].stat = "SSTOP"
        /\ OnlySwapper(K, L, pp)
    BY <1>0, <1>2, <2>1, PsignalRestDoes
  <2> HIDE DEF L
  <2>3. ~L.panicked => Gentle(K, L)
    BY <2>2, FrameGentle DEF Did
  <2>4. Stepped(K, L, at, x)
    BY <2>2, <2>3 DEF Stepped, Did, StopKept
  <2>5. ~L.panicked /\ x \in AnyProc => L.proc[x] = K.proc[x]
    BY <1>2, <2>2 DEF Did, Frame, Ready
  <2>6. ~L.panicked => Ready(L, at, x)
    BY <2>4, <2>5 DEF Stepped, Ready
  <2>7. K.proc[p].wchan # proc0 => L.proc[p] = K.proc[p]
    BY <1>0, <2>1, <2>2 DEF OnlySwapper
  <2>8. QED
    BY <1>0, <2>2, <2>4, <2>5, <2>6, <2>7 DEF L
<1>3. CASE pp # NoProc /\ pp = x
  <2>1. L = PsignalRest(K, x, SIGCHLD) /\ x \in AnyProc \ {p}
    BY <1>0, <1>3 DEF SignalParent
  <2>2. /\ Stepped(K, L, at, x) /\ Ready(L, at, x) /\ L.panicked = K.panicked
        /\ \A q \in AnyProc \ {x} : L.proc[q] = K.proc[q]
    BY <1>0, <2>1, PsignalSelf
  <2>3. QED
    BY <1>0, <2>1, <2>2
<1>4. QED
  BY <1>1, <1>2, <1>3

\* The wakeup() of the parent.
LEMMA WakeParentDoes ==
  ASSUME NEW K, NEW at, NEW x, Ready(K, at, x), NEW p \in AnyProc, x \in AnyProc => K.proc[x].wchan = NoChan
  PROVE  LET L == WakeParent(K, p)
         IN  /\ Stepped(K, L, at, x) /\ (~L.panicked => Ready(L, at, x))
             /\ ~K.panicked => ~L.panicked
             /\ ~L.panicked => \A q \in AnyProc : K.proc[q].stat = "SRUN" => L.proc[q] = K.proc[q]
             /\ ~L.panicked => \A q \in AnyProc : L.proc[q].siglist = K.proc[q].siglist
<1> DEFINE pp == K.proc[p].pptr
           L == WakeParent(K, p)
<1>0. K \in KernelRec /\ pp \in Proc \cup {NoProc} /\ NoProc \notin AnyProc /\ Proc \subseteq Ident
  BY ProcAssumption, KernelIs DEF Ready, Orderly, ProcRec, AnyProc, Ident
<1>1. CASE pp = NoProc
  <2>1. L = K
    BY <1>1 DEF WakeParent
  <2>2. Gentle(K, K)
    BY DEF Gentle, Light, SameOwn, Hushed
  <2>3. Stepped(K, K, at, x)
    BY <1>0, <2>2 DEF Stepped, Ready, StopKept
  <2>4. QED
    BY <2>1, <2>3
<1>2. CASE pp # NoProc
  <2>1. L = wakeup(K, pp) /\ pp \in Ident
    BY <1>0, <1>2 DEF WakeParent
  <2> HIDE DEF pp
  <2>2. Did(K, L, at, x, NoProc, "signal") /\ (~K.panicked => ~L.panicked)
    BY <1>0, <2>1, WakeupDoes DEF Apart
  <2> HIDE DEF L
  <2>3. ~L.panicked => Gentle(K, L)
    BY <1>0, <2>2, FrameGentle DEF Did
  <2>4. Stepped(K, L, at, x)
    BY <2>2, <2>3 DEF Stepped, Did
  <2>5. ~L.panicked => \A q \in AnyProc : /\ K.proc[q].stat = "SRUN" => L.proc[q] = K.proc[q]
                                          /\ L.proc[q].siglist = K.proc[q].siglist
    BY <1>0, <2>2 DEF Did, Frame
  <2>6. ~L.panicked => Ready(L, at, x)
    BY <2>4, <2>5 DEF Stepped, Ready
  <2>7. QED
    BY <2>2, <2>4, <2>5, <2>6 DEF L
<1>3. QED
  BY <1>1, <1>2

\* wakeup() of the parent, whatever the state.
LEMMA WakeParentType ==
  ASSUME NEW K \in KernelRec, NEW p \in AnyProc
  PROVE  /\ WakeParent(K, p) \in KernelRec /\ StopKept(K, WakeParent(K, p), NoProc)
         /\ K.panicked => WakeParent(K, p).panicked
<1> DEFINE pp == K.proc[p].pptr
<1>0. pp \in Proc \cup {NoProc} /\ Proc \subseteq Ident
  BY KernelIs DEF ProcRec, AnyProc, Ident
<1>1. WakeParent(K, p) = IF pp = NoProc THEN K ELSE wakeup(K, pp)
  BY DEF WakeParent
<1> HIDE DEF pp
<1>2. pp # NoProc => /\ wakeup(K, pp) \in KernelRec /\ StopKept(K, wakeup(K, pp), NoProc)
                     /\ K.panicked => wakeup(K, pp).panicked
  BY <1>0, WakeupStops
<1>3. QED
  BY <1>1, <1>2 DEF StopKept

\* issignal() and psignal() stop p: the running process, or one that sleeps.  Whoever
\* runs afterwards is y.
LEMMA NotifyAndStopDoes ==
  ASSUME NEW K, NEW at, NEW x, Ready(K, at, x), NEW p \in Proc, K.proc[p].pptr # p,
         K.proc[p].wchan # proc0, p = x \/ K.proc[p].stat = "SSLEEP",
         K.proc[p].wchan # NoChan => at[p] \in {"sleep", "cursig1"},
         x \in AnyProc \ {p} => K.proc[x].wchan = NoChan,
         NEW y, y = IF p = x THEN NoProc ELSE x
  PROVE  LET L == NotifyAndStop(K, p)
         IN  /\ Stepped(K, L, at, y) /\ (~L.panicked => Ready(L, at, y))
             /\ ~K.panicked /\ Apart(K, x) => ~L.panicked
             /\ L.proc[p].stat = "SSTOP"
             /\ ~L.panicked => L.proc[p].siglist = K.proc[p].siglist
<1> DEFINE N == SignalParent(K, p)
           P == SetStat(N.proc[p], "SSTOP")
           S == Put(N, p, P)
           L == WakeParent(S, p)
<1>0. NotifyAndStop(K, p) = L
  BY Zenon DEF NotifyAndStop, Put, SetStat
<1>1. p \in AnyProc /\ NoProc \notin AnyProc /\ K \in KernelRec /\ K.proc[p] \in ProcRec
  BY ProcAssumption, KernelIs DEF AnyProc, Ready, Orderly
<1>2. /\ Stepped(K, N, at, x) /\ (~N.panicked => Ready(N, at, x))
      /\ ~K.panicked /\ Apart(K, x) => ~N.panicked
      /\ N.proc[p] = K.proc[p]
  BY SignalParentDoes
<1> HIDE DEF N
<1>3. N \in KernelRec
  BY <1>2 DEF Stepped
<1>4. /\ P \in ProcRec /\ P.stat = "SSTOP" /\ SameOwn(K.proc[p], P) /\ P.wchan = K.proc[p].wchan
      /\ P.siglist = K.proc[p].siglist /\ P.why = K.proc[p].why
  BY <1>1, <1>2, SetStatIs DEF Stat
<1> HIDE DEF P
<1>5. /\ S \in KernelRec /\ S.proc[p] = P /\ \A q \in AnyProc \ {p} : S.proc[q] = N.proc[q]
      /\ S.slpque = N.slpque /\ S.runq = N.runq /\ S.panicked = N.panicked
  BY <1>1, <1>3, <1>4, PutIs
<1> HIDE DEF S
<1>6. L \in KernelRec /\ StopKept(S, L, NoProc) /\ (S.panicked => L.panicked)
  BY <1>1, <1>5, WakeParentType
<1>7. StopKept(K, L, NoProc) /\ L.proc[p].stat = "SSTOP"
  BY <1>1, <1>2, <1>4, <1>5, <1>6 DEF StopKept, Stepped
<1>8. ASSUME ~N.panicked
      PROVE  /\ Ready(S, at, y) /\ Gentle(K, S) /\ ~K.panicked
             /\ y \in AnyProc => S.proc[y].wchan = NoChan
  <2>1. Orderly(N, at, x) /\ Ready(N, at, x) /\ Gentle(K, N) /\ ~K.panicked
    BY <1>2, <1>8 DEF Stepped
  <2>2. Queued(S)
    BY <1>2, <1>4, <1>5, <2>1 DEF Orderly, Queued
  <2>3. RunExact(S, y)
    <3>1. p \notin N.runq
      BY <1>1, <1>2, <2>1 DEF Orderly, RunExact
    <3>2. y \notin S.runq
      BY <1>1, <1>3, <1>5, <2>1, KernelIs DEF Orderly, RunExact
    <3>3. ASSUME NEW q \in AnyProc \ {y}
          PROVE  q \in S.runq <=> S.proc[q].stat = "SRUN" /\ S.proc[q].inmem
      <4>1. CASE q = p
        BY <4>1, <3>1, <1>4, <1>5
      <4>2. CASE q # p
        BY <4>2, <1>1, <1>5, <2>1 DEF Orderly, RunExact
      <4>3. QED
        BY <4>1, <4>2
    <3>4. QED
      BY <3>2, <3>3 DEF RunExact
  <2>4. ASSUME NEW q \in AnyProc \ {y}
        PROVE  WaitOK(S.proc[q], at[q])
    <3>1. CASE q = p
      BY <3>1, <1>4, <1>5 DEF WaitOK
    <3>2. CASE q # p
      BY <3>2, <1>5, <2>1 DEF Orderly
    <3>3. QED
      BY <3>1, <3>2
  <2>5. y \in AnyProc => S.proc[y].stat = "SRUN" /\ S.proc[y].wchan = NoChan
    <3>1. y \in AnyProc => y = x /\ y # p
      BY <1>1
    <3>2. y \in AnyProc => N.proc[y].stat = "SRUN" /\ Light(K.proc[y], N.proc[y])
      BY <3>1, <2>1 DEF Ready, Gentle
    <3>3. QED
      BY <3>1, <3>2, <1>5 DEF Light
  <2>6. Gentle(K, S)
    <3> SUFFICES ASSUME NEW q \in AnyProc
                 PROVE  Light(K.proc[q], S.proc[q]) /\ Hushed(K, S, q)
      BY DEF Gentle
    <3>1. CASE q = p
      <4>1. Light(K.proc[p], S.proc[p])
        BY <1>4, <1>5 DEF Light
      <4>2. Effective(S.proc[p]) = Effective(K.proc[p])
        BY <1>4, <1>5 DEF SameOwn, Effective
      <4>3. QED
        BY <3>1, <4>1, <4>2 DEF Hushed
    <3>2. CASE q # p
      BY <3>2, <1>5, <2>1 DEF Gentle, Hushed
    <3>3. QED
      BY <3>1, <3>2
  <2>7. QED
    BY <1>5, <2>1, <2>2, <2>3, <2>4, <2>5, <2>6 DEF Ready, Orderly
<1>9. ASSUME ~N.panicked
      PROVE  /\ Stepped(S, L, at, y) /\ (~L.panicked => Ready(L, at, y)) /\ ~L.panicked
             /\ \A q \in AnyProc : L.proc[q].siglist = S.proc[q].siglist
  BY <1>1, <1>5, <1>8, <1>9, WakeParentDoes
<1> HIDE DEF L
<1>10. ~L.panicked => ~N.panicked
  BY <1>3, <1>5, <1>6, KernelIs
<1>11. Stepped(K, L, at, y)
  BY <1>6, <1>7, <1>8, <1>9, <1>10, GentleTrans DEF Stepped
<1>12. QED
  BY <1>0, <1>1, <1>2, <1>4, <1>5, <1>7, <1>9, <1>10, <1>11

\* Fewer signals for a process whose place does not change.
LEMMA ListedGentle ==
  ASSUME NEW K, NEW L, NEW p \in AnyProc, NEW S, Listed(K, L, p, S), S \subseteq K.proc[p].siglist
  PROVE  Gentle(K, L)
<1> SUFFICES ASSUME NEW q \in AnyProc
             PROVE  Light(K.proc[q], L.proc[q]) /\ Hushed(K, L, q)
  BY DEF Gentle
<1>1. CASE q = p
  <2>1. Light(K.proc[p], L.proc[p])
    BY DEF Listed, Light
  <2>2. Effective(L.proc[p]) \subseteq Effective(K.proc[p])
    BY DEF Listed, SameOwn, Effective
  <2>3. QED
    BY <1>1, <2>1, <2>2 DEF Hushed
<1>2. CASE q # p
  BY <1>2 DEF Listed, Light, SameOwn, Hushed
<1>3. QED
  BY <1>1, <1>2

\* psignal() for any process, while x runs in user mode or nobody does.
LEMMA PsignalDoes ==
  ASSUME NEW K, NEW at, NEW x, Ready(K, at, x), x \in AnyProc => K.proc[x].wchan = NoChan,
         NEW p \in Proc, K.proc[p].pptr # p, K.proc[p].wchan # proc0, NEW s \in Signal
  PROVE  LET L == psignal(K, p, s)
         IN  /\ L \in KernelRec /\ StopKept(K, L, p)
             /\ ~L.panicked => ~K.panicked /\ Ready(L, at, x) /\ Gentle(K, L)
             /\ ~K.panicked => ~L.panicked
             /\ s \notin {SIGCONT, SIGKILL} /\ K.proc[p].stat = "SSTOP" => L.proc[p].stat = "SSTOP"
<1> DEFINE L == psignal(K, p, s)
<1>0. p \in AnyProc /\ NoProc \notin AnyProc /\ K \in KernelRec
  BY ProcAssumption DEF AnyProc, Ready, Orderly
<1>1. CASE StopsSleeper(K.proc[p], s)
  <2> DEFINE N == Post(K, p, s)
             T == Take(N, p, s)
             A == {s} \cup (K.proc[p].siglist \ Cancelled(s))
  <2>1. K.proc[p].stat = "SSLEEP" /\ p # x /\ WaitOK(K.proc[p], at[p])
    BY <1>0, <1>1 DEF StopsSleeper, Ready, Orderly
  <2>2. Listed(K, N, p, A)
    BY <1>0, PostIs
  <2>3. N \in KernelRec /\ N.proc[p].siglist = A
    BY <2>2 DEF Listed
  <2>4. Listed(N, T, p, A \ {s})
    BY <1>0, <2>3, TakeIs
  <2>5. L = NotifyAndStop(T, p)
    BY <1>1 DEF psignal
  <2> HIDE DEF N, T
  <2>6. Listed(K, T, p, A \ {s})
    BY <2>2, <2>4 DEF Listed, SameOwn
  <2>7. Ready(T, at, x) /\ StopKept(K, T, p) /\ (Apart(K, x) => Apart(T, x))
    BY <1>0, <2>6, ListedDoes
  <2>8. Gentle(K, T)
    BY <1>0, <2>6, ListedGentle
  <2>9. /\ T.proc[p].pptr # p /\ T.proc[p].wchan # proc0 /\ T.proc[p].stat = "SSLEEP"
        /\ T.proc[p].wchan # NoChan => at[p] \in {"sleep", "cursig1"}
        /\ x \in AnyProc \ {p} => T.proc[x].wchan = NoChan
        /\ T.panicked = K.panicked
    BY <2>1, <2>6 DEF Listed, SameOwn, WaitOK
  <2>10. /\ Stepped(T, L, at, x) /\ (~L.panicked => Ready(L, at, x))
         /\ ~T.panicked /\ Apart(T, x) => ~L.panicked
    BY <2>1, <2>5, <2>7, <2>9, NotifyAndStopDoes
  <2> HIDE DEF L
  <2>11. Apart(K, x)
    BY DEF Apart
  <2>12. StopKept(K, L, p)
    BY <1>0, <2>7, <2>10 DEF StopKept, Stepped
  <2>13. ~L.panicked => Gentle(K, L)
    BY <2>8, <2>10, GentleTrans DEF Stepped
  <2>14. QED
    BY <2>1, <2>7, <2>9, <2>10, <2>11, <2>12, <2>13 DEF Stepped, L
<1>2. CASE ~StopsSleeper(K.proc[p], s) /\ p # x
  <2>1. L = PsignalRest(K, p, s)
    BY <1>2 DEF psignal
  <2>2. /\ Did(K, L, at, x, p, "signal") /\ (~L.panicked => Hushed(K, L, p))
        /\ ~K.panicked /\ Apart(K, x) => ~L.panicked
        /\ s \notin {SIGCONT, SIGKILL} /\ K.proc[p].stat = "SSTOP" => L.proc[p].stat = "SSTOP"
    BY <1>0, <1>2, <2>1, PsignalRestDoes
  <2> HIDE DEF L
  <2>3. ~L.panicked => Gentle(K, L)
    BY <1>0, <2>2, FrameGentle DEF Did
  <2>4. ~L.panicked => Ready(L, at, x)
    BY <1>2, <2>2 DEF Did, Frame, Ready
  <2>5. Apart(K, x)
    BY DEF Apart
  <2>6. QED
    BY <2>2, <2>3, <2>4, <2>5 DEF Did, L
<1>3. CASE ~StopsSleeper(K.proc[p], s) /\ p = x
  <2>1. L = PsignalRest(K, x, s) /\ x \in AnyProc
    BY <1>0, <1>3 DEF psignal
  <2>2. /\ Stepped(K, L, at, x) /\ Ready(L, at, x) /\ L.panicked = K.panicked
    BY <2>1, PsignalSelf
  <2> HIDE DEF L
  <2>3. StopKept(K, L, p)
    BY <1>0, <2>2 DEF StopKept, Stepped
  <2>4. K.proc[p].stat # "SSTOP"
    BY <1>3, <2>1 DEF Ready
  <2>5. QED
    BY <2>2, <2>3, <2>4 DEF Stepped, L
<1>4. QED
  BY <1>1, <1>2, <1>3

\* The lowest of some signals is one of them.
LEMMA LowestSignal ==
  ASSUME NEW S \in SUBSET Signal, S # {}
  PROVE  Min(S) \in S
<1>1. \E m \in S : \A t \in S : m <= t
  <2>1. CASE 9 \in S
    BY <2>1 DEF Signal, SIGKILL, SIGTERM, SIGTSTP, SIGCONT, SIGCHLD
  <2>2. CASE 9 \notin S /\ 15 \in S
    BY <2>2 DEF Signal, SIGKILL, SIGTERM, SIGTSTP, SIGCONT, SIGCHLD
  <2>3. CASE 9 \notin S /\ 15 \notin S /\ 18 \in S
    BY <2>3 DEF Signal, SIGKILL, SIGTERM, SIGTSTP, SIGCONT, SIGCHLD
  <2>4. CASE 9 \notin S /\ 15 \notin S /\ 18 \notin S /\ 19 \in S
    BY <2>4 DEF Signal, SIGKILL, SIGTERM, SIGTSTP, SIGCONT, SIGCHLD
  <2>5. CASE 9 \notin S /\ 15 \notin S /\ 18 \notin S /\ 19 \notin S
    <3>1. \A t \in S : t = 20
      BY <2>5 DEF Signal, SIGKILL, SIGTERM, SIGTSTP, SIGCONT, SIGCHLD
    <3>2. PICK m : m \in S
      OBVIOUS
    <3>3. m = 20 /\ \A t \in S : 20 <= t
      BY <3>1, <3>2
    <3>4. QED
      BY <3>2, <3>3
  <2>6. QED
    BY <2>1, <2>2, <2>3, <2>4, <2>5
<1>2. QED
  BY <1>1 DEF Min

\* CURSIG() of the running process p: it stops, or only its p_siglist changes; if it
\* finds nothing there is nothing.
LEMMA CURSIGDoes ==
  ASSUME NEW K, NEW at, NEW p \in Proc, Ready(K, at, p), K.proc[p].pptr # p,
         K.proc[p].wchan # proc0, K.proc[p].wchan # NoChan => at[p] \in {"sleep", "cursig1"}
  PROVE  LET R == CURSIG(K, p)
         IN  /\ R.stopped \in BOOLEAN
             /\ R.stopped =>
                  /\ Stepped(K, R.K, at, NoProc) /\ (~R.K.panicked => Ready(R.K, at, NoProc))
                  /\ ~K.panicked /\ Apart(K, p) => ~R.K.panicked
                  /\ R.K.proc[p].stat = "SSTOP"
             /\ ~R.stopped =>
                  /\ \E S \in SUBSET K.proc[p].siglist : Listed(K, R.K, p, S)
                  /\ R.sig = 0 => Effective(R.K.proc[p]) = {}
<1> DEFINE P       == K.proc[p]
           pending == P.siglist \ P.sigs.mask
           eff     == Effective(P)
           s       == Min(eff)
           dropped == IF eff = {} THEN pending ELSE {t \in pending : t < s}
           D       == Put(K, p, SetSigs(P, P.siglist \ dropped))
           T       == Take(D, p, s)
           R       == CURSIG(K, p)
<1>0. p \in AnyProc /\ NoProc \notin AnyProc /\ K \in KernelRec /\ P \in ProcRec
  BY ProcAssumption, KernelIs DEF AnyProc, Ready, Orderly
<1>1. eff \subseteq P.siglist /\ P.siglist \subseteq Signal
  BY <1>0 DEF Effective, ProcRec
<1>2. eff # {} => s # 0
  BY <1>1, LowestSignal DEF Signal, SIGKILL, SIGTERM, SIGTSTP, SIGCONT, SIGCHLD
<1>3. R = IF eff = {} THEN [K |-> D, sig |-> 0, stopped |-> FALSE]
          ELSE IF s \in StopSignals /\ P.sigs.disp[s] = "DFL"
          THEN [K |-> NotifyAndStop(T, p), sig |-> 0, stopped |-> TRUE]
          ELSE [K |-> D, sig |-> s, stopped |-> FALSE]
  BY Zenon DEF CURSIG, Put, SetSigs
<1>4. Listed(K, D, p, P.siglist \ dropped)
  <2>1. P.siglist \ dropped \in SUBSET Signal
    BY <1>1
  <2> HIDE DEF dropped
  <2>2. QED
    BY <1>0, <2>1, PutSigsIs
<1> HIDE DEF D, dropped, s, pending
<1>5. D \in KernelRec /\ D.proc[p].siglist = P.siglist \ dropped
  BY <1>4 DEF Listed
<1>6. Listed(D, T, p, (P.siglist \ dropped) \ {s})
  BY <1>0, <1>5, TakeIs
<1> HIDE DEF T
<1>7. Listed(K, T, p, (P.siglist \ dropped) \ {s})
  BY <1>4, <1>6 DEF Listed, SameOwn
<1>8. /\ Ready(T, at, p) /\ (Apart(K, p) => Apart(T, p)) /\ Gentle(K, T) /\ StopKept(K, T, p)
  BY <1>0, <1>7, ListedDoes, ListedGentle
<1>9. /\ T.proc[p].pptr # p /\ T.proc[p].wchan # proc0
      /\ T.proc[p].wchan # NoChan => at[p] \in {"sleep", "cursig1"}
      /\ T.panicked = K.panicked
  BY <1>7 DEF Listed, SameOwn
<1>10. /\ Stepped(T, NotifyAndStop(T, p), at, NoProc)
       /\ ~NotifyAndStop(T, p).panicked => Ready(NotifyAndStop(T, p), at, NoProc)
       /\ ~T.panicked /\ Apart(T, p) => ~NotifyAndStop(T, p).panicked
       /\ NotifyAndStop(T, p).proc[p].stat = "SSTOP"
  BY <1>8, <1>9, NotifyAndStopDoes
<1>11. Stepped(K, NotifyAndStop(T, p), at, NoProc)
  <2>1. StopKept(K, NotifyAndStop(T, p), NoProc)
    BY <1>0, <1>8, <1>10 DEF StopKept, Stepped
  <2>2. QED
    BY <1>8, <1>9, <1>10, <2>1, GentleTrans DEF Stepped
<1>12. Effective(D.proc[p]) \subseteq eff
  BY <1>4 DEF Effective, Listed, SameOwn
<1>13. CASE eff = {}
  BY <1>3, <1>4, <1>12, <1>13
<1>14. CASE eff # {} /\ s \in StopSignals /\ P.sigs.disp[s] = "DFL"
  BY <1>3, <1>8, <1>9, <1>10, <1>11, <1>14
<1>15. CASE eff # {} /\ ~(s \in StopSignals /\ P.sigs.disp[s] = "DFL")
  BY <1>2, <1>3, <1>4, <1>15
<1>16. QED
  BY <1>13, <1>14, <1>15

-----------------------------------------------------------------------------
(* The inductive invariant.                                                 *)

\* Where each process is.
AtOf(K) == [q \in AnyProc |-> K.proc[q].at]

\* The timer of a process: while it is on a sleep queue no timeout has ended that
\* sleep, and one that did is still to be reported or was reported.
TimerOK(P) ==
  /\ P.wchan # NoChan => ~P.timeout /\ P.ret = "none" /\ P.why # "timeout"
  /\ P.timeout => P.timo /\ P.why = "timeout" /\ P.at \in {"sleep", "cursig1"}
  /\ P.at \in {"sleep", "cursig1", "cursig2"} => P.ret = "none"
  /\ P.at = "cursig2" => P.why # "timeout"
  /\ P.why = "timeout" => P.timeout \/ P.ret \in {"EWOULDBLOCK", "EINTR"}
  /\ P.ret = "EWOULDBLOCK" => P.why = "timeout"

\* Once it has looked at its signals and sleeps, no signal that should end the sleep is
\* pending, whether it is in SSLEEP or stopped.
SignalOK(P) == P.at = "sleep" /\ P.sintr /\ P.wchan # NoChan => Effective(P) = {}

\* A user process is not its own parent and does not wait for the swapper's wakeup.
Calm(q, P) == TimerOK(P) /\ SignalOK(P) /\ P.pptr # q /\ P.wchan # proc0

\* Between two steps, while x runs: x is not on a sleep queue either.
Sound(K, x) ==
  /\ Ready(K, AtOf(K), x)
  /\ \A q \in AnyProc : WaitOK(K.proc[q], K.proc[q].at)
  /\ x \in AnyProc => K.proc[x].inmem
  /\ \A q \in Proc : Calm(q, K.proc[q])

\* The pending calls of endtsleep(), and the process that swapout() works on.
Timed(P) == P.timo /\ ~P.timeout /\ P.at \in {"sleep", "cursig1"}
CoOK(K, co) == co \subseteq Proc /\ \A q \in co : Timed(K.proc[q])
OutOK(K, o) == o \in Proc \cup {NoProc} /\ (o # NoProc => K.proc[o].inmem)

Fine(K, x, co, o) == Sound(K, x) /\ CoOK(K, co) /\ OutOK(K, o)

Inv ==
  /\ Kernel \in KernelRec /\ curproc \in AnyProc \cup {NoProc}
  /\ callout \subseteq Proc /\ outp \in Proc \cup {NoProc}
  /\ ~panicked => Fine(Kernel, curproc, callout, outp)

\* No identifier that a user process sleeps on shares its sleep queue with &proc0.
SwapperApart == \A p \in Proc : \A c \in SleepCalls[p] : LOOKUP[c.chan] # LOOKUP[proc0]

\* A step from K ended in M with x running.  Unless t is sent a signal, stopped processes
\* are still stopped.
Landed(K, M, x, co, o, t) ==
  /\ M \in KernelRec /\ StopKept(K, M, t)
  /\ x \in AnyProc \cup {NoProc} /\ co \subseteq Proc /\ o \in Proc \cup {NoProc}
  /\ ~M.panicked => Fine(M, x, co, o)
  /\ SwapperApart => ~M.panicked

\* What every step does, apart from setting t going.
StepOK(t) ==
  /\ Inv' /\ (SwapperApart => ~panicked')
  /\ \A q \in AnyProc \ {t} : proc[q].stat = "SSTOP" => proc'[q].stat = "SSTOP"

\* The next state is as good as the kernel state that it holds.
LEMMA LandedInv ==
  ASSUME NEW M, NEW t, Becomes(M), Landed(Kernel, M, curproc', callout', outp', t)
  PROVE  StepOK(t)
<1>1. M = [proc |-> M.proc, slpque |-> M.slpque, runq |-> M.runq, panicked |-> M.panicked]
  BY DEF Landed, KernelRec
<1>2. /\ Kernel' = M /\ panicked' = M.panicked /\ proc' = M.proc
  BY <1>1 DEF Kernel, Becomes
<1>3. Kernel.proc = proc
  BY DEF Kernel
<1>4. \A q \in AnyProc \ {t} : proc[q].stat = "SSTOP" => proc'[q].stat = "SSTOP"
  BY <1>2, <1>3 DEF Landed, StopKept
<1>5. Inv'
  BY <1>2 DEF Inv, Landed
<1>6. QED
  BY <1>2, <1>4, <1>5 DEF Landed, StepOK

\* A gentle operation leaves a process as calm as it was.
LEMMA CalmLight ==
  ASSUME NEW P, NEW Q, NEW q, Calm(q, P), Light(P, Q), P.wchan = NoChan \/ P.wchan # NoChan,
         Q.wchan # NoChan /\ Q.sintr => Effective(Q) \subseteq Effective(P)
  PROVE  Calm(q, Q)
<1>0. NoChan # proc0
  BY ProcAssumption DEF Ident, AnyProc
<1>1. TimerOK(Q)
  BY DEF Calm, TimerOK, Light, SameOwn
<1>2. SignalOK(Q)
  BY DEF Calm, SignalOK, Light, SameOwn
<1>3. QED
  BY <1>0, <1>1, <1>2 DEF Calm, Light, SameOwn

\* What a step of p relies on: the others are at their sites and calm, as far as they are
\* on the list of callouts their sleep is timed, and swapout() works on one in memory.
Others(K, at, p, co, o) ==
  /\ \A q \in AnyProc \ {p} : at[q] = K.proc[q].at
  /\ \A q \in Proc \ {p} : Calm(q, K.proc[q])
  /\ co \subseteq Proc /\ \A q \in co \ {p} : Timed(K.proc[q])
  /\ o \in Proc \cup {NoProc} /\ (o # NoProc => K.proc[o].inmem)

\* Nothing that is gentle disturbs the others.
LEMMA OthersGentle ==
  ASSUME NEW K, NEW L, NEW at, NEW p, NEW co, NEW o, Others(K, at, p, co, o), Gentle(K, L)
  PROVE  Others(L, at, p, co, o)
<1>0. Proc \subseteq AnyProc
  BY DEF AnyProc
<1>1. \A q \in AnyProc : Light(K.proc[q], L.proc[q]) /\ SameOwn(K.proc[q], L.proc[q])
  BY DEF Gentle, Light
<1>2. \A q \in Proc \ {p} : Calm(q, L.proc[q])
  BY <1>0, CalmLight DEF Others, Gentle, Hushed
<1>3. QED
  BY <1>0, <1>1, <1>2 DEF Others, SameOwn, Timed

\* Nor does anything that p does to itself.
LEMMA OthersSelf ==
  ASSUME NEW K, NEW L, NEW at, NEW p, NEW co, NEW o, Others(K, at, p, co, o),
         \A q \in AnyProc \ {p} : L.proc[q] = K.proc[q],
         L.proc[p].inmem = K.proc[p].inmem
  PROVE  Others(L, at, p, co, o)
<1>0. Proc \subseteq AnyProc
  BY DEF AnyProc
<1>1. QED
  BY <1>0 DEF Others

\* The end of a step of p: its own struct proc becomes P.
LEMMA PlaceFine ==
  ASSUME NEW K, NEW at, NEW x, Ready(K, at, x), NEW p \in AnyProc, NEW co, NEW o,
         Others(K, at, p, co, o),
         x \in AnyProc \ {p} => K.proc[x].inmem /\ K.proc[x].wchan = NoChan,
         NEW P \in ProcRec, P.stat = K.proc[p].stat, P.wchan = K.proc[p].wchan,
         P.inmem = K.proc[p].inmem, WaitOK(P, P.at), x = p => P.inmem,
         p \in Proc => Calm(p, P), p \in co => Timed(P)
  PROVE  Fine(Put(K, p, P), x, co, o)
<1> DEFINE L == Put(K, p, P)
<1>0. K \in KernelRec /\ Proc \subseteq AnyProc
  BY DEF Ready, Orderly, AnyProc
<1>1. /\ L \in KernelRec /\ L.proc[p] = P /\ L.slpque = K.slpque /\ L.runq = K.runq
      /\ \A q \in AnyProc \ {p} : L.proc[q] = K.proc[q]
  BY <1>0, PutIs
<1> HIDE DEF L
<1>2. \A q \in AnyProc : WaitOK(L.proc[q], L.proc[q].at)
  <2> TAKE q \in AnyProc
  <2>1. CASE q = p
    BY <1>1, <2>1
  <2>2. CASE q # p /\ q # x
    BY <1>1, <2>2 DEF Ready, Orderly, Others
  <2>3. CASE q # p /\ q = x
    BY <1>1, <2>3 DEF Ready, WaitOK
  <2>4. QED
    BY <2>1, <2>2, <2>3
<1>3. Queued(L)
  BY <1>1 DEF Ready, Orderly, Queued
<1>4. RunExact(L, x)
  BY <1>1 DEF Ready, Orderly, RunExact
<1>5. x \in AnyProc => L.proc[x].stat = "SRUN" /\ L.proc[x].inmem
  BY <1>1 DEF Ready
<1>6. Ready(L, AtOf(L), x)
  BY <1>1, <1>2, <1>3, <1>4, <1>5 DEF Ready, Orderly, AtOf
<1>7. \A q \in Proc : Calm(q, L.proc[q])
  BY <1>0, <1>1 DEF Others
<1>8. CoOK(L, co) /\ OutOK(L, o)
  BY <1>0, <1>1 DEF Others, CoOK, OutOK
<1>9. QED
  BY <1>2, <1>5, <1>6, <1>7, <1>8 DEF Fine, Sound, L

\* A step in which p does nothing to itself: an interrupt.
LEMMA GentleFine ==
  ASSUME NEW K, NEW L, NEW x, NEW co, NEW o, Fine(K, x, co, o), Gentle(K, L), Ready(L, AtOf(K), x)
  PROVE  Fine(L, x, co, o)
<1>0. Proc \subseteq AnyProc
  BY DEF AnyProc
<1>1. \A q \in AnyProc : Light(K.proc[q], L.proc[q]) /\ SameOwn(K.proc[q], L.proc[q])
  BY DEF Gentle, Light
<1>2. AtOf(L) = AtOf(K) /\ \A q \in AnyProc : AtOf(K)[q] = L.proc[q].at
  BY <1>1 DEF AtOf, SameOwn
<1>3. \A q \in Proc : Calm(q, L.proc[q])
  BY <1>0, CalmLight DEF Fine, Sound, Gentle, Hushed
<1>4. x \in AnyProc => L.proc[x].inmem /\ L.proc[x].wchan = NoChan /\ L.proc[x].stat = "SRUN"
  <2> HAVE x \in AnyProc
  <2>1. K.proc[x].wchan = NoChan /\ K.proc[x].inmem
    BY DEF Fine, Sound, Ready, WaitOK
  <2>2. QED
    BY <1>1, <2>1 DEF Light, SameOwn, Ready
<1>5. \A q \in AnyProc : WaitOK(L.proc[q], L.proc[q].at)
  <2> TAKE q \in AnyProc
  <2>1. CASE q = x
    BY <1>4, <2>1 DEF WaitOK
  <2>2. CASE q # x
    BY <1>2, <2>2 DEF Ready, Orderly
  <2>3. QED
    BY <2>1, <2>2
<1>6. CoOK(L, co) /\ OutOK(L, o)
  BY <1>0, <1>1 DEF Fine, CoOK, OutOK, SameOwn, Timed
<1>7. QED
  BY <1>2, <1>3, <1>4, <1>5, <1>6 DEF Fine, Sound

\* Waking processes and signalling p does not disturb the others.
LEMMA OthersFrame ==
  ASSUME NEW K, NEW L, NEW at, NEW p \in AnyProc, NEW co, NEW o, NEW why, Others(K, at, p, co, o),
         Frame(K, L, p, why)
  PROVE  Others(L, at, p, co, o)
<1>0. Proc \subseteq AnyProc
  BY DEF AnyProc
<1>1. \A q \in AnyProc : SameOwn(K.proc[q], L.proc[q])
  BY DEF Frame
<1>2. \A q \in Proc \ {p} : Calm(q, L.proc[q])
  <2> TAKE q \in Proc \ {p}
  <2>1. L.proc[q].sigs = K.proc[q].sigs /\ L.proc[q].siglist = K.proc[q].siglist
    BY <1>0, <1>1 DEF Frame, SameOwn
  <2>2. Light(K.proc[q], L.proc[q])
    BY <1>0 DEF Frame, Light
  <2>3. Effective(L.proc[q]) = Effective(K.proc[q])
    BY <2>1 DEF Effective
  <2>4. QED
    BY <2>2, <2>3, CalmLight DEF Others
<1>3. QED
  BY <1>0, <1>1, <1>2 DEF Others, SameOwn, Timed

\* A step that changes the run queue and p, but not where and for what p waits.
LEMMA RequeueFine ==
  ASSUME NEW K, NEW x, NEW co, NEW o, Fine(K, x, co, o), NEW M \in KernelRec, NEW y, NEW z,
         NEW p \in AnyProc, M.slpque = K.slpque, \A q \in AnyProc \ {p} : M.proc[q] = K.proc[q],
         M.proc[p].wchan = K.proc[p].wchan, WaitOK(M.proc[p], M.proc[p].at),
         p \in Proc => Calm(p, M.proc[p]), RunExact(M, y),
         y \in AnyProc => M.proc[y].stat = "SRUN" /\ M.proc[y].inmem,
         p \in co => Timed(M.proc[p]), OutOK(M, z)
  PROVE  Fine(M, y, co, z)
<1>0. Proc \subseteq AnyProc
  BY DEF AnyProc
<1>1. Queued(M)
  BY DEF Fine, Sound, Ready, Orderly, Queued
<1>2. \A q \in AnyProc : WaitOK(M.proc[q], M.proc[q].at)
  BY DEF Fine, Sound
<1>3. Ready(M, AtOf(M), y)
  BY <1>1, <1>2 DEF Ready, Orderly, AtOf
<1>4. \A q \in Proc : Calm(q, M.proc[q])
  BY <1>0 DEF Fine, Sound
<1>5. CoOK(M, co)
  BY <1>0 DEF Fine, CoOK
<1>6. QED
  BY <1>2, <1>3, <1>4, <1>5 DEF Fine, Sound

-----------------------------------------------------------------------------
(* One lemma for each step.                                                 *)

\* What every step starts from.
LEMMA StartIs ==
  ASSUME Inv, ~panicked
  PROVE  /\ Kernel \in KernelRec /\ Fine(Kernel, curproc, callout, outp) /\ Sound(Kernel, curproc)
         /\ Ready(Kernel, AtOf(Kernel), curproc) /\ ~Kernel.panicked
         /\ Kernel.proc = proc /\ Kernel.runq = runq /\ Kernel.slpque = slpque
         /\ curproc \in AnyProc \cup {NoProc} /\ callout \subseteq Proc /\ outp \in Proc \cup {NoProc}
         /\ NoProc \notin AnyProc /\ Proc \subseteq AnyProc
         /\ curproc \in AnyProc => /\ proc[curproc].stat = "SRUN" /\ proc[curproc].inmem
                                   /\ proc[curproc].wchan = NoChan
         /\ \A p \in AnyProc : Others(Kernel, AtOf(Kernel), p, callout, outp)
         /\ \A q \in Proc : Calm(q, proc[q])
<1>1. /\ Kernel.proc = proc /\ Kernel.runq = runq /\ Kernel.slpque = slpque
      /\ Kernel.panicked = panicked
  BY DEF Kernel
<1>2. Fine(Kernel, curproc, callout, outp) /\ Sound(Kernel, curproc) /\ NoProc \notin AnyProc
  BY ProcAssumption DEF Inv, Fine
<1>3. curproc \in AnyProc => /\ proc[curproc].stat = "SRUN" /\ proc[curproc].inmem
                             /\ proc[curproc].wchan = NoChan
  BY <1>1, <1>2 DEF Sound, Ready, WaitOK
<1>4. Proc \subseteq AnyProc
  BY DEF AnyProc
<1>5. \A p \in AnyProc : Others(Kernel, AtOf(Kernel), p, callout, outp)
  BY <1>2 DEF Fine, Sound, CoOK, OutOK, AtOf, Others
<1>6. QED
  BY <1>1, <1>2, <1>3, <1>4, <1>5 DEF Inv, Sound

\* wakeup(), from a device's interrupt or the clock.
LEMMA WakeupStep ==
  ASSUME Inv, ~panicked, NEW c \in Ident, Becomes(wakeup(Kernel, c)),
         UNCHANGED <<curproc, callout, outp>>
  PROVE  StepOK(NoProc)
<1> DEFINE L == wakeup(Kernel, c)
           at == AtOf(Kernel)
<1>1. /\ Did(Kernel, L, at, curproc, NoProc, "signal") /\ ~L.panicked
  BY StartIs, WakeupDoes DEF Apart
<1> HIDE DEF L
<1>2. Gentle(Kernel, L)
  BY <1>1, StartIs, FrameGentle DEF Did
<1>3. Ready(L, at, curproc)
  <2>1. curproc \in AnyProc => L.proc[curproc].stat = "SRUN"
    BY <1>1, StartIs DEF Did, Frame
  <2>2. QED
    BY <1>1, <2>1 DEF Did, Ready
<1>4. Fine(L, curproc, callout, outp)
  BY <1>2, <1>3, StartIs, GentleFine
<1>5. Landed(Kernel, L, curproc, callout, outp, NoProc)
  BY <1>1, <1>4, StartIs DEF Landed, Did
<1>6. QED
  BY <1>5, LandedInv DEF L

\* psignal() of another process, or of an interrupt.
LEMMA PsignalStep ==
  ASSUME Inv, NEW p \in Proc, NEW s \in Signal, PsignalCall(p, s)
  PROVE  StepOK(p) /\ (s \notin {SIGCONT, SIGKILL} => StepOK(NoProc))
<1> DEFINE L == psignal(Kernel, p, s)
           at == AtOf(Kernel)
<1>0. ~panicked /\ Becomes(L) /\ UNCHANGED <<curproc, callout, outp>>
  BY DEF PsignalCall
<1>1. proc[p].pptr # p /\ proc[p].wchan # proc0
  BY <1>0, StartIs DEF Calm
<1>2. /\ L \in KernelRec /\ StopKept(Kernel, L, p) /\ ~L.panicked
      /\ Ready(L, at, curproc) /\ Gentle(Kernel, L)
      /\ s \notin {SIGCONT, SIGKILL} /\ proc[p].stat = "SSTOP" => L.proc[p].stat = "SSTOP"
  BY <1>0, <1>1, StartIs, PsignalDoes
<1> HIDE DEF L
<1>3. Fine(L, curproc, callout, outp)
  BY <1>0, <1>2, StartIs, GentleFine
<1>4. Landed(Kernel, L, curproc, callout, outp, p)
  BY <1>0, <1>2, <1>3, StartIs DEF Landed
<1>5. s \notin {SIGCONT, SIGKILL} => Landed(Kernel, L, curproc, callout, outp, NoProc)
  BY <1>0, <1>2, <1>4, StartIs DEF Landed, StopKept
<1>6. QED
  BY <1>0, <1>4, <1>5, LandedInv

\* endtsleep(): the sleep it was started for ends, and the process is told why.
LEMMA EndtsleepStep ==
  ASSUME Inv, NEW p \in Proc, Endtsleep(p)
  PROVE  StepOK(NoProc)
<1> DEFINE at == AtOf(Kernel)
           co == callout \ {p}
           E == IF proc[p].stat = "SSLEEP" THEN setrunnable(Kernel, p, "timeout")
                ELSE unsleep(Kernel, p, "timeout")
           P == SetTimeout(E.proc[p], TRUE)
           M == Put(E, p, P)
<1>0. /\ ~panicked /\ p \in callout /\ callout' = co /\ UNCHANGED <<curproc, outp>>
      /\ Becomes(IF proc[p].wchan = NoChan THEN Kernel ELSE M) /\ p \in AnyProc
  BY Zenon DEF Endtsleep, Put, SetTimeout, AnyProc
<1>1. CASE proc[p].wchan = NoChan
  <2>1. Becomes(Kernel)
    BY <1>0, <1>1
  <2>2. Fine(Kernel, curproc, co, outp)
    BY <1>0, StartIs DEF Fine, CoOK
  <2>3. Landed(Kernel, Kernel, curproc, co, outp, NoProc)
    BY <1>0, <2>2, StartIs DEF Landed, StopKept
  <2>4. QED
    BY <1>0, <2>1, <2>3, LandedInv
<1>2. CASE proc[p].wchan # NoChan
  <2>1. Becomes(M)
    BY <1>0, <1>2
  <2>2. /\ p # curproc /\ "timeout" \in Whys /\ proc[p].stat \in {"SSLEEP", "SSTOP"}
        /\ Timed(proc[p]) /\ proc[p].ret = "none"
        /\ Apart(Kernel, curproc)
    BY <1>0, <1>2, StartIs DEF Fine, Sound, WaitOK, CoOK, Calm, TimerOK, Whys, Apart
  <2>3. /\ Did(Kernel, E, at, curproc, p, "timeout") /\ ~E.panicked
        /\ E.proc[p].wchan = NoChan /\ E.proc[p].why = "timeout"
        /\ proc[p].stat = "SSTOP" => E.proc[p].stat = "SSTOP"
    <3>1. CASE proc[p].stat = "SSLEEP"
      BY <1>0, <1>2, <2>2, <3>1, StartIs, SetrunnableDoes
    <3>2. CASE proc[p].stat # "SSLEEP"
      BY <1>0, <1>2, <2>2, <3>2, StartIs, UnsleepDoes
    <3>3. QED
      BY <3>1, <3>2
  <2> HIDE DEF E
  <2>4. /\ E \in KernelRec /\ Orderly(E, at, curproc) /\ Frame(Kernel, E, p, "timeout")
        /\ StopKept(Kernel, E, NoProc) /\ SameOwn(proc[p], E.proc[p]) /\ E.proc[p] \in ProcRec
    BY <1>0, <2>3, StartIs, KernelIs DEF Did, Frame, StopKept
  <2>5. curproc \in AnyProc => E.proc[curproc] = proc[curproc]
    BY <1>0, <2>2, <2>4, StartIs DEF Frame
  <2>6. Ready(E, at, curproc)
    BY <1>0, <2>4, <2>5, StartIs DEF Ready
  <2>7. Others(E, at, p, callout, outp)
    BY <1>0, <2>4, StartIs, OthersFrame
  <2>8. Others(E, at, p, co, outp)
    BY <2>7 DEF Others
  <2>9. /\ P \in ProcRec /\ SameShared(E.proc[p], P) /\ P.timeout /\ P.inmem = E.proc[p].inmem
        /\ P.at = proc[p].at /\ P.ret = "none" /\ P.pptr = proc[p].pptr /\ P.timo
    BY <2>2, <2>4, SetTimeoutIs DEF SetOne, SameOwn, Timed
  <2> HIDE DEF P, co
  <2>10. Calm(p, P)
    <3>1. proc[p].pptr # p /\ NoChan # proc0
      BY <1>0, StartIs, ProcAssumption DEF Calm, Ident, AnyProc
    <3>2. QED
      BY <2>2, <2>3, <2>9, <3>1 DEF Calm, TimerOK, SignalOK, SameShared, Timed
  <2>11. WaitOK(P, P.at)
    BY <1>0, <2>2, <2>3, <2>4, <2>9 DEF WaitOK, SameShared, Orderly
  <2>12. p \notin co
    BY DEF co
  <2>13. Fine(M, curproc, co, outp)
    BY <1>0, <2>2, <2>5, <2>6, <2>8, <2>9, <2>10, <2>11, <2>12, StartIs, PlaceFine DEF SameShared
  <2>14. /\ M \in KernelRec /\ ~M.panicked /\ StopKept(Kernel, M, NoProc)
    BY SMTT(60), <1>0, <2>3, <2>4, <2>9, PutIs DEF StopKept, SameShared
  <2> HIDE DEF M
  <2>15. Landed(Kernel, M, curproc, co, outp, NoProc)
    BY <1>0, <2>13, <2>14, StartIs DEF Landed, co
  <2>16. QED
    BY <1>0, <2>1, <2>15, LandedInv
<1>3. QED
  BY <1>1, <1>2

\* cpu_switch(): the chosen process is fit to run.
LEMMA CpuSwitchStep ==
  ASSUME Inv, NEW p \in AnyProc, CpuSwitch(p)
  PROVE  StepOK(NoProc)
<1> DEFINE M == PutRunq(Kernel, runq \ {p})
<1>0. /\ ~panicked /\ curproc = NoProc /\ p \in runq /\ curproc' = p /\ runq' = runq \ {p}
      /\ panicked' = NotForRunQueue(proc[p]) /\ UNCHANGED <<proc, slpque, callout, outp>>
  BY DEF CpuSwitch
<1>1. runq \ {p} \in SUBSET AnyProc
  BY <1>0, StartIs, KernelIs
<1>2. /\ M \in KernelRec /\ M.runq = runq \ {p} /\ M.proc = proc /\ M.slpque = slpque /\ ~M.panicked
  BY <1>0, <1>1, StartIs, PutRunqIs
<1> HIDE DEF M
<1>3. RunExact(Kernel, NoProc) /\ proc[p].stat = "SRUN" /\ proc[p].inmem
  BY <1>0, StartIs DEF Ready, Orderly, RunExact
<1>4. WaitOK(proc[p], proc[p].at) /\ (p \in Proc => Calm(p, proc[p]))
  BY <1>0, StartIs DEF Sound
<1>5. RunExact(M, p)
  BY <1>0, <1>2, <1>3, StartIs DEF RunExact
<1>6. /\ p \in callout => Timed(proc[p])
      /\ OutOK(M, outp)
  BY <1>0, <1>2, StartIs DEF Fine, CoOK, OutOK
<1>7. Fine(M, p, callout, outp)
  BY <1>0, <1>2, <1>3, <1>4, <1>5, <1>6, StartIs, RequeueFine
<1>8. Landed(Kernel, M, p, callout, outp, NoProc)
  BY <1>0, <1>2, <1>7, StartIs DEF Landed, StopKept
<1>9. NotForRunQueue(proc[p]) = FALSE /\ M.panicked = FALSE
  BY <1>2, <1>3, <1>4, KernelIs DEF NotForRunQueue, WaitOK
<1>10. Becomes(M)
  BY <1>0, <1>2, <1>9 DEF Becomes
<1>11. QED
  BY <1>0, <1>8, <1>10, LandedInv

\* setrunqueue() of a process that is fit to run and not on a run queue.
LEMMA SetrunqueueIs ==
  ASSUME NEW K \in KernelRec, NEW p \in AnyProc, p \notin K.runq, K.proc[p].stat = "SRUN",
         K.proc[p].wchan = NoChan
  PROVE  LET L == setrunqueue(K, p)
         IN  /\ L \in KernelRec /\ L.runq = K.runq \cup {p} /\ L.proc = K.proc
             /\ L.slpque = K.slpque /\ L.panicked = K.panicked
<1> DEFINE A == PutRunq(K, K.runq \cup {p})
           pk == A.panicked \/ p \in K.runq \/ NotForRunQueue(K.proc[p])
           L == PutPanic(A, pk)
<1>1. setrunqueue(K, p) = L
  BY Zenon DEF setrunqueue, PutRunq, PutPanic
<1>2. K.runq \cup {p} \in SUBSET AnyProc /\ K.panicked \in BOOLEAN
  BY KernelIs
<1> HIDE DEF A
<1>3. /\ A \in KernelRec /\ A.runq = K.runq \cup {p} /\ A.proc = K.proc /\ A.slpque = K.slpque
      /\ A.panicked = K.panicked
  BY <1>2, PutRunqIs DEF A
<1>4. pk = K.panicked
  BY <1>2, <1>3 DEF NotForRunQueue
<1>5. QED
  BY <1>1, <1>2, <1>3, <1>4, PutPanicIs

\* preempt(): the running process goes back to the run queues.
LEMMA PreemptStep ==
  ASSUME Inv, NEW p \in Proc, Preempt(p)
  PROVE  StepOK(NoProc)
<1> DEFINE L == setrunqueue(Kernel, p)
           P == SetAt(L.proc[p], "user")
           M == Put(L, p, P)
<1>0. /\ ~panicked /\ curproc = p /\ proc[p].at = "user" /\ Becomes(M) /\ curproc' = NoProc
      /\ UNCHANGED <<callout, outp>> /\ p \in AnyProc
  BY Zenon DEF Preempt, Running, SwitchAt, Put, SetAt, AnyProc
<1>1. RunExact(Kernel, p) /\ Calm(p, proc[p]) /\ WaitOK(proc[p], "user") /\ proc[p] \in ProcRec
  BY <1>0, StartIs, KernelIs DEF Sound, Ready, Orderly
<1>2. /\ L \in KernelRec /\ L.runq = runq \cup {p} /\ L.proc = proc /\ L.slpque = slpque /\ ~L.panicked
  BY <1>0, <1>1, StartIs, SetrunqueueIs DEF RunExact
<1> HIDE DEF L
<1>3. /\ P \in ProcRec /\ SameShared(proc[p], P) /\ P.at = "user" /\ P.sintr = proc[p].sintr
      /\ P.timeout = proc[p].timeout /\ P.inmem = proc[p].inmem /\ P.ret = proc[p].ret
      /\ P.pptr = proc[p].pptr /\ P.timo = proc[p].timo
  BY <1>1, <1>2, SetAtIs DEF SetOne, Site
<1> HIDE DEF P
<1>4. /\ M \in KernelRec /\ M.proc[p] = P /\ M.runq = runq \cup {p} /\ M.slpque = slpque /\ ~M.panicked
      /\ \A q \in AnyProc \ {p} : M.proc[q] = proc[q]
  BY <1>0, <1>2, <1>3, PutIs
<1> HIDE DEF M
<1>5. WaitOK(P, P.at) /\ Calm(p, P)
  BY <1>0, <1>1, <1>3 DEF WaitOK, Calm, TimerOK, SignalOK, SameShared
<1>6. RunExact(M, NoProc)
  <2>1. NoProc \notin M.runq
    BY <1>4, StartIs, <1>0, KernelIs
  <2>2. \A q \in AnyProc \ {p} : q \in runq <=> proc[q].stat = "SRUN" /\ proc[q].inmem
    BY <1>0, <1>1, StartIs DEF RunExact
  <2>3. P.stat = "SRUN" /\ P.inmem
    BY <1>0, <1>3, StartIs DEF SameShared
  <2>4. QED
    BY <1>4, <2>1, <2>2, <2>3 DEF RunExact
<1>7. p \notin callout /\ OutOK(M, outp)
  BY <1>0, <1>3, <1>4, StartIs DEF Fine, CoOK, OutOK, Timed
<1>8. Fine(M, NoProc, callout, outp)
  BY <1>0, <1>3, <1>4, <1>5, <1>6, <1>7, StartIs, RequeueFine DEF SameShared
<1>9. Landed(Kernel, M, NoProc, callout, outp, NoProc)
  BY <1>0, <1>3, <1>4, <1>8, StartIs DEF Landed, StopKept, SameShared
<1>10. QED
  BY <1>0, <1>9, LandedInv

\* sigaction() and sigprocmask().
LEMMA SetSignalsStep ==
  ASSUME Inv, NEW p \in Proc, NEW g \in SigSetups[p], SetSignals(p, g)
  PROVE  StepOK(NoProc)
<1> DEFINE S == {s \in proc[p].siglist : g.disp[s] = proc[p].sigs.disp[s] \/ ~Ignores(g, s)}
           P == SetSigs([proc[p] EXCEPT !.sigs = g], S)
           M == Put(Kernel, p, P)
<1>0. /\ ~panicked /\ curproc = p /\ proc[p].at = "user" /\ p \in AnyProc
      /\ proc' = [proc EXCEPT ![p].sigs = g, ![p].siglist = S]
      /\ UNCHANGED <<slpque, runq, curproc, callout, outp, panicked>>
  BY Zenon DEF SetSignals, Running, AnyProc
<1>1. RunExact(Kernel, p) /\ Calm(p, proc[p]) /\ WaitOK(proc[p], "user") /\ proc[p] \in ProcRec
  BY <1>0, StartIs, KernelIs DEF Sound, Ready, Orderly
<1>2. S \in SUBSET Signal /\ g \in SigSetup
  BY <1>1, ProcAssumption DEF ProcRec
<1> HIDE DEF S
<1>3. /\ P \in ProcRec /\ P.wchan = proc[p].wchan /\ P.stat = proc[p].stat /\ P.why = proc[p].why
      /\ P.at = "user" /\ P.sintr = proc[p].sintr /\ P.timeout = proc[p].timeout
      /\ P.inmem = proc[p].inmem /\ P.ret = proc[p].ret /\ P.pptr = proc[p].pptr /\ P.timo = proc[p].timo
  BY <1>0, <1>1, <1>2 DEF ProcRec, SetSigs
<1>4. proc' = [proc EXCEPT ![p] = P]
  BY <1>0, Zenon DEF SetSigs
<1> HIDE DEF P
<1>5. /\ M \in KernelRec /\ M.proc[p] = P /\ M.runq = runq /\ M.slpque = slpque /\ ~M.panicked
      /\ M.panicked = Kernel.panicked
      /\ \A q \in AnyProc \ {p} : M.proc[q] = proc[q]
  BY <1>0, <1>3, StartIs, PutIs
<1>6. Becomes(M)
  <2>1. M.proc = [proc EXCEPT ![p] = P] /\ M.slpque = slpque /\ M.runq = runq /\ M.panicked = panicked
    BY DEF Put, Kernel
  <2>2. QED
    BY <1>0, <1>4, <2>1 DEF Becomes
<1> HIDE DEF M
<1>7. WaitOK(P, P.at) /\ Calm(p, P)
  BY <1>0, <1>1, <1>3 DEF WaitOK, Calm, TimerOK, SignalOK
<1>8. RunExact(M, p)
  BY <1>0, <1>1, <1>3, <1>5, StartIs DEF RunExact
<1>9. p \notin callout /\ OutOK(M, outp)
  BY <1>0, <1>3, <1>5, StartIs DEF Fine, CoOK, OutOK, Timed
<1>10. Fine(M, p, callout, outp)
  BY <1>0, <1>3, <1>5, <1>7, <1>8, <1>9, StartIs, RequeueFine
<1>11. Landed(Kernel, M, p, callout, outp, NoProc)
  BY <1>0, <1>3, <1>5, <1>10, StartIs DEF Landed, StopKept
<1>12. QED
  BY <1>0, <1>6, <1>11, LandedInv

\* A step of the running swapper to another site, off its queue.
LEMMA SwapperMoves ==
  ASSUME Inv, ~panicked, curproc = proc0, NEW site \in Site, proc' = [proc EXCEPT ![proc0].at = site],
         UNCHANGED <<slpque, runq, curproc, callout, outp, panicked>>
  PROVE  StepOK(NoProc)
<1> DEFINE P == SetAt(proc[proc0], site)
           M == Put(Kernel, proc0, P)
<1>0. proc0 \in AnyProc /\ proc0 \notin Proc
  BY ProcAssumption DEF AnyProc
<1>1. RunExact(Kernel, proc0) /\ proc[proc0] \in ProcRec
  BY <1>0, StartIs, KernelIs DEF Ready, Orderly
<1>2. /\ P \in ProcRec /\ SameShared(proc[proc0], P) /\ P.inmem = proc[proc0].inmem
  BY <1>1, SetAtIs DEF SetOne
<1>3. proc' = [proc EXCEPT ![proc0] = P]
  BY Zenon DEF SetAt
<1> HIDE DEF P
<1>4. /\ M \in KernelRec /\ M.proc[proc0] = P /\ M.runq = runq /\ M.slpque = slpque /\ ~M.panicked
      /\ \A q \in AnyProc \ {proc0} : M.proc[q] = proc[q]
  BY <1>0, <1>2, StartIs, PutIs
<1>5. Becomes(M)
  <2>1. M.proc = [proc EXCEPT ![proc0] = P] /\ M.slpque = slpque /\ M.runq = runq /\ M.panicked = panicked
    BY DEF Put, Kernel
  <2>2. QED
    BY <1>3, <2>1 DEF Becomes
<1> HIDE DEF M
<1>6. P.stat = "SRUN" /\ P.inmem /\ P.wchan = NoChan /\ P.wchan = proc[proc0].wchan
  BY <1>0, <1>2, StartIs DEF SameShared
<1>7. WaitOK(P, P.at)
  BY <1>6 DEF WaitOK
<1>8. RunExact(M, proc0)
  BY <1>1, <1>4, StartIs DEF RunExact
<1>9. proc0 \notin callout /\ OutOK(M, outp)
  BY <1>0, <1>4, StartIs DEF Fine, CoOK, OutOK
<1>10. Fine(M, proc0, callout, outp)
  BY <1>0, <1>4, <1>6, <1>7, <1>8, <1>9, StartIs, RequeueFine
<1>11. Landed(Kernel, M, proc0, callout, outp, NoProc)
  BY <1>0, <1>4, <1>6, <1>10, StartIs DEF Landed, StopKept
<1>12. QED
  BY <1>5, <1>11, LandedInv

\* swapin(): the process was on no run queue.
LEMMA SwapinStep ==
  ASSUME Inv, NEW p \in Proc, Swapin(p)
  PROVE  StepOK(NoProc)
<1> DEFINE L == setrunqueue(Kernel, p)
           P == SetInmem(L.proc[p], TRUE)
           M == Put(L, p, P)
<1>0. /\ ~panicked /\ curproc = proc0 /\ p \in Swapped /\ Becomes(M)
      /\ UNCHANGED <<curproc, callout, outp>> /\ p \in AnyProc
  BY Zenon DEF Swapin, Running, Put, SetInmem, AnyProc
<1>1. /\ RunExact(Kernel, proc0) /\ Calm(p, proc[p]) /\ WaitOK(proc[p], proc[p].at)
      /\ proc[p] \in ProcRec /\ proc[p].stat = "SRUN" /\ ~proc[p].inmem /\ p # proc0
  BY <1>0, ProcAssumption, StartIs, KernelIs DEF Sound, Ready, Orderly, Swapped
<1>2. proc[p].wchan = NoChan /\ p \notin runq
  BY <1>0, <1>1, StartIs DEF WaitOK, RunExact
<1>3. /\ L \in KernelRec /\ L.runq = runq \cup {p} /\ L.proc = proc /\ L.slpque = slpque /\ ~L.panicked
  BY <1>0, <1>1, <1>2, StartIs, SetrunqueueIs
<1> HIDE DEF L
<1>4. /\ P \in ProcRec /\ SameShared(proc[p], P) /\ P.at = proc[p].at /\ P.sintr = proc[p].sintr
      /\ P.timeout = proc[p].timeout /\ P.inmem /\ P.ret = proc[p].ret
      /\ P.pptr = proc[p].pptr /\ P.timo = proc[p].timo /\ P.sigs = proc[p].sigs
  BY <1>1, <1>3, SetInmemIs DEF SetOne
<1> HIDE DEF P
<1>5. /\ M \in KernelRec /\ M.proc[p] = P /\ M.runq = runq \cup {p} /\ M.slpque = slpque /\ ~M.panicked
      /\ \A q \in AnyProc \ {p} : M.proc[q] = proc[q]
  BY <1>0, <1>3, <1>4, PutIs
<1> HIDE DEF M
<1>6. WaitOK(P, P.at) /\ Calm(p, P)
  BY <1>0, <1>1, <1>2, <1>4 DEF WaitOK, Calm, TimerOK, SignalOK, SameShared
<1>7. RunExact(M, proc0)
  <2>1. proc0 \notin M.runq
    BY <1>1, <1>5, StartIs, <1>0 DEF RunExact
  <2>2. \A q \in AnyProc \ {proc0} : q \in runq <=> proc[q].stat = "SRUN" /\ proc[q].inmem
    BY <1>0, <1>1, StartIs DEF RunExact
  <2>3. P.stat = "SRUN" /\ P.inmem
    BY <1>1, <1>4 DEF SameShared
  <2>4. QED
    BY <1>5, <2>1, <2>2, <2>3 DEF RunExact
<1>8. OutOK(M, outp) /\ (p \in callout => Timed(P))
  BY <1>0, <1>4, <1>5, StartIs DEF Fine, CoOK, OutOK, Timed
<1>9. proc0 \in AnyProc /\ M.proc[proc0].stat = "SRUN" /\ M.proc[proc0].inmem
  BY <1>0, <1>1, <1>5, StartIs DEF AnyProc
<1>10. Fine(M, proc0, callout, outp)
  BY <1>0, <1>4, <1>5, <1>6, <1>7, <1>8, <1>9, StartIs, RequeueFine DEF SameShared
<1>11. Landed(Kernel, M, proc0, callout, outp, NoProc)
  BY <1>0, <1>4, <1>5, <1>9, <1>10, StartIs DEF Landed, StopKept, SameShared
<1>12. QED
  BY <1>0, <1>11, LandedInv

\* swapout_threads() has chosen a process.
LEMMA SwapoutBeginStep ==
  ASSUME Inv, NEW p \in Proc, SwapoutBegin(p)
  PROVE  StepOK(NoProc)
<1>0. /\ ~panicked /\ proc[p].inmem /\ outp' = p
      /\ UNCHANGED <<proc, slpque, runq, curproc, callout, panicked>>
  BY DEF SwapoutBegin
<1>1. Fine(Kernel, curproc, callout, p)
  BY <1>0, StartIs DEF Fine, OutOK
<1>2. Landed(Kernel, Kernel, curproc, callout, p, NoProc)
  BY <1>0, <1>1, StartIs DEF Landed, StopKept
<1>3. Becomes(Kernel)
  BY <1>0 DEF Becomes, Kernel
<1>4. QED
  BY <1>0, <1>2, <1>3, LandedInv

\* swapout(): a process that has become runnable in the meantime leaves the run queues.
LEMMA SwapoutEndStep ==
  ASSUME Inv, NEW p \in Proc, SwapoutEnd(p)
  PROVE  StepOK(NoProc)
<1> DEFINE L == IF proc[p].stat = "SRUN" THEN remrunqueue(Kernel, p) ELSE Kernel
           P == SetInmem(L.proc[p], FALSE)
           M == Put(L, p, P)
<1>0. /\ ~panicked /\ curproc = NoProc /\ outp = p /\ outp' = NoProc /\ Becomes(M)
      /\ UNCHANGED <<curproc, callout>> /\ p \in AnyProc
  BY Zenon DEF SwapoutEnd, Put, SetInmem, AnyProc
<1>1. /\ RunExact(Kernel, NoProc) /\ Calm(p, proc[p]) /\ WaitOK(proc[p], proc[p].at)
      /\ proc[p] \in ProcRec /\ proc[p].inmem
  BY <1>0, StartIs, KernelIs DEF Sound, Ready, Orderly, Fine, OutOK
<1>2. p \in runq <=> proc[p].stat = "SRUN"
  BY <1>0, <1>1, StartIs DEF RunExact
<1>3. /\ L \in KernelRec /\ L.runq = runq \ {p} /\ L.proc = proc /\ L.slpque = slpque /\ ~L.panicked
  <2>1. CASE proc[p].stat # "SRUN"
    BY <1>0, <1>2, <2>1, StartIs
  <2>2. CASE proc[p].stat = "SRUN"
    <3> DEFINE A == PutRunq(Kernel, Kernel.runq \ {p})
               pk == A.panicked \/ p \notin Kernel.runq
    <3>1. remrunqueue(Kernel, p) = PutPanic(A, pk)
      BY Zenon DEF remrunqueue, PutRunq, PutPanic
    <3>2. Kernel.runq \ {p} \in SUBSET AnyProc
      BY <1>0, StartIs, KernelIs
    <3> HIDE DEF A
    <3>3. /\ A \in KernelRec /\ A.runq = runq \ {p} /\ A.proc = proc /\ A.slpque = slpque /\ ~A.panicked
      BY <1>0, <3>2, StartIs, PutRunqIs DEF A
    <3>4. pk = FALSE
      BY <1>0, <1>2, <2>2, <3>3, StartIs, KernelIs
    <3>5. QED
      BY ZenonT(60), <2>2, <3>1, <3>3, <3>4, PutPanicIs
  <2>3. QED
    BY <2>1, <2>2
<1> HIDE DEF L
<1>4. /\ P \in ProcRec /\ SameShared(proc[p], P) /\ P.at = proc[p].at /\ P.sintr = proc[p].sintr
      /\ P.timeout = proc[p].timeout /\ ~P.inmem /\ P.ret = proc[p].ret
      /\ P.pptr = proc[p].pptr /\ P.timo = proc[p].timo /\ P.sigs = proc[p].sigs
  BY <1>1, <1>3, SetInmemIs DEF SetOne
<1> HIDE DEF P
<1>5. /\ M \in KernelRec /\ M.proc[p] = P /\ M.runq = runq \ {p} /\ M.slpque = slpque /\ ~M.panicked
      /\ \A q \in AnyProc \ {p} : M.proc[q] = proc[q]
  BY <1>0, <1>3, <1>4, PutIs
<1> HIDE DEF M
<1>6. WaitOK(P, P.at) /\ Calm(p, P)
  <2>1. Effective(P) = Effective(proc[p])
    BY <1>4 DEF Effective, SameShared
  <2>2. QED
    BY <1>0, <1>1, <1>4, <2>1 DEF WaitOK, Calm, TimerOK, SignalOK, SameShared
<1>7. RunExact(M, NoProc)
  <2>1. \A q \in AnyProc : q \in runq <=> proc[q].stat = "SRUN" /\ proc[q].inmem
    BY <1>0, <1>1, StartIs DEF RunExact
  <2>2. NoProc \notin M.runq
    BY <1>0, <1>5, StartIs, KernelIs
  <2>3. QED
    BY <1>4, <1>5, <2>1, <2>2 DEF RunExact
<1>8. OutOK(M, NoProc) /\ (p \in callout => Timed(P))
  BY <1>0, <1>4, <1>5, StartIs DEF Fine, CoOK, OutOK, Timed
<1>9. Fine(M, NoProc, callout, NoProc)
  BY <1>0, <1>4, <1>5, <1>6, <1>7, <1>8, StartIs, RequeueFine DEF SameShared
<1>10. Landed(Kernel, M, NoProc, callout, NoProc, NoProc)
  BY <1>0, <1>4, <1>5, <1>9, StartIs DEF Landed, StopKept, SameShared
<1>11. QED
  BY <1>0, <1>10, LandedInv

\* The head of tsleep(): the running process joins its sleep queue, in state SRUN.
LEMMA JoinQueueDoes ==
  ASSUME NEW K, NEW p \in AnyProc, Sound(K, p), NEW c \in Ident, NEW E \in ProcRec,
         E.stat = "SRUN", NEW at, \A q \in AnyProc \ {p} : at[q] = K.proc[q].at
  PROVE  LET Q == JoinQueue(Put(K, p, E), p, c)
         IN  /\ Ready(Q, at, p) /\ Q.panicked = K.panicked /\ Q.proc[p] = SetWchan(E, c)
             /\ \A q \in AnyProc \ {p} : Q.proc[q] = K.proc[q]
<1> DEFINE D == Put(K, p, E)
           P == SetWchan(D.proc[p], c)
           A == Put(D, p, P)
           b == LOOKUP[c]
           S == A.slpque[b] \cup {p}
           B == PutQueue(A, b, S)
           pk == B.panicked \/ p \in D.runq \/ D.proc[p].stat # "SRUN"
           Q == PutPanic(B, pk)
<1>0. /\ K \in KernelRec /\ Queued(K) /\ RunExact(K, p) /\ K.panicked \in BOOLEAN
      /\ b \in Bucket /\ NoChan \notin Ident /\ K.proc[p].stat = "SRUN" /\ K.proc[p].wchan = NoChan
  BY KernelIs, ProcAssumption DEF Sound, Ready, Orderly, Bucket, WaitOK
<1>1. JoinQueue(D, p, c) = Q
  <2> HIDE DEF D
  <2>1. QED
    BY Zenon DEF JoinQueue, Put, SetWchan, PutQueue, PutPanic
<1>2. /\ D \in KernelRec /\ D.proc[p] = E /\ D.slpque = K.slpque /\ D.runq = K.runq
      /\ D.panicked = K.panicked /\ \A q \in AnyProc \ {p} : D.proc[q] = K.proc[q]
  BY <1>0, PutIs
<1> HIDE DEF D
<1>3. P \in ProcRec /\ P.wchan = c /\ P.stat = "SRUN" /\ P = SetWchan(E, c)
  BY <1>2, SetWchanIs
<1> HIDE DEF P
<1>4. /\ A \in KernelRec /\ A.proc[p] = P /\ A.slpque = K.slpque /\ A.runq = K.runq
      /\ A.panicked = K.panicked /\ \A q \in AnyProc \ {p} : A.proc[q] = K.proc[q]
  BY <1>2, <1>3, PutIs
<1> HIDE DEF A
<1>5. S \in SUBSET AnyProc
  BY <1>0, <1>4, KernelIs
<1>6. /\ B \in KernelRec /\ B.proc = A.proc /\ B.runq = K.runq /\ B.panicked = K.panicked
      /\ B.slpque[b] = K.slpque[b] \cup {p} /\ \A d \in Bucket \ {b} : B.slpque[d] = K.slpque[d]
  <2> HIDE DEF S, b
  <2>1. /\ B \in KernelRec /\ B.proc = A.proc /\ B.runq = A.runq /\ B.panicked = A.panicked
        /\ B.slpque[b] = S /\ \A d \in Bucket \ {b} : B.slpque[d] = A.slpque[d]
    BY <1>0, <1>4, <1>5, PutQueueIs
  <2>2. QED
    BY <1>4, <2>1 DEF S
<1> HIDE DEF B
<1>7. pk = K.panicked
  BY <1>0, <1>2, <1>6 DEF RunExact
<1> HIDE DEF pk
<1>8. /\ Q \in KernelRec /\ Q.proc = A.proc /\ Q.runq = K.runq /\ Q.panicked = K.panicked
      /\ Q.slpque = B.slpque
  BY <1>0, <1>6, <1>7, PutPanicIs
<1> HIDE DEF Q
<1>9. Queued(Q)
  <2> SUFFICES ASSUME NEW q \in AnyProc, NEW d \in Bucket
               PROVE  q \in Q.slpque[d] <=> Q.proc[q].wchan # NoChan /\ d = LOOKUP[Q.proc[q].wchan]
    BY DEF Queued
  <2>1. q \in K.slpque[d] <=> K.proc[q].wchan # NoChan /\ d = LOOKUP[K.proc[q].wchan]
    BY <1>0 DEF Queued
  <2>2. CASE q = p
    BY <1>0, <1>3, <1>4, <1>6, <1>8, <2>1, <2>2
  <2>3. CASE q # p
    BY <1>4, <1>6, <1>8, <2>1, <2>3
  <2>4. QED
    BY <2>2, <2>3
<1>10. RunExact(Q, p)
  BY <1>0, <1>4, <1>8 DEF RunExact
<1>11. \A q \in AnyProc \ {p} : WaitOK(Q.proc[q], at[q])
  BY <1>4, <1>8 DEF Sound
<1>12. Ready(Q, at, p)
  BY <1>3, <1>4, <1>8, <1>9, <1>10, <1>11 DEF Ready, Orderly
<1>13. /\ Ready(Q, at, p) /\ Q.panicked = K.panicked /\ Q.proc[p] = SetWchan(E, c)
       /\ \A q \in AnyProc \ {p} : Q.proc[q] = K.proc[q]
  BY SMTT(60), <1>3, <1>4, <1>8, <1>12
<1>14. QED
  BY <1>1, <1>13, Zenon DEF D

\* A process that is on its sleep queue gives up the processor in SSLEEP.
LEMMA SleepFine ==
  ASSUME NEW K, NEW at, NEW p \in AnyProc, Ready(K, at, p), NEW co, NEW o, Others(K, at, p, co, o),
         K.proc[p].wchan # NoChan, at[p] \in {"sleep", "cursig1"},
         p \in co => K.proc[p].timo,
         p \in Proc => /\ K.proc[p].pptr # p /\ K.proc[p].wchan # proc0 /\ ~K.proc[p].timeout
                       /\ K.proc[p].ret = "none" /\ K.proc[p].why = "none"
                       /\ K.proc[p].sintr => Effective(K.proc[p]) = {}
  PROVE  LET A == Put(K, p, SetStat(K.proc[p], "SSLEEP"))
             M == Put(A, p, SetAt(A.proc[p], "sleep"))
         IN  /\ M \in KernelRec /\ M.panicked = K.panicked /\ Fine(M, NoProc, co, o)
             /\ \A q \in AnyProc \ {p} : M.proc[q] = K.proc[q]
<1> DEFINE S == SetStat(K.proc[p], "SSLEEP")
           A == Put(K, p, S)
           P == SetAt(A.proc[p], "sleep")
           M == Put(A, p, P)
<1>0. /\ K \in KernelRec /\ K.proc[p] \in ProcRec /\ "SSLEEP" \in Stat /\ "sleep" \in Site
      /\ NoProc \notin AnyProc /\ Queued(K) /\ RunExact(K, p)
  BY KernelIs, ProcAssumption DEF Ready, Orderly, Stat, Site
<1>1. /\ S \in ProcRec /\ S.stat = "SSLEEP" /\ SameOwn(K.proc[p], S) /\ S.wchan = K.proc[p].wchan
      /\ S.siglist = K.proc[p].siglist /\ S.why = K.proc[p].why
  BY <1>0, SetStatIs
<1> HIDE DEF S
<1>2. /\ A \in KernelRec /\ A.proc[p] = S /\ A.slpque = K.slpque /\ A.runq = K.runq
      /\ A.panicked = K.panicked /\ \A q \in AnyProc \ {p} : A.proc[q] = K.proc[q]
  BY <1>0, <1>1, PutIs
<1> HIDE DEF A
<1>3. Ready(A, at, NoProc)
  <2>1. Queued(A)
    BY <1>0, <1>1, <1>2 DEF Queued
  <2>2. NoProc \notin A.runq
    BY <1>0, <1>2, KernelIs
  <2>3. RunExact(A, NoProc)
    BY <1>0, <1>1, <1>2, <2>2 DEF RunExact
  <2>4. \A q \in AnyProc : WaitOK(A.proc[q], at[q])
    BY <1>1, <1>2 DEF Ready, Orderly, WaitOK
  <2>5. QED
    BY <1>0, <1>2, <2>1, <2>3, <2>4 DEF Ready, Orderly
<1>4. Others(A, at, p, co, o)
  BY <1>1, <1>2, OthersSelf DEF SameOwn
<1>5. /\ P \in ProcRec /\ SameShared(S, P) /\ P.at = "sleep" /\ P.sintr = S.sintr
      /\ P.timeout = S.timeout /\ P.inmem = S.inmem /\ P.ret = S.ret /\ P.pptr = S.pptr
      /\ P.sigs = S.sigs /\ P.timo = S.timo
  BY <1>0, <1>1, <1>2, SetAtIs DEF SetOne
<1> HIDE DEF P
<1>6. WaitOK(P, P.at)
  BY <1>1, <1>5 DEF WaitOK, SameShared
<1>7. p \in Proc => Calm(p, P)
  <2> HAVE p \in Proc
  <2>1. Effective(P) = Effective(K.proc[p])
    BY <1>1, <1>5 DEF Effective, SameShared, SameOwn
  <2>2. QED
    BY <1>1, <1>5, <2>1 DEF Calm, TimerOK, SignalOK, SameShared, SameOwn
<1>8. p \in co => Timed(P)
  BY <1>1, <1>4, <1>5 DEF SameOwn, Timed, Others
<1>9. Fine(M, NoProc, co, o)
  BY <1>0, <1>2, <1>3, <1>4, <1>5, <1>6, <1>7, <1>8, PlaceFine DEF SameShared
<1>10. /\ M \in KernelRec /\ M.panicked = K.panicked
       /\ \A q \in AnyProc \ {p} : M.proc[q] = K.proc[q]
  BY <1>2, <1>5, PutIs
<1>11. QED
  BY <1>9, <1>10 DEF A, S, P, M

\* The swapper goes to sleep on &proc0.
LEMMA SchedulerSleepStep ==
  ASSUME Inv, SchedulerSleep
  PROVE  StepOK(NoProc)
<1> DEFINE Q == JoinQueue(Put(Kernel, proc0, proc[proc0]), proc0, proc0)
           A == Put(Q, proc0, SetStat(Q.proc[proc0], "SSLEEP"))
           M == Put(A, proc0, SetAt(A.proc[proc0], "sleep"))
           at == [AtOf(Kernel) EXCEPT ![proc0] = "cursig1"]
<1>0. ~panicked /\ curproc = proc0 /\ curproc' = NoProc /\ UNCHANGED <<callout, outp>>
  BY DEF SchedulerSleep, Running, SwitchAt
<1>1. /\ proc0 \in AnyProc /\ proc0 \notin Proc /\ proc0 \in Ident /\ proc[proc0] \in ProcRec
      /\ NoChan \notin Ident
  BY <1>0, ProcAssumption, StartIs, KernelIs DEF AnyProc, Ident
<1>2. Put(Kernel, proc0, proc[proc0]) = Kernel
  <2>1. proc \in [AnyProc -> ProcRec]
    BY <1>0, StartIs DEF KernelRec
  <2>2. [proc EXCEPT ![proc0] = proc[proc0]] = proc
    BY <1>1, <2>1
  <2>3. QED
    BY <2>2 DEF Put, Kernel
<1>3. Becomes(M)
  <2>1. SwitchAt([JoinQueue(Kernel, proc0, proc0) EXCEPT !.proc[proc0].stat = "SSLEEP"], proc0, "sleep")
    BY DEF SchedulerSleep
  <2>2. QED
    BY <1>2, <2>1, Zenon DEF SwitchAt, Put, SetStat, SetAt
<1>4. /\ at[proc0] = "cursig1" /\ \A q \in AnyProc \ {proc0} : at[q] = proc[q].at
  BY <1>0, <1>1, StartIs DEF AtOf
<1> HIDE DEF at
<1>5. /\ Ready(Q, at, proc0) /\ Q.panicked = Kernel.panicked /\ Q.proc[proc0] = SetWchan(proc[proc0], proc0)
      /\ \A q \in AnyProc \ {proc0} : Q.proc[q] = proc[q]
  BY <1>0, <1>1, <1>4, StartIs, JoinQueueDoes
<1> HIDE DEF Q
<1>6. Q.proc[proc0].wchan = proc0 /\ Q.proc[proc0].inmem = proc[proc0].inmem
  BY <1>1, <1>5, SetWchanIs DEF SameOwn
<1>7. Others(Kernel, at, proc0, callout, outp) /\ proc0 \notin callout
  BY <1>0, <1>1, <1>4, StartIs DEF Others
<1>8. Others(Q, at, proc0, callout, outp)
  BY <1>0, <1>5, <1>6, <1>7, StartIs, OthersSelf
<1>9. /\ M \in KernelRec /\ M.panicked = Q.panicked /\ Fine(M, NoProc, callout, outp)
      /\ \A q \in AnyProc \ {proc0} : M.proc[q] = Q.proc[q]
  BY <1>1, <1>4, <1>5, <1>6, <1>7, <1>8, SleepFine
<1> HIDE DEF M
<1>10. Landed(Kernel, M, NoProc, callout, outp, NoProc)
  BY <1>0, <1>1, <1>5, <1>9, StartIs DEF Landed, StopKept
<1>11. QED
  BY <1>0, <1>3, <1>10, LandedInv

\* The running process changes fields of its own that no queue depends on.
LEMMA SelfPut ==
  ASSUME NEW K, NEW at, NEW p \in AnyProc, Ready(K, at, p), NEW P \in ProcRec,
         P.stat = K.proc[p].stat, P.wchan = K.proc[p].wchan, P.inmem = K.proc[p].inmem
  PROVE  LET L == Put(K, p, P)
         IN  /\ Ready(L, at, p) /\ L.panicked = K.panicked /\ L.proc[p] = P
             /\ \A q \in AnyProc \ {p} : L.proc[q] = K.proc[q]
<1> DEFINE L == Put(K, p, P)
<1>1. /\ L \in KernelRec /\ L.proc[p] = P /\ L.slpque = K.slpque /\ L.runq = K.runq
      /\ L.panicked = K.panicked /\ \A q \in AnyProc \ {p} : L.proc[q] = K.proc[q]
  BY PutIs DEF Ready, Orderly
<1> HIDE DEF L
<1>2. Queued(L)
  BY <1>1 DEF Ready, Orderly, Queued
<1>3. RunExact(L, p)
  BY <1>1 DEF Ready, Orderly, RunExact
<1>4. Ready(L, at, p)
  BY <1>1, <1>2, <1>3 DEF Ready, Orderly
<1>5. QED
  BY <1>1, <1>4 DEF L

\* The running process p is off the sleep queues and can return to user mode with r.
MayReturn(P, p, r) ==
  /\ P.wchan = NoChan /\ P.inmem /\ ~P.timeout /\ P.pptr # p
  /\ P.why = "timeout" => r \in {"EWOULDBLOCK", "EINTR"}
  /\ r = "EWOULDBLOCK" => P.why = "timeout"

\* tsleep() returns.
LEMMA ReturnsStep ==
  ASSUME Inv, ~panicked, NEW K, NEW at, NEW p \in Proc, curproc = p, Ready(K, at, p), ~K.panicked,
         StopKept(Kernel, K, NoProc), Others(K, at, p, callout', outp'), p \notin callout',
         NEW r \in Rets, MayReturn(K.proc[p], p, r), Returns(K, p, r)
  PROVE  StepOK(NoProc)
<1> DEFINE A == Put(K, p, SetAt(K.proc[p], "user"))
           P == SetRet(A.proc[p], r)
           M == Put(A, p, P)
<1>0. p \in AnyProc /\ K \in KernelRec /\ K.proc[p] \in ProcRec /\ K.proc[p].stat = "SRUN" /\ "user" \in Site
  BY KernelIs DEF AnyProc, Ready, Orderly, Site
<1>1. Becomes(M) /\ UNCHANGED curproc
  BY Zenon DEF Returns, Put, SetAt, SetRet
<1>2. /\ A.proc[p] = SetAt(K.proc[p], "user") /\ Ready(A, at, p) /\ ~A.panicked
      /\ \A q \in AnyProc \ {p} : A.proc[q] = K.proc[q]
  BY <1>0, SetAtIs, SelfPut DEF SetOne, SameShared
<1> HIDE DEF A
<1>3. /\ A.proc[p] \in ProcRec /\ SameShared(K.proc[p], A.proc[p]) /\ A.proc[p].at = "user"
      /\ A.proc[p].sintr = K.proc[p].sintr /\ A.proc[p].timeout = K.proc[p].timeout
      /\ A.proc[p].inmem = K.proc[p].inmem /\ A.proc[p].pptr = K.proc[p].pptr
  BY <1>0, <1>2, SetAtIs DEF SetOne
<1>4. /\ P \in ProcRec /\ SameShared(A.proc[p], P) /\ P.at = "user" /\ P.ret = r
      /\ P.sintr = A.proc[p].sintr /\ P.timeout = A.proc[p].timeout
      /\ P.inmem = A.proc[p].inmem /\ P.pptr = A.proc[p].pptr
  BY <1>3, SetRetIs DEF SetOne
<1> HIDE DEF P
<1>5. Others(A, at, p, callout', outp')
  BY <1>2, <1>3, OthersSelf
<1>6. NoChan # proc0
  BY ProcAssumption DEF Ident, AnyProc
<1>7. WaitOK(P, P.at) /\ Calm(p, P)
  BY <1>0, <1>3, <1>4, <1>6 DEF MayReturn, WaitOK, Calm, TimerOK, SignalOK, SameShared
<1>8. Fine(M, p, callout', outp')
  BY <1>0, <1>2, <1>3, <1>4, <1>5, <1>7, PlaceFine DEF SameShared, MayReturn
<1>9. /\ M \in KernelRec /\ ~M.panicked /\ M.proc[p].stat = "SRUN"
      /\ \A q \in AnyProc \ {p} : M.proc[q] = K.proc[q]
  <2>1. A \in KernelRec
    BY <1>2 DEF Ready, Orderly
  <2>2. P.stat = "SRUN"
    BY <1>0, <1>3, <1>4 DEF SameShared
  <2>3. /\ M \in KernelRec /\ M.proc[p] = P /\ M.panicked = A.panicked
        /\ \A q \in AnyProc \ {p} : M.proc[q] = A.proc[q]
    BY SMTT(60), <1>0, <1>4, <2>1, PutIs
  <2> HIDE DEF M
  <2>4. QED
    BY <1>2, <2>2, <2>3
<1> HIDE DEF M
<1>10. StopKept(Kernel, M, NoProc)
  BY <1>0, <1>9, StartIs DEF StopKept
<1>11. Landed(Kernel, M, p, callout', outp', NoProc)
  BY <1>0, <1>8, <1>9, <1>10 DEF Landed, Others
<1>12. QED
  BY <1>1, <1>11, LandedInv

\* The process stopped in CURSIG() and gives up the processor there.
LEMMA StoppedStep ==
  ASSUME Inv, ~panicked, NEW L, NEW at, NEW p \in Proc, curproc = p, NEW site \in Site,
         L \in KernelRec, StopKept(Kernel, L, NoProc),
         SwapperApart => ~L.panicked,
         ~L.panicked => /\ Ready(L, at, NoProc) /\ Others(L, at, p, callout', outp')
                        /\ WaitOK(L.proc[p], site) /\ Calm(p, SetAt(L.proc[p], site))
                        /\ p \in callout' => Timed(SetAt(L.proc[p], site)),
         callout' \subseteq Proc, outp' \in Proc \cup {NoProc}, SwitchAt(L, p, site)
  PROVE  StepOK(NoProc)
<1> DEFINE P == SetAt(L.proc[p], site)
           M == Put(L, p, P)
<1>0. p \in AnyProc /\ L.proc[p] \in ProcRec /\ NoProc \notin AnyProc
  BY KernelIs, ProcAssumption DEF AnyProc
<1>1. Becomes(M) /\ curproc' = NoProc
  BY Zenon DEF SwitchAt, Put, SetAt
<1>2. /\ P \in ProcRec /\ SameShared(L.proc[p], P) /\ P.at = site /\ P.inmem = L.proc[p].inmem
  BY <1>0, SetAtIs DEF SetOne
<1> HIDE DEF P
<1>3. ~L.panicked => Fine(M, NoProc, callout', outp')
  <2> HAVE ~L.panicked
  <2>1. WaitOK(P, P.at) /\ Calm(p, P) /\ (p \in callout' => Timed(P))
    BY <1>2 DEF WaitOK, SameShared, P
  <2>2. QED
    BY <1>0, <1>2, <2>1, PlaceFine DEF SameShared
<1>4. /\ M \in KernelRec /\ M.panicked = L.panicked /\ M.proc[p].stat = L.proc[p].stat
      /\ \A q \in AnyProc \ {p} : M.proc[q] = L.proc[q]
  BY <1>0, <1>2, PutIs DEF SameShared
<1> HIDE DEF M
<1>5. StopKept(Kernel, M, NoProc)
  BY <1>0, <1>4 DEF StopKept
<1>6. Landed(Kernel, M, NoProc, callout', outp', NoProc)
  BY <1>0, <1>3, <1>4, <1>5 DEF Landed
<1>7. QED
  BY <1>1, <1>6, LandedInv

\* The second CURSIG() of tsleep(): it stops here or returns.
LEMMA TsleepSecondStep ==
  ASSUME Inv, ~panicked, NEW K, NEW at, NEW p \in Proc, curproc = p, Ready(K, at, p), ~K.panicked,
         StopKept(Kernel, K, NoProc), Others(K, at, p, callout', outp'), p \notin callout',
         MayReturn(K.proc[p], p, "OK"), K.proc[p].ret = "none", TsleepSecond(K, p)
  PROVE  StepOK(NoProc)
<1> DEFINE R == CURSIG(K, p)
           L == R.K
           r == IF R.sig # 0 THEN "EINTR" ELSE "OK"
<1>0. /\ p \in AnyProc /\ NoChan # proc0 /\ K.proc[p].why # "timeout" /\ K.proc[p].wchan = NoChan
      /\ K.proc[p].pptr # p /\ K.proc[p].inmem /\ ~K.proc[p].timeout /\ Apart(K, p)
  BY ProcAssumption DEF AnyProc, Ident, MayReturn, Apart
<1>1. /\ R.stopped \in BOOLEAN
      /\ R.stopped =>
           /\ Stepped(K, L, at, NoProc) /\ (~L.panicked => Ready(L, at, NoProc))
           /\ ~L.panicked
           /\ L.proc[p].stat = "SSTOP"
      /\ ~R.stopped => \E S \in SUBSET K.proc[p].siglist : Listed(K, L, p, S)
  BY <1>0, CURSIGDoes
<1>2. IF R.stopped THEN SwitchAt(L, p, "cursig2") ELSE Returns(L, p, r)
  BY Zenon DEF TsleepSecond
<1> HIDE DEF R, L
<1>3. CASE R.stopped
  <2>1. /\ Gentle(K, L) /\ L \in KernelRec /\ StopKept(K, L, NoProc) /\ Ready(L, at, NoProc) /\ ~L.panicked
    BY <1>1, <1>3 DEF Stepped
  <2>2. Others(L, at, p, callout', outp')
    BY <2>1, OthersGentle
  <2>3. StopKept(Kernel, L, NoProc)
    BY <2>1 DEF StopKept
  <2>4. /\ L.proc[p] \in ProcRec /\ L.proc[p].wchan = NoChan /\ L.proc[p].why # "timeout"
        /\ L.proc[p].ret = "none" /\ ~L.proc[p].timeout /\ L.proc[p].pptr # p
    BY <1>0, <2>1, KernelIs DEF Gentle, Light, SameOwn
  <2> DEFINE P == SetAt(L.proc[p], "cursig2")
  <2>5. /\ SameShared(L.proc[p], P) /\ P.at = "cursig2" /\ P.timeout = L.proc[p].timeout
        /\ P.ret = L.proc[p].ret /\ P.pptr = L.proc[p].pptr
    BY <2>4, SetAtIs DEF SetOne, Site
  <2> HIDE DEF P
  <2>6. Calm(p, P)
    BY <1>0, <2>4, <2>5 DEF Calm, TimerOK, SignalOK, SameShared
  <2>7. WaitOK(L.proc[p], "cursig2")
    BY <1>1, <1>3, <2>4 DEF WaitOK
  <2>8. callout' \subseteq Proc /\ outp' \in Proc \cup {NoProc} /\ "cursig2" \in Site
    BY DEF Others, Site
  <2>9. SwitchAt(L, p, "cursig2")
    BY <1>2, <1>3
  <2>10. QED
    BY <2>1, <2>2, <2>3, <2>6, <2>7, <2>8, <2>9, StoppedStep DEF P
<1>4. CASE ~R.stopped
  <2>1. PICK S \in SUBSET K.proc[p].siglist : Listed(K, L, p, S)
    BY <1>1, <1>4
  <2>2. Ready(L, at, p)
    BY <1>0, <2>1, ListedDoes
  <2>3. Others(L, at, p, callout', outp')
    BY <2>1, OthersSelf DEF Listed, SameOwn
  <2>4. MayReturn(L.proc[p], p, r) /\ r \in Rets
    BY <1>0, <2>1 DEF Listed, SameOwn, MayReturn, Rets
  <2>5. ~L.panicked /\ StopKept(Kernel, L, NoProc)
    BY <1>0, <2>1 DEF Listed, StopKept
  <2>6. Returns(L, p, r)
    BY <1>2, <1>4
  <2> HIDE DEF r
  <2>7. QED
    BY <2>2, <2>3, <2>4, <2>5, <2>6, ReturnsStep
<1>5. QED
  BY <1>1, <1>3, <1>4

\* A process off the sleep queues that goes on in tsleep(): a timeout ended its sleep if
\* and only if P_TIMEOUT says so.
MayGoOn(P, p) ==
  /\ P.wchan = NoChan /\ P.inmem /\ P.pptr # p /\ P.ret = "none"
  /\ P.timeout <=> P.why = "timeout"

\* tsleep() from the label "resume".
LEMMA TsleepResumeStep ==
  ASSUME Inv, ~panicked, NEW K, NEW at, NEW p \in Proc, curproc = p, Ready(K, at, p), ~K.panicked,
         StopKept(Kernel, K, NoProc), Others(K, at, p, callout, outp), MayGoOn(K.proc[p], p),
         K.proc[p].timeout => p \notin callout,
         NEW sig, NEW catch \in BOOLEAN, sig # 0 => catch,
         TsleepResume(K, p, sig, catch), outp' = outp
  PROVE  StepOK(NoProc)
<1> DEFINE S == SetSintr(K.proc[p], FALSE)
           A == Put(K, p, S)
           T == SetTimeout(A.proc[p], FALSE)
           B == Put(A, p, T)
           co == IF K.proc[p].timeout THEN callout ELSE callout \ {p}
<1>0. /\ p \in AnyProc /\ K \in KernelRec /\ K.proc[p] \in ProcRec /\ K.proc[p].stat = "SRUN"
      /\ FALSE \in BOOLEAN
  BY KernelIs DEF AnyProc, Ready, Orderly
<1>1. /\ callout' = co
      /\ IF K.proc[p].timeout /\ sig = 0 THEN Returns(B, p, "EWOULDBLOCK")
         ELSE IF catch /\ sig # 0 THEN Returns(B, p, "EINTR")
         ELSE IF catch THEN TsleepSecond(B, p)
         ELSE Returns(B, p, "OK")
  BY Zenon DEF TsleepResume, Put, SetSintr, SetTimeout
<1>2. /\ S \in ProcRec /\ SameShared(K.proc[p], S) /\ S.inmem = K.proc[p].inmem
      /\ S.pptr = K.proc[p].pptr /\ S.ret = K.proc[p].ret
  BY <1>0 DEF ProcRec, SetSintr, SameShared
<1> HIDE DEF S
<1>3. /\ A.proc[p] = S /\ Ready(A, at, p) /\ ~A.panicked
      /\ \A q \in AnyProc \ {p} : A.proc[q] = K.proc[q]
  BY <1>0, <1>2, SelfPut DEF SameShared
<1> HIDE DEF A
<1>4. /\ T \in ProcRec /\ SameShared(S, T) /\ T.inmem = S.inmem
      /\ T.pptr = S.pptr /\ T.ret = S.ret /\ ~T.timeout
  BY <1>2, <1>3 DEF ProcRec, SetTimeout, SameShared
<1> HIDE DEF T
<1>5. /\ B.proc[p] = T /\ Ready(B, at, p) /\ ~B.panicked
      /\ \A q \in AnyProc \ {p} : B.proc[q] = A.proc[q]
  BY <1>0, <1>3, <1>4, SelfPut DEF SameShared
<1> HIDE DEF B
<1>6. Others(B, at, p, callout, outp)
  BY <1>2, <1>3, <1>4, <1>5, OthersSelf
<1>7. Others(B, at, p, callout', outp') /\ p \notin callout'
  BY <1>1, <1>6 DEF Others
<1>8. StopKept(Kernel, B, NoProc)
  BY <1>0, <1>2, <1>3, <1>4, <1>5 DEF StopKept, SameShared
<1>9. /\ B.proc[p].wchan = NoChan /\ B.proc[p].inmem /\ ~B.proc[p].timeout /\ B.proc[p].pptr # p
      /\ B.proc[p].ret = "none" /\ (K.proc[p].timeout <=> B.proc[p].why = "timeout")
  BY <1>2, <1>4, <1>5 DEF MayGoOn, SameShared
<1>10. CASE K.proc[p].timeout /\ sig = 0
  <2>1. Returns(B, p, "EWOULDBLOCK") /\ MayReturn(B.proc[p], p, "EWOULDBLOCK") /\ "EWOULDBLOCK" \in Rets
    BY <1>1, <1>9, <1>10 DEF MayReturn, Rets
  <2>2. QED
    BY <1>5, <1>7, <1>8, <2>1, ReturnsStep
<1>11. CASE sig # 0
  <2>1. Returns(B, p, "EINTR") /\ MayReturn(B.proc[p], p, "EINTR") /\ "EINTR" \in Rets
    BY <1>1, <1>9, <1>11 DEF MayReturn, Rets
  <2>2. QED
    BY <1>5, <1>7, <1>8, <2>1, ReturnsStep
<1>12. CASE ~K.proc[p].timeout /\ sig = 0 /\ catch
  <2>1. TsleepSecond(B, p) /\ MayReturn(B.proc[p], p, "OK")
    BY <1>1, <1>9, <1>12 DEF MayReturn
  <2>2. QED
    BY <1>5, <1>7, <1>8, <1>9, <2>1, TsleepSecondStep
<1>13. CASE ~K.proc[p].timeout /\ sig = 0 /\ ~catch
  <2>1. Returns(B, p, "OK") /\ MayReturn(B.proc[p], p, "OK") /\ "OK" \in Rets
    BY <1>1, <1>9, <1>13 DEF MayReturn, Rets
  <2>2. QED
    BY <1>5, <1>7, <1>8, <2>1, ReturnsStep
<1>14. QED
  BY <1>10, <1>11, <1>12, <1>13

\* A process in tsleep(), on its sleep queue or already taken off it.
InTsleep(P, p) ==
  /\ P.inmem /\ P.pptr # p /\ P.wchan # proc0 /\ P.ret = "none"
  /\ P.timeout <=> P.why = "timeout"
  /\ P.timeout => P.timo
  /\ P.wchan # NoChan => P.why = "none"

\* tsleep() from its first CURSIG() on.
LEMMA TsleepFirstStep ==
  ASSUME Inv, ~panicked, NEW K, NEW at, NEW p \in Proc, curproc = p, Ready(K, at, p), ~K.panicked,
         at[p] = "cursig1", StopKept(Kernel, K, NoProc), NEW co, Others(K, at, p, co, outp),
         Others(K, at, p, callout, outp), InTsleep(K.proc[p], p),
         p \in co => K.proc[p].timo /\ ~K.proc[p].timeout,
         K.proc[p].timeout => p \notin callout, SwapperApart => Apart(K, p),
         TsleepFirst(K, p, co), outp' = outp
  PROVE  StepOK(NoProc)
<1> DEFINE R == CURSIG(K, p)
           L == R.K
           U == unsleep(L, p, "signal")
           V == Put(U, p, SetStat(U.proc[p], "SRUN"))
           A == Put(L, p, SetStat(L.proc[p], "SSLEEP"))
           M == Put(A, p, SetAt(A.proc[p], "sleep"))
<1>0. /\ p \in AnyProc /\ NoChan # proc0 /\ K.proc[p].wchan # proc0 /\ K.proc[p].pptr # p
      /\ at[p] \in {"sleep", "cursig1"} /\ "cursig1" \in Site /\ "signal" \in Whys /\ "SRUN" \in Stat
  BY ProcAssumption DEF AnyProc, Ident, InTsleep, Site, Whys, Stat
<1>1. /\ R.stopped \in BOOLEAN
      /\ R.stopped =>
           /\ Stepped(K, L, at, NoProc) /\ (~L.panicked => Ready(L, at, NoProc))
           /\ ~K.panicked /\ Apart(K, p) => ~L.panicked
           /\ L.proc[p].stat = "SSTOP"
      /\ ~R.stopped => /\ \E S \in SUBSET K.proc[p].siglist : Listed(K, L, p, S)
                       /\ R.sig = 0 => Effective(L.proc[p]) = {}
  BY <1>0, CURSIGDoes
<1>2. IF R.stopped THEN SwitchAt(L, p, "cursig1") /\ callout' = co
      ELSE IF R.sig # 0 THEN TsleepResume(V, p, R.sig, TRUE)
      ELSE IF L.proc[p].wchan = NoChan THEN TsleepResume(L, p, 0, FALSE)
      ELSE Becomes(M) /\ curproc' = NoProc /\ callout' = co
  BY Zenon DEF TsleepFirst, SwitchAt, Put, SetStat, SetAt
<1> HIDE DEF R, L
<1>3. CASE R.stopped
  <2>1. /\ ~L.panicked => Gentle(K, L) /\ Ready(L, at, NoProc)
        /\ L \in KernelRec /\ StopKept(K, L, NoProc) /\ (SwapperApart => ~L.panicked)
    BY <1>1, <1>3 DEF Stepped
  <2>2. ~L.panicked => Others(L, at, p, callout', outp')
    BY <1>2, <1>3, <2>1, OthersGentle
  <2>3. StopKept(Kernel, L, NoProc)
    BY <2>1 DEF StopKept
  <2> DEFINE P == SetAt(L.proc[p], "cursig1")
  <2>4. L.proc[p] \in ProcRec
    BY <1>0, <2>1, KernelIs
  <2>5. /\ SameShared(L.proc[p], P) /\ P.at = "cursig1" /\ P.timeout = L.proc[p].timeout
        /\ P.ret = L.proc[p].ret /\ P.pptr = L.proc[p].pptr /\ P.timo = L.proc[p].timo
    BY <1>0, <2>4, SetAtIs DEF SetOne
  <2> HIDE DEF P
  <2>6. ASSUME ~L.panicked
        PROVE  WaitOK(L.proc[p], "cursig1") /\ Calm(p, P) /\ (p \in callout' => Timed(P))
    <3>1. Light(K.proc[p], L.proc[p]) /\ SameOwn(K.proc[p], L.proc[p])
      BY <1>0, <2>1, <2>6 DEF Gentle, Light
    <3>2. WaitOK(L.proc[p], "cursig1")
      BY <1>1, <1>3 DEF WaitOK
    <3>3. TimerOK(P)
      BY <2>5, <3>1 DEF InTsleep, TimerOK, SameShared, Light, SameOwn
    <3>4. P.pptr # p /\ P.wchan # proc0 /\ SignalOK(P)
      BY <1>0, <2>5, <3>1 DEF SameShared, Light, SameOwn, SignalOK
    <3>5. p \in callout' => Timed(P)
      BY <1>2, <1>3, <2>5, <3>1 DEF Timed, SameOwn
    <3>6. QED
      BY <3>2, <3>3, <3>4, <3>5 DEF Calm
  <2>7. callout' \subseteq Proc /\ outp' \in Proc \cup {NoProc} /\ SwitchAt(L, p, "cursig1")
    BY <1>2, <1>3 DEF Others
  <2>8. ~L.panicked => /\ Ready(L, at, NoProc) /\ Others(L, at, p, callout', outp')
                       /\ WaitOK(L.proc[p], "cursig1") /\ Calm(p, SetAt(L.proc[p], "cursig1"))
                       /\ p \in callout' => Timed(SetAt(L.proc[p], "cursig1"))
    BY <2>1, <2>2, <2>6 DEF P
  <2>9. QED
    BY <1>0, <2>1, <2>3, <2>7, <2>8, StoppedStep
<1>4. ASSUME ~R.stopped
      PROVE  StepOK(NoProc)
  <2>1. PICK S \in SUBSET K.proc[p].siglist : Listed(K, L, p, S)
    BY <1>1, <1>4
  <2>2. Ready(L, at, p) /\ ~L.panicked
    <3>1. Ready(L, at, p)
      BY <1>0, <2>1, ListedDoes
    <3>2. L.panicked = K.panicked
      BY <2>1 DEF Listed
    <3>3. QED
      BY <3>1, <3>2
  <2>3. Others(L, at, p, co, outp) /\ Others(L, at, p, callout, outp)
    BY <2>1, OthersSelf DEF Listed, SameOwn
  <2>4. /\ L \in KernelRec /\ StopKept(Kernel, L, NoProc) /\ SameOwn(K.proc[p], L.proc[p])
        /\ L.proc[p].stat = "SRUN" /\ L.proc[p].wchan = K.proc[p].wchan /\ L.proc[p].why = K.proc[p].why
    BY <1>0, <2>1 DEF Listed, StopKept, Ready
  <2>5. InTsleep(L.proc[p], p)
    BY <2>4 DEF InTsleep, SameOwn
  <2>6. CASE R.sig # 0
    <3>1. TsleepResume(V, p, R.sig, TRUE)
      BY <1>2, <1>4, <2>6
    <3>2. Queued(L)
      BY <2>2 DEF Ready, Orderly
    <3>3. /\ U \in KernelRec /\ Queued(U) /\ U.runq = L.runq /\ U.panicked = L.panicked
          /\ \A q \in AnyProc \ {p} : U.proc[q] = L.proc[q]
          /\ SameOwn(L.proc[p], U.proc[p]) /\ U.proc[p].stat = L.proc[p].stat
          /\ U.proc[p].wchan = NoChan
          /\ U.proc[p].why = IF L.proc[p].wchan = NoChan THEN L.proc[p].why ELSE "signal"
      BY <1>0, <2>4, <3>2, UnsleepIs
    <3> HIDE DEF U
    <3>4. Ready(U, at, p)
      BY <2>2, <2>4, <3>3 DEF Ready, Orderly, RunExact, SameOwn
    <3> DEFINE P == SetStat(U.proc[p], "SRUN")
    <3>5. U.proc[p] \in ProcRec
      BY <1>0, <3>3, KernelIs
    <3>6. /\ P \in ProcRec /\ P.stat = "SRUN" /\ SameOwn(U.proc[p], P) /\ P.wchan = NoChan
          /\ P.why = U.proc[p].why
      BY <1>0, <3>3, <3>5, SetStatIs
    <3> HIDE DEF P
    <3>7. /\ Ready(V, at, p) /\ V.panicked = U.panicked /\ V.proc[p] = P
          /\ \A q \in AnyProc \ {p} : V.proc[q] = U.proc[q]
      BY <1>0, <2>4, <3>3, <3>4, <3>6, SelfPut DEF SameOwn, P
    <3> HIDE DEF V
    <3>8. Others(V, at, p, callout, outp)
      BY <2>3, <3>3, <3>6, <3>7, OthersSelf DEF SameOwn
    <3>9. MayGoOn(V.proc[p], p) /\ V.proc[p].timeout = K.proc[p].timeout
      BY ZenonT(60), <2>4, <2>5, <3>3, <3>6, <3>7 DEF MayGoOn, InTsleep, SameOwn
    <3>10. ~V.panicked /\ StopKept(Kernel, V, NoProc)
      BY <1>0, <2>2, <2>4, <3>3, <3>6, <3>7 DEF StopKept
    <3>11. QED
      BY <3>1, <3>7, <3>8, <3>9, <3>10, TsleepResumeStep
  <2>7. CASE R.sig = 0 /\ L.proc[p].wchan = NoChan
    <3>1. TsleepResume(L, p, 0, FALSE)
      BY <1>2, <1>4, <2>7
    <3>2. MayGoOn(L.proc[p], p) /\ L.proc[p].timeout = K.proc[p].timeout
      BY <2>4, <2>5, <2>7 DEF MayGoOn, InTsleep, SameOwn
    <3>3. QED
      BY <2>2, <2>3, <2>4, <3>1, <3>2, TsleepResumeStep
  <2>8. CASE R.sig = 0 /\ L.proc[p].wchan # NoChan
    <3>1. Becomes(M) /\ curproc' = NoProc /\ callout' = co
      BY <1>2, <1>4, <2>8
    <3>2. Effective(L.proc[p]) = {}
      BY <1>1, <1>4, <2>8
    <3>3. /\ L.proc[p].pptr # p /\ L.proc[p].wchan # proc0 /\ ~L.proc[p].timeout
          /\ L.proc[p].ret = "none" /\ L.proc[p].why = "none"
      BY <2>5, <2>8 DEF InTsleep
    <3>4. p \in co => L.proc[p].timo
      BY <2>4 DEF SameOwn
    <3>5. /\ M \in KernelRec /\ M.panicked = L.panicked /\ Fine(M, NoProc, co, outp)
          /\ \A q \in AnyProc \ {p} : M.proc[q] = L.proc[q]
      BY <1>0, <2>2, <2>3, <2>8, <3>2, <3>3, <3>4, SleepFine
    <3> HIDE DEF M
    <3>6. StopKept(Kernel, M, NoProc)
      BY <1>0, <2>4, <3>5, StartIs DEF StopKept
    <3>7. Landed(Kernel, M, NoProc, co, outp, NoProc)
      BY <2>2, <2>3, <3>5, <3>6 DEF Landed, Others
    <3>8. QED
      BY <3>1, <3>7, LandedInv
  <2>9. QED
    BY <2>6, <2>7, <2>8
<1>5. QED
  BY <1>1, <1>3, <1>4

\* Of a process that runs in tsleep(), what its steps rely on.
LEMMA RunsInTsleep ==
  ASSUME Inv, ~panicked, NEW p \in Proc, curproc = p, proc[p].at \in {"sleep", "cursig1"}
  PROVE  /\ MayGoOn(proc[p], p) /\ InTsleep(proc[p], p)
         /\ proc[p].timeout => p \notin callout
         /\ p \in callout => proc[p].timo /\ ~proc[p].timeout
<1>0. p \in AnyProc /\ NoChan # proc0
  BY ProcAssumption DEF AnyProc, Ident
<1>1. Calm(p, proc[p]) /\ proc[p].wchan = NoChan /\ proc[p].inmem /\ proc[p] \in ProcRec
  BY <1>0, StartIs, KernelIs
<1>2. p \in callout => Timed(proc[p])
  BY StartIs DEF Fine, CoOK
<1>3. QED
  BY <1>0, <1>1, <1>2 DEF Calm, TimerOK, MayGoOn, InTsleep, Timed

\* A process whose sleep has ended runs again.
LEMMA ResumeSleepStep ==
  ASSUME Inv, NEW p \in Proc, ResumeSleep(p)
  PROVE  StepOK(NoProc)
<1>0. /\ ~panicked /\ curproc = p /\ proc[p].at = "sleep" /\ UNCHANGED outp
      /\ TsleepResume(Kernel, p, 0, proc[p].catch) /\ p \in AnyProc
  BY DEF ResumeSleep, Running, AnyProc
<1>1. MayGoOn(proc[p], p) /\ (proc[p].timeout => p \notin callout)
  BY <1>0, RunsInTsleep
<1>2. StopKept(Kernel, Kernel, NoProc) /\ Others(Kernel, AtOf(Kernel), p, callout, outp)
  BY <1>0, StartIs DEF StopKept
<1>3. proc[p].catch \in BOOLEAN
  BY <1>0, StartIs, KernelIs DEF ProcRec
<1>4. QED
  BY <1>0, <1>1, <1>2, <1>3, StartIs, TsleepResumeStep

\* A process that stopped in the first CURSIG() of tsleep() runs again.
LEMMA ResumeCursig1Step ==
  ASSUME Inv, NEW p \in Proc, ResumeCursig1(p)
  PROVE  StepOK(NoProc)
<1>0. /\ ~panicked /\ curproc = p /\ proc[p].at = "cursig1" /\ UNCHANGED outp
      /\ TsleepFirst(Kernel, p, callout) /\ p \in AnyProc
  BY DEF ResumeCursig1, Running, AnyProc
<1>1. /\ InTsleep(proc[p], p) /\ (proc[p].timeout => p \notin callout)
      /\ p \in callout => proc[p].timo /\ ~proc[p].timeout
  BY <1>0, RunsInTsleep
<1>2. StopKept(Kernel, Kernel, NoProc) /\ Others(Kernel, AtOf(Kernel), p, callout, outp)
  BY <1>0, StartIs DEF StopKept
<1>3. AtOf(Kernel)[p] = "cursig1" /\ Apart(Kernel, p)
  BY <1>0, StartIs DEF AtOf, Apart
<1>4. QED
  BY <1>0, <1>1, <1>2, <1>3, StartIs, TsleepFirstStep

\* A process that stopped in the second CURSIG() of tsleep() runs again.
LEMMA ResumeCursig2Step ==
  ASSUME Inv, NEW p \in Proc, ResumeCursig2(p)
  PROVE  StepOK(NoProc)
<1>0. /\ ~panicked /\ curproc = p /\ proc[p].at = "cursig2" /\ UNCHANGED <<callout, outp>>
      /\ TsleepSecond(Kernel, p) /\ p \in AnyProc
  BY DEF ResumeCursig2, Running, AnyProc
<1>1. Calm(p, proc[p]) /\ proc[p].wchan = NoChan /\ proc[p].inmem
  BY <1>0, StartIs
<1>2. p \notin callout
  BY <1>0, StartIs DEF Fine, CoOK, Timed
<1>3. MayReturn(proc[p], p, "OK") /\ proc[p].ret = "none"
  BY <1>0, <1>1 DEF Calm, TimerOK, MayReturn
<1>4. StopKept(Kernel, Kernel, NoProc) /\ Others(Kernel, AtOf(Kernel), p, callout', outp')
  BY <1>0, StartIs DEF StopKept
<1>5. QED
  BY <1>0, <1>2, <1>3, <1>4, StartIs, TsleepSecondStep

\* tsleep(): the process is on its sleep queue before it looks at its signals.
LEMMA TsleepStep ==
  ASSUME Inv, NEW p \in Proc, NEW call \in SleepCalls[p], Tsleep(p, call.chan, call.catch, call.timo)
  PROVE  StepOK(NoProc)
<1> DEFINE c == call.chan
           catch == call.catch
           timo == call.timo
           E == [proc[p] EXCEPT !.sintr = catch, !.catch = catch, !.timo = timo,
                                !.ret = "none", !.why = "none"]
           Q == JoinQueue(Put(Kernel, p, E), p, c)
           co == IF timo THEN callout \cup {p} ELSE callout
           A == Put(Q, p, SetStat(Q.proc[p], "SSLEEP"))
           M == Put(A, p, SetAt(A.proc[p], "sleep"))
           at == [AtOf(Kernel) EXCEPT ![p] = "cursig1"]
<1>0. /\ ~panicked /\ curproc = p /\ proc[p].at = "user" /\ p \in AnyProc /\ UNCHANGED outp
      /\ IF catch THEN TsleepFirst(Q, p, co)
         ELSE Becomes(M) /\ curproc' = NoProc /\ callout' = co
  BY Zenon DEF Tsleep, Running, SwitchAt, Put, SetStat, SetAt, AnyProc
<1>1. /\ c \in Chan \cup Proc /\ c \in Ident /\ c # proc0 /\ c # NoChan
      /\ catch \in BOOLEAN /\ timo \in BOOLEAN /\ (SwapperApart => LOOKUP[c] # LOOKUP[proc0])
  <2>1. call \in [chan : Chan \cup Proc, catch : BOOLEAN, timo : BOOLEAN]
    BY ProcAssumption
  <2>2. c \in Chan \cup Proc /\ catch \in BOOLEAN /\ timo \in BOOLEAN
    BY <2>1
  <2>3. c \in Ident /\ c # proc0 /\ c # NoChan
    BY <2>2, ProcAssumption DEF Ident, AnyProc
  <2>4. QED
    BY <2>2, <2>3 DEF SwapperApart
<1>2. /\ Calm(p, proc[p]) /\ proc[p].wchan = NoChan /\ proc[p].inmem /\ proc[p].stat = "SRUN"
      /\ proc[p] \in ProcRec /\ p \notin callout
  BY <1>0, StartIs, KernelIs DEF Fine, CoOK, Timed
<1> HIDE DEF c, catch, timo
<1>3. /\ E \in ProcRec /\ E.stat = "SRUN" /\ E.wchan = NoChan /\ E.sintr = catch /\ E.timo = timo
      /\ E.ret = "none" /\ E.why = "none" /\ E.timeout = proc[p].timeout /\ E.inmem = proc[p].inmem
      /\ E.pptr = proc[p].pptr
  BY ZenonT(60), <1>1, <1>2 DEF ProcRec, Rets, Whys
<1> HIDE DEF E
<1>4. /\ at[p] = "cursig1" /\ \A q \in AnyProc \ {p} : at[q] = proc[q].at
  BY <1>0, StartIs DEF AtOf
<1> HIDE DEF at
<1>5. /\ Ready(Q, at, p) /\ Q.panicked = Kernel.panicked /\ Q.proc[p] = SetWchan(E, c)
      /\ \A q \in AnyProc \ {p} : Q.proc[q] = proc[q]
  BY <1>0, <1>1, <1>3, <1>4, StartIs, JoinQueueDoes
<1> HIDE DEF Q
<1>6. /\ Q.proc[p].wchan = c /\ Q.proc[p].why = "none" /\ SameOwn(E, Q.proc[p])
  BY <1>1, <1>3, <1>5, SetWchanIs
<1>7. ~proc[p].timeout
  BY <1>0, <1>2 DEF Calm, TimerOK
<1>8. Others(Kernel, at, p, callout, outp) /\ Others(Kernel, at, p, co, outp)
  BY <1>0, <1>4, StartIs DEF Others
<1>9. Others(Q, at, p, callout, outp) /\ Others(Q, at, p, co, outp)
  BY <1>0, <1>3, <1>5, <1>6, <1>8, StartIs, OthersSelf DEF SameOwn
<1>10. ~Q.panicked /\ StopKept(Kernel, Q, NoProc)
  BY <1>0, <1>2, <1>5, StartIs DEF StopKept
<1>11. p \in co => Q.proc[p].timo /\ ~Q.proc[p].timeout
  BY <1>2, <1>3, <1>6, <1>7 DEF SameOwn
<1>12. CASE catch
  <2>1. TsleepFirst(Q, p, co)
    BY <1>0, <1>12
  <2>2. InTsleep(Q.proc[p], p)
    BY <1>1, <1>2, <1>3, <1>6, <1>7 DEF InTsleep, SameOwn, Calm
  <2>3. SwapperApart => Apart(Q, p)
    BY <1>1, <1>6 DEF Apart
  <2> HIDE DEF co
  <2>4. QED
    BY <1>0, <1>2, <1>4, <1>5, <1>9, <1>10, <1>11, <2>1, <2>2, <2>3, TsleepFirstStep
<1>13. CASE ~catch
  <2>1. Becomes(M) /\ curproc' = NoProc /\ callout' = co
    BY <1>0, <1>13
  <2>2. /\ Q.proc[p].pptr # p /\ Q.proc[p].wchan # proc0 /\ ~Q.proc[p].timeout
        /\ Q.proc[p].ret = "none" /\ Q.proc[p].why = "none" /\ ~Q.proc[p].sintr
        /\ Q.proc[p].wchan # NoChan
    BY <1>1, <1>2, <1>3, <1>6, <1>7, <1>13 DEF SameOwn, Calm
  <2> HIDE DEF co
  <2>3. /\ M \in KernelRec /\ M.panicked = Q.panicked /\ Fine(M, NoProc, co, outp)
        /\ \A q \in AnyProc \ {p} : M.proc[q] = Q.proc[q]
    BY <1>0, <1>4, <1>5, <1>9, <1>11, <2>2, SleepFine
  <2> HIDE DEF M
  <2>4. StopKept(Kernel, M, NoProc)
    BY <1>0, <1>2, <1>10, <2>3, StartIs DEF StopKept
  <2>5. Landed(Kernel, M, NoProc, co, outp, NoProc)
    BY <1>9, <1>10, <2>3, <2>4 DEF Landed, Others
  <2>6. QED
    BY <1>0, <2>1, <2>5, LandedInv
<1>14. QED
  BY <1>1, <1>12, <1>13

\* exit1() gives the children of p to init.
Orphan(K, p) ==
  [K EXCEPT !.proc = [q \in AnyProc |->
      IF @[q].pptr = p THEN SetPptr(@[q], NoProc) ELSE @[q]]]

\* Only p_pptr changes, and not that of p.
LEMMA OrphanIs ==
  ASSUME NEW K \in KernelRec, NEW p \in AnyProc, K.proc[p].pptr # p
  PROVE  LET L == Orphan(K, p)
         IN  /\ L \in KernelRec /\ L.slpque = K.slpque /\ L.runq = K.runq /\ L.panicked = K.panicked
             /\ L.proc[p] = K.proc[p]
             /\ \A q \in AnyProc :
                  \/ L.proc[q] = K.proc[q]
                  \/ L.proc[q] = SetPptr(K.proc[q], NoProc)
<1> DEFINE F == [q \in AnyProc |-> IF K.proc[q].pptr = p THEN SetPptr(K.proc[q], NoProc) ELSE K.proc[q]]
           L == Orphan(K, p)
<1>1. L = [K EXCEPT !.proc = F]
  BY DEF Orphan
<1>2. \A q \in AnyProc : F[q] \in ProcRec
  BY KernelIs, SetPptrIs DEF SetOne
<1>3. F \in [AnyProc -> ProcRec]
  BY <1>2
<1>4. \A q \in AnyProc : F[q] = K.proc[q] \/ F[q] = SetPptr(K.proc[q], NoProc)
  OBVIOUS
<1>5. F[p] = K.proc[p]
  OBVIOUS
<1> HIDE DEF F, L
<1>6. L \in KernelRec /\ L.proc = F /\ L.slpque = K.slpque /\ L.runq = K.runq /\ L.panicked = K.panicked
  BY <1>1, <1>3 DEF KernelRec
<1>7. QED
  BY <1>4, <1>5, <1>6 DEF L

\* exit1() of the running process, which is then a zombie.
LEMMA ExitDoes ==
  ASSUME NEW K, NEW at, NEW p \in Proc, Ready(K, at, p), ~K.panicked, K.proc[p].wchan = NoChan,
         K.proc[p].pptr # p, NEW co, NEW o, Others(K, at, p, co, o)
  PROVE  LET L == Exit(K, p)
         IN  /\ L \in KernelRec /\ ~L.panicked /\ StopKept(K, L, NoProc) /\ Ready(L, at, NoProc)
             /\ Others(L, at, p, co, o) /\ SameOwn(K.proc[p], L.proc[p])
             /\ L.proc[p].wchan = NoChan /\ L.proc[p].why = K.proc[p].why
<1> DEFINE S == SetSigs(K.proc[p], {})
           A == Put(K, p, S)
           T == SetStat(A.proc[p], "SZOMB")
           Z == Put(A, p, T)
           O == Orphan(Z, p)
           N == SignalParent(O, p)
           L == WakeParent(N, p)
<1>0. /\ p \in AnyProc /\ Proc \subseteq AnyProc /\ NoProc \notin AnyProc /\ K \in KernelRec
      /\ K.proc[p] \in ProcRec /\ {} \in SUBSET Signal /\ "SZOMB" \in Stat /\ K.proc[p].stat = "SRUN"
      /\ NoChan # proc0 /\ Queued(K) /\ RunExact(K, p)
  BY KernelIs, ProcAssumption DEF AnyProc, Ident, Ready, Orderly, Stat
<1>1. Exit(K, p) = L
  BY Zenon DEF Exit, Orphan, Put, SetSigs, SetStat, SetPptr
<1>2. /\ S \in ProcRec /\ SameOwn(K.proc[p], S) /\ S.wchan = NoChan /\ S.why = K.proc[p].why
  BY <1>0, SetSigsIs
<1> HIDE DEF S
<1>3. /\ A \in KernelRec /\ A.proc[p] = S /\ A.slpque = K.slpque /\ A.runq = K.runq
      /\ A.panicked = K.panicked /\ \A q \in AnyProc \ {p} : A.proc[q] = K.proc[q]
  BY <1>0, <1>2, PutIs
<1> HIDE DEF A
<1>4. /\ T \in ProcRec /\ SameOwn(S, T) /\ T.wchan = NoChan /\ T.why = S.why /\ T.stat = "SZOMB"
  BY <1>0, <1>2, <1>3, SetStatIs
<1> HIDE DEF T
<1>5. /\ Z \in KernelRec /\ Z.proc[p] = T /\ Z.slpque = K.slpque /\ Z.runq = K.runq
      /\ Z.panicked = K.panicked /\ \A q \in AnyProc \ {p} : Z.proc[q] = K.proc[q]
  BY <1>0, <1>3, <1>4, PutIs
<1> HIDE DEF Z
<1>6. T.pptr # p
  BY <1>2, <1>4 DEF SameOwn
<1>7. /\ O \in KernelRec /\ O.proc[p] = T /\ O.slpque = K.slpque /\ O.runq = K.runq
      /\ O.panicked = K.panicked
      /\ \A q \in AnyProc \ {p} : O.proc[q] = K.proc[q] \/ O.proc[q] = SetPptr(K.proc[q], NoProc)
  BY <1>0, <1>5, <1>6, OrphanIs
<1> HIDE DEF O
<1>8. \A q \in AnyProc \ {p} :
        /\ SameShared(K.proc[q], O.proc[q]) /\ O.proc[q].inmem = K.proc[q].inmem
        /\ O.proc[q].at = K.proc[q].at /\ O.proc[q].timeout = K.proc[q].timeout
        /\ O.proc[q].sintr = K.proc[q].sintr /\ O.proc[q].ret = K.proc[q].ret
        /\ O.proc[q].sigs = K.proc[q].sigs /\ O.proc[q].timo = K.proc[q].timo
        /\ O.proc[q].pptr \in {K.proc[q].pptr, NoProc}
  <2> TAKE q \in AnyProc \ {p}
  <2>1. CASE O.proc[q] = K.proc[q]
    BY <2>1 DEF SameShared
  <2>2. CASE O.proc[q] = SetPptr(K.proc[q], NoProc)
    BY <1>0, <2>2, KernelIs, SetPptrIs DEF SetOne
  <2>3. QED
    BY <1>7, <2>1, <2>2
<1>9. Ready(O, at, NoProc)
  <2>1. Queued(O)
    BY <1>0, <1>4, <1>7, <1>8 DEF Queued, SameShared
  <2>2. NoProc \notin O.runq
    BY <1>0, <1>7, KernelIs
  <2>3. RunExact(O, NoProc)
    BY <1>0, <1>4, <1>7, <1>8, <2>2 DEF RunExact, SameShared
  <2>4. \A q \in AnyProc : WaitOK(O.proc[q], at[q])
    BY <1>4, <1>7, <1>8 DEF Ready, Orderly, WaitOK, SameShared
  <2>5. QED
    BY <1>0, <1>7, <2>1, <2>3, <2>4 DEF Ready, Orderly
<1>10. Others(O, at, p, co, o)
  <2>1. \A q \in Proc \ {p} : Calm(q, O.proc[q])
    <3> TAKE q \in Proc \ {p}
    <3>1. Calm(q, K.proc[q]) /\ q # NoProc
      BY <1>0 DEF Others
    <3>2. Effective(O.proc[q]) = Effective(K.proc[q])
      BY <1>0, <1>8 DEF Effective, SameShared
    <3>3. QED
      BY <1>0, <1>8, <3>1, <3>2 DEF Calm, TimerOK, SignalOK, SameShared
  <2>2. o # NoProc => O.proc[o].inmem
    BY <1>0, <1>2, <1>4, <1>7, <1>8 DEF Others, SameOwn
  <2>3. QED
    BY <1>0, <1>8, <2>1, <2>2 DEF Others, Timed
<1>11. /\ Stepped(O, N, at, NoProc) /\ (~N.panicked => Ready(N, at, NoProc)) /\ ~N.panicked
  BY <1>0, <1>6, <1>7, <1>9, SignalParentDoes DEF Apart
<1> HIDE DEF N
<1>12. /\ Stepped(N, L, at, NoProc) /\ Ready(L, at, NoProc) /\ ~L.panicked
  BY <1>0, <1>11, WakeParentDoes
<1> HIDE DEF L
<1>13. Gentle(O, N) /\ Gentle(N, L) /\ Gentle(O, L)
  BY <1>11, <1>12, GentleTrans DEF Stepped
<1>14. Others(L, at, p, co, o)
  BY <1>10, <1>13, OthersGentle
<1>15. SameOwn(O.proc[p], L.proc[p]) /\ L.proc[p].wchan = NoChan /\ L.proc[p].why = T.why
  BY <1>0, <1>4, <1>7, <1>13 DEF Gentle, Light
<1>16. StopKept(K, L, NoProc)
  BY <1>0, <1>8, <1>11, <1>12 DEF StopKept, Stepped, SameShared
<1>17. SameOwn(K.proc[p], L.proc[p]) /\ L.proc[p].why = K.proc[p].why
  BY <1>2, <1>4, <1>7, <1>15 DEF SameOwn
<1>18. L \in KernelRec
  BY <1>12 DEF Ready, Orderly
<1>19. QED
  BY <1>1, <1>12, <1>14, <1>15, <1>16, <1>17, <1>18

\* A process in user mode or on its way there, with nothing to report.
AtEase(P, p) ==
  /\ P.wchan = NoChan /\ P.inmem /\ ~P.timeout /\ P.pptr # p
  /\ P.ret = "none" /\ P.why = "none"

\* The running process goes on in user mode.
LEMMA GoesOnStep ==
  ASSUME Inv, ~panicked, NEW K, NEW at, NEW p \in Proc, curproc = p, Ready(K, at, p), ~K.panicked,
         StopKept(Kernel, K, NoProc), Others(K, at, p, callout, outp), p \notin callout,
         AtEase(K.proc[p], p), Becomes(Put(K, p, SetAt(K.proc[p], "user"))),
         UNCHANGED <<curproc, callout, outp>>
  PROVE  StepOK(NoProc)
<1> DEFINE P == SetAt(K.proc[p], "user")
           M == Put(K, p, P)
<1>0. /\ p \in AnyProc /\ K \in KernelRec /\ K.proc[p] \in ProcRec /\ K.proc[p].stat = "SRUN"
      /\ "user" \in Site /\ NoChan # proc0
  BY KernelIs, ProcAssumption DEF AnyProc, Ident, Ready, Orderly, Site
<1>1. /\ P \in ProcRec /\ SameShared(K.proc[p], P) /\ P.at = "user" /\ P.timeout = K.proc[p].timeout
      /\ P.ret = K.proc[p].ret /\ P.inmem = K.proc[p].inmem /\ P.pptr = K.proc[p].pptr
  BY <1>0, SetAtIs DEF SetOne
<1> HIDE DEF P
<1>2. WaitOK(P, P.at) /\ Calm(p, P) /\ P.inmem
  BY <1>0, <1>1 DEF AtEase, WaitOK, Calm, TimerOK, SignalOK, SameShared
<1>3. Fine(M, p, callout, outp)
  BY <1>0, <1>1, <1>2, PlaceFine DEF SameShared
<1>4. /\ M \in KernelRec /\ M.panicked = K.panicked /\ M.proc[p] = P
      /\ \A q \in AnyProc \ {p} : M.proc[q] = K.proc[q]
  BY <1>0, <1>1, PutIs
<1> HIDE DEF M
<1>5. StopKept(Kernel, M, NoProc)
  BY <1>0, <1>1, <1>4 DEF StopKept, SameShared
<1>6. Landed(Kernel, M, p, callout, outp, NoProc)
  BY <1>0, <1>3, <1>4, <1>5 DEF Landed, Others
<1>7. QED
  BY <1>6, LandedInv DEF M, P

\* The signal loop of userret(): the process stops, dies, or goes on.
LEMMA UserRetStep ==
  ASSUME Inv, NEW p \in Proc, UserRet(p)
  PROVE  StepOK(NoProc)
<1> DEFINE at == AtOf(Kernel)
           V == SetRet(proc[p], "none")
           A == Put(Kernel, p, V)
           W == SetWhy(A.proc[p], "none")
           K == Put(A, p, W)
           R == CURSIG(K, p)
           L == R.K
           X == Exit(L, p)
           T == Take(L, p, R.sig)
<1>0. /\ ~panicked /\ curproc = p /\ proc[p].at \in {"user", "sigstop"} /\ p \in AnyProc
      /\ UNCHANGED <<callout, outp>>
  BY Zenon DEF UserRet, Running, AnyProc
<1>1. IF R.stopped THEN SwitchAt(L, p, "sigstop")
      ELSE IF R.sig = 0 THEN Becomes(Put(L, p, SetAt(L.proc[p], "user"))) /\ UNCHANGED curproc
      ELSE IF proc[p].sigs.disp[R.sig] = "DFL" THEN SwitchAt(X, p, "user")
      ELSE Becomes(Put(T, p, SetAt(T.proc[p], "user"))) /\ UNCHANGED curproc
  <2>1. K = [Kernel EXCEPT !.proc[p].ret = "none", !.proc[p].why = "none"]
    BY <1>0, StartIs, Zenon DEF Put, SetRet, SetWhy
  <2> HIDE DEF K
  <2>2. QED
    BY <2>1, Zenon DEF UserRet, Put, SetAt
<1>2. /\ proc[p] \in ProcRec /\ Calm(p, proc[p]) /\ proc[p].wchan = NoChan /\ proc[p].inmem
      /\ proc[p].stat = "SRUN" /\ p \notin callout /\ NoChan # proc0 /\ NoProc \notin AnyProc
  BY <1>0, StartIs, KernelIs, ProcAssumption DEF Fine, CoOK, Timed, Ident, AnyProc
<1>3. /\ V \in ProcRec /\ SameShared(proc[p], V) /\ V.inmem = proc[p].inmem /\ V.ret = "none"
      /\ V.timeout = proc[p].timeout /\ V.pptr = proc[p].pptr
  BY <1>2, SetRetIs DEF SetOne, Rets
<1> HIDE DEF V
<1>4. /\ A.proc[p] = V /\ Ready(A, at, p) /\ A.panicked = Kernel.panicked
      /\ \A q \in AnyProc \ {p} : A.proc[q] = proc[q]
  BY <1>0, <1>3, StartIs, SelfPut DEF SameShared
<1> HIDE DEF A
<1>5. /\ W \in ProcRec /\ W.why = "none" /\ SameOwn(V, W) /\ W.stat = V.stat /\ W.wchan = V.wchan
  BY <1>3, <1>4, SetWhyIs DEF Whys
<1> HIDE DEF W
<1>6. /\ K.proc[p] = W /\ Ready(K, at, p) /\ K.panicked = A.panicked
      /\ \A q \in AnyProc \ {p} : K.proc[q] = A.proc[q]
  BY <1>0, <1>4, <1>5, SelfPut DEF SameOwn
<1> HIDE DEF K
<1>7. AtEase(K.proc[p], p) /\ K.proc[p].stat = "SRUN" /\ ~K.panicked
  BY ZenonT(60), <1>0, <1>2, <1>3, <1>4, <1>5, <1>6, StartIs DEF AtEase, SameShared, SameOwn, Calm, TimerOK
<1>8. Others(K, at, p, callout, outp)
  BY <1>0, <1>3, <1>4, <1>5, <1>6, StartIs, OthersSelf DEF SameOwn
<1>9. StopKept(Kernel, K, NoProc)
  BY <1>0, <1>2, <1>4, <1>6, StartIs DEF StopKept
<1>10. /\ R.stopped \in BOOLEAN
       /\ R.stopped =>
            /\ Stepped(K, L, at, NoProc) /\ (~L.panicked => Ready(L, at, NoProc))
            /\ ~L.panicked
            /\ L.proc[p].stat = "SSTOP"
       /\ ~R.stopped => \E S \in SUBSET K.proc[p].siglist : Listed(K, L, p, S)
  BY <1>2, <1>6, <1>7, CURSIGDoes DEF AtEase, Apart
<1> HIDE DEF R, L
<1>11. CASE R.stopped
  <2>1. /\ Gentle(K, L) /\ L \in KernelRec /\ StopKept(K, L, NoProc) /\ Ready(L, at, NoProc) /\ ~L.panicked
    BY <1>10, <1>11 DEF Stepped
  <2>2. Others(L, at, p, callout', outp')
    BY <1>0, <1>8, <2>1, OthersGentle
  <2>3. StopKept(Kernel, L, NoProc)
    BY <1>9, <2>1 DEF StopKept
  <2>4. L.proc[p] \in ProcRec /\ AtEase(L.proc[p], p)
    BY <1>0, <1>7, <2>1, KernelIs DEF Gentle, Light, SameOwn, AtEase
  <2> DEFINE P == SetAt(L.proc[p], "sigstop")
  <2>5. /\ SameShared(L.proc[p], P) /\ P.at = "sigstop" /\ P.timeout = L.proc[p].timeout
        /\ P.ret = L.proc[p].ret /\ P.pptr = L.proc[p].pptr
    BY <2>4, SetAtIs DEF SetOne, Site
  <2> HIDE DEF P
  <2>6. Calm(p, P)
    BY <1>2, <2>4, <2>5 DEF Calm, TimerOK, SignalOK, SameShared, AtEase
  <2>7. WaitOK(L.proc[p], "sigstop")
    BY <1>10, <1>11, <2>4 DEF WaitOK, AtEase
  <2>8. /\ callout' \subseteq Proc /\ outp' \in Proc \cup {NoProc} /\ "sigstop" \in Site
        /\ p \notin callout'
    BY <1>0, <1>2, <1>8 DEF Others, Site
  <2>9. SwitchAt(L, p, "sigstop")
    BY <1>1, <1>11
  <2>10. QED
    BY <1>0, <2>1, <2>2, <2>3, <2>6, <2>7, <2>8, <2>9, StoppedStep DEF P
<1>12. ASSUME ~R.stopped
       PROVE  StepOK(NoProc)
  <2>1. PICK S \in SUBSET K.proc[p].siglist : Listed(K, L, p, S)
    BY <1>10, <1>12
  <2>2. Ready(L, at, p)
    BY <1>0, <1>6, <2>1, ListedDoes
  <2>3. Others(L, at, p, callout, outp)
    BY <1>8, <2>1, OthersSelf DEF Listed, SameOwn
  <2>4. /\ L \in KernelRec /\ ~L.panicked /\ StopKept(Kernel, L, NoProc)
        /\ AtEase(L.proc[p], p) /\ L.proc[p].stat = "SRUN"
    BY <1>0, <1>7, <1>9, <2>1 DEF Listed, StopKept, SameOwn, AtEase
  <2>5. CASE R.sig = 0
    <3>1. Becomes(Put(L, p, SetAt(L.proc[p], "user"))) /\ UNCHANGED <<curproc, callout, outp>>
      BY <1>0, <1>1, <1>12, <2>5
    <3>2. QED
      BY <1>0, <1>2, <2>2, <2>3, <2>4, <3>1, GoesOnStep
  <2>6. CASE R.sig # 0 /\ proc[p].sigs.disp[R.sig] = "DFL"
    <3>1. SwitchAt(X, p, "user")
      BY <1>1, <1>12, <2>6
    <3>2. /\ X \in KernelRec /\ ~X.panicked /\ StopKept(L, X, NoProc) /\ Ready(X, at, NoProc)
          /\ Others(X, at, p, callout, outp) /\ SameOwn(L.proc[p], X.proc[p])
          /\ X.proc[p].wchan = NoChan /\ X.proc[p].why = L.proc[p].why
      BY <2>2, <2>3, <2>4, ExitDoes DEF AtEase
    <3> HIDE DEF X
    <3>3. X.proc[p] \in ProcRec /\ AtEase(X.proc[p], p)
      BY <1>0, <2>4, <3>2, KernelIs DEF AtEase, SameOwn
    <3> DEFINE P == SetAt(X.proc[p], "user")
    <3>4. /\ SameShared(X.proc[p], P) /\ P.at = "user" /\ P.timeout = X.proc[p].timeout
          /\ P.ret = X.proc[p].ret /\ P.pptr = X.proc[p].pptr
      BY <3>3, SetAtIs DEF SetOne, Site
    <3> HIDE DEF P
    <3>5. Calm(p, P)
      BY <1>2, <3>3, <3>4 DEF Calm, TimerOK, SignalOK, SameShared, AtEase
    <3>6. WaitOK(X.proc[p], "user")
      BY <1>0, <1>2, <3>2 DEF WaitOK, Ready, Orderly
    <3>7. StopKept(Kernel, X, NoProc)
      BY <2>4, <3>2 DEF StopKept
    <3>8. callout' \subseteq Proc /\ outp' \in Proc \cup {NoProc} /\ "user" \in Site /\ p \notin callout'
      BY <1>0, <1>2, <1>8 DEF Others, Site
    <3>9. Others(X, at, p, callout', outp')
      BY <1>0, <3>2
    <3>10. QED
      BY <1>0, <3>1, <3>2, <3>5, <3>6, <3>7, <3>8, <3>9, StoppedStep DEF P
  <2>7. CASE R.sig # 0 /\ proc[p].sigs.disp[R.sig] # "DFL"
    <3>1. Becomes(Put(T, p, SetAt(T.proc[p], "user"))) /\ UNCHANGED <<curproc, callout, outp>>
      BY <1>0, <1>1, <1>12, <2>7
    <3>2. Listed(L, T, p, L.proc[p].siglist \ {R.sig})
      BY <1>0, <2>4, TakeIs
    <3> HIDE DEF T
    <3>3. Ready(T, at, p)
      BY <1>0, <2>2, <3>2, ListedDoes
    <3>4. Others(T, at, p, callout, outp)
      BY <2>3, <3>2, OthersSelf DEF Listed, SameOwn
    <3>5. ~T.panicked /\ StopKept(Kernel, T, NoProc) /\ AtEase(T.proc[p], p)
      BY <1>0, <2>4, <3>2 DEF Listed, StopKept, SameOwn, AtEase
    <3>6. QED
      BY <1>0, <1>2, <3>1, <3>3, <3>4, <3>5, GoesOnStep
  <2>8. QED
    BY <2>5, <2>6, <2>7
<1>13. QED
  BY SMTT(60), <1>10, <1>11, <1>12

-----------------------------------------------------------------------------
(* The theorems.                                                            *)

\* What StoppedStays says of one step.
StopStep ==
  \A p \in Proc :
    proc[p].stat = "SSTOP" /\ proc'[p].stat # "SSTOP" =>
      PsignalCall(p, SIGCONT) \/ PsignalCall(p, SIGKILL)

\* At the start everything is in order.
LEMMA InitInv ==
  ASSUME Init
  PROVE  Inv /\ ~panicked
<1>0. /\ Proc \subseteq AnyProc /\ proc0 \in AnyProc /\ NoProc \notin AnyProc /\ proc0 \notin Proc
      /\ NoChan # proc0 /\ InitParent \in [Proc -> Proc \cup {NoProc}]
      /\ \A p \in Proc : InitParent[p] # p
  BY ProcAssumption DEF AnyProc, Ident
<1>1. NoSetup \in SigSetup
  BY DEF NoSetup, SigSetup
<1>2. \A q \in AnyProc :
        /\ proc[q] = NewProc(q, NoSetup) /\ proc[q] \in ProcRec
        /\ proc[q].stat = "SRUN" /\ proc[q].wchan = NoChan /\ proc[q].inmem /\ ~proc[q].timeout
        /\ proc[q].ret = "none" /\ proc[q].why = "none" /\ proc[q].at \in {"user", "scan"}
        /\ q \in Proc => proc[q].pptr = InitParent[q]
  <2> TAKE q \in AnyProc
  <2>1. proc[q] = NewProc(q, NoSetup)
    BY DEF Init
  <2>2. (IF q = proc0 THEN NoProc ELSE InitParent[q]) \in Proc \cup {NoProc}
    BY <1>0 DEF AnyProc
  <2>3. QED
    BY <1>0, <1>1, <2>1, <2>2 DEF NewProc, ProcRec, Stat, Site, Rets, Whys
<1>3. Kernel \in KernelRec
  BY <1>2 DEF Init, Kernel, KernelRec
<1>4. /\ Kernel.proc = proc /\ Kernel.runq = AnyProc /\ \A b \in Bucket : Kernel.slpque[b] = {}
  BY DEF Init, Kernel
<1>5. Queued(Kernel) /\ RunExact(Kernel, NoProc)
  BY <1>0, <1>2, <1>4 DEF Queued, RunExact
<1>6. \A q \in AnyProc : WaitOK(proc[q], proc[q].at) /\ WaitOK(proc[q], AtOf(Kernel)[q])
  BY <1>2, <1>4 DEF WaitOK
<1>7. Ready(Kernel, AtOf(Kernel), NoProc)
  BY <1>0, <1>3, <1>4, <1>5, <1>6 DEF Ready, Orderly
<1>8. \A q \in Proc : Calm(q, proc[q])
  BY <1>0, <1>2 DEF Calm, TimerOK, SignalOK
<1>9. Fine(Kernel, NoProc, {}, NoProc)
  BY <1>0, <1>4, <1>6, <1>7, <1>8 DEF Fine, Sound, CoOK, OutOK
<1>10. QED
  BY <1>3, <1>9 DEF Inv, Init

\* Every step keeps the invariant.
LEMMA NextInv ==
  ASSUME Inv, Next
  PROVE  Inv' /\ (SwapperApart => ~panicked') /\ StopStep
<1>0. Proc \subseteq AnyProc /\ NoProc \notin AnyProc
  BY ProcAssumption DEF AnyProc
<1>1. ASSUME StepOK(NoProc)
      PROVE  Inv' /\ (SwapperApart => ~panicked') /\ StopStep
  BY <1>0, <1>1 DEF StepOK, StopStep
<1>2. ASSUME NEW p \in Proc, ProcStep(p)
      PROVE  StepOK(NoProc)
  <2>1. ASSUME NEW call \in SleepCalls[p], Tsleep(p, call.chan, call.catch, call.timo)
        PROVE  StepOK(NoProc)
    BY <2>1, TsleepStep
  <2>2. ASSUME NEW g \in SigSetups[p], SetSignals(p, g)
        PROVE  StepOK(NoProc)
    BY <2>2, SetSignalsStep
  <2>3. QED
    BY <1>2, <2>1, <2>2, ResumeSleepStep, ResumeCursig1Step, ResumeCursig2Step, UserRetStep, PreemptStep
    DEF ProcStep
<1>3. ASSUME NEW p \in AnyProc, CpuSwitch(p)
      PROVE  StepOK(NoProc)
  BY <1>3, CpuSwitchStep
<1>4. ASSUME NEW c \in Chan, WakeupCall(c)
      PROVE  StepOK(NoProc)
  BY <1>4, WakeupStep DEF WakeupCall, Ident
<1>5. ASSUME NEW p \in Proc, NEW s \in Sent[p], PsignalCall(p, s)
      PROVE  Inv' /\ (SwapperApart => ~panicked') /\ StopStep
  <2>1. s \in Signal
    BY ProcAssumption
  <2>2. StepOK(p) /\ (s \notin {SIGCONT, SIGKILL} => StepOK(NoProc))
    BY <1>5, <2>1, PsignalStep
  <2>3. CASE s \notin {SIGCONT, SIGKILL}
    BY <1>1, <2>2, <2>3
  <2>4. CASE s \in {SIGCONT, SIGKILL}
    <3>1. PsignalCall(p, SIGCONT) \/ PsignalCall(p, SIGKILL)
      BY <1>5, <2>4
    <3>2. \A q \in Proc \ {p} : proc[q].stat = "SSTOP" => proc'[q].stat = "SSTOP"
      BY <1>0, <2>2 DEF StepOK
    <3>3. StopStep
      BY <3>1, <3>2 DEF StopStep
    <3>4. QED
      BY <2>2, <3>3 DEF StepOK
  <2>5. QED
    BY <2>3, <2>4
<1>6. ASSUME NEW p \in Proc, Endtsleep(p)
      PROVE  StepOK(NoProc)
  BY <1>6, EndtsleepStep
<1>7. ASSUME SwapperStep
      PROVE  StepOK(NoProc)
  <2>1. ASSUME NEW p \in Proc, Swapin(p)
        PROVE  StepOK(NoProc)
    BY <2>1, SwapinStep
  <2>2. ASSUME ScanNone
        PROVE  StepOK(NoProc)
    <3>1. "none" \in Site
      BY DEF Site
    <3>2. QED
      BY <2>2, <3>1, SwapperMoves DEF ScanNone, Running
  <2>3. ASSUME SchedulerLoop
        PROVE  StepOK(NoProc)
    <3>1. "scan" \in Site
      BY DEF Site
    <3>2. QED
      BY <2>3, <3>1, SwapperMoves DEF SchedulerLoop, Running
  <2>4. QED
    BY <1>7, <2>1, <2>2, <2>3, SchedulerSleepStep DEF SwapperStep
<1>8. ASSUME VmMeter
      PROVE  StepOK(NoProc)
  <2>1. proc0 \in Ident
    BY DEF Ident, AnyProc
  <2>2. QED
    BY <1>8, <2>1, WakeupStep DEF VmMeter
<1>9. ASSUME NEW p \in Proc, SwapoutBegin(p) \/ SwapoutEnd(p)
      PROVE  StepOK(NoProc)
  BY <1>9, SwapoutBeginStep, SwapoutEndStep
<1>10. QED
  BY <1>1, <1>2, <1>3, <1>4, <1>5, <1>6, <1>7, <1>8, <1>9 DEF Next

\* A step in which nothing changes.
LEMMA StutterInv ==
  ASSUME Inv, UNCHANGED vars
  PROVE  Inv' /\ panicked' = panicked
<1>1. Kernel' = Kernel
  BY DEF vars, Kernel
<1>2. QED
  BY <1>1 DEF Inv, vars

\* The invariant holds in every state.
THEOREM Invariance == Spec => []Inv
<1>1. Init => Inv
  BY InitInv
<1>2. Inv /\ [Next]_vars => Inv'
  BY NextInv, StutterInv
<1>3. QED
  BY <1>1, <1>2, PTL DEF Spec

\* Of a state that did not panic.
LEMMA InvParts ==
  ASSUME Inv, ~panicked
  PROVE  /\ Queued(Kernel) /\ RunExact(Kernel, curproc)
         /\ \A q \in AnyProc : WaitOK(proc[q], proc[q].at)
         /\ \A q \in Proc : Calm(q, proc[q]) /\ (q \in callout => Timed(proc[q]))
         /\ Kernel.proc = proc /\ Kernel.slpque = slpque /\ Kernel.runq = runq
         /\ Kernel \in KernelRec
  BY StartIs DEF Fine, CoOK, Sound, Ready, Orderly

\* A process is on the sleep queue of its p_wchan and on no other, and one in SSLEEP is on
\* one: tsleep(), unsleep(), wakeup(), endtsleep() and the stops and continues of psignal()
\* and issignal(), interleaved in any way, never lose a sleeper.
THEOREM SleepersQueuedHolds == Spec => []SleepersQueued
<1>1. Inv => SleepersQueued
  <2> SUFFICES ASSUME Inv, ~panicked, NEW p \in AnyProc
               PROVE  /\ proc[p].stat = "SSLEEP" => proc[p].wchan # NoChan
                      /\ \A b \in Bucket :
                           p \in slpque[b] <=> proc[p].wchan # NoChan /\ b = LOOKUP[proc[p].wchan]
    BY DEF SleepersQueued
  <2>1. QED
    BY InvParts DEF Queued, WaitOK
<1>2. QED
  BY <1>1, Invariance, PTL

\* endtsleep() ends only the sleep it was started for, and a sleep that it ended is
\* reported as EWOULDBLOCK or, if a signal came too, EINTR, never as a wakeup.
THEOREM TimeoutsKeptHolds == Spec => []TimeoutsKept
<1>1. Inv => TimerOwned
  BY InvParts DEF TimerOwned, Calm, TimerOK, Timed
<1>2. Inv => TimeoutReported
  <2> SUFFICES ASSUME Inv, ~panicked, NEW p \in Proc
               PROVE  /\ proc[p].ret = "EWOULDBLOCK" => proc[p].why = "timeout"
                      /\ proc[p].why = "timeout" => proc[p].ret # "OK"
    BY DEF TimeoutReported
  <2>1. TimerOK(proc[p])
    BY InvParts DEF Calm
  <2>2. proc[p].timeout => proc[p].ret = "none"
    BY <2>1 DEF TimerOK
  <2>3. QED
    BY <2>1, <2>2 DEF TimerOK
<1>3. QED
  BY <1>1, <1>2, Invariance, PTL DEF TimeoutsKept

\* A process that looked at its signals in tsleep() and sleeps has none pending that should
\* end the sleep: psignal() takes it off the queue even while it is stopped.
THEOREM SignalEndsSleepHolds == Spec => []SignalEndsSleep
<1>1. Inv => SignalEndsSleep
  <2> SUFFICES ASSUME Inv, ~panicked, NEW p \in Proc,
                      proc[p].stat = "SSLEEP", proc[p].at = "sleep", proc[p].sintr
               PROVE  Effective(proc[p]) = {}
    BY DEF SignalEndsSleep
  <2>1. p \in AnyProc
    BY DEF AnyProc
  <2>2. SignalOK(proc[p]) /\ WaitOK(proc[p], proc[p].at)
    BY <2>1, InvParts DEF Calm
  <2>3. QED
    BY <2>2 DEF SignalOK, WaitOK
<1>2. QED
  BY <1>1, Invariance, PTL

\* The type of the process table and of the queues, panic or not.
THEOREM TypeCorrect == Spec => []TypeOK
<1>1. Inv => TypeOK
  <2> SUFFICES ASSUME Inv
               PROVE  TypeOK
    OBVIOUS
  <2>1. Kernel \in KernelRec
    BY DEF Inv
  <2>2. /\ proc \in [AnyProc -> ProcRec] /\ slpque \in [Bucket -> SUBSET AnyProc]
        /\ runq \in SUBSET AnyProc /\ panicked \in BOOLEAN
    BY <2>1 DEF Kernel, KernelRec
  <2>3. QED
    BY <2>2 DEF Inv, TypeOK, ProcRec, Rets, Whys
<1>2. QED
  BY <1>1, Invariance, PTL

\* If no sleep identifier of a user process shares its queue with &proc0, the run queues
\* hold exactly the runnable processes in memory and no consistency check of tsleep(),
\* wakeup(), setrunnable(), setrunqueue() and remrunqueue() ever fires.
THEOREM QueuesSoundHolds ==
  ASSUME SwapperApart
  PROVE  Spec => []QueuesSound
<1>1. Init => Inv /\ ~panicked
  BY InitInv
<1>2. (Inv /\ ~panicked) /\ [Next]_vars => (Inv /\ ~panicked)'
  BY NextInv, StutterInv
<1>3. Inv /\ ~panicked => RunnableQueued
  <2> SUFFICES ASSUME Inv, ~panicked
               PROVE  runq = {p \in AnyProc : /\ proc[p].stat = "SRUN"
                                              /\ proc[p].inmem
                                              /\ p # curproc}
    BY DEF RunnableQueued
  <2>1. runq \subseteq AnyProc
    BY InvParts, KernelIs
  <2>2. \A p \in AnyProc : p \in runq <=> proc[p].stat = "SRUN" /\ proc[p].inmem /\ p # curproc
    BY InvParts DEF RunExact
  <2>3. QED
    BY <2>1, <2>2
<1>4. QED
  BY <1>1, <1>2, <1>3, TypeCorrect, PTL DEF Spec, QueuesSound, NoPanic

\* Only a SIGCONT or a SIGKILL sent to a stopped process sets it going: no wakeup(),
\* timeout, other signal or step of another process does, not even one that panics.
THEOREM StoppedStaysHolds == Spec => StoppedStays
<1>1. Inv /\ [Next]_vars => [StopStep]_vars
  BY NextInv
<1>2. [StopStep]_vars => [\A p \in Proc :
                            proc[p].stat = "SSTOP" /\ proc'[p].stat # "SSTOP" =>
                              PsignalCall(p, SIGCONT) \/ PsignalCall(p, SIGKILL)]_vars
  BY DEF StopStep
<1>3. QED
  BY <1>1, <1>2, Invariance, PTL DEF Spec, StoppedStays
=============================================================================
