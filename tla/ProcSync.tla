------------------------------ MODULE ProcSync ------------------------------
(***************************************************************************)
(* Sleep, wakeup, signals and swapping of processes: tsleep(), wakeup(),   *)
(* endtsleep() and setrunnable() of sys/kern/kern_synch.c, psignal(),      *)
(* issignal() and postsig() of sys/kern/kern_sig.c, and the swapper of     *)
(* sys/vm/vm_glue.c.                                                       *)
(*                                                                         *)
(* The kernel gives up the processor only in mi_switch(), and the sleep    *)
(* queues are handled at splhigh(): a process takes one step from one      *)
(* mi_switch() to the next, and interrupts (a timer, a device's wakeup(),  *)
(* a signal) come between steps.  The operators map a kernel state, a      *)
(* record of proc, slpque, runq and panicked, to the next one.             *)
(*                                                                         *)
(* No process is traced (P_TRACED), holds its parent in vfork()            *)
(* (P_PPWAIT), has an orphaned process group, or is init, and a handler    *)
(* runs to its end at once.                                                *)
(***************************************************************************)
EXTENDS Integers, FiniteSets, FiniteSetsExt

CONSTANTS
  Proc,          \* the user processes
  proc0,         \* the swapper
  NoProc,        \* no process: curproc when idle, and init as a parent
  Chan,          \* the sleep identifiers other than processes
  NoChan,        \* p_wchan of a process that does not wait
  LOOKUP,        \* the hash of a sleep identifier: its sleep queue
  InitParent,    \* InitParent[p]: p_pptr of p at the start
  SigSetups,     \* SigSetups[p]: the dispositions and masks p gives itself
  SleepCalls,    \* SleepCalls[p]: the arguments of the calls of tsleep() p makes
  Sent,          \* Sent[p]: the signals that others send to p
  Swappable      \* the processes the pageout daemon may swap out

SIGKILL == 9
SIGTERM == 15
SIGTSTP == 18
SIGCONT == 19
SIGCHLD == 20
Signal == {SIGKILL, SIGTERM, SIGTSTP, SIGCONT, SIGCHLD}

\* sigprop[]: the signals that stop, and those whose default is to be ignored.
StopSignals   == {SIGTSTP}
IgnoreSignals == {SIGCONT, SIGCHLD}

\* The signal state of a process: the actions of sigaction() and p_sigmask.
SigSetup == [disp : [Signal -> {"DFL", "CATCH", "IGN"}], mask : SUBSET (Signal \ {SIGKILL})]
NoSetup  == [disp |-> [s \in Signal |-> "DFL"], mask |-> {}]

AnyProc == Proc \cup {proc0}
Ident   == Chan \cup AnyProc

ASSUME ProcAssumption ==
  /\ proc0 \notin Proc /\ NoProc \notin AnyProc
  /\ NoChan \notin Ident
  /\ Chan \cap AnyProc = {}
  /\ DOMAIN LOOKUP = Ident
  /\ InitParent \in [Proc -> Proc \cup {NoProc}] /\ \A p \in Proc : InitParent[p] # p
  /\ \A p \in Proc : /\ SigSetups[p] # {} /\ SigSetups[p] \subseteq SigSetup
                     /\ \A g \in SigSetups[p] : g.disp[SIGKILL] = "DFL"
  /\ SleepCalls \in [Proc -> SUBSET [chan : Chan \cup Proc, catch : BOOLEAN, timo : BOOLEAN]]
  /\ Sent \in [Proc -> SUBSET Signal]
  /\ Swappable \subseteq Proc

VARIABLES
  proc,          \* proc[p]: the struct proc, and where p is in the kernel
  slpque,        \* slpque[b]: the processes on sleep queue b
  runq,          \* the processes on the run queues
  curproc,       \* the running process
  callout,       \* the processes for which an endtsleep() is pending
  outp,          \* the process swapout() is working on
  panicked       \* panic() was called

vars == <<proc, slpque, runq, curproc, callout, outp, panicked>>

Bucket == {LOOKUP[c] : c \in Ident}

Stat == {"SRUN", "SSLEEP", "SSTOP", "SZOMB"}

\* Where a process is: in user mode or between two calls of interest, or off
\* the processor in tsleep(), in the first or second CURSIG() of tsleep(), or in
\* the CURSIG() on the way to user mode.  The swapper looks for a process to
\* bring in ("scan"), has found none ("none") or sleeps.
Site == {"user", "sleep", "cursig1", "cursig2", "sigstop", "scan", "none"}

NewProc(p, g) ==
  [stat |-> "SRUN", wchan |-> NoChan, sintr |-> FALSE, timeout |-> FALSE,
   inmem |-> TRUE, siglist |-> {}, sigs |-> g,
   pptr |-> IF p = proc0 THEN NoProc ELSE InitParent[p],
   at |-> IF p = proc0 THEN "scan" ELSE "user",
   catch |-> FALSE, timo |-> FALSE,
   ret |-> "none",    \* what tsleep() returned last
   why |-> "none"]    \* what took the process off its sleep queue

Init ==
  /\ proc = [p \in AnyProc |-> NewProc(p, NoSetup)]
  /\ slpque = [b \in Bucket |-> {}]
  /\ runq = AnyProc
  /\ curproc = NoProc
  /\ callout = {}
  /\ outp = NoProc
  /\ panicked = FALSE

-----------------------------------------------------------------------------
(* Sleep queues and run queue.                                              *)

Kernel == [proc |-> proc, slpque |-> slpque, runq |-> runq, panicked |-> panicked]

\* A process that must not be on a run queue: the tests of the DIAGNOSTIC kernel.
NotForRunQueue(P) == P.wchan # NoChan \/ P.stat # "SRUN"

setrunqueue(K, p) ==
  [K EXCEPT !.runq = @ \cup {p},
            !.panicked = @ \/ p \in K.runq \/ NotForRunQueue(K.proc[p])]

remrunqueue(K, p) ==
  [K EXCEPT !.runq = @ \ {p}, !.panicked = @ \/ p \notin K.runq]

\* The head of tsleep(): the process joins the sleep queue of its identifier.
JoinQueue(K, p, c) ==
  [K EXCEPT !.proc[p].wchan = c,
            !.slpque[LOOKUP[c]] = @ \cup {p},
            !.panicked = @ \/ p \in K.runq \/ K.proc[p].stat # "SRUN"]

unsleep(K, p, why) ==
  LET w == K.proc[p].wchan
  IN  IF w = NoChan THEN K
      ELSE [K EXCEPT !.slpque[LOOKUP[w]] = @ \ {p},
                     !.proc[p].wchan = NoChan, !.proc[p].why = why]

\* One pass over the sleep queue of an identifier.
WakeQueue(K, c) ==
  LET queue  == K.slpque[LOOKUP[c]]
      woken  == {p \in queue : K.proc[p].wchan = c}
      toRun  == {p \in woken : K.proc[p].stat = "SSLEEP"}
  IN  [proc |-> [p \in AnyProc |->
                   IF p \notin woken THEN K.proc[p]
                   ELSE [K.proc[p] EXCEPT !.wchan = NoChan, !.why = "wakeup",
                           !.stat = IF p \in toRun THEN "SRUN" ELSE @]],
       slpque |-> [K.slpque EXCEPT ![LOOKUP[c]] = @ \ woken],
       runq |-> K.runq \cup {p \in toRun : K.proc[p].inmem},
       panicked |-> \/ K.panicked
                    \/ \E p \in queue : \/ p \in K.runq
                                        \/ K.proc[p].stat \notin {"SSLEEP", "SSTOP"}]

\* wakeup(): a swapped-out process that becomes runnable wakes the swapper.
wakeup(K, c) ==
  LET W == WakeQueue(K, c)
  IN  IF \E p \in AnyProc : /\ W.proc[p].stat # K.proc[p].stat
                            /\ ~K.proc[p].inmem
      THEN WakeQueue(W, proc0)
      ELSE W

setrunnable(K, p, why) ==
  LET U == unsleep(K, p, why)
      R == [U EXCEPT !.proc[p].stat = "SRUN"]
  IN  IF K.proc[p].stat \notin {"SSLEEP", "SSTOP"} THEN [K EXCEPT !.panicked = TRUE]
      ELSE IF K.proc[p].inmem THEN setrunqueue(R, p)
      ELSE wakeup(R, proc0)

-----------------------------------------------------------------------------
(* Signals.                                                                 *)

\* Here P is the struct proc of the process concerned.  The actions whose
\* signals are forgotten: p_sigignore.
Ignores(g, s) == \/ g.disp[s] = "IGN"
                 \/ g.disp[s] = "DFL" /\ s \in IgnoreSignals

Ignored(P, s) == s # SIGCONT /\ Ignores(P.sigs, s)

Action(P, s) == IF s \in P.sigs.mask THEN "HOLD"
                ELSE IF P.sigs.disp[s] = "CATCH" THEN "CATCH" ELSE "DFL"

\* SIGCONT cancels the pending stop signals, a stop signal a pending SIGCONT.
Post(K, p, s) ==
  [K EXCEPT !.proc[p].siglist =
     {s} \cup (@ \ IF s = SIGCONT THEN StopSignals
                   ELSE IF s \in StopSignals THEN {SIGCONT} ELSE {})]

Take(K, p, s) == [K EXCEPT !.proc[p].siglist = @ \ {s}]

\* Deliberate faults: SIGCONT always puts a stopped process back to sleep; a
\* signal for a stopped process leaves it on its sleep queue.
SignalStoppedSleeps(K, p, s) ==
  IF s = SIGCONT
  THEN [Take(K, p, s) EXCEPT !.proc[p].stat = "SSLEEP"]
  ELSE IF s = SIGKILL THEN setrunnable(K, p, "signal") ELSE unsleep(K, p, "signal")
SignalStoppedDeaf(K, p, s) ==
  LET C == IF Action(K.proc[p], s) = "DFL" THEN Take(K, p, s) ELSE K
  IN  IF s = SIGKILL THEN setrunnable(K, p, "signal")
      ELSE IF s = SIGCONT
           THEN IF Action(K.proc[p], s) = "CATCH" \/ K.proc[p].wchan = NoChan
                THEN setrunnable(C, p, "signal")
                ELSE [C EXCEPT !.proc[p].stat = "SSLEEP"]
      ELSE IF s \in StopSignals THEN Take(K, p, s)
      ELSE K

\* psignal() on a stopped process.
SignalStopped(K, p, s) ==
  LET C == IF Action(K.proc[p], s) = "DFL" THEN Take(K, p, s) ELSE K
  IN  IF s = SIGKILL THEN setrunnable(K, p, "signal")
      ELSE IF s = SIGCONT
           THEN IF Action(K.proc[p], s) = "CATCH" \/ K.proc[p].wchan = NoChan
                THEN setrunnable(C, p, "signal")
                ELSE [C EXCEPT !.proc[p].stat = "SSLEEP"]
      ELSE IF s \in StopSignals THEN Take(K, p, s)
      ELSE IF K.proc[p].sintr THEN unsleep(K, p, "signal")
      ELSE K

\* A stop signal with default action stops an interruptible sleeper at once.
StopsSleeper(P, s) ==
  /\ s \in StopSignals /\ Action(P, s) = "DFL" /\ ~Ignored(P, s)
  /\ P.stat = "SSLEEP" /\ P.sintr

\* psignal(), apart from the case StopsSleeper.
PsignalRest(K, p, s) ==
  LET P == K.proc[p]
      a == Action(P, s)
      N == Post(K, p, s)
  IN  IF Ignored(P, s) THEN K
      ELSE IF a = "HOLD" /\ (s # SIGCONT \/ P.stat # "SSTOP") THEN N
      ELSE IF P.stat = "SSTOP" THEN SignalStopped(N, p, s)
      ELSE IF P.stat # "SSLEEP" \/ ~P.sintr THEN N
      ELSE IF s = SIGCONT /\ a = "DFL" THEN Take(N, p, s)
      ELSE setrunnable(N, p, "signal")

\* SIGCHLD to the parent of p; init is outside the model.
SignalParent(K, p) ==
  LET pp == K.proc[p].pptr
  IN  IF pp = NoProc THEN K ELSE PsignalRest(K, pp, SIGCHLD)

WakeParent(K, p) ==
  LET pp == K.proc[p].pptr IN IF pp = NoProc THEN K ELSE wakeup(K, pp)

\* The parent is told of the stop, then stop() stops the process.
NotifyAndStop(K, p) ==
  LET N == SignalParent(K, p)
  IN  WakeParent([N EXCEPT !.proc[p].stat = "SSTOP"], p)

psignal(K, p, s) ==
  IF StopsSleeper(K.proc[p], s) THEN NotifyAndStop(Take(Post(K, p, s), p, s), p)
  ELSE PsignalRest(K, p, s)

\* The pending signals that have an effect: those caught, and those whose default
\* is to stop or to terminate.
Effective(P) ==
  {s \in P.siglist \ P.sigs.mask :
     \/ P.sigs.disp[s] = "CATCH"
     \/ P.sigs.disp[s] = "DFL" /\ s \notin IgnoreSignals}

\* CURSIG(): the lowest pending signal decides; the ones below it that have no
\* effect are dropped.  A stop signal with default action stops the process here,
\* and the search goes on when it runs again.
CURSIG(K, p) ==
  LET P       == K.proc[p]
      pending == P.siglist \ P.sigs.mask
      eff     == Effective(P)
      s       == Min(eff)
      dropped == IF eff = {} THEN pending ELSE {t \in pending : t < s}
      D       == [K EXCEPT !.proc[p].siglist = @ \ dropped]
  IN  IF eff = {} THEN [K |-> D, sig |-> 0, stopped |-> FALSE]
      ELSE IF s \in StopSignals /\ P.sigs.disp[s] = "DFL"
      THEN [K |-> NotifyAndStop(Take(D, p, s), p), sig |-> 0, stopped |-> TRUE]
      ELSE [K |-> D, sig |-> s, stopped |-> FALSE]

-----------------------------------------------------------------------------
(* Steps.  Each is a stretch of code that ends where the processor is given *)
(* up or the call of interest returns.                                      *)

Becomes(K) ==
  /\ proc' = K.proc
  /\ slpque' = K.slpque
  /\ runq' = K.runq
  /\ panicked' = K.panicked

\* mi_switch() leaves the process at the given site.
SwitchAt(K, p, site) ==
  /\ Becomes([K EXCEPT !.proc[p].at = site])
  /\ curproc' = NoProc

Returns(K, p, ret) ==
  /\ Becomes([K EXCEPT !.proc[p].at = "user", !.proc[p].ret = ret])
  /\ UNCHANGED curproc

Running(p) == ~panicked /\ curproc = p

\* The second CURSIG() of tsleep() and its return.
TsleepSecond(K, p) ==
  LET R == CURSIG(K, p)
  IN  IF R.stopped THEN SwitchAt(R.K, p, "cursig2")
      ELSE Returns(R.K, p, IF R.sig # 0 THEN "EINTR" ELSE "OK")

\* Deliberate fault: the untimeout() is missing.
TsleepResumeTimed(K, p, sig, catch) ==
  LET timedout == K.proc[p].timeout
      B == [K EXCEPT !.proc[p].sintr = FALSE, !.proc[p].timeout = FALSE]
  IN  /\ callout' = callout
      /\ IF timedout /\ sig = 0 THEN Returns(B, p, "EWOULDBLOCK")
         ELSE IF catch /\ sig # 0 THEN Returns(B, p, "EINTR")
         ELSE IF catch THEN TsleepSecond(B, p)
         ELSE Returns(B, p, "OK")
\* tsleep() from the label "resume".
TsleepResume(K, p, sig, catch) ==
  LET timedout == K.proc[p].timeout
      A == [K EXCEPT !.proc[p].sintr = FALSE]
      B == [A EXCEPT !.proc[p].timeout = FALSE]
  IN  /\ callout' = IF timedout THEN callout ELSE callout \ {p}
      /\ IF timedout /\ sig = 0 THEN Returns(B, p, "EWOULDBLOCK")
         ELSE IF catch /\ sig # 0 THEN Returns(B, p, "EINTR")
         ELSE IF catch THEN TsleepSecond(B, p)
         ELSE Returns(B, p, "OK")

\* tsleep() from its first CURSIG(), which may stop the process, on.
TsleepFirst(K, p, co) ==
  LET R == CURSIG(K, p)
      U == unsleep(R.K, p, "signal")
  IN  IF R.stopped THEN SwitchAt(R.K, p, "cursig1") /\ callout' = co
      ELSE IF R.sig # 0
      THEN TsleepResume([U EXCEPT !.proc[p].stat = "SRUN"], p, R.sig, TRUE)
      ELSE IF R.K.proc[p].wchan = NoChan THEN TsleepResume(R.K, p, 0, FALSE)
      ELSE SwitchAt([R.K EXCEPT !.proc[p].stat = "SSLEEP"], p, "sleep") /\ callout' = co

\* tsleep(c, catch ? PCATCH : 0, "", timo), also called by sleep().
Tsleep(p, c, catch, timo) ==
  /\ Running(p)
  /\ proc[p].at = "user"
  /\ LET E == [proc[p] EXCEPT !.sintr = catch, !.catch = catch, !.timo = timo,
                              !.ret = "none", !.why = "none"]
         Q == JoinQueue([Kernel EXCEPT !.proc[p] = E], p, c)
         co == IF timo THEN callout \cup {p} ELSE callout
     IN  IF catch THEN TsleepFirst(Q, p, co)
         ELSE /\ SwitchAt([Q EXCEPT !.proc[p].stat = "SSLEEP"], p, "sleep")
              /\ callout' = co
  /\ UNCHANGED outp

\* A process that runs again goes on where it gave up the processor.
ResumeSleep(p) ==
  /\ Running(p)
  /\ proc[p].at = "sleep"
  /\ TsleepResume(Kernel, p, 0, proc[p].catch)
  /\ UNCHANGED outp

ResumeCursig1(p) ==
  /\ Running(p)
  /\ proc[p].at = "cursig1"
  /\ TsleepFirst(Kernel, p, callout)
  /\ UNCHANGED outp

ResumeCursig2(p) ==
  /\ Running(p)
  /\ proc[p].at = "cursig2"
  /\ TsleepSecond(Kernel, p)
  /\ UNCHANGED <<callout, outp>>

\* exit1(): the children go to init, the parent is told.
Exit(K, p) ==
  LET Z == [K EXCEPT !.proc[p].siglist = {}, !.proc[p].stat = "SZOMB"]
      O == [Z EXCEPT !.proc = [q \in AnyProc |->
              IF @[q].pptr = p THEN [@[q] EXCEPT !.pptr = NoProc] ELSE @[q]]]
  IN  WakeParent(SignalParent(O, p), p)

\* One round of the signal loop of userret(): CURSIG(), then postsig().
UserRet(p) ==
  /\ Running(p)
  /\ proc[p].at \in {"user", "sigstop"}
  /\ LET R == CURSIG([Kernel EXCEPT !.proc[p].ret = "none", !.proc[p].why = "none"], p)
     IN  IF R.stopped THEN SwitchAt(R.K, p, "sigstop")
         ELSE IF R.sig = 0
         THEN Becomes([R.K EXCEPT !.proc[p].at = "user"]) /\ UNCHANGED curproc
         ELSE IF proc[p].sigs.disp[R.sig] = "DFL" THEN SwitchAt(Exit(R.K, p), p, "user")
         ELSE /\ Becomes([Take(R.K, p, R.sig) EXCEPT !.proc[p].at = "user"])
              /\ UNCHANGED curproc
  /\ UNCHANGED <<callout, outp>>

\* sigaction() and sigprocmask(): signals that are ignored from now on are no
\* longer pending.
SetSignals(p, g) ==
  /\ Running(p)
  /\ proc[p].at = "user"
  /\ proc' = [proc EXCEPT
       ![p].sigs = g,
       ![p].siglist = {s \in @ : g.disp[s] = proc[p].sigs.disp[s] \/ ~Ignores(g, s)}]
  /\ UNCHANGED <<slpque, runq, curproc, callout, outp, panicked>>

\* want_resched: a process about to return to user mode lets others run.
Preempt(p) ==
  /\ Running(p)
  /\ proc[p].at = "user"
  /\ SwitchAt(setrunqueue(Kernel, p), p, "user")
  /\ UNCHANGED <<callout, outp>>

\* cpu_switch() takes a process from the run queues.
CpuSwitch(p) ==
  /\ ~panicked
  /\ curproc = NoProc
  /\ p \in runq
  /\ curproc' = p
  /\ runq' = runq \ {p}
  /\ panicked' = NotForRunQueue(proc[p])
  /\ UNCHANGED <<proc, slpque, callout, outp>>

-----------------------------------------------------------------------------
(* Interrupts and calls by others.                                          *)

WakeupCall(c) ==
  /\ ~panicked
  /\ Becomes(wakeup(Kernel, c))
  /\ UNCHANGED <<curproc, callout, outp>>

PsignalCall(p, s) ==
  /\ ~panicked
  /\ proc[p].stat # "SZOMB"
  /\ Becomes(psignal(Kernel, p, s))
  /\ UNCHANGED <<curproc, callout, outp>>

\* Deliberate fault: the timeout sets a stopped process running.
EndtsleepRuns(p) ==
  /\ ~panicked
  /\ p \in callout
  /\ callout' = callout \ {p}
  /\ Becomes(IF proc[p].wchan = NoChan THEN Kernel
             ELSE [setrunnable(Kernel, p, "timeout") EXCEPT !.proc[p].timeout = TRUE])
  /\ UNCHANGED <<curproc, outp>>

\* The callout of tsleep() expires.
Endtsleep(p) ==
  /\ ~panicked
  /\ p \in callout
  /\ callout' = callout \ {p}
  /\ LET E == IF proc[p].stat = "SSLEEP" THEN setrunnable(Kernel, p, "timeout")
              ELSE unsleep(Kernel, p, "timeout")
     IN  Becomes(IF proc[p].wchan = NoChan THEN Kernel
                 ELSE [E EXCEPT !.proc[p].timeout = TRUE])
  /\ UNCHANGED <<curproc, outp>>

-----------------------------------------------------------------------------
(* The swapper and the pageout daemon.                                      *)

Swapped == {p \in Proc : proc[p].stat = "SRUN" /\ ~proc[p].inmem}

\* scheduler(): bring in a runnable process that is swapped out.
Swapin(p) ==
  /\ Running(proc0)
  /\ proc[proc0].at = "scan"
  /\ p \in Swapped
  /\ Becomes([setrunqueue(Kernel, p) EXCEPT !.proc[p].inmem = TRUE])
  /\ UNCHANGED <<curproc, callout, outp>>

\* The scan of allproc found none.  It runs at spl0: an interrupt may still come
\* between the scan and the tsleep() on &proc0.
ScanNone ==
  /\ Running(proc0)
  /\ proc[proc0].at = "scan"
  /\ Swapped = {}
  /\ proc' = [proc EXCEPT ![proc0].at = "none"]
  /\ UNCHANGED <<slpque, runq, curproc, callout, outp, panicked>>

SchedulerSleep ==
  /\ Running(proc0)
  /\ proc[proc0].at = "none"
  /\ SwitchAt([JoinQueue(Kernel, proc0, proc0) EXCEPT !.proc[proc0].stat = "SSLEEP"],
              proc0, "sleep")
  /\ UNCHANGED <<callout, outp>>

SchedulerLoop ==
  /\ Running(proc0)
  /\ proc[proc0].at = "sleep"
  /\ proc' = [proc EXCEPT ![proc0].at = "scan"]
  /\ UNCHANGED <<slpque, runq, curproc, callout, outp, panicked>>

\* Deliberate fault: vmmeter() does not wake the swapper.
VmMeterIdle ==
  /\ ~panicked
  /\ proc[proc0].stat = "SSLEEP"
  /\ UNCHANGED vars

\* vmmeter(): the clock wakes a swapper that has slept for long.
VmMeter ==
  /\ ~panicked
  /\ proc[proc0].stat = "SSLEEP"
  /\ Becomes(wakeup(Kernel, proc0))
  /\ UNCHANGED <<curproc, callout, outp>>

\* swapout_threads() of the pageout daemon picks a process; swapout() may block
\* while it unwires the u-area, and looks at p_stat again afterwards.
SwapoutBegin(p) ==
  /\ ~panicked
  /\ curproc = NoProc
  /\ outp = NoProc
  /\ proc[p].inmem
  /\ p \in Swappable
  /\ proc[p].stat # "SZOMB"
  /\ outp' = p
  /\ UNCHANGED <<proc, slpque, runq, curproc, callout, panicked>>

\* Deliberate fault: the process is assumed not to have been made runnable.
SwapoutEndStale(p) ==
  /\ ~panicked
  /\ curproc = NoProc
  /\ outp = p
  /\ outp' = NoProc
  /\ Becomes([Kernel EXCEPT !.proc[p].inmem = FALSE])
  /\ UNCHANGED <<curproc, callout>>

SwapoutEnd(p) ==
  /\ ~panicked
  /\ curproc = NoProc
  /\ outp = p
  /\ outp' = NoProc
  /\ LET K == IF proc[p].stat = "SRUN" THEN remrunqueue(Kernel, p) ELSE Kernel
     IN  Becomes([K EXCEPT !.proc[p].inmem = FALSE])
  /\ UNCHANGED <<curproc, callout>>

-----------------------------------------------------------------------------
SwapperStep == \/ \E p \in Proc : Swapin(p)
               \/ ScanNone
               \/ SchedulerSleep
               \/ SchedulerLoop

ProcStep(p) ==
  \/ \E call \in SleepCalls[p] : Tsleep(p, call.chan, call.catch, call.timo)
  \/ ResumeSleep(p)
  \/ ResumeCursig1(p)
  \/ ResumeCursig2(p)
  \/ UserRet(p)
  \/ \E g \in SigSetups[p] : SetSignals(p, g)
  \/ Preempt(p)

Next ==
  \/ \E p \in Proc : ProcStep(p)
  \/ \E p \in AnyProc : CpuSwitch(p)
  \/ \E c \in Chan : WakeupCall(c)
  \/ \E p \in Proc : \E s \in Sent[p] : PsignalCall(p, s)
  \/ \E p \in Proc : Endtsleep(p)
  \/ SwapperStep
  \/ VmMeter
  \/ \E p \in Proc : SwapoutBegin(p) \/ SwapoutEnd(p)

Spec == Init /\ [][Next]_vars

\* The processor: a process that runs in the kernel goes on, one in user mode
\* is preempted at its quantum, the priorities of those that wait rise until they
\* are chosen, and the clock goes on.
Fairness ==
  /\ \A p \in Proc : /\ WF_vars(ResumeSleep(p) \/ ResumeCursig1(p) \/ ResumeCursig2(p))
                     /\ SF_vars(Preempt(p))
                     /\ SF_vars(UserRet(p))
  /\ \A p \in AnyProc : SF_vars(CpuSwitch(p))
  /\ WF_vars(SwapperStep)
  /\ WF_vars(VmMeter)

FairSpec == Spec /\ Fairness

-----------------------------------------------------------------------------
(* Properties                                                               *)

\* The type of the process table, of the queues and of the swapper's state.
TypeOK ==
  /\ proc \in [AnyProc ->
       [stat : Stat, wchan : Ident \cup {NoChan}, sintr : BOOLEAN, timeout : BOOLEAN,
        inmem : BOOLEAN, siglist : SUBSET Signal, sigs : SigSetup, pptr : Proc \cup {NoProc},
        at : Site, catch : BOOLEAN, timo : BOOLEAN,
        ret : {"none", "OK", "EINTR", "EWOULDBLOCK"},
        why : {"none", "wakeup", "timeout", "signal"}]]
  /\ slpque \in [Bucket -> SUBSET AnyProc]
  /\ runq \subseteq AnyProc
  /\ curproc \in AnyProc \cup {NoProc}
  /\ callout \subseteq Proc
  /\ outp \in Proc \cup {NoProc}
  /\ panicked \in BOOLEAN

\* A process is on the sleep queue of its p_wchan and on no other, and a process
\* in SSLEEP has a p_wchan: whatever mix of stops, continues, signals and timeouts
\* it went through, the wakeup() it waits for can still find it.
SleepersQueued ==
  ~panicked => \A p \in AnyProc :
    /\ proc[p].stat = "SSLEEP" => proc[p].wchan # NoChan
    /\ \A b \in Bucket :
         p \in slpque[b] <=> proc[p].wchan # NoChan /\ b = LOOKUP[proc[p].wchan]

\* The run queues hold exactly the runnable processes that are in memory and not
\* running: none is queued twice, forgotten, or dispatched while swapped out.
RunnableQueued ==
  ~panicked => runq = {p \in AnyProc : /\ proc[p].stat = "SRUN"
                                       /\ proc[p].inmem
                                       /\ p # curproc}

\* None of the consistency checks of tsleep(), wakeup(), setrunnable() and the run
\* queues fires.
NoPanic == ~panicked

\* An endtsleep() is pending only for the timed sleep that started it: no timer
\* survives its tsleep() to end a later one, and P_TIMEOUT is not left over.
TimerOwned ==
  ~panicked => \A p \in Proc :
    /\ p \in callout => proc[p].timo /\ proc[p].at \in {"sleep", "cursig1"}
    /\ proc[p].timeout => /\ proc[p].timo /\ proc[p].why = "timeout"
                          /\ proc[p].at \in {"sleep", "cursig1"}

\* EWOULDBLOCK is returned only when the timeout ended the sleep, and a sleep
\* ended by the timeout never looks like one ended by wakeup().
TimeoutReported ==
  ~panicked => \A p \in Proc :
    /\ proc[p].ret = "EWOULDBLOCK" => proc[p].why = "timeout"
    /\ proc[p].why = "timeout" => proc[p].ret # "OK"

\* A process that looked at its signals and went to sleep interruptibly has none
\* pending that should end the sleep, even one that came while it was stopped.
SignalEndsSleep ==
  ~panicked => \A p \in Proc :
    proc[p].stat = "SSLEEP" /\ proc[p].at = "sleep" /\ proc[p].sintr =>
      Effective(proc[p]) = {}

\* tsleep(): "If PCATCH is set and a signal needs to be delivered, ERESTART is
\* returned ... and EINTR is returned": no process sleeps interruptibly with such
\* a signal pending.
NoSignalSleptOver ==
  ~panicked => \A p \in Proc :
    proc[p].stat = "SSLEEP" /\ proc[p].sintr => Effective(proc[p]) = {}

\* Only SIGCONT and SIGKILL set a stopped process going: a wakeup(), a timeout or
\* another signal that reaches it leaves it stopped.
StoppedStays ==
  [][\A p \in Proc :
       proc[p].stat = "SSTOP" /\ proc'[p].stat # "SSTOP" =>
         PsignalCall(p, SIGCONT) \/ PsignalCall(p, SIGKILL)]_vars

\* A process whose sleep has ended gets to run, even if it was swapped out and the
\* wakeup() of the swapper came between the swapper's scan and its tsleep().
AwakenedRuns ==
  \A p \in Proc : (proc[p].stat = "SRUN" /\ proc[p].at = "sleep") ~> proc[p].at # "sleep"

\* tsleep(): "Returns 0 if awakened".
ZeroMeansAwakened ==
  \A p \in Proc : proc[p].ret = "OK" => proc[p].why = "wakeup"

\* Timers and sleeps belong together: endtsleep() ends only the sleep it was started
\* for, and a sleep that it ended is reported as EWOULDBLOCK.
TimeoutsKept == TimerOwned /\ TimeoutReported

\* The queues of the scheduler are sound: the run queues hold exactly the runnable
\* resident processes, and no consistency check of setrunqueue(), remrunqueue(),
\* wakeup() or setrunnable() fires.
QueuesSound == TypeOK /\ RunnableQueued /\ NoPanic
=============================================================================
