------------------------------ MODULE LockMgr -------------------------------
(***************************************************************************)
(* One lock of the kernel lock manager, sys/kern/kern_lock.c.              *)
(*                                                                         *)
(* The kernel is not preemptive and the build is uniprocessor (NCPUS = 1,  *)
(* PAUSE empty, simple locks no-ops), so a call of lockmgr() runs without  *)
(* interruption up to the tsleep() of ACQUIRE or of LK_DRAIN, and from     *)
(* there again when the process is resumed.  Each of those stretches is    *)
(* one step: an action per request type, and an action per sleep site for  *)
(* the rest of the call.  The DIAGNOSTIC checks are compiled in.           *)
(***************************************************************************)
EXTENDS Integers, FiniteSets

CONSTANTS
  Proc,          \* processes that call lockmgr() on this lock
  LK_NOPROC,     \* lk_lockholder of a lock nobody holds exclusively
  LK_KERNPROC,   \* the identity of a caller that passes a null process
  Requests,      \* the request types the clients of the lock use
  ExtFlags,      \* the sets of external flags they pass
  InitFlags,     \* the external flags fixed by lockinit()
  Catch,         \* lk_prio includes PCATCH: signals end a sleep
  Timo,          \* lk_timo is not 0: a timeout ends a sleep
  Careless,      \* processes that make requests lockmgr() answers with a panic
  MaxHold        \* bound: instances of the lock one process may hold

RequestTypes == {"SHARED", "EXCLUSIVE", "UPGRADE", "EXCLUPGRADE", "DOWNGRADE",
                 "RELEASE", "DRAIN"}

ExtFlagNames == {"NOWAIT", "SLEEPFAIL", "CANRECURSE", "REENABLE"}

ASSUME LockAssumption ==
  /\ LK_NOPROC \notin Proc
  /\ Requests \subseteq RequestTypes
  /\ ExtFlags \subseteq SUBSET ExtFlagNames
  /\ InitFlags \subseteq {"NOWAIT", "SLEEPFAIL", "CANRECURSE"}
  /\ Catch \in BOOLEAN /\ Timo \in BOOLEAN
  /\ Careless \subseteq Proc
  /\ MaxHold \in Nat \ {0}

VARIABLES
  lk,            \* the struct lock
  pc,            \* pc[p]: the sleep site of lockmgr() p is in, or "idle"
  ext,           \* ext[p]: the external flags of p's call in progress
  wchan,         \* wchan[p]: the channel p sleeps on, "none" once taken off it
  intr,          \* intr[p]: what took p off its channel, if not a wakeup()
  hold,          \* hold[p]: what p has been granted and not yet given back
  panicked       \* panic() was called: the system has stopped

vars == <<lk, pc, ext, wchan, intr, hold, panicked>>

Busy  == {"HAVE_EXCL", "WANT_EXCL", "WANT_UPGRADE"}
Flags == Busy \cup {"WAITDRAIN", "DRAINING", "DRAINED"}

\* The four uses of ACQUIRE sleep on lkp, LK_DRAIN on &lkp->lk_flags.
AcquireSites == {"shared", "upgrade", "wantexcl", "excl"}
Sites        == AcquireSites \cup {"drain"}
Channel(site) == IF site = "drain" THEN "lk_flags" ELSE "lk"

NotHeld == [sh |-> 0, ex |-> 0]

\* lockinit(): the lock as it is before its first use.
FreshLock == [flags |-> {}, sharecount |-> 0, exclusivecount |-> 0,
              waitcount |-> 0, lockholder |-> LK_NOPROC]

Init ==
  /\ lk = FreshLock
  /\ pc = [p \in Proc |-> "idle"]
  /\ ext = [p \in Proc |-> {}]
  /\ wchan = [p \in Proc |-> "none"]
  /\ intr = [p \in Proc |-> "none"]
  /\ hold = [p \in Proc |-> NotHeld]
  /\ panicked = FALSE

-----------------------------------------------------------------------------
(* Steps shared by the request types.  L is the lock, W the wait channels   *)
(* and h the caller's holdings as the call has changed them so far.         *)

ExtOf(e) == e \cup InitFlags

\* Deliberate faults of Wanted: a shared request that ignores LK_HAVE_EXCL, one
\* that ignores LK_WANT_EXCL, a first exclusive wait that ignores LK_WANT_EXCL, a
\* second one that ignores LK_WANT_UPGRADE, a drain that ignores lk_waitcount.
WantedFaulty(site, L, flagsShared, flagsFirst, second, drain) ==
  \/ site = "shared"   /\ L.flags \cap flagsShared # {}
  \/ site = "upgrade"  /\ L.sharecount # 0
  \/ site = "wantexcl" /\ L.flags \cap flagsFirst # {}
  \/ site = "excl"     /\ (L.sharecount # 0 \/ second)
  \/ site = "drain"    /\ (L.flags \cap Busy # {} \/ L.sharecount # 0 \/ drain)
WantedSharedBlind(site, L) ==
  WantedFaulty(site, L, Busy \ {"HAVE_EXCL"}, Busy \ {"WANT_UPGRADE"},
               "WANT_UPGRADE" \in L.flags, L.waitcount # 0)
WantedSharedGreedy(site, L) ==
  WantedFaulty(site, L, Busy \ {"WANT_EXCL"}, Busy \ {"WANT_UPGRADE"},
               "WANT_UPGRADE" \in L.flags, L.waitcount # 0)
WantedFirstBlind(site, L) ==
  WantedFaulty(site, L, Busy, {"HAVE_EXCL"}, "WANT_UPGRADE" \in L.flags, L.waitcount # 0)
WantedOvertaking(site, L) ==
  WantedFaulty(site, L, Busy, Busy \ {"WANT_UPGRADE"}, FALSE, L.waitcount # 0)
WantedHasty(site, L) ==
  WantedFaulty(site, L, Busy, Busy \ {"WANT_UPGRADE"}, "WANT_UPGRADE" \in L.flags, FALSE)

\* The condition each sleep site waits to become false.
Wanted(site, L) ==
  \/ site = "shared"   /\ L.flags \cap Busy # {}
  \/ site = "upgrade"  /\ L.sharecount # 0
  \/ site = "wantexcl" /\ L.flags \cap {"HAVE_EXCL", "WANT_EXCL"} # {}
  \/ site = "excl"     /\ (L.sharecount # 0 \/ "WANT_UPGRADE" \in L.flags)
  \/ site = "drain"    /\ \/ L.flags \cap Busy # {}
                          \/ L.sharecount # 0
                          \/ L.waitcount # 0

\* wakeup(): everybody sleeping on the channel becomes runnable.
Wakeup(W, chan) == [q \in Proc |-> IF W[q] = chan THEN "none" ELSE W[q]]

\* Deliberate fault: the wakeup() of a release is missing.
WakeWaitersMute(L, W) == W

WakeWaiters(L, W) == IF L.waitcount # 0 THEN Wakeup(W, "lk") ELSE W

\* The end of a call: a lock that just became quiet wakes those draining it.
Return(p, L, W, h) ==
  LET quiet == "WAITDRAIN" \in L.flags /\ ~Wanted("drain", L)
  IN  /\ lk' = IF quiet THEN [L EXCEPT !.flags = @ \ {"WAITDRAIN"}] ELSE L
      /\ wchan' = IF quiet THEN Wakeup(W, "lk_flags") ELSE W
      /\ hold' = [hold EXCEPT ![p] = h]
      /\ pc' = [pc EXCEPT ![p] = "idle"]
      /\ ext' = [ext EXCEPT ![p] = {}]
      /\ intr' = [intr EXCEPT ![p] = "none"]
      /\ UNCHANGED panicked

Panic(L) == /\ lk' = L
            /\ panicked' = TRUE
            /\ UNCHANGED <<pc, ext, wchan, intr, hold>>

SleepAt(p, site, L, W, h, e) ==
  /\ lk' = IF site = "drain" THEN [L EXCEPT !.flags = @ \cup {"WAITDRAIN"}]
                             ELSE [L EXCEPT !.waitcount = @ + 1]
  /\ wchan' = [W EXCEPT ![p] = Channel(site)]
  /\ hold' = [hold EXCEPT ![p] = h]
  /\ pc' = [pc EXCEPT ![p] = site]
  /\ ext' = [ext EXCEPT ![p] = e]
  /\ intr' = [intr EXCEPT ![p] = "none"]
  /\ UNCHANGED panicked

\* What follows ACQUIRE when an exclusive lock has been obtained.
GrantExcl(p, L, W, h) ==
  LET M == [L EXCEPT !.flags = @ \cup {"HAVE_EXCL"}, !.lockholder = p]
  IN  IF L.exclusivecount # 0
      THEN Panic(M)
      ELSE Return(p, [M EXCEPT !.exclusivecount = 1], W, [h EXCEPT !.ex = 1])

AcquireShared(p, L, W, h, e) ==
  IF Wanted("shared", L)
  THEN SleepAt(p, "shared", L, W, h, e)
  ELSE Return(p, [L EXCEPT !.sharecount = @ + 1], W, [h EXCEPT !.sh = @ + 1])

AcquireUpgrade(p, L, W, h, e) ==
  IF Wanted("upgrade", L)
  THEN SleepAt(p, "upgrade", L, W, h, e)
  ELSE GrantExcl(p, [L EXCEPT !.flags = @ \ {"WANT_UPGRADE"}], W, h)

AcquireExcl(p, L, W, h, e) ==
  IF Wanted("excl", L)
  THEN SleepAt(p, "excl", L, W, h, e)
  ELSE GrantExcl(p, [L EXCEPT !.flags = @ \ {"WANT_EXCL"}], W, h)

AcquireWantExcl(p, L, W, h, e) ==
  IF Wanted("wantexcl", L)
  THEN SleepAt(p, "wantexcl", L, W, h, e)
  ELSE AcquireExcl(p, [L EXCEPT !.flags = @ \cup {"WANT_EXCL"}], W, h, e)

AcquireDrain(p, L, W, h, e) ==
  LET M == [L EXCEPT !.flags = @ \cup {"DRAINING", "HAVE_EXCL"}, !.lockholder = p]
  IN  IF Wanted("drain", L)
      THEN SleepAt(p, "drain", L, W, h, e)
      ELSE Return(p, [M EXCEPT !.exclusivecount = 1], W, [h EXCEPT !.ex = 1])

\* Deliberate fault: lk_lockholder survives the last release.
NoHolderStale(L) == [L EXCEPT !.flags = @ \ {"HAVE_EXCL"}]

\* The last exclusive instance of the holder is gone.
NoHolder(L) == [L EXCEPT !.flags = @ \ {"HAVE_EXCL"}, !.lockholder = LK_NOPROC]

\* case LK_DOWNGRADE, also reached from LK_SHARED, which adds a share first.
DowngradeLock(p, extra) ==
  LET L == [lk EXCEPT !.sharecount = @ + extra]
      S == [L EXCEPT !.sharecount = @ + L.exclusivecount]
      M == NoHolder([S EXCEPT !.exclusivecount = 0])
  IN  IF lk.lockholder # p \/ lk.exclusivecount = 0
      THEN Panic(L)
      ELSE Return(p, M, WakeWaiters(M, wchan),
                  [sh |-> hold[p].sh + extra + hold[p].ex, ex |-> 0])

\* case LK_EXCLUSIVE, also reached from LK_UPGRADE.
ExclusiveRequest(p, L, W, h, e) ==
  IF L.lockholder = p /\ p # LK_KERNPROC
  THEN IF "CANRECURSE" \in ExtOf(e)
       THEN Return(p, [L EXCEPT !.exclusivecount = @ + 1], W, [h EXCEPT !.ex = @ + 1])
       ELSE Panic(L)
  ELSE IF "NOWAIT" \in ExtOf(e) /\ (L.flags \cap Busy # {} \/ L.sharecount # 0)
       THEN Return(p, L, W, h)
       ELSE AcquireWantExcl(p, L, W, h, e)

\* Deliberate fault: the checks at the top of LK_UPGRADE are missing.
UpgradeRequestUnchecked(p, e) ==
  LET L == [lk EXCEPT !.sharecount = @ - 1]
      h == [hold[p] EXCEPT !.sh = @ - 1]
  IN  AcquireUpgrade(p, [L EXCEPT !.flags = @ \cup {"WANT_UPGRADE"}], wchan, h, e)

\* case LK_UPGRADE, also reached from LK_EXCLUPGRADE.
UpgradeRequest(p, e) ==
  IF lk.lockholder = p \/ lk.sharecount <= 0
  THEN Panic(lk)
  ELSE LET L == [lk EXCEPT !.sharecount = @ - 1]
           h == [hold[p] EXCEPT !.sh = @ - 1]
           W == IF L.sharecount = 0 THEN WakeWaiters(L, wchan) ELSE wchan
       IN  IF /\ "NOWAIT" \in ExtOf(e)
              /\ "WANT_UPGRADE" \in L.flags \/ L.sharecount > 1
           THEN Return(p, L, wchan, h)
           ELSE IF "WANT_UPGRADE" \notin L.flags
           THEN AcquireUpgrade(p, [L EXCEPT !.flags = @ \cup {"WANT_UPGRADE"}],
                               wchan, h, e)
           ELSE ExclusiveRequest(p, L, W, h, e)

-----------------------------------------------------------------------------
(* The requests.  lock.h says what a caller must hold to make one; Careless *)
(* processes ignore the rules that lockmgr() checks itself.                 *)

Holds(p) == hold[p].sh + hold[p].ex

Decommissioned == lk.flags \cap {"DRAINING", "DRAINED"} # {}

Begin(p, type, e) ==
  /\ ~panicked
  /\ pc[p] = "idle"
  /\ type \in Requests
  /\ e \in ExtFlags
  /\ "REENABLE" \in e => type = "RELEASE"

LK_SHARED(p, e) ==
  /\ Begin(p, "SHARED", e)
  /\ ~Decommissioned
  /\ hold[p].sh = 0 \/ p \in Careless
  /\ Holds(p) < MaxHold
  /\ IF lk.lockholder = p
     THEN DowngradeLock(p, 1)
     ELSE IF "NOWAIT" \in ExtOf(e) /\ Wanted("shared", lk)
          THEN Return(p, lk, wchan, hold[p])
          ELSE AcquireShared(p, lk, wchan, hold[p], e)

LK_EXCLUSIVE(p, e) ==
  /\ Begin(p, "EXCLUSIVE", e)
  /\ ~Decommissioned
  /\ hold[p].sh = 0
  /\ Holds(p) < MaxHold
  /\ \/ hold[p].ex = 0
     \/ "CANRECURSE" \in ExtOf(e) /\ p # LK_KERNPROC
     \/ p \in Careless
  /\ ExclusiveRequest(p, lk, wchan, hold[p], e)

LK_UPGRADE(p, e) ==
  /\ Begin(p, "UPGRADE", e)
  /\ ~Decommissioned
  /\ hold[p].sh = 1 \/ (hold[p].ex > 0 /\ p \in Careless)
  /\ UpgradeRequest(p, e)

\* Deliberate fault: the EBUSY return of LK_EXCLUPGRADE keeps lk_sharecount.
LK_EXCLUPGRADE_Leaky(p, e) ==
  /\ Begin(p, "EXCLUPGRADE", e)
  /\ ~Decommissioned
  /\ hold[p].sh = 1
  /\ IF "WANT_UPGRADE" \in lk.flags
     THEN Return(p, lk, wchan, [hold[p] EXCEPT !.sh = @ - 1])
     ELSE UpgradeRequest(p, e)

LK_EXCLUPGRADE(p, e) ==
  /\ Begin(p, "EXCLUPGRADE", e)
  /\ ~Decommissioned
  /\ hold[p].sh = 1
  /\ IF "WANT_UPGRADE" \in lk.flags
     THEN Return(p, [lk EXCEPT !.sharecount = @ - 1], wchan,
                 [hold[p] EXCEPT !.sh = @ - 1])
     ELSE UpgradeRequest(p, e)

LK_DOWNGRADE(p, e) ==
  /\ Begin(p, "DOWNGRADE", e)
  /\ ~Decommissioned
  /\ hold[p].ex > 0 \/ p \in Careless
  /\ DowngradeLock(p, 0)

\* Deliberate fault: a release gives back all recursive instances at once.
LK_RELEASE_All(p, e) ==
  /\ Begin(p, "RELEASE", e)
  /\ ~Decommissioned /\ "REENABLE" \notin e
  /\ Holds(p) > 0
  /\ LET L == [lk EXCEPT !.exclusivecount = 0]
         M == IF hold[p].ex > 0 THEN NoHolder(L)
              ELSE [lk EXCEPT !.sharecount = @ - hold[p].sh]
     IN  Return(p, M, WakeWaiters(M, wchan), NotHeld)

\* The release of a draining lock decommissions it unless LK_REENABLE is given.
LK_RELEASE(p, e) ==
  /\ Begin(p, "RELEASE", e)
  /\ "REENABLE" \in e => "DRAINING" \in lk.flags
  /\ Holds(p) > 0 \/ (p \in Careless /\ lk.sharecount = 0)
  /\ Decommissioned => lk.lockholder = p
  /\ LET L == IF "DRAINING" \notin lk.flags THEN lk
              ELSE [lk EXCEPT !.flags = (@ \ {"DRAINING"}) \cup
                                (IF "REENABLE" \in e THEN {} ELSE {"DRAINED"})]
         X == [L EXCEPT !.exclusivecount = @ - 1]
         M == IF L.exclusivecount # 0
              THEN IF X.exclusivecount = 0 THEN NoHolder(X) ELSE X
              ELSE IF L.sharecount # 0 THEN [L EXCEPT !.sharecount = @ - 1]
              ELSE L
         h == IF hold[p].ex > 0 THEN [hold[p] EXCEPT !.ex = @ - 1]
              ELSE IF hold[p].sh > 0 THEN [hold[p] EXCEPT !.sh = @ - 1]
              ELSE hold[p]
     IN  IF L.exclusivecount # 0 /\ L.lockholder # p
         THEN Panic(L)
         ELSE Return(p, M, WakeWaiters(M, wchan), h)

LK_DRAIN(p, e) ==
  /\ Begin(p, "DRAIN", e)
  /\ ~Decommissioned
  /\ Holds(p) = 0 \/ (hold[p].ex > 0 /\ p \in Careless)
  /\ \A q \in Proc : pc[q] # "drain"
  /\ IF lk.lockholder = p
     THEN Panic(lk)
     ELSE IF "NOWAIT" \in ExtOf(e) /\ Wanted("drain", lk)
          THEN Return(p, lk, wchan, hold[p])
          ELSE AcquireDrain(p, lk, wchan, hold[p], e)

\* The DIAGNOSTIC test at the entry: using a draining or drained lock.
UseDecommissioned(p, type) ==
  /\ Begin(p, type, {})
  /\ p \in Careless
  /\ Decommissioned
  /\ \/ "DRAINED" \in lk.flags
     \/ type # "RELEASE" \/ lk.lockholder # p
  /\ Panic(lk)

\* The memory of a decommissioned lock is freed and initialised for a new use.
LockInit ==
  /\ ~panicked
  /\ "DRAINED" \in lk.flags
  /\ lk' = FreshLock
  /\ UNCHANGED <<pc, ext, wchan, intr, hold, panicked>>

-----------------------------------------------------------------------------
(* The sleep: tsleep() seen by lockmgr().                                   *)

\* A signal (PCATCH) or the timeout takes a sleeping process off its channel.
Interrupt(p, cause) ==
  /\ ~panicked
  /\ wchan[p] # "none"
  /\ cause = "signal" => Catch
  /\ cause = "timeout" => Timo
  /\ wchan' = [wchan EXCEPT ![p] = "none"]
  /\ intr' = [intr EXCEPT ![p] = cause]
  /\ UNCHANGED <<lk, pc, ext, hold, panicked>>

\* Whether tsleep() fails.  With PCATCH the signals are looked at again before
\* returning: a process that was woken may still fail, and one that was made
\* runnable by a signal discarded since (SIGTSTP, then SIGCONT) returns 0.
TsleepFails(p) ==
  IF intr[p] = "timeout" THEN {TRUE}
  ELSE IF Catch THEN BOOLEAN ELSE {FALSE}

Runnable(p, site) == ~panicked /\ pc[p] = site /\ wchan[p] = "none"

\* The request gives up: tsleep() failed, or LK_SLEEPFAIL forbids a retry.
GivesUp(p, error) == error \/ "SLEEPFAIL" \in ExtOf(ext[p])

\* Deliberate fault: lk_waitcount is not decremented after tsleep().
AwakeUncounted == lk

Awake == [lk EXCEPT !.waitcount = @ - 1]

\* Deliberate fault: a request that gives up leaves its LK_WANT flag set.
ClearNot(flag) == Awake

Clear(flag) == [Awake EXCEPT !.flags = @ \ {flag}]

ResumeShared(p, error) ==
  /\ Runnable(p, "shared")
  /\ error \in TsleepFails(p)
  /\ IF GivesUp(p, error) THEN Return(p, Awake, wchan, hold[p])
     ELSE AcquireShared(p, Awake, wchan, hold[p], ext[p])

ResumeUpgrade(p, error) ==
  /\ Runnable(p, "upgrade")
  /\ error \in TsleepFails(p)
  /\ IF GivesUp(p, error) THEN Return(p, Clear("WANT_UPGRADE"), wchan, hold[p])
     ELSE AcquireUpgrade(p, Awake, wchan, hold[p], ext[p])

ResumeWantExcl(p, error) ==
  /\ Runnable(p, "wantexcl")
  /\ error \in TsleepFails(p)
  /\ IF GivesUp(p, error) THEN Return(p, Awake, wchan, hold[p])
     ELSE AcquireWantExcl(p, Awake, wchan, hold[p], ext[p])

ResumeExcl(p, error) ==
  /\ Runnable(p, "excl")
  /\ error \in TsleepFails(p)
  /\ IF GivesUp(p, error) THEN Return(p, Clear("WANT_EXCL"), wchan, hold[p])
     ELSE AcquireExcl(p, Awake, wchan, hold[p], ext[p])

\* LK_DRAIN that gives up returns at once, past the end of the switch.
ResumeDrain(p, error) ==
  /\ Runnable(p, "drain")
  /\ error \in TsleepFails(p)
  /\ IF GivesUp(p, error)
     THEN /\ pc' = [pc EXCEPT ![p] = "idle"]
          /\ ext' = [ext EXCEPT ![p] = {}]
          /\ intr' = [intr EXCEPT ![p] = "none"]
          /\ UNCHANGED <<lk, wchan, hold, panicked>>
     ELSE AcquireDrain(p, lk, wchan, hold[p], ext[p])

Resume(p) ==
  \E error \in BOOLEAN : \/ ResumeShared(p, error)
                         \/ ResumeUpgrade(p, error)
                         \/ ResumeWantExcl(p, error)
                         \/ ResumeExcl(p, error)
                         \/ ResumeDrain(p, error)

Request(p) ==
  \E e \in ExtFlags : \/ LK_SHARED(p, e)
                      \/ LK_EXCLUSIVE(p, e)
                      \/ LK_UPGRADE(p, e)
                      \/ LK_EXCLUPGRADE(p, e)
                      \/ LK_DOWNGRADE(p, e)
                      \/ LK_RELEASE(p, e)
                      \/ LK_DRAIN(p, e)

Next ==
  \/ \E p \in Proc : Request(p)
  \/ \E p \in Proc : Resume(p)
  \/ \E p \in Proc, cause \in {"signal", "timeout"} : Interrupt(p, cause)
  \/ \E p \in Proc, type \in RequestTypes : UseDecommissioned(p, type)
  \/ LockInit

Spec == Init /\ [][Next]_vars

\* A runnable process is run by the scheduler, and a process that holds the
\* lock gives it back when it is done.
Fairness ==
  /\ \A p \in Proc : WF_vars(Resume(p))
  /\ \A p \in Proc : WF_vars(\E e \in ExtFlags : LK_RELEASE(p, e))

FairSpec == Spec /\ Fairness

-----------------------------------------------------------------------------
(* Properties                                                               *)

Lock == [flags : SUBSET Flags, sharecount : Int, exclusivecount : Int,
         waitcount : Int, lockholder : Proc \cup {LK_NOPROC}]
Holding == [sh : Nat, ex : Nat]

\* The type of struct lock, of the calls in progress and of the holdings.
TypeOK ==
  /\ lk \in Lock
  /\ pc \in [Proc -> Sites \cup {"idle"}]
  /\ ext \in [Proc -> SUBSET ExtFlagNames]
  /\ wchan \in [Proc -> {"none", "lk", "lk_flags"}]
  /\ intr \in [Proc -> {"none", "signal", "timeout"}]
  /\ hold \in [Proc -> Holding]
  /\ panicked \in BOOLEAN

\* lock.h: only one exclusive lock may exist at a time, and no shared lock
\* beside it.  Whatever the mix of requests, errors and careless callers, two
\* processes are never both told that they hold conflicting locks.
MutualExclusion ==
  \A p, q \in Proc :
    hold[p].ex > 0 => /\ hold[p].sh = 0
                      /\ p # q => hold[q] = NotHeld

\* One token for each shared instance granted and not given back.
SharesOf(H) == UNION {{p} \X (1 .. H[p].sh) : p \in Proc}

\* lk_sharecount is the number of shared locks its holders still have to give
\* back: no path of lockmgr(), an error return included, loses or forges one.
SharesCounted == ~panicked => lk.sharecount = Cardinality(SharesOf(hold))

\* LK_HAVE_EXCL, lk_lockholder and lk_exclusivecount agree with each other and
\* with what the holder was granted.
HolderRecorded ==
  ~panicked =>
    /\ lk.exclusivecount >= 0
    /\ "HAVE_EXCL" \in lk.flags <=> lk.exclusivecount > 0
    /\ lk.lockholder = LK_NOPROC <=> lk.exclusivecount = 0
    /\ \A p \in Proc : hold[p].ex = IF lk.lockholder = p
                                    THEN lk.exclusivecount ELSE 0

\* lk_waitcount is the number of processes in ACQUIRE: it decides whether a
\* release calls wakeup() and whether the lock may be drained.
Waiting == {p \in Proc : pc[p] \in AcquireSites}
WaitersCounted == ~panicked => lk.waitcount = Cardinality(Waiting)

\* LK_WANT_EXCL and LK_WANT_UPGRADE are set exactly while one process is in the
\* wait they announce, so neither outlives a request that gave up.
WantFlagsOwned ==
  ~panicked =>
    /\ \A p, q \in Proc : pc[p] = pc[q] /\ pc[p] \in {"excl", "upgrade"} => p = q
    /\ "WANT_EXCL" \in lk.flags <=> \E p \in Proc : pc[p] = "excl"
    /\ "WANT_UPGRADE" \in lk.flags <=> \E p \in Proc : pc[p] = "upgrade"

\* LK_DRAIN: "wait for all activity on the lock to end".  From the grant of the
\* drain to the release, no other process holds the lock or is inside lockmgr()
\* on it, so that its memory may be freed.
DrainQuiescent ==
  ~panicked /\ lk.flags \cap {"DRAINING", "DRAINED"} # {} =>
    \A p \in Proc : p # lk.lockholder => pc[p] = "idle" /\ hold[p] = NotHeld

\* A process asleep in lockmgr() still has something to wait for: every change
\* that makes its wait pointless also wakes it.
NoForgottenSleeper ==
  ~panicked => \A p \in Proc : wchan[p] # "none" => Wanted(pc[p], lk)

\* panic() is not reached: neither the assertions nor the misuse checks fire.
NoPanic == ~panicked

\* LK_NOWAIT: "do not sleep to await lock".
NoWaitNeverSleeps ==
  \A p \in Proc : "NOWAIT" \in ExtOf(ext[p]) => pc[p] = "idle"

\* LK_EXCLUPGRADE: no other process gets exclusive access between the time the
\* upgrade is requested and the time that it is granted.
UpgradeNotOvertaken ==
  [][\A p, q \in Proc :
       pc[p] = "upgrade" /\ pc'[p] = "upgrade" => hold'[q].ex = hold[q].ex]_vars

\* A process that has announced an exclusive request (LK_WANT_EXCL stops
\* further shared locks) leaves the wait for the shared locks to clear.
WriterServed == \A p \in Proc : pc[p] = "excl" ~> pc[p] # "excl"

\* "request upgrade and wait for the shared count to drop to zero, then take
\* exclusive lock": the upgrade does not wait for ever.
UpgradeServed == \A p \in Proc : pc[p] = "upgrade" ~> pc[p] # "upgrade"

\* The lock implements the abstract reader/writer lock.
RW == INSTANCE RWLock
RWSpec == RW!RWSpec

\* Whoever sleeps in ACQUIRE has a reason to: it did not say LK_NOWAIT, and the
\* condition it waits for still holds or a wakeup() is on its way.
SleepersJustified == NoForgottenSleeper /\ NoWaitNeverSleeps
=============================================================================
