--------------------------- MODULE LockMgrOrderly ---------------------------
(***************************************************************************)
(* What more can be said of a lock whose clients never ask for an upgrade  *)
(* and make no request that lock.h forbids: panic() is not reached, a      *)
(* request with LK_NOWAIT does not sleep and, when no sleep can fail, no   *)
(* sleeper is forgotten.  Each of them fails of a lock with upgrades.      *)
(***************************************************************************)
EXTENDS LockMgrRefinement

(* The clients of the lock.                                                 *)
NoUpgrades == "UPGRADE" \notin Requests /\ "EXCLUPGRADE" \notin Requests
Orderly    == NoUpgrades /\ Careless = {}

(* Without upgrades, an announced exclusive request is alone: nobody holds  *)
(* the lock exclusively while LK_WANT_EXCL is set.                          *)
OrdOK(L, P) ==
  /\ L \in Lock
  /\ "WANT_UPGRADE" \notin L.flags
  /\ \A p \in Proc : P[p] # "upgrade"
  /\ "WANT_EXCL" \in L.flags => L.exclusivecount = 0

OrdGoal == ~panicked' /\ OrdOK(lk', pc') /\ NoWaitNeverSleeps'

(* What every step starts from.                                             *)
Calm == TypeOK /\ ~panicked /\ NoWaitNeverSleeps

(* The end of a call.                                                       *)
LEMMA ReturnOrd ==
  ASSUME Calm, NEW p \in Proc, NEW L, NEW W, NEW h,
         OrdOK(L, Idle(p)), Return(p, L, W, h)
  PROVE  OrdGoal
<1> DEFINE M == [L EXCEPT !.flags = @ \ {"WAITDRAIN"}]
<1>1. M \in Lock /\ M.flags = L.flags \ {"WAITDRAIN"} /\ M.exclusivecount = L.exclusivecount
  BY DEF OrdOK, Lock
<1> HIDE DEF M
<1>2. OrdOK(M, Idle(p))
  BY <1>1 DEF OrdOK
<1>3. pc' = Idle(p) /\ lk' \in {L, M} /\ ~panicked'
  BY DEF Return, Idle, M, Calm
<1>4. NoWaitNeverSleeps'
  BY DEF Return, Calm, TypeOK, NoWaitNeverSleeps
<1> QED
  BY <1>2, <1>3, <1>4 DEF OrdGoal

(* Going to sleep without LK_NOWAIT.                                        *)
LEMMA SleepOrd ==
  ASSUME Calm, NEW p \in Proc, NEW L, NEW W, NEW h, NEW e, NEW site \in Sites,
         site # "upgrade", "NOWAIT" \notin ExtOf(e),
         OrdOK(L, Idle(p)), SleepAt(p, site, L, W, h, e)
  PROVE  OrdGoal
<1>1. /\ lk' \in Lock /\ lk'.exclusivecount = L.exclusivecount
      /\ "WANT_EXCL" \in lk'.flags <=> "WANT_EXCL" \in L.flags
      /\ "WANT_UPGRADE" \in lk'.flags <=> "WANT_UPGRADE" \in L.flags
  <2>1. CASE site = "drain"
    BY <2>1 DEF SleepAt, OrdOK, Lock, Flags
  <2>2. CASE site # "drain"
    BY <2>2 DEF SleepAt, OrdOK, Lock
  <2> QED
    BY <2>1, <2>2
<1>2. \A q \in Proc : pc'[q] # "upgrade"
  BY DEF SleepAt, Calm, TypeOK, OrdOK, Idle
<1>3. ~panicked' /\ NoWaitNeverSleeps'
  BY DEF SleepAt, Calm, TypeOK, NoWaitNeverSleeps
<1> QED
  BY <1>1, <1>2, <1>3 DEF OrdGoal, OrdOK

(* The assertion after ACQUIRE does not fire.                               *)
LEMMA GrantOrd ==
  ASSUME Calm, NEW p \in Proc, NEW L, NEW W, NEW h, OrdOK(L, Idle(p)),
         L.exclusivecount = 0, "WANT_EXCL" \notin L.flags, GrantExcl(p, L, W, h)
  PROVE  OrdGoal
<1> DEFINE M == [L EXCEPT !.flags = @ \cup {"HAVE_EXCL"}, !.lockholder = p]
           N == [M EXCEPT !.exclusivecount = 1]
<1>1. M \in Lock /\ M.flags = L.flags \cup {"HAVE_EXCL"}
  <2>1. M \in Lock
    BY DEF OrdOK, Lock, Flags, Busy
  <2> QED
    BY <2>1 DEF OrdOK, Lock
<1>2. Return(p, N, W, [h EXCEPT !.ex = 1])
  BY DEF GrantExcl
<1> HIDE DEF M
<1>3. N \in Lock /\ N.flags = M.flags
  BY <1>1 DEF Lock
<1> HIDE DEF N
<1>4. OrdOK(N, Idle(p))
  BY <1>1, <1>3 DEF OrdOK
<1> QED
  BY <1>2, <1>4, ReturnOrd

(* ACQUIRE of LK_SHARED.                                                    *)
LEMMA AcquireSharedOrd ==
  ASSUME Calm, NEW p \in Proc, NEW L, NEW W, NEW h, NEW e, OrdOK(L, Idle(p)),
         "NOWAIT" \in ExtOf(e) => ~Wanted("shared", L),
         AcquireShared(p, L, W, h, e)
  PROVE  OrdGoal
<1> DEFINE N == [L EXCEPT !.sharecount = @ + 1]
<1>1. N \in Lock /\ N.flags = L.flags /\ N.exclusivecount = L.exclusivecount
  BY DEF OrdOK, Lock
<1>2. \/ "NOWAIT" \notin ExtOf(e) /\ SleepAt(p, "shared", L, W, h, e)
      \/ Return(p, N, W, [h EXCEPT !.sh = @ + 1])
  BY DEF AcquireShared
<1> HIDE DEF N
<1>3. OrdOK(N, Idle(p))
  BY <1>1 DEF OrdOK
<1> QED
  BY <1>2, <1>3, SleepOrd, ReturnOrd, SitesWait

(* The second ACQUIRE of LK_EXCLUSIVE.                                      *)
LEMMA AcquireExclOrd ==
  ASSUME Calm, NEW p \in Proc, NEW L, NEW W, NEW h, NEW e, OrdOK(L, Idle(p)),
         L.exclusivecount = 0,
         "NOWAIT" \in ExtOf(e) => ~Wanted("excl", L),
         AcquireExcl(p, L, W, h, e)
  PROVE  OrdGoal
<1> DEFINE M == [L EXCEPT !.flags = @ \ {"WANT_EXCL"}]
<1>1. \/ "NOWAIT" \notin ExtOf(e) /\ SleepAt(p, "excl", L, W, h, e)
      \/ GrantExcl(p, M, W, h)
  BY DEF AcquireExcl
<1>2. M \in Lock /\ M.flags = L.flags \ {"WANT_EXCL"} /\ M.exclusivecount = 0
  BY DEF OrdOK, Lock
<1> HIDE DEF M
<1>3. OrdOK(M, Idle(p)) /\ "WANT_EXCL" \notin M.flags
  BY <1>2 DEF OrdOK
<1> QED
  BY <1>1, <1>2, <1>3, SleepOrd, GrantOrd, SitesWait

(* The first ACQUIRE of LK_EXCLUSIVE.                                       *)
LEMMA AcquireWantExclOrd ==
  ASSUME Calm, NEW p \in Proc, NEW L, NEW W, NEW h, NEW e, OrdOK(L, Idle(p)),
         "HAVE_EXCL" \notin L.flags => L.exclusivecount = 0,
         "NOWAIT" \in ExtOf(e) => ~Wanted("wantexcl", L) /\ L.sharecount = 0,
         AcquireWantExcl(p, L, W, h, e)
  PROVE  OrdGoal
<1> DEFINE M == [L EXCEPT !.flags = @ \cup {"WANT_EXCL"}]
<1>1. CASE "NOWAIT" \notin ExtOf(e) /\ SleepAt(p, "wantexcl", L, W, h, e)
  BY <1>1, SleepOrd, SitesWait
<1>2. CASE ~Wanted("wantexcl", L) /\ AcquireExcl(p, M, W, h, e)
  <2>1. L.exclusivecount = 0
    BY <1>2 DEF Wanted
  <2>2. /\ M \in Lock /\ M.flags = L.flags \cup {"WANT_EXCL"} /\ M.exclusivecount = 0
        /\ M.sharecount = L.sharecount
    <3>1. M \in Lock
      BY DEF OrdOK, Lock, Flags, Busy
    <3> QED
      BY <2>1, <3>1 DEF OrdOK, Lock
  <2> HIDE DEF M
  <2>3. OrdOK(M, Idle(p))
    BY <2>2 DEF OrdOK
  <2>4. "NOWAIT" \in ExtOf(e) => ~Wanted("excl", M)
    BY <2>2 DEF Wanted, OrdOK
  <2> QED
    BY <1>2, <2>2, <2>3, <2>4, AcquireExclOrd
<1> QED
  BY <1>1, <1>2 DEF AcquireWantExcl

(* The loop of LK_DRAIN.                                                    *)
LEMMA AcquireDrainOrd ==
  ASSUME Calm, NEW p \in Proc, NEW L, NEW W, NEW h, NEW e, OrdOK(L, Idle(p)),
         "NOWAIT" \in ExtOf(e) => ~Wanted("drain", L),
         AcquireDrain(p, L, W, h, e)
  PROVE  OrdGoal
<1> DEFINE M == [L EXCEPT !.flags = @ \cup {"DRAINING", "HAVE_EXCL"}, !.lockholder = p]
           N == [M EXCEPT !.exclusivecount = 1]
<1>1. CASE "NOWAIT" \notin ExtOf(e) /\ SleepAt(p, "drain", L, W, h, e)
  BY <1>1, SleepOrd, SitesWait
<1>2. CASE ~Wanted("drain", L) /\ Return(p, N, W, [h EXCEPT !.ex = 1])
  <2>1. M \in Lock /\ M.flags = L.flags \cup {"DRAINING", "HAVE_EXCL"}
    <3>1. M \in Lock
      BY DEF OrdOK, Lock, Flags, Busy
    <3> QED
      BY <3>1 DEF OrdOK, Lock
  <2> HIDE DEF M
  <2>2. N \in Lock /\ N.flags = M.flags
    BY <2>1 DEF Lock
  <2> HIDE DEF N
  <2>3. "WANT_EXCL" \notin L.flags
    BY <1>2 DEF Wanted, Busy
  <2>4. OrdOK(N, Idle(p))
    BY <2>1, <2>2, <2>3 DEF OrdOK
  <2> QED
    BY <1>2, <2>4, ReturnOrd
<1> QED
  BY <1>1, <1>2 DEF AcquireDrain

(* case LK_DOWNGRADE by the exclusive holder.                               *)
LEMMA DowngradeLockOrd ==
  ASSUME Calm, NEW p \in Proc, NEW extra \in {0, 1}, OrdOK(lk, Idle(p)),
         lk.lockholder = p, lk.exclusivecount # 0, DowngradeLock(p, extra)
  PROVE  OrdGoal
<1> DEFINE L == [lk EXCEPT !.sharecount = @ + extra]
           A == [L EXCEPT !.sharecount = @ + L.exclusivecount]
           S == [A EXCEPT !.exclusivecount = 0]
           M == NoHolder(S)
           g == [sh |-> hold[p].sh + extra + hold[p].ex, ex |-> 0]
<1>1. Return(p, M, WakeWaiters(M, wchan), g)
  BY DEF DowngradeLock
<1>2. lk \in Lock
  BY DEF OrdOK
<1>3. L \in Lock /\ L.flags = lk.flags
  BY <1>2 DEF Lock
<1> HIDE DEF L
<1>4. A \in Lock /\ A.flags = lk.flags
  BY <1>3 DEF Lock
<1> HIDE DEF A
<1>5. S \in Lock /\ S.flags = lk.flags /\ S.exclusivecount = 0
  BY <1>4 DEF Lock
<1> HIDE DEF S
<1>6. M \in Lock /\ M.flags = lk.flags \ {"HAVE_EXCL"} /\ M.exclusivecount = 0
  BY <1>5, NoHolderType DEF NoHolder, Lock
<1> HIDE DEF M
<1>7. OrdOK(M, Idle(p))
  BY <1>6 DEF OrdOK
<1> QED
  BY <1>1, <1>7, ReturnOrd

(* case LK_EXCLUSIVE by a caller that keeps the rules of lock.h.            *)
LEMMA ExclusiveRequestOrd ==
  ASSUME Calm, LockOK(lk, hold), NEW p \in Proc, NEW W, NEW e, OrdOK(lk, Idle(p)),
         \/ hold[p].ex = 0
         \/ "CANRECURSE" \in ExtOf(e) /\ p # LK_KERNPROC,
         ExclusiveRequest(p, lk, W, hold[p], e)
  PROVE  OrdGoal
<1> DEFINE N == [lk EXCEPT !.exclusivecount = @ + 1]
<1>1. lk \in Lock /\ lk.exclusivecount \in Nat
  BY DEF LockOK, Lock
<1>2. CASE lk.lockholder = p
  <2>1. lk.exclusivecount > 0 /\ hold[p].ex > 0
    BY <1>1, <1>2, LockAssumption DEF LockOK
  <2>2. Return(p, N, W, [hold[p] EXCEPT !.ex = @ + 1])
    BY <1>2, <2>1 DEF ExclusiveRequest
  <2>3. N \in Lock /\ N.flags = lk.flags
    BY <1>1 DEF Lock
  <2> HIDE DEF N
  <2>4. OrdOK(N, Idle(p))
    BY <2>1, <2>3 DEF OrdOK
  <2> QED
    BY <2>2, <2>4, ReturnOrd
<1>3. CASE lk.lockholder # p
  <2>1. "HAVE_EXCL" \notin lk.flags => lk.exclusivecount = 0
    BY <1>1 DEF LockOK
  <2>2. \/ Return(p, lk, W, hold[p])
        \/ /\ "NOWAIT" \in ExtOf(e) => lk.flags \cap Busy = {} /\ lk.sharecount = 0
           /\ AcquireWantExcl(p, lk, W, hold[p], e)
    BY <1>3 DEF ExclusiveRequest
  <2>3. lk.flags \cap Busy = {} => ~Wanted("wantexcl", lk)
    BY DEF Wanted, Busy
  <2> QED
    BY <2>1, <2>2, <2>3, ReturnOrd, AcquireWantExclOrd
<1> QED
  BY <1>2, <1>3

-----------------------------------------------------------------------------
(* The actions.                                                             *)

(* Every request but LK_RELEASE.                                            *)
LEMMA RequestOrd ==
  ASSUME Orderly, Calm, LockOK(lk, hold), OrdOK(lk, pc), NEW p \in Proc, NEW e,
         \/ LK_SHARED(p, e) \/ LK_EXCLUSIVE(p, e) \/ LK_UPGRADE(p, e)
         \/ LK_EXCLUPGRADE(p, e) \/ LK_DOWNGRADE(p, e) \/ LK_DRAIN(p, e)
  PROVE  OrdGoal
<1>1. Idle(p) = pc
  BY DEF Calm, TypeOK, Idle, LK_SHARED, LK_EXCLUSIVE, LK_UPGRADE, LK_EXCLUPGRADE,
     LK_DOWNGRADE, LK_DRAIN, Begin
<1>2. OrdOK(lk, Idle(p))
  BY <1>1
<1>3. /\ lk.lockholder = p <=> hold[p].ex > 0
      /\ lk.lockholder = p => lk.exclusivecount # 0
  BY LockAssumption DEF LockOK, Holding, Lock
<1>4. CASE LK_SHARED(p, e)
  <2>1. \/ lk.lockholder = p /\ DowngradeLock(p, 1)
        \/ Return(p, lk, wchan, hold[p])
        \/ /\ "NOWAIT" \in ExtOf(e) => ~Wanted("shared", lk)
           /\ AcquireShared(p, lk, wchan, hold[p], e)
    BY <1>4 DEF LK_SHARED
  <2> QED
    BY <1>2, <1>3, <2>1, DowngradeLockOrd, ReturnOrd, AcquireSharedOrd
<1>5. CASE LK_EXCLUSIVE(p, e)
  <2>1. \/ hold[p].ex = 0
        \/ "CANRECURSE" \in ExtOf(e) /\ p # LK_KERNPROC
    BY <1>5 DEF LK_EXCLUSIVE, Orderly
  <2> QED
    BY <1>2, <1>5, <2>1, ExclusiveRequestOrd DEF LK_EXCLUSIVE
<1>6. CASE LK_UPGRADE(p, e) \/ LK_EXCLUPGRADE(p, e)
  BY <1>6 DEF LK_UPGRADE, LK_EXCLUPGRADE, Begin, Orderly, NoUpgrades
<1>7. CASE LK_DOWNGRADE(p, e)
  <2>1. lk.lockholder = p /\ lk.exclusivecount # 0
    BY <1>3, <1>7 DEF LK_DOWNGRADE, Orderly
  <2> QED
    BY <1>2, <1>7, <2>1, DowngradeLockOrd DEF LK_DOWNGRADE
<1>8. CASE LK_DRAIN(p, e)
  <2>1. lk.lockholder # p
    BY <1>3, <1>8 DEF LK_DRAIN, Orderly, Holds, LockOK, Holding
  <2>2. \/ Return(p, lk, wchan, hold[p])
        \/ /\ "NOWAIT" \in ExtOf(e) => ~Wanted("drain", lk)
           /\ AcquireDrain(p, lk, wchan, hold[p], e)
    BY <1>8, <2>1 DEF LK_DRAIN
  <2> QED
    BY <1>2, <2>2, ReturnOrd, AcquireDrainOrd
<1> QED
  BY <1>4, <1>5, <1>6, <1>7, <1>8

(* A release by a process that holds the lock.                              *)
LEMMA ReleaseOrd ==
  ASSUME Orderly, Calm, LockOK(lk, hold), OrdOK(lk, pc), NEW p \in Proc, NEW e,
         LK_RELEASE(p, e)
  PROVE  OrdGoal
<1> DEFINE D == (lk.flags \ {"DRAINING"}) \cup
                  (IF "REENABLE" \in e THEN {} ELSE {"DRAINED"})
           L == IF "DRAINING" \notin lk.flags THEN lk ELSE [lk EXCEPT !.flags = D]
           X == [L EXCEPT !.exclusivecount = @ - 1]
           Y == [L EXCEPT !.sharecount = @ - 1]
           M == IF L.exclusivecount # 0
                THEN IF X.exclusivecount = 0 THEN NoHolder(X) ELSE X
                ELSE IF L.sharecount # 0 THEN Y
                ELSE L
           h == IF hold[p].ex > 0 THEN [hold[p] EXCEPT !.ex = @ - 1]
                ELSE IF hold[p].sh > 0 THEN [hold[p] EXCEPT !.sh = @ - 1]
                ELSE hold[p]
           Same(K) == /\ "WANT_EXCL" \in K.flags <=> "WANT_EXCL" \in lk.flags
                      /\ "WANT_UPGRADE" \in K.flags <=> "WANT_UPGRADE" \in lk.flags
<1>1. IF L.exclusivecount # 0 /\ L.lockholder # p THEN Panic(L)
      ELSE Return(p, M, WakeWaiters(M, wchan), h)
  BY DEF LK_RELEASE
<1>2. Idle(p) = pc /\ lk \in Lock
  BY DEF Calm, TypeOK, Idle, LK_RELEASE, Begin
<1> HIDE DEF h
<1>3. /\ L \in Lock /\ L.exclusivecount = lk.exclusivecount /\ Same(L)
      /\ L.lockholder = lk.lockholder
  <2>1. /\ D \in SUBSET Flags
        /\ "WANT_EXCL" \in D <=> "WANT_EXCL" \in lk.flags
        /\ "WANT_UPGRADE" \in D <=> "WANT_UPGRADE" \in lk.flags
    BY <1>2 DEF Lock, Flags, Busy
  <2> HIDE DEF D
  <2> QED
    BY <1>2, <2>1 DEF Lock
<1> HIDE DEF L
<1>4. X \in Lock /\ X.flags = L.flags /\ X.exclusivecount = L.exclusivecount - 1
  BY <1>3 DEF Lock
<1>5. Y \in Lock /\ Y.flags = L.flags /\ Y.exclusivecount = L.exclusivecount
  BY <1>3 DEF Lock
<1>6. /\ M \in {L, X, Y, NoHolder(X)}
      /\ L.exclusivecount = 0 => M \in {L, Y}
  <2> HIDE DEF X, Y
  <2> QED
    OBVIOUS
<1>7. L.exclusivecount # 0 => L.lockholder = p
  <2>1. Holds(p) > 0
    BY DEF LK_RELEASE, Orderly
  <2>2. lk.exclusivecount # 0 => hold[p].sh = 0
    BY NoneCounted DEF LockOK, Lock
  <2>3. lk.exclusivecount # 0 => lk.lockholder = p
    BY <2>1, <2>2 DEF LockOK, Holding, Holds
  <2> QED
    BY <1>3, <2>3
<1>8. Return(p, M, WakeWaiters(M, wchan), h)
  BY <1>1, <1>7
<1> HIDE DEF X, Y, M
<1>9. NoHolder(X) \in Lock /\ NoHolder(X).flags = L.flags \ {"HAVE_EXCL"}
  BY <1>4, NoHolderType DEF NoHolder, Lock
<1>10. Same(NoHolder(X)) /\ Same(X) /\ Same(Y)
  BY <1>3, <1>4, <1>5, <1>9
<1>11. M \in Lock /\ Same(M) /\ (L.exclusivecount = 0 => M.exclusivecount = 0)
  BY <1>3, <1>4, <1>5, <1>6, <1>9, <1>10
<1>12. OrdOK(M, Idle(p))
  BY <1>2, <1>3, <1>11 DEF OrdOK
<1> QED
  BY <1>8, <1>12, ReturnOrd

(* The rest of a call after tsleep(), whether it failed or not.             *)
LEMMA ResumeOrd ==
  ASSUME Calm, LockOK(lk, hold), OwnOK(lk, pc), OrdOK(lk, pc), NEW p \in Proc,
         Resume(p)
  PROVE  OrdGoal
<1> PICK error \in BOOLEAN : \/ ResumeShared(p, error)
                             \/ ResumeUpgrade(p, error)
                             \/ ResumeWantExcl(p, error)
                             \/ ResumeExcl(p, error)
                             \/ ResumeDrain(p, error)
  BY DEF Resume
<1>1. /\ Idle(p)[p] = "idle"
      /\ \A q \in Proc \ {p} : Idle(p)[q] = pc[q]
  BY DEF Calm, TypeOK, Idle
<1>2. lk \in Lock
  BY DEF OrdOK
<1>3. /\ Awake \in Lock /\ Awake.flags = lk.flags
      /\ Awake.exclusivecount = lk.exclusivecount
  BY <1>2 DEF Awake, Lock
<1>4. \A f \in Busy : /\ Clear(f) \in Lock /\ Clear(f).flags = lk.flags \ {f}
                      /\ Clear(f).exclusivecount = lk.exclusivecount
  <2> HIDE DEF Awake
  <2> QED
    BY <1>3 DEF Clear, Lock
<1> HIDE DEF Awake, Clear
<1>5. /\ OrdOK(lk, Idle(p)) /\ OrdOK(Awake, Idle(p))
      /\ OrdOK(Clear("WANT_EXCL"), Idle(p))
  BY <1>1, <1>3, <1>4, WantBusy DEF OrdOK
<1>6. "NOWAIT" \notin ExtOf(ext[p])
  BY DEF Calm, NoWaitNeverSleeps, ResumeShared, ResumeUpgrade, ResumeWantExcl,
     ResumeExcl, ResumeDrain, Runnable
<1>7. pc[p] = "excl" => Awake.exclusivecount = 0
  BY <1>3 DEF OwnOK, Owned, OrdOK
<1>8. "HAVE_EXCL" \notin Awake.flags => Awake.exclusivecount = 0
  BY <1>2, <1>3 DEF LockOK, Lock
<1>9. \/ Return(p, Awake, wchan, hold[p])
      \/ Return(p, Clear("WANT_EXCL"), wchan, hold[p])
      \/ AcquireShared(p, Awake, wchan, hold[p], ext[p])
      \/ AcquireWantExcl(p, Awake, wchan, hold[p], ext[p])
      \/ pc[p] = "excl" /\ AcquireExcl(p, Awake, wchan, hold[p], ext[p])
      \/ AcquireDrain(p, lk, wchan, hold[p], ext[p])
      \/ /\ lk' = lk /\ pc' = Idle(p) /\ panicked' = panicked
         /\ ext' = [ext EXCEPT ![p] = {}]
  BY DEF OrdOK, ResumeShared, ResumeUpgrade, ResumeWantExcl, ResumeExcl, ResumeDrain,
         Runnable, Idle
<1>10. ASSUME lk' = lk, pc' = Idle(p), panicked' = panicked,
              ext' = [ext EXCEPT ![p] = {}]
       PROVE  OrdGoal
  <2>1. NoWaitNeverSleeps'
    BY <1>1, <1>10 DEF Calm, TypeOK, NoWaitNeverSleeps
  <2> QED
    BY <1>5, <1>10, <2>1 DEF OrdGoal, Calm
<1> QED
  BY <1>5, <1>6, <1>7, <1>8, <1>9, <1>10, ReturnOrd, AcquireSharedOrd,
     AcquireWantExclOrd, AcquireExclOrd, AcquireDrainOrd

-----------------------------------------------------------------------------
(* The invariant of an orderly lock.                                        *)

OrdInv == /\ FlagInv
          /\ ~panicked
          /\ OrdOK(lk, pc)
          /\ NoWaitNeverSleeps

(* OrdInv holds initially.                                                  *)
LEMMA OrdInit == Init => OrdInv
<1> SUFFICES ASSUME Init PROVE OrdInv
  OBVIOUS
<1>1. OrdOK(lk, pc)
  BY DEF Init, OrdOK, FreshLock, Lock
<1> QED
  BY <1>1, FlagInit DEF OrdInv, Init, NoWaitNeverSleeps

(* Every step of an orderly lock keeps OrdInv.                              *)
LEMMA OrdNext ==
  ASSUME Orderly, OrdInv, [Next]_vars
  PROVE  OrdInv'
<1>1. FlagInv'
  BY FlagNext DEF OrdInv
<1> SUFFICES OrdGoal
  BY <1>1 DEF OrdInv, OrdGoal
<1>2. /\ Calm /\ LockOK(lk, hold) /\ OwnOK(lk, pc) /\ OrdOK(lk, pc)
      /\ WaitOK(lk, pc)
  BY DEF OrdInv, FlagInv, Inv, IInv, Calm
<1>3. ASSUME NEW p \in Proc, Request(p) PROVE OrdGoal
  BY <1>2, <1>3, RequestOrd, ReleaseOrd DEF Request
<1>4. ASSUME NEW p \in Proc, Resume(p) PROVE OrdGoal
  BY <1>2, <1>4, ResumeOrd
<1>5. ASSUME NEW p \in Proc, NEW cause \in {"signal", "timeout"}, Interrupt(p, cause)
      PROVE  OrdGoal
  BY <1>2, <1>5 DEF Interrupt, OrdGoal, Calm, NoWaitNeverSleeps
<1>6. ASSUME NEW p \in Proc, NEW type \in RequestTypes, UseDecommissioned(p, type)
      PROVE  OrdGoal
  BY <1>6 DEF UseDecommissioned, Orderly
<1>7. CASE LockInit
  <2>1. OrdOK(FreshLock, pc)
    BY <1>2 DEF FreshLock, OrdOK, Lock
  <2> QED
    BY <1>2, <1>7, <2>1 DEF LockInit, OrdGoal, Calm, NoWaitNeverSleeps
<1>8. CASE UNCHANGED vars
  BY <1>2, <1>8 DEF vars, OrdGoal, Calm, NoWaitNeverSleeps
<1> QED
  BY <1>3, <1>4, <1>5, <1>6, <1>7, <1>8 DEF Next

(* In every state of an orderly lock, OrdInv holds.                         *)
LEMMA OrdInvariance == ASSUME Orderly PROVE Spec => []OrdInv
<1>1. OrdInv /\ [Next]_vars => OrdInv'
  BY OrdNext
<1> QED
  BY <1>1, OrdInit, PTL DEF Spec

(* lockmgr() does not panic when its clients never upgrade and keep the     *)
(* rules of lock.h, even if signals and timeouts end their sleeps.          *)
THEOREM NoPanicHolds == ASSUME Orderly PROVE Spec => []NoPanic
<1>1. OrdInv => NoPanic
  BY DEF OrdInv, NoPanic
<1> QED
  BY <1>1, OrdInvariance, PTL

(* Nor does it put a process that said LK_NOWAIT to sleep.                  *)
THEOREM NoWaitNeverSleepsHolds == ASSUME Orderly PROVE Spec => []NoWaitNeverSleeps
<1>1. OrdInv => NoWaitNeverSleeps
  BY DEF OrdInv
<1> QED
  BY <1>1, OrdInvariance, PTL

-----------------------------------------------------------------------------
(* Sleepers.  L is the lock, P the pc and W the wait channels of a state.   *)

(* No sleep of the lock can fail, and no request fails after a sleep.       *)
SoundSleep == /\ ~Catch /\ ~Timo
              /\ "SLEEPFAIL" \notin InitFlags
              /\ \A e \in ExtFlags : "SLEEPFAIL" \notin e

NoErrors == \A p \in Proc : intr[p] = "none" /\ "SLEEPFAIL" \notin ext[p]

(* A sleeper of ACQUIRE waits for something that is still so; one of        *)
(* LK_DRAIN is announced by LK_WAITDRAIN.                                   *)
Awaited(L, P, W) ==
  \A p \in Proc :
    /\ W[p] = "lk" => P[p] \in AcquireSites /\ Wanted(P[p], L)
    /\ W[p] = "lk_flags" => P[p] = "drain" /\ "WAITDRAIN" \in L.flags

DrainAwaited(L, W) == \A p \in Proc : W[p] = "lk_flags" => Wanted("drain", L)

(* In the middle of a call of p: the lock, its counts and its sleepers.     *)
Middle(p, L, W) ==
  /\ L \in Lock /\ W \in Channels
  /\ L.sharecount >= 0 /\ L.waitcount >= 0
  /\ L.waitcount = 0 => \A q \in Proc : Idle(p)[q] \notin AcquireSites
  /\ Awaited(L, Idle(p), W)

SleepGoal == \/ panicked'
             \/ /\ Awaited(lk', pc', wchan') /\ DrainAwaited(lk', wchan')
                /\ NoErrors'

(* lk_waitcount is 0 exactly when nobody sleeps in ACQUIRE.                 *)
LEMMA CountedNone ==
  ASSUME NEW L, NEW P, Counted(L, P)
  PROVE  /\ L.waitcount >= 0
         /\ L.waitcount = 0 <=> \A q \in Proc : P[q] \notin AcquireSites
<1>1. /\ IsFiniteSet(WaitingIn(P)) /\ L.waitcount = Cardinality(WaitingIn(P))
  BY DEF Counted
<1>2. L.waitcount \in Nat /\ (L.waitcount = 0 <=> WaitingIn(P) = {})
  BY <1>1, FS_CardinalityType, FS_EmptySet
<1> QED
  BY <1>2 DEF WaitingIn

(* What an ACQUIRE site waits for depends on the flags that make the lock   *)
(* busy and on whether there are shares, and setting more keeps it.         *)
LEMMA MoreWanted ==
  ASSUME NEW L, NEW M, NEW site \in AcquireSites, Wanted(site, L),
         L.flags \cap Busy \subseteq M.flags, L.sharecount # 0 => M.sharecount # 0
  PROVE  Wanted(site, M)
BY DEF Wanted, AcquireSites, Busy

(* So a step that only adds keeps the sleepers waiting for something.       *)
LEMMA MoreAwaited ==
  ASSUME NEW L, NEW M, NEW P, NEW W, Awaited(L, P, W),
         L.flags \subseteq M.flags, L.sharecount # 0 => M.sharecount # 0
  PROVE  Awaited(M, P, W)
<1>1. L.flags \cap Busy \subseteq M.flags
  OBVIOUS
<1> QED
  BY <1>1, MoreWanted DEF Awaited

(* wakeup() on a channel leaves the sleepers of the other one.              *)
LEMMA WakeupAt ==
  ASSUME NEW W \in Channels, NEW c, NEW q \in Proc
  PROVE  Wakeup(W, c)[q] = IF W[q] = c THEN "none" ELSE W[q]
BY DEF Wakeup

(* The wakeup() at the end of a release leaves no sleeper of ACQUIRE.       *)
LEMMA WokenAwaited ==
  ASSUME NEW p \in Proc, NEW L, NEW W, Middle(p, L, W), NEW M,
         M.waitcount = L.waitcount,
         "WAITDRAIN" \in L.flags => "WAITDRAIN" \in M.flags
  PROVE  Awaited(M, Idle(p), WakeWaiters(M, W))
<1>1. \A q \in Proc : WakeWaiters(M, W)[q] # "lk"
  <2>1. CASE M.waitcount # 0
    BY <2>1, WakeupAt DEF WakeWaiters, Middle
  <2>2. CASE M.waitcount = 0
    <3>1. \A q \in Proc : W[q] # "lk"
      BY <2>2 DEF Middle, Awaited
    <3> QED
      BY <2>2, <3>1 DEF WakeWaiters
  <2> QED
    BY <2>1, <2>2
<1>2. \A q \in Proc : WakeWaiters(M, W)[q] = "lk_flags" => W[q] = "lk_flags"
  BY WakeupAt DEF WakeWaiters, Middle
<1> QED
  BY <1>1, <1>2 DEF Middle, Awaited

(* The end of a call wakes those that drain the lock if it became quiet.    *)
LEMMA ReturnSleeps ==
  ASSUME TypeOK, NoErrors, NEW p \in Proc, NEW L \in Lock, NEW W \in Channels, NEW h,
         Awaited(L, Idle(p), W), Return(p, L, W, h)
  PROVE  SleepGoal
<1> DEFINE M == [L EXCEPT !.flags = @ \ {"WAITDRAIN"}]
<1>1. M.flags = L.flags \ {"WAITDRAIN"} /\ M.sharecount = L.sharecount
  BY DEF Lock
<1>2. pc' = Idle(p) /\ NoErrors'
  BY DEF Return, Idle, NoErrors, TypeOK
<1>3. CASE "WAITDRAIN" \in L.flags /\ ~Wanted("drain", L)
  <2>1. lk' = M /\ wchan' = Wakeup(W, "lk_flags")
    BY <1>3 DEF Return
  <2> HIDE DEF M
  <2>2. L.flags \cap Busy \subseteq M.flags
    BY <1>1 DEF Busy
  <2>3. \A q \in Proc : /\ wchan'[q] # "lk_flags"
                        /\ wchan'[q] = "lk" => W[q] = "lk"
    BY <2>1, WakeupAt
  <2>4. Awaited(lk', pc', wchan')
    BY <1>1, <1>2, <2>1, <2>2, <2>3, MoreWanted DEF Awaited
  <2> QED
    BY <1>2, <2>3, <2>4 DEF SleepGoal, DrainAwaited
<1>4. CASE ~("WAITDRAIN" \in L.flags /\ ~Wanted("drain", L))
  <2>1. lk' = L /\ wchan' = W
    BY <1>4 DEF Return
  <2>2. DrainAwaited(L, W)
    BY <1>4 DEF Awaited, DrainAwaited
  <2> QED
    BY <1>2, <2>1, <2>2 DEF SleepGoal
<1> QED
  BY <1>3, <1>4

(* A process that goes to sleep waits for something, and in ACQUIRE gives   *)
(* those that drain the lock something more to wait for.                    *)
LEMMA SleepSleeps ==
  ASSUME TypeOK, NoErrors, NEW p \in Proc, NEW L, NEW W, NEW h, NEW e,
         NEW site \in Sites, Middle(p, L, W), Wanted(site, L),
         "SLEEPFAIL" \notin e,
         site = "drain" => \A q \in Proc : Idle(p)[q] # "drain",
         SleepAt(p, site, L, W, h, e)
  PROVE  SleepGoal
<1>1. /\ pc'[p] = site /\ wchan'[p] = Channel(site)
      /\ \A q \in Proc \ {p} : pc'[q] = Idle(p)[q] /\ wchan'[q] = W[q]
  BY DEF SleepAt, Idle, TypeOK, Middle, Channels
<1>2. NoErrors'
  BY DEF SleepAt, NoErrors, TypeOK
<1>3. CASE site = "drain"
  <2>1. lk' = [L EXCEPT !.flags = @ \cup {"WAITDRAIN"}]
    BY <1>3 DEF SleepAt
  <2>2. /\ lk'.flags = L.flags \cup {"WAITDRAIN"} /\ lk'.sharecount = L.sharecount
        /\ lk'.waitcount = L.waitcount
    BY <2>1 DEF Middle, Lock
  <2>3. Awaited(lk', Idle(p), W)
    BY <2>2, MoreAwaited DEF Middle
  <2>4. wchan'[p] = "lk_flags"
    BY <1>1, <1>3 DEF Channel
  <2>5. Awaited(lk', pc', wchan')
    BY <1>1, <1>3, <2>2, <2>3, <2>4 DEF Awaited
  <2>6. Wanted("drain", lk')
    BY <1>3, <2>2 DEF Wanted
  <2> QED
    BY <1>2, <2>5, <2>6 DEF SleepGoal, DrainAwaited
<1>4. CASE site # "drain"
  <2>1. lk' = [L EXCEPT !.waitcount = @ + 1]
    BY <1>4 DEF SleepAt
  <2>2. /\ lk'.flags = L.flags /\ lk'.sharecount = L.sharecount
        /\ lk'.waitcount = L.waitcount + 1 /\ L.waitcount \in Int
    BY <2>1 DEF Middle, Lock
  <2>3. Awaited(lk', Idle(p), W)
    BY <2>2, MoreAwaited DEF Middle
  <2>4. site \in AcquireSites /\ wchan'[p] = "lk"
    BY <1>1, <1>4 DEF Channel, Sites
  <2>5. Wanted(site, lk')
    BY <2>2, <2>4, MoreWanted
  <2>6. Awaited(lk', pc', wchan')
    BY <1>1, <2>3, <2>4, <2>5 DEF Awaited
  <2>7. Wanted("drain", lk')
    BY <2>2 DEF Wanted, Middle
  <2> QED
    BY <1>2, <2>6, <2>7 DEF SleepGoal, DrainAwaited
<1> QED
  BY <1>3, <1>4

(* After a panic there is nothing to show.                                  *)
LEMMA PanicSleeps ==
  ASSUME NEW L, Panic(L)
  PROVE  SleepGoal
BY DEF Panic, SleepGoal

(* ACQUIRE of LK_SHARED.                                                    *)
LEMMA AcquireSharedSleeps ==
  ASSUME TypeOK, NoErrors, NEW p \in Proc, NEW L, NEW W, NEW h, NEW e,
         Middle(p, L, W), "SLEEPFAIL" \notin e, AcquireShared(p, L, W, h, e)
  PROVE  SleepGoal
<1> DEFINE N == [L EXCEPT !.sharecount = @ + 1]
<1>1. /\ N \in Lock /\ N.flags = L.flags /\ N.sharecount = L.sharecount + 1
      /\ L.sharecount >= 0 /\ L.sharecount \in Int
  BY DEF Middle, Lock
<1>2. \/ Wanted("shared", L) /\ SleepAt(p, "shared", L, W, h, e)
      \/ Return(p, N, W, [h EXCEPT !.sh = @ + 1])
  BY DEF AcquireShared
<1> HIDE DEF N
<1>3. Awaited(N, Idle(p), W)
  BY <1>1, MoreAwaited DEF Middle
<1>4. W \in Channels
  BY DEF Middle
<1> QED
  BY <1>1, <1>2, <1>3, <1>4, SleepSleeps, ReturnSleeps, SitesWait

(* The exclusive lock is granted to the only announced request: everybody   *)
(* else in ACQUIRE now waits for LK_HAVE_EXCL to be cleared.                *)
LEMMA GrantSleeps ==
  ASSUME TypeOK, NoErrors, NEW p \in Proc, NEW L \in Lock, NEW W \in Channels, NEW h,
         \A q \in Proc : W[q] = "lk" => Idle(p)[q] \in {"shared", "wantexcl"},
         \A q \in Proc : W[q] = "lk_flags" => Idle(p)[q] = "drain" /\ "WAITDRAIN" \in L.flags,
         GrantExcl(p, L, W, h)
  PROVE  SleepGoal
<1> DEFINE M == [L EXCEPT !.flags = @ \cup {"HAVE_EXCL"}, !.lockholder = p]
           N == [M EXCEPT !.exclusivecount = 1]
<1>1. M \in Lock /\ M.flags = L.flags \cup {"HAVE_EXCL"}
  <2>1. M \in Lock
    BY DEF Lock, Flags, Busy
  <2> QED
    BY <2>1 DEF Lock
<1>2. Panic(M) \/ Return(p, N, W, [h EXCEPT !.ex = 1])
  BY DEF GrantExcl
<1> HIDE DEF M
<1>3. N \in Lock /\ N.flags = M.flags
  BY <1>1 DEF Lock
<1> HIDE DEF N
<1>4. \A site \in {"shared", "wantexcl"} : site \in AcquireSites /\ Wanted(site, N)
  BY <1>1, <1>3, SitesWait DEF Wanted, Busy
<1>5. Awaited(N, Idle(p), W)
  BY <1>1, <1>3, <1>4 DEF Awaited
<1> QED
  BY <1>2, <1>3, <1>5, PanicSleeps, ReturnSleeps

(* The second ACQUIRE of LK_EXCLUSIVE, by the only announced request.       *)
LEMMA AcquireExclSleeps ==
  ASSUME TypeOK, NoErrors, NEW p \in Proc, NEW L, NEW W, NEW h, NEW e,
         Middle(p, L, W), "SLEEPFAIL" \notin e,
         \A q \in Proc : Idle(p)[q] \notin {"excl", "upgrade"},
         AcquireExcl(p, L, W, h, e)
  PROVE  SleepGoal
<1> DEFINE M == [L EXCEPT !.flags = @ \ {"WANT_EXCL"}]
<1>1. \/ Wanted("excl", L) /\ SleepAt(p, "excl", L, W, h, e)
      \/ GrantExcl(p, M, W, h)
  BY DEF AcquireExcl
<1>2. M \in Lock /\ M.flags = L.flags \ {"WANT_EXCL"} /\ W \in Channels
  BY DEF Middle, Lock
<1> HIDE DEF M
<1>3. /\ \A q \in Proc : W[q] = "lk" => Idle(p)[q] \in {"shared", "wantexcl"}
      /\ \A q \in Proc : W[q] = "lk_flags"
                         => Idle(p)[q] = "drain" /\ "WAITDRAIN" \in M.flags
  BY <1>2, SitesWait DEF Middle, Awaited
<1> QED
  BY <1>1, <1>2, <1>3, SleepSleeps, GrantSleeps, SitesWait

(* The first ACQUIRE of LK_EXCLUSIVE.                                       *)
LEMMA AcquireWantExclSleeps ==
  ASSUME TypeOK, NoErrors, NEW p \in Proc, NEW L, NEW W, NEW h, NEW e,
         Middle(p, L, W), "SLEEPFAIL" \notin e,
         Owned(L.flags, Idle(p)), \A q \in Proc : Idle(p)[q] # "upgrade",
         AcquireWantExcl(p, L, W, h, e)
  PROVE  SleepGoal
<1> DEFINE M == [L EXCEPT !.flags = @ \cup {"WANT_EXCL"}]
<1>1. CASE Wanted("wantexcl", L) /\ SleepAt(p, "wantexcl", L, W, h, e)
  BY <1>1, SleepSleeps, SitesWait
<1>2. CASE ~Wanted("wantexcl", L) /\ AcquireExcl(p, M, W, h, e)
  <2>1. \A q \in Proc : Idle(p)[q] \notin {"excl", "upgrade"}
    BY <1>2 DEF Wanted, Owned
  <2>2. /\ M \in Lock /\ M.flags = L.flags \cup {"WANT_EXCL"}
        /\ M.sharecount = L.sharecount /\ M.waitcount = L.waitcount
    <3>1. M \in Lock
      BY DEF Middle, Lock, Flags, Busy
    <3> QED
      BY <3>1 DEF Middle, Lock
  <2> HIDE DEF M
  <2>3. Awaited(M, Idle(p), W)
    BY <2>2, MoreAwaited DEF Middle
  <2>4. Middle(p, M, W)
    BY <2>2, <2>3 DEF Middle
  <2> QED
    BY <1>2, <2>1, <2>4, AcquireExclSleeps
<1> QED
  BY <1>1, <1>2 DEF AcquireWantExcl

(* The loop of LK_DRAIN, by the only process that drains the lock.          *)
LEMMA AcquireDrainSleeps ==
  ASSUME TypeOK, NoErrors, NEW p \in Proc, NEW L, NEW W, NEW h, NEW e,
         Middle(p, L, W), "SLEEPFAIL" \notin e,
         \A q \in Proc : Idle(p)[q] # "drain",
         AcquireDrain(p, L, W, h, e)
  PROVE  SleepGoal
<1> DEFINE M == [L EXCEPT !.flags = @ \cup {"DRAINING", "HAVE_EXCL"}, !.lockholder = p]
           N == [M EXCEPT !.exclusivecount = 1]
<1>1. CASE Wanted("drain", L) /\ SleepAt(p, "drain", L, W, h, e)
  BY <1>1, SleepSleeps, SitesWait
<1>2. CASE ~Wanted("drain", L) /\ Return(p, N, W, [h EXCEPT !.ex = 1])
  <2>1. M \in Lock
    BY DEF Middle, Lock, Flags, Busy
  <2> HIDE DEF M
  <2>2. N \in Lock
    BY <2>1 DEF Lock
  <2> HIDE DEF N
  <2>3. \A q \in Proc : W[q] \notin {"lk", "lk_flags"}
    BY <1>2 DEF Wanted, Middle, Awaited
  <2>4. Awaited(N, Idle(p), W) /\ W \in Channels
    BY <2>3 DEF Awaited, Middle
  <2> QED
    BY <1>2, <2>2, <2>4, ReturnSleeps
<1> QED
  BY <1>1, <1>2 DEF AcquireDrain

(* case LK_DOWNGRADE, which wakes everybody in ACQUIRE.                     *)
LEMMA DowngradeLockSleeps ==
  ASSUME TypeOK, NoErrors, NEW p \in Proc, NEW extra \in {0, 1},
         Middle(p, lk, wchan), DowngradeLock(p, extra)
  PROVE  SleepGoal
<1> DEFINE L == [lk EXCEPT !.sharecount = @ + extra]
           A == [L EXCEPT !.sharecount = @ + L.exclusivecount]
           S == [A EXCEPT !.exclusivecount = 0]
           M == NoHolder(S)
           g == [sh |-> hold[p].sh + extra + hold[p].ex, ex |-> 0]
<1>1. Panic(L) \/ Return(p, M, WakeWaiters(M, wchan), g)
  BY DEF DowngradeLock
<1>2. lk \in Lock /\ wchan \in Channels
  BY DEF Middle
<1>3. L \in Lock /\ L.flags = lk.flags /\ L.waitcount = lk.waitcount
  BY <1>2 DEF Lock
<1> HIDE DEF L
<1>4. A \in Lock /\ A.flags = lk.flags /\ A.waitcount = lk.waitcount
  BY <1>3 DEF Lock
<1> HIDE DEF A
<1>5. S \in Lock /\ S.flags = lk.flags /\ S.waitcount = lk.waitcount
  BY <1>4 DEF Lock
<1> HIDE DEF S
<1>6. M \in Lock /\ M.flags = lk.flags \ {"HAVE_EXCL"} /\ M.waitcount = lk.waitcount
  BY <1>5, NoHolderType DEF NoHolder, Lock
<1> HIDE DEF M
<1>7. Awaited(M, Idle(p), WakeWaiters(M, wchan))
  BY <1>6, WokenAwaited
<1> QED
  BY <1>1, <1>2, <1>6, <1>7, PanicSleeps, ReturnSleeps, WakeWaitersType

(* case LK_EXCLUSIVE.                                                       *)
LEMMA ExclusiveRequestSleeps ==
  ASSUME TypeOK, NoErrors, NEW p \in Proc, NEW L, NEW W, NEW h, NEW e,
         Middle(p, L, W), "SLEEPFAIL" \notin e,
         Owned(L.flags, Idle(p)), \A q \in Proc : Idle(p)[q] # "upgrade",
         ExclusiveRequest(p, L, W, h, e)
  PROVE  SleepGoal
<1> DEFINE N == [L EXCEPT !.exclusivecount = @ + 1]
<1>1. \/ Return(p, N, W, [h EXCEPT !.ex = @ + 1])
      \/ Panic(L)
      \/ Return(p, L, W, h)
      \/ AcquireWantExcl(p, L, W, h, e)
  BY DEF ExclusiveRequest
<1>2. N \in Lock /\ N.flags = L.flags /\ N.sharecount = L.sharecount
  BY DEF Middle, Lock
<1> HIDE DEF N
<1>3. Awaited(N, Idle(p), W)
  BY <1>2, MoreAwaited DEF Middle
<1>4. L \in Lock /\ W \in Channels /\ Awaited(L, Idle(p), W)
  BY DEF Middle
<1> QED
  BY <1>1, <1>2, <1>3, <1>4, ReturnSleeps, PanicSleeps, AcquireWantExclSleeps

(* The invariant of the sleepers.                                           *)
SleepInv == /\ Awaited(lk, pc, wchan)
            /\ DrainAwaited(lk, wchan)
            /\ NoErrors

(* A process that is not asleep may go on from the lock as it is.           *)
LEMMA MiddleStart ==
  ASSUME TypeOK, SleepInv, LockOK(lk, hold), Counted(lk, pc), NEW p \in Proc,
         wchan[p] = "none", pc[p] \notin AcquireSites
  PROVE  Middle(p, lk, wchan)
<1>1. /\ Idle(p)[p] = "idle"
      /\ \A q \in Proc \ {p} : Idle(p)[q] = pc[q]
  BY DEF TypeOK, Idle
<1>2. lk \in Lock /\ wchan \in Channels /\ lk.sharecount >= 0
  BY FS_CardinalityType DEF TypeOK, Channels, LockOK
<1>3. /\ lk.waitcount >= 0
      /\ lk.waitcount = 0 => \A q \in Proc : Idle(p)[q] \notin AcquireSites
  BY <1>1, CountedNone, SitesWait
<1>4. Awaited(lk, Idle(p), wchan)
  BY <1>1 DEF SleepInv, Awaited
<1> QED
  BY <1>2, <1>3, <1>4 DEF Middle

(* A process that leaves the tsleep() of ACQUIRE goes on from Awake.        *)
LEMMA MiddleAwake ==
  ASSUME TypeOK, SleepInv, LockOK(lk, hold), Counted(lk, pc), NEW p \in Proc,
         wchan[p] = "none", pc[p] \in AcquireSites
  PROVE  Middle(p, Awake, wchan)
<1>1. /\ Idle(p)[p] = "idle"
      /\ \A q \in Proc \ {p} : Idle(p)[q] = pc[q]
  BY DEF TypeOK, Idle
<1>2. lk \in Lock /\ wchan \in Channels /\ lk.sharecount >= 0
  BY FS_CardinalityType DEF TypeOK, Channels, LockOK
<1>3. /\ Awake \in Lock /\ Awake.flags = lk.flags /\ Awake.sharecount = lk.sharecount
      /\ Awake.waitcount = lk.waitcount - 1
  BY <1>2 DEF Awake, Lock
<1> HIDE DEF Awake
<1>4. WaitingIn(Idle(p)) = WaitingIn(pc) \ {p} /\ p \in WaitingIn(pc)
  BY <1>1, SitesWait DEF WaitingIn
<1>5. /\ IsFiniteSet(WaitingIn(Idle(p)))
      /\ Cardinality(WaitingIn(Idle(p))) = Cardinality(WaitingIn(pc)) - 1
  <2>1. IsFiniteSet(WaitingIn(pc))
    BY DEF Counted
  <2> QED
    BY <1>4, <2>1, FS_RemoveElement
<1>6. Counted(Awake, Idle(p))
  BY <1>1, <1>3, <1>5 DEF Counted
<1>7. /\ Awake.waitcount >= 0
      /\ Awake.waitcount = 0 => \A q \in Proc : Idle(p)[q] \notin AcquireSites
  BY <1>6, CountedNone
<1>8. Awaited(lk, Idle(p), wchan)
  BY <1>1 DEF SleepInv, Awaited
<1>9. Awaited(Awake, Idle(p), wchan)
  BY <1>3, <1>8, MoreAwaited
<1> QED
  BY <1>2, <1>3, <1>7, <1>9 DEF Middle

(* The facts a request starts from.                                         *)
LEMMA BeginSleeps ==
  ASSUME SoundSleep, OrdInv, SleepInv, NEW p \in Proc, NEW type, NEW e,
         Begin(p, type, e)
  PROVE  /\ Idle(p) = pc /\ Middle(p, lk, wchan) /\ "SLEEPFAIL" \notin e
         /\ Owned(lk.flags, Idle(p)) /\ \A q \in Proc : Idle(p)[q] # "upgrade"
<1>1. /\ TypeOK /\ LockOK(lk, hold) /\ Counted(lk, pc)
      /\ Owned(lk.flags, pc) /\ \A q \in Proc : pc[q] # "upgrade"
  BY DEF OrdInv, FlagInv, Inv, IInv, WaitOK, OwnOK, OrdOK
<1>2. pc[p] = "idle" /\ "SLEEPFAIL" \notin e
  BY DEF Begin, SoundSleep
<1>3. wchan[p] = "none" /\ pc[p] \notin AcquireSites
  BY <1>1, <1>2, SitesWait DEF SleepInv, Awaited, TypeOK
<1>4. Idle(p) = pc
  BY <1>1, <1>2 DEF Idle, TypeOK
<1> QED
  BY <1>1, <1>2, <1>3, <1>4, MiddleStart

(* Every request but LK_RELEASE.                                            *)
LEMMA RequestSleeps ==
  ASSUME Orderly, SoundSleep, OrdInv, SleepInv, NEW p \in Proc, NEW e,
         \/ LK_SHARED(p, e) \/ LK_EXCLUSIVE(p, e) \/ LK_UPGRADE(p, e)
         \/ LK_EXCLUPGRADE(p, e) \/ LK_DOWNGRADE(p, e) \/ LK_DRAIN(p, e)
  PROVE  SleepGoal
<1>1. \E type : Begin(p, type, e)
  BY DEF LK_SHARED, LK_EXCLUSIVE, LK_UPGRADE, LK_EXCLUPGRADE, LK_DOWNGRADE, LK_DRAIN
<1>2. /\ Idle(p) = pc /\ Middle(p, lk, wchan) /\ "SLEEPFAIL" \notin e
      /\ Owned(lk.flags, Idle(p)) /\ \A q \in Proc : Idle(p)[q] # "upgrade"
  BY <1>1, BeginSleeps
<1>3. TypeOK /\ NoErrors
  BY DEF OrdInv, FlagInv, Inv, IInv, SleepInv
<1>4. lk \in Lock /\ wchan \in Channels /\ Awaited(lk, Idle(p), wchan)
  BY <1>2 DEF Middle
<1>5. CASE LK_SHARED(p, e)
  <2>1. \/ DowngradeLock(p, 1)
        \/ Return(p, lk, wchan, hold[p])
        \/ AcquireShared(p, lk, wchan, hold[p], e)
    BY <1>5 DEF LK_SHARED
  <2> QED
    BY <1>2, <1>3, <1>4, <2>1, DowngradeLockSleeps, ReturnSleeps, AcquireSharedSleeps
<1>6. CASE LK_EXCLUSIVE(p, e)
  BY <1>2, <1>3, <1>6, ExclusiveRequestSleeps DEF LK_EXCLUSIVE
<1>7. CASE LK_UPGRADE(p, e) \/ LK_EXCLUPGRADE(p, e)
  BY <1>7 DEF LK_UPGRADE, LK_EXCLUPGRADE, Begin, Orderly, NoUpgrades
<1>8. CASE LK_DOWNGRADE(p, e)
  BY <1>2, <1>3, <1>8, DowngradeLockSleeps DEF LK_DOWNGRADE
<1>9. CASE LK_DRAIN(p, e)
  <2>1. \/ Panic(lk)
        \/ Return(p, lk, wchan, hold[p])
        \/ AcquireDrain(p, lk, wchan, hold[p], e)
    BY <1>9 DEF LK_DRAIN
  <2>2. \A q \in Proc : Idle(p)[q] # "drain"
    BY <1>2, <1>9 DEF LK_DRAIN
  <2> QED
    BY <1>2, <1>3, <1>4, <2>1, <2>2, PanicSleeps, ReturnSleeps, AcquireDrainSleeps
<1> QED
  BY <1>5, <1>6, <1>7, <1>8, <1>9

(* LK_RELEASE wakes everybody in ACQUIRE.                                   *)
LEMMA ReleaseSleeps ==
  ASSUME SoundSleep, OrdInv, SleepInv, NEW p \in Proc, NEW e, LK_RELEASE(p, e)
  PROVE  SleepGoal
<1> DEFINE D == (lk.flags \ {"DRAINING"}) \cup
                  (IF "REENABLE" \in e THEN {} ELSE {"DRAINED"})
           L == IF "DRAINING" \notin lk.flags THEN lk ELSE [lk EXCEPT !.flags = D]
           X == [L EXCEPT !.exclusivecount = @ - 1]
           Y == [L EXCEPT !.sharecount = @ - 1]
           M == IF L.exclusivecount # 0
                THEN IF X.exclusivecount = 0 THEN NoHolder(X) ELSE X
                ELSE IF L.sharecount # 0 THEN Y
                ELSE L
           h == IF hold[p].ex > 0 THEN [hold[p] EXCEPT !.ex = @ - 1]
                ELSE IF hold[p].sh > 0 THEN [hold[p] EXCEPT !.sh = @ - 1]
                ELSE hold[p]
           Same(K) == /\ K \in Lock /\ K.waitcount = lk.waitcount
                      /\ "WAITDRAIN" \in lk.flags => "WAITDRAIN" \in K.flags
<1>1. Panic(L) \/ Return(p, M, WakeWaiters(M, wchan), h)
  BY DEF LK_RELEASE
<1>2. Middle(p, lk, wchan) /\ TypeOK /\ NoErrors
  BY BeginSleeps DEF LK_RELEASE, OrdInv, FlagInv, Inv, IInv, SleepInv
<1>3. lk \in Lock /\ wchan \in Channels
  BY <1>2 DEF Middle
<1> HIDE DEF h
<1>4. Same(L)
  <2>1. D \in SUBSET Flags /\ ("WAITDRAIN" \in lk.flags => "WAITDRAIN" \in D)
    BY <1>3 DEF Lock, Flags, Busy
  <2> HIDE DEF D
  <2> QED
    BY <1>3, <2>1 DEF Lock
<1> HIDE DEF L
<1>5. Same(X) /\ Same(Y)
  BY <1>4 DEF Lock
<1>6. M \in {L, X, Y, NoHolder(X)}
  <2> HIDE DEF X, Y
  <2> QED
    OBVIOUS
<1> HIDE DEF X, Y, M
<1>7. Same(NoHolder(X))
  BY <1>5, NoHolderType DEF NoHolder, Lock
<1>8. Same(M)
  BY <1>4, <1>5, <1>6, <1>7
<1>9. Awaited(M, Idle(p), WakeWaiters(M, wchan))
  BY <1>2, <1>8, WokenAwaited
<1> QED
  BY <1>1, <1>2, <1>3, <1>8, <1>9, PanicSleeps, ReturnSleeps, WakeWaitersType

(* A process that was woken tries again: no sleep fails here.               *)
LEMMA ResumeSleeps ==
  ASSUME SoundSleep, OrdInv, SleepInv, NEW p \in Proc, Resume(p)
  PROVE  SleepGoal
<1> PICK error \in BOOLEAN : \/ ResumeShared(p, error)
                             \/ ResumeUpgrade(p, error)
                             \/ ResumeWantExcl(p, error)
                             \/ ResumeExcl(p, error)
                             \/ ResumeDrain(p, error)
  BY DEF Resume
<1>1. /\ TypeOK /\ NoErrors /\ LockOK(lk, hold) /\ Counted(lk, pc)
      /\ Owned(lk.flags, pc) /\ \A q \in Proc : pc[q] # "upgrade"
  BY DEF OrdInv, FlagInv, Inv, IInv, WaitOK, OwnOK, OrdOK, SleepInv
<1>2. /\ Idle(p)[p] = "idle"
      /\ \A q \in Proc \ {p} : Idle(p)[q] = pc[q]
  BY <1>1 DEF TypeOK, Idle
<1>3. "SLEEPFAIL" \notin ext[p] /\ "SLEEPFAIL" \notin ExtOf(ext[p])
  BY <1>1 DEF NoErrors, ExtOf, SoundSleep
<1>4. TsleepFails(p) = {FALSE}
  BY <1>1 DEF TsleepFails, NoErrors, SoundSleep
<1>5. wchan[p] = "none" /\ error \in TsleepFails(p)
  BY DEF ResumeShared, ResumeUpgrade, ResumeWantExcl, ResumeExcl, ResumeDrain, Runnable
<1>6. ~GivesUp(p, error)
  BY <1>3, <1>4, <1>5 DEF GivesUp
<1>7. \/ pc[p] = "shared"   /\ AcquireShared(p, Awake, wchan, hold[p], ext[p])
      \/ pc[p] = "wantexcl" /\ AcquireWantExcl(p, Awake, wchan, hold[p], ext[p])
      \/ pc[p] = "excl"     /\ AcquireExcl(p, Awake, wchan, hold[p], ext[p])
      \/ pc[p] = "drain"    /\ AcquireDrain(p, lk, wchan, hold[p], ext[p])
  BY <1>1, <1>6 DEF ResumeShared, ResumeUpgrade, ResumeWantExcl, ResumeExcl,
                    ResumeDrain, Runnable
<1>8. pc[p] \in AcquireSites => Middle(p, Awake, wchan)
  BY <1>1, <1>5, MiddleAwake
<1>9. lk \in Lock
  BY <1>1 DEF TypeOK
<1>10. Awake.flags = lk.flags
  BY <1>9 DEF Awake, Lock
<1> HIDE DEF Awake
<1>11. CASE pc[p] = "shared"
  BY <1>1, <1>3, <1>7, <1>8, <1>11, SitesWait, AcquireSharedSleeps
<1>12. CASE pc[p] = "wantexcl"
  <2>1. Owned(Awake.flags, Idle(p)) /\ \A q \in Proc : Idle(p)[q] # "upgrade"
    BY <1>1, <1>2, <1>10, <1>12 DEF Owned
  <2> QED
    BY <1>1, <1>3, <1>7, <1>8, <1>12, <2>1, SitesWait, AcquireWantExclSleeps
<1>13. CASE pc[p] = "excl"
  <2>1. \A q \in Proc : Idle(p)[q] \notin {"excl", "upgrade"}
    BY <1>1, <1>2, <1>13 DEF Owned
  <2> QED
    BY <1>1, <1>3, <1>7, <1>8, <1>13, <2>1, SitesWait, AcquireExclSleeps
<1>14. CASE pc[p] = "drain"
  <2>1. Middle(p, lk, wchan)
    BY <1>1, <1>5, <1>14, SitesWait, MiddleStart
  <2>2. \A q \in Proc : Idle(p)[q] # "drain"
    BY <1>1, <1>2, <1>14 DEF Counted
  <2> QED
    BY <1>1, <1>3, <1>7, <1>14, <2>1, <2>2, AcquireDrainSleeps
<1> QED
  BY <1>7, <1>11, <1>12, <1>13, <1>14

(* Every step of an orderly lock on which no sleep fails keeps SleepInv.    *)
LEMMA SleepNext ==
  ASSUME Orderly, SoundSleep, OrdInv, SleepInv, [Next]_vars
  PROVE  SleepInv'
<1>1. ~panicked'
  BY OrdNext DEF OrdInv
<1> SUFFICES SleepGoal
  BY <1>1 DEF SleepGoal, SleepInv
<1>2. ASSUME NEW p \in Proc, Request(p) PROVE SleepGoal
  BY <1>2, RequestSleeps, ReleaseSleeps DEF Request
<1>3. ASSUME NEW p \in Proc, Resume(p) PROVE SleepGoal
  BY <1>3, ResumeSleeps
<1>4. ASSUME NEW p \in Proc, NEW cause \in {"signal", "timeout"}, Interrupt(p, cause)
      PROVE  SleepGoal
  BY <1>4 DEF Interrupt, SoundSleep
<1>5. ASSUME NEW p \in Proc, NEW type \in RequestTypes, UseDecommissioned(p, type)
      PROVE  SleepGoal
  BY <1>5, PanicSleeps DEF UseDecommissioned
<1>6. CASE LockInit
  <2>1. \A p \in Proc : pc[p] = "idle"
    BY <1>6 DEF LockInit, OrdInv, FlagInv, Inv, WaitOK, Quiet, Retired
  <2>2. \A p \in Proc : wchan[p] \notin {"lk", "lk_flags"}
    BY <2>1, SitesWait DEF SleepInv, Awaited
  <2>3. wchan' = wchan /\ intr' = intr /\ ext' = ext
    BY <1>6 DEF LockInit
  <2>4. Awaited(lk', pc', wchan') /\ DrainAwaited(lk', wchan') /\ NoErrors'
    BY <2>2, <2>3 DEF Awaited, DrainAwaited, SleepInv, NoErrors
  <2> QED
    BY <2>4 DEF SleepGoal
<1>7. CASE UNCHANGED vars
  BY <1>7 DEF vars, SleepGoal, SleepInv, NoErrors
<1> QED
  BY <1>2, <1>3, <1>4, <1>5, <1>6, <1>7 DEF Next

(* Whoever sleeps in lockmgr() on an orderly lock waits for something that  *)
(* is still so: no change that ends a wait is made without a wakeup().      *)
THEOREM SleepersJustifiedHolds ==
  ASSUME Orderly, SoundSleep PROVE Spec => []SleepersJustified
<1>1. Init => SleepInv
  <2>1. Init => Awaited(lk, pc, wchan) /\ DrainAwaited(lk, wchan)
    BY DEF Init, Awaited, DrainAwaited
  <2> QED
    BY <2>1 DEF Init, SleepInv, NoErrors
<1>2. OrdInv /\ SleepInv /\ [Next]_vars => SleepInv'
  BY SleepNext
<1>3. OrdInv /\ SleepInv => SleepersJustified
  <2> SUFFICES ASSUME OrdInv, SleepInv PROVE NoForgottenSleeper /\ NoWaitNeverSleeps
    BY DEF SleepersJustified
  <2>1. TypeOK /\ NoWaitNeverSleeps
    BY DEF OrdInv, FlagInv, Inv, IInv
  <2>2. NoForgottenSleeper
    BY <2>1 DEF TypeOK, NoForgottenSleeper, SleepInv, Awaited, DrainAwaited
  <2> QED
    BY <2>1, <2>2
<1> QED
  BY <1>1, <1>2, <1>3, OrdInvariance, PTL DEF Spec
=============================================================================
