------------------------- MODULE LockMgrRefinement --------------------------
(***************************************************************************)
(* Who owns the two request flags of a lock, what that says about          *)
(* upgrades, and the proof that LockMgr implements RWLock.                 *)
(***************************************************************************)
EXTENDS LockMgrProofs

(* F is the set of flags of a lock, P the pc of a state: each request flag  *)
(* is set exactly while one process is in the wait it announces.            *)
Owned(F, P) ==
  /\ \A p, q \in Proc : P[p] = P[q] /\ P[p] \in {"excl", "upgrade"} => p = q
  /\ "WANT_EXCL" \in F <=> \E p \in Proc : P[p] = "excl"
  /\ "WANT_UPGRADE" \in F <=> \E p \in Proc : P[p] = "upgrade"

(* Nobody holds a lock exclusively while an upgrade of it is pending.       *)
NoOvertaker(L) == "WANT_UPGRADE" \in L.flags => L.exclusivecount = 0

OwnOK(L, P) == L \in Lock /\ Owned(L.flags, P) /\ NoOvertaker(L)

(* The flag a process keeps set while it sleeps at a site.                  *)
FlagOf(site) == CASE site = "excl"    -> {"WANT_EXCL"}
                  [] site = "upgrade" -> {"WANT_UPGRADE"}
                  [] OTHER            -> {}

(* As OwnOK, for a caller that has set the flag of site and not slept yet.  *)
OwnAt(L, P, site) ==
  /\ L \in Lock
  /\ FlagOf(site) \subseteq L.flags
  /\ Owned(L.flags \ FlagOf(site), P)
  /\ NoOvertaker(L)

OwnGoal == panicked' \/ OwnOK(lk', pc')

(* The flag of each site.                                                   *)
LEMMA SiteFlags ==
  /\ FlagOf("excl") = {"WANT_EXCL"}
  /\ FlagOf("upgrade") = {"WANT_UPGRADE"}
  /\ FlagOf("shared") = {} /\ FlagOf("wantexcl") = {} /\ FlagOf("drain") = {}
BY DEF FlagOf

(* Ownership depends on the two request flags only.                         *)
LEMMA SameOwned ==
  ASSUME NEW F, NEW G, NEW P, Owned(F, P),
         "WANT_EXCL" \in G <=> "WANT_EXCL" \in F,
         "WANT_UPGRADE" \in G <=> "WANT_UPGRADE" \in F
  PROVE  Owned(G, P)
BY DEF Owned

(* The end of a call keeps the owners of the flags.                         *)
LEMMA ReturnOwn ==
  ASSUME NEW p \in Proc, NEW L, NEW W, NEW h,
         OwnOK(L, Idle(p)), Return(p, L, W, h)
  PROVE  OwnGoal
<1> DEFINE M == [L EXCEPT !.flags = @ \ {"WAITDRAIN"}]
<1>1. M \in Lock /\ M.flags = L.flags \ {"WAITDRAIN"} /\ M.exclusivecount = L.exclusivecount
  BY DEF OwnOK, Lock
<1> HIDE DEF M
<1>2. Owned(M.flags, Idle(p))
  BY <1>1, SameOwned DEF OwnOK
<1>3. OwnOK(M, Idle(p))
  BY <1>1, <1>2 DEF OwnOK, NoOvertaker
<1>4. pc' = Idle(p) /\ lk' \in {L, M}
  BY DEF Return, Idle, M
<1> QED
  BY <1>3, <1>4 DEF OwnGoal

(* A process that goes to sleep becomes the owner of the flag of its site.  *)
LEMMA SleepOwn ==
  ASSUME TypeOK, NEW p \in Proc, NEW L, NEW W, NEW h, NEW e, NEW site \in Sites,
         OwnAt(L, Idle(p), site), SleepAt(p, site, L, W, h, e)
  PROVE  OwnGoal
<1>1. /\ pc'[p] = site /\ Idle(p)[p] = "idle"
      /\ \A q \in Proc \ {p} : pc'[q] = Idle(p)[q]
  BY DEF SleepAt, Idle, TypeOK
<1>2. lk' \in Lock /\ lk'.exclusivecount = L.exclusivecount
      /\ ("WANT_EXCL" \in lk'.flags <=> "WANT_EXCL" \in L.flags)
      /\ ("WANT_UPGRADE" \in lk'.flags <=> "WANT_UPGRADE" \in L.flags)
  <2>1. CASE site = "drain"
    BY <2>1 DEF SleepAt, OwnAt, Lock, Flags
  <2>2. CASE site # "drain"
    BY <2>2 DEF SleepAt, OwnAt, Lock
  <2> QED
    BY <2>1, <2>2
<1>3. Owned(L.flags, pc')
  <2>1. CASE site = "excl"
    BY <1>1, <2>1, SiteFlags DEF OwnAt, Owned
  <2>2. CASE site = "upgrade"
    BY <1>1, <2>2, SiteFlags DEF OwnAt, Owned
  <2>3. CASE site \notin {"excl", "upgrade"}
    <3>1. Owned(L.flags, Idle(p))
      BY <2>3 DEF OwnAt, FlagOf
    <3> QED
      BY <1>1, <2>3, <3>1 DEF Owned
  <2> QED
    BY <2>1, <2>2, <2>3
<1>4. Owned(lk'.flags, pc')
  BY <1>2, <1>3, SameOwned
<1> QED
  BY <1>2, <1>4 DEF OwnGoal, OwnOK, OwnAt, NoOvertaker

(* After a panic there is nothing to show.                                  *)
LEMMA PanicOwn ==
  ASSUME NEW L, Panic(L)
  PROVE  OwnGoal
BY DEF Panic, OwnGoal

(* An exclusive lock is granted when no upgrade is pending.                 *)
LEMMA GrantOwn ==
  ASSUME NEW p \in Proc, NEW L, NEW W, NEW h, L \in Lock, Owned(L.flags, Idle(p)),
         "WANT_UPGRADE" \notin L.flags, GrantExcl(p, L, W, h)
  PROVE  OwnGoal
<1> DEFINE M == [L EXCEPT !.flags = @ \cup {"HAVE_EXCL"}, !.lockholder = p]
           N == [M EXCEPT !.exclusivecount = 1]
<1>1. M \in Lock /\ M.flags = L.flags \cup {"HAVE_EXCL"}
  <2>1. M \in Lock
    BY DEF Lock, Flags, Busy
  <2> QED
    BY <2>1 DEF Lock
<1>2. Panic(M) \/ Return(p, N, W, [h EXCEPT !.ex = 1])
  BY DEF GrantExcl
<1> HIDE DEF M
<1>3. N \in Lock /\ N.flags = M.flags
  BY <1>1 DEF Lock
<1> HIDE DEF N
<1>4. OwnOK(N, Idle(p))
  BY <1>1, <1>3, SameOwned DEF OwnOK, NoOvertaker
<1> QED
  BY <1>2, <1>4, PanicOwn, ReturnOwn

(* A site without a flag asks for nothing more than OwnOK.                  *)
LEMMA PlainSite ==
  ASSUME NEW L, NEW P, OwnOK(L, P), NEW site \in {"shared", "wantexcl", "drain"}
  PROVE  OwnAt(L, P, site)
<1>1. FlagOf(site) = {}
  BY SiteFlags
<1>2. L.flags \ FlagOf(site) = L.flags
  BY <1>1
<1> QED
  BY <1>1, <1>2 DEF OwnOK, OwnAt

(* Setting the flag of a site that nobody sleeps at.                        *)
LEMMA SetFlag ==
  ASSUME NEW L, NEW P, OwnOK(L, P), NEW f \in Busy, f \notin L.flags,
         NEW site, FlagOf(site) = {f},
         f = "WANT_UPGRADE" => L.exclusivecount = 0
  PROVE  OwnAt([L EXCEPT !.flags = @ \cup {f}], P, site)
<1> DEFINE M == [L EXCEPT !.flags = @ \cup {f}]
<1>1. M \in Lock /\ M.flags = L.flags \cup {f} /\ M.exclusivecount = L.exclusivecount
  BY DEF OwnOK, Lock, Flags
<1> HIDE DEF M
<1>2. M.flags \ {f} = L.flags
  BY <1>1
<1>3. NoOvertaker(M)
  BY <1>1 DEF OwnOK, NoOvertaker
<1>4. OwnAt(M, P, site)
  BY <1>1, <1>2, <1>3 DEF OwnOK, OwnAt
<1> QED
  BY <1>4 DEF M

(* The grants, and the request types with several parts.                    *)
LEMMA AcquireSharedOwn ==
  ASSUME TypeOK, NEW p \in Proc, NEW L, NEW W, NEW h, NEW e,
         OwnOK(L, Idle(p)), AcquireShared(p, L, W, h, e)
  PROVE  OwnGoal
<1> DEFINE N == [L EXCEPT !.sharecount = @ + 1]
<1>1. N \in Lock /\ N.flags = L.flags /\ N.exclusivecount = L.exclusivecount
  BY DEF OwnOK, Lock
<1>2. \/ SleepAt(p, "shared", L, W, h, e)
      \/ Return(p, N, W, [h EXCEPT !.sh = @ + 1])
  BY DEF AcquireShared
<1> HIDE DEF N
<1>3. OwnOK(N, Idle(p))
  BY <1>1 DEF OwnOK, NoOvertaker
<1>4. OwnAt(L, Idle(p), "shared")
  BY PlainSite
<1> QED
  BY <1>2, <1>3, <1>4, SleepOwn, ReturnOwn, SitesWait

(* ACQUIRE of LK_UPGRADE, by the process that set LK_WANT_UPGRADE.          *)
LEMMA AcquireUpgradeOwn ==
  ASSUME TypeOK, NEW p \in Proc, NEW L, NEW W, NEW h, NEW e,
         OwnAt(L, Idle(p), "upgrade"), AcquireUpgrade(p, L, W, h, e)
  PROVE  OwnGoal
<1> DEFINE M == [L EXCEPT !.flags = @ \ {"WANT_UPGRADE"}]
<1>1. SleepAt(p, "upgrade", L, W, h, e) \/ GrantExcl(p, M, W, h)
  BY DEF AcquireUpgrade
<1>2. M \in Lock /\ M.flags = L.flags \ {"WANT_UPGRADE"}
  BY DEF OwnAt, Lock
<1> HIDE DEF M
<1>3. Owned(M.flags, Idle(p)) /\ "WANT_UPGRADE" \notin M.flags
  BY <1>2, SiteFlags DEF OwnAt
<1> QED
  BY <1>1, <1>2, <1>3, SleepOwn, GrantOwn, SitesWait

(* The second ACQUIRE of LK_EXCLUSIVE, after LK_WANT_EXCL was set.          *)
LEMMA AcquireExclOwn ==
  ASSUME TypeOK, NEW p \in Proc, NEW L, NEW W, NEW h, NEW e,
         OwnAt(L, Idle(p), "excl"), AcquireExcl(p, L, W, h, e)
  PROVE  OwnGoal
<1> DEFINE M == [L EXCEPT !.flags = @ \ {"WANT_EXCL"}]
<1>1. \/ SleepAt(p, "excl", L, W, h, e)
      \/ ~Wanted("excl", L) /\ GrantExcl(p, M, W, h)
  BY DEF AcquireExcl
<1>2. M \in Lock /\ M.flags = L.flags \ {"WANT_EXCL"}
  BY DEF OwnAt, Lock
<1> HIDE DEF M
<1>3. Owned(M.flags, Idle(p))
  BY <1>2, SiteFlags DEF OwnAt
<1>4. ~Wanted("excl", L) => "WANT_UPGRADE" \notin M.flags
  BY <1>2 DEF Wanted
<1> QED
  BY <1>1, <1>2, <1>3, <1>4, SleepOwn, GrantOwn, SitesWait

(* The first ACQUIRE of LK_EXCLUSIVE.                                       *)
LEMMA AcquireWantExclOwn ==
  ASSUME TypeOK, NEW p \in Proc, NEW L, NEW W, NEW h, NEW e,
         OwnOK(L, Idle(p)), AcquireWantExcl(p, L, W, h, e)
  PROVE  OwnGoal
<1> DEFINE M == [L EXCEPT !.flags = @ \cup {"WANT_EXCL"}]
<1>1. CASE SleepAt(p, "wantexcl", L, W, h, e)
  BY <1>1, PlainSite, SleepOwn, SitesWait
<1>2. CASE ~Wanted("wantexcl", L) /\ AcquireExcl(p, M, W, h, e)
  <2>1. "WANT_EXCL" \notin L.flags
    BY <1>2 DEF Wanted
  <2>2. OwnAt(M, Idle(p), "excl")
    BY <2>1, SetFlag, SiteFlags, WantBusy
  <2> HIDE DEF M
  <2> QED
    BY <1>2, <2>2, AcquireExclOwn
<1> QED
  BY <1>1, <1>2 DEF AcquireWantExcl

(* The loop of LK_DRAIN.                                                    *)
LEMMA AcquireDrainOwn ==
  ASSUME TypeOK, NEW p \in Proc, NEW L, NEW W, NEW h, NEW e,
         OwnOK(L, Idle(p)), AcquireDrain(p, L, W, h, e)
  PROVE  OwnGoal
<1> DEFINE M == [L EXCEPT !.flags = @ \cup {"DRAINING", "HAVE_EXCL"}, !.lockholder = p]
           N == [M EXCEPT !.exclusivecount = 1]
<1>1. CASE SleepAt(p, "drain", L, W, h, e)
  BY <1>1, PlainSite, SleepOwn, SitesWait
<1>2. CASE ~Wanted("drain", L) /\ Return(p, N, W, [h EXCEPT !.ex = 1])
  <2>1. M \in Lock /\ M.flags = L.flags \cup {"DRAINING", "HAVE_EXCL"}
    <3>1. M \in Lock
      BY DEF OwnOK, Lock, Flags, Busy
    <3> QED
      BY <3>1 DEF OwnOK, Lock
  <2> HIDE DEF M
  <2>2. N \in Lock /\ N.flags = M.flags
    BY <2>1 DEF Lock
  <2> HIDE DEF N
  <2>3. "WANT_UPGRADE" \notin L.flags
    BY <1>2 DEF Wanted, Busy
  <2>4. OwnOK(N, Idle(p))
    BY <2>1, <2>2, <2>3, SameOwned DEF OwnOK, NoOvertaker
  <2> QED
    BY <1>2, <2>4, ReturnOwn
<1> QED
  BY <1>1, <1>2 DEF AcquireDrain

(* case LK_DOWNGRADE.                                                       *)
LEMMA DowngradeLockOwn ==
  ASSUME NEW p \in Proc, NEW extra \in {0, 1}, OwnOK(lk, Idle(p)),
         DowngradeLock(p, extra)
  PROVE  OwnGoal
<1> DEFINE L == [lk EXCEPT !.sharecount = @ + extra]
           A == [L EXCEPT !.sharecount = @ + L.exclusivecount]
           S == [A EXCEPT !.exclusivecount = 0]
           M == NoHolder(S)
           g == [sh |-> hold[p].sh + extra + hold[p].ex, ex |-> 0]
<1>1. Panic(L) \/ Return(p, M, WakeWaiters(M, wchan), g)
  BY DEF DowngradeLock
<1>2. lk \in Lock
  BY DEF OwnOK
<1>3. L \in Lock /\ L.flags = lk.flags
  BY <1>2 DEF Lock
<1> HIDE DEF L
<1>4. A \in Lock /\ A.flags = lk.flags
  BY <1>3 DEF Lock
<1> HIDE DEF A
<1>5. S \in Lock /\ S.flags = lk.flags /\ S.exclusivecount = 0
  BY <1>4 DEF Lock
<1> HIDE DEF S
<1>6. M \in Lock /\ M.flags = lk.flags \ {"HAVE_EXCL"} /\ M.exclusivecount = 0
  BY <1>5, NoHolderType DEF NoHolder, Lock
<1> HIDE DEF M
<1>7. OwnOK(M, Idle(p))
  BY <1>6, SameOwned DEF OwnOK, NoOvertaker
<1> QED
  BY <1>1, <1>7, PanicOwn, ReturnOwn

(* case LK_EXCLUSIVE.                                                       *)
LEMMA ExclusiveRequestOwn ==
  ASSUME TypeOK, NEW p \in Proc, NEW L, NEW W, NEW h, NEW e,
         OwnOK(L, Idle(p)), L.lockholder = p => L.exclusivecount > 0,
         ExclusiveRequest(p, L, W, h, e)
  PROVE  OwnGoal
<1> DEFINE N == [L EXCEPT !.exclusivecount = @ + 1]
<1>1. \/ L.lockholder = p /\ Return(p, N, W, [h EXCEPT !.ex = @ + 1])
      \/ Panic(L)
      \/ Return(p, L, W, h)
      \/ AcquireWantExcl(p, L, W, h, e)
  BY DEF ExclusiveRequest
<1>2. N \in Lock /\ N.flags = L.flags
  BY DEF OwnOK, Lock
<1> HIDE DEF N
<1>3. L.lockholder = p => OwnOK(N, Idle(p))
  BY <1>2 DEF OwnOK, NoOvertaker
<1> QED
  BY <1>1, <1>3, ReturnOwn, PanicOwn, AcquireWantExclOwn

(* case LK_UPGRADE, by a process that holds a share.                        *)
LEMMA UpgradeRequestOwn ==
  ASSUME TypeOK, LockOK(lk, hold), NEW p \in Proc, NEW e, OwnOK(lk, Idle(p)),
         hold[p].sh > 0 \/ lk.lockholder = p, UpgradeRequest(p, e)
  PROVE  OwnGoal
<1> DEFINE L == [lk EXCEPT !.sharecount = @ - 1]
           h == [hold[p] EXCEPT !.sh = @ - 1]
           W == IF L.sharecount = 0 THEN WakeWaiters(L, wchan) ELSE wchan
           M == [L EXCEPT !.flags = @ \cup {"WANT_UPGRADE"}]
<1>1. CASE Panic(lk)
  BY <1>1, PanicOwn
<1>2. CASE lk.lockholder # p /\ ~Panic(lk)
  <2>1. lk.exclusivecount = 0
    <3>1. lk.sharecount > 0
      BY <1>2, HeldCounted
    <3> QED
      BY <3>1 DEF LockOK, Lock
  <2>2. \/ Return(p, L, wchan, h)
        \/ "WANT_UPGRADE" \notin L.flags /\ AcquireUpgrade(p, M, wchan, h, e)
        \/ ExclusiveRequest(p, L, W, h, e)
    BY <1>2 DEF UpgradeRequest
  <2>3. /\ L \in Lock /\ L.flags = lk.flags /\ L.exclusivecount = 0
        /\ L.lockholder = lk.lockholder
    BY <2>1 DEF OwnOK, Lock
  <2> HIDE DEF L
  <2>4. OwnOK(L, Idle(p))
    BY <2>3 DEF OwnOK, NoOvertaker
  <2>5. "WANT_UPGRADE" \notin L.flags => OwnAt(M, Idle(p), "upgrade")
    BY <2>3, <2>4, SetFlag, SiteFlags, WantBusy
  <2> HIDE DEF M, h, W
  <2> QED
    BY <1>2, <2>2, <2>3, <2>4, <2>5, ReturnOwn, AcquireUpgradeOwn, ExclusiveRequestOwn
<1> QED
  BY <1>1, <1>2 DEF UpgradeRequest

-----------------------------------------------------------------------------
(* The actions.                                                             *)

(* Every request but LK_RELEASE keeps the owners of the flags.              *)
LEMMA RequestOwn ==
  ASSUME TypeOK, LockOK(lk, hold), OwnOK(lk, pc), NEW p \in Proc, NEW e,
         \/ LK_SHARED(p, e) \/ LK_EXCLUSIVE(p, e) \/ LK_UPGRADE(p, e)
         \/ LK_EXCLUPGRADE(p, e) \/ LK_DOWNGRADE(p, e) \/ LK_DRAIN(p, e)
  PROVE  OwnGoal
<1>1. Idle(p) = pc
  BY DEF TypeOK, Idle, LK_SHARED, LK_EXCLUSIVE, LK_UPGRADE, LK_EXCLUPGRADE,
     LK_DOWNGRADE, LK_DRAIN, Begin
<1>2. OwnOK(lk, Idle(p))
  BY <1>1
<1>3. CASE LK_SHARED(p, e)
  <2>1. \/ DowngradeLock(p, 1)
        \/ Return(p, lk, wchan, hold[p])
        \/ AcquireShared(p, lk, wchan, hold[p], e)
    BY <1>3 DEF LK_SHARED
  <2> QED
    BY <1>2, <2>1, DowngradeLockOwn, ReturnOwn, AcquireSharedOwn
<1>4. CASE LK_EXCLUSIVE(p, e)
  <2>1. lk.lockholder = p => lk.exclusivecount > 0
    BY LockAssumption DEF LockOK, Lock
  <2> QED
    BY <1>2, <1>4, <2>1, ExclusiveRequestOwn DEF LK_EXCLUSIVE
<1>5. CASE LK_UPGRADE(p, e) \/ LK_EXCLUPGRADE(p, e)
  <2> DEFINE L == [lk EXCEPT !.sharecount = @ - 1]
  <2>1. hold[p].sh > 0 \/ lk.lockholder = p
    <3>1. hold[p].sh = 1 \/ hold[p].ex > 0
      BY <1>5 DEF LK_UPGRADE, LK_EXCLUPGRADE
    <3>2. hold[p].ex > 0 => lk.lockholder = p
      BY DEF LockOK, Holding
    <3> QED
      BY <3>1, <3>2
  <2>2. UpgradeRequest(p, e) \/ Return(p, L, wchan, [hold[p] EXCEPT !.sh = @ - 1])
    BY <1>5 DEF LK_UPGRADE, LK_EXCLUPGRADE
  <2>3. L \in Lock /\ L.flags = lk.flags /\ L.exclusivecount = lk.exclusivecount
    BY DEF OwnOK, Lock
  <2> HIDE DEF L
  <2>4. OwnOK(L, Idle(p))
    BY <1>2, <2>3 DEF OwnOK, NoOvertaker
  <2> QED
    BY <1>2, <2>1, <2>2, <2>4, UpgradeRequestOwn, ReturnOwn
<1>6. CASE LK_DOWNGRADE(p, e)
  BY <1>2, <1>6, DowngradeLockOwn DEF LK_DOWNGRADE
<1>7. CASE LK_DRAIN(p, e)
  <2>1. \/ Panic(lk)
        \/ Return(p, lk, wchan, hold[p])
        \/ AcquireDrain(p, lk, wchan, hold[p], e)
    BY <1>7 DEF LK_DRAIN
  <2> QED
    BY <1>2, <2>1, PanicOwn, ReturnOwn, AcquireDrainOwn
<1> QED
  BY <1>3, <1>4, <1>5, <1>6, <1>7

(* LK_RELEASE touches neither request flag.                                 *)
LEMMA ReleaseOwn ==
  ASSUME TypeOK, LockOK(lk, hold), OwnOK(lk, pc), NEW p \in Proc, NEW e,
         LK_RELEASE(p, e)
  PROVE  OwnGoal
<1> DEFINE D == (lk.flags \ {"DRAINING"}) \cup
                  (IF "REENABLE" \in e THEN {} ELSE {"DRAINED"})
           L == IF "DRAINING" \notin lk.flags THEN lk ELSE [lk EXCEPT !.flags = D]
           X == [L EXCEPT !.exclusivecount = @ - 1]
           Y == [L EXCEPT !.sharecount = @ - 1]
           M == IF L.exclusivecount # 0
                THEN IF X.exclusivecount = 0 THEN NoHolder(X) ELSE X
                ELSE IF L.sharecount # 0 THEN Y
                ELSE L
           h == IF hold[p].ex > 0 THEN [hold[p] EXCEPT !.ex = @ - 1]
                ELSE IF hold[p].sh > 0 THEN [hold[p] EXCEPT !.sh = @ - 1]
                ELSE hold[p]
           Same(K) == /\ "WANT_EXCL" \in K.flags <=> "WANT_EXCL" \in lk.flags
                      /\ "WANT_UPGRADE" \in K.flags <=> "WANT_UPGRADE" \in lk.flags
<1>1. Panic(L) \/ Return(p, M, WakeWaiters(M, wchan), h)
  BY DEF LK_RELEASE
<1>2. Idle(p) = pc /\ lk \in Lock
  BY DEF TypeOK, Idle, LK_RELEASE, Begin
<1> HIDE DEF h
<1>3. L \in Lock /\ L.exclusivecount = lk.exclusivecount /\ Same(L)
  <2>1. /\ D \in SUBSET Flags
        /\ "WANT_EXCL" \in D <=> "WANT_EXCL" \in lk.flags
        /\ "WANT_UPGRADE" \in D <=> "WANT_UPGRADE" \in lk.flags
    BY <1>2 DEF Lock, Flags, Busy
  <2> HIDE DEF D
  <2> QED
    BY <1>2, <2>1 DEF Lock
<1> HIDE DEF L
<1>4. X \in Lock /\ X.flags = L.flags /\ X.exclusivecount = L.exclusivecount - 1
  BY <1>3 DEF Lock
<1>5. Y \in Lock /\ Y.flags = L.flags /\ Y.exclusivecount = L.exclusivecount
  BY <1>3 DEF Lock
<1>6. /\ M \in {L, X, Y, NoHolder(X)}
      /\ M \in {X, NoHolder(X)} => M.exclusivecount = X.exclusivecount
      /\ L.exclusivecount = 0 => M \in {L, Y}
  <2> HIDE DEF X, Y
  <2> QED
    BY <1>4, NoHolderType
<1> HIDE DEF X, Y, M
<1>7. /\ NoHolder(X) \in Lock /\ NoHolder(X).flags = L.flags \ {"HAVE_EXCL"}
  BY <1>4, NoHolderType DEF NoHolder, Lock
<1>8. Same(NoHolder(X)) /\ Same(X) /\ Same(Y)
  BY <1>3, <1>4, <1>5, <1>7
<1>9. M \in Lock /\ Same(M)
  BY <1>3, <1>4, <1>5, <1>6, <1>7, <1>8
<1>10. L.exclusivecount = 0 => M.exclusivecount = 0
  BY <1>5, <1>6
<1>11. Owned(M.flags, Idle(p))
  BY <1>2, <1>9, SameOwned DEF OwnOK
<1>12. OwnOK(M, Idle(p))
  BY <1>3, <1>9, <1>10, <1>11 DEF OwnOK, NoOvertaker
<1> QED
  BY <1>1, <1>12, PanicOwn, ReturnOwn

(* A process that leaves tsleep() still owns its flag, or clears it.        *)
LEMMA ResumeOwn ==
  ASSUME TypeOK, OwnOK(lk, pc), NEW p \in Proc, Resume(p)
  PROVE  OwnGoal
<1> PICK error \in BOOLEAN : \/ ResumeShared(p, error)
                             \/ ResumeUpgrade(p, error)
                             \/ ResumeWantExcl(p, error)
                             \/ ResumeExcl(p, error)
                             \/ ResumeDrain(p, error)
  BY DEF Resume
<1>1. /\ Idle(p)[p] = "idle"
      /\ \A q \in Proc \ {p} : Idle(p)[q] = pc[q]
  BY DEF TypeOK, Idle
<1>2. lk \in Lock
  BY DEF OwnOK
<1>3. /\ Awake \in Lock /\ Awake.flags = lk.flags
      /\ Awake.exclusivecount = lk.exclusivecount
  BY <1>2 DEF Awake, Lock
<1>4. \A f \in Busy : /\ Clear(f) \in Lock /\ Clear(f).flags = lk.flags \ {f}
                      /\ Clear(f).exclusivecount = lk.exclusivecount
  <2> HIDE DEF Awake
  <2> QED
    BY <1>3 DEF Clear, Lock
<1> HIDE DEF Awake, Clear
<1>5. CASE pc[p] \notin {"excl", "upgrade"}
  <2>1. Owned(lk.flags, Idle(p))
    BY <1>1, <1>5 DEF OwnOK, Owned
  <2>2. OwnOK(lk, Idle(p)) /\ OwnOK(Awake, Idle(p))
    BY <1>3, <2>1 DEF OwnOK, NoOvertaker
  <2>3. \/ Return(p, Awake, wchan, hold[p])
        \/ AcquireShared(p, Awake, wchan, hold[p], ext[p])
        \/ AcquireWantExcl(p, Awake, wchan, hold[p], ext[p])
        \/ AcquireDrain(p, lk, wchan, hold[p], ext[p])
        \/ lk' = lk /\ pc' = Idle(p)
    BY <1>5 DEF ResumeShared, ResumeUpgrade, ResumeWantExcl, ResumeExcl, ResumeDrain,
                Runnable, Idle
  <2> QED
    BY <2>2, <2>3, ReturnOwn, AcquireSharedOwn, AcquireWantExclOwn, AcquireDrainOwn
       DEF OwnGoal
<1>6. CASE pc[p] = "excl"
  <2>1. "WANT_EXCL" \in lk.flags /\ Owned(lk.flags \ {"WANT_EXCL"}, Idle(p))
    BY <1>1, <1>6 DEF OwnOK, Owned
  <2>2. OwnAt(Awake, Idle(p), "excl")
    BY <1>3, <2>1, SiteFlags DEF OwnAt, OwnOK, NoOvertaker
  <2>3. OwnOK(Clear("WANT_EXCL"), Idle(p))
    BY <1>4, <2>1, WantBusy DEF OwnOK, NoOvertaker
  <2>4. \/ Return(p, Clear("WANT_EXCL"), wchan, hold[p])
        \/ AcquireExcl(p, Awake, wchan, hold[p], ext[p])
    BY <1>6 DEF ResumeShared, ResumeUpgrade, ResumeWantExcl, ResumeExcl, ResumeDrain,
                Runnable
  <2> QED
    BY <2>2, <2>3, <2>4, ReturnOwn, AcquireExclOwn
<1>7. CASE pc[p] = "upgrade"
  <2>1. "WANT_UPGRADE" \in lk.flags /\ Owned(lk.flags \ {"WANT_UPGRADE"}, Idle(p))
    BY <1>1, <1>7 DEF OwnOK, Owned
  <2>2. OwnAt(Awake, Idle(p), "upgrade")
    BY <1>3, <2>1, SiteFlags DEF OwnAt, OwnOK, NoOvertaker
  <2>3. OwnOK(Clear("WANT_UPGRADE"), Idle(p))
    BY <1>4, <2>1, WantBusy DEF OwnOK, NoOvertaker
  <2>4. \/ Return(p, Clear("WANT_UPGRADE"), wchan, hold[p])
        \/ AcquireUpgrade(p, Awake, wchan, hold[p], ext[p])
    BY <1>7 DEF ResumeShared, ResumeUpgrade, ResumeWantExcl, ResumeExcl, ResumeDrain,
                Runnable
  <2> QED
    BY <2>2, <2>3, <2>4, ReturnOwn, AcquireUpgradeOwn
<1> QED
  BY <1>5, <1>6, <1>7

-----------------------------------------------------------------------------
(* The invariant with the owners of the flags.                              *)

FlagInv == Inv /\ (~panicked => OwnOK(lk, pc))

(* A lock that was just initialised has no flags, and nobody waits.         *)
LEMMA FreshOwn ==
  ASSUME \A p \in Proc : pc[p] = "idle"
  PROVE  OwnOK(FreshLock, pc)
BY DEF FreshLock, OwnOK, Lock, Owned, NoOvertaker

(* FlagInv holds initially.                                                 *)
LEMMA FlagInit == Init => FlagInv
<1> SUFFICES ASSUME Init PROVE FlagInv
  OBVIOUS
<1>1. (\A p \in Proc : pc[p] = "idle") /\ lk = FreshLock
  BY DEF Init
<1> QED
  BY <1>1, InvInit, FreshOwn DEF FlagInv

(* Every step keeps FlagInv.                                                *)
LEMMA FlagNext == FlagInv /\ [Next]_vars => FlagInv'
<1> SUFFICES ASSUME FlagInv, [Next]_vars PROVE FlagInv'
  OBVIOUS
<1>1. Inv'
  BY InvNext DEF FlagInv
<1> SUFFICES OwnGoal
  BY <1>1 DEF FlagInv, OwnGoal
<1>2. CASE panicked
  <2>1. UNCHANGED vars
    BY <1>2 DEF Next, Request, Resume, Interrupt, UseDecommissioned, LockInit,
       LK_SHARED, LK_EXCLUSIVE, LK_UPGRADE, LK_EXCLUPGRADE, LK_DOWNGRADE, LK_RELEASE,
       LK_DRAIN, Begin, ResumeShared, ResumeUpgrade, ResumeWantExcl, ResumeExcl,
       ResumeDrain, Runnable
  <2> QED
    BY <1>2, <2>1 DEF vars, OwnGoal
<1>3. CASE ~panicked
  <2>1. TypeOK /\ LockOK(lk, hold) /\ OwnOK(lk, pc) /\ WaitOK(lk, pc)
    BY <1>3 DEF FlagInv, Inv, IInv
  <2>2. ASSUME NEW p \in Proc, Request(p) PROVE OwnGoal
    BY <2>1, <2>2, RequestOwn, ReleaseOwn DEF Request
  <2>3. ASSUME NEW p \in Proc, Resume(p) PROVE OwnGoal
    BY <2>1, <2>3, ResumeOwn
  <2>4. ASSUME NEW p \in Proc, NEW cause \in {"signal", "timeout"}, Interrupt(p, cause)
        PROVE  OwnGoal
    <3>1. lk' = lk /\ pc' = pc
      BY <2>4 DEF Interrupt
    <3> QED
      BY <2>1, <3>1 DEF OwnGoal
  <2>5. ASSUME NEW p \in Proc, NEW type \in RequestTypes, UseDecommissioned(p, type)
        PROVE  OwnGoal
    BY <2>5, PanicOwn DEF UseDecommissioned
  <2>6. CASE LockInit
    <3>1. lk' = FreshLock /\ pc' = pc /\ "DRAINED" \in lk.flags
      BY <2>6 DEF LockInit
    <3>2. \A p \in Proc : pc[p] = "idle"
      BY <2>1, <3>1 DEF WaitOK, Quiet, Retired
    <3> QED
      BY <3>1, <3>2, FreshOwn DEF OwnGoal
  <2>7. CASE UNCHANGED vars
    BY <2>1, <2>7 DEF vars, OwnGoal
  <2> QED
    BY <2>2, <2>3, <2>4, <2>5, <2>6, <2>7 DEF Next
<1> QED
  BY <1>2, <1>3

(* In every state the request flags have their owners.                      *)
THEOREM FlagInvariance == Spec => []FlagInv
BY FlagInit, FlagNext, PTL DEF Spec

(* LK_WANT_EXCL and LK_WANT_UPGRADE are set exactly while one process is in *)
(* the wait they announce, whatever error ended the waits before it.        *)
THEOREM WantFlagsOwnedHolds == Spec => []WantFlagsOwned
<1>1. FlagInv => WantFlagsOwned
  BY DEF FlagInv, OwnOK, Owned, WantFlagsOwned
<1> QED
  BY <1>1, FlagInvariance, PTL

-----------------------------------------------------------------------------
(* What a step does to the holdings.                                        *)

(* p's holdings as a call has changed them before it is granted anything: a *)
(* request for an upgrade has given up p's only share.                      *)
Given(p, h) == \/ h = hold[p]
               \/ hold[p] = [sh |-> 1, ex |-> 0] /\ h = NotHeld

(* The holdings change as RWLock allows, or not at all.                     *)
HoldGoal == hold' = hold \/ RW!RWNext

(* What a step of the refinement may use of the two states it joins.        *)
Joined == /\ hold \in [Proc -> Holding] /\ hold' \in [Proc -> Holding]
          /\ MutualExclusion /\ MutualExclusion'

(* A call that ends, or sleeps, without a grant.                            *)
LEMMA GivenHold ==
  ASSUME Joined, NEW p \in Proc, NEW h, Given(p, h), hold' = [hold EXCEPT ![p] = h]
  PROVE  HoldGoal
<1>1. hold \in [Proc -> Holding]
  BY DEF Joined
<1>2. CASE h = hold[p]
  BY <1>1, <1>2 DEF HoldGoal
<1>3. CASE hold[p] = [sh |-> 1, ex |-> 0] /\ h = NotHeld
  <2>1. hold[p].sh > 0 /\ h = [sh |-> hold[p].sh - 1, ex |-> hold[p].ex]
    BY <1>3 DEF NotHeld
  <2>2. RW!DropShared(p)
    BY <2>1 DEF RW!DropShared
  <2> QED
    BY <2>2 DEF HoldGoal, RW!RWNext
<1> QED
  BY <1>2, <1>3 DEF Given

(* One more share: nobody holds the lock exclusively, or the share would    *)
(* break mutual exclusion.                                                  *)
LEMMA ShareHold ==
  ASSUME Joined, NEW p \in Proc,
         hold' = [hold EXCEPT ![p] = [hold[p] EXCEPT !.sh = @ + 1]]
  PROVE  HoldGoal
<1> DEFINE h == [hold[p] EXCEPT !.sh = @ + 1]
<1>1. /\ h \in Holding /\ h.sh = hold[p].sh + 1 /\ h.ex = hold[p].ex
      /\ hold[p].sh \in Nat
  BY DEF Joined, Holding
<1> HIDE DEF h
<1>2. /\ hold' = [hold EXCEPT ![p] = h] /\ hold'[p] = h
      /\ \A q \in Proc \ {p} : hold'[q] = hold[q]
  BY DEF Joined, h
<1>3. ASSUME NEW q \in Proc PROVE hold[q].ex = 0
  <2>1. hold'[q].ex \in Nat /\ hold'[q].ex = hold[q].ex
    BY <1>1, <1>2 DEF Joined, Holding
  <2>2. ~(hold'[q].ex > 0)
    BY <1>1, <1>2 DEF Joined, MutualExclusion, NotHeld
  <2> QED
    BY <2>1, <2>2
<1>4. h = [sh |-> hold[p].sh + 1, ex |-> 0]
  BY <1>1, <1>3 DEF Holding
<1>5. RW!GrantShared(p)
  BY <1>2, <1>3, <1>4 DEF RW!GrantShared
<1> QED
  BY <1>5 DEF HoldGoal, RW!RWNext

(* The exclusive lock, once more or for the first time.                     *)
LEMMA ExclusiveHold ==
  ASSUME Joined, NEW p \in Proc, NEW h \in Holding, Given(p, h),
         hold' = [hold EXCEPT ![p] = [h EXCEPT !.ex = hold[p].ex + 1]]
  PROVE  HoldGoal
<1> DEFINE g == [h EXCEPT !.ex = hold[p].ex + 1]
<1>1. g \in Holding /\ g.ex = hold[p].ex + 1 /\ g.sh = h.sh /\ g.ex > 0
  BY DEF Joined, Holding
<1> HIDE DEF g
<1>2. /\ hold' = [hold EXCEPT ![p] = g] /\ hold'[p] = g
      /\ \A q \in Proc \ {p} : hold'[q] = hold[q]
  BY DEF Joined, g
<1>3. h.sh = 0 /\ \A q \in Proc \ {p} : hold[q] = NotHeld
  BY <1>1, <1>2 DEF Joined, MutualExclusion
<1>4. RW!OthersHoldNothing(p)
  BY <1>3 DEF RW!OthersHoldNothing, RW!NotHeld, NotHeld
<1>5. hold[p].sh = 0 \/ hold[p] = [sh |-> 1, ex |-> 0]
  BY <1>3 DEF Given
<1>6. g = [sh |-> 0, ex |-> hold[p].ex + 1]
  BY <1>1, <1>3 DEF Holding
<1>7. RW!GrantExclusive(p)
  BY <1>2, <1>4, <1>5, <1>6 DEF RW!GrantExclusive
<1> QED
  BY <1>7 DEF HoldGoal, RW!RWNext

(* Return and SleepAt store the caller's holdings, panic() keeps all.       *)
LEMMA EndHold ==
  ASSUME NEW p, NEW h,
         \/ \E L, W : Return(p, L, W, h)
         \/ \E L, W, e, site : SleepAt(p, site, L, W, h, e)
  PROVE  hold' = [hold EXCEPT ![p] = h]
BY DEF Return, SleepAt

(* A panic keeps the holdings.                                              *)
LEMMA PanicHold ==
  ASSUME NEW L, Panic(L)
  PROVE  HoldGoal
BY DEF Panic, HoldGoal

(* The exclusive lock is granted to a process that did not hold it.         *)
LEMMA GrantHold ==
  ASSUME Joined, NEW p \in Proc, NEW L, NEW W, NEW h \in Holding, Given(p, h),
         L.exclusivecount = 0 => hold[p].ex = 0, GrantExcl(p, L, W, h)
  PROVE  HoldGoal
<1> DEFINE M == [L EXCEPT !.flags = @ \cup {"HAVE_EXCL"}, !.lockholder = p]
           N == [M EXCEPT !.exclusivecount = 1]
<1>1. CASE Panic(M)
  BY <1>1, PanicHold
<1>2. CASE L.exclusivecount = 0 /\ Return(p, N, W, [h EXCEPT !.ex = 1])
  <2> HIDE DEF M, N
  <2>1. hold' = [hold EXCEPT ![p] = [h EXCEPT !.ex = 1]]
    BY <1>2 DEF Return
  <2>2. hold[p].ex + 1 = 1
    BY <1>2
  <2>3. hold' = [hold EXCEPT ![p] = [h EXCEPT !.ex = hold[p].ex + 1]]
    BY <2>1, <2>2, Zenon
  <2> QED
    BY <2>3, ExclusiveHold
<1> QED
  BY <1>1, <1>2 DEF GrantExcl

(* ACQUIRE of LK_SHARED, which is asked for without changing holdings.      *)
LEMMA AcquireSharedHold ==
  ASSUME Joined, NEW p \in Proc, NEW L, NEW W, NEW e,
         AcquireShared(p, L, W, hold[p], e)
  PROVE  HoldGoal
<1>1. CASE SleepAt(p, "shared", L, W, hold[p], e)
  BY <1>1, EndHold, GivenHold DEF Given
<1>2. CASE Return(p, [L EXCEPT !.sharecount = @ + 1], W, [hold[p] EXCEPT !.sh = @ + 1])
  BY <1>2, EndHold, ShareHold
<1> QED
  BY <1>1, <1>2 DEF AcquireShared

(* ACQUIRE of LK_UPGRADE, and the two of LK_EXCLUSIVE.                      *)
LEMMA AcquireHold ==
  ASSUME Joined, NEW p \in Proc, NEW L \in Lock, NEW W, NEW e,
         NEW h \in Holding, Given(p, h), L.exclusivecount = 0 => hold[p].ex = 0,
         \/ AcquireUpgrade(p, L, W, h, e)
         \/ AcquireExcl(p, L, W, h, e)
         \/ AcquireWantExcl(p, L, W, h, e)
  PROVE  HoldGoal
<1>1. ASSUME NEW K \in Lock, K.exclusivecount = L.exclusivecount,
             AcquireUpgrade(p, K, W, h, e) \/ AcquireExcl(p, K, W, h, e)
      PROVE  HoldGoal
  <2> DEFINE U(f) == [K EXCEPT !.flags = @ \ {f}]
  <2>1. \A f : U(f).exclusivecount = K.exclusivecount
    BY DEF Lock
  <2>2. CASE \E site : SleepAt(p, site, K, W, h, e)
    BY <2>2, EndHold, GivenHold
  <2>3. CASE GrantExcl(p, U("WANT_UPGRADE"), W, h) \/ GrantExcl(p, U("WANT_EXCL"), W, h)
    <3> HIDE DEF U
    <3> QED
      BY <1>1, <2>1, <2>3, GrantHold
  <2> QED
    BY <1>1, <2>2, <2>3 DEF AcquireUpgrade, AcquireExcl
<1>2. CASE AcquireWantExcl(p, L, W, h, e)
  <2> DEFINE M == [L EXCEPT !.flags = @ \cup {"WANT_EXCL"}]
  <2>1. M \in Lock /\ M.exclusivecount = L.exclusivecount
    BY DEF Lock, Flags, Busy
  <2>2. SleepAt(p, "wantexcl", L, W, h, e) \/ AcquireExcl(p, M, W, h, e)
    BY <1>2 DEF AcquireWantExcl
  <2> HIDE DEF M
  <2> QED
    BY <1>1, <2>1, <2>2, EndHold, GivenHold
<1> QED
  BY <1>1, <1>2

(* The loop of LK_DRAIN, by a process that holds nothing.                   *)
LEMMA AcquireDrainHold ==
  ASSUME Joined, NEW p \in Proc, NEW L, NEW W, NEW e,
         hold[p].ex = 0, AcquireDrain(p, L, W, hold[p], e)
  PROVE  HoldGoal
<1>1. CASE SleepAt(p, "drain", L, W, hold[p], e)
  BY <1>1, EndHold, GivenHold DEF Given
<1>2. CASE \E N : Return(p, N, W, [hold[p] EXCEPT !.ex = 1])
  <2>1. hold' = [hold EXCEPT ![p] = [hold[p] EXCEPT !.ex = 1]]
    BY <1>2, EndHold
  <2>2. hold' = [hold EXCEPT ![p] = [hold[p] EXCEPT !.ex = hold[p].ex + 1]]
    BY <2>1
  <2>3. hold[p] \in Holding /\ Given(p, hold[p])
    BY DEF Joined, Given
  <2> QED
    BY <2>2, <2>3, ExclusiveHold
<1> QED
  BY <1>1, <1>2 DEF AcquireDrain

(* case LK_DOWNGRADE, by the exclusive holder.                              *)
LEMMA DowngradeHold ==
  ASSUME Joined, NEW p \in Proc, NEW extra \in {0, 1}, LockOK(lk, hold),
         DowngradeLock(p, extra)
  PROVE  HoldGoal
<1> DEFINE g == [sh |-> hold[p].sh + extra + hold[p].ex, ex |-> 0]
<1>1. CASE \E L : Panic(L)
  BY <1>1, PanicHold
<1>2. CASE /\ lk.lockholder = p /\ lk.exclusivecount # 0
           /\ \E L, W : Return(p, L, W, g)
  <2>1. hold' = [hold EXCEPT ![p] = g]
    BY <1>2, EndHold
  <2>2. hold[p].ex > 0 /\ hold[p] \in Holding
    BY <1>2 DEF LockOK, Lock
  <2>3. hold[p].sh = 0
    BY <2>2 DEF Joined, MutualExclusion
  <2>4. g = [sh |-> hold[p].ex + extra, ex |-> 0]
    BY <2>2, <2>3 DEF Holding
  <2>5. RW!Downgrade(p)
    BY <2>1, <2>2, <2>4 DEF RW!Downgrade
  <2> QED
    BY <2>5 DEF HoldGoal, RW!RWNext
<1> QED
  BY <1>1, <1>2 DEF DowngradeLock

(* case LK_EXCLUSIVE.                                                       *)
LEMMA ExclusiveRequestHold ==
  ASSUME Joined, NEW p \in Proc, NEW L \in Lock, NEW W, NEW e,
         NEW h \in Holding, Given(p, h), L.exclusivecount = 0 => hold[p].ex = 0,
         L.lockholder = p => h = hold[p],
         ExclusiveRequest(p, L, W, h, e)
  PROVE  HoldGoal
<1>1. CASE L.lockholder = p /\ \E N : Return(p, N, W, [h EXCEPT !.ex = @ + 1])
  <2>1. hold' = [hold EXCEPT ![p] = [h EXCEPT !.ex = h.ex + 1]]
    BY <1>1, EndHold
  <2> QED
    BY <1>1, <2>1, ExclusiveHold
<1>2. CASE Panic(L)
  BY <1>2, PanicHold
<1>3. CASE Return(p, L, W, h)
  BY <1>3, EndHold, GivenHold
<1>4. CASE AcquireWantExcl(p, L, W, h, e)
  BY <1>4, AcquireHold
<1> QED
  BY <1>1, <1>2, <1>3, <1>4 DEF ExclusiveRequest

(* LK_UPGRADE and LK_EXCLUPGRADE trade or give back p's only share.         *)
LEMMA UpgradeHold ==
  ASSUME Joined, LockOK(lk, hold), NEW p \in Proc, NEW e,
         LK_UPGRADE(p, e) \/ LK_EXCLUPGRADE(p, e)
  PROVE  HoldGoal
<1> DEFINE L == [lk EXCEPT !.sharecount = @ - 1]
           h == [hold[p] EXCEPT !.sh = @ - 1]
           M == [L EXCEPT !.flags = @ \cup {"WANT_UPGRADE"}]
<1>1. CASE Panic(lk)
  BY <1>1, PanicHold
<1>2. CASE hold[p].sh = 1 /\ ~Panic(lk)
  <2>1. lk.sharecount > 0
    BY <1>2, HeldCounted
  <2>2. /\ lk \in Lock /\ lk.exclusivecount = 0 /\ lk.lockholder = LK_NOPROC
        /\ hold[p] \in Holding
    BY <2>1 DEF LockOK, Lock
  <2>3. hold[p].ex = 0
    BY <2>2, LockAssumption DEF LockOK
  <2>4. h = NotHeld /\ hold[p] = [sh |-> 1, ex |-> 0]
    BY <1>2, <2>2, <2>3 DEF Holding, NotHeld
  <2>5. \/ \E W : Return(p, L, W, h)
        \/ \E W : AcquireUpgrade(p, M, W, h, e)
        \/ \E W : ExclusiveRequest(p, L, W, h, e)
    BY <1>2 DEF LK_UPGRADE, LK_EXCLUPGRADE, UpgradeRequest
  <2>6. L \in Lock /\ L.lockholder = LK_NOPROC
    BY <2>2 DEF Lock
  <2> HIDE DEF L
  <2>7. M \in Lock
    BY <2>6 DEF Lock, Flags, Busy
  <2> HIDE DEF M
  <2>8. Given(p, h) /\ h \in Holding
    BY <2>4 DEF Given, NotHeld, Holding
  <2> HIDE DEF h
  <2>9. L.lockholder # p
    BY <2>6, LockAssumption
  <2> QED
    BY <2>3, <2>5, <2>6, <2>7, <2>8, <2>9, EndHold, GivenHold, AcquireHold,
       ExclusiveRequestHold
<1>3. CASE hold[p].ex > 0 /\ ~Panic(lk)
  <2>1. lk.lockholder = p /\ hold[p].sh = 0
    BY <1>3 DEF LockOK, Holding, Joined, MutualExclusion
  <2>2. Panic(lk)
    BY <2>1 DEF LK_UPGRADE, LK_EXCLUPGRADE, UpgradeRequest
  <2> QED
    BY <1>3, <2>2
<1> QED
  BY <1>1, <1>2, <1>3 DEF LK_UPGRADE, LK_EXCLUPGRADE

(* LK_RELEASE gives back one instance.                                      *)
LEMMA ReleaseHold ==
  ASSUME Joined, NEW p \in Proc, NEW e, LK_RELEASE(p, e)
  PROVE  HoldGoal
<1> DEFINE h == IF hold[p].ex > 0 THEN [hold[p] EXCEPT !.ex = @ - 1]
                ELSE IF hold[p].sh > 0 THEN [hold[p] EXCEPT !.sh = @ - 1]
                ELSE hold[p]
<1>1. \/ \E L : Panic(L)
      \/ \E L, W : Return(p, L, W, h)
  BY DEF LK_RELEASE
<1>2. hold[p] \in Holding
  BY DEF Joined
<1>3. CASE \E L, W : Return(p, L, W, h)
  <2>1. hold' = [hold EXCEPT ![p] = h]
    BY <1>3, EndHold
  <2>2. CASE hold[p].ex > 0
    <3>1. h = [sh |-> hold[p].sh, ex |-> hold[p].ex - 1]
      BY <1>2, <2>2 DEF Holding
    <3>2. RW!DropExclusive(p)
      BY <2>1, <2>2, <3>1 DEF RW!DropExclusive
    <3> QED
      BY <3>2 DEF HoldGoal, RW!RWNext
  <2>3. CASE ~(hold[p].ex > 0) /\ hold[p].sh > 0
    <3>1. h = [sh |-> hold[p].sh - 1, ex |-> hold[p].ex]
      BY <1>2, <2>3 DEF Holding
    <3>2. RW!DropShared(p)
      BY <2>1, <2>3, <3>1 DEF RW!DropShared
    <3> QED
      BY <3>2 DEF HoldGoal, RW!RWNext
  <2>4. CASE ~(hold[p].ex > 0) /\ ~(hold[p].sh > 0)
    BY <2>1, <2>4, GivenHold DEF Given
  <2> QED
    BY <2>2, <2>3, <2>4
<1> QED
  BY <1>1, <1>3, PanicHold

(* Every request changes the holdings as RWLock allows.                     *)
LEMMA RequestHold ==
  ASSUME Joined, LockOK(lk, hold), NEW p \in Proc, Request(p)
  PROVE  HoldGoal
<1> PICK e \in ExtFlags : \/ LK_SHARED(p, e)
                          \/ LK_EXCLUSIVE(p, e)
                          \/ LK_UPGRADE(p, e)
                          \/ LK_EXCLUPGRADE(p, e)
                          \/ LK_DOWNGRADE(p, e)
                          \/ LK_RELEASE(p, e)
                          \/ LK_DRAIN(p, e)
  BY DEF Request
<1>1. /\ lk \in Lock /\ hold[p] \in Holding /\ Given(p, hold[p])
      /\ lk.exclusivecount = 0 => hold[p].ex = 0
  BY DEF LockOK, Joined, Given
<1>2. CASE LK_SHARED(p, e)
  <2>1. \/ DowngradeLock(p, 1)
        \/ Return(p, lk, wchan, hold[p])
        \/ AcquireShared(p, lk, wchan, hold[p], e)
    BY <1>2 DEF LK_SHARED
  <2> QED
    BY <1>1, <2>1, DowngradeHold, EndHold, GivenHold, AcquireSharedHold
<1>3. CASE LK_EXCLUSIVE(p, e)
  BY <1>1, <1>3, ExclusiveRequestHold DEF LK_EXCLUSIVE
<1>4. CASE LK_UPGRADE(p, e) \/ LK_EXCLUPGRADE(p, e)
  BY <1>4, UpgradeHold
<1>5. CASE LK_DOWNGRADE(p, e)
  BY <1>5, DowngradeHold DEF LK_DOWNGRADE
<1>6. CASE LK_RELEASE(p, e)
  BY <1>6, ReleaseHold
<1>7. CASE LK_DRAIN(p, e)
  <2>1. \/ Panic(lk)
        \/ Return(p, lk, wchan, hold[p])
        \/ lk.lockholder # p /\ AcquireDrain(p, lk, wchan, hold[p], e)
    BY <1>7 DEF LK_DRAIN
  <2>2. lk.lockholder # p => hold[p].ex = 0
    BY DEF LockOK
  <2> QED
    BY <1>1, <2>1, <2>2, PanicHold, EndHold, GivenHold, AcquireDrainHold
<1> QED
  BY <1>2, <1>3, <1>4, <1>5, <1>6, <1>7

(* So does the rest of a call after tsleep(): a process that sleeps in      *)
(* LK_DRAIN holds nothing, which the drain's own condition says.            *)
LEMMA ResumeHold ==
  ASSUME Joined, LockOK(lk, hold), NEW p \in Proc, Resume(p)
  PROVE  HoldGoal
<1> PICK error \in BOOLEAN : \/ ResumeShared(p, error)
                             \/ ResumeUpgrade(p, error)
                             \/ ResumeWantExcl(p, error)
                             \/ ResumeExcl(p, error)
                             \/ ResumeDrain(p, error)
  BY DEF Resume
<1>1. /\ lk \in Lock /\ hold[p] \in Holding /\ Given(p, hold[p])
      /\ lk.exclusivecount = 0 => hold[p].ex = 0
  BY DEF LockOK, Joined, Given
<1>2. Awake \in Lock /\ Awake.exclusivecount = lk.exclusivecount
  BY <1>1 DEF Awake, Lock
<1>3. \/ \E L : Return(p, L, wchan, hold[p])
      \/ AcquireShared(p, Awake, wchan, hold[p], ext[p])
      \/ AcquireUpgrade(p, Awake, wchan, hold[p], ext[p])
      \/ AcquireWantExcl(p, Awake, wchan, hold[p], ext[p])
      \/ AcquireExcl(p, Awake, wchan, hold[p], ext[p])
      \/ AcquireDrain(p, lk, wchan, hold[p], ext[p])
      \/ hold' = hold
  <2> HIDE DEF Awake, Clear
  <2> QED
    BY DEF ResumeShared, ResumeUpgrade, ResumeWantExcl, ResumeExcl, ResumeDrain
<1>4. CASE AcquireDrain(p, lk, wchan, hold[p], ext[p])
  <2>1. CASE Wanted("drain", lk)
    BY <1>1, <1>4, <2>1, EndHold, GivenHold DEF AcquireDrain
  <2>2. CASE ~Wanted("drain", lk)
    <3>1. "HAVE_EXCL" \notin lk.flags
      BY <2>2 DEF Wanted, Busy
    <3>2. hold[p].ex = 0
      BY <1>1, <3>1 DEF LockOK, Lock
    <3> QED
      BY <1>4, <3>2, AcquireDrainHold
  <2> QED
    BY <2>1, <2>2
<1>5. CASE hold' = hold
  BY <1>5 DEF HoldGoal
<1> HIDE DEF Awake
<1> QED
  BY <1>1, <1>2, <1>3, <1>4, <1>5, EndHold, GivenHold, AcquireSharedHold, AcquireHold

(* Every step of LockMgr is a step of RWLock or leaves the holdings alone.  *)
LEMMA StepHold == Inv /\ Inv' /\ [Next]_vars => [RW!RWNext]_hold
<1> SUFFICES ASSUME Inv, Inv', [Next]_vars PROVE HoldGoal
  BY DEF HoldGoal
<1>1. Joined
  BY DEF Inv, IInv, TypeOK, Joined
<1>2. ASSUME NEW p \in Proc, Request(p) PROVE HoldGoal
  <2>1. ~panicked
    BY <1>2 DEF Request, LK_SHARED, LK_EXCLUSIVE, LK_UPGRADE, LK_EXCLUPGRADE,
       LK_DOWNGRADE, LK_RELEASE, LK_DRAIN, Begin
  <2>2. LockOK(lk, hold)
    BY <2>1 DEF Inv, IInv
  <2> QED
    BY <1>1, <1>2, <2>2, RequestHold
<1>3. ASSUME NEW p \in Proc, Resume(p) PROVE HoldGoal
  <2>1. ~panicked
    BY <1>3 DEF Resume, ResumeShared, ResumeUpgrade, ResumeWantExcl, ResumeExcl,
       ResumeDrain, Runnable
  <2>2. LockOK(lk, hold)
    BY <2>1 DEF Inv, IInv
  <2> QED
    BY <1>1, <1>3, <2>2, ResumeHold
<1>4. ASSUME NEW p \in Proc, NEW type \in RequestTypes, UseDecommissioned(p, type)
      PROVE  HoldGoal
  BY <1>4, PanicHold DEF UseDecommissioned
<1>5. ASSUME hold' = hold PROVE HoldGoal
  BY <1>5 DEF HoldGoal
<1>6. ASSUME NEW p \in Proc, NEW cause, Interrupt(p, cause) PROVE HoldGoal
  BY <1>5, <1>6 DEF Interrupt
<1>7. CASE LockInit
  BY <1>5, <1>7 DEF LockInit
<1>8. CASE UNCHANGED vars
  BY <1>5, <1>8 DEF vars
<1> QED
  BY <1>2, <1>3, <1>4, <1>6, <1>7, <1>8 DEF Next

(* lockmgr() implements the reader/writer lock of lock.h: whatever callers  *)
(* are granted or give back is a step the abstract lock allows, requests    *)
(* that sleep, fail or are retried included.                                *)
THEOREM Refinement == Spec => RWSpec
<1>1. Init => RW!RWInit
  BY DEF Init, RW!RWInit, NotHeld, RW!NotHeld
<1> QED
  BY <1>1, StepHold, Invariance, PTL DEF Spec, RWSpec, RW!RWSpec

(* A step that ends in panic() leaves the holdings alone.                   *)
LEMMA PanicStops ==
  ASSUME ~panicked, panicked', [Next]_vars
  PROVE  hold' = hold
<1> DEFINE Stops == hold' = hold
<1>1. ASSUME NEW L, Panic(L) PROVE Stops
  BY <1>1 DEF Panic
<1>2. ASSUME NEW p, NEW L, NEW W, NEW h, Return(p, L, W, h) PROVE Stops
  BY <1>2 DEF Return
<1>3. ASSUME NEW p, NEW site, NEW L, NEW W, NEW h, NEW e, SleepAt(p, site, L, W, h, e)
      PROVE  Stops
  BY <1>3 DEF SleepAt
<1> HIDE DEF Stops
<1>4. ASSUME NEW p, NEW L, NEW W, NEW h, GrantExcl(p, L, W, h) PROVE Stops
  BY <1>1, <1>2, <1>4 DEF GrantExcl
<1>5. ASSUME NEW p, NEW L, NEW W, NEW h, NEW e,
             \/ AcquireShared(p, L, W, h, e) \/ AcquireUpgrade(p, L, W, h, e)
             \/ AcquireExcl(p, L, W, h, e) \/ AcquireDrain(p, L, W, h, e)
      PROVE  Stops
  BY <1>2, <1>3, <1>4, <1>5 DEF AcquireShared, AcquireUpgrade, AcquireExcl, AcquireDrain
<1>6. ASSUME NEW p, NEW L, NEW W, NEW h, NEW e,
             AcquireWantExcl(p, L, W, h, e) \/ ExclusiveRequest(p, L, W, h, e)
      PROVE  Stops
  BY <1>1, <1>2, <1>3, <1>5, <1>6 DEF AcquireWantExcl, ExclusiveRequest
<1>7. ASSUME NEW p, NEW extra, DowngradeLock(p, extra) PROVE Stops
  BY <1>1, <1>2, <1>7 DEF DowngradeLock
<1>8. ASSUME NEW p, NEW e, UpgradeRequest(p, e) PROVE Stops
  BY <1>1, <1>2, <1>5, <1>6, <1>8 DEF UpgradeRequest
<1>9. ASSUME NEW p, NEW e,
             \/ LK_SHARED(p, e) \/ LK_EXCLUSIVE(p, e) \/ LK_UPGRADE(p, e)
             \/ LK_EXCLUPGRADE(p, e) \/ LK_DOWNGRADE(p, e) \/ LK_DRAIN(p, e)
      PROVE  Stops
  BY <1>1, <1>2, <1>5, <1>6, <1>7, <1>8, <1>9
     DEF LK_SHARED, LK_EXCLUSIVE, LK_UPGRADE, LK_EXCLUPGRADE, LK_DOWNGRADE, LK_DRAIN
<1>10. ASSUME NEW p, NEW e, LK_RELEASE(p, e) PROVE Stops
  BY <1>1, <1>2, <1>10 DEF LK_RELEASE
<1>11. ASSUME NEW p, Request(p) PROVE Stops
  BY <1>9, <1>10, <1>11 DEF Request
<1>12. ASSUME NEW p, NEW error,
              \/ ResumeShared(p, error) \/ ResumeUpgrade(p, error)
              \/ ResumeWantExcl(p, error) \/ ResumeExcl(p, error)
       PROVE  Stops
  BY <1>2, <1>5, <1>6, <1>12
     DEF ResumeShared, ResumeUpgrade, ResumeWantExcl, ResumeExcl
<1>13. ASSUME NEW p, NEW error, ResumeDrain(p, error) PROVE Stops
  BY <1>5, <1>13 DEF ResumeDrain, Stops
<1>14. ASSUME NEW p, Resume(p) PROVE Stops
  BY <1>12, <1>13, <1>14 DEF Resume
<1>15. ASSUME NEW p, NEW type, UseDecommissioned(p, type) PROVE Stops
  BY <1>1, <1>15 DEF UseDecommissioned
<1>16. ASSUME NEW p, NEW cause, Interrupt(p, cause) PROVE Stops
  BY <1>16 DEF Interrupt, Stops
<1>17. CASE LockInit
  BY <1>17 DEF LockInit, Stops
<1>18. CASE UNCHANGED vars
  BY <1>18 DEF vars
<1> QED
  BY <1>11, <1>14, <1>15, <1>16, <1>17, <1>18 DEF Next, Stops

(* Nobody is granted exclusive access while an upgrade is pending, not even *)
(* an exclusive request that was announced before it.                       *)
THEOREM UpgradeNotOvertakenHolds == Spec => UpgradeNotOvertaken
<1> DEFINE Kept == \A p, q \in Proc : pc[p] = "upgrade" /\ pc'[p] = "upgrade"
                                      => hold'[q].ex = hold[q].ex
<1>1. FlagInv /\ FlagInv' /\ [Next]_vars => [Kept]_vars
  <2> SUFFICES ASSUME FlagInv, FlagInv', [Next]_vars,
                      NEW p \in Proc, pc[p] = "upgrade", pc'[p] = "upgrade",
                      NEW q \in Proc
               PROVE  hold'[q].ex = hold[q].ex \/ UNCHANGED vars
    BY DEF Kept
  <2>1. CASE panicked
    BY <2>1 DEF Next, Request, Resume, Interrupt, UseDecommissioned, LockInit,
       LK_SHARED, LK_EXCLUSIVE, LK_UPGRADE, LK_EXCLUPGRADE, LK_DOWNGRADE, LK_RELEASE,
       LK_DRAIN, Begin, ResumeShared, ResumeUpgrade, ResumeWantExcl, ResumeExcl,
       ResumeDrain, Runnable
  <2>2. CASE ~panicked /\ panicked'
    BY <2>2, PanicStops
  <2>3. CASE ~panicked /\ ~panicked'
    <3>1. /\ LockOK(lk, hold) /\ OwnOK(lk, pc)
          /\ LockOK(lk', hold') /\ OwnOK(lk', pc')
      BY <2>3 DEF FlagInv, Inv, IInv
    <3>2. lk.exclusivecount = 0 /\ lk'.exclusivecount = 0
      BY <3>1 DEF OwnOK, Owned, NoOvertaker
    <3> QED
      BY <3>1, <3>2 DEF LockOK
  <2> QED
    BY <2>1, <2>2, <2>3
<1> QED
  BY <1>1, FlagInvariance, PTL DEF Spec, UpgradeNotOvertaken
=============================================================================
