--------------------------- MODULE LockMgrProofs ----------------------------
(***************************************************************************)
(* Proofs about LockMgr for every set of processes, every choice of        *)
(* requests and flags, and every bound.                                    *)
(***************************************************************************)
EXTENDS LockMgr, FiniteSetTheorems, TLAPS

(* The relation between the lock L and the holdings H that every step that  *)
(* does not panic preserves.                                                *)
LockOK(L, H) ==
  /\ L \in Lock
  /\ H \in [Proc -> Holding]
  /\ IsFiniteSet(SharesOf(H))
  /\ L.sharecount = Cardinality(SharesOf(H))
  /\ L.exclusivecount >= 0
  /\ "HAVE_EXCL" \in L.flags <=> L.exclusivecount > 0
  /\ L.lockholder = LK_NOPROC <=> L.exclusivecount = 0
  /\ \A p \in Proc : H[p].ex = IF L.lockholder = p THEN L.exclusivecount ELSE 0
  /\ L.exclusivecount > 0 => L.sharecount = 0

(* Mutual exclusion follows, because an exclusive lock leaves no share.     *)
Exclusive(H) ==
  \A p, q \in Proc :
    H[p].ex > 0 => H[p].sh = 0 /\ (p # q => H[q] = NotHeld)

(* <<p, i>> is a token exactly when p holds at least i shares.              *)
LEMMA SharesMember ==
  ASSUME NEW H \in [Proc -> Holding], NEW p, NEW i
  PROVE  <<p, i>> \in SharesOf(H) <=> p \in Proc /\ i \in 1 .. H[p].sh
BY DEF SharesOf

(* Every token is a pair of a process and one of its shares.                *)
LEMMA SharesPairs ==
  ASSUME NEW H \in [Proc -> Holding], NEW t \in SharesOf(H)
  PROVE  \E p \in Proc : \E i \in 1 .. H[p].sh : t = <<p, i>>
BY DEF SharesOf

(* A lock with a share held has a positive lk_sharecount.                   *)
LEMMA HeldCounted ==
  ASSUME NEW L, NEW H, LockOK(L, H), NEW p \in Proc, H[p].sh > 0
  PROVE  L.sharecount > 0
<1>1. H[p].sh \in Nat
  BY DEF LockOK, Holding
<1>2. <<p, 1>> \in SharesOf(H)
  BY <1>1, SharesMember DEF LockOK
<1>3. Cardinality(SharesOf(H)) \in Nat /\ Cardinality(SharesOf(H)) # 0
  BY <1>2, FS_EmptySet, FS_CardinalityType DEF LockOK
<1> QED
  BY <1>3 DEF LockOK

(* If lk_sharecount is 0, no process holds a share.                         *)
LEMMA NoneCounted ==
  ASSUME NEW L, NEW H, LockOK(L, H), L.sharecount = 0
  PROVE  \A p \in Proc : H[p].sh = 0
<1> SUFFICES ASSUME NEW p \in Proc, H[p].sh # 0
             PROVE  FALSE
  OBVIOUS
<1>1. H[p].sh \in Nat
  BY DEF LockOK, Holding
<1> QED
  BY <1>1, HeldCounted

(* A lock that agrees with the holdings is held exclusively by one at most. *)
LEMMA LockOKExclusive ==
  ASSUME NEW L, NEW H, LockOK(L, H)
  PROVE  Exclusive(H)
<1> SUFFICES ASSUME NEW p \in Proc, NEW q \in Proc, H[p].ex > 0
             PROVE  H[p].sh = 0 /\ (p # q => H[q] = NotHeld)
  BY DEF Exclusive
<1>1. L.lockholder = p /\ L.exclusivecount > 0
  BY DEF LockOK, Holding
<1>2. L.sharecount = 0
  BY <1>1 DEF LockOK
<1>3. \A r \in Proc : H[r].sh = 0
  BY <1>2, NoneCounted
<1>4. p # q => H[q].ex = 0
  BY <1>1 DEF LockOK
<1> QED
  BY <1>3, <1>4 DEF LockOK, Holding, NotHeld

(* Granting one more share adds one token.                                  *)
LEMMA OneMoreShare ==
  ASSUME NEW H \in [Proc -> Holding], NEW G \in [Proc -> Holding],
         NEW p \in Proc, G[p].sh = H[p].sh + 1,
         \A q \in Proc \ {p} : G[q].sh = H[q].sh
  PROVE  /\ SharesOf(G) = SharesOf(H) \cup {<<p, G[p].sh>>}
         /\ <<p, G[p].sh>> \notin SharesOf(H)
<1>1. \A q \in Proc : H[q].sh \in Nat /\ G[q].sh \in Nat
  BY DEF Holding
<1>2. ASSUME NEW x \in SharesOf(G) PROVE x \in SharesOf(H) \cup {<<p, G[p].sh>>}
  <2>1. PICK q \in Proc : \E i \in 1 .. G[q].sh : x = <<q, i>>
    BY SharesPairs
  <2>2. PICK i \in 1 .. G[q].sh : x = <<q, i>>
    BY <2>1
  <2>3. i \in 1 .. H[q].sh \/ (q = p /\ i = G[p].sh)
    BY <1>1, <2>2
  <2> QED
    BY <2>2, <2>3, SharesMember
<1>3. ASSUME NEW x \in SharesOf(H) PROVE x \in SharesOf(G)
  <2>1. PICK q \in Proc : \E i \in 1 .. H[q].sh : x = <<q, i>>
    BY SharesPairs
  <2>2. PICK i \in 1 .. H[q].sh : x = <<q, i>>
    BY <2>1
  <2>3. i \in 1 .. G[q].sh
    BY <1>1, <2>2
  <2> QED
    BY <2>2, <2>3, SharesMember
<1>4. <<p, G[p].sh>> \in SharesOf(G)
  BY <1>1, SharesMember
<1>5. <<p, G[p].sh>> \notin SharesOf(H)
  BY <1>1, SharesMember
<1> QED
  BY <1>2, <1>3, <1>4, <1>5

(* The tokens depend on nothing but the shares.                             *)
LEMMA SameShares ==
  ASSUME NEW H \in [Proc -> Holding], NEW G \in [Proc -> Holding],
         \A q \in Proc : G[q].sh = H[q].sh
  PROVE  SharesOf(G) = SharesOf(H)
BY DEF SharesOf

(* How each change of the lock goes together with a change of the holdings. *)
LEMMA AddShare ==
  ASSUME NEW L, NEW H, LockOK(L, H), NEW p \in Proc, L.exclusivecount = 0,
         NEW G \in [Proc -> Holding],
         G[p].sh = H[p].sh + 1,
         \A q \in Proc \ {p} : G[q].sh = H[q].sh,
         \A q \in Proc : G[q].ex = H[q].ex
  PROVE  LockOK([L EXCEPT !.sharecount = @ + 1], G)
<1>1. IsFiniteSet(SharesOf(H)) /\ H \in [Proc -> Holding]
  BY DEF LockOK
<1> DEFINE t == <<p, G[p].sh>>
<1>2. SharesOf(G) = SharesOf(H) \cup {t} /\ t \notin SharesOf(H)
  BY <1>1, OneMoreShare
<1> HIDE DEF t
<1>3. IsFiniteSet(SharesOf(G)) /\ Cardinality(SharesOf(G)) = Cardinality(SharesOf(H)) + 1
  BY <1>1, <1>2, FS_AddElement
<1> QED
  BY <1>3 DEF LockOK, Lock

(* p gives one share back.                                                  *)
LEMMA DropShare ==
  ASSUME NEW L, NEW H, LockOK(L, H), NEW p \in Proc,
         NEW G \in [Proc -> Holding],
         H[p].sh = G[p].sh + 1,
         \A q \in Proc \ {p} : G[q].sh = H[q].sh,
         \A q \in Proc : G[q].ex = H[q].ex
  PROVE  LockOK([L EXCEPT !.sharecount = @ - 1], G)
<1>1. IsFiniteSet(SharesOf(H)) /\ H \in [Proc -> Holding]
  BY DEF LockOK
<1> DEFINE t == <<p, H[p].sh>>
<1>2. SharesOf(H) = SharesOf(G) \cup {t} /\ t \notin SharesOf(G)
  BY <1>1, OneMoreShare
<1> HIDE DEF t
<1>3. SharesOf(G) = SharesOf(H) \ {t} /\ t \in SharesOf(H)
  BY <1>2
<1>4. IsFiniteSet(SharesOf(G)) /\ Cardinality(SharesOf(G)) = Cardinality(SharesOf(H)) - 1
  BY <1>1, <1>3, FS_RemoveElement
<1>5. L.exclusivecount = 0
  <2>1. H[p].sh > 0
    BY <1>1 DEF Holding
  <2>2. L.sharecount > 0
    BY <2>1, HeldCounted
  <2> QED
    BY <2>2 DEF LockOK, Lock
<1> QED
  BY <1>4, <1>5 DEF LockOK, Lock

(* p takes, or takes once more, the exclusive lock; or drops it once.       *)
LEMMA SetExclusive ==
  ASSUME NEW L, NEW H, LockOK(L, H), NEW p \in Proc, L.sharecount = 0,
         L.lockholder \in {LK_NOPROC, p},
         NEW n \in Nat,
         NEW M \in Lock, M.sharecount = 0, M.exclusivecount = n,
         "HAVE_EXCL" \in M.flags <=> n > 0,
         M.lockholder = IF n = 0 THEN LK_NOPROC ELSE p,
         NEW G \in [Proc -> Holding], G[p].ex = n,
         \A q \in Proc : G[q].sh = H[q].sh,
         \A q \in Proc \ {p} : G[q].ex = H[q].ex
  PROVE  LockOK(M, G)
<1>1. SharesOf(G) = SharesOf(H)
  BY SameShares DEF LockOK
<1>2. \A q \in Proc \ {p} : G[q].ex = 0
  BY LockAssumption DEF LockOK
<1>3. \A q \in Proc : G[q].ex = IF M.lockholder = q THEN M.exclusivecount ELSE 0
  BY <1>2, LockAssumption
<1>4. M.lockholder = LK_NOPROC <=> M.exclusivecount = 0
  BY LockAssumption
<1>5. IsFiniteSet(SharesOf(G)) /\ M.sharecount = Cardinality(SharesOf(G))
  BY <1>1 DEF LockOK
<1>6. /\ M.exclusivecount >= 0
      /\ "HAVE_EXCL" \in M.flags <=> M.exclusivecount > 0
      /\ M.exclusivecount > 0 => M.sharecount = 0
  OBVIOUS
<1> QED
  BY <1>3, <1>4, <1>5, <1>6 DEF LockOK

(* p's exclusive instances, and perhaps one more, become shares.            *)
LEMMA DowngradeShares ==
  ASSUME NEW L, NEW H, LockOK(L, H), NEW p \in Proc,
         L.lockholder = p, L.exclusivecount # 0, NEW n \in Nat,
         NEW M \in Lock, M.sharecount = n, M.exclusivecount = 0,
         "HAVE_EXCL" \notin M.flags, M.lockholder = LK_NOPROC,
         NEW G \in [Proc -> Holding], G[p].sh = n, G[p].ex = 0,
         \A q \in Proc \ {p} : G[q] = H[q]
  PROVE  LockOK(M, G)
<1>1. L.sharecount = 0 /\ \A q \in Proc \ {p} : H[q].ex = 0
  BY DEF LockOK, Lock
<1>2. \A q \in Proc : H[q].sh = 0
  BY <1>1, NoneCounted
<1>3. SharesOf(G) = {p} \X (1 .. n)
  <2>1. ASSUME NEW x \in SharesOf(G) PROVE x \in {p} \X (1 .. n)
    <3>1. PICK q \in Proc : \E i \in 1 .. G[q].sh : x = <<q, i>>
      BY SharesPairs
    <3>2. PICK i \in 1 .. G[q].sh : x = <<q, i>>
      BY <3>1
    <3> QED
      BY <1>2, <3>2
  <2>2. ASSUME NEW x \in {p} \X (1 .. n) PROVE x \in SharesOf(G)
    BY <2>2, SharesMember
  <2> QED
    BY <2>1, <2>2
<1>4. IsFiniteSet({p}) /\ Cardinality({p}) = 1
  BY FS_Singleton
<1>5. IsFiniteSet(1 .. n) /\ Cardinality(1 .. n) = n
  BY FS_Interval
<1>6. IsFiniteSet(SharesOf(G)) /\ Cardinality(SharesOf(G)) = 1 * n
  <2> HIDE DEF SharesOf
  <2> QED
    BY <1>3, <1>4, <1>5, FS_Product
<1>7. \A q \in Proc : G[q].ex = 0
  BY <1>1
<1> QED
  BY <1>6, <1>7, LockAssumption DEF LockOK

(* A change that keeps the counts, the holder and LK_HAVE_EXCL.             *)
LEMMA SameCounts ==
  ASSUME NEW L, NEW H, LockOK(L, H), NEW M \in Lock,
         M.sharecount = L.sharecount, M.exclusivecount = L.exclusivecount,
         M.lockholder = L.lockholder,
         "HAVE_EXCL" \in M.flags <=> "HAVE_EXCL" \in L.flags
  PROVE  LockOK(M, H)
BY DEF LockOK

-----------------------------------------------------------------------------
(* The inductive invariant, and how a call may end.                         *)

IInv == /\ TypeOK
        /\ MutualExclusion
        /\ ~panicked => LockOK(lk, hold)

Channels == [Proc -> {"none", "lk", "lk_flags"}]

(* wakeup() leaves every process on a channel or on none.                   *)
LEMMA WakeupType ==
  ASSUME NEW W \in Channels, NEW c
  PROVE  Wakeup(W, c) \in Channels
BY DEF Wakeup, Channels

(* So does the conditional wakeup() of a release.                           *)
LEMMA WakeWaitersType ==
  ASSUME NEW L, NEW W \in Channels
  PROVE  WakeWaiters(L, W) \in Channels
BY WakeupType DEF WakeWaiters

(* LockOK includes the types of the lock and of the holdings.               *)
LEMMA LockOKType ==
  ASSUME NEW L, NEW H, LockOK(L, H)
  PROVE  L \in Lock /\ H \in [Proc -> Holding]
BY DEF LockOK

(* A state whose lock agrees with the holdings satisfies the invariant.     *)
LEMMA FromLockOK ==
  ASSUME LockOK(lk', hold'), TypeOK'
  PROVE  IInv'
<1>1. Exclusive(hold')
  BY LockOKExclusive
<1> QED
  BY <1>1 DEF IInv, Exclusive, MutualExclusion

(* The common end of a call, with the WAITDRAIN wakeup.                     *)
LEMMA ReturnOK ==
  ASSUME TypeOK, NEW p \in Proc, NEW L, NEW W \in Channels, NEW h,
         LockOK(L, [hold EXCEPT ![p] = h]),
         Return(p, L, W, h)
  PROVE  IInv'
<1>1. L \in Lock /\ [hold EXCEPT ![p] = h] \in [Proc -> Holding]
  BY LockOKType
<1>2. hold' = [hold EXCEPT ![p] = h]
  BY DEF Return
<1>3. [L EXCEPT !.flags = @ \ {"WAITDRAIN"}] \in Lock
  BY <1>1 DEF Lock, Flags, Busy
<1>4. LockOK([L EXCEPT !.flags = @ \ {"WAITDRAIN"}], hold')
  BY <1>1, <1>2, <1>3, SameCounts DEF Lock
<1>5. LockOK(lk', hold')
  BY <1>2, <1>4 DEF Return
<1>6. lk' \in Lock /\ hold' \in [Proc -> Holding]
  BY <1>5, LockOKType
<1>7. wchan' \in Channels
  BY WakeupType DEF Return
<1>8. TypeOK'
  BY <1>6, <1>7 DEF TypeOK, Return, Channels
<1> QED
  BY <1>5, <1>8, FromLockOK

(* Going to sleep, in ACQUIRE or in LK_DRAIN.                               *)
LEMMA SleepOK ==
  ASSUME TypeOK, NEW p \in Proc, NEW L, NEW W \in Channels, NEW h,
         NEW site \in Sites, NEW e \in SUBSET ExtFlagNames,
         LockOK(L, [hold EXCEPT ![p] = h]),
         SleepAt(p, site, L, W, h, e)
  PROVE  IInv'
<1>1. L \in Lock /\ [hold EXCEPT ![p] = h] \in [Proc -> Holding]
  BY LockOKType
<1>2. hold' = [hold EXCEPT ![p] = h]
  BY DEF SleepAt
<1>3. LockOK(lk', hold')
  <2>1. CASE site = "drain"
    <3>1. lk' = [L EXCEPT !.flags = @ \cup {"WAITDRAIN"}]
      BY <2>1 DEF SleepAt
    <3>2. lk' \in Lock
      BY <1>1, <3>1 DEF Lock, Flags
    <3> QED
      BY <1>1, <1>2, <3>1, <3>2, SameCounts DEF Lock
  <2>2. CASE site # "drain"
    <3>1. lk' = [L EXCEPT !.waitcount = @ + 1]
      BY <2>2 DEF SleepAt
    <3>2. lk' \in Lock
      BY <1>1, <3>1 DEF Lock
    <3> QED
      BY <1>1, <1>2, <3>1, <3>2, SameCounts DEF Lock
  <2> QED
    BY <2>1, <2>2
<1>4. lk' \in Lock /\ hold' \in [Proc -> Holding]
  BY <1>3, LockOKType
<1>5. wchan' \in Channels
  BY DEF SleepAt, Channels, Channel
<1>6. TypeOK'
  BY <1>4, <1>5 DEF TypeOK, SleepAt, Channels
<1> QED
  BY <1>3, <1>6, FromLockOK

(* A panic changes no holdings.                                             *)
LEMMA PanicOK ==
  ASSUME TypeOK, MutualExclusion, NEW L \in Lock, Panic(L)
  PROVE  IInv'
<1>1. TypeOK'
  BY DEF TypeOK, Panic
<1>2. MutualExclusion'
  BY DEF MutualExclusion, Panic
<1> QED
  BY <1>1, <1>2 DEF IInv, Panic

-----------------------------------------------------------------------------
(* The grants.                                                              *)

(* A caller's holdings as a call has changed them.                          *)
LEMMA HoldingsOf ==
  ASSUME TypeOK, NEW p \in Proc, NEW h, NEW L, LockOK(L, [hold EXCEPT ![p] = h])
  PROVE  /\ h \in Holding
         /\ \A g \in Holding :
              /\ [hold EXCEPT ![p] = g] \in [Proc -> Holding]
              /\ [hold EXCEPT ![p] = g][p] = g
              /\ \A q \in Proc \ {p} : [hold EXCEPT ![p] = g][q] = hold[q]
<1>1. hold \in [Proc -> Holding]
  BY DEF TypeOK
<1>2. [hold EXCEPT ![p] = h] \in [Proc -> Holding]
  BY LockOKType
<1>3. h \in Holding
  BY <1>1, <1>2
<1> QED
  BY <1>1, <1>3

(* The end of LK_UPGRADE and of LK_EXCLUSIVE: with no share left, granting  *)
(* the exclusive lock, or panicking because it is taken, is safe.           *)
LEMMA GrantExclOK ==
  ASSUME TypeOK, MutualExclusion, NEW p \in Proc, NEW L, NEW W \in Channels, NEW h,
         LockOK(L, [hold EXCEPT ![p] = h]), L.sharecount = 0,
         GrantExcl(p, L, W, h)
  PROVE  IInv'
<1> DEFINE M == [L EXCEPT !.flags = @ \cup {"HAVE_EXCL"}, !.lockholder = p]
           N == [M EXCEPT !.exclusivecount = 1]
           g == [h EXCEPT !.ex = 1]
           H == [hold EXCEPT ![p] = h]
           G == [hold EXCEPT ![p] = g]
<1>1. L \in Lock
  BY LockOKType
<1>2. M \in Lock
  BY <1>1 DEF Lock, Flags, Busy
<1>3. CASE L.exclusivecount # 0
  BY <1>2, <1>3, PanicOK DEF GrantExcl
<1>4. CASE L.exclusivecount = 0
  <2>1. /\ N \in Lock /\ N.sharecount = 0 /\ N.exclusivecount = 1
        /\ "HAVE_EXCL" \in N.flags /\ N.lockholder = p
    <3>1. M.sharecount = 0 /\ "HAVE_EXCL" \in M.flags /\ M.lockholder = p
      BY <1>1 DEF Lock
    <3> HIDE DEF M
    <3> QED
      BY <1>2, <3>1 DEF Lock
  <2>2. h \in Holding /\ g \in Holding /\ g.ex = 1 /\ g.sh = h.sh
    BY HoldingsOf DEF Holding
  <2>3. /\ G \in [Proc -> Holding] /\ G[p] = g /\ H[p] = h
        /\ \A q \in Proc \ {p} : G[q] = H[q]
    BY <2>2, HoldingsOf
  <2>4. L.lockholder = LK_NOPROC
    BY <1>4 DEF LockOK
  <2>5. Return(p, N, W, g)
    BY <1>4 DEF GrantExcl
  <2> HIDE DEF M, N, g, G
  <2>6. LockOK(N, G)
    <3> HIDE DEF H
    <3>1. LockOK(L, H)
      BY DEF H
    <3> QED
      BY <2>1, <2>2, <2>3, <2>4, <3>1, SetExclusive
  <2> QED
    BY <2>5, <2>6, ReturnOK DEF G
<1> QED
  BY <1>3, <1>4

(* ACQUIRE of LK_SHARED.                                                    *)
LEMMA AcquireSharedOK ==
  ASSUME TypeOK, NEW p \in Proc, NEW L, NEW W \in Channels, NEW h,
         NEW e \in SUBSET ExtFlagNames,
         LockOK(L, [hold EXCEPT ![p] = h]),
         AcquireShared(p, L, W, h, e)
  PROVE  IInv'
<1>1. CASE Wanted("shared", L)
  BY <1>1, SleepOK DEF AcquireShared, Sites, AcquireSites
<1>2. CASE ~Wanted("shared", L)
  <2> DEFINE g == [h EXCEPT !.sh = @ + 1]
             H == [hold EXCEPT ![p] = h]
             G == [hold EXCEPT ![p] = g]
  <2>1. L.exclusivecount = 0
    BY <1>2 DEF Wanted, Busy, LockOK, Lock
  <2>2. h \in Holding /\ g \in Holding /\ g.ex = h.ex /\ g.sh = h.sh + 1
    BY HoldingsOf DEF Holding
  <2>3. /\ G \in [Proc -> Holding] /\ G[p] = g /\ H[p] = h
        /\ \A q \in Proc \ {p} : G[q] = H[q]
    BY <2>2, HoldingsOf
  <2>4. Return(p, [L EXCEPT !.sharecount = @ + 1], W, g)
    BY <1>2 DEF AcquireShared
  <2> HIDE DEF g, G
  <2>5. LockOK([L EXCEPT !.sharecount = @ + 1], G)
    <3> HIDE DEF H
    <3>1. LockOK(L, H)
      BY DEF H
    <3> QED
      BY <2>1, <2>2, <2>3, <3>1, AddShare
  <2> QED
    BY <2>4, <2>5, ReturnOK DEF G
<1> QED
  BY <1>1, <1>2

(* Setting or clearing a flag other than LK_HAVE_EXCL, or lk_waitcount.     *)
LEMMA FlagsOK ==
  ASSUME NEW L, NEW H, LockOK(L, H), NEW f \in Flags, f # "HAVE_EXCL"
  PROVE  /\ LockOK([L EXCEPT !.flags = @ \cup {f}], H)
         /\ LockOK([L EXCEPT !.flags = @ \ {f}], H)
<1>1. L \in Lock
  BY LockOKType
<1>2. [L EXCEPT !.flags = @ \cup {f}] \in Lock /\ [L EXCEPT !.flags = @ \ {f}] \in Lock
  BY <1>1 DEF Lock
<1>3. LockOK([L EXCEPT !.flags = @ \cup {f}], H)
  BY <1>1, <1>2, SameCounts DEF Lock
<1>4. LockOK([L EXCEPT !.flags = @ \ {f}], H)
  BY <1>1, <1>2, SameCounts DEF Lock
<1> QED
  BY <1>3, <1>4

(* The two request flags are flags, and not LK_HAVE_EXCL.                   *)
LEMMA WantFlags ==
  /\ "WANT_EXCL" \in Flags /\ "WANT_EXCL" # "HAVE_EXCL"
  /\ "WANT_UPGRADE" \in Flags /\ "WANT_UPGRADE" # "HAVE_EXCL"
BY DEF Flags, Busy

(* ACQUIRE of LK_UPGRADE.                                                   *)
LEMMA AcquireUpgradeOK ==
  ASSUME TypeOK, MutualExclusion, NEW p \in Proc, NEW L, NEW W \in Channels, NEW h,
         NEW e \in SUBSET ExtFlagNames,
         LockOK(L, [hold EXCEPT ![p] = h]),
         AcquireUpgrade(p, L, W, h, e)
  PROVE  IInv'
<1>1. CASE Wanted("upgrade", L)
  BY <1>1, SleepOK DEF AcquireUpgrade, Sites, AcquireSites
<1>2. CASE ~Wanted("upgrade", L)
  <2> DEFINE M == [L EXCEPT !.flags = @ \ {"WANT_UPGRADE"}]
  <2>1. LockOK(M, [hold EXCEPT ![p] = h])
    BY WantFlags, FlagsOK
  <2>2. M.sharecount = 0
    BY <1>2, LockOKType DEF Wanted, Lock
  <2>3. GrantExcl(p, M, W, h)
    BY <1>2 DEF AcquireUpgrade
  <2> HIDE DEF M
  <2> QED
    BY <2>1, <2>2, <2>3, GrantExclOK
<1> QED
  BY <1>1, <1>2

(* The second ACQUIRE of LK_EXCLUSIVE.                                      *)
LEMMA AcquireExclOK ==
  ASSUME TypeOK, MutualExclusion, NEW p \in Proc, NEW L, NEW W \in Channels, NEW h,
         NEW e \in SUBSET ExtFlagNames,
         LockOK(L, [hold EXCEPT ![p] = h]),
         AcquireExcl(p, L, W, h, e)
  PROVE  IInv'
<1>1. CASE Wanted("excl", L)
  BY <1>1, SleepOK DEF AcquireExcl, Sites, AcquireSites
<1>2. CASE ~Wanted("excl", L)
  <2> DEFINE M == [L EXCEPT !.flags = @ \ {"WANT_EXCL"}]
  <2>1. LockOK(M, [hold EXCEPT ![p] = h])
    BY WantFlags, FlagsOK
  <2>2. M.sharecount = 0
    BY <1>2, LockOKType DEF Wanted, Lock
  <2>3. GrantExcl(p, M, W, h)
    BY <1>2 DEF AcquireExcl
  <2> HIDE DEF M
  <2> QED
    BY <2>1, <2>2, <2>3, GrantExclOK
<1> QED
  BY <1>1, <1>2

(* The first ACQUIRE of LK_EXCLUSIVE.                                       *)
LEMMA AcquireWantExclOK ==
  ASSUME TypeOK, MutualExclusion, NEW p \in Proc, NEW L, NEW W \in Channels, NEW h,
         NEW e \in SUBSET ExtFlagNames,
         LockOK(L, [hold EXCEPT ![p] = h]),
         AcquireWantExcl(p, L, W, h, e)
  PROVE  IInv'
<1>1. CASE Wanted("wantexcl", L)
  BY <1>1, SleepOK DEF AcquireWantExcl, Sites, AcquireSites
<1>2. CASE ~Wanted("wantexcl", L)
  <2> DEFINE M == [L EXCEPT !.flags = @ \cup {"WANT_EXCL"}]
  <2>1. LockOK(M, [hold EXCEPT ![p] = h])
    BY WantFlags, FlagsOK
  <2>2. AcquireExcl(p, M, W, h, e)
    BY <1>2 DEF AcquireWantExcl
  <2> HIDE DEF M
  <2> QED
    BY <2>1, <2>2, AcquireExclOK
<1> QED
  BY <1>1, <1>2

(* The loop of LK_DRAIN.                                                    *)
LEMMA AcquireDrainOK ==
  ASSUME TypeOK, NEW p \in Proc, NEW L, NEW W \in Channels, NEW h,
         NEW e \in SUBSET ExtFlagNames,
         LockOK(L, [hold EXCEPT ![p] = h]),
         AcquireDrain(p, L, W, h, e)
  PROVE  IInv'
<1>1. CASE Wanted("drain", L)
  BY <1>1, SleepOK DEF AcquireDrain, Sites
<1>2. CASE ~Wanted("drain", L)
  <2> DEFINE M == [L EXCEPT !.flags = @ \cup {"DRAINING", "HAVE_EXCL"}, !.lockholder = p]
             N == [M EXCEPT !.exclusivecount = 1]
             g == [h EXCEPT !.ex = 1]
             H == [hold EXCEPT ![p] = h]
             G == [hold EXCEPT ![p] = g]
  <2>1. L \in Lock
    BY LockOKType
  <2>2. L.sharecount = 0 /\ "HAVE_EXCL" \notin L.flags
    BY <1>2 DEF Wanted, Busy
  <2>3. L.lockholder = LK_NOPROC
    BY <2>1, <2>2 DEF LockOK, Lock
  <2>4. /\ N \in Lock /\ N.sharecount = 0 /\ N.exclusivecount = 1
        /\ "HAVE_EXCL" \in N.flags /\ N.lockholder = p
    <3>1. M \in Lock
      BY <2>1 DEF Lock, Flags, Busy
    <3>2. M.sharecount = 0 /\ "HAVE_EXCL" \in M.flags /\ M.lockholder = p
      BY <2>1, <2>2 DEF Lock
    <3> HIDE DEF M
    <3> QED
      BY <3>1, <3>2 DEF Lock
  <2>5. h \in Holding /\ g \in Holding /\ g.ex = 1 /\ g.sh = h.sh
    BY HoldingsOf DEF Holding
  <2>6. /\ G \in [Proc -> Holding] /\ G[p] = g /\ H[p] = h
        /\ \A q \in Proc \ {p} : G[q] = H[q]
    BY <2>5, HoldingsOf
  <2>7. Return(p, N, W, g)
    BY <1>2 DEF AcquireDrain
  <2> HIDE DEF M, N, g, G
  <2>8. LockOK(N, G)
    <3> HIDE DEF H
    <3>1. LockOK(L, H)
      BY DEF H
    <3> QED
      BY <2>2, <2>3, <2>4, <2>5, <2>6, <3>1, SetExclusive
  <2> QED
    BY <2>7, <2>8, ReturnOK DEF G
<1> QED
  BY <1>1, <1>2

-----------------------------------------------------------------------------
(* The request types with several parts.                                    *)

(* What NoHolder changes and what it keeps.                                 *)
LEMMA NoHolderType ==
  ASSUME NEW L \in Lock
  PROVE  /\ NoHolder(L) \in Lock
         /\ NoHolder(L).sharecount = L.sharecount
         /\ NoHolder(L).exclusivecount = L.exclusivecount
         /\ NoHolder(L).lockholder = LK_NOPROC
         /\ "HAVE_EXCL" \notin NoHolder(L).flags
<1>1. NoHolder(L) \in Lock
  BY DEF NoHolder, Lock
<1> QED
  BY <1>1 DEF NoHolder, Lock

(* case LK_DOWNGRADE.                                                       *)
LEMMA DowngradeLockOK ==
  ASSUME IInv, ~panicked, NEW p \in Proc, NEW extra \in {0, 1},
         DowngradeLock(p, extra)
  PROVE  IInv'
<1> DEFINE L == [lk EXCEPT !.sharecount = @ + extra]
           A == [L EXCEPT !.sharecount = @ + L.exclusivecount]
           S == [A EXCEPT !.exclusivecount = 0]
           M == NoHolder(S)
           g == [sh |-> hold[p].sh + extra + hold[p].ex, ex |-> 0]
           G == [hold EXCEPT ![p] = g]
<1>1. TypeOK /\ MutualExclusion /\ LockOK(lk, hold) /\ wchan \in Channels
  BY DEF IInv, TypeOK, Channels
<1>2. lk \in Lock /\ hold \in [Proc -> Holding] /\ hold[p] \in Holding
  BY <1>1 DEF TypeOK
<1>3. /\ L \in Lock /\ L.sharecount = lk.sharecount + extra
      /\ L.exclusivecount = lk.exclusivecount
  BY <1>2 DEF Lock
<1>4. CASE lk.lockholder # p \/ lk.exclusivecount = 0
  BY <1>1, <1>3, <1>4, PanicOK DEF DowngradeLock
<1>5. CASE ~(lk.lockholder # p \/ lk.exclusivecount = 0)
  <2>1. Return(p, M, WakeWaiters(M, wchan), g)
    BY <1>5 DEF DowngradeLock
  <2>2. /\ lk.sharecount = 0 /\ lk.exclusivecount \in Nat
        /\ hold[p].ex = lk.exclusivecount
    BY <1>1, <1>5 DEF LockOK, Lock
  <2>3. hold[p].sh = 0
    BY <1>1, <2>2, NoneCounted
  <2>4. /\ S \in Lock /\ S.exclusivecount = 0
        /\ S.sharecount = L.sharecount + L.exclusivecount
    <3> HIDE DEF L
    <3>1. A \in Lock /\ A.sharecount = L.sharecount + L.exclusivecount
      BY <1>3 DEF Lock
    <3> HIDE DEF A
    <3> QED
      BY <3>1 DEF Lock
  <2>5. S.sharecount = g.sh
    BY <1>2, <1>3, <2>2, <2>3, <2>4 DEF Holding
  <2>6. g \in Holding /\ g.sh \in Nat /\ g.ex = 0
    BY <1>2 DEF Holding
  <2> HIDE DEF g, S
  <2>7. /\ G \in [Proc -> Holding] /\ G[p] = g
        /\ \A q \in Proc \ {p} : G[q] = hold[q]
    BY <1>2, <2>6
  <2>8. /\ M \in Lock /\ M.sharecount = g.sh /\ M.exclusivecount = 0
        /\ M.lockholder = LK_NOPROC /\ "HAVE_EXCL" \notin M.flags
    BY <2>4, <2>5, NoHolderType
  <2> HIDE DEF M, G
  <2>9. LockOK(M, G)
    BY <1>1, <1>5, <2>6, <2>7, <2>8, DowngradeShares
  <2>10. WakeWaiters(M, wchan) \in Channels
    BY <1>1, WakeWaitersType
  <2> QED
    BY <1>1, <2>1, <2>9, <2>10, ReturnOK DEF G
<1> QED
  BY <1>4, <1>5

(* case LK_EXCLUSIVE.                                                       *)
LEMMA ExclusiveRequestOK ==
  ASSUME TypeOK, MutualExclusion, NEW p \in Proc, NEW L, NEW W \in Channels, NEW h,
         NEW e \in SUBSET ExtFlagNames,
         LockOK(L, [hold EXCEPT ![p] = h]),
         ExclusiveRequest(p, L, W, h, e)
  PROVE  IInv'
<1> DEFINE N == [L EXCEPT !.exclusivecount = @ + 1]
           g == [h EXCEPT !.ex = @ + 1]
           H == [hold EXCEPT ![p] = h]
           G == [hold EXCEPT ![p] = g]
<1>1. L \in Lock
  BY LockOKType
<1>2. CASE L.lockholder = p /\ Return(p, N, W, g)
  <2>1. /\ H[p].ex = L.exclusivecount /\ L.exclusivecount > 0 /\ L.sharecount = 0
        /\ "HAVE_EXCL" \in L.flags /\ L.exclusivecount \in Nat
    BY <1>1, <1>2, LockAssumption DEF LockOK, Lock
  <2>2. /\ N \in Lock /\ N.sharecount = 0 /\ N.exclusivecount = L.exclusivecount + 1
        /\ "HAVE_EXCL" \in N.flags /\ N.lockholder = p
    BY <1>1, <1>2, <2>1 DEF Lock
  <2>3. h \in Holding /\ g \in Holding /\ g.ex = h.ex + 1 /\ g.sh = h.sh
    BY HoldingsOf DEF Holding
  <2>4. /\ G \in [Proc -> Holding] /\ G[p] = g /\ H[p] = h
        /\ \A q \in Proc \ {p} : G[q] = H[q]
    BY <2>3, HoldingsOf
  <2> HIDE DEF N, g, G
  <2>5. LockOK(N, G)
    <3> DEFINE n == L.exclusivecount + 1
    <3> HIDE DEF H
    <3>1. LockOK(L, H)
      BY DEF H
    <3>2. /\ n \in Nat /\ N.exclusivecount = n /\ G[p].ex = n
          /\ "HAVE_EXCL" \in N.flags <=> n > 0
          /\ N.lockholder = IF n = 0 THEN LK_NOPROC ELSE p
      BY <2>1, <2>2, <2>3, <2>4
    <3>3. /\ \A q \in Proc : G[q].sh = H[q].sh
          /\ \A q \in Proc \ {p} : G[q].ex = H[q].ex
      BY <2>3, <2>4
    <3> HIDE DEF n
    <3> QED
      BY <1>2, <2>1, <2>2, <2>4, <3>1, <3>2, <3>3, SetExclusive
  <2> QED
    BY <1>2, <2>5, ReturnOK DEF G
<1>3. CASE Panic(L)
  BY <1>1, <1>3, PanicOK
<1>4. CASE Return(p, L, W, h)
  BY <1>4, ReturnOK
<1>5. CASE AcquireWantExcl(p, L, W, h, e)
  BY <1>5, AcquireWantExclOK
<1> QED
  BY <1>2, <1>3, <1>4, <1>5 DEF ExclusiveRequest

(* case LK_UPGRADE, by a process that holds a share or the exclusive lock.  *)
LEMMA UpgradeRequestOK ==
  ASSUME IInv, ~panicked, NEW p \in Proc, NEW e \in SUBSET ExtFlagNames,
         hold[p].sh > 0 \/ lk.lockholder = p,
         UpgradeRequest(p, e)
  PROVE  IInv'
<1> DEFINE L == [lk EXCEPT !.sharecount = @ - 1]
           h == [hold[p] EXCEPT !.sh = @ - 1]
           G == [hold EXCEPT ![p] = h]
           W == IF L.sharecount = 0 THEN WakeWaiters(L, wchan) ELSE wchan
           M == [L EXCEPT !.flags = @ \cup {"WANT_UPGRADE"}]
<1>1. TypeOK /\ MutualExclusion /\ LockOK(lk, hold) /\ wchan \in Channels
  BY DEF IInv, TypeOK, Channels
<1>2. lk \in Lock /\ hold \in [Proc -> Holding] /\ hold[p] \in Holding
  BY <1>1 DEF TypeOK
<1>3. CASE Panic(lk)
  BY <1>1, <1>2, <1>3, PanicOK
<1>4. CASE lk.lockholder # p /\ ~Panic(lk)
  <2>1. h \in Holding /\ hold[p].sh = h.sh + 1 /\ h.ex = hold[p].ex
    BY <1>2, <1>4 DEF Holding
  <2>2. /\ G \in [Proc -> Holding] /\ G[p] = h
        /\ \A q \in Proc \ {p} : G[q] = hold[q]
    BY <1>2, <2>1
  <2>3. LockOK(L, G)
    <3> HIDE DEF G, h
    <3> QED
      BY <1>1, <2>1, <2>2, DropShare
  <2>4. LockOK(M, G)
    <3> HIDE DEF L, G
    <3> QED
      BY <2>3, FlagsOK, WantFlags
  <2>5. W \in Channels
    BY <1>1, WakeWaitersType
  <2>6. \/ Return(p, L, wchan, h)
        \/ AcquireUpgrade(p, M, wchan, h, e)
        \/ ExclusiveRequest(p, L, W, h, e)
    BY <1>4 DEF UpgradeRequest
  <2> HIDE DEF L, M, h, W
  <2> QED
    BY <1>1, <2>3, <2>4, <2>5, <2>6, ReturnOK, AcquireUpgradeOK, ExclusiveRequestOK
<1> QED
  BY <1>3, <1>4 DEF UpgradeRequest

-----------------------------------------------------------------------------
(* Every action preserves the invariant.                                    *)

(* What a step that does not start from a panic may use.                    *)
LEMMA Facts ==
  ASSUME IInv, ~panicked, NEW p \in Proc
  PROVE  /\ TypeOK /\ MutualExclusion /\ LockOK(lk, hold) /\ wchan \in Channels
         /\ lk \in Lock /\ hold \in [Proc -> Holding] /\ hold[p] \in Holding
         /\ [hold EXCEPT ![p] = hold[p]] = hold
         /\ ext[p] \in SUBSET ExtFlagNames
<1>1. TypeOK /\ MutualExclusion /\ LockOK(lk, hold)
  BY DEF IInv
<1>2. hold \in [Proc -> Holding] /\ lk \in Lock /\ wchan \in Channels
      /\ ext[p] \in SUBSET ExtFlagNames
  BY <1>1 DEF TypeOK, Channels
<1> QED
  BY <1>1, <1>2

(* Leaving tsleep() changes lk_waitcount and request flags only.            *)
LEMMA AwakeOK ==
  ASSUME NEW p \in Proc, LockOK(lk, hold)
  PROVE  /\ LockOK(Awake, hold)
         /\ LockOK(Clear("WANT_UPGRADE"), hold)
         /\ LockOK(Clear("WANT_EXCL"), hold)
<1>1. lk \in Lock
  BY LockOKType
<1>2. Awake \in Lock
  BY <1>1 DEF Awake, Lock
<1>3. LockOK(Awake, hold)
  BY <1>1, <1>2, SameCounts DEF Awake, Lock
<1> QED
  BY <1>3, FlagsOK, WantFlags DEF Clear

(* LK_SHARED preserves IInv.                                                *)
LEMMA SharedStep ==
  ASSUME IInv, NEW p \in Proc, NEW e \in ExtFlags, LK_SHARED(p, e)
  PROVE  IInv'
<1>1. ~panicked
  BY DEF LK_SHARED, Begin
<1>2. e \in SUBSET ExtFlagNames
  BY LockAssumption
<1>3. \/ DowngradeLock(p, 1)
      \/ Return(p, lk, wchan, hold[p])
      \/ AcquireShared(p, lk, wchan, hold[p], e)
  BY DEF LK_SHARED
<1> QED
  BY <1>1, <1>2, <1>3, Facts, DowngradeLockOK, ReturnOK, AcquireSharedOK

(* LK_EXCLUSIVE preserves IInv.                                             *)
LEMMA ExclusiveStep ==
  ASSUME IInv, NEW p \in Proc, NEW e \in ExtFlags, LK_EXCLUSIVE(p, e)
  PROVE  IInv'
<1>1. ~panicked
  BY DEF LK_EXCLUSIVE, Begin
<1>2. e \in SUBSET ExtFlagNames
  BY LockAssumption
<1>3. ExclusiveRequest(p, lk, wchan, hold[p], e)
  BY DEF LK_EXCLUSIVE
<1> QED
  BY <1>1, <1>2, <1>3, Facts, ExclusiveRequestOK

(* LK_UPGRADE and LK_EXCLUPGRADE preserve IInv.                             *)
LEMMA UpgradeStep ==
  ASSUME IInv, NEW p \in Proc, NEW e \in ExtFlags,
         LK_UPGRADE(p, e) \/ LK_EXCLUPGRADE(p, e)
  PROVE  IInv'
<1>1. ~panicked
  BY DEF LK_UPGRADE, LK_EXCLUPGRADE, Begin
<1>2. e \in SUBSET ExtFlagNames
  BY LockAssumption
<1>3. hold[p].sh > 0 \/ lk.lockholder = p
  <2>1. hold[p].sh = 1 \/ hold[p].ex > 0
    BY DEF LK_UPGRADE, LK_EXCLUPGRADE
  <2>2. hold[p].ex > 0 => lk.lockholder = p
    BY <1>1, Facts DEF LockOK, Holding
  <2> QED
    BY <2>1, <2>2
<1>4. CASE UpgradeRequest(p, e)
  BY <1>1, <1>2, <1>3, <1>4, UpgradeRequestOK
<1>5. CASE /\ hold[p].sh = 1
           /\ Return(p, [lk EXCEPT !.sharecount = @ - 1], wchan,
                     [hold[p] EXCEPT !.sh = @ - 1])
  <2> DEFINE h == [hold[p] EXCEPT !.sh = @ - 1]
             G == [hold EXCEPT ![p] = h]
  <2>1. h \in Holding /\ hold[p].sh = h.sh + 1 /\ h.ex = hold[p].ex
    BY <1>1, <1>5, Facts DEF Holding
  <2>2. /\ G \in [Proc -> Holding] /\ G[p] = h
        /\ \A q \in Proc \ {p} : G[q] = hold[q]
    BY <1>1, <2>1, Facts
  <2>3. LockOK([lk EXCEPT !.sharecount = @ - 1], G)
    <3> HIDE DEF G, h
    <3> QED
      BY <1>1, <2>1, <2>2, DropShare, Facts
  <2> HIDE DEF h
  <2>4. Return(p, [lk EXCEPT !.sharecount = @ - 1], wchan, h)
    BY <1>5 DEF h
  <2> QED
    BY <1>1, <2>3, <2>4, ReturnOK, Facts
<1> QED
  BY <1>4, <1>5 DEF LK_UPGRADE, LK_EXCLUPGRADE

(* LK_DOWNGRADE preserves IInv.                                             *)
LEMMA DowngradeStep ==
  ASSUME IInv, NEW p \in Proc, NEW e \in ExtFlags, LK_DOWNGRADE(p, e)
  PROVE  IInv'
<1>1. ~panicked /\ DowngradeLock(p, 0)
  BY DEF LK_DOWNGRADE, Begin
<1> QED
  BY <1>1, DowngradeLockOK

(* LK_DRAIN preserves IInv.                                                 *)
LEMMA DrainStep ==
  ASSUME IInv, NEW p \in Proc, NEW e \in ExtFlags, LK_DRAIN(p, e)
  PROVE  IInv'
<1>1. ~panicked
  BY DEF LK_DRAIN, Begin
<1>2. e \in SUBSET ExtFlagNames
  BY LockAssumption
<1>3. \/ Panic(lk)
      \/ Return(p, lk, wchan, hold[p])
      \/ AcquireDrain(p, lk, wchan, hold[p], e)
  BY DEF LK_DRAIN
<1> QED
  BY <1>1, <1>2, <1>3, Facts, PanicOK, ReturnOK, AcquireDrainOK

(* LK_RELEASE preserves IInv, whichever kind of lock it releases.           *)
LEMMA ReleaseStep ==
  ASSUME IInv, NEW p \in Proc, NEW e \in ExtFlags, LK_RELEASE(p, e)
  PROVE  IInv'
<1> DEFINE D == (lk.flags \ {"DRAINING"}) \cup
                  (IF "REENABLE" \in e THEN {} ELSE {"DRAINED"})
           L == IF "DRAINING" \notin lk.flags THEN lk ELSE [lk EXCEPT !.flags = D]
           X == [L EXCEPT !.exclusivecount = @ - 1]
           M == IF L.exclusivecount # 0
                THEN IF X.exclusivecount = 0 THEN NoHolder(X) ELSE X
                ELSE IF L.sharecount # 0 THEN [L EXCEPT !.sharecount = @ - 1]
                ELSE L
           h == IF hold[p].ex > 0 THEN [hold[p] EXCEPT !.ex = @ - 1]
                ELSE IF hold[p].sh > 0 THEN [hold[p] EXCEPT !.sh = @ - 1]
                ELSE hold[p]
           G == [hold EXCEPT ![p] = h]
<1>1. ~panicked
  BY DEF LK_RELEASE, Begin
<1>2. IF L.exclusivecount # 0 /\ L.lockholder # p
      THEN Panic(L)
      ELSE Return(p, M, WakeWaiters(M, wchan), h)
  BY DEF LK_RELEASE
<1>3. Holds(p) > 0 \/ lk.sharecount = 0
  BY DEF LK_RELEASE
<1>4. /\ TypeOK /\ MutualExclusion /\ LockOK(lk, hold) /\ wchan \in Channels
      /\ lk \in Lock /\ hold \in [Proc -> Holding] /\ hold[p] \in Holding
      /\ [hold EXCEPT ![p] = hold[p]] = hold
  BY <1>1, Facts
<1>5. /\ L \in Lock /\ L.sharecount = lk.sharecount
      /\ L.exclusivecount = lk.exclusivecount
      /\ L.lockholder = lk.lockholder
      /\ "HAVE_EXCL" \in L.flags <=> "HAVE_EXCL" \in lk.flags
  <2>1. D \in SUBSET Flags /\ ("HAVE_EXCL" \in D <=> "HAVE_EXCL" \in lk.flags)
    BY <1>4 DEF Lock, Flags, Busy
  <2> HIDE DEF D
  <2> QED
    BY <1>4, <2>1 DEF Lock
<1> HIDE DEF L
<1>6. LockOK(L, hold)
  BY <1>4, <1>5, SameCounts
<1>7. CASE L.exclusivecount # 0 /\ L.lockholder # p
  BY <1>2, <1>4, <1>5, <1>7, PanicOK
<1>8. CASE L.exclusivecount # 0 /\ L.lockholder = p
  <2> DEFINE n == L.exclusivecount - 1
  <2>1. /\ n \in Nat /\ L.sharecount = 0 /\ "HAVE_EXCL" \in L.flags
        /\ hold[p].ex = n + 1
    BY <1>5, <1>6, <1>8 DEF LockOK, Lock
  <2>2. /\ X \in Lock /\ X.sharecount = 0 /\ X.exclusivecount = n
        /\ X.lockholder = p /\ "HAVE_EXCL" \in X.flags
    BY <1>5, <1>8, <2>1 DEF Lock
  <2> HIDE DEF X
  <2>3. /\ M \in Lock /\ M.sharecount = 0 /\ M.exclusivecount = n
        /\ "HAVE_EXCL" \in M.flags <=> n > 0
        /\ M.lockholder = IF n = 0 THEN LK_NOPROC ELSE p
    <3>1. CASE n = 0
      <4>1. M = NoHolder(X)
        BY <1>8, <2>2, <3>1
      <4>2. /\ M \in Lock /\ M.sharecount = X.sharecount
            /\ M.exclusivecount = X.exclusivecount
            /\ M.lockholder = LK_NOPROC /\ "HAVE_EXCL" \notin M.flags
        BY <2>2, <4>1, NoHolderType
      <4> HIDE DEF M, n
      <4> QED
        BY <2>2, <3>1, <4>2
    <3>2. CASE n # 0
      <4>1. M = X
        BY <1>8, <2>2, <3>2
      <4> HIDE DEF M, n
      <4>2. n > 0
        BY <2>1, <3>2
      <4> QED
        BY <2>2, <3>2, <4>1, <4>2
    <3> QED
      BY <3>1, <3>2
  <2>4. h \in Holding /\ h.ex = n /\ h.sh = hold[p].sh
    BY <1>4, <2>1 DEF Holding
  <2> HIDE DEF h, M, n
  <2>5. /\ G \in [Proc -> Holding] /\ G[p] = h
        /\ \A q \in Proc \ {p} : G[q] = hold[q]
    BY <1>4, <2>4
  <2> HIDE DEF G
  <2>6. LockOK(M, G)
    BY <1>6, <1>8, <2>1, <2>3, <2>4, <2>5, SetExclusive
  <2> QED
    BY <1>2, <1>4, <1>8, <2>6, WakeWaitersType, ReturnOK DEF G
<1>9. CASE L.exclusivecount = 0 /\ L.sharecount # 0
  <2>1. hold[p].ex = 0 /\ hold[p].sh > 0
    BY <1>3, <1>4, <1>5, <1>6, <1>9 DEF LockOK, Holding, Holds
  <2>2. h \in Holding /\ hold[p].sh = h.sh + 1 /\ h.ex = hold[p].ex
    BY <1>4, <2>1 DEF Holding
  <2> HIDE DEF h
  <2>3. /\ G \in [Proc -> Holding] /\ G[p] = h
        /\ \A q \in Proc \ {p} : G[q] = hold[q]
    BY <1>4, <2>2
  <2> HIDE DEF G
  <2>4. LockOK(M, G)
    <3>1. M = [L EXCEPT !.sharecount = @ - 1]
      BY <1>9
    <3> HIDE DEF M
    <3> QED
      BY <1>6, <2>2, <2>3, <3>1, DropShare
  <2>5. Return(p, M, WakeWaiters(M, wchan), h)
    BY <1>2, <1>9
  <2> HIDE DEF M
  <2> QED
    BY <1>4, <2>4, <2>5, WakeWaitersType, ReturnOK DEF G
<1>10. CASE L.exclusivecount = 0 /\ L.sharecount = 0
  <2>1. M = L
    BY <1>10
  <2>2. hold[p].ex = 0 /\ hold[p].sh = 0
    BY <1>6, <1>10, NoneCounted DEF LockOK
  <2>3. h = hold[p]
    BY <2>2
  <2>4. Return(p, L, WakeWaiters(L, wchan), hold[p])
    BY <1>2, <1>10, <2>1, <2>3
  <2> QED
    BY <1>4, <1>6, <2>4, WakeWaitersType, ReturnOK
<1> QED
  BY <1>5, <1>7, <1>8, <1>9, <1>10 DEF Lock

(* The rest of a call after tsleep() preserves IInv.                        *)
LEMMA ResumeStep ==
  ASSUME IInv, NEW p \in Proc, Resume(p)
  PROVE  IInv'
<1> PICK error \in BOOLEAN : \/ ResumeShared(p, error)
                             \/ ResumeUpgrade(p, error)
                             \/ ResumeWantExcl(p, error)
                             \/ ResumeExcl(p, error)
                             \/ ResumeDrain(p, error)
  BY DEF Resume
<1>1. ~panicked
  BY DEF ResumeShared, ResumeUpgrade, ResumeWantExcl, ResumeExcl, ResumeDrain, Runnable
<1>2. /\ TypeOK /\ MutualExclusion /\ LockOK(lk, hold) /\ wchan \in Channels
      /\ [hold EXCEPT ![p] = hold[p]] = hold
      /\ ext[p] \in SUBSET ExtFlagNames
  BY <1>1, Facts
<1>3. /\ LockOK(Awake, hold)
      /\ LockOK(Clear("WANT_UPGRADE"), hold)
      /\ LockOK(Clear("WANT_EXCL"), hold)
  BY <1>2, AwakeOK
<1>4. CASE ResumeShared(p, error)
  BY <1>2, <1>3, <1>4, ReturnOK, AcquireSharedOK DEF ResumeShared
<1>5. CASE ResumeUpgrade(p, error)
  BY <1>2, <1>3, <1>5, ReturnOK, AcquireUpgradeOK DEF ResumeUpgrade
<1>6. CASE ResumeWantExcl(p, error)
  BY <1>2, <1>3, <1>6, ReturnOK, AcquireWantExclOK DEF ResumeWantExcl
<1>7. CASE ResumeExcl(p, error)
  BY <1>2, <1>3, <1>7, ReturnOK, AcquireExclOK DEF ResumeExcl
<1>8. CASE ResumeDrain(p, error)
  <2>1. CASE GivesUp(p, error)
    <3>1. lk' = lk /\ hold' = hold
      BY <1>8, <2>1 DEF ResumeDrain
    <3>2. TypeOK'
      BY <1>2, <1>8, <2>1 DEF ResumeDrain, TypeOK
    <3> QED
      BY <1>2, <3>1, <3>2, FromLockOK
  <2>2. CASE ~GivesUp(p, error)
    BY <1>2, <1>8, <2>2, AcquireDrainOK DEF ResumeDrain
  <2> QED
    BY <2>1, <2>2
<1> QED
  BY <1>4, <1>5, <1>6, <1>7, <1>8

-----------------------------------------------------------------------------
(* The calls in progress.  P is the pc of a state, L the lock.              *)

WaitingIn(P) == {p \in Proc : P[p] \in AcquireSites}

Retired == {"DRAINING", "DRAINED"}

(* lk_waitcount counts the sleepers of ACQUIRE and there is one drainer.    *)
Counted(L, P) ==
  /\ L \in Lock
  /\ IsFiniteSet(WaitingIn(P))
  /\ L.waitcount = Cardinality(WaitingIn(P))
  /\ \A p, q \in Proc : P[p] = "drain" /\ P[q] = "drain" => p = q

(* A draining lock has one exclusive instance, a drained one none, and no   *)
(* call is in progress on either.                                           *)
Quiet(L, P) ==
  L.flags \cap Retired # {} =>
    /\ \A p \in Proc : P[p] = "idle"
    /\ L.sharecount = 0
    /\ L.exclusivecount = IF "DRAINED" \in L.flags THEN 0 ELSE 1

Live(L, P) == Counted(L, P) /\ L.flags \cap Retired = {}

WaitOK(L, P) == Counted(L, P) /\ Quiet(L, P)

Idle(p) == [pc EXCEPT ![p] = "idle"]

Goal == panicked' \/ WaitOK(lk', pc')

(* A live lock satisfies WaitOK.                                            *)
LEMMA LiveOK ==
  ASSUME NEW L, NEW P, Live(L, P)
  PROVE  WaitOK(L, P)
BY DEF Live, WaitOK, Quiet

(* Live depends on the type, lk_waitcount and the two flags only.           *)
LEMMA SameLive ==
  ASSUME NEW L, NEW P, Live(L, P), NEW M \in Lock, M.waitcount = L.waitcount,
         M.flags \cap Retired = {}
  PROVE  Live(M, P)
BY DEF Live, Counted

(* The end of a call keeps the count of the waiting calls.                  *)
LEMMA ReturnWait ==
  ASSUME NEW p \in Proc, NEW L, NEW W, NEW h,
         WaitOK(L, Idle(p)), Return(p, L, W, h)
  PROVE  Goal
<1> DEFINE M == [L EXCEPT !.flags = @ \ {"WAITDRAIN"}]
<1>1. L \in Lock
  BY DEF WaitOK, Counted
<1>2. /\ M \in Lock /\ M.waitcount = L.waitcount /\ M.sharecount = L.sharecount
      /\ M.exclusivecount = L.exclusivecount
      /\ M.flags = L.flags \ {"WAITDRAIN"}
  BY <1>1 DEF Lock
<1> HIDE DEF M
<1>3. /\ M.flags \cap Retired = L.flags \cap Retired
      /\ "DRAINED" \in M.flags <=> "DRAINED" \in L.flags
  BY <1>2 DEF Retired
<1>4. WaitOK(M, Idle(p))
  BY <1>2, <1>3 DEF WaitOK, Counted, Quiet
<1>5. pc' = Idle(p) /\ lk' \in {L, M}
  BY DEF Return, Idle, M
<1> QED
  BY <1>4, <1>5 DEF Goal

(* A process that goes to sleep in ACQUIRE is counted.                      *)
LEMMA SleepWait ==
  ASSUME TypeOK, NEW p \in Proc, NEW L, NEW W, NEW h, NEW e, NEW site \in Sites,
         Live(L, Idle(p)),
         site = "drain" => \A q \in Proc : Idle(p)[q] # "drain",
         SleepAt(p, site, L, W, h, e)
  PROVE  Goal
<1> DEFINE P == Idle(p)
<1>1. L \in Lock /\ L.flags \cap Retired = {}
  BY DEF Live, Counted
<1>2. /\ pc' = [P EXCEPT ![p] = site] /\ P[p] = "idle"
      /\ \A q \in Proc \ {p} : pc'[q] = P[q]
      /\ pc'[p] = site
  BY DEF SleepAt, Idle, TypeOK
<1>3. p \notin WaitingIn(P)
  BY <1>2 DEF WaitingIn, AcquireSites
<1>4. \A q, r \in Proc : pc'[q] = "drain" /\ pc'[r] = "drain" => q = r
  BY <1>2 DEF Live, Counted
<1>5. CASE site = "drain"
  <2>1. WaitingIn(pc') = WaitingIn(P)
    BY <1>2, <1>5 DEF WaitingIn, AcquireSites
  <2>2. lk' = [L EXCEPT !.flags = @ \cup {"WAITDRAIN"}]
    BY <1>5 DEF SleepAt
  <2>3. lk' \in Lock /\ lk'.waitcount = L.waitcount
    BY <1>1, <2>2 DEF Lock, Flags
  <2>4. lk'.flags \cap Retired = {}
    BY <1>1, <2>2 DEF Lock, Retired
  <2> QED
    BY <1>4, <2>1, <2>3, <2>4 DEF Goal, WaitOK, Quiet, Live, Counted
<1>6. CASE site # "drain"
  <2>1. WaitingIn(pc') = WaitingIn(P) \cup {p}
    BY <1>2, <1>6 DEF WaitingIn, Sites
  <2>2. /\ IsFiniteSet(WaitingIn(pc'))
        /\ Cardinality(WaitingIn(pc')) = Cardinality(WaitingIn(P)) + 1
    <3>1. IsFiniteSet(WaitingIn(P))
      BY DEF Live, Counted
    <3> QED
      BY <1>3, <2>1, <3>1, FS_AddElement
  <2>3. lk' = [L EXCEPT !.waitcount = @ + 1]
    BY <1>6 DEF SleepAt
  <2>4. lk' \in Lock /\ lk'.waitcount = L.waitcount + 1 /\ lk'.flags = L.flags
    BY <1>1, <2>3 DEF Lock
  <2> QED
    BY <1>1, <1>4, <2>2, <2>4 DEF Goal, WaitOK, Quiet, Live, Counted
<1> QED
  BY <1>5, <1>6

(* After a panic there is nothing to show.                                  *)
LEMMA PanicWait ==
  ASSUME NEW L, Panic(L)
  PROVE  Goal
BY DEF Panic, Goal

(* The grants, and the request types with several parts.                    *)
LEMMA GrantWait ==
  ASSUME NEW p \in Proc, NEW L, NEW W, NEW h,
         Live(L, Idle(p)), GrantExcl(p, L, W, h)
  PROVE  Goal
<1> DEFINE M == [L EXCEPT !.flags = @ \cup {"HAVE_EXCL"}, !.lockholder = p]
           N == [M EXCEPT !.exclusivecount = 1]
<1>1. L \in Lock /\ L.flags \cap Retired = {}
  BY DEF Live, Counted
<1>2. M \in Lock /\ M.waitcount = L.waitcount /\ M.flags = L.flags \cup {"HAVE_EXCL"}
  <2>1. M \in Lock
    BY <1>1 DEF Lock, Flags, Busy
  <2> QED
    BY <1>1, <2>1 DEF Lock
<1>3. Panic(M) \/ Return(p, N, W, [h EXCEPT !.ex = 1])
  BY DEF GrantExcl
<1> HIDE DEF M
<1>4. N \in Lock /\ N.waitcount = L.waitcount /\ N.flags = M.flags
  BY <1>2 DEF Lock
<1> HIDE DEF N
<1>5. N.flags \cap Retired = {}
  BY <1>1, <1>2, <1>4 DEF Retired
<1>6. WaitOK(N, Idle(p))
  BY <1>4, <1>5, SameLive, LiveOK
<1> QED
  BY <1>3, <1>6, PanicWait, ReturnWait

(* Setting or clearing a request flag or LK_HAVE_EXCL.                      *)
LEMMA FlagLive ==
  ASSUME NEW L, NEW P, Live(L, P), NEW f \in Busy
  PROVE  /\ Live([L EXCEPT !.flags = @ \cup {f}], P)
         /\ Live([L EXCEPT !.flags = @ \ {f}], P)
<1>1. L \in Lock /\ L.flags \cap Retired = {} /\ f \in Flags /\ f \notin Retired
  BY DEF Live, Counted, Flags, Busy, Retired
<1> DEFINE M == [L EXCEPT !.flags = @ \cup {f}]
           N == [L EXCEPT !.flags = @ \ {f}]
<1>2. M \in Lock /\ M.waitcount = L.waitcount /\ M.flags = L.flags \cup {f}
  BY <1>1 DEF Lock
<1>3. N \in Lock /\ N.waitcount = L.waitcount /\ N.flags = L.flags \ {f}
  BY <1>1 DEF Lock
<1> HIDE DEF M, N
<1>4. M.flags \cap Retired = {} /\ N.flags \cap Retired = {}
  BY <1>1, <1>2, <1>3
<1>5. Live(M, P) /\ Live(N, P)
  BY <1>2, <1>3, <1>4, SameLive
<1> QED
  BY <1>5 DEF M, N

(* The two request flags are among those that make a lock busy.             *)
LEMMA WantBusy == "WANT_EXCL" \in Busy /\ "WANT_UPGRADE" \in Busy
BY DEF Busy

(* The sleep sites: four in ACQUIRE, one in LK_DRAIN.                       *)
LEMMA SitesWait ==
  /\ \A site \in AcquireSites : site \in Sites /\ site # "drain"
  /\ AcquireSites = {"shared", "upgrade", "wantexcl", "excl"}
  /\ "drain" \in Sites
BY DEF Sites, AcquireSites

(* ACQUIRE of LK_SHARED.                                                    *)
LEMMA AcquireSharedWait ==
  ASSUME TypeOK, NEW p \in Proc, NEW L, NEW W, NEW h, NEW e,
         Live(L, Idle(p)), AcquireShared(p, L, W, h, e)
  PROVE  Goal
<1> DEFINE N == [L EXCEPT !.sharecount = @ + 1]
<1>1. L \in Lock /\ L.flags \cap Retired = {}
  BY DEF Live, Counted
<1>2. N \in Lock /\ N.waitcount = L.waitcount /\ N.flags = L.flags
  BY <1>1 DEF Lock
<1>3. \/ SleepAt(p, "shared", L, W, h, e)
      \/ Return(p, N, W, [h EXCEPT !.sh = @ + 1])
  BY DEF AcquireShared
<1> HIDE DEF N
<1>4. WaitOK(N, Idle(p))
  BY <1>1, <1>2, SameLive, LiveOK
<1> QED
  BY <1>3, <1>4, SleepWait, ReturnWait, SitesWait

(* ACQUIRE of LK_UPGRADE.                                                   *)
LEMMA AcquireUpgradeWait ==
  ASSUME TypeOK, NEW p \in Proc, NEW L, NEW W, NEW h, NEW e,
         Live(L, Idle(p)), AcquireUpgrade(p, L, W, h, e)
  PROVE  Goal
<1> DEFINE M == [L EXCEPT !.flags = @ \ {"WANT_UPGRADE"}]
<1>1. SleepAt(p, "upgrade", L, W, h, e) \/ GrantExcl(p, M, W, h)
  BY DEF AcquireUpgrade
<1>2. Live(M, Idle(p))
  BY FlagLive, WantBusy
<1> HIDE DEF M
<1> QED
  BY <1>1, <1>2, SleepWait, GrantWait, SitesWait

(* The second ACQUIRE of LK_EXCLUSIVE.                                      *)
LEMMA AcquireExclWait ==
  ASSUME TypeOK, NEW p \in Proc, NEW L, NEW W, NEW h, NEW e,
         Live(L, Idle(p)), AcquireExcl(p, L, W, h, e)
  PROVE  Goal
<1> DEFINE M == [L EXCEPT !.flags = @ \ {"WANT_EXCL"}]
<1>1. SleepAt(p, "excl", L, W, h, e) \/ GrantExcl(p, M, W, h)
  BY DEF AcquireExcl
<1>2. Live(M, Idle(p))
  BY FlagLive, WantBusy
<1> HIDE DEF M
<1> QED
  BY <1>1, <1>2, SleepWait, GrantWait, SitesWait

(* The first ACQUIRE of LK_EXCLUSIVE.                                       *)
LEMMA AcquireWantExclWait ==
  ASSUME TypeOK, NEW p \in Proc, NEW L, NEW W, NEW h, NEW e,
         Live(L, Idle(p)), AcquireWantExcl(p, L, W, h, e)
  PROVE  Goal
<1> DEFINE M == [L EXCEPT !.flags = @ \cup {"WANT_EXCL"}]
<1>1. SleepAt(p, "wantexcl", L, W, h, e) \/ AcquireExcl(p, M, W, h, e)
  BY DEF AcquireWantExcl
<1>2. Live(M, Idle(p))
  BY FlagLive, WantBusy
<1> HIDE DEF M
<1> QED
  BY <1>1, <1>2, SleepWait, AcquireExclWait, SitesWait

(* The drain is granted only when nobody else is in lockmgr().              *)
LEMMA AcquireDrainWait ==
  ASSUME TypeOK, NEW p \in Proc, NEW L, NEW W, NEW h, NEW e,
         Live(L, Idle(p)), \A q \in Proc : Idle(p)[q] # "drain",
         AcquireDrain(p, L, W, h, e)
  PROVE  Goal
<1> DEFINE M == [L EXCEPT !.flags = @ \cup {"DRAINING", "HAVE_EXCL"}, !.lockholder = p]
           N == [M EXCEPT !.exclusivecount = 1]
<1>1. L \in Lock /\ L.flags \cap Retired = {}
  BY DEF Live, Counted
<1>2. CASE SleepAt(p, "drain", L, W, h, e)
  BY <1>2, SleepWait, SitesWait
<1>3. CASE ~Wanted("drain", L) /\ Return(p, N, W, [h EXCEPT !.ex = 1])
  <2>1. L.sharecount = 0 /\ L.waitcount = 0
    BY <1>3 DEF Wanted
  <2>2. /\ M \in Lock /\ M.waitcount = 0 /\ M.sharecount = 0
        /\ M.flags = L.flags \cup {"DRAINING", "HAVE_EXCL"}
    <3>1. M \in Lock
      BY <1>1 DEF Lock, Flags, Busy
    <3> QED
      BY <1>1, <2>1, <3>1 DEF Lock
  <2> HIDE DEF M
  <2>3. /\ N \in Lock /\ N.waitcount = 0 /\ N.sharecount = 0 /\ N.exclusivecount = 1
        /\ N.flags = M.flags
    BY <2>2 DEF Lock
  <2> HIDE DEF N
  <2>4. "DRAINED" \notin N.flags
    BY <1>1, <2>2, <2>3 DEF Retired
  <2>5. WaitingIn(Idle(p)) = {}
    BY <2>1, FS_EmptySet DEF Live, Counted
  <2>6. \A q \in Proc : Idle(p)[q] \in Sites \cup {"idle"}
    BY DEF TypeOK, Idle
  <2>7. \A q \in Proc : Idle(p)[q] = "idle"
    BY <2>5, <2>6 DEF WaitingIn, Sites
  <2>8. WaitOK(N, Idle(p))
    BY <2>1, <2>3, <2>4, <2>7 DEF WaitOK, Quiet, Live, Counted
  <2> QED
    BY <1>3, <2>8, ReturnWait
<1> QED
  BY <1>2, <1>3 DEF AcquireDrain

(* case LK_DOWNGRADE.                                                       *)
LEMMA DowngradeLockWait ==
  ASSUME NEW p \in Proc, NEW extra \in {0, 1}, Live(lk, Idle(p)),
         DowngradeLock(p, extra)
  PROVE  Goal
<1> DEFINE L == [lk EXCEPT !.sharecount = @ + extra]
           A == [L EXCEPT !.sharecount = @ + L.exclusivecount]
           S == [A EXCEPT !.exclusivecount = 0]
           M == NoHolder(S)
           g == [sh |-> hold[p].sh + extra + hold[p].ex, ex |-> 0]
<1>1. Panic(L) \/ Return(p, M, WakeWaiters(M, wchan), g)
  BY DEF DowngradeLock
<1>2. lk \in Lock /\ lk.flags \cap Retired = {}
  BY DEF Live, Counted
<1>3. L \in Lock /\ L.waitcount = lk.waitcount /\ L.flags = lk.flags
  BY <1>2 DEF Lock
<1> HIDE DEF L
<1>4. A \in Lock /\ A.waitcount = lk.waitcount /\ A.flags = lk.flags
  BY <1>3 DEF Lock
<1> HIDE DEF A
<1>5. S \in Lock /\ S.waitcount = lk.waitcount /\ S.flags = lk.flags
  BY <1>4 DEF Lock
<1> HIDE DEF S
<1>6. M \in Lock /\ M.waitcount = lk.waitcount /\ M.flags = lk.flags \ {"HAVE_EXCL"}
  BY <1>5, NoHolderType DEF NoHolder, Lock
<1> HIDE DEF M
<1>7. M.flags \cap Retired = {}
  BY <1>2, <1>6
<1>8. WaitOK(M, Idle(p))
  BY <1>6, <1>7, SameLive, LiveOK
<1> QED
  BY <1>1, <1>8, PanicWait, ReturnWait

(* case LK_EXCLUSIVE.                                                       *)
LEMMA ExclusiveRequestWait ==
  ASSUME TypeOK, NEW p \in Proc, NEW L, NEW W, NEW h, NEW e,
         Live(L, Idle(p)), ExclusiveRequest(p, L, W, h, e)
  PROVE  Goal
<1> DEFINE N == [L EXCEPT !.exclusivecount = @ + 1]
<1>1. \/ Return(p, N, W, [h EXCEPT !.ex = @ + 1])
      \/ Panic(L)
      \/ Return(p, L, W, h)
      \/ AcquireWantExcl(p, L, W, h, e)
  BY DEF ExclusiveRequest
<1>2. L \in Lock /\ L.flags \cap Retired = {}
  BY DEF Live, Counted
<1>3. N \in Lock /\ N.waitcount = L.waitcount /\ N.flags = L.flags
  BY <1>2 DEF Lock
<1> HIDE DEF N
<1>4. WaitOK(N, Idle(p)) /\ WaitOK(L, Idle(p))
  BY <1>2, <1>3, SameLive, LiveOK
<1> QED
  BY <1>1, <1>4, ReturnWait, PanicWait, AcquireWantExclWait

(* case LK_UPGRADE.                                                         *)
LEMMA UpgradeRequestWait ==
  ASSUME TypeOK, NEW p \in Proc, NEW e, Live(lk, Idle(p)), UpgradeRequest(p, e)
  PROVE  Goal
<1> DEFINE L == [lk EXCEPT !.sharecount = @ - 1]
           h == [hold[p] EXCEPT !.sh = @ - 1]
           W == IF L.sharecount = 0 THEN WakeWaiters(L, wchan) ELSE wchan
           M == [L EXCEPT !.flags = @ \cup {"WANT_UPGRADE"}]
<1>1. \/ Panic(lk)
      \/ Return(p, L, wchan, h)
      \/ AcquireUpgrade(p, M, wchan, h, e)
      \/ ExclusiveRequest(p, L, W, h, e)
  BY DEF UpgradeRequest
<1>2. lk \in Lock /\ lk.flags \cap Retired = {}
  BY DEF Live, Counted
<1>3. L \in Lock /\ L.waitcount = lk.waitcount /\ L.flags = lk.flags
  BY <1>2 DEF Lock
<1> HIDE DEF L
<1>4. Live(L, Idle(p))
  BY <1>2, <1>3, SameLive
<1>5. Live(M, Idle(p))
  BY <1>4, FlagLive, WantBusy
<1> HIDE DEF M
<1> QED
  BY <1>1, <1>4, <1>5, LiveOK, PanicWait, ReturnWait, AcquireUpgradeWait,
     ExclusiveRequestWait

(* The actions.                                                             *)
LEMMA BeginWait ==
  ASSUME TypeOK, WaitOK(lk, pc), NEW p \in Proc, NEW type, NEW e, Begin(p, type, e)
  PROVE  /\ Idle(p) = pc
         /\ ~Decommissioned => Live(lk, Idle(p))
<1>1. Idle(p) = pc
  BY DEF TypeOK, Begin, Idle
<1> QED
  BY <1>1 DEF WaitOK, Live, Decommissioned, Retired

(* Every request but LK_RELEASE is made on a live lock.                     *)
LEMMA RequestWait ==
  ASSUME TypeOK, WaitOK(lk, pc), NEW p \in Proc, NEW e,
         \/ LK_SHARED(p, e) \/ LK_EXCLUSIVE(p, e) \/ LK_UPGRADE(p, e)
         \/ LK_EXCLUPGRADE(p, e) \/ LK_DOWNGRADE(p, e) \/ LK_DRAIN(p, e)
  PROVE  Goal
<1>1. Live(lk, Idle(p)) /\ Idle(p) = pc
  BY BeginWait DEF LK_SHARED, LK_EXCLUSIVE, LK_UPGRADE, LK_EXCLUPGRADE, LK_DOWNGRADE,
     LK_DRAIN
<1>2. WaitOK(lk, Idle(p))
  BY <1>1, LiveOK
<1>3. CASE LK_SHARED(p, e)
  <2>1. \/ DowngradeLock(p, 1)
        \/ Return(p, lk, wchan, hold[p])
        \/ AcquireShared(p, lk, wchan, hold[p], e)
    BY <1>3 DEF LK_SHARED
  <2> QED
    BY <1>1, <1>2, <2>1, DowngradeLockWait, ReturnWait, AcquireSharedWait
<1>4. CASE LK_EXCLUSIVE(p, e)
  BY <1>1, <1>4, ExclusiveRequestWait DEF LK_EXCLUSIVE
<1>5. CASE LK_UPGRADE(p, e)
  BY <1>1, <1>5, UpgradeRequestWait DEF LK_UPGRADE
<1>6. CASE LK_EXCLUPGRADE(p, e)
  <2> DEFINE L == [lk EXCEPT !.sharecount = @ - 1]
  <2>1. UpgradeRequest(p, e) \/ Return(p, L, wchan, [hold[p] EXCEPT !.sh = @ - 1])
    BY <1>6 DEF LK_EXCLUPGRADE
  <2>2. lk \in Lock /\ lk.flags \cap Retired = {}
    BY <1>1 DEF Live, Counted
  <2>3. L \in Lock /\ L.waitcount = lk.waitcount /\ L.flags = lk.flags
    BY <2>2 DEF Lock
  <2> HIDE DEF L
  <2>4. WaitOK(L, Idle(p))
    BY <1>1, <2>2, <2>3, SameLive, LiveOK
  <2> QED
    BY <1>1, <2>1, <2>4, UpgradeRequestWait, ReturnWait
<1>7. CASE LK_DOWNGRADE(p, e)
  BY <1>1, <1>7, DowngradeLockWait DEF LK_DOWNGRADE
<1>8. CASE LK_DRAIN(p, e)
  <2>1. \/ Panic(lk)
        \/ Return(p, lk, wchan, hold[p])
        \/ AcquireDrain(p, lk, wchan, hold[p], e)
    BY <1>8 DEF LK_DRAIN
  <2>2. \A q \in Proc : Idle(p)[q] # "drain"
    BY <1>1, <1>8 DEF LK_DRAIN
  <2> QED
    BY <1>1, <1>2, <2>1, <2>2, PanicWait, ReturnWait, AcquireDrainWait
<1> QED
  BY <1>3, <1>4, <1>5, <1>6, <1>7, <1>8

(* LK_RELEASE of a live lock, and of a draining one.                        *)
LEMMA ReleaseWait ==
  ASSUME TypeOK, WaitOK(lk, pc), NEW p \in Proc, NEW e, LK_RELEASE(p, e)
  PROVE  Goal
<1> DEFINE D == (lk.flags \ {"DRAINING"}) \cup
                  (IF "REENABLE" \in e THEN {} ELSE {"DRAINED"})
           L == IF "DRAINING" \notin lk.flags THEN lk ELSE [lk EXCEPT !.flags = D]
           X == [L EXCEPT !.exclusivecount = @ - 1]
           M == IF L.exclusivecount # 0
                THEN IF X.exclusivecount = 0 THEN NoHolder(X) ELSE X
                ELSE IF L.sharecount # 0 THEN [L EXCEPT !.sharecount = @ - 1]
                ELSE L
           h == IF hold[p].ex > 0 THEN [hold[p] EXCEPT !.ex = @ - 1]
                ELSE IF hold[p].sh > 0 THEN [hold[p] EXCEPT !.sh = @ - 1]
                ELSE hold[p]
<1>1. Panic(L) \/ Return(p, M, WakeWaiters(M, wchan), h)
  BY DEF LK_RELEASE
<1>2. Idle(p) = pc /\ WaitOK(lk, Idle(p)) /\ lk \in Lock
  BY BeginWait DEF LK_RELEASE, WaitOK, Counted
<1>3. Decommissioned => lk.lockholder = p
  BY DEF LK_RELEASE
<1> HIDE DEF h
<1>4. CASE ~Decommissioned
  <2>1. Live(lk, Idle(p)) /\ L = lk /\ lk.flags \cap Retired = {}
    BY <1>2, <1>4 DEF Live, WaitOK, Decommissioned, Retired
  <2> HIDE DEF L
  <2>2. X \in Lock /\ X.waitcount = lk.waitcount /\ X.flags = lk.flags
    BY <1>2, <2>1 DEF Lock
  <2> DEFINE Y == [L EXCEPT !.sharecount = @ - 1]
  <2>3. Y \in Lock /\ Y.waitcount = lk.waitcount /\ Y.flags = lk.flags
    BY <1>2, <2>1 DEF Lock
  <2>4. M \in {NoHolder(X), X, Y, L}
    OBVIOUS
  <2> HIDE DEF X, Y, M
  <2>5. /\ NoHolder(X) \in Lock /\ NoHolder(X).waitcount = lk.waitcount
        /\ NoHolder(X).flags = lk.flags \ {"HAVE_EXCL"}
    BY <2>2, NoHolderType DEF NoHolder, Lock
  <2>6. M \in Lock /\ M.waitcount = lk.waitcount /\ M.flags \subseteq lk.flags
    BY <1>2, <2>1, <2>2, <2>3, <2>4, <2>5
  <2>7. M.flags \cap Retired = {}
    BY <2>1, <2>6
  <2>8. WaitOK(M, Idle(p))
    BY <2>1, <2>6, <2>7, SameLive, LiveOK
  <2> QED
    BY <1>1, <2>8, PanicWait, ReturnWait
<1>5. CASE Decommissioned
  <2>1. /\ \A q \in Proc : pc[q] = "idle"
        /\ lk.sharecount = 0
        /\ lk.exclusivecount = IF "DRAINED" \in lk.flags THEN 0 ELSE 1
    BY <1>5 DEF WaitOK, Quiet, Decommissioned, Retired
  <2>2. L \in Lock /\ L.waitcount = lk.waitcount /\ L.sharecount = 0
        /\ L.exclusivecount = lk.exclusivecount
        /\ ("DRAINED" \in lk.flags => "DRAINED" \in L.flags)
        /\ "DRAINING" \notin L.flags
    <3>1. D \in SUBSET Flags /\ ("DRAINED" \in lk.flags => "DRAINED" \in D)
          /\ "DRAINING" \notin D
      BY <1>2 DEF Lock, Flags, Busy
    <3> HIDE DEF D
    <3> QED
      BY <1>2, <2>1, <3>1 DEF Lock
  <2> HIDE DEF L
  <2>3. CASE "DRAINED" \in lk.flags
    <3>1. L.exclusivecount = 0
      BY <2>1, <2>2, <2>3
    <3>2. M = L
      BY <2>2, <3>1
    <3> HIDE DEF M
    <3>3. WaitOK(M, Idle(p))
      BY <1>2, <2>1, <2>2, <2>3, <3>1, <3>2 DEF WaitOK, Counted, Quiet
    <3> QED
      BY <1>1, <3>3, PanicWait, ReturnWait
  <2>4. CASE "DRAINED" \notin lk.flags
    <3>1. L.exclusivecount = 1
      BY <2>1, <2>2, <2>4
    <3>2. /\ X \in Lock /\ X.exclusivecount = 0 /\ X.sharecount = 0
          /\ X.waitcount = lk.waitcount /\ X.flags = L.flags
      BY <2>2, <3>1 DEF Lock
    <3>3. M = NoHolder(X)
      BY <3>1, <3>2
    <3> HIDE DEF M, X
    <3>4. /\ M \in Lock /\ M.exclusivecount = 0 /\ M.sharecount = 0
          /\ M.waitcount = lk.waitcount /\ M.flags = L.flags \ {"HAVE_EXCL"}
      BY <3>2, <3>3, NoHolderType DEF NoHolder, Lock
    <3>5. M.flags \cap Retired # {} => "DRAINED" \in M.flags
      BY <2>2, <3>4 DEF Retired
    <3>6. WaitOK(M, Idle(p))
      BY <1>2, <2>1, <3>4, <3>5 DEF WaitOK, Counted, Quiet
    <3> QED
      BY <1>1, <3>6, PanicWait, ReturnWait
  <2> QED
    BY <2>3, <2>4
<1> QED
  BY <1>4, <1>5

(* A process that leaves tsleep() is no longer counted.                     *)
LEMMA ResumeWait ==
  ASSUME TypeOK, WaitOK(lk, pc), NEW p \in Proc, Resume(p)
  PROVE  Goal
<1> PICK error \in BOOLEAN : \/ ResumeShared(p, error)
                             \/ ResumeUpgrade(p, error)
                             \/ ResumeWantExcl(p, error)
                             \/ ResumeExcl(p, error)
                             \/ ResumeDrain(p, error)
  BY DEF Resume
<1>1. pc[p] # "idle"
  BY DEF ResumeShared, ResumeUpgrade, ResumeWantExcl, ResumeExcl, ResumeDrain, Runnable
<1>2. lk \in Lock /\ lk.flags \cap Retired = {}
  BY <1>1 DEF WaitOK, Quiet, Counted
<1>3. pc \in [Proc -> Sites \cup {"idle"}]
  BY DEF TypeOK
<1>4. /\ Idle(p)[p] = "idle"
      /\ \A q \in Proc \ {p} : Idle(p)[q] = pc[q]
  BY <1>3 DEF Idle
<1>5. \A q, r \in Proc : Idle(p)[q] = "drain" /\ Idle(p)[r] = "drain" => q = r
  BY <1>4 DEF WaitOK, Counted
<1>6. CASE pc[p] \in AcquireSites
  <2>1. WaitingIn(Idle(p)) = WaitingIn(pc) \ {p} /\ p \in WaitingIn(pc)
    BY <1>4, <1>6, SitesWait DEF WaitingIn
  <2>2. /\ IsFiniteSet(WaitingIn(Idle(p)))
        /\ Cardinality(WaitingIn(Idle(p))) = Cardinality(WaitingIn(pc)) - 1
    <3>1. IsFiniteSet(WaitingIn(pc))
      BY DEF WaitOK, Counted
    <3> QED
      BY <2>1, <3>1, FS_RemoveElement
  <2>3. Awake \in Lock /\ Awake.waitcount = lk.waitcount - 1 /\ Awake.flags = lk.flags
    BY <1>2 DEF Awake, Lock
  <2>4. Live(Awake, Idle(p))
    BY <1>2, <1>5, <2>2, <2>3 DEF Live, WaitOK, Counted
  <2>5. /\ Live(Clear("WANT_UPGRADE"), Idle(p))
        /\ Live(Clear("WANT_EXCL"), Idle(p))
    BY <2>4, FlagLive, WantBusy DEF Clear
  <2>6. \/ \E L \in {Awake, Clear("WANT_UPGRADE"), Clear("WANT_EXCL")} :
             Return(p, L, wchan, hold[p])
        \/ AcquireShared(p, Awake, wchan, hold[p], ext[p])
        \/ AcquireUpgrade(p, Awake, wchan, hold[p], ext[p])
        \/ AcquireWantExcl(p, Awake, wchan, hold[p], ext[p])
        \/ AcquireExcl(p, Awake, wchan, hold[p], ext[p])
    BY <1>6, SitesWait
       DEF ResumeShared, ResumeUpgrade, ResumeWantExcl, ResumeExcl, ResumeDrain, Runnable
  <2> QED
    BY <2>4, <2>5, <2>6, LiveOK, ReturnWait, AcquireSharedWait, AcquireUpgradeWait,
       AcquireWantExclWait, AcquireExclWait
<1>7. CASE pc[p] = "drain"
  <2>1. WaitingIn(Idle(p)) = WaitingIn(pc)
    BY <1>4, <1>7, SitesWait DEF WaitingIn
  <2>2. Live(lk, Idle(p))
    BY <1>2, <1>5, <2>1 DEF Live, WaitOK, Counted
  <2>3. \A q \in Proc : Idle(p)[q] # "drain"
    BY <1>4, <1>7 DEF WaitOK, Counted
  <2>4. ResumeDrain(p, error)
    BY <1>7 DEF ResumeShared, ResumeUpgrade, ResumeWantExcl, ResumeExcl, Runnable
  <2>5. \/ AcquireDrain(p, lk, wchan, hold[p], ext[p])
        \/ lk' = lk /\ pc' = Idle(p)
    BY <2>4 DEF ResumeDrain, Idle
  <2> QED
    BY <2>2, <2>3, <2>5, LiveOK, AcquireDrainWait DEF Goal
<1> QED
  BY <1>1, <1>3, <1>6, <1>7 DEF Sites

-----------------------------------------------------------------------------
(* The theorems.                                                            *)

Inv == IInv /\ (~panicked => WaitOK(lk, pc))

(* Freeing a drained lock and initialising it again.                        *)
LEMMA LockInitStep ==
  ASSUME Inv, LockInit
  PROVE  Inv'
<1>1. /\ LockOK(lk, hold) /\ WaitOK(lk, pc) /\ TypeOK
      /\ hold' = hold /\ pc' = pc /\ lk' = FreshLock /\ "DRAINED" \in lk.flags
  BY DEF Inv, IInv, LockInit
<1>2. lk.sharecount = 0 /\ lk.exclusivecount = 0 /\ \A p \in Proc : pc[p] = "idle"
  BY <1>1 DEF WaitOK, Quiet, Retired
<1>3. /\ FreshLock \in Lock /\ FreshLock.sharecount = 0 /\ FreshLock.waitcount = 0
      /\ FreshLock.exclusivecount = 0 /\ FreshLock.lockholder = LK_NOPROC
      /\ FreshLock.flags = {}
  BY DEF FreshLock, Lock
<1>4. lk.lockholder = LK_NOPROC /\ "HAVE_EXCL" \notin lk.flags
  BY <1>1, <1>2 DEF LockOK
<1>5. LockOK(lk', hold')
  BY <1>1, <1>2, <1>3, <1>4, SameCounts
<1>6. TypeOK'
  BY <1>1, <1>3 DEF TypeOK, LockInit
<1>7. WaitingIn(pc) = {}
  BY <1>2, SitesWait DEF WaitingIn
<1>8. WaitOK(lk', pc')
  BY <1>1, <1>3, <1>7, FS_EmptySet DEF WaitOK, Counted, Quiet
<1> QED
  BY <1>5, <1>6, <1>8, FromLockOK DEF Inv

(* A signal or a timeout changes neither the lock nor the holdings.         *)
LEMMA InterruptStep ==
  ASSUME Inv, NEW p \in Proc, NEW cause \in {"signal", "timeout"}, Interrupt(p, cause)
  PROVE  Inv'
<1>1. TypeOK' /\ lk' = lk /\ hold' = hold /\ pc' = pc
  BY DEF Inv, IInv, TypeOK, Interrupt
<1>2. LockOK(lk, hold) /\ WaitOK(lk, pc)
  BY DEF Inv, IInv, Interrupt
<1> QED
  BY <1>1, <1>2, FromLockOK DEF Inv

(* Every request preserves the invariant.                                   *)
LEMMA RequestStep ==
  ASSUME Inv, NEW p \in Proc, Request(p)
  PROVE  Inv'
<1> PICK e \in ExtFlags : \/ LK_SHARED(p, e)
                          \/ LK_EXCLUSIVE(p, e)
                          \/ LK_UPGRADE(p, e)
                          \/ LK_EXCLUPGRADE(p, e)
                          \/ LK_DOWNGRADE(p, e)
                          \/ LK_RELEASE(p, e)
                          \/ LK_DRAIN(p, e)
  BY DEF Request
<1>1. ~panicked
  BY DEF LK_SHARED, LK_EXCLUSIVE, LK_UPGRADE, LK_EXCLUPGRADE, LK_DOWNGRADE, LK_RELEASE,
     LK_DRAIN, Begin
<1>2. IInv /\ TypeOK /\ WaitOK(lk, pc)
  BY <1>1 DEF Inv, IInv
<1>3. IInv'
  BY <1>2, SharedStep, ExclusiveStep, UpgradeStep, DowngradeStep, ReleaseStep, DrainStep
<1>4. Goal
  BY <1>2, RequestWait, ReleaseWait
<1> QED
  BY <1>3, <1>4 DEF Inv, Goal

(* The invariant holds of a lock that was just initialised.                 *)
LEMMA InvInit == Init => Inv
<1> SUFFICES ASSUME Init PROVE Inv
  OBVIOUS
<1>1. /\ FreshLock \in Lock /\ FreshLock.sharecount = 0 /\ FreshLock.waitcount = 0
      /\ FreshLock.exclusivecount = 0 /\ FreshLock.lockholder = LK_NOPROC
      /\ FreshLock.flags = {}
  BY DEF FreshLock, Lock
<1>2. NotHeld \in Holding /\ NotHeld.sh = 0 /\ NotHeld.ex = 0
  BY DEF NotHeld, Holding
<1>3. TypeOK
  BY <1>1, <1>2 DEF Init, TypeOK
<1>4. \A p \in Proc : hold[p] = NotHeld /\ pc[p] = "idle"
  BY DEF Init
<1>5. SharesOf(hold) = {}
  BY <1>2, <1>4 DEF SharesOf
<1>6. LockOK(lk, hold)
  <2>1. lk = FreshLock /\ hold \in [Proc -> Holding]
    BY <1>3 DEF Init, TypeOK
  <2>2. IsFiniteSet(SharesOf(hold)) /\ Cardinality(SharesOf(hold)) = 0
    BY <1>5, FS_EmptySet
  <2>3. \A p \in Proc : hold[p].ex = 0 /\ LK_NOPROC # p
    BY <1>2, <1>4, LockAssumption
  <2> QED
    BY <1>1, <2>1, <2>2, <2>3 DEF LockOK
<1>7. MutualExclusion
  BY <1>2, <1>4 DEF MutualExclusion
<1>8. WaitingIn(pc) = {}
  BY <1>4, SitesWait DEF WaitingIn
<1>9. WaitOK(lk, pc)
  BY <1>1, <1>4, <1>8, FS_EmptySet DEF WaitOK, Counted, Quiet, Init
<1> QED
  BY <1>3, <1>6, <1>7, <1>9 DEF Inv, IInv

(* Every step preserves the invariant.                                      *)
LEMMA InvNext == Inv /\ [Next]_vars => Inv'
<1> SUFFICES ASSUME Inv, [Next]_vars PROVE Inv'
  OBVIOUS
<1>1. ASSUME NEW p \in Proc, Request(p) PROVE Inv'
  BY <1>1, RequestStep
<1>2. ASSUME NEW p \in Proc, Resume(p) PROVE Inv'
  <2>1. ~panicked
    BY <1>2 DEF Resume, ResumeShared, ResumeUpgrade, ResumeWantExcl, ResumeExcl,
       ResumeDrain, Runnable
  <2>2. IInv /\ TypeOK /\ WaitOK(lk, pc)
    BY <2>1 DEF Inv, IInv
  <2> QED
    BY <1>2, <2>2, ResumeStep, ResumeWait DEF Inv, Goal
<1>3. ASSUME NEW p \in Proc, NEW cause \in {"signal", "timeout"}, Interrupt(p, cause)
      PROVE  Inv'
  BY <1>3, InterruptStep
<1>4. ASSUME NEW p \in Proc, NEW type \in RequestTypes, UseDecommissioned(p, type)
      PROVE  Inv'
  <2>1. TypeOK /\ MutualExclusion /\ lk \in Lock /\ Panic(lk)
    BY <1>4 DEF Inv, IInv, TypeOK, UseDecommissioned
  <2> QED
    BY <2>1, PanicOK DEF Inv, Panic
<1>5. CASE LockInit
  BY <1>5, LockInitStep
<1>6. CASE UNCHANGED vars
  BY <1>6 DEF vars, Inv, IInv, TypeOK, MutualExclusion, LockOK, SharesOf, WaitOK,
     Counted, Quiet, WaitingIn
<1> QED
  BY <1>1, <1>2, <1>3, <1>4, <1>5, <1>6 DEF Next

(* In every state the lock and the holdings agree, lk_waitcount counts the  *)
(* sleepers of ACQUIRE, and a draining lock is quiet.                       *)
THEOREM Invariance == Spec => []Inv
BY InvInit, InvNext, PTL DEF Spec

(* struct lock, the calls in progress and the holdings keep their types.    *)
THEOREM TypeCorrect == Spec => []TypeOK
<1>1. Inv => TypeOK
  BY DEF Inv, IInv
<1> QED
  BY <1>1, Invariance, PTL

(* lockmgr() never grants two conflicting locks, whatever the requests,     *)
(* flags, errors of tsleep() and careless callers.                          *)
THEOREM MutualExclusionHolds == Spec => []MutualExclusion
<1>1. Inv => MutualExclusion
  BY DEF Inv, IInv
<1> QED
  BY <1>1, Invariance, PTL

(* lk_sharecount is the number of shared locks still to be given back.      *)
THEOREM SharesCountedHolds == Spec => []SharesCounted
<1>1. Inv => SharesCounted
  BY DEF Inv, IInv, LockOK, SharesCounted
<1> QED
  BY <1>1, Invariance, PTL

(* LK_HAVE_EXCL, lk_lockholder, lk_exclusivecount and the holdings agree.   *)
THEOREM HolderRecordedHolds == Spec => []HolderRecorded
<1>1. Inv => HolderRecorded
  BY DEF Inv, IInv, LockOK, HolderRecorded
<1> QED
  BY <1>1, Invariance, PTL

(* lk_waitcount is the number of processes asleep in ACQUIRE.               *)
THEOREM WaitersCountedHolds == Spec => []WaitersCounted
<1>1. Inv => WaitersCounted
  BY DEF Inv, WaitOK, Counted, WaitersCounted, Waiting, WaitingIn
<1> QED
  BY <1>1, Invariance, PTL

(* Nobody but the drainer uses a lock from the grant of the drain on.       *)
THEOREM DrainQuiescentHolds == Spec => []DrainQuiescent
<1>1. Inv => DrainQuiescent
  <2> SUFFICES ASSUME Inv, ~panicked, lk.flags \cap Retired # {},
                      NEW p \in Proc, p # lk.lockholder
               PROVE  pc[p] = "idle" /\ hold[p] = NotHeld
    BY DEF DrainQuiescent, Retired
  <2>1. LockOK(lk, hold) /\ WaitOK(lk, pc)
    BY DEF Inv, IInv
  <2>2. pc[p] = "idle" /\ lk.sharecount = 0
    BY <2>1 DEF WaitOK, Quiet
  <2>3. hold[p].sh = 0
    BY <2>1, <2>2, NoneCounted
  <2>4. hold[p].ex = 0 /\ hold[p] \in Holding
    BY <2>1 DEF LockOK
  <2> QED
    BY <2>2, <2>3, <2>4 DEF Holding, NotHeld
<1> QED
  BY <1>1, Invariance, PTL
=============================================================================
