------------------------------- MODULE RWLock -------------------------------
(***************************************************************************)
(* What a lock handled by lockmgr() promises its callers, as stated by the *)
(* request types of sys/sys/lock.h: shared instances may coexist, an       *)
(* exclusive instance excludes everybody else, an exclusive holder may     *)
(* hold it several times, and a holder may turn its exclusive instances    *)
(* into shared ones without letting go.  LockMgr implements this module.   *)
(***************************************************************************)
EXTENDS Naturals

CONSTANT Proc      \* the processes that use the lock

VARIABLE hold      \* hold[p]: instances p holds, shared (sh) and exclusive (ex)

NotHeld == [sh |-> 0, ex |-> 0]

RWInit == hold = [p \in Proc |-> NotHeld]

OthersHoldNothing(p) == \A q \in Proc \ {p} : hold[q] = NotHeld

GrantShared(p) ==
  /\ \A q \in Proc : hold[q].ex = 0
  /\ hold' = [hold EXCEPT ![p] = [sh |-> @.sh + 1, ex |-> 0]]

\* Also the upgrade granted at once, which trades p's only share.
GrantExclusive(p) ==
  /\ OthersHoldNothing(p)
  /\ \/ hold[p].sh = 0
     \/ hold[p] = [sh |-> 1, ex |-> 0]
  /\ hold' = [hold EXCEPT ![p] = [sh |-> 0, ex |-> @.ex + 1]]

\* LK_DOWNGRADE, or LK_SHARED by the exclusive holder, which also adds a share.
Downgrade(p) ==
  /\ hold[p].ex > 0
  /\ \E extra \in {0, 1} :
       hold' = [hold EXCEPT ![p] = [sh |-> @.ex + extra, ex |-> 0]]

DropShared(p) ==
  /\ hold[p].sh > 0
  /\ hold' = [hold EXCEPT ![p] = [sh |-> @.sh - 1, ex |-> @.ex]]

DropExclusive(p) ==
  /\ hold[p].ex > 0
  /\ hold' = [hold EXCEPT ![p] = [sh |-> @.sh, ex |-> @.ex - 1]]

RWNext ==
  \E p \in Proc : \/ GrantShared(p)
                  \/ GrantExclusive(p)
                  \/ Downgrade(p)
                  \/ DropShared(p)
                  \/ DropExclusive(p)

RWSpec == RWInit /\ [][RWNext]_hold
=============================================================================
