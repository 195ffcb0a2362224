----------------------------- MODULE MCLockMgr ------------------------------
(* Instances of LockMgr for TLC. *)
EXTENDS LockMgr, TLC

CONSTANTS p1, p2, p3

Three == {p1, p2, p3}

\* The processes are interchangeable, except the careless one.
TwoSymmetry == Permutations({p1, p2})

Plain     == {{}}
Polling   == {{}, {"NOWAIT"}}
Draining  == {{}, {"NOWAIT"}, {"CANRECURSE"}, {"REENABLE"}}
AllFlags  == {{}, {"NOWAIT"}, {"SLEEPFAIL"}, {"CANRECURSE"}, {"REENABLE"}}

NoUpgrade   == {"SHARED", "EXCLUSIVE", "DOWNGRADE", "RELEASE", "DRAIN"}
UpgradeOnly == {"SHARED", "UPGRADE", "EXCLUPGRADE", "DOWNGRADE", "RELEASE"}
=============================================================================
