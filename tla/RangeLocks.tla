----------------------------- MODULE RangeLocks -----------------------------
(***************************************************************************)
(* What advisory locking promises the users of a file: each byte is a      *)
(* reader/writer lock of its own, and a request locks or unlocks all the   *)
(* bytes of a range at once, replacing whatever its owner held there.      *)
(* ByteLocks implements this module.                                       *)
(***************************************************************************)
CONSTANTS
  Client,       \* the owners of locks
  Byte          \* the bytes of the file

VARIABLE held   \* held[c][b]: "R", "W" or "none"

RLInit == held = [c \in Client |-> [b \in Byte |-> "none"]]

SetRange(c, S, type) ==
  held' = [held EXCEPT ![c] = [b \in Byte |-> IF b \in S THEN type ELSE @[b]]]

Acquire(c, S, type) ==
  /\ \A d \in Client \ {c}, b \in S :
       held[d][b] # "W" /\ (type = "W" => held[d][b] = "none")
  /\ SetRange(c, S, type)

Release(c, S) == SetRange(c, S, "none")

RLNext ==
  \E c \in Client, S \in SUBSET Byte :
    \/ \E type \in {"R", "W"} : Acquire(c, S, type)
    \/ Release(c, S)

RLSpec == RLInit /\ [][RLNext]_held
=============================================================================
