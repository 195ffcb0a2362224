----------------------------- MODULE NameCache ------------------------------
(***************************************************************************)
(* The name cache, sys/kern/vfs_cache.c, for the names of one directory.   *)
(* An entry names its vnodes with the capability numbers they had when it  *)
(* was made; a vnode that gets a new number has left all its entries.      *)
(*                                                                         *)
(* The cache is a value c with the fields                                  *)
(*   nc     : the entries on hash chains, least recently used first; the   *)
(*            slots without a name are at the head of the code's LRU chain *)
(*            and are reused first, so only their number matters;          *)
(*   nextid : nextvnodeid, a number of IdMod values;                       *)
(*   vn     : the vnodes, of which the cache reads and writes v_id.        *)
(***************************************************************************)
EXTENDS Integers, Sequences, SequencesExt

CONSTANTS
  NameCacheSize, \* the number of entries the cache may have (desiredvnodes)
  IdMod,         \* the number of values of nextvnodeid, 2^32 in the code
  DirId,         \* the capability number of the directory
  NoVnode        \* nc_vp of a negative entry

ASSUME NameCacheAssumption ==
  NameCacheSize \in Nat \ {0} /\ IdMod \in Nat /\ IdMod >= 2 /\ DirId \in 1 .. IdMod - 1

\* Deliberate fault: the entries of the last round of numbers are kept.
cache_purgeKeeps(c, v) ==
  LET id == (c.nextid + 1) % IdMod
      new == IF id = 0 THEN 1 ELSE id
  IN  [c EXCEPT !.nextid = new, !.vn[v].id = new]

\* cache_purge(): a new capability number for v.  When the numbers start over no
\* entry may match any more.
cache_purge(c, v) ==
  LET id == (c.nextid + 1) % IdMod
  IN  IF id # 0 THEN [c EXCEPT !.nextid = id, !.vn[v].id = id]
      ELSE [c EXCEPT !.nextid = 1, !.vn[v].id = 1,
                     !.nc = [i \in DOMAIN @ |-> [@[i] EXCEPT !.vpid = 0, !.dvpid = 0]]]

\* The places of the entries with the name.  A lookup meets the newest first, at
\* the head of the hash chain; only that one is ever moved to the end of the LRU
\* chain, so it is also the last of them there.
Matches(c, n) == {i \in DOMAIN c.nc : c.nc[i].name = n /\ c.nc[i].dvpid = DirId}
Newest(c, n) == CHOOSE i \in Matches(c, n) : \A j \in Matches(c, n) : j <= i

\* cache_lookup() for the operation op, "open" for LOOKUP, "create" for CREATE and
\* "unlink" for DELETE, the one without MAKEENTRY.  The result is "miss", "none"
\* for a name known not to exist, or "hit" with the vnode.
cache_lookup(c, n, op) ==
  LET i == Newest(c, n)
      e == c.nc[i]
      used == [c EXCEPT !.nc = Append(RemoveAt(@, i), e)]
      dropped == [c EXCEPT !.nc = RemoveAt(@, i)]
  IN  IF Matches(c, n) = {} THEN [k |-> c, is |-> "miss", vp |-> NoVnode]
      ELSE IF op = "unlink" THEN [k |-> dropped, is |-> "miss", vp |-> NoVnode]
      ELSE IF e.vp = NoVnode
           THEN IF op = "create" THEN [k |-> dropped, is |-> "miss", vp |-> NoVnode]
                ELSE [k |-> used, is |-> "none", vp |-> NoVnode]
      ELSE IF e.vpid # c.vn[e.vp].id THEN [k |-> dropped, is |-> "miss", vp |-> NoVnode]
      ELSE [k |-> used, is |-> "hit", vp |-> e.vp]

\* cache_enter(): the slot at the head of the LRU chain is taken when all are in use.
\* The field again is history: the number of the vnode is from before the numbers last
\* started over, and will be given out again.
cache_enter(c, n, v) ==
  LET e == [name |-> n, dvpid |-> DirId, vp |-> v,
            vpid |-> IF v = NoVnode THEN 0 ELSE c.vn[v].id,
            again |-> v # NoVnode /\ c.vn[v].id > c.nextid]
  IN  [c EXCEPT !.nc = Append(IF Len(@) < NameCacheSize THEN @ ELSE Tail(@), e)]
=============================================================================
