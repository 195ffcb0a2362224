------------------------------- MODULE Vnodes -------------------------------
(***************************************************************************)
(* The life of vnodes, sys/kern/vfs_subr.c, as a local file system uses    *)
(* them (sys/ufs): processes open, create, close and unlink the files of   *)
(* some directories through the name cache, while vnodes that nobody uses  *)
(* are taken for other files.  The vnodes of the directories stay in use.  *)
(*                                                                         *)
(* A step is a stretch of one process up to where it sleeps.  Reading and  *)
(* writing inodes and flushing buffers always sleep: that they need not is *)
(* the schedule in which nobody else runs meanwhile.  Every file has one   *)
(* name at most.                                                           *)
(***************************************************************************)
EXTENDS NameCache, FiniteSets

CONSTANTS
  Proc, Name, Ino,
  Dir, DirOf,     \* the directories, and DirOf[n]: the one that n is a name in
  Vnode,          \* the vnodes that malloc() can give
  desiredvnodes,
  Ops,            \* Ops[p]: what p does, of "open", "create", "unlink", "handle"
  Errors,         \* what can fail, of "read", "remove", "create"
  NoProc, NoIno, NoName

ASSUME VnodesAssumption ==
  /\ IsFiniteSet(Proc) /\ IsFiniteSet(Vnode)
  /\ desiredvnodes \in Nat \ {0} /\ Cardinality(Vnode) >= 2 * desiredvnodes
  /\ Errors \subseteq {"read", "remove", "create"}
  /\ DirOf \in [Name -> Dir]
  /\ Ops \in [Proc -> SUBSET {"open", "create", "unlink", "handle"}]
  /\ NoProc \notin Proc /\ NoIno \notin Ino /\ NoName \notin Name /\ NoVnode \notin Vnode

VARIABLES
  k,        \* vnodes, name cache, directory and locks: see Init
  pr,       \* pr[p]: what p is doing
  wchan     \* wchan[p]: what p sleeps on

vars == <<k, pr, wchan>>

NoChan == <<"none">>
Ip(v)  == <<"ip", v>>     \* the inode of v
Vp(v)  == <<"vp", v>>     \* v itself

\* A vnode before malloc() has given it.  A vnode that lives (v_tag is not VT_NON)
\* has an inode, with its lock, whether its mode is set, and its links.
Unborn == [use |-> 0, ino |-> NoIno, live |-> FALSE, bad |-> FALSE,
           vx |-> FALSE, vxwant |-> FALSE, deadb |-> FALSE, id |-> 0,
           locked |-> NoProc, wanted |-> FALSE, mode |-> FALSE, nlink |-> 0]

Idle == [pc |-> "idle", op |-> "none", name |-> NoName, ino |-> NoIno, vp |-> NoVnode,
         vpid |-> 0, ret |-> "idle", fresh |-> FALSE]

Init ==
  /\ k = [vn |-> [v \in Vnode |-> Unborn],
          free |-> <<>>,         \* vnode_free_list
          nc |-> <<>>, nextid |-> DirId,
          dir |-> [n \in Name |-> NoIno],   \* the inode that goes by a name
          dirlock |-> [d \in Dir |-> NoProc], \* who has a directory locked
          hashlock |-> NoProc,   \* who has ufs_hashlock
          alloc |-> {},          \* the inodes that the bitmap has as allocated
          panicked |-> FALSE,    \* the kernel has stopped in a panic()
          wake |-> {}]           \* the channels this step calls wakeup() for
  /\ pr = [p \in Proc |-> Idle]
  /\ wchan = [p \in Proc |-> NoChan]

-----------------------------------------------------------------------------
(* Locks and reference counts, as functions of k.                           *)

\* ufs_lock() from its label start, and dead_lock(): the lock, what to sleep on, or
\* nothing at all because the vnode is dead.
LockTry(c, p, v) ==
  LET x == c.vn[v]
  IN  IF x.vx THEN [k |-> [c EXCEPT !.vn[v].vxwant = TRUE], is |-> "sleep", on |-> Vp(v)]
      ELSE IF ~x.live THEN [k |-> c, is |-> "dead", on |-> NoChan]
      ELSE IF x.locked # NoProc
           THEN [k |-> [c EXCEPT !.vn[v].wanted = TRUE], is |-> "sleep", on |-> Ip(v)]
      ELSE [k |-> [c EXCEPT !.vn[v].locked = p], is |-> "locked", on |-> NoChan]

\* VOP_UNLOCK(): ufs_unlock(), and nothing on a dead vnode.
Unlock(c, v) ==
  IF ~c.vn[v].live THEN c
  ELSE [c EXCEPT !.vn[v].locked = NoProc, !.vn[v].wanted = FALSE,
                 !.wake = IF c.vn[v].wanted THEN @ \cup {Ip(v)} ELSE @]

\* TAILQ_REMOVE()
Removed(s, v) ==
  LET S == {i \in 1 .. Len(s) : s[i] = v}
  IN  IF S = {} THEN s ELSE RemoveAt(s, CHOOSE i \in S : TRUE)

Unfree(c, v) == [c EXCEPT !.free = Removed(@, v)]

\* Deliberate fault: only VXLOCK is looked at.
BeingCleanedLate(c, v) == c.vn[v].vx

\* vget() before it locks: is the vnode on its way to another use?
BeingCleaned(c, v) == c.vn[v].vx \/ (c.vn[v].use = 0 /\ c.vn[v].deadb)

vgetRef(c, v) == [Unfree(c, v) EXCEPT !.vn[v].use = @ + 1]

\* vrele() up to VOP_INACTIVE().
vreleRef(c, v) ==
  IF c.vn[v].use > 1 THEN [c EXCEPT !.vn[v].use = @ - 1]
  ELSE [c EXCEPT !.vn[v].use = 0, !.vn[v].deadb = FALSE, !.free = Append(@, v)]

\* Deliberate fault: nobody is told of the end.
ReclaimMute(c, v) ==
  LET d == IF c.vn[v].live THEN cache_purge(Unlock(c, v), v) ELSE c
      e == [d EXCEPT !.vn[v] = [@ EXCEPT !.ino = NoIno, !.live = FALSE, !.bad = TRUE, !.vx = FALSE,
                                         !.mode = FALSE, !.nlink = 0]]
  IN  IF d.vn[v].use = 0 /\ ~d.vn[v].deadb THEN [e EXCEPT !.free = <<v>> \o Removed(@, v)] ELSE e

\* The end of vclean() and the rest of vgone(): the inode leaves its hash chain and
\* is freed, the vnode is dead and, if it is on the free list, first there.
Reclaim(c, v) ==
  LET d == IF c.vn[v].live THEN cache_purge(Unlock(c, v), v) ELSE c
      e == [d EXCEPT !.vn[v] = [@ EXCEPT !.ino = NoIno, !.live = FALSE, !.bad = TRUE, !.vx = FALSE,
                                         !.vxwant = FALSE, !.mode = FALSE, !.nlink = 0],
                     !.wake = IF d.vn[v].vxwant THEN @ \cup {Vp(v)} ELSE @]
  IN  IF d.vn[v].use = 0 /\ ~d.vn[v].deadb THEN [e EXCEPT !.free = <<v>> \o Removed(@, v)] ELSE e

-----------------------------------------------------------------------------
(* The pieces of a stretch.  Each ends the step.                            *)

\* The step ends with k = c and p in the state r, asleep on chan unless NoChan.
Do(c, p, r, chan) ==
  /\ k' = [c EXCEPT !.wake = {}]
  /\ pr' = [pr EXCEPT ![p] = r]
  /\ wchan' = [q \in Proc |-> IF q = p THEN chan ELSE IF wchan[q] \in c.wake THEN NoChan ELSE wchan[q]]

At(r, pc) == [r EXCEPT !.pc = pc]

\* getnewvnode() once the vnode is clean, and ffs_vget() up to the reading of the
\* inode, which is on its hash chain and locked by then.
NewVnode(c, p, r) ==
  LET v == r.vp
      d == cache_purge([c EXCEPT !.vn[v] = [Unborn EXCEPT !.use = 1, !.live = TRUE, !.id = c.vn[v].id,
                                                          !.ino = r.ino, !.locked = p]], v)
  IN  Do([d EXCEPT !.panicked = (c.vn[v].ino # NoIno), !.hashlock = NoProc], p, At(r, "reading"), NoChan)

\* What p does after vgone(), or after vrele() or a failure.
Continue(c, p, r) ==
  \/ r.ret = "getnewvnode" /\ NewVnode(c, p, r)
  \/ r.ret = "idle" /\ Do(c, p, Idle, NoChan)
  \/ r.ret = "relock" /\ Do(c, p, At(r, "relock"), NoChan)
  \/ r.ret = "done" /\ Do([c EXCEPT !.dirlock[DirOf[r.name]] = NoProc], p, Idle, NoChan)
  \/ r.ret = "fail" /\ Do([c EXCEPT !.dirlock[DirOf[r.name]] = NoProc, !.alloc = IF r.fresh THEN @ \ {r.ino} ELSE @],
                          p, Idle, NoChan)

\* vclean() from its VOP_LOCK(): nobody who calls it has a reference, so that there
\* is nothing to close.  Its test of VXLOCK comes too late to find it set.
Vclean(c, p, r) ==
  LET l == LockTry(c, p, r.vp)
  IN  IF l.is = "sleep" THEN Do(l.k, p, At(r, "vclean"), l.on)
      ELSE Do([l.k EXCEPT !.vn[r.vp].vx = TRUE], p, At(r, "vinval"), NoChan)

\* vgone(): another one under way is waited for, and that is all.
Vgone(c, p, r) ==
  IF c.vn[r.vp].vx THEN Do([c EXCEPT !.vn[r.vp].vxwant = TRUE], p, At(r, "vgonewait"), Vp(r.vp))
  ELSE Vclean(c, p, r)

\* vrele(): with the last reference goes VOP_INACTIVE(), which takes the lock of the
\* inode without asking, or gets rid of an inode that was never read.
Vrele(c, p, r) ==
  LET d == vreleRef(c, r.vp)
      x == d.vn[r.vp]
  IN  IF x.use > 0 \/ ~x.live \/ (~x.mode /\ x.vx) THEN Continue(d, p, r)
      ELSE IF ~x.mode THEN Vgone(d, p, r)
      ELSE Do([d EXCEPT !.vn[r.vp].locked = p, !.panicked = (x.locked # NoProc)],
              p, At(r, "inactive"), NoChan)

Vput(c, p, r) == Vrele(Unlock(c, r.vp), p, r)

\* An error in ffs_vget(): the directory of a lookup is unlocked.
Failing(r) == [r EXCEPT !.ret = IF r.op = "handle" THEN "idle" ELSE "fail"]

\* getnewvnode()
Getnewvnode(c, p, r) ==
  LET born == {v \in Vnode : c.vn[v].id # 0}
      v == Head(c.free)
      d == [c EXCEPT !.free = Tail(@), !.vn[v].deadb = TRUE]
  IN  IF \/ c.free = <<>> /\ Cardinality(born) < 2 * desiredvnodes
         \/ Cardinality(born) < desiredvnodes
      THEN NewVnode(c, p, [r EXCEPT !.vp = CHOOSE x \in Vnode : x \notin born])
      ELSE IF c.free = <<>> THEN Continue([c EXCEPT !.hashlock = NoProc], p, Failing(r))
      ELSE IF c.vn[v].use # 0 THEN Do([c EXCEPT !.panicked = TRUE], p, r, NoChan)
      ELSE IF c.vn[v].bad THEN NewVnode(d, p, [r EXCEPT !.vp = v])
      ELSE Vgone(d, p, [r EXCEPT !.vp = v, !.ret = "getnewvnode"])

\* ufs_lookup() and its callers with the file, locked: the name goes into the cache
\* unless it is about to change.  ffs_fhtovp() refuses a handle of a file that is gone.
Found(c, p, r) ==
  IF r.op = "handle"
  THEN IF c.vn[r.vp].mode THEN Do(c, p, At(r, "got"), NoChan) ELSE Vput(c, p, [r EXCEPT !.ret = "idle"])
  ELSE IF r.op = "unlink" THEN Do(c, p, At(r, "remove"), NoChan)
  ELSE IF r.fresh THEN Do([c EXCEPT !.panicked = c.vn[r.vp].mode], p, At(r, "makeinode"), NoChan)
  ELSE Do(cache_enter([c EXCEPT !.dirlock[DirOf[r.name]] = NoProc], r.name, r.vp), p, At(r, "got"), NoChan)

\* Deliberate fault: ufs_hashlock is not waited for.
Ffs_vgetTwice(c, p, r) ==
  LET v == CHOOSE x \in Vnode : c.vn[x].ino = r.ino
  IN  IF \A x \in Vnode : c.vn[x].ino # r.ino THEN Getnewvnode([c EXCEPT !.hashlock = p], p, r)
      ELSE IF c.vn[v].locked # NoProc THEN Do([c EXCEPT !.vn[v].wanted = TRUE], p, At(r, "ffs_vget"), Ip(v))
      ELSE IF BeingCleaned(c, v) THEN Do([c EXCEPT !.vn[v].vxwant = TRUE], p, At(r, "ffs_vget"), Vp(v))
      ELSE Found([vgetRef(c, v) EXCEPT !.vn[v].locked = p], p, [r EXCEPT !.vp = v])

\* ffs_vget(): the vnode of the inode from its hash chain, once it is neither locked
\* nor being cleaned, or a new one for which nobody else may be looking.
Ffs_vget(c, p, r) ==
  LET v == CHOOSE x \in Vnode : c.vn[x].ino = r.ino
  IN  IF \A x \in Vnode : c.vn[x].ino # r.ino
      THEN IF c.hashlock # NoProc THEN Do(c, p, At(r, "hashwait"), NoChan)
           ELSE Getnewvnode([c EXCEPT !.hashlock = p], p, r)
      ELSE IF c.vn[v].locked # NoProc THEN Do([c EXCEPT !.vn[v].wanted = TRUE], p, At(r, "ffs_vget"), Ip(v))
      ELSE IF BeingCleaned(c, v) THEN Do([c EXCEPT !.vn[v].vxwant = TRUE], p, At(r, "ffs_vget"), Vp(v))
      ELSE Found([vgetRef(c, v) EXCEPT !.vn[v].locked = p], p, [r EXCEPT !.vp = v])

\* ufs_lookup() after the cache: the search of the directory, and for a name to be
\* created ffs_valloc().
Search(c, p, r) ==
  IF c.dir[r.name] # NoIno THEN Ffs_vget(c, p, [r EXCEPT !.ino = c.dir[r.name]])
  ELSE IF r.op = "create" /\ Ino \ c.alloc # {}
  THEN \E i \in Ino \ c.alloc :
         Ffs_vget([c EXCEPT !.alloc = @ \cup {i}], p, [r EXCEPT !.ino = i, !.fresh = TRUE])
  ELSE Do([IF r.op = "open" THEN cache_enter(c, r.name, NoVnode) ELSE c EXCEPT !.dirlock[DirOf[r.name]] = NoProc],
          p, Idle, NoChan)

\* ufs_lookup() with a vnode from the cache that vget() has given: it must still have
\* the number it had.
GotCached(c, p, r) ==
  LET d == [c EXCEPT !.dirlock[DirOf[r.name]] = NoProc]
  IN  IF c.vn[r.vp].id = r.vpid THEN Do(d, p, At(r, "got"), NoChan)
      ELSE Vput(d, p, [r EXCEPT !.ret = "relock"])

VgetLock(c, p, r) ==
  LET l == LockTry(c, p, r.vp)
  IN  IF l.is = "sleep" THEN Do(l.k, p, At(r, "vgetlock"), l.on) ELSE GotCached(l.k, p, r)

\* Deliberate fault: the reference is counted before the vnode is looked at.
VgetEarly(c, p, r) ==
  IF BeingCleaned(c, r.vp)
  THEN Do([c EXCEPT !.vn[r.vp].vxwant = TRUE, !.vn[r.vp].use = @ + 1], p, At(r, "vgetfail"), Vp(r.vp))
  ELSE VgetLock(vgetRef(c, r.vp), p, r)

\* vget() of the vnode from the cache.
Vget(c, p, r) ==
  IF BeingCleaned(c, r.vp) THEN Do([c EXCEPT !.vn[r.vp].vxwant = TRUE], p, At(r, "vgetfail"), Vp(r.vp))
  ELSE VgetLock(vgetRef(c, r.vp), p, r)

-----------------------------------------------------------------------------
(* The steps of processes.                                                  *)

\* p is at the place pc, awake.
Runs(p, pc) == ~k.panicked /\ pr[p].pc = pc /\ wchan[p] = NoChan

\* A lookup of the name n for op, when nothing is found yet.
Looking(op, n) == [Idle EXCEPT !.op = op, !.name = n]

\* namei() locks the directory and calls ufs_lookup().
Lookup(p, op, n) ==
  LET l == cache_lookup([k EXCEPT !.dirlock[DirOf[n]] = p], n, op)
      r == Looking(op, n)
  IN  /\ Runs(p, "idle") /\ op \in Ops[p] /\ k.dirlock[DirOf[n]] = NoProc
      /\ \/ l.is = "miss" /\ Search(l.k, p, r)
         \/ l.is = "none" /\ Do([l.k EXCEPT !.dirlock[DirOf[r.name]] = NoProc], p, Idle, NoChan)
         \/ l.is = "hit" /\ Vget(l.k, p, [r EXCEPT !.vp = l.vp, !.vpid = l.k.vn[l.vp].id, !.ino = k.dir[n]])

\* ffs_fhtovp(), for the NFS server: a file by its inode number, whatever its names.
Fhtovp(p, i) ==
  /\ Runs(p, "idle") /\ "handle" \in Ops[p]
  /\ Ffs_vget(k, p, [Idle EXCEPT !.op = "handle", !.ino = i])

\* vget() has failed: ufs_lookup() unlocks the directory and has it again at once,
\* before anybody else runs.  The cache is not asked again.
VgetFailed(p) == Runs(p, "vgetfail") /\ Search(k, p, Looking(pr[p].op, pr[p].name))

ResumeVgetLock(p) == Runs(p, "vgetlock") /\ VgetLock(k, p, pr[p])

ResumeFfs_vget(p) == Runs(p, "ffs_vget") /\ Ffs_vget(k, p, pr[p])

\* LK_SLEEPFAIL: having waited for ufs_hashlock, ffs_vget() looks again.
HashWait(p) == Runs(p, "hashwait") /\ k.hashlock = NoProc /\ Ffs_vget(k, p, pr[p])

\* The inode has been read, or could not be.  On the disk the inodes with a name, and
\* only these, have a mode.
EndRead(p, ok) ==
  LET r == pr[p]
      linked == \E n \in Name : k.dir[n] = r.ino
  IN  /\ Runs(p, "reading") /\ (ok \/ "read" \in Errors)
      /\ IF ok THEN Found([k EXCEPT !.vn[r.vp].mode = linked, !.vn[r.vp].nlink = IF linked THEN 1 ELSE 0],
                          p, r)
         ELSE Vput(k, p, Failing(r))

\* vn_open() with the vnode: it keeps the reference and unlocks.
Open(p) ==
  Runs(p, "got") /\ Do(Unlock(k, pr[p].vp), p, [Idle EXCEPT !.pc = "open", !.vp = pr[p].vp, !.ino = pr[p].ino], NoChan)

Close(p) == Runs(p, "open") /\ Vrele(k, p, [pr[p] EXCEPT !.ret = "idle"])

\* ufs_remove()
Remove_(p, ok) ==
  LET r == pr[p]
  IN  /\ Runs(p, "remove") /\ (ok \/ "remove" \in Errors)
      /\ Vput(IF ok THEN [k EXCEPT !.dir[r.name] = NoIno, !.vn[r.vp].nlink = 0] ELSE k,
              p, [r EXCEPT !.ret = "done"])

\* ufs_makeinode() with the inode.
Makeinode(p, ok) ==
  LET r == pr[p]
      c == [k EXCEPT !.dirlock[DirOf[r.name]] = NoProc, !.vn[r.vp].mode = TRUE, !.vn[r.vp].nlink = IF ok THEN 1 ELSE 0]
  IN  /\ Runs(p, "makeinode") /\ (ok \/ "create" \in Errors)
      /\ IF ok THEN Do([c EXCEPT !.dir[r.name] = r.ino], p, At(r, "got"), NoChan)
         ELSE Vput(c, p, [r EXCEPT !.ret = "idle"])

\* ufs_inactive() of a file without links: truncated and given back to the bitmap.
Vfree(p) ==
  LET v == pr[p].vp
  IN  /\ Runs(p, "inactive") /\ k.vn[v].nlink = 0
      /\ Do([k EXCEPT !.vn[v].mode = FALSE, !.alloc = @ \ {k.vn[v].ino}], p, At(pr[p], "update"), NoChan)

\* ufs_inactive() after VOP_UPDATE().
EndInactive(p) ==
  LET v == pr[p].vp
      c == Unlock(k, v)
  IN  /\ Runs(p, "update") \/ (Runs(p, "inactive") /\ k.vn[v].nlink > 0)
      /\ IF k.vn[v].use = 0 /\ ~k.vn[v].mode THEN Vgone(c, p, pr[p]) ELSE Continue(c, p, pr[p])

ResumeVclean(p) == Runs(p, "vclean") /\ Vclean(k, p, pr[p])

\* vinvalbuf() has written the buffers: the rest of vclean() and vgone().
EndVinval(p) == Runs(p, "vinval") /\ Continue(Reclaim(k, pr[p].vp), p, pr[p])

VgoneWaited(p) == Runs(p, "vgonewait") /\ Continue(k, p, pr[p])

Next ==
  \E p \in Proc :
    \/ \E op \in Ops[p] \ {"handle"}, n \in Name : Lookup(p, op, n)
    \/ \E i \in Ino : Fhtovp(p, i)
    \/ VgetFailed(p)
    \/ ResumeVgetLock(p)
    \/ ResumeFfs_vget(p)
    \/ HashWait(p)
    \/ \E ok \in BOOLEAN : EndRead(p, ok)
    \/ Open(p)
    \/ Close(p)
    \/ \E ok \in BOOLEAN : Remove_(p, ok)
    \/ \E ok \in BOOLEAN : Makeinode(p, ok)
    \/ Vfree(p)
    \/ EndInactive(p)
    \/ ResumeVclean(p)
    \/ EndVinval(p)
    \/ VgoneWaited(p)

Spec == Init /\ [][Next]_vars

\* The vnode from the cache got another number while vget() slept; ufs_lookup() has
\* released it and locks the directory once more.
Relock(p) ==
  LET n == pr[p].name
  IN  /\ Runs(p, "relock") /\ k.dirlock[DirOf[n]] = NoProc
      /\ Search([k EXCEPT !.dirlock[DirOf[n]] = p], p, Looking(pr[p].op, n))

\* vflush() meets a vnode that nobody uses, in an unmount().
Vflush(p, v) ==
  /\ Runs(p, "idle") /\ k.vn[v].live /\ k.vn[v].use = 0
  /\ Vgone(k, p, [Idle EXCEPT !.vp = v])

\* With unmounts a vnode may be cleaned while vget() sleeps with a reference to it.
UnmountNext ==
  \/ Next
  \/ \E p \in Proc : Relock(p)
  \/ \E p \in Proc, v \in Vnode : Ops[p] = {} /\ Vflush(p, v)

UnmountSpec == Init /\ [][UnmountNext]_vars

-----------------------------------------------------------------------------
(* Properties.                                                              *)

\* Vnodes, inodes and locks are well formed, no vnode has more users than there are
\* processes, and the name cache keeps to its size and its numbers.
TypeOK ==
  /\ \A v \in Vnode : /\ k.vn[v].use \in 0 .. Cardinality(Proc)
                      /\ k.vn[v].ino \in Ino \cup {NoIno}
                      /\ k.vn[v].id \in 0 .. IdMod - 1
                      /\ k.vn[v].locked \in Proc \cup {NoProc}
  /\ Len(k.nc) <= NameCacheSize /\ k.nextid \in 1 .. IdMod - 1
  /\ k.alloc \subseteq Ino

\* None of the code's own checks fails: a free vnode has no users, a vnode given out
\* has no inode of its past, an inode just allocated is not in use, and nobody has an
\* inode locked when its last reference goes.
NoPanic == ~k.panicked

\* A vnode without users is on the free list, once, or in the hands of the one
\* getnewvnode() that took it from there; a vnode with users is not on it.
FreeListExact ==
  \A v \in Vnode : Cardinality({i \in 1 .. Len(k.free) : k.free[i] = v}) =
                     IF k.vn[v].id # 0 /\ k.vn[v].use = 0 /\ ~k.vn[v].deadb THEN 1 ELSE 0

\* v_usecount is the number of processes that will release the vnode.
RefsExact ==
  \A v \in Vnode : k.vn[v].use =
    Cardinality({p \in Proc : pr[p].vp = v /\ pr[p].pc \in {"reading", "got", "open", "remove",
                                                           "makeinode", "vgetlock"}})

\* ffs_vget() never makes a second vnode for a file.
OneVnode == \A v, w \in Vnode : k.vn[v].ino = k.vn[w].ino /\ k.vn[v].ino # NoIno => v = w

\* What the entry e answers is what the directory says.
Truthful(e) ==
  e.dvpid = DirId =>
    IF e.vp = NoVnode THEN k.dir[e.name] = NoIno
    ELSE e.vpid = k.vn[e.vp].id => k.vn[e.vp].ino = k.dir[e.name] /\ k.dir[e.name] # NoIno

\* The name cache agrees with the directories while vnodes are recycled and capability
\* numbers start over: what an entry answers is what its directory says.  The exception
\* is an entry whose number was still to be given out when it was made, because its vnode
\* had kept it from before the numbers started over: cache_purge() may give the vnode
\* that number again.
CacheTruthful == \A i \in DOMAIN k.nc : k.nc[i].again \/ Truthful(k.nc[i])

\* cache_purge(): "called when a vnode is renamed to hide entries that would now be
\* invalid".  No entry that has become invalid is visible, without exception.
InvalidHidden == \A i \in DOMAIN k.nc : Truthful(k.nc[i])

\* Who has a file open has the file that the name meant when it was looked up, for as
\* long as it stays open: the vnode is not cleaned, nor the inode given to another file.
\* (An entry that CacheTruthful excepts may lead a lookup to another file: this holds
\* where the files are too few for that.)
OpenStays ==
  \A p \in Proc : pr[p].pc \in {"got", "open"} =>
    LET x == k.vn[pr[p].vp]
    IN  x.live /\ ~x.vx /\ x.mode /\ x.ino = pr[p].ino /\ x.ino \in k.alloc

\* Whoever sleeps for the lock of an inode is remembered there, and somebody has it,
\* who will call wakeup().
LockSleepers ==
  \A p \in Proc, v \in Vnode : wchan[p] = Ip(v) => k.vn[v].wanted /\ k.vn[v].locked # NoProc

\* Whoever sleeps because a vnode is on its way to another use is remembered there, and
\* it still is: the end of vclean() is to come, with its wakeup().
CleaningSleepers ==
  \A p \in Proc, v \in Vnode : wchan[p] = Vp(v) => k.vn[v].vxwant /\ BeingCleaned(k, v)

\* No file is lost: the inodes in the bitmap are the ones the directory names, the
\* unlinked ones somebody still has, and the ones about to be named or given back.
NoInodeLost ==
  \A i \in k.alloc : \/ \E n \in Name : k.dir[n] = i
                     \/ \E p \in Proc : pr[p].ino = i /\ pr[p].pc # "idle"

\* A vnode keeps its number while vget() sleeps with a reference to it: cleaning starts
\* only while nobody has one, so that no lookup has to start over because of that.
NumberKept == \A p \in Proc : pr[p].ret # "relock"

\* What vget(), vrele(), getnewvnode() and vgone() keep about the users of a vnode is
\* exact: v_usecount, and the free list that follows from it; the panics that would
\* notice a part of that are not reached.
UsersExact == TypeOK /\ NoPanic /\ FreeListExact /\ RefsExact

\* Whoever sleeps on a vnode or an inode is remembered there, by a state that ends
\* with a wakeup().
VnodeSleepersKnown == LockSleepers /\ CleaningSleepers

\* Files are what they are for as long as anybody has them, and no longer: an open file
\* stays, what vget() waited for is what it gets, and an inode is given back once nobody
\* can get at it.
FilesStay == OpenStays /\ NumberKept /\ NoInodeLost
=============================================================================
