------------------------------ MODULE ByteLocks -----------------------------
(***************************************************************************)
(* The advisory locks of one file, sys/kern/vfs_lockf.c: the list of       *)
(* granted locks, the requests blocked on each of them, the splitting and  *)
(* merging of ranges and the detection of deadlock.                        *)
(*                                                                         *)
(* The kernel is not preemptive, so a call runs without interruption up to *)
(* the tsleep() of lf_setlock(), and from there again when the process is  *)
(* resumed; each of those stretches is one step.  fcntl() requests are     *)
(* owned by the process, flock() requests by the open file, which several  *)
(* processes may share.  The allocation of a struct lockf (M_WAITOK) is    *)
(* taken not to sleep.                                                     *)
(***************************************************************************)
EXTENDS Integers, Sequences, FiniteSets, SequencesExt

CONSTANTS
  Proc,        \* the processes, which own their fcntl() locks
  File,        \* the open files of the inode, which own their flock() locks
  OpenFile,    \* OpenFile[p]: the open file the process p uses with flock()
  Calls,       \* Calls[p]: the type, l_start and l_len of p's fcntl() locks
  LastByte,    \* the bytes told apart are 0 .. LastByte
  MaxDepth     \* maxlockdepth: the longest chain of waits that is followed

EOF == -1      \* lf_end of a lock that reaches to the end of the file

ASSUME ByteAssumption ==
  /\ Proc \cap File = {}
  /\ DOMAIN OpenFile \subseteq Proc
  /\ \A p \in DOMAIN OpenFile : OpenFile[p] \in File
  /\ LastByte \in Nat
  /\ \A p \in Proc : Calls[p] \subseteq {"R", "W"} \X (0 .. LastByte) \X (0 .. LastByte)
  /\ MaxDepth \in Nat

VARIABLES
  list,        \* the granted locks, in the order of the inode's list
  req,         \* req[p]: the request that p waits with
  next,        \* next[p]: lf_next of that request: "none", or "block", the lock
               \* whose queue it is on, or "freed", a lock that is no more
  pc,          \* pc[p]: "idle", "asleep" in tsleep(), or off its channel:
               \* "woken" by lf_wakelock() or "intr" by a signal
  broken       \* a freed lock was read: what happens next is undefined

vars == <<list, req, next, pc, broken>>

Owner == Proc \cup File
Whole == <<0, 0>>

\* The l_start and l_len an owner uses to lock or unlock.
Ranges(o) == {Whole} \cup IF o \in Proc THEN {<<c[2], c[3]>> : c \in Calls[o]} ELSE {}

\* A request: its owner decides between fcntl() and flock() behaviour.
Request(o, type, range, wait) ==
  [owner |-> o, type |-> type, wait |-> wait, start |-> range[1],
   end |-> IF range[2] = 0 THEN EOF ELSE range[1] + range[2] - 1]
NoRequest == [owner |-> "none", type |-> "none", wait |-> FALSE, start |-> 0, end |-> 0]

\* A lock on the list carries the queue of those it blocks.
Granted(rq) == [owner |-> rq.owner, type |-> rq.type, start |-> rq.start,
                end |-> rq.end, blocked |-> <<>>]

Init ==
  /\ list = <<>>
  /\ req = [p \in Proc |-> NoRequest]
  /\ next = [p \in Proc |-> "none"]
  /\ pc = [p \in Proc |-> "idle"]
  /\ broken = FALSE

-----------------------------------------------------------------------------
(* lf_findoverlap() and lf_getblock().                                      *)

Disjoint(l, r) == \/ l.end # EOF /\ r.start > l.end
                  \/ r.end # EOF /\ l.start > r.end

\* How the lock l lies to the request r: 0 apart, 1 equal, 2 l contains r,
\* 3 r contains l, 4 l starts before r, 5 l ends after r.
ovcase(l, r) ==
  IF Disjoint(l, r) THEN 0
  ELSE IF l.start = r.start /\ l.end = r.end THEN 1
  ELSE IF l.start <= r.start /\ r.end # EOF /\ (l.end >= r.end \/ l.end = EOF) THEN 2
  ELSE IF r.start <= l.start /\ (r.end = EOF \/ (l.end # EOF /\ r.end >= l.end)) THEN 3
  ELSE IF l.start < r.start THEN 4
  ELSE 5

First(S, default) == IF S = {} THEN default ELSE CHOOSE i \in S : \A j \in S : i <= j

\* SELF: the first lock of r's owner from position i on that overlaps r or lies
\* wholly behind it, where the search gives up; else the end of the list.
lf_findoverlap(L, i, r) ==
  First({j \in i .. Len(L) : /\ L[j].owner = r.owner
                             /\ ~Disjoint(L[j], r) \/ (r.end # EOF /\ L[j].start > r.end)},
        Len(L) + 1)

Conflict(l, r) ==
  /\ l.owner # r.owner
  /\ ~Disjoint(l, r)
  /\ l.type = "W" \/ r.type = "W"

\* Deliberate fault: only a lock for writing blocks a request.
lf_getblockReaders(L, r) ==
  First({i \in 1 .. Len(L) : Conflict(L[i], r) /\ L[i].type = "W"}, 0)

\* The position of the first lock that blocks the request, 0 if none does.
lf_getblock(L, r) == First({i \in 1 .. Len(L) : Conflict(L[i], r)}, 0)

-----------------------------------------------------------------------------
(* The loops of lf_clearlock() and lf_setlock() over the owner's locks.  A  *)
(* state s of a loop is the list, the position it has got to, the processes *)
(* lf_wakelock() was called for and whether the loop has ended; lf_setlock()*)
(* also keeps where it has linked the new lock, 0 for needtolink, and the   *)
(* processes whose lf_next now names a freed lock.                          *)

Splice(L, i, pieces) == SubSeq(L, 1, i - 1) \o pieces \o SubSeq(L, i + 1, Len(L))

Left(l, r)  == [l EXCEPT !.end = r.start - 1, !.blocked = <<>>]
Right(l, r) == [l EXCEPT !.start = r.end + 1, !.blocked = <<>>]

\* Deliberate fault: the right one of two outer pieces is lost.
lf_splitShort(l, mid, r) ==
  IF l.start = r.start THEN mid \o <<Right(l, r)>> ELSE <<Left(l, r)>> \o mid

\* What is left of l around r, with mid in between.
lf_split(l, mid, r) ==
  IF l.start = r.start THEN mid \o <<Right(l, r)>>
  ELSE IF l.end = r.end THEN <<Left(l, r)>> \o mid
  ELSE <<Left(l, r)>> \o mid \o <<Right(l, r)>>

ClearStep(s, r) ==
  LET i == lf_findoverlap(s.list, s.from, r)
      l == s.list[i]
      case == IF i > Len(s.list) THEN 0 ELSE ovcase(l, r)
      Put(pieces, from, done) ==
        [s EXCEPT !.list = Splice(@, i, pieces), !.from = from, !.done = done,
                  !.woken = @ \cup ToSet(l.blocked)]
  IN  CASE case = 0 -> [s EXCEPT !.done = TRUE]
        [] case = 1 -> Put(<<>>, i, TRUE)
        [] case = 2 -> Put(lf_split(l, <<>>, r), i, TRUE)
        [] case = 3 -> Put(<<>>, i, FALSE)
        [] case = 4 -> Put(<<Left(l, r)>>, i + 1, FALSE)
        [] case = 5 -> Put(<<Right(l, r)>>, i, TRUE)

lf_clearlock(L, r) ==
  LET loop[k \in 0 .. Len(L) + 1] ==
        IF k = 0 THEN [list |-> L, from |-> 1, woken |-> {}, done |-> FALSE]
        ELSE LET s == loop[k - 1] IN IF s.done THEN s ELSE ClearStep(s, r)
  IN  loop[Len(L) + 1]

\* One round of the loop that adds new.  Blocked requests are woken when what
\* blocks them shrinks or becomes a read lock; the queue of a lock that the new
\* one swallows is taken over, but lf_next of those on it is left as it is.
InsertStep(s, new) ==
  LET i == lf_findoverlap(s.list, s.from, new)
      l == s.list[i]
      case == IF i > Len(s.list) THEN 0 ELSE ovcase(l, new)
      link == IF s.at = 0 THEN <<new>> ELSE <<>>
      downgrade == new.type = "R" /\ l.type = "W"
      Put(pieces, from, done) ==
        [s EXCEPT !.list = Splice(@, i, pieces), !.from = from, !.done = done,
                  !.at = IF @ = 0 THEN i ELSE @]
      Waking(t) == [t EXCEPT !.woken = @ \cup ToSet(l.blocked)]
      TakingOver(t) == [t EXCEPT !.list[t.at].blocked = l.blocked \o @,
                                 !.moved = @ \cup ToSet(l.blocked)]
  IN  CASE case = 0 -> [s EXCEPT !.list = SubSeq(@, 1, i - 1) \o link \o SubSeq(@, i, Len(@)),
                                 !.done = TRUE]
        [] case = 1 /\ downgrade -> Waking(Put(<<[l EXCEPT !.type = "R", !.blocked = <<>>]>>, i, TRUE))
        [] case = 1 /\ ~downgrade -> Put(<<[l EXCEPT !.type = new.type]>>, i, TRUE)
        [] case = 2 /\ l.type = new.type -> Put(<<l>>, i, TRUE)
        [] case = 2 /\ l.type # new.type -> Waking(Put(lf_split(l, <<new>>, new), i, TRUE))
        [] case = 3 /\ downgrade -> Waking(Put(link, i + Len(link), FALSE))
        [] case = 3 /\ ~downgrade -> TakingOver(Put(link, i + Len(link), FALSE))
        [] case = 4 -> Waking([Put(<<Left(l, new), new>>, i + 2, FALSE) EXCEPT !.at = i + 1])
        [] case = 5 -> Waking(Put(link \o <<Right(l, new)>>, i, TRUE))

AddLock(L, r) ==
  LET loop[k \in 0 .. Len(L) + 1] ==
        IF k = 0 THEN [list |-> L, from |-> 1, woken |-> {}, done |-> FALSE,
                       at |-> 0, moved |-> {}]
        ELSE LET s == loop[k - 1] IN IF s.done THEN s ELSE InsertStep(s, Granted(r))
  IN  loop[Len(L) + 1]

-----------------------------------------------------------------------------
(* Sleeping and waking.                                                     *)

\* Deliberate fault: the blocked requests leave the queue without a wakeup().
WakePcMute(woken) == pc

\* wakeup() of each request in woken: it leaves its channel and its queue.  One
\* that a signal took off its channel stays so; both have lf_next cleared.
WakePc(woken) == [q \in Proc |-> IF q \in woken /\ pc[q] = "asleep" THEN "woken" ELSE pc[q]]
WakeNext(woken) == [q \in Proc |-> IF q \in woken THEN "none" ELSE next[q]]

\* The positions of the locks whose queue p is on.
QueuedAt(p) == {i \in 1 .. Len(list) : p \in ToSet(list[i].blocked)}

\* The owners found by following the sleeping owner of a POSIX lock to the lock
\* it waits for: chain[k] is the k-th, "end" where the walk stops and "freed"
\* where it reads a lock that no longer exists.
Chain(block) ==
  LET chain[k \in 0 .. MaxDepth] ==
        IF k = 0 THEN block.owner
        ELSE LET w == chain[k - 1]
                 o == list[CHOOSE i \in QueuedAt(w) : TRUE].owner
             IN  IF w \notin Proc THEN w
                 ELSE IF pc[w] # "asleep" THEN "end"
                 ELSE IF next[w] = "freed" THEN "freed"
                 ELSE IF o \in Proc THEN o ELSE "end"
  IN  chain

\* Deliberate fault: the chain is not followed beyond the first lock.
DeadlockShallow(p, block) ==
  LET chain == Chain(block) IN MaxDepth > 0 /\ chain[1] = p

Deadlock(p, block) ==
  LET chain == Chain(block) IN \E k \in 1 .. MaxDepth : chain[k] = p

ChainBroken(block) ==
  LET chain == Chain(block) IN \E k \in 1 .. MaxDepth : chain[k] = "freed"

Posix(l) == l.owner \in Proc

\* The call of p is over.
Return(p) == /\ req' = [req EXCEPT ![p] = NoRequest]
             /\ UNCHANGED broken

Break == broken' = TRUE /\ UNCHANGED <<list, req, next, pc>>

\* lf_addblock(): p goes to the end of the queue of the lock at position b.
lf_addblock(L, b, p) == [L EXCEPT ![b].blocked = Append(@, p)]

\* A blocked request: poll, deadlock, or sleep on the queue of the lock.  An
\* flock() for writing first gives up what its open file holds.
Blocked(p, r) ==
  LET block == list[lf_getblock(list, r)]
      detect == r.owner \in Proc /\ Posix(block)
      cleared == IF r.owner \in File /\ r.type = "W" THEN lf_clearlock(list, r)
                 ELSE [list |-> list, woken |-> {}]
  IN  \/ /\ ~r.wait \/ (detect /\ Deadlock(p, block))
         /\ Return(p)
         /\ pc' = [pc EXCEPT ![p] = "idle"]
         /\ UNCHANGED <<list, next>>
      \/ r.wait /\ detect /\ ChainBroken(block) /\ Break
      \/ /\ r.wait
         /\ ~(detect /\ (Deadlock(p, block) \/ ChainBroken(block)))
         /\ list' = lf_addblock(cleared.list, lf_getblock(cleared.list, r), p)
         /\ next' = [WakeNext(cleared.woken) EXCEPT ![p] = "block"]
         /\ pc' = [WakePc(cleared.woken) EXCEPT ![p] = "asleep"]
         /\ req' = [req EXCEPT ![p] = r]
         /\ UNCHANGED broken

\* lf_setlock() from the head of its loop.
lf_setlock(p, r) ==
  LET s == AddLock(list, r)
  IN  \/ lf_getblock(list, r) # 0 /\ Blocked(p, r)
      \/ /\ lf_getblock(list, r) = 0
         /\ list' = s.list
         /\ next' = [q \in Proc |-> IF q \in s.moved THEN "freed" ELSE WakeNext(s.woken)[q]]
         /\ pc' = [WakePc(s.woken) EXCEPT ![p] = "idle"]
         /\ Return(p)

-----------------------------------------------------------------------------
(* The calls.                                                               *)

\* fcntl(F_SETLK) and fcntl(F_SETLKW).
FcntlLock(p, type, range, wait) ==
  /\ ~broken /\ pc[p] = "idle"
  /\ lf_setlock(p, Request(p, type, range, wait))

\* flock(LOCK_SH) and flock(LOCK_EX), and open() with O_SHLOCK or O_EXLOCK.
Flock(p, type, wait) ==
  /\ ~broken /\ pc[p] = "idle" /\ p \in DOMAIN OpenFile
  /\ lf_setlock(p, Request(OpenFile[p], type, Whole, wait))

Clear(p, o, range) ==
  LET s == lf_clearlock(list, Request(o, "none", range, FALSE))
  IN  /\ ~broken /\ pc[p] = "idle"
      /\ list' = s.list
      /\ next' = WakeNext(s.woken)
      /\ pc' = WakePc(s.woken)
      /\ UNCHANGED <<req, broken>>

\* fcntl() with F_UNLCK, and close() of any descriptor of the file.
FcntlUnlock(p, range) == Clear(p, p, range)

\* flock(LOCK_UN), and the last close of the open file.
FlockUnlock(p) == p \in DOMAIN OpenFile /\ Clear(p, OpenFile[p], Whole)

\* A signal takes p off its wait channel; it is still on the lock's queue.
Signal(p) ==
  /\ ~broken /\ pc[p] = "asleep"
  /\ pc' = [pc EXCEPT ![p] = "intr"]
  /\ UNCHANGED <<list, req, next, broken>>

\* tsleep() returns 0: the request starts over.
Retry(p) == ~broken /\ pc[p] = "woken" /\ lf_setlock(p, req[p])

\* The request of p leaves the queue it is on.
Dequeue(L, p) == [i \in 1 .. Len(L) |-> [L[i] EXCEPT !.blocked = Remove(@, p)]]

\* tsleep() returns an error, because of the signal that woke p or of one that
\* came after the wakeup(): the request leaves the queue it is still on.  The
\* search of the queue starts at lf_next, which a freed lock makes meaningless.
GiveUp(p) ==
  /\ ~broken /\ pc[p] \in {"intr", "woken"}
  /\ \/ /\ next[p] # "freed"
        /\ list' = Dequeue(list, p)
        /\ next' = [next EXCEPT ![p] = "none"]
        /\ pc' = [pc EXCEPT ![p] = "idle"]
        /\ Return(p)
     \/ next[p] = "freed" /\ Break

Next ==
  \E p \in Proc :
    \/ \E c \in Calls[p], wait \in BOOLEAN : FcntlLock(p, c[1], <<c[2], c[3]>>, wait)
    \/ \E type \in {"R", "W"}, wait \in BOOLEAN : Flock(p, type, wait)
    \/ \E range \in Ranges(p) : FcntlUnlock(p, range)
    \/ FlockUnlock(p)
    \/ Signal(p)
    \/ Retry(p)
    \/ GiveUp(p)

Spec == Init /\ [][Next]_vars

-----------------------------------------------------------------------------
(* Properties.                                                              *)

Queue(i) == ToSet(list[i].blocked)

\* Locks on the list have an owner, a type and a non-empty range, and every queue
\* holds processes.
TypeOK ==
  /\ \A i \in 1 .. Len(list) :
       /\ list[i].owner \in Owner /\ list[i].type \in {"R", "W"}
       /\ list[i].start \in Nat
       /\ list[i].end = EOF \/ list[i].end >= list[i].start
       /\ Queue(i) \subseteq Proc
  /\ \A p \in Proc : /\ pc[p] \in {"idle", "asleep", "woken", "intr"}
                    /\ next[p] \in {"none", "block", "freed"}
  /\ broken \in BOOLEAN

\* The locks of one owner never overlap and stand in the order of their ranges,
\* which is what the early return of lf_findoverlap() and the case analysis of
\* lf_setlock() and lf_clearlock() rely on.
OwnSorted ==
  \A i, j \in 1 .. Len(list) :
    i < j /\ list[i].owner = list[j].owner =>
      list[i].end # EOF /\ list[i].end < list[j].start

\* A request that sleeps is on the queue of exactly one lock, and that lock is in
\* its way: whatever merging, splitting, upgrading and unlocking its holder did
\* since, lf_wakelock() was called for it when it had to be.  And only requests
\* that still exist are on a queue, once.
WaitersQueued ==
  /\ \A p \in Proc : pc[p] = "asleep" =>
       \E i \in 1 .. Len(list) : QueuedAt(p) = {i} /\ Conflict(list[i], req[p])
  /\ \A i \in 1 .. Len(list) :
       /\ \A p \in Queue(i) : pc[p] \in {"asleep", "intr"} /\ QueuedAt(p) = {i}
       /\ Len(list[i].blocked) = Cardinality(Queue(i))

\* Deadlock detection: no group of processes sleeps in fcntl() requests each of
\* which is blocked by a lock of a member of the group.
NoWaitCycle ==
  \A S \in SUBSET Proc \ {{}} :
    \E p \in S : \/ pc[p] # "asleep" \/ req[p].owner \notin Proc
                 \/ \A i \in QueuedAt(p) : list[i].owner \notin S

\* "Remember who blocked us": lf_next of a sleeping request names a lock of the
\* list, the one whose queue the request is on.
BlockerRemembered == \A p \in Proc : pc[p] = "asleep" => next[p] = "block"

Byte == 0 .. LastByte
Bytes(l) == {b \in Byte : l.start <= b /\ (l.end = EOF \/ b <= l.end)}

\* What the owners hold, byte by byte, according to a list.
HeldBy(L) ==
  [o \in Owner |-> [b \in Byte |->
    LET mine == {i \in 1 .. Len(L) : L[i].owner = o /\ b \in Bytes(L[i])}
    IN  IF mine = {} THEN "none" ELSE L[CHOOSE i \in mine : TRUE].type]]

RL == INSTANCE RangeLocks WITH Client <- Owner, held <- HeldBy(list)

\* Every step of the calls, the woken requests and the give-ups is a step of
\* independent reader/writer locks on the bytes of the file.
RLSpec == RL!RLSpec

\* Whatever the list looks like, lf_clearlock() and the loop of lf_setlock()
\* compute what RangeLocks says of the same request: all the bytes asked for get
\* the type asked for, and no other byte of this or another owner changes.
RangesExact ==
  LET now == HeldBy(list)
  IN  \A o \in Owner : \A range \in Ranges(o) :
        LET r(type) == Request(o, type, range, FALSE)
            S == Bytes(r("none"))
            Set(type) == [now EXCEPT ![o] = [b \in Byte |-> IF b \in S THEN type ELSE @[b]]]
        IN  /\ HeldBy(lf_clearlock(list, r("none")).list) = Set("none")
            /\ \A type \in {"R", "W"} : HeldBy(AddLock(list, r(type)).list) = Set(type)

\* The list of lf_setlock(), lf_clearlock() and lf_split() is exact: an owner's locks
\* are disjoint and in order, and stand for the bytes that its calls have asked for.
ListExact == TypeOK /\ OwnSorted /\ RangesExact
=============================================================================
