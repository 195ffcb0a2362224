# Verification of the NetBSD kernel's core

TLA+ models of the parts of `sys/kern` on which everything else in the kernel
waits: the kernel lock manager, sleep and wakeup with signals and swapping,
advisory file locking, the callout queue with the interval timers on it, the buffer
cache, vnodes with the name cache, and System V semaphores. TLC checks them on
small instances; TLAPS proves, for any number of processes, that the lock manager
implements a reader/writer lock, the safety properties of sleep, wakeup and signals,
of the interval timers and of the buffer cache, that vnodes keep exact counts of their
users and stay one to a file, and that System V semaphores neither panic, nor lose count
of their waiters, nor leave one asleep for what is there.

The tree is a BSD kernel of 1997 with its userland. Its kernel is not preemptive
and, in this build, runs on one processor: code in the kernel runs until it calls
`tsleep()` (or stops, or returns to user mode), and only interrupts come between.
That makes the unit of interleaving a *stretch* of kernel code from one
`mi_switch()` to the next, and every model here has one action per stretch.

## 1. Inventory

What each part keeps, does and promises, and what is hard about it. "Modelled"
names the module; the order of the others is the plan of section 7.

| Part | State | Operations | Interacts with | Hard behaviour | Correct means |
|---|---|---|---|---|---|
| Lock manager, `kern_lock.c` (LockMgr) | `struct lock`: flags, share, exclusive and wait counts, holder | `lockmgr()` with SHARED, EXCLUSIVE, UPGRADE, EXCLUPGRADE, DOWNGRADE, RELEASE, DRAIN; `lockinit()` | `tsleep`/`wakeup`; vnodes and maps use it | sleepers re-testing stale conditions, upgrades racing writers, failure in mid-upgrade, draining | reader/writer exclusion, exact counts, nobody forgotten, a drained lock is quiet |
| Sleep and wakeup, `kern_synch.c` (ProcSync) | sleep queues, run queues, `p_stat`, `p_wchan`, `P_SINTR`, `P_TIMEOUT` | `tsleep`, `wakeup`, `endtsleep`, `unsleep`, `setrunnable`, `mi_switch` | callouts, signals, swapper, every sleeper in the kernel | wakeup, timeout, signal, stop and continue in any order | a sleeper is where its `wakeup()` looks; it is told why it woke; runnable means queued |
| Signals, `kern_sig.c` (ProcSync) | `p_siglist`, mask, dispositions, stopped state | `psignal`, `issignal`/`CURSIG`, `stop`, `postsig` | parent's SIGCHLD, sleep queues | a process may stop while it is on a sleep queue | signals end interruptible sleeps; only SIGCONT and SIGKILL end a stop |
| Swapper, `vm_glue.c`, `vm_meter.c` (ProcSync) | `P_INMEM`, proc0's loop | `scheduler`, `swapin`, `swapout_threads`, `swapout`, `vmmeter` | `setrunnable` wakes it | a scan that finds nothing races the wakeup | a runnable process gets into memory and runs |
| Advisory locks, `vfs_lockf.c` (ByteLocks) | list of ranges per file, a queue per lock, `lf_next` of each waiter | lock, unlock, wait, detect deadlock | `fcntl`, `flock`, `close`; `tsleep` | splitting and merging while others wait; cycles of waits; interrupted waits | each byte a reader/writer lock; no cycles; no forgotten waiter |
| Callouts, `kern_clock.c` (Callout) | delta list `calltodo`, `callfree` | `timeout`, `untimeout`, `hardclock`, `softclock` | `tsleep` timeouts, drivers | ticks, insertions and removals between the calls of overdue entries | a callout fires once, not early, in order |
| Interval timers, `kern_time.c` (RealTimer) | `p_realtimer`, the clock | `setitimer`, `realitexpire`, `settime`, `exit1` | callouts, signals | expiry between two ticks, reload while late, cancellation while softclock is in a call | one callout per set timer, in step with the time, no expiry after it was cancelled |
| Buffer cache, `vfs_bio.c` (BufCache) | hash and free lists, `B_BUSY`, `B_WANTED`, `B_DELWRI` | `getblk`, `bread`, `breadn`, the writes, `brelse`, `getnewbuf`, `biodone`, `vflushbuf`, `vinvalbuf` | file systems, disk interrupts | restart after every sleep | one buffer per block, one owner per buffer, no write hidden or lost |
| Vnodes, `vfs_subr.c` with `ufs_*.c` (Vnodes) | use and hold counts, free list, `VXLOCK` | `getnewvnode`, `vget`, `vrele`, `vclean` | inodes, directories, buffers | recycling while somebody asks for it | nobody gets a vnode that is being cleaned, a file has one vnode |
| Name cache, `vfs_cache.c` (NameCache) | hash, LRU, capability numbers | enter, look up, purge | vnodes | reuse of a vnode behind an entry | a hit is never another file |
| System V semaphores, `sysv_sem.c` (SysVSem) | sets in one array, undo vectors, the facility's lock | `semget`, `semop`, `semctl`, `semconfig`, `semexit` | `tsleep`, exit | removal, moving and reuse during a sleep | all or nothing; undo restores; nobody sleeps for what is there |
| System V messages and shared memory | message segments, attached segments | `msgsnd`, `msgrcv`, `shmat`, removal | `tsleep`, exit | removal while a sender sleeps | a message is delivered whole or not at all |
| Fork, exit, wait | process table, parent links | `fork1`, `exit1`, `wait4` | signals, sleep | exit races wait and reparenting | each child reaped once |
| Descriptors in flight, `uipc_usrreq.c` | message counts, marks | `unp_gc` | sockets, files | messages received while marking | only unreachable files are closed |
| select, allocators, descriptors, ttys, sockets, VM, file systems, NFS, protocols, drivers, ports, libraries, commands | | | | see `PROJECT.json` | |

`PROJECT.json` lists every part with the reason if it is not modelled, and under
"hazards" the lines where each of these difficulties sits.

## 2. Modules

| Module | What it is |
|---|---|
| `RWLock` | what a lock promises its clients: `hold[p]`, granted and given back |
| `LockMgr` | one `struct lock` and the calls of `lockmgr()` in progress; refines `RWLock` |
| `LockMgrProofs` | theorems about `LockMgr`: counts, holders, exclusion, draining |
| `LockMgrRefinement` | theorems about `LockMgr`: want flags, overtaking, refinement of `RWLock` |
| `LockMgrOrderly` | theorems about `LockMgr` without upgrades: no panic, no lost wakeup |
| `MCLockMgr` | constants for TLC |
| `ProcSync` | processes, sleep queues, run queues, signals, timers, the swapper |
| `ProcSyncProofs` | the theorems about `ProcSync` |
| `MCProcSync` | constants for TLC |
| `RangeLocks` | what advisory locking promises: a reader/writer lock per byte |
| `ByteLocks` | the lock list of one file and the calls in progress; refines `RangeLocks` |
| `MCByteLocks` | constants for TLC |
| `Deadlines` | what `timeout()` promises: a bag of requests, each with the ticks left to it |
| `Callout` | the delta list, the free list and `softclock()`; operators for its users |
| `RealTimer` | interval timers and drivers over `Callout`; refines `Deadlines` |
| `RealTimerProofs` | the theorems about the table and the timers |
| `MCRealTimer` | constants for TLC |
| `BufCache` | the buffers of one vnode, their free lists, transfers and the calls in progress |
| `BufCacheProofs` | the theorems about buffers, sleepers, contents and flushing |
| `MCBufCache` | constants for TLC |
| `NameCache` | the name cache as a value, with its operations |
| `Vnodes` | vnodes, inodes and directories over `NameCache`, and the calls in progress |
| `VnodesProofs` | the theorems about vnodes: users, one vnode per file, sleepers |
| `MCVnodes` | constants for TLC |
| `SysVSem` | semaphore sets, undo vectors, and the calls in progress |
| `SysVSemProofs` | the theorems about semaphores, their waiters and the facility's lock |
| `MCSysVSem` | constants for TLC |

Operators whose comment begins with "Deliberate fault" are variants of the
definition that follows them, each with one plausible slip. They are used nowhere
in the specifications: `PROJECT.json` pairs each with the property that would
notice it, and replacing the definition by the variant makes TLC report that
property.

### LockMgr

`lk` is `struct lock`: `flags` holds the LK_* state bits, the counts keep their
names. A call that sleeps is at one of five *sites*: the four uses of `ACQUIRE`
(shared, upgrade, the first and the second wait of an exclusive request) and the
sleep of `LK_DRAIN`. `wchan[p]` is the channel while the process is on it;
`wakeup()` and `Interrupt` (signal or timeout) take it off, and `Resume…` then
runs the rest of the call: count down the waiters, fail if the sleep failed or
LK_SLEEPFAIL was asked for, test the condition again. `Wanted(site, L)` is the
condition each site waits on. `hold[p]` is what the caller was told, kept apart
from `lk` so that the counts can be compared with it. `Careless` processes also
make the requests that the code answers with `panic()`; the others follow the
rules of `lock.h` (release what they hold, downgrade only an exclusive lock,
upgrade only a shared one).

Left out: `lockstatus()` and `lockmgr_printinfo()` (read only), simple locks and
`PAUSE` (one processor). All callers that pass a null process are one process,
because the code gives them one identity. At most one process drains a lock at a
time: the callers drain what they alone are about to destroy.

### ProcSync

`proc[p]` is `struct proc` reduced to the fields that decide: `stat`, `wchan`,
`P_SINTR`, `P_TIMEOUT`, `P_INMEM`, `siglist`, dispositions and mask, the parent,
and where the process is in the kernel (`at`). `ret` and `why` are history: what
`tsleep()` returned and what took the process off its queue. The operators
`setrunnable`, `unsleep`, `wakeup`, `psignal`, `CURSIG`... are functions from a
kernel state to the next, with the code's names, so that a `psignal()` inside
`issignal()` inside `tsleep()` is one expression. One signal stands for each class
of `sigprop[]` that the code treats differently (kill, catchable, stop, continue,
ignored by default). The run queue, `cpu_switch()` and `userret()` are those of
the i386 port.

Actions: `Tsleep` up to the switch, `ResumeSleep`, `ResumeCursig1`,
`ResumeCursig2` for the rest after each of the three places it may have given up
the processor, `UserRet` (signal delivery, or stopping, on the way to user mode),
`SetSignals` (`sigaction`, `sigprocmask`), `Preempt`, `CpuSwitch`; from
interrupts and other processes `WakeupCall`, `PsignalCall`, `Endtsleep`; the
swapper's `Swapin`, `ScanNone`, `SchedulerSleep`, `SchedulerLoop`; `VmMeter`; and
`swapout()` in two halves, because it may block between them.

Left out: priorities, tracing, `vfork()` parents, orphaned process groups, init,
one-shot handlers, `sigsuspend()`, lack of memory in the swapper. A signal sent by
`mi_switch()` for RLIMIT_CPU is a `PsignalCall` just after the switch.

### ByteLocks

`list` is the inode's list in its order; each lock has its owner, type, range
(`end = -1` up to the end of the file) and the queue of processes blocked on it.
`fcntl()` locks are owned by the process, `flock()` locks by the open file. The two
loops over the owner's locks are iterations of `ClearStep` and `InsertStep`, one
CASE per case of the code; `lf_findoverlap()` includes its early exit, and
`lf_split()` its three shapes. `next[p]` is `lf_next` of a waiting request: the
lock it is queued on, or a lock that has been freed. Reading through a freed lock
sets `broken` and ends the behaviour, since what memory holds then is not
defined by the code.

Left out: `F_GETLK` (reads only), other files (detection across files follows the
same chain), allocation that sleeps, negative lengths.

### Callout, RealTimer, Deadlines

`calltodo` is the code's list of differences: overdue entries with `c_time` at most
0 at its front, then delays relative to the predecessor. `Hardclock` is the
interrupt: it runs down the overdue entries and the first one that is not, and asks
for `softclock()`. `Softclock` takes one due entry, frees it and lets interrupts in:
the call is a step of its own, so that a tick or a driver's `timeout()` or
`untimeout()` comes between (processes run only when nothing is left to do,
`AtBase`). `Realitexpire` sends the signal; `RealitLoop` is one turn of the loop
that looks for the next expiry and may be overtaken by the clock.

Time is counted in half ticks, because an expiry may fall between two ticks and
`hzto()` rounds down. `it_value` is absolute in the code; the model keeps its
distance to the clock, `left`, which keeps the state finite. `Settime` moves the
clock, and with it `left`, but leaves callouts alone, as the code does.

`Deadlines` says what a user of `timeout()` relies on without a list: every tick
brings every request nearer, nothing is taken before it is due, the most overdue
first, and `untimeout()` takes away the one that would come first.

Left out: the virtual and profiling timers (`itimerdecr()`), `adjtime()`,
statistics clock and profiling, `hzto()` for times near overflow.

### BufCache

The buffers of one vnode, used by several processes with no lock but the buffers'
own, as the metadata of a disk is. `k` is the cache: each buffer's block, `B_*` flags
and whether it has the last modification (`cur`); the AGE and LRU lists;
`needbuffer`, `v_numoutput`, `VBWAIT`; the transfers under way. Each call of
`vfs_bio.c` is an operator from a cache to the next, and an action is a stretch of a
process up to its next `tsleep()`: `Getblk` (with `read` for `bread()`, with a block
ahead for `breadn()`), `Brelse`, `Discard` (released invalid), the three writes,
`Vflushbuf`, `Vinvalbuf`, and a `Resume…` for each place that sleeps. `Transfer` is
the interrupt that ends a transfer, in any order, well or badly. `behind` is
history: the blocks whose last modification the disk does not have.

`vflushbuf()` starts over when dirty buffers are left that somebody has busy, without
sleeping if no output is under way: their owner never runs, and the loop never ends.
`hung` marks that, and the model stops there.

Left out: sizes (`allocbuf`, `geteblk`), `B_LOCKED`, `B_NOCACHE`, `B_CALL`,
asynchronous mounts, tapes, `V_SAVE`, clustering.

### NameCache, Vnodes

`NameCache` has no variables: the cache is a value, with the fields of the code, and
`Vnodes` keeps it in `k`. Capability numbers count modulo `IdMod`, so that their
wrapping, on which `cache_purge()` has a branch of its own, happens.

`Vnodes` is the life of a vnode as UFS uses it: `Lookup` (`ufs_lookup()` with the
cache, `vget()` and the test of the capability number after it), `Makeinode`,
`Remove_`, `Open`, `Close`, `Fhtovp` (a file handle, by which NFS gets at an inode
without a name), and the stretches of `ffs_vget()` with the inode hash,
`getnewvnode()`, `vrele()` with `ufs_inactive()`, `vgone()` and `vclean()` that
follow. Reading an inode and flushing buffers always sleep in the model; that they
need not is the schedule in which nobody else runs meanwhile.

Left out: links and renames (a file has one name), vnodes of directories (they stay
in use), "..", whiteouts, device aliases, forced closing, generation numbers,
`MALLOC()` that sleeps, `cache_purgevfs()`. Since only cleaning changes a vnode's number
here, and cleaning starts with nobody's reference, a lookup never has to start over
because the number changed during `vget()` (`NumberKept`). `UnmountSpec` adds the
`vflush()` of an unmount, where that does happen, and `Relock`, with which the lookup
waits for its directory to search it; section 4 says what else it leads to.

`again`, in an entry of the cache, is history: the vnode's number is one that is still
to be given out, because the vnode had kept it from before the numbers started over.
`CacheTruthful` is about the entries without that mark, `InvalidHidden` about all of them.

### SysVSem

`sem` is the one array in which all sets lie; `sema[ix]` says where, and a removal
moves the sets above down. `undo[p]` is the process's undo vector, a sequence, with the
code's deletion that puts the last entry in the place of the deleted one. `Semop`
runs a vector (`Try`), rolls back and sleeps where it must, or applies the
adjustments; `SemopWoken` goes on after the sleep with the pointer it kept, `SemopIntr`
is the interrupted one. Every call asks `semlock()` first; `Semconfig` freezes and
thaws. `Exit` gives the adjustments back, sleeping for the lock if it must, and
`Fork` puts a new process in the place of a dead one. `given` is history: the set of
what the operations without SEM_UNDO made of each semaphore. The set has one member, and
`Balanced` says that value and adjustments add up to it; it is empty, and `Balanced` says
nothing, of a semaphore that a vector changed before it left with EFBIG (`:612`), and of
one whose adjustment a SETVAL passed over because another semaphore of the set has an
entry before it (`:278`), up to the next SETALL, or SETVAL that does not pass anything
over. `FullyBalanced` has no exceptions, and does not hold (section 4).

Left out: keys, permissions, IPC_SET, times, the calls that only read. With
`QuietMoves` sets are removed only while nobody sleeps on a set that this would move;
`sem_moved` shows what happens otherwise.

## 3. Runs

All numbers are distinct states; each run finishes within three minutes on two cores.
Names in parentheses are the properties.

| Run | Instance | Shows |
|---|---|---|
| `lock_all` | 3 processes, all requests, all flags, signals, timeouts, one careless process that is also the null process; 210,000 | the type of the state, exclusion, exact share and wait counts, holder, want flags, drained means quiet, no exclusive grant overtakes an upgrade, refinement of `RWLock` (`RWSpec`) |
| `lock_noupgrade` | 3 processes by the rules, without upgrades, sleeps that cannot fail, fair; 3,000 | no panic, nobody sleeps on a condition that is over and LK_NOWAIT does not sleep (`SleepersJustified`), no deadlock, a writer that announced itself is served |
| `lock_upgrade_panic` | as above with upgrades | **violation**: a panic by clients that follow the rules |
| `psync_alone` | 1 process and the swapper, every kind of sleep and signal, one hash chain; 69,000 | sleepers can be found, timers belong to their sleep and timeouts are reported as such (`TimeoutsKept`), signals end sleeps; run queues exact over a `swapout()` that blocks, state types, no panic (`QueuesSound`) |
| `psync_live` | a sleeper beside a computing process, fair; 5,000 | a process whose sleep ended runs; only SIGCONT and SIGKILL end a stop |
| `lockf_all` | 3 processes, one also with flock(); 54,000 | own locks disjoint and ordered, each operation changes exactly its bytes (`ListExact`), waiters queued on what blocks them, no cycle of waits, refinement of `RangeLocks` (`RLSpec`) |
| `timer_all` | 2 timers and a driver on a table of 4, settings off, one-shot and periodic between ticks, steps of the clock, fair; 89,000 | the table suffices (`TableSound`); one callout per set timer, in step with the time, no expiry after cancelling (`TimersKept`); refinement of `Deadlines` (`DSpec`); a timer that stays set keeps going off (`AlarmComes`) |
| `buf_all` | 2 processes, 2 buffers, 3 blocks, read-ahead, flushing, signals, failing transfers; 169,000 | one buffer per block, free lists and owners exact (`BuffersExact`), every sleeper remembered by what wakes it, no write hidden or lost (`Coherent`), `fsync()` returns with everything on the disk (`FlushDurable`) |
| `vnode_all` | 3 processes, 2 names in 2 directories, 2 inodes, 2 vnodes of which 1 is desired, 2 cache entries, 3 capability numbers; 1,590,000 | no panic, use counts and free list exact (`UsersExact`), no file has two vnodes (`OneVnode`), an open file stays and no inode is lost (`FilesStay`), the cache agrees with the directories, except in entries whose number is to be given out again (`CacheTruthful`), sleepers remembered (`VnodeSleepersKnown`), no deadlock |
| `vnode_renumbered` | 2 processes, 3 names in 3 directories, 3 inodes, 2 vnodes, 4 capability numbers | **violation**: `cache_purge()` gives a vnode the number it has, and an entry that is now invalid is not hidden (`InvalidHidden`) |
| `sem_all` | 2 users and an `ipcs`, sets of 1 or 2 in an array of 2, undo vectors of 1 entry, signals, exits; 845,000 | arrays sound and no panic (`StructuresSound`), nobody sleeps for what is there, waiters counted, values and adjustments add up (`Balanced`, with the exceptions of section 2), nobody waits for a lock without a holder |
| `sem_moved` | 2 waiters and a process that makes, sets and removes sets | **violation**: a count taken back from another set, whose sleeper is then not woken |

Some invariants are conjunctions of named parts that speak of the same structure;
the parts are defined beside them, each with its own comment, and can be checked
alone: `SleepersJustified` (`NoForgottenSleeper`, `NoWaitNeverSleeps`), `TimeoutsKept`
(`TimerOwned`, `TimeoutReported`), `QueuesSound` (`TypeOK`, `RunnableQueued`, `NoPanic`),
`ListExact` (`TypeOK`, `OwnSorted`, `RangesExact`), `TableSound` (`TypeOK`,
`TableSuffices`), `TimersKept` (`OneCallout`, `ExpiryWanted`, `InStep`), `BuffersExact`
(`TypeOK`, `OneBuffer`, `FreeListsExact`, `OneOwner`), `UsersExact` (`TypeOK`, `NoPanic`,
`FreeListExact`, `RefsExact`), `FilesStay` (`OpenStays`, `NumberKept`, `NoInodeLost`),
`VnodeSleepersKnown` (`LockSleepers`, `CleaningSleepers`), `StructuresSound`
(`TypeOK`, `NoPanic`).

Every passing run but four checks for deadlock. In `lock_all` a careless caller may
panic the system, in `lockf_all` a freed lock may be read and in `buf_all`
`vflushbuf()` may loop for ever; after each of these the model stops. In `sem_all`
all processes may wait for semaphores that nobody raises, which is their affair.

### Bounds, and why they are enough

* Three processes: two in conflict and one that changes what they wait for; also
  the shortest cycle of waits that the first hop of deadlock detection misses.
  In ProcSync the swapper is the third.
* `MaxHold = 2`: recursion of an exclusive lock, and a share count above one held
  by one process, which is where "last share" and "one more share" differ.
* One sleep channel besides the processes' own addresses: a wakeup on another
  identifier is a step that changes nothing, except through the hash, and
  `psync_alone` puts all identifiers in one chain.
* Three bytes, the last one standing for the rest of the file: enough for a lock
  inside another with something left on both sides, and for "to end of file"
  against bounded ranges. `Calls` fixes which ranges each process asks for; between
  them they meet every case of overlap with their own locks.
* `MaxDepth = 3` against `maxlockdepth = 50`: longer than any chain of three
  processes. A chain longer than the limit is not followed in the code either.
* Timers: a setting below the resolution of the clock, one that falls between two
  ticks with an interval that does too, and a driver with a delay of 0 (which
  `timeout()` makes 1) and of 2; softclock at most one tick late (`MaxLate`), which is
  enough for a tick between taking an entry and its call, and for overdue entries in
  front of an insertion. The driver has at most two entries (`MaxArmed`), so that
  `untimeout()` has to choose, and the table has room for exactly what can be asked.
* Two buffers for three blocks, so that a buffer is always wanted for another
  block; two processes, of which the second flushes and never waits while it has a
  buffer (two that do could wait for each other, as in the code).
* As many vnodes as inodes and one desired: `getnewvnode()` both allocates and
  recycles, once the file of a vnode was removed. Three capability numbers (one of them
  the directory's): they wrap while entries of the round before are in the cache. These
  are too few for a vnode to get the number it has while it goes to another file, which
  is what `OpenStays` needs; `vnode_renumbered` has one file and one number more, and
  there `OpenStays` fails, while `CacheTruthful` holds in all of its 2,240,000 states. One
  name per directory in `vnode_all`, because the directory's lock lets one name be looked
  up at a time.
* Semaphores: two sets in an array of two, so that a set can be moved; sequence
  numbers and waiter counts wrap at 4 but the bounds keep ids from coming round
  (`MaxGets`) and counts from overflowing (`MaxCnt`); values and adjustments up to 1. Undo
  vectors of one entry, so that entries run out in mid-vector; the vectors themselves do
  not, since each of the two users has one. The exceptions of `Balanced` do not occur in
  `sem_all`, with SEMUME = 1 and vectors that are too big only before they change anything:
  more of either is too much for one run. `sem_passed.cfg` has SEMUME = 2 and with
  `Balanced` in place of `FullyBalanced` passes, in 1,350,000 states.
* Symmetry is used in `lock_all`, between the two processes that are alike, and in
  `vnode_all`, between the inodes, where only safety is checked.

### Fairness, and why the code justifies it

`LockMgr`: weak fairness of `Resume` (a runnable process is scheduled) and of
`LK_RELEASE` (who holds a lock gives it back; without it no lock is live).
Nothing is assumed of new requests. `ProcSync`: weak fairness of resumption for the
process on the processor, which nothing can take it from; of the swapper, which
runs at the highest priority when it is runnable; and of `vmmeter()`, which the
clock calls. Strong fairness of `CpuSwitch(p)`, because `schedcpu()` lets the
priority of a waiting process rise until it is chosen, and of `Preempt` and
`UserRet`, because the clock's quantum and traps come again and again to a
process in user mode. Signals, wakeups and timeouts are never assumed to come.
`RealTimer`: weak fairness of the clock interrupt, of `softclock()`, which runs above
every process, and of the functions it calls, which do not sleep. Nothing is assumed
of processes and drivers.

## 4. Findings

Each is a run with expected violation; `PROJECT.json` quotes the lines.

1. `kern_lock.c:339` (`lock_upgrade_panic`): the second wait of an exclusive request
   does not test LK_HAVE_EXCL; if an upgrade is granted while it waits, it is granted
   as well and panics on the exclusive count.
2. `sysv_sem.c:706` (`sem_moved`): IPC_RMID moves the sets above the removed one
   (331-337), and a sleeper of such a set takes its waiter count back where its
   semaphore used to be. The count of another set goes to 0 under its sleeper, and the
   `semop()` that would serve it does not wake it.
3. `vfs_cache.c:243` (`vnode_renumbered`): `cache_purge()` is "called ... to hide entries
   that would now be invalid" (233-235), by giving the vnode another number. A vnode that
   kept its number while the numbers started over may be given that same number; an entry
   made since then still matches, and a lookup gets a vnode that is on its way to another
   file (`OpenStays` fails in the same configuration). The kernel needs as many purges as
   there are numbers for it.

### Observations with a configuration beside the runs

`tlc -config X.cfg MC…` reports the property named.

| Configuration | Property | Where | What |
|---|---|---|---|
| `lock_upgrade_lost.cfg` | `UpgradeServed` | `kern_lock.c:251` | a failing LK_EXCLUPGRADE drops its share without waking the upgrader that waits for exactly that share |
| `lock_upgrade_nowait.cfg` | `NoWaitNeverSleeps` | `kern_lock.c:276` | the poll of LK_UPGRADE compares with 1 after its own share is gone: with one other reader it sleeps in spite of LK_NOWAIT |
| `psync_zero.cfg` | `ZeroMeansAwakened` | `kern_sig.c:604` | SIGCONT removes a pending SIGTSTP that has already ended a sleep, and `tsleep()` returns 0 though nobody called `wakeup()` |
| `psync_sleptover.cfg` | `NoSignalSleptOver` | `kern_synch.c:345` | a process that stops in the CURSIG() before its sleep is put back to sleep by SIGCONT although a caught signal is pending |
| `lockf_stale.cfg` | `BlockerRemembered` | `vfs_lockf.c:344` | the queue of a swallowed lock is handed over, `lf_next` of those on it is not |
| `buf_dup.cfg` | `OneBuffer` | `vfs_bio.c:596` | `getnewbuf()` writes out a dirty buffer and goes on to the next without telling `getblk()`; where `VOP_STRATEGY()` blocks in that write, two `getblk()` make two buffers for a block, which the comment at 565 wants to exclude |
| `sem_partial.cfg` | `FullyBalanced` | `sysv_sem.c:612` | a vector that names a semaphore beyond the set after it has changed another leaves with EFBIG and the change in place, against the comment at 600-601, "atomic (never partially satisfied)", and the "atomic operations" of `semop.2` |
| `sem_passed.cfg` | `FullyBalanced` | `sysv_sem.c:278` | with more than one entry in an undo vector (`SEMUME` is 10), SETVAL stops at the first entry about the set, whichever semaphore it is for: an adjustment outlives the value it was for, and an exit applies it to the new one |

`psync_family.cfg` passes: `QueuesSound` for a parent that catches SIGCHLD and its child
under job control, both swapped in and out, in 262,000 states. `QueuesSoundHolds`
(section 5) is the general case of it.

### Observations without one

* An exclusive request or upgrade that gives up clears its want flag without a
  wakeup, so those who slept because of the flag sleep until the next release
  (`kern_lock.c:288`, `:342`). Two processes that drain one lock: the first one's
  release decommissions it while the second sleeps (`:398`).
* If the hash of a sleep identifier collides with `&proc0`, the test at
  `kern_synch.c:525` can meet a process that is on its sleep queue but still SRUN
  (this is why `psync_family.cfg` uses separate queues; `psync_alone` has one queue, but
  no parent to send SIGCHLD to).
* `lockf.h` says the list is sorted by starting byte, which holds only among the
  locks of one owner. A `tsleep()` that returns 0 by itself reaches `lf_setlock()`,
  which takes 0 to mean that it is off the queue (`vfs_lockf.c:247`). flock and fcntl
  locks mixed by the same processes can deadlock in spite of the comment at
  `vfs_lockf.c:192`. `lf_split()` may sleep in its allocation after the list was read
  (`:705`).
* `vclean()` may sleep in `VOP_LOCK()` before it sets VXLOCK (`vfs_subr.c:1008`), and a
  vnode that `vflush()` found without users is not off the free list then: a `vget()`
  in between gets it and keeps it while it is cleaned. Under `UnmountSpec`, with one
  process whose `Ops` is empty, `OpenStays` fails. (`getnewvnode()` takes the vnode off
  the list first, which is why the runs do not meet this.)
* `vflushbuf()` goes round without sleeping while a dirty buffer is busy and no output
  is under way (`vfs_subr.c:584`): see `hung` above.
* A write that failed makes `brelse()` discard the buffer with the data
  (`vfs_bio.c:457`); `Coherent` leaves buffers with an error out.
* `hzto()` multiplies by a million without a lower limit, and overflows for times more
  than 35 minutes in the past (`kern_clock.c:829`).
* Semaphores, with `SysVSem` under other constants: with `semmnu = 1`, the undo
  vector of a process that sleeps in its exit can be emptied by a removal and taken by
  another process, and the exit meets the panic at `sysv_sem.c:881`; a vector that names a
  semaphore twice (take one, then wait for zero) can sleep at a semaphore that nobody
  thinks is waited for.
* Also in `sysv_sem.c`: a `semop()` interrupted by a signal leaves `semncnt` too large
  (`:681`), so that GETNCNT tells more than `semctl.2` says; a `semop()` sleeper does
  not ask `semlock()` again after a freeze; the index of a set is compared with
  `semmsl`, not `semmni` (`:313`); a SETALL whose copyin fails has set some values and
  clears all adjustments (`:433`); SETVAL truncates its value (`:419`); copyin
  of the vector may sleep between the test of the set and its use (`:587`).
* Elsewhere, not yet modelled: a message sender sleeps for segments with MSG_LOCKED set
  (`sysv_msg.c:429`); `select()` depends on P_SELECT and `nselcoll` having been read
  before the scan (`sys_generic.c:607`); `unp_gc()` allocates with M_WAITOK between marking
  and counting (`uipc_usrreq.c:879`).

## 5. Theorems

All hold for every value of the constants that the modules' assumptions allow: any
set of processes, any requests, flags and bounds. `tlapm M.tla` checks a module's
proofs; `VnodesProofs` and `SysVSemProofs` take about a quarter of an hour each,
`BufCacheProofs` and `ProcSyncProofs` about five minutes, the others less.

### The lock manager

| Theorem | Says | Assumes |
|---|---|---|
| `LockMgrProofs!TypeCorrect` | `Spec => []TypeOK` | |
| `MutualExclusionHolds` | `Spec => []MutualExclusion` | |
| `SharesCountedHolds` | `Spec => []SharesCounted` | |
| `HolderRecordedHolds` | `Spec => []HolderRecorded` | |
| `WaitersCountedHolds` | `Spec => []WaitersCounted` | |
| `DrainQuiescentHolds` | `Spec => []DrainQuiescent` | |
| `LockMgrRefinement!WantFlagsOwnedHolds` | `Spec => []WantFlagsOwned` | |
| `Refinement` | `Spec => RWSpec` | |
| `UpgradeNotOvertakenHolds` | `Spec => UpgradeNotOvertaken` | |
| `LockMgrOrderly!NoPanicHolds` | `Spec => []NoPanic` | `Orderly` |
| `NoWaitNeverSleepsHolds` | `Spec => []NoWaitNeverSleeps` | `Orderly` |
| `SleepersJustifiedHolds` | `Spec => []SleepersJustified` | `Orderly`, `SoundSleep` |

The first group follows from `Invariance == Spec => []Inv`. None of the properties is
inductive alone. Exclusion needs that the counts mean what they say: a shared
request is granted when LK_HAVE_EXCL is clear, so the flag has to stand for the
grants, and an exclusive one when `lk_sharecount` is 0, so the count has to be the
number of shares. `LockOK(L, H)` ties lock and holdings together: the share count
is the cardinality of the set of share tokens, flag, holder and exclusive count
agree, and an exclusive lock leaves no shares. The exclusive count being positive
only without shares is what the panic at `:347` protects: a step that would break
it panics instead, and the invariant is stated so that it survives a panic for
exclusion (no one is told anything after it) but says nothing of the counts then.
`WaitOK` adds that the wait count is the number of processes in ACQUIRE and that a
draining lock has neither waiters nor holders but the drainer.

The proof follows the code's structure: lemmas about tokens (adding, dropping,
turning an exclusive lock into shares), one lemma per shared stretch (`Return`,
`SleepAt`, each `Acquire…`), then one per request type and resumption, first for
`LockOK`, then for `WaitOK`, and the theorem puts them together.

`LockMgrRefinement` adds to `Inv` who owns the want flags (each flag is set exactly
while one process is at the sites it announces), and shows step by step that what a
step tells its caller is a step of `RWLock` or none. That an upgrade is not
overtaken uses both: an exclusive grant needs LK_WANT_UPGRADE clear.

`Orderly` is the case `lock_noupgrade` checks: nobody upgrades and nobody is
careless. Both are needed: `lock_upgrade_panic` is a panic with upgrades, and a
careless caller gets what the code announces. `SoundSleep` restricts the sleeps to
those that only `wakeup()` ends (no PCATCH, no timeout, no LK_SLEEPFAIL): a request that gives up clears its want flag without a wakeup, as
section 4 says, and those who slept because of the flag are then not justified. Under
it `SleepInv` says of every sleeper that its condition holds, site by site, and the
proof is that each step that makes a condition false calls `wakeup()`.

### Sleep, wakeup, signals and swapping

| Theorem | Says | Assumes |
|---|---|---|
| `ProcSyncProofs!TypeCorrect` | `Spec => []TypeOK` | |
| `SleepersQueuedHolds` | `Spec => []SleepersQueued` | |
| `TimeoutsKeptHolds` | `Spec => []TimeoutsKept` | |
| `SignalEndsSleepHolds` | `Spec => []SignalEndsSleep` | |
| `StoppedStaysHolds` | `Spec => StoppedStays` | |
| `QueuesSoundHolds` | `Spec => []QueuesSound` | `SwapperApart` |

`SwapperApart` says that no identifier anybody sleeps on hashes to the queue of
`&proc0`, the swapper's. Without it the panic at `kern_synch.c:525` can be reached
(section 4), so `QueuesSound`, which excludes panics, does not hold; `psync_family.cfg`
satisfies the assumption. `psync_alone`, where everything is in one chain, does not, and
has `QueuesSound` all the same, because its one process has no parent to send SIGCHLD
to. The other theorems hold until such a panic.

`Inv` says, besides the types, of a kernel that has not panicked: a process is on the
queue of its `p_wchan` and on no other (`Queued`); the run queue has exactly the
runnable processes in memory that do not run (`RunExact`); a process in SSLEEP has a
`p_wchan`, and one with a `p_wchan` is in SSLEEP or SSTOP, or is in `tsleep()` with
the processor (`WaitOK`); the running process is SRUN and in memory; a pending
`endtsleep()` belongs to a timed sleep that is going on and has not timed out
(`CoOK`); the process that `swapout()` has chosen is in memory (`OutOK`); and of each
process alone (`Calm`) that timer flags and return values agree, that an
interruptible sleeper has no effective signal, that it is not its own parent and does
not wait for proc0.

The kernel's functions call each other (`issignal()` sends SIGCHLD by `psignal()`,
which may call `setrunnable()`, which may wake the swapper), so each operator has a
lemma about kernel states in order: what it keeps of everybody (`Gentle`), whom alone
it changes (`Frame`), and that the result is in order. An action is a composition of
them, its …`Step` lemma the composition of theirs, and `NextInv` the case split.

### System V semaphores

| Theorem | Says | Assumes |
|---|---|---|
| `SysVSemProofs!LockSleepersKnownHolds` | `Spec => []LockSleepersKnown` | |
| `TypeCorrect` | `Spec => []TypeOK` | |
| `NoPanicHolds` | `Spec => []StructuresSound` | `Room` |
| `SleepersCountedHolds` | `Spec => []SleepersCounted` | `QuietMoves` |
| `WaitersServedHolds` | `Spec => []WaitersServed` | `QuietMoves`, `AllPlain` |

The hypotheses are about the configuration and the callers, never about states, and
`sem_all` satisfies them all. Each is one that the code needs:

* `Room`: there is an undo vector (`semmnu`) for every process that calls `semop()`.
  Otherwise the vector of a process that sleeps in its exit can be emptied by a removal
  and taken by another process, and the exit panics at `sysv_sem.c:881` (section 4).
* `QuietMoves`: sets are removed only while nobody sleeps on a set that this moves.
  `sem_moved.cfg` shows what happens otherwise.
* `AllPlain`: a vector names no semaphore twice, and none beyond one that an operation
  before it changes. With (take one, then wait for zero) of the same semaphore a process
  sleeps although its semaphore is there, because it is counted for what it saw after
  its own first operation; a vector that turns out too big after a change (`:612`)
  changes a value without a wakeup. Both are in section 4.

The bounds are part of the model that the theorems are about, with any values:
`MaxGets` is below the modulus of the sequence numbers, so no id comes round (in the
kernel, after 32768 sets in one slot it does, and a sleeper may take a new set for its
own), and `MaxCnt` is below that of the counts of waiters.

The invariants, some on top of others:

* `LockInv`: the holder of the facility is itself neither asleep for it nor dying, which
  is what lets it thaw, and whoever sleeps for it has another process as holder.
* `Types`, with `LockInv`: the allocated sets lie in `sem` in some order without gap or
  overlap, up to `semtot` (`Laid`); undo vectors have entries only for sets and
  semaphores that exist, one for each semaphore, none of them zero, and no more vectors
  are in use than there are (`VecsOK`); and what a sleeper remembers over the sleep is
  within its vector and its set, if that set is still the one it slept on (`CallsOK`).
  Removal is the step that needs `Laid`: it moves what is above down by the size of what
  goes.
* `RoomInv`, with `Types`: only callers of `semop()` have vectors, and one who sleeps in
  `semexit()` still has his. The panic at `:739` ("can't undo undos") needs a lemma of its
  own: taking the adjustments back in the reverse order meets the same lengths that
  putting them in did.
* `CountInv`, with `Types`: a sleeper's pointer is that of the semaphore it joined, and
  `semncnt` and `semzcnt` are at least the number of those who wait there for more, or for
  zero. They may be larger, since an interrupted `semop()` leaves its count behind.
* `StuckInv`, with `CountInv`: a sleeper's vector stops now at the operation it went to
  sleep for, seen from the values as they are. A step that could change this makes a
  value larger, or zero, of a semaphore with a sleeper; by `CountInv` the count is then
  above 0, and by `Changed`, which says what a vector did to each value, `semop()` calls
  `wakeup()`.

What a vector does is a recursive function over its operations (`Try`, `AdjustAll`), and
the library's induction theorems cannot be instantiated here. The lemmas about them
cite `LoopInduction` instead, which is about a set: if the set of the lengths at which
the claim holds has 0 and, with each length, the next, it has all of them. It is
proved from the well-foundedness of the naturals, by a least counterexample.

### Callouts and interval timers

| Theorem | Says | Assumes |
|---|---|---|
| `RealTimerProofs!TableSoundHolds` | `Spec => []TableSound` | `TableSize` |
| `TimersKeptHolds` | `Spec => []TimersKept` | `TableSize` |

`TableSize`: processes and drivers are finite in number, and the table has an entry
for the timer of every process and for every request the drivers may have pending.
It is how `src/sys/conf/param.c:108` sizes the table (`16 + NPROC`), and without it
the "timeout table full" panic is reached by requests alone; `timer_all` satisfies it
with equality.

`Inv` has two parts. `QueueOK`: free and queued entries are all there are, no time but
those at the head is below zero, and no driver has more entries than it may. `TimerOK`,
for each process: it is on the queue at most once, and exactly when its timer is set
and is not the one `softclock()` is delivering; unless the clock was stepped, the
entry's total of times is within a tick of what the timer has left. The first part
needs the second: the table suffices because no timer has two entries, across
`realitexpire()`, which reloads after its own entry was freed, and `setitimer()`,
which removes what it replaces.

The totals are sums over a list. The module proves induction over the naturals in set
form (from the least element of a nonempty set), the existence of the sums by it, and
then works with `Grown`: the list with one more entry at a place where it disturbs
nobody else's total. `timeout()` makes such a list and `untimeout()` undoes it.

### The buffer cache

| Theorem | Says |
|---|---|
| `BufCacheProofs!BuffersHold` | `Spec => []BuffersExact` |
| `SleepersHold` | `Spec => []SleepersRemembered` |
| `CoherentHolds` | `Spec => []Coherent` |
| `FlushHolds` | `Spec => FlushDurable` |

All four assume `~StrategySleeps`, that no `VOP_STRATEGY()` blocks the process that
starts a transfer. This is needed: `buf_dup` shows two buffers for one block when
`getnewbuf()` sleeps in the write of a buffer it wanted to reuse. `BufAssumption` asks
that the buffers are finite in number and are not among the names of the other sleep
channels.

`Inv` has four parts. `CacheOK(c, H)`, while processes hold the buffers `H`: the lists
have no buffer twice, no block has two buffers, `v_numoutput` is the number of writes,
and for each buffer (`BufOK`) being listed, busy, held, asynchronous, flushed in place
and in transfer agree. `CopiesOK`: every copy that may be read is current, a write
that is delayed or under way has no error, and what the disk lacks is in such a
buffer; `Coherent` alone is not inductive, because a clean buffer may be recycled only
if the disk has the block. `ProcOK`: a process waits with a buffer whose transfer is
under way or done. `Remembered`: `SleepersRemembered` for one process.

Each operator from a cache to the next gets a lemma: what it changes (`BrelseIs`), and
that the cache stays in order (`BrelseOK`), nobody who sleeps is forgotten and no
holder is disturbed (`Smooth`). `DoOK` turns these into one step of a process, and
each action puts the lemmas of its calls together. `SetFlagsOK` and `BrelseOK` ask that
only one buffer, `b`, may be out of order meanwhile (`OthersOK`), as the code does
between `SET()` and the release. The loops of `getnewbuf()` and `vinvalbuf()` go by
induction in set form; `SkippedOK` also shows that as many rounds as there are buffers
always end the first of them, since each takes one off the free lists.

### Vnodes

| Theorem | Says |
|---|---|
| `VnodesProofs!Invariant` | `Spec => []Inv`, from which the others follow |
| `UsersAlwaysExact` | `Spec => []UsersExact` |
| `OneVnodePerFile` | `Spec => []OneVnode` |
| `LockSleepersRemembered` | `Spec => []LockSleepers`, one half of `VnodeSleepersKnown` |

`VnodesAssumption` asks that processes and vnodes are finite in number, which
`Cardinality` needs; sizes, errors and what each process does are arbitrary, and so is
the number of capability numbers: none of the three depends on them.

`State(c, P, W)` is the invariant as a relation between the vnodes and the cache (`c`),
the places of the processes (`P`) and what they sleep on (`W`), so that it can also be
said in the middle of a step: `Vrele()` goes on into `Vgone()`, `Vclean()` and the next
`Getnewvnode()` within one action, and the process is then at one of the places in
`Transit`. What it says beside the properties:

* a vnode (`VnodeOK`, `Owned`, `Filed`): what `live`, `VXLOCK`, `v_usecount`, the free
  list, the lock and the inode have to do with one another and with who is where; an
  inode with a mode is in the bitmap, and has a link exactly if a directory names it;
* a process (`AtPlace`, `AtVnode`): what it may still count on when it comes back from
  a sleep, with the vnode and with the directory. This is the part that the code relies
  on without testing it: `getnewvnode()`, that the hash lock kept everybody else from
  making a vnode for the same inode; `ufs_inactive()`, that nobody gained a reference
  by name or by handle; `ufs_makeinode()`, that the inode has no other name yet;
* two processes (`Apart`): who ends the use of a vnode is alone with it, and two new
  files have two inodes.

The proof never opens `State` in an action. `Around` is a step of one process and one
vnode that leaves all others as they are, and `Local` says that such a step keeps
`State` if the vnode and the process are again in order (the lemmas `...Now`, one for
each piece of code: `VgoneNow`, `ReclaimNow`, `VputNow` and so on); each action then
puts its pieces together (`...Step`).

## 6. Only model-checked

Liveness (`WriterServed`, `AwakenedRuns`, `AlarmComes`) and everything under fairness:
TLAPS has no rules for it here. `ByteLocks`, of `RealTimer` the refinement `DSpec`, of
`BufCache` what happens when `VOP_STRATEGY()` sleeps, and of `SysVSem` that values and
adjustments add up (`Balanced`), are checked on the instances above and not proved. The
loops of `ByteLocks` (`RangesExact`, `RLSpec`) and the sums over vectors and entries in
`Balanced` need an induction over a list each, and `DSpec` one that also relates lists to
bags; they are left to TLC.

Of `Vnodes`, `CacheTruthful`, `NumberKept`, `NoInodeLost` and `CleaningSleepers` are only
checked. `OpenStays` does not hold for every value of the constants, and without its
exception `CacheTruthful` does not either: see finding 3.

## 7. Plan

Done: the lock manager with its invariants and its refinement proved; sleep, signals
and swapping with their invariants proved; callouts and interval timers with the table
and the timers proved; the buffer cache with all its properties proved; advisory
locks; vnodes with the name cache, with the users of a vnode proved; System V
semaphores, with all but the sums of values and adjustments proved. Next, in this order:

1. Theorems: `Balanced` for SysVSem; for Vnodes, `CacheTruthful`, and
   `OpenStays` for as long as the capability numbers do not start over.
2. **UnpGC** (`uipc_usrreq.c`) and **select** (`sys_generic.c`) over the sleep protocol
   of ProcSync.
3. **SysVMsg** (`sysv_msg.c`): segments, a queue removed while a sender sleeps.
4. Flock and fcntl mixed on one file in `ByteLocks`.
5. Extents and resource maps as pure algorithms against a set of free numbers.

### Not modelled

`PROJECT.json` gives the reason for every part. In short: drivers, ports and network
protocols have their other half outside the repository; libraries, commands and
compatibility layers are sequential; virtual memory and the file systems' on-disk
structures are systems of their own. Together they are nearly all of the tree's
lines, and the models above stay with the part of the kernel that everything else
waits on.
