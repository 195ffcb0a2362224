------------------------------ MODULE BufCache ------------------------------
(***************************************************************************)
(* The buffer cache, sys/kern/vfs_bio.c, with the flushing and discarding  *)
(* of a vnode's buffers from vfs_subr.c: the buffers of one vnode that     *)
(* several processes use without a lock of their own, as they do with the  *)
(* metadata of a disk.                                                     *)
(*                                                                         *)
(* A step is a stretch of one process up to its next tsleep(), or the      *)
(* completion of one transfer, an interrupt.  All blocks have one size, so *)
(* allocbuf() has nothing to do and no buffer is without memory.  Of the    *)
(* contents the model keeps whether a buffer, and the disk, have the last  *)
(* modification of the block.                                              *)
(***************************************************************************)
EXTENDS Integers, Sequences, FiniteSets, SequencesExt

CONSTANTS
  Proc,        \* the processes
  Buf,         \* the buffer headers, each with memory for a block
  Block,       \* the blocks of the vnode
  ReadAhead,   \* ReadAhead[p]: the <<block, block ahead>> p reads with breadn()
  Flushers,    \* the processes that call fsync() and vinvalbuf()
  Errors,      \* can transfers fail?
  StrategySleeps, \* may VOP_STRATEGY() block the process that starts a transfer?
  NoBuf, NoBlock

\* Channels that are not buffers: &needbuffer and &vp->v_numoutput.
NeedBuffer == "needbuffer"
NumOutput  == "numoutput"
NoChan     == "none"

ASSUME BufAssumption ==
  /\ IsFiniteSet(Buf) /\ {NeedBuffer, NumOutput, NoChan, "strategy"} \cap Buf = {}
  /\ NoBuf \notin Buf /\ NoBlock \notin Block
  /\ Flushers \subseteq Proc
  /\ \A p \in Proc : ReadAhead[p] \subseteq Block \X Block
  /\ Errors \in BOOLEAN /\ StrategySleeps \in BOOLEAN

VARIABLES
  k,           \* the cache: see Cache below
  pc,          \* pc[p]: where p is
  wchan,       \* wchan[p]: what p sleeps on
  call,        \* call[p]: the bread(), breadn() or getblk() p is in
  hold,        \* hold[p]: the buffer p was given, or waits for the contents of
  behind,      \* the blocks whose last modification is not on the disk
  hung         \* vflushbuf() goes round its loop without ever sleeping

vars == <<k, pc, wchan, call, hold, behind, hung>>

Flag == {"BUSY", "WANTED", "DELWRI", "DONE", "READ", "ASYNC", "INVAL", "ERROR", "AGE", "VFLUSH"}

NoCall == [blk |-> NoBlock, ahead |-> NoBlock, read |-> FALSE]

\* bufinit(): every buffer is invalid and on the AGE queue.
Init ==
  /\ \E order \in SetToSeqs(Buf) :
       k = [buf |-> [b \in Buf |-> [blk |-> NoBlock, flags |-> {"INVAL"}, cur |-> TRUE]],
            age |-> order, lru |-> <<>>,
            needbuffer |-> FALSE, numoutput |-> 0, vbwait |-> FALSE,
            io |-> {},      \* the buffers whose transfer is under way
            wake |-> {}]    \* the channels this step calls wakeup() for
  /\ pc = [p \in Proc |-> "idle"]
  /\ wchan = [p \in Proc |-> NoChan]
  /\ call = [p \in Proc |-> NoCall]
  /\ hold = [p \in Proc |-> NoBuf]
  /\ behind = {}
  /\ hung = FALSE

-----------------------------------------------------------------------------
(* Releasing and writing, as functions of the cache.                        *)

Is(c, b, f) == f \in c.buf[b].flags
SetFlags(c, b, F) == [c EXCEPT !.buf[b].flags = @ \cup F]
ClrFlags(c, b, F) == [c EXCEPT !.buf[b].flags = @ \ F]

\* TAILQ_REMOVE() of the entry b of the list s, if it is there.
Removed(s, b) ==
  LET places == {i \in 1 .. Len(s) : s[i] = b}
  IN  IF places = {} THEN s ELSE RemoveAt(s, CHOOSE i \in places : TRUE)

bremfree(c, b) == [c EXCEPT !.age = Removed(@, b), !.lru = Removed(@, b)]

Wakeups(c, b) == (IF c.needbuffer THEN {NeedBuffer} ELSE {}) \cup (IF Is(c, b, "WANTED") THEN {b} ELSE {})

\* brelse() up to its choice of a queue: the wakeups, and errors and lost blocks
\* made invalid.
Releasing(c, b) ==
  LET f == c.buf[b].flags \ {"WANTED"}
  IN  [c EXCEPT !.wake = @ \cup Wakeups(c, b), !.needbuffer = FALSE,
                !.buf[b].flags = IF "ERROR" \in f THEN f \cup {"INVAL"} ELSE f]

\* brelse(): a buffer flushed in place (B_VFLUSH) is still on its queue and stays
\* there, unless it has to move.
brelse(c, b) ==
  LET d == Releasing(c, b)
      flushed == Is(d, b, "VFLUSH")
      stays == flushed /\ ~(Is(d, b, "INVAL") \/ Is(d, b, "AGE"))
      e == IF flushed /\ ~stays THEN bremfree(d, b) ELSE d
      q == CASE stays -> e
             [] ~stays /\ Is(e, b, "INVAL") ->
                  [ClrFlags(e, b, {"DELWRI"}) EXCEPT !.age = <<b>> \o @, !.buf[b].blk = NoBlock]
             [] ~stays /\ ~Is(e, b, "INVAL") /\ Is(e, b, "AGE") -> [e EXCEPT !.age = Append(@, b)]
             [] OTHER -> [e EXCEPT !.lru = Append(@, b)]
  IN  ClrFlags(q, b, {"AGE", "ASYNC", "BUSY", "VFLUSH"})

\* bwrite() up to the start of the transfer.
StartWrite(c, b) ==
  [ClrFlags(c, b, {"READ", "DONE", "ERROR", "DELWRI"})
     EXCEPT !.numoutput = @ + 1, !.io = @ \cup {b}]

bawrite(c, b) == StartWrite(SetFlags(c, b, {"ASYNC"}), b)

-----------------------------------------------------------------------------
(* Finding a buffer.                                                        *)

\* The buffers that the hash chain of the block has under its name.
Named(c, blk) == {b \in Buf : c.buf[b].blk = blk}

incore(c, blk) == \E b \in Named(c, blk) : ~Is(c, b, "INVAL")

\* getnewbuf() with the first of the free buffers: one that is being flushed in
\* place is left to be aged, one with a delayed write is written out.
SkipFirst(c) ==
  LET b == Head(c.age \o c.lru)
      d == bremfree(c, b)
  IN  IF Is(c, b, "VFLUSH") THEN SetFlags(ClrFlags(d, b, {"VFLUSH"}), b, {"AGE"})
      ELSE bawrite(SetFlags(d, b, {"BUSY", "AGE"}), b)

MustSkip(c) == c.age \o c.lru # <<>> /\
               LET b == Head(c.age \o c.lru) IN Is(c, b, "VFLUSH") \/ Is(c, b, "DELWRI")

\* The loop of getnewbuf() over them; with a VOP_STRATEGY() that sleeps it is left
\* after the first write.
Skipped(c) ==
  LET loop[n \in 0 .. Cardinality(Buf)] ==
        IF n = 0 THEN c
        ELSE LET d == loop[n - 1]
             IN  IF MustSkip(d) /\ ~(StrategySleeps /\ d.numoutput > c.numoutput) THEN SkipFirst(d) ELSE d
  IN  loop[Cardinality(Buf)]

\* getnewbuf() and the naming of the buffer by getblk().
getnewbuf(c, blk) ==
  LET d == Skipped(c)
      b == Head(d.age \o d.lru)
  IN  IF StrategySleeps /\ d.numoutput > c.numoutput
      THEN [k |-> d, bp |-> NoBuf, sleep |-> "strategy"]
      ELSE IF d.age \o d.lru = <<>>
      THEN [k |-> [d EXCEPT !.needbuffer = TRUE], bp |-> NoBuf, sleep |-> NeedBuffer]
      ELSE [k |-> [bremfree(d, b) EXCEPT !.buf[b] = [blk |-> blk, flags |-> {"BUSY"}, cur |-> TRUE]],
            bp |-> b, sleep |-> NoChan]

\* Deliberate fault: a busy buffer is passed over like one of another block.
getblkAnew(c, blk) ==
  LET free == {b \in Named(c, blk) : ~Is(c, b, "BUSY")}
      b == CHOOSE x \in Named(c, blk) : x \in free
  IN  IF free # {} THEN [k |-> bremfree(SetFlags(c, b, {"BUSY"}), b), bp |-> b, sleep |-> NoChan]
      ELSE getnewbuf(c, blk)

\* getblk() from its label start: the buffer of the block when nobody has it, a
\* new one when there is none, or what to sleep on.
getblk(c, blk) ==
  LET busy == {b \in Named(c, blk) : Is(c, b, "BUSY")}
      free == {b \in Named(c, blk) : ~Is(c, b, "BUSY") /\ ~Is(c, b, "INVAL")}
      b == CHOOSE x \in Named(c, blk) : x \in busy \cup free
  IN  IF busy # {} THEN [k |-> SetFlags(c, b, {"WANTED"}), bp |-> NoBuf, sleep |-> b]
      ELSE IF free # {} THEN [k |-> bremfree(SetFlags(c, b, {"BUSY"}), b), bp |-> b, sleep |-> NoChan]
      ELSE getnewbuf(c, blk)

Valid(c, b) == Is(c, b, "DONE") \/ Is(c, b, "DELWRI")

\* bio_doread() after getblk().
DoRead(c, b, async) ==
  IF ~Valid(c, b) THEN [SetFlags(c, b, {"READ"} \cup async) EXCEPT !.io = @ \cup {b}]
  ELSE IF async # {} THEN brelse(c, b) ELSE c

-----------------------------------------------------------------------------
(* The calls of processes.                                                  *)

\* The stretch of p ends with the cache c: p is at the place at, asleep on chan
\* unless that is NoChan, and has the buffer b.
Do(c, p, at, chan, cl, b) ==
  /\ k' = [c EXCEPT !.wake = {}]
  /\ pc' = [pc EXCEPT ![p] = at]
  /\ wchan' = [q \in Proc |-> IF q = p THEN chan ELSE IF wchan[q] \in c.wake THEN NoChan ELSE wchan[q]]
  /\ call' = [call EXCEPT ![p] = cl]
  /\ hold' = [hold EXCEPT ![p] = b]

\* p sleeps in getblk(), or in a VOP_STRATEGY() that getnewbuf() has called.
SleepFor(r, p, cl, b) ==
  IF r.sleep = "strategy" THEN Do(r.k, p, "strategy", NoChan, cl, b)
  ELSE Do(r.k, p, "getblk", r.sleep, cl, b)

\* biowait() at the end of bread() and breadn().
biowait(c, p, b) ==
  IF Valid(c, b) THEN Do(c, p, "hold", NoChan, NoCall, b)
  ELSE Do(c, p, "biowait", b, NoCall, b)

\* breadn() with what getblk() gave for the block ahead.
GotAhead(r, p, cl, b) ==
  IF r.bp = NoBuf THEN SleepFor(r, p, cl, b)
  ELSE biowait(DoRead(r.k, r.bp, {"ASYNC"}), p, b)

Ahead(c, p, cl, b) ==
  IF cl.ahead = NoBlock \/ incore(c, cl.ahead) THEN biowait(c, p, b)
  ELSE GotAhead(getblk(c, cl.ahead), p, cl, b)

\* getblk(), bread() and breadn() with what getblk() gave for the block itself.
Got(r, p, cl) ==
  IF r.bp = NoBuf THEN SleepFor(r, p, cl, NoBuf)
  ELSE IF ~cl.read THEN Do(r.k, p, "hold", NoChan, NoCall, r.bp)
  ELSE Ahead(DoRead(r.k, r.bp, {}), p, cl, r.bp)

Getblk(p, blk, read, ahead) ==
  /\ ~hung /\ pc[p] = "idle"
  /\ Got(getblk(k, blk), p, [blk |-> blk, ahead |-> ahead, read |-> read])
  /\ UNCHANGED <<behind, hung>>

\* tsleep() returns, and getblk() starts over.
ResumeGetblk(p) ==
  /\ ~hung /\ pc[p] = "getblk" /\ wchan[p] = NoChan
  /\ IF hold[p] = NoBuf THEN Got(getblk(k, call[p].blk), p, call[p])
     ELSE GotAhead(getblk(k, call[p].ahead), p, call[p], hold[p])
  /\ UNCHANGED <<behind, hung>>

\* VOP_STRATEGY() returns to getnewbuf(), which goes on looking for a buffer.
ResumeStrategy(p) ==
  /\ ~hung /\ pc[p] = "strategy"
  /\ IF hold[p] = NoBuf THEN Got(getnewbuf(k, call[p].blk), p, call[p])
     ELSE GotAhead(getnewbuf(k, call[p].ahead), p, call[p], hold[p])
  /\ UNCHANGED <<behind, hung>>

\* A signal ends the wait for a busy buffer in a getblk() that allows it.
Interrupt(p) ==
  /\ ~hung /\ pc[p] = "getblk" /\ wchan[p] \in Buf /\ ~call[p].read
  /\ Do(k, p, "idle", NoChan, NoCall, NoBuf)
  /\ UNCHANGED <<behind, hung>>

ResumeBiowait(p) ==
  /\ ~hung /\ pc[p] = "biowait" /\ wchan[p] = NoChan
  /\ biowait(k, p, hold[p])
  /\ UNCHANGED <<behind, hung>>

\* The block of the buffer p holds.
Blk(p) == k.buf[hold[p]].blk

Brelse(p) ==
  /\ ~hung /\ pc[p] = "hold"
  /\ Do(brelse(k, hold[p]), p, "idle", NoChan, NoCall, NoBuf)
  /\ UNCHANGED <<behind, hung>>

\* brelse() with B_INVAL: the contents are given up, written or not.
Discard(p) ==
  /\ ~hung /\ pc[p] = "hold"
  /\ behind' = behind \ {Blk(p)}
  /\ Do(brelse(SetFlags(k, hold[p], {"INVAL"}), hold[p]), p, "idle", NoChan, NoCall, NoBuf)
  /\ UNCHANGED hung

\* p changes the contents, or fills a buffer that it did not read; any other copy
\* is behind from now on.
Modified(p) ==
  [k EXCEPT !.buf = [b \in Buf |->
     IF b = hold[p] THEN [k.buf[b] EXCEPT !.cur = @ \/ ~Valid(k, b)]
     ELSE IF k.buf[b].blk = Blk(p) THEN [k.buf[b] EXCEPT !.cur = FALSE] ELSE k.buf[b]]]

Writes(p) ==
  /\ ~hung /\ pc[p] = "hold" /\ ~Is(k, hold[p], "ERROR")
  /\ behind' = behind \cup {Blk(p)}
  /\ UNCHANGED hung

\* Deliberate fault: the buffer is released without being marked.
BdwriteClean(p) ==
  /\ Writes(p)
  /\ Do(brelse(SetFlags(Modified(p), hold[p], {"DONE"}), hold[p]), p, "idle", NoChan, NoCall, NoBuf)

Bdwrite(p) ==
  /\ Writes(p)
  /\ Do(brelse(SetFlags(Modified(p), hold[p], {"DELWRI", "DONE"}), hold[p]),
        p, "idle", NoChan, NoCall, NoBuf)

Bawrite(p) ==
  /\ Writes(p)
  /\ Do(bawrite(Modified(p), hold[p]), p, "idle", NoChan, NoCall, NoBuf)

Bwrite(p) ==
  /\ Writes(p)
  /\ Do(StartWrite(Modified(p), hold[p]), p, "bwrite", hold[p], NoCall, hold[p])

ResumeBwrite(p) ==
  /\ ~hung /\ pc[p] = "bwrite" /\ wchan[p] = NoChan
  /\ IF Is(k, hold[p], "DONE") THEN Do(brelse(k, hold[p]), p, "idle", NoChan, NoCall, NoBuf)
     ELSE Do(k, p, "bwrite", hold[p], NoCall, hold[p])
  /\ UNCHANGED <<behind, hung>>

-----------------------------------------------------------------------------
(* Flushing and discarding the buffers of the vnode.                        *)

Dirty(c) == {b \in Buf : c.buf[b].blk # NoBlock /\ Is(c, b, "DELWRI")}
Clean(c) == {b \in Buf : c.buf[b].blk # NoBlock /\ ~Is(c, b, "DELWRI")}
Busy(c)  == {b \in Buf : Is(c, b, "BUSY")}

\* The writes vflushbuf() starts: the buffers stay where they are on the free lists.
FlushAll(c) ==
  LET S == Dirty(c) \ Busy(c)
  IN  [c EXCEPT !.buf = [b \in Buf |->
                   IF b \notin S THEN c.buf[b]
                   ELSE [c.buf[b] EXCEPT !.flags = (@ \ {"READ", "DONE", "ERROR", "DELWRI"})
                                                     \cup {"BUSY", "VFLUSH", "ASYNC"}]],
                !.numoutput = @ + Cardinality(S), !.io = @ \cup S]

\* vflushbuf() from its label loop.  Buffers that somebody has are passed over; if
\* these are all that is left and no output is, the loop never sleeps.
FlushLoop(p, sync) ==
  LET c == FlushAll(k)
      stuck == sync /\ c.numoutput = 0 /\ Dirty(c) # {}
  IN  /\ IF sync /\ c.numoutput > 0
         THEN Do([c EXCEPT !.vbwait = TRUE], p, "vflush", NumOutput, NoCall, NoBuf)
         ELSE Do(c, p, "idle", NoChan, NoCall, NoBuf)
      /\ hung' = stuck
      /\ UNCHANGED behind

Vflushbuf(p, sync) == ~hung /\ pc[p] = "idle" /\ p \in Flushers /\ FlushLoop(p, sync)

\* Deliberate fault: the first wakeup ends the wait.
ResumeFlushOnce(p) ==
  /\ ~hung /\ pc[p] = "vflush" /\ wchan[p] = NoChan
  /\ Do(k, p, "idle", NoChan, NoCall, NoBuf)
  /\ UNCHANGED <<behind, hung>>

ResumeFlush(p) ==
  /\ ~hung /\ pc[p] = "vflush" /\ wchan[p] = NoChan
  /\ IF k.numoutput > 0
     THEN /\ Do([k EXCEPT !.vbwait = TRUE], p, "vflush", NumOutput, NoCall, NoBuf)
          /\ UNCHANGED <<behind, hung>>
     ELSE FlushLoop(p, TRUE)

\* brelse() of the buffers in order, each marked invalid where it stands.
Invalidate(c, order) ==
  LET loop[n \in 0 .. Len(order)] ==
        IF n = 0 THEN c
        ELSE brelse(SetFlags(loop[n - 1], order[n], {"BUSY", "VFLUSH", "INVAL"}), order[n])
  IN  loop[Len(order)]

\* vinvalbuf() without V_SAVE, from the head of its loop: the clean list, then the
\* dirty one, up to the first buffer that somebody has.
InvalLoop(p) ==
  LET front == IF Clean(k) \cap Busy(k) # {} THEN {} ELSE Clean(k)
      list  == IF Clean(k) \cap Busy(k) # {} THEN Clean(k) ELSE Dirty(k)
      inWay == list \cap Busy(k)
  IN  \E S \in SUBSET (list \ Busy(k)) : \E order \in SetToSeqs(front \cup S) :
        LET c == Invalidate(k, order)
        IN  /\ inWay = {} => S = list
            /\ behind' = behind \ {k.buf[x].blk : x \in S}
            /\ \/ /\ inWay = {}
                  /\ Do(c, p, "idle", NoChan, NoCall, NoBuf)
               \/ \E b \in inWay : Do(SetFlags(c, b, {"WANTED"}), p, "vinval", b, NoCall, NoBuf)
            /\ UNCHANGED hung

Vinvalbuf(p) == ~hung /\ pc[p] = "idle" /\ p \in Flushers /\ InvalLoop(p)

ResumeInval(p) == ~hung /\ pc[p] = "vinval" /\ wchan[p] = NoChan /\ InvalLoop(p)

-----------------------------------------------------------------------------
(* The end of a transfer.                                                   *)

\* vwakeup(): one write less under way.
vwakeup(c) ==
  LET last == c.numoutput = 1 /\ c.vbwait
  IN  [c EXCEPT !.numoutput = @ - 1,
                !.vbwait = @ /\ ~last,
                !.wake = IF last THEN @ \cup {NumOutput} ELSE @]

\* Deliberate fault: whoever waits for the transfer is not woken.
biodoneMute(c, b) == IF Is(c, b, "ASYNC") THEN brelse(c, b) ELSE ClrFlags(c, b, {"WANTED"})

\* biodone() after the count: an asynchronous transfer releases the buffer.
biodone(c, b) ==
  IF Is(c, b, "ASYNC") THEN brelse(c, b)
  ELSE [ClrFlags(c, b, {"WANTED"}) EXCEPT !.wake = @ \cup {b}]

Transfer(b, ok) ==
  LET read == Is(k, b, "READ")
      blk == k.buf[b].blk
      c == [SetFlags(k, b, {"DONE"} \cup IF ok THEN {} ELSE {"ERROR"})
              EXCEPT !.io = @ \ {b}, !.buf[b].cur = IF read THEN blk \notin behind \/ ~ok ELSE @]
      d == biodone(IF read THEN c ELSE vwakeup(c), b)
  IN  /\ ~hung /\ b \in k.io /\ (ok \/ Errors)
      /\ k' = [d EXCEPT !.wake = {}]
      /\ wchan' = [q \in Proc |-> IF wchan[q] \in d.wake THEN NoChan ELSE wchan[q]]
      \* a write that fails is lost, and what the disk has counts
      /\ behind' = IF read THEN behind
                   ELSE IF ok /\ ~k.buf[b].cur THEN behind \cup {blk} ELSE behind \ {blk}
      /\ UNCHANGED <<pc, call, hold, hung>>

Next ==
  \/ \E p \in Proc :
       \/ \E blk \in Block, read \in BOOLEAN : Getblk(p, blk, read, NoBlock)
       \/ \E ra \in ReadAhead[p] : Getblk(p, ra[1], TRUE, ra[2])
       \/ ResumeGetblk(p)
       \/ Interrupt(p)
       \/ ResumeBiowait(p)
       \/ Brelse(p)
       \/ Discard(p)
       \/ Bdwrite(p)
       \/ Bawrite(p)
       \/ Bwrite(p)
       \/ ResumeBwrite(p)
       \/ \E sync \in BOOLEAN : Vflushbuf(p, sync)
       \/ ResumeFlush(p)
       \/ Vinvalbuf(p)
       \/ ResumeInval(p)
  \/ \E b \in Buf, ok \in BOOLEAN : Transfer(b, ok)

Spec == Init /\ [][Next]_vars

\* With device or file systems whose VOP_STRATEGY() may block.
SleepySpec == Init /\ [][Next \/ \E p \in Proc : ResumeStrategy(p)]_vars

-----------------------------------------------------------------------------
(* Properties.                                                              *)

\* The cache is well formed, and v_numoutput, which fsync() waits for, is exactly the
\* number of writes of the vnode that are under way.
TypeOK ==
  /\ \A b \in Buf : /\ k.buf[b].blk \in Block \cup {NoBlock}
                    /\ k.buf[b].flags \subseteq Flag
                    /\ k.buf[b].cur \in BOOLEAN
  /\ k.io \subseteq Buf /\ k.wake = {}
  /\ k.numoutput = Cardinality({b \in k.io : ~Is(k, b, "READ")})
  /\ \A p \in Proc : wchan[p] \in Buf \cup {NeedBuffer, NumOutput, NoChan} /\ hold[p] \in Buf \cup {NoBuf}

\* getblk() never creates a second buffer for a block, though it forgets what it
\* saw of the hash chain whenever it sleeps.
OneBuffer == \A blk \in Block : Cardinality(Named(k, blk)) <= 1

\* A buffer is on the free lists once if nobody has it or if it is being flushed in
\* place, and not at all otherwise: bremfree() always finds what it removes.
FreeListsExact ==
  \A b \in Buf :
    Cardinality({i \in 1 .. Len(k.age) : k.age[i] = b})
      + Cardinality({i \in 1 .. Len(k.lru) : k.lru[i] = b}) =
      IF ~Is(k, b, "BUSY") \/ Is(k, b, "VFLUSH") THEN 1 ELSE 0

\* A busy buffer has exactly one owner that will release it: the process that was
\* given it, or the end of an asynchronous transfer, of which there is one.
OneOwner ==
  \A b \in Buf :
    LET holders == {p \in Proc : hold[p] = b}
    IN  /\ Is(k, b, "BUSY") => Cardinality(holders) + (IF Is(k, b, "ASYNC") THEN 1 ELSE 0) = 1
        /\ ~Is(k, b, "BUSY") => holders = {} /\ b \notin k.io
        /\ Is(k, b, "ASYNC") => b \in k.io
        /\ b \in k.io => ~Is(k, b, "DONE")

\* Whoever sleeps is remembered by what will wake it: B_WANTED of a busy buffer, the
\* transfer it waits for, needbuffer while no buffer can be had, VBWAIT while output
\* is under way.
SleepersRemembered ==
  \A p \in Proc :
    CASE wchan[p] \in Buf /\ pc[p] \in {"getblk", "vinval"} ->
           Is(k, wchan[p], "BUSY") /\ Is(k, wchan[p], "WANTED")
      [] wchan[p] \in Buf /\ pc[p] \notin {"getblk", "vinval"} ->
           wchan[p] = hold[p] /\ wchan[p] \in k.io /\ ~Is(k, wchan[p], "ASYNC")
      [] wchan[p] = NeedBuffer -> k.needbuffer /\ k.age \o k.lru = <<>>
      [] wchan[p] = NumOutput -> k.vbwait /\ k.numoutput > 0
      [] OTHER -> TRUE

\* The cache never hides or loses a write: the valid buffer of a block has what was
\* last written to it, and without one the disk has.
Coherent ==
  \A blk \in Block :
    LET copies == {b \in Named(k, blk) : /\ ~Is(k, b, "ERROR")
                                         /\ Valid(k, b) \/ (b \in k.io /\ ~Is(k, b, "READ"))}
    IN  IF copies = {} THEN blk \notin behind ELSE \A b \in copies : k.buf[b].cur

\* When vflushbuf() has waited and returns, all that was written to the vnode is on
\* the disk, whatever was started or released meanwhile.
FlushDurable ==
  [][\A p \in Proc : pc[p] = "vflush" /\ pc'[p] = "idle" /\ ~hung' => behind' = {}]_vars

\* Every block has at most one buffer and every buffer one place to be: on a free list
\* or with the one owner that will release it, with v_numoutput counting the writes.
BuffersExact == TypeOK /\ OneBuffer /\ FreeListsExact /\ OneOwner
=============================================================================
