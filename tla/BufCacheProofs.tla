--------------------------- MODULE BufCacheProofs ---------------------------
(***************************************************************************)
(* Proofs about the buffer cache, for any number of processes, buffers and *)
(* blocks, any requests and any errors.                                    *)
(***************************************************************************)
EXTENDS BufCache, FiniteSetTheorems, FunctionTheorems, TLAPS

(* A list of buffers has b; it has no buffer twice.                         *)
In(s, b) == \E i \in 1 .. Len(s) : s[i] = b
Once(s)  == \A i, j \in 1 .. Len(s) : s[i] = s[j] => i = j

Buffer == [blk : Block \cup {NoBlock}, flags : SUBSET Flag, cur : BOOLEAN]

Cache ==
  [buf : [Buf -> Buffer], age : Seq(Buf), lru : Seq(Buf), needbuffer : BOOLEAN,
   numoutput : Int, vbwait : BOOLEAN, io : SUBSET Buf,
   wake : SUBSET (Buf \cup {NeedBuffer, NumOutput})]

(* b is on a free list.                                                     *)
On(c, b) == In(c.age, b) \/ In(c.lru, b)

Lists(c) ==
  /\ Once(c.age) /\ Once(c.lru)
  /\ \A b \in Buf : ~(In(c.age, b) /\ In(c.lru, b))

Writing(c) == {b \in c.io : ~Is(c, b, "READ")}

(* The state of one buffer, which a process holds or not.                   *)
BufOK(c, b, held) ==
  /\ On(c, b) <=> ~Is(c, b, "BUSY") \/ Is(c, b, "VFLUSH")
  /\ Is(c, b, "BUSY") => (held <=> ~Is(c, b, "ASYNC")) /\ c.buf[b].blk # NoBlock
  /\ ~Is(c, b, "BUSY") => ~held /\ b \notin c.io
  /\ Is(c, b, "ASYNC") => b \in c.io
  /\ Is(c, b, "VFLUSH") => Is(c, b, "ASYNC")
  /\ b \in c.io => ~Is(c, b, "DONE") /\ ~Is(c, b, "DELWRI")
  /\ Is(c, b, "DELWRI") => c.buf[b].blk # NoBlock
  /\ Is(c, b, "INVAL") => c.buf[b].blk = NoBlock

(* No block has two buffers.                                                *)
Named1(c) == \A b, x \in Buf : c.buf[b].blk = c.buf[x].blk /\ c.buf[b].blk # NoBlock => b = x

(* The cache while processes hold the buffers H, but for the buffer b.      *)
OthersOK(c, H, b) ==
  /\ c \in Cache /\ Lists(c) /\ Named1(c)
  /\ c.numoutput = Cardinality(Writing(c))
  /\ \A x \in Buf : x # b => BufOK(c, x, x \in H)

(* The cache while processes hold the buffers H.                            *)
CacheOK(c, H) ==
  /\ c \in Cache /\ Lists(c) /\ Named1(c)
  /\ c.numoutput = Cardinality(Writing(c))
  /\ \A b \in Buf : BufOK(c, b, b \in H)

(* The buffer has, or will have once written, the last modification.        *)
Copy(c, b) == ~Is(c, b, "ERROR") /\ (Valid(c, b) \/ (b \in c.io /\ ~Is(c, b, "READ")))
Unsaved(c, b) == ~Is(c, b, "ERROR") /\ (Is(c, b, "DELWRI") \/ (b \in c.io /\ ~Is(c, b, "READ")))

(* While the blocks B are not on the disk.                                  *)
CopiesOK(c, B) ==
  /\ \A b \in Buf : c.buf[b].blk # NoBlock /\ Copy(c, b) => c.buf[b].cur
  /\ \A b \in Buf : Is(c, b, "DELWRI") \/ b \in Writing(c) => ~Is(c, b, "ERROR")
  /\ \A blk \in B : \E b \in Buf : c.buf[b].blk = blk /\ Unsaved(c, b)

Held == {hold[p] : p \in Proc} \ {NoBuf}

Remembered(c, at, ch, h) ==
  /\ ch \in Buf /\ at \in {"getblk", "vinval"} => Is(c, ch, "BUSY") /\ Is(c, ch, "WANTED")
  /\ ch \in Buf /\ at \notin {"getblk", "vinval"} => ch = h /\ ch \in c.io /\ ~Is(c, ch, "ASYNC")
  /\ ch = NeedBuffer => c.needbuffer /\ c.age = <<>> /\ c.lru = <<>>
  /\ ch = NumOutput => c.vbwait /\ c.numoutput > 0

Places == {"idle", "vflush", "vinval", "getblk", "hold", "biowait", "bwrite"}

ProcOK(c, at, ch, cl, h) ==
  /\ ch \in Buf \cup {NeedBuffer, NumOutput, NoChan} /\ h \in Buf \cup {NoBuf}
  /\ at \in Places
  /\ at \in {"idle", "vflush", "vinval"} => h = NoBuf
  /\ at \in {"hold", "biowait", "bwrite"} => h \in Buf
  /\ at = "hold" => h \notin c.io
  /\ at = "bwrite" => h \in c.io \/ Is(c, h, "DONE")
  /\ at = "biowait" \/ (at = "getblk" /\ h # NoBuf) => h \in c.io \/ Valid(c, h)
  /\ at = "getblk" => /\ cl.blk \in Block /\ cl.ahead \in Block \cup {NoBlock}
                      /\ h # NoBuf => cl.read /\ cl.ahead # NoBlock

(* The place of a process is in order, and its sleep is remembered.         *)
Placed(c, at, ch, cl, h) == ProcOK(c, at, ch, cl, h) /\ Remembered(c, at, ch, h)

Inv ==
  /\ CacheOK(k, Held) /\ k.wake = {}
  /\ \A p, q \in Proc : hold[p] = hold[q] /\ hold[p] # NoBuf => p = q
  /\ pc \in [Proc -> Places] /\ wchan \in [Proc -> Buf \cup {NeedBuffer, NumOutput, NoChan}]
  /\ hold \in [Proc -> Buf \cup {NoBuf}] /\ DOMAIN call = Proc
  /\ \A p \in Proc : Placed(k, pc[p], wchan[p], call[p], hold[p])
  /\ CopiesOK(k, behind)
-----------------------------------------------------------------------------
(* The free lists.                                                          *)

(* TAILQ_REMOVE() takes the buffer off, and nothing else.                   *)
LEMMA RemovedList ==
  ASSUME NEW s \in Seq(Buf), Once(s), NEW b
  PROVE  /\ Removed(s, b) \in Seq(Buf) /\ Once(Removed(s, b))
         /\ \A x : In(Removed(s, b), x) <=> In(s, x) /\ x # b
         /\ Len(Removed(s, b)) = IF In(s, b) THEN Len(s) - 1 ELSE Len(s)
<1> DEFINE S == {i \in 1 .. Len(s) : s[i] = b}
<1>1. CASE S = {}
  <2>1. Removed(s, b) = s
    BY <1>1 DEF Removed
  <2>2. ~In(s, b)
    BY <1>1 DEF In
  <2> QED
    BY <2>1, <2>2
<1>2. CASE S # {}
  <2> DEFINE n == CHOOSE i \in S : TRUE
             a == SubSeq(s, 1, n - 1)
             z == SubSeq(s, n + 1, Len(s))
             r == a \o z
  <2>1. n \in S
    BY <1>2
  <2>2. n \in 1 .. Len(s) /\ s[n] = b /\ Len(s) \in Nat
    BY <2>1
  <2>3. Removed(s, b) = r
    BY <1>2 DEF Removed, RemoveAt
  <2> HIDE DEF n
  <2>4. a \in Seq(Buf) /\ Len(a) = n - 1 /\ \A i \in 1 .. n - 1 : a[i] = s[i]
    BY <2>2
  <2>5. z \in Seq(Buf) /\ Len(z) = Len(s) - n /\ \A i \in 1 .. Len(s) - n : z[i] = s[n + i]
    BY <2>2
  <2> HIDE DEF a, z
  <2>6. r \in Seq(Buf) /\ Len(r) = Len(s) - 1
    <3>1. r \in Seq(Buf) /\ Len(r) = Len(a) + Len(z)
      BY <2>4, <2>5, SMTT(60)
    <3> QED
      BY <2>2, <2>4, <2>5, <3>1
  <2>7. \A i \in 1 .. Len(s) - 1 : r[i] = IF i < n THEN s[i] ELSE s[i + 1]
    <3> TAKE i \in 1 .. Len(s) - 1
    <3>1. CASE i < n
      BY <2>2, <2>4, <2>5, <3>1
    <3>2. CASE ~(i < n)
      <4>1. i - (n - 1) \in 1 .. Len(s) - n /\ r[i] = z[i - (n - 1)]
        BY <2>2, <2>4, <2>5, <3>2
      <4>2. z[i - (n - 1)] = s[n + (i - (n - 1))]
        BY <2>5, <4>1
      <4> QED
        BY <2>2, <3>2, <4>1, <4>2
    <3> QED
      BY <3>1, <3>2
  <2> HIDE DEF r
  <2>8. Once(r)
    BY <2>2, <2>6, <2>7, Once(s) DEF Once
  <2>9. ASSUME NEW x PROVE In(r, x) <=> In(s, x) /\ x # b
    <3>1. ASSUME In(r, x) PROVE In(s, x) /\ x # b
      <4>1. PICK i \in 1 .. Len(s) - 1 : r[i] = x
        BY <2>6, <3>1 DEF In
      <4>2. PICK j \in 1 .. Len(s) : s[j] = x /\ j # n
        BY <2>2, <2>7, <4>1
      <4> QED
        BY <2>2, <4>2, Once(s) DEF In, Once
    <3>2. ASSUME In(s, x), x # b PROVE In(r, x)
      <4>1. PICK j \in 1 .. Len(s) : s[j] = x
        BY <3>2 DEF In
      <4>2. j # n
        BY <2>2, <3>2, <4>1
      <4>3. PICK i \in 1 .. Len(s) - 1 : j = IF i < n THEN i ELSE i + 1
        <5>1. CASE j < n
          <6>1. j \in 1 .. Len(s) - 1
            BY <2>2, <5>1
          <6> QED
            BY <5>1, <6>1
        <5>2. CASE j > n
          <6>1. j - 1 \in 1 .. Len(s) - 1 /\ ~(j - 1 < n) /\ j = (j - 1) + 1
            BY <2>2, <5>2
          <6> QED
            BY <6>1
        <5> QED
          BY <2>2, <4>2, <5>1, <5>2
      <4> QED
        BY <2>6, <2>7, <4>1, <4>3 DEF In
    <3> QED
      BY <3>1, <3>2
  <2>10. In(s, b)
    BY <2>2 DEF In
  <2> QED
    BY <2>3, <2>6, <2>8, <2>9, <2>10
<1> QED
  BY <1>1, <1>2

(* One more at the end of a list.                                           *)
LEMMA AppendList ==
  ASSUME NEW s \in Seq(Buf), Once(s), NEW b \in Buf, ~In(s, b)
  PROVE  /\ Append(s, b) \in Seq(Buf) /\ Once(Append(s, b))
         /\ \A x : In(Append(s, b), x) <=> In(s, x) \/ x = b
<1> DEFINE r == Append(s, b)
<1>1. /\ r \in Seq(Buf) /\ Len(r) = Len(s) + 1 /\ Len(s) \in Nat
      /\ r[Len(s) + 1] = b /\ \A i \in 1 .. Len(s) : r[i] = s[i]
  OBVIOUS
<1> HIDE DEF r
<1>2. Once(r)
  BY <1>1, Once(s), ~In(s, b) DEF Once, In
<1>3. \A x : In(r, x) <=> In(s, x) \/ x = b
  <2>1. \A i \in 1 .. Len(s) + 1 : i \in 1 .. Len(s) \/ i = Len(s) + 1
    BY <1>1
  <2>2. 1 .. Len(s) \subseteq 1 .. Len(s) + 1 /\ Len(s) + 1 \in 1 .. Len(s) + 1
    BY <1>1
  <2> QED
    BY <1>1, <2>1, <2>2 DEF In
<1> QED
  BY <1>1, <1>2, <1>3 DEF r

(* One more at the head.                                                    *)
LEMMA HeadList ==
  ASSUME NEW s \in Seq(Buf), Once(s), NEW b \in Buf, ~In(s, b)
  PROVE  /\ <<b>> \o s \in Seq(Buf) /\ Once(<<b>> \o s)
         /\ \A x : In(<<b>> \o s, x) <=> In(s, x) \/ x = b
<1> DEFINE r == <<b>> \o s
<1>1. /\ r \in Seq(Buf) /\ Len(r) = Len(s) + 1 /\ Len(s) \in Nat
      /\ r[1] = b /\ \A i \in 1 .. Len(s) : r[i + 1] = s[i]
  OBVIOUS
<1> HIDE DEF r
<1>2. \A i \in 1 .. Len(s) + 1 : i = 1 \/ (i - 1 \in 1 .. Len(s) /\ r[i] = s[i - 1])
  <2> TAKE i \in 1 .. Len(s) + 1
  <2>1. CASE i # 1
    <3>1. i - 1 \in 1 .. Len(s) /\ (i - 1) + 1 = i
      BY <1>1, <2>1
    <3> QED
      BY <1>1, <3>1
  <2> QED
    BY <2>1
<1>3. Once(r)
  <2> SUFFICES ASSUME NEW i \in 1 .. Len(s) + 1, NEW j \in 1 .. Len(s) + 1, r[i] = r[j]
               PROVE  i = j
    BY <1>1 DEF Once
  <2>1. CASE i = 1
    BY <1>1, <1>2, <2>1, ~In(s, b) DEF In
  <2>2. CASE j = 1
    BY <1>1, <1>2, <2>2, ~In(s, b) DEF In
  <2>3. CASE i # 1 /\ j # 1
    <3>1. i - 1 = j - 1
      BY <1>2, <2>3, Once(s) DEF Once
    <3> QED
      BY <1>1, <3>1
  <2> QED
    BY <2>1, <2>2, <2>3
<1>4. ASSUME NEW x PROVE In(r, x) <=> In(s, x) \/ x = b
  <2>1. ASSUME In(r, x) PROVE In(s, x) \/ x = b
    BY <1>1, <1>2, <2>1 DEF In
  <2>2. In(r, b)
    <3>1. 1 \in 1 .. Len(s) + 1
      BY <1>1
    <3> QED
      BY <1>1, <3>1 DEF In
  <2>3. ASSUME In(s, x) PROVE In(r, x)
    <3>1. PICK i \in 1 .. Len(s) : s[i] = x
      BY <2>3 DEF In
    <3>2. i + 1 \in 1 .. Len(s) + 1 /\ r[i + 1] = x
      BY <1>1, <3>1
    <3> QED
      BY <1>1, <3>2 DEF In
  <2> QED
    BY <2>1, <2>2, <2>3
<1> QED
  BY <1>1, <1>3, <1>4 DEF r

(* The first buffer of the two lists.                                       *)
LEMMA FirstFree ==
  ASSUME NEW a \in Seq(Buf), NEW z \in Seq(Buf)
  PROVE  /\ a \o z = <<>> <=> a = <<>> /\ z = <<>>
         /\ a \o z # <<>> => /\ Head(a \o z) \in Buf
                             /\ In(a, Head(a \o z)) \/ In(z, Head(a \o z))
<1>1. CASE a = <<>>
  <2>1. a \o z = z
    BY <1>1
  <2>2. z # <<>> => Head(z) = z[1] /\ 1 \in 1 .. Len(z) /\ z[1] \in Buf
    OBVIOUS
  <2> QED
    BY <1>1, <2>1, <2>2 DEF In
<1>2. CASE a # <<>>
  <2>1. a \o z # <<>> /\ Head(a \o z) = a[1] /\ 1 \in 1 .. Len(a) /\ a[1] \in Buf
    BY <1>2
  <2> QED
    BY <1>2, <2>1 DEF In
<1> QED
  BY <1>1, <1>2
-----------------------------------------------------------------------------
(* What the operations change.                                              *)

(* The fields of the cache besides the buffers are the same.                *)
SameRest(c, d) ==
  /\ d.age = c.age /\ d.lru = c.lru /\ d.needbuffer = c.needbuffer
  /\ d.numoutput = c.numoutput /\ d.vbwait = c.vbwait /\ d.io = c.io /\ d.wake = c.wake

(* b is y now, the other buffers are what they were.                        *)
Becomes(c, d, b, y) ==
  /\ d.buf[b] = y
  /\ \A x \in Buf : x # b => d.buf[x] = c.buf[x]

(* The types of the parts of a cache.                                       *)
LEMMA CacheType ==
  ASSUME NEW c \in Cache
  PROVE  /\ c.buf \in [Buf -> Buffer] /\ c.age \in Seq(Buf) /\ c.lru \in Seq(Buf)
         /\ c.needbuffer \in BOOLEAN /\ c.numoutput \in Int /\ c.vbwait \in BOOLEAN
         /\ c.io \in SUBSET Buf /\ c.wake \in SUBSET (Buf \cup {NeedBuffer, NumOutput})
         /\ \A b \in Buf : /\ c.buf[b] \in Buffer /\ c.buf[b].flags \in SUBSET Flag
                           /\ c.buf[b].blk \in Block \cup {NoBlock} /\ c.buf[b].cur \in BOOLEAN
<1>1. c.buf \in [Buf -> Buffer]
  BY DEF Cache
<1>2. \A b \in Buf : c.buf[b] \in Buffer
  BY <1>1
<1>3. \A b \in Buf : /\ c.buf[b].flags \in SUBSET Flag
                     /\ c.buf[b].blk \in Block \cup {NoBlock} /\ c.buf[b].cur \in BOOLEAN
  BY <1>2 DEF Buffer
<1> QED
  BY <1>1, <1>2, <1>3 DEF Cache

(* One buffer is replaced.                                                  *)
LEMMA WithIs ==
  ASSUME NEW c \in Cache, NEW b \in Buf, NEW y \in Buffer,
         NEW d, d = [c EXCEPT !.buf = [c.buf EXCEPT ![b] = y]]
  PROVE  d \in Cache /\ Becomes(c, d, b, y) /\ SameRest(c, d)
<1> DEFINE B == [c.buf EXCEPT ![b] = y]
<1>1. B \in [Buf -> Buffer] /\ B[b] = y /\ \A x \in Buf : x # b => B[x] = c.buf[x]
  BY CacheType
<1> HIDE DEF B
<1>2. d = [c EXCEPT !.buf = B]
  BY DEF B
<1>3. d \in Cache /\ d.buf = B
  BY <1>1, <1>2 DEF Cache
<1>4. SameRest(c, d)
  BY <1>2 DEF SameRest, Cache
<1> QED
  BY <1>1, <1>3, <1>4 DEF Becomes

(* A buffer with other flags.                                               *)
Flagged(x, F) == [x EXCEPT !.flags = F]

(* It is a buffer, with its name and its contents.                          *)
LEMMA FlaggedIs ==
  ASSUME NEW x \in Buffer, NEW F \in SUBSET Flag
  PROVE  /\ Flagged(x, F) \in Buffer /\ Flagged(x, F).flags = F
         /\ Flagged(x, F).blk = x.blk /\ Flagged(x, F).cur = x.cur
BY DEF Flagged, Buffer

(* SET() changes the flags of one buffer.                                   *)
LEMMA SetFlagsIs ==
  ASSUME NEW c \in Cache, NEW b \in Buf, NEW F \in SUBSET Flag
  PROVE  /\ SetFlags(c, b, F) \in Cache /\ SameRest(c, SetFlags(c, b, F))
         /\ Becomes(c, SetFlags(c, b, F), b, Flagged(c.buf[b], c.buf[b].flags \cup F))
<1>1. SetFlags(c, b, F) = [c EXCEPT !.buf = [c.buf EXCEPT ![b] = Flagged(c.buf[b], c.buf[b].flags \cup F)]]
  BY Zenon DEF SetFlags, Flagged
<1>2. Flagged(c.buf[b], c.buf[b].flags \cup F) \in Buffer
  BY CacheType, FlaggedIs
<1> QED
  BY <1>1, <1>2, WithIs

(* So does CLR().                                                           *)
LEMMA ClrFlagsIs ==
  ASSUME NEW c \in Cache, NEW b \in Buf, NEW F
  PROVE  /\ ClrFlags(c, b, F) \in Cache /\ SameRest(c, ClrFlags(c, b, F))
         /\ Becomes(c, ClrFlags(c, b, F), b, Flagged(c.buf[b], c.buf[b].flags \ F))
<1>1. ClrFlags(c, b, F) = [c EXCEPT !.buf = [c.buf EXCEPT ![b] = Flagged(c.buf[b], c.buf[b].flags \ F)]]
  BY Zenon DEF ClrFlags, Flagged
<1>2. Flagged(c.buf[b], c.buf[b].flags \ F) \in Buffer
  BY CacheType, FlaggedIs
<1> QED
  BY <1>1, <1>2, WithIs

(* The number of buffers on the free lists.                                 *)
Free(c) == Len(c.age) + Len(c.lru)

(* d is c with b taken off the free lists.                                  *)
Unlinked(c, d, b) ==
  /\ d \in Cache /\ Lists(d) /\ d.buf = c.buf /\ d.needbuffer = c.needbuffer
  /\ d.numoutput = c.numoutput /\ d.vbwait = c.vbwait /\ d.io = c.io /\ d.wake = c.wake
  /\ \A x \in Buf : On(d, x) <=> On(c, x) /\ x # b
  /\ c.age = <<>> /\ c.lru = <<>> => d.age = <<>> /\ d.lru = <<>>
  /\ On(c, b) => Free(d) = Free(c) - 1

(* bremfree() does so.                                                      *)
LEMMA BremfreeIs ==
  ASSUME NEW c \in Cache, Lists(c), NEW b \in Buf, NEW d, d = bremfree(c, b)
  PROVE  Unlinked(c, d, b)
<1>1. c.age \in Seq(Buf) /\ c.lru \in Seq(Buf) /\ Once(c.age) /\ Once(c.lru)
  BY CacheType DEF Lists
<1> DEFINE a == Removed(c.age, b)
           z == Removed(c.lru, b)
<1>2. /\ a \in Seq(Buf) /\ Once(a) /\ \A x : In(a, x) <=> In(c.age, x) /\ x # b
      /\ Len(a) = IF In(c.age, b) THEN Len(c.age) - 1 ELSE Len(c.age)
  BY <1>1, RemovedList
<1>3. /\ z \in Seq(Buf) /\ Once(z) /\ \A x : In(z, x) <=> In(c.lru, x) /\ x # b
      /\ Len(z) = IF In(c.lru, b) THEN Len(c.lru) - 1 ELSE Len(c.lru)
  BY <1>1, RemovedList
<1>4. d = [c EXCEPT !.age = a, !.lru = z]
  BY DEF bremfree
<1>5. \A s \in Seq(Buf) : s = <<>> => Removed(s, b) = <<>>
  BY DEF Removed
<1> HIDE DEF a, z
<1>6. /\ d \in Cache /\ d.age = a /\ d.lru = z /\ d.buf = c.buf /\ d.needbuffer = c.needbuffer
      /\ d.numoutput = c.numoutput /\ d.vbwait = c.vbwait /\ d.io = c.io /\ d.wake = c.wake
  BY <1>2, <1>3, <1>4 DEF Cache
<1>7. Lists(d)
  BY <1>2, <1>3, <1>6 DEF Lists
<1>8. \A x \in Buf : On(d, x) <=> On(c, x) /\ x # b
  BY <1>2, <1>3, <1>6 DEF On
<1>9. c.age = <<>> /\ c.lru = <<>> => d.age = <<>> /\ d.lru = <<>>
  BY <1>1, <1>5, <1>6 DEF a, z
<1>10. On(c, b) => Free(d) = Free(c) - 1
  <2>1. Len(c.age) \in Nat /\ Len(c.lru) \in Nat
    BY <1>1
  <2>2. ~(In(c.age, b) /\ In(c.lru, b))
    BY DEF Lists
  <2>3. ASSUME In(c.age, b) PROVE Len(a) + Len(z) = (Len(c.age) + Len(c.lru)) - 1
    <3>1. Len(a) = Len(c.age) - 1 /\ Len(z) = Len(c.lru)
      BY <1>2, <1>3, <2>2, <2>3
    <3> QED
      BY <2>1, <3>1
  <2>4. ASSUME In(c.lru, b) PROVE Len(a) + Len(z) = (Len(c.age) + Len(c.lru)) - 1
    <3>1. Len(a) = Len(c.age) /\ Len(z) = Len(c.lru) - 1
      BY <1>2, <1>3, <2>2, <2>4
    <3> QED
      BY <2>1, <3>1
  <2> QED
    BY <1>6, <2>3, <2>4 DEF On, Free
<1> QED
  BY <1>6, <1>7, <1>8, <1>9, <1>10 DEF Unlinked

(* d is c with b about to be released.                                      *)
Relieved(c, d, b) ==
  /\ d \in Cache /\ d.age = c.age /\ d.lru = c.lru /\ d.needbuffer = FALSE
  /\ d.numoutput = c.numoutput /\ d.vbwait = c.vbwait /\ d.io = c.io
  /\ d.wake = c.wake \cup Wakeups(c, b)
  /\ \A x \in Buf : x # b => d.buf[x] = c.buf[x]
  /\ d.buf[b].blk = c.buf[b].blk /\ d.buf[b].cur = c.buf[b].cur
  /\ d.buf[b].flags = (c.buf[b].flags \ {"WANTED"})
                        \cup IF Is(c, b, "ERROR") THEN {"INVAL"} ELSE {}

(* brelse() up to its choice of a queue.                                    *)
LEMMA ReleasingIs ==
  ASSUME NEW c \in Cache, NEW b \in Buf, NEW d, d = Releasing(c, b)
  PROVE  Relieved(c, d, b)
<1> DEFINE f == c.buf[b].flags \ {"WANTED"}
           G == IF "ERROR" \in f THEN f \cup {"INVAL"} ELSE f
           W == c.wake \cup Wakeups(c, b)
           B == [c.buf EXCEPT ![b] = Flagged(c.buf[b], G)]
<1>1. d = [c EXCEPT !.wake = W, !.needbuffer = FALSE, !.buf = B]
  BY Zenon DEF Releasing, Flagged
<1>2. G = (c.buf[b].flags \ {"WANTED"}) \cup IF Is(c, b, "ERROR") THEN {"INVAL"} ELSE {}
  BY DEF Is
<1>3. G \in SUBSET Flag
  BY CacheType DEF Flag
<1>4. W \in SUBSET (Buf \cup {NeedBuffer, NumOutput})
  BY CacheType DEF Wakeups
<1> HIDE DEF G, W
<1>5. /\ B \in [Buf -> Buffer] /\ B[b] = Flagged(c.buf[b], G)
      /\ \A x \in Buf : x # b => B[x] = c.buf[x]
  BY <1>3, CacheType, FlaggedIs
<1>6. /\ Flagged(c.buf[b], G).flags = G /\ Flagged(c.buf[b], G).blk = c.buf[b].blk
      /\ Flagged(c.buf[b], G).cur = c.buf[b].cur
  BY <1>3, CacheType, FlaggedIs
<1> HIDE DEF B
<1>7. /\ d \in Cache /\ d.age = c.age /\ d.lru = c.lru /\ d.needbuffer = FALSE
      /\ d.numoutput = c.numoutput /\ d.vbwait = c.vbwait /\ d.io = c.io
      /\ d.wake = W /\ d.buf = B
  BY <1>1, <1>4, <1>5 DEF Cache
<1> QED
  BY <1>2, <1>5, <1>6, <1>7 DEF W, Relieved

(* The buffer b of e goes to the end of a list, or to the head of AGE when  *)
(* it is invalid, and loses its name.                                       *)
LEMMA QueuedIs ==
  ASSUME NEW e \in Cache, Lists(e), NEW b \in Buf, ~On(e, b), NEW d,
         \/ d = [e EXCEPT !.age = Append(@, b)]
         \/ d = [e EXCEPT !.lru = Append(@, b)]
         \/ d = [e EXCEPT !.age = <<b>> \o @]
  PROVE  /\ d \in Cache /\ Lists(d) /\ d.buf = e.buf /\ d.needbuffer = e.needbuffer
         /\ d.numoutput = e.numoutput /\ d.vbwait = e.vbwait /\ d.io = e.io /\ d.wake = e.wake
         /\ \A x \in Buf : On(d, x) <=> On(e, x) \/ x = b
<1>1. /\ e.age \in Seq(Buf) /\ e.lru \in Seq(Buf) /\ Once(e.age) /\ Once(e.lru)
      /\ ~In(e.age, b) /\ ~In(e.lru, b)
  BY CacheType DEF Lists, On
<1>2. CASE d = [e EXCEPT !.age = Append(@, b)]
  <2> DEFINE a == Append(e.age, b)
  <2>1. a \in Seq(Buf) /\ Once(a) /\ \A x : In(a, x) <=> In(e.age, x) \/ x = b
    BY <1>1, AppendList
  <2>2. d = [e EXCEPT !.age = a]
    BY <1>2
  <2> HIDE DEF a
  <2>3. /\ d \in Cache /\ d.age = a /\ d.lru = e.lru /\ d.buf = e.buf /\ d.needbuffer = e.needbuffer
        /\ d.numoutput = e.numoutput /\ d.vbwait = e.vbwait /\ d.io = e.io /\ d.wake = e.wake
    BY <2>1, <2>2 DEF Cache
  <2> QED
    BY <1>1, <2>1, <2>3 DEF Lists, On
<1>3. CASE d = [e EXCEPT !.lru = Append(@, b)]
  <2> DEFINE a == Append(e.lru, b)
  <2>1. a \in Seq(Buf) /\ Once(a) /\ \A x : In(a, x) <=> In(e.lru, x) \/ x = b
    BY <1>1, AppendList
  <2>2. d = [e EXCEPT !.lru = a]
    BY <1>3
  <2> HIDE DEF a
  <2>3. /\ d \in Cache /\ d.lru = a /\ d.age = e.age /\ d.buf = e.buf /\ d.needbuffer = e.needbuffer
        /\ d.numoutput = e.numoutput /\ d.vbwait = e.vbwait /\ d.io = e.io /\ d.wake = e.wake
    BY <2>1, <2>2 DEF Cache
  <2> QED
    BY <1>1, <2>1, <2>3 DEF Lists, On
<1>4. CASE d = [e EXCEPT !.age = <<b>> \o @]
  <2> DEFINE a == <<b>> \o e.age
  <2>1. a \in Seq(Buf) /\ Once(a) /\ \A x : In(a, x) <=> In(e.age, x) \/ x = b
    BY <1>1, HeadList
  <2>2. d = [e EXCEPT !.age = a]
    BY <1>4
  <2> HIDE DEF a
  <2>3. /\ d \in Cache /\ d.age = a /\ d.lru = e.lru /\ d.buf = e.buf /\ d.needbuffer = e.needbuffer
        /\ d.numoutput = e.numoutput /\ d.vbwait = e.vbwait /\ d.io = e.io /\ d.wake = e.wake
    BY <2>1, <2>2 DEF Cache
  <2> QED
    BY <1>1, <2>1, <2>3 DEF Lists, On
<1> QED
  BY <1>2, <1>3, <1>4

(* b is not usable any more when it is released.                            *)
Spoilt(c, b) == Is(c, b, "INVAL") \/ Is(c, b, "ERROR")

(* b comes out of brelse(): free, on a list, and without its name if it is  *)
(* spoilt.                                                                  *)
Released(c, d, b) ==
  /\ d \in Cache /\ Lists(d) /\ On(d, b)
  /\ \A x \in Buf : x # b => d.buf[x] = c.buf[x] /\ (On(d, x) <=> On(c, x))
  /\ d.needbuffer = FALSE /\ d.numoutput = c.numoutput /\ d.vbwait = c.vbwait /\ d.io = c.io
  /\ d.wake = c.wake \cup Wakeups(c, b)
  /\ d.buf[b].blk = IF Spoilt(c, b) THEN NoBlock ELSE c.buf[b].blk
  /\ d.buf[b].cur = c.buf[b].cur
  /\ \A f \in {"BUSY", "WANTED", "ASYNC", "VFLUSH"} : ~Is(d, b, f)
  /\ \A f \in {"READ", "DONE", "ERROR"} : Is(d, b, f) <=> Is(c, b, f)
  /\ Is(d, b, "INVAL") <=> Spoilt(c, b)
  /\ Is(d, b, "DELWRI") <=> Is(c, b, "DELWRI") /\ ~Spoilt(c, b)

(* brelse() of a buffer that is on a free list exactly if it is flushed in  *)
(* place.                                                                   *)
LEMMA BrelseIs ==
  ASSUME NEW c \in Cache, Lists(c), NEW b \in Buf, On(c, b) <=> Is(c, b, "VFLUSH"),
         NEW r, r = brelse(c, b)
  PROVE  Released(c, r, b)
<1> DEFINE d == Releasing(c, b)
           flushed == Is(d, b, "VFLUSH")
           stays == flushed /\ ~(Is(d, b, "INVAL") \/ Is(d, b, "AGE"))
           e == IF flushed /\ ~stays THEN bremfree(d, b) ELSE d
           q == CASE stays -> e
                  [] ~stays /\ Is(e, b, "INVAL") ->
                       [ClrFlags(e, b, {"DELWRI"}) EXCEPT !.age = <<b>> \o @, !.buf[b].blk = NoBlock]
                  [] ~stays /\ ~Is(e, b, "INVAL") /\ Is(e, b, "AGE") -> [e EXCEPT !.age = Append(@, b)]
                  [] OTHER -> [e EXCEPT !.lru = Append(@, b)]
<1>1. r = ClrFlags(q, b, {"AGE", "ASYNC", "BUSY", "VFLUSH"})
  BY DEF brelse
<1>2. /\ d \in Cache /\ d.age = c.age /\ d.lru = c.lru /\ d.needbuffer = FALSE
      /\ d.numoutput = c.numoutput /\ d.vbwait = c.vbwait /\ d.io = c.io
      /\ d.wake = c.wake \cup Wakeups(c, b)
      /\ \A x \in Buf : x # b => d.buf[x] = c.buf[x]
      /\ d.buf[b].blk = c.buf[b].blk /\ d.buf[b].cur = c.buf[b].cur
      /\ d.buf[b].flags = (c.buf[b].flags \ {"WANTED"})
                            \cup IF Is(c, b, "ERROR") THEN {"INVAL"} ELSE {}
  <2>1. Relieved(c, d, b)
    BY ReleasingIs
  <2> HIDE DEF d
  <2> QED
    BY <2>1 DEF Relieved
<1>3. /\ Lists(d) /\ \A x \in Buf : On(d, x) <=> On(c, x)
      /\ flushed <=> On(c, b)
      /\ Is(d, b, "INVAL") <=> Spoilt(c, b)
  BY <1>2 DEF Lists, On, Is, Spoilt
<1> HIDE DEF d
<1>4. /\ e \in Cache /\ Lists(e) /\ e.buf = d.buf /\ e.needbuffer = FALSE
      /\ e.numoutput = c.numoutput /\ e.vbwait = c.vbwait /\ e.io = c.io /\ e.wake = d.wake
      /\ \A x \in Buf : x # b => (On(e, x) <=> On(c, x))
      /\ On(e, b) <=> stays
  <2>1. CASE flushed /\ ~stays
    <3>1. e = bremfree(d, b)
      BY <2>1
    <3> HIDE DEF e, stays, flushed
    <3>2. /\ e \in Cache /\ Lists(e) /\ e.buf = d.buf /\ e.needbuffer = d.needbuffer
          /\ e.numoutput = d.numoutput /\ e.vbwait = d.vbwait /\ e.io = d.io /\ e.wake = d.wake
          /\ \A x \in Buf : On(e, x) <=> On(d, x) /\ x # b
      <4>1. Unlinked(d, e, b)
        BY <1>2, <1>3, <3>1, BremfreeIs
      <4> QED
        BY <4>1 DEF Unlinked
    <3> QED
      BY <1>2, <1>3, <2>1, <3>2
  <2>2. CASE ~(flushed /\ ~stays)
    <3>1. e = d
      BY <2>2
    <3> HIDE DEF e
    <3> QED
      BY <1>2, <1>3, <2>2, <3>1
  <2> QED
    BY <2>1, <2>2
<1>5. stays => ~Spoilt(c, b)
  BY <1>3
<1>6. Is(e, b, "INVAL") <=> Spoilt(c, b)
  BY <1>3, <1>4 DEF Is
<1> HIDE DEF e
<1>7. /\ q \in Cache /\ Lists(q) /\ q.needbuffer = FALSE
      /\ q.numoutput = c.numoutput /\ q.vbwait = c.vbwait /\ q.io = c.io /\ q.wake = d.wake
      /\ \A x \in Buf : x # b => q.buf[x] = c.buf[x] /\ (On(q, x) <=> On(c, x))
      /\ On(q, b) /\ q.buf[b].cur = c.buf[b].cur
      /\ q.buf[b].blk = IF Spoilt(c, b) THEN NoBlock ELSE c.buf[b].blk
      /\ q.buf[b].flags = d.buf[b].flags \ IF Spoilt(c, b) THEN {"DELWRI"} ELSE {}
  <2>1. CASE stays
    <3>1. q = e
      BY <2>1
    <3> QED
      BY <1>2, <1>4, <1>5, <2>1, <3>1
  <2>2. CASE ~stays /\ Is(e, b, "INVAL")
    <3> DEFINE g == ClrFlags(e, b, {"DELWRI"})
               h == [g EXCEPT !.age = <<b>> \o @]
               y == [blk |-> NoBlock, flags |-> g.buf[b].flags, cur |-> g.buf[b].cur]
    <3>1. q = [g EXCEPT !.age = <<b>> \o @, !.buf[b].blk = NoBlock]
      BY <2>2
    <3>2. /\ g \in Cache /\ SameRest(e, g)
          /\ Becomes(e, g, b, Flagged(e.buf[b], e.buf[b].flags \ {"DELWRI"}))
      BY <1>4, ClrFlagsIs
    <3>3. /\ g.buf[b].flags = d.buf[b].flags \ {"DELWRI"} /\ g.buf[b].cur = c.buf[b].cur
          /\ \A x \in Buf : x # b => g.buf[x] = c.buf[x]
      <4>1. e.buf[b] \in Buffer /\ e.buf[b].flags \ {"DELWRI"} \in SUBSET Flag
        BY <1>4, CacheType
      <4> QED
        BY <1>2, <1>4, <3>2, <4>1, FlaggedIs DEF Becomes
    <3>4. Lists(g) /\ \A x \in Buf : On(g, x) <=> On(e, x)
      BY <1>4, <3>2 DEF Lists, On, SameRest
    <3> HIDE DEF g
    <3>5. q = [h EXCEPT !.buf = [h.buf EXCEPT ![b] = [h.buf[b] EXCEPT !.blk = NoBlock]]]
      <4>1. h.buf = g.buf
        BY <3>2 DEF Cache
      <4>2. q = [g EXCEPT !.age = <<b>> \o @,
                          !.buf = [g.buf EXCEPT ![b] = [g.buf[b] EXCEPT !.blk = NoBlock]]]
        BY <3>1, Zenon
      <4>3. q = [h EXCEPT !.buf = [g.buf EXCEPT ![b] = [g.buf[b] EXCEPT !.blk = NoBlock]]]
        <5> DEFINE B == [g.buf EXCEPT ![b] = [g.buf[b] EXCEPT !.blk = NoBlock]]
        <5>1. q = [g EXCEPT !.age = <<b>> \o @, !.buf = B]
          BY <4>2
        <5> HIDE DEF B
        <5> QED
          BY <3>2, <5>1 DEF Cache, B
      <4> QED
        BY <4>1, <4>3
    <3>6. /\ h \in Cache /\ Lists(h) /\ h.buf = g.buf /\ h.needbuffer = g.needbuffer
          /\ h.numoutput = g.numoutput /\ h.vbwait = g.vbwait /\ h.io = g.io /\ h.wake = g.wake
          /\ \A x \in Buf : On(h, x) <=> On(g, x) \/ x = b
      BY <1>4, <2>2, <3>2, <3>4, QueuedIs
    <3> HIDE DEF h
    <3>7. [h.buf[b] EXCEPT !.blk = NoBlock] = y /\ y \in Buffer
      <4>1. h.buf[b] = g.buf[b] /\ g.buf[b] \in Buffer
        BY <3>2, <3>6, CacheType
      <4> QED
        BY <4>1 DEF Buffer
    <3>8. q \in Cache /\ Becomes(h, q, b, y) /\ SameRest(h, q)
      BY <3>5, <3>6, <3>7, WithIs
    <3> HIDE DEF q
    <3>9. Lists(q) /\ \A x \in Buf : On(q, x) <=> On(h, x)
      BY <3>6, <3>8 DEF Lists, On, SameRest
    <3> QED
      BY <1>4, <1>6, <2>2, <3>2, <3>3, <3>4, <3>6, <3>8, <3>9 DEF SameRest, Becomes
  <2>3. CASE ~stays /\ ~Is(e, b, "INVAL")
    <3>1. q = [e EXCEPT !.age = Append(@, b)] \/ q = [e EXCEPT !.lru = Append(@, b)]
      BY <2>3
    <3> HIDE DEF q
    <3>2. /\ q \in Cache /\ Lists(q) /\ q.buf = e.buf /\ q.needbuffer = e.needbuffer
          /\ q.numoutput = e.numoutput /\ q.vbwait = e.vbwait /\ q.io = e.io /\ q.wake = e.wake
          /\ \A x \in Buf : On(q, x) <=> On(e, x) \/ x = b
      BY <1>4, <2>3, <3>1, QueuedIs
    <3> QED
      BY <1>2, <1>4, <1>6, <2>3, <3>2
  <2> QED
    BY <2>1, <2>2, <2>3
<1> HIDE DEF q
<1> DEFINE F == q.buf[b].flags \ {"AGE", "ASYNC", "BUSY", "VFLUSH"}
<1>8. r \in Cache /\ SameRest(q, r) /\ Becomes(q, r, b, Flagged(q.buf[b], F))
  BY <1>1, <1>7, ClrFlagsIs
<1>9. r.buf[b].flags = F /\ r.buf[b].blk = q.buf[b].blk /\ r.buf[b].cur = q.buf[b].cur
  <2>1. q.buf[b] \in Buffer /\ F \in SUBSET Flag
    BY <1>7, CacheType
  <2> QED
    BY <1>8, <2>1, FlaggedIs DEF Becomes
<1>10. Lists(r) /\ \A x \in Buf : On(r, x) <=> On(q, x)
  BY <1>7, <1>8 DEF Lists, On, SameRest
<1>11. /\ \A f \in {"BUSY", "WANTED", "ASYNC", "VFLUSH"} : ~Is(r, b, f)
       /\ \A f \in {"READ", "DONE", "ERROR"} : Is(r, b, f) <=> Is(c, b, f)
       /\ Is(r, b, "INVAL") <=> Spoilt(c, b)
       /\ Is(r, b, "DELWRI") <=> Is(c, b, "DELWRI") /\ ~Spoilt(c, b)
  <2>1. \A f : f \in r.buf[b].flags <=>
               /\ (f \in c.buf[b].flags /\ f # "WANTED") \/ (Is(c, b, "ERROR") /\ f = "INVAL")
               /\ ~(Spoilt(c, b) /\ f = "DELWRI")
               /\ f \notin {"AGE", "ASYNC", "BUSY", "VFLUSH"}
    BY <1>2, <1>7, <1>9
  <2> QED
    BY <2>1 DEF Is, Spoilt
<1> QED
  BY <1>2, <1>7, <1>8, <1>9, <1>10, <1>11 DEF Released, SameRest, Becomes
-----------------------------------------------------------------------------
(* Changes to one buffer.                                                   *)

(* d is c but for what concerns b.                                          *)
Local(c, d, b) ==
  /\ d \in Cache /\ Lists(d)
  /\ \A x \in Buf : x # b => /\ d.buf[x] = c.buf[x] /\ (On(d, x) <=> On(c, x))
                             /\ x \in d.io <=> x \in c.io

(* The holder of b finds its transfer under way, or done.                   *)
Calm(c, d, b) ==
  /\ b \notin c.io => b \notin d.io
  /\ b \in c.io \/ Is(c, b, "DONE") => b \in d.io \/ Is(d, b, "DONE")
  /\ b \in c.io \/ Valid(c, b) => b \in d.io \/ Valid(d, b)

(* Nobody who sleeps when the cache is c is forgotten when it is d.         *)
Heeds(c, d) ==
  /\ c.wake \subseteq d.wake
  /\ \A b \in Buf : Is(c, b, "BUSY") /\ Is(c, b, "WANTED") =>
                      b \in d.wake \/ (Is(d, b, "BUSY") /\ Is(d, b, "WANTED"))
  /\ \A b \in Buf : b \in c.io /\ ~Is(c, b, "ASYNC") =>
                      b \in d.wake \/ (b \in d.io /\ ~Is(d, b, "ASYNC"))
  /\ c.needbuffer /\ c.age = <<>> /\ c.lru = <<>> =>
       NeedBuffer \in d.wake \/ (d.needbuffer /\ d.age = <<>> /\ d.lru = <<>>)
  /\ c.vbwait /\ c.numoutput > 0 => NumOutput \in d.wake \/ (d.vbwait /\ d.numoutput > 0)

(* And the holders of the buffers H are not disturbed.                      *)
Smooth(c, d, H) == Heeds(c, d) /\ \A b \in Buf : b \in H => Calm(c, d, b)

(* Good steps one after the other.                                          *)
LEMMA SmoothTwice ==
  ASSUME NEW c, NEW d, NEW e, NEW H, Smooth(c, d, H), Smooth(d, e, H)
  PROVE  Smooth(c, e, H)
<1>1. Heeds(c, e)
  BY DEF Smooth, Heeds
<1>2. \A b \in Buf : b \in H => Calm(c, e, b)
  BY DEF Smooth, Calm
<1> QED
  BY <1>1, <1>2 DEF Smooth

(* Nothing happens.                                                         *)
LEMMA SmoothSame == \A c, H : Smooth(c, c, H)
BY DEF Smooth, Heeds, Calm

(* A cache in order is so without any of its buffers.                       *)
LEMMA WithoutOne ==
  ASSUME NEW c, NEW H, CacheOK(c, H), NEW b, NEW G, \A x : x # b => (x \in G <=> x \in H)
  PROVE  OthersOK(c, G, b)
BY DEF CacheOK, OthersOK

(* A change to b, if b is in order after it.                                *)
LEMMA LocalOK ==
  ASSUME NEW c, NEW b \in Buf, NEW H, OthersOK(c, H, b), NEW d, Local(c, d, b),
         BufOK(d, b, b \in H), d.numoutput = Cardinality(Writing(d)),
         \A x \in Buf : x # b /\ c.buf[x].blk = d.buf[b].blk => d.buf[b].blk = NoBlock
  PROVE  CacheOK(d, H)
<1>1. ASSUME NEW x \in Buf, x # b PROVE BufOK(d, x, x \in H)
  <2>1. BufOK(c, x, x \in H)
    BY <1>1 DEF OthersOK
  <2> QED
    BY <1>1, <2>1 DEF BufOK, Local, Is
<1>2. Named1(d)
  <2>1. \A x \in Buf : x # b => d.buf[x] = c.buf[x]
    BY DEF Local
  <2> QED
    BY <2>1 DEF Named1, OthersOK
<1> QED
  BY <1>1, <1>2 DEF CacheOK, Local

(* The number of writes.                                                    *)
LEMMA WritesCounted ==
  ASSUME NEW c \in Cache, NEW b \in Buf, NEW d, Local(c, d, b),
         c.numoutput = Cardinality(Writing(c))
  PROVE  /\ IsFiniteSet(Writing(c)) /\ c.numoutput \in Nat
         /\ c.numoutput > 0 <=> Writing(c) # {}
         /\ (b \in Writing(c) <=> b \in Writing(d)) => Cardinality(Writing(d)) = c.numoutput
         /\ b \notin Writing(c) /\ b \in Writing(d) => Cardinality(Writing(d)) = c.numoutput + 1
         /\ b \in Writing(c) /\ b \notin Writing(d) => Cardinality(Writing(d)) = c.numoutput - 1
<1>1. Writing(c) \in SUBSET Buf /\ Writing(d) \in SUBSET Buf
  BY CacheType DEF Writing, Local
<1>2. IsFiniteSet(Writing(c)) /\ IsFiniteSet(Writing(d))
  BY <1>1, BufAssumption, FS_Subset
<1>3. \A x : x # b => (x \in Writing(d) <=> x \in Writing(c))
  <2>1. \A x \in Buf : x # b => (x \in Writing(d) <=> x \in Writing(c))
    BY DEF Local, Writing, Is
  <2> QED
    BY <1>1, <2>1
<1>4. Cardinality(Writing(c)) \in Nat /\ Cardinality(Writing(d)) \in Nat
  BY <1>2, FS_CardinalityType
<1>5. (b \in Writing(c) <=> b \in Writing(d)) => Writing(d) = Writing(c)
  BY <1>3
<1>6. ASSUME b \notin Writing(c), b \in Writing(d) PROVE Cardinality(Writing(d)) = c.numoutput + 1
  <2>1. Writing(d) = Writing(c) \cup {b}
    BY <1>3, <1>6
  <2> QED
    BY <1>2, <1>6, <2>1, FS_AddElement
<1>7. ASSUME b \in Writing(c), b \notin Writing(d) PROVE Cardinality(Writing(d)) = c.numoutput - 1
  <2>1. Writing(d) = Writing(c) \ {b}
    BY <1>3, <1>7
  <2> QED
    BY <1>2, <1>7, <2>1, FS_RemoveElement
<1>8. c.numoutput > 0 <=> Writing(c) # {}
  BY <1>2, <1>4, FS_EmptySet
<1> QED
  BY <1>2, <1>4, <1>5, <1>6, <1>7, <1>8

(* The contents after a change to b.                                        *)
LEMMA LocalCopies ==
  ASSUME NEW c, NEW b \in Buf, NEW d, Local(c, d, b), NEW B, CopiesOK(c, B), NEW C,
         d.buf[b].blk # NoBlock /\ Copy(d, b) => d.buf[b].cur,
         Is(d, b, "DELWRI") \/ b \in Writing(d) => ~Is(d, b, "ERROR"),
         \A blk \in C : (d.buf[b].blk = blk /\ Unsaved(d, b)) \/ (blk \in B /\ blk # c.buf[b].blk)
                        \/ (blk \in B /\ ~Unsaved(c, b))
  PROVE  CopiesOK(d, C)
<1>1. ASSUME NEW x \in Buf, x # b
      PROVE  /\ d.buf[x] = c.buf[x] /\ (Copy(d, x) <=> Copy(c, x))
             /\ Unsaved(d, x) <=> Unsaved(c, x)
             /\ x \in Writing(d) <=> x \in Writing(c)
             /\ \A f : Is(d, x, f) <=> Is(c, x, f)
  BY <1>1 DEF Local, Copy, Unsaved, Writing, Is, Valid
<1>2. ASSUME NEW x \in Buf
      PROVE  /\ d.buf[x].blk # NoBlock /\ Copy(d, x) => d.buf[x].cur
             /\ Is(d, x, "DELWRI") \/ x \in Writing(d) => ~Is(d, x, "ERROR")
  <2>1. CASE x = b
    BY <2>1
  <2>2. CASE x # b
    BY <1>1, <2>2 DEF CopiesOK
  <2> QED
    BY <2>1, <2>2
<1>3. ASSUME NEW blk \in C PROVE \E x \in Buf : d.buf[x].blk = blk /\ Unsaved(d, x)
  <2>1. CASE d.buf[b].blk = blk /\ Unsaved(d, b)
    BY <2>1
  <2>2. CASE blk \in B /\ (blk # c.buf[b].blk \/ ~Unsaved(c, b))
    <3>1. PICK x \in Buf : c.buf[x].blk = blk /\ Unsaved(c, x)
      BY <2>2 DEF CopiesOK
    <3>2. x # b
      BY <2>2, <3>1
    <3> QED
      BY <1>1, <3>1, <3>2
  <2> QED
    BY <2>1, <2>2
<1> QED
  BY <1>2, <1>3 DEF CopiesOK

(* brelse() of a buffer that nobody holds any more.                         *)
LEMMA BrelseOK ==
  ASSUME NEW c, NEW b \in Buf, NEW H, OthersOK(c, H, b), b \notin H, b \notin c.io,
         On(c, b) <=> Is(c, b, "VFLUSH"), Is(c, b, "DELWRI") => c.buf[b].blk # NoBlock,
         NEW B, CopiesOK(c, B), Is(c, b, "INVAL") => c.buf[b].blk \notin B
  PROVE  CacheOK(brelse(c, b), H) /\ CopiesOK(brelse(c, b), B) /\ Smooth(c, brelse(c, b), H)
<1> DEFINE d == brelse(c, b)
<1>1. c \in Cache /\ Lists(c) /\ Named1(c) /\ c.numoutput = Cardinality(Writing(c))
  BY DEF OthersOK
<1>2. Released(c, d, b)
  BY <1>1, BrelseIs
<1> HIDE DEF d
<1>3. Local(c, d, b) /\ d.io = c.io
  BY <1>2 DEF Released, Local
<1>4. BufOK(d, b, b \in H)
  BY <1>2 DEF Released, BufOK
<1>5. Cardinality(Writing(d)) = d.numoutput
  <2>1. b \in Writing(c) <=> b \in Writing(d)
    BY <1>3 DEF Writing
  <2> QED
    BY <1>1, <1>2, <1>3, <2>1, WritesCounted DEF Released
<1>6. d.buf[b].blk = NoBlock \/ d.buf[b].blk = c.buf[b].blk
  BY <1>2 DEF Released
<1>7. CacheOK(d, H)
  BY <1>1, <1>3, <1>4, <1>5, <1>6, LocalOK DEF Named1
<1>8. Copy(d, b) /\ d.buf[b].blk # NoBlock => d.buf[b].cur
  <2>1. Copy(d, b) => Copy(c, b)
    BY <1>2, <1>3 DEF Copy, Released, Valid
  <2> QED
    BY <1>2, <1>6, <2>1 DEF CopiesOK, Released
<1>9. Is(d, b, "DELWRI") \/ b \in Writing(d) => ~Is(d, b, "ERROR")
  BY <1>2, <1>3 DEF Released, Writing, Spoilt
<1>10. ASSUME NEW blk \in B, blk = c.buf[b].blk, Unsaved(c, b)
       PROVE  d.buf[b].blk = blk /\ Unsaved(d, b)
  <2>1. ~Is(c, b, "INVAL") /\ ~Is(c, b, "ERROR") /\ Is(c, b, "DELWRI")
    BY <1>10 DEF Unsaved
  <2> QED
    BY <1>2, <1>10, <2>1 DEF Released, Unsaved, Spoilt
<1>11. CopiesOK(d, B)
  BY <1>3, <1>8, <1>9, <1>10, LocalCopies
<1>12. Heeds(c, d)
  <2>1. ASSUME NEW x \in Buf, x # b
        PROVE  (\A f : Is(d, x, f) <=> Is(c, x, f)) /\ (x \in d.io <=> x \in c.io)
    BY <1>3, <2>1 DEF Local, Is
  <2>2. Is(c, b, "WANTED") => b \in d.wake
    BY <1>2 DEF Released, Wakeups
  <2>3. c.needbuffer => NeedBuffer \in d.wake
    BY <1>2 DEF Released, Wakeups
  <2>4. c.wake \subseteq d.wake /\ d.vbwait = c.vbwait /\ d.numoutput = c.numoutput
    BY <1>2 DEF Released
  <2> QED
    BY <2>1, <2>2, <2>3, <2>4 DEF Heeds
<1>13. ASSUME NEW x \in H, x \in Buf PROVE Calm(c, d, x)
  <2>1. x # b
    BY <1>13
  <2> QED
    BY <1>3, <1>13, <2>1 DEF Local, Calm, Valid, Is
<1> QED
  BY <1>7, <1>11, <1>12, <1>13 DEF d, Smooth

(* b has more flags and is the same otherwise; the cache, but for b, is in  *)
(* order as it was.                                                         *)
Marked(c, d, b, F, H, B) ==
  /\ OthersOK(d, H, b) /\ Local(c, d, b) /\ SameRest(c, d)
  /\ d.buf[b].blk = c.buf[b].blk /\ d.buf[b].cur = c.buf[b].cur
  /\ \A f : Is(d, b, f) <=> Is(c, b, f) \/ f \in F
  /\ CopiesOK(d, B) /\ Smooth(c, d, Buf)

(* Flags that say nothing of the contents, set while no transfer is under   *)
(* way, or B_WANTED.                                                        *)
LEMMA SetFlagsOK ==
  ASSUME NEW c, NEW b \in Buf, NEW H, OthersOK(c, H, b), NEW B, CopiesOK(c, B),
         NEW F \in SUBSET {"BUSY", "WANTED", "ASYNC", "AGE", "VFLUSH", "INVAL", "READ"},
         b \notin c.io \/ F = {"WANTED"}, NEW d, d = SetFlags(c, b, F)
  PROVE  Marked(c, d, b, F, H, B)
<1>1. c \in Cache /\ Lists(c) /\ Named1(c) /\ c.numoutput = Cardinality(Writing(c))
  BY DEF OthersOK
<1>2. F \in SUBSET Flag
  BY DEF Flag
<1>3. /\ d \in Cache /\ SameRest(c, d)
      /\ Becomes(c, d, b, Flagged(c.buf[b], c.buf[b].flags \cup F))
  BY <1>1, <1>2, SetFlagsIs
<1>4. /\ d.buf[b].flags = c.buf[b].flags \cup F
      /\ d.buf[b].blk = c.buf[b].blk /\ d.buf[b].cur = c.buf[b].cur
  <2>1. c.buf[b] \in Buffer /\ c.buf[b].flags \cup F \in SUBSET Flag
    BY <1>1, <1>2, CacheType
  <2> QED
    BY <1>3, <2>1, FlaggedIs DEF Becomes
<1>5. \A f : Is(d, b, f) <=> Is(c, b, f) \/ f \in F
  BY <1>4 DEF Is
<1>6. Local(c, d, b)
  BY <1>1, <1>3 DEF Local, Becomes, SameRest, Lists, On
<1>7. Writing(d) = Writing(c)
  <2>1. \A x \in Buf : x \in d.io /\ ~Is(d, x, "READ") <=> x \in c.io /\ ~Is(c, x, "READ")
    BY <1>3, <1>5, <1>6 DEF Local, Is, SameRest
  <2>2. c.io \in SUBSET Buf /\ d.io \in SUBSET Buf
    BY <1>1, <1>3, CacheType
  <2> QED
    BY <2>1, <2>2 DEF Writing
<1>8. OthersOK(d, H, b)
  <2>1. ASSUME NEW x \in Buf, x # b PROVE BufOK(d, x, x \in H)
    <3>1. BufOK(c, x, x \in H)
      BY <2>1 DEF OthersOK
    <3> QED
      BY <1>6, <2>1, <3>1 DEF BufOK, Local, Is
  <2>2. Named1(d)
    BY <1>1, <1>4, <1>6 DEF Named1, Local
  <2>3. Lists(d) /\ d.numoutput = c.numoutput
    BY <1>3, <1>6 DEF Local, SameRest
  <2> QED
    BY <1>1, <1>3, <1>7, <2>1, <2>2, <2>3 DEF OthersOK
<1>9. CopiesOK(d, B)
  <2>1. (Copy(d, b) => Copy(c, b)) /\ (Unsaved(c, b) => Unsaved(d, b))
    BY <1>3, <1>5 DEF Copy, Unsaved, Valid, SameRest
  <2>2. d.buf[b].blk # NoBlock /\ Copy(d, b) => d.buf[b].cur
    BY <1>4, <2>1 DEF CopiesOK
  <2>3. Is(d, b, "DELWRI") \/ b \in Writing(d) => ~Is(d, b, "ERROR")
    BY <1>5, <1>7 DEF CopiesOK
  <2> QED
    BY <1>4, <1>6, <2>1, <2>2, <2>3, LocalCopies
<1>10. ASSUME NEW x \in Buf
       PROVE  /\ Calm(c, d, x)
              /\ Is(c, x, "BUSY") /\ Is(c, x, "WANTED") => Is(d, x, "BUSY") /\ Is(d, x, "WANTED")
              /\ x \in c.io /\ ~Is(c, x, "ASYNC") => x \in d.io /\ ~Is(d, x, "ASYNC")
  <2>1. CASE x = b
    BY <1>3, <1>5, <2>1 DEF Calm, Valid, SameRest
  <2>2. CASE x # b
    BY <1>6, <2>2 DEF Calm, Valid, Local, Is
  <2> QED
    BY <2>1, <2>2
<1>11. Heeds(c, d)
  BY <1>3, <1>10 DEF Heeds, SameRest
<1> QED
  BY <1>3, <1>4, <1>5, <1>6, <1>8, <1>9, <1>10, <1>11 DEF Smooth, Marked

(* A transfer of b has been started.                                        *)
Started(c, d, b, F) ==
  /\ d \in Cache /\ d.age = c.age /\ d.lru = c.lru /\ d.needbuffer = c.needbuffer
  /\ d.vbwait = c.vbwait /\ d.wake = c.wake /\ d.io = c.io \cup {b}
  /\ \A x \in Buf : x # b => d.buf[x] = c.buf[x]
  /\ d.buf[b].flags = F
  /\ d.buf[b].blk = c.buf[b].blk /\ d.buf[b].cur = c.buf[b].cur

(* bwrite() up to VOP_STRATEGY().                                           *)
LEMMA StartWriteIs ==
  ASSUME NEW c \in Cache, NEW b \in Buf, NEW d, d = StartWrite(c, b)
  PROVE  /\ Started(c, d, b, c.buf[b].flags \ {"READ", "DONE", "ERROR", "DELWRI"})
         /\ d.numoutput = c.numoutput + 1
<1> DEFINE F == {"READ", "DONE", "ERROR", "DELWRI"}
           e == ClrFlags(c, b, F)
<1>1. d = [e EXCEPT !.numoutput = @ + 1, !.io = @ \cup {b}]
  BY DEF StartWrite
<1>2. e \in Cache /\ SameRest(c, e) /\ Becomes(c, e, b, Flagged(c.buf[b], c.buf[b].flags \ F))
  BY ClrFlagsIs
<1>3. c.buf[b] \in Buffer /\ c.buf[b].flags \ F \in SUBSET Flag
  BY CacheType
<1>4. /\ e.buf[b].flags = c.buf[b].flags \ F /\ e.buf[b].blk = c.buf[b].blk
      /\ e.buf[b].cur = c.buf[b].cur
  BY <1>2, <1>3, FlaggedIs DEF Becomes
<1> HIDE DEF e, F
<1>5. /\ d \in Cache /\ d.buf = e.buf /\ d.age = e.age /\ d.lru = e.lru
      /\ d.needbuffer = e.needbuffer /\ d.vbwait = e.vbwait /\ d.wake = e.wake
      /\ d.io = e.io \cup {b} /\ d.numoutput = e.numoutput + 1
  <2> DEFINE N == e.numoutput + 1
             I == e.io \cup {b}
  <2>1. N \in Int /\ I \in SUBSET Buf
    BY <1>2, CacheType
  <2>2. d = [e EXCEPT !.numoutput = N, !.io = I]
    BY <1>1
  <2> HIDE DEF N, I
  <2>3. /\ d \in Cache /\ d.buf = e.buf /\ d.age = e.age /\ d.lru = e.lru
        /\ d.needbuffer = e.needbuffer /\ d.vbwait = e.vbwait /\ d.wake = e.wake
        /\ d.io = I /\ d.numoutput = N
    BY <1>2, <2>1, <2>2 DEF Cache
  <2> QED
    BY <2>3 DEF N, I
<1> QED
  BY <1>2, <1>4, <1>5 DEF Started, SameRest, Becomes, F

(* The transfer belongs to the process that holds b, or is asynchronous.    *)
LEMMA StartWriteOK ==
  ASSUME NEW c, NEW b \in Buf, NEW H, OthersOK(c, H, b), b \notin c.io, Is(c, b, "BUSY"),
         c.buf[b].blk # NoBlock, On(c, b) <=> Is(c, b, "VFLUSH"), ~Is(c, b, "INVAL"),
         Is(c, b, "VFLUSH") => Is(c, b, "ASYNC"), b \in H <=> ~Is(c, b, "ASYNC"),
         NEW B, CopiesOK(c, B), c.buf[b].cur, NEW d, d = StartWrite(c, b)
  PROVE  /\ CacheOK(d, H) /\ CopiesOK(d, B \cup {c.buf[b].blk}) /\ Smooth(c, d, H \ {b})
         /\ b \in d.io /\ (Is(d, b, "ASYNC") <=> Is(c, b, "ASYNC"))
         /\ d.numoutput = c.numoutput + 1
<1> DEFINE F == c.buf[b].flags \ {"READ", "DONE", "ERROR", "DELWRI"}
<1>1. c \in Cache /\ Lists(c) /\ Named1(c) /\ c.numoutput = Cardinality(Writing(c))
  BY DEF OthersOK
<1>2. Started(c, d, b, F) /\ d.numoutput = c.numoutput + 1
  BY <1>1, StartWriteIs
<1>3. \A f : Is(d, b, f) <=> Is(c, b, f) /\ f \notin {"READ", "DONE", "ERROR", "DELWRI"}
  BY <1>2 DEF Started, Is
<1> HIDE DEF F
<1>4. Local(c, d, b)
  BY <1>1, <1>2 DEF Local, Started, Lists, On
<1>5. b \in d.io /\ d.buf[b].blk = c.buf[b].blk /\ d.buf[b].cur /\ (On(d, b) <=> On(c, b))
  BY <1>2 DEF Started, On
<1>6. BufOK(d, b, b \in H)
  BY <1>3, <1>5 DEF BufOK
<1>7. Cardinality(Writing(d)) = d.numoutput
  <2>1. b \notin Writing(c) /\ b \in Writing(d)
    BY <1>3, <1>5 DEF Writing
  <2> QED
    BY <1>1, <1>2, <1>4, <2>1, WritesCounted
<1>8. CacheOK(d, H)
  <2>1. \A x \in Buf : x # b /\ c.buf[x].blk = d.buf[b].blk => d.buf[b].blk = NoBlock
    BY <1>1, <1>5 DEF Named1
  <2> QED
    BY <1>4, <1>6, <1>7, <2>1, LocalOK
<1>9. CopiesOK(d, B \cup {c.buf[b].blk})
  <2>1. Unsaved(d, b) /\ ~Is(d, b, "ERROR")
    BY <1>3, <1>5 DEF Unsaved
  <2> QED
    BY <1>4, <1>5, <2>1, LocalCopies
<1>10. ASSUME NEW x \in Buf
       PROVE  /\ x # b => Calm(c, d, x)
              /\ Is(c, x, "BUSY") /\ Is(c, x, "WANTED") => Is(d, x, "BUSY") /\ Is(d, x, "WANTED")
              /\ x \in c.io /\ ~Is(c, x, "ASYNC") => x \in d.io /\ ~Is(d, x, "ASYNC")
  <2>1. CASE x = b
    BY <1>3, <2>1
  <2>2. CASE x # b
    BY <1>4, <2>2 DEF Calm, Valid, Local, Is
  <2> QED
    BY <2>1, <2>2
<1>11. Heeds(c, d)
  <2>1. c.numoutput \in Int
    BY <1>1, CacheType
  <2> QED
    BY <1>2, <1>10, <2>1 DEF Heeds, Started
<1> QED
  BY <1>2, <1>3, <1>5, <1>8, <1>9, <1>10, <1>11 DEF Smooth

(* The buffers have the same blocks.                                        *)
SameNames(c, d) == \A x \in Buf : d.buf[x].blk = c.buf[x].blk

(* d is c after some more work, in order if c is.                           *)
Onward(c, d, H, B) == CacheOK(d, H) /\ CopiesOK(d, B) /\ Smooth(c, d, H) /\ SameNames(c, d)

(* bawrite() of a buffer that nobody holds any more.                        *)
LEMMA BawriteOK ==
  ASSUME NEW c, NEW b \in Buf, NEW H, OthersOK(c, H, b), b \notin c.io, Is(c, b, "BUSY"),
         c.buf[b].blk # NoBlock, On(c, b) <=> Is(c, b, "VFLUSH"), ~Is(c, b, "INVAL"),
         b \notin H, NEW B, CopiesOK(c, B), c.buf[b].cur, NEW d, d = bawrite(c, b)
  PROVE  Onward(c, d, H, B \cup {c.buf[b].blk}) /\ Free(d) = Free(c)
<1> DEFINE e == SetFlags(c, b, {"ASYNC"})
<1>1. /\ OthersOK(e, H, b) /\ Local(c, e, b) /\ SameRest(c, e)
      /\ e.buf[b].blk = c.buf[b].blk /\ e.buf[b].cur = c.buf[b].cur
      /\ \A f : Is(e, b, f) <=> Is(c, b, f) \/ f \in {"ASYNC"}
      /\ CopiesOK(e, B) /\ Smooth(c, e, Buf)
  <2>1. Marked(c, e, b, {"ASYNC"}, H, B)
    BY SetFlagsOK
  <2> QED
    BY <2>1 DEF Marked
<1>2. d = StartWrite(e, b)
  BY DEF bawrite
<1> HIDE DEF e
<1>3. e \in Cache
  BY <1>1 DEF OthersOK
<1>4. /\ b \notin e.io /\ Is(e, b, "BUSY") /\ e.buf[b].blk # NoBlock /\ ~Is(e, b, "INVAL")
      /\ Is(e, b, "ASYNC") /\ (On(e, b) <=> Is(e, b, "VFLUSH")) /\ e.buf[b].cur
  BY <1>1 DEF SameRest, On
<1>5. /\ CacheOK(d, H) /\ CopiesOK(d, B \cup {e.buf[b].blk}) /\ Smooth(e, d, H \ {b})
  BY <1>1, <1>2, <1>4, StartWriteOK
<1>6. Smooth(c, e, H) /\ Smooth(e, d, H)
  BY <1>1, <1>5 DEF Smooth
<1>7. Started(e, d, b, e.buf[b].flags \ {"READ", "DONE", "ERROR", "DELWRI"})
  BY <1>2, <1>3, StartWriteIs
<1>8. \A x \in Buf : d.buf[x].blk = c.buf[x].blk
  <2>1. \A x \in Buf : x # b => d.buf[x] = c.buf[x]
    BY <1>1, <1>7 DEF Started, Local
  <2>2. d.buf[b].blk = c.buf[b].blk
    BY <1>1, <1>7 DEF Started
  <2> QED
    BY <2>1, <2>2
<1>9. Free(d) = Free(c)
  BY <1>1, <1>7 DEF Started, SameRest, Free
<1>10. Smooth(c, d, H)
  BY <1>6, SmoothTwice
<1> QED
  BY <1>1, <1>5, <1>8, <1>9, <1>10 DEF Onward, SameNames

(* A buffer taken off the free lists.                                       *)
LEMMA UnlinkedOK ==
  ASSUME NEW c, NEW b \in Buf, NEW H, OthersOK(c, H, b), NEW B, CopiesOK(c, B),
         NEW d, Unlinked(c, d, b)
  PROVE  /\ OthersOK(d, H, b) /\ Local(c, d, b) /\ CopiesOK(d, B) /\ Smooth(c, d, Buf)
<1>1. /\ d \in Cache /\ Lists(d) /\ d.buf = c.buf /\ d.numoutput = c.numoutput /\ d.io = c.io
      /\ d.wake = c.wake /\ d.vbwait = c.vbwait /\ d.needbuffer = c.needbuffer
  BY DEF Unlinked
<1>2. Local(c, d, b)
  BY DEF Unlinked, Local
<1>3. \A x, f : Is(d, x, f) <=> Is(c, x, f)
  BY <1>1 DEF Is
<1>4. Writing(d) = Writing(c)
  BY <1>1 DEF Writing, Is
<1>5. ASSUME NEW x \in Buf, x # b PROVE BufOK(d, x, x \in H)
  <2>1. BufOK(c, x, x \in H)
    BY <1>5 DEF OthersOK
  <2> QED
    BY <1>2, <1>5, <2>1 DEF BufOK, Local, Is
<1>6. OthersOK(d, H, b)
  BY <1>1, <1>4, <1>5 DEF OthersOK, Named1
<1>7. CopiesOK(d, B)
  BY <1>1, <1>3, <1>4 DEF CopiesOK, Copy, Unsaved, Valid
<1>8. Heeds(c, d)
  BY <1>1, <1>3 DEF Heeds, Unlinked
<1>9. \A x \in Buf : Calm(c, d, x)
  BY <1>1, <1>3 DEF Calm, Valid
<1> QED
  BY <1>2, <1>6, <1>7, <1>8, <1>9 DEF Smooth

-----------------------------------------------------------------------------
(* getnewbuf().                                                             *)

(* d is c with a buffer that was flushed in place marked to be aged.        *)
Aged(c, d, b) ==
  /\ d \in Cache /\ SameRest(c, d)
  /\ \A x \in Buf : x # b => d.buf[x] = c.buf[x]
  /\ d.buf[b].blk = c.buf[b].blk /\ d.buf[b].cur = c.buf[b].cur
  /\ d.buf[b].flags = (c.buf[b].flags \ {"VFLUSH"}) \cup {"AGE"}

(* CLR(B_VFLUSH) and SET(B_AGE) do this.                                    *)
LEMMA AgedIs ==
  ASSUME NEW c \in Cache, NEW b \in Buf, NEW d,
         d = SetFlags(ClrFlags(c, b, {"VFLUSH"}), b, {"AGE"})
  PROVE  Aged(c, d, b)
<1> DEFINE e == ClrFlags(c, b, {"VFLUSH"})
<1>1. /\ e \in Cache /\ SameRest(c, e)
      /\ Becomes(c, e, b, Flagged(c.buf[b], c.buf[b].flags \ {"VFLUSH"}))
  BY ClrFlagsIs
<1>2. c.buf[b] \in Buffer /\ c.buf[b].flags \ {"VFLUSH"} \in SUBSET Flag
  BY CacheType
<1>3. /\ e.buf[b].flags = c.buf[b].flags \ {"VFLUSH"} /\ e.buf[b].blk = c.buf[b].blk
      /\ e.buf[b].cur = c.buf[b].cur
  BY <1>1, <1>2, FlaggedIs DEF Becomes
<1>4. d = SetFlags(e, b, {"AGE"})
  OBVIOUS
<1> HIDE DEF e
<1>5. {"AGE"} \in SUBSET Flag
  BY DEF Flag
<1>6. /\ d \in Cache /\ SameRest(e, d)
      /\ Becomes(e, d, b, Flagged(e.buf[b], e.buf[b].flags \cup {"AGE"}))
  BY <1>1, <1>4, <1>5, SetFlagsIs
<1>7. e.buf[b] \in Buffer /\ e.buf[b].flags \cup {"AGE"} \in SUBSET Flag
  BY <1>1, <1>5, CacheType
<1>8. /\ d.buf[b].flags = e.buf[b].flags \cup {"AGE"} /\ d.buf[b].blk = e.buf[b].blk
      /\ d.buf[b].cur = e.buf[b].cur
  BY <1>6, <1>7, FlaggedIs DEF Becomes
<1> QED
  BY <1>1, <1>3, <1>6, <1>8 DEF Aged, SameRest, Becomes

(* A buffer that is being flushed in place is taken off its list.           *)
LEMMA SkipFlushed ==
  ASSUME NEW c, NEW H, CacheOK(c, H), NEW B, CopiesOK(c, B), NEW b \in Buf, On(c, b),
         Is(c, b, "VFLUSH"), NEW d, d = SetFlags(ClrFlags(bremfree(c, b), b, {"VFLUSH"}), b, {"AGE"})
  PROVE  Onward(c, d, H, B) /\ Free(d) = Free(c) - 1
<1> DEFINE e == bremfree(c, b)
<1>1. c \in Cache /\ Lists(c) /\ Named1(c) /\ c.numoutput = Cardinality(Writing(c)) /\ BufOK(c, b, b \in H)
  BY DEF CacheOK
<1>2. Unlinked(c, e, b)
  BY <1>1, BremfreeIs
<1>3. OthersOK(c, H, b)
  BY WithoutOne
<1>4. d = SetFlags(ClrFlags(e, b, {"VFLUSH"}), b, {"AGE"})
  OBVIOUS
<1> HIDE DEF e
<1>5. OthersOK(e, H, b) /\ Local(c, e, b) /\ CopiesOK(e, B) /\ Smooth(c, e, Buf)
  BY <1>2, <1>3, UnlinkedOK
<1>6. e \in Cache /\ e.buf = c.buf /\ e.io = c.io /\ ~On(e, b) /\ e.numoutput = Cardinality(Writing(e))
      /\ Lists(e) /\ Named1(e)
  BY <1>2, <1>5 DEF Unlinked, OthersOK
<1>7. Aged(e, d, b)
  BY <1>4, <1>6, AgedIs
<1>8. \A f : Is(d, b, f) <=> (Is(e, b, f) /\ f # "VFLUSH") \/ f = "AGE"
  BY <1>7 DEF Aged, Is
<1>9. Local(e, d, b) /\ ~On(d, b) /\ d.io = e.io /\ d.numoutput = e.numoutput
  BY <1>6, <1>7 DEF Local, Aged, SameRest, Lists, On
<1>10. BufOK(d, b, b \in H)
  <2>1. \A f : Is(e, b, f) <=> Is(c, b, f)
    BY <1>6 DEF Is
  <2>2. d.buf[b].blk = c.buf[b].blk
    BY <1>6, <1>7 DEF Aged
  <2> QED
    BY <1>1, <1>6, <1>8, <1>9, <2>1, <2>2 DEF BufOK
<1>11. Cardinality(Writing(d)) = d.numoutput
  <2>1. b \in Writing(d) <=> b \in Writing(e)
    BY <1>8, <1>9 DEF Writing
  <2> QED
    BY <1>6, <1>9, <2>1, WritesCounted
<1>12. CacheOK(d, H)
  <2>1. \A x \in Buf : x # b /\ e.buf[x].blk = d.buf[b].blk => d.buf[b].blk = NoBlock
    BY <1>6, <1>7 DEF Named1, Aged
  <2> QED
    BY <1>5, <1>9, <1>10, <1>11, <2>1, LocalOK
<1>13. CopiesOK(d, B)
  <2>1. (Copy(d, b) <=> Copy(e, b)) /\ (Unsaved(e, b) <=> Unsaved(d, b))
    BY <1>8, <1>9 DEF Copy, Unsaved, Valid
  <2>2. d.buf[b].blk = e.buf[b].blk /\ d.buf[b].cur = e.buf[b].cur
    BY <1>7 DEF Aged
  <2>3. Is(d, b, "DELWRI") \/ b \in Writing(d) => ~Is(d, b, "ERROR")
    BY <1>5, <1>8, <1>9 DEF CopiesOK, Writing
  <2>4. d.buf[b].blk # NoBlock /\ Copy(d, b) => d.buf[b].cur
    BY <1>5, <2>1, <2>2 DEF CopiesOK
  <2> QED
    BY <1>5, <1>9, <2>1, <2>2, <2>3, <2>4, LocalCopies
<1>14. ASSUME NEW x \in Buf
       PROVE  /\ Calm(e, d, x)
              /\ Is(e, x, "BUSY") /\ Is(e, x, "WANTED") => Is(d, x, "BUSY") /\ Is(d, x, "WANTED")
              /\ x \in e.io /\ ~Is(e, x, "ASYNC") => x \in d.io /\ ~Is(d, x, "ASYNC")
  <2>1. CASE x = b
    BY <1>8, <1>9, <2>1 DEF Calm, Valid
  <2>2. CASE x # b
    BY <1>9, <2>2 DEF Calm, Valid, Local, Is
  <2> QED
    BY <2>1, <2>2
<1>15. Heeds(e, d)
  BY <1>7, <1>14 DEF Heeds, Aged, SameRest
<1>16. Smooth(c, d, H)
  <2>1. Smooth(e, d, H) /\ Smooth(c, e, H)
    BY <1>5, <1>14, <1>15 DEF Smooth
  <2> QED
    BY <2>1, SmoothTwice
<1>17. SameNames(c, d)
  <2> SUFFICES ASSUME NEW x \in Buf PROVE d.buf[x].blk = c.buf[x].blk
    BY DEF SameNames
  <2>1. CASE x = b
    BY <1>6, <1>7, <2>1 DEF Aged
  <2>2. CASE x # b
    BY <1>6, <1>7, <2>2 DEF Aged
  <2> QED
    BY <2>1, <2>2
<1>18. Free(d) = Free(c) - 1
  <2>1. Free(e) = Free(c) - 1
    BY <1>2, Zenon DEF Unlinked, Free
  <2>2. Free(d) = Free(e)
    BY <1>7 DEF Aged, SameRest, Free
  <2> QED
    BY <2>1, <2>2
<1> QED
  BY <1>12, <1>13, <1>16, <1>17, <1>18 DEF Onward

(* One with a delayed write is written out.                                 *)
LEMMA SkipDelayed ==
  ASSUME NEW c, NEW H, CacheOK(c, H), NEW B, CopiesOK(c, B), NEW b \in Buf, On(c, b),
         ~Is(c, b, "VFLUSH"), Is(c, b, "DELWRI"),
         NEW d, d = bawrite(SetFlags(bremfree(c, b), b, {"BUSY", "AGE"}), b)
  PROVE  Onward(c, d, H, B) /\ Free(d) = Free(c) - 1
<1> DEFINE e == bremfree(c, b)
           g == SetFlags(e, b, {"BUSY", "AGE"})
<1>1. c \in Cache /\ Lists(c) /\ BufOK(c, b, b \in H)
  BY DEF CacheOK
<1>2. Unlinked(c, e, b)
  BY <1>1, BremfreeIs
<1>3. OthersOK(c, H, b)
  BY WithoutOne
<1>4. d = bawrite(g, b)
  OBVIOUS
<1>5. g = SetFlags(e, b, {"BUSY", "AGE"})
  OBVIOUS
<1> HIDE DEF e, g
<1>6. OthersOK(e, H, b) /\ CopiesOK(e, B) /\ Smooth(c, e, Buf)
  BY <1>2, <1>3, UnlinkedOK
<1>7. /\ ~Is(c, b, "BUSY") /\ b \notin c.io /\ b \notin H /\ c.buf[b].blk # NoBlock
      /\ ~Is(c, b, "INVAL")
  BY <1>1 DEF BufOK
<1>8. c.buf[b].cur
  BY <1>7 DEF CopiesOK, Copy, Valid
<1>9. e \in Cache /\ e.buf = c.buf /\ e.io = c.io /\ ~On(e, b) /\ Free(e) = Free(c) - 1
  BY <1>2, Zenon DEF Unlinked, Free
<1>10. Marked(e, g, b, {"BUSY", "AGE"}, H, B)
  BY <1>5, <1>6, <1>7, <1>9, SetFlagsOK
<1>11. /\ OthersOK(g, H, b) /\ CopiesOK(g, B) /\ Smooth(e, g, Buf)
       /\ g.io = e.io /\ g.age = e.age /\ g.lru = e.lru
       /\ g.buf[b].blk = c.buf[b].blk /\ g.buf[b].cur
       /\ \A x \in Buf : x # b => g.buf[x] = c.buf[x]
  BY <1>8, <1>9, <1>10 DEF Marked, SameRest, Local
<1>12. Is(g, b, "BUSY") /\ ~Is(g, b, "INVAL") /\ ~Is(g, b, "VFLUSH")
  <2>1. \A f : Is(e, b, f) <=> Is(c, b, f)
    BY <1>9 DEF Is
  <2> QED
    BY <1>7, <1>10, <2>1 DEF Marked
<1>13. ~On(g, b)
  BY <1>9, <1>11 DEF On
<1>14. Onward(g, d, H, B \cup {g.buf[b].blk}) /\ Free(d) = Free(g)
  BY <1>4, <1>7, <1>9, <1>11, <1>12, <1>13, BawriteOK
<1>15. CacheOK(d, H) /\ CopiesOK(d, B) /\ Smooth(g, d, H)
  BY <1>14 DEF CopiesOK, Onward
<1>16. Smooth(c, d, H)
  <2>1. Smooth(c, e, H) /\ Smooth(e, g, H)
    BY <1>6, <1>11 DEF Smooth
  <2> QED
    BY <1>15, <2>1, SmoothTwice
<1>17. SameNames(c, d)
  BY <1>11, <1>14 DEF SameNames, Onward
<1>18. Free(d) = Free(c) - 1
  <2>1. Free(g) = Free(e)
    BY <1>11 DEF Free
  <2> QED
    BY <1>9, <1>14, <2>1
<1> QED
  BY <1>15, <1>16, <1>17, <1>18 DEF Onward

(* One round of the loop.                                                   *)
LEMMA SkipFirstOK ==
  ASSUME NEW c, NEW H, CacheOK(c, H), NEW B, CopiesOK(c, B), MustSkip(c)
  PROVE  Onward(c, SkipFirst(c), H, B) /\ Free(SkipFirst(c)) = Free(c) - 1
<1> DEFINE b == Head(c.age \o c.lru)
<1>1. c \in Cache
  BY DEF CacheOK
<1>2. b \in Buf /\ On(c, b)
  BY <1>1, CacheType, FirstFree DEF MustSkip, On
<1>3. Is(c, b, "VFLUSH") \/ Is(c, b, "DELWRI")
  BY DEF MustSkip
<1>4. CASE Is(c, b, "VFLUSH")
  <2>1. SkipFirst(c) = SetFlags(ClrFlags(bremfree(c, b), b, {"VFLUSH"}), b, {"AGE"})
    BY <1>4 DEF SkipFirst
  <2> HIDE DEF b
  <2> QED
    BY <1>2, <1>4, <2>1, SkipFlushed
<1>5. CASE ~Is(c, b, "VFLUSH")
  <2>1. SkipFirst(c) = bawrite(SetFlags(bremfree(c, b), b, {"BUSY", "AGE"}), b)
    BY <1>5 DEF SkipFirst
  <2> HIDE DEF b
  <2> QED
    BY <1>2, <1>3, <1>5, <2>1, SkipDelayed
<1> QED
  BY <1>4, <1>5

-----------------------------------------------------------------------------
(* Induction, for the loops.                                                *)

(* A set of naturals that contains 0 and, up to N, the successor of each of *)
(* its members, contains all up to N.                                       *)
LEMMA LoopInduction ==
  ASSUME NEW N \in Nat, NEW S, 0 \in S, \A n \in 1 .. N : n - 1 \in S => n \in S
  PROVE  0 .. N \subseteq S
<1> DEFINE R == OpToRel(<, Nat)
           T == {n \in Nat : n <= N /\ n \notin S}
<1>1. IsWellFoundedOn(R, Nat)
  BY NatLessThanWellFounded, Zenon
<1>2. \A x, y \in Nat : x < y => <<x, y>> \in R
  BY DEF OpToRel
<1> HIDE DEF R
<1>3. T = {}
  <2> SUFFICES ASSUME T # {} PROVE FALSE
    OBVIOUS
  <2>1. T \subseteq Nat
    OBVIOUS
  <2>2. PICK x \in T : \A y \in T : ~(<<y, x>> \in R)
    <3> HIDE DEF T
    <3> QED
      BY <1>1, <2>1, WFMin
  <2>3. x \in 1 .. N /\ x - 1 \in Nat /\ x - 1 < x /\ x - 1 <= N
    BY <2>2
  <2>4. x - 1 \in S
    BY <1>2, <2>2, <2>3
  <2> QED
    BY <2>2, <2>3, <2>4
<1> QED
  BY <1>3

(* There are no more free buffers than buffers.                             *)
LEMMA FreeBound ==
  ASSUME NEW c \in Cache, Lists(c)
  PROVE  Free(c) \in Nat /\ Free(c) <= Cardinality(Buf) /\ Cardinality(Buf) \in Nat
<1> DEFINE A == Len(c.age)
           Z == Len(c.lru)
           N == A + Z
           f == [i \in 1 .. N |-> IF i <= A THEN c.age[i] ELSE c.lru[i - A]]
<1>1. /\ A \in Nat /\ Z \in Nat
      /\ \A i \in 1 .. A : c.age[i] \in Buf
      /\ \A i \in 1 .. Z : c.lru[i] \in Buf
  <2>1. c.age \in Seq(Buf) /\ c.lru \in Seq(Buf)
    BY CacheType
  <2> QED
    BY <2>1
<1>0. /\ \A i, j \in 1 .. A : c.age[i] = c.age[j] => i = j
      /\ \A i, j \in 1 .. Z : c.lru[i] = c.lru[j] => i = j
      /\ \A i \in 1 .. A, j \in 1 .. Z : c.age[i] \in Buf => c.age[i] # c.lru[j]
  <2>1. \A i \in 1 .. A, j \in 1 .. Z : c.age[i] \in Buf => c.age[i] # c.lru[j]
    BY DEF Lists, In
  <2> QED
    BY <2>1 DEF Lists, Once
<1>10. Free(c) = N
  BY DEF Free
<1> HIDE DEF A, Z
<1>2. ASSUME NEW i \in 1 .. N
      PROVE  /\ i <= A => i \in 1 .. A
             /\ ~(i <= A) => i - A \in 1 .. Z
  BY <1>1
<1>3. f \in [1 .. N -> Buf]
  <2>1. ASSUME NEW i \in 1 .. N PROVE f[i] \in Buf
    BY <1>1, <1>2
  <2> QED
    BY <2>1
<1>4. ASSUME NEW i \in 1 .. N, NEW j \in 1 .. N, f[i] = f[j] PROVE i = j
  <2>1. CASE i <= A /\ j <= A
    BY <1>0, <1>2, <1>4, <2>1
  <2>2. CASE ~(i <= A) /\ ~(j <= A)
    <3>1. i - A = j - A
      BY <1>0, <1>2, <1>4, <2>2
    <3> QED
      BY <1>1, <3>1
  <2>3. CASE i <= A /\ ~(j <= A)
    BY <1>0, <1>1, <1>2, <1>4, <2>3
  <2>4. CASE ~(i <= A) /\ j <= A
    BY <1>0, <1>1, <1>2, <1>4, <2>4
  <2> QED
    BY <2>1, <2>2, <2>3, <2>4
<1>5. N \in Nat
  BY <1>1
<1> HIDE DEF f, N
<1>6. f \in Injection(1 .. N, Buf)
  BY <1>3, <1>4, Fun_IsInj
<1>7. Cardinality(1 .. N) <= Cardinality(Buf)
  BY <1>6, BufAssumption, FS_Injection
<1>8. Cardinality(1 .. N) = IF 1 > N THEN 0 ELSE N - 1 + 1
  BY <1>5, FS_Interval
<1>9. Cardinality(Buf) \in Nat
  BY BufAssumption, FS_CardinalityType
<1> QED
  BY <1>10, <1>5, <1>7, <1>8, <1>9

(* g has the cache after each round of the loop of getnewbuf(), up to n.    *)
SkipsTo(g, c, n) ==
  g = [i \in 0 .. n |->
        IF i = 0 THEN c
        ELSE IF MustSkip(g[i - 1]) /\ ~(StrategySleeps /\ g[i - 1].numoutput > c.numoutput)
             THEN SkipFirst(g[i - 1]) ELSE g[i - 1]]

(* There is such a function for any number of rounds.                       *)
LEMMA SkipsExist ==
  ASSUME NEW c, NEW N \in Nat
  PROVE  \E g : SkipsTo(g, c, N)
<1> DEFINE S == {n \in 0 .. N : \E g : SkipsTo(g, c, n)}
           Next1(x) == IF MustSkip(x) /\ ~(StrategySleeps /\ x.numoutput > c.numoutput)
                       THEN SkipFirst(x) ELSE x
<1>1. 0 \in S
  <2> DEFINE z == [i \in 0 .. 0 |-> c]
  <2>1. SkipsTo(z, c, 0)
    BY DEF SkipsTo
  <2> QED
    BY <2>1
<1>2. ASSUME NEW n \in 1 .. N, n - 1 \in S PROVE n \in S
  <2>1. PICK g : SkipsTo(g, c, n - 1)
    BY <1>2
  <2> DEFINE h == [i \in 0 .. n |-> IF i = n THEN Next1(g[n - 1]) ELSE g[i]]
  <2>2. \A i \in 0 .. n - 1 : g[i] = IF i = 0 THEN c ELSE Next1(g[i - 1])
    BY <2>1 DEF SkipsTo
  <2>3. \A i \in 0 .. n : h[i] = IF i = 0 THEN c ELSE Next1(h[i - 1])
    <3> HIDE DEF Next1
    <3> QED
      BY <2>2
  <2>4. SkipsTo(h, c, n)
    BY <2>3 DEF SkipsTo
  <2> QED
    BY <2>4
<1>3. 0 .. N \subseteq S
  <2> HIDE DEF S
  <2> QED
    BY <1>1, <1>2, LoopInduction
<1> QED
  BY <1>3

(* One piece of work after the other.                                       *)
LEMMA OnwardTwice ==
  ASSUME NEW c, NEW d, NEW e, NEW H, NEW B, Onward(c, d, H, B), Onward(d, e, H, B)
  PROVE  Onward(c, e, H, B)
<1>1. Smooth(c, e, H)
  BY SmoothTwice DEF Onward
<1> QED
  BY <1>1 DEF Onward, SameNames

(* The loop of getnewbuf() ends at a buffer that can be taken, or at empty  *)
(* lists.                                                                   *)
LEMMA SkippedOK ==
  ASSUME ~StrategySleeps, NEW c, NEW H, CacheOK(c, H), NEW B, CopiesOK(c, B),
         NEW d, d = Skipped(c)
  PROVE  Onward(c, d, H, B) /\ ~MustSkip(d)
<1> DEFINE N == Cardinality(Buf)
<1>1. c \in Cache /\ Lists(c)
  BY DEF CacheOK
<1>2. Free(c) <= N /\ N \in Nat
  BY <1>1, FreeBound
<1>3. d = (CHOOSE g : SkipsTo(g, c, N))[N]
  BY Zenon DEF Skipped, SkipsTo
<1> HIDE DEF N
<1>4. PICK g : SkipsTo(g, c, N) /\ d = g[N]
  BY <1>2, <1>3, SkipsExist
<1>5. /\ g[0] = c
      /\ \A i \in 1 .. N : g[i] = IF MustSkip(g[i - 1]) THEN SkipFirst(g[i - 1]) ELSE g[i - 1]
  <2>1. \A i \in 0 .. N : g[i] = IF i = 0 THEN c
        ELSE IF MustSkip(g[i - 1]) /\ ~(StrategySleeps /\ g[i - 1].numoutput > c.numoutput)
             THEN SkipFirst(g[i - 1]) ELSE g[i - 1]
    BY <1>4 DEF SkipsTo
  <2> QED
    BY <1>2, <2>1
<1> DEFINE P(n) == Onward(c, g[n], H, B) /\ (~MustSkip(g[n]) \/ Free(g[n]) <= N - n)
           S == {n \in 0 .. N : P(n)}
<1>6. 0 \in S
  <2>1. Onward(c, c, H, B)
    BY SmoothSame DEF Onward, SameNames
  <2> QED
    BY <1>2, <1>5, <2>1
<1>7. ASSUME NEW n \in 1 .. N, n - 1 \in S PROVE n \in S
  <2>1. Onward(c, g[n - 1], H, B) /\ (~MustSkip(g[n - 1]) \/ Free(g[n - 1]) <= N - (n - 1))
    BY <1>7
  <2>2. CacheOK(g[n - 1], H) /\ CopiesOK(g[n - 1], B)
    BY <2>1 DEF Onward
  <2>3. CASE MustSkip(g[n - 1])
    <3>1. g[n] = SkipFirst(g[n - 1])
      BY <1>5, <2>3
    <3>2. Onward(g[n - 1], g[n], H, B) /\ Free(g[n]) = Free(g[n - 1]) - 1
      BY <2>2, <2>3, <3>1, SkipFirstOK
    <3>3. Free(g[n - 1]) \in Nat
      BY <2>2, FreeBound DEF CacheOK
    <3>4. Onward(c, g[n], H, B)
      BY <2>1, <3>2, OnwardTwice
    <3>5. Free(g[n]) <= N - n
      BY <1>2, <2>1, <2>3, <3>2, <3>3
    <3> QED
      BY <3>4, <3>5
  <2>4. CASE ~MustSkip(g[n - 1])
    <3>1. g[n] = g[n - 1]
      BY <1>5, <2>4
    <3> QED
      BY <2>1, <2>4, <3>1
  <2> QED
    BY <2>3, <2>4
<1>8. 0 .. N \subseteq S
  <2> HIDE DEF S
  <2> QED
    BY <1>2, <1>6, <1>7, LoopInduction
<1>9. Onward(c, d, H, B) /\ (~MustSkip(d) \/ Free(d) <= N - N)
  BY <1>2, <1>4, <1>8
<1>10. d \in Cache /\ Lists(d)
  BY <1>9 DEF Onward, CacheOK
<1>11. d.age \in Seq(Buf) /\ d.lru \in Seq(Buf)
  BY <1>10, CacheType
<1>12. Free(d) <= 0 => d.age = <<>> /\ d.lru = <<>>
  <2> DEFINE A == Len(d.age)
             Z == Len(d.lru)
  <2>1. /\ A \in Nat /\ Z \in Nat /\ Free(d) = A + Z
        /\ A = 0 => d.age = <<>>
        /\ Z = 0 => d.lru = <<>>
    BY <1>11 DEF Free
  <2> HIDE DEF A, Z
  <2> QED
    BY <2>1
<1>13. d.age = <<>> /\ d.lru = <<>> => ~MustSkip(d)
  BY <1>11, FirstFree DEF MustSkip
<1> QED
  BY <1>2, <1>9, <1>12, <1>13

-----------------------------------------------------------------------------
(* getblk().                                                                *)

(* r is what getblk() gives for the cache c: what to sleep on, remembered   *)
(* in the cache, or a buffer that nobody else has.                          *)
Asleep(c, r, H, B) ==
  /\ r.bp = NoBuf /\ r.sleep \in Buf \cup {NeedBuffer}
  /\ CacheOK(r.k, H) /\ CopiesOK(r.k, B) /\ Smooth(c, r.k, H)
  /\ r.sleep \in Buf => Is(r.k, r.sleep, "BUSY") /\ Is(r.k, r.sleep, "WANTED")
  /\ r.sleep = NeedBuffer => r.k.needbuffer /\ r.k.age = <<>> /\ r.k.lru = <<>>

Given(c, r, H, B) ==
  /\ r.bp \in Buf /\ r.bp \notin H /\ r.bp \notin r.k.io
  /\ CacheOK(r.k, H \cup {r.bp}) /\ CopiesOK(r.k, B) /\ Smooth(c, r.k, H)

Gave(c, r, H, B) == Asleep(c, r, H, B) \/ Given(c, r, H, B)

(* The flags of the cache say nothing of the buffers.                       *)
LEMMA BesideOK ==
  ASSUME NEW c, NEW H, CacheOK(c, H), NEW B, CopiesOK(c, B), NEW d \in Cache, d.buf = c.buf,
         d.age = c.age, d.lru = c.lru, d.numoutput = c.numoutput, d.io = c.io
  PROVE  CacheOK(d, H) /\ CopiesOK(d, B)
<1>1. \A x, f : Is(d, x, f) <=> Is(c, x, f)
  BY DEF Is
<1>2. Writing(d) = Writing(c) /\ \A x : On(d, x) <=> On(c, x)
  BY DEF Writing, Is, On
<1>3. ASSUME NEW x \in Buf PROVE BufOK(d, x, x \in H)
  <2>1. BufOK(c, x, x \in H)
    BY DEF CacheOK
  <2> QED
    BY <1>1, <1>2, <2>1 DEF BufOK
<1>4. Lists(d) /\ Named1(d)
  BY DEF CacheOK, Lists, Named1
<1>5. CacheOK(d, H)
  BY <1>2, <1>3, <1>4 DEF CacheOK
<1>6. CopiesOK(d, B)
  BY <1>1, <1>2 DEF CopiesOK, Copy, Unsaved, Valid
<1> QED
  BY <1>5, <1>6

(* needbuffer is set.                                                       *)
LEMMA NeedIs ==
  ASSUME NEW c \in Cache, NEW d, d = [c EXCEPT !.needbuffer = TRUE]
  PROVE  /\ d \in Cache /\ d.buf = c.buf /\ d.age = c.age /\ d.lru = c.lru /\ d.needbuffer = TRUE
         /\ d.numoutput = c.numoutput /\ d.vbwait = c.vbwait /\ d.io = c.io /\ d.wake = c.wake
BY DEF Cache

(* getnewbuf() finds nothing.                                               *)
LEMMA NeedOK ==
  ASSUME NEW c, NEW H, CacheOK(c, H), NEW B, CopiesOK(c, B), c.age = <<>>, c.lru = <<>>,
         NEW d, d = [c EXCEPT !.needbuffer = TRUE]
  PROVE  /\ CacheOK(d, H) /\ CopiesOK(d, B) /\ Smooth(c, d, H)
         /\ d.needbuffer /\ d.age = <<>> /\ d.lru = <<>>
<1>1. c \in Cache
  BY DEF CacheOK
<1>2. /\ d \in Cache /\ d.buf = c.buf /\ d.age = c.age /\ d.lru = c.lru /\ d.needbuffer = TRUE
      /\ d.numoutput = c.numoutput /\ d.vbwait = c.vbwait /\ d.io = c.io /\ d.wake = c.wake
  BY <1>1, NeedIs
<1>3. CacheOK(d, H) /\ CopiesOK(d, B)
  BY <1>2, BesideOK
<1>4. Smooth(c, d, H)
  BY <1>2 DEF Smooth, Heeds, Calm, Valid, Is
<1> QED
  BY <1>2, <1>3, <1>4

(* The buffer b is taken and given a new name.                              *)
Fresh(c, b, blk) ==
  [bremfree(c, b) EXCEPT !.buf[b] = [blk |-> blk, flags |-> {"BUSY"}, cur |-> TRUE]]

(* It is its holder's, and has no contents.                                 *)
LEMMA FreshOK ==
  ASSUME NEW c, NEW H, CacheOK(c, H), NEW B, CopiesOK(c, B), NEW b \in Buf, On(c, b),
         ~Is(c, b, "VFLUSH"), ~Is(c, b, "DELWRI"), NEW blk \in Block,
         \A x \in Buf : c.buf[x].blk # blk,
         NEW d, d = Fresh(c, b, blk)
  PROVE  /\ b \notin H /\ b \notin d.io /\ CacheOK(d, H \cup {b}) /\ CopiesOK(d, B)
         /\ Smooth(c, d, H)
<1> DEFINE e == bremfree(c, b)
           y == [blk |-> blk, flags |-> {"BUSY"}, cur |-> TRUE]
<1>1. c \in Cache /\ Lists(c) /\ BufOK(c, b, b \in H)
  BY DEF CacheOK
<1>2. Unlinked(c, e, b)
  BY <1>1, BremfreeIs
<1>3. d = [e EXCEPT !.buf = [e.buf EXCEPT ![b] = y]]
  BY Zenon DEF Fresh
<1>4. y \in Buffer /\ y.blk = blk /\ y.flags = {"BUSY"} /\ y.cur = TRUE
  BY DEF Buffer, Flag
<1> HIDE DEF e, y
<1>5. b \notin H /\ b \notin c.io /\ blk # NoBlock
  BY <1>1, BufAssumption DEF BufOK
<1>6. OthersOK(c, H \cup {b}, b)
  BY WithoutOne
<1>7. OthersOK(e, H \cup {b}, b) /\ CopiesOK(e, B) /\ Smooth(c, e, Buf)
  BY <1>2, <1>6, UnlinkedOK
<1>8. e \in Cache /\ Lists(e) /\ e.buf = c.buf /\ e.io = c.io /\ ~On(e, b)
      /\ e.numoutput = Cardinality(Writing(e))
  BY <1>2, <1>7 DEF Unlinked, OthersOK
<1>9. d \in Cache /\ Becomes(e, d, b, y) /\ SameRest(e, d)
  BY <1>3, <1>4, <1>8, WithIs
<1>10. \A f : Is(d, b, f) <=> f = "BUSY"
  BY <1>4, <1>9 DEF Is, Becomes
<1>11. Local(e, d, b) /\ d.io = c.io /\ ~On(d, b) /\ d.numoutput = e.numoutput
  BY <1>8, <1>9 DEF Local, Becomes, SameRest, Lists, On
<1>12. d.buf[b].blk = blk
  BY <1>4, <1>9 DEF Becomes
<1>13. BufOK(d, b, b \in H \cup {b})
  BY <1>5, <1>10, <1>11, <1>12 DEF BufOK
<1>14. Cardinality(Writing(d)) = d.numoutput
  <2>1. b \notin Writing(e) /\ b \notin Writing(d)
    BY <1>5, <1>8, <1>11 DEF Writing
  <2> QED
    BY <1>8, <1>11, <2>1, WritesCounted
<1>15. CacheOK(d, H \cup {b})
  <2>1. \A x \in Buf : x # b /\ e.buf[x].blk = d.buf[b].blk => d.buf[b].blk = NoBlock
    BY <1>8, <1>12
  <2> DEFINE G == H \cup {b}
  <2>2. OthersOK(e, G, b) /\ BufOK(d, b, b \in G) /\ d.numoutput = Cardinality(Writing(d))
    BY <1>7, <1>13, <1>14
  <2> HIDE DEF G
  <2>3. CacheOK(d, G)
    BY <1>11, <2>1, <2>2, LocalOK
  <2> QED
    BY <2>3 DEF G
<1>16. CopiesOK(d, B)
  <2>1. ~Copy(d, b)
    BY <1>5, <1>10, <1>11 DEF Copy, Valid
  <2>2. ~Unsaved(e, b)
    BY <1>5, <1>8 DEF Unsaved, Is
  <2>3. ~Is(d, b, "DELWRI") /\ b \notin Writing(d)
    BY <1>5, <1>10, <1>11 DEF Writing
  <2> QED
    BY <1>7, <1>11, <2>1, <2>2, <2>3, LocalCopies
<1>17. ASSUME NEW x \in Buf
       PROVE  /\ x # b => Calm(e, d, x)
              /\ Is(e, x, "BUSY") /\ Is(e, x, "WANTED") => Is(d, x, "BUSY") /\ Is(d, x, "WANTED")
              /\ x \in e.io /\ ~Is(e, x, "ASYNC") => x \in d.io /\ ~Is(d, x, "ASYNC")
  <2>1. CASE x = b
    <3>1. ~Is(e, b, "BUSY")
      BY <1>1, <1>8 DEF BufOK, Is
    <3> QED
      BY <1>5, <1>8, <2>1, <3>1
  <2>2. CASE x # b
    BY <1>11, <2>2 DEF Calm, Valid, Local, Is
  <2> QED
    BY <2>1, <2>2
<1>18. Heeds(e, d)
  BY <1>9, <1>17 DEF Heeds, SameRest
<1>19. Smooth(c, d, H)
  <2>1. Smooth(e, d, H) /\ Smooth(c, e, H)
    BY <1>5, <1>7, <1>17, <1>18 DEF Smooth
  <2> QED
    BY <2>1, SmoothTwice
<1> QED
  BY <1>5, <1>11, <1>15, <1>16, <1>19

(* getnewbuf() for a block that no buffer has.                              *)
LEMMA GetnewbufOK ==
  ASSUME ~StrategySleeps, NEW c, NEW H, CacheOK(c, H), NEW B, CopiesOK(c, B),
         NEW blk \in Block, \A x \in Buf : c.buf[x].blk # blk, NEW r, r = getnewbuf(c, blk)
  PROVE  Gave(c, r, H, B)
<1> DEFINE d == Skipped(c)
           b == Head(d.age \o d.lru)
           n == [d EXCEPT !.needbuffer = TRUE]
           e == Fresh(d, b, blk)
<1>1. Onward(c, d, H, B) /\ ~MustSkip(d)
  BY SkippedOK
<1>2. r = IF d.age \o d.lru = <<>> THEN [k |-> n, bp |-> NoBuf, sleep |-> NeedBuffer]
          ELSE [k |-> e, bp |-> b, sleep |-> NoChan]
  BY Zenon DEF getnewbuf, Fresh
<1> HIDE DEF d
<1>3. CacheOK(d, H) /\ CopiesOK(d, B) /\ Smooth(c, d, H) /\ SameNames(c, d)
  BY <1>1 DEF Onward
<1>4. d \in Cache /\ d.age \in Seq(Buf) /\ d.lru \in Seq(Buf)
  BY <1>3, CacheType DEF CacheOK
<1>5. CASE d.age \o d.lru = <<>>
  <2>1. r.k = n /\ r.bp = NoBuf /\ r.sleep = NeedBuffer
    BY <1>2, <1>5
  <2>2. d.age = <<>> /\ d.lru = <<>>
    BY <1>4, <1>5, FirstFree
  <2>3. /\ CacheOK(n, H) /\ CopiesOK(n, B) /\ Smooth(d, n, H)
        /\ n.needbuffer /\ n.age = <<>> /\ n.lru = <<>>
    BY <1>3, <2>2, NeedOK
  <2> HIDE DEF n
  <2>4. Smooth(c, n, H)
    BY <1>3, <2>3, SmoothTwice
  <2>5. NeedBuffer \notin Buf
    BY BufAssumption
  <2> QED
    BY <2>1, <2>3, <2>4, <2>5 DEF Gave, Asleep
<1>6. CASE d.age \o d.lru # <<>>
  <2>1. r.k = e /\ r.bp = b
    <3> HIDE DEF e, b
    <3> QED
      BY <1>2, <1>6
  <2>2. b \in Buf /\ On(d, b)
    BY <1>4, <1>6, FirstFree DEF On
  <2>3. ~Is(d, b, "VFLUSH") /\ ~Is(d, b, "DELWRI")
    BY <1>1, <1>6 DEF MustSkip
  <2>4. \A x \in Buf : d.buf[x].blk # blk
    BY <1>3 DEF SameNames
  <2> HIDE DEF b
  <2>5. b \notin H /\ b \notin e.io /\ CacheOK(e, H \cup {b}) /\ CopiesOK(e, B) /\ Smooth(d, e, H)
    BY <1>3, <2>2, <2>3, <2>4, FreshOK
  <2> HIDE DEF e
  <2>6. Smooth(c, e, H)
    BY <1>3, <2>5, SmoothTwice
  <2> QED
    BY <2>1, <2>2, <2>5, <2>6 DEF Gave, Given
<1> QED
  BY <1>5, <1>6

(* getblk().                                                                *)
LEMMA GetblkOK ==
  ASSUME ~StrategySleeps, NEW c, NEW H, CacheOK(c, H), NEW B, CopiesOK(c, B),
         NEW blk \in Block, NEW r, r = getblk(c, blk)
  PROVE  Gave(c, r, H, B)
<1> DEFINE busy == {x \in Named(c, blk) : Is(c, x, "BUSY")}
           free == {x \in Named(c, blk) : ~Is(c, x, "BUSY") /\ ~Is(c, x, "INVAL")}
           b == CHOOSE x \in Named(c, blk) : x \in busy \cup free
           wait == SetFlags(c, b, {"WANTED"})
           take == bremfree(SetFlags(c, b, {"BUSY"}), b)
<1>1. r = IF busy # {} THEN [k |-> wait, bp |-> NoBuf, sleep |-> b]
          ELSE IF free # {} THEN [k |-> take, bp |-> b, sleep |-> NoChan]
          ELSE getnewbuf(c, blk)
  BY Zenon DEF getblk
<1>2. blk # NoBlock
  BY BufAssumption
<1>3. busy # {} \/ free # {} => b \in Named(c, blk) /\ b \in busy \cup free
  <2>1. busy \cup free \subseteq Named(c, blk)
    OBVIOUS
  <2> HIDE DEF busy, free
  <2> QED
    BY <2>1
<1>4. \A x, z \in Named(c, blk) : x = z
  BY <1>2 DEF Named, CacheOK, Named1
<1>5. Named(c, blk) \subseteq Buf /\ \A x \in Named(c, blk) : c.buf[x].blk = blk
  BY DEF Named
<1>6. CASE busy # {}
  <2>1. r.k = wait /\ r.bp = NoBuf /\ r.sleep = b
    BY <1>1, <1>6
  <2>2. b \in Buf /\ Is(c, b, "BUSY")
    BY <1>3, <1>4, <1>5, <1>6
  <2> HIDE DEF b
  <2>3. OthersOK(c, H, b) /\ BufOK(c, b, b \in H)
    BY <2>2, WithoutOne DEF CacheOK
  <2>4. Marked(c, wait, b, {"WANTED"}, H, B)
    BY <2>2, <2>3, SetFlagsOK
  <2> HIDE DEF wait
  <2>5. Is(wait, b, "BUSY") /\ Is(wait, b, "WANTED")
    BY <2>2, <2>4 DEF Marked
  <2>6. CacheOK(wait, H)
    <3>1. BufOK(wait, b, b \in H)
      BY <2>3, <2>4 DEF Marked, BufOK, SameRest, On
    <3> QED
      BY <2>4, <3>1 DEF Marked, OthersOK, CacheOK
  <2>7. CopiesOK(wait, B) /\ Smooth(c, wait, H)
    BY <2>4 DEF Marked, Smooth
  <2>8. b # NeedBuffer
    BY <2>2, BufAssumption
  <2> QED
    BY <2>1, <2>2, <2>5, <2>6, <2>7, <2>8 DEF Gave, Asleep
<1>7. CASE busy = {} /\ free # {}
  <2>1. r.k = take /\ r.bp = b
    BY <1>1, <1>7
  <2>2. b \in Buf /\ ~Is(c, b, "BUSY") /\ ~Is(c, b, "INVAL") /\ c.buf[b].blk = blk
    BY <1>3, <1>5, <1>7
  <2> HIDE DEF b
  <2> DEFINE e == SetFlags(c, b, {"BUSY"})
  <2>3. BufOK(c, b, b \in H)
    BY <2>2 DEF CacheOK
  <2>4. b \notin H /\ b \notin c.io /\ ~Is(c, b, "ASYNC") /\ ~Is(c, b, "VFLUSH")
    BY <2>2, <2>3 DEF BufOK
  <2>5. OthersOK(c, H \cup {b}, b)
    BY WithoutOne
  <2>6. Marked(c, e, b, {"BUSY"}, H \cup {b}, B)
    BY <2>2, <2>4, <2>5, SetFlagsOK
  <2>7. take = bremfree(e, b)
    OBVIOUS
  <2> HIDE DEF e, take
  <2>8. OthersOK(e, H \cup {b}, b) /\ CopiesOK(e, B) /\ Smooth(c, e, Buf) /\ e.io = c.io
        /\ e.buf[b].blk = blk
    BY <2>2, <2>6 DEF Marked, SameRest
  <2>9. Unlinked(e, take, b)
    BY <2>2, <2>7, <2>8, BremfreeIs DEF OthersOK
  <2>10. OthersOK(take, H \cup {b}, b) /\ CopiesOK(take, B) /\ Smooth(e, take, Buf)
    BY <2>2, <2>8, <2>9, UnlinkedOK
  <2>11. BufOK(take, b, b \in H \cup {b})
    <3>1. take.io = c.io /\ ~On(take, b) /\ take.buf[b].blk = blk
      BY <2>2, <2>8, <2>9 DEF Unlinked
    <3>2. \A f : Is(take, b, f) <=> Is(c, b, f) \/ f = "BUSY"
      <4>1. \A f : Is(take, b, f) <=> Is(e, b, f)
        BY <2>9 DEF Unlinked, Is
      <4> QED
        BY <2>6, <4>1 DEF Marked
    <3> QED
      BY <1>2, <2>2, <2>3, <2>4, <3>1, <3>2 DEF BufOK
  <2>12. CacheOK(take, H \cup {b})
    BY <2>10, <2>11 DEF OthersOK, CacheOK
  <2>13. Smooth(c, take, H)
    <3>1. Smooth(c, e, H) /\ Smooth(e, take, H)
      BY <2>8, <2>10 DEF Smooth
    <3> QED
      BY <3>1, SmoothTwice
  <2>14. b \notin take.io
    BY <2>4, <2>8, <2>9 DEF Unlinked
  <2> QED
    BY <2>1, <2>2, <2>4, <2>10, <2>12, <2>13, <2>14 DEF Gave, Given
<1>8. CASE busy = {} /\ free = {}
  <2>1. r = getnewbuf(c, blk)
    BY <1>1, <1>8
  <2>2. ASSUME NEW x \in Buf, c.buf[x].blk = blk PROVE FALSE
    <3>1. x \in Named(c, blk)
      BY <2>2 DEF Named
    <3>2. Is(c, x, "INVAL")
      BY <1>8, <3>1
    <3> QED
      BY <1>2, <2>2, <3>2 DEF CacheOK, BufOK
  <2> QED
    BY <2>1, <2>2, GetnewbufOK
<1> QED
  BY <1>6, <1>7, <1>8

-----------------------------------------------------------------------------
(* Reading.                                                                 *)

(* A buffer that a process holds.                                           *)
LEMMA HeldIs ==
  ASSUME NEW c, NEW H, CacheOK(c, H), NEW b \in Buf, b \in H
  PROVE  /\ Is(c, b, "BUSY") /\ ~Is(c, b, "ASYNC") /\ ~Is(c, b, "VFLUSH") /\ ~Is(c, b, "INVAL")
         /\ ~On(c, b) /\ c.buf[b].blk # NoBlock
<1>1. BufOK(c, b, b \in H)
  BY DEF CacheOK
<1> QED
  BY <1>1 DEF BufOK

(* What is not on the disk has a block.                                     *)
LEMMA NoBlockSaved ==
  ASSUME NEW c, NEW H, CacheOK(c, H), NEW B, CopiesOK(c, B)
  PROVE  NoBlock \notin B
<1> SUFFICES ASSUME NoBlock \in B PROVE FALSE
  OBVIOUS
<1>1. PICK b \in Buf : c.buf[b].blk = NoBlock /\ Unsaved(c, b)
  BY DEF CopiesOK
<1>2. BufOK(c, b, b \in H)
  BY DEF CacheOK
<1> QED
  BY <1>1, <1>2 DEF BufOK, Unsaved

(* A read of b is started.                                                  *)
StartRead(c, b, F) == [SetFlags(c, b, {"READ"} \cup F) EXCEPT !.io = @ \cup {b}]

(* The transfer is under way.                                               *)
LEMMA StartReadIs ==
  ASSUME NEW e \in Cache, NEW b \in Buf, NEW d, d = [e EXCEPT !.io = @ \cup {b}]
  PROVE  Started(e, d, b, e.buf[b].flags) /\ d.numoutput = e.numoutput
<1> DEFINE I == e.io \cup {b}
<1>1. I \in SUBSET Buf
  BY CacheType
<1>2. d = [e EXCEPT !.io = I]
  OBVIOUS
<1> HIDE DEF I
<1>3. /\ d \in Cache /\ d.buf = e.buf /\ d.age = e.age /\ d.lru = e.lru
      /\ d.needbuffer = e.needbuffer /\ d.vbwait = e.vbwait /\ d.wake = e.wake
      /\ d.io = I /\ d.numoutput = e.numoutput
  BY <1>1, <1>2 DEF Cache
<1> QED
  BY <1>3 DEF I, Started

(* The read belongs to the process that holds b, or is asynchronous.        *)
LEMMA StartReadOK ==
  ASSUME NEW c, NEW b \in Buf, NEW H, OthersOK(c, H, b), b \notin c.io, Is(c, b, "BUSY"),
         c.buf[b].blk # NoBlock, ~On(c, b), ~Is(c, b, "VFLUSH"), ~Is(c, b, "INVAL"),
         ~Is(c, b, "ASYNC"), ~Valid(c, b), NEW B, CopiesOK(c, B),
         NEW F, F = {} \/ F = {"ASYNC"}, b \in H <=> F = {}, NEW d, d = StartRead(c, b, F)
  PROVE  /\ CacheOK(d, H) /\ CopiesOK(d, B) /\ Smooth(c, d, H \ {b}) /\ b \in d.io
<1> DEFINE e == SetFlags(c, b, {"READ"} \cup F)
<1>1. Marked(c, e, b, {"READ"} \cup F, H, B)
  <2>1. {"READ"} \cup F \in SUBSET {"BUSY", "WANTED", "ASYNC", "AGE", "VFLUSH", "INVAL", "READ"}
    OBVIOUS
  <2> DEFINE G == {"READ"} \cup F
  <2>2. e = SetFlags(c, b, G)
    OBVIOUS
  <2> HIDE DEF G, e
  <2>3. Marked(c, e, b, G, H, B)
    BY <2>1, <2>2, SetFlagsOK DEF G
  <2> QED
    BY <2>3 DEF G
<1>2. d = [e EXCEPT !.io = @ \cup {b}]
  BY DEF StartRead
<1> HIDE DEF e
<1>3. e \in Cache /\ Lists(e) /\ Named1(e) /\ e.numoutput = Cardinality(Writing(e))
      /\ OthersOK(e, H, b) /\ CopiesOK(e, B)
  BY <1>1 DEF Marked, OthersOK
<1>4. Started(e, d, b, e.buf[b].flags) /\ d.numoutput = e.numoutput
  BY <1>2, <1>3, StartReadIs
<1>5. \A f : Is(d, b, f) <=> Is(c, b, f) \/ f = "READ" \/ (f = "ASYNC" /\ F = {"ASYNC"})
  BY <1>1, <1>4 DEF Marked, Started, Is
<1>6. Local(e, d, b)
  BY <1>3, <1>4 DEF Local, Started, Lists, On
<1>7. b \in d.io /\ d.buf[b].blk = c.buf[b].blk /\ ~On(d, b) /\ d.buf[b].cur = e.buf[b].cur
  BY <1>1, <1>4 DEF Started, Marked, SameRest, On
<1>8. BufOK(d, b, b \in H)
  BY <1>5, <1>7 DEF BufOK, Valid
<1>9. b \notin Writing(e) /\ b \notin Writing(d)
  BY <1>1, <1>5 DEF Writing, Marked
<1>10. d.numoutput = Cardinality(Writing(d))
  BY <1>3, <1>4, <1>6, <1>9, WritesCounted
<1>11. CacheOK(d, H)
  <2>1. d.buf[b].blk = e.buf[b].blk
    BY <1>4 DEF Started
  <2>2. \A x \in Buf : x # b /\ e.buf[x].blk = d.buf[b].blk => d.buf[b].blk = NoBlock
    BY <1>3, <2>1 DEF Named1
  <2> QED
    BY <1>3, <1>6, <1>8, <1>10, <2>2, LocalOK, SMTT(60)
<1>12. CopiesOK(d, B)
  <2>1. ~Copy(d, b) /\ ~Unsaved(e, b) /\ ~Is(d, b, "DELWRI")
    BY <1>1, <1>5 DEF Copy, Unsaved, Valid, Marked, SameRest
  <2> QED
    BY <1>3, <1>6, <1>9, <2>1, LocalCopies
<1>13. ASSUME NEW x \in Buf
       PROVE  /\ x # b => Calm(e, d, x)
              /\ Is(e, x, "BUSY") /\ Is(e, x, "WANTED") => Is(d, x, "BUSY") /\ Is(d, x, "WANTED")
              /\ x \in e.io /\ ~Is(e, x, "ASYNC") => x \in d.io /\ ~Is(d, x, "ASYNC")
  <2>1. CASE x = b
    BY <1>4, <1>7, <2>1 DEF Started, Is
  <2>2. CASE x # b
    BY <1>6, <2>2 DEF Calm, Valid, Local, Is
  <2> QED
    BY <2>1, <2>2
<1>14. Heeds(e, d)
  BY <1>4, <1>13 DEF Heeds, Started
<1>15. Smooth(c, d, H \ {b})
  <2>1. Smooth(e, d, H \ {b}) /\ Smooth(c, e, H \ {b})
    BY <1>1, <1>13, <1>14 DEF Smooth, Marked
  <2> QED
    BY <2>1, SmoothTwice
<1> QED
  BY <1>7, <1>11, <1>12, <1>15

(* bio_doread() for bread().                                                *)
LEMMA DoReadOK ==
  ASSUME NEW c, NEW H, CacheOK(c, H), NEW B, CopiesOK(c, B), NEW b \in Buf, b \in H,
         b \notin c.io, NEW d, d = DoRead(c, b, {})
  PROVE  /\ CacheOK(d, H) /\ CopiesOK(d, B) /\ Smooth(c, d, H \ {b})
         /\ b \in d.io \/ Valid(d, b)
<1>1. CASE Valid(c, b)
  <2>1. d = c
    BY <1>1 DEF DoRead
  <2> QED
    BY <1>1, <2>1, SmoothSame
<1>2. CASE ~Valid(c, b)
  <2>1. d = StartRead(c, b, {})
    BY <1>2 DEF DoRead, StartRead
  <2>2. OthersOK(c, H, b)
    BY WithoutOne
  <2> QED
    BY <1>2, <2>1, <2>2, HeldIs, StartReadOK
<1> QED
  BY <1>1, <1>2

(* bio_doread() for the block ahead: the buffer b goes from its holder to   *)
(* the transfer, or is released.                                            *)
LEMMA ReadAheadOK ==
  ASSUME NEW c, NEW H, NEW b \in Buf, b \notin H, CacheOK(c, H \cup {b}), NEW B, CopiesOK(c, B),
         b \notin c.io, NEW d, d = DoRead(c, b, {"ASYNC"})
  PROVE  CacheOK(d, H) /\ CopiesOK(d, B) /\ Smooth(c, d, H)
<1> DEFINE G == H \cup {b}
<1>0. CacheOK(c, G) /\ b \in G /\ \A x : x # b => (x \in H <=> x \in G)
  OBVIOUS
<1> HIDE DEF G
<1>1. /\ Is(c, b, "BUSY") /\ ~Is(c, b, "ASYNC") /\ ~Is(c, b, "VFLUSH") /\ ~Is(c, b, "INVAL")
      /\ ~On(c, b) /\ c.buf[b].blk # NoBlock
  BY <1>0, HeldIs
<1>2. OthersOK(c, H, b)
  BY <1>0, WithoutOne
<1>3. CASE Valid(c, b)
  <2>1. d = brelse(c, b)
    BY <1>3 DEF DoRead
  <2> QED
    BY <1>1, <1>2, <2>1, BrelseOK
<1>4. CASE ~Valid(c, b)
  <2>1. d = StartRead(c, b, {"ASYNC"})
    BY <1>4 DEF DoRead, StartRead
  <2>2. {"ASYNC"} # {}
    OBVIOUS
  <2>3. CacheOK(d, H) /\ CopiesOK(d, B) /\ Smooth(c, d, H \ {b})
    BY <1>1, <1>2, <1>4, <2>1, <2>2, StartReadOK
  <2> QED
    BY <2>3 DEF Smooth
<1> QED
  BY <1>3, <1>4

-----------------------------------------------------------------------------
(* vflushbuf().                                                             *)

(* The writes of the buffers S have been started where they stand.          *)
Flushed(c, d, S) ==
  /\ d \in Cache /\ d.age = c.age /\ d.lru = c.lru /\ d.needbuffer = c.needbuffer
  /\ d.vbwait = c.vbwait /\ d.wake = c.wake /\ d.io = c.io \cup S
  /\ d.numoutput = c.numoutput + Cardinality(S)
  /\ \A x \in Buf : x \notin S => d.buf[x] = c.buf[x]
  /\ \A x \in Buf : x \in S =>
       /\ d.buf[x].flags = (c.buf[x].flags \ {"READ", "DONE", "ERROR", "DELWRI"})
                             \cup {"BUSY", "VFLUSH", "ASYNC"}
       /\ d.buf[x].blk = c.buf[x].blk /\ d.buf[x].cur = c.buf[x].cur

(* vflushbuf() does this.                                                   *)
LEMMA FlushAllIs ==
  ASSUME NEW c \in Cache, NEW S, S = Dirty(c) \ Busy(c), NEW d, d = FlushAll(c)
  PROVE  Flushed(c, d, S)
<1> DEFINE F(x) == (c.buf[x].flags \ {"READ", "DONE", "ERROR", "DELWRI"})
                     \cup {"BUSY", "VFLUSH", "ASYNC"}
           A == [x \in Buf |-> IF x \notin S THEN c.buf[x] ELSE Flagged(c.buf[x], F(x))]
           N == c.numoutput + Cardinality(S)
           I == c.io \cup S
<1>1. d = [c EXCEPT !.buf = A, !.numoutput = N, !.io = I]
  BY Zenon DEF FlushAll, Flagged
<1>2. S \in SUBSET Buf
  BY DEF Dirty
<1>3. N \in Int
  BY <1>2, CacheType, BufAssumption, FS_Subset, FS_CardinalityType
<1>4. I \in SUBSET Buf
  BY <1>2, CacheType
<1>5. ASSUME NEW x \in Buf
      PROVE  /\ Flagged(c.buf[x], F(x)) \in Buffer /\ Flagged(c.buf[x], F(x)).flags = F(x)
             /\ Flagged(c.buf[x], F(x)).blk = c.buf[x].blk
             /\ Flagged(c.buf[x], F(x)).cur = c.buf[x].cur /\ c.buf[x] \in Buffer
  <2>1. c.buf[x] \in Buffer /\ c.buf[x].flags \in SUBSET Flag
    BY CacheType
  <2>2. F(x) \in SUBSET Flag
    BY <2>1 DEF Flag
  <2> HIDE DEF F
  <2> QED
    BY <2>1, <2>2, FlaggedIs
<1>6. A \in [Buf -> Buffer]
  BY <1>5
<1>7. \A x \in Buf : A[x] = IF x \notin S THEN c.buf[x] ELSE Flagged(c.buf[x], F(x))
  OBVIOUS
<1> HIDE DEF A, N, I, F
<1>8. /\ d \in Cache /\ d.buf = A /\ d.age = c.age /\ d.lru = c.lru
      /\ d.needbuffer = c.needbuffer /\ d.vbwait = c.vbwait /\ d.wake = c.wake
      /\ d.io = I /\ d.numoutput = N
  BY <1>1, <1>3, <1>4, <1>6 DEF Cache
<1>9. \A x \in Buf : x \in S => /\ d.buf[x].flags = F(x)
                                /\ d.buf[x].blk = c.buf[x].blk /\ d.buf[x].cur = c.buf[x].cur
  BY <1>5, <1>7, <1>8
<1> QED
  BY <1>7, <1>8, <1>9 DEF Flushed, F, N, I

(* The buffers are in order where they stand.                               *)
LEMMA FlushAllOK ==
  ASSUME NEW c, NEW H, CacheOK(c, H), NEW B, CopiesOK(c, B), NEW d, d = FlushAll(c)
  PROVE  CacheOK(d, H) /\ CopiesOK(d, B) /\ Smooth(c, d, H)
<1> DEFINE S == Dirty(c) \ Busy(c)
<1>1. c \in Cache /\ Lists(c) /\ Named1(c) /\ c.numoutput = Cardinality(Writing(c))
  BY DEF CacheOK
<1>2. Flushed(c, d, S)
  BY <1>1, FlushAllIs
<1>3. ASSUME NEW x \in S
      PROVE  /\ x \in Buf /\ ~Is(c, x, "BUSY") /\ Is(c, x, "DELWRI") /\ c.buf[x].blk # NoBlock
             /\ BufOK(c, x, x \in H) /\ x \notin c.io /\ x \notin H /\ c.buf[x].cur
  <2>1. x \in Buf /\ ~Is(c, x, "BUSY") /\ Is(c, x, "DELWRI") /\ c.buf[x].blk # NoBlock
    BY DEF Dirty, Busy
  <2>2. BufOK(c, x, x \in H)
    BY <2>1 DEF CacheOK
  <2>3. c.buf[x].cur
    BY <2>1 DEF CopiesOK, Copy, Valid
  <2> QED
    BY <2>1, <2>2, <2>3 DEF BufOK
<1>4. S \in SUBSET Buf
  BY DEF Dirty
<1> HIDE DEF S
<1>5. ASSUME NEW x \in Buf, x \in S
      PROVE  /\ \A f : Is(d, x, f) <=> \/ Is(c, x, f) /\ f \notin {"READ", "DONE", "ERROR", "DELWRI"}
                                       \/ f \in {"BUSY", "VFLUSH", "ASYNC"}
             /\ d.buf[x].blk = c.buf[x].blk /\ d.buf[x].cur = c.buf[x].cur /\ x \in d.io
  BY <1>2, <1>5 DEF Flushed, Is
<1>6. ASSUME NEW x \in Buf, x \notin S
      PROVE  /\ \A f : Is(d, x, f) <=> Is(c, x, f)
             /\ d.buf[x] = c.buf[x] /\ (x \in d.io <=> x \in c.io)
  BY <1>2, <1>6 DEF Flushed, Is
<1>7. Lists(d) /\ \A x : On(d, x) <=> On(c, x)
  BY <1>1, <1>2 DEF Flushed, Lists, On
<1>8. ASSUME NEW x \in Buf PROVE BufOK(d, x, x \in H)
  <2>1. BufOK(c, x, x \in H)
    BY DEF CacheOK
  <2>2. CASE x \in S
    BY <1>3, <1>5, <1>7, <2>1, <2>2 DEF BufOK
  <2>3. CASE x \notin S
    BY <1>6, <1>7, <2>1, <2>3 DEF BufOK
  <2> QED
    BY <2>2, <2>3
<1>9. \A x \in Buf : d.buf[x].blk = c.buf[x].blk
  BY <1>5, <1>6
<1>10. Named1(d)
  BY <1>1, <1>9 DEF Named1
<1>11. Writing(d) = Writing(c) \cup S /\ Writing(c) \cap S = {}
  <2>1. \A x \in Buf : x \in Writing(d) <=> x \in Writing(c) \/ x \in S
    BY <1>5, <1>6 DEF Writing
  <2>2. Writing(d) \subseteq Buf /\ Writing(c) \subseteq Buf
    BY <1>1, <1>2, CacheType DEF Writing, Flushed
  <2> QED
    BY <1>3, <1>4, <2>1, <2>2 DEF Writing
<1>12. IsFiniteSet(Writing(c)) /\ IsFiniteSet(S)
  <2>1. Writing(c) \subseteq Buf
    BY <1>1, CacheType DEF Writing
  <2> QED
    BY <1>4, <2>1, BufAssumption, FS_Subset
<1>13. Cardinality(Writing(c)) \in Nat /\ Cardinality(S) \in Nat
  BY <1>12, FS_CardinalityType
<1>14. Cardinality(Writing(d)) = Cardinality(Writing(c)) + Cardinality(S)
  <2>1. Cardinality(Writing(d)) = Cardinality(Writing(c)) + Cardinality(S) - Cardinality(Writing(c) \cap S)
    BY <1>11, <1>12, FS_Union
  <2>2. Cardinality(Writing(c) \cap S) = 0
    BY <1>11, FS_EmptySet
  <2> QED
    BY <1>13, <2>1, <2>2
<1>15. CacheOK(d, H)
  BY <1>1, <1>2, <1>7, <1>8, <1>10, <1>14 DEF CacheOK, Flushed
<1>16. CopiesOK(d, B)
  <2>1. ASSUME NEW x \in Buf
        PROVE  /\ d.buf[x].blk # NoBlock /\ Copy(d, x) => d.buf[x].cur
               /\ Is(d, x, "DELWRI") \/ x \in Writing(d) => ~Is(d, x, "ERROR")
               /\ Unsaved(c, x) => Unsaved(d, x)
    <3>1. CASE x \in S
      BY <1>3, <1>5, <3>1 DEF Unsaved, Is
    <3>2. CASE x \notin S
      <4>1. /\ Copy(d, x) <=> Copy(c, x)
            /\ Unsaved(d, x) <=> Unsaved(c, x)
            /\ x \in Writing(d) <=> x \in Writing(c)
        BY <1>6, <3>2 DEF Copy, Unsaved, Valid, Writing
      <4> QED
        BY <1>6, <3>2, <4>1 DEF CopiesOK
    <3> QED
      BY <3>1, <3>2
  <2>2. ASSUME NEW blk \in B PROVE \E x \in Buf : d.buf[x].blk = blk /\ Unsaved(d, x)
    BY <1>9, <2>1 DEF CopiesOK
  <2> QED
    BY <2>1, <2>2 DEF CopiesOK
<1>17. ASSUME NEW x \in Buf
       PROVE  /\ x \in H => Calm(c, d, x)
              /\ Is(c, x, "BUSY") /\ Is(c, x, "WANTED") => Is(d, x, "BUSY") /\ Is(d, x, "WANTED")
              /\ x \in c.io /\ ~Is(c, x, "ASYNC") => x \in d.io /\ ~Is(d, x, "ASYNC")
  <2>1. CASE x \in S
    BY <1>3, <2>1
  <2>2. CASE x \notin S
    BY <1>6, <2>2 DEF Calm, Valid
  <2> QED
    BY <2>1, <2>2
<1>18. c.numoutput > 0 => d.numoutput > 0
  BY <1>1, <1>2, <1>13 DEF Flushed
<1>19. Heeds(c, d)
  BY <1>2, <1>17, <1>18 DEF Heeds, Flushed
<1> QED
  BY <1>15, <1>16, <1>17, <1>19 DEF Smooth

(* Nothing dirty and no output: everything is on the disk.                  *)
LEMMA AllSaved ==
  ASSUME NEW c, NEW H, CacheOK(c, H), NEW B, CopiesOK(c, B), c.numoutput = 0, Dirty(c) = {}
  PROVE  B = {}
<1> SUFFICES ASSUME NEW blk \in B PROVE FALSE
  OBVIOUS
<1>1. PICK b \in Buf : c.buf[b].blk = blk /\ Unsaved(c, b)
  BY DEF CopiesOK
<1>2. blk # NoBlock
  BY NoBlockSaved
<1>3. ~Is(c, b, "DELWRI")
  BY <1>1, <1>2 DEF Dirty
<1>4. b \in Writing(c)
  BY <1>1, <1>3 DEF Unsaved, Writing
<1>5. Writing(c) \subseteq Buf /\ Cardinality(Writing(c)) = 0
  BY CacheType DEF CacheOK, Writing
<1>6. IsFiniteSet(Writing(c))
  BY <1>5, BufAssumption, FS_Subset
<1> QED
  BY <1>4, <1>5, <1>6, FS_EmptySet

-----------------------------------------------------------------------------
(* Modifying a buffer.                                                      *)

(* The buffer b has the last modification of its block; nothing else is     *)
(* different.                                                               *)
Updated(c, d, b) ==
  /\ d \in Cache /\ SameRest(c, d)
  /\ \A x \in Buf : x # b => d.buf[x] = c.buf[x]
  /\ d.buf[b].flags = c.buf[b].flags /\ d.buf[b].blk = c.buf[b].blk /\ d.buf[b].cur

(* There is no other copy to fall behind.                                   *)
LEMMA ModifiedIs ==
  ASSUME NEW H, CacheOK(k, H), CopiesOK(k, behind), NEW p \in Proc, NEW b \in Buf, b = hold[p],
         b \in H, ~Is(k, b, "ERROR"), NEW d, d = Modified(p)
  PROVE  Updated(k, d, b)
<1>1. k \in Cache /\ Named1(k)
  BY DEF CacheOK
<1>2. k.buf[b].blk # NoBlock
  BY HeldIs
<1> DEFINE y == [k.buf[b] EXCEPT !.cur = @ \/ ~Valid(k, b)]
           A == [x \in Buf |-> IF x = b THEN y
                               ELSE IF k.buf[x].blk = k.buf[b].blk
                                    THEN [k.buf[x] EXCEPT !.cur = FALSE] ELSE k.buf[x]]
<1>3. d = [k EXCEPT !.buf = A]
  BY Zenon DEF Modified, Blk
<1>4. \A x \in Buf : x # b => k.buf[x].blk # k.buf[b].blk
  BY <1>1, <1>2 DEF Named1
<1>5. k.buf[b] \in Buffer /\ k.buf[b].cur \in BOOLEAN
  BY <1>1, CacheType
<1>6. k.buf[b].cur \/ ~Valid(k, b)
  BY <1>2 DEF CopiesOK, Copy
<1>7. y \in Buffer /\ y.flags = k.buf[b].flags /\ y.blk = k.buf[b].blk /\ y.cur
  <2>1. y = [k.buf[b] EXCEPT !.cur = TRUE]
    BY <1>5, <1>6
  <2> HIDE DEF y
  <2> QED
    BY <1>5, <2>1 DEF Buffer
<1>8. A[b] = y /\ \A x \in Buf : x # b => A[x] = k.buf[x]
  BY <1>4
<1>9. A \in [Buf -> Buffer]
  <2>1. A = [x \in Buf |-> A[x]]
    OBVIOUS
  <2>2. \A x \in Buf : A[x] \in Buffer
    <3> HIDE DEF A, y
    <3> QED
      BY <1>1, <1>7, <1>8, CacheType
  <2> HIDE DEF A
  <2> QED
    BY <2>1, <2>2
<1> HIDE DEF A, y
<1>10. d \in Cache /\ d.buf = A /\ SameRest(k, d)
  BY <1>1, <1>3, <1>9 DEF Cache, SameRest
<1> QED
  BY <1>7, <1>8, <1>10 DEF Updated

(* The cache is in order then.                                              *)
LEMMA UpdatedOK ==
  ASSUME NEW c, NEW H, CacheOK(c, H), NEW B, CopiesOK(c, B), NEW b \in Buf, b \in H,
         ~Is(c, b, "ERROR"), NEW d, Updated(c, d, b)
  PROVE  CacheOK(d, H) /\ CopiesOK(d, B) /\ Smooth(c, d, Buf)
<1>1. c \in Cache /\ Lists(c) /\ Named1(c) /\ c.numoutput = Cardinality(Writing(c))
  BY DEF CacheOK
<1>2. \A x \in Buf : d.buf[x].flags = c.buf[x].flags /\ d.buf[x].blk = c.buf[x].blk
  BY DEF Updated
<1>3. \A x \in Buf : \A f : Is(d, x, f) <=> Is(c, x, f)
  BY <1>2 DEF Is
<1>4. d.io = c.io /\ d.age = c.age /\ d.lru = c.lru /\ d.numoutput = c.numoutput /\ d \in Cache
      /\ d.wake = c.wake /\ d.needbuffer = c.needbuffer /\ d.vbwait = c.vbwait
  BY DEF Updated, SameRest
<1>5. Lists(d) /\ \A x : On(d, x) <=> On(c, x)
  BY <1>1, <1>4 DEF Lists, On
<1>6. Writing(d) = Writing(c)
  <2>1. c.io \subseteq Buf
    BY <1>1, CacheType
  <2> QED
    BY <1>3, <1>4, <2>1 DEF Writing
<1>7. ASSUME NEW x \in Buf PROVE BufOK(d, x, x \in H)
  <2>1. BufOK(c, x, x \in H)
    BY DEF CacheOK
  <2> QED
    BY <1>2, <1>3, <1>4, <1>5, <2>1 DEF BufOK
<1>8. Named1(d)
  BY <1>1, <1>2 DEF Named1
<1>9. CacheOK(d, H)
  BY <1>1, <1>4, <1>5, <1>6, <1>7, <1>8 DEF CacheOK
<1>10. ASSUME NEW x \in Buf
       PROVE  /\ (Copy(d, x) <=> Copy(c, x)) /\ (Unsaved(d, x) <=> Unsaved(c, x))
              /\ (c.buf[x].cur => d.buf[x].cur) /\ Calm(c, d, x)
  <2>1. c.buf[x].cur => d.buf[x].cur
    BY DEF Updated
  <2> QED
    BY <1>3, <1>4, <2>1 DEF Copy, Unsaved, Valid, Calm
<1>11. CopiesOK(d, B)
  <2>1. \A x \in Buf : d.buf[x].blk # NoBlock /\ Copy(d, x) => d.buf[x].cur
    BY <1>2, <1>10 DEF CopiesOK
  <2>2. \A x \in Buf : Is(d, x, "DELWRI") \/ x \in Writing(d) => ~Is(d, x, "ERROR")
    BY <1>3, <1>6 DEF CopiesOK
  <2>3. \A blk \in B : \E x \in Buf : d.buf[x].blk = blk /\ Unsaved(d, x)
    BY <1>2, <1>10 DEF CopiesOK
  <2> QED
    BY <2>1, <2>2, <2>3 DEF CopiesOK
<1>12. Heeds(c, d)
  BY <1>3, <1>4 DEF Heeds
<1> QED
  BY <1>9, <1>10, <1>11, <1>12 DEF Smooth

(* bdwrite(): the modification is in the buffer alone.                      *)
LEMMA DelayedOK ==
  ASSUME NEW c, NEW H, CacheOK(c, H), NEW B, CopiesOK(c, B), NEW b \in Buf, b \in H,
         b \notin c.io, ~Is(c, b, "ERROR"), c.buf[b].cur,
         NEW d, d = brelse(SetFlags(c, b, {"DELWRI", "DONE"}), b)
  PROVE  /\ CacheOK(d, H \ {b}) /\ CopiesOK(d, B \cup {c.buf[b].blk})
         /\ Smooth(c, d, H \ {b})
<1> DEFINE e == SetFlags(c, b, {"DELWRI", "DONE"})
           G == H \ {b}
           C == B \cup {c.buf[b].blk}
<1>1. c \in Cache /\ Lists(c) /\ Named1(c) /\ c.numoutput = Cardinality(Writing(c))
  BY DEF CacheOK
<1>2. {"DELWRI", "DONE"} \in SUBSET Flag
  BY DEF Flag
<1>3. /\ e \in Cache /\ SameRest(c, e)
      /\ Becomes(c, e, b, Flagged(c.buf[b], c.buf[b].flags \cup {"DELWRI", "DONE"}))
  BY <1>1, <1>2, SetFlagsIs
<1>4. d = brelse(e, b)
  OBVIOUS
<1>5. b \notin G /\ \A x : x # b => (x \in G <=> x \in H)
  OBVIOUS
<1> HIDE DEF e, G
<1>6. /\ e.buf[b].flags = c.buf[b].flags \cup {"DELWRI", "DONE"}
      /\ e.buf[b].blk = c.buf[b].blk /\ e.buf[b].cur = c.buf[b].cur
  <2> DEFINE F == c.buf[b].flags \cup {"DELWRI", "DONE"}
  <2>1. c.buf[b] \in Buffer /\ F \in SUBSET Flag /\ e.buf[b] = Flagged(c.buf[b], F)
    BY <1>1, <1>2, <1>3, CacheType DEF Becomes
  <2> HIDE DEF F
  <2> DEFINE x == c.buf[b]
             y == e.buf[b]
  <2>2. x \in Buffer /\ F \in SUBSET Flag /\ y = Flagged(x, F)
    BY <2>1
  <2>3. y.flags = F /\ y.blk = x.blk /\ y.cur = x.cur
    <3> HIDE DEF x, y
    <3> QED
      BY <2>2, FlaggedIs
  <2> QED
    BY <2>3 DEF F
<1>7. \A f : Is(e, b, f) <=> Is(c, b, f) \/ f \in {"DELWRI", "DONE"}
  BY <1>6 DEF Is
<1>8. Local(c, e, b)
  BY <1>1, <1>3 DEF Local, Becomes, SameRest, Lists, On
<1>9. /\ Is(c, b, "BUSY") /\ ~Is(c, b, "ASYNC") /\ ~Is(c, b, "VFLUSH") /\ ~Is(c, b, "INVAL")
      /\ ~On(c, b) /\ c.buf[b].blk # NoBlock
  BY HeldIs
<1>10. OthersOK(c, G, b)
  BY <1>5, WithoutOne
<1>11. b \notin e.io /\ ~On(e, b) /\ ~Is(e, b, "VFLUSH") /\ ~Is(e, b, "INVAL")
  BY <1>3, <1>7, <1>9 DEF SameRest, On
<1>12. e.numoutput = Cardinality(Writing(e))
  <2>1. b \notin Writing(c) /\ b \notin Writing(e)
    BY <1>11 DEF Writing
  <2> QED
    BY <1>1, <1>3, <1>8, <2>1, WritesCounted DEF SameRest
<1>13. OthersOK(e, G, b)
  <2>1. ASSUME NEW x \in Buf, x # b PROVE BufOK(e, x, x \in G)
    <3>1. BufOK(c, x, x \in G)
      BY <1>10, <2>1 DEF OthersOK
    <3> QED
      BY <1>8, <2>1, <3>1 DEF BufOK, Local, Is
  <2>2. Named1(e)
    BY <1>1, <1>6, <1>8 DEF Named1, Local
  <2>3. Lists(e)
    BY <1>8 DEF Local
  <2> QED
    BY <1>3, <1>12, <2>1, <2>2, <2>3 DEF OthersOK
<1>14. CopiesOK(e, C)
  <2>1. Unsaved(e, b) /\ e.buf[b].cur /\ ~Is(e, b, "ERROR")
    BY <1>6, <1>7 DEF Unsaved
  <2> QED
    BY <1>6, <1>8, <2>1, LocalCopies
<1>15. Smooth(c, e, Buf)
  <2>1. ASSUME NEW x \in Buf
        PROVE  /\ Calm(c, e, x)
               /\ Is(c, x, "BUSY") /\ Is(c, x, "WANTED") => Is(e, x, "BUSY") /\ Is(e, x, "WANTED")
               /\ x \in c.io /\ ~Is(c, x, "ASYNC") => x \in e.io /\ ~Is(e, x, "ASYNC")
    <3>1. CASE x = b
      BY <1>3, <1>7, <3>1 DEF Calm, Valid, SameRest
    <3>2. CASE x # b
      BY <1>8, <3>2 DEF Calm, Valid, Local, Is
    <3> QED
      BY <3>1, <3>2
  <2>2. Heeds(c, e)
    BY <1>3, <2>1 DEF Heeds, SameRest
  <2> QED
    BY <2>1, <2>2 DEF Smooth
<1> HIDE DEF C
<1>16. CacheOK(d, G) /\ CopiesOK(d, C) /\ Smooth(e, d, G)
  BY <1>4, <1>5, <1>6, <1>9, <1>11, <1>13, <1>14, BrelseOK
<1>17. Smooth(c, d, G)
  <2>1. Smooth(c, e, G)
    BY <1>15 DEF Smooth
  <2> QED
    BY <1>16, <2>1, SmoothTwice
<1> QED
  BY <1>16, <1>17 DEF G, C

-----------------------------------------------------------------------------
(* vinvalbuf().                                                             *)

(* One buffer is discarded where it stands.                                 *)
Discarded(c, b) == brelse(SetFlags(c, b, {"BUSY", "VFLUSH", "INVAL"}), b)

(* The cache is in order then, and the other buffers are what they were.    *)
LEMMA DiscardedOK ==
  ASSUME NEW c, NEW H, CacheOK(c, H), NEW B, CopiesOK(c, B), NEW b \in Buf, ~Is(c, b, "BUSY"),
         c.buf[b].blk \notin B, NEW d, d = Discarded(c, b)
  PROVE  /\ CacheOK(d, H) /\ CopiesOK(d, B) /\ Smooth(c, d, H)
         /\ \A x \in Buf : x # b => d.buf[x] = c.buf[x]
<1> DEFINE e == SetFlags(c, b, {"BUSY", "VFLUSH", "INVAL"})
<1>1. BufOK(c, b, b \in H)
  BY DEF CacheOK
<1>2. b \notin H /\ b \notin c.io /\ On(c, b) /\ (Is(c, b, "DELWRI") => c.buf[b].blk # NoBlock)
  BY <1>1 DEF BufOK
<1>3. OthersOK(c, H, b)
  BY WithoutOne
<1>4. Marked(c, e, b, {"BUSY", "VFLUSH", "INVAL"}, H, B)
  BY <1>2, <1>3, SetFlagsOK
<1>5. d = brelse(e, b)
  BY DEF Discarded
<1> HIDE DEF e
<1>6. /\ OthersOK(e, H, b) /\ CopiesOK(e, B) /\ Smooth(c, e, H)
      /\ b \notin e.io /\ e.buf[b].blk = c.buf[b].blk
  BY <1>2, <1>4 DEF Marked, SameRest, Smooth
<1>7. On(e, b) /\ Is(e, b, "VFLUSH") /\ (Is(e, b, "DELWRI") <=> Is(c, b, "DELWRI"))
  BY <1>2, <1>4 DEF Marked, SameRest, On
<1>8. CacheOK(d, H) /\ CopiesOK(d, B) /\ Smooth(e, d, H)
  BY <1>2, <1>5, <1>6, <1>7, BrelseOK
<1>9. Released(e, d, b)
  BY <1>5, <1>6, <1>7, BrelseIs DEF OthersOK
<1>10. \A x \in Buf : x # b => d.buf[x] = c.buf[x]
  BY <1>4, <1>9 DEF Released, Marked, Local
<1> QED
  BY <1>6, <1>8, <1>10, SmoothTwice

(* g has the cache after each of the buffers in order, up to n.             *)
DiscardsTo(g, c, order, n) ==
  g = [i \in 0 .. n |-> IF i = 0 THEN c ELSE Discarded(g[i - 1], order[i])]

(* There is such a function for any number of buffers.                      *)
LEMMA DiscardsExist ==
  ASSUME NEW c, NEW order, NEW N \in Nat
  PROVE  \E g : DiscardsTo(g, c, order, N)
<1> DEFINE S == {n \in 0 .. N : \E g : DiscardsTo(g, c, order, n)}
<1>1. 0 \in S
  <2> DEFINE z == [i \in 0 .. 0 |-> c]
  <2>1. DiscardsTo(z, c, order, 0)
    BY DEF DiscardsTo
  <2> QED
    BY <2>1
<1>2. ASSUME NEW n \in 1 .. N, n - 1 \in S PROVE n \in S
  <2>1. PICK g : DiscardsTo(g, c, order, n - 1)
    BY <1>2
  <2> DEFINE h == [i \in 0 .. n |-> IF i = n THEN Discarded(g[n - 1], order[n]) ELSE g[i]]
  <2>2. \A i \in 0 .. n - 1 : g[i] = IF i = 0 THEN c ELSE Discarded(g[i - 1], order[i])
    BY <2>1 DEF DiscardsTo
  <2>3. \A i \in 0 .. n : h[i] = IF i = 0 THEN c ELSE Discarded(h[i - 1], order[i])
    BY <2>2
  <2>4. DiscardsTo(h, c, order, n)
    BY <2>3 DEF DiscardsTo
  <2> QED
    BY <2>4
<1>3. 0 .. N \subseteq S
  <2> HIDE DEF S
  <2> QED
    BY <1>1, <1>2, LoopInduction
<1> QED
  BY <1>3

(* The sequences of the members of a set of buffers.                        *)
LEMMA OrderIs ==
  ASSUME NEW T \in SUBSET Buf, NEW order \in SetToSeqs(T)
  PROVE  /\ Len(order) \in Nat /\ order \in Seq(T) /\ Once(order)
         /\ \A i \in 1 .. Len(order) : order[i] \in T
         /\ Len(order) = Cardinality(T) /\ order \in [1 .. Cardinality(T) -> T]
<1>1. Cardinality(T) \in Nat
  BY BufAssumption, FS_Subset, FS_CardinalityType
<1>2. /\ order \in [1 .. Cardinality(T) -> T]
      /\ \A i, j \in 1 .. Cardinality(T) : i # j => order[i] # order[j]
  BY DEF SetToSeqs
<1>3. order \in Seq(T) /\ Len(order) = Cardinality(T)
  BY <1>1, <1>2
<1> QED
  BY <1>1, <1>2, <1>3 DEF Once

(* Buffers that nobody has, and whose blocks need not be saved, discarded   *)
(* one after the other.                                                     *)
LEMMA InvalidateOK ==
  ASSUME NEW c, NEW H, CacheOK(c, H), NEW B, CopiesOK(c, B), NEW T \in SUBSET Buf,
         \A x \in T : ~Is(c, x, "BUSY") /\ c.buf[x].blk \notin B,
         NEW order \in SetToSeqs(T), NEW d, d = Invalidate(c, order)
  PROVE  /\ CacheOK(d, H) /\ CopiesOK(d, B) /\ Smooth(c, d, H)
         /\ \A x \in Buf : x \notin T => d.buf[x] = c.buf[x]
<1> DEFINE N == Len(order)
<1>1. N \in Nat /\ (\A i \in 1 .. N : order[i] \in T) /\ Once(order)
  BY OrderIs
<1>2. d = (CHOOSE g : DiscardsTo(g, c, order, N))[N]
  BY Zenon DEF Invalidate, DiscardsTo, Discarded
<1>3. \A i, j \in 1 .. N : order[i] = order[j] => i = j
  BY <1>1 DEF Once
<1> HIDE DEF N
<1>4. PICK g : DiscardsTo(g, c, order, N) /\ d = g[N]
  BY <1>1, <1>2, DiscardsExist
<1>5. \A i \in 0 .. N : g[i] = IF i = 0 THEN c ELSE Discarded(g[i - 1], order[i])
  BY <1>4 DEF DiscardsTo
<1>6. g[0] = c /\ \A i \in 1 .. N : g[i] = Discarded(g[i - 1], order[i])
  BY <1>1, <1>5
<1> DEFINE Rest(n) == \A x \in Buf : (\A i \in 1 .. n : order[i] # x) => g[n].buf[x] = c.buf[x]
           S == {n \in 0 .. N : CacheOK(g[n], H) /\ CopiesOK(g[n], B) /\ Smooth(c, g[n], H) /\ Rest(n)}
<1>7. 0 \in S
  BY <1>1, <1>6, SmoothSame
<1>8. ASSUME NEW n \in 1 .. N, n - 1 \in S PROVE n \in S
  <2> DEFINE b == order[n]
             e == g[n - 1]
  <2>1. CacheOK(e, H) /\ CopiesOK(e, B) /\ Smooth(c, e, H) /\ Rest(n - 1)
    BY <1>8
  <2>2. b \in T /\ b \in Buf
    BY <1>1
  <2>3. \A i \in 1 .. n - 1 : order[i] # b
    BY <1>1, <1>3
  <2>4. e.buf[b] = c.buf[b]
    BY <2>1, <2>2, <2>3
  <2>5. ~Is(e, b, "BUSY") /\ e.buf[b].blk \notin B
    BY <2>2, <2>4 DEF Is
  <2>6. g[n] = Discarded(e, b)
    BY <1>6
  <2> HIDE DEF e, b
  <2>7. /\ CacheOK(g[n], H) /\ CopiesOK(g[n], B) /\ Smooth(e, g[n], H)
        /\ \A x \in Buf : x # b => g[n].buf[x] = e.buf[x]
    BY <2>1, <2>2, <2>5, <2>6, DiscardedOK
  <2>8. Rest(n)
    <3> SUFFICES ASSUME NEW x \in Buf, \A i \in 1 .. n : order[i] # x
                 PROVE  g[n].buf[x] = c.buf[x]
      OBVIOUS
    <3>1. x # b /\ \A i \in 1 .. n - 1 : order[i] # x
      BY <1>1 DEF b
    <3>2. e.buf[x] = c.buf[x]
      BY <2>1, <3>1 DEF e
    <3> QED
      BY <2>7, <3>1, <3>2
  <2>9. Smooth(c, g[n], H)
    BY <2>1, <2>7, SmoothTwice
  <2> QED
    BY <2>7, <2>8, <2>9
<1>9. 0 .. N \subseteq S
  <2> HIDE DEF S
  <2> QED
    BY <1>1, <1>7, <1>8, LoopInduction
<1>10. CacheOK(d, H) /\ CopiesOK(d, B) /\ Smooth(c, d, H) /\ Rest(N)
  BY <1>1, <1>4, <1>9
<1>11. \A x \in Buf : x \notin T => d.buf[x] = c.buf[x]
  BY <1>1, <1>4, <1>10
<1> QED
  BY <1>10, <1>11

-----------------------------------------------------------------------------
(* The end of a transfer.                                                   *)

(* The transfer of b is over: b has the flags D besides, and the contents   *)
(* that v says.                                                             *)
Ended(c, d, b, D, v) ==
  /\ d \in Cache /\ d.age = c.age /\ d.lru = c.lru /\ d.needbuffer = c.needbuffer
  /\ d.vbwait = c.vbwait /\ d.wake = c.wake /\ d.numoutput = c.numoutput
  /\ d.io = c.io \ {b}
  /\ \A x \in Buf : x # b => d.buf[x] = c.buf[x]
  /\ d.buf[b].flags = c.buf[b].flags \cup D
  /\ d.buf[b].blk = c.buf[b].blk /\ d.buf[b].cur = v

Over(c, b, D, v) == [SetFlags(c, b, D) EXCEPT !.io = @ \ {b}, !.buf[b].cur = v]

(* What the driver leaves to biodone().                                     *)
LEMMA OverIs ==
  ASSUME NEW c \in Cache, NEW b \in Buf, NEW D \in SUBSET Flag, NEW v \in BOOLEAN,
         NEW d, d = Over(c, b, D, v)
  PROVE  Ended(c, d, b, D, v)
<1> DEFINE e == SetFlags(c, b, D)
           y == [e.buf[b] EXCEPT !.cur = v]
           A == [e.buf EXCEPT ![b] = y]
           I == e.io \ {b}
<1>1. d = [e EXCEPT !.io = I, !.buf = A]
  BY Zenon DEF Over
<1>2. /\ e \in Cache /\ SameRest(c, e)
      /\ Becomes(c, e, b, Flagged(c.buf[b], c.buf[b].flags \cup D))
  BY SetFlagsIs
<1>3. c.buf[b] \in Buffer /\ c.buf[b].flags \cup D \in SUBSET Flag
  BY CacheType
<1>4. /\ e.buf[b].flags = c.buf[b].flags \cup D /\ e.buf[b].blk = c.buf[b].blk
  BY <1>2, <1>3, FlaggedIs DEF Becomes
<1> HIDE DEF e
<1>5. e.buf \in [Buf -> Buffer] /\ e.buf[b] \in Buffer /\ I \in SUBSET Buf
  BY <1>2, CacheType
<1>6. y \in Buffer /\ y.flags = e.buf[b].flags /\ y.blk = e.buf[b].blk /\ y.cur = v
  BY <1>5 DEF Buffer
<1> HIDE DEF y
<1>7. A \in [Buf -> Buffer] /\ A[b] = y /\ \A x \in Buf : x # b => A[x] = e.buf[x]
  BY <1>5, <1>6
<1> HIDE DEF A, I
<1>8. /\ d \in Cache /\ d.buf = A /\ d.age = e.age /\ d.lru = e.lru
      /\ d.needbuffer = e.needbuffer /\ d.vbwait = e.vbwait /\ d.wake = e.wake
      /\ d.io = I /\ d.numoutput = e.numoutput
  BY <1>1, <1>2, <1>5, <1>7 DEF Cache
<1>9. /\ d.buf[b].flags = c.buf[b].flags \cup D
      /\ d.buf[b].blk = c.buf[b].blk /\ d.buf[b].cur = v
  BY <1>4, <1>6, <1>7, <1>8
<1>10. \A x \in Buf : x # b => d.buf[x] = c.buf[x]
  BY <1>2, <1>7, <1>8 DEF Becomes
<1> QED
  BY <1>2, <1>8, <1>9, <1>10 DEF Ended, SameRest, I

(* vwakeup().                                                               *)
LEMMA VwakeupIs ==
  ASSUME NEW c \in Cache, NEW d, d = vwakeup(c)
  PROVE  /\ d \in Cache /\ d.buf = c.buf /\ d.age = c.age /\ d.lru = c.lru
         /\ d.needbuffer = c.needbuffer /\ d.io = c.io /\ c.wake \subseteq d.wake
         /\ d.numoutput = c.numoutput - 1
         /\ c.vbwait => NumOutput \in d.wake \/ (d.vbwait /\ c.numoutput # 1)
<1> DEFINE last == c.numoutput = 1 /\ c.vbwait
           n == c.numoutput - 1
           v == c.vbwait /\ ~last
           w == IF last THEN c.wake \cup {NumOutput} ELSE c.wake
<1>1. d = [c EXCEPT !.numoutput = n, !.vbwait = v, !.wake = w]
  BY Zenon DEF vwakeup
<1>2. /\ c.wake \in SUBSET (Buf \cup {NeedBuffer, NumOutput}) /\ c.numoutput \in Int
      /\ c.vbwait \in BOOLEAN
  BY CacheType
<1>3. /\ n \in Int /\ v \in BOOLEAN /\ w \in SUBSET (Buf \cup {NeedBuffer, NumOutput})
      /\ c.wake \subseteq w /\ (c.vbwait => NumOutput \in w \/ (v /\ c.numoutput # 1))
  BY <1>2
<1> HIDE DEF n, v, w
<1>4. /\ d \in Cache /\ d.buf = c.buf /\ d.age = c.age /\ d.lru = c.lru
      /\ d.needbuffer = c.needbuffer /\ d.io = c.io /\ d.numoutput = n /\ d.wake = w
      /\ d.vbwait = v
  BY <1>1, <1>3 DEF Cache
<1> QED
  BY <1>3, <1>4 DEF n

(* The transfer is over and counted.                                        *)
Finished(c, d, b, D) ==
  /\ d \in Cache /\ d.age = c.age /\ d.lru = c.lru /\ d.needbuffer = c.needbuffer
  /\ d.numoutput = Cardinality(Writing(d)) /\ d.io = c.io \ {b}
  /\ c.wake \subseteq d.wake
  /\ c.vbwait /\ c.numoutput > 0 => NumOutput \in d.wake \/ (d.vbwait /\ d.numoutput > 0)
  /\ \A x \in Buf : x # b => d.buf[x] = c.buf[x]
  /\ d.buf[b].flags = c.buf[b].flags \cup D /\ d.buf[b].blk = c.buf[b].blk

(* biodone() up to the release.                                             *)
LEMMA FinishedIs ==
  ASSUME NEW c, NEW H, CacheOK(c, H), NEW b \in Buf, b \in c.io,
         NEW D \in SUBSET {"DONE", "ERROR"}, NEW v, NEW a, Ended(c, a, b, D, v),
         NEW d, d = IF Is(c, b, "READ") THEN a ELSE vwakeup(a)
  PROVE  Finished(c, d, b, D) /\ d.buf[b].cur = v
<1>1. c \in Cache /\ Lists(c) /\ c.numoutput = Cardinality(Writing(c)) /\ a \in Cache
  BY DEF CacheOK, Ended
<1>2. b \notin a.io
  BY DEF Ended
<1>3. Local(c, a, b)
  BY <1>1 DEF Ended, Local, Lists, On
<1>4. c.numoutput \in Nat /\ a.numoutput = c.numoutput /\ b \notin Writing(a)
  BY <1>1, <1>2, <1>3, WritesCounted DEF Ended, Writing
<1>5. CASE Is(c, b, "READ")
  <2>1. d = a /\ b \notin Writing(c)
    BY <1>5 DEF Writing
  <2>2. Cardinality(Writing(a)) = c.numoutput
    BY <1>1, <1>3, <1>4, <2>1, WritesCounted
  <2> QED
    BY <1>4, <2>1, <2>2 DEF Ended, Finished
<1>6. CASE ~Is(c, b, "READ")
  <2>1. d = vwakeup(a) /\ b \in Writing(c)
    BY <1>6 DEF Writing
  <2>2. Cardinality(Writing(a)) = c.numoutput - 1
    BY <1>1, <1>3, <1>4, <2>1, WritesCounted
  <2>3. /\ d \in Cache /\ d.buf = a.buf /\ d.age = a.age /\ d.lru = a.lru
        /\ d.needbuffer = a.needbuffer /\ d.io = a.io /\ a.wake \subseteq d.wake
        /\ d.numoutput = a.numoutput - 1
        /\ a.vbwait => NumOutput \in d.wake \/ (d.vbwait /\ a.numoutput # 1)
    BY <1>1, <2>1, VwakeupIs
  <2>4. Writing(d) = Writing(a)
    BY <2>3 DEF Writing, Is
  <2>5. c.vbwait /\ c.numoutput > 0 => NumOutput \in d.wake \/ (d.vbwait /\ d.numoutput > 0)
    <3>1. a.vbwait = c.vbwait
      BY DEF Ended
    <3> QED
      BY <1>4, <2>3, <3>1
  <2>6. d.numoutput = Cardinality(Writing(d))
    BY <1>4, <2>2, <2>3, <2>4
  <2> QED
    BY <2>3, <2>5, <2>6 DEF Ended, Finished
<1> QED
  BY <1>5, <1>6

(* The cache is in order but for b, which is not dirty.                     *)
LEMMA FinishedOK ==
  ASSUME NEW c, NEW H, CacheOK(c, H), NEW b \in Buf, b \in c.io,
         NEW D \in SUBSET {"DONE", "ERROR"}, "DONE" \in D, NEW d, Finished(c, d, b, D)
  PROVE  /\ OthersOK(d, H, b) /\ Local(c, d, b) /\ b \notin d.io /\ (On(d, b) <=> On(c, b))
         /\ \A f : Is(d, b, f) <=> Is(c, b, f) \/ f \in D
         /\ Is(c, b, "BUSY") /\ ~Is(c, b, "DELWRI") /\ c.buf[b].blk # NoBlock
         /\ ~Is(c, b, "INVAL") /\ (On(c, b) <=> Is(c, b, "VFLUSH"))
         /\ b \in H <=> ~Is(c, b, "ASYNC")
<1>1. c \in Cache /\ Lists(c) /\ Named1(c) /\ BufOK(c, b, b \in H)
  BY DEF CacheOK
<1>2. Local(c, d, b)
  BY <1>1 DEF Finished, Local, Lists, On
<1>3. \A f : Is(d, b, f) <=> Is(c, b, f) \/ f \in D
  BY DEF Finished, Is
<1>4. ASSUME NEW x \in Buf, x # b PROVE BufOK(d, x, x \in H)
  <2>1. BufOK(c, x, x \in H)
    BY DEF CacheOK
  <2> QED
    BY <1>2, <1>4, <2>1 DEF BufOK, Local, Is
<1>5. Named1(d)
  <2>1. \A x \in Buf : d.buf[x].blk = c.buf[x].blk
    BY DEF Finished
  <2> QED
    BY <1>1, <2>1 DEF Named1
<1>6. OthersOK(d, H, b)
  BY <1>2, <1>4, <1>5 DEF OthersOK, Finished, Local
<1>7. b \notin d.io /\ (On(d, b) <=> On(c, b))
  BY DEF Finished, On
<1>8. /\ Is(c, b, "BUSY") /\ ~Is(c, b, "DELWRI") /\ c.buf[b].blk # NoBlock
      /\ ~Is(c, b, "INVAL") /\ (On(c, b) <=> Is(c, b, "VFLUSH"))
      /\ b \in H <=> ~Is(c, b, "ASYNC")
  BY <1>1 DEF BufOK
<1> QED
  BY <1>2, <1>3, <1>6, <1>7, <1>8

(* Whoever holds b is woken.                                                *)
Quieted(e, b) == [ClrFlags(e, b, {"WANTED"}) EXCEPT !.wake = @ \cup {b}]

Quiet(e, d, b) ==
  /\ d \in Cache /\ d.age = e.age /\ d.lru = e.lru /\ d.needbuffer = e.needbuffer
  /\ d.numoutput = e.numoutput /\ d.vbwait = e.vbwait /\ d.io = e.io
  /\ d.wake = e.wake \cup {b}
  /\ \A x \in Buf : x # b => d.buf[x] = e.buf[x]
  /\ d.buf[b].flags = e.buf[b].flags \ {"WANTED"}
  /\ d.buf[b].blk = e.buf[b].blk /\ d.buf[b].cur = e.buf[b].cur

(* The end of biodone() for a transfer that somebody waits for.             *)
LEMMA QuietIs ==
  ASSUME NEW e \in Cache, NEW b \in Buf, NEW d, d = Quieted(e, b)
  PROVE  Quiet(e, d, b)
<1> DEFINE g == ClrFlags(e, b, {"WANTED"})
           W == g.wake \cup {b}
<1>1. d = [g EXCEPT !.wake = W]
  BY DEF Quieted
<1>2. /\ g \in Cache /\ SameRest(e, g)
      /\ Becomes(e, g, b, Flagged(e.buf[b], e.buf[b].flags \ {"WANTED"}))
  BY ClrFlagsIs
<1>3. e.buf[b] \in Buffer /\ e.buf[b].flags \ {"WANTED"} \in SUBSET Flag
  BY CacheType
<1>4. /\ g.buf[b].flags = e.buf[b].flags \ {"WANTED"} /\ g.buf[b].blk = e.buf[b].blk
      /\ g.buf[b].cur = e.buf[b].cur
  BY <1>2, <1>3, FlaggedIs DEF Becomes
<1> HIDE DEF g
<1>5. W \in SUBSET (Buf \cup {NeedBuffer, NumOutput})
  BY <1>2, CacheType
<1> HIDE DEF W
<1>6. /\ d \in Cache /\ d.buf = g.buf /\ d.age = g.age /\ d.lru = g.lru
      /\ d.needbuffer = g.needbuffer /\ d.vbwait = g.vbwait /\ d.wake = W
      /\ d.io = g.io /\ d.numoutput = g.numoutput
  BY <1>1, <1>2, <1>5 DEF Cache
<1> QED
  BY <1>2, <1>4, <1>6 DEF SameRest, Becomes, W, Quiet

(* biodone() releases the buffer or wakes its holder.                       *)
LEMMA BiodoneOK ==
  ASSUME NEW c, NEW H, CacheOK(c, H), NEW b \in Buf, b \in c.io,
         NEW D \in SUBSET {"DONE", "ERROR"}, "DONE" \in D, NEW e, Finished(c, e, b, D),
         NEW C, CopiesOK(e, C), NEW d, d = biodone(e, b)
  PROVE  CacheOK(d, H) /\ CopiesOK(d, C) /\ Smooth(c, d, H)
<1>1. OthersOK(e, H, b) /\ Local(c, e, b) /\ b \notin e.io /\ (On(e, b) <=> On(c, b))
  BY FinishedOK
<1>2. \A f : Is(e, b, f) <=> Is(c, b, f) \/ f \in D
  BY FinishedOK
<1>3. /\ Is(c, b, "BUSY") /\ ~Is(c, b, "DELWRI") /\ c.buf[b].blk # NoBlock
      /\ ~Is(c, b, "INVAL") /\ (On(c, b) <=> Is(c, b, "VFLUSH"))
      /\ b \in H <=> ~Is(c, b, "ASYNC")
  BY FinishedOK
<1>4. ASSUME NEW x \in Buf
      PROVE  /\ Calm(c, e, x)
             /\ Is(c, x, "BUSY") /\ Is(c, x, "WANTED") => Is(e, x, "BUSY") /\ Is(e, x, "WANTED")
             /\ x # b /\ x \in c.io /\ ~Is(c, x, "ASYNC") => x \in e.io /\ ~Is(e, x, "ASYNC")
  <2>1. CASE x = b
    BY <1>1, <1>2, <2>1 DEF Calm, Valid
  <2>2. CASE x # b
    BY <1>1, <2>2 DEF Calm, Valid, Local, Is
  <2> QED
    BY <2>1, <2>2
<1>5. CASE Is(e, b, "ASYNC")
  <2>1. d = brelse(e, b)
    BY <1>5 DEF biodone
  <2>2. Is(c, b, "ASYNC") /\ b \notin H
    BY <1>2, <1>3, <1>5
  <2>3. (On(e, b) <=> Is(e, b, "VFLUSH")) /\ ~Is(e, b, "DELWRI") /\ ~Is(e, b, "INVAL")
    BY <1>1, <1>2, <1>3
  <2>4. CacheOK(d, H) /\ CopiesOK(d, C) /\ Smooth(e, d, H)
    BY <1>1, <2>1, <2>2, <2>3, BrelseOK
  <2>5. Heeds(c, e)
    BY <1>4, <2>2 DEF Heeds, Finished
  <2>6. Smooth(c, e, H)
    BY <1>4, <2>5 DEF Smooth
  <2> QED
    BY <2>4, <2>6, SmoothTwice
<1>6. CASE ~Is(e, b, "ASYNC")
  <2>1. d = Quieted(e, b)
    BY <1>6 DEF biodone, Quieted
  <2>2. e \in Cache /\ Lists(e) /\ Named1(e) /\ e.numoutput = Cardinality(Writing(e))
    BY <1>1 DEF OthersOK
  <2>0. Quiet(e, d, b)
    BY <2>1, <2>2, QuietIs
  <2>3. /\ d \in Cache /\ d.age = e.age /\ d.lru = e.lru /\ d.needbuffer = e.needbuffer
        /\ d.numoutput = e.numoutput /\ d.vbwait = e.vbwait /\ d.io = e.io
        /\ d.wake = e.wake \cup {b}
        /\ \A x \in Buf : x # b => d.buf[x] = e.buf[x]
        /\ d.buf[b].flags = e.buf[b].flags \ {"WANTED"}
        /\ d.buf[b].blk = e.buf[b].blk /\ d.buf[b].cur = e.buf[b].cur
    BY <2>0 DEF Quiet
  <2>4. \A f : Is(d, b, f) <=> Is(e, b, f) /\ f # "WANTED"
    BY <2>3 DEF Is
  <2>5. Local(e, d, b) /\ (On(d, b) <=> On(e, b))
    BY <2>2, <2>3 DEF Local, Lists, On
  <2>6. e.buf[b].blk = c.buf[b].blk
    BY DEF Finished
  <2>7. BufOK(d, b, b \in H)
    <3>1. b \in H /\ ~Is(c, b, "ASYNC") /\ ~Is(c, b, "VFLUSH")
      <4>1. BufOK(c, b, b \in H)
        BY DEF CacheOK
      <4> QED
        BY <1>2, <1>3, <1>6, <4>1 DEF BufOK
    <3>2. d.buf[b].blk # NoBlock /\ ~On(d, b) /\ b \notin d.io
      BY <1>1, <1>3, <2>3, <2>5, <2>6, <3>1
    <3>3. \A f : Is(d, b, f) <=> (Is(c, b, f) \/ f \in D) /\ f # "WANTED"
      BY <1>2, <2>4
    <3> QED
      BY <1>3, <3>1, <3>2, <3>3 DEF BufOK
  <2>8. d.numoutput = Cardinality(Writing(d))
    <3>1. b \notin Writing(e) /\ b \notin Writing(d)
      BY <1>1, <2>3 DEF Writing
    <3> QED
      BY <2>2, <2>3, <2>5, <3>1, WritesCounted
  <2>9. CacheOK(d, H)
    <3>1. \A x \in Buf : x # b /\ e.buf[x].blk = d.buf[b].blk => d.buf[b].blk = NoBlock
      BY <2>2, <2>3 DEF Named1
    <3> QED
      BY <1>1, <2>5, <2>7, <2>8, <3>1, LocalOK
  <2>10. CopiesOK(d, C)
    <3>1. (Copy(d, b) => Copy(e, b)) /\ (Unsaved(e, b) => Unsaved(d, b))
      BY <2>3, <2>4 DEF Copy, Unsaved, Valid
    <3>2. d.buf[b].blk # NoBlock /\ Copy(d, b) => d.buf[b].cur
      BY <2>3, <3>1 DEF CopiesOK
    <3>3. Is(d, b, "DELWRI") \/ b \in Writing(d) => ~Is(d, b, "ERROR")
      BY <1>1, <2>3, <2>4 DEF CopiesOK, Writing
    <3> QED
      BY <2>3, <2>5, <3>1, <3>2, <3>3, LocalCopies
  <2>11. ASSUME NEW x \in Buf
         PROVE  /\ Calm(e, d, x)
                /\ x # b => \A f : Is(d, x, f) <=> Is(e, x, f)
    <3>1. CASE x = b
      BY <2>3, <2>4, <3>1 DEF Calm, Valid
    <3>2. CASE x # b
      BY <2>3, <3>2 DEF Calm, Valid, Is
    <3> QED
      BY <3>1, <3>2
  <2>12. b \in d.wake /\ c.wake \subseteq d.wake
    BY <2>3 DEF Finished
  <2>13. Heeds(c, d)
    <3>1. ASSUME NEW x \in Buf, x # b
          PROVE  /\ Is(c, x, "BUSY") /\ Is(c, x, "WANTED") => Is(d, x, "BUSY") /\ Is(d, x, "WANTED")
                 /\ x \in c.io /\ ~Is(c, x, "ASYNC") => x \in d.io /\ ~Is(d, x, "ASYNC")
      BY <1>4, <2>3, <2>11, <3>1
    <3>2. /\ c.needbuffer /\ c.age = <<>> /\ c.lru = <<>> =>
               d.needbuffer /\ d.age = <<>> /\ d.lru = <<>>
          /\ c.vbwait /\ c.numoutput > 0 => NumOutput \in d.wake \/ (d.vbwait /\ d.numoutput > 0)
      BY <2>3 DEF Finished
    <3> QED
      BY <2>12, <3>1, <3>2 DEF Heeds
  <2>14. \A x \in Buf : Calm(c, d, x)
    BY <1>4, <2>11 DEF Calm
  <2> QED
    BY <2>9, <2>10, <2>13, <2>14 DEF Smooth
<1> QED
  BY <1>5, <1>6

(* The blocks that are behind when the transfer of b is over.               *)
After(c, b, ok, B) ==
  IF Is(c, b, "READ") THEN B
  ELSE IF ok /\ ~c.buf[b].cur THEN B \cup {c.buf[b].blk} ELSE B \ {c.buf[b].blk}

(* The contents then: a read finds the last modification on the disk, since *)
(* nobody has a newer one, and a write leaves it there.                     *)
LEMMA FinishedCopies ==
  ASSUME NEW c, NEW H, CacheOK(c, H), NEW b \in Buf, b \in c.io, NEW ok \in BOOLEAN,
         NEW B, CopiesOK(c, B), NEW D, D = {"DONE"} \cup IF ok THEN {} ELSE {"ERROR"},
         NEW e, Finished(c, e, b, D),
         e.buf[b].cur = IF Is(c, b, "READ") THEN c.buf[b].blk \notin B \/ ~ok ELSE c.buf[b].cur
  PROVE  CopiesOK(e, After(c, b, ok, B))
<1>0. D \in SUBSET {"DONE", "ERROR"} /\ "DONE" \in D /\ (~ok => "ERROR" \in D)
  OBVIOUS
<1>1. Local(c, e, b) /\ b \notin e.io
  BY <1>0, FinishedOK
<1>2. \A f : Is(e, b, f) <=> Is(c, b, f) \/ f \in D
  BY <1>0, FinishedOK
<1>3. Is(c, b, "BUSY") /\ ~Is(c, b, "DELWRI") /\ c.buf[b].blk # NoBlock
  BY <1>0, FinishedOK
<1>4. ~Is(e, b, "DELWRI") /\ b \notin Writing(e) /\ e.buf[b].blk = c.buf[b].blk
  BY <1>0, <1>1, <1>2, <1>3 DEF Writing, Finished
<1>5. CASE Is(c, b, "READ")
  <2>1. After(c, b, ok, B) = B /\ ~Unsaved(c, b)
    BY <1>3, <1>5 DEF After, Unsaved
  <2>2. c.buf[b].blk \notin B
    <3> SUFFICES ASSUME c.buf[b].blk \in B PROVE FALSE
      OBVIOUS
    <3>1. PICK x \in Buf : c.buf[x].blk = c.buf[b].blk /\ Unsaved(c, x)
      BY DEF CopiesOK
    <3>2. x = b
      BY <1>3, <3>1 DEF CacheOK, Named1
    <3> QED
      BY <2>1, <3>1, <3>2
  <2>3. e.buf[b].cur
    BY <1>5, <2>2
  <2> QED
    BY <1>1, <1>4, <2>1, <2>3, LocalCopies
<1>6. CASE ~Is(c, b, "READ")
  <2>1. b \in Writing(c)
    BY <1>6 DEF Writing
  <2>2. ~Is(c, b, "ERROR")
    BY <2>1 DEF CopiesOK
  <2>3. c.buf[b].cur
    BY <1>3, <1>6, <2>2 DEF CopiesOK, Copy
  <2>4. After(c, b, ok, B) = B \ {c.buf[b].blk} /\ e.buf[b].cur
    BY <1>6, <2>3 DEF After
  <2> QED
    BY <1>1, <1>4, <2>4, LocalCopies
<1> QED
  BY <1>5, <1>6

(* The end of the transfer of b as an interrupt.                            *)
LEMMA TransferOK ==
  ASSUME NEW H, CacheOK(k, H), CopiesOK(k, behind), NEW b \in Buf, NEW ok \in BOOLEAN, b \in k.io,
         NEW D, D = {"DONE"} \cup IF ok THEN {} ELSE {"ERROR"},
         NEW v, v = IF Is(k, b, "READ") THEN k.buf[b].blk \notin behind \/ ~ok ELSE k.buf[b].cur,
         NEW a, a = Over(k, b, D, v),
         NEW e, e = IF Is(k, b, "READ") THEN a ELSE vwakeup(a),
         NEW d, d = biodone(e, b)
  PROVE  CacheOK(d, H) /\ CopiesOK(d, After(k, b, ok, behind)) /\ Smooth(k, d, H)
<1>1. k \in Cache
  BY DEF CacheOK
<1>2. D \in SUBSET {"DONE", "ERROR"} /\ "DONE" \in D /\ D \in SUBSET Flag
  BY DEF Flag
<1>3. v \in BOOLEAN
  BY <1>1, CacheType
<1>4. Ended(k, a, b, D, v)
  BY <1>1, <1>2, <1>3, OverIs
<1>5. Finished(k, e, b, D) /\ e.buf[b].cur = v
  BY <1>2, <1>4, FinishedIs
<1>6. CopiesOK(e, After(k, b, ok, behind))
  BY <1>5, FinishedCopies
<1> QED
  BY <1>2, <1>5, <1>6, BiodoneOK
-----------------------------------------------------------------------------
(* Steps of processes.                                                      *)

(* Before the next step all wakeups have been done.                         *)
Awake(c) == [c EXCEPT !.wake = {}]

(* The cache is in order then as it was.                                    *)
LEMMA AwakeIs ==
  ASSUME NEW c \in Cache, NEW d, d = Awake(c)
  PROVE  /\ d \in Cache /\ d.buf = c.buf /\ d.age = c.age /\ d.lru = c.lru
         /\ d.needbuffer = c.needbuffer /\ d.numoutput = c.numoutput
         /\ d.vbwait = c.vbwait /\ d.io = c.io /\ d.wake = {}
BY DEF Cache, Awake

(* So are the contents.                                                     *)
LEMMA AwakeOK ==
  ASSUME NEW c, NEW H, CacheOK(c, H), NEW B, CopiesOK(c, B), NEW d, d = Awake(c)
  PROVE  CacheOK(d, H) /\ CopiesOK(d, B) /\ d.wake = {}
<1>1. /\ d \in Cache /\ d.buf = c.buf /\ d.age = c.age /\ d.lru = c.lru
      /\ d.needbuffer = c.needbuffer /\ d.numoutput = c.numoutput
      /\ d.vbwait = c.vbwait /\ d.io = c.io /\ d.wake = {}
  BY AwakeIs DEF CacheOK
<1> QED
  BY <1>1, BesideOK

(* The places of processes are in order as they were.                       *)
LEMMA AwakePlaced ==
  ASSUME NEW c \in Cache, NEW d, d = Awake(c), NEW at, NEW ch, NEW cl, NEW h,
         Placed(c, at, ch, cl, h)
  PROVE  Placed(d, at, ch, cl, h)
<1>1. /\ d.buf = c.buf /\ d.age = c.age /\ d.lru = c.lru
      /\ d.needbuffer = c.needbuffer /\ d.numoutput = c.numoutput
      /\ d.vbwait = c.vbwait /\ d.io = c.io
  BY AwakeIs
<1> QED
  BY <1>1 DEF Placed, ProcOK, Places, Remembered, Valid, Is

(* A process that takes no part in a step is where it was, awake if the     *)
(* step has called wakeup() for its channel.                                *)
LEMMA BystanderOK ==
  ASSUME NEW c, NEW d, NEW H, Smooth(c, d, H), NEW at, NEW ch, NEW cl, NEW h,
         h = NoBuf \/ h \in H, Placed(c, at, ch, cl, h),
         NEW w, w = IF ch \in d.wake THEN NoChan ELSE ch
  PROVE  Placed(d, at, w, cl, h)
<1>1. NoChan \notin Buf /\ NoChan # NeedBuffer /\ NoChan # NumOutput /\ NoBuf \notin Buf
  BY BufAssumption DEF NoChan, NeedBuffer, NumOutput
<1>2. ProcOK(d, at, w, cl, h)
  <2>1. h \in Buf => Calm(c, d, h)
    BY <1>1 DEF Smooth
  <2> QED
    BY <1>1, <2>1 DEF Placed, ProcOK, Places, Calm
<1>3. Remembered(d, at, w, h)
  BY <1>1 DEF Placed, Smooth, Heeds, ProcOK, Places, Remembered
<1> QED
  BY <1>2, <1>3 DEF Placed

(* The buffers that the processes other than p hold.                        *)
Others(p) == {hold[q] : q \in Proc \ {p}} \ {NoBuf}

(* What p holds, nobody else holds.                                         *)
LEMMA OthersIs ==
  ASSUME Inv, NEW p \in Proc
  PROVE  /\ Held = Others(p) \cup ({hold[p]} \ {NoBuf}) /\ hold[p] \notin Others(p)
         /\ Others(p) \subseteq Buf /\ hold[p] \in Buf \cup {NoBuf}
         /\ \A q \in Proc : q # p => hold[q] = NoBuf \/ hold[q] \in Others(p)
<1>1. \A q \in Proc : hold[q] \in Buf \cup {NoBuf}
  BY DEF Inv
<1>2. \A q \in Proc : hold[q] = hold[p] /\ hold[p] # NoBuf => q = p
  BY DEF Inv
<1> QED
  BY <1>1, <1>2 DEF Others, Held

(* The stretch of p ends with a cache in order.                             *)
LEMMA DoOK ==
  ASSUME Inv, NEW p \in Proc, NEW c, NEW at, NEW ch, NEW cl, NEW b,
         Do(c, p, at, ch, cl, b), b \in Buf \cup {NoBuf}, b \notin Others(p),
         NEW G, G = Others(p) \cup ({b} \ {NoBuf}), CacheOK(c, G), CopiesOK(c, behind'),
         Smooth(k, c, Others(p)), Placed(c, at, ch, cl, b)
  PROVE  Inv'
<1>1. k' = Awake(c)
  BY DEF Do, Awake
<1>2. CacheOK(k', G) /\ CopiesOK(k', behind') /\ k'.wake = {} /\ c \in Cache
  BY <1>1, AwakeOK DEF CacheOK
<1>3. /\ pc \in [Proc -> Places] /\ wchan \in [Proc -> Buf \cup {NeedBuffer, NumOutput, NoChan}]
      /\ hold \in [Proc -> Buf \cup {NoBuf}]
  BY DEF Inv
<1>4. hold' \in [Proc -> Buf \cup {NoBuf}] /\ hold'[p] = b /\ \A q \in Proc : q # p => hold'[q] = hold[q]
  BY <1>3 DEF Do
<1>5. pc' \in [Proc -> Places] /\ pc'[p] = at /\ \A q \in Proc : q # p => pc'[q] = pc[q]
  BY <1>3 DEF Do, Placed, ProcOK, Places
<1>6. /\ wchan'[p] = ch
      /\ \A q \in Proc : q # p => wchan'[q] = IF wchan[q] \in c.wake THEN NoChan ELSE wchan[q]
  BY DEF Do
<1>7. ch \in Buf \cup {NeedBuffer, NumOutput, NoChan}
  BY DEF Placed, ProcOK, Places
<1>8. wchan' \in [Proc -> Buf \cup {NeedBuffer, NumOutput, NoChan}]
  <2>1. wchan' = [q \in Proc |-> IF q = p THEN ch ELSE IF wchan[q] \in c.wake THEN NoChan ELSE wchan[q]]
    BY DEF Do
  <2> QED
    BY <1>3, <1>7, <2>1
<1>9. Held' = G
  <2>1. \A x : x \in Held' <=> x # NoBuf /\ \E q \in Proc : hold'[q] = x
    BY DEF Held
  <2>2. \A x : x \in Others(p) <=> x # NoBuf /\ \E q \in Proc : q # p /\ hold[q] = x
    BY DEF Others
  <2>3. \A x : x \in Held' <=> x \in G
    BY <1>4, <2>1, <2>2
  <2> QED
    BY <2>3
<1>10. \A q, r \in Proc : hold'[q] = hold'[r] /\ hold'[q] # NoBuf => q = r
  <2>1. \A q \in Proc : q # p => hold[q] = NoBuf \/ hold[q] \in Others(p)
    BY OthersIs
  <2>2. \A q, r \in Proc : hold[q] = hold[r] /\ hold[q] # NoBuf => q = r
    BY DEF Inv
  <2> QED
    BY <1>4, <2>1, <2>2
<1>11. DOMAIN call' = Proc /\ call'[p] = cl
  BY DEF Do, Inv
<1>12. Placed(k', pc'[p], wchan'[p], call'[p], hold'[p])
  BY <1>1, <1>2, <1>4, <1>5, <1>6, <1>11, AwakePlaced
<1>13. ASSUME NEW q \in Proc, q # p PROVE Placed(k', pc'[q], wchan'[q], call'[q], hold'[q])
  <2>1. Placed(k, pc[q], wchan[q], call[q], hold[q])
    BY DEF Inv
  <2>2. hold[q] = NoBuf \/ hold[q] \in Others(p)
    BY <1>13, OthersIs
  <2>3. Placed(c, pc[q], wchan'[q], call[q], hold[q])
    BY <1>6, <1>13, <2>1, <2>2, BystanderOK
  <2>4. call'[q] = call[q]
    BY <1>13 DEF Do
  <2> QED
    BY <1>1, <1>2, <1>4, <1>5, <1>13, <2>3, <2>4, AwakePlaced
<1> QED
  BY <1>2, <1>4, <1>5, <1>8, <1>9, <1>10, <1>12, <1>13, <1>11 DEF Inv

(* What is smooth for many holders is smooth for some of them.              *)
LEMMA SmoothLess ==
  ASSUME NEW c, NEW d, NEW G, NEW H, Smooth(c, d, G), H \subseteq G
  PROVE  Smooth(c, d, H)
BY DEF Smooth

(* The stretch of p ends the call, and p has no buffer any more.            *)
LEMMA DoneOK ==
  ASSUME Inv, NEW p \in Proc, NEW c, CacheOK(c, Others(p)), CopiesOK(c, behind'),
         Smooth(k, c, Others(p)), Do(c, p, "idle", NoChan, NoCall, NoBuf)
  PROVE  Inv'
<1>1. NoBuf \notin Buf /\ NoChan \notin Buf /\ NoChan # NeedBuffer /\ NoChan # NumOutput
  BY BufAssumption DEF NoChan, NeedBuffer, NumOutput
<1>2. Placed(c, "idle", NoChan, NoCall, NoBuf)
  BY <1>1 DEF Placed, ProcOK, Places, Remembered
<1>3. NoBuf \notin Others(p) /\ Others(p) = Others(p) \cup ({NoBuf} \ {NoBuf})
  BY DEF Others
<1> HIDE DEF Others
<1> QED
  BY <1>2, <1>3, DoOK

(* bread() and breadn() end, or wait for the transfer of b.                 *)
LEMMA BiowaitOK ==
  ASSUME Inv, NEW p \in Proc, NEW c, NEW b \in Buf, b \notin Others(p),
         NEW G, G = Others(p) \cup {b}, CacheOK(c, G), CopiesOK(c, behind'),
         Smooth(k, c, Others(p)), b \in c.io \/ Valid(c, b), biowait(c, p, b)
  PROVE  Inv'
<1>1. NoBuf \notin Buf /\ NoChan \notin Buf /\ NoChan # NeedBuffer /\ NoChan # NumOutput
      /\ NeedBuffer \notin Buf /\ NumOutput \notin Buf
  BY BufAssumption DEF NoChan, NeedBuffer, NumOutput
<1>2. ~Is(c, b, "ASYNC") /\ BufOK(c, b, b \in G)
  BY HeldIs DEF CacheOK
<1>3. G = Others(p) \cup ({b} \ {NoBuf})
  BY <1>1
<1>4. CASE Valid(c, b)
  <2>1. Do(c, p, "hold", NoChan, NoCall, b)
    BY <1>4 DEF biowait
  <2>2. Placed(c, "hold", NoChan, NoCall, b)
    BY <1>1, <1>2, <1>4 DEF Placed, ProcOK, Places, Remembered, BufOK, Valid
  <2> QED
    BY <1>3, <2>1, <2>2, DoOK
<1>5. CASE ~Valid(c, b)
  <2>1. Do(c, p, "biowait", b, NoCall, b)
    BY <1>5 DEF biowait
  <2>2. Placed(c, "biowait", b, NoCall, b)
    BY <1>1, <1>2, <1>5 DEF Placed, ProcOK, Places, Remembered
  <2> QED
    BY <1>3, <2>1, <2>2, DoOK
<1> QED
  BY <1>4, <1>5

(* p sleeps in getblk(), with or without a buffer b that it has already.    *)
LEMMA SleepForOK ==
  ASSUME Inv, NEW p \in Proc, NEW c, NEW b \in Buf \cup {NoBuf}, b \notin Others(p),
         NEW G, G = Others(p) \cup ({b} \ {NoBuf}), NEW r, Asleep(c, r, G, behind'),
         Smooth(k, c, Others(p)), b # NoBuf => b \in c.io \/ Valid(c, b),
         NEW cl, cl.blk \in Block, cl.ahead \in Block \cup {NoBlock},
         b # NoBuf => cl.read /\ cl.ahead # NoBlock, SleepFor(r, p, cl, b)
  PROVE  Inv'
<1>1. /\ NoBuf \notin Buf /\ NeedBuffer \notin Buf /\ "strategy" \notin Buf
      /\ NumOutput \notin Buf /\ NumOutput # NeedBuffer /\ NeedBuffer # "strategy"
  BY BufAssumption DEF NeedBuffer, NumOutput
<1>2. r.sleep # "strategy"
  BY <1>1 DEF Asleep
<1>3. Do(r.k, p, "getblk", r.sleep, cl, b)
  BY <1>2 DEF SleepFor
<1>4. CacheOK(r.k, G) /\ CopiesOK(r.k, behind') /\ Smooth(c, r.k, G)
  BY DEF Asleep
<1>5. Smooth(k, r.k, Others(p))
  <2>1. Smooth(c, r.k, Others(p))
    BY <1>4, SmoothLess
  <2> QED
    BY <2>1, SmoothTwice
<1>6. b # NoBuf => b \in r.k.io \/ Valid(r.k, b)
  <2>1. b # NoBuf => Calm(c, r.k, b)
    BY <1>4 DEF Smooth
  <2> QED
    BY <2>1 DEF Calm
<1>7. Remembered(r.k, "getblk", r.sleep, b)
  BY <1>1 DEF Asleep, Remembered
<1>8. ProcOK(r.k, "getblk", r.sleep, cl, b)
  BY <1>1, <1>6 DEF Asleep, ProcOK, Places
<1> QED
  BY <1>3, <1>4, <1>5, <1>7, <1>8, DoOK DEF Placed

(* breadn() with the block ahead, once it has the buffer b of its block.    *)
LEMMA GotAheadOK ==
  ASSUME Inv, NEW p \in Proc, NEW c, NEW b \in Buf, b \notin Others(p),
         NEW G, G = Others(p) \cup {b}, NEW r, Gave(c, r, G, behind'),
         Smooth(k, c, Others(p)), b \in c.io \/ Valid(c, b),
         NEW cl, cl.blk \in Block, cl.ahead \in Block, cl.read, GotAhead(r, p, cl, b)
  PROVE  Inv'
<1>1. NoBuf \notin Buf /\ NoBlock \notin Block /\ G = Others(p) \cup ({b} \ {NoBuf})
  BY BufAssumption
<1>2. CASE r.bp = NoBuf
  <2>1. Asleep(c, r, G, behind')
    BY <1>1, <1>2 DEF Gave, Given
  <2>2. SleepFor(r, p, cl, b)
    BY <1>2 DEF GotAhead
  <2> QED
    BY <1>1, <2>1, <2>2, SleepForOK
<1>3. CASE r.bp # NoBuf
  <2> DEFINE d == DoRead(r.k, r.bp, {"ASYNC"})
  <2>1. Given(c, r, G, behind')
    BY <1>3 DEF Gave, Asleep
  <2>2. /\ r.bp \in Buf /\ r.bp \notin G /\ r.bp \notin r.k.io
        /\ CacheOK(r.k, G \cup {r.bp}) /\ CopiesOK(r.k, behind') /\ Smooth(c, r.k, G)
    BY <2>1 DEF Given
  <2>3. CacheOK(d, G) /\ CopiesOK(d, behind') /\ Smooth(r.k, d, G)
    BY <2>2, ReadAheadOK
  <2>4. biowait(d, p, b)
    BY <1>3 DEF GotAhead
  <2> HIDE DEF d
  <2>5. Smooth(c, d, G)
    BY <2>2, <2>3, SmoothTwice
  <2>6. b \in d.io \/ Valid(d, b)
    BY <2>5 DEF Smooth, Calm
  <2>7. Smooth(k, d, Others(p))
    <3>1. Smooth(c, d, Others(p))
      BY <2>5, SmoothLess
    <3> QED
      BY <3>1, SmoothTwice
  <2> QED
    BY <2>3, <2>4, <2>6, <2>7, BiowaitOK
<1> QED
  BY <1>2, <1>3

(* breadn() looks for the block ahead.                                      *)
LEMMA AheadOK ==
  ASSUME ~StrategySleeps, Inv, NEW p \in Proc, NEW c, NEW b \in Buf, b \notin Others(p),
         NEW G, G = Others(p) \cup {b}, CacheOK(c, G), CopiesOK(c, behind'),
         Smooth(k, c, Others(p)), b \in c.io \/ Valid(c, b),
         NEW cl, cl.blk \in Block, cl.ahead \in Block \cup {NoBlock}, cl.read, Ahead(c, p, cl, b)
  PROVE  Inv'
<1>1. CASE cl.ahead = NoBlock \/ incore(c, cl.ahead)
  BY <1>1, BiowaitOK DEF Ahead
<1>2. CASE ~(cl.ahead = NoBlock \/ incore(c, cl.ahead))
  <2> DEFINE r == getblk(c, cl.ahead)
  <2>1. GotAhead(r, p, cl, b) /\ cl.ahead \in Block
    BY <1>2 DEF Ahead
  <2>2. Gave(c, r, G, behind')
    BY <2>1, GetblkOK
  <2> HIDE DEF r
  <2> QED
    BY <2>1, <2>2, GotAheadOK
<1> QED
  BY <1>1, <1>2

(* getblk(), bread() and breadn(), once getblk() has an answer.             *)
LEMMA GotOK ==
  ASSUME ~StrategySleeps, Inv, NEW p \in Proc, NEW r, Gave(k, r, Others(p), behind'),
         NEW cl, cl.blk \in Block, cl.ahead \in Block \cup {NoBlock}, Got(r, p, cl)
  PROVE  Inv'
<1>1. /\ NoBuf \notin Buf /\ NoBuf \notin Others(p) /\ NoChan \notin Buf /\ NoChan # NeedBuffer
      /\ NoChan # NumOutput /\ Others(p) = Others(p) \cup ({NoBuf} \ {NoBuf})
  BY BufAssumption DEF Others, NoChan, NeedBuffer, NumOutput
<1>2. CASE r.bp = NoBuf
  <2>1. Asleep(k, r, Others(p), behind')
    BY <1>1, <1>2 DEF Gave, Given
  <2>2. SleepFor(r, p, cl, NoBuf)
    BY <1>2 DEF Got
  <2> QED
    BY <1>1, <2>1, <2>2, SleepForOK, SmoothSame
<1>3. CASE r.bp # NoBuf
  <2> DEFINE G == Others(p) \cup {r.bp}
             d == DoRead(r.k, r.bp, {})
  <2>1. Given(k, r, Others(p), behind')
    BY <1>3 DEF Gave, Asleep
  <2>2. /\ r.bp \in Buf /\ r.bp \notin Others(p) /\ r.bp \notin r.k.io
        /\ CacheOK(r.k, G) /\ CopiesOK(r.k, behind') /\ Smooth(k, r.k, Others(p))
    BY <2>1 DEF Given
  <2>3. r.bp \in G /\ G \ {r.bp} = Others(p) /\ G = Others(p) \cup ({r.bp} \ {NoBuf})
    BY <1>3, <2>2
  <2> HIDE DEF G
  <2>4. CASE ~cl.read
    <3>1. Do(r.k, p, "hold", NoChan, NoCall, r.bp)
      BY <1>3, <2>4 DEF Got
    <3>2. Placed(r.k, "hold", NoChan, NoCall, r.bp)
      BY <1>1, <2>2 DEF Placed, ProcOK, Places, Remembered
    <3> QED
      BY <2>2, <2>3, <3>1, <3>2, DoOK
  <2>5. CASE cl.read
    <3>1. Ahead(d, p, cl, r.bp)
      BY <1>3, <2>5 DEF Got
    <3>2. /\ CacheOK(d, G) /\ CopiesOK(d, behind') /\ Smooth(r.k, d, Others(p))
          /\ r.bp \in d.io \/ Valid(d, r.bp)
      <4>1. /\ CacheOK(d, G) /\ CopiesOK(d, behind') /\ Smooth(r.k, d, G \ {r.bp})
            /\ r.bp \in d.io \/ Valid(d, r.bp)
        BY <2>2, <2>3, DoReadOK
      <4> QED
        BY <2>3, <4>1
    <3> HIDE DEF d
    <3>3. Smooth(k, d, Others(p))
      BY <2>2, <3>2, SmoothTwice
    <3> QED
      BY <2>2, <2>3, <2>5, <3>1, <3>2, <3>3, AheadOK DEF G
  <2> QED
    BY <2>4, <2>5
<1> QED
  BY <1>2, <1>3

(* A process that has a buffer.                                             *)
LEMMA HolderIs ==
  ASSUME Inv, NEW p \in Proc, NEW b, b = hold[p], b \in Buf
  PROVE  /\ b \in Held /\ b \notin Others(p) /\ Held \ {b} = Others(p)
         /\ Held = Others(p) \cup {b} /\ Held = Others(p) \cup ({b} \ {NoBuf})
         /\ CacheOK(k, Held) /\ CopiesOK(k, behind) /\ OthersOK(k, Others(p), b)
<1>1. NoBuf \notin Buf
  BY BufAssumption
<1>2. CacheOK(k, Held) /\ CopiesOK(k, behind)
  BY DEF Inv
<1>3. Held = Others(p) \cup {b} /\ b \notin Others(p) /\ {b} \ {NoBuf} = {b}
  BY <1>1, OthersIs
<1> HIDE DEF Held, Others
<1>4. OthersOK(k, Others(p), b)
  BY <1>2, <1>3, WithoutOne
<1> QED
  BY <1>2, <1>3, <1>4

(* A process that has none.                                                 *)
LEMMA FreeHandIs ==
  ASSUME Inv, NEW p \in Proc, hold[p] = NoBuf
  PROVE  Held = Others(p) /\ CacheOK(k, Others(p)) /\ CopiesOK(k, behind)
<1>1. Held = Others(p)
  BY OthersIs DEF Others
<1> QED
  BY <1>1 DEF Inv

(* Fewer blocks are behind.                                                 *)
LEMMA CopiesLess ==
  ASSUME NEW c, NEW B, CopiesOK(c, B), NEW C, C \subseteq B
  PROVE  CopiesOK(c, C)
BY DEF CopiesOK

(* getblk(), bread() or breadn() is called.                                 *)
LEMMA GetblkStep ==
  ASSUME ~StrategySleeps, Inv, NEW p \in Proc, NEW blk \in Block, NEW read,
         NEW ahead \in Block \cup {NoBlock}, Getblk(p, blk, read, ahead)
  PROVE  Inv'
<1> DEFINE r == getblk(k, blk)
           cl == [blk |-> blk, ahead |-> ahead, read |-> read]
<1>1. pc[p] = "idle" /\ Got(r, p, cl) /\ behind' = behind
  BY DEF Getblk
<1>2. cl.blk = blk /\ cl.ahead = ahead
  OBVIOUS
<1> HIDE DEF cl
<1>3. hold[p] = NoBuf
  BY <1>1 DEF Inv, Placed, ProcOK
<1>4. CacheOK(k, Others(p)) /\ CopiesOK(k, behind')
  BY <1>1, <1>3, FreeHandIs
<1>5. Gave(k, r, Others(p), behind')
  BY <1>4, GetblkOK
<1> HIDE DEF r
<1> QED
  BY <1>1, <1>2, <1>5, GotOK

(* getblk() starts over.                                                    *)
LEMMA ResumeGetblkStep ==
  ASSUME ~StrategySleeps, Inv, NEW p \in Proc, ResumeGetblk(p)
  PROVE  Inv'
<1>1. pc[p] = "getblk" /\ behind' = behind
  BY DEF ResumeGetblk
<1>2. ProcOK(k, "getblk", wchan[p], call[p], hold[p])
  BY <1>1 DEF Inv, Placed
<1>3. CASE hold[p] = NoBuf
  <2> DEFINE r == getblk(k, call[p].blk)
  <2>1. Got(r, p, call[p])
    BY <1>3 DEF ResumeGetblk
  <2>2. call[p].blk \in Block /\ call[p].ahead \in Block \cup {NoBlock}
    BY <1>2 DEF ProcOK
  <2>3. CacheOK(k, Others(p)) /\ CopiesOK(k, behind')
    BY <1>1, <1>3, FreeHandIs
  <2>4. Gave(k, r, Others(p), behind')
    BY <2>2, <2>3, GetblkOK
  <2> HIDE DEF r
  <2> QED
    BY <2>1, <2>2, <2>4, GotOK
<1>4. CASE hold[p] # NoBuf
  <2> DEFINE r == getblk(k, call[p].ahead)
             b == hold[p]
  <2>1. GotAhead(r, p, call[p], b)
    BY <1>4 DEF ResumeGetblk
  <2>2. /\ b \in Buf /\ call[p].blk \in Block /\ call[p].ahead \in Block /\ call[p].read
        /\ b \in k.io \/ Valid(k, b)
    BY <1>2, <1>4 DEF ProcOK
  <2>3. /\ b \notin Others(p) /\ Held = Others(p) \cup {b} /\ CacheOK(k, Held)
        /\ CopiesOK(k, behind')
    BY <1>1, <2>2, HolderIs
  <2> HIDE DEF b
  <2>4. Gave(k, r, Held, behind')
    BY <2>2, <2>3, GetblkOK
  <2> HIDE DEF r
  <2> QED
    BY <2>1, <2>2, <2>3, <2>4, GotAheadOK, SmoothSame
<1> QED
  BY <1>3, <1>4

(* A signal ends the wait for a buffer.                                     *)
LEMMA InterruptStep ==
  ASSUME Inv, NEW p \in Proc, Interrupt(p)
  PROVE  Inv'
<1>1. /\ pc[p] = "getblk" /\ ~call[p].read /\ behind' = behind
      /\ Do(k, p, "idle", NoChan, NoCall, NoBuf)
  BY DEF Interrupt
<1>2. hold[p] = NoBuf
  BY <1>1 DEF Inv, Placed, ProcOK
<1>3. CacheOK(k, Others(p)) /\ CopiesOK(k, behind')
  BY <1>1, <1>2, FreeHandIs
<1> QED
  BY <1>1, <1>3, DoneOK, SmoothSame

(* The transfer that p waits for may be over.                               *)
LEMMA ResumeBiowaitStep ==
  ASSUME Inv, NEW p \in Proc, ResumeBiowait(p)
  PROVE  Inv'
<1> DEFINE b == hold[p]
<1>1. pc[p] = "biowait" /\ behind' = behind /\ biowait(k, p, b)
  BY DEF ResumeBiowait
<1>2. b \in Buf /\ (b \in k.io \/ Valid(k, b))
  BY <1>1 DEF Inv, Placed, ProcOK
<1>3. /\ b \notin Others(p) /\ Held = Others(p) \cup {b} /\ CacheOK(k, Held)
      /\ CopiesOK(k, behind')
  BY <1>1, <1>2, HolderIs
<1> HIDE DEF b
<1> QED
  BY <1>1, <1>2, <1>3, BiowaitOK, SmoothSame

(* A buffer that p holds is released.                                       *)
LEMMA BrelseStep ==
  ASSUME Inv, NEW p \in Proc, NEW b, b = hold[p], b \in Buf, b \notin k.io, behind' = behind,
         Do(brelse(k, b), p, "idle", NoChan, NoCall, NoBuf)
  PROVE  Inv'
<1>1. /\ b \in Held /\ b \notin Others(p) /\ CacheOK(k, Held) /\ CopiesOK(k, behind')
      /\ OthersOK(k, Others(p), b)
  BY HolderIs
<1>2. ~Is(k, b, "VFLUSH") /\ ~Is(k, b, "INVAL") /\ ~On(k, b) /\ k.buf[b].blk # NoBlock
  BY <1>1, HeldIs
<1> DEFINE d == brelse(k, b)
<1>3. CacheOK(d, Others(p)) /\ CopiesOK(d, behind') /\ Smooth(k, d, Others(p))
  BY <1>1, <1>2, BrelseOK
<1>4. Do(d, p, "idle", NoChan, NoCall, NoBuf)
  OBVIOUS
<1> HIDE DEF d
<1> QED
  BY <1>3, <1>4, DoneOK

(* Its contents are given up.                                               *)
LEMMA DiscardStep ==
  ASSUME Inv, NEW p \in Proc, Discard(p)
  PROVE  Inv'
<1> DEFINE b == hold[p]
           e == SetFlags(k, b, {"INVAL"})
           d == brelse(e, b)
           C == behind \ {k.buf[b].blk}
<1>1. pc[p] = "hold" /\ behind' = C /\ Do(d, p, "idle", NoChan, NoCall, NoBuf)
  BY DEF Discard, Blk
<1>2. b \in Buf /\ b \notin k.io
  BY <1>1 DEF Inv, Placed, ProcOK
<1>3. /\ b \in Held /\ b \notin Others(p) /\ CacheOK(k, Held) /\ CopiesOK(k, behind)
      /\ OthersOK(k, Others(p), b)
  BY <1>2, HolderIs
<1> HIDE DEF b
<1>4. ~Is(k, b, "VFLUSH") /\ ~On(k, b) /\ k.buf[b].blk # NoBlock
  BY <1>2, <1>3, HeldIs
<1>5. CopiesOK(k, C) /\ k.buf[b].blk \notin C
  BY <1>3, CopiesLess
<1> HIDE DEF C
<1>6. Marked(k, e, b, {"INVAL"}, Others(p), C)
  BY <1>2, <1>3, <1>5, SetFlagsOK
<1> HIDE DEF e
<1>7. /\ OthersOK(e, Others(p), b) /\ CopiesOK(e, C) /\ Smooth(k, e, Others(p))
      /\ b \notin e.io /\ ~On(e, b) /\ ~Is(e, b, "VFLUSH") /\ e.buf[b].blk = k.buf[b].blk
  BY <1>2, <1>4, <1>6 DEF Marked, SameRest, Smooth, On
<1>8. CacheOK(d, Others(p)) /\ CopiesOK(d, C) /\ Smooth(e, d, Others(p))
  BY <1>2, <1>3, <1>4, <1>5, <1>7, BrelseOK
<1> HIDE DEF d
<1>9. Smooth(k, d, Others(p))
  BY <1>7, <1>8, SmoothTwice
<1> QED
  BY <1>1, <1>8, <1>9, DoneOK

(* A process that has changed the contents of its buffer b.                 *)
LEMMA WritesIs ==
  ASSUME Inv, NEW p \in Proc, NEW b, b = hold[p], Writes(p), NEW m, m = Modified(p)
  PROVE  /\ b \in Buf /\ b \in Held /\ b \notin Others(p) /\ Held \ {b} = Others(p)
         /\ Held = Others(p) \cup ({b} \ {NoBuf})
         /\ CacheOK(m, Held) /\ CopiesOK(m, behind) /\ Smooth(k, m, Others(p))
         /\ b \notin m.io /\ ~Is(m, b, "ERROR") /\ m.buf[b].cur
         /\ behind' = behind \cup {m.buf[b].blk}
<1>1. pc[p] = "hold" /\ ~Is(k, b, "ERROR") /\ behind' = behind \cup {k.buf[b].blk}
  BY DEF Writes, Blk
<1>2. b \in Buf /\ b \notin k.io
  BY <1>1 DEF Inv, Placed, ProcOK
<1>3. /\ b \in Held /\ b \notin Others(p) /\ Held \ {b} = Others(p)
      /\ Held = Others(p) \cup ({b} \ {NoBuf})
      /\ CacheOK(k, Held) /\ CopiesOK(k, behind)
  BY <1>2, HolderIs
<1> HIDE DEF Held, Others
<1>4. Updated(k, m, b)
  BY <1>1, <1>2, <1>3, ModifiedIs
<1>5. CacheOK(m, Held) /\ CopiesOK(m, behind) /\ Smooth(k, m, Buf)
  BY <1>1, <1>2, <1>3, <1>4, UpdatedOK
<1>6. Smooth(k, m, Others(p))
  BY <1>5 DEF Smooth
<1>7. b \notin m.io /\ ~Is(m, b, "ERROR") /\ m.buf[b].cur /\ m.buf[b].blk = k.buf[b].blk
  BY <1>1, <1>2, <1>4 DEF Updated, SameRest, Is
<1> QED
  BY <1>1, <1>2, <1>3, <1>5, <1>6, <1>7

(* The write is delayed.                                                    *)
LEMMA BdwriteStep ==
  ASSUME Inv, NEW p \in Proc, Bdwrite(p)
  PROVE  Inv'
<1> DEFINE b == hold[p]
           m == Modified(p)
           d == brelse(SetFlags(m, b, {"DELWRI", "DONE"}), b)
<1>1. Writes(p) /\ Do(d, p, "idle", NoChan, NoCall, NoBuf)
  BY DEF Bdwrite
<1>2. /\ b \in Buf /\ b \in Held /\ Held \ {b} = Others(p)
      /\ CacheOK(m, Held) /\ CopiesOK(m, behind) /\ Smooth(k, m, Others(p))
      /\ b \notin m.io /\ ~Is(m, b, "ERROR") /\ m.buf[b].cur
      /\ behind' = behind \cup {m.buf[b].blk}
  BY <1>1, WritesIs
<1> HIDE DEF m, b
<1>3. CacheOK(d, Held \ {b}) /\ CopiesOK(d, behind \cup {m.buf[b].blk}) /\ Smooth(m, d, Held \ {b})
  BY <1>2, DelayedOK
<1> HIDE DEF d
<1>4. CacheOK(d, Others(p)) /\ CopiesOK(d, behind') /\ Smooth(m, d, Others(p))
  BY <1>2, <1>3
<1>5. Smooth(k, d, Others(p))
  BY <1>2, <1>4, SmoothTwice
<1> QED
  BY <1>1, <1>4, <1>5, DoneOK

(* The write is started and left alone.                                     *)
LEMMA BawriteStep ==
  ASSUME Inv, NEW p \in Proc, Bawrite(p)
  PROVE  Inv'
<1> DEFINE b == hold[p]
           m == Modified(p)
           d == bawrite(m, b)
<1>1. Writes(p) /\ Do(d, p, "idle", NoChan, NoCall, NoBuf)
  BY DEF Bawrite
<1>2. /\ b \in Buf /\ b \in Held /\ b \notin Others(p) /\ Held \ {b} = Others(p)
      /\ CacheOK(m, Held) /\ CopiesOK(m, behind) /\ Smooth(k, m, Others(p))
      /\ b \notin m.io /\ m.buf[b].cur /\ behind' = behind \cup {m.buf[b].blk}
  BY <1>1, WritesIs
<1> HIDE DEF m, b
<1>3. /\ Is(m, b, "BUSY") /\ ~Is(m, b, "VFLUSH") /\ ~Is(m, b, "INVAL")
      /\ ~On(m, b) /\ m.buf[b].blk # NoBlock
  BY <1>2, HeldIs
<1>4. OthersOK(m, Others(p), b)
  BY <1>2, WithoutOne
<1>5. Onward(m, d, Others(p), behind \cup {m.buf[b].blk})
  BY <1>2, <1>3, <1>4, BawriteOK
<1> HIDE DEF d
<1>6. CacheOK(d, Others(p)) /\ CopiesOK(d, behind') /\ Smooth(m, d, Others(p))
  BY <1>2, <1>5 DEF Onward
<1>7. Smooth(k, d, Others(p))
  BY <1>2, <1>6, SmoothTwice
<1> QED
  BY <1>1, <1>6, <1>7, DoneOK

(* The write is started and waited for.                                     *)
LEMMA BwriteStep ==
  ASSUME Inv, NEW p \in Proc, Bwrite(p)
  PROVE  Inv'
<1> DEFINE b == hold[p]
           m == Modified(p)
           d == StartWrite(m, b)
<1>1. Writes(p) /\ Do(d, p, "bwrite", b, NoCall, b)
  BY DEF Bwrite
<1>2. /\ b \in Buf /\ b \in Held /\ b \notin Others(p) /\ Held \ {b} = Others(p)
      /\ Held = Others(p) \cup ({b} \ {NoBuf})
      /\ CacheOK(m, Held) /\ CopiesOK(m, behind) /\ Smooth(k, m, Others(p))
      /\ b \notin m.io /\ m.buf[b].cur /\ behind' = behind \cup {m.buf[b].blk}
  BY <1>1, WritesIs
<1> HIDE DEF m, b
<1>3. /\ Is(m, b, "BUSY") /\ ~Is(m, b, "ASYNC") /\ ~Is(m, b, "VFLUSH") /\ ~Is(m, b, "INVAL")
      /\ ~On(m, b) /\ m.buf[b].blk # NoBlock
  BY <1>2, HeldIs
<1>4. OthersOK(m, Held, b)
  BY <1>2, WithoutOne
<1>5. /\ CacheOK(d, Held) /\ CopiesOK(d, behind \cup {m.buf[b].blk}) /\ Smooth(m, d, Held \ {b})
      /\ b \in d.io /\ (Is(d, b, "ASYNC") <=> Is(m, b, "ASYNC"))
  BY <1>2, <1>3, <1>4, StartWriteOK, ZenonT(60)
<1> HIDE DEF d
<1>6. CacheOK(d, Held) /\ CopiesOK(d, behind') /\ Smooth(m, d, Others(p))
  BY <1>2, <1>5
<1>7. Smooth(k, d, Others(p))
  BY <1>2, <1>6, SmoothTwice
<1>8. NeedBuffer \notin Buf /\ NumOutput \notin Buf
  BY BufAssumption
<1>9. Placed(d, "bwrite", b, NoCall, b)
  BY <1>2, <1>3, <1>5, <1>8 DEF Placed, ProcOK, Places, Remembered
<1> QED
  BY <1>1, <1>2, <1>6, <1>7, <1>9, DoOK

(* bwrite() is woken.                                                       *)
LEMMA ResumeBwriteStep ==
  ASSUME Inv, NEW p \in Proc, ResumeBwrite(p)
  PROVE  Inv'
<1> DEFINE b == hold[p]
<1>1. pc[p] = "bwrite" /\ behind' = behind
  BY DEF ResumeBwrite
<1>2. b \in Buf /\ (b \in k.io \/ Is(k, b, "DONE"))
  BY <1>1 DEF Inv, Placed, ProcOK
<1>3. /\ b \in Held /\ b \notin Others(p) /\ Held = Others(p) \cup ({b} \ {NoBuf})
      /\ CacheOK(k, Held) /\ CopiesOK(k, behind')
  BY <1>1, <1>2, HolderIs
<1>4. CASE Is(k, b, "DONE")
  <2>1. b \notin k.io
    BY <1>2, <1>3, <1>4 DEF CacheOK, BufOK
  <2>2. Do(brelse(k, b), p, "idle", NoChan, NoCall, NoBuf)
    BY <1>4 DEF ResumeBwrite
  <2> QED
    BY <1>1, <1>2, <2>1, <2>2, BrelseStep
<1>5. CASE ~Is(k, b, "DONE")
  <2>1. Do(k, p, "bwrite", b, NoCall, b)
    BY <1>5 DEF ResumeBwrite
  <2> HIDE DEF b
  <2>2. ~Is(k, b, "ASYNC")
    BY <1>2, <1>3, HeldIs
  <2>3. NeedBuffer \notin Buf /\ NumOutput \notin Buf
    BY BufAssumption
  <2>4. Placed(k, "bwrite", b, NoCall, b)
    BY <1>2, <1>5, <2>2, <2>3 DEF Placed, ProcOK, Places, Remembered
  <2> QED
    BY <1>2, <1>3, <2>1, <2>4, DoOK, SmoothSame
<1> QED
  BY <1>4, <1>5

(* A process waits for the output of the vnode.                             *)
Awaited(c) == [c EXCEPT !.vbwait = TRUE]

(* VBWAIT is set.                                                           *)
LEMMA AwaitedIs ==
  ASSUME NEW c \in Cache, NEW d, d = Awaited(c)
  PROVE  /\ d \in Cache /\ d.buf = c.buf /\ d.age = c.age /\ d.lru = c.lru
         /\ d.needbuffer = c.needbuffer /\ d.numoutput = c.numoutput
         /\ d.vbwait = TRUE /\ d.io = c.io /\ d.wake = c.wake
BY DEF Cache, Awaited

(* vflushbuf() sleeps until the output is done.                             *)
LEMMA AwaitedStep ==
  ASSUME Inv, NEW p \in Proc, NEW c, CacheOK(c, Others(p)), CopiesOK(c, behind'),
         Smooth(k, c, Others(p)), c.numoutput > 0, NEW d, d = Awaited(c),
         Do(d, p, "vflush", NumOutput, NoCall, NoBuf)
  PROVE  Inv'
<1>1. /\ d \in Cache /\ d.buf = c.buf /\ d.age = c.age /\ d.lru = c.lru
      /\ d.needbuffer = c.needbuffer /\ d.numoutput = c.numoutput
      /\ d.vbwait = TRUE /\ d.io = c.io /\ d.wake = c.wake
  BY AwaitedIs DEF CacheOK
<1>2. CacheOK(d, Others(p)) /\ CopiesOK(d, behind')
  BY <1>1, BesideOK
<1>3. Smooth(c, d, Others(p))
  BY <1>1 DEF Smooth, Heeds, Calm, Valid, Is
<1>4. Smooth(k, d, Others(p))
  BY <1>3, SmoothTwice
<1>5. NoBuf \notin Buf /\ NumOutput \notin Buf /\ NumOutput # NeedBuffer
  BY BufAssumption DEF NumOutput, NeedBuffer
<1>6. Placed(d, "vflush", NumOutput, NoCall, NoBuf)
  BY <1>1, <1>5 DEF Placed, ProcOK, Places, Remembered
<1>7. NoBuf \notin Others(p) /\ Others(p) = Others(p) \cup ({NoBuf} \ {NoBuf})
  BY DEF Others
<1> QED
  BY <1>2, <1>4, <1>6, <1>7, DoOK

(* vflushbuf() from its label loop; when it has waited and returns, all     *)
(* that was written is on the disk.                                         *)
LEMMA FlushLoopStep ==
  ASSUME Inv, NEW p \in Proc, hold[p] = NoBuf, NEW sync \in BOOLEAN, FlushLoop(p, sync)
  PROVE  Inv' /\ (sync /\ pc'[p] = "idle" /\ ~hung' => behind' = {})
<1> DEFINE c == FlushAll(k)
<1>1. /\ IF sync /\ c.numoutput > 0
         THEN Do(Awaited(c), p, "vflush", NumOutput, NoCall, NoBuf)
         ELSE Do(c, p, "idle", NoChan, NoCall, NoBuf)
      /\ hung' = (sync /\ c.numoutput = 0 /\ Dirty(c) # {})
      /\ behind' = behind
  BY DEF FlushLoop, Awaited
<1>2. CacheOK(k, Others(p)) /\ CopiesOK(k, behind')
  BY <1>1, FreeHandIs
<1>3. CacheOK(c, Others(p)) /\ CopiesOK(c, behind') /\ Smooth(k, c, Others(p))
  BY <1>2, FlushAllOK
<1> HIDE DEF c
<1>4. p \in DOMAIN pc /\ c.numoutput \in Nat
  <2>1. c \in Cache /\ c.numoutput = Cardinality(Writing(c)) /\ Writing(c) \subseteq Buf
    BY <1>3, CacheType DEF CacheOK, Writing
  <2>2. IsFiniteSet(Writing(c))
    BY <2>1, FS_Subset, BufAssumption
  <2> QED
    BY <2>1, <2>2, FS_CardinalityType DEF Inv
<1>5. CASE sync /\ c.numoutput > 0
  <2>1. Do(Awaited(c), p, "vflush", NumOutput, NoCall, NoBuf)
    BY <1>1, <1>5
  <2>2. pc'[p] = "vflush"
    BY <1>4, <2>1 DEF Do
  <2> QED
    BY <1>3, <1>5, <2>1, <2>2, AwaitedStep
<1>6. CASE ~(sync /\ c.numoutput > 0)
  <2>1. Do(c, p, "idle", NoChan, NoCall, NoBuf)
    BY <1>1, <1>6
  <2>2. Inv'
    BY <1>3, <2>1, DoneOK
  <2>3. ASSUME sync, ~hung' PROVE behind' = {}
    <3>1. c.numoutput = 0
      BY <1>4, <1>6, <2>3
    <3>2. Dirty(c) = {}
      BY <1>1, <2>3, <3>1
    <3> QED
      BY <1>3, <3>1, <3>2, AllSaved
  <2> QED
    BY <2>2, <2>3
<1> QED
  BY <1>5, <1>6

(* vflushbuf() is called.                                                   *)
LEMMA VflushbufStep ==
  ASSUME Inv, NEW p \in Proc, NEW sync \in BOOLEAN, Vflushbuf(p, sync)
  PROVE  Inv'
<1>1. FlushLoop(p, sync) /\ hold[p] = NoBuf
  BY DEF Vflushbuf, Inv, Placed, ProcOK
<1> QED
  BY <1>1, FlushLoopStep

(* It wakes up.                                                             *)
LEMMA ResumeFlushStep ==
  ASSUME Inv, NEW p \in Proc, ResumeFlush(p)
  PROVE  Inv' /\ (pc'[p] = "idle" /\ ~hung' => behind' = {})
<1>1. pc[p] = "vflush" /\ hold[p] = NoBuf
  BY DEF ResumeFlush, Inv, Placed, ProcOK
<1>2. CASE k.numoutput > 0
  <2>1. Do(Awaited(k), p, "vflush", NumOutput, NoCall, NoBuf) /\ behind' = behind
    BY <1>2 DEF ResumeFlush, Awaited
  <2>2. CacheOK(k, Others(p)) /\ CopiesOK(k, behind')
    BY <1>1, <2>1, FreeHandIs
  <2>3. pc'[p] = "vflush"
    BY <2>1 DEF Do, Inv
  <2> QED
    BY <1>2, <2>1, <2>2, <2>3, AwaitedStep, SmoothSame
<1>3. CASE ~(k.numoutput > 0)
  BY <1>1, <1>3, FlushLoopStep DEF ResumeFlush
<1> QED
  BY <1>2, <1>3

(* A buffer that nobody has and that is not dirty has what the disk has.    *)
LEMMA CleanSaved ==
  ASSUME NEW c, NEW H, CacheOK(c, H), NEW B, CopiesOK(c, B), NEW x \in Buf, ~Is(c, x, "BUSY"),
         ~Is(c, x, "DELWRI"), c.buf[x].blk # NoBlock
  PROVE  c.buf[x].blk \notin B
<1> SUFFICES ASSUME c.buf[x].blk \in B PROVE FALSE
  OBVIOUS
<1>1. PICK y \in Buf : c.buf[y].blk = c.buf[x].blk /\ Unsaved(c, y)
  BY DEF CopiesOK
<1>2. y = x
  BY <1>1 DEF CacheOK, Named1
<1>3. x \notin c.io
  BY DEF CacheOK, BufOK
<1> QED
  BY <1>1, <1>2, <1>3 DEF Unsaved

(* vinvalbuf() from the head of its loop.                                   *)
LEMMA InvalLoopStep ==
  ASSUME Inv, NEW p \in Proc, hold[p] = NoBuf, InvalLoop(p)
  PROVE  Inv'
<1> DEFINE front == IF Clean(k) \cap Busy(k) # {} THEN {} ELSE Clean(k)
           list  == IF Clean(k) \cap Busy(k) # {} THEN Clean(k) ELSE Dirty(k)
           inWay == list \cap Busy(k)
           gone(S) == {k.buf[x].blk : x \in S}
           ends(order) ==
             \/ Do(Invalidate(k, order), p, "idle", NoChan, NoCall, NoBuf)
             \/ \E b \in inWay :
                  Do(SetFlags(Invalidate(k, order), b, {"WANTED"}), p, "vinval", b, NoCall, NoBuf)
<1>0. PICK S \in SUBSET (list \ Busy(k)) :
        \E order \in SetToSeqs(front \cup S) : behind' = behind \ gone(S) /\ ends(order)
  BY DEF InvalLoop
<1>1. PICK order \in SetToSeqs(front \cup S) : behind' = behind \ gone(S) /\ ends(order)
  BY <1>0
<1> DEFINE T == front \cup S
           c == Invalidate(k, order)
<1>2. /\ \A x \in front : x \in Buf /\ k.buf[x].blk # NoBlock /\ ~Is(k, x, "DELWRI") /\ ~Is(k, x, "BUSY")
      /\ list \subseteq Buf /\ \A x \in S : x \in Buf /\ ~Is(k, x, "BUSY")
      /\ \A x \in inWay : x \in Buf /\ Is(k, x, "BUSY")
  BY DEF Clean, Dirty, Busy
<1> HIDE DEF front, list, inWay
<1>3. CacheOK(k, Others(p)) /\ CopiesOK(k, behind)
  BY FreeHandIs
<1>4. behind' \subseteq behind /\ \A x \in S : k.buf[x].blk \notin behind'
  BY <1>1
<1>5. CopiesOK(k, behind')
  BY <1>3, <1>4, CopiesLess
<1>6. T \in SUBSET Buf /\ order \in SetToSeqs(T)
  BY <1>1, <1>2
<1>7. \A x \in T : ~Is(k, x, "BUSY") /\ k.buf[x].blk \notin behind'
  BY <1>2, <1>3, <1>4, CleanSaved
<1> HIDE DEF T, gone
<1>8. /\ CacheOK(c, Others(p)) /\ CopiesOK(c, behind') /\ Smooth(k, c, Others(p))
      /\ \A x \in Buf : x \notin T => c.buf[x] = k.buf[x]
  BY <1>3, <1>5, <1>6, <1>7, InvalidateOK
<1>9. \/ Do(c, p, "idle", NoChan, NoCall, NoBuf)
      \/ \E b \in inWay : Do(SetFlags(c, b, {"WANTED"}), p, "vinval", b, NoCall, NoBuf)
  BY <1>1 DEF ends
<1> HIDE DEF c
<1>10. CASE Do(c, p, "idle", NoChan, NoCall, NoBuf)
  BY <1>8, <1>10, DoneOK
<1>11. ASSUME NEW b \in inWay, Do(SetFlags(c, b, {"WANTED"}), p, "vinval", b, NoCall, NoBuf)
       PROVE  Inv'
  <2> DEFINE d == SetFlags(c, b, {"WANTED"})
  <2>1. b \in Buf /\ b \notin T /\ Is(k, b, "BUSY")
    BY <1>2, <1>7
  <2>2. Is(c, b, "BUSY")
    BY <1>8, <2>1 DEF Is
  <2>3. OthersOK(c, Others(p), b) /\ BufOK(c, b, b \in Others(p))
    BY <1>8, <2>1, WithoutOne DEF CacheOK
  <2>4. Marked(c, d, b, {"WANTED"}, Others(p), behind')
    BY <1>8, <2>1, <2>3, SetFlagsOK
  <2>5. Do(d, p, "vinval", b, NoCall, NoBuf)
    BY <1>11
  <2> HIDE DEF d
  <2>6. CacheOK(d, Others(p))
    <3>1. BufOK(d, b, b \in Others(p))
      BY <2>3, <2>4 DEF Marked, BufOK, SameRest, On
    <3> QED
      BY <2>4, <3>1 DEF Marked, OthersOK, CacheOK
  <2>7. CopiesOK(d, behind') /\ Smooth(c, d, Others(p)) /\ Is(d, b, "BUSY") /\ Is(d, b, "WANTED")
    BY <2>2, <2>4 DEF Marked, Smooth
  <2>8. Smooth(k, d, Others(p))
    BY <1>8, <2>7, SmoothTwice
  <2>9. NoBuf \notin Buf /\ NumOutput \notin Buf /\ NeedBuffer \notin Buf
    BY BufAssumption
  <2>10. Placed(d, "vinval", b, NoCall, NoBuf)
    BY <2>1, <2>7, <2>9 DEF Placed, ProcOK, Places, Remembered
  <2>11. NoBuf \notin Others(p) /\ Others(p) = Others(p) \cup ({NoBuf} \ {NoBuf})
    BY DEF Others
  <2> QED
    BY <2>5, <2>6, <2>7, <2>8, <2>10, <2>11, DoOK
<1> QED
  BY <1>9, <1>10, <1>11

(* vinvalbuf() is called, or wakes up.                                      *)
LEMMA VinvalbufStep ==
  ASSUME Inv, NEW p \in Proc, Vinvalbuf(p) \/ ResumeInval(p)
  PROVE  Inv'
<1>1. InvalLoop(p) /\ hold[p] = NoBuf
  BY DEF Vinvalbuf, ResumeInval, Inv, Placed, ProcOK
<1> QED
  BY <1>1, InvalLoopStep

(* A transfer ends.                                                         *)
LEMMA TransferStep ==
  ASSUME Inv, NEW b \in Buf, NEW ok \in BOOLEAN, Transfer(b, ok)
  PROVE  Inv'
<1> DEFINE D == {"DONE"} \cup IF ok THEN {} ELSE {"ERROR"}
           v == IF Is(k, b, "READ") THEN k.buf[b].blk \notin behind \/ ~ok ELSE k.buf[b].cur
           a == Over(k, b, D, v)
           e == IF Is(k, b, "READ") THEN a ELSE vwakeup(a)
           d == biodone(e, b)
<1>1. b \in k.io /\ behind' = After(k, b, ok, behind)
  BY DEF Transfer, After
<1>2. pc' = pc /\ call' = call /\ hold' = hold
  BY DEF Transfer
<1> DEFINE c1 == [SetFlags(k, b, {"DONE"} \cup IF ok THEN {} ELSE {"ERROR"})
                    EXCEPT !.io = @ \ {b},
                           !.buf[b].cur = IF Is(k, b, "READ") THEN k.buf[b].blk \notin behind \/ ~ok ELSE @]
           d1 == biodone(IF Is(k, b, "READ") THEN c1 ELSE vwakeup(c1), b)
<1>0. /\ k' = [d1 EXCEPT !.wake = {}]
      /\ wchan' = [q \in Proc |-> IF wchan[q] \in d1.wake THEN NoChan ELSE wchan[q]]
  BY DEF Transfer
<1>3. c1 = a
  BY ZenonT(60) DEF Over, SetFlags
<1> HIDE DEF c1, a
<1>4. /\ k' = Awake(d)
      /\ wchan' = [q \in Proc |-> IF wchan[q] \in d.wake THEN NoChan ELSE wchan[q]]
  <2>1. d1 = d
    BY <1>3
  <2> HIDE DEF d1, d
  <2> QED
    BY <1>0, <2>1 DEF Awake
<1> USE DEF a
<1>5. CacheOK(k, Held) /\ CopiesOK(k, behind)
  BY DEF Inv
<1>6. CacheOK(d, Held) /\ CopiesOK(d, behind') /\ Smooth(k, d, Held)
  BY <1>1, <1>5, TransferOK
<1> HIDE DEF d
<1>7. CacheOK(k', Held) /\ CopiesOK(k', behind') /\ k'.wake = {} /\ d \in Cache
  BY <1>4, <1>6, AwakeOK DEF CacheOK
<1>8. ASSUME NEW q \in Proc PROVE Placed(k', pc'[q], wchan'[q], call'[q], hold'[q])
  <2>1. Placed(k, pc[q], wchan[q], call[q], hold[q])
    BY DEF Inv
  <2>2. hold[q] = NoBuf \/ hold[q] \in Held
    BY DEF Held
  <2>3. wchan'[q] = IF wchan[q] \in d.wake THEN NoChan ELSE wchan[q]
    BY <1>4
  <2>4. Placed(d, pc[q], wchan'[q], call[q], hold[q])
    BY <1>6, <2>1, <2>2, <2>3, BystanderOK
  <2> QED
    BY <1>2, <1>4, <1>7, <2>4, AwakePlaced
<1>9. wchan' \in [Proc -> Buf \cup {NeedBuffer, NumOutput, NoChan}]
  BY <1>4 DEF Inv
<1>10. Held' = Held
  BY <1>2 DEF Held
<1>11. /\ pc' \in [Proc -> Places] /\ hold' \in [Proc -> Buf \cup {NoBuf}] /\ DOMAIN call' = Proc
       /\ \A p, q \in Proc : hold'[p] = hold'[q] /\ hold'[p] # NoBuf => p = q
  BY <1>2 DEF Inv
<1> QED
  BY <1>7, <1>8, <1>9, <1>10, <1>11 DEF Inv

(* After bufinit() every buffer is free and has no name.                    *)
LEMMA InitInv == Init => Inv
<1> SUFFICES ASSUME Init PROVE Inv
  OBVIOUS
<1>1. PICK order \in SetToSeqs(Buf) :
        k = [buf |-> [b \in Buf |-> [blk |-> NoBlock, flags |-> {"INVAL"}, cur |-> TRUE]],
             age |-> order, lru |-> <<>>, needbuffer |-> FALSE, numoutput |-> 0, vbwait |-> FALSE,
             io |-> {}, wake |-> {}]
  BY DEF Init
<1>2. /\ Len(order) \in Nat /\ order \in Seq(Buf) /\ Once(order)
      /\ Len(order) = Cardinality(Buf) /\ order \in [1 .. Cardinality(Buf) -> Buf]
  BY OrderIs
<1>3. \A b \in Buf : In(order, b)
  <2> DEFINE N == 1 .. Cardinality(Buf)
  <2>1. IsFiniteSet(Buf) /\ Cardinality(Buf) \in Nat
    BY BufAssumption, FS_CardinalityType
  <2>2. Cardinality(N) = Cardinality(Buf)
    BY <2>1, FS_Interval
  <2>3. order \in Injection(N, Buf)
    BY <1>2 DEF Injection, IsInjective, Once
  <2>4. order \in Surjection(N, Buf)
    BY <2>1, <2>2, <2>3, FS_Injection
  <2> QED
    BY <1>2, <2>4 DEF Surjection, In
<1>4. \A b \in Buf : k.buf[b].blk = NoBlock /\ k.buf[b].flags = {"INVAL"} /\ k.buf[b].cur = TRUE
  BY <1>1
<1>5. /\ k.age = order /\ k.lru = <<>> /\ k.numoutput = 0 /\ k.io = {} /\ k.wake = {}
      /\ k.needbuffer = FALSE /\ k.vbwait = FALSE
  BY <1>1
<1>6. k \in Cache
  <2> DEFINE A == [b \in Buf |-> [blk |-> NoBlock, flags |-> {"INVAL"}, cur |-> TRUE]]
  <2>1. A \in [Buf -> Buffer]
    BY DEF Buffer, Flag
  <2> HIDE DEF A
  <2>2. k = [buf |-> A, age |-> order, lru |-> <<>>, needbuffer |-> FALSE, numoutput |-> 0,
             vbwait |-> FALSE, io |-> {}, wake |-> {}]
    BY <1>1 DEF A
  <2>3. order \in Seq(Buf) /\ <<>> \in Seq(Buf)
    BY <1>2
  <2> QED
    BY <2>1, <2>2, <2>3 DEF Cache
<1>7. Lists(k) /\ Named1(k)
  BY <1>2, <1>4, <1>5 DEF Lists, Named1, Once, In
<1>8. k.numoutput = Cardinality(Writing(k))
  <2>1. Writing(k) = {}
    BY <1>5 DEF Writing
  <2> QED
    BY <1>5, <2>1, FS_EmptySet
<1>9. Held = {} /\ \A p \in Proc : hold[p] = NoBuf
  BY DEF Init, Held
<1>10. \A b \in Buf : BufOK(k, b, b \in Held)
  BY <1>3, <1>4, <1>5, <1>9 DEF BufOK, On, Is
<1>11. CopiesOK(k, behind)
  BY <1>4, <1>5 DEF CopiesOK, Writing, Is, Init
<1>12. /\ pc \in [Proc -> Places] /\ wchan \in [Proc -> Buf \cup {NeedBuffer, NumOutput, NoChan}]
       /\ hold \in [Proc -> Buf \cup {NoBuf}] /\ DOMAIN call = Proc
  BY DEF Init, Places
<1>13. ASSUME NEW p \in Proc PROVE Placed(k, pc[p], wchan[p], call[p], hold[p])
  <2>1. pc[p] = "idle" /\ wchan[p] = NoChan /\ hold[p] = NoBuf
    BY DEF Init
  <2>2. NoBuf \notin Buf /\ NoChan \notin Buf /\ NoChan # NeedBuffer /\ NoChan # NumOutput
    BY BufAssumption DEF NoChan, NeedBuffer, NumOutput
  <2> QED
    BY <2>1, <2>2 DEF Placed, ProcOK, Places, Remembered
<1> QED
  BY <1>5, <1>6, <1>7, <1>8, <1>9, <1>10, <1>11, <1>12, <1>13 DEF Inv, CacheOK

(* Every step keeps the cache in order.                                     *)
LEMMA NextInv ==
  ASSUME ~StrategySleeps, Inv, [Next]_vars
  PROVE  Inv'
<1>1. CASE UNCHANGED vars
  <2>1. k' = k /\ pc' = pc /\ wchan' = wchan /\ call' = call /\ hold' = hold /\ behind' = behind
    BY <1>1 DEF vars
  <2>2. Held' = Held
    BY <2>1 DEF Held
  <2> QED
    BY <2>1, <2>2 DEF Inv
<1>2. ASSUME NEW p \in Proc, NEW blk \in Block, NEW read \in BOOLEAN, Getblk(p, blk, read, NoBlock)
      PROVE  Inv'
  BY <1>2, GetblkStep
<1>3. ASSUME NEW p \in Proc, NEW ra \in ReadAhead[p], Getblk(p, ra[1], TRUE, ra[2])
      PROVE  Inv'
  <2>1. ra[1] \in Block /\ ra[2] \in Block
    BY BufAssumption
  <2> QED
    BY <1>3, <2>1, GetblkStep
<1>4. ASSUME NEW p \in Proc, ResumeGetblk(p) PROVE Inv'
  BY <1>4, ResumeGetblkStep
<1>5. ASSUME NEW p \in Proc, Interrupt(p) PROVE Inv'
  BY <1>5, InterruptStep
<1>6. ASSUME NEW p \in Proc, ResumeBiowait(p) PROVE Inv'
  BY <1>6, ResumeBiowaitStep
<1>7. ASSUME NEW p \in Proc, Brelse(p) PROVE Inv'
  <2>1. pc[p] = "hold" /\ behind' = behind /\ Do(brelse(k, hold[p]), p, "idle", NoChan, NoCall, NoBuf)
    BY <1>7 DEF Brelse
  <2>2. hold[p] \in Buf /\ hold[p] \notin k.io
    BY <2>1 DEF Inv, Placed, ProcOK
  <2> QED
    BY <2>1, <2>2, BrelseStep
<1>8. ASSUME NEW p \in Proc, Discard(p) PROVE Inv'
  BY <1>8, DiscardStep
<1>9. ASSUME NEW p \in Proc, Bdwrite(p) PROVE Inv'
  BY <1>9, BdwriteStep
<1>10. ASSUME NEW p \in Proc, Bawrite(p) PROVE Inv'
  BY <1>10, BawriteStep
<1>11. ASSUME NEW p \in Proc, Bwrite(p) PROVE Inv'
  BY <1>11, BwriteStep
<1>12. ASSUME NEW p \in Proc, ResumeBwrite(p) PROVE Inv'
  BY <1>12, ResumeBwriteStep
<1>13. ASSUME NEW p \in Proc, NEW sync \in BOOLEAN, Vflushbuf(p, sync) PROVE Inv'
  BY <1>13, VflushbufStep
<1>14. ASSUME NEW p \in Proc, ResumeFlush(p) PROVE Inv'
  BY <1>14, ResumeFlushStep
<1>15. ASSUME NEW p \in Proc, Vinvalbuf(p) \/ ResumeInval(p) PROVE Inv'
  BY <1>15, VinvalbufStep
<1>16. ASSUME NEW b \in Buf, NEW ok \in BOOLEAN, Transfer(b, ok) PROVE Inv'
  BY <1>16, TransferStep
<1> QED
  BY <1>1, <1>2, <1>3, <1>4, <1>5, <1>6, <1>7, <1>8, <1>9, <1>10, <1>11, <1>12, <1>13, <1>14,
     <1>15, <1>16 DEF Next
-----------------------------------------------------------------------------
(* The theorems.                                                            *)

(* A list that has no buffer twice has b at one place or at none.           *)
LEMMA PlacesCount ==
  ASSUME NEW s \in Seq(Buf), Once(s), NEW b
  PROVE  Cardinality({i \in 1 .. Len(s) : s[i] = b}) = IF In(s, b) THEN 1 ELSE 0
<1> DEFINE P == {i \in 1 .. Len(s) : s[i] = b}
<1>1. CASE In(s, b)
  <2>1. PICK i \in 1 .. Len(s) : s[i] = b
    BY <1>1 DEF In
  <2>2. P = {i}
    BY <2>1 DEF Once
  <2> QED
    BY <1>1, <2>2, FS_Singleton
<1>2. CASE ~In(s, b)
  <2>1. P = {}
    BY <1>2 DEF In
  <2> QED
    BY <1>2, <2>1, FS_EmptySet
<1> QED
  BY <1>1, <1>2

(* A buffer is on the free lists as often as it should be.                  *)
LEMMA ListsCounted == Inv => FreeListsExact
<1> SUFFICES ASSUME Inv, NEW b \in Buf
             PROVE  Cardinality({i \in 1 .. Len(k.age) : k.age[i] = b})
                      + Cardinality({i \in 1 .. Len(k.lru) : k.lru[i] = b}) =
                      IF ~Is(k, b, "BUSY") \/ Is(k, b, "VFLUSH") THEN 1 ELSE 0
  BY DEF FreeListsExact
<1>1. /\ k.age \in Seq(Buf) /\ k.lru \in Seq(Buf) /\ Once(k.age) /\ Once(k.lru)
      /\ ~(In(k.age, b) /\ In(k.lru, b)) /\ BufOK(k, b, b \in Held)
  BY CacheType DEF Inv, CacheOK, Lists
<1>2. Cardinality({i \in 1 .. Len(k.age) : k.age[i] = b}) = IF In(k.age, b) THEN 1 ELSE 0
  BY <1>1, PlacesCount
<1>3. Cardinality({i \in 1 .. Len(k.lru) : k.lru[i] = b}) = IF In(k.lru, b) THEN 1 ELSE 0
  BY <1>1, PlacesCount
<1>4. In(k.age, b) \/ In(k.lru, b) <=> ~Is(k, b, "BUSY") \/ Is(k, b, "VFLUSH")
  BY <1>1 DEF BufOK, On
<1> QED
  BY <1>1, <1>2, <1>3, <1>4

(* A busy buffer has one owner.                                             *)
LEMMA OwnersCounted == Inv => OneOwner
<1> SUFFICES ASSUME Inv, NEW b \in Buf
             PROVE  LET holders == {p \in Proc : hold[p] = b}
                    IN  /\ Is(k, b, "BUSY") =>
                             Cardinality(holders) + (IF Is(k, b, "ASYNC") THEN 1 ELSE 0) = 1
                        /\ ~Is(k, b, "BUSY") => holders = {} /\ b \notin k.io
                        /\ Is(k, b, "ASYNC") => b \in k.io
                        /\ b \in k.io => ~Is(k, b, "DONE")
  BY DEF OneOwner
<1> DEFINE h == {p \in Proc : hold[p] = b}
<1>1. BufOK(k, b, b \in Held) /\ NoBuf \notin Buf
  BY BufAssumption DEF Inv, CacheOK
<1>2. b \in Held => Cardinality(h) = 1
  <2> SUFFICES ASSUME b \in Held PROVE Cardinality(h) = 1
    OBVIOUS
  <2>1. PICK p \in Proc : hold[p] = b
    BY DEF Held
  <2>2. h = {p}
    BY <1>1, <2>1 DEF Inv
  <2> QED
    BY <2>2, FS_Singleton
<1>3. b \notin Held => h = {} /\ Cardinality(h) = 0
  BY <1>1, FS_EmptySet DEF Held
<1> HIDE DEF h
<1>4. /\ Is(k, b, "BUSY") => Cardinality(h) + (IF Is(k, b, "ASYNC") THEN 1 ELSE 0) = 1
      /\ ~Is(k, b, "BUSY") => h = {} /\ b \notin k.io
      /\ Is(k, b, "ASYNC") => b \in k.io
      /\ b \in k.io => ~Is(k, b, "DONE")
  BY <1>1, <1>2, <1>3 DEF BufOK
<1> QED
  BY <1>4 DEF h

(* The invariant says all this of the buffers.                              *)
LEMMA InvExact == Inv => BuffersExact
<1> SUFFICES ASSUME Inv PROVE BuffersExact
  OBVIOUS
<1>1. TypeOK
  <2>1. k \in Cache /\ k.numoutput = Cardinality(Writing(k)) /\ k.wake = {}
    BY DEF Inv, CacheOK
  <2>2. Writing(k) = {b \in k.io : ~Is(k, b, "READ")}
    BY DEF Writing
  <2>3. \A p \in Proc : wchan[p] \in Buf \cup {NeedBuffer, NumOutput, NoChan} /\ hold[p] \in Buf \cup {NoBuf}
    BY DEF Inv
  <2> QED
    BY <2>1, <2>2, <2>3, CacheType DEF TypeOK
<1>2. OneBuffer
  <2> SUFFICES ASSUME NEW blk \in Block PROVE Cardinality(Named(k, blk)) <= 1
    BY DEF OneBuffer
  <2>1. blk # NoBlock
    BY BufAssumption
  <2>2. CASE Named(k, blk) = {}
    BY <2>2, FS_EmptySet
  <2>3. CASE Named(k, blk) # {}
    <3>1. PICK b : b \in Named(k, blk)
      BY <2>3
    <3>2. Named(k, blk) = {b}
      BY <2>1, <3>1 DEF Named, Inv, CacheOK, Named1
    <3> QED
      BY <3>2, FS_Singleton
  <2> QED
    BY <2>2, <2>3
<1> QED
  BY <1>1, <1>2, ListsCounted, OwnersCounted DEF BuffersExact

(* And of the sleepers.                                                     *)
LEMMA InvRemembered == Inv => SleepersRemembered
<1> SUFFICES ASSUME Inv, NEW p \in Proc
             PROVE  CASE wchan[p] \in Buf /\ pc[p] \in {"getblk", "vinval"} ->
                           Is(k, wchan[p], "BUSY") /\ Is(k, wchan[p], "WANTED")
                      [] wchan[p] \in Buf /\ pc[p] \notin {"getblk", "vinval"} ->
                           wchan[p] = hold[p] /\ wchan[p] \in k.io /\ ~Is(k, wchan[p], "ASYNC")
                      [] wchan[p] = NeedBuffer -> k.needbuffer /\ k.age \o k.lru = <<>>
                      [] wchan[p] = NumOutput -> k.vbwait /\ k.numoutput > 0
                      [] OTHER -> TRUE
  BY DEF SleepersRemembered
<1>1. Remembered(k, pc[p], wchan[p], hold[p])
  BY DEF Inv, Placed
<1>2. NeedBuffer \notin Buf /\ NumOutput \notin Buf /\ NeedBuffer # NumOutput
  BY BufAssumption DEF NeedBuffer, NumOutput
<1>3. wchan[p] = NeedBuffer => k.needbuffer /\ k.age \o k.lru = <<>>
  BY <1>1, FirstFree, CacheType DEF Remembered, Inv, CacheOK
<1>4. CASE wchan[p] \in Buf /\ pc[p] \in {"getblk", "vinval"}
  BY <1>1, <1>2, <1>4 DEF Remembered
<1>5. CASE wchan[p] \in Buf /\ pc[p] \notin {"getblk", "vinval"}
  BY <1>1, <1>2, <1>5 DEF Remembered
<1>6. CASE wchan[p] = NeedBuffer
  BY <1>2, <1>3, <1>6
<1>7. CASE wchan[p] = NumOutput
  BY <1>1, <1>2, <1>7 DEF Remembered
<1>8. CASE wchan[p] \notin Buf /\ wchan[p] # NeedBuffer /\ wchan[p] # NumOutput
  BY <1>8
<1> QED
  BY <1>4, <1>5, <1>6, <1>7, <1>8

(* And of the contents.                                                     *)
LEMMA InvCoherent == Inv => Coherent
<1> SUFFICES ASSUME Inv, NEW blk \in Block
             PROVE  LET copies == {b \in Named(k, blk) :
                                     /\ ~Is(k, b, "ERROR")
                                     /\ Valid(k, b) \/ (b \in k.io /\ ~Is(k, b, "READ"))}
                    IN  IF copies = {} THEN blk \notin behind ELSE \A b \in copies : k.buf[b].cur
  BY DEF Coherent
<1> DEFINE copies == {b \in Named(k, blk) :
                        /\ ~Is(k, b, "ERROR")
                        /\ Valid(k, b) \/ (b \in k.io /\ ~Is(k, b, "READ"))}
<1>1. CopiesOK(k, behind) /\ blk # NoBlock
  BY BufAssumption DEF Inv
<1>2. \A b : b \in copies <=> b \in Buf /\ k.buf[b].blk = blk /\ Copy(k, b)
  BY DEF Named, Copy
<1> HIDE DEF copies
<1>3. \A b \in copies : k.buf[b].cur
  BY <1>1, <1>2 DEF CopiesOK
<1>4. ASSUME blk \in behind PROVE copies # {}
  <2>1. PICK b \in Buf : k.buf[b].blk = blk /\ Unsaved(k, b)
    BY <1>1, <1>4 DEF CopiesOK
  <2>2. Copy(k, b)
    BY <2>1 DEF Unsaved, Copy, Valid
  <2> QED
    BY <1>2, <2>1, <2>2
<1>5. IF copies = {} THEN blk \notin behind ELSE \A b \in copies : k.buf[b].cur
  BY <1>3, <1>4
<1> QED
  BY <1>5 DEF copies

(* As long as VOP_STRATEGY() does not block, the invariant holds.           *)
LEMMA InvHolds == ~StrategySleeps /\ Spec => []Inv
<1>1. ~StrategySleeps /\ Inv /\ [Next]_vars => Inv'
  BY NextInv
<1>2. CASE ~StrategySleeps
  <2>1. Inv /\ [Next]_vars => Inv'
    BY <1>1, <1>2
  <2> QED
    BY <2>1, InitInv, PTL DEF Spec
<1> QED
  BY <1>2

(* getblk(), brelse(), getnewbuf(), vflushbuf(), vinvalbuf() and biodone()  *)
(* keep one buffer for each block and one place for each buffer, with       *)
(* v_numoutput exact, as long as VOP_STRATEGY() does not block.             *)
THEOREM BuffersHold == ~StrategySleeps /\ Spec => []BuffersExact
BY InvHolds, InvExact, PTL

(* Whoever sleeps in the buffer cache is remembered by what will wake it.   *)
THEOREM SleepersHold == ~StrategySleeps /\ Spec => []SleepersRemembered
BY InvHolds, InvRemembered, PTL

(* The cache neither hides nor loses a write.                               *)
THEOREM CoherentHolds == ~StrategySleeps /\ Spec => []Coherent
BY InvHolds, InvCoherent, PTL

(* The other processes stay where they are.                                 *)
Stay(q) == \A p \in Proc : p # q => pc'[p] = pc[p]

(* A stretch of q moves q alone.                                            *)
LEMMA DoMoves ==
  ASSUME NEW q, NEW c, NEW at, NEW ch, NEW cl, NEW b, DOMAIN pc = Proc, Do(c, q, at, ch, cl, b)
  PROVE  Stay(q)
BY DEF Do, Stay

(* So does every call of q.                                                 *)
LEMMA GotMoves ==
  ASSUME NEW q, NEW r, NEW cl, DOMAIN pc = Proc,
         Got(r, q, cl) \/ \E b : GotAhead(r, q, cl, b)
  PROVE  Stay(q)
<1>1. ASSUME NEW s, NEW b, SleepFor(s, q, cl, b) PROVE Stay(q)
  BY <1>1, DoMoves DEF SleepFor
<1>2. ASSUME NEW c, NEW b, biowait(c, q, b) PROVE Stay(q)
  BY <1>2, DoMoves DEF biowait
<1>3. ASSUME NEW s, NEW b, GotAhead(s, q, cl, b) PROVE Stay(q)
  BY <1>1, <1>2, <1>3 DEF GotAhead
<1>4. ASSUME NEW c, NEW b, Ahead(c, q, cl, b) PROVE Stay(q)
  BY <1>2, <1>3, <1>4 DEF Ahead
<1>5. CASE Got(r, q, cl)
  BY <1>1, <1>4, <1>5, DoMoves DEF Got
<1> QED
  BY <1>3, <1>5

(* Only vflushbuf() itself ends the wait of p for the output.               *)
LEMMA FlushEnds ==
  ASSUME Inv, Next, NEW p \in Proc, pc[p] = "vflush", pc'[p] # pc[p]
  PROVE  ResumeFlush(p)
<1>0. DOMAIN pc = Proc
  BY DEF Inv
<1>1. \A q \in Proc : Stay(q) => q = p
  BY DEF Stay
<1>2. ASSUME NEW q \in Proc, NEW blk, NEW read, NEW ahead, Getblk(q, blk, read, ahead) PROVE FALSE
  BY <1>0, <1>1, <1>2, GotMoves DEF Getblk
<1>3. ASSUME NEW q \in Proc, ResumeGetblk(q) PROVE FALSE
  BY <1>0, <1>1, <1>3, GotMoves DEF ResumeGetblk
<1>4. ASSUME NEW q \in Proc, Interrupt(q) PROVE FALSE
  BY <1>0, <1>1, <1>4, DoMoves DEF Interrupt
<1>5. ASSUME NEW q \in Proc, ResumeBiowait(q) PROVE FALSE
  BY <1>0, <1>1, <1>5, DoMoves DEF ResumeBiowait, biowait
<1>6. ASSUME NEW q \in Proc, Brelse(q) PROVE FALSE
  BY <1>0, <1>1, <1>6, DoMoves DEF Brelse
<1>7. ASSUME NEW q \in Proc, Discard(q) PROVE FALSE
  BY <1>0, <1>1, <1>7, DoMoves DEF Discard
<1>8. ASSUME NEW q \in Proc, Bdwrite(q) PROVE FALSE
  BY <1>0, <1>1, <1>8, DoMoves DEF Bdwrite, Writes
<1>9. ASSUME NEW q \in Proc, Bawrite(q) PROVE FALSE
  BY <1>0, <1>1, <1>9, DoMoves DEF Bawrite, Writes
<1>10. ASSUME NEW q \in Proc, Bwrite(q) PROVE FALSE
  BY <1>0, <1>1, <1>10, DoMoves DEF Bwrite, Writes
<1>11. ASSUME NEW q \in Proc, ResumeBwrite(q) PROVE FALSE
  BY <1>0, <1>1, <1>11, DoMoves DEF ResumeBwrite
<1>12. ASSUME NEW q \in Proc, NEW sync, FlushLoop(q, sync) PROVE q = p
  BY <1>0, <1>1, <1>12, DoMoves DEF FlushLoop
<1>13. ASSUME NEW q \in Proc, NEW sync, Vflushbuf(q, sync) PROVE FALSE
  BY <1>12, <1>13 DEF Vflushbuf
<1>14. ASSUME NEW q \in Proc, ResumeFlush(q) PROVE q = p
  BY <1>0, <1>1, <1>12, <1>14, DoMoves DEF ResumeFlush
<1>15. ASSUME NEW q \in Proc, InvalLoop(q) PROVE q = p
  BY <1>0, <1>1, <1>15, DoMoves DEF InvalLoop
<1>16. ASSUME NEW q \in Proc, Vinvalbuf(q) \/ ResumeInval(q) PROVE FALSE
  BY <1>15, <1>16 DEF Vinvalbuf, ResumeInval
<1>17. ASSUME NEW b, NEW ok, Transfer(b, ok) PROVE FALSE
  BY <1>17 DEF Transfer
<1> QED
  BY <1>2, <1>3, <1>4, <1>5, <1>6, <1>7, <1>8, <1>9, <1>10, <1>11, <1>13, <1>14, <1>16, <1>17
     DEF Next

(* When vflushbuf() has waited and returns, everything is on the disk.      *)
THEOREM FlushHolds == ~StrategySleeps /\ Spec => FlushDurable
<1> DEFINE A == \A p \in Proc : pc[p] = "vflush" /\ pc'[p] = "idle" /\ ~hung' => behind' = {}
<1>1. Inv /\ [Next]_vars => [A]_vars
  <2> SUFFICES ASSUME Inv, Next, NEW p \in Proc, pc[p] = "vflush", pc'[p] = "idle", ~hung'
               PROVE  behind' = {}
    OBVIOUS
  <2>1. ResumeFlush(p)
    BY FlushEnds
  <2> QED
    BY <2>1, ResumeFlushStep
<1> HIDE DEF A
<1>2. FlushDurable <=> [][A]_vars
  BY DEF FlushDurable, A
<1> QED
  BY <1>1, <1>2, InvHolds, PTL DEF Spec
=============================================================================
