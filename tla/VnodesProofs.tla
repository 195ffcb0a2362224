---------------------------- MODULE VnodesProofs ----------------------------
(***************************************************************************)
(* Proofs about vnodes, inodes and the name cache, for any number of       *)
(* processes, directories, names, inodes and vnodes, and any errors.       *)
(***************************************************************************)
EXTENDS Vnodes, FiniteSetTheorems, FunctionTheorems, TLAPS

(* A list has b; it has nothing twice.                                      *)
In(s, b) == \E i \in 1 .. Len(s) : s[i] = b
Once(s)  == \A i, j \in 1 .. Len(s) : s[i] = s[j] => i = j

VnodeRec == [use : Nat, ino : Ino \cup {NoIno}, live : BOOLEAN, bad : BOOLEAN,
             vx : BOOLEAN, vxwant : BOOLEAN, deadb : BOOLEAN, id : 0 .. IdMod - 1,
             locked : Proc \cup {NoProc}, wanted : BOOLEAN, mode : BOOLEAN, nlink : {0, 1}]

Entry == [name : Name, dvpid : {0, DirId}, vp : Vnode \cup {NoVnode}, vpid : 0 .. IdMod - 1,
          again : BOOLEAN]

Chan == {Ip(v) : v \in Vnode} \cup {Vp(v) : v \in Vnode}

World == [vn : [Vnode -> VnodeRec], free : Seq(Vnode), nc : Seq(Entry), nextid : 1 .. IdMod - 1,
          dir : [Name -> Ino \cup {NoIno}], dirlock : [Dir -> Proc \cup {NoProc}],
          hashlock : Proc \cup {NoProc}, alloc : SUBSET Ino, panicked : BOOLEAN, wake : SUBSET Chan]

(* The places of a process that has a reference to a vnode; that uses the   *)
(* vnode, having waited for its lock; that ends the vnode's use; that may   *)
(* have it locked.  In the middle of a step a process is "taking" the       *)
(* vnode of a file; "found", with it locked; "putting", about to unlock and *)
(* release a vnode; "closing", about to release it; and "leaving", about to *)
(* go where its ret says.                                                   *)
Using     == {"reading", "got", "open", "remove", "makeinode", "found", "putting", "closing"}
Referring == Using \cup {"vgetlock", "taking"}
Ending    == {"inactive", "update", "vinval"}
Locking   == {"reading", "got", "remove", "makeinode", "found", "putting"} \cup Ending
Placed    == Referring \cup Ending \cup {"vclean", "vgonewait"}
Leaving   == Ending \cup {"putting", "closing", "leaving"}
Transit   == {"taking", "found", "putting", "closing", "leaving"}
Places    == Placed \cup {"idle", "vgetfail", "relock", "ffs_vget", "hashwait", "leaving"}

ProcRec == [pc : Places, op : {"none", "open", "create", "unlink", "handle"}, name : Name \cup {NoName},
            ino : Ino \cup {NoIno}, vp : Vnode \cup {NoVnode}, vpid : 0 .. IdMod - 1,
            ret : {"idle", "relock", "done", "fail", "getnewvnode"}, fresh : BOOLEAN]

Linked(c, i) == \E n \in Name : c.dir[n] = i

(* The process is at a vnode that it took from the free list; it looks for  *)
(* the vnode of an inode; it has an inode to give to a new file.            *)
Hand(r)      == r.pc \in {"vclean", "vgonewait"} \/ (r.pc = "vinval" /\ r.ret = "getnewvnode")
Searching(r) == r.pc \in {"ffs_vget", "hashwait", "reading", "taking", "found"} \/ Hand(r)
Fresh(r)     == r.fresh /\ \/ Searching(r) \/ r.pc = "makeinode"
                           \/ r.pc \in {"vinval", "putting", "closing", "leaving"} /\ r.ret = "fail"

HasDir(c, p, r) == r.name \in Name /\ c.dirlock[DirOf[r.name]] = p

(* What a process at its place knows of the vnode x that it is at.          *)
AtVnode(x, p, r, w, K) ==
  /\ r.pc \in {"reading", "found", "remove", "makeinode", "inactive", "update"} => x.live /\ x.locked = p
  /\ r.pc \in {"got", "putting", "vinval"} /\ x.live => x.locked = p
  /\ r.pc = "vinval" => x.vx /\ (~x.live => r.ret = "getnewvnode")
  /\ r.pc \in {"reading", "taking", "found", "remove", "makeinode"} => x.ino = r.ino
  /\ r.pc \in {"reading", "makeinode", "update"} => ~x.mode
  /\ r.pc \in {"putting", "closing"} /\ r.ret = "fail" => ~x.mode
  /\ r.pc = "inactive" => x.mode
  /\ Hand(r) => x.use = 0 /\ x.deadb
  /\ r.pc = "vgonewait" => ~x.live \/ (x.vx /\ w = Vp(r.vp) /\ w \notin K)

(* What it knows of the rest.                                               *)
AtPlace(c, p, r) ==
  /\ r.pc \in Placed => r.vp \in Vnode
  /\ r.pc \in Leaving => r.ret # "getnewvnode" \/ r.pc = "vinval"
  /\ r.pc \in {"inactive", "update"} => r.ret # "fail"
  /\ Hand(r) => /\ r.ret = "getnewvnode" /\ c.hashlock = p
                /\ \A v \in Vnode : c.vn[v].ino # r.ino
  /\ Searching(r) \/ r.pc \in {"remove", "makeinode"} => r.ino \in Ino
  /\ Searching(r) => IF r.op = "handle" THEN ~r.fresh
                     ELSE /\ HasDir(c, p, r)
                          /\ IF r.fresh THEN r.op = "create" /\ c.dir[r.name] = NoIno
                             ELSE c.dir[r.name] = r.ino
  /\ r.pc = "remove" => c.dir[r.name] = r.ino
  /\ r.pc = "makeinode" => r.fresh /\ c.dir[r.name] = NoIno
  /\ \/ r.pc \in {"remove", "makeinode", "vgetlock", "vgetfail"}
     \/ r.pc \in Leaving /\ r.ret \in {"done", "fail"}
     => HasDir(c, p, r)
  /\ r.pc \in {"relock", "vgetlock", "vgetfail"} \/ (r.pc \in Leaving /\ r.ret = "relock")
     => r.name \in Name /\ r.op # "handle"
  /\ Fresh(r) => /\ r.ino \in c.alloc /\ ~Linked(c, r.ino)
                 /\ \A v \in Vnode : c.vn[v].ino = r.ino => ~c.vn[v].mode

(* Of two processes, the one that ends the use of a vnode is alone with it, *)
(* and two new files have two inodes.                                       *)
Apart(a, b) ==
  /\ a.pc \in Ending /\ b.pc \in Ending \cup Using => a.vp # b.vp
  /\ Fresh(a) /\ Fresh(b) => a.ino # b.ino

Refs(P, v) == {p \in Proc : P[p].vp = v /\ P[p].pc \in Referring}

(* One vnode by itself.                                                     *)
VnodeOK(x) ==
  /\ x.live => x.ino \in Ino /\ ~x.bad /\ x.id # 0
  /\ ~x.live => x.ino = NoIno /\ x.locked = NoProc /\ ~x.mode
  /\ x.id = 0 => x.use = 0 /\ ~x.deadb /\ ~x.vx
  /\ x.vx \/ x.deadb => x.use = 0
  /\ ~x.mode => x.nlink = 0

(* A vnode and the processes.                                               *)
Owned(c, P, v) ==
  /\ c.vn[v].use = Cardinality(Refs(P, v))
  /\ In(c.free, v) <=> c.vn[v].id # 0 /\ c.vn[v].use = 0 /\ ~c.vn[v].deadb
  /\ c.vn[v].locked # NoProc => P[c.vn[v].locked].vp = v /\ P[c.vn[v].locked].pc \in Locking
  /\ c.vn[v].vx => \E q \in Proc : P[q].vp = v /\ P[q].pc = "vinval"
  /\ c.vn[v].mode /\ c.vn[v].nlink = 0 =>
       \E q \in Proc : P[q].vp = v /\ P[q].pc \in Referring \cup {"inactive"}

(* A vnode and the directory.                                               *)
Filed(c, v) ==
  c.vn[v].mode => c.vn[v].ino \in c.alloc /\ (c.vn[v].nlink = 1 <=> Linked(c, c.vn[v].ino))

Named(c) ==
  /\ \A n \in Name : c.dir[n] # NoIno => c.dir[n] \in c.alloc
  /\ \A n, m \in Name : c.dir[n] = c.dir[m] /\ c.dir[n] # NoIno => n = m

Single(c) == \A v, u \in Vnode : c.vn[v].ino = c.vn[u].ino /\ c.vn[v].ino # NoIno => v = u

Entries(s) == \A i \in 1 .. Len(s) : s[i].vp # NoVnode /\ s[i].dvpid = DirId => s[i].vpid # 0

(* A process that sleeps on the inode of v is remembered there, or about to *)
(* be woken.                                                                *)
Asleep(c, v, w) == w = Ip(v) /\ w \notin c.wake => c.vn[v].wanted /\ c.vn[v].locked # NoProc

Types(c, P, W) ==
  /\ c \in World /\ P \in [Proc -> ProcRec] /\ W \in [Proc -> Chan \cup {NoChan}]
  /\ Once(c.free) /\ Entries(c.nc) /\ Len(c.nc) <= NameCacheSize /\ ~c.panicked

(* The state, also in the middle of a step.                                 *)
State(c, P, W) ==
  /\ Types(c, P, W)
  /\ \A v \in Vnode : VnodeOK(c.vn[v]) /\ Owned(c, P, v) /\ Filed(c, v)
  /\ \A v \in Vnode, q \in Proc : Asleep(c, v, W[q])
  /\ Single(c) /\ Named(c)
  /\ \A q \in Proc : AtPlace(c, q, P[q])
  /\ \A q \in Proc : P[q].pc \in Placed => AtVnode(c.vn[P[q].vp], q, P[q], W[q], c.wake)
  /\ \A q, s \in Proc : q # s => Apart(P[q], P[s])

Inv == State(k, pr, wchan) /\ k.wake = {} /\ \A p \in Proc : pr[p].pc \notin Transit
-----------------------------------------------------------------------------
(* Steps that concern one process and one vnode.                            *)

(* p changes, with the vnode v and what belongs to it.                      *)
Around(c, d, P, Q, W, V, p, v) ==
  /\ State(c, P, W) /\ Types(d, Q, V)
  /\ \A q \in Proc : q # p => Q[q] = P[q] /\ V[q] = W[q]
  /\ \A u \in Vnode : u # v => d.vn[u] = c.vn[u] /\ (In(d.free, u) <=> In(c.free, u))
  /\ c.wake \subseteq d.wake /\ d.wake \subseteq c.wake \cup {Ip(v), Vp(v)}
  /\ P[p].pc \in Placed => P[p].vp = v
  /\ Q[p].pc \in Placed => Q[p].vp = v
  /\ V[p] \in {NoChan, Ip(v), Vp(v)}
  /\ \A q \in Proc : q # p => /\ \A D \in Dir : c.dirlock[D] = q => d.dirlock[D] = q
                              /\ c.hashlock = q => d.hashlock = q
  /\ \/ d.vn[v].ino \in {c.vn[v].ino, NoIno}
     \/ c.hashlock = p /\ \A u \in Vnode : c.vn[u].ino # d.vn[v].ino

(* Names and inodes change, if at all, where the inode j is concerned, which *)
(* is a matter of p and v alone.                                            *)
Files(c, d, P, p, v, j) ==
  /\ \A n \in Name : \/ d.dir[n] = c.dir[n]
                     \/ c.dirlock[DirOf[n]] = p /\ c.dir[n] \in {NoIno, j} /\ d.dir[n] \in {NoIno, j}
  /\ \A i \in Ino : i # j => (i \in d.alloc <=> i \in c.alloc)
  /\ \A u \in Vnode : u # v /\ c.vn[u].mode => c.vn[u].ino # j
  /\ \A q \in Proc : q # p /\ Fresh(P[q]) => P[q].ino # j
  /\ d.vn[v].mode => d.vn[v].ino = j \/ (c.vn[v].mode /\ d.vn[v].ino = c.vn[v].ino)
  /\ j \in Ino => /\ \A n \in Name : d.dir[n] = j => j \in d.alloc
                  /\ \A n, m \in Name : d.dir[n] = j /\ d.dir[m] = j => n = m

(* What p and v are like afterwards.                                        *)
Result(d, Q, V, p, v) ==
  /\ VnodeOK(d.vn[v]) /\ Owned(d, Q, v) /\ Filed(d, v)
  /\ \A q \in Proc : Asleep(d, v, V[q])
  /\ AtPlace(d, p, Q[p])
  /\ \A q \in Proc : Q[q].pc \in Placed /\ Q[q].vp = v => AtVnode(d.vn[v], q, Q[q], V[q], d.wake)
  /\ \A q \in Proc : q # p => Apart(Q[p], Q[q]) /\ Apart(Q[q], Q[p])

(* Two channels are one only for the same vnode.                            *)
LEMMA Channels ==
  ASSUME NEW v, NEW u
  PROVE  /\ Ip(v) # Vp(u) /\ Ip(v) # NoChan /\ Vp(v) # NoChan
         /\ (Ip(v) = Ip(u) => v = u) /\ (Vp(v) = Vp(u) => v = u)
BY DEF Ip, Vp, NoChan

(* The types of the parts of the state.                                     *)
LEMMA WorldType ==
  ASSUME NEW c \in World
  PROVE  /\ c.vn \in [Vnode -> VnodeRec] /\ c.free \in Seq(Vnode) /\ c.nc \in Seq(Entry)
         /\ c.nextid \in 1 .. IdMod - 1 /\ c.dir \in [Name -> Ino \cup {NoIno}]
         /\ c.dirlock \in [Dir -> Proc \cup {NoProc}] /\ c.hashlock \in Proc \cup {NoProc}
         /\ c.alloc \in SUBSET Ino /\ c.panicked \in BOOLEAN /\ c.wake \in SUBSET Chan
         /\ \A v \in Vnode : c.vn[v] \in VnodeRec
         /\ \A n \in Name : c.dir[n] \in Ino \cup {NoIno}
BY DEF World

LEMMA VnodeType ==
  ASSUME NEW x \in VnodeRec
  PROVE  /\ x.use \in Nat /\ x.ino \in Ino \cup {NoIno} /\ x.live \in BOOLEAN /\ x.bad \in BOOLEAN
         /\ x.vx \in BOOLEAN /\ x.vxwant \in BOOLEAN /\ x.deadb \in BOOLEAN /\ x.id \in 0 .. IdMod - 1
         /\ x.locked \in Proc \cup {NoProc} /\ x.wanted \in BOOLEAN /\ x.mode \in BOOLEAN
         /\ x.nlink \in {0, 1}
BY DEF VnodeRec

LEMMA ProcType ==
  ASSUME NEW r \in ProcRec
  PROVE  /\ r.pc \in Places /\ r.op \in {"none", "open", "create", "unlink", "handle"}
         /\ r.name \in Name \cup {NoName} /\ r.ino \in Ino \cup {NoIno} /\ r.vp \in Vnode \cup {NoVnode}
         /\ r.vpid \in 0 .. IdMod - 1 /\ r.ret \in {"idle", "relock", "done", "fail", "getnewvnode"}
         /\ r.fresh \in BOOLEAN
BY DEF ProcRec

(* The vnodes besides v keep their users and their owners.                  *)
LEMMA OtherVnodes ==
  ASSUME NEW c, NEW d, NEW P, NEW Q, NEW W, NEW V, NEW p \in Proc, NEW v \in Vnode, NEW j,
         Around(c, d, P, Q, W, V, p, v), Files(c, d, P, p, v, j),
         NEW u \in Vnode, u # v
  PROVE  VnodeOK(d.vn[u]) /\ Owned(d, Q, u) /\ Filed(d, u)
<1>1. /\ VnodeOK(c.vn[u]) /\ Owned(c, P, u) /\ Filed(c, u)
      /\ d.vn[u] = c.vn[u] /\ (In(d.free, u) <=> In(c.free, u))
      /\ \A q \in Proc : q # p => Q[q] = P[q]
      /\ P[p].pc \in Placed => P[p].vp = v
      /\ Q[p].pc \in Placed => Q[p].vp = v
      /\ c \in World /\ d \in World
  BY DEF Around, State, Types
<1>2. Refs(Q, u) = Refs(P, u)
  BY <1>1 DEF Refs, Placed
<1>3. c.vn[u].locked # NoProc => c.vn[u].locked \in Proc /\ c.vn[u].locked # p
  BY <1>1, WorldType, VnodeType DEF Owned, Locking, Placed, Referring, Using
<1>4. c.vn[u].vx => \E q \in Proc : Q[q].vp = u /\ Q[q].pc = "vinval"
  BY <1>1 DEF Owned, Placed, Ending
<1>5. c.vn[u].mode /\ c.vn[u].nlink = 0 => \E q \in Proc : Q[q].vp = u /\ Q[q].pc \in Referring \cup {"inactive"}
  BY <1>1 DEF Owned, Placed, Ending
<1>6. Owned(d, Q, u)
  BY <1>1, <1>2, <1>3, <1>4, <1>5 DEF Owned
<1>7. Filed(d, u)
  <2> SUFFICES ASSUME c.vn[u].mode
               PROVE  c.vn[u].ino \in d.alloc /\ (c.vn[u].nlink = 1 <=> Linked(d, c.vn[u].ino))
    BY <1>1 DEF Filed
  <2>1. c.vn[u].ino \in c.alloc /\ c.vn[u].ino \in Ino /\ c.vn[u].ino # j /\ c.vn[u].ino # NoIno
    BY <1>1, WorldType, VnodesAssumption DEF Filed, Files
  <2>2. Linked(d, c.vn[u].ino) <=> Linked(c, c.vn[u].ino)
    BY <2>1 DEF Linked, Files
  <2> QED
    BY <1>1, <2>1, <2>2 DEF Files, Filed
<1> QED
  BY <1>1, <1>6, <1>7

(* So do the inodes besides j.                                              *)
LEMMA OtherInodes ==
  ASSUME NEW c, NEW d, NEW P, NEW Q, NEW W, NEW V, NEW p \in Proc, NEW v \in Vnode, NEW j,
         Around(c, d, P, Q, W, V, p, v), Files(c, d, P, p, v, j)
  PROVE  Named(d) /\ Single(d)
<1>1. /\ c \in World /\ d \in World /\ Named(c) /\ Single(c)
      /\ \A u \in Vnode : u # v => d.vn[u] = c.vn[u]
      /\ \A q \in Proc : q # p => Q[q] = P[q]
  BY DEF Around, State, Types
<1>2. Single(d)
  BY <1>1 DEF Around, Single
<1>4. \A n \in Name : d.dir[n] # NoIno => d.dir[n] \in d.alloc
  <2> SUFFICES ASSUME NEW n \in Name, d.dir[n] # NoIno PROVE d.dir[n] \in d.alloc
    OBVIOUS
  <2>1. d.dir[n] \in Ino
    BY <1>1, WorldType
  <2>2. CASE d.dir[n] = j
    BY <2>1, <2>2 DEF Files
  <2>3. CASE d.dir[n] # j
    BY <1>1, <2>1, <2>3 DEF Files, Named
  <2> QED
    BY <2>2, <2>3
<1>5. \A n, m \in Name : d.dir[n] = d.dir[m] /\ d.dir[n] # NoIno => n = m
  <2> SUFFICES ASSUME NEW n \in Name, NEW m \in Name, d.dir[n] = d.dir[m], d.dir[n] # NoIno PROVE n = m
    OBVIOUS
  <2>1. d.dir[n] \in Ino
    BY <1>1, WorldType
  <2>2. CASE d.dir[n] = j
    BY <2>1, <2>2 DEF Files
  <2>3. CASE d.dir[n] # j
    BY <1>1, <2>1, <2>3 DEF Files, Named
  <2> QED
    BY <2>2, <2>3
<1> QED
  BY <1>2, <1>4, <1>5 DEF Named

(* And the other processes.                                                 *)
LEMMA OtherProcs ==
  ASSUME NEW c, NEW d, NEW P, NEW Q, NEW W, NEW V, NEW p \in Proc, NEW v \in Vnode, NEW j,
         Around(c, d, P, Q, W, V, p, v), Files(c, d, P, p, v, j),
         NEW q \in Proc, q # p
  PROVE  /\ AtPlace(d, q, Q[q])
         /\ Q[q].pc \in Placed /\ Q[q].vp # v => AtVnode(d.vn[Q[q].vp], q, Q[q], V[q], d.wake)
<1> DEFINE r == P[q]
<1>1. /\ c \in World /\ d \in World /\ AtPlace(c, q, r) /\ Q[q] = r /\ V[q] = W[q]
      /\ r \in ProcRec
      /\ r.pc \in Placed => AtVnode(c.vn[r.vp], q, r, W[q], c.wake)
      /\ \A u \in Vnode : u # v => d.vn[u] = c.vn[u]
      /\ \A D \in Dir : c.dirlock[D] = q => d.dirlock[D] = q
      /\ c.hashlock = q => d.hashlock = q
  BY DEF Around, State, Types
<1>2. ASSUME r.name \in Name, c.dirlock[DirOf[r.name]] = q
      PROVE  d.dirlock[DirOf[r.name]] = q /\ d.dir[r.name] = c.dir[r.name]
  BY <1>1, <1>2, VnodesAssumption DEF Files
<1>3. Hand(r) => r.ino \in Ino /\ \A u \in Vnode : d.vn[u].ino # r.ino
  <2> SUFFICES ASSUME Hand(r), NEW u \in Vnode, u = v PROVE r.ino \in Ino /\ d.vn[u].ino # r.ino
    BY <1>1 DEF AtPlace, Searching
  <2>1. r.ino \in Ino /\ r.ino # NoIno /\ c.hashlock = q /\ c.vn[v].ino # r.ino
    BY <1>1, VnodesAssumption DEF AtPlace, Searching
  <2> QED
    BY <2>1 DEF Around
<1>4. Fresh(r) => /\ r.ino \in d.alloc /\ ~Linked(d, r.ino)
                  /\ \A u \in Vnode : d.vn[u].ino = r.ino => ~d.vn[u].mode
  <2> SUFFICES ASSUME Fresh(r)
               PROVE  /\ r.ino \in d.alloc /\ ~Linked(d, r.ino)
                      /\ \A u \in Vnode : d.vn[u].ino = r.ino => ~d.vn[u].mode
    OBVIOUS
  <2>1. /\ r.ino \in c.alloc /\ ~Linked(c, r.ino)
        /\ \A u \in Vnode : c.vn[u].ino = r.ino => ~c.vn[u].mode
    BY <1>1 DEF AtPlace
  <2>2. r.ino \in Ino /\ r.ino # j /\ r.ino # NoIno
    BY <1>1, <2>1, WorldType, VnodesAssumption DEF Files
  <2>3. r.ino \in d.alloc
    BY <2>1, <2>2 DEF Files
  <2>4. ~Linked(d, r.ino)
    BY <2>1, <2>2 DEF Files, Linked
  <2>5. \A u \in Vnode : d.vn[u].ino = r.ino => ~d.vn[u].mode
    BY <1>1, <2>1, <2>2 DEF Files
  <2> QED
    BY <2>3, <2>4, <2>5
<1>5. AtPlace(d, q, r)
  <2>1. HasDir(c, q, r) => HasDir(d, q, r) /\ d.dir[r.name] = c.dir[r.name]
    BY <1>2 DEF HasDir
  <2>2. r.pc \in {"remove", "makeinode"} => HasDir(c, q, r)
    BY <1>1 DEF AtPlace
  <2> QED
    BY <1>1, <1>3, <1>4, <2>1, <2>2 DEF AtPlace
<1>6. ASSUME r.pc \in Placed, r.vp # v PROVE AtVnode(d.vn[r.vp], q, r, W[q], d.wake)
  <2>1. r.vp \in Vnode /\ d.vn[r.vp] = c.vn[r.vp]
    BY <1>1, <1>6 DEF AtPlace
  <2>2. Vp(r.vp) \notin c.wake => Vp(r.vp) \notin d.wake
    BY <1>6, Channels DEF Around
  <2> QED
    BY <1>1, <1>6, <2>1, <2>2 DEF AtVnode
<1> QED
  BY <1>1, <1>5, <1>6

(* Nobody else need be looked at.                                           *)
LEMMA Local ==
  ASSUME NEW c, NEW d, NEW P, NEW Q, NEW W, NEW V, NEW p \in Proc, NEW v \in Vnode, NEW j,
         Around(c, d, P, Q, W, V, p, v), Files(c, d, P, p, v, j),
         Result(d, Q, V, p, v)
  PROVE  State(d, Q, V)
<1>1. Types(d, Q, V) /\ Named(d) /\ Single(d)
  BY OtherInodes DEF Around
<1>2. \A u \in Vnode : VnodeOK(d.vn[u]) /\ Owned(d, Q, u) /\ Filed(d, u)
  BY OtherVnodes DEF Result
<1>3. ASSUME NEW u \in Vnode, NEW q \in Proc PROVE Asleep(d, u, V[q])
  <2>1. CASE u = v
    BY <2>1 DEF Result
  <2>2. CASE u # v /\ q = p
    BY <2>2, Channels DEF Around, Asleep
  <2>3. CASE u # v /\ q # p
    <3>1. Asleep(c, u, W[q]) /\ V[q] = W[q] /\ d.vn[u] = c.vn[u] /\ c.wake \subseteq d.wake
      BY <2>3 DEF Around, State
    <3> QED
      BY <3>1 DEF Asleep, BeingCleaned
  <2> QED
    BY <2>1, <2>2, <2>3
<1>4. \A q \in Proc : AtPlace(d, q, Q[q])
  BY OtherProcs DEF Result
<1>5. \A q \in Proc : Q[q].pc \in Placed => AtVnode(d.vn[Q[q].vp], q, Q[q], V[q], d.wake)
  <2> SUFFICES ASSUME NEW q \in Proc, Q[q].pc \in Placed
               PROVE  AtVnode(d.vn[Q[q].vp], q, Q[q], V[q], d.wake)
    OBVIOUS
  <2>1. CASE Q[q].vp = v
    BY <2>1 DEF Result
  <2>2. CASE Q[q].vp # v
    BY <2>2, OtherProcs DEF Around
  <2> QED
    BY <2>1, <2>2
<1>6. ASSUME NEW q \in Proc, NEW s \in Proc, q # s PROVE Apart(Q[q], Q[s])
  <2>1. CASE q = p \/ s = p
    BY <1>6, <2>1 DEF Result
  <2>2. CASE q # p /\ s # p
    BY <1>6, <2>2 DEF Around, State
  <2> QED
    BY <2>1, <2>2
<1> QED
  BY <1>1, <1>2, <1>3, <1>4, <1>5, <1>6 DEF State
-----------------------------------------------------------------------------
(* The free list.                                                           *)

(* TAILQ_REMOVE() takes the vnode off, and nothing else.                   *)
LEMMA RemovedList ==
  ASSUME NEW s \in Seq(Vnode), Once(s), NEW b
  PROVE  /\ Removed(s, b) \in Seq(Vnode) /\ Once(Removed(s, b))
         /\ \A x : In(Removed(s, b), x) <=> In(s, x) /\ x # b
         /\ Len(Removed(s, b)) = IF In(s, b) THEN Len(s) - 1 ELSE Len(s)
<1> DEFINE S == {i \in 1 .. Len(s) : s[i] = b}
<1>1. CASE S = {}
  <2>1. Removed(s, b) = s
    BY <1>1 DEF Removed
  <2>2. ~In(s, b)
    BY <1>1 DEF In
  <2> QED
    BY <2>1, <2>2
<1>2. CASE S # {}
  <2> DEFINE n == CHOOSE i \in S : TRUE
             a == SubSeq(s, 1, n - 1)
             z == SubSeq(s, n + 1, Len(s))
             r == a \o z
  <2>1. n \in S
    BY <1>2
  <2>2. n \in 1 .. Len(s) /\ s[n] = b /\ Len(s) \in Nat
    BY <2>1
  <2>3. Removed(s, b) = r
    BY <1>2 DEF Removed, RemoveAt
  <2> HIDE DEF n
  <2>4. a \in Seq(Vnode) /\ Len(a) = n - 1 /\ \A i \in 1 .. n - 1 : a[i] = s[i]
    BY <2>2
  <2>5. z \in Seq(Vnode) /\ Len(z) = Len(s) - n /\ \A i \in 1 .. Len(s) - n : z[i] = s[n + i]
    BY <2>2
  <2> HIDE DEF a, z
  <2>6. r \in Seq(Vnode) /\ Len(r) = Len(s) - 1
    <3>1. r \in Seq(Vnode) /\ Len(r) = Len(a) + Len(z)
      BY <2>4, <2>5, SMTT(60)
    <3> QED
      BY <2>2, <2>4, <2>5, <3>1
  <2>7. \A i \in 1 .. Len(s) - 1 : r[i] = IF i < n THEN s[i] ELSE s[i + 1]
    <3> TAKE i \in 1 .. Len(s) - 1
    <3>1. CASE i < n
      BY <2>2, <2>4, <2>5, <3>1
    <3>2. CASE ~(i < n)
      <4>1. i - (n - 1) \in 1 .. Len(s) - n /\ r[i] = z[i - (n - 1)]
        BY <2>2, <2>4, <2>5, <3>2
      <4>2. z[i - (n - 1)] = s[n + (i - (n - 1))]
        BY <2>5, <4>1
      <4> QED
        BY <2>2, <3>2, <4>1, <4>2
    <3> QED
      BY <3>1, <3>2
  <2> HIDE DEF r
  <2>8. Once(r)
    BY <2>2, <2>6, <2>7, Once(s) DEF Once
  <2>9. ASSUME NEW x PROVE In(r, x) <=> In(s, x) /\ x # b
    <3>1. ASSUME In(r, x) PROVE In(s, x) /\ x # b
      <4>1. PICK i \in 1 .. Len(s) - 1 : r[i] = x
        BY <2>6, <3>1 DEF In
      <4>2. PICK j \in 1 .. Len(s) : s[j] = x /\ j # n
        BY <2>2, <2>7, <4>1
      <4> QED
        BY <2>2, <4>2, Once(s) DEF In, Once
    <3>2. ASSUME In(s, x), x # b PROVE In(r, x)
      <4>1. PICK j \in 1 .. Len(s) : s[j] = x
        BY <3>2 DEF In
      <4>2. j # n
        BY <2>2, <3>2, <4>1
      <4>3. PICK i \in 1 .. Len(s) - 1 : j = IF i < n THEN i ELSE i + 1
        <5>1. CASE j < n
          <6>1. j \in 1 .. Len(s) - 1
            BY <2>2, <5>1
          <6> QED
            BY <5>1, <6>1
        <5>2. CASE j > n
          <6>1. j - 1 \in 1 .. Len(s) - 1 /\ ~(j - 1 < n) /\ j = (j - 1) + 1
            BY <2>2, <5>2
          <6> QED
            BY <6>1
        <5> QED
          BY <2>2, <4>2, <5>1, <5>2
      <4> QED
        BY <2>6, <2>7, <4>1, <4>3 DEF In
    <3> QED
      BY <3>1, <3>2
  <2>10. In(s, b)
    BY <2>2 DEF In
  <2> QED
    BY <2>3, <2>6, <2>8, <2>9, <2>10
<1> QED
  BY <1>1, <1>2

(* One more at the end of a list.                                           *)
LEMMA AppendList ==
  ASSUME NEW s \in Seq(Vnode), Once(s), NEW b \in Vnode, ~In(s, b)
  PROVE  /\ Append(s, b) \in Seq(Vnode) /\ Once(Append(s, b))
         /\ \A x : In(Append(s, b), x) <=> In(s, x) \/ x = b
<1> DEFINE r == Append(s, b)
<1>1. /\ r \in Seq(Vnode) /\ Len(r) = Len(s) + 1 /\ Len(s) \in Nat
      /\ r[Len(s) + 1] = b /\ \A i \in 1 .. Len(s) : r[i] = s[i]
  OBVIOUS
<1> HIDE DEF r
<1>2. Once(r)
  BY <1>1, Once(s), ~In(s, b) DEF Once, In
<1>3. \A x : In(r, x) <=> In(s, x) \/ x = b
  <2>1. \A i \in 1 .. Len(s) + 1 : i \in 1 .. Len(s) \/ i = Len(s) + 1
    BY <1>1
  <2>2. 1 .. Len(s) \subseteq 1 .. Len(s) + 1 /\ Len(s) + 1 \in 1 .. Len(s) + 1
    BY <1>1
  <2> QED
    BY <1>1, <2>1, <2>2 DEF In
<1> QED
  BY <1>1, <1>2, <1>3 DEF r

(* One more at the head.                                                    *)
LEMMA HeadList ==
  ASSUME NEW s \in Seq(Vnode), Once(s), NEW b \in Vnode, ~In(s, b)
  PROVE  /\ <<b>> \o s \in Seq(Vnode) /\ Once(<<b>> \o s)
         /\ \A x : In(<<b>> \o s, x) <=> In(s, x) \/ x = b
<1> DEFINE r == <<b>> \o s
<1>1. /\ r \in Seq(Vnode) /\ Len(r) = Len(s) + 1 /\ Len(s) \in Nat
      /\ r[1] = b /\ \A i \in 1 .. Len(s) : r[i + 1] = s[i]
  OBVIOUS
<1> HIDE DEF r
<1>2. \A i \in 1 .. Len(s) + 1 : i = 1 \/ (i - 1 \in 1 .. Len(s) /\ r[i] = s[i - 1])
  <2> TAKE i \in 1 .. Len(s) + 1
  <2>1. CASE i # 1
    <3>1. i - 1 \in 1 .. Len(s) /\ (i - 1) + 1 = i
      BY <1>1, <2>1
    <3> QED
      BY <1>1, <3>1
  <2> QED
    BY <2>1
<1>3. Once(r)
  <2> SUFFICES ASSUME NEW i \in 1 .. Len(s) + 1, NEW j \in 1 .. Len(s) + 1, r[i] = r[j]
               PROVE  i = j
    BY <1>1 DEF Once
  <2>1. CASE i = 1
    BY <1>1, <1>2, <2>1, ~In(s, b) DEF In
  <2>2. CASE j = 1
    BY <1>1, <1>2, <2>2, ~In(s, b) DEF In
  <2>3. CASE i # 1 /\ j # 1
    <3>1. i - 1 = j - 1
      BY <1>2, <2>3, Once(s) DEF Once
    <3> QED
      BY <1>1, <3>1
  <2> QED
    BY <2>1, <2>2, <2>3
<1>4. ASSUME NEW x PROVE In(r, x) <=> In(s, x) \/ x = b
  <2>1. ASSUME In(r, x) PROVE In(s, x) \/ x = b
    BY <1>1, <1>2, <2>1 DEF In
  <2>2. In(r, b)
    <3>1. 1 \in 1 .. Len(s) + 1
      BY <1>1
    <3> QED
      BY <1>1, <3>1 DEF In
  <2>3. ASSUME In(s, x) PROVE In(r, x)
    <3>1. PICK i \in 1 .. Len(s) : s[i] = x
      BY <2>3 DEF In
    <3>2. i + 1 \in 1 .. Len(s) + 1 /\ r[i + 1] = x
      BY <1>1, <3>1
    <3> QED
      BY <1>1, <3>2 DEF In
  <2> QED
    BY <2>1, <2>2, <2>3
<1> QED
  BY <1>1, <1>3, <1>4 DEF r

(* A step that leaves the directory and the bitmap alone.                   *)
LEMMA Quiet ==
  ASSUME NEW c, NEW d, NEW P, NEW Q, NEW W, NEW V, NEW p \in Proc, NEW v \in Vnode,
         Around(c, d, P, Q, W, V, p, v), Result(d, Q, V, p, v),
         d.dir = c.dir, d.alloc = c.alloc,
         d.vn[v].mode => c.vn[v].mode /\ d.vn[v].ino = c.vn[v].ino
  PROVE  State(d, Q, V)
<1>1. c \in World /\ \A u \in Vnode : c.vn[u].mode => c.vn[u].ino \in c.alloc
  BY DEF Around, State, Types, Filed
<1>2. \A q \in Proc : Fresh(P[q]) => P[q].ino \in c.alloc
  BY DEF Around, State, AtPlace
<1>3. \A i \in c.alloc : i # NoIno
  BY <1>1, WorldType, VnodesAssumption
<1>4. Files(c, d, P, p, v, NoIno)
  BY <1>1, <1>2, <1>3, VnodesAssumption DEF Files
<1> QED
  BY <1>4, Local

(* The fields of the world besides the vnodes are the same.                 *)
RestIs(c, d) ==
  /\ d.free = c.free /\ d.nc = c.nc /\ d.nextid = c.nextid /\ d.dir = c.dir /\ d.dirlock = c.dirlock
  /\ d.hashlock = c.hashlock /\ d.alloc = c.alloc /\ d.panicked = c.panicked

(* v is y now, the other vnodes are what they were.                         *)
Becomes(c, d, v, y) ==
  /\ d.vn[v] = y
  /\ \A u \in Vnode : u # v => d.vn[u] = c.vn[u]

(* One vnode is replaced.                                                   *)
LEMMA WithIs ==
  ASSUME NEW c \in World, NEW v \in Vnode, NEW y \in VnodeRec,
         NEW d, d = [c EXCEPT !.vn = [c.vn EXCEPT ![v] = y]]
  PROVE  d \in World /\ Becomes(c, d, v, y) /\ RestIs(c, d) /\ d.wake = c.wake
<1> DEFINE B == [c.vn EXCEPT ![v] = y]
<1>1. B \in [Vnode -> VnodeRec] /\ B[v] = y /\ \A u \in Vnode : u # v => B[u] = c.vn[u]
  BY WorldType
<1> HIDE DEF B
<1>2. d = [c EXCEPT !.vn = B]
  BY DEF B
<1>3. d \in World /\ d.vn = B
  BY <1>1, <1>2 DEF World
<1>4. RestIs(c, d) /\ d.wake = c.wake
  BY <1>2 DEF RestIs, World
<1> QED
  BY <1>1, <1>3, <1>4 DEF Becomes

(* y is x but for whether somebody waits.                                   *)
Alike(x, y) ==
  /\ y.use = x.use /\ y.ino = x.ino /\ y.live = x.live /\ y.bad = x.bad /\ y.vx = x.vx
  /\ y.deadb = x.deadb /\ y.id = x.id /\ y.locked = x.locked /\ y.mode = x.mode /\ y.nlink = x.nlink

(* A process goes to sleep on the inode or the vnode.                       *)
LEMMA SleepsIs ==
  ASSUME NEW c \in World, NEW v \in Vnode, NEW d,
         d = [c EXCEPT !.vn[v].wanted = TRUE] \/ d = [c EXCEPT !.vn[v].vxwant = TRUE]
  PROVE  /\ d \in World /\ RestIs(c, d) /\ d.wake = c.wake /\ Becomes(c, d, v, d.vn[v])
         /\ Alike(c.vn[v], d.vn[v])
         /\ d = [c EXCEPT !.vn[v].wanted = TRUE] => d.vn[v].wanted /\ d.vn[v].vxwant = c.vn[v].vxwant
         /\ d = [c EXCEPT !.vn[v].vxwant = TRUE] => d.vn[v].vxwant /\ d.vn[v].wanted = c.vn[v].wanted
<1> DEFINE x == c.vn[v]
           y1 == [x EXCEPT !.wanted = TRUE]
           y2 == [x EXCEPT !.vxwant = TRUE]
<1>1. x \in VnodeRec
  BY WorldType
<1>2. /\ y1 \in VnodeRec /\ Alike(x, y1) /\ y1.wanted /\ y1.vxwant = x.vxwant
      /\ y2 \in VnodeRec /\ Alike(x, y2) /\ y2.vxwant /\ y2.wanted = x.wanted
  BY <1>1 DEF VnodeRec, Alike
<1>3. [c EXCEPT !.vn[v].wanted = TRUE] = [c EXCEPT !.vn = [c.vn EXCEPT ![v] = y1]]
  BY Zenon
<1>4. [c EXCEPT !.vn[v].vxwant = TRUE] = [c EXCEPT !.vn = [c.vn EXCEPT ![v] = y2]]
  BY Zenon
<1> HIDE DEF y1, y2
<1>5. ASSUME d = [c EXCEPT !.vn[v].wanted = TRUE]
      PROVE  d \in World /\ RestIs(c, d) /\ d.wake = c.wake /\ Becomes(c, d, v, y1)
  BY <1>2, <1>3, <1>5, WithIs
<1>6. ASSUME d = [c EXCEPT !.vn[v].vxwant = TRUE]
      PROVE  d \in World /\ RestIs(c, d) /\ d.wake = c.wake /\ Becomes(c, d, v, y2)
  BY <1>2, <1>4, <1>6, WithIs
<1>7. \A y : Becomes(c, d, v, y) => d.vn[v] = y
  BY DEF Becomes
<1>8. CASE d = [c EXCEPT !.vn[v].wanted = TRUE] /\ d # [c EXCEPT !.vn[v].vxwant = TRUE]
  BY <1>2, <1>5, <1>7, <1>8
<1>9. CASE d = [c EXCEPT !.vn[v].vxwant = TRUE] /\ d # [c EXCEPT !.vn[v].wanted = TRUE]
  BY <1>2, <1>6, <1>7, <1>9
<1>10. CASE d = [c EXCEPT !.vn[v].vxwant = TRUE] /\ d = [c EXCEPT !.vn[v].wanted = TRUE]
  <2>1. d.vn[v] = y1 /\ d.vn[v] = y2
    BY <1>5, <1>6, <1>7, <1>10
  <2> QED
    BY <1>2, <1>5, <1>6, <1>10, <2>1
<1> QED
  BY <1>8, <1>9, <1>10

(* What a process knows of the rest does not depend on who waits for whom.  *)
LEMMA SamePlace ==
  ASSUME NEW c, NEW d, NEW p, NEW r,
         d.dir = c.dir, d.dirlock = c.dirlock, d.hashlock = c.hashlock, d.alloc = c.alloc,
         \A u \in Vnode : d.vn[u].ino = c.vn[u].ino /\ d.vn[u].mode = c.vn[u].mode,
         AtPlace(c, p, r)
  PROVE  AtPlace(d, p, r)
BY DEF AtPlace, HasDir, Linked

(* p goes to sleep on v, in a state that ends with a wakeup().              *)
LEMMA Waits ==
  ASSUME NEW c, NEW P, NEW W, State(c, P, W), NEW p \in Proc, NEW v \in Vnode,
         P[p].pc \in {"ffs_vget", "vgetfail", "vgetlock", "vclean"},
         P[p].pc \in Placed => P[p].vp = v,
         NEW d, NEW ch,
         \/ d = [c EXCEPT !.vn[v].wanted = TRUE] /\ ch = Ip(v) /\ c.vn[v].locked # NoProc
         \/ d = [c EXCEPT !.vn[v].vxwant = TRUE] /\ ch = Vp(v) /\ BeingCleaned(c, v)
  PROVE  State(d, P, [W EXCEPT ![p] = ch])
<1> DEFINE V == [W EXCEPT ![p] = ch]
           x == c.vn[v]
           y == d.vn[v]
<1>1. /\ c \in World /\ P \in [Proc -> ProcRec] /\ W \in [Proc -> Chan \cup {NoChan}]
      /\ Once(c.free) /\ Entries(c.nc) /\ Len(c.nc) <= NameCacheSize /\ ~c.panicked
  BY DEF State, Types
<1>2. /\ d \in World /\ RestIs(c, d) /\ d.wake = c.wake /\ Becomes(c, d, v, y) /\ Alike(x, y)
  BY <1>1, SleepsIs
<1>3. /\ V \in [Proc -> Chan \cup {NoChan}] /\ V[p] = ch /\ \A q \in Proc : q # p => V[q] = W[q]
  BY <1>1 DEF Chan
<1> HIDE DEF V
<1>4. Around(c, d, P, P, W, V, p, v)
  BY <1>1, <1>2, <1>3 DEF Around, Types, RestIs, Becomes, Alike
<1>5. VnodeOK(x) /\ Owned(c, P, v) /\ Filed(c, v)
  BY DEF State
<1>6. VnodeOK(y) /\ Owned(d, P, v) /\ Filed(d, v)
  <2>1. VnodeOK(y)
    BY <1>2, <1>5 DEF VnodeOK, Alike
  <2>2. Owned(d, P, v)
    BY <1>2, <1>5 DEF Owned, Alike, RestIs
  <2>3. Filed(d, v)
    BY <1>2, <1>5 DEF Filed, Alike, RestIs, Linked
  <2> QED
    BY <2>1, <2>2, <2>3
<1>7. ASSUME NEW q \in Proc PROVE Asleep(d, v, V[q])
  <2>1. Asleep(c, v, W[q])
    BY DEF State
  <2>2. x \in VnodeRec
    BY <1>1, WorldType
  <2>3. x.wanted => y.wanted
    <3>1. CASE d = [c EXCEPT !.vn[v].wanted = TRUE]
      BY <1>1, <2>2, <3>1, SleepsIs, VnodeType
    <3>2. CASE d = [c EXCEPT !.vn[v].vxwant = TRUE]
      BY <1>1, <2>2, <3>2, SleepsIs, VnodeType
    <3> QED
      BY <3>1, <3>2
  <2>4. CASE q # p
    BY <1>2, <1>3, <2>1, <2>3, <2>4 DEF Asleep, BeingCleaned, Alike
  <2>5. CASE q = p /\ ch = Ip(v) /\ d = [c EXCEPT !.vn[v].wanted = TRUE] /\ x.locked # NoProc
    <3>1. y.wanted /\ y.locked # NoProc
      BY <1>1, <1>2, <2>5, SleepsIs DEF Alike
    <3> QED
      BY <1>3, <2>5, <3>1, Channels DEF Asleep
  <2>6. CASE q = p /\ ch = Vp(v) /\ d = [c EXCEPT !.vn[v].vxwant = TRUE] /\ BeingCleaned(c, v)
    BY <1>3, <2>6, Channels DEF Asleep
  <2> QED
    BY <2>4, <2>5, <2>6
<1>8. AtPlace(d, p, P[p])
  <2>1. \A u \in Vnode : d.vn[u].ino = c.vn[u].ino /\ d.vn[u].mode = c.vn[u].mode
    BY <1>2 DEF Becomes, Alike
  <2>2. AtPlace(c, p, P[p])
    BY DEF State
  <2> QED
    BY <1>2, <2>1, <2>2, SamePlace DEF RestIs
<1>9. ASSUME NEW q \in Proc, P[q].pc \in Placed, P[q].vp = v PROVE AtVnode(y, q, P[q], V[q], d.wake)
  <2>1. AtVnode(x, q, P[q], W[q], c.wake)
    BY <1>9 DEF State
  <2>2. CASE q = p
    BY <1>2, <2>1, <2>2 DEF AtVnode, Alike, Hand
  <2>3. CASE q # p
    BY <1>2, <1>3, <2>1, <2>3 DEF AtVnode, Alike
  <2> QED
    BY <2>2, <2>3
<1>10. Result(d, P, V, p, v)
  BY <1>6, <1>7, <1>8, <1>9 DEF Result, State
<1> QED
  BY <1>2, <1>4, <1>10, Quiet DEF Alike, RestIs, V

(* The places a and b are of one kind as far as vnodes go.                  *)
SameKind(a, b) ==
  /\ a.pc \in Referring <=> b.pc \in Referring
  /\ a.pc \in Locking => b.pc \in Locking
  /\ b.pc \in Using => a.pc \in Using
  /\ a.pc \in Ending \/ b.pc \in Ending => a.pc = b.pc
  /\ a.pc \in Placed /\ b.pc \in Placed => a.vp = b.vp

(* d is c but for the name cache and for what p has locked of it.           *)
Beside(c, d, p) ==
  /\ d \in World /\ d.vn = c.vn /\ d.free = c.free /\ d.dir = c.dir /\ d.wake = c.wake
  /\ Entries(d.nc) /\ Len(d.nc) <= NameCacheSize /\ ~d.panicked
  /\ \A q \in Proc : q # p => /\ \A D \in Dir : c.dirlock[D] = q => d.dirlock[D] = q
                              /\ c.hashlock = q => d.hashlock = q

(* There is a vnode.                                                        *)
LEMMA SomeVnode == \E v : v \in Vnode
<1> SUFFICES ASSUME Vnode = {} PROVE FALSE
  OBVIOUS
<1>1. Cardinality(Vnode) = 0
  BY FS_EmptySet
<1> QED
  BY <1>1, VnodesAssumption

(* p moves to a place of the same kind.                                     *)
LEMMA Moves ==
  ASSUME NEW c, NEW P, NEW W, State(c, P, W), NEW p \in Proc, NEW r \in ProcRec, NEW d,
         Beside(c, d, p), d.alloc = c.alloc, SameKind(P[p], r),
         Fresh(P[p]) <=> Fresh(r), Fresh(r) => r.ino = P[p].ino,
         AtPlace(d, p, r),
         r.pc \in Placed => AtVnode(c.vn[r.vp], p, r, W[p], c.wake),
         r.pc \in Placed => W[p] \in {NoChan, Ip(r.vp), Vp(r.vp)},
         r.pc \notin Placed => W[p] = NoChan
  PROVE  State(d, [P EXCEPT ![p] = r], W)
<1> DEFINE Q == [P EXCEPT ![p] = r]
<1>1. /\ c \in World /\ P \in [Proc -> ProcRec] /\ W \in [Proc -> Chan \cup {NoChan}]
      /\ Once(c.free)
  BY DEF State, Types
<1>2. Q \in [Proc -> ProcRec] /\ Q[p] = r /\ \A q \in Proc : q # p => Q[q] = P[q]
  BY <1>1
<1> HIDE DEF Q
<1>3. PICK v \in Vnode : /\ P[p].pc \in Placed => P[p].vp = v
                         /\ r.pc \in Placed => r.vp = v
  <2>1. P[p].pc \in Placed => P[p].vp \in Vnode
    BY DEF State, AtPlace
  <2>2. r.pc \in Placed => r.vp \in Vnode
    BY DEF AtPlace
  <2> QED
    BY <2>1, <2>2, SomeVnode DEF SameKind
<1>4. Around(c, d, P, Q, W, W, p, v)
  BY <1>1, <1>2, <1>3 DEF Around, Types, Beside
<1>5. VnodeOK(c.vn[v]) /\ Owned(c, P, v) /\ Filed(c, v)
  BY DEF State
<1>6. Owned(d, Q, v)
  <2>1. Refs(Q, v) = Refs(P, v)
    BY <1>2, <1>3 DEF Refs, SameKind, Placed
  <2>2. c.vn[v].locked # NoProc => Q[c.vn[v].locked].vp = v /\ Q[c.vn[v].locked].pc \in Locking
    <3>1. c.vn[v].locked \in Proc \cup {NoProc}
      BY <1>1, WorldType, VnodeType
    <3>2. Locking \subseteq Placed
      BY DEF Locking, Placed, Referring, Using
    <3> QED
      BY <1>2, <1>3, <1>5, <3>1, <3>2 DEF Owned, SameKind
  <2>3. c.vn[v].vx => \E q \in Proc : Q[q].vp = v /\ Q[q].pc = "vinval"
    BY <1>2, <1>3, <1>5 DEF Owned, SameKind, Ending, Placed
  <2>4. c.vn[v].mode /\ c.vn[v].nlink = 0 =>
          \E q \in Proc : Q[q].vp = v /\ Q[q].pc \in Referring \cup {"inactive"}
    BY <1>2, <1>3, <1>5 DEF Owned, SameKind, Ending, Placed
  <2> QED
    BY <1>5, <2>1, <2>2, <2>3, <2>4 DEF Owned, Beside
<1>7. Filed(d, v)
  BY <1>5 DEF Filed, Beside, Linked
<1>8. \A q \in Proc : Asleep(d, v, W[q])
  BY DEF Asleep, BeingCleaned, Beside, State
<1>9. \A q \in Proc : Q[q].pc \in Placed /\ Q[q].vp = v => AtVnode(d.vn[v], q, Q[q], W[q], d.wake)
  BY <1>2, <1>3 DEF State, Beside
<1>10. ASSUME NEW q \in Proc, q # p PROVE Apart(r, Q[q]) /\ Apart(Q[q], r)
  <2>1. Apart(P[p], P[q]) /\ Apart(P[q], P[p]) /\ Q[q] = P[q]
    BY <1>2, <1>10 DEF State
  <2> QED
    BY <2>1 DEF Apart, SameKind, Placed, Referring
<1>11. Result(d, Q, W, p, v)
  BY <1>2, <1>5, <1>6, <1>7, <1>8, <1>9, <1>10 DEF Result, Beside
<1> QED
  BY <1>2, <1>4, <1>5, <1>11, Quiet DEF Beside, Filed, Q

(* The end of a step: the processes that sleep on a channel in c.wake run.  *)
LEMMA Ends ==
  ASSUME Inv, NEW p \in Proc, NEW c, NEW r, NEW chan, Do(c, p, r, chan),
         State(c, [pr EXCEPT ![p] = r], [wchan EXCEPT ![p] = chan]),
         chan # NoChan => c.wake = {}, r.pc \notin Transit
  PROVE  Inv'
<1> DEFINE P == [pr EXCEPT ![p] = r]
           W == [wchan EXCEPT ![p] = chan]
<1>1. /\ pr \in [Proc -> ProcRec] /\ wchan \in [Proc -> Chan \cup {NoChan}]
      /\ \A q \in Proc : pr[q].pc \notin Transit
  BY DEF Inv, State, Types
<1>2. /\ P[p] = r /\ W[p] = chan
      /\ \A q \in Proc : q # p => P[q] = pr[q] /\ W[q] = wchan[q]
  BY <1>1
<1>3. pr' = P /\ k' = [c EXCEPT !.wake = {}]
  BY DEF Do
<1>4. wchan' = [q \in Proc |-> IF q = p THEN chan ELSE IF wchan[q] \in c.wake THEN NoChan ELSE wchan[q]]
  BY DEF Do
<1> HIDE DEF P, W
<1>5. State(c, P, W)
  BY DEF P, W
<1>6. /\ c \in World /\ P \in [Proc -> ProcRec] /\ W \in [Proc -> Chan \cup {NoChan}]
      /\ Once(c.free) /\ Entries(c.nc) /\ Len(c.nc) <= NameCacheSize /\ ~c.panicked
  BY <1>5 DEF State, Types
<1>7. /\ k' \in World /\ k'.wake = {} /\ k'.vn = c.vn /\ k'.free = c.free /\ k'.nc = c.nc /\ k'.nextid = c.nextid
      /\ k'.dir = c.dir /\ k'.dirlock = c.dirlock /\ k'.hashlock = c.hashlock /\ k'.alloc = c.alloc
      /\ k'.panicked = c.panicked
  BY <1>3, <1>6 DEF World
<1>8. NoChan \notin c.wake
  <2>1. \A v : Ip(v) # NoChan /\ Vp(v) # NoChan
    BY Channels
  <2> QED
    BY <1>6, <2>1, WorldType DEF Chan
<1>9. \A q \in Proc : wchan'[q] = IF W[q] \in c.wake THEN NoChan ELSE W[q]
  BY <1>2, <1>4, <1>8
<1>10. wchan' \in [Proc -> Chan \cup {NoChan}]
  BY <1>2, <1>4, <1>6
<1>11. ASSUME NEW v \in Vnode PROVE VnodeOK(k'.vn[v]) /\ Owned(k', P, v) /\ Filed(k', v)
  <2>1. VnodeOK(c.vn[v]) /\ Owned(c, P, v) /\ Filed(c, v)
    BY <1>5 DEF State
  <2> QED
    BY <1>7, <2>1 DEF Owned, Filed, Linked
<1>12. ASSUME NEW v \in Vnode, NEW q \in Proc PROVE Asleep(k', v, wchan'[q])
  <2>1. Asleep(c, v, W[q])
    BY <1>5 DEF State
  <2> QED
    BY <1>7, <1>9, <2>1, Channels DEF Asleep, BeingCleaned
<1>13. Single(k') /\ Named(k')
  BY <1>5, <1>7 DEF State, Single, Named
<1>14. \A q \in Proc : AtPlace(k', q, P[q])
  BY <1>5, <1>7, SamePlace DEF State
<1>15. ASSUME NEW q \in Proc, P[q].pc \in Placed PROVE AtVnode(k'.vn[P[q].vp], q, P[q], wchan'[q], k'.wake)
  <2>1. AtVnode(c.vn[P[q].vp], q, P[q], W[q], c.wake)
    BY <1>5, <1>15 DEF State
  <2> QED
    BY <1>7, <1>9, <2>1 DEF AtVnode
<1>16. State(k', P, wchan')
  BY <1>5, <1>6, <1>7, <1>10, <1>11, <1>12, <1>13, <1>14, <1>15 DEF State, Types
<1>17. \A q \in Proc : P[q].pc \notin Transit
  BY <1>1, <1>2
<1> QED
  BY <1>3, <1>7, <1>16, <1>17 DEF Inv

(* TAILQ_REMOVE() of a vnode from the free list.                            *)
LEMMA UnfreeIs ==
  ASSUME NEW c \in World, Once(c.free), NEW v \in Vnode, NEW d, d = Unfree(c, v)
  PROVE  /\ d \in World /\ Once(d.free) /\ \A u : In(d.free, u) <=> In(c.free, u) /\ u # v
         /\ d.vn = c.vn /\ d.nc = c.nc /\ d.nextid = c.nextid /\ d.dir = c.dir /\ d.dirlock = c.dirlock
         /\ d.hashlock = c.hashlock /\ d.alloc = c.alloc /\ d.panicked = c.panicked /\ d.wake = c.wake
<1> DEFINE f == Removed(c.free, v)
<1>1. f \in Seq(Vnode) /\ Once(f) /\ \A u : In(f, u) <=> In(c.free, u) /\ u # v
  BY WorldType, RemovedList
<1>2. d = [c EXCEPT !.free = f]
  BY DEF Unfree
<1> HIDE DEF f
<1>3. d \in World /\ d.free = f
  BY <1>1, <1>2 DEF World
<1> QED
  BY <1>1, <1>2, <1>3 DEF World

(* The set of the users of v when p becomes or ceases to be one.            *)
LEMMA MoreRefs ==
  ASSUME NEW P, NEW Q, NEW p \in Proc, \A q \in Proc : q # p => Q[q] = P[q], NEW v,
         P[p].pc \notin Referring, Q[p].pc \in Referring, Q[p].vp = v
  PROVE  Cardinality(Refs(Q, v)) = Cardinality(Refs(P, v)) + 1
<1>1. Refs(Q, v) = Refs(P, v) \cup {p} /\ p \notin Refs(P, v)
  BY DEF Refs
<1>2. IsFiniteSet(Refs(P, v))
  BY FS_Subset, VnodesAssumption DEF Refs
<1> QED
  BY <1>1, <1>2, FS_AddElement

LEMMA LessRefs ==
  ASSUME NEW P, NEW Q, NEW p \in Proc, \A q \in Proc : q # p => Q[q] = P[q], NEW v,
         P[p].pc \in Referring, P[p].vp = v, Q[p].pc \notin Referring
  PROVE  Cardinality(Refs(P, v)) = Cardinality(Refs(Q, v)) + 1
<1>1. Refs(P, v) = Refs(Q, v) \cup {p} /\ p \notin Refs(Q, v)
  BY DEF Refs
<1>2. IsFiniteSet(Refs(Q, v))
  BY FS_Subset, VnodesAssumption DEF Refs
<1> QED
  BY <1>1, <1>2, FS_AddElement

(* A vnode has users exactly when its count is not zero.                    *)
LEMMA UsersCounted ==
  ASSUME NEW P, NEW v
  PROVE  /\ Cardinality(Refs(P, v)) \in Nat
         /\ Cardinality(Refs(P, v)) = 0 <=> \A q \in Proc : ~(P[q].vp = v /\ P[q].pc \in Referring)
<1>1. IsFiniteSet(Refs(P, v))
  BY FS_Subset, VnodesAssumption DEF Refs
<1>2. Cardinality(Refs(P, v)) \in Nat /\ (Cardinality(Refs(P, v)) = 0 <=> Refs(P, v) = {})
  BY <1>1, FS_CardinalityType, FS_EmptySet
<1> QED
  BY <1>2 DEF Refs
-----------------------------------------------------------------------------
(* The steps that leave the directory and the bitmap alone, in one form.    *)

(* Nothing changes but v, what p has locked, and the name cache.            *)
Beyond(c, d, p, v) ==
  /\ d \in World /\ d.dir = c.dir /\ d.alloc = c.alloc /\ ~d.panicked
  /\ Once(d.free) /\ Entries(d.nc) /\ Len(d.nc) <= NameCacheSize
  /\ \A u \in Vnode : u # v => d.vn[u] = c.vn[u] /\ (In(d.free, u) <=> In(c.free, u))
  /\ c.wake \subseteq d.wake /\ d.wake \subseteq c.wake \cup {Ip(v), Vp(v)}
  /\ \A q \in Proc : q # p => /\ \A D \in Dir : c.dirlock[D] = q => d.dirlock[D] = q
                              /\ c.hashlock = q => d.hashlock = q
  /\ \/ d.vn[v].ino \in {c.vn[v].ino, NoIno}
     \/ c.hashlock = p /\ \A u \in Vnode : c.vn[u].ino # d.vn[v].ino

(* The vnode x becomes y as p goes from the place a to the place b.         *)
Turn(x, y, p, a, b) ==
  /\ VnodeOK(y)
  /\ y.use = IF a.pc \in Referring /\ b.pc \notin Referring THEN x.use - 1
             ELSE IF a.pc \notin Referring /\ b.pc \in Referring THEN x.use + 1 ELSE x.use
  /\ \/ y.locked = NoProc
     \/ y.locked = p /\ b.pc \in Locking
     \/ y.locked = x.locked /\ x.locked # p
  /\ y.vx => b.pc = "vinval" \/ (x.vx /\ a.pc # "vinval")
  /\ y.mode => x.mode /\ y.ino = x.ino /\ y.nlink = x.nlink
  /\ y.mode /\ y.nlink = 0 /\ y.use = 0 =>
       b.pc \in Referring \cup {"inactive"} \/ a.pc \notin Referring \cup {"inactive"}
  /\ x.mode => y.mode \/ x.nlink = 1

(* The others at v stay where they are, and p does not disturb them.        *)
Others(d, P, W, p, v, a, b) ==
  /\ \A q \in Proc : q # p => Asleep(d, v, W[q])
  /\ \A q \in Proc : q # p /\ P[q].pc \in Placed /\ P[q].vp = v => AtVnode(d.vn[v], q, P[q], W[q], d.wake)
  /\ b.pc \in Ending /\ a.pc \notin Ending =>
       \A q \in Proc : q # p /\ P[q].vp = v => P[q].pc \notin Ending \cup Using
  /\ b.pc \in Using /\ a.pc \notin Using \cup Ending =>
       \A q \in Proc : q # p /\ P[q].vp = v => P[q].pc \notin Ending

LEMMA Turns ==
  ASSUME NEW c, NEW P, NEW W, State(c, P, W), NEW p \in Proc, NEW v \in Vnode, NEW r \in ProcRec, NEW d,
         Beyond(c, d, p, v), Turn(c.vn[v], d.vn[v], p, P[p], r), Others(d, P, W, p, v, P[p], r),
         W[p] = NoChan, P[p].pc \in Placed => P[p].vp = v, r.pc \in Placed => r.vp = v,
         In(d.free, v) <=> d.vn[v].id # 0 /\ d.vn[v].use = 0 /\ ~d.vn[v].deadb,
         Fresh(P[p]) <=> Fresh(r), Fresh(r) => r.ino = P[p].ino,
         AtPlace(d, p, r), r.pc \in Placed => AtVnode(d.vn[v], p, r, NoChan, d.wake)
  PROVE  State(d, [P EXCEPT ![p] = r], W)
<1> DEFINE Q == [P EXCEPT ![p] = r]
           x == c.vn[v]
           y == d.vn[v]
<1>1. /\ c \in World /\ P \in [Proc -> ProcRec] /\ W \in [Proc -> Chan \cup {NoChan}]
      /\ Once(c.free)
  BY DEF State, Types
<1>2. Q \in [Proc -> ProcRec] /\ Q[p] = r /\ \A q \in Proc : q # p => Q[q] = P[q]
  BY <1>1
<1> HIDE DEF Q
<1>3. Around(c, d, P, Q, W, W, p, v)
  BY <1>1, <1>2 DEF Around, Types, Beyond
<1>4. VnodeOK(x) /\ Owned(c, P, v) /\ Filed(c, v) /\ x \in VnodeRec
  BY <1>1, WorldType DEF State
<1>5. y.use = Cardinality(Refs(Q, v))
  <2>1. CASE P[p].pc \in Referring /\ r.pc \notin Referring
    <3>1. Cardinality(Refs(P, v)) = Cardinality(Refs(Q, v)) + 1
      BY <1>2, <2>1, LessRefs DEF Placed
    <3> QED
      BY <1>4, <2>1, <3>1, UsersCounted DEF Turn, Owned
  <2>2. CASE P[p].pc \notin Referring /\ r.pc \in Referring
    <3>0. P[p].pc \notin Referring /\ Q[p].pc \in Referring /\ Q[p].vp = v
      BY <1>2, <2>2 DEF Placed
    <3>3. \A q \in Proc : q # p => Q[q] = P[q]
      BY <1>2
    <3> HIDE DEF x, y
    <3>1. Cardinality(Refs(Q, v)) = Cardinality(Refs(P, v)) + 1
      BY <3>0, <3>3, MoreRefs
    <3> QED
      BY <1>4, <2>2, <3>1 DEF Turn, Owned, x, y
  <2>3. CASE P[p].pc \in Referring <=> r.pc \in Referring
    <3>1. Refs(Q, v) = Refs(P, v)
      BY <1>2, <2>3 DEF Refs, Placed
    <3> QED
      BY <1>4, <2>3, <3>1 DEF Turn, Owned
  <2> QED
    BY <2>1, <2>2, <2>3
<1>6. Owned(d, Q, v)
  <2>1. y.locked # NoProc => Q[y.locked].vp = v /\ Q[y.locked].pc \in Locking
    <3>1. Locking \subseteq Placed
      BY DEF Locking, Placed, Referring, Using
    <3> QED
      BY <1>2, <1>4, <3>1, VnodeType DEF Turn, Owned
  <2>2. y.vx => \E q \in Proc : Q[q].vp = v /\ Q[q].pc = "vinval"
    BY <1>2, <1>4 DEF Turn, Owned, Placed, Ending
  <2>3. y.mode /\ y.nlink = 0 => \E q \in Proc : Q[q].vp = v /\ Q[q].pc \in Referring \cup {"inactive"}
    <3>1. y.use # 0 => \E q \in Proc : Q[q].vp = v /\ Q[q].pc \in Referring
      BY <1>5, UsersCounted
    <3> QED
      BY <1>2, <1>4, <3>1 DEF Turn, Owned, Placed, Ending
  <2> QED
    BY <1>5, <2>1, <2>2, <2>3 DEF Owned
<1>7. Filed(d, v)
  BY <1>4 DEF Filed, Turn, Beyond, Linked
<1>8. \A q \in Proc : Asleep(d, v, W[q])
  <2>1. Asleep(d, v, NoChan)
    BY Channels DEF Asleep
  <2> QED
    BY <2>1 DEF Others
<1>9. \A q \in Proc : Q[q].pc \in Placed /\ Q[q].vp = v => AtVnode(y, q, Q[q], W[q], d.wake)
  BY <1>2 DEF Others
<1>10. ASSUME NEW q \in Proc, q # p PROVE Apart(r, Q[q]) /\ Apart(Q[q], r)
  <2>1. Apart(P[p], P[q]) /\ Apart(P[q], P[p]) /\ Q[q] = P[q]
    BY <1>2, <1>10 DEF State
  <2>2. Ending \cup Using \subseteq Placed
    BY DEF Placed, Referring
  <2>3. ASSUME r.pc \in Ending, Q[q].pc \in Ending \cup Using PROVE r.vp # Q[q].vp
    BY <1>10, <2>1, <2>2, <2>3 DEF Others, Apart
  <2>4. ASSUME Q[q].pc \in Ending, r.pc \in Ending \cup Using PROVE r.vp # Q[q].vp
    BY <1>10, <2>1, <2>2, <2>4 DEF Others, Apart
  <2>5. Fresh(r) /\ Fresh(Q[q]) => r.ino # Q[q].ino
    BY <2>1 DEF Apart
  <2> QED
    BY <2>3, <2>4, <2>5 DEF Apart
<1>11. Result(d, Q, W, p, v)
  BY <1>2, <1>6, <1>7, <1>8, <1>9, <1>10 DEF Result, Turn
<1> QED
  BY <1>2, <1>3, <1>11, Quiet DEF Beyond, Turn, Q
-----------------------------------------------------------------------------
(* Steps that change a vnode.                                               *)

(* v is off the free list, where the rest remains.                          *)
OffList(c, d, v) == Once(d.free) /\ \A u : In(d.free, u) <=> In(c.free, u) /\ u # v

(* The vnode with one user more.                                            *)
Referred(x) == [x EXCEPT !.use = @ + 1]

(* vgetRef() counts one more user and takes the vnode off the free list.    *)
LEMMA VgetRefIs ==
  ASSUME NEW c \in World, Once(c.free), NEW v \in Vnode, NEW d, d = vgetRef(c, v)
  PROVE  /\ d \in World /\ OffList(c, d, v)
         /\ d.nc = c.nc /\ d.nextid = c.nextid /\ d.dir = c.dir /\ d.dirlock = c.dirlock
         /\ d.hashlock = c.hashlock /\ d.alloc = c.alloc /\ d.panicked = c.panicked /\ d.wake = c.wake
         /\ Becomes(c, d, v, Referred(c.vn[v]))
<1> DEFINE e == Unfree(c, v)
           y == Referred(c.vn[v])
<1>1. /\ e \in World /\ Once(e.free) /\ \A u : In(e.free, u) <=> In(c.free, u) /\ u # v
      /\ e.vn = c.vn /\ e.nc = c.nc /\ e.nextid = c.nextid /\ e.dir = c.dir /\ e.dirlock = c.dirlock
      /\ e.hashlock = c.hashlock /\ e.alloc = c.alloc /\ e.panicked = c.panicked /\ e.wake = c.wake
  BY UnfreeIs
<1> HIDE DEF e
<1>2. [e EXCEPT !.vn[v].use = @ + 1] = [e EXCEPT !.vn = [e.vn EXCEPT ![v] = [e.vn[v] EXCEPT !.use = e.vn[v].use + 1]]]
  BY Zenon
<1>3. d = [e EXCEPT !.vn[v].use = @ + 1]
  BY DEF vgetRef, e
<1>4. y \in VnodeRec
  <2>1. c.vn[v] \in VnodeRec
    BY WorldType
  <2> QED
    BY <2>1 DEF VnodeRec, Referred
<1>5. d = [e EXCEPT !.vn = [e.vn EXCEPT ![v] = y]]
  BY <1>1, <1>2, <1>3 DEF Referred
<1> HIDE DEF y
<1>6. d \in World /\ Becomes(e, d, v, y) /\ RestIs(e, d) /\ d.wake = e.wake
  BY <1>1, <1>4, <1>5, WithIs
<1> QED
  BY <1>1, <1>6 DEF Becomes, RestIs, y, OffList

(* p takes a reference to a vnode that is not being cleaned.                *)
LEMMA Takes ==
  ASSUME NEW c, NEW P, NEW W, State(c, P, W), NEW p \in Proc, NEW v \in Vnode, NEW r \in ProcRec,
         W[p] = NoChan, c.vn[v].id # 0, ~BeingCleaned(c, v), r.vp = v,
         \/ P[p].pc = "vgetfail" /\ r.pc = "vgetlock" /\ r.name = P[p].name /\ r.op = P[p].op
         \/ P[p].pc = "ffs_vget" /\ r = [P[p] EXCEPT !.pc = "taking", !.vp = v] /\ c.vn[v].ino = r.ino
  PROVE  State(vgetRef(c, v), [P EXCEPT ![p] = r], W)
<1> DEFINE d == vgetRef(c, v)
           Q == [P EXCEPT ![p] = r]
           x == c.vn[v]
           y == Referred(x)
<1>1. /\ c \in World /\ P \in [Proc -> ProcRec] /\ W \in [Proc -> Chan \cup {NoChan}]
      /\ Once(c.free) /\ Entries(c.nc) /\ Len(c.nc) <= NameCacheSize /\ ~c.panicked
  BY DEF State, Types
<1>2. Q \in [Proc -> ProcRec] /\ Q[p] = r /\ \A q \in Proc : q # p => Q[q] = P[q]
  BY <1>1
<1>22. d = vgetRef(c, v)
  OBVIOUS
<1> HIDE DEF d, Q
<1>3. /\ d \in World /\ OffList(c, d, v)
      /\ d.nc = c.nc /\ d.nextid = c.nextid /\ d.dir = c.dir /\ d.dirlock = c.dirlock
      /\ d.hashlock = c.hashlock /\ d.alloc = c.alloc /\ d.panicked = c.panicked /\ d.wake = c.wake
      /\ Becomes(c, d, v, y)
  BY <1>1, <1>22, VgetRefIs
<1>4. x \in VnodeRec
  BY <1>1, WorldType
<1>5. /\ y.use = x.use + 1 /\ y.ino = x.ino /\ y.live = x.live /\ y.bad = x.bad /\ y.vx = x.vx
      /\ y.vxwant = x.vxwant /\ y.deadb = x.deadb /\ y.id = x.id /\ y.locked = x.locked
      /\ y.wanted = x.wanted /\ y.mode = x.mode /\ y.nlink = x.nlink
  BY <1>4 DEF VnodeRec, Referred
<1> HIDE DEF y
<1>6. d.vn[v] = y /\ \A u \in Vnode : u # v => d.vn[u] = c.vn[u]
  BY <1>3 DEF Becomes
<1>7. VnodeOK(x) /\ Owned(c, P, v) /\ Filed(c, v)
  BY DEF State
<1>8. ~x.vx /\ ~x.deadb /\ x.use \in Nat /\ y.use \in Nat /\ y.use # 0
  BY <1>4, <1>5, <1>7, VnodeType DEF VnodeOK, BeingCleaned
<1>9. P[p] \in ProcRec /\ AtPlace(c, p, P[p])
  BY <1>1 DEF State
<1>10. /\ r.pc \in {"vgetlock", "taking"} /\ P[p].pc \in {"vgetfail", "ffs_vget"}
       /\ r.pc = "taking" => /\ P[p].pc = "ffs_vget" /\ r.op = P[p].op /\ r.name = P[p].name
                             /\ r.ino = P[p].ino /\ r.ret = P[p].ret /\ r.fresh = P[p].fresh /\ x.ino = r.ino
       /\ r.pc = "vgetlock" => P[p].pc = "vgetfail" /\ r.name = P[p].name /\ r.op = P[p].op
  BY <1>9 DEF ProcRec
<1>11. Around(c, d, P, Q, W, W, p, v)
  BY <1>1, <1>2, <1>3, <1>5, <1>6, <1>10 DEF OffList, Around, Types, Placed, Referring, Using, Ending
<1>12. VnodeOK(y)
  BY <1>5, <1>7, <1>8 DEF VnodeOK
<1>13. Owned(d, Q, v)
  <2>1. y.use = Cardinality(Refs(Q, v))
    BY <1>2, <1>5, <1>7, <1>10, MoreRefs DEF Owned, Referring, Using
  <2>2. y.locked # NoProc => Q[y.locked].vp = v /\ Q[y.locked].pc \in Locking
    BY <1>2, <1>4, <1>5, <1>7, <1>10, VnodeType DEF Owned, Locking, Ending
  <2>3. y.mode /\ y.nlink = 0 => \E q \in Proc : Q[q].vp = v /\ Q[q].pc \in Referring \cup {"inactive"}
    BY <1>2, <1>5, <1>7, <1>10 DEF Owned, Referring, Using
  <2> QED
    BY <1>3, <1>5, <1>6, <1>8, <2>1, <2>2, <2>3 DEF Owned, OffList
<1>14. Filed(d, v)
  BY <1>3, <1>5, <1>6, <1>7 DEF Filed, Linked
<1>15. \A q \in Proc : Asleep(d, v, W[q])
  BY <1>3, <1>5, <1>6 DEF State, Asleep, BeingCleaned
<1>16. AtPlace(d, p, r)
  <2>1. AtPlace(d, p, P[p])
    BY <1>3, <1>5, <1>6, <1>9, SamePlace
  <2>2. CASE r.pc = "vgetlock"
    BY <1>10, <2>1, <2>2 DEF AtPlace, HasDir, Hand, Searching, Leaving, Ending, Fresh
  <2>3. CASE r.pc = "taking"
    BY <1>10, <2>1, <2>3 DEF AtPlace, HasDir, Hand, Searching, Leaving, Ending, Fresh
  <2> QED
    BY <1>10, <2>2, <2>3
<1>17. ASSUME NEW q \in Proc, Q[q].pc \in Placed, Q[q].vp = v PROVE AtVnode(y, q, Q[q], W[q], d.wake)
  <2>1. CASE q = p
    BY <1>2, <1>5, <1>10, <2>1 DEF AtVnode, Hand
  <2>2. CASE q # p
    <3>1. AtVnode(x, q, Q[q], W[q], c.wake)
      BY <1>2, <1>17, <2>2 DEF State
    <3> QED
      BY <1>3, <1>5, <1>8, <3>1 DEF AtVnode
  <2> QED
    BY <2>1, <2>2
<1>18. Fresh(P[p]) => Fresh(r) /\ r.ino = P[p].ino
  BY <1>10 DEF Fresh, Searching, Hand
<1>19. ASSUME NEW q \in Proc, q # p PROVE Apart(r, Q[q]) /\ Apart(Q[q], r)
  <2>1. Apart(P[p], P[q]) /\ Apart(P[q], P[p]) /\ Q[q] = P[q]
    BY <1>2, <1>19 DEF State
  <2>2. Fresh(r) => Fresh(P[p]) /\ r.ino = P[p].ino
    BY <1>10 DEF Fresh, Searching, Hand
  <2>3. r.pc \notin Ending /\ r.pc \notin Using
    BY <1>10 DEF Ending, Using
  <2> QED
    BY <2>1, <2>2, <2>3 DEF Apart
<1>20. Result(d, Q, W, p, v)
  BY <1>2, <1>6, <1>12, <1>13, <1>14, <1>15, <1>16, <1>17, <1>19 DEF Result
<1>21. State(d, Q, W)
  BY <1>2, <1>3, <1>5, <1>6, <1>11, <1>18, <1>20, Quiet
<1> QED
  BY <1>21 DEF d, Q
(* y is x but for its lock.                                                 *)
ButLock(x, y) ==
  /\ y.use = x.use /\ y.ino = x.ino /\ y.live = x.live /\ y.bad = x.bad /\ y.vx = x.vx /\ y.vxwant = x.vxwant
  /\ y.deadb = x.deadb /\ y.id = x.id /\ y.mode = x.mode /\ y.nlink = x.nlink

(* Only v changes.                                                          *)
Only(c, d, v) ==
  /\ d \in World /\ RestIs(c, d)
  /\ \A u \in Vnode : u # v => d.vn[u] = c.vn[u]

(* Nothing but v changes, and p may.                                        *)
LEMMA OnlyBeyond ==
  ASSUME NEW c, NEW P, NEW W, State(c, P, W), NEW p, NEW v, NEW d, Only(c, d, v),
         c.wake \subseteq d.wake, d.wake \subseteq c.wake \cup {Ip(v), Vp(v)},
         d.vn[v].ino = c.vn[v].ino
  PROVE  Beyond(c, d, p, v)
BY DEF State, Types, Beyond, Only, RestIs

(* VOP_UNLOCK()                                                             *)
LEMMA UnlockIs ==
  ASSUME NEW c \in World, NEW v \in Vnode, NEW d, d = Unlock(c, v)
  PROVE  /\ Only(c, d, v) /\ ButLock(c.vn[v], d.vn[v])
         /\ c.wake \subseteq d.wake /\ d.wake \subseteq c.wake \cup {Ip(v)}
         /\ ~c.vn[v].live => d = c
         /\ c.vn[v].live => /\ d.vn[v].locked = NoProc /\ ~d.vn[v].wanted
                            /\ c.vn[v].wanted => Ip(v) \in d.wake
<1> DEFINE x == c.vn[v]
           y == [[x EXCEPT !.locked = NoProc] EXCEPT !.wanted = FALSE]
           w == IF x.wanted THEN c.wake \cup {Ip(v)} ELSE c.wake
<1>1. x \in VnodeRec
  BY WorldType
<1>2. CASE ~x.live
  <2>1. d = c
    BY <1>2 DEF Unlock
  <2> QED
    BY <1>2, <2>1 DEF Only, RestIs, ButLock
<1>3. CASE x.live
  <2>1. d = [c EXCEPT !.vn[v].locked = NoProc, !.vn[v].wanted = FALSE,
                      !.wake = IF c.vn[v].wanted THEN @ \cup {Ip(v)} ELSE @]
    BY <1>3 DEF Unlock
  <2>2. d = [[c EXCEPT !.vn = [c.vn EXCEPT ![v] = y]] EXCEPT !.wake = w]
    BY <2>1 DEF World
  <2>3. y \in VnodeRec /\ ButLock(x, y) /\ y.locked = NoProc /\ ~y.wanted
    BY <1>1 DEF VnodeRec, ButLock
  <2>4. w \in SUBSET Chan /\ c.wake \subseteq w /\ w \subseteq c.wake \cup {Ip(v)} /\ (x.wanted => Ip(v) \in w)
    BY WorldType DEF Chan
  <2> HIDE DEF y, w
  <2> DEFINE e == [c EXCEPT !.vn = [c.vn EXCEPT ![v] = y]]
  <2>5. e \in World /\ Becomes(c, e, v, y) /\ RestIs(c, e)
    BY <2>3, WithIs
  <2>6. d = [e EXCEPT !.wake = w]
    BY <2>2
  <2> HIDE DEF e
  <2>7. d \in World /\ d.vn = e.vn /\ RestIs(e, d) /\ d.wake = w
    BY <2>4, <2>5, <2>6 DEF World, RestIs
  <2> QED
    BY <1>3, <2>3, <2>4, <2>5, <2>7 DEF Only, RestIs, Becomes
<1> QED
  BY <1>1, <1>2, <1>3, VnodeType
(* p unlocks v.                                                             *)
LEMMA Unlocks ==
  ASSUME NEW c, NEW P, NEW W, State(c, P, W), NEW p \in Proc, NEW v \in Vnode, NEW r \in ProcRec, NEW d,
         d = Unlock(c, v), W[p] = NoChan, P[p].vp = v, r.vp = v,
         \/ P[p].pc = "putting" /\ r = At(P[p], "closing")
         \/ P[p].pc = "update" /\ r = At(P[p], "leaving")
         \/ P[p].pc = "inactive" /\ r = At(P[p], "leaving") /\ c.vn[v].nlink # 0
         \/ P[p].pc = "got" /\ r.pc = "open" /\ ~r.fresh
  PROVE  State(d, [P EXCEPT ![p] = r], W)
<1> DEFINE x == c.vn[v]
           y == d.vn[v]
<1>1. c \in World /\ P \in [Proc -> ProcRec] /\ x \in VnodeRec /\ P[p] \in ProcRec
  BY WorldType DEF State, Types
<1>2. /\ Only(c, d, v) /\ ButLock(x, y)
      /\ c.wake \subseteq d.wake /\ d.wake \subseteq c.wake \cup {Ip(v)}
      /\ ~x.live => d = c
      /\ x.live => /\ y.locked = NoProc /\ ~y.wanted
                   /\ x.wanted => Ip(v) \in d.wake
  BY <1>1, UnlockIs
<1>3. /\ r.pc \in {"closing", "leaving", "open"} /\ P[p].pc \in {"putting", "update", "inactive", "got"}
      /\ r.pc # "open" => /\ r.op = P[p].op /\ r.name = P[p].name /\ r.ino = P[p].ino /\ r.ret = P[p].ret
                          /\ r.fresh = P[p].fresh
      /\ r.pc = "closing" <=> P[p].pc = "putting"
      /\ r.pc = "open" <=> P[p].pc = "got"
  BY <1>1 DEF ProcRec, At
<1>4. /\ VnodeOK(x) /\ Owned(c, P, v) /\ AtPlace(c, p, P[p]) /\ AtVnode(x, p, P[p], NoChan, c.wake)
  BY <1>3 DEF State, Placed, Referring, Using, Ending
<1>5. Beyond(c, d, p, v)
  BY <1>2, OnlyBeyond DEF ButLock
<1>6. x.live => x.locked = p
  BY <1>3, <1>4 DEF AtVnode
<1>7. VnodeOK(y) /\ y.locked = NoProc
  BY <1>2, <1>4 DEF VnodeOK, ButLock
<1>8. Turn(x, y, p, P[p], r)
  BY <1>2, <1>3, <1>4, <1>7 DEF Turn, ButLock, Referring, Using, Ending, Locking, AtVnode, VnodeOK
<1>9. Others(d, P, W, p, v, P[p], r)
  <2>1. ASSUME NEW q \in Proc, q # p PROVE Asleep(d, v, W[q])
    <3>1. Asleep(c, v, W[q])
      BY DEF State
    <3> QED
      BY <1>1, <1>2, <3>1, VnodeType DEF Asleep, BeingCleaned, ButLock
  <2>2. ASSUME NEW q \in Proc, q # p, P[q].pc \in Placed, P[q].vp = v
        PROVE  AtVnode(y, q, P[q], W[q], d.wake)
    <3>1. AtVnode(x, q, P[q], W[q], c.wake)
      BY <2>2 DEF State
    <3>2. Vp(v) \notin c.wake => Vp(v) \notin d.wake
      BY <1>2, Channels
    <3> QED
      BY <1>2, <1>6, <1>7, <2>2, <3>1, <3>2 DEF AtVnode, ButLock
  <2> QED
    BY <1>3, <2>1, <2>2 DEF Others, Ending, Using
<1>10. AtPlace(d, p, r)
  <2>1. AtPlace(d, p, P[p])
    BY <1>2, <1>4, SamePlace DEF Only, RestIs, ButLock
  <2> QED
    BY <1>3, <2>1 DEF AtPlace, HasDir, Hand, Searching, Leaving, Ending, Fresh, Placed, Referring, Using
<1>11. r.pc \in Placed => AtVnode(y, p, r, NoChan, d.wake)
  BY <1>2, <1>3, <1>4 DEF AtVnode, ButLock, Hand, Placed, Referring, Using, Ending
<1>12. (Fresh(P[p]) <=> Fresh(r)) /\ (Fresh(r) => r.ino = P[p].ino)
  BY <1>3, <1>4 DEF Fresh, Searching, Hand, AtPlace
<1>13. In(d.free, v) <=> y.id # 0 /\ y.use = 0 /\ ~y.deadb
  BY <1>2, <1>4 DEF Owned, ButLock, Only, RestIs
<1> QED
  BY <1>5, <1>8, <1>9, <1>10, <1>11, <1>12, <1>13, Turns
(* y is x but for how many use it.                                          *)
ButUse(x, y) ==
  /\ y.ino = x.ino /\ y.live = x.live /\ y.bad = x.bad /\ y.vx = x.vx /\ y.vxwant = x.vxwant /\ y.id = x.id
  /\ y.locked = x.locked /\ y.wanted = x.wanted /\ y.mode = x.mode /\ y.nlink = x.nlink

(* The first half of vrele().                                               *)
LEMMA VreleRefIs ==
  ASSUME NEW c \in World, NEW v \in Vnode, Once(c.free), ~In(c.free, v), c.vn[v].use # 0, ~c.vn[v].deadb,
         NEW d, d = vreleRef(c, v)
  PROVE  /\ d \in World /\ d.wake = c.wake /\ d.nc = c.nc /\ d.nextid = c.nextid /\ d.dir = c.dir
         /\ d.dirlock = c.dirlock /\ d.hashlock = c.hashlock /\ d.alloc = c.alloc /\ d.panicked = c.panicked
         /\ Once(d.free) /\ \A u \in Vnode : u # v => d.vn[u] = c.vn[u] /\ (In(d.free, u) <=> In(c.free, u))
         /\ ButUse(c.vn[v], d.vn[v]) /\ d.vn[v].use = c.vn[v].use - 1 /\ ~d.vn[v].deadb
         /\ In(d.free, v) <=> d.vn[v].use = 0
<1> DEFINE x == c.vn[v]
           y1 == [x EXCEPT !.use = x.use - 1]
           y0 == [[x EXCEPT !.use = 0] EXCEPT !.deadb = FALSE]
           f == Append(c.free, v)
<1>1. x \in VnodeRec /\ x.use \in Nat /\ c.free \in Seq(Vnode)
  BY WorldType, VnodeType
<1>2. CASE x.use > 1
  <2>1. d = [c EXCEPT !.vn = [c.vn EXCEPT ![v] = y1]]
    <3>1. d = [c EXCEPT !.vn[v].use = @ - 1]
      BY <1>2 DEF vreleRef
    <3>2. [c EXCEPT !.vn[v].use = @ - 1] = [c EXCEPT !.vn = [c.vn EXCEPT ![v] = [c.vn[v] EXCEPT !.use = c.vn[v].use - 1]]]
      BY Zenon
    <3> QED
      BY <3>1, <3>2
  <2>2. y1 \in VnodeRec /\ ButUse(x, y1) /\ y1.use = x.use - 1 /\ y1.deadb = x.deadb /\ y1.use # 0
    BY <1>1, <1>2 DEF VnodeRec, ButUse
  <2> HIDE DEF y1
  <2>3. d \in World /\ Becomes(c, d, v, y1) /\ RestIs(c, d) /\ d.wake = c.wake
    BY <2>1, <2>2, WithIs
  <2> QED
    BY <2>2, <2>3 DEF RestIs, Becomes
<1>3. CASE ~(x.use > 1)
  <2>1. d = [[c EXCEPT !.vn = [c.vn EXCEPT ![v] = y0]] EXCEPT !.free = f]
    <3>1. d = [c EXCEPT !.vn[v].use = 0, !.vn[v].deadb = FALSE, !.free = Append(@, v)]
      BY <1>3 DEF vreleRef
    <3> QED
      BY <3>1 DEF World
  <2>2. y0 \in VnodeRec /\ ButUse(x, y0) /\ y0.use = x.use - 1 /\ ~y0.deadb /\ y0.use = 0
    <3>1. x.use - 1 = 0
      BY <1>1, <1>3
    <3>2. y0 \in VnodeRec /\ ButUse(x, y0) /\ ~y0.deadb /\ y0.use = 0
      BY <1>1 DEF VnodeRec, ButUse
    <3> QED
      BY <3>1, <3>2
  <2>3. f \in Seq(Vnode) /\ Once(f) /\ \A u : In(f, u) <=> In(c.free, u) \/ u = v
    BY <1>1, AppendList
  <2> HIDE DEF y0, f
  <2> DEFINE e == [c EXCEPT !.vn = [c.vn EXCEPT ![v] = y0]]
  <2>4. e \in World /\ Becomes(c, e, v, y0) /\ RestIs(c, e) /\ e.wake = c.wake
    BY <2>2, WithIs
  <2>5. d = [e EXCEPT !.free = f]
    BY <2>1
  <2> HIDE DEF e
  <2>6. /\ d \in World /\ d.vn = e.vn /\ d.free = f /\ d.wake = e.wake /\ d.nc = e.nc /\ d.nextid = e.nextid
        /\ d.dir = e.dir /\ d.dirlock = e.dirlock /\ d.hashlock = e.hashlock /\ d.alloc = e.alloc
        /\ d.panicked = e.panicked
    BY <2>3, <2>4, <2>5 DEF World
  <2> QED
    BY <2>2, <2>3, <2>4, <2>6 DEF RestIs, Becomes
<1> QED
  BY <1>2, <1>3

(* The lock of an inode is taken.                                           *)
Locked(c, v, p) == [c EXCEPT !.vn[v].locked = p]

LEMMA LockIs ==
  ASSUME NEW c \in World, NEW v \in Vnode, NEW p \in Proc, NEW d, d = Locked(c, v, p)
  PROVE  /\ Only(c, d, v) /\ ButLock(c.vn[v], d.vn[v]) /\ d.wake = c.wake
         /\ d.vn[v].locked = p /\ d.vn[v].wanted = c.vn[v].wanted
<1> DEFINE x == c.vn[v]
           y == [x EXCEPT !.locked = p]
<1>1. x \in VnodeRec
  BY WorldType
<1>2. y \in VnodeRec /\ ButLock(x, y) /\ y.locked = p /\ y.wanted = x.wanted
  BY <1>1 DEF VnodeRec, ButLock
<1>3. [c EXCEPT !.vn[v].locked = p] = [c EXCEPT !.vn = [c.vn EXCEPT ![v] = y]]
  BY Zenon
<1> HIDE DEF y
<1>4. d \in World /\ Becomes(c, d, v, y) /\ RestIs(c, d) /\ d.wake = c.wake
  BY <1>2, <1>3, WithIs DEF Locked
<1> QED
  BY <1>2, <1>4 DEF Only, Becomes
(* To its VOP_INACTIVE(), or past it.                                       *)
Leaves(e, d, v, p, a, r) ==
  \/ d = e /\ r = At(a, "leaving") /\ (e.vn[v].use = 0 => ~e.vn[v].mode)
  \/ /\ d = Locked(e, v, p) /\ r = At(a, "inactive")
     /\ e.vn[v].use = 0 /\ e.vn[v].live /\ e.vn[v].mode

(* p releases v, which is VOP_INACTIVE()'s business if nobody else uses it. *)
LEMMA Releases ==
  ASSUME NEW c, NEW P, NEW W, State(c, P, W), NEW p \in Proc, NEW v \in Vnode, NEW r \in ProcRec,
         NEW e, e = vreleRef(c, v), NEW d,
         W[p] = NoChan, P[p].vp = v, P[p].pc = "closing",
         Leaves(e, d, v, p, P[p], r)
  PROVE  /\ State(d, [P EXCEPT ![p] = r], W)
         /\ e.vn[v].use = 0 => e.vn[v].locked = NoProc
<1> DEFINE x == c.vn[v]
           z == e.vn[v]
           y == d.vn[v]
<1>0. \/ d = e /\ r = At(P[p], "leaving") /\ (e.vn[v].use = 0 => ~e.vn[v].mode)
      \/ /\ d = Locked(e, v, p) /\ r = At(P[p], "inactive")
         /\ e.vn[v].use = 0 /\ e.vn[v].live /\ e.vn[v].mode
  BY DEF Leaves
<1>1. /\ c \in World /\ P \in [Proc -> ProcRec] /\ x \in VnodeRec /\ P[p] \in ProcRec
      /\ Once(c.free) /\ ~c.panicked /\ Entries(c.nc) /\ Len(c.nc) <= NameCacheSize
  BY <1>0, WorldType DEF State, Types
<1>2. P[p].pc \in Placed /\ P[p].pc \in Referring /\ P[p].pc \in Using
  BY <1>0 DEF Placed, Referring, Using
<1>3. VnodeOK(x) /\ Owned(c, P, v) /\ AtPlace(c, p, P[p]) /\ AtVnode(x, p, P[p], NoChan, c.wake)
  BY <1>0, <1>2 DEF State
<1>4. x.use # 0 /\ x.use \in Nat /\ ~x.deadb /\ ~x.vx /\ ~In(c.free, v)
  BY <1>0, <1>1, <1>2, <1>3, UsersCounted, VnodeType DEF Owned, VnodeOK
<1>5. /\ e \in World /\ e.wake = c.wake /\ e.nc = c.nc /\ e.nextid = c.nextid /\ e.dir = c.dir
      /\ e.dirlock = c.dirlock /\ e.hashlock = c.hashlock /\ e.alloc = c.alloc /\ e.panicked = c.panicked
      /\ Once(e.free) /\ \A u \in Vnode : u # v => e.vn[u] = c.vn[u] /\ (In(e.free, u) <=> In(c.free, u))
      /\ ButUse(x, z) /\ z.use = x.use - 1 /\ ~z.deadb /\ (In(e.free, v) <=> z.use = 0)
  BY <1>0, <1>1, <1>4, VreleRefIs
<1>6. z.use = 0 => \A q \in Proc : q # p => ~(P[q].vp = v /\ P[q].pc \in Referring)
  <2>1. SUFFICES ASSUME z.use = 0, NEW q \in Proc, q # p, P[q].vp = v, P[q].pc \in Referring PROVE FALSE
    BY <1>0
  <2> DEFINE Q == [P EXCEPT ![p] = At(P[p], "leaving")]
  <2>2. Q[p].pc = "leaving" /\ \A s \in Proc : s # p => Q[s] = P[s]
    BY <1>0, <1>1 DEF At, ProcRec
  <2>3. Q[p].pc \notin Referring
    BY <1>0, <2>2 DEF Referring, Using
  <2> HIDE DEF Q
  <2>4. Cardinality(Refs(P, v)) = Cardinality(Refs(Q, v)) + 1
    BY <1>0, <1>2, <2>2, <2>3, LessRefs
  <2>5. Cardinality(Refs(Q, v)) = 0
    BY <1>0, <1>3, <1>4, <1>5, <2>1, <2>4, UsersCounted DEF Owned
  <2> QED
    BY <1>0, <2>1, <2>2, <2>5, UsersCounted
<1>7. \A q \in Proc : q # p /\ P[q].vp = v => P[q].pc \notin Ending
  BY <1>0, <1>2 DEF State, Apart
<1>8. z.use = 0 => z.locked = NoProc
  <2>1. z.locked = x.locked /\ x.locked \in Proc \cup {NoProc}
    BY <1>0, <1>1, <1>5, VnodeType DEF ButUse
  <2>2. x.locked # NoProc => P[x.locked].vp = v /\ P[x.locked].pc \in Locking
    BY <1>0, <1>3 DEF Owned
  <2>3. Locking \subseteq Referring \cup Ending /\ P[p].pc \notin Locking
    BY <1>0 DEF Locking, Referring, Using, Ending
  <2> QED
    BY <1>0, <1>6, <1>7, <2>1, <2>2, <2>3
<1>9. /\ d \in World /\ d.wake = c.wake /\ d.nc = c.nc /\ d.dir = c.dir /\ d.dirlock = c.dirlock
      /\ d.hashlock = c.hashlock /\ d.alloc = c.alloc /\ d.panicked = c.panicked
      /\ Once(d.free) /\ \A u \in Vnode : u # v => d.vn[u] = c.vn[u] /\ (In(d.free, u) <=> In(c.free, u))
      /\ y.use = z.use /\ y.deadb = z.deadb /\ (In(d.free, v) <=> z.use = 0)
      /\ y.ino = x.ino /\ y.live = x.live /\ y.bad = x.bad /\ y.vx = x.vx /\ y.vxwant = x.vxwant /\ y.id = x.id
      /\ y.wanted = x.wanted /\ y.mode = x.mode /\ y.nlink = x.nlink
      /\ y.locked = IF r.pc = "inactive" THEN p ELSE z.locked
      /\ r.pc = "inactive" => z.use = 0 /\ x.live /\ x.mode
      /\ r.pc = "leaving" => (z.use = 0 => ~x.mode)
      /\ r.pc \in {"inactive", "leaving"}
  <2>1. CASE d = e /\ r = At(P[p], "leaving") /\ (e.vn[v].use = 0 => ~e.vn[v].mode)
    <3>1. r.pc = "leaving"
      BY <1>0, <1>1, <2>1 DEF At, ProcRec
    <3> QED
      BY <1>0, <1>5, <2>1, <3>1 DEF ButUse
  <2>2. CASE /\ d = Locked(e, v, p) /\ r = At(P[p], "inactive")
             /\ e.vn[v].use = 0 /\ e.vn[v].live /\ e.vn[v].mode
    <3>1. r.pc = "inactive"
      BY <1>0, <1>1, <2>2 DEF At, ProcRec
    <3>2. e \in World /\ d = Locked(e, v, p)
      BY <1>0, <1>5, <2>2
    <3>3. Only(e, d, v) /\ ButLock(z, y) /\ d.wake = e.wake /\ y.locked = p /\ y.wanted = z.wanted
      BY <1>0, <3>2, LockIs
    <3>4. z.use = 0 /\ z.live /\ z.mode
      BY <1>0, <2>2
    <3> HIDE DEF y, z
    <3>5. \A u \in Vnode : u # v => d.vn[u] = c.vn[u] /\ (In(d.free, u) <=> In(c.free, u))
      BY <1>0, <1>5, <3>3 DEF Only, RestIs
    <3>6. /\ d \in World /\ d.wake = c.wake /\ d.nc = c.nc /\ d.dir = c.dir /\ d.dirlock = c.dirlock
          /\ d.hashlock = c.hashlock /\ d.alloc = c.alloc /\ d.panicked = c.panicked
          /\ Once(d.free) /\ (In(d.free, v) <=> z.use = 0)
      BY <1>0, <1>5, <3>3 DEF Only, RestIs
    <3>7. /\ y.use = z.use /\ y.deadb = z.deadb
          /\ y.ino = x.ino /\ y.live = x.live /\ y.bad = x.bad /\ y.vx = x.vx /\ y.vxwant = x.vxwant /\ y.id = x.id
          /\ y.wanted = x.wanted /\ y.mode = x.mode /\ y.nlink = x.nlink
      BY <1>0, <1>5, <3>3 DEF ButUse, ButLock
    <3>8. x.live /\ x.mode
      BY <1>0, <1>5, <3>4 DEF ButUse
    <3> QED
      BY <1>0, <3>1, <3>3, <3>4, <3>5, <3>6, <3>7, <3>8
  <2> QED
    BY <1>0, <2>1, <2>2
<1> HIDE DEF y, z
<1>10. /\ r.op = P[p].op /\ r.name = P[p].name /\ r.ino = P[p].ino /\ r.ret = P[p].ret /\ r.fresh = P[p].fresh
       /\ r.vp = P[p].vp
  BY <1>0, <1>1 DEF At, ProcRec
<1>11. Beyond(c, d, p, v)
  BY <1>0, <1>1, <1>9 DEF Beyond, y
<1>12. VnodeOK(y)
  BY <1>0, <1>3, <1>4, <1>5, <1>9 DEF VnodeOK, ButUse
<1>13. Turn(x, y, p, P[p], r)
  <2>1. r.pc \notin Referring /\ (r.pc = "inactive" => r.pc \in Locking)
    BY <1>0, <1>9 DEF Referring, Using, Locking, Ending
  <2>2. z.use = x.use - 1 /\ z.locked = x.locked
    BY <1>0, <1>5 DEF ButUse, z
  <2>3. x.locked # p
    BY <1>0, <1>1, <1>3, VnodesAssumption DEF Owned, Locking, Ending
  <2> QED
    BY <1>0, <1>2, <1>4, <1>9, <1>12, <2>1, <2>2, <2>3 DEF Turn
<1>14. Others(d, P, W, p, v, P[p], r)
  <2>1. ASSUME NEW q \in Proc, q # p PROVE Asleep(d, v, W[q])
    <3>1. Asleep(c, v, W[q])
      BY <1>0 DEF State
    <3>2. y.locked = x.locked \/ x.locked = NoProc
      BY <1>0, <1>5, <1>8, <1>9 DEF ButUse, z
    <3> QED
      BY <1>0, <1>4, <1>9, <3>1, <3>2 DEF Asleep, BeingCleaned, y
  <2>2. ASSUME NEW q \in Proc, q # p, P[q].pc \in Placed, P[q].vp = v
        PROVE  AtVnode(y, q, P[q], W[q], d.wake)
    <3>1. AtVnode(x, q, P[q], W[q], c.wake)
      BY <1>0, <2>2 DEF State
    <3>2. y.locked = x.locked \/ x.locked = NoProc
      BY <1>0, <1>5, <1>8, <1>9 DEF ButUse, z
    <3> QED
      BY <1>0, <1>4, <1>9, <3>1, <3>2, VnodesAssumption DEF AtVnode
  <2>3. r.pc \in Ending => \A q \in Proc : q # p /\ P[q].vp = v => P[q].pc \notin Ending \cup Using
    BY <1>0, <1>6, <1>7, <1>9 DEF Ending, Referring
  <2>4. r.pc \notin Using
    BY <1>0, <1>9 DEF Using
  <2> QED
    BY <1>0, <2>1, <2>2, <2>3, <2>4 DEF Others, y
<1>15. AtPlace(d, p, r)
  <2>1. AtPlace(d, p, P[p])
    <3>1. \A u \in Vnode : d.vn[u].ino = c.vn[u].ino /\ d.vn[u].mode = c.vn[u].mode
      BY <1>0, <1>9 DEF y
    <3> QED
      BY <1>0, <1>3, <1>9, <3>1, SamePlace
  <2>2. r.pc = "inactive" => r.ret # "fail"
    BY <1>0, <1>3, <1>9, <1>10 DEF AtVnode
  <2>3. /\ Fresh(r) => Fresh(P[p])
        /\ ~Hand(r) /\ ~Searching(r) /\ P[p].pc \in Leaving /\ P[p].pc # "vinval"
        /\ r.pc \notin {"remove", "makeinode", "vgetlock", "vgetfail", "relock", "update"}
    BY <1>0, <1>9, <1>10 DEF Hand, Searching, Leaving, Ending, Fresh
  <2> QED
    BY <1>0, <1>2, <1>10, <2>1, <2>2, <2>3 DEF AtPlace, HasDir
<1>16. r.pc \in Placed => AtVnode(y, p, r, NoChan, d.wake)
  BY <1>0, <1>9 DEF AtVnode, Hand, Placed, Referring, Using, Ending
<1>17. (Fresh(P[p]) <=> Fresh(r)) /\ (Fresh(r) => r.ino = P[p].ino)
  <2>1. r.pc = "inactive" => r.ret # "fail"
    BY <1>0, <1>3, <1>9, <1>10 DEF AtVnode
  <2> QED
    BY <1>0, <1>9, <1>10, <2>1 DEF Fresh, Searching, Hand
<1>18. In(d.free, v) <=> y.id # 0 /\ y.use = 0 /\ ~y.deadb
  <2>1. x.id # 0 /\ ~z.deadb
    BY <1>0, <1>3, <1>4, <1>5 DEF VnodeOK, z
  <2> QED
    BY <1>0, <1>9, <2>1
<1>19. State(d, [P EXCEPT ![p] = r], W)
  BY <1>0, <1>2, <1>10, <1>11, <1>13, <1>14, <1>15, <1>16, <1>17, <1>18, Turns DEF y
<1> QED
  BY <1>0, <1>1, <1>5, <1>8, <1>19 DEF z
(* p locks v, or finds it dead.                                             *)
LEMMA Locks ==
  ASSUME NEW c, NEW P, NEW W, State(c, P, W), NEW p \in Proc, NEW v \in Vnode, NEW r \in ProcRec, NEW d,
         W[p] = NoChan, P[p].vp = v, r.vp = v, ~c.vn[v].vx,
         \/ P[p].pc = "vgetlock" /\ r = [P[p] EXCEPT !.pc = "putting", !.ret = "relock"]
         \/ P[p].pc = "taking" /\ r = At(P[p], "found") /\ c.vn[v].live,
         IF c.vn[v].live THEN c.vn[v].locked = NoProc /\ d = Locked(c, v, p) ELSE d = c
  PROVE  State(d, [P EXCEPT ![p] = r], W)
<1> DEFINE x == c.vn[v]
           y == d.vn[v]
<1>1. /\ c \in World /\ P \in [Proc -> ProcRec] /\ x \in VnodeRec /\ P[p] \in ProcRec
  BY WorldType DEF State, Types
<1>2. /\ P[p].pc \in {"vgetlock", "taking"} /\ P[p].pc \in Placed /\ P[p].pc \in Referring
      /\ P[p].pc \notin Using \cup {"inactive"}
  BY DEF Placed, Referring, Using
<1>3. VnodeOK(x) /\ Owned(c, P, v) /\ AtPlace(c, p, P[p]) /\ AtVnode(x, p, P[p], NoChan, c.wake)
  BY <1>2 DEF State
<1>4. /\ Only(c, d, v) /\ ButLock(x, y) /\ d.wake = c.wake /\ y.wanted = x.wanted
      /\ x.live => y.locked = p /\ x.locked = NoProc
      /\ ~x.live => y.locked = NoProc /\ x.locked = NoProc
  <2>1. CASE x.live
    <3>1. d = Locked(c, v, p) /\ x.locked = NoProc
      BY <2>1
    <3> QED
      BY <1>1, <2>1, <3>1, LockIs
  <2>2. CASE ~x.live
    <3>1. d = c
      BY <2>2
    <3> QED
      BY <1>1, <1>3, <2>2, <3>1 DEF Only, RestIs, ButLock, VnodeOK
  <2> QED
    BY <2>1, <2>2
<1>5. /\ r.op = P[p].op /\ r.name = P[p].name /\ r.ino = P[p].ino /\ r.fresh = P[p].fresh
      /\ r.pc \in {"putting", "found"} /\ (r.pc = "putting" <=> P[p].pc = "vgetlock")
      /\ r.pc = "putting" => r.ret = "relock"
      /\ r.pc = "found" => x.live
  BY <1>1 DEF ProcRec, At
<1>6. Beyond(c, d, p, v)
  BY <1>4, OnlyBeyond DEF ButLock
<1>7. VnodeOK(y)
  BY <1>3, <1>4 DEF VnodeOK, ButLock
<1>8. r.pc \in Referring /\ r.pc \in Locking /\ r.pc \in Using /\ r.pc \notin Ending
  BY <1>5 DEF Locking, Referring, Using, Ending
<1>9. Turn(x, y, p, P[p], r)
  <2>1. y.locked \in {NoProc, p}
    BY <1>4
  <2>2. ~y.vx /\ y.use = x.use /\ (y.mode => x.mode /\ y.ino = x.ino /\ y.nlink = x.nlink) /\ (x.mode => y.mode)
    BY <1>4 DEF ButLock
  <2> QED
    BY <1>2, <1>7, <1>8, <2>1, <2>2 DEF Turn
<1>10. Others(d, P, W, p, v, P[p], r)
  <2>1. ASSUME NEW q \in Proc, q # p PROVE Asleep(d, v, W[q])
    <3>1. Asleep(c, v, W[q])
      BY DEF State
    <3> QED
      BY <1>1, <1>4, <3>1, VnodeType DEF Asleep, BeingCleaned, ButLock
  <2>2. ASSUME NEW q \in Proc, q # p, P[q].pc \in Placed, P[q].vp = v
        PROVE  AtVnode(y, q, P[q], W[q], d.wake)
    <3>1. AtVnode(x, q, P[q], W[q], c.wake)
      BY <2>2 DEF State
    <3> QED
      BY <1>4, <2>2, <3>1, VnodesAssumption DEF AtVnode, ButLock
  <2>3. ASSUME NEW q \in Proc, q # p, P[q].vp = v PROVE P[q].pc \notin Ending
    <3>1. P[q].pc \in Ending => AtVnode(x, q, P[q], W[q], c.wake)
      BY <2>3 DEF State, Placed
    <3> QED
      BY <1>4, <3>1, VnodesAssumption DEF AtVnode, Ending
  <2> QED
    BY <1>8, <2>1, <2>2, <2>3 DEF Others
<1>11. AtPlace(d, p, r)
  <2>1. AtPlace(d, p, P[p])
    BY <1>3, <1>4, SamePlace DEF Only, RestIs, ButLock
  <2> QED
    BY <1>1, <1>5, <2>1 DEF AtPlace, HasDir, Hand, Searching, Leaving, Ending, Fresh, Placed, Referring, Using
<1>12. AtVnode(y, p, r, NoChan, d.wake)
  BY <1>3, <1>4, <1>5 DEF AtVnode, ButLock, Hand
<1>13. (Fresh(P[p]) <=> Fresh(r)) /\ (Fresh(r) => r.ino = P[p].ino)
  BY <1>2, <1>5 DEF Fresh, Searching, Hand
<1>14. In(d.free, v) <=> y.id # 0 /\ y.use = 0 /\ ~y.deadb
  BY <1>3, <1>4 DEF Owned, ButLock, Only, RestIs
<1> QED
  BY <1>6, <1>9, <1>10, <1>11, <1>12, <1>13, <1>14, Turns

(* VXLOCK is set.                                                           *)
Cleaned(c, v) == [c EXCEPT !.vn[v].vx = TRUE]

LEMMA CleanedIs ==
  ASSUME NEW c \in World, NEW v \in Vnode, NEW d, d = Cleaned(c, v), NEW x, x = c.vn[v], NEW y, y = d.vn[v]
  PROVE  /\ Only(c, d, v) /\ d.wake = c.wake /\ y.vx
         /\ y.use = x.use /\ y.ino = x.ino /\ y.live = x.live /\ y.bad = x.bad /\ y.vxwant = x.vxwant
         /\ y.deadb = x.deadb /\ y.id = x.id /\ y.locked = x.locked /\ y.wanted = x.wanted /\ y.mode = x.mode
         /\ y.nlink = x.nlink
<1> DEFINE z == [x EXCEPT !.vx = TRUE]
<1>1. x \in VnodeRec
  BY WorldType
<1>2. /\ z \in VnodeRec /\ z.vx
      /\ z.use = x.use /\ z.ino = x.ino /\ z.live = x.live /\ z.bad = x.bad /\ z.vxwant = x.vxwant
      /\ z.deadb = x.deadb /\ z.id = x.id /\ z.locked = x.locked /\ z.wanted = x.wanted /\ z.mode = x.mode
      /\ z.nlink = x.nlink
  BY <1>1 DEF VnodeRec
<1>3. [c EXCEPT !.vn[v].vx = TRUE] = [c EXCEPT !.vn = [c.vn EXCEPT ![v] = z]]
  BY Zenon
<1> HIDE DEF z
<1>4. d \in World /\ Becomes(c, d, v, z) /\ RestIs(c, d) /\ d.wake = c.wake
  BY <1>2, <1>3, WithIs DEF Cleaned
<1> QED
  BY <1>2, <1>4 DEF Only, Becomes
(* p begins to clean v: as getnewvnode(), or after the last reference.      *)
LEMMA Cleans ==
  ASSUME NEW c, NEW P, NEW W, State(c, P, W), NEW p \in Proc, NEW v \in Vnode, NEW r \in ProcRec, NEW e, NEW d,
         W[p] = NoChan, P[p].vp = v, r = At(P[p], "vinval"), ~c.vn[v].vx,
         \/ P[p].pc = "vclean"
         \/ P[p].pc = "leaving" /\ c.vn[v].live /\ c.vn[v].use = 0,
         IF c.vn[v].live THEN c.vn[v].locked = NoProc /\ e = Locked(c, v, p) ELSE e = c,
         d = Cleaned(e, v)
  PROVE  State(d, [P EXCEPT ![p] = r], W)
<1> DEFINE x == c.vn[v]
           y == d.vn[v]
<1>1. /\ c \in World /\ P \in [Proc -> ProcRec] /\ x \in VnodeRec /\ P[p] \in ProcRec
  BY WorldType DEF State, Types
<1>2. /\ P[p].pc \in {"vclean", "leaving"} /\ P[p].pc \notin Referring \cup Ending
      /\ P[p].pc = "vclean" => P[p].pc \in Placed
      /\ P[p].pc # "leaving" => P[p].pc = "vclean"
  BY DEF Placed, Referring, Using, Ending
<1>3. VnodeOK(x) /\ Owned(c, P, v) /\ AtPlace(c, p, P[p]) /\ (P[p].pc = "vclean" => AtVnode(x, p, P[p], NoChan, c.wake))
  BY <1>2 DEF State
<1>4. /\ r.op = P[p].op /\ r.name = P[p].name /\ r.ino = P[p].ino /\ r.fresh = P[p].fresh /\ r.ret = P[p].ret
      /\ r.vp = v /\ r.pc = "vinval"
  BY <1>1 DEF ProcRec, At
<1>5. /\ Hand(P[p]) <=> P[p].pc = "vclean"
      /\ P[p].pc = "vclean" => /\ P[p].ret = "getnewvnode" /\ c.hashlock = p /\ Hand(r)
                               /\ x.use = 0 /\ x.deadb
      /\ P[p].pc = "leaving" => P[p].ret # "getnewvnode" /\ ~Hand(r)
  BY <1>2, <1>3, <1>4 DEF AtPlace, AtVnode, Hand, Leaving
<1>6. x.use = 0 /\ x.id # 0 /\ x.locked = NoProc
  BY <1>2, <1>3, <1>5 DEF VnodeOK
<1>7. /\ d \in World /\ RestIs(c, d) /\ (\A u \in Vnode : u # v => d.vn[u] = c.vn[u]) /\ d.wake = c.wake
      /\ y.use = x.use /\ y.ino = x.ino /\ y.live = x.live /\ y.bad = x.bad /\ y.vxwant = x.vxwant
      /\ y.deadb = x.deadb /\ y.id = x.id /\ y.wanted = x.wanted /\ y.mode = x.mode /\ y.nlink = x.nlink /\ y.vx
      /\ y.locked = IF x.live THEN p ELSE NoProc
  <2>1. /\ Only(c, e, v) /\ ButLock(x, e.vn[v]) /\ e.wake = c.wake /\ e.vn[v].wanted = x.wanted
        /\ e.vn[v].locked = IF x.live THEN p ELSE NoProc
    <3>1. CASE x.live
      <4>1. e = Locked(c, v, p)
        BY <3>1
      <4> QED
        BY <1>1, <3>1, <4>1, LockIs
    <3>2. CASE ~x.live
      <4>1. e = c
        BY <3>2
      <4> QED
        BY <1>1, <1>6, <3>2, <4>1 DEF Only, RestIs, ButLock
    <3> QED
      BY <3>1, <3>2
  <2>2. e \in World
    BY <2>1 DEF Only
  <2> DEFINE z == e.vn[v]
  <2>3. /\ Only(e, d, v) /\ d.wake = e.wake /\ y.vx
        /\ y.use = z.use /\ y.ino = z.ino /\ y.live = z.live /\ y.bad = z.bad /\ y.vxwant = z.vxwant
        /\ y.deadb = z.deadb /\ y.id = z.id /\ y.locked = z.locked /\ y.wanted = z.wanted /\ y.mode = z.mode
        /\ y.nlink = z.nlink
    BY <2>2, CleanedIs
  <2> HIDE DEF y, z
  <2>4. d \in World /\ RestIs(c, d) /\ (\A u \in Vnode : u # v => d.vn[u] = c.vn[u]) /\ d.wake = c.wake
    BY <2>1, <2>3 DEF Only, RestIs
  <2> QED
    BY <2>1, <2>3, <2>4 DEF ButLock, z
<1>8. Beyond(c, d, p, v)
  BY <1>7, OnlyBeyond DEF Only
<1> HIDE DEF y
<1>9. VnodeOK(y)
  BY <1>3, <1>6, <1>7 DEF VnodeOK
<1>10. r.pc \in Locking /\ r.pc \in Ending /\ r.pc \in Placed /\ r.pc \notin Referring \cup Using
  BY <1>4 DEF Locking, Referring, Using, Ending, Placed
<1>11. Turn(x, y, p, P[p], r)
  <2>1. y.mode => x.mode /\ y.ino = x.ino /\ y.nlink = x.nlink
    BY <1>7
  <2>2. (x.mode => y.mode) /\ y.use = x.use /\ y.locked \in {NoProc, p}
    BY <1>7
  <2>3. P[p].pc \notin Referring \cup {"inactive"}
    BY <1>2
  <2> QED
    BY <1>4, <1>9, <1>10, <2>1, <2>2, <2>3 DEF Turn
<1>12. ASSUME NEW q \in Proc, q # p, P[q].pc \in Placed, P[q].vp = v
       PROVE  P[q].pc \in {"vclean", "vgonewait"} /\ P[p].pc # "vclean"
  <2>1. AtVnode(x, q, P[q], W[q], c.wake) /\ AtPlace(c, q, P[q])
    BY <1>12 DEF State
  <2>2. P[q].pc \notin Referring
    BY <1>3, <1>6, <1>12, UsersCounted DEF Owned
  <2>3. P[q].pc \notin Ending
    BY <1>6, <2>1, VnodesAssumption DEF Ending, AtVnode
  <2>4. P[q].pc \in {"vclean", "vgonewait"}
    BY <1>12, <2>2, <2>3 DEF Placed
  <2> QED
    BY <1>5, <1>12, <2>1, <2>4 DEF AtPlace, Hand
<1>13. Others(d, P, W, p, v, P[p], r)
  <2>1. ASSUME NEW q \in Proc, q # p PROVE Asleep(d, v, W[q])
    <3>1. Asleep(c, v, W[q])
      BY DEF State
    <3> QED
      BY <1>6, <1>7, <3>1 DEF Asleep, BeingCleaned, y
  <2>2. ASSUME NEW q \in Proc, q # p, P[q].pc \in Placed, P[q].vp = v
        PROVE  AtVnode(y, q, P[q], W[q], d.wake)
    <3>1. AtVnode(x, q, P[q], W[q], c.wake) /\ P[q].pc \in {"vclean", "vgonewait"} /\ P[p].pc = "leaving"
      BY <1>2, <1>12, <2>2 DEF State
    <3>2. P[q].pc = "vclean"
      BY <1>2, <3>1 DEF AtVnode
    <3> QED
      BY <1>7, <3>1, <3>2 DEF AtVnode, Hand
  <2>3. \A q \in Proc : q # p /\ P[q].vp = v => P[q].pc \notin Ending \cup Using
    BY <1>12 DEF Ending, Using, Placed, Referring
  <2> QED
    BY <1>10, <2>1, <2>2, <2>3 DEF Others, y
<1>14. AtPlace(d, p, r)
  <2>1. AtPlace(d, p, P[p])
    <3>1. \A u \in Vnode : d.vn[u].ino = c.vn[u].ino /\ d.vn[u].mode = c.vn[u].mode
      BY <1>7 DEF y
    <3> QED
      BY <1>3, <1>7, <3>1, SamePlace DEF RestIs
  <2> QED
    BY <1>2, <1>4, <1>5, <1>10, <2>1 DEF AtPlace, HasDir, Hand, Searching, Leaving, Fresh, Placed, Ending
<1>15. AtVnode(y, p, r, NoChan, d.wake)
  BY <1>2, <1>4, <1>5, <1>7 DEF AtVnode, Hand
<1>16. (Fresh(P[p]) <=> Fresh(r)) /\ (Fresh(r) => r.ino = P[p].ino)
  BY <1>2, <1>4, <1>5 DEF Fresh, Searching, Hand
<1>17. In(d.free, v) <=> y.id # 0 /\ y.use = 0 /\ ~y.deadb
  BY <1>3, <1>7 DEF Owned, RestIs
<1> QED
  BY <1>4, <1>8, <1>11, <1>13, <1>14, <1>15, <1>16, <1>17, Turns DEF y
(* Another number for the vnode.                                            *)
Renumbered(c, v, i) == [c EXCEPT !.vn[v].id = i]

LEMMA RenumberedIs ==
  ASSUME NEW c \in World, NEW v \in Vnode, NEW i \in 1 .. IdMod - 1, NEW d, d = Renumbered(c, v, i),
         NEW x, x = c.vn[v], NEW y, y = d.vn[v]
  PROVE  /\ Only(c, d, v) /\ d.wake = c.wake /\ y.id = i
         /\ y.use = x.use /\ y.ino = x.ino /\ y.live = x.live /\ y.bad = x.bad /\ y.vx = x.vx
         /\ y.vxwant = x.vxwant /\ y.deadb = x.deadb /\ y.locked = x.locked /\ y.wanted = x.wanted
         /\ y.mode = x.mode /\ y.nlink = x.nlink
<1> DEFINE z == [x EXCEPT !.id = i]
<1>1. x \in VnodeRec /\ i \in 0 .. IdMod - 1
  BY WorldType
<1>2. /\ z \in VnodeRec /\ z.id = i
      /\ z.use = x.use /\ z.ino = x.ino /\ z.live = x.live /\ z.bad = x.bad /\ z.vx = x.vx
      /\ z.vxwant = x.vxwant /\ z.deadb = x.deadb /\ z.locked = x.locked /\ z.wanted = x.wanted
      /\ z.mode = x.mode /\ z.nlink = x.nlink
  BY <1>1 DEF VnodeRec
<1>3. [c EXCEPT !.vn[v].id = i] = [c EXCEPT !.vn = [c.vn EXCEPT ![v] = z]]
  BY Zenon
<1> HIDE DEF z
<1>4. d \in World /\ Becomes(c, d, v, z) /\ RestIs(c, d) /\ d.wake = c.wake
  BY <1>2, <1>3, WithIs DEF Renumbered
<1> QED
  BY <1>2, <1>4 DEF Only, Becomes

(* The entries of the last round of numbers match nothing.                  *)
Cleared(s) == [i \in DOMAIN s |-> [s[i] EXCEPT !.vpid = 0, !.dvpid = 0]]

LEMMA ClearedIs ==
  ASSUME NEW s \in Seq(Entry)
  PROVE  Cleared(s) \in Seq(Entry) /\ Len(Cleared(s)) = Len(s) /\ Entries(Cleared(s))
<1> DEFINE t == Cleared(s)
           N == Len(s)
<1>1. N \in Nat /\ DOMAIN s = 1 .. N /\ \A i \in 1 .. N : s[i] \in Entry
  OBVIOUS
<1>2. t = [i \in 1 .. N |-> [s[i] EXCEPT !.vpid = 0, !.dvpid = 0]]
  BY <1>1 DEF Cleared
<1> HIDE DEF N
<1>3. ASSUME NEW i \in 1 .. N PROVE t[i] \in Entry /\ t[i].dvpid = 0
  <2>1. t[i] = [[s[i] EXCEPT !.vpid = 0] EXCEPT !.dvpid = 0]
    BY <1>2
  <2>2. s[i] \in Entry /\ 0 \in 0 .. IdMod - 1
    BY <1>1, NameCacheAssumption
  <2> QED
    BY <2>1, <2>2 DEF Entry
<1>4. t \in Seq(Entry) /\ Len(t) = N
  <2>1. t \in [1 .. N -> Entry]
    BY <1>2, <1>3
  <2> QED
    BY <1>1, <2>1
<1>5. DirId # 0
  BY NameCacheAssumption
<1> QED
  BY <1>3, <1>4, <1>5 DEF N, Entries

(* cache_purge()                                                            *)
LEMMA PurgeIs ==
  ASSUME NEW c \in World, NEW v \in Vnode, Entries(c.nc), NEW d, d = cache_purge(c, v),
         NEW x, x = c.vn[v], NEW y, y = d.vn[v]
  PROVE  /\ d \in World /\ Entries(d.nc) /\ Len(d.nc) = Len(c.nc)
         /\ d.free = c.free /\ d.dir = c.dir /\ d.dirlock = c.dirlock /\ d.hashlock = c.hashlock
         /\ d.alloc = c.alloc /\ d.panicked = c.panicked /\ d.wake = c.wake
         /\ \A u \in Vnode : u # v => d.vn[u] = c.vn[u]
         /\ y.use = x.use /\ y.ino = x.ino /\ y.live = x.live /\ y.bad = x.bad /\ y.vx = x.vx
         /\ y.vxwant = x.vxwant /\ y.deadb = x.deadb /\ y.locked = x.locked /\ y.wanted = x.wanted
         /\ y.mode = x.mode /\ y.nlink = x.nlink
         /\ y.id # 0
<1> DEFINE id == (c.nextid + 1) % IdMod
           n == IF id # 0 THEN id ELSE 1
           s == IF id # 0 THEN c.nc ELSE Cleared(c.nc)
           e == Renumbered(c, v, n)
<1>1. n \in 1 .. IdMod - 1
  <2>1. c.nextid \in Nat /\ IdMod \in Nat /\ IdMod >= 2
    BY WorldType, NameCacheAssumption
  <2>2. id \in 0 .. IdMod - 1
    BY <2>1
  <2> QED
    BY <2>1, <2>2
<1>2. s \in Seq(Entry) /\ Entries(s) /\ Len(s) = Len(c.nc)
  BY WorldType, ClearedIs
<1>3. d = [[e EXCEPT !.nextid = n] EXCEPT !.nc = s]
  BY DEF cache_purge, Renumbered, Cleared, World
<1>4. e = Renumbered(c, v, n)
  OBVIOUS
<1> HIDE DEF n, s, e
<1> DEFINE z == e.vn[v]
<1>5. /\ Only(c, e, v) /\ e.wake = c.wake /\ z.id = n
      /\ z.use = x.use /\ z.ino = x.ino /\ z.live = x.live /\ z.bad = x.bad /\ z.vx = x.vx
      /\ z.vxwant = x.vxwant /\ z.deadb = x.deadb /\ z.locked = x.locked /\ z.wanted = x.wanted
      /\ z.mode = x.mode /\ z.nlink = x.nlink
  BY <1>1, <1>4, RenumberedIs
<1>6. /\ d \in World /\ d.nc = s /\ d.vn = e.vn /\ d.free = e.free /\ d.dir = e.dir /\ d.dirlock = e.dirlock
      /\ d.hashlock = e.hashlock /\ d.alloc = e.alloc /\ d.panicked = e.panicked /\ d.wake = e.wake
  <2>1. e \in World
    BY <1>5 DEF Only
  <2> QED
    BY <1>1, <1>2, <1>3, <2>1 DEF World
<1>7. /\ d.free = c.free /\ d.dir = c.dir /\ d.dirlock = c.dirlock /\ d.hashlock = c.hashlock
      /\ d.alloc = c.alloc /\ d.panicked = c.panicked /\ d.wake = c.wake
      /\ \A u \in Vnode : u # v => d.vn[u] = c.vn[u]
  BY <1>5, <1>6 DEF Only, RestIs
<1>8. y = z
  BY <1>6
<1> HIDE DEF z
<1> QED
  BY <1>1, <1>2, <1>5, <1>6, <1>7, <1>8
(* The vnode without its inode.                                             *)
Dead(x) == [x EXCEPT !.ino = NoIno, !.live = FALSE, !.bad = TRUE, !.vx = FALSE, !.vxwant = FALSE,
                     !.mode = FALSE, !.nlink = 0]

(* The same vnodes are on the free list.                                    *)
SameList(c, d) == Once(d.free) /\ \A u : In(d.free, u) <=> In(c.free, u)

(* The end of vclean() and vgone().                                         *)
LEMMA ReclaimIs ==
  ASSUME NEW c \in World, NEW v \in Vnode, Entries(c.nc), Once(c.free), NEW d, d = Reclaim(c, v),
         NEW x, x = c.vn[v], NEW y, y = d.vn[v], x.id # 0, ~x.live => x.locked = NoProc,
         In(c.free, v) <=> x.use = 0 /\ ~x.deadb
  PROVE  /\ d \in World /\ Entries(d.nc) /\ Len(d.nc) = Len(c.nc) /\ SameList(c, d)
         /\ d.dir = c.dir /\ d.dirlock = c.dirlock /\ d.hashlock = c.hashlock
         /\ d.alloc = c.alloc /\ d.panicked = c.panicked
         /\ c.wake \subseteq d.wake /\ d.wake \subseteq c.wake \cup {Ip(v), Vp(v)}
         /\ x.live /\ x.wanted => Ip(v) \in d.wake
         /\ x.vxwant => Vp(v) \in d.wake
         /\ \A u \in Vnode : d.vn[u] = c.vn[u] \/ u = v
         /\ y.use = x.use /\ y.deadb = x.deadb /\ y.ino = NoIno /\ ~y.live /\ y.bad /\ ~y.vx /\ ~y.vxwant
         /\ ~y.mode /\ y.nlink = 0 /\ y.locked = NoProc /\ y.id # 0
<1> DEFINE u1 == Unlock(c, v)
           a == IF x.live THEN cache_purge(u1, v) ELSE c
           z == a.vn[v]
           b == [a EXCEPT !.vn = [a.vn EXCEPT ![v] = Dead(z)]]
           w == IF z.vxwant THEN a.wake \cup {Vp(v)} ELSE a.wake
           e == [b EXCEPT !.wake = w]
           f == <<v>> \o Removed(a.free, v)
<1>1. x \in VnodeRec
  BY WorldType
<1>2. /\ u1 \in World /\ RestIs(c, u1) /\ ButLock(x, u1.vn[v])
      /\ \A u \in Vnode : u # v => u1.vn[u] = c.vn[u]
      /\ c.wake \subseteq u1.wake /\ u1.wake \subseteq c.wake \cup {Ip(v)}
      /\ x.live => u1.vn[v].locked = NoProc /\ (x.wanted => Ip(v) \in u1.wake)
  <2>1. u1 = Unlock(c, v)
    OBVIOUS
  <2> HIDE DEF u1
  <2> QED
    BY <2>1, UnlockIs DEF Only
<1> HIDE DEF u1
<1>3. /\ a \in World /\ Entries(a.nc) /\ Len(a.nc) = Len(c.nc) /\ a.free = c.free
      /\ a.dir = c.dir /\ a.dirlock = c.dirlock /\ a.hashlock = c.hashlock
      /\ a.alloc = c.alloc /\ a.panicked = c.panicked
      /\ c.wake \subseteq a.wake /\ a.wake \subseteq c.wake \cup {Ip(v)}
      /\ x.live /\ x.wanted => Ip(v) \in a.wake
      /\ \A u \in Vnode : u # v => a.vn[u] = c.vn[u]
      /\ z.use = x.use /\ z.deadb = x.deadb /\ z.vxwant = x.vxwant /\ z.locked = NoProc /\ z.id # 0
  <2>1. CASE ~x.live
    <3>1. a = c
      BY <2>1
    <3> QED
      BY <2>1, <3>1
  <2>2. CASE x.live
    <3>1. a = cache_purge(u1, v)
      BY <2>2
    <3> HIDE DEF a
    <3>2. /\ a \in World /\ Entries(a.nc) /\ Len(a.nc) = Len(u1.nc) /\ a.free = u1.free
          /\ a.dir = u1.dir /\ a.dirlock = u1.dirlock /\ a.hashlock = u1.hashlock
          /\ a.alloc = u1.alloc /\ a.panicked = u1.panicked /\ a.wake = u1.wake
          /\ \A u \in Vnode : u # v => a.vn[u] = u1.vn[u]
          /\ z.use = u1.vn[v].use /\ z.deadb = u1.vn[v].deadb /\ z.vxwant = u1.vn[v].vxwant
          /\ z.locked = u1.vn[v].locked /\ z.id # 0
      <4>1. u1 \in World /\ Entries(u1.nc)
        BY <1>2 DEF RestIs
      <4> QED
        BY <3>1, <4>1, PurgeIs
    <3> QED
      BY <1>2, <2>2, <3>2 DEF RestIs, ButLock
  <2> QED
    BY <2>1, <2>2
<1>4. d = IF z.use = 0 /\ ~z.deadb THEN [e EXCEPT !.free = f] ELSE e
  <2> DEFINE g == [a EXCEPT !.vn[v] = [@ EXCEPT !.ino = NoIno, !.live = FALSE, !.bad = TRUE, !.vx = FALSE,
                                                !.vxwant = FALSE, !.mode = FALSE, !.nlink = 0],
                            !.wake = IF z.vxwant THEN @ \cup {Vp(v)} ELSE @]
  <2>1. g = e
    BY <1>3 DEF World, Dead
  <2>2. e.free = a.free
    BY <1>3 DEF World
  <2>3. d = IF z.use = 0 /\ ~z.deadb THEN [g EXCEPT !.free = <<v>> \o Removed(@, v)] ELSE g
    BY DEF Reclaim, u1
  <2> HIDE DEF a, e, g
  <2> QED
    BY <2>1, <2>2, <2>3
<1> HIDE DEF a
<1>5. z \in VnodeRec
  BY <1>3, WorldType
<1>6. /\ Dead(z) \in VnodeRec /\ Dead(z).use = z.use /\ Dead(z).deadb = z.deadb /\ Dead(z).ino = NoIno
      /\ ~Dead(z).live /\ Dead(z).bad /\ ~Dead(z).vx /\ ~Dead(z).vxwant /\ ~Dead(z).mode /\ Dead(z).nlink = 0
      /\ Dead(z).locked = z.locked /\ Dead(z).id = z.id
  BY <1>5 DEF VnodeRec, Dead
<1>7. b \in World /\ Becomes(a, b, v, Dead(z)) /\ RestIs(a, b) /\ b.wake = a.wake
  BY <1>3, <1>6, WithIs
<1> HIDE DEF z, b
<1>8. e \in World /\ e.wake = w /\ e.vn = b.vn /\ RestIs(b, e)
  <2>1. w \in SUBSET Chan
    BY <1>3, WorldType DEF Chan
  <2> HIDE DEF w
  <2> QED
    BY <1>7, <2>1 DEF World, RestIs
<1>9. CASE ~(z.use = 0 /\ ~z.deadb)
  <2>1. d = e
    BY <1>4, <1>9
  <2> HIDE DEF e, w
  <2>2. w = IF z.vxwant THEN a.wake \cup {Vp(v)} ELSE a.wake
    BY DEF w
  <2> QED
    BY <1>3, <1>6, <1>7, <1>8, <2>1, <2>2 DEF RestIs, Becomes, SameList
<1>10. CASE z.use = 0 /\ ~z.deadb
  <2>1. d = [e EXCEPT !.free = f]
    BY <1>4, <1>10
  <2>2. f \in Seq(Vnode) /\ Once(f) /\ \A u : In(f, u) <=> In(c.free, u)
    <3>1. a.free \in Seq(Vnode) /\ Once(a.free) /\ a.free = c.free
      BY <1>3, WorldType
    <3> DEFINE g == Removed(a.free, v)
    <3>2. g \in Seq(Vnode) /\ Once(g) /\ \A u : In(g, u) <=> In(a.free, u) /\ u # v
      BY <3>1, RemovedList
    <3> HIDE DEF g
    <3>3. f = <<v>> \o g
      BY DEF g
    <3>4. In(c.free, v)
      BY <1>3, <1>10
    <3> HIDE DEF f
    <3>5. f \in Seq(Vnode) /\ Once(f) /\ \A u : In(f, u) <=> In(g, u) \/ u = v
      BY <3>2, <3>3, HeadList
    <3> QED
      BY <3>1, <3>2, <3>4, <3>5
  <2> HIDE DEF e, w, f
  <2>3. /\ d \in World /\ d.free = f /\ d.vn = e.vn /\ d.nc = e.nc /\ d.nextid = e.nextid
        /\ d.dir = e.dir /\ d.dirlock = e.dirlock /\ d.hashlock = e.hashlock
        /\ d.alloc = e.alloc /\ d.panicked = e.panicked /\ d.wake = e.wake
    BY <1>8, <2>1, <2>2 DEF World
  <2>4. w = IF z.vxwant THEN a.wake \cup {Vp(v)} ELSE a.wake
    BY DEF w
  <2>5. /\ d.nc = a.nc /\ d.dir = c.dir /\ d.dirlock = c.dirlock /\ d.hashlock = c.hashlock
        /\ d.alloc = c.alloc /\ d.panicked = c.panicked /\ d.wake = w
        /\ y = Dead(z) /\ \A u \in Vnode : u # v => d.vn[u] = a.vn[u]
    BY <1>3, <1>7, <1>8, <2>3 DEF RestIs, Becomes
  <2> QED
    BY <1>3, <1>6, <2>2, <2>3, <2>4, <2>5 DEF SameList
<1> QED
  BY <1>9, <1>10
(* Nor on a vnode that loses its inode.                                     *)
LEMMA LessPlace ==
  ASSUME NEW c, NEW d, NEW p, NEW r,
         d.dir = c.dir, d.dirlock = c.dirlock, d.hashlock = c.hashlock, d.alloc = c.alloc,
         \A u \in Vnode : d.vn[u] = c.vn[u] \/ (d.vn[u].ino = NoIno /\ ~d.vn[u].mode),
         AtPlace(c, p, r)
  PROVE  AtPlace(d, p, r)
<1>1. Hand(r) => \A u \in Vnode : d.vn[u].ino # r.ino
  BY VnodesAssumption DEF AtPlace, Searching
<1>2. Fresh(r) => \A u \in Vnode : d.vn[u].ino = r.ino => ~d.vn[u].mode
  BY DEF AtPlace
<1> QED
  BY <1>1, <1>2 DEF AtPlace, HasDir, Linked

(* The vnode v is ready to become that of the inode i, in the hands of p.   *)
Clear(c, W, p, v, i) ==
  /\ c.vn[v].use = 0 /\ ~c.vn[v].live /\ ~c.vn[v].vx /\ ~In(c.free, v)
  /\ c.hashlock = p /\ \A u \in Vnode : c.vn[u].ino # i
  /\ \A q \in Proc : W[q] = Ip(v) => Ip(v) \in c.wake

(* p has cleaned v.                                                         *)
LEMMA Reclaims ==
  ASSUME NEW c, NEW P, NEW W, State(c, P, W), NEW p \in Proc, NEW v \in Vnode, NEW r \in ProcRec, NEW d,
         W[p] = NoChan, P[p].vp = v, P[p].pc = "vinval", d = Reclaim(c, v),
         r = At(P[p], IF P[p].ret = "getnewvnode" THEN "hashwait" ELSE "leaving")
  PROVE  /\ State(d, [P EXCEPT ![p] = r], W)
         /\ P[p].ret = "getnewvnode" => Clear(d, W, p, v, r.ino)
<1> DEFINE x == c.vn[v]
           y == d.vn[v]
<1>1. /\ c \in World /\ P \in [Proc -> ProcRec] /\ W \in [Proc -> Chan \cup {NoChan}] /\ x \in VnodeRec
      /\ P[p] \in ProcRec /\ Once(c.free) /\ ~c.panicked /\ Entries(c.nc) /\ Len(c.nc) <= NameCacheSize
  BY WorldType DEF State, Types
<1>2. P[p].pc \in Placed /\ P[p].pc \in Ending /\ P[p].pc \notin Referring \cup Using \cup {"inactive"}
  BY DEF Placed, Referring, Using, Ending
<1>3. VnodeOK(x) /\ Owned(c, P, v) /\ AtPlace(c, p, P[p]) /\ AtVnode(x, p, P[p], NoChan, c.wake)
  BY <1>2 DEF State
<1>4. x.vx /\ x.use = 0 /\ x.id # 0 /\ (~x.live => x.locked = NoProc) /\ (In(c.free, v) <=> x.use = 0 /\ ~x.deadb)
  BY <1>3 DEF VnodeOK, AtVnode, Owned
<1>5. /\ d \in World /\ Entries(d.nc) /\ Len(d.nc) = Len(c.nc) /\ SameList(c, d)
      /\ d.dir = c.dir /\ d.dirlock = c.dirlock /\ d.hashlock = c.hashlock
      /\ d.alloc = c.alloc /\ d.panicked = c.panicked
      /\ c.wake \subseteq d.wake /\ d.wake \subseteq c.wake \cup {Ip(v), Vp(v)}
      /\ x.live /\ x.wanted => Ip(v) \in d.wake
      /\ x.vxwant => Vp(v) \in d.wake
      /\ \A u \in Vnode : d.vn[u] = c.vn[u] \/ u = v
      /\ y.use = x.use /\ y.deadb = x.deadb /\ y.ino = NoIno /\ ~y.live /\ y.bad /\ ~y.vx /\ ~y.vxwant
      /\ ~y.mode /\ y.nlink = 0 /\ y.locked = NoProc /\ y.id # 0
  BY <1>1, <1>4, ReclaimIs
<1>6. /\ r.op = P[p].op /\ r.name = P[p].name /\ r.ino = P[p].ino /\ r.fresh = P[p].fresh /\ r.ret = P[p].ret
      /\ r.vp = v /\ r.pc = IF P[p].ret = "getnewvnode" THEN "hashwait" ELSE "leaving"
  BY <1>1 DEF ProcRec, At
<1>7. /\ Hand(P[p]) <=> P[p].ret = "getnewvnode"
      /\ Hand(P[p]) => c.hashlock = p /\ x.deadb /\ \A u \in Vnode : c.vn[u].ino # r.ino
      /\ ~Hand(r)
  BY <1>3, <1>6 DEF AtPlace, AtVnode, Hand
<1> HIDE DEF y
<1>8. r.pc \notin Placed
  BY <1>6 DEF Placed, Referring, Using, Ending
<1>9. Beyond(c, d, p, v)
  BY <1>1, <1>5 DEF Beyond, y, SameList
<1>10. \A q \in Proc : q # p /\ P[q].vp = v => P[q].pc \notin Ending \cup Using \cup Referring
  <2>1. \A q \in Proc : P[q].vp = v => P[q].pc \notin Referring
    <3> SUFFICES ASSUME NEW q \in Proc, P[q].vp = v PROVE P[q].pc \notin Referring
      OBVIOUS
    <3> QED
      BY <1>3, <1>4, UsersCounted DEF Owned
  <2>2. \A q \in Proc : q # p /\ P[q].vp = v => P[q].pc \notin Ending
    BY <1>2 DEF State, Apart
  <2> QED
    BY <2>1, <2>2 DEF Referring
<1>11. x.mode => x.nlink = 1
  BY <1>1, <1>2, <1>3, <1>10, VnodeType DEF Owned, Ending
<1>12. Turn(x, y, p, P[p], r)
  <2>1. VnodeOK(y)
    BY <1>4, <1>5 DEF VnodeOK
  <2>2. r.pc \notin Referring
    BY <1>8 DEF Placed
  <2> QED
    BY <1>2, <1>5, <1>11, <2>1, <2>2 DEF Turn
<1>13. ASSUME NEW q \in Proc PROVE Asleep(d, v, W[q]) /\ (W[q] = Ip(v) => Ip(v) \in d.wake)
  <2>1. Asleep(c, v, W[q])
    BY DEF State
  <2>2. W[q] = Ip(v) => Ip(v) \in d.wake
    BY <1>4, <1>5, <2>1 DEF Asleep
  <2> QED
    BY <2>2 DEF Asleep
<1>14. Others(d, P, W, p, v, P[p], r)
  <2>1. ASSUME NEW q \in Proc, q # p, P[q].pc \in Placed, P[q].vp = v
        PROVE  AtVnode(y, q, P[q], W[q], d.wake)
    <3>1. AtVnode(x, q, P[q], W[q], c.wake)
      BY <2>1 DEF State
    <3>2. P[q].pc \in {"vclean", "vgonewait"}
      BY <1>10, <2>1 DEF Placed
    <3> QED
      BY <1>5, <3>1, <3>2 DEF AtVnode, Hand
  <2>2. r.pc \notin Ending /\ r.pc \notin Using
    BY <1>8 DEF Placed, Referring
  <2> QED
    BY <1>13, <2>1, <2>2 DEF Others, y
<1>15. AtPlace(d, p, r)
  <2>1. \A u \in Vnode : d.vn[u] = c.vn[u] \/ (d.vn[u].ino = NoIno /\ ~d.vn[u].mode)
    BY <1>5 DEF y
  <2>2. AtPlace(d, p, P[p])
    BY <1>3, <1>5, <2>1, LessPlace
  <2> QED
    BY <1>2, <1>6, <1>7, <1>8, <2>2 DEF AtPlace, HasDir, Hand, Searching, Leaving, Fresh, Ending
<1>16. (Fresh(P[p]) <=> Fresh(r)) /\ (Fresh(r) => r.ino = P[p].ino)
  BY <1>6, <1>7 DEF Fresh, Searching, Hand
<1>17. In(d.free, v) <=> y.id # 0 /\ y.use = 0 /\ ~y.deadb
  BY <1>4, <1>5 DEF SameList
<1>18. State(d, [P EXCEPT ![p] = r], W)
  BY <1>6, <1>8, <1>9, <1>12, <1>14, <1>15, <1>16, <1>17, Turns DEF y
<1>19. P[p].ret = "getnewvnode" => Clear(d, W, p, v, r.ino)
  <2> SUFFICES ASSUME P[p].ret = "getnewvnode" PROVE Clear(d, W, p, v, r.ino)
    OBVIOUS
  <2>1. r.ino # NoIno
    BY <1>3, <1>6, <1>7, VnodesAssumption DEF AtPlace, Searching
  <2>2. \A u \in Vnode : d.vn[u].ino # r.ino
    BY <1>5, <1>7, <2>1 DEF y
  <2> QED
    BY <1>4, <1>5, <1>7, <1>13, <1>17, <2>2 DEF Clear, y
<1> QED
  BY <1>18, <1>19
(* A new life for v.                                                        *)
Renewed(c, p, v, i) ==
  [cache_purge([c EXCEPT !.vn[v] = [Unborn EXCEPT !.use = 1, !.live = TRUE, !.id = c.vn[v].id,
                                                  !.ino = i, !.locked = p]], v)
     EXCEPT !.panicked = (c.vn[v].ino # NoIno), !.hashlock = NoProc]

LEMMA RenewedIs ==
  ASSUME NEW c \in World, NEW v \in Vnode, NEW p \in Proc, NEW i \in Ino, Entries(c.nc), c.vn[v].ino = NoIno,
         NEW d, d = Renewed(c, p, v, i), NEW y, y = d.vn[v]
  PROVE  /\ d \in World /\ Entries(d.nc) /\ Len(d.nc) = Len(c.nc) /\ d.free = c.free /\ d.dir = c.dir
         /\ d.dirlock = c.dirlock /\ d.hashlock = NoProc /\ d.alloc = c.alloc /\ ~d.panicked /\ d.wake = c.wake
         /\ \A u \in Vnode : u # v => d.vn[u] = c.vn[u]
         /\ y.use = 1 /\ y.ino = i /\ y.live /\ ~y.bad /\ ~y.vx /\ ~y.vxwant /\ ~y.deadb /\ y.id # 0
         /\ y.locked = p /\ ~y.wanted /\ ~y.mode /\ y.nlink = 0
<1> DEFINE z == [Unborn EXCEPT !.use = 1, !.live = TRUE, !.id = c.vn[v].id, !.ino = i, !.locked = p]
           a == [c EXCEPT !.vn = [c.vn EXCEPT ![v] = z]]
           b == cache_purge(a, v)
<1>1. /\ z \in VnodeRec
      /\ z.use = 1 /\ z.ino = i /\ z.live /\ ~z.bad /\ ~z.vx /\ ~z.vxwant /\ ~z.deadb
      /\ z.locked = p /\ ~z.wanted /\ ~z.mode /\ z.nlink = 0
  <2>1. c.vn[v].id \in 0 .. IdMod - 1
    BY WorldType, VnodeType
  <2> QED
    BY <2>1 DEF Unborn, VnodeRec
<1>2. d = [b EXCEPT !.panicked = FALSE, !.hashlock = NoProc]
  <2>1. [c EXCEPT !.vn[v] = z] = a
    OBVIOUS
  <2>2. d = [cache_purge([c EXCEPT !.vn[v] = z], v) EXCEPT !.panicked = FALSE, !.hashlock = NoProc]
    BY DEF Renewed
  <2> HIDE DEF z, a
  <2> QED
    BY <2>1, <2>2
<1> HIDE DEF z
<1>3. a \in World /\ Becomes(c, a, v, z) /\ RestIs(c, a) /\ a.wake = c.wake
  BY <1>1, WithIs
<1>4. b = cache_purge(a, v)
  OBVIOUS
<1> HIDE DEF a, b
<1> DEFINE x == a.vn[v]
           w == b.vn[v]
<1>5. /\ b \in World /\ Entries(b.nc) /\ Len(b.nc) = Len(a.nc)
      /\ b.free = a.free /\ b.dir = a.dir /\ b.dirlock = a.dirlock /\ b.hashlock = a.hashlock
      /\ b.alloc = a.alloc /\ b.panicked = a.panicked /\ b.wake = a.wake
      /\ \A u \in Vnode : u # v => b.vn[u] = a.vn[u]
      /\ w.use = x.use /\ w.ino = x.ino /\ w.live = x.live /\ w.bad = x.bad /\ w.vx = x.vx
      /\ w.vxwant = x.vxwant /\ w.deadb = x.deadb /\ w.locked = x.locked /\ w.wanted = x.wanted
      /\ w.mode = x.mode /\ w.nlink = x.nlink
      /\ w.id # 0
  <2>1. a \in World /\ Entries(a.nc)
    BY <1>3 DEF RestIs
  <2> QED
    BY <1>4, <2>1, PurgeIs
<1>6. /\ d \in World /\ d.nc = b.nc /\ d.vn = b.vn /\ d.free = b.free /\ d.dir = b.dir /\ d.dirlock = b.dirlock
      /\ d.hashlock = NoProc /\ d.alloc = b.alloc /\ d.panicked = FALSE /\ d.wake = b.wake
  BY <1>2, <1>5 DEF World
<1>7. x = z /\ y = w
  BY <1>3, <1>6 DEF Becomes
<1>8. \A u \in Vnode : u # v => d.vn[u] = c.vn[u]
  BY <1>3, <1>5, <1>6 DEF Becomes
<1> HIDE DEF x, w
<1> QED
  BY <1>1, <1>3, <1>5, <1>6, <1>7, <1>8 DEF RestIs

(* getnewvnode() gives v to p.                                              *)
LEMMA Creates ==
  ASSUME NEW c, NEW P, NEW W, State(c, P, W), NEW p \in Proc, NEW v \in Vnode, NEW r \in ProcRec, NEW d,
         W[p] = NoChan, P[p].vp = v, P[p].pc = "hashwait", Clear(c, W, p, v, r.ino),
         r = At(P[p], "reading"), d = Renewed(c, p, v, r.ino)
  PROVE  State(d, [P EXCEPT ![p] = r], W)
<1> DEFINE x == c.vn[v]
           y == d.vn[v]
<1>1. /\ c \in World /\ P \in [Proc -> ProcRec] /\ W \in [Proc -> Chan \cup {NoChan}] /\ x \in VnodeRec
      /\ P[p] \in ProcRec /\ Once(c.free) /\ ~c.panicked /\ Entries(c.nc) /\ Len(c.nc) <= NameCacheSize
  BY WorldType DEF State, Types
<1>2. VnodeOK(x) /\ Owned(c, P, v) /\ AtPlace(c, p, P[p])
  BY DEF State
<1>3. /\ r.op = P[p].op /\ r.name = P[p].name /\ r.ino = P[p].ino /\ r.fresh = P[p].fresh /\ r.ret = P[p].ret
      /\ r.vp = v /\ r.pc = "reading"
  BY <1>1 DEF ProcRec, At
<1>4. r.ino \in Ino /\ x.ino = NoIno /\ x.use = 0 /\ ~x.live /\ ~x.mode
  BY <1>2, <1>3 DEF AtPlace, Searching, VnodeOK, Clear
<1>5. /\ d \in World /\ Entries(d.nc) /\ Len(d.nc) = Len(c.nc) /\ d.free = c.free /\ d.dir = c.dir
      /\ d.dirlock = c.dirlock /\ d.hashlock = NoProc /\ d.alloc = c.alloc /\ ~d.panicked /\ d.wake = c.wake
      /\ \A u \in Vnode : u # v => d.vn[u] = c.vn[u]
      /\ y.use = 1 /\ y.ino = r.ino /\ y.live /\ ~y.bad /\ ~y.vx /\ ~y.vxwant /\ ~y.deadb /\ y.id # 0
      /\ y.locked = p /\ ~y.wanted /\ ~y.mode /\ y.nlink = 0
  BY <1>1, <1>4, RenewedIs
<1> HIDE DEF y
<1>6. Beyond(c, d, p, v)
  BY <1>1, <1>5, VnodesAssumption DEF Beyond, Clear, y
<1>7. VnodeOK(y)
  BY <1>4, <1>5 DEF VnodeOK
<1>8. /\ P[p].pc \notin Referring \cup Using \cup Ending \cup Placed
      /\ r.pc \in Referring /\ r.pc \in Using /\ r.pc \in Locking /\ r.pc \notin Ending
  BY <1>3 DEF Referring, Using, Ending, Placed, Locking
<1>9. Turn(x, y, p, P[p], r)
  BY <1>4, <1>5, <1>7, <1>8 DEF Turn
<1>10. ASSUME NEW q \in Proc, q # p, P[q].vp = v PROVE P[q].pc \notin Placed
  <2> SUFFICES ASSUME P[q].pc \in Placed PROVE FALSE
    OBVIOUS
  <2>1. AtVnode(x, q, P[q], W[q], c.wake) /\ AtPlace(c, q, P[q])
    BY <1>10 DEF State
  <2>2. P[q].pc \notin Referring
    BY <1>2, <1>4, <1>10, UsersCounted DEF Owned
  <2>3. ~Hand(P[q])
    BY <1>10, <2>1 DEF AtPlace, Clear
  <2>4. P[q].pc \notin Ending
    BY <1>4, <2>1, <2>3 DEF Ending, AtVnode, Hand
  <2> QED
    BY <2>2, <2>3, <2>4 DEF Placed, Hand
<1>11. Others(d, P, W, p, v, P[p], r)
  <2>1. ASSUME NEW q \in Proc PROVE Asleep(d, v, W[q])
    BY <1>5 DEF Asleep, Clear
  <2> QED
    BY <1>8, <1>10, <2>1 DEF Others, Placed
<1>12. AtPlace(d, p, r)
  <2>1. Fresh(r) => /\ r.ino \in d.alloc /\ ~Linked(d, r.ino)
                    /\ \A u \in Vnode : d.vn[u].ino = r.ino => ~d.vn[u].mode
    BY <1>2, <1>3, <1>5 DEF AtPlace, Fresh, Searching, Hand, Linked, y
  <2> QED
    BY <1>1, <1>2, <1>3, <1>5, <2>1 DEF AtPlace, HasDir, Hand, Searching, Leaving, Ending
<1>13. AtVnode(y, p, r, NoChan, d.wake)
  BY <1>3, <1>5 DEF AtVnode, Hand
<1>14. (Fresh(P[p]) <=> Fresh(r)) /\ (Fresh(r) => r.ino = P[p].ino)
  BY <1>3 DEF Fresh, Searching, Hand
<1>15. In(d.free, v) <=> y.id # 0 /\ y.use = 0 /\ ~y.deadb
  BY <1>5 DEF Clear
<1> QED
  BY <1>3, <1>6, <1>8, <1>9, <1>11, <1>12, <1>13, <1>14, <1>15, Turns DEF y
(* The first of a list is taken off.                                        *)
LEMMA TailList ==
  ASSUME NEW s \in Seq(Vnode), Once(s), s # <<>>
  PROVE  /\ Head(s) \in Vnode /\ In(s, Head(s))
         /\ Tail(s) \in Seq(Vnode) /\ Once(Tail(s))
         /\ \A x : In(Tail(s), x) <=> In(s, x) /\ x # Head(s)
<1> DEFINE t == Tail(s)
           N == Len(s)
<1>1. N \in Nat /\ N >= 1 /\ s[1] = Head(s) /\ s[1] \in Vnode
  OBVIOUS
<1>2. t \in Seq(Vnode) /\ Len(t) = N - 1 /\ \A i \in 1 .. N - 1 : t[i] = s[i + 1]
  OBVIOUS
<1> HIDE DEF t, N
<1>3. \A i \in 1 .. N - 1 : i + 1 \in 1 .. N /\ i + 1 # 1
  BY <1>1
<1>4. Once(t)
  BY <1>1, <1>2, <1>3, Once(s) DEF Once, N
<1>5. In(s, Head(s))
  BY <1>1 DEF In, N
<1>6. ASSUME NEW x PROVE In(t, x) <=> In(s, x) /\ x # Head(s)
  <2>1. ASSUME In(t, x) PROVE In(s, x) /\ x # Head(s)
    <3>1. PICK i \in 1 .. N - 1 : s[i + 1] = x
      BY <1>2, <2>1 DEF In
    <3>2. i + 1 \in 1 .. N /\ i + 1 # 1 /\ 1 \in 1 .. N
      BY <1>1, <1>3
    <3> QED
      BY <1>1, <3>1, <3>2, Once(s) DEF In, Once, N
  <2>2. ASSUME In(s, x), x # Head(s) PROVE In(t, x)
    <3>1. PICK i \in 1 .. N : s[i] = x /\ i # 1
      BY <1>1, <2>2 DEF In, N
    <3>2. i - 1 \in 1 .. N - 1 /\ (i - 1) + 1 = i
      BY <1>1, <3>1
    <3>3. t[i - 1] = x
      BY <1>2, <3>1, <3>2
    <3> QED
      BY <1>2, <3>2, <3>3 DEF In
  <2> QED
    BY <2>1, <2>2
<1> QED
  BY <1>1, <1>2, <1>4, <1>5, <1>6 DEF t

(* The first free vnode is in somebody's hands.                             *)
Grabbed(c, v) == [c EXCEPT !.free = Tail(@), !.vn[v].deadb = TRUE]

LEMMA GrabbedIs ==
  ASSUME NEW c \in World, NEW v \in Vnode, Once(c.free), c.free # <<>>, v = Head(c.free),
         NEW d, d = Grabbed(c, v), NEW x, x = c.vn[v], NEW y, y = d.vn[v]
  PROVE  /\ OffList(c, d, v) /\ d \in World /\ d.nc = c.nc /\ d.dir = c.dir
         /\ d.dirlock = c.dirlock /\ d.hashlock = c.hashlock /\ d.alloc = c.alloc
         /\ d.panicked = c.panicked /\ d.wake = c.wake
         /\ \A u \in Vnode : u # v => d.vn[u] = c.vn[u]
         /\ y.use = x.use /\ y.ino = x.ino /\ y.live = x.live /\ y.bad = x.bad /\ y.vx = x.vx
         /\ y.vxwant = x.vxwant /\ y.id = x.id /\ y.locked = x.locked /\ y.wanted = x.wanted
         /\ y.mode = x.mode /\ y.nlink = x.nlink /\ y.deadb
<1> DEFINE z == [x EXCEPT !.deadb = TRUE]
           e == [c EXCEPT !.vn = [c.vn EXCEPT ![v] = z]]
           f == Tail(c.free)
<1>1. x \in VnodeRec /\ c.free \in Seq(Vnode)
  BY WorldType
<1>2. /\ z \in VnodeRec
      /\ z.use = x.use /\ z.ino = x.ino /\ z.live = x.live /\ z.bad = x.bad /\ z.vx = x.vx
      /\ z.vxwant = x.vxwant /\ z.id = x.id /\ z.locked = x.locked /\ z.wanted = x.wanted
      /\ z.mode = x.mode /\ z.nlink = x.nlink /\ z.deadb
  BY <1>1 DEF VnodeRec
<1>3. d = [e EXCEPT !.free = f]
  BY DEF Grabbed, World
<1>4. f \in Seq(Vnode) /\ Once(f) /\ \A u : In(f, u) <=> In(c.free, u) /\ u # v
  BY <1>1, TailList
<1> HIDE DEF z, f
<1>5. e \in World /\ Becomes(c, e, v, z) /\ RestIs(c, e) /\ e.wake = c.wake
  BY <1>2, WithIs
<1> HIDE DEF e
<1>6. /\ d \in World /\ d.free = f /\ d.vn = e.vn /\ d.nc = e.nc /\ d.dir = e.dir /\ d.dirlock = e.dirlock
      /\ d.hashlock = e.hashlock /\ d.alloc = e.alloc /\ d.panicked = e.panicked /\ d.wake = e.wake
  BY <1>3, <1>4, <1>5 DEF World
<1> QED
  BY <1>2, <1>4, <1>5, <1>6 DEF RestIs, Becomes, OffList
(* getnewvnode() takes v off the free list.                                 *)
Grabbing(a, v, r) ==
  \/ r = [a EXCEPT !.pc = "vclean", !.vp = v, !.ret = "getnewvnode"]
  \/ r = [a EXCEPT !.vp = v]

LEMMA Grabs ==
  ASSUME NEW c, NEW P, NEW W, State(c, P, W), NEW p \in Proc, NEW v, NEW r \in ProcRec, NEW d,
         W[p] = NoChan, P[p].pc = "hashwait", c.hashlock = p, \A u \in Vnode : c.vn[u].ino # P[p].ino,
         c.free # <<>>, v = Head(c.free), d = Grabbed(c, v), Grabbing(P[p], v, r)
  PROVE  /\ v \in Vnode /\ c.vn[v].use = 0 /\ State(d, [P EXCEPT ![p] = r], W)
         /\ c.vn[v].bad => Clear(d, W, p, v, r.ino)
<1> DEFINE x == c.vn[v]
           y == d.vn[v]
<1>1. /\ c \in World /\ P \in [Proc -> ProcRec] /\ W \in [Proc -> Chan \cup {NoChan}]
      /\ P[p] \in ProcRec /\ Once(c.free) /\ ~c.panicked /\ Entries(c.nc) /\ Len(c.nc) <= NameCacheSize
  BY DEF State, Types
<1>2. v \in Vnode /\ In(c.free, v)
  BY <1>1, WorldType, TailList
<1>3. VnodeOK(x) /\ Owned(c, P, v) /\ AtPlace(c, p, P[p]) /\ x \in VnodeRec
  BY <1>1, <1>2, WorldType DEF State
<1>4. x.id # 0 /\ x.use = 0 /\ ~x.deadb
  BY <1>2, <1>3 DEF Owned
<1>5. /\ OffList(c, d, v) /\ d \in World /\ d.nc = c.nc /\ d.dir = c.dir
      /\ d.dirlock = c.dirlock /\ d.hashlock = c.hashlock /\ d.alloc = c.alloc
      /\ d.panicked = c.panicked /\ d.wake = c.wake
      /\ \A u \in Vnode : u # v => d.vn[u] = c.vn[u]
      /\ y.use = x.use /\ y.ino = x.ino /\ y.live = x.live /\ y.bad = x.bad /\ y.vx = x.vx
      /\ y.vxwant = x.vxwant /\ y.id = x.id /\ y.locked = x.locked /\ y.wanted = x.wanted
      /\ y.mode = x.mode /\ y.nlink = x.nlink /\ y.deadb
  BY <1>1, <1>2, GrabbedIs, SMTT(40)
<1> HIDE DEF y
<1>6. /\ r.op = P[p].op /\ r.name = P[p].name /\ r.ino = P[p].ino /\ r.fresh = P[p].fresh
      /\ r.vp = v /\ r.pc \in {"hashwait", "vclean"} /\ (r.pc = "vclean" => r.ret = "getnewvnode")
  BY <1>1 DEF ProcRec, Grabbing
<1>7. /\ P[p].pc \notin Referring \cup Using \cup Ending \cup Placed \cup Locking \cup {"inactive"}
      /\ r.pc \notin Referring \cup Using \cup Ending
  BY <1>6 DEF Referring, Using, Ending, Placed, Locking
<1>8. Beyond(c, d, p, v)
  BY <1>1, <1>5 DEF Beyond, y, OffList
<1>9. VnodeOK(y)
  BY <1>3, <1>4, <1>5 DEF VnodeOK
<1>10. x.locked # p
  BY <1>3, <1>7, VnodesAssumption DEF Owned
<1>11. Turn(x, y, p, P[p], r)
  <2>1. y.vx => x.vx /\ P[p].pc # "vinval"
    BY <1>5, <1>7 DEF Ending
  <2> QED
    BY <1>5, <1>7, <1>9, <1>10, <2>1 DEF Turn
<1>12. ASSUME NEW q \in Proc PROVE Asleep(d, v, W[q])
  <2>1. Asleep(c, v, W[q])
    BY <1>2 DEF State
  <2> QED
    BY <1>5, <2>1 DEF Asleep, BeingCleaned, y
<1>13. ASSUME NEW q \in Proc, q # p, P[q].pc \in Placed, P[q].vp = v
       PROVE  AtVnode(x, q, P[q], W[q], c.wake) /\ AtVnode(y, q, P[q], W[q], d.wake) /\ ~Hand(P[q])
  <2>1. AtVnode(x, q, P[q], W[q], c.wake)
    BY <1>13 DEF State
  <2> QED
    BY <1>4, <1>5, <2>1 DEF AtVnode
<1>14. Others(d, P, W, p, v, P[p], r)
  BY <1>7, <1>12, <1>13 DEF Others, y
<1>15. AtPlace(d, p, r)
  <2>1. AtPlace(d, p, P[p])
    <3>1. \A u \in Vnode : d.vn[u].ino = c.vn[u].ino /\ d.vn[u].mode = c.vn[u].mode
      BY <1>5 DEF y
    <3> QED
      BY <1>3, <1>5, <3>1, SamePlace
  <2>2. \A u \in Vnode : d.vn[u].ino # r.ino
    BY <1>5, <1>6 DEF y
  <2>3. Searching(r) /\ Searching(P[p]) /\ (Fresh(r) <=> Fresh(P[p]))
    BY <1>6 DEF Fresh, Searching, Hand
  <2>4. /\ r.pc \notin Leaving /\ (r.pc \in Placed => r.pc = "vclean") /\ (Hand(r) => r.pc = "vclean")
        /\ r.pc \notin {"remove", "makeinode", "vgetlock", "vgetfail", "relock", "inactive", "update"}
    BY <1>6 DEF Leaving, Ending, Placed, Referring, Using, Hand
  <2>5. HasDir(d, p, r) <=> HasDir(d, p, P[p])
    BY <1>6 DEF HasDir
  <2>6. d.hashlock = p
    BY <1>5
  <2>7. Searching(r) => IF r.op = "handle" THEN ~r.fresh
                        ELSE /\ HasDir(d, p, r)
                             /\ IF r.fresh THEN r.op = "create" /\ d.dir[r.name] = NoIno
                                ELSE d.dir[r.name] = r.ino
    BY <1>6, <2>1, <2>3, <2>5 DEF AtPlace
  <2>8. r.ino \in Ino
    BY <1>6, <2>1, <2>3 DEF AtPlace
  <2>9. Fresh(r) => /\ r.ino \in d.alloc /\ ~Linked(d, r.ino)
                    /\ \A u \in Vnode : d.vn[u].ino = r.ino => ~d.vn[u].mode
    BY <1>6, <2>1, <2>3 DEF AtPlace
  <2> QED
    BY <1>2, <1>6, <2>2, <2>4, <2>6, <2>7, <2>8, <2>9 DEF AtPlace
<1>16. r.pc \in Placed => AtVnode(y, p, r, NoChan, d.wake)
  <2>1. r.pc \in Placed => r.pc = "vclean"
    BY <1>6 DEF Placed, Referring, Using, Ending
  <2> QED
    BY <1>4, <1>5, <2>1 DEF AtVnode
<1>17. (Fresh(P[p]) <=> Fresh(r)) /\ (Fresh(r) => r.ino = P[p].ino)
  BY <1>6 DEF Fresh, Searching, Hand
<1>18. In(d.free, v) <=> y.id # 0 /\ y.use = 0 /\ ~y.deadb
  BY <1>5 DEF OffList
<1>19. State(d, [P EXCEPT ![p] = r], W)
  BY <1>2, <1>6, <1>7, <1>8, <1>11, <1>14, <1>15, <1>16, <1>17, <1>18, Turns DEF y
<1>20. x.bad => Clear(d, W, p, v, r.ino)
  <2> SUFFICES ASSUME x.bad PROVE Clear(d, W, p, v, r.ino)
    OBVIOUS
  <2>1. ~x.live /\ x.locked = NoProc
    BY <1>3 DEF VnodeOK
  <2>2. ~x.vx
    <3> SUFFICES ASSUME x.vx PROVE FALSE
      OBVIOUS
    <3>1. PICK q \in Proc : P[q].vp = v /\ P[q].pc = "vinval"
      BY <1>3 DEF Owned
    <3>2. P[q].pc \in Placed /\ q # p
      BY <3>1 DEF Placed, Ending
    <3> QED
      BY <1>13, <2>1, <3>1, <3>2 DEF AtVnode, Hand
  <2>3. ASSUME NEW q \in Proc, W[q] = Ip(v) PROVE Ip(v) \in d.wake
    <3>1. Asleep(c, v, W[q])
      BY <1>2 DEF State
    <3> QED
      BY <1>5, <2>1, <2>3, <3>1 DEF Asleep
  <2>4. \A u \in Vnode : d.vn[u].ino # r.ino
    BY <1>5, <1>6 DEF y
  <2> QED
    BY <1>4, <1>5, <2>1, <2>2, <2>3, <2>4 DEF Clear, OffList, y
<1> QED
  BY <1>2, <1>4, <1>19, <1>20

(* A vnode that malloc() has not given is ready too.                        *)
LEMMA Unused ==
  ASSUME NEW c, NEW P, NEW W, State(c, P, W), NEW p \in Proc, NEW v \in Vnode, NEW i,
         c.hashlock = p, \A u \in Vnode : c.vn[u].ino # i, c.vn[v].id = 0
  PROVE  Clear(c, W, p, v, i)
<1>1. VnodeOK(c.vn[v]) /\ Owned(c, P, v) /\ \A q \in Proc : Asleep(c, v, W[q])
  BY DEF State
<1>2. c.vn[v].use = 0 /\ ~c.vn[v].live /\ ~c.vn[v].vx /\ ~c.vn[v].deadb /\ ~In(c.free, v) /\ c.vn[v].locked = NoProc
  BY <1>1 DEF VnodeOK, Owned
<1> QED
  BY <1>1, <1>2 DEF Clear, Asleep, BeingCleaned

(* There is one as long as fewer have been given.                           *)
LEMMA UnusedExists ==
  ASSUME NEW c, Cardinality({v \in Vnode : c.vn[v].id # 0}) < 2 * desiredvnodes
  PROVE  \E v \in Vnode : c.vn[v].id = 0
<1> SUFFICES ASSUME \A v \in Vnode : c.vn[v].id # 0 PROVE FALSE
  OBVIOUS
<1> DEFINE B == {v \in Vnode : c.vn[v].id # 0}
<1>1. B = Vnode
  OBVIOUS
<1>2. Cardinality(B) < 2 * desiredvnodes
  OBVIOUS
<1>3. Cardinality(Vnode) \in Nat /\ Cardinality(Vnode) >= 2 * desiredvnodes /\ desiredvnodes \in Nat
  BY VnodesAssumption, FS_CardinalityType
<1> HIDE DEF B
<1> QED
  BY <1>1, <1>2, <1>3
-----------------------------------------------------------------------------
(* Steps that change names and inodes.                                      *)

(* y is x but for its inode's mode and links.                               *)
ButMode(x, y) ==
  /\ y.use = x.use /\ y.ino = x.ino /\ y.live = x.live /\ y.bad = x.bad /\ y.vx = x.vx /\ y.vxwant = x.vxwant
  /\ y.deadb = x.deadb /\ y.id = x.id /\ y.locked = x.locked /\ y.wanted = x.wanted

(* p changes the inode of v, which it has locked.                           *)
LEMMA Remodes ==
  ASSUME NEW c, NEW P, NEW W, State(c, P, W), NEW p \in Proc, NEW v \in Vnode, NEW r \in ProcRec, NEW d, NEW j,
         W[p] = NoChan, P[p].pc \in {"reading", "remove", "makeinode", "inactive"}, P[p].vp = v, r.vp = v,
         r.pc \in {"found", "putting", "got", "update"}, r.pc = "update" <=> P[p].pc = "inactive",
         \A q \in Proc : q # p => P[q].pc \notin Transit,
         d \in World, \A u \in Vnode : u # v => d.vn[u] = c.vn[u], ButMode(c.vn[v], d.vn[v]),
         d.free = c.free, d.wake = c.wake, d.nc = c.nc, d.hashlock = c.hashlock, ~d.panicked,
         \A q \in Proc : q # p => \A D \in Dir : c.dirlock[D] = q => d.dirlock[D] = q,
         Files(c, d, P, p, v, j), Filed(d, v), VnodeOK(d.vn[v]),
         d.vn[v].mode /\ d.vn[v].nlink = 0 => r.pc # "update",
         Fresh(r) => Fresh(P[p]) /\ r.ino = P[p].ino,
         AtPlace(d, p, r), AtVnode(d.vn[v], p, r, NoChan, d.wake)
  PROVE  State(d, [P EXCEPT ![p] = r], W)
<1> DEFINE x == c.vn[v]
           y == d.vn[v]
           Q == [P EXCEPT ![p] = r]
<1>1. /\ c \in World /\ P \in [Proc -> ProcRec] /\ W \in [Proc -> Chan \cup {NoChan}] /\ x \in VnodeRec
      /\ P[p] \in ProcRec /\ Once(c.free) /\ ~c.panicked /\ Entries(c.nc) /\ Len(c.nc) <= NameCacheSize
  BY WorldType DEF State, Types
<1>2. Q \in [Proc -> ProcRec] /\ Q[p] = r /\ \A q \in Proc : q # p => Q[q] = P[q]
  BY <1>1
<1> HIDE DEF Q
<1>3. /\ P[p].pc \in Placed /\ P[p].pc \in Locking /\ P[p].pc \in Using \cup Ending
      /\ r.pc \in Placed /\ r.pc \in Locking /\ r.pc # "inactive" /\ (r.pc \in Ending <=> P[p].pc \in Ending)
      /\ (r.pc \in Referring <=> P[p].pc \in Referring) /\ (r.pc # "update" => r.pc \in Referring)
      /\ P[p].pc # "vinval"
  BY DEF Placed, Locking, Referring, Using, Ending
<1>4. VnodeOK(x) /\ Owned(c, P, v) /\ AtPlace(c, p, P[p]) /\ AtVnode(x, p, P[p], NoChan, c.wake)
  BY <1>3 DEF State
<1>5. x.live /\ x.locked = p
  BY <1>4 DEF AtVnode
<1>6. Around(c, d, P, Q, W, W, p, v)
  BY <1>1, <1>2 DEF Around, Types, ButMode
<1>7. Owned(d, Q, v)
  <2>1. Refs(Q, v) = Refs(P, v)
    BY <1>2, <1>3 DEF Refs
  <2>2. y.vx => \E q \in Proc : Q[q].vp = v /\ Q[q].pc = "vinval"
    BY <1>2, <1>3, <1>4 DEF Owned, ButMode
  <2>3. y.mode /\ y.nlink = 0 => \E q \in Proc : Q[q].vp = v /\ Q[q].pc \in Referring \cup {"inactive"}
    BY <1>2, <1>3
  <2> QED
    BY <1>2, <1>3, <1>4, <1>5, <2>1, <2>2, <2>3 DEF Owned, ButMode
<1>8. \A q \in Proc : Asleep(d, v, W[q])
  BY DEF State, Asleep, BeingCleaned, ButMode
<1>9. ASSUME NEW q \in Proc, Q[q].pc \in Placed, Q[q].vp = v PROVE AtVnode(y, q, Q[q], W[q], d.wake)
  <2>1. CASE q = p
    BY <1>2, <2>1
  <2>2. CASE q # p
    <3>1. AtVnode(x, q, P[q], W[q], c.wake) /\ P[q].pc \notin Transit /\ Q[q] = P[q]
      BY <1>2, <1>9, <2>2 DEF State
    <3>2. P[q].pc \notin {"reading", "makeinode", "update", "inactive", "putting", "closing"}
      BY <1>5, <2>2, <3>1 DEF AtVnode, Transit
    <3> QED
      BY <3>1, <3>2 DEF AtVnode, ButMode
  <2> QED
    BY <2>1, <2>2
<1>10. ASSUME NEW q \in Proc, q # p PROVE Apart(r, Q[q]) /\ Apart(Q[q], r)
  <2>1. Apart(P[p], P[q]) /\ Apart(P[q], P[p]) /\ Q[q] = P[q]
    BY <1>2, <1>10 DEF State
  <2> QED
    BY <1>3, <2>1 DEF Apart
<1>11. Result(d, Q, W, p, v)
  BY <1>2, <1>7, <1>8, <1>9, <1>10 DEF Result
<1>12. State(d, Q, W)
  BY <1>6, <1>11, Local
<1> QED
  BY <1>12 DEF Q
(* The inode of v, names, and the bitmap.                                   *)
Moded(x, m, l) == [x EXCEPT !.mode = m, !.nlink = l]

Refiled(c, v, m, l, D, F, A) ==
  [c EXCEPT !.vn[v] = Moded(@, m, l), !.dirlock = D, !.dir = F, !.alloc = A]

LEMMA RefiledIs ==
  ASSUME NEW c \in World, NEW v \in Vnode, NEW m \in BOOLEAN, NEW l \in {0, 1},
         NEW D \in [Dir -> Proc \cup {NoProc}], NEW F \in [Name -> Ino \cup {NoIno}], NEW A \in SUBSET Ino,
         NEW d, d = Refiled(c, v, m, l, D, F, A)
  PROVE  /\ d \in World /\ d.dirlock = D /\ d.dir = F /\ d.alloc = A
         /\ d.free = c.free /\ d.nc = c.nc /\ d.nextid = c.nextid /\ d.hashlock = c.hashlock
         /\ d.panicked = c.panicked /\ d.wake = c.wake
         /\ \A u \in Vnode : u # v => d.vn[u] = c.vn[u]
         /\ ButMode(c.vn[v], d.vn[v]) /\ d.vn[v].mode = m /\ d.vn[v].nlink = l
<1> DEFINE x == c.vn[v]
           y == Moded(x, m, l)
           e == [c EXCEPT !.vn = [c.vn EXCEPT ![v] = y]]
<1>1. x \in VnodeRec
  BY WorldType
<1>2. y \in VnodeRec /\ ButMode(x, y) /\ y.mode = m /\ y.nlink = l
  BY <1>1 DEF VnodeRec, ButMode, Moded
<1>3. d = [[[e EXCEPT !.dirlock = D] EXCEPT !.dir = F] EXCEPT !.alloc = A]
  BY DEF Refiled, World
<1> HIDE DEF y
<1>4. e \in World /\ Becomes(c, e, v, y) /\ RestIs(c, e) /\ e.wake = c.wake
  BY <1>2, WithIs
<1> HIDE DEF e
<1>5. /\ d \in World /\ d.dirlock = D /\ d.dir = F /\ d.alloc = A /\ d.vn = e.vn
      /\ d.free = e.free /\ d.nc = e.nc /\ d.nextid = e.nextid /\ d.hashlock = e.hashlock
      /\ d.panicked = e.panicked /\ d.wake = e.wake
  BY <1>3, <1>4 DEF World
<1> QED
  BY <1>2, <1>4, <1>5 DEF RestIs, Becomes

(* The inode has been read.                                                 *)
LEMMA Reads ==
  ASSUME NEW c, NEW P, NEW W, State(c, P, W), NEW p \in Proc, NEW v \in Vnode, NEW r \in ProcRec, NEW d,
         W[p] = NoChan, P[p].pc = "reading", P[p].vp = v, r = At(P[p], "found"),
         \A q \in Proc : q # p => P[q].pc \notin Transit,
         NEW m \in BOOLEAN, m <=> Linked(c, P[p].ino),
         d = Refiled(c, v, m, IF m THEN 1 ELSE 0, c.dirlock, c.dir, c.alloc)
  PROVE  State(d, [P EXCEPT ![p] = r], W)
<1> DEFINE x == c.vn[v]
           y == d.vn[v]
           l == IF m THEN 1 ELSE 0
           j == IF m THEN r.ino ELSE NoIno
<1>1. /\ c \in World /\ P[p] \in ProcRec /\ ~c.panicked /\ x \in VnodeRec
  BY WorldType DEF State, Types
<1>2. P[p].pc \in Placed
  BY DEF Placed, Referring, Using
<1>3. VnodeOK(x) /\ AtPlace(c, p, P[p]) /\ AtVnode(x, p, P[p], NoChan, c.wake) /\ Filed(c, v)
  BY <1>2 DEF State
<1>4. x.live /\ x.locked = p /\ x.ino = P[p].ino /\ ~x.mode
  BY <1>3 DEF AtVnode
<1>5. P[p].ino \in Ino
  BY <1>3 DEF AtPlace, Searching
<1>6. /\ d \in World /\ d.dirlock = c.dirlock /\ d.dir = c.dir /\ d.alloc = c.alloc
      /\ d.free = c.free /\ d.nc = c.nc /\ d.hashlock = c.hashlock
      /\ d.panicked = c.panicked /\ d.wake = c.wake
      /\ \A u \in Vnode : u # v => d.vn[u] = c.vn[u]
      /\ ButMode(x, y) /\ (y.mode <=> m) /\ y.nlink = l
  <2>1. c.dirlock \in [Dir -> Proc \cup {NoProc}] /\ c.dir \in [Name -> Ino \cup {NoIno}] /\ c.alloc \in SUBSET Ino
    BY <1>1, WorldType
  <2>2. l \in {0, 1} /\ d = Refiled(c, v, m, l, c.dirlock, c.dir, c.alloc)
    OBVIOUS
  <2> HIDE DEF l
  <2>3. y.mode = m
    BY <1>1, <2>1, <2>2, RefiledIs
  <2> QED
    BY <1>1, <2>1, <2>2, <2>3, RefiledIs
<1>7. /\ r.op = P[p].op /\ r.name = P[p].name /\ r.ino = P[p].ino /\ r.fresh = P[p].fresh /\ r.ret = P[p].ret
      /\ r.vp = v /\ r.pc = "found"
  BY <1>1 DEF ProcRec, At
<1> HIDE DEF y
<1>8. Named(c) /\ Single(c)
  BY DEF State
<1>9. m => r.ino \in c.alloc
  BY <1>5, <1>7, <1>8, VnodesAssumption DEF Linked, Named
<1>10. \A q \in Proc : Fresh(P[q]) => P[q].ino # j
  <2> SUFFICES ASSUME NEW q \in Proc, Fresh(P[q]) PROVE P[q].ino # j
    OBVIOUS
  <2>1. ~Linked(c, P[q].ino) /\ P[q].ino \in c.alloc
    BY DEF State, AtPlace
  <2> QED
    BY <1>1, <1>7, <2>1, WorldType, VnodesAssumption
<1>11. Files(c, d, P, p, v, j)
  <2>1. \A u \in Vnode : u # v /\ c.vn[u].mode => c.vn[u].ino # j
    <3> SUFFICES ASSUME NEW u \in Vnode, u # v, c.vn[u].mode PROVE c.vn[u].ino # j
      OBVIOUS
    <3>1. c.vn[u].ino \in c.alloc
      BY DEF State, Filed
    <3>2. c.vn[u].ino # NoIno /\ c.vn[u].ino # x.ino
      BY <1>1, <1>8, <3>1, WorldType, VnodesAssumption DEF Single
    <3> QED
      BY <1>4, <1>7, <3>2
  <2>2. y.mode => y.ino = j
    BY <1>4, <1>6, <1>7 DEF ButMode
  <2>3. j \in Ino => m /\ j = r.ino
    BY VnodesAssumption
  <2>4. \A n, m1 \in Name : c.dir[n] = c.dir[m1] /\ c.dir[n] # NoIno => n = m1
    BY <1>8 DEF Named
  <2>5. NoIno \notin Ino
    BY VnodesAssumption
  <2> QED
    BY <1>6, <1>9, <1>10, <2>1, <2>2, <2>3, <2>4, <2>5 DEF Files, y
<1>12. Filed(d, v)
  BY <1>4, <1>6, <1>7, <1>9 DEF Filed, Linked, ButMode, y
<1>13. VnodeOK(y)
  BY <1>3, <1>4, <1>6 DEF VnodeOK, ButMode
<1>14. AtPlace(d, p, r)
  <2>1. Fresh(r) => /\ r.ino \in d.alloc /\ ~Linked(d, r.ino)
                    /\ \A u \in Vnode : d.vn[u].ino = r.ino => ~d.vn[u].mode
    <3> SUFFICES ASSUME Fresh(r) PROVE /\ r.ino \in d.alloc /\ ~Linked(d, r.ino)
                    /\ \A u \in Vnode : d.vn[u].ino = r.ino => ~d.vn[u].mode
      OBVIOUS
    <3>1. Fresh(P[p])
      BY <1>7 DEF Fresh, Searching, Hand
    <3>2. r.ino \in c.alloc /\ ~Linked(c, r.ino) /\ (\A u \in Vnode : c.vn[u].ino = r.ino => ~c.vn[u].mode)
      BY <1>3, <1>7, <3>1 DEF AtPlace
    <3> QED
      BY <1>6, <1>7, <3>2 DEF Linked, y
  <2>2. Searching(r) /\ Searching(P[p]) /\ r.pc \notin Leaving /\ ~Hand(r) /\ r.pc \in Placed
    BY <1>7 DEF Searching, Hand, Leaving, Ending, Placed, Referring, Using
  <2>3. HasDir(d, p, r) <=> HasDir(c, p, P[p])
    BY <1>6, <1>7 DEF HasDir
  <2> QED
    BY <1>3, <1>6, <1>7, <2>1, <2>2, <2>3 DEF AtPlace
<1>15. AtVnode(y, p, r, NoChan, d.wake)
  BY <1>4, <1>6, <1>7 DEF AtVnode, ButMode, Hand
<1>16. Fresh(r) => Fresh(P[p])
  BY <1>7 DEF Fresh, Searching, Hand
<1> QED
  BY <1>1, <1>6, <1>7, <1>11, <1>12, <1>13, <1>14, <1>15, <1>16, Remodes DEF y
(* What becomes of a name, and of the lock of its directory.                *)
Renamed(c, n, i) == [c.dir EXCEPT ![n] = i]
Released(c, n)   == [c.dirlock EXCEPT ![DirOf[n]] = NoProc]
Put(r, ret)      == [r EXCEPT !.pc = "putting", !.ret = ret]

(* The new file has its inode, and its name unless something fails.         *)
Making(c, d, P, p, v, r, ok, t, l, D, F) ==
  /\ t \in BOOLEAN /\ t /\ D = Released(c, P[p].name)
  /\ \/ ok /\ r = At(P[p], "got") /\ l = 1 /\ F = Renamed(c, P[p].name, P[p].ino)
     \/ ~ok /\ r = Put(P[p], "idle") /\ l = 0 /\ F = c.dir
  /\ d = Refiled(c, v, t, l, D, F, c.alloc)

LEMMA Makes ==
  ASSUME NEW c, NEW P, NEW W, State(c, P, W), NEW p \in Proc, NEW v \in Vnode, NEW r \in ProcRec, NEW d,
         W[p] = NoChan, P[p].pc = "makeinode", P[p].vp = v, NEW ok \in BOOLEAN,
         \A q \in Proc : q # p => P[q].pc \notin Transit, NEW t, NEW l, NEW D, NEW F,
         Making(c, d, P, p, v, r, ok, t, l, D, F)
  PROVE  State(d, [P EXCEPT ![p] = r], W)
<1> DEFINE x == c.vn[v]
           y == d.vn[v]
           j == P[p].ino
           m == P[p].name
<1>1. /\ c \in World /\ P[p] \in ProcRec /\ ~c.panicked /\ x \in VnodeRec
      /\ c.dirlock \in [Dir -> Proc \cup {NoProc}] /\ c.dir \in [Name -> Ino \cup {NoIno}] /\ c.alloc \in SUBSET Ino
  BY WorldType DEF State, Types
<1>2. P[p].pc \in Placed /\ Fresh(P[p]) <=> P[p].fresh
  BY DEF Placed, Referring, Using, Fresh
<1>3. VnodeOK(x) /\ AtPlace(c, p, P[p]) /\ AtVnode(x, p, P[p], NoChan, c.wake)
  BY DEF State, Placed, Referring, Using
<1>4. x.live /\ x.locked = p /\ x.ino = j
  BY <1>3 DEF AtVnode
<1>5. /\ j \in Ino /\ m \in Name /\ c.dirlock[DirOf[m]] = p /\ DirOf[m] \in Dir /\ c.dir[m] = NoIno
      /\ j \in c.alloc /\ ~Linked(c, j) /\ (\A u \in Vnode : c.vn[u].ino = j => ~c.vn[u].mode) /\ Fresh(P[p])
  <2>1. Fresh(P[p])
    BY <1>3 DEF AtPlace, Fresh
  <2>2. j \in Ino /\ HasDir(c, p, P[p]) /\ c.dir[m] = NoIno
    BY <1>3 DEF AtPlace
  <2>3. j \in c.alloc /\ ~Linked(c, j) /\ (\A u \in Vnode : c.vn[u].ino = j => ~c.vn[u].mode)
    BY <1>3, <2>1 DEF AtPlace
  <2> QED
    BY <2>1, <2>2, <2>3, VnodesAssumption DEF HasDir
<1>6. D \in [Dir -> Proc \cup {NoProc}] /\ \A q \in Proc : q # p => \A e \in Dir : c.dirlock[e] = q => D[e] = q
  BY <1>1, <1>5 DEF Released, Making
<1>7. /\ F \in [Name -> Ino \cup {NoIno}] /\ \A n \in Name : n # m => F[n] = c.dir[n]
      /\ F[m] = IF ok THEN j ELSE NoIno
  BY <1>1, <1>5 DEF Renamed, Making
<1>8. l \in {0, 1} /\ (l = 1 <=> ok) /\ t \in BOOLEAN /\ d = Refiled(c, v, t, l, D, F, c.alloc)
  BY DEF Making
<1>18. D \in [Dir -> Proc \cup {NoProc}] /\ F \in [Name -> Ino \cup {NoIno}]
  BY <1>6, <1>7
<1>20. y.mode = t
  BY <1>1, <1>18, <1>8, RefiledIs
<1>9. /\ d \in World /\ d.dirlock = D /\ d.dir = F /\ d.alloc = c.alloc
      /\ d.free = c.free /\ d.nc = c.nc /\ d.hashlock = c.hashlock
      /\ d.panicked = c.panicked /\ d.wake = c.wake
      /\ \A u \in Vnode : u # v => d.vn[u] = c.vn[u]
      /\ ButMode(x, y) /\ y.nlink = l
  BY <1>1, <1>8, <1>18, RefiledIs
<1>22. y.mode
  BY <1>20 DEF Making
<1> HIDE DEF y
<1>10. /\ r.vp = v /\ r.pc = (IF ok THEN "got" ELSE "putting") /\ (~ok => r.ret = "idle")
  BY <1>1 DEF ProcRec, At, Put, Making
<1>11. \A q \in Proc : q # p /\ Fresh(P[q]) => P[q].ino # j
  BY <1>5 DEF State, Apart
<1>12. Files(c, d, P, p, v, j)
  <2>1. \A n \in Name : c.dir[n] # j
    BY <1>5 DEF Linked
  <2>2. y.mode => y.ino = j
    BY <1>4, <1>9 DEF ButMode
  <2>3. \A n \in Name : d.dir[n] = c.dir[n] \/ (c.dirlock[DirOf[n]] = p /\ c.dir[n] \in {NoIno, j} /\ d.dir[n] \in {NoIno, j})
    BY <1>5, <1>7, <1>9
  <2>4. \A n, i \in Name : d.dir[n] = j /\ d.dir[i] = j => n = i
    <3>1. \A n \in Name : d.dir[n] = j => n = m
      BY <1>7, <1>9, <1>22, <2>1
    <3> QED
      BY <3>1
  <2>5. \A u \in Vnode : u # v /\ c.vn[u].mode => c.vn[u].ino # j
    BY <1>5
  <2> QED
    BY <1>5, <1>9, <1>22, <1>11, <2>2, <2>3, <2>4, <2>5 DEF Files, y
<1>13. Filed(d, v)
  <2>1. Linked(d, j) <=> ok
    <3>1. ok => d.dir[m] = j
      BY <1>7, <1>9
    <3>2. \A n \in Name : c.dir[n] # j
      BY <1>5 DEF Linked
    <3>3. ~ok => \A n \in Name : d.dir[n] # j
      BY <1>5, <1>7, <1>9, <1>22, <3>2, VnodesAssumption
    <3> QED
      BY <1>5, <3>1, <3>3 DEF Linked
  <2>2. y.ino = j
    BY <1>4, <1>9 DEF ButMode
  <2> QED
    BY <1>5, <1>8, <1>9, <1>22, <2>1, <2>2 DEF Filed, y
<1>14. VnodeOK(y)
  BY <1>3, <1>4, <1>9, <1>22 DEF VnodeOK, ButMode
<1>17. ~Fresh(r) /\ r.pc # "update" /\ ~Searching(r) /\ ~Hand(r)
  BY <1>10 DEF Fresh, Searching, Hand
<1>15. AtPlace(d, p, r)
  <2>1. r.pc \notin {"remove", "makeinode", "vgetlock", "vgetfail", "relock", "inactive", "update"}
    BY <1>10
  <2>2. r.pc \in Leaving => r.ret = "idle"
    BY <1>10 DEF Leaving, Ending
  <2> QED
    BY <1>10, <1>17, <2>1, <2>2 DEF AtPlace
<1>16. AtVnode(y, p, r, NoChan, d.wake)
  BY <1>4, <1>9, <1>22, <1>10, <1>17 DEF AtVnode, ButMode
<1>21. \A q \in Proc : q # p => \A e \in Dir : c.dirlock[e] = q => d.dirlock[e] = q
  BY <1>6, <1>9
<1> HIDE DEF x, j, m
<1> QED
  BY <1>1, <1>9, <1>22, <1>10, <1>12, <1>13, <1>14, <1>15, <1>16, <1>17, <1>21, Remodes DEF y, x

(* The name is removed.                                                     *)
Unlinking(c, d, P, p, v, r, t, F) ==
  /\ t = c.vn[v].mode /\ F = Renamed(c, P[p].name, NoIno) /\ r = Put(P[p], "done")
  /\ d = Refiled(c, v, t, 0, c.dirlock, F, c.alloc)

LEMMA Unlinks ==
  ASSUME NEW c, NEW P, NEW W, State(c, P, W), NEW p \in Proc, NEW v \in Vnode, NEW r \in ProcRec, NEW d,
         W[p] = NoChan, P[p].pc = "remove", P[p].vp = v,
         \A q \in Proc : q # p => P[q].pc \notin Transit, NEW t, NEW F,
         Unlinking(c, d, P, p, v, r, t, F)
  PROVE  State(d, [P EXCEPT ![p] = r], W)
<1> DEFINE x == c.vn[v]
           y == d.vn[v]
           j == P[p].ino
           m == P[p].name
<1>1. /\ c \in World /\ P[p] \in ProcRec /\ ~c.panicked /\ x \in VnodeRec
      /\ c.dirlock \in [Dir -> Proc \cup {NoProc}] /\ c.dir \in [Name -> Ino \cup {NoIno}] /\ c.alloc \in SUBSET Ino
  BY WorldType DEF State, Types
<1>2. t \in BOOLEAN /\ t = x.mode /\ d = Refiled(c, v, t, 0, c.dirlock, F, c.alloc)
  BY <1>1, VnodeType DEF Unlinking
<1>3. VnodeOK(x) /\ AtPlace(c, p, P[p]) /\ AtVnode(x, p, P[p], NoChan, c.wake) /\ Filed(c, v) /\ Named(c) /\ Single(c)
  BY DEF State, Placed, Referring, Using
<1>4. x.live /\ x.locked = p /\ x.ino = j
  BY <1>3 DEF AtVnode
<1>5. j \in Ino /\ m \in Name /\ c.dirlock[DirOf[m]] = p /\ c.dir[m] = j /\ Linked(c, j) /\ j # NoIno
  BY <1>3, VnodesAssumption DEF AtPlace, HasDir, Linked
<1>6. F \in [Name -> Ino \cup {NoIno}] /\ (\A n \in Name : n # m => F[n] = c.dir[n]) /\ F[m] = NoIno
  BY <1>1, <1>5 DEF Renamed, Unlinking
<1>7. y.mode = t
  BY <1>1, <1>2, <1>6, RefiledIs
<1>8. /\ d \in World /\ d.dirlock = c.dirlock /\ d.dir = F /\ d.alloc = c.alloc
      /\ d.free = c.free /\ d.nc = c.nc /\ d.hashlock = c.hashlock
      /\ d.panicked = c.panicked /\ d.wake = c.wake
      /\ \A u \in Vnode : u # v => d.vn[u] = c.vn[u]
      /\ ButMode(x, y) /\ (y.mode <=> x.mode) /\ y.nlink = 0
  BY <1>1, <1>2, <1>6, <1>7, RefiledIs
<1> HIDE DEF y
<1>9. r.vp = v /\ r.pc = "putting" /\ r.ret = "done" /\ r.name = m
  BY <1>1 DEF ProcRec, Put, Unlinking
<1>10. \A n \in Name : F[n] # j
  BY <1>3, <1>5, <1>6 DEF Named
<1>11. Files(c, d, P, p, v, j)
  <2>1. \A q \in Proc : Fresh(P[q]) => P[q].ino # j
    BY <1>5 DEF State, AtPlace
  <2>2. \A u \in Vnode : u # v => c.vn[u].ino # j
    BY <1>3, <1>4, <1>5 DEF Single
  <2>3. \A n \in Name : d.dir[n] = c.dir[n] \/ (c.dirlock[DirOf[n]] = p /\ c.dir[n] \in {NoIno, j} /\ d.dir[n] \in {NoIno, j})
    BY <1>5, <1>6, <1>8
  <2>4. y.mode => y.ino = j
    BY <1>4, <1>8 DEF ButMode
  <2>5. \A n \in Name : d.dir[n] # j
    BY <1>8, <1>10
  <2>6. d.alloc = c.alloc
    BY <1>8
  <2> QED
    BY <2>1, <2>2, <2>3, <2>4, <2>5, <2>6 DEF Files, y
<1>12. Filed(d, v)
  <2>1. ~Linked(d, j) /\ y.ino = j
    BY <1>4, <1>8, <1>10 DEF Linked, ButMode
  <2> QED
    BY <1>3, <1>4, <1>8, <2>1 DEF Filed, y
<1>13. VnodeOK(y)
  BY <1>3, <1>4, <1>8 DEF VnodeOK, ButMode
<1>14. AtPlace(d, p, r)
  <2>1. HasDir(d, p, r)
    BY <1>5, <1>8, <1>9 DEF HasDir
  <2> QED
    BY <1>9, <2>1 DEF AtPlace, Searching, Hand, Leaving, Ending, Placed, Referring, Using, Fresh
<1>15. AtVnode(y, p, r, NoChan, d.wake)
  BY <1>4, <1>8, <1>9 DEF AtVnode, ButMode, Hand
<1>16. ~Fresh(r) /\ r.pc # "update"
  BY <1>9 DEF Fresh, Searching, Hand
<1>17. \A q \in Proc : q # p => \A D \in Dir : c.dirlock[D] = q => d.dirlock[D] = q
  BY <1>8
<1>18. d.vn[v].mode /\ d.vn[v].nlink = 0 => r.pc # "update"
  BY <1>16
<1>19. Fresh(r) => Fresh(P[p]) /\ r.ino = P[p].ino
  BY <1>16
<1>20. r.pc = "update" <=> P[p].pc = "inactive"
  BY <1>9
<1> HIDE DEF x, j, m
<1> QED
  BY <1>17, <1>18, <1>19, <1>20, <1>1, <1>8, <1>9, <1>11, <1>12, <1>13, <1>14, <1>15, <1>16, Remodes DEF y, x

(* The inode is given back.                                                 *)
Freeing(c, d, P, p, v, r, t, A) ==
  /\ t \in BOOLEAN /\ ~t /\ A = c.alloc \ {c.vn[v].ino} /\ r = At(P[p], "update")
  /\ d = Refiled(c, v, t, 0, c.dirlock, c.dir, A)

LEMMA Frees ==
  ASSUME NEW c, NEW P, NEW W, State(c, P, W), NEW p \in Proc, NEW v \in Vnode, NEW r \in ProcRec, NEW d,
         W[p] = NoChan, P[p].pc = "inactive", P[p].vp = v, c.vn[v].nlink = 0,
         \A q \in Proc : q # p => P[q].pc \notin Transit, NEW t, NEW A,
         Freeing(c, d, P, p, v, r, t, A)
  PROVE  State(d, [P EXCEPT ![p] = r], W)
<1> DEFINE x == c.vn[v]
           y == d.vn[v]
           j == x.ino
<1>1. /\ c \in World /\ P[p] \in ProcRec /\ ~c.panicked /\ x \in VnodeRec
      /\ c.dirlock \in [Dir -> Proc \cup {NoProc}] /\ c.dir \in [Name -> Ino \cup {NoIno}] /\ c.alloc \in SUBSET Ino
  BY WorldType DEF State, Types
<1>2. VnodeOK(x) /\ AtPlace(c, p, P[p]) /\ AtVnode(x, p, P[p], NoChan, c.wake) /\ Filed(c, v) /\ Single(c)
  BY DEF State, Placed, Ending
<1>3. x.live /\ x.locked = p /\ x.mode /\ ~Linked(c, j) /\ j # NoIno
  BY <1>2, VnodesAssumption DEF AtVnode, Filed, VnodeOK
<1>4. A \in SUBSET Ino /\ t \in BOOLEAN /\ d = Refiled(c, v, t, 0, c.dirlock, c.dir, A)
  BY <1>1 DEF Freeing
<1>13. y.mode = t
  BY <1>1, <1>4, RefiledIs
<1>5. \A i : i # j => (i \in A <=> i \in c.alloc)
  BY DEF Freeing
<1>6. /\ d \in World /\ d.dirlock = c.dirlock /\ d.dir = c.dir /\ d.alloc = A
      /\ d.free = c.free /\ d.nc = c.nc /\ d.hashlock = c.hashlock
      /\ d.panicked = c.panicked /\ d.wake = c.wake
      /\ \A u \in Vnode : u # v => d.vn[u] = c.vn[u]
      /\ ButMode(x, y) /\ ~y.mode /\ y.nlink = 0
  <2>1. ~t
    BY DEF Freeing
  <2> QED
    BY <1>1, <1>4, <1>13, <2>1, RefiledIs
<1> HIDE DEF y
<1>7. /\ r.op = P[p].op /\ r.name = P[p].name /\ r.ino = P[p].ino /\ r.fresh = P[p].fresh /\ r.ret = P[p].ret
      /\ r.vp = v /\ r.pc = "update"
  BY <1>1 DEF ProcRec, At, Freeing
<1>8. Files(c, d, P, p, v, j)
  <2>1. \A q \in Proc : Fresh(P[q]) => P[q].ino # j
    BY <1>3 DEF State, AtPlace
  <2>2. \A u \in Vnode : u # v => c.vn[u].ino # j
    BY <1>2, <1>3 DEF Single
  <2>3. \A n \in Name : d.dir[n] # j
    BY <1>3, <1>6 DEF Linked
  <2> QED
    BY <1>5, <1>6, <2>1, <2>2, <2>3 DEF Files, y
<1>9. Filed(d, v) /\ VnodeOK(y)
  <2>1. Filed(d, v)
    BY <1>6 DEF Filed, y
  <2>2. VnodeOK(y)
    BY <1>2, <1>3, <1>6 DEF VnodeOK, ButMode
  <2> QED
    BY <2>1, <2>2
<1>10. ~Fresh(r)
  BY <1>7 DEF Fresh, Searching, Hand
<1>11. AtPlace(d, p, r)
  <2>1. HasDir(d, p, r) <=> HasDir(c, p, P[p])
    BY <1>6, <1>7 DEF HasDir
  <2>2. ~Searching(r) /\ ~Hand(r) /\ r.pc \in Leaving /\ P[p].pc \in Leaving
    BY <1>7 DEF Searching, Hand, Leaving, Ending
  <2> QED
    BY <1>2, <1>7, <1>10, <2>1, <2>2 DEF AtPlace
<1>12. AtVnode(y, p, r, NoChan, d.wake)
  BY <1>3, <1>6, <1>7 DEF AtVnode, ButMode, Hand
<1>14. \A q \in Proc : q # p => \A D \in Dir : c.dirlock[D] = q => d.dirlock[D] = q
  BY <1>6
<1>15. d.vn[v].mode /\ d.vn[v].nlink = 0 => r.pc # "update"
  BY <1>6 DEF y
<1>16. Fresh(r) => Fresh(P[p]) /\ r.ino = P[p].ino
  BY <1>10
<1>17. r.pc = "update" <=> P[p].pc = "inactive"
  BY <1>7
<1> HIDE DEF x, j
<1> QED
  BY <1>14, <1>15, <1>16, <1>17, <1>1, <1>6, <1>7, <1>8, <1>9, <1>10, <1>11, <1>12, Remodes DEF y, x
-----------------------------------------------------------------------------
(* Steps that change the bitmap alone, where the inode j is concerned.      *)
LEMMA Maps ==
  ASSUME NEW c, NEW P, NEW W, State(c, P, W), NEW p \in Proc, NEW r \in ProcRec, NEW d, NEW j \in Ino,
         W[p] = NoChan, P[p].pc \notin Placed, r.pc \notin Placed,
         d \in World, d.vn = c.vn, d.free = c.free, d.nc = c.nc, d.dir = c.dir, d.hashlock = c.hashlock,
         d.wake = c.wake, ~d.panicked,
         \A q \in Proc : q # p => \A D \in Dir : c.dirlock[D] = q => d.dirlock[D] = q,
         \A i \in Ino : i # j => (i \in d.alloc <=> i \in c.alloc),
         \A u \in Vnode : c.vn[u].mode => c.vn[u].ino # j,
         \A q \in Proc : q # p /\ Fresh(P[q]) => P[q].ino # j,
         ~Linked(c, j), AtPlace(d, p, r), Fresh(r) => r.ino = j
  PROVE  State(d, [P EXCEPT ![p] = r], W)
<1> DEFINE Q == [P EXCEPT ![p] = r]
<1>1. /\ c \in World /\ P \in [Proc -> ProcRec] /\ W \in [Proc -> Chan \cup {NoChan}]
      /\ Once(c.free) /\ Entries(c.nc) /\ Len(c.nc) <= NameCacheSize
  BY DEF State, Types
<1>2. Q \in [Proc -> ProcRec] /\ Q[p] = r /\ \A q \in Proc : q # p => Q[q] = P[q]
  BY <1>1
<1>3. PICK v : v \in Vnode
  BY SomeVnode
<1> HIDE DEF Q
<1>4. Around(c, d, P, Q, W, W, p, v)
  BY <1>1, <1>2 DEF Around, Types
<1>5. VnodeOK(c.vn[v]) /\ Owned(c, P, v) /\ Filed(c, v) /\ Named(c)
  BY <1>3 DEF State
<1>6. Files(c, d, P, p, v, j)
  <2>1. \A n \in Name : d.dir[n] # j
    BY DEF Linked
  <2> QED
    BY <1>3, <2>1 DEF Files
<1>7. Owned(d, Q, v)
  <2>0. Referring \subseteq Placed /\ Locking \subseteq Placed /\ "vinval" \in Placed /\ "inactive" \in Placed
    BY DEF Placed, Referring, Using, Locking, Ending
  <2>1. Refs(Q, v) = Refs(P, v)
    BY <1>2, <2>0 DEF Refs
  <2>2. c.vn[v].locked # NoProc => Q[c.vn[v].locked].vp = v /\ Q[c.vn[v].locked].pc \in Locking
    <3>1. c.vn[v].locked \in Proc \cup {NoProc}
      BY <1>1, <1>3, WorldType, VnodeType
    <3> QED
      BY <1>2, <1>5, <2>0, <3>1 DEF Owned
  <2>3. c.vn[v].vx => \E q \in Proc : Q[q].vp = v /\ Q[q].pc = "vinval"
    BY <1>2, <1>5, <2>0 DEF Owned
  <2>4. c.vn[v].mode /\ c.vn[v].nlink = 0 =>
          \E q \in Proc : Q[q].vp = v /\ Q[q].pc \in Referring \cup {"inactive"}
    BY <1>2, <1>5, <2>0 DEF Owned
  <2> QED
    BY <1>5, <2>1, <2>2, <2>3, <2>4 DEF Owned
<1>8. Filed(d, v)
  <2> SUFFICES ASSUME c.vn[v].mode
               PROVE  c.vn[v].ino \in d.alloc /\ (c.vn[v].nlink = 1 <=> Linked(d, c.vn[v].ino))
    BY DEF Filed
  <2>1. c.vn[v].ino \in c.alloc /\ c.vn[v].ino \in Ino /\ c.vn[v].ino # j
    BY <1>1, <1>3, <1>5, WorldType DEF Filed
  <2> QED
    BY <1>5, <2>1 DEF Filed, Linked
<1>9. \A q \in Proc : Asleep(d, v, W[q])
  BY <1>3 DEF Asleep, BeingCleaned, State
<1>10. \A q \in Proc : Q[q].pc \in Placed /\ Q[q].vp = v => AtVnode(d.vn[v], q, Q[q], W[q], d.wake)
  BY <1>2 DEF State
<1>11. ASSUME NEW q \in Proc, q # p PROVE Apart(r, Q[q]) /\ Apart(Q[q], r)
  <2>1. Using \cup Ending \subseteq Placed
    BY DEF Placed, Referring
  <2>2. Q[q] = P[q]
    BY <1>2, <1>11
  <2> QED
    BY <1>11, <2>1, <2>2 DEF Apart
<1>12. Result(d, Q, W, p, v)
  BY <1>2, <1>5, <1>7, <1>8, <1>9, <1>10, <1>11 DEF Result
<1>13. State(d, Q, W)
  BY <1>3, <1>4, <1>6, <1>12, Local
<1> QED
  BY <1>13 DEF Q
-----------------------------------------------------------------------------
(* A step of p, piece by piece.  In the middle of it the world is c, p is   *)
(* awake and at r, and everybody else is where the step began.              *)
With(p, r)   == [pr EXCEPT ![p] = r]
Now(c, p, r) == Inv /\ wchan[p] = NoChan /\ r \in ProcRec /\ State(c, With(p, r), wchan)

LEMMA NowIs ==
  ASSUME NEW c, NEW p \in Proc, NEW a, Now(c, p, a)
  PROVE  /\ With(p, a)[p] = a
         /\ \A q \in Proc : q # p => With(p, a)[q] = pr[q] /\ pr[q].pc \notin Transit
         /\ c \in World /\ Once(c.free) /\ Entries(c.nc) /\ Len(c.nc) <= NameCacheSize /\ ~c.panicked
         /\ a \in ProcRec /\ wchan[p] = NoChan /\ AtPlace(c, p, a)
         /\ a.pc \in Placed => /\ a.vp \in Vnode /\ AtVnode(c.vn[a.vp], p, a, NoChan, c.wake)
                               /\ VnodeOK(c.vn[a.vp]) /\ Owned(c, With(p, a), a.vp)
<1>1. pr \in [Proc -> ProcRec] /\ \A q \in Proc : pr[q].pc \notin Transit
  BY DEF Now, Inv, State, Types
<1>2. /\ With(p, a)[p] = a
      /\ \A q \in Proc : q # p => With(p, a)[q] = pr[q]
  BY <1>1 DEF With
<1>3. State(c, With(p, a), wchan) /\ wchan[p] = NoChan /\ a \in ProcRec
  BY DEF Now
<1>4. /\ c \in World /\ Once(c.free) /\ Entries(c.nc) /\ Len(c.nc) <= NameCacheSize /\ ~c.panicked
      /\ AtPlace(c, p, a)
      /\ a.pc \in Placed => AtVnode(c.vn[a.vp], p, a, NoChan, c.wake)
  BY <1>2, <1>3 DEF State, Types
<1>5. a.pc \in Placed => a.vp \in Vnode /\ VnodeOK(c.vn[a.vp]) /\ Owned(c, With(p, a), a.vp)
  BY <1>3, <1>4 DEF State, AtPlace
<1> QED
  BY <1>1, <1>2, <1>3, <1>4, <1>5

LEMMA WithAt ==
  ASSUME NEW c, NEW p \in Proc, NEW a, Now(c, p, a)
  PROVE  With(p, a)[p] = a /\ a \in ProcRec
<1>1. pr \in [Proc -> ProcRec]
  BY DEF Now, Inv, State, Types
<1> QED
  BY <1>1 DEF With, Now

(* The step begins.                                                         *)
LEMMA Begins ==
  ASSUME Inv, NEW p \in Proc, wchan[p] = NoChan
  PROVE  Now(k, p, pr[p]) /\ k.wake = {}
<1>1. pr \in [Proc -> ProcRec] /\ State(k, pr, wchan)
  BY DEF Inv, State, Types
<1>2. With(p, pr[p]) = pr
  BY <1>1 DEF With
<1> QED
  BY <1>1, <1>2 DEF Now, Inv

(* It goes on.                                                              *)
LEMMA Goes ==
  ASSUME NEW c, NEW p \in Proc, NEW a, Now(c, p, a), NEW b \in ProcRec, NEW d,
         State(d, [With(p, a) EXCEPT ![p] = b], wchan)
  PROVE  Now(d, p, b)
<1>1. pr \in [Proc -> ProcRec]
  BY DEF Now, Inv, State, Types
<1>2. [With(p, a) EXCEPT ![p] = b] = With(p, b)
  BY <1>1 DEF With
<1> QED
  BY <1>2 DEF Now

(* It ends with p awake.                                                    *)
LEMMA Done ==
  ASSUME NEW c, NEW p \in Proc, NEW r, Now(c, p, r), Do(c, p, r, NoChan), r.pc \notin Transit
  PROVE  Inv'
<1>1. wchan \in [Proc -> Chan \cup {NoChan}] /\ wchan[p] = NoChan /\ Inv
  BY DEF Now, Inv, State, Types
<1>2. [wchan EXCEPT ![p] = NoChan] = wchan
  BY <1>1
<1>3. State(c, [pr EXCEPT ![p] = r], [wchan EXCEPT ![p] = NoChan])
  BY <1>2 DEF Now, With
<1> QED
  BY <1>1, <1>3, Ends

(* d is c with p about to sleep on v.                                       *)
Waiting(c, v, d, ch) ==
  \/ d = [c EXCEPT !.vn[v].wanted = TRUE] /\ ch = Ip(v) /\ c.vn[v].locked # NoProc
  \/ d = [c EXCEPT !.vn[v].vxwant = TRUE] /\ ch = Vp(v) /\ BeingCleaned(c, v)

(* It ends with p asleep on v.                                              *)
LEMMA Sleeps ==
  ASSUME NEW c, NEW p \in Proc, NEW r, Now(c, p, r), NEW v \in Vnode, c.wake = {},
         r.pc \in {"ffs_vget", "vgetfail", "vgetlock", "vclean"}, r.pc \in Placed => r.vp = v,
         NEW d, NEW ch, Do(d, p, r, ch), Waiting(c, v, d, ch)
  PROVE  Inv'
<1>1. c \in World /\ With(p, r)[p] = r /\ State(c, With(p, r), wchan)
  BY NowIs DEF Now
<1>2. d.wake = {}
  BY <1>1, SleepsIs DEF Waiting
<1>3. State(d, With(p, r), [wchan EXCEPT ![p] = ch])
  BY <1>1, Waits DEF Waiting
<1>4. State(d, [pr EXCEPT ![p] = r], [wchan EXCEPT ![p] = ch]) /\ Inv
  BY <1>3 DEF With, Now
<1>5. r.pc \notin Transit
  BY DEF Transit
<1> QED
  BY <1>2, <1>4, <1>5, Ends

(* p moves to a place of the same kind.                                     *)
LEMMA Shifts ==
  ASSUME NEW c, NEW p \in Proc, NEW a, Now(c, p, a), NEW b \in ProcRec, NEW d,
         Beside(c, d, p), d.alloc = c.alloc, SameKind(a, b),
         Fresh(a) <=> Fresh(b), Fresh(b) => b.ino = a.ino, AtPlace(d, p, b),
         b.pc \in Placed => AtVnode(c.vn[b.vp], p, b, NoChan, c.wake)
  PROVE  Now(d, p, b)
<1>1. wchan[p] = NoChan /\ State(c, With(p, a), wchan)
  BY DEF Now
<1>3. With(p, a)[p] = a
  BY WithAt
<1>2. State(d, [With(p, a) EXCEPT ![p] = b], wchan)
  BY <1>1, <1>3, Moves
<1> QED
  BY <1>2, Goes

(* Only the place changes.                                                  *)
LEMMA AtIs ==
  ASSUME NEW r \in ProcRec, NEW pc \in Places, NEW a, a = At(r, pc)
  PROVE  /\ a \in ProcRec /\ a.pc = pc /\ a.op = r.op /\ a.name = r.name /\ a.ino = r.ino /\ a.vp = r.vp
         /\ a.vpid = r.vpid /\ a.ret = r.ret /\ a.fresh = r.fresh
BY DEF At, ProcRec

LEMMA AtAt ==
  ASSUME NEW r \in ProcRec, NEW x, NEW y
  PROVE  At(At(r, x), y) = At(r, y)
BY DEF At, ProcRec

LEMMA PlacesAre ==
  Places = {"reading", "got", "open", "remove", "makeinode", "found", "putting", "closing", "vgetlock", "taking",
            "inactive", "update", "vinval", "vclean", "vgonewait", "idle", "vgetfail", "relock", "ffs_vget",
            "hashwait", "leaving"}
BY DEF Places, Placed, Referring, Using, Ending

LEMMA IdleIs ==
  /\ Idle \in ProcRec /\ Idle.pc = "idle" /\ Idle.op = "none" /\ Idle.name = NoName /\ Idle.ino = NoIno
  /\ Idle.vp = NoVnode /\ Idle.vpid = 0 /\ Idle.ret = "idle" /\ ~Idle.fresh
BY PlacesAre, NameCacheAssumption DEF Idle, ProcRec

(* The lock of one directory changes hands, between p and nobody.           *)
Dirs(c, d, p) ==
  /\ d \in World /\ d.vn = c.vn /\ d.free = c.free /\ d.nc = c.nc /\ d.nextid = c.nextid /\ d.dir = c.dir
  /\ d.hashlock = c.hashlock /\ d.alloc = c.alloc /\ d.panicked = c.panicked /\ d.wake = c.wake
  /\ \A q \in Proc : q # p => \A D \in Dir : c.dirlock[D] = q => d.dirlock[D] = q

LEMMA DirsIs ==
  ASSUME NEW c \in World, NEW p \in Proc, NEW n \in Name, NEW o \in {p, NoProc},
         c.dirlock[DirOf[n]] \in {p, NoProc}, NEW d, d = [c EXCEPT !.dirlock[DirOf[n]] = o]
  PROVE  Dirs(c, d, p) /\ d.dirlock[DirOf[n]] = o
<1> DEFINE D == [c.dirlock EXCEPT ![DirOf[n]] = o]
<1>1. c.dirlock \in [Dir -> Proc \cup {NoProc}] /\ DirOf[n] \in Dir
  BY WorldType, VnodesAssumption
<1>2. D \in [Dir -> Proc \cup {NoProc}] /\ D[DirOf[n]] = o /\ \A e \in Dir : e # DirOf[n] => D[e] = c.dirlock[e]
  BY <1>1
<1>3. d = [c EXCEPT !.dirlock = D]
  BY DEF World
<1> HIDE DEF D
<1>4. /\ d \in World /\ d.vn = c.vn /\ d.free = c.free /\ d.nc = c.nc /\ d.nextid = c.nextid /\ d.dir = c.dir
      /\ d.hashlock = c.hashlock /\ d.alloc = c.alloc /\ d.panicked = c.panicked /\ d.wake = c.wake
      /\ d.dirlock = D
  BY <1>2, <1>3 DEF World
<1>5. \A q \in Proc : q # p => \A e \in Dir : c.dirlock[e] = q => D[e] = q
  BY <1>2, VnodesAssumption
<1> QED
  BY <1>2, <1>4, <1>5 DEF Dirs

(* A step keeps to what is not another's.                                   *)
LEMMA DirsBeside ==
  ASSUME NEW c, NEW p \in Proc, NEW a, Now(c, p, a), NEW d, Dirs(c, d, p)
  PROVE  Beside(c, d, p) /\ d.alloc = c.alloc
BY NowIs DEF Dirs, Beside

(* Nothing at all changes but p.                                            *)
LEMMA SameBeside ==
  ASSUME NEW c, NEW p \in Proc, NEW a, Now(c, p, a)
  PROVE  Beside(c, c, p)
BY NowIs DEF Beside

(* A place where p keeps no vnode.                                          *)
LEMMA Nowhere ==
  ASSUME NEW a, a.pc \in {"idle", "vgetfail", "relock", "ffs_vget", "hashwait", "leaving"},
         NEW b, b.pc \in {"idle", "vgetfail", "relock", "ffs_vget", "hashwait", "leaving"}
  PROVE  SameKind(a, b) /\ b.pc \notin Placed /\ a.pc \notin Placed
BY DEF SameKind, Placed, Referring, Using, Ending, Locking

LEMMA IdlePlace ==
  ASSUME NEW c, NEW p
  PROVE  AtPlace(c, p, Idle) /\ ~Fresh(Idle) /\ Idle.pc \notin Transit
BY IdleIs DEF AtPlace, Fresh, Searching, Hand, Placed, Referring, Using, Ending, Leaving, Transit

(* After vgone(), vrele() or a failure p goes where its ret says.           *)
LEMMA Continues ==
  ASSUME NEW c, NEW p \in Proc, NEW r \in ProcRec, Now(c, p, At(r, "leaving")), Continue(c, p, r)
  PROVE  Inv'
<1> DEFINE a == At(r, "leaving")
<1>1. /\ a \in ProcRec /\ a.pc = "leaving" /\ a.op = r.op /\ a.name = r.name /\ a.ino = r.ino
      /\ a.ret = r.ret /\ a.fresh = r.fresh
  BY PlacesAre, AtIs
<1>2. Now(c, p, a)
  OBVIOUS
<1> HIDE DEF a
<1>3. /\ c \in World /\ AtPlace(c, p, a) /\ ~c.panicked
  BY <1>2, NowIs
<1>4. a.pc \in Leaving /\ a.ret # "getnewvnode"
  BY <1>1, <1>3 DEF AtPlace, Leaving
<1>5. Fresh(a) <=> r.fresh /\ r.ret = "fail"
  BY <1>1 DEF Fresh, Searching, Hand
<1>6. SameKind(a, Idle) /\ a.pc \notin Placed /\ Idle.pc \notin Placed
  BY <1>1, IdleIs, Nowhere
<1>7. \A d : AtPlace(d, p, Idle) /\ ~Fresh(Idle) /\ Idle.pc \notin Transit /\ Idle \in ProcRec
  BY IdlePlace, IdleIs
<1>8. CASE r.ret = "idle"
  <2>1. Do(c, p, Idle, NoChan)
    BY <1>8 DEF Continue
  <2>2. Beside(c, c, p)
    BY <1>2, SameBeside
  <2>3. Now(c, p, Idle)
    BY <1>2, <1>5, <1>6, <1>7, <1>8, <2>2, Shifts
  <2> QED
    BY <1>7, <2>1, <2>3, Done
<1>9. CASE r.ret = "relock"
  <2> DEFINE b == At(r, "relock")
  <2>1. b \in ProcRec /\ b.pc = "relock" /\ b.name = r.name /\ b.op = r.op
    BY PlacesAre, AtIs
  <2>2. Do(c, p, b, NoChan)
    BY <1>9 DEF Continue
  <2> HIDE DEF b
  <2>3. Beside(c, c, p)
    BY <1>2, SameBeside
  <2>4. b.name \in Name /\ b.op # "handle"
    BY <1>1, <1>3, <1>4, <1>9, <2>1 DEF AtPlace
  <2>5. AtPlace(c, p, b) /\ ~Fresh(b) /\ b.pc \notin Transit
    BY <2>1, <2>4 DEF AtPlace, Fresh, Searching, Hand, Placed, Referring, Using, Ending, Leaving, Transit
  <2>6. SameKind(a, b) /\ b.pc \notin Placed
    BY <1>1, <2>1, Nowhere
  <2>7. Now(c, p, b)
    BY <1>2, <1>5, <1>9, <2>1, <2>3, <2>5, <2>6, Shifts
  <2> QED
    BY <2>2, <2>5, <2>7, Done
<1>10. CASE r.ret \in {"done", "fail"}
  <2>1. r.name \in Name /\ c.dirlock[DirOf[r.name]] = p
    BY <1>1, <1>3, <1>4, <1>10 DEF AtPlace, HasDir
  <2> DEFINE e == [c EXCEPT !.dirlock[DirOf[r.name]] = NoProc]
  <2>2. Dirs(c, e, p)
    BY <1>3, <2>1, DirsIs
  <2>3. e \in World /\ e.alloc = c.alloc
    BY <2>2 DEF Dirs
  <2>4. Beside(c, e, p)
    BY <1>2, <2>2, DirsBeside
  <2>5. CASE r.ret = "done" \/ ~r.fresh
    <3>1. Do(e, p, Idle, NoChan)
      <4>1. CASE r.ret = "done"
        BY <4>1 DEF Continue
      <4>2. CASE r.ret = "fail" /\ ~r.fresh
        <5>1. [c EXCEPT !.dirlock[DirOf[r.name]] = NoProc, !.alloc = IF r.fresh THEN @ \ {r.ino} ELSE @] = e
          BY <1>3, <4>2 DEF World
        <5> QED
          BY <4>2, <5>1 DEF Continue
      <4> QED
        BY <1>10, <2>5, <4>1, <4>2
    <3> HIDE DEF e
    <3>2. Now(e, p, Idle)
      BY <1>2, <1>5, <1>6, <1>7, <2>3, <2>4, <2>5, Shifts
    <3> QED
      BY <1>7, <3>1, <3>2, Done
  <2>6. CASE r.ret = "fail" /\ r.fresh
    <3> DEFINE A == c.alloc \ {r.ino}
               d == [e EXCEPT !.alloc = A]
    <3>1. Do(d, p, Idle, NoChan)
      <4>1. [c EXCEPT !.dirlock[DirOf[r.name]] = NoProc, !.alloc = IF r.fresh THEN @ \ {r.ino} ELSE @] = d
        BY <1>3, <2>6 DEF World
      <4> QED
        BY <2>6, <4>1 DEF Continue
    <3> HIDE DEF e
    <3>2. A \in SUBSET Ino
      BY <1>3, WorldType
    <3>3. \A i : i # r.ino => (i \in A <=> i \in c.alloc)
      OBVIOUS
    <3> HIDE DEF A
    <3>4. /\ d \in World /\ d.vn = e.vn /\ d.free = e.free /\ d.nc = e.nc /\ d.dir = e.dir
          /\ d.dirlock = e.dirlock /\ d.hashlock = e.hashlock /\ d.alloc = A /\ d.panicked = e.panicked
          /\ d.wake = e.wake
      BY <2>3, <3>2 DEF World
    <3> HIDE DEF d
    <3>5. r.ino \in Ino /\ ~Linked(c, r.ino) /\ \A u \in Vnode : c.vn[u].ino = r.ino => ~c.vn[u].mode
      BY <1>1, <1>3, <1>5, <2>6, WorldType DEF AtPlace
    <3>10. With(p, a)[p] = a
      BY <1>2, WithAt
    <3>6. With(p, a)[p] = a /\ wchan[p] = NoChan /\ State(c, With(p, a), wchan)
      BY <1>2, <3>10 DEF Now
    <3>7. \A q \in Proc : q # p /\ Fresh(With(p, a)[q]) => With(p, a)[q].ino # r.ino
      BY <1>1, <1>5, <2>6, <3>6 DEF State, Apart
    <3>8. State(d, [With(p, a) EXCEPT ![p] = Idle], wchan)
      BY <1>3, <1>6, <1>7, <2>2, <3>3, <3>4, <3>5, <3>6, <3>7, Maps DEF Dirs
    <3>9. Now(d, p, Idle)
      BY <1>2, <1>7, <3>8, Goes
    <3> QED
      BY <1>7, <3>1, <3>9, Done
  <2> QED
    BY <1>10, <2>5, <2>6
<1> QED
  BY <1>1, <1>4, <1>8, <1>9, <1>10, ProcType

(* getnewvnode() gives p the vnode that is ready.                           *)
LEMMA News ==
  ASSUME NEW c, NEW p \in Proc, NEW r \in ProcRec, Now(c, p, At(r, "hashwait")), NEW v \in Vnode, r.vp = v,
         Clear(c, wchan, p, v, r.ino), NewVnode(c, p, r)
  PROVE  Inv'
<1> DEFINE a == At(r, "hashwait")
           b == At(r, "reading")
<1>1. /\ a \in ProcRec /\ a.pc = "hashwait" /\ a.vp = v
      /\ b \in ProcRec /\ b.pc = "reading" /\ b.ino = r.ino /\ b = At(a, "reading")
  BY PlacesAre, AtIs, AtAt
<1>2. Now(c, p, a)
  OBVIOUS
<1>3. Do(Renewed(c, p, v, r.ino), p, b, NoChan)
  BY DEF NewVnode, Renewed
<1> HIDE DEF a, b
<1>4. With(p, a)[p] = a
  BY <1>2, WithAt
<1>5. wchan[p] = NoChan /\ State(c, With(p, a), wchan)
  BY <1>2 DEF Now
<1> DEFINE d == Renewed(c, p, v, r.ino)
<1>6. d = Renewed(c, p, v, b.ino)
  BY <1>1
<1> HIDE DEF d
<1>7. Clear(c, wchan, p, v, b.ino)
  BY <1>1
<1>8. State(d, [With(p, a) EXCEPT ![p] = b], wchan)
  BY <1>1, <1>4, <1>5, <1>6, <1>7, Creates
<1>9. Now(d, p, b) /\ b.pc \notin Transit
  BY <1>1, <1>2, <1>8, Goes DEF Transit
<1> QED
  BY <1>3, <1>9, Done DEF d

(* VOP_LOCK() as a function of what is found.                               *)
LEMMA LockTries ==
  ASSUME NEW c, NEW p, NEW v, NEW l, l = LockTry(c, p, v)
  PROVE  /\ l.is = "sleep" => Waiting(c, v, l.k, l.on)
         /\ l.is # "sleep" => /\ ~c.vn[v].vx /\ (c.vn[v].live => c.vn[v].locked = NoProc)
                              /\ l.k = IF c.vn[v].live THEN Locked(c, v, p) ELSE c
BY DEF LockTry, Locked, Waiting, BeingCleaned

(* vclean() when nothing is in its way.                                     *)
LEMMA CleansNow ==
  ASSUME NEW c, NEW p \in Proc, NEW a, Now(c, p, a), NEW v \in Vnode, a.vp = v, ~c.vn[v].vx,
         a.pc = "vclean" \/ (a.pc = "leaving" /\ c.vn[v].live /\ c.vn[v].use = 0),
         c.vn[v].live => c.vn[v].locked = NoProc,
         NEW e, e = IF c.vn[v].live THEN Locked(c, v, p) ELSE c, Do(Cleaned(e, v), p, At(a, "vinval"), NoChan)
  PROVE  Inv'
<1> DEFINE d == Cleaned(e, v)
           b == At(a, "vinval")
<1>1. b \in ProcRec /\ b.pc = "vinval" /\ b = At(a, "vinval") /\ d = Cleaned(e, v)
  BY PlacesAre, AtIs, WithAt
<1>2. Do(d, p, b, NoChan)
  OBVIOUS
<1> HIDE DEF b, d
<1>3. With(p, a)[p] = a
  BY WithAt
<1>4. wchan[p] = NoChan /\ State(c, With(p, a), wchan)
  BY DEF Now
<1>5. State(d, [With(p, a) EXCEPT ![p] = b], wchan)
  BY <1>1, <1>3, <1>4, Cleans
<1>6. Now(d, p, b) /\ b.pc \notin Transit
  BY <1>1, <1>5, Goes DEF Transit
<1> QED
  BY <1>2, <1>6, Done

(* vclean() from getnewvnode().                                             *)
LEMMA VcleansNow ==
  ASSUME NEW c, NEW p \in Proc, NEW r \in ProcRec, Now(c, p, At(r, "vclean")), c.wake = {}, Vclean(c, p, r)
  PROVE  Inv'
<1> DEFINE a == At(r, "vclean")
           v == r.vp
           l == LockTry(c, p, v)
<1>1. /\ a \in ProcRec /\ a.pc = "vclean" /\ a.vp = v /\ a.pc \in Placed /\ At(r, "vinval") = At(a, "vinval")
  BY PlacesAre, AtIs, AtAt DEF Placed
<1>2. Now(c, p, a)
  OBVIOUS
<1>3. IF l.is = "sleep" THEN Do(l.k, p, a, l.on)
      ELSE Do(Cleaned(l.k, v), p, At(a, "vinval"), NoChan)
  BY <1>1 DEF Vclean, Cleaned
<1> HIDE DEF a
<1>4. v \in Vnode
  BY <1>1, <1>2, NowIs
<1>5. CASE l.is = "sleep"
  <2>1. Waiting(c, v, l.k, l.on)
    BY <1>5, LockTries
  <2>2. Do(l.k, p, a, l.on)
    BY <1>3, <1>5
  <2> HIDE DEF l
  <2> QED
    BY <1>1, <1>2, <1>4, <2>1, <2>2, Sleeps
<1>6. CASE l.is # "sleep"
  <2>1. ~c.vn[v].vx /\ (c.vn[v].live => c.vn[v].locked = NoProc)
        /\ l.k = IF c.vn[v].live THEN Locked(c, v, p) ELSE c
    BY <1>6, LockTries
  <2>2. Do(Cleaned(l.k, v), p, At(a, "vinval"), NoChan)
    BY <1>3, <1>6
  <2> HIDE DEF l
  <2> QED
    BY <1>1, <1>2, <1>4, <2>1, <2>2, CleansNow
<1> QED
  BY <1>5, <1>6

(* vgone() from getnewvnode().                                              *)
LEMMA VgonesNow ==
  ASSUME NEW c, NEW p \in Proc, NEW r \in ProcRec, Now(c, p, At(r, "vclean")), c.wake = {}, Vgone(c, p, r)
  PROVE  Inv'
<1> DEFINE a == At(r, "vclean")
           b == At(r, "vgonewait")
           v == r.vp
<1>1. /\ a \in ProcRec /\ a.pc = "vclean" /\ a.vp = v /\ a.op = r.op /\ a.name = r.name /\ a.ino = r.ino
      /\ a.ret = r.ret /\ a.fresh = r.fresh /\ a.pc \in Placed
      /\ b \in ProcRec /\ b.pc = "vgonewait" /\ b.vp = v /\ b.op = r.op /\ b.name = r.name /\ b.ino = r.ino
      /\ b.ret = r.ret /\ b.fresh = r.fresh
  BY PlacesAre, AtIs DEF Placed
<1>2. CASE ~c.vn[v].vx
  BY <1>2, VcleansNow DEF Vgone
<1>3. CASE c.vn[v].vx
  <2> DEFINE d == [c EXCEPT !.vn[v].vxwant = TRUE]
             W == [wchan EXCEPT ![p] = Vp(v)]
  <2>1. Do(d, p, b, Vp(v))
    BY <1>3 DEF Vgone
  <2>2. Now(c, p, a)
    OBVIOUS
  <2> HIDE DEF a, b
  <2>3. With(p, a)[p] = a /\ a \in ProcRec
    BY <2>2, WithAt
  <2>18. /\ c \in World /\ AtPlace(c, p, a)
         /\ a.pc \in Placed => a.vp \in Vnode /\ AtVnode(c.vn[a.vp], p, a, NoChan, c.wake)
    BY <2>2, NowIs
  <2>4. v \in Vnode /\ c \in World /\ AtPlace(c, p, a) /\ AtVnode(c.vn[v], p, a, NoChan, c.wake)
    BY <1>1, <2>18
  <2>5. State(c, With(p, a), wchan) /\ Inv
    BY <2>2 DEF Now
  <2>6. State(d, With(p, a), W)
    BY <1>1, <1>3, <2>3, <2>4, <2>5, Waits DEF BeingCleaned
  <2>7. /\ d.wake = c.wake /\ Alike(c.vn[v], d.vn[v])
    BY <2>4, SleepsIs
  <2>8. W[p] = Vp(v)
    BY <2>5 DEF Inv, State, Types
  <2> HIDE DEF d, W
  <2>9. Beside(d, d, p)
    BY <2>6 DEF Beside, State, Types
  <2>10. SameKind(a, b) /\ b.pc \in Placed
    BY <1>1 DEF SameKind, Placed, Referring, Using, Ending, Locking
  <2>11. (Fresh(a) <=> Fresh(b)) /\ (Hand(a) /\ Hand(b)) /\ Searching(a) /\ Searching(b)
    BY <1>1 DEF Fresh, Searching, Hand
  <2>12. AtPlace(d, p, b)
    <3>1. AtPlace(d, p, a)
      BY <2>3, <2>6 DEF State
    <3>2. b.pc \notin Leaving /\ (HasDir(d, p, b) <=> HasDir(d, p, a))
      BY <1>1 DEF Leaving, Ending, HasDir
    <3> QED
      BY <1>1, <2>4, <2>10, <2>11, <3>1, <3>2 DEF AtPlace
  <2>13. AtVnode(d.vn[v], p, b, W[p], d.wake)
    BY <1>1, <1>3, <2>4, <2>7, <2>8, <2>11 DEF AtVnode, Alike
  <2>14. State(d, [With(p, a) EXCEPT ![p] = b], W)
    BY <1>1, <2>3, <2>6, <2>8, <2>9, <2>10, <2>11, <2>12, <2>13, Moves
  <2>15. [With(p, a) EXCEPT ![p] = b] = [pr EXCEPT ![p] = b]
    BY <2>5 DEF Inv, State, Types, With
  <2>16. State(d, [pr EXCEPT ![p] = b], [wchan EXCEPT ![p] = Vp(v)])
    BY <2>14, <2>15 DEF W
  <2>17. b.pc \notin Transit /\ d.wake = {}
    BY <1>1, <2>7 DEF Transit
  <2> QED
    BY <2>1, <2>5, <2>16, <2>17, Ends
<1> QED
  BY <1>2, <1>3

(* What p releases has a user, and is not on the free list.                 *)
LEMMA Closing ==
  ASSUME NEW c, NEW p \in Proc, NEW a, Now(c, p, a), a.pc = "closing", NEW v, v = a.vp, NEW d, d = vreleRef(c, v)
  PROVE  /\ v \in Vnode /\ d \in World /\ d.vn[v] \in VnodeRec /\ d.panicked = c.panicked
         /\ ~d.vn[v].live => ~d.vn[v].mode
<1>1. a.pc \in Placed /\ a.pc \in Referring
  BY DEF Placed, Referring, Using
<1>2. /\ v \in Vnode /\ VnodeOK(c.vn[v]) /\ Owned(c, With(p, a), v) /\ c \in World /\ Once(c.free)
  BY <1>1, NowIs
<1>3. With(p, a)[p] = a
  BY WithAt
<1>4. c.vn[v].use # 0
  BY <1>1, <1>2, <1>3, UsersCounted DEF Owned
<1>5. ~c.vn[v].deadb /\ ~In(c.free, v)
  BY <1>2, <1>4 DEF VnodeOK, Owned
<1>6. d \in World /\ ButUse(c.vn[v], d.vn[v]) /\ d.panicked = c.panicked
  BY <1>2, <1>4, <1>5, VreleRefIs
<1>7. d.vn[v] \in VnodeRec
  BY <1>2, <1>6, WorldType
<1> QED
  BY <1>2, <1>6, <1>7 DEF VnodeOK, ButUse

(* p releases v, and somebody else uses it or it needs no VOP_INACTIVE().   *)
LEMMA ReleasesNow ==
  ASSUME NEW c, NEW p \in Proc, NEW a, Now(c, p, a), a.pc = "closing", NEW v \in Vnode, a.vp = v,
         NEW d, d = vreleRef(c, v), d.vn[v].use = 0 => ~d.vn[v].mode,
         NEW b \in ProcRec, b = At(a, "leaving")
  PROVE  Now(d, p, b) /\ (d.vn[v].use = 0 => d.vn[v].locked = NoProc)
<1>1. wchan[p] = NoChan /\ State(c, With(p, a), wchan) /\ With(p, a)[p] = a
  BY WithAt DEF Now
<1> DEFINE P == With(p, a)
<1>2. wchan[p] = NoChan /\ State(c, P, wchan) /\ P[p].vp = v /\ P[p].pc = "closing" /\ P[p] = a
  BY <1>1
<1> HIDE DEF P
<1>4. Leaves(d, d, v, p, P[p], b)
  BY <1>2 DEF Leaves
<1>3. State(d, [P EXCEPT ![p] = b], wchan) /\ (d.vn[v].use = 0 => d.vn[v].locked = NoProc)
  BY <1>2, <1>4, Releases
<1> QED
  BY <1>3, Goes DEF P

(* Nobody else does, and VOP_INACTIVE() has it locked.                      *)
LEMMA LastReleasesNow ==
  ASSUME NEW c, NEW p \in Proc, NEW a, Now(c, p, a), a.pc = "closing", NEW v \in Vnode, a.vp = v,
         NEW d, d = vreleRef(c, v), d.vn[v].use = 0, d.vn[v].live, d.vn[v].mode,
         NEW b \in ProcRec, b = At(a, "inactive"), NEW e, e = Locked(d, v, p)
  PROVE  Now(e, p, b) /\ d.vn[v].locked = NoProc
<1>1. wchan[p] = NoChan /\ State(c, With(p, a), wchan) /\ With(p, a)[p] = a
  BY WithAt DEF Now
<1> DEFINE P == With(p, a)
<1>2. wchan[p] = NoChan /\ State(c, P, wchan) /\ P[p].vp = v /\ P[p].pc = "closing" /\ P[p] = a
  BY <1>1
<1> HIDE DEF P
<1>4. Leaves(d, e, v, p, P[p], b)
  BY <1>2 DEF Leaves
<1>3. State(e, [P EXCEPT ![p] = b], wchan) /\ d.vn[v].locked = NoProc
  BY <1>2, <1>4, Releases
<1> QED
  BY <1>3, Goes DEF P

(* vrele()                                                                  *)
LEMMA VrelesNow ==
  ASSUME NEW c, NEW p \in Proc, NEW r \in ProcRec, Now(c, p, At(r, "closing")), Vrele(c, p, r)
  PROVE  Inv'
<1> DEFINE a == At(r, "closing")
           b == At(r, "leaving")
           g == At(r, "inactive")
           v == r.vp
           d == vreleRef(c, v)
           x == d.vn[v]
<1>1. /\ a \in ProcRec /\ a.pc = "closing" /\ a.vp = v
      /\ b \in ProcRec /\ b.pc = "leaving" /\ b.vp = v /\ b = At(a, "leaving") /\ At(r, "vinval") = At(b, "vinval")
      /\ g \in ProcRec /\ g.pc = "inactive" /\ g = At(a, "inactive")
  BY PlacesAre, AtIs, AtAt
<1>2. Now(c, p, a) /\ Now(c, p, At(r, "closing"))
  OBVIOUS
<1>3. \/ /\ x.use > 0 \/ ~x.live \/ (~x.mode /\ x.vx)
         /\ Continue(d, p, r)
      \/ /\ ~(x.use > 0) /\ x.live /\ ~x.mode /\ ~x.vx /\ Vgone(d, p, r)
      \/ /\ ~(x.use > 0) /\ x.live /\ x.mode
         /\ Do([d EXCEPT !.vn[r.vp].locked = p, !.panicked = (x.locked # NoProc)], p, g, NoChan)
  BY DEF Vrele
<1>4. b = At(r, "leaving") /\ d = vreleRef(c, v)
  OBVIOUS
<1> HIDE DEF a, b, g, d
<1>5. v \in Vnode /\ d \in World /\ x \in VnodeRec /\ d.panicked = c.panicked /\ (~x.live => ~x.mode)
  BY <1>1, <1>2, <1>4, Closing
<1>6. wchan[p] = NoChan /\ State(c, With(p, a), wchan) /\ With(p, a)[p] = a
  BY <1>2, WithAt DEF Now
<1>7. x.use \in Nat
  BY <1>5, VnodeType
<1>8. ASSUME x.use = 0 => ~x.mode PROVE Now(d, p, b) /\ (x.use = 0 => x.locked = NoProc)
  BY <1>1, <1>2, <1>4, <1>5, <1>8, ReleasesNow
<1>9. CASE (x.use > 0 \/ ~x.live \/ (~x.mode /\ x.vx)) /\ Continue(d, p, r)
  <2>1. x.use = 0 => ~x.mode
    BY <1>5, <1>7, <1>9
  <2>2. Now(d, p, At(r, "leaving"))
    BY <1>4, <1>8, <2>1
  <2> QED
    BY <1>9, <2>2, Continues
<1>10. CASE ~(x.use > 0) /\ x.live /\ ~x.mode /\ ~x.vx /\ Vgone(d, p, r)
  <2>1. x.use = 0 /\ Now(d, p, b) /\ x.locked = NoProc
    BY <1>7, <1>8, <1>10
  <2>2. Vclean(d, p, r)
    BY <1>10 DEF Vgone
  <2> DEFINE l == LockTry(d, p, v)
  <2>3. l.is # "sleep" /\ l.k = Locked(d, v, p)
    BY <1>10, <2>1 DEF LockTry, Locked
  <2>4. Do(Cleaned(l.k, v), p, At(b, "vinval"), NoChan)
    BY <1>1, <2>2, <2>3 DEF Vclean, Cleaned
  <2> DEFINE e == l.k
  <2>5. e = (IF d.vn[v].live THEN Locked(d, v, p) ELSE d) /\ Do(Cleaned(e, v), p, At(b, "vinval"), NoChan)
    BY <1>10, <2>3, <2>4
  <2> HIDE DEF e
  <2> QED
    BY <1>1, <1>5, <1>10, <2>1, <2>5, CleansNow
<1>11. CASE ~(x.use > 0) /\ x.live /\ x.mode
            /\ Do([d EXCEPT !.vn[r.vp].locked = p, !.panicked = (x.locked # NoProc)], p, g, NoChan)
  <2> DEFINE e == Locked(d, v, p)
  <2>1. x.use = 0 /\ e = Locked(d, v, p)
    BY <1>7, <1>11
  <2>2. [d EXCEPT !.vn[r.vp].locked = p, !.panicked = (x.locked # NoProc)]
          = [Locked(d, v, p) EXCEPT !.panicked = (x.locked # NoProc)]
    BY <1>5 DEF Locked, World
  <2> HIDE DEF e
  <2>8. d.panicked = FALSE
    <3>1. ~c.panicked /\ c \in World
      BY <1>2, NowIs
    <3> QED
      BY <1>5, <3>1, WorldType
  <2>3. Now(e, p, g) /\ x.locked = NoProc
    BY <1>1, <1>2, <1>4, <1>5, <1>11, <2>1, LastReleasesNow
  <2>4. e \in World /\ e.panicked = FALSE
    BY <1>5, <2>1, <2>8, LockIs DEF Only, RestIs
  <2>5. [e EXCEPT !.panicked = (x.locked # NoProc)] = e
    BY <2>3, <2>4 DEF World
  <2>6. Do(e, p, g, NoChan)
    BY <1>11, <2>1, <2>2, <2>5
  <2>7. Now(e, p, g) /\ g.pc \notin Transit
    BY <1>1, <2>3 DEF Transit
  <2> QED
    BY <2>6, <2>7, Done
<1> QED
  BY <1>3, <1>9, <1>10, <1>11

(* vput()                                                                   *)
LEMMA VputsNow ==
  ASSUME NEW c, NEW p \in Proc, NEW r \in ProcRec, Now(c, p, At(r, "putting")), Vput(c, p, r)
  PROVE  Inv'
<1> DEFINE a == At(r, "putting")
           b == At(r, "closing")
           v == r.vp
           d == Unlock(c, v)
<1>1. /\ a \in ProcRec /\ a.pc = "putting" /\ a.vp = v /\ a.pc \in Placed
      /\ b \in ProcRec /\ b.pc = "closing" /\ b.vp = v /\ b = At(a, "closing")
  BY PlacesAre, AtIs, AtAt DEF Placed, Referring, Using
<1>2. Now(c, p, a)
  OBVIOUS
<1>3. Vrele(d, p, r) /\ b = At(r, "closing") /\ d = Unlock(c, v)
  BY DEF Vput
<1> HIDE DEF a, b, d
<1>4. a.pc \in Placed => a.vp \in Vnode
  BY <1>2, NowIs
<1>5. wchan[p] = NoChan /\ State(c, With(p, a), wchan) /\ With(p, a)[p] = a
  BY <1>2, WithAt DEF Now
<1>6. State(d, [With(p, a) EXCEPT ![p] = b], wchan)
  BY <1>1, <1>3, <1>4, <1>5, Unlocks
<1>7. Now(d, p, b)
  BY <1>1, <1>2, <1>6, Goes
<1> QED
  BY <1>3, <1>7, VrelesNow

(* p has v from now on, perhaps to clean it.                                *)
Of(r, v)    == [r EXCEPT !.vp = v]
Takenr(r, v) == [r EXCEPT !.vp = v, !.ret = "getnewvnode"]

LEMMA OfIs ==
  ASSUME NEW r \in ProcRec, NEW v \in Vnode
  PROVE  /\ Of(r, v) \in ProcRec /\ Of(r, v).vp = v /\ Of(r, v).pc = r.pc /\ Of(r, v).op = r.op
         /\ Of(r, v).name = r.name /\ Of(r, v).ino = r.ino /\ Of(r, v).ret = r.ret /\ Of(r, v).fresh = r.fresh
         /\ Takenr(r, v) \in ProcRec /\ Takenr(r, v).vp = v
BY DEF Of, Takenr, ProcRec

LEMMA FailingIs ==
  ASSUME NEW r \in ProcRec, NEW f, f = Failing(r)
  PROVE  /\ f \in ProcRec /\ f.pc = r.pc /\ f.op = r.op /\ f.name = r.name /\ f.ino = r.ino /\ f.vp = r.vp
         /\ f.fresh = r.fresh /\ f.ret = IF r.op = "handle" THEN "idle" ELSE "fail"
BY DEF Failing, ProcRec

(* getnewvnode() takes the first free vnode.                                *)
LEMMA GrabsNow ==
  ASSUME NEW c, NEW p \in Proc, NEW a, Now(c, p, a), a.pc = "hashwait", c.hashlock = p,
         \A u \in Vnode : c.vn[u].ino # a.ino, c.free # <<>>, NEW v, v = Head(c.free),
         NEW d, d = Grabbed(c, v), NEW b \in ProcRec, Grabbing(a, v, b)
  PROVE  /\ v \in Vnode /\ c.vn[v].use = 0 /\ Now(d, p, b) /\ d.wake = c.wake
         /\ c.vn[v].bad => Clear(d, wchan, p, v, b.ino)
<1>1. wchan[p] = NoChan /\ State(c, With(p, a), wchan) /\ With(p, a)[p] = a
  BY WithAt DEF Now
<1> DEFINE P == With(p, a)
<1>2. wchan[p] = NoChan /\ State(c, P, wchan) /\ P[p].ino = a.ino /\ P[p].pc = "hashwait" /\ P[p] = a
  BY <1>1
<1> HIDE DEF P
<1>3. Grabbing(P[p], v, b)
  BY <1>2
<1>4. \A u \in Vnode : c.vn[u].ino # P[p].ino
  BY <1>2
<1>5. /\ v \in Vnode /\ c.vn[v].use = 0 /\ State(d, [P EXCEPT ![p] = b], wchan)
      /\ c.vn[v].bad => Clear(d, wchan, p, v, b.ino)
  BY <1>2, <1>3, <1>4, Grabs
<1>6. c \in World /\ Once(c.free)
  BY NowIs
<1>7. d.wake = c.wake
  BY <1>5, <1>6, GrabbedIs
<1> QED
  BY <1>5, <1>7, Goes DEF P

(* getnewvnode()                                                            *)
LEMMA GetsNow ==
  ASSUME NEW c, NEW p \in Proc, NEW r \in ProcRec, Now(c, p, At(r, "hashwait")), c.hashlock = p,
         \A u \in Vnode : c.vn[u].ino # r.ino, c.wake = {}, Getnewvnode(c, p, r)
  PROVE  Inv'
<1> DEFINE a == At(r, "hashwait")
           B == {v \in Vnode : c.vn[v].id # 0}
           n == CHOOSE x \in Vnode : x \notin B
           v == Head(c.free)
           d == Grabbed(c, v)
           f == Failing(r)
           g == Takenr(r, v)
<1>1. /\ a \in ProcRec /\ a.pc = "hashwait" /\ a.op = r.op /\ a.name = r.name /\ a.ino = r.ino
      /\ a.ret = r.ret /\ a.fresh = r.fresh
  BY PlacesAre, AtIs
<1>2. Now(c, p, a)
  OBVIOUS
<1>3. \/ /\ (c.free = <<>> /\ Cardinality(B) < 2 * desiredvnodes) \/ Cardinality(B) < desiredvnodes
         /\ NewVnode(c, p, Of(r, n))
      \/ c.free = <<>> /\ Continue([c EXCEPT !.hashlock = NoProc], p, f)
      \/ c.free # <<>> /\ c.vn[v].use # 0
      \/ c.free # <<>> /\ c.vn[v].use = 0 /\ c.vn[v].bad /\ NewVnode(d, p, Of(r, v))
      \/ c.free # <<>> /\ c.vn[v].use = 0 /\ Vgone(d, p, g)
  BY DEF Getnewvnode, Of, Takenr, Grabbed
<1>4. /\ c \in World /\ AtPlace(c, p, a) /\ ~c.panicked /\ Entries(c.nc) /\ Len(c.nc) <= NameCacheSize
  BY <1>2, NowIs
<1>5. Searching(a) /\ a.pc \notin Placed /\ a.pc \notin Leaving
  BY <1>1 DEF Searching, Placed, Leaving, Referring, Using, Ending
<1>6. CASE /\ (c.free = <<>> /\ Cardinality(B) < 2 * desiredvnodes) \/ Cardinality(B) < desiredvnodes
           /\ NewVnode(c, p, Of(r, n))
  <2>1. Cardinality(B) < 2 * desiredvnodes
    <3>1. IsFiniteSet(B)
      BY VnodesAssumption, FS_Subset
    <3>2. Cardinality(B) \in Nat /\ desiredvnodes \in Nat
      BY <3>1, FS_CardinalityType, VnodesAssumption
    <3> HIDE DEF B
    <3> QED
      BY <1>6, <3>2
  <2>2. n \in Vnode /\ c.vn[n].id = 0
    <3>1. \E u \in Vnode : u \notin B
      BY <2>1, UnusedExists
    <3> QED
      BY <3>1
  <2>3. NewVnode(c, p, Of(r, n))
    BY <1>6
  <2> HIDE DEF n
  <2> DEFINE b == At(Of(r, n), "hashwait")
  <2>4. /\ Of(r, n) \in ProcRec /\ Of(r, n).vp = n /\ Of(r, n).ino = r.ino
        /\ b \in ProcRec /\ b.pc = "hashwait" /\ b.op = r.op /\ b.name = r.name /\ b.ino = r.ino
        /\ b.ret = r.ret /\ b.fresh = r.fresh
    <3> DEFINE h == Of(r, n)
    <3>1. /\ h \in ProcRec /\ h.vp = n /\ h.op = r.op /\ h.name = r.name /\ h.ino = r.ino
          /\ h.ret = r.ret /\ h.fresh = r.fresh
      BY <2>2, OfIs
    <3>2. b = At(h, "hashwait")
      OBVIOUS
    <3> HIDE DEF h, b
    <3>3. /\ b \in ProcRec /\ b.pc = "hashwait" /\ b.op = h.op /\ b.name = h.name /\ b.ino = h.ino
          /\ b.ret = h.ret /\ b.fresh = h.fresh
      BY <3>1, <3>2, PlacesAre, AtIs
    <3> QED
      BY <3>1, <3>3 DEF h
  <2>5. b = At(Of(r, n), "hashwait")
    OBVIOUS
  <2> HIDE DEF b, a
  <2>6. SameKind(a, b) /\ b.pc \notin Placed
    BY <1>1, <2>4, Nowhere
  <2>7. (Fresh(a) <=> Fresh(b)) /\ Searching(b) /\ ~Hand(b)
    BY <1>1, <2>4 DEF Fresh, Searching, Hand
  <2>8. AtPlace(c, p, b)
    <3>1. HasDir(c, p, b) <=> HasDir(c, p, a)
      BY <1>1, <2>4 DEF HasDir
    <3>2. b.pc \notin Leaving
      BY <2>4 DEF Leaving, Ending
    <3> QED
      BY <1>1, <1>4, <1>5, <2>4, <2>6, <2>7, <3>1, <3>2 DEF AtPlace
  <2>9. Beside(c, c, p)
    BY <1>2, SameBeside
  <2>10. Now(c, p, b)
    BY <1>1, <1>2, <2>4, <2>6, <2>7, <2>8, <2>9, Shifts
  <2>11. State(c, With(p, b), wchan)
    BY <2>10 DEF Now
  <2>12. Clear(c, wchan, p, n, Of(r, n).ino)
    BY <2>2, <2>4, <2>11, Unused
  <2> QED
    BY <2>2, <2>3, <2>4, <2>5, <2>10, <2>12, News
<1>7. CASE c.free = <<>> /\ Continue([c EXCEPT !.hashlock = NoProc], p, f)
  <2> DEFINE e == [c EXCEPT !.hashlock = NoProc]
             b == At(f, "leaving")
  <2>1. /\ e \in World /\ e.vn = c.vn /\ e.free = c.free /\ e.nc = c.nc /\ e.dir = c.dir
        /\ e.dirlock = c.dirlock /\ e.hashlock = NoProc /\ e.alloc = c.alloc /\ e.panicked = c.panicked
        /\ e.wake = c.wake
    BY <1>4 DEF World
  <2>2. /\ f \in ProcRec /\ b \in ProcRec /\ b.pc = "leaving" /\ b.op = r.op /\ b.name = r.name /\ b.ino = r.ino
        /\ b.fresh = r.fresh /\ b.ret = IF r.op = "handle" THEN "idle" ELSE "fail"
    BY FailingIs, PlacesAre, AtIs
  <2>3. Continue(e, p, f) /\ b = At(f, "leaving")
    BY <1>7
  <2> HIDE DEF e, b, f, a
  <2>4. Beside(c, e, p)
    BY <1>4, <2>1 DEF Beside
  <2>5. SameKind(a, b) /\ b.pc \notin Placed
    BY <1>1, <2>2, Nowhere
  <2>6. Fresh(a) <=> Fresh(b)
    BY <1>1, <1>4, <1>5, <2>2 DEF Fresh, Searching, Hand, AtPlace
  <2>7. ~Searching(b) /\ ~Hand(b) /\ b.pc \in Leaving
    BY <2>2 DEF Searching, Hand, Leaving
  <2>8. AtPlace(e, p, b)
    <3>1. HasDir(e, p, b) <=> HasDir(c, p, a)
      BY <1>1, <2>1, <2>2 DEF HasDir
    <3>2. b.ret \in {"done", "fail"} => HasDir(e, p, b)
      BY <1>1, <1>4, <1>5, <2>2, <3>1 DEF AtPlace
    <3>3. Fresh(b) => /\ b.ino \in e.alloc /\ ~Linked(e, b.ino)
                      /\ \A u \in Vnode : e.vn[u].ino = b.ino => ~e.vn[u].mode
      BY <1>1, <1>4, <2>1, <2>2, <2>6 DEF AtPlace, Linked
    <3> QED
      BY <2>2, <2>5, <2>7, <3>2, <3>3 DEF AtPlace
  <2>9. b.ino = a.ino
    BY <1>1, <2>2
  <2>10. Now(e, p, b)
    BY <1>2, <2>1, <2>2, <2>4, <2>5, <2>6, <2>8, <2>9, Shifts
  <2> QED
    BY <2>2, <2>3, <2>10, Continues
<1>8. CASE c.free # <<>>
  <2> DEFINE b == At(g, "vclean")
             h == Of(a, v)
  <2>0. d = Grabbed(c, v) /\ v = Head(c.free) /\ \A u \in Vnode : c.vn[u].ino # a.ino
    BY <1>1
  <2>1. v \in Vnode
    BY <1>4, <1>8, TailList, NowIs, WorldType
  <2>2. /\ g \in ProcRec /\ b \in ProcRec /\ Grabbing(a, v, b)
        /\ Of(r, v) \in ProcRec /\ Of(r, v).vp = v /\ Of(r, v).ino = r.ino
        /\ h \in ProcRec /\ Grabbing(a, v, h) /\ h = At(Of(r, v), "hashwait") /\ h.ino = r.ino
    <3>1. /\ g \in ProcRec /\ Of(r, v) \in ProcRec /\ Of(r, v).vp = v /\ Of(r, v).ino = r.ino
      BY <2>1, OfIs
    <3>2. b \in ProcRec
      BY <3>1, PlacesAre, AtIs
    <3>3. b = [a EXCEPT !.pc = "vclean", !.vp = v, !.ret = "getnewvnode"]
      BY DEF Takenr, At, ProcRec
    <3>4. h \in ProcRec /\ h.ino = r.ino
      BY <1>1, <2>1, OfIs
    <3>5. h = At(Of(r, v), "hashwait")
      BY DEF Of, At, ProcRec
    <3>6. h = [a EXCEPT !.vp = v]
      BY DEF Of
    <3> QED
      BY <3>1, <3>2, <3>3, <3>4, <3>5, <3>6 DEF Grabbing
  <2>3. b = At(g, "vclean")
    OBVIOUS
  <2> HIDE DEF a, b, d, g, h, v
  <2>4. /\ c.vn[v].use = 0 /\ Now(d, p, b) /\ d.wake = c.wake
    BY <1>1, <1>2, <1>8, <2>0, <2>2, GrabsNow
  <2>5. Now(d, p, h) /\ (c.vn[v].bad => Clear(d, wchan, p, v, h.ino))
    BY <1>1, <1>2, <1>8, <2>0, <2>2, GrabsNow
  <2>6. CASE c.vn[v].bad /\ NewVnode(d, p, Of(r, v))
    BY <2>1, <2>2, <2>5, <2>6, News
  <2>7. CASE Vgone(d, p, g)
    BY <2>2, <2>3, <2>4, <2>7, VgonesNow
  <2>8. (c.vn[v].bad /\ NewVnode(d, p, Of(r, v))) \/ Vgone(d, p, g) \/ (Cardinality(B) < desiredvnodes /\ NewVnode(c, p, Of(r, n)))
    BY <1>3, <1>8, <2>4
  <2> QED
    BY <1>6, <1>8, <2>6, <2>7, <2>8
<1> QED
  BY <1>3, <1>6, <1>7, <1>8
-----------------------------------------------------------------------------
(* The name cache.  The entries of t are among those of s; but for e.       *)
Among(s, t) == \A i \in 1 .. Len(t) : \E j \in 1 .. Len(s) : t[i] = s[j]
Joined(s, t, e) == \A i \in 1 .. Len(t) : t[i] = e \/ \E j \in 1 .. Len(s) : t[i] = s[j]

(* d is c but for the entries, which are well formed and not too many.      *)
Cached(c, d) ==
  /\ d \in World /\ d.vn = c.vn /\ d.free = c.free /\ d.nextid = c.nextid /\ d.dir = c.dir /\ d.dirlock = c.dirlock
  /\ d.hashlock = c.hashlock /\ d.alloc = c.alloc /\ d.panicked = c.panicked /\ d.wake = c.wake
  /\ Entries(d.nc) /\ Len(d.nc) <= NameCacheSize

(* Some of the first N numbers have a greatest.                             *)
LEMMA Greatest ==
  ASSUME NEW N \in Nat, NEW S, S \subseteq 1 .. N, S # {}
  PROVE  \E j \in S : \A h \in S : h <= j
<1> DEFINE R == OpToRel(<, Nat)
           T == {N - j : j \in S}
<1>1. IsWellFoundedOn(R, Nat)
  BY NatLessThanWellFounded, Zenon
<1>2. \A x, y \in Nat : x < y => <<x, y>> \in R
  BY DEF OpToRel
<1> HIDE DEF R
<1>3. T \subseteq Nat /\ T # {}
  <2>1. \A j \in S : j \in 1 .. N /\ N - j \in Nat
    OBVIOUS
  <2> QED
    BY <2>1
<1>4. PICK x \in T : \A y \in T : ~(<<y, x>> \in R)
  <2> HIDE DEF T
  <2> QED
    BY <1>1, <1>3, WFMin
<1>5. \A y \in T : x <= y
  <2> HIDE DEF T
  <2>1. x \in Nat /\ \A y \in T : y \in Nat /\ ~(y < x)
    BY <1>2, <1>3, <1>4
  <2> QED
    BY <2>1
<1>6. PICK j \in S : x = N - j
  BY <1>4
<1>7. \A h \in S : N - j <= N - h
  BY <1>5, <1>6
<1> QED
  BY <1>7

(* An entry taken out, and one put at the end.                              *)
LEMMA CutIs ==
  ASSUME NEW s \in Seq(Entry), NEW n \in 1 .. Len(s), NEW t, t = RemoveAt(s, n)
  PROVE  t \in Seq(Entry) /\ Len(t) = Len(s) - 1 /\ Among(s, t)
<1> DEFINE a == SubSeq(s, 1, n - 1)
           z == SubSeq(s, n + 1, Len(s))
<1>1. t = a \o z /\ Len(s) \in Nat
  BY DEF RemoveAt
<1>2. a \in Seq(Entry) /\ Len(a) = n - 1 /\ \A i \in 1 .. n - 1 : a[i] = s[i]
  OBVIOUS
<1>3. z \in Seq(Entry) /\ Len(z) = Len(s) - n /\ \A i \in 1 .. Len(s) - n : z[i] = s[n + i]
  OBVIOUS
<1> HIDE DEF a, z
<1>4. t \in Seq(Entry) /\ Len(t) = Len(s) - 1
  <2>1. a \o z \in Seq(Entry) /\ Len(a \o z) = Len(a) + Len(z)
    <3>1. a \in Seq(Entry) /\ z \in Seq(Entry)
      BY <1>2, <1>3
    <3> QED
      BY <3>1, SMTT(60)
  <2> QED
    BY <1>1, <1>2, <1>3, <2>1
<1>5. ASSUME NEW i \in 1 .. Len(s) - 1 PROVE \E j \in 1 .. Len(s) : t[i] = s[j]
  <2>1. CASE i < n
    BY <1>1, <1>2, <1>3, <2>1
  <2>2. CASE ~(i < n)
    <3>1. i - (n - 1) \in 1 .. Len(s) - n /\ t[i] = z[i - (n - 1)]
      BY <1>1, <1>2, <1>3, <2>2
    <3>2. z[i - (n - 1)] = s[n + (i - (n - 1))]
      BY <1>3, <3>1
    <3> QED
      BY <1>1, <3>1, <3>2
  <2> QED
    BY <2>1, <2>2
<1> QED
  BY <1>4, <1>5 DEF Among

LEMMA JoinIs ==
  ASSUME NEW s \in Seq(Entry), NEW e \in Entry, NEW t, t = Append(s, e)
  PROVE  t \in Seq(Entry) /\ Len(t) = Len(s) + 1 /\ Joined(s, t, e)
<1>1. t \in Seq(Entry) /\ Len(t) = Len(s) + 1 /\ Len(s) \in Nat
  OBVIOUS
<1>2. \A i \in 1 .. Len(s) + 1 : t[i] = IF i = Len(s) + 1 THEN e ELSE s[i]
  OBVIOUS
<1> QED
  BY <1>1, <1>2 DEF Joined

(* Well-formed entries stay so.                                             *)
LEMMA AmongEntries ==
  ASSUME NEW s, NEW t, Entries(s), Among(s, t)
  PROVE  Entries(t)
BY DEF Entries, Among

LEMMA JoinedEntries ==
  ASSUME NEW s, NEW t, NEW e, Entries(s), Joined(s, t, e), e.vp # NoVnode => e.vpid # 0
  PROVE  Entries(t)
BY DEF Entries, Joined

(* The entries alone change.                                                *)
LEMMA CachedIs ==
  ASSUME NEW c \in World, NEW s \in Seq(Entry), NEW d, d = [c EXCEPT !.nc = s], Entries(s), Len(s) <= NameCacheSize
  PROVE  Cached(c, d) /\ d.nc = s
<1>1. /\ d \in World /\ d.vn = c.vn /\ d.free = c.free /\ d.nextid = c.nextid /\ d.dir = c.dir
      /\ d.dirlock = c.dirlock /\ d.hashlock = c.hashlock /\ d.alloc = c.alloc /\ d.panicked = c.panicked
      /\ d.wake = c.wake /\ d.nc = s
  BY DEF World
<1> QED
  BY <1>1 DEF Cached

(* cache_enter()                                                            *)
Entered(c, n, v) == [name |-> n, dvpid |-> DirId, vp |-> v, vpid |-> IF v = NoVnode THEN 0 ELSE c.vn[v].id,
                     again |-> v # NoVnode /\ c.vn[v].id > c.nextid]

LEMMA EnterIs ==
  ASSUME NEW c \in World, Entries(c.nc), Len(c.nc) <= NameCacheSize, NEW n \in Name,
         NEW v \in Vnode \cup {NoVnode}, v \in Vnode => c.vn[v].id # 0, NEW d, d = cache_enter(c, n, v)
  PROVE  Cached(c, d) /\ Joined(c.nc, d.nc, Entered(c, n, v))
<1> DEFINE e == Entered(c, n, v)
           s == c.nc
           z == IF Len(s) < NameCacheSize THEN s ELSE Tail(s)
           t == Append(z, e)
<1>1. e \in Entry /\ (e.vp # NoVnode => e.vpid # 0)
  <2>1. v \in Vnode => c.vn[v].id \in 0 .. IdMod - 1
    BY WorldType, VnodeType
  <2>2. NoVnode \notin Vnode /\ 0 \in 0 .. IdMod - 1
    BY VnodesAssumption, NameCacheAssumption
  <2> QED
    BY <2>1, <2>2 DEF Entered, Entry
<1>2. s \in Seq(Entry) /\ Len(s) \in Nat /\ NameCacheSize \in Nat \ {0} /\ Len(s) <= NameCacheSize
  BY WorldType, NameCacheAssumption
<1>3. d = [c EXCEPT !.nc = t]
  BY DEF cache_enter, Entered
<1> HIDE DEF s, e
<1>4. z \in Seq(Entry) /\ Len(z) + 1 <= NameCacheSize /\ Len(z) \in Nat /\ Among(s, z)
  <2>1. CASE Len(s) < NameCacheSize
    BY <1>2, <2>1 DEF Among
  <2>2. CASE ~(Len(s) < NameCacheSize)
    <3>1. s # <<>> /\ z = Tail(s)
      BY <1>2, <2>2
    <3>2. z \in Seq(Entry) /\ Len(z) = Len(s) - 1 /\ \A i \in 1 .. Len(s) - 1 : z[i] = s[i + 1]
      BY <1>2, <3>1
    <3>3. Among(s, z)
      BY <1>2, <3>2 DEF Among
    <3> QED
      BY <1>2, <3>2, <3>3
  <2> QED
    BY <2>1, <2>2
<1> HIDE DEF z
<1>5. t \in Seq(Entry) /\ Len(t) = Len(z) + 1 /\ Joined(z, t, e)
  BY <1>1, <1>4, JoinIs
<1> HIDE DEF t
<1>6. Joined(s, t, e)
  BY <1>4, <1>5 DEF Joined, Among
<1>7. Entries(t)
  BY <1>1, <1>6, JoinedEntries DEF s
<1>8. Cached(c, d) /\ d.nc = t
  BY <1>3, <1>4, <1>5, <1>7, CachedIs
<1> QED
  BY <1>6, <1>8 DEF s, e

(* cache_lookup()                                                           *)
LEMMA LookupIs ==
  ASSUME NEW c \in World, Entries(c.nc), Len(c.nc) <= NameCacheSize, NEW n, NEW op,
         NEW l, l = cache_lookup(c, n, op)
  PROVE  /\ Cached(c, l.k) /\ Among(c.nc, l.k.nc)
         /\ l.is = "hit" => l.vp \in Vnode /\ c.vn[l.vp].id # 0
         /\ l.is \in {"miss", "none", "hit"}
<1> DEFINE s == c.nc
           M == Matches(c, n)
           i == Newest(c, n)
           e == s[i]
           t == RemoveAt(s, i)
           u == Append(t, e)
<1>1. s \in Seq(Entry) /\ Len(s) \in Nat /\ NameCacheSize \in Nat /\ Len(s) <= NameCacheSize
  BY WorldType, NameCacheAssumption
<1>2. /\ M = {} => l = [k |-> c, is |-> "miss", vp |-> NoVnode]
      /\ M # {} => /\ l.k = [c EXCEPT !.nc = t] \/ l.k = [c EXCEPT !.nc = u]
                   /\ l.is = "hit" => l.vp = e.vp /\ e.vp # NoVnode /\ e.vpid = c.vn[e.vp].id
                   /\ l.is \in {"miss", "none", "hit"}
  BY DEF cache_lookup
<1>3. CASE M = {}
  <2>1. Cached(c, c) /\ Among(s, s)
    BY DEF Cached, Among
  <2> QED
    BY <1>2, <1>3, <2>1
<1>4. CASE M # {}
  <2>1. M \subseteq 1 .. Len(s) /\ \A j \in M : s[j].dvpid = DirId
    BY <1>1 DEF Matches
  <2>2. \E j \in M : \A h \in M : h <= j
    <3> HIDE DEF M
    <3> QED
      BY <1>1, <1>4, <2>1, Greatest
  <2>3. i \in M
    BY <2>2 DEF Newest
  <2>4. i \in 1 .. Len(s) /\ e.dvpid = DirId /\ e \in Entry
    BY <1>1, <2>1, <2>3
  <2> HIDE DEF s, i, M
  <2>5. t \in Seq(Entry) /\ Len(t) = Len(s) - 1 /\ Among(s, t)
    BY <1>1, <2>4, CutIs
  <2> HIDE DEF t, e
  <2>6. u \in Seq(Entry) /\ Len(u) = Len(t) + 1 /\ Joined(t, u, e)
    BY <2>4, <2>5, JoinIs
  <2> HIDE DEF u
  <2>7. Among(s, u)
    BY <2>4, <2>5, <2>6 DEF Among, Joined, e
  <2>8. Entries(t) /\ Entries(u)
    BY <2>5, <2>7, AmongEntries DEF s
  <2>9. Cached(c, l.k) /\ Among(c.nc, l.k.nc)
    <3>1. Len(t) <= NameCacheSize /\ Len(u) <= NameCacheSize
      BY <1>1, <2>5, <2>6
    <3>2. CASE l.k = [c EXCEPT !.nc = t]
      BY <2>5, <2>8, <3>1, <3>2, CachedIs DEF s
    <3>3. CASE l.k = [c EXCEPT !.nc = u]
      BY <2>6, <2>7, <2>8, <3>1, <3>3, CachedIs DEF s
    <3> QED
      BY <1>2, <1>4, <3>2, <3>3
  <2>10. e.vp # NoVnode => e.vp \in Vnode /\ e.vpid # 0
    BY <2>4 DEF Entry, Entries, e, s
  <2> QED
    BY <1>2, <1>4, <2>9, <2>10
<1> QED
  BY <1>3, <1>4

LEMMA CachedBeside ==
  ASSUME NEW c, NEW p \in Proc, NEW a, Now(c, p, a), NEW d, Dirs(c, d, p), NEW e, Cached(d, e)
  PROVE  Beside(c, e, p) /\ e.alloc = c.alloc /\ e.dir = c.dir /\ e.vn = c.vn
<1>1. ~c.panicked
  BY NowIs
<1>2. /\ d.vn = c.vn /\ d.free = c.free /\ d.dir = c.dir /\ d.hashlock = c.hashlock /\ d.alloc = c.alloc
      /\ d.panicked = c.panicked /\ d.wake = c.wake
      /\ \A q \in Proc : q # p => \A D \in Dir : c.dirlock[D] = q => d.dirlock[D] = q
  BY DEF Dirs
<1> QED
  BY <1>1, <1>2 DEF Cached, Beside

(* What p knows with the vnode of the file, locked.                         *)
LEMMA FoundIs ==
  ASSUME NEW c, NEW p \in Proc, NEW a, Now(c, p, a), a.pc = "found", NEW v, v = a.vp
  PROVE  /\ v \in Vnode /\ c.vn[v].live /\ c.vn[v].locked = p /\ c.vn[v].ino = a.ino /\ c.vn[v].id # 0
         /\ a.ino \in Ino /\ (Fresh(a) <=> a.fresh)
         /\ a.op = "handle" => ~a.fresh
         /\ a.op # "handle" => HasDir(c, p, a)
         /\ a.op # "handle" /\ ~a.fresh => c.dir[a.name] = a.ino
         /\ a.fresh => /\ a.op = "create" /\ c.dir[a.name] = NoIno /\ a.ino \in c.alloc
                       /\ ~Linked(c, a.ino) /\ ~c.vn[v].mode
                       /\ \A u \in Vnode : c.vn[u].ino = a.ino => ~c.vn[u].mode
<1>1. a.pc \in Placed /\ Searching(a)
  BY DEF Placed, Referring, Using, Searching
<1>2. AtPlace(c, p, a) /\ a.vp \in Vnode /\ AtVnode(c.vn[v], p, a, NoChan, c.wake) /\ VnodeOK(c.vn[v])
  BY <1>1, NowIs
<1>3. c.vn[v].live /\ c.vn[v].locked = p /\ c.vn[v].ino = a.ino /\ c.vn[v].id # 0
  BY <1>2 DEF AtVnode, VnodeOK
<1>4. Fresh(a) <=> a.fresh
  BY <1>1 DEF Fresh
<1>5. a.ino \in Ino /\ IF a.op = "handle" THEN ~a.fresh
                       ELSE /\ HasDir(c, p, a)
                            /\ IF a.fresh THEN a.op = "create" /\ c.dir[a.name] = NoIno
                               ELSE c.dir[a.name] = a.ino
  BY <1>1, <1>2 DEF AtPlace
<1>6. Fresh(a) => /\ a.ino \in c.alloc /\ ~Linked(c, a.ino)
                  /\ \A u \in Vnode : c.vn[u].ino = a.ino => ~c.vn[u].mode
  BY <1>2 DEF AtPlace
<1> QED
  BY <1>2, <1>3, <1>4, <1>5, <1>6

LEMMA FoundKind ==
  ASSUME NEW a, a.pc = "found", NEW b, b.pc \in {"got", "putting", "remove", "makeinode"}, b.vp = a.vp
  PROVE  SameKind(a, b) /\ b.pc \in Placed /\ ~Searching(b) /\ ~Hand(b)
BY DEF SameKind, Placed, Referring, Using, Ending, Locking, Searching, Hand

(* ufs_lookup(), or ffs_fhtovp(), with the vnode of the file.               *)
LEMMA FoundNow ==
  ASSUME NEW c, NEW p \in Proc, NEW r \in ProcRec, Now(c, p, At(r, "found")), Found(c, p, r)
  PROVE  Inv'
<1> DEFINE a == At(r, "found")
           v == r.vp
<1>1. /\ a \in ProcRec /\ a.pc = "found" /\ a.op = r.op /\ a.name = r.name /\ a.ino = r.ino
      /\ a.vp = v /\ a.fresh = r.fresh
  BY PlacesAre, AtIs
<1>2. Now(c, p, a)
  OBVIOUS
<1>3. c \in World /\ ~c.panicked /\ Entries(c.nc) /\ Len(c.nc) <= NameCacheSize /\ Beside(c, c, p)
  BY <1>2, NowIs, SameBeside
<1> HIDE DEF a
<1>4. CASE r.op = "handle" /\ c.vn[v].mode
  <2> DEFINE b == At(r, "got")
  <2>1. b \in ProcRec /\ b.pc = "got" /\ b.vp = v /\ b.fresh = r.fresh
    BY PlacesAre, AtIs
  <2>2. Do(c, p, b, NoChan)
    BY <1>4 DEF Found
  <2> HIDE DEF b
  <2>3. c.vn[v].live /\ c.vn[v].locked = p /\ v \in Vnode /\ ~a.fresh /\ ~Fresh(a)
    BY <1>1, <1>2, <1>4, FoundIs
  <2>4. SameKind(a, b) /\ b.pc \in Placed /\ ~Searching(b) /\ ~Hand(b)
    BY <1>1, <2>1, FoundKind
  <2>5. ~Fresh(b)
    BY <1>1, <2>1, <2>3 DEF Fresh
  <2>6. AtPlace(c, p, b)
    BY <2>1, <2>3, <2>4, <2>5 DEF AtPlace, Leaving, Ending
  <2>7. AtVnode(c.vn[v], p, b, NoChan, c.wake)
    BY <2>1, <2>3, <2>4 DEF AtVnode
  <2>8. Now(c, p, b)
    BY <1>2, <1>3, <2>1, <2>3, <2>4, <2>5, <2>6, <2>7, Shifts
  <2> QED
    BY <2>1, <2>2, <2>8, Done DEF Transit
<1>5. CASE r.op = "handle" /\ ~c.vn[v].mode
  <2> DEFINE g == [r EXCEPT !.ret = "idle"]
             b == At(g, "putting")
  <2>1. g \in ProcRec /\ g.vp = v /\ g.ret = "idle"
    BY DEF ProcRec
  <2>2. Vput(c, p, g) /\ b = At(g, "putting")
    BY <1>5 DEF Found
  <2> HIDE DEF g
  <2>3. b \in ProcRec /\ b.pc = "putting" /\ b.vp = v /\ b.ret = "idle"
    BY <2>1, PlacesAre, AtIs
  <2> HIDE DEF b
  <2>4. c.vn[v].live /\ c.vn[v].locked = p /\ v \in Vnode /\ ~Fresh(a)
    BY <1>1, <1>2, <1>5, FoundIs
  <2>5. SameKind(a, b) /\ b.pc \in Placed /\ ~Searching(b) /\ ~Hand(b)
    BY <1>1, <2>3, FoundKind
  <2>6. ~Fresh(b)
    BY <2>3, <2>5 DEF Fresh
  <2>7. AtPlace(c, p, b)
    BY <2>3, <2>4, <2>5, <2>6 DEF AtPlace, Leaving, Ending
  <2>8. AtVnode(c.vn[v], p, b, NoChan, c.wake)
    BY <2>3, <2>4, <2>5 DEF AtVnode
  <2>9. Now(c, p, b)
    BY <1>2, <1>3, <2>3, <2>4, <2>5, <2>6, <2>7, <2>8, Shifts
  <2> QED
    BY <2>1, <2>2, <2>9, VputsNow
<1>6. CASE r.op = "unlink"
  <2> DEFINE b == At(r, "remove")
  <2>1. b \in ProcRec /\ b.pc = "remove" /\ b.vp = v /\ b.fresh = r.fresh /\ b.name = r.name /\ b.ino = r.ino
    BY PlacesAre, AtIs
  <2>2. Do(c, p, b, NoChan)
    BY <1>6 DEF Found
  <2> HIDE DEF b
  <2>3. c.vn[v].live /\ c.vn[v].locked = p /\ c.vn[v].ino = a.ino /\ v \in Vnode /\ ~a.fresh /\ ~Fresh(a)
        /\ a.ino \in Ino /\ HasDir(c, p, a) /\ c.dir[a.name] = a.ino
    BY <1>1, <1>2, <1>6, FoundIs
  <2>4. SameKind(a, b) /\ b.pc \in Placed /\ ~Searching(b) /\ ~Hand(b)
    BY <1>1, <2>1, FoundKind
  <2>5. ~Fresh(b)
    BY <1>1, <2>1, <2>3 DEF Fresh
  <2>6. AtPlace(c, p, b)
    BY <1>1, <2>1, <2>3, <2>4, <2>5 DEF AtPlace, HasDir, Leaving, Ending
  <2>7. AtVnode(c.vn[v], p, b, NoChan, c.wake)
    BY <1>1, <2>1, <2>3, <2>4 DEF AtVnode
  <2>8. Now(c, p, b)
    BY <1>2, <1>3, <2>1, <2>3, <2>4, <2>5, <2>6, <2>7, Shifts
  <2> QED
    BY <2>1, <2>2, <2>8, Done DEF Transit
<1>7. CASE r.op \notin {"handle", "unlink"} /\ r.fresh
  <2> DEFINE b == At(r, "makeinode")
             d == [c EXCEPT !.panicked = c.vn[v].mode]
  <2>1. /\ b \in ProcRec /\ b.pc = "makeinode" /\ b.vp = v /\ b.fresh = r.fresh /\ b.name = r.name
        /\ b.ino = r.ino /\ b.op = r.op
    BY PlacesAre, AtIs
  <2>2. Do(d, p, b, NoChan)
    BY <1>7 DEF Found
  <2> HIDE DEF b
  <2>3. /\ c.vn[v].live /\ c.vn[v].locked = p /\ c.vn[v].ino = a.ino /\ v \in Vnode /\ a.fresh /\ Fresh(a)
        /\ a.ino \in Ino /\ HasDir(c, p, a) /\ c.dir[a.name] = NoIno /\ ~c.vn[v].mode
        /\ a.ino \in c.alloc /\ ~Linked(c, a.ino) /\ \A u \in Vnode : c.vn[u].ino = a.ino => ~c.vn[u].mode
    <3>1. a.fresh /\ a.op # "handle"
      BY <1>1, <1>7
    <3>2. /\ c.vn[v].live /\ c.vn[v].locked = p /\ c.vn[v].ino = a.ino /\ v \in Vnode /\ a.ino \in Ino
          /\ Fresh(a) <=> a.fresh
      BY <1>1, <1>2, FoundIs
    <3>3. HasDir(c, p, a)
      BY <1>1, <1>2, <3>1, FoundIs
    <3>4. /\ c.dir[a.name] = NoIno /\ a.ino \in c.alloc /\ ~Linked(c, a.ino) /\ ~c.vn[v].mode
          /\ \A u \in Vnode : c.vn[u].ino = a.ino => ~c.vn[u].mode
      BY <1>1, <1>2, <3>1, FoundIs
    <3> QED
      BY <3>1, <3>2, <3>3, <3>4
  <2>4. d = c
    <3>1. c.vn[v].mode = FALSE /\ c.panicked = FALSE
      BY <1>3, <2>3, WorldType, VnodeType
    <3> QED
      BY <1>3, <3>1 DEF World
  <2>5. SameKind(a, b) /\ b.pc \in Placed /\ ~Searching(b) /\ ~Hand(b)
    BY <1>1, <2>1, FoundKind
  <2>6. Fresh(b)
    BY <1>1, <2>1, <2>3 DEF Fresh
  <2>7. AtPlace(c, p, b)
    BY <1>1, <2>1, <2>3, <2>5, <2>6 DEF AtPlace, HasDir, Leaving, Ending
  <2>8. AtVnode(c.vn[v], p, b, NoChan, c.wake)
    BY <1>1, <2>1, <2>3, <2>5 DEF AtVnode
  <2> HIDE DEF d
  <2>9. Now(c, p, b)
    BY <1>1, <1>2, <1>3, <2>1, <2>3, <2>5, <2>6, <2>7, <2>8, Shifts
  <2> QED
    BY <2>1, <2>2, <2>4, <2>9, Done DEF Transit
<1>8. CASE r.op \notin {"handle", "unlink"} /\ ~r.fresh
  <2> DEFINE b == At(r, "got")
             d == [c EXCEPT !.dirlock[DirOf[r.name]] = NoProc]
             e == cache_enter(d, r.name, v)
  <2>1. b \in ProcRec /\ b.pc = "got" /\ b.vp = v /\ b.fresh = r.fresh
    BY PlacesAre, AtIs
  <2>2. Do(e, p, b, NoChan)
    BY <1>8 DEF Found
  <2> HIDE DEF b
  <2>3. /\ c.vn[v].live /\ c.vn[v].locked = p /\ v \in Vnode /\ ~a.fresh /\ ~Fresh(a) /\ HasDir(c, p, a)
        /\ c.vn[v].id # 0
    BY <1>1, <1>2, <1>8, FoundIs
  <2>4. r.name \in Name /\ c.dirlock[DirOf[r.name]] = p
    BY <1>1, <2>3 DEF HasDir
  <2>5. Dirs(c, d, p)
    BY <1>3, <2>4, DirsIs
  <2> HIDE DEF d
  <2>6. Cached(d, e)
    <3>1. d \in World /\ d.vn = c.vn /\ d.nc = c.nc
      BY <2>5 DEF Dirs
    <3> QED
      BY <1>3, <2>3, <2>4, <3>1, EnterIs
  <2> HIDE DEF e
  <2>7. Beside(c, e, p) /\ e.alloc = c.alloc
    BY <1>2, <2>5, <2>6, CachedBeside
  <2>8. SameKind(a, b) /\ b.pc \in Placed /\ ~Searching(b) /\ ~Hand(b)
    BY <1>1, <2>1, FoundKind
  <2>9. ~Fresh(b)
    BY <1>1, <2>1, <2>3 DEF Fresh
  <2>10. AtPlace(e, p, b)
    BY <2>1, <2>3, <2>8, <2>9 DEF AtPlace, Leaving, Ending
  <2>11. AtVnode(c.vn[v], p, b, NoChan, c.wake)
    BY <2>1, <2>3, <2>8 DEF AtVnode
  <2>12. Now(e, p, b)
    BY <1>2, <2>1, <2>3, <2>7, <2>8, <2>9, <2>10, <2>11, Shifts
  <2> QED
    BY <2>1, <2>2, <2>12, Done DEF Transit
<1>9. r.fresh \in BOOLEAN
  BY ProcType
<1> QED
  BY <1>4, <1>5, <1>6, <1>7, <1>8, <1>9

(* Every vnode is as it should be.                                          *)
LEMMA EachOK ==
  ASSUME NEW c, NEW p \in Proc, NEW a, Now(c, p, a), NEW v \in Vnode
  PROVE  VnodeOK(c.vn[v])
BY DEF Now, State

(* vget() of a vnode that is not on its way to another use counts p.        *)
Taking(c, v, a, b) ==
  \/ a.pc = "vgetfail" /\ b.pc = "vgetlock" /\ b.name = a.name /\ b.op = a.op
  \/ a.pc = "ffs_vget" /\ b = [a EXCEPT !.pc = "taking", !.vp = v] /\ c.vn[v].ino = b.ino

LEMMA TakesNow ==
  ASSUME NEW c, NEW p \in Proc, NEW a, Now(c, p, a), NEW v \in Vnode, NEW b \in ProcRec,
         c.vn[v].id # 0, ~BeingCleaned(c, v), b.vp = v, Taking(c, v, a, b),
         NEW d, d = vgetRef(c, v)
  PROVE  /\ Now(d, p, b) /\ d \in World /\ d.wake = c.wake /\ d.panicked = c.panicked
         /\ d.vn[v].vx = c.vn[v].vx /\ d.vn[v].live = c.vn[v].live /\ d.vn[v].locked = c.vn[v].locked
         /\ d.vn[v].id = c.vn[v].id /\ d.vn[v].ino = c.vn[v].ino
<1>1. wchan[p] = NoChan /\ State(c, With(p, a), wchan)
  BY DEF Now
<1>2. With(p, a)[p] = a
  BY WithAt
<1>3. State(d, [With(p, a) EXCEPT ![p] = b], wchan)
  <2> HIDE DEF Now
  <2> QED
    BY <1>1, <1>2, Takes DEF Taking
<1>4. Now(d, p, b)
  BY <1>3, Goes
<1>5. c \in World /\ Once(c.free)
  BY NowIs
<1>6. /\ d \in World /\ d.wake = c.wake /\ d.panicked = c.panicked
      /\ Becomes(c, d, v, Referred(c.vn[v]))
  BY <1>5, VgetRefIs
<1>7. d.vn[v] = Referred(c.vn[v]) /\ c.vn[v] \in VnodeRec
  BY <1>5, <1>6, WorldType DEF Becomes
<1>8. /\ d.vn[v].vx = c.vn[v].vx /\ d.vn[v].live = c.vn[v].live /\ d.vn[v].locked = c.vn[v].locked
      /\ d.vn[v].id = c.vn[v].id /\ d.vn[v].ino = c.vn[v].ino
  BY <1>7 DEF Referred, VnodeRec
<1> QED
  BY <1>4, <1>6, <1>8

(* ffs_vget() in search of a vnode that there is, and of one that there is not. *)
LEMMA SearchPlace ==
  ASSUME NEW c, NEW d, NEW p, NEW a, a.pc \in {"ffs_vget", "hashwait"}, AtPlace(c, p, a),
         NEW b, b.pc \in {"ffs_vget", "hashwait"},
         b.op = a.op, b.name = a.name, b.ino = a.ino, b.fresh = a.fresh,
         d.vn = c.vn, d.dir = c.dir, d.dirlock = c.dirlock, d.alloc = c.alloc
  PROVE  AtPlace(d, p, b) /\ (Fresh(a) <=> Fresh(b))
<1>1. /\ Searching(a) /\ Searching(b) /\ ~Hand(b) /\ b.pc \notin Placed /\ b.pc \notin Leaving
  BY DEF Searching, Hand, Placed, Leaving, Referring, Using, Ending
<1>2. Fresh(a) <=> Fresh(b)
  BY <1>1 DEF Fresh
<1>3. HasDir(d, p, b) <=> HasDir(c, p, a)
  BY DEF HasDir
<1>4. Linked(d, b.ino) <=> Linked(c, a.ino)
  BY DEF Linked
<1> QED
  BY <1>1, <1>2, <1>3, <1>4 DEF AtPlace

LEMMA TakingIs ==
  ASSUME NEW r \in ProcRec, NEW v
  PROVE  At(Of(r, v), "taking") = [At(r, "ffs_vget") EXCEPT !.pc = "taking", !.vp = v]
BY DEF Of, At, ProcRec

LEMMA Ffs_vgetNow ==
  ASSUME NEW c, NEW p \in Proc, NEW r \in ProcRec, Now(c, p, At(r, "ffs_vget")), c.wake = {}, Ffs_vget(c, p, r)
  PROVE  Inv'
<1> DEFINE a == At(r, "ffs_vget")
           b == At(r, "hashwait")
           v == CHOOSE x \in Vnode : c.vn[x].ino = r.ino
           d == [c EXCEPT !.hashlock = p]
           e == vgetRef(c, v)
           g == Of(r, v)
           f == Locked(e, v, p)
<1>1. /\ a \in ProcRec /\ a.pc = "ffs_vget" /\ a.op = r.op /\ a.name = r.name /\ a.ino = r.ino
      /\ a.vp = r.vp /\ a.fresh = r.fresh
      /\ b \in ProcRec /\ b.pc = "hashwait" /\ b.op = r.op /\ b.name = r.name /\ b.ino = r.ino
      /\ b.fresh = r.fresh
  BY PlacesAre, AtIs
<1>2. Now(c, p, a)
  OBVIOUS
<1>3. /\ c \in World /\ AtPlace(c, p, a) /\ ~c.panicked /\ Entries(c.nc) /\ Len(c.nc) <= NameCacheSize
      /\ Beside(c, c, p)
  BY <1>2, NowIs, SameBeside
<1>4. IF \A x \in Vnode : c.vn[x].ino # r.ino
      THEN IF c.hashlock # NoProc THEN Do(c, p, b, NoChan) ELSE Getnewvnode(d, p, r)
      ELSE IF c.vn[v].locked # NoProc THEN Do([c EXCEPT !.vn[v].wanted = TRUE], p, a, Ip(v))
      ELSE IF BeingCleaned(c, v) THEN Do([c EXCEPT !.vn[v].vxwant = TRUE], p, a, Vp(v))
      ELSE Found(f, p, g)
  BY DEF Ffs_vget, Locked, Of
<1>5. SameKind(a, b) /\ a.pc \notin Placed /\ b.pc \notin Placed
  BY <1>1, Nowhere
<1>6. CASE \A x \in Vnode : c.vn[x].ino # r.ino
  <2>1. CASE c.hashlock # NoProc
    <3>1. Do(c, p, b, NoChan)
      BY <1>4, <1>6, <2>1
    <3> HIDE DEF a, b
    <3>2. AtPlace(c, p, b) /\ (Fresh(a) <=> Fresh(b))
      BY <1>1, <1>3, SearchPlace
    <3>3. Now(c, p, b)
      BY <1>1, <1>2, <1>3, <1>5, <3>2, Shifts
    <3> QED
      BY <1>1, <3>1, <3>3, Done DEF Transit
  <2>2. CASE c.hashlock = NoProc
    <3>1. Getnewvnode(d, p, r) /\ b = At(r, "hashwait")
      BY <1>4, <1>6, <2>2
    <3>2. /\ d \in World /\ d.vn = c.vn /\ d.free = c.free /\ d.nc = c.nc /\ d.dir = c.dir
          /\ d.dirlock = c.dirlock /\ d.hashlock = p /\ d.alloc = c.alloc /\ d.panicked = c.panicked
          /\ d.wake = c.wake
      BY <1>3 DEF World
    <3> HIDE DEF a, b, d
    <3>3. Beside(c, d, p)
      BY <1>3, <2>2, <3>2, VnodesAssumption DEF Beside
    <3>4. AtPlace(d, p, b) /\ (Fresh(a) <=> Fresh(b))
      BY <1>1, <1>3, <3>2, SearchPlace
    <3>5. Now(d, p, b)
      BY <1>1, <1>2, <1>5, <3>2, <3>3, <3>4, Shifts
    <3>6. \A u \in Vnode : d.vn[u].ino # r.ino
      BY <1>6, <3>2
    <3> QED
      BY <3>1, <3>2, <3>5, <3>6, GetsNow
  <2> QED
    BY <2>1, <2>2
<1>7. CASE ~ \A x \in Vnode : c.vn[x].ino # r.ino
  <2>1. v \in Vnode /\ c.vn[v].ino = r.ino
    BY <1>7
  <2>2. r.ino \in Ino
    BY <1>1, <1>3 DEF AtPlace, Searching
  <2>3. IF c.vn[v].locked # NoProc THEN Do([c EXCEPT !.vn[v].wanted = TRUE], p, a, Ip(v))
        ELSE IF BeingCleaned(c, v) THEN Do([c EXCEPT !.vn[v].vxwant = TRUE], p, a, Vp(v))
        ELSE Found(f, p, g)
    BY <1>4, <1>7
  <2>4. /\ a \in ProcRec /\ g \in ProcRec /\ g.vp = v /\ g.ino = r.ino
    BY <1>1, <2>1, OfIs
  <2>5. At(g, "taking") = [a EXCEPT !.pc = "taking", !.vp = v]
    BY TakingIs
  <2> HIDE DEF v, a
  <2>6. CASE c.vn[v].locked # NoProc
    <3> DEFINE h == [c EXCEPT !.vn[v].wanted = TRUE]
    <3>1. Do(h, p, a, Ip(v)) /\ Waiting(c, v, h, Ip(v))
      BY <2>3, <2>6 DEF Waiting
    <3> HIDE DEF h
    <3> QED
      BY <1>1, <1>2, <1>5, <2>1, <3>1, Sleeps
  <2>7. CASE c.vn[v].locked = NoProc /\ BeingCleaned(c, v)
    <3> DEFINE h == [c EXCEPT !.vn[v].vxwant = TRUE]
    <3>1. Do(h, p, a, Vp(v)) /\ Waiting(c, v, h, Vp(v))
      BY <2>3, <2>7 DEF Waiting
    <3> HIDE DEF h
    <3> QED
      BY <1>1, <1>2, <1>5, <2>1, <3>1, Sleeps
  <2>8. CASE c.vn[v].locked = NoProc /\ ~BeingCleaned(c, v)
    <3>1. Found(f, p, g)
      BY <2>3, <2>8
    <3> DEFINE h == At(g, "taking")
               i == At(g, "found")
    <3>2. h = [a EXCEPT !.pc = "taking", !.vp = v]
      BY <2>5
    <3>3. e = vgetRef(c, v) /\ f = Locked(e, v, p) /\ i = At(h, "found")
      BY <2>4, AtAt
    <3>4. i = At(g, "found")
      OBVIOUS
    <3> HIDE DEF e, f, g, h, i
    <3>5. h \in ProcRec /\ h.pc = "taking" /\ h.vp = v /\ h.ino = r.ino
      BY <2>4, PlacesAre, AtIs DEF h
    <3>6. i \in ProcRec /\ i.pc = "found" /\ i.vp = v
      BY <3>3, <3>5, PlacesAre, AtIs
    <3>7. c.vn[v].live /\ c.vn[v].id # 0
      <4>1. VnodeOK(c.vn[v])
        BY <1>2, <2>1, EachOK
      <4> QED
        BY <2>1, <2>2, <4>1, VnodesAssumption DEF VnodeOK
    <3>8. /\ Now(e, p, h) /\ e.vn[v].vx = c.vn[v].vx /\ e.vn[v].live = c.vn[v].live
          /\ e.vn[v].locked = c.vn[v].locked
      <4>1. Taking(c, v, a, h)
        BY <1>1, <2>1, <3>2, <3>5 DEF Taking
      <4>2. h \in ProcRec /\ c.vn[v].id # 0 /\ ~BeingCleaned(c, v) /\ h.vp = v /\ e = vgetRef(c, v)
        BY <2>8, <3>3, <3>5, <3>7
      <4>3. Now(c, p, a) /\ v \in Vnode
        BY <1>2, <2>1
      <4> QED
        BY <4>1, <4>2, <4>3, TakesNow
    <3>9. ~e.vn[v].vx /\ e.vn[v].live /\ e.vn[v].locked = NoProc
      <4>1. ~c.vn[v].vx /\ c.vn[v] \in VnodeRec
        BY <1>3, <2>1, <2>8, WorldType DEF BeingCleaned
      <4> QED
        BY <2>8, <3>7, <3>8, <4>1
    <3>10. wchan[p] = NoChan /\ State(e, With(p, h), wchan) /\ With(p, h)[p] = h
      BY <3>8, WithAt DEF Now
    <3>11. State(f, [With(p, h) EXCEPT ![p] = i], wchan)
      BY <2>1, <3>3, <3>5, <3>6, <3>9, <3>10, Locks
    <3>12. Now(f, p, i)
      BY <3>6, <3>8, <3>11, Goes
    <3> QED
      BY <2>4, <3>1, <3>4, <3>12, FoundNow
  <2> QED
    BY <2>6, <2>7, <2>8
<1> QED
  BY <1>6, <1>7

LEMMA DirsAfter ==
  ASSUME NEW c, NEW p \in Proc, NEW a, Now(c, p, a), NEW d, Cached(c, d), NEW e, Dirs(d, e, p)
  PROVE  Beside(c, e, p) /\ e.alloc = c.alloc /\ e.dir = c.dir /\ e.vn = c.vn /\ e.wake = c.wake
<1>1. ~c.panicked
  BY NowIs
<1>2. /\ d.vn = c.vn /\ d.free = c.free /\ d.dir = c.dir /\ d.hashlock = c.hashlock /\ d.alloc = c.alloc
      /\ d.panicked = c.panicked /\ d.wake = c.wake /\ d.dirlock = c.dirlock
      /\ Entries(d.nc) /\ Len(d.nc) <= NameCacheSize
  BY DEF Cached
<1> QED
  BY <1>1, <1>2 DEF Dirs, Beside

(* ufs_lookup() after the cache, or once more: p has the directory.         *)
LEMMA HasDirIs ==
  ASSUME NEW c, NEW p \in Proc, NEW a, Now(c, p, a), a.pc \in {"vgetfail", "vgetlock"}
  PROVE  /\ a.name \in Name /\ c.dirlock[DirOf[a.name]] = p /\ a.op # "handle"
         /\ ~Fresh(a)
<1>1. AtPlace(c, p, a)
  BY NowIs
<1> QED
  BY <1>1 DEF AtPlace, HasDir, Fresh, Searching, Hand

(* The file is there, or has been given an inode.                           *)
Finding(r, i) == [r EXCEPT !.ino = i]
Giving(r, i)  == [r EXCEPT !.ino = i, !.fresh = TRUE]

LEMMA FindingIs ==
  ASSUME NEW r \in ProcRec, NEW i \in Ino, NEW s, s = Finding(r, i), NEW b, b = At(s, "ffs_vget")
  PROVE  /\ s \in ProcRec
         /\ b \in ProcRec /\ b.pc = "ffs_vget" /\ b.op = r.op /\ b.name = r.name /\ b.ino = i /\ b.fresh = r.fresh
<1>1. /\ s \in ProcRec /\ s.op = r.op /\ s.name = r.name /\ s.ino = i /\ s.fresh = r.fresh
  BY DEF Finding, ProcRec
<1>2. /\ b \in ProcRec /\ b.pc = "ffs_vget" /\ b.op = s.op /\ b.name = s.name /\ b.ino = s.ino
      /\ b.fresh = s.fresh
  <2>1. "ffs_vget" \in Places /\ s \in ProcRec
    BY <1>1, PlacesAre
  <2> QED
    BY <2>1, AtIs
<1> QED
  BY <1>1, <1>2

LEMMA GivingIs ==
  ASSUME NEW r \in ProcRec, NEW i \in Ino, NEW s, s = Giving(r, i), NEW b, b = At(s, "ffs_vget")
  PROVE  /\ s \in ProcRec
         /\ b \in ProcRec /\ b.pc = "ffs_vget" /\ b.op = r.op /\ b.name = r.name /\ b.ino = i /\ b.fresh
<1>1. /\ s \in ProcRec /\ s.op = r.op /\ s.name = r.name /\ s.ino = i /\ s.fresh
  BY DEF Giving, ProcRec
<1>2. /\ b \in ProcRec /\ b.pc = "ffs_vget" /\ b.op = s.op /\ b.name = s.name /\ b.ino = s.ino
      /\ b.fresh = s.fresh
  <2>1. "ffs_vget" \in Places /\ s \in ProcRec
    BY <1>1, PlacesAre
  <2> QED
    BY <2>1, AtIs
<1> QED
  BY <1>1, <1>2

(* The search finds the name.                                               *)
LEMMA FindsNow ==
  ASSUME NEW c, NEW p \in Proc, NEW r \in ProcRec, Now(c, p, At(r, "vgetfail")), c.wake = {}, ~r.fresh,
         c.dir[r.name] # NoIno, Ffs_vget(c, p, Finding(r, c.dir[r.name]))
  PROVE  Inv'
<1> DEFINE a == At(r, "vgetfail")
           i == c.dir[r.name]
           s == Finding(r, i)
           b == At(s, "ffs_vget")
<1>1. a \in ProcRec /\ a.pc = "vgetfail" /\ a.name = r.name /\ a.op = r.op
  BY PlacesAre, AtIs
<1>2. Now(c, p, a)
  OBVIOUS
<1>3. Ffs_vget(c, p, s)
  OBVIOUS
<1>13. b = At(s, "ffs_vget")
  OBVIOUS
<1> HIDE DEF a
<1>4. c \in World /\ Beside(c, c, p)
  BY <1>2, NowIs, SameBeside
<1>5. r.name \in Name /\ c.dirlock[DirOf[r.name]] = p /\ r.op # "handle" /\ ~Fresh(a)
  BY <1>1, <1>2, HasDirIs
<1>6. i \in Ino
  BY <1>4, <1>5, WorldType
<1>14. s = Finding(r, i)
  OBVIOUS
<1> HIDE DEF s, b, i
<1>7. /\ s \in ProcRec
      /\ b \in ProcRec /\ b.pc = "ffs_vget" /\ b.op = r.op /\ b.name = r.name /\ b.ino = i /\ b.fresh = r.fresh
  BY <1>6, <1>13, <1>14, FindingIs
<1>8. b \in ProcRec /\ b.pc = "ffs_vget" /\ b.op = r.op /\ b.name = r.name /\ b.ino = i /\ ~b.fresh
  BY <1>7
<1>9. SameKind(a, b) /\ b.pc \notin Placed
  BY <1>1, <1>8, Nowhere
<1>10. ~Fresh(b) /\ Searching(b) /\ ~Hand(b) /\ b.pc \notin Leaving
  BY <1>8 DEF Fresh, Searching, Hand, Leaving, Ending
<1>11. AtPlace(c, p, b)
  BY <1>5, <1>6, <1>8, <1>9, <1>10 DEF AtPlace, HasDir, i
<1>12. Now(c, p, b)
  BY <1>2, <1>4, <1>5, <1>8, <1>9, <1>10, <1>11, Shifts
<1> QED
  BY <1>3, <1>7, <1>12, <1>13, Ffs_vgetNow

(* Whether the inode i is in use changes, and nothing else.                 *)
Mapping(c, d, i) ==
  /\ d \in World /\ d.vn = c.vn /\ d.free = c.free /\ d.nc = c.nc /\ d.dir = c.dir
  /\ d.dirlock = c.dirlock /\ d.hashlock = c.hashlock /\ d.wake = c.wake /\ ~d.panicked
  /\ \A j \in Ino : j # i => (j \in d.alloc <=> j \in c.alloc)

LEMMA MapsNow ==
  ASSUME NEW c, NEW p \in Proc, NEW a, Now(c, p, a), a.pc \notin Placed, NEW b \in ProcRec, b.pc \notin Placed,
         NEW i \in Ino, NEW d, Mapping(c, d, i),
         \A u \in Vnode : c.vn[u].mode => c.vn[u].ino # i,
         \A q \in Proc : q # p /\ Fresh(With(p, a)[q]) => With(p, a)[q].ino # i,
         ~Linked(c, i), AtPlace(d, p, b), Fresh(b) => b.ino = i
  PROVE  Now(d, p, b)
<1>1. With(p, a)[p] = a
  BY WithAt
<1>2. wchan[p] = NoChan /\ State(c, With(p, a), wchan)
  BY DEF Now
<1>3. \A q \in Proc : q # p => \A D \in Dir : c.dirlock[D] = q => d.dirlock[D] = q
  BY DEF Mapping
<1>4. State(d, [With(p, a) EXCEPT ![p] = b], wchan)
  BY <1>1, <1>2, <1>3, Maps DEF Mapping
<1> QED
  BY <1>4, Goes

(* The name is to be created, and has an inode now.                         *)
Allocated(c, i) == [c EXCEPT !.alloc = @ \cup {i}]

LEMMA GivesNow ==
  ASSUME NEW c, NEW p \in Proc, NEW r \in ProcRec, Now(c, p, At(r, "vgetfail")), c.wake = {},
         c.dir[r.name] = NoIno, r.op = "create", NEW i \in Ino, i \notin c.alloc,
         NEW d, d = Allocated(c, i), Ffs_vget(d, p, Giving(r, i))
  PROVE  Inv'
<1> DEFINE a == At(r, "vgetfail")
           s == Giving(r, i)
           b == At(s, "ffs_vget")
<1>1. a \in ProcRec /\ a.pc = "vgetfail" /\ a.name = r.name /\ a.op = r.op
  BY PlacesAre, AtIs
<1>2. Now(c, p, a)
  OBVIOUS
<1>3. Ffs_vget(d, p, s)
  OBVIOUS
<1>20. b = At(s, "ffs_vget")
  OBVIOUS
<1> HIDE DEF a
<1>4. c \in World /\ ~c.panicked
  BY <1>2, NowIs
<1>5. r.name \in Name /\ c.dirlock[DirOf[r.name]] = p
  BY <1>1, <1>2, HasDirIs
<1>6. /\ d \in World /\ d.vn = c.vn /\ d.free = c.free /\ d.nc = c.nc /\ d.dir = c.dir
      /\ d.dirlock = c.dirlock /\ d.hashlock = c.hashlock /\ d.alloc = c.alloc \cup {i}
      /\ d.panicked = c.panicked /\ d.wake = c.wake
  <2>1. c.alloc \cup {i} \in SUBSET Ino
    BY <1>4, WorldType
  <2> QED
    BY <1>4, <2>1 DEF World, Allocated
<1>21. s = Giving(r, i)
  OBVIOUS
<1> HIDE DEF s, b
<1>7. s \in ProcRec
  BY <1>20, <1>21, GivingIs
<1>8. b \in ProcRec /\ b.pc = "ffs_vget" /\ b.op = r.op /\ b.name = r.name /\ b.ino = i /\ b.fresh
  BY <1>20, <1>21, GivingIs
<1>9. a.pc \notin Placed /\ b.pc \notin Placed
  BY <1>1, <1>8, Nowhere
<1>10. Searching(b) /\ ~Hand(b) /\ b.pc \notin Leaving
  BY <1>8 DEF Searching, Hand, Leaving, Ending
<1>11. With(p, a)[p] = a
  BY <1>2, WithAt
<1>12. wchan[p] = NoChan /\ State(c, With(p, a), wchan)
  BY <1>2 DEF Now
<1>13. \A u \in Vnode : c.vn[u].mode => c.vn[u].ino # i
  BY <1>12 DEF State, Filed
<1>14. ~Linked(c, i)
  <2>1. \A n \in Name : c.dir[n] # NoIno => c.dir[n] \in c.alloc
    BY <1>12 DEF State, Named
  <2> QED
    BY <2>1, VnodesAssumption DEF Linked
<1>15. \A q \in Proc : q # p /\ Fresh(With(p, a)[q]) => With(p, a)[q].ino # i
  BY <1>12 DEF State, AtPlace
<1>16. AtPlace(d, p, b)
  <2>1. HasDir(d, p, b) /\ d.dir[b.name] = NoIno
    BY <1>5, <1>6, <1>8 DEF HasDir
  <2>2. b.ino \in d.alloc /\ ~Linked(d, b.ino)
    BY <1>6, <1>8, <1>14 DEF Linked
  <2>3. \A u \in Vnode : d.vn[u].ino = b.ino => ~d.vn[u].mode
    BY <1>6, <1>8, <1>13
  <2> QED
    BY <1>8, <1>9, <1>10, <2>1, <2>2, <2>3 DEF AtPlace
<1>17. Mapping(c, d, i)
  BY <1>4, <1>6 DEF Mapping
<1>18. Now(d, p, b)
  <2>1. Fresh(b) => b.ino = i
    BY <1>8
  <2> QED
    BY <1>2, <1>8, <1>9, <1>13, <1>14, <1>15, <1>16, <1>17, <2>1, MapsNow
<1>19. d.wake = {}
  BY <1>6
<1> QED
  BY <1>3, <1>7, <1>18, <1>19, <1>20, Ffs_vgetNow

(* ufs_lookup() comes to an end without a file.                             *)
LEMMA MissesNow ==
  ASSUME NEW c, NEW p \in Proc, NEW r \in ProcRec, Now(c, p, At(r, "vgetfail")),
         NEW d, Cached(c, d), Do([d EXCEPT !.dirlock[DirOf[r.name]] = NoProc], p, Idle, NoChan)
  PROVE  Inv'
<1> DEFINE a == At(r, "vgetfail")
           e == [d EXCEPT !.dirlock[DirOf[r.name]] = NoProc]
<1>1. a \in ProcRec /\ a.pc = "vgetfail" /\ a.name = r.name
  BY PlacesAre, AtIs
<1>2. Now(c, p, a) /\ Do(e, p, Idle, NoChan)
  OBVIOUS
<1> HIDE DEF a
<1>3. r.name \in Name /\ c.dirlock[DirOf[r.name]] = p /\ ~Fresh(a)
  BY <1>1, <1>2, HasDirIs
<1>4. Dirs(d, e, p)
  BY <1>3, DirsIs DEF Cached
<1> HIDE DEF e
<1>5. Beside(c, e, p) /\ e.alloc = c.alloc
  BY <1>2, <1>4, DirsAfter
<1>6. SameKind(a, Idle) /\ Idle.pc \notin Placed
  BY <1>1, IdleIs, Nowhere
<1>7. AtPlace(e, p, Idle) /\ ~Fresh(Idle) /\ Idle.pc \notin Transit /\ Idle \in ProcRec
  BY IdlePlace, IdleIs
<1>8. Now(e, p, Idle)
  BY <1>2, <1>3, <1>5, <1>6, <1>7, Shifts
<1> QED
  BY <1>2, <1>7, <1>8, Done

LEMMA SameCached ==
  ASSUME NEW c, NEW p \in Proc, NEW a, Now(c, p, a)
  PROVE  Cached(c, c)
BY NowIs DEF Cached

(* The search of the directory.                                             *)
LEMMA SearchNow ==
  ASSUME NEW c, NEW p \in Proc, NEW r \in ProcRec, Now(c, p, At(r, "vgetfail")), c.wake = {}, ~r.fresh, Search(c, p, r)
  PROVE  Inv'
<1> DEFINE a == At(r, "vgetfail")
           d == IF r.op = "open" THEN cache_enter(c, r.name, NoVnode) ELSE c
<1>1. a \in ProcRec /\ a.pc = "vgetfail" /\ a.name = r.name
  BY PlacesAre, AtIs
<1>2. Now(c, p, a)
  OBVIOUS
<1>3. \/ c.dir[r.name] # NoIno /\ Ffs_vget(c, p, [r EXCEPT !.ino = c.dir[r.name]])
      \/ /\ c.dir[r.name] = NoIno /\ r.op = "create"
         /\ \E i \in Ino \ c.alloc : Ffs_vget([c EXCEPT !.alloc = @ \cup {i}], p, [r EXCEPT !.ino = i, !.fresh = TRUE])
      \/ Do([d EXCEPT !.dirlock[DirOf[r.name]] = NoProc], p, Idle, NoChan)
  BY DEF Search
<1>4. CASE c.dir[r.name] # NoIno /\ Ffs_vget(c, p, [r EXCEPT !.ino = c.dir[r.name]])
  <2>1. Ffs_vget(c, p, Finding(r, c.dir[r.name]))
    BY <1>4 DEF Finding
  <2> QED
    BY <1>4, <2>1, FindsNow
<1>5. CASE /\ c.dir[r.name] = NoIno /\ r.op = "create"
           /\ \E i \in Ino \ c.alloc : Ffs_vget([c EXCEPT !.alloc = @ \cup {i}], p, [r EXCEPT !.ino = i, !.fresh = TRUE])
  <2>1. PICK i \in Ino \ c.alloc : Ffs_vget(Allocated(c, i), p, Giving(r, i))
    BY <1>5 DEF Giving, Allocated
  <2> QED
    BY <1>5, <2>1, GivesNow
<1>6. CASE Do([d EXCEPT !.dirlock[DirOf[r.name]] = NoProc], p, Idle, NoChan)
  <2>1. r.name \in Name
    BY <1>1, <1>2, HasDirIs
  <2>2. c \in World /\ Entries(c.nc) /\ Len(c.nc) <= NameCacheSize /\ Cached(c, c)
    BY <1>2, NowIs, SameCached
  <2>3. Cached(c, cache_enter(c, r.name, NoVnode))
    BY <2>1, <2>2, VnodesAssumption, EnterIs
  <2>4. Cached(c, d)
    BY <2>2, <2>3
  <2> HIDE DEF d
  <2> QED
    BY <1>6, <2>4, MissesNow
<1> QED
  BY <1>3, <1>4, <1>5, <1>6

(* A vnode from the cache, which vget() has given: it is still that of the  *)
(* name, or is released.                                                    *)
Astray(r) == [r EXCEPT !.ret = "relock"]

LEMMA AstrayIs ==
  ASSUME NEW r \in ProcRec, NEW b, b = At(Astray(r), "putting")
  PROVE  /\ Astray(r) \in ProcRec
         /\ b \in ProcRec /\ b.pc = "putting" /\ b.op = r.op /\ b.name = r.name /\ b.vp = r.vp /\ b.ret = "relock"
         /\ b.fresh = r.fresh /\ b = [At(r, "vgetlock") EXCEPT !.pc = "putting", !.ret = "relock"]
<1>1. Astray(r) \in ProcRec
  BY DEF Astray, ProcRec
<1>2. "putting" \in Places
  BY PlacesAre
<1> QED
  BY <1>1, <1>2 DEF Astray, At, ProcRec

LEMMA GotCachedNow ==
  ASSUME NEW c, NEW p \in Proc, NEW r \in ProcRec, Now(c, p, At(Astray(r), "putting")),
         c.dirlock[DirOf[r.name]] = p, GotCached(c, p, r)
  PROVE  Inv'
<1> DEFINE g == Astray(r)
           a == At(g, "putting")
           b == At(r, "got")
           v == r.vp
           d == [c EXCEPT !.dirlock[DirOf[r.name]] = NoProc]
<1>1. /\ g \in ProcRec /\ a \in ProcRec /\ a.pc = "putting" /\ a.vp = v /\ a.name = r.name /\ a.op = r.op
      /\ a.ret = "relock" /\ a.fresh = r.fresh
  BY AstrayIs
<1>2. Now(c, p, a)
  OBVIOUS
<1>3. b \in ProcRec /\ b.pc = "got" /\ b.vp = v /\ b.fresh = r.fresh
  BY PlacesAre, AtIs
<1>4. Do(d, p, b, NoChan) \/ Vput(d, p, g)
  BY DEF GotCached, Astray
<1>5. a = At(g, "putting")
  OBVIOUS
<1> HIDE DEF a, b, g
<1>6. a.pc \in Placed /\ a.pc \in Leaving
  BY <1>1 DEF Placed, Referring, Using, Leaving
<1>7. c \in World /\ v \in Vnode /\ AtVnode(c.vn[v], p, a, NoChan, c.wake) /\ AtPlace(c, p, a)
  BY <1>1, <1>2, <1>6, NowIs
<1>8. r.name \in Name /\ r.op # "handle"
  BY <1>1, <1>6, <1>7 DEF AtPlace
<1>9. Dirs(c, d, p)
  BY <1>7, <1>8, DirsIs
<1> HIDE DEF d
<1>10. Beside(c, d, p) /\ d.alloc = c.alloc
  BY <1>2, <1>9, DirsBeside
<1>11. ~Fresh(a) /\ ~Searching(a)
  BY <1>1 DEF Fresh, Searching, Hand
<1>12. ~Fresh(b) /\ ~Searching(b) /\ b.pc \in Placed /\ ~Hand(b)
  BY <1>3 DEF Fresh, Searching, Hand, Placed, Referring, Using
<1>13. SameKind(a, b) /\ SameKind(a, a)
  BY <1>1, <1>3 DEF SameKind, Placed, Referring, Using, Ending, Locking
<1>14. AtPlace(d, p, b)
  BY <1>3, <1>7, <1>12 DEF AtPlace, Leaving, Ending
<1>15. AtVnode(c.vn[v], p, b, NoChan, c.wake)
  BY <1>1, <1>3, <1>7, <1>12 DEF AtVnode
<1>16. Now(d, p, b)
  BY <1>2, <1>3, <1>7, <1>10, <1>11, <1>12, <1>13, <1>14, <1>15, Shifts
<1>17. AtPlace(d, p, a)
  BY <1>1, <1>7, <1>8, <1>11 DEF AtPlace, Hand
<1>18. Now(d, p, a)
  BY <1>1, <1>2, <1>7, <1>10, <1>11, <1>13, <1>17, Shifts
<1>19. CASE Do(d, p, b, NoChan)
  BY <1>3, <1>16, <1>19, Done DEF Transit
<1>20. CASE Vput(d, p, g)
  BY <1>1, <1>5, <1>18, <1>20, VputsNow
<1> QED
  BY <1>4, <1>19, <1>20

(* vget() with p counted: the lock, whatever the vnode is by then.          *)
LEMMA VgetLockNow ==
  ASSUME NEW c, NEW p \in Proc, NEW r \in ProcRec, Now(c, p, At(r, "vgetlock")), c.wake = {}, VgetLock(c, p, r)
  PROVE  Inv'
<1> DEFINE a == At(r, "vgetlock")
           b == At(Astray(r), "putting")
           v == r.vp
           l == LockTry(c, p, v)
           d == l.k
<1>1. /\ a \in ProcRec /\ a.pc = "vgetlock" /\ a.vp = v /\ a.name = r.name /\ a.op = r.op
  BY PlacesAre, AtIs
<1>2. /\ b \in ProcRec /\ b.pc = "putting" /\ b.vp = v /\ b.name = r.name
      /\ b = [a EXCEPT !.pc = "putting", !.ret = "relock"]
  BY AstrayIs
<1>3. Now(c, p, a)
  OBVIOUS
<1>4. IF l.is = "sleep" THEN Do(d, p, a, l.on) ELSE GotCached(d, p, r)
  BY DEF VgetLock
<1>14. b = At(Astray(r), "putting")
  OBVIOUS
<1>5. /\ l.is = "sleep" => Waiting(c, v, d, l.on)
      /\ l.is # "sleep" => /\ ~c.vn[v].vx /\ (c.vn[v].live => c.vn[v].locked = NoProc)
                           /\ d = IF c.vn[v].live THEN Locked(c, v, p) ELSE c
  BY LockTries
<1> HIDE DEF a, b, l
<1>6. a.pc \in Placed
  BY <1>1 DEF Placed, Referring
<1>7. v \in Vnode /\ c \in World
  BY <1>1, <1>3, <1>6, NowIs
<1>8. CASE l.is = "sleep"
  BY <1>1, <1>3, <1>4, <1>5, <1>7, <1>8, Sleeps
<1>9. CASE l.is # "sleep"
  <2>1. c.dirlock[DirOf[r.name]] = p
    BY <1>1, <1>3, HasDirIs
  <2>2. wchan[p] = NoChan /\ State(c, With(p, a), wchan) /\ With(p, a)[p] = a
    BY <1>3, WithAt DEF Now
  <2>3. IF c.vn[v].live THEN c.vn[v].locked = NoProc /\ d = Locked(c, v, p) ELSE d = c
    BY <1>5, <1>9
  <2>4. ~c.vn[v].vx
    BY <1>5, <1>9
  <2> HIDE DEF d
  <2>5. State(d, [With(p, a) EXCEPT ![p] = b], wchan)
    BY <1>1, <1>2, <1>7, <2>2, <2>3, <2>4, Locks
  <2>6. Now(d, p, b)
    BY <1>2, <1>3, <2>5, Goes
  <2>7. d.dirlock = c.dirlock
    <3>1. CASE c.vn[v].live
      <4>1. Only(c, d, v)
        BY <1>7, <2>3, <3>1, LockIs
      <4> QED
        BY <4>1 DEF Only, RestIs
    <3>2. CASE ~c.vn[v].live
      BY <2>3, <3>2
    <3> QED
      BY <3>1, <3>2
  <2>8. GotCached(d, p, r)
    BY <1>4, <1>9 DEF d
  <2> QED
    BY <1>14, <2>1, <2>6, <2>7, <2>8, GotCachedNow
<1> QED
  BY <1>8, <1>9

(* vget() of the vnode from the cache.                                      *)
LEMMA VgetNow ==
  ASSUME NEW c, NEW p \in Proc, NEW r \in ProcRec, Now(c, p, At(r, "vgetfail")), c.wake = {},
         r.vp \in Vnode, c.vn[r.vp].id # 0, Vget(c, p, r)
  PROVE  Inv'
<1> DEFINE a == At(r, "vgetfail")
           b == At(r, "vgetlock")
           v == r.vp
           d == vgetRef(c, v)
<1>1. /\ a \in ProcRec /\ a.pc = "vgetfail" /\ a.vp = v /\ a.name = r.name /\ a.op = r.op
      /\ b \in ProcRec /\ b.pc = "vgetlock" /\ b.vp = v /\ b.name = r.name /\ b.op = r.op
  BY PlacesAre, AtIs
<1>2. Now(c, p, a)
  OBVIOUS
<1>3. IF BeingCleaned(c, v) THEN Do([c EXCEPT !.vn[v].vxwant = TRUE], p, a, Vp(v)) ELSE VgetLock(d, p, r)
  BY DEF Vget
<1>4. b = At(r, "vgetlock")
  OBVIOUS
<1> HIDE DEF a, b
<1>5. CASE BeingCleaned(c, v)
  <2> DEFINE h == [c EXCEPT !.vn[v].vxwant = TRUE]
  <2>1. Do(h, p, a, Vp(v)) /\ Waiting(c, v, h, Vp(v))
    BY <1>3, <1>5 DEF Waiting
  <2> HIDE DEF h
  <2>2. a.pc \notin Placed
    BY <1>1 DEF Placed, Referring, Using, Ending
  <2> QED
    BY <1>1, <1>2, <2>1, <2>2, Sleeps
<1>6. CASE ~BeingCleaned(c, v)
  <2>1. VgetLock(d, p, r)
    BY <1>3, <1>6
  <2>2. Taking(c, v, a, b)
    BY <1>1 DEF Taking
  <2>3. d = vgetRef(c, v)
    OBVIOUS
  <2> HIDE DEF d
  <2>4. Now(d, p, b) /\ d.wake = c.wake
    BY <1>1, <1>2, <1>6, <2>2, <2>3, TakesNow
  <2> QED
    BY <1>4, <2>1, <2>4, VgetLockNow
<1> QED
  BY <1>5, <1>6
-----------------------------------------------------------------------------
(* The steps.                                                               *)

LEMMA AtSame ==
  ASSUME NEW r \in ProcRec
  PROVE  At(r, r.pc) = r
BY DEF At, ProcRec

LEMMA Starts ==
  ASSUME Inv, NEW p \in Proc, NEW pc, Runs(p, pc)
  PROVE  /\ pr[p] \in ProcRec /\ pr[p].pc = pc /\ Now(k, p, pr[p]) /\ Now(k, p, At(pr[p], pc))
         /\ k.wake = {} /\ wchan[p] = NoChan
<1>1. wchan[p] = NoChan /\ pr[p].pc = pc
  BY DEF Runs
<1>2. Now(k, p, pr[p]) /\ k.wake = {}
  BY <1>1, Begins
<1>3. pr[p] \in ProcRec
  BY <1>2 DEF Now
<1>4. At(pr[p], pc) = pr[p]
  BY <1>1, <1>3, AtSame
<1> QED
  BY <1>1, <1>2, <1>3, <1>4

(* What is known of a process at a vnode.                                   *)
LEMMA PlacedIs ==
  ASSUME NEW c, NEW p \in Proc, NEW a, Now(c, p, a), a.pc \in Placed
  PROVE  /\ a.vp \in Vnode /\ c \in World /\ With(p, a)[p] = a /\ wchan[p] = NoChan /\ ~c.panicked
         /\ State(c, With(p, a), wchan) /\ AtPlace(c, p, a) /\ AtVnode(c.vn[a.vp], p, a, NoChan, c.wake)
         /\ VnodeOK(c.vn[a.vp]) /\ Owned(c, With(p, a), a.vp) /\ c.vn[a.vp] \in VnodeRec
<1>1. State(c, With(p, a), wchan)
  BY DEF Now
<1>2. c \in World /\ a.vp \in Vnode
  BY NowIs
<1>3. c.vn[a.vp] \in VnodeRec
  BY <1>2, WorldType
<1> QED
  BY <1>1, <1>2, <1>3, NowIs

LEMMA ResumeVgetLockStep ==
  ASSUME Inv, NEW p \in Proc, ResumeVgetLock(p)
  PROVE  Inv'
<1>1. Runs(p, "vgetlock") /\ VgetLock(k, p, pr[p])
  BY DEF ResumeVgetLock
<1> QED
  BY <1>1, Starts, VgetLockNow

LEMMA ResumeFfs_vgetStep ==
  ASSUME Inv, NEW p \in Proc, ResumeFfs_vget(p)
  PROVE  Inv'
<1>1. Runs(p, "ffs_vget") /\ Ffs_vget(k, p, pr[p])
  BY DEF ResumeFfs_vget
<1> QED
  BY <1>1, Starts, Ffs_vgetNow

LEMMA ResumeVcleanStep ==
  ASSUME Inv, NEW p \in Proc, ResumeVclean(p)
  PROVE  Inv'
<1>1. Runs(p, "vclean") /\ Vclean(k, p, pr[p])
  BY DEF ResumeVclean
<1> QED
  BY <1>1, Starts, VcleansNow

(* The wait for ufs_hashlock is over.                                       *)
LEMMA HashWaitStep ==
  ASSUME Inv, NEW p \in Proc, HashWait(p)
  PROVE  Inv'
<1> DEFINE a == pr[p]
           b == At(a, "ffs_vget")
<1>1. Runs(p, "hashwait") /\ Ffs_vget(k, p, a)
  BY DEF HashWait
<1>2. a \in ProcRec /\ a.pc = "hashwait" /\ Now(k, p, a) /\ k.wake = {}
  BY <1>1, Starts
<1>3. b \in ProcRec /\ b.pc = "ffs_vget" /\ b.op = a.op /\ b.name = a.name /\ b.ino = a.ino /\ b.fresh = a.fresh
  BY <1>2, PlacesAre, AtIs
<1>4. b = At(a, "ffs_vget")
  OBVIOUS
<1> HIDE DEF a, b
<1>5. AtPlace(k, p, a) /\ Beside(k, k, p)
  BY <1>2, NowIs, SameBeside
<1>6. AtPlace(k, p, b) /\ (Fresh(a) <=> Fresh(b))
  BY <1>2, <1>3, <1>5, SearchPlace
<1>7. SameKind(a, b) /\ b.pc \notin Placed
  BY <1>2, <1>3, Nowhere
<1>8. Now(k, p, b)
  BY <1>2, <1>3, <1>5, <1>6, <1>7, Shifts
<1> QED
  BY <1>1, <1>2, <1>4, <1>8, Ffs_vgetNow

(* vn_open() unlocks the vnode.                                             *)
LEMMA OpenStep ==
  ASSUME Inv, NEW p \in Proc, Open(p)
  PROVE  Inv'
<1> DEFINE a == pr[p]
           v == a.vp
           d == Unlock(k, v)
           b == [Idle EXCEPT !.pc = "open", !.vp = a.vp, !.ino = a.ino]
<1>1. Runs(p, "got") /\ Do(d, p, b, NoChan)
  BY DEF Open
<1>2. a \in ProcRec /\ a.pc = "got" /\ Now(k, p, a)
  BY <1>1, Starts
<1>3. b \in ProcRec /\ b.pc = "open" /\ b.vp = v /\ ~b.fresh
  <2>1. "open" \in Places /\ Idle \in ProcRec /\ ~Idle.fresh
    BY PlacesAre, IdleIs
  <2>2. a.vp \in Vnode \cup {NoVnode} /\ a.ino \in Ino \cup {NoIno}
    BY <1>2, ProcType
  <2> QED
    BY <2>1, <2>2 DEF ProcRec
<1>4. d = Unlock(k, v) /\ v = a.vp
  OBVIOUS
<1> HIDE DEF a, b, d, v
<1>5. a.pc \in Placed /\ b.pc \notin Transit
  BY <1>2, <1>3 DEF Placed, Referring, Using, Transit
<1>6. v \in Vnode /\ With(p, a)[p] = a /\ wchan[p] = NoChan /\ State(k, With(p, a), wchan)
  <2>1. a.vp \in Vnode /\ wchan[p] = NoChan /\ State(k, With(p, a), wchan)
    BY <1>2, <1>5, PlacedIs
  <2>2. With(p, a)[p] = a
    BY <1>2, WithAt
  <2> QED
    BY <1>4, <2>1, <2>2
<1>7. State(d, [With(p, a) EXCEPT ![p] = b], wchan)
  BY <1>2, <1>3, <1>4, <1>6, Unlocks
<1>8. Now(d, p, b)
  BY <1>2, <1>3, <1>7, Goes
<1> QED
  BY <1>1, <1>5, <1>8, Done

(* The last close.                                                          *)
LEMMA CloseStep ==
  ASSUME Inv, NEW p \in Proc, Close(p)
  PROVE  Inv'
<1> DEFINE a == pr[p]
           r == [a EXCEPT !.ret = "idle"]
           b == At(r, "closing")
<1>1. Runs(p, "open") /\ Vrele(k, p, r)
  BY DEF Close
<1>2. a \in ProcRec /\ a.pc = "open" /\ Now(k, p, a)
  BY <1>1, Starts
<1>3. r \in ProcRec /\ r.ret = "idle" /\ r.vp = a.vp /\ r.fresh = a.fresh
  BY <1>2 DEF ProcRec
<1> HIDE DEF a, r
<1>4. b \in ProcRec /\ b.pc = "closing" /\ b.vp = a.vp /\ b.ret = "idle" /\ b.fresh = a.fresh
  <2>1. "closing" \in Places
    BY PlacesAre
  <2> QED
    BY <1>3, <2>1, AtIs
<1>5. b = At(r, "closing")
  OBVIOUS
<1> HIDE DEF b
<1>6. a.pc \in Placed /\ a.pc \in Using /\ b.pc \in Placed /\ b.pc \in Using
  BY <1>2, <1>4 DEF Placed, Referring, Using
<1>7. /\ a.vp \in Vnode /\ AtPlace(k, p, a) /\ AtVnode(k.vn[a.vp], p, a, NoChan, k.wake)
      /\ Beside(k, k, p)
  BY <1>2, <1>6, PlacedIs, SameBeside
<1>8. SameKind(a, b)
  BY <1>2, <1>4, <1>6 DEF SameKind, Referring, Locking, Ending
<1>9. ~Fresh(a) /\ ~Fresh(b) /\ ~Hand(b) /\ ~Searching(b)
  BY <1>2, <1>4 DEF Fresh, Searching, Hand
<1>10. AtPlace(k, p, b)
  BY <1>4, <1>7, <1>9 DEF AtPlace
<1>11. AtVnode(k.vn[b.vp], p, b, NoChan, k.wake)
  BY <1>4, <1>7, <1>9 DEF AtVnode
<1>12. Now(k, p, b)
  BY <1>2, <1>4, <1>7, <1>8, <1>9, <1>10, <1>11, Shifts
<1> QED
  BY <1>1, <1>3, <1>5, <1>12, VrelesNow

(* Inodes, and the names of files, as the code changes them.                *)
Moding(c, d, v, m, l) == d = [c EXCEPT !.vn[v].mode = m, !.vn[v].nlink = l]

LEMMA RefilesIs ==
  ASSUME NEW c \in World, NEW v \in Vnode, NEW m \in BOOLEAN, NEW l \in {0, 1},
         NEW d, Moding(c, d, v, m, l)
  PROVE  d = Refiled(c, v, m, l, c.dirlock, c.dir, c.alloc)
<1> DEFINE x == c.vn[v]
<1>1. c.vn \in [Vnode -> VnodeRec] /\ x \in VnodeRec
  BY WorldType
<1>2. [c.vn EXCEPT ![v].mode = m, ![v].nlink = l] = [c.vn EXCEPT ![v] = Moded(x, m, l)]
  BY <1>1 DEF Moded
<1>3. d = [c EXCEPT !.vn = [c.vn EXCEPT ![v].mode = m, ![v].nlink = l]]
  BY <1>1 DEF World, Moding
<1>4. Refiled(c, v, m, l, c.dirlock, c.dir, c.alloc) = [c EXCEPT !.vn = [c.vn EXCEPT ![v] = Moded(x, m, l)]]
  BY <1>1 DEF World, Refiled
<1> QED
  BY <1>2, <1>3, <1>4

Nameless(c, d, v, n) == d = [c EXCEPT !.dir[n] = NoIno, !.vn[v].nlink = 0]

LEMMA UnlinksIs ==
  ASSUME NEW c \in World, NEW v \in Vnode, NEW n \in Name, NEW t, t = c.vn[v].mode,
         NEW d, Nameless(c, d, v, n)
  PROVE  d = Refiled(c, v, t, 0, c.dirlock, Renamed(c, n, NoIno), c.alloc)
<1> DEFINE x == c.vn[v]
<1>1. c.vn \in [Vnode -> VnodeRec] /\ x \in VnodeRec
  BY WorldType
<1>2. [c.vn EXCEPT ![v].nlink = 0] = [c.vn EXCEPT ![v] = Moded(x, t, 0)]
  BY <1>1 DEF Moded, VnodeRec
<1>3. d = [c EXCEPT !.dir = Renamed(c, n, NoIno), !.vn = [c.vn EXCEPT ![v].nlink = 0]]
  BY <1>1 DEF World, Renamed, Nameless
<1>4. Refiled(c, v, t, 0, c.dirlock, Renamed(c, n, NoIno), c.alloc)
        = [c EXCEPT !.dir = Renamed(c, n, NoIno), !.vn = [c.vn EXCEPT ![v] = Moded(x, t, 0)]]
  BY <1>1 DEF World, Refiled
<1> QED
  BY <1>2, <1>3, <1>4

Born(c, d, v, n, t, l) ==
  t = TRUE /\ d = [c EXCEPT !.dirlock[DirOf[n]] = NoProc, !.vn[v].mode = TRUE, !.vn[v].nlink = l]

Names(c, d, n, i) == d = [c EXCEPT !.dir[n] = i]

LEMMA MakesIs ==
  ASSUME NEW c \in World, NEW v \in Vnode, NEW n \in Name, NEW i, NEW l \in {0, 1}, NEW t,
         NEW d, Born(c, d, v, n, t, l), NEW e, Names(d, e, n, i)
  PROVE  /\ t \in BOOLEAN /\ t /\ d = Refiled(c, v, t, l, Released(c, n), c.dir, c.alloc)
         /\ e = Refiled(c, v, t, l, Released(c, n), Renamed(c, n, i), c.alloc)
<1> DEFINE x == c.vn[v]
<1>1. c.vn \in [Vnode -> VnodeRec] /\ x \in VnodeRec
  BY WorldType
<1>2. [c.vn EXCEPT ![v].mode = t, ![v].nlink = l] = [c.vn EXCEPT ![v] = Moded(x, t, l)]
  BY <1>1 DEF Moded
<1>3. d = [c EXCEPT !.dirlock = Released(c, n), !.vn = [c.vn EXCEPT ![v].mode = t, ![v].nlink = l]]
  BY <1>1 DEF World, Released, Born
<1>4. d = [c EXCEPT !.dirlock = Released(c, n), !.vn = [c.vn EXCEPT ![v] = Moded(x, t, l)]]
  BY <1>2, <1>3
<1>5. Refiled(c, v, t, l, Released(c, n), c.dir, c.alloc)
        = [c EXCEPT !.dirlock = Released(c, n), !.vn = [c.vn EXCEPT ![v] = Moded(x, t, l)]]
  BY <1>1 DEF World, Refiled
<1>6. e = [d EXCEPT !.dir = Renamed(c, n, i)]
  BY <1>4 DEF World, Renamed, Names
<1>7. Refiled(c, v, t, l, Released(c, n), Renamed(c, n, i), c.alloc)
        = [c EXCEPT !.dirlock = Released(c, n), !.dir = Renamed(c, n, i), !.vn = [c.vn EXCEPT ![v] = Moded(x, t, l)]]
  BY <1>1 DEF World, Refiled
<1>8. [d EXCEPT !.dir = Renamed(c, n, i)]
        = [c EXCEPT !.dirlock = Released(c, n), !.dir = Renamed(c, n, i), !.vn = [c.vn EXCEPT ![v] = Moded(x, t, l)]]
  BY <1>4 DEF World
<1>9. t \in BOOLEAN /\ t
  BY DEF Born
<1> QED
  BY <1>4, <1>5, <1>6, <1>7, <1>8, <1>9

Given(c, d, v, t, A) ==
  /\ t = FALSE /\ A = c.alloc \ {c.vn[v].ino}
  /\ d = [c EXCEPT !.vn[v].mode = FALSE, !.alloc = @ \ {c.vn[v].ino}]

LEMMA FreesIs ==
  ASSUME NEW c \in World, NEW v \in Vnode, c.vn[v].nlink = 0, NEW t, NEW A, NEW d, Given(c, d, v, t, A)
  PROVE  t \in BOOLEAN /\ ~t /\ d = Refiled(c, v, t, 0, c.dirlock, c.dir, A)
<1> DEFINE x == c.vn[v]
<1>1. c.vn \in [Vnode -> VnodeRec] /\ x \in VnodeRec
  BY WorldType
<1>2. [c.vn EXCEPT ![v].mode = FALSE] = [c.vn EXCEPT ![v] = Moded(x, t, 0)]
  BY <1>1 DEF Moded, VnodeRec, Given
<1>3. d = [c EXCEPT !.alloc = A, !.vn = [c.vn EXCEPT ![v].mode = FALSE]]
  BY <1>1 DEF World, Given
<1>4. Refiled(c, v, t, 0, c.dirlock, c.dir, A) = [c EXCEPT !.alloc = A, !.vn = [c.vn EXCEPT ![v] = Moded(x, t, 0)]]
  BY <1>1 DEF World, Refiled
<1>5. t \in BOOLEAN /\ ~t
  BY DEF Given
<1> QED
  BY <1>2, <1>3, <1>4, <1>5

(* The others are not in the middle of a step.                              *)
LEMMA OthersStill ==
  ASSUME NEW c, NEW p \in Proc, NEW a, Now(c, p, a)
  PROVE  \A q \in Proc : q # p => With(p, a)[q].pc \notin Transit
<1>1. pr \in [Proc -> ProcRec] /\ \A q \in Proc : pr[q].pc \notin Transit
  BY DEF Now, Inv, State, Types
<1> QED
  BY <1>1 DEF With

(* The inode has been read: if it has a name, it has a mode.                *)
LEMMA ReadsNow ==
  ASSUME NEW p \in Proc, NEW a, Now(k, p, a), a.pc = "reading", NEW v, v = a.vp,
         NEW m \in BOOLEAN, m <=> Linked(k, a.ino), NEW l, l = IF m THEN 1 ELSE 0,
         NEW d, Moding(k, d, v, m, l)
  PROVE  Now(d, p, At(a, "found"))
<1>1. a.pc \in Placed
  BY DEF Placed, Referring, Using
<1>2. v \in Vnode /\ k \in World /\ wchan[p] = NoChan /\ State(k, With(p, a), wchan)
  BY <1>1, PlacedIs
<1>3. With(p, a)[p] = a /\ a \in ProcRec
  BY WithAt
<1>4. l \in {0, 1}
  OBVIOUS
<1>5. d = Refiled(k, v, m, l, k.dirlock, k.dir, k.alloc)
  BY <1>2, <1>4, RefilesIs
<1>6. \A q \in Proc : q # p => With(p, a)[q].pc \notin Transit
  BY OthersStill
<1> DEFINE b == At(a, "found")
<1>7. b \in ProcRec
  BY <1>3, PlacesAre, AtIs
<1>8. d = Refiled(k, v, m, IF m THEN 1 ELSE 0, k.dirlock, k.dir, k.alloc)
  BY <1>5
<1>9. b = At(a, "found")
  OBVIOUS
<1> HIDE DEF b
<1>10. State(d, [With(p, a) EXCEPT ![p] = b], wchan)
  BY <1>2, <1>3, <1>6, <1>7, <1>8, <1>9, Reads
<1> QED
  BY <1>7, <1>9, <1>10, Goes

(* Or it could not be read.                                                 *)
LEMMA FailsNow ==
  ASSUME NEW p \in Proc, NEW r \in ProcRec, Now(k, p, r), r.pc = "reading"
  PROVE  Now(k, p, At(Failing(r), "putting"))
<1> DEFINE f == Failing(r)
           b == At(f, "putting")
<1>1. /\ f \in ProcRec /\ f.op = r.op /\ f.name = r.name /\ f.ino = r.ino /\ f.vp = r.vp /\ f.fresh = r.fresh
      /\ f.ret = IF r.op = "handle" THEN "idle" ELSE "fail"
  BY FailingIs
<1>2. "putting" \in Places
  BY PlacesAre
<1> HIDE DEF f
<1>3. /\ b \in ProcRec /\ b.pc = "putting" /\ b.op = r.op /\ b.name = r.name /\ b.ino = r.ino /\ b.vp = r.vp
      /\ b.fresh = r.fresh /\ b.ret = IF r.op = "handle" THEN "idle" ELSE "fail"
  BY <1>1, <1>2, AtIs
<1> HIDE DEF b
<1>4. r.pc \in Placed /\ r.pc \in Using /\ b.pc \in Placed /\ b.pc \in Using
  BY <1>3 DEF Placed, Referring, Using
<1>5. r.vp \in Vnode /\ AtPlace(k, p, r) /\ AtVnode(k.vn[r.vp], p, r, NoChan, k.wake)
  BY <1>4, PlacedIs
<1>6. Beside(k, k, p)
  BY SameBeside
<1>7. SameKind(r, b)
  BY <1>3, <1>4 DEF SameKind, Referring, Locking, Ending
<1>8. Searching(r) /\ ~Searching(b) /\ ~Hand(b)
  BY <1>3 DEF Searching, Hand
<1>9. IF r.op = "handle" THEN ~r.fresh ELSE HasDir(k, p, r)
  BY <1>5, <1>8 DEF AtPlace
<1>10. Fresh(r) <=> Fresh(b)
  BY <1>3, <1>8, <1>9 DEF Fresh
<1>11. AtPlace(k, p, b)
  <2>1. HasDir(k, p, b) <=> HasDir(k, p, r)
    BY <1>3 DEF HasDir
  <2> QED
    BY <1>3, <1>5, <1>8, <1>9, <1>10, <2>1 DEF AtPlace
<1>12. AtVnode(k.vn[b.vp], p, b, NoChan, k.wake)
  BY <1>3, <1>5, <1>8 DEF AtVnode
<1>13. Now(k, p, b)
  BY <1>3, <1>5, <1>6, <1>7, <1>10, <1>11, <1>12, Shifts
<1> QED
  BY <1>13 DEF b, f

LEMMA EndReadStep ==
  ASSUME Inv, NEW p \in Proc, NEW ok \in BOOLEAN, EndRead(p, ok)
  PROVE  Inv'
<1> DEFINE a == pr[p]
           v == a.vp
           m == Linked(k, a.ino)
           l == IF m THEN 1 ELSE 0
           d == [k EXCEPT !.vn[v].mode = m, !.vn[v].nlink = l]
<1>1. Runs(p, "reading") /\ (Found(d, p, a) \/ Vput(k, p, Failing(a)))
  BY DEF EndRead, Linked
<1>2. a \in ProcRec /\ a.pc = "reading" /\ Now(k, p, a)
  BY <1>1, Starts
<1>3. CASE Found(d, p, a)
  <2>1. m \in BOOLEAN
    BY DEF Linked
  <2>2. Moding(k, d, v, m, l) /\ v = a.vp /\ (m <=> Linked(k, a.ino))
    BY DEF Moding
  <2>3. l = IF m THEN 1 ELSE 0
    OBVIOUS
  <2> HIDE DEF a, v, m, l, d
  <2>4. Now(d, p, At(a, "found"))
    BY <1>2, <2>1, <2>2, <2>3, ReadsNow
  <2> QED
    BY <1>2, <1>3, <2>4, FoundNow
<1>4. CASE Vput(k, p, Failing(a))
  <2>1. Failing(a) \in ProcRec
    BY <1>2, FailingIs
  <2>2. Now(k, p, At(Failing(a), "putting"))
    BY <1>2, FailsNow
  <2> QED
    BY <1>4, <2>1, <2>2, VputsNow
<1> QED
  BY <1>1, <1>3, <1>4

(* ufs_remove() has removed the name, or has failed.                        *)
LEMMA PutDone ==
  ASSUME NEW a \in ProcRec, NEW ret \in {"idle", "done"}, NEW b, b = Put(a, ret)
  PROVE  /\ b \in ProcRec /\ b.pc = "putting" /\ b.ret = ret /\ b.op = a.op /\ b.name = a.name
         /\ b.ino = a.ino /\ b.vp = a.vp /\ b.fresh = a.fresh
<1>1. "putting" \in Places
  BY PlacesAre
<1> QED
  BY <1>1 DEF Put, ProcRec

LEMMA PutAt ==
  ASSUME NEW a \in ProcRec, NEW ret \in {"idle", "done"}, NEW r, r = [a EXCEPT !.ret = ret]
  PROVE  At(r, "putting") = Put(a, ret) /\ r \in ProcRec
BY DEF Put, At, ProcRec

LEMMA UnlinksNow ==
  ASSUME NEW p \in Proc, NEW a, Now(k, p, a), a.pc = "remove", NEW v, v = a.vp,
         NEW d, Nameless(k, d, v, a.name)
  PROVE  Now(d, p, Put(a, "done"))
<1>1. a.pc \in Placed /\ ~Hand(a)
  BY DEF Placed, Referring, Using, Hand
<1>2. v \in Vnode /\ k \in World /\ wchan[p] = NoChan /\ State(k, With(p, a), wchan) /\ AtPlace(k, p, a)
  BY <1>1, PlacedIs
<1>3. With(p, a)[p] = a /\ a \in ProcRec
  BY WithAt
<1>4. a.name \in Name
  BY <1>2 DEF AtPlace, HasDir
<1> DEFINE t == k.vn[v].mode
           F == Renamed(k, a.name, NoIno)
           b == Put(a, "done")
<1>5. d = Refiled(k, v, t, 0, k.dirlock, F, k.alloc)
  BY <1>2, <1>4, UnlinksIs
<1>6. \A q \in Proc : q # p => With(p, a)[q].pc \notin Transit
  BY OthersStill
<1>7. b \in ProcRec
  BY <1>3, PutDone
<1>8. Unlinking(k, d, With(p, a), p, v, b, t, F)
  BY <1>3, <1>5 DEF Unlinking
<1> HIDE DEF b, t, F
<1>9. State(d, [With(p, a) EXCEPT ![p] = b], wchan)
  BY <1>2, <1>3, <1>6, <1>7, <1>8, Unlinks
<1> QED
  BY <1>7, <1>9, Goes DEF b

LEMMA KeepsNow ==
  ASSUME NEW p \in Proc, NEW a, Now(k, p, a), a.pc = "remove"
  PROVE  Now(k, p, Put(a, "done"))
<1> DEFINE b == Put(a, "done")
<1>1. a \in ProcRec
  BY WithAt
<1>0. b = Put(a, "done") /\ "done" \in {"idle", "done"}
  OBVIOUS
<1> HIDE DEF b
<1>2. /\ b \in ProcRec /\ b.pc = "putting" /\ b.ret = "done" /\ b.op = a.op /\ b.name = a.name
      /\ b.ino = a.ino /\ b.vp = a.vp /\ b.fresh = a.fresh
  BY <1>0, <1>1, PutDone
<1>3. a.pc \in Placed /\ a.pc \in Using /\ b.pc \in Placed /\ b.pc \in Using
  BY <1>2 DEF Placed, Referring, Using
<1>4. a.vp \in Vnode /\ AtPlace(k, p, a) /\ AtVnode(k.vn[a.vp], p, a, NoChan, k.wake)
  BY <1>3, PlacedIs
<1>5. Beside(k, k, p)
  BY SameBeside
<1>6. SameKind(a, b)
  BY <1>2, <1>3 DEF SameKind, Referring, Locking, Ending
<1>7. ~Searching(a) /\ ~Searching(b) /\ ~Hand(b) /\ ~Fresh(a) /\ ~Fresh(b)
  BY <1>2 DEF Searching, Hand, Fresh
<1>8. AtPlace(k, p, b)
  <2>1. HasDir(k, p, b) <=> HasDir(k, p, a)
    BY <1>2 DEF HasDir
  <2> QED
    BY <1>2, <1>4, <1>7, <2>1 DEF AtPlace
<1>9. AtVnode(k.vn[b.vp], p, b, NoChan, k.wake)
  BY <1>2, <1>4, <1>7 DEF AtVnode
<1>10. Now(k, p, b)
  BY <1>2, <1>4, <1>5, <1>6, <1>7, <1>8, <1>9, Shifts
<1> QED
  BY <1>10 DEF b

LEMMA Remove_Step ==
  ASSUME Inv, NEW p \in Proc, NEW ok \in BOOLEAN, Remove_(p, ok)
  PROVE  Inv'
<1> DEFINE a == pr[p]
           v == a.vp
           r == [a EXCEPT !.ret = "done"]
           d == [k EXCEPT !.dir[a.name] = NoIno, !.vn[v].nlink = 0]
<1>1. Runs(p, "remove") /\ (Vput(d, p, r) \/ Vput(k, p, r))
  BY DEF Remove_
<1>2. a \in ProcRec /\ a.pc = "remove" /\ Now(k, p, a)
  BY <1>1, Starts
<1>3. Nameless(k, d, v, a.name) /\ v = a.vp
  BY DEF Nameless
<1>4. At(r, "putting") = Put(a, "done") /\ r \in ProcRec
  BY <1>2, PutAt
<1> HIDE DEF a, v, r, d
<1>5. Now(d, p, At(r, "putting"))
  BY <1>2, <1>3, <1>4, UnlinksNow
<1>6. Now(k, p, At(r, "putting"))
  BY <1>2, <1>4, KeepsNow
<1> QED
  BY <1>1, <1>4, <1>5, <1>6, VputsNow

(* ufs_makeinode() has the inode, and its name or not.                      *)
LEMMA MakesNow ==
  ASSUME NEW p \in Proc, NEW a, Now(k, p, a), a.pc = "makeinode", NEW v, v = a.vp, NEW ok \in BOOLEAN,
         NEW l, l = IF ok THEN 1 ELSE 0, NEW t, NEW c, Born(k, c, v, a.name, t, l),
         NEW e, Names(c, e, a.name, a.ino)
  PROVE  /\ ok => Now(e, p, At(a, "got"))
         /\ ~ok => Now(c, p, Put(a, "idle"))
<1>1. a.pc \in Placed /\ ~Hand(a)
  BY DEF Placed, Referring, Using, Hand
<1>2. v \in Vnode /\ k \in World /\ wchan[p] = NoChan /\ State(k, With(p, a), wchan) /\ AtPlace(k, p, a)
  BY <1>1, PlacedIs
<1>3. With(p, a)[p] = a /\ a \in ProcRec
  BY WithAt
<1>4. a.name \in Name /\ l \in {0, 1}
  BY <1>2 DEF AtPlace, HasDir
<1> DEFINE D == Released(k, a.name)
           F == Renamed(k, a.name, a.ino)
           b == At(a, "got")
           g == Put(a, "idle")
<1>5. t \in BOOLEAN /\ t /\ c = Refiled(k, v, t, l, D, k.dir, k.alloc) /\ e = Refiled(k, v, t, l, D, F, k.alloc)
  <2>1. k \in World /\ v \in Vnode /\ a.name \in Name /\ l \in {0, 1}
    BY <1>2, <1>4
  <2>2. Born(k, c, v, a.name, t, l) /\ Names(c, e, a.name, a.ino)
    OBVIOUS
  <2> DEFINE n == a.name
             i == a.ino
  <2> HIDE DEF n, i
  <2>3. t \in BOOLEAN /\ t /\ c = Refiled(k, v, t, l, Released(k, n), k.dir, k.alloc)
        /\ e = Refiled(k, v, t, l, Released(k, n), Renamed(k, n, i), k.alloc)
    BY <2>1, <2>2, MakesIs DEF n, i
  <2> QED
    BY <2>3 DEF n, i
<1>6. \A q \in Proc : q # p => With(p, a)[q].pc \notin Transit
  BY OthersStill
<1>7. b \in ProcRec
  BY <1>3, PlacesAre, AtIs
<1>8. g = Put(a, "idle") /\ "idle" \in {"idle", "done"} /\ b = At(a, "got")
  OBVIOUS
<1>9. D = Released(k, a.name) /\ F = Renamed(k, a.name, a.ino)
  OBVIOUS
<1> HIDE DEF D, F, b, g
<1>10. g \in ProcRec
  BY <1>3, <1>8, PutDone
<1>11. CASE ok
  <2>1. Making(k, e, With(p, a), p, v, b, ok, t, l, D, F)
    BY <1>3, <1>5, <1>8, <1>9, <1>11 DEF Making
  <2>2. State(e, [With(p, a) EXCEPT ![p] = b], wchan)
    BY <1>2, <1>3, <1>6, <1>7, <2>1, Makes
  <2>3. Now(e, p, b)
    BY <1>7, <2>2, Goes
  <2> QED
    BY <1>8, <1>11, <2>3
<1>12. CASE ~ok
  <2> DEFINE G == k.dir
  <2>1. Making(k, c, With(p, a), p, v, g, ok, t, l, D, G)
    BY <1>3, <1>5, <1>8, <1>9, <1>12 DEF Making
  <2> HIDE DEF G
  <2>2. State(c, [With(p, a) EXCEPT ![p] = g], wchan)
    BY <1>2, <1>3, <1>6, <1>10, <2>1, Makes
  <2>3. Now(c, p, g)
    BY <1>10, <2>2, Goes
  <2> QED
    BY <1>8, <1>12, <2>3
<1> QED
  BY <1>11, <1>12

LEMMA MakeinodeStep ==
  ASSUME Inv, NEW p \in Proc, NEW ok \in BOOLEAN, Makeinode(p, ok)
  PROVE  Inv'
<1> DEFINE a == pr[p]
           v == a.vp
           l == IF ok THEN 1 ELSE 0
           t == TRUE
           r == [a EXCEPT !.ret = "idle"]
           b == At(a, "got")
           c == [k EXCEPT !.dirlock[DirOf[a.name]] = NoProc, !.vn[v].mode = TRUE, !.vn[v].nlink = l]
           e == [c EXCEPT !.dir[a.name] = a.ino]
<1>1. Runs(p, "makeinode") /\ (IF ok THEN Do(e, p, b, NoChan) ELSE Vput(c, p, r))
  BY DEF Makeinode
<1>2. a \in ProcRec /\ a.pc = "makeinode" /\ Now(k, p, a)
  BY <1>1, Starts
<1>3. Born(k, c, v, a.name, t, l) /\ v = a.vp /\ l = IF ok THEN 1 ELSE 0
  BY DEF Born
<1>4. Names(c, e, a.name, a.ino)
  BY DEF Names
<1>5. At(r, "putting") = Put(a, "idle") /\ r \in ProcRec
  BY <1>2, PutAt
<1>6. b \in ProcRec /\ b.pc = "got" /\ b = At(a, "got")
  BY <1>2, PlacesAre, AtIs
<1> HIDE DEF a, v, l, t, r, b, c, e
<1>7. (ok => Now(e, p, b)) /\ (~ok => Now(c, p, At(r, "putting")))
  BY <1>2, <1>3, <1>4, <1>5, <1>6, MakesNow
<1>8. b.pc \notin Transit
  BY <1>6 DEF Transit
<1>9. CASE ok
  <2>1. Do(e, p, b, NoChan) /\ Now(e, p, b)
    BY <1>1, <1>7, <1>9
  <2> QED
    BY <1>8, <2>1, Done
<1>10. CASE ~ok
  <2>1. Vput(c, p, r) /\ Now(c, p, At(r, "putting"))
    BY <1>1, <1>7, <1>10
  <2> QED
    BY <1>5, <2>1, VputsNow
<1> QED
  BY <1>9, <1>10

(* ufs_inactive() gives the inode back.                                     *)
LEMMA VfreeStep ==
  ASSUME Inv, NEW p \in Proc, Vfree(p)
  PROVE  Inv'
<1> DEFINE a == pr[p]
           v == a.vp
           t == FALSE
           A == k.alloc \ {k.vn[v].ino}
           b == At(a, "update")
           d == [k EXCEPT !.vn[v].mode = FALSE, !.alloc = @ \ {k.vn[v].ino}]
<1>1. Runs(p, "inactive") /\ k.vn[v].nlink = 0 /\ Do(d, p, b, NoChan)
  BY DEF Vfree
<1>2. a \in ProcRec /\ a.pc = "inactive" /\ Now(k, p, a)
  BY <1>1, Starts
<1>3. Given(k, d, v, t, A) /\ v = a.vp /\ A = k.alloc \ {k.vn[v].ino}
  BY DEF Given
<1>4. b \in ProcRec /\ b.pc = "update" /\ b = At(a, "update")
  BY <1>2, PlacesAre, AtIs
<1> HIDE DEF a, v, t, A, b, d
<1>5. a.pc \in Placed /\ b.pc \notin Transit
  BY <1>2, <1>4 DEF Placed, Ending, Transit
<1>6. a.vp \in Vnode /\ k \in World /\ wchan[p] = NoChan /\ State(k, With(p, a), wchan)
  BY <1>2, <1>5, PlacedIs
<1>7. With(p, a)[p] = a
  BY <1>2, WithAt
<1>8. t \in BOOLEAN /\ ~t /\ d = Refiled(k, v, t, 0, k.dirlock, k.dir, A)
  BY <1>1, <1>3, <1>6, FreesIs
<1>9. \A q \in Proc : q # p => With(p, a)[q].pc \notin Transit
  BY <1>2, OthersStill
<1>10. Freeing(k, d, With(p, a), p, v, b, t, A)
  BY <1>3, <1>4, <1>7, <1>8 DEF Freeing
<1>11. v \in Vnode /\ With(p, a)[p].vp = v /\ With(p, a)[p].pc = "inactive"
  BY <1>2, <1>3, <1>6, <1>7
<1>12. State(d, [With(p, a) EXCEPT ![p] = b], wchan)
  BY <1>1, <1>4, <1>6, <1>9, <1>10, <1>11, Frees
<1>13. Now(d, p, b)
  BY <1>2, <1>4, <1>12, Goes
<1> QED
  BY <1>1, <1>5, <1>13, Done

(* The end of ufs_inactive(): nobody cleans the vnode meanwhile, and p may  *)
(* do so if nobody has taken it.                                            *)
LEMMA LeavesNow ==
  ASSUME NEW p \in Proc, NEW a, Now(k, p, a), NEW v, v = a.vp,
         a.pc = "update" \/ (a.pc = "inactive" /\ k.vn[v].nlink # 0),
         NEW d, d = Unlock(k, v)
  PROVE  /\ Now(d, p, At(a, "leaving")) /\ v \in Vnode
         /\ ~d.vn[v].vx /\ d.vn[v].live /\ d.vn[v].locked = NoProc /\ d.vn[v].use = k.vn[v].use
<1> DEFINE b == At(a, "leaving")
<1>1. a.pc \in Placed /\ a.pc \in Ending
  BY DEF Placed, Ending
<1>2. /\ v \in Vnode /\ k \in World /\ wchan[p] = NoChan /\ State(k, With(p, a), wchan)
      /\ AtVnode(k.vn[v], p, a, NoChan, k.wake) /\ Owned(k, With(p, a), v)
  BY <1>1, PlacedIs
<1>3. With(p, a)[p] = a /\ a \in ProcRec
  BY WithAt
<1>4. b \in ProcRec /\ b.vp = a.vp /\ b = At(a, "leaving")
  BY <1>3, PlacesAre, AtIs
<1> HIDE DEF b
<1>5. State(d, [With(p, a) EXCEPT ![p] = b], wchan)
  BY <1>2, <1>3, <1>4, Unlocks
<1>6. Now(d, p, b)
  BY <1>4, <1>5, Goes
<1>7. ~k.vn[v].vx
  <2> SUFFICES ASSUME k.vn[v].vx PROVE FALSE
    OBVIOUS
  <2>1. PICK q \in Proc : With(p, a)[q].vp = v /\ With(p, a)[q].pc = "vinval"
    BY <1>2 DEF Owned
  <2>2. q # p
    BY <1>3, <2>1
  <2>3. Apart(With(p, a)[p], With(p, a)[q])
    BY <1>2, <2>2 DEF State
  <2> QED
    BY <1>1, <1>3, <2>1, <2>3 DEF Apart, Ending
<1>8. k.vn[v].live
  BY <1>2 DEF AtVnode
<1>9. ButLock(k.vn[v], d.vn[v]) /\ d.vn[v].locked = NoProc
  BY <1>2, <1>8, UnlockIs
<1> QED
  BY <1>2, <1>4, <1>6, <1>7, <1>8, <1>9 DEF ButLock

LEMMA EndInactiveStep ==
  ASSUME Inv, NEW p \in Proc, EndInactive(p)
  PROVE  Inv'
<1> DEFINE a == pr[p]
           v == a.vp
           d == Unlock(k, v)
           b == At(a, "leaving")
           l == LockTry(d, p, v)
<1>1. /\ Runs(p, "update") \/ (Runs(p, "inactive") /\ k.vn[v].nlink > 0)
      /\ IF k.vn[v].use = 0 /\ ~k.vn[v].mode THEN Vgone(d, p, a) ELSE Continue(d, p, a)
  BY DEF EndInactive
<1>2. a \in ProcRec /\ Now(k, p, a) /\ (a.pc = "update" \/ (a.pc = "inactive" /\ k.vn[v].nlink # 0))
  <2>1. CASE Runs(p, "update")
    BY <2>1, Starts
  <2>2. CASE Runs(p, "inactive") /\ k.vn[v].nlink > 0
    <3>1. k.vn[v].nlink # 0
      BY <2>2
    <3> QED
      BY <2>2, <3>1, Starts
  <2> QED
    BY <1>1, <2>1, <2>2
<1>3. v = a.vp /\ d = Unlock(k, v) /\ b = At(a, "leaving")
  OBVIOUS
<1>4. b.pc = "leaving" /\ b.vp = v /\ At(b, "vinval") = At(a, "vinval")
  BY <1>2, PlacesAre, AtIs, AtAt
<1>5. Vgone(d, p, a) /\ ~d.vn[v].vx /\ l.is # "sleep" => Do(Cleaned(l.k, v), p, At(b, "vinval"), NoChan)
  BY <1>4 DEF Vgone, Vclean, Cleaned
<1> HIDE DEF a, v, d, b
<1>6. /\ Now(d, p, b) /\ v \in Vnode /\ ~d.vn[v].vx /\ d.vn[v].live /\ d.vn[v].locked = NoProc
      /\ d.vn[v].use = k.vn[v].use
  BY <1>2, <1>3, LeavesNow
<1>7. CASE Continue(d, p, a)
  BY <1>2, <1>3, <1>6, <1>7, Continues
<1>8. CASE k.vn[v].use = 0 /\ Vgone(d, p, a)
  <2>1. l.is # "sleep"
    BY <1>6 DEF LockTry
  <2>2. Do(Cleaned(l.k, v), p, At(b, "vinval"), NoChan)
    BY <1>5, <1>6, <1>8, <2>1
  <2>3. l.k = IF d.vn[v].live THEN Locked(d, v, p) ELSE d
    BY <2>1, LockTries
  <2> HIDE DEF l
  <2>4. d.vn[v].use = 0
    BY <1>6, <1>8
  <2> QED
    BY <1>4, <1>6, <2>2, <2>3, <2>4, CleansNow
<1> QED
  BY <1>1, <1>7, <1>8

(* The end of vclean() and vgone().                                         *)
LEMMA EndVinvalStep ==
  ASSUME Inv, NEW p \in Proc, EndVinval(p)
  PROVE  Inv'
<1> DEFINE a == pr[p]
           v == a.vp
           d == Reclaim(k, v)
           b == At(a, IF a.ret = "getnewvnode" THEN "hashwait" ELSE "leaving")
<1>1. Runs(p, "vinval") /\ Continue(d, p, a)
  BY DEF EndVinval
<1>2. a \in ProcRec /\ a.pc = "vinval" /\ Now(k, p, a)
  BY <1>1, Starts
<1>3. b \in ProcRec /\ b.ino = a.ino
  BY <1>2, PlacesAre, AtIs
<1>4. v = a.vp /\ d = Reclaim(k, v) /\ b = At(a, IF a.ret = "getnewvnode" THEN "hashwait" ELSE "leaving")
  OBVIOUS
<1> HIDE DEF a, v, d, b
<1>5. a.pc \in Placed
  BY <1>2 DEF Placed, Ending
<1>6. a.vp \in Vnode /\ wchan[p] = NoChan /\ State(k, With(p, a), wchan)
  BY <1>2, <1>5, PlacedIs
<1>7. With(p, a)[p] = a
  BY <1>2, WithAt
<1>8. /\ State(d, [With(p, a) EXCEPT ![p] = b], wchan)
      /\ a.ret = "getnewvnode" => Clear(d, wchan, p, v, b.ino)
  BY <1>2, <1>3, <1>4, <1>6, <1>7, Reclaims
<1>9. Now(d, p, b)
  BY <1>2, <1>3, <1>8, Goes
<1>10. CASE a.ret = "getnewvnode"
  <2>1. NewVnode(d, p, a)
    BY <1>1, <1>10 DEF Continue
  <2>2. Now(d, p, At(a, "hashwait")) /\ Clear(d, wchan, p, v, a.ino)
    BY <1>3, <1>4, <1>8, <1>9, <1>10
  <2> QED
    BY <1>2, <1>4, <1>6, <2>1, <2>2, News
<1>11. CASE a.ret # "getnewvnode"
  <2>1. Now(d, p, At(a, "leaving"))
    BY <1>4, <1>9, <1>11
  <2> QED
    BY <1>1, <1>2, <2>1, Continues
<1> QED
  BY <1>10, <1>11

(* vgone() has waited for another one: v is clean, and out of reach.        *)
LEMMA WaitedClear ==
  ASSUME NEW p \in Proc, NEW a, Now(k, p, a), a.pc = "vgonewait", NEW v, v = a.vp
  PROVE  Clear(k, wchan, p, v, a.ino) /\ v \in Vnode /\ a.ret = "getnewvnode"
<1>1. a.pc \in Placed /\ Hand(a)
  BY DEF Placed, Hand
<1>2. /\ v \in Vnode /\ k \in World /\ State(k, With(p, a), wchan) /\ AtPlace(k, p, a)
      /\ AtVnode(k.vn[v], p, a, NoChan, k.wake) /\ VnodeOK(k.vn[v]) /\ Owned(k, With(p, a), v)
  BY <1>1, PlacedIs
<1>3. With(p, a)[p] = a
  BY WithAt
<1>4. k.hashlock = p /\ a.ret = "getnewvnode" /\ \A u \in Vnode : k.vn[u].ino # a.ino
  BY <1>1, <1>2 DEF AtPlace
<1>5. k.vn[v].use = 0 /\ k.vn[v].deadb /\ ~k.vn[v].live
  BY <1>1, <1>2, Channels DEF AtVnode
<1>6. ~In(k.free, v) /\ k.vn[v].locked = NoProc
  BY <1>2, <1>5 DEF Owned, VnodeOK
<1>7. ~k.vn[v].vx
  <2> SUFFICES ASSUME k.vn[v].vx PROVE FALSE
    OBVIOUS
  <2>1. PICK q \in Proc : With(p, a)[q].vp = v /\ With(p, a)[q].pc = "vinval"
    BY <1>2 DEF Owned
  <2>2. q # p /\ With(p, a)[q].pc \in Placed
    BY <1>3, <2>1 DEF Placed, Ending
  <2>3. AtVnode(k.vn[v], q, With(p, a)[q], wchan[q], k.wake) /\ AtPlace(k, q, With(p, a)[q])
    BY <1>2, <2>1, <2>2 DEF State
  <2>4. Hand(With(p, a)[q])
    BY <1>5, <2>1, <2>3 DEF AtVnode, Hand
  <2> QED
    BY <1>4, <2>2, <2>3, <2>4 DEF AtPlace
<1>8. ASSUME NEW q \in Proc, wchan[q] = Ip(v) PROVE Ip(v) \in k.wake
  <2>1. Asleep(k, v, wchan[q])
    BY <1>2 DEF State
  <2> QED
    BY <1>6, <1>8, <2>1 DEF Asleep
<1> QED
  BY <1>2, <1>4, <1>5, <1>6, <1>7, <1>8 DEF Clear

LEMMA VgoneWaitedStep ==
  ASSUME Inv, NEW p \in Proc, VgoneWaited(p)
  PROVE  Inv'
<1> DEFINE a == pr[p]
           v == a.vp
           b == At(a, "hashwait")
<1>1. Runs(p, "vgonewait") /\ Continue(k, p, a)
  BY DEF VgoneWaited
<1>2. a \in ProcRec /\ a.pc = "vgonewait" /\ Now(k, p, a)
  BY <1>1, Starts
<1>3. Clear(k, wchan, p, v, a.ino) /\ v \in Vnode /\ a.ret = "getnewvnode"
  BY <1>2, WaitedClear
<1>4. NewVnode(k, p, a)
  BY <1>1, <1>3 DEF Continue
<1>5. /\ b \in ProcRec /\ b.pc = "hashwait" /\ b.op = a.op /\ b.name = a.name /\ b.ino = a.ino
      /\ b.fresh = a.fresh
  BY <1>2, PlacesAre, AtIs
<1> HIDE DEF b
<1>6. AtPlace(k, p, a) /\ Beside(k, k, p)
  BY <1>2, NowIs, SameBeside
<1>7. Hand(a) /\ Searching(a) /\ Searching(b) /\ ~Hand(b) /\ (Fresh(a) <=> Fresh(b))
  BY <1>2, <1>5 DEF Hand, Searching, Fresh
<1>8. b.pc \notin Placed /\ b.pc \notin Leaving
  BY <1>5 DEF Placed, Referring, Using, Ending, Leaving
<1>9. SameKind(a, b)
  BY <1>2, <1>5, <1>8 DEF SameKind, Referring, Using, Ending, Locking
<1>10. AtPlace(k, p, b)
  <2>1. HasDir(k, p, b) <=> HasDir(k, p, a)
    BY <1>5 DEF HasDir
  <2> QED
    BY <1>5, <1>6, <1>7, <1>8, <2>1 DEF AtPlace
<1>11. Now(k, p, b)
  BY <1>2, <1>5, <1>6, <1>7, <1>8, <1>9, <1>10, Shifts
<1> QED
  BY <1>2, <1>3, <1>4, <1>11, News DEF b

(* namei() has locked the directory, and ufs_lookup() has asked the cache.  *)
LEMMA LocksDir ==
  ASSUME NEW p \in Proc, NEW a, Now(k, p, a), a.pc \in {"idle", "vgetfail"}, k.wake = {},
         NEW n \in Name, k.dirlock[DirOf[n]] = NoProc, NEW c, c = [k EXCEPT !.dirlock[DirOf[n]] = p]
  PROVE  /\ c \in World /\ Dirs(k, c, p) /\ c.dirlock[DirOf[n]] = p
         /\ Entries(c.nc) /\ Len(c.nc) <= NameCacheSize
<1>1. k \in World /\ Entries(k.nc) /\ Len(k.nc) <= NameCacheSize
  BY NowIs
<1>2. Dirs(k, c, p) /\ c.dirlock[DirOf[n]] = p
  BY <1>1, DirsIs
<1> QED
  BY <1>1, <1>2 DEF Dirs

LEMMA AsksNow ==
  ASSUME NEW p \in Proc, NEW a, Now(k, p, a), a.pc \in {"idle", "vgetfail"}, k.wake = {},
         NEW n \in Name, NEW c, Dirs(k, c, p), c.dirlock[DirOf[n]] = p, NEW e, Cached(c, e),
         NEW r \in ProcRec, r.name = n, r.op # "handle", ~r.fresh
  PROVE  Now(e, p, At(r, "vgetfail")) /\ e.wake = {}
<1> DEFINE b == At(r, "vgetfail")
<1>1. b \in ProcRec /\ b.pc = "vgetfail" /\ b.name = n /\ b.op # "handle" /\ ~b.fresh
  BY PlacesAre, AtIs
<1> HIDE DEF b
<1>2. Beside(k, e, p) /\ e.alloc = k.alloc
  BY CachedBeside
<1>3. e.dirlock = c.dirlock /\ e.wake = {}
  BY DEF Cached, Dirs
<1>4. SameKind(a, b) /\ b.pc \notin Placed
  BY <1>1, Nowhere
<1>5. ~Fresh(a) /\ ~Fresh(b) /\ ~Hand(b) /\ ~Searching(b) /\ b.pc \notin Leaving
  BY <1>1 DEF Fresh, Hand, Searching, Leaving, Ending
<1>6. AtPlace(e, p, b)
  BY <1>1, <1>3, <1>4, <1>5 DEF AtPlace, HasDir
<1>7. Now(e, p, b)
  BY <1>1, <1>2, <1>4, <1>5, <1>6, Shifts
<1> QED
  BY <1>3, <1>7 DEF b

(* ufs_lookup() once more.                                                  *)
LEMMA LookingIs ==
  ASSUME NEW op \in {"open", "create", "unlink", "none"}, NEW n \in Name, NEW r, r = Looking(op, n)
  PROVE  r \in ProcRec /\ r.op = op /\ r.name = n /\ ~r.fresh /\ r.op # "handle"
BY IdleIs DEF Looking, ProcRec

LEMMA VgetFailedStep ==
  ASSUME Inv, NEW p \in Proc, VgetFailed(p)
  PROVE  Inv'
<1> DEFINE a == pr[p]
           n == a.name
           c == [k EXCEPT !.dirlock[DirOf[n]] = p]
           r == Looking(a.op, n)
<1>1. Runs(p, "vgetfail") /\ Search(k, p, r)
  BY DEF VgetFailed
<1>2. a \in ProcRec /\ a.pc = "vgetfail" /\ Now(k, p, a) /\ k.wake = {}
  BY <1>1, Starts
<1>3. r = Looking(a.op, n) /\ n = a.name /\ c = [k EXCEPT !.dirlock[DirOf[n]] = p]
  OBVIOUS
<1> HIDE DEF a, n, c, r
<1>4. k \in World /\ AtPlace(k, p, a) /\ Entries(k.nc) /\ Len(k.nc) <= NameCacheSize
  BY <1>2, NowIs
<1>5. n \in Name /\ a.op \in {"open", "create", "unlink", "none"} /\ k.dirlock[DirOf[n]] = p
  BY <1>2, <1>3, <1>4, ProcType DEF AtPlace, HasDir
<1>6. r \in ProcRec /\ ~r.fresh /\ r.op # "handle" /\ r.name = n
  BY <1>3, <1>5, LookingIs
<1>7. Dirs(k, c, p) /\ c.dirlock[DirOf[n]] = p
  BY <1>3, <1>4, <1>5, DirsIs
<1>8. c = k
  BY <1>3, <1>4, <1>5 DEF World
<1>9. Cached(k, k)
  BY <1>4 DEF Cached
<1>10. Now(k, p, At(r, "vgetfail"))
  BY <1>2, <1>5, <1>6, <1>7, <1>8, <1>9, AsksNow
<1> QED
  BY <1>1, <1>2, <1>6, <1>10, SearchNow

(* namei() and ufs_lookup().                                                *)
Hit(r, v, id, i) == [r EXCEPT !.vp = v, !.vpid = id, !.ino = i]

LEMMA HitIs ==
  ASSUME NEW r \in ProcRec, NEW v \in Vnode, NEW id \in 0 .. IdMod - 1, NEW i \in Ino \cup {NoIno},
         NEW g, g = Hit(r, v, id, i)
  PROVE  g \in ProcRec /\ g.vp = v /\ g.name = r.name /\ g.op = r.op /\ g.fresh = r.fresh
BY DEF Hit, ProcRec

LEMMA LookupStep ==
  ASSUME Inv, NEW p \in Proc, NEW op \in Ops[p] \ {"handle"}, NEW n \in Name, Lookup(p, op, n)
  PROVE  Inv'
<1> DEFINE a == pr[p]
           c == [k EXCEPT !.dirlock[DirOf[n]] = p]
           l == cache_lookup(c, n, op)
           r == Looking(op, n)
           e == l.k
           v == l.vp
           g == Hit(r, v, e.vn[v].id, k.dir[n])
<1>1. op \in {"open", "create", "unlink", "none"}
  BY VnodesAssumption
<1>2. r \in ProcRec /\ r.op = op /\ r.name = n /\ ~r.fresh /\ r.op # "handle"
  BY <1>1, LookingIs
<1>3. /\ Runs(p, "idle") /\ k.dirlock[DirOf[n]] = NoProc
      /\ \/ l.is = "miss" /\ Search(e, p, r)
         \/ l.is = "none" /\ Do([e EXCEPT !.dirlock[DirOf[r.name]] = NoProc], p, Idle, NoChan)
         \/ l.is = "hit" /\ Vget(e, p, g)
  BY DEF Lookup, Looking, Hit
<1>4. a \in ProcRec /\ a.pc = "idle" /\ Now(k, p, a) /\ k.wake = {}
  BY <1>3, Starts
<1>5. c = [k EXCEPT !.dirlock[DirOf[n]] = p]
  OBVIOUS
<1>12. l = cache_lookup(c, n, op)
  OBVIOUS
<1> HIDE DEF a, c, l, r, g
<1>6. /\ c \in World /\ Dirs(k, c, p) /\ c.dirlock[DirOf[n]] = p
      /\ Entries(c.nc) /\ Len(c.nc) <= NameCacheSize
  BY <1>3, <1>4, <1>5, LocksDir
<1>7. /\ Cached(c, e)
      /\ l.is = "hit" => l.vp \in Vnode /\ c.vn[l.vp].id # 0
  BY <1>6, <1>12, LookupIs
<1>8. Now(e, p, At(r, "vgetfail")) /\ e.wake = {}
  BY <1>2, <1>4, <1>6, <1>7, AsksNow
<1>9. CASE l.is = "miss" /\ Search(e, p, r)
  BY <1>2, <1>8, <1>9, SearchNow
<1>10. CASE l.is = "none" /\ Do([e EXCEPT !.dirlock[DirOf[r.name]] = NoProc], p, Idle, NoChan)
  <2> HIDE DEF e
  <2>1. Cached(e, e)
    BY <1>8, SameCached
  <2> QED
    BY <1>2, <1>8, <1>10, <2>1, MissesNow
<1>11. CASE l.is = "hit" /\ Vget(e, p, g)
  <2> DEFINE id == e.vn[v].id
             i == k.dir[n]
  <2>8. g = Hit(r, v, id, i)
    BY DEF g
  <2>1. e \in World /\ e.vn = c.vn /\ v \in Vnode /\ c.vn[v].id # 0
    BY <1>7, <1>11 DEF Cached
  <2>2. id \in 0 .. IdMod - 1
    BY <2>1, WorldType, VnodeType
  <2>3. i \in Ino \cup {NoIno}
    <3>1. k \in World
      BY <1>4, NowIs
    <3> QED
      BY <3>1, WorldType
  <2>9. c.vn[v].id # 0 /\ e.vn[v].id # 0
    BY <2>1
  <2> HIDE DEF id, i, e, v
  <2>4. g \in ProcRec /\ g.vp = v /\ g.name = n /\ g.op = r.op /\ ~g.fresh
    BY <1>2, <2>1, <2>2, <2>3, <2>8, HitIs
  <2>5. g.op # "handle"
    BY <1>2, <2>4
  <2>6. Now(e, p, At(g, "vgetfail"))
    BY <1>4, <1>6, <1>7, <2>4, <2>5, AsksNow
  <2>7. g.vp \in Vnode /\ e.vn[g.vp].id # 0
    BY <2>1, <2>4, <2>9
  <2> QED
    BY <1>8, <1>11, <2>4, <2>6, <2>7, VgetNow
<1> QED
  BY <1>3, <1>9, <1>10, <1>11

(* ffs_fhtovp().                                                            *)
Handle(i) == [Idle EXCEPT !.op = "handle", !.ino = i]

LEMMA FhtovpStep ==
  ASSUME Inv, NEW p \in Proc, NEW i \in Ino, Fhtovp(p, i)
  PROVE  Inv'
<1> DEFINE a == pr[p]
           r == Handle(i)
           b == At(r, "ffs_vget")
<1>1. Runs(p, "idle") /\ Ffs_vget(k, p, r)
  BY DEF Fhtovp, Handle
<1>2. a \in ProcRec /\ a.pc = "idle" /\ Now(k, p, a) /\ k.wake = {}
  BY <1>1, Starts
<1>3. r \in ProcRec /\ r.op = "handle" /\ r.ino = i /\ ~r.fresh
  BY IdleIs DEF Handle, ProcRec
<1> HIDE DEF a, r
<1>4. b \in ProcRec /\ b.pc = "ffs_vget" /\ b.op = "handle" /\ b.ino = i /\ ~b.fresh
  <2>1. "ffs_vget" \in Places
    BY PlacesAre
  <2> QED
    BY <1>3, <2>1, AtIs
<1> HIDE DEF b
<1>5. Beside(k, k, p)
  BY <1>2, SameBeside
<1>6. SameKind(a, b) /\ b.pc \notin Placed
  BY <1>2, <1>4, Nowhere
<1>7. ~Fresh(a) /\ ~Fresh(b) /\ ~Hand(b) /\ b.pc \notin Leaving
  BY <1>2, <1>4 DEF Fresh, Hand, Searching, Leaving, Ending
<1>8. AtPlace(k, p, b)
  BY <1>4, <1>6, <1>7 DEF AtPlace
<1>9. Now(k, p, b)
  BY <1>2, <1>4, <1>5, <1>6, <1>7, <1>8, Shifts
<1> QED
  BY <1>1, <1>2, <1>3, <1>9, Ffs_vgetNow DEF b
-----------------------------------------------------------------------------
(* The theorems.                                                            *)

LEMMA InitInv ==
  ASSUME Init
  PROVE  Inv
<1>1. /\ pr = [p \in Proc |-> Idle] /\ wchan = [p \in Proc |-> NoChan]
      /\ k.vn = [v \in Vnode |-> Unborn] /\ k.free = <<>> /\ k.nc = <<>> /\ k.nextid = DirId
      /\ k.dir = [n \in Name |-> NoIno] /\ k.dirlock = [D \in Dir |-> NoProc] /\ k.hashlock = NoProc
      /\ k.alloc = {} /\ k.panicked = FALSE /\ k.wake = {}
  BY DEF Init
<1>2. Unborn \in VnodeRec /\ VnodeOK(Unborn)
  BY NameCacheAssumption DEF Unborn, VnodeRec, VnodeOK
<1>3. Types(k, pr, wchan)
  <2>1. k \in World
    BY <1>2, NameCacheAssumption DEF Init, World
  <2>2. Once(k.free) /\ Entries(k.nc) /\ Len(k.nc) <= NameCacheSize
    BY <1>1, NameCacheAssumption DEF Once, Entries
  <2> QED
    BY <1>1, <2>1, <2>2, IdleIs DEF Types
<1>4. \A q \in Proc : pr[q] = Idle /\ wchan[q] = NoChan
  BY <1>1
<1>5. Idle.pc \notin Placed /\ Idle.pc \notin Referring /\ ~Fresh(Idle) /\ Idle.pc \notin Ending
  BY IdleIs DEF Placed, Referring, Using, Ending, Fresh, Searching, Hand
<1>6. ASSUME NEW v \in Vnode PROVE VnodeOK(k.vn[v]) /\ Owned(k, pr, v) /\ Filed(k, v)
  <2>1. k.vn[v] = Unborn
    BY <1>1
  <2>2. Refs(pr, v) = {}
    BY <1>4, <1>5 DEF Refs
  <2>3. Cardinality(Refs(pr, v)) = 0
    BY <2>2, FS_EmptySet
  <2>4. ~In(k.free, v)
    BY <1>1 DEF In
  <2> QED
    BY <1>2, <2>1, <2>3, <2>4 DEF Owned, Filed, Unborn
<1>7. \A v \in Vnode, q \in Proc : Asleep(k, v, wchan[q])
  BY <1>4, Channels DEF Asleep
<1>8. Single(k) /\ Named(k)
  BY <1>1 DEF Single, Named, Unborn
<1>9. \A q \in Proc : AtPlace(k, q, pr[q])
  BY <1>4, IdlePlace
<1>10. \A q \in Proc : pr[q].pc \in Placed => AtVnode(k.vn[pr[q].vp], q, pr[q], wchan[q], k.wake)
  BY <1>4, <1>5
<1>11. \A q, s \in Proc : q # s => Apart(pr[q], pr[s])
  BY <1>4, <1>5 DEF Apart
<1>12. State(k, pr, wchan)
  BY <1>3, <1>6, <1>7, <1>8, <1>9, <1>10, <1>11 DEF State
<1> QED
  BY <1>1, <1>4, <1>12, IdlePlace DEF Inv

LEMMA NextInv ==
  ASSUME Inv, Next
  PROVE  Inv'
<1>1. PICK p \in Proc :
        \/ \E op \in Ops[p] \ {"handle"}, n \in Name : Lookup(p, op, n)
        \/ \E i \in Ino : Fhtovp(p, i)
        \/ VgetFailed(p) \/ ResumeVgetLock(p) \/ ResumeFfs_vget(p) \/ HashWait(p)
        \/ \E ok \in BOOLEAN : EndRead(p, ok)
        \/ Open(p) \/ Close(p)
        \/ \E ok \in BOOLEAN : Remove_(p, ok)
        \/ \E ok \in BOOLEAN : Makeinode(p, ok)
        \/ Vfree(p) \/ EndInactive(p) \/ ResumeVclean(p) \/ EndVinval(p) \/ VgoneWaited(p)
  BY DEF Next
<1>2. CASE \E op \in Ops[p] \ {"handle"}, n \in Name : Lookup(p, op, n)
  BY <1>2, LookupStep
<1>3. CASE \E i \in Ino : Fhtovp(p, i)
  BY <1>3, FhtovpStep
<1>4. CASE VgetFailed(p)
  BY <1>4, VgetFailedStep
<1>6. CASE ResumeVgetLock(p)
  BY <1>6, ResumeVgetLockStep
<1>7. CASE ResumeFfs_vget(p)
  BY <1>7, ResumeFfs_vgetStep
<1>8. CASE HashWait(p)
  BY <1>8, HashWaitStep
<1>9. CASE \E ok \in BOOLEAN : EndRead(p, ok)
  BY <1>9, EndReadStep
<1>10. CASE Open(p)
  BY <1>10, OpenStep
<1>11. CASE Close(p)
  BY <1>11, CloseStep
<1>12. CASE \E ok \in BOOLEAN : Remove_(p, ok)
  BY <1>12, Remove_Step
<1>13. CASE \E ok \in BOOLEAN : Makeinode(p, ok)
  BY <1>13, MakeinodeStep
<1>14. CASE Vfree(p)
  BY <1>14, VfreeStep
<1>15. CASE EndInactive(p)
  BY <1>15, EndInactiveStep
<1>16. CASE ResumeVclean(p)
  BY <1>16, ResumeVcleanStep
<1>17. CASE EndVinval(p)
  BY <1>17, EndVinvalStep
<1>18. CASE VgoneWaited(p)
  BY <1>18, VgoneWaitedStep
<1> QED
  BY <1>1, <1>2, <1>3, <1>4, <1>6, <1>7, <1>8, <1>9, <1>10, <1>11, <1>12, <1>13, <1>14, <1>15, <1>16,
     <1>17, <1>18

(* The invariant, which the other theorems follow from: what each process   *)
(* at each place may count on, in every state that the program reaches.     *)
THEOREM Invariant == Spec => []Inv
<1>1. Init => Inv
  BY InitInv
<1>2. Inv /\ [Next]_vars => Inv'
  <2>1. CASE Inv /\ Next
    BY <2>1, NextInv
  <2>2. CASE Inv /\ UNCHANGED vars
    BY <2>2 DEF vars, Inv
  <2> QED
    BY <2>1, <2>2
<1> QED
  BY <1>1, <1>2, PTL DEF Spec

(* A vnode is on a list without repetitions once or not at all.             *)
LEMMA Counted ==
  ASSUME NEW s \in Seq(Vnode), Once(s), NEW v
  PROVE  Cardinality({i \in 1 .. Len(s) : s[i] = v}) = IF In(s, v) THEN 1 ELSE 0
<1> DEFINE S == {i \in 1 .. Len(s) : s[i] = v}
<1>1. CASE In(s, v)
  <2>1. PICK i \in 1 .. Len(s) : s[i] = v
    BY <1>1 DEF In
  <2>2. S = {i}
    BY <2>1 DEF Once
  <2> QED
    BY <1>1, <2>2, FS_Singleton
<1>2. CASE ~In(s, v)
  <2>1. S = {}
    BY <1>2 DEF In
  <2> QED
    BY <1>2, <2>1, FS_EmptySet
<1> QED
  BY <1>1, <1>2

(* The invariant says as much of counts, free list and panics.              *)
LEMMA InvUsersExact ==
  ASSUME Inv
  PROVE  UsersExact
<1>1. /\ k \in World /\ pr \in [Proc -> ProcRec] /\ Once(k.free) /\ Len(k.nc) <= NameCacheSize
      /\ \A v \in Vnode : VnodeOK(k.vn[v]) /\ Owned(k, pr, v)
      /\ \A p \in Proc : pr[p].pc \notin Transit
  BY DEF Inv, State, Types
<1>2. IsFiniteSet(Proc)
  BY VnodesAssumption
<1>3. ASSUME NEW v \in Vnode PROVE k.vn[v].use \in 0 .. Cardinality(Proc)
  <2>1. Refs(pr, v) \subseteq Proc
    BY DEF Refs
  <2>2. Cardinality(Refs(pr, v)) <= Cardinality(Proc) /\ Cardinality(Refs(pr, v)) \in Nat /\ Cardinality(Proc) \in Nat
    BY <1>2, <2>1, FS_Subset, FS_CardinalityType
  <2>3. k.vn[v].use = Cardinality(Refs(pr, v))
    BY <1>1 DEF Owned
  <2> QED
    BY <2>2, <2>3
<1>4. TypeOK
  BY <1>1, <1>3, WorldType, VnodeType DEF TypeOK
<1>5. FreeListExact
  <2> SUFFICES ASSUME NEW v \in Vnode
               PROVE  Cardinality({i \in 1 .. Len(k.free) : k.free[i] = v}) =
                        IF k.vn[v].id # 0 /\ k.vn[v].use = 0 /\ ~k.vn[v].deadb THEN 1 ELSE 0
    BY DEF FreeListExact
  <2>1. In(k.free, v) <=> k.vn[v].id # 0 /\ k.vn[v].use = 0 /\ ~k.vn[v].deadb
    BY <1>1 DEF Owned
  <2>2. k.free \in Seq(Vnode)
    BY <1>1, WorldType
  <2>3. Cardinality({i \in 1 .. Len(k.free) : k.free[i] = v}) = IF In(k.free, v) THEN 1 ELSE 0
    BY <1>1, <2>2, Counted
  <2> QED
    BY <2>1, <2>3
<1>6. RefsExact
  <2> SUFFICES ASSUME NEW v \in Vnode
               PROVE  k.vn[v].use = Cardinality({p \in Proc : pr[p].vp = v /\ pr[p].pc \in
                                      {"reading", "got", "open", "remove", "makeinode", "vgetlock"}})
    BY DEF RefsExact
  <2>1. k.vn[v].use = Cardinality(Refs(pr, v))
    BY <1>1 DEF Owned
  <2>2. Refs(pr, v) = {p \in Proc : pr[p].vp = v /\ pr[p].pc \in
                        {"reading", "got", "open", "remove", "makeinode", "vgetlock"}}
    BY <1>1 DEF Refs, Referring, Using, Transit
  <2> QED
    BY <2>1, <2>2
<1>7. NoPanic
  BY DEF Inv, State, Types, NoPanic
<1> QED
  BY <1>4, <1>5, <1>6, <1>7 DEF UsersExact

(* What vget(), vrele(), getnewvnode() and vgone() keep about the users of  *)
(* a vnode is exact, at every moment and for any number of them: nobody's   *)
(* reference is lost or counted twice, and no panic is reached.             *)
THEOREM UsersAlwaysExact == Spec => []UsersExact
<1>1. Inv => UsersExact
  BY InvUsersExact
<1> QED
  BY <1>1, Invariant, PTL

(* ffs_vget() never makes a second vnode for a file: between its search of  *)
(* the hash chains and its entry there ufs_hashlock keeps everybody else    *)
(* from making one.                                                         *)
THEOREM OneVnodePerFile == Spec => []OneVnode
<1>1. Inv => OneVnode
  BY DEF Inv, State, Single, OneVnode
<1> QED
  BY <1>1, Invariant, PTL

(* Nobody waits for an inode's lock that nobody has, or unknown to whoever  *)
(* has it: ufs_unlock() will call wakeup().                                 *)
THEOREM LockSleepersRemembered == Spec => []LockSleepers
<1>1. Inv => LockSleepers
  BY DEF Inv, State, Asleep, LockSleepers
<1> QED
  BY <1>1, Invariant, PTL
=============================================================================
