--------------------------- MODULE RealTimerProofs ---------------------------
(***************************************************************************)
(* Proofs about the callout queue and the interval timers on it, for any   *)
(* number of processes and drivers, any settings and delays.               *)
(*                                                                         *)
(* The list of differences is understood through Total: how each operation *)
(* on the list changes the sums, shown by comparing the recursion of the   *)
(* sums before with that of the sums after.                                *)
(***************************************************************************)
EXTENDS RealTimer, FiniteSetTheorems, FunctionTheorems, TLAPS

-----------------------------------------------------------------------------
(* Induction.                                                               *)

(* A set of naturals has a least element.                                   *)
LEMMA Least ==
  ASSUME NEW S, S \subseteq Nat, S # {}
  PROVE  \E x \in S : \A y \in S : x <= y
<1> DEFINE R == OpToRel(<, Nat)
<1>1. IsWellFoundedOn(R, Nat)
  BY NatLessThanWellFounded, Zenon
<1>2. \A x, y \in Nat : x < y => <<x, y>> \in R
  BY DEF OpToRel
<1> HIDE DEF R
<1>3. PICK x \in S : \A y \in S : ~(<<y, x>> \in R)
  BY <1>1, WFMin
<1>4. \A y \in S : ~(y < x) /\ y \in Nat /\ x \in Nat
  BY <1>2, <1>3
<1> QED
  BY <1>4

(* Induction over the naturals for a set: what contains 0 and with every    *)
(* number the next one contains all of them.                                *)
LEMMA Induction ==
  ASSUME NEW S, 0 \in S, \A n \in Nat : n \in S => n + 1 \in S
  PROVE  Nat \subseteq S
<1> SUFFICES ASSUME Nat \ S # {} PROVE FALSE
  OBVIOUS
<1> DEFINE T == Nat \ S
<1>1. PICK x \in T : \A y \in T : x <= y
  BY Least
<1>2. x # 0 /\ x - 1 \in Nat /\ ~(x <= x - 1)
  BY <1>1
<1>3. x - 1 \in S
  BY <1>1, <1>2
<1> QED
  BY <1>1, <1>2, <1>3

(* The same up to a bound.                                                  *)
LEMMA BoundedInduction ==
  ASSUME NEW N \in Nat, NEW S, 0 \in S,
         \A n \in 1 .. N : n - 1 \in S => n \in S
  PROVE  0 .. N \subseteq S
<1> DEFINE U == {n \in Nat : n <= N => n \in S}
<1>1. 0 \in U
  OBVIOUS
<1>2. ASSUME NEW n \in Nat, n \in U PROVE n + 1 \in U
  BY <1>2
<1>3. Nat \subseteq U
  <2> HIDE DEF U
  <2> QED
    BY <1>1, <1>2, Induction
<1> QED
  BY <1>3

-----------------------------------------------------------------------------
(* The sums of the list of differences.                                     *)

Entry == [c : Client, t : Int]

(* g has the sums of the first i positive differences of Q, up to n.        *)
SumsTo(g, Q, n) ==
  g = [i \in 0 .. n |-> IF i = 0 THEN 0 ELSE g[i - 1] + Positive(Q[i].t)]

(* There are such sums for any length.                                      *)
LEMMA SumsExist ==
  ASSUME NEW Q, NEW N \in Nat
  PROVE  \E g : SumsTo(g, Q, N)
<1> DEFINE S == {n \in Nat : \E g : SumsTo(g, Q, n)}
<1>1. 0 \in S
  <2> DEFINE z == [i \in 0 .. 0 |-> 0]
  <2>1. SumsTo(z, Q, 0)
    BY DEF SumsTo
  <2> QED
    BY <2>1
<1>2. ASSUME NEW n \in Nat, n \in S PROVE n + 1 \in S
  <2>1. PICK g : SumsTo(g, Q, n)
    BY <1>2
  <2> DEFINE h == [i \in 0 .. n + 1 |-> IF i = n + 1 THEN g[n] + Positive(Q[i].t) ELSE g[i]]
  <2>2. \A i \in 0 .. n : g[i] = IF i = 0 THEN 0 ELSE g[i - 1] + Positive(Q[i].t)
    BY <2>1 DEF SumsTo
  <2>3. \A i \in 0 .. n + 1 : h[i] = IF i = 0 THEN 0 ELSE h[i - 1] + Positive(Q[i].t)
    BY <2>2
  <2>4. SumsTo(h, Q, n + 1)
    BY <2>3 DEF SumsTo
  <2> QED
    BY <2>4
<1>3. Nat \subseteq S
  <2> HIDE DEF S
  <2> QED
    BY <1>1, <1>2, Induction
<1> QED
  BY <1>3

(* So Total is what its recursion says.                                     *)
LEMMA TotalSums ==
  ASSUME NEW Q \in Seq(Entry)
  PROVE  SumsTo(Total(Q), Q, Len(Q))
<1>1. \E g : SumsTo(g, Q, Len(Q))
  BY SumsExist
<1>2. Total(Q) = CHOOSE g : SumsTo(g, Q, Len(Q))
  BY Zenon DEF Total, SumsTo
<1> QED
  BY <1>1, <1>2

(* One step of it.                                                          *)
LEMMA TotalStep ==
  ASSUME NEW Q \in Seq(Entry)
  PROVE  /\ Total(Q)[0] = 0
         /\ \A i \in 1 .. Len(Q) : Total(Q)[i] = Total(Q)[i - 1] + Positive(Q[i].t)
BY TotalSums DEF SumsTo
(* The length of the list.                                                  *)
LEMMA LenNat == \A Q \in Seq(Entry) : Len(Q) \in Nat
OBVIOUS

(* Whatever satisfies the recursion has the same values.                    *)
LEMMA TotalIs ==
  ASSUME NEW Q \in Seq(Entry), NEW g, g[0] = 0,
         \A i \in 1 .. Len(Q) : g[i] = g[i - 1] + Positive(Q[i].t)
  PROVE  \A i \in 0 .. Len(Q) : Total(Q)[i] = g[i]
<1> DEFINE S == {i \in 0 .. Len(Q) : Total(Q)[i] = g[i]}
<1>1. 0 \in S
  BY TotalStep
<1>2. ASSUME NEW n \in 1 .. Len(Q), n - 1 \in S PROVE n \in S
  BY <1>2, TotalStep
<1>3. 0 .. Len(Q) \subseteq S
  <2> HIDE DEF S
  <2> QED
    BY <1>1, <1>2, LenNat, BoundedInduction
<1> QED
  BY <1>3

(* An entry of the list.                                                    *)
LEMMA EntryType ==
  ASSUME NEW Q \in Seq(Entry), NEW i \in 1 .. Len(Q)
  PROVE  Q[i] \in Entry /\ Q[i].c \in Client /\ Q[i].t \in Int
<1>1. Q[i] \in Entry
  OBVIOUS
<1> QED
  BY <1>1 DEF Entry

(* What is not negative is the positive part of itself.                     *)
LEMMA PositiveSame == \A t \in Int : t >= 0 => Positive(t) = t
BY DEF Positive

(* A sum and the one before it, after a tick.                               *)
LEMMA PositiveRun ==
  ASSUME NEW a \in Nat, NEW b \in Nat, NEW t \in Int, a = b + Positive(t)
  PROVE  /\ b = 0 => Positive(a - 1) = Positive(b - 1) + Positive(t - 1)
         /\ b > 0 => Positive(a - 1) = Positive(b - 1) + Positive(t)
BY DEF Positive

(* The sums are natural numbers.                                            *)
LEMMA TotalNat ==
  ASSUME NEW Q \in Seq(Entry)
  PROVE  \A i \in 0 .. Len(Q) : Total(Q)[i] \in Nat
<1> DEFINE S == {i \in 0 .. Len(Q) : Total(Q)[i] \in Nat}
<1>1. 0 \in S
  BY TotalStep
<1>2. ASSUME NEW n \in 1 .. Len(Q), n - 1 \in S PROVE n \in S
  <2>1. Total(Q)[n - 1] \in Nat /\ n \in 0 .. Len(Q)
    BY <1>2, LenNat
  <2>2. Total(Q)[n] = Total(Q)[n - 1] + Positive(Q[n].t) /\ Q[n].t \in Int
    BY TotalStep, EntryType
  <2> QED
    BY <2>1, <2>2 DEF Positive
<1>3. 0 .. Len(Q) \subseteq S
  <2> HIDE DEF S
  <2> QED
    BY <1>1, <1>2, LenNat, BoundedInduction
<1> QED
  BY <1>3

(* The sums do not decrease.                                                *)
LEMMA TotalGrows ==
  ASSUME NEW Q \in Seq(Entry), NEW i \in 0 .. Len(Q)
  PROVE  \A j \in i .. Len(Q) : Total(Q)[i] <= Total(Q)[j]
<1> DEFINE S == {j \in 0 .. Len(Q) : i <= j => Total(Q)[i] <= Total(Q)[j]}
<1>1. 0 \in S
  BY TotalNat
<1>2. ASSUME NEW n \in 1 .. Len(Q), n - 1 \in S PROVE n \in S
  <2>1. Total(Q)[n - 1] <= Total(Q)[n]
    <3>1. Total(Q)[n] = Total(Q)[n - 1] + Positive(Q[n].t)
      BY TotalStep
    <3>2. Total(Q)[n - 1] \in Nat /\ Q[n].t \in Int
      BY TotalNat, EntryType
    <3> QED
      BY <3>1, <3>2 DEF Positive
  <2> QED
    BY <1>2, <2>1, TotalNat
<1>3. 0 .. Len(Q) \subseteq S
  <2> HIDE DEF S
  <2> QED
    BY <1>1, <1>2, LenNat, BoundedInduction
<1> QED
  BY <1>3

(* A sum is positive from the first positive difference on.                 *)
LEMMA TotalPositive ==
  ASSUME NEW Q \in Seq(Entry)
  PROVE  \A i \in 0 .. Len(Q) : Total(Q)[i] > 0 <=> \E j \in 1 .. i : Q[j].t > 0
<1> DEFINE S == {i \in 0 .. Len(Q) : Total(Q)[i] > 0 <=> \E j \in 1 .. i : Q[j].t > 0}
<1>1. 0 \in S
  BY TotalStep
<1>2. ASSUME NEW n \in 1 .. Len(Q), n - 1 \in S PROVE n \in S
  <2>1. Total(Q)[n] > 0 <=> Total(Q)[n - 1] > 0 \/ Q[n].t > 0
    BY TotalStep, TotalNat, EntryType DEF Positive
  <2>2. 1 .. n = (1 .. n - 1) \cup {n}
    OBVIOUS
  <2> QED
    BY <1>2, <2>1, <2>2
<1>3. 0 .. Len(Q) \subseteq S
  <2> HIDE DEF S
  <2> QED
    BY <1>1, <1>2, LenNat, BoundedInduction
<1> QED
  BY <1>3

(* The ticks left to the i-th entry of Q.                                   *)
Left(Q, i) == IF Total(Q)[i] > 0 THEN Total(Q)[i] ELSE Q[i].t

(* What is left to an entry is the Remaining of the model.                  *)
LEMMA LeftRemaining ==
  ASSUME calltodo \in Seq(Entry), NEW i \in 1 .. Len(calltodo)
  PROVE  Remaining(i) = Left(calltodo, i)
BY TotalPositive DEF Remaining, Left

(* Overdue entries are at the front: after a delay there are only delays.   *)
Ordered(Q) == \A i, j \in 1 .. Len(Q) : i < j /\ Q[i].t > 0 => Q[j].t >= 0

-----------------------------------------------------------------------------
(* A tick.                                                                  *)

(* Where hardclock() stops counting down.                                   *)
LEMMA LastDownIs ==
  ASSUME NEW Q \in Seq(Entry)
  PROVE  /\ LastDown(Q) \in 0 .. Len(Q)
         /\ \A i \in 1 .. Len(Q) : i < LastDown(Q) => Q[i].t <= 0
         /\ \/ LastDown(Q) \in 1 .. Len(Q) /\ Q[LastDown(Q)].t > 0
            \/ LastDown(Q) = Len(Q) /\ \A i \in 1 .. Len(Q) : Q[i].t <= 0
<1> DEFINE S == {i \in 1 .. Len(Q) : Q[i].t - 1 >= 0}
<1>1. CASE S = {}
  BY <1>1, EntryType DEF LastDown
<1>2. CASE S # {}
  <2>5. \E x \in S : \A y \in S : x <= y
    <3>1. S \subseteq Nat
      OBVIOUS
    <3> HIDE DEF S
    <3> QED
      BY <1>2, <3>1, Least
  <2>6. LastDown(Q) = CHOOSE i \in S : \A j \in S : i <= j
    BY <1>2 DEF LastDown
  <2>7. LastDown(Q) \in S /\ \A j \in S : LastDown(Q) <= j
    <3> HIDE DEF S
    <3> QED
      BY <2>5, <2>6
  <2> QED
    BY <2>7, EntryType
<1> QED
  BY <1>1, <1>2

(* hardclock() brings every entry one tick nearer and changes no other      *)
(* thing about it.                                                          *)
LEMMA RunDownLeft ==
  ASSUME NEW Q \in Seq(Entry), Ordered(Q)
  PROVE  /\ RunDown(Q) \in Seq(Entry) /\ Len(RunDown(Q)) = Len(Q)
         /\ Ordered(RunDown(Q))
         /\ \A i \in 1 .. Len(Q) : /\ RunDown(Q)[i].c = Q[i].c
                                   /\ Left(RunDown(Q), i) = Left(Q, i) - 1
<1> DEFINE L == LastDown(Q)
           N == RunDown(Q)
           g == [i \in 0 .. Len(Q) |-> Positive(Total(Q)[i] - 1)]
<1>1. \A i \in 1 .. Len(Q) :
        N[i] = IF i <= L THEN [Q[i] EXCEPT !.t = @ - 1] ELSE Q[i]
  BY DEF RunDown
<1>2. \A i \in 1 .. Len(Q) : /\ N[i] \in Entry /\ N[i].c = Q[i].c
                             /\ N[i].t = IF i <= L THEN Q[i].t - 1 ELSE Q[i].t
  <2> SUFFICES ASSUME NEW i \in 1 .. Len(Q)
               PROVE  /\ N[i] \in Entry /\ N[i].c = Q[i].c
                      /\ N[i].t = IF i <= L THEN Q[i].t - 1 ELSE Q[i].t
    OBVIOUS
  <2>1. N[i] = IF i <= L THEN [Q[i] EXCEPT !.t = @ - 1] ELSE Q[i]
    BY <1>1
  <2>2. Q[i] \in Entry
    BY EntryType
  <2> HIDE DEF N, L
  <2> QED
    BY <2>1, <2>2 DEF Entry
<1>3. N \in Seq(Entry) /\ Len(N) = Len(Q)
  <2>1. N = [i \in 1 .. Len(Q) |-> N[i]] /\ Len(Q) \in Nat
    BY DEF RunDown
  <2> QED
    BY <1>2, <2>1
<1> HIDE DEF L, N
<1>4. /\ L \in 0 .. Len(Q)
      /\ \A i \in 1 .. Len(Q) : i < L => Q[i].t <= 0
      /\ \/ L \in 1 .. Len(Q) /\ Q[L].t > 0
         \/ L = Len(Q) /\ \A i \in 1 .. Len(Q) : Q[i].t <= 0
  BY LastDownIs DEF L
<1>5. Ordered(N)
  <2> SUFFICES ASSUME NEW a \in 1 .. Len(Q), NEW b \in 1 .. Len(Q), a < b, N[a].t > 0
               PROVE  N[b].t >= 0
    BY <1>3 DEF Ordered
  <2>1. Q[a].t \in Int /\ Q[b].t \in Int /\ a \in Int /\ b \in Int /\ L \in Int
    BY <1>4, EntryType
  <2>2. /\ N[a].t = IF a <= L THEN Q[a].t - 1 ELSE Q[a].t
        /\ N[b].t = IF b <= L THEN Q[b].t - 1 ELSE Q[b].t
    BY <1>2
  <2>3. Q[a].t > 0 => Q[b].t >= 0
    BY DEF Ordered
  <2>4. a < L => Q[a].t <= 0
    BY <1>4
  <2> QED
    BY <2>1, <2>2, <2>3, <2>4
<1>6. ASSUME NEW i \in 1 .. Len(Q)
      PROVE  g[i] = g[i - 1] + Positive(N[i].t)
  <2>1. Total(Q)[i] = Total(Q)[i - 1] + Positive(Q[i].t)
    BY TotalStep
  <2>2. Total(Q)[i] \in Nat /\ Total(Q)[i - 1] \in Nat /\ Q[i].t \in Int
    BY TotalNat, EntryType
  <2>3. i <= L => Total(Q)[i - 1] = 0
    <3>1. ASSUME i <= L, NEW j \in 1 .. i - 1 PROVE Q[j].t <= 0 /\ Q[j].t \in Int
      <4>1. j \in 1 .. Len(Q) /\ j < L
        BY <1>4, <3>1, LenNat
      <4> QED
        BY <1>4, <4>1, EntryType
    <3>2. i - 1 \in 0 .. Len(Q)
      BY LenNat
    <3>3. Total(Q)[i - 1] > 0 <=> \E j \in 1 .. i - 1 : Q[j].t > 0
      BY <3>2, TotalPositive
    <3>4. i <= L => ~(Total(Q)[i - 1] > 0)
      BY <3>1, <3>3
    <3> QED
      BY <2>2, <3>4
  <2>4. i > L => Total(Q)[i - 1] > 0
    <3>1. i > L => L \in 1 .. i - 1 /\ Q[L].t > 0
      BY <1>4
    <3> QED
      BY <3>1, TotalPositive
  <2>5. g[i] = Positive(Total(Q)[i] - 1) /\ g[i - 1] = Positive(Total(Q)[i - 1] - 1)
    OBVIOUS
  <2>6. N[i].t = (IF i <= L THEN Q[i].t - 1 ELSE Q[i].t) /\ i \in Int /\ L \in Int
    BY <1>2, <1>4
  <2> HIDE DEF g
  <2>7. /\ Total(Q)[i - 1] = 0 =>
             Positive(Total(Q)[i] - 1) = Positive(Total(Q)[i - 1] - 1) + Positive(Q[i].t - 1)
        /\ Total(Q)[i - 1] > 0 =>
             Positive(Total(Q)[i] - 1) = Positive(Total(Q)[i - 1] - 1) + Positive(Q[i].t)
    BY <2>1, <2>2, PositiveRun
  <2>8. CASE i <= L
    BY <2>3, <2>5, <2>6, <2>7, <2>8
  <2>9. CASE i > L
    <3>1. ~(i <= L)
      BY <2>6, <2>9
    <3> QED
      BY <2>4, <2>5, <2>6, <2>7, <2>9, <3>1
  <2> QED
    BY <2>6, <2>8, <2>9
<1>7. \A i \in 0 .. Len(N) : Total(N)[i] = g[i]
  <2>1. g[0] = 0
    BY TotalStep DEF Positive
  <2> HIDE DEF g
  <2> QED
    BY <1>3, <1>6, <2>1, TotalIs
<1>8. ASSUME NEW i \in 1 .. Len(Q) PROVE Left(N, i) = Left(Q, i) - 1
  <2>1. Total(N)[i] = Positive(Total(Q)[i] - 1)
    BY <1>3, <1>7
  <2>2. Total(Q)[i] \in Nat /\ Q[i].t \in Int
    BY TotalNat, EntryType
  <2>3. Total(Q)[i] = 0 => i <= L
    <3>1. i > L => L \in 1 .. i /\ Q[L].t > 0
      BY <1>4
    <3>2. i > L => Total(Q)[i] > 0
      BY <3>1, TotalPositive
    <3>3. i \in Int /\ L \in Int
      BY <1>4
    <3> QED
      BY <2>2, <3>2, <3>3
  <2>4. Total(Q)[i] = 1 => N[i].t = 0
    <3> SUFFICES ASSUME Total(Q)[i] = 1 PROVE N[i].t = 0
      OBVIOUS
    <3>1. Total(Q)[i - 1] \in Nat /\ 1 = Total(Q)[i - 1] + Positive(Q[i].t)
      BY TotalStep, TotalNat
    <3>2. L \in 1 .. i /\ Q[L].t > 0
      <4>1. PICK j \in 1 .. i : Q[j].t > 0
        BY TotalPositive
      <4> QED
        BY <1>4, <4>1, EntryType
    <3>3. CASE i = L
      <4>1. Total(Q)[i - 1] = 0
        <5>1. \A j \in 1 .. i - 1 : ~(Q[j].t > 0)
          BY <1>4, <3>3, EntryType
        <5>2. ~(Total(Q)[i - 1] > 0)
          BY <5>1, TotalPositive
        <5> QED
          BY <3>1, <5>2
      <4> QED
        BY <1>2, <2>2, <3>1, <3>2, <3>3, <4>1 DEF Positive
    <3>4. CASE i > L
      <4>1. Total(Q)[i - 1] > 0
        BY <3>2, <3>4, TotalPositive
      <4>2. Q[i].t >= 0
        BY <3>2, <3>4 DEF Ordered
      <4> QED
        BY <1>2, <2>2, <3>1, <3>2, <3>4, <4>1, <4>2 DEF Positive
    <3> QED
      BY <3>2, <3>3, <3>4
  <2> QED
    BY <1>2, <2>1, <2>2, <2>3, <2>4 DEF Left, Positive
<1> QED
  BY <1>2, <1>3, <1>5, <1>8 DEF N
-----------------------------------------------------------------------------
(* Insertion and removal.                                                   *)

(* The parts of a list put together.                                        *)
LEMMA Concat ==
  ASSUME NEW A \in Seq(Entry), NEW B \in Seq(Entry)
  PROVE  /\ A \o B \in Seq(Entry) /\ Len(A \o B) = Len(A) + Len(B)
         /\ \A j \in 1 .. Len(A) : (A \o B)[j] = A[j]
         /\ \A j \in 1 .. Len(B) : (A \o B)[Len(A) + j] = B[j]
<1>1. A \o B \in Seq(Entry) /\ Len(A \o B) = Len(A) + Len(B)
  OBVIOUS
<1>2. ASSUME NEW j \in 1 .. Len(A) PROVE (A \o B)[j] = A[j]
  OBVIOUS
<1>3. ASSUME NEW j \in 1 .. Len(B) PROVE (A \o B)[Len(A) + j] = B[j]
  OBVIOUS
<1> QED
  BY <1>1, <1>2, <1>3

(* Where the j-th entry of a list is when there is one more at place i.     *)
Up(i, j) == IF j < i THEN j ELSE j + 1

(* G is Q with one more entry, of c at place i with n ticks left: the other *)
(* entries keep their clients and their time.                               *)
Grown(Q, G, i, c, n) ==
  /\ Q \in Seq(Entry) /\ G \in Seq(Entry)
  /\ Ordered(Q) /\ Ordered(G)
  /\ Len(G) = Len(Q) + 1 /\ i \in 1 .. Len(G)
  /\ G[i].c = c /\ Left(G, i) = n
  /\ \A j \in 1 .. Len(Q) : G[Up(i, j)].c = Q[j].c /\ Left(G, Up(i, j)) = Left(Q, j)

(* The walk of timeout() finds its place, and a delay is left there.        *)
LEMMA PlaceExists ==
  ASSUME NEW Q \in Seq(Entry), NEW ticks \in Nat \ {0}
  PROVE  \E k \in 1 .. Len(Q) + 1 :
           /\ k = Len(Q) + 1 \/ ticks - Total(Q)[k - 1] <= Q[k].t
           /\ \A j \in 1 .. k - 1 : ticks - Total(Q)[j - 1] > Q[j].t
<1> DEFINE S == {k \in 1 .. Len(Q) + 1 : k = Len(Q) + 1 \/ ticks - Total(Q)[k - 1] <= Q[k].t}
<1>1. S \subseteq Nat /\ Len(Q) + 1 \in S
  BY LenNat
<1>2. \E x \in S : \A y \in S : x <= y
  <2> HIDE DEF S
  <2> QED
    BY <1>1, Least
<1>3. PICK k \in S : \A y \in S : k <= y
  BY <1>2
<1>4. ASSUME NEW j \in 1 .. k - 1 PROVE ticks - Total(Q)[j - 1] > Q[j].t
  <2>1. k \in 1 .. Len(Q) + 1 /\ j \in 1 .. Len(Q) /\ ~(k <= j) /\ j # Len(Q) + 1
    BY LenNat
  <2>2. j \notin S
    BY <1>3, <2>1
  <2>3. ~(ticks - Total(Q)[j - 1] <= Q[j].t)
    BY <2>1, <2>2, LenNat
  <2>4. ticks - Total(Q)[j - 1] \in Int /\ Q[j].t \in Int
    BY <2>1, TotalNat, EntryType
  <2> QED
    BY <2>3, <2>4
<1> QED
  BY <1>3, <1>4

(* What is left to the new entry is positive.                               *)
LEMMA PlaceAhead ==
  ASSUME NEW Q \in Seq(Entry), NEW ticks \in Nat \ {0}, NEW k \in 1 .. Len(Q) + 1,
         \A j \in 1 .. k - 1 : ticks - Total(Q)[j - 1] > Q[j].t
  PROVE  Total(Q)[k - 1] < ticks
<1> DEFINE S == {j \in 0 .. k - 1 : Total(Q)[j] < ticks}
<1>1. 0 \in S
  BY TotalStep
<1>2. ASSUME NEW n \in 1 .. k - 1, n - 1 \in S PROVE n \in S
  <2>1. n \in 1 .. Len(Q)
    BY LenNat
  <2>2. Total(Q)[n] = Total(Q)[n - 1] + Positive(Q[n].t)
    BY <2>1, TotalStep
  <2>3. Total(Q)[n - 1] \in Nat /\ Q[n].t \in Int
    BY <2>1, TotalNat, EntryType
  <2> QED
    BY <1>2, <2>2, <2>3 DEF Positive
<1>3. 0 .. k - 1 \subseteq S
  <2>1. k - 1 \in Nat
    BY LenNat
  <2> HIDE DEF S
  <2> QED
    BY <1>1, <1>2, <2>1, BoundedInduction
<1> QED
  BY <1>3, LenNat

(* timeout(): the new entry gets its time, and disturbs no other.           *)
LEMMA InsertPlaced ==
  ASSUME NEW Q \in Seq(Entry), Ordered(Q), NEW c \in Client, NEW ticks \in Nat \ {0},
         NEW i \in 1 .. Len(Q) + 1, NEW G \in Seq(Entry), Len(G) = Len(Q) + 1,
         Total(Q)[i - 1] < ticks,
         i = Len(Q) + 1 \/ ticks - Total(Q)[i - 1] <= Q[i].t,
         G[i] = [c |-> c, t |-> ticks - Total(Q)[i - 1]],
         \A j \in 1 .. Len(Q) :
           G[Up(i, j)] = IF j = i THEN [c |-> Q[j].c, t |-> Q[j].t - (ticks - Total(Q)[i - 1])] ELSE Q[j]
  PROVE  Grown(Q, G, i, c, ticks)
<1> DEFINE left == ticks - Total(Q)[i - 1]
           g == [j \in 0 .. Len(G) |-> IF j < i THEN Total(Q)[j]
                                       ELSE IF j = i THEN ticks ELSE Total(Q)[j - 1]]
<1>1. left \in Nat \ {0} /\ Total(Q)[i - 1] \in Nat
  BY TotalNat, LenNat
<1>2. \A j \in 1 .. Len(G) : G[j].t = IF j < i THEN Q[j].t
                                      ELSE IF j = i THEN left
                                      ELSE IF j = i + 1 THEN Q[i].t - left
                                      ELSE Q[j - 1].t
  <2> SUFFICES ASSUME NEW j \in 1 .. Len(G)
               PROVE  G[j].t = IF j < i THEN Q[j].t
                                      ELSE IF j = i THEN left
                                      ELSE IF j = i + 1 THEN Q[i].t - left
                                      ELSE Q[j - 1].t
    OBVIOUS
  <2>1. CASE j < i
    <3>1. j \in 1 .. Len(Q) /\ Up(i, j) = j
      BY <2>1, LenNat DEF Up
    <3>2. j # i
      BY <2>1
    <3>3. G[Up(i, j)] = Q[j]
      BY <3>1, <3>2
    <3> QED
      BY <2>1, <3>1, <3>3
  <2>2. CASE j = i
    BY <2>2
  <2>3. CASE j > i
    <3>1. j - 1 \in 1 .. Len(Q) /\ Up(i, j - 1) = j
      BY <2>3, LenNat DEF Up
    <3>2. Q[j - 1] \in Entry
      BY <3>1
    <3>3. G[j] = IF j - 1 = i THEN [c |-> Q[j - 1].c, t |-> Q[j - 1].t - left] ELSE Q[j - 1]
      BY <3>1
    <3>4. j - 1 = i => G[j].t = Q[i].t - left
      <4> HIDE DEF left
      <4> QED
        BY <3>2, <3>3 DEF Entry
    <3> QED
      BY <2>3, <3>3, <3>4, LenNat
  <2> QED
    BY <2>1, <2>2, <2>3, LenNat
<1>3. \A j \in 1 .. Len(Q) : G[Up(i, j)].c = Q[j].c
  <2> SUFFICES ASSUME NEW j \in 1 .. Len(Q) PROVE G[Up(i, j)].c = Q[j].c
    OBVIOUS
  <2>1. Q[j] \in Entry
    OBVIOUS
  <2>2. G[Up(i, j)] = IF j = i THEN [c |-> Q[j].c, t |-> Q[j].t - left] ELSE Q[j]
    OBVIOUS
  <2> HIDE DEF left
  <2> QED
    BY <2>1, <2>2 DEF Entry
<1>4. i <= Len(Q) => /\ Q[i].t >= left /\ Q[i].t \in Int /\ Q[i].t > 0
                     /\ Total(Q)[i] = Total(Q)[i - 1] + Q[i].t
  <2> SUFFICES ASSUME i <= Len(Q)
               PROVE  /\ Q[i].t >= left /\ Q[i].t \in Int /\ Q[i].t > 0
                      /\ Total(Q)[i] = Total(Q)[i - 1] + Q[i].t
    OBVIOUS
  <2>1. i \in 1 .. Len(Q) /\ i # Len(Q) + 1
    BY LenNat
  <2>2. Q[i].t \in Int /\ left <= Q[i].t
    BY <2>1, EntryType
  <2>3. Q[i].t > 0
    BY <1>1, <2>2
  <2> QED
    BY <2>1, <2>2, <2>3, TotalStep DEF Positive
<1>5. Ordered(G)
  <2> SUFFICES ASSUME NEW a \in 1 .. Len(G), NEW b \in 1 .. Len(G), a < b, G[a].t > 0
               PROVE  G[b].t >= 0
    BY DEF Ordered
  <2>1. \A j \in 1 .. Len(Q) : i < j => Q[j].t >= 0
    BY <1>4, LenNat DEF Ordered
  <2> HIDE DEF left
  <2>2. CASE b < i
    BY <1>2, <2>2, LenNat DEF Ordered
  <2>3. CASE b = i
    BY <1>1, <1>2, <2>3
  <2>4. CASE b = i + 1
    <3>1. G[b].t = Q[i].t - left /\ i <= Len(Q)
      BY <1>2, <2>4, LenNat
    <3>2. Q[i].t >= left /\ Q[i].t \in Int /\ left \in Int
      BY <1>1, <1>4, <3>1
    <3> QED
      BY <3>1, <3>2
  <2>5. CASE b > i + 1
    <3>1. b - 1 \in 1 .. Len(Q) /\ i < b - 1
      BY <2>5, LenNat
    <3>2. G[b].t = Q[b - 1].t
      BY <1>2, <2>5, LenNat
    <3> QED
      BY <2>1, <3>1, <3>2
  <2> QED
    BY <2>2, <2>3, <2>4, <2>5, LenNat
<1>6. ASSUME NEW j \in 1 .. Len(G)
      PROVE  g[j] = g[j - 1] + Positive(G[j].t)
  <2>1. /\ g[j] = IF j < i THEN Total(Q)[j] ELSE IF j = i THEN ticks ELSE Total(Q)[j - 1]
        /\ g[j - 1] = IF j - 1 < i THEN Total(Q)[j - 1] ELSE IF j - 1 = i THEN ticks ELSE Total(Q)[j - 2]
    BY LenNat
  <2> HIDE DEF g
  <2>2. CASE j < i
    <3>1. j \in 1 .. Len(Q)
      BY <2>2, LenNat
    <3> QED
      BY <1>2, <2>1, <2>2, <3>1, TotalStep, LenNat
  <2>3. CASE j = i
    BY <1>1, <1>2, <2>1, <2>3, LenNat DEF Positive
  <2>4. CASE j = i + 1
    <3>1. i \in 1 .. Len(Q)
      BY <2>4, LenNat
    <3>2. G[j].t = Q[i].t - left /\ g[j] = Total(Q)[i] /\ g[j - 1] = ticks
      BY <1>2, <2>1, <2>4, <3>1, LenNat
    <3>3. /\ Q[i].t >= left /\ Q[i].t \in Int /\ left \in Int
          /\ Total(Q)[i] = Total(Q)[i - 1] + Q[i].t
          /\ Total(Q)[i - 1] \in Nat /\ ticks = Total(Q)[i - 1] + left
      BY <1>1, <1>4, <3>1, TotalNat, LenNat
    <3>4. Positive(Q[i].t - left) = Q[i].t - left
      <4>1. Q[i].t - left \in Int /\ Q[i].t - left >= 0
        BY <3>3
      <4> QED
        BY <4>1, PositiveSame
    <3>5. Total(Q)[i] = ticks + (Q[i].t - left)
      BY <3>3
    <3> QED
      BY <3>2, <3>4, <3>5
  <2>5. CASE j > i + 1
    <3>1. j - 1 \in 1 .. Len(Q) /\ j - 1 - 1 = j - 2
      BY <2>5, LenNat
    <3>2. G[j].t = Q[j - 1].t /\ g[j] = Total(Q)[j - 1] /\ g[j - 1] = Total(Q)[j - 2]
      BY <1>2, <2>1, <2>5, <3>1, LenNat
    <3>3. Total(Q)[j - 1] = Total(Q)[j - 1 - 1] + Positive(Q[j - 1].t)
      BY <3>1, TotalStep
    <3> QED
      BY <3>1, <3>2, <3>3
  <2> QED
    BY <2>2, <2>3, <2>4, <2>5, LenNat
<1>7. \A j \in 0 .. Len(G) : Total(G)[j] = g[j]
  <2>1. g[0] = 0
    BY TotalStep, LenNat
  <2> HIDE DEF g
  <2> QED
    BY <1>6, <2>1, TotalIs
<1>8. Left(G, i) = ticks
  <2>1. Total(G)[i] = ticks
    BY <1>7, LenNat
  <2> QED
    BY <2>1 DEF Left
<1>9. ASSUME NEW j \in 1 .. Len(Q) PROVE Left(G, Up(i, j)) = Left(Q, j)
  <2>1. CASE j < i
    <3>1. Up(i, j) = j /\ Total(G)[j] = Total(Q)[j] /\ G[j].t = Q[j].t
      BY <1>2, <1>7, <2>1, LenNat DEF Up
    <3> QED
      BY <3>1 DEF Left
  <2>2. CASE j >= i
    <3>1. Up(i, j) = j + 1 /\ Total(G)[j + 1] = Total(Q)[j]
      BY <1>7, <2>2, LenNat DEF Up
    <3>2. i \in 1 .. j /\ i <= Len(Q)
      BY <2>2, LenNat
    <3>3. Total(Q)[j] > 0
      BY <1>4, <3>2, TotalPositive
    <3> QED
      BY <3>1, <3>3 DEF Left
  <2> QED
    BY <2>1, <2>2, LenNat
<1>10. G[i].c = c /\ i \in 1 .. Len(G)
  BY LenNat
<1> QED
  BY <1>3, <1>5, <1>8, <1>9, <1>10, Zenon DEF Grown
(* The list that timeout() makes.                                           *)
LEMMA InsertGrows ==
  ASSUME NEW Q \in Seq(Entry), Ordered(Q), NEW c \in Client, NEW ticks \in Nat \ {0}
  PROVE  \E i \in 1 .. Len(Q) + 1 : Grown(Q, Insert(Q, c, ticks), i, c, ticks)
<1> DEFINE P(k) == /\ k = Len(Q) + 1 \/ ticks - Total(Q)[k - 1] <= Q[k].t
                   /\ \A j \in 1 .. k - 1 : ticks - Total(Q)[j - 1] > Q[j].t
           i == CHOOSE k \in 1 .. Len(Q) + 1 : P(k)
           left == ticks - Total(Q)[i - 1]
           new == <<[c |-> c, t |-> left]>>
           rest == IF i > Len(Q) THEN <<>>
                   ELSE <<[Q[i] EXCEPT !.t = @ - left]>> \o SubSeq(Q, i + 1, Len(Q))
           G == SubSeq(Q, 1, i - 1) \o new \o rest
<1>1. Insert(Q, c, ticks) = G
  BY Zenon DEF Insert
<1>2. \E k \in 1 .. Len(Q) + 1 : P(k)
  BY PlaceExists
<1>3. i \in 1 .. Len(Q) + 1 /\ P(i)
  <2> HIDE DEF P
  <2> QED
    BY <1>2
<1> HIDE DEF i
<1>4. Total(Q)[i - 1] < ticks
  BY <1>3, PlaceAhead
<1>5. left \in Int /\ Total(Q)[i - 1] \in Nat
  BY <1>3, TotalNat, LenNat
<1> HIDE DEF left
<1>6. new \in Seq(Entry) /\ Len(new) = 1 /\ new[1] = [c |-> c, t |-> left]
  <2>1. [c |-> c, t |-> left] \in Entry
    BY <1>5 DEF Entry
  <2> QED
    BY <2>1
<1>7. /\ rest \in Seq(Entry) /\ Len(rest) = Len(Q) + 1 - i
      /\ i <= Len(Q) => /\ rest[1] = [c |-> Q[i].c, t |-> Q[i].t - left]
                        /\ \A j \in 2 .. Len(rest) : rest[j] = Q[i + j - 1]
  <2>1. CASE i > Len(Q)
    BY <1>3, <2>1, LenNat
  <2>2. CASE i <= Len(Q)
    <3> DEFINE x == [c |-> Q[i].c, t |-> Q[i].t - left]
               tl == SubSeq(Q, i + 1, Len(Q))
    <3>1. x \in Entry
      <4>1. Q[i] \in Entry
        BY <1>3, <2>2, LenNat
      <4> QED
        BY <1>5, <4>1 DEF Entry
    <3>2. /\ tl \in Seq(Entry) /\ Len(tl) = Len(Q) - i
          /\ \A j \in 1 .. Len(tl) : tl[j] = Q[i + j]
      BY <1>3, <2>2, LenNat
    <3>3. rest = <<x>> \o tl
      <4>1. Q[i] \in Entry
        BY <1>3, <2>2
      <4>2. [Q[i] EXCEPT !.t = @ - left] = x
        BY <4>1 DEF Entry
      <4>3. ~(i > Len(Q))
        BY <1>3, <2>2, LenNat
      <4> QED
        BY <4>2, <4>3, Zenon
    <3> HIDE DEF x, tl, rest
    <3>4. rest \in Seq(Entry) /\ Len(rest) = Len(Q) + 1 - i /\ rest[1] = x
      <4>1. <<x>> \in Seq(Entry) /\ Len(<<x>>) = 1 /\ <<x>>[1] = x
        BY <3>1
      <4>2. /\ <<x>> \o tl \in Seq(Entry) /\ Len(<<x>> \o tl) = Len(<<x>>) + Len(tl)
            /\ \A j \in 1 .. Len(<<x>>) : (<<x>> \o tl)[j] = <<x>>[j]
        BY <3>2, <4>1, Concat
      <4>3. rest[1] = x /\ rest \in Seq(Entry) /\ Len(rest) = 1 + Len(tl)
        BY <3>3, <4>1, <4>2
      <4> QED
        BY <1>3, <3>2, <4>3, LenNat
    <3>5. ASSUME NEW j \in 2 .. Len(rest) PROVE rest[j] = Q[i + j - 1]
      <4>1. rest[j] = tl[j - 1] /\ j - 1 \in 1 .. Len(tl)
        BY <1>3, <3>1, <3>2, <3>3, <3>4, LenNat
      <4>2. i + (j - 1) = i + j - 1
        BY <1>3, LenNat
      <4> QED
        BY <3>2, <4>1, <4>2
    <3> QED
      BY <3>4, <3>5 DEF x
  <2> QED
    BY <1>3, <2>1, <2>2, LenNat
<1> HIDE DEF rest, new
<1>8. /\ SubSeq(Q, 1, i - 1) \in Seq(Entry) /\ Len(SubSeq(Q, 1, i - 1)) = i - 1
      /\ \A j \in 1 .. i - 1 : SubSeq(Q, 1, i - 1)[j] = Q[j]
  BY <1>3, LenNat
<1>9. /\ G \in Seq(Entry) /\ Len(G) = Len(Q) + 1
      /\ \A j \in 1 .. i - 1 : G[j] = Q[j]
      /\ G[i] = new[1]
      /\ \A j \in 1 .. Len(rest) : G[i + j] = rest[j]
  <2> DEFINE front == SubSeq(Q, 1, i - 1)
             mid == front \o new
  <2>1. front \in Seq(Entry) /\ Len(front) = i - 1 /\ \A j \in 1 .. i - 1 : front[j] = Q[j]
    BY <1>8
  <2> HIDE DEF front
  <2>2. /\ mid \in Seq(Entry) /\ Len(mid) = i
        /\ \A j \in 1 .. i - 1 : mid[j] = Q[j]
        /\ mid[i] = new[1]
    <3>1. /\ mid \in Seq(Entry) /\ Len(mid) = i - 1 + 1
          /\ \A j \in 1 .. i - 1 : mid[j] = front[j]
          /\ \A j \in 1 .. 1 : mid[i - 1 + j] = new[j]
      <4>1. Len(front) = i - 1 /\ Len(new) = 1
        BY <1>6, <2>1
      <4>2. /\ mid \in Seq(Entry) /\ Len(mid) = Len(front) + Len(new)
            /\ \A j \in 1 .. Len(front) : mid[j] = front[j]
            /\ \A j \in 1 .. Len(new) : mid[Len(front) + j] = new[j]
        BY <1>6, <2>1, Concat
      <4> HIDE DEF mid
      <4> QED
        BY <4>1, <4>2
    <3>2. i - 1 + 1 = i /\ 1 \in 1 .. 1
      BY <1>3, LenNat
    <3> HIDE DEF mid
    <3> QED
      BY <2>1, <3>1, <3>2
  <2>3. G = mid \o rest
    BY DEF front
  <2> HIDE DEF mid, G
  <2>4. /\ G \in Seq(Entry) /\ Len(G) = i + Len(rest)
        /\ \A j \in 1 .. i : G[j] = mid[j]
        /\ \A j \in 1 .. Len(rest) : G[i + j] = rest[j]
    BY <1>7, <2>2, <2>3, Concat
  <2>5. i + Len(rest) = Len(Q) + 1
    BY <1>3, <1>7, LenNat
  <2>6. i \in 1 .. i /\ \A j \in 1 .. i - 1 : j \in 1 .. i
    BY <1>3, LenNat
  <2> QED
    BY <2>2, <2>4, <2>5, <2>6
<1> HIDE DEF G
<1>10. ASSUME NEW j \in 1 .. Len(Q)
       PROVE  G[Up(i, j)] = IF j = i THEN [c |-> Q[j].c, t |-> Q[j].t - left] ELSE Q[j]
  <2>1. CASE j < i
    BY <1>3, <1>9, <2>1, LenNat DEF Up
  <2>2. CASE j >= i
    <3>1. Up(i, j) = i + (j - i + 1) /\ j - i + 1 \in 1 .. Len(rest) /\ i <= Len(Q)
      BY <1>3, <1>7, <2>2, LenNat DEF Up
    <3>2. G[Up(i, j)] = rest[j - i + 1]
      BY <1>9, <3>1
    <3>3. CASE j = i
      BY <1>3, <1>7, <3>1, <3>2, <3>3, LenNat
    <3>4. CASE j # i
      <4>1. j - i + 1 \in 2 .. Len(rest) /\ i + (j - i + 1) - 1 = j
        <5>1. i \in Int /\ j \in Int /\ Len(rest) \in Int /\ j > i
          BY <1>3, <1>7, <2>2, <3>4, LenNat
        <5> QED
          BY <3>1, <5>1
      <4> QED
        BY <1>7, <3>1, <3>2, <3>4, <4>1
    <3> QED
      BY <3>3, <3>4
  <2> QED
    BY <1>3, <2>1, <2>2, LenNat
<1>11. Grown(Q, G, i, c, ticks)
  BY <1>3, <1>4, <1>6, <1>9, <1>10, InsertPlaced DEF left
<1> QED
  BY <1>1, <1>3, <1>11

(* The sum of two differences of which the first, if positive, is followed  *)
(* by another delay.                                                        *)
LEMMA PositiveSum ==
  ASSUME NEW u \in Int, NEW v \in Int
  PROVE  /\ Positive(u) \in Nat
         /\ (u > 0 => v >= 0) =>
              Positive(IF u > 0 THEN v + u ELSE v) = Positive(u) + Positive(v)
BY DEF Positive

(* Taking an entry out of the list, its delay given to the next.            *)
LEMMA RemovalGrown ==
  ASSUME NEW Q \in Seq(Entry), Ordered(Q), NEW i \in 1 .. Len(Q),
         NEW G \in Seq(Entry), Len(Q) = Len(G) + 1,
         \A j \in 1 .. Len(G) :
           G[j] = IF j < i THEN Q[j]
                  ELSE IF j = i /\ Q[i].t > 0
                       THEN [c |-> Q[j + 1].c, t |-> Q[j + 1].t + Q[i].t]
                  ELSE Q[j + 1]
  PROVE  Grown(G, Q, i, Q[i].c, Left(Q, i))
<1> DEFINE T == Total(Q)
           g == [j \in 0 .. Len(G) |-> IF j < i THEN T[j] ELSE T[j + 1]]
<1>1. \A j \in 1 .. Len(G) :
        G[j].t = IF j < i THEN Q[j].t
                 ELSE IF j = i /\ Q[i].t > 0 THEN Q[j + 1].t + Q[i].t ELSE Q[j + 1].t
  <2> SUFFICES ASSUME NEW j \in 1 .. Len(G)
               PROVE  G[j].t = IF j < i THEN Q[j].t
                        ELSE IF j = i /\ Q[i].t > 0 THEN Q[j + 1].t + Q[i].t ELSE Q[j + 1].t
    OBVIOUS
  <2>1. CASE j < i
    BY <2>1
  <2>2. CASE ~(j < i) /\ j = i /\ Q[i].t > 0
    <3>1. G[j] = [c |-> Q[j + 1].c, t |-> Q[j + 1].t + Q[i].t]
      BY <2>2
    <3> QED
      BY <2>2, <3>1
  <2>3. CASE ~(j < i) /\ ~(j = i /\ Q[i].t > 0)
    BY <2>3
  <2> QED
    BY <2>1, <2>2, <2>3
<1>2. ASSUME NEW j \in 1 .. Len(G) PROVE Q[Up(i, j)].c = G[j].c
  <2>1. CASE j < i
    BY <2>1 DEF Up
  <2>2. CASE ~(j < i) /\ j = i /\ Q[i].t > 0
    <3>1. G[j] = [c |-> Q[j + 1].c, t |-> Q[j + 1].t + Q[i].t] /\ Up(i, j) = j + 1
      BY <2>2 DEF Up
    <3> QED
      BY <3>1
  <2>3. CASE ~(j < i) /\ ~(j = i /\ Q[i].t > 0)
    BY <2>3 DEF Up
  <2> QED
    BY <2>1, <2>2, <2>3
<1>3. \A j \in 1 .. Len(Q) : Q[j].t \in Int
  BY EntryType
<1>4. Ordered(G)
  <2> SUFFICES ASSUME NEW a \in 1 .. Len(G), NEW b \in 1 .. Len(G), a < b, G[a].t > 0
               PROVE  G[b].t >= 0
    BY DEF Ordered
  <2>1. /\ a \in 1 .. Len(Q) /\ b \in 1 .. Len(Q)
        /\ a + 1 \in 1 .. Len(Q) /\ b + 1 \in 1 .. Len(Q)
    BY LenNat
  <2>2. /\ Q[a].t \in Int /\ Q[b].t \in Int /\ Q[i].t \in Int
        /\ Q[a + 1].t \in Int /\ Q[b + 1].t \in Int
    BY <1>3, <2>1
  <2>3. Q[a].t > 0 => Q[b].t >= 0 /\ Q[b + 1].t >= 0
    <3>1. a < b + 1
      BY <2>1
    <3> QED
      BY <2>1, <3>1 DEF Ordered
  <2>4. Q[a + 1].t > 0 => Q[b + 1].t >= 0
    <3>1. a + 1 < b + 1
      BY <2>1
    <3> QED
      BY <2>1, <3>1 DEF Ordered
  <2>5. Q[i].t > 0 /\ i <= b => Q[b + 1].t >= 0
    <3>1. i <= b => i < b + 1
      BY <2>1
    <3> QED
      BY <2>1, <3>1 DEF Ordered
  <2>6. /\ G[a].t = IF a < i THEN Q[a].t
                    ELSE IF a = i /\ Q[i].t > 0 THEN Q[a + 1].t + Q[i].t ELSE Q[a + 1].t
        /\ G[b].t = IF b < i THEN Q[b].t
                    ELSE IF b = i /\ Q[i].t > 0 THEN Q[b + 1].t + Q[i].t ELSE Q[b + 1].t
    BY <1>1
  <2>7. CASE b < i
    BY <2>2, <2>3, <2>6, <2>7, LenNat
  <2>8. CASE ~(b < i)
    <3>1. Q[b + 1].t >= 0
      BY <2>2, <2>3, <2>4, <2>5, <2>6, <2>8, LenNat
    <3> QED
      BY <2>2, <2>6, <2>8, <3>1
  <2> QED
    BY <2>7, <2>8
<1>5. \A j \in 1 .. Len(Q) : /\ T[j] = T[j - 1] + Positive(Q[j].t)
                             /\ T[j] \in Nat /\ T[j - 1] \in Nat
  <2>1. \A j \in 1 .. Len(Q) : T[j] = T[j - 1] + Positive(Q[j].t)
    BY TotalStep
  <2>2. \A j \in 0 .. Len(Q) : T[j] \in Nat
    BY TotalNat
  <2> HIDE DEF T
  <2> QED
    BY <2>1, <2>2, LenNat
<1>6. ASSUME NEW j \in 1 .. Len(G)
      PROVE  g[j] = g[j - 1] + Positive(G[j].t)
  <2>1. /\ g[j] = IF j < i THEN T[j] ELSE T[j + 1]
        /\ g[j - 1] = IF j - 1 < i THEN T[j - 1] ELSE T[j - 1 + 1]
    BY LenNat
  <2>2. j \in 1 .. Len(Q) /\ j + 1 \in 1 .. Len(Q) /\ j - 1 + 1 = j /\ j + 1 - 1 = j
    BY LenNat
  <2>3. /\ T[j] = T[j - 1] + Positive(Q[j].t)
        /\ T[j + 1] = T[j] + Positive(Q[j + 1].t)
        /\ T[j - 1] \in Nat /\ T[j] \in Nat /\ T[j + 1] \in Nat
        /\ Q[j].t \in Int /\ Q[j + 1].t \in Int
    <3> DEFINE m == j + 1
    <3>1. m \in 1 .. Len(Q) /\ m - 1 = j
      BY <2>2
    <3> HIDE DEF m
    <3>2. /\ T[j] = T[j - 1] + Positive(Q[j].t) /\ T[m] = T[m - 1] + Positive(Q[m].t)
          /\ T[j - 1] \in Nat /\ T[j] \in Nat /\ T[m] \in Nat
          /\ Q[j].t \in Int /\ Q[m].t \in Int
      BY <1>3, <1>5, <2>2, <3>1
    <3> QED
      BY <3>1, <3>2 DEF m
  <2>4. Q[j].t > 0 => Q[j + 1].t >= 0
    BY <2>2 DEF Ordered
  <2>5. G[j].t = IF j < i THEN Q[j].t
                 ELSE IF j = i /\ Q[i].t > 0 THEN Q[j + 1].t + Q[i].t ELSE Q[j + 1].t
    BY <1>1
  <2> HIDE DEF g, T
  <2>6. CASE j < i
    BY <2>1, <2>2, <2>3, <2>5, <2>6, LenNat
  <2>7. CASE j = i
    <3>1. g[j] = T[j + 1] /\ g[j - 1] = T[j - 1]
      BY <2>1, <2>7, LenNat
    <3>2. G[j].t = IF Q[j].t > 0 THEN Q[j + 1].t + Q[j].t ELSE Q[j + 1].t
      BY <2>5, <2>7, LenNat
    <3>3. Positive(G[j].t) = Positive(Q[j].t) + Positive(Q[j + 1].t)
      <4> DEFINE u == Q[j].t
                 v == Q[j + 1].t
      <4>1. u \in Int /\ v \in Int /\ (u > 0 => v >= 0)
        BY <2>3, <2>4
      <4>2. G[j].t = IF u > 0 THEN v + u ELSE v
        BY <3>2
      <4> HIDE DEF u, v
      <4>3. Positive(G[j].t) = Positive(u) + Positive(v)
        BY <4>1, <4>2, PositiveSum
      <4> QED
        BY <4>3 DEF u, v
    <3>4. Positive(Q[j].t) \in Nat /\ Positive(Q[j + 1].t) \in Nat
      BY <2>3, PositiveSum
    <3>5. T[j + 1] = T[j - 1] + (Positive(Q[j].t) + Positive(Q[j + 1].t))
      <4> DEFINE a == T[j - 1]
                 b == T[j]
                 u == Positive(Q[j].t)
                 v == Positive(Q[j + 1].t)
      <4>1. a \in Nat /\ u \in Nat /\ v \in Nat /\ b = a + u /\ T[j + 1] = b + v
        BY <2>3, <3>4
      <4> HIDE DEF a, b, u, v
      <4>2. T[j + 1] = a + (u + v)
        BY <4>1
      <4> QED
        BY <4>2 DEF a, u, v
    <3> QED
      BY <3>1, <3>3, <3>5, Zenon
  <2>8. CASE j > i
    BY <2>1, <2>2, <2>3, <2>5, <2>8, LenNat
  <2> QED
    BY <2>6, <2>7, <2>8, LenNat
<1>7. \A j \in 0 .. Len(G) : Total(G)[j] = g[j]
  <2>1. g[0] = 0
    BY TotalStep, LenNat
  <2> HIDE DEF g
  <2> QED
    BY <1>6, <2>1, TotalIs
<1>8. ASSUME NEW j \in 1 .. Len(G) PROVE Left(Q, Up(i, j)) = Left(G, j)
  <2>1. Total(G)[j] = IF j < i THEN T[j] ELSE T[j + 1]
    BY <1>7, LenNat
  <2>2. CASE j < i
    <3>1. G[j].t = Q[j].t /\ Up(i, j) = j
      BY <1>1, <2>2 DEF Up
    <3> QED
      BY <2>1, <2>2, <3>1 DEF Left
  <2>3. CASE j >= i
    <3>1. Up(i, j) = j + 1 /\ Total(G)[j] = T[j + 1]
      BY <2>1, <2>3, LenNat DEF Up
    <3>2. G[j].t # Q[j + 1].t => T[j + 1] > 0
      <4> SUFFICES ASSUME G[j].t # Q[j + 1].t PROVE T[j + 1] > 0
        OBVIOUS
      <4>1. j = i /\ Q[i].t > 0
        BY <1>1, <2>3, LenNat
      <4>2. j + 1 \in 0 .. Len(Q) /\ j \in 1 .. j + 1
        BY LenNat
      <4> QED
        BY <4>1, <4>2, TotalPositive
    <3> HIDE DEF T
    <3>3. Left(Q, j + 1) = IF T[j + 1] > 0 THEN T[j + 1] ELSE Q[j + 1].t
      BY DEF Left, T
    <3> QED
      BY <3>1, <3>2, <3>3 DEF Left
  <2> QED
    BY <2>2, <2>3, LenNat
<1> QED
  BY <1>2, <1>4, <1>8, Zenon DEF Grown

(* softclock() takes the first entry.                                       *)
LEMMA TailGrown ==
  ASSUME NEW Q \in Seq(Entry), Ordered(Q), Q # <<>>, Head(Q).t <= 0
  PROVE  Grown(Tail(Q), Q, 1, Head(Q).c, Head(Q).t)
<1>1. /\ Tail(Q) \in Seq(Entry) /\ Len(Q) = Len(Tail(Q)) + 1 /\ Head(Q) = Q[1]
      /\ \A j \in 1 .. Len(Tail(Q)) : Tail(Q)[j] = Q[j + 1]
      /\ Len(Q) \in Nat /\ Len(Q) > 0
  OBVIOUS
<1>2. 1 \in 1 .. Len(Q) /\ Q[1].t \in Int /\ ~(Q[1].t > 0)
  BY <1>1, EntryType
<1>3. Left(Q, 1) = Q[1].t
  <2>1. ~(Total(Q)[1] > 0)
    BY <1>1, <1>2, TotalPositive
  <2> QED
    BY <2>1 DEF Left
<1>4. \A j \in 1 .. Len(Tail(Q)) :
        Tail(Q)[j] = IF j < 1 THEN Q[j]
                     ELSE IF j = 1 /\ Q[1].t > 0
                          THEN [c |-> Q[j + 1].c, t |-> Q[j + 1].t + Q[1].t]
                     ELSE Q[j + 1]
  BY <1>1, <1>2, LenNat
<1>5. Grown(Tail(Q), Q, 1, Q[1].c, Left(Q, 1))
  BY <1>1, <1>2, <1>4, RemovalGrown
<1> QED
  BY <1>1, <1>3, <1>5

(* untimeout(): the time of the entry is not lost to those behind it.       *)
LEMMA DeleteGrown ==
  ASSUME NEW Q \in Seq(Entry), Ordered(Q), NEW c, Scheduled(Q, c)
  PROVE  \E i \in 1 .. Len(Q) : Grown(Delete(Q, c), Q, i, c, Left(Q, i))
<1> DEFINE P(k) == Q[k].c = c /\ \A j \in 1 .. k - 1 : Q[j].c # c
           i == CHOOSE k \in 1 .. Len(Q) : P(k)
           rest == SubSeq(Q, i + 1, Len(Q))
           next == IF rest # <<>> /\ Q[i].t > 0 THEN [rest EXCEPT ![1].t = @ + Q[i].t] ELSE rest
           G == SubSeq(Q, 1, i - 1) \o next
<1>1. Delete(Q, c) = G
  BY Zenon DEF Delete
<1>2. \E k \in 1 .. Len(Q) : P(k)
  <2> DEFINE S == {k \in 1 .. Len(Q) : Q[k].c = c}
  <2>1. S \subseteq Nat /\ S # {}
    BY LenNat DEF Scheduled
  <2>2. \E x \in S : \A y \in S : x <= y
    <3> HIDE DEF S
    <3> QED
      BY <2>1, Least
  <2>3. PICK k \in S : \A y \in S : k <= y
    BY <2>2
  <2>4. ASSUME NEW j \in 1 .. k - 1 PROVE Q[j].c # c
    <3>1. j \in 1 .. Len(Q) /\ ~(k <= j)
      BY LenNat
    <3> QED
      BY <2>3, <3>1
  <2> QED
    BY <2>4
<1>3. i \in 1 .. Len(Q) /\ P(i)
  <2> HIDE DEF P
  <2> QED
    BY <1>2
<1> HIDE DEF i
<1>4. Q[i].c = c /\ Q[i].t \in Int /\ Len(Q) \in Nat
  BY <1>3, EntryType, LenNat
<1>5. /\ rest \in Seq(Entry) /\ Len(rest) = Len(Q) - i
      /\ \A j \in 1 .. Len(rest) : rest[j] = Q[i + j]
  <2>1. i \in Nat /\ i + 1 \in 1 .. Len(Q) + 1 /\ Len(Q) \in Nat
    BY <1>3, <1>4
  <2>2. rest \in Seq(Entry) /\ Len(rest) = Len(Q) - i
    BY <2>1
  <2>3. ASSUME NEW j \in 1 .. Len(rest) PROVE rest[j] = Q[i + j]
    <3>1. j \in 1 .. Len(Q) - i
      BY <2>2
    <3> QED
      BY <2>1, <3>1
  <2> QED
    BY <2>2, <2>3
<1> HIDE DEF rest
<1>6. rest # <<>> <=> Len(rest) > 0
  BY <1>5
<1>7. /\ next \in Seq(Entry) /\ Len(next) = Len(rest)
      /\ \A j \in 1 .. Len(rest) :
           next[j] = IF j = 1 /\ Q[i].t > 0 THEN [c |-> rest[j].c, t |-> rest[j].t + Q[i].t]
                     ELSE rest[j]
  <2>1. CASE rest # <<>> /\ Q[i].t > 0
    <3>1. 1 \in 1 .. Len(rest) /\ rest[1] \in Entry
      BY <1>5, <1>6, <2>1
    <3> DEFINE x == [c |-> rest[1].c, t |-> rest[1].t + Q[i].t]
    <3>2. [rest[1] EXCEPT !.t = @ + Q[i].t] = x /\ x \in Entry
      BY <1>4, <3>1 DEF Entry
    <3>3. next = [rest EXCEPT ![1] = [rest[1] EXCEPT !.t = @ + Q[i].t]]
      BY <2>1, Zenon
    <3>4. next = [rest EXCEPT ![1] = x]
      BY <3>2, <3>3
    <3> HIDE DEF x, next
    <3>5. next \in Seq(Entry) /\ Len(next) = Len(rest)
      BY <1>5, <3>1, <3>2, <3>4
    <3>6. ASSUME NEW j \in 1 .. Len(rest) PROVE next[j] = IF j = 1 THEN x ELSE rest[j]
      BY <1>5, <3>4
    <3> QED
      BY <2>1, <3>5, <3>6 DEF x
  <2>2. CASE ~(rest # <<>> /\ Q[i].t > 0)
    <3>1. next = rest
      BY <2>2, Zenon
    <3>2. Len(rest) > 0 => ~(Q[i].t > 0)
      BY <1>6, <2>2
    <3> HIDE DEF next
    <3> QED
      BY <1>5, <3>1, <3>2, LenNat
  <2> QED
    BY <2>1, <2>2
<1> HIDE DEF next
<1> DEFINE front == SubSeq(Q, 1, i - 1)
<1>8. /\ front \in Seq(Entry) /\ Len(front) = i - 1
      /\ \A j \in 1 .. i - 1 : front[j] = Q[j]
  BY <1>3, <1>4
<1>9. G = front \o next
  OBVIOUS
<1> HIDE DEF front, G
<1>10. /\ G \in Seq(Entry) /\ Len(G) = Len(front) + Len(next)
       /\ \A j \in 1 .. Len(front) : G[j] = front[j]
       /\ \A j \in 1 .. Len(next) : G[Len(front) + j] = next[j]
  BY <1>7, <1>8, <1>9, Concat
<1>11. Len(Q) = Len(G) + 1
  BY <1>3, <1>4, <1>5, <1>7, <1>8, <1>10
<1>12. ASSUME NEW j \in 1 .. Len(G)
       PROVE  G[j] = IF j < i THEN Q[j]
                     ELSE IF j = i /\ Q[i].t > 0
                          THEN [c |-> Q[j + 1].c, t |-> Q[j + 1].t + Q[i].t]
                     ELSE Q[j + 1]
  <2>1. CASE j < i
    <3>1. j \in 1 .. i - 1
      BY <1>3, <1>4, <2>1, <1>11
    <3> QED
      BY <1>8, <1>10, <2>1, <3>1
  <2>2. CASE j >= i
    <3> DEFINE m == j - (i - 1)
    <3>1. m \in 1 .. Len(next) /\ Len(front) + m = j /\ i + m = j + 1 /\ (m = 1 <=> j = i)
      BY <1>3, <1>4, <1>5, <1>7, <1>8, <1>11, <2>2
    <3>2. G[j] = next[m]
      BY <1>10, <3>1
    <3>3. rest[m] = Q[j + 1]
      BY <1>5, <1>7, <3>1
    <3> HIDE DEF m
    <3>4. ~(j < i)
      BY <1>3, <1>4, <1>11, <2>2
    <3> QED
      BY <1>7, <3>1, <3>2, <3>3, <3>4
  <2> QED
    BY <1>3, <1>4, <1>11, <2>1, <2>2
<1>13. Grown(G, Q, i, Q[i].c, Left(Q, i))
  BY <1>3, <1>10, <1>11, <1>12, RemovalGrown
<1> QED
  BY <1>1, <1>3, <1>4, <1>13
-----------------------------------------------------------------------------
(* What the operations do to the entries of one client.                     *)

(* The places of the entries of c.                                          *)
Places(Q, c) == {i \in 1 .. Len(Q) : Q[i].c = c}

Single(Q, c) == \A i, j \in Places(Q, c) : i = j

(* The entries of c are less than a tick away from l.                       *)
Apart(l, n) == l - tick * n \in -(tick - 1) .. tick - 1
Near(Q, c, l) == \A i \in Places(Q, c) : Apart(l, Left(Q, i))

(* A client has finitely many entries.                                      *)
LEMMA PlacesFinite ==
  ASSUME NEW Q \in Seq(Entry), NEW c
  PROVE  IsFiniteSet(Places(Q, c)) /\ Cardinality(Places(Q, c)) \in Nat
<1>1. IsFiniteSet(1 .. Len(Q))
  BY FS_Interval, LenNat
<1>2. Places(Q, c) \in SUBSET (1 .. Len(Q))
  BY DEF Places
<1> QED
  BY <1>1, <1>2, FS_Subset, FS_CardinalityType

(* The entries that were there have moved up, one to one.                   *)
LEMMA UpPlaces ==
  ASSUME NEW Q, NEW G, NEW i, NEW c, NEW n, Grown(Q, G, i, c, n)
  PROVE  /\ \A j \in 1 .. Len(Q) : Up(i, j) \in 1 .. Len(G) /\ Up(i, j) # i
         /\ \A j, m \in 1 .. Len(Q) : Up(i, j) = Up(i, m) => j = m
         /\ \A m \in 1 .. Len(G) : m # i => \E j \in 1 .. Len(Q) : m = Up(i, j)
<1>1. Len(Q) \in Nat /\ Len(G) = Len(Q) + 1 /\ i \in 1 .. Len(G)
  BY LenNat DEF Grown
<1>2. ASSUME NEW m \in 1 .. Len(G), m # i PROVE \E j \in 1 .. Len(Q) : m = Up(i, j)
  <2>1. CASE m < i
    BY <1>1, <2>1 DEF Up
  <2>2. CASE m > i
    <3>1. m - 1 \in 1 .. Len(Q) /\ m = Up(i, m - 1)
      BY <1>1, <2>2 DEF Up
    <3> QED
      BY <3>1
  <2> QED
    BY <1>1, <1>2, <2>1, <2>2
<1> QED
  BY <1>1, <1>2 DEF Up

(* The places of a client before and after.                                 *)
LEMMA PlacesUp ==
  ASSUME NEW Q, NEW G, NEW i, NEW c, NEW n, Grown(Q, G, i, c, n), NEW b
  PROVE  /\ \A j \in Places(Q, b) : /\ Up(i, j) \in Places(G, b) \ {i}
                                    /\ Left(G, Up(i, j)) = Left(Q, j)
         /\ \A m \in Places(G, b) \ {i} : \E j \in Places(Q, b) : m = Up(i, j)
         /\ \A j, m \in Places(Q, b) : Up(i, j) = Up(i, m) => j = m
         /\ i \in Places(G, b) <=> b = c
<1>1. \A j \in 1 .. Len(Q) : G[Up(i, j)].c = Q[j].c /\ Left(G, Up(i, j)) = Left(Q, j)
  BY DEF Grown
<1>2. i \in 1 .. Len(G) /\ G[i].c = c
  BY DEF Grown
<1>3. /\ \A j \in 1 .. Len(Q) : Up(i, j) \in 1 .. Len(G) /\ Up(i, j) # i
      /\ \A j, m \in 1 .. Len(Q) : Up(i, j) = Up(i, m) => j = m
      /\ \A m \in 1 .. Len(G) : m # i => \E j \in 1 .. Len(Q) : m = Up(i, j)
  BY UpPlaces
<1>4. ASSUME NEW j \in Places(Q, b)
      PROVE  Up(i, j) \in Places(G, b) \ {i} /\ Left(G, Up(i, j)) = Left(Q, j)
  BY <1>1, <1>3 DEF Places
<1>5. ASSUME NEW m \in Places(G, b) \ {i} PROVE \E j \in Places(Q, b) : m = Up(i, j)
  <2>1. m \in 1 .. Len(G) /\ m # i /\ G[m].c = b
    BY DEF Places
  <2>2. PICK j \in 1 .. Len(Q) : m = Up(i, j)
    BY <1>3, <2>1
  <2>3. Q[j].c = b
    BY <1>1, <2>1, <2>2
  <2> QED
    BY <2>2, <2>3 DEF Places
<1>6. \A j, m \in Places(Q, b) : Up(i, j) = Up(i, m) => j = m
  BY <1>3 DEF Places
<1>7. i \in Places(G, b) <=> b = c
  BY <1>2 DEF Places
<1> QED
  BY <1>4, <1>5, <1>6, <1>7

(* How many there are.                                                      *)
LEMMA PlacesCounted ==
  ASSUME NEW Q, NEW G, NEW i, NEW c, NEW n, Grown(Q, G, i, c, n), NEW b
  PROVE  Cardinality(Places(G, b)) = Cardinality(Places(Q, b)) + IF b = c THEN 1 ELSE 0
<1> DEFINE S == Places(Q, b)
           T == Places(G, b) \ {i}
           F == [j \in S |-> Up(i, j)]
<1>1. F \in [S -> T] /\ \A x, y \in S : F[x] = F[y] => x = y
  BY PlacesUp
<1>2. \A t \in T : \E s \in S : F[s] = t
  BY PlacesUp
<1>3. IsFiniteSet(S) /\ IsFiniteSet(Places(G, b)) /\ Cardinality(S) \in Nat
  BY PlacesFinite DEF Grown
<1> HIDE DEF S, T, F
<1>4. F \in Bijection(S, T)
  BY <1>1, <1>2, Fun_IsBij
<1>5. Cardinality(T) = Cardinality(S)
  BY <1>3, <1>4, FS_Bijection DEF ExistsBijection
<1>6. Cardinality(T) = IF i \in Places(G, b) THEN Cardinality(Places(G, b)) - 1
                       ELSE Cardinality(Places(G, b))
  BY <1>3, FS_RemoveElement DEF T
<1>7. Cardinality(Places(G, b)) \in Nat
  BY <1>3, FS_CardinalityType
<1>8. i \in Places(G, b) <=> b = c
  BY PlacesUp
<1> QED
  BY <1>3, <1>5, <1>6, <1>7, <1>8 DEF S

(* untimeout() finds an entry where there is one.                           *)
LEMMA ScheduledPlaces ==
  ASSUME NEW Q, NEW c
  PROVE  Scheduled(Q, c) <=> Places(Q, c) # {}
BY DEF Scheduled, Places

(* The other clients notice nothing.                                        *)
LEMMA GrownOthers ==
  ASSUME NEW Q, NEW G, NEW i, NEW c, NEW n, Grown(Q, G, i, c, n), NEW b, b # c, NEW l
  PROVE  /\ Scheduled(G, b) <=> Scheduled(Q, b)
         /\ Single(G, b) <=> Single(Q, b)
         /\ Near(G, b, l) <=> Near(Q, b, l)
<1>1. /\ \A j \in Places(Q, b) : /\ Up(i, j) \in Places(G, b)
                                 /\ Left(G, Up(i, j)) = Left(Q, j)
      /\ \A m \in Places(G, b) : \E j \in Places(Q, b) : m = Up(i, j)
      /\ \A j, m \in Places(Q, b) : Up(i, j) = Up(i, m) => j = m
  BY PlacesUp
<1>2. Scheduled(G, b) <=> Scheduled(Q, b)
  BY <1>1, ScheduledPlaces
<1>3. Single(G, b) <=> Single(Q, b)
  <2>1. ASSUME Single(G, b), NEW j \in Places(Q, b), NEW m \in Places(Q, b) PROVE j = m
    BY <1>1, <2>1 DEF Single
  <2>2. ASSUME Single(Q, b), NEW j \in Places(G, b), NEW m \in Places(G, b) PROVE j = m
    <3>1. PICK u \in Places(Q, b) : j = Up(i, u)
      BY <1>1
    <3>2. PICK v \in Places(Q, b) : m = Up(i, v)
      BY <1>1
    <3> QED
      BY <2>2, <3>1, <3>2 DEF Single
  <2> QED
    BY <2>1, <2>2 DEF Single
<1>4. Near(G, b, l) <=> Near(Q, b, l)
  BY <1>1 DEF Near
<1> QED
  BY <1>2, <1>3, <1>4

(* The client itself has one entry more.                                    *)
LEMMA GrownOwn ==
  ASSUME NEW Q, NEW G, NEW i, NEW c, NEW n, Grown(Q, G, i, c, n), NEW l
  PROVE  /\ Scheduled(G, c)
         /\ Single(G, c) <=> ~Scheduled(Q, c)
         /\ ~Scheduled(Q, c) /\ Apart(l, n) => Near(G, c, l)
<1>1. /\ \A j \in Places(Q, c) : Up(i, j) \in Places(G, c) \ {i}
      /\ \A m \in Places(G, c) \ {i} : \E j \in Places(Q, c) : m = Up(i, j)
      /\ i \in Places(G, c)
  BY PlacesUp
<1>2. Scheduled(G, c)
  BY <1>1, ScheduledPlaces
<1>3. Single(G, c) <=> ~Scheduled(Q, c)
  BY <1>1, ScheduledPlaces DEF Single
<1>4. ~Scheduled(Q, c) /\ Apart(l, n) => Near(G, c, l)
  <2>1. Left(G, i) = n
    BY DEF Grown
  <2>2. ~Scheduled(Q, c) => Places(G, c) = {i}
    BY <1>1, ScheduledPlaces
  <2> QED
    BY <2>1, <2>2 DEF Near
<1> QED
  BY <1>2, <1>3, <1>4

(* A tick brings every entry nearer, as it does the time it is for.         *)
LEMMA TickKeeps ==
  ASSUME NEW Q \in Seq(Entry), Ordered(Q), NEW b, NEW l \in Int
  PROVE  /\ Places(RunDown(Q), b) = Places(Q, b)
         /\ Scheduled(RunDown(Q), b) <=> Scheduled(Q, b)
         /\ Single(RunDown(Q), b) <=> Single(Q, b)
         /\ Near(Q, b, l) => Near(RunDown(Q), b, l - tick)
<1>1. Places(RunDown(Q), b) = Places(Q, b)
  BY RunDownLeft DEF Places
<1>2. ASSUME Near(Q, b, l), NEW i \in Places(Q, b)
      PROVE  Apart(l - tick, Left(RunDown(Q), i))
  <2>1. i \in 1 .. Len(Q)
    BY DEF Places
  <2>2. Left(RunDown(Q), i) = Left(Q, i) - 1
    BY <2>1, RunDownLeft
  <2>3. Left(Q, i) \in Int
    BY <2>1, TotalNat, EntryType, LenNat DEF Left
  <2>4. Apart(l, Left(Q, i))
    BY <1>2 DEF Near
  <2> QED
    BY <2>2, <2>3, <2>4 DEF Apart, tick
<1> QED
  BY <1>1, <1>2, ScheduledPlaces DEF Single, Near
-----------------------------------------------------------------------------
(* The table.                                                               *)

(* The table has an entry for the timer of every process and for every      *)
(* request the drivers may have on the queue.                               *)
TableSize ==
  /\ IsFiniteSet(Proc) /\ IsFiniteSet(Driver)
  /\ Cardinality(Proc) + Cardinality(Driver) * MaxArmed <= NCallout

(* The most entries a client has.                                           *)
Share(c) == IF c \in Proc THEN 1 ELSE MaxArmed

(* One slot for each entry a client may have.                               *)
Slots == (Proc \X {1}) \cup (Driver \X (1 .. MaxArmed))

(* There are no more slots than callouts in the table.                      *)
LEMMA SlotsCounted ==
  ASSUME TableSize
  PROVE  IsFiniteSet(Slots) /\ Cardinality(Slots) \in Nat /\ Cardinality(Slots) <= NCallout
<1> DEFINE A == Proc \X {1}
           B == Driver \X (1 .. MaxArmed)
<1>1. IsFiniteSet(A) /\ Cardinality(A) = Cardinality(Proc)
  <2>1. IsFiniteSet({1}) /\ Cardinality({1}) = 1
    BY FS_Singleton
  <2>2. IsFiniteSet(A) /\ Cardinality(A) = Cardinality(Proc) * 1
    BY <2>1, FS_Product DEF TableSize
  <2>3. Cardinality(Proc) \in Nat
    BY FS_CardinalityType DEF TableSize
  <2> HIDE DEF A
  <2> QED
    BY <2>2, <2>3
<1>2. IsFiniteSet(1 .. MaxArmed) /\ Cardinality(1 .. MaxArmed) = MaxArmed
  BY FS_Interval, TimerAssumption
<1>3. IsFiniteSet(B) /\ Cardinality(B) = Cardinality(Driver) * MaxArmed
  BY <1>2, FS_Product DEF TableSize
<1>4. A \cap B = {}
  BY TimerAssumption
<1>5. Slots = A \cup B
  BY DEF Slots
<1> HIDE DEF A, B
<1>6. IsFiniteSet(A \cup B) /\ Cardinality(A \cup B) = Cardinality(A) + Cardinality(B) - Cardinality(A \cap B)
  BY <1>1, <1>3, FS_Union
<1>7. Cardinality(A \cap B) = 0 /\ Cardinality(A) \in Nat /\ Cardinality(B) \in Nat
  BY <1>1, <1>3, <1>4, FS_EmptySet, FS_CardinalityType
<1>8. Cardinality(A) + Cardinality(B) <= NCallout
  BY <1>1, <1>3 DEF TableSize
<1>9. Cardinality(Slots) = Cardinality(A) + Cardinality(B)
  BY <1>5, <1>6, <1>7
<1> QED
  BY <1>5, <1>6, <1>7, <1>8, <1>9

(* The first entry of its client is number 1, and so on.                    *)
Rank(Q, i) == Cardinality({j \in 1 .. i : Q[j].c = Q[i].c})

(* Ranks tell the entries of a client apart and do not go beyond their      *)
(* number.                                                                  *)
LEMMA RankIs ==
  ASSUME NEW Q \in Seq(Entry), NEW i \in 1 .. Len(Q)
  PROVE  /\ Rank(Q, i) \in 1 .. Cardinality(Places(Q, Q[i].c))
         /\ \A j \in 1 .. Len(Q) : i < j /\ Q[j].c = Q[i].c => Rank(Q, i) < Rank(Q, j)
<1> DEFINE S(k) == {j \in 1 .. k : Q[j].c = Q[k].c}
<1>1. ASSUME NEW k \in 1 .. Len(Q)
      PROVE  S(k) \in SUBSET Places(Q, Q[k].c) /\ k \in S(k)
  BY <1>1, LenNat DEF Places
<1>2. ASSUME NEW k \in 1 .. Len(Q)
      PROVE  /\ IsFiniteSet(S(k)) /\ Rank(Q, k) \in Nat /\ Rank(Q, k) > 0
             /\ Rank(Q, k) <= Cardinality(Places(Q, Q[k].c))
  <2>1. Rank(Q, k) = Cardinality(S(k))
    BY DEF Rank
  <2>2. S(k) \in SUBSET Places(Q, Q[k].c) /\ S(k) # {}
    BY <1>1
  <2> HIDE DEF S
  <2>3. IsFiniteSet(S(k)) /\ Cardinality(S(k)) <= Cardinality(Places(Q, Q[k].c))
    BY <2>2, PlacesFinite, FS_Subset
  <2>4. Cardinality(S(k)) \in Nat /\ Cardinality(S(k)) # 0
    BY <2>2, <2>3, FS_CardinalityType, FS_EmptySet
  <2> QED
    BY <2>1, <2>3, <2>4
<1>3. ASSUME NEW j \in 1 .. Len(Q), i < j, Q[j].c = Q[i].c
      PROVE  Rank(Q, i) < Rank(Q, j)
  <2>1. S(i) \cup {j} \in SUBSET S(j) /\ j \notin S(i)
    BY <1>3, LenNat
  <2>2. Rank(Q, i) = Cardinality(S(i)) /\ Rank(Q, j) = Cardinality(S(j))
    BY DEF Rank
  <2> HIDE DEF S
  <2>3. Cardinality(S(i) \cup {j}) = Cardinality(S(i)) + 1
    BY <1>2, <2>1, FS_AddElement
  <2>4. Cardinality(S(i) \cup {j}) <= Cardinality(S(j))
    BY <1>2, <2>1, FS_Subset
  <2>5. Rank(Q, i) \in Nat /\ Rank(Q, j) \in Nat
    BY <1>2
  <2> QED
    BY <2>2, <2>3, <2>4, <2>5
<1>4. Rank(Q, i) \in 1 .. Cardinality(Places(Q, Q[i].c))
  <2>1. Rank(Q, i) \in Nat /\ Rank(Q, i) > 0 /\ Rank(Q, i) <= Cardinality(Places(Q, Q[i].c))
    BY <1>2
  <2>2. Cardinality(Places(Q, Q[i].c)) \in Nat
    BY PlacesFinite
  <2> QED
    BY <2>1, <2>2
<1> HIDE DEF S
<1> QED
  BY <1>3, <1>4

(* While no client has more than its share, and one has less, the table is  *)
(* not used up.                                                             *)
LEMMA TableHasRoom ==
  ASSUME TableSize, NEW Q \in Seq(Entry), NEW b \in Client,
         \A c \in Client : Cardinality(Places(Q, c)) <= Share(c),
         Cardinality(Places(Q, b)) < Share(b)
  PROVE  Len(Q) < NCallout
<1> DEFINE T == Slots \ {<<b, Share(b)>>}
           F == [i \in 1 .. Len(Q) |-> <<Q[i].c, Rank(Q, i)>>]
<1>1. \A c \in Client : Cardinality(Places(Q, c)) \in Nat /\ Share(c) \in Nat
  BY PlacesFinite, TimerAssumption DEF Share
<1>2. ASSUME NEW c \in Client, NEW n \in Nat, n > 0, n <= Share(c)
      PROVE  <<c, n>> \in Slots
  <2>1. CASE c \in Proc
    <3>1. n = 1
      BY <1>2, <2>1 DEF Share
    <3> QED
      BY <2>1, <3>1 DEF Slots
  <2>2. CASE c \notin Proc
    <3>1. c \in Driver /\ n \in 1 .. MaxArmed
      BY <1>2, <2>2, TimerAssumption DEF Share
    <3> QED
      BY <3>1 DEF Slots
  <2> QED
    BY <2>1, <2>2
<1>3. ASSUME NEW i \in 1 .. Len(Q) PROVE <<Q[i].c, Rank(Q, i)>> \in T
  <2> DEFINE c == Q[i].c
             n == Rank(Q, i)
  <2>1. c \in Client /\ n \in 1 .. Cardinality(Places(Q, c))
    BY EntryType, RankIs
  <2> HIDE DEF c, n
  <2>2. n \in Nat /\ n > 0 /\ n <= Share(c) /\ (c = b => n < Share(b))
    BY <1>1, <2>1
  <2>3. <<c, n>> \in Slots /\ <<c, n>> # <<b, Share(b)>>
    BY <1>1, <1>2, <2>1, <2>2
  <2> QED
    BY <2>3 DEF c, n
<1>4. F \in [1 .. Len(Q) -> T]
  BY <1>3
<1>5. ASSUME NEW i \in 1 .. Len(Q), NEW j \in 1 .. Len(Q), F[i] = F[j] PROVE i = j
  <2>1. Q[i].c = Q[j].c /\ Rank(Q, i) = Rank(Q, j)
    BY <1>5
  <2>2. Rank(Q, i) \in Int /\ Rank(Q, j) \in Int
    BY RankIs, PlacesFinite
  <2>3. ~(i < j) /\ ~(j < i)
    BY <2>1, <2>2, RankIs
  <2> QED
    BY <2>3, LenNat
<1>6. IsFiniteSet(T) /\ Cardinality(T) = Cardinality(Slots) - 1
  <2>1. <<b, Share(b)>> \in Slots
    BY <1>1, <1>2
  <2> QED
    BY <2>1, SlotsCounted, FS_RemoveElement
<1>7. Cardinality(1 .. Len(Q)) = Len(Q)
  <2>1. Len(Q) \in Nat
    BY LenNat
  <2>2. Cardinality(1 .. Len(Q)) = IF 1 > Len(Q) THEN 0 ELSE Len(Q) - 1 + 1
    BY <2>1, FS_Interval
  <2> QED
    BY <2>1, <2>2
<1> HIDE DEF F, T
<1>8. F \in Injection(1 .. Len(Q), T)
  BY <1>4, <1>5, Fun_IsInj
<1>9. Cardinality(1 .. Len(Q)) <= Cardinality(T)
  BY <1>6, <1>8, FS_Injection
<1> QED
  BY <1>6, <1>7, <1>9, SlotsCounted, LenNat, CalloutAssumption
-----------------------------------------------------------------------------
(* The invariant.                                                           *)

Timer == [set : BOOLEAN, left : Int, interval : Nat]

(* The queue Q with free entries left: nothing is lost, and no driver has   *)
(* more than it may.                                                        *)
QueueOK(Q, free) ==
  /\ Q \in Seq(Entry) /\ Ordered(Q)
  /\ free \in Nat /\ free + Len(Q) = NCallout
  /\ \A d \in Driver : Cardinality(Places(Q, d)) <= MaxArmed

(* The timer r of p, which is alive or not (a), on the queue Q while        *)
(* softclock() is in the call s; moved: settime() was called.               *)
TimerOK(Q, p, r, a, s, moved) ==
  /\ r.set => a
  /\ s = p => r.set
  /\ Scheduled(Q, p) <=> r.set /\ s # p
  /\ Single(Q, p)
  /\ ~moved => Near(Q, p, r.left)

Types ==
  /\ softcall \in Client \cup {NoCall}
  /\ softpending \in BOOLEAN /\ looping \in BOOLEAN /\ stepped \in BOOLEAN
  /\ timer \in [Proc -> Timer] /\ alive \in [Proc -> BOOLEAN]

Inv ==
  /\ Types /\ panicked = FALSE
  /\ QueueOK(calltodo, callfree)
  /\ \A p \in Proc : TimerOK(calltodo, p, timer[p], alive[p], softcall, stepped)

(* A client with nothing, or with one entry.                                *)
LEMMA SingleCounted ==
  ASSUME NEW Q \in Seq(Entry), NEW c
  PROVE  /\ ~Scheduled(Q, c) => Cardinality(Places(Q, c)) = 0
         /\ Single(Q, c) => Cardinality(Places(Q, c)) <= 1
<1>1. ~Scheduled(Q, c) => Cardinality(Places(Q, c)) = 0
  BY ScheduledPlaces, FS_EmptySet
<1>2. ASSUME Single(Q, c), Scheduled(Q, c) PROVE Cardinality(Places(Q, c)) = 1
  <2>1. PICK i \in Places(Q, c) : TRUE
    BY <1>2, ScheduledPlaces
  <2>2. Places(Q, c) = {i}
    BY <1>2, <2>1 DEF Single
  <2> QED
    BY <2>2, FS_Singleton
<1> QED
  BY <1>1, <1>2

(* The delay that timeout() makes of what it is given.                      *)
Ticks(n) == IF n <= 0 THEN 1 ELSE n

(* timeout() finds an entry for every client that has not got its share.    *)
LEMMA TimeoutGrows ==
  ASSUME TableSize, NEW Q, NEW free, QueueOK(Q, free), \A p \in Proc : Single(Q, p),
         NEW c \in Client, Cardinality(Places(Q, c)) < Share(c), NEW ticks \in Int,
         timeout(Q, free, c, ticks)
  PROVE  /\ panicked' = panicked
         /\ QueueOK(calltodo', callfree')
         /\ \E i : Grown(Q, calltodo', i, c, Ticks(ticks))
<1>1. Q \in Seq(Entry) /\ Ordered(Q) /\ free \in Nat /\ free + Len(Q) = NCallout /\ Len(Q) \in Nat
  BY LenNat DEF QueueOK
<1>2. \A b \in Client : Cardinality(Places(Q, b)) <= Share(b)
  BY <1>1, SingleCounted, TimerAssumption DEF Share, QueueOK
<1>3. Len(Q) < NCallout
  BY <1>1, <1>2, TableHasRoom
<1>4. free # 0
  BY <1>1, <1>3
<1>5. calltodo' = Insert(Q, c, Ticks(ticks)) /\ callfree' = free - 1 /\ panicked' = panicked
  BY <1>4 DEF timeout, Ticks
<1>6. Ticks(ticks) \in Nat \ {0}
  BY DEF Ticks
<1>7. PICK i : Grown(Q, calltodo', i, c, Ticks(ticks))
  BY <1>1, <1>5, <1>6, InsertGrows
<1>8. ASSUME NEW d \in Driver PROVE Cardinality(Places(calltodo', d)) <= MaxArmed
  <2>1. Cardinality(Places(calltodo', d)) = Cardinality(Places(Q, d)) + IF d = c THEN 1 ELSE 0
    BY <1>7, PlacesCounted
  <2>2. Cardinality(Places(Q, d)) \in Nat /\ Cardinality(Places(Q, d)) <= MaxArmed
    BY <1>1, PlacesFinite DEF QueueOK
  <2>3. d = c => Cardinality(Places(Q, d)) < MaxArmed
    BY TimerAssumption DEF Share
  <2> QED
    BY <2>1, <2>2, <2>3, TimerAssumption
<1>9. callfree' \in Nat /\ callfree' + Len(calltodo') = NCallout
  <2>1. Len(calltodo') = Len(Q) + 1
    BY <1>7 DEF Grown
  <2> QED
    BY <1>1, <1>4, <1>5, <2>1, CalloutAssumption
<1>10. calltodo' \in Seq(Entry) /\ Ordered(calltodo')
  BY <1>7 DEF Grown
<1> QED
  BY <1>5, <1>7, <1>8, <1>9, <1>10 DEF QueueOK

(* An entry less.                                                           *)
LEMMA ShrunkQueue ==
  ASSUME NEW Q, NEW free, QueueOK(Q, free), NEW G, NEW i, NEW c, NEW n, Grown(G, Q, i, c, n)
  PROVE  QueueOK(G, free + 1)
<1>1. /\ Q \in Seq(Entry) /\ free \in Nat /\ free + Len(Q) = NCallout
      /\ G \in Seq(Entry) /\ Ordered(G) /\ Len(Q) = Len(G) + 1 /\ Len(G) \in Nat
  BY LenNat DEF QueueOK, Grown
<1>2. ASSUME NEW d \in Driver PROVE Cardinality(Places(G, d)) <= MaxArmed
  <2>1. Cardinality(Places(Q, d)) = Cardinality(Places(G, d)) + IF d = c THEN 1 ELSE 0
    BY PlacesCounted
  <2>2. Cardinality(Places(G, d)) \in Nat /\ Cardinality(Places(Q, d)) <= MaxArmed
    BY <1>1, PlacesFinite DEF QueueOK
  <2> QED
    BY <2>1, <2>2, TimerAssumption
<1>3. free + 1 \in Nat /\ free + 1 + Len(G) = NCallout
  BY <1>1, CalloutAssumption
<1> QED
  BY <1>1, <1>2, <1>3 DEF QueueOK

(* untimeout() takes one away, if there is one.                             *)
LEMMA UntimeoutShrinks ==
  ASSUME NEW Q, NEW free, QueueOK(Q, free), NEW c
  PROVE  /\ QueueOK(Delete(Q, c), FreeWithout(Q, free, c))
         /\ \/ ~Scheduled(Q, c) /\ Delete(Q, c) = Q
            \/ \E i, n : Grown(Delete(Q, c), Q, i, c, n)
<1>1. CASE ~Scheduled(Q, c)
  BY <1>1 DEF Delete, FreeWithout
<1>2. CASE Scheduled(Q, c)
  <2>1. PICK i \in 1 .. Len(Q) : Grown(Delete(Q, c), Q, i, c, Left(Q, i))
    BY <1>2, DeleteGrown DEF QueueOK
  <2>2. FreeWithout(Q, free, c) = free + 1
    BY <1>2 DEF FreeWithout
  <2> QED
    BY <2>1, <2>2, ShrunkQueue
<1> QED
  BY <1>1, <1>2

(* The timers of others are not concerned.                                  *)
LEMMA OtherTimer ==
  ASSUME NEW Q, NEW G, NEW i, NEW c, NEW n, Grown(Q, G, i, c, n),
         NEW p, p # c, NEW r, NEW a, NEW s, NEW moved
  PROVE  TimerOK(Q, p, r, a, s, moved) <=> TimerOK(G, p, r, a, s, moved)
<1>1. /\ Scheduled(G, p) <=> Scheduled(Q, p)
      /\ Single(G, p) <=> Single(Q, p)
      /\ Near(G, p, r.left) <=> Near(Q, p, r.left)
  BY GrownOthers
<1> QED
  BY <1>1 DEF TimerOK

(* The same after an untimeout().                                           *)
LEMMA OtherUntimeout ==
  ASSUME NEW Q, NEW free, QueueOK(Q, free), NEW c,
         NEW p, p # c, NEW r, NEW a, NEW s, NEW moved
  PROVE  TimerOK(Q, p, r, a, s, moved) <=> TimerOK(Delete(Q, c), p, r, a, s, moved)
BY UntimeoutShrinks, OtherTimer

(* A process whose entry is taken away has none.                            *)
LEMMA OwnUntimeout ==
  ASSUME NEW Q, NEW free, QueueOK(Q, free), NEW p, Single(Q, p)
  PROVE  ~Scheduled(Delete(Q, p), p) /\ Single(Delete(Q, p), p)
<1>1. ~Scheduled(Delete(Q, p), p)
  <2>1. CASE ~Scheduled(Q, p) /\ Delete(Q, p) = Q
    BY <2>1
  <2>2. CASE \E i, n : Grown(Delete(Q, p), Q, i, p, n)
    <3>1. PICK i, n : Grown(Delete(Q, p), Q, i, p, n)
      BY <2>2
    <3>2. Single(Q, p) <=> ~Scheduled(Delete(Q, p), p)
      BY <3>1, GrownOwn
    <3> QED
      BY <3>2
  <2> QED
    BY <2>1, <2>2, UntimeoutShrinks
<1> QED
  BY <1>1, ScheduledPlaces DEF Single

(* hzto() and timeout() round to less than a tick.                          *)
LEMMA TicksNear ==
  ASSUME NEW l \in Nat, l > 0
  PROVE  hzto(l) \in Int /\ Apart(l, Ticks(hzto(l)))
<1>1. hzto(l) \in Int /\ (l = 2 * hzto(l) \/ l = 2 * hzto(l) + 1)
  BY DEF hzto, tick
<1> HIDE DEF hzto
<1> QED
  BY <1>1 DEF Apart, Ticks, tick

(* A timer that gets a callout for its time.                                *)
LEMMA OwnTimeout ==
  ASSUME NEW Q, NEW G, NEW i, NEW p, NEW n, Grown(Q, G, i, p, n), ~Scheduled(Q, p),
         NEW r, r.set, Apart(r.left, n), NEW s, s # p, NEW moved
  PROVE  TimerOK(G, p, r, TRUE, s, moved)
BY GrownOwn DEF TimerOK

(* A timer without one.                                                     *)
LEMMA NoTimeout ==
  ASSUME NEW Q, NEW p, ~Scheduled(Q, p), NEW r, NEW a, NEW s, NEW moved,
         r.set => a, r.set <=> s = p
  PROVE  TimerOK(Q, p, r, a, s, moved)
<1>1. Places(Q, p) = {}
  BY ScheduledPlaces
<1> QED
  BY <1>1 DEF TimerOK, Single, Near
-----------------------------------------------------------------------------
(* The steps.                                                               *)

(* What a step leaves behind.                                               *)
StepOK ==
  /\ Types' /\ panicked' = FALSE
  /\ QueueOK(calltodo', callfree')
  /\ \A p \in Proc : TimerOK(calltodo', p, timer'[p], alive'[p], softcall', stepped')

(* No callout is the one that softclock() has when it has none.             *)
LEMMA NoCallApart == \A p \in Proc : p \in Client /\ p # NoCall /\ p \notin Driver
BY CalloutAssumption, TimerAssumption

(* The parts of the invariant that a step starts from.                      *)
LEMMA InvParts ==
  ASSUME Inv, NEW p \in Proc
  PROVE  /\ TimerOK(calltodo, p, timer[p], alive[p], softcall, stepped)
         /\ timer[p] \in Timer /\ timer[p].set \in BOOLEAN
         /\ timer[p].left \in Int /\ timer[p].interval \in Nat
         /\ calltodo \in Seq(Entry) /\ Ordered(calltodo)
<1>1. timer[p] \in Timer
  BY DEF Inv, Types
<1> QED
  BY <1>1 DEF Inv, QueueOK, Timer

(* A tick.                                                                  *)
LEMMA HardclockStep ==
  ASSUME Inv, Hardclock PROVE StepOK
<1>1. calltodo \in Seq(Entry) /\ Ordered(calltodo)
  BY DEF Inv, QueueOK
<1>2. /\ calltodo' = RunDown(calltodo) /\ callfree' = callfree /\ softcall' = softcall
      /\ panicked' = panicked /\ timer' = Moved(tick) /\ alive' = alive
      /\ looping' = looping /\ stepped' = stepped
      /\ softpending' = (softpending \/ NeedSoft(calltodo))
  BY DEF Hardclock, HardclockQueue
<1>3. QueueOK(calltodo', callfree')
  <2>1. \A d \in Driver : Places(RunDown(calltodo), d) = Places(calltodo, d)
    <3>1. 0 \in Int
      OBVIOUS
    <3> QED
      BY <1>1, <3>1, TickKeeps
  <2>2. /\ RunDown(calltodo) \in Seq(Entry) /\ Ordered(RunDown(calltodo))
        /\ Len(RunDown(calltodo)) = Len(calltodo)
    BY <1>1, RunDownLeft
  <2> QED
    BY <1>2, <2>1, <2>2 DEF Inv, QueueOK
<1>4. ASSUME NEW p \in Proc
      PROVE  /\ timer'[p] \in Timer
             /\ TimerOK(calltodo', p, timer'[p], alive'[p], softcall', stepped')
  <2>1. timer'[p] = IF timer[p].set THEN [timer[p] EXCEPT !.left = @ - tick] ELSE timer[p]
    BY <1>2 DEF Moved
  <2>2. /\ TimerOK(calltodo, p, timer[p], alive[p], softcall, stepped)
        /\ timer[p] \in Timer /\ timer[p].left \in Int
    BY InvParts
  <2>3. /\ timer'[p] \in Timer /\ timer'[p].set = timer[p].set
        /\ timer'[p].left = IF timer[p].set THEN timer[p].left - tick ELSE timer[p].left
    BY <2>1, <2>2 DEF Timer, tick
  <2>4. /\ Scheduled(calltodo', p) <=> Scheduled(calltodo, p)
        /\ Single(calltodo', p) <=> Single(calltodo, p)
        /\ Near(calltodo, p, timer[p].left) => Near(calltodo', p, timer[p].left - tick)
    BY <1>1, <1>2, <2>2, TickKeeps
  <2>5. CASE timer[p].set
    BY <1>2, <2>2, <2>3, <2>4, <2>5 DEF TimerOK
  <2>6. CASE ~timer[p].set
    <3>1. Places(calltodo', p) = {}
      BY <2>2, <2>4, <2>6, ScheduledPlaces DEF TimerOK
    <3>2. Near(calltodo', p, timer'[p].left)
      BY <3>1 DEF Near
    <3> QED
      BY <1>2, <2>2, <2>3, <2>4, <2>6, <3>2 DEF TimerOK
  <2> QED
    BY <2>3, <2>5, <2>6
<1>5. Types'
  <2>1. timer' = [p \in Proc |-> timer'[p]]
    BY <1>2 DEF Moved
  <2>2. timer' \in [Proc -> Timer]
    BY <1>4, <2>1
  <2>3. softpending' \in BOOLEAN
    BY <1>2 DEF Inv, Types, NeedSoft
  <2> QED
    BY <1>2, <2>2, <2>3 DEF Inv, Types
<1> QED
  BY <1>2, <1>3, <1>4, <1>5 DEF StepOK, Inv

(* softclock() takes an entry, or ends.                                     *)
LEMMA SoftclockStep ==
  ASSUME Inv, Softclock PROVE StepOK
<1>1. /\ softcall = NoCall /\ panicked' = panicked /\ timer' = timer /\ alive' = alive
      /\ looping' = looping /\ stepped' = stepped
  BY DEF Softclock, SoftclockTake
<1>2. CASE calltodo # <<>> /\ Head(calltodo).t <= 0
  <2> DEFINE c == Head(calltodo).c
             n == Head(calltodo).t
  <2>1. /\ softcall' = c /\ calltodo' = Tail(calltodo) /\ callfree' = callfree + 1
        /\ softpending' = softpending
    BY <1>2 DEF Softclock, SoftclockTake
  <2>2. Grown(calltodo', calltodo, 1, c, n)
    BY <1>2, <2>1, TailGrown DEF Inv, QueueOK
  <2>3. c \in Client
    <3>1. calltodo \in Seq(Entry) /\ 1 \in 1 .. Len(calltodo) /\ Head(calltodo) = calltodo[1]
      BY <1>2 DEF Inv, QueueOK
    <3> QED
      BY <3>1, EntryType
  <2> HIDE DEF c, n
  <2>4. QueueOK(calltodo', callfree')
    BY <2>1, <2>2, ShrunkQueue DEF Inv
  <2>5. ASSUME NEW p \in Proc
        PROVE  TimerOK(calltodo', p, timer[p], alive[p], softcall', stepped)
    <3>1. TimerOK(calltodo, p, timer[p], alive[p], NoCall, stepped) /\ p # NoCall
      BY <1>1, InvParts, NoCallApart
    <3>2. CASE p = c
      <4>1. Scheduled(calltodo, p) /\ ~Scheduled(calltodo', p)
        BY <2>2, <3>1, <3>2, GrownOwn DEF TimerOK
      <4> QED
        BY <2>1, <3>1, <3>2, <4>1, NoTimeout DEF TimerOK
    <3>3. CASE p # c
      <4>1. TimerOK(calltodo', p, timer[p], alive[p], NoCall, stepped)
        BY <2>2, <3>1, <3>3, OtherTimer
      <4> QED
        BY <2>1, <3>1, <3>3, <4>1 DEF TimerOK
    <3> QED
      BY <3>2, <3>3
  <2>6. Types'
    BY <1>1, <2>1, <2>3 DEF Inv, Types
  <2> QED
    BY <1>1, <2>4, <2>5, <2>6 DEF StepOK, Inv
<1>3. CASE ~(calltodo # <<>> /\ Head(calltodo).t <= 0)
  <2>1. /\ softpending' = FALSE /\ calltodo' = calltodo /\ callfree' = callfree
        /\ softcall' = softcall
    BY <1>3 DEF Softclock, SoftclockTake
  <2> QED
    BY <1>1, <2>1 DEF StepOK, Inv, Types
<1> QED
  BY <1>2, <1>3

(* Steps that leave the queue alone.                                        *)
LEMMA SameQueue ==
  ASSUME Inv, UNCHANGED <<calltodo, callfree, panicked>>, Types',
         \A p \in Proc : TimerOK(calltodo, p, timer'[p], alive'[p], softcall', stepped')
  PROVE  StepOK
BY DEF StepOK, Inv

(* The end of a one-shot timer, or the start of the loop.                   *)
LEMMA RealitexpireStep ==
  ASSUME Inv, NEW p \in Proc, Realitexpire(p) PROVE StepOK
<1>1. /\ softcall = p /\ UNCHANGED <<calltodo, callfree, softpending, panicked, alive, stepped>>
  BY DEF Realitexpire
<1>2. CASE timer[p].interval = 0
  <2>1. timer' = [timer EXCEPT ![p] = Unset] /\ softcall' = NoCall /\ looping' = looping
    BY <1>2 DEF Realitexpire
  <2>2. Unset \in Timer /\ Unset.set = FALSE
    BY DEF Unset, Timer
  <2>3. Types'
    BY <1>1, <2>1, <2>2 DEF Inv, Types
  <2>4. ASSUME NEW q \in Proc
        PROVE  TimerOK(calltodo, q, timer'[q], alive'[q], softcall', stepped')
    <3>1. TimerOK(calltodo, q, timer[q], alive[q], softcall, stepped) /\ q # NoCall
      BY InvParts, NoCallApart
    <3>2. CASE q = p
      <4>1. timer'[q] = Unset
        BY <2>1, <3>2 DEF Inv, Types
      <4>2. ~Scheduled(calltodo, q)
        BY <1>1, <3>1, <3>2 DEF TimerOK
      <4> QED
        BY <2>1, <2>2, <3>1, <4>1, <4>2, NoTimeout
    <3>3. CASE q # p
      <4>1. timer'[q] = timer[q]
        BY <2>1, <3>3 DEF Inv, Types
      <4> QED
        BY <1>1, <2>1, <3>1, <3>3, <4>1 DEF TimerOK
    <3> QED
      BY <3>2, <3>3
  <2> QED
    BY <1>1, <2>3, <2>4, SameQueue
<1>3. CASE timer[p].interval # 0
  <2>1. timer' = timer /\ softcall' = softcall /\ looping' = TRUE
    BY <1>3 DEF Realitexpire
  <2> QED
    BY <1>1, <2>1 DEF StepOK, Inv, Types
<1> QED
  BY <1>2, <1>3

(* A timer reloads itself, or finds its next time past.                     *)
LEMMA RealitLoopStep ==
  ASSUME TableSize, Inv, NEW p \in Proc, RealitLoop(p) PROVE StepOK
<1> DEFINE left == timer[p].left + timer[p].interval
           r == [timer[p] EXCEPT !.left = left]
<1>1. /\ softcall = p /\ timer' = [timer EXCEPT ![p].left = left]
      /\ UNCHANGED <<softpending, alive, stepped>>
  BY DEF RealitLoop
<1>2. /\ TimerOK(calltodo, p, timer[p], alive[p], softcall, stepped)
      /\ timer[p] \in Timer /\ left \in Int /\ p # NoCall /\ p \in Client
  BY InvParts, NoCallApart
<1>3. r \in Timer /\ r.set = timer[p].set /\ r.left = left
  <2> HIDE DEF left
  <2> QED
    BY <1>2 DEF Timer
<1>4. /\ timer' \in [Proc -> Timer] /\ timer'[p] = r
      /\ \A q \in Proc : q # p => timer'[q] = timer[q]
  <2>1. timer' = [timer EXCEPT ![p] = r]
    BY <1>1, Zenon
  <2> HIDE DEF r
  <2> QED
    BY <1>3, <2>1 DEF Inv, Types
<1>5. timer[p].set /\ ~Scheduled(calltodo, p) /\ alive[p] = TRUE
  BY <1>1, <1>2 DEF TimerOK, Inv, Types
<1>6. CASE left > 0
  <2>1. timeout(calltodo, callfree, p, hzto(left)) /\ softcall' = NoCall /\ looping' = FALSE
    BY <1>6 DEF RealitLoop
  <2>2. hzto(left) \in Int /\ Apart(left, Ticks(hzto(left)))
    BY <1>2, <1>6, TicksNear
  <2> HIDE DEF left, r
  <2>3. Cardinality(Places(calltodo, p)) < Share(p)
    BY <1>5, SingleCounted DEF Share, Inv, QueueOK
  <2>4. \A q \in Proc : Single(calltodo, q)
    BY DEF Inv, TimerOK
  <2>5. /\ panicked' = panicked /\ QueueOK(calltodo', callfree')
        /\ \E i : Grown(calltodo, calltodo', i, p, Ticks(hzto(left)))
    BY <1>2, <2>1, <2>2, <2>3, <2>4, TimeoutGrows DEF Inv
  <2>6. PICK i : Grown(calltodo, calltodo', i, p, Ticks(hzto(left)))
    BY <2>5
  <2>7. ASSUME NEW q \in Proc
        PROVE  TimerOK(calltodo', q, timer'[q], alive'[q], softcall', stepped')
    <3>1. q # NoCall
      BY NoCallApart
    <3>2. CASE q = p
      BY <1>1, <1>3, <1>4, <1>5, <2>1, <2>2, <2>6, <3>1, <3>2, OwnTimeout
    <3>3. CASE q # p
      <4>1. TimerOK(calltodo, q, timer[q], alive[q], softcall, stepped)
        BY InvParts
      <4>2. TimerOK(calltodo', q, timer[q], alive[q], softcall, stepped)
        BY <2>6, <3>3, <4>1, OtherTimer
      <4> QED
        BY <1>1, <1>4, <2>1, <3>1, <3>3, <4>2 DEF TimerOK
    <3> QED
      BY <3>2, <3>3
  <2>8. Types'
    BY <1>1, <1>4, <2>1 DEF Inv, Types
  <2> QED
    BY <2>5, <2>7, <2>8 DEF StepOK, Inv
<1>7. CASE ~(left > 0)
  <2>1. UNCHANGED <<calltodo, callfree, panicked, softcall, looping>>
    BY <1>7 DEF RealitLoop
  <2> HIDE DEF left, r
  <2>2. Types'
    BY <1>1, <1>4, <2>1 DEF Inv, Types
  <2>3. ASSUME NEW q \in Proc
        PROVE  TimerOK(calltodo, q, timer'[q], alive'[q], softcall', stepped')
    <3>1. CASE q = p
      BY <1>1, <1>3, <1>4, <1>5, <2>1, <3>1, NoTimeout
    <3>2. CASE q # p
      BY <1>1, <1>4, <2>1, <3>2, InvParts
    <3> QED
      BY <3>1, <3>2
  <2> QED
    BY <2>1, <2>2, <2>3, SameQueue
<1> QED
  BY <1>6, <1>7

(* A request of a driver, which has less than its share, is granted and     *)
(* disturbs no timer.                                                       *)
LEMMA DriverAsks ==
  ASSUME TableSize, Inv, NEW d \in Driver, Armed(d) < MaxArmed, NEW ticks \in Delays,
         timeout(calltodo, callfree, d, ticks)
  PROVE  /\ panicked' = FALSE /\ QueueOK(calltodo', callfree')
         /\ \A p \in Proc : TimerOK(calltodo', p, timer[p], alive[p], softcall, stepped)
<1>1. d \in Client /\ d \notin Proc /\ ticks \in Int
  BY TimerAssumption
<1>2. Cardinality(Places(calltodo, d)) < Share(d)
  BY <1>1 DEF Armed, Entries, Places, Share
<1>3. \A q \in Proc : Single(calltodo, q)
  BY DEF Inv, TimerOK
<1>4. /\ panicked' = panicked /\ QueueOK(calltodo', callfree')
      /\ \E i : Grown(calltodo, calltodo', i, d, Ticks(ticks))
  BY <1>1, <1>2, <1>3, TimeoutGrows DEF Inv
<1>5. PICK i : Grown(calltodo, calltodo', i, d, Ticks(ticks))
  BY <1>4
<1>6. ASSUME NEW p \in Proc
      PROVE  TimerOK(calltodo', p, timer[p], alive[p], softcall, stepped)
  BY <1>1, <1>5, InvParts, OtherTimer
<1> QED
  BY <1>4, <1>6 DEF Inv

(* The function of a driver is called, and may ask again.                   *)
LEMMA DriverCallStep ==
  ASSUME TableSize, Inv, NEW d \in Driver, NEW ticks \in Delays, DriverCall(d, ticks)
  PROVE  StepOK
<1>1. /\ softcall = d /\ softcall' = NoCall
      /\ UNCHANGED <<softpending, timer, alive, looping, stepped>>
  BY DEF DriverCall
<1>2. Types'
  BY <1>1 DEF Inv, Types
<1>3. /\ panicked' = FALSE /\ QueueOK(calltodo', callfree')
      /\ \A p \in Proc : TimerOK(calltodo', p, timer[p], alive[p], softcall, stepped)
  <2>1. CASE UNCHANGED <<calltodo, callfree, panicked>>
    BY <2>1 DEF Inv
  <2>2. CASE Armed(d) < MaxArmed /\ timeout(calltodo, callfree, d, ticks)
    BY <2>2, DriverAsks
  <2> QED
    BY <2>1, <2>2 DEF DriverCall
<1>4. ASSUME NEW p \in Proc
      PROVE  TimerOK(calltodo', p, timer'[p], alive'[p], softcall', stepped')
  <2>1. p # d /\ p # NoCall
    BY NoCallApart
  <2> QED
    BY <1>1, <1>3, <2>1 DEF TimerOK
<1> QED
  BY <1>2, <1>3, <1>4 DEF StepOK

(* A driver asks from its interrupt handler.                                *)
LEMMA DriverTimeoutStep ==
  ASSUME TableSize, Inv, NEW d \in Driver, NEW ticks \in Delays, DriverTimeout(d, ticks)
  PROVE  StepOK
<1>1. /\ UNCHANGED <<softpending, softcall, timer, alive, looping, stepped>>
      /\ Armed(d) < MaxArmed /\ timeout(calltodo, callfree, d, ticks)
  BY DEF DriverTimeout
<1>2. Types'
  BY <1>1 DEF Inv, Types
<1> QED
  BY <1>1, <1>2, DriverAsks DEF StepOK

(* A driver takes a request back.                                           *)
LEMMA DriverUntimeoutStep ==
  ASSUME Inv, NEW d \in Driver, DriverUntimeout(d) PROVE StepOK
<1>1. /\ UNCHANGED <<softpending, softcall, timer, alive, looping, stepped, panicked>>
      /\ calltodo' = Delete(calltodo, d)
      /\ callfree' = FreeWithout(calltodo, callfree, d)
  BY DEF DriverUntimeout, untimeout
<1>2. QueueOK(calltodo', callfree')
  BY <1>1, UntimeoutShrinks DEF Inv
<1>3. ASSUME NEW p \in Proc
      PROVE  TimerOK(calltodo', p, timer[p], alive[p], softcall, stepped)
  <2>1. p # d /\ QueueOK(calltodo, callfree)
    BY NoCallApart DEF Inv
  <2>2. TimerOK(calltodo, p, timer[p], alive[p], softcall, stepped)
    BY InvParts
  <2> QED
    BY <1>1, <2>1, <2>2, OtherUntimeout
<1>4. Types'
  BY <1>1 DEF Inv, Types
<1> QED
  BY <1>1, <1>2, <1>3, <1>4 DEF StepOK, Inv

(* The callout of a process is cancelled and its timer set to r.            *)
LEMMA CancelStep ==
  ASSUME Inv, NEW p \in Proc, NEW r \in Timer, ~r.set, softcall = NoCall,
         timer' = [timer EXCEPT ![p] = r], untimeout(p), alive' \in [Proc -> BOOLEAN],
         \A q \in Proc : q # p => alive'[q] = alive[q],
         UNCHANGED <<softpending, softcall, looping, stepped>>
  PROVE  StepOK
<1>1. /\ calltodo' = Delete(calltodo, p) /\ panicked' = panicked
      /\ callfree' = FreeWithout(calltodo, callfree, p)
  BY DEF untimeout
<1>2. /\ timer' \in [Proc -> Timer] /\ timer'[p] = r
      /\ \A q \in Proc : q # p => timer'[q] = timer[q]
  BY DEF Inv, Types
<1>3. QueueOK(calltodo, callfree) /\ QueueOK(calltodo', callfree')
  BY <1>1, UntimeoutShrinks DEF Inv
<1>4. ASSUME NEW q \in Proc
      PROVE  TimerOK(calltodo', q, timer'[q], alive'[q], softcall', stepped')
  <2>1. TimerOK(calltodo, q, timer[q], alive[q], softcall, stepped) /\ q # NoCall
    BY InvParts, NoCallApart
  <2>2. CASE q = p
    <3>1. ~Scheduled(calltodo', p)
      BY <1>1, <1>3, <2>1, <2>2, OwnUntimeout DEF TimerOK
    <3> QED
      BY <1>2, <2>1, <2>2, <3>1, NoTimeout
  <2>3. CASE q # p
    <3>1. TimerOK(calltodo', q, timer[q], alive[q], softcall, stepped)
      BY <1>1, <1>3, <2>1, <2>3, OtherUntimeout
    <3> QED
      BY <1>2, <2>3, <3>1
  <2> QED
    BY <2>2, <2>3
<1>5. Types'
  BY <1>2 DEF Inv, Types
<1> QED
  BY <1>1, <1>3, <1>4, <1>5 DEF StepOK, Inv

(* exit1().                                                                 *)
LEMMA ExitStep ==
  ASSUME Inv, NEW p \in Proc, Exit(p) PROVE StepOK
<1>1. /\ softcall = NoCall /\ untimeout(p) /\ alive' = [alive EXCEPT ![p] = FALSE]
      /\ timer' = [timer EXCEPT ![p] = Unset]
      /\ UNCHANGED <<softpending, softcall, looping, stepped>>
  BY DEF Exit, AtBase
<1>2. Unset \in Timer /\ ~Unset.set
  BY DEF Unset, Timer
<1>3. /\ alive' \in [Proc -> BOOLEAN]
      /\ \A q \in Proc : q # p => alive'[q] = alive[q]
  BY <1>1 DEF Inv, Types
<1> QED
  BY <1>1, <1>2, <1>3, CancelStep

(* setitimer() with a time: the old callout goes, the new one comes.        *)
LEMMA RearmStep ==
  ASSUME TableSize, Inv, NEW p \in Proc, alive[p], softcall = NoCall,
         NEW r \in Timer, r.set, r.left > 0,
         timer' = [timer EXCEPT ![p] = r],
         timeout(Delete(calltodo, p), FreeWithout(calltodo, callfree, p), p, hzto(r.left)),
         UNCHANGED <<softpending, softcall, alive, looping, stepped>>
  PROVE  StepOK
<1> DEFINE Q == Delete(calltodo, p)
           free == FreeWithout(calltodo, callfree, p)
<1>1. /\ timer' \in [Proc -> Timer] /\ timer'[p] = r
      /\ \A q \in Proc : q # p => timer'[q] = timer[q]
  BY DEF Inv, Types
<1>2. QueueOK(calltodo, callfree) /\ QueueOK(Q, free)
  BY UntimeoutShrinks DEF Inv
<1>3. \A q \in Proc : TimerOK(calltodo, q, timer[q], alive[q], softcall, stepped)
  BY DEF Inv
<1>4. ~Scheduled(Q, p) /\ Single(Q, p)
  BY <1>2, <1>3, OwnUntimeout DEF TimerOK
<1>5. \A q \in Proc : q # p => TimerOK(Q, q, timer[q], alive[q], softcall, stepped)
  BY <1>2, <1>3, OtherUntimeout
<1>6. \A q \in Proc : Single(Q, q)
  BY <1>4, <1>5 DEF TimerOK
<1>7. r.left \in Int /\ hzto(r.left) \in Int /\ Apart(r.left, Ticks(hzto(r.left)))
  <2>1. r.left \in Nat
    BY DEF Timer
  <2> QED
    BY <2>1, TicksNear
<1>8. p \in Client /\ timeout(Q, free, p, hzto(r.left))
  BY NoCallApart
<1> HIDE DEF Q, free
<1>9. Cardinality(Places(Q, p)) < Share(p)
  BY <1>2, <1>4, SingleCounted DEF Share, QueueOK
<1>10. /\ panicked' = panicked /\ QueueOK(calltodo', callfree')
       /\ \E i : Grown(Q, calltodo', i, p, Ticks(hzto(r.left)))
  BY <1>2, <1>6, <1>7, <1>8, <1>9, TimeoutGrows
<1>11. PICK i : Grown(Q, calltodo', i, p, Ticks(hzto(r.left)))
  BY <1>10
<1>12. ASSUME NEW q \in Proc
       PROVE  TimerOK(calltodo', q, timer'[q], alive'[q], softcall', stepped')
  <2>1. q # NoCall
    BY NoCallApart
  <2>2. CASE q = p
    <3>1. alive'[q] = TRUE
      BY <2>2 DEF Inv, Types
    <3> QED
      BY <1>1, <1>4, <1>7, <1>11, <2>1, <2>2, <3>1, OwnTimeout
  <2>3. CASE q # p
    <3>1. TimerOK(calltodo', q, timer[q], alive[q], softcall, stepped)
      BY <1>5, <1>11, <2>3, OtherTimer
    <3> QED
      BY <1>1, <2>3, <3>1
  <2> QED
    BY <2>2, <2>3
<1>13. Types'
  BY <1>1 DEF Inv, Types
<1> QED
  BY <1>10, <1>12, <1>13 DEF StepOK, Inv

(* setitimer().                                                             *)
LEMMA SetitimerStep ==
  ASSUME TableSize, Inv, NEW p \in Proc, NEW value \in Nat, NEW interval \in Nat,
         Setitimer(p, value, interval)
  PROVE  StepOK
<1> DEFINE r == [set |-> value # 0, left |-> itimerfix(value), interval |-> itimerfix(interval)]
<1>1. /\ itimerfix(value) \in Nat /\ itimerfix(interval) \in Nat
      /\ value # 0 => itimerfix(value) > 0
  BY DEF itimerfix, tick
<1>2. r \in Timer /\ r.set = (value # 0) /\ r.left = itimerfix(value)
  BY <1>1 DEF Timer
<1>3. /\ alive[p] /\ softcall = NoCall /\ timer' = [timer EXCEPT ![p] = r]
      /\ UNCHANGED <<softpending, softcall, alive, looping, stepped>>
  BY DEF Setitimer, AtBase
<1>4. CASE value # 0
  <2>1. timeout(Delete(calltodo, p), FreeWithout(calltodo, callfree, p), p, hzto(itimerfix(value)))
    BY <1>4 DEF Setitimer
  <2> HIDE DEF r
  <2>2. timeout(Delete(calltodo, p), FreeWithout(calltodo, callfree, p), p, hzto(r.left))
    BY <1>2, <2>1
  <2> QED
    BY <1>1, <1>2, <1>3, <1>4, <2>2, RearmStep
<1>5. CASE value = 0
  <2>1. untimeout(p)
    BY <1>5 DEF Setitimer
  <2> HIDE DEF r
  <2>2. /\ alive' \in [Proc -> BOOLEAN]
        /\ \A q \in Proc : q # p => alive'[q] = alive[q]
    BY <1>3 DEF Inv, Types
  <2> QED
    BY <1>2, <1>3, <1>5, <2>1, <2>2, CancelStep
<1> QED
  BY <1>4, <1>5

(* settime().                                                               *)
LEMMA SettimeStep ==
  ASSUME Inv, NEW by \in Steps, Settime(by) PROVE StepOK
<1>1. /\ timer' = Moved(by) /\ stepped' = TRUE
      /\ UNCHANGED <<calltodo, callfree, softpending, softcall, panicked, alive, looping>>
  BY DEF Settime
<1>2. by \in Int
  BY TimerAssumption
<1>3. ASSUME NEW p \in Proc
      PROVE  /\ timer'[p] \in Timer
             /\ TimerOK(calltodo, p, timer'[p], alive'[p], softcall', stepped')
  <2>1. timer'[p] = IF timer[p].set THEN [timer[p] EXCEPT !.left = @ - by] ELSE timer[p]
    BY <1>1 DEF Moved
  <2>2. /\ TimerOK(calltodo, p, timer[p], alive[p], softcall, stepped)
        /\ timer[p] \in Timer /\ timer[p].left \in Int
    BY InvParts
  <2>3. timer'[p] \in Timer /\ timer'[p].set = timer[p].set
    BY <1>2, <2>1, <2>2 DEF Timer
  <2> QED
    BY <1>1, <2>2, <2>3 DEF TimerOK
<1>4. Types'
  <2>1. timer' = [p \in Proc |-> timer'[p]]
    BY <1>1 DEF Moved
  <2>2. timer' \in [Proc -> Timer]
    BY <1>3, <2>1
  <2> QED
    BY <1>1, <2>2 DEF Inv, Types
<1> QED
  BY <1>1, <1>3, <1>4, SameQueue
-----------------------------------------------------------------------------
(* The theorems.                                                            *)

(* Nothing is on the queue when the system starts.                          *)
LEMMA InitInv == Init => Inv
<1> SUFFICES ASSUME Init PROVE Inv
  OBVIOUS
<1>1. /\ calltodo = <<>> /\ callfree = NCallout /\ softpending = FALSE /\ softcall = NoCall
      /\ panicked = FALSE /\ timer = [p \in Proc |-> Unset]
      /\ alive = [p \in Proc |-> TRUE] /\ looping = FALSE /\ stepped = FALSE
  BY DEF Init, CInit
<1>2. Unset \in Timer /\ Unset.set = FALSE
  BY DEF Unset, Timer
<1>3. calltodo \in Seq(Entry) /\ Len(calltodo) = 0
  BY <1>1
<1>4. \A c : Places(calltodo, c) = {}
  BY <1>3 DEF Places
<1>5. QueueOK(calltodo, callfree)
  <2>1. \A c : Cardinality(Places(calltodo, c)) = 0
    BY <1>4, FS_EmptySet
  <2>2. Ordered(calltodo)
    BY <1>3 DEF Ordered
  <2> QED
    BY <1>1, <1>3, <2>1, <2>2, CalloutAssumption, TimerAssumption DEF QueueOK
<1>6. ASSUME NEW p \in Proc
      PROVE  TimerOK(calltodo, p, timer[p], alive[p], softcall, stepped)
  <2>1. p # NoCall /\ timer[p] = Unset /\ ~Scheduled(calltodo, p)
    BY <1>1, <1>4, NoCallApart, ScheduledPlaces
  <2> QED
    BY <1>1, <1>2, <2>1, NoTimeout
<1>7. Types
  BY <1>1, <1>2 DEF Types
<1> QED
  BY <1>1, <1>5, <1>6, <1>7 DEF Inv

(* Every step keeps the invariant.                                          *)
LEMMA NextInv ==
  ASSUME TableSize, Inv, [Next]_vars
  PROVE  Inv'
<1>1. SUFFICES StepOK
  BY DEF StepOK, Inv
<1>2. CASE Hardclock
  BY <1>2, HardclockStep
<1>3. CASE Softclock
  BY <1>3, SoftclockStep
<1>4. CASE \E p \in Proc : Realitexpire(p)
  BY <1>4, RealitexpireStep
<1>5. CASE \E p \in Proc : RealitLoop(p)
  BY <1>5, RealitLoopStep
<1>6. CASE \E p \in Proc : \E s \in Settings : Setitimer(p, s[1], s[2])
  BY <1>6, SetitimerStep, TimerAssumption
<1>7. CASE \E p \in Proc : Exit(p)
  BY <1>7, ExitStep
<1>8. CASE \E by \in Steps : Settime(by)
  BY <1>8, SettimeStep
<1>9. CASE \E d \in Driver : \E ticks \in Delays : DriverCall(d, ticks)
  BY <1>9, DriverCallStep
<1>10. CASE \E d \in Driver : \E ticks \in Delays : DriverTimeout(d, ticks)
  BY <1>10, DriverTimeoutStep
<1>11. CASE \E d \in Driver : DriverUntimeout(d)
  BY <1>11, DriverUntimeoutStep
<1>12. CASE UNCHANGED vars
  BY <1>12 DEF vars, StepOK, Inv, Types
<1> QED
  BY <1>2, <1>3, <1>4, <1>5, <1>6, <1>7, <1>8, <1>9, <1>10, <1>11, <1>12 DEF Next

(* The callout queue and the interval timers keep the invariant.            *)
THEOREM Invariance ==
  ASSUME TableSize PROVE Spec => []Inv
<1>1. Inv /\ [Next]_vars => Inv'
  BY NextInv
<1> QED
  BY <1>1, InitInv, PTL DEF Spec

(* A table of ncallout entries, one for the timer of each process and one   *)
(* for each request a driver may make, is never used up: timeout() does not *)
(* panic, and every entry is on the queue or on the free list.              *)
THEOREM TableSoundHolds ==
  ASSUME TableSize PROVE Spec => []TableSound
<1>1. Inv => TableSound
  <2> SUFFICES ASSUME Inv PROVE TableSound
    OBVIOUS
  <2>1. /\ calltodo \in Seq(Entry) /\ callfree \in Nat /\ callfree + Len(calltodo) = NCallout
        /\ Len(calltodo) \in Nat /\ panicked = FALSE
    BY LenNat DEF Inv, QueueOK
  <2>2. \A i \in 1 .. Len(calltodo) : calltodo[i].c \in Client /\ calltodo[i].t \in Int
    BY <2>1, EntryType
  <2>3. callfree \in 0 .. NCallout
    BY <2>1, CalloutAssumption
  <2>4. \A p \in Proc : timer[p].set \in BOOLEAN /\ timer[p].left \in Int /\ timer[p].interval \in Nat
    BY InvParts
  <2>5. TypeOK
    BY <2>1, <2>2, <2>3, <2>4 DEF TypeOK, Inv, Types
  <2> QED
    BY <2>1, <2>5 DEF TableSound, TableSuffices
<1> QED
  BY <1>1, Invariance, PTL

(* Every timer that is set has one callout, on the queue or being called;   *)
(* realitexpire() is not called for one that is off or gone; and while      *)
(* nobody sets the clock the callout is less than a tick from its time.     *)
THEOREM TimersKeptHolds ==
  ASSUME TableSize PROVE Spec => []TimersKept
<1>1. Inv => TimersKept
  <2> SUFFICES ASSUME Inv PROVE TimersKept
    OBVIOUS
  <2>1. ASSUME NEW p \in Proc
        PROVE  /\ TimerOK(calltodo, p, timer[p], alive[p], softcall, stepped)
               /\ Entries(p) = Places(calltodo, p)
               /\ Scheduled(calltodo, p) <=> Entries(p) # {}
    BY InvParts, ScheduledPlaces DEF Entries, Places
  <2>2. OneCallout
    <3>1. ASSUME NEW p \in Proc, Entries(p) # {}
          PROVE  \E i \in 1 .. Len(calltodo) : Entries(p) = {i}
      <4>1. PICK i \in Entries(p) : TRUE
        BY <3>1
      <4>2. Entries(p) = {i} /\ i \in 1 .. Len(calltodo)
        BY <2>1, <4>1 DEF TimerOK, Single, Entries
      <4> QED
        BY <4>2
    <3> QED
      BY <2>1, <3>1 DEF OneCallout, TimerOK
  <2>3. ExpiryWanted
    BY <2>1 DEF ExpiryWanted, TimerOK
  <2>4. InStep
    <3> SUFFICES ASSUME NEW p \in Proc, ~stepped, NEW i \in Entries(p)
                 PROVE  timer[p].left - tick * Remaining(i) \in -(tick - 1) .. tick - 1
      BY DEF InStep
    <3>1. i \in 1 .. Len(calltodo) /\ calltodo \in Seq(Entry)
      BY DEF Entries, Inv, QueueOK
    <3>2. Apart(timer[p].left, Left(calltodo, i))
      BY <2>1 DEF TimerOK, Near
    <3>3. Remaining(i) = Left(calltodo, i)
      BY <3>1, InvParts, LeftRemaining
    <3> QED
      BY <3>2, <3>3 DEF Apart
  <2> QED
    BY <2>2, <2>3, <2>4 DEF TimersKept
<1> QED
  BY <1>1, Invariance, PTL
=============================================================================
