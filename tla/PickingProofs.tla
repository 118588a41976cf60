----------------------------- MODULE PickingProofs -----------------------------
(* For any releases, files, requests, links and limits: however the opens answer,  *)
(* what is played is on the best rung of what was looked at and first in order,    *)
(* nothing the list calls a "no" is played, nothing passing condemns a file, and   *)
(* its playlist is cut at its keyframes.                                           *)
EXTENDS Picking, SequenceTheorems, FiniteSetTheorems, WellFoundedInduction, TLAPS

Listed == ToSet(List)

LEMMA ListIs == List \in Seq(Rel) /\ \A i, j \in DOMAIN List : List[i] = List[j] => i = j
BY PickingAssumption

LEMMA LimitsAre == ParallelOpens \in Nat \ {0} /\ MaxTries \in Nat \ {0}
BY PickingAssumption

-----------------------------------------------------------------------------
(* Numbers *)

\* What holds of 0, and of the next number where it holds of one, holds of all.
LEMMA Counting == ASSUME NEW S, 0 \in S, \A n \in Nat : n \in S => n + 1 \in S PROVE Nat \subseteq S
<1> SUFFICES ASSUME Nat \ S # {} PROVE FALSE
  OBVIOUS
<1>1. \E m \in Nat \ S : \A k \in Nat \ S : <<k, m>> \notin OpToRel(<, Nat)
  BY NatLessThanWellFounded, WFMin
<1>2. PICK m \in Nat \ S : \A k \in Nat \ S : ~(k < m)
  BY <1>1 DEF OpToRel
<1>3. m # 0 /\ m - 1 \in Nat /\ m - 1 < m /\ (m - 1) + 1 = m
  BY <1>2
<1>4. m - 1 \in S
  BY <1>2, <1>3
<1> QED BY <1>2, <1>3, <1>4

LEMMA MostOf ==
  ASSUME NEW s, s \subseteq Int, s # {}, NEW b \in Int, \A k \in s : k <= b
  PROVE  Max(s) \in s /\ \A k \in s : k <= Max(s)
<1> DEFINE back == {b - k : k \in s}
<1>1. back \subseteq Nat /\ back # {}
  <2>1. \A k \in s : b - k \in Nat
    OBVIOUS
  <2> QED BY <2>1
<1>2. \E m \in back : \A k \in back : <<k, m>> \notin OpToRel(<, Nat)
  BY <1>1, NatLessThanWellFounded, WFMin
<1>3. PICK m \in back : \A k \in back : ~(k < m)
  BY <1>1, <1>2 DEF OpToRel
<1>4. PICK x \in s : m = b - x
  OBVIOUS
<1>5. \A k \in s : k <= x
  <2> SUFFICES ASSUME NEW k \in s PROVE k <= x
    OBVIOUS
  <2>1. b - k \in back
    OBVIOUS
  <2>2. ~(b - k < b - x)
    BY <1>3, <1>4, <2>1
  <2>3. k \in Int /\ x \in Int
    OBVIOUS
  <2> QED BY <2>2, <2>3
<1>6. \E y \in s : \A k \in s : y >= k
  <2>1. \A k \in s : x >= k
    BY <1>5
  <2> QED BY <2>1
<1> QED BY <1>6 DEF Max

\* The last of some places.
LEMMA LastOf ==
  ASSUME NEW n \in Nat, NEW s, s \subseteq 1..n, s # {}
  PROVE  Max(s) \in s /\ \A k \in s : k <= Max(s)
<1>1. s \subseteq Int /\ n \in Int /\ \A k \in s : k <= n
  OBVIOUS
<1> QED BY <1>1, MostOf

LEMMA LargestIs ==
  ASSUME NEW S, S \subseteq Int, NEW b \in Int, \A k \in S : k <= b, NEW x \in Nat, x \in S
  PROVE  Largest(S) \in Nat /\ Largest(S) \in S
<1>1. S # {}
  OBVIOUS
<1>2. Max(S) \in S /\ x <= Max(S)
  BY <1>1, MostOf
<1>3. Max(S) \in Int
  BY <1>2
<1> QED BY <1>1, <1>2, <1>3 DEF Largest

LEMMA Bounded ==
  ASSUME NEW N \in Nat, NEW g, \A i \in 1..N : g[i] \in Int
  PROVE  \E b \in Nat : \A i \in 1..N : g[i] <= b
<1> DEFINE S == {n \in Nat : n <= N => \E b \in Nat : \A i \in 1..n : g[i] <= b}
<1>1. 0 \in S
  OBVIOUS
<1>2. ASSUME NEW n \in Nat, n \in S PROVE n + 1 \in S
  <2> SUFFICES ASSUME n + 1 <= N PROVE \E b \in Nat : \A i \in 1..(n + 1) : g[i] <= b
    OBVIOUS
  <2>1. PICK b \in Nat : \A i \in 1..n : g[i] <= b
    BY <1>2
  <2>2. g[n + 1] \in Int
    OBVIOUS
  <2> DEFINE c == IF g[n + 1] > b THEN g[n + 1] ELSE b
  <2>3. c \in Nat /\ b <= c /\ g[n + 1] <= c
    BY <2>2
  <2> HIDE DEF c
  <2>4. \A i \in 1..(n + 1) : g[i] <= c
    <3> SUFFICES ASSUME NEW i \in 1..(n + 1) PROVE g[i] <= c
      OBVIOUS
    <3>1. CASE i = n + 1
      BY <2>3, <3>1
    <3>2. CASE i # n + 1
      <4>1. i \in 1..n /\ i \in 1..N
        BY <3>2
      <4> QED BY <2>1, <2>3, <4>1
    <3> QED BY <3>1, <3>2
  <2> QED BY <2>3, <2>4
<1>3. N \in S
  <2>1. \A n \in Nat : n \in S => n + 1 \in S
    BY <1>2
  <2> HIDE DEF S
  <2>2. Nat \subseteq S
    BY <1>1, <2>1, Counting
  <2> QED BY <2>2
<1> QED BY <1>3

LEMMA BoundedTwice ==
  ASSUME NEW N \in Nat, NEW g, \A i, j \in 1..N : g[i][j] \in Int
  PROVE  \E b \in Nat : \A i, j \in 1..N : g[i][j] <= b
<1> DEFINE h == [i \in 1..N |-> CHOOSE b \in Nat : \A j \in 1..N : g[i][j] <= b]
<1>1. ASSUME NEW i \in 1..N PROVE h[i] \in Nat /\ \A j \in 1..N : g[i][j] <= h[i]
  <2>1. \A j \in 1..N : g[i][j] \in Int
    OBVIOUS
  <2>2. \E b \in Nat : \A j \in 1..N : g[i][j] <= b
    BY <2>1, Bounded
  <2> QED BY <2>2
<1>2. \A i \in 1..N : h[i] \in Int
  BY <1>1
<1> HIDE DEF h
<1>3. PICK b \in Nat : \A i \in 1..N : h[i] <= b
  BY <1>2, Bounded
<1>4. ASSUME NEW i \in 1..N, NEW j \in 1..N PROVE g[i][j] <= b
  <2>1. g[i][j] \in Int /\ h[i] \in Nat /\ g[i][j] <= h[i] /\ h[i] <= b
    BY <1>1, <1>3
  <2> QED BY <2>1
<1> QED BY <1>4

LEMMA QuotientIs ==
  ASSUME NEW x \in Int, NEW y \in Nat \ {0}
  PROVE  x \div y \in Int /\ (x >= 0 => x \div y \in Nat)
<1> DEFINE q == x \div y
<1>1. x = y * q + (x % y) /\ x % y \in 0..(y - 1) /\ q \in Int
  OBVIOUS
<1> HIDE DEF q
<1>2. ASSUME x >= 0, q <= -1 PROVE FALSE
  <2>1. y * q <= -y
    BY <1>1, <1>2
  <2> QED BY <1>1, <1>2, <2>1
<1>3. x >= 0 => q >= 0
  BY <1>1, <1>2
<1> QED BY <1>1, <1>3 DEF q

-----------------------------------------------------------------------------
(* Folds *)

\* What is made step by step of the first n, in all of N.
Stepped(f, N, X, base, g) ==
  /\ f \in [SUBSET (1..N) -> X]
  /\ \A s \in SUBSET (1..N) : f[s] = IF s = {} THEN base ELSE g[f[s \ {Max(s)}]][Max(s)]

LEMMA StepsExist ==
  ASSUME NEW X, NEW base \in X, NEW N \in Nat, NEW g, \A x \in X, i \in 1..N : g[x][i] \in X
  PROVE  \E f : Stepped(f, N, X, base, g)
<1> DEFINE Upto(n) == {s \in SUBSET (1..N) : Cardinality(s) <= n}
           Holds(f, n) == /\ f \in [Upto(n) -> X]
                          /\ \A s \in Upto(n) : f[s] = IF s = {} THEN base ELSE g[f[s \ {Max(s)}]][Max(s)]
           S == {n \in Nat : \E f : Holds(f, n)}
<1>1. \A s \in SUBSET (1..N) : IsFiniteSet(s) /\ Cardinality(s) \in Nat
  <2>1. IsFiniteSet(1..N)
    BY FS_Interval
  <2>2. \A s \in SUBSET (1..N) : IsFiniteSet(s)
    BY <2>1, FS_Subset
  <2> QED BY <2>2, FS_CardinalityType
<1>2. ASSUME NEW n \in Nat, NEW s \in Upto(n), s # {}
      PROVE  /\ Max(s) \in 1..N
             /\ s \ {Max(s)} \in Upto(n) /\ (n > 0 => s \ {Max(s)} \in Upto(n - 1))
  <2>1. Max(s) \in s
    BY <1>2, LastOf
  <2>2. Cardinality(s \ {Max(s)}) = Cardinality(s) - 1
    BY <1>1, <2>1, FS_RemoveElement
  <2>3. s \in SUBSET (1..N) /\ Cardinality(s) \in Nat /\ Cardinality(s) <= n
    BY <1>1
  <2>4. s \ {Max(s)} \in SUBSET (1..N) /\ Max(s) \in 1..N
    BY <2>1, <2>3
  <2>5. Cardinality(s) - 1 <= n /\ Cardinality(s) - 1 <= n - 1
    BY <2>3
  <2> QED BY <2>2, <2>4, <2>5
<1>3. 0 \in S
  <2> DEFINE f == [s \in Upto(0) |-> base]
  <2>1. ASSUME NEW s \in Upto(0) PROVE s = {}
    <3>1. IsFiniteSet(s) /\ Cardinality(s) \in Nat /\ Cardinality(s) <= 0
      BY <1>1
    <3>2. Cardinality(s) = 0
      BY <3>1
    <3> QED BY <3>1, <3>2, FS_EmptySet
  <2>2. Holds(f, 0)
    BY <2>1
  <2>3. \E h : Holds(h, 0)
    BY <2>2
  <2> HIDE DEF Holds
  <2> QED BY <2>3
<1>4. ASSUME NEW n \in Nat, n \in S PROVE n + 1 \in S
  <2>1. PICK f : Holds(f, n)
    BY <1>4
  <2> DEFINE h == [s \in Upto(n + 1) |-> IF s = {} THEN base ELSE g[f[s \ {Max(s)}]][Max(s)]]
  <2>2. ASSUME NEW s \in Upto(n + 1), s # {} PROVE s \ {Max(s)} \in Upto(n) /\ Max(s) \in 1..N
    <3>1. n + 1 \in Nat /\ n + 1 > 0 /\ (n + 1) - 1 = n
      OBVIOUS
    <3> QED BY <1>2, <2>2, <3>1
  <2>3. h \in [Upto(n + 1) -> X]
    <3> SUFFICES ASSUME NEW s \in Upto(n + 1), s # {} PROVE g[f[s \ {Max(s)}]][Max(s)] \in X
      OBVIOUS
    <3>1. f[s \ {Max(s)}] \in X /\ Max(s) \in 1..N
      BY <2>1, <2>2
    <3> QED BY <3>1
  <2>4. \A s \in Upto(n) : s \in Upto(n + 1) /\ h[s] = f[s]
    <3> SUFFICES ASSUME NEW s \in Upto(n) PROVE s \in Upto(n + 1) /\ h[s] = f[s]
      OBVIOUS
    <3>1. s \in Upto(n + 1)
      BY <1>1
    <3>2. f[s] = IF s = {} THEN base ELSE g[f[s \ {Max(s)}]][Max(s)]
      BY <2>1
    <3> QED BY <3>1, <3>2
  <2>5. ASSUME NEW s \in Upto(n + 1) PROVE h[s] = IF s = {} THEN base ELSE g[h[s \ {Max(s)}]][Max(s)]
    <3>1. s # {} => f[s \ {Max(s)}] = h[s \ {Max(s)}]
      BY <2>2, <2>4
    <3>2. h[s] = IF s = {} THEN base ELSE g[f[s \ {Max(s)}]][Max(s)]
      OBVIOUS
    <3> QED BY <3>1, <3>2
  <2>6. Holds(h, n + 1)
    BY <2>3, <2>5
  <2>7. \E x : Holds(x, n + 1)
    BY <2>6
  <2> HIDE DEF Holds
  <2> QED BY <2>7
<1>5. N \in S
  <2>1. \A n \in Nat : n \in S => n + 1 \in S
    BY <1>4
  <2> HIDE DEF S
  <2>2. Nat \subseteq S
    BY <1>3, <2>1, Counting
  <2> QED BY <2>2
<1>6. Upto(N) = SUBSET (1..N)
  <2>1. IsFiniteSet(1..N) /\ Cardinality(1..N) = N
    BY FS_Interval
  <2>2. ASSUME NEW s \in SUBSET (1..N) PROVE Cardinality(s) <= N
    <3>1. Cardinality(s) <= Cardinality(1..N)
      BY <2>1, FS_Subset
    <3> QED BY <2>1, <3>1
  <2>3. Upto(N) = SUBSET (1..N)
    BY <2>2
  <2> QED BY <2>3
<1>7. PICK f : Holds(f, N)
  BY <1>5
<1> QED BY <1>6, <1>7 DEF Stepped

\* A sum, bits on bits.
Summing(f, bits) == f = [s \in SUBSET DOMAIN bits |-> IF s = {} THEN 0 ELSE f[s \ {Max(s)}] + bits[Max(s)]]

LEMMA SumIs == ASSUME NEW bits PROVE Total(bits) = (CHOOSE f : Summing(f, bits))[DOMAIN bits]
BY DEF Total, FoldLeft, MapThenFoldSet, Summing

LEMMA TotalIs == ASSUME NEW bits \in Seq(Nat) PROVE Total(bits) \in Nat
<1> DEFINE N == Len(bits)
           g == [b \in Nat |-> [k \in 1..N |-> b + bits[k]]]
<1>1. N \in Nat /\ DOMAIN bits = 1..N /\ \A i \in 1..N : bits[i] \in Nat
  OBVIOUS
<1> HIDE DEF N
<1>2. \A b \in Nat, k \in 1..N : g[b][k] = b + bits[k] /\ g[b][k] \in Nat
  BY <1>1
<1> HIDE DEF g
<1>3. PICK f \in [SUBSET (1..N) -> Nat] :
        \A s \in SUBSET (1..N) : f[s] = IF s = {} THEN 0 ELSE g[f[s \ {Max(s)}]][Max(s)]
  <2> DEFINE X == Nat
             base == 0
  <2>1. base \in X /\ \A b \in X, k \in 1..N : g[b][k] \in X
    BY <1>2
  <2> HIDE DEF X, base
  <2>2. \E f : Stepped(f, N, X, base, g)
    BY <1>1, <2>1, StepsExist
  <2> QED BY <2>2 DEF X, base, Stepped
<1>4. ASSUME NEW s \in SUBSET (1..N), s # {} PROVE Max(s) \in 1..N /\ s \ {Max(s)} \in SUBSET (1..N)
  BY <1>1, <1>4, LastOf
<1>5. Summing(f, bits)
  <2>1. ASSUME NEW s \in SUBSET (1..N) PROVE f[s] = IF s = {} THEN 0 ELSE f[s \ {Max(s)}] + bits[Max(s)]
    <3>1. s # {} => g[f[s \ {Max(s)}]][Max(s)] = f[s \ {Max(s)}] + bits[Max(s)]
      BY <1>2, <1>4
    <3> QED BY <1>3, <3>1
  <2> QED BY <1>1, <2>1 DEF Summing
<1> DEFINE h == CHOOSE x : Summing(x, bits)
<1>6. Summing(h, bits)
  BY <1>5
<1>7. Total(bits) = h[1..N]
  BY <1>1, SumIs
<1> HIDE DEF h
<1>8. \A s \in SUBSET (1..N) : h[s] = IF s = {} THEN 0 ELSE h[s \ {Max(s)}] + bits[Max(s)]
  BY <1>1, <1>6 DEF Summing
<1> DEFINE S == {n \in Nat : n <= N => h[1..n] \in Nat}
<1>9. 0 \in S
  <2>1. 1..0 = {}
    OBVIOUS
  <2>2. h[{}] = 0
    BY <1>8
  <2> QED BY <2>1, <2>2
<1>10. ASSUME NEW n \in Nat, n \in S PROVE n + 1 \in S
  <2> SUFFICES ASSUME n + 1 <= N PROVE h[1..(n + 1)] \in Nat
    OBVIOUS
  <2> DEFINE s == 1..(n + 1)
  <2>1. s \in SUBSET (1..N) /\ s # {} /\ n + 1 \in s /\ n + 1 \in 1..N /\ n + 1 \in Nat
    <3>1. n + 1 \in s /\ n + 1 \in 1..N
      BY <1>1
    <3>2. ASSUME NEW i \in s PROVE i \in 1..N
      <4>1. i \in Nat /\ 1 <= i /\ i <= n + 1 /\ n + 1 <= N
        OBVIOUS
      <4> QED BY <1>1, <4>1
    <3>3. \A i \in s : i \in 1..N
      BY <3>2
    <3>4. n + 1 \in Nat
      OBVIOUS
    <3> HIDE DEF s
    <3> QED BY <3>1, <3>3, <3>4
  <2>2. Max(s) \in s /\ n + 1 <= Max(s)
    BY <2>1, LastOf
  <2>3. Max(s) = n + 1 /\ s \ {n + 1} = 1..n
    BY <2>2
  <2>4. h[s] = h[1..n] + bits[n + 1]
    BY <1>8, <2>1, <2>3
  <2>5. h[1..n] \in Nat
    BY <1>1, <1>10
  <2> QED BY <1>1, <2>1, <2>4, <2>5
<1>11. N \in S
  <2>1. \A n \in Nat : n \in S => n + 1 \in S
    BY <1>10
  <2> HIDE DEF S
  <2>2. Nat \subseteq S
    BY <1>9, <2>1, Counting
  <2> QED BY <1>1, <2>2
<1> QED BY <1>1, <1>7, <1>11

-----------------------------------------------------------------------------
(* The segments *)

LEMMA NextIs ==
  ASSUME NEW t \in Nat
  PROVE  /\ NextTarget(t) \in Nat /\ t < NextTarget(t) /\ NextTarget(0) = Target
         /\ \A m \in Nat : t < m * Target => NextTarget(t) <= m * Target
         /\ \E m \in Nat \ {0} : NextTarget(t) = m * Target
<1> DEFINE q == t \div Target
<1>1. t = Target * q + (t % Target) /\ t % Target \in 0..(Target - 1) /\ q \in Int
  BY TimesAssumption
<1>2. Target \in Nat /\ Target > 0
  BY TimesAssumption
<1> HIDE DEF q
<1>3. q >= 0
  <2> SUFFICES ASSUME q <= -1 PROVE FALSE
    BY <1>1
  <2>1. Target * q <= -Target
    BY <1>1, <1>2
  <2> QED BY <1>1, <1>2, <2>1
<1>4. NextTarget(t) = (q + 1) * Target
  BY DEF NextTarget, q
<1>5. (q + 1) * Target = Target * q + Target
  BY <1>1, <1>2
<1>6. Target * q \in Nat
  BY <1>1, <1>2, <1>3
<1>7. ASSUME NEW m \in Nat, t < m * Target PROVE NextTarget(t) <= m * Target
  <2>1. m > q
    <3> SUFFICES ASSUME m <= q PROVE FALSE
      BY <1>1
    <3>1. m * Target <= Target * q
      BY <1>1, <1>2, <1>3
    <3> QED BY <1>1, <1>2, <1>6, <1>7, <3>1
  <2>2. m >= q + 1
    BY <1>1, <2>1
  <2>3. m * Target >= (q + 1) * Target
    BY <1>1, <1>2, <1>3, <2>2
  <2> QED BY <1>4, <2>3
<1>8. NextTarget(0) = Target
  <2>1. 0 \div Target = 0
    BY <1>2
  <2> QED BY <1>2, <2>1 DEF NextTarget
<1> QED BY <1>1, <1>2, <1>3, <1>4, <1>5, <1>6, <1>7, <1>8

\* The fold over the keyframes, one at a time: what is cut after each.
CutAt(a, k, duration) ==
  IF k > 0 /\ k < duration /\ k >= a.next
  THEN [cuts |-> Append(a.cuts, k), next |-> NextTarget(k)] ELSE a
NoCut == [cuts |-> <<0>>, next |-> Target]
Upon(f, s, keys, duration) == IF s = {} THEN NoCut ELSE CutAt(f[s \ {Max(s)}], keys[Max(s)], duration)
FoldsTo(f, keys, duration) == f = [s \in SUBSET DOMAIN keys |-> Upon(f, s, keys, duration)]

LEMMA FoldIs ==
  ASSUME NEW keys, NEW duration
  PROVE  Segments(keys, duration) = Between((CHOOSE f : FoldsTo(f, keys, duration))[DOMAIN keys].cuts, duration)
BY DEF Segments, FoldLeft, MapThenFoldSet, FoldsTo, Upon, CutAt, NoCut

LEMMA FoldExists ==
  ASSUME NEW duration, NEW keys \in Seq(Int)
  PROVE  \E f : FoldsTo(f, keys, duration)
<1> DEFINE N == Len(keys)
           X == [cuts : Seq(Int), next : Int]
           g == [a \in X |-> [n \in 1..N |-> CutAt(a, keys[n], duration)]]
<1>1. N \in Nat /\ DOMAIN keys = 1..N /\ \A n \in 1..N : keys[n] \in Int
  OBVIOUS
<1> HIDE DEF N
<1>2. NoCut \in X
  <2>1. <<0>> \in Seq(Int) /\ Target \in Int
    BY TimesAssumption
  <2> QED BY <2>1 DEF NoCut
<1>3. ASSUME NEW a \in X, NEW n \in 1..N
      PROVE  g[a][n] = CutAt(a, keys[n], duration) /\ CutAt(a, keys[n], duration) \in X
  <2> DEFINE k == keys[n]
  <2>1. k \in Int
    BY <1>1
  <2> HIDE DEF k
  <2>2. ASSUME k > 0 PROVE [cuts |-> Append(a.cuts, k), next |-> NextTarget(k)] \in X
    <3>1. NextTarget(k) \in Int
      BY <2>1, <2>2, NextIs
    <3>2. Append(a.cuts, k) \in Seq(Int)
      BY <2>1
    <3> QED BY <3>1, <3>2
  <2>3. CutAt(a, k, duration) \in X
    BY <2>2 DEF CutAt
  <2> QED BY <2>3 DEF k
<1> HIDE DEF X, g
<1>4. \A a \in X, n \in 1..N : g[a][n] \in X
  BY <1>3
<1>5. PICK f : Stepped(f, N, X, NoCut, g)
  BY <1>1, <1>2, <1>4, StepsExist
<1>6. ASSUME NEW s \in SUBSET (1..N) PROVE f[s] = Upon(f, s, keys, duration)
  <2>1. f[s] = IF s = {} THEN NoCut ELSE g[f[s \ {Max(s)}]][Max(s)]
    BY <1>5 DEF Stepped
  <2>2. ASSUME s # {} PROVE g[f[s \ {Max(s)}]][Max(s)] = CutAt(f[s \ {Max(s)}], keys[Max(s)], duration)
    <3>1. Max(s) \in 1..N /\ s \ {Max(s)} \in SUBSET (1..N)
      BY <1>1, <2>2, LastOf
    <3>2. f[s \ {Max(s)}] \in X
      BY <1>5, <3>1 DEF Stepped
    <3> QED BY <1>3, <3>1, <3>2
  <2> QED BY <2>1, <2>2 DEF Upon
<1>7. f = [s \in SUBSET (1..N) |-> f[s]]
  BY <1>5 DEF Stepped
<1>8. f = [s \in SUBSET (1..N) |-> Upon(f, s, keys, duration)]
  BY <1>6, <1>7
<1>9. FoldsTo(f, keys, duration)
  BY <1>1, <1>8 DEF FoldsTo
<1> QED BY <1>9

LEMMA AfterEach ==
  ASSUME NEW duration, NEW keys \in Seq(Int), NEW N \in Nat, DOMAIN keys = 1..N
  PROVE  \E a : /\ a[0] = NoCut
                /\ \A n \in 1..N : a[n] = CutAt(a[n - 1], keys[n], duration)
                /\ Segments(keys, duration) = Between(a[N].cuts, duration)
<1> DEFINE f == CHOOSE f : FoldsTo(f, keys, duration)
           a == [n \in 0..N |-> f[1..n]]
<1>1. FoldsTo(f, keys, duration)
  BY FoldExists
<1>2. Segments(keys, duration) = Between(f[DOMAIN keys].cuts, duration)
  BY FoldIs
<1> HIDE DEF f
<1>3. \A s \in SUBSET (1..N) : f[s] = Upon(f, s, keys, duration)
  BY <1>1 DEF FoldsTo
<1>4. a[0] = NoCut
  <2>1. 1..0 = {} /\ 0 \in 0..N
    OBVIOUS
  <2>2. f[{}] = NoCut
    BY <1>3 DEF Upon
  <2>3. a[0] = f[1..0]
    BY <2>1
  <2> QED BY <2>1, <2>2, <2>3
<1>5. ASSUME NEW n \in 1..N PROVE a[n] = CutAt(a[n - 1], keys[n], duration)
  <2>1. 1..n \in SUBSET (1..N) /\ n \in 1..n /\ n \in 0..N /\ n - 1 \in 0..N /\ n \in Nat
    OBVIOUS
  <2>2. Max(1..n) \in 1..n /\ n <= Max(1..n)
    BY <2>1, LastOf
  <2>3. Max(1..n) = n
    BY <2>1, <2>2
  <2>4. (1..n) \ {n} = 1..(n - 1)
    OBVIOUS
  <2>5. f[1..n] = CutAt(f[1..(n - 1)], keys[n], duration)
    <3>1. 1..n # {}
      BY <2>1
    <3>2. f[1..n] = Upon(f, 1..n, keys, duration)
      BY <1>3, <2>1
    <3> QED BY <2>3, <2>4, <3>1, <3>2 DEF Upon
  <2>6. a[n] = f[1..n] /\ a[n - 1] = f[1..(n - 1)]
    BY <2>1
  <2> QED BY <2>5, <2>6
<1>6. a[N] = f[DOMAIN keys]
  OBVIOUS
<1> QED BY <1>2, <1>4, <1>5, <1>6

Ascends(keys) == \A i, j \in DOMAIN keys : i < j => keys[i] < keys[j]

\* The keyframes among the first n that can be cut at; what is cut so far ends every stretch
\* at the first of them past its target.
Seen(keys, n, duration) == {k \in {keys[j] : j \in 1..n} : 0 < k /\ k < duration}
CutWell(a, K) ==
  /\ a.cuts \in Seq(Nat) /\ Len(a.cuts) >= 1 /\ a.cuts[1] = 0 /\ a.next = NextTarget(a.cuts[Len(a.cuts)])
  /\ \A i \in 2..Len(a.cuts) :
       /\ a.cuts[i] \in K /\ NextTarget(a.cuts[i - 1]) <= a.cuts[i]
       /\ \A k \in K : NextTarget(a.cuts[i - 1]) <= k => a.cuts[i] <= k
  /\ \A k \in K : k < a.next

LEMMA CutsOn ==
  ASSUME NEW duration \in Nat \ {0}, NEW K, K \subseteq Nat, NEW a, CutWell(a, K),
         NEW k \in Int, \A x \in K : x < k,
         NEW L, L = K \cup (IF 0 < k /\ k < duration THEN {k} ELSE {})
  PROVE  CutWell(CutAt(a, k, duration), L)
<1> DEFINE n == Len(a.cuts)
           taken == k > 0 /\ k < duration /\ k >= a.next
           b == [cuts |-> Append(a.cuts, k), next |-> NextTarget(k)]
<1>1. /\ a.cuts \in Seq(Nat) /\ n \in Nat /\ n >= 1 /\ a.cuts[1] = 0 /\ a.next = NextTarget(a.cuts[n])
      /\ \A x \in K : x < a.next
      /\ \A i \in 1..n : a.cuts[i] \in Nat
  BY DEF CutWell
<1>2. \A i \in 2..n :
        /\ a.cuts[i] \in K /\ NextTarget(a.cuts[i - 1]) <= a.cuts[i]
        /\ \A x \in K : NextTarget(a.cuts[i - 1]) <= x => a.cuts[i] <= x
  BY DEF CutWell
<1>3. ASSUME NEW i \in 2..n
      PROVE  /\ a.cuts[i] \in L /\ NextTarget(a.cuts[i - 1]) <= a.cuts[i]
             /\ \A x \in L : NextTarget(a.cuts[i - 1]) <= x => a.cuts[i] <= x
  <2>1. a.cuts[i] \in K /\ a.cuts[i] < k /\ a.cuts[i] \in Nat
    BY <1>2
  <2>2. ASSUME NEW x \in L, NextTarget(a.cuts[i - 1]) <= x PROVE a.cuts[i] <= x
    <3>1. x \in K \/ x = k
      OBVIOUS
    <3>2. x \in K => a.cuts[i] <= x
      BY <1>2, <2>2
    <3>3. x = k => a.cuts[i] <= x
      BY <2>1
    <3> QED BY <3>1, <3>2, <3>3
  <2> QED BY <1>2, <2>1, <2>2
<1>4. CASE ~taken
  <2>1. CutAt(a, k, duration) = a
    BY <1>4 DEF CutAt
  <2>2. a.next \in Nat
    <3>1. a.cuts[n] \in Nat
      BY <1>1
    <3> QED BY <1>1, <3>1, NextIs
  <2>3. \A x \in L : x < a.next
    BY <1>1, <1>4, <2>2
  <2>4. CutWell(a, L)
    BY <1>1, <1>3, <2>3 DEF CutWell
  <2> QED BY <2>1, <2>4
<1>5. CASE taken
  <2>1. CutAt(a, k, duration) = b /\ k \in L /\ k \in Nat
    BY <1>5 DEF CutAt
  <2>2. /\ b.cuts \in Seq(Nat) /\ Len(b.cuts) = n + 1 /\ b.cuts[n + 1] = k /\ b.next = NextTarget(k)
        /\ \A i \in 1..n : b.cuts[i] = a.cuts[i]
    BY <1>1, <2>1
  <2> HIDE DEF b
  <2>3. ASSUME NEW i \in 2..(n + 1)
        PROVE  /\ b.cuts[i] \in L /\ NextTarget(b.cuts[i - 1]) <= b.cuts[i]
               /\ \A x \in L : NextTarget(b.cuts[i - 1]) <= x => b.cuts[i] <= x
    <3>1. CASE i \in 2..n
      <4>1. i \in 1..n /\ i - 1 \in 1..n
        BY <1>1, <3>1
      <4>2. b.cuts[i] = a.cuts[i] /\ b.cuts[i - 1] = a.cuts[i - 1]
        BY <2>2, <4>1
      <4> QED BY <1>3, <3>1, <4>2
    <3>2. CASE i = n + 1
      <4>1. i - 1 = n /\ n \in 1..n
        BY <1>1, <3>2
      <4>2. b.cuts[i] = k /\ NextTarget(b.cuts[i - 1]) = a.next
        BY <1>1, <2>2, <3>2, <4>1
      <4>3. ASSUME NEW x \in L, a.next <= x PROVE k <= x
        <5>1. a.next \in Nat
          <6>1. a.cuts[n] \in Nat
            BY <1>1
          <6> QED BY <1>1, <6>1, NextIs
        <5>2. x \notin K
          BY <1>1, <4>3, <5>1
        <5> QED BY <2>1, <5>2
      <4> QED BY <1>5, <2>1, <4>2, <4>3
    <3> QED BY <1>1, <3>1, <3>2
  <2>4. \A x \in L : x < b.next
    <3>1. NextTarget(k) \in Nat /\ k < NextTarget(k)
      BY <2>1, NextIs
    <3>2. \A x \in L : x \in Nat /\ x <= k
      BY <2>1
    <3> QED BY <2>1, <2>2, <3>1, <3>2
  <2>5. CutWell(b, L)
    <3>1. b.cuts[1] = 0 /\ Len(b.cuts) >= 1 /\ b.next = NextTarget(b.cuts[Len(b.cuts)])
      BY <1>1, <2>2
    <3> QED BY <2>2, <2>3, <2>4, <3>1 DEF CutWell
  <2> QED BY <2>1, <2>5
<1> QED BY <1>4, <1>5

LEMMA CutsAre ==
  ASSUME NEW duration \in Nat \ {0}, NEW keys \in Seq(Int), Ascends(keys)
  PROVE  \E a : CutWell(a, Seen(keys, Len(keys), duration)) /\ Segments(keys, duration) = Between(a.cuts, duration)
<1> DEFINE N == Len(keys)
<1>1. DOMAIN keys = 1..N /\ N \in Nat /\ \A n \in 1..N : keys[n] \in Int
  OBVIOUS
<1>2. PICK a : /\ a[0] = NoCut
               /\ \A n \in 1..N : a[n] = CutAt(a[n - 1], keys[n], duration)
               /\ Segments(keys, duration) = Between(a[N].cuts, duration)
  BY <1>1, AfterEach
<1> DEFINE S == {n \in Nat : n <= N => CutWell(a[n], Seen(keys, n, duration))}
<1>3. 0 \in S
  <2>1. Seen(keys, 0, duration) = {}
    BY DEF Seen
  <2>2. CutWell(NoCut, {})
    <3>1. <<0>> \in Seq(Nat) /\ Len(<<0>>) = 1 /\ <<0>>[1] = 0
      OBVIOUS
    <3>2. NextTarget(0) = Target
      BY NextIs
    <3> QED BY <3>1, <3>2 DEF CutWell, NoCut
  <2> QED BY <1>2, <2>1, <2>2
<1>4. ASSUME NEW n \in Nat, n \in S PROVE n + 1 \in S
  <2> SUFFICES ASSUME n + 1 <= N PROVE CutWell(a[n + 1], Seen(keys, n + 1, duration))
    OBVIOUS
  <2> DEFINE K == Seen(keys, n, duration)
             k == keys[n + 1]
  <2>1. CutWell(a[n], K) /\ n + 1 \in 1..N /\ (n + 1) - 1 = n /\ k \in Int
    BY <1>1, <1>4
  <2>2. a[n + 1] = CutAt(a[n], k, duration)
    BY <1>2, <2>1
  <2>3. \A j \in 1..n : keys[j] \in Int /\ keys[j] < k
    <3> SUFFICES ASSUME NEW j \in 1..n PROVE keys[j] \in Int /\ keys[j] < k
      OBVIOUS
    <3>1. j \in DOMAIN keys /\ n + 1 \in DOMAIN keys /\ j < n + 1
      BY <1>1, <2>1
    <3> QED BY <1>1, <3>1 DEF Ascends
  <2>4. \A x \in K : x \in Nat /\ x < k
    BY <2>3 DEF Seen
  <2>5. Seen(keys, n + 1, duration) = K \cup (IF 0 < k /\ k < duration THEN {k} ELSE {})
    <3>1. 1..(n + 1) = 1..n \cup {n + 1}
      OBVIOUS
    <3>2. {keys[j] : j \in 1..(n + 1)} = {keys[j] : j \in 1..n} \cup {k}
      BY <3>1
    <3> QED BY <3>2 DEF Seen
  <2> DEFINE L == Seen(keys, n + 1, duration)
  <2>6. K \subseteq Nat /\ \A x \in K : x < k
    BY <2>4
  <2>7. CutWell(a[n], K) /\ k \in Int /\ L = K \cup (IF 0 < k /\ k < duration THEN {k} ELSE {})
    BY <2>1, <2>5
  <2> HIDE DEF K, k, L
  <2>8. CutWell(CutAt(a[n], k, duration), L)
    BY <2>6, <2>7, CutsOn
  <2> QED BY <2>2, <2>8 DEF L
<1>5. N \in S
  <2>1. \A n \in Nat : n \in S => n + 1 \in S
    BY <1>4
  <2> HIDE DEF S
  <2>2. Nat \subseteq S
    BY <1>3, <2>1, Counting
  <2> QED BY <1>1, <2>2
<1>6. CutWell(a[N], Seen(keys, N, duration))
  BY <1>1, <1>5
<1> QED BY <1>2, <1>6

Inside(keys, duration) == {k \in ToSet(keys) : 0 < k /\ k < duration}
Beyond(K, duration, t) == {k \in K : \E m \in 1..duration : t < m * Target /\ m * Target <= k}

\* The ordinary segments, one after another, each up to the first keyframe past its target.
Plainly(p, n, keys, duration) ==
  /\ n \in Nat \ {0} /\ DOMAIN p = 1..n /\ p[1].start = 0
  /\ \A i \in 1..n :
       /\ p[i] = [start |-> p[i].start, end |-> p[i].end]
       /\ p[i].start \in Inside(keys, duration) \cup {0} /\ p[i].start < p[i].end
       /\ p[i].end = duration \/ (p[i].end \in Inside(keys, duration) /\ NextTarget(p[i].start) <= p[i].end)
       /\ \A k \in Inside(keys, duration) : NextTarget(p[i].start) <= k => p[i].end <= k
       /\ p[i].end # duration => \E j \in 1..n : p[j].start = p[i].end
  /\ \A i, j \in 1..n : i < j => p[i].end <= p[j].start

LEMMA PlainIs ==
  ASSUME NEW duration \in Nat \ {0}, NEW keys \in Seq(Int), Ascends(keys),
         NEW p, p = Segments(keys, duration)
  PROVE  \E n : Plainly(p, n, keys, duration)
<1> DEFINE K == Inside(keys, duration)
<1>1. PICK a : CutWell(a, Seen(keys, Len(keys), duration)) /\ p = Between(a.cuts, duration)
  BY CutsAre
<1>2. Seen(keys, Len(keys), duration) = K
  <2>1. ToSet(keys) = {keys[j] : j \in 1..Len(keys)}
    BY DEF ToSet
  <2> QED BY <2>1 DEF Seen, Inside
<1>3. K \subseteq Nat /\ \A k \in K : k < duration
  <2>1. \A k \in ToSet(keys) : k \in Int
    BY DEF ToSet
  <2> QED BY <2>1 DEF Inside
<1> DEFINE c == a.cuts
           n == Len(c)
<1> HIDE DEF K
<1>4. /\ c \in Seq(Nat) /\ n >= 1 /\ c[1] = 0
      /\ \A i \in 2..n : /\ c[i] \in K /\ NextTarget(c[i - 1]) <= c[i]
                         /\ \A k \in K : NextTarget(c[i - 1]) <= k => c[i] <= k
      /\ \A k \in K : k < NextTarget(c[n])
  <2>1. \A k \in K : k < a.next
    BY <1>1, <1>2 DEF CutWell
  <2>2. a.next = NextTarget(c[n])
    BY <1>1 DEF CutWell
  <2> QED BY <1>1, <1>2, <2>1, <2>2 DEF CutWell
<1>5. n \in Nat \ {0} /\ DOMAIN c = 1..n /\ \A i \in 1..n : c[i] \in Nat
  BY <1>4
<1>6. /\ DOMAIN p = 1..n
      /\ \A i \in 1..n : /\ p[i].start = c[i] /\ p[i].end = IF i < n THEN c[i + 1] ELSE duration
                        /\ p[i] = [start |-> p[i].start, end |-> p[i].end]
  BY <1>1, <1>5 DEF Between
<1> HIDE DEF c, n
<1>7. \A i \in 1..n : NextTarget(c[i]) \in Nat /\ c[i] < NextTarget(c[i])
  BY <1>5, NextIs
<1>8. \A i \in 1..n : c[i] \in K \cup {0}
  <2> SUFFICES ASSUME NEW i \in 1..n PROVE c[i] \in K \cup {0}
    OBVIOUS
  <2>1. i = 1 \/ i \in 2..n
    BY <1>5
  <2> QED BY <1>4, <2>1
<1>9. ASSUME NEW i \in 1..n
      PROVE  /\ p[i].start \in K \cup {0} /\ p[i].start < p[i].end
             /\ p[i].end = duration \/ (p[i].end \in K /\ NextTarget(p[i].start) <= p[i].end)
             /\ \A k \in K : NextTarget(p[i].start) <= k => p[i].end <= k
             /\ p[i].end # duration => \E j \in 1..n : p[j].start = p[i].end
  <2>1. p[i].start = c[i] /\ c[i] \in K \cup {0}
    BY <1>6, <1>8
  <2>2. CASE i < n
    <3>1. i + 1 \in 2..n /\ i + 1 \in 1..n /\ (i + 1) - 1 = i
      BY <1>5, <2>2
    <3>2. p[i].end = c[i + 1] /\ p[i + 1].start = c[i + 1]
      BY <1>6, <2>2, <3>1
    <3>3. /\ c[i + 1] \in K /\ NextTarget(c[i]) <= c[i + 1] /\ c[i + 1] \in Nat
          /\ \A k \in K : NextTarget(c[i]) <= k => c[i + 1] <= k
      <4>1. c[i + 1] \in K /\ NextTarget(c[(i + 1) - 1]) <= c[i + 1]
            /\ \A k \in K : NextTarget(c[(i + 1) - 1]) <= k => c[i + 1] <= k
        BY <1>4, <3>1
      <4> QED BY <1>5, <3>1, <4>1
    <3>4. c[i] < c[i + 1]
      BY <1>5, <1>7, <3>3
    <3> QED BY <2>1, <3>1, <3>2, <3>3, <3>4
  <2>3. CASE ~(i < n)
    <3>1. i = n /\ p[i].end = duration
      BY <1>5, <1>6, <2>3
    <3>2. c[i] < duration
      <4>1. 0 < duration
        OBVIOUS
      <4> QED BY <1>3, <2>1, <4>1, Zenon
    <3>3. \A k \in K : k \in Nat /\ k < NextTarget(c[i])
      BY <1>3, <1>4, <3>1
    <3>4. \A k \in K : ~(NextTarget(c[i]) <= k)
      BY <1>7, <3>3
    <3> QED BY <2>1, <3>1, <3>2, <3>4
  <2> QED BY <2>2, <2>3
<1>10. ASSUME NEW i \in 1..n, NEW j \in 1..n, i < j PROVE p[i].end <= p[j].start
  <2> DEFINE S == {d \in Nat : i + 1 + d <= n => p[i].end <= p[i + 1 + d].start}
  <2>1. 0 \in S
    <3> SUFFICES ASSUME i + 1 <= n PROVE p[i].end <= p[i + 1 + 0].start
      OBVIOUS
    <3>1. p[i].end = c[i + 1] /\ p[i + 1].start = c[i + 1] /\ c[i + 1] \in Nat /\ i + 1 + 0 = i + 1
      BY <1>5, <1>6
    <3> QED BY <3>1
  <2>2. ASSUME NEW d \in Nat, d \in S PROVE d + 1 \in S
    <3> SUFFICES ASSUME i + 1 + (d + 1) <= n PROVE p[i].end <= p[i + 1 + (d + 1)].start
      OBVIOUS
    <3> DEFINE m == i + 1 + d
    <3>1. m \in 1..n /\ m < n /\ m + 1 \in 1..n /\ i + 1 + (d + 1) = m + 1
      BY <1>5
    <3>2. p[i].end <= p[m].start
      BY <2>2, <3>1
    <3> HIDE DEF m
    <3>3. p[m].end = p[m + 1].start /\ p[m].start < p[m].end
      BY <1>6, <1>9, <3>1
    <3>4. p[i].end \in Nat /\ p[m].start \in Nat /\ p[m + 1].start \in Nat
      <4>1. p[i].end = duration \/ p[i].end \in K
        BY <1>9
      <4> QED BY <1>3, <1>5, <1>6, <3>1, <4>1
    <3>5. p[i].end <= p[m + 1].start
      BY <3>2, <3>3, <3>4
    <3> QED BY <3>1, <3>5, Zenon
  <2>3. \A d \in Nat : d \in S => d + 1 \in S
    BY <2>2
  <2>4. j - (i + 1) \in Nat /\ i + 1 + (j - (i + 1)) = j
    BY <1>5, <1>10
  <2> DEFINE e == j - (i + 1)
  <2>5. e \in S
    <3> HIDE DEF S
    <3> QED BY <2>1, <2>3, <2>4, Counting
  <2> QED BY <1>5, <2>4, <2>5
<1>11. \A i, j \in 1..n : i < j => p[i].end <= p[j].start
  BY <1>10
<1>12. Plainly(p, n, keys, duration)
  <2> 1 \in 1..n
    BY <1>5
  <2>1. p[1].start = 0
    <3>1. p[1].start = c[1]
      BY <1>6
    <3> QED BY <1>4, <3>1, Zenon
  <2> QED BY <1>5, <1>6, <1>9, <1>11, <2>1 DEF K, Plainly
<1> QED BY <1>12

-----------------------------------------------------------------------------
(* What is asked of a link *)

\* The bytes of each segment are as many numbers, where the file has an index.
LEMMA BitsAre ==
  ASSUME NEW n \in Nat, NEW segs, DOMAIN segs = 1..n,
         \A i \in 1..n : segs[i].start \in Int /\ segs[i].end \in Int,
         NEW index \in Seq(Int \X Nat), NEW size \in Nat \cup {NoSize}
  PROVE  \/ SegmentBits(segs, index, size) = NoIndex
         \/ SegmentBits(segs, index, size) \in Seq(Nat) /\ Len(SegmentBits(segs, index, size)) = n
<1> DEFINE m == Len(index)
           first == index[1]
           last == index[m]
           Upto(t) == {i \in DOMAIN index : index[i][1] <= t}
           At(t) == IF Upto(t) = {} THEN first[2]
                    ELSE IF Max(Upto(t)) = m
                    THEN last[2] + ((t - last[1]) * (last[2] - first[2])) \div (last[1] - first[1])
                    ELSE index[Max(Upto(t))][2]
           bits == [i \in DOMAIN segs |-> Largest({0, At(segs[i].end) - At(segs[i].start)})]
           total == Total(bits)
           made == SegmentBits(segs, index, size)
           none == m < 2 \/ last[1] <= first[1] \/ last[2] <= first[2]
<1>1. made = IF none THEN NoIndex
             ELSE IF size = NoSize \/ total = 0 THEN bits
             ELSE [i \in DOMAIN bits |-> (bits[i] * size) \div total]
  BY DEF SegmentBits
<1> HIDE DEF made
<1> SUFFICES ASSUME ~none PROVE made \in Seq(Nat) /\ Len(made) = n
  <2> HIDE DEF none, bits, total
  <2>1. none => made = NoIndex
    BY <1>1
  <2> QED BY <2>1 DEF made
<1>20. m >= 2 /\ ~(last[1] <= first[1])
  OBVIOUS
<1>21. made = IF size = NoSize \/ total = 0 THEN bits
             ELSE [i \in DOMAIN bits |-> (bits[i] * size) \div total]
  <2> HIDE DEF none, bits, total
  <2> QED BY <1>1
<1> HIDE DEF none
<1>2. m \in Nat /\ DOMAIN index = 1..m /\ \A i \in 1..m : index[i][1] \in Int /\ index[i][2] \in Nat
  <2>1. \A i \in 1..m : index[i] \in Int \X Nat
    OBVIOUS
  <2> QED BY <2>1
<1> HIDE DEF m, bits
<1>3. /\ first[1] \in Int /\ first[2] \in Nat /\ last[1] \in Int /\ last[2] \in Nat
      /\ last[1] - first[1] \in Nat \ {0}
  <2>1. 1 \in 1..m /\ m \in 1..m
    BY <1>2, <1>20
  <2>2. /\ first[1] \in Int /\ first[2] \in Nat /\ last[1] \in Int /\ last[2] \in Nat
    BY <1>2, <2>1
  <2> HIDE DEF first, last
  <2> QED BY <1>20, <2>2
<1> HIDE DEF first, last
<1>4. ASSUME NEW t \in Int PROVE At(t) \in Int
  <2>1. CASE Upto(t) = {}
    BY <1>3, <2>1
  <2>2. CASE Upto(t) # {}
    <3>1. Upto(t) \subseteq 1..m
      BY <1>2
    <3> HIDE DEF Upto
    <3>2. Max(Upto(t)) \in 1..m
      BY <1>2, <2>2, <3>1, LastOf
    <3>3. index[Max(Upto(t))][2] \in Nat
      BY <1>2, <3>2
    <3> DEFINE x == (t - last[1]) * (last[2] - first[2])
    <3>4. x \in Int
      BY <1>3
    <3> HIDE DEF x
    <3>5. x \div (last[1] - first[1]) \in Int
      BY <1>3, <3>4, QuotientIs
    <3>6. last[2] + x \div (last[1] - first[1]) \in Int
      BY <1>3, <3>5
    <3> QED BY <2>2, <3>3, <3>6 DEF x
  <2> QED BY <2>1, <2>2
<1> HIDE DEF At
<1>5. bits \in Seq(Nat) /\ Len(bits) = n
  <2>1. ASSUME NEW i \in 1..n PROVE Largest({0, At(segs[i].end) - At(segs[i].start)}) \in Nat
    <3> DEFINE x == At(segs[i].end) - At(segs[i].start)
    <3>1. x \in Int
      <4>1. segs[i].start \in Int /\ segs[i].end \in Int
        OBVIOUS
      <4>2. At(segs[i].start) \in Int /\ At(segs[i].end) \in Int
        BY <1>4, <4>1
      <4> QED BY <4>2
    <3> HIDE DEF x
    <3>2. \E b \in Int : \A k \in {0, x} : k <= b
      <4>1. CASE x <= 0
        <5>1. \A k \in {0, x} : k <= 0
          BY <3>1, <4>1
        <5> QED BY <5>1
      <4>2. CASE ~(x <= 0)
        <5>1. \A k \in {0, x} : k <= x
          BY <3>1, <4>2
        <5> QED BY <3>1, <5>1
      <4> QED BY <4>1, <4>2
    <3>3. PICK b \in Int : \A k \in {0, x} : k <= b
      BY <3>2
    <3>4. {0, x} \subseteq Int /\ 0 \in {0, x}
      BY <3>1
    <3>5. Largest({0, x}) \in Nat
      <4> DEFINE S == {0, x}
      <4> HIDE DEF S
      <4> QED BY <3>3, <3>4, LargestIs DEF S
    <3> QED BY <3>5 DEF x
  <2>2. bits \in [1..n -> Nat]
    BY <2>1 DEF bits
  <2> HIDE DEF bits
  <2> QED BY <2>2
<1> HIDE DEF bits
<1>6. total \in Nat
  BY <1>5, TotalIs
<1> HIDE DEF total
<1>7. CASE size = NoSize \/ total = 0
  BY <1>5, <1>7, <1>21
<1>8. CASE size # NoSize /\ total # 0
  <2>1. size \in Nat /\ total \in Nat \ {0} /\ DOMAIN bits = 1..n /\ \A i \in 1..n : bits[i] \in Nat
    BY <1>5, <1>6, <1>8
  <2>2. ASSUME NEW i \in 1..n PROVE (bits[i] * size) \div total \in Nat
    <3> DEFINE x == bits[i] * size
    <3>1. x \in Nat
      BY <2>1
    <3> HIDE DEF x
    <3>2. x \in Int /\ x >= 0 /\ total \in Nat \ {0}
      BY <2>1, <3>1
    <3>3. x \div total \in Nat
      BY <3>2, QuotientIs
    <3> QED BY <3>3 DEF x
  <2>3. made = [i \in 1..n |-> (bits[i] * size) \div total]
    BY <1>8, <1>21, <2>1
  <2>4. made \in [1..n -> Nat]
    BY <2>2, <2>3
  <2> QED BY <2>4
<1> QED BY <1>7, <1>8

LEMMA StretchIs ==
  ASSUME NEW bits \in Seq(Nat), NEW j \in 1..Len(bits), NEW k \in 1..Len(bits)
  PROVE  Stretch(bits, j, k) \in Nat
<1>1. \A i \in j..k : bits[i] \in Nat
  OBVIOUS
<1>2. SubSeq(bits, j, k) \in Seq(Nat)
  BY <1>1, SubSeqProperties
<1> QED BY <1>2, TotalIs DEF Stretch

\* What is asked of a link is a rate, whatever the segments hold.
Timed(segs, n) ==
  /\ \A i \in 1..n : segs[i].start \in Nat
  /\ \A j, k \in 1..n : j <= k => segs[j].start <= segs[k].start

Buffering(buffer) == buffer.secs \in Nat \ {0} /\ buffer.bits \in Nat \cup {NoSize}

LEMMA StretchRateIs ==
  ASSUME NEW bits \in Seq(Nat), NEW segs, Timed(segs, Len(bits)), NEW from \in 1..Len(bits),
         NEW buffer, Buffering(buffer)
  PROVE  StretchRate(segs, bits, from, buffer) \in Nat
<1> DEFINE n == Len(bits)
           Span(j, k) == segs[k].start - segs[j].start
           u == [j \in 1..n |-> [k \in 1..n |->
                  IF j <= k THEN Stretch(bits, j, k) \div (buffer.secs + Span(j, k)) ELSE 0]]
           v == [j \in 1..n |-> [k \in 1..n |->
                  IF j <= k /\ buffer.bits # NoSize /\ Span(j, k) # 0
                  THEN (Stretch(bits, j, k) - buffer.bits) \div Span(j, k) ELSE 0]]
           Asked(j, k) == {Stretch(bits, j, k) \div (buffer.secs + Span(j, k))} \cup
                          (IF buffer.bits = NoSize \/ Span(j, k) = 0 THEN {}
                           ELSE {(Stretch(bits, j, k) - buffer.bits) \div Span(j, k)})
           pairs == {y \in (from..n) \X (from..n) : y[1] <= y[2]}
           S == {0} \cup UNION {Asked(x[1], x[2]) : x \in pairs}
<1>1. n \in Nat /\ from \in 1..n
  OBVIOUS
<1>2. ASSUME NEW j \in 1..n, NEW k \in 1..n, j <= k
      PROVE  /\ Span(j, k) \in Nat /\ Stretch(bits, j, k) \in Nat
             /\ Stretch(bits, j, k) \div (buffer.secs + Span(j, k)) \in Int
             /\ buffer.bits # NoSize /\ Span(j, k) # 0 =>
                  (Stretch(bits, j, k) - buffer.bits) \div Span(j, k) \in Int
  <2>1. Span(j, k) \in Nat
    BY <1>2 DEF Timed
  <2>2. Stretch(bits, j, k) \in Nat
    BY StretchIs
  <2> DEFINE d == Span(j, k)
             b == Stretch(bits, j, k)
  <2> HIDE DEF d, b
  <2>3. b \div (buffer.secs + d) \in Int
    <3>1. b \in Int /\ buffer.secs + d \in Nat \ {0}
      BY <2>1, <2>2 DEF b, d, Buffering
    <3> QED BY <3>1, QuotientIs
  <2>4. ASSUME buffer.bits # NoSize, d # 0 PROVE (b - buffer.bits) \div d \in Int
    <3>1. b - buffer.bits \in Int /\ d \in Nat \ {0}
      BY <2>1, <2>2, <2>4 DEF b, d, Buffering
    <3> QED BY <3>1, QuotientIs
  <2> QED BY <2>1, <2>2, <2>3, <2>4 DEF b, d
<1> HIDE DEF n
<1>3. \A j, k \in 1..n : u[j][k] \in Int /\ v[j][k] \in Int
  <2> SUFFICES ASSUME NEW j \in 1..n, NEW k \in 1..n PROVE u[j][k] \in Int /\ v[j][k] \in Int
    OBVIOUS
  <2> QED BY <1>2
<1>4. \A j, k \in 1..n : j <= k => \A x \in Asked(j, k) : x = u[j][k] \/ x = v[j][k]
  OBVIOUS
<1>5. StretchRate(segs, bits, from, buffer) = Largest(S)
  BY DEF StretchRate, n
<1>6. \A x \in S : x = 0 \/ \E j, k \in 1..n : x = u[j][k] \/ x = v[j][k]
  <2> SUFFICES ASSUME NEW x \in S, x # 0 PROVE \E j, k \in 1..n : x = u[j][k] \/ x = v[j][k]
    OBVIOUS
  <2> HIDE DEF Asked, u, v
  <2>1. PICK y \in pairs : x \in Asked(y[1], y[2])
    OBVIOUS
  <2>2. y[1] \in 1..n /\ y[2] \in 1..n /\ y[1] <= y[2]
    BY <1>1, <2>1
  <2> QED BY <1>4, <2>1, <2>2
<1> HIDE DEF u, v
<1>7. PICK b \in Nat : \A j, k \in 1..n : u[j][k] <= b
  BY <1>1, <1>3, BoundedTwice
<1>8. PICK c \in Nat : \A j, k \in 1..n : v[j][k] <= c
  BY <1>1, <1>3, BoundedTwice
<1>9. \A x \in S : x \in Int /\ x <= b + c
  <2> HIDE DEF S
  <2> SUFFICES ASSUME NEW x \in S PROVE x \in Int /\ x <= b + c
    OBVIOUS
  <2>1. CASE x = 0
    BY <2>1
  <2>2. CASE x # 0
    <3>1. PICK j \in 1..n, k \in 1..n : x = u[j][k] \/ x = v[j][k]
      BY <1>6, <2>2
    <3>2. u[j][k] \in Int /\ u[j][k] <= b /\ v[j][k] \in Int /\ v[j][k] <= c
      BY <1>3, <1>7, <1>8
    <3> QED BY <3>1, <3>2
  <2> QED BY <2>1, <2>2
<1>10. 0 \in S
  OBVIOUS
<1> HIDE DEF S
<1>11. S \subseteq Int /\ b + c \in Int /\ 0 \in Nat
  BY <1>9
<1> QED BY <1>5, <1>9, <1>10, <1>11, LargestIs

LEMMA NeededIs ==
  ASSUME NEW bits \in Seq(Nat), NEW segs, Timed(segs, Len(bits)), NEW from \in 1..Len(bits),
         NEW buffer, Buffering(buffer), NEW prebuffer \in Nat \ {0}
  PROVE  NeededRate(segs, bits, from, prebuffer, buffer) \in Nat
<1> DEFINE n == Len(bits)
           rate == StretchRate(segs, bits, from, buffer)
           g == [k \in 1..n |-> IF from <= k THEN Stretch(bits, from, k) \div (prebuffer + segs[k].start - segs[from].start) ELSE 0]
           S == {rate} \cup {Stretch(bits, from, k) \div (prebuffer + segs[k].start - segs[from].start) : k \in from..n}
<1>1. rate \in Nat /\ n \in Nat /\ from \in 1..n
  BY StretchRateIs
<1>2. ASSUME NEW k \in 1..n, from <= k
      PROVE  Stretch(bits, from, k) \div (prebuffer + segs[k].start - segs[from].start) \in Int
  <2>1. prebuffer + segs[k].start - segs[from].start \in Nat \ {0}
    BY <1>2 DEF Timed
  <2>2. Stretch(bits, from, k) \in Nat
    BY StretchIs
  <2> DEFINE d == prebuffer + segs[k].start - segs[from].start
             b == Stretch(bits, from, k)
  <2>3. d \in Nat \ {0} /\ b \in Int
    BY <2>1, <2>2
  <2> HIDE DEF d, b
  <2>4. b \div d \in Int
    BY <2>3, QuotientIs
  <2> QED BY <2>4 DEF b, d
<1>3. NeededRate(segs, bits, from, prebuffer, buffer) = Largest(S)
  BY DEF NeededRate
<1> HIDE DEF n, rate
<1>4. \A k \in 1..n : g[k] \in Int
  BY <1>2
<1>5. \A x \in S : x = rate \/ \E k \in 1..n : x = g[k]
  <2> SUFFICES ASSUME NEW x \in S, x # rate PROVE \E k \in 1..n : x = g[k]
    OBVIOUS
  <2>1. PICK k \in from..n : x = Stretch(bits, from, k) \div (prebuffer + segs[k].start - segs[from].start)
    OBVIOUS
  <2>2. k \in 1..n /\ from <= k
    BY <1>1
  <2>3. x = g[k]
    BY <2>1, <2>2
  <2> QED BY <2>2, <2>3
<1> HIDE DEF g
<1>6. PICK b \in Nat : \A k \in 1..n : g[k] <= b
  BY <1>1, <1>4, Bounded
<1>7. rate \in S
  OBVIOUS
<1> HIDE DEF S
<1>8. ASSUME NEW x \in S PROVE x \in Int /\ x <= b + rate
  <2>1. CASE x = rate
    BY <1>1, <2>1
  <2>2. CASE x # rate
    <3>1. PICK k \in 1..n : x = g[k]
      BY <1>5, <2>2
    <3>2. g[k] \in Int /\ g[k] <= b
      BY <1>4, <1>6
    <3> QED BY <1>1, <3>1, <3>2
  <2> QED BY <2>1, <2>2
<1>9. S \subseteq Int /\ b + rate \in Int /\ \A x \in S : x <= b + rate
  BY <1>1, <1>8
<1>10. Largest(S) \in Nat
  BY <1>1, <1>7, <1>9, LargestIs
<1> QED BY <1>3, <1>10

LEMMA DelayIs ==
  ASSUME NEW bits \in Seq(Nat), NEW segs, Timed(segs, Len(bits)), NEW from \in 1..Len(bits),
         NEW buffer, NEW rate \in Nat
  PROVE  StartupDelay(segs, bits, from, rate, buffer) \in Nat \cup {NoIndex}
<1> DEFINE n == Len(bits)
           g == [k \in 1..n |-> IF from <= k THEN Stretch(bits, from, k) - rate * (segs[k].start - segs[from].start) ELSE 0]
           S == {0} \cup {Stretch(bits, from, k) - rate * (segs[k].start - segs[from].start) : k \in from..n}
           d == StartupDelay(segs, bits, from, rate, buffer)
<1>1. n \in Nat /\ from \in 1..n
  OBVIOUS
<1>2. ASSUME NEW k \in 1..n
      PROVE  Stretch(bits, from, k) - rate * (segs[k].start - segs[from].start) \in Int
  <2>1. segs[k].start - segs[from].start \in Int
    BY DEF Timed
  <2>2. Stretch(bits, from, k) \in Nat
    BY StretchIs
  <2> QED BY <2>1, <2>2
<1>3. d = NoIndex \/ d = Largest(S)
  BY DEF StartupDelay
<1> HIDE DEF n, d
<1>4. \A k \in 1..n : g[k] \in Int
  BY <1>2
<1>5. \A x \in S : x = 0 \/ \E k \in 1..n : x = g[k]
  <2> SUFFICES ASSUME NEW x \in S, x # 0 PROVE \E k \in 1..n : x = g[k]
    OBVIOUS
  <2>1. PICK k \in from..n : x = Stretch(bits, from, k) - rate * (segs[k].start - segs[from].start)
    OBVIOUS
  <2>2. k \in 1..n /\ from <= k
    BY <1>1
  <2>3. x = g[k]
    BY <2>1, <2>2
  <2> QED BY <2>2, <2>3
<1> HIDE DEF g
<1>6. PICK b \in Nat : \A k \in 1..n : g[k] <= b
  BY <1>1, <1>4, Bounded
<1>7. 0 \in S
  OBVIOUS
<1> HIDE DEF S
<1>8. ASSUME NEW x \in S PROVE x \in Int /\ x <= b
  <2>1. CASE x = 0
    BY <2>1
  <2>2. CASE x # 0
    <3>1. PICK k \in 1..n : x = g[k]
      BY <1>5, <2>2
    <3> QED BY <1>4, <1>6, <3>1
  <2> QED BY <2>1, <2>2
<1>9. S \subseteq Int /\ b \in Int /\ 0 \in Nat /\ \A x \in S : x <= b
  BY <1>8
<1>10. Largest(S) \in Nat
  BY <1>7, <1>9, LargestIs
<1> QED BY <1>3, <1>10 DEF d

LEMMA DeliveredIs == ASSUME NEW w \in Wants, NEW r \in Media PROVE Delivered(w, r) \in Nat \cup {NoSize}
<1> DEFINE file == File[r]
           track == file.audio[IF w.track \in DOMAIN file.audio THEN w.track ELSE file.picked]
           out == AudioPlan(track.codec, track.channels, w.player)
           audio == IF out = "copy" THEN track.bits ELSE AacRate[out] * file.duration
<1>1. /\ file.duration \in Nat /\ file.size \in Nat \cup {NoSize} /\ file.videoBits \in Nat \cup {NoSize}
      /\ track.bits \in Nat \cup {NoSize}
  BY FilmsAssumption
<1>2. Delivered(w, r) = IF file.videoBits = NoSize \/ audio = NoSize THEN file.size ELSE file.videoBits + audio
  BY DEF Delivered
<1> HIDE DEF track, file
<1>3. out = "copy" \/ out \in {"stereo", "5.1", "7.1"}
  BY DEF AudioPlan
<1> HIDE DEF out
<1>4. audio \in Nat \cup {NoSize}
  <2>1. ASSUME out # "copy" PROVE AacRate[out] * file.duration \in Nat
    <3>1. AacRate[out] \in Nat
      BY <1>3, <2>1, PickingAssumption
    <3> QED BY <1>1, <3>1
  <2> QED BY <1>1, <2>1
<1> HIDE DEF audio
<1> QED BY <1>1, <1>2, <1>4

LEMMA LinkIs == ASSUME NEW w \in Wants PROVE Link(w) \in Nat \cup {NoLink}
<1>1. w.link \in Nat \cup {NoLink} /\ w.others \in Nat /\ Uplink \in Nat \cup {NoLink}
  BY PickingAssumption DEF Want
<1> QED BY <1>1 DEF Link, Budgeted, Smaller

\* What a copy needs and how long it waits are numbers, where it is not for ever.
LEMMA AsksAre == ASSUME NEW w \in Wants PROVE Asks(w) \in [Media -> [need : Nat, wait : Nat \cup {NoIndex}]]
<1> SUFFICES ASSUME NEW r \in Media PROVE Need(w, r) \in Nat /\ HeadStart(w, r) \in Nat \cup {NoIndex}
  BY DEF Asks
<1> DEFINE segs == Segments(File[r].keyframes, File[r].duration)
           size == Delivered(w, r)
           bits == SegmentBits(segs, File[r].index, size)
           start == EffectiveStart(w.start, File[r].duration)
           from == StartSegment(segs, start)
           buffer == Buffers[w.holds]
           x == Weighed(w, r)
<1>1. /\ File[r].duration \in Nat \ {0} /\ File[r].keyframes \in Seq(Int) /\ Ascends(File[r].keyframes)
      /\ File[r].index \in Seq(Int \X Nat)
  BY FilmsAssumption DEF Ascends
<1>2. Buffering(buffer) /\ MaxPrebuffer \in Nat \ {0}
  <2>1. w.holds \in DOMAIN Buffers
    BY PickingAssumption DEF Want
  <2> QED BY <2>1, PickingAssumption DEF Buffering
<1>3. PICK n : Plainly(segs, n, File[r].keyframes, File[r].duration)
  BY <1>1, PlainIs
<1>4. /\ n \in Nat \ {0} /\ DOMAIN segs = 1..n /\ Timed(segs, n)
      /\ \A i \in 1..n : segs[i].start \in Nat /\ segs[i].end \in Nat
  <2>1. Inside(File[r].keyframes, File[r].duration) \subseteq Nat
    <3>1. \A k \in ToSet(File[r].keyframes) : k \in Int
      BY <1>1 DEF ToSet
    <3> QED BY <3>1 DEF Inside
  <2>2. /\ n \in Nat \ {0} /\ DOMAIN segs = 1..n
        /\ \A i \in 1..n : segs[i].start \in Nat /\ segs[i].end \in Nat /\ segs[i].start < segs[i].end
        /\ \A i, j \in 1..n : i < j => segs[i].end <= segs[j].start
    <3> HIDE DEF segs
    <3> QED BY <1>1, <1>3, <2>1 DEF Plainly
  <2> HIDE DEF segs
  <2>3. ASSUME NEW j \in 1..n, NEW k \in 1..n, j <= k PROVE segs[j].start <= segs[k].start
    <3>1. CASE j = k
      BY <2>2, <3>1
    <3>2. CASE j < k
      BY <2>2, <3>2
    <3> QED BY <2>2, <2>3, <3>1, <3>2
  <2> QED BY <2>2, <2>3 DEF Timed
<1>5. size \in Nat \cup {NoSize}
  BY DeliveredIs
<1>6. x.segs = segs /\ x.bits = bits /\ x.from = from /\ x.buffer = buffer
  BY DEF Weighed
<1> HIDE DEF segs, size
<1>7. bits = NoIndex \/ (bits \in Seq(Nat) /\ Len(bits) = n)
  <2>1. \A i \in 1..n : segs[i].start \in Int /\ segs[i].end \in Int
    BY <1>4
  <2> QED BY <1>1, <1>4, <1>5, <2>1, BitsAre
<1>8. from \in 1..n
  <2> DEFINE S == {1} \cup {i \in DOMAIN segs : segs[i].start <= BackedUp(start)}
  <2>1. S \subseteq Int /\ n \in Int /\ 1 \in Nat /\ 1 \in S /\ \A k \in S : k <= n
    BY <1>4
  <2>2. S \subseteq 1..n
    BY <1>4
  <2>3. from = Largest(S)
    BY DEF StartSegment
  <2> HIDE DEF S, from
  <2>4. Largest(S) \in S
    BY <2>1, LargestIs
  <2> QED BY <2>2, <2>3, <2>4
<1> HIDE DEF bits, from, buffer, x
<1>9. ASSUME bits # NoIndex
      PROVE  /\ NeededRate(segs, bits, from, MaxPrebuffer, buffer) \in Nat
             /\ \A rate \in Nat : StartupDelay(segs, bits, from, rate, buffer) \in Nat \cup {NoIndex}
  <2>1. bits \in Seq(Nat) /\ Timed(segs, Len(bits)) /\ from \in 1..Len(bits)
    BY <1>4, <1>7, <1>8, <1>9
  <2> QED BY <1>2, <2>1, NeededIs, DelayIs
<1>10. Need(w, r) \in Nat
  <2>1. CASE bits # NoIndex
    <3>1. Need(w, r) = NeededRate(segs, bits, from, MaxPrebuffer, buffer)
      BY <1>6, <2>1 DEF Need, x
    <3> QED BY <1>9, <2>1, <3>1
  <2>2. CASE bits = NoIndex
    <3>1. Need(w, r) = IF size = NoSize THEN 0 ELSE ((size \div File[r].duration) * 3) \div 2
      BY <1>6, <2>2 DEF Need, x, size
    <3>2. ASSUME size # NoSize PROVE ((size \div File[r].duration) * 3) \div 2 \in Nat
      <4> DEFINE q == size \div File[r].duration
      <4>1. q \in Nat
        <5>1. size \in Int /\ size >= 0
          BY <1>5, <3>2
        <5> QED BY <1>1, <5>1, QuotientIs
      <4> HIDE DEF q
      <4>2. (q * 3) \div 2 \in Nat
        BY <4>1
      <4> QED BY <4>2 DEF q
    <3> QED BY <3>1, <3>2
  <2> QED BY <2>1, <2>2
<1>11. HeadStart(w, r) \in Nat \cup {NoIndex}
  <2>1. HeadStart(w, r) = IF Link(w) \in {NoLink, 0} \/ bits = NoIndex THEN NoIndex
                          ELSE StartupDelay(segs, bits, from, Link(w), buffer)
    BY <1>6 DEF HeadStart, x
  <2>2. Link(w) \in Nat \cup {NoLink}
    BY LinkIs
  <2> QED BY <1>9, <2>1, <2>2
<1> QED BY <1>10, <1>11

-----------------------------------------------------------------------------
(* The order *)

LEMMA ListedIs == Listed \subseteq Rel /\ IsFiniteSet(Listed)
<1>1. List \in Seq(Rel)
  BY ListIs
<1>2. Listed \subseteq Rel
  BY <1>1 DEF Listed, ToSet
<1>3. List \in Surjection(1..Len(List), Listed)
  BY <1>1 DEF Surjection, Listed, ToSet
<1>4. IsFiniteSet(1..Len(List))
  BY <1>1, FS_Interval
<1> QED BY <1>2, <1>3, <1>4, FS_Surjection

LEMMA PlaceIs ==
  ASSUME NEW r \in Listed
  PROVE  Place(r) \in Nat /\ List[Place(r)] = r
<1>1. \E i \in DOMAIN List : List[i] = r
  BY DEF Listed, ToSet
<1>2. Place(r) \in DOMAIN List /\ List[Place(r)] = r
  BY <1>1 DEF Place
<1>3. DOMAIN List = 1..Len(List) /\ Len(List) \in Nat
  BY ListIs
<1> QED BY <1>2, <1>3

LEMMA FitIs == ASSUME NEW w, NEW a PROVE FitOf(w, a) \in {"copy", "convert", "never"}
<1>1. FitUnreported(a, Hevc(w)) \in {"copy", "convert", "never"}
  BY DEF FitUnreported
<1>2. FitReported(a, w.player) \in {"copy", "convert", "never"}
  BY Zenon DEF FitReported
<1> QED BY <1>1, <1>2 DEF FitOf, Fit

\* Of the releases worth opening, it is a strict order of any two.
LEMMA TriedOnce == ASSUME NEW w, NEW r \in Listed PROVE ~TriedBefore(w, r, r)
BY PlaceIs DEF TriedBefore

LEMMA TriedTransitive ==
  ASSUME NEW w, NEW a \in Listed, NEW b \in Listed, NEW c \in Listed, TriedBefore(w, a, b), TriedBefore(w, b, c)
  PROVE  TriedBefore(w, a, c)
<1>1. Place(a) \in Nat /\ Place(b) \in Nat /\ Place(c) \in Nat
  BY PlaceIs
<1> QED BY <1>1 DEF TriedBefore

LEMMA TriedInTurn ==
  ASSUME NEW w, NEW a \in Listed, NEW b \in Listed, a # b,
         FitOf(w, Attr[a]) # "never", FitOf(w, Attr[b]) # "never"
  PROVE  TriedBefore(w, a, b) \/ TriedBefore(w, b, a)
<1>1. Place(a) \in Nat /\ Place(b) \in Nat /\ Place(a) # Place(b)
  BY PlaceIs
<1>2. FitOf(w, Attr[a]) \in {"copy", "convert"} /\ FitOf(w, Attr[b]) \in {"copy", "convert"}
  BY FitIs
<1> QED BY <1>1, <1>2 DEF TriedBefore

\* So each has its place in the queue.
LEMMA RankedIs ==
  ASSUME NEW w
  PROVE  /\ Ranked(w) \in Seq(Listed)
         /\ \A i \in DOMAIN Ranked(w) : WorthOpening(w, Ranked(w)[i])
         /\ \A i, j \in DOMAIN Ranked(w) : i < j => TriedBefore(w, Ranked(w)[i], Ranked(w)[j])
<1> DEFINE worth    == {r \in Candidates(w) : WorthOpening(w, r)}
           Ahead(r) == {q \in worth : TriedBefore(w, q, r)}
           n        == Cardinality(worth)
           rank     == [r \in worth |-> Cardinality(Ahead(r))]
           At(i)    == CHOOSE r \in worth : Cardinality(Ahead(r)) = i - 1
<1>1. Ranked(w) = [i \in 1..n |-> At(i)]
  BY DEF Ranked
<1>2. worth \subseteq Listed /\ \A r \in worth : WorthOpening(w, r) /\ FitOf(w, Attr[r]) # "never"
  BY DEF Candidates, Listed, WorthOpening
<1>3. IsFiniteSet(worth) /\ n \in Nat
  BY <1>2, ListedIs, FS_Subset, FS_CardinalityType
<1>4. \A r \in worth : Ahead(r) \subseteq worth \ {r}
  BY <1>2, TriedOnce
<1>5. \A r \in worth : IsFiniteSet(Ahead(r)) /\ Cardinality(Ahead(r)) \in Nat /\ Cardinality(Ahead(r)) <= n - 1
  <2> SUFFICES ASSUME NEW r \in worth
               PROVE  IsFiniteSet(Ahead(r)) /\ Cardinality(Ahead(r)) \in Nat /\ Cardinality(Ahead(r)) <= n - 1
    OBVIOUS
  <2> HIDE DEF worth, Ahead
  <2>1. IsFiniteSet(worth \ {r}) /\ Cardinality(worth \ {r}) = n - 1
    BY <1>3, FS_RemoveElement
  <2>2. IsFiniteSet(Ahead(r)) /\ Cardinality(Ahead(r)) <= Cardinality(worth \ {r})
    BY <1>4, <2>1, FS_Subset
  <2> QED BY <2>1, <2>2, FS_CardinalityType
<1>6. \A q, r \in worth : TriedBefore(w, q, r) => Cardinality(Ahead(q)) < Cardinality(Ahead(r))
  <2> SUFFICES ASSUME NEW q \in worth, NEW r \in worth, TriedBefore(w, q, r)
               PROVE  Cardinality(Ahead(q)) < Cardinality(Ahead(r))
    OBVIOUS
  <2>1. Ahead(q) \subseteq Ahead(r)
    BY <1>2, TriedTransitive
  <2>2. q \in Ahead(r) /\ q \notin Ahead(q)
    BY <1>4
  <2> HIDE DEF Ahead
  <2>3. Cardinality(Ahead(q)) <= Cardinality(Ahead(r)) /\ Cardinality(Ahead(q)) # Cardinality(Ahead(r))
    BY <1>5, <2>1, <2>2, FS_Subset
  <2>4. Cardinality(Ahead(q)) \in Nat /\ Cardinality(Ahead(r)) \in Nat
    BY <1>5, Zenon
  <2> QED BY <2>3, <2>4
<1>7. \A q, r \in worth : q # r => TriedBefore(w, q, r) \/ TriedBefore(w, r, q)
  BY <1>2, TriedInTurn
<1> HIDE DEF worth, Ahead, n
<1>8. rank \in Surjection(worth, 0..(n - 1))
  <2>1. rank \in [worth -> 0..(n - 1)]
    BY <1>3, <1>5
  <2>2. \A q, r \in worth : q # r => rank[q] # rank[r]
    BY <1>5, <1>6, <1>7
  <2>3. rank \in Injection(worth, 0..(n - 1))
    <3> HIDE DEF rank
    <3> QED BY <2>1, <2>2 DEF Injection, IsInjective
  <2>4. IsFiniteSet(0..(n - 1)) /\ Cardinality(0..(n - 1)) = n
    <3>1. 0 \in Int /\ n - 1 \in Int
      BY <1>3
    <3> QED BY <1>3, <3>1, FS_Interval
  <2> QED BY <1>3, <2>3, <2>4, FS_Injection DEF n
<1>9. \A i \in 1..n : At(i) \in worth /\ Cardinality(Ahead(At(i))) = i - 1
  <2> SUFFICES ASSUME NEW i \in 1..n PROVE At(i) \in worth /\ Cardinality(Ahead(At(i))) = i - 1
    OBVIOUS
  <2>1. i - 1 \in 0..(n - 1)
    BY <1>3
  <2>2. \E r \in worth : rank[r] = i - 1
    BY <1>8, <2>1 DEF Surjection
  <2> QED BY <2>2
<1> HIDE DEF At, rank
<1>10. \A i, j \in 1..n : i < j => TriedBefore(w, At(i), At(j))
  <2> SUFFICES ASSUME NEW i \in 1..n, NEW j \in 1..n, i < j PROVE TriedBefore(w, At(i), At(j))
    OBVIOUS
  <2>1. Cardinality(Ahead(At(i))) < Cardinality(Ahead(At(j)))
    BY <1>3, <1>9
  <2>2. At(i) # At(j) /\ ~TriedBefore(w, At(j), At(i))
    BY <1>5, <1>6, <1>9, <2>1
  <2> QED BY <1>7, <1>9, <2>2
<1> QED BY <1>1, <1>2, <1>3, <1>9, <1>10

-----------------------------------------------------------------------------
(* The invariant *)

Answers == {"none", "ok", "lasting", "passing"}
Endings == {"none", "copy", "long wait", "transcode", "starving", "bad_audio_track",
            "no_fitting_copy", "no_copy", "no_playable_release"}
Pick == [phase : {"opening", "decided"}, want : Wants, asks : [Media -> [need : Nat, wait : Nat \cup {NoIndex}]],
         queue : Seq(Listed), opening : Seq(Listed), answer : [Rel -> Answers], tried : Nat, late : BOOLEAN,
         seen : SUBSET Listed, chosen : Listed \cup {Nobody}, fallback : Listed \cup {Nobody}, tooBig : Seq(Listed),
         out : [as : Endings, rel : Listed \cup {Nobody}, gpu : BOOLEAN]]

Typed == unplayable \subseteq Rel /\ opened \in Seq(Rel) /\ (pick = Idle \/ pick \in Pick)

\* What opening a file can show of it: it answers, or it is ruled out, for what it is.
Playable == {r \in Rel : File[r].container = "media" /\ ~RefusedVideo(r)}
Barren == BadFiles \cup (Posed \cap Rel)
Known(p) == \A r \in Rel : /\ p.answer[r] = "ok" => r \in Playable
                           /\ p.answer[r] = "lasting" => r \in Barren

\* What is under way and what waits stand in order, within the limits.
Line(p) == [i \in 1..(Len(p.opening) + Len(p.queue)) |->
              IF i <= Len(p.opening) THEN p.opening[i] ELSE p.queue[i - Len(p.opening)]]
InLine(p) ==
  /\ \A i, j \in DOMAIN Line(p) : i < j => TriedBefore(p.want, Line(p)[i], Line(p)[j])
  /\ Len(p.opening) <= ParallelOpens /\ p.tried <= MaxTries

\* Who answered is under way or was looked at.
Asked(p) == \A r \in Rel : p.answer[r] # "none" => r \in p.seen \/ \E i \in DOMAIN p.opening : p.opening[i] = r

\* Whatever is opened or played may be tried, as far as scout and the memory say.
Tryable(w, r, ruledOut) == FitOf(w, Attr[r]) # "never" /\ ~(Sized(r) /\ r \in ruledOut)
Clear(p, ruledOut) ==
  /\ \A i \in DOMAIN Line(p) : Tryable(p.want, Line(p)[i], ruledOut)
  /\ \A r \in p.seen : p.answer[r] = "ok" => Tryable(p.want, r, ruledOut)

\* What was looked at is sorted: the first that fits, all the copies that do not, and
\* one to be converted, if there is any.
Heavy(p, r) == Over(Link(p.want), p.asks[r].need)
Fitting(p, r) == p.answer[r] = "ok" /\ Shown(p.want, r) /\ ~Heavy(p, r)
TooBig(p, r) == p.answer[r] = "ok" /\ Shown(p.want, r) /\ Heavy(p, r)
Unshown(p, r) ==
  LET info == File[r].info
  IN /\ p.answer[r] = "ok" /\ ~NoPicture(p.want.player, Hevc(p.want), info)
     /\ ~Plays(p.want.player, Hevc(p.want), info) /\ info.video = "hevc"
Books(p) ==
  /\ \A r \in p.seen : p.answer[r] # "none"
  /\ p.phase = "opening" => p.chosen = Nobody
  /\ p.chosen # Nobody => p.chosen \in p.seen /\ Fitting(p, p.chosen)
  /\ \A r \in p.seen \ {p.chosen} : ~Fitting(p, r)
  /\ \A i \in DOMAIN p.tooBig : p.tooBig[i] \in p.seen /\ TooBig(p, p.tooBig[i])
  /\ \A r \in p.seen : TooBig(p, r) => \E i \in DOMAIN p.tooBig : p.tooBig[i] = r
  /\ p.fallback # Nobody => p.fallback \in p.seen /\ Unshown(p, p.fallback)
  /\ p.fallback = Nobody => \A r \in p.seen : ~Unshown(p, r)

\* What is played was looked at, and shows a picture or is converted.
Played(p) ==
  p.phase = "decided" /\ p.out.rel # Nobody =>
    /\ p.out.rel \in p.seen /\ p.answer[p.out.rel] = "ok"
    /\ Shown(p.want, p.out.rel) \/ (Unshown(p, p.out.rel) /\ p.out.as \notin Copies)

Steady == Known(pick) /\ InLine(pick) /\ Asked(pick) /\ Clear(pick, unplayable) /\ Books(pick) /\ Played(pick)
Inv ==
  /\ Typed
  /\ unplayable \subseteq Barren
  /\ opened \in Seq(Playable)
  /\ pick # Idle => Steady
  /\ BestRung /\ BestRanked

-----------------------------------------------------------------------------
(* The opens started *)

LEMMA Lowest ==
  ASSUME NEW I, I \subseteq Nat, I # {}
  PROVE  Min(I) \in I /\ \A k \in I : Min(I) <= k
<1>1. \E m \in I : \A k \in I : <<k, m>> \notin OpToRel(<, Nat)
  BY NatLessThanWellFounded, WFMin
<1>2. PICK m \in I : \A k \in I : ~(k < m)
  BY <1>1 DEF OpToRel
<1>3. \A k \in I : m <= k
  BY <1>2
<1> QED BY <1>3 DEF Min

LEMMA CutInTwo ==
  ASSUME NEW S, NEW s \in Seq(S), NEW n \in 0..Len(s)
  PROVE  /\ SubSeq(s, 1, n) \in Seq(S) /\ Len(SubSeq(s, 1, n)) = n
         /\ \A i \in 1..n : SubSeq(s, 1, n)[i] = s[i]
         /\ SubSeq(s, n + 1, Len(s)) \in Seq(S) /\ Len(SubSeq(s, n + 1, Len(s))) = Len(s) - n
         /\ \A i \in 1..(Len(s) - n) : SubSeq(s, n + 1, Len(s))[i] = s[n + i]
<1>1. Len(s) \in Nat /\ n \in Nat /\ n + 1 \in Int /\ 1 \in Int
  OBVIOUS
<1>2. (\A i \in 1..n : s[i] \in S) /\ \A i \in (n + 1)..Len(s) : s[i] \in S
  BY <1>1
<1>3. /\ SubSeq(s, 1, n) \in Seq(S) /\ Len(SubSeq(s, 1, n)) = n
      /\ \A i \in 1..n : SubSeq(s, 1, n)[i] = s[i]
  <2>1. /\ Len(SubSeq(s, 1, n)) = IF 1 <= n THEN n - 1 + 1 ELSE 0
        /\ \A i \in 1..(n - 1 + 1) : SubSeq(s, 1, n)[i] = s[1 + i - 1]
    BY <1>1, <1>2, SubSeqProperties
  <2> QED BY <1>1, <1>2, <2>1, SubSeqProperties
<1>4. /\ SubSeq(s, n + 1, Len(s)) \in Seq(S) /\ Len(SubSeq(s, n + 1, Len(s))) = Len(s) - n
      /\ \A i \in 1..(Len(s) - n) : SubSeq(s, n + 1, Len(s))[i] = s[n + i]
  <2>1. /\ Len(SubSeq(s, n + 1, Len(s))) = IF n + 1 <= Len(s) THEN Len(s) - (n + 1) + 1 ELSE 0
        /\ \A i \in 1..(Len(s) - (n + 1) + 1) : SubSeq(s, n + 1, Len(s))[i] = s[(n + 1) + i - 1]
    BY <1>1, <1>2, SubSeqProperties
  <2> QED BY <1>1, <1>2, <2>1, SubSeqProperties
<1> QED BY <1>3, <1>4

LEMMA PutBehind ==
  ASSUME NEW S, NEW o \in Seq(S), NEW a \in Seq(S)
  PROVE  /\ o \o a \in Seq(S) /\ Len(o \o a) = Len(o) + Len(a)
         /\ \A i \in DOMAIN o : i \in DOMAIN (o \o a) /\ (o \o a)[i] = o[i]
         /\ \A i \in 1..Len(a) : (o \o a)[Len(o) + i] = a[i]
<1>1. /\ o \o a \in Seq(S) /\ Len(o \o a) = Len(o) + Len(a)
      /\ \A i \in 1..(Len(o) + Len(a)) : (o \o a)[i] = IF i <= Len(o) THEN o[i] ELSE a[i - Len(o)]
  BY ConcatProperties
<1>2. DOMAIN o = 1..Len(o) /\ DOMAIN (o \o a) = 1..Len(o \o a) /\ Len(o) \in Nat /\ Len(a) \in Nat
  BY <1>1
<1> QED BY <1>1, <1>2

LEMMA SmallerIs ==
  ASSUME NEW a \in Int, NEW b \in Int
  PROVE  Smaller(a, b) \in Int /\ Smaller(a, b) <= a /\ Smaller(a, b) <= b /\ Smaller(a, b) \in {a, b}
BY DEF Smaller

LEMMA SmallerNat ==
  ASSUME NEW a \in Nat, NEW b \in Nat
  PROVE  Smaller(a, b) \in 0..b /\ Smaller(a, b) <= a
BY DEF Smaller

\* No more are started than there are, nor than may be under way or tried.
LEMMA StartsIs ==
  ASSUME NEW p \in Pick, InLine(p)
  PROVE  /\ Starts(p) \in 0..Len(p.queue) /\ Len(p.opening) + Starts(p) <= ParallelOpens
         /\ p.tried + Starts(p) <= MaxTries
<1> DEFINE room == Smaller(Smaller(ParallelOpens - Len(p.opening), MaxTries - p.tried), Len(p.queue))
           stop == {i \in 1..Len(p.queue) : p.fallback # Nobody /\ FitOf(p.want, Attr[p.queue[i]]) = "convert"}
<1>1. /\ Len(p.queue) \in Nat /\ Len(p.opening) \in Nat /\ p.tried \in Nat
      /\ Len(p.opening) <= ParallelOpens /\ p.tried <= MaxTries
  BY DEF Pick, InLine
<1> USE LimitsAre
<1>2. /\ room \in 0..Len(p.queue) /\ Len(p.opening) + room <= ParallelOpens /\ p.tried + room <= MaxTries
  <2> DEFINE x == ParallelOpens - Len(p.opening)
             y == MaxTries - p.tried
             m == Smaller(x, y)
  <2>1. x \in Nat /\ y \in Nat
    BY <1>1
  <2>2. m \in Nat /\ m <= x /\ m <= y
    <3> HIDE DEF x, y
    <3>1. m \in Int /\ m <= x /\ m <= y /\ m \in {x, y}
      BY <2>1, SmallerIs
    <3> QED BY <2>1, <3>1
  <2> HIDE DEF m
  <2>3. Smaller(m, Len(p.queue)) \in 0..Len(p.queue) /\ Smaller(m, Len(p.queue)) <= m
    <3> DEFINE l == Len(p.queue)
    <3>1. l \in Nat
      BY <1>1
    <3> HIDE DEF l
    <3>2. m \in Nat
      BY <2>2
    <3>3. Smaller(m, l) \in 0..l /\ Smaller(m, l) <= m
      BY <3>1, <3>2, SmallerNat
    <3> QED BY <3>3 DEF l
  <2>4. room = Smaller(m, Len(p.queue))
    BY DEF m
  <2> HIDE DEF room
  <2> QED BY <1>1, <2>2, <2>3, <2>4
<1>3. Starts(p) = IF p.late THEN 0 ELSE IF stop = {} THEN room ELSE Smaller(room, Min(stop) - 1)
  BY DEF Starts
<1>4. CASE stop # {}
  <2>1. stop \subseteq Nat /\ stop \subseteq 1..Len(p.queue)
    BY <1>1
  <2> HIDE DEF stop
  <2>2. Min(stop) \in 1..Len(p.queue)
    BY <1>4, <2>1, Lowest
  <2> HIDE DEF room
  <2>3. Smaller(room, Min(stop) - 1) \in 0..room
    BY <1>1, <1>2, <2>2 DEF Smaller
  <2>4. Starts(p) \in 0..room
    BY <1>2, <1>3, <1>4, <2>3
  <2> QED BY <1>1, <1>2, <2>4
<1>5. CASE stop = {}
  <2> HIDE DEF stop, room
  <2>1. Starts(p) \in 0..room
    BY <1>2, <1>3, <1>5
  <2> QED BY <1>1, <1>2, <2>1
<1> QED BY <1>4, <1>5

\* What is not sorted yet stays.
Kept(p, q) ==
  /\ q.phase = p.phase /\ q.want = p.want /\ q.asks = p.asks /\ q.answer = p.answer /\ q.late = p.late
  /\ q.seen = p.seen /\ q.chosen = p.chosen /\ q.fallback = p.fallback /\ q.tooBig = p.tooBig /\ q.out = p.out

\* The next are put behind those under way, in their order.
LEMMA FillIs ==
  ASSUME NEW p \in Pick, InLine(p)
  PROVE  LET q == Fill(p) IN
         /\ q \in Pick /\ Kept(p, q) /\ Line(q) = Line(p) /\ InLine(q)
         /\ \A r : (\E i \in DOMAIN p.opening : p.opening[i] = r) => \E i \in DOMAIN q.opening : q.opening[i] = r
<1> DEFINE n == Starts(p)
           a == SubSeq(p.queue, 1, n)
           b == SubSeq(p.queue, n + 1, Len(p.queue))
<1>1. /\ n \in 0..Len(p.queue) /\ Len(p.opening) + n <= ParallelOpens /\ p.tried + n <= MaxTries
  BY StartsIs
<1>2. p.queue \in Seq(Listed) /\ p.opening \in Seq(Listed) /\ p.tried \in Nat /\ Len(p.queue) \in Nat /\ n \in Nat
  BY <1>1 DEF Pick
<1>3. /\ a \in Seq(Listed) /\ Len(a) = n /\ b \in Seq(Listed) /\ Len(b) = Len(p.queue) - n
      /\ \A i \in 1..n : a[i] = p.queue[i]
      /\ \A i \in 1..(Len(p.queue) - n) : b[i] = p.queue[n + i]
  <2> HIDE DEF n
  <2> QED BY <1>1, <1>2, CutInTwo
<1>6. Fill(p) = [p EXCEPT !.opening = p.opening \o a, !.tried = p.tried + n, !.queue = b]
  BY DEF Fill
<1> DEFINE o == p.opening \o a
<1>7. /\ o \in Seq(Listed) /\ Len(o) = Len(p.opening) + n
      /\ \A i \in DOMAIN p.opening : i \in DOMAIN o /\ o[i] = p.opening[i]
      /\ \A i \in 1..n : o[Len(p.opening) + i] = p.queue[i]
  <2> HIDE DEF n, a
  <2>1. /\ p.opening \o a \in Seq(Listed) /\ Len(p.opening \o a) = Len(p.opening) + Len(a)
        /\ \A i \in DOMAIN p.opening : i \in DOMAIN (p.opening \o a) /\ (p.opening \o a)[i] = p.opening[i]
        /\ \A i \in 1..Len(a) : (p.opening \o a)[Len(p.opening) + i] = a[i]
    <3> DEFINE u == p.opening
    <3>1. u \in Seq(Listed) /\ a \in Seq(Listed)
      BY <1>2, <1>3
    <3> HIDE DEF u
    <3>2. /\ u \o a \in Seq(Listed) /\ Len(u \o a) = Len(u) + Len(a)
          /\ \A i \in DOMAIN u : i \in DOMAIN (u \o a) /\ (u \o a)[i] = u[i]
          /\ \A i \in 1..Len(a) : (u \o a)[Len(u) + i] = a[i]
      BY <3>1, PutBehind
    <3> QED BY <3>2 DEF u
  <2> QED BY <1>3, <2>1
<1> HIDE DEF n, a, b, o
<1>9. LET q == Fill(p) IN q \in Pick /\ Kept(p, q) /\ q.opening = o /\ q.queue = b /\ q.tried = p.tried + n
  <2>1. p.tried + n \in Nat
    BY <1>2
  <2>2. Fill(p) = [p EXCEPT !.opening = o, !.tried = p.tried + n, !.queue = b]
    BY <1>6 DEF o
  <2> QED BY <1>3, <1>7, <2>1, <2>2 DEF Pick, Kept
<1>10. Line(Fill(p)) = Line(p)
  <2> DEFINE l == Len(p.opening)
             m == Len(p.queue)
  <2>1. l \in Nat /\ m \in Nat /\ n \in Nat /\ n <= m /\ Len(o) = l + n /\ Len(b) = m - n
    BY <1>1, <1>2, <1>3, <1>7
  <2>2. \A i \in 1..l : o[i] = p.opening[i]
    BY <1>2, <1>7
  <2>3. \A i \in (l + 1)..(l + n) : o[i] = p.queue[i - l]
    <3> SUFFICES ASSUME NEW i \in (l + 1)..(l + n) PROVE o[i] = p.queue[i - l]
      OBVIOUS
    <3>1. i - l \in 1..n /\ l + (i - l) = i
      BY <1>2, <2>1
    <3> QED BY <1>7, <3>1
  <2>4. \A i \in (l + n + 1)..(l + m) : b[i - (l + n)] = p.queue[i - l]
    <3> SUFFICES ASSUME NEW i \in (l + n + 1)..(l + m) PROVE b[i - (l + n)] = p.queue[i - l]
      OBVIOUS
    <3>1. i - (l + n) \in 1..(m - n) /\ n + (i - (l + n)) = i - l
      <4> HIDE DEF l, m
      <4> QED BY <2>1
    <3> QED BY <1>3, <3>1
  <2> HIDE DEF l, m
  <2>5. \A i \in 1..(l + m) : (IF i <= l + n THEN o[i] ELSE b[i - (l + n)])
                              = (IF i <= l THEN p.opening[i] ELSE p.queue[i - l])
    <3> SUFFICES ASSUME NEW i \in 1..(l + m)
                 PROVE  (IF i <= l + n THEN o[i] ELSE b[i - (l + n)])
                        = (IF i <= l THEN p.opening[i] ELSE p.queue[i - l])
      OBVIOUS
    <3>1. CASE i <= l
      BY <1>2, <2>1, <2>2, <3>1
    <3>2. CASE i > l /\ i <= l + n
      BY <1>2, <2>1, <2>3, <3>2
    <3>3. CASE i > l + n
      BY <1>2, <2>1, <2>4, <3>3
    <3> QED BY <1>2, <2>1, <3>1, <3>2, <3>3
  <2>6. Line(Fill(p)) = [i \in 1..((l + n) + (m - n)) |-> IF i <= l + n THEN o[i] ELSE b[i - (l + n)]]
    BY <1>9, <2>1 DEF Line
  <2>7. Line(p) = [i \in 1..(l + m) |-> IF i <= l THEN p.opening[i] ELSE p.queue[i - l]]
    BY DEF Line, l, m
  <2>8. (l + n) + (m - n) = l + m
    BY <2>1
  <2> QED BY <2>5, <2>6, <2>7, <2>8
<1>11. InLine(Fill(p))
  BY <1>1, <1>7, <1>9, <1>10 DEF InLine, Kept
<1> QED BY <1>7, <1>9, <1>10, <1>11

-----------------------------------------------------------------------------
(* What is sorted *)

LEMMA ArmIs ==
  ASSUME NEW p \in Pick, NEW r \in Listed
  PROVE  LET arm == Arm(p, r, p.answer[r]) IN
         /\ arm = "fits" <=> Fitting(p, r)
         /\ arm = "too big" <=> TooBig(p, r)
         /\ arm = "converts" <=> Unshown(p, r)
BY DEF Arm, Fitting, TooBig, Unshown, Shown, Heavy

\* Whoever is the first under way is before all that follow, and these stay in line.
LEMMA FirstInLine ==
  ASSUME NEW p \in Pick, InLine(p), p.opening # <<>>, NEW q \in Pick,
         q.opening = Tail(p.opening), q.queue = p.queue, q.want = p.want, q.tried = p.tried
  PROVE  LET r == Head(p.opening) IN
         /\ r \in Listed /\ InLine(q)
         /\ \A i \in DOMAIN Line(q) : i + 1 \in DOMAIN Line(p) /\ Line(q)[i] = Line(p)[i + 1]
         /\ \A i \in DOMAIN Line(q) : TriedBefore(p.want, r, Line(q)[i])
         /\ 1 \in DOMAIN Line(p) /\ Line(p)[1] = r
         /\ \A i \in DOMAIN q.opening : i \in DOMAIN Line(q) /\ Line(q)[i] = q.opening[i]
<1> DEFINE l == Len(p.opening)
           m == Len(p.queue)
           t == Tail(p.opening)
<1>1. p.opening \in Seq(Listed) /\ p.queue \in Seq(Listed) /\ l \in Nat \ {0} /\ m \in Nat /\ p.tried \in Nat
  BY DEF Pick
<1>2. /\ Head(p.opening) \in Listed /\ Head(p.opening) = p.opening[1]
      /\ t \in Seq(Listed) /\ Len(t) = l - 1 /\ \A i \in 1..(l - 1) : t[i] = p.opening[i + 1]
  BY <1>1, HeadTailProperties
<1>3. Line(p) = [i \in 1..(l + m) |-> IF i <= l THEN p.opening[i] ELSE p.queue[i - l]]
  BY DEF Line
<1>4. Line(q) = [i \in 1..((l - 1) + m) |-> IF i <= l - 1 THEN t[i] ELSE p.queue[i - (l - 1)]]
  BY <1>2 DEF Line
<1> HIDE DEF l, m, t
<1>5. \A i \in 1..((l - 1) + m) : i + 1 \in 1..(l + m) /\ Line(q)[i] = Line(p)[i + 1]
  <2> SUFFICES ASSUME NEW i \in 1..((l - 1) + m)
               PROVE  i + 1 \in 1..(l + m) /\ Line(q)[i] = Line(p)[i + 1]
    OBVIOUS
  <2>1. i + 1 \in 1..(l + m) /\ i \in Nat
    BY <1>1
  <2>2. CASE i <= l - 1
    BY <1>1, <1>2, <1>3, <1>4, <2>1, <2>2
  <2>3. CASE ~(i <= l - 1)
    <3>0. i \in Nat
      BY <1>1, <2>1
    <3>1. (i + 1) - l = i - (l - 1) /\ ~(i + 1 <= l)
      BY <1>1, <2>3, <3>0
    <3> QED BY <1>3, <1>4, <2>1, <2>3, <3>1
  <2> QED BY <2>2, <2>3
<1>6. DOMAIN Line(p) = 1..(l + m) /\ DOMAIN Line(q) = 1..((l - 1) + m)
  BY <1>3, <1>4
<1>7. 1 \in DOMAIN Line(p) /\ Line(p)[1] = Head(p.opening)
  BY <1>1, <1>2, <1>3, <1>6
<1>8. \A i, j \in DOMAIN Line(q) : i < j => TriedBefore(q.want, Line(q)[i], Line(q)[j])
  <2> SUFFICES ASSUME NEW i \in DOMAIN Line(q), NEW j \in DOMAIN Line(q), i < j
               PROVE  TriedBefore(p.want, Line(q)[i], Line(q)[j])
    OBVIOUS
  <2>1. i + 1 \in DOMAIN Line(p) /\ j + 1 \in DOMAIN Line(p) /\ i + 1 < j + 1
    BY <1>1, <1>5, <1>6
  <2> QED BY <1>5, <1>6, <2>1 DEF InLine
<1>9. \A i \in DOMAIN Line(q) : TriedBefore(p.want, Head(p.opening), Line(q)[i])
  <2> SUFFICES ASSUME NEW i \in DOMAIN Line(q) PROVE TriedBefore(p.want, Head(p.opening), Line(q)[i])
    OBVIOUS
  <2>1. i + 1 \in DOMAIN Line(p) /\ 1 < i + 1
    BY <1>1, <1>5, <1>6
  <2> QED BY <1>5, <1>6, <1>7, <2>1 DEF InLine
<1>10. Len(q.opening) <= ParallelOpens /\ q.tried <= MaxTries
  BY <1>1, <1>2, LimitsAre DEF InLine, l, t
<1>11. \A i \in DOMAIN q.opening : i \in DOMAIN Line(q) /\ Line(q)[i] = q.opening[i]
  <2>1. DOMAIN q.opening = 1..(l - 1)
    BY <1>1, <1>2 DEF t
  <2> QED BY <1>1, <1>4, <1>6, <2>1 DEF t
<1> QED BY <1>2, <1>5, <1>6, <1>7, <1>8, <1>9, <1>10, <1>11 DEF InLine

\* The looked at release is in the books, and nothing else changed but the line.
LEMMA SortedIs ==
  ASSUME NEW p \in Pick, p.phase = "opening", p.opening # <<>>, Known(p), Asked(p), Books(p),
         p.answer[Head(p.opening)] # "none"
  PROVE  LET r == Head(p.opening)
             q == Sorted(p, r, Arm(p, r, p.answer[r])) IN
         /\ q \in Pick /\ Known(q) /\ Asked(q) /\ Books(q)
         /\ q.opening = Tail(p.opening) /\ q.queue = p.queue /\ q.want = p.want /\ q.tried = p.tried
         /\ q.answer = p.answer /\ q.seen = p.seen \cup {r} /\ q.out = p.out
         /\ q.chosen # Nobody => q.chosen = r /\ q.phase = "decided"
<1> DEFINE r    == Head(p.opening)
           arm  == Arm(p, r, p.answer[r])
           q    == Sorted(p, r, arm)
           ends == arm = "fits" \/ (arm \in {"too big", "converts"} /\ r = p.want.named)
<1>1. /\ p.opening \in Seq(Listed) /\ p.tooBig \in Seq(Listed) /\ p.chosen = Nobody /\ Nobody \notin Rel
      /\ r \in Listed /\ r \in Rel /\ r # Nobody
  <2>1. p.opening \in Seq(Listed) /\ p.tooBig \in Seq(Listed) /\ p.chosen = Nobody
    BY DEF Pick, Books
  <2>2. Nobody \notin Rel
    BY PickingAssumption
  <2> QED BY <2>1, <2>2, ListedIs, HeadTailProperties
<1>2. Tail(p.opening) \in Seq(Listed) /\ DOMAIN p.opening = 1..Len(p.opening) /\ Len(p.opening) \in Nat \ {0}
      /\ p.opening[1] = r /\ Len(Tail(p.opening)) = Len(p.opening) - 1
      /\ \A i \in 1..(Len(p.opening) - 1) : Tail(p.opening)[i] = p.opening[i + 1]
  BY <1>1, HeadTailProperties
<1>3. /\ arm = "fits" <=> Fitting(p, r)
      /\ arm = "too big" <=> TooBig(p, r)
      /\ arm = "converts" <=> Unshown(p, r)
  BY <1>1, ArmIs
<1>4. q = [p EXCEPT !.opening  = Tail(p.opening),
                    !.seen     = p.seen \cup {r},
                    !.chosen   = IF arm = "fits" THEN r ELSE p.chosen,
                    !.fallback = IF arm = "converts" /\ p.fallback = Nobody THEN r ELSE p.fallback,
                    !.tooBig   = IF arm = "too big" THEN Append(p.tooBig, r) ELSE p.tooBig,
                    !.phase    = IF ends THEN "decided" ELSE p.phase]
  BY DEF Sorted
<1> HIDE DEF r, arm, q, ends
<1>5. Append(p.tooBig, r) \in Seq(Listed) /\ DOMAIN Append(p.tooBig, r) = 1..(Len(p.tooBig) + 1)
      /\ DOMAIN p.tooBig = 1..Len(p.tooBig) /\ Len(p.tooBig) \in Nat
      /\ \A i \in 1..Len(p.tooBig) : Append(p.tooBig, r)[i] = p.tooBig[i]
      /\ Append(p.tooBig, r)[Len(p.tooBig) + 1] = r
  BY <1>1, AppendProperties
<1>6. q \in Pick
  BY <1>1, <1>2, <1>4, <1>5 DEF Pick
<1>7. /\ q.want = p.want /\ q.asks = p.asks /\ q.answer = p.answer /\ q.queue = p.queue /\ q.tried = p.tried
      /\ q.opening = Tail(p.opening) /\ q.seen = p.seen \cup {r} /\ q.out = p.out
      /\ q.chosen = IF arm = "fits" THEN r ELSE Nobody
      /\ q.fallback = IF arm = "converts" /\ p.fallback = Nobody THEN r ELSE p.fallback
      /\ q.tooBig = IF arm = "too big" THEN Append(p.tooBig, r) ELSE p.tooBig
      /\ q.phase = IF ends THEN "decided" ELSE p.phase
  BY <1>1, <1>4 DEF Pick
<1>8. \A x : (Fitting(q, x) <=> Fitting(p, x)) /\ (TooBig(q, x) <=> TooBig(p, x)) /\ (Unshown(q, x) <=> Unshown(p, x))
  BY <1>7 DEF Fitting, TooBig, Unshown, Heavy
<1>9. Known(q)
  BY <1>7 DEF Known
<1>10. Asked(q)
  <2> SUFFICES ASSUME NEW x \in Rel, p.answer[x] # "none"
               PROVE  x \in q.seen \/ \E i \in DOMAIN q.opening : q.opening[i] = x
    BY <1>7 DEF Asked
  <2>1. CASE x \in p.seen \/ x = r
    BY <1>7, <2>1
  <2>2. CASE x \notin p.seen /\ x # r
    <3>1. PICK i \in 1..Len(p.opening) : p.opening[i] = x
      BY <1>2, <2>2 DEF Asked
    <3>2. i - 1 \in 1..(Len(p.opening) - 1) /\ (i - 1) + 1 = i
      BY <1>2, <2>2, <3>1
    <3>3. i - 1 \in DOMAIN Tail(p.opening) /\ Tail(p.opening)[i - 1] = x
      BY <1>2, <3>1, <3>2
    <3> QED BY <1>7, <3>3
  <2> QED BY <2>1, <2>2
<1>11. Books(q)
  <2>1. \A x \in q.seen : q.answer[x] # "none"
    BY <1>7 DEF Books, r
  <2>2. q.phase = "opening" => q.chosen = Nobody
    BY <1>7 DEF ends
  <2>3. q.chosen # Nobody => q.chosen \in q.seen /\ Fitting(q, q.chosen)
    BY <1>3, <1>7, <1>8
  <2>4. \A x \in q.seen \ {q.chosen} : ~Fitting(q, x)
    <3> SUFFICES ASSUME NEW x \in q.seen, x # q.chosen PROVE ~Fitting(p, x)
      BY <1>8
    <3>1. CASE x = r
      BY <1>3, <1>7, <3>1
    <3>2. CASE x # r
      <4>1. x \in p.seen /\ x # Nobody
        BY <1>1, <1>7, <3>2, ListedIs DEF Pick
      <4> QED BY <1>1, <4>1 DEF Books
    <3> QED BY <3>1, <3>2
  <2>5. \A i \in DOMAIN q.tooBig : q.tooBig[i] \in q.seen /\ TooBig(q, q.tooBig[i])
    <3>1. CASE arm = "too big"
      <4>1. q.tooBig = Append(p.tooBig, r) /\ TooBig(q, r) /\ r \in q.seen
        BY <1>3, <1>7, <1>8, <3>1
      <4>2. \A i \in 1..Len(p.tooBig) : p.tooBig[i] \in q.seen /\ TooBig(q, p.tooBig[i])
        BY <1>5, <1>7, <1>8 DEF Books
      <4>3. \A i \in 1..(Len(p.tooBig) + 1) : i \in 1..Len(p.tooBig) \/ i = Len(p.tooBig) + 1
        BY <1>5
      <4> QED BY <1>5, <4>1, <4>2, <4>3
    <3>2. CASE arm # "too big"
      BY <1>7, <1>8, <3>2 DEF Books
    <3> QED BY <3>1, <3>2
  <2>6. \A x \in q.seen : TooBig(q, x) => \E i \in DOMAIN q.tooBig : q.tooBig[i] = x
    <3> SUFFICES ASSUME NEW x \in q.seen, TooBig(p, x) PROVE \E i \in DOMAIN q.tooBig : q.tooBig[i] = x
      BY <1>8
    <3>1. CASE x = r
      <4>1. q.tooBig = Append(p.tooBig, r)
        BY <1>3, <1>7, <3>1
      <4>2. Len(p.tooBig) + 1 \in DOMAIN q.tooBig
        BY <1>5, <4>1
      <4> QED BY <1>5, <3>1, <4>1, <4>2
    <3>2. CASE x # r
      <4>1. x \in p.seen
        BY <1>7, <3>2
      <4>2. PICK i \in 1..Len(p.tooBig) : p.tooBig[i] = x
        BY <1>5, <4>1 DEF Books
      <4>3. CASE arm = "too big"
        <5>1. q.tooBig = Append(p.tooBig, r)
          BY <1>7, <4>3
        <5>2. i \in 1..(Len(p.tooBig) + 1)
          BY <1>5
        <5>3. i \in DOMAIN q.tooBig /\ q.tooBig[i] = x
          BY <1>5, <4>2, <5>1, <5>2
        <5> QED BY <5>3
      <4>4. CASE arm # "too big"
        BY <1>5, <1>7, <4>2, <4>4
      <4> QED BY <4>3, <4>4
    <3> QED BY <3>1, <3>2
  <2>7. q.fallback # Nobody => q.fallback \in q.seen /\ Unshown(q, q.fallback)
    BY <1>3, <1>7, <1>8 DEF Books
  <2>8. q.fallback = Nobody => \A x \in q.seen : ~Unshown(q, x)
    BY <1>1, <1>3, <1>7, <1>8 DEF Books
  <2> QED BY <2>1, <2>2, <2>3, <2>4, <2>5, <2>6, <2>7, <2>8 DEF Books
<1>12. q.chosen # Nobody => q.chosen = r /\ q.phase = "decided"
  BY <1>7 DEF ends
<1> QED BY <1>6, <1>7, <1>9, <1>10, <1>11, <1>12 DEF q, arm, r

-----------------------------------------------------------------------------
(* What is decided *)

\* The first, of those with the least number.
LEMMA LeastAt ==
  ASSUME NEW I, I \subseteq Nat, I # {}, NEW v \in [I -> Nat]
  PROVE  \E i \in I : \A j \in I : v[i] < v[j] \/ (v[i] = v[j] /\ i <= j)
<1> DEFINE M == {v[i] : i \in I}
           J == {i \in I : v[i] = Min(M)}
<1>1. M \subseteq Nat /\ M # {}
  OBVIOUS
<1>2. Min(M) \in M /\ \A k \in M : Min(M) <= k
  <2> HIDE DEF M
  <2> QED BY <1>1, Lowest
<1>3. J \subseteq Nat /\ J # {}
  BY <1>2
<1>4. Min(J) \in J /\ \A k \in J : Min(J) <= k
  <2> HIDE DEF J
  <2> QED BY <1>3, Lowest
<1>5. \A j \in I : v[j] \in Nat /\ Min(M) <= v[j] /\ (v[j] = Min(M) => Min(J) <= j)
  BY <1>2, <1>4
<1>6. Min(J) \in I /\ v[Min(J)] = Min(M) /\ Min(M) \in Nat
  BY <1>1, <1>2, <1>4
<1> HIDE DEF M, J
<1> DEFINE i == Min(J)
<1>7. i \in I /\ \A j \in I : v[i] < v[j] \/ (v[i] = v[j] /\ i <= j)
  <2> SUFFICES ASSUME NEW j \in I PROVE v[i] < v[j] \/ (v[i] = v[j] /\ i <= j)
    BY <1>6
  <2>1. v[j] \in Nat /\ v[i] \in Nat /\ v[i] <= v[j] /\ (v[j] = v[i] => i <= j)
    BY <1>5, <1>6
  <2> QED BY <2>1
<1> HIDE DEF i
<1> QED BY <1>7

LEMMA RateIs == ASSUME NEW w \in Wants PROVE PresetRate(Link(w)) \in Nat
<1> DEFINE link    == Link(w)
           carries == IF link = NoLink THEN 0
                      ELSE IF link > AudioMax THEN (2 * (link - AudioMax)) \div 3 ELSE 0
           fitting == {i \in DOMAIN Presets : Smaller(Presets[i].rate, carries) >= Presets[i].floor}
           first   == CHOOSE i \in fitting : \A j \in fitting : i <= j
<1>1. /\ \A i \in DOMAIN Presets : Presets[i].rate \in Nat /\ i \in Nat
      /\ 1 \in DOMAIN Presets /\ AudioMax \in Nat
  <2>1. Presets \in Seq([rate : Nat, floor : Nat]) /\ Presets # <<>> /\ AudioMax \in Nat
    BY PresetsAssumption
  <2>2. DOMAIN Presets = 1..Len(Presets) /\ Len(Presets) \in Nat
    BY <2>1
  <2>3. Len(Presets) # 0
    BY <2>1, EmptySeq
  <2>4. \A i \in 1..Len(Presets) : Presets[i] \in [rate : Nat, floor : Nat]
    BY <2>1, ElementOfSeq
  <2> QED BY <2>1, <2>2, <2>3, <2>4
<1>2. link \in Nat \/ link = NoLink
  <2>1. (w.link \in Nat \/ w.link = NoLink) /\ w.others \in Nat /\ (Uplink \in Nat \/ Uplink = NoLink)
    <3>1. w \in Want /\ (Uplink \in Nat \/ Uplink = NoLink)
      BY PickingAssumption
    <3> QED BY <3>1 DEF Want
  <2> QED BY <2>1 DEF Link, Budgeted, Smaller
<1>3. carries \in Nat
  <2> HIDE DEF link
  <2>1. CASE link = NoLink \/ ~(link > AudioMax)
    BY <2>1
  <2>2. CASE link # NoLink /\ link > AudioMax
    <3>1. link - AudioMax \in Nat
      BY <1>1, <1>2, <2>2
    <3>2. (2 * (link - AudioMax)) \div 3 \in Nat
      BY <3>1
    <3> QED BY <2>2, <3>2
  <2> QED BY <2>1, <2>2
<1>4. PresetRate(link) = IF link = NoLink THEN Presets[1].rate
                         ELSE IF fitting = {} THEN 0 ELSE Smaller(Presets[first].rate, carries)
  BY DEF PresetRate
<1> HIDE DEF link, carries
<1>5. CASE link # NoLink /\ fitting # {}
  <2>1. fitting \subseteq Nat /\ fitting \subseteq DOMAIN Presets
    BY <1>1
  <2>2. first = Min(fitting)
    BY DEF Min
  <2> HIDE DEF fitting, first
  <2>3. first \in DOMAIN Presets
    BY <1>5, <2>1, <2>2, Lowest
  <2>4. Smaller(Presets[first].rate, carries) \in Nat
    BY <1>1, <1>3, <2>3 DEF Smaller
  <2> QED BY <1>4, <1>5, <2>4 DEF link
<1>6. CASE ~(link # NoLink /\ fitting # {})
  <2> HIDE DEF fitting, first
  <2> QED BY <1>1, <1>4, <1>6 DEF link
<1> QED BY <1>5, <1>6

\* Each copy too big for the link has a place in the list, and numbers.
LEMMA AsideIs ==
  ASSUME NEW p \in Pick, Known(p), Books(p)
  PROVE  /\ DOMAIN p.tooBig \subseteq Nat
         /\ \A i \in DOMAIN p.tooBig :
              /\ p.tooBig[i] \in Listed /\ p.tooBig[i] \in Media
              /\ p.asks[p.tooBig[i]].need \in Nat
              /\ p.asks[p.tooBig[i]].wait \in Nat \cup {NoIndex}
<1>1. /\ p.tooBig \in Seq(Listed) /\ p.asks \in [Media -> [need : Nat, wait : Nat \cup {NoIndex}]]
      /\ \A i \in DOMAIN p.tooBig : p.tooBig[i] \in Listed
  BY DEF Pick
<1>2. DOMAIN p.tooBig \subseteq Nat
  BY <1>1
<1>3. ASSUME NEW i \in DOMAIN p.tooBig PROVE p.tooBig[i] \in Media
  <2>1. p.tooBig[i] \in Rel /\ p.answer[p.tooBig[i]] = "ok"
    BY <1>1, ListedIs DEF Books, TooBig
  <2>2. p.tooBig[i] \in Playable
    BY <2>1 DEF Known
  <2> QED BY <2>2 DEF Playable, RefusedVideo, Media
<1> QED BY <1>1, <1>2, <1>3

\* So `Least` is one of those it is asked to choose among.
LEMMA LeastIs ==
  ASSUME NEW p \in Pick, NEW I, I \subseteq Nat, I # {}, NEW what, \A i \in I : p.asks[p.tooBig[i]][what] \in Nat
  PROVE  \E i \in I : Least(p, I, what) = p.tooBig[i]
<1> DEFINE v == [i \in I |-> p.asks[p.tooBig[i]][what]]
           Ask(i) == p.asks[p.tooBig[i]][what]
           Good(i) == \A j \in I : Ask(i) < Ask(j) \/ (Ask(i) = Ask(j) /\ i <= j)
<1>1. v \in [I -> Nat]
  OBVIOUS
<1>2. \E i \in I : \A j \in I : v[i] < v[j] \/ (v[i] = v[j] /\ i <= j)
  <2> HIDE DEF v
  <2> QED BY <1>1, LeastAt
<1>3. PICK i \in I : \A j \in I : v[i] < v[j] \/ (v[i] = v[j] /\ i <= j)
  BY <1>2
<1>4. Good(i)
  BY <1>3
<1> HIDE DEF v, Good
<1>5. (CHOOSE k \in I : Good(k)) \in I
  BY <1>4, Zenon
<1>6. Least(p, I, what) = p.tooBig[CHOOSE k \in I : Good(k)]
  BY DEF Least, Good
<1> QED BY <1>5, <1>6

LEMMA ShortestWait ==
  ASSUME NEW p \in Pick, Known(p), Books(p), WaitsLonger(p) # {}
  PROVE  \E i \in WaitsLonger(p) : Least(p, WaitsLonger(p), "wait") = p.tooBig[i]
<1>1. WaitsLonger(p) \subseteq Nat /\ \A i \in WaitsLonger(p) : p.asks[p.tooBig[i]].wait \in Nat
  BY AsideIs DEF WaitsLonger, ShortWait
<1>2. \A i \in WaitsLonger(p) : p.asks[p.tooBig[i]]["wait"] \in Nat
  BY <1>1
<1> QED BY <1>1, <1>2, LeastIs

\* What is left of a sequence without one of it are the others.
LEMMA RemovedIs ==
  ASSUME NEW S, NEW q \in Seq(S), NEW r
  PROVE  RemoveFirst(q, r) \in Seq(S)
<1>1. CASE ~(\E i \in 1..Len(q) : q[i] = r)
  BY <1>1 DEF RemoveFirst
<1>2. CASE \E i \in 1..Len(q) : q[i] = r
  <2> DEFINE I == {i \in 1..Len(q) : q[i] = r}
             k == Min(I)
  <2>1. k \in 1..Len(q)
    <3>1. I \subseteq Nat /\ I # {} /\ I \subseteq 1..Len(q)
      BY <1>2
    <3> HIDE DEF I
    <3> QED BY <3>1, Lowest
  <2>2. SelectInSeq(q, LAMBDA v : v = r) = k
    BY <1>2 DEF SelectInSeq
  <2>3. RemoveFirst(q, r) = SubSeq(q, 1, k - 1) \o SubSeq(q, k + 1, Len(q))
    BY <1>2, <2>2 DEF RemoveFirst, RemoveAt
  <2> HIDE DEF k
  <2>4. /\ Len(q) \in Nat /\ k \in Nat
        /\ \A i \in 1..(k - 1) : q[i] \in S
        /\ \A i \in (k + 1)..Len(q) : q[i] \in S
    BY <2>1
  <2>5. SubSeq(q, 1, k - 1) \in Seq(S) /\ SubSeq(q, k + 1, Len(q)) \in Seq(S)
    BY <2>4, SubSeqProperties
  <2> QED BY <2>3, <2>5, ConcatProperties
<1> QED BY <1>1, <1>2

\* The copy that starves least is one of those too big, though the one no GPU converts
\* is put last of them.
LEMMA LeastNeed ==
  ASSUME NEW p \in Pick, Known(p), Books(p), p.tooBig # <<>>, NEW gpu, NEW c,
         c # Nobody /\ p.fallback = Nobody => \E i \in DOMAIN p.tooBig : p.tooBig[i] = c
  PROVE  LET left == Starving(p, gpu, c) IN
         \E i \in DOMAIN p.tooBig : Least(left, DOMAIN left.tooBig, "need") = p.tooBig[i]
<1> DEFINE R    == {p.tooBig[i] : i \in DOMAIN p.tooBig}
           left == Starving(p, gpu, c)
           I    == DOMAIN left.tooBig
<1>1. R \subseteq Listed /\ \A r \in R : p.asks[r].need \in Nat
  BY AsideIs
<1>2. p.tooBig \in Seq(Listed) /\ p.tooBig \in Seq(R)
  <2>1. p.tooBig \in Seq(Listed)
    BY DEF Pick
  <2> QED BY <2>1
<1>3. left \in Pick /\ left.asks = p.asks /\ left.tooBig \in Seq(R) /\ left.tooBig # <<>>
  <2>1. CASE c # Nobody /\ p.fallback = Nobody /\ ~gpu
    <3> DEFINE rest == RemoveFirst(p.tooBig, c)
    <3>1. c \in R
      BY <2>1
    <3>2. rest \in Seq(R)
      BY <1>2, RemovedIs
    <3> HIDE DEF rest, R
    <3>3. Append(rest, c) \in Seq(R) /\ Append(rest, c) # <<>>
      BY <3>1, <3>2, AppendProperties
    <3>4. Append(rest, c) \in Seq(Listed)
      BY <1>1, <3>3, SeqMonotonic
    <3>5. left = [p EXCEPT !.tooBig = Append(rest, c)]
      BY <2>1 DEF Starving, rest
    <3> HIDE DEF left
    <3> QED BY <3>3, <3>4, <3>5 DEF Pick
  <2>2. CASE ~(c # Nobody /\ p.fallback = Nobody /\ ~gpu)
    BY <1>2, <2>2 DEF Starving
  <2> QED BY <2>1, <2>2
<1>4. I \subseteq Nat /\ I # {}
  <2> HIDE DEF left, R
  <2> DEFINE t == left.tooBig
  <2>1. t \in Seq(R) /\ t # <<>>
    BY <1>3
  <2> HIDE DEF t
  <2>2. Len(t) \in Nat \ {0} /\ DOMAIN t = 1..Len(t)
    BY <2>1, EmptySeq, LenProperties
  <2>3. 1 \in DOMAIN t /\ DOMAIN t \subseteq Nat
    BY <2>2
  <2> QED BY <2>3 DEF t
<1>5. \A i \in I : left.tooBig[i] \in R
  <2> HIDE DEF left, R
  <2> QED BY <1>3
<1>6. \A i \in I : left.asks[left.tooBig[i]]["need"] \in Nat
  <2> HIDE DEF left, R, I
  <2> QED BY <1>1, <1>3, <1>5
<1>7. \E i \in I : Least(left, I, "need") = left.tooBig[i]
  <2> HIDE DEF left, R, I
  <2> QED BY <1>3, <1>4, <1>6, LeastIs
<1>8. Least(left, I, "need") \in R
  <2> HIDE DEF left, R, I
  <2> QED BY <1>5, <1>7
<1> QED BY <1>8

\* What an open answered of it, of the releases looked at.
Good(p) == {r \in p.seen : p.answer[r] = "ok"}
Best(p, as, rel, gpu) ==
  LET best == Min({6} \cup UNION {Rungs(p, r, gpu) : r \in Good(p)})
  IN /\ best \in RungsOf(as)
     /\ best # 6 => rel \in Good(p) /\ best \in Rungs(p, rel, gpu)

\* The best rung is the lowest any of them is on.
LEMMA BestIs ==
  ASSUME NEW p, NEW gpu, NEW k \in 1..5, NEW rel \in Good(p), k \in Rungs(p, rel, gpu), NEW as, k \in RungsOf(as),
         \A r \in Good(p) : \A j \in Rungs(p, r, gpu) : ~(j < k)
  PROVE  Best(p, as, rel, gpu)
<1> DEFINE U == {6} \cup UNION {Rungs(p, r, gpu) : r \in Good(p)}
<1>1. U \subseteq Nat /\ U # {} /\ k \in U
  <2>1. \A r : Rungs(p, r, gpu) \subseteq 1..5
    BY DEF Rungs
  <2> QED BY <2>1
<1>2. \A j \in U : k <= j
  <2> SUFFICES ASSUME NEW j \in U PROVE k <= j
    OBVIOUS
  <2>1. j = 6 \/ \E r \in Good(p) : j \in Rungs(p, r, gpu)
    OBVIOUS
  <2>2. j \in Nat
    BY <1>1
  <2> QED BY <2>1, <2>2
<1>3. Best(p, as, rel, gpu) <=> (Min(U) \in RungsOf(as) /\ (Min(U) # 6 => rel \in Good(p) /\ Min(U) \in Rungs(p, rel, gpu)))
  BY DEF Best
<1> HIDE DEF U
<1>4. Min(U) = k
  <2>1. Min(U) \in U /\ \A j \in U : Min(U) <= j
    BY <1>1, Lowest
  <2>2. Min(U) \in Nat /\ Min(U) <= k /\ k <= Min(U)
    BY <1>1, <1>2, <2>1
  <2> QED BY <2>2
<1> QED BY <1>3, <1>4

LEMMA NoneIs ==
  ASSUME NEW p, NEW gpu, NEW as, 6 \in RungsOf(as), NEW rel,
         \A r \in Good(p) : Rungs(p, r, gpu) = {}
  PROVE  Best(p, as, rel, gpu)
<1> DEFINE U == {6} \cup UNION {Rungs(p, r, gpu) : r \in Good(p)}
<1>1. U = {6}
  OBVIOUS
<1>2. Min({6}) = 6
  BY Lowest
<1> QED BY <1>1, <1>2 DEF Best

\* The rungs, one by one.
LEMMA RungIs ==
  ASSUME NEW p, NEW r, NEW gpu
  PROVE  LET w == p.want
             rate == PresetRate(Link(w))
         IN
         /\ Rungs(p, r, gpu) \subseteq 1..5
         /\ 1 \in Rungs(p, r, gpu) <=> Shown(w, r) /\ ~Heavy(p, r)
         /\ 2 \in Rungs(p, r, gpu) <=> Shown(w, r) /\ ~w.fitsOnly /\ ShortWait(w, p.asks[r].wait)
         /\ 3 \in Rungs(p, r, gpu) <=> Convertible(w, r, gpu) /\ rate > 0 /\ (Shown(w, r) => p.asks[r].need > rate)
         /\ 4 \in Rungs(p, r, gpu) <=> Shown(w, r) /\ ~w.fitsOnly
         /\ 5 \in Rungs(p, r, gpu) <=> Convertible(w, r, gpu) /\ rate = 0 /\ ~Shown(w, r)
BY DEF Rungs, Heavy

\* What the loop's end says of the rungs: of what it looked at, no copy fits unless one
\* was chosen; one is too big for the link if any is shown at all.
LEMMA NoneFits ==
  ASSUME NEW p \in Pick, Books(p), p.chosen = Nobody, NEW gpu, NEW r \in Good(p)
  PROVE  /\ 1 \notin Rungs(p, r, gpu)
         /\ 4 \in Rungs(p, r, gpu) => p.tooBig # <<>>
         /\ 2 \in Rungs(p, r, gpu) => ~p.want.fitsOnly /\ WaitsLonger(p) # {}
         /\ Shown(p.want, r) => \E i \in DOMAIN p.tooBig : p.tooBig[i] = r
<1>1. r \in p.seen /\ r # p.chosen /\ p.answer[r] = "ok"
  <2>1. Nobody \notin Listed
    BY ListedIs, PickingAssumption
  <2> QED BY <2>1 DEF Good, Pick
<1>2. ~Fitting(p, r)
  BY <1>1 DEF Books
<1>3. Shown(p.want, r) => TooBig(p, r)
  BY <1>1, <1>2 DEF Fitting, TooBig
<1>4. Shown(p.want, r) => \E i \in DOMAIN p.tooBig : p.tooBig[i] = r
  BY <1>1, <1>3 DEF Books
<1>5. 1 \notin Rungs(p, r, gpu)
  BY <1>1, <1>2, RungIs DEF Fitting
<1>6. 4 \in Rungs(p, r, gpu) => p.tooBig # <<>>
  BY <1>4, RungIs
<1>7. 2 \in Rungs(p, r, gpu) => ~p.want.fitsOnly /\ WaitsLonger(p) # {}
  BY <1>4, RungIs DEF WaitsLonger
<1> QED BY <1>4, <1>5, <1>6, <1>7

\* What may be converted: where the link takes a preset, what is shown but needs more
\* than it, and what is not shown; where it takes none, what is not shown, if there is
\* no copy at all.
LEMMA ConvertedIs ==
  ASSUME NEW p \in Pick, Known(p), Books(p), p.chosen = Nobody
  PROVE  LET c == Converted(p)
             rate == PresetRate(Link(p.want))
         IN
         /\ rate \in Nat
         /\ c # Nobody => /\ c \in Good(p) /\ Convertible(p.want, c, TRUE)
                          /\ rate > 0 => (Shown(p.want, c) => p.asks[c].need > rate)
                          /\ rate = 0 => ~Shown(p.want, c) /\ p.tooBig = <<>>
                          /\ Shown(p.want, c) \/ Unshown(p, c)
         /\ c # Nobody /\ p.fallback = Nobody => \E i \in DOMAIN p.tooBig : p.tooBig[i] = c
         /\ \A r \in Good(p) : 3 \in Rungs(p, r, TRUE) => c # Nobody
         /\ \A r \in Good(p) : 5 \in Rungs(p, r, TRUE) /\ p.tooBig = <<>> => c # Nobody
<1> DEFINE link   == PresetRate(Link(p.want))
           fits   == link > 0
           rate   == IF fits THEN link ELSE Presets[Len(Presets)].rate
           Bigger == {i \in DOMAIN p.tooBig : File[p.tooBig[i]].info.video = "hevc" /\ p.asks[p.tooBig[i]].need > rate}
           c      == Converted(p)
<1>1. link \in Nat
  <2>1. p.want \in Wants
    BY DEF Pick
  <2> QED BY <2>1, RateIs
<1>2. c = IF ~MayConvert(p.want) \/ ~(fits \/ p.tooBig = <<>>) THEN Nobody
          ELSE IF p.fallback # Nobody THEN p.fallback
          ELSE IF Bigger # {} THEN p.tooBig[Min(Bigger)] ELSE Nobody
  BY DEF Converted
<1>3. Bigger # {} => Min(Bigger) \in Bigger
  <2>1. Bigger \subseteq Nat
    BY AsideIs
  <2> HIDE DEF Bigger
  <2> QED BY <2>1, Lowest
<1>4. /\ \A i \in DOMAIN p.tooBig : p.tooBig[i] \in p.seen /\ TooBig(p, p.tooBig[i])
      /\ p.fallback # Nobody => p.fallback \in p.seen /\ Unshown(p, p.fallback)
      /\ p.fallback = Nobody => \A r \in p.seen : ~Unshown(p, r)
  BY DEF Books
<1> HIDE DEF link, c
<1>5. ASSUME c # Nobody
      PROVE  /\ MayConvert(p.want) /\ (fits \/ p.tooBig = <<>>)
             /\ \/ p.fallback # Nobody /\ c = p.fallback
                \/ p.fallback = Nobody /\ \E i \in Bigger : c = p.tooBig[i]
  <2> HIDE DEF Bigger
  <2> QED BY <1>2, <1>3, <1>5
<1>6. ASSUME c # Nobody
      PROVE  /\ c \in Good(p) /\ Convertible(p.want, c, TRUE)
             /\ link > 0 => (Shown(p.want, c) => p.asks[c].need > link)
             /\ link = 0 => ~Shown(p.want, c) /\ p.tooBig = <<>>
             /\ Shown(p.want, c) \/ Unshown(p, c)
  <2>1. CASE p.fallback # Nobody /\ c = p.fallback
    <3>1. c \in p.seen /\ Unshown(p, c)
      BY <1>4, <2>1
    <3>2. c \in Good(p) /\ Convertible(p.want, c, TRUE) /\ ~Shown(p.want, c)
      BY <1>5, <1>6, <3>1 DEF Unshown, Good, Convertible, Shown
    <3>3. link = 0 => p.tooBig = <<>>
      <4>1. fits \/ p.tooBig = <<>>
        BY <1>5, <1>6
      <4> QED BY <1>1, <4>1
    <3> HIDE DEF Bigger, rate, fits
    <3> QED BY <3>1, <3>2, <3>3
  <2>2. CASE p.fallback = Nobody /\ \E i \in Bigger : c = p.tooBig[i]
    <3>1. PICK i \in Bigger : c = p.tooBig[i]
      BY <2>2
    <3>2. /\ i \in DOMAIN p.tooBig /\ c \in p.seen /\ TooBig(p, c)
          /\ File[c].info.video = "hevc" /\ p.asks[c].need > rate
      BY <1>4, <3>1
    <3>3. c \in Good(p) /\ Shown(p.want, c) /\ Convertible(p.want, c, TRUE)
      BY <1>5, <1>6, <3>2 DEF TooBig, Good, Convertible, Shown
    <3>4. p.tooBig # <<>>
      BY <3>2
    <3>5. fits
      BY <1>5, <1>6, <3>4
    <3>6. rate = link /\ link > 0 /\ link # 0
      BY <1>1, <3>5
    <3> HIDE DEF Bigger, rate, fits
    <3> QED BY <3>2, <3>3, <3>6
  <2> QED BY <1>5, <1>6, <2>1, <2>2
<1>7. c # Nobody /\ p.fallback = Nobody => \E i \in DOMAIN p.tooBig : p.tooBig[i] = c
  BY <1>5
<1>8. ASSUME NEW r \in Good(p), 3 \in Rungs(p, r, TRUE)
      PROVE  c # Nobody
  <2>1. Convertible(p.want, r, TRUE) /\ fits /\ (Shown(p.want, r) => p.asks[r].need > link)
    BY <1>8, RungIs DEF link
  <2>2. MayConvert(p.want) /\ File[r].info.video = "hevc" /\ ~NoPicture(p.want.player, Hevc(p.want), File[r].info)
    BY <2>1 DEF Convertible
  <2>3. CASE p.fallback # Nobody
    BY <1>2, <2>1, <2>2, <2>3
  <2>4. CASE p.fallback = Nobody
    <3>1. Shown(p.want, r)
      BY <1>4, <2>2, <2>4 DEF Unshown, Shown, Good
    <3>2. PICK i \in DOMAIN p.tooBig : p.tooBig[i] = r
      BY <1>8, <3>1, NoneFits
    <3>3. i \in Bigger
      BY <2>1, <2>2, <3>1, <3>2
    <3>4. c = p.tooBig[Min(Bigger)] /\ Min(Bigger) \in DOMAIN p.tooBig
      BY <1>2, <1>3, <2>1, <2>2, <2>4, <3>3
    <3>5. p.tooBig[Min(Bigger)] \in Listed /\ Nobody \notin Listed
      BY <3>4, AsideIs, ListedIs, PickingAssumption
    <3> QED BY <3>4, <3>5
  <2> QED BY <2>3, <2>4
<1>9. ASSUME NEW r \in Good(p), 5 \in Rungs(p, r, TRUE), p.tooBig = <<>>
      PROVE  c # Nobody
  <2>1. Convertible(p.want, r, TRUE) /\ ~Shown(p.want, r)
    BY <1>9, RungIs
  <2>2. r \in p.seen /\ Unshown(p, r) /\ MayConvert(p.want)
    BY <2>1 DEF Convertible, Unshown, Shown, Good
  <2>3. p.fallback # Nobody
    BY <1>4, <2>2
  <2> QED BY <1>2, <1>9, <2>2, <2>3
<1> QED BY <1>1, <1>6, <1>7, <1>8, <1>9 DEF c, link

\* What is answered: release `rel`, played `as`, or neither where its track is not there.
MadeOf(p, gpu, as, rel) ==
  [as |-> IF rel # Nobody /\ p.want.track > Len(File[rel].audio) THEN "bad_audio_track" ELSE as,
   rel |-> rel, gpu |-> gpu]
Chosen(p, gpu, as, rel) ==
  /\ as \in Endings \ {"none", "bad_audio_track"} /\ rel \in Listed \cup {Nobody}
  /\ as = "copy" => rel = p.chosen /\ rel # Nobody
  /\ rel # Nobody => rel \in Good(p) /\ (Shown(p.want, rel) \/ (Unshown(p, rel) /\ as = "transcode"))
  /\ Best(p, as, rel, gpu)

\* The five ways a pick ends.
LEMMA OutcomeCases ==
  ASSUME NEW p, NEW gpu, NEW c
  PROVE  LET waits == p.chosen = Nobody /\ ~p.want.fitsOnly /\ WaitsLonger(p) # {}
             rest  == p.chosen = Nobody /\ ~waits
             left  == Starving(p, gpu, c)
             out   == Outcome(p, gpu, c)
         IN
         /\ p.chosen # Nobody => out = MadeOf(p, gpu, "copy", p.chosen)
         /\ waits => out = MadeOf(p, gpu, "long wait", Least(p, WaitsLonger(p), "wait"))
         /\ rest /\ c # Nobody /\ gpu => out = MadeOf(p, gpu, "transcode", c)
         /\ rest /\ ~(c # Nobody /\ gpu) /\ ~p.want.fitsOnly /\ p.tooBig # <<>> =>
              out = MadeOf(p, gpu, "starving", Least(left, DOMAIN left.tooBig, "need"))
         /\ rest /\ ~(c # Nobody /\ gpu) /\ ~(~p.want.fitsOnly /\ p.tooBig # <<>>) =>
              out = MadeOf(p, gpu, Refusal(p, gpu, c), Nobody)
BY DEF Outcome, MadeOf

LEMMA RefusalIs ==
  ASSUME NEW p, NEW gpu, NEW c
  PROVE  Refusal(p, gpu, c) \in {"no_fitting_copy", "no_copy", "no_playable_release"}
BY DEF Refusal

\* It is the best of what was looked at, whichever way.
LEMMA OutcomeIs ==
  ASSUME NEW p \in Pick, Known(p), Books(p), NEW gpu \in BOOLEAN
  PROVE  \E as, rel : Outcome(p, gpu, Converted(p)) = MadeOf(p, gpu, as, rel) /\ Chosen(p, gpu, as, rel)
<1> DEFINE c     == Converted(p)
           waits == p.chosen = Nobody /\ ~p.want.fitsOnly /\ WaitsLonger(p) # {}
           rest  == p.chosen = Nobody /\ ~waits
           left  == Starving(p, gpu, c)
           lightest == Least(left, DOMAIN left.tooBig, "need")
<1>1. /\ Nobody \notin Listed
      /\ \A i \in DOMAIN p.tooBig : /\ p.tooBig[i] \in Good(p) /\ p.tooBig[i] \in Listed
                                    /\ Shown(p.want, p.tooBig[i])
  <2>1. Nobody \notin Listed
    BY ListedIs, PickingAssumption
  <2> QED BY <2>1, AsideIs DEF Books, Good, TooBig
<1>2. Good(p) \subseteq Listed
  BY DEF Good, Pick
<1>3. CASE p.chosen # Nobody
  <2>1. p.chosen \in Good(p) /\ p.chosen \in Listed /\ Shown(p.want, p.chosen) /\ ~Heavy(p, p.chosen)
    BY <1>2, <1>3 DEF Books, Fitting, Good
  <2>2. 1 \in Rungs(p, p.chosen, gpu)
    BY <2>1, RungIs
  <2>3. \A r \in Good(p) : \A j \in Rungs(p, r, gpu) : ~(j < 1)
    BY RungIs
  <2>4. 1 \in RungsOf("copy") /\ 1 \in 1..5
    BY DEF RungsOf
  <2>5. Best(p, "copy", p.chosen, gpu)
    BY <2>1, <2>2, <2>3, <2>4, BestIs
  <2>6. Chosen(p, gpu, "copy", p.chosen)
    BY <1>3, <2>1, <2>5 DEF Chosen, Endings
  <2>7. Outcome(p, gpu, c) = MadeOf(p, gpu, "copy", p.chosen)
    BY <1>3, OutcomeCases
  <2> QED BY <2>6, <2>7
<1>4. CASE waits
  <2> DEFINE rel == Least(p, WaitsLonger(p), "wait")
  <2>1. PICK i \in WaitsLonger(p) : rel = p.tooBig[i]
    BY <1>4, ShortestWait
  <2>2. i \in DOMAIN p.tooBig /\ ShortWait(p.want, p.asks[rel].wait)
    BY <2>1 DEF WaitsLonger
  <2>3. rel \in Good(p) /\ rel \in Listed /\ Shown(p.want, rel)
    BY <1>1, <2>1, <2>2
  <2> HIDE DEF rel
  <2>4. 2 \in Rungs(p, rel, gpu)
    BY <1>4, <2>2, <2>3, RungIs
  <2>5. \A r \in Good(p) : \A j \in Rungs(p, r, gpu) : ~(j < 2)
    <3> SUFFICES ASSUME NEW r \in Good(p), NEW j \in Rungs(p, r, gpu), j < 2 PROVE FALSE
      OBVIOUS
    <3>1. j \in 1..5
      BY RungIs
    <3>2. j = 1
      BY <3>1
    <3> QED BY <1>4, <3>2, NoneFits
  <2>6. 2 \in RungsOf("long wait") /\ 2 \in 1..5
    BY DEF RungsOf
  <2>7. Best(p, "long wait", rel, gpu)
    BY <2>3, <2>4, <2>5, <2>6, BestIs
  <2>8. Chosen(p, gpu, "long wait", rel)
    BY <2>3, <2>7 DEF Chosen, Endings
  <2>9. Outcome(p, gpu, c) = MadeOf(p, gpu, "long wait", rel)
    BY <1>4, OutcomeCases DEF rel
  <2> QED BY <2>8, <2>9
<1>5. ASSUME rest, NEW r \in Good(p)
      PROVE  /\ 1 \notin Rungs(p, r, gpu) /\ 2 \notin Rungs(p, r, gpu)
             /\ 4 \in Rungs(p, r, gpu) => ~p.want.fitsOnly /\ p.tooBig # <<>>
  BY <1>5, NoneFits, RungIs
<1>6. ASSUME rest
      PROVE  /\ PresetRate(Link(p.want)) \in Nat
             /\ c # Nobody => /\ c \in Good(p) /\ Convertible(p.want, c, TRUE)
                              /\ PresetRate(Link(p.want)) > 0 => (Shown(p.want, c) => p.asks[c].need > PresetRate(Link(p.want)))
                              /\ PresetRate(Link(p.want)) = 0 => ~Shown(p.want, c) /\ p.tooBig = <<>>
                              /\ Shown(p.want, c) \/ Unshown(p, c)
             /\ c # Nobody /\ p.fallback = Nobody => \E i \in DOMAIN p.tooBig : p.tooBig[i] = c
             /\ \A r \in Good(p) : 3 \in Rungs(p, r, TRUE) => c # Nobody
             /\ \A r \in Good(p) : 5 \in Rungs(p, r, TRUE) /\ p.tooBig = <<>> => c # Nobody
  BY <1>6, ConvertedIs
<1> HIDE DEF c
<1>7. CASE rest /\ c # Nobody /\ gpu
  <2> DEFINE rate == PresetRate(Link(p.want))
  <2>1. c \in Good(p) /\ c \in Listed /\ Convertible(p.want, c, gpu) /\ (Shown(p.want, c) \/ Unshown(p, c))
    BY <1>2, <1>6, <1>7 DEF Convertible
  <2>2. Best(p, "transcode", c, gpu)
    <3>1. CASE rate > 0
      <4>1. 3 \in Rungs(p, c, gpu)
        BY <1>6, <1>7, <2>1, <3>1, RungIs
      <4>2. \A r \in Good(p) : \A j \in Rungs(p, r, gpu) : ~(j < 3)
        <5> SUFFICES ASSUME NEW r \in Good(p), NEW j \in Rungs(p, r, gpu), j < 3 PROVE FALSE
          OBVIOUS
        <5>1. j \in 1..5
          BY RungIs
        <5>2. j = 1 \/ j = 2
          BY <5>1
        <5> QED BY <1>5, <1>7, <5>2
      <4>3. 3 \in RungsOf("transcode") /\ 3 \in 1..5
        BY DEF RungsOf
      <4> QED BY <2>1, <4>1, <4>2, <4>3, BestIs
    <3>2. CASE rate = 0
      <4>1. ~Shown(p.want, c) /\ p.tooBig = <<>>
        BY <1>6, <1>7, <3>2
      <4>2. 5 \in Rungs(p, c, gpu)
        BY <2>1, <3>2, <4>1, RungIs
      <4>3. \A r \in Good(p) : \A j \in Rungs(p, r, gpu) : ~(j < 5)
        <5> SUFFICES ASSUME NEW r \in Good(p), NEW j \in Rungs(p, r, gpu), j < 5 PROVE FALSE
          OBVIOUS
        <5>1. j \in 1..5
          BY RungIs
        <5>2. j \in {1, 2, 3, 4}
          BY <5>1
        <5>3. 3 \notin Rungs(p, r, gpu)
          BY <3>2, RungIs
        <5> QED BY <1>5, <1>7, <4>1, <5>2, <5>3
      <4>4. 5 \in RungsOf("transcode") /\ 5 \in 1..5
        BY DEF RungsOf
      <4> QED BY <2>1, <4>2, <4>3, <4>4, BestIs
    <3>3. rate \in Nat
      BY <1>6, <1>7
    <3> HIDE DEF rate
    <3>4. rate > 0 \/ rate = 0
      BY <3>3
    <3> QED BY <3>1, <3>2, <3>4
  <2>3. Chosen(p, gpu, "transcode", c)
    BY <1>1, <1>7, <2>1, <2>2 DEF Chosen, Endings
  <2>4. Outcome(p, gpu, c) = MadeOf(p, gpu, "transcode", c)
    BY <1>7, OutcomeCases
  <2> QED BY <2>3, <2>4 DEF c
<1>8. ASSUME rest, ~(c # Nobody /\ gpu), NEW r \in Good(p)
      PROVE  3 \notin Rungs(p, r, gpu) /\ (p.tooBig = <<>> => 5 \notin Rungs(p, r, gpu))
  <2>1. CASE gpu
    BY <1>6, <1>8, <2>1
  <2>2. CASE ~gpu
    BY <2>2, RungIs DEF Convertible
  <2> QED BY <2>1, <2>2
<1>9. CASE rest /\ ~(c # Nobody /\ gpu) /\ ~p.want.fitsOnly /\ p.tooBig # <<>>
  <2>1. \E i \in DOMAIN p.tooBig : lightest = p.tooBig[i]
    BY <1>6, <1>9, LeastNeed
  <2> HIDE DEF lightest
  <2>2. lightest \in Good(p) /\ lightest \in Listed /\ Shown(p.want, lightest)
    BY <1>1, <2>1
  <2>3. 4 \in Rungs(p, lightest, gpu)
    BY <1>9, <2>2, RungIs
  <2>4. \A r \in Good(p) : \A j \in Rungs(p, r, gpu) : ~(j < 4)
    <3> SUFFICES ASSUME NEW r \in Good(p), NEW j \in Rungs(p, r, gpu), j < 4 PROVE FALSE
      OBVIOUS
    <3>1. j \in 1..5
      BY RungIs
    <3>2. j \in {1, 2, 3}
      BY <3>1
    <3> QED BY <1>5, <1>8, <1>9, <3>2
  <2>5. 4 \in RungsOf("starving") /\ 4 \in 1..5
    BY DEF RungsOf
  <2>6. Best(p, "starving", lightest, gpu)
    BY <2>2, <2>3, <2>4, <2>5, BestIs
  <2>7. Chosen(p, gpu, "starving", lightest)
    BY <2>2, <2>6 DEF Chosen, Endings
  <2>8. Outcome(p, gpu, c) = MadeOf(p, gpu, "starving", lightest)
    BY <1>9, OutcomeCases DEF lightest
  <2> QED BY <2>7, <2>8 DEF c
<1>10. CASE rest /\ ~(c # Nobody /\ gpu) /\ ~(~p.want.fitsOnly /\ p.tooBig # <<>>)
  <2> DEFINE as == Refusal(p, gpu, c)
  <2>1. as \in {"no_fitting_copy", "no_copy", "no_playable_release"}
    BY RefusalIs
  <2> HIDE DEF as
  <2>2. \A r \in Good(p) : Rungs(p, r, gpu) = {}
    <3> SUFFICES ASSUME NEW r \in Good(p), NEW j \in Rungs(p, r, gpu) PROVE FALSE
      OBVIOUS
    <3>1. j \in {1, 2, 3, 4, 5}
      <4>1. j \in 1..5
        BY RungIs
      <4> QED BY <4>1
    <3>2. j = 5
      BY <1>5, <1>8, <1>10, <3>1
    <3>3. Convertible(p.want, r, gpu)
      BY <3>2, RungIs
    <3>4. ~p.want.fitsOnly
      BY <3>3 DEF Convertible, MayConvert
    <3> QED BY <1>8, <1>10, <3>2, <3>4
  <2>3. 6 \in RungsOf(as)
    BY <2>1 DEF RungsOf
  <2>4. Best(p, as, Nobody, gpu)
    BY <2>2, <2>3, NoneIs
  <2>5. Chosen(p, gpu, as, Nobody)
    BY <2>1, <2>4 DEF Chosen, Endings
  <2>6. Outcome(p, gpu, c) = MadeOf(p, gpu, as, Nobody)
    BY <1>10, OutcomeCases DEF as
  <2> QED BY <2>5, <2>6 DEF c
<1> HIDE DEF lightest
<1> QED BY <1>3, <1>4, <1>7, <1>9, <1>10

\* The invariant's last two parts, of any pick; and what a copy's turn leaves to it: what
\* is still under way then is behind it.
OnBest(p) == p.phase = "decided" /\ p.out.as # "bad_audio_track" => Best(p, p.out.as, p.out.rel, p.out.gpu)
First(p) ==
  p.phase = "decided" /\ p.out.as = "copy" =>
    \A r \in Rel \ {p.out.rel} :
      p.answer[r] = "ok" /\ 1 \in Rungs(p, r, FALSE) => TriedBefore(p.want, p.out.rel, r)
Fore(p) ==
  p.chosen # Nobody =>
    p.phase = "decided" /\ \A i \in DOMAIN p.opening : TriedBefore(p.want, p.chosen, p.opening[i])

LEMMA DecidedIs ==
  ASSUME NEW p \in Pick, Known(p), InLine(p), Asked(p), NEW ruledOut, Clear(p, ruledOut), Books(p), Fore(p),
         NEW gpu \in BOOLEAN, NEW q, q = [p EXCEPT !.phase = "decided", !.out = Outcome(p, gpu, Converted(p))]
  PROVE  /\ q \in Pick /\ Known(q) /\ InLine(q) /\ Asked(q) /\ Clear(q, ruledOut) /\ Books(q) /\ Played(q)
         /\ OnBest(q) /\ First(q)
<1>1. PICK as, rel : Outcome(p, gpu, Converted(p)) = MadeOf(p, gpu, as, rel) /\ Chosen(p, gpu, as, rel)
  BY OutcomeIs
<1> DEFINE out == MadeOf(p, gpu, as, rel)
<1>2. /\ out.rel = rel /\ out.gpu = gpu /\ out.as \in {as, "bad_audio_track"}
      /\ as \in Endings \ {"none", "bad_audio_track"} /\ rel \in Listed \cup {Nobody}
  BY <1>1 DEF MadeOf, Chosen
<1>3. out \in [as : Endings, rel : Listed \cup {Nobody}, gpu : BOOLEAN]
  BY <1>1, <1>2 DEF MadeOf, Endings
<1> HIDE DEF out
<1>4. q = [p EXCEPT !.phase = "decided", !.out = out]
  BY <1>1 DEF out
<1>5. q \in Pick
  BY <1>3, <1>4 DEF Pick
<1>6. /\ q.phase = "decided" /\ q.out = out /\ q.want = p.want /\ q.asks = p.asks /\ q.queue = p.queue
      /\ q.opening = p.opening /\ q.answer = p.answer /\ q.tried = p.tried /\ q.seen = p.seen
      /\ q.chosen = p.chosen /\ q.fallback = p.fallback /\ q.tooBig = p.tooBig
  BY <1>4 DEF Pick
<1>7. Line(q) = Line(p)
  BY <1>6 DEF Line
<1>8. Known(q) /\ InLine(q) /\ Asked(q) /\ Clear(q, ruledOut)
  BY <1>6, <1>7 DEF Known, InLine, Asked, Clear
<1>9. \A r : /\ (Fitting(q, r) <=> Fitting(p, r)) /\ (TooBig(q, r) <=> TooBig(p, r))
             /\ (Unshown(q, r) <=> Unshown(p, r))
  BY <1>6 DEF Fitting, TooBig, Unshown, Heavy
<1>10. Books(q)
  BY <1>6, <1>9 DEF Books
<1>11. \A r, g : Rungs(q, r, g) = Rungs(p, r, g)
  BY <1>6 DEF Rungs
<1>12. Good(q) = Good(p)
  BY <1>6 DEF Good
<1>13. Played(q)
  <2> SUFFICES ASSUME rel # Nobody
               PROVE  /\ rel \in q.seen /\ q.answer[rel] = "ok"
                      /\ Shown(q.want, rel) \/ (Unshown(q, rel) /\ q.out.as \notin Copies)
    BY <1>2, <1>6 DEF Played
  <2>1. rel \in Good(p) /\ (Shown(p.want, rel) \/ (Unshown(p, rel) /\ as = "transcode"))
    BY <1>1 DEF Chosen
  <2>2. as = "transcode" => q.out.as \notin Copies
    BY <1>2, <1>6 DEF Copies
  <2> QED BY <1>6, <1>9, <2>1, <2>2 DEF Good
<1>14. OnBest(q)
  <2> SUFFICES ASSUME out.as # "bad_audio_track" PROVE Best(q, out.as, rel, gpu)
    BY <1>2, <1>6 DEF OnBest
  <2>1. out.as = as /\ Best(p, as, rel, gpu)
    BY <1>1, <1>2 DEF Chosen
  <2>2. {Rungs(q, r, gpu) : r \in Good(q)} = {Rungs(p, r, gpu) : r \in Good(p)}
    BY <1>11, <1>12
  <2> QED BY <1>11, <1>12, <2>1, <2>2 DEF Best
<1>15. First(q)
  <2> SUFFICES ASSUME out.as = "copy", NEW r \in Rel, r # rel, p.answer[r] = "ok", 1 \in Rungs(p, r, FALSE)
               PROVE  TriedBefore(p.want, rel, r)
    BY <1>2, <1>6, <1>11 DEF First
  <2>1. rel = p.chosen /\ p.chosen # Nobody
    BY <1>1, <1>2 DEF Chosen
  <2>2. Fitting(p, r)
    BY RungIs DEF Fitting
  <2>3. r \notin p.seen
    BY <2>1, <2>2 DEF Books
  <2>4. \E i \in DOMAIN p.opening : p.opening[i] = r
    BY <2>3 DEF Asked
  <2> QED BY <2>1, <2>4 DEF Fore
<1> QED BY <1>5, <1>8, <1>10, <1>13, <1>14, <1>15

\* The loop goes on, or decides: whatever it is given.
LEMMA SettlesIs ==
  ASSUME NEW p \in Pick, Known(p), InLine(p), Asked(p), NEW ruledOut, Clear(p, ruledOut), Books(p), Fore(p),
         NEW gpu \in BOOLEAN, Settles(p, gpu)
  PROVE  /\ pick' \in Pick /\ Known(pick') /\ InLine(pick') /\ Asked(pick') /\ Clear(pick', ruledOut)
         /\ Books(pick') /\ Played(pick') /\ OnBest(pick') /\ First(pick')
<1> DEFINE f == IF p.phase = "decided" THEN p ELSE Fill(p)
<1>1. IF f.phase = "decided" \/ f.opening = <<>>
      THEN pick' = [f EXCEPT !.phase = "decided", !.out = Outcome(f, gpu, Converted(f))]
      ELSE pick' = f
  BY Zenon DEF Settles
<1>2. /\ f \in Pick /\ Known(f) /\ InLine(f) /\ Asked(f) /\ Clear(f, ruledOut) /\ Books(f) /\ Fore(f)
  <2>1. CASE p.phase = "decided"
    BY <2>1
  <2>2. CASE p.phase # "decided"
    <3>1. /\ f \in Pick /\ Kept(p, f) /\ Line(f) = Line(p) /\ InLine(f)
          /\ \A r : (\E i \in DOMAIN p.opening : p.opening[i] = r) => \E i \in DOMAIN f.opening : f.opening[i] = r
      BY <2>2, FillIs
    <3> HIDE DEF f
    <3>2. Known(f) /\ Asked(f) /\ Clear(f, ruledOut)
      BY <3>1 DEF Kept, Known, Asked, Clear
    <3>3. \A r : /\ (Fitting(f, r) <=> Fitting(p, r)) /\ (TooBig(f, r) <=> TooBig(p, r))
                 /\ (Unshown(f, r) <=> Unshown(p, r))
      BY <3>1 DEF Kept, Fitting, TooBig, Unshown, Heavy
    <3>4. Books(f)
      BY <3>1, <3>3 DEF Books, Kept
    <3>5. Fore(f)
      BY <2>2, <3>1 DEF Fore, Kept
    <3> QED BY <3>1, <3>2, <3>4, <3>5
  <2> QED BY <2>1, <2>2
<1> HIDE DEF f
<1>3. CASE f.phase = "decided" \/ f.opening = <<>>
  BY <1>1, <1>2, <1>3, DecidedIs
<1>4. CASE ~(f.phase = "decided" \/ f.opening = <<>>)
  BY <1>1, <1>2, <1>4 DEF Played, OnBest, First
<1> QED BY <1>3, <1>4

-----------------------------------------------------------------------------
(* The steps *)

LEMMA Parts ==
  ASSUME pick \in Pick
  PROVE  (BestRung <=> OnBest(pick)) /\ (BestRanked <=> First(pick))
BY DEF BestRung, BestRanked, OnBest, First, Best, Good

\* A step of the pick that leaves the caches' part of the invariant.
LEMMA PickStep ==
  ASSUME Inv, opened' \in Seq(Playable), unplayable' \subseteq Barren,
         /\ pick' \in Pick /\ Known(pick') /\ InLine(pick') /\ Asked(pick') /\ Clear(pick', unplayable')
         /\ Books(pick') /\ Played(pick') /\ OnBest(pick') /\ First(pick')
  PROVE  Inv'
<1>1. Steady'
  BY DEF Steady
<1>2. Typed'
  <2>1. Barren \subseteq Rel /\ Playable \subseteq Rel
    BY DEF Barren, BadFiles, Playable
  <2>2. opened' \in Seq(Rel)
    BY <2>1, SeqMonotonic
  <2> QED BY <2>1, <2>2 DEF Typed
<1>3. (BestRung /\ BestRanked)'
  BY DEF BestRung, BestRanked, OnBest, First, Best, Good
<1> QED BY <1>1, <1>2, <1>3 DEF Inv

\* A step that leaves the pick, or drops it.
LEMMA CacheStep ==
  ASSUME Inv, pick' \in {pick, Idle}, unplayable' \subseteq unplayable,
         opened' \in Seq(Playable)
  PROVE  Inv'
<1>1. Typed' /\ unplayable' \subseteq Barren
  <2>1. Playable \subseteq Rel
    BY DEF Playable
  <2>2. opened' \in Seq(Rel)
    BY <2>1, SeqMonotonic
  <2> QED BY <2>2 DEF Inv, Typed
<1>2. CASE pick' = Idle
  <2>1. (BestRung /\ BestRanked)'
    BY <1>2 DEF BestRung, BestRanked, Idle
  <2> QED BY <1>1, <1>2, <2>1 DEF Inv
<1>3. CASE pick' = pick /\ pick # Idle
  <2>1. Steady
    BY <1>3 DEF Inv
  <2>2. Clear(pick', unplayable')
    BY <1>3, <2>1 DEF Steady, Clear, Tryable
  <2>3. Steady'
    BY <1>3, <2>1, <2>2 DEF Steady
  <2>4. (BestRung /\ BestRanked)'
    BY <1>3 DEF Inv, BestRung, BestRanked
  <2> QED BY <1>1, <1>3, <2>3, <2>4 DEF Inv
<1> QED BY <1>2, <1>3

LEMMA InitInv == Init => Inv
<1> SUFFICES ASSUME Init PROVE Inv
  OBVIOUS
<1>1. BestRung /\ BestRanked
  BY DEF Init, Idle, BestRung, BestRanked
<1> QED BY <1>1 DEF Init, Inv, Typed

LEMMA BeginStep == ASSUME Inv, NEW w \in Wants, NEW gpu \in BOOLEAN, Begin(w, gpu) PROVE Inv'
<1> DEFINE p == [phase |-> "opening", want |-> w, asks |-> Asks(w), queue |-> Ranked(w), opening |-> <<>>,
                 answer |-> [r \in Rel |-> "none"], tried |-> 0, late |-> FALSE, seen |-> {},
                 chosen |-> Nobody, fallback |-> Nobody, tooBig |-> <<>>,
                 out |-> [as |-> "none", rel |-> Nobody, gpu |-> FALSE]]
<1>1. Settles(p, gpu) /\ UNCHANGED <<unplayable, opened, known>>
  BY DEF Begin
<1>2. /\ Ranked(w) \in Seq(Listed)
      /\ \A i \in DOMAIN Ranked(w) : WorthOpening(w, Ranked(w)[i])
      /\ \A i, j \in DOMAIN Ranked(w) : i < j => TriedBefore(w, Ranked(w)[i], Ranked(w)[j])
  BY RankedIs
<1>3. Asks(w) \in [Media -> [need : Nat, wait : Nat \cup {NoIndex}]]
  BY AsksAre
<1>4. p \in Pick
  BY <1>2, <1>3 DEF Pick, Answers, Endings
<1>5. Line(p) = Ranked(w)
  <2>1. Len(p.opening) = 0 /\ p.queue = Ranked(w)
    OBVIOUS
  <2>2. Len(Ranked(w)) \in Nat /\ Ranked(w) = [i \in 1..Len(Ranked(w)) |-> Ranked(w)[i]]
    BY <1>2
  <2>3. Line(p) = [i \in 1..(0 + Len(Ranked(w))) |-> IF i <= 0 THEN p.opening[i] ELSE Ranked(w)[i - 0]]
    BY <2>1 DEF Line
  <2> HIDE DEF p
  <2> QED BY <2>2, <2>3
<1>6. InLine(p)
  <2>1. p.want = w /\ Len(p.opening) = 0 /\ p.tried = 0
    OBVIOUS
  <2>2. \A i, j \in DOMAIN Line(p) : i < j => TriedBefore(p.want, Line(p)[i], Line(p)[j])
    BY <1>2, <1>5, <2>1, Zenon
  <2>3. 0 <= ParallelOpens /\ 0 <= MaxTries
    BY LimitsAre
  <2> QED BY <2>1, <2>2, <2>3 DEF InLine
<1>7. Clear(p, unplayable)
  BY <1>2, <1>5 DEF Clear, Tryable, WorthOpening
<1>8. Known(p) /\ Asked(p) /\ Books(p) /\ Fore(p)
  BY DEF Known, Asked, Books, Fore
<1> HIDE DEF p
<1>9. /\ pick' \in Pick /\ Known(pick') /\ InLine(pick') /\ Asked(pick') /\ Clear(pick', unplayable)
      /\ Books(pick') /\ Played(pick') /\ OnBest(pick') /\ First(pick')
  BY <1>1, <1>4, <1>6, <1>7, <1>8, SettlesIs
<1> QED BY <1>1, <1>9, PickStep DEF Inv

\* An answer for a release under way that a fact of its file bears out.
LEMMA AnsweredStep ==
  ASSUME Typed, pick # Idle, Steady, NEW r \in Rel, UnderWay(r), NEW result \in Answers \ {"none"}, Answered(r, result),
         result = "ok" => r \in Playable, result = "lasting" => r \in Barren
  PROVE  /\ pick' \in Pick /\ Known(pick') /\ InLine(pick') /\ Asked(pick') /\ Clear(pick', unplayable)
         /\ Books(pick') /\ Played(pick') /\ OnBest(pick') /\ First(pick')
<1>1. pick \in Pick /\ pick' = [pick EXCEPT !.answer[r] = result] /\ pick.phase = "opening" /\ pick.answer[r] = "none"
  BY DEF Typed, UnderWay, Answered
<1>2. /\ pick' \in Pick /\ pick'.phase = "opening" /\ pick'.want = pick.want /\ pick'.asks = pick.asks
      /\ pick'.queue = pick.queue /\ pick'.opening = pick.opening /\ pick'.tried = pick.tried
      /\ pick'.seen = pick.seen /\ pick'.chosen = pick.chosen /\ pick'.fallback = pick.fallback
      /\ pick'.tooBig = pick.tooBig /\ pick'.answer = [pick.answer EXCEPT ![r] = result]
  BY <1>1 DEF Pick
<1>3. pick'.answer[r] = result /\ \A x \in Rel \ {r} : pick'.answer[x] = pick.answer[x]
  BY <1>1, <1>2 DEF Pick
<1>4. r \notin pick.seen /\ pick.seen \subseteq Rel
  BY <1>1, ListedIs DEF Steady, Books, Pick
<1>5. \A x \in pick.seen : pick'.answer[x] = pick.answer[x]
  BY <1>3, <1>4
<1>6. Known(pick')
  BY <1>3 DEF Steady, Known
<1>7. Line(pick') = Line(pick)
  BY <1>2 DEF Line
<1>8. InLine(pick')
  BY <1>2, <1>7 DEF Steady, InLine
<1>9. Asked(pick')
  <2>1. \E i \in DOMAIN pick.opening : pick.opening[i] = r
    <3>1. \E i \in 1..Len(pick.opening) : pick.opening[i] = r
      BY DEF UnderWay, Contains
    <3>2. DOMAIN pick.opening = 1..Len(pick.opening)
      BY <1>1 DEF Pick
    <3> QED BY <3>1, <3>2
  <2> QED BY <1>2, <1>3, <2>1 DEF Steady, Asked
<1>10. Clear(pick', unplayable)
  BY <1>2, <1>5, <1>7 DEF Steady, Clear
<1>11. \A x \in pick.seen : /\ (Fitting(pick', x) <=> Fitting(pick, x)) /\ (TooBig(pick', x) <=> TooBig(pick, x))
                            /\ (Unshown(pick', x) <=> Unshown(pick, x))
  BY <1>2, <1>5 DEF Fitting, TooBig, Unshown, Heavy
<1>12. Books(pick')
  <2>1. Books(pick) /\ pick.chosen = Nobody
    BY <1>1 DEF Steady, Books
  <2>2. \A x \in pick.seen : pick'.answer[x] # "none"
    BY <1>5, <2>1 DEF Books
  <2>3. \A x \in pick.seen \ {pick.chosen} : ~Fitting(pick', x)
    BY <1>11, <2>1 DEF Books
  <2>4. /\ \A i \in DOMAIN pick.tooBig : pick.tooBig[i] \in pick.seen /\ TooBig(pick', pick.tooBig[i])
        /\ \A x \in pick.seen : TooBig(pick', x) => \E i \in DOMAIN pick.tooBig : pick.tooBig[i] = x
    BY <1>11, <2>1 DEF Books
  <2>5. /\ pick.fallback # Nobody => pick.fallback \in pick.seen /\ Unshown(pick', pick.fallback)
        /\ pick.fallback = Nobody => \A x \in pick.seen : ~Unshown(pick', x)
    BY <1>11, <2>1 DEF Books
  <2> QED BY <1>2, <2>1, <2>2, <2>3, <2>4, <2>5 DEF Books
<1>13. Played(pick') /\ OnBest(pick') /\ First(pick')
  BY <1>2 DEF Played, OnBest, First
<1> QED BY <1>2, <1>6, <1>8, <1>9, <1>10, <1>12, <1>13

LEMMA HitStep == ASSUME Inv, NEW r \in Rel, Hit(r) PROVE Inv'
<1>1. UnderWay(r) /\ Answered(r, "ok") /\ UNCHANGED <<unplayable, opened>>
  BY DEF Hit
<1>2. r \in Playable
  <2>1. \E i \in 1..Len(opened) : opened[i] = r
    BY DEF Hit, Contains
  <2>2. opened \in Seq(Playable)
    BY DEF Inv
  <2> QED BY <2>1, <2>2
<1>3. Typed /\ pick # Idle /\ Steady
  BY <1>1 DEF Inv, UnderWay, Idle
<1> QED BY <1>1, <1>2, <1>3, AnsweredStep, PickStep DEF Answers, Inv

LEMMA FailsStep == ASSUME Inv, NEW r \in Rel, Fails(r) PROVE Inv'
<1>1. UnderWay(r) /\ Answered(r, "passing") /\ UNCHANGED <<unplayable, opened>>
  BY DEF Fails
<1>2. Typed /\ pick # Idle /\ Steady
  BY <1>1 DEF Inv, UnderWay, Idle
<1> QED BY <1>1, <1>2, AnsweredStep, PickStep DEF Answers, Inv

\* What is remembered of an open is what was there and the release.
LEMMA RememberIs ==
  ASSUME NEW S, NEW q \in Seq(S), NEW r \in S, NEW max
  PROVE  Remember(q, r, max) \in Seq(S)
<1> DEFINE others == RemoveFirst(q, r)
           kept == IF Len(others) >= max THEN Tail(others) ELSE others
<1>1. others \in Seq(S)
  BY RemovedIs
<1>2. Remember(q, r, max) = Append(kept, r)
  BY DEF Remember
<1> HIDE DEF others
<1>3. kept \in Seq(S)
  <2>1. others # <<>> => Tail(others) \in Seq(S)
    BY <1>1, HeadTailProperties
  <2>2. Tail(<<>>) \in Seq(S)
    OBVIOUS
  <2> QED BY <1>1, <2>1, <2>2
<1> HIDE DEF kept
<1> QED BY <1>2, <1>3, AppendProperties

LEMMA ProbesStep == ASSUME Inv, NEW r \in Rel, NEW head \in Sent(r), Probes(r, head) PROVE Inv'
<1>1. /\ UnderWay(r) /\ Answered(r, Opening(r, head)) /\ UNCHANGED unplayable
      /\ opened' = IF Opening(r, head) = "ok" THEN Remember(opened, r, OpenedMax) ELSE opened
  BY DEF Probes
<1>2. File[r].container \in {"media", "neither"}
  BY PickingAssumption
<1>3. /\ Opening(r, head) \in Answers \ {"none"}
      /\ Opening(r, head) = "ok" => r \in Playable
      /\ Opening(r, head) = "lasting" => r \in Barren
  BY <1>2 DEF Opening, Neither, TheFilesOwnHead, Sent, Heads, Answers, Playable, Barren, BadFiles
<1>4. opened' \in Seq(Playable)
  <2>1. opened \in Seq(Playable)
    BY DEF Inv
  <2>2. CASE Opening(r, head) = "ok"
    <3>1. Remember(opened, r, OpenedMax) \in Seq(Playable)
      BY <1>3, <2>1, <2>2, RememberIs
    <3> QED BY <1>1, <2>2, <3>1
  <2> QED BY <1>1, <2>1, <2>2
<1>5. Typed /\ pick # Idle /\ Steady
  BY <1>1 DEF Inv, UnderWay, Idle
<1> DEFINE result == Opening(r, head)
<1> HIDE DEF result
<1>6. /\ pick' \in Pick /\ Known(pick') /\ InLine(pick') /\ Asked(pick') /\ Clear(pick', unplayable)
      /\ Books(pick') /\ Played(pick') /\ OnBest(pick') /\ First(pick')
  <2>1. /\ result \in Answers \ {"none"} /\ Answered(r, result) /\ UnderWay(r)
        /\ result = "ok" => r \in Playable
        /\ result = "lasting" => r \in Barren
    BY <1>1, <1>3 DEF result
  <2> QED BY <1>5, <2>1, AnsweredStep
<1> QED BY <1>1, <1>4, <1>6, PickStep DEF Inv

LEMMA TakeStep == ASSUME Inv, NEW gpu \in BOOLEAN, Take(gpu) PROVE Inv'
<1> DEFINE r == Head(pick.opening)
           s == Sorted(pick, r, Arm(pick, r, pick.answer[r]))
<1>1. /\ pick.phase = "opening" /\ pick.opening # <<>> /\ pick.answer[r] # "none" /\ Settles(s, gpu)
      /\ unplayable' = IF pick.answer[r] = "lasting" /\ Sized(r) THEN unplayable \cup {r} ELSE unplayable
      /\ UNCHANGED opened
  BY Zenon DEF Take
<1>2. pick \in Pick /\ Steady
  BY <1>1 DEF Inv, Typed, Idle
<1>3. /\ s \in Pick /\ Known(s) /\ Asked(s) /\ Books(s)
      /\ s.opening = Tail(pick.opening) /\ s.queue = pick.queue /\ s.want = pick.want /\ s.tried = pick.tried
      /\ s.answer = pick.answer /\ s.seen = pick.seen \cup {r} /\ s.out = pick.out
      /\ s.chosen # Nobody => s.chosen = r /\ s.phase = "decided"
  BY <1>1, <1>2, SortedIs DEF Steady
<1> HIDE DEF s
<1>4. /\ r \in Listed /\ InLine(s)
      /\ \A i \in DOMAIN Line(s) : i + 1 \in DOMAIN Line(pick) /\ Line(s)[i] = Line(pick)[i + 1]
      /\ \A i \in DOMAIN Line(s) : TriedBefore(pick.want, r, Line(s)[i])
      /\ 1 \in DOMAIN Line(pick) /\ Line(pick)[1] = r
      /\ \A i \in DOMAIN s.opening : i \in DOMAIN Line(s) /\ Line(s)[i] = s.opening[i]
  BY <1>1, <1>2, <1>3, FirstInLine DEF Steady
<1> HIDE DEF r
<1>5. Fore(s)
  BY <1>3, <1>4 DEF Fore
<1>6. unplayable' \subseteq Barren
  <2>1. r \in Rel
    BY <1>4, ListedIs
  <2>2. pick.answer[r] = "lasting" => r \in Barren
    BY <1>2, <2>1 DEF Steady, Known
  <2> QED BY <1>1, <2>2 DEF Inv
<1>7. Clear(s, unplayable')
  <2>1. Clear(pick, unplayable)
    BY <1>2 DEF Steady
  <2>2. ASSUME NEW i \in DOMAIN Line(s) PROVE Tryable(s.want, Line(s)[i], unplayable')
    <3>1. Tryable(pick.want, Line(s)[i], unplayable)
      BY <1>4, <2>1 DEF Clear
    <3>2. Line(s)[i] # r
      BY <1>4, TriedOnce
    <3> QED BY <1>1, <1>3, <3>1, <3>2 DEF Tryable
  <2>3. ASSUME NEW x \in s.seen, s.answer[x] = "ok" PROVE Tryable(s.want, x, unplayable')
    <3>1. Tryable(pick.want, x, unplayable)
      BY <1>3, <1>4, <2>1, <2>3 DEF Clear
    <3>2. x = r => unplayable' = unplayable
      BY <1>1, <1>3, <2>3
    <3> QED BY <1>1, <1>3, <3>1, <3>2 DEF Tryable
  <2> QED BY <2>2, <2>3 DEF Clear
<1>8. /\ pick' \in Pick /\ Known(pick') /\ InLine(pick') /\ Asked(pick') /\ Clear(pick', unplayable')
      /\ Books(pick') /\ Played(pick') /\ OnBest(pick') /\ First(pick')
  BY <1>1, <1>3, <1>4, <1>5, <1>7, SettlesIs
<1> QED BY <1>1, <1>6, <1>8, PickStep DEF Inv

LEMMA BudgetStep == ASSUME Inv, BudgetOver PROVE Inv'
<1>1. pick \in Pick /\ Steady /\ pick.phase = "opening" /\ pick' = [pick EXCEPT !.late = TRUE] /\ UNCHANGED <<unplayable, opened>>
  BY DEF BudgetOver, Inv, Typed, Idle
<1>2. /\ pick' \in Pick /\ pick'.phase = "opening" /\ pick'.want = pick.want /\ pick'.asks = pick.asks
      /\ pick'.queue = pick.queue /\ pick'.opening = pick.opening /\ pick'.tried = pick.tried
      /\ pick'.seen = pick.seen /\ pick'.chosen = pick.chosen /\ pick'.fallback = pick.fallback
      /\ pick'.tooBig = pick.tooBig /\ pick'.answer = pick.answer
  BY <1>1 DEF Pick
<1>3. Line(pick') = Line(pick)
  BY <1>2 DEF Line
<1>4. \A x : /\ (Fitting(pick', x) <=> Fitting(pick, x)) /\ (TooBig(pick', x) <=> TooBig(pick, x))
             /\ (Unshown(pick', x) <=> Unshown(pick, x))
  BY <1>2 DEF Fitting, TooBig, Unshown, Heavy
<1>5. Books(pick')
  <2>1. Books(pick)
    BY <1>1 DEF Steady
  <2>2. \A x \in pick.seen \ {pick.chosen} : ~Fitting(pick', x)
    BY <1>4, <2>1 DEF Books
  <2>3. pick.chosen # Nobody => pick.chosen \in pick.seen /\ Fitting(pick', pick.chosen)
    BY <1>4, <2>1 DEF Books
  <2>4. /\ \A i \in DOMAIN pick.tooBig : pick.tooBig[i] \in pick.seen /\ TooBig(pick', pick.tooBig[i])
        /\ \A x \in pick.seen : TooBig(pick', x) => \E i \in DOMAIN pick.tooBig : pick.tooBig[i] = x
    BY <1>4, <2>1 DEF Books
  <2>5. /\ pick.fallback # Nobody => pick.fallback \in pick.seen /\ Unshown(pick', pick.fallback)
        /\ pick.fallback = Nobody => \A x \in pick.seen : ~Unshown(pick', x)
    BY <1>4, <2>1 DEF Books
  <2>6. (\A x \in pick.seen : pick.answer[x] # "none") /\ pick.chosen = Nobody
    BY <1>1, <2>1 DEF Books
  <2> QED BY <1>2, <2>2, <2>3, <2>4, <2>5, <2>6 DEF Books
<1>6. Known(pick') /\ InLine(pick') /\ Asked(pick') /\ Clear(pick', unplayable')
  BY <1>1, <1>2, <1>3 DEF Steady, Known, InLine, Asked, Clear
<1>7. Played(pick') /\ OnBest(pick') /\ First(pick')
  BY <1>2 DEF Played, OnBest, First
<1>8. opened' \in Seq(Playable) /\ unplayable' \subseteq Barren
  BY <1>1 DEF Inv
<1> QED BY <1>2, <1>5, <1>6, <1>7, <1>8, PickStep

LEMMA NextInv == ASSUME Inv, [Next]_vars PROVE Inv'
<1>1. opened \in Seq(Playable)
  BY DEF Inv
<1>2. ASSUME NEW w \in Wants, NEW gpu \in BOOLEAN, Begin(w, gpu) PROVE Inv'
  BY <1>2, BeginStep
<1>3. ASSUME NEW r \in Rel, Opens(r) PROVE Inv'
  BY <1>3, HitStep, FailsStep, ProbesStep DEF Opens
<1>4. ASSUME NEW gpu \in BOOLEAN, Take(gpu) PROVE Inv'
  BY <1>4, TakeStep
<1>5. CASE BudgetOver
  BY <1>5, BudgetStep
<1>6. CASE Leave
  BY <1>1, <1>6, CacheStep DEF Leave
<1>7. ASSUME NEW r \in Rel, Forget(r) PROVE Inv'
  <2>1. opened' \in Seq(Playable) /\ UNCHANGED <<pick, unplayable>>
    BY <1>1, <1>7, RemovedIs DEF Forget
  <2> QED BY <2>1, CacheStep
<1>8. ASSUME NEW r \in Rel, Heal(r) PROVE Inv'
  BY <1>1, <1>8, CacheStep DEF Heal
<1>9. CASE Restart
  BY <1>9, CacheStep DEF Restart
<1>10. CASE UNCHANGED vars
  BY <1>1, <1>10, CacheStep DEF vars
<1> QED BY <1>2, <1>3, <1>4, <1>5, <1>6, <1>7, <1>8, <1>9, <1>10 DEF Next

\* The invariant holds of every behaviour.
THEOREM InvAlways == Spec => []Inv
<1>1. Init => Inv
  BY InitInv
<1>2. Inv /\ [Next]_vars => Inv'
  BY NextInv
<1> QED BY <1>1, <1>2, PTL DEF Spec

\* Every release, file and request keeps its type: what is under way, what was looked
\* at and what is played are of scout's list.
THEOREM TypeCorrect == Spec => []Typed
<1>1. Inv => Typed
  BY DEF Inv
<1> QED BY <1>1, InvAlways, PTL

\* A release is remembered as playing nowhere only for what its file is or for a page that
\* poses as a file, whatever else the opens ran into: timeouts, refusals, pages of markup or
\* cut short, answers out of order, restarts between.
THEOREM RuledOutAlways == Spec => []RuledOutForCause
<1>1. Inv => RuledOutForCause
  BY DEF Inv, RuledOutForCause, Barren
<1> QED BY <1>1, InvAlways, PTL

\* However many releases are opened at a time and whichever answers first, what create
\* plays is on the best rung of all that was looked at, and a copy that fits is the one
\* named, else the best ranked, of those that answered and fit.
THEOREM BestTaken == Spec => []TakesTheBest
<1>1. Inv => TakesTheBest
  BY DEF Inv, TakesTheBest
<1> QED BY <1>1, InvAlways, PTL

LEMMA AgreesIs == ASSUME Inv PROVE AgreesWithList
<1> DEFINE r == pick.out.rel
           w == pick.want
<1> SUFFICES ASSUME pick.phase = "decided", r # Nobody
             PROVE  /\ Verdict(w, r) # "no"
                    /\ Contains(known, r) /\ pick.out.as \in Copies => Verdict(w, r) = "yes"
  BY DEF AgreesWithList
<1>1. Steady
  BY DEF Inv, Idle
<1>2. /\ r \in pick.seen /\ pick.answer[r] = "ok"
      /\ Shown(w, r) \/ (Unshown(pick, r) /\ pick.out.as \notin Copies)
  BY <1>1 DEF Steady, Played
<1>3. FitOf(w, Attr[r]) # "never" /\ ~(Sized(r) /\ r \in unplayable)
  BY <1>1, <1>2 DEF Steady, Clear, Tryable
<1>4. ScoutedVerdict(Attr[r], w.player, Hevc(w)) # "no"
  BY <1>3, FitIs DEF ScoutedVerdict, FitOf
<1>5. Shown(w, r) => ProbedVerdict(File[r].info, w.player, Hevc(w)) = "yes"
  BY DEF Shown, ProbedVerdict
<1>6. Unshown(pick, r) => ProbedVerdict(File[r].info, w.player, Hevc(w)) = "convert"
  BY DEF Unshown, ProbedVerdict
<1>7. \/ Verdict(w, r) = "yes"
      \/ Contains(known, r) /\ Verdict(w, r) = ProbedVerdict(File[r].info, w.player, Hevc(w))
      \/ ~Contains(known, r) /\ Verdict(w, r) = ScoutedVerdict(Attr[r], w.player, Hevc(w))
  BY <1>3 DEF Verdict
<1> QED BY <1>2, <1>4, <1>5, <1>6, <1>7

LEMMA ShownIs == ASSUME Inv PROVE ShownAsPicked
<1> DEFINE r == pick.out.rel
           p == pick.want.player
           info == File[r].info
           variant == Variant(info, FALSE, p)
<1> SUFFICES ASSUME pick # Idle, pick.phase = "decided", pick.out.as \in Copies
             PROVE  /\ info.dv # NoDV /\ ~HasFallback(info.dv) /\ ~info.mismatch => variant.dovi = "keep" /\ variant.named
                    /\ info.hdr /\ info.video \in {"hevc", "vp9"} => variant.range # "none"
  BY DEF ShownAsPicked
<1>1. Steady /\ OnBest(pick)
  BY DEF Inv, Typed, BestRung, OnBest, Best, Good
<1>2. r # Nobody
  <2>1. pick.out.as # "bad_audio_track" /\ RungsOf(pick.out.as) \subseteq {1, 2, 4}
    BY DEF Copies, RungsOf
  <2>2. r \in Good(pick)
    BY <1>1, <2>1 DEF OnBest, Best
  <2>3. r \in Listed
    <3>1. pick \in Pick
      BY DEF Inv, Typed
    <3> QED BY <2>2, <3>1 DEF Good, Pick
  <2> QED BY <2>3, ListedIs, PickingAssumption
<1>3. Shown(pick.want, r)
  BY <1>1, <1>2 DEF Steady, Played
<1>4. info.dv # NoDV /\ ~HasFallback(info.dv) /\ ~info.mismatch => KeptDV(info, FALSE, p)
  BY <1>3 DEF Shown, NoPicture, KeptDV
<1>5. KeptDV(info, FALSE, p) => info.dv # NoDV /\ DVSignal(info.dv).range \in {"PQ", "SDR", "HLG"}
  BY DEF KeptDV, KeepsDV, DVSignal
<1>6. info.hdr /\ info.video \in {"hevc", "vp9"} => CopiedRange(info) \in {"HLG", "PQ"}
  BY DEF CopiedRange
<1>7. /\ variant.dovi = IF info.dv = NoDV THEN "absent" ELSE IF KeptDV(info, FALSE, p) THEN "keep" ELSE "strip"
      /\ variant.named = KeptDV(info, FALSE, p)
      /\ variant.range = IF KeptDV(info, FALSE, p) THEN DVSignal(info.dv).range ELSE CopiedRange(info)
  BY DEF Variant
<1> HIDE DEF info, variant
<1> QED BY <1>4, <1>5, <1>6, <1>7

\* For every player, list and file: what is played is nothing the list answers "no" of,
\* then or since, and a copy's variant keeps what its picture is of and says its range.
THEOREM VerdictAlways == Spec => []VerdictKept
<1>1. Inv => VerdictKept
  BY AgreesIs, ShownIs DEF VerdictKept
<1> QED BY <1>1, InvAlways, PTL

-----------------------------------------------------------------------------
(* The cuts *)

\* Times put in order: each once, and none between one and the next.
OrderOf(q, n, I) ==
  /\ n \in Nat /\ q \in [1..n -> I]
  /\ \A k, m \in 1..n : k < m => q[k] < q[m]
  /\ \A i \in I : \E k \in 1..n : q[k] = i

LEMMA InOrderIs ==
  ASSUME NEW I, I \subseteq Nat, IsFiniteSet(I), NEW q, q = InOrder(I)
  PROVE  OrderOf(q, Cardinality(I), I)
<1> DEFINE n        == Cardinality(I)
           Below(i) == {j \in I : j < i}
           rank     == [i \in I |-> Cardinality(Below(i))]
<1>1. n \in Nat
  BY FS_CardinalityType
<1>2. \A i \in I : IsFiniteSet(Below(i)) /\ Cardinality(Below(i)) \in 0..(n - 1)
  <2> SUFFICES ASSUME NEW i \in I PROVE IsFiniteSet(Below(i)) /\ Cardinality(Below(i)) \in 0..(n - 1)
    OBVIOUS
  <2>1. Below(i) \subseteq I \ {i}
    OBVIOUS
  <2> HIDE DEF Below
  <2>2. IsFiniteSet(I \ {i}) /\ Cardinality(I \ {i}) = n - 1
    BY FS_RemoveElement
  <2>3. IsFiniteSet(Below(i)) /\ Cardinality(Below(i)) <= n - 1 /\ Cardinality(Below(i)) \in Nat
    BY <2>1, <2>2, FS_Subset, FS_CardinalityType
  <2> QED BY <1>1, <2>3
<1>3. \A i, j \in I : i < j => Cardinality(Below(i)) < Cardinality(Below(j))
  <2> SUFFICES ASSUME NEW i \in I, NEW j \in I, i < j PROVE Cardinality(Below(i)) < Cardinality(Below(j))
    OBVIOUS
  <2>1. Below(i) \subseteq Below(j) /\ i \in Below(j) /\ i \notin Below(i)
    <3>1. i \in Nat /\ j \in Nat /\ \A k \in I : k \in Nat
      OBVIOUS
    <3>2. (\A k \in I : k < i => k < j) /\ i < j /\ ~(i < i)
      BY <3>1
    <3> QED BY <3>2
  <2> HIDE DEF Below
  <2>2. Cardinality(Below(i)) <= Cardinality(Below(j)) /\ Cardinality(Below(i)) # Cardinality(Below(j))
    BY <1>2, <2>1, FS_Subset
  <2>3. Cardinality(Below(i)) \in 0..(n - 1) /\ Cardinality(Below(j)) \in 0..(n - 1)
    BY <1>2, Zenon
  <2> HIDE DEF n
  <2> QED BY <1>1, <2>2, <2>3
<1>4. q = [k \in 1..n |-> CHOOSE i \in I : Cardinality(Below(i)) = k - 1]
  BY DEF InOrder
<1> HIDE DEF Below, n
<1>5. rank \in Surjection(I, 0..(n - 1))
  <2>1. rank \in [I -> 0..(n - 1)]
    BY <1>2
  <2>2. \A i, j \in I : i # j => rank[i] # rank[j]
    BY <1>1, <1>2, <1>3
  <2> HIDE DEF rank
  <2>3. rank \in Injection(I, 0..(n - 1))
    BY <2>1, <2>2 DEF Injection, IsInjective
  <2>4. IsFiniteSet(0..(n - 1)) /\ Cardinality(0..(n - 1)) = n
    <3>1. 0 \in Int /\ n - 1 \in Int
      BY <1>1
    <3> QED BY <1>1, <3>1, FS_Interval
  <2> QED BY <2>3, <2>4, FS_Injection DEF n
<1>6. \A k \in 1..n : q[k] \in I /\ Cardinality(Below(q[k])) = k - 1
  <2> SUFFICES ASSUME NEW k \in 1..n PROVE q[k] \in I /\ Cardinality(Below(q[k])) = k - 1
    OBVIOUS
  <2>1. k - 1 \in 0..(n - 1)
    BY <1>1
  <2>2. \E i \in I : rank[i] = k - 1
    BY <1>5, <2>1 DEF Surjection
  <2>3. \E i \in I : Cardinality(Below(i)) = k - 1
    BY <2>2
  <2> QED BY <1>4, <2>3
<1>7. ASSUME NEW k \in 1..n, NEW m \in 1..n, k < m PROVE q[k] < q[m]
  <2> DEFINE a == q[k]
             b == q[m]
  <2>1. a \in I /\ b \in I /\ Cardinality(Below(a)) = k - 1 /\ Cardinality(Below(b)) = m - 1
    BY <1>6
  <2> HIDE DEF a, b
  <2>2. a # b /\ ~(b < a)
    BY <1>1, <1>3, <1>7, <2>1
  <2>3. a < b
    BY <2>1, <2>2
  <2> QED BY <2>3 DEF a, b
<1>8. ASSUME NEW i \in I PROVE \E k \in 1..n : q[k] = i
  <2> DEFINE k == Cardinality(Below(i)) + 1
  <2>1. k \in 1..n /\ Cardinality(Below(i)) = k - 1
    <3>1. Cardinality(Below(i)) \in 0..(n - 1)
      BY <1>2
    <3> QED BY <1>1, <3>1
  <2> HIDE DEF k
  <2>2. PICK x \in I : x = q[k] /\ Cardinality(Below(x)) = Cardinality(Below(i))
    BY <1>6, <2>1
  <2>3. Cardinality(Below(x)) \in Nat /\ Cardinality(Below(i)) \in Nat
    BY <1>1, <1>2, <2>2
  <2>4. ~(x < i) /\ ~(i < x)
    <3>1. x < i => Cardinality(Below(x)) < Cardinality(Below(i))
      BY <1>3
    <3>2. i < x => Cardinality(Below(i)) < Cardinality(Below(x))
      BY <1>3
    <3> QED BY <2>2, <2>3, <3>1, <3>2
  <2>5. q[k] = i
    <3>1. x \in Nat /\ i \in Nat
      OBVIOUS
    <3> QED BY <2>2, <2>4, <3>1
  <2> QED BY <2>1, <2>5
<1>9. q \in [1..n -> I]
  BY <1>4, <1>6
<1> QED BY <1>1, <1>7, <1>8, <1>9 DEF n, OrderOf

\* The segments between times in order: each from one of them up to the next.
Joins(p, n, I, duration) ==
  /\ n \in Nat \ {0} /\ DOMAIN p = 1..n /\ Len(p) = n /\ p[1].start = 0 /\ p[n].end = duration
  /\ \A i \in 1..n :
       /\ p[i] = [start |-> p[i].start, end |-> p[i].end]
       /\ p[i].start \in I /\ p[i].start < p[i].end
       /\ p[i].end \in I \cup {duration}
       /\ \A t \in I : p[i].start < t => p[i].end <= t
       /\ i > 1 => p[i].start = p[i - 1].end
  /\ \A t \in I : \E i \in 1..n : p[i].start = t

LEMMA BetweenIs ==
  ASSUME NEW duration \in Nat \ {0}, NEW I, I \subseteq Nat, IsFiniteSet(I), 0 \in I, \A t \in I : t < duration,
         NEW p, p = Between(InOrder(I), duration)
  PROVE  \E n : Joins(p, n, I, duration)
<1>0. PICK q : q = InOrder(I)
  OBVIOUS
<1> DEFINE n == Cardinality(I)
<1>1. /\ n \in Nat /\ q \in [1..n -> I]
      /\ \A k, m \in 1..n : k < m => q[k] < q[m]
      /\ \A i \in I : \E k \in 1..n : q[k] = i
  <2>1. OrderOf(q, Cardinality(I), I)
    BY <1>0, InOrderIs
  <2> QED BY <2>1 DEF OrderOf
<1> HIDE DEF n
<1>2. DOMAIN q = 1..n /\ Len(q) = n
  BY <1>1
<1>3. /\ DOMAIN p = 1..n /\ Len(p) = n
      /\ \A i \in 1..n : /\ p[i].start = q[i] /\ p[i].end = IF i < n THEN q[i + 1] ELSE duration
                        /\ p[i] = [start |-> p[i].start, end |-> p[i].end]
  <2>1. p = [i \in 1..n |-> [start |-> q[i], end |-> IF i < n THEN q[i + 1] ELSE duration]]
    BY <1>0, <1>1, <1>2 DEF Between
  <2> QED BY <1>1, <2>1
<1>4. n >= 1 /\ q[1] = 0
  <2>1. PICK k \in 1..n : q[k] = 0
    BY <1>1
  <2>2. 1 \in 1..n /\ q[1] \in Nat
    <3>1. 1 \in 1..n
      BY <1>1, <2>1
    <3>2. q[1] \in I
      BY <1>1, <3>1
    <3> QED BY <3>1, <3>2
  <2>3. k = 1
    <3>1. ~(1 < k)
      BY <1>1, <2>1, <2>2
    <3> QED BY <3>1
  <2> QED BY <2>1, <2>2, <2>3
<1>5. ASSUME NEW i \in 1..n
      PROVE  /\ p[i].start \in I /\ p[i].start < p[i].end
             /\ p[i].end \in I \cup {duration}
             /\ \A t \in I : p[i].start < t => p[i].end <= t
             /\ i > 1 => p[i].start = p[i - 1].end
  <2>1. p[i].start = q[i] /\ q[i] \in I /\ q[i] \in Nat
    BY <1>1, <1>3
  <2>2. i > 1 => p[i].start = p[i - 1].end
    <3> SUFFICES ASSUME i > 1 PROVE p[i].start = p[i - 1].end
      OBVIOUS
    <3>1. i - 1 \in 1..n /\ i - 1 < n /\ (i - 1) + 1 = i
      BY <1>1
    <3>2. p[i - 1].end = q[(i - 1) + 1]
      BY <1>3, <3>1
    <3> QED BY <2>1, <3>1, <3>2
  <2>3. CASE i < n
    <3>1. i + 1 \in 1..n /\ p[i].end = q[i + 1]
      BY <1>1, <1>3, <2>3
    <3>2. q[i + 1] \in I /\ q[i] < q[i + 1] /\ q[i + 1] \in Nat
      <4>1. i < i + 1 /\ i + 1 \in 1..n
        BY <3>1
      <4>2. q[i + 1] \in I /\ q[i] < q[i + 1]
        BY <1>1, <4>1
      <4> QED BY <4>2
    <3>3. ASSUME NEW t \in I, q[i] < t PROVE q[i + 1] <= t
      <4>1. PICK k \in 1..n : q[k] = t
        BY <1>1
      <4>2. ~(k < i) /\ k # i
        <5>1. k < i => q[k] < q[i]
          BY <1>1
        <5>2. t \in Nat
          OBVIOUS
        <5> QED BY <2>1, <3>3, <4>1, <5>1, <5>2
      <4>3. k = i + 1 \/ i + 1 < k
        BY <4>2
      <4>4. i + 1 < k => q[i + 1] < q[k]
        BY <1>1, <3>1
      <4> QED BY <3>2, <4>1, <4>3, <4>4
    <3> QED BY <2>1, <2>2, <3>1, <3>2, <3>3
  <2>4. CASE ~(i < n)
    <3>1. i = n /\ p[i].end = duration
      BY <1>1, <1>3, <2>4
    <3>2. ASSUME NEW t \in I, q[i] < t PROVE FALSE
      <4>1. PICK k \in 1..n : q[k] = t
        BY <1>1
      <4>2. k = i \/ k < i
        BY <3>1
      <4>3. k < i => q[k] < q[i]
        BY <1>1
      <4>4. t \in Nat
        OBVIOUS
      <4> QED BY <2>1, <3>2, <4>1, <4>2, <4>3, <4>4
    <3>3. q[i] < duration
      BY <2>1
    <3> QED BY <2>1, <2>2, <3>1, <3>2, <3>3
  <2> QED BY <2>3, <2>4
<1>6. ASSUME NEW t \in I PROVE \E i \in 1..n : p[i].start = t
  <2>1. PICK k \in 1..n : q[k] = t
    BY <1>1
  <2> QED BY <1>3, <2>1
<1>7. p[1].start = 0 /\ p[n].end = duration /\ n \in Nat \ {0}
  <2>1. 1 \in 1..n /\ n \in 1..n /\ ~(n < n)
    BY <1>1, <1>4
  <2> QED BY <1>3, <1>4, <2>1
<1>8. Joins(p, n, I, duration)
  BY <1>3, <1>5, <1>6, <1>7 DEF Joins
<1> QED BY <1>8

Spanned(t, s) == s.start <= t /\ t < s.end
Points(keys, duration, start) ==
  LET p == ToSet(Segments(keys, duration))
  IN {s.start : s \in p} \cup UNION {Splits(keys, s, start) : s \in {s \in p : Spanned(BackedUp(start), s)}}

\* Where the opening segment is cut again, nothing else is.
LEMMA PointsAre ==
  ASSUME NEW duration \in Nat \ {0}, NEW keys \in Seq(Int), Ascends(keys), NEW start \in 0..(duration - 1),
         NEW p, p = Segments(keys, duration), NEW X, X = Points(keys, duration, start)
  PROVE  /\ SegmentsForStart(keys, duration, start) = Between(InOrder(X), duration)
         /\ X \subseteq Inside(keys, duration) \cup {0} /\ IsFiniteSet(X)
         /\ \A s \in ToSet(p) : s.start \in X /\ s.end \in X \cup {duration}
         /\ \A s \in ToSet(p), x \in X :
              s.start < x /\ x < s.end => Spanned(BackedUp(start), s) /\ x \in Splits(keys, s, start)
         /\ \A s \in ToSet(p) : Spanned(BackedUp(start), s) => Splits(keys, s, start) \subseteq X
<1> DEFINE K == Inside(keys, duration)
           b == BackedUp(start)
<1>1. b \in 0..start /\ b < duration
  BY TimesAssumption DEF BackedUp
<1>2. SegmentsForStart(keys, duration, start) = Between(InOrder(X), duration)
  <2>1. (IF b < duration THEN b ELSE duration) = b
    BY <1>1
  <2> QED BY <2>1 DEF SegmentsForStart, Points, Spanned
<1>13. PICK n : Plainly(p, n, keys, duration)
  BY PlainIs
<1>3. /\ n \in Nat \ {0} /\ DOMAIN p = 1..n
      /\ \A i \in 1..n :
           /\ p[i].start \in K \cup {0} /\ p[i].start < p[i].end
           /\ p[i].end = duration \/ p[i].end \in K
           /\ p[i].end # duration => \E j \in 1..n : p[j].start = p[i].end
      /\ \A i, j \in 1..n : i < j => p[i].end <= p[j].start
  BY <1>13 DEF Plainly
<1>4. K \subseteq Nat /\ K \subseteq ToSet(keys) /\ \A k \in K : k < duration
  <2>1. \A k \in ToSet(keys) : k \in Int
    BY DEF ToSet
  <2> QED BY <2>1 DEF Inside
<1> HIDE DEF K, b
<1>5. ToSet(p) = {p[i] : i \in 1..n}
  BY <1>3 DEF ToSet
<1>6. X = {s.start : s \in ToSet(p)} \cup UNION {Splits(keys, s, start) : s \in {s \in ToSet(p) : Spanned(b, s)}}
  BY DEF Points, b
<1>7. \A s : \A x \in Splits(keys, s, start) : x \in ToSet(keys) /\ s.start < x /\ x < s.end
  BY DEF Splits
<1>8. ASSUME NEW s \in ToSet(p)
      PROVE  /\ s.start \in K \cup {0} /\ s.start \in Nat /\ s.end \in Nat /\ s.end <= duration
             /\ s.start \in X /\ s.end \in X \cup {duration}
             /\ Spanned(b, s) => Splits(keys, s, start) \subseteq X
  <2>1. PICK i \in 1..n : s = p[i]
    BY <1>5
  <2>2. /\ p[i].start \in K \cup {0} /\ (p[i].end = duration \/ p[i].end \in K)
        /\ p[i].end # duration => \E j \in 1..n : p[j].start = p[i].end
    BY <1>3
  <2>3. s.start \in X
    BY <1>6
  <2>4. s.end # duration => s.end \in X
    <3> SUFFICES ASSUME s.end # duration PROVE s.end \in X
      OBVIOUS
    <3>1. PICK j \in 1..n : p[j].start = p[i].end
      BY <2>1, <2>2
    <3>2. p[j] \in ToSet(p)
      BY <1>5
    <3> QED BY <1>6, <2>1, <3>1, <3>2
  <2>5. Spanned(b, s) => Splits(keys, s, start) \subseteq X
    BY <1>6
  <2>6. s.start \in Nat /\ s.end \in Nat /\ s.end <= duration
    <3>1. \A k \in K \cup {0, duration} : k \in Nat /\ k <= duration
      BY <1>4
    <3>2. s.start \in K \cup {0, duration} /\ s.end \in K \cup {0, duration}
      BY <2>1, <2>2
    <3> QED BY <3>1, <3>2
  <2> QED BY <2>1, <2>2, <2>3, <2>4, <2>5, <2>6
<1>9. ASSUME NEW x \in X PROVE x \in K \cup {0}
  <2>1. CASE \E s \in ToSet(p) : x = s.start
    BY <1>8, <2>1
  <2>2. CASE \E s \in ToSet(p) : x \in Splits(keys, s, start)
    <3>1. PICK s \in ToSet(p) : x \in Splits(keys, s, start)
      BY <2>2
    <3>2. x \in ToSet(keys) /\ s.start < x /\ x < s.end
      BY <1>7, <3>1
    <3>3. s.start \in Nat /\ s.end \in Nat /\ s.end <= duration
      BY <1>8
    <3>4. x \in Int
      BY <3>2 DEF ToSet
    <3>5. 0 < x /\ x < duration
      BY <3>2, <3>3, <3>4
    <3> QED BY <3>2, <3>5 DEF K, Inside
  <2> QED BY <1>6, <2>1, <2>2
<1>10. IsFiniteSet(X)
  <2>1. keys \in Surjection(1..Len(keys), ToSet(keys))
    BY DEF Surjection, ToSet
  <2>2. IsFiniteSet(1..Len(keys))
    <3>1. 1 \in Int /\ Len(keys) \in Int
      OBVIOUS
    <3> QED BY <3>1, FS_Interval
  <2>3. IsFiniteSet(ToSet(keys))
    BY <2>1, <2>2, FS_Surjection
  <2>4. IsFiniteSet(ToSet(keys) \cup {0})
    BY <2>3, FS_AddElement
  <2>5. X \subseteq ToSet(keys) \cup {0}
    BY <1>4, <1>9
  <2> QED BY <2>4, <2>5, FS_Subset
<1>11. ASSUME NEW s \in ToSet(p), NEW x \in X, s.start < x, x < s.end
       PROVE  Spanned(b, s) /\ x \in Splits(keys, s, start)
  <2>1. PICK i \in 1..n : s = p[i]
    BY <1>5
  <2>2. x \in Nat /\ s.start \in Nat /\ s.end \in Nat
    <3>1. x \in K \cup {0}
      BY <1>9
    <3>2. x \in Nat
      BY <1>4, <3>1
    <3> QED BY <1>8, <3>2
  <2>3. ASSUME NEW j \in 1..n, p[j].start <= x, x < p[j].end PROVE j = i
    <3>1. p[j] \in ToSet(p)
      BY <1>5
    <3>2. p[j].start \in Nat /\ p[j].end \in Nat
      BY <1>8, <3>1
    <3>3. ~(i < j) /\ ~(j < i)
      <4>1. (i < j => p[i].end <= p[j].start) /\ (j < i => p[j].end <= p[i].start)
        BY <1>3
      <4> QED BY <1>11, <2>1, <2>2, <2>3, <3>2, <4>1
    <3> QED BY <3>3
  <2>4. ASSUME NEW t \in ToSet(p), x = t.start PROVE FALSE
    <3>1. PICK j \in 1..n : t = p[j]
      BY <1>5
    <3>2. p[j].start < p[j].end
      BY <1>3
    <3>3. j = i
      BY <2>2, <2>3, <2>4, <3>1, <3>2
    <3> QED BY <1>11, <2>1, <2>2, <2>4, <3>1, <3>3
  <2>5. PICK t \in ToSet(p) : Spanned(b, t) /\ x \in Splits(keys, t, start)
    BY <1>6, <2>4
  <2>6. PICK j \in 1..n : t = p[j]
    BY <1>5
  <2>7. t.start < x /\ x < t.end
    BY <1>7, <2>5
  <2>8. t.start \in Nat
    BY <1>8
  <2>9. j = i
    BY <2>2, <2>3, <2>6, <2>7, <2>8
  <2> QED BY <2>1, <2>5, <2>6, <2>9
<1> QED BY <1>2, <1>8, <1>9, <1>10, <1>11 DEF K, b

\* The opening segment is cut from the last keyframe at or before its backed-up start on,
\* once past its start.
LEMMA SplitsAre ==
  ASSUME NEW duration \in Nat \ {0}, NEW keys \in Seq(Int), Ascends(keys), NEW start \in 0..(duration - 1),
         NEW s, s.start \in Nat \ {0}, s.end \in Nat, s.end <= duration, Spanned(start, s)
  PROVE  \A k \in Inside(keys, duration) : start < k /\ k < s.end =>
           \E x \in Splits(keys, s, start) : start < x /\ x <= k
<1> DEFINE all    == ToSet(keys)
           b      == BackedUp(start)
           upTo   == {k \in all : k <= b}
           before == IF upTo = {} THEN Min(all) ELSE Max(upTo)
           inside == {k \in all : k > s.start /\ k < s.end /\ ~(s.start = 0 /\ k = before)}
           past   == {k \in inside : k > start}
<1>1. Splits(keys, s, start) = {k \in inside : k >= before /\ (past # {} => k <= Min(past))}
  BY DEF Splits
<1>2. b \in 0..start /\ s.start \in Nat /\ s.start # 0 /\ \A k \in all : k \in Int
  BY TimesAssumption DEF BackedUp, ToSet
<1>3. inside = {k \in all : k > s.start /\ k < s.end}
  BY <1>2
<1>4. past = {k \in all : k > start /\ k < s.end}
  <2>1. \A k \in all : k > start /\ k < s.end => k > s.start
    BY <1>2 DEF Spanned
  <2> HIDE DEF inside
  <2> QED BY <1>3, <2>1
<1>5. \A x \in past : x >= before
  <2> SUFFICES ASSUME NEW x \in past PROVE x >= before
    OBVIOUS
  <2>1. x \in all /\ x > start /\ x \in Int
    BY <1>2, <1>4
  <2>2. CASE upTo = {}
    <3>1. all \subseteq Nat
      BY <1>2, <2>2
    <3>2. Min(all) <= x /\ before = Min(all)
      BY <2>1, <2>2, <3>1, Lowest
    <3>3. Min(all) \in Nat
      BY <2>1, <3>1, Lowest
    <3> QED BY <2>1, <3>2, <3>3
  <2>3. CASE upTo # {}
    <3> DEFINE places == {i \in 1..Len(keys) : keys[i] <= b}
    <3>1. upTo = {keys[i] : i \in places}
      BY DEF ToSet
    <3>2. places # {} /\ places \subseteq 1..Len(keys) /\ Len(keys) \in Nat
      BY <2>3, <3>1
    <3>3. Max(places) \in places /\ \A i \in places : i <= Max(places)
      BY <3>2, LastOf
    <3>4. PICK m \in places : \A i \in places : i <= m
      BY <3>3
    <3>5. \A i \in places : keys[m] >= keys[i]
      <4> SUFFICES ASSUME NEW i \in places PROVE keys[m] >= keys[i]
        OBVIOUS
      <4>1. i = m \/ i < m
        BY <3>4
      <4>2. i < m => keys[i] < keys[m]
        BY DEF Ascends
      <4>3. keys[i] \in Int /\ keys[m] \in Int
        OBVIOUS
      <4> QED BY <4>1, <4>2, <4>3
    <3>6. \E y \in upTo : \A z \in upTo : y >= z
      BY <3>1, <3>5
    <3>7. Max(upTo) \in upTo
      BY <3>6 DEF Max
    <3>8. before \in Int /\ before <= b
      BY <1>2, <2>3, <3>7
    <3> QED BY <1>2, <2>1, <3>8
  <2> QED BY <2>2, <2>3
<1> HIDE DEF before
<1>6. past \subseteq Nat
  BY <1>2, <1>4
<1>8. ASSUME NEW k \in Inside(keys, duration), start < k, k < s.end
      PROVE  \E x \in Splits(keys, s, start) : start < x /\ x <= k
  <2>1. k \in past
    BY <1>4, <1>8 DEF Inside
  <2>2. Min(past) \in past /\ Min(past) <= k
    BY <1>6, <2>1, Lowest
  <2>3. Min(past) \in Splits(keys, s, start) /\ start < Min(past)
    <3>1. Min(past) \in inside /\ Min(past) > start /\ Min(past) >= before
      BY <1>5, <2>2
    <3>2. Min(past) <= Min(past)
      <4>1. Min(past) \in Nat
        BY <1>6, <2>2
      <4> QED BY <4>1
    <3> HIDE DEF inside, past
    <3> QED BY <1>1, <3>1, <3>2
  <2> QED BY <2>2, <2>3
<1> QED BY <1>8

LEMMA MinIs == ASSUME NEW S, S \subseteq Nat, NEW x \in S, \A y \in S : x <= y PROVE Min(S) = x
<1>1. Min(S) \in S /\ Min(S) <= x
  BY Lowest
<1>2. Min(S) \in Nat /\ x \in Nat /\ x <= Min(S)
  BY <1>1
<1> QED BY <1>1, <1>2

Due(K, t) == {k \in K : NextTarget(t) <= k}

LEMMA PastIs ==
  ASSUME NEW duration \in Nat \ {0}, NEW K, K \subseteq Nat, \A k \in K : k < duration, NEW t \in Nat
  PROVE  Beyond(K, duration, t) = Due(K, t)
<1>1. ASSUME NEW k \in K, NEW m \in 1..duration, t < m * Target, m * Target <= k PROVE NextTarget(t) <= k
  <2>1. NextTarget(t) <= m * Target /\ NextTarget(t) \in Nat
    BY <1>1, NextIs
  <2>2. m * Target \in Int /\ k \in Int
    BY TimesAssumption
  <2> QED BY <1>1, <2>1, <2>2
<1>2. ASSUME NEW k \in K, NextTarget(t) <= k
      PROVE  \E m \in 1..duration : t < m * Target /\ m * Target <= k
  <2>1. PICK m \in Nat \ {0} : NextTarget(t) = m * Target
    BY NextIs
  <2>2. t < NextTarget(t)
    BY NextIs
  <2>3. m <= m * Target
    BY TimesAssumption
  <2>4. k \in Nat /\ k < duration /\ m * Target \in Nat
    BY TimesAssumption
  <2>5. m \in 1..duration
    BY <1>2, <2>1, <2>3, <2>4
  <2> QED BY <1>2, <2>1, <2>2, <2>5
<1> QED BY <1>1, <1>2 DEF Beyond, Due

LEMMA CutsTile ==
  ASSUME NEW file, file.duration \in Nat \ {0}, file.keyframes \in Seq(Int), Ascends(file.keyframes),
         NEW start \in 0..(file.duration - 1)
  PROVE  Tiles(file, start, SegmentsForStart(file.keyframes, file.duration, start))
<1> DEFINE duration == file.duration
           all      == file.keyframes
           K        == Inside(all, duration)
           b        == BackedUp(start)
           plain    == Segments(all, duration)
           X        == Points(all, duration, start)
           cuts     == SegmentsForStart(all, duration, start)
<1>1. K \subseteq Nat /\ \A k \in K : k < duration
  <2>1. \A k \in ToSet(all) : k \in Int
    BY DEF ToSet
  <2> QED BY <2>1 DEF Inside
<1>2. /\ cuts = Between(InOrder(X), duration)
      /\ X \subseteq K \cup {0} /\ IsFiniteSet(X)
      /\ \A s \in ToSet(plain) : s.start \in X /\ s.end \in X \cup {duration}
      /\ \A s \in ToSet(plain), x \in X : s.start < x /\ x < s.end => Spanned(b, s) /\ x \in Splits(all, s, start)
      /\ \A s \in ToSet(plain) : Spanned(b, s) => Splits(all, s, start) \subseteq X
  BY PointsAre
<1>3. PICK n : Plainly(plain, n, all, duration)
  BY PlainIs
<1> HIDE DEF K, b, plain, X, cuts, duration
<1>4. duration \in Nat \ {0}
  BY DEF duration
<1>5. ASSUME NEW s \in ToSet(plain)
      PROVE  /\ s.start \in Nat /\ s.end \in Nat /\ s.start < s.end /\ s.end <= duration
             /\ s.end = Min({duration} \cup Beyond(K, duration, s.start))
  <2>1. PICK i \in 1..n : s = plain[i]
    BY <1>3 DEF Plainly, ToSet
  <2>2. /\ s.start \in K \cup {0} /\ s.start < s.end
        /\ s.end = duration \/ (s.end \in K /\ NextTarget(s.start) <= s.end)
        /\ \A k \in K : NextTarget(s.start) <= k => s.end <= k
    BY <1>3, <2>1 DEF Plainly, K
  <2>3. s.start \in Nat /\ s.end \in Nat /\ s.end <= duration
    <3>1. \A k \in K \cup {0, duration} : k \in Nat /\ k <= duration
      BY <1>1, <1>4
    <3> QED BY <2>2, <3>1
  <2> DEFINE past == Due(K, s.start)
  <2>4. Beyond(K, duration, s.start) = past
    BY <1>1, <1>4, <2>3, PastIs
  <2>5. Min({duration} \cup past) = s.end
    <3>1. {duration} \cup past \subseteq Nat
      BY <1>1, <1>4 DEF Due
    <3>2. s.end \in {duration} \cup past /\ \A y \in {duration} \cup past : s.end <= y
      BY <2>2, <2>3 DEF Due
    <3> HIDE DEF past
    <3> QED BY <3>1, <3>2, MinIs
  <2> HIDE DEF past
  <2> QED BY <2>2, <2>3, <2>4, <2>5
<1>6. ToSet(plain) # {} /\ 0 \in X
  <2>1. 1 \in DOMAIN plain /\ plain[1].start = 0
    BY <1>3 DEF Plainly
  <2>2. plain[1] \in ToSet(plain)
    BY <2>1 DEF ToSet
  <2> QED BY <1>2, <2>1, <2>2
<1>7. X \subseteq Nat /\ \A t \in X : t < duration
  <2>1. \A t \in K \cup {0} : t \in Nat /\ t < duration
    BY <1>1, <1>4
  <2> QED BY <1>2, <2>1
<1>8. PICK l : Joins(cuts, l, X, duration)
  BY <1>2, <1>4, <1>6, <1>7, BetweenIs
<1>9. /\ l \in Nat \ {0} /\ DOMAIN cuts = 1..l /\ Len(cuts) = l /\ cuts[1].start = 0 /\ cuts[l].end = duration
      /\ \A i \in 1..l :
           /\ cuts[i].start \in X /\ cuts[i].start < cuts[i].end
           /\ cuts[i].end \in X \cup {duration}
           /\ \A t \in X : cuts[i].start < t => cuts[i].end <= t
           /\ i > 1 => cuts[i].start = cuts[i - 1].end
      /\ \A t \in X : \E i \in 1..l : cuts[i].start = t
  BY <1>8 DEF Joins
<1>10. ToSet(cuts) = {cuts[i] : i \in 1..l}
  BY <1>9 DEF ToSet
<1>11. ASSUME NEW c \in ToSet(cuts)
       PROVE  /\ c.start \in X /\ c.end \in X \cup {duration} /\ c.start < c.end
              /\ c.start \in Nat /\ c.end \in Nat
              /\ \A t \in X : c.start < t => c.end <= t
  <2>1. PICK i \in 1..l : c = cuts[i]
    BY <1>10
  <2>2. /\ c.start \in X /\ c.end \in X \cup {duration} /\ c.start < c.end
        /\ \A t \in X : c.start < t => c.end <= t
    BY <1>9, <2>1
  <2>3. c.start \in Nat /\ c.end \in Nat
    <3>1. X \cup {duration} \subseteq Nat
      BY <1>4, <1>7
    <3> QED BY <2>2, <3>1
  <2> QED BY <2>2, <2>3
<1>12. ASSUME NEW s \in ToSet(plain) PROVE s \in ToSet(cuts) \/ Spanned(b, s)
  <2> SUFFICES ASSUME ~Spanned(b, s) PROVE s \in ToSet(cuts)
    OBVIOUS
  <2>1. PICK i \in 1..l : cuts[i].start = s.start
    BY <1>2, <1>9
  <2>2. cuts[i] \in ToSet(cuts)
    BY <1>10
  <2>3. /\ cuts[i].end \in X \cup {duration} /\ s.start < cuts[i].end /\ cuts[i].end \in Nat
        /\ \A t \in X : s.start < t => cuts[i].end <= t
    BY <1>11, <2>1, <2>2
  <2>4. /\ s.start \in Nat /\ s.end \in Nat /\ s.start < s.end /\ s.end <= duration
        /\ s.end \in X \cup {duration}
    BY <1>2, <1>5
  <2>5. ~(cuts[i].end < s.end)
    <3> SUFFICES ASSUME cuts[i].end < s.end PROVE FALSE
      OBVIOUS
    <3>1. cuts[i].end \in X
      BY <1>4, <2>3, <2>4
    <3> QED BY <1>2, <2>3, <3>1
  <2>6. ~(s.end < cuts[i].end)
    <3> SUFFICES ASSUME s.end < cuts[i].end PROVE FALSE
      OBVIOUS
    <3>1. cuts[i].end <= duration
      BY <1>4, <1>7, <2>3
    <3>2. s.end \in X
      BY <1>4, <2>3, <2>4, <3>1
    <3> QED BY <2>3, <2>4, <3>2
  <2>7. cuts[i].start = s.start /\ cuts[i].end = s.end
    BY <2>1, <2>3, <2>4, <2>5, <2>6
  <2>8. cuts[i] = [start |-> s.start, end |-> s.end] /\ s = [start |-> s.start, end |-> s.end]
    <3>1. PICK j \in 1..n : s = plain[j]
      BY <1>3 DEF Plainly, ToSet
    <3>2. plain[j] = [start |-> plain[j].start, end |-> plain[j].end]
      BY <1>3 DEF Plainly
    <3>3. cuts[i] = [start |-> cuts[i].start, end |-> cuts[i].end]
      BY <1>8 DEF Joins
    <3> QED BY <2>7, <3>1, <3>2, <3>3
  <2> QED BY <2>2, <2>8
<1>13. ASSUME NEW s \in ToSet(plain), NEW c \in ToSet(cuts),
              s.start > 0, Spanned(b, s), Spanned(start, s), Spanned(start, c)
       PROVE  c.end = Min({duration, s.end} \cup {k \in K : k > start})
  <2> DEFINE S == {duration, s.end} \cup {k \in K : k > start}
  <2>1. /\ s.start \in Nat \ {0} /\ s.end \in Nat /\ s.end <= duration /\ s.end \in X \cup {duration}
        /\ Splits(all, s, start) \subseteq X
    <3>1. s.start \in Nat /\ s.end \in Nat /\ s.end <= duration /\ s.start > 0
      BY <1>5, <1>13
    <3>2. s.end \in X \cup {duration} /\ Splits(all, s, start) \subseteq X
      BY <1>2, <1>13
    <3> QED BY <3>1, <3>2
  <2>2. \A k \in K : start < k /\ k < s.end => \E x \in Splits(all, s, start) : start < x /\ x <= k
    <3>1. all \in Seq(Int) /\ Ascends(all) /\ start \in 0..(duration - 1)
      BY DEF duration
    <3> QED BY <1>4, <1>13, <2>1, <3>1, SplitsAre DEF K
  <2>3. /\ start \in Nat /\ c.start <= start /\ start < c.end /\ start < s.end
        /\ c.end \in X \cup {duration} /\ c.start \in Nat /\ c.end \in Nat
        /\ \A t \in X : c.start < t => c.end <= t
    BY <1>4, <1>11, <1>13 DEF Spanned, duration
  <2>4. \A t \in X : start < t => c.end <= t
    BY <1>7, <2>3
  <2>5. c.end <= duration
    BY <1>4, <1>7, <2>3
  <2>6. c.end <= s.end
    BY <2>1, <2>3, <2>4, <2>5
  <2>7. S \subseteq Nat
    BY <1>1, <1>4, <2>1
  <2>8. c.end \in S
    <3>1. c.end # duration => c.end \in K
      BY <1>2, <2>3
    <3> QED BY <2>3, <3>1
  <2>9. ASSUME NEW k \in K, start < k PROVE c.end <= k
    <3>1. k \in Nat
      BY <1>1
    <3>2. CASE k < s.end
      <4>1. PICK x \in X : start < x /\ x <= k
        BY <2>1, <2>2, <2>9, <3>2
      <4>2. c.end <= x /\ x \in Nat
        BY <1>7, <2>4, <4>1
      <4> QED BY <2>3, <3>1, <4>1, <4>2
    <3>3. CASE ~(k < s.end)
      BY <2>1, <2>3, <2>6, <3>1, <3>3
    <3> QED BY <3>2, <3>3
  <2>10. \A y \in S : c.end <= y
    BY <2>3, <2>5, <2>6, <2>9
  <2> HIDE DEF S
  <2>11. Min(S) = c.end
    BY <2>7, <2>8, <2>10, MinIs
  <2> QED BY <2>11 DEF S
<1>14. ASSUME NEW i \in 1..l
       PROVE  /\ cuts[i].start < cuts[i].end /\ cuts[i].start \in K \cup {0}
              /\ i > 1 => cuts[i].start = cuts[i - 1].end
  BY <1>2, <1>9
<1>15. \A s \in ToSet(plain) : s.start \in {c.start : c \in ToSet(cuts)}
  <2> SUFFICES ASSUME NEW s \in ToSet(plain) PROVE s.start \in {c.start : c \in ToSet(cuts)}
    OBVIOUS
  <2>1. PICK i \in 1..l : cuts[i].start = s.start
    BY <1>2, <1>9
  <2>2. cuts[i] \in ToSet(cuts)
    BY <1>10
  <2> QED BY <2>1, <2>2
<1> DEFINE Past(t) == Beyond(K, duration, t)
<1>16. /\ cuts[1].start = 0 /\ cuts[Len(cuts)].end = duration
       /\ \A i \in DOMAIN cuts : /\ cuts[i].start < cuts[i].end /\ cuts[i].start \in K \cup {0}
                                 /\ i > 1 => cuts[i].start = cuts[i - 1].end
       /\ \A s \in ToSet(plain) : /\ s.end = Min({duration} \cup Past(s.start))
                                  /\ s.start \in {c.start : c \in ToSet(cuts)}
                                  /\ s \in ToSet(cuts) \/ Spanned(b, s)
       /\ \A s \in ToSet(plain), c \in ToSet(cuts) :
            s.start > 0 /\ Spanned(b, s) /\ Spanned(start, s) /\ Spanned(start, c) =>
              c.end = Min({duration, s.end} \cup {k \in K : k > start})
  <2> HIDE DEF Past
  <2>1. \A i \in DOMAIN cuts : /\ cuts[i].start < cuts[i].end /\ cuts[i].start \in K \cup {0}
                               /\ i > 1 => cuts[i].start = cuts[i - 1].end
    BY <1>9, <1>14
  <2>2. \A s \in ToSet(plain) : s.end = Min({duration} \cup Past(s.start))
    BY <1>5 DEF Past
  <2> QED BY <1>9, <1>12, <1>13, <1>15, <2>1, <2>2
<1>17. \A t : Past(t) = {k \in K : \E m \in 1..duration : t < m * Target /\ m * Target <= k}
  BY DEF Beyond
<1> HIDE DEF Past
<1> QED BY <1>16, <1>17 DEF Tiles, Spanned, K, Inside, b, plain, cuts, duration

\* The playlist of whatever is played tiles its title at its keyframes, cut at the first
\* past each target, and only the segment the player opens on is cut again, for any file,
\* start and target.
THEOREM CutAtKeyframes == Spec => []CutsRight
<1>1. ASSUME NEW w \in Wants, NEW r \in Media PROVE Tiled[w][r]
  <2> DEFINE start == EffectiveStart(w.start, File[r].duration)
  <2>1. /\ File[r].duration \in Nat \ {0} /\ File[r].keyframes \in Seq(Int)
        /\ Ascends(File[r].keyframes)
    BY FilmsAssumption DEF Ascends
  <2>2. w.start \in Nat
    BY PickingAssumption DEF Want
  <2>3. start \in 0..(File[r].duration - 1)
    BY <2>1, <2>2 DEF EffectiveStart
  <2> HIDE DEF start
  <2> DEFINE f == File[r]
  <2> HIDE DEF f
  <2>4. /\ f.duration \in Nat \ {0} /\ f.keyframes \in Seq(Int) /\ Ascends(f.keyframes)
        /\ start \in 0..(f.duration - 1)
    BY <2>1, <2>3 DEF f
  <2>5. Tiles(f, start, SegmentsForStart(f.keyframes, f.duration, start))
    BY <2>4, CutsTile
  <2> QED BY <2>5 DEF Tiled, Cuts, start, f
<1>2. Inv => CutsRight
  <2> SUFFICES ASSUME Inv, pick # Idle, pick.phase = "decided", pick.out.rel # Nobody
               PROVE  Tiled[pick.want][pick.out.rel]
    BY DEF CutsRight
  <2>1. Steady /\ pick \in Pick
    BY DEF Inv, Typed
  <2>2. pick.want \in Wants /\ pick.out.rel \in Listed
    BY <2>1 DEF Pick
  <2>3. pick.out.rel \in Playable
    BY <2>1, <2>2, ListedIs DEF Steady, Played, Known
  <2>4. pick.out.rel \in Media
    BY <2>3 DEF Playable, Media, RefusedVideo
  <2> QED BY <1>1, <2>2, <2>4
<1> QED BY <1>2, InvAlways, PTL

=============================================================================
