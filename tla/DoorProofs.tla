------------------------------- MODULE DoorProofs -------------------------------
(* For any file, head, request sizes, queue and frames: what ffmpeg is given are the  *)
(* bytes of its range, what is counted adds up, and little is read ahead of it.      *)
EXTENDS Door, SequenceTheorems, TLAPS

USE DoorAssumption

\* The frames of q carry the bytes from a on and up to b, where p[k] is the first of the
\* k-th (an error carries none).
LaidAt(p, q, a, b) ==
  /\ p \in [1..(Len(q) + 1) -> Int]
  /\ p[1] = a /\ p[Len(q) + 1] = b
  /\ \A k \in 1..Len(q) : q[k] = Bytes(p[k], p[k + 1] - 1)
  /\ \A j, k \in 1..(Len(q) + 1) : j <= k => p[j] <= p[k] /\ p[k] - p[j] <= (k - j) * FrameMax
Laid(q, a, b) == \E p : LaidAt(p, q, a, b)

-----------------------------------------------------------------------------
(* The frames *)

\* Bytes lists the numbers of a range; an error is the empty one.
LEMMA BytesAre ==
  ASSUME NEW a \in Int, NEW n \in Nat
  PROVE  /\ Bytes(a, a + n - 1) \in Seq(Int) /\ Len(Bytes(a, a + n - 1)) = n
         /\ \A i \in 1..n : Bytes(a, a + n - 1)[i] = a + i - 1
         /\ Bytes(a, a + n - 1) = Error <=> n = 0
<1> DEFINE s == Bytes(a, a + n - 1)
<1>1. s = [i \in 1..n |-> a + i - 1]
  <2>1. (a + n - 1) - a + 1 = n
    OBVIOUS
  <2> QED BY <2>1 DEF Bytes
<1>2. s \in Seq(Int) /\ Len(s) = n
  <2>1. \A i \in 1..n : a + i - 1 \in Int
    OBVIOUS
  <2> QED BY <1>1, <2>1
<1>3. s = Error <=> n = 0
  BY <1>1, <1>2 DEF Error
<1> QED BY <1>1, <1>2, <1>3

\* Nothing lies between a position and itself.
LEMMA LaidNone == ASSUME NEW a \in Int PROVE Laid(<<>>, a, a)
<1> DEFINE p == [k \in 1..1 |-> a]
<1>1. Len(<<>>) = 0
  OBVIOUS
<1>2. LaidAt(p, <<>>, a, a)
  BY <1>1 DEF LaidAt
<1> QED BY <1>2 DEF Laid

\* A frame that goes on where the last one ended.
LEMMA LaidAppend ==
  ASSUME NEW q \in Seq(Seq(Int)), NEW a \in Int, NEW b \in Int, NEW n \in Nat,
         n <= FrameMax, Laid(q, a, b)
  PROVE  Laid(Append(q, Bytes(b, b + n - 1)), a, b + n)
<1> DEFINE m == Len(q)
           f == Bytes(b, b + n - 1)
           r == Append(q, f)
<1>1. PICK p : LaidAt(p, q, a, b)
  BY DEF Laid
<1> DEFINE w == [k \in 1..(m + 2) |-> IF k <= m + 1 THEN p[k] ELSE b + n]
<1>2. m \in Nat /\ Len(r) = m + 1 /\ FrameMax \in Nat
  OBVIOUS
<1>3. /\ p \in [1..(m + 1) -> Int] /\ p[1] = a /\ p[m + 1] = b
      /\ \A k \in 1..m : q[k] = Bytes(p[k], p[k + 1] - 1)
      /\ \A j, k \in 1..(m + 1) : j <= k => p[j] <= p[k] /\ p[k] - p[j] <= (k - j) * FrameMax
  BY <1>1 DEF LaidAt
<1>a. \A k \in 1..(m + 1) : p[k] \in Int
  <2>1. p \in [1..(m + 1) -> Int]
    BY <1>3
  <2> QED BY <2>1
<1>4. w \in [1..(m + 2) -> Int] /\ w[1] = a /\ w[m + 2] = b + n /\ w[m + 1] = b
  BY <1>2, <1>3
<1>5. \A k \in 1..(m + 1) : r[k] = Bytes(w[k], w[k + 1] - 1)
  <2> SUFFICES ASSUME NEW k \in 1..(m + 1) PROVE r[k] = Bytes(w[k], w[k + 1] - 1)
    OBVIOUS
  <2>1. CASE k = m + 1
    <3>1. r[k] = f /\ w[k] = b /\ w[k + 1] = b + n
      BY <2>1, <1>2, <1>4
    <3>2. Bytes(w[k], w[k + 1] - 1) = Bytes(b, (b + n) - 1)
      BY <3>1
    <3> HIDE DEF r, w, m
    <3> QED BY <3>1, <3>2
  <2>2. CASE k <= m
    <3>1. r[k] = q[k] /\ w[k] = p[k] /\ w[k + 1] = p[k + 1] /\ k \in 1..m
      BY <2>2, <1>2
    <3> QED BY <3>1, <1>3
  <2> QED BY <2>1, <2>2, <1>2
<1>6. ASSUME NEW j \in 1..(m + 2), NEW k \in 1..(m + 2), j <= k
      PROVE  w[j] <= w[k] /\ w[k] - w[j] <= (k - j) * FrameMax
  <2>1. CASE k <= m + 1
    <3>1. w[j] = p[j] /\ w[k] = p[k] /\ j \in 1..(m + 1) /\ k \in 1..(m + 1)
      BY <2>1, <1>2, <1>6
    <3> QED BY <3>1, <1>3, <1>6
  <2>2. CASE k = m + 2 /\ j <= m + 1
    <3>1. j \in 1..(m + 1) /\ m + 1 \in 1..(m + 1)
      BY <2>2, <1>2
    <3>2. p[j] <= b /\ b - p[j] <= (m + 1 - j) * FrameMax /\ p[j] \in Int
      <4>1. p[j] \in Int /\ p[m + 1] = b /\ j <= m + 1
        BY <3>1, <2>2, <1>a, <1>3
      <4>2. p[j] <= p[m + 1] /\ p[m + 1] - p[j] <= ((m + 1) - j) * FrameMax
        BY <3>1, <1>3, <4>1
      <4>3. (m + 1) - j = m + 1 - j
        OBVIOUS
      <4> QED BY <4>1, <4>2, <4>3
    <3>3. w[j] = p[j] /\ w[k] = b + n
      BY <2>2, <3>1, <1>2
    <3>4. (k - j) * FrameMax = (m + 1 - j) * FrameMax + FrameMax
      BY <2>2, <1>2
    <3>5. (m + 1 - j) * FrameMax \in Int
      BY <1>2, <3>1
    <3> DEFINE x == (m + 1 - j) * FrameMax
               y == (k - j) * FrameMax
    <3>6. p[j] <= b /\ b - p[j] <= x /\ p[j] \in Int /\ y = x + FrameMax /\ x \in Int
      BY <3>2, <3>4, <3>5
    <3> HIDE DEF w, m, x, y
    <3>7. p[j] <= b + n /\ (b + n) - p[j] <= y
      BY <3>6, <1>2
    <3> QED BY <3>3, <3>7 DEF y
  <2>3. CASE k = m + 2 /\ j = m + 2
    <3>1. w[j] = w[k] /\ w[k] \in Int /\ k - j = 0
      BY <2>3, <1>4, <1>2
    <3>2. (k - j) * FrameMax = 0
      BY <3>1, <1>2
    <3> HIDE DEF w
    <3> QED BY <3>1, <3>2
  <2> QED BY <2>1, <2>2, <2>3, <1>2, <1>6
<1>7. LaidAt(w, r, a, b + n)
  <2> HIDE DEF w, r, m
  <2> QED BY <1>2, <1>4, <1>5, <1>6 DEF LaidAt
<1> QED BY <1>7 DEF Laid

\* What lies in n frames is no more than n of the largest.
LEMMA LaidBound ==
  ASSUME NEW q \in Seq(Seq(Int)), NEW a \in Int, NEW b \in Int, Laid(q, a, b)
  PROVE  a <= b /\ b - a <= Len(q) * FrameMax
<1>1. PICK p : LaidAt(p, q, a, b)
  BY DEF Laid
<1>2. Len(q) \in Nat /\ 1 \in 1..(Len(q) + 1) /\ Len(q) + 1 \in 1..(Len(q) + 1) /\ 1 <= Len(q) + 1
  OBVIOUS
<1>3. p[1] <= p[Len(q) + 1] /\ p[Len(q) + 1] - p[1] <= ((Len(q) + 1) - 1) * FrameMax
  BY <1>1, <1>2 DEF LaidAt
<1>4. p[1] = a /\ p[Len(q) + 1] = b /\ (Len(q) + 1) - 1 = Len(q)
  BY <1>1, <1>2 DEF LaidAt
<1> QED BY <1>3, <1>4

\* The first frame carries the first bytes, the others what follows.
LEMMA LaidHead ==
  ASSUME NEW q \in Seq(Seq(Int)), q # <<>>, NEW a \in Int, NEW b \in Int, Laid(q, a, b)
  PROVE  \E n \in Nat : /\ Head(q) = Bytes(a, a + n - 1) /\ n <= FrameMax /\ a + n <= b
                        /\ Laid(Tail(q), a + n, b)
<1> DEFINE m == Len(q)
<1>1. PICK p : LaidAt(p, q, a, b)
  BY DEF Laid
<1>2. m \in Nat /\ m >= 1 /\ Len(Tail(q)) = m - 1 /\ Head(q) = q[1] /\ FrameMax \in Nat
  OBVIOUS
<1>3. /\ p \in [1..(m + 1) -> Int] /\ p[1] = a /\ p[m + 1] = b
      /\ \A k \in 1..m : q[k] = Bytes(p[k], p[k + 1] - 1)
      /\ \A j, k \in 1..(m + 1) : j <= k => p[j] <= p[k] /\ p[k] - p[j] <= (k - j) * FrameMax
  BY <1>1 DEF LaidAt
<1>a. \A k \in 1..(m + 1) : p[k] \in Int
  <2>1. p \in [1..(m + 1) -> Int]
    BY <1>3
  <2> QED BY <2>1
<1> DEFINE n == p[2] - a
           w == [k \in 1..m |-> p[k + 1]]
<1>4. 1 \in 1..(m + 1) /\ 2 \in 1..(m + 1) /\ m + 1 \in 1..(m + 1) /\ 1 \in 1..m
  BY <1>2
<1>5. p[2] \in Int /\ p[1] <= p[2] /\ p[2] - p[1] <= (2 - 1) * FrameMax /\ p[2] <= p[m + 1]
  <2>1. 1 <= 2 /\ 2 <= m + 1
    BY <1>2
  <2>2. p[1] <= p[2] /\ p[2] - p[1] <= (2 - 1) * FrameMax
    BY <1>3, <1>4, <2>1
  <2>3. p[2] <= p[m + 1]
    BY <1>3, <1>4, <2>1
  <2>4. p[2] \in Int
    BY <1>3, <1>4
  <2> QED BY <2>2, <2>3, <2>4
<1>6. n \in Nat /\ n <= FrameMax /\ a + n <= b /\ a + n = p[2]
  BY <1>2, <1>3, <1>5
<1>7. Head(q) = Bytes(a, a + n - 1)
  <2>1. q[1] = Bytes(p[1], p[1 + 1] - 1)
    BY <1>3, <1>4
  <2> QED BY <2>1, <1>2, <1>3, <1>6
<1>8. w \in [1..m -> Int] /\ w[1] = a + n /\ w[m] = b
  <2>1. \A k \in 1..m : k + 1 \in 1..(m + 1) /\ p[k + 1] \in Int
    BY <1>2, <1>a
  <2>2. w \in [1..m -> Int]
    BY <2>1
  <2>3. w[1] = p[2] /\ w[m] = p[m + 1]
    BY <1>2
  <2> QED BY <2>2, <2>3, <1>3, <1>6
<1>9. \A k \in 1..(m - 1) : Tail(q)[k] = Bytes(w[k], w[k + 1] - 1)
  <2> SUFFICES ASSUME NEW k \in 1..(m - 1) PROVE Tail(q)[k] = Bytes(w[k], w[k + 1] - 1)
    OBVIOUS
  <2>1. k + 1 \in 1..m /\ k \in 1..m
    BY <1>2
  <2>2. Tail(q)[k] = q[k + 1] /\ w[k] = p[k + 1] /\ w[k + 1] = p[(k + 1) + 1]
    BY <1>2, <2>1
  <2>3. q[k + 1] = Bytes(p[k + 1], p[(k + 1) + 1] - 1)
    BY <1>3, <2>1
  <2> QED BY <2>2, <2>3
<1>10. ASSUME NEW j \in 1..m, NEW k \in 1..m, j <= k
       PROVE  w[j] <= w[k] /\ w[k] - w[j] <= (k - j) * FrameMax
  <2>1. j + 1 \in 1..(m + 1) /\ k + 1 \in 1..(m + 1) /\ j + 1 <= k + 1 /\ (k + 1) - (j + 1) = k - j
    BY <1>2, <1>10
  <2>2. w[j] = p[j + 1] /\ w[k] = p[k + 1]
    OBVIOUS
  <2>3. p[j + 1] <= p[k + 1] /\ p[k + 1] - p[j + 1] <= ((k + 1) - (j + 1)) * FrameMax
    BY <1>3, <2>1
  <2> QED BY <2>1, <2>2, <2>3
<1>11. LaidAt(w, Tail(q), a + n, b)
  <2>1. Len(Tail(q)) + 1 = m
    BY <1>2
  <2> HIDE DEF w, m, n
  <2> QED BY <1>2, <2>1, <1>8, <1>9, <1>10 DEF LaidAt
<1>12. Laid(Tail(q), a + n, b)
  BY <1>11 DEF Laid
<1> HIDE DEF n
<1> QED BY <1>6, <1>7, <1>12

\* A frame put behind others leaves the first of them the first.
LEMMA HeadOfAppend ==
  ASSUME NEW q \in Seq(Seq(Int)), q # <<>>, NEW f \in Seq(Int)
  PROVE  /\ Append(q, f) # <<>> /\ Head(Append(q, f)) = Head(q)
         /\ Tail(Append(q, f)) = Append(Tail(q), f)
<1> DEFINE S == Seq(Int)
<1>1. q \in Seq(S) /\ f \in S
  OBVIOUS
<1> HIDE DEF S
<1>2. Head(Append(q, f)) = Head(q) /\ Tail(Append(q, f)) = Append(Tail(q), f)
  BY <1>1, HeadTailAppend
<1>3. Append(q, f) # <<>>
  <2> DEFINE r == Append(q, f)
  <2>1. Len(r) = Len(q) + 1 /\ Len(q) \in Nat
    BY <1>1
  <2> HIDE DEF r
  <2>2. Len(r) # 0
    BY <2>1
  <2>3. r # <<>>
    BY <2>2
  <2> QED BY <2>3 DEF r
<1> QED BY <1>2, <1>3

LEMMA LastOfAppend ==
  ASSUME NEW q \in Seq(Seq(Int)), NEW f \in Seq(Int)
  PROVE  LET r == Append(q, f) IN
         r \in Seq(Seq(Int)) /\ Len(r) = Len(q) + 1 /\ r[Len(r)] = f /\ r # <<>>
<1> DEFINE S == Seq(Int)
<1>1. q \in Seq(S) /\ f \in S /\ Len(q) \in Nat
  OBVIOUS
<1> HIDE DEF S
<1>2. Append(q, f) \in Seq(S) /\ Len(Append(q, f)) = Len(q) + 1 /\ Append(q, f)[Len(q) + 1] = f
  BY <1>1, AppendProperties
<1>3. Append(q, f) # <<>>
  BY <1>1, <1>2
<1> QED BY <1>2, <1>3 DEF S

\* An error that is last stays so, unless it is the one that is taken.
LEMMA LastOfTail ==
  ASSUME NEW q \in Seq(Seq(Int)), q # <<>>, Head(q) # Error, q[Len(q)] = Error
  PROVE  Tail(q) # <<>> /\ Tail(q)[Len(Tail(q))] = Error
<1> DEFINE S == Seq(Int)
           m == Len(q)
<1>1. q \in Seq(S) /\ m \in Nat /\ m >= 1 /\ Head(q) = q[1]
  OBVIOUS
<1> HIDE DEF S
<1>2. Len(Tail(q)) = m - 1 /\ \A k \in 1..Len(Tail(q)) : Tail(q)[k] = q[k + 1]
  BY <1>1, HeadTailProperties
<1> HIDE DEF m
<1>3. m # 1
  BY <1>1 DEF m
<1>4. m - 1 \in 1..(m - 1) /\ (m - 1) + 1 = m /\ m - 1 > 0
  BY <1>1, <1>3
<1>5. Tail(q)[m - 1] = q[m]
  BY <1>2, <1>4
<1>6. Tail(q) # <<>>
  BY <1>2, <1>4
<1> QED BY <1>2, <1>5, <1>6 DEF m

-----------------------------------------------------------------------------
(* The invariant *)

Steps == {"none", "asks", "answered", "refused", "reads", "sends", "seals", "done"}
Readers == {"none", "head", "upstream", "ended", "failed", "gone"}

\* The first byte that is not in the head, and the one ffmpeg is to be given next.
Begun == IF asked.first < Held THEN Smaller(asked.last, Held - 1) + 1 ELSE asked.first
Given == asked.first + Len(got)

Typed ==
  /\ asked.first \in Nat /\ asked.last \in Int
  /\ IF asked.status = 416 THEN asked.first = 0 /\ asked.last = -1
     ELSE asked.first <= asked.last /\ asked.last < Size
  /\ reader \in Readers /\ task \in Steps
  /\ got \in Seq(Int) /\ queue \in Seq(Seq(Int)) /\ Len(queue) <= Queue
  /\ at \in Int /\ to \in Int /\ left \in Int /\ chunk \in 1..Len(Spans)
  /\ requested \in Nat /\ consumed \in Int /\ failed \in Nat /\ abandoned \in Nat
  /\ after \in Nat

Exact == \A k \in 1..Len(got) : got[k] = asked.first + k - 1

\* Where reader and task are in the range.
Placed ==
  /\ reader \in {"none", "head"} => task = "none" /\ got = <<>>
  /\ Open => task # "none"
  /\ task = "none" => queue = <<>>
  /\ reader = "head" => asked.status # 416 /\ asked.first < Held
  /\ reader = "ended" => Given = asked.last + 1
  /\ Given <= asked.last + 1
  /\ task # "none" =>
       /\ asked.status # 416 /\ Begun <= at /\ at <= asked.last + 1
       /\ task # "done" => to <= asked.last
       /\ task = "asks" => at <= to
       /\ task \in {"answered", "refused", "reads"} => left = to - at + 1 /\ left >= 1
       /\ task = "sends" => frame \in Seq(Int) /\ left >= 0
       /\ task = "sends" /\ frame # Error => left = to - at + 1
       /\ task = "seals" => left = 0 /\ at = to + 1
       /\ Open /\ task = "done" =>
            at = asked.last + 1 \/ (queue # <<>> /\ queue[Len(queue)] = Error)

\* What lies between what was given and where the task is, is in the queue and in its hand.
Between == IF task = "sends" THEN Append(queue, frame) ELSE queue
Flowing == Open => Laid(Between, Given, at)

\* What the running request may still bring, and what of it may yet come to nothing.
Coming == IF task \in {"answered", "refused", "reads"} \/ (task = "sends" /\ frame # Error) THEN left ELSE 0
Unmet == failed + (IF task \in {"answered", "refused", "reads"} THEN left ELSE 0)

Counted ==
  /\ consumed = IF task = "none" THEN 0 ELSE Given - Begun
  /\ task = "none" \/ Open => abandoned = 0
  /\ task # "none" => requested >= at - Begun + Coming
  /\ consumed + abandoned <= requested
  /\ ~Open /\ task # "none" /\ ~(task = "sends" /\ frame # Error) =>
       requested - consumed - abandoned <= Unmet

\* Past the reader's end no second frame comes.
Late ==
  /\ Open \/ task \in {"none", "asks", "answered", "refused", "reads", "seals"} => after = 0
  /\ task = "sends" => after <= FrameMax
  /\ after <= FrameMax + DrainMax

Inv == Typed /\ Exact /\ Placed /\ Flowing /\ Counted /\ Late

-----------------------------------------------------------------------------
(* The request *)

LEMMA SpansAre == /\ Len(Spans) \in Nat /\ 1 <= Len(Spans)
                  /\ \A k \in 1..Len(Spans) : Spans[k] \in Int /\ Spans[k] >= 1
<1>1. Spans \in Seq(Nat \ {0}) /\ Spans # <<>>
  BY DoorAssumption
<1>2. \A k \in 1..Len(Spans) : Spans[k] \in Nat \ {0}
  BY <1>1
<1> QED BY <1>1, <1>2

\* An answer's range lies in the file, and is empty only where it is refused.
LEMMA AnswerIs ==
  ASSUME NEW h \in Headers
  PROVE  LET r == Answer(h) IN
         /\ r.first \in Nat /\ r.last \in Int
         /\ IF r.status = 416 THEN r.first = 0 /\ r.last = -1 ELSE r.first <= r.last /\ r.last < Size
<1>1. h.a \in {None} \cup Nat /\ h.b \in {None} \cup Nat /\ Size \in Nat /\ Size >= 1
  OBVIOUS
<1> DEFINE last == IF h.b = None THEN Size - 1 ELSE Smaller(h.b, Size - 1)
<1>2. last \in Int /\ last < Size
  BY <1>1 DEF Smaller
<1>3. CASE h.a = None
  BY <1>1, <1>3 DEF Answer
<1>4. CASE h.a # None /\ (h.a >= Size \/ last < h.a)
  <2>1. Answer(h) = [status |-> 416, first |-> 0, last |-> -1]
    BY <1>4 DEF Answer
  <2> QED BY <2>1
<1>5. CASE h.a # None /\ ~(h.a >= Size \/ last < h.a)
  <2>1. Answer(h) = [status |-> 206, first |-> h.a, last |-> last]
    BY <1>5 DEF Answer
  <2>2. h.a \in Nat /\ h.a <= last
    BY <1>1, <1>2, <1>5
  <2> HIDE DEF last
  <2> QED BY <2>1, <2>2, <1>2
<1> QED BY <1>3, <1>4, <1>5

LEMMA InitInv == Init => Inv
<1> SUFFICES ASSUME Init PROVE Inv
  OBVIOUS
<1>1. Typed
  <2>1. /\ asked.first \in Nat /\ asked.last \in Int
        /\ IF asked.status = 416 THEN asked.first = 0 /\ asked.last = -1
           ELSE asked.first <= asked.last /\ asked.last < Size
    BY AnswerIs DEF Init
  <2>2. got \in Seq(Int) /\ queue \in Seq(Seq(Int)) /\ Len(queue) <= Queue
    BY DEF Init
  <2> QED BY <2>1, <2>2, SpansAre DEF Init, Typed, Readers, Steps
<1>2. Placed
  BY <1>1 DEF Init, Placed, Typed, Open, Given
<1>3. Exact /\ Flowing /\ Counted /\ Late
  BY DEF Init, Exact, Flowing, Counted, Late, Open
<1> QED BY <1>1, <1>2, <1>3 DEF Inv

\* What the head does not hold begins in the range or just past it.
LEMMA BegunIs ==
  ASSUME Typed, asked.status # 416
  PROVE  Begun \in Nat /\ asked.first <= Begun /\ Begun <= asked.last + 1
<1>1. asked.first \in Nat /\ asked.last \in Int /\ asked.first <= asked.last /\ Held \in Nat
  BY DEF Typed
<1>2. CASE ~(asked.first < Held)
  BY <1>1, <1>2 DEF Begun
<1>3. CASE asked.first < Held
  <2>1. Begun = Smaller(asked.last, Held - 1) + 1
    BY <1>3 DEF Begun
  <2> QED BY <1>1, <1>3, <2>1 DEF Smaller
<1> QED BY <1>2, <1>3

\* A fetch's and each further request's end lie in the range.
LEMMA EndIs ==
  ASSUME NEW b \in Nat, NEW l \in Int, b <= l, NEW k \in 1..Len(Spans)
  PROVE  LET e == Smaller(l, b + Spans[k] - 1) IN e \in Int /\ e <= l /\ b <= e
BY SpansAre DEF Smaller

LEMMA FetchIs ==
  ASSUME NEW b \in Nat, asked.last \in Int, b <= asked.last, Fetch(b)
  PROVE  /\ task' = "asks" /\ at' = b /\ chunk' = 1 /\ chunk' \in 1..Len(Spans)
         /\ to' \in Int /\ to' <= asked.last /\ b <= to'
<1>1. 1 \in 1..Len(Spans)
  BY SpansAre
<1> DEFINE e == Smaller(asked.last, b + Spans[1] - 1)
<1>2. e \in Int /\ e <= asked.last /\ b <= e
  BY <1>1, EndIs
<1>3. task' = "asks" /\ at' = b /\ to' = e /\ chunk' = 1
  BY DEF Fetch
<1> HIDE DEF e
<1> QED BY <1>1, <1>2, <1>3

-----------------------------------------------------------------------------
(* The head *)

LEMMA ServeInv == ASSUME Inv, Serve PROVE Inv'
<1> USE DEF Inv
<1>1. /\ reader = "none" /\ asked.status # 416 /\ task = "none" /\ got = <<>> /\ queue = <<>>
      /\ asked' = asked /\ got' = got /\ queue' = queue /\ Given = asked.first /\ Given' = Given
      /\ Begun' = Begun
      /\ UNCHANGED <<frame, left, counts, after>>
  BY DEF Serve, Placed, Typed, Given, Begun, counts, Fetch, task_vars
<1>2. CASE asked.first < Held
  <2>1. reader' = "head" /\ task' = task /\ UNCHANGED task_vars
    BY <1>2 DEF Serve
  <2>2. Typed'
    BY <1>1, <2>1 DEF Typed, Readers, counts, task_vars
  <2>3. Placed'
    BY <1>1, <1>2, <2>1 DEF Placed, Typed, Open
  <2> QED BY <1>1, <2>1, <2>2, <2>3 DEF Exact, Flowing, Counted, Late, Open, counts
<1>3. CASE ~(asked.first < Held)
  <2>1. reader' = "upstream" /\ Fetch(asked.first)
    BY <1>3 DEF Serve
  <2>2. /\ task' = "asks" /\ at' = asked.first /\ chunk' = 1 /\ chunk' \in 1..Len(Spans)
        /\ to' \in Int /\ to' <= asked.last /\ asked.first <= to' /\ Begun = asked.first
    <3>1. asked.first \in Nat /\ asked.last \in Int /\ asked.first <= asked.last /\ Begun = asked.first
      BY <1>1, <1>3 DEF Typed, Begun
    <3> QED BY <3>1, <2>1, FetchIs
  <2>3. Typed'
    BY <1>1, <2>1, <2>2 DEF Typed, Readers, Steps, counts
  <2>4. Placed'
    BY <1>1, <2>1, <2>2 DEF Placed, Typed, Open
  <2>5. Flowing'
    BY <1>1, <2>2, LaidNone DEF Flowing, Between, Typed
  <2>6. Counted'
    BY <1>1, <2>1, <2>2 DEF Counted, Coming, Open, counts, Typed
  <2>7. Late'
    BY <1>1, <2>2 DEF Late, counts
  <2>8. Exact'
    BY <1>1 DEF Exact
  <2> QED BY <2>3, <2>4, <2>5, <2>6, <2>7, <2>8
<1> QED BY <1>2, <1>3

LEMMA RefuseInv == ASSUME Inv, Refuse PROVE Inv'
<1> USE DEF Inv
<1>1. /\ reader = "none" /\ asked.status = 416 /\ task = "none" /\ got = <<>> /\ reader' = "ended"
      /\ UNCHANGED <<asked, got, queue, task, task_vars, frame, counts, after>>
      /\ Given' = Given /\ Given = 0 /\ asked.last = -1
  BY DEF Refuse, Placed, Typed, Given
<1>2. Typed' /\ Placed'
  BY <1>1 DEF Typed, Placed, Readers, Open, task_vars, counts
<1>3. Exact' /\ Flowing' /\ Counted' /\ Late'
  BY <1>1 DEF Exact, Flowing, Counted, Late, Open, counts
<1> QED BY <1>2, <1>3

LEMMA ReadHeadInv == ASSUME Inv, ReadHead PROVE Inv'
<1> USE DEF Inv
<1> DEFINE upto == Smaller(asked.last, Held - 1)
           n == upto + 1 - asked.first
<1>1. /\ reader = "head" /\ asked.status # 416 /\ asked.first < Held /\ task = "none" /\ queue = <<>>
      /\ asked.first \in Nat /\ asked.last \in Int /\ asked.first <= asked.last
      /\ got' = Bytes(asked.first, upto)
      /\ UNCHANGED <<asked, queue, frame, left, counts, after>>
  BY DEF ReadHead, Placed, Typed, Fetch, task_vars
<1>2. /\ upto \in Nat /\ n \in Nat /\ upto <= asked.last /\ Begun = upto + 1 /\ Begun' = Begun
      /\ upto = asked.first + n - 1
  BY <1>1 DEF Smaller, Begun
<1>3. got' \in Seq(Int) /\ Len(got') = n /\ Given' = upto + 1 /\ Exact'
  <2>1. Bytes(asked.first, upto) = Bytes(asked.first, asked.first + n - 1)
    BY <1>2
  <2>2. asked.first \in Int /\ n \in Nat
    BY <1>1, <1>2
  <2> HIDE DEF n, upto
  <2> DEFINE s == Bytes(asked.first, asked.first + n - 1)
  <2>3. s \in Seq(Int) /\ Len(s) = n /\ \A k \in 1..n : s[k] = asked.first + k - 1
    BY <2>2, BytesAre
  <2>4. got' = s
    BY <1>1, <2>1
  <2> HIDE DEF s
  <2>5. Exact'
    BY <1>1, <2>3, <2>4 DEF Exact
  <2>6. Given' = asked.first + n
    BY <1>1, <2>3, <2>4 DEF Given
  <2> QED BY <1>1, <1>2, <2>3, <2>4, <2>5, <2>6
<1> HIDE DEF n
<1>4. CASE upto < asked.last
  <2>1. reader' = "upstream" /\ Fetch(upto + 1)
    BY <1>4 DEF ReadHead
  <2> HIDE DEF upto
  <2>2. /\ task' = "asks" /\ at' = upto + 1 /\ chunk' = 1 /\ chunk' \in 1..Len(Spans)
        /\ to' \in Int /\ to' <= asked.last /\ upto + 1 <= to'
    <3>1. upto + 1 \in Nat /\ upto + 1 <= asked.last
      BY <1>1, <1>2, <1>4
    <3> QED BY <3>1, <1>1, <2>1, FetchIs
  <2>3. Typed'
    BY <1>1, <1>2, <1>3, <2>1, <2>2 DEF Typed, Readers, Steps, counts
  <2>4. Placed'
    BY <1>1, <1>2, <1>3, <1>4, <2>1, <2>2 DEF Placed, Open
  <2>5. Flowing'
    <3>1. Between' = <<>> /\ Given' = upto + 1 /\ at' = upto + 1 /\ upto + 1 \in Int
      BY <1>1, <1>2, <1>3, <2>2 DEF Between
    <3> QED BY <3>1, LaidNone DEF Flowing
  <2>6. Counted'
    BY <1>1, <1>2, <1>3, <2>1, <2>2 DEF Counted, Coming, Open, counts, Typed
  <2>7. Late'
    BY <1>1, <2>2 DEF Late, counts
  <2> QED BY <1>3, <2>3, <2>4, <2>5, <2>6, <2>7
<1>5. CASE ~(upto < asked.last)
  <2>1. reader' = "ended" /\ UNCHANGED <<task, task_vars>>
    BY <1>5 DEF ReadHead
  <2> HIDE DEF upto
  <2>2. Typed'
    BY <1>1, <1>3, <2>1 DEF Typed, Readers, counts, task_vars
  <2>3. Placed'
    BY <1>1, <1>2, <1>3, <1>5, <2>1 DEF Placed, Open
  <2> QED BY <1>1, <1>3, <2>1, <2>2, <2>3 DEF Flowing, Counted, Late, Open, counts
<1> QED BY <1>4, <1>5

-----------------------------------------------------------------------------
(* The reader *)

\* What is counted as abandoned when a body goes is what was asked for and neither came
\* nor failed.
LEMMA AccountIs ==
  ASSUME Typed, consumed + abandoned <= requested, Account
  PROVE  /\ abandoned' \in Nat /\ consumed + abandoned' <= requested
         /\ requested - consumed - abandoned' <= failed
<1>1. requested \in Int /\ consumed \in Int /\ failed \in Nat /\ abandoned \in Nat
  BY DEF Typed
<1>2. abandoned' = IF abandoned > Outstanding THEN abandoned ELSE Outstanding
  BY DEF Account, Larger
<1>3. Outstanding = IF requested - consumed - failed > 0 THEN requested - consumed - failed ELSE 0
  BY DEF Outstanding, Larger
<1> QED BY <1>1, <1>2, <1>3

LEMMA BetweenIs ==
  ASSUME Typed, Placed
  PROVE  Between \in Seq(Seq(Int)) /\ Len(Between) <= Queue + 1
<1>1. CASE task = "sends"
  BY <1>1 DEF Typed, Placed, Between
<1>2. CASE task # "sends"
  BY <1>2 DEF Typed, Placed, Between
<1> QED BY <1>1, <1>2

\* While the body is read, what was given was asked for.
LEMMA ReadIs ==
  ASSUME Inv, Open
  PROVE  /\ Given \in Int /\ Given <= at /\ at \in Int /\ Begun \in Nat /\ asked.status # 416
         /\ consumed = Given - Begun /\ abandoned = 0 /\ consumed <= requested /\ Coming >= 0
<1>1. Given \in Int /\ at \in Int /\ Typed /\ Placed /\ Counted /\ task # "none"
  BY DEF Inv, Typed, Placed, Given
<1>2. Begun \in Nat /\ asked.status # 416
  BY <1>1, BegunIs DEF Placed
<1>3. Given <= at
  BY <1>1, BetweenIs, LaidBound DEF Inv, Flowing
<1>4. Coming \in Int /\ Coming >= 0
  BY <1>1 DEF Coming, Typed, Placed
<1>5. consumed = Given - Begun /\ abandoned = 0 /\ requested >= at - Begun + Coming /\ requested \in Int
  BY <1>1 DEF Counted, Typed
<1> QED BY <1>1, <1>2, <1>3, <1>4, <1>5

\* A body that goes: what is left to it is accounted for, and its task, if it has one,
\* goes on.
LEMMA GoneInv ==
  ASSUME Inv, Open, reader' \in {"failed", "ended", "gone"}, queue' = <<>>, Account,
         reader' = "ended" => Given = asked.last + 1,
         UNCHANGED <<asked, got, task, task_vars, frame, requested, consumed, failed, after>>
  PROVE  Inv'
<1> USE DEF Inv
<1>1. /\ abandoned' \in Nat /\ consumed + abandoned' <= requested
      /\ requested - consumed - abandoned' <= failed
  BY AccountIs DEF Counted
<1>2. /\ task' = task /\ task # "none" /\ asked' = asked /\ got' = got /\ Given' = Given /\ Begun' = Begun
      /\ UNCHANGED <<at, to, chunk, left, frame, requested, consumed, failed, after>> /\ ~Open'
  BY DEF Given, Begun, task_vars, Placed, Open
<1>3. Typed' /\ Exact'
  BY <1>1, <1>2 DEF Typed, Exact, Readers
<1>4. Placed'
  BY <1>2 DEF Placed, Open
<1>5. Counted'
  <2>1. Coming' = Coming /\ Unmet' = Unmet /\ Unmet >= failed
    BY <1>2 DEF Coming, Unmet, Typed, Placed
  <2>2. requested - consumed - abandoned' <= Unmet
    <3>1. Unmet \in Int /\ failed \in Int /\ requested - consumed - abandoned' \in Int
      BY <1>1, <1>2 DEF Unmet, Typed
    <3> QED BY <3>1, <2>1, <1>1
  <2> QED BY <1>1, <1>2, <2>1, <2>2 DEF Counted, Open
<1>6. Flowing' /\ Late'
  BY <1>2 DEF Flowing, Late, Open
<1> QED BY <1>3, <1>4, <1>5, <1>6

LEMMA CloseInv == ASSUME Inv, Close PROVE Inv'
<1>1. Open /\ queue = <<>> /\ task = "done"
  BY DEF Close, Open
<1>2. Given = at /\ at = asked.last + 1
  <2>1. at = asked.last + 1
    BY <1>1 DEF Inv, Placed
  <2>2. Laid(<<>>, Given, at)
    BY <1>1 DEF Inv, Flowing, Between
  <2>3. at - Given <= 0 * FrameMax
    <3>1. <<>> \in Seq(Seq(Int)) /\ Len(<<>>) = 0
      OBVIOUS
    <3> QED BY <3>1, <1>1, <2>2, ReadIs, LaidBound
  <2> QED BY <1>1, <2>1, <2>3, ReadIs
<1> QED BY <1>1, <1>2, GoneInv DEF Close

LEMMA LeaveInv == ASSUME Inv, Leave PROVE Inv'
<1>1. CASE Open
  BY <1>1, GoneInv DEF Leave, Open
<1>2. CASE reader = "head"
  <2> USE DEF Inv
  <2>1. /\ task = "none" /\ reader' = "gone" /\ queue' = <<>> /\ queue = <<>>
        /\ UNCHANGED <<asked, got, task, task_vars, frame, counts, after>>
        /\ Given' = Given
    BY <1>2 DEF Leave, Placed, counts, Given
  <2>2. Typed' /\ Exact' /\ Placed'
    BY <2>1 DEF Typed, Exact, Placed, Readers, Open, task_vars, counts
  <2>3. Flowing' /\ Counted' /\ Late'
    BY <2>1 DEF Flowing, Counted, Late, Open, counts
  <2> QED BY <2>2, <2>3
<1> QED BY <1>1, <1>2 DEF Leave, Open

\* The next frame carries on where ffmpeg is.
LEMMA BetweenHead ==
  ASSUME Inv, Open, queue # <<>>
  PROVE  \E n \in Nat : /\ Head(queue) = Bytes(Given, Given + n - 1) /\ Given + n <= at
                        /\ Laid(IF task = "sends" THEN Append(Tail(queue), frame) ELSE Tail(queue), Given + n, at)
<1>1. Between \in Seq(Seq(Int)) /\ Given \in Int /\ at \in Int /\ Laid(Between, Given, at)
  BY BetweenIs, ReadIs DEF Inv, Flowing
<1>2. queue \in Seq(Seq(Int)) /\ queue # <<>>
  BY DEF Inv, Typed
<1>3. /\ Between # <<>> /\ Head(Between) = Head(queue)
      /\ Tail(Between) = IF task = "sends" THEN Append(Tail(queue), frame) ELSE Tail(queue)
  <2>1. CASE task = "sends"
    <3>1. frame \in Seq(Int)
      BY <2>1 DEF Inv, Placed
    <3>2. /\ Append(queue, frame) # <<>> /\ Head(Append(queue, frame)) = Head(queue)
          /\ Tail(Append(queue, frame)) = Append(Tail(queue), frame)
      BY <3>1, <1>2, HeadOfAppend
    <3> QED BY <2>1, <3>2 DEF Between
  <2>2. CASE task # "sends"
    BY <2>2, <1>2 DEF Between
  <2> QED BY <2>1, <2>2
<1>4. PICK n \in Nat : /\ Head(Between) = Bytes(Given, Given + n - 1) /\ n <= FrameMax /\ Given + n <= at
                       /\ Laid(Tail(Between), Given + n, at)
  BY <1>1, <1>3, LaidHead
<1> QED BY <1>3, <1>4

LEMMA RecvInv == ASSUME Inv, Recv PROVE Inv'
<1>1. Open /\ queue # <<>> /\ asked' = asked
  BY DEF Recv, Open
<1>2. CASE Head(queue) = Error
  BY <1>1, <1>2, GoneInv DEF Recv
<1>3. CASE Head(queue) # Error
  <2> USE DEF Inv
  <2>1. PICK n \in Nat : /\ Head(queue) = Bytes(Given, Given + n - 1) /\ Given + n <= at
                         /\ Laid(IF task = "sends" THEN Append(Tail(queue), frame) ELSE Tail(queue), Given + n, at)
    BY <1>1, BetweenHead
  <2>2. /\ got' = got \o Head(queue) /\ queue' = Tail(queue) /\ consumed' = consumed + Len(Head(queue))
        /\ UNCHANGED <<asked, reader, task, at, to, chunk, left, frame, requested, failed, abandoned, after>>
    BY <1>1, <1>3 DEF Recv, task_vars
  <2>3. /\ Given \in Int /\ at \in Int /\ Begun \in Nat /\ consumed = Given - Begun /\ abandoned = 0
        /\ task # "none" /\ asked.status # 416 /\ Coming >= 0 /\ asked.first \in Nat /\ asked.last \in Int
        /\ got \in Seq(Int) /\ at <= asked.last + 1
    BY <1>1, ReadIs DEF Typed, Placed
  <2>4. /\ Head(queue) \in Seq(Int) /\ Len(Head(queue)) = n
        /\ \A k \in 1..n : Head(queue)[k] = Given + k - 1
    <3> DEFINE b == Bytes(Given, Given + n - 1)
    <3>1. b \in Seq(Int) /\ Len(b) = n /\ \A k \in 1..n : b[k] = Given + k - 1
      <4>1. Given \in Int /\ n \in Nat
        BY <2>1, <2>3
      <4> QED BY <4>1, BytesAre
    <3>2. Head(queue) = b
      BY <2>1
    <3> HIDE DEF b
    <3> QED BY <3>1, <3>2
  <2>5. got' \in Seq(Int) /\ Len(got') = Len(got) + n /\ Given' = Given + n
    <3>1. got' \in Seq(Int) /\ Len(got') = Len(got) + n
      <4> DEFINE b == Head(queue)
      <4>1. b \in Seq(Int) /\ Len(b) = n /\ got \in Seq(Int)
        BY <2>3, <2>4
      <4> HIDE DEF b
      <4>2. got \o b \in Seq(Int) /\ Len(got \o b) = Len(got) + Len(b)
        BY <4>1, ConcatProperties
      <4> QED BY <4>1, <4>2, <2>2 DEF b
    <3>2. Len(got) \in Nat
      BY <2>3
    <3> QED BY <3>1, <3>2, <2>2, <2>3 DEF Given
  <2>6. Exact'
    <3> SUFFICES ASSUME NEW k \in 1..Len(got') PROVE got'[k] = asked.first + k - 1
      BY <2>2 DEF Exact
    <3>1. CASE k <= Len(got)
      <4>1. got'[k] = got[k] /\ k \in 1..Len(got)
        BY <3>1, <2>2, <2>3, <2>4, <2>5
      <4> QED BY <4>1 DEF Exact
    <3>2. CASE k > Len(got)
      <4>1. k - Len(got) \in 1..n /\ got'[k] = Head(queue)[k - Len(got)]
        <5>1. Len(got) \in Nat /\ k \in 1..(Len(got) + Len(Head(queue)))
          BY <2>3, <2>4, <2>5
        <5>2. k - Len(got) \in 1..n
          BY <3>2, <5>1, <2>4
        <5>3. got'[k] = IF k <= Len(got) THEN got[k] ELSE Head(queue)[k - Len(got)]
          BY <5>1, <2>2, <2>3, <2>4, ConcatProperties
        <5> QED BY <3>2, <5>1, <5>2, <5>3
      <4>2. got'[k] = Given + (k - Len(got)) - 1
        BY <4>1, <2>4
      <4> QED BY <4>2, <2>3 DEF Given
    <3> QED BY <3>1, <3>2, <2>3, <2>5
  <2>7. queue' \in Seq(Seq(Int)) /\ Len(queue') <= Queue
    BY <1>1, <2>2 DEF Typed
  <2>8. Typed'
    BY <2>2, <2>3, <2>4, <2>5, <2>7 DEF Typed
  <2>9. Placed'
    <3>1. queue # <<>> /\ queue[Len(queue)] = Error => queue' # <<>> /\ queue'[Len(queue')] = Error
      <4>1. queue \in Seq(Seq(Int))
        BY DEF Typed
      <4> QED BY <4>1, <1>3, <2>2, LastOfTail
    <3>2. Given' <= asked.last + 1
      BY <2>1, <2>3, <2>5
    <3> QED BY <1>1, <2>2, <2>3, <2>5, <3>1, <3>2 DEF Placed, Open, Begun
  <2>10. Flowing'
    BY <2>1, <2>2, <2>5 DEF Flowing, Between
  <2>11. Counted'
    <3>1. Begun' = Begun /\ Coming' = Coming /\ consumed' = Given' - Begun
      <4>1. Begun' = Begun /\ Coming' = Coming
        BY <2>2 DEF Begun, Coming
      <4>2. consumed' = (Given - Begun) + n /\ Given' = Given + n
        BY <2>2, <2>3, <2>4, <2>5
      <4> QED BY <4>1, <4>2, <2>3
    <3>2. requested >= at - Begun + Coming /\ requested \in Int /\ Coming \in Int
      BY <2>3 DEF Counted, Typed, Coming
    <3>3. consumed' + abandoned <= requested
      BY <3>1, <3>2, <2>1, <2>3, <2>5
    <3> QED BY <1>1, <2>2, <2>3, <3>1, <3>2, <3>3 DEF Counted, Open
  <2>12. Late'
    BY <1>1, <2>2 DEF Late, Open
  <2> QED BY <2>6, <2>8, <2>9, <2>10, <2>11, <2>12
<1> QED BY <1>2, <1>3

-----------------------------------------------------------------------------
(* The task *)

\* What there is while the task is at something.
Numbers ==
  /\ at \in Nat /\ to \in Int /\ left \in Int /\ failed \in Nat /\ abandoned \in Nat /\ after \in Nat
  /\ requested \in Nat /\ consumed \in Int /\ Begun \in Nat /\ asked.status # 416
  /\ queue \in Seq(Seq(Int)) /\ asked.last \in Int /\ Given \in Int

LEMMA TaskIs ==
  ASSUME Inv, task # "none"
  PROVE  Numbers
BY BegunIs DEF Inv, Typed, Placed, Given, Numbers

\* A frame in hand follows what is queued.
LEMMA InHand ==
  ASSUME Inv, Open, task # "none", task # "sends", NEW n \in Nat, n <= FrameMax
  PROVE  Laid(Append(queue, Bytes(at, at + n - 1)), Given, at + n)
<1>1. queue \in Seq(Seq(Int)) /\ Given \in Int /\ at \in Int /\ Laid(queue, Given, at)
  BY TaskIs DEF Numbers, Inv, Flowing, Between
<1> QED BY <1>1, LaidAppend

LEMMA AskInv == ASSUME Inv, Ask PROVE Inv'
<1> USE DEF Inv
<1>1. /\ task = "asks" /\ requested' = requested + (to - at + 1) /\ left' = to - at + 1
      /\ task' \in {"answered", "refused"}
      /\ UNCHANGED <<asked, reader, got, at, to, chunk, frame, queue, consumed, failed, abandoned, after>>
      /\ Given' = Given /\ Begun' = Begun
  BY DEF Ask, Given, Begun
<1>t. task # "none" /\ Numbers
  BY <1>1, TaskIs
<1>2. at <= to /\ at \in Nat /\ to \in Int /\ left' >= 1 /\ left' \in Int
  BY <1>1, <1>t DEF Placed, Numbers
<1>3. Typed' /\ Exact'
  BY <1>1, <1>2 DEF Typed, Exact, Steps
<1>4. Placed'
  BY <1>1, <1>2 DEF Placed, Open
<1>5. Flowing'
  BY <1>1 DEF Flowing, Between, Open
<1>6. Counted'
  <2>1. Coming = 0 /\ Coming' = left' /\ Unmet = failed /\ Unmet' = failed + left'
    BY <1>1, <1>2, <1>t DEF Coming, Unmet, Numbers
  <2>2. requested >= at - Begun /\ requested' = requested + left' /\ consumed = Given - Begun
    BY <1>1, <2>1, <1>t DEF Counted, Numbers
  <2>3. requested' >= at - Begun + Coming' /\ consumed + abandoned <= requested'
    BY <1>1, <1>2, <2>1, <2>2, <1>t DEF Counted, Numbers
  <2>4. ~Open => requested - consumed - abandoned <= failed
    BY <1>1, <2>1 DEF Counted
  <2>5. ~Open => requested' - consumed - abandoned <= Unmet'
    BY <1>1, <1>2, <2>1, <2>2, <2>4, <1>t DEF Numbers
  <2> QED BY <1>1, <2>2, <2>3, <2>5 DEF Counted, Open
<1>7. Late'
  BY <1>1 DEF Late, Open
<1> QED BY <1>3, <1>4, <1>5, <1>6, <1>7

\* A request that comes to nothing, or is not ended as it should be.
LEMMA FailsInv ==
  ASSUME Inv, task \in {"answered", "refused", "reads", "seals"}, Fails(left),
         after' \in Nat, after' <= FrameMax, Open => after' = 0,
         UNCHANGED <<asked, reader, got, task_vars, queue, requested, consumed, abandoned>>
  PROVE  Inv'
<1> USE DEF Inv
<1>1. /\ failed' = failed + left /\ task' = "sends" /\ frame' = Error
      /\ UNCHANGED <<asked, reader, got, at, to, chunk, left, queue, requested, consumed, abandoned>>
      /\ Given' = Given /\ Begun' = Begun
  BY DEF Fails, Given, Begun, task_vars
<1>t. task # "none" /\ Numbers
  BY TaskIs
<1>2. left \in Nat /\ failed' \in Nat
  BY <1>1, <1>t DEF Placed, Numbers
<1>3. Typed' /\ Exact'
  BY <1>1, <1>2 DEF Typed, Exact, Steps
<1>4. Placed'
  BY <1>1, <1>2 DEF Placed, Open, Error
<1>5. Flowing'
  <2> SUFFICES ASSUME Open PROVE Laid(Append(queue, Error), Given, at)
    BY <1>1 DEF Flowing, Between, Open
  <2>1. at \in Int /\ 0 \in Nat /\ at + 0 = at /\ 0 <= FrameMax
    BY <1>t DEF Numbers
  <2>2. Bytes(at, at + 0 - 1) = Error
    BY <2>1, BytesAre
  <2>3. Laid(Append(queue, Bytes(at, at + 0 - 1)), Given, at + 0)
    BY <2>1, InHand
  <2> QED BY <2>1, <2>2, <2>3
<1>6. Counted'
  <2>1. Coming' = 0 /\ Coming = IF task = "seals" THEN 0 ELSE left
    BY <1>1 DEF Coming
  <2>2. Unmet' = failed + left /\ (task = "seals" => left = 0) /\ Unmet = failed + left
    BY <1>1, <1>t DEF Unmet, Placed, Numbers
  <2>3. requested >= at - Begun
    <3>1. requested >= at - Begun + Coming
      BY DEF Counted
    <3> QED BY <3>1, <2>1, <1>2, <1>t DEF Numbers
  <2>4. ~Open => requested - consumed - abandoned <= Unmet'
    BY <2>2 DEF Counted
  <2> QED BY <1>1, <2>1, <2>3, <2>4, <1>t DEF Counted, Open, Numbers
<1>7. Late'
  BY <1>1 DEF Late, Open
<1> QED BY <1>3, <1>4, <1>5, <1>6, <1>7

\* While the task is at anything but a frame it has not sent, none came too late.
LEMMA NoneLate ==
  ASSUME Inv, task \in {"answered", "refused", "reads", "seals"}, after' = after
  PROVE  after' \in Nat /\ after' <= FrameMax /\ (Open => after' = 0)
BY DEF Inv, Late, Typed

LEMMA RefusedInv == ASSUME Inv, Refused PROVE Inv'
<1>1. after' = after /\ task \in {"answered", "refused"} /\ Fails(left)
  BY DEF Refused
<1> QED BY <1>1, NoneLate, FailsInv DEF Refused

LEMMA ShortInv == ASSUME Inv, Short PROVE Inv'
<1>1. after' = after /\ task = "reads" /\ Fails(left)
  BY DEF Short
<1> QED BY <1>1, NoneLate, FailsInv DEF Short

LEMMA AnsweredInv == ASSUME Inv, NEW fits \in BOOLEAN, Answered(fits) PROVE Inv'
<1>1. CASE ~fits
  <2>1. after' = after /\ task = "answered" /\ Fails(left)
    BY <1>1 DEF Answered
  <2> QED BY <2>1, NoneLate, FailsInv DEF Answered
<1>2. CASE fits
  <2> USE DEF Inv
  <2>1. /\ task = "answered" /\ task' = "reads"
        /\ UNCHANGED <<asked, reader, got, at, to, chunk, left, frame, queue, requested, consumed, failed,
                      abandoned, after>>
        /\ Given' = Given /\ Begun' = Begun
    BY <1>2 DEF Answered, task_vars, Given, Begun
  <2>2. Typed' /\ Exact' /\ Placed'
    BY <2>1 DEF Typed, Exact, Placed, Steps, Open
  <2>3. Flowing' /\ Late'
    BY <2>1 DEF Flowing, Late, Between, Open
  <2>4. Counted'
    <3>1. Coming' = Coming /\ Unmet' = Unmet
      BY <2>1 DEF Coming, Unmet
    <3> QED BY <2>1, <3>1 DEF Counted, Open
  <2> QED BY <2>2, <2>3, <2>4
<1> QED BY <1>1, <1>2

LEMMA ChunkInv == ASSUME Inv, NEW n \in 1..FrameMax, Chunk(n) PROVE Inv'
<1> USE DEF Inv
<1>1. task = "reads" /\ after' = IF Open THEN after ELSE after + n
  BY DEF Chunk
<1>t. task # "none" /\ Numbers
  BY <1>1, TaskIs
<1>2. after' \in Nat /\ after' <= FrameMax /\ (Open => after' = 0)
  BY <1>1 DEF Late, Typed
<1>3. CASE n > left
  <2>1. Fails(left) /\ UNCHANGED <<asked, reader, got, task_vars, queue, requested, consumed, abandoned>>
    BY <1>3 DEF Chunk, task_vars
  <2> QED BY <1>1, <1>2, <2>1, FailsInv
<1>4. CASE ~(n > left)
  <2>1. /\ at' = at + n /\ left' = left - n /\ frame' = Bytes(at, at + n - 1) /\ task' = "sends"
        /\ UNCHANGED <<asked, reader, got, to, chunk, queue, requested, consumed, failed, abandoned>>
        /\ Given' = Given /\ Begun' = Begun
    BY <1>4 DEF Chunk, Given, Begun
  <2>2. at \in Nat /\ left \in Int /\ left = to - at + 1 /\ to \in Int /\ to <= asked.last /\ n <= left /\ n >= 1
        /\ n \in Nat /\ n <= FrameMax /\ asked.last \in Int /\ Begun \in Nat /\ Begun <= at
        /\ asked.status # 416
    BY <1>1, <1>4, <1>t DEF Placed, Numbers
  <2>3. frame' \in Seq(Int) /\ frame' # Error
    <3> DEFINE b == Bytes(at, at + n - 1)
    <3>1. b \in Seq(Int) /\ (b = Error <=> n = 0)
      <4>1. at \in Int /\ n \in Nat
        BY <2>2
      <4> QED BY <4>1, BytesAre
    <3>2. n # 0
      BY <2>2
    <3> HIDE DEF b
    <3> QED BY <2>1, <3>1, <3>2 DEF b
  <2>4. Typed' /\ Exact'
    BY <1>2, <2>1, <2>2 DEF Typed, Exact, Steps
  <2>5. Placed'
    BY <1>1, <2>1, <2>2, <2>3 DEF Placed, Open
  <2>6. Flowing'
    <3> SUFFICES ASSUME Open PROVE Laid(Append(queue, Bytes(at, at + n - 1)), Given, at + n)
      BY <2>1 DEF Flowing, Between, Open
    <3> QED BY <1>1, <2>2, InHand
  <2>7. Counted'
    <3>1. Coming = left /\ Coming' = left'
      BY <1>1, <2>1, <2>3 DEF Coming
    <3>2. requested >= at' - Begun + Coming'
      BY <1>1, <2>1, <2>2, <3>1, <1>t DEF Counted, Numbers
    <3> QED BY <1>1, <2>1, <2>3, <3>2 DEF Counted, Open
  <2>8. Late'
    BY <1>1, <1>2, <2>1 DEF Late, Open
  <2> QED BY <2>4, <2>5, <2>6, <2>7, <2>8
<1> QED BY <1>3, <1>4

LEMMA SendInv == ASSUME Inv, Send PROVE Inv'
<1> USE DEF Inv
<1>1. /\ task = "sends" /\ Open /\ Len(queue) < Queue /\ queue' = Append(queue, frame)
      /\ task' = (CASE frame = Error -> "done" [] frame # Error /\ left = 0 -> "seals" [] OTHER -> "reads")
      /\ UNCHANGED <<asked, reader, got, at, to, chunk, left, requested, consumed, failed, abandoned, after>>
      /\ Given' = Given /\ Begun' = Begun
  BY DEF Send, task_vars, counts, Given, Begun
<1>t. task # "none" /\ Numbers
  BY <1>1, TaskIs
<1>2. /\ task' = IF frame = Error THEN "done" ELSE IF left = 0 THEN "seals" ELSE "reads"
  BY <1>1
<1>3. /\ frame \in Seq(Int) /\ left \in Nat /\ (frame # Error => left = to - at + 1)
      /\ at \in Nat /\ to \in Int /\ queue \in Seq(Seq(Int))
  BY <1>1, <1>t DEF Placed, Numbers
<1>4. queue' \in Seq(Seq(Int)) /\ Len(queue') = Len(queue) + 1 /\ queue'[Len(queue')] = frame /\ queue' # <<>>
  BY <1>1, <1>3, LastOfAppend
<1>5. Typed' /\ Exact'
  BY <1>1, <1>2, <1>4 DEF Typed, Exact, Steps
<1>6. Placed'
  <2>1. reader' = "upstream" /\ reader = "upstream" /\ Given <= asked.last + 1
    BY <1>1 DEF Open, Placed
  <2>2. Begun <= at /\ at <= asked.last + 1 /\ to <= asked.last /\ asked.status # 416
    BY <1>1 DEF Placed
  <2>3. task' \in {"reads", "seals"} => left' = to' - at' + 1 /\ left' \in Nat /\ (task' = "reads" => left' >= 1)
                                      /\ (task' = "seals" => left' = 0 /\ at' = to' + 1)
    BY <1>1, <1>2, <1>3
  <2>4. task' = "done" => queue' # <<>> /\ queue'[Len(queue')] = Error
    BY <1>2, <1>4
  <2>5. task' \in {"reads", "seals", "done"}
    BY <1>2
  <2> QED BY <1>1, <2>1, <2>2, <2>3, <2>4, <2>5 DEF Placed, Open
<1>7. Flowing'
  BY <1>1, <1>2 DEF Flowing, Between, Open
<1>8. Counted'
  <2>1. Coming' = Coming
    BY <1>1, <1>2, <1>3 DEF Coming
  <2> QED BY <1>1, <1>2, <2>1 DEF Counted, Open
<1>9. Late'
  BY <1>1 DEF Late, Open, Typed
<1> QED BY <1>5, <1>6, <1>7, <1>8, <1>9

LEMMA DrainInv == ASSUME Inv, Drain PROVE Inv'
<1> USE DEF Inv
<1>1. /\ task = "sends" /\ ~Open /\ task' = "done"
      /\ IF frame = Error THEN UNCHANGED abandoned ELSE Account
      /\ after' = IF frame # Error /\ left <= DrainMax THEN after + left ELSE after
      /\ UNCHANGED <<asked, reader, got, at, to, chunk, left, queue, requested, consumed, failed>>
      /\ Given' = Given /\ Begun' = Begun
  BY DEF Drain, task_vars, Given, Begun
<1>t. task # "none" /\ Numbers
  BY <1>1, TaskIs
<1>2. left \in Nat /\ after \in Nat /\ after <= FrameMax
  BY <1>1, <1>t DEF Placed, Late, Numbers
<1>3. /\ abandoned' \in Nat /\ consumed + abandoned' <= requested
      /\ requested - consumed - abandoned' <= failed
  <2>1. CASE frame = Error
    <3>1. Unmet = failed
      BY <1>1, <1>t DEF Unmet, Numbers
    <3> QED BY <1>1, <2>1, <3>1 DEF Counted, Typed
  <2>2. CASE frame # Error
    <3>1. Account /\ consumed + abandoned <= requested
      BY <1>1, <2>2 DEF Counted
    <3> QED BY <3>1, AccountIs
  <2> QED BY <2>1, <2>2
<1>4. after' \in Nat /\ after' <= FrameMax + DrainMax
  BY <1>1, <1>2
<1>5. Typed' /\ Exact' /\ Placed'
  BY <1>1, <1>3, <1>4 DEF Typed, Exact, Placed, Steps, Open
<1>6. Flowing'
  BY <1>1 DEF Flowing, Open
<1>7. Late'
  BY <1>1, <1>4 DEF Late, Open
<1>8. Counted'
  <2>1. Coming' = 0 /\ Unmet' = failed /\ Coming \in Nat
    BY <1>1, <1>2, <1>t DEF Coming, Unmet, Numbers
  <2>2. requested >= at - Begun
    BY <1>1, <2>1, <1>t DEF Counted, Numbers
  <2>3. consumed = Given - Begun
    BY <1>t DEF Counted
  <2>4. at' - Begun' + Coming' = at - Begun
    BY <1>1, <2>1, <1>t DEF Numbers
  <2> QED BY <1>1, <1>3, <2>1, <2>2, <2>3, <2>4 DEF Counted, Open
<1> QED BY <1>5, <1>6, <1>7, <1>8

LEMMA SealInv == ASSUME Inv, NEW ok \in BOOLEAN, Seal(ok) PROVE Inv'
<1>1. task = "seals" /\ left = 0
  BY DEF Seal, Inv, Placed
<1>t. task # "none" /\ Numbers
  BY <1>1, TaskIs
<1>2. CASE ~ok
  <2>1. Fails(left) /\ after' = after /\ UNCHANGED <<asked, reader, got, task_vars, queue, requested, consumed, abandoned>>
    BY <1>1, <1>2 DEF Seal, task_vars
  <2> QED BY <1>1, <2>1, NoneLate, FailsInv
<1>3. CASE ok
  <2> USE DEF Inv
  <2> DEFINE c == Smaller(chunk + 1, Len(Spans))
             e == Smaller(asked.last, at + Spans[c] - 1)
  <2>1. /\ task' = IF at <= asked.last THEN "asks" ELSE "done"
        /\ to' = e /\ chunk' = c
        /\ UNCHANGED <<asked, reader, got, at, left, frame, queue, requested, consumed, failed, abandoned, after>>
        /\ Given' = Given /\ Begun' = Begun
    BY <1>3 DEF Seal, Given, Begun
  <2>2. c \in 1..Len(Spans)
    BY SpansAre DEF Typed, Smaller
  <2>3. at \in Nat /\ asked.last \in Int /\ at <= asked.last + 1
    BY <1>1, <1>t DEF Placed, Numbers
  <2> HIDE DEF c
  <2>4. e \in Int /\ e <= asked.last /\ (at <= asked.last => at <= e)
    BY <2>2, <2>3, SpansAre DEF Smaller
  <2> HIDE DEF e
  <2>5. Typed' /\ Exact'
    BY <2>1, <2>2, <2>4 DEF Typed, Exact, Steps
  <2>6. Placed'
    BY <1>1, <2>1, <2>3, <2>4 DEF Placed, Open
  <2>7. Flowing' /\ Late'
    BY <1>1, <2>1 DEF Flowing, Late, Between, Open
  <2>8. Counted'
    <3>1. Coming = 0 /\ Coming' = 0 /\ Unmet' = Unmet
      BY <1>1, <2>1 DEF Coming, Unmet
    <3> QED BY <1>1, <2>1, <3>1 DEF Counted, Open
  <2> QED BY <2>5, <2>6, <2>7, <2>8
<1> QED BY <1>2, <1>3

-----------------------------------------------------------------------------
(* Every step *)

LEMMA SameInv ==
  ASSUME Inv, UNCHANGED <<asked, reader, got, task, task_vars, frame, queue, counts, after>>
  PROVE  Inv'
<1>1. /\ UNCHANGED <<asked, reader, got, task, at, to, chunk, left, frame, queue, requested, consumed, failed,
                    abandoned, after>>
  BY DEF task_vars, counts
<1> QED BY <1>1 DEF Inv, Typed, Exact, Placed, Flowing, Counted, Late, Open, Between, Given, Begun, Coming, Unmet

LEMMA NextInv == Inv /\ [Next]_vars => Inv'
<1> SUFFICES ASSUME Inv, [Next]_vars PROVE Inv'
  OBVIOUS
<1>1. CASE Serve BY <1>1, ServeInv
<1>2. CASE Refuse BY <1>2, RefuseInv
<1>3. CASE ReadHead BY <1>3, ReadHeadInv
<1>4. CASE Recv BY <1>4, RecvInv
<1>5. CASE Close BY <1>5, CloseInv
<1>6. CASE Leave BY <1>6, LeaveInv
<1>7. CASE Ask BY <1>7, AskInv
<1>8. CASE Refused BY <1>8, RefusedInv
<1>9. CASE Short BY <1>9, ShortInv
<1>10. CASE Send BY <1>10, SendInv
<1>11. CASE Drain BY <1>11, DrainInv
<1>12. ASSUME NEW fits \in BOOLEAN, Answered(fits) PROVE Inv'
  BY <1>12, AnsweredInv
<1>13. ASSUME NEW n \in 1..FrameMax, Chunk(n) PROVE Inv'
  BY <1>13, ChunkInv
<1>14. ASSUME NEW ok \in BOOLEAN, Seal(ok) PROVE Inv'
  BY <1>14, SealInv
<1>15. CASE Expire BY <1>15, SameInv DEF Expire
<1>16. CASE SetUpstream BY <1>16, SameInv DEF SetUpstream
<1>17. CASE UNCHANGED vars BY <1>17, SameInv DEF vars, task_vars, counts
<1> QED BY <1>1, <1>2, <1>3, <1>4, <1>5, <1>6, <1>7, <1>8, <1>9, <1>10, <1>11, <1>12, <1>13, <1>14,
           <1>15, <1>16, <1>17 DEF Next, Works

\* What links the reader, the queue, the task and the counts, at all times.
THEOREM InvAlways == Spec => []Inv
BY InitInv, NextInv, PTL DEF Spec

-----------------------------------------------------------------------------
(* What is served, counted and read ahead *)

\* ffmpeg is given just the bytes of its range, in order, whatever the host answers and
\* however the range falls into requests; a body that ends without an error is whole.
THEOREM ServedWhole == Spec => []ServedExactly
<1>1. Inv => ServedExactly
  <2> SUFFICES ASSUME Inv PROVE ServedExactly
    OBVIOUS
  <2>1. asked.first \in Nat /\ asked.last \in Int /\ got \in Seq(Int)
    BY DEF Inv, Typed
  <2>2. Len(got) \in Nat /\ DOMAIN got = 1..Len(got)
    BY <2>1
  <2>3. Given <= asked.last + 1 /\ (reader = "ended" => Given = asked.last + 1) /\ Given = asked.first + Len(got)
    BY DEF Inv, Placed, Given
  <2>4. \A k \in DOMAIN got : got[k] = asked.first + k - 1
    BY <2>2 DEF Inv, Exact
  <2>5. Len(got) <= asked.last - asked.first + 1
        /\ (reader = "ended" => Len(got) = asked.last - asked.first + 1)
    BY <2>1, <2>2, <2>3
  <2> QED BY <2>4, <2>5 DEF ServedExactly
<1> QED BY <1>1, InvAlways, PTL

\* What was asked of the host is counted at most once as read or abandoned; once reader
\* and task are done, the rest of it had failed.
THEOREM AllCounted == Spec => []CountedOnce
<1>1. Inv => CountedOnce
  <2> SUFFICES ASSUME Inv PROVE CountedOnce
    OBVIOUS
  <2>1. consumed + abandoned <= requested
    BY DEF Inv, Counted
  <2>2. ASSUME ~Open, task = "done" PROVE requested - consumed - abandoned <= failed
    <3>1. Unmet = failed
      BY <2>2, TaskIs DEF Numbers, Unmet
    <3> QED BY <2>2, <3>1 DEF Inv, Counted
  <2> QED BY <2>1, <2>2 DEF CountedOnce
<1> QED BY <1>1, InvAlways, PTL

\* ffmpeg paused holds the host back at the queue and a frame in hand; once it went
\* elsewhere no more than a frame and a short remainder comes.
THEOREM LittleAhead == Spec => []ReadsAhead
<1>1. Inv => ReadsAhead
  <2> SUFFICES ASSUME Inv PROVE ReadsAhead
    OBVIOUS
  <2>1. ASSUME Open PROVE at - asked.first - Len(got) <= (Queue + 1) * FrameMax
    <3>1. Between \in Seq(Seq(Int)) /\ Len(Between) <= Queue + 1 /\ Len(Between) \in Nat
      BY BetweenIs DEF Inv
    <3>2. Given \in Int /\ at \in Int /\ at - Given <= Len(Between) * FrameMax
      BY <2>1, <3>1, ReadIs, LaidBound DEF Inv, Flowing
    <3> DEFINE m == Len(Between)
               over == (Queue + 1) - m
    <3>3. over \in Nat /\ FrameMax \in Nat /\ m \in Nat /\ Queue \in Nat
      BY <3>1
    <3>4. over * FrameMax \in Nat
      BY <3>3
    <3>5. (Queue + 1) * FrameMax = m * FrameMax + over * FrameMax
      BY <3>3
    <3>6. asked.first \in Nat /\ Len(got) \in Nat /\ m * FrameMax \in Int
      BY <3>3 DEF Inv, Typed
    <3> HIDE DEF m, over
    <3> QED BY <3>2, <3>4, <3>5, <3>6 DEF m, Given
  <2> QED BY <2>1 DEF ReadsAhead, Inv, Late
<1> QED BY <1>1, InvAlways, PTL
================================================================================
