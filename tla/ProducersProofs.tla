--------------------------- MODULE ProducersProofs ---------------------------
(***************************************************************************)
(* Proofs about Producers, for any sessions, permits and waits.             *)
(***************************************************************************)
EXTENDS Producers, FiniteSetTheorems, TLAPS

USE TranscodedAssumption, MaxActiveAssumption, MaxTranscodesAssumption, IdleAssumption,
    NoneAssumption
-----------------------------------------------------------------------------
(* Queues *)

\* Who leaves a queue leaves the others in it, in one place each.
LEMMA WithoutOne ==
  ASSUME NEW q \in Seq(Session), NEW s \in Session
  PROVE  /\ Without(q, s) \in Seq(Session)
         /\ NoDuplicates(q) => /\ NoDuplicates(Without(q, s))
                               /\ Members(Without(q, s)) = Members(q) \ {s}
  <1>1. CASE ~\E k \in 1..Len(q) : q[k] = s
    BY <1>1 DEF Without, Members
  <1>2. CASE \E k \in 1..Len(q) : q[k] = s
    <2> DEFINE k == CHOOSE j \in 1..Len(q) : q[j] = s
               w == [j \in 1..(Len(q) - 1) |-> IF j < k THEN q[j] ELSE q[j + 1]]
    <2>1. k \in 1..Len(q) /\ q[k] = s
      BY <1>2
    <2>2. Without(q, s) = w
      BY <1>2 DEF Without
    <2> HIDE DEF k
    <2>3. Len(q) - 1 \in Nat /\ \A j \in 1..(Len(q) - 1) : w[j] \in Session
      BY <2>1
    <2>4. w \in Seq(Session) /\ Len(w) = Len(q) - 1
      BY <2>3
    <2>5. ASSUME NoDuplicates(q) PROVE NoDuplicates(w)
      BY <2>1, <2>4, <2>5 DEF NoDuplicates
    <2>6. ASSUME NoDuplicates(q) PROVE Members(w) = Members(q) \ {s}
      <3>1. ASSUME NEW j \in 1..Len(w) PROVE w[j] \in Members(q) /\ w[j] # s
        BY <2>1, <2>4, <2>6 DEF NoDuplicates, Members
      <3>2. ASSUME NEW x \in Members(q), x # s PROVE x \in Members(w)
        <4>1. PICK j \in 1..Len(q) : q[j] = x
          BY DEF Members
        <4>2. CASE j < k
          BY <2>1, <2>4, <4>1, <4>2 DEF Members
        <4>3. CASE j > k
          <5>1. j - 1 \in 1..Len(w) /\ w[j - 1] = x
            BY <2>1, <2>4, <4>1, <4>3
          <5>2. QED
            BY <5>1 DEF Members
        <4>4. QED
          BY <2>1, <3>2, <4>1, <4>2, <4>3
      <3>3. QED
        BY <3>1, <3>2 DEF Members
    <2>7. QED
      BY <2>2, <2>4, <2>5, <2>6
  <1>3. QED
    BY <1>1, <1>2

\* Who joins a queue that it is not in is in it, at one place.
LEMMA OneMore ==
  ASSUME NEW q \in Seq(Session), NEW s \in Session
  PROVE  /\ Append(q, s) \in Seq(Session)
         /\ NoDuplicates(q) /\ s \notin Members(q) =>
              /\ NoDuplicates(Append(q, s))
              /\ Members(Append(q, s)) = Members(q) \cup {s}
  <1> DEFINE a == Append(q, s)
  <1>1. /\ a \in Seq(Session) /\ Len(a) = Len(q) + 1
        /\ \A j \in 1..Len(q) : a[j] = q[j]
        /\ a[Len(q) + 1] = s
    OBVIOUS
  <1>2. Len(q) \in Nat
    OBVIOUS
  <1> HIDE DEF a
  <1>3. ASSUME NoDuplicates(q), s \notin Members(q) PROVE NoDuplicates(a)
    BY <1>1, <1>2, <1>3 DEF NoDuplicates, Members
  <1>4. Members(a) = Members(q) \cup {s}
    <2>1. ASSUME NEW x \in Members(a) PROVE x \in Members(q) \cup {s}
      BY <1>1, <1>2, <2>1 DEF Members
    <2>2. ASSUME NEW x \in Members(q) PROVE x \in Members(a)
      BY <1>1, <1>2, <2>2 DEF Members
    <2>3. s \in Members(a)
      BY <1>1, <1>2 DEF Members
    <2>4. QED
      BY <2>1, <2>2, <2>3
  <1>5. QED
    BY <1>1, <1>3, <1>4 DEF a
-----------------------------------------------------------------------------
(* Type correctness *)

LEMMA QueueType ==
  ASSUME TypeOK, NEW s \in Session, Queue(s)
  PROVE  /\ pc' \in [Session -> Steps]
         /\ slotQ' \in Seq(Session) /\ gpuQ' \in Seq(Session)
  <1>1. Append(slotQ, s) \in Seq(Session) /\ Append(gpuQ, s) \in Seq(Session)
    BY OneMore DEF TypeOK
  <1>2. QED
    BY <1>1 DEF Queue, TypeOK, Steps

LEMMA ContendType ==
  ASSUME TypeOK, NEW s \in Session, NEW jobs \in [Session -> Jobs], NEW free \in Nat,
         Contend(s, jobs, free)
  PROVE  /\ job' \in [Session -> Jobs] /\ pc' \in [Session -> Steps]
         /\ prey' \in [Session -> Session \cup {None}]
         /\ slotQ' \in Seq(Session) /\ gpuQ' \in Seq(Session)
  <1>1. CASE ~Left(slotQ, free) /\ Victims(s, jobs) # {}
    <2>1. PICK v \in Victims(s, jobs) :
            /\ job' = [jobs EXCEPT ![v] = "none"]
            /\ prey' = [prey EXCEPT ![s] = v]
            /\ pc' = [pc EXCEPT ![s] = "reaping"]
            /\ UNCHANGED <<slotQ, gpuQ>>
      BY <1>1 DEF Contend
    <2>2. v \in Session
      BY DEF Victims
    <2>3. QED
      BY <2>1, <2>2 DEF TypeOK, Jobs, Steps
  <1>2. CASE ~(~Left(slotQ, free) /\ Victims(s, jobs) # {})
    <2>1. job' = jobs /\ Queue(s) /\ UNCHANGED prey
      BY <1>2 DEF Contend
    <2>2. QED
      BY <2>1, QueueType DEF TypeOK
  <1>3. QED
    BY <1>1, <1>2

LEMMA PermitsType ==
  ASSUME TypeOK, NEW s \in Session, NEW ahead \in BOOLEAN, RefreshAndGate(s, ahead)
  PROVE  job' \in [Session -> Jobs] /\ slots' \in Nat /\ gpus' \in Nat
  <1>1. Len(slotQ) \in Nat /\ Len(gpuQ) \in Nat /\ slots \in Nat /\ gpus \in Nat
    BY DEF TypeOK
  <1>2. Gpus(s) \in {0, 1} /\ (Gpus(s) = 1 => s \in Transcoded)
    BY DEF Gpus
  <1>3. /\ \A j \in Jobs : [job EXCEPT ![s] = j] \in [Session -> Jobs]
        /\ job \in [Session -> Jobs]
    BY DEF TypeOK
  <1>4. {"none", "running", "gone", "paused"} = Jobs
    BY DEF Jobs
  <1>5. CASE job' = job /\ slots' = slots /\ gpus' = gpus
    BY <1>1, <1>3, <1>5
  <1>6. CASE job' = [job EXCEPT ![s] = "none"] /\ GiveBack(s)
    BY <1>1, <1>2, <1>3, <1>4, <1>6 DEF GiveBack
  <1>7. CASE job' = [job EXCEPT ![s] = "paused"] /\ GiveBack(s)
    BY <1>1, <1>2, <1>3, <1>4, <1>7 DEF GiveBack
  <1>8. CASE /\ TryAcquire(s) /\ job' = [job EXCEPT ![s] = "running"]
             /\ slots' = slots - 1 /\ gpus' = gpus - Gpus(s)
    <2>1. slots > 0 /\ (s \in Transcoded => gpus > 0)
      BY <1>1, <1>8 DEF TryAcquire, Left
    <2>2. QED
      BY <1>1, <1>2, <1>3, <1>4, <1>8, <2>1
  <1>9. QED
    BY <1>5, <1>6, <1>7, <1>8 DEF RefreshAndGate

LEMMA GiveBackType ==
  ASSUME TypeOK, NEW s \in Session \cup {None}, GiveBack(s)
  PROVE  slots' \in Nat /\ gpus' \in Nat
  BY DEF GiveBack, Gpus, TypeOK

LEMMA StepType ==
  ASSUME TypeOK, NEW s \in Session, Step(s)
  PROVE  TypeOK'
  <1>0. MaxAge \in Nat
    BY DEF MaxAge
  <1>1. CASE Exit(s)
    BY <1>1 DEF Exit, Jobs, TypeOK
  <1>2. CASE Produce(s)
    BY <1>2 DEF Produce, TypeOK
  <1>3. CASE Park(s)
    BY <1>3 DEF Park, Jobs, TypeOK
  <1>4. CASE Ask(s)
    <2>1. /\ heads' \in [Session -> BOOLEAN] /\ open' \in [Session -> BOOLEAN]
          /\ age' \in [Session -> 0..MaxAge]
      BY <1>0, <1>4 DEF Ask, TypeOK
    <2>2. QED
      BY <1>4, <2>1 DEF Ask, TypeOK
  <1>5. CASE StartProducer(s)
    <2>1. CASE job[s] \in {"running", "paused"}
      BY <1>5, <2>1 DEF StartProducer, TypeOK, Jobs, Steps
    <2>2. CASE job[s] = "gone"
      <3> DEFINE jobs == [job EXCEPT ![s] = "none"]
      <3>1. GiveBack(s) /\ Contend(s, jobs, slots + 1) /\ UNCHANGED <<heads, age, open, life>>
        BY <1>5, <2>2 DEF StartProducer
      <3>2. jobs \in [Session -> Jobs] /\ slots + 1 \in Nat
        BY DEF TypeOK, Jobs
      <3> HIDE DEF jobs
      <3>3. /\ job' \in [Session -> Jobs] /\ pc' \in [Session -> Steps]
            /\ prey' \in [Session -> Session \cup {None}]
            /\ slotQ' \in Seq(Session) /\ gpuQ' \in Seq(Session)
        BY <3>1, <3>2, ContendType
      <3>4. QED
        BY <3>1, <3>3, GiveBackType DEF TypeOK
    <2>3. CASE job[s] = "none"
      <3>1. Contend(s, job, slots) /\ UNCHANGED <<heads, age, open, life, slots, gpus>>
        BY <1>5, <2>3 DEF StartProducer
      <3>2. QED
        BY <3>1, ContendType DEF TypeOK
    <2>4. QED
      BY <2>1, <2>2, <2>3 DEF TypeOK, Jobs
  <1>6. CASE OldStopped(s)
    <2>1. PICK free \in {slots, slots + 1} : Contend(s, job, free)
      BY <1>6 DEF OldStopped
    <2>2. free \in Nat
      BY DEF TypeOK
    <2>3. slots' \in Nat /\ gpus' \in Nat
      BY <1>6, GiveBackType DEF OldStopped, TypeOK
    <2>4. job \in [Session -> Jobs]
      BY DEF TypeOK
    <2>5. /\ job' \in [Session -> Jobs] /\ pc' \in [Session -> Steps]
          /\ prey' \in [Session -> Session \cup {None}]
          /\ slotQ' \in Seq(Session) /\ gpuQ' \in Seq(Session)
      BY <2>1, <2>2, <2>4, ContendType
    <2>6. QED
      BY <1>6, <2>3, <2>5 DEF OldStopped, TypeOK
  <1>7. CASE Reaped(s)
    <2>1. prey[s] \in Session \cup {None}
      BY DEF TypeOK
    <2>2. slots' \in Nat /\ gpus' \in Nat
      BY <1>7, <2>1, GiveBackType DEF Reaped
    <2>3. QED
      BY <1>7, <2>2, QueueType DEF Reaped, TypeOK
  <1>8. CASE GotGpu(s)
    <2>1. slotQ' \in Seq(Session) /\ gpuQ' \in Seq(Session)
      BY <1>8, WithoutOne, OneMore DEF GotGpu, TypeOK
    <2>2. gpus > 0
      BY <1>8 DEF GotGpu, Ready, TypeOK
    <2>3. gpus' \in Nat
      BY <1>8, <2>2 DEF GotGpu, TypeOK
    <2>4. QED
      BY <1>8, <2>1, <2>3 DEF GotGpu, TypeOK, Steps
  <1>9. CASE Drop(s)
    <2>1. slots' \in Nat /\ gpus' \in Nat
      BY <1>9 DEF Drop, Freed, Gpus, TypeOK
    <2>2. slotQ' \in Seq(Session) /\ gpuQ' \in Seq(Session)
      BY <1>9, WithoutOne DEF Drop, TypeOK
    <2>3. QED
      BY <1>9, <2>1, <2>2 DEF Drop, Steps, TypeOK
  <1>10. CASE End(s)
    BY <1>10 DEF End, Jobs, TypeOK
  <1>11. CASE EndStopped(s)
    BY <1>11, GiveBackType DEF EndStopped, TypeOK
  <1>12. ASSUME NEW ahead \in BOOLEAN, Supervise(s, ahead) PROVE TypeOK'
    BY <1>12, PermitsType DEF Supervise, TypeOK
  <1>13. ASSUME NEW ahead \in BOOLEAN, NEW done \in BOOLEAN, Poll(s, ahead, done) PROVE TypeOK'
    <2>1. (~done \/ pc[s] # "idle") \in BOOLEAN
      OBVIOUS
    <2>2. age' \in [Session -> 0..MaxAge]
      BY <1>0, <1>13 DEF Poll, TypeOK
    <2>3. open' \in [Session -> BOOLEAN]
      BY <1>13, <2>1, Zenon DEF Poll, TypeOK
    <2>4. QED
      BY <1>13, <2>2, <2>3, PermitsType DEF Poll, TypeOK
  <1>14. ASSUME NEW spawned \in BOOLEAN, GotSlot(s, spawned) PROVE TypeOK'
    <2>1. slotQ' \in Seq(Session)
      BY <1>14, WithoutOne DEF GotSlot, TypeOK
    <2>2. slots > 0
      BY <1>14 DEF GotSlot, Ready, TypeOK
    <2>3. slots' \in Nat /\ gpus' \in Nat
      BY <1>14, <2>2 DEF GotSlot, Gpus, TypeOK
    <2>4. job' \in [Session -> Jobs] /\ heads' \in [Session -> BOOLEAN]
      BY <1>14 DEF GotSlot, Jobs, TypeOK
    <2>5. QED
      BY <1>14, <2>1, <2>3, <2>4 DEF GotSlot, Steps, TypeOK
  <1>15. QED
    BY <1>1, <1>2, <1>3, <1>4, <1>5, <1>6, <1>7, <1>8, <1>9, <1>10, <1>11, <1>12, <1>13,
       <1>14 DEF Step

LEMMA TickType == ASSUME TypeOK, Tick PROVE TypeOK'
  <1>1. MaxAge \in Nat
    BY DEF MaxAge
  <1>2. \A s \in Session : LastSeen(s) \in 0..MaxAge
    BY <1>1 DEF LastSeen, TypeOK
  <1>3. QED
    BY <1>2 DEF Tick, TypeOK

LEMMA NextType == TypeOK /\ [Next]_vars => TypeOK'
  <1> SUFFICES ASSUME TypeOK, [Next]_vars PROVE TypeOK'
    OBVIOUS
  <1>1. CASE UNCHANGED vars
    BY <1>1 DEF TypeOK, vars
  <1>2. QED
    BY <1>1, StepType, TickType DEF Next

LEMMA InitType == Init => TypeOK
  <1>1. 0 \in 0..MaxAge
    BY DEF MaxAge
  <1>2. QED
    BY <1>1 DEF Init, TypeOK, Jobs, Steps

\* Every state is well typed: no permit is taken that is not there, and who queues
\* is a session.
THEOREM TypeCorrect == Spec => []TypeOK
  BY InitType, NextType, PTL DEF Spec
-----------------------------------------------------------------------------
(* Who waits, and who has ended *)

\* A step that leaves a queue and who waits in it as they were.
LEMMA SameQueues ==
  ASSUME QueuesExact, UNCHANGED <<pc, slotQ, gpuQ>>
  PROVE  QueuesExact'
  BY DEF QueuesExact, Members, NoDuplicates

\* Whoever waits nowhere joins at most one queue.
LEMMA QueueExact ==
  ASSUME TypeOK, QueuesExact, NEW s \in Session, pc[s] \notin {"slot", "gpu"}, Queue(s)
  PROVE  QueuesExact'
  <1>1. s \notin Members(slotQ) /\ s \notin Members(gpuQ)
    BY DEF QueuesExact
  <1>2. slotQ \in Seq(Session) /\ gpuQ \in Seq(Session)
    BY DEF TypeOK
  <1>3. CASE s \notin Transcoded
    <2>1. slotQ' = Append(slotQ, s) /\ pc' = [pc EXCEPT ![s] = "slot"] /\ gpuQ' = gpuQ
      BY <1>3 DEF Queue
    <2>2. NoDuplicates(slotQ)' /\ Members(slotQ)' = Members(slotQ) \cup {s}
      BY <1>1, <1>2, <2>1, OneMore DEF QueuesExact
    <2>3. NoDuplicates(gpuQ)' /\ Members(gpuQ)' = Members(gpuQ)
      BY <2>1 DEF QueuesExact
    <2>4. QED
      BY <2>1, <2>2, <2>3 DEF QueuesExact, TypeOK
  <1>4. CASE s \in Transcoded /\ CanTranscode
    <2>1. gpuQ' = Append(gpuQ, s) /\ pc' = [pc EXCEPT ![s] = "gpu"] /\ slotQ' = slotQ
      BY <1>4 DEF Queue
    <2>2. NoDuplicates(gpuQ)' /\ Members(gpuQ)' = Members(gpuQ) \cup {s}
      BY <1>1, <1>2, <2>1, OneMore DEF QueuesExact
    <2>3. NoDuplicates(slotQ)' /\ Members(slotQ)' = Members(slotQ)
      BY <2>1 DEF QueuesExact
    <2>4. QED
      BY <2>1, <2>2, <2>3 DEF QueuesExact, TypeOK
  <1>5. CASE s \in Transcoded /\ ~CanTranscode
    <2>1. pc' = [pc EXCEPT ![s] = "idle"] /\ UNCHANGED <<slotQ, gpuQ>>
      BY <1>5 DEF Queue
    <2>2. \A q \in {"slot", "gpu"} :
            {x \in Session : pc'[x] = q} = {x \in Session : pc[x] = q}
      BY <2>1 DEF TypeOK
    <2>3. QED
      BY <2>1, <2>2 DEF QueuesExact, Members, NoDuplicates
  <1>6. QED
    BY <1>3, <1>4, <1>5

LEMMA ContendExact ==
  ASSUME TypeOK, QueuesExact, NEW s \in Session, pc[s] \notin {"slot", "gpu"},
         NEW jobs, NEW free, Contend(s, jobs, free)
  PROVE  QueuesExact'
  <1>1. CASE ~Left(slotQ, free) /\ Victims(s, jobs) # {}
    <2>1. pc' = [pc EXCEPT ![s] = "reaping"] /\ UNCHANGED <<slotQ, gpuQ>>
      BY <1>1 DEF Contend
    <2>2. \A q \in {"slot", "gpu"} :
            {x \in Session : pc'[x] = q} = {x \in Session : pc[x] = q}
      BY <2>1 DEF TypeOK
    <2>3. QED
      BY <2>1, <2>2 DEF QueuesExact, Members, NoDuplicates
  <1>2. CASE ~(~Left(slotQ, free) /\ Victims(s, jobs) # {})
    BY <1>2, QueueExact DEF Contend
  <1>3. QED
    BY <1>1, <1>2

LEMMA StepExact ==
  ASSUME TypeOK, QueuesExact, NEW s \in Session, Step(s)
  PROVE  QueuesExact'
  <1>1. CASE StartProducer(s)
    <2>1. CASE job[s] \in {"running", "paused"}
      <3>1. /\ pc[s] = "idle" /\ UNCHANGED <<slotQ, gpuQ>>
            /\ \E p \in {"killing", "dropping"} : pc' = [pc EXCEPT ![s] = p]
        BY <1>1, <2>1 DEF StartProducer
      <3>2. \A q \in {"slot", "gpu"} :
              {x \in Session : pc'[x] = q} = {x \in Session : pc[x] = q}
        BY <3>1 DEF TypeOK
      <3>3. QED
        BY <3>1, <3>2 DEF QueuesExact, Members, NoDuplicates
    <2>2. CASE job[s] \in {"gone", "none"}
      <3>1. pc[s] = "idle" /\ \E jobs, free : Contend(s, jobs, free)
        BY <1>1, <2>2 DEF StartProducer
      <3>2. QED
        BY <3>1, ContendExact
    <2>3. QED
      BY <2>1, <2>2 DEF TypeOK, Jobs
  <1>2. CASE OldStopped(s)
    <2>1. pc[s] \in {"killing", "dropping"} /\ \E free : Contend(s, job, free)
      BY <1>2 DEF OldStopped
    <2>2. QED
      BY <2>1, ContendExact
  <1>3. CASE Reaped(s)
    BY <1>3, QueueExact DEF Reaped
  <1>4. CASE GotGpu(s)
    <2>1. /\ gpuQ' = Without(gpuQ, s) /\ slotQ' = Append(slotQ, s)
          /\ pc[s] = "gpu" /\ pc' = [pc EXCEPT ![s] = "slot"]
      BY <1>4 DEF GotGpu
    <2>2. s \notin Members(slotQ)
      BY <2>1 DEF QueuesExact
    <2>3. NoDuplicates(slotQ)' /\ Members(slotQ)' = Members(slotQ) \cup {s}
      BY <2>1, <2>2, OneMore DEF QueuesExact, TypeOK
    <2>4. NoDuplicates(gpuQ)' /\ Members(gpuQ)' = Members(gpuQ) \ {s}
      BY <2>1, WithoutOne DEF QueuesExact, TypeOK
    <2>5. QED
      BY <2>1, <2>3, <2>4 DEF QueuesExact, TypeOK
  <1>5. CASE Drop(s)
    <2>1. /\ gpuQ' = Without(gpuQ, s) /\ slotQ' = Without(slotQ, s)
          /\ pc' = [pc EXCEPT ![s] = "idle"]
      BY <1>5 DEF Drop
    <2>2. NoDuplicates(slotQ)' /\ Members(slotQ)' = Members(slotQ) \ {s}
      BY <2>1, WithoutOne DEF QueuesExact, TypeOK
    <2>3. NoDuplicates(gpuQ)' /\ Members(gpuQ)' = Members(gpuQ) \ {s}
      BY <2>1, WithoutOne DEF QueuesExact, TypeOK
    <2>4. QED
      BY <2>1, <2>2, <2>3 DEF QueuesExact, TypeOK
  <1>6. ASSUME NEW spawned \in BOOLEAN, GotSlot(s, spawned) PROVE QueuesExact'
    <2>1. /\ slotQ' = Without(slotQ, s) /\ pc[s] = "slot"
          /\ pc' = [pc EXCEPT ![s] = "idle"] /\ gpuQ' = gpuQ
      BY <1>6 DEF GotSlot
    <2>2. NoDuplicates(slotQ)' /\ Members(slotQ)' = Members(slotQ) \ {s}
      BY <2>1, WithoutOne DEF QueuesExact, TypeOK
    <2>3. NoDuplicates(gpuQ)' /\ Members(gpuQ)' = Members(gpuQ)
      BY <2>1 DEF QueuesExact
    <2>4. QED
      BY <2>1, <2>2, <2>3 DEF QueuesExact, TypeOK
  <1>7. CASE \/ Exit(s) \/ Produce(s) \/ Park(s) \/ Ask(s) \/ End(s) \/ EndStopped(s)
             \/ \E ahead \in BOOLEAN : Supervise(s, ahead)
             \/ \E ahead, done \in BOOLEAN : Poll(s, ahead, done)
    <2>1. UNCHANGED <<pc, slotQ, gpuQ>>
      BY <1>7 DEF Exit, Produce, Park, Ask, End, EndStopped, Supervise, Poll
    <2>2. QED
      BY <2>1, SameQueues
  <1>8. QED
    BY <1>1, <1>2, <1>3, <1>4, <1>5, <1>6, <1>7 DEF Step

LEMMA NextExact == TypeOK /\ QueuesExact /\ [Next]_vars => QueuesExact'
  BY StepExact, SameQueues DEF Next, Tick, vars

LEMMA InitExact == Init => QueuesExact
  BY DEF Init, QueuesExact, Members, NoDuplicates

\* Who waits for a permit is in the queue it waits in, once, and in no other.
THEOREM QueuesHold == Spec => []QueuesExact
  BY InitExact, NextExact, TypeCorrect, PTL DEF Spec

LEMMA StepEnded ==
  ASSUME TypeOK, EndedRunsNothing, NEW s \in Session, Step(s)
  PROVE  EndedRunsNothing'
  <1> SUFFICES ASSUME NEW x \in Session, life'[x] # "live" PROVE job'[x] = "none"
    BY DEF EndedRunsNothing
  <1>1. CASE StartProducer(s) \/ OldStopped(s)
    <2>1. life[x] # "live" /\ job[x] = "none"
      BY <1>1 DEF StartProducer, OldStopped, EndedRunsNothing
    <2>2. job' = job \/ \E y \in Session : job' = [job EXCEPT ![y] = "none"]
                    \/ \E z \in Session : job' = [[job EXCEPT ![z] = "none"] EXCEPT ![y] = "none"]
      BY <1>1, Zenon DEF StartProducer, OldStopped, Contend, Victims, TypeOK, Jobs
    <2>3. QED
      BY <2>1, <2>2 DEF TypeOK
  <1>2. CASE Reaped(s) \/ GotGpu(s) \/ Drop(s) \/ Ask(s) \/ Produce(s) \/ EndStopped(s)
    BY <1>2 DEF Reaped, GotGpu, Drop, Ask, Produce, EndStopped, EndedRunsNothing, TypeOK
  <1>3. CASE Exit(s) \/ Park(s)
    BY <1>3 DEF Exit, Park, EndedRunsNothing, TypeOK
  <1>4. CASE End(s)
    BY <1>4 DEF End, EndedRunsNothing, TypeOK
  <1>5. CASE \/ \E ahead \in BOOLEAN : Supervise(s, ahead)
             \/ \E ahead, done \in BOOLEAN : Poll(s, ahead, done)
    <2>1. /\ life' = life /\ life[s] = "live"
          /\ \E ahead \in BOOLEAN : RefreshAndGate(s, ahead)
      BY <1>5 DEF Supervise, Poll
    <2>2. x # s /\ job[x] = "none"
      BY <2>1 DEF EndedRunsNothing
    <2>3. job'[x] = job[x]
      BY <2>1, <2>2 DEF RefreshAndGate, TypeOK
    <2>4. QED
      BY <2>2, <2>3
  <1>6. ASSUME NEW spawned \in BOOLEAN, GotSlot(s, spawned) PROVE job'[x] = "none"
    <2>1. life' = life /\ job[x] = "none"
      BY <1>6 DEF GotSlot, EndedRunsNothing
    <2>2. CASE x = s
      BY <1>6, <2>1, <2>2 DEF GotSlot, Starts, Needed
    <2>3. CASE x # s
      BY <1>6, <2>1, <2>3 DEF GotSlot, TypeOK
    <2>4. QED
      BY <2>2, <2>3
  <1>7. QED
    BY <1>1, <1>2, <1>3, <1>4, <1>5, <1>6 DEF Step

LEMMA NextEnded == TypeOK /\ EndedRunsNothing /\ [Next]_vars => EndedRunsNothing'
  <1> SUFFICES ASSUME TypeOK, EndedRunsNothing, [Next]_vars PROVE EndedRunsNothing'
    OBVIOUS
  <1>1. CASE Tick \/ UNCHANGED vars
    BY <1>1 DEF Tick, vars, EndedRunsNothing
  <1>2. QED
    BY <1>1, StepEnded DEF Next

LEMMA InitEnded == Init => EndedRunsNothing
  BY DEF Init, EndedRunsNothing

\* An ended session runs nothing, whatever permit came to it after it ended.
THEOREM EndedHolds == Spec => []EndedRunsNothing
  BY InitEnded, NextEnded, TypeCorrect, PTL DEF Spec
-----------------------------------------------------------------------------
(* Permits *)

(***************************************************************************)
(* PermitsConserved is not inductive alone: a step that gives a permit to a  *)
(* session counts it only because the session held none (Orderly: who is in  *)
(* start_producer has no job, only a transcode waits for the GPU, and who    *)
(* reaps reaps a session), and counting needs the sets to be finite.         *)
(***************************************************************************)
Orderly ==
  \A s \in Session :
    /\ pc[s] # "idle" => job[s] = "none"
    /\ pc[s] = "gpu" => s \in Transcoded
    /\ pc[s] = "reaping" => prey[s] \in Session

LEMMA ContendOrderly ==
  ASSUME TypeOK, Orderly, NEW s \in Session, NEW jobs \in [Session -> Jobs],
         jobs[s] = "none", \A x \in Session : job[x] = "none" => jobs[x] = "none",
         NEW free, Contend(s, jobs, free)
  PROVE  Orderly'
  <1>1. CASE ~Left(slotQ, free) /\ Victims(s, jobs) # {}
    <2>1. PICK v \in Victims(s, jobs) :
            /\ job' = [jobs EXCEPT ![v] = "none"]
            /\ prey' = [prey EXCEPT ![s] = v]
            /\ pc' = [pc EXCEPT ![s] = "reaping"]
      BY <1>1 DEF Contend
    <2>2. v \in Session
      BY DEF Victims
    <2>3. QED
      BY <2>1, <2>2 DEF Orderly, TypeOK
  <1>2. CASE ~(~Left(slotQ, free) /\ Victims(s, jobs) # {})
    <2>1. job' = jobs /\ Queue(s) /\ prey' = prey
      BY <1>2 DEF Contend
    <2>2. \/ pc' = [pc EXCEPT ![s] = "slot"]
          \/ pc' = [pc EXCEPT ![s] = "gpu"] /\ s \in Transcoded
          \/ pc' = [pc EXCEPT ![s] = "idle"]
      BY <2>1 DEF Queue
    <2>3. QED
      BY <2>1, <2>2 DEF Orderly, TypeOK
  <1>3. QED
    BY <1>1, <1>2

LEMMA StepOrderly ==
  ASSUME TypeOK, Orderly, NEW s \in Session, Step(s)
  PROVE  Orderly'
  <1>1. CASE StartProducer(s)
    <2>1. CASE job[s] \in {"running", "paused"}
      <3>1. /\ prey' = prey /\ job' = [job EXCEPT ![s] = "none"]
            /\ \E p \in {"killing", "dropping"} : pc' = [pc EXCEPT ![s] = p]
        BY <1>1, <2>1 DEF StartProducer
      <3>2. QED
        BY <3>1 DEF Orderly, TypeOK
    <2>2. CASE job[s] = "gone"
      <3> DEFINE jobs == [job EXCEPT ![s] = "none"]
      <3>1. Contend(s, jobs, slots + 1)
        BY <1>1, <2>2 DEF StartProducer
      <3>2. /\ jobs \in [Session -> Jobs] /\ jobs[s] = "none"
            /\ \A x \in Session : job[x] = "none" => jobs[x] = "none"
        BY DEF TypeOK, Jobs
      <3> HIDE DEF jobs
      <3>3. QED
        BY <3>1, <3>2, ContendOrderly
    <2>3. CASE job[s] = "none"
      <3>1. Contend(s, job, slots) /\ job \in [Session -> Jobs]
        BY <1>1, <2>3 DEF StartProducer, TypeOK
      <3>2. QED
        BY <2>3, <3>1, ContendOrderly
    <2>4. QED
      BY <2>1, <2>2, <2>3 DEF TypeOK, Jobs
  <1>2. CASE OldStopped(s)
    <2>1. job[s] = "none" /\ job \in [Session -> Jobs] /\ \E free : Contend(s, job, free)
      BY <1>2 DEF OldStopped, Orderly, TypeOK
    <2>2. QED
      BY <2>1, ContendOrderly
  <1>3. CASE Reaped(s)
    <2>1. /\ job' = job /\ prey' = [prey EXCEPT ![s] = None] /\ job[s] = "none"
          /\ \/ pc' = [pc EXCEPT ![s] = "slot"]
             \/ pc' = [pc EXCEPT ![s] = "gpu"] /\ s \in Transcoded
             \/ pc' = [pc EXCEPT ![s] = "idle"]
      BY <1>3 DEF Reaped, Queue, Orderly
    <2>2. QED
      BY <2>1 DEF Orderly, TypeOK
  <1>4. CASE GotGpu(s)
    BY <1>4 DEF GotGpu, Orderly, TypeOK
  <1>5. CASE Drop(s)
    BY <1>5 DEF Drop, Orderly, TypeOK
  <1>6. ASSUME NEW spawned \in BOOLEAN, GotSlot(s, spawned) PROVE Orderly'
    <2>1. /\ prey' = prey /\ pc' = [pc EXCEPT ![s] = "idle"]
          /\ \A x \in Session : x # s => job'[x] = job[x]
      BY <1>6 DEF GotSlot, TypeOK
    <2>2. QED
      BY <2>1 DEF Orderly, TypeOK
  <1>7. CASE \/ \E ahead \in BOOLEAN : Supervise(s, ahead)
             \/ \E ahead, done \in BOOLEAN : Poll(s, ahead, done)
    <2>1. UNCHANGED <<pc, prey>> /\ \E ahead \in BOOLEAN : RefreshAndGate(s, ahead)
      BY <1>7 DEF Supervise, Poll
    <2>2. /\ \A x \in Session : x # s => job'[x] = job[x]
          /\ job[s] = "none" => job'[s] = "none"
      BY <2>1 DEF RefreshAndGate, TypeOK
    <2>3. QED
      BY <2>1, <2>2 DEF Orderly
  <1>8. CASE Exit(s) \/ Produce(s) \/ Park(s) \/ Ask(s) \/ End(s) \/ EndStopped(s)
    <2>1. /\ UNCHANGED <<pc, prey>>
          /\ \A x \in Session : job[x] = "none" => job'[x] = "none"
      BY <1>8 DEF Exit, Produce, Park, Ask, End, EndStopped, TypeOK
    <2>2. QED
      BY <2>1 DEF Orderly
  <1>9. QED
    BY <1>1, <1>2, <1>3, <1>4, <1>5, <1>6, <1>7, <1>8 DEF Step

LEMMA NextOrderly == TypeOK /\ Orderly /\ [Next]_vars => Orderly'
  <1> SUFFICES ASSUME TypeOK, Orderly, [Next]_vars PROVE Orderly'
    OBVIOUS
  <1>1. CASE Tick \/ UNCHANGED vars
    BY <1>1 DEF Tick, vars, Orderly
  <1>2. QED
    BY <1>1, StepOrderly DEF Next

LEMMA InitOrderly == Init => Orderly
  BY DEF Init, Orderly

LEMMA AlwaysOrderly == Spec => []Orderly
  BY InitOrderly, NextOrderly, TypeCorrect, PTL DEF Spec

\* How many permits the sessions of a set account for once x leaves it, or joins it.
LEMMA Leaves ==
  ASSUME NEW A, NEW B, NEW x, IsFiniteSet(A), x \in A, B = A \ {x}
  PROVE  /\ IsFiniteSet(B)
         /\ Cardinality(A) \in Nat /\ Cardinality(B) = Cardinality(A) - 1
         /\ Cardinality(A \cap Transcoded) \in Nat
         /\ Cardinality(B \cap Transcoded) = Cardinality(A \cap Transcoded) - Gpus(x)
  <1> DEFINE C == A \cap Transcoded
             D == B \cap Transcoded
  <1>1. /\ IsFiniteSet(B) /\ Cardinality(A) \in Nat
        /\ Cardinality(B) = Cardinality(A) - 1
    BY FS_RemoveElement, FS_CardinalityType
  <1>2. IsFiniteSet(C) /\ Cardinality(C) \in Nat
    BY FS_Subset, FS_CardinalityType
  <1>3. Cardinality(D) = Cardinality(C) - Gpus(x)
    <2>1. CASE x \in Transcoded
      <3>1. D = C \ {x} /\ x \in C
        BY <2>1
      <3> HIDE DEF C, D
      <3>2. Cardinality(D) = Cardinality(C) - 1
        BY <1>2, <3>1, FS_RemoveElement
      <3>3. QED
        BY <2>1, <3>2 DEF Gpus
    <2>2. CASE x \notin Transcoded
      <3>1. D = C
        BY <2>2
      <3> HIDE DEF C, D
      <3>2. QED
        BY <1>2, <2>2, <3>1 DEF Gpus
    <2>3. QED
      BY <2>1, <2>2
  <1>4. QED
    BY <1>1, <1>2, <1>3

LEMMA Joins ==
  ASSUME NEW A, NEW B, NEW x, IsFiniteSet(A), x \notin A, B = A \cup {x}
  PROVE  /\ IsFiniteSet(B)
         /\ Cardinality(A) \in Nat /\ Cardinality(B) = Cardinality(A) + 1
         /\ Cardinality(A \cap Transcoded) \in Nat
         /\ Cardinality(B \cap Transcoded) = Cardinality(A \cap Transcoded) + Gpus(x)
  <1> DEFINE C == A \cap Transcoded
             D == B \cap Transcoded
  <1>1. /\ IsFiniteSet(B) /\ Cardinality(A) \in Nat
        /\ Cardinality(B) = Cardinality(A) + 1
    BY FS_AddElement, FS_CardinalityType
  <1>2. IsFiniteSet(C) /\ Cardinality(C) \in Nat
    BY FS_Subset, FS_CardinalityType
  <1>3. Cardinality(D) = Cardinality(C) + Gpus(x)
    <2>1. CASE x \in Transcoded
      <3>1. D = C \cup {x} /\ x \notin C
        BY <2>1
      <3> HIDE DEF C, D
      <3>2. Cardinality(D) = Cardinality(C) + 1
        BY <1>2, <3>1, FS_AddElement
      <3>3. QED
        BY <2>1, <3>2 DEF Gpus
    <2>2. CASE x \notin Transcoded
      <3>1. D = C
        BY <2>2
      <3> HIDE DEF C, D
      <3>2. QED
        BY <1>2, <2>2, <3>1 DEF Gpus
    <2>3. QED
      BY <2>1, <2>2
  <1>4. QED
    BY <1>1, <1>2, <1>3

Finite ==
  /\ IsFiniteSet(InJob) /\ IsFiniteSet(InKill) /\ IsFiniteSet(InReap)
  /\ IsFiniteSet(InEnd) /\ IsFiniteSet(InSlot)

Permits == Finite /\ PermitsConserved

LEMMA Counts ==
  ASSUME Finite
  PROVE  /\ IsFiniteSet(Reaping) /\ Cardinality(Reaping) \in Nat
         /\ Cardinality(InJob) \in Nat /\ Cardinality(InKill) \in Nat
         /\ Cardinality(InReap) \in Nat /\ Cardinality(InEnd) \in Nat
         /\ Cardinality(InJob \cap Transcoded) \in Nat
         /\ Cardinality(InKill \cap Transcoded) \in Nat
         /\ Cardinality(InEnd \cap Transcoded) \in Nat
         /\ Cardinality(InSlot \cap Transcoded) \in Nat
         /\ Active \in Nat /\ OnGpu \in Nat
  <1>1. IsFiniteSet(Reaping)
    <2>1. Reaping \in SUBSET InReap
      BY DEF Reaping
    <2>2. QED
      BY <2>1, FS_Subset DEF Finite
  <1>2. ASSUME NEW A, IsFiniteSet(A)
        PROVE  Cardinality(A) \in Nat /\ Cardinality(A \cap Transcoded) \in Nat
    <2>1. IsFiniteSet(A \cap Transcoded)
      BY <1>2, FS_Subset
    <2>2. QED
      BY <1>2, <2>1, FS_CardinalityType
  <1>3. QED
    BY <1>1, <1>2, FS_CardinalityType DEF Finite, Active, OnGpu

\* The same, after a step too.
LEMMA Tallied ==
  ASSUME Finite, Finite'
  PROVE  /\ Cardinality(InJob) \in Nat /\ Cardinality(InJob') \in Nat
         /\ Cardinality(InKill) \in Nat /\ Cardinality(InKill') \in Nat
         /\ Cardinality(InReap) \in Nat /\ Cardinality(InReap') \in Nat
         /\ Cardinality(InEnd) \in Nat /\ Cardinality(InEnd') \in Nat
         /\ Cardinality(InJob \cap Transcoded) \in Nat
         /\ Cardinality(InJob' \cap Transcoded) \in Nat
         /\ Cardinality(InKill \cap Transcoded) \in Nat
         /\ Cardinality(InKill' \cap Transcoded) \in Nat
         /\ Cardinality(Reaping) \in Nat /\ Cardinality(Reaping') \in Nat
         /\ Cardinality(InEnd \cap Transcoded) \in Nat
         /\ Cardinality(InSlot \cap Transcoded) \in Nat
  <1>1. ASSUME NEW A, IsFiniteSet(A)
        PROVE  Cardinality(A) \in Nat /\ Cardinality(A \cap Transcoded) \in Nat
    <2>1. IsFiniteSet(A \cap Transcoded)
      BY <1>1, FS_Subset
    <2>2. QED
      BY <1>1, <2>1, FS_CardinalityType
  <1>2. Reaping' \in SUBSET InReap'
    BY DEF Reaping
  <1>3. IsFiniteSet(Reaping')
    BY <1>2, FS_Subset DEF Finite
  <1>4. QED
    BY <1>1, <1>3, Counts DEF Finite

\* What is taken is what is held more; and what is given back, what is held less.
LEMMA Taken ==
  ASSUME TypeOK, Permits, Finite', NEW d \in Nat, NEW g \in Nat,
         slots' = slots - d, gpus' = gpus - g,
         Active' = Active + d, OnGpu' = OnGpu + g
  PROVE  Permits'
  <1>1. /\ Active \in Nat /\ OnGpu \in Nat /\ slots \in Nat /\ gpus \in Nat
        /\ slots + Active = MaxActive /\ gpus + OnGpu = MaxTranscodes
    BY Counts DEF Permits, PermitsConserved, TypeOK
  <1>2. slots' + Active' = MaxActive /\ gpus' + OnGpu' = MaxTranscodes
    BY <1>1
  <1>3. QED
    BY <1>2 DEF Permits, PermitsConserved

LEMMA Returned ==
  ASSUME TypeOK, Permits, Finite', NEW d \in Nat, NEW g \in Nat,
         slots' = slots + d, gpus' = gpus + g,
         Active' = Active - d, OnGpu' = OnGpu - g
  PROVE  Permits'
  <1>1. /\ Active \in Nat /\ OnGpu \in Nat /\ slots \in Nat /\ gpus \in Nat
        /\ slots + Active = MaxActive /\ gpus + OnGpu = MaxTranscodes
    BY Counts DEF Permits, PermitsConserved, TypeOK
  <1>2. slots' + Active' = MaxActive /\ gpus' + OnGpu' = MaxTranscodes
    BY <1>1
  <1>3. QED
    BY <1>2 DEF Permits, PermitsConserved

\* Steps that move no permit, and those that move one to or from a job.
LEMMA SamePermits ==
  ASSUME Permits, InJob' = InJob, UNCHANGED <<pc, prey, life, slots, gpus>>
  PROVE  Permits'
  BY DEF Permits, Finite, PermitsConserved, Active, OnGpu, InKill, InReap, InEnd, InSlot,
         Reaping

LEMMA JobGivesBack ==
  ASSUME TypeOK, Permits, NEW s \in InJob, InJob' = InJob \ {s}, GiveBack(s),
         UNCHANGED <<pc, prey, life>>
  PROVE  Permits'
  <1>1. /\ InKill' = InKill /\ InReap' = InReap /\ InEnd' = InEnd /\ InSlot' = InSlot
        /\ Reaping' = Reaping
    BY DEF InKill, InReap, InEnd, InSlot, Reaping
  <1>2. /\ IsFiniteSet(InJob') /\ Cardinality(InJob') = Cardinality(InJob) - 1
        /\ Cardinality(InJob' \cap Transcoded) = Cardinality(InJob \cap Transcoded) - Gpus(s)
    BY Leaves DEF Permits, Finite
  <1>3. Finite'
    BY <1>1, <1>2 DEF Permits, Finite
  <1>4. Gpus(s) \in Nat
    BY DEF Gpus
  <1>5. Active' = Active - 1
    BY <1>1, <1>2, Counts DEF Active, Permits
  <1>6. OnGpu' = OnGpu - Gpus(s)
    BY <1>1, <1>2, <1>4, Counts DEF OnGpu, Permits
  <1>7. QED
    BY <1>3, <1>4, <1>5, <1>6, Returned DEF GiveBack

LEMMA GatePermits ==
  ASSUME TypeOK, Permits, NEW s \in Session, NEW ahead \in BOOLEAN,
         RefreshAndGate(s, ahead), UNCHANGED <<pc, prey, life>>
  PROVE  Permits'
  <1>1. CASE /\ job[s] \in {"running", "gone"} /\ GiveBack(s)
             /\ \E j \in {"none", "paused"} : job' = [job EXCEPT ![s] = j]
    <2>1. InJob' = InJob \ {s} /\ s \in InJob
      BY <1>1 DEF InJob, TypeOK
    <2>2. QED
      BY <1>1, <2>1, JobGivesBack
  <1>2. CASE /\ job[s] = "paused" /\ job' = [job EXCEPT ![s] = "running"]
             /\ slots' = slots - 1 /\ gpus' = gpus - Gpus(s)
    <2>1. InJob' = InJob \cup {s} /\ s \notin InJob
      BY <1>2 DEF InJob, TypeOK
    <2>2. /\ IsFiniteSet(InJob') /\ Cardinality(InJob') = Cardinality(InJob) + 1
          /\ Cardinality(InJob' \cap Transcoded) = Cardinality(InJob \cap Transcoded) + Gpus(s)
      BY <2>1, Joins DEF Permits, Finite
    <2>3. /\ InKill' = InKill /\ InReap' = InReap /\ InEnd' = InEnd /\ InSlot' = InSlot
          /\ Reaping' = Reaping
      BY DEF InKill, InReap, InEnd, InSlot, Reaping
    <2>4. Finite'
      BY <2>2, <2>3 DEF Permits, Finite
    <2>5. Gpus(s) \in Nat
      BY DEF Gpus
    <2>6. Active' = Active + 1
      BY <2>2, <2>3, Counts DEF Active, Permits
    <2>7. OnGpu' = OnGpu + Gpus(s)
      BY <2>2, <2>3, <2>5, Counts DEF OnGpu, Permits
    <2>8. QED
      BY <1>2, <2>4, <2>5, <2>6, <2>7, Taken
  <1>3. CASE UNCHANGED <<job, slots, gpus>>
    BY <1>3, SamePermits DEF InJob
  <1>4. QED
    BY <1>1, <1>2, <1>3 DEF RefreshAndGate

\* Joining the first queue takes no permit, and leaves what the step before held.
LEMMA QueueCounts ==
  ASSUME TypeOK, Finite, NEW s \in Session, pc[s] # "slot", Queue(s)
  PROVE  /\ IsFiniteSet(InSlot') /\ InSlot' \cap Transcoded = InSlot \cap Transcoded
         /\ InKill' = InKill \ {s} /\ InReap' = InReap \ {s}
  <1>1. \/ pc' = [pc EXCEPT ![s] = "slot"] /\ s \notin Transcoded
        \/ pc' = [pc EXCEPT ![s] = "gpu"]
        \/ pc' = [pc EXCEPT ![s] = "idle"]
    BY DEF Queue
  <1>2. InKill' = InKill \ {s} /\ InReap' = InReap \ {s}
    BY <1>1 DEF InKill, InReap, TypeOK
  <1>3. \/ InSlot' = InSlot
        \/ InSlot' = InSlot \cup {s} /\ s \notin InSlot /\ s \notin Transcoded
    BY <1>1 DEF InSlot, TypeOK
  <1>4. IsFiniteSet(InSlot')
    BY <1>3, Joins DEF Finite
  <1>5. QED
    BY <1>2, <1>3, <1>4

\* A job that is reaped for s keeps its permit with s until it is gone. J is what held
\* one before.
LEMMA ContendCounts ==
  ASSUME TypeOK, Finite, NEW s \in Session, pc[s] \in {"idle", "killing", "dropping"},
         NEW jobs \in [Session -> Jobs], NEW free, Contend(s, jobs, free),
         NEW J, J = {x \in Session : jobs[x] \in {"running", "gone"}}, IsFiniteSet(J)
  PROVE  /\ IsFiniteSet(InJob') /\ IsFiniteSet(InReap') /\ IsFiniteSet(InSlot')
         /\ Cardinality(InJob') + Cardinality(InReap') = Cardinality(J) + Cardinality(InReap)
         /\ Cardinality(InJob' \cap Transcoded) + Cardinality(Reaping')
               = Cardinality(J \cap Transcoded) + Cardinality(Reaping)
         /\ InSlot' \cap Transcoded = InSlot \cap Transcoded
         /\ InKill' = InKill \ {s}
  <1>1. CASE ~Left(slotQ, free) /\ Victims(s, jobs) # {}
    <2>1. PICK v \in Victims(s, jobs) :
            /\ job' = [jobs EXCEPT ![v] = "none"]
            /\ prey' = [prey EXCEPT ![s] = v]
            /\ pc' = [pc EXCEPT ![s] = "reaping"]
      BY <1>1 DEF Contend
    <2>2. v \in J /\ v \in Session
      BY DEF Victims
    <2>3. InJob' = J \ {v}
      BY <2>1, <2>2 DEF InJob
    <2>4. InReap' = InReap \cup {s} /\ s \notin InReap
      BY <2>1 DEF InReap, TypeOK
    <2>5. InKill' = InKill \ {s} /\ InSlot' = InSlot
      BY <2>1 DEF InKill, InSlot, TypeOK
    <2>6. /\ IsFiniteSet(InJob') /\ Cardinality(J) \in Nat
          /\ Cardinality(InJob') = Cardinality(J) - 1
          /\ Cardinality(J \cap Transcoded) \in Nat
          /\ Cardinality(InJob' \cap Transcoded) = Cardinality(J \cap Transcoded) - Gpus(v)
      BY <2>2, <2>3, Leaves
    <2>7. IsFiniteSet(InReap') /\ Cardinality(InReap') = Cardinality(InReap) + 1
      BY <2>4, Joins DEF Finite
    <2>8. Cardinality(Reaping') = Cardinality(Reaping) + Gpus(v)
      <3>1. CASE v \in Transcoded
        <4>1. Reaping' = Reaping \cup {s} /\ s \notin Reaping
          BY <2>1, <2>4, <3>1 DEF Reaping, TypeOK
        <4>2. QED
          BY <3>1, <4>1, Counts, FS_AddElement DEF Gpus
      <3>2. CASE v \notin Transcoded
        <4>1. Reaping' = Reaping
          BY <2>1, <2>4, <3>2 DEF Reaping, TypeOK
        <4>2. QED
          BY <3>2, <4>1, Counts DEF Gpus
      <3>3. QED
        BY <3>1, <3>2
    <2>9. Gpus(v) \in Nat
      BY DEF Gpus
    <2>10. QED
      BY <2>5, <2>6, <2>7, <2>8, <2>9, Counts DEF Finite
  <1>2. CASE ~(~Left(slotQ, free) /\ Victims(s, jobs) # {})
    <2>1. job' = jobs /\ Queue(s) /\ prey' = prey
      BY <1>2 DEF Contend
    <2>2. InJob' = J
      BY <2>1 DEF InJob
    <2>3. s \notin InReap
      BY DEF InReap
    <2>4. InReap' = InReap
      BY <2>1, <2>3, QueueCounts
    <2>5. Reaping' = Reaping
      BY <2>1, <2>4 DEF Reaping
    <2>6. QED
      BY <2>1, <2>2, <2>4, <2>5, QueueCounts DEF Finite
  <1>3. QED
    BY <1>1, <1>2

LEMMA StartPermits ==
  ASSUME TypeOK, Orderly, Permits, NEW s \in Session, StartProducer(s)
  PROVE  Permits'
  <1>1. pc[s] = "idle" /\ InEnd' = InEnd /\ s \notin InKill
    BY DEF StartProducer, InEnd, InKill
  <1>2. CASE job[s] = "running"
    <2>1. /\ pc' = [pc EXCEPT ![s] = "killing"] /\ job' = [job EXCEPT ![s] = "none"]
          /\ UNCHANGED <<prey, slots, gpus>>
      BY <1>2 DEF StartProducer
    <2>2. s \in InJob /\ InJob' = InJob \ {s} /\ InKill' = InKill \cup {s}
      BY <1>2, <2>1 DEF InJob, InKill, TypeOK
    <2>3. InReap' = InReap /\ InSlot' = InSlot
      BY <1>1, <2>1 DEF InReap, InSlot, TypeOK
    <2>4. Reaping' = Reaping
      BY <2>1, <2>3 DEF Reaping
    <2>5. /\ IsFiniteSet(InJob') /\ Cardinality(InJob') = Cardinality(InJob) - 1
          /\ Cardinality(InJob' \cap Transcoded) = Cardinality(InJob \cap Transcoded) - Gpus(s)
      BY <2>2, Leaves DEF Permits, Finite
    <2>6. /\ IsFiniteSet(InKill') /\ Cardinality(InKill') = Cardinality(InKill) + 1
          /\ Cardinality(InKill' \cap Transcoded)
               = Cardinality(InKill \cap Transcoded) + Gpus(s)
      BY <1>1, <2>2, Joins DEF Permits, Finite
    <2>7. Finite'
      BY <1>1, <2>3, <2>5, <2>6 DEF Permits, Finite
    <2>8. Gpus(s) \in Nat
      BY DEF Gpus
    <2>9. Active' = Active
      BY <1>1, <2>3, <2>5, <2>6, Counts DEF Active, Permits
    <2>10. OnGpu' = OnGpu
      BY <1>1, <2>3, <2>4, <2>5, <2>6, <2>8, Counts DEF OnGpu, Permits
    <2>11. QED
      BY <2>1, <2>7, <2>9, <2>10 DEF Permits, PermitsConserved
  <1>3. CASE job[s] = "paused"
    <2>1. /\ pc' = [pc EXCEPT ![s] = "dropping"] /\ job' = [job EXCEPT ![s] = "none"]
          /\ UNCHANGED <<prey, slots, gpus>>
      BY <1>3 DEF StartProducer
    <2>2. InJob' = InJob /\ InKill' = InKill /\ InReap' = InReap /\ InSlot' = InSlot
      BY <1>1, <1>3, <2>1 DEF InJob, InKill, InReap, InSlot, TypeOK
    <2>3. Reaping' = Reaping
      BY <2>1, <2>2 DEF Reaping
    <2>4. QED
      BY <1>1, <2>1, <2>2, <2>3 DEF Permits, Finite, PermitsConserved, Active, OnGpu
  <1>4. CASE job[s] \in {"gone", "none"}
    <2> DEFINE jobs == [job EXCEPT ![s] = "none"]
               J == {x \in Session : jobs[x] \in {"running", "gone"}}
               d == IF job[s] = "gone" THEN 1 ELSE 0
               g == IF job[s] = "gone" THEN Gpus(s) ELSE 0
    <2>1. jobs \in [Session -> Jobs]
      BY DEF TypeOK, Jobs
    <2>2. \E free : Contend(s, jobs, free)
      <3>1. CASE job[s] = "gone"
        BY <3>1 DEF StartProducer
      <3>2. CASE job[s] = "none"
        <4>1. jobs = job
          BY <3>2 DEF TypeOK
        <4>2. QED
          BY <3>2, <4>1 DEF StartProducer
      <3>3. QED
        BY <1>4, <3>1, <3>2
    <2>3. d \in Nat /\ g \in Nat /\ slots' = slots + d /\ gpus' = gpus + g
      <3>1. slots \in Nat /\ gpus \in Nat /\ Gpus(s) \in Nat
        BY DEF TypeOK, Gpus
      <3>2. CASE job[s] = "gone"
        BY <3>1, <3>2 DEF StartProducer, GiveBack
      <3>3. CASE job[s] = "none"
        BY <3>1, <3>3 DEF StartProducer
      <3>4. QED
        BY <1>4, <3>2, <3>3
    <2>4. /\ IsFiniteSet(J) /\ Cardinality(J) \in Nat /\ Cardinality(J \cap Transcoded) \in Nat
          /\ Cardinality(J) = Cardinality(InJob) - d
          /\ Cardinality(J \cap Transcoded) = Cardinality(InJob \cap Transcoded) - g
      <3>1. CASE job[s] = "gone"
        <4>1. s \in InJob /\ J = InJob \ {s}
          BY <3>1 DEF InJob, TypeOK
        <4> HIDE DEF J
        <4>2. /\ IsFiniteSet(J) /\ Cardinality(J) = Cardinality(InJob) - 1
              /\ Cardinality(J \cap Transcoded) = Cardinality(InJob \cap Transcoded) - Gpus(s)
          BY <4>1, Leaves DEF Permits, Finite
        <4>3. IsFiniteSet(J \cap Transcoded)
          BY <4>2, FS_Subset
        <4>4. QED
          BY <3>1, <4>2, <4>3, FS_CardinalityType
      <3>2. CASE job[s] = "none"
        <4>1. J = InJob
          BY <3>2 DEF InJob, TypeOK
        <4> HIDE DEF J
        <4>2. d = 0 /\ g = 0
          BY <3>2
        <4> HIDE DEF d, g
        <4>3. QED
          BY <4>1, <4>2, Counts DEF Permits, Finite
      <3>3. QED
        BY <1>4, <3>1, <3>2
    <2> HIDE DEF J, jobs, d, g
    <2>5. J = {x \in Session : jobs[x] \in {"running", "gone"}}
      BY DEF J
    <2>6. /\ IsFiniteSet(InJob') /\ IsFiniteSet(InReap') /\ IsFiniteSet(InSlot')
          /\ Cardinality(InJob') + Cardinality(InReap') = Cardinality(J) + Cardinality(InReap)
          /\ Cardinality(InJob' \cap Transcoded) + Cardinality(Reaping')
                = Cardinality(J \cap Transcoded) + Cardinality(Reaping)
          /\ InSlot' \cap Transcoded = InSlot \cap Transcoded
          /\ InKill' = InKill \ {s}
      BY <1>1, <2>1, <2>2, <2>4, <2>5, ContendCounts DEF Permits
    <2>7. InKill' = InKill
      BY <1>1, <2>6
    <2>8. Finite'
      BY <1>1, <2>6, <2>7 DEF Permits, Finite
    <2>9. Active' = Active - d
      <3>1. Cardinality(InKill') = Cardinality(InKill) /\ Cardinality(InEnd') = Cardinality(InEnd)
        BY <1>1, <2>7
      <3>2. QED
        BY <2>3, <2>4, <2>6, <2>8, <3>1, Tallied DEF Active, Permits
    <2>10. OnGpu' = OnGpu - g
      <3>1. /\ Cardinality(InKill' \cap Transcoded) = Cardinality(InKill \cap Transcoded)
            /\ Cardinality(InEnd' \cap Transcoded) = Cardinality(InEnd \cap Transcoded)
            /\ Cardinality(InSlot' \cap Transcoded) = Cardinality(InSlot \cap Transcoded)
        BY <1>1, <2>6, <2>7
      <3>2. QED
        BY <2>3, <2>4, <2>6, <2>8, <3>1, Tallied DEF OnGpu, Permits
    <2>11. QED
      BY <2>3, <2>8, <2>9, <2>10, Returned
  <1>5. QED
    BY <1>2, <1>3, <1>4 DEF TypeOK, Jobs

LEMMA OldStoppedPermits ==
  ASSUME TypeOK, Permits, NEW s \in Session, OldStopped(s)
  PROVE  Permits'
  <1> DEFINE d == IF pc[s] = "killing" THEN 1 ELSE 0
             g == IF pc[s] = "killing" THEN Gpus(s) ELSE 0
  <1>1. pc[s] \in {"killing", "dropping"} /\ life' = life /\ \E free : Contend(s, job, free)
    BY DEF OldStopped
  <1>2. d \in Nat /\ g \in Nat /\ slots' = slots + d /\ gpus' = gpus + g
    <2>1. slots \in Nat /\ gpus \in Nat /\ Gpus(s) \in Nat
      BY DEF TypeOK, Gpus
    <2>2. QED
      BY <2>1 DEF OldStopped, GiveBack
  <1>3. IsFiniteSet(InJob) /\ job \in [Session -> Jobs]
    BY DEF Permits, Finite, TypeOK
  <1>4. InJob = {x \in Session : job[x] \in {"running", "gone"}}
    BY DEF InJob
  <1>5. /\ IsFiniteSet(InJob') /\ IsFiniteSet(InReap') /\ IsFiniteSet(InSlot')
        /\ Cardinality(InJob') + Cardinality(InReap')
             = Cardinality(InJob) + Cardinality(InReap)
        /\ Cardinality(InJob' \cap Transcoded) + Cardinality(Reaping')
             = Cardinality(InJob \cap Transcoded) + Cardinality(Reaping)
        /\ InSlot' \cap Transcoded = InSlot \cap Transcoded
        /\ InKill' = InKill \ {s}
    BY <1>1, <1>3, <1>4, ContendCounts DEF Permits
  <1>6. /\ IsFiniteSet(InKill') /\ Cardinality(InKill') = Cardinality(InKill) - d
        /\ Cardinality(InKill' \cap Transcoded) = Cardinality(InKill \cap Transcoded) - g
    <2>1. CASE pc[s] = "killing"
      <3>1. s \in InKill
        BY <2>1 DEF InKill
      <3>2. QED
        BY <1>5, <2>1, <3>1, Leaves DEF Permits, Finite
    <2>2. CASE pc[s] # "killing"
      <3>1. InKill' = InKill
        BY <1>5, <2>2 DEF InKill
      <3>2. d = 0 /\ g = 0
        BY <2>2
      <3> HIDE DEF d, g
      <3>3. QED
        BY <3>1, <3>2, Counts DEF Permits, Finite
    <2>3. QED
      BY <2>1, <2>2
  <1> HIDE DEF d, g
  <1>7. InEnd' = InEnd
    BY <1>1 DEF InEnd
  <1>8. Finite'
    BY <1>5, <1>6, <1>7 DEF Permits, Finite
  <1>9. Active' = Active - d
    <2>1. Cardinality(InEnd') = Cardinality(InEnd)
      BY <1>7
    <2>2. QED
      BY <1>2, <1>5, <1>6, <1>8, <2>1, Tallied DEF Active, Permits
  <1>10. OnGpu' = OnGpu - g
    <2>1. /\ Cardinality(InEnd' \cap Transcoded) = Cardinality(InEnd \cap Transcoded)
          /\ Cardinality(InSlot' \cap Transcoded) = Cardinality(InSlot \cap Transcoded)
      BY <1>5, <1>7
    <2>2. QED
      BY <1>2, <1>5, <1>6, <1>8, <2>1, Tallied DEF OnGpu, Permits
  <1>11. QED
    BY <1>2, <1>8, <1>9, <1>10, Returned

\* A reaper that goes on holds its victim's permit no more.
LEMMA ReaperLeaves ==
  ASSUME TypeOK, Finite, NEW s \in InReap, InReap' = InReap \ {s},
         prey' = [prey EXCEPT ![s] = None]
  PROVE  /\ IsFiniteSet(InReap') /\ Cardinality(InReap') = Cardinality(InReap) - 1
         /\ Cardinality(Reaping') = Cardinality(Reaping) - Gpus(prey[s])
  <1>1. IsFiniteSet(InReap') /\ Cardinality(InReap') = Cardinality(InReap) - 1
    BY Leaves DEF Finite
  <1>2. \A x \in InReap' : prey'[x] = prey[x]
    BY DEF InReap, TypeOK
  <1>3. CASE prey[s] \in Transcoded
    <2>1. Reaping' = Reaping \ {s} /\ s \in Reaping
      BY <1>2, <1>3 DEF Reaping
    <2>2. QED
      BY <1>1, <1>3, <2>1, Counts, FS_RemoveElement DEF Gpus
  <1>4. CASE prey[s] \notin Transcoded
    <2>1. Reaping' = Reaping
      BY <1>2, <1>4 DEF Reaping
    <2>2. QED
      BY <1>1, <1>4, <2>1, Counts DEF Gpus
  <1>5. QED
    BY <1>3, <1>4

LEMMA ReapedPermits ==
  ASSUME TypeOK, Permits, NEW s \in Session, Reaped(s)
  PROVE  Permits'
  <1>1. /\ pc[s] = "reaping" /\ GiveBack(prey[s]) /\ Queue(s)
        /\ prey' = [prey EXCEPT ![s] = None] /\ UNCHANGED <<job, life>>
    BY DEF Reaped
  <1>2. s \in InReap /\ s \notin InKill
    BY <1>1 DEF InReap, InKill
  <1>3. /\ IsFiniteSet(InSlot') /\ InSlot' \cap Transcoded = InSlot \cap Transcoded
        /\ InKill' = InKill /\ InReap' = InReap \ {s}
    BY <1>1, <1>2, QueueCounts DEF Permits
  <1>4. InJob' = InJob /\ InEnd' = InEnd
    BY <1>1 DEF InJob, InEnd
  <1>5. /\ IsFiniteSet(InReap') /\ Cardinality(InReap') = Cardinality(InReap) - 1
        /\ Cardinality(Reaping') = Cardinality(Reaping) - Gpus(prey[s])
    BY <1>1, <1>2, <1>3, ReaperLeaves DEF Permits
  <1>6. Finite'
    BY <1>3, <1>4, <1>5 DEF Permits, Finite
  <1>7. Gpus(prey[s]) \in Nat
    BY DEF Gpus
  <1>8. Active' = Active - 1
    <2>1. /\ Cardinality(InJob') = Cardinality(InJob) /\ Cardinality(InKill') = Cardinality(InKill)
          /\ Cardinality(InEnd') = Cardinality(InEnd)
      BY <1>3, <1>4
    <2>2. QED
      BY <1>5, <1>6, <2>1, Tallied DEF Active, Permits
  <1>9. OnGpu' = OnGpu - Gpus(prey[s])
    <2>1. /\ Cardinality(InJob' \cap Transcoded) = Cardinality(InJob \cap Transcoded)
          /\ Cardinality(InKill' \cap Transcoded) = Cardinality(InKill \cap Transcoded)
          /\ Cardinality(InEnd' \cap Transcoded) = Cardinality(InEnd \cap Transcoded)
          /\ Cardinality(InSlot' \cap Transcoded) = Cardinality(InSlot \cap Transcoded)
      BY <1>3, <1>4
    <2>2. QED
      BY <1>5, <1>6, <1>7, <2>1, Tallied DEF OnGpu, Permits
  <1>10. QED
    BY <1>1, <1>6, <1>7, <1>8, <1>9, Returned DEF GiveBack

LEMMA GotGpuPermits ==
  ASSUME TypeOK, Orderly, Permits, NEW s \in Session, GotGpu(s)
  PROVE  Permits'
  <1>1. /\ pc[s] = "gpu" /\ pc' = [pc EXCEPT ![s] = "slot"] /\ s \in Transcoded
        /\ slots' = slots /\ gpus' = gpus - 1 /\ UNCHANGED <<job, prey, life>>
    BY DEF GotGpu, Orderly
  <1>2. InJob' = InJob /\ InKill' = InKill /\ InReap' = InReap /\ InEnd' = InEnd
    BY <1>1 DEF InJob, InKill, InReap, InEnd, TypeOK
  <1>3. Reaping' = Reaping
    BY <1>1, <1>2 DEF Reaping
  <1>4. InSlot' = InSlot \cup {s} /\ s \notin InSlot
    BY <1>1 DEF InSlot, TypeOK
  <1>5. /\ IsFiniteSet(InSlot')
        /\ Cardinality(InSlot' \cap Transcoded) = Cardinality(InSlot \cap Transcoded) + 1
    BY <1>1, <1>4, Joins DEF Permits, Finite, Gpus
  <1>6. Finite'
    BY <1>2, <1>5 DEF Permits, Finite
  <1>7. Active' = Active + 0
    BY <1>2, Counts DEF Active, Permits
  <1>8. OnGpu' = OnGpu + 1
    BY <1>2, <1>3, <1>5, Counts DEF OnGpu, Permits
  <1>9. slots' = slots - 0
    BY <1>1 DEF TypeOK
  <1>10. QED
    BY <1>1, <1>6, <1>7, <1>8, <1>9, Taken

LEMMA GotSlotPermits ==
  ASSUME TypeOK, Orderly, Permits, NEW s \in Session, NEW spawned \in BOOLEAN,
         GotSlot(s, spawned)
  PROVE  Permits'
  <1>1. /\ pc[s] = "slot" /\ pc' = [pc EXCEPT ![s] = "idle"] /\ UNCHANGED <<prey, life>>
        /\ job[s] = "none"
    BY DEF GotSlot, Orderly
  <1>2. InKill' = InKill /\ InReap' = InReap /\ InEnd' = InEnd
    BY <1>1 DEF InKill, InReap, InEnd, TypeOK
  <1>3. Reaping' = Reaping
    BY <1>1, <1>2 DEF Reaping
  <1>4. InSlot' = InSlot \ {s} /\ s \in InSlot
    BY <1>1 DEF InSlot, TypeOK
  <1>5. /\ IsFiniteSet(InSlot')
        /\ Cardinality(InSlot' \cap Transcoded) = Cardinality(InSlot \cap Transcoded) - Gpus(s)
    BY <1>4, Leaves DEF Permits, Finite
  <1>6. Gpus(s) \in Nat
    BY DEF Gpus
  <1>7. CASE job' = [job EXCEPT ![s] = "running"] /\ slots' = slots - 1 /\ gpus' = gpus
    <2>1. InJob' = InJob \cup {s} /\ s \notin InJob
      BY <1>1, <1>7 DEF InJob, TypeOK
    <2>2. /\ IsFiniteSet(InJob') /\ Cardinality(InJob') = Cardinality(InJob) + 1
          /\ Cardinality(InJob' \cap Transcoded) = Cardinality(InJob \cap Transcoded) + Gpus(s)
      BY <2>1, Joins DEF Permits, Finite
    <2>3. Finite'
      BY <1>2, <1>5, <2>2 DEF Permits, Finite
    <2>4. Active' = Active + 1
      BY <1>2, <2>2, Counts DEF Active, Permits
    <2>5. OnGpu' = OnGpu + 0
      BY <1>2, <1>3, <1>5, <1>6, <2>2, Counts DEF OnGpu, Permits
    <2>6. gpus' = gpus - 0
      BY <1>7 DEF TypeOK
    <2>7. QED
      BY <1>7, <2>3, <2>4, <2>5, <2>6, Taken
  <1>8. CASE job' = job /\ slots' = slots /\ gpus' = gpus + Gpus(s)
    <2>1. InJob' = InJob
      BY <1>8 DEF InJob
    <2>2. Finite'
      BY <1>2, <1>5, <2>1 DEF Permits, Finite
    <2>3. Active' = Active - 0
      BY <1>2, <2>1, Counts DEF Active, Permits
    <2>4. OnGpu' = OnGpu - Gpus(s)
      BY <1>2, <1>3, <1>5, <1>6, <2>1, Counts DEF OnGpu, Permits
    <2>5. slots' = slots + 0
      BY <1>8 DEF TypeOK
    <2>6. QED
      BY <1>6, <1>8, <2>2, <2>3, <2>4, <2>5, Returned
  <1>9. QED
    BY <1>7, <1>8 DEF GotSlot

LEMMA DropPermits ==
  ASSUME TypeOK, Permits, NEW s \in Session, Drop(s)
  PROVE  Permits'
  <1>1. /\ pc' = [pc EXCEPT ![s] = "idle"] /\ prey' = [prey EXCEPT ![s] = None]
        /\ Freed(s) /\ UNCHANGED <<job, life>>
    BY DEF Drop
  <1>2. InKill' = InKill \ {s} /\ InReap' = InReap \ {s} /\ InSlot' = InSlot \ {s}
    BY <1>1 DEF InKill, InReap, InSlot, TypeOK
  <1>3. InJob' = InJob /\ InEnd' = InEnd
    BY <1>1 DEF InJob, InEnd
  <1>4. s \notin InReap => Reaping' = Reaping
    BY <1>1, <1>2 DEF Reaping, InReap, TypeOK
  <1>5. Gpus(s) \in Nat /\ Gpus(prey[s]) \in Nat /\ slots \in Nat /\ gpus \in Nat
    BY DEF Gpus, TypeOK
  <1>6. CASE pc[s] = "killing"
    <2>1. s \in InKill /\ s \notin InReap /\ s \notin InSlot
      BY <1>6 DEF InKill, InReap, InSlot
    <2>2. InReap' = InReap /\ InSlot' = InSlot /\ Reaping' = Reaping
      BY <1>2, <1>4, <2>1
    <2>3. /\ IsFiniteSet(InKill') /\ Cardinality(InKill') = Cardinality(InKill) - 1
          /\ Cardinality(InKill' \cap Transcoded)
               = Cardinality(InKill \cap Transcoded) - Gpus(s)
      BY <1>2, <2>1, Leaves DEF Permits, Finite
    <2>4. Finite'
      BY <1>3, <2>2, <2>3 DEF Permits, Finite
    <2>5. Active' = Active - 1
      BY <1>3, <2>2, <2>3, Counts DEF Active, Permits
    <2>6. OnGpu' = OnGpu - Gpus(s)
      BY <1>3, <1>5, <2>2, <2>3, Counts DEF OnGpu, Permits
    <2>7. slots' = slots + 1 /\ gpus' = gpus + Gpus(s)
      BY <1>1, <1>6 DEF Freed
    <2>8. QED
      BY <1>5, <2>4, <2>5, <2>6, <2>7, Returned
  <1>7. CASE pc[s] = "reaping"
    <2>1. s \notin InKill /\ s \in InReap /\ s \notin InSlot
      BY <1>7 DEF InKill, InReap, InSlot
    <2>2. InKill' = InKill /\ InSlot' = InSlot
      BY <1>2, <2>1
    <2>3. /\ IsFiniteSet(InReap') /\ Cardinality(InReap') = Cardinality(InReap) - 1
          /\ Cardinality(Reaping') = Cardinality(Reaping) - Gpus(prey[s])
      BY <1>1, <1>2, <2>1, ReaperLeaves DEF Permits
    <2>4. Finite'
      BY <1>3, <2>2, <2>3 DEF Permits, Finite
    <2>5. Active' = Active - 1
      BY <1>3, <2>2, <2>3, Counts DEF Active, Permits
    <2>6. OnGpu' = OnGpu - Gpus(prey[s])
      BY <1>3, <1>5, <2>2, <2>3, Counts DEF OnGpu, Permits
    <2>7. slots' = slots + 1 /\ gpus' = gpus + Gpus(prey[s])
      BY <1>1, <1>7 DEF Freed
    <2>8. QED
      BY <1>5, <2>4, <2>5, <2>6, <2>7, Returned
  <1>8. CASE pc[s] = "slot"
    <2>1. s \notin InKill /\ s \notin InReap /\ s \in InSlot
      BY <1>8 DEF InKill, InReap, InSlot
    <2>2. InKill' = InKill /\ InReap' = InReap /\ Reaping' = Reaping
      BY <1>2, <1>4, <2>1
    <2>3. /\ IsFiniteSet(InSlot')
          /\ Cardinality(InSlot' \cap Transcoded)
               = Cardinality(InSlot \cap Transcoded) - Gpus(s)
      BY <1>2, <2>1, Leaves DEF Permits, Finite
    <2>4. Finite'
      BY <1>3, <2>2, <2>3 DEF Permits, Finite
    <2>5. Active' = Active - 0
      BY <1>3, <2>2, Counts DEF Active, Permits
    <2>6. OnGpu' = OnGpu - Gpus(s)
      BY <1>3, <1>5, <2>2, <2>3, Counts DEF OnGpu, Permits
    <2>7. slots' = slots + 0 /\ gpus' = gpus + Gpus(s)
      BY <1>1, <1>8 DEF Freed
    <2>8. QED
      BY <1>5, <2>4, <2>5, <2>6, <2>7, Returned
  <1>9. CASE pc[s] \in {"idle", "dropping", "gpu"}
    <2>1. s \notin InKill /\ s \notin InReap /\ s \notin InSlot
      BY <1>9 DEF InKill, InReap, InSlot
    <2>2. InKill' = InKill /\ InReap' = InReap /\ InSlot' = InSlot /\ Reaping' = Reaping
      BY <1>2, <1>4, <2>1
    <2>3. slots' = slots /\ gpus' = gpus
      BY <1>1, <1>5, <1>9 DEF Freed
    <2>4. QED
      BY <1>3, <2>2, <2>3 DEF Permits, Finite, PermitsConserved, Active, OnGpu
  <1>10. QED
    BY <1>6, <1>7, <1>8, <1>9 DEF TypeOK, Steps

LEMMA EndPermits ==
  ASSUME TypeOK, Permits, NEW s \in Session, End(s)
  PROVE  Permits'
  <1>1. InKill' = InKill /\ InReap' = InReap /\ InSlot' = InSlot /\ Reaping' = Reaping
    BY DEF End, InKill, InReap, InSlot, Reaping
  <1>2. InJob' = InJob \ {s}
    BY DEF End, InJob, TypeOK
  <1>3. CASE s \in InJob
    <2>1. InEnd' = InEnd \cup {s} /\ s \notin InEnd
      BY <1>3 DEF End, InEnd, TypeOK
    <2>2. /\ IsFiniteSet(InJob') /\ Cardinality(InJob') = Cardinality(InJob) - 1
          /\ Cardinality(InJob' \cap Transcoded) = Cardinality(InJob \cap Transcoded) - Gpus(s)
      BY <1>2, <1>3, Leaves DEF Permits, Finite
    <2>3. /\ IsFiniteSet(InEnd') /\ Cardinality(InEnd') = Cardinality(InEnd) + 1
          /\ Cardinality(InEnd' \cap Transcoded) = Cardinality(InEnd \cap Transcoded) + Gpus(s)
      BY <2>1, Joins DEF Permits, Finite
    <2>4. Finite'
      BY <1>1, <2>2, <2>3 DEF Permits, Finite
    <2>5. Gpus(s) \in Nat
      BY DEF Gpus
    <2>6. Active' = Active
      BY <1>1, <2>2, <2>3, Counts DEF Active, Permits
    <2>7. OnGpu' = OnGpu
      BY <1>1, <2>2, <2>3, <2>5, Counts DEF OnGpu, Permits
    <2>8. QED
      BY <2>4, <2>6, <2>7 DEF End, Permits, PermitsConserved
  <1>4. CASE s \notin InJob
    <2>1. InJob' = InJob
      BY <1>2, <1>4
    <2>2. InEnd' = InEnd
      BY <1>4 DEF End, InEnd, TypeOK
    <2>3. QED
      BY <1>1, <2>1, <2>2 DEF End, Permits, Finite, PermitsConserved, Active, OnGpu
  <1>5. QED
    BY <1>3, <1>4

LEMMA EndStoppedPermits ==
  ASSUME TypeOK, Permits, NEW s \in Session, EndStopped(s)
  PROVE  Permits'
  <1>1. /\ InKill' = InKill /\ InReap' = InReap /\ InSlot' = InSlot /\ Reaping' = Reaping
        /\ InJob' = InJob
    BY DEF EndStopped, InKill, InReap, InSlot, Reaping, InJob
  <1>2. InEnd' = InEnd \ {s} /\ s \in InEnd
    BY DEF EndStopped, InEnd, TypeOK
  <1>3. /\ IsFiniteSet(InEnd') /\ Cardinality(InEnd') = Cardinality(InEnd) - 1
        /\ Cardinality(InEnd' \cap Transcoded) = Cardinality(InEnd \cap Transcoded) - Gpus(s)
    BY <1>2, Leaves DEF Permits, Finite
  <1>4. Finite'
    BY <1>1, <1>3 DEF Permits, Finite
  <1>5. Gpus(s) \in Nat
    BY DEF Gpus
  <1>6. Active' = Active - 1
    BY <1>1, <1>3, Counts DEF Active, Permits
  <1>7. OnGpu' = OnGpu - Gpus(s)
    BY <1>1, <1>3, <1>5, Counts DEF OnGpu, Permits
  <1>8. QED
    BY <1>4, <1>5, <1>6, <1>7, Returned DEF EndStopped, GiveBack

LEMMA NextPermits == TypeOK /\ Orderly /\ Permits /\ [Next]_vars => Permits'
  <1> SUFFICES ASSUME TypeOK, Orderly, Permits, [Next]_vars PROVE Permits'
    OBVIOUS
  <1>1. CASE Tick \/ UNCHANGED vars
    BY <1>1, SamePermits DEF Tick, vars, InJob
  <1>2. ASSUME NEW s \in Session, Step(s) PROVE Permits'
    <2>1. CASE Exit(s) \/ Produce(s) \/ Park(s) \/ Ask(s)
      <3>1. InJob' = InJob
        BY <2>1 DEF Exit, Produce, Park, Ask, InJob, TypeOK
      <3>2. QED
        BY <2>1, <3>1, SamePermits DEF Exit, Produce, Park, Ask
    <2>2. CASE \/ \E ahead \in BOOLEAN : Supervise(s, ahead)
               \/ \E ahead, done \in BOOLEAN : Poll(s, ahead, done)
      BY <2>2, GatePermits DEF Supervise, Poll
    <2>3. QED
      BY <1>2, <2>1, <2>2, StartPermits, OldStoppedPermits, ReapedPermits, GotGpuPermits,
         GotSlotPermits, DropPermits, EndPermits, EndStoppedPermits DEF Step
  <1>3. QED
    BY <1>1, <1>2 DEF Next

LEMMA InitPermits == Init => Permits
  <1> SUFFICES ASSUME Init PROVE Permits
    OBVIOUS
  <1>1. /\ InJob = {} /\ InKill = {} /\ InReap = {} /\ InEnd = {} /\ InSlot = {}
        /\ Reaping = {}
    BY DEF Init, InJob, InKill, InReap, InEnd, InSlot, Reaping
  <1>2. {} \cap Transcoded = {}
    OBVIOUS
  <1>3. Finite /\ Active = 0 /\ OnGpu = 0
    BY <1>1, <1>2, FS_EmptySet DEF Finite, Active, OnGpu
  <1>4. QED
    BY <1>3 DEF Init, Permits, PermitsConserved

\* No producer or GPU permit is lost or made: the free ones and those that are held
\* are always MAX_ACTIVE_REMUXES and MAX_TRANSCODES.
THEOREM PermitsHold == Spec => []PermitsConserved
  <1>1. Permits => PermitsConserved
    BY DEF Permits
  <1>2. QED
    BY <1>1, InitPermits, NextPermits, TypeCorrect, AlwaysOrderly, PTL DEF Spec
-----------------------------------------------------------------------------
(* Who is watched *)

\* A request that waits was last seen WaitMax ago at most, since time waits for its deadline.
Heard == \A s \in Session : open[s] => age[s] <= WaitMax

LEMMA SameHeard == Heard /\ UNCHANGED <<open, age>> => Heard'
  BY DEF Heard

LEMMA StepHeard ==
  ASSUME TypeOK, Heard, NEW s \in Session, Step(s)
  PROVE  Heard'
  <1>1. CASE Ask(s)
    BY <1>1 DEF Ask, Heard, TypeOK
  <1>2. ASSUME NEW ahead \in BOOLEAN, NEW done \in BOOLEAN, Poll(s, ahead, done) PROVE Heard'
    <2>1. /\ open[s] /\ age' = [age EXCEPT ![s] = 0]
          /\ \A x \in Session : open'[x] => open[x]
      BY <1>2 DEF Poll, TypeOK
    <2>2. QED
      BY <2>1 DEF Heard, TypeOK
  <1>3. CASE Drop(s)
    <2>1. UNCHANGED age /\ \A x \in Session : open'[x] => open[x]
      BY <1>3 DEF Drop, TypeOK
    <2>2. QED
      BY <2>1 DEF Heard
  <1>4. CASE UNCHANGED <<open, age>>
    BY <1>4, SameHeard
  <1>5. QED
    BY <1>1, <1>2, <1>3, <1>4
    DEF Step, Exit, Produce, Park, StartProducer, OldStopped, Reaped, GotGpu, End, EndStopped,
        Supervise, GotSlot

LEMMA TickHeard == TypeOK /\ Heard /\ Tick => Heard'
  <1> SUFFICES ASSUME TypeOK, Heard, Tick, NEW s \in Session, open'[s] PROVE age'[s] <= WaitMax
    BY DEF Heard
  <1>1. open[s] /\ age'[s] = LastSeen(s) /\ age[s] \in 0..MaxAge /\ MaxAge \in Nat
    BY DEF Tick, TypeOK, MaxAge
  <1>2. CASE pc[s] = "idle"
    BY <1>1, <1>2 DEF LastSeen
  <1>3. CASE pc[s] # "idle"
    <2>1. age[s] < WaitMax
      BY <1>1, <1>3 DEF Tick
    <2>2. QED
      BY <1>1, <1>3, <2>1 DEF LastSeen, MaxAge
  <1>4. QED
    BY <1>2, <1>3

LEMMA NextHeard == TypeOK /\ Heard /\ [Next]_vars => Heard'
  BY StepHeard, TickHeard, SameHeard DEF Next, vars

LEMMA InitHeard == Init => Heard
  BY DEF Init, Heard

\* What start_producer does with its own job, before it contends for a permit or after.
LEMMA StartTakes ==
  ASSUME TypeOK, NEW s \in Session, StartProducer(s)
  PROVE  \/ \E where \in {"killing", "dropping"} : pc' = [pc EXCEPT ![s] = where]
         \/ \E jobs, free : Contend(s, jobs, free)
  <1>1. CASE job[s] = "running"
    BY <1>1 DEF StartProducer
  <1>2. CASE job[s] = "paused"
    BY <1>2 DEF StartProducer
  <1>3. CASE job[s] = "gone"
    <2>1. Contend(s, [job EXCEPT ![s] = "none"], slots + 1)
      BY <1>3 DEF StartProducer
    <2>2. QED
      BY <2>1
  <1>4. CASE job[s] = "none"
    <2>1. Contend(s, job, slots)
      BY <1>4 DEF StartProducer
    <2>2. QED
      BY <2>1
  <1>5. QED
    BY <1>1, <1>2, <1>3, <1>4 DEF TypeOK, Jobs

\* Who begins to reap, reaps a session that was silent for IdleAfter.
LEMMA ReapsTheQuiet ==
  ASSUME TypeOK, [Next]_vars, NEW s \in Session, NEW v \in Session,
         pc[s] # "reaping", pc'[s] = "reaping", prey'[s] = v
  PROVE  age[v] >= IdleAfter
  <1>1. ASSUME NEW jobs, NEW free, Contend(s, jobs, free) PROVE age[v] >= IdleAfter
    <2>1. ASSUME Queue(s) PROVE FALSE
      BY <2>1 DEF Queue, TypeOK
    <2>2. PICK w \in Victims(s, jobs) : prey' = [prey EXCEPT ![s] = w]
      BY <1>1, <2>1 DEF Contend
    <2>3. w = v
      BY <2>2 DEF TypeOK
    <2>4. QED
      BY <2>2, <2>3 DEF Victims
  <1>2. ASSUME NEW x \in Session, Step(x) PROVE age[v] >= IdleAfter
    <2>1. \A y \in Session : y # x => pc'[y] = pc[y]
      <3>1. ASSUME NEW jobs, NEW free, Contend(x, jobs, free) PROVE \A y \in Session : y # x => pc'[y] = pc[y]
        BY <3>1 DEF Contend, Queue, TypeOK
      <3>2. CASE StartProducer(x)
        <4>1. ASSUME NEW where, pc' = [pc EXCEPT ![x] = where] PROVE \A y \in Session : y # x => pc'[y] = pc[y]
          BY <4>1 DEF TypeOK
        <4>2. QED
          BY <3>1, <3>2, <4>1, StartTakes
      <3>3. CASE OldStopped(x)
        BY <3>1, <3>3 DEF OldStopped
      <3>4. CASE Reaped(x)
        BY <3>4 DEF Reaped, Queue, TypeOK
      <3>5. CASE UNCHANGED pc \/ \E where : pc' = [pc EXCEPT ![x] = where]
        BY <3>5 DEF TypeOK
      <3>6. QED
        BY <1>2, <3>2, <3>3, <3>4, <3>5
        DEF Step, Exit, Produce, Park, Ask, GotGpu, Drop, End, EndStopped, Supervise, Poll, GotSlot
    <2>2. x = s
      BY <2>1
    <2>3. CASE StartProducer(s)
      <3>1. ASSUME NEW where, where # "reaping", pc' = [pc EXCEPT ![s] = where] PROVE FALSE
        BY <3>1 DEF TypeOK
      <3>2. QED
        BY <1>1, <2>3, <3>1, StartTakes
    <2>4. CASE OldStopped(s)
      BY <1>1, <2>4 DEF OldStopped
    <2>5. CASE Reaped(s)
      BY <2>5 DEF Reaped
    <2>6. CASE UNCHANGED pc \/ \E where \in {"idle", "slot"} : pc' = [pc EXCEPT ![s] = where]
      BY <2>6 DEF TypeOK
    <2>7. QED
      BY <1>2, <2>2, <2>3, <2>4, <2>5, <2>6
      DEF Step, Exit, Produce, Park, Ask, GotGpu, Drop, End, EndStopped, Supervise, Poll, GotSlot
  <1>3. QED
    BY <1>2 DEF Next, Tick, vars

\* A session with a request waiting keeps its producer, whoever contends for it, where
\* PRODUCER_IDLE_SECS is more than SEGMENT_WAIT: for any sessions, permits and such times.
THEOREM WatchedKeeps ==
  ASSUME IdleAfter > WaitMax
  PROVE  Spec => WatchedKeepsProducer
  <1> DEFINE Keeps == \A s, v \in Session : pc[s] # "reaping" /\ pc'[s] = "reaping" /\ prey'[s] = v => ~open[v]
  <1>1. TypeOK /\ Heard /\ [Next]_vars => [Keeps]_vars
    <2> SUFFICES ASSUME TypeOK, Heard, [Next]_vars,
                        NEW s \in Session, NEW v \in Session,
                        pc[s] # "reaping", pc'[s] = "reaping", prey'[s] = v
                 PROVE  ~open[v]
      OBVIOUS
    <2>1. age[v] >= IdleAfter
      BY ReapsTheQuiet
    <2>2. age[v] \in Nat
      BY DEF TypeOK
    <2>3. QED
      BY <2>1, <2>2 DEF Heard
  <1>2. QED
    BY <1>1, InitHeard, NextHeard, TypeCorrect, PTL DEF Spec, WatchedKeepsProducer
=============================================================================
