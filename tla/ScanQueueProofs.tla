---------------------------- MODULE ScanQueueProofs ----------------------------
(* For any season, limits and requests: the queue and what is held are exact,     *)
(* and nothing found is lost.                                                    *)
EXTENDS ScanQueue, FiniteSetTheorems, SequenceTheorems, TLAPS

USE LastAssumption, EpisodeAssumption, LimitsAssumption

\* Who is scanned, and with whom, at each of the worker's steps.
Place ==
  /\ at \in Steps
  /\ at \in {"look", "waiting"} => ep = None
  /\ at \notin {"look", "waiting"} => ep \in 1..Last
  /\ at \in {"taken", "list", "decode"} => sib = None
  /\ at \in {"listSib", "decodeSib", "saveSib"} => sib \in Episode
  /\ at \in {"match", "saveEp"} => sib \in Episode \cup {None}
  /\ sib # None => sib # ep

\* The season's episodes have files, and each waits at one place of the queue.
Waiting ==
  /\ queue \in Seq(1..Last) /\ asked \subseteq 1..Last
  /\ \A i, j \in 1..Len(queue) : queue[i] = queue[j] => i = j
  /\ Len(queue) <= QueueMax
  /\ installs \subseteq Members(queue)

Held ==
  running = (IF ep = None THEN {} ELSE {ep})
            \cup (IF at \in {"listSib", "decodeSib", "saveSib"} THEN {sib} ELSE {})

Filed == DOMAIN stored = Episode

Inv == Place /\ Waiting /\ Held /\ Filed

-----------------------------------------------------------------------------
(* The queue *)

LEMMA Emptied ==
  ASSUME Waiting, queue' = <<>>, installs' = {}, UNCHANGED asked PROVE Waiting'
BY DEF Waiting, Members

LEMMA Queued ==
  ASSUME Waiting, NEW e \in 1..Last, Enqueue(e) PROVE Waiting'
<1>1. CASE UNCHANGED <<queue, installs>>
  BY <1>1 DEF Waiting, Enqueue, Members
<1>2. CASE Room(e) /\ queue' = Append(queue, e) /\ installs' = installs \cup ({e} \cap Own)
  <2>1. /\ queue' \in Seq(1..Last) /\ Len(queue') = Len(queue) + 1 /\ queue'[Len(queue) + 1] = e
        /\ \A k \in 1..Len(queue) : queue'[k] = queue[k]
    BY <1>2 DEF Waiting
  <2>2. Len(queue) \in Nat
    BY DEF Waiting
  <2>3. \A k \in 1..Len(queue) : queue[k] # e
    BY <1>2 DEF Room, Members
  <2>4. \A i, j \in 1..Len(queue') : queue'[i] = queue'[j] => i = j
    <3> SUFFICES ASSUME NEW i \in 1..Len(queue'), NEW j \in 1..Len(queue'), queue'[i] = queue'[j]
                 PROVE  i = j
      OBVIOUS
    <3>1. CASE i \in 1..Len(queue) /\ j \in 1..Len(queue)
      <4>1. queue[i] = queue[j]
        BY <2>1, <3>1
      <4> QED BY <3>1, <4>1 DEF Waiting
    <3>2. CASE i \in 1..Len(queue) /\ j = Len(queue) + 1
      <4>1. queue[i] = e
        BY <2>1, <3>2
      <4> QED BY <2>3, <3>2, <4>1
    <3>3. CASE i = Len(queue) + 1 /\ j \in 1..Len(queue)
      <4>1. queue[j] = e
        BY <2>1, <3>3
      <4> QED BY <2>3, <3>3, <4>1
    <3>4. CASE i = Len(queue) + 1 /\ j = Len(queue) + 1
      BY <3>4
    <3> QED BY <2>1, <2>2, <3>1, <3>2, <3>3, <3>4
  <2>5. installs' \subseteq Members(queue')
    <3>1. Members(queue) \subseteq Members(queue')
      BY <2>1, <2>2 DEF Members
    <3>2. e \in Members(queue')
      BY <2>1, <2>2 DEF Members
    <3> QED BY <1>2, <3>1, <3>2 DEF Waiting
  <2>6. Len(queue') <= QueueMax
    BY <1>2, <2>1, <2>2 DEF Room
  <2>7. asked' \subseteq 1..Last
    BY DEF Enqueue, Waiting
  <2> QED BY <2>1, <2>4, <2>5, <2>6, <2>7 DEF Waiting
<1> QED BY <1>1, <1>2 DEF Enqueue

LEMMA Taken ==
  ASSUME Waiting, queue # <<>>, queue' = Tail(queue), installs' = installs \ {Head(queue)}, UNCHANGED asked
  PROVE  Waiting' /\ Head(queue) \in 1..Last
<1>1. /\ Len(queue) \in Nat /\ Len(queue) >= 1 /\ Head(queue) = queue[1] /\ Head(queue) \in 1..Last
      /\ queue' \in Seq(1..Last) /\ Len(queue') = Len(queue) - 1
      /\ \A k \in 1..Len(queue') : queue'[k] = queue[k + 1]
  BY DEF Waiting
<1>2. \A i, j \in 1..Len(queue') : queue'[i] = queue'[j] => i = j
  BY <1>1 DEF Waiting
<1>3. ASSUME NEW x \in installs' PROVE x \in Members(queue')
  <2>1. PICK k \in 1..Len(queue) : x = queue[k]
    BY <1>3 DEF Waiting, Members
  <2>2. k # 1
    BY <1>1, <1>3, <2>1
  <2>3. k - 1 \in 1..Len(queue') /\ queue'[k - 1] = x
    BY <1>1, <2>1, <2>2
  <2> QED BY <2>3 DEF Members
<1> QED BY <1>1, <1>2, <1>3 DEF Waiting

\* A budget is spent, or was: the queue stays, or goes.
LEMMA SpendWaits == Waiting /\ Spend /\ UNCHANGED asked => Waiting'
<1> SUFFICES ASSUME Waiting, Spend, UNCHANGED asked PROVE Waiting'
  OBVIOUS
<1>1. CASE Spent
  BY <1>1, Emptied DEF Spend
<1>2. CASE ~Spent
  BY <1>2 DEF Spend, Waiting, Members
<1> QED BY <1>1, <1>2

-----------------------------------------------------------------------------
(* The worker *)

LEMMA InvNext == Inv /\ [Next]_vars => Inv'
<1> SUFFICES ASSUME Inv, [Next]_vars PROVE Inv'
  OBVIOUS
<1> USE DEF Inv
<1>a. ASSUME UNCHANGED <<queue, installs, asked>> PROVE Waiting'
  BY <1>a DEF Waiting, Members
<1>b. ASSUME UNCHANGED <<running, worker>> PROVE Place' /\ Held'
  BY <1>b DEF Place, Held, worker, Episode
<1>c. ASSUME UNCHANGED stored PROVE Filed'
  BY <1>c DEF Filed, Episode
<1>d. ASSUME Worker(Idle), running' = {} PROVE Place' /\ Held'
  BY <1>d DEF Place, Held, Worker, Idle, Steps, None
<1>e. None \notin Episode /\ 1..Last \subseteq Episode
  BY DEF None, Episode
<1>1. ASSUME NEW e \in 1..Last, Ask(e) PROVE Inv'
  <2>1. Waiting'
    BY <1>1 DEF Ask, Waiting, Members
  <2> QED BY <1>1, <2>1, <1>b, <1>c DEF Ask, disk
<1>2. ASSUME NEW e \in 1..Last, Enqueue(e) PROVE Inv'
  BY <1>2, Queued, <1>b, <1>c DEF Enqueue, disk
<1>3. CASE NextEpisode
  <2>0. running = {}
    BY <1>3 DEF NextEpisode, Place, Held
  <2>1. CASE queue = <<>>
    <3>1. Place' /\ Held'
      BY <1>3, <2>0, <2>1 DEF NextEpisode, Goes, Place, Held, Steps, None
    <3> QED BY <1>3, <2>1, <3>1, <1>a, <1>c DEF NextEpisode, disk
  <2>2. CASE queue # <<>>
    <3>1. Waiting' /\ Head(queue) \in 1..Last
      BY <1>3, <2>2, Taken DEF NextEpisode
    <3>2. at' = "taken" /\ ep' = Head(queue) /\ sib' = None /\ running' = {Head(queue)}
      BY <1>3, <2>0, <2>2 DEF NextEpisode, Worker, Idle
    <3>3. Place' /\ Held'
      BY <3>1, <3>2, <1>e DEF Place, Held, Steps
    <3> QED BY <1>3, <3>1, <3>3, <1>c DEF NextEpisode, disk
  <2> QED BY <2>1, <2>2
<1>f. ASSUME at \notin {"look", "waiting", "listSib", "decodeSib", "saveSib"} PROVE running = {ep}
  BY <1>f, <1>e DEF Held, Place
<1>g. ASSUME at \in {"listSib", "decodeSib", "saveSib"}
      PROVE /\ running = {ep, sib} /\ sib # ep /\ ep \in 1..Last /\ sib \in Episode
            /\ Released = {ep}
  BY <1>g, <1>e DEF Held, Place, Released
<1>h. ASSUME at \notin {"look", "waiting", "listSib", "decodeSib", "saveSib"}, Done({ep}) PROVE Place' /\ Held'
  BY <1>f, <1>h, <1>d DEF Done
<1>4. CASE Start
  <2>1. Place' /\ Held'
    <3>1. CASE Goes("list") /\ UNCHANGED running
      BY <1>4, <3>1 DEF Start, Goes, Place, Held, Steps
    <3> QED BY <1>4, <3>1, <1>h DEF Start
  <2> QED BY <1>4, <2>1, <1>a, <1>c DEF Start, disk
<1>5. ASSUME NEW listed \in BOOLEAN, ListEp(listed) PROVE Inv'
  <2>1. Place' /\ Held'
    <3>1. CASE Goes("decode") /\ UNCHANGED running
      BY <1>5, <3>1 DEF ListEp, Goes, Place, Held, Steps
    <3> QED BY <1>5, <3>1, <1>h DEF ListEp
  <2>2. Waiting'
    BY <1>5, SpendWaits, <1>a DEF ListEp
  <2> QED BY <1>5, <2>1, <2>2, <1>c DEF ListEp, disk
<1>6. CASE FailEp
  BY <1>6, <1>h, <1>a, <1>c DEF FailEp, disk
<1>7. CASE DecodedEp
  <2>1. running = {ep} /\ ep \in 1..Last
    BY <1>7, <1>f DEF DecodedEp, Place
  <2>2. Place' /\ Held'
    <3>1. CASE Goes("match") /\ UNCHANGED running
      BY <1>7, <2>1, <3>1 DEF DecodedEp, Goes, Place, Held, Steps
    <3>2. CASE /\ Worker([Idle EXCEPT !.at = "listSib", !.ep = ep, !.sib = ep + 1])
               /\ running' = running \cup {ep + 1}
      <4>1. at' = "listSib" /\ ep' = ep /\ sib' = ep + 1 /\ ep + 1 \in Episode /\ ep + 1 # ep
        BY <2>1, <3>2 DEF Worker, Idle, Episode
      <4> QED BY <2>1, <3>2, <4>1, <1>e DEF Place, Held, Steps
    <3> QED BY <1>7, <3>1, <3>2 DEF DecodedEp
  <2> QED BY <1>7, <2>2, <1>a, <1>c DEF DecodedEp, disk
<1>i. ASSUME at \in {"listSib", "decodeSib"}, Alone, running' = Released PROVE Place' /\ Held'
  <2>1. at' = "match" /\ ep' = ep /\ sib' = None
    BY <1>i DEF Alone, Worker, Idle
  <2> QED BY <1>i, <2>1, <1>g, <1>e DEF Place, Held, Steps
<1>8. ASSUME NEW listed \in BOOLEAN, ListSib(listed) PROVE Inv'
  <2>1. Waiting'
    BY <1>8, SpendWaits, <1>a DEF ListSib
  <2>2. Place' /\ Held'
    <3>0. at = "listSib"
      BY <1>8 DEF ListSib
    <3>1. CASE Goes("decodeSib") /\ UNCHANGED running
      BY <3>0, <3>1, <1>g DEF Goes, Place, Held, Steps
    <3>2. CASE /\ sib > ep /\ ep > 1
               /\ Worker([Idle EXCEPT !.at = "listSib", !.ep = ep, !.sib = ep - 1])
               /\ running' = Released \cup {ep - 1}
      <4>1. at' = "listSib" /\ ep' = ep /\ sib' = ep - 1 /\ ep - 1 \in Episode /\ ep - 1 # ep
        BY <3>0, <3>2, <1>g DEF Worker, Idle, Episode
      <4> QED BY <3>0, <3>2, <4>1, <1>g, <1>e DEF Place, Held, Steps
    <3>3. CASE Alone /\ running' = Released
      BY <3>0, <3>3, <1>i
    <3> QED BY <1>8, <3>1, <3>2, <3>3 DEF ListSib
  <2> QED BY <1>8, <2>1, <2>2, <1>c DEF ListSib, disk
<1>9. CASE FailSib
  BY <1>9, <1>i, <1>a, <1>c DEF FailSib, disk
<1>10. CASE DecodedSib
  <2>1. Place' /\ Held'
    BY <1>10, <1>g, <1>e DEF DecodedSib, Goes, Place, Held, Steps
  <2> QED BY <1>10, <2>1, <1>a, <1>c DEF DecodedSib, disk
<1>11. ASSUME NEW f, NEW g, NEW written \in BOOLEAN, Match(f, g, written) PROVE Inv'
  <2>1. Place' /\ Held'
    BY <1>11, <1>f DEF Match, memory, Place, Held, Steps
  <2> QED BY <1>11, <2>1, <1>a, <1>c DEF Match, memory
<1>12. ASSUME NEW written \in BOOLEAN, SaveEp(written) PROVE Inv'
  <2>1. Filed'
    BY <1>12 DEF SaveEp, Filed, Episode
  <2>2. Place' /\ Held'
    <3>1. CASE sib # None /\ running' = running \cup {sib} /\ Goes("saveSib")
      BY <1>12, <3>1, <1>f, <1>e DEF SaveEp, Goes, Place, Held, Steps
    <3> QED BY <1>12, <3>1, <1>h DEF SaveEp
  <2> QED BY <1>12, <2>1, <2>2, <1>a DEF SaveEp
<1>13. ASSUME NEW written \in BOOLEAN, SaveSib(written) PROVE Inv'
  <2>1. Filed'
    BY <1>13 DEF SaveSib, Filed, Episode
  <2>2. Place' /\ Held'
    BY <1>13, <1>g, <1>d DEF SaveSib, Done
  <2> QED BY <1>13, <2>1, <2>2, <1>a DEF SaveSib
<1>14. CASE Transcode \/ NewDay
  BY <1>14, <1>a, <1>b, <1>c DEF Transcode, NewDay, memory, disk
<1>15. CASE Restart
  <2>1. Waiting'
    BY <1>15 DEF Restart, Waiting, Members
  <2> QED BY <1>15, <2>1, <1>c, <1>d DEF Restart, disk
<1>16. CASE UNCHANGED vars
  BY <1>16, <1>a, <1>b, <1>c DEF vars, memory, disk
<1> QED BY <1>1, <1>2, <1>3, <1>4, <1>5, <1>6, <1>7, <1>8, <1>9, <1>10, <1>11, <1>12, <1>13, <1>14, <1>15, <1>16
        DEF Next, Work

LEMMA InvInit == Init => Inv
BY DEF Init, Inv, Place, Waiting, Held, Filed, Members, Steps, None

\* As many episodes wait as there are places, where none has two.
LEMMA AtOnePlaceEach == Waiting => Cardinality(Members(queue)) = Len(queue)
<1> SUFFICES ASSUME Waiting PROVE Cardinality(Members(queue)) = Len(queue)
  OBVIOUS
<1> DEFINE n == Len(queue)
           f == [k \in 1..n |-> queue[k]]
<1>1. n \in Nat /\ \A i, j \in 1..n : queue[i] = queue[j] => i = j
  BY DEF Waiting
<1>2. f \in Bijection(1..n, Members(queue))
  <2>1. f \in [1..n -> Members(queue)]
    BY DEF Members
  <2>2. \A i, j \in 1..n : f[i] = f[j] => i = j
    BY <1>1
  <2>3. \A b \in Members(queue) : \E i \in 1..n : f[i] = b
    BY DEF Members
  <2> HIDE DEF f, n
  <2> QED BY <2>1, <2>2, <2>3 DEF Bijection, Injection, IsInjective, Surjection
<1> HIDE DEF f, n
<1>3. IsFiniteSet(1..n) /\ Cardinality(1..n) = n
  BY <1>1, FS_Interval
<1>4. ExistsBijection(1..n, Members(queue))
  BY <1>2 DEF ExistsBijection
<1>5. Cardinality(Members(queue)) = n
  BY <1>3, <1>4, FS_Bijection
<1> QED BY <1>5 DEF n

\* In any season, whatever fails and wherever the server stops, no episode waits twice, no
\* install is kept beyond the wait, and only what is scanned, or stored beside it, is "running".
THEOREM QueueHolds == Spec => []QueueExact
<1>1. Inv => QueueExact
  <2> SUFFICES ASSUME Inv PROVE QueueExact
    OBVIOUS
  <2>1. Cardinality(Members(queue)) = Len(queue)
    BY AtOnePlaceEach DEF Inv
  <2> QED BY <2>1 DEF Inv, Waiting, Held, QueueExact
<1> QED BY <1>1, InvInit, InvNext, PTL DEF Spec

\* No scan, of the episode or of its neighbour, takes back what an earlier one found.
THEOREM NothingLost == Spec => FoundIsKept
<1> DEFINE Kept == \A e \in Episode : stored[e] \ Nothing \subseteq stored'[e]
<1>1. ASSUME Inv, [Next]_vars PROVE Kept
  <2>1. CASE UNCHANGED stored
    BY <2>1
  <2>2. ASSUME NEW e \in Episode, NEW new, stored' = [stored EXCEPT ![e] = Merge(stored[e], new)] PROVE Kept
    BY <1>1, <2>2 DEF Inv, Filed, Merge
  <2>3. ASSUME NEW written \in BOOLEAN, SaveEp(written) PROVE Kept
    <3>1. ep \in Episode
      BY <1>1, <2>3 DEF SaveEp, Inv, Place, Episode
    <3> QED BY <2>1, <2>2, <2>3, <3>1 DEF SaveEp
  <2>4. ASSUME NEW written \in BOOLEAN, SaveSib(written) PROVE Kept
    <3>1. sib \in Episode
      BY <1>1, <2>4 DEF SaveSib, Inv, Place
    <3> QED BY <2>1, <2>2, <2>4, <3>1 DEF SaveSib
  <2> HIDE DEF Kept
  <2> QED BY <1>1, <2>1, <2>3, <2>4
          DEF Next, Work, Ask, Enqueue, NextEpisode, Start, FailEp, DecodedEp, FailSib, DecodedSib, ListEp, ListSib,
              Match, Transcode, NewDay, Restart, disk, vars
<1>2. [Kept]_vars <=> [\A e \in Episode : stored[e] \ Nothing \subseteq stored'[e]]_vars
  OBVIOUS
<1> HIDE DEF Kept
<1> QED BY <1>1, <1>2, InvInit, InvNext, PTL DEF Spec, FoundIsKept
===============================================================================
