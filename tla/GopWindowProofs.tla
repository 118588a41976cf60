---------------------------- MODULE GopWindowProofs ----------------------------
(* For any film, requests and limits: a session's bytes are those of its GOPs, and  *)
(* requests delete a running run's from the front only.                          *)
EXTENDS GopWindow, FiniteSetTheorems, WellFoundedInduction, TLAPS

USE CutAssumption, BoundsAssumption

Fields == {"job", "jobs", "gops", "finished", "want", "ended", "bytes", "failures", "reresolved"}
JobFields == {"id", "start", "next", "stopped", "exit"}

\* What the run of v has written, and read as far as ffmpeg is, is there from its oldest GOP on;
\* runs are numbered, so that a new one's GOPs are none of those there are.
Sound(v, at) ==
  /\ DOMAIN v = Fields /\ v.jobs \in Nat
  /\ v.gops \subseteq [job : 1..v.jobs, pos : Nat]
  /\ IsFiniteSet(v.gops) /\ v.bytes = Cardinality(v.gops)
  /\ v.job # None =>
       /\ DOMAIN v.job = JobFields
       /\ v.job.id \in 1..v.jobs
       /\ v.job.next \in Nat /\ v.job.next <= at
       /\ \A g \in v.gops : g.job = v.job.id =>
            /\ g.pos < v.job.next
            /\ \A p \in g.pos..(v.job.next - 1) : [job |-> g.job, pos |-> p] \in v.gops

Requested ==
  /\ DOMAIN req = Req
  /\ \A r \in Req : DOMAIN req[r] = {"at", "seg", "chain"} /\ req[r].seg \in Segs

Inv ==
  /\ Sound(i, run.at) /\ Requested
  /\ DOMAIN run = {"at", "exit"} /\ run.at \in Nat

-----------------------------------------------------------------------------
(* The film *)

LEMMA CutIsNat == \A n \in Segs : Start(n) \in Nat /\ End(n) \in Nat
<1> SUFFICES ASSUME NEW n \in Segs PROVE Start(n) \in Nat /\ End(n) \in Nat
  OBVIOUS
<1>1. n + 1 \in 1..Len(Cut) /\ n + 2 \in 1..Len(Cut)
  BY DEF Segs
<1> QED BY <1>1 DEF Start, End

\* A seek lands on a keyframe of the film: of the segments that will do there is a last.
LEMMA RestartIsNat == \A n \in Segs : RestartPoint(n) \in Nat
<1> SUFFICES ASSUME NEW n \in Segs PROVE RestartPoint(n) \in Nat
  OBVIOUS
<1> DEFINE ok == {m \in 1..n : m \notin TooClose}
           last == CHOOSE m \in ok : \A k \in ok : k <= m
           back == {n - m : m \in ok}
<1>0. n \in Nat /\ \A m \in ok : m \in Nat /\ m <= n /\ m \in Segs
  BY DEF Segs
<1>1. CASE ok = {}
  BY <1>1 DEF RestartPoint
<1>2. CASE ok # {}
  <2>1. back \in SUBSET Nat /\ back # {}
    BY <1>0, <1>2
  <2>2. PICK s \in back : \A t \in back : s <= t
    <3> DEFINE less == OpToRel(<, Nat)
    <3>1. PICK s \in back : \A t \in back : ~(<<t, s>> \in less)
      <4> HIDE DEF back, less
      <4>1. IsWellFoundedOn(less, Nat)
        BY NatLessThanWellFounded DEF less
      <4> QED BY <2>1, <4>1, WFMin
    <3>2. ASSUME NEW t \in back PROVE s <= t
      <4>1. s \in Nat /\ t \in Nat
        BY <2>1, <3>1, <3>2
      <4>2. t < s => <<t, s>> \in less
        BY <4>1 DEF OpToRel
      <4>3. ~(<<t, s>> \in less)
        BY <3>1, <3>2
      <4> HIDE DEF less, back
      <4> QED BY <4>1, <4>2, <4>3
    <3> QED BY <3>1, <3>2
  <2>3. PICK m \in ok : s = n - m
    BY <2>2
  <2>4. \A k \in ok : k <= m
    <3> SUFFICES ASSUME NEW k \in ok PROVE k <= m
      OBVIOUS
    <3>1. n - m <= n - k
      BY <2>2, <2>3
    <3> QED BY <3>1, <1>0
  <2>5. last \in ok
    <3> HIDE DEF ok
    <3> QED BY <2>4
  <2>6. Start(last) \in Nat
    BY <1>0, <2>5, CutIsNat
  <2> QED BY <1>2, <2>6 DEF RestartPoint
<1> QED BY <1>1, <1>2

-----------------------------------------------------------------------------
(* What refresh, gate and prune do to a session *)

LEMMA GateSound ==
  ASSUME NEW v, NEW at \in Nat, Sound(v, at), NEW full, NEW permit
  PROVE  Sound(Gate(v, full, permit), at)
<1> DEFINE w == Gate(v, full, permit)
<1>1. CASE w = v
  BY <1>1
<1>2. CASE v.job # None /\ \E stopped : w = [v EXCEPT !.job.stopped = stopped]
  <2>1. PICK stopped : w = [v EXCEPT !.job.stopped = stopped]
    BY <1>2
  <2>2. /\ DOMAIN w = Fields /\ w.jobs = v.jobs /\ w.gops = v.gops /\ w.bytes = v.bytes
        /\ DOMAIN w.job = JobFields /\ w.job.id = v.job.id /\ w.job.next = v.job.next
    <3> HIDE DEF w
    <3> QED BY <1>2, <2>1 DEF Sound, Fields, JobFields
  <2> HIDE DEF w
  <2>3. w.gops \subseteq [job : 1..w.jobs, pos : Nat] /\ IsFiniteSet(w.gops) /\ w.bytes = Cardinality(w.gops)
    BY <2>2 DEF Sound
  <2>4. w.jobs \in Nat /\ w.job.id \in 1..w.jobs /\ w.job.next \in Nat /\ w.job.next <= at
    BY <1>2, <2>2 DEF Sound
  <2>5. ASSUME NEW g \in w.gops, g.job = w.job.id
        PROVE  g.pos < w.job.next /\ \A p \in g.pos..(w.job.next - 1) : [job |-> g.job, pos |-> p] \in w.gops
    BY <1>2, <2>2, <2>5 DEF Sound
  <2>6. DOMAIN w = Fields /\ DOMAIN w.job = JobFields
    BY <2>2
  <2>7. Sound(w, at)
    BY <2>3, <2>4, <2>5, <2>6, SMTT(30) DEF Sound
  <2> QED BY <2>7 DEF w
<1> QED BY <1>1, <1>2 DEF Gate

LEMMA RefreshSound ==
  ASSUME Sound(i, run.at), run.at \in Nat
  PROVE  Sound(Refresh, run.at)
<1>1. CASE i.job = None \/ (i.job # None /\ i.job.exit)
  BY <1>1 DEF Refresh
<1>2. CASE ~(i.job = None \/ (i.job # None /\ i.job.exit))
  <2> DEFINE new == {[job |-> i.job.id, pos |-> p] : p \in i.job.next..(run.at - 1)}
             w == Refresh
  <2>1. /\ DOMAIN w = Fields /\ w.jobs = i.jobs /\ w.gops = i.gops \cup new
        /\ w.bytes = i.bytes + Cardinality(new)
        /\ DOMAIN w.job = JobFields /\ w.job.id = i.job.id /\ w.job.next = run.at
    BY <1>2 DEF Refresh, Sound, Fields, JobFields
  <2> HIDE DEF w
  <2>2. i.job.id \in 1..i.jobs /\ i.job.next \in Nat /\ i.job.next <= run.at /\ i.jobs \in Nat
    BY <1>2 DEF Sound
  <2>3. new \subseteq [job : 1..i.jobs, pos : Nat]
    BY <2>2
  <2>4. i.gops \cap new = {}
    <3> SUFFICES ASSUME NEW g \in i.gops, g \in new PROVE FALSE
      OBVIOUS
    <3>1. g.job = i.job.id /\ g.pos >= i.job.next
      BY <2>2
    <3>2. g.pos < i.job.next /\ g.pos \in Nat
      BY <1>2, <3>1 DEF Sound
    <3> QED BY <2>2, <3>1, <3>2
  <2>5. IsFiniteSet(new)
    <3> DEFINE ps == i.job.next..(run.at - 1)
               f == [p \in ps |-> [job |-> i.job.id, pos |-> p]]
    <3>1. IsFiniteSet(ps)
      <4>1. i.job.next \in Int /\ run.at - 1 \in Int
        BY <2>2
      <4> QED BY <4>1, FS_Interval
    <3>2. f \in Surjection(ps, new)
      BY DEF Surjection
    <3> HIDE DEF ps, f, new
    <3> QED BY <3>1, <3>2, FS_Surjection
  <2>6. IsFiniteSet(w.gops) /\ w.bytes = Cardinality(w.gops)
    <3> HIDE DEF new
    <3>1. IsFiniteSet(i.gops) /\ i.bytes = Cardinality(i.gops)
      BY DEF Sound
    <3>2. Cardinality(i.gops) \in Nat /\ Cardinality(new) \in Nat /\ Cardinality({}) = 0
      BY <2>5, <3>1, FS_CardinalityType, FS_EmptySet
    <3>3. /\ IsFiniteSet(i.gops \cup new)
          /\ Cardinality(i.gops \cup new) = Cardinality(i.gops) + Cardinality(new) - Cardinality(i.gops \cap new)
      BY <2>5, <3>1, FS_Union
    <3>4. Cardinality(i.gops \cap new) = 0
      BY <2>4, <3>2
    <3> QED BY <2>1, <3>1, <3>2, <3>3, <3>4
  <2>7. ASSUME NEW g \in w.gops, g.job = i.job.id
        PROVE  /\ g.pos < run.at
               /\ \A p \in g.pos..(run.at - 1) : [job |-> g.job, pos |-> p] \in w.gops
    <3>1. CASE g \in new
      <4>1. g.pos \in i.job.next..(run.at - 1)
        BY <3>1
      <4> QED BY <2>1, <2>2, <2>7, <4>1
    <3>2. CASE g \in i.gops
      <4>1. /\ g.pos \in Nat /\ g.pos < i.job.next
            /\ \A p \in g.pos..(i.job.next - 1) : [job |-> g.job, pos |-> p] \in i.gops
        BY <1>2, <2>7, <3>2 DEF Sound
      <4>2. ASSUME NEW p \in g.pos..(run.at - 1) PROVE [job |-> g.job, pos |-> p] \in w.gops
        <5>1. p \in g.pos..(i.job.next - 1) \/ p \in i.job.next..(run.at - 1)
          BY <2>2, <4>1
        <5> QED BY <2>1, <2>7, <4>1, <5>1
      <4> QED BY <2>2, <4>1, <4>2
    <3> QED BY <2>1, <2>7, <3>1, <3>2
  <2> HIDE DEF new
  <2>8. w.gops \subseteq [job : 1..w.jobs, pos : Nat]
    BY <2>1, <2>3 DEF Sound
  <2>9. Sound(w, run.at)
    BY <2>1, <2>2, <2>6, <2>7, <2>8 DEF Sound
  <2> QED BY <2>9 DEF w
<1> QED BY <1>1, <1>2

LEMMA PruneSound ==
  ASSUME NEW v, NEW at \in Nat, Sound(v, at), NEW n \in Segs
  PROVE  Sound(Prune(v, n), at)
<1> DEFINE w == Prune(v, n)
           lo == Start(IF n = 0 THEN 0 ELSE n - 1)
<1>1. /\ DOMAIN w = Fields /\ w.jobs = v.jobs /\ w.gops = Kept(v, n) /\ w.job = v.job
      /\ w.bytes = v.bytes - (Cardinality(v.gops) - Cardinality(Kept(v, n)))
  BY DEF Prune, Sound, Fields
<1>2. Kept(v, n) \subseteq v.gops
  BY DEF Kept
<1>3. /\ IsFiniteSet(v.gops) /\ v.bytes = Cardinality(v.gops)
      /\ IsFiniteSet(Kept(v, n)) /\ Cardinality(v.gops) \in Nat /\ Cardinality(Kept(v, n)) \in Nat
  BY <1>2, FS_Subset, FS_CardinalityType DEF Sound
<1>4. lo \in Nat
  <2>1. (IF n = 0 THEN 0 ELSE n - 1) \in Segs
    BY DEF Segs
  <2> QED BY <2>1, CutIsNat
<1>5. ASSUME v.job # None, NEW g \in Kept(v, n), g.job = v.job.id,
             NEW p \in g.pos..(v.job.next - 1)
      PROVE  [job |-> g.job, pos |-> p] \in Kept(v, n)
  <2>1. g.pos \in Nat /\ v.job.next \in Nat /\ g.pos + 1 >= lo
    BY <1>2, <1>5 DEF Sound, Kept
  <2>2. [job |-> g.job, pos |-> p] \in v.gops
    BY <1>2, <1>5 DEF Sound
  <2>3. p + 1 >= lo
    BY <1>4, <2>1
  <2> QED BY <1>5, <2>2, <2>3 DEF Kept
<1> HIDE DEF w
<1>6. Sound(w, at)
  <2>1. w.gops \subseteq [job : 1..w.jobs, pos : Nat] /\ IsFiniteSet(w.gops) /\ w.bytes = Cardinality(w.gops)
    BY <1>1, <1>2, <1>3 DEF Sound
  <2> QED BY <1>1, <1>2, <1>5, <2>1 DEF Sound
<1> QED BY <1>6 DEF w

\* The run is taken, as the session may be: its GOPs stay.
LEMMA TakenSound ==
  ASSUME NEW v, NEW at, Sound(v, at) PROVE Sound([v EXCEPT !.job = None], 0)
BY DEF Sound, Fields

-----------------------------------------------------------------------------
(* The steps *)

LEMMA InvNext == Inv /\ [Next]_vars => Inv'
<1> SUFFICES ASSUME Inv, [Next]_vars PROVE Inv'
  OBVIOUS
<1>0. /\ Sound(i, run.at) /\ Requested /\ DOMAIN run = {"at", "exit"} /\ run.at \in Nat
      /\ Sound(Refresh, run.at) /\ NoRun.at = 0 /\ DOMAIN NoRun = {"at", "exit"}
  BY RefreshSound DEF Inv, NoRun
<1>a. ASSUME UNCHANGED req PROVE Requested'
  BY <1>0, <1>a DEF Requested
<1>b. ASSUME NEW r \in Req, NEW where, NEW chain, req' = [req EXCEPT ![r].at = where, ![r].chain = chain] PROVE Requested'
  BY <1>0, <1>b DEF Requested
<1>c. ASSUME Sound(i', run.at), UNCHANGED run, Requested' PROVE Inv'
  BY <1>0, <1>c DEF Inv
<1>d. ASSUME Sound(i', 0), run' = NoRun, Requested' PROVE Inv'
  BY <1>0, <1>d DEF Inv
<1>1. CASE Write
  <2>1. run' = [run EXCEPT !.at = run.at + 1] /\ i' = i /\ Requested'
    BY <1>1, <1>a DEF Write
  <2>2. run'.at = run.at + 1 /\ DOMAIN run' = {"at", "exit"}
    BY <1>0, <2>1
  <2>3. i.job # None => i.job.next \in Nat /\ i.job.next <= run'.at
    BY <1>0, <2>2 DEF Sound
  <2>4. Sound(i', run'.at)
    BY <1>0, <2>1, <2>3 DEF Sound
  <2> QED BY <1>0, <2>1, <2>2, <2>4 DEF Inv
<1>2. CASE Exit
  <2>1. PICK how \in {"clean", "failed"} : run' = [run EXCEPT !.exit = how]
    BY <1>2 DEF Exit
  <2>2. run'.at = run.at /\ DOMAIN run' = {"at", "exit"} /\ i' = i /\ Requested'
    BY <1>0, <1>2, <2>1, <1>a DEF Exit
  <2> QED BY <1>0, <2>2 DEF Inv, Sound
<1>3. CASE TakeJob
  BY <1>0, <1>3, <1>a, <1>d, TakenSound DEF TakeJob
<1>4. CASE EndSession
  <2>1. i' = [i EXCEPT !.ended = TRUE, !.bytes = 0, !.gops = {}, !.job = None]
    BY <1>4 DEF EndSession
  <2>2. Sound(i', 0)
    BY <1>0, <2>1, FS_EmptySet DEF Sound, Fields
  <2> QED BY <1>4, <2>2, <1>a, <1>d DEF EndSession
<1>5. CASE Supervises
  BY <1>0, <1>5, <1>a, <1>c, GateSound DEF Supervises, Supervise
<1>6. ASSUME NEW r \in Req, NEW n \in Asked, Ask(r, n) PROVE Inv'
  <2>1. Requested'
    BY <1>0, <1>6 DEF Ask, Requested
  <2> QED BY <1>0, <1>6, <2>1, <1>c DEF Ask
<1>7. ASSUME NEW r \in Req, Leave(r) PROVE Inv'
  BY <1>0, <1>7, <1>b, <1>c DEF Leave, At
<1>8. ASSUME NEW r \in Req, AskLink(r) PROVE Inv'
  <2>1. i' = [i EXCEPT !.reresolved = TRUE] /\ UNCHANGED run /\ Requested'
    BY <1>8, <1>b DEF AskLink, At
  <2>2. Sound(i', run.at)
    BY <1>0, <2>1 DEF Sound, Fields
  <2> QED BY <2>1, <2>2, <1>c
<1>9. ASSUME NEW r \in Req, GotLink(r) \/ OpenNext(r) \/ LookAgain(r) PROVE Inv'
  <2>1. Requested'
    BY <1>0, <1>9, <1>b DEF GotLink, OpenNext, LookAgain, At, Requested
  <2> QED BY <1>0, <1>9, <2>1, <1>c DEF GotLink, OpenNext, LookAgain
<1>10. ASSUME NEW r \in Req, NEW full \in BOOLEAN, NEW permit \in BOOLEAN, Poll(r, full, permit) PROVE Inv'
  <2> DEFINE v == [Refresh EXCEPT !.want = req[r].seg]
  <2>1. Sound(v, run.at)
    BY <1>0 DEF Sound, Fields
  <2>2. (i' = v \/ i' = Gate(v, full, permit)) /\ UNCHANGED run
    BY <1>10 DEF Poll
  <2>3. Requested'
    BY <1>10, <1>b DEF Poll
  <2> HIDE DEF v
  <2>4. Sound(i', run.at)
    BY <1>0, <2>1, <2>2, GateSound
  <2> QED BY <2>2, <2>3, <2>4, <1>c
<1>11. ASSUME NEW r \in Req, NEW full \in BOOLEAN, NEW permit \in BOOLEAN, Send(r, full, permit) PROVE Inv'
  <2>1. req[r].seg \in Segs
    BY <1>0 DEF Requested
  <2>2. Sound(i', run.at)
    BY <1>0, <1>11, <2>1, PruneSound, GateSound DEF Send
  <2> QED BY <1>11, <2>2, <1>b, <1>c DEF Send, At
<1>12. ASSUME NEW r \in Req, StartProducer(r) PROVE Inv'
  <2>1. Requested'
    BY <1>12, <1>b DEF StartProducer, At
  <2>2. \/ i' = [Refresh EXCEPT !.job = None] /\ run' = NoRun
        \/ i' = Refresh /\ UNCHANGED run
    BY <1>12 DEF StartProducer
  <2> QED BY <1>0, <2>1, <2>2, <1>c, <1>d, TakenSound
<1>13. ASSUME NEW r \in Req, Spawn(r) PROVE Inv'
  <2> DEFINE p == RestartPoint(req[r].seg)
             new == [id |-> i.jobs + 1, start |-> p, next |-> p, stopped |-> FALSE, exit |-> FALSE]
  <2>1. Requested'
    BY <1>13, <1>b DEF Spawn, At
  <2>2. \/ UNCHANGED <<i, run>>
        \/ i' = [i EXCEPT !.jobs = i.jobs + 1, !.failures = i.failures + 1] /\ UNCHANGED run
        \/ i' = [i EXCEPT !.jobs = i.jobs + 1, !.job = new] /\ run' = [at |-> p, exit |-> "no"]
    BY <1>13 DEF Spawn
  <2>3. p \in Nat
    BY <1>0, RestartIsNat DEF Requested
  <2> HIDE DEF p
  <2>4. CASE i' = [i EXCEPT !.jobs = i.jobs + 1, !.failures = i.failures + 1] /\ UNCHANGED run
    <3>1. Sound(i', run.at)
      BY <1>0, <2>4 DEF Sound, Fields
    <3> QED BY <2>1, <2>4, <3>1, <1>c
  <2>5. CASE i' = [i EXCEPT !.jobs = i.jobs + 1, !.job = new] /\ run' = [at |-> p, exit |-> "no"]
    <3>1. /\ DOMAIN i' = Fields /\ i'.jobs = i.jobs + 1 /\ i'.gops = i.gops /\ i'.bytes = i.bytes
          /\ DOMAIN i'.job = JobFields /\ i'.job.id = i.jobs + 1 /\ i'.job.next = p
      BY <1>0, <2>5 DEF Sound, Fields, JobFields
    <3>2. i.jobs \in Nat /\ \A g \in i.gops : g.job # i.jobs + 1
      BY <1>0 DEF Sound
    <3>3. i'.gops \subseteq [job : 1..i'.jobs, pos : Nat]
      BY <1>0, <3>1 DEF Sound
    <3>4. Sound(i', p)
      BY <1>0, <2>3, <3>1, <3>2, <3>3 DEF Sound
    <3>5. run'.at = p /\ DOMAIN run' = {"at", "exit"}
      BY <2>5
    <3> QED BY <2>1, <2>3, <3>4, <3>5 DEF Inv
  <2> QED BY <1>0, <2>1, <2>2, <2>4, <2>5, <1>c
<1>14. CASE UNCHANGED vars
  BY <1>0, <1>14, <1>a, <1>c DEF vars
<1> QED BY <1>1, <1>2, <1>3, <1>4, <1>5, <1>6, <1>7, <1>8, <1>9, <1>10, <1>11, <1>12, <1>13, <1>14
        DEF Next, Goes

LEMMA InvInit == Init => Inv
<1> SUFFICES ASSUME Init PROVE Inv
  OBVIOUS
<1>1. 0 \in Segs
  BY DEF Segs
<1> QED BY <1>1, FS_EmptySet DEF Init, Inv, Sound, Fields, Requested, NoRun

\* In any film, and whatever requests do at once, a session's share of scratch is what it has there.
THEOREM BytesHold == Spec => []BytesExact
<1>1. Inv => BytesExact
  BY DEF Inv, Sound, BytesExact
<1> QED BY <1>1, InvInit, InvNext, PTL DEF Spec

\* However requests delete and runs replace each other, the current run's GOPs have no hole.
THEOREM RunHasNoHole == Spec => []CurrentRunWhole
<1>1. Inv => CurrentRunWhole
  BY DEF Inv, Sound, CurrentRunWhole
<1> QED BY <1>1, InvInit, InvNext, PTL DEF Spec
===============================================================================
