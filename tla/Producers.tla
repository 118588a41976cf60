------------------------------ MODULE Producers ------------------------------
(***************************************************************************)
(* Who may run an ffmpeg: the producer and GPU semaphores of AppState        *)
(* (src/src/state.rs), the permit a Job holds while its process runs         *)
(* (src/src/job.rs), and the parts of Session that start, pause, resume,     *)
(* reap and end a job (src/src/session.rs). What a job produces is left to   *)
(* its segments: here it heads for the segment asked for, or does not.       *)
(*                                                                         *)
(* A session's requests are taken together: open says that one waits for a   *)
(* segment, and at most one of them is past producer_gate. Tokio's           *)
(* semaphores are modelled from how the code uses them: waiters queue in     *)
(* order, a permit that is given back belongs at once to the first of them   *)
(* without one, so the first `free` waiters may go on, and only what is left *)
(* over can be had without waiting.                                         *)
(***************************************************************************)
EXTENDS Integers, Sequences, FiniteSets

CONSTANTS
  Session,
  Transcoded,      \* the sessions whose video is transcoded on the GPU
  MaxActive,       \* MAX_ACTIVE_REMUXES
  MaxTranscodes,   \* MAX_TRANSCODES
  IdleAfter,       \* PRODUCER_IDLE_SECS, in ticks
  WaitMax,         \* SEGMENT_WAIT, in ticks
  None             \* no session

ASSUME TranscodedAssumption == Transcoded \subseteq Session
ASSUME MaxActiveAssumption == MaxActive \in Nat \ {0}
ASSUME MaxTranscodesAssumption == MaxTranscodes \in Nat
ASSUME IdleAssumption == IdleAfter \in Nat \ {0} /\ WaitMax \in Nat \ {0}
ASSUME NoneAssumption == None \notin Session

VARIABLES
  job,       \* see Jobs
  heads,     \* does the job give the segment asked for, given time (heads_for)?
  age,       \* ticks since last_seen
  open,      \* does a request wait for a segment?
  pc,        \* where the request past producer_gate is in start_producer, see Steps
  prey,      \* the session whose job it reaps
  life,      \* "live", "ending" while its running ffmpeg is reaped, "ended"
  slots,     \* producer_slots' permits in nobody's hands
  gpus,      \* transcode_slots' permits in nobody's hands
  slotQ,     \* who waits for a producer slot, in order
  gpuQ       \* who waits for a GPU slot

vars == <<job, heads, age, open, pc, prey, life, slots, gpus, slotQ, gpuQ>>

(***************************************************************************)
(* "gone": the process has exited, and nobody has polled it. A job polled    *)
(* after its exit holds nothing and does nothing more: it counts as "none".  *)
(***************************************************************************)
Jobs == {"none", "running", "gone", "paused"}

\* "killing" and "dropping" await old.stop() of a running and of a paused job,
\* "reaping" that of another session's, "gpu" and "slot" a permit.
Steps == {"idle", "killing", "dropping", "reaping", "gpu", "slot"}

MaxAge == IF IdleAfter > WaitMax THEN IdleAfter ELSE WaitMax

\* The sessions whose job holds a permit, and what start_producer and end hold of
\* the jobs they are stopping.
InJob == {s \in Session : job[s] \in {"running", "gone"}}
InKill == {s \in Session : pc[s] = "killing"}
InReap == {s \in Session : pc[s] = "reaping"}
InEnd == {s \in Session : life[s] = "ending"}

Gpus(s) == IF s \in Transcoded THEN 1 ELSE 0
Ready(q, free, s) == \E k \in 1..Len(q) : k <= free /\ q[k] = s
Left(q, free) == free > Len(q)

\* q once s, which is in it at most once, has its permit or waits no more.
Without(q, s) ==
  IF \E k \in 1..Len(q) : q[k] = s
  THEN LET k == CHOOSE k \in 1..Len(q) : q[k] = s
       IN  [j \in 1..(Len(q) - 1) |-> IF j < k THEN q[j] ELSE q[j + 1]]
  ELSE q

CanTranscode == MaxTranscodes > 0

Init ==
  /\ job = [s \in Session |-> "none"]
  /\ heads = [s \in Session |-> FALSE]
  /\ age = [s \in Session |-> 0]
  /\ open = [s \in Session |-> FALSE]
  /\ pc = [s \in Session |-> "idle"]
  /\ prey = [s \in Session |-> None]
  /\ life = [s \in Session |-> "live"]
  /\ slots = MaxActive /\ gpus = MaxTranscodes
  /\ slotQ = <<>> /\ gpuQ = <<>>
-----------------------------------------------------------------------------
(* A session's job: refresh, gate, and what ffmpeg does on its own *)

\* ffmpeg ends: it reached the end of the file, or failed.
Exit(s) ==
  /\ job[s] = "running"
  /\ job' = [job EXCEPT ![s] = "gone"]
  /\ UNCHANGED <<heads, age, open, pc, prey, life, slots, gpus, slotQ, gpuQ>>

\* The job, further on, gives the segment asked for no more, or does now.
Produce(s) ==
  /\ job[s] = "running"
  /\ heads' = [heads EXCEPT ![s] = ~heads[s]]
  /\ UNCHANGED <<job, age, open, pc, prey, life, slots, gpus, slotQ, gpuQ>>

\* Is there a permit, and a GPU permit for a transcode, without waiting?
TryAcquire(s) ==
  /\ Left(slotQ, slots)
  /\ s \in Transcoded => CanTranscode /\ Left(gpuQ, gpus)

GiveBack(s) == slots' = slots + 1 /\ gpus' = gpus + Gpus(s)

\* refresh, then gate: an exited job's permit goes back; a job far enough ahead is
\* paused and gives its own back; a paused one that is not runs again, if it can.
RefreshAndGate(s, ahead) ==
  \/ /\ job[s] = "gone"
     /\ job' = [job EXCEPT ![s] = "none"] /\ GiveBack(s)
  \/ /\ job[s] = "running" /\ ahead
     /\ job' = [job EXCEPT ![s] = "paused"] /\ GiveBack(s)
  \/ /\ job[s] = "paused" /\ ~ahead /\ TryAcquire(s)
     /\ job' = [job EXCEPT ![s] = "running"]
     /\ slots' = slots - 1 /\ gpus' = gpus - Gpus(s)
  \/ /\ \/ job[s] = "none"
        \/ job[s] = "running" /\ ~ahead
        \/ job[s] = "paused" /\ (ahead \/ ~TryAcquire(s))
     /\ UNCHANGED <<job, slots, gpus>>

\* Mutant: the supervisor sleeps unless somebody asks.
SuperviseAsked(s, ahead) ==
  /\ life[s] = "live" /\ job[s] # "none" /\ open[s]
  /\ ahead => ~heads[s]
  /\ RefreshAndGate(s, ahead)
  /\ UNCHANGED <<heads, age, open, pc, prey, life, slotQ, gpuQ>>

\* supervise's tick while the job runs or is parked. A job that heads for a segment
\* still waited for is not ahead of it.
Supervise(s, ahead) ==
  /\ life[s] = "live" /\ job[s] # "none"
  /\ ahead /\ heads[s] => ~open[s]
  /\ RefreshAndGate(s, ahead)
  /\ UNCHANGED <<heads, age, open, pc, prey, life, slotQ, gpuQ>>

\* supervise drops a job that was paused when its session went quiet.
Park(s) ==
  /\ life[s] = "live" /\ job[s] = "paused" /\ age[s] >= IdleAfter
  /\ job' = [job EXCEPT ![s] = "none"]
  /\ UNCHANGED <<heads, age, open, pc, prey, life, slots, gpus, slotQ, gpuQ>>
-----------------------------------------------------------------------------
(* Requests *)

\* A request for a segment: the one the job heads for, or another.
Ask(s) ==
  /\ life[s] = "live" /\ ~open[s]
  /\ open' = [open EXCEPT ![s] = TRUE]
  /\ age' = [age EXCEPT ![s] = 0]
  /\ \E h \in BOOLEAN : heads' = [heads EXCEPT ![s] = h]
  /\ UNCHANGED <<job, pc, prey, life, slots, gpus, slotQ, gpuQ>>

\* A poll of a waiting request; its segment may be ready, and is then served. One that
\* is in start_producer goes on.
Poll(s, ahead, done) ==
  /\ open[s] /\ life[s] = "live"
  /\ ahead /\ heads[s] => done
  /\ age' = [age EXCEPT ![s] = 0]
  /\ RefreshAndGate(s, ahead)
  /\ open' = [open EXCEPT ![s] = ~done \/ pc[s] # "idle"]
  /\ UNCHANGED <<heads, pc, prey, life, slotQ, gpuQ>>

\* producer_needed, but for its count of failed runs.
Needed(s) ==
  /\ life[s] = "live"
  /\ job[s] = "running" => ~heads[s]

\* pick_reap_victim: of the other sessions with a job running, those silent longest,
\* if for long enough.
Victims(s, jobs) ==
  LET quiet == {v \in Session \ {s} : jobs[v] \in {"running", "gone"} /\ age[v] >= IdleAfter}
  IN  {v \in quiet : \A w \in quiet : age[w] <= age[v]}

\* Mutant: a transcode waits for both at once.
QueueBoth(s) ==
  /\ slotQ' = Append(slotQ, s)
  /\ IF s \in Transcoded /\ CanTranscode
     THEN gpuQ' = Append(gpuQ, s) /\ pc' = [pc EXCEPT ![s] = "gpu"]
     ELSE UNCHANGED gpuQ /\ pc' = [pc EXCEPT ![s] = "slot"]

\* acquire_producer joins its first queue; a transcode that cannot be is refused.
Queue(s) ==
  CASE s \notin Transcoded -> /\ slotQ' = Append(slotQ, s)
                              /\ pc' = [pc EXCEPT ![s] = "slot"]
                              /\ UNCHANGED gpuQ
    [] s \in Transcoded /\ CanTranscode -> /\ gpuQ' = Append(gpuQ, s)
                                           /\ pc' = [pc EXCEPT ![s] = "gpu"]
                                           /\ UNCHANGED slotQ
    [] OTHER -> pc' = [pc EXCEPT ![s] = "idle"] /\ UNCHANGED <<slotQ, gpuQ>>

\* start_producer once its own job is gone: where no slot is free it reaps one, if
\* any may be, and then waits. jobs and free are job and slots so far in this step.
Contend(s, jobs, free) ==
  IF ~Left(slotQ, free) /\ Victims(s, jobs) # {}
  THEN \E v \in Victims(s, jobs) :
         /\ job' = [jobs EXCEPT ![v] = "none"]
         /\ prey' = [prey EXCEPT ![s] = v]
         /\ pc' = [pc EXCEPT ![s] = "reaping"]
         /\ UNCHANGED <<slotQ, gpuQ>>
  ELSE job' = jobs /\ Queue(s) /\ UNCHANGED prey

\* start_producer, past producer_gate: refresh, and what job there is is taken.
StartProducer(s) ==
  /\ open[s] /\ pc[s] = "idle" /\ Needed(s)
  /\ CASE job[s] \in {"running", "paused"} ->
            /\ pc' = [pc EXCEPT ![s] = IF job[s] = "running" THEN "killing" ELSE "dropping"]
            /\ job' = [job EXCEPT ![s] = "none"]
            /\ UNCHANGED <<prey, slots, gpus, slotQ, gpuQ>>
       [] job[s] = "gone" -> /\ GiveBack(s)
                             /\ Contend(s, [job EXCEPT ![s] = "none"], slots + 1)
       [] job[s] = "none" -> Contend(s, job, slots) /\ UNCHANGED <<slots, gpus>>
  /\ UNCHANGED <<heads, age, open, life>>

\* Mutant: the permit of the job that was stopped is kept until the new one is there.
OldStoppedKeeps(s) ==
  /\ pc[s] \in {"killing", "dropping"}
  /\ Contend(s, job, slots)
  /\ UNCHANGED <<heads, age, open, life, slots, gpus>>

\* Its old job is reaped (killed 5 s ago, at most), and its permit back.
OldStopped(s) ==
  /\ \/ pc[s] = "killing" /\ GiveBack(s) /\ Contend(s, job, slots + 1)
     \/ pc[s] = "dropping" /\ UNCHANGED <<slots, gpus>> /\ Contend(s, job, slots)
  /\ UNCHANGED <<heads, age, open, life>>

\* The other session's job is.
Reaped(s) ==
  /\ pc[s] = "reaping"
  /\ GiveBack(prey[s]) /\ Queue(s)
  /\ prey' = [prey EXCEPT ![s] = None]
  /\ UNCHANGED <<job, heads, age, open, life>>

\* acquire_producer has the GPU, and waits for a slot.
GotGpu(s) ==
  /\ pc[s] = "gpu" /\ Ready(gpuQ, gpus, s)
  /\ gpus' = gpus - 1 /\ gpuQ' = Without(gpuQ, s)
  /\ slotQ' = Append(slotQ, s) /\ pc' = [pc EXCEPT ![s] = "slot"]
  /\ UNCHANGED <<job, heads, age, open, prey, life, slots>>

\* Mutant: nobody looks again after the wait.
StartsUnchecked(s) == TRUE

\* ensure_job's second look: may a new run start now?
Starts(s) == Needed(s)

\* acquire_producer has its slot; ensure_job runs ffmpeg with it, or drops it: the
\* session ended meanwhile, or the spawn fails.
GotSlot(s, spawned) ==
  /\ pc[s] = "slot" /\ Ready(slotQ, slots, s)
  /\ slotQ' = Without(slotQ, s) /\ pc' = [pc EXCEPT ![s] = "idle"]
  /\ IF Starts(s) /\ spawned
     THEN /\ job' = [job EXCEPT ![s] = "running"]
          /\ heads' = [heads EXCEPT ![s] = TRUE]
          /\ slots' = slots - 1 /\ UNCHANGED gpus
     ELSE /\ gpus' = gpus + Gpus(s)
          /\ UNCHANGED <<job, heads, slots>>
  /\ UNCHANGED <<age, open, prey, life, gpuQ>>

\* Mutant: the GPU a waiter already had is lost with it.
FreedSlotsOnly(s) ==
  /\ slots' = slots + (IF pc[s] \in {"killing", "reaping"} THEN 1 ELSE 0)
  /\ gpus' = gpus + (CASE pc[s] = "killing" -> Gpus(s)
                       [] pc[s] = "reaping" -> Gpus(prey[s])
                       [] OTHER -> 0)

\* What the request in start_producer holds goes back when it is dropped: the permit
\* of a job it was stopping, the GPU it waited with.
Freed(s) ==
  /\ slots' = slots + (IF pc[s] \in {"killing", "reaping"} THEN 1 ELSE 0)
  /\ gpus' = gpus + (CASE pc[s] \in {"killing", "slot"} -> Gpus(s)
                       [] pc[s] = "reaping" -> Gpus(prey[s])
                       [] OTHER -> 0)

\* Mutant: the deadline is for the slot, not for the GPU before it.
DropFromSlot(s) ==
  /\ open[s] /\ pc[s] # "gpu"
  /\ open' = [open EXCEPT ![s] = FALSE]
  /\ Freed(s)
  /\ pc' = [pc EXCEPT ![s] = "idle"]
  /\ prey' = [prey EXCEPT ![s] = None]
  /\ slotQ' = Without(slotQ, s) /\ gpuQ' = Without(gpuQ, s)
  /\ UNCHANGED <<job, heads, age, life>>

\* The player closes its connection, wherever its request waits; or the wait for a
\* permit reaches the deadline and the answer is 503.
Drop(s) ==
  /\ open[s]
  /\ open' = [open EXCEPT ![s] = FALSE]
  /\ Freed(s)
  /\ pc' = [pc EXCEPT ![s] = "idle"]
  /\ prey' = [prey EXCEPT ![s] = None]
  /\ slotQ' = Without(slotQ, s) /\ gpuQ' = Without(gpuQ, s)
  /\ UNCHANGED <<job, heads, age, life>>
-----------------------------------------------------------------------------
(* The session's end, and time *)

\* Session::end takes the job and stops it.
End(s) ==
  /\ life[s] = "live"
  /\ life' = [life EXCEPT ![s] = IF s \in InJob THEN "ending" ELSE "ended"]
  /\ job' = [job EXCEPT ![s] = "none"]
  /\ UNCHANGED <<heads, age, open, pc, prey, slots, gpus, slotQ, gpuQ>>

\* It is reaped, or the request that ended the session was cancelled meanwhile.
EndStopped(s) ==
  /\ life[s] = "ending"
  /\ life' = [life EXCEPT ![s] = "ended"]
  /\ GiveBack(s)
  /\ UNCHANGED <<job, heads, age, open, pc, prey, slotQ, gpuQ>>

\* Mutant: a request that waits is seen when it comes, and not again.
LastSeenOnce(s) == IF age[s] < MaxAge THEN age[s] + 1 ELSE MaxAge

\* A request outside start_producer polls many times a tick, and each poll is seen.
LastSeen(s) ==
  IF open[s] /\ pc[s] = "idle" THEN 0
  ELSE IF age[s] < MaxAge THEN age[s] + 1 ELSE MaxAge

\* Time passes; what has waited in start_producer for WaitMax acts before it does.
Tick ==
  /\ \A s \in Session : open[s] /\ pc[s] # "idle" => age[s] < WaitMax
  /\ age' = [s \in Session |-> LastSeen(s)]
  /\ age' # age
  /\ UNCHANGED <<job, heads, open, pc, prey, life, slots, gpus, slotQ, gpuQ>>

Step(s) ==
  \/ Exit(s) \/ Produce(s) \/ Park(s) \/ Ask(s) \/ StartProducer(s)
  \/ OldStopped(s) \/ Reaped(s) \/ GotGpu(s) \/ Drop(s) \/ End(s) \/ EndStopped(s)
  \/ \E ahead \in BOOLEAN : Supervise(s, ahead)
  \/ \E ahead, done \in BOOLEAN : Poll(s, ahead, done)
  \/ \E spawned \in BOOLEAN : GotSlot(s, spawned)

Next == (\E s \in Session : Step(s)) \/ Tick

(***************************************************************************)
(* A killed process is reaped within 5 s, a woken waiter runs, and the       *)
(* supervisor ticks while there is a job.                                   *)
(***************************************************************************)
Polled ==
  \A s \in Session :
    /\ WF_vars(OldStopped(s)) /\ WF_vars(Reaped(s)) /\ WF_vars(EndStopped(s))
    /\ WF_vars(GotGpu(s)) /\ WF_vars(\E spawned \in BOOLEAN : GotSlot(s, spawned))
    /\ WF_vars(\E ahead \in BOOLEAN : Supervise(s, ahead))

\* A request's deadline is a timer.
Deadlines == \A s \in Session : WF_vars(pc[s] \in {"gpu", "slot"} /\ Drop(s))

\* A run that goes on comes to the end of its film.
RunsEnd == \A s \in Session : WF_vars(Exit(s))

Spec == Init /\ [][Next]_vars
FairSpec == Spec /\ Polled
-----------------------------------------------------------------------------
(* Properties *)

NoDuplicates(q) == \A i, j \in 1..Len(q) : q[i] = q[j] => i = j
Members(q) == {q[i] : i \in 1..Len(q)}

\* Every variable has its type.
TypeOK ==
  /\ job \in [Session -> Jobs] /\ heads \in [Session -> BOOLEAN]
  /\ age \in [Session -> 0..MaxAge] /\ open \in [Session -> BOOLEAN]
  /\ pc \in [Session -> Steps] /\ prey \in [Session -> Session \cup {None}]
  /\ life \in [Session -> {"live", "ending", "ended"}]
  /\ slots \in Nat /\ gpus \in Nat
  /\ slotQ \in Seq(Session) /\ gpuQ \in Seq(Session)

InSlot == {s \in Session : pc[s] = "slot"}
Reaping == {s \in InReap : prey[s] \in Transcoded}

\* The transcodes among those that hold a permit, and those that wait with a GPU.
OnGpu ==
  Cardinality(InJob \cap Transcoded) + Cardinality(InKill \cap Transcoded)
  + Cardinality(Reaping) + Cardinality(InEnd \cap Transcoded)
  + Cardinality(InSlot \cap Transcoded)

Active == Cardinality(InJob) + Cardinality(InKill) + Cardinality(InReap) + Cardinality(InEnd)

\* No permit is lost or made: what runs or is being killed holds one each, the rest
\* are free, whatever was cancelled, paused, reaped or refused in between. So never
\* more than MAX_ACTIVE_REMUXES run, nor more than MAX_TRANSCODES on the GPU.
PermitsConserved == slots + Active = MaxActive /\ gpus + OnGpu = MaxTranscodes

\* Who waits is in the queue it waits in, once, and in no other: a request dropped
\* or answered leaves nothing that a permit could be handed to.
QueuesExact ==
  /\ NoDuplicates(slotQ) /\ Members(slotQ) = {s \in Session : pc[s] = "slot"}
  /\ NoDuplicates(gpuQ) /\ Members(gpuQ) = {s \in Session : pc[s] = "gpu"}

\* A session that ended while its request waited for a permit runs nothing.
EndedRunsNothing == \A s \in Session : life[s] # "live" => job[s] = "none"

\* A session with a request waiting keeps its producer when another contends
\* (session.rs:3096-3099: "a producer is never pulled out from under a session
\* still being watched"): true only where PRODUCER_IDLE_SECS is more than the wait.
WatchedKeepsProducer ==
  [][\A s, v \in Session : pc[s] # "reaping" /\ pc'[s] = "reaping" /\ prey'[s] = v =>
       ~open[v]]_vars

\* A permit whose ffmpeg has exited comes back though nobody asks for anything.
ExitedSlotReturns == \A s \in Session : job[s] = "gone" ~> job[s] # "gone"

\* A start always gets past producer_gate again, permit or not, and the next request of the
\* session is not shut out: by its deadline though no run ever ends, and where runs end
\* without one.  So no waiter holds what another waits for while it waits for what that
\* one holds, and none is forgotten in a queue.
StartSettles == Deadlines \/ RunsEnd => \A s \in Session : pc[s] # "idle" ~> pc[s] = "idle"
=============================================================================
