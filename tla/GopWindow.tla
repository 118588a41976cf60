------------------------------ MODULE GopWindow ------------------------------
(***************************************************************************)
(* One session's media: the GOPs its ffmpeg runs have written, which of them *)
(* answer a segment, what is deleted, and when a run is paused, replaced or   *)
(* given up (Session's Inner, src/src/session.rs, over Job, src/src/job.rs). *)
(*                                                                         *)
(* Positions in the film are keyframes: GOP p lies between keyframe p and     *)
(* p + 1, and is written whole. Session::snap pins every GOP to its keyframe,  *)
(* so comparisons within SNAP are comparisons of keyframes. A permit to run   *)
(* is had or not (module Producers): here that is a choice.                  *)
(***************************************************************************)
EXTENDS Integers, Sequences, FiniteSets

CONSTANTS
  Req,             \* requests for segments that may be under way at once
  Cut,             \* segment n lies between Cut[n + 1] and Cut[n + 2]
  TooClose,        \* segments whose keyframe a seek cannot land on (MIN_SEEK_GAP)
  Ahead,           \* AHEAD_SEGMENTS
  RestartGap,      \* RESTART_GAP_SEGMENTS
  MaxFailures,     \* MAX_FAILURES
  MaxJobs,         \* bound: runs of a session
  MayFail,         \* bound: may ffmpeg fail?
  Asked,           \* bound: the segments asked for
  None             \* no job

Segs == 0..(Len(Cut) - 2)
Last == Len(Cut) - 2
Start(n) == Cut[n + 1]
End(n) == Cut[n + 2]
Film == Cut[Len(Cut)]

ASSUME CutAssumption ==
  /\ Cut \in Seq(Nat) /\ Len(Cut) >= 2 /\ Cut[1] = 0
  /\ \A k \in 1..(Len(Cut) - 1) : Cut[k] < Cut[k + 1]
ASSUME BoundsAssumption ==
  /\ Ahead \in Nat /\ RestartGap \in Nat /\ MaxFailures \in Nat /\ MaxJobs \in Nat
  /\ TooClose \subseteq Segs /\ Asked \subseteq Segs /\ MayFail \in BOOLEAN

\* A GOP is [job, pos], the run that wrote it and the keyframe it begins on. A job is
\* [id, start, next, stopped, exit]: next is next_start, as far as it is read, and is its
\* start when nothing is. A request waits between polls ("poll"), for producer_gate
\* ("gate"), in start_producer ("permit"), for scout ("link"), or for its files to be
\* opened ("open"): chain are those that are not yet.
VARIABLES
  i,      \* Session::inner
  run,    \* ffmpeg itself: how far it has written, and whether it has exited
  req     \* what each request does

vars == <<i, run, req>>

NoRun == [at |-> 0, exit |-> "no"]

Init ==
  /\ \E first \in Segs :
       i = [job |-> None, jobs |-> 0, gops |-> {}, finished |-> {}, want |-> first,
            ended |-> FALSE, bytes |-> 0, failures |-> 0, reresolved |-> FALSE]
  /\ run = NoRun
  /\ req = [r \in Req |-> [at |-> "free", seg |-> 0, chain |-> {}]]
-----------------------------------------------------------------------------
(* What the GOPs on disk give *)

\* The GOPs of g's run from g on, as far as there is no hole before the segment's end.
Chain(gops, g, n) ==
  {h \in gops : /\ h.job = g.job /\ h.pos >= g.pos /\ h.pos < End(n)
                /\ \A p \in g.pos..h.pos : [job |-> g.job, pos |-> p] \in gops}

\* Does that chain reach the segment's end, or the last GOP of a run that finished?
Complete(gops, finished, g, n) ==
  LET c == Chain(gops, g, n)
  IN  \/ [job |-> g.job, pos |-> End(n) - 1] \in c
      \/ /\ g.job \in finished
         /\ \A h \in gops : h.job = g.job /\ h.pos > g.pos => h \in c

\* ready_chain's candidates: a GOP on the segment's keyframe; for the first segment,
\* any that starts in it.
Begins(g, n) == g.pos = Start(n) \/ (n = 0 /\ g.pos < End(0))

\* Earlier, and of two runs' GOPs at one keyframe the older run's.
Before(g, h) == g.pos < h.pos \/ (g.pos = h.pos /\ g.job <= h.job)

\* ready_chain: the GOPs that answer segment n; {} if it is not ready.
ReadyChain(v, n) ==
  LET ok == {g \in v.gops : Begins(g, n) /\ Complete(v.gops, v.finished, g, n)}
  IN  IF ok = {} THEN {}
      ELSE Chain(v.gops, CHOOSE g \in ok : \A h \in ok : Before(g, h), n)

\* The segment playing at p.
SegAt(p) == CHOOSE n \in Segs : Start(n) <= p /\ (n = Last \/ p < Start(n + 1))

\* heads_for: will the job of v give segment n, given time?
HeadsFor(v, n) ==
  /\ v.job # None /\ ~v.job.exit
  /\ v.job.start <= Start(n)
  /\ n <= SegAt(v.job.next) + RestartGap
  /\ \/ v.job.next < End(n)
     \/ \E g \in v.gops : g.job = v.job.id /\ g.pos < End(n) /\ g.pos + 1 > Start(n)

\* restart_point: the nearest keyframe at or before n's that a seek lands on.
RestartPoint(n) ==
  LET ok == {m \in 1..n : m \notin TooClose}
  IN  IF ok = {} THEN 0 ELSE Start(CHOOSE m \in ok : \A k \in ok : k <= m)

\* Mutant: a paused run that heads for the segment is left to the gate.
ProducerNeededPaused(v, n) ==
  CASE v.ended -> "refuse"
    [] ~v.ended /\ HeadsFor(v, n) -> "no"
    [] OTHER -> IF v.failures > 0 /\ ~v.reresolved THEN "no"
                ELSE IF v.failures >= MaxFailures THEN "refuse" ELSE "yes"

\* producer_needed: "yes", "no", or "refuse".
ProducerNeeded(v, n) ==
  CASE v.ended -> "refuse"
    [] ~v.ended /\ HeadsFor(v, n) -> IF v.job.stopped THEN "yes" ELSE "no"
    [] OTHER -> IF v.failures > 0 /\ ~v.reresolved THEN "no"
                ELSE IF v.failures >= MaxFailures THEN "refuse" ELSE "yes"

\* refresh: the job's new GOPs, then its exit. A job already seen to exit adds nothing.
Refresh ==
  IF i.job = None \/ (i.job # None /\ i.job.exit) THEN i
  ELSE LET new == {[job |-> i.job.id, pos |-> p] : p \in i.job.next..(run.at - 1)}
           fails == IF new = {} THEN i.failures ELSE 0
           exited == run.exit # "no"
       IN  [i EXCEPT !.job = [@ EXCEPT !.next = run.at, !.exit = exited],
                     !.gops = @ \cup new,
                     !.bytes = @ + Cardinality(new),
                     !.finished = IF run.exit = "clean" THEN @ \cup {i.job.id} ELSE @,
                     !.failures = IF run.exit = "failed" /\ run.at = i.job.start
                                  THEN fails + 1 ELSE fails]

\* gate: paused once far enough ahead of want (or, over scratch's cap, past it),
\* resumed when it is not, if there is a permit.
Gate(v, full, permit) ==
  LET limit == IF v.want + Ahead < Last THEN End(v.want + Ahead) ELSE Film
      ahead == v.job.next >= limit \/ (full /\ v.job.next >= End(v.want))
  IN  IF v.job = None THEN v
      ELSE IF v.job.exit THEN v
      ELSE [v EXCEPT !.job.stopped = IF ahead THEN TRUE ELSE @ /\ ~permit]

\* Mutant: the segments around n, whoever wrote them.
KeptAround(v, n) ==
  LET lo == Start(IF n = 0 THEN 0 ELSE n - 1)
  IN  {g \in v.gops : g.pos + 1 >= lo /\ g.pos <= End(n)}

\* prune: what ends before the segment before n, and what other runs left far ahead.
Kept(v, n) ==
  LET lo == Start(IF n = 0 THEN 0 ELSE n - 1)
      hi == End(IF n + Ahead + 1 < Last THEN n + Ahead + 1 ELSE Last)
  IN  {g \in v.gops : /\ g.pos + 1 >= lo
                      /\ g.pos <= hi \/ (v.job # None /\ v.job.id = g.job)}

\* Mutant: a GOP counts on after it is deleted.
PruneUncounted(v, n) == [v EXCEPT !.gops = Kept(v, n)]

Prune(v, n) ==
  [v EXCEPT !.gops = Kept(v, n),
            !.bytes = @ - (Cardinality(v.gops) - Cardinality(Kept(v, n)))]
-----------------------------------------------------------------------------
(* ffmpeg, and the supervisor *)

\* The next GOP is whole on disk.
Write ==
  /\ i.job # None /\ ~i.job.stopped /\ run.exit = "no" /\ run.at < Film
  /\ run' = [run EXCEPT !.at = @ + 1]
  /\ UNCHANGED <<i, req>>

\* It exits, at the film's end or having failed.
Exit ==
  /\ i.job # None /\ ~i.job.stopped /\ run.exit = "no"
  /\ \E how \in {"clean", "failed"} :
       /\ how = "clean" <=> run.at = Film
       /\ how = "failed" => MayFail
       /\ run' = [run EXCEPT !.exit = how]
  /\ UNCHANGED <<i, req>>

Supervise(full, permit) ==
  /\ ~i.ended /\ i.job # None
  /\ i' = Gate(Refresh, full, permit)
  /\ UNCHANGED <<run, req>>

\* The supervisor, another session's start_producer: a silent session's job is taken.
TakeJob ==
  /\ ~i.ended /\ i.job # None /\ ~i.job.exit
  /\ \A r \in Req : req[r].at = "free"
  /\ i' = [i EXCEPT !.job = None] /\ run' = NoRun
  /\ UNCHANGED req

\* Session::end.
EndSession ==
  /\ ~i.ended
  /\ i' = [i EXCEPT !.ended = TRUE, !.bytes = 0, !.gops = {}, !.job = None]
  /\ run' = NoRun
  /\ UNCHANGED req
-----------------------------------------------------------------------------
(* serve_segment *)

At(r, where) == req' = [req EXCEPT ![r].at = where, ![r].chain = {}]

Ask(r, n) ==
  /\ ~i.ended /\ req[r].at = "free"
  /\ req' = [req EXCEPT ![r] = [at |-> "poll", seg |-> n, chain |-> {}]]
  /\ UNCHANGED <<i, run>>

\* The answer is 410, 502 or 503, or nobody waits for one any more.
Leave(r) ==
  /\ req[r].at # "free"
  /\ At(r, "free")
  /\ UNCHANGED <<i, run>>

NeedsLink == ~i.ended /\ i.failures > 0 /\ ~i.reresolved

\* reresolve_if_needed: scout is asked for a fresh link, once.
AskLink(r) ==
  /\ req[r].at = "poll" /\ NeedsLink
  /\ i' = [i EXCEPT !.reresolved = TRUE]
  /\ At(r, "link")
  /\ UNCHANGED run

GotLink(r) == req[r].at = "link" /\ At(r, "poll") /\ UNCHANGED <<i, run>>

\* One look: the segment is ready, or being made, or a producer is to be started.
Poll(r, full, permit) ==
  LET n == req[r].seg
      v == [Refresh EXCEPT !.want = n]
      chain == ReadyChain(v, n)
      needed == ProducerNeeded(v, n)
  IN  /\ req[r].at = "poll" /\ ~NeedsLink /\ ~i.ended
      /\ i' = IF chain = {} /\ needed = "refuse" THEN v ELSE Gate(v, full, permit)
      /\ req' = [req EXCEPT ![r].at = CASE chain # {} -> "open"
                                        [] chain = {} /\ needed = "yes" -> "gate"
                                        [] chain = {} /\ needed = "no" -> "poll"
                                        [] OTHER -> "free",
                            ![r].chain = chain]
      /\ UNCHANGED run

First(c) == CHOOSE g \in c : \A h \in c : g.pos <= h.pos

\* open_parts, beside the runtime's thread: the next file of the chain is opened, and may
\* then be deleted. An ended session's are there until its directory is removed.
OpenNext(r) ==
  LET c == req[r].chain
  IN  /\ req[r].at = "open" /\ c # {} /\ (First(c) \in i.gops \/ i.ended)
      /\ req' = [req EXCEPT ![r].chain = c \ {First(c)}]
      /\ UNCHANGED <<i, run>>

\* The files are open: sent, and what is outside the window around n deleted.
Send(r, full, permit) ==
  /\ req[r].at = "open" /\ req[r].chain = {}
  /\ i' = Gate(Prune(i, req[r].seg), full, permit)
  /\ At(r, "free")
  /\ UNCHANGED run

\* Mutant: the same files are tried until they open.
OpenAgain(r) ==
  /\ req[r].at = "open" /\ req[r].chain # {} /\ First(req[r].chain) \notin i.gops
  /\ UNCHANGED vars

\* One was deleted before it was opened: the request looks again.
LookAgain(r) ==
  /\ req[r].at = "open" /\ req[r].chain # {} /\ First(req[r].chain) \notin i.gops
  /\ At(r, "poll")
  /\ UNCHANGED <<i, run>>

\* start_producer past the gate: what run there is is taken and stopped.
StartProducer(r) ==
  LET n == req[r].seg
  IN  /\ req[r].at = "gate"
      /\ \A q \in Req : req[q].at # "permit"
      /\ IF ProducerNeeded(Refresh, n) = "yes"
         THEN i' = [Refresh EXCEPT !.job = None] /\ run' = NoRun /\ At(r, "permit")
         ELSE i' = Refresh /\ At(r, "poll") /\ UNCHANGED run

\* ensure_job with a permit: a new run from n's restart point, unless it is not needed
\* any more, or ffmpeg will not start.
Spawn(r) ==
  LET n == req[r].seg
  IN  /\ req[r].at = "permit" /\ i.jobs < MaxJobs
      /\ At(r, "poll")
      /\ IF ProducerNeeded(i, n) = "yes"
         THEN \/ /\ MayFail
                 /\ i' = [i EXCEPT !.jobs = @ + 1, !.failures = @ + 1]
                 /\ UNCHANGED run
              \/ /\ i' = [i EXCEPT !.jobs = @ + 1,
                                   !.job = [id |-> i.jobs + 1, start |-> RestartPoint(n),
                                            next |-> RestartPoint(n), stopped |-> FALSE,
                                            exit |-> FALSE]]
                 /\ run' = [at |-> RestartPoint(n), exit |-> "no"]
         ELSE UNCHANGED <<i, run>>

\* What a request does next, once it is polled.
Goes(r) ==
  \/ AskLink(r) \/ GotLink(r) \/ OpenNext(r) \/ LookAgain(r) \/ StartProducer(r) \/ Spawn(r)
  \/ \E full, permit \in BOOLEAN : Poll(r, full, permit) \/ Send(r, full, permit)

Supervises == \E full, permit \in BOOLEAN : Supervise(full, permit)

Next ==
  \/ Write \/ Exit \/ TakeJob \/ EndSession \/ Supervises
  \/ \E r \in Req : (\E n \in Asked : Ask(r, n)) \/ Leave(r) \/ Goes(r)

(***************************************************************************)
(* ffmpeg gets on with a GOP over the times it is let run (strong fairness: a   *)
(* pause keeps what it has done); the runtime polls what is ready; scout      *)
(* answers or times out; a permit comes (module Producers); producer_gate, a   *)
(* tokio Mutex, is had in the order it is asked for, so none waits for it     *)
(* while others have it again and again. A player need not ask, nor wait.     *)
(***************************************************************************)
Fairness ==
  /\ SF_vars(Write \/ Exit) /\ WF_vars(Supervises)
  /\ \A r \in Req : /\ WF_vars(Goes(r) \/ (i.ended /\ Leave(r)))
                    /\ SF_vars(StartProducer(r))

Spec == Init /\ [][Next]_vars
FairSpec == Spec /\ Fairness
-----------------------------------------------------------------------------
(* Properties *)

\* The session's share of scratch_bytes is the GOPs it still has on disk, whoever
\* pruned, read and ended it in whatever order: a byte too many for good would pause
\* every session's run, one too few lets the disk fill.
BytesExact == i.bytes = Cardinality(i.gops)

\* Of the current run's GOPs a request deletes only from the front: what the run has
\* written since its oldest GOP is all there, so that the segment another request
\* waits for on this run comes whole.
CurrentRunWhole ==
  i.job # None =>
    \A g \in i.gops : g.job = i.job.id =>
      \A p \in g.pos..(i.job.next - 1) : [job |-> g.job, pos |-> p] \in i.gops

\* A request is always answered, by its segment or an error, without its deadline: whatever
\* ran or was pruned before, and though another request deletes what it found before it has
\* opened it, a run comes that gives it (or the bound on runs keeps it from coming).
Answered ==
  \A r \in Req :
    req[r].at # "free" ~> \/ req[r].at = "free"
                          \/ req[r].at \in {"gate", "permit"} /\ i.jobs = MaxJobs
=============================================================================
