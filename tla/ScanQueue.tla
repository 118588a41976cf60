------------------------------ MODULE ScanQueue ------------------------------
(***************************************************************************)
(* The scan for intros and credits (src/src/segments.rs): the queue and its  *)
(* daily budget, the one worker that takes from it, and what a scan of an    *)
(* episode and its sibling stores for them and for their season. Of one      *)
(* season here; what its fingerprints match is a choice. A result written by *)
(* an earlier method counts as none, as it does for the code. A file is      *)
(* written whole or, where the write fails, left as it was.                  *)
(***************************************************************************)
EXTENDS Integers, Sequences, FiniteSets

CONSTANTS
  Last,        \* the last episode anybody asks for (bound)
  Unlisted,    \* those scout may list no cached release of
  Own,         \* those asked for with an install of the asker's
  Kind,        \* what is looked for: the intro, the credits
  QueueMax,    \* QUEUE_MAX
  Cap,         \* SEGMENTS_DAILY_CAP
  Days,        \* the days of a run (bound)
  Requests     \* the episodes requests are about to enqueue at once (bound)

ASSUME LastAssumption == Last \in Nat \ {0}
ASSUME EpisodeAssumption == Unlisted \subseteq 1..(Last + 1) /\ Own \subseteq 1..Last
ASSUME LimitsAssumption ==
  /\ QueueMax \in Nat \ {0} /\ Cap \in Nat
  /\ Days \in Nat \ {0} /\ Requests \in Nat

VARIABLES
  queue,         \* Inner's: the episodes waiting, in order
  installs,      \* those of them an install is kept for
  running,
  day,
  used,
  wake,          \* Segments::wake holds a permit
  asked,         \* episodes that requests found no result of and are about to enqueue
  today,
  transcoding,   \* is AppState::transcodes more than 0?
  at,            \* where the worker is, see Steps
  ep,            \* the episode it scans, and the sibling it scans beside it
  sib,
  found,         \* what the scan found for ep, and for sib
  foundSib,
  season,        \* the kinds the season's file has a fingerprint of
  stored         \* per episode: its file, a set of kinds, or Nothing

memory == <<queue, installs, running, day, used, wake, asked>>
worker == <<at, ep, sib, found, foundSib>>
disk == <<season, stored>>
vars == <<memory, worker, disk, today, transcoding>>

Episode == 1..(Last + 1)
None == 0
Nothing == {None}
Members(q) == {q[k] : k \in 1..Len(q)}

\* "taken" waits for transcodes to end; "list" and "decode" fingerprint an episode, the
\* "Sib" ones its sibling; "match" is before the season's file is written, "saveEp" after.
Steps == {"look", "waiting", "taken", "list", "decode", "listSib", "decodeSib", "match",
          "saveEp", "saveSib"}

Idle == [at |-> "look", ep |-> None, sib |-> None, found |-> {}, foundSib |-> {}]
Worker(w) ==
  /\ at' = w.at /\ ep' = w.ep /\ sib' = w.sib
  /\ found' = w.found /\ foundSib' = w.foundSib
Goes(step) == at' = step /\ UNCHANGED <<ep, sib, found, foundSib>>

Init ==
  /\ queue = <<>> /\ installs = {} /\ running = {} /\ day = 0 /\ used = 0
  /\ wake = FALSE /\ asked = {} /\ today = 1 /\ transcoding = FALSE
  /\ at = "look" /\ ep = None /\ sib = None /\ found = {} /\ foundSib = {}
  /\ season = {} /\ stored = [e \in Episode |-> Nothing]
-----------------------------------------------------------------------------
(* Requests *)

\* scan_route: the episode is neither queued nor running; then its result is read.
Ask(e) ==
  /\ e \notin running \cup Members(queue)
  /\ stored[e] = Nothing
  /\ Cardinality(asked \cup {e}) <= Requests
  /\ asked' = asked \cup {e}
  /\ UNCHANGED <<queue, installs, running, day, used, wake, worker, disk, today, transcoding>>

\* Mutant: the worker is not told.
NotifyNobody == UNCHANGED wake

Notify == wake' = TRUE

\* May e be queued?
Room(e) ==
  /\ e \notin running \cup Members(queue)
  /\ Len(queue) < QueueMax
  /\ ~(day = today /\ used >= Cap)

\* Segments::enqueue, for one of the requests for e.
Enqueue(e) ==
  /\ e \in asked
  /\ asked' \in {asked, asked \ {e}}
  /\ IF Room(e)
     THEN /\ queue' = Append(queue, e)
          /\ installs' = installs \cup ({e} \cap Own)
          /\ Notify
     ELSE UNCHANGED <<queue, installs, wake>>
  /\ UNCHANGED <<running, day, used, worker, disk, today, transcoding>>
-----------------------------------------------------------------------------
(* The worker *)

\* Segments::next: the head of the queue, or the permit is awaited.
NextEpisode ==
  /\ \/ at = "look" /\ UNCHANGED wake
     \/ at = "waiting" /\ wake /\ wake' = FALSE
  /\ IF queue = <<>>
     THEN Goes("waiting") /\ UNCHANGED <<queue, installs, running>>
     ELSE LET e == Head(queue)
          IN  /\ queue' = Tail(queue) /\ running' = running \cup {e}
              /\ installs' = installs \ {e}
              /\ Worker([Idle EXCEPT !.at = "taken", !.ep = e])
  /\ UNCHANGED <<day, used, asked, disk, today, transcoding>>

\* The scan is over, and worker releases its episode.
Done(held) ==
  /\ running' = running \ held
  /\ Worker(Idle)

\* worker starts the scan once no transcode runs; an episode with a result is left.
Start ==
  /\ at = "taken" /\ ~transcoding
  /\ IF stored[ep] = Nothing
     THEN Goes("list") /\ UNCHANGED running
     ELSE Done({ep})
  /\ UNCHANGED <<queue, installs, day, used, wake, asked, disk, today, transcoding>>

Used == IF day = today THEN used ELSE 0
Spent == Used >= Cap

\* Segments::spend: a unit of the day's budget; none left, the queue is emptied.
Spend ==
  /\ day' = today
  /\ used' = IF Spent THEN Used ELSE Used + 1
  /\ IF Spent
     THEN queue' = <<>> /\ installs' = {}
     ELSE UNCHANGED <<queue, installs>>

\* fingerprint's list of releases is there: ep's windows are decoded, or the scan ends
\* for want of a release, or of budget.
ListEp(listed) ==
  /\ at = "list"
  /\ listed \/ ep \in Unlisted
  /\ IF listed THEN Spend ELSE UNCHANGED <<queue, installs, day, used>>
  /\ IF listed /\ ~Spent THEN Goes("decode") /\ UNCHANGED running ELSE Done({ep})
  /\ UNCHANGED <<wake, asked, disk, today, transcoding>>

\* No answer of scout's, no release that opens, or no windows within SCAN_TIMEOUT.
FailEp ==
  /\ at \in {"list", "decode"}
  /\ Done({ep})
  /\ UNCHANGED <<queue, installs, day, used, wake, asked, disk, today, transcoding>>

\* ep's windows are fingerprinted; where the season lacks one, a sibling's are next.
DecodedEp ==
  /\ at = "decode"
  /\ IF Kind \subseteq season
     THEN Goes("match") /\ UNCHANGED running
     ELSE /\ Worker([Idle EXCEPT !.at = "listSib", !.ep = ep, !.sib = ep + 1])
          /\ running' = running \cup {ep + 1}
  /\ UNCHANGED <<queue, installs, day, used, wake, asked, disk, today, transcoding>>

\* Mutant: the sibling that has no release is held for good.
HoldsOn == running

Released == running \ {sib}

\* The scan goes on with ep alone.
Alone == Worker([Idle EXCEPT !.at = "match", !.ep = ep])

\* As ListEp, for the sibling: where the next episode has no release, the one before.
ListSib(listed) ==
  /\ at = "listSib"
  /\ listed \/ sib \in Unlisted
  /\ IF listed THEN Spend ELSE UNCHANGED <<queue, installs, day, used>>
  /\ CASE listed /\ ~Spent -> Goes("decodeSib") /\ UNCHANGED running
       [] ~listed /\ sib > ep /\ ep > 1 ->
            /\ Worker([Idle EXCEPT !.at = "listSib", !.ep = ep, !.sib = ep - 1])
            /\ running' = Released \cup {ep - 1}
       [] OTHER -> Alone /\ running' = Released
  /\ UNCHANGED <<wake, asked, disk, today, transcoding>>

FailSib ==
  /\ at \in {"listSib", "decodeSib"}
  /\ Alone /\ running' = Released
  /\ UNCHANGED <<queue, installs, day, used, wake, asked, disk, today, transcoding>>

DecodedSib ==
  /\ at = "decodeSib"
  /\ Goes("match") /\ running' = Released
  /\ UNCHANGED <<queue, installs, day, used, wake, asked, disk, today, transcoding>>

\* match_episodes, and the season's file: a kind the season has is looked for in each;
\* one it has not, in the pair, which gives it to both and to the season.
Match(f, g, written) ==
  /\ at = "match"
  /\ IF sib = None THEN f \subseteq season /\ g = {} ELSE f \ season = g \ season
  /\ season' = IF written THEN season \cup f ELSE season
  /\ at' = "saveEp" /\ found' = f /\ foundSib' = g
  /\ UNCHANGED <<memory, ep, sib, stored, today, transcoding>>

\* Mutant: what was found before is lost.
Overwrite(old, new) == new

\* save's result: what is found is added to what was.
Merge(old, new) == new \cup (old \ Nothing)

\* save, for ep, and then for the sibling, held again.
SaveEp(written) ==
  /\ at = "saveEp"
  /\ stored' = IF written THEN [stored EXCEPT ![ep] = Merge(stored[ep], found)] ELSE stored
  /\ IF sib = None
     THEN Done({ep})
     ELSE running' = running \cup {sib} /\ Goes("saveSib")
  /\ UNCHANGED <<queue, installs, day, used, wake, asked, season, today, transcoding>>

SaveSib(written) ==
  /\ at = "saveSib"
  /\ stored' = IF written THEN [stored EXCEPT ![sib] = Merge(stored[sib], foundSib)] ELSE stored
  /\ Done({ep, sib})
  /\ UNCHANGED <<queue, installs, day, used, wake, asked, season, today, transcoding>>
-----------------------------------------------------------------------------
(* Around them *)

\* A transcode starts, or the last one ends.
Transcode ==
  /\ transcoding' = ~transcoding
  /\ UNCHANGED <<memory, worker, disk, today>>

NewDay ==
  /\ today < Days
  /\ today' = today + 1
  /\ UNCHANGED <<memory, worker, disk, transcoding>>

\* The server stops anywhere and starts again: only its files are kept.
Restart ==
  /\ queue' = <<>> /\ installs' = {} /\ running' = {} /\ day' = 0 /\ used' = 0
  /\ wake' = FALSE /\ asked' = {} /\ transcoding' = FALSE
  /\ Worker(Idle)
  /\ UNCHANGED <<disk, today>>

Work ==
  \/ NextEpisode \/ Start \/ FailEp \/ DecodedEp \/ FailSib \/ DecodedSib
  \/ \E listed \in BOOLEAN : ListEp(listed) \/ ListSib(listed)
  \/ \E f, g \in SUBSET Kind, written \in BOOLEAN : Match(f, g, written)
  \/ \E written \in BOOLEAN : SaveEp(written) \/ SaveSib(written)

Next ==
  \/ \E e \in 1..Last : Ask(e) \/ Enqueue(e)
  \/ Work \/ Transcode \/ NewDay \/ Restart

\* The worker is polled, scout answers or times out, and ffmpeg is killed at the limit.
Spec == Init /\ [][Next]_vars
FairSpec == Spec /\ WF_vars(Work)
-----------------------------------------------------------------------------
(* Properties *)

\* No episode waits twice, an install, a credential, is kept for no episode that no longer
\* waits (segments.rs:431-433), and whatever fails, an episode is answered "running" only
\* while it is being scanned, or its sibling's scan stores it: none is left so for ever.
QueueExact ==
  /\ Cardinality(Members(queue)) = Len(queue) /\ Len(queue) <= QueueMax
  /\ installs \subseteq Members(queue)
  /\ running = (IF ep = None THEN {} ELSE {ep})
               \cup (IF at \in {"listSib", "decodeSib", "saveSib"} THEN {sib} ELSE {})

\* segments.rs:653: what was found for an episode is never replaced by nothing, by its
\* own scan or a sibling's, whatever the order and wherever the server stopped.
FoundIsKept == [][\A e \in Episode : stored[e] \ Nothing \subseteq stored'[e]]_vars

\* Where transcodes do not go on for ever, the worker gets to every queued episode: no
\* request's notification is lost.
QueuedIsTaken ==
  <>[]~transcoding => \A e \in Episode : e \in Members(queue) ~> e \notin Members(queue)
=============================================================================
