------------------------------- MODULE Lifetime -------------------------------
(***************************************************************************)
(* Admission over time: when a published session ends by itself, and what    *)
(* its URL answers afterwards.  Each session has a supervisor that sleeps    *)
(* until the session would be idle or past its expiry; requests put that off *)
(* and a heartbeat may bring it nearer.  An ended session leaves a tombstone *)
(* with its expiry.  Time goes on in ticks, a supervisor that is due looks   *)
(* within one.                                                              *)
(***************************************************************************)
EXTENDS Admission

CONSTANTS
  UnattendedIdle, \* UNATTENDED_IDLE, in ticks
  SessionIdle,    \* SESSION_IDLE_SECS
  Lives,          \* how long URLs are signed for: the film's length and a grace
  TombstonesMax   \* TOMBSTONES_MAX

\* config.rs takes any SESSION_IDLE_SECS from 30 s, less than UNATTENDED_IDLE too.
ASSUME IdleAssumption == UnattendedIdle \in Nat \ {0} /\ SessionIdle \in Nat \ {0}
ASSUME LivesAssumption == Lives \subseteq Nat \ {0} /\ TombstonesMax \in Nat

VARIABLES
  life,        \* a published session's times, see Life
  left,        \* ticks until Session::exp
  tombstones   \* AppState::tombstones: the sids; each one's expiry is in left

life_vars == <<life, left, tombstones>>
all_vars == <<vars, life_vars>>

\* age: since the later of last_seen and last_heartbeat; beaten: the heartbeat is the
\* later; played: segments_served > 0; alarm: until the supervisor's sleep is over.
Life == [age : Nat, beaten : BOOLEAN, played : BOOLEAN, alarm : Nat]
Fresh == [age |-> 0, beaten |-> FALSE, played |-> FALSE, alarm |-> 0]

\* Inner::idle_deadline, from the later of the two instants.
Patience(l) == IF l.beaten \/ ~l.played THEN UnattendedIdle ELSE SessionIdle
IdleIn(s) == Monus(Patience(life[s]), life[s].age)

-----------------------------------------------------------------------------
(* The end of a session                                                       *)

\* Slip a change could make: tombstones whose URLs have expired keep their places.
RetainedAll == tombstones
Retained == {t \in tombstones : left[t] > 0}

\* end_removed: s leaves a tombstone, where there is room for one.
Bury(s) ==
  tombstones' = IF Cardinality(Retained) < TombstonesMax THEN Retained \cup {s} ELSE Retained

\* What a step of Admission does to the times: who leaves the map has none, and of
\* those it takes to their end each is buried.
Removed == {s \in Sid : phase[s] # "ending" /\ phase'[s] = "ending"}
Follows ==
  /\ life' = [s \in Sid |-> IF phase'[s] = "published" THEN life[s] ELSE Fresh]
  /\ IF Removed = {} THEN UNCHANGED tombstones ELSE \E s \in Removed : Bury(s)
  /\ UNCHANGED left

-----------------------------------------------------------------------------
(* Requests to a published session's URL (session_route)                      *)

\* It has been heard of; a supervisor that is woken looks at once.
After(l, beaten, wakes) ==
  [l EXCEPT !.age = 0, !.beaten = beaten, !.alarm = IF wakes THEN 0 ELSE l.alarm]

Live(s) == phase[s] = "published" /\ left[s] > 0

\* A playlist, a subtitle or the link's measure: touch(). A segment or the init file
\* that is asked for wakes the supervisor too.
Touch(s, wakes) ==
  /\ Live(s)
  /\ life' = [life EXCEPT ![s] = After(@, FALSE, wakes)]
  /\ UNCHANGED <<vars, left, tombstones>>

\* Slip a change could make: the heartbeat is only written down.
HeartbeatUnheard(s) ==
  /\ Live(s)
  /\ life' = [life EXCEPT ![s] = After(@, TRUE, FALSE)]
  /\ UNCHANGED <<vars, left, tombstones>>

\* POST heartbeat.
Heartbeat(s) ==
  /\ Live(s)
  /\ life' = [life EXCEPT ![s] = After(@, TRUE, TRUE)]
  /\ UNCHANGED <<vars, left, tombstones>>

\* A segment is sent: counted if the session is still there, and a replacement takes over.
Played(s) ==
  /\ phase[s] = "published"
  /\ ~life[s].played
  /\ life' = [life EXCEPT ![s].played = TRUE]
  /\ UNCHANGED <<vars, left, tombstones>>

TakesOverNow(s) == Served(s) /\ Follows

\* DELETE, end, report; any request past the expiry.
Deletes(s) == EndSession(s, "request") /\ Follows

-----------------------------------------------------------------------------
(* The supervisor, and the clock                                              *)

\* supervise: ends what is idle or expired, else sleeps until it would be, or a moment
\* while ffmpeg runs or is parked.
Ends(s) ==
  /\ phase[s] = "published" /\ life[s].alarm = 0
  /\ IdleIn(s) = 0 \/ left[s] = 0
  /\ EndSession(s, "task") /\ Follows

Sleeps(s, running) ==
  /\ phase[s] = "published" /\ life[s].alarm = 0
  /\ IdleIn(s) > 0 /\ left[s] > 0
  /\ life' = [life EXCEPT ![s].alarm = CASE running -> 1
                                         [] ~running /\ IdleIn(s) <= left[s] -> IdleIn(s)
                                         [] OTHER -> left[s]]
  /\ UNCHANGED <<vars, left, tombstones>>

\* A tick, in which no supervisor is due.
Tick ==
  /\ \A s \in Sessions : life[s].alarm > 0
  /\ life' = [s \in Sid |-> IF phase[s] # "published" THEN life[s]
                            ELSE [life[s] EXCEPT !.age = @ + 1, !.alarm = @ - 1]]
  /\ left' = [s \in Sid |-> Monus(left[s], 1)]
  /\ UNCHANGED <<vars, tombstones>>

-----------------------------------------------------------------------------
LifeInit ==
  /\ Init
  /\ life = [s \in Sid |-> Fresh]
  /\ left = [s \in Sid |-> 0]
  /\ tombstones = {}

\* create publishes s, its URL signed for n, and starts its supervisor.
Opens(s, n) ==
  /\ Publish(s)
  /\ life' = [life EXCEPT ![s] = Fresh]
  /\ left' = [left EXCEPT ![s] = n]
  /\ UNCHANGED tombstones

Fails(s) == Abandon(s) /\ Follows
Cleans(s) == CleanupNext(s) /\ Follows
Settles(s) == (Ended(s) \/ CancelRequest(s)) /\ Follows
GivesUp(s) == GraceOver(s) /\ Follows
Kills(o) == EndOwnerNext(o) /\ Follows

LifeNext ==
  \/ \E s \in Sid, r \in Sid \cup {None} : Reserve(s, r) /\ Follows
  \/ \E s \in Sid, n \in Lives : Opens(s, n)
  \/ \E s \in Sid : \/ Fails(s) \/ Cleans(s) \/ Settles(s) \/ GivesUp(s)
                    \/ \E wakes \in BOOLEAN : Touch(s, wakes)
                    \/ Heartbeat(s) \/ Played(s) \/ TakesOverNow(s) \/ Deletes(s)
                    \/ Ends(s) \/ \E running \in BOOLEAN : Sleeps(s, running)
  \/ \E o \in Grants : EndOwner(o) /\ Follows
  \/ \E o \in Grants : Kills(o)
  \/ Tick

LifeSpec == LifeInit /\ [][LifeNext]_all_vars

\* Admission's fairness; the clock goes on, and a supervisor looks.
LifeFairness ==
  /\ \A s \in Sid : /\ WF_all_vars(Fails(s) \/ \E n \in Lives : Opens(s, n))
                    /\ WF_all_vars(Cleans(s))
                    /\ WF_all_vars(Settles(s))
                    /\ WF_all_vars(GivesUp(s))
                    /\ WF_all_vars(Ends(s) \/ \E running \in BOOLEAN : Sleeps(s, running))
  /\ \A o \in Owner : WF_all_vars(Kills(o))
  /\ WF_all_vars(Tick)

LifeFairSpec == LifeSpec /\ LifeFairness
-----------------------------------------------------------------------------
(* Properties *)

Longest(l) == IF Patience(l) > UnattendedIdle THEN Patience(l) ELSE UnattendedIdle
GoneIn(s) == Monus(Longest(life[s]), life[s].age)

\* Silence ends a session on time, whatever was asked of it in whatever order before: none
\* sleeps past the instant its URL expires, nor past the one it becomes idle at, also where
\* a heartbeat has brought that nearer than when the supervisor went to sleep (heartbeat's
\* comment: "reschedules its sleep now, not on whatever it next wakes for").  What else may
\* bring it nearer wakes nobody: a request after a heartbeat, a first segment.  That happens
\* only where SESSION_IDLE_SECS is less than UNATTENDED_IDLE, and then it is UNATTENDED_IDLE
\* after it was last heard of that none sleeps past.
InTime == \A s \in Sessions : life[s].alarm <= GoneIn(s) /\ life[s].alarm <= left[s]

\* Who holds the URL of a session that ended is told so until it expires: every session
\* leaves a tombstone unless TOMBSTONES_MAX of others are still in force, and none goes before
\* its time (README: an ended session answers 410).
GoneIsSaid ==
  [][\A s \in Sid :
       /\ s \in Removed /\ left[s] > 0 =>
            s \in tombstones' \/ Cardinality({t \in tombstones : left[t] > 0}) >= TombstonesMax
       /\ s \in tombstones /\ left[s] > 0 => s \in tombstones']_all_vars
===============================================================================
