------------------------------ MODULE Admission ------------------------------
(***************************************************************************)
(* Who may have a session, and how one ends: AppState's maps of published   *)
(* sessions, reservations and replacements (src/src/state.rs), the part of  *)
(* session::create that holds a reservation, and the routes, tasks and      *)
(* timers that end a session.                                               *)
(*                                                                         *)
(* The runtime has one thread (main.rs builds current_thread), so the code  *)
(* between two awaits is one step; every await is a point where any other   *)
(* step may come first, and where a request may be cancelled: hyper drops   *)
(* the handler of a connection that closes.                                 *)
(***************************************************************************)
EXTENDS Integers, FiniteSets

CONSTANTS
  Owner,          \* browsers, installs and guest grants
  Sid,            \* session ids; create mints one before it reserves
  OwnerOf,        \* whom a session counts against
  Share,          \* how many sessions an owner plays at once
  MaxSessions,    \* MAX_SESSIONS
  Grants,         \* the owners that are guest grants, which the admin may end
  None            \* the absent session id

ASSUME OwnerAssumption == OwnerOf \in [Sid -> Owner]
ASSUME ShareAssumption == Share \in [Owner -> Nat \ {0}]
ASSUME MaxSessionsAssumption == MaxSessions \in Nat \ {0}
ASSUME GrantsAssumption == Grants \subseteq Owner
ASSUME NoneAssumption == None \notin Sid /\ \A a, b \in Sid \cup {None} : None # [old |-> a, new |-> b]

VARIABLES
  phase,         \* where a session is in its life, see Phases
  started,       \* Session::started: an instant, later for later sessions
  now,           \* the clock started is read from
  replaces,      \* Slot::replaces: what the session set up in a slot replaces
  replacements,  \* owner -> Replacement under way
  graceTimers,   \* sessions whose replacement_started timer still sleeps
  cleanups,      \* slot -> sessions its reservation took out of the map, to be ended
  ender,         \* what runs end_removed for a session: a task or a request
  kills          \* owner -> the sids end_owner has yet to look at

vars == <<phase, started, now, replaces, replacements, graceTimers, cleanups,
          ender, kills>>

(***************************************************************************)
(* "setup" holds a Slot, "published" is in the sessions map, "detached" was  *)
(* taken out by a reservation and waits for its cleanup task, "ending" has   *)
(* ended = true and its ffmpeg being reaped, "ended" has its directory       *)
(* deleted, "stranded" lost the request that was ending it, "failed" is a    *)
(* create that never published.                                             *)
(***************************************************************************)
Phases == {"new", "setup", "published", "detached", "ending", "ended",
           "stranded", "failed"}

\* task: a spawned task or timer; request: a handler; kill: the admin's handler.
Enders == {"task", "request", "kill"}

Replacement == [old : Sid, new : Sid \cup {None}]

In(p) == {s \in Sid : phase[s] = p}
Sessions == In("published")
Creating == In("setup")
Mine(o) == {s \in Sessions : OwnerOf[s] = o}
Pending(o) == {s \in Creating : OwnerOf[s] = o}
Load(o) == Cardinality(Mine(o)) + Cardinality(Pending(o))

Monus(a, b) == IF a > b THEN a - b ELSE 0

\* Mutant: an owner's own reservations are not counted.
ExcessAtIgnoringPending(o, share) == Monus(Cardinality(Mine(o)) + 1, share)

\* excess_at: how many of the owner's sessions must go for one more within share.
ExcessAt(o, share) == Monus(Load(o) + 1, share)

\* Mutant: places that other starts hold are taken for free.
FitsIgnoringReservations(excess) == Cardinality(Sessions) - excess < MaxSessions

\* fits: is there room on the server once excess sessions are gone?
Fits(excess) ==
  Cardinality(Sessions) - excess + Cardinality(Creating) < MaxSessions

\* The n sessions of o that started first.
Oldest(o, n) ==
  {E \in SUBSET Mine(o) :
     /\ Cardinality(E) = n
     /\ \A e \in E, k \in Mine(o) \ E : started[e] < started[k]}

\* Does a replacement of o name s as its old or its new session?
Names(r, s) == r # None /\ (r.old = s \/ r.new = s)

\* end_removed's retain.
Forget(s) == [o \in Owner |-> IF Names(replacements[o], s) THEN None ELSE replacements[o]]

Init ==
  /\ phase = [s \in Sid |-> "new"]
  /\ started = [s \in Sid |-> 0]
  /\ now = 1
  /\ replaces = [s \in Sid |-> None]
  /\ replacements = [o \in Owner |-> None]
  /\ graceTimers = {}
  /\ cleanups = [s \in Sid |-> {}]
  /\ ender = [s \in Sid |-> "task"]
  /\ kills = [o \in Owner |-> {}]
-----------------------------------------------------------------------------
(* AppState::reserve and the Slot it returns *)

\* May o start a session that names r as the one it replaces?
MayReserve(o, r) ==
  /\ Cardinality(Pending(o)) < Share[o]
  /\ r \in Sessions => OwnerOf[r] = o /\ replacements[o] = None

\* A published session named by its owner is kept, one past the share, where it fits.
Keeps(o, r) == r \in Sessions /\ Fits(ExcessAt(o, Share[o] + 1))

\* Mutant: the kept session gets no extra place.
AllowanceWithoutPlace(o, r) == Share[o]

Allowance(o, r) == IF Keeps(o, r) THEN Share[o] + 1 ELSE Share[o]

\* create reserves for s, asked to replace r; a refusal changes nothing.
Reserve(s, r) ==
  LET o == OwnerOf[s]
      excess == ExcessAt(o, Allowance(o, r))
  IN  /\ phase[s] = "new"
      /\ MayReserve(o, r)
      /\ Fits(excess)
      /\ \E E \in Oldest(o, excess) :
           /\ phase' = [x \in Sid |-> IF x = s THEN "setup"
                                      ELSE IF x \in E THEN "detached" ELSE phase[x]]
           /\ cleanups' = [cleanups EXCEPT ![s] = E]
      /\ replaces' = [replaces EXCEPT ![s] = IF Keeps(o, r) THEN r ELSE None]
      /\ replacements' =
           IF Keeps(o, r) THEN [replacements EXCEPT ![o] = [old |-> r, new |-> None]]
           ELSE replacements
      /\ UNCHANGED <<started, now, graceTimers, ender, kills>>

\* Mutant: a replacement that never started stays under way.
DropSlotOnly(s) == replaces' = [replaces EXCEPT ![s] = None] /\ UNCHANGED replacements

\* The slot of s is dropped: its owner may replace again if s was never set up.
DropSlot(s) ==
  LET o == OwnerOf[s]
      r == replacements[o]
  IN  /\ replaces' = [replaces EXCEPT ![s] = None]
      /\ replacements' =
           IF replaces[s] # None /\ r # None /\ r.old = replaces[s] /\ r.new = None
           THEN [replacements EXCEPT ![o] = None] ELSE replacements

\* Mutant: the cleanup runs in the request, and goes with it.
AbandonWithCleanup(s) ==
  /\ phase[s] = "setup"
  /\ phase' = [phase EXCEPT ![s] = "failed"]
  /\ cleanups' = [cleanups EXCEPT ![s] = {}]
  /\ DropSlot(s)
  /\ UNCHANGED <<started, now, graceTimers, ender, kills>>

\* create fails after it reserved, or its request is cancelled; the spawned
\* cleanup of what it evicted goes on.
Abandon(s) ==
  /\ phase[s] = "setup"
  /\ phase' = [phase EXCEPT ![s] = "failed"]
  /\ DropSlot(s)
  /\ UNCHANGED <<started, now, graceTimers, cleanups, ender, kills>>

\* Is the replacement s was reserved for still under way?
TakesOver(s) ==
  /\ replaces[s] # None
  /\ replacements[OwnerOf[s]] # None
  /\ replacements[OwnerOf[s]].old = replaces[s]

\* Mutant: no timer for a replacement that never plays.
PublishWithoutTimer(s) ==
  /\ phase[s] = "setup" /\ cleanups[s] = {}
  /\ phase' = [phase EXCEPT ![s] = "published"]
  /\ started' = [started EXCEPT ![s] = now] /\ now' = now + 1
  /\ replaces' = [replaces EXCEPT ![s] = None]
  /\ replacements' = IF TakesOver(s) THEN [replacements EXCEPT ![OwnerOf[s]].new = s]
                     ELSE replacements
  /\ UNCHANGED <<graceTimers, cleanups, ender, kills>>

\* create inserts the session, replacement_started arms the timer, the slot goes.
\* It got here only once the cleanup reserve waits for was done.
Publish(s) ==
  /\ phase[s] = "setup"
  /\ cleanups[s] = {}
  /\ phase' = [phase EXCEPT ![s] = "published"]
  /\ started' = [started EXCEPT ![s] = now]
  /\ now' = now + 1
  /\ replaces' = [replaces EXCEPT ![s] = None]
  /\ IF TakesOver(s)
     THEN /\ replacements' = [replacements EXCEPT ![OwnerOf[s]].new = s]
          /\ graceTimers' = graceTimers \cup {s}
     ELSE UNCHANGED <<replacements, graceTimers>>
  /\ UNCHANGED <<cleanups, ender, kills>>
-----------------------------------------------------------------------------
(* How a session ends *)

\* end_removed as far as its first await: no replacement names s, its URL is
\* not served any more, Session::end has taken its job; e runs the rest.
EndRemoved(s, e) ==
  /\ phase' = [phase EXCEPT ![s] = "ending"]
  /\ ender' = [ender EXCEPT ![s] = e]
  /\ replacements' = Forget(s)

\* end_session by a handler (DELETE, end, report, a URL past its expiry) or by the
\* session's supervisor (idle, expired).
EndSession(s, e) ==
  /\ phase[s] = "published"
  /\ EndRemoved(s, e)
  /\ UNCHANGED <<started, now, replaces, graceTimers, cleanups, kills>>

\* The cleanup task of slot s takes its sessions one at a time, oldest first.
CleanupNext(s) ==
  \E x \in cleanups[s] :
    /\ phase[x] = "detached"
    /\ \A y \in cleanups[s] : phase[y] = "detached" /\ started[x] <= started[y]
    /\ EndRemoved(x, "task")
    /\ UNCHANGED <<started, now, replaces, graceTimers, cleanups, kills>>

\* The end of x is over: its instant and its ender no longer matter.
Over(x, how) ==
  /\ phase[x] = "ending"
  /\ phase' = [phase EXCEPT ![x] = how]
  /\ started' = [started EXCEPT ![x] = 0]
  /\ ender' = [ender EXCEPT ![x] = "task"]

\* ffmpeg is reaped and the directory deleted; whoever waited for x goes on.
Ended(x) ==
  /\ Over(x, "ended")
  /\ cleanups' = [s \in Sid |-> cleanups[s] \ {x}]
  /\ kills' = [kills EXCEPT ![OwnerOf[x]] = IF ender[x] = "kill" THEN @ \ {x} ELSE @]
  /\ UNCHANGED <<now, replaces, replacements, graceTimers>>

\* The connection of the request that was ending x closes while ffmpeg is reaped.
\* Job's Drop kills the process; nothing deletes the directory, and end_owner
\* leaves the rest of its list.
CancelRequest(x) ==
  /\ ender[x] # "task"
  /\ Over(x, "stranded")
  /\ kills' = [kills EXCEPT ![OwnerOf[x]] = IF ender[x] = "kill" THEN {} ELSE @]
  /\ UNCHANGED <<now, replaces, replacements, graceTimers, cleanups>>

\* end_owner lists the owner's sessions. One kill per owner at a time.
EndOwner(o) ==
  /\ kills[o] = {}
  /\ kills' = [kills EXCEPT ![o] = Mine(o)]
  /\ UNCHANGED <<phase, started, now, replaces, replacements, graceTimers, cleanups,
                 ender>>

\* end_owner, not waiting for one to end, takes the next sid of its list.
EndOwnerNext(o) ==
  /\ \A x \in kills[o] : ~(phase[x] = "ending" /\ ender[x] = "kill")
  /\ \E x \in kills[o] :
       IF phase[x] = "published"
       THEN EndRemoved(x, "kill") /\ UNCHANGED kills
       ELSE /\ kills' = [kills EXCEPT ![o] = @ \ {x}]
            /\ UNCHANGED <<phase, ender, replacements>>
  /\ UNCHANGED <<started, now, replaces, graceTimers, cleanups>>
-----------------------------------------------------------------------------
(* A replacement taking over, or not *)

Replacing(s) ==
  /\ replacements[OwnerOf[s]] # None
  /\ replacements[OwnerOf[s]].new = s

\* A segment of s is served: replacement_played, in that request. It found s in the
\* map, which s may have left since. Any other request served changes nothing here.
Served(s) ==
  /\ Replacing(s)
  /\ LET o == OwnerOf[s]
         old == replacements[o].old
     IN  IF phase[old] = "published"
         THEN EndRemoved(old, "request")
         ELSE /\ replacements' = [replacements EXCEPT ![o] = None]
              /\ UNCHANGED <<phase, ender>>
  /\ UNCHANGED <<started, now, replaces, graceTimers, cleanups, kills>>

\* Mutant: the timer ends s without asking whether the replacement is still its own.
GraceOverUnasked(s) ==
  /\ s \in graceTimers
  /\ graceTimers' = graceTimers \ {s}
  /\ IF phase[s] = "published" THEN EndRemoved(s, "task")
     ELSE UNCHANGED <<phase, ender, replacements>>
  /\ UNCHANGED <<started, now, replaces, cleanups, kills>>

\* replace_grace passed since s was published: abandoned unless it has played.
GraceOver(s) ==
  /\ s \in graceTimers
  /\ graceTimers' = graceTimers \ {s}
  /\ IF Replacing(s) /\ phase[s] = "published"
     THEN EndRemoved(s, "task")
     ELSE /\ replacements' = IF Replacing(s)
                             THEN [replacements EXCEPT ![OwnerOf[s]] = None]
                             ELSE replacements
          /\ UNCHANGED <<phase, ender>>
  /\ UNCHANGED <<started, now, replaces, cleanups, kills>>
-----------------------------------------------------------------------------
Next ==
  \/ \E s \in Sid, r \in Sid \cup {None} : Reserve(s, r)
  \/ \E s \in Sid : \/ Abandon(s) \/ Publish(s)
                    \/ EndSession(s, "request") \/ EndSession(s, "task")
                    \/ CleanupNext(s) \/ Ended(s) \/ CancelRequest(s)
                    \/ Served(s) \/ GraceOver(s)
  \/ \E o \in Grants : EndOwner(o) \/ EndOwnerNext(o)

(***************************************************************************)
(* The runtime polls every task that is ready; create's upstream calls and   *)
(* the reaping of a killed ffmpeg have timeouts; a timer fires. Nothing is   *)
(* assumed of clients.                                                      *)
(***************************************************************************)
Fairness ==
  /\ \A s \in Sid : /\ WF_vars(Abandon(s) \/ Publish(s))
                    /\ WF_vars(CleanupNext(s))
                    /\ WF_vars(Ended(s) \/ CancelRequest(s))
                    /\ WF_vars(GraceOver(s))
  /\ \A o \in Owner : WF_vars(EndOwnerNext(o))

Spec == Init /\ [][Next]_vars
FairSpec == Spec /\ Fairness
-----------------------------------------------------------------------------
(* Properties *)

\* Every variable has its type.
TypeOK ==
  /\ phase \in [Sid -> Phases]
  /\ started \in [Sid -> Nat] /\ now \in Nat \ {0}
  /\ replaces \in [Sid -> Sid \cup {None}]
  /\ replacements \in [Owner -> Replacement \cup {None}]
  /\ graceTimers \subseteq Sid
  /\ cleanups \in [Sid -> SUBSET Sid]
  /\ ender \in [Sid -> Enders]
  /\ kills \in [Owner -> SUBSET Sid]

\* Published sessions and reservations together never pass MAX_SESSIONS: two
\* starts that reserve around each other's awaits cannot spend the same free
\* place (reserve's comment, state.rs:783-785).
Capacity == Cardinality(Sessions) + Cardinality(Creating) <= MaxSessions

\* A replacement whose two ends both still count against their owner.
UnderWay(o) ==
  /\ replacements[o] # None
  /\ phase[replacements[o].old] = "published"
  /\ replacements[o].new # None => phase[replacements[o].new] = "published"

\* An owner holds at most its share, and one session past it only while a
\* replacement is under way: the extra place is given back however the
\* replacement ends (played, abandoned, failed to start, either end ended).
ShareHeld == \A o \in Owner : Load(o) <= Share[o] + (IF UnderWay(o) THEN 1 ELSE 0)

\* The replacement of o names two sessions of o that have not ended, and something
\* that will clear it is still there: the slot that made it, or the grace timer of
\* the session set up in it.
Backed(o) ==
  LET r == replacements[o]
  IN  /\ OwnerOf[r.old] = o /\ phase[r.old] \in {"published", "detached"}
      /\ \/ r.new = None /\ \E s \in Pending(o) : replaces[s] = r.old
         \/ /\ r.new \in graceTimers \ {r.old}
            /\ OwnerOf[r.new] = o /\ phase[r.new] \in {"published", "detached"}

\* No replacement entry outlives what it names or what clears it: its owner would
\* be refused (409 replacement_pending) for good.
ReplacementBacked == \A o \in Owner : replacements[o] # None => Backed(o)

\* The session a start is to replace is never among those the same start evicts:
\* it is still published when its replacement is under way (README: the old one
\* is kept, one past the share, until the new one serves a segment).
KeptAtStart ==
  [][\A o \in Owner : replacements[o] = None /\ replacements'[o] # None =>
       phase'[replacements'[o].old] = "published"]_vars

\* Of a replacement's two sessions exactly one goes, whichever comes first, the new
\* one's first segment, its timer or an end of either; and a timer that fires once
\* that is settled ends nothing (replacement_started, replacement_played).
OneGivesWay ==
  [][/\ \A o \in Owner :
          UnderWay(o) /\ replacements[o].new # None /\ replacements'[o] = None =>
            (phase'[replacements[o].old] = "published") # (phase'[replacements[o].new] = "published")
     /\ \A s \in graceTimers \ graceTimers' : ~Replacing(s) => phase' = phase]_vars

\* What a start takes out of the map is ended, ffmpeg reaped and directory
\* deleted, even when that start is cancelled (state.rs:846).
EvictedEnds == \A s \in Sid : phase[s] = "detached" ~> phase[s] = "ended"

\* No replacement stays under way for good, so no owner is locked out of the next.
ReplacementSettles ==
  \A o \in Owner : replacements[o] # None ~> replacements[o] = None
=============================================================================
