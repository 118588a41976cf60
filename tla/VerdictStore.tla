----------------------------- MODULE VerdictStore -----------------------------
(* The two caches den-remux keeps across restarts, releases that play nowhere    *)
(* (Unplayable) and probe results (ProbeCache), and the file of each in          *)
(* SCRATCH_DIR.  Every change spawns a blocking write; the writes take turns     *)
(* behind a lock, each writes the newest state beside the file and renames it.   *)
(* A behaviour is of one of the two: they share nothing.                         *)
EXTENDS Integers, FiniteSets

CONSTANTS
  Key,         \* releases
  Room,         \* UNPLAYABLE_MAX, PROBE_MAX
  Ttl,         \* UNPLAYABLE_TTL_SECS, in ticks
  MaxNow, MaxChanges, MaxFaults, \* bounds: ticks, changes of the memory, failed writes and restarts
  None

ASSUME StoreAssumption ==
  /\ Room \in Nat \ {0} /\ Ttl \in Nat \ {0}
  /\ MaxNow \in Nat /\ MaxChanges \in Nat /\ MaxFaults \in Nat

VARIABLES
  kind,        \* which of the two caches
  now,         \* unix_now()
  memory,      \* the entries, and how often they changed (a history)
  generation,  \* Unplayable::generation, ProbeCache::generation
  written,     \* unplayable_written, probe_cache_written: the generation on disk
  queued,      \* spawned writes that wait for the lock on `written`
  writer,      \* the write that has it: what it took, and whether it is at the rename
  file,        \* the cache's file
  unsaved,     \* history: what the memory has been since what the file holds
  spoiled,     \* history: the last write failed
  faults

vars == <<kind, now, memory, generation, written, queued, writer, file, unsaved, spoiled, faults>>

\* A release, and when it was found (Unplayable) or, as a place in the order, last used
\* (ProbeCache).
Entry == [key : Key, at : Nat]
State == [v : Nat, has : SUBSET Entry]
Empty == [v |-> 0, has |-> {}]
Writer == [of : State, generation : Nat, at : {"write", "rename"}]

ASSUME NoneAssumption == None \notin Writer

Without(has, k) == {e \in has : e.key # k}
Knows(has, k) == \E e \in has : e.key = k
Fresh(has) == {e \in has : now - e.at < Ttl}
Oldest(has) == {e \in has : \A f \in has : e.at <= f.at}

\* What is left when the oldest entry of a full cache gives way: among verdicts of the
\* same second any may.
GivesWay(has) == IF Cardinality(has) < Room THEN {has} ELSE {has \ {e} : e \in Oldest(has)}

\* What is left beside a newest entry of any size when the file may not grow past
\* PROBE_FILE_MAX_BYTES: the oldest go first.
Fitting(has) == {left \in SUBSET has : \A e \in left, f \in has \ left : f.at <= e.at}

Stamp == IF kind = "probe" THEN memory.v + 1 ELSE now

\* Unplayable::put, ProbeCache::put: a full list of verdicts loses what has expired before
\* it loses what has not.
Put(has, k) ==
  LET left == CASE kind = "probe" -> UNION {Fitting(l) : l \in GivesWay(Without(has, k))}
                [] kind # "probe" /\ Knows(has, k) -> {Without(has, k)}
                [] OTHER -> IF Cardinality(has) < Room THEN {has} ELSE GivesWay(Fresh(has))
  IN {l \cup {[key |-> k, at |-> Stamp]} : l \in left}

-----------------------------------------------------------------------------
Init ==
  /\ kind \in {"unplayable", "probe"}
  /\ now = 0 /\ memory = Empty /\ generation = 0 /\ written = 0
  /\ queued = 0 /\ writer = None
  /\ file = Empty /\ unsaved = {}
  /\ spoiled = FALSE /\ faults = 0

Becomes(has) ==
  /\ memory' = [v |-> memory.v + 1, has |-> has]
  /\ unsaved' = unsaved \cup {memory'}

\* remember_unplayable, remember_probe.
Remember(k) ==
  /\ memory.v < MaxChanges
  /\ \E has \in Put(memory.has, k) : Becomes(has)
  /\ generation' = generation + 1
  /\ queued' = queued + 1
  /\ UNCHANGED <<kind, now, written, writer, file, spoiled, faults>>

\* The same, of a probe whose entry is too large or not valid: no new generation.
Refuse(k) ==
  /\ kind = "probe" /\ memory.v < MaxChanges
  /\ Becomes(Without(memory.has, k))
  /\ queued' = queued + 1
  /\ UNCHANGED <<kind, now, generation, written, writer, file, spoiled, faults>>

\* ProbeCache::get: what was asked for goes to the back.
Get(k) ==
  /\ kind = "probe" /\ memory.v < MaxChanges
  /\ Knows(memory.has, k)
  /\ Becomes(Without(memory.has, k) \cup {[key |-> k, at |-> Stamp]})
  /\ UNCHANGED <<kind, now, generation, written, queued, writer, file, spoiled, faults>>

\* A write has the lock and reads the memory under it; it has nothing to do where a
\* later change is on disk already.
Take ==
  /\ writer = None /\ queued > 0
  /\ queued' = queued - 1
  /\ writer' = IF generation <= written THEN None
               ELSE [of |-> memory, generation |-> generation, at |-> "write"]
  /\ UNCHANGED <<kind, now, memory, generation, written, file, unsaved, spoiled, faults>>

\* Either step of a write fails: logged, and not tried again before the next change.
Fail ==
  /\ writer # None /\ faults < MaxFaults
  /\ writer' = None
  /\ spoiled' = TRUE /\ faults' = faults + 1
  /\ UNCHANGED <<kind, now, memory, generation, written, queued, file, unsaved>>

\* Slips a change could make: to write over the file itself, and, below, to take the
\* generation at the rename for that of what was written.
WriteInPlace ==
  /\ writer # None /\ writer.at = "write"
  /\ writer' = [writer EXCEPT !.at = "rename"]
  /\ file' = Empty
  /\ UNCHANGED <<kind, now, memory, generation, written, queued, unsaved, spoiled, faults>>

\* std::fs::write of the file beside it.
Write ==
  /\ writer # None /\ writer.at = "write"
  /\ writer' = [writer EXCEPT !.at = "rename"]
  /\ UNCHANGED <<kind, now, memory, generation, written, queued, file, unsaved, spoiled, faults>>

RenameAsNow ==
  /\ writer # None /\ writer.at = "rename"
  /\ file' = writer.of /\ written' = generation
  /\ unsaved' = {s \in unsaved : s.v > file'.v}
  /\ writer' = None /\ spoiled' = FALSE
  /\ UNCHANGED <<kind, now, memory, generation, queued, faults>>

Rename ==
  /\ writer # None /\ writer.at = "rename"
  /\ file' = writer.of /\ written' = writer.generation
  /\ unsaved' = {s \in unsaved : s.v > file'.v}
  /\ writer' = None /\ spoiled' = FALSE
  /\ UNCHANGED <<kind, now, memory, generation, queued, faults>>

\* The process stops anywhere, and the next one loads the file: verdicts only those
\* that have not expired.
Restart ==
  /\ faults < MaxFaults /\ faults' = faults + 1
  /\ memory' = [file EXCEPT !.has = IF kind = "probe" THEN @ ELSE Fresh(@)]
  /\ generation' = 0 /\ written' = 0
  /\ queued' = 0 /\ writer' = None
  /\ unsaved' = {} /\ spoiled' = FALSE
  /\ UNCHANGED <<kind, now, file>>

Tick ==
  /\ now < MaxNow /\ now' = now + 1
  /\ UNCHANGED <<kind, memory, generation, written, queued, writer, file, unsaved, spoiled, faults>>

Next ==
  \/ \E k \in Key : Remember(k) \/ Refuse(k) \/ Get(k)
  \/ Take \/ Write \/ Rename \/ Fail \/ Restart \/ Tick

Spec == Init /\ [][Next]_vars

-----------------------------------------------------------------------------
\* What the memory knows when no write is under way is on disk, unless the last write
\* failed: however the writes of several changes took turns, none was left out for
\* one that had read less (write_unplayable's comment: "unless a newer state is already
\* there").
CaughtUp ==
  writer = None /\ queued = 0 /\ ~spoiled => \A e \in memory.has : Knows(file.has, e.key)

\* No cache outgrows its bound, and none holds a release twice: from the newest of its
\* entries every release it knows is answered (Unplayable::put, ProbeCache::put).
Bounded ==
  \A s \in {memory, file} :
    Cardinality(s.has) <= Room /\ \A e, f \in s.has : e.key = f.key => e = f

Durable == INSTANCE DurableCache WITH known <- memory

\* Through failed writes and stops at any point, the file holds, whole, something the
\* memory has held and never goes back, and a restart makes nothing up: the abstract
\* cache is implemented.
Implements == Durable!Spec
================================================================================
