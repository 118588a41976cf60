----------------------------- MODULE DurableCache -----------------------------
(* What a cache of release verdicts kept in one file promises: the file always  *)
(* holds, whole, something the memory has held, never older than what it held    *)
(* before; a new process knows nothing the file does not hold.  States carry a   *)
(* version, so that of two states with the same entries the later one is known.  *)
EXTENDS Naturals

CONSTANT Entry      \* what is remembered of a release

VARIABLES known,    \* the memory's state
          file,     \* the state on disk
          unsaved   \* the states the memory has been in since the one on disk

vars == <<known, file, unsaved>>

State == [v : Nat, has : SUBSET Entry]

Init == known = [v |-> 0, has |-> {}] /\ file = known /\ unsaved = {}

\* The memory takes up at most one entry at a time; any others may give way.
Change ==
  /\ known' \in State /\ known'.v = known.v + 1
  /\ \A e, f \in known'.has \ known.has : e = f
  /\ unsaved' = unsaved \cup {known'}
  /\ UNCHANGED file

Save ==
  /\ file' \in unsaved
  /\ unsaved' = {s \in unsaved : s.v > file'.v}
  /\ UNCHANGED known

Restart ==
  /\ known' \in State /\ known'.v = file.v /\ known'.has \subseteq file.has
  /\ unsaved' = {}
  /\ UNCHANGED file

Next == Change \/ Save \/ Restart

Spec == Init /\ [][Next]_vars
================================================================================
