------------------------------ MODULE MCPlayers ------------------------------
(* GopWindow with players that want a certain part of the film.               *)
EXTENDS MCGopWindow

\* One player that goes to the second segment and to the last, there and back, over runs
\* that may fail; or two of one session, the one at the film's start and the other at its
\* end, so that what either is sent deletes what the other has found, in a session that goes on.
VARIABLE players
mc_vars == <<vars, players>>

Plays(r, segs) == req'[r].at # "free" => req'[r].seg \in segs
OneOfThem == Plays(r1, {1, 3}) /\ Plays(r2, {})
BothApart == Plays(r1, {0}) /\ Plays(r2, {3}) /\ i'.failures = 0 /\ run'.exit # "failed" /\ ~i'.ended

MCInit == Init /\ players \in {1, 2}
TheirParts == players' = players /\ IF players = 1 THEN OneOfThem ELSE BothApart
MCSpec == MCInit /\ [][Next /\ TheirParts]_mc_vars /\ Fairness
==============================================================================
