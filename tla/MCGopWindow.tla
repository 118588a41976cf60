----------------------------- MODULE MCGopWindow -----------------------------
(* Instances of GopWindow: a film of a few short segments. *)
EXTENDS GopWindow, TLC

CONSTANTS r1, r2

Two == {r1, r2}

\* Four segments, the second of two GOPs; three, the first of two.
Second == <<0, 1, 3, 4, 5>>
Three == <<0, 2, 3, 4>>

NoneTooClose == {}
SecondTooClose == {1}

AnySegment == Segs

Symmetry == Permutations(Two)
==============================================================================
