----------------------------- MODULE MCProducers -----------------------------
(* Instances of Producers: a few viewers, some of them on the GPU. *)
EXTENDS Producers, TLC

CONSTANTS c1, t1, t2

MixedThree == {c1, t1, t2}
Transcodes == {t1, t2}

Symmetry == Permutations({t1, t2})
==============================================================================
