----------------------------- MODULE MCScanQueue -----------------------------
(* Instances of ScanQueue: the first episodes of a season. *)
EXTENDS ScanQueue, TLC

CONSTANT intro

JustIntro == {intro}
LastUnlisted == {Last + 1}
OddOwn == {e \in 1..Last : e % 2 = 1}
==============================================================================
