---------------------------- MODULE MCVerdictStore ----------------------------
(* Three releases and room for two.                                           *)
EXTENDS VerdictStore

CONSTANTS k1, k2, k3
Releases == {k1, k2, k3}
================================================================================
