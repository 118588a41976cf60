------------------------------ MODULE MCLifetime ------------------------------
(* A browser (share 1) that starts three sessions in a row, as far as the        *)
(* second replacement.  Sids are alike, so they are used in their order: a        *)
(* session's number says which was reserved first.                               *)
EXTENDS Lifetime

CONSTANT browser

Browser == {browser}
Three == 1..3
OfBrowser == [s \in Three |-> browser]
ShareOfOne == [o \in Browser |-> 1]
Nobody == {}
Length == {2}

InOrder == \A s \in {1, 2} : phase[s] = "new" => phase'[s + 1] = "new"
MCSpec == LifeInit /\ [][LifeNext /\ InOrder]_all_vars /\ LifeFairness
===============================================================================
