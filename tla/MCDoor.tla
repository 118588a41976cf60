--------------------------------- MODULE MCDoor --------------------------------
(* A file of fourteen units whose first is held, asked for one, three, seven.      *)
EXTENDS Door

From(a, b) == [a |-> a, b |-> b]
Asks == {From(None, None), From(0, 0), From(2, None), From(3, 20), From(5, 4), From(14, None)}
Grows == <<1, 3, 7>>
================================================================================
