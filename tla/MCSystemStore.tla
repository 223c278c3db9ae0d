---------------------------- MODULE MCSystemStore ----------------------------
(* SystemStore on a small instance: two processes, the clock of the second ahead,
   and documents that share a name. *)
EXTENDS SystemStore

CONSTANTS p1, p2, d1, d2
TheProcs == {p1, p2}
TheDocs  == {d1, d2}
SameName == [d \in TheDocs |-> "n"]
Ahead    == [p \in TheProcs |-> IF p = p2 THEN 1 ELSE 0]
=============================================================================
