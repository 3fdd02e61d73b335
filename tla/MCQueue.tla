------------------------------ MODULE MCQueue ------------------------------
(* Instances of Queue for TLC. *)
EXTENDS Queue

CONSTANTS idle, a, b, c, x, y

\* Two peers and one task above them.
TasksABC == {idle, a, b, c}
PrioABC == [t \in TasksABC |-> IF t = idle THEN 0 ELSE IF t = c THEN 2 ELSE 1]
=============================================================================
