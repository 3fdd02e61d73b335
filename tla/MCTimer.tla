------------------------------ MODULE MCTimer ------------------------------
(* Instances of Timer for TLC. *)
EXTENDS Timer

CONSTANTS idle, lo, hi, svc, x, y

\* The service and a client above it, or a client below it.
TasksSH == {idle, svc, hi}
PrioSH == [t \in TasksSH |-> IF t = idle THEN 0 ELSE IF t = svc THEN 2 ELSE 3]
TasksLS == {idle, lo, svc}
PrioLS == [t \in TasksLS |-> IF t = idle THEN 0 ELSE IF t = lo THEN 1 ELSE 2]

\* Two timers, or one.
TimersXY == {x, y}
TimerX == {x}
PeriodXY == [t \in TimersXY |-> IF t = x THEN 1 ELSE 2]
PeriodX == [t \in TimerX |-> 2]
=============================================================================
