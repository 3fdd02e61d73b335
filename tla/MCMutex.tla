------------------------------ MODULE MCMutex ------------------------------
(* Instances of Mutex for TLC. *)
EXTENDS Mutex

CONSTANTS idle, lo, mid, hi, m1, m2

\* Three tasks of different priorities.
TasksLMH == {idle, lo, mid, hi}
PrioLMH == [t \in TasksLMH |-> IF t = idle THEN 0 ELSE
                               IF t = lo THEN 1 ELSE IF t = mid THEN 2 ELSE 3]

\* The kernel reads the tick counter only to measure distances from now: two
\* states that differ by a shift of the counter and of all deadlines are one.
\* Nor does anything read the result of a wait that is over.
ShiftedTicks ==
    <<[k EXCEPT !.tick = 0,
                !.wake_tick = [t \in Task |-> IF t \in Range(k.delayed)
                                              THEN (@[t] - k.tick) % TickMod ELSE 0],
                !.last_wait_result = [t \in Task |-> IF InLock(t) THEN @[t] ELSE "OK"]],
      pc, mutexState>>
=============================================================================
