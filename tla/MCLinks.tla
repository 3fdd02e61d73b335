------------------------------ MODULE MCLinks ------------------------------
(* Instances of Links for TLC. *)
EXTENDS Links

CONSTANTS idle, a, b, hi

\* Two peers and a higher task.
TasksABH == {idle, a, b, hi}
PrioABH == [t \in TasksABH |-> IF t = idle THEN 0 ELSE IF t = hi THEN 2 ELSE 1]

\* What a state is told apart by: nothing reads the absolute tick, only distances
\* from it, the result of a wait that is over, or got.
Seen(x) ==
    [x EXCEPT !.tick = 0,
              !.wake_tick = [t \in Task |-> IF x.state[t] = "BLOCKED" /\ x.mem.next[link(t)] # link(t)
                                            THEN (@[t] - x.tick) % TickMod ELSE 0],
              !.last_wait_result = [t \in Task |-> IF pc[t] \in {"block", "wake"} THEN @[t]
                                                   ELSE "OK"]]
SeenState == <<Seen(c), pc, count, sv, next, reg, IF entry = NULL THEN NULL ELSE Seen(entry)>>
=============================================================================
