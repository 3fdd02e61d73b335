--------------------------- MODULE MCPowerSupply ---------------------------
(* Instances of PowerSupply for TLC. *)
EXTENDS PowerSupply

CONSTANTS idle, protection, control, comms, logger

AppTasks == {idle, protection, control, comms, logger}

\* power_supply_types.h
AppPriorities == [t \in AppTasks |-> CASE t = idle -> 0 [] t = logger -> 1 [] t = comms -> 2
                                       [] t = control -> 3 [] t = protection -> 4]

\* The program reads the tick counter only to measure distances from now: two
\* states that differ by a shift of the counter and of all deadlines are one.
\* Nor does anything read the result of a wait that is over, out, or the slots of
\* a queue: its items are all alike.
ShiftedTicks ==
    <<[k EXCEPT !.tick = 0,
                !.wake_tick = [t \in Task |-> IF t \in Range(k.delayed)
                                              THEN (@[t] - k.tick) % TickMod ELSE 0],
                !.last_wait_result = [t \in Task |-> IF InLock(t) THEN @[t] ELSE "OK"]],
      pc, mutexState, at, state, fault_units, adc.count, uart.count, arg, locals, tripped>>
=============================================================================
