------------------------- MODULE AbstractSemaphore -------------------------
(***************************************************************************)
(* What a counting semaphore with timeouts promises its users, with no     *)
(* lists, deadlines or context switches: units are taken, handed to a      *)
(* waiter or kept; a waiter is answered exactly once, with "OK" if and     *)
(* only if a unit was handed to it, and otherwise only as time passes; a   *)
(* unit goes to a waiter of the highest priority.                          *)
(***************************************************************************)
EXTENDS Integers

CONSTANTS Task, Priority, InitialCount, MaxCount, Time

VARIABLES
    units,      \* units nobody holds
    waiting,    \* tasks blocked in take
    granted,    \* tasks handed a unit, whose take has not returned yet
    expired,    \* tasks whose take timed out and has not returned yet
    result,     \* result[t]: what t's last take returned
    clock       \* the time, which only a waiter's timeout depends on
avars == <<units, waiting, granted, expired, result, clock>>

Init ==
    /\ units = InitialCount
    /\ waiting = {} /\ granted = {} /\ expired = {}
    /\ result = [t \in Task |-> "none"]
    /\ clock \in Time

NotInTake(t) == t \notin waiting \cup granted \cup expired

Take(t) ==
    /\ NotInTake(t) /\ units > 0
    /\ units' = units - 1
    /\ result' = [result EXCEPT ![t] = "OK"]
    /\ UNCHANGED <<waiting, granted, expired, clock>>

Refuse(t) ==
    /\ NotInTake(t) /\ units = 0
    /\ result' = [result EXCEPT ![t] = "TIMEOUT"]
    /\ UNCHANGED <<units, waiting, granted, expired, clock>>

Wait(t) ==
    /\ NotInTake(t) /\ units = 0
    /\ waiting' = waiting \cup {t}
    /\ UNCHANGED <<units, granted, expired, result, clock>>

Grant(t) ==
    /\ t \in waiting
    /\ \A u \in waiting : Priority[u] <= Priority[t]
    /\ waiting' = waiting \ {t}
    /\ granted' = granted \cup {t}
    /\ UNCHANGED <<units, expired, result, clock>>

Store ==
    /\ waiting = {} /\ units < MaxCount
    /\ units' = units + 1
    /\ UNCHANGED <<waiting, granted, expired, result, clock>>

\* Time passes; one tick may expire several waiters at once, or none.
Expire(S) ==
    /\ S \subseteq waiting
    /\ waiting' = waiting \ S
    /\ expired' = expired \cup S
    /\ clock' \in Time \ {clock}
    /\ UNCHANGED <<units, granted, result>>

Return(t) ==
    /\ \/ t \in granted /\ result' = [result EXCEPT ![t] = "OK"]
       \/ t \in expired /\ result' = [result EXCEPT ![t] = "TIMEOUT"]
    /\ granted' = granted \ {t}
    /\ expired' = expired \ {t}
    /\ UNCHANGED <<units, waiting, clock>>

Next ==
    \/ Store
    \/ \E S \in SUBSET waiting : Expire(S)
    \/ \E t \in Task : Take(t) \/ Refuse(t) \/ Wait(t) \/ Grant(t) \/ Return(t)

Spec == Init /\ [][Next]_avars
=============================================================================
