----------------------------- MODULE Semaphore -----------------------------
(***************************************************************************)
(* A counting semaphore (kernel/src/semaphore.c) used by tasks and by an   *)
(* interrupt handler, on the kernel of Tasks.                              *)
(*                                                                         *)
(* A blocking take is two critical sections with a context switch between  *)
(* them; pc[t] tells them apart.  The interrupt handler may run between    *)
(* any two steps of the threads and exceptions once the scheduler runs; it *)
(* has a priority BASEPRI masks, as give_from_isr requires of its caller.  *)
(***************************************************************************)
EXTENDS Tasks

CONSTANTS
    sem,            \* the semaphore; also names its wait list
    InitialCount,   \* sem->count after nimble_semaphore_init
    MaxCount,       \* sem->max_count
    TimeoutArgs     \* the timeouts tasks pass to take

ASSUME SemAssumption == /\ sem \in WaitList
                        /\ InitialCount \in Nat /\ MaxCount \in Nat \ {0}
                        /\ InitialCount <= MaxCount
                        /\ TimeoutArgs \subseteq TickCount

VARIABLES
    count,  \* sem->count
    got     \* got[t]: what t's last take returned ("none" before the first)
svars == <<k, pc, count, got>>

SemInit ==
    /\ TaskInit
    /\ count = InitialCount
    /\ got = [t \in Task |-> "none"]

\* The part of nimble_semaphore_take before the switch.
semaphore_take(t, timeout) ==
    /\ Calls(t)
    /\ \/ /\ count > 0
          /\ count' = count - 1
          /\ got' = [got EXCEPT ![t] = "OK"]
          /\ UNCHANGED <<k, pc>>
       \/ /\ count = 0 /\ timeout = NO_WAIT
          /\ got' = [got EXCEPT ![t] = "TIMEOUT"]
          /\ UNCHANGED <<k, pc, count>>
       \/ /\ count = 0 /\ timeout # NO_WAIT
          /\ k' = prepare_block(insert_waiter_priority_sorted(k, sem, t), t, timeout)
          /\ pc' = [pc EXCEPT ![t] = "block"]
          /\ UNCHANGED <<count, got>>

\* The part behind the switch: return what the waker left in the TCB.
semaphore_take_resumed(t) ==
    /\ Executes(t) /\ pc[t] = "wake"
    /\ k' = UnlinkEvent(k, t)
    /\ got' = [got EXCEPT ![t] = k.last_wait_result[t]]
    /\ pc' = [pc EXCEPT ![t] = "app"]
    /\ UNCHANGED count

\* Mutants: a unit is kept although a waiter was woken; max_count is ignored.
Bug_give_unit_twice == count' = IF count < MaxCount THEN count + 1 ELSE count
Bug_give_unit_uncapped == count' = IF k.waiters[sem] = << >> THEN count + 1 ELSE count

\* A unit goes to the first waiter, or into the count unless that is full.
give_unit ==
    count' = IF k.waiters[sem] = << >> /\ count < MaxCount THEN count + 1 ELSE count

semaphore_give(t) ==
    /\ Calls(t)
    /\ k' = wake_waiter(k, sem)
    /\ give_unit
    /\ pc' = IF k.waiters[sem] # << >> THEN [pc EXCEPT ![t] = "switch"] ELSE pc
    /\ UNCHANGED got

\* An ISR that calls give_from_isr and requests a switch if it was told to.
semaphore_give_from_isr ==
    /\ k.current # NULL
    /\ k' = IF k.waiters[sem] # << >>
            THEN request_context_switch(wake_waiter(k, sem)) ELSE k
    /\ give_unit
    /\ UNCHANGED <<pc, got>>

SemStep ==
    \/ semaphore_give_from_isr
    \/ \E t \in Task :
          \/ \E n \in TimeoutArgs : semaphore_take(t, n)
          \/ semaphore_take_resumed(t)
          \/ semaphore_give(t)

SemNext == SemStep \/ (TaskNext /\ UNCHANGED <<count, got>>)

SemSpec == SemInit /\ [][SemNext]_svars

-----------------------------------------------------------------------------
(* Properties. *)

InTake(t) == pc[t] \in {"block", "wake"}
Waiting == Range(k.waiters[sem])
Answered(r) == {t \in Task : InTake(t) /\ t \notin Waiting /\ k.last_wait_result[t] = r}

\* SemTypeOK: the types of the task layer and of the semaphore.
SemTypeOK == TypeOK /\ count \in 0 .. MaxCount
             /\ got \in [Task -> WaitResult \cup {"none"}]

\* ImplementsSemaphore: when gives race timeouts, ticks and interrupts, a take
\* returns OK iff a unit was handed to it and times out only by a tick, so a
\* unit that was given is neither lost nor handed out twice; it is stored only
\* when nobody waits, and the highest priority is served first.
Abstract == INSTANCE AbstractSemaphore
              WITH Priority <- BasePriority, units <- count, waiting <- Waiting,
                   granted <- Answered("OK"), expired <- Answered("TIMEOUT"),
                   result <- got, clock <- k.tick, Time <- TickCount
ImplementsSemaphore == Abstract!Spec

\* NoIdleUnits: no task waits while there is a unit to take.
NoIdleUnits == count > 0 => k.waiters[sem] = << >>

\* ServedInOrder: waiters are in order of priority, and those of one priority in
\* the order they came: no step puts a task in front of an equal one.
ServedInOrder ==
    [][LET l == k.waiters[sem]
           m == k'.waiters[sem]
       IN  /\ \A i, j \in DOMAIN m : i < j => k'.priority[m[i]] >= k'.priority[m[j]]
           /\ \A i \in DOMAIN m, x \in Range(l) :
                 m[i] \notin Range(l) /\ x \in Range(m) /\ k.priority[x] = k.priority[m[i]]
                    => \E j \in 1 .. i - 1 : m[j] = x]_svars
=============================================================================
