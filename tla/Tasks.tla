------------------------------- MODULE Tasks -------------------------------
(***************************************************************************)
(* Tasks on the running kernel: boot (main creates tasks and starts the    *)
(* scheduler), the task API of kernel/src/task.c, and the two exceptions   *)
(* of the port, SysTick_Handler and PendSV_Handler.                        *)
(*                                                                         *)
(* A critical section (BASEPRI raised) is one atomic step.  The step after *)
(* it, requesting the context switch, is not in the critical section: a    *)
(* tick or an interrupt may come between.  pc[t] says where t stands:      *)
(*   "app"     in application code, free to call the kernel                *)
(*   "switch"  about to request a switch, after which its call returns     *)
(*   "block"   about to request the switch that blocks it                  *)
(*   "wake"    at the code behind that switch, in a blocking call          *)
(* A pending PendSV is taken before the thread's next step; SysTick and    *)
(* PendSV have the same priority and do not preempt each other.            *)
(***************************************************************************)
EXTENDS Scheduler

CONSTANTS
    Managed,    \* tasks that other tasks create, suspend and resume at run time
    DelayArgs   \* the arguments tasks pass to nimble_task_delay

ASSUME ManagedAssumption == Managed \subseteq Task \ {Idle}
ASSUME DelayAssumption == DelayArgs \subseteq TickCount

VARIABLES k, pc
tvars == <<k, pc>>

PcLabel == {"app", "switch", "block", "wake"}

TaskInit ==
    /\ k = scheduler_init
    /\ pc = [t \in Task |-> "app"]

\* t executes its next instruction: it is current and no PendSV is pending.
Executes(t) == k.current = t /\ ~k.pendsv

-----------------------------------------------------------------------------
(* Boot: main creates tasks, then starts the scheduler and never returns. *)

create(c) ==
    /\ k.state[c] = "UNCREATED"
    /\ k' = add_ready(k, c)
    /\ UNCHANGED pc

main_create(c) == k.current = NULL /\ create(c)

\* start_first_task and SVC_Handler enter the task select_next picked.
scheduler_start ==
    /\ k.current = NULL
    /\ \A t \in Task \ Managed : k.state[t] # "UNCREATED"
    /\ k' = select_next(k)
    /\ UNCHANGED pc

-----------------------------------------------------------------------------
(* The port's exceptions, and the request a thread makes.  *)

RequestSwitch(t) ==
    /\ Executes(t) /\ pc[t] \in {"switch", "block"}
    /\ k' = request_context_switch(k)
    /\ pc' = [pc EXCEPT ![t] = IF @ = "switch" THEN "app" ELSE "wake"]

\* Mutant: a tick that wakes a task requests no switch.
Bug_SysTick_silent ==
    /\ k.current # NULL
    /\ k' = [scheduler_tick(k) EXCEPT !.pendsv = k.pendsv]
    /\ UNCHANGED pc

SysTick_Handler ==
    /\ k.current # NULL
    /\ k' = scheduler_tick(k)
    /\ UNCHANGED pc

PendSV_Handler ==
    /\ k.pendsv /\ k.current # WILD
    /\ k' = switch_context(k)
    /\ UNCHANGED pc

-----------------------------------------------------------------------------
(* The task API, called by the running thread t. *)

Calls(t) == Executes(t) /\ t # Idle /\ pc[t] = "app"

\* nimble_task_create from a running task: the new task is made ready and no
\* switch is requested.
task_create(t, c) == Calls(t) /\ create(c)

task_yield(t) ==
    /\ Calls(t)
    /\ k' = request_context_switch(k)
    /\ UNCHANGED pc

\* Mutant: the deadline is computed in a type wider than nimble_tick_t.
Bug_task_delay_wide(t, ticks) ==
    /\ Calls(t) /\ ticks # 0
    /\ k' = block_current_delay(k, t, k.tick + ticks)
    /\ pc' = [pc EXCEPT ![t] = "switch"]

\* A delay of 0 returns at once.
task_delay(t, ticks) ==
    /\ Calls(t) /\ ticks # 0
    /\ k' = block_current_delay(k, t, (k.tick + ticks) % TickMod)
    /\ pc' = [pc EXCEPT ![t] = "switch"]

\* Only a READY or RUNNING task is suspended; the call ignores any other.
task_suspend(t, c) ==
    /\ Calls(t) /\ k.state[c] \in {"READY", "RUNNING"}
    /\ LET u == IF k.state[c] = "READY" THEN remove(k, c) ELSE k
       IN  k' = [u EXCEPT !.state[c] = "SUSPENDED"]
    /\ pc' = IF c = t THEN [pc EXCEPT ![t] = "switch"] ELSE pc

\* Resuming makes the task ready and requests no switch.
task_resume(t, c) ==
    /\ Calls(t) /\ k.state[c] = "SUSPENDED"
    /\ k' = add_ready(k, c)
    /\ UNCHANGED pc

-----------------------------------------------------------------------------
BootStep == scheduler_start \/ \E c \in Task : main_create(c)

PortStep == SysTick_Handler \/ PendSV_Handler \/ \E t \in Task : RequestSwitch(t)

TaskStep ==
    \E t \in Task :
        \/ task_yield(t)
        \/ \E n \in DelayArgs : task_delay(t, n)
        \/ \E c \in Managed :
              task_create(t, c) \/ task_suspend(t, c) \/ task_resume(t, c)

TaskNext == BootStep \/ PortStep \/ TaskStep

TaskSpec == TaskInit /\ [][TaskNext]_tvars

\* The timer keeps interrupting, a pending exception is taken, main goes on.
\* Nothing is assumed of the threads: a task may compute for ever.
Fairness == WF_tvars(SysTick_Handler) /\ WF_tvars(PendSV_Handler)
            /\ WF_tvars(BootStep)

FairTaskSpec == TaskSpec /\ Fairness

-----------------------------------------------------------------------------
(* Properties. *)

\* TypeOK: the kernel record and the threads' positions have their types.
TypeOK == k \in Kernel /\ pc \in [Task -> PcLabel]

\* ListsConsistent: after any interleaving of API calls, ticks and switches the
\* ready lists, the bitmap, the delayed list and the task states agree: a READY
\* task is in the list of its priority and nowhere twice, bit N is set iff list
\* N is not empty (nimble_scheduler.h), a BLOCKED task can be woken, and
\* select_next never takes a list head for a TCB.
ListsConsistent == KernelInv(k)

\* WakesOnTime: a task leaves the delayed list only by the tick its wake_tick
\* names, even when the counter wrapped since it was computed.
WakesOnTime ==
    [][\A t \in Range(k.delayed) :
          t \notin Range(k'.delayed) => k'.tick = k.wake_tick[t]]_tvars

\* DeadlineAhead: the deadline of a delayed task is never behind the tick
\* counter and never out of the signed comparison's reach, so no tick passes
\* a task by.
DeadlineAhead ==
    \A t \in Range(k.delayed) :
        (k.wake_tick[t] - k.tick) % TickMod \in 1 .. TickMod \div 2 + 1

\* HighestReadyRuns: whenever a thread executes other code than the request for
\* a switch it owes, no ready task has a higher priority ("the highest-priority
\* ready task always runs").
HighestReadyRuns ==
    \A t \in Task : Executes(t) /\ pc[t] \in {"app", "wake"} =>
        \A u \in Task : k.state[u] = "READY" => k.priority[u] <= k.priority[t]

\* RoundRobin: peers take turns, even with one that never yields and however
\* often a higher task preempts them: a task can stay READY for ever only if
\* from some point on nothing but higher-priority tasks runs.
Outranked(t) == k.current \in Task /\ k.priority[k.current] > k.priority[t]
RoundRobin ==
    \A t \in Task : <>[](k.state[t] = "READY") => <>[]Outranked(t)
=============================================================================
