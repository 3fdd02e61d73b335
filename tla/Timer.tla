------------------------------- MODULE Timer -------------------------------
(***************************************************************************)
(* Software timers (kernel/src/timer.c): the list of active timers, the    *)
(* timer service task, and the API other tasks and callbacks call.  The    *)
(* service sleeps in a take of timer_wake_sem, the semaphore of module     *)
(* Semaphore, whose count a start raises when it changes the soonest       *)
(* deadline.                                                               *)
(*                                                                         *)
(* at[t] says which critical section t comes to next:                      *)
(*   the service  "plan", "take", "scan" or, in a callback, "callback"     *)
(*   the others   "free"                                                   *)
(*   both         "restart" or "give", in a call of the timer API          *)
(* gap is not in the code's data: the number of ticks since the service    *)
(* computed how long to sleep, up to the moment it goes to sleep.          *)
(***************************************************************************)
EXTENDS Semaphore

CONSTANTS
    timer_task_tcb,     \* the service
    Timer, Periodic,    \* the timers, and those with is_periodic set
    InitialPeriod,      \* InitialPeriod[x]: period_ticks after nimble_timer_init
    ResetPeriods,       \* the periods tasks pass to nimble_timer_reset
    Clients,            \* the tasks that use timers
    MaxLag,             \* bound on the ticks an expired timer waits unserved
    MaxGap              \* bound on gap

ASSUME TimerAssumption ==
    /\ timer_task_tcb \in Task \ {Idle}
    /\ Clients \subseteq Task \ {Idle, timer_task_tcb}
    /\ IsFiniteSet(Timer) /\ NULL \notin Timer /\ Periodic \subseteq Timer
    /\ InitialPeriod \in [Timer -> TickCount] /\ ResetPeriods \subseteq TickCount
    /\ MaxLag \in Nat /\ MaxGap \in Nat /\ MaxGap < MaxLag
    /\ InitialCount = 0 /\ MaxCount = 1 /\ Managed = {}

\* Deadlines that are in the list together lie within half the tick range.
ASSUME SpanAssumption ==
    /\ MaxLag < TickMod \div 2
    /\ \A p \in ResetPeriods \cup {InitialPeriod[x] : x \in Timer} :
          p > 0 /\ p + MaxLag < TickMod \div 2

VARIABLES
    active_timers,  \* the list, front first
    tm,             \* period_ticks, expiry_tick and is_active of every timer
    at,             \* see above
    target,         \* target[t]: the timer t is resetting, or NULL
    wait_ticks,     \* the local of the service
    gap             \* see above
timerState == <<active_timers, tm, at, target, wait_ticks, gap>>
timerVars == <<k, pc, count, got, active_timers, tm, at, target, wait_ticks, gap>>

Svc == timer_task_tcb

\* Where t's own code, or the callback it runs, goes on after a call.
Home(t) == IF t = Svc THEN "callback" ELSE "free"

TimerInit ==
    /\ SemInit
    /\ active_timers = << >>
    /\ tm = [period_ticks |-> InitialPeriod, expiry_tick |-> [x \in Timer |-> 0],
             is_active |-> [x \in Timer |-> FALSE]]
    /\ at = [t \in Task |-> IF t = Svc THEN "plan" ELSE "free"]
    /\ target = [t \in Task |-> NULL]
    /\ wait_ticks = 0 /\ gap = 0

\* (int32_t)(a - b)
Signed(a, b) ==
    LET d == (a - b) % TickMod IN IF d < TickMod \div 2 THEN d ELSE d - TickMod

\* Mutant: an unsigned comparison.
Bug_insert_sorted_unsigned(l, expiry, x) ==
    LET later == {i \in DOMAIN l : expiry[x] < expiry[l[i]]}
    IN  InsertAt(l, IF later = {} THEN Len(l) + 1 ELSE Min(later), x)

\* Before the first timer of list l that expires strictly later.
insert_sorted_by_expiry(l, expiry, x) ==
    LET later == {i \in DOMAIN l : Signed(expiry[x], expiry[l[i]]) < 0}
    IN  InsertAt(l, IF later = {} THEN Len(l) + 1 ELSE Min(later), x)

\* expiry_tick is read only while the timer is active; here it is reset when the
\* timer stops, which the code need not do.
deactivate(x) == [tm EXCEPT !.is_active[x] = FALSE, !.expiry_tick[x] = 0]

Overdue == active_timers # << >> /\ Signed(tm.expiry_tick[Head(active_timers)], k.tick) <= 0

-----------------------------------------------------------------------------
(* The service, timer_task_fn. *)

\* Mutant: an unsigned difference, huge when the deadline has passed.
Bug_service_plan_unsigned ==
    /\ Calls(Svc) /\ at[Svc] = "plan"
    /\ wait_ticks' = IF active_timers = << >> THEN WAIT_FOREVER
                     ELSE (tm.expiry_tick[Head(active_timers)] - k.tick) % TickMod
    /\ at' = [at EXCEPT ![Svc] = "take"]
    /\ UNCHANGED <<k, pc, count, got, active_timers, tm, target, gap>>

\* How long to sleep: for ever, until the soonest deadline, or not at all.
service_plan ==
    /\ Calls(Svc) /\ at[Svc] = "plan"
    /\ wait_ticks' = IF active_timers = << >> THEN WAIT_FOREVER
                     ELSE IF Overdue THEN NO_WAIT
                     ELSE Signed(tm.expiry_tick[Head(active_timers)], k.tick)
    /\ at' = [at EXCEPT ![Svc] = "take"]
    /\ UNCHANGED <<k, pc, count, got, active_timers, tm, target, gap>>

\* The result of the take does not matter; wait_ticks is dead from here on.
service_take ==
    /\ at[Svc] = "take"
    /\ semaphore_take(Svc, wait_ticks)
    /\ at' = [at EXCEPT ![Svc] = "scan"]
    /\ wait_ticks' = 0
    /\ UNCHANGED <<active_timers, tm, target, gap>>

service_resumed == semaphore_take_resumed(Svc) /\ UNCHANGED timerState

\* The expiry of a periodic timer after the one that just passed: a period
\* later, or a period from now if that has passed too.
next_expiry(x) ==
    LET next == (tm.expiry_tick[x] + tm.period_ticks[x]) % TickMod
    IN  IF Signed(next, k.tick) < 0 THEN (k.tick + tm.period_ticks[x]) % TickMod ELSE next

\* One round of the expiry loop: serve the front timer if it is due.
service_scan ==
    /\ Calls(Svc) /\ at[Svc] = "scan"
    /\ \/ /\ ~Overdue
          /\ at' = [at EXCEPT ![Svc] = "plan"]
          /\ UNCHANGED <<active_timers, tm>>
       \/ /\ Overdue
          /\ LET head == Head(active_timers)
                 e == [tm.expiry_tick EXCEPT ![head] = next_expiry(head)]
             IN  IF head \in Periodic
                 THEN /\ tm' = [tm EXCEPT !.expiry_tick = e]
                      /\ active_timers' = insert_sorted_by_expiry(Tail(active_timers), e, head)
                 ELSE /\ tm' = deactivate(head)
                      /\ active_timers' = Tail(active_timers)
          /\ at' = [at EXCEPT ![Svc] = "callback"]
    /\ gap' = 0
    /\ UNCHANGED <<k, pc, count, got, target, wait_ticks>>

\* The callback, application code, returns.
callback_returns ==
    /\ Calls(Svc) /\ at[Svc] = "callback"
    /\ at' = [at EXCEPT ![Svc] = "scan"]
    /\ UNCHANGED <<k, pc, count, got, active_timers, tm, target, wait_ticks, gap>>

-----------------------------------------------------------------------------
(* The API, called by a client or by the callback the service runs. *)

CallsTimer(t) == Calls(t) /\ t \in Clients \cup {Svc} /\ at[t] = Home(t)

\* Mutants: the deadline is computed in a type wider than nimble_tick_t; a running
\* timer is linked a second time; the service is not told of a sooner deadline.
Bug_start_wide(t, x) ==
    LET rest == IF tm.is_active[x] THEN Keep(active_timers, Timer \ {x}) ELSE active_timers
        e == [tm.expiry_tick EXCEPT ![x] = k.tick + tm.period_ticks[x]]
        list == insert_sorted_by_expiry(rest, e, x)
    IN  /\ tm' = [tm EXCEPT !.expiry_tick = e, !.is_active[x] = TRUE]
        /\ active_timers' = list
        /\ at' = [at EXCEPT ![t] = IF Head(list) = x THEN "give" ELSE Home(t)]

Bug_start_twice(t, x) ==
    LET e == [tm.expiry_tick EXCEPT ![x] = (k.tick + tm.period_ticks[x]) % TickMod]
        list == insert_sorted_by_expiry(active_timers, e, x)
    IN  /\ Len(list) <= 2 * Cardinality(Timer)
        /\ tm' = [tm EXCEPT !.expiry_tick = e, !.is_active[x] = TRUE]
        /\ active_timers' = list
        /\ at' = [at EXCEPT ![t] = IF Head(list) = x THEN "give" ELSE Home(t)]

Bug_start_silent(t, x) ==
    LET rest == IF tm.is_active[x] THEN Keep(active_timers, Timer \ {x}) ELSE active_timers
        e == [tm.expiry_tick EXCEPT ![x] = (k.tick + tm.period_ticks[x]) % TickMod]
    IN  /\ tm' = [tm EXCEPT !.expiry_tick = e, !.is_active[x] = TRUE]
        /\ active_timers' = insert_sorted_by_expiry(rest, e, x)
        /\ at' = [at EXCEPT ![t] = Home(t)]

\* The critical section of nimble_timer_start; the give comes after it, if the
\* timer is now the first to expire.
start(t, x) ==
    LET rest == IF tm.is_active[x] THEN Keep(active_timers, Timer \ {x}) ELSE active_timers
        e == [tm.expiry_tick EXCEPT ![x] = (k.tick + tm.period_ticks[x]) % TickMod]
        list == insert_sorted_by_expiry(rest, e, x)
    IN  /\ tm' = [tm EXCEPT !.expiry_tick = e, !.is_active[x] = TRUE]
        /\ active_timers' = list
        /\ at' = [at EXCEPT ![t] = IF Head(list) = x THEN "give" ELSE Home(t)]

timer_start(t, x) ==
    /\ CallsTimer(t)
    /\ start(t, x)
    /\ UNCHANGED <<k, pc, count, got, target, wait_ticks, gap>>

timer_give(t) ==
    /\ at[t] = "give"
    /\ semaphore_give(t)
    /\ at' = [at EXCEPT ![t] = Home(t)]
    /\ UNCHANGED <<active_timers, tm, target, wait_ticks, gap>>

timer_stop(t, x) ==
    /\ CallsTimer(t) /\ tm.is_active[x]
    /\ active_timers' = Keep(active_timers, Timer \ {x})
    /\ tm' = deactivate(x)
    /\ UNCHANGED <<k, pc, count, got, at, target, wait_ticks, gap>>

\* nimble_timer_reset: a critical section of its own, then a start.
timer_reset(t, x, period) ==
    /\ CallsTimer(t)
    /\ tm' = [tm EXCEPT !.period_ticks[x] = period]
    /\ at' = [at EXCEPT ![t] = "restart"]
    /\ target' = [target EXCEPT ![t] = x]
    /\ UNCHANGED <<k, pc, count, got, active_timers, wait_ticks, gap>>

timer_restart(t) ==
    /\ Calls(t) /\ at[t] = "restart"
    /\ start(t, target[t])
    /\ target' = [target EXCEPT ![t] = NULL]
    /\ UNCHANGED <<k, pc, count, got, wait_ticks, gap>>

-----------------------------------------------------------------------------
(* Ticks, switches, and clients that do something else. *)

Asleep == k.state[Svc] = "BLOCKED"

\* MaxLag and MaxGap stop the clock before the service is starved for longer.
Tick ==
    /\ Overdue => Signed(k.tick, tm.expiry_tick[Head(active_timers)]) < MaxLag
    /\ at[Svc] = "take" => gap < MaxGap
    /\ SysTick_Handler
    /\ gap' = IF at[Svc] = "take" THEN gap + 1 ELSE gap
    /\ UNCHANGED <<count, got, active_timers, tm, at, target, wait_ticks>>

OtherStep ==
    /\ \/ BootStep \/ PendSV_Handler
       \/ \E t \in Task : RequestSwitch(t)
       \/ \E t \in Clients, n \in DelayArgs : at[t] = "free" /\ task_delay(t, n)
    /\ UNCHANGED <<count, got>> /\ UNCHANGED timerState

ServiceStep ==
    service_plan \/ service_take \/ service_resumed \/ service_scan \/ callback_returns

ApiStep ==
    \E t \in Clients \cup {Svc} :
        \/ timer_give(t) \/ timer_restart(t)
        \/ \E x \in Timer : \/ timer_start(t, x) \/ timer_stop(t, x)
                            \/ \E p \in ResetPeriods : timer_reset(t, x, p)

TimerNext == ServiceStep \/ ApiStep \/ Tick \/ OtherStep

TimerSpec == TimerInit /\ [][TimerNext]_timerVars

\* Ticks and pending exceptions come, main goes on; the service, and a client
\* inside a call, get on when they get the processor; callbacks return.
FairTimerSpec ==
    /\ TimerSpec
    /\ WF_timerVars(Tick)
    /\ WF_timerVars(OtherStep /\ (PendSV_Handler \/ BootStep))
    /\ SF_timerVars(ServiceStep)
    /\ \A t \in Clients \cup {Svc} :
          SF_timerVars(\/ OtherStep /\ RequestSwitch(t)
                       \/ timer_give(t) \/ timer_restart(t))

-----------------------------------------------------------------------------
(* Properties. *)

\* TimerTypeOK: the types of the kernel, the semaphore and the timers.
TimerTypeOK ==
    /\ SemTypeOK
    /\ active_timers \in Seq(Timer)
    /\ tm \in [period_ticks : [Timer -> TickCount], expiry_tick : [Timer -> TickCount],
               is_active : [Timer -> BOOLEAN]]
    /\ at \in [Task -> {"plan", "take", "scan", "callback", "free", "restart", "give"}]
    /\ target \in [Task -> Timer \cup {NULL}]
    /\ wait_ticks \in TickCount /\ gap \in 0 .. MaxGap

\* ActiveListed: a timer is in the list, once, iff it is active: a start, stop or
\* reset racing the expiry of the same timer leaves no stale node behind.
ActiveListed ==
    /\ IsInjective(active_timers)
    /\ Range(active_timers) = {x \in Timer : tm.is_active[x]}

\* SoonestFirst: the front of the list, the only timer the service looks at, is
\* never later than any other active timer, across wraps of the tick counter.
SoonestFirst ==
    \A x \in Range(active_timers) :
        Signed(tm.expiry_tick[Head(active_timers)], tm.expiry_tick[x]) <= 0

\* SleepBounded: while the service sleeps and some timer is active, a give is on
\* its way or the service wakes by the soonest deadline, late by no more than
\* the ticks that passed between its computing the sleep and its going to sleep.
\* In particular it does not sleep for ever.
GiveComing == \E t \in Task : at[t] = "give"
SleepBounded ==
    Asleep /\ active_timers # << >> /\ ~GiveComing =>
        /\ Svc \in Range(k.delayed)
        /\ Signed(k.wake_tick[Svc], tm.expiry_tick[Head(active_timers)]) <= gap

\* DueServed: when the front timer is due, the service comes to run a callback, or
\* the timer is stopped or restarted; no start leaves the service asleep.
DueServed == Overdue ~> at[Svc] = "callback" \/ ~Overdue
=============================================================================
