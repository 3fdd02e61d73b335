----------------------------- MODULE Scheduler -----------------------------
(***************************************************************************)
(* The scheduler core (kernel/src/scheduler.c): the per-priority ready     *)
(* lists and their bitmap, the delayed list, the wait lists of the         *)
(* synchronisation objects, task states and the tick counter.              *)
(*                                                                         *)
(* Everything scheduler.c keeps in its statics and in the TCBs is one      *)
(* record, and every C function is a pure operator from that record to the *)
(* record it leaves behind, so that a C function that calls another is an  *)
(* operator applied to the result of another.  The C functions are called  *)
(* with interrupts masked (or from the lowest-priority exceptions), which  *)
(* makes each call atomic for the modules that build actions from them.    *)
(*                                                                         *)
(* A record k has the fields                                               *)
(*   ready[p]    ready_lists[p], front first (TCBs linked by tcb->link)    *)
(*   bitmap      ready_bitmap, as the set of the positions of its 1 bits   *)
(*   delayed     delayed_list, front first   (also linked by tcb->link)    *)
(*   waiters[w]  the wait list w of a mutex, semaphore or queue            *)
(*               (TCBs linked by tcb->event_link)                          *)
(*   priority[t], state[t], wake_tick[t], last_wait_result[t]  TCB fields  *)
(*   current     nimble_current_tcb                                        *)
(*   tick        g_tick_count                                              *)
(*   pendsv      the PendSV pending bit of the interrupt controller        *)
(***************************************************************************)
EXTENDS Integers, FiniteSets, SequencesExt

CONSTANTS
    Task,           \* the TCBs, the idle task's included
    Idle,           \* idle_tcb
    MaxPriorities,  \* NIMBLE_MAX_PRIORITIES
    BasePriority,   \* BasePriority[t] is the priority t is created with
    WaitList,       \* the wait lists of all synchronisation objects
    TickMod,        \* number of values of nimble_tick_t: stands for 2^32
    NULL,           \* the null TCB pointer
    WILD            \* a TCB pointer made from something that is no TCB

Prio == 0 .. MaxPriorities - 1
TickCount == 0 .. TickMod - 1

ASSUME TaskAssumption == /\ IsFiniteSet(Task)
                         /\ Idle \in Task
                         /\ NULL \notin Task /\ WILD \notin Task /\ NULL # WILD
ASSUME PriorityAssumption == /\ MaxPriorities \in Nat \ {0}
                             /\ BasePriority \in [Task -> Prio]
                             /\ BasePriority[Idle] = 0
ASSUME TickAssumption == TickMod \in Nat /\ TickMod >= 4 /\ TickMod % 2 = 0

WAIT_FOREVER == TickMod - 1
NO_WAIT == 0

TaskState == {"UNCREATED", "READY", "RUNNING", "BLOCKED", "SUSPENDED"}
WaitResult == {"OK", "TIMEOUT"}

Kernel == [ready : [Prio -> Seq(Task)], bitmap : SUBSET Prio,
           delayed : Seq(Task), waiters : [WaitList -> Seq(Task)],
           priority : [Task -> Prio], state : [Task -> TaskState],
           wake_tick : [Task -> TickCount],
           last_wait_result : [Task -> WaitResult],
           current : Task \cup {NULL, WILD}, tick : TickCount,
           pendsv : BOOLEAN]

-----------------------------------------------------------------------------
(* Lists.  A list is the sequence of the TCBs linked in it. *)

\* The elements of list l that are in S, in the order of l.
Keep(l, S) ==
    LET I == {i \in DOMAIN l : l[i] \in S}
        nth(n) == CHOOSE i \in I : Cardinality({j \in I : j <= i}) = n
    IN  [n \in 1 .. Cardinality(I) |-> l[nth(n)]]

\* nimble_list_remove(&t->link): out of whichever of the ready lists and the
\* delayed list t is in; removing a node that is in no list does nothing.
\* wake_tick is read only while t is in the delayed list; here it is reset
\* when t leaves, which the code need not do.
Unlink(k, t) ==
    [k EXCEPT !.ready = [p \in Prio |-> Keep(k.ready[p], Task \ {t})],
              !.delayed = Keep(k.delayed, Task \ {t}),
              !.wake_tick[t] = 0]

\* nimble_list_remove(&t->event_link): out of the wait list t is in, if any.
UnlinkEvent(k, t) ==
    [k EXCEPT !.waiters = [w \in WaitList |-> Keep(k.waiters[w], Task \ {t})]]

-----------------------------------------------------------------------------
(* The functions of scheduler.c. *)

\* Mutant: scans the bitmap from the wrong end.
Bug_highest_set_bit(bitmap) == Min(bitmap)

highest_set_bit(bitmap) == Max(bitmap)

\* Mutant: nimble_list_insert_head instead of insert_tail.
Bug_add_ready_front(k, t) ==
    [k EXCEPT !.state[t] = "READY",
              !.ready[k.priority[t]] = <<t>> \o @,
              !.bitmap = @ \cup {k.priority[t]}]

add_ready(k, t) ==
    [k EXCEPT !.state[t] = "READY",
              !.ready[k.priority[t]] = Append(@, t),
              !.bitmap = @ \cup {k.priority[t]}]

\* Mutant: forgets the bitmap.
Bug_remove_keeps_bit(k, t) == Unlink(k, t)

\* The bit is cleared for the list of t's priority NOW, wherever t was linked.
remove(k, t) ==
    LET u == Unlink(k, t)
    IN  IF u.ready[u.priority[t]] = << >>
        THEN [u EXCEPT !.bitmap = @ \ {u.priority[t]}]
        ELSE u

\* Stamp t with its deadline and put it at the tail of the delayed list.
delay_until(k, t, wake) ==
    [k EXCEPT !.wake_tick[t] = wake, !.delayed = Append(@, t)]

block_current_delay(k, t, wake) ==
    delay_until([remove(k, t) EXCEPT !.state[t] = "BLOCKED"], t, wake)

prepare_block(k, t, timeout) ==
    LET blocked == [remove(k, t) EXCEPT !.state[t] = "BLOCKED"]
    IN  IF timeout = WAIT_FOREVER
        THEN blocked
        ELSE delay_until(blocked, t, (k.tick + timeout) % TickMod)

\* Mutants: the result of an earlier wait stays in the TCB; the woken task stays
\* in the delayed list.
Bug_wake_waiter_stale(k, w) ==
    IF k.waiters[w] = << >>
    THEN k
    ELSE LET t == Head(k.waiters[w])
         IN  add_ready(Unlink(UnlinkEvent(k, t), t), t)

Bug_wake_waiter_delayed(k, w) ==
    IF k.waiters[w] = << >>
    THEN k
    ELSE LET t == Head(k.waiters[w])
         IN  add_ready([UnlinkEvent(k, t) EXCEPT !.last_wait_result[t] = "OK"], t)

\* Wake the first task of wait list w, if there is one.
wake_waiter(k, w) ==
    IF k.waiters[w] = << >>
    THEN k
    ELSE LET t == Head(k.waiters[w])
         IN  add_ready([Unlink(UnlinkEvent(k, t), t)
                           EXCEPT !.last_wait_result[t] = "OK"], t)

\* Mutant: before the first waiter of equal or lower priority.
Bug_insert_waiter_lifo(k, w, t) ==
    LET l == k.waiters[w]
        lower == {i \in DOMAIN l : k.priority[l[i]] <= k.priority[t]}
        pos == IF lower = {} THEN Len(l) + 1 ELSE Min(lower)
    IN  [k EXCEPT !.waiters[w] = InsertAt(l, pos, t)]

\* insert_waiter_priority_sorted, the same in mutex.c, semaphore.c and queue.c:
\* before the first waiter of strictly lower priority, else at the tail.
insert_waiter_priority_sorted(k, w, t) ==
    LET l == k.waiters[w]
        lower == {i \in DOMAIN l : k.priority[l[i]] < k.priority[t]}
        pos == IF lower = {} THEN Len(l) + 1 ELSE Min(lower)
    IN  [k EXCEPT !.waiters[w] = InsertAt(l, pos, t)]

\* Requeue the outgoing task if it is still running, then take the front of
\* the highest list whose bit is set.  An empty bitmap, or a bit whose list is
\* empty, makes the code treat something that is no TCB as the next task.
\* nimble_next_tcb is only ever copied to nimble_current_tcb: both are current.
select_next(k) ==
    LET r == IF k.current \in Task /\ k.state[k.current] = "RUNNING"
             THEN add_ready(k, k.current) ELSE k
    IN  IF r.bitmap = {} THEN [r EXCEPT !.current = WILD]
        ELSE LET list == r.ready[highest_set_bit(r.bitmap)]
             IN  IF list = << >> THEN [r EXCEPT !.current = WILD]
                 ELSE [remove(r, Head(list))
                          EXCEPT !.state[Head(list)] = "RUNNING",
                                 !.current = Head(list)]

\* Mutants: an unsigned comparison; a strict one.
Bug_Due_unsigned(now, wake) == now >= wake
Bug_Due_strict(now, wake) == (now - wake) % TickMod \in 1 .. TickMod \div 2 - 1

\* (int32_t)(now - wake) >= 0
Due(now, wake) == (now - wake) % TickMod < TickMod \div 2

\* Advance the tick and make every due task of the delayed list ready, in the
\* order of that list; a task that was also waiting for an event has timed out.
scheduler_tick(k) ==
    LET now == (k.tick + 1) % TickMod
        due == {t \in Range(k.delayed) : Due(now, k.wake_tick[t])}
        woken(p) == Keep(k.delayed, {t \in due : k.priority[t] = p})
    IN  [k EXCEPT
           !.tick = now,
           !.delayed = Keep(k.delayed, Task \ due),
           !.waiters = [w \in WaitList |-> Keep(k.waiters[w], Task \ due)],
           !.wake_tick = [t \in Task |-> IF t \in due THEN 0 ELSE @[t]],
           !.last_wait_result =
               [t \in Task |-> IF t \in due THEN "TIMEOUT" ELSE @[t]],
           !.state = [t \in Task |-> IF t \in due THEN "READY" ELSE @[t]],
           !.ready = [p \in Prio |-> k.ready[p] \o woken(p)],
           !.bitmap = @ \cup {k.priority[t] : t \in due},
           !.pendsv = TRUE]

\* nimble_scheduler_init, with the idle task it creates.
scheduler_init ==
    add_ready([ready |-> [p \in Prio |-> << >>], bitmap |-> {},
               delayed |-> << >>, waiters |-> [w \in WaitList |-> << >>],
               priority |-> BasePriority,
               state |-> [t \in Task |-> "UNCREATED"],
               wake_tick |-> [t \in Task |-> 0],
               last_wait_result |-> [t \in Task |-> "OK"],
               current |-> NULL, tick |-> 0, pendsv |-> FALSE], Idle)

-----------------------------------------------------------------------------
(* The port: nimble_port_request_context_switch and PendSV_Handler. *)

request_context_switch(k) == [k EXCEPT !.pendsv = TRUE]

switch_context(k) == select_next([k EXCEPT !.pendsv = FALSE])

-----------------------------------------------------------------------------
(* What the lists owe each other.  Each part is about one record.  *)

\* A list never holds a TCB twice: one TCB has one link and one event_link.
NoDuplicates(k) ==
    /\ \A p \in Prio : IsInjective(k.ready[p])
    /\ IsInjective(k.delayed)
    /\ \A w \in WaitList : IsInjective(k.waiters[w])

\* Ready list p holds READY tasks of priority p only.
ReadyOnly(k) ==
    \A p \in Prio : \A t \in Range(k.ready[p]) :
        k.state[t] = "READY" /\ k.priority[t] = p

\* Every READY task can be found by select_next.
ReadyListed(k) ==
    \A t \in Task : k.state[t] = "READY" => t \in Range(k.ready[k.priority[t]])

\* Bit p of ready_bitmap is set iff ready list p is not empty.
BitmapExact(k) == k.bitmap = {p \in Prio : k.ready[p] # << >>}

\* The tasks in the delayed list and in the wait lists are BLOCKED, and a
\* task waits for one event at a time.
ListedBlocked(k) ==
    /\ \A t \in Range(k.delayed) : k.state[t] = "BLOCKED"
    /\ \A w \in WaitList : \A t \in Range(k.waiters[w]) :
          /\ k.state[t] = "BLOCKED"
          /\ \A v \in WaitList : t \in Range(k.waiters[v]) => v = w

\* A BLOCKED task has something to wake it.
BlockedListed(k) ==
    \A t \in Task : k.state[t] = "BLOCKED" =>
        t \in Range(k.delayed) \/ \E w \in WaitList : t \in Range(k.waiters[w])

\* Only the current task is RUNNING.
RunningIsCurrent(k) == \A t \in Task : k.state[t] = "RUNNING" => k.current = t

\* The idle task can always be run, so there is always a task to select.
IdleAlive(k) == k.state[Idle] \in {"READY", "RUNNING"}

KernelInv(k) ==
    /\ NoDuplicates(k)
    /\ ReadyOnly(k)
    /\ ReadyListed(k)
    /\ BitmapExact(k)
    /\ ListedBlocked(k)
    /\ BlockedListed(k)
    /\ RunningIsCurrent(k)
    /\ IdleAlive(k)
    /\ k.current # WILD
=============================================================================
