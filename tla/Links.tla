------------------------------- MODULE Links -------------------------------
(***************************************************************************)
(* The scheduler and a semaphore once more, one level closer to the code   *)
(* than Scheduler and Semaphore: lists are nodes with pointers, a loop     *)
(* follows the pointers, and PendSV_Handler runs select_next in steps.     *)
(* The module is shown to implement Semaphore, where a list is a sequence  *)
(* and PendSV one step.                                                    *)
(*                                                                         *)
(* PendSV_Handler raises no BASEPRI around select_next (context_switch.S). *)
(* IsrDuringSwitch says whether a device interrupt may come in the middle; *)
(* its give_from_isr then changes the same lists and the same bitmap.      *)
(* select_next is cut where it reads or writes the bitmap; the pointer     *)
(* stores of one list operation stay together, which hides some of the     *)
(* hardware's interleavings and adds none.                                 *)
(***************************************************************************)
EXTENDS Integers, FiniteSets, NimbleList

CONSTANTS
    Task, Idle, MaxPriorities, BasePriority, TickMod, NULL, WILD,  \* see Scheduler
    sem, InitialCount, MaxCount, TimeoutArgs,                      \* see Semaphore
    DelayArgs,                                                     \* see Tasks
    IsrDuringSwitch

ASSUME LinksAssumption == /\ IsrDuringSwitch \in BOOLEAN
                          /\ TimeoutArgs \cup DelayArgs \subseteq 0 .. TickMod - 1

Prio == 0 .. MaxPriorities - 1

\* The list heads, and the two nodes of a TCB.  Neither NIMBLE_CONTAINER_OF nor
\* its inverse moves anything: node[2] is the TCB a node is part of.
ReadyList(p) == <<"ready", p>>
DelayedList == <<"delayed", NULL>>
Waiters == <<"waiters", sem>>
link(t) == <<"link", t>>
event_link(t) == <<"event_link", t>>
Node == {ReadyList(p) : p \in Prio} \cup {DelayedList, Waiters}
        \cup {link(t) : t \in Task} \cup {event_link(t) : t \in Task}

VARIABLES
    c,      \* the kernel's memory: its lists (mem) and the fields of Scheduler's record
    pc,     \* see Tasks
    count, got,     \* see Semaphore
    sv,     \* where PendSV_Handler is in select_next, "out" when it does not run
    next,   \* its local next, once chosen
    reg,    \* the register that holds ready_bitmap between a load and a store
    entry   \* not in the code: c as select_next found it, NULL when sv = "out"
select == <<sv, next, reg, entry>>
lvars == <<c, pc, count, got, select>>

-----------------------------------------------------------------------------
(* The functions of scheduler.c, on pointers.  wake_tick is reset when it is    *)
(* no longer read, as in Scheduler.                                             *)

add_ready(x, t) ==
    [x EXCEPT !.state[t] = "READY",
              !.mem = insert_tail(@, ReadyList(BasePriority[t]), link(t)),
              !.bitmap = @ \cup {BasePriority[t]}]

remove(x, t) ==
    LET m == list_remove(x.mem, link(t))
        p == BasePriority[t]
    IN  [x EXCEPT !.mem = m,
                  !.bitmap = IF list_is_empty(m, ReadyList(p)) THEN @ \ {p} ELSE @]

delay_until(x, t, wake) ==
    [x EXCEPT !.wake_tick[t] = wake, !.mem = insert_tail(@, DelayedList, link(t))]

block_current_delay(x, t, wake) ==
    delay_until([remove(x, t) EXCEPT !.state[t] = "BLOCKED"], t, wake)

prepare_block(x, t, timeout) ==
    LET blocked == [remove(x, t) EXCEPT !.state[t] = "BLOCKED"]
    IN  IF timeout = TickMod - 1 THEN blocked
        ELSE delay_until(blocked, t, (x.tick + timeout) % TickMod)

\* Take t out of the lists its two nodes are in and make it ready.
wake(x, t, result) ==
    add_ready([x EXCEPT !.mem = list_remove(list_remove(@, event_link(t)), link(t)),
                        !.last_wait_result[t] = result,
                        !.wake_tick[t] = 0], t)

wake_waiter(x) ==
    IF list_is_empty(x.mem, Waiters) THEN x ELSE wake(x, x.mem.next[Waiters][2], "OK")

\* The first waiter from node on whose priority is below t's, or the head.
RECURSIVE first_lower(_, _, _)
first_lower(m, node, t) ==
    IF node = Waiters \/ BasePriority[t] > BasePriority[node[2]] THEN node
    ELSE first_lower(m, m.next[node], t)

insert_waiter_priority_sorted(x, t) ==
    [x EXCEPT !.mem = insert_before(@, first_lower(@, @.next[Waiters], t), event_link(t))]

Due(now, deadline) == (now - deadline) % TickMod < TickMod \div 2

\* Mutant: a task that times out stays in the wait list.
Bug_tick_walk_event(x, node) ==
    LET t == node[2]
    IN  IF node = DelayedList \/ ~Due(x.tick, x.wake_tick[t]) THEN x
        ELSE add_ready([x EXCEPT !.mem = list_remove(@, link(t)),
                                 !.last_wait_result[t] = "TIMEOUT",
                                 !.wake_tick[t] = 0], t)

\* The loop of nimble_scheduler_tick, from node on; next_node is read before node
\* can leave the list.
RECURSIVE tick_walk(_, _)
tick_walk(x, node) ==
    IF node = DelayedList THEN x
    ELSE LET next_node == x.mem.next[node]
             t == node[2]
         IN  tick_walk(IF Due(x.tick, x.wake_tick[t]) THEN wake(x, t, "TIMEOUT") ELSE x,
                       next_node)

scheduler_tick(x) ==
    LET y == [x EXCEPT !.tick = (@ + 1) % TickMod]
    IN  [tick_walk(y, y.mem.next[DelayedList]) EXCEPT !.pendsv = TRUE]

request_context_switch(x) == [x EXCEPT !.pendsv = TRUE]

-----------------------------------------------------------------------------
(* Boot. *)

LinksInit ==
    /\ c = add_ready([mem |-> list_init(Node), bitmap |-> {},
                      state |-> [t \in Task |-> "UNCREATED"],
                      wake_tick |-> [t \in Task |-> 0],
                      last_wait_result |-> [t \in Task |-> "OK"],
                      current |-> NULL, tick |-> 0, pendsv |-> FALSE], Idle)
    /\ pc = [t \in Task |-> "app"]
    /\ count = InitialCount
    /\ got = [t \in Task |-> "none"]
    /\ sv = "out" /\ next = NULL /\ reg = {} /\ entry = NULL

main_create(t) ==
    /\ c.current = NULL /\ sv = "out" /\ c.state[t] = "UNCREATED"
    /\ c' = add_ready(c, t)
    /\ UNCHANGED <<pc, count, got, select>>

\* select_next on behalf of nimble_scheduler_start: there is nothing to requeue.
scheduler_start ==
    /\ c.current = NULL /\ sv = "out"
    /\ \A t \in Task : c.state[t] # "UNCREATED"
    /\ sv' = "pick" /\ entry' = c
    /\ UNCHANGED <<c, pc, count, got, next, reg>>

-----------------------------------------------------------------------------
(* PendSV_Handler: select_next, cut at its accesses to ready_bitmap. *)

\* Requeue a task that is still running, up to the load of the bitmap.
PendSV_enter ==
    /\ sv = "out" /\ c.pendsv /\ c.current # WILD
    /\ LET t == c.current
           x == [c EXCEPT !.pendsv = FALSE]
       IN  IF c.state[t] = "RUNNING"
           THEN /\ c' = [x EXCEPT !.state[t] = "READY",
                                  !.mem = insert_tail(@, ReadyList(BasePriority[t]), link(t))]
                /\ reg' = c.bitmap
                /\ sv' = "or"
           ELSE c' = x /\ sv' = "pick" /\ UNCHANGED reg
    /\ entry' = c
    /\ UNCHANGED <<pc, count, got, next>>

PendSV_or ==
    /\ sv = "or"
    /\ c' = [c EXCEPT !.bitmap = reg \cup {BasePriority[c.current]}]
    /\ sv' = "pick" /\ reg' = {}
    /\ UNCHANGED <<pc, count, got, next, entry>>

\* A bitmap of zeros, or a set bit over an empty list, and what is taken for the
\* next task is no TCB.
PendSV_pick ==
    /\ sv = "pick"
    /\ LET head == ReadyList(CHOOSE p \in c.bitmap : \A o \in c.bitmap : o <= p)
       IN  IF c.bitmap = {} \/ list_is_empty(c.mem, head)
           THEN /\ c' = [c EXCEPT !.current = WILD]
                /\ sv' = "out" /\ entry' = NULL /\ UNCHANGED next
           ELSE /\ next' = c.mem.next[head][2]
                /\ sv' = "unlink" /\ UNCHANGED <<c, entry>>
    /\ UNCHANGED <<pc, count, got, reg>>

\* nimble_scheduler_remove, up to the load of the bitmap if there is one.
PendSV_unlink ==
    /\ sv = "unlink"
    /\ c' = [c EXCEPT !.mem = list_remove(@, link(next))]
    /\ IF list_is_empty(c'.mem, ReadyList(BasePriority[next]))
       THEN sv' = "clear" /\ reg' = c.bitmap
       ELSE sv' = "run" /\ UNCHANGED reg
    /\ UNCHANGED <<pc, count, got, next, entry>>

\* Mutant: the mask is not inverted.
Bug_PendSV_clear_mask ==
    /\ sv = "clear"
    /\ c' = [c EXCEPT !.bitmap = reg \cap {BasePriority[next]}]
    /\ sv' = "run" /\ reg' = {}
    /\ UNCHANGED <<pc, count, got, next, entry>>

PendSV_clear ==
    /\ sv = "clear"
    /\ c' = [c EXCEPT !.bitmap = reg \ {BasePriority[next]}]
    /\ sv' = "run" /\ reg' = {}
    /\ UNCHANGED <<pc, count, got, next, entry>>

PendSV_run ==
    /\ sv = "run"
    /\ c' = [c EXCEPT !.state[next] = "RUNNING", !.current = next]
    /\ sv' = "out" /\ next' = NULL /\ entry' = NULL
    /\ UNCHANGED <<pc, count, got, reg>>

PendSV_step == \/ PendSV_enter \/ PendSV_or \/ PendSV_pick
               \/ PendSV_unlink \/ PendSV_clear \/ PendSV_run

-----------------------------------------------------------------------------
(* SysTick, of PendSV's priority; threads; the semaphore. *)

SysTick_Handler ==
    /\ c.current # NULL /\ sv = "out"
    /\ c' = scheduler_tick(c)
    /\ UNCHANGED <<pc, count, got, select>>

Executes(t) == c.current = t /\ ~c.pendsv /\ sv = "out"
Calls(t) == Executes(t) /\ t # Idle /\ pc[t] = "app"

RequestSwitch(t) ==
    /\ Executes(t) /\ pc[t] \in {"switch", "block"}
    /\ c' = request_context_switch(c)
    /\ pc' = [pc EXCEPT ![t] = IF @ = "switch" THEN "app" ELSE "wake"]
    /\ UNCHANGED <<count, got, select>>

task_delay(t, ticks) ==
    /\ Calls(t) /\ ticks # 0
    /\ c' = block_current_delay(c, t, (c.tick + ticks) % TickMod)
    /\ pc' = [pc EXCEPT ![t] = "switch"]
    /\ UNCHANGED <<count, got, select>>

semaphore_take(t, timeout) ==
    /\ Calls(t)
    /\ \/ /\ count > 0
          /\ count' = count - 1
          /\ got' = [got EXCEPT ![t] = "OK"]
          /\ UNCHANGED <<c, pc>>
       \/ /\ count = 0 /\ timeout = 0
          /\ got' = [got EXCEPT ![t] = "TIMEOUT"]
          /\ UNCHANGED <<c, pc, count>>
       \/ /\ count = 0 /\ timeout # 0
          /\ c' = prepare_block(insert_waiter_priority_sorted(c, t), t, timeout)
          /\ pc' = [pc EXCEPT ![t] = "block"]
          /\ UNCHANGED <<count, got>>
    /\ UNCHANGED select

semaphore_take_resumed(t) ==
    /\ Executes(t) /\ pc[t] = "wake"
    /\ c' = [c EXCEPT !.mem = list_remove(@, event_link(t))]
    /\ got' = [got EXCEPT ![t] = c.last_wait_result[t]]
    /\ pc' = [pc EXCEPT ![t] = "app"]
    /\ UNCHANGED <<count, select>>

give_unit ==
    count' = IF list_is_empty(c.mem, Waiters) /\ count < MaxCount THEN count + 1 ELSE count

semaphore_give(t) ==
    /\ Calls(t)
    /\ c' = wake_waiter(c)
    /\ give_unit
    /\ pc' = IF list_is_empty(c.mem, Waiters) THEN pc ELSE [pc EXCEPT ![t] = "switch"]
    /\ UNCHANGED <<got, select>>

\* A device interrupt; it preempts PendSV if IsrDuringSwitch.
semaphore_give_from_isr ==
    /\ c.current # NULL
    /\ sv = "out" \/ IsrDuringSwitch
    /\ c' = IF list_is_empty(c.mem, Waiters) THEN c ELSE request_context_switch(wake_waiter(c))
    /\ give_unit
    /\ UNCHANGED <<pc, got, select>>

ThreadStep(t) ==
    \/ RequestSwitch(t) \/ semaphore_take_resumed(t) \/ semaphore_give(t)
    \/ \E n \in DelayArgs : task_delay(t, n)
    \/ \E n \in TimeoutArgs : semaphore_take(t, n)

LinksNext ==
    \/ scheduler_start \/ SysTick_Handler \/ semaphore_give_from_isr \/ PendSV_step
    \/ \E t \in Task : main_create(t) \/ ThreadStep(t)

LinksSpec == LinksInit /\ [][LinksNext]_lvars

-----------------------------------------------------------------------------
(* Properties. *)

\* The nodes of the list with this head, in order.  A list that does not come
\* back to its head is cut after as many nodes as there are.
RECURSIVE WalkFrom(_, _, _, _)
WalkFrom(m, head, node, fuel) ==
    IF node = head \/ fuel = 0 THEN << >>
    ELSE <<node>> \o WalkFrom(m, head, m.next[node], fuel - 1)

\* The tasks in the list with this head, front first.
TasksOf(x, head) ==
    LET nodes == WalkFrom(x.mem, head, x.mem.next[head], Cardinality(Task) + 1)
    IN  [i \in DOMAIN nodes |-> nodes[i][2]]

\* Scheduler's record for a memory x.
Record(x) ==
    [ready |-> [p \in Prio |-> TasksOf(x, ReadyList(p))], bitmap |-> x.bitmap,
     delayed |-> TasksOf(x, DelayedList), waiters |-> [w \in {sem} |-> TasksOf(x, Waiters)],
     priority |-> BasePriority, state |-> x.state, wake_tick |-> x.wake_tick,
     last_wait_result |-> x.last_wait_result, current |-> x.current, tick |-> x.tick,
     pendsv |-> x.pendsv]

Seqs == INSTANCE Semaphore WITH k <- Record(IF sv = "out" THEN c ELSE entry),
                                      WaitList <- {sem}, Managed <- {}

\* ImplementsSequences: the pointer operations, the loops over them and the steps
\* of PendSV do what Scheduler, Tasks and Semaphore say in one step on sequences,
\* among others that removing a node that is in no list does nothing and that the
\* tick's walk over the list it is taking nodes from misses none.
ImplementsSequences == Seqs!SemSpec

\* PointersAnswered: next and prev are each other's inverse after every operation,
\* so no removal, in any order, reaches a node through a stale pointer.
PointersAnswered == WellLinked(c.mem)

\* BitmapTrue: outside PendSV "bit N is set iff ready list N is non-empty".
BitmapTrue ==
    sv = "out" => c.bitmap = {p \in Prio : ~list_is_empty(c.mem, ReadyList(p))}
=============================================================================
