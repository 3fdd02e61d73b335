# A TLA+ verification of nimbleRTOS

nimbleRTOS is a small preemptive kernel for one Cortex-M4 core: fixed
priorities with round robin inside a priority, a tick, mutexes with priority
inheritance, counting semaphores, message queues and software timers, and a
power-supply application on top. This directory holds TLA+ modules that model
the kernel, TLC configurations that check them on small instances, and proofs
that TLAPS checks for every instance. `PROJECT.json` maps every definition to
the lines it models.

## 1. Inventory

| Component | State | Operations | Correct when |
|---|---|---|---|
| Scheduler core `kernel/src/scheduler.c` | 32 ready lists and their bitmap, the delayed list, tick count, current and next TCB | init, start, add_ready, remove, block_current_delay, prepare_block, wake_waiter, select_next, tick | lists, bitmap and task states agree; a task wakes at its deadline, across wraps; the highest ready task runs; peers take turns |
| Intrusive list `kernel/include/nimble_list.h` | circular doubly linked nodes, the head is one of them | init, is_empty, insert head/tail, remove | a node is in one list at most, removing an unlinked node does nothing |
| Task API `kernel/src/task.c` | TCB state | create, yield, delay, suspend, resume | keeps the scheduler's invariants |
| Port `port/arch/cortex-m4` | PendSV and SysTick pending bits, BASEPRI, stacks | critical section, request switch, PendSV, SysTick, SVC | the switch happens before the thread goes on |
| Semaphore `kernel/src/semaphore.c` | count, wait list | init, take, give, give_from_isr | no unit is lost or duplicated; priority order, then arrival |
| Mutex `kernel/src/mutex.c` | owner, lock count, wait list, inherited priority | init, lock, unlock | exclusion, hand-over to one waiter, bounded inversion |
| Queue `kernel/src/queue.c` | ring buffer, two wait lists | init, send, receive, send_from_isr | FIFO, nothing lost; nobody blocks beside what it waits for |
| Timers `kernel/src/timer.c` | list of active timers sorted by deadline, the service task and its semaphore | init, start, stop, reset, the service loop | the list holds the active timers, soonest first; a due timer is served |
| Board support, startup code | registers, vector table | boot | (not modelled) |
| Application `app/power_supply` | status with its mutex, fault semaphore, sample and byte queues, ControlTask's copy of the state, the command line | the loops of four tasks, two interrupts | a detected fault is noted and stays; nobody sleeps beside what it waits for |

How they interact: every blocking object links the caller in its own wait list
by `event_link` and calls `prepare_block`, which links it in the delayed list
by `link` if there is a timeout. From then on the tick, a give or unlock or
send by a task, and an interrupt race to take it out of both. The API runs
inside critical sections that raise BASEPRI; the request for a context switch
comes *after* the critical section, and the code behind a blocking switch runs
in a later one. Timers are built on a semaphore, the application on all of it.

What is hard here: a blocking call is two critical sections with everything in
between; a timeout racing a wake-up; signed comparison of a wrapping counter;
a bitmap kept by hand beside the lists; priorities that change while a task is
linked by priority; a sleep computed in one critical section and used in
another; interrupts that call the kernel. `PROJECT.json` lists each of these
hazards at its line, with the properties that cover it or the reason none does.

## 2. Modules

    Scheduler --> Tasks --> Semaphore --> Timer
                     |----> Mutex --> PowerSupply (instantiates Semaphore, and Queue twice)
                     '----> Queue
    NimbleList --> Links
    Semaphore refines AbstractSemaphore,  Queue refines AbstractQueue,
    Links refines Semaphore
    MCx: the instances of module x for TLC
    SchedulerProofs --> TasksProofs --> SemaphoreProofs --> TimerProofs
                            |---------> QueueProofs
                            '---------> MutexProofs --> PowerSupplyProofs
    ListProofs (about NimbleList)
    xProofs: the theorems about module x, which it extends

**Scheduler** has no variables. All that scheduler.c keeps in its statics and
in the TCBs is one record, and each C function is an operator from record to
record, so calls compose as in the code. A list is the sequence of the TCBs
linked in it; the bitmap is the set of positions of its 1 bits. `Due` and
`scheduler_tick` keep the code's modular signed comparison. `select_next`
yields `WILD` where the code would turn something that is not a TCB into a TCB
pointer (an empty bitmap, or a set bit over an empty list); from such a state
no thread takes another step. `nimble_next_tcb` is only ever copied to
`nimble_current_tcb` by the switch, so both are the field `current`.

**Tasks** adds boot, the task API and the port's exceptions as actions over `k`
(the record) and `pc`. A critical section is one action. `pc[t]` is where `t`
stands between two critical sections: `"switch"` and `"block"` are the window
before it requests its switch, `"wake"` is the code behind that switch. A
pending PendSV is taken before the thread's next step (`Executes`), a tick or
an interrupt may come between any two steps.

**Semaphore**, **Mutex** and **Queue** each add the object's fields and split
every blocking call where the code leaves its critical section: the part before
the switch, and the `_resumed` part behind it. `got`, `held`, `wants` and `out`
are what the callers know (return values, call arguments), which the promises
of these objects are about.

**Timer** instantiates the semaphore as `timer_wake_sem` and gives the service
loop one action per critical section (plan, take, scan, callback). A start is
its critical section and a separate give, a reset is its own critical section
and then a start. Callbacks may use the timer API.

**PowerSupply** is the application. It extends Mutex for `g_status_mutex` and
instantiates Semaphore for `g_fault_semaphore` and Queue for the two queues, all
on the one kernel record. `at[t]` is the call a task comes to next; the calls of
power_supply.c are a lock and, once it is held, the access with the unlock. The
interrupt handlers are one action each and may come between any two steps.
`tripped` is added: a fault was detected and is not noted yet.

**NimbleList** has the functions of nimble_list.h on nodes with `next` and `prev`.
**Links** is the scheduler, the delayed list and a semaphore built on it, with the
loops of the code (the tick's walk, the search for a waiter's place) as recursive
operators and PendSV_Handler in six steps, cut at its accesses to
`ready_bitmap`. It is shown to implement Semaphore: a memory stands for the
record whose lists are read off the pointers, and while PendSV runs for the
record it started from (`entry`). With `IsrDuringSwitch` the device interrupt may
also come between the steps of PendSV, which is what the hardware does.

**AbstractSemaphore** and **AbstractQueue** say what users are promised, with no
lists, deadlines or switches: a waiter is answered exactly once, OK iff a unit
was handed to it and otherwise only as time passes, a unit goes to a waiter of
the highest priority; items come out once, in order, at most `Capacity` of them.

Operators whose names start with `Bug_` are small mistakes one could make in
the C code; substituting one for the operator below it makes TLC violate the
property it is listed with in `PROJECT.json`. They are not part of any
specification.

### Simplifications

* Values that the code leaves behind but never reads again are reset, so that
  states that behave alike are one: `wake_tick` when a task leaves the delayed
  list, `expiry_tick` when a timer stops, `wait_ticks` after the take.
* Interrupts that call the kernel are masked in critical sections, as
  `system_stm32f4xx.c:32-41` requires of them. The application gives its
  interrupts no priority and so does not meet this; see the hazards.
* PendSV is one step, and a list a sequence, in all modules but Links. Run `links`
  shows that this is right as long as no interrupt comes into PendSV, run
  `pendsv_race` that it is not where one does.
* Links cuts PendSV at the accesses to the bitmap; the stores of one list
  operation stay together. Finer interleavings would only add to what
  `pendsv_race` shows.
* PowerSupply leaves out measurements, the fault count and texts, on which no
  decision depends, and the timer service, which sleeps for ever as no timer is
  started. A byte before `uart_bridge_init` is dropped (the queue has capacity
  0); one between the stores of `nimble_queue_init` is not modelled.
* No tick before the scheduler is started.
* Timer periods are positive and, with `MaxLag`, below half the tick range
  (`SpanAssumption`); callbacks do not block.
* Argument checks, names, stacks, high-water marks, item bytes and the calls
  that change nothing (an unlock by a task that is not the owner, a `NO_WAIT`
  lock that fails) are left out.

## 3. Runs

| Run | Instance | Shows |
|---|---|---|
| `tasks` | idle, two peers, one higher; one peer created, suspended and resumed at run time; tick counter of 4 values | `ListsConsistent`, `DeadlineAhead`, `HighestReadyRuns`, `WakesOnTime`, and `RoundRobin` under fair ticks |
| `semaphore` | the same tasks, binary semaphore, timeouts 0, 1, forever, an interrupt that gives | `ImplementsSemaphore`, `ServedInOrder`, `NoIdleUnits`, and the kernel's `ListsConsistent` and `HighestReadyRuns` |
| `mutex` | three priorities, two mutexes nested in any order, recursion to depth 2, timeouts 1 and forever | `Exclusive`, `HandedToWaiter`, `NoWaitForFree`, `BoostEnds`, also in the states inheritance corrupts |
| `queue` | capacity 2, two items; senders that wait for ever, receivers that time out, an interrupt that sends | `ImplementsQueue`, `ListsConsistent` |
| `timer` | two timers (one periodic), a client above the service, callbacks that use the API | `ActiveListed`, `SoonestFirst`, `SleepBounded` |
| `timer_due` | one periodic timer, a client below the service | `SleepBounded`, and `DueServed` under fairness |
| `power_supply` | the application: four tasks, both interrupts, 2 samples, 1 byte, a ramp of 2 steps, a line of 2 bytes | `TripPending`, `FaultSticks`, `ReceiverServed`, `ReceiveFindsItem`, `WokenPreempts`, `SelectsRealTask` |
| `links` | two peers and a higher task on a binary semaphore, delays and timeouts, no interrupt during PendSV | `ImplementsSequences`, `PointersAnswered`, `BitmapTrue` |
| `mutex_wild` | three priorities, one mutex | violates `SelectsRealTask` |
| `queue_lost_wakeup` | both sides wait for ever, capacity 1 | violates `ReceiversBlockOnEmpty` |
| `pendsv_race` | as `links`, interrupts during PendSV | violates `BitmapTrue` |
| `fault_overwritten` | as `power_supply` | violates `FaultTerminal` |

Each module has at most one type invariant beside these (`TypeOK`, `SemTypeOK`, ...).

### What the application runs show

A fault an interrupt detected is not lost, even if its sample is dropped because
the queue is full or a fault is pending already (`TripPending`). Once ControlTask
has seen a fault it stays (`FaultSticks`); before that it may be overwritten
(`fault_overwritten`). Both queues have one receiver and no blocking sender: the
lost wake-up of `queue_lost_wakeup` cannot happen, and a woken receive always
finds its item, so the code's remark that the `continue` is "defensive only" is
right. The application has one mutex, all waits are for ever, and the four tasks that
lock it have different priorities: every priority an owner inherits is that of a
task that waits until it is handed the mutex, so the bit that inheritance leaves
behind has a task under it again before anything looks at it. That is why
`SelectsRealTask` holds here and not in `mutex_wild`.

The timer service that main.c:58 starts has the priority of ControlTask, and is left
out. No timer is ever started: the service finds its list empty and waits for ever.
It does so before CommsTask or LoggerTask first runs, both being below it, and only
these two can be boosted to its priority; so it is never linked in a list an
inherited priority belongs to. While ControlTask is boosted itself, an entry of the
service in their common list only makes the bit of that list true.

### What the violations mean

1. `mutex_wild`: `nimble_mutex_lock` raises the owner's priority while the owner is
   linked in the ready list of the old one. Its removal then clears the bit of
   the *new* priority; the old bit stays set over an empty list, and
   `select_next` takes the list head for a TCB.
2. `queue_lost_wakeup`: a sender that had to block puts its item in after it is
   resumed and wakes no receiver that blocked meanwhile.
3. `pendsv_race`: select_next runs in PendSV with BASEPRI down, although
   nimble_scheduler.h says interrupts are locked out. An interrupt between the load
   and the store of `ready_bitmap` wakes a task, and the store wipes out its bit:
   the task is READY and is not selected until its priority gets another task.
4. `fault_overwritten`: the sample that trips the fault also wakes ControlTask.
   ProtectionTask notes FAULT, then ControlTask goes from its own copy IDLE to
   SOFT_START (or from SOFT_START to RUNNING) and writes that over FAULT.

### Further divergences

Seen with the same modules, and described here rather than kept as runs:

* `nimble_task_resume`, and `nimble_task_create` from a task, make a task ready and
  request no switch, where docs/SCHEDULER.md says preemption is immediate: with
  the higher task in `Managed`, `HighestReadyRuns` fails.
* A boosted owner that is preempted stays in the list of its old priority, so a
  task of middle priority runs before it, against nimble_mutex.h:29-33. In the
  application CommsTask can so keep ProtectionTask waiting for LoggerTask.
* An unlock goes back to the base priority although a task waits for another
  mutex the caller still holds, against nimble_mutex.h:27-29.
* The timer service's sleep is relative to an earlier tick than the take's, so it
  may sleep past the soonest deadline, against nimble_timer.h:33. `SleepBounded`
  says how much that can cost: no more than the ticks in between.
* With two receivers on one queue a receive that waits for ever may return EMPTY.
* A delay of more than half the tick range plus one is over at the next tick.

### Bounds

* `TickMod` stands for 2^32. With 4 values (10 for timers) every run wraps the
  counter again and again. The code compares by the sign of a difference, so
  only the half range matters; delay arguments go up to half of it plus one, the
  largest that are served on time.
* Tasks: two of equal priority (round robin, FIFO among equals), one above, and
  the idle task below. Mutexes need three different priorities for inversion.
* `MaxCount` 1 and `Capacity` 2 reach empty, partly full and full; the ring
  buffer wraps. `MaxDepth` 2 has both kinds of unlock.
* `MaxLag` and `MaxGap` stop the clock in Timer before an expired timer has
  waited 2 ticks, or the service was kept for more than 1 tick between planning
  and sleeping. Both are enough for a deadline to pass in each window.
* The application's depths (8 samples, 64 bytes), ramp (50) and line (64) are
  scaled down to 2, 1, 2 and 2: each bound is reached, and every case on either
  side of it happens.
* The runs `mutex`, `power_supply` and `links` use a VIEW: states that differ only
  by a shift of the tick counter together with all deadlines, or in values that
  nothing reads any more, count as one. No action and no property of these runs
  tells such states apart.

### Fairness

`FairTaskSpec`: the hardware timer keeps ticking, a pending PendSV is taken, and
main goes on; threads may compute for ever. That alone makes `RoundRobin` hold:
a task can stay ready for ever only if from some point on nothing but tasks of
higher priority runs.
`FairTimerSpec` adds strong fairness for the service and for a client inside a
call of the API: ticks and switches disable a thread again and again but do not
take all of the processor, and callbacks return. A client's own code gets no
fairness.

### Deadlock

Every run checks it. The clock always ticks, except in the Timer runs, where
`MaxLag` may hold it: there the service can then always go on.

## 4. Proofs

TLAPS checks these theorems for every instance, not only for the ones the runs
check. `PROJECT.json` lists them with the property each states.

| Module | Theorem | States |
|---|---|---|
| TasksProofs | `TaskTypes`, `TaskLists` | `TypeOK`, `ListsConsistent` |
| | `TaskHighest` | `HighestReadyRuns`, given `LowestManaged` |
| | `TaskDeadlines`, `TaskWakesOnTime` | `DeadlineAhead` and the action property `WakesOnTime`, given `NearDelays` |
| SemaphoreProofs | `SemTypes`, `SemLists`, `SemNoIdleUnits` | `SemTypeOK`, `ListsConsistent`, `NoIdleUnits` |
| | `SemHighest` | `HighestReadyRuns`, given `LowestManaged` |
| | `SemServedInOrder` | the action property `ServedInOrder` |
| | `SemImplements` | `ImplementsSemaphore`: Semaphore refines AbstractSemaphore |
| QueueProofs | `QueueTypes`, `QueueLists` | `QueueTypeOK`, `ListsConsistent` |
| | `QueueImplements` | `ImplementsQueue`: Queue refines AbstractQueue |
| MutexProofs | `MutexTypesKept`, `MutexExclusive`, `MutexHandedToWaiter`, `MutexNoWaitForFree`, `MutexBoostEnds` | `MutexTypeOK`, `Exclusive`, `HandedToWaiter`, `NoWaitForFree`, `BoostEnds` |
| TimerProofs | `TimerTypesKept`, `TimerActiveListed`, `TimerSoonestFirst`, `TimerSleepBounded` | `TimerTypeOK`, `ActiveListed`, `SoonestFirst`, `SleepBounded` |
| PowerSupplyProofs | `AppTypesKept`, `AppSelectsRealTask`, `WokenTaskPreempts`, `TripNotLost`, `ReceiversServed`, `ReceiversFindItems` | `AppTypeOK`, `SelectsRealTask`, `WokenPreempts`, `TripPending`, `ReceiverServed`, `ReceiveFindsItem`, of the application |
| | `StatusMutexKept` | `Exclusive`, `HandedToWaiter`, `NoWaitForFree` and `BoostEnds`, of the application |
| | `FaultStays` | the action property `FaultSticks` |
| ListProofs | `InsertInserts`, `InsertTailAppends`, `RemoveTakesOut`, `RemoveUnlinkedIsNothing` | the operations of nimble_list.h implement sequences |
| | `OperationsKeepLinks` | the operations keep `next` and `prev` each other's inverse |

### Assumptions

All of them hold for any finite set of tasks, any priorities and any even tick
range of at least 4 (`TaskAssumption`, `PriorityAssumption`, `TickAssumption`,
`ManagedAssumption`, `DelayAssumption`), and for any timeouts, counts, capacities,
mutexes and timers (`SemAssumption`, `QueueAssumption`, `MutexAssumption`,
`TimerAssumption`). The application's are proved for its five tasks and one mutex
with any depths, ramp, line length, logger period and number of priorities, as
long as the four tasks have priorities in the order of `PowerSupplyAssumption`.
Three results need more, because the code does:

* `LowestManaged`: tasks created or resumed at run time outrank no caller.
  `nimble_task_create` and `nimble_task_resume` request no switch, so without
  it `HighestReadyRuns` is false (see the divergences above).
* `NearDelays`: delays of at most half the tick range plus one. Beyond, the tick's
  signed comparison takes a deadline for one that has passed.
* `SpanAssumption`: periods are positive and periods plus `MaxLag` lie within half
  the tick range, where `MaxLag` is how many ticks an expired timer may wait for
  the service. Otherwise two deadlines in the list cannot be compared.

### The kernel and the tasks

The inductive invariant is `Inv == TypeOK /\ ListsConsistent`. None of the parts
of `KernelInv` is inductive alone. That `select_next` finds a real task needs
`BitmapExact` and `IdleAlive`; that removing a task leaves the bitmap exact
needs `ReadyOnly` (it was in no list but that of its priority) and
`NoDuplicates`; that requeueing the outgoing task links it once needs
`ReadyOnly` and `ListedBlocked` (a RUNNING task is in no list), and
`RunningIsCurrent` for the task that takes its place.

`SchedulerProofs` has one lemma per operator of Scheduler. Its middle layer is a
*loose* task, one that has been unlinked and whose state and lists may disagree:
`RemoveLoosens` shows that `remove` yields it, and `AddReadySettles`,
`DelaySettles` and `LooseSettles` show that making it ready, delaying it, or
leaving it suspended or running restores `KernelInv`. The lemma under all of
them is `KeepProperties`: filtering a list keeps exactly the elements asked for
and keeps them distinct. Its second part is what the blocking objects need: what a wait list holds, and that it stays sorted, when a waiter is inserted by
priority, woken from the front, or taken out by a timeout.

`TaskInv` adds `RunsRunning` (a thread that executes ordinary code is the RUNNING
task) and that no priority is inherited. With it `HighestReadyRuns` follows: a
step that makes a task ready leaves PendSV pending or its caller in the window
before it requests its switch, and `select_next` takes the highest list.

### Semaphore, queue, mutex

`SemInv` adds to `TaskInv` that the wait list is empty while there are units, that
it is sorted, and that exactly the tasks blocked inside a take are in it. The last
is what the refinement needs: the abstract set of waiters is read off the tasks'
positions and the list, and a timeout must not answer a task a give has answered.

`QueueInv` adds to `TaskInv` the ring buffer's invariant: `tail` is `count` slots
after `head`, modulo the capacity. From it the content read off the ring grows at
the end and shrinks at the front, one item a step, which is the refinement.

`MutexInv` does *not* contain `ListsConsistent`: run `mutex_wild` shows that this
fails once priorities are inherited. What remains true of the kernel is
`ListedStates` (who is linked in a list at all is in the state that goes with it),
and that suffices: the four properties together with `CountedOwned` (lock counts
and owners agree with what the callers know), `WaitersInLock` and `WantsInLock`
(the waiters of a mutex are inside a lock of that mutex) are inductive. So the
mutex keeps its own promises in the states its inheritance corrupts. All of this
is `LockInv`; `BlocksInLock`, that there are no other blocking calls, is kept
apart from it, because it is false in the application. `OutsideKeeps` says what
another object's step has to leave alone for `LockInv` to survive it.

### Timers

`TimerInv` adds to `SemInv` that the list holds the active timers once each and in
order, where the order is by `Ahead`: the distance of a deadline from the oldest
deadline there can be, `MaxLag` ticks ago. Unlike the signed comparison of the
code, `Ahead` orders all deadlines of the list at once; `SpanAssumption` makes the
two agree on every pair the code compares. `PlacesKept` says where
in their code the service and its clients are, and `SleepPlanned`, `SleepTimed`
and `WakeNear` follow the service's sleep from the critical section that computes it,
over the ticks in between (`gap`), into the take's deadline.

### Application

The invariant `AppInv` has three layers.

`Sched` is about the kernel. `KernelInv` is false in the application: a lock raises
the owner's priority and leaves it linked where it was, so the owner may be linked
below its priority, and once it is removed the bit of its old list stays set.
What is left is: READY tasks are linked exactly once and only the owner may be
linked below its priority (`ReadyLinked`); a list that is not empty has its bit
(`BitsSet`); only the owner has a priority that is not its own, and it is that of a
task in line for the mutex (`Inherited`). About a bit that is set over an empty list
two things are known. It is below the owner, which is READY or RUNNING (`StaleBelow`),
so `select_next` finds something above it. And it has the priority of a task that
will be linked there again: one in line, the owner itself while it is boosted, or
the running task that has just handed the mutex over and is on its way to be
requeued (`StaleOwed`). The last is needed when the mutex goes to another owner: the
stale bits have to be below the new one too, and they are, because the line is sorted
by priority (`LineSorted`) and the new owner came from its front. No wait of the
application ends by a timeout (`OnlyLoggerSleeps`), so no task leaves the line in
any other way. `SelectKeeps` draws the conclusion for `select_next`,
and `RunInv` adds to `Sched` that the task that executes is the RUNNING one and that
no list above its priority holds a task.

`CoreInv` adds `LockInv` and where the tasks stand: a task waits for the mutex iff it
is inside one of the calls that lock it, and holds it only there (`StatusCalls`); each
of the other wait lists is for one task, which is in it only while it is blocked in
the call at the top of its loop (`OwnLists`). A step of one object is shown to be
*calm* for the others (`Calm`): it leaves their lists, and their waiting tasks, alone.

The data are `Values`, `TripPending`, and `Received` for both queues: nobody waits
beside an item, and who was woken and has not looked yet finds one. This needs a
single receiver and no blocking sender, and is where the lost wake-up of
`queue_lost_wakeup` is excluded.

The semaphore and the queues are instances with operators of their own for what the
kernel does; `FaultKernel`, `AdcKernel` and `UartKernel` show that these are the kernel's.
The conjuncts of `AppInv` were first checked by TLC on the instance of run
`power_supply`.

`FaultSeen`, for `FaultStays`, says that once ControlTask's copy is FAULT so is the
status, *and* that ControlTask is not on its way to `ps_status_set_state`. The second
half carries the proof: it is why a decision from before cannot overwrite the fault.

### Lists

`Represents(m, S, L)` says that a memory with nodes `S` holds the lists `L`, a sequence
of nodes for each head: both directions are in this order, no node is in two lists,
and one that is in none points to itself. Initialising yields empty lists, linking a
node inserts it, removing one takes it out, each in one sequence only, and removing
a node that is in no list changes nothing. This holds for any nodes and lists, so for
the kernel's ready, delayed and wait lists at once. It needs no induction, as
every operation touches at most three neighbouring nodes.

`OperationsKeepLinks` says what the kernel's walks rely on without knowing which lists
there are: `WellLinked`, the formula of `PointersAnswered`, is kept by every removal
and every linking of a node that points to itself. It rests on two lemmas about
functions that are each other's inverse, `BypassInverse` and `SpliceInverse`.

### Only model-checked

* `RoundRobin` and `DueServed`: liveness is out of the prover's reach.
* `ImplementsSequences`, `PointersAnswered` and `BitmapTrue` of Links: its loops (the
  tick's walk, the search for a waiter's place) are recursive operators, which the
  prover cannot reason about. ListProofs has what they are made of.

## 5. Plan

Done: all of the kernel's C files, the lists down to their pointers, the steps of
PendSV, the application, and the proofs above. What could follow:

1. The port's other half: the frames task_stack_init.c and PendSV_Handler leave on
   the stacks, and that a task resumes with the registers it was interrupted with.
2. Links with one step per node for the tick's walk and the search in the wait list,
   which would put `PointersAnswered` and `BitmapTrue` within the prover's reach.

### Not modelled

Startup code and linker script: memory layout, no state at this level. Board
registers: two writes at boot, whose meaning (interrupt priorities, a SysTick that
starts before the scheduler is initialised) is in the hazards. Register saving,
stack frames and the stack high-water mark. Interrupts nested in each other, or
unmasked in critical sections: `pendsv_race` shows what they can do, in one place.
