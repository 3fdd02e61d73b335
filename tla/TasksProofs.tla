---------------------------- MODULE TasksProofs ----------------------------
(***************************************************************************)
(* Proofs about Tasks: the kernel's lists stay consistent for any number   *)
(* of tasks, priorities and ticks.                                         *)
(***************************************************************************)
EXTENDS Tasks, SchedulerProofs

\* The inductive invariant: the types and the consistent lists.
Inv == TypeOK /\ ListsConsistent

\* Adding to a tick count wraps.
LEMMA TickInRange ==
    ASSUME NEW m \in TickCount, NEW n \in TickCount
    PROVE  (m + n) % TickMod \in TickCount
BY TickAssumption DEF TickCount

\* Making a task that was created, or suspended, ready.
LEMMA AddUnlinked ==
    ASSUME Inv, NEW c \in Task, k.state[c] \in {"UNCREATED", "SUSPENDED"},
           k' = add_ready(k, c)
    PROVE  k' \in Kernel /\ KernelInv(k')
<1>1. k \in Kernel /\ KernelInv(k)
  BY DEF Inv, TypeOK, ListsConsistent
<1>2. Loose(k, c)
  BY <1>1, UnlinkedIsLoose
<1>3. \A w \in WaitList : c \notin Range(k.waiters[w])
  BY <1>1 DEF KernelInv, ListedBlocked
<1> QED
  BY <1>1, <1>2, <1>3, AddReadySettles

\* Suspending a READY or RUNNING task other than the idle task.
LEMMA SuspendKeeps ==
    ASSUME Inv, NEW c \in Task \ {Idle}, NEW t \in Task, task_suspend(t, c)
    PROVE  k' \in Kernel /\ KernelInv(k')
<1> DEFINE u == IF k.state[c] = "READY" THEN remove(k, c) ELSE k
           v == [u EXCEPT !.state[c] = "SUSPENDED"]
<1>1. k \in Kernel /\ KernelInv(k)
  BY DEF Inv, TypeOK, ListsConsistent
<1>2. k.state[c] \in {"READY", "RUNNING"} /\ k' = v
  BY DEF task_suspend
<1>3. \A w \in WaitList : c \notin Range(k.waiters[w])
  BY <1>1, <1>2 DEF KernelInv, ListedBlocked
<1>4. u \in Kernel /\ Loose(u, c) /\ u.waiters = k.waiters
  <2>1. CASE k.state[c] = "READY"
    BY <1>1, <2>1, RemoveLoosens
  <2>2. CASE k.state[c] = "RUNNING"
    BY <1>1, <2>2, UnlinkedIsLoose
  <2> QED
    BY <1>2, <2>1, <2>2
<1> HIDE DEF u
<1>5. v \in Kernel /\ Loose(v, c)
  BY <1>4, LooseState DEF TaskState
<1>6. v.state[c] = "SUSPENDED" /\ v.waiters = u.waiters
  BY <1>4 DEF Kernel
<1> HIDE DEF v
<1>7. KernelInv(v)
  BY <1>3, <1>4, <1>5, <1>6, LooseSettles
<1> QED
  BY <1>2, <1>5, <1>7

\* Every step keeps the lists consistent and the types.
LEMMA TaskNextKeepsInv == Inv /\ [TaskNext]_tvars => Inv'
<1> SUFFICES ASSUME Inv, [TaskNext]_tvars PROVE Inv'
  OBVIOUS
<1>1. /\ k \in Kernel
      /\ KernelInv(k)
      /\ pc \in [Task -> PcLabel]
  BY DEF Inv, TypeOK, ListsConsistent
<1>2. SUFFICES k' \in Kernel /\ KernelInv(k') /\ pc' \in [Task -> PcLabel]
  BY DEF Inv, TypeOK, ListsConsistent
<1> DEFINE p == [k EXCEPT !.pendsv = TRUE]
           n == [k EXCEPT !.pendsv = FALSE]
<1>3. p \in Kernel /\ n \in Kernel
  BY <1>1 DEF Kernel
<1>4. KernelInv(p) /\ KernelInv(n)
  BY <1>1 DEF Kernel, KernelInv, NoDuplicates, ReadyOnly, ReadyListed, BitmapExact,
              ListedBlocked, BlockedListed, RunningIsCurrent, IdleAlive
<1>5. CASE UNCHANGED tvars
  BY <1>1, <1>5 DEF tvars
<1>6. ASSUME NEW c \in Task, create(c)
      PROVE  k' \in Kernel /\ KernelInv(k') /\ pc' \in [Task -> PcLabel]
  BY <1>1, <1>6, AddUnlinked DEF create
<1>7. CASE scheduler_start
  BY <1>1, <1>7, SelectNextKeeps DEF scheduler_start
<1>8. CASE SysTick_Handler
  BY <1>1, <1>8, TickKeeps DEF SysTick_Handler
<1>9. CASE PendSV_Handler
  <2>1. k' = select_next(n) /\ pc' = pc
    BY <1>9 DEF PendSV_Handler, switch_context
  <2> HIDE DEF n
  <2> QED
    BY <1>1, <1>3, <1>4, <2>1, SelectNextKeeps
<1>10. ASSUME NEW t \in Task, RequestSwitch(t)
       PROVE  k' \in Kernel /\ KernelInv(k') /\ pc' \in [Task -> PcLabel]
  BY <1>1, <1>3, <1>4, <1>10 DEF RequestSwitch, request_context_switch, PcLabel
<1>11. ASSUME NEW t \in Task, task_yield(t)
       PROVE  k' \in Kernel /\ KernelInv(k') /\ pc' \in [Task -> PcLabel]
  BY <1>1, <1>3, <1>4, <1>11 DEF task_yield, request_context_switch
<1>12. ASSUME NEW t \in Task, NEW d \in DelayArgs, task_delay(t, d)
       PROVE  k' \in Kernel /\ KernelInv(k') /\ pc' \in [Task -> PcLabel]
  <2> DEFINE wake == (k.tick + d) % TickMod
  <2>1. k.tick \in TickCount /\ d \in TickCount
    BY <1>1, DelayAssumption DEF Kernel
  <2>2. wake \in TickCount
    BY <2>1, TickInRange
  <2>3. /\ t \in Task \ {Idle}
        /\ k' = block_current_delay(k, t, wake)
        /\ pc' = [pc EXCEPT ![t] = "switch"]
    BY <1>12 DEF task_delay, Calls
  <2>4. pc' \in [Task -> PcLabel]
    BY <1>1, <2>3 DEF PcLabel
  <2> HIDE DEF wake
  <2> QED
    BY <1>1, <2>2, <2>3, <2>4, BlockDelayKeeps
<1>13. ASSUME NEW t \in Task, NEW c \in Managed, task_suspend(t, c)
       PROVE  k' \in Kernel /\ KernelInv(k') /\ pc' \in [Task -> PcLabel]
  <2>1. c \in Task \ {Idle}
    BY ManagedAssumption
  <2>2. pc' \in [Task -> PcLabel]
    BY <1>1, <1>13 DEF task_suspend, PcLabel
  <2> QED
    BY <1>13, <2>1, <2>2, SuspendKeeps
<1>14. ASSUME NEW t \in Task, NEW c \in Managed, task_resume(t, c)
       PROVE  k' \in Kernel /\ KernelInv(k') /\ pc' \in [Task -> PcLabel]
  BY <1>1, <1>14, AddUnlinked, ManagedAssumption DEF task_resume
<1>15. CASE BootStep
  BY <1>6, <1>7, <1>15 DEF BootStep, main_create
<1>16. CASE PortStep
  BY <1>8, <1>9, <1>10, <1>16 DEF PortStep
<1>17. CASE TaskStep
  BY <1>6, <1>11, <1>12, <1>13, <1>14, <1>17, ManagedAssumption DEF TaskStep, task_create
<1> QED
  BY <1>5, <1>15, <1>16, <1>17 DEF TaskNext

\* TaskTypes: in every behaviour of the task layer the kernel record keeps its
\* type, whatever the tasks, priorities and tick width.
THEOREM TaskTypes == TaskSpec => []TypeOK
<1>1. TaskInit => Inv
  BY InitConsistent DEF TaskInit, Inv, TypeOK, ListsConsistent, PcLabel
<1> QED
  BY <1>1, TaskNextKeepsInv, PTL DEF TaskSpec, Inv

\* TaskLists: no interleaving of task API calls, ticks and context switches
\* makes the ready lists, the bitmap, the delayed list and the task states
\* disagree, so select_next always finds a real task to run.
THEOREM TaskLists == TaskSpec => []ListsConsistent
<1>1. TaskInit => Inv
  BY InitConsistent DEF TaskInit, Inv, TypeOK, ListsConsistent, PcLabel
<1> QED
  BY <1>1, TaskNextKeepsInv, PTL DEF TaskSpec, Inv

-----------------------------------------------------------------------------
(* What a step of the task layer leaves alone.  The modules above it rely on *)
(* this, the mutexes among them, whose kernel is not always consistent.      *)

\* Every step but a tick: no wait list and no answer changes, no task leaves the
\* delayed list, and only a task that calls nimble_task_delay becomes BLOCKED.
QuietStep ==
    /\ k'.waiters = k.waiters
    /\ k'.last_wait_result = k.last_wait_result
    /\ k'.tick = k.tick
    /\ Range(k.delayed) \subseteq Range(k'.delayed)
    /\ \A x \in Task : \/ k'.state[x] = "BLOCKED" <=> k.state[x] = "BLOCKED"
                       \/ pc[x] = "app" /\ pc'[x] = "switch"
    /\ \A x \in Range(k'.delayed) :
          \/ x \in Range(k.delayed) /\ k'.wake_tick[x] = k.wake_tick[x]
          \/ /\ pc[x] = "app"
             /\ \E n \in DelayArgs \ {0} : k'.wake_tick[x] = (k.tick + n) % TickMod

TickStep == TickEffect(k, DueSet(k), k') /\ pc' = pc

TaskStepEffect ==
    /\ k' \in Kernel /\ ListedStates(k') /\ pc' \in [Task -> PcLabel]
    /\ k'.priority = k.priority
    /\ \A x \in Task : pc'[x] \in {"block", "wake"} <=> pc[x] \in {"block", "wake"}
    /\ QuietStep \/ TickStep

\* Making a task that is in no list ready is a quiet step.
LEMMA AddReadyQuiet ==
    ASSUME TypeOK, ListedStates(k), NEW c \in Task,
           k.state[c] \in {"UNCREATED", "SUSPENDED"}, k' = add_ready(k, c), pc' = pc
    PROVE  TaskStepEffect /\ QuietStep
<1>1. k \in Kernel /\ pc \in [Task -> PcLabel]
  BY DEF TypeOK
<1>2. AddReadyEffect(k, c, k')
  BY <1>1, AddReadyFields
<1>3. /\ k' \in Kernel
      /\ k'.delayed = k.delayed /\ k'.waiters = k.waiters
      /\ k'.wake_tick = k.wake_tick
      /\ k'.last_wait_result = k.last_wait_result
      /\ k'.priority = k.priority /\ k'.tick = k.tick
  BY <1>2 DEF AddReadyEffect, SameTask
<1>4. k'.state[c] = "READY" /\ \A x \in Task \ {c} : k'.state[x] = k.state[x]
  BY <1>1, <1>2 DEF AddReadyEffect, Kernel
<1>5. \A p \in Prio : Range(k'.ready[p]) \subseteq Range(k.ready[p]) \cup {c}
  BY <1>2 DEF AddReadyEffect
<1>6. Range(k.delayed) \subseteq Task /\ \A p \in Prio : Range(k.ready[p]) \subseteq Task
  BY <1>1, ListTypes
<1>7. ListedStates(k')
  BY <1>3, <1>4, <1>5, <1>6 DEF ListedStates
<1>8. QuietStep
  BY <1>3, <1>4 DEF QuietStep
<1> QED
  BY <1>1, <1>3, <1>7, <1>8 DEF TaskStepEffect

\* So is choosing the next task.
LEMMA SelectQuiet ==
    ASSUME TypeOK, ListedStates(k), NEW b \in BOOLEAN,
           k' = select_next([k EXCEPT !.pendsv = b]), pc' = pc
    PROVE  TaskStepEffect /\ QuietStep
<1> DEFINE n == [k EXCEPT !.pendsv = b]
<1>1. k \in Kernel /\ pc \in [Task -> PcLabel]
  BY DEF TypeOK
<1>2. /\ n \in Kernel /\ n.ready = k.ready /\ n.delayed = k.delayed
      /\ n.waiters = k.waiters /\ n.state = k.state /\ n.wake_tick = k.wake_tick
      /\ n.last_wait_result = k.last_wait_result
      /\ n.priority = k.priority /\ n.tick = k.tick
  BY <1>1 DEF Kernel
<1>3. k' = select_next(n)
  OBVIOUS
<1> HIDE DEF n
<1>4. ListedStates(n)
  BY <1>2 DEF ListedStates
<1>5. SelectEffect(n, k')
  BY <1>2, <1>3, <1>4, SelectFields
<1>6. /\ k' \in Kernel /\ ListedStates(k')
      /\ k'.waiters = k.waiters /\ Range(k'.delayed) = Range(k.delayed)
      /\ \A x \in Range(k.delayed) : k'.wake_tick[x] = k.wake_tick[x]
      /\ \A x \in Task : k'.state[x] = "BLOCKED" <=> k.state[x] = "BLOCKED"
      /\ k'.last_wait_result = k.last_wait_result
      /\ k'.priority = k.priority /\ k'.tick = k.tick
  BY <1>2, <1>5 DEF SelectEffect
<1>7. QuietStep
  BY <1>6 DEF QuietStep
<1> QED
  BY <1>1, <1>6, <1>7 DEF TaskStepEffect

\* So is a delay.
LEMMA DelayQuiet ==
    ASSUME TypeOK, ListedStates(k), NEW t \in Task, NEW d \in DelayArgs, task_delay(t, d)
    PROVE  TaskStepEffect /\ QuietStep
<1> DEFINE wake == (k.tick + d) % TickMod
<1>1. k \in Kernel /\ pc \in [Task -> PcLabel]
  BY DEF TypeOK
<1>2. k.tick \in TickCount /\ d \in TickCount /\ d # 0
  BY <1>1, DelayAssumption DEF Kernel, task_delay
<1>3. wake \in TickCount
  BY <1>2, TickInRange
<1>4. k' = block_current_delay(k, t, wake) /\ pc' = [pc EXCEPT ![t] = "switch"]
      /\ pc[t] = "app"
  BY DEF task_delay, Calls
<1>5. d \in DelayArgs \ {0} /\ wake = (k.tick + d) % TickMod
  BY <1>2
<1> HIDE DEF wake
<1>6. DelayEffect(k, t, wake, k')
  BY <1>1, <1>3, <1>4, DelayFields
<1>7. /\ k' \in Kernel
      /\ \A p \in Prio : Range(k'.ready[p]) = Range(k.ready[p]) \ {t}
      /\ Range(k'.delayed) = Range(k.delayed) \cup {t}
      /\ k'.waiters = k.waiters
      /\ k'.last_wait_result = k.last_wait_result
      /\ k'.priority = k.priority /\ k'.tick = k.tick
  BY <1>6 DEF DelayEffect, SameTask
<1>8. k'.state[t] = "BLOCKED" /\ \A x \in Task \ {t} : k'.state[x] = k.state[x]
  BY <1>1, <1>6 DEF DelayEffect, Kernel
<1>9. k'.wake_tick[t] = wake /\ \A x \in Task \ {t} : k'.wake_tick[x] = k.wake_tick[x]
  BY <1>1, <1>6 DEF DelayEffect, Kernel
<1>10. Range(k.delayed) \subseteq Task /\ \A p \in Prio : Range(k.ready[p]) \subseteq Task
  BY <1>1, ListTypes
<1>11. pc'[t] = "switch" /\ (\A x \in Task \ {t} : pc'[x] = pc[x]) /\ pc' \in [Task -> PcLabel]
  BY <1>1, <1>4 DEF PcLabel
<1>12. ListedStates(k')
  BY <1>7, <1>8, <1>10 DEF ListedStates
<1>13. QuietStep
  <2>1. \A x \in Task : \/ k'.state[x] = "BLOCKED" <=> k.state[x] = "BLOCKED"
                        \/ pc[x] = "app" /\ pc'[x] = "switch"
    BY <1>4, <1>8, <1>11
  <2>2. ASSUME NEW x \in Range(k'.delayed)
        PROVE  \/ x \in Range(k.delayed) /\ k'.wake_tick[x] = k.wake_tick[x]
               \/ /\ pc[x] = "app"
                  /\ \E n \in DelayArgs \ {0} : k'.wake_tick[x] = (k.tick + n) % TickMod
    <3>1. CASE x = t
      BY <3>1, <1>4, <1>5, <1>9
    <3>2. CASE x # t
      BY <3>2, <1>7, <1>9, <1>10
    <3> QED
      BY <3>1, <3>2
  <2> QED
    BY <2>1, <2>2, <1>7 DEF QuietStep
<1>14. \A x \in Task : pc'[x] \in {"block", "wake"} <=> pc[x] \in {"block", "wake"}
  BY <1>4, <1>11
<1> QED
  BY <1>7, <1>11, <1>12, <1>13, <1>14 DEF TaskStepEffect

\* So is a suspension.
LEMMA SuspendQuiet ==
    ASSUME TypeOK, ListedStates(k), NEW t \in Task, NEW c \in Task, task_suspend(t, c)
    PROVE  TaskStepEffect /\ QuietStep
<1>1. k \in Kernel /\ pc \in [Task -> PcLabel]
  BY DEF TypeOK
<1>2. /\ k.state[c] \in {"READY", "RUNNING"} /\ pc[t] = "app"
      /\ pc' = IF c = t THEN [pc EXCEPT ![t] = "switch"] ELSE pc
  BY DEF task_suspend, Calls
<1>3. SuspendEffect(k, c, k')
  BY <1>1, <1>2, SuspendFields DEF task_suspend
<1>4. /\ k' \in Kernel
      /\ \A p \in Prio : Range(k'.ready[p]) = Range(k.ready[p]) \ {c}
      /\ Range(k'.delayed) = Range(k.delayed)
      /\ \A x \in Range(k.delayed) : k'.wake_tick[x] = k.wake_tick[x]
      /\ k'.waiters = k.waiters
      /\ k'.last_wait_result = k.last_wait_result
      /\ k'.priority = k.priority /\ k'.tick = k.tick
  BY <1>3 DEF SuspendEffect, SameTask
<1>5. k'.state[c] = "SUSPENDED" /\ \A x \in Task \ {c} : k'.state[x] = k.state[x]
  BY <1>1, <1>3 DEF SuspendEffect, Kernel
<1>6. Range(k.delayed) \subseteq Task /\ \A p \in Prio : Range(k.ready[p]) \subseteq Task
  BY <1>1, ListTypes
<1>7. ListedStates(k')
  BY <1>2, <1>4, <1>5, <1>6 DEF ListedStates
<1>8. QuietStep
  BY <1>2, <1>4, <1>5 DEF QuietStep
<1>9. /\ pc' \in [Task -> PcLabel]
      /\ \A x \in Task : pc'[x] \in {"block", "wake"} <=> pc[x] \in {"block", "wake"}
  BY <1>1, <1>2 DEF PcLabel
<1> QED
  BY <1>4, <1>7, <1>8, <1>9 DEF TaskStepEffect

\* Setting the PendSV bit is one too.
LEMMA RequestQuiet ==
    ASSUME TypeOK, ListedStates(k), k' = request_context_switch(k),
           pc' \in [Task -> PcLabel],
           \A x \in Task : pc'[x] \in {"block", "wake"} <=> pc[x] \in {"block", "wake"}
    PROVE  TaskStepEffect /\ QuietStep
<1>1. k \in Kernel
  BY DEF TypeOK
<1>2. /\ k' \in Kernel
      /\ k'.ready = k.ready /\ k'.delayed = k.delayed /\ k'.state = k.state
      /\ k'.waiters = k.waiters /\ k'.wake_tick = k.wake_tick
      /\ k'.last_wait_result = k.last_wait_result
      /\ k'.priority = k.priority /\ k'.tick = k.tick
  BY <1>1 DEF Kernel, request_context_switch
<1>3. ListedStates(k')
  BY <1>2 DEF ListedStates
<1>4. QuietStep
  BY <1>2 DEF QuietStep
<1> QED
  BY <1>2, <1>3, <1>4 DEF TaskStepEffect

\* Every step of the task layer is quiet or a tick.
LEMMA TaskNextEffect ==
    ASSUME TypeOK, ListedStates(k), [TaskNext]_tvars
    PROVE  TaskStepEffect
<1>1. k \in Kernel /\ pc \in [Task -> PcLabel]
  BY DEF TypeOK
<1>2. CASE UNCHANGED tvars
  <2>1. k' = k /\ pc' = pc
    BY <1>2 DEF tvars
  <2> QED
    BY <1>1, <2>1 DEF TaskStepEffect, QuietStep
<1>3. ASSUME NEW c \in Task, create(c) PROVE TaskStepEffect
  BY <1>3, AddReadyQuiet DEF create
<1>4. CASE scheduler_start
  <2>1. k' = select_next(k) /\ pc' = pc
    BY <1>4 DEF scheduler_start
  <2>2. k = [k EXCEPT !.pendsv = k.pendsv] /\ k.pendsv \in BOOLEAN
    BY <1>1 DEF Kernel
  <2> QED
    BY <2>1, <2>2, SelectQuiet
<1>5. CASE SysTick_Handler
  <2>1. k' = scheduler_tick(k) /\ pc' = pc
    BY <1>5 DEF SysTick_Handler
  <2>2. TickEffect(k, DueSet(k), k')
    BY <1>1, <2>1, TickFields
  <2> DEFINE D == DueSet(k)
  <2>3. D \subseteq Range(k.delayed) /\ Range(k.delayed) \subseteq Task
        /\ \A p \in Prio : Range(k.ready[p]) \subseteq Task
    BY <1>1, ListTypes DEF DueSet
  <2> HIDE DEF D
  <2>4. /\ k' \in Kernel /\ k'.priority = k.priority
        /\ Range(k'.delayed) = Range(k.delayed) \ D
        /\ \A p \in Prio : Range(k'.ready[p]) \subseteq Range(k.ready[p]) \cup D
        /\ \A x \in Task : k'.state[x] = IF x \in D THEN "READY" ELSE k.state[x]
    BY <2>2 DEF TickEffect, D
  <2>5. ListedStates(k')
    BY <2>3, <2>4 DEF ListedStates
  <2> QED
    BY <1>1, <2>1, <2>2, <2>4, <2>5 DEF TaskStepEffect, TickStep
<1>6. CASE PendSV_Handler
  BY <1>6, SelectQuiet DEF PendSV_Handler, switch_context
<1>7. ASSUME NEW t \in Task, RequestSwitch(t) PROVE TaskStepEffect
  <2>1. /\ pc' \in [Task -> PcLabel]
        /\ \A x \in Task : pc'[x] \in {"block", "wake"} <=> pc[x] \in {"block", "wake"}
    BY <1>1, <1>7 DEF RequestSwitch, PcLabel
  <2> QED
    BY <1>7, <2>1, RequestQuiet DEF RequestSwitch
<1>8. ASSUME NEW t \in Task, task_yield(t) PROVE TaskStepEffect
  BY <1>1, <1>8, RequestQuiet DEF task_yield
<1>9. ASSUME NEW t \in Task, NEW c \in Managed, task_resume(t, c) PROVE TaskStepEffect
  BY <1>9, AddReadyQuiet, ManagedAssumption DEF task_resume
<1>10. CASE BootStep
  BY <1>3, <1>4, <1>10 DEF BootStep, main_create
<1>11. CASE PortStep
  BY <1>5, <1>6, <1>7, <1>11 DEF PortStep
<1>12. CASE TaskStep
  BY <1>3, <1>8, <1>9, <1>12, DelayQuiet, SuspendQuiet, ManagedAssumption
     DEF TaskStep, task_create
<1> QED
  BY <1>2, <1>10, <1>11, <1>12 DEF TaskNext

-----------------------------------------------------------------------------
(* Who runs. *)

\* Whoever executes anything but a request for a switch is RUNNING.
RunsRunning ==
    \A t \in Task : Executes(t) /\ pc[t] \in {"app", "wake"} => k.state[t] = "RUNNING"

\* The inductive invariant of the task layer: without priority inheritance the
\* priorities stay those the tasks were created with.
TaskInv == Inv /\ RunsRunning /\ k.priority = BasePriority

\* nimble_task_create and nimble_task_resume request no switch, so they may be
\* used on tasks that outrank no caller.
LowestManaged ==
    \A c \in Managed, t \in Task \ {Idle} : BasePriority[c] <= BasePriority[t]

\* A step after which PendSV is pending, no task is current, or the current task
\* owes a switch lets nobody execute other code.
LEMMA NobodyRuns ==
    ASSUME \/ k'.pendsv
           \/ k'.current \notin Task
           \/ pc'[k'.current] \in {"switch", "block"}
    PROVE  RunsRunning' /\ HighestReadyRuns'
<1>1. ASSUME NEW t \in Task, Executes(t)', pc'[t] \in {"app", "wake"} PROVE FALSE
  <2>1. k'.current = t /\ ~ k'.pendsv
    BY <1>1 DEF Executes
  <2> QED
    BY <2>1, <1>1
<1> QED
  BY <1>1 DEF RunsRunning, HighestReadyRuns

\* Making ready a task that is neither RUNNING nor above the caller.
LEMMA AddReadyRuns ==
    ASSUME TaskInv, NEW t \in Task, Executes(t), NEW c \in Task,
           k.state[c] \in {"UNCREATED", "SUSPENDED"}, k' = add_ready(k, c), pc' = pc
    PROVE  /\ RunsRunning'
           /\ HighestReadyRuns /\ k.priority[c] <= k.priority[t] => HighestReadyRuns'
<1>1. k \in Kernel
  BY DEF TaskInv, Inv, TypeOK
<1>2. AddReadyEffect(k, c, k')
  BY <1>1, AddReadyFields
<1>3. k'.current = k.current /\ k'.pendsv = k.pendsv /\ k'.priority = k.priority
  BY <1>2 DEF AddReadyEffect, SameTask
<1>4. k'.state[c] = "READY" /\ \A x \in Task \ {c} : k'.state[x] = k.state[x]
  BY <1>1, <1>2 DEF AddReadyEffect, Kernel
<1>5. \A x \in Task : Executes(x)' => x = t /\ Executes(t)
  BY <1>3 DEF Executes
<1>6. RunsRunning'
  BY <1>4, <1>5 DEF RunsRunning, TaskInv
<1>7. ASSUME HighestReadyRuns, k.priority[c] <= k.priority[t] PROVE HighestReadyRuns'
  <2> SUFFICES ASSUME NEW x \in Task, Executes(x)', pc'[x] \in {"app", "wake"},
                      NEW u \in Task, k'.state[u] = "READY"
               PROVE  k'.priority[u] <= k'.priority[x]
    BY DEF HighestReadyRuns
  <2>1. x = t /\ Executes(t) /\ pc[t] \in {"app", "wake"}
    BY <1>5
  <2>2. CASE u = c
    BY <1>3, <1>7, <2>1, <2>2
  <2>3. CASE u # c
    <3>1. k.state[u] = "READY"
      BY <1>4, <2>3
    <3> QED
      BY <1>3, <1>7, <2>1, <3>1 DEF HighestReadyRuns
  <2> QED
    BY <2>2, <2>3
<1> QED
  BY <1>6, <1>7

\* A context switch makes the highest ready task run.
LEMMA SelectRuns ==
    ASSUME TaskInv, NEW b \in BOOLEAN,
           k' = select_next([k EXCEPT !.pendsv = b]), pc' = pc
    PROVE  RunsRunning' /\ HighestReadyRuns'
<1> DEFINE n == [k EXCEPT !.pendsv = b]
<1>1. k \in Kernel /\ KernelInv(k)
  BY DEF TaskInv, Inv, TypeOK, ListsConsistent
<1>2. n \in Kernel /\ KernelInv(n)
  BY <1>1 DEF Kernel, KernelInv, NoDuplicates, ReadyOnly, ReadyListed, BitmapExact,
              ListedBlocked, BlockedListed, RunningIsCurrent, IdleAlive
<1>3. k' = select_next(n)
  OBVIOUS
<1> HIDE DEF n
<1>4. /\ k'.current \in Task
      /\ \A x \in Task : k'.state[x] = "READY" => k'.priority[x] <= k'.priority[k'.current]
  BY <1>2, <1>3, SelectNextKeeps
<1>5. ListedStates(n)
  BY <1>2, ConsistentListedStates
<1>6. SelectEffect(n, k')
  BY <1>2, <1>3, <1>5, SelectFields
<1>7. k'.state[k'.current] = "RUNNING"
  BY <1>4, <1>6 DEF SelectEffect
<1>8. \A x \in Task : Executes(x)' => k'.current = x
  BY DEF Executes
<1> QED
  BY <1>4, <1>7, <1>8 DEF RunsRunning, HighestReadyRuns

\* Suspending a task takes it away from those that might run.
LEMMA SuspendRuns ==
    ASSUME TaskInv, NEW t \in Task, NEW c \in Task, task_suspend(t, c)
    PROVE  RunsRunning' /\ (HighestReadyRuns => HighestReadyRuns')
<1>1. k \in Kernel /\ ListedStates(k) /\ pc \in [Task -> PcLabel]
  BY ConsistentListedStates DEF TaskInv, Inv, TypeOK, ListsConsistent
<1>2. /\ k.state[c] \in {"READY", "RUNNING"} /\ Executes(t) /\ pc[t] = "app"
      /\ pc' = IF c = t THEN [pc EXCEPT ![t] = "switch"] ELSE pc
  BY DEF task_suspend, Calls
<1>3. SuspendEffect(k, c, k')
  BY <1>1, <1>2, SuspendFields DEF task_suspend
<1>4. k'.current = k.current /\ k'.pendsv = k.pendsv /\ k'.priority = k.priority
  BY <1>3 DEF SuspendEffect, SameTask
<1>5. k'.state[c] = "SUSPENDED" /\ \A x \in Task \ {c} : k'.state[x] = k.state[x]
  BY <1>1, <1>3 DEF SuspendEffect, Kernel
<1>6. CASE c = t
  <2>1. pc'[k'.current] = "switch"
    BY <1>1, <1>2, <1>4, <1>6 DEF Executes
  <2> QED
    BY <2>1, NobodyRuns
<1>7. CASE c # t
  <2>1. \A x \in Task : Executes(x)' => x = t
    BY <1>2, <1>4 DEF Executes
  <2>2. k'.state[t] = "RUNNING"
    BY <1>2, <1>5, <1>7 DEF TaskInv, RunsRunning
  <2>3. \A u \in Task : k'.state[u] = "READY" => k.state[u] = "READY"
    BY <1>5
  <2>4. HighestReadyRuns =>
           \A u \in Task : k.state[u] = "READY" => k.priority[u] <= k.priority[t]
    BY <1>2 DEF HighestReadyRuns
  <2> QED
    BY <2>1, <2>2, <2>3, <2>4, <1>4 DEF RunsRunning, HighestReadyRuns
<1> QED
  BY <1>6, <1>7

\* Every step of the task layer lets only RUNNING tasks run, and none below a
\* ready one.
LEMMA TaskNextRuns ==
    ASSUME TaskInv, [TaskNext]_tvars
    PROVE  RunsRunning' /\ (LowestManaged /\ HighestReadyRuns => HighestReadyRuns')
<1>1. /\ k \in Kernel /\ KernelInv(k) /\ pc \in [Task -> PcLabel]
      /\ k.priority = BasePriority
  BY DEF TaskInv, Inv, TypeOK, ListsConsistent
<1>2. CASE UNCHANGED tvars
  <2>1. k' = k /\ pc' = pc
    BY <1>2 DEF tvars
  <2> QED
    BY <2>1 DEF TaskInv, RunsRunning, HighestReadyRuns, Executes
<1>3. ASSUME NEW c \in Task, main_create(c) PROVE RunsRunning' /\ HighestReadyRuns'
  <2>1. k' = add_ready(k, c) /\ k.current = NULL
    BY <1>3 DEF main_create, create
  <2>2. AddReadyEffect(k, c, k')
    BY <1>1, <2>1, AddReadyFields
  <2>3. k'.current \notin Task
    BY <2>1, <2>2, TaskAssumption DEF AddReadyEffect, SameTask
  <2> QED
    BY <2>3, NobodyRuns
<1>4. CASE scheduler_start
  <2>1. k' = select_next(k) /\ pc' = pc
    BY <1>4 DEF scheduler_start
  <2>2. k = [k EXCEPT !.pendsv = k.pendsv] /\ k.pendsv \in BOOLEAN
    BY <1>1 DEF Kernel
  <2> QED
    BY <2>1, <2>2, SelectRuns
<1>5. CASE SysTick_Handler
  <2>1. TickEffect(k, DueSet(k), k')
    BY <1>1, <1>5, TickFields DEF SysTick_Handler
  <2> QED
    BY <2>1, NobodyRuns DEF TickEffect
<1>6. CASE PendSV_Handler
  BY <1>6, SelectRuns DEF PendSV_Handler, switch_context
<1>7. ASSUME NEW t \in Task, RequestSwitch(t) \/ task_yield(t)
      PROVE  RunsRunning' /\ HighestReadyRuns'
  <2>1. k'.pendsv
    BY <1>1, <1>7 DEF RequestSwitch, task_yield, request_context_switch, Kernel
  <2> QED
    BY <2>1, NobodyRuns
<1>8. ASSUME NEW t \in Task, NEW d \in DelayArgs, task_delay(t, d)
      PROVE  RunsRunning' /\ HighestReadyRuns'
  <2> DEFINE wake == (k.tick + d) % TickMod
  <2>1. k.tick \in TickCount /\ d \in TickCount
    BY <1>1, DelayAssumption DEF Kernel
  <2>2. wake \in TickCount
    BY <2>1, TickInRange
  <2>3. /\ k' = block_current_delay(k, t, wake) /\ pc' = [pc EXCEPT ![t] = "switch"]
        /\ k.current = t
    BY <1>8 DEF task_delay, Calls, Executes
  <2> HIDE DEF wake
  <2>4. DelayEffect(k, t, wake, k')
    BY <1>1, <2>2, <2>3, DelayFields
  <2>5. pc'[k'.current] = "switch"
    BY <1>1, <2>3, <2>4 DEF DelayEffect, SameTask
  <2> QED
    BY <2>5, NobodyRuns
<1>9. ASSUME NEW t \in Task, NEW c \in Managed, task_create(t, c) \/ task_resume(t, c)
      PROVE  RunsRunning' /\ (LowestManaged /\ HighestReadyRuns => HighestReadyRuns')
  <2>1. /\ Executes(t) /\ t # Idle /\ k' = add_ready(k, c) /\ pc' = pc
        /\ k.state[c] \in {"UNCREATED", "SUSPENDED"} /\ c \in Task
    BY <1>9, ManagedAssumption DEF task_create, task_resume, create, Calls
  <2>2. LowestManaged => k.priority[c] <= k.priority[t]
    BY <1>1, <2>1 DEF LowestManaged
  <2> QED
    BY <2>1, <2>2, AddReadyRuns
<1>10. CASE BootStep
  BY <1>3, <1>4, <1>10 DEF BootStep
<1>11. CASE PortStep
  BY <1>5, <1>6, <1>7, <1>11 DEF PortStep
<1>12. CASE TaskStep
  BY <1>7, <1>8, <1>9, <1>12, SuspendRuns, ManagedAssumption DEF TaskStep
<1> QED
  BY <1>2, <1>10, <1>11, <1>12 DEF TaskNext

\* The invariant of the task layer is inductive.
LEMMA TaskNextKeepsTaskInv == TaskInv /\ [TaskNext]_tvars => TaskInv'
<1> SUFFICES ASSUME TaskInv, [TaskNext]_tvars PROVE TaskInv'
  OBVIOUS
<1>1. Inv'
  BY TaskNextKeepsInv DEF TaskInv
<1>2. TypeOK /\ ListedStates(k)
  BY ConsistentListedStates DEF TaskInv, Inv, ListsConsistent
<1>3. k'.priority = k.priority
  BY <1>2, TaskNextEffect DEF TaskStepEffect
<1> QED
  BY <1>1, <1>3, TaskNextRuns DEF TaskInv

\* It holds when main starts: nobody runs yet.
LEMMA TaskInitInv == TaskInit => TaskInv /\ HighestReadyRuns
<1> SUFFICES ASSUME TaskInit PROVE TaskInv /\ HighestReadyRuns
  OBVIOUS
<1>1. Inv
  BY InitConsistent DEF TaskInit, Inv, TypeOK, ListsConsistent, PcLabel
<1>2. k.priority = BasePriority /\ k.current = NULL
  BY DEF TaskInit, scheduler_init, add_ready
<1> QED
  BY <1>1, <1>2, TaskAssumption DEF TaskInv, RunsRunning, HighestReadyRuns, Executes

\* TaskHighest: if the tasks that others create and resume at run time outrank no
\* caller, then whenever a thread executes anything but its request for a switch
\* no ready task has a higher priority.
THEOREM TaskHighest == ASSUME LowestManaged PROVE TaskSpec => []HighestReadyRuns
<1> DEFINE I == TaskInv /\ HighestReadyRuns
<1>1. TaskInit => I
  BY TaskInitInv
<1>2. I /\ [TaskNext]_tvars => I'
  BY TaskNextKeepsTaskInv, TaskNextRuns
<1> QED
  BY <1>1, <1>2, PTL DEF TaskSpec

-----------------------------------------------------------------------------
(* Deadlines. *)

\* No delay is beyond the reach of the signed comparison of tick counts.
NearDelays == DelayArgs \subseteq 0 .. TickMod \div 2 + 1

\* The distance between two tick counts, around the wrap.
LEMMA TickDistance ==
    ASSUME NEW m \in TickCount, NEW n \in TickCount
    PROVE  (m - n) % TickMod = IF m >= n THEN m - n ELSE m - n + TickMod
BY TickAssumption DEF TickCount

\* The sum of a tick count and a number of ticks.
LEMMA TickSum ==
    ASSUME NEW m \in TickCount, NEW n \in TickCount
    PROVE  (m + n) % TickMod = IF m + n < TickMod THEN m + n ELSE m + n - TickMod
BY TickAssumption DEF TickCount

\* Half of an even tick width.
LEMMA TickHalf == TickMod \div 2 \in Nat /\ TickMod = 2 * (TickMod \div 2) /\ TickMod \div 2 >= 2
BY TickAssumption

\* A task whose deadline is ahead is due at the next tick iff that is its deadline,
\* and otherwise its deadline is still ahead afterwards.
LEMMA DueExactly ==
    ASSUME NEW now \in TickCount, NEW wake \in TickCount,
           (wake - now) % TickMod \in 1 .. TickMod \div 2 + 1,
           NEW next, next = (now + 1) % TickMod
    PROVE  /\ next \in TickCount
           /\ Due(next, wake) => wake = next
           /\ ~ Due(next, wake) => (wake - next) % TickMod \in 1 .. TickMod \div 2 + 1
<1> DEFINE H == TickMod \div 2
<1>1. H \in Nat /\ TickMod = 2 * H /\ H >= 2
  BY TickHalf
<1> HIDE DEF H
<1>2. now \in 0 .. 2 * H - 1 /\ wake \in 0 .. 2 * H - 1 /\ 1 \in TickCount
  BY <1>1 DEF TickCount
<1>3. next = IF now + 1 < TickMod THEN now + 1 ELSE now + 1 - TickMod
  BY <1>2, TickSum
<1>4. next \in TickCount
  BY <1>1, <1>2, <1>3 DEF TickCount
<1>5. (wake - now) % TickMod = IF wake >= now THEN wake - now ELSE wake - now + TickMod
  BY TickDistance
<1>6. (IF wake >= now THEN wake - now ELSE wake - now + TickMod) \in 1 .. H + 1
  BY <1>5 DEF H
<1>7. (next - wake) % TickMod = IF next >= wake THEN next - wake ELSE next - wake + TickMod
  BY <1>4, TickDistance
<1>8. (wake - next) % TickMod = IF wake >= next THEN wake - next ELSE wake - next + TickMod
  BY <1>4, TickDistance
<1>9. Due(next, wake) <=> (next - wake) % TickMod < H
  BY DEF Due, H
<1>10. Due(next, wake) => wake = next
  BY <1>1, <1>2, <1>3, <1>6, <1>7, <1>9
<1>11. ~ Due(next, wake) => (wake - next) % TickMod \in 1 .. H + 1
  BY <1>1, <1>2, <1>3, <1>6, <1>7, <1>8, <1>9
<1> QED
  BY <1>4, <1>10, <1>11 DEF H

\* Every step keeps the deadlines ahead, and wakes nobody early or late.
LEMMA TaskNextDeadlines ==
    ASSUME NearDelays, TypeOK, ListedStates(k), DeadlineAhead, [TaskNext]_tvars
    PROVE  /\ DeadlineAhead'
           /\ \A t \in Range(k.delayed) :
                 t \notin Range(k'.delayed) => k'.tick = k.wake_tick[t]
<1>1. TaskStepEffect
  BY TaskNextEffect
<1>2. k \in Kernel /\ k' \in Kernel
  BY <1>1 DEF TypeOK, TaskStepEffect
<1>3. /\ k.tick \in TickCount /\ Range(k.delayed) \subseteq Task
      /\ k.wake_tick \in [Task -> TickCount]
      /\ Range(k'.delayed) \subseteq Task
  BY <1>2, ListTypes DEF Kernel
<1>4. CASE QuietStep
  <2>1. k'.tick = k.tick /\ Range(k.delayed) \subseteq Range(k'.delayed)
    BY <1>4 DEF QuietStep
  <2>2. ASSUME NEW x \in Range(k'.delayed)
        PROVE  (k'.wake_tick[x] - k'.tick) % TickMod \in 1 .. TickMod \div 2 + 1
    <3>1. CASE x \in Range(k.delayed) /\ k'.wake_tick[x] = k.wake_tick[x]
      BY <2>1, <3>1 DEF DeadlineAhead
    <3>2. CASE \E n \in DelayArgs \ {0} : k'.wake_tick[x] = (k.tick + n) % TickMod
      <4>1. PICK n \in DelayArgs \ {0} : k'.wake_tick[x] = (k.tick + n) % TickMod
        BY <3>2
      <4> DEFINE wake == k'.wake_tick[x]
                 H == TickMod \div 2
      <4>2. H \in Nat /\ TickMod = 2 * H /\ H >= 2
        BY TickHalf
      <4>3. n \in TickCount /\ n \in 1 .. H + 1
        BY <4>2, DelayAssumption DEF NearDelays, TickCount
      <4>4. wake = IF k.tick + n < TickMod THEN k.tick + n ELSE k.tick + n - TickMod
        BY <4>1, <4>3, <1>3, TickSum
      <4> HIDE DEF wake, H
      <4>5. k.tick \in 0 .. 2 * H - 1 /\ wake \in TickCount
        BY <4>2, <4>3, <4>4, <1>3 DEF TickCount
      <4>6. (wake - k.tick) % TickMod =
              IF wake >= k.tick THEN wake - k.tick ELSE wake - k.tick + TickMod
        BY <4>5, <1>3, TickDistance
      <4>7. (wake - k.tick) % TickMod \in 1 .. H + 1
        BY <4>2, <4>3, <4>4, <4>5, <4>6
      <4> QED
        BY <2>1, <4>7 DEF wake, H
    <3> QED
      BY <1>4, <3>1, <3>2 DEF QuietStep
  <2> QED
    BY <2>1, <2>2 DEF DeadlineAhead
<1>5. CASE TickStep
  <2> DEFINE D == DueSet(k)
             next == (k.tick + 1) % TickMod
  <2>1. /\ k'.tick = next
        /\ Range(k'.delayed) = Range(k.delayed) \ D
        /\ k'.wake_tick = [t \in Task |-> IF t \in D THEN 0 ELSE k.wake_tick[t]]
    BY <1>5 DEF TickStep, TickEffect
  <2>2. \A t \in Range(k.delayed) : t \in D <=> Due(next, k.wake_tick[t])
    BY DEF DueSet
  <2>3. next = (k.tick + 1) % TickMod
    OBVIOUS
  <2> HIDE DEF D, next
  <2>4. ASSUME NEW t \in Range(k.delayed)
        PROVE  /\ Due(next, k.wake_tick[t]) => k.wake_tick[t] = next
               /\ ~ Due(next, k.wake_tick[t]) =>
                    (k.wake_tick[t] - next) % TickMod \in 1 .. TickMod \div 2 + 1
    <3>1. /\ k.wake_tick[t] \in TickCount
          /\ (k.wake_tick[t] - k.tick) % TickMod \in 1 .. TickMod \div 2 + 1
      BY <1>3 DEF DeadlineAhead
    <3> QED
      BY <1>3, <2>3, <3>1, DueExactly
  <2>5. DeadlineAhead'
    BY <2>1, <2>2, <2>4, <1>3 DEF DeadlineAhead
  <2> QED
    BY <2>1, <2>2, <2>4, <2>5
<1> QED
  BY <1>1, <1>4, <1>5 DEF TaskStepEffect

\* TaskDeadlines: if no delay is longer than half the range of nimble_tick_t plus
\* one, the deadline of a delayed task is always ahead of the tick counter and
\* within reach of the signed comparison, however often the counter wraps.
THEOREM TaskDeadlines == ASSUME NearDelays PROVE TaskSpec => []DeadlineAhead
<1> DEFINE I == Inv /\ DeadlineAhead
<1>1. TaskInit => I
  <2>1. TaskInit => k.delayed = << >>
    BY DEF TaskInit, scheduler_init, add_ready
  <2>2. Range(<< >>) = {}
    BY DEF Range
  <2> QED
    BY <2>1, <2>2, TaskInitInv DEF TaskInv, DeadlineAhead
<1>2. I /\ [TaskNext]_tvars => I'
  <2> SUFFICES ASSUME I, [TaskNext]_tvars PROVE I'
    OBVIOUS
  <2>1. TypeOK /\ ListedStates(k)
    BY ConsistentListedStates DEF Inv, ListsConsistent
  <2> QED
    BY <2>1, TaskNextKeepsInv, TaskNextDeadlines
<1> QED
  BY <1>1, <1>2, PTL DEF TaskSpec

\* TaskWakesOnTime: under the same condition a task leaves the delayed list at the
\* very tick its wake_tick names, never earlier or later.
THEOREM TaskWakesOnTime == ASSUME NearDelays PROVE TaskSpec => WakesOnTime
<1> DEFINE A == \A t \in Range(k.delayed) :
                   t \notin Range(k'.delayed) => k'.tick = k.wake_tick[t]
           I == Inv /\ DeadlineAhead
<1>1. I /\ [TaskNext]_tvars => [A]_tvars
  <2> SUFFICES ASSUME I, [TaskNext]_tvars PROVE A
    OBVIOUS
  <2>1. TypeOK /\ ListedStates(k)
    BY ConsistentListedStates DEF Inv, ListsConsistent
  <2> QED
    BY <2>1, TaskNextDeadlines
<1>2. TaskSpec => []DeadlineAhead
  BY TaskDeadlines
<1>3. TaskSpec => []Inv
  <2>1. TaskInit => Inv
    BY TaskInitInv DEF TaskInv
  <2> QED
    BY <2>1, TaskNextKeepsInv, PTL DEF TaskSpec
<1> QED
  BY <1>1, <1>2, <1>3, PTL DEF TaskSpec, WakesOnTime

-----------------------------------------------------------------------------
(* The steps the blocking calls are made of. *)

\* A task blocks on wait list w.
LEMMA CallBlocks ==
    ASSUME TaskInv, NEW t \in Task, Calls(t), NEW w \in WaitList, NEW n \in TickCount,
           k' = block(k, w, t, n), pc' = [pc EXCEPT ![t] = "block"]
    PROVE  TaskInv' /\ HighestReadyRuns' /\ BlockEffect(k, w, t, n, k')
<1>1. k \in Kernel /\ KernelInv(k) /\ pc \in [Task -> PcLabel] /\ k.priority = BasePriority
  BY DEF TaskInv, Inv, TypeOK, ListsConsistent
<1>2. t \in Task \ {Idle} /\ k.current = t /\ k.state[t] = "RUNNING"
  BY DEF Calls, Executes, TaskInv, RunsRunning
<1>3. KernelInv(k')
  BY <1>1, <1>2, BlockKeeps
<1>4. BlockEffect(k, w, t, n, k')
  BY <1>1, BlockFields
<1>5. k' \in Kernel /\ k'.priority = k.priority /\ k'.current = k.current
  BY <1>4 DEF BlockEffect, SameTask
<1>6. pc'[t] = "block" /\ pc' \in [Task -> PcLabel]
  BY <1>1 DEF PcLabel
<1>7. RunsRunning' /\ HighestReadyRuns'
  BY <1>2, <1>5, <1>6, NobodyRuns
<1> QED
  BY <1>1, <1>3, <1>4, <1>5, <1>6, <1>7 DEF TaskInv, Inv, TypeOK, ListsConsistent

\* The first waiter of w is woken, by a task that then requests a switch or by an
\* interrupt handler that requests it at once.
WakeStep(w) ==
    \/ /\ k' = wake_waiter(k, w)
       /\ \E t \in Task : Calls(t) /\ pc' = [pc EXCEPT ![t] = "switch"]
    \/ k' = request_context_switch(wake_waiter(k, w)) /\ pc' = pc

\* What that changes for the waiters.
WokenEffect(w, h) ==
    /\ h = Head(k.waiters[w]) /\ h \in Task /\ h \in Range(k.waiters[w])
    /\ \A v \in WaitList : k'.waiters[v] = Keep(k.waiters[v], Task \ {h})
    /\ \A v \in WaitList : Range(k'.waiters[v]) = Range(k.waiters[v]) \ {h}
    /\ k'.state = [k.state EXCEPT ![h] = "READY"]
    /\ k'.last_wait_result = [k.last_wait_result EXCEPT ![h] = "OK"]
    /\ k'.priority = k.priority /\ k'.tick = k.tick
    /\ \A x \in Task : pc'[x] \in {"block", "wake"} <=> pc[x] \in {"block", "wake"}

\* Waking has that effect, and keeps the invariant of the task layer.
LEMMA CallWakes ==
    ASSUME TaskInv, NEW w \in WaitList, k.waiters[w] # << >>, WakeStep(w)
    PROVE  TaskInv' /\ HighestReadyRuns' /\ WokenEffect(w, Head(k.waiters[w]))
<1> DEFINE u == wake_waiter(k, w)
           h == Head(k.waiters[w])
<1>1. k \in Kernel /\ KernelInv(k) /\ pc \in [Task -> PcLabel] /\ k.priority = BasePriority
  BY DEF TaskInv, Inv, TypeOK, ListsConsistent
<1>2. WakeEffect(k, w, h, u) /\ KernelInv(u)
  BY <1>1, WakeFields
<1>3. \/ k' = u /\ \E t \in Task : Calls(t) /\ pc' = [pc EXCEPT ![t] = "switch"]
      \/ k' = request_context_switch(u) /\ pc' = pc
  BY DEF WakeStep
<1> HIDE DEF u, h
<1>4. /\ u \in Kernel
      /\ h = Head(k.waiters[w]) /\ h \in Task /\ h \in Range(k.waiters[w])
      /\ \A v \in WaitList : u.waiters[v] = Keep(k.waiters[v], Task \ {h})
      /\ \A v \in WaitList : Range(u.waiters[v]) = Range(k.waiters[v]) \ {h}
      /\ u.state = [k.state EXCEPT ![h] = "READY"]
      /\ u.last_wait_result = [k.last_wait_result EXCEPT ![h] = "OK"]
      /\ u.priority = k.priority /\ u.current = k.current /\ u.tick = k.tick
  BY <1>2 DEF WakeEffect, SameTask
<1>5. /\ k' \in Kernel /\ KernelInv(k')
      /\ k'.waiters = u.waiters /\ k'.state = u.state
      /\ k'.last_wait_result = u.last_wait_result
      /\ k'.priority = u.priority /\ k'.current = u.current /\ k'.tick = u.tick
      /\ k' = request_context_switch(u) => k'.pendsv
  <2>1. CASE k' = u
    BY <1>2, <1>4, <2>1 DEF request_context_switch, Kernel
  <2>2. CASE k' = request_context_switch(u)
    <3>1. /\ k' \in Kernel /\ k'.ready = u.ready /\ k'.bitmap = u.bitmap
          /\ k'.delayed = u.delayed /\ k'.waiters = u.waiters /\ k'.state = u.state
          /\ k'.last_wait_result = u.last_wait_result
          /\ k'.priority = u.priority /\ k'.current = u.current /\ k'.tick = u.tick
          /\ k'.pendsv
      BY <1>4, <2>2 DEF request_context_switch, Kernel
    <3>2. KernelInv(k')
      BY <1>2, <3>1 DEF KernelInv, NoDuplicates, ReadyOnly, ReadyListed, BitmapExact,
                        ListedBlocked, BlockedListed, RunningIsCurrent, IdleAlive
    <3> QED
      BY <3>1, <3>2
  <2> QED
    BY <1>3, <2>1, <2>2
<1>6. /\ pc' \in [Task -> PcLabel]
      /\ \A x \in Task : pc'[x] \in {"block", "wake"} <=> pc[x] \in {"block", "wake"}
      /\ k'.pendsv \/ pc'[k'.current] = "switch"
  <2>1. CASE pc' = pc /\ k'.pendsv
    BY <1>1, <2>1
  <2>2. CASE \E t \in Task : Calls(t) /\ pc' = [pc EXCEPT ![t] = "switch"]
    BY <1>1, <1>4, <1>5, <2>2 DEF Calls, Executes, PcLabel
  <2> QED
    BY <1>3, <1>5, <2>1, <2>2
<1>7. RunsRunning' /\ HighestReadyRuns'
  BY <1>6, NobodyRuns
<1>8. TaskInv'
  BY <1>1, <1>4, <1>5, <1>6, <1>7 DEF TaskInv, Inv, TypeOK, ListsConsistent
<1>9. WokenEffect(w, h)
  <2>1. /\ \A v \in WaitList : k'.waiters[v] = Keep(k.waiters[v], Task \ {h})
        /\ \A v \in WaitList : Range(k'.waiters[v]) = Range(k.waiters[v]) \ {h}
    BY <1>4, <1>5, ZenonT(40)
  <2>2. /\ h = Head(k.waiters[w]) /\ h \in Task /\ h \in Range(k.waiters[w])
        /\ k'.priority = k.priority /\ k'.tick = k.tick
    BY <1>4, <1>5
  <2>3. /\ k'.state = [k.state EXCEPT ![h] = "READY"]
        /\ k'.last_wait_result = [k.last_wait_result EXCEPT ![h] = "OK"]
    BY <1>4, <1>5
  <2> QED
    BY <2>1, <2>2, <2>3, <1>6 DEF WokenEffect
<1> QED
  BY <1>7, <1>8, <1>9 DEF h

\* A blocked call returns: its caller is RUNNING, hence in no wait list.
LEMMA CallReturns ==
    ASSUME TaskInv, NEW t \in Task, Executes(t), pc[t] = "wake",
           k' = UnlinkEvent(k, t), pc' = [pc EXCEPT ![t] = "app"]
    PROVE  /\ TaskInv' /\ (HighestReadyRuns => HighestReadyRuns')
           /\ UnlinkEventEffect(k, t, k')
           /\ k.state[t] = "RUNNING"
           /\ \A w \in WaitList : Range(k'.waiters[w]) = Range(k.waiters[w])
<1>1. k \in Kernel /\ KernelInv(k) /\ pc \in [Task -> PcLabel] /\ k.priority = BasePriority
  BY DEF TaskInv, Inv, TypeOK, ListsConsistent
<1>2. k.state[t] = "RUNNING"
  BY DEF TaskInv, RunsRunning
<1>3. KernelInv(k') /\ \A w \in WaitList : Range(k'.waiters[w]) = Range(k.waiters[w])
  BY <1>1, <1>2, UnlinkEventKeeps
<1>4. UnlinkEventEffect(k, t, k')
  BY <1>1, UnlinkEventFields
<1>5. /\ k' \in Kernel /\ k'.state = k.state /\ k'.priority = k.priority
      /\ k'.current = k.current /\ k'.pendsv = k.pendsv
  BY <1>4 DEF UnlinkEventEffect, SameTask
<1>6. pc' \in [Task -> PcLabel]
  BY <1>1 DEF PcLabel
<1>7. \A x \in Task : Executes(x)' => x = t
  BY <1>5 DEF Executes
<1>8. RunsRunning' /\ (HighestReadyRuns => HighestReadyRuns')
  BY <1>2, <1>5, <1>7 DEF RunsRunning, HighestReadyRuns
<1>9. TaskInv'
  BY <1>1, <1>3, <1>5, <1>6, <1>8 DEF TaskInv, Inv, TypeOK, ListsConsistent
<1> QED
  BY <1>2, <1>3, <1>4, <1>8, <1>9
=============================================================================
