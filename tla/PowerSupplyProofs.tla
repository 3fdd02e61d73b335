------------------------- MODULE PowerSupplyProofs -------------------------
(***************************************************************************)
(* The application's invariants, proved for any queue depths, ramp, line   *)
(* length, period and tick range, and for any four different priorities.   *)
(*                                                                         *)
(* The kernel below the application is not the one TasksProofs is about:   *)
(* inheritance moves the owner of the status mutex to another priority     *)
(* than the one it is linked by, and the bitmap may then have a bit over   *)
(* an empty list.  Sched says what is left: such a stale bit is below the  *)
(* owner, which can run, and its priority is that of a task which will be  *)
(* linked there again before the owner is out of the way.  With it         *)
(* select_next never meets a stale bit (SelectKeeps).                      *)
(*                                                                         *)
(* Above that, CoreInv says where each task stands: which lists it may be  *)
(* in and which call it is then inside.  AppInv adds the data.             *)
(***************************************************************************)
EXTENDS PowerSupply, MutexProofs

\* The four tasks are different, for their priorities are.
LEMMA TasksDiffer ==
    /\ {protection_tcb, control_tcb, comms_tcb, logger_tcb} \subseteq Task
    /\ protection_tcb \notin {control_tcb, comms_tcb, logger_tcb}
    /\ control_tcb \notin {comms_tcb, logger_tcb}
    /\ comms_tcb # logger_tcb
BY PowerSupplyAssumption, PriorityAssumption DEF Prio

-----------------------------------------------------------------------------
(* The scheduler under inheritance. *)

Workers == {protection_tcb, control_tcb, comms_tcb, logger_tcb}

\* The tasks in line for the status mutex.
InLine(s) == Range(s.waiters[g_status_mutex])

\* Bit p is set although list p is empty: inheritance left it behind.
Stale(s, p) == p \in s.bitmap /\ Range(s.ready[p]) = {}

\* READY tasks are linked once; only the owner o may be linked below its priority.
ReadyLinked(s, o) ==
    /\ \A t \in Task : s.state[t] = "READY" => \E p \in Prio : t \in Range(s.ready[p])
    /\ \A p \in Prio : \A t \in Range(s.ready[p]) :
          /\ s.state[t] = "READY"
          /\ p <= s.priority[t]
          /\ t # o => p = s.priority[t]
          /\ \A r \in Prio : t \in Range(s.ready[r]) => r = p

\* A list that is not empty has its bit set.
BitsSet(s) == \A p \in Prio : Range(s.ready[p]) # {} => p \in s.bitmap

\* Only the owner has a priority that is not its own; it inherited it from a task
\* that is still in line.  So is the priority it is linked by, if not its own.
Inherited(s, o) ==
    /\ \A t \in Task : s.priority[t] # BasePriority[t] =>
          /\ t = o /\ s.priority[t] > BasePriority[t]
          /\ \E v \in InLine(s) : BasePriority[v] = s.priority[t]
    /\ \A p \in Prio : o \in Range(s.ready[p]) =>
          p = BasePriority[o] \/ \E v \in InLine(s) : BasePriority[v] = p

\* A stale bit is below the owner, which can run: nobody looks at it.
StaleBelow(s, o) ==
    \A p \in Prio : Stale(s, p) =>
        /\ o \in Task
        /\ s.state[o] = "RUNNING" => p < s.priority[o]
        /\ \A r \in Prio : o \in Range(s.ready[r]) => p < r

\* Its priority is that of a task in line, of the owner, or of c, the running
\* task that has just handed the mutex over: each will be linked there again.
StaleOwed(s, o, c) ==
    \A p \in Prio : Stale(s, p) =>
        \E v \in Workers :
            /\ BasePriority[v] = p
            /\ v \in InLine(s) \/ (v = o /\ s.priority[o] > p) \/ v = c

\* The owner can run.
OwnerRuns(s, o) == o \in Task => o \in Workers /\ s.state[o] \in {"READY", "RUNNING"}

\* The line is in the order of the priorities.
LineSorted(s) == InLine(s) \subseteq Workers /\ Sorted(s.waiters[g_status_mutex], BasePriority)

Sched(s, o, c) ==
    /\ ReadyLinked(s, o) /\ BitsSet(s)
    /\ Inherited(s, o)
    /\ StaleBelow(s, o) /\ StaleOwed(s, o, c)
    /\ RunningIsCurrent(s) /\ IdleAlive(s) /\ s.current # WILD
    /\ OwnerRuns(s, o)
    /\ LineSorted(s)

\* No two of the tasks have one priority.
LEMMA WorkersDiffer ==
    /\ Workers \subseteq Task /\ NULL \notin Workers
    /\ \A u \in Task : BasePriority[u] \in Prio
    /\ \A p \in Prio : p \in Int
    /\ \A u, v \in Workers : u # v => BasePriority[u] # BasePriority[v]
<1>1. Workers \subseteq Task /\ NULL \notin Workers
  BY PowerSupplyAssumption, TaskAssumption DEF Workers
<1>2. \A u \in Task : BasePriority[u] \in Prio
  BY PriorityAssumption
<1>3. \A p \in Prio : p \in Int
  BY DEF Prio
<1> QED
  BY <1>1, <1>2, <1>3, PowerSupplyAssumption DEF Workers

\* remove clears the bit of the task's priority if that list is empty now.
LEMMA RemoveBits ==
    ASSUME NEW s \in Kernel, NEW t \in Task, NEW u, u = remove(s, t)
    PROVE  \A p \in Prio : p \in u.bitmap <=>
              p \in s.bitmap /\ ~ (p = s.priority[t] /\ Range(u.ready[p]) = {})
<1> DEFINE v == Unlink(s, t)
           p0 == s.priority[t]
<1>1. UnlinkEffect(s, t, v)
  BY UnlinkHasEffect
<1>2. /\ v \in Kernel /\ v.bitmap = s.bitmap /\ v.priority = s.priority /\ p0 \in Prio
  BY <1>1 DEF UnlinkEffect, SameTask, Kernel
<1>3. u = IF v.ready[p0] = << >> THEN [v EXCEPT !.bitmap = v.bitmap \ {p0}] ELSE v
  BY <1>2 DEF remove
<1> HIDE DEF v, p0
<1>4. u.ready = v.ready /\ u.bitmap = IF v.ready[p0] = << >> THEN s.bitmap \ {p0} ELSE s.bitmap
  BY <1>2, <1>3 DEF Kernel
<1>5. v.ready[p0] = << >> <=> Range(u.ready[p0]) = {}
  <2>1. v.ready[p0] \in Seq(Task)
    BY <1>2, ListTypes
  <2> QED
    BY <1>4, <2>1, EmptyRange
<1> QED
  BY <1>2, <1>4, <1>5 DEF p0

\* add_ready sets the bit of the task's priority.
LEMMA AddReadyBits ==
    ASSUME NEW s \in Kernel, NEW t \in Task, NEW u, u = add_ready(s, t)
    PROVE  u.bitmap = s.bitmap \cup {s.priority[t]}
BY DEF add_ready, Kernel

\* So does wake_waiter.
LEMMA WakeBits ==
    ASSUME NEW s \in Kernel, NEW w \in WaitList, s.waiters[w] # << >>,
           NEW u, u = wake_waiter(s, w)
    PROVE  u.bitmap = s.bitmap \cup {s.priority[Head(s.waiters[w])]}
<1> DEFINE h == Head(s.waiters[w])
           a == UnlinkEvent(s, h)
           b == Unlink(a, h)
           d == [b EXCEPT !.last_wait_result[h] = "OK"]
<1>1. h \in Task
  BY ListTypes, EmptyRange
<1>2. UnlinkEventEffect(s, h, a)
  BY <1>1, UnlinkEventFields
<1>3. a \in Kernel /\ a.bitmap = s.bitmap /\ a.priority = s.priority
  BY <1>2 DEF UnlinkEventEffect, SameTask
<1>4. u = add_ready(d, h)
  BY DEF wake_waiter
<1> HIDE DEF a
<1>5. UnlinkEffect(a, h, b)
  BY <1>1, <1>3, UnlinkHasEffect
<1>6. b \in Kernel /\ b.bitmap = s.bitmap /\ b.priority = s.priority
  BY <1>3, <1>5 DEF UnlinkEffect, SameTask
<1> HIDE DEF b, h
<1>7. d.bitmap = s.bitmap /\ d.priority = s.priority
  BY <1>6 DEF Kernel
<1>8. d \in Kernel
  <2>1. d = [b EXCEPT !.last_wait_result = [b.last_wait_result EXCEPT ![h] = "OK"]]
    OBVIOUS
  <2>2. [b.last_wait_result EXCEPT ![h] = "OK"] \in [Task -> WaitResult]
    BY <1>1, <1>6 DEF Kernel, WaitResult
  <2> QED
    BY <1>6, <2>1, <2>2 DEF Kernel
<1> HIDE DEF d
<1> QED
  BY <1>1, <1>4, <1>7, <1>8, AddReadyBits DEF h

\* Blocking a task clears the bit its removal clears.
LEMMA BlockBits ==
    ASSUME NEW s \in Kernel, NEW w \in WaitList, NEW t \in Task,
           NEW n \in TickCount, NEW u, u = block(s, w, t, n)
    PROVE  \A p \in Prio : p \in u.bitmap <=>
              p \in s.bitmap /\ ~ (p = s.priority[t] /\ Range(u.ready[p]) = {})
<1> DEFINE a == insert_waiter_priority_sorted(s, w, t)
           b == remove(a, t)
           d == [b EXCEPT !.state[t] = "BLOCKED"]
<1>1. InsertWaiterEffect(s, w, t, a)
  BY InsertWaiterFields
<1>2. a \in Kernel /\ a.bitmap = s.bitmap /\ a.priority = s.priority
  BY <1>1 DEF InsertWaiterEffect, SameTask
<1>3. u = IF n = WAIT_FOREVER THEN d ELSE delay_until(d, t, (a.tick + n) % TickMod)
  BY DEF block, prepare_block
<1> HIDE DEF a
<1>4. b \in Kernel
  BY <1>2, RemoveFields DEF RemoveEffect
<1>5. \A p \in Prio : p \in b.bitmap <=>
          p \in s.bitmap /\ ~ (p = s.priority[t] /\ Range(b.ready[p]) = {})
  BY <1>2, RemoveBits
<1> HIDE DEF b
<1>6. d.bitmap = b.bitmap /\ d.ready = b.ready
  BY <1>4 DEF Kernel
<1>7. u.bitmap = d.bitmap /\ u.ready = d.ready
  BY <1>3, <1>4 DEF delay_until, Kernel
<1> QED
  BY <1>5, <1>6, <1>7

\* So does a delay.
LEMMA DelayBits ==
    ASSUME NEW s \in Kernel, NEW t \in Task, NEW wake, NEW u, u = block_current_delay(s, t, wake)
    PROVE  \A p \in Prio : p \in u.bitmap <=>
              p \in s.bitmap /\ ~ (p = s.priority[t] /\ Range(u.ready[p]) = {})
<1> DEFINE b == remove(s, t)
           d == [b EXCEPT !.state[t] = "BLOCKED"]
<1>1. b \in Kernel
  BY RemoveFields DEF RemoveEffect
<1>2. \A p \in Prio : p \in b.bitmap <=>
          p \in s.bitmap /\ ~ (p = s.priority[t] /\ Range(b.ready[p]) = {})
  BY RemoveBits
<1>3. u = delay_until(d, t, wake)
  BY DEF block_current_delay
<1> HIDE DEF b
<1>4. u.bitmap = b.bitmap /\ u.ready = b.ready
  BY <1>1, <1>3 DEF delay_until, Kernel
<1> QED
  BY <1>2, <1>4

\* A tick sets the bits of the tasks it wakes.
LEMMA TickBits ==
    ASSUME NEW s \in Kernel, NEW u, u = scheduler_tick(s)
    PROVE  u.bitmap = s.bitmap \cup {s.priority[t] : t \in DueSet(s)}
BY DEF scheduler_tick, DueSet, Kernel

\* Types of the parts of a kernel that Sched is about.
LEMMA SchedTypes ==
    ASSUME NEW s \in Kernel
    PROVE  /\ \A x \in Task : s.priority[x] \in Prio /\ s.priority[x] \in Int
           /\ \A x \in Task : BasePriority[x] \in Prio /\ BasePriority[x] \in Int
           /\ \A p \in Prio : p \in Int /\ Range(s.ready[p]) \subseteq Task
           /\ InLine(s) \subseteq Task
           /\ g_status_mutex \in WaitList
           /\ s.bitmap \subseteq Prio
<1>1. s.priority \in [Task -> Prio] /\ s.bitmap \subseteq Prio
  BY DEF Kernel
<1>2. g_status_mutex \in WaitList
  BY PowerSupplyAssumption, MutexAssumption
<1>3. \A p \in Prio : p \in Int
  BY DEF Prio
<1> QED
  BY <1>1, <1>2, <1>3, WorkersDiffer, ListTypes DEF InLine

\* A claim that allows for no task that leaves also holds if one does.
LEMMA SchedWeaken ==
    ASSUME NEW s, NEW o, NEW c, Sched(s, o, NULL)
    PROVE  Sched(s, o, c)
<1>1. StaleOwed(s, o, c)
  BY WorkersDiffer DEF Sched, StaleOwed
<1> QED
  BY <1>1 DEF Sched

\* Tasks that could not run and are not in line for the mutex become ready.
LEMMA ReadiesKeep ==
    ASSUME NEW s \in Kernel, NEW u \in Kernel, NEW o, NEW c, Sched(s, o, c),
           NEW D \in SUBSET Task, \A x \in D : s.state[x] \notin {"READY", "RUNNING"},
           \A p \in Prio : Range(u.ready[p]) = Range(s.ready[p]) \cup {x \in D : s.priority[x] = p},
           u.bitmap = s.bitmap \cup {s.priority[x] : x \in D},
           u.priority = s.priority, u.current = s.current,
           \A x \in Task : u.state[x] = IF x \in D THEN "READY" ELSE s.state[x],
           InLine(u) = InLine(s), LineSorted(u)
    PROVE  Sched(u, o, c)
<1>1. /\ \A x \in Task : s.priority[x] \in Prio
      /\ \A p \in Prio : Range(s.ready[p]) \subseteq Task
  BY SchedTypes
<1>2. /\ ReadyLinked(s, o) /\ BitsSet(s) /\ Inherited(s, o) /\ StaleBelow(s, o)
      /\ StaleOwed(s, o, c) /\ RunningIsCurrent(s) /\ IdleAlive(s) /\ s.current # WILD
      /\ OwnerRuns(s, o)
  BY DEF Sched
<1>3. o \in Task => o \notin D
  BY <1>2 DEF OwnerRuns
<1>4. \A p \in Prio : o \in Range(u.ready[p]) <=> o \in Range(s.ready[p])
  BY <1>1, <1>3
<1>5. \A x \in D : \A p \in Prio : x \notin Range(s.ready[p])
  BY <1>2 DEF ReadyLinked
<1>6. ReadyLinked(u, o)
  <2>1. \A t \in Task : u.state[t] = "READY" => \E p \in Prio : t \in Range(u.ready[p])
    BY <1>1, <1>2 DEF ReadyLinked
  <2>2. ASSUME NEW p \in Prio, NEW t \in Range(u.ready[p])
        PROVE  /\ u.state[t] = "READY" /\ p <= u.priority[t] /\ (t # o => p = u.priority[t])
               /\ \A r \in Prio : t \in Range(u.ready[r]) => r = p
    <3>1. CASE t \in D
      <4>1. p = s.priority[t] /\ t \in Task
        BY <1>5, <2>2, <3>1
      <4>2. p <= p
        BY <1>1, SchedTypes
      <4> QED
        BY <1>5, <3>1, <4>1, <4>2
    <3>2. CASE t \notin D
      BY <1>1, <1>2, <2>2, <3>2 DEF ReadyLinked
    <3> QED
      BY <3>1, <3>2
  <2> QED
    BY <2>1, <2>2 DEF ReadyLinked
<1>7. BitsSet(u)
  BY <1>2 DEF BitsSet
<1>8. Inherited(u, o)
  BY <1>2, <1>4 DEF Inherited
<1>9. \A p \in Prio : Stale(u, p) => Stale(s, p)
  BY DEF Stale
<1>10. StaleBelow(u, o)
  BY <1>2, <1>3, <1>4, <1>9 DEF StaleBelow
<1>11. StaleOwed(u, o, c)
  BY <1>2, <1>9 DEF StaleOwed
<1>12. RunningIsCurrent(u) /\ IdleAlive(u) /\ u.current # WILD /\ OwnerRuns(u, o)
  BY <1>2, TaskAssumption DEF RunningIsCurrent, IdleAlive, OwnerRuns
<1> QED
  BY <1>6, <1>7, <1>8, <1>10, <1>11, <1>12 DEF Sched

\* The running task, which does not own the mutex, blocks; if it blocks in line for
\* the mutex, the owner may inherit its priority.
LEMMA HaltKeeps ==
    ASSUME NEW s \in Kernel, NEW u \in Kernel, NEW o, NEW t \in Workers, t # o, t # Idle,
           Sched(s, o, NULL), s.state[t] = "RUNNING",
           \A p \in Prio : Range(u.ready[p]) = Range(s.ready[p]) \ {t},
           \A p \in Prio : p \in u.bitmap <=>
              p \in s.bitmap /\ ~ (p = s.priority[t] /\ Range(u.ready[p]) = {}),
           u.current = s.current,
           \A x \in Task : u.state[x] = IF x = t THEN "BLOCKED" ELSE s.state[x],
           InLine(s) \subseteq InLine(u), LineSorted(u),
           \A x \in Task \ {o} : u.priority[x] = s.priority[x],
           \/ u.priority = s.priority
           \/ /\ u.priority[o] = s.priority[t] /\ s.priority[t] > s.priority[o]
              /\ t \in InLine(u) /\ o \in Task
    PROVE  Sched(u, o, NULL)
<1>1. /\ \A x \in Task : s.priority[x] \in Prio /\ s.priority[x] \in Int
      /\ \A x \in Task : BasePriority[x] \in Int
      /\ \A p \in Prio : p \in Int /\ Range(s.ready[p]) \subseteq Task
      /\ t \in Task
  BY SchedTypes, WorkersDiffer
<1>2. /\ ReadyLinked(s, o) /\ BitsSet(s) /\ Inherited(s, o) /\ StaleBelow(s, o)
      /\ StaleOwed(s, o, NULL) /\ RunningIsCurrent(s) /\ IdleAlive(s) /\ s.current # WILD
      /\ OwnerRuns(s, o)
  BY DEF Sched
<1>3. \A p \in Prio : Range(u.ready[p]) = Range(s.ready[p])
  <2>1. \A p \in Prio : t \notin Range(s.ready[p])
    BY <1>2 DEF ReadyLinked
  <2> QED
    BY <2>1
<1>4. s.priority[t] = BasePriority[t]
  BY <1>1, <1>2 DEF Inherited
<1>5. o \in Task => u.priority[o] >= s.priority[o]
  BY <1>1
<1>51. \A x \in Task : u.priority[x] \in Int /\ u.priority[x] >= s.priority[x]
  BY <1>1, <1>5, SchedTypes
<1>6. ReadyLinked(u, o)
  <2>1. \A x \in Task : u.state[x] = "READY" => \E p \in Prio : x \in Range(u.ready[p])
    BY <1>2, <1>3 DEF ReadyLinked
  <2>2. ASSUME NEW p \in Prio, NEW x \in Range(u.ready[p])
        PROVE  /\ u.state[x] = "READY" /\ p <= u.priority[x] /\ (x # o => p = u.priority[x])
               /\ \A r \in Prio : x \in Range(u.ready[r]) => r = p
    <3>1. /\ s.state[x] = "READY" /\ p <= s.priority[x] /\ (x # o => p = s.priority[x])
          /\ \A r \in Prio : x \in Range(s.ready[r]) => r = p
          /\ x \in Task
      BY <1>1, <1>2, <1>3, <2>2 DEF ReadyLinked
    <3>2. u.state[x] = "READY"
      BY <3>1
    <3> QED
      BY <1>1, <1>3, <1>51, <3>1, <3>2
  <2> QED
    BY <2>1, <2>2 DEF ReadyLinked
<1>7. BitsSet(u)
  BY <1>2, <1>3 DEF BitsSet
<1>8. Inherited(u, o)
  <2>1. \A x \in Task \ {o} : u.priority[x] # BasePriority[x] => FALSE
    BY <1>2 DEF Inherited
  <2>2. ASSUME o \in Task, u.priority[o] # BasePriority[o]
        PROVE  /\ u.priority[o] > BasePriority[o]
               /\ \E v \in InLine(u) : BasePriority[v] = u.priority[o]
    <3>1. CASE u.priority = s.priority
      BY <1>2, <2>2, <3>1 DEF Inherited
    <3>2. CASE /\ u.priority[o] = s.priority[t] /\ s.priority[t] > s.priority[o]
               /\ t \in InLine(u)
      <4>1. s.priority[o] >= BasePriority[o]
        BY <1>1, <1>2, <2>2 DEF Inherited
      <4> QED
        BY <1>1, <1>4, <2>2, <3>2, <4>1
    <3> QED
      BY <3>1, <3>2
  <2>3. \A p \in Prio : o \in Range(u.ready[p]) =>
            p = BasePriority[o] \/ \E v \in InLine(u) : BasePriority[v] = p
    BY <1>2, <1>3 DEF Inherited
  <2> QED
    BY <2>1, <2>2, <2>3 DEF Inherited
<1>9. \A p \in Prio : Stale(u, p) => Stale(s, p)
  BY <1>3 DEF Stale
<1>10. StaleBelow(u, o)
  BY <1>1, <1>2, <1>3, <1>5, <1>51, <1>9 DEF StaleBelow
<1>11. StaleOwed(u, o, NULL)
  <2>1. \A v \in Workers : v \in Task
    BY WorkersDiffer
  <2>2. \A p \in Prio : o \in Task /\ s.priority[o] > p => u.priority[o] > p
    BY <1>1, <1>51
  <2>3. ASSUME NEW p \in Prio, NEW v \in Workers,
               v \in InLine(s) \/ (v = o /\ s.priority[o] > p) \/ v = NULL
        PROVE  v \in InLine(u) \/ (v = o /\ u.priority[o] > p) \/ v = NULL
    BY <2>1, <2>2, <2>3
  <2> QED
    BY <1>2, <1>9, <2>3 DEF StaleOwed
<1>12. RunningIsCurrent(u) /\ IdleAlive(u) /\ u.current # WILD /\ OwnerRuns(u, o)
  BY <1>2, TaskAssumption DEF RunningIsCurrent, IdleAlive, OwnerRuns
<1> QED
  BY <1>6, <1>7, <1>8, <1>10, <1>11, <1>12 DEF Sched

\* The owner hands the mutex over to the first in line, which becomes ready.
LEMMA HandoverKeeps ==
    ASSUME NEW s \in Kernel, NEW u \in Kernel, NEW t \in Task, NEW h \in Task,
           Sched(s, t, NULL), s.state[t] = "RUNNING", s.state[h] = "BLOCKED",
           h \in InLine(s), \A x \in InLine(s) : BasePriority[x] <= BasePriority[h],
           u.priority = [s.priority EXCEPT ![t] = BasePriority[t]],
           \A p \in Prio \ {BasePriority[h]} : Range(u.ready[p]) = Range(s.ready[p]) \ {h},
           Range(u.ready[BasePriority[h]]) = Range(s.ready[BasePriority[h]]) \cup {h},
           u.bitmap = s.bitmap \cup {BasePriority[h]},
           u.current = s.current,
           \A x \in Task : u.state[x] = IF x = h THEN "READY" ELSE s.state[x],
           InLine(u) = InLine(s) \ {h}, LineSorted(u)
    PROVE  Sched(u, h, t)
<1>1. /\ \A x \in Task : s.priority[x] \in Prio /\ s.priority[x] \in Int
      /\ \A x \in Task : BasePriority[x] \in Prio /\ BasePriority[x] \in Int
      /\ \A p \in Prio : p \in Int /\ Range(s.ready[p]) \subseteq Task
      /\ s.priority \in [Task -> Prio] /\ h # t /\ InLine(s) \subseteq Task
  BY SchedTypes DEF Kernel
<1>2. /\ ReadyLinked(s, t) /\ BitsSet(s) /\ Inherited(s, t)
      /\ StaleOwed(s, t, NULL) /\ RunningIsCurrent(s) /\ IdleAlive(s) /\ s.current # WILD
      /\ InLine(s) \subseteq Workers
  BY DEF Sched, LineSorted
<1>3. \A x \in Task : u.priority[x] = BasePriority[x]
  BY <1>1, <1>2 DEF Inherited
<1>4. \A p \in Prio : t \notin Range(s.ready[p]) /\ h \notin Range(s.ready[p])
  BY <1>2 DEF ReadyLinked
<1>5. \A p \in Prio : \A x \in Range(s.ready[p]) : p = BasePriority[x]
  BY <1>1, <1>2, <1>4 DEF ReadyLinked, Inherited
<1>6. \A p \in Prio : \A x \in Range(u.ready[p]) : x \in Task /\ p = BasePriority[x]
  BY <1>1, <1>5
<1>7. ReadyLinked(u, h)
  <2>1. \A x \in Task : u.state[x] = "READY" => \E p \in Prio : x \in Range(u.ready[p])
    <3>1. h \in Range(u.ready[BasePriority[h]]) /\ BasePriority[h] \in Prio
      BY <1>1
    <3>2. ASSUME NEW x \in Task \ {h}, u.state[x] = "READY"
          PROVE  \E p \in Prio : x \in Range(u.ready[p])
      <4>1. PICK p \in Prio : x \in Range(s.ready[p])
        BY <1>2, <3>2 DEF ReadyLinked
      <4>2. x \in Range(u.ready[p])
        BY <4>1
      <4> QED
        BY <4>2
    <3> QED
      BY <3>1, <3>2
  <2>2. \A p \in Prio : \A x \in Range(u.ready[p]) : u.state[x] = "READY"
    BY <1>1, <1>2, <1>6 DEF ReadyLinked
  <2> QED
    BY <1>1, <1>3, <1>6, <2>1, <2>2 DEF ReadyLinked
<1>8. BitsSet(u)
  BY <1>2 DEF BitsSet
<1>9. Inherited(u, h)
  BY <1>3, <1>6 DEF Inherited
<1>10. \A p \in Prio : Stale(u, p) => Stale(s, p) /\ p # BasePriority[h]
  <2>1. ASSUME NEW p \in Prio \ {BasePriority[h]} PROVE Range(u.ready[p]) = Range(s.ready[p])
    <3>1. h \notin Range(s.ready[p]) /\ Range(u.ready[p]) = Range(s.ready[p]) \ {h}
      BY <1>4
    <3> QED
      BY <3>1
  <2> QED
    BY <2>1 DEF Stale
<1>11. \A p \in Prio : Stale(u, p) =>
          /\ p < BasePriority[h]
          /\ \E v \in Workers : BasePriority[v] = p /\ (v \in InLine(s) \/ v = t)
  <2> SUFFICES ASSUME NEW p \in Prio, Stale(u, p)
               PROVE  /\ p < BasePriority[h]
                      /\ \E v \in Workers : BasePriority[v] = p /\ (v \in InLine(s) \/ v = t)
    OBVIOUS
  <2>1. PICK v \in Workers : /\ BasePriority[v] = p
                             /\ v \in InLine(s) \/ (v = t /\ s.priority[t] > p) \/ v = NULL
    BY <1>2, <1>10 DEF StaleOwed
  <2>2. v \in InLine(s) \/ (v = t /\ s.priority[t] > p)
    BY <2>1, WorkersDiffer
  <2>3. p < BasePriority[h]
    <3>1. CASE v \in InLine(s)
      BY <1>1, <1>10, <2>1, <3>1
    <3>2. CASE v = t /\ s.priority[t] > p
      <4>1. s.priority[t] # BasePriority[t]
        BY <1>1, <2>1, <3>2
      <4>2. PICK w \in InLine(s) : BasePriority[w] = s.priority[t]
        BY <1>2, <4>1 DEF Inherited
      <4> QED
        BY <1>1, <3>2, <4>2
    <3> QED
      BY <2>2, <3>1, <3>2
  <2> QED
    BY <2>1, <2>2, <2>3
<1>12. StaleBelow(u, h)
  <2>1. u.state[h] = "READY" /\ \A r \in Prio : h \in Range(u.ready[r]) => r = BasePriority[h]
    BY <1>6
  <2> QED
    BY <1>11, <2>1 DEF StaleBelow
<1>13. StaleOwed(u, h, t)
  BY <1>10, <1>11 DEF StaleOwed
<1>14. RunningIsCurrent(u) /\ IdleAlive(u) /\ u.current # WILD /\ OwnerRuns(u, h)
  BY <1>2, TaskAssumption DEF RunningIsCurrent, IdleAlive, OwnerRuns
<1> QED
  BY <1>7, <1>8, <1>9, <1>12, <1>13, <1>14 DEF Sched

\* Where nobody is in line the owner has its own priority and no bit is stale: the
\* mutex may become free.
LEMMA FreeKeeps ==
    ASSUME NEW s \in Kernel, NEW t \in Task, Sched(s, t, NULL), InLine(s) = {},
           s.state[t] = "RUNNING"
    PROVE  s.priority[t] = BasePriority[t] /\ Sched(s, NULL, NULL)
<1>1. /\ ReadyLinked(s, t) /\ Inherited(s, t) /\ StaleOwed(s, t, NULL)
  BY DEF Sched
<1>2. /\ \A x \in Task : s.priority[x] = BasePriority[x]
      /\ \A p \in Prio : p \in Int /\ Range(s.ready[p]) \subseteq Task
      /\ \A p \in Prio : t \notin Range(s.ready[p])
  BY <1>1, SchedTypes DEF Inherited, ReadyLinked
<1>3. \A p \in Prio : ~ Stale(s, p)
  BY <1>1, <1>2, WorkersDiffer DEF StaleOwed
<1>4. ReadyLinked(s, NULL) /\ Inherited(s, NULL)
  BY <1>1, <1>2, TaskAssumption DEF ReadyLinked, Inherited
<1>5. StaleBelow(s, NULL) /\ StaleOwed(s, NULL, NULL) /\ OwnerRuns(s, NULL)
  BY <1>3, TaskAssumption DEF StaleBelow, StaleOwed, OwnerRuns
<1> QED
  BY <1>2, <1>4, <1>5 DEF Sched

\* The running task takes the free mutex.
LEMMA TakeKeeps ==
    ASSUME NEW s \in Kernel, NEW t \in Workers, Sched(s, NULL, NULL), s.state[t] = "RUNNING"
    PROVE  Sched(s, t, NULL)
<1>1. /\ ReadyLinked(s, NULL) /\ Inherited(s, NULL) /\ StaleBelow(s, NULL) /\ t \in Task
  BY WorkersDiffer DEF Sched
<1>2. /\ \A x \in Task : s.priority[x] = BasePriority[x]
      /\ \A p \in Prio : Range(s.ready[p]) \subseteq Task
      /\ \A p \in Prio : t \notin Range(s.ready[p])
  BY <1>1, SchedTypes, TaskAssumption DEF Inherited, ReadyLinked
<1>3. \A p \in Prio : ~ Stale(s, p)
  BY <1>1, TaskAssumption DEF StaleBelow
<1>4. ReadyLinked(s, t) /\ Inherited(s, t)
  BY <1>1, <1>2, TaskAssumption DEF ReadyLinked, Inherited
<1>5. StaleBelow(s, t) /\ StaleOwed(s, t, NULL) /\ OwnerRuns(s, t)
  BY <1>3 DEF StaleBelow, StaleOwed, OwnerRuns
<1> QED
  BY <1>4, <1>5 DEF Sched

-----------------------------------------------------------------------------
(* The switch. *)

\* Nobody is running: what select_next finds once it has requeued the outgoing task.
Requeued(s) == \A x \in Task : s.state[x] # "RUNNING"

\* The outgoing task, if it is still running, goes to the list of its priority; with
\* that the bit it may have left behind is paid.
LEMMA RequeueKeeps ==
    ASSUME NEW s \in Kernel, NEW o, NEW c, Sched(s, o, c),
           c # NULL => c = s.current /\ s.state[c] = "RUNNING",
           NEW r, r = IF s.current \in Task /\ s.state[s.current] = "RUNNING"
                      THEN add_ready(s, s.current) ELSE s
    PROVE  /\ r \in Kernel /\ Sched(r, o, NULL) /\ Requeued(r)
           /\ r.waiters = s.waiters /\ r.pendsv = s.pendsv
<1>1. /\ \A x \in Task : s.priority[x] \in Prio /\ s.priority[x] \in Int
      /\ \A x \in Task : BasePriority[x] \in Int
      /\ \A p \in Prio : p \in Int /\ Range(s.ready[p]) \subseteq Task
      /\ s.state \in [Task -> TaskState]
      /\ \A v \in Workers : v \in Task
  BY SchedTypes, WorkersDiffer DEF Kernel
<1>2. /\ ReadyLinked(s, o) /\ BitsSet(s) /\ Inherited(s, o) /\ StaleBelow(s, o)
      /\ StaleOwed(s, o, c) /\ RunningIsCurrent(s) /\ IdleAlive(s) /\ s.current # WILD
      /\ OwnerRuns(s, o) /\ LineSorted(s)
  BY DEF Sched
<1>3. CASE ~ (s.current \in Task /\ s.state[s.current] = "RUNNING")
  <2>1. r = s
    BY <1>3
  <2>2. Requeued(s)
    BY <1>2, <1>3 DEF RunningIsCurrent, Requeued
  <2>3. c = NULL \/ c \notin Task
    BY <1>3
  <2>4. StaleOwed(s, o, NULL)
    BY <1>1, <1>2, <2>3 DEF StaleOwed
  <2> QED
    BY <1>2, <2>1, <2>2, <2>4 DEF Sched
<1>4. CASE s.current \in Task /\ s.state[s.current] = "RUNNING"
  <2> DEFINE x == s.current
             q == s.priority[x]
  <2>1. r = add_ready(s, x) /\ x \in Task /\ s.state[x] = "RUNNING" /\ q \in Prio /\ q \in Int
    BY <1>1, <1>4
  <2> HIDE DEF x
  <2>2. AddReadyEffect(s, x, r)
    BY <2>1, AddReadyFields
  <2>3. r.bitmap = s.bitmap \cup {q}
    BY <2>1, AddReadyBits
  <2>4. /\ r \in Kernel /\ Range(r.ready[q]) = Range(s.ready[q]) \cup {x}
        /\ \A p \in Prio \ {q} : Range(r.ready[p]) = Range(s.ready[p])
        /\ r.waiters = s.waiters /\ r.priority = s.priority /\ r.pendsv = s.pendsv
        /\ r.current = s.current
        /\ r.state = [s.state EXCEPT ![x] = "READY"]
    BY <2>2 DEF AddReadyEffect, SameTask
  <2> HIDE DEF q
  <2>5. \A y \in Task : r.state[y] = IF y = x THEN "READY" ELSE s.state[y]
    BY <1>1, <2>1, <2>4
  <2>6. \A p \in Prio : x \notin Range(s.ready[p])
    BY <1>2, <2>1 DEF ReadyLinked
  <2>7. Requeued(r)
    BY <1>2, <2>1, <2>5 DEF Requeued, RunningIsCurrent, x
  <2>8. InLine(r) = InLine(s) /\ LineSorted(r)
    BY <1>2, <2>4 DEF InLine, LineSorted
  <2>9. \A p \in Prio : x \in Range(r.ready[p]) => p = q
    BY <2>4, <2>6
  <2>10. \A p \in Prio : \A y \in Range(r.ready[p]) : y # x => y \in Range(s.ready[p])
    BY <2>4
  <2>11. ReadyLinked(r, o)
    <3>1. ASSUME NEW y \in Task, r.state[y] = "READY" PROVE \E p \in Prio : y \in Range(r.ready[p])
      <4>1. CASE y = x
        BY <2>1, <2>4, <4>1
      <4>2. CASE y # x
        <5>1. PICK p \in Prio : y \in Range(s.ready[p])
          BY <1>2, <2>5, <3>1, <4>2 DEF ReadyLinked
        <5>2. y \in Range(r.ready[p])
          BY <2>4, <5>1
        <5> QED
          BY <5>2
      <4> QED
        BY <4>1, <4>2
    <3>2. ASSUME NEW p \in Prio, NEW y \in Range(r.ready[p])
          PROVE  /\ r.state[y] = "READY" /\ p <= r.priority[y] /\ (y # o => p = r.priority[y])
                 /\ \A a \in Prio : y \in Range(r.ready[a]) => a = p
      <4>1. CASE y = x
        <5>1. p = q /\ q = s.priority[x] /\ q <= q
          BY <2>1, <2>9, <3>2, <4>1 DEF q
        <5> QED
          BY <2>1, <2>4, <2>5, <2>9, <4>1, <5>1
      <4>2. CASE y # x
        <5>1. y \in Range(s.ready[p]) /\ y \in Task
          BY <1>1, <2>10, <3>2, <4>2
        <5>2. /\ s.state[y] = "READY" /\ p <= s.priority[y] /\ (y # o => p = s.priority[y])
              /\ \A a \in Prio : y \in Range(s.ready[a]) => a = p
          BY <1>2, <5>1 DEF ReadyLinked
        <5> QED
          BY <2>4, <2>5, <2>10, <4>2, <5>1, <5>2
      <4> QED
        BY <4>1, <4>2
    <3> QED
      BY <3>1, <3>2 DEF ReadyLinked
  <2>12. BitsSet(r)
    BY <1>2, <2>3, <2>4 DEF BitsSet
  <2>13. Inherited(r, o)
    <3>1. \A p \in Prio : o \in Range(r.ready[p]) =>
              p = BasePriority[o] \/ \E v \in InLine(r) : BasePriority[v] = p
      <4>1. CASE o = x
        BY <1>2, <2>1, <2>8, <2>9, <4>1 DEF Inherited, q
      <4>2. CASE o # x
        BY <1>2, <2>8, <2>10, <4>2 DEF Inherited
      <4> QED
        BY <4>1, <4>2
    <3> QED
      BY <1>2, <2>4, <2>8, <3>1 DEF Inherited
  <2>14. \A p \in Prio : Stale(r, p) => Stale(s, p) /\ p # q
    BY <2>3, <2>4 DEF Stale
  <2>15. StaleBelow(r, o)
    <3>1. CASE o = x
      BY <1>2, <2>1, <2>5, <2>9, <2>14, <3>1 DEF StaleBelow, q
    <3>2. CASE o # x
      BY <1>2, <2>5, <2>10, <2>14, <3>2, <2>4 DEF StaleBelow
    <3> QED
      BY <3>1, <3>2
  <2>16. StaleOwed(r, o, NULL)
    <3>1. ASSUME NEW p \in Prio, p # q, NEW v \in Workers, BasePriority[v] = p,
                 v \in InLine(s) \/ (v = o /\ s.priority[o] > p) \/ v = c
          PROVE  v \in InLine(r) \/ (v = o /\ r.priority[o] > p) \/ v = NULL
      <4>1. CASE v = c /\ c # NULL
        <5>1. v = x
          BY <4>1 DEF x
        <5>2. s.priority[x] # BasePriority[x]
          BY <3>1, <5>1 DEF q
        <5>3. x = o /\ s.priority[x] > BasePriority[x]
          BY <1>2, <2>1, <5>2 DEF Inherited
        <5> QED
          BY <2>4, <3>1, <5>1, <5>3
      <4>2. CASE v # c
        BY <2>4, <2>8, <3>1, <4>2
      <4> QED
        BY <3>1, <4>1, <4>2
    <3> QED
      BY <1>2, <2>14, <3>1 DEF StaleOwed
  <2>17. RunningIsCurrent(r) /\ IdleAlive(r) /\ r.current # WILD /\ OwnerRuns(r, o)
    BY <1>2, <2>4, <2>5, TaskAssumption DEF RunningIsCurrent, IdleAlive, OwnerRuns
  <2> QED
    BY <2>4, <2>7, <2>8, <2>11, <2>12, <2>13, <2>15, <2>16, <2>17 DEF Sched
<1> QED
  BY <1>3, <1>4

\* The head of the highest list is a task, and removing it leaves only bits behind
\* that Sched allows for.
LEMMA SelectKeeps ==
    ASSUME NEW s \in Kernel, NEW o, NEW c, Sched(s, o, c),
           c # NULL => c = s.current /\ s.state[c] = "RUNNING",
           NEW u, u = select_next(s)
    PROVE  /\ u \in Kernel /\ Sched(u, o, NULL)
           /\ u.current \in Task /\ u.state[u.current] = "RUNNING"
           /\ \A p \in Prio : p > u.priority[u.current] => Range(u.ready[p]) = {}
<1> DEFINE r == IF s.current \in Task /\ s.state[s.current] = "RUNNING"
                THEN add_ready(s, s.current) ELSE s
           b == highest_set_bit(r.bitmap)
           x == Head(r.ready[b])
           m == remove(r, x)
<1>1. /\ r \in Kernel /\ Sched(r, o, NULL) /\ Requeued(r)
  BY RequeueKeeps, SMTT(30)
<1>2. u = IF r.bitmap = {} THEN [r EXCEPT !.current = WILD]
          ELSE IF r.ready[b] = << >> THEN [r EXCEPT !.current = WILD]
               ELSE [m EXCEPT !.state[x] = "RUNNING", !.current = x]
  BY DEF select_next
<1> HIDE DEF r
<1>3. /\ \A y \in Task : r.priority[y] \in Prio /\ r.priority[y] \in Int
      /\ \A y \in Task : BasePriority[y] \in Int
      /\ \A p \in Prio : p \in Int /\ Range(r.ready[p]) \subseteq Task
      /\ r.bitmap \subseteq Prio
      /\ \A p \in Prio : r.ready[p] \in Seq(Task)
  BY <1>1, SchedTypes, ListTypes
<1>4. /\ ReadyLinked(r, o) /\ BitsSet(r) /\ Inherited(r, o) /\ StaleBelow(r, o)
      /\ StaleOwed(r, o, NULL) /\ IdleAlive(r) /\ OwnerRuns(r, o) /\ LineSorted(r)
  BY <1>1 DEF Sched
<1>5. r.bitmap # {}
  <2>1. r.state[Idle] = "READY"
    BY <1>1, <1>4, TaskAssumption DEF Requeued, IdleAlive
  <2>2. PICK p \in Prio : Idle \in Range(r.ready[p])
    BY <1>4, <2>1, TaskAssumption DEF ReadyLinked
  <2> QED
    BY <1>4, <2>2 DEF BitsSet
<1>6. b \in Prio /\ b \in r.bitmap /\ b \in Int /\ \A p \in r.bitmap : p <= b
  BY <1>3, <1>5, HighestSetBit
<1> HIDE DEF b
<1>7. Range(r.ready[b]) # {}
  <2> SUFFICES ASSUME Stale(r, b) PROVE FALSE
    BY <1>6 DEF Stale
  <2>1. o \in Task /\ \A p \in Prio : o \in Range(r.ready[p]) => b < p
    BY <1>4, <1>6 DEF StaleBelow
  <2>2. r.state[o] = "READY"
    BY <1>1, <1>4, <2>1 DEF OwnerRuns, Requeued
  <2>3. PICK p \in Prio : o \in Range(r.ready[p])
    BY <1>4, <2>1, <2>2 DEF ReadyLinked
  <2>4. p \in r.bitmap
    BY <1>4, <2>3 DEF BitsSet
  <2> QED
    BY <1>3, <1>6, <2>1, <2>3, <2>4
<1>8. r.ready[b] # << >> /\ x \in Range(r.ready[b]) /\ x \in Task
  BY <1>3, <1>6, <1>7, EmptyRange
<1> HIDE DEF x
<1>9. RemoveEffect(r, x, m)
  BY <1>1, <1>8, RemoveFields
<1>10. \A p \in Prio : p \in m.bitmap <=>
           p \in r.bitmap /\ ~ (p = r.priority[x] /\ Range(m.ready[p]) = {})
  BY <1>1, <1>8, RemoveBits
<1>11. /\ m \in Kernel /\ \A p \in Prio : Range(m.ready[p]) = Range(r.ready[p]) \ {x}
       /\ m.waiters = r.waiters /\ m.state = r.state /\ m.priority = r.priority
  BY <1>9 DEF RemoveEffect, SameTask
<1> HIDE DEF m
<1>12. u = [m EXCEPT !.state[x] = "RUNNING", !.current = x]
  BY <1>2, <1>5, <1>8
<1>13. /\ u.ready = m.ready /\ u.waiters = m.waiters /\ u.priority = m.priority
       /\ u.bitmap = m.bitmap /\ u.current = x
       /\ u.state = [m.state EXCEPT ![x] = "RUNNING"]
  BY <1>11, <1>12 DEF Kernel
<1>14. u \in Kernel
  <2>1. [m.state EXCEPT ![x] = "RUNNING"] \in [Task -> TaskState]
    BY <1>8, <1>11 DEF Kernel, TaskState
  <2>2. u = [m EXCEPT !.state = [m.state EXCEPT ![x] = "RUNNING"], !.current = x]
    BY <1>12
  <2> QED
    BY <1>8, <1>11, <2>1, <2>2 DEF Kernel
<1>15. \A y \in Task : u.state[y] = IF y = x THEN "RUNNING" ELSE r.state[y]
  <2>1. r.state \in [Task -> TaskState]
    BY <1>1 DEF Kernel
  <2> QED
    BY <1>8, <1>11, <1>13, <2>1
<1>16. /\ \A p \in Prio : Range(u.ready[p]) = Range(r.ready[p]) \ {x}
       /\ u.priority = r.priority /\ InLine(u) = InLine(r)
       /\ \A p \in Prio : p \in u.bitmap <=>
              p \in r.bitmap /\ ~ (p = r.priority[x] /\ Range(u.ready[p]) = {})
  BY <1>10, <1>11, <1>13 DEF InLine
<1>17. LineSorted(u)
  BY <1>4, <1>11, <1>13, <1>16 DEF LineSorted
<1>18. /\ b <= r.priority[x] /\ (x # o => b = r.priority[x])
       /\ \A p \in Prio : x \in Range(r.ready[p]) => p = b
  BY <1>4, <1>6, <1>8 DEF ReadyLinked
<1>19. ReadyLinked(u, o)
  <2>1. ASSUME NEW y \in Task, u.state[y] = "READY" PROVE \E p \in Prio : y \in Range(u.ready[p])
    <3>1. y # x /\ r.state[y] = "READY"
      BY <1>15, <2>1
    <3>2. PICK p \in Prio : y \in Range(r.ready[p])
      BY <1>4, <3>1 DEF ReadyLinked
    <3> QED
      BY <1>16, <3>1, <3>2
  <2>2. \A p \in Prio : \A y \in Range(u.ready[p]) : y # x /\ y \in Range(r.ready[p]) /\ y \in Task
    BY <1>3, <1>16
  <2>3. \A p \in Prio : \A y \in Range(u.ready[p]) : u.state[y] = "READY"
    BY <1>4, <1>15, <2>2 DEF ReadyLinked
  <2> QED
    BY <1>4, <1>16, <2>1, <2>2, <2>3 DEF ReadyLinked
<1>20. BitsSet(u)
  <2>1. \A p \in Prio : Range(u.ready[p]) # {} => Range(r.ready[p]) # {}
    BY <1>16
  <2> QED
    BY <1>4, <1>16, <2>1 DEF BitsSet
<1>21. Inherited(u, o)
  BY <1>4, <1>16 DEF Inherited
<1>22. ASSUME NEW p \in Prio, Stale(u, p)
       PROVE  \/ Stale(r, p)
              \/ p = b /\ x = o /\ b < r.priority[o]
  <2>1. p \in r.bitmap /\ p # r.priority[x]
    BY <1>16, <1>22 DEF Stale
  <2>2. CASE Range(r.ready[p]) = {}
    BY <2>1, <2>2 DEF Stale
  <2>3. CASE Range(r.ready[p]) # {}
    <3>1. x \in Range(r.ready[p])
      BY <1>16, <1>22, <2>3 DEF Stale
    <3>2. p = b
      BY <1>18, <3>1
    <3> QED
      BY <1>3, <1>6, <1>8, <1>18, <2>1, <3>2
  <2> QED
    BY <2>2, <2>3
<1>23. StaleBelow(u, o)
  <2> SUFFICES ASSUME NEW p \in Prio, Stale(u, p)
               PROVE  /\ o \in Task
                      /\ u.state[o] = "RUNNING" => p < u.priority[o]
                      /\ \A a \in Prio : o \in Range(u.ready[a]) => p < a
    BY DEF StaleBelow
  <2>1. CASE p = b /\ x = o /\ b < r.priority[o]
    BY <1>8, <1>16, <2>1
  <2>2. CASE Stale(r, p)
    <3>1. o \in Task /\ \A a \in Prio : o \in Range(r.ready[a]) => p < a
      BY <1>4, <2>2 DEF StaleBelow
    <3>2. u.state[o] = "RUNNING" => o = x
      BY <1>1, <1>15, <3>1 DEF Requeued
    <3>3. o = x => p < b
      BY <1>6, <1>8, <3>1
    <3>4. o = x => p < u.priority[o]
      BY <1>3, <1>6, <1>8, <1>16, <1>18, <3>3
    <3> QED
      BY <1>16, <3>1, <3>2, <3>4
  <2> QED
    BY <1>22, <2>1, <2>2
<1>24. StaleOwed(u, o, NULL)
  <2>1. ASSUME NEW p \in Prio, Stale(u, p)
        PROVE  \E v \in Workers :
                  /\ BasePriority[v] = p
                  /\ v \in InLine(u) \/ (v = o /\ u.priority[o] > p) \/ v = NULL
    <3>1. CASE Stale(r, p)
      BY <1>4, <1>16, <3>1 DEF StaleOwed
    <3>2. CASE p = b /\ x = o /\ b < r.priority[o]
      <4>1. b = BasePriority[o] \/ \E v \in InLine(r) : BasePriority[v] = b
        BY <1>4, <1>6, <1>8, <3>2 DEF Inherited
      <4>2. InLine(r) \subseteq Workers /\ o \in Workers
        BY <1>4, <1>8, <3>2 DEF LineSorted, OwnerRuns
      <4>3. r.priority[o] > b
        BY <1>3, <1>6, <1>8, <3>2
      <4> QED
        BY <1>16, <3>2, <4>1, <4>2, <4>3
    <3> QED
      BY <1>22, <2>1, <3>1, <3>2
  <2> QED
    BY <2>1 DEF StaleOwed
<1>25. RunningIsCurrent(u) /\ IdleAlive(u) /\ u.current # WILD /\ OwnerRuns(u, o)
  BY <1>1, <1>4, <1>8, <1>13, <1>15, TaskAssumption
     DEF RunningIsCurrent, IdleAlive, OwnerRuns, Requeued
<1>26. \A p \in Prio : p > u.priority[u.current] => Range(u.ready[p]) = {}
  <2> SUFFICES ASSUME NEW p \in Prio, p > r.priority[x], Range(r.ready[p]) # {} PROVE FALSE
    <3>1. u.priority[u.current] = r.priority[x]
      BY <1>13, <1>16
    <3>2. \A p \in Prio : Range(r.ready[p]) = {} => Range(u.ready[p]) = {}
      BY <1>16
    <3> QED
      BY <3>1, <3>2
  <2>1. p \in r.bitmap
    BY <1>4 DEF BitsSet
  <2> QED
    BY <1>3, <1>6, <1>8, <1>18, <2>1
<1> QED
  BY <1>8, <1>13, <1>14, <1>15, <1>17, <1>19, <1>20, <1>21, <1>23, <1>24, <1>25, <1>26 DEF Sched

-----------------------------------------------------------------------------
(* The semaphore and the queues are parts of the one kernel. *)

\* The semaphore blocks its caller and unlinks it like the kernel it is part of.
LEMMA FaultKernel ==
    /\ \A s, t : Fault!UnlinkEvent(s, t) = UnlinkEvent(s, t)
    /\ \A s, w, t : Fault!prepare_block(Fault!insert_waiter_priority_sorted(s, w, t), t, WAIT_FOREVER)
                     = block(s, w, t, WAIT_FOREVER)
<1>1. \A s, t : Fault!UnlinkEvent(s, t) = UnlinkEvent(s, t)
  BY DEF Fault!Keep, Keep, Fault!Cardinality, Cardinality, Fault!UnlinkEvent, UnlinkEvent
<1>2. \A s, t : Fault!Unlink(s, t) = Unlink(s, t)
  BY DEF Fault!Keep, Keep, Fault!Cardinality, Cardinality, Fault!Unlink, Unlink, Fault!Prio, Prio
<1>3. \A s, t : Fault!remove(s, t) = remove(s, t)
  BY <1>2 DEF Fault!remove, remove
<1>4. \A s, t : Fault!prepare_block(s, t, WAIT_FOREVER) = prepare_block(s, t, WAIT_FOREVER)
  BY <1>3 DEF Fault!prepare_block, prepare_block, Fault!WAIT_FOREVER, WAIT_FOREVER
<1>5. \A s, w, t : Fault!insert_waiter_priority_sorted(s, w, t)
                      = insert_waiter_priority_sorted(s, w, t)
  BY DEF Fault!insert_waiter_priority_sorted, insert_waiter_priority_sorted,
         Fault!Min, Min, Fault!InsertAt, InsertAt
<1> QED
  BY <1>1, <1>4, <1>5 DEF block

\* A take that finds a unit takes it, and one that finds none blocks.
LEMMA FaultTakes ==
    ASSUME NEW t \in Task, Fault!semaphore_take(t, WAIT_FOREVER)
    PROVE  /\ Calls(t)
           /\ \/ /\ fault_units > 0 /\ fault_units' = fault_units - 1
                 /\ got' = [got EXCEPT ![t] = "OK"] /\ k' = k /\ pc' = pc
              \/ /\ fault_units = 0 /\ fault_units' = fault_units /\ got' = got
                 /\ k' = block(k, g_fault_semaphore, t, WAIT_FOREVER)
                 /\ pc' = [pc EXCEPT ![t] = "block"]
<1>1. Calls(t)
  BY DEF Fault!semaphore_take, Fault!Calls, Fault!Executes, Calls, Executes
<1>2. WAIT_FOREVER # Fault!NO_WAIT
  BY TickAssumption DEF WAIT_FOREVER, Fault!NO_WAIT
<1> QED
  BY <1>1, <1>2, FaultKernel DEF Fault!semaphore_take

\* Behind the switch.
LEMMA FaultResumes ==
    ASSUME NEW t \in Task, Fault!semaphore_take_resumed(t)
    PROVE  /\ Executes(t) /\ pc[t] = "wake"
           /\ k' = UnlinkEvent(k, t) /\ pc' = [pc EXCEPT ![t] = "app"]
           /\ got' = [got EXCEPT ![t] = k.last_wait_result[t]] /\ fault_units' = fault_units
BY FaultKernel DEF Fault!semaphore_take_resumed, Fault!Executes, Executes

\* The queue of samples blocks its caller and unlinks it like the kernel it is part of.
LEMMA AdcKernel ==
    /\ \A s, t : Adc!UnlinkEvent(s, t) = UnlinkEvent(s, t)
    /\ \A s, w, t : Adc!prepare_block(Adc!insert_waiter_priority_sorted(s, w, t), t, WAIT_FOREVER)
                     = block(s, w, t, WAIT_FOREVER)
<1>1. \A s, t : Adc!UnlinkEvent(s, t) = UnlinkEvent(s, t)
  BY DEF Adc!Keep, Keep, Adc!Cardinality, Cardinality, Adc!UnlinkEvent, UnlinkEvent
<1>2. \A s, t : Adc!Unlink(s, t) = Unlink(s, t)
  BY DEF Adc!Keep, Keep, Adc!Cardinality, Cardinality, Adc!Unlink, Unlink, Adc!Prio, Prio
<1>3. \A s, t : Adc!remove(s, t) = remove(s, t)
  BY <1>2 DEF Adc!remove, remove
<1>4. \A s, t : Adc!prepare_block(s, t, WAIT_FOREVER) = prepare_block(s, t, WAIT_FOREVER)
  BY <1>3 DEF Adc!prepare_block, prepare_block, Adc!WAIT_FOREVER, WAIT_FOREVER
<1>5. \A s, w, t : Adc!insert_waiter_priority_sorted(s, w, t)
                      = insert_waiter_priority_sorted(s, w, t)
  BY DEF Adc!insert_waiter_priority_sorted, insert_waiter_priority_sorted,
         Adc!Min, Min, Adc!InsertAt, InsertAt
<1> QED
  BY <1>1, <1>4, <1>5 DEF block

\* A receive that finds an item takes it, and wakes no sender, for there is none.
\* One that finds none blocks.
LEMMA AdcReceives ==
    ASSUME NEW t \in Task, k.waiters[adc_tx] = << >>, Adc!queue_receive(t, WAIT_FOREVER)
    PROVE  /\ Calls(t)
           /\ \/ adc.count > 0 /\ Adc!copy_out(t) /\ k' = k /\ pc' = pc
              \/ /\ adc.count = 0 /\ adc' = adc
                 /\ k' = block(k, adc_rx, t, WAIT_FOREVER)
                 /\ pc' = [pc EXCEPT ![t] = "block"]
<1>1. Calls(t)
  BY DEF Adc!queue_receive, Adc!Calls, Adc!Executes, Calls, Executes
<1>2. CASE /\ adc.count > 0 /\ Adc!copy_out(t) /\ Adc!wake_and_switch(t, adc_tx)
  BY <1>1, <1>2 DEF Adc!wake_and_switch, Adc!wake_waiter
<1>3. CASE /\ adc.count = 0 /\ Adc!block_on(t, adc_rx, RECEIVE, WAIT_FOREVER)
           /\ UNCHANGED <<adc, out>>
  BY <1>1, <1>3, AdcKernel DEF Adc!block_on
<1> QED
  BY <1>2, <1>3 DEF Adc!queue_receive

\* Behind the switch.
LEMMA AdcResumes ==
    ASSUME NEW t \in Task, Adc!queue_receive_resumed(t)
    PROVE  /\ Executes(t) /\ pc[t] = "wake"
           /\ k' = UnlinkEvent(k, t) /\ pc' = [pc EXCEPT ![t] = "app"]
           /\ (adc.count > 0 /\ Adc!copy_out(t)) \/ adc' = adc
BY AdcKernel DEF Adc!queue_receive_resumed, Adc!Resumed, Adc!Executes, Executes

\* The queue of bytes blocks its caller and unlinks it like the kernel it is part of.
LEMMA UartKernel ==
    /\ \A s, t : Uart!UnlinkEvent(s, t) = UnlinkEvent(s, t)
    /\ \A s, w, t : Uart!prepare_block(Uart!insert_waiter_priority_sorted(s, w, t), t, WAIT_FOREVER)
                     = block(s, w, t, WAIT_FOREVER)
<1>1. \A s, t : Uart!UnlinkEvent(s, t) = UnlinkEvent(s, t)
  BY DEF Uart!Keep, Keep, Uart!Cardinality, Cardinality, Uart!UnlinkEvent, UnlinkEvent
<1>2. \A s, t : Uart!Unlink(s, t) = Unlink(s, t)
  BY DEF Uart!Keep, Keep, Uart!Cardinality, Cardinality, Uart!Unlink, Unlink, Uart!Prio, Prio
<1>3. \A s, t : Uart!remove(s, t) = remove(s, t)
  BY <1>2 DEF Uart!remove, remove
<1>4. \A s, t : Uart!prepare_block(s, t, WAIT_FOREVER) = prepare_block(s, t, WAIT_FOREVER)
  BY <1>3 DEF Uart!prepare_block, prepare_block, Uart!WAIT_FOREVER, WAIT_FOREVER
<1>5. \A s, w, t : Uart!insert_waiter_priority_sorted(s, w, t)
                      = insert_waiter_priority_sorted(s, w, t)
  BY DEF Uart!insert_waiter_priority_sorted, insert_waiter_priority_sorted,
         Uart!Min, Min, Uart!InsertAt, InsertAt
<1> QED
  BY <1>1, <1>4, <1>5 DEF block

\* A receive that finds an item takes it, and wakes no sender, for there is none.
\* One that finds none blocks.
LEMMA UartReceives ==
    ASSUME NEW t \in Task, k.waiters[uart_tx] = << >>, Uart!queue_receive(t, WAIT_FOREVER)
    PROVE  /\ Calls(t)
           /\ \/ uart.count > 0 /\ Uart!copy_out(t) /\ k' = k /\ pc' = pc
              \/ /\ uart.count = 0 /\ uart' = uart
                 /\ k' = block(k, uart_rx, t, WAIT_FOREVER)
                 /\ pc' = [pc EXCEPT ![t] = "block"]
<1>1. Calls(t)
  BY DEF Uart!queue_receive, Uart!Calls, Uart!Executes, Calls, Executes
<1>2. CASE /\ uart.count > 0 /\ Uart!copy_out(t) /\ Uart!wake_and_switch(t, uart_tx)
  BY <1>1, <1>2 DEF Uart!wake_and_switch, Uart!wake_waiter
<1>3. CASE /\ uart.count = 0 /\ Uart!block_on(t, uart_rx, RECEIVE, WAIT_FOREVER)
           /\ UNCHANGED <<uart, out>>
  BY <1>1, <1>3, UartKernel DEF Uart!block_on
<1> QED
  BY <1>2, <1>3 DEF Uart!queue_receive

\* Behind the switch.
LEMMA UartResumes ==
    ASSUME NEW t \in Task, Uart!queue_receive_resumed(t)
    PROVE  /\ Executes(t) /\ pc[t] = "wake"
           /\ k' = UnlinkEvent(k, t) /\ pc' = [pc EXCEPT ![t] = "app"]
           /\ (uart.count > 0 /\ Uart!copy_out(t)) \/ uart' = uart
BY UartKernel DEF Uart!queue_receive_resumed, Uart!Resumed, Uart!Executes, Executes

\* A byte from the interrupt is queued and wakes the receiver, if it waits.
LEMMA UartSends ==
    ASSUME Uart!queue_send_from_isr("byte")
    PROVE  /\ k.current # NULL /\ uart.count < UART_RX_QUEUE_DEPTH /\ Uart!copy_in("byte")
           /\ pc' = pc
           /\ k' = IF k.waiters[uart_rx] # << >>
                   THEN request_context_switch(wake_waiter(k, uart_rx)) ELSE k
<1>1. \A s, t : Uart!Unlink(s, t) = Unlink(s, t)
  BY DEF Uart!Keep, Keep, Uart!Cardinality, Cardinality, Uart!Unlink, Unlink, Uart!Prio, Prio
<1>2. \A s, t : Uart!add_ready(s, t) = add_ready(s, t)
  BY DEF Uart!add_ready, add_ready
<1>3. \A s, w : Uart!wake_waiter(s, w) = wake_waiter(s, w)
  BY <1>1, <1>2, UartKernel DEF Uart!wake_waiter, wake_waiter
<1>4. \A s : Uart!request_context_switch(s) = request_context_switch(s)
  BY DEF Uart!request_context_switch, request_context_switch
<1> QED
  BY <1>3, <1>4 DEF Uart!queue_send_from_isr

\* Five elements make a set of at most five.
LEMMA AtMostFive ==
    ASSUME NEW a, NEW b, NEW c, NEW d, NEW e
    PROVE  Cardinality({a, b, c, d, e}) # 6
<1> DEFINE B == {a} \cup {b}
           C == B \cup {c}
           D == C \cup {d}
           E == D \cup {e}
<1>0. {a, b, c, d, e} = E
  OBVIOUS
<1>1. IsFiniteSet({a}) /\ Cardinality({a}) \in Nat /\ Cardinality({a}) <= 1
  BY FS_Singleton
<1>2. IsFiniteSet(B) /\ Cardinality(B) \in Nat /\ Cardinality(B) <= 2
  <2>1. /\ IsFiniteSet(B)
        /\ Cardinality(B) = Cardinality({a}) \/ Cardinality(B) = Cardinality({a}) + 1
    BY <1>1, FS_AddElement
  <2> HIDE DEF B
  <2> QED
    BY <1>1, <2>1
<1> HIDE DEF B
<1>3. IsFiniteSet(C) /\ Cardinality(C) \in Nat /\ Cardinality(C) <= 3
  <2>1. /\ IsFiniteSet(C)
        /\ Cardinality(C) = Cardinality(B) \/ Cardinality(C) = Cardinality(B) + 1
    BY <1>2, FS_AddElement
  <2> HIDE DEF C
  <2> QED
    BY <1>2, <2>1
<1> HIDE DEF C
<1>4. IsFiniteSet(D) /\ Cardinality(D) \in Nat /\ Cardinality(D) <= 4
  <2>1. /\ IsFiniteSet(D)
        /\ Cardinality(D) = Cardinality(C) \/ Cardinality(D) = Cardinality(C) + 1
    BY <1>3, FS_AddElement
  <2> HIDE DEF D
  <2> QED
    BY <1>3, <2>1
<1> HIDE DEF D
<1>5. IsFiniteSet(E) /\ Cardinality(E) \in Nat /\ Cardinality(E) <= 5
  <2>1. /\ IsFiniteSet(E)
        /\ Cardinality(E) = Cardinality(D) \/ Cardinality(E) = Cardinality(D) + 1
    BY <1>4, FS_AddElement
  <2> HIDE DEF E
  <2> QED
    BY <1>4, <2>1
<1> HIDE DEF E
<1> QED
  BY <1>0, <1>5

\* The wait lists of the application are different wait lists.
LEMMA ListsDiffer ==
    /\ {g_status_mutex, g_fault_semaphore, adc_rx, adc_tx, uart_rx, uart_tx} \subseteq WaitList
    /\ g_status_mutex \notin {g_fault_semaphore, adc_rx, adc_tx, uart_rx, uart_tx}
    /\ g_fault_semaphore \notin {adc_rx, adc_tx, uart_rx, uart_tx}
    /\ adc_rx \notin {adc_tx, uart_rx, uart_tx}
    /\ uart_rx \notin {adc_tx, uart_tx}
    /\ mutexes = {g_status_mutex}
<1> DEFINE g == g_status_mutex
           f == g_fault_semaphore
<1>1. Cardinality({g, f, adc_rx, adc_tx, uart_rx, uart_tx}) = 6
  BY PowerSupplyAssumption
<1>2. /\ {g_status_mutex, g_fault_semaphore, adc_rx, adc_tx, uart_rx, uart_tx} \subseteq WaitList
      /\ mutexes = {g_status_mutex}
  BY PowerSupplyAssumption, MutexAssumption
<1>3. g \notin {f, adc_rx, adc_tx, uart_rx, uart_tx}
  <2>1. g \in {f, adc_rx, adc_tx, uart_rx, uart_tx} =>
          {g, f, adc_rx, adc_tx, uart_rx, uart_tx} = {f, adc_rx, adc_tx, uart_rx, uart_tx}
    OBVIOUS
  <2> QED
    BY <1>1, <2>1, AtMostFive
<1>4. f \notin {adc_rx, adc_tx, uart_rx, uart_tx}
  <2>1. f \in {adc_rx, adc_tx, uart_rx, uart_tx} =>
          {g, f, adc_rx, adc_tx, uart_rx, uart_tx} = {g, adc_rx, adc_tx, uart_rx, uart_tx}
    OBVIOUS
  <2> QED
    BY <1>1, <2>1, AtMostFive
<1>5. adc_rx \notin {adc_tx, uart_rx, uart_tx}
  <2>1. adc_rx \in {adc_tx, uart_rx, uart_tx} =>
          {g, f, adc_rx, adc_tx, uart_rx, uart_tx} = {g, f, adc_tx, uart_rx, uart_tx}
    OBVIOUS
  <2> QED
    BY <1>1, <2>1, AtMostFive
<1>6. uart_rx \notin {adc_tx, uart_tx}
  <2>1. uart_rx \in {adc_tx, uart_tx} =>
          {g, f, adc_rx, adc_tx, uart_rx, uart_tx} = {g, f, adc_rx, adc_tx, uart_tx}
    OBVIOUS
  <2> QED
    BY <1>1, <2>1, AtMostFive
<1> QED
  BY <1>2, <1>3, <1>4, <1>5, <1>6

-----------------------------------------------------------------------------
(* Who runs. *)

\* The running task that is on its way to be requeued.
Leaving ==
    IF /\ k.current \in Task /\ k.state[k.current] = "RUNNING"
       /\ k.pendsv \/ pc[k.current] = "switch"
    THEN k.current ELSE NULL

\* RunInv: the scheduler's promise, and what it means for the task that executes.
RunInv ==
    /\ Sched(k, owner[g_status_mutex], Leaving)
    /\ RunsRunning
    /\ WokenPreempts

\* A task in its code, or behind the switch of a call, is RUNNING and not leaving.
LEMMA Running ==
    ASSUME RunInv, NEW t \in Task, Executes(t), pc[t] \in {"app", "wake"}
    PROVE  /\ k.state[t] = "RUNNING" /\ k.current = t /\ ~ k.pendsv
           /\ Sched(k, owner[g_status_mutex], NULL)
<1>1. k.state[t] = "RUNNING" /\ k.current = t /\ ~ k.pendsv
  BY DEF RunInv, RunsRunning, Executes
<1>2. Leaving = NULL
  BY <1>1 DEF Leaving
<1> QED
  BY <1>1, <1>2 DEF RunInv

\* It goes on.
LEMMA GoesOn ==
    ASSUME RunInv, NEW t \in Task, Executes(t), pc[t] \in {"app", "wake"}, pc'[t] = "app",
           k'.ready = k.ready, k'.priority = k.priority, k'.state = k.state,
           k'.current = k.current, k'.pendsv = k.pendsv,
           Sched(k', owner'[g_status_mutex], NULL)
    PROVE  RunInv'
<1>1. k.state[t] = "RUNNING" /\ k.current = t /\ ~ k.pendsv
  BY Running
<1>2. Sched(k', owner'[g_status_mutex], Leaving')
  BY SchedWeaken
<1>3. \A x \in Task : Executes(x)' => x = t
  BY <1>1 DEF Executes
<1>4. RunsRunning'
  BY <1>1, <1>3 DEF RunsRunning
<1>5. WokenPreempts'
  <2>1. \A p \in Prio : p > k.priority[t] => k.ready[p] = << >>
    BY DEF RunInv, WokenPreempts
  <2> QED
    BY <1>3, <2>1 DEF WokenPreempts
<1> QED
  BY <1>2, <1>4, <1>5 DEF RunInv

\* It goes to a switch, or an exception is pending.
LEMMA GoesAway ==
    ASSUME NEW c, Sched(k', owner'[g_status_mutex], c), c = NULL \/ c = Leaving',
           k'.pendsv \/ \E t \in Task : k'.current = t /\ pc'[t] \in {"switch", "block"}
    PROVE  RunInv'
<1>1. Sched(k', owner'[g_status_mutex], Leaving')
  BY SchedWeaken
<1>2. \A x \in Task : ~ (Executes(x) /\ pc[x] \in {"app", "wake"})'
  BY DEF Executes
<1> QED
  BY <1>1, <1>2 DEF RunInv, RunsRunning, WokenPreempts

-----------------------------------------------------------------------------
(* Blocking, waking, giving up the mutex, ticking. *)

\* The timeout of every blocking call of the application.
LEMMA ForeverIsTime == WAIT_FOREVER \in TickCount /\ WAIT_FOREVER # NO_WAIT
BY TickAssumption DEF WAIT_FOREVER, TickCount, NO_WAIT

\* The running task blocks on a wait list other than the mutex's.
LEMMA BlockSched ==
    ASSUME NEW s \in Kernel, NEW o, NEW t \in Workers, t # o, t # Idle,
           Sched(s, o, NULL), s.state[t] = "RUNNING",
           NEW w \in WaitList \ {g_status_mutex}, NEW u, u = block(s, w, t, WAIT_FOREVER)
    PROVE  Sched(u, o, NULL)
<1>1. t \in Task /\ g_status_mutex \in WaitList /\ s.state \in [Task -> TaskState]
  BY WorkersDiffer, ListsDiffer DEF Kernel
<1>2. BlockEffect(s, w, t, WAIT_FOREVER, u)
  BY <1>1, BlockFields, ForeverIsTime
<1>3. \A p \in Prio : p \in u.bitmap <=>
          p \in s.bitmap /\ ~ (p = s.priority[t] /\ Range(u.ready[p]) = {})
  BY <1>1, BlockBits, ForeverIsTime, ZenonT(40)
<1>4. /\ u \in Kernel /\ u.waiters[g_status_mutex] = s.waiters[g_status_mutex]
      /\ \A p \in Prio : Range(u.ready[p]) = Range(s.ready[p]) \ {t}
      /\ u.state = [s.state EXCEPT ![t] = "BLOCKED"]
      /\ u.priority = s.priority /\ u.current = s.current
  BY <1>1, <1>2 DEF BlockEffect, SameTask
<1>5. \A x \in Task : u.state[x] = IF x = t THEN "BLOCKED" ELSE s.state[x]
  BY <1>1, <1>4
<1>6. InLine(s) \subseteq InLine(u) /\ LineSorted(u)
  BY <1>4 DEF InLine, LineSorted, Sched
<1> QED
  BY <1>3, <1>4, <1>5, <1>6, HaltKeeps, ZenonT(40)

\* The running task goes to sleep.
LEMMA DelaySched ==
    ASSUME NEW s \in Kernel, NEW o, NEW t \in Workers, t # o, t # Idle,
           Sched(s, o, NULL), s.state[t] = "RUNNING",
           NEW wake \in TickCount, NEW u, u = block_current_delay(s, t, wake)
    PROVE  Sched(u, o, NULL)
<1>1. t \in Task /\ s.state \in [Task -> TaskState]
  BY WorkersDiffer DEF Kernel
<1>2. DelayEffect(s, t, wake, u)
  BY <1>1, DelayFields
<1>3. \A p \in Prio : p \in u.bitmap <=>
          p \in s.bitmap /\ ~ (p = s.priority[t] /\ Range(u.ready[p]) = {})
  BY <1>1, DelayBits
<1>4. /\ u \in Kernel /\ u.waiters = s.waiters
      /\ \A p \in Prio : Range(u.ready[p]) = Range(s.ready[p]) \ {t}
      /\ u.state = [s.state EXCEPT ![t] = "BLOCKED"]
      /\ u.priority = s.priority /\ u.current = s.current
  BY <1>2 DEF DelayEffect, SameTask
<1>5. \A x \in Task : u.state[x] = IF x = t THEN "BLOCKED" ELSE s.state[x]
  BY <1>1, <1>4
<1>6. InLine(s) \subseteq InLine(u) /\ LineSorted(u)
  BY <1>4 DEF InLine, LineSorted, Sched
<1> QED
  BY <1>3, <1>4, <1>5, <1>6, HaltKeeps, ZenonT(40)

\* The running task gets in line for the mutex, and the owner inherits its priority
\* if that is higher.
LEMMA LockSched ==
    ASSUME NEW s \in Kernel, NEW o \in Task, NEW t \in Workers, t # o, t # Idle,
           Sched(s, o, NULL), s.state[t] = "RUNNING", o \notin InLine(s),
           NEW u, u = block(boost(s, o, t), g_status_mutex, t, WAIT_FOREVER)
    PROVE  Sched(u, o, NULL)
<1> DEFINE b == boost(s, o, t)
           g == g_status_mutex
           l == s.waiters[g]
<1>1. /\ t \in Task /\ g \in WaitList /\ s.state \in [Task -> TaskState]
      /\ s.priority \in [Task -> Prio]
      /\ l \in Seq(Task) /\ Range(l) \subseteq Task
  BY WorkersDiffer, ListsDiffer, ListTypes DEF Kernel
<1>2. /\ b \in Kernel
      /\ b.ready = s.ready /\ b.waiters = s.waiters /\ b.state = s.state
      /\ \A x \in Task \ {o} : b.priority[x] = s.priority[x]
  BY <1>1, BoostFields
<1>3. /\ b.bitmap = s.bitmap /\ b.current = s.current
      /\ \/ b.priority = s.priority
         \/ b.priority[o] = s.priority[t] /\ s.priority[t] > s.priority[o]
  <2>1. CASE s.priority[t] > s.priority[o]
    <3>1. b = [s EXCEPT !.priority[o] = s.priority[t]]
      BY <2>1 DEF boost
    <3>2. b.priority = [s.priority EXCEPT ![o] = s.priority[t]]
          /\ b.bitmap = s.bitmap /\ b.current = s.current
      BY <3>1 DEF Kernel
    <3> QED
      BY <1>1, <2>1, <3>2
  <2>2. CASE ~ (s.priority[t] > s.priority[o])
    BY <2>2 DEF boost
  <2> QED
    BY <2>1, <2>2
<1>31. u = block(b, g, t, WAIT_FOREVER)
  OBVIOUS
<1> HIDE DEF b, g
<1>4. BlockEffect(b, g, t, WAIT_FOREVER, u)
  BY <1>1, <1>2, <1>31, BlockFields, ForeverIsTime
<1>5. \A p \in Prio : p \in u.bitmap <=>
          p \in b.bitmap /\ ~ (p = b.priority[t] /\ Range(u.ready[p]) = {})
  <2>1. b \in Kernel /\ g \in WaitList /\ t \in Task /\ WAIT_FOREVER \in TickCount
    BY <1>1, <1>2, ForeverIsTime
  <2> QED
    BY <1>31, <2>1, BlockBits
<1>6. /\ u \in Kernel
      /\ \A p \in Prio : Range(u.ready[p]) = Range(s.ready[p]) \ {t}
      /\ Range(u.waiters[g]) = Range(l) \cup {t}
      /\ u.state = [s.state EXCEPT ![t] = "BLOCKED"]
      /\ u.priority = b.priority /\ u.current = s.current
  BY <1>2, <1>3, <1>4 DEF BlockEffect, SameTask
<1>7. \A x \in Task : u.state[x] = IF x = t THEN "BLOCKED" ELSE s.state[x]
  BY <1>1, <1>6
<1>8. \A p \in Prio : p \in u.bitmap <=>
          p \in s.bitmap /\ ~ (p = s.priority[t] /\ Range(u.ready[p]) = {})
  BY <1>1, <1>2, <1>3, <1>5
<1>9. InLine(u) = InLine(s) \cup {t}
  BY <1>6 DEF InLine, g
<1>10. Sorted(u.waiters[g], BasePriority)
  <2>1. PICK pos : /\ Fits(b.waiters[g], b.priority, b.priority[t], pos)
                   /\ u.waiters = [b.waiters EXCEPT ![g] = InsertAt(b.waiters[g], pos, t)]
    BY <1>4 DEF BlockEffect
  <2>2. \A x \in Range(l) \cup {t} : b.priority[x] = BasePriority[x]
    <3>1. \A x \in Range(l) \cup {t} : x \in Task /\ x # o
      BY <1>1 DEF InLine, g
    <3>2. \A x \in Task \ {o} : s.priority[x] = BasePriority[x]
      BY DEF Sched, Inherited
    <3> QED
      BY <1>2, <3>1, <3>2
  <2>3. /\ pos \in 1 .. Len(l) + 1 /\ Len(l) \in Nat
        /\ \A i \in 1 .. Len(l) : l[i] \in Range(l)
    BY <1>1, <1>2, <2>1, LenProperties DEF Fits, Range
  <2>4. Fits(l, BasePriority, BasePriority[t], pos)
    <3>1. \A i \in 1 .. Len(l) : b.priority[l[i]] = BasePriority[l[i]]
      BY <2>2, <2>3
    <3>2. b.priority[t] = BasePriority[t]
      BY <2>2
    <3> QED
      BY <1>2, <2>1, <2>3, <3>1, <3>2 DEF Fits
  <2>5. BasePriority \in [Task -> Int]
    BY PriorityAssumption DEF Prio
  <2>6. u.waiters[g] = InsertAt(l, pos, t)
    <3>1. b.waiters \in [WaitList -> Seq(Task)]
      BY <1>2, ListTypes
    <3> QED
      BY <1>1, <1>2, <2>1, <3>1
  <2>7. Sorted(l, BasePriority)
    BY DEF Sched, LineSorted, g
  <2> HIDE DEF l
  <2> QED
    BY <1>1, <2>4, <2>5, <2>6, <2>7, SortedInsert
<1>11. LineSorted(u)
  BY <1>9, <1>10 DEF Sched, LineSorted, g
<1>12. \A x \in Task \ {o} : u.priority[x] = s.priority[x]
  BY <1>2, <1>6
<1>13. \/ u.priority = s.priority
       \/ /\ u.priority[o] = s.priority[t] /\ s.priority[t] > s.priority[o]
          /\ t \in InLine(u) /\ o \in Task
  BY <1>3, <1>6, <1>9
<1>14. InLine(s) \subseteq InLine(u)
  BY <1>9
<1> QED
  <2>1. u \in Kernel /\ u.current = s.current
    BY <1>6
  <2>2. \A p \in Prio : Range(u.ready[p]) = Range(s.ready[p]) \ {t}
    BY <1>6
  <2> QED
    BY <1>7, <1>8, <1>11, <1>12, <1>13, <1>14, <2>1, <2>2, HaltKeeps

\* The first task of another wait list is woken.
LEMMA WakeSched ==
    ASSUME NEW s \in Kernel, NEW o, NEW c, Sched(s, o, c),
           NEW w \in WaitList, s.waiters[w] # << >>,
           \A x \in Range(s.waiters[w]) : s.state[x] = "BLOCKED" /\ x \notin InLine(s),
           NEW u, u = wake_waiter(s, w)
    PROVE  Sched(u, o, c)
<1> DEFINE h == Head(s.waiters[w])
           g == g_status_mutex
<1>1. WakeEffect(s, w, h, u)
  BY WakeFields
<1>2. u.bitmap = s.bitmap \cup {s.priority[h]}
  BY WakeBits
<1> HIDE DEF h
<1>3. /\ u \in Kernel /\ h \in Task /\ h \in Range(s.waiters[w])
      /\ \A v \in WaitList : u.waiters[v] = Keep(s.waiters[v], Task \ {h})
      /\ \A v \in WaitList : Range(u.waiters[v]) = Range(s.waiters[v]) \ {h}
      /\ \A p \in Prio \ {s.priority[h]} : Range(u.ready[p]) = Range(s.ready[p]) \ {h}
      /\ Range(u.ready[s.priority[h]]) = Range(s.ready[s.priority[h]]) \cup {h}
      /\ u.state = [s.state EXCEPT ![h] = "READY"]
      /\ u.priority = s.priority /\ u.current = s.current
  BY <1>1 DEF WakeEffect, SameTask
<1>4. \A p \in Prio : h \notin Range(s.ready[p])
  BY <1>3 DEF Sched, ReadyLinked
<1> DEFINE D == {h}
<1>5. \A p \in Prio : Range(u.ready[p]) = Range(s.ready[p]) \cup {x \in D : s.priority[x] = p}
  <2> TAKE p \in Prio
  <2>1. CASE p = s.priority[h]
    BY <1>3, <2>1
  <2>2. CASE p # s.priority[h]
    BY <1>3, <1>4, <2>2
  <2> QED
    BY <2>1, <2>2
<1>6. u.bitmap = s.bitmap \cup {s.priority[x] : x \in D}
  BY <1>2
<1>7. \A x \in Task : u.state[x] = IF x \in D THEN "READY" ELSE s.state[x]
  <2>1. s.state \in [Task -> TaskState]
    BY DEF Kernel
  <2> QED
    BY <1>3, <2>1
<1>8. g \in WaitList /\ s.waiters[g] \in Seq(Task)
  BY ListsDiffer, ListTypes
<1>9. InLine(u) = InLine(s)
  <2>1. h \notin Range(s.waiters[g]) /\ Range(u.waiters[g]) = Range(s.waiters[g]) \ {h}
    BY <1>3, <1>8 DEF InLine
  <2> QED
    BY <2>1 DEF InLine
<1>10. LineSorted(u)
  <2>1. Sorted(u.waiters[g], BasePriority)
    BY <1>3, <1>8, SortedKeep DEF Sched, LineSorted
  <2> QED
    BY <1>9, <2>1 DEF Sched, LineSorted
<1>11. D \in SUBSET Task /\ \A x \in D : s.state[x] \notin {"READY", "RUNNING"}
  BY <1>3
<1> HIDE DEF D
<1> QED
  <2>1. u \in Kernel /\ u.priority = s.priority /\ u.current = s.current
    BY <1>3
  <2> QED
    BY <1>5, <1>6, <1>7, <1>9, <1>10, <1>11, <2>1, ReadiesKeep

\* The running task's event link is taken out of whatever list it is in: not the line.
LEMMA UnlinkSched ==
    ASSUME NEW s \in Kernel, NEW o, NEW c, Sched(s, o, c), NEW t \in Task,
           t \notin InLine(s), NEW u, u = UnlinkEvent(s, t)
    PROVE  Sched(u, o, c)
<1> DEFINE g == g_status_mutex
<1>1. UnlinkEventEffect(s, t, u)
  BY UnlinkEventFields
<1>2. /\ u \in Kernel /\ u.ready = s.ready /\ u.bitmap = s.bitmap /\ u.state = s.state
      /\ u.priority = s.priority /\ u.current = s.current
      /\ \A w \in WaitList : u.waiters[w] = Keep(s.waiters[w], Task \ {t})
      /\ \A w \in WaitList : Range(u.waiters[w]) = Range(s.waiters[w]) \ {t}
  BY <1>1 DEF UnlinkEventEffect, SameTask
<1>3. g \in WaitList /\ s.waiters[g] \in Seq(Task)
  BY ListsDiffer, ListTypes
<1>4. InLine(u) = InLine(s)
  BY <1>2, <1>3 DEF InLine
<1>5. LineSorted(u)
  <2>1. Sorted(u.waiters[g], BasePriority)
    BY <1>2, <1>3, SortedKeep DEF Sched, LineSorted
  <2> QED
    BY <1>4, <2>1 DEF Sched, LineSorted
<1> DEFINE D == {}
<1>6. \A p \in Prio : Range(u.ready[p]) = Range(s.ready[p]) \cup {x \in D : s.priority[x] = p}
  BY <1>2
<1>7. u.bitmap = s.bitmap \cup {s.priority[x] : x \in D}
  BY <1>2
<1>8. \A x \in Task : u.state[x] = IF x \in D THEN "READY" ELSE s.state[x]
  BY <1>2
<1>9. D \in SUBSET Task /\ \A x \in D : s.state[x] \notin {"READY", "RUNNING"}
  OBVIOUS
<1> HIDE DEF D
<1> QED
  BY <1>2, <1>4, <1>5, <1>6, <1>7, <1>8, <1>9, ReadiesKeep

\* What becomes of s when the owner t gives the mutex up: the first in line gets it
\* and leaves the line; if there is none the kernel does not change.
GivenUp(s, t, u) ==
    LET h == Head(s.waiters[g_status_mutex])
    IN  /\ s.waiters[g_status_mutex] = << >> => u = s /\ Sched(u, NULL, NULL)
        /\ s.waiters[g_status_mutex] # << >> =>
              /\ Sched(u, h, t)
              /\ u.current = s.current /\ u.state[t] = "RUNNING"
              /\ h \in InLine(s)
              /\ Range(u.delayed) \subseteq Range(s.delayed)
              /\ \A v \in WaitList : Range(u.waiters[v]) = Range(s.waiters[v]) \ {h}
              /\ \A x \in Task \ InLine(s) :
                    /\ u.state[x] = s.state[x]
                    /\ u.last_wait_result[x] = s.last_wait_result[x]

\* The owner gives the mutex up.
LEMMA ReleaseSched ==
    ASSUME NEW s \in Kernel, NEW t \in Task, Sched(s, t, NULL), s.state[t] = "RUNNING",
           \A x \in InLine(s) : s.state[x] = "BLOCKED",
           NEW u, u = wake_waiter([s EXCEPT !.priority[t] = BasePriority[t]], g_status_mutex)
    PROVE  GivenUp(s, t, u)
<1> DEFINE g == g_status_mutex
           z == [s EXCEPT !.priority[t] = BasePriority[t]]
           h == Head(s.waiters[g])
<1>1. /\ g \in WaitList /\ s.waiters[g] \in Seq(Task) /\ s.priority \in [Task -> Prio]
      /\ s.state \in [Task -> TaskState] /\ BasePriority[t] \in Prio
      /\ InLine(s) \subseteq Task /\ BasePriority \in [Task -> Int]
      /\ s.waiters[g] = << >> <=> InLine(s) = {}
  <2>1. BasePriority \in [Task -> Int]
    BY PriorityAssumption DEF Prio
  <2>2. g \in WaitList /\ s.waiters[g] \in Seq(Task) /\ InLine(s) \subseteq Task
    BY ListsDiffer, ListTypes DEF InLine
  <2>3. s.waiters[g] = << >> <=> InLine(s) = {}
    BY <2>2, EmptyRange DEF InLine
  <2>4. s.priority \in [Task -> Prio] /\ s.state \in [Task -> TaskState] /\ BasePriority[t] \in Prio
    BY WorkersDiffer DEF Kernel
  <2> QED
    BY <2>1, <2>2, <2>3, <2>4
<1>2. /\ z.ready = s.ready /\ z.bitmap = s.bitmap /\ z.waiters = s.waiters /\ z.state = s.state
      /\ z.delayed = s.delayed /\ z.last_wait_result = s.last_wait_result
      /\ z.current = s.current /\ z.pendsv = s.pendsv
      /\ z.priority = [s.priority EXCEPT ![t] = BasePriority[t]]
  BY DEF Kernel
<1>3. z \in Kernel
  <2>1. [s.priority EXCEPT ![t] = BasePriority[t]] \in [Task -> Prio]
    BY <1>1
  <2>2. z = [s EXCEPT !.priority = [s.priority EXCEPT ![t] = BasePriority[t]]]
    OBVIOUS
  <2> QED
    BY <2>1, <2>2 DEF Kernel
<1>4. u = wake_waiter(z, g)
  OBVIOUS
<1>5. CASE s.waiters[g] = << >>
  <2>1. s.priority[t] = BasePriority[t] /\ Sched(s, NULL, NULL)
    BY <1>1, <1>5, FreeKeeps
  <2>2. [s.priority EXCEPT ![t] = BasePriority[t]] = s.priority
    BY <1>1, <2>1
  <2>3. z = s
    <3>1. z = [s EXCEPT !.priority = [s.priority EXCEPT ![t] = BasePriority[t]]]
      OBVIOUS
    <3>2. [s EXCEPT !.priority = s.priority] = s
      BY DEF Kernel
    <3> QED
      BY <2>2, <3>1, <3>2
  <2>4. u = z
    BY <1>2, <1>4, <1>5 DEF wake_waiter
  <2> QED
    BY <1>5, <2>1, <2>3, <2>4 DEF GivenUp
<1>6. CASE s.waiters[g] # << >>
  <2> HIDE DEF z, g
  <2>1. WakeEffect(z, g, h, u)
    BY <1>1, <1>2, <1>3, <1>4, <1>6, WakeFields
  <2>2. u.bitmap = s.bitmap \cup {z.priority[h]}
    BY <1>1, <1>2, <1>3, <1>4, <1>6, WakeBits
  <2>3. h \in InLine(s) /\ \A x \in InLine(s) : BasePriority[x] <= BasePriority[h]
    <3>1. Sorted(s.waiters[g], BasePriority)
      BY DEF Sched, LineSorted, g
    <3>2. \A x \in Range(s.waiters[g]) : BasePriority[x] <= BasePriority[Head(s.waiters[g])]
      BY <1>1, <1>6, <3>1, SortedHead
    <3> QED
      BY <1>1, <1>6, <3>2, EmptyRange DEF InLine, g
  <2> HIDE DEF h
  <2>4. h \in Task /\ s.state[h] = "BLOCKED" /\ h # t
    BY <1>1, <2>3
  <2>5. z.priority[h] = BasePriority[h]
    BY <1>1, <1>2, <2>4 DEF Sched, Inherited
  <2>6. /\ u \in Kernel /\ u.current = s.current /\ u.pendsv = s.pendsv
        /\ u.priority = [s.priority EXCEPT ![t] = BasePriority[t]]
        /\ u.state = [s.state EXCEPT ![h] = "READY"]
    BY <1>2, <2>1, SMTT(30) DEF WakeEffect, SameTask
  <2>7. /\ \A p \in Prio \ {BasePriority[h]} : Range(u.ready[p]) = Range(s.ready[p]) \ {h}
        /\ Range(u.ready[BasePriority[h]]) = Range(s.ready[BasePriority[h]]) \cup {h}
    BY <1>2, <2>1, <2>5 DEF WakeEffect
  <2>8. u.waiters[g] = Keep(s.waiters[g], Task \ {h}) /\ Range(u.waiters[g]) = Range(s.waiters[g]) \ {h}
    BY <1>1, <1>2, <2>1, ZenonT(40) DEF WakeEffect
  <2>9. InLine(u) = InLine(s) \ {h}
    BY <2>8 DEF InLine, g
  <2>10. LineSorted(u)
    <3>1. Sorted(s.waiters[g], BasePriority) /\ InLine(s) \subseteq Workers
      BY DEF Sched, LineSorted, g
    <3>2. Sorted(u.waiters[g], BasePriority)
      BY <1>1, <2>8, <3>1, SortedKeep
    <3> QED
      BY <2>9, <3>1, <3>2 DEF LineSorted, g
  <2>11. \A x \in Task : u.state[x] = IF x = h THEN "READY" ELSE s.state[x]
    BY <1>1, <2>4, <2>6
  <2>12. u.bitmap = s.bitmap \cup {BasePriority[h]}
    BY <2>2, <2>5
  <2>13. Sched(u, h, t)
    <3>1. u \in Kernel /\ u.current = s.current
          /\ u.priority = [s.priority EXCEPT ![t] = BasePriority[t]]
      BY <2>6
    <3> QED
      BY <2>3, <2>4, <2>7, <2>9, <2>10, <2>11, <2>12, <3>1, HandoverKeeps, ZenonT(40)
  <2>14. /\ Range(u.delayed) \subseteq Range(s.delayed)
         /\ \A v \in WaitList : Range(u.waiters[v]) = Range(s.waiters[v]) \ {h}
         /\ u.last_wait_result = [s.last_wait_result EXCEPT ![h] = "OK"]
    BY <1>2, <2>1 DEF WakeEffect
  <2>15. \A x \in Task \ InLine(s) : /\ u.state[x] = s.state[x]
                                     /\ u.last_wait_result[x] = s.last_wait_result[x]
    <3>1. s.last_wait_result \in [Task -> WaitResult]
      BY DEF Kernel
    <3> QED
      BY <2>3, <2>11, <2>14, <3>1
  <2>16. u.state[t] = "RUNNING" /\ u.current = s.current
    BY <2>4, <2>6, <2>11
  <2> QED
    BY <1>6, <2>3, <2>13, <2>14, <2>15, <2>16 DEF h, g, GivenUp
<1> QED
  BY <1>5, <1>6

\* A tick wakes tasks that are in no line.
LEMMA TickSched ==
    ASSUME NEW s \in Kernel, NEW o, NEW c, Sched(s, o, c), ListedStates(s),
           \A x \in Range(s.delayed) : x \notin InLine(s),
           NEW u, u = scheduler_tick(s)
    PROVE  Sched(u, o, c)
<1> DEFINE D == DueSet(s)
           g == g_status_mutex
<1>1. TickEffect(s, D, u)
  BY TickFields
<1>2. u.bitmap = s.bitmap \cup {s.priority[x] : x \in D}
  BY TickBits
<1>3. /\ D \in SUBSET Task
      /\ \A x \in D : s.state[x] \notin {"READY", "RUNNING"} /\ x \notin InLine(s)
  BY ListTypes DEF DueSet, ListedStates
<1>4. g \in WaitList /\ s.waiters[g] \in Seq(Task)
  BY ListsDiffer, ListTypes
<1> HIDE DEF D
<1>5. /\ u \in Kernel /\ u.priority = s.priority /\ u.current = s.current
      /\ \A p \in Prio : Range(u.ready[p]) = Range(s.ready[p]) \cup {x \in D : s.priority[x] = p}
      /\ u.state = [x \in Task |-> IF x \in D THEN "READY" ELSE s.state[x]]
      /\ u.waiters[g] = Keep(s.waiters[g], Task \ D)
      /\ Range(u.waiters[g]) = Range(s.waiters[g]) \ D
  BY <1>1, <1>4 DEF TickEffect
<1>6. InLine(u) = InLine(s)
  BY <1>3, <1>5 DEF InLine
<1>7. LineSorted(u)
  <2>1. Sorted(u.waiters[g], BasePriority)
    BY <1>4, <1>5, SortedKeep DEF Sched, LineSorted
  <2> QED
    BY <1>6, <2>1 DEF Sched, LineSorted
<1>8. \A x \in Task : u.state[x] = IF x \in D THEN "READY" ELSE s.state[x]
  BY <1>5
<1>9. /\ u \in Kernel /\ u.priority = s.priority /\ u.current = s.current
      /\ \A p \in Prio : Range(u.ready[p]) = Range(s.ready[p]) \cup {x \in D : s.priority[x] = p}
  BY <1>5
<1>10. D \in SUBSET Task /\ \A x \in D : s.state[x] \notin {"READY", "RUNNING"}
  BY <1>3
<1> QED
  BY <1>2, <1>6, <1>7, <1>8, <1>9, <1>10, ReadiesKeep

\* main creates a task.
LEMMA CreateSched ==
    ASSUME NEW s \in Kernel, NEW o, NEW c, Sched(s, o, c), NEW t \in Task,
           s.state[t] = "UNCREATED", NEW u, u = add_ready(s, t)
    PROVE  Sched(u, o, c)
<1> DEFINE D == {t}
<1>1. AddReadyEffect(s, t, u)
  BY AddReadyFields
<1>2. u.bitmap = s.bitmap \cup {s.priority[t]}
  BY AddReadyBits
<1>3. /\ u \in Kernel /\ u.priority = s.priority /\ u.current = s.current /\ u.waiters = s.waiters
      /\ u.state = [s.state EXCEPT ![t] = "READY"]
      /\ Range(u.ready[s.priority[t]]) = Range(s.ready[s.priority[t]]) \cup {t}
      /\ \A p \in Prio \ {s.priority[t]} : u.ready[p] = s.ready[p]
  BY <1>1 DEF AddReadyEffect, SameTask
<1>4. \A p \in Prio : Range(u.ready[p]) = Range(s.ready[p]) \cup {x \in D : s.priority[x] = p}
  <2> TAKE p \in Prio
  <2>1. CASE p = s.priority[t]
    BY <1>3, <2>1
  <2>2. CASE p # s.priority[t]
    BY <1>3, <2>2
  <2> QED
    BY <2>1, <2>2
<1>5. u.bitmap = s.bitmap \cup {s.priority[x] : x \in D}
  BY <1>2
<1>6. \A x \in Task : u.state[x] = IF x \in D THEN "READY" ELSE s.state[x]
  <2>1. s.state \in [Task -> TaskState]
    BY DEF Kernel
  <2> QED
    BY <1>3, <2>1
<1>7. D \in SUBSET Task /\ \A x \in D : s.state[x] \notin {"READY", "RUNNING"}
  OBVIOUS
<1>8. InLine(u) = InLine(s) /\ LineSorted(u)
  BY <1>3 DEF InLine, LineSorted, Sched
<1>9. u \in Kernel /\ u.priority = s.priority /\ u.current = s.current
  BY <1>3
<1> HIDE DEF D
<1> QED
  BY <1>4, <1>5, <1>6, <1>7, <1>8, <1>9, ReadiesKeep

\* Sched is about the lists, the bits, the states, the priorities and the current task.
LEMMA SameSched ==
    ASSUME NEW s \in Kernel, NEW o, NEW c, Sched(s, o, c), NEW u \in Kernel,
           u.ready = s.ready, u.bitmap = s.bitmap, u.priority = s.priority,
           u.state = s.state, u.current = s.current, u.waiters = s.waiters
    PROVE  Sched(u, o, c)
<1> DEFINE D == {}
<1>2. \A p \in Prio : Range(u.ready[p]) = Range(s.ready[p]) \cup {x \in D : s.priority[x] = p}
  OBVIOUS
<1>3. u.bitmap = s.bitmap \cup {s.priority[x] : x \in D}
  OBVIOUS
<1>4. \A x \in Task : u.state[x] = IF x \in D THEN "READY" ELSE s.state[x]
  OBVIOUS
<1>5. D \in SUBSET Task /\ \A x \in D : s.state[x] \notin {"READY", "RUNNING"}
  OBVIOUS
<1>6. InLine(u) = InLine(s) /\ LineSorted(u)
  BY DEF InLine, LineSorted, Sched
<1> HIDE DEF D
<1> QED
  BY <1>2, <1>3, <1>4, <1>5, <1>6, ReadiesKeep

-----------------------------------------------------------------------------
(* Where the tasks are. *)

\* t is inside the blocking call at the top of its loop.
Waits(t) == at[t] = "wait" /\ InLock(t)

\* A task is in line for the mutex or about to leave it iff it blocked in one of the
\* calls that lock it; whoever holds it is in such a call and locked it once.
StatusCalls ==
    /\ at \in [Task -> Place]
    /\ \A t \in Task : wants[t] # NULL <=> InLock(t) /\ InStatusCall(t)
    /\ \A t \in Task : Holds(t) => InStatusCall(t) /\ held[t][g_status_mutex] = 1

\* Only LoggerTask sleeps, and outside blocking calls: no wait of the application
\* ends by a timeout.
OnlyLoggerSleeps ==
    \A t \in Range(k.delayed) : t = logger_tcb /\ ~ InLock(t)

\* Wait list w is for t alone, which is in it only while it is blocked in its call.
OwnList(w, t) ==
    \A x \in Range(k.waiters[w]) : x = t /\ Waits(x) /\ k.state[x] = "BLOCKED"

OwnLists ==
    /\ OwnList(g_fault_semaphore, protection_tcb)
    /\ OwnList(adc_rx, control_tcb)
    /\ OwnList(uart_rx, comms_tcb)
    /\ Range(k.waiters[adc_tx]) = {} /\ Range(k.waiters[uart_tx]) = {}

\* CoreInv: what tasks, mutex and lists owe each other.
CoreInv == LockInv /\ RunInv /\ StatusCalls /\ OnlyLoggerSleeps /\ OwnLists

\* A step leaves wait list w, and t as far as it waits there, alone.
CalmFor(w, t) ==
    /\ Range(k'.waiters[w]) = Range(k.waiters[w])
    /\ Waits(t)' <=> Waits(t)
    /\ Waits(t) => /\ k'.state[t] = "BLOCKED" <=> k.state[t] = "BLOCKED"
                   /\ k'.last_wait_result[t] = k.last_wait_result[t]

Calm ==
    /\ CalmFor(g_fault_semaphore, protection_tcb)
    /\ CalmFor(adc_rx, control_tcb)
    /\ CalmFor(uart_rx, comms_tcb)
    /\ Range(k'.waiters[adc_tx]) = Range(k.waiters[adc_tx])
    /\ Range(k'.waiters[uart_tx]) = Range(k.waiters[uart_tx])

\* So it keeps the list to its task.
LEMMA CalmKeeps ==
    ASSUME NEW w, NEW t, OwnList(w, t), CalmFor(w, t)
    PROVE  OwnList(w, t)'
<1>1. \A x \in Range(k'.waiters[w]) : x = t /\ Waits(x) /\ k.state[x] = "BLOCKED"
  BY DEF OwnList, CalmFor
<1>2. Waits(t) /\ k.state[t] = "BLOCKED" => Waits(t)' /\ k'.state[t] = "BLOCKED"
  BY DEF CalmFor
<1> QED
  BY <1>1, <1>2 DEF OwnList

\* If it is calm for all lists it keeps them all.
LEMMA CalmLists ==
    ASSUME OwnLists, Calm
    PROVE  OwnLists'
<1>1. /\ OwnList(g_fault_semaphore, protection_tcb)' /\ OwnList(adc_rx, control_tcb)'
      /\ OwnList(uart_rx, comms_tcb)'
  BY CalmKeeps DEF OwnLists, Calm
<1> QED
  BY <1>1 DEF OwnLists, Calm

AppLists == {g_status_mutex, g_fault_semaphore, adc_rx, adc_tx, uart_rx, uart_tx}

\* The task that executes is in no list.
LEMMA CallerFacts ==
    ASSUME CoreInv, NEW t \in Task, Executes(t), pc[t] \in {"app", "wake"}
    PROVE  /\ k \in Kernel /\ pc \in [Task -> PcLabel] /\ at \in [Task -> Place]
           /\ k.state[t] = "RUNNING" /\ k.current = t /\ ~ k.pendsv
           /\ Sched(k, owner[g_status_mutex], NULL)
           /\ \A w \in AppLists : t \notin Range(k.waiters[w])
           /\ t \notin Range(k.delayed)
           /\ \A p \in Prio : t \notin Range(k.ready[p])
<1>1. /\ k.state[t] = "RUNNING" /\ k.current = t /\ ~ k.pendsv
      /\ Sched(k, owner[g_status_mutex], NULL)
  BY Running DEF CoreInv
<1>2. t \notin Range(k.delayed) /\ \A p \in Prio : t \notin Range(k.ready[p])
  BY <1>1 DEF CoreInv, LockInv, ListedStates
<1>3. t \notin Range(k.waiters[g_status_mutex])
  BY <1>1, ListsDiffer DEF CoreInv, LockInv, WaitersInLock
<1>4. \A w \in AppLists \ {g_status_mutex} : t \notin Range(k.waiters[w])
  BY <1>1 DEF CoreInv, OwnLists, OwnList, AppLists
<1> QED
  BY <1>1, <1>2, <1>3, <1>4 DEF CoreInv, LockInv, MutexTypeOK, TypeOK, StatusCalls

\* A task that calls from outside the status functions does not own the mutex.
LEMMA CallerOwnsNot ==
    ASSUME CoreInv, NEW t \in Task, Calls(t), ~ Holds(t)
    PROVE  owner[g_status_mutex] # t /\ wants[t] = NULL /\ ~ InLock(t)
BY OwnersKnow, ListsDiffer DEF CoreInv, Calls, Holds

\* A task at the top of its loop blocks there.
LEMMA EventBlocks ==
    ASSUME CoreInv, NEW t \in Workers, Calls(t), at[t] = "wait",
           NEW w \in AppLists \ {g_status_mutex}, k' = block(k, w, t, WAIT_FOREVER),
           pc' = [pc EXCEPT ![t] = "block"], UNCHANGED mutexState,
           at'[t] = "wait", \A x \in Task \ {t} : at'[x] = at[x], at' \in [Task -> Place]
    PROVE  /\ LockInv' /\ RunInv' /\ StatusCalls' /\ OnlyLoggerSleeps'
           /\ Range(k'.waiters[w]) = Range(k.waiters[w]) \cup {t}
           /\ \A v \in AppLists \ {w} : Range(k'.waiters[v]) = Range(k.waiters[v])
           /\ Waits(t)' /\ k'.state[t] = "BLOCKED"
           /\ \A x \in Task \ {t} : /\ Waits(x)' <=> Waits(x)
                                    /\ k'.state[x] = k.state[x]
                                    /\ k'.last_wait_result[x] = k.last_wait_result[x]
<1> DEFINE g == g_status_mutex
<1>1. /\ t \in Task /\ Executes(t) /\ pc[t] = "app" /\ t # Idle
      /\ owner' = owner /\ lock_count' = lock_count /\ held' = held /\ wants' = wants
  BY WorkersDiffer DEF Calls, mutexState
<1>2. /\ k \in Kernel /\ pc \in [Task -> PcLabel] /\ at \in [Task -> Place]
      /\ k.state[t] = "RUNNING" /\ k.current = t
      /\ Sched(k, owner[g], NULL)
      /\ \A v \in AppLists : t \notin Range(k.waiters[v])
      /\ k.state \in [Task -> TaskState]
  BY <1>1, CallerFacts DEF Kernel
<1>3. ~ Holds(t)
  BY <1>1 DEF CoreInv, StatusCalls, InStatusCall
<1>4. owner[g] # t /\ wants[t] = NULL /\ ~ InLock(t)
  BY <1>1, <1>3, CallerOwnsNot
<1>5. w \in WaitList \ {g} /\ AppLists \subseteq WaitList /\ mutexes = {g} /\ g \in AppLists
  BY ListsDiffer DEF AppLists
<1>6. BlockEffect(k, w, t, WAIT_FOREVER, k')
  BY <1>1, <1>2, <1>5, BlockFields, ForeverIsTime
<1>7. Sched(k', owner[g], NULL)
  BY <1>1, <1>2, <1>4, <1>5, BlockSched
<1>8. /\ k' \in Kernel /\ Range(k'.waiters[w]) = Range(k.waiters[w]) \cup {t}
      /\ \A v \in AppLists \ {w} : k'.waiters[v] = k.waiters[v]
      /\ \A p \in Prio : Range(k'.ready[p]) = Range(k.ready[p]) \ {t}
      /\ Range(k'.delayed) = Range(k.delayed) \ {t}
      /\ k'.state = [k.state EXCEPT ![t] = "BLOCKED"]
      /\ k'.last_wait_result = k.last_wait_result
      /\ k'.priority = k.priority /\ k'.current = k.current
  BY <1>5, <1>6 DEF BlockEffect, SameTask
<1>9. /\ pc'[t] = "block" /\ \A x \in Task \ {t} : pc'[x] = pc[x]
      /\ pc' \in [Task -> PcLabel]
  BY <1>1, <1>2 DEF PcLabel
<1>10. InLock(t)' /\ \A x \in Task \ {t} : InLock(x)' <=> InLock(x)
  BY <1>9 DEF InLock
<1>11. k'.state[t] = "BLOCKED" /\ \A x \in Task \ {t} : k'.state[x] = k.state[x]
  BY <1>1, <1>2, <1>8
<1>12. Waits(t)' /\ \A x \in Task \ {t} : Waits(x)' <=> Waits(x)
  BY <1>10 DEF Waits
<1>13. ListedStates(k')
  <2>1. Range(k.delayed) \subseteq Task /\ \A p \in Prio : Range(k.ready[p]) \subseteq Task
    BY <1>2, ListTypes
  <2> QED
    BY <1>8, <1>11, <2>1 DEF CoreInv, LockInv, ListedStates
<1>14. OutsideStep
  <2>1. k'.waiters[g] = k.waiters[g]
    BY <1>5, <1>8
  <2>2. \A x \in Range(k.waiters[g]) : x \in Task \ {t} /\ k.state[x] = "BLOCKED"
    BY <1>2, <1>5, ListTypes DEF CoreInv, LockInv, WaitersInLock
  <2>3. \A x \in Task : wants[x] # NULL => x # t /\ InLock(x)
    BY <1>4 DEF CoreInv, StatusCalls
  <2> QED
    BY <1>5, <1>8, <1>9, <1>10, <1>11, <1>13, <2>1, <2>2, <2>3 DEF OutsideStep
<1>15. LockInv'
  BY <1>14, OutsideKeeps DEF CoreInv
<1>16. RunInv'
  BY <1>1, <1>2, <1>7, <1>8, <1>9, GoesAway
<1>17. StatusCalls'
  <2>1. \A x \in Task : Holds(x)' <=> Holds(x)
    BY <1>1 DEF Holds
  <2>2. \A x \in Task \ {t} : InStatusCall(x)' <=> InStatusCall(x)
    BY DEF InStatusCall
  <2>3. ~ InStatusCall(t)'
    BY DEF InStatusCall
  <2> QED
    BY <1>1, <1>3, <1>4, <1>10, <2>1, <2>2, <2>3 DEF CoreInv, StatusCalls
<1>18. OnlyLoggerSleeps'
  <2>1. Range(k.delayed) \subseteq Task
    BY <1>2, ListTypes
  <2> QED
    BY <1>8, <1>10, <2>1 DEF CoreInv, OnlyLoggerSleeps
<1> QED
  BY <1>8, <1>11, <1>12, <1>15, <1>16, <1>17, <1>18

\* A call returns behind its switch.
LEMMA EventResumes ==
    ASSUME CoreInv, NEW t \in Workers, Executes(t), pc[t] = "wake", at[t] = "wait",
           k' = UnlinkEvent(k, t), pc' = [pc EXCEPT ![t] = "app"], UNCHANGED mutexState,
           \A x \in Task \ {t} : at'[x] = at[x], at' \in [Task -> Place]
    PROVE  /\ LockInv' /\ RunInv' /\ StatusCalls' /\ OnlyLoggerSleeps'
           /\ \A v \in AppLists : Range(k'.waiters[v]) = Range(k.waiters[v])
           /\ ~ Waits(t)' /\ Waits(t)
           /\ \A v \in AppLists : t \notin Range(k.waiters[v])
           /\ k.state[t] = "RUNNING"
           /\ \A x \in Task \ {t} : /\ Waits(x)' <=> Waits(x)
                                    /\ k'.state[x] = k.state[x]
                                    /\ k'.last_wait_result[x] = k.last_wait_result[x]
<1> DEFINE g == g_status_mutex
<1>1. /\ t \in Task
      /\ owner' = owner /\ lock_count' = lock_count /\ held' = held /\ wants' = wants
  BY WorkersDiffer DEF mutexState
<1>2. /\ k \in Kernel /\ pc \in [Task -> PcLabel] /\ at \in [Task -> Place]
      /\ k.state[t] = "RUNNING" /\ k.current = t
      /\ Sched(k, owner[g], NULL)
      /\ \A v \in AppLists : t \notin Range(k.waiters[v])
  BY <1>1, CallerFacts
<1>3. ~ InStatusCall(t) /\ InLock(t) /\ wants[t] = NULL /\ ~ Holds(t)
  BY <1>1 DEF InLock, InStatusCall, CoreInv, StatusCalls
<1>5. AppLists \subseteq WaitList /\ mutexes = {g} /\ g \in AppLists
  BY ListsDiffer DEF AppLists
<1>6. UnlinkEventEffect(k, t, k')
  BY <1>1, <1>2, UnlinkEventFields
<1>7. /\ k' \in Kernel /\ k'.ready = k.ready /\ k'.delayed = k.delayed
      /\ k'.state = k.state /\ k'.last_wait_result = k.last_wait_result
      /\ k'.priority = k.priority /\ k'.current = k.current /\ k'.pendsv = k.pendsv
      /\ \A v \in AppLists : Range(k'.waiters[v]) = Range(k.waiters[v]) \ {t}
  BY <1>5, <1>6 DEF UnlinkEventEffect, SameTask
<1>8. \A v \in AppLists : Range(k'.waiters[v]) = Range(k.waiters[v])
  BY <1>2, <1>7, ZenonT(40)
<1>9. Sched(k', owner[g], NULL)
  BY <1>1, <1>2, <1>5, UnlinkSched DEF InLine
<1>10. /\ pc'[t] = "app" /\ \A x \in Task \ {t} : pc'[x] = pc[x]
       /\ pc' \in [Task -> PcLabel]
  BY <1>1, <1>2 DEF PcLabel
<1>11. ~ InLock(t)' /\ \A x \in Task \ {t} : InLock(x)' <=> InLock(x)
  BY <1>10 DEF InLock
<1>12. Waits(t) /\ ~ Waits(t)' /\ \A x \in Task \ {t} : Waits(x)' <=> Waits(x)
  BY <1>3, <1>11 DEF Waits
<1>13. OutsideStep
  <2>1. ListedStates(k')
    BY <1>7 DEF CoreInv, LockInv, ListedStates
  <2>2. \A x \in Range(k.waiters[g]) : k.state[x] = "BLOCKED"
    BY <1>5 DEF CoreInv, LockInv, WaitersInLock
  <2>3. \A x \in Task : wants[x] # NULL => x # t /\ InLock(x)
    BY <1>3 DEF CoreInv, StatusCalls
  <2> QED
    BY <1>5, <1>7, <1>8, <1>10, <1>11, <2>1, <2>2, <2>3 DEF OutsideStep
<1>14. LockInv'
  BY <1>13, OutsideKeeps DEF CoreInv
<1>15. RunInv'
  BY <1>1, <1>7, <1>9, <1>10, GoesOn DEF CoreInv
<1>16. StatusCalls'
  <2>1. \A x \in Task : Holds(x)' <=> Holds(x)
    BY <1>1 DEF Holds
  <2>2. \A x \in Task \ {t} : InStatusCall(x)' <=> InStatusCall(x)
    BY DEF InStatusCall
  <2> QED
    BY <1>1, <1>3, <1>11, <2>1, <2>2 DEF CoreInv, StatusCalls
<1>17. OnlyLoggerSleeps'
  <2>1. Range(k.delayed) \subseteq Task
    BY <1>2, ListTypes
  <2> QED
    BY <1>7, <1>11, <2>1 DEF CoreInv, OnlyLoggerSleeps
<1> QED
  BY <1>2, <1>7, <1>8, <1>12, <1>14, <1>15, <1>16, <1>17

-----------------------------------------------------------------------------
(* Steps outside the kernel, and of the mutex. *)

\* A task that calls nothing, or a call that returns at once: the loop moves on.
LEMMA MovesOn ==
    ASSUME CoreInv, NEW t \in Task, Calls(t), ~ InStatusCall(t),
           k' = k, pc' = pc, UNCHANGED mutexState,
           \A x \in Task \ {t} : at'[x] = at[x], at' \in [Task -> Place]
    PROVE  CoreInv' /\ Calm
<1>1. /\ owner' = owner /\ lock_count' = lock_count /\ held' = held /\ wants' = wants
  BY DEF mutexState
<1>2. ~ Holds(t)
  BY DEF CoreInv, StatusCalls
<1>3. wants[t] = NULL /\ ~ InLock(t)
  BY <1>2, CallerOwnsNot
<1>4. \A x \in Task : (InLock(x)' <=> InLock(x)) /\ (Holds(x)' <=> Holds(x))
  BY <1>1 DEF InLock, Holds
<1>5. \A x \in Task : Waits(x)' <=> Waits(x)
  BY <1>3, <1>4 DEF Waits
<1>6. LockInv' /\ RunInv'
  BY <1>1 DEF CoreInv, LockInv, RunInv, MutexTypeOK, TypeOK, Exclusive, HandedToWaiter,
     NoWaitForFree, BoostEnds, CountedOwned, WaitersInLock, WantsInLock, InLock,
     RunsRunning, WokenPreempts, Executes, Leaving
<1>7. StatusCalls'
  <2>1. \A x \in Task \ {t} : InStatusCall(x)' <=> InStatusCall(x)
    BY DEF InStatusCall
  <2> QED
    BY <1>1, <1>2, <1>3, <1>4, <2>1 DEF CoreInv, StatusCalls
<1>8. OnlyLoggerSleeps'
  <2>1. Range(k.delayed) \subseteq Task
    BY ListTypes DEF CoreInv, LockInv, MutexTypeOK, TypeOK
  <2> QED
    BY <1>4, <2>1 DEF CoreInv, OnlyLoggerSleeps
<1>9. Calm
  BY <1>5, WorkersDiffer DEF Calm, CalmFor, Workers
<1>10. OwnLists'
  BY <1>9, CalmLists DEF CoreInv
<1> QED
  BY <1>6, <1>7, <1>8, <1>9, <1>10 DEF CoreInv

\* LoggerTask goes to sleep.
LEMMA LoggerSleeps ==
    ASSUME CoreInv, NEW t \in Workers, t = logger_tcb, Calls(t), at[t] = "wait",
           NEW wake \in TickCount, k' = block_current_delay(k, t, wake),
           pc' = [pc EXCEPT ![t] = "switch"], UNCHANGED mutexState,
           \A x \in Task \ {t} : at'[x] = at[x], at' \in [Task -> Place]
    PROVE  CoreInv' /\ Calm
<1> DEFINE g == g_status_mutex
<1>1. /\ t \in Task /\ Executes(t) /\ pc[t] = "app" /\ t # Idle
      /\ owner' = owner /\ lock_count' = lock_count /\ held' = held /\ wants' = wants
  BY WorkersDiffer DEF Calls, mutexState
<1>2. /\ k \in Kernel /\ pc \in [Task -> PcLabel] /\ at \in [Task -> Place]
      /\ k.state[t] = "RUNNING" /\ k.current = t
      /\ Sched(k, owner[g], NULL)
      /\ k.state \in [Task -> TaskState]
  BY <1>1, CallerFacts DEF Kernel
<1>3. ~ Holds(t) /\ ~ InStatusCall(t)
  BY <1>1 DEF CoreInv, StatusCalls, InStatusCall
<1>4. owner[g] # t /\ wants[t] = NULL /\ ~ InLock(t)
  BY <1>1, <1>3, CallerOwnsNot
<1>5. mutexes = {g}
  BY ListsDiffer
<1>6. DelayEffect(k, t, wake, k')
  BY <1>1, <1>2, DelayFields
<1>7. Sched(k', owner[g], NULL)
  BY <1>1, <1>2, <1>4, DelaySched
<1>8. /\ k' \in Kernel /\ k'.waiters = k.waiters
      /\ \A p \in Prio : Range(k'.ready[p]) = Range(k.ready[p]) \ {t}
      /\ Range(k'.delayed) = Range(k.delayed) \cup {t}
      /\ k'.state = [k.state EXCEPT ![t] = "BLOCKED"]
      /\ k'.last_wait_result = k.last_wait_result
      /\ k'.priority = k.priority /\ k'.current = k.current
  BY <1>6 DEF DelayEffect, SameTask
<1>9. /\ pc'[t] = "switch" /\ \A x \in Task \ {t} : pc'[x] = pc[x]
      /\ pc' \in [Task -> PcLabel]
  BY <1>1, <1>2 DEF PcLabel
<1>10. \A x \in Task : InLock(x)' <=> InLock(x)
  BY <1>4, <1>9 DEF InLock
<1>11. k'.state[t] = "BLOCKED" /\ \A x \in Task \ {t} : k'.state[x] = k.state[x]
  BY <1>1, <1>2, <1>8
<1>12. \A x \in Task : (Waits(x)' <=> Waits(x)) /\ (Waits(x) => x # t)
  BY <1>4, <1>10 DEF Waits
<1>13. Range(k.delayed) \subseteq Task /\ \A p \in Prio : Range(k.ready[p]) \subseteq Task
  BY <1>2, ListTypes
<1>14. ListedStates(k')
  BY <1>8, <1>11, <1>13 DEF CoreInv, LockInv, ListedStates
<1>15. OutsideStep
  <2>1. \A x \in Range(k.waiters[g]) : x \in Task \ {t} /\ k.state[x] = "BLOCKED"
    BY <1>2, <1>5, ListTypes, ListsDiffer DEF CoreInv, LockInv, WaitersInLock
  <2>2. \A x \in Task : wants[x] # NULL => x # t /\ InLock(x)
    BY <1>4 DEF CoreInv, StatusCalls
  <2> QED
    BY <1>5, <1>8, <1>9, <1>10, <1>11, <1>14, <2>1, <2>2 DEF OutsideStep
<1>16. LockInv'
  BY <1>15, OutsideKeeps DEF CoreInv
<1>17. RunInv'
  BY <1>1, <1>2, <1>7, <1>8, <1>9, GoesAway
<1>18. StatusCalls'
  <2>1. \A x \in Task : Holds(x)' <=> Holds(x)
    BY <1>1 DEF Holds
  <2>2. \A x \in Task \ {t} : InStatusCall(x)' <=> InStatusCall(x)
    BY DEF InStatusCall
  <2> QED
    BY <1>1, <1>3, <1>4, <1>10, <2>1, <2>2 DEF CoreInv, StatusCalls
<1>19. OnlyLoggerSleeps'
  BY <1>1, <1>4, <1>8, <1>10, <1>13 DEF CoreInv, OnlyLoggerSleeps
<1>20. Calm
  BY <1>8, <1>11, <1>12, WorkersDiffer DEF Calm, CalmFor, Workers
<1>21. OwnLists'
  BY <1>20, CalmLists DEF CoreInv
<1> QED
  BY <1>16, <1>17, <1>18, <1>19, <1>20, <1>21 DEF CoreInv

\* A lock that waits: the caller gets in line.
LEMMA StatusBlocks ==
    ASSUME CoreInv, NEW t \in Workers, InStatusCall(t), ~ Holds(t),
           lock_block(t, g_status_mutex, WAIT_FOREVER), UNCHANGED at
    PROVE  CoreInv' /\ Calm
<1> DEFINE g == g_status_mutex
           o == owner[g]
           b == boost(k, o, t)
<1>1. /\ t \in Task /\ Executes(t) /\ pc[t] = "app" /\ t # Idle /\ Calls(t)
      /\ o \notin {NULL, t} /\ k' = block(b, g, t, WAIT_FOREVER)
      /\ pc' = [pc EXCEPT ![t] = "block"] /\ wants' = [wants EXCEPT ![t] = g]
      /\ owner' = owner /\ lock_count' = lock_count /\ held' = held
  BY WorkersDiffer DEF lock_block, Calls, block
<1>2. /\ k \in Kernel /\ pc \in [Task -> PcLabel] /\ at \in [Task -> Place]
      /\ k.state[t] = "RUNNING" /\ k.current = t
      /\ Sched(k, o, NULL)
      /\ k.state \in [Task -> TaskState]
  BY <1>1, CallerFacts DEF Kernel
<1>3. wants[t] = NULL /\ ~ InLock(t)
  BY <1>1, CallerOwnsNot
<1>4. g \in mutexes /\ mutexes = {g} /\ AppLists \subseteq WaitList /\ g \in AppLists
      /\ WAIT_FOREVER \in TickCount /\ g # NULL
  BY ListsDiffer, ForeverIsTime, MutexAssumption DEF AppLists
<1>5. o \in Task /\ o \notin InLine(k) /\ wants \in [Task -> mutexes \cup {NULL}]
  <2>1. o \in Task /\ wants \in [Task -> mutexes \cup {NULL}]
    BY <1>1, <1>4 DEF CoreInv, LockInv, MutexTypeOK
  <2>2. o \notin Range(k.waiters[g])
    BY <1>4 DEF CoreInv, LockInv, WaitersInLock
  <2> QED
    BY <2>1, <2>2 DEF InLine
<1>6. LockInv'
  BY <1>1, <1>4, LockBlockKeeps DEF CoreInv
<1>7. Sched(k', o, NULL)
  BY <1>1, <1>2, <1>5, LockSched
<1>8. b \in Kernel /\ b.delayed = k.delayed /\ b.waiters = k.waiters /\ b.state = k.state
      /\ b.last_wait_result = k.last_wait_result
  BY <1>1, <1>2, <1>5, BoostFields
<1> HIDE DEF b
<1>9. BlockEffect(b, g, t, WAIT_FOREVER, k')
  BY <1>1, <1>4, <1>8, BlockFields
<1>91. b.current = k.current
  <2>1. b = k \/ b = [k EXCEPT !.priority[o] = k.priority[t]]
    BY DEF b, boost
  <2> QED
    BY <1>2, <2>1 DEF Kernel
<1>10. /\ \A v \in AppLists \ {g} : k'.waiters[v] = k.waiters[v]
       /\ Range(k'.delayed) = Range(k.delayed) \ {t}
       /\ k'.state = [k.state EXCEPT ![t] = "BLOCKED"]
       /\ k'.last_wait_result = k.last_wait_result
       /\ k'.current = k.current
  BY <1>4, <1>8, <1>9, <1>91 DEF BlockEffect, SameTask
<1>11. /\ pc'[t] = "block" /\ \A x \in Task \ {t} : pc'[x] = pc[x]
       /\ wants'[t] = g /\ \A x \in Task \ {t} : wants'[x] = wants[x]
  BY <1>1, <1>2, <1>5
<1>12. InLock(t)' /\ \A x \in Task \ {t} : InLock(x)' <=> InLock(x)
  BY <1>11 DEF InLock
<1>13. \A x \in Task \ {t} : k'.state[x] = k.state[x]
  BY <1>1, <1>2, <1>10
<1>14. \A x \in Task : (Waits(x)' <=> Waits(x)) /\ (Waits(x) => x # t)
  BY <1>12 DEF Waits, InStatusCall
<1>15. RunInv'
  BY <1>1, <1>2, <1>7, <1>10, <1>11, GoesAway
<1>16. StatusCalls'
  <2>1. \A x \in Task : (Holds(x)' <=> Holds(x)) /\ (InStatusCall(x)' <=> InStatusCall(x))
    BY <1>1 DEF Holds, InStatusCall
  <2> QED
    BY <1>1, <1>4, <1>11, <1>12, <2>1 DEF CoreInv, StatusCalls
<1>17. OnlyLoggerSleeps'
  <2>1. Range(k.delayed) \subseteq Task
    BY <1>2, ListTypes
  <2> QED
    BY <1>10, <1>12, <2>1 DEF CoreInv, OnlyLoggerSleeps
<1>18. Calm
  <2>1. {g_fault_semaphore, adc_rx, adc_tx, uart_rx, uart_tx} \subseteq AppLists \ {g}
    BY ListsDiffer DEF AppLists
  <2>2. {protection_tcb, control_tcb, comms_tcb} \subseteq Task
    BY WorkersDiffer DEF Workers
  <2> QED
    BY <1>10, <1>13, <1>14, <2>1, <2>2 DEF Calm, CalmFor
<1>19. OwnLists'
  BY <1>18, CalmLists DEF CoreInv
<1> QED
  BY <1>6, <1>15, <1>16, <1>17, <1>18, <1>19 DEF CoreInv

\* A lock of the free mutex.
LEMMA StatusLocks ==
    ASSUME CoreInv, NEW t \in Workers, InStatusCall(t), ~ Holds(t),
           lock_now(t, g_status_mutex), UNCHANGED at
    PROVE  CoreInv' /\ Calm
<1> DEFINE g == g_status_mutex
<1>1. /\ t \in Task /\ Executes(t) /\ pc[t] = "app" /\ Calls(t)
      /\ k' = k /\ pc' = pc /\ wants' = wants
      /\ owner' = [owner EXCEPT ![g] = t]
      /\ held' = [held EXCEPT ![t][g] = held[t][g] + 1]
      /\ owner[g] = NULL \/ owner[g] = t
  BY WorkersDiffer DEF lock_now, Calls
<1>2. /\ k \in Kernel /\ k.state[t] = "RUNNING" /\ k.current = t
      /\ Sched(k, owner[g], NULL)
  BY <1>1, CallerFacts
<1>3. owner[g] = NULL
  BY <1>1, CallerOwnsNot
<1>4. /\ mutexes = {g} /\ owner \in [mutexes -> Task \cup {NULL}]
      /\ held \in [Task -> [mutexes -> 0 .. MaxDepth]] /\ MaxDepth \in Nat
  BY ListsDiffer, MutexAssumption DEF CoreInv, LockInv, MutexTypeOK
<1>5. held[t][g] = 0
  BY <1>1, <1>4 DEF Holds
<1>6. /\ owner'[g] = t /\ held'[t][g] = 1
      /\ \A x \in Task \ {t} : held'[x] = held[x]
  BY <1>1, <1>4, <1>5
<1>7. LockInv'
  BY <1>1, <1>4, LockNowKeeps DEF CoreInv
<1>8. Sched(k', owner'[g], NULL)
  BY <1>1, <1>2, <1>3, <1>6, TakeKeeps
<1>9. RunInv'
  BY <1>1, <1>8, GoesOn DEF CoreInv
<1>11. StatusCalls'
  <2>1. \A x \in Task : (wants'[x] # NULL) <=> (InLock(x)' /\ InStatusCall(x)')
    BY <1>1 DEF CoreInv, StatusCalls, InLock, InStatusCall
  <2>2. \A x \in Task : Holds(x)' => InStatusCall(x)' /\ held'[x][g] = 1
    BY <1>6 DEF CoreInv, StatusCalls, InStatusCall, Holds
  <2> QED
    BY <2>1, <2>2 DEF CoreInv, StatusCalls
<1>12. OnlyLoggerSleeps'
  BY <1>1 DEF CoreInv, OnlyLoggerSleeps, InLock
<1>13. Calm
  BY <1>1 DEF Calm, CalmFor, Waits, InLock
<1>14. OwnLists'
  BY <1>13, CalmLists DEF CoreInv
<1> QED
  BY <1>7, <1>9, <1>11, <1>12, <1>13, <1>14 DEF CoreInv

\* A lock that returns from its wait.
LEMMA StatusResumes ==
    ASSUME CoreInv, NEW t \in Workers, InStatusCall(t), ~ Holds(t),
           lock_resumed(t), UNCHANGED at
    PROVE  CoreInv' /\ Calm
<1> DEFINE g == g_status_mutex
<1>1. /\ t \in Task /\ Executes(t) /\ pc[t] = "wake" /\ InLock(t)
      /\ pc' = [pc EXCEPT ![t] = "app"] /\ wants' = [wants EXCEPT ![t] = NULL]
      /\ owner' = owner /\ lock_count' = lock_count
  BY WorkersDiffer DEF lock_resumed, InLock
<1>2. /\ k \in Kernel /\ pc \in [Task -> PcLabel] /\ k.state[t] = "RUNNING" /\ k.current = t
      /\ Sched(k, owner[g], NULL)
      /\ \A v \in AppLists : t \notin Range(k.waiters[v])
  BY <1>1, CallerFacts
<1>3. /\ mutexes = {g} /\ AppLists \subseteq WaitList /\ g \in AppLists
      /\ owner \in [mutexes -> Task \cup {NULL}]
      /\ held \in [Task -> [mutexes -> 0 .. MaxDepth]] /\ MaxDepth \in Nat
      /\ wants \in [Task -> mutexes \cup {NULL}]
  BY ListsDiffer, MutexAssumption DEF CoreInv, LockInv, MutexTypeOK, AppLists
<1>4. wants[t] = g /\ wants[t] # NULL
  BY <1>1, <1>3 DEF CoreInv, StatusCalls
<1>5. LockInv'
  BY <1>1, <1>4, LockResumedKeeps DEF CoreInv
<1>6. /\ k' \in Kernel /\ k'.ready = k.ready /\ k'.delayed = k.delayed
      /\ k'.state = k.state /\ k'.last_wait_result = k.last_wait_result
      /\ k'.priority = k.priority /\ k'.current = k.current /\ k'.pendsv = k.pendsv
      /\ \A v \in AppLists : Range(k'.waiters[v]) = Range(k.waiters[v])
      /\ Sched(k', owner[g], NULL)
      /\ held'[t][g] <= 1
      /\ \A x \in Task \ {t} : held'[x] = held[x]
  <2>1. held[t][g] = 0
    BY <1>1, <1>3 DEF Holds
  <2>2. CASE owner[g] = t
    <3>1. k' = k /\ held' = [held EXCEPT ![t][g] = held[t][g] + 1]
      BY <1>4, <2>2 DEF lock_resumed
    <3> QED
      BY <1>1, <1>2, <1>3, <2>1, <3>1
  <2>3. CASE owner[g] # t
    <3>1. k' = UnlinkEvent(k, t) /\ held' = held
      BY <1>4, <2>3 DEF lock_resumed
    <3>2. UnlinkEventEffect(k, t, k')
      BY <1>1, <1>2, <3>1, UnlinkEventFields
    <3>3. /\ k' \in Kernel /\ k'.ready = k.ready /\ k'.delayed = k.delayed
          /\ k'.state = k.state /\ k'.last_wait_result = k.last_wait_result
          /\ k'.priority = k.priority /\ k'.current = k.current /\ k'.pendsv = k.pendsv
          /\ \A v \in AppLists : Range(k'.waiters[v]) = Range(k.waiters[v]) \ {t}
      BY <1>3, <3>2 DEF UnlinkEventEffect, SameTask
    <3>4. \A v \in AppLists : Range(k'.waiters[v]) = Range(k.waiters[v])
      BY <1>2, <3>3
    <3>5. Sched(k', owner[g], NULL)
      BY <1>1, <1>2, <1>3, <3>1, UnlinkSched DEF InLine
    <3> QED
      BY <2>1, <3>1, <3>3, <3>4, <3>5
  <2> QED
    BY <2>2, <2>3
<1>7. /\ pc'[t] = "app" /\ \A x \in Task \ {t} : pc'[x] = pc[x]
      /\ wants'[t] = NULL /\ \A x \in Task \ {t} : wants'[x] = wants[x]
  BY <1>1, <1>2, <1>3
<1>8. ~ InLock(t)' /\ \A x \in Task \ {t} : InLock(x)' <=> InLock(x)
  BY <1>7 DEF InLock
<1>9. RunInv'
  BY <1>1, <1>6, <1>7, GoesOn DEF CoreInv
<1>10. \A x \in Task : (InStatusCall(x)' <=> InStatusCall(x)) /\ (Waits(x)' <=> Waits(x))
  <2>1. \A x \in Task : InStatusCall(x)' <=> InStatusCall(x)
    BY DEF InStatusCall
  <2>2. ~ Waits(t) /\ ~ Waits(t)'
    BY DEF Waits, InStatusCall
  <2>3. \A x \in Task \ {t} : Waits(x)' <=> Waits(x)
    BY <1>8 DEF Waits
  <2> QED
    BY <2>1, <2>2, <2>3
<1>11. StatusCalls'
  <2>1. \A x \in Task : (wants'[x] # NULL) <=> (InLock(x)' /\ InStatusCall(x)')
    BY <1>7, <1>8, <1>10 DEF CoreInv, StatusCalls
  <2>2. \A x \in Task \ {t} : Holds(x)' => InStatusCall(x)' /\ held'[x][g] = 1
    BY <1>6, <1>10 DEF CoreInv, StatusCalls, Holds
  <2>3. Holds(t)' => InStatusCall(t)' /\ held'[t][g] = 1
    <3>1. held'[t][g] \in Nat
      BY <1>1, <1>3, <1>5 DEF LockInv, MutexTypeOK
    <3> QED
      BY <1>1, <1>6, <1>10, <3>1 DEF Holds
  <2> QED
    BY <2>1, <2>2, <2>3 DEF CoreInv, StatusCalls
<1>12. OnlyLoggerSleeps'
  <2>1. Range(k.delayed) \subseteq Task
    BY <1>2, ListTypes
  <2> QED
    BY <1>6, <1>8, <2>1 DEF CoreInv, OnlyLoggerSleeps
<1>13. Calm
  <2>1. {g_fault_semaphore, adc_rx, adc_tx, uart_rx, uart_tx} \subseteq AppLists
    BY DEF AppLists
  <2>2. {protection_tcb, control_tcb, comms_tcb} \subseteq Task
    BY WorkersDiffer DEF Workers
  <2> QED
    BY <1>6, <1>10, <2>1, <2>2 DEF Calm, CalmFor
<1>14. OwnLists'
  BY <1>13, CalmLists DEF CoreInv
<1> QED
  BY <1>5, <1>9, <1>11, <1>12, <1>13, <1>14 DEF CoreInv

\* A call of one of the status functions.
LEMMA StatusCallKeeps ==
    ASSUME CoreInv, NEW t \in Workers, lock_status(t)
    PROVE  CoreInv' /\ Calm
BY StatusLocks, StatusBlocks, StatusResumes DEF lock_status

\* It gives the mutex back.
LEMMA StatusUnlocks ==
    ASSUME CoreInv, NEW t \in Workers, NEW place, Accesses(t, place),
           NEW next \in Place, Goto(t, next)
    PROVE  CoreInv' /\ Calm
<1> DEFINE g == g_status_mutex
           l == k.waiters[g]
           h == Head(l)
<1>1. /\ t \in Task /\ Executes(t) /\ pc[t] = "app" /\ Calls(t) /\ Holds(t) /\ wants' = wants
      /\ owner[g] = t /\ unlock(t, g)
      /\ held' = [held EXCEPT ![t][g] = held[t][g] - 1]
      /\ at' = [at EXCEPT ![t] = next]
  BY WorkersDiffer DEF Accesses, Goto, unlock, unlock_level, unlock_release, Calls
<1>2. /\ k \in Kernel /\ pc \in [Task -> PcLabel] /\ at \in [Task -> Place]
      /\ k.state[t] = "RUNNING" /\ k.current = t /\ Sched(k, t, NULL) /\ t \notin InLine(k)
  BY <1>1, CallerFacts, ListsDiffer DEF InLine, AppLists
<1>3. /\ mutexes = {g} /\ AppLists \subseteq WaitList /\ g \in AppLists /\ g # NULL
      /\ owner \in [mutexes -> Task \cup {NULL}]
      /\ held \in [Task -> [mutexes -> 0 .. MaxDepth]] /\ MaxDepth \in Nat
      /\ wants \in [Task -> mutexes \cup {NULL}]
      /\ l \in Seq(Task)
  BY <1>2, ListsDiffer, ListTypes, MutexAssumption DEF CoreInv, LockInv, MutexTypeOK, AppLists
<1>4. held[t][g] = 1 /\ lock_count[g] = 1 /\ InStatusCall(t)
  BY <1>1, <1>3 DEF CoreInv, LockInv, StatusCalls, Exclusive, Holds
<1>5. wants[t] = NULL /\ ~ InLock(t)
  BY <1>1, OwnersKnow DEF CoreInv
<1>6. unlock_release(t, g)
  BY <1>1, <1>4 DEF unlock, unlock_level
<1>7. LockInv'
  BY <1>1, <1>3, <1>6, UnlockReleaseKeeps DEF CoreInv
<1>8. /\ k' = wake_waiter([k EXCEPT !.priority[t] = BasePriority[t]], g)
      /\ l # << >> => /\ owner' = [owner EXCEPT ![g] = h]
                      /\ pc' = [pc EXCEPT ![t] = "switch"]
      /\ l = << >> => /\ owner' = [owner EXCEPT ![g] = NULL] /\ pc' = pc
  BY <1>6 DEF unlock_release
<1>9. \A x \in InLine(k) : k.state[x] = "BLOCKED" /\ wants[x] = g
  BY <1>3 DEF CoreInv, LockInv, WaitersInLock, InLine
<1>10. /\ l = << >> => k' = k /\ Sched(k', NULL, NULL)
       /\ l # << >> =>
             /\ Sched(k', h, t)
             /\ k'.current = t /\ k'.state[t] = "RUNNING"
             /\ h \in InLine(k)
             /\ Range(k'.delayed) \subseteq Range(k.delayed)
             /\ \A v \in WaitList : Range(k'.waiters[v]) = Range(k.waiters[v]) \ {h}
             /\ \A x \in Task \ InLine(k) :
                   /\ k'.state[x] = k.state[x]
                   /\ k'.last_wait_result[x] = k.last_wait_result[x]
  <2>1. \A x \in InLine(k) : k.state[x] = "BLOCKED"
    BY <1>9
  <2>2. k' = wake_waiter([k EXCEPT !.priority[t] = BasePriority[t]], g_status_mutex)
    BY <1>8
  <2>3. k \in Kernel /\ t \in Task /\ Sched(k, t, NULL) /\ k.state[t] = "RUNNING"
    BY <1>1, <1>2
  <2>4. /\ l = << >> => k' = k /\ Sched(k', NULL, NULL)
        /\ l # << >> =>
             /\ Sched(k', h, t)
             /\ k'.current = k.current /\ k'.state[t] = "RUNNING"
             /\ h \in InLine(k)
             /\ Range(k'.delayed) \subseteq Range(k.delayed)
             /\ \A v \in WaitList : Range(k'.waiters[v]) = Range(k.waiters[v]) \ {h}
             /\ \A x \in Task \ InLine(k) :
                   /\ k'.state[x] = k.state[x]
                   /\ k'.last_wait_result[x] = k.last_wait_result[x]
    <3>1. GivenUp(k, t, k')
      BY <2>1, <2>2, <2>3, ReleaseSched
    <3> QED
      BY <3>1 DEF GivenUp
  <2> QED
    BY <1>2, <2>4
<1> HIDE DEF h
<1>11. RunInv'
  <2>1. CASE l = << >>
    <3>1. owner'[g] = NULL /\ pc'[t] = "app" /\ k' = k
      BY <1>1, <1>3, <1>8, <1>10, <2>1
    <3> QED
      BY <1>1, <1>10, <2>1, <3>1, GoesOn DEF CoreInv
  <2>2. CASE l # << >>
    <3>1. owner'[g] = h /\ pc'[t] = "switch"
      BY <1>1, <1>2, <1>3, <1>8, <2>2
    <3>2. Leaving' = t
      BY <1>1, <1>10, <2>2, <3>1 DEF Leaving
    <3>3. Sched(k', owner'[g], t) /\ k'.current = t
      BY <1>10, <2>2, <3>1
    <3> QED
      BY <1>1, <3>1, <3>2, <3>3, GoesAway
  <2> QED
    BY <2>1, <2>2
<1>12. ~ InLock(t)' /\ \A x \in Task : InLock(x)' <=> InLock(x)
  <2>1. pc' = pc \/ pc' = [pc EXCEPT ![t] = "switch"]
    BY <1>8
  <2> QED
    BY <1>1, <1>2, <1>5, <2>1 DEF InLock
<1>13. \A x \in Task \ {t} : at'[x] = at[x] /\ held'[x] = held[x]
  BY <1>1, <1>2, <1>3
<1>14. held'[t][g] = 0 /\ at' \in [Task -> Place]
  BY <1>1, <1>2, <1>3, <1>4
<1>15. StatusCalls'
  <2>1. \A x \in Task \ {t} : InStatusCall(x)' <=> InStatusCall(x)
    BY <1>13 DEF InStatusCall
  <2>2. \A x \in Task : (wants'[x] # NULL) <=> (InLock(x)' /\ InStatusCall(x)')
    BY <1>1, <1>5, <1>12, <2>1 DEF CoreInv, StatusCalls
  <2>3. \A x \in Task : Holds(x)' => InStatusCall(x)' /\ held'[x][g] = 1
    BY <1>13, <1>14, <2>1 DEF CoreInv, StatusCalls, Holds
  <2> QED
    BY <1>14, <2>2, <2>3 DEF StatusCalls
<1>16. Range(k.delayed) \subseteq Task /\ Range(k'.delayed) \subseteq Range(k.delayed)
  BY <1>2, <1>10, ListTypes
<1>17. OnlyLoggerSleeps'
  BY <1>12, <1>16 DEF CoreInv, OnlyLoggerSleeps
<1>18. \A x \in Task : /\ Waits(x)' <=> Waits(x)
                       /\ Waits(x) => x \notin InLine(k)
  <2>1. \A x \in Task : Waits(x) => x \notin InLine(k) /\ x # t
    BY <1>3, <1>5, <1>9 DEF CoreInv, StatusCalls, InStatusCall, Waits
  <2>2. \A x \in Task \ {t} : Waits(x)' <=> Waits(x)
    BY <1>12, <1>13 DEF Waits
  <2>3. ~ Waits(t)'
    BY <1>12 DEF Waits
  <2> QED
    BY <2>1, <2>2, <2>3
<1>19. \A x \in Task : Waits(x) => /\ k'.state[x] = k.state[x]
                                   /\ k'.last_wait_result[x] = k.last_wait_result[x]
  BY <1>10, <1>18
<1>20. \A v \in AppLists \ {g} : Range(k'.waiters[v]) = Range(k.waiters[v])
  <2>1. \A v \in AppLists \ {g} : \A x \in Range(k.waiters[v]) : x \in Task /\ Waits(x)
    <3>1. \A v \in AppLists \ {g} : Range(k.waiters[v]) \subseteq Task
      BY <1>2, <1>3, ListTypes
    <3> QED
      BY <3>1 DEF CoreInv, OwnLists, OwnList, AppLists
  <2>2. CASE l = << >>
    BY <1>10, <2>2
  <2>3. CASE l # << >>
    <3>1. /\ h \in InLine(k)
          /\ \A v \in AppLists : Range(k'.waiters[v]) = Range(k.waiters[v]) \ {h}
      BY <1>3, <1>10, <2>3
    <3>2. \A v \in AppLists \ {g} : h \notin Range(k.waiters[v])
      BY <1>18, <2>1, <3>1
    <3> QED
      BY <3>1, <3>2
  <2> QED
    BY <2>2, <2>3
<1>21. Calm
  <2>1. {g_fault_semaphore, adc_rx, adc_tx, uart_rx, uart_tx} \subseteq AppLists \ {g}
    BY ListsDiffer DEF AppLists
  <2>2. {protection_tcb, control_tcb, comms_tcb} \subseteq Task
    BY WorkersDiffer DEF Workers
  <2> QED
    BY <1>18, <1>19, <1>20, <2>1, <2>2 DEF Calm, CalmFor
<1>22. OwnLists'
  BY <1>21, CalmLists DEF CoreInv
<1> QED
  BY <1>7, <1>11, <1>15, <1>17, <1>21, <1>22 DEF CoreInv

-----------------------------------------------------------------------------
(* Boot and the port. *)

\* select_next runs a task no linked one is above.
LEMMA SelectServes ==
    ASSUME CoreInv, k' = select_next(k) \/ k' = switch_context(k), owner' = owner
    PROVE  RunInv' /\ Range(k'.delayed) = Range(k.delayed)
<1> DEFINE o == owner[g_status_mutex]
           c == Leaving
<1>1. k \in Kernel /\ ListedStates(k) /\ Sched(k, o, c)
  BY DEF CoreInv, LockInv, RunInv, MutexTypeOK, TypeOK
<1>2. PICK n \in Kernel :
          /\ n.ready = k.ready /\ n.state = k.state /\ n.current = k.current
          /\ n.delayed = k.delayed /\ n.bitmap = k.bitmap /\ n.priority = k.priority
          /\ n.waiters = k.waiters
          /\ k' = select_next(n)
  <2>1. CASE k' = select_next(k)
    BY <1>1, <2>1
  <2>2. CASE k' = switch_context(k)
    <3> DEFINE n == [k EXCEPT !.pendsv = FALSE]
    <3>1. n \in Kernel /\ n.ready = k.ready /\ n.state = k.state /\ n.current = k.current
          /\ n.delayed = k.delayed /\ n.bitmap = k.bitmap /\ n.priority = k.priority
          /\ n.waiters = k.waiters
      BY <1>1 DEF Kernel
    <3>2. k' = select_next(n)
      BY <2>2 DEF switch_context
    <3> HIDE DEF n
    <3> QED
      BY <3>1, <3>2
  <2> QED
    BY <2>1, <2>2
<1>3. Sched(n, o, c)
  BY <1>1, <1>2, SameSched
<1>4. c # NULL => c = n.current /\ n.state[c] = "RUNNING"
  BY <1>2 DEF Leaving
<1> HIDE DEF c
<1>5. /\ k' \in Kernel /\ Sched(k', o, NULL)
      /\ k'.current \in Task /\ k'.state[k'.current] = "RUNNING"
      /\ \A p \in Prio : p > k'.priority[k'.current] => Range(k'.ready[p]) = {}
  BY <1>2, <1>3, <1>4, SelectKeeps
<1>6. Range(k'.delayed) = Range(k.delayed)
  <2>1. ListedStates(n)
    BY <1>1, <1>2 DEF ListedStates
  <2>2. SelectEffect(n, k')
    BY <1>2, <1>3, <2>1, SelectFields
  <2> QED
    BY <1>2, <2>2 DEF SelectEffect
<1>7. Sched(k', owner'[g_status_mutex], Leaving')
  BY <1>5, SchedWeaken
<1>8. RunsRunning'
  BY <1>5 DEF RunsRunning, Executes
<1>9. WokenPreempts'
  <2>1. \A p \in Prio : k'.ready[p] \in Seq(Task)
    BY <1>5, ListTypes
  <2>2. \A p \in Prio : p > k'.priority[k'.current] => k'.ready[p] = << >>
    BY <1>5, <2>1, EmptyRange
  <2> QED
    BY <2>2 DEF WokenPreempts, Executes
<1> QED
  BY <1>6, <1>7, <1>8, <1>9 DEF RunInv

\* A tick, or a request for a switch: whoever runs will be requeued.
LEMMA TickRuns ==
    ASSUME CoreInv, k' = scheduler_tick(k), pc' = pc, owner' = owner
    PROVE  RunInv' /\ Range(k'.delayed) \subseteq Range(k.delayed)
<1> DEFINE o == owner[g_status_mutex]
           D == DueSet(k)
<1>1. /\ k \in Kernel /\ ListedStates(k) /\ Sched(k, o, Leaving)
      /\ k.state \in [Task -> TaskState]
  BY DEF CoreInv, LockInv, RunInv, MutexTypeOK, TypeOK, Kernel
<1>2. \A x \in Range(k.delayed) : x \notin InLine(k)
  BY ListsDiffer DEF CoreInv, LockInv, WaitersInLock, OnlyLoggerSleeps, InLine
<1>3. Sched(k', o, Leaving)
  BY <1>1, <1>2, TickSched
<1>4. TickEffect(k, D, k')
  BY <1>1, TickFields
<1>5. \A x \in D : k.state[x] # "RUNNING"
  BY <1>1 DEF DueSet, ListedStates
<1> HIDE DEF D
<1>6. /\ k'.pendsv /\ k'.current = k.current /\ Range(k'.delayed) = Range(k.delayed) \ D
      /\ k'.state = [x \in Task |-> IF x \in D THEN "READY" ELSE k.state[x]]
  BY <1>4 DEF TickEffect
<1>7. Leaving # NULL => Leaving' = Leaving
  <2>1. Leaving # NULL => /\ k.current \in Task /\ k.state[k.current] = "RUNNING"
                          /\ Leaving = k.current
    BY DEF Leaving
  <2>2. \A x \in Task : k.state[x] = "RUNNING" => k'.state[x] = "RUNNING"
    BY <1>5, <1>6
  <2> QED
    BY <1>6, <2>1, <2>2 DEF Leaving
<1>8. RunInv'
  BY <1>3, <1>6, <1>7, GoesAway
<1> QED
  BY <1>6, <1>8

\* The request for a switch.
LEMMA RequestRuns ==
    ASSUME CoreInv, NEW t \in Task, RequestSwitch(t), owner' = owner
    PROVE  RunInv' /\ k'.delayed = k.delayed
<1> DEFINE o == owner[g_status_mutex]
<1>1. k \in Kernel /\ Sched(k, o, Leaving)
  BY DEF CoreInv, LockInv, RunInv, MutexTypeOK, TypeOK
<1>2. k' = [k EXCEPT !.pendsv = TRUE]
  BY DEF RequestSwitch, request_context_switch
<1>21. /\ k' \in Kernel /\ k'.ready = k.ready /\ k'.state = k.state /\ k'.current = k.current
       /\ k'.delayed = k.delayed /\ k'.bitmap = k.bitmap /\ k'.priority = k.priority
       /\ k'.waiters = k.waiters /\ k'.pendsv
  BY <1>1, <1>2 DEF Kernel
<1>3. Sched(k', o, Leaving)
  BY <1>1, <1>21, SameSched
<1>4. Leaving # NULL => Leaving' = Leaving
  BY <1>21 DEF Leaving
<1>5. RunInv'
  BY <1>21, <1>3, <1>4, GoesAway
<1> QED
  BY <1>21, <1>5

\* main creates a task: nobody runs yet.
LEMMA CreateRuns ==
    ASSUME CoreInv, NEW t \in Task, main_create(t), owner' = owner
    PROVE  RunInv' /\ k'.delayed = k.delayed
<1> DEFINE o == owner[g_status_mutex]
<1>1. k \in Kernel /\ Sched(k, o, Leaving)
  BY DEF CoreInv, LockInv, RunInv, MutexTypeOK, TypeOK
<1>2. k.current = NULL /\ k' = add_ready(k, t) /\ k.state[t] = "UNCREATED"
  BY DEF main_create, create
<1>3. AddReadyEffect(k, t, k')
  BY <1>1, <1>2, AddReadyFields
<1>4. k'.current = NULL /\ k'.delayed = k.delayed
  BY <1>2, <1>3 DEF AddReadyEffect, SameTask
<1>5. Sched(k', o, Leaving)
  BY <1>1, <1>2, CreateSched
<1>6. Leaving = NULL /\ Leaving' = NULL
  BY <1>2, <1>4, TaskAssumption DEF Leaving
<1>7. \A x \in Task : ~ Executes(x)'
  BY <1>4, TaskAssumption DEF Executes
<1> QED
  BY <1>4, <1>5, <1>6, <1>7 DEF RunInv, RunsRunning, WokenPreempts

\* The steps of main and of the port.
LEMMA PortKeeps ==
    ASSUME CoreInv, BootStep \/ PortStep, UNCHANGED <<mutexState, at>>
    PROVE  CoreInv' /\ Calm
<1> DEFINE g == g_status_mutex
<1>1. /\ owner' = owner /\ lock_count' = lock_count /\ held' = held /\ wants' = wants
      /\ UNCHANGED mutexState /\ at' = at
  BY DEF mutexState
<1>2. [TaskNext]_tvars /\ TypeOK /\ ListedStates(k) /\ k \in Kernel
  BY DEF TaskNext, CoreInv, LockInv, MutexTypeOK, TypeOK
<1>3. LockInv' /\ \A x \in Task : InLock(x)' <=> InLock(x)
  BY <1>1, <1>2, KernelStepKeeps DEF CoreInv
<1>4. TaskStepEffect
  BY <1>2, TaskNextEffect
<1>5. RunInv' /\ Range(k'.delayed) \subseteq Range(k.delayed)
  <2>1. CASE scheduler_start
    BY <1>1, <2>1, SelectServes DEF scheduler_start
  <2>2. CASE PendSV_Handler
    BY <1>1, <2>2, SelectServes DEF PendSV_Handler
  <2>3. CASE SysTick_Handler
    BY <1>1, <2>3, TickRuns DEF SysTick_Handler
  <2>4. ASSUME NEW t \in Task, RequestSwitch(t)
        PROVE  RunInv' /\ Range(k'.delayed) \subseteq Range(k.delayed)
    BY <1>1, <2>4, RequestRuns
  <2>5. ASSUME NEW t \in Task, main_create(t)
        PROVE  RunInv' /\ Range(k'.delayed) \subseteq Range(k.delayed)
    BY <1>1, <2>5, CreateRuns
  <2> QED
    BY <2>1, <2>2, <2>3, <2>4, <2>5 DEF BootStep, PortStep
<1>6. Range(k.delayed) \subseteq Task
  BY <1>2, ListTypes
<1>7. OnlyLoggerSleeps'
  BY <1>3, <1>5, <1>6 DEF CoreInv, OnlyLoggerSleeps
<1>8. \A x \in Task : (Waits(x)' <=> Waits(x)) /\ (InStatusCall(x)' <=> InStatusCall(x))
  BY <1>1, <1>3 DEF Waits, InStatusCall
<1>9. StatusCalls'
  BY <1>1, <1>3, <1>8 DEF CoreInv, StatusCalls, Holds
<1>10. \A x \in Task : Waits(x) =>
          /\ k'.state[x] = "BLOCKED" <=> k.state[x] = "BLOCKED"
          /\ k'.last_wait_result[x] = k.last_wait_result[x]
  <2>1. CASE QuietStep
    BY <2>1 DEF QuietStep, Waits, InLock
  <2>2. CASE TickStep
    <3> DEFINE D == DueSet(k)
    <3>1. TickEffect(k, D, k')
      BY <2>2 DEF TickStep
    <3>2. \A x \in D : ~ Waits(x)
      BY DEF DueSet, CoreInv, OnlyLoggerSleeps, Waits
    <3> HIDE DEF D
    <3> QED
      BY <3>1, <3>2 DEF TickEffect
  <2> QED
    BY <1>4, <2>1, <2>2 DEF TaskStepEffect
<1>11. \A w \in AppLists \ {g} : Range(k'.waiters[w]) = Range(k.waiters[w])
  <2>1. CASE QuietStep
    BY <2>1 DEF QuietStep
  <2>2. CASE TickStep
    <3> DEFINE D == DueSet(k)
    <3>1. TickEffect(k, D, k')
      BY <2>2 DEF TickStep
    <3>2. \A x \in D : ~ Waits(x)
      BY DEF DueSet, CoreInv, OnlyLoggerSleeps, Waits
    <3> HIDE DEF D
    <3>3. \A w \in AppLists \ {g} : \A x \in Range(k.waiters[w]) : Waits(x)
      BY DEF CoreInv, OwnLists, OwnList, AppLists
    <3>4. \A w \in AppLists : Range(k'.waiters[w]) = Range(k.waiters[w]) \ D
      BY <3>1, ListsDiffer DEF TickEffect, AppLists
    <3> QED
      BY <3>2, <3>3, <3>4
  <2> QED
    BY <1>4, <2>1, <2>2 DEF TaskStepEffect
<1>12. Calm
  <2>1. {g_fault_semaphore, adc_rx, adc_tx, uart_rx, uart_tx} \subseteq AppLists \ {g}
    BY ListsDiffer DEF AppLists
  <2>2. {protection_tcb, control_tcb, comms_tcb} \subseteq Task
    BY WorkersDiffer DEF Workers
  <2> QED
    BY <1>8, <1>10, <1>11, <2>1, <2>2 DEF Calm, CalmFor
<1>13. OwnLists'
  BY <1>12, CalmLists DEF CoreInv
<1> QED
  BY <1>3, <1>5, <1>7, <1>9, <1>12, <1>13 DEF CoreInv

-----------------------------------------------------------------------------
(* Interrupts. *)

\* From s to u the tasks of H were woken.
Awake(s, u, H) ==
    /\ u \in Kernel /\ ListedStates(u)
    /\ u.priority = s.priority /\ u.current = s.current
    /\ \A v \in WaitList : Range(u.waiters[v]) = Range(s.waiters[v]) \ H
    /\ Range(u.delayed) = Range(s.delayed) \ H
    /\ \A x \in H : u.state[x] = "READY" /\ u.last_wait_result[x] = "OK"
    /\ \A x \in Task \ H : /\ u.state[x] = s.state[x]
                           /\ u.last_wait_result[x] = s.last_wait_result[x]

\* wake_waiter wakes the only task of a list.
LEMMA WakeAwakes ==
    ASSUME NEW s \in Kernel, ListedStates(s), NEW o, NEW c, Sched(s, o, c),
           NEW w \in WaitList, NEW t \in Task, Range(s.waiters[w]) \subseteq {t},
           \A x \in Range(s.waiters[w]) : s.state[x] = "BLOCKED" /\ x \notin InLine(s),
           NEW u, u = wake_waiter(s, w)
    PROVE  Sched(u, o, c) /\ Awake(s, u, Range(s.waiters[w]))
<1> DEFINE H == Range(s.waiters[w])
           h == Head(s.waiters[w])
<1>1. s.waiters[w] \in Seq(Task) /\ (s.waiters[w] = << >> <=> H = {})
  BY ListTypes, EmptyRange
<1>2. CASE s.waiters[w] = << >>
  <2>1. u = s /\ H = {}
    BY <1>1, <1>2 DEF wake_waiter
  <2> HIDE DEF H
  <2>2. Awake(s, s, {})
    BY DEF Awake
  <2> QED
    BY <2>1, <2>2 DEF H
<1>3. CASE s.waiters[w] # << >>
  <2>1. Sched(u, o, c)
    BY <1>3, WakeSched
  <2>2. WakeEffect(s, w, h, u)
    BY <1>3, WakeFields
  <2> HIDE DEF h
  <2>3. H = {h} /\ h \in Task
    BY <2>2 DEF WakeEffect
  <2>4. /\ u \in Kernel
        /\ \A v \in WaitList : Range(u.waiters[v]) = Range(s.waiters[v]) \ H
        /\ Range(u.delayed) = Range(s.delayed) \ H
        /\ u.state = [s.state EXCEPT ![h] = "READY"]
        /\ u.last_wait_result = [s.last_wait_result EXCEPT ![h] = "OK"]
        /\ u.priority = s.priority /\ u.current = s.current
        /\ \A p \in Prio : Range(u.ready[p]) \subseteq Range(s.ready[p]) \cup {h}
    BY <2>2, <2>3, SMTT(30) DEF WakeEffect, SameTask
  <2>5. /\ s.state \in [Task -> TaskState] /\ s.last_wait_result \in [Task -> WaitResult]
        /\ Range(s.delayed) \subseteq Task
        /\ \A p \in Prio : Range(s.ready[p]) \subseteq Task
    BY ListTypes DEF Kernel
  <2>6. /\ u.state[h] = "READY" /\ u.last_wait_result[h] = "OK"
        /\ \A x \in Task \ {h} : /\ u.state[x] = s.state[x]
                                 /\ u.last_wait_result[x] = s.last_wait_result[x]
    BY <2>3, <2>4, <2>5
  <2>7. ListedStates(u)
    BY <2>3, <2>4, <2>5, <2>6 DEF ListedStates
  <2> HIDE DEF H
  <2>8. Awake(s, u, H)
    BY <2>3, <2>4, <2>6, <2>7 DEF Awake
  <2> QED
    BY <2>1, <2>8 DEF H
<1> QED
  BY <1>2, <1>3

\* Twice.
LEMMA AwakeTwice ==
    ASSUME NEW s, NEW u, NEW v, NEW H, NEW G, H \subseteq Task, G \subseteq Task,
           Awake(s, u, H), Awake(u, v, G)
    PROVE  Awake(s, v, H \cup G)
<1>1. /\ v \in Kernel /\ ListedStates(v)
      /\ v.priority = s.priority /\ v.current = s.current
      /\ \A w \in WaitList : Range(v.waiters[w]) = Range(s.waiters[w]) \ (H \cup G)
      /\ Range(v.delayed) = Range(s.delayed) \ (H \cup G)
  BY DEF Awake
<1>2. \A x \in H \cup G : v.state[x] = "READY" /\ v.last_wait_result[x] = "OK"
  BY DEF Awake
<1>3. \A x \in Task \ (H \cup G) : /\ v.state[x] = s.state[x]
                                   /\ v.last_wait_result[x] = s.last_wait_result[x]
  BY DEF Awake
<1> QED
  BY <1>1, <1>2, <1>3 DEF Awake

\* An interrupt wakes tasks and requests a switch if it woke one.
LEMMA AwakeKeeps ==
    ASSUME CoreInv, NEW H \in SUBSET Task, \A x \in H : Waits(x) /\ k.state[x] = "BLOCKED",
           NEW u, Awake(k, u, H), Sched(u, owner[g_status_mutex], Leaving),
           H = {} => k' = k, H # {} => k' = request_context_switch(u),
           pc' = pc, at' = at, UNCHANGED mutexState
    PROVE  CoreInv' /\ Awake(k, k', H)
<1> DEFINE g == g_status_mutex
<1>1. /\ owner' = owner /\ lock_count' = lock_count /\ held' = held /\ wants' = wants
      /\ mutexes = {g} /\ g \in WaitList
  BY ListsDiffer DEF mutexState
<1>2. /\ k \in Kernel /\ pc \in [Task -> PcLabel] /\ ListedStates(k)
      /\ Range(k.delayed) \subseteq Task
      /\ \A v \in WaitList : Range(k.waiters[v]) \subseteq Task
  BY ListTypes DEF CoreInv, LockInv, MutexTypeOK, TypeOK
<1>3. \A x \in Task : /\ InLock(x)' <=> InLock(x)
                      /\ Waits(x)' <=> Waits(x)
                      /\ InStatusCall(x)' <=> InStatusCall(x)
                      /\ Holds(x)' <=> Holds(x)
  BY <1>1 DEF InLock, Waits, InStatusCall, Holds
<1>4. Awake(k, k', H) /\ RunInv'
  <2>1. CASE H = {}
    <3>1. k' = k
      BY <2>1
    <3>2. Awake(k, k', {})
      BY <1>2, <3>1 DEF Awake
    <3>3. RunInv'
      BY <1>1, <3>1 DEF CoreInv, RunInv, RunsRunning, WokenPreempts, Executes, Leaving
    <3> QED
      BY <2>1, <3>2, <3>3
  <2>2. CASE H # {}
    <3>1. k' = [u EXCEPT !.pendsv = TRUE] /\ u \in Kernel
      BY <2>2 DEF request_context_switch, Awake
    <3>2. /\ k' \in Kernel /\ k'.ready = u.ready /\ k'.state = u.state /\ k'.current = u.current
          /\ k'.delayed = u.delayed /\ k'.bitmap = u.bitmap /\ k'.priority = u.priority
          /\ k'.waiters = u.waiters /\ k'.last_wait_result = u.last_wait_result /\ k'.pendsv
      BY <3>1 DEF Kernel
    <3>3. ListedStates(k')
      BY <3>2 DEF Awake, ListedStates
    <3>4. Awake(k, k', H)
      BY <3>2, <3>3 DEF Awake
    <3>5. Sched(k', owner'[g], Leaving)
      BY <1>1, <3>1, <3>2, SameSched
    <3>6. Leaving # NULL => Leaving' = Leaving
      <4>1. Leaving # NULL => /\ k.current \in Task /\ k.state[k.current] = "RUNNING"
                              /\ Leaving = k.current
        BY DEF Leaving
      <4>2. k'.current = k.current /\ \A x \in Task \ H : k'.state[x] = k.state[x]
        BY <3>4 DEF Awake
      <4> QED
        BY <3>2, <4>1, <4>2 DEF Leaving
    <3>7. RunInv'
      BY <3>2, <3>5, <3>6, GoesAway
    <3> QED
      BY <3>4, <3>7
  <2> QED
    BY <2>1, <2>2
<1>5. /\ k' \in Kernel /\ ListedStates(k') /\ k'.priority = k.priority
      /\ \A v \in WaitList : Range(k'.waiters[v]) = Range(k.waiters[v]) \ H
      /\ Range(k'.delayed) = Range(k.delayed) \ H
      /\ \A x \in Task \ H : /\ k'.state[x] = k.state[x]
                             /\ k'.last_wait_result[x] = k.last_wait_result[x]
  BY <1>4 DEF Awake
<1>6. \A x \in Task : wants[x] # NULL => x \notin H /\ InLock(x)
  BY DEF CoreInv, StatusCalls, InStatusCall, Waits
<1>7. OutsideStep
  <2>1. \A x \in Range(k.waiters[g]) : x \in Task /\ k.state[x] = "BLOCKED"
    BY <1>1, <1>2 DEF CoreInv, LockInv, WaitersInLock
  <2>2. \A x \in Range(k'.waiters[g]) : k'.state[x] = "BLOCKED"
    BY <1>1, <1>5, <2>1
  <2>3. \A x \in Task : wants[x] # NULL =>
          /\ InLock(x)'
          /\ k.state[x] # "BLOCKED" =>
                k'.state[x] # "BLOCKED" /\ k'.last_wait_result[x] = k.last_wait_result[x]
    BY <1>3, <1>5, <1>6
  <2> QED
    BY <1>1, <1>2, <1>5, <2>2, <2>3 DEF OutsideStep
<1>8. LockInv'
  BY <1>7, OutsideKeeps DEF CoreInv
<1>9. StatusCalls'
  BY <1>1, <1>3 DEF CoreInv, StatusCalls
<1>10. OnlyLoggerSleeps'
  BY <1>2, <1>3, <1>5 DEF CoreInv, OnlyLoggerSleeps
<1>11. OwnLists'
  <2>1. ASSUME NEW w \in WaitList, NEW t, OwnList(w, t) PROVE OwnList(w, t)'
    <3> SUFFICES ASSUME NEW x \in Range(k'.waiters[w])
                 PROVE  x = t /\ Waits(x)' /\ k'.state[x] = "BLOCKED"
      BY DEF OwnList
    <3>1. x \in Range(k.waiters[w]) /\ x \in Task \ H
      BY <1>2, <1>5
    <3>2. x = t /\ Waits(x) /\ k.state[x] = "BLOCKED"
      BY <2>1, <3>1 DEF OwnList
    <3> QED
      BY <1>3, <1>5, <3>1, <3>2
  <2> QED
    BY <1>5, <2>1, ListsDiffer DEF CoreInv, OwnLists
<1> QED
  BY <1>4, <1>8, <1>9, <1>10, <1>11 DEF CoreInv

\* Wait list w wakes t: what AwakeKeeps needs to know.
LEMMA OwnListWakes ==
    ASSUME CoreInv, NEW w \in AppLists \ {g_status_mutex}, NEW t, OwnList(w, t)
    PROVE  /\ Range(k.waiters[w]) \subseteq {t} /\ Range(k.waiters[w]) \subseteq Task
           /\ \A x \in Range(k.waiters[w]) :
                 Waits(x) /\ k.state[x] = "BLOCKED" /\ x \notin InLine(k)
<1>1. Range(k.waiters[w]) \subseteq Task
  BY ListTypes, ListsDiffer DEF CoreInv, LockInv, MutexTypeOK, TypeOK, AppLists
<1>2. \A x \in Range(k.waiters[w]) : x = t /\ Waits(x) /\ k.state[x] = "BLOCKED"
  BY DEF OwnList
<1>3. \A x \in InLine(k) : wants[x] # NULL
  BY ListsDiffer, MutexAssumption DEF CoreInv, LockInv, WaitersInLock, InLine
<1>4. \A x \in Task : Waits(x) => wants[x] = NULL
  BY DEF CoreInv, StatusCalls, InStatusCall, Waits
<1> QED
  BY <1>1, <1>2, <1>3, <1>4

\* The USART interrupt.
LEMMA UartIrqKeeps ==
    ASSUME CoreInv, USART1_IRQHandler
    PROVE  CoreInv' /\ Awake(k, k', Range(k.waiters[uart_rx]))
<1> DEFINE H == Range(k.waiters[uart_rx])
           u == wake_waiter(k, uart_rx)
<1>1. /\ k' = IF k.waiters[uart_rx] # << >> THEN request_context_switch(u) ELSE k
      /\ pc' = pc /\ at' = at /\ UNCHANGED mutexState
  BY UartSends DEF USART1_IRQHandler
<1>2. /\ k \in Kernel /\ ListedStates(k) /\ Sched(k, owner[g_status_mutex], Leaving)
      /\ uart_rx \in WaitList /\ uart_rx \in AppLists \ {g_status_mutex}
      /\ comms_tcb \in Task /\ OwnList(uart_rx, comms_tcb)
  BY ListsDiffer, TasksDiffer
     DEF CoreInv, LockInv, MutexTypeOK, TypeOK, RunInv, AppLists, OwnLists
<1>3. /\ H \subseteq {comms_tcb} /\ H \subseteq Task
      /\ \A x \in H : Waits(x) /\ k.state[x] = "BLOCKED" /\ x \notin InLine(k)
  BY <1>2, OwnListWakes
<1>4. Sched(u, owner[g_status_mutex], Leaving) /\ Awake(k, u, H)
  <2>1. \A x \in Range(k.waiters[uart_rx]) : k.state[x] = "BLOCKED" /\ x \notin InLine(k)
    BY <1>3
  <2>2. Range(k.waiters[uart_rx]) \subseteq {comms_tcb}
    BY <1>3
  <2>3. Sched(wake_waiter(k, uart_rx), owner[g_status_mutex], Leaving)
        /\ Awake(k, wake_waiter(k, uart_rx), Range(k.waiters[uart_rx]))
    BY <1>2, <2>1, <2>2, WakeAwakes
  <2> QED
    BY <2>3
<1>5. k.waiters[uart_rx] # << >> <=> H # {}
  <2>1. k.waiters[uart_rx] \in Seq(Task)
    BY <1>2, ListTypes
  <2> QED
    BY <2>1, EmptyRange
<1> HIDE DEF u, H
<1>6. H \in SUBSET Task /\ \A x \in H : Waits(x) /\ k.state[x] = "BLOCKED"
  BY <1>3
<1>7. (H = {} => k' = k) /\ (H # {} => k' = request_context_switch(u))
  BY <1>1, <1>5
<1>8. CoreInv' /\ Awake(k, k', H)
  BY <1>1, <1>4, <1>6, <1>7, AwakeKeeps
<1> QED
  BY <1>8 DEF H

\* The tasks a sample wakes.
WokenBy(over) ==
    (IF adc.count < ADC_QUEUE_DEPTH THEN Range(k.waiters[adc_rx]) ELSE {})
      \cup (IF over THEN Range(k.waiters[g_fault_semaphore]) ELSE {})

\* The ADC interrupt.
LEMMA AdcIrqKeeps ==
    ASSUME CoreInv, NEW over \in BOOLEAN, ADC_IRQHandler(over)
    PROVE  CoreInv' /\ Awake(k, k', WokenBy(over))
<1> DEFINE sent == adc.count < ADC_QUEUE_DEPTH
           f == g_fault_semaphore
           o == owner[g_status_mutex]
           H1 == IF sent THEN Range(k.waiters[adc_rx]) ELSE {}
           H2 == IF over THEN Range(k.waiters[f]) ELSE {}
           k1 == IF sent THEN wake_waiter(k, adc_rx) ELSE k
           k2 == IF over THEN wake_waiter(k1, f) ELSE k1
           needs_yield == \/ sent /\ k.waiters[adc_rx] # << >>
                          \/ over /\ k1.waiters[f] # << >>
<1>1. /\ k' = IF needs_yield THEN request_context_switch(k2) ELSE k2
      /\ pc' = pc /\ at' = at /\ UNCHANGED mutexState
  BY DEF ADC_IRQHandler
<1>2. /\ k \in Kernel /\ ListedStates(k) /\ Sched(k, o, Leaving)
      /\ {adc_rx, f} \subseteq WaitList /\ {adc_rx, f} \subseteq AppLists \ {g_status_mutex}
      /\ {control_tcb, protection_tcb} \subseteq Task /\ control_tcb # protection_tcb
      /\ OwnList(adc_rx, control_tcb) /\ OwnList(f, protection_tcb)
      /\ g_status_mutex \in WaitList
  BY ListsDiffer, TasksDiffer
     DEF CoreInv, LockInv, MutexTypeOK, TypeOK, RunInv, AppLists, OwnLists
<1>3. /\ Range(k.waiters[adc_rx]) \subseteq {control_tcb}
      /\ Range(k.waiters[f]) \subseteq {protection_tcb}
      /\ \A x \in Range(k.waiters[adc_rx]) \cup Range(k.waiters[f]) :
            Waits(x) /\ k.state[x] = "BLOCKED" /\ x \notin InLine(k)
  BY <1>2, OwnListWakes
<1>4. Awake(k, k, {})
  BY <1>2 DEF Awake
<1>5. Sched(k1, o, Leaving) /\ Awake(k, k1, H1)
  <2>1. CASE sent
    <3>1. Sched(wake_waiter(k, adc_rx), o, Leaving)
          /\ Awake(k, wake_waiter(k, adc_rx), Range(k.waiters[adc_rx]))
      BY <1>2, <1>3, WakeAwakes
    <3> QED
      BY <2>1, <3>1
  <2>2. CASE ~ sent
    BY <1>2, <1>4, <2>2
  <2> QED
    BY <2>1, <2>2
<1>6. H1 \subseteq {control_tcb} /\ H2 \subseteq {protection_tcb}
      /\ \A x \in H1 \cup H2 : Waits(x) /\ k.state[x] = "BLOCKED"
  BY <1>3
<1> HIDE DEF k1, H1
<1>7. /\ k1 \in Kernel /\ ListedStates(k1)
      /\ Range(k1.waiters[f]) = Range(k.waiters[f])
      /\ InLine(k1) \subseteq InLine(k)
      /\ \A x \in Range(k.waiters[f]) : k1.state[x] = k.state[x]
  <2>1. /\ k1 \in Kernel /\ ListedStates(k1)
        /\ \A v \in WaitList : Range(k1.waiters[v]) = Range(k.waiters[v]) \ H1
        /\ \A x \in Task \ H1 : k1.state[x] = k.state[x]
    BY <1>5 DEF Awake
  <2>2. \A x \in Range(k.waiters[f]) : x \in Task \ H1
    BY <1>2, <1>3, <1>6
  <2>3. Range(k1.waiters[f]) = Range(k.waiters[f])
    BY <1>2, <2>1, <2>2
  <2>4. InLine(k1) \subseteq InLine(k)
    BY <1>2, <2>1 DEF InLine
  <2> QED
    BY <2>1, <2>2, <2>3, <2>4
<1>8. Sched(k2, o, Leaving) /\ Awake(k1, k2, H2)
  <2>1. CASE over
    <3>1. /\ Range(k1.waiters[f]) \subseteq {protection_tcb}
          /\ \A x \in Range(k1.waiters[f]) : k1.state[x] = "BLOCKED" /\ x \notin InLine(k1)
      BY <1>3, <1>7
    <3>2. Sched(wake_waiter(k1, f), o, Leaving)
          /\ Awake(k1, wake_waiter(k1, f), Range(k1.waiters[f]))
      BY <1>2, <1>5, <1>7, <3>1, WakeAwakes
    <3>3. Range(k1.waiters[f]) = H2
      BY <1>7, <2>1
    <3> QED
      BY <2>1, <3>2, <3>3
  <2>2. CASE ~ over
    <3>1. Awake(k1, k1, {})
      BY <1>7 DEF Awake
    <3> QED
      BY <1>5, <2>2, <3>1
  <2> QED
    BY <2>1, <2>2
<1>9. needs_yield <=> H1 \cup H2 # {}
  <2>1. /\ k.waiters[adc_rx] # << >> <=> Range(k.waiters[adc_rx]) # {}
        /\ k1.waiters[f] # << >> <=> Range(k1.waiters[f]) # {}
    BY <1>2, <1>7, ListTypes, EmptyRange
  <2> QED
    BY <1>7, <2>1 DEF H1
<1>10. H1 \cup H2 = {} => k2 = k
  <2>1. CASE ~ needs_yield
    <3>1. k1 = k
      BY <2>1 DEF k1, wake_waiter
    <3> QED
      BY <2>1, <3>1 DEF wake_waiter
  <2> QED
    BY <1>9, <2>1
<1> DEFINE H == H1 \cup H2
<1>11. H = WokenBy(over)
  BY DEF H1, WokenBy
<1> HIDE DEF needs_yield, k2, H2
<1>12. Awake(k, k2, H)
  BY <1>2, <1>5, <1>6, <1>8, AwakeTwice
<1>13. /\ H \in SUBSET Task /\ \A x \in H : Waits(x) /\ k.state[x] = "BLOCKED"
       /\ H = {} => k' = k
       /\ H # {} => k' = request_context_switch(k2)
  BY <1>1, <1>2, <1>6, <1>9, <1>10
<1> HIDE DEF H
<1>14. CoreInv' /\ Awake(k, k', H)
  BY <1>1, <1>8, <1>12, <1>13, AwakeKeeps
<1> QED
  BY <1>11, <1>14

-----------------------------------------------------------------------------
(* The call at the top of each loop. *)

\* The wait list of each blocking call at the top of a loop, and its task.
Owns(w, t) ==
    \/ w = g_fault_semaphore /\ t = protection_tcb
    \/ w = adc_rx /\ t = control_tcb
    \/ w = uart_rx /\ t = comms_tcb

\* A step of t in its own call leaves the lists of the others alone.
LEMMA OwnCallKeeps ==
    ASSUME CoreInv, NEW w, NEW t, Owns(w, t), OwnList(w, t)',
           \A v \in AppLists \ {w} : Range(k'.waiters[v]) = Range(k.waiters[v]),
           \A x \in Task \ {t} : /\ Waits(x)' <=> Waits(x)
                                 /\ k'.state[x] = k.state[x]
                                 /\ k'.last_wait_result[x] = k.last_wait_result[x],
           LockInv', RunInv', StatusCalls', OnlyLoggerSleeps'
    PROVE  CoreInv' /\ \A v, x : Owns(v, x) /\ v # w => CalmFor(v, x)
<1>1. ASSUME NEW v, NEW x, Owns(v, x), v # w PROVE CalmFor(v, x)
  <2>1. v \in AppLists \ {w} /\ x \in Task \ {t}
    BY <1>1, TasksDiffer, ListsDiffer DEF Owns, AppLists
  <2> QED
    BY <2>1 DEF CalmFor
<1>2. \A v, x : Owns(v, x) => OwnList(v, x)
  BY DEF CoreInv, OwnLists, Owns
<1>3. ASSUME NEW v, NEW x, Owns(v, x), v # w PROVE OwnList(v, x)'
  <2>1. OwnList(v, x) /\ CalmFor(v, x)
    BY <1>1, <1>2, <1>3
  <2> QED
    BY <2>1, CalmKeeps
<1>4. /\ OwnList(g_fault_semaphore, protection_tcb)' /\ OwnList(adc_rx, control_tcb)'
      /\ OwnList(uart_rx, comms_tcb)'
  <2>1. CASE w = g_fault_semaphore /\ t = protection_tcb
    BY <1>3, <2>1, ListsDiffer DEF Owns
  <2>2. CASE w = adc_rx /\ t = control_tcb
    BY <1>3, <2>2, ListsDiffer DEF Owns
  <2>3. CASE w = uart_rx /\ t = comms_tcb
    BY <1>3, <2>3, ListsDiffer DEF Owns
  <2> QED
    BY <2>1, <2>2, <2>3 DEF Owns
<1>5. Range(k'.waiters[adc_tx]) = {} /\ Range(k'.waiters[uart_tx]) = {}
  <2>1. adc_tx \in AppLists \ {w} /\ uart_tx \in AppLists \ {w}
    BY ListsDiffer DEF Owns, AppLists
  <2> QED
    BY <2>1 DEF CoreInv, OwnLists
<1> QED
  BY <1>1, <1>4, <1>5 DEF CoreInv, OwnLists

\* A call that blocks.
LEMMA OwnCallBlocks ==
    ASSUME CoreInv, NEW w, NEW t, Owns(w, t), Calls(t), at[t] = "wait",
           k' = block(k, w, t, WAIT_FOREVER), pc' = [pc EXCEPT ![t] = "block"],
           UNCHANGED mutexState, at' = at
    PROVE  /\ CoreInv' /\ \A v, x : Owns(v, x) /\ v # w => CalmFor(v, x)
           /\ k'.state[t] = "BLOCKED"
<1>1. /\ t \in Workers /\ t \in Task /\ w \in AppLists \ {g_status_mutex}
      /\ OwnList(w, t) /\ at \in [Task -> Place]
  BY TasksDiffer, ListsDiffer DEF Owns, Workers, AppLists, CoreInv, OwnLists, StatusCalls
<1>2. /\ LockInv' /\ RunInv' /\ StatusCalls' /\ OnlyLoggerSleeps'
      /\ Range(k'.waiters[w]) = Range(k.waiters[w]) \cup {t}
      /\ \A v \in AppLists \ {w} : Range(k'.waiters[v]) = Range(k.waiters[v])
      /\ Waits(t)' /\ k'.state[t] = "BLOCKED"
      /\ \A x \in Task \ {t} : /\ Waits(x)' <=> Waits(x)
                               /\ k'.state[x] = k.state[x]
                               /\ k'.last_wait_result[x] = k.last_wait_result[x]
  BY <1>1, EventBlocks
<1>3. OwnList(w, t)'
  BY <1>1, <1>2 DEF OwnList
<1> QED
  BY <1>2, <1>3, OwnCallKeeps

\* A call that returns from its wait: the caller's list is empty.
LEMMA OwnCallResumes ==
    ASSUME CoreInv, NEW w, NEW t, Owns(w, t), Executes(t), pc[t] = "wake", at[t] = "wait",
           k' = UnlinkEvent(k, t), pc' = [pc EXCEPT ![t] = "app"], UNCHANGED mutexState,
           \A x \in Task \ {t} : at'[x] = at[x], at' \in [Task -> Place]
    PROVE  /\ CoreInv' /\ \A v, x : Owns(v, x) /\ v # w => CalmFor(v, x)
           /\ ~ Waits(t)' /\ Waits(t) /\ k.state[t] = "RUNNING"
           /\ Range(k'.waiters[w]) = {}
<1>1. /\ t \in Workers /\ t \in Task /\ w \in AppLists
      /\ OwnList(w, t)
  BY TasksDiffer DEF Owns, Workers, AppLists, CoreInv, OwnLists
<1>2. /\ LockInv' /\ RunInv' /\ StatusCalls' /\ OnlyLoggerSleeps'
      /\ \A v \in AppLists : Range(k'.waiters[v]) = Range(k.waiters[v])
      /\ ~ Waits(t)' /\ Waits(t)
      /\ \A v \in AppLists : t \notin Range(k.waiters[v])
      /\ k.state[t] = "RUNNING"
      /\ \A x \in Task \ {t} : /\ Waits(x)' <=> Waits(x)
                               /\ k'.state[x] = k.state[x]
                               /\ k'.last_wait_result[x] = k.last_wait_result[x]
  BY <1>1, EventResumes
<1>3. Range(k'.waiters[w]) = {}
  BY <1>1, <1>2 DEF OwnList
<1>4. OwnList(w, t)'
  BY <1>3 DEF OwnList
<1> QED
  BY <1>2, <1>3, <1>4, OwnCallKeeps

\* A call that returns at once: the caller's list is empty.
LEMMA OwnCallReturns ==
    ASSUME CoreInv, NEW w, NEW t, Owns(w, t), Calls(t), at[t] = "wait",
           k' = k, pc' = pc, UNCHANGED mutexState,
           \A x \in Task \ {t} : at'[x] = at[x], at' \in [Task -> Place]
    PROVE  /\ CoreInv' /\ Calm /\ \A v, x : Owns(v, x) => CalmFor(v, x)
           /\ ~ Waits(t) /\ ~ Waits(t)'
           /\ Range(k'.waiters[w]) = {}
<1>1. /\ t \in Workers /\ t \in Task /\ w \in AppLists
      /\ OwnList(w, t)
  BY TasksDiffer DEF Owns, Workers, AppLists, CoreInv, OwnLists
<1>2. ~ InStatusCall(t) /\ Executes(t) /\ pc[t] = "app"
  BY DEF InStatusCall, Calls
<1>3. CoreInv' /\ Calm
  BY <1>1, <1>2, MovesOn
<1>4. t \notin Range(k.waiters[w])
  BY <1>1, <1>2, CallerFacts
<1>5. ~ Waits(t) /\ ~ Waits(t)'
  BY <1>2 DEF Waits, InLock
<1>6. Range(k'.waiters[w]) = {}
  BY <1>1, <1>4 DEF OwnList
<1> QED
  BY <1>3, <1>5, <1>6 DEF Calm, Owns

-----------------------------------------------------------------------------
(* The data. *)

Counted(q, depth) == "count" \in DOMAIN q /\ q.count \in 0 .. depth

\* The types of the application's data.  The ramp's counter stays below its end
\* as long as the ramp lasts.
Values ==
    /\ {state, local_state} \subseteq PsState
    /\ fault_units \in 0 .. 1 /\ DOMAIN got = Task
    /\ soft_start_step \in 0 .. SOFT_START_RAMP_STEPS
    /\ local_state = "SOFT_START" => soft_start_step < SOFT_START_RAMP_STEPS
    /\ Counted(adc, ADC_QUEUE_DEPTH) /\ Counted(uart, UART_RX_QUEUE_DEPTH)
    /\ line_len \in 0 .. CLI_LINE_BUF_LEN - 1

\* Nobody is in wait list w beside an item of q, and whoever was woken there finds one.
Received(w, t, q) ==
    /\ Range(k.waiters[w]) # {} => q.count = 0
    /\ Waits(t) /\ k.state[t] # "BLOCKED" => q.count > 0

SamplesReceived == Received(adc_rx, control_tcb, adc)
BytesReceived == Received(uart_rx, comms_tcb, uart)

\* The inductive invariant of the application.
AppInv == CoreInv /\ Values /\ SamplesReceived /\ BytesReceived /\ TripPending

\* TripPending in the words of Waits.
LEMMA TripMeans ==
    TripPending <=> (tripped => \/ fault_units = 1
                                \/ at[protection_tcb] = "note"
                                \/ /\ Waits(protection_tcb)
                                   /\ k.state[protection_tcb] # "BLOCKED"
                                   /\ k.last_wait_result[protection_tcb] = "OK")
BY DEF TripPending, Waits

\* A step that leaves a list and its queue alone keeps what is said of them.
LEMMA CalmReceived ==
    /\ SamplesReceived /\ CalmFor(adc_rx, control_tcb) /\ adc' = adc => SamplesReceived'
    /\ BytesReceived /\ CalmFor(uart_rx, comms_tcb) /\ uart' = uart => BytesReceived'
BY DEF SamplesReceived, BytesReceived, Received, CalmFor

\* The same for faults.
LEMMA CalmTrip ==
    ASSUME TripPending, CalmFor(g_fault_semaphore, protection_tcb), fault_units' = fault_units,
           tripped' = tripped, at'[protection_tcb] = at[protection_tcb]
    PROVE  TripPending'
<1>1. tripped' => \/ fault_units' = 1
                  \/ at'[protection_tcb] = "note"
                  \/ /\ Waits(protection_tcb)'
                     /\ k'.state[protection_tcb] # "BLOCKED"
                     /\ k'.last_wait_result[protection_tcb] = "OK"
  BY TripMeans DEF CalmFor
<1> QED
  BY <1>1 DEF TripPending, Waits

\* A step that leaves all lists and queues alone.
LEMMA CalmData ==
    ASSUME AppInv, CoreInv', Values', Calm, adc' = adc, uart' = uart,
           fault_units' = fault_units,
           tripped' = FALSE \/ (tripped' = tripped /\ at'[protection_tcb] = at[protection_tcb])
    PROVE  AppInv'
<1>1. SamplesReceived' /\ BytesReceived'
  BY CalmReceived DEF AppInv, Calm
<1>2. TripPending'
  <2>1. CASE tripped' = FALSE
    BY <2>1 DEF TripPending
  <2>2. CASE tripped' = tripped /\ at'[protection_tcb] = at[protection_tcb]
    BY <2>2, CalmTrip DEF AppInv, Calm
  <2> QED
    BY <2>1, <2>2
<1> QED
  BY <1>1, <1>2 DEF AppInv

\* Values of variables that stay.
LEMMA SameValues ==
    ASSUME Values, UNCHANGED <<state, local_state, fault_units, got, soft_start_step, adc, uart, line_len>>
    PROVE  Values'
BY DEF Values, Counted

\* A sample that is queued, or taken, is counted.
LEMMA AdcCounts ==
    ASSUME Counted(adc, ADC_QUEUE_DEPTH)
    PROVE  /\ \A x : Adc!copy_in(x) => "count" \in DOMAIN adc' /\ adc'.count = adc.count + 1
           /\ \A t : Adc!copy_out(t) =>
                 "count" \in DOMAIN adc' /\ adc'.count = adc.count - 1 /\ adc' # adc
<1>1. ASSUME NEW x, Adc!copy_in(x)
      PROVE  "count" \in DOMAIN adc' /\ adc'.count = adc.count + 1
  BY <1>1 DEF Counted, Adc!copy_in
<1>2. ASSUME NEW t, Adc!copy_out(t)
      PROVE  "count" \in DOMAIN adc' /\ adc'.count = adc.count - 1 /\ adc' # adc
  <2>1. "count" \in DOMAIN adc' /\ adc'.count = adc.count - 1
    BY <1>2 DEF Counted, Adc!copy_out
  <2> QED
    BY <2>1 DEF Counted
<1> QED
  BY <1>1, <1>2

\* So is a byte.
LEMMA UartCounts ==
    ASSUME Counted(uart, UART_RX_QUEUE_DEPTH)
    PROVE  /\ \A x : Uart!copy_in(x) => "count" \in DOMAIN uart' /\ uart'.count = uart.count + 1
           /\ \A t : Uart!copy_out(t) =>
                 "count" \in DOMAIN uart' /\ uart'.count = uart.count - 1 /\ uart' # uart
<1>1. ASSUME NEW x, Uart!copy_in(x)
      PROVE  "count" \in DOMAIN uart' /\ uart'.count = uart.count + 1
  BY <1>1 DEF Counted, Uart!copy_in
<1>2. ASSUME NEW t, Uart!copy_out(t)
      PROVE  "count" \in DOMAIN uart' /\ uart'.count = uart.count - 1 /\ uart' # uart
  <2>1. "count" \in DOMAIN uart' /\ uart'.count = uart.count - 1
    BY <1>2 DEF Counted, Uart!copy_out
  <2> QED
    BY <2>1 DEF Counted
<1> QED
  BY <1>1, <1>2

-----------------------------------------------------------------------------
(* The steps of the application. *)

\* Where t's loop is after a step of the call at its top.
LEMMA LoopMoves ==
    ASSUME at \in [Task -> Place], NEW t \in Task, NEW place \in Place, Goto(t, place)
    PROVE  /\ at' \in [Task -> Place] /\ at'[t] = place
           /\ \A x \in Task \ {t} : at'[x] = at[x]
BY DEF Goto

\* ProtectionTask takes a unit, waits for one, or has been given one.
LEMMA WaitForFaultKeeps ==
    ASSUME AppInv, wait_for_fault
    PROVE  AppInv'
<1> DEFINE t == protection_tcb
           f == g_fault_semaphore
           place == IF pc'[t] = "block" THEN "wait" ELSE IF got'[t] = "OK" THEN "note" ELSE "wait"
<1>1. /\ at[t] = "wait" /\ UNCHANGED mutexState
      /\ UNCHANGED <<state, local_state, soft_start_step, adc, uart, line_len, tripped>>
  BY DEF wait_for_fault, queues, locals
<1>2. /\ t \in Task /\ Owns(f, t) /\ CoreInv /\ at \in [Task -> Place] /\ DOMAIN got = Task
      /\ pc \in [Task -> PcLabel] /\ k \in Kernel
      /\ \A v \in {adc_rx, uart_rx} : v # f
      /\ Owns(adc_rx, control_tcb) /\ Owns(uart_rx, comms_tcb)
  BY TasksDiffer, ListsDiffer
     DEF Owns, AppInv, CoreInv, StatusCalls, Values, LockInv, MutexTypeOK, TypeOK
<1>3. Goto(t, place) /\ place \in Place
  BY DEF wait_for_fault, AfterCall, Place
<1> HIDE DEF place
<1>4. /\ at' \in [Task -> Place] /\ at'[t] = place
      /\ \A x \in Task \ {t} : at'[x] = at[x]
  BY <1>2, <1>3, LoopMoves
<1>5. CASE Fault!semaphore_take(t, WAIT_FOREVER) /\ fault_units > 0
  <2>1. /\ Calls(t) /\ fault_units' = fault_units - 1
        /\ got' = [got EXCEPT ![t] = "OK"] /\ k' = k /\ pc' = pc
    BY <1>2, <1>5, FaultTakes
  <2>2. CoreInv' /\ Calm
    BY <1>1, <1>2, <1>4, <2>1, OwnCallReturns
  <2>3. SamplesReceived' /\ BytesReceived'
    BY <1>1, <2>2, CalmReceived DEF AppInv, Calm
  <2>4. place = "note"
    BY <1>2, <2>1 DEF place, Calls
  <2>5. TripPending'
    BY <1>4, <2>4 DEF TripPending
  <2>6. Values'
    BY <1>1, <1>5, <2>1 DEF AppInv, Values, Counted
  <2> QED
    BY <2>2, <2>3, <2>5, <2>6 DEF AppInv
<1>6. CASE Fault!semaphore_take(t, WAIT_FOREVER) /\ ~ (fault_units > 0)
  <2>1. /\ Calls(t) /\ fault_units = 0 /\ fault_units' = fault_units /\ got' = got
        /\ k' = block(k, f, t, WAIT_FOREVER) /\ pc' = [pc EXCEPT ![t] = "block"]
    BY <1>2, <1>6, FaultTakes
  <2>2. place = "wait"
    BY <1>2, <2>1 DEF place
  <2>3. at' = at
    BY <1>1, <1>2, <1>4, <2>2
  <2>4. CoreInv' /\ \A v, x : Owns(v, x) /\ v # f => CalmFor(v, x)
    BY <1>1, <1>2, <2>1, <2>3, OwnCallBlocks
  <2>5. SamplesReceived' /\ BytesReceived'
    BY <1>1, <1>2, <2>4, CalmReceived DEF AppInv
  <2>6. ~ tripped
    BY <1>1, <2>1 DEF AppInv, TripPending, InLock, Calls
  <2>7. TripPending'
    BY <1>1, <2>6 DEF TripPending
  <2>8. Values'
    BY <1>1, <2>1, SameValues DEF AppInv
  <2> QED
    BY <2>4, <2>5, <2>7, <2>8 DEF AppInv
<1>7. CASE Fault!semaphore_take_resumed(t)
  <2>1. /\ Executes(t) /\ pc[t] = "wake"
        /\ k' = UnlinkEvent(k, t) /\ pc' = [pc EXCEPT ![t] = "app"]
        /\ got' = [got EXCEPT ![t] = k.last_wait_result[t]] /\ fault_units' = fault_units
    BY <1>2, <1>7, FaultResumes
  <2>2. CoreInv' /\ \A v, x : Owns(v, x) /\ v # f => CalmFor(v, x)
    BY <1>1, <1>2, <1>4, <2>1, OwnCallResumes
  <2>3. SamplesReceived' /\ BytesReceived'
    BY <1>1, <1>2, <2>2, CalmReceived DEF AppInv
  <2>4. k.last_wait_result[t] = "OK" => place = "note"
    BY <1>2, <2>1 DEF place
  <2>5. TripPending'
    BY <1>1, <1>4, <2>1, <2>4 DEF AppInv, TripPending
  <2>6. Values'
    BY <1>1, <1>2, <2>1 DEF AppInv, Values, Counted
  <2> QED
    BY <2>2, <2>3, <2>5, <2>6 DEF AppInv
<1> QED
  BY <1>5, <1>6, <1>7 DEF wait_for_fault

\* ControlTask receives a sample, or waits for one.
LEMMA ReceiveSampleKeeps ==
    ASSUME AppInv, receive_sample
    PROVE  AppInv'
<1> DEFINE t == control_tcb
           w == adc_rx
           place == IF pc'[t] = "block" THEN "wait" ELSE IF adc' # adc THEN "measure" ELSE "wait"
<1>1. /\ at[t] = "wait" /\ UNCHANGED mutexState
      /\ UNCHANGED <<state, local_state, soft_start_step, fault_units, got, uart, line_len, tripped>>
  BY DEF receive_sample, semState, locals
<1>2. /\ t \in Task /\ Owns(w, t) /\ CoreInv /\ at \in [Task -> Place]
      /\ pc \in [Task -> PcLabel] /\ k \in Kernel
      /\ \A v \in {g_fault_semaphore, uart_rx} : v # w
      /\ Owns(g_fault_semaphore, protection_tcb) /\ Owns(uart_rx, comms_tcb)
      /\ t # protection_tcb /\ protection_tcb \in Task
      /\ Counted(adc, ADC_QUEUE_DEPTH)
  BY TasksDiffer, ListsDiffer
     DEF Owns, AppInv, CoreInv, StatusCalls, Values, LockInv, MutexTypeOK, TypeOK
<1>3. Goto(t, place) /\ place \in Place
  BY DEF receive_sample, AfterCall, Place
<1>5. pc'[t] = "block" => place = "wait"
  OBVIOUS
<1> HIDE DEF place
<1>6. /\ at' \in [Task -> Place] /\ at'[t] = place
      /\ \A x \in Task \ {t} : at'[x] = at[x]
  BY <1>2, <1>3, LoopMoves
<1>7. at'[protection_tcb] = at[protection_tcb]
  BY <1>2, <1>6
<1>8. k.waiters[adc_tx] = << >>
  <2>1. k.waiters[adc_tx] \in Seq(Task) /\ Range(k.waiters[adc_tx]) = {}
    BY <1>2, ListTypes, ListsDiffer DEF CoreInv, OwnLists
  <2> QED
    BY <2>1, EmptyRange
<1>9. ASSUME CalmFor(uart_rx, comms_tcb), CalmFor(g_fault_semaphore, protection_tcb)
      PROVE  BytesReceived' /\ TripPending'
  BY <1>1, <1>7, <1>9, CalmReceived, CalmTrip DEF AppInv
<1>10. ASSUME adc' = adc \/ (adc.count > 0 /\ Adc!copy_out(t)) PROVE Values'
  <2>1. CASE adc' = adc
    BY <1>1, <2>1, SameValues DEF AppInv
  <2>2. CASE adc.count > 0 /\ Adc!copy_out(t)
    <3>1. "count" \in DOMAIN adc' /\ adc'.count = adc.count - 1
      BY <1>2, <2>2, AdcCounts
    <3>2. Counted(adc', ADC_QUEUE_DEPTH)
      BY <1>2, <2>2, <3>1, PowerSupplyAssumption DEF Counted
    <3> QED
      BY <1>1, <3>2 DEF AppInv, Values
  <2> QED
    BY <1>10, <2>1, <2>2
<1>11. CASE Adc!queue_receive(t, WAIT_FOREVER) /\ adc.count > 0
  <2>1. /\ Calls(t) /\ Adc!copy_out(t) /\ k' = k /\ pc' = pc
    BY <1>2, <1>8, <1>11, AdcReceives
  <2>2. /\ CoreInv' /\ Calm /\ ~ Waits(t)' /\ Range(k'.waiters[w]) = {}
    BY <1>1, <1>2, <1>6, <2>1, OwnCallReturns
  <2>3. SamplesReceived'
    BY <2>2 DEF SamplesReceived, Received
  <2>4. BytesReceived' /\ TripPending'
    BY <1>9, <2>2 DEF Calm
  <2>5. Values'
    BY <1>10, <1>11, <2>1
  <2> QED
    BY <2>2, <2>3, <2>4, <2>5 DEF AppInv
<1>12. CASE Adc!queue_receive(t, WAIT_FOREVER) /\ ~ (adc.count > 0)
  <2>1. /\ Calls(t) /\ adc.count = 0 /\ adc' = adc
        /\ k' = block(k, w, t, WAIT_FOREVER) /\ pc' = [pc EXCEPT ![t] = "block"]
    BY <1>2, <1>8, <1>12, AdcReceives
  <2>2. at' = at
    BY <1>1, <1>2, <1>5, <1>6, <2>1
  <2>3. /\ CoreInv' /\ \A v, x : Owns(v, x) /\ v # w => CalmFor(v, x)
        /\ k'.state[t] = "BLOCKED"
    BY <1>1, <1>2, <2>1, <2>2, OwnCallBlocks
  <2>4. SamplesReceived'
    BY <2>1, <2>3 DEF SamplesReceived, Received
  <2>5. BytesReceived' /\ TripPending'
    BY <1>2, <1>9, <2>3
  <2>6. Values'
    BY <1>10, <2>1
  <2> QED
    BY <2>3, <2>4, <2>5, <2>6 DEF AppInv
<1>13. CASE Adc!queue_receive_resumed(t)
  <2>1. /\ Executes(t) /\ pc[t] = "wake"
        /\ k' = UnlinkEvent(k, t) /\ pc' = [pc EXCEPT ![t] = "app"]
        /\ (adc.count > 0 /\ Adc!copy_out(t)) \/ adc' = adc
    BY <1>2, <1>13, AdcResumes
  <2>2. /\ CoreInv' /\ \A v, x : Owns(v, x) /\ v # w => CalmFor(v, x)
        /\ ~ Waits(t)' /\ Range(k'.waiters[w]) = {}
    BY <1>1, <1>2, <1>6, <2>1, OwnCallResumes
  <2>3. SamplesReceived'
    BY <2>2 DEF SamplesReceived, Received
  <2>4. BytesReceived' /\ TripPending'
    BY <1>2, <1>9, <2>2
  <2>5. Values'
    BY <1>10, <2>1
  <2> QED
    BY <2>2, <2>3, <2>4, <2>5 DEF AppInv
<1> QED
  BY <1>11, <1>12, <1>13 DEF receive_sample

\* CommsTask receives a byte, or waits for one.
LEMMA ReceiveByteKeeps ==
    ASSUME AppInv, receive_byte
    PROVE  AppInv'
<1> DEFINE t == comms_tcb
           w == uart_rx
<1>1. /\ at[t] = "wait" /\ UNCHANGED mutexState
      /\ UNCHANGED <<state, local_state, soft_start_step, fault_units, got, adc, tripped>>
  BY DEF receive_byte, semState
<1>2. /\ t \in Task /\ Owns(w, t) /\ CoreInv /\ at \in [Task -> Place]
      /\ pc \in [Task -> PcLabel] /\ k \in Kernel
      /\ \A v \in {g_fault_semaphore, adc_rx} : v # w
      /\ Owns(g_fault_semaphore, protection_tcb) /\ Owns(adc_rx, control_tcb)
      /\ t # protection_tcb /\ protection_tcb \in Task
      /\ Counted(uart, UART_RX_QUEUE_DEPTH)
  BY TasksDiffer, ListsDiffer
     DEF Owns, AppInv, CoreInv, StatusCalls, Values, LockInv, MutexTypeOK, TypeOK
<1>3. line_len' \in 0 .. CLI_LINE_BUF_LEN - 1
  <2>1. line_len \in 0 .. CLI_LINE_BUF_LEN - 1 /\ CLI_LINE_BUF_LEN \in Nat \ {0}
    BY PowerSupplyAssumption DEF AppInv, Values
  <2>2. \/ line_len' = line_len \/ line_len' = 0
        \/ line_len < CLI_LINE_BUF_LEN - 1 /\ line_len' = line_len + 1
    BY DEF receive_byte, handle_byte
  <2> QED
    BY <2>1, <2>2
<1>4. \/ at' = at
      \/ uart' # uart /\ \E place \in Place : Goto(t, place)
  BY DEF receive_byte, handle_byte, Place
<1>5. at' \in [Task -> Place] /\ \A x \in Task \ {t} : at'[x] = at[x]
  <2>1. CASE at' = at
    BY <1>2, <2>1
  <2>2. ASSUME NEW place \in Place, Goto(t, place)
        PROVE  at' \in [Task -> Place] /\ \A x \in Task \ {t} : at'[x] = at[x]
    BY <1>2, <2>2, LoopMoves
  <2> QED
    BY <1>4, <2>1, <2>2
<1>6. at'[protection_tcb] = at[protection_tcb]
  BY <1>2, <1>5
<1>7. k.waiters[uart_tx] = << >>
  <2>1. k.waiters[uart_tx] \in Seq(Task) /\ Range(k.waiters[uart_tx]) = {}
    BY <1>2, ListTypes, ListsDiffer DEF CoreInv, OwnLists
  <2> QED
    BY <2>1, EmptyRange
<1>8. ASSUME CalmFor(adc_rx, control_tcb), CalmFor(g_fault_semaphore, protection_tcb)
      PROVE  SamplesReceived' /\ TripPending'
  BY <1>1, <1>6, <1>8, CalmReceived, CalmTrip DEF AppInv
<1>9. ASSUME uart' = uart \/ (uart.count > 0 /\ Uart!copy_out(t)) PROVE Values'
  <2>1. Counted(uart', UART_RX_QUEUE_DEPTH)
    <3>1. CASE uart' = uart
      BY <1>2, <3>1
    <3>2. CASE uart.count > 0 /\ Uart!copy_out(t)
      <4>1. "count" \in DOMAIN uart' /\ uart'.count = uart.count - 1
        BY <1>2, <3>2, UartCounts
      <4> QED
        BY <1>2, <3>2, <4>1, PowerSupplyAssumption DEF Counted
    <3> QED
      BY <1>9, <3>1, <3>2
  <2> QED
    BY <1>1, <1>3, <2>1 DEF AppInv, Values
<1>10. CASE Uart!queue_receive(t, WAIT_FOREVER) /\ uart.count > 0
  <2>1. /\ Calls(t) /\ Uart!copy_out(t) /\ k' = k /\ pc' = pc
    BY <1>2, <1>7, <1>10, UartReceives
  <2>2. /\ CoreInv' /\ Calm /\ ~ Waits(t)' /\ Range(k'.waiters[w]) = {}
    BY <1>1, <1>2, <1>5, <2>1, OwnCallReturns
  <2>3. BytesReceived'
    BY <2>2 DEF BytesReceived, Received
  <2>4. SamplesReceived' /\ TripPending'
    BY <1>8, <2>2 DEF Calm
  <2>5. Values'
    BY <1>9, <1>10, <2>1
  <2> QED
    BY <2>2, <2>3, <2>4, <2>5 DEF AppInv
<1>11. CASE Uart!queue_receive(t, WAIT_FOREVER) /\ ~ (uart.count > 0)
  <2>1. /\ Calls(t) /\ uart.count = 0 /\ uart' = uart
        /\ k' = block(k, w, t, WAIT_FOREVER) /\ pc' = [pc EXCEPT ![t] = "block"]
    BY <1>2, <1>7, <1>11, UartReceives
  <2>2. at' = at
    BY <1>4, <2>1
  <2>3. /\ CoreInv' /\ \A v, x : Owns(v, x) /\ v # w => CalmFor(v, x)
        /\ k'.state[t] = "BLOCKED"
    BY <1>1, <1>2, <2>1, <2>2, OwnCallBlocks
  <2>4. BytesReceived'
    BY <2>1, <2>3 DEF BytesReceived, Received
  <2>5. SamplesReceived' /\ TripPending'
    BY <1>2, <1>8, <2>3
  <2>6. Values'
    BY <1>9, <2>1
  <2> QED
    BY <2>3, <2>4, <2>5, <2>6 DEF AppInv
<1>12. CASE Uart!queue_receive_resumed(t)
  <2>1. /\ Executes(t) /\ pc[t] = "wake"
        /\ k' = UnlinkEvent(k, t) /\ pc' = [pc EXCEPT ![t] = "app"]
        /\ (uart.count > 0 /\ Uart!copy_out(t)) \/ uart' = uart
    BY <1>2, <1>12, UartResumes
  <2>2. /\ CoreInv' /\ \A v, x : Owns(v, x) /\ v # w => CalmFor(v, x)
        /\ ~ Waits(t)' /\ Range(k'.waiters[w]) = {}
    BY <1>1, <1>2, <1>5, <2>1, OwnCallResumes
  <2>3. BytesReceived'
    BY <2>2 DEF BytesReceived, Received
  <2>4. SamplesReceived' /\ TripPending'
    BY <1>2, <1>8, <2>2
  <2>5. Values'
    BY <1>9, <2>1
  <2> QED
    BY <2>2, <2>3, <2>4, <2>5 DEF AppInv
<1> QED
  BY <1>10, <1>11, <1>12 DEF receive_byte

\* A call of a status function touches no data.
LEMMA LockStatusKeeps ==
    ASSUME AppInv, NEW t \in Workers, lock_status(t)
    PROVE  AppInv'
<1>1. UNCHANGED <<at, state, local_state, fault_units, got, soft_start_step, adc, uart, line_len, tripped>>
  BY DEF lock_status, semState, queues, locals
<1>2. CoreInv' /\ Calm
  BY StatusCallKeeps DEF AppInv
<1>3. Values'
  BY <1>1, SameValues DEF AppInv
<1> QED
  BY <1>1, <1>2, <1>3, CalmData

\* The end of an access: the loop goes on to next, and only ProtectionTask's own
\* access clears the trip.
LEMMA AccessKeeps ==
    ASSUME AppInv, NEW t \in Workers, NEW place, Accesses(t, place),
           NEW next \in Place, Goto(t, next), Values',
           tripped' = FALSE \/ (tripped' = tripped /\ t # protection_tcb)
    PROVE  AppInv'
<1>1. adc' = adc /\ uart' = uart /\ fault_units' = fault_units
  BY DEF Accesses, semState, queues
<1>2. CoreInv' /\ Calm
  BY StatusUnlocks DEF AppInv
<1>3. t # protection_tcb => at'[protection_tcb] = at[protection_tcb]
  <2>1. at \in [Task -> Place] /\ t \in Task /\ protection_tcb \in Task
    BY TasksDiffer DEF AppInv, CoreInv, StatusCalls, Workers
  <2> QED
    BY <2>1, LoopMoves
<1> QED
  BY <1>1, <1>2, <1>3, CalmData

\* The step of ProtectionTask.
LEMMA ProtectionStepKeeps ==
    ASSUME AppInv, ProtectionStep
    PROVE  AppInv'
<1>1. protection_tcb \in Workers
  BY DEF Workers
<1>2. CASE ps_status_note_fault
  <2>1. /\ Accesses(protection_tcb, "note") /\ Goto(protection_tcb, "wait") /\ "wait" \in Place
        /\ state' = "FAULT" /\ tripped' = FALSE
    BY <1>2 DEF ps_status_note_fault, Place
  <2>2. UNCHANGED <<local_state, fault_units, got, soft_start_step, adc, uart, line_len>>
    BY <1>2 DEF ps_status_note_fault, Accesses, semState, queues, locals
  <2>3. Values'
    BY <2>1, <2>2 DEF AppInv, Values, Counted, PsState
  <2> QED
    BY <1>1, <2>1, <2>3, AccessKeeps
<1> QED
  BY <1>1, <1>2, WaitForFaultKeeps, LockStatusKeeps DEF ProtectionStep

\* The step of ControlTask.
LEMMA ControlStepKeeps ==
    ASSUME AppInv, ControlStep
    PROVE  AppInv'
<1> DEFINE t == control_tcb
<1>1. t \in Workers /\ t # protection_tcb /\ {"wait", "get", "set"} \subseteq Place
  BY TasksDiffer DEF Workers, Place
<1>2. ASSUME NEW place, Accesses(t, place), UNCHANGED <<line_len, tripped>>,
             {state', local_state'} \subseteq PsState,
             soft_start_step' \in 0 .. SOFT_START_RAMP_STEPS,
             local_state' = "SOFT_START" => soft_start_step' < SOFT_START_RAMP_STEPS,
             NEW next \in Place, Goto(t, next)
      PROVE  AppInv'
  <2>1. UNCHANGED <<fault_units, got, adc, uart>>
    BY <1>2 DEF Accesses, semState, queues
  <2>2. Values'
    BY <1>2, <2>1 DEF AppInv, Values, Counted
  <2> QED
    BY <1>1, <1>2, <2>2, AccessKeeps
<1>3. /\ {state, local_state} \subseteq PsState
      /\ soft_start_step \in 0 .. SOFT_START_RAMP_STEPS
      /\ local_state = "SOFT_START" => soft_start_step < SOFT_START_RAMP_STEPS
      /\ SOFT_START_RAMP_STEPS \in Nat \ {0}
  BY PowerSupplyAssumption DEF AppInv, Values
<1>4. CASE run_state_machine
  <2>1. Accesses(t, "measure") /\ UNCHANGED <<state, line_len, tripped>>
    BY <1>4 DEF run_state_machine
  <2>2. CASE local_state = "IDLE"
    <3>1. local_state' = "SOFT_START" /\ soft_start_step' = 0 /\ Goto(t, "set")
      BY <1>4, <2>2 DEF run_state_machine
    <3>2. /\ {state', local_state'} \subseteq PsState
          /\ soft_start_step' \in 0 .. SOFT_START_RAMP_STEPS
          /\ soft_start_step' < SOFT_START_RAMP_STEPS
      BY <1>3, <2>1, <3>1 DEF PsState
    <3> QED
      BY <1>1, <1>2, <2>1, <3>1, <3>2
  <2>3. CASE local_state = "SOFT_START"
    <3>1. /\ soft_start_step' = soft_start_step + 1
          /\ \/ /\ soft_start_step' >= SOFT_START_RAMP_STEPS
                /\ local_state' = "RUNNING" /\ Goto(t, "set")
             \/ /\ ~ (soft_start_step' >= SOFT_START_RAMP_STEPS)
                /\ local_state' = local_state /\ Goto(t, "get")
      BY <1>4, <2>3 DEF run_state_machine
    <3>2. /\ {state', local_state'} \subseteq PsState
          /\ soft_start_step' \in 0 .. SOFT_START_RAMP_STEPS
          /\ local_state' = "SOFT_START" => soft_start_step' < SOFT_START_RAMP_STEPS
      BY <1>3, <2>1, <2>3, <3>1 DEF PsState
    <3> QED
      BY <1>1, <1>2, <2>1, <3>1, <3>2
  <2>4. CASE local_state \in {"RUNNING", "FAULT"}
    <3>1. local_state' = local_state /\ soft_start_step' = soft_start_step /\ Goto(t, "get")
      BY <1>4, <2>4 DEF run_state_machine
    <3> QED
      BY <1>1, <1>2, <1>3, <2>1, <3>1
  <2> QED
    BY <1>4, <2>2, <2>3, <2>4 DEF run_state_machine
<1>5. CASE ps_status_set_state
  <2>1. /\ Accesses(t, "set") /\ Goto(t, "get") /\ state' = local_state
        /\ UNCHANGED <<local_state, soft_start_step, line_len, tripped>>
    BY <1>5 DEF ps_status_set_state, locals
  <2> QED
    BY <1>1, <1>2, <1>3, <2>1
<1>6. CASE resync
  <2>1. /\ Accesses(t, "get") /\ Goto(t, "wait")
        /\ local_state' = "FAULT" \/ local_state' = local_state
        /\ UNCHANGED <<state, soft_start_step, line_len, tripped>>
    BY <1>6 DEF resync
  <2>2. {state', local_state'} \subseteq PsState
    BY <1>3, <2>1 DEF PsState
  <2> QED
    BY <1>1, <1>2, <1>3, <2>1, <2>2
<1> QED
  BY <1>1, <1>4, <1>5, <1>6, ReceiveSampleKeeps, LockStatusKeeps DEF ControlStep

\* A reader of the status.
LEMMA ReadStatusKeeps ==
    ASSUME AppInv, NEW t, read_status(t)
    PROVE  AppInv'
<1>1. t \in Workers /\ t # protection_tcb /\ "wait" \in Place
  BY TasksDiffer DEF Workers, Place, read_status
<1>2. /\ Accesses(t, "get") /\ Goto(t, "wait") /\ tripped' = tripped
      /\ UNCHANGED <<state, local_state, soft_start_step, line_len, fault_units, got, adc, uart>>
  BY DEF read_status, Accesses, locals, semState, queues
<1>3. Values'
  BY <1>2, SameValues DEF AppInv
<1> QED
  BY <1>1, <1>2, <1>3, AccessKeeps

\* The steps of CommsTask and LoggerTask.
LEMMA ReaderStepKeeps ==
    ASSUME AppInv, CommsStep \/ LoggerStep
    PROVE  AppInv'
<1>1. /\ {comms_tcb, logger_tcb} \subseteq Workers /\ {comms_tcb, logger_tcb} \subseteq Task
      /\ protection_tcb \notin {comms_tcb, logger_tcb} /\ protection_tcb \in Task
      /\ {"wait", "get"} \subseteq Place /\ at \in [Task -> Place]
  BY TasksDiffer DEF Workers, Place, AppInv, CoreInv, StatusCalls
<1>2. CASE uart_bridge_init
  <2>1. /\ Calls(comms_tcb) /\ at[comms_tcb] = "init" /\ Goto(comms_tcb, "wait")
        /\ k' = k /\ pc' = pc /\ UNCHANGED mutexState
        /\ UNCHANGED <<state, local_state, soft_start_step, line_len, fault_units, got, adc, uart, tripped>>
    BY <1>2 DEF uart_bridge_init, mvars, mutexState, locals, semState, queues
  <2>2. at' \in [Task -> Place] /\ \A x \in Task \ {comms_tcb} : at'[x] = at[x]
    BY <1>1, <2>1, LoopMoves
  <2>3. CoreInv' /\ Calm
    BY <1>1, <2>1, <2>2, MovesOn DEF AppInv, InStatusCall
  <2>4. Values'
    BY <2>1, SameValues DEF AppInv
  <2> QED
    BY <1>1, <2>1, <2>2, <2>3, <2>4, CalmData
<1>3. CASE logger_delay
  <2> DEFINE wake == (k.tick + LOGGER_PERIOD_TICKS) % TickMod
  <2>1. /\ at[logger_tcb] = "wait" /\ Calls(logger_tcb) /\ Goto(logger_tcb, "get")
        /\ k' = block_current_delay(k, logger_tcb, wake)
        /\ pc' = [pc EXCEPT ![logger_tcb] = "switch"] /\ UNCHANGED mutexState
        /\ UNCHANGED <<state, local_state, soft_start_step, line_len, fault_units, got, adc, uart, tripped>>
    BY <1>3 DEF logger_delay, task_delay, locals, semState, queues
  <2>2. wake \in TickCount
    <3>1. k.tick \in TickCount /\ LOGGER_PERIOD_TICKS \in TickCount
      BY PowerSupplyAssumption DEF AppInv, CoreInv, LockInv, MutexTypeOK, TypeOK, Kernel
    <3> QED
      BY <3>1, TickInRange
  <2> HIDE DEF wake
  <2>3. at' \in [Task -> Place] /\ \A x \in Task \ {logger_tcb} : at'[x] = at[x]
    BY <1>1, <2>1, LoopMoves
  <2>4. CoreInv' /\ Calm
    BY <1>1, <2>1, <2>2, <2>3, LoggerSleeps DEF AppInv
  <2>5. Values'
    BY <2>1, SameValues DEF AppInv
  <2> QED
    BY <1>1, <2>1, <2>3, <2>4, <2>5, CalmData
<1> QED
  BY <1>1, <1>2, <1>3, ReceiveByteKeeps, ReadStatusKeeps, LockStatusKeeps
     DEF CommsStep, LoggerStep

\* main and the port, or no step at all.
LEMMA PortAppKeeps ==
    ASSUME AppInv, PortAppStep
    PROVE  AppInv'
<1>1. /\ BootStep \/ PortStep
      /\ UNCHANGED <<mutexState, at>>
      /\ UNCHANGED <<state, local_state, soft_start_step, line_len, fault_units, got, adc, uart, tripped>>
  BY DEF PortAppStep, locals, semState, queues
<1>2. CoreInv' /\ Calm
  BY <1>1, PortKeeps DEF AppInv
<1>3. Values'
  BY <1>1, SameValues DEF AppInv
<1> QED
  BY <1>1, <1>2, <1>3, CalmData

-----------------------------------------------------------------------------
(* The interrupts. *)

\* An interrupt that does not wake a task leaves it, and its list, alone.
LEMMA AwakeCalm ==
    ASSUME CoreInv, NEW H, H \subseteq Task, Awake(k, k', H), pc' = pc, at' = at,
           NEW w, NEW t, Owns(w, t), t \notin H
    PROVE  CalmFor(w, t)
<1>1. w \in AppLists \ {g_status_mutex} /\ w \in WaitList /\ t \in Task /\ OwnList(w, t)
  BY TasksDiffer, ListsDiffer DEF Owns, AppLists, CoreInv, OwnLists
<1>2. Range(k.waiters[w]) \subseteq {t}
  BY <1>1, OwnListWakes
<1>3. Range(k'.waiters[w]) = Range(k.waiters[w])
  <2>1. Range(k'.waiters[w]) = Range(k.waiters[w]) \ H
    BY <1>1 DEF Awake
  <2>2. \A x \in Range(k.waiters[w]) : x \notin H
    BY <1>2
  <2> QED
    BY <2>1, <2>2
<1>4. k'.state[t] = k.state[t] /\ k'.last_wait_result[t] = k.last_wait_result[t]
  BY <1>1 DEF Awake
<1>5. Waits(t)' <=> Waits(t)
  BY DEF Waits, InLock
<1> QED
  BY <1>3, <1>4, <1>5 DEF CalmFor

\* The USART interrupt.
LEMMA UartAppKeeps ==
    ASSUME AppInv, USART1_IRQHandler
    PROVE  AppInv'
<1> DEFINE H == Range(k.waiters[uart_rx])
<1>1. CoreInv' /\ Awake(k, k', H)
  BY UartIrqKeeps DEF AppInv
<1>2. /\ uart.count < UART_RX_QUEUE_DEPTH /\ Uart!copy_in("byte")
      /\ pc' = pc /\ at' = at
      /\ UNCHANGED <<state, local_state, soft_start_step, line_len, fault_units, got, adc, tripped>>
  BY UartSends DEF USART1_IRQHandler, locals, semState
<1>3. /\ uart_rx \in WaitList /\ OwnList(uart_rx, comms_tcb)
      /\ uart_rx \in AppLists \ {g_status_mutex} /\ CoreInv
      /\ protection_tcb # comms_tcb /\ control_tcb # comms_tcb
      /\ Owns(adc_rx, control_tcb) /\ Owns(g_fault_semaphore, protection_tcb)
  BY ListsDiffer, TasksDiffer DEF AppInv, CoreInv, OwnLists, AppLists, Owns
<1>4. H \subseteq {comms_tcb} /\ H \subseteq Task
  BY <1>3, OwnListWakes
<1>5. Counted(uart, UART_RX_QUEUE_DEPTH) /\ UART_RX_QUEUE_DEPTH \in Nat
  BY PowerSupplyAssumption DEF AppInv, Values
<1>6. "count" \in DOMAIN uart' /\ uart'.count = uart.count + 1
  BY <1>2, <1>5, UartCounts
<1>7. Counted(uart', UART_RX_QUEUE_DEPTH) /\ uart'.count > 0
  BY <1>2, <1>5, <1>6 DEF Counted
<1>8. Range(k'.waiters[uart_rx]) = {}
  BY <1>1, <1>3 DEF Awake
<1> HIDE DEF H
<1>9. CalmFor(adc_rx, control_tcb) /\ CalmFor(g_fault_semaphore, protection_tcb)
  BY <1>1, <1>2, <1>3, <1>4, AwakeCalm
<1>10. Values'
  BY <1>2, <1>7 DEF AppInv, Values, Counted
<1>11. SamplesReceived' /\ TripPending'
  BY <1>2, <1>9, CalmReceived, CalmTrip DEF AppInv
<1>12. BytesReceived'
  BY <1>7, <1>8 DEF BytesReceived, Received
<1> QED
  BY <1>1, <1>10, <1>11, <1>12 DEF AppInv

\* The ADC interrupt.
LEMMA AdcAppKeeps ==
    ASSUME AppInv, NEW over \in BOOLEAN, ADC_IRQHandler(over)
    PROVE  AppInv'
<1> DEFINE H == WokenBy(over)
           f == g_fault_semaphore
           sent == adc.count < ADC_QUEUE_DEPTH
<1>1. CoreInv' /\ Awake(k, k', H)
  BY AdcIrqKeeps DEF AppInv
<1>2. /\ IF sent THEN Adc!copy_in("sample") ELSE UNCHANGED adc
      /\ IF over THEN Fault!give_unit /\ tripped' = TRUE
                 ELSE UNCHANGED <<fault_units, tripped>>
      /\ pc' = pc /\ at' = at
      /\ UNCHANGED <<state, local_state, soft_start_step, line_len, got, uart>>
  BY DEF ADC_IRQHandler, locals
<1>3. /\ {adc_rx, f} \subseteq WaitList /\ {adc_rx, f} \subseteq AppLists \ {g_status_mutex}
      /\ OwnList(adc_rx, control_tcb) /\ OwnList(f, protection_tcb) /\ CoreInv /\ k \in Kernel
      /\ {control_tcb, protection_tcb} \subseteq Task
      /\ protection_tcb # control_tcb /\ comms_tcb \notin {control_tcb, protection_tcb}
      /\ Owns(adc_rx, control_tcb) /\ Owns(f, protection_tcb) /\ Owns(uart_rx, comms_tcb)
  BY ListsDiffer, TasksDiffer
     DEF AppInv, CoreInv, OwnLists, AppLists, Owns, LockInv, MutexTypeOK, TypeOK
<1>4. /\ Range(k.waiters[adc_rx]) \subseteq {control_tcb}
      /\ Range(k.waiters[f]) \subseteq {protection_tcb}
      /\ \A x \in Range(k.waiters[f]) : Waits(x)
  BY <1>3, OwnListWakes
<1>5. /\ H \subseteq {control_tcb, protection_tcb} /\ H \subseteq Task
      /\ sent => Range(k.waiters[adc_rx]) \subseteq H
      /\ ~ sent => control_tcb \notin H
      /\ over => Range(k.waiters[f]) \subseteq H
      /\ ~ over => protection_tcb \notin H
  BY <1>3, <1>4 DEF WokenBy
<1> HIDE DEF H
<1>6. Counted(adc, ADC_QUEUE_DEPTH) /\ ADC_QUEUE_DEPTH \in Nat /\ fault_units \in 0 .. 1
  BY PowerSupplyAssumption DEF AppInv, Values
<1>7. BytesReceived'
  <2>1. CalmFor(uart_rx, comms_tcb)
    BY <1>1, <1>2, <1>3, <1>5, AwakeCalm
  <2> QED
    BY <1>2, <2>1, CalmReceived DEF AppInv
<1>8. Counted(adc', ADC_QUEUE_DEPTH) /\ (sent => adc'.count > 0)
  <2>1. CASE sent
    <3>1. "count" \in DOMAIN adc' /\ adc'.count = adc.count + 1
      BY <1>2, <1>6, <2>1, AdcCounts
    <3> QED
      BY <1>6, <2>1, <3>1 DEF Counted
  <2>2. CASE ~ sent
    BY <1>2, <1>6, <2>2
  <2> QED
    BY <2>1, <2>2
<1>9. SamplesReceived'
  <2>1. CASE sent
    <3>1. Range(k'.waiters[adc_rx]) = {}
      BY <1>1, <1>3, <1>5, <2>1 DEF Awake
    <3> QED
      BY <1>8, <2>1, <3>1 DEF SamplesReceived, Received
  <2>2. CASE ~ sent
    <3>1. CalmFor(adc_rx, control_tcb) /\ adc' = adc
      BY <1>1, <1>2, <1>3, <1>5, <2>2, AwakeCalm
    <3> QED
      BY <3>1, CalmReceived DEF AppInv
  <2> QED
    BY <2>1, <2>2
<1>10. over => fault_units' = IF k.waiters[f] = << >> /\ fault_units < 1
                              THEN fault_units + 1 ELSE fault_units
  BY <1>2 DEF Fault!give_unit
<1>11. fault_units' \in 0 .. 1
  BY <1>2, <1>6, <1>10
<1>12. Values'
  BY <1>2, <1>8, <1>11 DEF AppInv, Values, Counted
<1>13. TripPending'
  <2>1. CASE ~ over
    <3>1. CalmFor(f, protection_tcb) /\ fault_units' = fault_units /\ tripped' = tripped
      BY <1>1, <1>2, <1>3, <1>5, <2>1, AwakeCalm
    <3> QED
      BY <1>2, <3>1, CalmTrip DEF AppInv
  <2>2. CASE over /\ k.waiters[f] = << >>
    BY <1>6, <1>10, <2>2 DEF TripPending
  <2>3. CASE over /\ k.waiters[f] # << >>
    <3>1. Range(k.waiters[f]) # {}
      <4>1. k.waiters[f] \in Seq(Task)
        BY <1>3, ListTypes
      <4> QED
        BY <2>3, <4>1, EmptyRange
    <3>2. protection_tcb \in H /\ Waits(protection_tcb)
      BY <1>4, <1>5, <2>3, <3>1
    <3>3. k'.state[protection_tcb] = "READY" /\ k'.last_wait_result[protection_tcb] = "OK"
      BY <1>1, <3>2 DEF Awake
    <3>4. at'[protection_tcb] = "wait" /\ InLock(protection_tcb)'
      BY <1>2, <3>2 DEF Waits, InLock
    <3> QED
      BY <3>3, <3>4 DEF TripPending
  <2> QED
    BY <2>1, <2>2, <2>3
<1> QED
  BY <1>1, <1>7, <1>9, <1>12, <1>13 DEF AppInv

-----------------------------------------------------------------------------
(* The application. *)

\* Before the scheduler starts nobody runs, waits or has inherited anything.
LEMMA InitCore == AppInit => CoreInv
<1> SUFFICES ASSUME AppInit PROVE CoreInv
  OBVIOUS
<1> DEFINE g == g_status_mutex
<1>1. /\ MutexInit /\ TaskInit
      /\ at = [t \in Task |-> CASE t = comms_tcb -> "init"
                                [] t = logger_tcb -> "get"
                                [] OTHER -> "wait"]
  BY DEF AppInit, MutexInit
<1>2. LockInv /\ KernelInv(k) /\ TypeOK
  BY <1>1, MutexInitInv, TaskInitInv DEF MutexInv, TaskInv, Inv, ListsConsistent
<1>3. /\ owner[g] = NULL /\ \A t \in Task : wants[t] = NULL /\ held[t][g] = 0
  BY <1>1, ListsDiffer DEF MutexInit
<1>4. /\ k.priority = BasePriority /\ k.current = NULL /\ k.delayed = << >>
      /\ \A w \in WaitList : k.waiters[w] = << >>
      /\ \A t \in Task : pc[t] = "app"
  BY <1>1 DEF TaskInit, scheduler_init, add_ready
<1>5. /\ Range(k.delayed) = {} /\ \A w \in WaitList : Range(k.waiters[w]) = {}
  BY <1>4 DEF Range
<1>6. at \in [Task -> Place]
  <2>1. \A t \in Task : at[t] \in Place
    BY <1>1 DEF Place
  <2> QED
    BY <1>1, <2>1
<1>7. /\ g \in WaitList /\ adc_tx \in WaitList /\ uart_tx \in WaitList
      /\ {g_fault_semaphore, adc_rx, uart_rx} \subseteq WaitList
      /\ NULL \notin Task
  BY ListsDiffer, TaskAssumption
<1>8. Leaving = NULL /\ \A t \in Task : ~ Executes(t) /\ ~ InLock(t)
  BY <1>4, <1>7 DEF Leaving, Executes, InLock
<1>9. Sched(k, NULL, NULL)
  <2>1. k \in Kernel /\ \A p \in Prio : k.ready[p] = << >> <=> Range(k.ready[p]) = {}
    <3>1. k \in Kernel
      BY <1>2 DEF TypeOK
    <3>2. \A p \in Prio : k.ready[p] \in Seq(Task)
      BY <3>1 DEF Kernel
    <3> QED
      BY <3>1, <3>2, EmptyRange
  <2>2. ReadyLinked(k, NULL)
    <3>1. /\ \A p \in Prio : \A t \in Range(k.ready[p]) : k.state[t] = "READY" /\ k.priority[t] = p
          /\ \A t \in Task : k.state[t] = "READY" => t \in Range(k.ready[k.priority[t]])
      BY <1>2 DEF KernelInv, ReadyOnly, ReadyListed
    <3>2. \A t \in Task : k.priority[t] \in Prio
      BY <2>1 DEF Kernel
    <3>3. \A p \in Prio : p \in Int
      BY DEF Prio
    <3> QED
      BY <3>1, <3>2, <3>3 DEF ReadyLinked
  <2>3. BitsSet(k) /\ \A p \in Prio : ~ Stale(k, p)
    BY <1>2, <2>1 DEF KernelInv, BitmapExact, BitsSet, Stale
  <2>4. Inherited(k, NULL)
    <3>1. \A p \in Prio : NULL \notin Range(k.ready[p])
      BY <1>7, <2>1, ListTypes
    <3> QED
      BY <1>4, <3>1 DEF Inherited
  <2>5. StaleBelow(k, NULL) /\ StaleOwed(k, NULL, NULL)
    BY <2>3 DEF StaleBelow, StaleOwed
  <2>6. RunningIsCurrent(k) /\ IdleAlive(k) /\ k.current # WILD /\ OwnerRuns(k, NULL)
    BY <1>2, <1>7 DEF KernelInv, OwnerRuns
  <2>7. LineSorted(k)
    <3>1. k.waiters[g] = << >> /\ InLine(k) = {}
      BY <1>4, <1>5, <1>7 DEF InLine
    <3>2. Sorted(<< >>, BasePriority)
      BY DEF Sorted
    <3> QED
      BY <3>1, <3>2 DEF LineSorted
  <2> QED
    BY <2>2, <2>3, <2>4, <2>5, <2>6, <2>7 DEF Sched
<1>10. RunInv
  BY <1>3, <1>8, <1>9 DEF RunInv, RunsRunning, WokenPreempts
<1>11. StatusCalls
  BY <1>3, <1>6, <1>8 DEF StatusCalls, Holds
<1>12. OnlyLoggerSleeps /\ OwnLists
  BY <1>5, <1>7 DEF OnlyLoggerSleeps, OwnLists, OwnList
<1> QED
  BY <1>2, <1>10, <1>11, <1>12 DEF CoreInv

\* So it is with the data.
LEMMA InitApp == AppInit => AppInv
<1> SUFFICES ASSUME AppInit PROVE AppInv
  OBVIOUS
<1>1. CoreInv
  BY InitCore
<1>2. /\ state = "IDLE" /\ local_state = "IDLE" /\ soft_start_step = 0 /\ line_len = 0
      /\ tripped = FALSE
  BY DEF AppInit
<1>3. /\ fault_units = 0 /\ DOMAIN got = Task
      /\ "count" \in DOMAIN adc /\ adc.count = 0 /\ "count" \in DOMAIN uart /\ uart.count = 0
  BY DEF AppInit, Fault!SemInit, Adc!QueueInit, Uart!QueueInit
<1>4. {ADC_QUEUE_DEPTH, UART_RX_QUEUE_DEPTH, SOFT_START_RAMP_STEPS, CLI_LINE_BUF_LEN}
        \subseteq Nat \ {0}
  BY PowerSupplyAssumption
<1>5. Values
  BY <1>2, <1>3, <1>4 DEF Values, Counted, PsState
<1>6. \A t \in Task : ~ InLock(t)
  BY DEF AppInit, MutexInit, TaskInit, InLock
<1>7. SamplesReceived /\ BytesReceived
  BY <1>3, <1>6, TasksDiffer DEF SamplesReceived, BytesReceived, Received, Waits
<1>8. TripPending
  BY <1>2 DEF TripPending
<1> QED
  BY <1>1, <1>5, <1>7, <1>8 DEF AppInv

\* Every step keeps the invariant.
LEMMA AppNextKeeps == AppInv /\ [AppNext]_appVars => AppInv'
<1> SUFFICES ASSUME AppInv, [AppNext]_appVars PROVE AppInv'
  OBVIOUS
<1>1. CASE UNCHANGED appVars
  <2>1. /\ UNCHANGED <<k, pc, owner, lock_count, held, wants, at>>
        /\ UNCHANGED <<state, local_state, soft_start_step, line_len, fault_units, got, adc, uart, tripped>>
    BY <1>1 DEF appVars, mvars, tvars, semState, queues, locals, mutexState
  <2>2. CoreInv'
    <3>1. LockInv'
      BY <2>1, KernelStepKeeps DEF AppInv, CoreInv, tvars, mutexState
    <3>2. RunInv' /\ StatusCalls' /\ OnlyLoggerSleeps' /\ OwnLists'
      BY <2>1 DEF AppInv, CoreInv, RunInv, RunsRunning, WokenPreempts, Executes, Leaving,
           StatusCalls, InStatusCall, Holds, InLock, OnlyLoggerSleeps, OwnLists, OwnList, Waits
    <3> QED
      BY <3>1, <3>2 DEF CoreInv
  <2>3. Calm
    BY <2>1 DEF Calm, CalmFor, Waits, InLock
  <2>4. Values'
    BY <2>1, SameValues DEF AppInv
  <2> QED
    BY <2>1, <2>2, <2>3, <2>4, CalmData
<1>2. CASE AppNext
  BY <1>2, ProtectionStepKeeps, ControlStepKeeps, ReaderStepKeeps, PortAppKeeps,
     UartAppKeeps, AdcAppKeeps DEF AppNext, IrqStep
<1> QED
  BY <1>1, <1>2

\* The invariant holds for ever.
LEMMA AppAlways == AppSpec => []AppInv
BY InitApp, AppNextKeeps, PTL DEF AppSpec

\* AppTypesKept: the places of the loops, the counts of the semaphore and of both
\* queues, the ramp and the index into line_buf stay in their ranges.
THEOREM AppTypesKept == AppSpec => []AppTypeOK
<1>1. AppInv => AppTypeOK
  BY DEF AppInv, CoreInv, LockInv, StatusCalls, Values, Counted, AppTypeOK
<1> QED
  BY <1>1, AppAlways, PTL

\* AppSelectsRealTask: although nimble_mutex_lock raises priorities of linked tasks,
\* select_next never takes the head of an empty ready list for a TCB in the
\* application.
THEOREM AppSelectsRealTask == AppSpec => []SelectsRealTask
<1>1. AppInv => SelectsRealTask
  BY DEF AppInv, CoreInv, RunInv, Sched, SelectsRealTask
<1> QED
  BY <1>1, AppAlways, PTL

\* StatusMutexKept: beside the semaphore and the queues, which block the same tasks
\* in the same kernel, the status mutex keeps the promises of nimble_mutex.h:
\* exclusion, hand-over to a waiter, no wait for a free mutex, no boost left behind.
THEOREM StatusMutexKept ==
    AppSpec => [](Exclusive /\ HandedToWaiter /\ NoWaitForFree /\ BoostEnds)
<1>1. AppInv => Exclusive /\ HandedToWaiter /\ NoWaitForFree /\ BoostEnds
  BY DEF AppInv, CoreInv, LockInv
<1> QED
  BY <1>1, AppAlways, PTL

\* WokenTaskPreempts: whatever an interrupt, an unlock or a tick makes ready above
\* the running task's priority runs before that task's next step.
THEOREM WokenTaskPreempts == AppSpec => []WokenPreempts
<1>1. AppInv => WokenPreempts
  BY DEF AppInv, CoreInv, RunInv
<1> QED
  BY <1>1, AppAlways, PTL

\* TripNotLost: a fault ADC_IRQHandler detected leaves a unit in the semaphore or
\* ProtectionTask on its way to ps_status_note_fault, until it is noted.
THEOREM TripNotLost == AppSpec => []TripPending
<1>1. AppInv => TripPending
  BY DEF AppInv
<1> QED
  BY <1>1, AppAlways, PTL

\* ReceiversServed: ControlTask and CommsTask are never in the wait list of a queue
\* that has an item: the interrupts' sends lose no wake-up.
THEOREM ReceiversServed == AppSpec => []ReceiverServed
<1>1. ASSUME AppInv PROVE ReceiverServed
  <2>1. k.waiters[adc_rx] \in Seq(Task) /\ k.waiters[uart_rx] \in Seq(Task)
    BY <1>1, ListTypes, ListsDiffer DEF AppInv, CoreInv, LockInv, MutexTypeOK, TypeOK
  <2>2. /\ k.waiters[adc_rx] # << >> => Range(k.waiters[adc_rx]) # {}
        /\ k.waiters[uart_rx] # << >> => Range(k.waiters[uart_rx]) # {}
    BY <2>1, EmptyRange
  <2> QED
    BY <1>1, <2>2 DEF AppInv, SamplesReceived, BytesReceived, Received, ReceiverServed
<1> QED
  BY <1>1, AppAlways, PTL

\* ReceiversFindItems: a receive that comes back from its wait finds an item, so the
\* `continue` behind it in both loops is never taken.
THEOREM ReceiversFindItems == AppSpec => []ReceiveFindsItem
<1>1. ASSUME AppInv PROVE ReceiveFindsItem
  <2>1. ASSUME NEW t \in Task, Executes(t), at[t] = "wait", pc[t] = "wake"
        PROVE  Waits(t) /\ k.state[t] # "BLOCKED"
    <3>1. RunInv
      BY <1>1 DEF AppInv, CoreInv
    <3>2. k.state[t] = "RUNNING"
      BY <2>1, <3>1, Running
    <3> QED
      BY <2>1, <3>2 DEF Waits, InLock
  <2>2. control_tcb \in Task /\ comms_tcb \in Task
    BY TasksDiffer
  <2> QED
    BY <1>1, <2>1, <2>2 DEF AppInv, SamplesReceived, BytesReceived, Received, ReceiveFindsItem
<1> QED
  BY <1>1, AppAlways, PTL

-----------------------------------------------------------------------------
(* A fault stays. *)

(***************************************************************************)
(* The invariant looks at ControlTask alone: its statics, the status, and  *)
(* where its loop stands.  What the kernel calls do to lists and pointers  *)
(* does not matter, for whichever way a call returns, the loop goes on     *)
(* where the action says it does.                                          *)
(***************************************************************************)

\* FaultSeen: once ControlTask's copy says FAULT so does the status, and no
\* call of ps_status_set_state from before is left to be made.
FaultSeen ==
    /\ DOMAIN at = Task
    /\ local_state = "FAULT" => state = "FAULT" /\ at[control_tcb] # "set"

\* Goto moves one task's loop: no other task's, and the one it moves to place.
LEMMA GotoMoves ==
    ASSUME DOMAIN at = Task, NEW t \in Task, NEW place, Goto(t, place)
    PROVE  /\ DOMAIN at' = Task
           /\ at'[t] = place
           /\ \A u \in Task \ {t} : at'[u] = at[u]
BY DEF Goto

\* AfterCall leaves the loop at its blocking call or behind it.
LEMMA AfterCallMoves ==
    ASSUME DOMAIN at = Task, NEW t \in Task, NEW place, AfterCall(t, place)
    PROVE  /\ DOMAIN at' = Task
           /\ at'[t] \in {"wait", place}
           /\ \A u \in Task \ {t} : at'[u] = at[u]
<1> DEFINE p == IF pc'[t] = "block" THEN "wait" ELSE place
<1>1. Goto(t, p)
  BY DEF AfterCall
<1>2. p \in {"wait", place}
  OBVIOUS
<1> HIDE DEF p
<1> QED
  BY <1>1, <1>2, GotoMoves

\* The loop of ControlTask before its first sample, in main and ps_shared_init.
LEMMA FaultSeenInit == AppInit => FaultSeen
BY DEF AppInit, FaultSeen

\* ProtectionTask writes FAULT and nothing else, and no other task's loop moves.
LEMMA ProtectionKeeps ==
    ASSUME FaultSeen, ProtectionStep
    PROVE  FaultSeen' /\ (local_state = "FAULT" => local_state' = "FAULT" /\ state' = "FAULT")
<1>1. CASE wait_for_fault
  BY <1>1, TasksDiffer, AfterCallMoves DEF wait_for_fault, FaultSeen, locals
<1>2. CASE ps_status_note_fault
  BY <1>2, TasksDiffer, GotoMoves DEF ps_status_note_fault, FaultSeen, locals
<1>3. CASE lock_status(protection_tcb)
  BY <1>3 DEF lock_status, FaultSeen, locals
<1> QED
  BY <1>1, <1>2, <1>3 DEF ProtectionStep

\* ControlTask: run_state_machine leaves FAULT alone and then does not come to
\* ps_status_set_state; resync takes FAULT only from the status.
LEMMA ControlKeeps ==
    ASSUME FaultSeen, ControlStep
    PROVE  FaultSeen' /\ (local_state = "FAULT" => local_state' = "FAULT" /\ state' = "FAULT")
<1>1. CASE receive_sample
  <2> DEFINE place == IF adc' # adc THEN "measure" ELSE "wait"
  <2>1. AfterCall(control_tcb, place) /\ UNCHANGED <<state, locals>>
    BY <1>1 DEF receive_sample
  <2>2. place # "set"
    OBVIOUS
  <2> HIDE DEF place
  <2> QED
    BY <2>1, <2>2, TasksDiffer, AfterCallMoves DEF FaultSeen, locals
<1>2. CASE run_state_machine
  <2>1. CASE local_state = "IDLE"
    BY <1>2, <2>1, TasksDiffer, GotoMoves DEF run_state_machine, FaultSeen
  <2>2. CASE local_state = "SOFT_START"
    BY <1>2, <2>2, TasksDiffer, GotoMoves DEF run_state_machine, FaultSeen
  <2>3. CASE local_state \in {"RUNNING", "FAULT"}
    BY <1>2, <2>3, TasksDiffer, GotoMoves DEF run_state_machine, FaultSeen
  <2> QED
    BY <1>2, <2>1, <2>2, <2>3 DEF run_state_machine
<1>3. CASE ps_status_set_state
  BY <1>3, TasksDiffer, GotoMoves DEF ps_status_set_state, Accesses, FaultSeen, locals
<1>4. CASE resync
  BY <1>4, TasksDiffer, GotoMoves DEF resync, FaultSeen
<1>5. CASE lock_status(control_tcb)
  BY <1>5 DEF lock_status, FaultSeen, locals
<1> QED
  BY <1>1, <1>2, <1>3, <1>4, <1>5 DEF ControlStep

\* CommsTask and LoggerTask only read the status.
LEMMA ReadersKeep ==
    ASSUME FaultSeen, CommsStep \/ LoggerStep
    PROVE  FaultSeen' /\ (local_state = "FAULT" => local_state' = "FAULT" /\ state' = "FAULT")
<1>1. CASE uart_bridge_init
  BY <1>1, TasksDiffer, GotoMoves DEF uart_bridge_init, FaultSeen, locals
<1>2. CASE receive_byte
  <2>1. UNCHANGED <<state, local_state>>
    BY <1>2 DEF receive_byte
  <2>2. UNCHANGED at \/ Goto(comms_tcb, "wait") \/ Goto(comms_tcb, "get")
    BY <1>2 DEF receive_byte, handle_byte
  <2> QED
    BY <2>1, <2>2, TasksDiffer, GotoMoves DEF FaultSeen
<1>3. ASSUME NEW t \in {comms_tcb, logger_tcb}, read_status(t)
      PROVE  FaultSeen' /\ (local_state = "FAULT" => local_state' = "FAULT" /\ state' = "FAULT")
  BY <1>3, TasksDiffer, GotoMoves DEF read_status, FaultSeen, locals
<1>4. ASSUME NEW t \in {comms_tcb, logger_tcb}, lock_status(t)
      PROVE  FaultSeen' /\ (local_state = "FAULT" => local_state' = "FAULT" /\ state' = "FAULT")
  BY <1>4 DEF lock_status, FaultSeen, locals
<1>5. CASE logger_delay
  BY <1>5, TasksDiffer, GotoMoves DEF logger_delay, FaultSeen, locals
<1> QED
  BY <1>1, <1>2, <1>3, <1>4, <1>5 DEF CommsStep, LoggerStep

\* The interrupts and the kernel's own steps do not touch the application's state
\* machine.
LEMMA OthersKeep ==
    ASSUME FaultSeen, IrqStep \/ PortAppStep \/ UNCHANGED appVars
    PROVE  FaultSeen' /\ (local_state = "FAULT" => local_state' = "FAULT" /\ state' = "FAULT")
<1>1. UNCHANGED <<at, state, locals>>
  <2>1. ASSUME NEW over \in BOOLEAN, ADC_IRQHandler(over)
        PROVE  UNCHANGED <<at, state, locals>>
    BY <2>1 DEF ADC_IRQHandler
  <2>2. CASE USART1_IRQHandler
    BY <2>2 DEF USART1_IRQHandler
  <2>3. CASE PortAppStep
    BY <2>3 DEF PortAppStep
  <2>4. CASE UNCHANGED appVars
    BY <2>4 DEF appVars
  <2> QED
    BY <2>1, <2>2, <2>3, <2>4 DEF IrqStep
<1> QED
  BY <1>1 DEF FaultSeen, locals

\* FaultStays: in every execution of the application, from the step in which
\* ControlTask reads FAULT on, its copy and the status stay FAULT: no
\* ps_status_set_state decided on before overtakes it.
THEOREM FaultStays == AppSpec => FaultSticks
<1>1. FaultSeen /\ [AppNext]_appVars
        => FaultSeen' /\ (local_state = "FAULT" => local_state' = "FAULT" /\ state' = "FAULT")
  BY ProtectionKeeps, ControlKeeps, ReadersKeep, OthersKeep DEF AppNext
<1>2. FaultSeen /\ [AppNext]_appVars
        => [local_state = "FAULT" => local_state' = "FAULT" /\ state' = "FAULT"]_appVars
  BY <1>1
<1> QED
  BY <1>1, <1>2, FaultSeenInit, PTL DEF AppSpec, FaultSticks
=============================================================================
