-------------------------- MODULE SemaphoreProofs --------------------------
(***************************************************************************)
(* Proofs about Semaphore, for any number of tasks, priorities, units and  *)
(* ticks: the kernel stays consistent, no unit idles while a task waits,   *)
(* and the code implements AbstractSemaphore.                              *)
(***************************************************************************)
EXTENDS Semaphore, TasksProofs

\* The tasks in the semaphore's wait list are those blocked in take.
WaitersInTake == \A t \in Waiting : InTake(t)
BlockedInTakeWait == \A t \in Task : InTake(t) /\ k.state[t] = "BLOCKED" => t \in Waiting

\* The inductive invariant.
SemInv ==
    /\ TaskInv
    /\ count \in 0 .. MaxCount /\ got \in [Task -> WaitResult \cup {"none"}]
    /\ NoIdleUnits
    /\ WaitersInTake
    /\ BlockedInTakeWait
    /\ Sorted(k.waiters[sem], BasePriority)

\* A step is one of the abstract semaphore's, or none at all.
StepMaps == [Abstract!Next]_(Abstract!avars)

\* What ServedInOrder says of one step.
OrderKept ==
    LET l == k.waiters[sem]
        m == k'.waiters[sem]
    IN  /\ \A i, j \in DOMAIN m : i < j => k'.priority[m[i]] >= k'.priority[m[j]]
        /\ \A i \in DOMAIN m, x \in Range(l) :
              m[i] \notin Range(l) /\ x \in Range(m) /\ k.priority[x] = k.priority[m[i]]
                 => \E j \in 1 .. i - 1 : m[j] = x

\* What the invariant says of the kernel and of the threads.
LEMMA SemFacts ==
    ASSUME SemInv
    PROVE  /\ k \in Kernel /\ KernelInv(k) /\ ListedStates(k)
           /\ pc \in [Task -> PcLabel]
           /\ k.priority = BasePriority /\ BasePriority \in [Task -> Int]
           /\ sem \in WaitList /\ k.waiters[sem] \in Seq(Task) /\ Waiting \subseteq Task
           /\ k.last_wait_result \in [Task -> WaitResult]
           /\ \A t \in Waiting : k.state[t] = "BLOCKED"
           /\ k.waiters[sem] = << >> <=> Waiting = {}
<1>1. k \in Kernel /\ KernelInv(k) /\ pc \in [Task -> PcLabel] /\ k.priority = BasePriority
  BY DEF SemInv, TaskInv, Inv, TypeOK, ListsConsistent
<1>2. sem \in WaitList
  BY SemAssumption
<1>3. k.waiters[sem] \in Seq(Task) /\ Waiting \subseteq Task
  BY <1>1, <1>2, ListTypes DEF Waiting
<1>4. \A t \in Waiting : k.state[t] = "BLOCKED"
  BY <1>1, <1>2 DEF KernelInv, ListedBlocked, Waiting
<1>5. k.waiters[sem] = << >> <=> Waiting = {}
  BY <1>3, EmptyRange DEF Waiting
<1>6. k.last_wait_result \in [Task -> WaitResult]
  BY <1>1 DEF Kernel
<1>7. BasePriority \in [Task -> Int]
  BY PriorityAssumption DEF Prio
<1> QED
  BY <1>1, <1>2, <1>3, <1>4, <1>5, <1>6, <1>7, ConsistentListedStates

\* A step that queues nobody keeps the order of the list.
LEMMA NobodyQueued ==
    ASSUME k'.priority = BasePriority, Sorted(k'.waiters[sem], BasePriority),
           Range(k'.waiters[sem]) \subseteq Range(k.waiters[sem])
    PROVE  OrderKept
<1>1. \A i \in DOMAIN k'.waiters[sem] : k'.waiters[sem][i] \in Range(k.waiters[sem])
  BY DEF Range
<1> QED
  BY <1>1 DEF OrderKept, Sorted

-----------------------------------------------------------------------------
(* Take. *)

\* A take that does not block.
LEMMA TakeAtOnce ==
    ASSUME SemInv, NEW t \in Task, Calls(t), UNCHANGED <<k, pc>>,
           \/ /\ count > 0 /\ count' = count - 1
              /\ got' = [got EXCEPT ![t] = "OK"]
           \/ /\ count = 0 /\ count' = count
              /\ got' = [got EXCEPT ![t] = "TIMEOUT"]
    PROVE  SemInv' /\ (HighestReadyRuns => HighestReadyRuns') /\ StepMaps /\ OrderKept
<1>1. k' = k /\ pc' = pc
  OBVIOUS
<1>2. t \notin Waiting /\ pc[t] = "app"
  BY DEF SemInv, WaitersInTake, InTake, Calls
<1>3. TaskInv' /\ (HighestReadyRuns => HighestReadyRuns')
  BY <1>1 DEF SemInv, TaskInv, Inv, TypeOK, ListsConsistent, RunsRunning, Executes,
              HighestReadyRuns
<1>4. WaitersInTake' /\ BlockedInTakeWait' /\ Sorted(k.waiters[sem], BasePriority)'
  BY <1>1 DEF SemInv, WaitersInTake, BlockedInTakeWait, InTake, Waiting
<1>5. count' \in 0 .. MaxCount /\ got' \in [Task -> WaitResult \cup {"none"}]
  BY SemAssumption DEF SemInv, WaitResult
<1>6. NoIdleUnits'
  BY <1>1, SemAssumption DEF SemInv, NoIdleUnits
<1>7. SemInv'
  BY <1>3, <1>4, <1>5, <1>6 DEF SemInv
<1>8. /\ Waiting' = Waiting
      /\ Answered("OK")' = Answered("OK")
      /\ Answered("TIMEOUT")' = Answered("TIMEOUT")
      /\ k'.tick = k.tick
  BY <1>1 DEF Waiting, Answered, InTake
<1>9. t \notin Waiting \cup Answered("OK") \cup Answered("TIMEOUT")
  BY <1>2 DEF Answered, InTake
<1>10. Abstract!Take(t) \/ Abstract!Refuse(t)
  BY <1>8, <1>9 DEF Abstract!Take, Abstract!Refuse, Abstract!NotInTake
<1>11. OrderKept
  BY <1>1, <1>7, NobodyQueued DEF SemInv, TaskInv
<1> QED
  BY <1>3, <1>7, <1>10, <1>11 DEF StepMaps, Abstract!Next

\* A take that blocks.
LEMMA TakeBlocks ==
    ASSUME SemInv, NEW t \in Task, NEW n \in TickCount, Calls(t), count = 0,
           k' = block(k, sem, t, n), pc' = [pc EXCEPT ![t] = "block"],
           UNCHANGED <<count, got>>
    PROVE  SemInv' /\ HighestReadyRuns' /\ StepMaps /\ OrderKept
<1>1. /\ k \in Kernel /\ KernelInv(k) /\ pc \in [Task -> PcLabel]
      /\ k.priority = BasePriority /\ BasePriority \in [Task -> Int]
      /\ sem \in WaitList /\ k.waiters[sem] \in Seq(Task) /\ Waiting \subseteq Task
  BY SemFacts
<1>2. pc[t] = "app"
  BY DEF Calls
<1>3. t \notin Waiting
  BY <1>2 DEF SemInv, WaitersInTake, InTake
<1>4. TaskInv' /\ HighestReadyRuns' /\ BlockEffect(k, sem, t, n, k')
  BY <1>1, <1>2, CallBlocks DEF SemInv
<1>5. /\ \E pos : /\ Fits(k.waiters[sem], k.priority, k.priority[t], pos)
                  /\ k'.waiters = [k.waiters EXCEPT ![sem] = InsertAt(k.waiters[sem], pos, t)]
      /\ Range(k'.waiters[sem]) = Range(k.waiters[sem]) \cup {t}
      /\ k'.last_wait_result = k.last_wait_result
      /\ k'.priority = k.priority /\ k'.tick = k.tick
  BY <1>4 DEF BlockEffect, SameTask
<1>6. k'.state[t] = "BLOCKED" /\ \A x \in Task \ {t} : k'.state[x] = k.state[x]
  BY <1>1, <1>4 DEF BlockEffect, Kernel
<1>7. pc'[t] = "block" /\ \A x \in Task \ {t} : pc'[x] = pc[x]
  BY <1>1
<1>8. PICK pos : /\ Fits(k.waiters[sem], BasePriority, BasePriority[t], pos)
                 /\ k'.waiters[sem] = InsertAt(k.waiters[sem], pos, t)
  BY <1>1, <1>5 DEF Kernel
<1>9. /\ Sorted(k'.waiters[sem], BasePriority)
      /\ QueuedBehind(k.waiters[sem], BasePriority, k'.waiters[sem])
  BY <1>1, <1>8, SortedInsert DEF SemInv
<1>10. OrderKept
  BY <1>1, <1>5, <1>9 DEF OrderKept, Sorted, QueuedBehind
<1>11. Waiting' = Waiting \cup {t}
  BY <1>5 DEF Waiting
<1>12. WaitersInTake' /\ BlockedInTakeWait'
  BY <1>1, <1>6, <1>7, <1>11 DEF SemInv, WaitersInTake, BlockedInTakeWait, InTake
<1>13. SemInv'
  BY <1>4, <1>9, <1>12 DEF SemInv, NoIdleUnits
<1>14. \A r : Answered(r)' = Answered(r)
  BY <1>1, <1>2, <1>5, <1>7, <1>11 DEF Answered, InTake
<1>15. t \notin Answered("OK") /\ t \notin Answered("TIMEOUT")
  BY <1>2 DEF Answered, InTake
<1>16. Abstract!Wait(t)
  BY <1>3, <1>5, <1>11, <1>14, <1>15 DEF Abstract!Wait, Abstract!NotInTake
<1> QED
  BY <1>4, <1>10, <1>13, <1>16 DEF StepMaps, Abstract!Next

\* A take that returns from its wait.
LEMMA TakeReturns ==
    ASSUME SemInv, NEW t \in Task, semaphore_take_resumed(t)
    PROVE  SemInv' /\ (HighestReadyRuns => HighestReadyRuns') /\ StepMaps /\ OrderKept
<1>1. /\ k \in Kernel /\ KernelInv(k) /\ pc \in [Task -> PcLabel]
      /\ k.priority = BasePriority /\ BasePriority \in [Task -> Int]
      /\ sem \in WaitList /\ k.waiters[sem] \in Seq(Task) /\ Waiting \subseteq Task
      /\ k.last_wait_result \in [Task -> WaitResult]
      /\ \A x \in Waiting : k.state[x] = "BLOCKED"
      /\ k.waiters[sem] = << >> <=> Waiting = {}
  BY SemFacts
<1>2. /\ Executes(t) /\ pc[t] = "wake" /\ k' = UnlinkEvent(k, t)
      /\ got' = [got EXCEPT ![t] = k.last_wait_result[t]]
      /\ pc' = [pc EXCEPT ![t] = "app"] /\ count' = count
  BY DEF semaphore_take_resumed
<1>3. /\ TaskInv' /\ (HighestReadyRuns => HighestReadyRuns')
      /\ UnlinkEventEffect(k, t, k') /\ k.state[t] = "RUNNING"
      /\ \A w \in WaitList : Range(k'.waiters[w]) = Range(k.waiters[w])
  BY <1>2, CallReturns DEF SemInv
<1>4. t \notin Waiting
  BY <1>1, <1>3
<1>5. /\ k' \in Kernel /\ k'.waiters[sem] = Keep(k.waiters[sem], Task \ {t})
      /\ k'.state = k.state /\ k'.last_wait_result = k.last_wait_result
      /\ k'.priority = k.priority /\ k'.tick = k.tick
  BY <1>1, <1>3 DEF UnlinkEventEffect, SameTask
<1>6. pc'[t] = "app" /\ \A x \in Task \ {t} : pc'[x] = pc[x]
  BY <1>1, <1>2
<1>7. Waiting' = Waiting
  BY <1>1, <1>3 DEF Waiting
<1>8. Sorted(k'.waiters[sem], BasePriority)
  BY <1>1, <1>5, SortedKeep DEF SemInv
<1>9. WaitersInTake' /\ BlockedInTakeWait'
  BY <1>1, <1>4, <1>5, <1>6, <1>7 DEF SemInv, WaitersInTake, BlockedInTakeWait, InTake
<1>10. NoIdleUnits'
  <2>1. k'.waiters[sem] \in Seq(Task)
    BY <1>1, <1>5, ListTypes
  <2>2. k'.waiters[sem] = << >> <=> Waiting' = {}
    BY <2>1, EmptyRange DEF Waiting
  <2> QED
    BY <1>1, <1>2, <1>7, <2>2 DEF SemInv, NoIdleUnits
<1>11. got' \in [Task -> WaitResult \cup {"none"}]
  BY <1>1, <1>2 DEF SemInv
<1>12. SemInv'
  BY <1>2, <1>3, <1>8, <1>9, <1>10, <1>11 DEF SemInv
<1>13. OrderKept
  BY <1>1, <1>3, <1>5, <1>8, NobodyQueued
<1>14. \A r : Answered(r)' = Answered(r) \ {t}
  BY <1>5, <1>6, <1>7 DEF Answered, InTake
<1>15. t \in Answered(k.last_wait_result[t]) /\ k.last_wait_result[t] \in {"OK", "TIMEOUT"}
  BY <1>1, <1>2, <1>4 DEF Answered, InTake, WaitResult
<1>16. Abstract!Return(t)
  BY <1>2, <1>5, <1>7, <1>14, <1>15 DEF Abstract!Return
<1> QED
  BY <1>3, <1>12, <1>13, <1>16 DEF StepMaps, Abstract!Next

-----------------------------------------------------------------------------
(* Give. *)

\* A unit handed to the first waiter.
LEMMA GiveWakes ==
    ASSUME SemInv, k.waiters[sem] # << >>, UNCHANGED <<count, got>>, WakeStep(sem)
    PROVE  SemInv' /\ HighestReadyRuns' /\ StepMaps /\ OrderKept
<1> DEFINE h == Head(k.waiters[sem])
<1>1. /\ k \in Kernel /\ KernelInv(k)
      /\ k.priority = BasePriority /\ BasePriority \in [Task -> Int]
      /\ sem \in WaitList /\ k.waiters[sem] \in Seq(Task) /\ Waiting \subseteq Task
      /\ k.last_wait_result \in [Task -> WaitResult]
      /\ \A x \in Waiting : k.state[x] = "BLOCKED"
  BY SemFacts
<1>2. TaskInv' /\ HighestReadyRuns' /\ WokenEffect(sem, h)
  BY <1>1, CallWakes DEF SemInv
<1>3. \A x \in Waiting : BasePriority[x] <= BasePriority[h]
  BY <1>1, SortedHead DEF SemInv, Waiting
<1> HIDE DEF h
<1>4. /\ h \in Task /\ h \in Waiting
      /\ k'.waiters[sem] = Keep(k.waiters[sem], Task \ {h})
      /\ Range(k'.waiters[sem]) = Range(k.waiters[sem]) \ {h}
      /\ k'.priority = k.priority /\ k'.tick = k.tick
      /\ \A x \in Task : pc'[x] \in {"block", "wake"} <=> pc[x] \in {"block", "wake"}
  BY <1>1, <1>2 DEF WokenEffect, Waiting
<1>5. /\ k'.state[h] = "READY" /\ \A x \in Task \ {h} : k'.state[x] = k.state[x]
      /\ k'.last_wait_result[h] = "OK"
      /\ \A x \in Task \ {h} : k'.last_wait_result[x] = k.last_wait_result[x]
  BY <1>1, <1>2, <1>4 DEF WokenEffect, Kernel
<1>6. Waiting' = Waiting \ {h} /\ \A x \in Task : InTake(x)' <=> InTake(x)
  BY <1>4 DEF Waiting, InTake
<1>7. Sorted(k'.waiters[sem], BasePriority)
  BY <1>1, <1>4, SortedKeep DEF SemInv
<1>8. WaitersInTake' /\ BlockedInTakeWait'
  BY <1>1, <1>5, <1>6 DEF SemInv, WaitersInTake, BlockedInTakeWait
<1>9. NoIdleUnits' /\ count = 0
  BY SemAssumption DEF SemInv, NoIdleUnits
<1>10. SemInv'
  BY <1>2, <1>7, <1>8, <1>9 DEF SemInv
<1>11. OrderKept
  BY <1>1, <1>4, <1>7, NobodyQueued
<1>12. Answered("OK")' = Answered("OK") \cup {h}
  BY <1>4, <1>5, <1>6 DEF Answered, SemInv, WaitersInTake
<1>13. Answered("TIMEOUT")' = Answered("TIMEOUT")
  BY <1>4, <1>5, <1>6 DEF Answered
<1>14. Abstract!Grant(h)
  BY <1>3, <1>4, <1>6, <1>12, <1>13 DEF Abstract!Grant
<1> QED
  BY <1>2, <1>4, <1>10, <1>11, <1>14 DEF StepMaps, Abstract!Next

\* A unit that nobody waits for is kept, unless the semaphore is full.
LEMMA GiveStores ==
    ASSUME SemInv, k.waiters[sem] = << >>, UNCHANGED <<k, pc, got>>, give_unit
    PROVE  SemInv' /\ (HighestReadyRuns => HighestReadyRuns') /\ StepMaps /\ OrderKept
<1>1. k' = k /\ pc' = pc /\ got' = got
  OBVIOUS
<1>2. count' = IF count < MaxCount THEN count + 1 ELSE count
  BY DEF give_unit
<1>3. TaskInv' /\ (HighestReadyRuns => HighestReadyRuns')
  BY <1>1 DEF SemInv, TaskInv, Inv, TypeOK, ListsConsistent, RunsRunning, Executes,
              HighestReadyRuns
<1>4. WaitersInTake' /\ BlockedInTakeWait' /\ Sorted(k.waiters[sem], BasePriority)'
      /\ NoIdleUnits'
  BY <1>1 DEF SemInv, WaitersInTake, BlockedInTakeWait, InTake, Waiting, NoIdleUnits
<1>5. count' \in 0 .. MaxCount /\ got' \in [Task -> WaitResult \cup {"none"}]
  BY <1>1, <1>2, SemAssumption DEF SemInv
<1>6. SemInv'
  BY <1>3, <1>4, <1>5 DEF SemInv
<1>7. /\ Waiting = {} /\ Waiting' = Waiting
      /\ Answered("OK")' = Answered("OK")
      /\ Answered("TIMEOUT")' = Answered("TIMEOUT")
      /\ k'.tick = k.tick
  BY <1>1, SemFacts DEF Waiting, Answered, InTake
<1>8. StepMaps
  <2>1. CASE count < MaxCount
    BY <1>1, <1>2, <1>7, <2>1 DEF StepMaps, Abstract!Next, Abstract!Store
  <2>2. CASE ~ (count < MaxCount)
    BY <1>1, <1>2, <1>7, <2>2 DEF StepMaps, Abstract!avars
  <2> QED
    BY <2>1, <2>2
<1>9. OrderKept
  BY <1>1, <1>6, NobodyQueued DEF SemInv, TaskInv
<1> QED
  BY <1>3, <1>6, <1>8, <1>9

-----------------------------------------------------------------------------
(* The steps of the task layer. *)

\* A tick expires the waiters whose deadline it is; no other step of the kernel is
\* seen by the semaphore.
LEMMA KernelSteps ==
    ASSUME SemInv, [TaskNext]_tvars, UNCHANGED <<count, got>>
    PROVE  /\ SemInv' /\ StepMaps /\ OrderKept
           /\ LowestManaged /\ HighestReadyRuns => HighestReadyRuns'
<1>1. /\ k \in Kernel /\ KernelInv(k) /\ ListedStates(k) /\ pc \in [Task -> PcLabel]
      /\ k.priority = BasePriority /\ BasePriority \in [Task -> Int]
      /\ sem \in WaitList /\ k.waiters[sem] \in Seq(Task) /\ Waiting \subseteq Task
      /\ k.last_wait_result \in [Task -> WaitResult]
      /\ \A x \in Waiting : k.state[x] = "BLOCKED"
      /\ k.waiters[sem] = << >> <=> Waiting = {}
  BY SemFacts
<1>2. TaskInv' /\ (LowestManaged /\ HighestReadyRuns => HighestReadyRuns')
  BY TaskNextKeepsTaskInv, TaskNextRuns DEF SemInv
<1>3. TaskStepEffect
  BY <1>1, TaskNextEffect DEF TypeOK
<1>4. k' \in Kernel /\ k'.priority = BasePriority
      /\ \A x \in Task : InTake(x)' <=> InTake(x)
  BY <1>1, <1>3 DEF TaskStepEffect, InTake
<1>5. CASE QuietStep
  <2>1. /\ k'.waiters = k.waiters /\ k'.last_wait_result = k.last_wait_result
        /\ k'.tick = k.tick
        /\ \A x \in Task : InTake(x) =>
              (k'.state[x] = "BLOCKED" <=> k.state[x] = "BLOCKED")
    BY <1>5 DEF QuietStep, InTake
  <2>2. Waiting' = Waiting /\ Answered("OK")' = Answered("OK")
        /\ Answered("TIMEOUT")' = Answered("TIMEOUT")
    BY <1>4, <2>1 DEF Waiting, Answered
  <2>3. WaitersInTake' /\ BlockedInTakeWait' /\ NoIdleUnits'
        /\ Sorted(k'.waiters[sem], BasePriority)
    BY <1>1, <1>4, <2>1, <2>2 DEF SemInv, WaitersInTake, BlockedInTakeWait, NoIdleUnits
  <2>4. SemInv'
    BY <1>2, <2>3 DEF SemInv
  <2>5. OrderKept
    BY <1>4, <2>1, <2>3, NobodyQueued
  <2> QED
    BY <1>2, <2>1, <2>2, <2>4, <2>5 DEF StepMaps, Abstract!avars
<1>6. CASE TickStep
  <2> DEFINE D == DueSet(k)
             S == D \cap Waiting
  <2>1. \A x \in D : x \in Task /\ k.state[x] = "BLOCKED"
    BY <1>1, ListTypes DEF DueSet, ListedStates
  <2>2. TickEffect(k, D, k')
    BY <1>6 DEF TickStep
  <2> HIDE DEF D
  <2>3. /\ k'.waiters[sem] = Keep(k.waiters[sem], Task \ D)
        /\ Range(k'.waiters[sem]) = Range(k.waiters[sem]) \ D
        /\ k'.tick = (k.tick + 1) % TickMod
        /\ \A x \in Task : k'.state[x] = IF x \in D THEN "READY" ELSE k.state[x]
        /\ \A x \in Task : k'.last_wait_result[x] =
                              IF x \in D THEN "TIMEOUT" ELSE k.last_wait_result[x]
    <3>1. /\ k'.waiters[sem] = Keep(k.waiters[sem], Task \ D)
          /\ Range(k'.waiters[sem]) = Range(k.waiters[sem]) \ D
          /\ k'.tick = (k.tick + 1) % TickMod
      BY <1>1, <2>2 DEF TickEffect
    <3>2. /\ k'.state = [x \in Task |-> IF x \in D THEN "READY" ELSE k.state[x]]
          /\ k'.last_wait_result =
                [x \in Task |-> IF x \in D THEN "TIMEOUT" ELSE k.last_wait_result[x]]
      BY <2>2 DEF TickEffect
    <3> QED
      BY <3>1, <3>2
  <2>4. Waiting' = Waiting \ S /\ S \subseteq Waiting
    BY <2>3 DEF Waiting
  <2>5. \A x \in D : InTake(x) => x \in Waiting
    BY <2>1 DEF SemInv, BlockedInTakeWait
  <2>6. Sorted(k'.waiters[sem], BasePriority)
    BY <1>1, <2>3, SortedKeep DEF SemInv
  <2>7. WaitersInTake' /\ BlockedInTakeWait'
    BY <1>1, <1>4, <2>3, <2>4, <2>5 DEF SemInv, WaitersInTake, BlockedInTakeWait
  <2>8. NoIdleUnits'
    <3>1. k'.waiters[sem] = << >> <=> Waiting' = {}
      BY <1>1, <1>4, ListTypes, EmptyRange DEF Waiting
    <3> QED
      BY <1>1, <2>4, <3>1 DEF SemInv, NoIdleUnits
  <2>9. SemInv'
    BY <1>2, <2>6, <2>7, <2>8 DEF SemInv
  <2>10. OrderKept
    BY <1>4, <2>3, <2>6, NobodyQueued
  <2>11. Answered("OK")' = Answered("OK")
    BY <1>4, <2>3, <2>4, <2>5 DEF Answered
  <2>12. Answered("TIMEOUT")' = Answered("TIMEOUT") \cup S
    BY <1>1, <1>4, <2>3, <2>4, <2>5 DEF Answered, SemInv, WaitersInTake
  <2>13. k'.tick \in TickCount \ {k.tick}
    <3>1. k.tick \in TickCount
      BY <1>1 DEF Kernel
    <3> QED
      BY <2>3, <3>1, TickAssumption DEF TickCount
  <2>14. Abstract!Expire(S)
    BY <2>4, <2>11, <2>12, <2>13 DEF Abstract!Expire
  <2> QED
    BY <1>2, <2>4, <2>9, <2>10, <2>14 DEF StepMaps, Abstract!Next
<1> QED
  BY <1>3, <1>5, <1>6 DEF TaskStepEffect

-----------------------------------------------------------------------------
(* The theorems. *)

\* A take, with any timeout.
LEMMA TakeKeeps ==
    ASSUME SemInv, NEW t \in Task, NEW n \in TickCount, semaphore_take(t, n)
    PROVE  /\ SemInv' /\ StepMaps /\ OrderKept
           /\ LowestManaged /\ HighestReadyRuns => HighestReadyRuns'
<1>1. CASE count = 0 /\ k' = block(k, sem, t, n)
           /\ pc' = [pc EXCEPT ![t] = "block"] /\ UNCHANGED <<count, got>>
  BY <1>1, TakeBlocks DEF semaphore_take
<1>2. CASE UNCHANGED <<k, pc>>
           /\ \/ count > 0 /\ count' = count - 1 /\ got' = [got EXCEPT ![t] = "OK"]
              \/ count = 0 /\ count' = count /\ got' = [got EXCEPT ![t] = "TIMEOUT"]
  BY <1>2, TakeAtOnce DEF semaphore_take
<1> QED
  BY <1>1, <1>2 DEF semaphore_take, block

\* A give by a task.
LEMMA GiveKeeps ==
    ASSUME SemInv, NEW t \in Task, semaphore_give(t)
    PROVE  /\ SemInv' /\ StepMaps /\ OrderKept
           /\ LowestManaged /\ HighestReadyRuns => HighestReadyRuns'
<1>1. CASE k.waiters[sem] = << >>
  BY <1>1, GiveStores DEF semaphore_give, wake_waiter
<1>2. CASE k.waiters[sem] # << >>
  BY <1>2, GiveWakes DEF semaphore_give, give_unit, WakeStep
<1> QED
  BY <1>1, <1>2

\* Every step of the semaphore keeps the invariant and the order of its waiters,
\* and is a step of the abstract semaphore.
LEMMA SemNextKeeps ==
    ASSUME SemInv, [SemNext]_svars
    PROVE  /\ SemInv' /\ StepMaps /\ OrderKept
           /\ LowestManaged /\ HighestReadyRuns => HighestReadyRuns'
<1> DEFINE Goal == /\ SemInv' /\ StepMaps /\ OrderKept
                   /\ LowestManaged /\ HighestReadyRuns => HighestReadyRuns'
<1>1. ASSUME NEW t \in Task, NEW n \in TimeoutArgs, semaphore_take(t, n) PROVE Goal
  BY <1>1, TakeKeeps, SemAssumption
<1>2. ASSUME NEW t \in Task, semaphore_take_resumed(t) PROVE Goal
  BY <1>2, TakeReturns
<1>3. ASSUME NEW t \in Task, semaphore_give(t) PROVE Goal
  BY <1>3, GiveKeeps
<1>4. ASSUME semaphore_give_from_isr PROVE Goal
  <2>1. CASE k.waiters[sem] = << >>
    BY <1>4, <2>1, GiveStores DEF semaphore_give_from_isr
  <2>2. CASE k.waiters[sem] # << >>
    BY <1>4, <2>2, GiveWakes DEF semaphore_give_from_isr, give_unit, WakeStep
  <2> QED
    BY <2>1, <2>2
<1>5. ASSUME [TaskNext]_tvars, UNCHANGED <<count, got>> PROVE Goal
  BY <1>5, KernelSteps
<1>6. ASSUME UNCHANGED svars PROVE Goal
  BY <1>5, <1>6 DEF svars, tvars
<1> HIDE DEF Goal
<1>7. Goal
  BY <1>1, <1>2, <1>3, <1>4, <1>5, <1>6 DEF SemNext, SemStep
<1> QED
  BY <1>7 DEF Goal

\* The invariant holds before the first task runs.
LEMMA SemInitInv == SemInit => SemInv /\ HighestReadyRuns /\ Abstract!Init
<1> SUFFICES ASSUME SemInit PROVE SemInv /\ HighestReadyRuns /\ Abstract!Init
  OBVIOUS
<1>1. TaskInit /\ TaskInv /\ HighestReadyRuns
  BY TaskInitInv DEF SemInit
<1>2. k.waiters[sem] = << >> /\ k.tick = 0 /\ \A t \in Task : pc[t] = "app"
  BY <1>1, SemAssumption DEF TaskInit, scheduler_init, add_ready
<1>3. Waiting = {} /\ \A t \in Task : ~ InTake(t)
  BY <1>2 DEF Waiting, Range, InTake
<1>4. count \in 0 .. MaxCount /\ count = InitialCount
      /\ got = [t \in Task |-> "none"]
  BY SemAssumption DEF SemInit
<1>5. SemInv
  BY <1>1, <1>2, <1>3, <1>4
     DEF SemInv, NoIdleUnits, WaitersInTake, BlockedInTakeWait, Sorted
<1>6. Answered("OK") = {} /\ Answered("TIMEOUT") = {} /\ k.tick \in TickCount
  BY <1>2, <1>3, TickAssumption DEF Answered, TickCount
<1>7. Abstract!Init
  BY <1>3, <1>4, <1>6 DEF Abstract!Init
<1> QED
  BY <1>1, <1>5, <1>7

\* The inductive invariant holds in every behaviour.
LEMMA SemAlways == SemSpec => []SemInv
<1>1. SemInit => SemInv
  BY SemInitInv
<1>2. SemInv /\ [SemNext]_svars => SemInv'
  BY SemNextKeeps
<1> QED
  BY <1>1, <1>2, PTL DEF SemSpec

\* SemTypes: the count stays between 0 and max_count and every take returns one of
\* its two results, whatever races with it.
THEOREM SemTypes == SemSpec => []SemTypeOK
<1>1. SemInv => SemTypeOK
  BY DEF SemInv, SemTypeOK, TaskInv, Inv
<1> QED
  BY <1>1, SemAlways, PTL

\* SemLists: blocking, waking, timing out and giving from an interrupt keep the
\* kernel's lists, bitmap and task states consistent.
THEOREM SemLists == SemSpec => []ListsConsistent
<1>1. SemInv => ListsConsistent
  BY DEF SemInv, TaskInv, Inv
<1> QED
  BY <1>1, SemAlways, PTL

\* SemNoIdleUnits: no task waits for the semaphore while it has a unit.
THEOREM SemNoIdleUnits == SemSpec => []NoIdleUnits
<1>1. SemInv => NoIdleUnits
  BY DEF SemInv
<1> QED
  BY <1>1, SemAlways, PTL

\* SemHighest: a task woken by give, by an interrupt or by a timeout runs before
\* any thread of lower priority executes more than its request for a switch.
THEOREM SemHighest == ASSUME LowestManaged PROVE SemSpec => []HighestReadyRuns
<1> DEFINE I == SemInv /\ HighestReadyRuns
<1>1. SemInit => I
  BY SemInitInv
<1>2. I /\ [SemNext]_svars => I'
  BY SemNextKeeps
<1> QED
  BY <1>1, <1>2, PTL DEF SemSpec

\* SemServedInOrder: the wait list is in order of priority, and no step puts a task
\* in front of an equal one that waits already.
THEOREM SemServedInOrder == SemSpec => ServedInOrder
<1>1. SemInv /\ [SemNext]_svars => [OrderKept]_svars
  BY SemNextKeeps
<1> QED
  BY <1>1, SemAlways, PTL DEF SemSpec, ServedInOrder, OrderKept

\* SemImplements: every behaviour of the code is one of the abstract semaphore, in
\* which a take returns OK iff a unit was handed to it: units are neither lost nor
\* handed out twice when gives race timeouts, ticks and interrupts.
THEOREM SemImplements == SemSpec => ImplementsSemaphore
<1>1. SemInit => Abstract!Init
  BY SemInitInv
<1>2. SemInv /\ [SemNext]_svars => [Abstract!Next]_(Abstract!avars)
  BY SemNextKeeps DEF StepMaps
<1> QED
  BY <1>1, <1>2, SemAlways, PTL DEF SemSpec, ImplementsSemaphore, Abstract!Spec
=============================================================================
