---------------------------- MODULE MutexProofs ----------------------------
(***************************************************************************)
(* Proofs about Mutex, for any number of tasks, mutexes, priorities,       *)
(* levels of locking and ticks: mutual exclusion, the handover to a waiter *)
(* and the end of a priority boost.  The kernel's lists need not be        *)
(* consistent for any of it: a boost may leave them so that they are not   *)
(* (SelectsRealTask), and locks stay exclusive even then.                  *)
(***************************************************************************)
EXTENDS Mutex, TasksProofs

\* A mutex is owned iff it is locked.
CountedOwned == \A m \in mutexes : lock_count[m] = 0 <=> owner[m] = NULL

\* The tasks in the wait list of m are blocked in a lock of m, which they do not own.
WaitersInLock ==
    \A m \in mutexes : \A t \in Range(k.waiters[m]) :
        wants[t] = m /\ InLock(t) /\ k.state[t] = "BLOCKED" /\ owner[m] # t

\* A task that wants a mutex is in a blocking call, and does not hold it.
WantsInLock ==
    \A t \in Task : wants[t] # NULL => InLock(t) /\ held[t][wants[t]] = 0

\* What holds of mutexes also beside other objects that tasks block on.
LockInv ==
    /\ MutexTypeOK /\ ListedStates(k)
    /\ Exclusive /\ HandedToWaiter /\ NoWaitForFree /\ BoostEnds
    /\ CountedOwned /\ WaitersInLock /\ WantsInLock

\* Where there are only mutexes, the blocking call a task is in is a lock.
BlocksInLock == \A t \in Task : InLock(t) => wants[t] # NULL

\* The inductive invariant.
MutexInv == LockInv /\ BlocksInLock

\* What the types say of each part of the state.
LEMMA MutexTypes ==
    ASSUME MutexTypeOK
    PROVE  /\ k \in Kernel /\ pc \in [Task -> PcLabel]
           /\ \A m \in mutexes : owner[m] \in Task \cup {NULL}
           /\ \A m \in mutexes : lock_count[m] \in 0 .. MaxDepth
           /\ \A t \in Task, m \in mutexes : held[t][m] \in 0 .. MaxDepth
           /\ \A t \in Task : wants[t] \in mutexes \cup {NULL}
           /\ k.priority \in [Task -> Prio] /\ k.state \in [Task -> TaskState]
           /\ k.last_wait_result \in [Task -> WaitResult]
           /\ \A m \in mutexes : /\ m \in WaitList
                                 /\ k.waiters[m] \in Seq(Task)
                                 /\ Range(k.waiters[m]) \subseteq Task
                                 /\ k.waiters[m] = << >> <=> Range(k.waiters[m]) = {}
<1>1. k \in Kernel /\ pc \in [Task -> PcLabel]
  BY DEF MutexTypeOK, TypeOK
<1>2. /\ k.priority \in [Task -> Prio] /\ k.state \in [Task -> TaskState]
      /\ k.last_wait_result \in [Task -> WaitResult]
  BY <1>1 DEF Kernel
<1>3. \A m \in mutexes : /\ m \in WaitList
                         /\ k.waiters[m] \in Seq(Task)
                         /\ Range(k.waiters[m]) \subseteq Task
                         /\ k.waiters[m] = << >> <=> Range(k.waiters[m]) = {}
  BY <1>1, MutexAssumption, ListTypes, EmptyRange
<1> QED
  BY <1>1, <1>2, <1>3 DEF MutexTypeOK

-----------------------------------------------------------------------------
(* Lock. *)

\* A task in its application code owns a mutex iff it knows.
LEMMA OwnersKnow ==
    ASSUME LockInv, NEW t \in Task, pc[t] = "app"
    PROVE  /\ ~ InLock(t) /\ wants[t] = NULL
           /\ \A m \in mutexes : owner[m] = t => held[t][m] > 0 /\ lock_count[m] = held[t][m]
           /\ \A m \in mutexes : t \notin Range(k.waiters[m])
<1>1. ~ InLock(t) /\ wants[t] = NULL
  BY DEF LockInv, WantsInLock, InLock
<1>2. \A m \in mutexes : held[t][m] \in 0 .. MaxDepth
  BY MutexTypes DEF LockInv
<1>3. \A m \in mutexes : owner[m] = t => held[t][m] > 0 /\ lock_count[m] = held[t][m]
  BY <1>1, <1>2, MutexAssumption DEF LockInv, HandedToWaiter, Exclusive
<1>4. \A m \in mutexes : t \notin Range(k.waiters[m])
  BY <1>1 DEF LockInv, WaitersInLock
<1> QED
  BY <1>1, <1>3, <1>4

\* A lock of a mutex that is free or the caller's own.
LEMMA LockNowKeeps ==
    ASSUME LockInv, NEW t \in Task, NEW m \in mutexes, lock_now(t, m)
    PROVE  LockInv'
<1>1. /\ pc[t] = "app" /\ k' = k /\ pc' = pc /\ wants' = wants
      /\ owner' = [owner EXCEPT ![m] = t]
      /\ held' = [held EXCEPT ![t][m] = held[t][m] + 1]
      /\ \/ owner[m] = NULL /\ lock_count' = [lock_count EXCEPT ![m] = 1]
         \/ /\ owner[m] = t /\ lock_count[m] < MaxDepth
            /\ lock_count' = [lock_count EXCEPT ![m] = lock_count[m] + 1]
  BY DEF lock_now, Calls
<1>2. /\ ~ InLock(t) /\ wants[t] = NULL
      /\ owner[m] = t => held[t][m] > 0 /\ lock_count[m] = held[t][m]
      /\ t \notin Range(k.waiters[m])
  BY <1>1, OwnersKnow
<1>3. /\ \A x \in mutexes : owner[x] \in Task \cup {NULL}
      /\ \A x \in mutexes : lock_count[x] \in 0 .. MaxDepth
      /\ \A x \in Task, y \in mutexes : held[x][y] \in 0 .. MaxDepth
      /\ held \in [Task -> [mutexes -> 0 .. MaxDepth]]
  BY MutexTypes DEF LockInv, MutexTypeOK
<1>4. \A x \in Task : owner[m] # x => held[x][m] = 0
  BY <1>3, MutexAssumption DEF LockInv, Exclusive
<1>5. /\ \A x \in mutexes : owner'[x] = IF x = m THEN t ELSE owner[x]
      /\ \A x \in Task, y \in mutexes :
            held'[x][y] = IF x = t /\ y = m THEN held[t][m] + 1 ELSE held[x][y]
      /\ \A x \in mutexes : x # m => lock_count'[x] = lock_count[x]
      /\ lock_count'[m] = held[t][m] + 1
      /\ held[t][m] + 1 \in 1 .. MaxDepth
  <2>1. /\ lock_count'[m] = held[t][m] + 1 /\ held[t][m] + 1 \in 1 .. MaxDepth
        /\ \A x \in mutexes : x # m => lock_count'[x] = lock_count[x]
    BY <1>1, <1>2, <1>3, <1>4, MutexAssumption, TaskAssumption DEF LockInv, MutexTypeOK
  <2>2. \A x \in mutexes : owner'[x] = IF x = m THEN t ELSE owner[x]
    BY <1>1 DEF LockInv, MutexTypeOK
  <2>3. \A x \in Task, y \in mutexes :
            held'[x][y] = IF x = t /\ y = m THEN held[t][m] + 1 ELSE held[x][y]
    BY <1>1, <1>3
  <2> QED
    BY <2>1, <2>2, <2>3
<1>6. MutexTypeOK'
  <2>1. owner' \in [mutexes -> Task \cup {NULL}]
    BY <1>1 DEF LockInv, MutexTypeOK
  <2>2. lock_count' \in [mutexes -> 0 .. MaxDepth]
    BY <1>1, MutexAssumption DEF LockInv, MutexTypeOK
  <2>3. held' \in [Task -> [mutexes -> 0 .. MaxDepth]]
    <3>1. [held[t] EXCEPT ![m] = held[t][m] + 1] \in [mutexes -> 0 .. MaxDepth]
      BY <1>3, <1>5
    <3> QED
      BY <1>1, <1>3, <3>1
  <2>4. k' \in Kernel /\ pc' \in [Task -> PcLabel] /\ wants' \in [Task -> mutexes \cup {NULL}]
    BY <1>1 DEF LockInv, MutexTypeOK, TypeOK
  <2> QED
    BY <2>1, <2>2, <2>3, <2>4 DEF MutexTypeOK, TypeOK
<1>7. Exclusive'
  <2>1. \A x \in Task \ {t} : held[x][m] = 0
    BY <1>1, <1>4, TaskAssumption
  <2> QED
    BY <1>3, <1>5, <2>1 DEF LockInv, Exclusive
<1>8. HandedToWaiter'
  BY <1>1, <1>3, <1>5 DEF LockInv, HandedToWaiter, InLock
<1>9. NoWaitForFree' /\ WaitersInLock'
  BY <1>1, <1>2, <1>5, TaskAssumption DEF LockInv, NoWaitForFree, WaitersInLock, InLock
<1>10. BoostEnds'
  <2>1. \A x \in Task, y \in mutexes : owner[y] = x => \E z \in mutexes : owner'[z] = x
    <3>1. \A y \in mutexes \ {m} : owner'[y] = owner[y]
      BY <1>5
    <3>2. owner[m] = t \/ owner[m] = NULL
      BY <1>1
    <3> QED
      BY <1>5, <3>1, <3>2, TaskAssumption
  <2> QED
    BY <1>1, <2>1 DEF LockInv, BoostEnds
<1>11. CountedOwned'
  BY <1>3, <1>5, TaskAssumption DEF LockInv, CountedOwned
<1>12. WantsInLock'
  BY <1>1, <1>2, <1>5 DEF LockInv, WantsInLock, InLock
<1> QED
  BY <1>1, <1>6, <1>7, <1>8, <1>9, <1>10, <1>11, <1>12 DEF LockInv

\* A boost raises one priority and leaves the rest of the kernel alone.
LEMMA BoostFields ==
    ASSUME NEW s \in Kernel, NEW o \in Task, NEW t \in Task, NEW b, b = boost(s, o, t)
    PROVE  /\ b \in Kernel
           /\ b.ready = s.ready /\ b.delayed = s.delayed /\ b.waiters = s.waiters
           /\ b.state = s.state /\ b.last_wait_result = s.last_wait_result
           /\ \A x \in Task \ {o} : b.priority[x] = s.priority[x]
           /\ b.priority[o] >= s.priority[o]
<1>1. s.priority \in [Task -> Prio] /\ s.priority[t] \in Int /\ s.priority[o] \in Int
  BY PriorityAssumption DEF Kernel, Prio
<1>2. CASE s.priority[t] > s.priority[o]
  <2>1. b = [s EXCEPT !.priority[o] = s.priority[t]]
    BY <1>2 DEF boost
  <2>2. b \in Kernel /\ b.priority = [s.priority EXCEPT ![o] = s.priority[t]]
    <3>1. [s.priority EXCEPT ![o] = s.priority[t]] \in [Task -> Prio]
      BY <1>1
    <3>2. b = [s EXCEPT !.priority = [s.priority EXCEPT ![o] = s.priority[t]]]
      BY <2>1
    <3> QED
      BY <3>1, <3>2 DEF Kernel
  <2>3. /\ b.ready = s.ready /\ b.delayed = s.delayed /\ b.waiters = s.waiters
        /\ b.state = s.state /\ b.last_wait_result = s.last_wait_result
    BY <2>1 DEF Kernel
  <2>4. b.priority[o] >= s.priority[o]
    BY <1>1, <1>2, <2>2
  <2> QED
    BY <1>1, <2>2, <2>3, <2>4
<1>3. CASE ~ (s.priority[t] > s.priority[o])
  <2>1. b = s
    BY <1>3 DEF boost
  <2> QED
    BY <1>1, <2>1
<1> QED
  BY <1>2, <1>3

\* A lock that waits.
LEMMA LockBlockKeeps ==
    ASSUME LockInv, NEW t \in Task, NEW m \in mutexes, NEW n \in TickCount,
           lock_block(t, m, n)
    PROVE  LockInv'
<1> DEFINE o == owner[m]
           b == boost(k, o, t)
<1>1. /\ pc[t] = "app" /\ o \notin {NULL, t}
      /\ k' = block(b, m, t, n)
      /\ pc' = [pc EXCEPT ![t] = "block"]
      /\ wants' = [wants EXCEPT ![t] = m]
      /\ owner' = owner /\ lock_count' = lock_count /\ held' = held
  BY DEF lock_block, Calls, block
<1>2. /\ k \in Kernel /\ pc \in [Task -> PcLabel] /\ o \in Task
      /\ \A x \in Task : wants[x] \in mutexes \cup {NULL}
      /\ k.priority \in [Task -> Prio] /\ k.state \in [Task -> TaskState]
      /\ \A x \in mutexes : x \in WaitList /\ Range(k.waiters[x]) \subseteq Task
      /\ \A x \in Task, y \in mutexes : held[x][y] \in 0 .. MaxDepth
  BY <1>1, MutexTypes, MutexAssumption DEF LockInv
<1>3. /\ ~ InLock(t) /\ wants[t] = NULL
      /\ \A x \in mutexes : owner[x] = t => held[t][x] > 0
      /\ \A x \in mutexes : t \notin Range(k.waiters[x])
  BY <1>1, OwnersKnow
<1>4. /\ b \in Kernel
      /\ b.ready = k.ready /\ b.delayed = k.delayed /\ b.waiters = k.waiters
      /\ b.state = k.state /\ b.last_wait_result = k.last_wait_result
      /\ \A x \in Task \ {o} : b.priority[x] = k.priority[x]
      /\ b.priority[o] >= k.priority[o]
  BY <1>2, BoostFields
<1> HIDE DEF b
<1>5. BlockEffect(b, m, t, n, k')
  BY <1>1, <1>2, <1>4, BlockFields
<1>6. /\ k' \in Kernel
      /\ Range(k'.waiters[m]) = Range(k.waiters[m]) \cup {t}
      /\ \A y \in mutexes \ {m} : k'.waiters[y] = k.waiters[y]
      /\ \A p \in Prio : Range(k'.ready[p]) = Range(k.ready[p]) \ {t}
      /\ Range(k'.delayed) \subseteq Range(k.delayed) \cup {t}
      /\ k'.last_wait_result = k.last_wait_result
      /\ k'.priority = b.priority
  BY <1>2, <1>4, <1>5 DEF BlockEffect, SameTask
<1>7. k'.state[t] = "BLOCKED" /\ \A x \in Task \ {t} : k'.state[x] = k.state[x]
  <2>1. k'.state = [k.state EXCEPT ![t] = "BLOCKED"]
    BY <1>4, <1>5 DEF BlockEffect
  <2> QED
    BY <1>2, <2>1
<1>8. /\ pc'[t] = "block" /\ \A x \in Task \ {t} : pc'[x] = pc[x]
      /\ wants'[t] = m /\ \A x \in Task \ {t} : wants'[x] = wants[x]
  BY <1>1, <1>2 DEF LockInv, MutexTypeOK
<1>9. MutexTypeOK'
  <2>1. pc' \in [Task -> PcLabel] /\ wants' \in [Task -> mutexes \cup {NULL}]
    BY <1>1, <1>2 DEF LockInv, MutexTypeOK, PcLabel
  <2>2. /\ owner' \in [mutexes -> Task \cup {NULL}]
        /\ lock_count' \in [mutexes -> 0 .. MaxDepth]
        /\ held' \in [Task -> [mutexes -> 0 .. MaxDepth]]
    BY <1>1 DEF LockInv, MutexTypeOK
  <2> QED
    BY <1>6, <2>1, <2>2 DEF MutexTypeOK, TypeOK
<1>10. ListedStates(k')
  <2>1. Range(k.delayed) \subseteq Task /\ \A p \in Prio : Range(k.ready[p]) \subseteq Task
    BY <1>2, ListTypes
  <2> QED
    BY <1>6, <1>7, <2>1 DEF LockInv, ListedStates
<1>11. Exclusive'
  BY <1>1 DEF LockInv, Exclusive
<1>12. HandedToWaiter'
  <2> SUFFICES ASSUME NEW y \in mutexes, NEW x \in Task, owner[y] = x, held[x][y] = 0
               PROVE  /\ InLock(x)' /\ wants'[x] = y /\ lock_count[y] = 1
                      /\ k'.state[x] # "BLOCKED" /\ k'.last_wait_result[x] = "OK"
    BY <1>1 DEF HandedToWaiter
  <2>1. x # t
    BY <1>3
  <2>2. /\ InLock(x) /\ wants[x] = y /\ lock_count[y] = 1
        /\ k.state[x] # "BLOCKED" /\ k.last_wait_result[x] = "OK"
    BY DEF LockInv, HandedToWaiter
  <2> QED
    BY <1>6, <1>7, <1>8, <2>1, <2>2 DEF InLock
<1>13. NoWaitForFree'
  BY <1>1, <1>2, <1>6, TaskAssumption DEF LockInv, NoWaitForFree
<1>14. BoostEnds'
  <2>1. \A x \in Task : k'.priority[x] \in Int /\ k.priority[x] \in Int
                        /\ BasePriority[x] \in Int
    <3>1. k'.priority \in [Task -> Prio]
      BY <1>6 DEF Kernel
    <3> QED
      BY <1>2, <3>1, PriorityAssumption DEF Prio
  <2>2. \A x \in Task \ {o} : k'.priority[x] = k.priority[x]
    BY <1>4, <1>6
  <2>3. k'.priority[o] >= k.priority[o] /\ owner'[m] = o
    BY <1>1, <1>4, <1>6
  <2>4. owner' = owner
    BY <1>1
  <2> HIDE DEF o
  <2> QED
    BY <2>1, <2>2, <2>3, <2>4 DEF LockInv, BoostEnds
<1>15. CountedOwned'
  BY <1>1 DEF LockInv, CountedOwned
<1>16. WaitersInLock'
  <2> SUFFICES ASSUME NEW y \in mutexes, NEW x \in Range(k'.waiters[y])
               PROVE  wants'[x] = y /\ InLock(x)' /\ k'.state[x] = "BLOCKED" /\ owner[y] # x
    BY <1>1 DEF WaitersInLock
  <2>1. CASE x = t
    BY <1>1, <1>3, <1>6, <1>7, <1>8, <2>1 DEF InLock
  <2>2. CASE x # t
    <3>1. x \in Range(k.waiters[y]) /\ x \in Task
      BY <1>2, <1>6, <2>2
    <3>2. wants[x] = y /\ InLock(x) /\ k.state[x] = "BLOCKED" /\ owner[y] # x
      BY <3>1 DEF LockInv, WaitersInLock
    <3> QED
      BY <1>7, <1>8, <2>2, <3>1, <3>2 DEF InLock
  <2> QED
    BY <2>1, <2>2
<1>17. WantsInLock'
  <2>1. held[t][m] = 0
    BY <1>1, <1>2, MutexAssumption DEF LockInv, Exclusive
  <2>2. \A x \in Task \ {t} : InLock(x)' <=> InLock(x)
    BY <1>8 DEF InLock
  <2> QED
    BY <1>1, <1>8, <2>1, <2>2, MutexAssumption DEF LockInv, WantsInLock, InLock
<1> QED
  BY <1>9, <1>10, <1>11, <1>12, <1>13, <1>14, <1>15, <1>16, <1>17 DEF LockInv

\* A lock that returns from its wait, as the owner or not.
LEMMA LockResumedKeeps ==
    ASSUME LockInv, NEW t \in Task, wants[t] # NULL, lock_resumed(t)
    PROVE  LockInv'
<1> DEFINE m == wants[t]
<1>1. /\ pc[t] = "wake" /\ owner' = owner /\ lock_count' = lock_count
      /\ pc' = [pc EXCEPT ![t] = "app"] /\ wants' = [wants EXCEPT ![t] = NULL]
  BY DEF lock_resumed
<1>2. /\ k \in Kernel /\ pc \in [Task -> PcLabel]
      /\ \A x \in Task : wants[x] \in mutexes \cup {NULL}
      /\ \A x \in mutexes : /\ x \in WaitList /\ k.waiters[x] \in Seq(Task)
                            /\ Range(k.waiters[x]) \subseteq Task
                            /\ k.waiters[x] = << >> <=> Range(k.waiters[x]) = {}
      /\ \A x \in Task, y \in mutexes : held[x][y] \in 0 .. MaxDepth
      /\ held \in [Task -> [mutexes -> 0 .. MaxDepth]]
  BY MutexTypes DEF LockInv, MutexTypeOK
<1>3. InLock(t) /\ m \in mutexes /\ held[t][m] = 0
  BY <1>1, <1>2 DEF LockInv, WantsInLock, InLock
<1>4. /\ pc'[t] = "app" /\ \A x \in Task \ {t} : pc'[x] = pc[x]
      /\ wants'[t] = NULL /\ \A x \in Task \ {t} : wants'[x] = wants[x]
  BY <1>1, <1>2 DEF LockInv, MutexTypeOK
<1>5. ~ InLock(t)' /\ \A x \in Task \ {t} : InLock(x)' <=> InLock(x)
  BY <1>4 DEF InLock
<1> HIDE DEF m
<1>6. /\ k' \in Kernel /\ ListedStates(k')
      /\ \A x \in mutexes : Range(k'.waiters[x]) = Range(k.waiters[x]) \ {t}
      /\ k'.state = k.state /\ k'.last_wait_result = k.last_wait_result
      /\ k'.priority = k.priority
  <2>1. CASE owner[m] = t
    <3>1. k' = k
      BY <2>1 DEF lock_resumed, m
    <3>2. \A x \in mutexes : t \notin Range(k.waiters[x])
      BY <2>1 DEF LockInv, WaitersInLock, m
    <3> QED
      BY <1>2, <3>1, <3>2 DEF LockInv
  <2>2. CASE owner[m] # t
    <3>1. k' = UnlinkEvent(k, t)
      BY <2>2 DEF lock_resumed, m
    <3>2. UnlinkEventEffect(k, t, k')
      BY <1>2, <3>1, UnlinkEventFields
    <3>3. /\ k' \in Kernel /\ k'.ready = k.ready /\ k'.delayed = k.delayed
          /\ \A w \in WaitList : Range(k'.waiters[w]) = Range(k.waiters[w]) \ {t}
          /\ k'.state = k.state /\ k'.last_wait_result = k.last_wait_result
          /\ k'.priority = k.priority
      BY <3>2 DEF UnlinkEventEffect, SameTask
    <3>4. ListedStates(k')
      BY <3>3 DEF LockInv, ListedStates
    <3>5. \A x \in mutexes : Range(k'.waiters[x]) = Range(k.waiters[x]) \ {t}
      BY <1>2, <3>3
    <3> QED
      BY <3>3, <3>4, <3>5
  <2> QED
    BY <2>1, <2>2
<1>7. /\ held' \in [Task -> [mutexes -> 0 .. MaxDepth]]
      /\ \A x \in Task, y \in mutexes :
            held'[x][y] = IF x = t /\ y = m /\ owner[m] = t THEN 1 ELSE held[x][y]
  <2>1. CASE owner[m] = t
    <3>1. held' = [held EXCEPT ![t][m] = 1]
      BY <1>3, <2>1 DEF lock_resumed, m
    <3>2. [held[t] EXCEPT ![m] = 1] \in [mutexes -> 0 .. MaxDepth]
      <4>1. 1 \in 0 .. MaxDepth
        BY MutexAssumption
      <4> QED
        BY <1>2, <4>1
    <3> QED
      BY <1>2, <2>1, <3>1, <3>2
  <2>2. CASE owner[m] # t
    <3>1. held' = held
      BY <2>2 DEF lock_resumed, m
    <3> QED
      BY <1>2, <2>2, <3>1
  <2> QED
    BY <2>1, <2>2
<1>8. owner[m] = t => lock_count[m] = 1
  BY <1>3 DEF LockInv, HandedToWaiter
<1>9. MutexTypeOK'
  <2>1. pc' \in [Task -> PcLabel] /\ wants' \in [Task -> mutexes \cup {NULL}]
    BY <1>1, <1>2 DEF LockInv, MutexTypeOK, PcLabel
  <2>2. /\ owner' \in [mutexes -> Task \cup {NULL}]
        /\ lock_count' \in [mutexes -> 0 .. MaxDepth]
    BY <1>1 DEF LockInv, MutexTypeOK
  <2> QED
    BY <1>6, <1>7, <2>1, <2>2 DEF MutexTypeOK, TypeOK
<1>10. Exclusive'
  BY <1>1, <1>7, <1>8 DEF LockInv, Exclusive
<1>11. HandedToWaiter'
  <2> SUFFICES ASSUME NEW y \in mutexes, NEW x \in Task, owner[y] = x, held'[x][y] = 0
               PROVE  /\ InLock(x)' /\ wants'[x] = y /\ lock_count[y] = 1
                      /\ k'.state[x] # "BLOCKED" /\ k'.last_wait_result[x] = "OK"
    BY <1>1 DEF HandedToWaiter
  <2>1. held[x][y] = 0 /\ ~ (x = t /\ y = m)
    BY <1>7
  <2>2. /\ InLock(x) /\ wants[x] = y /\ lock_count[y] = 1
        /\ k.state[x] # "BLOCKED" /\ k.last_wait_result[x] = "OK"
    BY <2>1 DEF LockInv, HandedToWaiter
  <2>3. x # t
    BY <2>1, <2>2 DEF m
  <2> QED
    BY <1>4, <1>5, <1>6, <2>2, <2>3
<1>12. NoWaitForFree'
  <2>1. \A x \in mutexes : k'.waiters[x] \in Seq(Task)
    BY <1>2, <1>6, ListTypes
  <2>2. \A x \in mutexes : k'.waiters[x] = << >> <=> Range(k'.waiters[x]) = {}
    BY <2>1, EmptyRange
  <2>3. \A x \in mutexes : k'.waiters[x] # << >> => k.waiters[x] # << >>
    BY <1>2, <1>6, <2>2
  <2> QED
    BY <1>1, <2>3 DEF LockInv, NoWaitForFree
<1>13. BoostEnds' /\ CountedOwned'
  BY <1>1, <1>6 DEF LockInv, BoostEnds, CountedOwned
<1>14. WaitersInLock'
  <2> SUFFICES ASSUME NEW y \in mutexes, NEW x \in Range(k'.waiters[y])
               PROVE  wants'[x] = y /\ InLock(x)' /\ k'.state[x] = "BLOCKED" /\ owner[y] # x
    BY <1>1 DEF WaitersInLock
  <2>1. x \in Range(k.waiters[y]) /\ x \in Task /\ x # t
    BY <1>2, <1>6
  <2>2. wants[x] = y /\ InLock(x) /\ k.state[x] = "BLOCKED" /\ owner[y] # x
    BY <2>1 DEF LockInv, WaitersInLock
  <2> QED
    BY <1>4, <1>5, <1>6, <2>1, <2>2
<1>15. WantsInLock'
  <2> SUFFICES ASSUME NEW x \in Task
               PROVE  wants'[x] # NULL => InLock(x)' /\ held'[x][wants'[x]] = 0
    BY DEF WantsInLock
  <2>1. CASE x = t
    BY <1>4, <1>5, <2>1
  <2>2. CASE x # t
    <3>1. wants'[x] = wants[x] /\ wants[x] \in mutexes \cup {NULL}
          /\ (InLock(x)' <=> InLock(x))
      BY <1>2, <1>4, <1>5, <2>2
    <3>2. \A y \in mutexes : held'[x][y] = held[x][y]
      BY <1>7, <2>2
    <3> QED
      BY <3>1, <3>2 DEF LockInv, WantsInLock
  <2> QED
    BY <2>1, <2>2
<1> QED
  BY <1>6, <1>9, <1>10, <1>11, <1>12, <1>13, <1>14, <1>15 DEF LockInv

-----------------------------------------------------------------------------
(* Unlock. *)

\* An unlock that leaves a level locked.
LEMMA UnlockLevelKeeps ==
    ASSUME LockInv, NEW t \in Task, NEW m \in mutexes, unlock_level(t, m)
    PROVE  LockInv'
<1>1. /\ pc[t] = "app" /\ owner[m] = t /\ lock_count[m] > 1
      /\ lock_count' = [lock_count EXCEPT ![m] = lock_count[m] - 1]
      /\ held' = [held EXCEPT ![t][m] = held[t][m] - 1]
      /\ k' = k /\ pc' = pc /\ owner' = owner /\ wants' = wants
  BY DEF unlock_level, Calls
<1>2. wants[t] = NULL /\ held[t][m] > 0 /\ lock_count[m] = held[t][m]
  BY <1>1, OwnersKnow
<1>3. /\ \A x \in mutexes : lock_count[x] \in 0 .. MaxDepth
      /\ lock_count \in [mutexes -> 0 .. MaxDepth]
      /\ held \in [Task -> [mutexes -> 0 .. MaxDepth]]
      /\ \A x \in Task, y \in mutexes : held[x][y] \in 0 .. MaxDepth
  BY MutexTypes DEF LockInv, MutexTypeOK
<1>4. held[t][m] - 1 \in 1 .. MaxDepth
  BY <1>1, <1>2, <1>3, MutexAssumption
<1>5. \A x \in mutexes : lock_count'[x] = IF x = m THEN held[t][m] - 1 ELSE lock_count[x]
  BY <1>1, <1>2, <1>3
<1>6. \A x \in Task, y \in mutexes :
         held'[x][y] = IF x = t /\ y = m THEN held[t][m] - 1 ELSE held[x][y]
  BY <1>1, <1>3
<1>7. MutexTypeOK'
  <2>1. lock_count' \in [mutexes -> 0 .. MaxDepth]
    <3>1. lock_count[m] - 1 \in 0 .. MaxDepth
      BY <1>2, <1>4
    <3> QED
      BY <1>1, <1>3, <3>1
  <2>2. held' \in [Task -> [mutexes -> 0 .. MaxDepth]]
    <3>1. [held[t] EXCEPT ![m] = held[t][m] - 1] \in [mutexes -> 0 .. MaxDepth]
      BY <1>3, <1>4
    <3> QED
      BY <1>1, <1>3, <3>1
  <2>3. /\ k' \in Kernel /\ pc' \in [Task -> PcLabel]
        /\ owner' \in [mutexes -> Task \cup {NULL}]
        /\ wants' \in [Task -> mutexes \cup {NULL}]
    BY <1>1 DEF LockInv, MutexTypeOK, TypeOK
  <2> QED
    BY <2>1, <2>2, <2>3 DEF MutexTypeOK, TypeOK
<1>8. Exclusive'
  <2>1. \A x \in Task : held[x][m] > 0 => x = t
    BY <1>1 DEF LockInv, Exclusive
  <2> QED
    BY <1>1, <1>3, <1>5, <1>6, <2>1 DEF LockInv, Exclusive
<1>9. HandedToWaiter'
  <2>1. held'[t][m] # 0
    BY <1>4, <1>6
  <2>2. \A x \in Task, y \in mutexes : held'[x][y] = 0 => held[x][y] = 0 /\ ~ (x = t /\ y = m)
    BY <1>6, <2>1
  <2>3. \A x \in Task, y \in mutexes : owner[y] = x /\ held'[x][y] = 0 => y # m
    BY <1>1, <2>2
  <2> QED
    BY <1>1, <1>5, <2>2, <2>3 DEF LockInv, HandedToWaiter, InLock
<1>10. NoWaitForFree' /\ BoostEnds' /\ WaitersInLock' /\ ListedStates(k)'
  BY <1>1 DEF LockInv, NoWaitForFree, BoostEnds, WaitersInLock, InLock
<1>11. CountedOwned'
  <2>1. held[t][m] - 1 # 0 /\ owner[m] # NULL
    BY <1>1, <1>4, TaskAssumption
  <2> QED
    BY <1>1, <1>5, <2>1 DEF LockInv, CountedOwned
<1>12. WantsInLock'
  <2>1. \A x \in Task : wants[x] # NULL => x # t /\ wants[x] \in mutexes
    BY <1>2, MutexTypes DEF LockInv
  <2>2. \A x \in Task : wants[x] # NULL => held'[x][wants[x]] = held[x][wants[x]]
    BY <1>6, <2>1
  <2> QED
    BY <1>1, <2>2 DEF LockInv, WantsInLock, InLock
<1> QED
  BY <1>7, <1>8, <1>9, <1>10, <1>11, <1>12 DEF LockInv

\* The kernel after the last unlock of m by t, W the waiter it woke, if any.
ReleaseEffect(t, m, W) ==
    /\ k' \in Kernel /\ ListedStates(k')
    /\ \A y \in mutexes : Range(k'.waiters[y]) = Range(k.waiters[y]) \ W
    /\ k'.priority = [k.priority EXCEPT ![t] = BasePriority[t]]
    /\ \A x \in Task : k'.state[x] = IF x \in W THEN "READY" ELSE k.state[x]
    /\ \A x \in Task : k'.last_wait_result[x] = IF x \in W THEN "OK" ELSE k.last_wait_result[x]

\* The last unlock has that effect.
LEMMA ReleaseFields ==
    ASSUME LockInv, NEW t \in Task, NEW m \in mutexes, NEW W,
           W = IF k.waiters[m] # << >> THEN {Head(k.waiters[m])} ELSE {},
           k' = wake_waiter([k EXCEPT !.priority[t] = BasePriority[t]], m)
    PROVE  ReleaseEffect(t, m, W)
<1> DEFINE z == [k EXCEPT !.priority[t] = BasePriority[t]]
           h == Head(k.waiters[m])
<1>1. /\ k \in Kernel /\ ListedStates(k)
      /\ k.priority \in [Task -> Prio] /\ k.state \in [Task -> TaskState]
      /\ k.last_wait_result \in [Task -> WaitResult]
      /\ \A y \in mutexes : y \in WaitList /\ Range(k.waiters[y]) \subseteq Task
      /\ BasePriority[t] \in Prio
  BY MutexTypes, PriorityAssumption DEF LockInv
<1>2. /\ z.ready = k.ready /\ z.delayed = k.delayed /\ z.waiters = k.waiters
      /\ z.state = k.state /\ z.last_wait_result = k.last_wait_result
      /\ z.priority = [k.priority EXCEPT ![t] = BasePriority[t]]
  BY <1>1 DEF Kernel
<1>3. z \in Kernel
  <2>1. [k.priority EXCEPT ![t] = BasePriority[t]] \in [Task -> Prio]
    BY <1>1
  <2>2. z = [k EXCEPT !.priority = [k.priority EXCEPT ![t] = BasePriority[t]]]
    OBVIOUS
  <2> QED
    BY <1>1, <2>1, <2>2 DEF Kernel
<1>4. k' = wake_waiter(z, m)
  OBVIOUS
<1> HIDE DEF z
<1>5. CASE k.waiters[m] = << >>
  <2>1. k' = z /\ W = {}
    BY <1>2, <1>4, <1>5 DEF wake_waiter
  <2>2. ListedStates(k')
    BY <1>1, <1>2, <2>1, ZenonT(40) DEF ListedStates
  <2> QED
    BY <1>2, <1>3, <2>1, <2>2 DEF ReleaseEffect
<1>6. CASE k.waiters[m] # << >>
  <2>1. W = {h}
    BY <1>6
  <2>2. WakeEffect(z, m, h, k')
    BY <1>1, <1>2, <1>3, <1>4, <1>6, WakeFields
  <2> HIDE DEF h
  <2>3. /\ k' \in Kernel /\ h \in Task
        /\ \A v \in WaitList : Range(k'.waiters[v]) = Range(k.waiters[v]) \ {h}
        /\ \A p \in Prio : Range(k'.ready[p]) \subseteq Range(k.ready[p]) \cup {h}
        /\ Range(k'.delayed) = Range(k.delayed) \ {h}
        /\ k'.state = [k.state EXCEPT ![h] = "READY"]
        /\ k'.last_wait_result = [k.last_wait_result EXCEPT ![h] = "OK"]
        /\ k'.priority = z.priority
    <3>1. /\ \A p \in Prio \ {z.priority[h]} : Range(k'.ready[p]) = Range(k.ready[p]) \ {h}
          /\ Range(k'.ready[z.priority[h]]) = Range(k.ready[z.priority[h]]) \cup {h}
      BY <1>2, <2>2 DEF WakeEffect
    <3>2. \A p \in Prio : Range(k'.ready[p]) \subseteq Range(k.ready[p]) \cup {h}
      BY <3>1
    <3> QED
      BY <1>2, <2>2, <3>2 DEF WakeEffect, SameTask
  <2>4. /\ \A x \in Task : k'.state[x] = IF x \in W THEN "READY" ELSE k.state[x]
        /\ \A x \in Task : k'.last_wait_result[x] =
                              IF x \in W THEN "OK" ELSE k.last_wait_result[x]
    BY <1>1, <2>1, <2>3
  <2>5. ListedStates(k')
    <3>1. Range(k.delayed) \subseteq Task /\ \A p \in Prio : Range(k.ready[p]) \subseteq Task
      BY <1>1, ListTypes
    <3> QED
      BY <1>1, <2>1, <2>3, <2>4, <3>1, ZenonT(40) DEF ListedStates
  <2>6. \A y \in mutexes : Range(k'.waiters[y]) = Range(k.waiters[y]) \ W
    BY <1>1, <2>1, <2>3
  <2> QED
    BY <1>2, <2>3, <2>4, <2>5, <2>6 DEF ReleaseEffect
<1> QED
  BY <1>5, <1>6

\* The last unlock hands the mutex over, or frees it.
LEMMA UnlockReleaseKeeps ==
    ASSUME LockInv, NEW t \in Task, NEW m \in mutexes, unlock_release(t, m)
    PROVE  LockInv'
<1> DEFINE woken == k.waiters[m] # << >>
           h == Head(k.waiters[m])
           W == IF k.waiters[m] # << >> THEN {Head(k.waiters[m])} ELSE {}
           new == IF woken THEN h ELSE NULL
           count == IF woken THEN 1 ELSE 0
<1>1. /\ pc[t] = "app" /\ owner[m] = t /\ lock_count[m] = 1
      /\ owner' = [owner EXCEPT ![m] = new]
      /\ lock_count' = [lock_count EXCEPT ![m] = count]
      /\ held' = [held EXCEPT ![t][m] = held[t][m] - 1]
      /\ pc' = IF woken THEN [pc EXCEPT ![t] = "switch"] ELSE pc
      /\ wants' = wants
  BY DEF unlock_release, Calls
<1>2. ReleaseEffect(t, m, W)
  BY ReleaseFields DEF unlock_release
<1>3. /\ k \in Kernel /\ pc \in [Task -> PcLabel] /\ k.priority \in [Task -> Prio]
      /\ \A y \in mutexes : /\ y \in WaitList
                            /\ k.waiters[y] \in Seq(Task)
                            /\ Range(k.waiters[y]) \subseteq Task
                            /\ k.waiters[y] = << >> <=> Range(k.waiters[y]) = {}
      /\ \A x \in Task, y \in mutexes : held[x][y] \in 0 .. MaxDepth
      /\ held \in [Task -> [mutexes -> 0 .. MaxDepth]]
      /\ lock_count \in [mutexes -> 0 .. MaxDepth]
      /\ owner \in [mutexes -> Task \cup {NULL}]
      /\ wants \in [Task -> mutexes \cup {NULL}]
  BY MutexTypes DEF LockInv, MutexTypeOK
<1>4. wants[t] = NULL /\ held[t][m] = 1
  BY <1>1, OwnersKnow
<1>5. woken => /\ h \in Range(k.waiters[m]) /\ h \in Task /\ h # t
               /\ wants[h] = m /\ InLock(h)
  <2>1. woken => h \in Range(k.waiters[m]) /\ h \in Task
    BY <1>3, EmptyRange
  <2> QED
    BY <1>1, <2>1 DEF LockInv, WaitersInLock
<1>6. /\ ~ woken => W = {} /\ new = NULL /\ count = 0
      /\ woken => W = {h} /\ new = h /\ count = 1
  OBVIOUS
<1>7. ~ woken => Range(k.waiters[m]) = {}
  BY <1>3
<1> HIDE DEF woken, h, W, new, count
<1>8. /\ \A y \in mutexes : owner'[y] = IF y = m THEN new ELSE owner[y]
      /\ \A y \in mutexes : lock_count'[y] = IF y = m THEN count ELSE lock_count[y]
      /\ \A x \in Task, y \in mutexes :
            held'[x][y] = IF x = t /\ y = m THEN 0 ELSE held[x][y]
  BY <1>1, <1>3, <1>4
<1>9. pc' \in [Task -> PcLabel] /\ \A x \in Task : InLock(x)' <=> InLock(x)
  <2>1. CASE woken
    BY <1>1, <1>3, <2>1 DEF InLock, PcLabel
  <2>2. CASE ~ woken
    BY <1>1, <1>3, <2>2 DEF InLock
  <2> QED
    BY <2>1, <2>2
<1>10. /\ k' \in Kernel /\ ListedStates(k')
       /\ \A y \in mutexes : Range(k'.waiters[y]) = Range(k.waiters[y]) \ W
       /\ \A x \in Task : k'.priority[x] = IF x = t THEN BasePriority[t] ELSE k.priority[x]
       /\ \A x \in Task : k'.state[x] = IF x \in W THEN "READY" ELSE k.state[x]
       /\ \A x \in Task : k'.last_wait_result[x] =
                             IF x \in W THEN "OK" ELSE k.last_wait_result[x]
  BY <1>2, <1>3 DEF ReleaseEffect
<1>11. MutexTypeOK'
  <2>1. owner' \in [mutexes -> Task \cup {NULL}]
    BY <1>1, <1>3, <1>5, <1>6
  <2>2. lock_count' \in [mutexes -> 0 .. MaxDepth]
    <3>1. count \in 0 .. MaxDepth
      BY <1>6, MutexAssumption
    <3> QED
      BY <1>1, <1>3, <3>1
  <2>3. held' \in [Task -> [mutexes -> 0 .. MaxDepth]]
    <3>1. held[t][m] - 1 \in 0 .. MaxDepth
      BY <1>4, MutexAssumption
    <3>2. [held[t] EXCEPT ![m] = held[t][m] - 1] \in [mutexes -> 0 .. MaxDepth]
      BY <1>3, <3>1
    <3> QED
      BY <1>1, <1>3, <3>2
  <2> QED
    BY <1>1, <1>3, <1>9, <1>10, <2>1, <2>2, <2>3 DEF MutexTypeOK, TypeOK
<1>12. Exclusive'
  <2>1. \A x \in Task : held[x][m] > 0 => x = t
    BY <1>1 DEF LockInv, Exclusive
  <2> QED
    BY <1>3, <1>8, <2>1 DEF LockInv, Exclusive
<1>13. HandedToWaiter'
  <2> SUFFICES ASSUME NEW y \in mutexes, NEW x \in Task, owner'[y] = x, held'[x][y] = 0
               PROVE  /\ InLock(x)' /\ wants'[x] = y /\ lock_count'[y] = 1
                      /\ k'.state[x] # "BLOCKED" /\ k'.last_wait_result[x] = "OK"
    BY DEF HandedToWaiter
  <2>1. CASE y = m
    <3>1. woken /\ x = h
      BY <1>6, <1>8, <2>1, TaskAssumption
    <3>2. x \in W /\ InLock(x) /\ wants[x] = m /\ count = 1
      BY <1>5, <1>6, <3>1
    <3> QED
      BY <1>1, <1>8, <1>9, <1>10, <2>1, <3>2
  <2>2. CASE y # m
    <3>1. owner[y] = x /\ held[x][y] = 0
      BY <1>8, <2>2
    <3>2. /\ InLock(x) /\ wants[x] = y /\ lock_count[y] = 1
          /\ k.state[x] # "BLOCKED" /\ k.last_wait_result[x] = "OK"
      BY <3>1 DEF LockInv, HandedToWaiter
    <3> QED
      BY <1>1, <1>8, <1>9, <1>10, <2>2, <3>2
  <2> QED
    BY <2>1, <2>2
<1>14. NoWaitForFree'
  <2>1. \A y \in mutexes : k'.waiters[y] \in Seq(Task)
    BY <1>3, <1>10, ListTypes
  <2>2. \A y \in mutexes : k'.waiters[y] = << >> <=> Range(k'.waiters[y]) = {}
    BY <2>1, EmptyRange
  <2>3. \A y \in mutexes : k'.waiters[y] # << >> => k.waiters[y] # << >>
    BY <1>3, <1>10, <2>2
  <2>4. k'.waiters[m] # << >> => new # NULL
    BY <1>3, <1>5, <1>6, <1>7, <2>3, TaskAssumption
  <2> QED
    BY <1>8, <2>3, <2>4 DEF LockInv, NoWaitForFree
<1>15. BoostEnds'
  <2>1. \A x \in Task : k.priority[x] \in Int /\ BasePriority[x] \in Int
    BY <1>3, PriorityAssumption DEF Prio
  <2>2. \A x \in Task \ {t} : \A y \in mutexes : owner[y] = x => owner'[y] = x
    BY <1>1, <1>8
  <2> QED
    BY <1>10, <2>1, <2>2 DEF LockInv, BoostEnds
<1>16. CountedOwned'
  <2>1. count = 0 <=> new = NULL
    BY <1>5, <1>6, TaskAssumption
  <2> QED
    BY <1>8, <2>1 DEF LockInv, CountedOwned
<1>17. WaitersInLock'
  <2> SUFFICES ASSUME NEW y \in mutexes, NEW x \in Range(k'.waiters[y])
               PROVE  wants'[x] = y /\ InLock(x)' /\ k'.state[x] = "BLOCKED" /\ owner'[y] # x
    BY DEF WaitersInLock
  <2>1. x \in Range(k.waiters[y]) /\ x \in Task /\ x \notin W
    BY <1>3, <1>10
  <2>2. wants[x] = y /\ InLock(x) /\ k.state[x] = "BLOCKED" /\ owner[y] # x
    BY <2>1 DEF LockInv, WaitersInLock
  <2>3. new # x
    BY <1>6, <2>1, TaskAssumption
  <2> QED
    BY <1>1, <1>8, <1>9, <1>10, <2>1, <2>2, <2>3
<1>18. WantsInLock'
  <2>1. \A x \in Task : wants[x] # NULL => x # t /\ wants[x] \in mutexes
    BY <1>3, <1>4
  <2>2. \A x \in Task : wants[x] # NULL => held'[x][wants[x]] = held[x][wants[x]]
    BY <1>8, <2>1
  <2> QED
    BY <1>1, <1>9, <2>2 DEF LockInv, WantsInLock
<1> QED
  BY <1>10, <1>11, <1>12, <1>13, <1>14, <1>15, <1>16, <1>17, <1>18 DEF LockInv

-----------------------------------------------------------------------------
(* The steps of the task layer. *)

\* A step that is not about mutexes: it puts nobody in the wait list of one, takes
\* only tasks that do not stay BLOCKED out of it, and does not touch a task a
\* mutex was handed to.
OutsideStep ==
    /\ k' \in Kernel /\ ListedStates(k') /\ pc' \in [Task -> PcLabel]
    /\ k'.priority = k.priority
    /\ \A y \in mutexes : Range(k'.waiters[y]) \subseteq Range(k.waiters[y])
    /\ \A y \in mutexes : \A x \in Range(k'.waiters[y]) : k'.state[x] = "BLOCKED"
    /\ \A x \in Task : wants[x] # NULL =>
          /\ InLock(x)'
          /\ k.state[x] # "BLOCKED" =>
                k'.state[x] # "BLOCKED" /\ k'.last_wait_result[x] = k.last_wait_result[x]

\* Such a step keeps what mutexes promise.
LEMMA OutsideKeeps ==
    ASSUME LockInv, OutsideStep, UNCHANGED mutexState
    PROVE  LockInv'
<1>1. owner' = owner /\ lock_count' = lock_count /\ held' = held /\ wants' = wants
  BY DEF mutexState
<1>2. /\ k \in Kernel
      /\ \A y \in mutexes : /\ y \in WaitList
                            /\ Range(k.waiters[y]) \subseteq Task
                            /\ k.waiters[y] = << >> <=> Range(k.waiters[y]) = {}
  BY MutexTypes DEF LockInv, MutexTypeOK
<1>4. /\ k' \in Kernel /\ ListedStates(k') /\ pc' \in [Task -> PcLabel]
      /\ k'.priority = k.priority
      /\ \A x \in Task : wants[x] # NULL => InLock(x)'
  BY DEF OutsideStep
<1>5. /\ \A y \in mutexes : Range(k'.waiters[y]) \subseteq Range(k.waiters[y])
      /\ \A y \in mutexes : \A x \in Range(k'.waiters[y]) : k'.state[x] = "BLOCKED"
      /\ \A x \in Task : wants[x] # NULL /\ k.state[x] # "BLOCKED" =>
            k'.state[x] # "BLOCKED" /\ k'.last_wait_result[x] = k.last_wait_result[x]
  BY DEF OutsideStep
<1>6. MutexTypeOK'
  BY <1>1, <1>4 DEF LockInv, MutexTypeOK, TypeOK
<1>7. Exclusive' /\ CountedOwned' /\ BoostEnds' /\ WantsInLock'
  BY <1>1, <1>4 DEF LockInv, Exclusive, CountedOwned, BoostEnds, WantsInLock
<1>8. HandedToWaiter'
  BY <1>1, <1>4, <1>5, MutexAssumption DEF LockInv, HandedToWaiter
<1>9. NoWaitForFree'
  <2>1. \A y \in mutexes : k'.waiters[y] \in Seq(Task)
    BY <1>2, <1>4, ListTypes
  <2>2. \A y \in mutexes : k'.waiters[y] = << >> <=> Range(k'.waiters[y]) = {}
    BY <2>1, EmptyRange
  <2>3. \A y \in mutexes : k'.waiters[y] # << >> => k.waiters[y] # << >>
    BY <1>2, <1>5, <2>2
  <2> QED
    BY <1>1, <2>3 DEF LockInv, NoWaitForFree
<1>10. WaitersInLock'
  BY <1>1, <1>2, <1>4, <1>5, MutexAssumption DEF LockInv, WaitersInLock
<1> QED
  BY <1>4, <1>6, <1>7, <1>8, <1>9, <1>10 DEF LockInv

\* A tick takes the waiters whose deadline it is out of the wait lists; it never
\* touches a task the mutex was handed to.  No other step of the kernel is seen
\* by a mutex.
LEMMA KernelStepKeeps ==
    ASSUME LockInv, [TaskNext]_tvars, UNCHANGED mutexState
    PROVE  LockInv' /\ \A x \in Task : InLock(x)' <=> InLock(x)
<1>2. /\ k \in Kernel /\ ListedStates(k) /\ TypeOK
      /\ \A y \in mutexes : /\ y \in WaitList
                            /\ Range(k.waiters[y]) \subseteq Task
                            /\ k.waiters[y] = << >> <=> Range(k.waiters[y]) = {}
  BY MutexTypes DEF LockInv, MutexTypeOK
<1>3. TaskStepEffect
  BY <1>2, TaskNextEffect
<1>4. /\ k' \in Kernel /\ ListedStates(k') /\ pc' \in [Task -> PcLabel]
      /\ k'.priority = k.priority
      /\ \A x \in Task : InLock(x)' <=> InLock(x)
  BY <1>3 DEF TaskStepEffect, InLock
<1>5. /\ \A y \in mutexes : Range(k'.waiters[y]) \subseteq Range(k.waiters[y])
      /\ \A y \in mutexes : \A x \in Range(k'.waiters[y]) : k'.state[x] = "BLOCKED"
      /\ \A x \in Task : InLock(x) /\ k.state[x] # "BLOCKED" =>
            k'.state[x] # "BLOCKED" /\ k'.last_wait_result[x] = k.last_wait_result[x]
  <2>1. CASE QuietStep
    <3>1. /\ k'.waiters = k.waiters /\ k'.last_wait_result = k.last_wait_result
          /\ \A x \in Task : InLock(x) =>
                (k'.state[x] = "BLOCKED" <=> k.state[x] = "BLOCKED")
      BY <2>1 DEF QuietStep, InLock
    <3>2. \A y \in mutexes : \A x \in Range(k.waiters[y]) :
              x \in Task /\ InLock(x) /\ k.state[x] = "BLOCKED"
      BY <1>2 DEF LockInv, WaitersInLock
    <3> QED
      BY <3>1, <3>2
  <2>2. CASE TickStep
    <3> DEFINE D == DueSet(k)
    <3>1. \A x \in D : x \in Task /\ k.state[x] = "BLOCKED"
      BY <1>2, ListTypes DEF DueSet, ListedStates
    <3>2. TickEffect(k, D, k')
      BY <2>2 DEF TickStep
    <3> HIDE DEF D
    <3>3. \A y \in mutexes : Range(k'.waiters[y]) = Range(k.waiters[y]) \ D
      BY <1>2, <3>2 DEF TickEffect
    <3>4. /\ k'.state = [x \in Task |-> IF x \in D THEN "READY" ELSE k.state[x]]
          /\ k'.last_wait_result =
                [x \in Task |-> IF x \in D THEN "TIMEOUT" ELSE k.last_wait_result[x]]
      BY <3>2 DEF TickEffect
    <3>5. \A x \in Task \ D : /\ k'.state[x] = k.state[x]
                              /\ k'.last_wait_result[x] = k.last_wait_result[x]
      BY <3>4
    <3>6. \A y \in mutexes : \A x \in Range(k.waiters[y]) :
              x \in Task /\ k.state[x] = "BLOCKED"
      BY <1>2 DEF LockInv, WaitersInLock
    <3> QED
      BY <3>1, <3>3, <3>5, <3>6
  <2> QED
    BY <1>3, <2>1, <2>2 DEF TaskStepEffect
<1>6. OutsideStep
  BY <1>4, <1>5 DEF LockInv, WantsInLock, OutsideStep
<1> QED
  BY <1>4, <1>6, OutsideKeeps

-----------------------------------------------------------------------------
(* The theorems. *)

\* Every step keeps the invariant.
LEMMA MutexNextKeeps == MutexInv /\ [MutexNext]_mvars => MutexInv'
<1> SUFFICES ASSUME MutexInv, [MutexNext]_mvars PROVE MutexInv'
  OBVIOUS
<1>0. /\ LockInv /\ BlocksInLock
      /\ pc \in [Task -> PcLabel] /\ wants \in [Task -> mutexes \cup {NULL}]
  BY DEF MutexInv, LockInv, MutexTypeOK, TypeOK
<1>1. ASSUME NEW t \in Task, lock_resumed(t) PROVE MutexInv'
  <2>1. wants[t] # NULL
    BY <1>0, <1>1 DEF BlocksInLock, InLock, lock_resumed
  <2>2. BlocksInLock'
    BY <1>0, <1>1 DEF BlocksInLock, InLock, lock_resumed
  <2> QED
    BY <1>0, <1>1, <2>1, <2>2, LockResumedKeeps DEF MutexInv
<1>2. ASSUME NEW t \in Task, NEW m \in mutexes, lock_now(t, m) PROVE MutexInv'
  <2>1. BlocksInLock'
    BY <1>0, <1>2 DEF BlocksInLock, InLock, lock_now
  <2> QED
    BY <1>0, <1>2, <2>1, LockNowKeeps DEF MutexInv
<1>3. ASSUME NEW t \in Task, NEW m \in mutexes, unlock(t, m) PROVE MutexInv'
  <2>1. BlocksInLock'
    BY <1>0, <1>3 DEF BlocksInLock, InLock, unlock, unlock_level, unlock_release, PcLabel
  <2> QED
    BY <1>0, <1>3, <2>1, UnlockLevelKeeps, UnlockReleaseKeeps DEF unlock, MutexInv
<1>4. ASSUME NEW t \in Task, NEW m \in mutexes, NEW n \in TimeoutArgs, lock_block(t, m, n)
      PROVE MutexInv'
  <2>1. BlocksInLock'
    BY <1>0, <1>4, MutexAssumption DEF BlocksInLock, InLock, lock_block
  <2>2. n \in TickCount
    BY MutexAssumption
  <2> QED
    BY <1>0, <1>4, <2>1, <2>2, LockBlockKeeps DEF MutexInv
<1>5. ASSUME [TaskNext]_tvars, UNCHANGED mutexState PROVE MutexInv'
  <2>1. LockInv' /\ \A x \in Task : InLock(x)' <=> InLock(x)
    BY <1>0, <1>5, KernelStepKeeps
  <2> QED
    BY <1>0, <1>5, <2>1 DEF MutexInv, BlocksInLock, mutexState
<1>6. KernelStep \/ UNCHANGED mvars => [TaskNext]_tvars /\ UNCHANGED mutexState
  BY DEF KernelStep, mvars, tvars, mutexState
<1> QED
  BY <1>1, <1>2, <1>3, <1>4, <1>5, <1>6 DEF MutexNext, MutexStep

\* The invariant holds before the first task runs.
LEMMA MutexInitInv == MutexInit => MutexInv
<1> SUFFICES ASSUME MutexInit PROVE MutexInv
  OBVIOUS
<1>1. /\ TaskInit
      /\ owner = [m \in mutexes |-> NULL]
      /\ lock_count = [m \in mutexes |-> 0]
      /\ held = [t \in Task |-> [m \in mutexes |-> 0]]
      /\ wants = [t \in Task |-> NULL]
  BY DEF MutexInit
<1>2. TypeOK /\ KernelInv(k) /\ k.priority = BasePriority
  BY <1>1, TaskInitInv DEF TaskInv, Inv, ListsConsistent
<1>3. /\ \A m \in mutexes : k.waiters[m] = << >>
      /\ \A t \in Task : pc[t] = "app"
  BY <1>1, MutexAssumption DEF TaskInit, scheduler_init, add_ready
<1>4. \A m \in mutexes : Range(k.waiters[m]) = {}
  BY <1>3 DEF Range
<1>5. 0 \in 0 .. MaxDepth
  BY MutexAssumption
<1>6. /\ \A m \in mutexes : owner[m] = NULL /\ lock_count[m] = 0
      /\ \A t \in Task, m \in mutexes : held[t][m] = 0
      /\ \A t \in Task : wants[t] = NULL /\ ~ InLock(t)
  BY <1>1, <1>3 DEF InLock
<1>7. MutexTypeOK
  BY <1>1, <1>2, <1>5 DEF MutexTypeOK
<1>8. ListedStates(k)
  BY <1>2, ConsistentListedStates
<1>9. Exclusive /\ HandedToWaiter /\ NoWaitForFree
  BY <1>3, <1>6, TaskAssumption DEF Exclusive, HandedToWaiter, NoWaitForFree
<1>10. BoostEnds
  <2>1. \A t \in Task : BasePriority[t] \in Int
    BY PriorityAssumption DEF Prio
  <2> QED
    BY <1>2, <2>1 DEF BoostEnds
<1>11. CountedOwned /\ WaitersInLock /\ WantsInLock /\ BlocksInLock
  BY <1>4, <1>6 DEF CountedOwned, WaitersInLock, WantsInLock, BlocksInLock
<1> QED
  BY <1>7, <1>8, <1>9, <1>10, <1>11 DEF MutexInv, LockInv

\* The inductive invariant holds in every behaviour.
LEMMA MutexAlways == MutexSpec => []MutexInv
BY MutexInitInv, MutexNextKeeps, PTL DEF MutexSpec

\* MutexTypesKept: owners are tasks, and neither lock_count nor what a task believes
\* to hold leaves its range.
THEOREM MutexTypesKept == MutexSpec => []MutexTypeOK
<1>1. MutexInv => MutexTypeOK
  BY DEF MutexInv, LockInv
<1> QED
  BY <1>1, MutexAlways, PTL

\* MutexExclusive: whoever believes to hold a mutex owns it, to the depth it
\* believes, so no two tasks hold one mutex.
THEOREM MutexExclusive == MutexSpec => []Exclusive
<1>1. MutexInv => Exclusive
  BY DEF MutexInv, LockInv
<1> QED
  BY <1>1, MutexAlways, PTL

\* MutexHandedToWaiter: a mutex handed over by unlock goes to a task that is
\* awake, inside its lock call and due to return OK, even if its timeout passes.
THEOREM MutexHandedToWaiter == MutexSpec => []HandedToWaiter
<1>1. MutexInv => HandedToWaiter
  BY DEF MutexInv, LockInv
<1> QED
  BY <1>1, MutexAlways, PTL

\* MutexNoWaitForFree: nobody waits for a mutex nobody owns.
THEOREM MutexNoWaitForFree == MutexSpec => []NoWaitForFree
<1>1. MutexInv => NoWaitForFree
  BY DEF MutexInv, LockInv
<1> QED
  BY <1>1, MutexAlways, PTL

\* MutexBoostEnds: a task runs above its base priority only while it owns a mutex,
\* and never below it.
THEOREM MutexBoostEnds == MutexSpec => []BoostEnds
<1>1. MutexInv => BoostEnds
  BY DEF MutexInv, LockInv
<1> QED
  BY <1>1, MutexAlways, PTL
=============================================================================
