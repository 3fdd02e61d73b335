------------------------------- MODULE Mutex -------------------------------
(***************************************************************************)
(* Recursive mutexes with priority inheritance (kernel/src/mutex.c), on    *)
(* the kernel of Tasks.                                                    *)
(*                                                                         *)
(* A blocking lock is two critical sections with a context switch between  *)
(* them.  held and wants are not in the code's data: held counts, for each *)
(* task, the lock calls that returned OK less its unlocks (what the task   *)
(* believes), wants is the argument of the lock call the task is in.       *)
(***************************************************************************)
EXTENDS Tasks

CONSTANTS
    mutexes,        \* the mutexes; each also names its wait list
    TimeoutArgs,    \* the timeouts tasks pass to lock
    MaxDepth        \* bound on recursive locking, so that runs are finite

ASSUME MutexAssumption == /\ mutexes \subseteq WaitList /\ NULL \notin mutexes
                          /\ TimeoutArgs \subseteq TickCount /\ MaxDepth \in Nat \ {0}

VARIABLES
    owner,      \* owner[m]: mutex->owner
    lock_count, \* lock_count[m]: mutex->lock_count
    held,       \* held[t][m]: how often t has locked m, as t knows
    wants       \* wants[t]: the mutex t is blocked in lock for, or NULL
mvars == <<k, pc, owner, lock_count, held, wants>>
mutexState == <<owner, lock_count, held, wants>>

MutexInit ==
    /\ TaskInit
    /\ owner = [m \in mutexes |-> NULL]
    /\ lock_count = [m \in mutexes |-> 0]
    /\ held = [t \in Task |-> [m \in mutexes |-> 0]]
    /\ wants = [t \in Task |-> NULL]

\* Priority inheritance: one comparison and one assignment.  The owner stays
\* linked where it is.
boost(s, o, t) ==
    IF s.priority[t] > s.priority[o]
    THEN [s EXCEPT !.priority[o] = s.priority[t]] ELSE s

\* nimble_mutex_lock, when the mutex is free or the caller's own.
lock_now(t, m) ==
    /\ Calls(t)
    /\ \/ owner[m] = NULL /\ lock_count' = [lock_count EXCEPT ![m] = 1]
       \/ /\ owner[m] = t /\ lock_count[m] < MaxDepth
          /\ lock_count' = [lock_count EXCEPT ![m] = @ + 1]
    /\ owner' = [owner EXCEPT ![m] = t]
    /\ held' = [held EXCEPT ![t][m] = @ + 1]
    /\ UNCHANGED <<k, pc, wants>>

\* nimble_mutex_lock, when another task owns the mutex: inherit, queue, block.
\* With NO_WAIT the call returns TIMEOUT and nothing changes.
lock_block(t, m, timeout) ==
    /\ Calls(t) /\ owner[m] \notin {NULL, t} /\ timeout # NO_WAIT
    /\ LET boosted == boost(k, owner[m], t)
       IN  k' = prepare_block(insert_waiter_priority_sorted(boosted, m, t), t, timeout)
    /\ pc' = [pc EXCEPT ![t] = "block"]
    /\ wants' = [wants EXCEPT ![t] = m]
    /\ UNCHANGED <<owner, lock_count, held>>

\* Mutant: a timed-out lock is taken for a granted one.
Bug_lock_resumed_unchecked(t) ==
    /\ Executes(t) /\ pc[t] = "wake"
    /\ held' = [held EXCEPT ![t][wants[t]] = @ + 1]
    /\ k' = UnlinkEvent(k, t)
    /\ pc' = [pc EXCEPT ![t] = "app"]
    /\ wants' = [wants EXCEPT ![t] = NULL]
    /\ UNCHANGED <<owner, lock_count>>

\* nimble_mutex_lock behind the switch: OK iff unlock made the caller the owner.
lock_resumed(t) ==
    /\ Executes(t) /\ pc[t] = "wake"
    /\ IF owner[wants[t]] = t
       THEN held' = [held EXCEPT ![t][wants[t]] = @ + 1] /\ UNCHANGED k
       ELSE k' = UnlinkEvent(k, t) /\ UNCHANGED held
    /\ pc' = [pc EXCEPT ![t] = "app"]
    /\ wants' = [wants EXCEPT ![t] = NULL]
    /\ UNCHANGED <<owner, lock_count>>

\* Mutant: the count is decremented without a look at it.
Bug_unlock_level_unguarded(t, m) ==
    /\ Calls(t) /\ owner[m] = t
    /\ lock_count' = [lock_count EXCEPT ![m] = @ - 1]
    /\ held' = [held EXCEPT ![t][m] = @ - 1]
    /\ UNCHANGED <<k, pc, owner, wants>>

\* nimble_mutex_unlock by the owner (anyone else gets NOT_OWNER, nothing
\* changes): one level less, or back to the base priority and hand over.
unlock_level(t, m) ==
    /\ Calls(t) /\ owner[m] = t /\ lock_count[m] > 1
    /\ lock_count' = [lock_count EXCEPT ![m] = @ - 1]
    /\ held' = [held EXCEPT ![t][m] = @ - 1]
    /\ UNCHANGED <<k, pc, owner, wants>>

\* Mutant: the mutex is freed, and the first waiter woken to compete for it.
Bug_unlock_no_handoff(t, m) ==
    /\ Calls(t) /\ owner[m] = t /\ lock_count[m] = 1
    /\ k' = wake_waiter([k EXCEPT !.priority[t] = BasePriority[t]], m)
    /\ owner' = [owner EXCEPT ![m] = NULL]
    /\ lock_count' = [lock_count EXCEPT ![m] = 0]
    /\ pc' = IF k.waiters[m] # << >> THEN [pc EXCEPT ![t] = "switch"] ELSE pc
    /\ held' = [held EXCEPT ![t][m] = @ - 1]
    /\ UNCHANGED wants

\* Mutant: the inherited priority is kept.
Bug_unlock_keeps_boost(t, m) ==
    /\ Calls(t) /\ owner[m] = t /\ lock_count[m] = 1
    /\ k' = wake_waiter(k, m)
    /\ LET woken == k.waiters[m] # << >>
       IN  /\ owner' = [owner EXCEPT ![m] = IF woken THEN Head(k.waiters[m]) ELSE NULL]
           /\ lock_count' = [lock_count EXCEPT ![m] = IF woken THEN 1 ELSE 0]
           /\ pc' = IF woken THEN [pc EXCEPT ![t] = "switch"] ELSE pc
    /\ held' = [held EXCEPT ![t][m] = @ - 1]
    /\ UNCHANGED wants

unlock_release(t, m) ==
    /\ Calls(t) /\ owner[m] = t /\ lock_count[m] = 1
    /\ k' = wake_waiter([k EXCEPT !.priority[t] = BasePriority[t]], m)
    /\ LET woken == k.waiters[m] # << >>
       IN  /\ owner' = [owner EXCEPT ![m] = IF woken THEN Head(k.waiters[m]) ELSE NULL]
           /\ lock_count' = [lock_count EXCEPT ![m] = IF woken THEN 1 ELSE 0]
           /\ pc' = IF woken THEN [pc EXCEPT ![t] = "switch"] ELSE pc
    /\ held' = [held EXCEPT ![t][m] = @ - 1]
    /\ UNCHANGED wants

unlock(t, m) == unlock_level(t, m) \/ unlock_release(t, m)

MutexStep ==
    \E t \in Task :
        \/ lock_resumed(t)
        \/ \E m \in mutexes : \/ lock_now(t, m)
                              \/ unlock(t, m)
                              \/ \E n \in TimeoutArgs : lock_block(t, m, n)

KernelStep == TaskNext /\ UNCHANGED mutexState

MutexNext == MutexStep \/ KernelStep

MutexSpec == MutexInit /\ [][MutexNext]_mvars

-----------------------------------------------------------------------------
(* Properties. *)

InLock(t) == pc[t] \in {"block", "wake"}

\* MutexTypeOK: the types of the task layer and of the mutexes.
MutexTypeOK ==
    /\ TypeOK
    /\ owner \in [mutexes -> Task \cup {NULL}]
    /\ lock_count \in [mutexes -> 0 .. MaxDepth]
    /\ held \in [Task -> [mutexes -> 0 .. MaxDepth]]
    /\ wants \in [Task -> mutexes \cup {NULL}]

\* Exclusive: whoever believes to hold a mutex owns it, to the depth it
\* believes; no second task does, not even while the mutex is being handed over
\* to a waiter that a tick is timing out.
Exclusive ==
    \A m \in mutexes, t \in Task : held[t][m] > 0 =>
        owner[m] = t /\ lock_count[m] = held[t][m]

\* HandedToWaiter: an owner that does not know it yet is on its way out of lock,
\* woken and on no wait list, so it will find out and can unlock.
HandedToWaiter ==
    \A m \in mutexes, t \in Task : owner[m] = t /\ held[t][m] = 0 =>
        /\ InLock(t) /\ wants[t] = m /\ lock_count[m] = 1
        /\ k.state[t] # "BLOCKED" /\ k.last_wait_result[t] = "OK"

\* NoWaitForFree: nobody waits for a mutex nobody owns.
NoWaitForFree == \A m \in mutexes : k.waiters[m] # << >> => owner[m] # NULL

\* BoostEnds: inheritance never lowers a priority, and a raised one is bound to
\* owning a mutex: it is gone when the mutex is handed over or freed, whichever
\* waiters timed out meanwhile.
BoostEnds ==
    \A t \in Task :
        /\ k.priority[t] >= BasePriority[t]
        /\ k.priority[t] > BasePriority[t] => \E m \in mutexes : owner[m] = t

\* SelectsRealTask: the idle task "guarantees the bitmap is never all-zero so
\* nimble_scheduler_select_next() never has to special-case 'nothing is ready.'"
SelectsRealTask == k.current # WILD
=============================================================================
