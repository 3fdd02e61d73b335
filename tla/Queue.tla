------------------------------- MODULE Queue -------------------------------
(***************************************************************************)
(* A blocking message queue (kernel/src/queue.c): a ring buffer, a wait    *)
(* list for receivers of an empty queue and one for senders to a full one. *)
(*                                                                         *)
(* A blocking call is two critical sections with a context switch between  *)
(* them.  arg[t] is what t's blocked call has on its stack: the item it    *)
(* wants to send, or that it wants to receive.                             *)
(***************************************************************************)
EXTENDS Tasks

CONSTANTS
    receivers_waiting, senders_waiting,     \* the queue's two wait lists
    Item,               \* what can be sent
    Capacity,           \* queue->capacity
    RECEIVE,            \* the arg of a blocked receive
    Senders, Receivers, \* the tasks that call send, and receive
    SendTimeouts, ReceiveTimeouts

ASSUME QueueAssumption ==
    /\ {receivers_waiting, senders_waiting} \subseteq WaitList
    /\ receivers_waiting # senders_waiting
    /\ Capacity \in Nat \ {0} /\ NULL \notin Item /\ RECEIVE \notin Item \cup {NULL}
    /\ Senders \subseteq Task /\ Receivers \subseteq Task
    /\ SendTimeouts \subseteq TickCount /\ ReceiveTimeouts \subseteq TickCount

VARIABLES
    q,      \* the nimble_queue_t: buffer, count, head, tail
    arg,    \* arg[t]: see above; NULL when t is in no blocked call
    out     \* out[t]: the item t received last
qvars == <<k, pc, q, arg, out>>
queueState == <<q, arg, out>>

Slot == 0 .. Capacity - 1

QueueInit ==
    /\ TaskInit
    /\ q = [buffer |-> [i \in Slot |-> NULL], count |-> 0, head |-> 0, tail |-> 0]
    /\ arg = [t \in Task |-> NULL]
    /\ out = [t \in Task |-> NULL]

\* Mutant: the count is not raised.
Bug_copy_in_uncounted(x) ==
    q' = [q EXCEPT !.buffer[q.tail] = x, !.tail = (@ + 1) % Capacity]

copy_in(x) ==
    q' = [q EXCEPT !.buffer[q.tail] = x,
                   !.tail = (@ + 1) % Capacity,
                   !.count = @ + 1]

\* Mutant: the head does not move.
Bug_copy_out_head(t) ==
    /\ out' = [out EXCEPT ![t] = q.buffer[q.head]]
    /\ q' = [q EXCEPT !.count = @ - 1]

copy_out(t) ==
    /\ out' = [out EXCEPT ![t] = q.buffer[q.head]]
    /\ q' = [q EXCEPT !.head = (@ + 1) % Capacity, !.count = @ - 1]

\* Wake the first waiter of w; the caller requests a switch if there was one.
wake_and_switch(t, w) ==
    /\ k' = wake_waiter(k, w)
    /\ pc' = IF k.waiters[w] # << >> THEN [pc EXCEPT ![t] = "switch"] ELSE pc

\* Queue the caller on w and block it.
block_on(t, w, x, timeout) ==
    /\ k' = prepare_block(insert_waiter_priority_sorted(k, w, t), t, timeout)
    /\ pc' = [pc EXCEPT ![t] = "block"]
    /\ arg' = [arg EXCEPT ![t] = x]

\* nimble_queue_send and _receive before the switch.  With NO_WAIT they return
\* FULL or EMPTY instead of blocking, and nothing changes.
queue_send(t, x, timeout) ==
    /\ Calls(t)
    /\ \/ /\ q.count < Capacity
          /\ copy_in(x)
          /\ wake_and_switch(t, receivers_waiting)
          /\ UNCHANGED <<arg, out>>
       \/ /\ q.count >= Capacity /\ timeout # NO_WAIT
          /\ block_on(t, senders_waiting, x, timeout)
          /\ UNCHANGED <<q, out>>

queue_receive(t, timeout) ==
    /\ Calls(t)
    /\ \/ /\ q.count > 0
          /\ copy_out(t)
          /\ wake_and_switch(t, senders_waiting)
          /\ UNCHANGED arg
       \/ /\ q.count = 0 /\ timeout # NO_WAIT
          /\ block_on(t, receivers_waiting, RECEIVE, timeout)
          /\ UNCHANGED <<q, out>>

\* Behind the switch: a call that timed out, or that finds the queue full or
\* empty again, returns an error; otherwise it copies its item.  It wakes nobody.
Resumed(t) ==
    /\ Executes(t) /\ pc[t] = "wake"
    /\ k' = UnlinkEvent(k, t)
    /\ pc' = [pc EXCEPT ![t] = "app"]
    /\ arg' = [arg EXCEPT ![t] = NULL]

\* Mutant: takes for granted that the slot it was woken for is still free.
Bug_queue_send_resumed_trusting(t) ==
    /\ Resumed(t) /\ arg[t] \in Item
    /\ IF k.last_wait_result[t] = "OK" THEN copy_in(arg[t]) ELSE UNCHANGED q
    /\ UNCHANGED out

queue_send_resumed(t) ==
    /\ Resumed(t) /\ arg[t] \in Item
    /\ IF k.last_wait_result[t] = "OK" /\ q.count < Capacity
       THEN copy_in(arg[t]) ELSE UNCHANGED q
    /\ UNCHANGED out

queue_receive_resumed(t) ==
    /\ Resumed(t) /\ arg[t] = RECEIVE
    /\ IF k.last_wait_result[t] = "OK" /\ q.count > 0
       THEN copy_out(t) ELSE UNCHANGED <<q, out>>

\* Mutant: wakes no receiver.
Bug_queue_send_from_isr_silent(x) ==
    /\ k.current # NULL /\ q.count < Capacity
    /\ copy_in(x)
    /\ UNCHANGED <<k, pc, arg, out>>

\* An ISR that sends and requests a switch if it was told to; a full queue drops
\* the item.
queue_send_from_isr(x) ==
    /\ k.current # NULL /\ q.count < Capacity
    /\ copy_in(x)
    /\ k' = IF k.waiters[receivers_waiting] # << >>
            THEN request_context_switch(wake_waiter(k, receivers_waiting)) ELSE k
    /\ UNCHANGED <<pc, arg, out>>

QueueStep ==
    \/ \E x \in Item : queue_send_from_isr(x)
    \/ \E t \in Senders, x \in Item, n \in SendTimeouts : queue_send(t, x, n)
    \/ \E t \in Receivers, n \in ReceiveTimeouts : queue_receive(t, n)
    \/ \E t \in Task : queue_send_resumed(t) \/ queue_receive_resumed(t)

QueueNext == QueueStep \/ (TaskNext /\ UNCHANGED queueState)

QueueSpec == QueueInit /\ [][QueueNext]_qvars

-----------------------------------------------------------------------------
(* Properties. *)

InCall(t) == pc[t] \in {"block", "wake"}
Woken(t) == InCall(t) /\ k.state[t] # "BLOCKED" /\ k.last_wait_result[t] = "OK"
WokenReceivers == {t \in Task : Woken(t) /\ arg[t] = RECEIVE}

\* QueueTypeOK: the types of the task layer and of the queue.
QueueTypeOK ==
    /\ TypeOK
    /\ q \in [buffer : [Slot -> Item \cup {NULL}], count : 0 .. Capacity,
              head : Slot, tail : Slot]
    /\ arg \in [Task -> Item \cup {NULL, RECEIVE}]
    /\ out \in [Task -> Item \cup {NULL}]

\* ImplementsQueue: whatever blocks, times out or interrupts, the ring buffer is
\* a first-in first-out queue that loses and duplicates nothing.
Content == [i \in 1 .. q.count |-> q.buffer[(q.head + i - 1) % Capacity]]
Abstract == INSTANCE AbstractQueue WITH items <- Content, None <- NULL
ImplementsQueue == Abstract!Spec

\* ReceiversBlockOnEmpty: tasks are "blocked in nimble_queue_receive() because
\* it's empty": while one is, every item in the queue has a woken receiver.
ReceiversBlockOnEmpty ==
    k.waiters[receivers_waiting] # << >> => q.count <= Cardinality(WokenReceivers)
=============================================================================
