---------------------------- MODULE QueueProofs ----------------------------
(***************************************************************************)
(* Proofs about Queue, for any capacity and any number of tasks: the ring  *)
(* buffer implements AbstractQueue, and the calls that block on it keep    *)
(* the kernel consistent.                                                  *)
(***************************************************************************)
EXTENDS Queue, TasksProofs

Ring == [buffer : [Slot -> Item \cup {NULL}], count : 0 .. Capacity,
         head : Slot, tail : Slot]

\* A ring buffer whose two positions agree with its count.
RingInv(r) == r \in Ring /\ r.tail = (r.head + r.count) % Capacity

\* The inductive invariant.
QueueInv ==
    /\ TaskInv
    /\ RingInv(q)
    /\ arg \in [Task -> Item \cup {NULL, RECEIVE}]
    /\ out \in [Task -> Item \cup {NULL}]

\* A step is one of the abstract queue's, or none at all.
StepMaps == [Abstract!Next]_(Abstract!avars)

-----------------------------------------------------------------------------
(* The ring buffer. *)

\* Positions wrap at most once.
Wrap(n) == IF n < Capacity THEN n ELSE n - Capacity

\* That is what the remainder computes.
LEMMA Wraps ==
    ASSUME NEW h \in Slot, NEW n \in 0 .. Capacity
    PROVE  (h + n) % Capacity = Wrap(h + n) /\ Wrap(h + n) \in Slot
BY QueueAssumption DEF Slot, Wrap

\* The content of a ring buffer, oldest item first.
ContentOf(r) == [i \in 1 .. r.count |-> r.buffer[(r.head + i - 1) % Capacity]]

\* The content is a sequence of the ring's length.
LEMMA ContentSeq ==
    ASSUME NEW r, RingInv(r)
    PROVE  /\ ContentOf(r) \in Seq(Item \cup {NULL})
           /\ Len(ContentOf(r)) = r.count /\ r.count \in Nat
           /\ \A i \in 1 .. r.count : /\ Wrap(r.head + (i - 1)) \in Slot
                                      /\ ContentOf(r)[i] = r.buffer[Wrap(r.head + (i - 1))]
<1>1. r.count \in 0 .. Capacity /\ r.head \in Slot
      /\ r.buffer \in [Slot -> Item \cup {NULL}]
  BY DEF RingInv, Ring
<1>2. r.count \in Nat
  BY <1>1, QueueAssumption
<1>3. \A i \in 1 .. r.count : i - 1 \in 0 .. Capacity /\ r.head + i - 1 = r.head + (i - 1)
  BY <1>1, QueueAssumption DEF Slot
<1>4. \A i \in 1 .. r.count : /\ (r.head + i - 1) % Capacity = Wrap(r.head + (i - 1))
                              /\ Wrap(r.head + (i - 1)) \in Slot
  BY <1>1, <1>3, Wraps
<1>5. ContentOf(r) = [i \in 1 .. r.count |-> r.buffer[Wrap(r.head + (i - 1))]]
  BY <1>4 DEF ContentOf
<1>6. ContentOf(r) \in [1 .. r.count -> Item \cup {NULL}]
  BY <1>1, <1>4, <1>5
<1>7. ContentOf(r) \in Seq(Item \cup {NULL}) /\ Len(ContentOf(r)) = r.count
  BY <1>2, <1>6
<1> QED
  BY <1>2, <1>4, <1>5, <1>7

\* copy_in appends its item.
LEMMA CopyInAppends ==
    ASSUME RingInv(q), NEW x \in Item, q.count < Capacity, copy_in(x)
    PROVE  RingInv(q') /\ Len(Content) < Capacity /\ Content' = Append(Content, x)
<1> DEFINE C == ContentOf(q)
           D == ContentOf(q')
<1>1. /\ q.count \in 0 .. Capacity /\ q.head \in Slot /\ q.tail \in Slot
      /\ q.buffer \in [Slot -> Item \cup {NULL}]
      /\ q \in Ring
  BY DEF RingInv, Ring
<1>2. /\ q'.buffer = [q.buffer EXCEPT ![q.tail] = x]
      /\ q'.tail = (q.tail + 1) % Capacity
      /\ q'.count = q.count + 1
      /\ q'.head = q.head
  BY <1>1 DEF copy_in, Ring
<1>3. Capacity \in Nat \ {0} /\ q.count + 1 \in 0 .. Capacity /\ 1 \in 0 .. Capacity
  BY <1>1, QueueAssumption
<1>4. q.tail = Wrap(q.head + q.count)
  BY <1>1, Wraps DEF RingInv
<1>5. q'.tail = Wrap(q.tail + 1) /\ q'.tail \in Slot
  BY <1>1, <1>2, <1>3, Wraps
<1>6. q' \in Ring
  <2>1. q'.buffer \in [Slot -> Item \cup {NULL}]
    BY <1>1, <1>2
  <2> QED
    BY <1>1, <1>2, <1>3, <1>5, <2>1 DEF copy_in, Ring
<1>7. q'.tail = (q'.head + q'.count) % Capacity
  <2>1. (q.head + (q.count + 1)) % Capacity = Wrap(q.head + (q.count + 1))
    BY <1>1, <1>3, Wraps
  <2>2. Wrap(q.tail + 1) = Wrap(q.head + (q.count + 1))
    BY <1>1, <1>3, <1>4 DEF Slot, Wrap
  <2> QED
    BY <1>2, <1>5, <2>1, <2>2
<1>8. RingInv(q')
  BY <1>6, <1>7 DEF RingInv
<1>9. /\ C \in Seq(Item \cup {NULL}) /\ Len(C) = q.count
      /\ \A i \in 1 .. q.count : /\ Wrap(q.head + (i - 1)) \in Slot
                                 /\ C[i] = q.buffer[Wrap(q.head + (i - 1))]
  BY ContentSeq
<1>10. /\ D \in Seq(Item \cup {NULL}) /\ Len(D) = q.count + 1
       /\ \A i \in 1 .. q.count + 1 : D[i] = q'.buffer[Wrap(q.head + (i - 1))]
  <2>1. /\ D \in Seq(Item \cup {NULL}) /\ Len(D) = q'.count
        /\ \A i \in 1 .. q'.count : D[i] = q'.buffer[Wrap(q'.head + (i - 1))]
    BY <1>8, ContentSeq
  <2> QED
    BY <1>2, <2>1
<1>11. Content = C /\ Content' = D
  BY DEF Content, ContentOf
<1> HIDE DEF C, D
<1>12. ASSUME NEW i \in 1 .. q.count PROVE D[i] = C[i]
  <2>1. Wrap(q.head + (i - 1)) # q.tail
    BY <1>1, <1>3, <1>4 DEF Slot, Wrap
  <2>2. i \in 1 .. q.count + 1
    BY <1>1
  <2> QED
    BY <1>1, <1>2, <1>9, <1>10, <2>1, <2>2
<1>13. D[q.count + 1] = x
  <2>1. q.count + 1 \in 1 .. q.count + 1 /\ (q.count + 1) - 1 = q.count
    BY <1>1
  <2> QED
    BY <1>1, <1>2, <1>4, <1>10, <2>1
<1>14. D = Append(C, x)
  <2>1. q.count \in Nat
    BY <1>1, <1>3
  <2>2. /\ Append(C, x) \in Seq(Item \cup {NULL}) /\ Len(Append(C, x)) = q.count + 1
        /\ Append(C, x)[q.count + 1] = x
        /\ \A i \in 1 .. q.count : Append(C, x)[i] = C[i]
    BY <1>9, <2>1
  <2>3. \A i \in 1 .. q.count + 1 : D[i] = Append(C, x)[i]
    BY <1>12, <1>13, <2>1, <2>2
  <2> QED
    BY <1>10, <2>1, <2>2, <2>3, SeqEqual
<1> QED
  BY <1>8, <1>9, <1>11, <1>14

\* copy_out takes the oldest item.
LEMMA CopyOutTakes ==
    ASSUME RingInv(q), NEW t \in Task, q.count > 0, copy_out(t),
           out \in [Task -> Item \cup {NULL}]
    PROVE  /\ RingInv(q') /\ out' \in [Task -> Item \cup {NULL}]
           /\ Content # << >> /\ Content' = Tail(Content)
           /\ out' = [out EXCEPT ![t] = Head(Content)]
<1> DEFINE C == ContentOf(q)
           D == ContentOf(q')
<1>1. /\ q.count \in 0 .. Capacity /\ q.head \in Slot /\ q.tail \in Slot
      /\ q.buffer \in [Slot -> Item \cup {NULL}]
      /\ q \in Ring
  BY DEF RingInv, Ring
<1>2. /\ q'.buffer = q.buffer /\ q'.tail = q.tail
      /\ q'.head = (q.head + 1) % Capacity
      /\ q'.count = q.count - 1
      /\ out' = [out EXCEPT ![t] = q.buffer[q.head]]
  BY <1>1 DEF copy_out, Ring
<1>3. Capacity \in Nat \ {0} /\ q.count - 1 \in 0 .. Capacity /\ 1 \in 0 .. Capacity
  BY <1>1, QueueAssumption
<1>4. q.tail = Wrap(q.head + q.count)
  BY <1>1, Wraps DEF RingInv
<1>5. q'.head = Wrap(q.head + 1) /\ q'.head \in Slot
  BY <1>1, <1>2, <1>3, Wraps
<1>6. q' \in Ring
  BY <1>1, <1>2, <1>3, <1>5 DEF copy_out, Ring
<1>7. q'.tail = (q'.head + q'.count) % Capacity
  <2>1. (q'.head + (q.count - 1)) % Capacity = Wrap(q'.head + (q.count - 1))
    BY <1>3, <1>5, Wraps
  <2>2. Wrap(q'.head + (q.count - 1)) = Wrap(q.head + q.count)
    <3>1. q.count \in 1 .. Capacity /\ q.head \in 0 .. Capacity - 1
      BY <1>1, <1>3 DEF Slot
    <3> QED
      BY <1>3, <1>5, <3>1 DEF Wrap
  <2> QED
    BY <1>2, <1>4, <2>1, <2>2
<1>8. RingInv(q')
  BY <1>6, <1>7 DEF RingInv
<1>9. /\ C \in Seq(Item \cup {NULL}) /\ Len(C) = q.count
      /\ \A i \in 1 .. q.count : C[i] = q.buffer[Wrap(q.head + (i - 1))]
  BY ContentSeq
<1>10. /\ D \in Seq(Item \cup {NULL}) /\ Len(D) = q.count - 1
       /\ \A i \in 1 .. q.count - 1 : D[i] = q.buffer[Wrap(q'.head + (i - 1))]
  <2>1. /\ D \in Seq(Item \cup {NULL}) /\ Len(D) = q'.count
        /\ \A i \in 1 .. q'.count : D[i] = q'.buffer[Wrap(q'.head + (i - 1))]
    BY <1>8, ContentSeq
  <2> QED
    BY <1>2, <2>1
<1>11. Content = C /\ Content' = D
  BY DEF Content, ContentOf
<1> HIDE DEF C, D
<1>12. q.count \in Nat /\ C # << >>
  BY <1>1, <1>3, <1>9
<1>13. C[1] = q.buffer[q.head] /\ Head(C) = C[1]
  <2>1. 1 \in 1 .. q.count /\ Wrap(q.head + (1 - 1)) = q.head
    BY <1>1, <1>3 DEF Slot, Wrap
  <2> QED
    BY <1>9, <1>12, <2>1
<1>14. ASSUME NEW i \in 1 .. q.count - 1 PROVE D[i] = C[i + 1]
  <2>1. i + 1 \in 1 .. q.count /\ (i + 1) - 1 = i
    BY <1>1
  <2>2. Wrap(q'.head + (i - 1)) = Wrap(q.head + i)
    BY <1>1, <1>3, <1>5, SMTT(30) DEF Slot, Wrap
  <2> QED
    BY <1>9, <1>10, <2>1, <2>2, SMTT(30)
<1>15. D = Tail(C)
  <2>1. /\ Tail(C) \in Seq(Item \cup {NULL}) /\ Len(Tail(C)) = q.count - 1
        /\ \A i \in 1 .. q.count - 1 : Tail(C)[i] = C[i + 1]
    BY <1>9, <1>12, HeadTailProperties
  <2> QED
    BY <1>10, <1>14, <2>1, SeqEqual
<1>16. out' \in [Task -> Item \cup {NULL}]
  BY <1>1, <1>2
<1> QED
  BY <1>2, <1>8, <1>11, <1>12, <1>13, <1>15, <1>16

-----------------------------------------------------------------------------
(* The calls. *)

\* Waking a waiter, if there is one, keeps the invariant of the task layer.
LEMMA WakeKeeps ==
    ASSUME TaskInv, NEW w \in WaitList,
           \/ \E t \in Task : Calls(t) /\ wake_and_switch(t, w)
           \/ /\ k' = IF k.waiters[w] # << >>
                      THEN request_context_switch(wake_waiter(k, w)) ELSE k
              /\ pc' = pc
    PROVE  TaskInv'
<1>1. CASE k.waiters[w] = << >>
  <2>1. k' = k /\ pc' = pc
    BY <1>1 DEF wake_and_switch, wake_waiter
  <2> QED
    BY <2>1 DEF TaskInv, Inv, TypeOK, ListsConsistent, RunsRunning, Executes
<1>2. CASE k.waiters[w] # << >>
  <2>1. WakeStep(w)
    BY <1>2 DEF wake_and_switch, WakeStep
  <2> QED
    BY <1>2, <2>1, CallWakes
<1> QED
  BY <1>1, <1>2

\* An item goes in.
LEMMA PutKeeps ==
    ASSUME QueueInv, TaskInv', NEW x \in Item, q.count < Capacity, copy_in(x),
           arg' \in [Task -> Item \cup {NULL, RECEIVE}], out' = out
    PROVE  QueueInv' /\ StepMaps
<1>1. RingInv(q') /\ Len(Content) < Capacity /\ Content' = Append(Content, x)
  BY CopyInAppends DEF QueueInv
<1>2. Abstract!Put(x)
  BY <1>1 DEF Abstract!Put
<1> QED
  BY <1>1, <1>2 DEF QueueInv, StepMaps, Abstract!Next

\* An item comes out.
LEMMA GetKeeps ==
    ASSUME QueueInv, TaskInv', NEW t \in Task, q.count > 0, copy_out(t),
           arg' \in [Task -> Item \cup {NULL, RECEIVE}]
    PROVE  QueueInv' /\ StepMaps
<1>1. /\ RingInv(q') /\ out' \in [Task -> Item \cup {NULL}]
      /\ Content # << >> /\ Content' = Tail(Content)
      /\ out' = [out EXCEPT ![t] = Head(Content)]
  BY CopyOutTakes DEF QueueInv
<1>2. Abstract!Get(t)
  BY <1>1 DEF Abstract!Get
<1> QED
  BY <1>1, <1>2 DEF QueueInv, StepMaps, Abstract!Next

\* A step that moves no item.
LEMMA NothingMoves ==
    ASSUME QueueInv, TaskInv', q' = q, out' = out,
           arg' \in [Task -> Item \cup {NULL, RECEIVE}]
    PROVE  QueueInv' /\ StepMaps
<1>1. Content' = Content
  BY DEF Content
<1> QED
  BY <1>1 DEF QueueInv, StepMaps, Abstract!avars

\* Every step keeps the invariant and is a step of the abstract queue.
LEMMA QueueNextKeeps == ASSUME QueueInv, [QueueNext]_qvars PROVE QueueInv' /\ StepMaps
<1>1. /\ TaskInv /\ receivers_waiting \in WaitList /\ senders_waiting \in WaitList
      /\ arg \in [Task -> Item \cup {NULL, RECEIVE}]
      /\ Senders \subseteq Task /\ Receivers \subseteq Task
      /\ SendTimeouts \subseteq TickCount /\ ReceiveTimeouts \subseteq TickCount
  BY QueueAssumption DEF QueueInv
<1>2. ASSUME NEW x \in Item, queue_send_from_isr(x) PROVE QueueInv' /\ StepMaps
  <2>1. TaskInv'
    BY <1>1, <1>2, WakeKeeps DEF queue_send_from_isr
  <2> QED
    BY <1>1, <1>2, <2>1, PutKeeps DEF queue_send_from_isr
<1>3. ASSUME NEW t \in Senders, NEW x \in Item, NEW n \in SendTimeouts, queue_send(t, x, n)
      PROVE  QueueInv' /\ StepMaps
  <2>1. CASE q.count < Capacity /\ copy_in(x) /\ wake_and_switch(t, receivers_waiting)
             /\ UNCHANGED <<arg, out>>
    <3>1. TaskInv'
      BY <1>1, <1>3, <2>1, WakeKeeps DEF queue_send
    <3> QED
      BY <1>1, <2>1, <3>1, PutKeeps
  <2>2. CASE block_on(t, senders_waiting, x, n) /\ UNCHANGED <<q, out>>
    <3>1. TaskInv'
      BY <1>1, <1>3, <2>2, CallBlocks DEF queue_send, block_on, block
    <3>2. arg' \in [Task -> Item \cup {NULL, RECEIVE}]
      BY <1>1, <2>2 DEF block_on
    <3> QED
      BY <2>2, <3>1, <3>2, NothingMoves
  <2> QED
    BY <1>3, <2>1, <2>2 DEF queue_send
<1>4. ASSUME NEW t \in Receivers, NEW n \in ReceiveTimeouts, queue_receive(t, n)
      PROVE  QueueInv' /\ StepMaps
  <2>1. CASE q.count > 0 /\ copy_out(t) /\ wake_and_switch(t, senders_waiting)
             /\ UNCHANGED arg
    <3>1. TaskInv'
      BY <1>1, <1>4, <2>1, WakeKeeps DEF queue_receive
    <3> QED
      BY <1>1, <2>1, <3>1, GetKeeps
  <2>2. CASE block_on(t, receivers_waiting, RECEIVE, n) /\ UNCHANGED <<q, out>>
    <3>1. TaskInv'
      BY <1>1, <1>4, <2>2, CallBlocks DEF queue_receive, block_on, block
    <3>2. arg' \in [Task -> Item \cup {NULL, RECEIVE}]
      BY <1>1, <2>2 DEF block_on
    <3> QED
      BY <2>2, <3>1, <3>2, NothingMoves
  <2> QED
    BY <1>4, <2>1, <2>2 DEF queue_receive
<1>5. ASSUME NEW t \in Task, Resumed(t)
      PROVE  TaskInv' /\ arg' \in [Task -> Item \cup {NULL, RECEIVE}]
  BY <1>1, <1>5, CallReturns DEF Resumed
<1>6. ASSUME NEW t \in Task, queue_send_resumed(t) PROVE QueueInv' /\ StepMaps
  <2>1. TaskInv' /\ arg' \in [Task -> Item \cup {NULL, RECEIVE}]
    BY <1>5, <1>6 DEF queue_send_resumed
  <2>2. CASE k.last_wait_result[t] = "OK" /\ q.count < Capacity
    BY <1>6, <2>1, <2>2, PutKeeps DEF queue_send_resumed
  <2>3. CASE ~ (k.last_wait_result[t] = "OK" /\ q.count < Capacity)
    BY <1>6, <2>1, <2>3, NothingMoves DEF queue_send_resumed
  <2> QED
    BY <2>2, <2>3
<1>7. ASSUME NEW t \in Task, queue_receive_resumed(t) PROVE QueueInv' /\ StepMaps
  <2>1. TaskInv' /\ arg' \in [Task -> Item \cup {NULL, RECEIVE}]
    BY <1>5, <1>7 DEF queue_receive_resumed
  <2>2. CASE k.last_wait_result[t] = "OK" /\ q.count > 0
    BY <1>7, <2>1, <2>2, GetKeeps DEF queue_receive_resumed
  <2>3. CASE ~ (k.last_wait_result[t] = "OK" /\ q.count > 0)
    BY <1>7, <2>1, <2>3, NothingMoves DEF queue_receive_resumed
  <2> QED
    BY <2>2, <2>3
<1>8. ASSUME [TaskNext]_tvars, UNCHANGED queueState PROVE QueueInv' /\ StepMaps
  <2>1. TaskInv'
    BY <1>1, <1>8, TaskNextKeepsTaskInv
  <2> QED
    BY <1>1, <1>8, <2>1, NothingMoves DEF queueState
<1>9. ASSUME UNCHANGED qvars PROVE QueueInv' /\ StepMaps
  <2>1. UNCHANGED tvars /\ UNCHANGED queueState
    BY <1>9 DEF qvars, tvars, queueState
  <2> QED
    BY <1>8, <2>1
<1> QED
  BY <1>2, <1>3, <1>4, <1>6, <1>7, <1>8, <1>9 DEF QueueNext, QueueStep

\* The queue starts empty.
LEMMA QueueInitInv == QueueInit => QueueInv /\ Abstract!Init
<1> SUFFICES ASSUME QueueInit PROVE QueueInv /\ Abstract!Init
  OBVIOUS
<1>1. TaskInv
  BY TaskInitInv DEF QueueInit
<1>2. Capacity \in Nat \ {0}
  BY QueueAssumption
<1>3. q = [buffer |-> [i \in Slot |-> NULL], count |-> 0, head |-> 0, tail |-> 0]
  BY DEF QueueInit
<1>4. q \in Ring /\ q.count = 0 /\ q.head = 0 /\ q.tail = 0 /\ 0 \in Slot
  BY <1>2, <1>3 DEF Ring, Slot
<1>5. (0 + 0) % Capacity = 0
  BY <1>2
<1>6. RingInv(q)
  BY <1>4, <1>5 DEF RingInv
<1>7. Content = << >>
  BY <1>4 DEF Content
<1> QED
  BY <1>1, <1>6, <1>7 DEF QueueInit, QueueInv, Abstract!Init

\* The inductive invariant holds in every behaviour.
LEMMA QueueAlways == QueueSpec => []QueueInv
<1>1. QueueInv /\ [QueueNext]_qvars => QueueInv'
  BY QueueNextKeeps
<1> QED
  BY <1>1, QueueInitInv, PTL DEF QueueSpec

\* QueueTypes: head and tail stay inside the buffer and the count between 0 and the
\* capacity, although a woken call acts on a queue that others used meanwhile.
THEOREM QueueTypes == QueueSpec => []QueueTypeOK
<1>1. QueueInv => QueueTypeOK
  BY DEF QueueInv, QueueTypeOK, TaskInv, Inv, RingInv, Ring
<1> QED
  BY <1>1, QueueAlways, PTL

\* QueueLists: blocking on either wait list, waking, timing out and sending from an
\* interrupt keep the kernel's lists, bitmap and task states consistent.
THEOREM QueueLists == QueueSpec => []ListsConsistent
<1>1. QueueInv => ListsConsistent
  BY DEF QueueInv, TaskInv, Inv
<1> QED
  BY <1>1, QueueAlways, PTL

\* QueueImplements: every behaviour of the code is one of the abstract queue: for
\* any capacity items come out once, whole and in the order they went in.
THEOREM QueueImplements == QueueSpec => ImplementsQueue
<1>1. QueueInit => Abstract!Init
  BY QueueInitInv
<1>2. QueueInv /\ [QueueNext]_qvars => [Abstract!Next]_(Abstract!avars)
  BY QueueNextKeeps DEF StepMaps
<1> QED
  BY <1>1, <1>2, QueueAlways, PTL DEF QueueSpec, ImplementsQueue, Abstract!Spec
=============================================================================
