-------------------------- MODULE SchedulerProofs --------------------------
(***************************************************************************)
(* Lemmas on the operators of Scheduler: what each does to the types and   *)
(* to the consistency of the lists, for every set of tasks, every number   *)
(* of priorities and every tick width.                                     *)
(***************************************************************************)
EXTENDS Scheduler, FiniteSetTheorems, SequenceTheorems, WellFoundedInduction, TLAPS

-----------------------------------------------------------------------------
(* Lists. *)

\* Keep(l, S) is a list, holds exactly the elements of l that are in S, in their
\* order, and holds none twice if l holds none twice.
LEMMA KeepProperties ==
    ASSUME NEW T, NEW l \in Seq(T), NEW S
    PROVE  /\ Keep(l, S) \in Seq(T)
           /\ Range(Keep(l, S)) = Range(l) \cap S
           /\ IsInjective(l) => IsInjective(Keep(l, S))
           /\ \A i, j \in DOMAIN Keep(l, S) : i < j =>
                 \E a, b \in DOMAIN l :
                    a < b /\ Keep(l, S)[i] = l[a] /\ Keep(l, S)[j] = l[b]
<1> DEFINE I == {i \in DOMAIN l : l[i] \in S}
           below(i) == {j \in I : j <= i}
           rank == [i \in I |-> Cardinality(below(i))]
           nth(n) == CHOOSE i \in I : Cardinality(below(i)) = n
           m == Cardinality(I)
<1>1. /\ Len(l) \in Nat
      /\ DOMAIN l = 1 .. Len(l)
      /\ \A i \in DOMAIN l : l[i] \in T
  BY LenProperties, ElementOfSeq
<1>2. IsFiniteSet(I) /\ m \in Nat
  <2>1. IsFiniteSet(1 .. Len(l))
    BY <1>1, FS_Interval
  <2>2. I \in SUBSET (1 .. Len(l))
    BY <1>1
  <2> QED
    BY <2>1, <2>2, FS_Subset, FS_CardinalityType
<1>3. \A i \in I : /\ IsFiniteSet(below(i))
                   /\ Cardinality(below(i)) \in 1 .. m
  <2> SUFFICES ASSUME NEW i \in I
               PROVE  IsFiniteSet(below(i)) /\ Cardinality(below(i)) \in 1 .. m
    OBVIOUS
  <2>1. IsFiniteSet(below(i)) /\ Cardinality(below(i)) <= m
    <3>1. below(i) \in SUBSET I
      OBVIOUS
    <3> QED
      BY <3>1, <1>2, FS_Subset
  <2>2. Cardinality(below(i)) \in Nat
    BY <2>1, FS_CardinalityType
  <2>3. i \in below(i)
    BY <1>1
  <2>4. Cardinality(below(i)) # 0
    BY <2>1, <2>3, FS_EmptySet
  <2> QED
    BY <2>1, <2>2, <2>4, <1>2
<1>31. I \subseteq Int
  BY <1>1
<1>32. \A i \in I, j \in I : j \in below(i) <=> j <= i
  OBVIOUS
<1>33. \A i \in I : below(i) \subseteq I /\ rank[i] = Cardinality(below(i))
  OBVIOUS
<1>4. \A i, j \in I : i < j => rank[i] < rank[j]
  <2> HIDE DEF I, m, below
  <2> SUFFICES ASSUME NEW i \in I, NEW j \in I, i < j
               PROVE  Cardinality(below(i)) < Cardinality(below(j))
    BY <1>33
  <2>1. below(i) \in SUBSET below(j)
    <3> SUFFICES ASSUME NEW x \in below(i) PROVE x \in below(j)
      OBVIOUS
    <3>1. x \in I /\ x <= i
      BY <1>32, <1>33
    <3> QED
      BY <3>1, <1>31, <1>32
  <2>2. j \in below(j) /\ j \notin below(i)
    BY <1>31, <1>32
  <2>3. IsFiniteSet(below(j)) /\ Cardinality(below(j)) \in Nat
        /\ Cardinality(below(i)) \in Nat
    BY <1>3, <1>2
  <2>4. Cardinality(below(i)) <= Cardinality(below(j))
        /\ Cardinality(below(i)) # Cardinality(below(j))
    BY <2>1, <2>2, <2>3, FS_Subset
  <2> QED
    BY <2>3, <2>4
<1>5. rank \in Injection(I, 1 .. m)
  <2>1. rank \in [I -> 1 .. m]
    BY <1>3
  <2>2. ASSUME NEW i \in I, NEW j \in I, rank[i] = rank[j]
        PROVE  i = j
    <3> HIDE DEF I, m, rank
    <3>1. rank[i] \in Int /\ rank[j] \in Int /\ i \in Int /\ j \in Int
      BY <1>31, <2>1, <1>2
    <3> QED
      BY <1>4, <2>2, <3>1
  <2>3. IsInjective(rank)
    <3>1. DOMAIN rank = I
      OBVIOUS
    <3> HIDE DEF I, rank
    <3> QED
      BY <2>2, <3>1 DEF IsInjective
  <2> QED
    BY <2>1, <2>3 DEF Injection
<1>6. rank \in Surjection(I, 1 .. m)
  <2>1. IsFiniteSet(1 .. m) /\ Cardinality(1 .. m) = m
    BY <1>2, FS_Interval
  <2> QED
    BY <1>5, <2>1, FS_Injection
<1>7. \A n \in 1 .. m : nth(n) \in I /\ rank[nth(n)] = n
  <2> SUFFICES ASSUME NEW n \in 1 .. m
               PROVE  nth(n) \in I /\ Cardinality(below(nth(n))) = n
    OBVIOUS
  <2>1. \E i \in I : rank[i] = n
    BY <1>6 DEF Surjection
  <2>2. \E i \in I : Cardinality(below(i)) = n
    BY <2>1
  <2> HIDE DEF I
  <2> QED
    BY <2>2
<1>8. \A i \in I : rank[i] \in 1 .. m /\ nth(rank[i]) = i
  <2> SUFFICES ASSUME NEW i \in I
               PROVE  rank[i] \in 1 .. m /\ nth(rank[i]) = i
    OBVIOUS
  <2>1. rank[i] \in 1 .. m
    BY <1>5 DEF Injection
  <2>2. nth(rank[i]) \in I /\ rank[nth(rank[i])] = rank[i]
    BY <1>7, <2>1
  <2> HIDE DEF nth, rank
  <2> QED
    BY <2>1, <2>2, <1>5 DEF Injection, IsInjective
<1> DEFINE r == Keep(l, S)
<1>9. r = [n \in 1 .. m |-> l[nth(n)]]
  BY DEF Keep
<1> HIDE DEF nth, rank, r, I, m, below
<1>10. r \in Seq(T)
  BY <1>1, <1>2, <1>7, <1>9 DEF I
<1>11. Range(r) = Range(l) \cap S
  <2>1. ASSUME NEW x \in Range(r) PROVE x \in Range(l) \cap S
    BY <2>1, <1>7, <1>9 DEF Range, I
  <2>2. ASSUME NEW x \in Range(l) \cap S PROVE x \in Range(r)
    <3>1. PICK i \in I : l[i] = x
      BY DEF Range, I
    <3> QED
      BY <3>1, <1>8, <1>9 DEF Range
  <2> QED
    BY <2>1, <2>2
<1>12. IsInjective(l) => IsInjective(r)
  BY <1>7, <1>9 DEF IsInjective, I
<1>13. ASSUME NEW i \in DOMAIN r, NEW j \in DOMAIN r, i < j
       PROVE  \E a, b \in DOMAIN l : a < b /\ r[i] = l[a] /\ r[j] = l[b]
  <2>1. i \in 1 .. m /\ j \in 1 .. m
    BY <1>9
  <2>2. /\ nth(i) \in I /\ rank[nth(i)] = i /\ r[i] = l[nth(i)]
        /\ nth(j) \in I /\ rank[nth(j)] = j /\ r[j] = l[nth(j)]
    BY <2>1, <1>7, <1>9
  <2>3. nth(i) < nth(j)
    <3> DEFINE a == nth(i)
               b == nth(j)
    <3>1. a \in I /\ b \in I /\ rank[a] = i /\ rank[b] = j
      BY <2>2
    <3> HIDE DEF a, b
    <3>2. i \in Int /\ j \in Int /\ a \in Int /\ b \in Int
      <4>1. m \in Nat
        BY <1>2
      <4>2. i \in Int /\ j \in Int
        BY <2>1, <4>1
      <4>3. a \in Int /\ b \in Int
        BY <3>1, <1>31
      <4> QED
        BY <4>2, <4>3
    <3>3. ~ (b < a) /\ a # b
      BY <3>1, <3>2, <1>4, <1>13
    <3>4. a < b
      BY <3>2, <3>3
    <3> QED
      BY <3>4 DEF a, b
  <2>4. nth(i) \in DOMAIN l /\ nth(j) \in DOMAIN l
    BY <2>2 DEF I
  <2> QED
    BY <2>2, <2>3, <2>4
<1> QED
  BY <1>10, <1>11, <1>12, <1>13 DEF r

\* Appending x adds x to a list, and keeps it free of duplicates if x is new.
LEMMA AppendRange ==
    ASSUME NEW T, NEW l \in Seq(T), NEW x \in T
    PROVE  /\ Append(l, x) \in Seq(T)
           /\ Append(l, x) # << >>
           /\ Range(Append(l, x)) = Range(l) \cup {x}
           /\ IsInjective(l) /\ x \notin Range(l) => IsInjective(Append(l, x))
<1> DEFINE r == Append(l, x)
<1>1. /\ Len(l) \in Nat /\ DOMAIN l = 1 .. Len(l)
      /\ r \in Seq(T) /\ r # << >> /\ DOMAIN r = 1 .. Len(l) + 1
      /\ \A i \in 1 .. Len(l) : r[i] = l[i]
      /\ r[Len(l) + 1] = x
  BY LenProperties, AppendProperties
<1> HIDE DEF r
<1>2. Range(r) = Range(l) \cup {x}
  <2>1. ASSUME NEW y \in Range(r) PROVE y \in Range(l) \cup {x}
    <3>1. PICK i \in 1 .. Len(l) + 1 : y = r[i]
      BY <1>1 DEF Range
    <3> QED
      BY <3>1, <1>1 DEF Range
  <2>2. ASSUME NEW y \in Range(l) PROVE y \in Range(r)
    <3>1. PICK i \in 1 .. Len(l) : y = l[i]
      BY <1>1 DEF Range
    <3> QED
      BY <3>1, <1>1 DEF Range
  <2>3. x \in Range(r)
    BY <1>1 DEF Range
  <2> QED
    BY <2>1, <2>2, <2>3
<1>3. IsInjective(l) /\ x \notin Range(l) => IsInjective(r)
  BY <1>1 DEF IsInjective, Range
<1> QED
  BY <1>1, <1>2, <1>3 DEF r

\* A list is empty iff it holds nothing, and otherwise holds its head.
LEMMA EmptyRange ==
    ASSUME NEW T, NEW l \in Seq(T)
    PROVE  /\ l = << >> <=> Range(l) = {}
           /\ l # << >> => Head(l) \in Range(l)
           /\ Range(l) \subseteq T
<1>1. /\ Len(l) \in Nat /\ DOMAIN l = 1 .. Len(l)
      /\ \A i \in 1 .. Len(l) : l[i] \in T
  BY LenProperties, ElementOfSeq
<1>2. l # << >> => Len(l) # 0 /\ Head(l) = l[1]
  OBVIOUS
<1>3. l = << >> => Len(l) = 0
  OBVIOUS
<1>4. l # << >> => Head(l) \in Range(l)
  BY <1>1, <1>2 DEF Range
<1>5. l = << >> => Range(l) = {}
  BY <1>1, <1>3 DEF Range
<1>6. Range(l) \subseteq T
  BY <1>1 DEF Range
<1> QED
  BY <1>4, <1>5, <1>6

\* A non-empty set of priorities has a maximum: highest_set_bit of a bitmap
\* with a bit set is a bit that is set.
LEMMA HighestSetBit ==
    ASSUME NEW B \in SUBSET Prio, B # {}
    PROVE  highest_set_bit(B) \in B /\ \A p \in B : p <= highest_set_bit(B)
<1> DEFINE below == {MaxPriorities - p : p \in B}
<1>1. MaxPriorities \in Nat /\ B \subseteq Nat /\ \A p \in B : p < MaxPriorities
  BY PriorityAssumption DEF Prio
<1>2. below \subseteq Nat /\ below # {}
  <2>1. \A p \in B : MaxPriorities - p \in Nat
    BY <1>1
  <2> QED
    BY <2>1
<1>21. \A p \in B : MaxPriorities - p \in below
  OBVIOUS
<1>3. PICK x \in below : \A y \in below : ~ (<<y, x>> \in OpToRel(<, Nat))
  BY <1>2, NatLessThanWellFounded, WFMin
<1>4. \A y \in below : x <= y
  <2> HIDE DEF below
  <2> SUFFICES ASSUME NEW y \in below, y < x PROVE FALSE
    BY <1>2
  <2>1. <<y, x>> \in Nat \X Nat /\ <<y, x>>[1] < <<y, x>>[2]
    BY <1>2
  <2>2. <<y, x>> \in OpToRel(<, Nat)
    BY <2>1 DEF OpToRel
  <2> QED
    BY <2>2, <1>3
<1>5. PICK p \in B : x = MaxPriorities - p
  BY <1>3
<1> HIDE DEF below
<1>6. \A q \in B : p >= q
  BY <1>1, <1>21, <1>4, <1>5
<1>7. Max(B) \in B /\ \A q \in B : Max(B) >= q
  BY <1>6 DEF Max
<1> QED
  BY <1>1, <1>7 DEF highest_set_bit

-----------------------------------------------------------------------------
(***************************************************************************)
(* Between two list operations of one C function a task t is in no ready   *)
(* list and not in the delayed list, and its state field may be out of     *)
(* date.  Loose(k, t) is KernelInv(k) with t excused.                      *)
(***************************************************************************)
Loose(k, t) ==
    /\ NoDuplicates(k)
    /\ ReadyOnly(k)
    /\ BitmapExact(k)
    /\ \A p \in Prio : t \notin Range(k.ready[p])
    /\ t \notin Range(k.delayed)
    /\ \A u \in Task \ {t} :
          /\ k.state[u] = "READY" => u \in Range(k.ready[k.priority[u]])
          /\ k.state[u] = "BLOCKED" => \/ u \in Range(k.delayed)
                                       \/ \E w \in WaitList : u \in Range(k.waiters[w])
          /\ k.state[u] = "RUNNING" => k.current = u
          /\ u = Idle => k.state[u] \in {"READY", "RUNNING"}
    /\ \A u \in Range(k.delayed) : k.state[u] = "BLOCKED"
    /\ \A w \in WaitList : \A u \in Range(k.waiters[w]) :
          /\ u # t => k.state[u] = "BLOCKED"
          /\ \A v \in WaitList : u \in Range(k.waiters[v]) => v = w
    /\ k.current # WILD

\* A task in no list of the scheduler is loose already.
LEMMA UnlinkedIsLoose ==
    ASSUME NEW k \in Kernel, KernelInv(k), NEW t \in Task,
           k.state[t] \in {"UNCREATED", "RUNNING", "SUSPENDED"}
    PROVE  Loose(k, t)
BY DEF KernelInv, NoDuplicates, ReadyOnly, ReadyListed, BitmapExact,
       ListedBlocked, BlockedListed, RunningIsCurrent, IdleAlive, Loose

\* Unlink keeps the types and changes the ready and delayed lists only.
LEMMA UnlinkFields ==
    ASSUME NEW k \in Kernel, NEW t \in Task, NEW u, u = Unlink(k, t)
    PROVE  /\ u \in Kernel
           /\ \A p \in Prio : Range(u.ready[p]) = Range(k.ready[p]) \ {t}
           /\ \A p \in Prio : IsInjective(k.ready[p]) => IsInjective(u.ready[p])
           /\ Range(u.delayed) = Range(k.delayed) \ {t}
           /\ IsInjective(k.delayed) => IsInjective(u.delayed)
           /\ u.bitmap = k.bitmap
           /\ u.waiters = k.waiters
           /\ u.priority = k.priority
           /\ u.state = k.state
           /\ u.last_wait_result = k.last_wait_result
           /\ u.current = k.current
           /\ u.tick = k.tick
           /\ u.pendsv = k.pendsv
<1> DEFINE S == Task \ {t}
<1>1. /\ k.ready \in [Prio -> Seq(Task)]
      /\ k.delayed \in Seq(Task)
      /\ k.wake_tick \in [Task -> TickCount]
  BY DEF Kernel
<1>2. u.ready = [p \in Prio |-> Keep(k.ready[p], S)] /\ u.delayed = Keep(k.delayed, S)
  BY DEF Unlink, Kernel
<1>3. u.wake_tick \in [Task -> TickCount]
  BY TickAssumption DEF Unlink, Kernel, TickCount
<1>4. /\ u.ready \in [Prio -> Seq(Task)]
      /\ \A p \in Prio : Range(u.ready[p]) = Range(k.ready[p]) \cap S
      /\ \A p \in Prio : IsInjective(k.ready[p]) => IsInjective(u.ready[p])
  <2>1. ASSUME NEW p \in Prio
        PROVE  /\ u.ready[p] \in Seq(Task)
               /\ Range(u.ready[p]) = Range(k.ready[p]) \cap S
               /\ IsInjective(k.ready[p]) => IsInjective(u.ready[p])
    <3>1. k.ready[p] \in Seq(Task) /\ u.ready[p] = Keep(k.ready[p], S)
      BY <1>1, <1>2
    <3> QED
      BY <3>1, KeepProperties
  <2>2. u.ready = [p \in Prio |-> u.ready[p]]
    BY <1>2
  <2> QED
    BY <2>1, <2>2
<1>5. /\ u.delayed \in Seq(Task)
      /\ Range(u.delayed) = Range(k.delayed) \cap S
      /\ IsInjective(k.delayed) => IsInjective(u.delayed)
  BY <1>1, <1>2, KeepProperties
<1>6. Range(k.delayed) \subseteq Task /\ \A p \in Prio : Range(k.ready[p]) \subseteq Task
  BY <1>1, EmptyRange
<1>7. u \in Kernel
  BY <1>3, <1>4, <1>5 DEF Unlink, Kernel
<1>8. /\ u.bitmap = k.bitmap
      /\ u.waiters = k.waiters
      /\ u.priority = k.priority
      /\ u.state = k.state
      /\ u.last_wait_result = k.last_wait_result
      /\ u.current = k.current
      /\ u.tick = k.tick
      /\ u.pendsv = k.pendsv
  BY DEF Unlink, Kernel
<1> QED
  BY <1>4, <1>5, <1>6, <1>7, <1>8

\* remove makes t loose, and changes the ready and delayed lists and the bitmap
\* only.
LEMMA RemoveLoosens ==
    ASSUME NEW k \in Kernel, KernelInv(k), NEW t \in Task, NEW u, u = remove(k, t)
    PROVE  /\ u \in Kernel
           /\ Loose(u, t)
           /\ u.waiters = k.waiters
           /\ u.priority = k.priority
           /\ u.state = k.state
           /\ u.last_wait_result = k.last_wait_result
           /\ u.current = k.current
           /\ u.tick = k.tick
           /\ u.pendsv = k.pendsv
<1> DEFINE v == Unlink(k, t)
           q == k.priority[t]
<1> HIDE DEF v
<1>1. /\ v \in Kernel
      /\ \A p \in Prio : Range(v.ready[p]) = Range(k.ready[p]) \ {t}
      /\ \A p \in Prio : IsInjective(k.ready[p]) => IsInjective(v.ready[p])
      /\ Range(v.delayed) = Range(k.delayed) \ {t}
      /\ IsInjective(k.delayed) => IsInjective(v.delayed)
  <2>1. v = Unlink(k, t)
    BY DEF v
  <2>2. v \in Kernel
    BY <2>1, UnlinkFields
  <2>3. \A p \in Prio : Range(v.ready[p]) = Range(k.ready[p]) \ {t}
    BY <2>1, UnlinkFields, SMTT(30)
  <2>4. \A p \in Prio : IsInjective(k.ready[p]) => IsInjective(v.ready[p])
    BY <2>1, UnlinkFields
  <2>5. Range(v.delayed) = Range(k.delayed) \ {t}
    BY <2>1, UnlinkFields
  <2>6. IsInjective(k.delayed) => IsInjective(v.delayed)
    BY <2>1, UnlinkFields
  <2> QED
    BY <2>2, <2>3, <2>4, <2>5, <2>6
<1>11. /\ v.bitmap = k.bitmap
       /\ v.waiters = k.waiters
       /\ v.priority = k.priority
       /\ v.state = k.state
       /\ v.last_wait_result = k.last_wait_result
       /\ v.current = k.current
       /\ v.tick = k.tick
       /\ v.pendsv = k.pendsv
  BY UnlinkFields DEF v
<1>2. q \in Prio
  BY DEF Kernel
<1>21. u = IF v.ready[q] = << >> THEN [v EXCEPT !.bitmap = @ \ {q}] ELSE v
  BY <1>11 DEF remove, v
<1> HIDE DEF q
<1>3. /\ u.ready = v.ready
      /\ u.delayed = v.delayed
      /\ u.waiters = v.waiters
      /\ u.priority = v.priority
      /\ u.state = v.state
      /\ u.last_wait_result = v.last_wait_result
      /\ u.current = v.current
      /\ u.tick = v.tick
      /\ u.pendsv = v.pendsv
      /\ u.bitmap = IF v.ready[q] = << >> THEN v.bitmap \ {q} ELSE v.bitmap
  BY <1>1, <1>21 DEF Kernel
<1>4. u \in Kernel
  <2>1. v.bitmap \ {q} \in SUBSET Prio
    BY <1>1 DEF Kernel
  <2>2. [v EXCEPT !.bitmap = @ \ {q}] \in Kernel
    BY <1>1, <2>1 DEF Kernel
  <2> QED
    BY <1>1, <1>21, <2>2
<1>5. \A p \in Prio : /\ k.ready[p] = << >> <=> Range(k.ready[p]) = {}
                      /\ v.ready[p] = << >> <=> Range(v.ready[p]) = {}
  <2>1. \A p \in Prio : k.ready[p] \in Seq(Task) /\ v.ready[p] \in Seq(Task)
    BY <1>1 DEF Kernel
  <2> QED
    BY <2>1, EmptyRange
<1>6. \A p \in Prio \ {q} : t \notin Range(k.ready[p])
  BY DEF KernelInv, ReadyOnly, q
<1>7. BitmapExact(u)
  <2>1. k.bitmap = {p \in Prio : k.ready[p] # << >>}
    BY DEF KernelInv, BitmapExact
  <2>2. \A p \in Prio \ {q} : v.ready[p] = << >> <=> k.ready[p] = << >>
    BY <1>1, <1>5, <1>6
  <2>3. v.ready[q] # << >> => k.ready[q] # << >>
    BY <1>1, <1>2, <1>5
  <2> QED
    BY <1>11, <1>2, <1>3, <2>1, <2>2, <2>3 DEF BitmapExact
<1>8. NoDuplicates(u) /\ ReadyOnly(u)
  BY <1>1, <1>11, <1>3 DEF KernelInv, NoDuplicates, ReadyOnly
<1>9. Loose(u, t)
  <2>1. \A p \in Prio : t \notin Range(u.ready[p])
    BY <1>1, <1>3
  <2>2. t \notin Range(u.delayed)
    BY <1>1, <1>3
  <2>3. \A x \in Task \ {t} :
          /\ u.state[x] = "READY" => x \in Range(u.ready[u.priority[x]])
          /\ u.state[x] = "BLOCKED" => \/ x \in Range(u.delayed)
                                       \/ \E w \in WaitList : x \in Range(u.waiters[w])
          /\ u.state[x] = "RUNNING" => u.current = x
          /\ x = Idle => u.state[x] \in {"READY", "RUNNING"}
    <3> SUFFICES ASSUME NEW x \in Task \ {t}
                 PROVE  /\ u.state[x] = "READY" => x \in Range(u.ready[u.priority[x]])
                        /\ u.state[x] = "BLOCKED" =>
                              \/ x \in Range(u.delayed)
                              \/ \E w \in WaitList : x \in Range(u.waiters[w])
                        /\ u.state[x] = "RUNNING" => u.current = x
                        /\ x = Idle => u.state[x] \in {"READY", "RUNNING"}
      OBVIOUS
    <3>1. u.state[x] = "READY" => x \in Range(u.ready[u.priority[x]])
      <4>1. k.priority[x] \in Prio
        BY DEF Kernel
      <4> QED
        BY <4>1, <1>1, <1>11, <1>3, ZenonT(40) DEF KernelInv, ReadyListed
    <3>2. u.state[x] = "BLOCKED" => \/ x \in Range(u.delayed)
                                    \/ \E w \in WaitList : x \in Range(u.waiters[w])
      BY <1>1, <1>11, <1>3 DEF KernelInv, BlockedListed
    <3>3. /\ u.state[x] = "RUNNING" => u.current = x
          /\ x = Idle => u.state[x] \in {"READY", "RUNNING"}
      BY <1>11, <1>3 DEF KernelInv, RunningIsCurrent, IdleAlive
    <3> QED
      BY <3>1, <3>2, <3>3
  <2>4. /\ \A x \in Range(u.delayed) : u.state[x] = "BLOCKED"
        /\ \A w \in WaitList : \A x \in Range(u.waiters[w]) :
              /\ x # t => u.state[x] = "BLOCKED"
              /\ \A y \in WaitList : x \in Range(u.waiters[y]) => y = w
        /\ u.current # WILD
    <3>1. \A x \in Range(u.delayed) : u.state[x] = "BLOCKED"
      BY <1>1, <1>11, <1>3 DEF KernelInv, ListedBlocked
    <3>2. u.waiters = k.waiters /\ u.state = k.state /\ u.current = k.current
      BY <1>11, <1>3
    <3> QED
      BY <3>1, <3>2 DEF KernelInv, ListedBlocked
  <2> QED
    BY <1>7, <1>8, <2>1, <2>2, <2>3, <2>4 DEF Loose
<1> QED
  BY <1>11, <1>3, <1>4, <1>9

\* Writing the state field of a loose task leaves it loose.
LEMMA LooseState ==
    ASSUME NEW k \in Kernel, NEW t \in Task, Loose(k, t), NEW s \in TaskState,
           NEW u, u = [k EXCEPT !.state[t] = s]
    PROVE  /\ u \in Kernel
           /\ Loose(u, t)
           /\ u.state[t] = s
           /\ u.waiters = k.waiters
           /\ u.current = k.current
           /\ u.priority = k.priority
           /\ u.tick = k.tick
<1>1. /\ u.ready = k.ready
      /\ u.bitmap = k.bitmap
      /\ u.delayed = k.delayed
      /\ u.waiters = k.waiters
      /\ u.priority = k.priority
      /\ u.current = k.current
      /\ u.tick = k.tick
      /\ u.state = [k.state EXCEPT ![t] = s]
  BY DEF Kernel
<1>2. /\ u.state[t] = s
      /\ \A x \in Task \ {t} : u.state[x] = k.state[x]
  BY <1>1 DEF Kernel
<1>3. u \in Kernel
  BY DEF Kernel
<1>4. NoDuplicates(u) /\ BitmapExact(u)
  BY <1>1 DEF Loose, NoDuplicates, BitmapExact
<1>5. /\ Range(k.delayed) \subseteq Task
      /\ \A p \in Prio : Range(k.ready[p]) \subseteq Task
      /\ \A w \in WaitList : Range(k.waiters[w]) \subseteq Task
  BY EmptyRange DEF Kernel
<1>6. ReadyOnly(u)
  BY <1>1, <1>2, <1>5 DEF Loose, ReadyOnly
<1>7. /\ \A p \in Prio : t \notin Range(u.ready[p])
      /\ t \notin Range(u.delayed)
  BY <1>1 DEF Loose
<1>8. \A x \in Task \ {t} :
        /\ u.state[x] = "READY" => x \in Range(u.ready[u.priority[x]])
        /\ u.state[x] = "BLOCKED" =>
              \/ x \in Range(u.delayed)
              \/ \E w \in WaitList : x \in Range(u.waiters[w])
        /\ u.state[x] = "RUNNING" => u.current = x
        /\ x = Idle => u.state[x] \in {"READY", "RUNNING"}
  BY <1>1, <1>2 DEF Loose
<1>9. \A x \in Range(u.delayed) : u.state[x] = "BLOCKED"
  BY <1>1, <1>2, <1>5, <1>7 DEF Loose
<1>10. \A w \in WaitList : \A x \in Range(u.waiters[w]) :
         /\ x # t => u.state[x] = "BLOCKED"
         /\ \A y \in WaitList : x \in Range(u.waiters[y]) => y = w
  BY <1>1, <1>2, <1>5 DEF Loose
<1>11. u.current # WILD
  BY <1>1 DEF Loose
<1> QED
  BY <1>1, <1>2, <1>3, <1>4, <1>6, <1>7, <1>8, <1>9, <1>10, <1>11 DEF Loose

\* A loose task whose state does not require it to be in a ready list, or in
\* the delayed list, is consistent as it is.
LEMMA LooseSettles ==
    ASSUME NEW k \in Kernel, NEW t \in Task, Loose(k, t),
           k.state[t] \in {"RUNNING", "BLOCKED", "SUSPENDED"},
           k.state[t] = "RUNNING" => k.current = t,
           k.state[t] = "BLOCKED" => \E w \in WaitList : t \in Range(k.waiters[w]),
           k.state[t] # "BLOCKED" => \A w \in WaitList : t \notin Range(k.waiters[w]),
           t = Idle => k.state[t] = "RUNNING"
    PROVE  KernelInv(k)
<1>1. NoDuplicates(k) /\ ReadyOnly(k) /\ BitmapExact(k) /\ k.current # WILD
  BY DEF Loose
<1>2. ReadyListed(k)
  BY DEF Loose, ReadyListed
<1>3. BlockedListed(k)
  BY DEF Loose, BlockedListed
<1>4. ListedBlocked(k)
  BY DEF Loose, ListedBlocked
<1>5. RunningIsCurrent(k) /\ IdleAlive(k)
  BY TaskAssumption DEF Loose, RunningIsCurrent, IdleAlive
<1> QED
  BY <1>1, <1>2, <1>3, <1>4, <1>5 DEF KernelInv

\* add_ready makes a loose task that waits for nothing consistent again.
LEMMA AddReadySettles ==
    ASSUME NEW k \in Kernel, NEW t \in Task, Loose(k, t),
           \A w \in WaitList : t \notin Range(k.waiters[w]),
           NEW u, u = add_ready(k, t)
    PROVE  /\ u \in Kernel
           /\ KernelInv(u)
           /\ u.waiters = k.waiters
           /\ u.current = k.current
           /\ u.priority = k.priority
           /\ u.tick = k.tick
           /\ u.state = [k.state EXCEPT ![t] = "READY"]
<1> DEFINE q == k.priority[t]
<1>1. /\ u.ready = [k.ready EXCEPT ![q] = Append(k.ready[q], t)]
      /\ u.bitmap = k.bitmap \cup {q}
      /\ u.delayed = k.delayed
      /\ u.waiters = k.waiters
      /\ u.priority = k.priority
      /\ u.current = k.current
      /\ u.tick = k.tick
      /\ u.state = [k.state EXCEPT ![t] = "READY"]
  BY DEF add_ready, Kernel
<1>2. /\ u.state[t] = "READY"
      /\ \A x \in Task \ {t} : u.state[x] = k.state[x]
  BY <1>1 DEF Kernel
<1>3. q \in Prio /\ k.ready \in [Prio -> Seq(Task)]
  BY DEF Kernel
<1>4. t \notin Range(k.ready[q]) /\ IsInjective(k.ready[q]) /\ k.ready[q] \in Seq(Task)
  BY <1>3 DEF Loose, NoDuplicates
<1>5. /\ u.ready[q] \in Seq(Task)
      /\ u.ready[q] # << >>
      /\ Range(u.ready[q]) = Range(k.ready[q]) \cup {t}
      /\ IsInjective(u.ready[q])
  <2>1. u.ready[q] = Append(k.ready[q], t)
    BY <1>1, <1>3
  <2> HIDE DEF q
  <2> QED
    BY <2>1, <1>4, AppendRange
<1>6. \A p \in Prio \ {q} : u.ready[p] = k.ready[p]
  BY <1>1, <1>3
<1>7. u \in Kernel
  <2>1. u.ready \in [Prio -> Seq(Task)]
    BY <1>1, <1>3, <1>5, <1>6
  <2>2. u.bitmap \in SUBSET Prio
    BY <1>1, <1>3 DEF Kernel
  <2>3. u.state \in [Task -> TaskState]
    BY <1>1 DEF Kernel, TaskState
  <2> QED
    BY <2>1, <2>2, <2>3 DEF add_ready, Kernel
<1> HIDE DEF q
<1>8. /\ Range(k.delayed) \subseteq Task
      /\ \A p \in Prio : Range(k.ready[p]) \subseteq Task
      /\ \A w \in WaitList : Range(k.waiters[w]) \subseteq Task
  BY EmptyRange DEF Kernel
<1>9. NoDuplicates(u)
  BY <1>1, <1>5, <1>6 DEF Loose, NoDuplicates
<1>10. ReadyOnly(u)
  <2> SUFFICES ASSUME NEW p \in Prio, NEW x \in Range(u.ready[p])
               PROVE  u.state[x] = "READY" /\ u.priority[x] = p
    BY DEF ReadyOnly
  <2>1. CASE x = t
    BY <2>1, <1>1, <1>2, <1>6 DEF Loose, q
  <2>2. CASE x # t
    BY <2>2, <1>1, <1>2, <1>5, <1>6, <1>8 DEF Loose, ReadyOnly
  <2> QED
    BY <2>1, <2>2
<1>11. ReadyListed(u)
  <2> SUFFICES ASSUME NEW x \in Task, u.state[x] = "READY"
               PROVE  x \in Range(u.ready[u.priority[x]])
    BY DEF ReadyListed
  <2>1. k.priority[x] \in Prio
    BY DEF Kernel
  <2>2. CASE x = t
    BY <2>2, <1>1, <1>5 DEF q
  <2>3. CASE x # t
    BY <2>1, <2>3, <1>1, <1>2, <1>5, <1>6 DEF Loose
  <2> QED
    BY <2>2, <2>3
<1>12. BitmapExact(u)
  BY <1>1, <1>3, <1>5, <1>6 DEF Loose, BitmapExact
<1>13. ListedBlocked(u)
  BY <1>1, <1>2, <1>8 DEF Loose, ListedBlocked
<1>14. BlockedListed(u)
  BY <1>1, <1>2 DEF Loose, BlockedListed
<1>15. RunningIsCurrent(u) /\ IdleAlive(u) /\ u.current # WILD
  BY <1>1, <1>2, TaskAssumption DEF Loose, RunningIsCurrent, IdleAlive
<1> QED
  BY <1>1, <1>7, <1>9, <1>10, <1>11, <1>12, <1>13, <1>14, <1>15 DEF KernelInv

\* delay_until makes a loose BLOCKED task consistent again.
LEMMA DelaySettles ==
    ASSUME NEW k \in Kernel, NEW t \in Task \ {Idle}, Loose(k, t),
           k.state[t] = "BLOCKED", NEW wake \in TickCount,
           NEW u, u = delay_until(k, t, wake)
    PROVE  /\ u \in Kernel
           /\ KernelInv(u)
           /\ u.waiters = k.waiters
           /\ u.current = k.current
           /\ u.priority = k.priority
           /\ u.tick = k.tick
           /\ u.state = k.state
<1>1. /\ u.ready = k.ready
      /\ u.bitmap = k.bitmap
      /\ u.waiters = k.waiters
      /\ u.priority = k.priority
      /\ u.current = k.current
      /\ u.state = k.state
      /\ u.tick = k.tick
      /\ u.delayed = Append(k.delayed, t)
      /\ u.wake_tick \in [Task -> TickCount]
  BY DEF delay_until, Kernel
<1>2. t \notin Range(k.delayed) /\ IsInjective(k.delayed) /\ k.delayed \in Seq(Task)
  BY DEF Loose, NoDuplicates, Kernel
<1>3. /\ u.delayed \in Seq(Task)
      /\ Range(u.delayed) = Range(k.delayed) \cup {t}
      /\ IsInjective(u.delayed)
  BY <1>1, <1>2, AppendRange
<1>4. u \in Kernel
  BY <1>1, <1>3 DEF delay_until, Kernel
<1>5. NoDuplicates(u) /\ ReadyOnly(u) /\ BitmapExact(u)
  BY <1>1, <1>3 DEF Loose, NoDuplicates, ReadyOnly, BitmapExact
<1>6. ReadyListed(u)
  BY <1>1 DEF Loose, ReadyListed
<1>7. ListedBlocked(u)
  <2>1. \A x \in Range(u.delayed) : u.state[x] = "BLOCKED"
    BY <1>1, <1>3 DEF Loose
  <2>2. \A w \in WaitList : \A x \in Range(u.waiters[w]) :
          /\ u.state[x] = "BLOCKED"
          /\ \A y \in WaitList : x \in Range(u.waiters[y]) => y = w
    BY <1>1 DEF Loose
  <2> QED
    BY <2>1, <2>2 DEF ListedBlocked
<1>8. BlockedListed(u)
  BY <1>1, <1>3 DEF Loose, BlockedListed
<1>9. RunningIsCurrent(u) /\ IdleAlive(u) /\ u.current # WILD
  BY <1>1, TaskAssumption DEF Loose, RunningIsCurrent, IdleAlive
<1> QED
  BY <1>1, <1>4, <1>5, <1>6, <1>7, <1>8, <1>9 DEF KernelInv

\* block_current_delay keeps the kernel consistent.
LEMMA BlockDelayKeeps ==
    ASSUME NEW k \in Kernel, KernelInv(k), NEW t \in Task \ {Idle},
           NEW wake \in TickCount, NEW u, u = block_current_delay(k, t, wake)
    PROVE  u \in Kernel /\ KernelInv(u) /\ u.current = k.current
<1> DEFINE r == remove(k, t)
           b == [r EXCEPT !.state[t] = "BLOCKED"]
<1>1. r \in Kernel /\ Loose(r, t) /\ r.current = k.current
  BY RemoveLoosens
<1>2. u = delay_until(b, t, wake)
  BY DEF block_current_delay
<1> HIDE DEF r
<1>3. b \in Kernel /\ Loose(b, t) /\ b.state[t] = "BLOCKED" /\ b.current = r.current
  BY <1>1, LooseState DEF TaskState
<1> HIDE DEF b
<1> QED
  BY <1>1, <1>2, <1>3, DelaySettles

\* select_next keeps the kernel consistent: it always finds a task, and one that no
\* ready task outranks.
LEMMA SelectNextKeeps ==
    ASSUME NEW k \in Kernel, KernelInv(k), NEW u, u = select_next(k)
    PROVE  /\ u \in Kernel /\ KernelInv(u) /\ u.current \in Task
           /\ \A x \in Task : u.state[x] = "READY" => u.priority[x] <= u.priority[u.current]
<1> DEFINE r == IF k.current \in Task /\ k.state[k.current] = "RUNNING"
                THEN add_ready(k, k.current) ELSE k
           q == highest_set_bit(r.bitmap)
           n == Head(r.ready[q])
           v == remove(r, n)
<1>1. r \in Kernel /\ KernelInv(r) /\ r.state[Idle] = "READY"
      /\ \A x \in Task : r.state[x] # "RUNNING"
  <2>1. CASE k.current \in Task /\ k.state[k.current] = "RUNNING"
    <3> DEFINE t == k.current
    <3>1. t \in Task /\ Loose(k, t)
      BY <2>1, UnlinkedIsLoose
    <3>2. \A w \in WaitList : t \notin Range(k.waiters[w])
      BY <2>1 DEF KernelInv, ListedBlocked
    <3>3. r = add_ready(k, t)
      BY <2>1
    <3> HIDE DEF t, r
    <3>4. r \in Kernel /\ KernelInv(r)
      BY <3>1, <3>2, <3>3, AddReadySettles
    <3>5. r.state = [k.state EXCEPT ![t] = "READY"]
      BY <3>1, <3>2, <3>3, AddReadySettles
    <3>6. \A x \in Task : r.state[x] # "RUNNING"
      BY <3>1, <3>5 DEF KernelInv, RunningIsCurrent, Kernel, t
    <3> QED
      BY <3>4, <3>6, TaskAssumption DEF KernelInv, IdleAlive
  <2>2. CASE ~ (k.current \in Task /\ k.state[k.current] = "RUNNING")
    <3>1. r = k
      BY <2>2
    <3>2. \A x \in Task : k.state[x] # "RUNNING"
      BY <2>2 DEF KernelInv, RunningIsCurrent
    <3> QED
      BY <3>1, <3>2, TaskAssumption DEF KernelInv, IdleAlive
  <2> QED
    BY <2>1, <2>2
<1>2. u = IF r.bitmap = {} THEN [r EXCEPT !.current = WILD]
          ELSE IF r.ready[q] = << >> THEN [r EXCEPT !.current = WILD]
               ELSE [v EXCEPT !.state[n] = "RUNNING", !.current = n]
  BY DEF select_next
<1> HIDE DEF r
<1>3. r.bitmap \in SUBSET Prio /\ r.ready \in [Prio -> Seq(Task)]
      /\ r.priority \in [Task -> Prio]
  BY <1>1 DEF Kernel
<1>4. r.bitmap # {}
  <2>1. Idle \in Range(r.ready[r.priority[Idle]]) /\ r.priority[Idle] \in Prio
    BY <1>1, <1>3, TaskAssumption DEF KernelInv, ReadyListed
  <2>2. r.ready[r.priority[Idle]] # << >>
    BY <2>1, <1>3, EmptyRange
  <2> QED
    BY <1>1, <2>1, <2>2 DEF KernelInv, BitmapExact
<1>5. q \in r.bitmap /\ \A p \in r.bitmap : p <= q
  BY <1>3, <1>4, HighestSetBit
<1>6. q \in Prio /\ r.ready[q] # << >>
  BY <1>1, <1>5 DEF KernelInv, BitmapExact
<1> HIDE DEF q
<1>7. n \in Task /\ n \in Range(r.ready[q])
  BY <1>3, <1>6, EmptyRange
<1>8. r.state[n] = "READY" /\ r.priority[n] = q
  BY <1>1, <1>6, <1>7 DEF KernelInv, ReadyOnly
<1> HIDE DEF n
<1>9. v \in Kernel /\ Loose(v, n)
  BY <1>1, <1>7, RemoveLoosens
<1>10. v.state = r.state /\ v.waiters = r.waiters /\ v.priority = r.priority
  BY <1>1, <1>7, RemoveLoosens
<1> HIDE DEF v
<1> DEFINE z == [v EXCEPT !.state[n] = "RUNNING"]
<1>11. z \in Kernel /\ Loose(z, n)
  BY <1>7, <1>9, LooseState DEF TaskState
<1>12. z.state[n] = "RUNNING" /\ z.waiters = v.waiters
  BY <1>7, <1>9 DEF Kernel
<1>13. z.state = [v.state EXCEPT ![n] = "RUNNING"] /\ z.priority = v.priority
  BY <1>9 DEF Kernel
<1>14. u = [z EXCEPT !.current = n]
  BY <1>2, <1>4, <1>6, <1>9 DEF Kernel
<1> HIDE DEF z
<1>15. u \in Kernel
  BY <1>7, <1>11, <1>14 DEF Kernel
<1>16. /\ u.ready = z.ready
       /\ u.bitmap = z.bitmap
       /\ u.delayed = z.delayed
       /\ u.waiters = z.waiters
       /\ u.priority = z.priority
       /\ u.state = z.state
       /\ u.current = n
  BY <1>11, <1>14 DEF Kernel
<1>17. \A x \in Task \ {n} : u.state[x] # "RUNNING"
  BY <1>1, <1>9, <1>10, <1>13, <1>16 DEF Kernel
<1>18. Loose(u, n)
  BY <1>7, <1>11, <1>16, <1>17, TaskAssumption
     DEF Loose, NoDuplicates, ReadyOnly, BitmapExact
<1>19. \A w \in WaitList : n \notin Range(u.waiters[w])
  BY <1>1, <1>8, <1>10, <1>12, <1>16 DEF KernelInv, ListedBlocked
<1>20. KernelInv(u)
  BY <1>7, <1>12, <1>15, <1>16, <1>18, <1>19, LooseSettles
<1>21. ASSUME NEW x \in Task, u.state[x] = "READY" PROVE u.priority[x] <= u.priority[n]
  <2>1. r.state[x] = "READY" /\ u.priority = r.priority
    BY <1>7, <1>9, <1>10, <1>13, <1>16, <1>21 DEF Kernel
  <2>2. x \in Range(r.ready[r.priority[x]]) /\ r.priority[x] \in Prio
    BY <1>1, <1>3, <2>1 DEF KernelInv, ReadyListed
  <2>3. r.ready[r.priority[x]] # << >>
    BY <2>2, <1>3, EmptyRange
  <2>4. r.priority[x] \in r.bitmap
    BY <1>1, <2>2, <2>3 DEF KernelInv, BitmapExact
  <2> QED
    BY <2>1, <2>4, <1>5, <1>8
<1> QED
  BY <1>7, <1>15, <1>16, <1>20, <1>21

\* Two lists without common or repeated elements, joined, have no repeated
\* elements.
LEMMA JoinRange ==
    ASSUME NEW T, NEW l \in Seq(T), NEW m \in Seq(T)
    PROVE  /\ l \o m \in Seq(T)
           /\ Range(l \o m) = Range(l) \cup Range(m)
           /\ IsInjective(l) /\ IsInjective(m) /\ Range(l) \cap Range(m) = {}
                 => IsInjective(l \o m)
<1> DEFINE r == l \o m
<1>1. r \in Seq(T) /\ Range(r) = Range(l) \cup Range(m)
  BY ConcatProperties, RangeConcatenation
<1>2. /\ Len(l) \in Nat /\ Len(m) \in Nat
      /\ DOMAIN l = 1 .. Len(l)
      /\ DOMAIN m = 1 .. Len(m)
      /\ DOMAIN r = 1 .. Len(l) + Len(m)
      /\ \A i \in 1 .. Len(l) + Len(m) :
            r[i] = IF i <= Len(l) THEN l[i] ELSE m[i - Len(l)]
  BY LenProperties, ConcatProperties
<1> HIDE DEF r
<1>3. ASSUME IsInjective(l), IsInjective(m), Range(l) \cap Range(m) = {},
             NEW i \in DOMAIN r, NEW j \in DOMAIN r, r[i] = r[j]
      PROVE  i = j
  <2>1. CASE i <= Len(l) /\ j <= Len(l)
    BY <1>2, <1>3, <2>1 DEF IsInjective
  <2>2. CASE i > Len(l) /\ j > Len(l)
    <3>1. i - Len(l) \in DOMAIN m /\ j - Len(l) \in DOMAIN m
      BY <1>2, <2>2
    <3>2. m[i - Len(l)] = m[j - Len(l)]
      BY <1>2, <1>3, <2>2
    <3>3. i - Len(l) = j - Len(l)
      BY <1>3, <3>1, <3>2 DEF IsInjective
    <3> QED
      BY <3>3, <1>2
  <2>3. CASE i <= Len(l) /\ j > Len(l)
    <3>1. l[i] \in Range(l) /\ m[j - Len(l)] \in Range(m) /\ l[i] = m[j - Len(l)]
      BY <1>2, <1>3, <2>3 DEF Range
    <3> QED
      BY <3>1, <1>3
  <2>4. CASE i > Len(l) /\ j <= Len(l)
    <3>1. l[j] \in Range(l) /\ m[i - Len(l)] \in Range(m) /\ l[j] = m[i - Len(l)]
      BY <1>2, <1>3, <2>4 DEF Range
    <3> QED
      BY <3>1, <1>3
  <2> QED
    BY <1>2, <2>1, <2>2, <2>3, <2>4
<1>4. IsInjective(l) /\ IsInjective(m) /\ Range(l) \cap Range(m) = {} => IsInjective(r)
  BY <1>3 DEF IsInjective
<1> QED
  BY <1>1, <1>4 DEF r

\* A tick keeps the kernel consistent, whichever tasks are due.
LEMMA TickKeeps ==
    ASSUME NEW k \in Kernel, KernelInv(k), NEW u, u = scheduler_tick(k)
    PROVE  u \in Kernel /\ KernelInv(u) /\ u.current = k.current
<1> DEFINE now == (k.tick + 1) % TickMod
           due == {t \in Range(k.delayed) : Due(now, k.wake_tick[t])}
           at(p) == {t \in due : k.priority[t] = p}
           woken(p) == Keep(k.delayed, at(p))
           left == Task \ due
<1>1. /\ k.ready \in [Prio -> Seq(Task)] /\ k.waiters \in [WaitList -> Seq(Task)]
      /\ k.delayed \in Seq(Task) /\ k.bitmap \in SUBSET Prio
      /\ k.priority \in [Task -> Prio] /\ k.state \in [Task -> TaskState]
      /\ k.wake_tick \in [Task -> TickCount]
      /\ k.last_wait_result \in [Task -> WaitResult]
      /\ k.tick \in TickCount
  BY DEF Kernel
<1>2. /\ Range(k.delayed) \subseteq Task
      /\ \A p \in Prio : Range(k.ready[p]) \subseteq Task
      /\ \A w \in WaitList : Range(k.waiters[w]) \subseteq Task
  BY <1>1, EmptyRange
<1>3. due \subseteq Range(k.delayed) /\ due \subseteq Task
      /\ \A x \in due : k.state[x] = "BLOCKED"
  BY <1>2 DEF KernelInv, ListedBlocked
<1>4. now \in TickCount
  BY <1>1, TickAssumption DEF TickCount
<1>5. \A p \in Prio : at(p) \subseteq due
  OBVIOUS
<1>51. \A p \in Prio, x \in due : x \in at(p) <=> k.priority[x] = p
  OBVIOUS
<1>6. /\ u.ready = [p \in Prio |-> k.ready[p] \o woken(p)]
      /\ u.waiters = [w \in WaitList |-> Keep(k.waiters[w], left)]
      /\ u.delayed = Keep(k.delayed, left)
  BY DEF scheduler_tick, Kernel
<1>7. /\ u.bitmap = k.bitmap \cup {k.priority[t] : t \in due}
      /\ u.state = [t \in Task |-> IF t \in due THEN "READY" ELSE k.state[t]]
      /\ u.wake_tick = [t \in Task |-> IF t \in due THEN 0 ELSE k.wake_tick[t]]
      /\ u.last_wait_result =
            [t \in Task |-> IF t \in due THEN "TIMEOUT" ELSE k.last_wait_result[t]]
      /\ u.tick = now
  BY DEF scheduler_tick, Kernel
<1>8. u.priority = k.priority /\ u.current = k.current /\ u.pendsv = TRUE
  BY DEF scheduler_tick, Kernel
<1>9. u = [ready |-> u.ready, bitmap |-> u.bitmap, delayed |-> u.delayed,
           waiters |-> u.waiters, priority |-> u.priority, state |-> u.state,
           wake_tick |-> u.wake_tick, last_wait_result |-> u.last_wait_result,
           current |-> u.current, tick |-> u.tick, pendsv |-> u.pendsv]
  BY DEF scheduler_tick, Kernel
<1> HIDE DEF now, due, at, woken, left
<1>10. ASSUME NEW p \in Prio
       PROVE  /\ u.ready[p] \in Seq(Task)
              /\ Range(u.ready[p]) = Range(k.ready[p]) \cup at(p)
              /\ IsInjective(u.ready[p])
  <2>1. k.ready[p] \in Seq(Task) /\ u.ready[p] = k.ready[p] \o woken(p)
    BY <1>1, <1>6
  <2>2. woken(p) \in Seq(Task) /\ Range(woken(p)) = Range(k.delayed) \cap at(p)
        /\ (IsInjective(k.delayed) => IsInjective(woken(p)))
    BY <1>1, KeepProperties DEF woken
  <2>3. Range(woken(p)) = at(p) /\ IsInjective(woken(p))
    BY <2>2, <1>3, <1>5 DEF KernelInv, NoDuplicates
  <2>4. Range(k.ready[p]) \cap Range(woken(p)) = {} /\ IsInjective(k.ready[p])
    BY <2>3, <1>3, <1>5 DEF KernelInv, NoDuplicates, ReadyOnly
  <2>5. u.ready[p] \in Seq(Task) /\ Range(u.ready[p]) = Range(k.ready[p]) \cup Range(woken(p))
    BY <2>1, <2>2, JoinRange
  <2>6. IsInjective(u.ready[p])
    BY <2>1, <2>2, <2>3, <2>4, JoinRange
  <2> QED
    BY <2>3, <2>5, <2>6
<1>11. ASSUME NEW w \in WaitList
       PROVE  /\ u.waiters[w] \in Seq(Task)
              /\ Range(u.waiters[w]) = Range(k.waiters[w]) \cap left
              /\ IsInjective(u.waiters[w])
  <2>1. k.waiters[w] \in Seq(Task) /\ u.waiters[w] = Keep(k.waiters[w], left)
        /\ IsInjective(k.waiters[w])
    BY <1>1, <1>6 DEF KernelInv, NoDuplicates
  <2> QED
    BY <2>1, KeepProperties
<1>12. /\ u.delayed \in Seq(Task)
       /\ Range(u.delayed) = Range(k.delayed) \cap left
       /\ IsInjective(u.delayed)
  BY <1>1, <1>6, KeepProperties DEF KernelInv, NoDuplicates
<1>13. u \in Kernel
  <2>1. u.ready \in [Prio -> Seq(Task)] /\ u.waiters \in [WaitList -> Seq(Task)]
    <3>1. u.ready = [p \in Prio |-> u.ready[p]]
          /\ u.waiters = [w \in WaitList |-> u.waiters[w]]
      BY <1>6
    <3> QED
      BY <3>1, <1>10, <1>11
  <2>2. u.bitmap \in SUBSET Prio
    BY <1>1, <1>3, <1>7
  <2>3. u.state \in [Task -> TaskState]
    BY <1>1, <1>7 DEF TaskState
  <2>4. u.wake_tick \in [Task -> TickCount]
    BY <1>1, <1>7, TickAssumption DEF TickCount
  <2>5. u.last_wait_result \in [Task -> WaitResult]
    BY <1>1, <1>7 DEF WaitResult
  <2>6. u.priority \in [Task -> Prio] /\ u.current \in Task \cup {NULL, WILD}
        /\ u.tick \in TickCount /\ u.pendsv \in BOOLEAN
    BY <1>4, <1>7, <1>8 DEF Kernel
  <2> QED
    BY <1>9, <1>12, <2>1, <2>2, <2>3, <2>4, <2>5, <2>6 DEF Kernel
<1>14. /\ \A x \in due : u.state[x] = "READY"
       /\ \A x \in left : u.state[x] = k.state[x]
       /\ \A x \in Task : x \in left <=> x \notin due
  BY <1>3, <1>7 DEF left
<1>15. NoDuplicates(u)
  BY <1>10, <1>11, <1>12 DEF NoDuplicates
<1>16. ReadyOnly(u)
  <2> SUFFICES ASSUME NEW p \in Prio, NEW x \in Range(u.ready[p])
               PROVE  u.state[x] = "READY" /\ u.priority[x] = p
    BY DEF ReadyOnly
  <2>1. CASE x \in at(p)
    BY <2>1, <1>5, <1>51, <1>8, <1>14
  <2>2. CASE x \in Range(k.ready[p])
    <3>1. k.state[x] = "READY" /\ k.priority[x] = p /\ x \in Task
      BY <2>2, <1>2 DEF KernelInv, ReadyOnly
    <3>2. x \in left
      BY <3>1, <1>3, <1>14
    <3> QED
      BY <3>1, <3>2, <1>8, <1>14
  <2> QED
    BY <1>10, <2>1, <2>2
<1>17. ReadyListed(u)
  <2> SUFFICES ASSUME NEW x \in Task, u.state[x] = "READY"
               PROVE  x \in Range(u.ready[u.priority[x]])
    BY DEF ReadyListed
  <2>1. k.priority[x] \in Prio
    BY <1>1
  <2>2. CASE x \in due
    BY <2>1, <2>2, <1>51, <1>8, <1>10
  <2>3. CASE x \in left
    BY <2>1, <2>3, <1>8, <1>10, <1>14 DEF KernelInv, ReadyListed
  <2> QED
    BY <1>14, <2>2, <2>3
<1>18. BitmapExact(u)
  <2>1. \A p \in Prio : u.ready[p] # << >> <=> Range(k.ready[p]) # {} \/ at(p) # {}
    <3>1. \A p \in Prio : u.ready[p] = << >> <=> Range(u.ready[p]) = {}
      BY <1>10, EmptyRange
    <3> QED
      BY <3>1, <1>10
  <2>2. \A p \in Prio : p \in k.bitmap <=> Range(k.ready[p]) # {}
    BY <1>1, EmptyRange DEF KernelInv, BitmapExact
  <2>3. \A p \in Prio : at(p) # {} <=> p \in {k.priority[t] : t \in due}
    BY <1>5, <1>51
  <2>4. \A p \in Prio : p \in u.bitmap <=> u.ready[p] # << >>
    BY <2>1, <2>2, <2>3, <1>7
  <2> QED
    BY <2>4, <1>13 DEF BitmapExact, Kernel
<1>19. ListedBlocked(u)
  <2>1. \A x \in Range(u.delayed) : u.state[x] = "BLOCKED"
    BY <1>12, <1>14 DEF KernelInv, ListedBlocked
  <2>2. \A w \in WaitList : \A x \in Range(u.waiters[w]) :
          /\ u.state[x] = "BLOCKED"
          /\ \A y \in WaitList : x \in Range(u.waiters[y]) => y = w
    BY <1>11, <1>14 DEF KernelInv, ListedBlocked
  <2> QED
    BY <2>1, <2>2 DEF ListedBlocked
<1>20. BlockedListed(u)
  BY <1>11, <1>12, <1>14 DEF KernelInv, BlockedListed
<1>21. RunningIsCurrent(u)
  BY <1>8, <1>14 DEF KernelInv, RunningIsCurrent
<1>22. IdleAlive(u) /\ u.current # WILD
  BY <1>3, <1>8, <1>14, TaskAssumption DEF KernelInv, IdleAlive
<1> QED
  BY <1>8, <1>13, <1>15, <1>16, <1>17, <1>18, <1>19, <1>20, <1>21, <1>22 DEF KernelInv

\* The kernel nimble_scheduler_init leaves is consistent.
LEMMA InitConsistent == scheduler_init \in Kernel /\ KernelInv(scheduler_init)
<1> DEFINE z == [ready |-> [p \in Prio |-> << >>], bitmap |-> {},
                 delayed |-> << >>, waiters |-> [w \in WaitList |-> << >>],
                 priority |-> BasePriority,
                 state |-> [t \in Task |-> "UNCREATED"],
                 wake_tick |-> [t \in Task |-> 0],
                 last_wait_result |-> [t \in Task |-> "OK"],
                 current |-> NULL, tick |-> 0, pendsv |-> FALSE]
<1>1. z \in Kernel
  BY PriorityAssumption, TickAssumption DEF Kernel, TaskState, WaitResult, TickCount
<1>2. Range(<< >>) = {} /\ IsInjective(<< >>)
  BY DEF Range, IsInjective
<1>3. /\ \A p \in Prio : z.ready[p] = << >>
      /\ \A w \in WaitList : z.waiters[w] = << >>
      /\ z.delayed = << >> /\ z.bitmap = {} /\ z.current = NULL
      /\ \A t \in Task : z.state[t] = "UNCREATED"
  OBVIOUS
<1>4. scheduler_init = add_ready(z, Idle)
  BY DEF scheduler_init
<1> HIDE DEF z
<1>5. Loose(z, Idle)
  BY <1>2, <1>3, TaskAssumption DEF Loose, NoDuplicates, ReadyOnly, BitmapExact
<1>6. \A w \in WaitList : Idle \notin Range(z.waiters[w])
  BY <1>2, <1>3
<1> QED
  BY <1>1, <1>4, <1>5, <1>6, AddReadySettles, TaskAssumption

-----------------------------------------------------------------------------
(***************************************************************************)
(* The operators that blocking calls are made of: which fields each of     *)
(* them writes, and that queueing, waking and timing out a waiter keeps    *)
(* the kernel consistent and the wait lists in order.                      *)
(***************************************************************************)
(* Insertion into lists. *)

\* r is l with x at position pos.
Inserted(l, pos, x, r) ==
    /\ DOMAIN r = 1 .. Len(l) + 1
    /\ \A i \in 1 .. Len(l) + 1 :
          r[i] = IF i < pos THEN l[i] ELSE IF i = pos THEN x ELSE l[i - 1]

\* InsertAt(l, pos, x) is l with x at position pos, and holds none twice if l
\* holds none twice and not x.
LEMMA InsertAtProperties ==
    ASSUME NEW T, NEW l \in Seq(T), NEW x \in T, NEW pos \in 1 .. Len(l) + 1,
           NEW r, r = InsertAt(l, pos, x)
    PROVE  /\ r \in Seq(T) /\ r # << >>
           /\ Inserted(l, pos, x, r)
           /\ Range(r) = Range(l) \cup {x}
           /\ IsInjective(l) /\ x \notin Range(l) => IsInjective(r)
<1> DEFINE front == SubSeq(l, 1, pos - 1)
           back == SubSeq(l, pos, Len(l))
           n == Len(l)
<1>1. n \in Nat /\ DOMAIN l = 1 .. n /\ pos \in 1 .. n + 1
  BY LenProperties
<1>2. r = (front \o <<x>>) \o back
  BY DEF InsertAt
<1>3. /\ front \in Seq(T) /\ Len(front) = pos - 1
      /\ \A i \in 1 .. pos - 1 : front[i] = l[i]
  BY <1>1
<1>4. /\ back \in Seq(T) /\ Len(back) = n + 1 - pos
      /\ \A i \in 1 .. n + 1 - pos : back[i] = l[pos + i - 1]
  BY <1>1
<1> HIDE DEF front, back, n
<1>5. /\ front \o <<x>> \in Seq(T) /\ Len(front \o <<x>>) = pos
      /\ \A i \in 1 .. pos : (front \o <<x>>)[i] = IF i < pos THEN l[i] ELSE x
  BY <1>1, <1>3
<1> DEFINE h == front \o <<x>>
<1> HIDE DEF h
<1>6. /\ r \in Seq(T) /\ Len(r) = n + 1 /\ DOMAIN r = 1 .. n + 1
      /\ \A i \in 1 .. n + 1 : r[i] = IF i <= pos THEN h[i] ELSE back[i - pos]
  BY <1>1, <1>2, <1>4, <1>5 DEF h
<1>7. \A i \in 1 .. n + 1 :
         r[i] = IF i < pos THEN l[i] ELSE IF i = pos THEN x ELSE l[i - 1]
  <2> SUFFICES ASSUME NEW i \in 1 .. n + 1
               PROVE  r[i] = IF i < pos THEN l[i] ELSE IF i = pos THEN x ELSE l[i - 1]
    OBVIOUS
  <2>1. CASE i <= pos
    BY <2>1, <1>1, <1>5, <1>6 DEF h
  <2>2. CASE i > pos
    <3>1. i - pos \in 1 .. n + 1 - pos /\ pos + (i - pos) - 1 = i - 1
      BY <2>2, <1>1
    <3>2. back[i - pos] = l[i - 1]
      BY <3>1, <1>4
    <3> QED
      BY <3>2, <2>2, <1>1, <1>6
  <2> QED
    BY <2>1, <2>2, <1>1
<1>8. Range(r) = Range(l) \cup {x}
  <2>1. ASSUME NEW y \in Range(r) PROVE y \in Range(l) \cup {x}
    <3>1. PICK i \in 1 .. n + 1 : y = r[i]
      BY <1>6 DEF Range
    <3>2. r[i] = IF i < pos THEN l[i] ELSE IF i = pos THEN x ELSE l[i - 1]
      BY <1>7
    <3>3. CASE i < pos
      <4>1. i \in DOMAIN l
        BY <3>3, <1>1
      <4> QED
        BY <4>1, <3>1, <3>2, <3>3 DEF Range
    <3>4. CASE i = pos
      BY <3>1, <3>2, <3>4, <1>1
    <3>5. CASE i > pos
      <4>1. i - 1 \in DOMAIN l /\ r[i] = l[i - 1]
        BY <3>2, <3>5, <1>1
      <4> QED
        BY <4>1, <3>1 DEF Range
    <3> QED
      BY <3>3, <3>4, <3>5, <1>1
  <2>2. ASSUME NEW y \in Range(l) PROVE y \in Range(r)
    <3>1. PICK i \in 1 .. n : y = l[i]
      BY <1>1 DEF Range
    <3>2. CASE i < pos
      <4>1. i \in 1 .. n + 1 /\ r[i] = l[i]
        BY <3>1, <3>2, <1>1, <1>7
      <4> QED
        BY <4>1, <3>1, <1>6 DEF Range
    <3>3. CASE i >= pos
      <4>1. i + 1 \in 1 .. n + 1 /\ r[i + 1] = l[i]
        BY <3>1, <3>3, <1>1, <1>7
      <4> QED
        BY <4>1, <3>1, <1>6 DEF Range
    <3> QED
      BY <3>2, <3>3, <1>1
  <2>3. x \in Range(r)
    BY <1>1, <1>6, <1>7 DEF Range
  <2> QED
    BY <2>1, <2>2, <2>3
<1>9. IsInjective(l) /\ x \notin Range(l) => IsInjective(r)
  <2> SUFFICES ASSUME IsInjective(l), x \notin Range(l),
                      NEW i \in 1 .. n + 1, NEW j \in 1 .. n + 1, r[i] = r[j]
               PROVE  i = j
    BY <1>6 DEF IsInjective
  <2> DEFINE old(m) == IF m < pos THEN m ELSE m - 1
  <2>1. \A m \in 1 .. n + 1 : m # pos => old(m) \in DOMAIN l /\ r[m] = l[old(m)]
    BY <1>1, <1>7
  <2>2. \A m \in 1 .. n + 1 : m # pos => r[m] # x
    BY <2>1 DEF Range
  <2>3. r[pos] = x
    BY <1>1, <1>7
  <2>4. CASE i # pos /\ j # pos
    <3>1. old(i) = old(j)
      BY <2>1, <2>4 DEF IsInjective
    <3> QED
      BY <3>1, <2>4, <1>1
  <2> QED
    BY <2>2, <2>3, <2>4
<1>10. r # << >>
  BY <1>1, <1>6
<1> QED
  BY <1>6, <1>7, <1>8, <1>9, <1>10 DEF n, Inserted

\* A non-empty set of positions of a list has a least one.
LEMMA MinPosition ==
    ASSUME NEW n \in Nat, NEW I \in SUBSET (1 .. n), I # {}
    PROVE  Min(I) \in I /\ \A i \in I : Min(I) <= i
<1>1. I \subseteq Nat
  OBVIOUS
<1>2. PICK x \in I : \A y \in I : ~ (<<y, x>> \in OpToRel(<, Nat))
  BY <1>1, NatLessThanWellFounded, WFMin
<1>3. \A y \in I : x <= y
  <2> SUFFICES ASSUME NEW y \in I, y < x PROVE FALSE
    BY <1>1
  <2>1. <<y, x>> \in Nat \X Nat /\ <<y, x>>[1] < <<y, x>>[2]
    BY <1>1
  <2>2. <<y, x>> \in OpToRel(<, Nat)
    BY <2>1 DEF OpToRel
  <2> QED
    BY <2>2, <1>2
<1> QED
  BY <1>3 DEF Min

-----------------------------------------------------------------------------
(* What each operator writes, in any kernel state. *)

\* The fields no list operation touches.
SameTask(k, u) ==
    /\ u.priority = k.priority
    /\ u.current = k.current
    /\ u.tick = k.tick
    /\ u.pendsv = k.pendsv

\* Every list of a kernel record is a sequence of tasks.
LEMMA ListTypes ==
    ASSUME NEW k \in Kernel
    PROVE  /\ k.delayed \in Seq(Task) /\ Range(k.delayed) \subseteq Task
           /\ k.ready \in [Prio -> Seq(Task)]
           /\ \A p \in Prio : k.ready[p] \in Seq(Task) /\ Range(k.ready[p]) \subseteq Task
           /\ k.waiters \in [WaitList -> Seq(Task)]
           /\ \A w \in WaitList :
                 k.waiters[w] \in Seq(Task) /\ Range(k.waiters[w]) \subseteq Task
<1>1. /\ k.delayed \in Seq(Task) /\ k.ready \in [Prio -> Seq(Task)]
      /\ k.waiters \in [WaitList -> Seq(Task)]
  BY DEF Kernel
<1> QED
  BY <1>1, EmptyRange

\* Unlink takes t out of the ready and delayed lists and leaves the bitmap alone.
UnlinkEffect(k, t, u) ==
    /\ u \in Kernel
    /\ \A p \in Prio : Range(u.ready[p]) = Range(k.ready[p]) \ {t}
    /\ \A p \in Prio : IsInjective(k.ready[p]) => IsInjective(u.ready[p])
    /\ Range(u.delayed) = Range(k.delayed) \ {t}
    /\ IsInjective(k.delayed) => IsInjective(u.delayed)
    /\ u.bitmap = k.bitmap /\ u.waiters = k.waiters /\ u.state = k.state
    /\ u.wake_tick = [k.wake_tick EXCEPT ![t] = 0]
    /\ u.last_wait_result = k.last_wait_result
    /\ SameTask(k, u)

\* Unlink has that effect in every kernel state.
LEMMA UnlinkHasEffect ==
    ASSUME NEW k \in Kernel, NEW t \in Task, NEW u, u = Unlink(k, t)
    PROVE  UnlinkEffect(k, t, u)
<1>1. u \in Kernel
  BY UnlinkFields
<1>2. \A p \in Prio : Range(u.ready[p]) = Range(k.ready[p]) \ {t}
  BY UnlinkFields, SMTT(30)
<1>3. \A p \in Prio : IsInjective(k.ready[p]) => IsInjective(u.ready[p])
  BY UnlinkFields
<1>4. Range(u.delayed) = Range(k.delayed) \ {t}
  BY UnlinkFields
<1>5. IsInjective(k.delayed) => IsInjective(u.delayed)
  BY UnlinkFields
<1>6. u.bitmap = k.bitmap /\ u.waiters = k.waiters /\ u.state = k.state
      /\ u.last_wait_result = k.last_wait_result /\ SameTask(k, u)
  BY UnlinkFields DEF SameTask
<1>7. u.wake_tick = [k.wake_tick EXCEPT ![t] = 0]
  BY DEF Unlink, Kernel
<1> QED
  BY <1>1, <1>2, <1>3, <1>4, <1>5, <1>6, <1>7 DEF UnlinkEffect

\* UnlinkEvent writes the wait lists only, and takes t out of them.
UnlinkEventEffect(k, t, u) ==
    /\ u \in Kernel
    /\ \A w \in WaitList : u.waiters[w] = Keep(k.waiters[w], Task \ {t})
    /\ \A w \in WaitList : Range(u.waiters[w]) = Range(k.waiters[w]) \ {t}
    /\ \A w \in WaitList :
          IsInjective(k.waiters[w]) => IsInjective(u.waiters[w])
    /\ u.ready = k.ready /\ u.bitmap = k.bitmap /\ u.delayed = k.delayed
    /\ u.state = k.state /\ u.wake_tick = k.wake_tick
    /\ u.last_wait_result = k.last_wait_result
    /\ SameTask(k, u)

\* UnlinkEvent has that effect in every kernel state.
LEMMA UnlinkEventFields ==
    ASSUME NEW k \in Kernel, NEW t \in Task, NEW u, u = UnlinkEvent(k, t)
    PROVE  UnlinkEventEffect(k, t, u)
<1> DEFINE S == Task \ {t}
<1>1. /\ u.waiters = [w \in WaitList |-> Keep(k.waiters[w], S)]
      /\ u.ready = k.ready /\ u.bitmap = k.bitmap /\ u.delayed = k.delayed
      /\ u.state = k.state /\ u.wake_tick = k.wake_tick
      /\ u.last_wait_result = k.last_wait_result
      /\ SameTask(k, u)
  BY DEF UnlinkEvent, Kernel, SameTask
<1>2. ASSUME NEW w \in WaitList
      PROVE  /\ u.waiters[w] = Keep(k.waiters[w], S)
             /\ u.waiters[w] \in Seq(Task)
             /\ Range(u.waiters[w]) = Range(k.waiters[w]) \ {t}
             /\ IsInjective(k.waiters[w]) => IsInjective(u.waiters[w])
  <2>1. u.waiters[w] = Keep(k.waiters[w], S) /\ k.waiters[w] \in Seq(Task)
        /\ Range(k.waiters[w]) \subseteq Task
    BY <1>1, ListTypes
  <2>2. /\ u.waiters[w] \in Seq(Task)
        /\ Range(u.waiters[w]) = Range(k.waiters[w]) \cap S
        /\ IsInjective(k.waiters[w]) => IsInjective(u.waiters[w])
    BY <2>1, KeepProperties
  <2> QED
    BY <2>1, <2>2
<1>3. u \in Kernel
  <2>1. u.waiters \in [WaitList -> Seq(Task)]
    <3>1. u.waiters = [w \in WaitList |-> u.waiters[w]]
      BY <1>1
    <3> QED
      BY <3>1, <1>2
  <2> QED
    BY <2>1 DEF UnlinkEvent, Kernel
<1> QED
  BY <1>1, <1>2, <1>3 DEF UnlinkEventEffect

\* remove takes t out of the ready and delayed lists.  It leaves the bitmap exact
\* if t was in no ready list but that of its priority.
RemoveEffect(k, t, u) ==
    /\ u \in Kernel
    /\ \A p \in Prio : Range(u.ready[p]) = Range(k.ready[p]) \ {t}
    /\ \A p \in Prio : IsInjective(k.ready[p]) => IsInjective(u.ready[p])
    /\ Range(u.delayed) = Range(k.delayed) \ {t}
    /\ IsInjective(k.delayed) => IsInjective(u.delayed)
    /\ u.waiters = k.waiters /\ u.state = k.state
    /\ u.wake_tick = [k.wake_tick EXCEPT ![t] = 0]
    /\ u.last_wait_result = k.last_wait_result
    /\ SameTask(k, u)
    /\ BitmapExact(k) /\ (\A p \in Prio \ {k.priority[t]} : t \notin Range(k.ready[p]))
          => BitmapExact(u)

\* remove has that effect in every kernel state.
LEMMA RemoveFields ==
    ASSUME NEW k \in Kernel, NEW t \in Task, NEW u, u = remove(k, t)
    PROVE  RemoveEffect(k, t, u)
<1> DEFINE v == Unlink(k, t)
           q == k.priority[t]
<1> HIDE DEF v
<1>1. UnlinkEffect(k, t, v)
  BY UnlinkHasEffect DEF v
<1>2. v \in Kernel
  BY <1>1 DEF UnlinkEffect
<1>3. /\ \A p \in Prio : Range(v.ready[p]) = Range(k.ready[p]) \ {t}
      /\ \A p \in Prio : IsInjective(k.ready[p]) => IsInjective(v.ready[p])
      /\ Range(v.delayed) = Range(k.delayed) \ {t}
      /\ IsInjective(k.delayed) => IsInjective(v.delayed)
  BY <1>1 DEF UnlinkEffect
<1>4. /\ v.bitmap = k.bitmap /\ v.waiters = k.waiters /\ v.state = k.state
      /\ v.last_wait_result = k.last_wait_result
      /\ v.priority = k.priority /\ v.current = k.current
      /\ v.tick = k.tick /\ v.pendsv = k.pendsv
  BY <1>1 DEF UnlinkEffect, SameTask
<1>5. v.wake_tick = [k.wake_tick EXCEPT ![t] = 0]
  BY <1>1 DEF UnlinkEffect
<1>6. q \in Prio
  BY DEF Kernel
<1>7. u = IF v.ready[q] = << >> THEN [v EXCEPT !.bitmap = @ \ {q}] ELSE v
  BY <1>4 DEF remove, v
<1> HIDE DEF q
<1>8. /\ u.ready = v.ready /\ u.delayed = v.delayed /\ u.waiters = v.waiters
      /\ u.state = v.state /\ u.last_wait_result = v.last_wait_result
      /\ u.wake_tick = v.wake_tick
      /\ u.priority = v.priority /\ u.current = v.current
      /\ u.tick = v.tick /\ u.pendsv = v.pendsv
      /\ u.bitmap = IF v.ready[q] = << >> THEN v.bitmap \ {q} ELSE v.bitmap
  BY <1>2, <1>7 DEF Kernel
<1>9. u \in Kernel
  <2>1. v.bitmap \ {q} \in SUBSET Prio
    BY <1>2 DEF Kernel
  <2>2. [v EXCEPT !.bitmap = @ \ {q}] \in Kernel
    BY <1>2, <2>1 DEF Kernel
  <2> QED
    BY <1>2, <1>7, <2>2
<1>10. ASSUME BitmapExact(k), \A p \in Prio \ {q} : t \notin Range(k.ready[p])
       PROVE  BitmapExact(u)
  <2>1. \A p \in Prio : /\ k.ready[p] = << >> <=> Range(k.ready[p]) = {}
                        /\ v.ready[p] = << >> <=> Range(v.ready[p]) = {}
    BY <1>2, ListTypes, EmptyRange
  <2>2. \A p \in Prio \ {q} : v.ready[p] = << >> <=> k.ready[p] = << >>
    BY <1>3, <1>10, <2>1
  <2>3. v.ready[q] # << >> => k.ready[q] # << >>
    BY <1>3, <1>6, <2>1
  <2> QED
    BY <1>4, <1>6, <1>8, <1>10, <2>2, <2>3 DEF BitmapExact
<1> QED
  BY <1>3, <1>4, <1>5, <1>8, <1>9, <1>10 DEF RemoveEffect, SameTask, q

\* add_ready puts t at the end of the ready list of its priority.
AddReadyEffect(k, t, u) ==
    /\ u \in Kernel
    /\ Range(u.ready[k.priority[t]]) = Range(k.ready[k.priority[t]]) \cup {t}
    /\ \A p \in Prio \ {k.priority[t]} : u.ready[p] = k.ready[p]
    /\ u.delayed = k.delayed /\ u.waiters = k.waiters
    /\ u.state = [k.state EXCEPT ![t] = "READY"]
    /\ u.wake_tick = k.wake_tick
    /\ u.last_wait_result = k.last_wait_result
    /\ SameTask(k, u)

\* add_ready has that effect in every kernel state.
LEMMA AddReadyFields ==
    ASSUME NEW k \in Kernel, NEW t \in Task, NEW u, u = add_ready(k, t)
    PROVE  AddReadyEffect(k, t, u)
<1> DEFINE q == k.priority[t]
<1>1. /\ u.ready = [k.ready EXCEPT ![q] = Append(k.ready[q], t)]
      /\ u.bitmap = k.bitmap \cup {q}
      /\ u.delayed = k.delayed /\ u.waiters = k.waiters
      /\ u.state = [k.state EXCEPT ![t] = "READY"]
      /\ u.wake_tick = k.wake_tick
      /\ u.last_wait_result = k.last_wait_result
      /\ SameTask(k, u)
  BY DEF add_ready, Kernel, SameTask
<1>2. q \in Prio /\ k.ready \in [Prio -> Seq(Task)] /\ k.ready[q] \in Seq(Task)
  BY DEF Kernel
<1>3. u.ready[q] \in Seq(Task) /\ Range(u.ready[q]) = Range(k.ready[q]) \cup {t}
  <2>1. u.ready[q] = Append(k.ready[q], t)
    BY <1>1, <1>2
  <2> HIDE DEF q
  <2> QED
    BY <1>2, <2>1, AppendRange
<1>4. \A p \in Prio \ {q} : u.ready[p] = k.ready[p]
  BY <1>1, <1>2
<1>5. u \in Kernel
  <2>1. u.ready \in [Prio -> Seq(Task)]
    BY <1>1, <1>2, <1>3, <1>4
  <2>2. u.bitmap \in SUBSET Prio
    BY <1>1, <1>2 DEF Kernel
  <2>3. u.state \in [Task -> TaskState]
    BY <1>1 DEF Kernel, TaskState
  <2> QED
    BY <2>1, <2>2, <2>3 DEF add_ready, Kernel
<1> QED
  BY <1>1, <1>3, <1>4, <1>5 DEF AddReadyEffect

\* Where insert_waiter_priority_sorted puts a task of priority n in list l:
\* behind all of at least that priority that come before any lower one.
Fits(l, priority, n, pos) ==
    /\ pos \in 1 .. Len(l) + 1
    /\ \A i \in 1 .. pos - 1 : priority[l[i]] >= n
    /\ pos <= Len(l) => priority[l[pos]] < n

\* insert_waiter_priority_sorted writes the one wait list only.
InsertWaiterEffect(k, w, t, u) ==
    /\ u \in Kernel
    /\ \E pos : /\ Fits(k.waiters[w], k.priority, k.priority[t], pos)
                /\ u.waiters = [k.waiters EXCEPT ![w] = InsertAt(k.waiters[w], pos, t)]
    /\ Range(u.waiters[w]) = Range(k.waiters[w]) \cup {t}
    /\ IsInjective(k.waiters[w]) /\ t \notin Range(k.waiters[w])
          => IsInjective(u.waiters[w])
    /\ \A v \in WaitList \ {w} : u.waiters[v] = k.waiters[v]
    /\ u.ready = k.ready /\ u.bitmap = k.bitmap /\ u.delayed = k.delayed
    /\ u.state = k.state /\ u.wake_tick = k.wake_tick
    /\ u.last_wait_result = k.last_wait_result
    /\ SameTask(k, u)

\* insert_waiter_priority_sorted has that effect in every kernel state.
LEMMA InsertWaiterFields ==
    ASSUME NEW k \in Kernel, NEW w \in WaitList, NEW t \in Task,
           NEW u, u = insert_waiter_priority_sorted(k, w, t)
    PROVE  InsertWaiterEffect(k, w, t, u)
<1> DEFINE l == k.waiters[w]
           lower == {i \in DOMAIN l : k.priority[l[i]] < k.priority[t]}
           pos == IF lower = {} THEN Len(l) + 1 ELSE Min(lower)
           r == InsertAt(l, pos, t)
<1>1. l \in Seq(Task) /\ Len(l) \in Nat /\ DOMAIN l = 1 .. Len(l)
      /\ \A i \in DOMAIN l : l[i] \in Task
  BY ListTypes, LenProperties, ElementOfSeq
<1>2. k.priority[t] \in Int /\ \A i \in 1 .. Len(l) : k.priority[l[i]] \in Int
  <2>1. k.priority \in [Task -> Prio] /\ Prio \subseteq Int
    BY DEF Kernel, Prio
  <2> HIDE DEF l
  <2> QED
    BY <2>1, <1>1
<1>3. Fits(l, k.priority, k.priority[t], pos)
  <2>1. \A i \in 1 .. Len(l) : i \in lower <=> k.priority[l[i]] < k.priority[t]
    BY <1>1
  <2>2. lower \in SUBSET (1 .. Len(l))
    BY <1>1
  <2> HIDE DEF lower, l
  <2>3. CASE lower = {}
    <3>1. pos = Len(l) + 1
      BY <2>3
    <3>2. \A i \in 1 .. Len(l) : k.priority[l[i]] >= k.priority[t]
      BY <1>2, <2>1, <2>3
    <3> HIDE DEF pos
    <3> QED
      BY <1>1, <3>1, <3>2 DEF Fits
  <2>4. CASE lower # {}
    <3>1. Min(lower) \in lower /\ \A i \in lower : Min(lower) <= i
      BY <1>1, <2>2, <2>4, MinPosition
    <3>2. pos \in lower /\ \A i \in lower : pos <= i
      BY <2>4, <3>1
    <3> HIDE DEF pos
    <3>3. \A i \in 1 .. pos - 1 : i \in 1 .. Len(l) /\ i \notin lower
      BY <3>2, <2>2, <1>1
    <3>4. \A i \in 1 .. pos - 1 : k.priority[l[i]] >= k.priority[t]
      BY <3>3, <2>1, <1>2
    <3> QED
      BY <3>2, <3>4, <2>1, <2>2, <1>1 DEF Fits
  <2> QED
    BY <2>3, <2>4
<1>4. /\ u.waiters = [k.waiters EXCEPT ![w] = r]
      /\ u.ready = k.ready /\ u.bitmap = k.bitmap /\ u.delayed = k.delayed
      /\ u.state = k.state /\ u.wake_tick = k.wake_tick
      /\ u.last_wait_result = k.last_wait_result
      /\ SameTask(k, u)
      /\ u = [k EXCEPT !.waiters[w] = r]
  BY DEF insert_waiter_priority_sorted, Kernel, SameTask
<1>5. pos \in 1 .. Len(l) + 1
  BY <1>3 DEF Fits
<1> HIDE DEF pos, l
<1>6. /\ r \in Seq(Task)
      /\ Range(r) = Range(l) \cup {t}
      /\ IsInjective(l) /\ t \notin Range(l) => IsInjective(r)
  BY <1>1, <1>5, InsertAtProperties
<1> HIDE DEF r
<1>7. k.waiters \in [WaitList -> Seq(Task)] /\ u.waiters[w] = r
      /\ \A v \in WaitList \ {w} : u.waiters[v] = k.waiters[v]
  BY <1>4 DEF Kernel
<1>8. u \in Kernel
  <2>1. u.waiters \in [WaitList -> Seq(Task)]
    BY <1>4, <1>6, <1>7
  <2> QED
    BY <2>1, <1>4 DEF Kernel
<1> QED
  BY <1>3, <1>4, <1>6, <1>7, <1>8 DEF InsertWaiterEffect, r, l

\* The blocking half of a call: t is queued on w, taken out of the ready and
\* delayed lists, BLOCKED, and delayed unless it waits for ever.
block(k, w, t, timeout) ==
    prepare_block(insert_waiter_priority_sorted(k, w, t), t, timeout)

BlockEffect(k, w, t, timeout, u) ==
    /\ u \in Kernel
    /\ \E pos : /\ Fits(k.waiters[w], k.priority, k.priority[t], pos)
                /\ u.waiters = [k.waiters EXCEPT ![w] = InsertAt(k.waiters[w], pos, t)]
    /\ Range(u.waiters[w]) = Range(k.waiters[w]) \cup {t}
    /\ \A v \in WaitList \ {w} : u.waiters[v] = k.waiters[v]
    /\ \A p \in Prio : Range(u.ready[p]) = Range(k.ready[p]) \ {t}
    /\ Range(u.delayed) = (Range(k.delayed) \ {t})
                             \cup (IF timeout = WAIT_FOREVER THEN {} ELSE {t})
    /\ u.state = [k.state EXCEPT ![t] = "BLOCKED"]
    /\ u.wake_tick = [k.wake_tick EXCEPT ![t] =
                         IF timeout = WAIT_FOREVER THEN 0
                         ELSE (k.tick + timeout) % TickMod]
    /\ u.last_wait_result = k.last_wait_result
    /\ SameTask(k, u)
    /\ NoDuplicates(k) /\ t \notin Range(k.waiters[w]) => NoDuplicates(u)
    /\ BitmapExact(k) /\ (\A p \in Prio \ {k.priority[t]} : t \notin Range(k.ready[p]))
          => BitmapExact(u)

\* Queueing and blocking t has that effect in every kernel state.
LEMMA BlockFields ==
    ASSUME NEW k \in Kernel, NEW w \in WaitList, NEW t \in Task,
           NEW timeout \in TickCount, NEW u, u = block(k, w, t, timeout)
    PROVE  BlockEffect(k, w, t, timeout, u)
<1> DEFINE i == insert_waiter_priority_sorted(k, w, t)
           r == remove(i, t)
           b == [r EXCEPT !.state[t] = "BLOCKED"]
           wake == (i.tick + timeout) % TickMod
<1>1. u = IF timeout = WAIT_FOREVER THEN b ELSE delay_until(b, t, wake)
  BY DEF block, prepare_block
<1> HIDE DEF i
<1>2. InsertWaiterEffect(k, w, t, i)
  BY InsertWaiterFields DEF i
<1>3. /\ i \in Kernel
      /\ \E pos : /\ Fits(k.waiters[w], k.priority, k.priority[t], pos)
                  /\ i.waiters = [k.waiters EXCEPT ![w] = InsertAt(k.waiters[w], pos, t)]
      /\ Range(i.waiters[w]) = Range(k.waiters[w]) \cup {t}
      /\ IsInjective(k.waiters[w]) /\ t \notin Range(k.waiters[w])
            => IsInjective(i.waiters[w])
      /\ \A v \in WaitList \ {w} : i.waiters[v] = k.waiters[v]
  BY <1>2 DEF InsertWaiterEffect
<1>4. /\ i.ready = k.ready /\ i.bitmap = k.bitmap /\ i.delayed = k.delayed
      /\ i.state = k.state /\ i.wake_tick = k.wake_tick
      /\ i.last_wait_result = k.last_wait_result
      /\ SameTask(k, i)
  BY <1>2 DEF InsertWaiterEffect
<1> HIDE DEF r
<1>5. RemoveEffect(i, t, r)
  BY <1>3, RemoveFields DEF r
<1>6. /\ \A p \in Prio : Range(r.ready[p]) = Range(i.ready[p]) \ {t}
      /\ \A p \in Prio : IsInjective(i.ready[p]) => IsInjective(r.ready[p])
      /\ Range(r.delayed) = Range(i.delayed) \ {t}
      /\ IsInjective(i.delayed) => IsInjective(r.delayed)
  BY <1>5 DEF RemoveEffect
<1>7. /\ r \in Kernel /\ r.waiters = i.waiters /\ r.state = i.state
      /\ r.wake_tick = [i.wake_tick EXCEPT ![t] = 0]
      /\ r.last_wait_result = i.last_wait_result
      /\ SameTask(i, r)
  BY <1>5 DEF RemoveEffect
<1>8. BitmapExact(k) /\ (\A p \in Prio \ {k.priority[t]} : t \notin Range(k.ready[p]))
         => BitmapExact(r)
  <2>1. BitmapExact(k) => BitmapExact(i)
    BY <1>4 DEF BitmapExact
  <2> QED
    BY <1>4, <1>5, <2>1 DEF SameTask, RemoveEffect
<1>9. /\ b \in Kernel
      /\ b.ready = r.ready /\ b.bitmap = r.bitmap /\ b.delayed = r.delayed
      /\ b.waiters = r.waiters /\ b.wake_tick = r.wake_tick
      /\ b.state = [r.state EXCEPT ![t] = "BLOCKED"]
      /\ b.last_wait_result = r.last_wait_result
      /\ SameTask(r, b)
  BY <1>7 DEF Kernel, SameTask, TaskState
<1> HIDE DEF b
<1>10. wake \in TickCount /\ wake = (k.tick + timeout) % TickMod
  <2>1. i.tick = k.tick /\ k.tick \in TickCount
    BY <1>4 DEF SameTask, Kernel
  <2> QED
    BY <2>1, TickAssumption DEF TickCount
<1> HIDE DEF wake
<1>11. CASE timeout = WAIT_FOREVER
  <2>1. u = b
    BY <1>1, <1>11
  <2>2. /\ u.ready = r.ready /\ u.bitmap = r.bitmap /\ u.delayed = r.delayed
        /\ u.waiters = i.waiters /\ u.wake_tick = [k.wake_tick EXCEPT ![t] = 0]
        /\ u.state = [k.state EXCEPT ![t] = "BLOCKED"]
        /\ u.last_wait_result = k.last_wait_result
        /\ SameTask(k, u)
    BY <2>1, <1>4, <1>7, <1>9 DEF SameTask
  <2>3. Range(u.delayed) = Range(k.delayed) \ {t}
    BY <2>2, <1>4, <1>6
  <2>4. NoDuplicates(k) /\ t \notin Range(k.waiters[w]) => NoDuplicates(u)
    BY <2>2, <1>3, <1>4, <1>6 DEF NoDuplicates
  <2>5. BitmapExact(r) => BitmapExact(u)
    BY <2>2 DEF BitmapExact
  <2> QED
    BY <2>1, <2>2, <2>3, <2>4, <2>5, <1>3, <1>4, <1>6, <1>8, <1>9, <1>11 DEF BlockEffect
<1>12. CASE timeout # WAIT_FOREVER
  <2>1. u = delay_until(b, t, wake)
    BY <1>1, <1>12
  <2>2. /\ u.ready = b.ready /\ u.bitmap = b.bitmap
        /\ u.delayed = Append(b.delayed, t)
        /\ u.waiters = b.waiters /\ u.wake_tick = [b.wake_tick EXCEPT ![t] = wake]
        /\ u.state = b.state
        /\ u.last_wait_result = b.last_wait_result
        /\ SameTask(b, u)
    BY <2>1, <1>9 DEF delay_until, Kernel, SameTask
  <2>3. /\ u.delayed \in Seq(Task)
        /\ Range(u.delayed) = Range(b.delayed) \cup {t}
        /\ IsInjective(b.delayed) /\ t \notin Range(b.delayed) => IsInjective(u.delayed)
    BY <2>2, <1>9, ListTypes, AppendRange
  <2>4. u \in Kernel
    <3>1. u.wake_tick \in [Task -> TickCount]
      BY <2>2, <1>9, <1>10 DEF Kernel
    <3> QED
      BY <2>1, <2>3, <3>1, <1>9, <2>2 DEF delay_until, Kernel
  <2>5. /\ u.ready = r.ready /\ u.bitmap = r.bitmap
        /\ u.waiters = i.waiters
        /\ u.state = [k.state EXCEPT ![t] = "BLOCKED"]
        /\ u.last_wait_result = k.last_wait_result
        /\ SameTask(k, u)
    BY <2>2, <1>4, <1>7, <1>9 DEF SameTask
  <2>6. u.wake_tick = [k.wake_tick EXCEPT ![t] = wake]
    <3>1. /\ u.wake_tick = [b.wake_tick EXCEPT ![t] = wake]
          /\ b.wake_tick = [k.wake_tick EXCEPT ![t] = 0]
          /\ k.wake_tick \in [Task -> TickCount]
      BY <2>2, <1>4, <1>7, <1>9 DEF Kernel
    <3> QED
      BY <3>1
  <2>7. NoDuplicates(k) /\ t \notin Range(k.waiters[w]) => NoDuplicates(u)
    BY <2>5, <2>3, <1>3, <1>4, <1>6, <1>9 DEF NoDuplicates
  <2>8. BitmapExact(r) => BitmapExact(u)
    BY <2>5 DEF BitmapExact
  <2>9. Range(u.delayed) = (Range(k.delayed) \ {t}) \cup {t}
    BY <2>3, <1>4, <1>6, <1>9
  <2> QED
    BY <2>4, <2>5, <2>6, <2>7, <2>8, <2>9, <1>3, <1>4, <1>6, <1>8, <1>10, <1>12
       DEF BlockEffect
<1> QED
  BY <1>11, <1>12

\* Blocking the running task on a wait list keeps the kernel consistent.
LEMMA BlockKeeps ==
    ASSUME NEW k \in Kernel, KernelInv(k), NEW w \in WaitList, NEW t \in Task \ {Idle},
           k.state[t] = "RUNNING", NEW timeout \in TickCount,
           NEW u, u = block(k, w, t, timeout)
    PROVE  KernelInv(u)
<1>1. BlockEffect(k, w, t, timeout, u)
  BY BlockFields
<1>2. /\ \A p \in Prio : Range(u.ready[p]) = Range(k.ready[p]) \ {t}
      /\ Range(u.delayed) = (Range(k.delayed) \ {t})
                               \cup (IF timeout = WAIT_FOREVER THEN {} ELSE {t})
      /\ Range(u.waiters[w]) = Range(k.waiters[w]) \cup {t}
      /\ \A v \in WaitList \ {w} : u.waiters[v] = k.waiters[v]
      /\ SameTask(k, u)
  BY <1>1 DEF BlockEffect
<1>3. u.state[t] = "BLOCKED" /\ \A x \in Task \ {t} : u.state[x] = k.state[x]
  BY <1>1 DEF BlockEffect, Kernel
<1>4. /\ \A v \in WaitList : t \notin Range(k.waiters[v])
      /\ \A p \in Prio : t \notin Range(k.ready[p])
      /\ t \notin Range(k.delayed)
  BY DEF KernelInv, ListedBlocked, ReadyOnly
<1>5. /\ Range(k.delayed) \subseteq Task
      /\ \A p \in Prio : Range(k.ready[p]) \subseteq Task
      /\ \A v \in WaitList : Range(k.waiters[v]) \subseteq Task
  BY ListTypes
<1>6. NoDuplicates(u) /\ BitmapExact(u)
  BY <1>1, <1>4 DEF BlockEffect, KernelInv
<1>7. ReadyOnly(u)
  BY <1>2, <1>3, <1>5 DEF KernelInv, ReadyOnly, SameTask
<1>8. ReadyListed(u)
  <2>1. \A x \in Task : k.priority[x] \in Prio
    BY DEF Kernel
  <2> QED
    BY <2>1, <1>2, <1>3 DEF KernelInv, ReadyListed, SameTask
<1>9. ListedBlocked(u)
  <2>1. \A x \in Range(u.delayed) : u.state[x] = "BLOCKED"
    BY <1>2, <1>3, <1>5 DEF KernelInv, ListedBlocked
  <2>2. ASSUME NEW v \in WaitList, NEW x \in Range(u.waiters[v])
        PROVE  /\ u.state[x] = "BLOCKED"
               /\ \A y \in WaitList : x \in Range(u.waiters[y]) => y = v
    <3>1. CASE x = t
      BY <3>1, <1>2, <1>3, <1>4
    <3>2. CASE x # t
      <4>1. \A y \in WaitList : x \in Range(u.waiters[y]) <=> x \in Range(k.waiters[y])
        BY <3>2, <1>2
      <4> QED
        BY <4>1, <3>2, <1>3, <1>5 DEF KernelInv, ListedBlocked
    <3> QED
      BY <3>1, <3>2
  <2> QED
    BY <2>1, <2>2 DEF ListedBlocked
<1>10. BlockedListed(u)
  <2> SUFFICES ASSUME NEW x \in Task, u.state[x] = "BLOCKED"
               PROVE  \/ x \in Range(u.delayed)
                      \/ \E v \in WaitList : x \in Range(u.waiters[v])
    BY DEF BlockedListed
  <2>1. CASE x = t
    BY <2>1, <1>2
  <2>2. CASE x # t
    <3>1. \/ x \in Range(k.delayed)
          \/ \E v \in WaitList : x \in Range(k.waiters[v])
      BY <2>2, <1>3 DEF KernelInv, BlockedListed
    <3> QED
      BY <3>1, <2>2, <1>2
  <2> QED
    BY <2>1, <2>2
<1>11. RunningIsCurrent(u) /\ IdleAlive(u) /\ u.current # WILD
  BY <1>2, <1>3, TaskAssumption DEF KernelInv, RunningIsCurrent, IdleAlive, SameTask
<1> QED
  BY <1>6, <1>7, <1>8, <1>9, <1>10, <1>11 DEF KernelInv

\* What waking the first waiter of w writes, when there is one.
WakeEffect(k, w, h, u) ==
    /\ u \in Kernel
    /\ h = Head(k.waiters[w]) /\ h \in Task /\ h \in Range(k.waiters[w])
    /\ \A v \in WaitList : u.waiters[v] = Keep(k.waiters[v], Task \ {h})
    /\ \A v \in WaitList : Range(u.waiters[v]) = Range(k.waiters[v]) \ {h}
    /\ \A p \in Prio \ {k.priority[h]} : Range(u.ready[p]) = Range(k.ready[p]) \ {h}
    /\ Range(u.ready[k.priority[h]]) = Range(k.ready[k.priority[h]]) \cup {h}
    /\ Range(u.delayed) = Range(k.delayed) \ {h}
    /\ u.state = [k.state EXCEPT ![h] = "READY"]
    /\ u.wake_tick = [k.wake_tick EXCEPT ![h] = 0]
    /\ u.last_wait_result = [k.last_wait_result EXCEPT ![h] = "OK"]
    /\ SameTask(k, u)

\* wake_waiter has that effect in every kernel state, and keeps a consistent
\* kernel consistent.
LEMMA WakeFields ==
    ASSUME NEW k \in Kernel, NEW w \in WaitList, k.waiters[w] # << >>,
           NEW u, u = wake_waiter(k, w)
    PROVE  /\ WakeEffect(k, w, Head(k.waiters[w]), u)
           /\ KernelInv(k) => KernelInv(u)
<1> DEFINE h == Head(k.waiters[w])
           e == UnlinkEvent(k, h)
           v == Unlink(e, h)
           o == [v EXCEPT !.last_wait_result[h] = "OK"]
<1>1. u = add_ready(o, h)
  BY DEF wake_waiter
<1>2. h \in Task /\ h \in Range(k.waiters[w])
  BY ListTypes, EmptyRange
<1> HIDE DEF h, e, v
<1>3. UnlinkEventEffect(k, h, e)
  BY <1>2, UnlinkEventFields DEF e
<1>4. /\ e \in Kernel
      /\ \A x \in WaitList : e.waiters[x] = Keep(k.waiters[x], Task \ {h})
      /\ \A x \in WaitList : Range(e.waiters[x]) = Range(k.waiters[x]) \ {h}
      /\ \A x \in WaitList : IsInjective(k.waiters[x]) => IsInjective(e.waiters[x])
      /\ e.ready = k.ready /\ e.bitmap = k.bitmap /\ e.delayed = k.delayed
      /\ e.state = k.state /\ e.wake_tick = k.wake_tick
      /\ e.last_wait_result = k.last_wait_result
      /\ SameTask(k, e)
  BY <1>3 DEF UnlinkEventEffect
<1>5. UnlinkEffect(e, h, v)
  BY <1>2, <1>4, UnlinkHasEffect DEF v
<1>6. v \in Kernel /\ v.wake_tick = [e.wake_tick EXCEPT ![h] = 0]
  BY <1>5 DEF UnlinkEffect
<1>7. /\ \A p \in Prio : Range(v.ready[p]) = Range(e.ready[p]) \ {h}
      /\ \A p \in Prio : IsInjective(e.ready[p]) => IsInjective(v.ready[p])
      /\ Range(v.delayed) = Range(e.delayed) \ {h}
      /\ IsInjective(e.delayed) => IsInjective(v.delayed)
  BY <1>5 DEF UnlinkEffect
<1>8. /\ v.bitmap = e.bitmap /\ v.waiters = e.waiters /\ v.state = e.state
      /\ v.last_wait_result = e.last_wait_result
      /\ SameTask(e, v)
  BY <1>5 DEF UnlinkEffect
<1>9. /\ o \in Kernel
      /\ o.ready = v.ready /\ o.bitmap = v.bitmap /\ o.delayed = v.delayed
      /\ o.waiters = v.waiters /\ o.wake_tick = v.wake_tick /\ o.state = v.state
      /\ o.last_wait_result = [v.last_wait_result EXCEPT ![h] = "OK"]
      /\ SameTask(v, o)
  BY <1>6 DEF Kernel, SameTask, WaitResult
<1> HIDE DEF o
<1>10. AddReadyEffect(o, h, u)
  BY <1>1, <1>2, <1>9, AddReadyFields
<1>11. /\ u \in Kernel
       /\ Range(u.ready[o.priority[h]]) = Range(o.ready[o.priority[h]]) \cup {h}
       /\ \A p \in Prio \ {o.priority[h]} : u.ready[p] = o.ready[p]
       /\ u.delayed = o.delayed /\ u.waiters = o.waiters
       /\ u.state = [o.state EXCEPT ![h] = "READY"]
       /\ u.wake_tick = o.wake_tick
       /\ u.last_wait_result = o.last_wait_result
       /\ SameTask(o, u)
  BY <1>10 DEF AddReadyEffect
<1>12. o.priority = k.priority /\ k.priority[h] \in Prio
  BY <1>2, <1>4, <1>8, <1>9 DEF SameTask, Kernel
<1>13. /\ \A p \in Prio \ {k.priority[h]} : Range(u.ready[p]) = Range(k.ready[p]) \ {h}
       /\ Range(u.ready[k.priority[h]]) = Range(k.ready[k.priority[h]]) \cup {h}
       /\ Range(u.delayed) = Range(k.delayed) \ {h}
  <2>1. \A p \in Prio : Range(o.ready[p]) = Range(k.ready[p]) \ {h}
    BY <1>4, <1>7, <1>9
  <2>2. Range(u.delayed) = Range(k.delayed) \ {h}
    BY <1>4, <1>7, <1>9, <1>11
  <2>3. \A p \in Prio \ {k.priority[h]} : Range(u.ready[p]) = Range(k.ready[p]) \ {h}
    BY <2>1, <1>11, <1>12
  <2>4. Range(u.ready[k.priority[h]]) = (Range(k.ready[k.priority[h]]) \ {h}) \cup {h}
    BY <2>1, <1>11, <1>12
  <2> QED
    BY <2>2, <2>3, <2>4
<1>14. /\ u.waiters = e.waiters
       /\ u.state = [k.state EXCEPT ![h] = "READY"]
       /\ u.wake_tick = [k.wake_tick EXCEPT ![h] = 0]
       /\ u.last_wait_result = [k.last_wait_result EXCEPT ![h] = "OK"]
       /\ SameTask(k, u)
  BY <1>4, <1>6, <1>8, <1>9, <1>11 DEF SameTask
<1>15. WakeEffect(k, w, h, u)
  <2>1. h = Head(k.waiters[w])
    BY DEF h
  <2>2. /\ \A x \in WaitList : u.waiters[x] = Keep(k.waiters[x], Task \ {h})
        /\ \A x \in WaitList : Range(u.waiters[x]) = Range(k.waiters[x]) \ {h}
    BY <1>4, <1>14
  <2>3. u \in Kernel
    BY <1>11
  <2> QED
    BY <2>1, <2>2, <2>3, <1>2, <1>13, <1>14 DEF WakeEffect
<1>16. ASSUME KernelInv(k) PROVE KernelInv(u)
  <2>1. k.state[h] = "BLOCKED"
    BY <1>2, <1>16 DEF KernelInv, ListedBlocked
  <2>2. \A p \in Prio : h \notin Range(k.ready[p])
    BY <2>1, <1>16 DEF KernelInv, ReadyOnly
  <2>3. \A p \in Prio : Range(o.ready[p]) = Range(k.ready[p])
    <3>1. \A p \in Prio : Range(o.ready[p]) = Range(k.ready[p]) \ {h}
      BY <1>4, <1>7, <1>9
    <3> QED
      BY <3>1, <2>2
  <2>4. NoDuplicates(o)
    BY <1>4, <1>7, <1>8, <1>9, <1>16 DEF KernelInv, NoDuplicates
  <2>5. BitmapExact(o)
    <3>1. \A p \in Prio : o.ready[p] = << >> <=> k.ready[p] = << >>
      BY <2>3, <1>9, ListTypes, EmptyRange
    <3> QED
      BY <3>1, <1>4, <1>8, <1>9, <1>16 DEF KernelInv, BitmapExact
  <2>6. /\ o.state = k.state /\ o.priority = k.priority /\ o.current = k.current
        /\ Range(o.delayed) = Range(k.delayed) \ {h}
        /\ \A x \in WaitList : Range(o.waiters[x]) = Range(k.waiters[x]) \ {h}
    BY <1>4, <1>7, <1>8, <1>9 DEF SameTask
  <2>7. ReadyOnly(o)
    BY <2>3, <2>6, <1>16 DEF KernelInv, ReadyOnly
  <2>8. \A x \in Task \ {h} :
          /\ o.state[x] = "READY" => x \in Range(o.ready[o.priority[x]])
          /\ o.state[x] = "BLOCKED" => \/ x \in Range(o.delayed)
                                       \/ \E y \in WaitList : x \in Range(o.waiters[y])
          /\ o.state[x] = "RUNNING" => o.current = x
          /\ x = Idle => o.state[x] \in {"READY", "RUNNING"}
    <3> SUFFICES ASSUME NEW x \in Task \ {h}
                 PROVE  /\ o.state[x] = "READY" => x \in Range(o.ready[o.priority[x]])
                        /\ o.state[x] = "BLOCKED" =>
                              \/ x \in Range(o.delayed)
                              \/ \E y \in WaitList : x \in Range(o.waiters[y])
                        /\ o.state[x] = "RUNNING" => o.current = x
                        /\ x = Idle => o.state[x] \in {"READY", "RUNNING"}
      OBVIOUS
    <3>1. k.priority[x] \in Prio
      BY DEF Kernel
    <3>2. o.state[x] = "READY" => x \in Range(o.ready[o.priority[x]])
      BY <2>3, <2>6, <3>1, <1>16 DEF KernelInv, ReadyListed
    <3>3. o.state[x] = "BLOCKED" => \/ x \in Range(o.delayed)
                                    \/ \E y \in WaitList : x \in Range(o.waiters[y])
      BY <2>6, <1>16 DEF KernelInv, BlockedListed
    <3>4. /\ o.state[x] = "RUNNING" => o.current = x
          /\ x = Idle => o.state[x] \in {"READY", "RUNNING"}
      BY <2>6, <1>16 DEF KernelInv, RunningIsCurrent, IdleAlive
    <3> QED
      BY <3>2, <3>3, <3>4
  <2>9. /\ \A x \in Range(o.delayed) : o.state[x] = "BLOCKED"
        /\ \A y \in WaitList : \A x \in Range(o.waiters[y]) :
              /\ x # h => o.state[x] = "BLOCKED"
              /\ \A z \in WaitList : x \in Range(o.waiters[z]) => z = y
        /\ o.current # WILD
    <3>1. /\ \A x \in Range(k.delayed) : k.state[x] = "BLOCKED"
          /\ \A y \in WaitList : \A x \in Range(k.waiters[y]) :
                /\ k.state[x] = "BLOCKED"
                /\ \A z \in WaitList : x \in Range(k.waiters[z]) => z = y
          /\ k.current # WILD
      BY <1>16 DEF KernelInv, ListedBlocked
    <3>2. \A y \in WaitList : Range(o.waiters[y]) \subseteq Range(k.waiters[y])
      BY <2>6
    <3>3. Range(o.delayed) \subseteq Range(k.delayed) /\ o.state = k.state
      BY <2>6
    <3>4. \A y \in WaitList : \A x \in Range(o.waiters[y]) :
              /\ o.state[x] = "BLOCKED"
              /\ \A z \in WaitList : x \in Range(o.waiters[z]) => z = y
      BY <3>1, <3>2, <3>3
    <3> QED
      BY <2>6, <3>1, <3>3, <3>4
  <2>10. Loose(o, h)
    <3>1. (\A p \in Prio : h \notin Range(o.ready[p])) /\ h \notin Range(o.delayed)
      BY <2>2, <2>3, <2>6
    <3> QED
      BY <3>1, <2>4, <2>5, <2>7, <2>8, <2>9 DEF Loose
  <2>11. \A x \in WaitList : h \notin Range(o.waiters[x])
    BY <2>6
  <2> QED
    BY <2>10, <2>11, <1>1, <1>2, <1>9, AddReadySettles
<1> QED
  BY <1>15, <1>16 DEF h

-----------------------------------------------------------------------------
(* Ticks and switches. *)

\* The tasks the next tick makes ready.
DueSet(k) == {t \in Range(k.delayed) : Due((k.tick + 1) % TickMod, k.wake_tick[t])}

\* What a tick at which the tasks of D are due writes.
TickEffect(k, D, u) ==
    /\ u \in Kernel
    /\ \A w \in WaitList : u.waiters[w] = Keep(k.waiters[w], Task \ D)
    /\ \A w \in WaitList : Range(u.waiters[w]) = Range(k.waiters[w]) \ D
    /\ Range(u.delayed) = Range(k.delayed) \ D
    /\ \A p \in Prio : Range(u.ready[p]) = Range(k.ready[p]) \cup {t \in D : k.priority[t] = p}
    /\ u.state = [t \in Task |-> IF t \in D THEN "READY" ELSE k.state[t]]
    /\ u.wake_tick = [t \in Task |-> IF t \in D THEN 0 ELSE k.wake_tick[t]]
    /\ u.last_wait_result =
          [t \in Task |-> IF t \in D THEN "TIMEOUT" ELSE k.last_wait_result[t]]
    /\ u.tick = (k.tick + 1) % TickMod
    /\ u.priority = k.priority /\ u.current = k.current /\ u.pendsv = TRUE

\* scheduler_tick has that effect in every kernel state.
LEMMA TickFields ==
    ASSUME NEW k \in Kernel, NEW u, u = scheduler_tick(k)
    PROVE  TickEffect(k, DueSet(k), u)
<1> DEFINE now == (k.tick + 1) % TickMod
           due == {t \in Range(k.delayed) : Due(now, k.wake_tick[t])}
           at(p) == {t \in due : k.priority[t] = p}
           woken(p) == Keep(k.delayed, at(p))
           left == Task \ due
<1>1. /\ k.bitmap \in SUBSET Prio
      /\ k.priority \in [Task -> Prio] /\ k.state \in [Task -> TaskState]
      /\ k.wake_tick \in [Task -> TickCount]
      /\ k.last_wait_result \in [Task -> WaitResult]
      /\ k.tick \in TickCount
  BY DEF Kernel
<1>2. /\ k.ready \in [Prio -> Seq(Task)] /\ k.waiters \in [WaitList -> Seq(Task)]
      /\ k.delayed \in Seq(Task) /\ Range(k.delayed) \subseteq Task
      /\ \A p \in Prio : k.ready[p] \in Seq(Task)
      /\ \A w \in WaitList : k.waiters[w] \in Seq(Task) /\ Range(k.waiters[w]) \subseteq Task
  BY ListTypes
<1>3. due \subseteq Range(k.delayed) /\ due \subseteq Task
      /\ \A p \in Prio : at(p) \subseteq Range(k.delayed)
  BY <1>2
<1>4. now \in TickCount
  BY <1>1, TickAssumption DEF TickCount
<1>5. /\ u.ready = [p \in Prio |-> k.ready[p] \o woken(p)]
      /\ u.waiters = [w \in WaitList |-> Keep(k.waiters[w], left)]
      /\ u.delayed = Keep(k.delayed, left)
  BY DEF scheduler_tick, Kernel
<1>6. /\ u.bitmap = k.bitmap \cup {k.priority[t] : t \in due}
      /\ u.state = [t \in Task |-> IF t \in due THEN "READY" ELSE k.state[t]]
      /\ u.wake_tick = [t \in Task |-> IF t \in due THEN 0 ELSE k.wake_tick[t]]
      /\ u.last_wait_result =
            [t \in Task |-> IF t \in due THEN "TIMEOUT" ELSE k.last_wait_result[t]]
      /\ u.tick = now
  BY DEF scheduler_tick, Kernel
<1>7. u.priority = k.priority /\ u.current = k.current /\ u.pendsv = TRUE
  BY DEF scheduler_tick, Kernel
<1>8. u = [ready |-> u.ready, bitmap |-> u.bitmap, delayed |-> u.delayed,
           waiters |-> u.waiters, priority |-> u.priority, state |-> u.state,
           wake_tick |-> u.wake_tick, last_wait_result |-> u.last_wait_result,
           current |-> u.current, tick |-> u.tick, pendsv |-> u.pendsv]
  BY DEF scheduler_tick, Kernel
<1>9. due = DueSet(k)
  BY DEF DueSet
<1>91. \A p \in Prio : at(p) = {t \in due : k.priority[t] = p}
  OBVIOUS
<1> HIDE DEF now, due, at, woken
<1>10. ASSUME NEW p \in Prio
       PROVE  u.ready[p] \in Seq(Task) /\ Range(u.ready[p]) = Range(k.ready[p]) \cup at(p)
  <2>1. u.ready[p] = k.ready[p] \o woken(p)
    BY <1>5
  <2>2. woken(p) \in Seq(Task) /\ Range(woken(p)) = Range(k.delayed) \cap at(p)
    BY <1>2, KeepProperties DEF woken
  <2>3. Range(woken(p)) = at(p)
    BY <2>2, <1>3
  <2>4. u.ready[p] \in Seq(Task) /\ Range(u.ready[p]) = Range(k.ready[p]) \cup Range(woken(p))
    BY <2>1, <2>2, <1>2, JoinRange
  <2> QED
    BY <2>3, <2>4
<1>11. ASSUME NEW w \in WaitList
       PROVE  /\ u.waiters[w] = Keep(k.waiters[w], left)
              /\ u.waiters[w] \in Seq(Task)
              /\ Range(u.waiters[w]) = Range(k.waiters[w]) \ due
  <2>1. u.waiters[w] = Keep(k.waiters[w], left)
    BY <1>5
  <2>2. u.waiters[w] \in Seq(Task) /\ Range(u.waiters[w]) = Range(k.waiters[w]) \cap left
    BY <2>1, <1>2, KeepProperties
  <2> QED
    BY <2>1, <2>2, <1>2
<1>12. u.delayed \in Seq(Task) /\ Range(u.delayed) = Range(k.delayed) \ due
  <2>1. u.delayed \in Seq(Task) /\ Range(u.delayed) = Range(k.delayed) \cap left
    BY <1>2, <1>5, KeepProperties
  <2> QED
    BY <2>1, <1>2
<1>13. u \in Kernel
  <2>1. u.ready \in [Prio -> Seq(Task)] /\ u.waiters \in [WaitList -> Seq(Task)]
    <3>1. u.ready = [p \in Prio |-> u.ready[p]]
          /\ u.waiters = [w \in WaitList |-> u.waiters[w]]
      BY <1>5
    <3> QED
      BY <3>1, <1>10, <1>11
  <2>2. u.bitmap \in SUBSET Prio
    BY <1>1, <1>3, <1>6
  <2>3. u.state \in [Task -> TaskState]
    BY <1>1, <1>6 DEF TaskState
  <2>4. u.wake_tick \in [Task -> TickCount]
    BY <1>1, <1>6, TickAssumption DEF TickCount
  <2>5. u.last_wait_result \in [Task -> WaitResult]
    BY <1>1, <1>6 DEF WaitResult
  <2>6. u.priority \in [Task -> Prio] /\ u.current \in Task \cup {NULL, WILD}
        /\ u.tick \in TickCount /\ u.pendsv \in BOOLEAN
    BY <1>4, <1>6, <1>7 DEF Kernel
  <2> QED
    BY <1>8, <1>12, <2>1, <2>2, <2>3, <2>4, <2>5, <2>6 DEF Kernel
<1>14. TickEffect(k, due, u)
  <2>1. \A p \in Prio : Range(u.ready[p]) = Range(k.ready[p]) \cup {t \in due : k.priority[t] = p}
    BY <1>10, <1>91
  <2>2. u.tick = (k.tick + 1) % TickMod
    BY <1>6 DEF now
  <2> QED
    BY <2>1, <2>2, <1>6, <1>7, <1>11, <1>12, <1>13 DEF TickEffect
<1> QED
  BY <1>9, <1>14

\* The part of KernelInv that holds even where priority inheritance leaves a task
\* in a ready list that is not that of its priority.
ListedStates(k) ==
    /\ \A p \in Prio : \A t \in Range(k.ready[p]) : k.state[t] = "READY"
    /\ \A t \in Range(k.delayed) : k.state[t] = "BLOCKED"

\* What a context switch writes: the states of two tasks that are not BLOCKED,
\* and the ready lists.
SelectEffect(k, u) ==
    /\ u \in Kernel
    /\ ListedStates(u)
    /\ u.waiters = k.waiters
    /\ Range(u.delayed) = Range(k.delayed)
    /\ \A x \in Range(k.delayed) : u.wake_tick[x] = k.wake_tick[x]
    /\ \A x \in Task : u.state[x] = "BLOCKED" <=> k.state[x] = "BLOCKED"
    /\ u.last_wait_result = k.last_wait_result
    /\ u.priority = k.priority /\ u.tick = k.tick /\ u.pendsv = k.pendsv
    /\ u.current \in Task => u.state[u.current] = "RUNNING"

\* select_next has that effect wherever ready tasks are listed as READY.
LEMMA SelectFields ==
    ASSUME NEW k \in Kernel, ListedStates(k), NEW u, u = select_next(k)
    PROVE  SelectEffect(k, u)
<1> DEFINE r == IF k.current \in Task /\ k.state[k.current] = "RUNNING"
                THEN add_ready(k, k.current) ELSE k
           q == highest_set_bit(r.bitmap)
           n == Head(r.ready[q])
           v == remove(r, n)
           z == [v EXCEPT !.state[n] = "RUNNING", !.current = n]
<1>1. /\ r \in Kernel /\ ListedStates(r)
      /\ r.delayed = k.delayed /\ r.waiters = k.waiters /\ r.wake_tick = k.wake_tick
      /\ r.last_wait_result = k.last_wait_result
      /\ r.priority = k.priority /\ r.tick = k.tick /\ r.pendsv = k.pendsv
      /\ \A x \in Task : r.state[x] = "BLOCKED" <=> k.state[x] = "BLOCKED"
  <2>1. CASE k.current \in Task /\ k.state[k.current] = "RUNNING"
    <3> DEFINE t == k.current
    <3>1. t \in Task /\ k.state[t] = "RUNNING" /\ r = add_ready(k, t)
      BY <2>1
    <3> HIDE DEF t, r
    <3>2. AddReadyEffect(k, t, r)
      BY <3>1, AddReadyFields
    <3>3. /\ r \in Kernel
          /\ r.delayed = k.delayed /\ r.waiters = k.waiters /\ r.wake_tick = k.wake_tick
          /\ r.last_wait_result = k.last_wait_result
          /\ r.priority = k.priority /\ r.tick = k.tick /\ r.pendsv = k.pendsv
      BY <3>2 DEF AddReadyEffect, SameTask
    <3>4. r.state[t] = "READY" /\ \A x \in Task \ {t} : r.state[x] = k.state[x]
      BY <3>1, <3>2 DEF AddReadyEffect, Kernel
    <3>5. \A p \in Prio : Range(r.ready[p]) \subseteq Range(k.ready[p]) \cup {t}
      BY <3>2 DEF AddReadyEffect
    <3>6. ListedStates(r)
      <4>1. /\ \A p \in Prio : Range(k.ready[p]) \subseteq Task
            /\ Range(k.delayed) \subseteq Task
        BY ListTypes
      <4> QED
        BY <4>1, <3>1, <3>3, <3>4, <3>5 DEF ListedStates
    <3> QED
      BY <3>1, <3>3, <3>4, <3>6
  <2>2. CASE ~ (k.current \in Task /\ k.state[k.current] = "RUNNING")
    <3>1. r = k
      BY <2>2
    <3> QED
      BY <3>1
  <2> QED
    BY <2>1, <2>2
<1>2. u = IF r.bitmap = {} THEN [r EXCEPT !.current = WILD]
          ELSE IF r.ready[q] = << >> THEN [r EXCEPT !.current = WILD]
               ELSE z
  BY DEF select_next
<1> HIDE DEF r
<1>3. CASE r.bitmap = {} \/ r.ready[q] = << >>
  <2>1. u = [r EXCEPT !.current = WILD]
    BY <1>2, <1>3
  <2>2. /\ u \in Kernel /\ u.current = WILD
        /\ u.ready = r.ready /\ u.delayed = r.delayed /\ u.waiters = r.waiters
        /\ u.wake_tick = r.wake_tick /\ u.state = r.state
        /\ u.last_wait_result = r.last_wait_result
        /\ u.priority = r.priority /\ u.tick = r.tick /\ u.pendsv = r.pendsv
    BY <2>1, <1>1 DEF Kernel
  <2>3. ListedStates(u)
    BY <2>2, <1>1 DEF ListedStates
  <2> QED
    BY <2>2, <2>3, <1>1, TaskAssumption DEF SelectEffect
<1>4. CASE r.bitmap # {} /\ r.ready[q] # << >>
  <2>1. q \in Prio
    <3>1. r.bitmap \in SUBSET Prio
      BY <1>1 DEF Kernel
    <3> QED
      BY <3>1, <1>4, HighestSetBit
  <2> HIDE DEF q
  <2>2. n \in Task /\ n \in Range(r.ready[q])
    BY <2>1, <1>1, <1>4, ListTypes, EmptyRange
  <2>3. r.state[n] = "READY"
    BY <2>1, <2>2, <1>1 DEF ListedStates
  <2>4. u = z
    BY <1>2, <1>4
  <2> HIDE DEF n, v
  <2>5. RemoveEffect(r, n, v)
    BY <2>2, <1>1, RemoveFields DEF v
  <2>6. /\ v \in Kernel /\ v.waiters = r.waiters /\ v.state = r.state
        /\ v.wake_tick = [r.wake_tick EXCEPT ![n] = 0]
        /\ v.last_wait_result = r.last_wait_result
        /\ v.priority = r.priority /\ v.tick = r.tick /\ v.pendsv = r.pendsv
        /\ \A p \in Prio : Range(v.ready[p]) = Range(r.ready[p]) \ {n}
        /\ Range(v.delayed) = Range(r.delayed) \ {n}
    BY <2>5 DEF RemoveEffect, SameTask
  <2>7. /\ z \in Kernel /\ z.current = n
        /\ z.ready = v.ready /\ z.delayed = v.delayed /\ z.waiters = v.waiters
        /\ z.wake_tick = v.wake_tick
        /\ z.state = [v.state EXCEPT ![n] = "RUNNING"]
        /\ z.last_wait_result = v.last_wait_result
        /\ z.priority = v.priority /\ z.tick = v.tick /\ z.pendsv = v.pendsv
    BY <2>2, <2>6 DEF Kernel, TaskState
  <2>8. z.state[n] = "RUNNING" /\ \A x \in Task \ {n} : z.state[x] = r.state[x]
    BY <2>2, <2>6, <2>7 DEF Kernel
  <2> HIDE DEF z
  <2>9. /\ \A p \in Prio : Range(r.ready[p]) \subseteq Task
        /\ Range(r.delayed) \subseteq Task
    BY <1>1, ListTypes
  <2>10. n \notin Range(r.delayed)
    BY <2>3, <1>1 DEF ListedStates
  <2>11. Range(z.delayed) = Range(k.delayed)
    BY <2>6, <2>7, <2>10, <1>1
  <2>12. ListedStates(z)
    BY <2>6, <2>7, <2>8, <2>9, <2>10, <1>1 DEF ListedStates
  <2>13. \A x \in Range(k.delayed) : z.wake_tick[x] = k.wake_tick[x]
    <3>1. k.wake_tick \in [Task -> TickCount]
      BY DEF Kernel
    <3> QED
      BY <3>1, <2>6, <2>7, <2>9, <2>10, <1>1
  <2>14. \A x \in Task : z.state[x] = "BLOCKED" <=> k.state[x] = "BLOCKED"
    BY <2>2, <2>3, <2>8, <1>1
  <2> QED
    BY <2>4, <2>6, <2>7, <2>8, <2>11, <2>12, <2>13, <2>14, <1>1 DEF SelectEffect
<1> QED
  BY <1>3, <1>4

-----------------------------------------------------------------------------
(* The order of a wait list. *)

\* Higher priorities first.
Sorted(l, priority) ==
    \A i, j \in DOMAIN l : i < j => priority[l[i]] >= priority[l[j]]

\* Taking elements out of a list keeps its order.
LEMMA SortedKeep ==
    ASSUME NEW T, NEW l \in Seq(T), NEW priority, Sorted(l, priority), NEW S
    PROVE  Sorted(Keep(l, S), priority)
BY KeepProperties DEF Sorted

\* The head of a list in order has the highest priority of all.
LEMMA SortedHead ==
    ASSUME NEW T, NEW l \in Seq(T), l # << >>, NEW priority \in [T -> Int],
           Sorted(l, priority), NEW x \in Range(l)
    PROVE  priority[x] <= priority[Head(l)]
<1>1. Len(l) \in Nat /\ Len(l) >= 1 /\ DOMAIN l = 1 .. Len(l) /\ Head(l) = l[1]
  BY LenProperties
<1>2. PICK i \in 1 .. Len(l) : x = l[i]
  BY <1>1 DEF Range
<1>3. \A j \in 1 .. Len(l) : priority[l[j]] \in Int
  <2>1. \A j \in 1 .. Len(l) : l[j] \in T
    BY ElementOfSeq
  <2> QED
    BY <2>1
<1>4. CASE i = 1
  BY <1>1, <1>2, <1>3, <1>4
<1>5. CASE i # 1
  BY <1>1, <1>2, <1>3, <1>5 DEF Sorted
<1> QED
  BY <1>4, <1>5

\* Those of r that are not in l come behind all of l that have their priority.
QueuedBehind(l, priority, r) ==
    \A i \in DOMAIN r, x \in Range(l) :
        r[i] \notin Range(l) /\ priority[x] = priority[r[i]]
           => \E j \in 1 .. i - 1 : r[j] = x

\* Inserting where it fits keeps a list in order, and puts the new element behind
\* every other of its priority.
LEMMA SortedInsert ==
    ASSUME NEW T, NEW l \in Seq(T), NEW t \in T, NEW priority \in [T -> Int],
           Sorted(l, priority), NEW pos, Fits(l, priority, priority[t], pos),
           NEW r, r = InsertAt(l, pos, t)
    PROVE  Sorted(r, priority) /\ QueuedBehind(l, priority, r)
<1> DEFINE n == Len(l)
           at(i) == IF i < pos THEN l[i] ELSE IF i = pos THEN t ELSE l[i - 1]
<1>1. n \in Nat /\ DOMAIN l = 1 .. n /\ \A i \in 1 .. n : l[i] \in T
  BY LenProperties, ElementOfSeq
<1>2. /\ pos \in 1 .. n + 1
      /\ \A i \in 1 .. pos - 1 : priority[l[i]] >= priority[t]
      /\ pos <= n => priority[l[pos]] < priority[t]
  BY DEF Fits
<1>3. DOMAIN r = 1 .. n + 1 /\ \A i \in 1 .. n + 1 : r[i] = at(i)
  <2>1. Inserted(l, pos, t, r)
    BY <1>2, InsertAtProperties
  <2> QED
    BY <2>1 DEF Inserted
<1>4. priority[t] \in Int /\ \A i \in 1 .. n : priority[l[i]] \in Int
  BY <1>1
<1>5. \A i, j \in 1 .. n : i < j => priority[l[i]] >= priority[l[j]]
  BY <1>1 DEF Sorted
<1> HIDE DEF n
<1>6. \A i \in 1 .. n : i >= pos => priority[l[i]] < priority[t]
  <2> SUFFICES ASSUME NEW i \in 1 .. n, i >= pos PROVE priority[l[i]] < priority[t]
    OBVIOUS
  <2>1. pos \in 1 .. n /\ priority[l[pos]] < priority[t]
    BY <1>1, <1>2
  <2>2. priority[l[i]] <= priority[l[pos]]
    BY <2>1, <1>4, <1>5
  <2> QED
    BY <2>1, <2>2, <1>4
<1>7. ASSUME NEW i \in 1 .. n + 1, NEW j \in 1 .. n + 1, i < j
      PROVE  priority[r[i]] >= priority[r[j]]
  <2>1. r[i] = at(i) /\ r[j] = at(j)
    BY <1>3
  <2>2. CASE j < pos
    <3>1. i \in 1 .. n /\ j \in 1 .. n /\ r[i] = l[i] /\ r[j] = l[j]
      BY <2>1, <2>2, <1>1, <1>2, <1>7
    <3> QED
      BY <3>1, <1>5, <1>7
  <2>3. CASE j = pos
    <3>1. i \in 1 .. pos - 1 /\ r[i] = l[i] /\ r[j] = t
      BY <2>1, <2>3, <1>1, <1>2, <1>7
    <3> QED
      BY <3>1, <1>2
  <2>4. CASE j > pos
    <3>1. j - 1 \in 1 .. n /\ j - 1 >= pos /\ r[j] = l[j - 1]
      BY <2>1, <2>4, <1>1, <1>2
    <3>2. priority[l[j - 1]] < priority[t]
      BY <3>1, <1>6
    <3>3. CASE i < pos
      <4>1. i \in 1 .. pos - 1 /\ i \in 1 .. n /\ r[i] = l[i]
        BY <2>1, <3>3, <1>1, <1>2
      <4> QED
        BY <4>1, <3>1, <3>2, <1>2, <1>4
    <3>4. CASE i = pos
      BY <2>1, <3>1, <3>2, <3>4, <1>2, <1>4
    <3>5. CASE i > pos
      <4>1. i - 1 \in 1 .. n /\ i - 1 < j - 1 /\ r[i] = l[i - 1]
        BY <2>1, <3>5, <1>1, <1>2, <1>7
      <4> QED
        BY <4>1, <3>1, <1>5
    <3> QED
      BY <3>3, <3>4, <3>5, <1>2
  <2> QED
    BY <2>2, <2>3, <2>4, <1>2
<1>8. ASSUME NEW i \in 1 .. n + 1, NEW x \in Range(l),
             r[i] \notin Range(l), priority[x] = priority[r[i]]
      PROVE  \E j \in 1 .. i - 1 : r[j] = x
  <2>1. i = pos /\ r[i] = t
    <3>1. i < pos => i \in 1 .. n /\ r[i] = l[i]
      BY <1>1, <1>2, <1>3
    <3>2. i > pos => i - 1 \in 1 .. n /\ r[i] = l[i - 1]
      BY <1>1, <1>2, <1>3
    <3>3. ~ (i < pos) /\ ~ (i > pos)
      BY <3>1, <3>2, <1>1, <1>8 DEF Range
    <3> QED
      BY <3>3, <1>2, <1>3
  <2>2. PICK a \in 1 .. n : x = l[a]
    BY <1>1 DEF Range
  <2>3. a < pos
    BY <2>1, <2>2, <1>2, <1>4, <1>6, <1>8
  <2>4. a \in 1 .. i - 1 /\ a \in 1 .. n + 1 /\ r[a] = x
    BY <2>1, <2>2, <2>3, <1>1, <1>2, <1>3
  <2> QED
    BY <2>4
<1> QED
  BY <1>3, <1>7, <1>8 DEF Sorted, QueuedBehind

\* Unlinking the event link of a task that is in no wait list keeps a consistent
\* kernel consistent and every wait list's tasks.
LEMMA UnlinkEventKeeps ==
    ASSUME NEW k \in Kernel, KernelInv(k), NEW t \in Task, k.state[t] # "BLOCKED",
           NEW u, u = UnlinkEvent(k, t)
    PROVE  /\ KernelInv(u)
           /\ \A w \in WaitList : Range(u.waiters[w]) = Range(k.waiters[w])
<1>1. UnlinkEventEffect(k, t, u)
  BY UnlinkEventFields
<1>2. \A w \in WaitList : t \notin Range(k.waiters[w])
  BY DEF KernelInv, ListedBlocked
<1>3. /\ \A w \in WaitList : Range(u.waiters[w]) = Range(k.waiters[w]) \ {t}
      /\ \A w \in WaitList : IsInjective(k.waiters[w]) => IsInjective(u.waiters[w])
      /\ u.ready = k.ready /\ u.bitmap = k.bitmap /\ u.delayed = k.delayed
      /\ u.state = k.state /\ u.priority = k.priority /\ u.current = k.current
  BY <1>1 DEF UnlinkEventEffect, SameTask
<1>4. \A w \in WaitList : Range(u.waiters[w]) = Range(k.waiters[w])
  BY <1>2, <1>3
<1>5. NoDuplicates(u)
  BY <1>3 DEF KernelInv, NoDuplicates
<1>6. ReadyOnly(u) /\ ReadyListed(u) /\ BitmapExact(u)
  BY <1>3 DEF KernelInv, ReadyOnly, ReadyListed, BitmapExact
<1>7. ListedBlocked(u)
  BY <1>3, <1>4 DEF KernelInv, ListedBlocked
<1>8. BlockedListed(u)
  BY <1>3, <1>4 DEF KernelInv, BlockedListed
<1>9. RunningIsCurrent(u) /\ IdleAlive(u) /\ u.current # WILD
  BY <1>3 DEF KernelInv, RunningIsCurrent, IdleAlive
<1> QED
  BY <1>4, <1>5, <1>6, <1>7, <1>8, <1>9 DEF KernelInv

\* A consistent kernel lists READY tasks in the ready lists and BLOCKED ones in
\* the delayed list.
LEMMA ConsistentListedStates == ASSUME NEW k, KernelInv(k) PROVE ListedStates(k)
BY DEF KernelInv, ReadyOnly, ListedBlocked, ListedStates

-----------------------------------------------------------------------------
(* Delay and suspend. *)

\* What delaying t until wake writes.
DelayEffect(k, t, wake, u) ==
    /\ u \in Kernel
    /\ \A p \in Prio : Range(u.ready[p]) = Range(k.ready[p]) \ {t}
    /\ Range(u.delayed) = Range(k.delayed) \cup {t}
    /\ u.waiters = k.waiters
    /\ u.state = [k.state EXCEPT ![t] = "BLOCKED"]
    /\ u.wake_tick = [k.wake_tick EXCEPT ![t] = wake]
    /\ u.last_wait_result = k.last_wait_result
    /\ SameTask(k, u)

\* block_current_delay has that effect in every kernel state.
LEMMA DelayFields ==
    ASSUME NEW k \in Kernel, NEW t \in Task, NEW wake \in TickCount,
           NEW u, u = block_current_delay(k, t, wake)
    PROVE  DelayEffect(k, t, wake, u)
<1> DEFINE r == remove(k, t)
           b == [r EXCEPT !.state[t] = "BLOCKED"]
<1>1. u = delay_until(b, t, wake)
  BY DEF block_current_delay
<1> HIDE DEF r
<1>2. RemoveEffect(k, t, r)
  BY RemoveFields DEF r
<1>3. /\ r \in Kernel
      /\ \A p \in Prio : Range(r.ready[p]) = Range(k.ready[p]) \ {t}
      /\ Range(r.delayed) = Range(k.delayed) \ {t}
  BY <1>2 DEF RemoveEffect
<1>4. /\ r.waiters = k.waiters /\ r.state = k.state
      /\ r.wake_tick = [k.wake_tick EXCEPT ![t] = 0]
      /\ r.last_wait_result = k.last_wait_result
      /\ SameTask(k, r)
  BY <1>2 DEF RemoveEffect
<1>5. /\ b \in Kernel
      /\ b.ready = r.ready /\ b.bitmap = r.bitmap /\ b.delayed = r.delayed
      /\ b.waiters = r.waiters /\ b.wake_tick = r.wake_tick
      /\ b.state = [r.state EXCEPT ![t] = "BLOCKED"]
      /\ b.last_wait_result = r.last_wait_result
      /\ SameTask(r, b)
  BY <1>3 DEF Kernel, SameTask, TaskState
<1> HIDE DEF b
<1>6. /\ u.ready = b.ready /\ u.bitmap = b.bitmap
      /\ u.delayed = Append(b.delayed, t)
      /\ u.waiters = b.waiters /\ u.wake_tick = [b.wake_tick EXCEPT ![t] = wake]
      /\ u.state = b.state
      /\ u.last_wait_result = b.last_wait_result
      /\ SameTask(b, u)
  BY <1>1, <1>5 DEF delay_until, Kernel, SameTask
<1>7. u.delayed \in Seq(Task) /\ Range(u.delayed) = Range(b.delayed) \cup {t}
  BY <1>5, <1>6, ListTypes, AppendRange
<1>8. u \in Kernel
  <2>1. u.wake_tick \in [Task -> TickCount]
    BY <1>5, <1>6 DEF Kernel
  <2> QED
    BY <1>1, <1>5, <1>6, <1>7, <2>1 DEF delay_until, Kernel
<1>9. u.wake_tick = [k.wake_tick EXCEPT ![t] = wake]
  <2>1. /\ u.wake_tick = [b.wake_tick EXCEPT ![t] = wake]
        /\ b.wake_tick = [k.wake_tick EXCEPT ![t] = 0]
        /\ k.wake_tick \in [Task -> TickCount]
    BY <1>4, <1>5, <1>6 DEF Kernel
  <2> QED
    BY <2>1
<1>10. Range(u.delayed) = Range(k.delayed) \cup {t}
  BY <1>3, <1>5, <1>7
<1>11. \A p \in Prio : Range(u.ready[p]) = Range(k.ready[p]) \ {t}
  BY <1>3, <1>5, <1>6
<1>12. /\ u.waiters = k.waiters
       /\ u.state = [k.state EXCEPT ![t] = "BLOCKED"]
       /\ u.last_wait_result = k.last_wait_result
       /\ SameTask(k, u)
  BY <1>4, <1>5, <1>6 DEF SameTask
<1> QED
  BY <1>8, <1>9, <1>10, <1>11, <1>12 DEF DelayEffect

\* What suspending t writes.
SuspendEffect(k, t, u) ==
    /\ u \in Kernel
    /\ \A p \in Prio : Range(u.ready[p]) = Range(k.ready[p]) \ {t}
    /\ Range(u.delayed) = Range(k.delayed)
    /\ \A x \in Range(k.delayed) : u.wake_tick[x] = k.wake_tick[x]
    /\ u.waiters = k.waiters
    /\ u.state = [k.state EXCEPT ![t] = "SUSPENDED"]
    /\ u.last_wait_result = k.last_wait_result
    /\ SameTask(k, u)

\* nimble_task_suspend has that effect on a READY or RUNNING task wherever the
\* lists hold READY and BLOCKED tasks.
LEMMA SuspendFields ==
    ASSUME NEW k \in Kernel, ListedStates(k), NEW t \in Task,
           k.state[t] \in {"READY", "RUNNING"},
           NEW r, r = IF k.state[t] = "READY" THEN remove(k, t) ELSE k,
           NEW u, u = [r EXCEPT !.state[t] = "SUSPENDED"]
    PROVE  SuspendEffect(k, t, u)
<1>1. t \notin Range(k.delayed) /\ Range(k.delayed) \subseteq Task
  BY ListTypes DEF ListedStates
<1>2. /\ r \in Kernel
      /\ \A p \in Prio : Range(r.ready[p]) = Range(k.ready[p]) \ {t}
      /\ Range(r.delayed) = Range(k.delayed)
      /\ \A x \in Range(k.delayed) : r.wake_tick[x] = k.wake_tick[x]
      /\ r.waiters = k.waiters /\ r.state = k.state
      /\ r.last_wait_result = k.last_wait_result
      /\ SameTask(k, r)
  <2>1. CASE k.state[t] = "READY"
    <3>1. RemoveEffect(k, t, r)
      BY <2>1, RemoveFields
    <3>2. /\ r \in Kernel
          /\ \A p \in Prio : Range(r.ready[p]) = Range(k.ready[p]) \ {t}
          /\ Range(r.delayed) = Range(k.delayed) \ {t}
          /\ r.wake_tick = [k.wake_tick EXCEPT ![t] = 0]
          /\ r.waiters = k.waiters /\ r.state = k.state
          /\ r.last_wait_result = k.last_wait_result
          /\ SameTask(k, r)
      BY <3>1 DEF RemoveEffect
    <3>3. Range(r.delayed) = Range(k.delayed)
      BY <3>2, <1>1
    <3>4. \A x \in Range(k.delayed) : r.wake_tick[x] = k.wake_tick[x]
      <4>1. k.wake_tick \in [Task -> TickCount]
        BY DEF Kernel
      <4> QED
        BY <4>1, <3>2, <1>1
    <3> QED
      BY <3>2, <3>3, <3>4
  <2>2. CASE k.state[t] = "RUNNING"
    <3>1. r = k /\ \A p \in Prio : t \notin Range(k.ready[p])
      BY <2>2 DEF ListedStates
    <3> QED
      BY <3>1 DEF SameTask
  <2> QED
    BY <2>1, <2>2
<1>3. /\ u \in Kernel
      /\ u.ready = r.ready /\ u.delayed = r.delayed /\ u.waiters = r.waiters
      /\ u.wake_tick = r.wake_tick /\ u.state = [r.state EXCEPT ![t] = "SUSPENDED"]
      /\ u.last_wait_result = r.last_wait_result
      /\ SameTask(r, u)
  BY <1>2 DEF Kernel, TaskState, SameTask
<1> QED
  BY <1>2, <1>3 DEF SuspendEffect, SameTask
=============================================================================
