---------------------------- MODULE TimerProofs ----------------------------
(***************************************************************************)
(* Proofs about Timer, for any number of tasks, timers, periods and ticks, *)
(* as long as no expired timer waits unserved for more than MaxLag ticks:  *)
(* the list of active timers holds each active timer once and the soonest  *)
(* first, and the service never sleeps past the soonest deadline by more   *)
(* than the ticks it needed to fall asleep.                                *)
(***************************************************************************)
EXTENDS Timer, SemaphoreProofs

Half == TickMod \div 2

\* How far tick count e lies ahead of the oldest deadline there can be at tick now.
Ahead(e, now) == (e - now + MaxLag) % TickMod

-----------------------------------------------------------------------------
(* Tick counts. *)

\* Half the tick range, and the lag, are within the tick range.
LEMMA HalfRange == Half \in Nat /\ TickMod = 2 * Half /\ Half >= 2 /\ MaxLag \in 1 .. Half - 1
BY TickHalf, TimerAssumption, SpanAssumption DEF Half

\* Ahead without the modulus.
LEMMA AheadValue ==
    ASSUME NEW e \in TickCount, NEW now \in TickCount, NEW s, s = e - now + MaxLag
    PROVE  /\ Ahead(e, now) = IF s < 0 THEN s + TickMod
                              ELSE IF s < TickMod THEN s ELSE s - TickMod
           /\ Ahead(e, now) \in TickCount
<1>1. MaxLag \in Nat /\ MaxLag < TickMod /\ s \in Int
  BY HalfRange DEF TickCount
<1>2. s > 0 - TickMod /\ s < 2 * TickMod
  BY <1>1, TickAssumption DEF TickCount
<1>3. s % TickMod = IF s < 0 THEN s + TickMod ELSE IF s < TickMod THEN s ELSE s - TickMod
  BY <1>1, <1>2, TickAssumption
<1> QED
  BY <1>1, <1>2, <1>3, TickAssumption DEF Ahead, TickCount

\* The signed difference without the modulus.
LEMMA SignedValue ==
    ASSUME NEW a \in TickCount, NEW b \in TickCount,
           NEW d, d = IF a >= b THEN a - b ELSE a - b + TickMod
    PROVE  Signed(a, b) = IF d < Half THEN d ELSE d - TickMod
BY TickDistance DEF Signed, Half

\* The signed comparison of two near deadlines is that of how far they are ahead.
LEMMA SignedAhead ==
    ASSUME NEW e \in TickCount, NEW f \in TickCount, NEW now \in TickCount,
           Ahead(e, now) < Half, Ahead(f, now) < Half
    PROVE  Signed(e, f) = Ahead(e, now) - Ahead(f, now)
<1> DEFINE a == Ahead(e, now)
           b == Ahead(f, now)
           s == e - now + MaxLag
           u == f - now + MaxLag
           d == IF e >= f THEN e - f ELSE e - f + TickMod
<1>1. /\ a = IF s < 0 THEN s + TickMod ELSE IF s < TickMod THEN s ELSE s - TickMod
      /\ a \in TickCount
  BY AheadValue
<1>2. /\ b = IF u < 0 THEN u + TickMod ELSE IF u < TickMod THEN u ELSE u - TickMod
      /\ b \in TickCount
  BY AheadValue
<1>3. Signed(e, f) = IF d < Half THEN d ELSE d - TickMod
  BY SignedValue
<1>4. Half \in Nat /\ TickMod = 2 * Half /\ MaxLag \in 1 .. Half - 1
  BY HalfRange
<1> HIDE DEF a, b, Half
<1>5. a \in 0 .. Half - 1 /\ b \in 0 .. Half - 1
  BY <1>1, <1>2, <1>4 DEF TickCount, a, b
<1>6. e \in 0 .. TickMod - 1 /\ f \in 0 .. TickMod - 1 /\ now \in 0 .. TickMod - 1
  BY DEF TickCount
<1> QED
  BY <1>1, <1>2, <1>3, <1>4, <1>5, <1>6 DEF a, b

\* The present is ahead of the oldest deadline by MaxLag.
LEMMA AheadNow == ASSUME NEW now \in TickCount PROVE Ahead(now, now) = MaxLag
<1>1. MaxLag \in Nat /\ MaxLag < TickMod
  BY HalfRange
<1> QED
  BY <1>1, AheadValue DEF TickCount

\* A tick brings every deadline nearer by one.
LEMMA AheadTick ==
    ASSUME NEW e \in TickCount, NEW now \in TickCount, Ahead(e, now) # 0,
           NEW next, next = (now + 1) % TickMod
    PROVE  next \in TickCount /\ Ahead(e, next) = Ahead(e, now) - 1
<1> DEFINE s == e - now + MaxLag
           u == e - next + MaxLag
<1>1. Half \in Nat /\ TickMod = 2 * Half /\ MaxLag \in 1 .. Half - 1 /\ Half >= 2
  BY HalfRange
<1>2. 1 \in TickCount
  BY <1>1 DEF TickCount
<1>3. next = IF now + 1 < TickMod THEN now + 1 ELSE now + 1 - TickMod
  BY <1>2, TickSum
<1>4. next \in TickCount
  BY <1>3, TickAssumption DEF TickCount
<1>5. Ahead(e, now) = IF s < 0 THEN s + TickMod ELSE IF s < TickMod THEN s ELSE s - TickMod
  BY AheadValue
<1>6. Ahead(e, next) = IF u < 0 THEN u + TickMod ELSE IF u < TickMod THEN u ELSE u - TickMod
  BY <1>4, AheadValue
<1>7. e \in 0 .. TickMod - 1 /\ now \in 0 .. TickMod - 1
  BY DEF TickCount
<1> HIDE DEF Half
<1> QED
  BY <1>1, <1>3, <1>4, <1>5, <1>6, <1>7

\* Adding ticks to a deadline moves it by as many, within half the range.
LEMMA AheadAdd ==
    ASSUME NEW e \in TickCount, NEW now \in TickCount, NEW p \in TickCount,
           Ahead(e, now) + p < Half, NEW f, f = (e + p) % TickMod
    PROVE  f \in TickCount /\ Ahead(f, now) = Ahead(e, now) + p
<1> DEFINE s == e - now + MaxLag
           u == f - now + MaxLag
<1>1. Half \in Nat /\ TickMod = 2 * Half /\ MaxLag \in 1 .. Half - 1 /\ Half >= 2
  BY HalfRange
<1>2. f = IF e + p < TickMod THEN e + p ELSE e + p - TickMod
  BY TickSum
<1>3. e \in 0 .. TickMod - 1 /\ now \in 0 .. TickMod - 1 /\ p \in 0 .. TickMod - 1
  BY DEF TickCount
<1>4. f \in TickCount
  BY <1>2, <1>3, TickAssumption DEF TickCount
<1>5. /\ Ahead(e, now) = IF s < 0 THEN s + TickMod ELSE IF s < TickMod THEN s ELSE s - TickMod
      /\ Ahead(e, now) \in 0 .. TickMod - 1
  BY AheadValue DEF TickCount
<1>6. Ahead(f, now) = IF u < 0 THEN u + TickMod ELSE IF u < TickMod THEN u ELSE u - TickMod
  BY <1>4, AheadValue
<1> HIDE DEF Half
<1> QED
  BY <1>1, <1>2, <1>3, <1>4, <1>5, <1>6

\* A sleeper whose deadline is not the next tick is not due at it.
LEMMA NotDueAhead ==
    ASSUME NEW wake \in TickCount, NEW now \in TickCount,
           Ahead(wake, now) \in MaxLag + 1 .. Half - 1,
           ~ Due((now + 1) % TickMod, wake)
    PROVE  Ahead(wake, (now + 1) % TickMod) \in MaxLag + 1 .. Half - 1
<1> DEFINE next == (now + 1) % TickMod
           d == (next - wake) % TickMod
<1>1. Half \in Nat /\ TickMod = 2 * Half /\ MaxLag \in 1 .. Half - 1 /\ Half >= 2
  BY HalfRange
<1>2. Ahead(wake, now) # 0
  BY <1>1
<1>3. next \in TickCount /\ Ahead(wake, next) = Ahead(wake, now) - 1
  BY <1>2, AheadTick
<1>4. Ahead(wake, next) < Half /\ Ahead(next, next) = MaxLag
  BY <1>1, <1>3, AheadNow
<1>5. Signed(next, wake) = MaxLag - Ahead(wake, next)
  BY <1>1, <1>3, <1>4, SignedAhead
<1>6. ~ (d < Half) /\ Signed(next, wake) = IF d < Half THEN d ELSE d - TickMod
  BY DEF Due, Signed, Half
<1>7. d < TickMod /\ d \in Int
  <2>1. d = IF next >= wake THEN next - wake ELSE next - wake + TickMod
    BY <1>3, TickDistance
  <2> QED
    BY <1>3, <2>1, TickAssumption DEF TickCount
<1> HIDE DEF next, d, Half
<1>8. Ahead(wake, next) > MaxLag /\ Ahead(wake, next) \in Int
  BY <1>1, <1>3, <1>5, <1>6, <1>7
<1>9. Ahead(wake, next) \in MaxLag + 1 .. Half - 1
  BY <1>1, <1>3, <1>8
<1> QED
  BY <1>9 DEF next

-----------------------------------------------------------------------------
(* The list of timers. *)

\* What is not far ahead comes first.
Urgency(e, now) == [x \in Timer |-> 0 - Ahead(e[x], now)]

\* A list of timers without duplicates, the soonest first, none of them far ahead.
Orderly(l, e, now) ==
    /\ l \in Seq(Timer) /\ IsInjective(l)
    /\ Sorted(l, Urgency(e, now))
    /\ \A x \in Range(l) : Ahead(e[x], now) < Half

\* The urgencies are integers.
LEMMA UrgencyType ==
    ASSUME NEW e \in [Timer -> TickCount], NEW now \in TickCount
    PROVE  /\ Urgency(e, now) \in [Timer -> Int]
           /\ \A x \in Timer : /\ Urgency(e, now)[x] = 0 - Ahead(e[x], now)
                               /\ Ahead(e[x], now) \in 0 .. TickMod - 1
<1>1. \A x \in Timer : Ahead(e[x], now) \in 0 .. TickMod - 1
  BY AheadValue DEF TickCount
<1> QED
  BY <1>1, TickAssumption DEF Urgency

\* The front timer is the soonest.
LEMMA FrontSoonest ==
    ASSUME NEW e \in [Timer -> TickCount], NEW now \in TickCount, NEW l,
           Orderly(l, e, now), l # << >>
    PROVE  /\ Head(l) \in Range(l) /\ Head(l) \in Timer /\ Range(l) \subseteq Timer
           /\ \A x \in Range(l) : /\ Ahead(e[Head(l)], now) <= Ahead(e[x], now)
                                  /\ Ahead(e[x], now) \in 0 .. Half - 1
<1>1. l \in Seq(Timer) /\ Sorted(l, Urgency(e, now))
      /\ \A x \in Range(l) : Ahead(e[x], now) < Half
  BY DEF Orderly
<1>2. Head(l) \in Range(l) /\ Range(l) \subseteq Timer
  BY <1>1, EmptyRange
<1>3. /\ Urgency(e, now) \in [Timer -> Int]
      /\ \A x \in Timer : /\ Urgency(e, now)[x] = 0 - Ahead(e[x], now)
                          /\ Ahead(e[x], now) \in 0 .. TickMod - 1
  BY UrgencyType
<1>4. \A x \in Range(l) : Urgency(e, now)[x] <= Urgency(e, now)[Head(l)]
  BY <1>1, <1>3, SortedHead
<1>5. \A x \in Range(l) : Ahead(e[Head(l)], now) <= Ahead(e[x], now)
  BY <1>2, <1>3, <1>4
<1>6. \A x \in Range(l) : Ahead(e[x], now) \in 0 .. Half - 1
  BY <1>1, <1>2, <1>3, HalfRange
<1> QED
  BY <1>2, <1>5, <1>6

\* Taking timers out of the list keeps it orderly, and the front one does not get
\* sooner.
LEMMA KeepOrderly ==
    ASSUME NEW e \in [Timer -> TickCount], NEW now \in TickCount, NEW l,
           Orderly(l, e, now), NEW x \in Timer, NEW r, r = Keep(l, Timer \ {x})
    PROVE  Orderly(r, e, now) /\ Range(r) = Range(l) \ {x}
<1>1. l \in Seq(Timer) /\ IsInjective(l) /\ Sorted(l, Urgency(e, now))
      /\ \A y \in Range(l) : Ahead(e[y], now) < Half
  BY DEF Orderly
<1>2. r \in Seq(Timer) /\ Range(r) = Range(l) \cap (Timer \ {x}) /\ IsInjective(r)
  BY <1>1, KeepProperties
<1>3. Sorted(r, Urgency(e, now))
  BY <1>1, SortedKeep
<1>4. Range(l) \subseteq Timer
  BY <1>1, EmptyRange
<1>5. Range(r) = Range(l) \ {x}
  BY <1>2, <1>4
<1> QED
  BY <1>1, <1>2, <1>3, <1>5 DEF Orderly

\* A list stays orderly when timers that are not in it change.
LEMMA OrderlyElsewhere ==
    ASSUME NEW e \in [Timer -> TickCount], NEW f \in [Timer -> TickCount],
           NEW now \in TickCount, NEW l, Orderly(l, e, now),
           \A x \in Range(l) : f[x] = e[x]
    PROVE  Orderly(l, f, now)
<1>1. l \in Seq(Timer) /\ IsInjective(l) /\ Sorted(l, Urgency(e, now))
      /\ \A x \in Range(l) : Ahead(e[x], now) < Half
  BY DEF Orderly
<1>2. \A i \in DOMAIN l : l[i] \in Range(l) /\ l[i] \in Timer
  BY <1>1, EmptyRange DEF Range
<1>3. \A i \in DOMAIN l : Urgency(f, now)[l[i]] = Urgency(e, now)[l[i]]
  BY <1>2 DEF Urgency
<1>4. Sorted(l, Urgency(f, now))
  BY <1>1, <1>3 DEF Sorted
<1> QED
  BY <1>1, <1>4 DEF Orderly

\* insert_sorted_by_expiry keeps the list orderly, and the front timer the front
\* unless the new one is sooner.
LEMMA InsertOrderly ==
    ASSUME NEW e \in [Timer -> TickCount], NEW now \in TickCount, NEW l,
           Orderly(l, e, now), NEW x \in Timer \ Range(l), Ahead(e[x], now) < Half,
           NEW r, r = insert_sorted_by_expiry(l, e, x)
    PROVE  /\ Orderly(r, e, now) /\ Range(r) = Range(l) \cup {x} /\ r # << >>
           /\ Head(r) # x => l # << >> /\ Head(r) = Head(l)
<1> DEFINE u == Urgency(e, now)
           later == {i \in DOMAIN l : Signed(e[x], e[l[i]]) < 0}
           pos == IF later = {} THEN Len(l) + 1 ELSE Min(later)
           n == Len(l)
<1>1. l \in Seq(Timer) /\ IsInjective(l) /\ Sorted(l, u)
      /\ \A y \in Range(l) : Ahead(e[y], now) < Half
  BY DEF Orderly
<1>2. n \in Nat /\ DOMAIN l = 1 .. n /\ \A i \in 1 .. n : l[i] \in Timer /\ l[i] \in Range(l)
  BY <1>1, LenProperties, ElementOfSeq DEF Range
<1>3. u \in [Timer -> Int] /\ \A y \in Timer : u[y] = 0 - Ahead(e[y], now)
  BY UrgencyType
<1>4. \A i \in 1 .. n : Signed(e[x], e[l[i]]) < 0 <=> u[l[i]] < u[x]
  <2> SUFFICES ASSUME NEW i \in 1 .. n PROVE Signed(e[x], e[l[i]]) < 0 <=> u[l[i]] < u[x]
    OBVIOUS
  <2>1. l[i] \in Timer /\ Ahead(e[l[i]], now) < Half
    BY <1>1, <1>2
  <2>2. Signed(e[x], e[l[i]]) = Ahead(e[x], now) - Ahead(e[l[i]], now)
    BY <2>1, SignedAhead
  <2>3. Ahead(e[x], now) \in Int /\ Ahead(e[l[i]], now) \in Int
    BY <2>1, UrgencyType
  <2> QED
    BY <1>3, <2>1, <2>2, <2>3
<1>5. later \subseteq 1 .. n /\ \A i \in 1 .. n : i \in later <=> u[l[i]] < u[x]
  BY <1>2, <1>4
<1>6. r = InsertAt(l, pos, x)
  BY DEF insert_sorted_by_expiry
<1>7. later # {} => Min(later) \in later /\ \A i \in later : Min(later) <= i
  BY <1>2, <1>5, MinPosition
<1> HIDE DEF u, n, later
<1>8. \A i \in 1 .. n : u[l[i]] \in Int
  BY <1>2, <1>3
<1>9. Fits(l, u, u[x], pos)
  <2>1. CASE later = {}
    <3>1. pos = n + 1
      BY <2>1 DEF n
    <3>2. \A i \in 1 .. n : ~ (u[l[i]] < u[x])
      BY <1>5, <2>1
    <3> QED
      BY <1>2, <1>3, <1>8, <3>1, <3>2 DEF Fits, n
  <2>2. CASE later # {}
    <3>1. pos \in later /\ \A i \in later : pos <= i
      BY <1>7, <2>2
    <3>2. pos \in 1 .. n /\ u[l[pos]] < u[x]
      BY <1>5, <3>1
    <3> HIDE DEF pos
    <3>3. \A i \in 1 .. pos - 1 : i \in 1 .. n /\ ~ (u[l[i]] < u[x])
      BY <1>2, <1>5, <3>1, <3>2
    <3>4. \A i \in 1 .. pos - 1 : u[l[i]] >= u[x]
      BY <1>3, <1>8, <3>3
    <3> QED
      BY <1>2, <3>2, <3>4 DEF Fits, n
  <2> QED
    BY <2>1, <2>2
<1> HIDE DEF pos
<1>10. pos \in 1 .. n + 1
  BY <1>9 DEF Fits, n
<1>11. /\ r \in Seq(Timer) /\ r # << >> /\ Inserted(l, pos, x, r)
       /\ Range(r) = Range(l) \cup {x} /\ IsInjective(r)
  BY <1>1, <1>6, <1>10, InsertAtProperties DEF n
<1>12. Sorted(r, u)
  BY <1>1, <1>3, <1>6, <1>9, SortedInsert
<1>13. Orderly(r, e, now)
  BY <1>1, <1>11, <1>12 DEF Orderly, u
<1>14. Head(r) # x => l # << >> /\ Head(r) = Head(l)
  <2>1. Head(r) = r[1] /\ r[1] = IF 1 < pos THEN l[1] ELSE IF 1 = pos THEN x ELSE l[1 - 1]
    BY <1>2, <1>11 DEF Inserted, n
  <2>2. Head(r) # x => 1 < pos /\ Head(r) = l[1]
    BY <1>10, <2>1
  <2>3. 1 < pos => n # 0
    BY <1>2, <1>10
  <2>4. n # 0 => l # << >> /\ Head(l) = l[1]
    BY <1>1 DEF n
  <2> QED
    BY <2>2, <2>3, <2>4
<1> QED
  BY <1>11, <1>13, <1>14

\* A tick keeps the list orderly if the front timer has not waited for too long.
LEMMA TickOrderly ==
    ASSUME NEW e \in [Timer -> TickCount], NEW now \in TickCount, NEW l,
           Orderly(l, e, now), l # << >> => Ahead(e[Head(l)], now) > 0,
           NEW next, next = (now + 1) % TickMod
    PROVE  /\ Orderly(l, e, next)
           /\ \A x \in Range(l) : Ahead(e[x], next) = Ahead(e[x], now) - 1
<1>1. l \in Seq(Timer) /\ IsInjective(l) /\ Sorted(l, Urgency(e, now))
      /\ \A x \in Range(l) : Ahead(e[x], now) < Half
  BY DEF Orderly
<1>2. Range(l) \subseteq Timer /\ (l = << >> <=> Range(l) = {})
  BY <1>1, EmptyRange
<1>3. \A x \in Range(l) : Ahead(e[x], now) \in 1 .. Half - 1
  <2> SUFFICES ASSUME NEW x \in Range(l) PROVE Ahead(e[x], now) \in 1 .. Half - 1
    OBVIOUS
  <2>1. l # << >>
    BY <1>2
  <2>2. /\ Head(l) \in Range(l) /\ Ahead(e[Head(l)], now) <= Ahead(e[x], now)
        /\ \A y \in Range(l) : Ahead(e[y], now) \in 0 .. Half - 1
    BY <2>1, FrontSoonest
  <2>3. Ahead(e[Head(l)], now) \in 0 .. Half - 1 /\ Ahead(e[Head(l)], now) > 0
    BY <2>1, <2>2
  <2>4. Half \in Nat
    BY HalfRange
  <2> HIDE DEF Half
  <2> QED
    BY <2>2, <2>3, <2>4
<1>4. \A x \in Range(l) : next \in TickCount /\ Ahead(e[x], next) = Ahead(e[x], now) - 1
  BY <1>2, <1>3, AheadTick
<1>5. Sorted(l, Urgency(e, next))
  <2>1. \A i \in DOMAIN l : l[i] \in Range(l) /\ l[i] \in Timer
    BY <1>2 DEF Range
  <2>2. \A i \in DOMAIN l : /\ Urgency(e, now)[l[i]] \in Int
                            /\ Urgency(e, next)[l[i]] = Urgency(e, now)[l[i]] + 1
    <3> SUFFICES ASSUME NEW i \in DOMAIN l
                 PROVE  /\ Urgency(e, now)[l[i]] \in Int
                        /\ Urgency(e, next)[l[i]] = Urgency(e, now)[l[i]] + 1
      OBVIOUS
    <3>1. /\ Ahead(e[l[i]], now) \in 1 .. Half - 1
          /\ Ahead(e[l[i]], next) = Ahead(e[l[i]], now) - 1
      BY <1>3, <1>4, <2>1
    <3>2. /\ Urgency(e, now)[l[i]] = 0 - Ahead(e[l[i]], now)
          /\ Urgency(e, next)[l[i]] = 0 - Ahead(e[l[i]], next)
      BY <2>1 DEF Urgency
    <3> QED
      BY <3>1, <3>2
  <2> QED
    BY <1>1, <2>2 DEF Sorted
<1>6. \A x \in Range(l) : Ahead(e[x], next) < Half
  BY <1>3, <1>4, HalfRange
<1> QED
  BY <1>1, <1>4, <1>5, <1>6 DEF Orderly

\* So does serving the front timer.
LEMMA TailOrderly ==
    ASSUME NEW e \in [Timer -> TickCount], NEW now \in TickCount, NEW l,
           Orderly(l, e, now), l # << >>, NEW r, r = Tail(l)
    PROVE  Orderly(r, e, now) /\ Range(r) = Range(l) \ {Head(l)}
<1>1. l \in Seq(Timer) /\ IsInjective(l) /\ Sorted(l, Urgency(e, now))
      /\ \A x \in Range(l) : Ahead(e[x], now) < Half
  BY DEF Orderly
<1>2. /\ Len(l) \in Nat /\ Len(l) >= 1 /\ DOMAIN l = 1 .. Len(l) /\ Head(l) = l[1]
      /\ r \in Seq(Timer) /\ Len(r) = Len(l) - 1 /\ DOMAIN r = 1 .. Len(l) - 1
      /\ \A i \in 1 .. Len(l) - 1 : r[i] = l[i + 1]
  BY <1>1, LenProperties
<1>3. \A i, j \in 1 .. Len(l) : l[i] = l[j] => i = j
  BY <1>1, <1>2 DEF IsInjective
<1>4. IsInjective(r)
  <2>1. \A i, j \in DOMAIN r : r[i] = r[j] => i = j
    BY <1>2, <1>3
  <2> QED
    BY <2>1 DEF IsInjective
<1>5. Sorted(r, Urgency(e, now))
  BY <1>1, <1>2 DEF Sorted
<1>6. Range(r) = Range(l) \ {Head(l)}
  <2>1. Range(r) = {r[i] : i \in 1 .. Len(l) - 1} /\ Range(l) = {l[i] : i \in 1 .. Len(l)}
    BY <1>2 DEF Range
  <2>2. ASSUME NEW x \in Range(r) PROVE x \in Range(l) \ {Head(l)}
    <3>1. PICK i \in 1 .. Len(l) - 1 : x = r[i]
      BY <2>1
    <3>2. i + 1 \in 1 .. Len(l) /\ i + 1 # 1 /\ x = l[i + 1]
      BY <1>2, <3>1
    <3> QED
      BY <1>2, <1>3, <2>1, <3>2
  <2>3. ASSUME NEW x \in Range(l) \ {Head(l)} PROVE x \in Range(r)
    <3>1. PICK i \in 1 .. Len(l) : x = l[i]
      BY <2>1
    <3>2. i # 1
      BY <1>2, <3>1
    <3>3. i - 1 \in 1 .. Len(l) - 1 /\ r[i - 1] = l[(i - 1) + 1] /\ (i - 1) + 1 = i
      BY <1>2, <3>1, <3>2
    <3> QED
      BY <2>1, <3>1, <3>3
  <2> QED
    BY <2>2, <2>3
<1> QED
  BY <1>1, <1>2, <1>4, <1>5, <1>6 DEF Orderly

-----------------------------------------------------------------------------
(* The inductive invariant. *)

Periods == ResetPeriods \cup {InitialPeriod[x] : x \in Timer}

\* The list is orderly and holds the active timers; no period is too long.
ListKept ==
    /\ Orderly(active_timers, tm.expiry_tick, k.tick)
    /\ Range(active_timers) = {x \in Timer : tm.is_active[x]}
    /\ \A x \in Timer : tm.period_ticks[x] \in Periods

\* Where the threads are: the service alone takes, and blocks nowhere else; a
\* plan starts from a gap of 0 and is for a near deadline, if for any.
PlacesKept ==
    /\ \A t \in Task : InTake(t) => t = Svc /\ at[Svc] = "scan"
    /\ Asleep => InTake(Svc)
    /\ \A t \in Task : at[t] = "restart" => target[t] \in Timer
    /\ at[Svc] = "plan" => gap = 0
    /\ wait_ticks \in {NO_WAIT, WAIT_FOREVER} \/ wait_ticks + MaxLag < Half

\* How far the front timer is ahead.
FrontAhead == Ahead(tm.expiry_tick[Head(active_timers)], k.tick)

\* A plan that nothing upsets ends in time.
SleepPlanned ==
    at[Svc] = "take" /\ count = 0 /\ active_timers # << >> /\ ~ GiveComing =>
        /\ wait_ticks # WAIT_FOREVER
        /\ wait_ticks # NO_WAIT => wait_ticks + MaxLag <= FrontAhead + gap

\* So does a sleep that nothing disturbs.
SleepTimed ==
    Asleep /\ active_timers # << >> /\ ~ GiveComing =>
        /\ Svc \in Range(k.delayed)
        /\ Ahead(k.wake_tick[Svc], k.tick) <= FrontAhead + gap

\* The service's deadline is ahead, and near.
WakeNear ==
    Svc \in Range(k.delayed) => Ahead(k.wake_tick[Svc], k.tick) \in MaxLag + 1 .. Half - 1

TimerInv ==
    /\ SemInv /\ TimerTypeOK
    /\ ListKept /\ PlacesKept
    /\ SleepPlanned /\ SleepTimed /\ WakeNear

\* What the invariant says of the kernel and of the timers.
LEMMA TimerFacts ==
    ASSUME TimerInv
    PROVE  /\ k \in Kernel /\ ListedStates(k) /\ pc \in [Task -> PcLabel]
           /\ k.tick \in TickCount /\ k.wake_tick \in [Task -> TickCount]
           /\ k.state \in [Task -> TaskState]
           /\ Svc \in Task /\ Clients \cup {Svc} \subseteq Task
           /\ active_timers \in Seq(Timer) /\ Range(active_timers) \subseteq Timer
           /\ tm \in [period_ticks : [Timer -> TickCount],
                      expiry_tick : [Timer -> TickCount], is_active : [Timer -> BOOLEAN]]
           /\ tm.period_ticks \in [Timer -> TickCount]
           /\ tm.expiry_tick \in [Timer -> TickCount]
           /\ tm.is_active \in [Timer -> BOOLEAN]
           /\ at \in [Task -> {"plan", "take", "scan", "callback", "free", "restart", "give"}]
           /\ target \in [Task -> Timer \cup {NULL}]
           /\ wait_ticks \in TickCount /\ gap \in 0 .. MaxGap /\ gap \in Nat
<1>1. k \in Kernel /\ ListedStates(k) /\ pc \in [Task -> PcLabel]
  BY SemFacts DEF TimerInv
<1>2. k.tick \in TickCount /\ k.wake_tick \in [Task -> TickCount] /\ k.state \in [Task -> TaskState]
  BY <1>1 DEF Kernel
<1>3. Svc \in Task /\ Clients \cup {Svc} \subseteq Task
  BY TimerAssumption DEF Svc
<1>4. /\ active_timers \in Seq(Timer)
      /\ tm \in [period_ticks : [Timer -> TickCount],
                 expiry_tick : [Timer -> TickCount], is_active : [Timer -> BOOLEAN]]
      /\ at \in [Task -> {"plan", "take", "scan", "callback", "free", "restart", "give"}]
      /\ target \in [Task -> Timer \cup {NULL}]
      /\ wait_ticks \in TickCount /\ gap \in 0 .. MaxGap
  BY DEF TimerInv, TimerTypeOK
<1>5. Range(active_timers) \subseteq Timer
  BY <1>4, EmptyRange
<1>6. /\ tm.period_ticks \in [Timer -> TickCount] /\ tm.expiry_tick \in [Timer -> TickCount]
      /\ tm.is_active \in [Timer -> BOOLEAN]
  BY <1>4
<1>7. gap \in Nat
  BY <1>4, TimerAssumption
<1> QED
  BY <1>1, <1>2, <1>3, <1>4, <1>5, <1>6, <1>7

\* A period is positive and short.
LEMMA PeriodRange ==
    ASSUME NEW p \in Periods
    PROVE  p \in TickCount /\ p > 0 /\ MaxLag + p < Half
<1>1. p \in TickCount
  BY TimerAssumption DEF Periods
<1>2. p > 0 /\ p + MaxLag < TickMod \div 2
  BY SpanAssumption DEF Periods
<1>3. p \in Int /\ MaxLag \in Int
  BY <1>1, TimerAssumption DEF TickCount
<1> QED
  BY <1>1, <1>2, <1>3 DEF Half

\* Whoever calls the kernel is awake and in no take.
LEMMA CallerAwake ==
    ASSUME TimerInv, NEW t \in Task, Calls(t)
    PROVE  ~ InTake(t) /\ k.state[t] # "BLOCKED"
BY DEF TimerInv, SemInv, TaskInv, RunsRunning, Calls, InTake

\* The front timer, seen from now.
LEMMA FrontFacts ==
    ASSUME TimerInv, active_timers # << >>
    PROVE  /\ Head(active_timers) \in Range(active_timers) /\ Head(active_timers) \in Timer
           /\ FrontAhead \in 0 .. Half - 1
           /\ \A x \in Range(active_timers) :
                 /\ FrontAhead <= Ahead(tm.expiry_tick[x], k.tick)
                 /\ Ahead(tm.expiry_tick[x], k.tick) \in 0 .. Half - 1
           /\ Signed(tm.expiry_tick[Head(active_timers)], k.tick) = FrontAhead - MaxLag
           /\ Signed(k.tick, tm.expiry_tick[Head(active_timers)]) = MaxLag - FrontAhead
           /\ Overdue <=> FrontAhead <= MaxLag
<1> DEFINE h == Head(active_timers)
           e == tm.expiry_tick[h]
<1>1. k.tick \in TickCount /\ tm.expiry_tick \in [Timer -> TickCount]
  BY TimerFacts
<1>2. /\ h \in Range(active_timers) /\ h \in Timer
      /\ \A x \in Range(active_timers) : /\ FrontAhead <= Ahead(tm.expiry_tick[x], k.tick)
                                         /\ Ahead(tm.expiry_tick[x], k.tick) \in 0 .. Half - 1
  BY <1>1, FrontSoonest DEF TimerInv, ListKept, FrontAhead
<1>3. FrontAhead \in 0 .. Half - 1 /\ FrontAhead = Ahead(e, k.tick)
  BY <1>2 DEF FrontAhead
<1>4. e \in TickCount /\ Ahead(k.tick, k.tick) = MaxLag /\ MaxLag \in 1 .. Half - 1 /\ Half \in Nat
  BY <1>1, <1>2, AheadNow, HalfRange
<1>5. Ahead(e, k.tick) < Half /\ Ahead(k.tick, k.tick) < Half
  BY <1>3, <1>4
<1>6. Signed(e, k.tick) = FrontAhead - MaxLag /\ Signed(k.tick, e) = MaxLag - FrontAhead
  BY <1>1, <1>3, <1>4, <1>5, SignedAhead
<1>7. Overdue <=> Signed(e, k.tick) <= 0
  BY DEF Overdue
<1>8. Overdue <=> FrontAhead <= MaxLag
  BY <1>3, <1>4, <1>6, <1>7
<1> HIDE DEF e
<1> QED
  BY <1>2, <1>3, <1>6, <1>8 DEF e

-----------------------------------------------------------------------------
(* The service. *)

\* A step that leaves kernel and semaphore alone keeps their invariant.
LEMMA SemUntouched ==
    ASSUME SemInv, UNCHANGED <<k, pc, count, got>>
    PROVE  SemInv' /\ SemTypeOK'
<1>1. UNCHANGED tvars /\ UNCHANGED <<count, got>>
  BY DEF tvars
<1>2. SemInv'
  BY <1>1, KernelSteps
<1> QED
  BY <1>2 DEF SemInv, SemTypeOK, TaskInv, Inv

\* A step of the service that leaves kernel and semaphore alone.
LEMMA ServiceMoves ==
    ASSUME TimerInv, Calls(Svc), UNCHANGED <<k, pc, count, got>>, UNCHANGED target,
           NEW place \in {"plan", "take", "scan", "callback"},
           at' = [at EXCEPT ![Svc] = place],
           place = "plan" => gap' = 0,
           active_timers' \in Seq(Timer),
           tm' \in [period_ticks : [Timer -> TickCount],
                    expiry_tick : [Timer -> TickCount], is_active : [Timer -> BOOLEAN]],
           wait_ticks' \in TickCount, gap' \in 0 .. MaxGap,
           wait_ticks' \in {NO_WAIT, WAIT_FOREVER} \/ wait_ticks' + MaxLag < Half,
           ListKept', SleepPlanned'
    PROVE  TimerInv'
<1>1. k' = k /\ pc' = pc /\ target' = target
  OBVIOUS
<1>2. /\ at \in [Task -> {"plan", "take", "scan", "callback", "free", "restart", "give"}]
      /\ Svc \in Task
  BY TimerFacts
<1>3. ~ InTake(Svc) /\ k.state[Svc] # "BLOCKED"
  BY <1>2, CallerAwake
<1>4. SemInv' /\ SemTypeOK'
  BY SemUntouched DEF TimerInv
<1>5. at' \in [Task -> {"plan", "take", "scan", "callback", "free", "restart", "give"}]
      /\ at'[Svc] = place /\ \A t \in Task \ {Svc} : at'[t] = at[t]
  BY <1>2
<1>6. TimerTypeOK'
  BY <1>1, <1>4, <1>5 DEF TimerInv, TimerTypeOK
<1>7. \A t \in Task : ~ InTake(t)
  BY <1>3 DEF TimerInv, PlacesKept
<1>8. (\A t \in Task : ~ InTake(t)') /\ ~ Asleep'
  BY <1>1, <1>3, <1>7 DEF InTake, Asleep
<1>9. \A t \in Task : at'[t] = "restart" => target'[t] \in Timer
  BY <1>1, <1>5 DEF TimerInv, PlacesKept
<1>10. PlacesKept'
  BY <1>5, <1>8, <1>9 DEF PlacesKept
<1>11. SleepTimed' /\ WakeNear'
  BY <1>1, <1>8 DEF SleepTimed, TimerInv, WakeNear
<1> QED
  BY <1>4, <1>6, <1>10, <1>11 DEF TimerInv

\* The plan.
LEMMA PlanKeeps == ASSUME TimerInv, service_plan PROVE TimerInv'
<1>1. /\ Calls(Svc) /\ at[Svc] = "plan" /\ at' = [at EXCEPT ![Svc] = "take"]
      /\ wait_ticks' = IF active_timers = << >> THEN WAIT_FOREVER
                       ELSE IF Overdue THEN NO_WAIT
                       ELSE Signed(tm.expiry_tick[Head(active_timers)], k.tick)
      /\ UNCHANGED <<k, pc, count, got>> /\ target' = target
      /\ active_timers' = active_timers /\ tm' = tm /\ gap' = gap /\ k' = k
  BY DEF service_plan
<1>2. /\ active_timers \in Seq(Timer) /\ gap \in 0 .. MaxGap /\ gap \in Nat
      /\ tm \in [period_ticks : [Timer -> TickCount],
                 expiry_tick : [Timer -> TickCount], is_active : [Timer -> BOOLEAN]]
  BY TimerFacts
<1>3. /\ Half \in Nat /\ TickMod = 2 * Half /\ MaxLag \in 1 .. Half - 1 /\ Half >= 2
      /\ NO_WAIT = 0 /\ WAIT_FOREVER = TickMod - 1
  BY HalfRange DEF NO_WAIT, WAIT_FOREVER
<1> HIDE DEF Half
<1>4. active_timers # << >> => FrontAhead \in 0 .. Half - 1
  BY FrontFacts
<1>5. \/ active_timers = << >> /\ wait_ticks' = WAIT_FOREVER
      \/ active_timers # << >> /\ wait_ticks' = NO_WAIT
      \/ /\ active_timers # << >> /\ wait_ticks' = FrontAhead - MaxLag
         /\ FrontAhead > MaxLag
  <2>1. CASE active_timers = << >>
    BY <1>1, <2>1
  <2>2. CASE active_timers # << >> /\ Overdue
    BY <1>1, <2>2
  <2>3. CASE active_timers # << >> /\ ~ Overdue
    <3>1. /\ Signed(tm.expiry_tick[Head(active_timers)], k.tick) = FrontAhead - MaxLag
          /\ ~ (FrontAhead <= MaxLag)
      BY <2>3, FrontFacts
    <3> QED
      BY <1>1, <1>3, <1>4, <2>3, <3>1
  <2> QED
    BY <2>1, <2>2, <2>3
<1>6. wait_ticks' \in TickCount
  BY <1>3, <1>4, <1>5 DEF TickCount
<1>7. wait_ticks' \in {NO_WAIT, WAIT_FOREVER} \/ wait_ticks' + MaxLag < Half
  BY <1>3, <1>4, <1>5
<1>8. ListKept'
  BY <1>1 DEF TimerInv, ListKept
<1>9. FrontAhead' = FrontAhead
  BY <1>1 DEF FrontAhead
<1>10. active_timers # << >> => /\ wait_ticks' # WAIT_FOREVER
                                /\ wait_ticks' # NO_WAIT => wait_ticks' + MaxLag <= FrontAhead + gap
  BY <1>2, <1>3, <1>4, <1>5
<1>11. SleepPlanned'
  BY <1>1, <1>9, <1>10 DEF SleepPlanned
<1> QED
  BY <1>1, <1>2, <1>6, <1>7, <1>8, <1>11, ServiceMoves DEF Half

\* The next deadline of a periodic timer that has expired is near again.
LEMMA NextExpiry ==
    ASSUME TimerInv, active_timers # << >>, Overdue
    PROVE  /\ next_expiry(Head(active_timers)) \in TickCount
           /\ Ahead(next_expiry(Head(active_timers)), k.tick) < Half
<1> DEFINE h == Head(active_timers)
           e == tm.expiry_tick[h]
           p == tm.period_ticks[h]
           n == (e + p) % TickMod
           f == (k.tick + p) % TickMod
<1>1. /\ h \in Timer /\ FrontAhead \in 0 .. Half - 1 /\ FrontAhead <= MaxLag
      /\ FrontAhead = Ahead(e, k.tick)
  BY FrontFacts DEF FrontAhead
<1>2. k.tick \in TickCount /\ e \in TickCount /\ p \in TickCount
  BY <1>1, TimerFacts
<1>3. p \in Periods
  BY <1>1 DEF TimerInv, ListKept
<1>4. p > 0 /\ MaxLag + p < Half /\ p \in Nat
  BY <1>2, <1>3, PeriodRange, TickAssumption DEF TickCount
<1>5. MaxLag \in Nat /\ Half \in Nat
  BY HalfRange
<1>6. next_expiry(h) \in {n, f}
  BY DEF next_expiry
<1> HIDE DEF e, p, Half, h
<1>7. Ahead(e, k.tick) + p < Half /\ Ahead(k.tick, k.tick) + p < Half
  <2>1. Ahead(k.tick, k.tick) = MaxLag
    BY <1>2, AheadNow
  <2>2. FrontAhead \in Nat /\ FrontAhead + p < Half
    BY <1>1, <1>4, <1>5
  <2> QED
    BY <1>1, <1>4, <1>5, <2>1, <2>2
<1>8. n \in TickCount /\ Ahead(n, k.tick) = Ahead(e, k.tick) + p
  BY <1>2, <1>7, AheadAdd
<1>9. f \in TickCount /\ Ahead(f, k.tick) = Ahead(k.tick, k.tick) + p
  BY <1>2, <1>7, AheadAdd
<1> HIDE DEF n, f
<1> QED
  BY <1>6, <1>7, <1>8, <1>9 DEF h

\* The fields that deactivate sets.
LEMMA DeactivateFields ==
    ASSUME tm \in [period_ticks : [Timer -> TickCount],
                   expiry_tick : [Timer -> TickCount], is_active : [Timer -> BOOLEAN]],
           NEW x \in Timer, NEW m, m = deactivate(x)
    PROVE  /\ m.expiry_tick = [tm.expiry_tick EXCEPT ![x] = 0]
           /\ m.is_active = [tm.is_active EXCEPT ![x] = FALSE]
           /\ m.period_ticks = tm.period_ticks
           /\ m.expiry_tick \in [Timer -> TickCount]
           /\ m \in [period_ticks : [Timer -> TickCount],
                     expiry_tick : [Timer -> TickCount], is_active : [Timer -> BOOLEAN]]
<1>1. m = [tm EXCEPT !.is_active = [tm.is_active EXCEPT ![x] = FALSE],
                     !.expiry_tick = [tm.expiry_tick EXCEPT ![x] = 0]]
  BY DEF deactivate
<1>2. /\ tm.is_active \in [Timer -> BOOLEAN] /\ tm.expiry_tick \in [Timer -> TickCount]
      /\ 0 \in TickCount
  BY TickAssumption DEF TickCount
<1>3. /\ [tm.is_active EXCEPT ![x] = FALSE] \in [Timer -> BOOLEAN]
      /\ [tm.expiry_tick EXCEPT ![x] = 0] \in [Timer -> TickCount]
  BY <1>2
<1> QED
  BY <1>1, <1>3

\* A round of the expiry loop.
LEMMA ScanKeeps == ASSUME TimerInv, service_scan PROVE TimerInv'
<1> DEFINE h == Head(active_timers)
           e == [tm.expiry_tick EXCEPT ![h] = next_expiry(h)]
<1>1. /\ Calls(Svc) /\ at[Svc] = "scan" /\ gap' = 0
      /\ UNCHANGED <<k, pc, count, got>> /\ target' = target /\ wait_ticks' = wait_ticks
      /\ k' = k
  BY DEF service_scan
<1>2. /\ active_timers \in Seq(Timer) /\ gap' \in 0 .. MaxGap /\ k.tick \in TickCount
      /\ tm \in [period_ticks : [Timer -> TickCount],
                 expiry_tick : [Timer -> TickCount], is_active : [Timer -> BOOLEAN]]
      /\ tm.expiry_tick \in [Timer -> TickCount] /\ tm.is_active \in [Timer -> BOOLEAN]
      /\ tm.period_ticks \in [Timer -> TickCount]
      /\ wait_ticks \in TickCount /\ Svc \in Task
      /\ at \in [Task -> {"plan", "take", "scan", "callback", "free", "restart", "give"}]
  BY <1>1, TimerFacts, TimerAssumption
<1>3. wait_ticks' \in {NO_WAIT, WAIT_FOREVER} \/ wait_ticks' + MaxLag < Half
  BY <1>1 DEF TimerInv, PlacesKept
<1>4. CASE ~Overdue
  <2>1. at' = [at EXCEPT ![Svc] = "plan"] /\ active_timers' = active_timers /\ tm' = tm
    BY <1>4 DEF service_scan
  <2>2. ListKept'
    BY <1>1, <2>1 DEF TimerInv, ListKept
  <2>3. SleepPlanned'
    BY <1>2, <2>1 DEF SleepPlanned
  <2> QED
    BY <1>1, <1>2, <1>3, <2>1, <2>2, <2>3, ServiceMoves
<1>5. CASE Overdue
  <2>1. /\ active_timers # << >> /\ at' = [at EXCEPT ![Svc] = "callback"]
        /\ \/ /\ h \in Periodic /\ tm' = [tm EXCEPT !.expiry_tick = e]
              /\ active_timers' = insert_sorted_by_expiry(Tail(active_timers), e, h)
           \/ /\ h \notin Periodic /\ tm' = deactivate(h)
              /\ active_timers' = Tail(active_timers)
    BY <1>5 DEF service_scan, Overdue
  <2>2. h \in Timer /\ h \in Range(active_timers)
    BY <2>1, FrontFacts
  <2>3. /\ Orderly(active_timers, tm.expiry_tick, k.tick)
        /\ Range(active_timers) = {x \in Timer : tm.is_active[x]}
        /\ \A x \in Timer : tm.period_ticks[x] \in Periods
    BY DEF TimerInv, ListKept
  <2>4. /\ Orderly(Tail(active_timers), tm.expiry_tick, k.tick)
        /\ Range(Tail(active_timers)) = Range(active_timers) \ {h}
    BY <1>2, <2>1, <2>3, TailOrderly
  <2>5. next_expiry(h) \in TickCount /\ Ahead(next_expiry(h), k.tick) < Half
    BY <1>5, <2>1, NextExpiry
  <2> HIDE DEF h
  <2>6. SleepPlanned'
    BY <1>2, <2>1 DEF SleepPlanned
  <2>7. CASE h \in Periodic
    <3>1. /\ tm' = [tm EXCEPT !.expiry_tick = e]
          /\ active_timers' = insert_sorted_by_expiry(Tail(active_timers), e, h)
      BY <2>1, <2>7
    <3>2. e \in [Timer -> TickCount] /\ e[h] = next_expiry(h)
          /\ \A x \in Range(Tail(active_timers)) : e[x] = tm.expiry_tick[x]
      BY <1>2, <2>2, <2>4, <2>5
    <3> HIDE DEF e
    <3>3. Orderly(Tail(active_timers), e, k.tick)
      BY <1>2, <2>4, <3>2, OrderlyElsewhere
    <3>4. h \in Timer \ Range(Tail(active_timers)) /\ Ahead(e[h], k.tick) < Half
      BY <2>2, <2>4, <2>5, <3>2
    <3>5. /\ Orderly(active_timers', e, k.tick)
          /\ Range(active_timers') = Range(Tail(active_timers)) \cup {h}
      BY <1>2, <3>1, <3>2, <3>3, <3>4, InsertOrderly
    <3>6. /\ tm'.expiry_tick = e /\ tm'.is_active = tm.is_active
          /\ tm'.period_ticks = tm.period_ticks
          /\ tm' \in [period_ticks : [Timer -> TickCount],
                      expiry_tick : [Timer -> TickCount], is_active : [Timer -> BOOLEAN]]
      BY <1>2, <3>1, <3>2
    <3>7. Range(active_timers') = Range(active_timers)
      BY <2>2, <2>4, <3>5
    <3>8. ListKept'
      BY <1>1, <2>3, <3>5, <3>6, <3>7 DEF ListKept
    <3>9. active_timers' \in Seq(Timer)
      BY <3>5 DEF Orderly
    <3> QED
      BY <1>1, <1>2, <1>3, <2>1, <2>6, <3>6, <3>8, <3>9, ServiceMoves
  <2>8. CASE h \notin Periodic
    <3> DEFINE f == [tm.expiry_tick EXCEPT ![h] = 0]
               b == [tm.is_active EXCEPT ![h] = FALSE]
    <3>1. tm' = deactivate(h) /\ active_timers' = Tail(active_timers)
      BY <2>1, <2>8
    <3>2. /\ tm'.expiry_tick = f /\ tm'.is_active = b /\ tm'.period_ticks = tm.period_ticks
          /\ f \in [Timer -> TickCount]
          /\ tm' \in [period_ticks : [Timer -> TickCount],
                      expiry_tick : [Timer -> TickCount], is_active : [Timer -> BOOLEAN]]
      BY <1>2, <2>2, <3>1, DeactivateFields
    <3>3. \A x \in Range(Tail(active_timers)) : f[x] = tm.expiry_tick[x]
      BY <1>2, <2>3, <2>4
    <3>4. {x \in Timer : b[x]} = {x \in Timer : tm.is_active[x]} \ {h}
      BY <1>2, <2>2
    <3> HIDE DEF f, b
    <3>5. Orderly(active_timers', f, k.tick)
      BY <1>2, <2>4, <3>1, <3>2, <3>3, OrderlyElsewhere
    <3>6. ListKept'
      <4>1. Range(active_timers') = {x \in Timer : b[x]}
        BY <2>3, <2>4, <3>1, <3>4
      <4> QED
        BY <1>1, <2>3, <3>2, <3>5, <4>1 DEF ListKept
    <3>7. active_timers' \in Seq(Timer)
      BY <3>5 DEF Orderly
    <3> QED
      BY <1>1, <1>2, <1>3, <2>1, <2>6, <3>2, <3>6, <3>7, ServiceMoves
  <2> QED
    BY <2>7, <2>8
<1> QED
  BY <1>4, <1>5

\* The return of a callback.
LEMMA CallbackKeeps == ASSUME TimerInv, callback_returns PROVE TimerInv'
<1>1. /\ Calls(Svc) /\ at' = [at EXCEPT ![Svc] = "scan"]
      /\ UNCHANGED <<k, pc, count, got>> /\ target' = target /\ wait_ticks' = wait_ticks
      /\ active_timers' = active_timers /\ tm' = tm /\ gap' = gap /\ k' = k
  BY DEF callback_returns
<1>2. /\ active_timers \in Seq(Timer) /\ gap \in 0 .. MaxGap
      /\ tm \in [period_ticks : [Timer -> TickCount],
                 expiry_tick : [Timer -> TickCount], is_active : [Timer -> BOOLEAN]]
      /\ wait_ticks \in TickCount /\ Svc \in Task
      /\ at \in [Task -> {"plan", "take", "scan", "callback", "free", "restart", "give"}]
  BY TimerFacts
<1>3. wait_ticks \in {NO_WAIT, WAIT_FOREVER} \/ wait_ticks + MaxLag < Half
  BY DEF TimerInv, PlacesKept
<1>4. ListKept'
  BY <1>1 DEF TimerInv, ListKept
<1>5. SleepPlanned'
  BY <1>1, <1>2 DEF SleepPlanned
<1> QED
  BY <1>1, <1>2, <1>3, <1>4, <1>5, ServiceMoves

-----------------------------------------------------------------------------
(* The API. *)

\* A step of the API, not a give, that upsets no plan of the service unless it is
\* about to give.
LEMMA ApiMoves ==
    ASSUME TimerInv, NEW t \in Clients \cup {Svc}, Calls(t), UNCHANGED <<k, pc, count, got>>,
           wait_ticks' = wait_ticks, gap' = gap,
           NEW place \in {"callback", "free", "restart", "give"},
           at' = [at EXCEPT ![t] = place], at[t] # "give",
           target' \in [Task -> Timer \cup {NULL}],
           \A x \in Task \ {t} : target'[x] = target[x],
           place = "restart" => target'[t] \in Timer,
           active_timers' \in Seq(Timer),
           tm' \in [period_ticks : [Timer -> TickCount],
                    expiry_tick : [Timer -> TickCount], is_active : [Timer -> BOOLEAN]],
           ListKept',
           \/ place = "give" \/ active_timers' = << >>
           \/ active_timers # << >> /\ FrontAhead <= FrontAhead'
    PROVE  TimerInv'
<1>1. k' = k /\ pc' = pc /\ count' = count
  OBVIOUS
<1>2. /\ at \in [Task -> {"plan", "take", "scan", "callback", "free", "restart", "give"}]
      /\ Svc \in Task /\ t \in Task /\ k.tick \in TickCount /\ gap \in Nat
      /\ wait_ticks \in TickCount
  BY TimerFacts
<1>3. ~ InTake(t)
  BY <1>2, CallerAwake
<1>4. SemInv' /\ SemTypeOK'
  BY SemUntouched DEF TimerInv
<1>5. at' \in [Task -> {"plan", "take", "scan", "callback", "free", "restart", "give"}]
      /\ at'[t] = place /\ \A x \in Task \ {t} : at'[x] = at[x]
  BY <1>2
<1>6. TimerTypeOK'
  BY <1>1, <1>4, <1>5 DEF TimerInv, TimerTypeOK
<1>7. PlacesKept'
  <2>1. \A x \in Task : InTake(x)' => x = Svc /\ at'[Svc] = "scan"
    BY <1>1, <1>2, <1>3, <1>5 DEF TimerInv, PlacesKept, InTake
  <2>2. Asleep' => InTake(Svc)'
    BY <1>1 DEF TimerInv, PlacesKept, InTake, Asleep
  <2>3. \A x \in Task : at'[x] = "restart" => target'[x] \in Timer
    BY <1>5 DEF TimerInv, PlacesKept
  <2>4. at'[Svc] = "plan" => gap' = 0
    BY <1>2, <1>5 DEF TimerInv, PlacesKept
  <2> QED
    BY <2>1, <2>2, <2>3, <2>4 DEF TimerInv, PlacesKept
<1>8. GiveComing => GiveComing'
  BY <1>5 DEF GiveComing
<1>9. place = "give" => GiveComing'
  BY <1>2, <1>5 DEF GiveComing
<1>10. active_timers' # << >> /\ ~ GiveComing' =>
          /\ active_timers # << >> /\ ~ GiveComing /\ FrontAhead <= FrontAhead'
          /\ FrontAhead \in Int /\ FrontAhead' \in Int
  <2> SUFFICES ASSUME active_timers' # << >>, ~ GiveComing'
               PROVE  /\ active_timers # << >> /\ ~ GiveComing /\ FrontAhead <= FrontAhead'
                      /\ FrontAhead \in Int /\ FrontAhead' \in Int
    OBVIOUS
  <2>1. active_timers # << >> /\ ~ GiveComing /\ FrontAhead <= FrontAhead'
    BY <1>8, <1>9
  <2>2. FrontAhead \in Int
    BY <2>1, FrontFacts, HalfRange
  <2>3. FrontAhead' \in Int
    <3>1. /\ tm'.expiry_tick \in [Timer -> TickCount]
          /\ Orderly(active_timers', tm'.expiry_tick, k.tick)
      BY <1>1 DEF ListKept
    <3>2. Ahead(tm'.expiry_tick[Head(active_timers')], k.tick) \in 0 .. Half - 1
      BY <1>2, <3>1, FrontSoonest
    <3> QED
      BY <1>1, <3>2, HalfRange DEF FrontAhead
  <2> QED
    BY <2>1, <2>2, <2>3
<1>11. at'[Svc] = "take" => at[Svc] = "take"
  BY <1>2, <1>5
<1>12. SleepPlanned'
  <2> SUFFICES ASSUME at'[Svc] = "take", count' = 0, active_timers' # << >>, ~ GiveComing'
               PROVE  /\ wait_ticks' # WAIT_FOREVER
                      /\ wait_ticks' # NO_WAIT => wait_ticks' + MaxLag <= FrontAhead' + gap'
    BY DEF SleepPlanned
  <2>1. /\ wait_ticks # WAIT_FOREVER
        /\ wait_ticks # NO_WAIT => wait_ticks + MaxLag <= FrontAhead + gap
    BY <1>1, <1>10, <1>11 DEF TimerInv, SleepPlanned
  <2>2. MaxLag \in Nat /\ wait_ticks \in Int
    BY <1>2, TimerAssumption DEF TickCount
  <2> QED
    BY <1>2, <1>10, <2>1, <2>2
<1>13. SleepTimed'
  <2> SUFFICES ASSUME Asleep', active_timers' # << >>, ~ GiveComing'
               PROVE  /\ Svc \in Range(k'.delayed)
                      /\ Ahead(k'.wake_tick[Svc], k'.tick) <= FrontAhead' + gap'
    BY DEF SleepTimed
  <2>1. /\ Svc \in Range(k.delayed)
        /\ Ahead(k.wake_tick[Svc], k.tick) <= FrontAhead + gap
    BY <1>1, <1>10 DEF TimerInv, SleepTimed, Asleep
  <2>2. Ahead(k.wake_tick[Svc], k.tick) \in Int
    BY <2>1, HalfRange DEF TimerInv, WakeNear
  <2> QED
    BY <1>1, <1>2, <1>10, <2>1, <2>2
<1>14. WakeNear'
  BY <1>1 DEF TimerInv, WakeNear
<1> QED
  BY <1>4, <1>6, <1>7, <1>12, <1>13, <1>14 DEF TimerInv

\* The critical section of a start: the list holds the timer, orderly, and if the
\* timer is not the front one, the front one is no sooner than before.
LEMMA StartList ==
    ASSUME TimerInv, NEW t \in Clients \cup {Svc}, NEW x \in Timer, start(t, x), k' = k
    PROVE  /\ ListKept' /\ active_timers' \in Seq(Timer)
           /\ tm' \in [period_ticks : [Timer -> TickCount],
                       expiry_tick : [Timer -> TickCount], is_active : [Timer -> BOOLEAN]]
           /\ \E place \in {Home(t), "give"} :
                 /\ at' = [at EXCEPT ![t] = place]
                 /\ place # "give" => active_timers # << >> /\ FrontAhead <= FrontAhead'
<1> DEFINE p == tm.period_ticks[x]
           rest == IF tm.is_active[x] THEN Keep(active_timers, Timer \ {x}) ELSE active_timers
           e == [tm.expiry_tick EXCEPT ![x] = (k.tick + p) % TickMod]
           list == insert_sorted_by_expiry(rest, e, x)
           place == IF Head(list) = x THEN "give" ELSE Home(t)
<1>1. /\ tm' = [tm EXCEPT !.expiry_tick = e, !.is_active[x] = TRUE]
      /\ active_timers' = list /\ at' = [at EXCEPT ![t] = place]
  BY DEF start
<1>2. /\ k.tick \in TickCount
      /\ tm \in [period_ticks : [Timer -> TickCount],
                 expiry_tick : [Timer -> TickCount], is_active : [Timer -> BOOLEAN]]
      /\ tm.expiry_tick \in [Timer -> TickCount] /\ tm.is_active \in [Timer -> BOOLEAN]
      /\ tm.period_ticks \in [Timer -> TickCount]
      /\ Range(active_timers) \subseteq Timer
  BY TimerFacts
<1>3. /\ Orderly(active_timers, tm.expiry_tick, k.tick)
      /\ Range(active_timers) = {y \in Timer : tm.is_active[y]}
      /\ \A y \in Timer : tm.period_ticks[y] \in Periods
  BY DEF TimerInv, ListKept
<1>4. p \in TickCount /\ MaxLag + p < Half
  BY <1>3, PeriodRange
<1> HIDE DEF p
<1>5. /\ (k.tick + p) % TickMod \in TickCount
      /\ Ahead((k.tick + p) % TickMod, k.tick) = MaxLag + p
  <2>1. Ahead(k.tick, k.tick) = MaxLag
    BY <1>2, AheadNow
  <2>2. Ahead(k.tick, k.tick) + p < Half
    BY <1>4, <2>1
  <2> QED
    BY <1>2, <1>4, <2>1, <2>2, AheadAdd
<1>6. Orderly(rest, tm.expiry_tick, k.tick) /\ Range(rest) = Range(active_timers) \ {x}
  <2>1. CASE tm.is_active[x]
    BY <1>2, <1>3, <2>1, KeepOrderly
  <2>2. CASE ~ tm.is_active[x]
    BY <1>3, <2>2
  <2> QED
    BY <2>1, <2>2
<1> HIDE DEF rest
<1>7. e \in [Timer -> TickCount] /\ e[x] = (k.tick + p) % TickMod
      /\ \A y \in Range(rest) : e[y] = tm.expiry_tick[y]
  BY <1>2, <1>5, <1>6
<1> HIDE DEF e
<1>8. Orderly(rest, e, k.tick)
  BY <1>2, <1>6, <1>7, OrderlyElsewhere
<1>9. x \in Timer \ Range(rest) /\ Ahead(e[x], k.tick) < Half
  BY <1>4, <1>5, <1>6, <1>7
<1>10. /\ Orderly(list, e, k.tick) /\ Range(list) = Range(rest) \cup {x} /\ list # << >>
       /\ Head(list) # x => rest # << >> /\ Head(list) = Head(rest)
  BY <1>2, <1>7, <1>8, <1>9, InsertOrderly
<1> HIDE DEF list
<1>11. /\ tm'.expiry_tick = e /\ tm'.is_active = [tm.is_active EXCEPT ![x] = TRUE]
       /\ tm'.period_ticks = tm.period_ticks
       /\ tm' \in [period_ticks : [Timer -> TickCount],
                   expiry_tick : [Timer -> TickCount], is_active : [Timer -> BOOLEAN]]
  <2>1. tm' = [tm EXCEPT !.expiry_tick = e, !.is_active = [tm.is_active EXCEPT ![x] = TRUE]]
    BY <1>1
  <2>2. [tm.is_active EXCEPT ![x] = TRUE] \in [Timer -> BOOLEAN]
    BY <1>2
  <2> QED
    BY <1>2, <1>7, <2>1, <2>2
<1>12. {y \in Timer : tm'.is_active[y]} = {y \in Timer : tm.is_active[y]} \cup {x}
  BY <1>2, <1>11
<1>13. Range(active_timers') = {y \in Timer : tm'.is_active[y]}
  BY <1>1, <1>3, <1>6, <1>10, <1>12
<1>14. ListKept' /\ active_timers' \in Seq(Timer)
  BY <1>1, <1>3, <1>10, <1>11, <1>13 DEF ListKept, Orderly
<1>15. place # "give" => active_timers # << >> /\ FrontAhead <= FrontAhead'
  <2> SUFFICES ASSUME Head(list) # x
               PROVE  active_timers # << >> /\ FrontAhead <= FrontAhead'
    OBVIOUS
  <2>1. Head(list) = Head(rest) /\ Head(list) \in Range(rest)
    BY <1>2, <1>6, <1>10, FrontSoonest
  <2>2. Head(list) \in Range(active_timers)
    BY <1>6, <2>1
  <2>3. active_timers # << >>
    BY <1>3, <2>2, EmptyRange DEF Orderly
  <2>4. FrontAhead <= Ahead(tm.expiry_tick[Head(list)], k.tick)
    BY <2>2, <2>3, FrontFacts
  <2>5. FrontAhead' = Ahead(tm.expiry_tick[Head(list)], k.tick)
    BY <1>1, <1>7, <1>11, <2>1 DEF FrontAhead
  <2> QED
    BY <2>3, <2>4, <2>5
<1>16. place \in {Home(t), "give"}
  OBVIOUS
<1> QED
  BY <1>1, <1>11, <1>14, <1>15, <1>16

\* nimble_timer_start.
LEMMA StartKeeps ==
    ASSUME TimerInv, NEW t \in Clients \cup {Svc}, NEW x \in Timer, timer_start(t, x)
    PROVE  TimerInv'
<1>1. /\ Calls(t) /\ at[t] = Home(t) /\ start(t, x) /\ k' = k
      /\ UNCHANGED <<k, pc, count, got>> /\ target' = target
      /\ wait_ticks' = wait_ticks /\ gap' = gap
  BY DEF timer_start, CallsTimer
<1>2. Home(t) \in {"callback", "free"} /\ target \in [Task -> Timer \cup {NULL}]
  BY TimerFacts DEF Home
<1>3. /\ ListKept' /\ active_timers' \in Seq(Timer)
      /\ tm' \in [period_ticks : [Timer -> TickCount],
                  expiry_tick : [Timer -> TickCount], is_active : [Timer -> BOOLEAN]]
      /\ \E place \in {Home(t), "give"} :
            /\ at' = [at EXCEPT ![t] = place]
            /\ place # "give" => active_timers # << >> /\ FrontAhead <= FrontAhead'
  BY <1>1, StartList
<1>4. PICK place \in {Home(t), "give"} :
            /\ at' = [at EXCEPT ![t] = place]
            /\ place # "give" => active_timers # << >> /\ FrontAhead <= FrontAhead'
  BY <1>3
<1>5. place \in {"callback", "free", "restart", "give"} /\ place # "restart"
  BY <1>2
<1> QED
  BY <1>1, <1>2, <1>3, <1>4, <1>5, ApiMoves

\* The start that ends nimble_timer_reset.
LEMMA RestartKeeps ==
    ASSUME TimerInv, NEW t \in Clients \cup {Svc}, timer_restart(t)
    PROVE  TimerInv'
<1>1. /\ Calls(t) /\ at[t] = "restart" /\ start(t, target[t]) /\ k' = k
      /\ UNCHANGED <<k, pc, count, got>> /\ target' = [target EXCEPT ![t] = NULL]
      /\ wait_ticks' = wait_ticks /\ gap' = gap
  BY DEF timer_restart
<1>2. /\ Home(t) \in {"callback", "free"} /\ target \in [Task -> Timer \cup {NULL}]
      /\ t \in Task
  BY TimerFacts DEF Home
<1>3. target[t] \in Timer
  BY <1>1, <1>2 DEF TimerInv, PlacesKept
<1>4. /\ ListKept' /\ active_timers' \in Seq(Timer)
      /\ tm' \in [period_ticks : [Timer -> TickCount],
                  expiry_tick : [Timer -> TickCount], is_active : [Timer -> BOOLEAN]]
      /\ \E place \in {Home(t), "give"} :
            /\ at' = [at EXCEPT ![t] = place]
            /\ place # "give" => active_timers # << >> /\ FrontAhead <= FrontAhead'
  BY <1>1, <1>3, StartList
<1>5. PICK place \in {Home(t), "give"} :
            /\ at' = [at EXCEPT ![t] = place]
            /\ place # "give" => active_timers # << >> /\ FrontAhead <= FrontAhead'
  BY <1>4
<1>6. place \in {"callback", "free", "restart", "give"} /\ place # "restart"
  BY <1>2
<1>7. target' \in [Task -> Timer \cup {NULL}] /\ \A y \in Task \ {t} : target'[y] = target[y]
  BY <1>1, <1>2
<1> QED
  BY <1>1, <1>4, <1>5, <1>6, <1>7, ApiMoves

\* nimble_timer_stop.
LEMMA StopKeeps ==
    ASSUME TimerInv, NEW t \in Clients \cup {Svc}, NEW x \in Timer, timer_stop(t, x)
    PROVE  TimerInv'
<1> DEFINE f == [tm.expiry_tick EXCEPT ![x] = 0]
           b == [tm.is_active EXCEPT ![x] = FALSE]
           list == Keep(active_timers, Timer \ {x})
<1>1. /\ Calls(t) /\ at[t] = Home(t) /\ k' = k /\ tm' = deactivate(x)
      /\ active_timers' = list
      /\ UNCHANGED <<k, pc, count, got>> /\ target' = target /\ at' = at
      /\ wait_ticks' = wait_ticks /\ gap' = gap
  BY DEF timer_stop, CallsTimer
<1>2. /\ k.tick \in TickCount /\ t \in Task
      /\ tm \in [period_ticks : [Timer -> TickCount],
                 expiry_tick : [Timer -> TickCount], is_active : [Timer -> BOOLEAN]]
      /\ tm.expiry_tick \in [Timer -> TickCount] /\ tm.is_active \in [Timer -> BOOLEAN]
      /\ target \in [Task -> Timer \cup {NULL}]
      /\ at \in [Task -> {"plan", "take", "scan", "callback", "free", "restart", "give"}]
      /\ Home(t) \in {"callback", "free"}
  BY TimerFacts DEF Home
<1>3. /\ Orderly(active_timers, tm.expiry_tick, k.tick)
      /\ Range(active_timers) = {y \in Timer : tm.is_active[y]}
      /\ \A y \in Timer : tm.period_ticks[y] \in Periods
  BY DEF TimerInv, ListKept
<1>4. Orderly(list, tm.expiry_tick, k.tick) /\ Range(list) = Range(active_timers) \ {x}
  BY <1>2, <1>3, KeepOrderly
<1>5. /\ tm'.expiry_tick = f /\ tm'.is_active = b /\ tm'.period_ticks = tm.period_ticks
      /\ f \in [Timer -> TickCount]
      /\ tm' \in [period_ticks : [Timer -> TickCount],
                  expiry_tick : [Timer -> TickCount], is_active : [Timer -> BOOLEAN]]
  BY <1>1, <1>2, DeactivateFields
<1> HIDE DEF list
<1>6. \A y \in Range(list) : y \in Timer /\ f[y] = tm.expiry_tick[y]
  BY <1>2, <1>3, <1>4
<1>7. {y \in Timer : b[y]} = {y \in Timer : tm.is_active[y]} \ {x}
  BY <1>2
<1> HIDE DEF f, b
<1>8. Orderly(list, f, k.tick)
  BY <1>2, <1>4, <1>5, <1>6, OrderlyElsewhere
<1>9. ListKept' /\ active_timers' \in Seq(Timer)
  <2>1. Range(active_timers') = {y \in Timer : b[y]}
    BY <1>1, <1>3, <1>4, <1>7
  <2> QED
    BY <1>1, <1>3, <1>5, <1>8, <2>1 DEF ListKept, Orderly
<1>10. active_timers' # << >> => active_timers # << >> /\ FrontAhead <= FrontAhead'
  <2> SUFFICES ASSUME list # << >>
               PROVE  active_timers # << >> /\ FrontAhead <= FrontAhead'
    BY <1>1
  <2>1. Head(list) \in Range(list)
    BY <1>2, <1>4, FrontSoonest
  <2>2. Head(list) \in Range(active_timers)
    BY <1>4, <2>1
  <2>3. active_timers # << >>
    BY <1>3, <2>2, EmptyRange DEF Orderly
  <2>4. FrontAhead <= Ahead(tm.expiry_tick[Head(list)], k.tick)
    BY <2>2, <2>3, FrontFacts
  <2>5. FrontAhead' = Ahead(tm.expiry_tick[Head(list)], k.tick)
    BY <1>1, <1>5, <1>6, <2>1 DEF FrontAhead
  <2> QED
    BY <2>3, <2>4, <2>5
<1>11. at' = [at EXCEPT ![t] = Home(t)]
  BY <1>1, <1>2
<1>12. Home(t) \in {"callback", "free", "restart", "give"} /\ Home(t) # "restart" /\ at[t] # "give"
  BY <1>1, <1>2
<1> QED
  BY <1>1, <1>2, <1>5, <1>9, <1>10, <1>11, <1>12, ApiMoves

\* The first critical section of nimble_timer_reset.
LEMMA ResetKeeps ==
    ASSUME TimerInv, NEW t \in Clients \cup {Svc}, NEW x \in Timer, NEW p \in ResetPeriods,
           timer_reset(t, x, p)
    PROVE  TimerInv'
<1>1. /\ Calls(t) /\ at[t] = Home(t) /\ k' = k
      /\ tm' = [tm EXCEPT !.period_ticks = [tm.period_ticks EXCEPT ![x] = p]]
      /\ active_timers' = active_timers
      /\ UNCHANGED <<k, pc, count, got>> /\ target' = [target EXCEPT ![t] = x]
      /\ at' = [at EXCEPT ![t] = "restart"]
      /\ wait_ticks' = wait_ticks /\ gap' = gap
  BY DEF timer_reset, CallsTimer
<1>2. /\ k.tick \in TickCount /\ t \in Task /\ active_timers \in Seq(Timer)
      /\ tm \in [period_ticks : [Timer -> TickCount],
                 expiry_tick : [Timer -> TickCount], is_active : [Timer -> BOOLEAN]]
      /\ tm.period_ticks \in [Timer -> TickCount]
      /\ target \in [Task -> Timer \cup {NULL}]
      /\ Home(t) \in {"callback", "free"}
  BY TimerFacts DEF Home
<1>3. p \in Periods /\ p \in TickCount
  BY PeriodRange DEF Periods
<1>4. [tm.period_ticks EXCEPT ![x] = p] \in [Timer -> TickCount]
  BY <1>2, <1>3
<1>5. /\ tm'.period_ticks = [tm.period_ticks EXCEPT ![x] = p]
      /\ tm'.expiry_tick = tm.expiry_tick /\ tm'.is_active = tm.is_active
      /\ tm' \in [period_ticks : [Timer -> TickCount],
                  expiry_tick : [Timer -> TickCount], is_active : [Timer -> BOOLEAN]]
  BY <1>1, <1>2, <1>4
<1>6. \A y \in Timer : tm'.period_ticks[y] \in Periods
  BY <1>2, <1>3, <1>5 DEF TimerInv, ListKept
<1>7. ListKept'
  BY <1>1, <1>5, <1>6 DEF TimerInv, ListKept
<1>8. FrontAhead' = FrontAhead
  BY <1>1, <1>5 DEF FrontAhead
<1>9. active_timers # << >> => FrontAhead <= FrontAhead'
  BY <1>8, FrontFacts, HalfRange
<1>10. /\ target' \in [Task -> Timer \cup {NULL}] /\ target'[t] \in Timer
       /\ \A y \in Task \ {t} : target'[y] = target[y]
  BY <1>1, <1>2
<1>11. "restart" \in {"callback", "free", "restart", "give"} /\ at[t] # "give"
  BY <1>1, <1>2
<1> QED
  BY <1>1, <1>2, <1>5, <1>7, <1>9, <1>10, <1>11, ApiMoves

-----------------------------------------------------------------------------
(* The semaphore between them. *)

\* The service takes: it does not sleep longer than it planned.
LEMMA ServiceTakeKeeps == ASSUME TimerInv, service_take PROVE TimerInv'
<1>1. /\ at[Svc] = "take" /\ semaphore_take(Svc, wait_ticks) /\ Calls(Svc)
      /\ at' = [at EXCEPT ![Svc] = "scan"] /\ wait_ticks' = 0
      /\ active_timers' = active_timers /\ tm' = tm /\ target' = target /\ gap' = gap
  BY DEF service_take, semaphore_take
<1>2. /\ k \in Kernel /\ pc \in [Task -> PcLabel] /\ k.tick \in TickCount
      /\ k.wake_tick \in [Task -> TickCount] /\ k.state \in [Task -> TaskState]
      /\ at \in [Task -> {"plan", "take", "scan", "callback", "free", "restart", "give"}]
      /\ Svc \in Task /\ wait_ticks \in TickCount /\ gap \in Nat
  BY TimerFacts
<1>3. SemInv' /\ SemTypeOK'
  <2>1. SemInv'
    BY <1>1, <1>2, TakeKeeps DEF TimerInv
  <2> QED
    BY <2>1 DEF SemInv, SemTypeOK, TaskInv, Inv
<1>4. at' \in [Task -> {"plan", "take", "scan", "callback", "free", "restart", "give"}]
      /\ at'[Svc] = "scan" /\ \A x \in Task \ {Svc} : at'[x] = at[x]
  BY <1>1, <1>2
<1>5. TimerTypeOK'
  BY <1>1, <1>3, <1>4, TickAssumption DEF TimerInv, TimerTypeOK, TickCount
<1>6. ~ InTake(Svc) /\ k.state[Svc] # "BLOCKED"
  BY <1>1, <1>2, CallerAwake
<1>7. \A x \in Task : ~ InTake(x)
  BY <1>6 DEF TimerInv, PlacesKept
<1>8. \A x \in Task : at'[x] = "restart" => target'[x] \in Timer
  BY <1>1, <1>4 DEF TimerInv, PlacesKept
<1>9. GiveComing' <=> GiveComing
  BY <1>1, <1>2, <1>4 DEF GiveComing
<1>10. SleepPlanned'
  BY <1>4 DEF SleepPlanned
<1>11. wait_ticks' \in {NO_WAIT, WAIT_FOREVER}
  BY <1>1 DEF NO_WAIT
<1>12. CASE UNCHANGED <<k, pc>>
  <2>1. k' = k /\ pc' = pc
    BY <1>12
  <2>2. (\A x \in Task : ~ InTake(x)') /\ ~ Asleep'
    BY <1>6, <1>7, <2>1 DEF InTake, Asleep
  <2>3. PlacesKept'
    BY <1>4, <1>8, <1>11, <2>2 DEF PlacesKept
  <2>4. ListKept' /\ SleepTimed' /\ WakeNear'
    BY <1>1, <2>1, <2>2 DEF TimerInv, ListKept, SleepTimed, WakeNear
  <2> QED
    BY <1>3, <1>5, <1>10, <2>3, <2>4 DEF TimerInv
<1>13. CASE /\ count = 0 /\ wait_ticks # NO_WAIT /\ k' = block(k, sem, Svc, wait_ticks)
            /\ pc' = [pc EXCEPT ![Svc] = "block"]
  <2>1. BlockEffect(k, sem, Svc, wait_ticks, k')
    BY <1>2, <1>13, BlockFields, SemAssumption
  <2>2. /\ k'.state = [k.state EXCEPT ![Svc] = "BLOCKED"] /\ k'.tick = k.tick
        /\ Svc \in Range(k'.delayed) <=> wait_ticks # WAIT_FOREVER
        /\ wait_ticks # WAIT_FOREVER =>
              k'.wake_tick = [k.wake_tick EXCEPT ![Svc] = (k.tick + wait_ticks) % TickMod]
    BY <2>1 DEF BlockEffect, SameTask
  <2>3. \A x \in Task : InTake(x)' <=> x = Svc
    BY <1>2, <1>7, <1>13 DEF InTake
  <2>4. PlacesKept'
    BY <1>2, <1>4, <1>8, <1>11, <2>3 DEF PlacesKept
  <2>5. ListKept'
    BY <1>1, <2>2 DEF TimerInv, ListKept
  <2>6. /\ Half \in Nat /\ TickMod = 2 * Half /\ MaxLag \in 1 .. Half - 1
        /\ NO_WAIT = 0
    BY HalfRange DEF NO_WAIT
  <2> HIDE DEF Half
  <2>7. wait_ticks # WAIT_FOREVER => wait_ticks \in 1 .. Half /\ wait_ticks + MaxLag < Half
    BY <1>2, <1>13, <2>6 DEF TimerInv, PlacesKept, TickCount
  <2>8. wait_ticks # WAIT_FOREVER =>
            Ahead(k'.wake_tick[Svc], k'.tick) = MaxLag + wait_ticks
    <3> SUFFICES ASSUME wait_ticks # WAIT_FOREVER
                 PROVE  Ahead(k'.wake_tick[Svc], k'.tick) = MaxLag + wait_ticks
      OBVIOUS
    <3>1. k'.wake_tick[Svc] = (k.tick + wait_ticks) % TickMod /\ k'.tick = k.tick
      BY <1>2, <2>2
    <3>2. Ahead(k.tick, k.tick) = MaxLag
      BY <1>2, AheadNow
    <3>3. Ahead(k.tick, k.tick) + wait_ticks < Half
      BY <2>6, <2>7, <3>2
    <3>4. Ahead((k.tick + wait_ticks) % TickMod, k.tick) = MaxLag + wait_ticks
      BY <1>2, <3>2, <3>3, AheadAdd
    <3> QED
      BY <3>1, <3>4
  <2>9. WakeNear'
    BY <2>2, <2>6, <2>7, <2>8 DEF WakeNear
  <2>10. FrontAhead' = FrontAhead
    BY <1>1, <2>2 DEF FrontAhead
  <2>11. active_timers # << >> /\ ~ GiveComing =>
             /\ wait_ticks # WAIT_FOREVER
             /\ wait_ticks + MaxLag <= FrontAhead + gap
    BY <1>1, <1>13 DEF TimerInv, SleepPlanned
  <2>12. SleepTimed'
    <3> SUFFICES ASSUME active_timers # << >>, ~ GiveComing
                 PROVE  /\ Svc \in Range(k'.delayed)
                        /\ Ahead(k'.wake_tick[Svc], k'.tick) <= FrontAhead' + gap'
      BY <1>1, <1>9 DEF SleepTimed
    <3>1. FrontAhead \in 0 .. Half - 1
      BY FrontFacts
    <3> QED
      BY <1>1, <1>2, <2>2, <2>6, <2>7, <2>8, <2>10, <2>11, <3>1
  <2> QED
    BY <1>3, <1>5, <1>10, <2>4, <2>5, <2>9, <2>12 DEF TimerInv
<1> QED
  BY <1>1, <1>12, <1>13 DEF semaphore_take, block

\* The service returns from its sleep.
LEMMA ResumedKeeps == ASSUME TimerInv, service_resumed PROVE TimerInv'
<1>1. /\ semaphore_take_resumed(Svc) /\ Executes(Svc) /\ pc[Svc] = "wake"
      /\ k' = UnlinkEvent(k, Svc) /\ pc' = [pc EXCEPT ![Svc] = "app"] /\ count' = count
      /\ active_timers' = active_timers /\ tm' = tm /\ at' = at /\ target' = target
      /\ wait_ticks' = wait_ticks /\ gap' = gap
  BY DEF service_resumed, semaphore_take_resumed, timerState
<1>2. pc \in [Task -> PcLabel] /\ Svc \in Task /\ k \in Kernel
  BY TimerFacts
<1>3. SemInv' /\ SemTypeOK'
  <2>1. SemInv'
    BY <1>1, <1>2, TakeReturns DEF TimerInv
  <2> QED
    BY <2>1 DEF SemInv, SemTypeOK, TaskInv, Inv
<1>4. UnlinkEventEffect(k, Svc, k') /\ k.state[Svc] = "RUNNING"
  BY <1>1, <1>2, CallReturns DEF TimerInv, SemInv
<1>5. /\ k'.tick = k.tick /\ k'.state = k.state /\ k'.delayed = k.delayed
      /\ k'.wake_tick = k.wake_tick
  BY <1>4 DEF UnlinkEventEffect, SameTask
<1>6. TimerTypeOK'
  BY <1>1, <1>3 DEF TimerInv, TimerTypeOK
<1>7. ~ Asleep'
  BY <1>4, <1>5 DEF Asleep
<1>8. \A x \in Task : ~ InTake(x)'
  BY <1>1, <1>2 DEF TimerInv, PlacesKept, InTake
<1>9. PlacesKept'
  BY <1>1, <1>7, <1>8 DEF TimerInv, PlacesKept
<1>10. ListKept' /\ WakeNear'
  BY <1>1, <1>5 DEF TimerInv, ListKept, WakeNear
<1>11. at[Svc] = "scan"
  BY <1>1, <1>2 DEF TimerInv, PlacesKept, InTake
<1>12. SleepPlanned' /\ SleepTimed'
  BY <1>1, <1>7, <1>11 DEF SleepPlanned, SleepTimed
<1> QED
  BY <1>3, <1>6, <1>9, <1>10, <1>12 DEF TimerInv

\* A give leaves the service awake, or with a unit to take.
LEMMA TimerGiveKeeps ==
    ASSUME TimerInv, NEW t \in Clients \cup {Svc}, timer_give(t)
    PROVE  TimerInv'
<1>1. /\ at[t] = "give" /\ semaphore_give(t) /\ Calls(t) /\ k' = wake_waiter(k, sem)
      /\ give_unit /\ at' = [at EXCEPT ![t] = Home(t)]
      /\ active_timers' = active_timers /\ tm' = tm /\ target' = target
      /\ wait_ticks' = wait_ticks /\ gap' = gap
      /\ pc' = IF k.waiters[sem] # << >> THEN [pc EXCEPT ![t] = "switch"] ELSE pc
  BY DEF timer_give, semaphore_give
<1>2. /\ k \in Kernel /\ pc \in [Task -> PcLabel] /\ k.state \in [Task -> TaskState]
      /\ at \in [Task -> {"plan", "take", "scan", "callback", "free", "restart", "give"}]
      /\ Svc \in Task /\ t \in Task /\ Home(t) \in {"callback", "free"}
  BY TimerFacts DEF Home
<1>3. SemInv' /\ SemTypeOK'
  <2>1. SemInv'
    BY <1>1, <1>2, GiveKeeps DEF TimerInv
  <2> QED
    BY <2>1 DEF SemInv, SemTypeOK, TaskInv, Inv
<1>4. at' \in [Task -> {"plan", "take", "scan", "callback", "free", "restart", "give"}]
      /\ at'[t] = Home(t) /\ \A x \in Task \ {t} : at'[x] = at[x]
  BY <1>1, <1>2
<1>5. TimerTypeOK'
  BY <1>1, <1>3, <1>4 DEF TimerInv, TimerTypeOK
<1>6. /\ \A x \in Task : at'[x] = "restart" => target'[x] \in Timer
      /\ at'[Svc] = "plan" => gap' = 0
      /\ at'[Svc] \in {"plan", "take", "scan"} => t # Svc /\ at'[Svc] = at[Svc]
  BY <1>1, <1>2, <1>4 DEF TimerInv, PlacesKept
<1>7. ~ InTake(t)
  BY <1>1, <1>2, CallerAwake
<1>8. \A x \in Task : x \in Waiting => x = Svc
  BY DEF TimerInv, PlacesKept, SemInv, WaitersInTake
<1>9. k.waiters[sem] = << >> <=> Waiting = {}
  BY SemFacts DEF TimerInv
<1>10. Waiting \subseteq Task /\ sem \in WaitList
  BY SemFacts DEF TimerInv
<1>11. CASE k.waiters[sem] = << >>
  <2>1. k' = k /\ pc' = pc
    BY <1>1, <1>11 DEF wake_waiter
  <2>2. count' # 0
    BY <1>1, <1>11, TimerAssumption DEF give_unit, TimerInv, SemInv
  <2>3. Svc \notin Waiting
    BY <1>9, <1>11
  <2>4. ~ Asleep
    BY <1>2, <2>3 DEF TimerInv, PlacesKept, SemInv, BlockedInTakeWait, Asleep
  <2>5. ~ Asleep' /\ \A x \in Task : InTake(x)' <=> InTake(x)
    BY <2>1, <2>4 DEF Asleep, InTake
  <2>6. \A x \in Task : InTake(x)' => x = Svc /\ at'[Svc] = "scan"
    BY <1>4, <1>7, <2>5 DEF TimerInv, PlacesKept
  <2>7. PlacesKept'
    BY <1>1, <1>6, <2>5, <2>6 DEF TimerInv, PlacesKept
  <2>8. ListKept' /\ WakeNear'
    BY <1>1, <2>1 DEF TimerInv, ListKept, WakeNear
  <2>9. SleepPlanned' /\ SleepTimed'
    BY <2>2, <2>5 DEF SleepPlanned, SleepTimed
  <2> QED
    BY <1>3, <1>5, <2>7, <2>8, <2>9 DEF TimerInv
<1>12. CASE k.waiters[sem] # << >>
  <2>1. WokenEffect(sem, Head(k.waiters[sem]))
    <3>1. WakeStep(sem)
      BY <1>1, <1>2, <1>12 DEF WakeStep
    <3> QED
      BY <1>10, <1>12, <3>1, CallWakes DEF TimerInv, SemInv
  <2>2. Head(k.waiters[sem]) = Svc /\ Svc \in Waiting
    BY <1>8, <2>1 DEF WokenEffect, Waiting
  <2>3. /\ k'.state = [k.state EXCEPT ![Svc] = "READY"] /\ k'.tick = k.tick
        /\ \A x \in Task : InTake(x)' <=> InTake(x)
    BY <2>1, <2>2 DEF WokenEffect, InTake
  <2>4. ~ Asleep' /\ k'.state[Svc] = "READY"
    BY <1>2, <2>3 DEF Asleep
  <2>5. InTake(Svc) /\ at[Svc] = "scan"
    BY <1>2, <2>2 DEF TimerInv, SemInv, WaitersInTake, PlacesKept
  <2>6. at'[Svc] = "scan"
    BY <1>2, <1>4, <1>7, <2>5
  <2>7. PlacesKept'
    BY <1>1, <1>6, <2>3, <2>4, <2>6 DEF TimerInv, PlacesKept
  <2>8. Svc \notin Range(k'.delayed)
    <3>1. KernelInv(k')
      BY <1>3 DEF SemInv, TaskInv, Inv, ListsConsistent
    <3>2. ListedStates(k')
      BY <3>1, ConsistentListedStates
    <3> QED
      BY <2>4, <3>2 DEF ListedStates
  <2>9. ListKept' /\ WakeNear'
    BY <1>1, <2>3, <2>8 DEF TimerInv, ListKept, WakeNear
  <2>10. SleepPlanned' /\ SleepTimed'
    BY <2>4, <2>6 DEF SleepPlanned, SleepTimed
  <2> QED
    BY <1>3, <1>5, <2>7, <2>9, <2>10 DEF TimerInv
<1> QED
  BY <1>11, <1>12

-----------------------------------------------------------------------------
(* Ticks, and what other tasks do. *)

\* A tick brings the deadlines of the timers and of the service nearer alike.
LEMMA TickStepKeeps == ASSUME TimerInv, Tick PROVE TimerInv'
<1> DEFINE D == DueSet(k)
           next == (k.tick + 1) % TickMod
<1>1. /\ Overdue => Signed(k.tick, tm.expiry_tick[Head(active_timers)]) < MaxLag
      /\ at[Svc] = "take" => gap < MaxGap
      /\ SysTick_Handler /\ k' = scheduler_tick(k) /\ pc' = pc
      /\ gap' = IF at[Svc] = "take" THEN gap + 1 ELSE gap
      /\ UNCHANGED <<count, got>> /\ active_timers' = active_timers /\ tm' = tm /\ at' = at
      /\ target' = target /\ wait_ticks' = wait_ticks /\ count' = count
  BY DEF Tick, SysTick_Handler
<1>2. /\ k \in Kernel /\ k.tick \in TickCount /\ k.wake_tick \in [Task -> TickCount]
      /\ tm.expiry_tick \in [Timer -> TickCount]
      /\ wait_ticks \in TickCount /\ gap \in 0 .. MaxGap /\ gap \in Nat /\ Svc \in Task
  BY TimerFacts
<1>3. SemInv' /\ SemTypeOK'
  <2>1. TaskNext
    BY <1>1 DEF TaskNext, PortStep
  <2>2. SemInv'
    BY <1>1, <2>1, KernelSteps DEF TimerInv
  <2> QED
    BY <2>2 DEF SemInv, SemTypeOK, TaskInv, Inv
<1>4. TickEffect(k, D, k')
  BY <1>1, <1>2, TickFields
<1>5. \A t \in Range(k.delayed) : t \in D <=> Due(next, k.wake_tick[t])
  BY DEF DueSet
<1> HIDE DEF D
<1>6. /\ Range(k'.delayed) = Range(k.delayed) \ D /\ k'.tick = next
      /\ \A t \in Task : /\ k'.state[t] = IF t \in D THEN "READY" ELSE k.state[t]
                         /\ k'.wake_tick[t] = IF t \in D THEN 0 ELSE k.wake_tick[t]
  BY <1>4 DEF TickEffect
<1>7. /\ Half \in Nat /\ TickMod = 2 * Half /\ MaxLag \in 1 .. Half - 1 /\ MaxGap \in Nat
  BY HalfRange, TimerAssumption
<1>8. active_timers # << >> => FrontAhead \in 1 .. Half - 1
  <2> SUFFICES ASSUME active_timers # << >> PROVE FrontAhead \in 1 .. Half - 1
    OBVIOUS
  <2>1. /\ FrontAhead \in 0 .. Half - 1
        /\ Signed(k.tick, tm.expiry_tick[Head(active_timers)]) = MaxLag - FrontAhead
        /\ Overdue <=> FrontAhead <= MaxLag
    BY FrontFacts
  <2> HIDE DEF Half
  <2> QED
    BY <1>1, <1>7, <2>1
<1>9. /\ Orderly(active_timers, tm.expiry_tick, next)
      /\ \A x \in Range(active_timers) :
            Ahead(tm.expiry_tick[x], next) = Ahead(tm.expiry_tick[x], k.tick) - 1
  <2>1. active_timers # << >> => Ahead(tm.expiry_tick[Head(active_timers)], k.tick) > 0
    BY <1>7, <1>8 DEF FrontAhead
  <2> QED
    BY <1>2, <2>1, TickOrderly DEF TimerInv, ListKept
<1>10. active_timers # << >> => FrontAhead' = FrontAhead - 1
  BY <1>1, <1>6, <1>9, FrontFacts DEF FrontAhead
<1>11. ListKept'
  BY <1>1, <1>6, <1>9 DEF TimerInv, ListKept
<1>12. gap' \in 0 .. MaxGap
  BY <1>1, <1>2, <1>7
<1>13. TimerTypeOK'
  BY <1>1, <1>3, <1>12 DEF TimerInv, TimerTypeOK
<1>14. Asleep' => Asleep /\ Svc \notin D
  BY <1>2, <1>6 DEF Asleep
<1>15. PlacesKept'
  <2>1. (\A t \in Task : InTake(t)' <=> InTake(t)) /\ (at[Svc] = "plan" => gap' = gap)
    BY <1>1 DEF InTake
  <2> QED
    BY <1>1, <1>2, <1>14, <2>1 DEF TimerInv, PlacesKept
<1>16. Svc \in Range(k.delayed) /\ Svc \notin D =>
          /\ k'.wake_tick[Svc] = k.wake_tick[Svc]
          /\ Ahead(k'.wake_tick[Svc], next) = Ahead(k.wake_tick[Svc], k.tick) - 1
          /\ Ahead(k'.wake_tick[Svc], next) \in MaxLag + 1 .. Half - 1
          /\ Ahead(k.wake_tick[Svc], k.tick) \in MaxLag + 1 .. Half - 1
  <2> SUFFICES ASSUME Svc \in Range(k.delayed), Svc \notin D
               PROVE  /\ k'.wake_tick[Svc] = k.wake_tick[Svc]
                      /\ Ahead(k'.wake_tick[Svc], next) = Ahead(k.wake_tick[Svc], k.tick) - 1
                      /\ Ahead(k'.wake_tick[Svc], next) \in MaxLag + 1 .. Half - 1
                      /\ Ahead(k.wake_tick[Svc], k.tick) \in MaxLag + 1 .. Half - 1
    OBVIOUS
  <2>1. /\ k'.wake_tick[Svc] = k.wake_tick[Svc] /\ k.wake_tick[Svc] \in TickCount
        /\ Ahead(k.wake_tick[Svc], k.tick) \in MaxLag + 1 .. Half - 1
        /\ ~ Due(next, k.wake_tick[Svc])
    BY <1>2, <1>5, <1>6 DEF TimerInv, WakeNear
  <2>2. Ahead(k.wake_tick[Svc], k.tick) # 0
    BY <1>7, <2>1
  <2>3. Ahead(k.wake_tick[Svc], next) = Ahead(k.wake_tick[Svc], k.tick) - 1
    BY <1>2, <2>1, <2>2, AheadTick
  <2>4. Ahead(k.wake_tick[Svc], next) \in MaxLag + 1 .. Half - 1
    BY <1>2, <2>1, NotDueAhead
  <2> QED
    BY <2>1, <2>3, <2>4
<1> HIDE DEF next, Half
<1>17. WakeNear'
  BY <1>6, <1>16 DEF WakeNear
<1>18. SleepPlanned'
  <2> SUFFICES ASSUME at[Svc] = "take", count = 0, active_timers # << >>, ~ GiveComing
               PROVE  /\ wait_ticks # WAIT_FOREVER
                      /\ wait_ticks # NO_WAIT => wait_ticks + MaxLag <= FrontAhead' + gap'
    BY <1>1 DEF SleepPlanned, GiveComing
  <2>1. /\ wait_ticks # WAIT_FOREVER
        /\ wait_ticks # NO_WAIT => wait_ticks + MaxLag <= FrontAhead + gap
    BY DEF TimerInv, SleepPlanned
  <2>2. FrontAhead' + gap' = FrontAhead + gap
    BY <1>1, <1>2, <1>7, <1>8, <1>10
  <2> QED
    BY <2>1, <2>2
<1>19. SleepTimed'
  <2> SUFFICES ASSUME Asleep', active_timers # << >>, ~ GiveComing
               PROVE  /\ Svc \in Range(k'.delayed)
                      /\ Ahead(k'.wake_tick[Svc], k'.tick) <= FrontAhead' + gap'
    BY <1>1 DEF SleepTimed, GiveComing
  <2>1. /\ Svc \in Range(k.delayed) /\ Svc \notin D
        /\ Ahead(k.wake_tick[Svc], k.tick) <= FrontAhead + gap
    BY <1>14 DEF TimerInv, SleepTimed
  <2>2. gap' = gap
    BY <1>1, <1>2, <1>14 DEF TimerInv, PlacesKept
  <2> QED
    BY <1>2, <1>6, <1>7, <1>8, <1>10, <1>16, <2>1, <2>2
<1> QED
  BY <1>3, <1>11, <1>13, <1>15, <1>17, <1>18, <1>19 DEF TimerInv

\* A kernel step other than a tick, in which the service does not go to sleep.
LEMMA QuietKeeps ==
    ASSUME TimerInv, SemInv', TaskStepEffect, QuietStep,
           ~ (pc[Svc] = "app" /\ pc'[Svc] = "switch"),
           count' = count, UNCHANGED timerState
    PROVE  TimerInv'
<1>1. /\ active_timers' = active_timers /\ tm' = tm /\ at' = at /\ target' = target
      /\ wait_ticks' = wait_ticks /\ gap' = gap
  BY DEF timerState
<1>2. Svc \in Task
  BY TimerFacts
<1>3. /\ ListedStates(k') /\ k'.tick = k.tick
      /\ \A x \in Task : InTake(x)' <=> InTake(x)
      /\ Asleep' <=> Asleep
      /\ Range(k.delayed) \subseteq Range(k'.delayed)
  BY <1>2 DEF TaskStepEffect, QuietStep, InTake, Asleep
<1>4. Svc \in Range(k'.delayed) =>
          Svc \in Range(k.delayed) /\ k'.wake_tick[Svc] = k.wake_tick[Svc]
  <2> SUFFICES ASSUME Svc \in Range(k'.delayed)
               PROVE  Svc \in Range(k.delayed) /\ k'.wake_tick[Svc] = k.wake_tick[Svc]
    OBVIOUS
  <2>1. Asleep
    BY <1>3 DEF ListedStates, Asleep
  <2>2. pc[Svc] # "app"
    BY <2>1 DEF TimerInv, PlacesKept, InTake
  <2> QED
    BY <2>2 DEF QuietStep
<1>5. TimerTypeOK'
  <2>1. SemTypeOK'
    BY DEF SemInv, SemTypeOK, TaskInv, Inv
  <2> QED
    BY <1>1, <2>1 DEF TimerInv, TimerTypeOK
<1>6. ListKept'
  BY <1>1, <1>3 DEF TimerInv, ListKept
<1>7. PlacesKept'
  BY <1>1, <1>2, <1>3 DEF TimerInv, PlacesKept
<1>8. FrontAhead' = FrontAhead /\ (GiveComing' <=> GiveComing)
  BY <1>1, <1>3 DEF FrontAhead, GiveComing
<1>9. SleepPlanned'
  BY <1>1, <1>8 DEF TimerInv, SleepPlanned
<1>10. SleepTimed'
  <2> SUFFICES ASSUME Asleep', active_timers # << >>, ~ GiveComing
               PROVE  /\ Svc \in Range(k'.delayed)
                      /\ Ahead(k'.wake_tick[Svc], k'.tick) <= FrontAhead' + gap'
    BY <1>1, <1>8 DEF SleepTimed
  <2>1. /\ Svc \in Range(k.delayed)
        /\ Ahead(k.wake_tick[Svc], k.tick) <= FrontAhead + gap
    BY <1>3 DEF TimerInv, SleepTimed
  <2>2. Svc \in Range(k'.delayed)
    BY <1>3, <2>1
  <2> QED
    BY <1>1, <1>3, <1>4, <1>8, <2>1, <2>2
<1>11. WakeNear'
  BY <1>3, <1>4 DEF TimerInv, WakeNear
<1> QED
  BY <1>5, <1>6, <1>7, <1>9, <1>10, <1>11 DEF TimerInv

\* Boot, switches, requests for a switch, and clients that delay themselves.
LEMMA OtherKeeps == ASSUME TimerInv, OtherStep PROVE TimerInv'
<1>1. /\ UNCHANGED <<count, got>> /\ UNCHANGED timerState /\ count' = count
      /\ \/ BootStep \/ PendSV_Handler
         \/ \E t \in Task : RequestSwitch(t)
         \/ \E t \in Clients, n \in DelayArgs : task_delay(t, n)
  BY DEF OtherStep
<1>2. /\ k \in Kernel /\ ListedStates(k) /\ pc \in [Task -> PcLabel] /\ TypeOK
      /\ Clients \subseteq Task /\ Svc \in Task /\ Svc \notin Clients
  BY TimerFacts, TimerAssumption DEF TypeOK, Svc
<1>3. SemInv'
  <2>1. TaskNext
    BY <1>1, <1>2 DEF TaskNext, PortStep, TaskStep
  <2> QED
    BY <1>1, <2>1, KernelSteps DEF TimerInv
<1>4. ASSUME NEW c \in Task, main_create(c) PROVE TimerInv'
  <2>1. TaskStepEffect /\ QuietStep /\ pc' = pc
    BY <1>2, <1>4, AddReadyQuiet DEF main_create, create
  <2> QED
    BY <1>1, <1>3, <2>1, QuietKeeps
<1>5. CASE scheduler_start
  <2>1. k' = select_next(k) /\ pc' = pc
    BY <1>5 DEF scheduler_start
  <2>2. k = [k EXCEPT !.pendsv = k.pendsv] /\ k.pendsv \in BOOLEAN
    BY <1>2 DEF Kernel
  <2>3. TaskStepEffect /\ QuietStep
    BY <1>2, <2>1, <2>2, SelectQuiet
  <2> QED
    BY <1>1, <1>3, <2>1, <2>3, QuietKeeps
<1>6. CASE PendSV_Handler
  <2>1. TaskStepEffect /\ QuietStep /\ pc' = pc
    BY <1>2, <1>6, SelectQuiet DEF PendSV_Handler, switch_context
  <2> QED
    BY <1>1, <1>3, <2>1, QuietKeeps
<1>7. ASSUME NEW t \in Task, RequestSwitch(t) PROVE TimerInv'
  <2>1. /\ pc' \in [Task -> PcLabel]
        /\ \A x \in Task : pc'[x] \in {"block", "wake"} <=> pc[x] \in {"block", "wake"}
        /\ ~ (pc[Svc] = "app" /\ pc'[Svc] = "switch")
    BY <1>2, <1>7 DEF RequestSwitch, PcLabel
  <2>2. TaskStepEffect /\ QuietStep
    BY <1>2, <1>7, <2>1, RequestQuiet DEF RequestSwitch
  <2> QED
    BY <1>1, <1>3, <2>1, <2>2, QuietKeeps
<1>8. ASSUME NEW t \in Clients, NEW n \in DelayArgs, task_delay(t, n) PROVE TimerInv'
  <2>1. TaskStepEffect /\ QuietStep
    BY <1>2, <1>8, DelayQuiet
  <2>2. pc'[Svc] = pc[Svc]
    BY <1>2, <1>8 DEF task_delay
  <2> QED
    BY <1>1, <1>3, <2>1, <2>2, QuietKeeps
<1> QED
  BY <1>1, <1>4, <1>5, <1>6, <1>7, <1>8 DEF BootStep

-----------------------------------------------------------------------------
(* The theorems. *)

\* Every step keeps the invariant.
LEMMA TimerNextKeeps == TimerInv /\ [TimerNext]_timerVars => TimerInv'
<1> SUFFICES ASSUME TimerInv, [TimerNext]_timerVars PROVE TimerInv'
  OBVIOUS
<1>1. CASE ServiceStep
  BY <1>1, PlanKeeps, ServiceTakeKeeps, ResumedKeeps, ScanKeeps, CallbackKeeps DEF ServiceStep
<1>2. CASE ApiStep
  BY <1>2, TimerGiveKeeps, RestartKeeps, StartKeeps, StopKeeps, ResetKeeps DEF ApiStep
<1>3. CASE Tick
  BY <1>3, TickStepKeeps
<1>4. CASE OtherStep
  BY <1>4, OtherKeeps
<1>5. CASE UNCHANGED timerVars
  <2>1. /\ UNCHANGED tvars /\ UNCHANGED <<count, got>> /\ UNCHANGED timerState
        /\ k' = k /\ pc' = pc /\ count' = count
    BY <1>5 DEF timerVars, tvars, timerState
  <2>2. SemInv'
    BY <2>1, KernelSteps DEF TimerInv
  <2>3. k \in Kernel /\ ListedStates(k) /\ pc \in [Task -> PcLabel]
    BY TimerFacts
  <2>4. TaskStepEffect /\ QuietStep
    BY <2>1, <2>3 DEF TaskStepEffect, QuietStep
  <2> QED
    BY <2>1, <2>2, <2>4, QuietKeeps
<1> QED
  BY <1>1, <1>2, <1>3, <1>4, <1>5 DEF TimerNext

\* Nothing is active, nobody sleeps.
LEMMA TimerInitInv == TimerInit => TimerInv
<1> SUFFICES ASSUME TimerInit PROVE TimerInv
  OBVIOUS
<1>1. /\ SemInit /\ active_timers = << >>
      /\ tm = [period_ticks |-> InitialPeriod, expiry_tick |-> [x \in Timer |-> 0],
               is_active |-> [x \in Timer |-> FALSE]]
      /\ at = [t \in Task |-> IF t = Svc THEN "plan" ELSE "free"]
      /\ target = [t \in Task |-> NULL] /\ wait_ticks = 0 /\ gap = 0
  BY DEF TimerInit
<1>2. SemInv
  BY <1>1, SemInitInv
<1>3. SemTypeOK
  BY <1>2 DEF SemInv, SemTypeOK, TaskInv, Inv
<1>4. 0 \in TickCount /\ 0 \in 0 .. MaxGap /\ Svc \in Task
  BY TickAssumption, TimerAssumption DEF TickCount, Svc
<1>5. active_timers \in Seq(Timer) /\ IsInjective(active_timers) /\ Range(active_timers) = {}
      /\ DOMAIN active_timers = {}
  BY <1>1 DEF IsInjective, Range
<1>6. TimerTypeOK
  <2>1. tm \in [period_ticks : [Timer -> TickCount], expiry_tick : [Timer -> TickCount],
                is_active : [Timer -> BOOLEAN]]
    BY <1>1, <1>4, TimerAssumption
  <2>2. at \in [Task -> {"plan", "take", "scan", "callback", "free", "restart", "give"}]
        /\ target \in [Task -> Timer \cup {NULL}]
    BY <1>1
  <2> QED
    BY <1>1, <1>3, <1>4, <1>5, <2>1, <2>2 DEF TimerTypeOK
<1>7. ListKept
  <2>1. Orderly(active_timers, tm.expiry_tick, k.tick)
    BY <1>5 DEF Orderly, Sorted
  <2>2. {x \in Timer : tm.is_active[x]} = {}
    BY <1>1
  <2>3. \A x \in Timer : tm.period_ticks[x] \in Periods
    BY <1>1 DEF Periods
  <2> QED
    BY <1>5, <2>1, <2>2, <2>3 DEF ListKept
<1>8. pc = [t \in Task |-> "app"] /\ k.state[Svc] # "BLOCKED"
  BY <1>1, <1>4, TimerAssumption DEF SemInit, TaskInit, scheduler_init, add_ready, Svc
<1>9. \A t \in Task : ~ InTake(t)
  BY <1>8 DEF InTake
<1>10. ~ Asleep
  BY <1>8 DEF Asleep
<1>11. PlacesKept
  BY <1>1, <1>9, <1>10 DEF PlacesKept, NO_WAIT
<1>12. Svc \notin Range(k.delayed)
  <2>1. ListedStates(k)
    BY <1>2, SemFacts
  <2> QED
    BY <1>8, <2>1 DEF ListedStates
<1> QED
  BY <1>1, <1>2, <1>6, <1>7, <1>10, <1>11, <1>12 DEF TimerInv, SleepPlanned, SleepTimed, WakeNear

\* The invariant of the timers.
LEMMA TimerAlways == TimerSpec => []TimerInv
BY TimerInitInv, TimerNextKeeps, PTL DEF TimerSpec

\* What the invariant is for.
LEMMA TimerGoals ==
    ASSUME TimerInv
    PROVE  TimerTypeOK /\ ActiveListed /\ SoonestFirst /\ SleepBounded
<1>1. TimerTypeOK /\ ActiveListed
  BY DEF TimerInv, ActiveListed, ListKept, Orderly
<1>2. k.tick \in TickCount /\ k.wake_tick \in [Task -> TickCount] /\ Svc \in Task
      /\ tm.expiry_tick \in [Timer -> TickCount] /\ gap \in Nat
      /\ Range(active_timers) \subseteq Timer /\ active_timers \in Seq(Timer)
  BY TimerFacts
<1>3. Half \in Nat /\ MaxLag \in Nat
  BY HalfRange
<1>4. SoonestFirst
  <2> SUFFICES ASSUME NEW x \in Range(active_timers)
               PROVE  Signed(tm.expiry_tick[Head(active_timers)], tm.expiry_tick[x]) <= 0
    BY DEF SoonestFirst
  <2>1. active_timers # << >>
    BY <1>2, EmptyRange
  <2>2. /\ Head(active_timers) \in Timer /\ FrontAhead \in 0 .. Half - 1
        /\ FrontAhead <= Ahead(tm.expiry_tick[x], k.tick)
        /\ Ahead(tm.expiry_tick[x], k.tick) \in 0 .. Half - 1
    BY <2>1, FrontFacts
  <2>3. Signed(tm.expiry_tick[Head(active_timers)], tm.expiry_tick[x])
          = FrontAhead - Ahead(tm.expiry_tick[x], k.tick)
    BY <1>2, <1>3, <2>2, SignedAhead DEF FrontAhead
  <2> QED
    BY <1>3, <2>2, <2>3
<1>5. SleepBounded
  <2> SUFFICES ASSUME Asleep, active_timers # << >>, ~ GiveComing
               PROVE  /\ Svc \in Range(k.delayed)
                      /\ Signed(k.wake_tick[Svc], tm.expiry_tick[Head(active_timers)]) <= gap
    BY DEF SleepBounded
  <2> DEFINE w == Ahead(k.wake_tick[Svc], k.tick)
  <2>1. Svc \in Range(k.delayed) /\ w <= FrontAhead + gap /\ w \in MaxLag + 1 .. Half - 1
    BY DEF TimerInv, SleepTimed, WakeNear
  <2>2. Head(active_timers) \in Timer /\ FrontAhead \in 0 .. Half - 1
    BY FrontFacts
  <2>3. Signed(k.wake_tick[Svc], tm.expiry_tick[Head(active_timers)]) = w - FrontAhead
    BY <1>2, <1>3, <2>1, <2>2, SignedAhead DEF FrontAhead
  <2> HIDE DEF w, Half
  <2> QED
    BY <1>2, <1>3, <2>1, <2>2, <2>3
<1> QED
  BY <1>1, <1>4, <1>5

\* The kernel, the semaphore and the timers keep their types.
THEOREM TimerTypesKept == TimerSpec => []TimerTypeOK
<1>1. TimerInv => TimerTypeOK
  BY TimerGoals
<1> QED
  BY <1>1, TimerAlways, PTL

\* A timer is in the list of timer.c, once, iff it is active, whatever the order in
\* which tasks and callbacks start, stop and reset it while the service serves it.
THEOREM TimerActiveListed == TimerSpec => []ActiveListed
<1>1. TimerInv => ActiveListed
  BY TimerGoals
<1> QED
  BY <1>1, TimerAlways, PTL

\* The front timer, the only one timer_task_fn looks at, is never later than any
\* other, across wraps of the tick counter.
THEOREM TimerSoonestFirst == TimerSpec => []SoonestFirst
<1>1. TimerInv => SoonestFirst
  BY TimerGoals
<1> QED
  BY <1>1, TimerAlways, PTL

\* The service never sleeps past the soonest deadline by more than the ticks between
\* its planning the sleep and its falling asleep, unless a give is on its way.
THEOREM TimerSleepBounded == TimerSpec => []SleepBounded
<1>1. TimerInv => SleepBounded
  BY TimerGoals
<1> QED
  BY <1>1, TimerAlways, PTL
=============================================================================
