----------------------------- MODULE ListProofs -----------------------------
(***************************************************************************)
(* nimble_list.h implements sequences: in every memory, with any nodes and *)
(* any number of lists, linking and removing a node do to the list it is   *)
(* in what inserting and removing an element do to a sequence, and nothing *)
(* to any other list.  This is the step from the pointers of Links to the  *)
(* lists of Scheduler, for one operation; what the kernel's loops make of  *)
(* these operations is left to TLC (run links).                            *)
(***************************************************************************)
EXTENDS NimbleList, Functions, SequenceTheorems, TLAPS

Memory(S) == [next : [S -> S], prev : [S -> S]]

\* Node i of the ring of head h and list s; the head is before and behind the rest.
nth(h, s, i) == IF i \in 1 .. Len(s) THEN s[i] ELSE h

Ring(h, s) == {h} \cup Range(s)

\* The list with head h has exactly the nodes s, in this order in both directions.
IsList(m, h, s) ==
    /\ IsInjective(s) /\ h \notin Range(s)
    /\ \A i \in 0 .. Len(s) : /\ m.next[nth(h, s, i)] = nth(h, s, i + 1)
                              /\ m.prev[nth(h, s, i + 1)] = nth(h, s, i)

Unlinked(m, n) == m.next[n] = n /\ m.prev[n] = n

\* Memory m, with nodes S, holds the lists L: for each head the sequence of its
\* nodes.  No node is in two lists, and one that is in none points to itself.
Represents(m, S, L) ==
    /\ m \in Memory(S)
    /\ \A h \in DOMAIN L : h \in S /\ L[h] \in Seq(S) /\ IsList(m, h, L[h])
    /\ \A g, h \in DOMAIN L : g # h => Ring(g, L[g]) \cap Ring(h, L[h]) = {}
    /\ \A n \in S : (\A h \in DOMAIN L : n \notin Ring(h, L[h])) => Unlinked(m, n)

Listed(L, n) == \E h \in DOMAIN L : n \in Ring(h, L[h])

\* s with n in front of its element i, or behind all of them; s without element i.
Inserted(s, i, n) ==
    [j \in 1 .. Len(s) + 1 |-> IF j < i THEN s[j] ELSE IF j = i THEN n ELSE s[j - 1]]
Without(s, i) == [j \in 1 .. Len(s) - 1 |-> IF j < i THEN s[j] ELSE s[j + 1]]

-----------------------------------------------------------------------------
(* Rings. *)

\* A ring is made of the head and the list, each once.
LEMMA RingNodes ==
    ASSUME NEW S, NEW h \in S, NEW s \in Seq(S), IsInjective(s), h \notin Range(s)
    PROVE  /\ Len(s) \in Nat /\ DOMAIN s = 1 .. Len(s)
           /\ \A i \in 0 .. Len(s) + 1 : nth(h, s, i) \in Ring(h, s)
           /\ Ring(h, s) \subseteq S
           /\ \A n \in Ring(h, s) : \E i \in 0 .. Len(s) : n = nth(h, s, i)
           /\ \A n \in Ring(h, s) : \E i \in 1 .. Len(s) + 1 : n = nth(h, s, i)
           /\ nth(h, s, 0) = h /\ nth(h, s, Len(s) + 1) = h
           /\ \A i, j \in 0 .. Len(s) : nth(h, s, i) = nth(h, s, j) => i = j
           /\ \A i, j \in 1 .. Len(s) + 1 : nth(h, s, i) = nth(h, s, j) => i = j
<1>1. Len(s) \in Nat /\ DOMAIN s = 1 .. Len(s) /\ \A i \in 1 .. Len(s) : s[i] \in S
  OBVIOUS
<1>2. \A i \in 1 .. Len(s) : s[i] \in Range(s) /\ s[i] # h
  BY <1>1 DEF Range
<1>3. \A n \in Range(s) : \E i \in 1 .. Len(s) : n = s[i]
  BY <1>1 DEF Range
<1>4. \A i, j \in 1 .. Len(s) : s[i] = s[j] => i = j
  BY <1>1 DEF IsInjective
<1>5. \A i \in 0 .. Len(s) + 1 : nth(h, s, i) \in Ring(h, s)
  BY <1>2 DEF nth, Ring
<1>6. Ring(h, s) \subseteq S
  BY <1>1, <1>3 DEF Ring
<1>7. nth(h, s, 0) = h /\ nth(h, s, Len(s) + 1) = h
  BY <1>1 DEF nth
<1>8. \A i \in 1 .. Len(s) : nth(h, s, i) = s[i] /\ i \in 0 .. Len(s) /\ i \in 1 .. Len(s) + 1
  BY <1>1 DEF nth
<1>9. /\ \A n \in Ring(h, s) : \E i \in 0 .. Len(s) : n = nth(h, s, i)
      /\ \A n \in Ring(h, s) : \E i \in 1 .. Len(s) + 1 : n = nth(h, s, i)
  BY <1>1, <1>3, <1>7, <1>8 DEF Ring
<1>10. /\ \A i, j \in 0 .. Len(s) : nth(h, s, i) = nth(h, s, j) => i = j
       /\ \A i, j \in 1 .. Len(s) + 1 : nth(h, s, i) = nth(h, s, j) => i = j
  BY <1>1, <1>2, <1>4 DEF nth
<1> QED
  BY <1>1, <1>5, <1>6, <1>7, <1>9, <1>10

\* A list whose nodes keep their pointers stays as it is.
LEMMA ListKept ==
    ASSUME NEW S, NEW m, NEW u, NEW h \in S, NEW s \in Seq(S), IsList(m, h, s),
           \A n \in Ring(h, s) : u.next[n] = m.next[n] /\ u.prev[n] = m.prev[n]
    PROVE  IsList(u, h, s)
<1>1. /\ Len(s) \in Nat
      /\ \A i \in 0 .. Len(s) + 1 : nth(h, s, i) \in Ring(h, s)
  BY RingNodes DEF IsList
<1>2. \A i \in 0 .. Len(s) : i \in 0 .. Len(s) + 1 /\ i + 1 \in 0 .. Len(s) + 1
  BY <1>1
<1> QED
  BY <1>1, <1>2 DEF IsList

\* If only the ring of h changes, and to the nodes of r, the memory holds r there and
\* the other lists as before.
LEMMA OneListChanges ==
    ASSUME NEW S, NEW m, NEW L, Represents(m, S, L), NEW h \in DOMAIN L,
           NEW u \in Memory(S), NEW r \in Seq(S), IsList(u, h, r),
           NEW n \in S, n # h,
           \A x \in S : x \notin Ring(h, L[h]) /\ x # n =>
                u.next[x] = m.next[x] /\ u.prev[x] = m.prev[x],
           \A g \in DOMAIN L \ {h} : n \notin Ring(g, L[g]),
           Ring(h, r) \cup {n} = Ring(h, L[h]) \cup {n},
           n \notin Ring(h, r) => Unlinked(u, n)
    PROVE  Represents(u, S, [L EXCEPT ![h] = r])
<1> DEFINE M == [L EXCEPT ![h] = r]
<1>1. /\ DOMAIN M = DOMAIN L /\ M[h] = r
      /\ \A g \in DOMAIN L \ {h} : M[g] = L[g]
  OBVIOUS
<1> HIDE DEF M
<1>2. ASSUME NEW g \in DOMAIN L \ {h}
      PROVE  /\ Ring(g, L[g]) \cap (Ring(h, L[h]) \cup {n}) = {}
             /\ Ring(g, L[g]) \cap Ring(h, r) = {}
             /\ g \in S /\ L[g] \in Seq(S) /\ IsList(m, g, L[g])
             /\ Ring(g, L[g]) \subseteq S
  <2>1. g \in S /\ L[g] \in Seq(S) /\ IsList(m, g, L[g])
    BY DEF Represents
  <2>2. Ring(g, L[g]) \cap Ring(h, L[h]) = {}
    BY DEF Represents
  <2>3. Ring(g, L[g]) \subseteq S
    BY <2>1, RingNodes DEF IsList
  <2> QED
    BY <2>1, <2>2, <2>3
<1>3. ASSUME NEW g \in DOMAIN L \ {h} PROVE IsList(u, g, L[g])
  <2>1. \A x \in Ring(g, L[g]) : u.next[x] = m.next[x] /\ u.prev[x] = m.prev[x]
    BY <1>2
  <2> QED
    BY <1>2, <2>1, ListKept
<1>4. \A g \in DOMAIN M : g \in S /\ M[g] \in Seq(S) /\ IsList(u, g, M[g])
  BY <1>1, <1>2, <1>3 DEF Represents
<1>5. \A f, g \in DOMAIN M : f # g => Ring(f, M[f]) \cap Ring(g, M[g]) = {}
  <2>1. \A f, g \in DOMAIN L \ {h} : f # g => Ring(f, L[f]) \cap Ring(g, L[g]) = {}
    BY DEF Represents
  <2> QED
    BY <1>1, <1>2, <2>1
<1>6. ASSUME NEW x \in S, \A g \in DOMAIN M : x \notin Ring(g, M[g]) PROVE Unlinked(u, x)
  <2>1. CASE x = n
    BY <1>1, <1>6, <2>1
  <2>2. CASE x # n
    <3>1. x \notin Ring(h, L[h])
      BY <1>1, <1>6, <2>2
    <3>2. \A g \in DOMAIN L : x \notin Ring(g, L[g])
      BY <1>1, <1>6, <3>1
    <3>3. Unlinked(m, x)
      BY <3>2 DEF Represents
    <3> QED
      BY <2>2, <3>1, <3>3 DEF Unlinked
  <2> QED
    BY <2>1, <2>2
<1>7. Represents(u, S, M)
  BY <1>4, <1>5, <1>6 DEF Represents
<1> QED
  BY <1>7 DEF M

-----------------------------------------------------------------------------
(* The operations. *)

\* nimble_list_init of every node: all lists are empty.
LEMMA InitHoldsNothing ==
    ASSUME NEW S, NEW H \in SUBSET S
    PROVE  Represents(list_init(S), S, [h \in H |-> << >>])
<1> DEFINE m == list_init(S)
           L == [h \in H |-> << >>]
<1>1. m \in Memory(S) /\ \A n \in S : Unlinked(m, n)
  BY DEF list_init, Memory, Unlinked
<1>2. DOMAIN L = H /\ \A h \in H : L[h] = << >> /\ h \in S
  OBVIOUS
<1> HIDE DEF m, L
<1>3. Range(<< >>) = {} /\ IsInjective(<< >>) /\ << >> \in Seq(S) /\ Len(<< >>) = 0
  BY DEF Range, IsInjective
<1>4. ASSUME NEW h \in H PROVE IsList(m, h, << >>)
  <2>1. \A i : nth(h, << >>, i) = h
    BY <1>3 DEF nth
  <2> QED
    BY <1>1, <1>2, <1>3, <2>1 DEF IsList, Unlinked
<1>5. \A h : Ring(h, << >>) = {h}
  BY <1>3 DEF Ring
<1>6. Represents(m, S, L)
  <2>1. \A h \in DOMAIN L : h \in S /\ L[h] \in Seq(S) /\ IsList(m, h, L[h])
    BY <1>2, <1>3, <1>4
  <2>2. \A g, h \in DOMAIN L : g # h => Ring(g, L[g]) \cap Ring(h, L[h]) = {}
    BY <1>2, <1>5
  <2> QED
    BY <1>1, <2>1, <2>2 DEF Represents
<1> QED
  BY <1>6 DEF m, L

\* nimble_list_is_empty asks whether the sequence is empty.
LEMMA IsEmptyTells ==
    ASSUME NEW S, NEW m, NEW L, Represents(m, S, L), NEW h \in DOMAIN L
    PROVE  list_is_empty(m, h) <=> L[h] = << >>
<1> DEFINE s == L[h]
<1>1. h \in S /\ s \in Seq(S) /\ IsList(m, h, s)
  BY DEF Represents
<1> HIDE DEF s
<1>2. Len(s) \in Nat /\ nth(h, s, 0) = h
  BY <1>1, RingNodes DEF IsList
<1>3. m.next[h] = nth(h, s, 1)
  BY <1>1, <1>2 DEF IsList
<1>4. CASE s = << >>
  <2>1. nth(h, s, 1) = h
    BY <1>4 DEF nth
  <2> QED
    BY <1>3, <1>4, <2>1 DEF list_is_empty, s
<1>5. CASE s # << >>
  <2>1. 1 \in 1 .. Len(s) /\ 1 \in DOMAIN s
    BY <1>1, <1>5
  <2>2. m.next[h] = s[1] /\ s[1] \in Range(s)
    BY <1>3, <2>1 DEF nth, Range
  <2> QED
    BY <1>1, <1>5, <2>2 DEF IsList, list_is_empty, s
<1> QED
  BY <1>4, <1>5

\* A function with two of its values replaced, the second replacement last.
LEMMA TwoReplaced ==
    ASSUME NEW S, NEW f \in [S -> S], NEW a \in S, NEW b \in S, NEW x \in S, NEW y \in S
    PROVE  /\ [f EXCEPT ![a] = x, ![b] = y] \in [S -> S]
           /\ \A z \in S : [f EXCEPT ![a] = x, ![b] = y][z] =
                              IF z = b THEN y ELSE IF z = a THEN x ELSE f[z]
<1> DEFINE g == [f EXCEPT ![a] = x]
<1>1. g \in [S -> S] /\ \A z \in S : g[z] = IF z = a THEN x ELSE f[z]
  OBVIOUS
<1> HIDE DEF g
<1>2. [g EXCEPT ![b] = y] \in [S -> S] /\ \A z \in S : [g EXCEPT ![b] = y][z] = IF z = b THEN y ELSE g[z]
  BY <1>1
<1> QED
  BY <1>1, <1>2 DEF g

\* Two functions are each other's inverse.
Inverses(f, g, S) == \A x \in S : g[f[x]] = x /\ f[g[x]] = x

\* Bypassing n in both directions, and letting it point to itself.
LEMMA BypassInverse ==
    ASSUME NEW S, NEW f \in [S -> S], NEW g \in [S -> S], Inverses(f, g, S), NEW n \in S
    PROVE  Inverses([f EXCEPT ![g[n]] = f[n], ![n] = n], [g EXCEPT ![f[n]] = g[n], ![n] = n], S)
<1> DEFINE p == g[n]
           q == f[n]
           F == [f EXCEPT ![p] = q, ![n] = n]
           G == [g EXCEPT ![q] = p, ![n] = n]
<1>1. p \in S /\ q \in S
  OBVIOUS
<1>2. \A x \in S : F[x] = IF x = n THEN n ELSE IF x = p THEN q ELSE f[x]
  BY <1>1, TwoReplaced
<1>3. \A x \in S : G[x] = IF x = n THEN n ELSE IF x = q THEN p ELSE g[x]
  BY <1>1, TwoReplaced
<1>4. \A x \in S : (f[x] = n <=> x = p) /\ (g[x] = n <=> x = q)
  BY DEF Inverses
<1>5. \A x \in S : (f[x] = q <=> x = n) /\ (g[x] = p <=> x = n)
  BY DEF Inverses
<1> HIDE DEF F, G, p, q
<1>6. ASSUME NEW x \in S PROVE G[F[x]] = x
  <2>1. CASE x = n
    BY <1>2, <1>3, <2>1
  <2>2. CASE x # n /\ x = p
    <3>1. q # n
      BY <1>1, <1>4, <2>2 DEF q
    <3> QED
      BY <1>1, <1>2, <1>3, <2>2, <3>1
  <2>3. CASE x # n /\ x # p
    <3>1. F[x] = f[x] /\ f[x] \in S /\ f[x] # n /\ f[x] # q
      BY <1>2, <1>4, <1>5, <2>3
    <3>2. G[f[x]] = g[f[x]]
      BY <1>3, <3>1
    <3> QED
      BY <3>1, <3>2 DEF Inverses
  <2> QED
    BY <2>1, <2>2, <2>3
<1>7. ASSUME NEW x \in S PROVE F[G[x]] = x
  <2>1. CASE x = n
    BY <1>2, <1>3, <2>1
  <2>2. CASE x # n /\ x = q
    <3>1. p # n
      BY <1>1, <1>4, <2>2 DEF p
    <3> QED
      BY <1>1, <1>2, <1>3, <2>2, <3>1
  <2>3. CASE x # n /\ x # q
    <3>1. G[x] = g[x] /\ g[x] \in S /\ g[x] # n /\ g[x] # p
      BY <1>3, <1>4, <1>5, <2>3
    <3>2. F[g[x]] = f[g[x]]
      BY <1>2, <3>1
    <3> QED
      BY <3>1, <3>2 DEF Inverses
  <2> QED
    BY <2>1, <2>2, <2>3
<1>8. Inverses(F, G, S)
  BY <1>6, <1>7 DEF Inverses
<1> QED
  BY <1>8 DEF F, G, p, q

\* Putting n, which points to itself, between o and the node before it.
LEMMA SpliceInverse ==
    ASSUME NEW S, NEW f \in [S -> S], NEW g \in [S -> S], Inverses(f, g, S),
           NEW o \in S, NEW n \in S, o # n, f[n] = n
    PROVE  Inverses([f EXCEPT ![n] = o, ![g[o]] = n], [g EXCEPT ![n] = g[o], ![o] = n], S)
<1> DEFINE p == g[o]
           F == [f EXCEPT ![n] = o, ![p] = n]
           G == [g EXCEPT ![n] = p, ![o] = n]
<1>1. p \in S /\ p # n
  BY DEF Inverses
<1>2. \A x \in S : F[x] = IF x = p THEN n ELSE IF x = n THEN o ELSE f[x]
  BY <1>1, TwoReplaced
<1>3. \A x \in S : G[x] = IF x = o THEN n ELSE IF x = n THEN p ELSE g[x]
  BY <1>1, TwoReplaced
<1>4. \A x \in S : /\ (f[x] = n <=> x = n) /\ (g[x] = n <=> x = n)
                   /\ (f[x] = o <=> x = p) /\ (g[x] = p <=> x = o)
  BY DEF Inverses
<1> HIDE DEF F, G, p
<1>5. ASSUME NEW x \in S PROVE G[F[x]] = x
  <2>1. CASE x = n \/ x = p
    BY <1>1, <1>2, <1>3, <2>1
  <2>2. CASE x # n /\ x # p
    <3>1. F[x] = f[x] /\ f[x] \in S /\ f[x] # n /\ f[x] # o
      BY <1>2, <1>4, <2>2
    <3>2. G[f[x]] = g[f[x]]
      BY <1>3, <3>1
    <3> QED
      BY <3>1, <3>2 DEF Inverses
  <2> QED
    BY <2>1, <2>2
<1>6. ASSUME NEW x \in S PROVE F[G[x]] = x
  <2>1. CASE x = n \/ x = o
    BY <1>1, <1>2, <1>3, <2>1
  <2>2. CASE x # n /\ x # o
    <3>1. G[x] = g[x] /\ g[x] \in S /\ g[x] # n /\ g[x] # p
      BY <1>3, <1>4, <2>2
    <3>2. F[g[x]] = f[g[x]]
      BY <1>2, <3>1
    <3> QED
      BY <3>1, <3>2 DEF Inverses
  <2> QED
    BY <2>1, <2>2
<1>7. Inverses(F, G, S)
  BY <1>5, <1>6 DEF Inverses
<1> QED
  BY <1>7 DEF F, G, p

\* What the walks over a list need of the operations, without any notion of which
\* lists there are: from the memory nimble_list_init leaves, every removal, and every
\* linking of a node that points to itself in front of another, keep next and prev
\* each other's inverse.  A removed node points to itself, so removing it again, as
\* wake-ups and resumed calls do, changes nothing.
THEOREM OperationsKeepLinks ==
    ASSUME NEW S
    PROVE  /\ list_init(S) \in Memory(S) /\ WellLinked(list_init(S))
           /\ \A m \in Memory(S) : WellLinked(m) =>
                 /\ \A n \in S : LET r == list_remove(m, n)
                                 IN  /\ r \in Memory(S) /\ WellLinked(r)
                                     /\ Unlinked(r, n) /\ list_remove(r, n) = r
                 /\ \A o, n \in S : o # n /\ m.next[n] = n =>
                       LET r == insert_before(m, o, n)
                       IN  r \in Memory(S) /\ WellLinked(r)
<1>1. list_init(S) \in Memory(S) /\ WellLinked(list_init(S))
  BY DEF list_init, Memory, WellLinked
<1>2. \A m \in Memory(S) : /\ m.next \in [S -> S] /\ m.prev \in [S -> S]
                           /\ WellLinked(m) <=> Inverses(m.next, m.prev, S)
  BY DEF Memory, WellLinked, Inverses
<1>3. ASSUME NEW m \in Memory(S), WellLinked(m), NEW n \in S
      PROVE  LET r == list_remove(m, n)
             IN  /\ r \in Memory(S) /\ WellLinked(r)
                 /\ Unlinked(r, n) /\ list_remove(r, n) = r
  <2> DEFINE r == list_remove(m, n)
             f == m.next
             g == m.prev
             F == [f EXCEPT ![g[n]] = f[n], ![n] = n]
             G == [g EXCEPT ![f[n]] = g[n], ![n] = n]
  <2>1. f \in [S -> S] /\ g \in [S -> S] /\ Inverses(f, g, S)
    BY <1>2, <1>3
  <2>2. r = [next |-> F, prev |-> G]
    BY DEF list_remove
  <2> HIDE DEF r, f, g
  <2>3. f[n] \in S /\ g[n] \in S
    BY <2>1
  <2>4. F \in [S -> S] /\ F[n] = n
    BY <2>1, <2>3, TwoReplaced
  <2>5. G \in [S -> S] /\ G[n] = n
    BY <2>1, <2>3, TwoReplaced
  <2>6. Inverses(F, G, S)
    BY <2>1, BypassInverse
  <2> HIDE DEF F, G
  <2>7. r \in Memory(S) /\ Unlinked(r, n)
    BY <2>2, <2>4, <2>5 DEF Memory, Unlinked
  <2>8. WellLinked(r)
    BY <1>2, <2>2, <2>6, <2>7
  <2>9. list_remove(r, n) = r
    <3>1. [F EXCEPT ![n] = n, ![n] = n] = F /\ [G EXCEPT ![n] = n, ![n] = n] = G
      BY <2>4, <2>5
    <3> QED
      BY <2>2, <2>4, <2>5, <3>1 DEF list_remove
  <2> QED
    BY <2>7, <2>8, <2>9 DEF r
<1>4. ASSUME NEW m \in Memory(S), WellLinked(m), NEW o \in S, NEW n \in S,
             o # n, m.next[n] = n
      PROVE  LET r == insert_before(m, o, n) IN r \in Memory(S) /\ WellLinked(r)
  <2> DEFINE r == insert_before(m, o, n)
             f == m.next
             g == m.prev
             F == [f EXCEPT ![n] = o, ![g[o]] = n]
             G == [g EXCEPT ![n] = g[o], ![o] = n]
  <2>1. f \in [S -> S] /\ g \in [S -> S] /\ Inverses(f, g, S) /\ f[n] = n
    BY <1>2, <1>4
  <2>2. r = [next |-> F, prev |-> G]
    BY DEF insert_before
  <2> HIDE DEF r, f, g
  <2>3. g[o] \in S
    BY <2>1
  <2>4. F \in [S -> S] /\ G \in [S -> S]
    BY <2>1, <2>3, TwoReplaced
  <2>5. Inverses(F, G, S)
    BY <1>4, <2>1, SpliceInverse
  <2> HIDE DEF F, G
  <2>6. r \in Memory(S)
    BY <2>2, <2>4 DEF Memory
  <2>7. WellLinked(r)
    BY <1>2, <2>2, <2>5, <2>6
  <2> QED
    BY <2>6, <2>7 DEF r
<1> QED
  BY <1>1, <1>3, <1>4

\* Linking n in front of an element of the list of h, or of h itself, inserts it
\* there; no other list changes.
THEOREM InsertInserts ==
    ASSUME NEW S, NEW m, NEW L, Represents(m, S, L), NEW h \in DOMAIN L,
           NEW n \in S, ~ Listed(L, n), NEW i \in 1 .. Len(L[h]) + 1
    PROVE  Represents(insert_before(m, nth(h, L[h], i), n), S,
                      [L EXCEPT ![h] = Inserted(@, i, n)])
<1> DEFINE s == L[h]
           r == Inserted(s, i, n)
           other == nth(h, s, i)
           last == nth(h, s, i - 1)
           u == insert_before(m, other, n)
<1>1. /\ h \in S /\ s \in Seq(S) /\ IsList(m, h, s) /\ m \in Memory(S)
      /\ n \notin Ring(h, s) /\ \A g \in DOMAIN L : n \notin Ring(g, L[g])
  BY DEF Represents, Listed
<1>2. Len(s) \in Nat /\ i \in 1 .. Len(s) + 1 /\ i - 1 \in 0 .. Len(s) /\ (i - 1) + 1 = i
  BY <1>1
<1> HIDE DEF s
<1>3. /\ \A j \in 0 .. Len(s) + 1 : nth(h, s, j) \in Ring(h, s)
      /\ Ring(h, s) \subseteq S
      /\ nth(h, s, 0) = h /\ nth(h, s, Len(s) + 1) = h
      /\ \A a, b \in 0 .. Len(s) : nth(h, s, a) = nth(h, s, b) => a = b
      /\ \A a, b \in 1 .. Len(s) + 1 : nth(h, s, a) = nth(h, s, b) => a = b
      /\ DOMAIN s = 1 .. Len(s)
  BY <1>1, RingNodes DEF IsList
<1>4. /\ other \in Ring(h, s) /\ last \in Ring(h, s) /\ other \in S /\ last \in S
      /\ m.prev[other] = last /\ n # other /\ n # last
  BY <1>1, <1>2, <1>3 DEF IsList
<1> HIDE DEF other, last
<1>5. /\ u \in Memory(S)
      /\ \A x \in S : u.next[x] = IF x = last THEN n ELSE IF x = n THEN other ELSE m.next[x]
      /\ \A x \in S : u.prev[x] = IF x = other THEN n ELSE IF x = n THEN last ELSE m.prev[x]
  BY <1>1, <1>4 DEF insert_before, Memory
<1> HIDE DEF u
<1>6. /\ r \in Seq(S) /\ Len(r) = Len(s) + 1
      /\ \A j \in 1 .. Len(s) + 1 :
            r[j] = IF j < i THEN s[j] ELSE IF j = i THEN n ELSE s[j - 1]
  <2>1. \A j \in 1 .. Len(s) : s[j] \in S
    BY <1>1
  <2>2. r \in [1 .. Len(s) + 1 -> S]
    BY <1>2, <2>1 DEF Inserted
  <2> QED
    BY <1>2, <2>2 DEF Inserted
<1> HIDE DEF r
<1>7. \A j \in 0 .. Len(s) + 2 :
         nth(h, r, j) = IF j < i THEN nth(h, s, j) ELSE IF j = i THEN n ELSE nth(h, s, j - 1)
  BY <1>2, <1>6 DEF nth
<1>8. ASSUME NEW j \in 0 .. Len(r)
      PROVE  /\ u.next[nth(h, r, j)] = nth(h, r, j + 1)
             /\ u.prev[nth(h, r, j + 1)] = nth(h, r, j)
  <2>1. j \in 0 .. Len(s) + 1 /\ j \in 0 .. Len(s) + 2 /\ j + 1 \in 0 .. Len(s) + 2
    BY <1>2, <1>6
  <2>2. CASE j + 1 < i
    <3>1. /\ nth(h, r, j) = nth(h, s, j) /\ nth(h, r, j + 1) = nth(h, s, j + 1)
          /\ j \in 0 .. Len(s) /\ j # i - 1 /\ j + 1 \in 1 .. Len(s) + 1 /\ j + 1 # i
      BY <1>2, <1>7, <2>1, <2>2
    <3>2. nth(h, s, j) # last /\ nth(h, s, j + 1) # other
      BY <1>2, <1>3, <3>1 DEF last, other
    <3>3. /\ nth(h, s, j) \in Ring(h, s) /\ nth(h, s, j + 1) \in Ring(h, s)
          /\ m.next[nth(h, s, j)] = nth(h, s, j + 1)
          /\ m.prev[nth(h, s, j + 1)] = nth(h, s, j)
      BY <1>1, <1>2, <1>3, <3>1 DEF IsList
    <3> QED
      BY <1>1, <1>3, <1>5, <3>1, <3>2, <3>3
  <2>3. CASE j + 1 = i
    <3>1. nth(h, r, j) = last /\ nth(h, r, j + 1) = n
      BY <1>2, <1>7, <2>1, <2>3 DEF last
    <3> QED
      BY <1>4, <1>5, <3>1
  <2>4. CASE j = i
    <3>1. nth(h, r, j) = n /\ nth(h, r, j + 1) = other
      BY <1>2, <1>7, <2>1, <2>4 DEF other
    <3> QED
      BY <1>4, <1>5, <3>1
  <2>5. CASE j > i
    <3>1. /\ nth(h, r, j) = nth(h, s, j - 1) /\ nth(h, r, j + 1) = nth(h, s, j)
          /\ j - 1 \in 0 .. Len(s) /\ j - 1 # i - 1 /\ j \in 1 .. Len(s) + 1 /\ j # i
          /\ (j - 1) + 1 = j
      BY <1>2, <1>7, <2>1, <2>5
    <3>2. nth(h, s, j - 1) # last /\ nth(h, s, j) # other
      BY <1>2, <1>3, <3>1 DEF last, other
    <3>3. /\ nth(h, s, j - 1) \in Ring(h, s) /\ nth(h, s, j) \in Ring(h, s)
          /\ m.next[nth(h, s, j - 1)] = nth(h, s, j)
          /\ m.prev[nth(h, s, j)] = nth(h, s, j - 1)
      BY <1>1, <1>2, <1>3, <3>1 DEF IsList
    <3> QED
      BY <1>1, <1>3, <1>5, <3>1, <3>2, <3>3
  <2> QED
    BY <1>2, <2>1, <2>2, <2>3, <2>4, <2>5
<1>9. Range(r) = Range(s) \cup {n}
  <2>1. DOMAIN r = 1 .. Len(s) + 1
    BY <1>2, <1>6
  <2>2. ASSUME NEW j \in 1 .. Len(s) + 1 PROVE r[j] \in Range(s) \cup {n}
    <3>1. j < i => j \in 1 .. Len(s)
      BY <1>2
    <3>2. j > i => j - 1 \in 1 .. Len(s)
      BY <1>2
    <3> QED
      BY <1>2, <1>3, <1>6, <3>1, <3>2 DEF Range
  <2>3. r[i] = n /\ i \in DOMAIN r
    BY <1>2, <1>6, <2>1
  <2>4. ASSUME NEW j \in 1 .. Len(s) PROVE \E l \in DOMAIN r : r[l] = s[j]
    <3>1. CASE j < i
      <4>1. j \in 1 .. Len(s) + 1 /\ r[j] = s[j]
        BY <1>2, <1>6, <3>1
      <4> QED
        BY <2>1, <4>1
    <3>2. CASE ~ (j < i)
      <4>1. j + 1 \in 1 .. Len(s) + 1 /\ ~ (j + 1 < i) /\ j + 1 # i /\ (j + 1) - 1 = j
        BY <1>2, <3>2
      <4>2. r[j + 1] = s[j]
        BY <1>6, <4>1
      <4> QED
        BY <2>1, <4>1, <4>2
    <3> QED
      BY <3>1, <3>2
  <2> QED
    BY <1>3, <2>1, <2>2, <2>3, <2>4 DEF Range
<1>10. IsInjective(r)
  <2>1. \A a, b \in 1 .. Len(s) : s[a] = s[b] => a = b
    BY <1>1, <1>3 DEF IsList, IsInjective
  <2>2. \A a \in 1 .. Len(s) : s[a] # n
    BY <1>1, <1>3 DEF Ring, Range
  <2> SUFFICES ASSUME NEW a \in 1 .. Len(s) + 1, NEW b \in 1 .. Len(s) + 1, r[a] = r[b]
               PROVE  a = b
    BY <1>2, <1>6 DEF IsInjective
  <2>3. ASSUME NEW j \in 1 .. Len(s) + 1, j # i
        PROVE  LET o == IF j < i THEN j ELSE j - 1
               IN  o \in 1 .. Len(s) /\ r[j] = s[o]
    BY <1>2, <1>6, <2>3
  <2>4. r[i] = n
    BY <1>2, <1>6
  <2>5. CASE a = i \/ b = i
    BY <2>2, <2>3, <2>4, <2>5
  <2>6. CASE a # i /\ b # i
    <3>1. (IF a < i THEN a ELSE a - 1) = (IF b < i THEN b ELSE b - 1)
      BY <2>1, <2>3, <2>6
    <3> QED
      BY <1>2, <2>6, <3>1
  <2> QED
    BY <2>5, <2>6
<1>11. IsList(u, h, r)
  BY <1>1, <1>8, <1>9, <1>10 DEF IsList, Ring
<1>12. Represents(u, S, [L EXCEPT ![h] = r])
  <2>1. n # h /\ n \in Ring(h, r) /\ Ring(h, r) = Ring(h, s) \cup {n}
    BY <1>1, <1>9 DEF Ring
  <2>2. \A x \in S : x \notin Ring(h, L[h]) /\ x # n =>
           u.next[x] = m.next[x] /\ u.prev[x] = m.prev[x]
    BY <1>4, <1>5 DEF s
  <2>3. Ring(h, r) \cup {n} = Ring(h, L[h]) \cup {n}
    BY <2>1 DEF s
  <2>4. /\ \A g \in DOMAIN L \ {h} : n \notin Ring(g, L[g])
        /\ n \notin Ring(h, r) => Unlinked(u, n)
    BY <1>1, <2>1
  <2>5. u \in Memory(S) /\ r \in Seq(S) /\ n # h
    BY <1>5, <1>6, <2>1
  <2> QED
    BY <1>11, <2>2, <2>3, <2>4, <2>5, OneListChanges
<1> QED
  BY <1>12 DEF u, r, other, s

\* nimble_list_insert_tail appends.
THEOREM InsertTailAppends ==
    ASSUME NEW S, NEW m, NEW L, Represents(m, S, L), NEW h \in DOMAIN L,
           NEW n \in S, ~ Listed(L, n)
    PROVE  Represents(insert_tail(m, h, n), S, [L EXCEPT ![h] = Append(@, n)])
<1> DEFINE s == L[h]
           i == Len(s) + 1
<1>1. s \in Seq(S)
  BY DEF Represents
<1>2. i \in 1 .. Len(L[h]) + 1
  BY <1>1
<1>3. nth(h, L[h], i) = h
  BY <1>1 DEF nth
<1>4. Inserted(s, i, n) = Append(s, n)
  <2> DEFINE a == Append(s, n)
  <2>1. /\ a \in Seq(S) /\ Len(a) = Len(s) + 1 /\ DOMAIN a = 1 .. Len(s) + 1
        /\ \A j \in 1 .. Len(s) + 1 : a[j] = IF j = Len(s) + 1 THEN n ELSE s[j]
    BY <1>1
  <2> HIDE DEF a
  <2>2. a = [j \in 1 .. Len(s) + 1 |-> a[j]]
    BY <2>1
  <2>3. \A j \in 1 .. Len(s) + 1 :
           a[j] = IF j < i THEN s[j] ELSE IF j = i THEN n ELSE s[j - 1]
    BY <1>1, <2>1
  <2>4. a = Inserted(s, i, n)
    BY <2>2, <2>3 DEF Inserted
  <2> QED
    BY <2>4 DEF a
<1>5. Represents(insert_before(m, nth(h, L[h], i), n), S, [L EXCEPT ![h] = Inserted(@, i, n)])
  BY <1>2, InsertInserts
<1> QED
  BY <1>3, <1>4, <1>5 DEF insert_tail

\* nimble_list_remove takes a node out of its list, whichever that is, changes no
\* other list and leaves the node ready to be linked again.
THEOREM RemoveTakesOut ==
    ASSUME NEW S, NEW m, NEW L, Represents(m, S, L), NEW h \in DOMAIN L,
           NEW i \in 1 .. Len(L[h])
    PROVE  LET M == [L EXCEPT ![h] = Without(@, i)]
           IN  Represents(list_remove(m, L[h][i]), S, M) /\ ~ Listed(M, L[h][i])
<1> DEFINE s == L[h]
           n == s[i]
           r == Without(s, i)
           before == nth(h, s, i - 1)
           behind == nth(h, s, i + 1)
           u == list_remove(m, n)
<1>1. /\ h \in S /\ s \in Seq(S) /\ IsList(m, h, s) /\ m \in Memory(S)
      /\ \A g \in DOMAIN L \ {h} : Ring(g, L[g]) \cap Ring(h, s) = {}
  BY DEF Represents
<1>2. Len(s) \in Nat /\ i \in 1 .. Len(s)
  BY <1>1
<1> HIDE DEF s
<1>3. /\ \A j \in 0 .. Len(s) + 1 : nth(h, s, j) \in Ring(h, s)
      /\ Ring(h, s) \subseteq S
      /\ nth(h, s, 0) = h /\ nth(h, s, Len(s) + 1) = h
      /\ \A a, b \in 0 .. Len(s) : nth(h, s, a) = nth(h, s, b) => a = b
      /\ \A a, b \in 1 .. Len(s) + 1 : nth(h, s, a) = nth(h, s, b) => a = b
      /\ DOMAIN s = 1 .. Len(s)
  BY <1>1, RingNodes DEF IsList
<1>4. /\ n = nth(h, s, i) /\ n \in S /\ n \in Range(s) /\ n \in Ring(h, s) /\ n # h
      /\ before \in S /\ behind \in S /\ before \in Ring(h, s) /\ behind \in Ring(h, s)
      /\ m.prev[n] = before /\ m.next[n] = behind
      /\ before # n /\ behind # n
  <2>1. n = nth(h, s, i) /\ n \in Range(s) /\ n # h /\ n \in Ring(h, s)
    BY <1>1, <1>2, <1>3 DEF nth, Range, Ring, IsList
  <2>2. i - 1 \in 0 .. Len(s) /\ (i - 1) + 1 = i /\ i \in 0 .. Len(s)
        /\ i - 1 \in 0 .. Len(s) + 1 /\ i + 1 \in 0 .. Len(s) + 1
        /\ i \in 1 .. Len(s) + 1 /\ i + 1 \in 1 .. Len(s) + 1 /\ i - 1 # i /\ i + 1 # i
    BY <1>2
  <2>3. m.prev[nth(h, s, i)] = before /\ m.next[nth(h, s, i)] = behind
    BY <1>1, <2>2 DEF IsList
  <2>4. before # nth(h, s, i) /\ behind # nth(h, s, i)
    BY <1>3, <2>2
  <2> HIDE DEF n
  <2> QED
    BY <1>3, <2>1, <2>2, <2>3, <2>4
<1> HIDE DEF n, before, behind
<1>5. /\ u \in Memory(S)
      /\ \A x \in S : u.next[x] = IF x = n THEN n ELSE IF x = before THEN behind ELSE m.next[x]
      /\ \A x \in S : u.prev[x] = IF x = n THEN n ELSE IF x = behind THEN before ELSE m.prev[x]
  BY <1>1, <1>4 DEF list_remove, Memory
<1> HIDE DEF u
<1>6. /\ r \in Seq(S) /\ Len(r) = Len(s) - 1
      /\ \A j \in 1 .. Len(s) - 1 : r[j] = IF j < i THEN s[j] ELSE s[j + 1]
  <2>1. \A j \in 1 .. Len(s) : s[j] \in S
    BY <1>1
  <2> DEFINE l == Len(s) - 1
  <2>2. l \in Nat
    BY <1>2
  <2>3. /\ r \in [1 .. l -> S]
        /\ \A j \in 1 .. l : r[j] = IF j < i THEN s[j] ELSE s[j + 1]
    BY <1>2, <2>1 DEF Without
  <2> HIDE DEF l, r
  <2>4. r \in Seq(S) /\ Len(r) = l
    BY <2>2, <2>3
  <2> QED
    BY <2>3, <2>4 DEF l
<1> HIDE DEF r
<1>7. \A j \in 0 .. Len(s) :
         nth(h, r, j) = IF j < i THEN nth(h, s, j) ELSE nth(h, s, j + 1)
  BY <1>2, <1>6 DEF nth
<1>8. ASSUME NEW j \in 0 .. Len(r)
      PROVE  /\ u.next[nth(h, r, j)] = nth(h, r, j + 1)
             /\ u.prev[nth(h, r, j + 1)] = nth(h, r, j)
  <2>1. j \in 0 .. Len(s) - 1 /\ j \in 0 .. Len(s) /\ j + 1 \in 0 .. Len(s)
    BY <1>2, <1>6
  <2>2. CASE j + 1 < i
    <3>1. /\ nth(h, r, j) = nth(h, s, j) /\ nth(h, r, j + 1) = nth(h, s, j + 1)
          /\ j \in 0 .. Len(s) /\ j # i - 1 /\ j # i /\ i - 1 \in 0 .. Len(s) /\ i \in 0 .. Len(s)
          /\ j + 1 \in 1 .. Len(s) + 1 /\ j + 1 # i /\ j + 1 # i + 1
          /\ i \in 1 .. Len(s) + 1 /\ i + 1 \in 1 .. Len(s) + 1
      BY <1>2, <1>7, <2>1, <2>2
    <3>2. /\ nth(h, s, j) # before /\ nth(h, s, j) # n
          /\ nth(h, s, j + 1) # behind /\ nth(h, s, j + 1) # n
      BY <1>3, <1>4, <3>1 DEF before, behind
    <3>3. /\ nth(h, s, j) \in S /\ nth(h, s, j + 1) \in S
          /\ m.next[nth(h, s, j)] = nth(h, s, j + 1)
          /\ m.prev[nth(h, s, j + 1)] = nth(h, s, j)
      BY <1>1, <1>2, <1>3, <3>1 DEF IsList
    <3> QED
      BY <1>5, <3>1, <3>2, <3>3
  <2>3. CASE j + 1 = i
    <3>1. nth(h, r, j) = before /\ nth(h, r, j + 1) = behind
      BY <1>2, <1>7, <2>1, <2>3, SMTT(30) DEF before, behind
    <3> QED
      BY <1>4, <1>5, <3>1
  <2>4. CASE j >= i
    <3>1. /\ nth(h, r, j) = nth(h, s, j + 1) /\ nth(h, r, j + 1) = nth(h, s, (j + 1) + 1)
          /\ j + 1 \in 0 .. Len(s) /\ j + 1 # i - 1 /\ j + 1 # i
          /\ i - 1 \in 0 .. Len(s) /\ i \in 0 .. Len(s)
          /\ (j + 1) + 1 \in 1 .. Len(s) + 1 /\ (j + 1) + 1 # i /\ (j + 1) + 1 # i + 1
          /\ i \in 1 .. Len(s) + 1 /\ i + 1 \in 1 .. Len(s) + 1
      BY <1>2, <1>7, <2>1, <2>4
    <3>2. /\ nth(h, s, j + 1) # before /\ nth(h, s, j + 1) # n
          /\ nth(h, s, (j + 1) + 1) # behind /\ nth(h, s, (j + 1) + 1) # n
      BY <1>3, <1>4, <3>1 DEF before, behind
    <3>3. /\ nth(h, s, j + 1) \in S /\ nth(h, s, (j + 1) + 1) \in S
          /\ m.next[nth(h, s, j + 1)] = nth(h, s, (j + 1) + 1)
          /\ m.prev[nth(h, s, (j + 1) + 1)] = nth(h, s, j + 1)
      BY <1>1, <1>2, <1>3, <2>1, <3>1 DEF IsList
    <3> QED
      BY <1>5, <3>1, <3>2, <3>3
  <2> QED
    BY <1>2, <2>1, <2>2, <2>3, <2>4
<1>9. \A a, b \in 1 .. Len(s) : s[a] = s[b] => a = b
  BY <1>1, <1>3 DEF IsList, IsInjective
<1>10. n \notin Range(r) /\ Range(r) \cup {n} = Range(s)
  <2>1. DOMAIN r = 1 .. Len(s) - 1
    BY <1>2, <1>6
  <2>2. ASSUME NEW j \in 1 .. Len(s) - 1 PROVE r[j] \in Range(s) /\ r[j] # n
    <3>1. j \in 1 .. Len(s) /\ j + 1 \in 1 .. Len(s) /\ (j < i => j # i) /\ (~ (j < i) => j + 1 # i)
      BY <1>2
    <3>2. /\ j < i => r[j] = s[j]
          /\ ~ (j < i) => r[j] = s[j + 1]
      BY <1>6
    <3> QED
      BY <1>2, <1>3, <1>9, <3>1, <3>2 DEF Range, n
  <2>3. ASSUME NEW j \in 1 .. Len(s), j # i PROVE \E l \in DOMAIN r : r[l] = s[j]
    <3>1. CASE j < i
      <4>1. j \in 1 .. Len(s) - 1 /\ r[j] = s[j]
        BY <1>2, <1>6, <3>1
      <4> QED
        BY <2>1, <4>1
    <3>2. CASE ~ (j < i)
      <4>1. j - 1 \in 1 .. Len(s) - 1 /\ ~ (j - 1 < i) /\ (j - 1) + 1 = j
        BY <1>2, <2>3, <3>2
      <4>2. r[j - 1] = s[j]
        BY <1>6, <4>1
      <4> QED
        BY <2>1, <4>1, <4>2
    <3> QED
      BY <3>1, <3>2
  <2>4. n \notin Range(r)
    BY <2>1, <2>2 DEF Range
  <2>5. Range(r) \subseteq Range(s)
    BY <2>1, <2>2 DEF Range
  <2>6. Range(s) \subseteq Range(r) \cup {n}
    BY <1>3, <2>3 DEF Range, n
  <2> QED
    BY <1>4, <2>4, <2>5, <2>6
<1>11. IsInjective(r)
  <2> SUFFICES ASSUME NEW a \in 1 .. Len(s) - 1, NEW b \in 1 .. Len(s) - 1, r[a] = r[b]
               PROVE  a = b
    BY <1>2, <1>6 DEF IsInjective
  <2> QED
    BY <1>2, <1>6, <1>9
<1>12. IsList(u, h, r)
  BY <1>1, <1>8, <1>10, <1>11 DEF IsList
<1>13. Represents(u, S, [L EXCEPT ![h] = r])
  <2>1. Unlinked(u, n)
    BY <1>4, <1>5 DEF Unlinked
  <2>2. \A x \in S : x \notin Ring(h, L[h]) /\ x # n =>
           u.next[x] = m.next[x] /\ u.prev[x] = m.prev[x]
    BY <1>4, <1>5 DEF s
  <2>3. Ring(h, r) \cup {n} = Ring(h, L[h]) \cup {n}
    BY <1>10 DEF s, Ring
  <2>4. \A g \in DOMAIN L \ {h} : n \notin Ring(g, L[g])
    BY <1>1, <1>4
  <2> QED
    BY <1>4, <1>5, <1>6, <1>12, <2>1, <2>2, <2>3, <2>4, OneListChanges, SMTT(30)
<1>14. ~ Listed([L EXCEPT ![h] = r], n)
  BY <1>1, <1>4, <1>10 DEF Listed, Ring
<1> QED
  BY <1>13, <1>14 DEF u, r, n, s

\* Removing a node that is in no list changes nothing: the scheduler relies on it
\* whenever it removes a link or an event_link without asking.
THEOREM RemoveUnlinkedIsNothing ==
    ASSUME NEW S, NEW m, NEW L, Represents(m, S, L), NEW n \in S, ~ Listed(L, n)
    PROVE  list_remove(m, n) = m
<1>1. m \in Memory(S) /\ m.next[n] = n /\ m.prev[n] = n
  BY DEF Represents, Listed, Unlinked
<1>2. [m.next EXCEPT ![n] = n, ![n] = n] = m.next /\ [m.prev EXCEPT ![n] = n, ![n] = n] = m.prev
  BY <1>1 DEF Memory
<1>3. m = [next |-> m.next, prev |-> m.prev]
  BY <1>1 DEF Memory
<1> QED
  BY <1>1, <1>2, <1>3 DEF list_remove
=============================================================================
