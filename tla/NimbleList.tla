----------------------------- MODULE NimbleList -----------------------------
(***************************************************************************)
(* The intrusive circular doubly linked list of nimble_list.h.  A memory m *)
(* has two fields, m.next and m.prev, functions from nodes to nodes; a     *)
(* list head is a node as any other, and a node that is in no list points  *)
(* to itself.  Each operator is a C function, from memory to memory.       *)
(***************************************************************************)
EXTENDS Sequences, Naturals

\* nimble_list_init of every node of S.
list_init(S) == [next |-> [n \in S |-> n], prev |-> [n \in S |-> n]]

list_is_empty(m, head) == m.next[head] = head

\* Link node in front of another; nimble_list_insert_tail links it in front of
\* the head.
insert_before(m, other, node) ==
    LET last == m.prev[other]
    IN  [next |-> [m.next EXCEPT ![node] = other, ![last] = node],
         prev |-> [m.prev EXCEPT ![node] = last, ![other] = node]]

insert_tail(m, head, node) == insert_before(m, head, node)

\* Mutant: the node keeps its own pointers.
Bug_list_remove_dangling(m, node) ==
    [next |-> [m.next EXCEPT ![m.prev[node]] = m.next[node]],
     prev |-> [m.prev EXCEPT ![m.next[node]] = m.prev[node]]]

list_remove(m, node) ==
    [next |-> [m.next EXCEPT ![m.prev[node]] = m.next[node], ![node] = node],
     prev |-> [m.prev EXCEPT ![m.next[node]] = m.prev[node], ![node] = node]]

-----------------------------------------------------------------------------
(* What a memory stands for. *)

\* Every pointer is answered by one in the other direction.
WellLinked(m) == \A n \in DOMAIN m.next : m.prev[m.next[n]] = n /\ m.next[m.prev[n]] = n
=============================================================================
