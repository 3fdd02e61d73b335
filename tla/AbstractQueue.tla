--------------------------- MODULE AbstractQueue ---------------------------
(***************************************************************************)
(* What a bounded message queue promises: items come out once, whole, and  *)
(* in the order they went in, and there are never more than Capacity.      *)
(***************************************************************************)
EXTENDS Integers, Sequences

CONSTANTS Task, Item, Capacity, None

VARIABLES
    items,  \* the items in the queue, oldest first
    out     \* out[t]: the item t received last
avars == <<items, out>>

Init == items = << >> /\ out = [t \in Task |-> None]

Put(x) == /\ Len(items) < Capacity
          /\ items' = Append(items, x)
          /\ UNCHANGED out

Get(t) == /\ items # << >>
          /\ items' = Tail(items)
          /\ out' = [out EXCEPT ![t] = Head(items)]

Next == (\E x \in Item : Put(x)) \/ (\E t \in Task : Get(t))

Spec == Init /\ [][Next]_avars
=============================================================================
