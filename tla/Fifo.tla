--------------------------------- MODULE Fifo ---------------------------------
(***************************************************************************)
(* What LockFreeQueue promises: queues that give their values out in the   *)
(* order they took them in, each value once.                               *)
(***************************************************************************)
EXTENDS Sequences

CONSTANTS Threads, Queues, Values, Nothing

VARIABLES
  items,   \* [Queues -> Seq(Values)]
  got      \* [Threads -> Values \cup {Nothing}]: what its last Dequeue gave a thread

Init ==
  /\ items = [q \in Queues |-> <<>>]
  /\ got = [t \in Threads |-> Nothing]

Enqueue(q, v) == items' = [items EXCEPT ![q] = Append(@, v)] /\ UNCHANGED got

Dequeue(t, q) ==
  /\ items[q] # <<>>
  /\ got' = [got EXCEPT ![t] = Head(items[q])]
  /\ items' = [items EXCEPT ![q] = Tail(@)]

\* Dequeue returns FALSE.
Fail(t) == got' = [got EXCEPT ![t] = Nothing] /\ UNCHANGED items

Next ==
  \E t \in Threads :
    \/ Fail(t)
    \/ \E q \in Queues : Dequeue(t, q) \/ \E v \in Values : Enqueue(q, v)

Spec == Init /\ [][Next]_<<items, got>>

=============================================================================
