----------------------------- MODULE LockFreeQueue -----------------------------
(***************************************************************************)
(* LockFreeQueue<T>: singly linked nodes behind a dummy, _head and _tail   *)
(* and every next with a tag that counts its changes, and _size kept apart *)
(* from the links.  All queues of a type share one pool of nodes, whose    *)
(* memory is never given back, so a thread that stopped for long may look  *)
(* at a node that is in another queue by now.                              *)
(*                                                                         *)
(* One action is one access to memory another thread can see.  Any thread  *)
(* may enqueue and dequeue.                                                *)
(***************************************************************************)
EXTENDS Integers, Sequences, FiniteSets

CONSTANTS
  Threads, Queues, Nodes, Values,
  TagLimit,    \* TAG_MASK + 1
  MaxOps,      \* bound: operations of a thread
  NoNode,      \* nullptr
  Nothing      \* no value

ASSUME QueueAssumption ==
  /\ NoNode \notin Nodes /\ Nothing \notin Values
  /\ TagLimit \in Nat \ {0, 1} /\ MaxOps \in Nat
  /\ IsFiniteSet(Threads) /\ Queues # {}
  /\ \E f \in [Queues -> Nodes] : \A q, r \in Queues : f[q] = f[r] => q = r

VARIABLES
  \* memory
  next,    \* [Nodes -> Tagged]
  data,    \* [Nodes -> Values \cup {Nothing}]
  head,    \* [Queues -> Tagged]: _head
  tail,    \* [Queues -> Tagged]: _tail
  size,    \* [Queues -> Int]: _size
  free,    \* the nodes in s_nodePool
  \* the threads: what they do, and their local variables
  pc, queue, node, headTagged, tailTagged, nextTagged, value,
  ops,     \* operations begun
  got,     \* what the last Dequeue gave the thread
  order    \* history, [Queues -> Seq(Nodes)]: the nodes linked, the dummy first

memory == <<next, data, head, tail, size, free>>
locals == <<queue, node, headTagged, tailTagged, nextTagged, value>>
vars   == <<memory, pc, locals, ops, got, order>>

\* A tagged pointer.
Tagged       == [tag : 0 .. TagLimit - 1, ptr : Nodes \cup {NoNode}]

\* MakeTagged.
Make(tag, n) == [tag |-> tag % TagLimit, ptr |-> n]

Null         == Make(0, NoNode)

Init ==
  \E dummy \in [Queues -> Nodes] :
    /\ \A q, r \in Queues : dummy[q] = dummy[r] => q = r
    /\ next = [n \in Nodes |-> Make(IF \E q \in Queues : dummy[q] = n THEN 1 ELSE 0, NoNode)]
    /\ data = [n \in Nodes |-> Nothing]
    /\ head = [q \in Queues |-> Make(0, dummy[q])] /\ tail = head
    /\ size = [q \in Queues |-> 0]
    /\ free = Nodes \ {dummy[q] : q \in Queues}
    /\ pc = [t \in Threads |-> "idle"]
    /\ queue = [t \in Threads |-> CHOOSE q \in Queues : TRUE]
    /\ node = [t \in Threads |-> NoNode]
    /\ headTagged = [t \in Threads |-> Null] /\ tailTagged = headTagged
    /\ nextTagged = headTagged
    /\ value = [t \in Threads |-> Nothing]
    /\ ops = [t \in Threads |-> 0]
    /\ got = value
    /\ order = [q \in Queues |-> <<dummy[q]>>]

Begin(t, q) ==
  /\ pc[t] = "idle" /\ ops[t] < MaxOps
  /\ ops' = [ops EXCEPT ![t] = @ + 1]
  /\ queue' = [queue EXCEPT ![t] = q]

Go(t, from, to) == pc[t] = from /\ pc' = [pc EXCEPT ![t] = to]

\* The end of an operation: its local variables are gone.
End(t, from) ==
  /\ Go(t, from, "idle")
  /\ node' = [node EXCEPT ![t] = NoNode]
  /\ headTagged' = [headTagged EXCEPT ![t] = Null]
  /\ tailTagged' = [tailTagged EXCEPT ![t] = Null]
  /\ nextTagged' = [nextTagged EXCEPT ![t] = Null]
  /\ value' = [value EXCEPT ![t] = Nothing]
  /\ UNCHANGED <<queue, ops>>

\* InterlockedCompareExchange64 of _tail.
CasTail(t, n) ==
  tail' = IF tail[queue[t]] = tailTagged[t]
          THEN [tail EXCEPT ![queue[t]] = Make(tailTagged[t].tag + 1, n)]
          ELSE tail

----------------------------------------------------------------------------
(***************************************************************************)
(* Enqueue.                                                                *)
(***************************************************************************)

\* A mutant: the next of a node that is used again starts anew.
EnqAllocResets(t, q, v) ==
  /\ Begin(t, q) /\ pc' = [pc EXCEPT ![t] = "EnqTail"]
  /\ \E n \in free :
       /\ free' = free \ {n}
       /\ data' = [data EXCEPT ![n] = v]
       /\ next' = [next EXCEPT ![n] = Make(1, NoNode)]
       /\ node' = [node EXCEPT ![t] = n]
  /\ UNCHANGED <<head, tail, size, headTagged, tailTagged, nextTagged, value, got, order>>

EnqAlloc(t, q, v) ==
  /\ Begin(t, q) /\ pc' = [pc EXCEPT ![t] = "EnqTail"]
  /\ \E n \in free :
       /\ free' = free \ {n}
       /\ data' = [data EXCEPT ![n] = v]
       /\ next' = [next EXCEPT ![n] = Make(@.tag + 1, NoNode)]
       /\ node' = [node EXCEPT ![t] = n]
  /\ UNCHANGED <<head, tail, size, headTagged, tailTagged, nextTagged, value, got, order>>

EnqTail(t) ==
  /\ Go(t, "EnqTail", "EnqNext")
  /\ tailTagged' = [tailTagged EXCEPT ![t] = tail[queue[t]]]
  /\ UNCHANGED <<memory, queue, node, headTagged, nextTagged, value, ops, got, order>>

EnqNext(t) ==
  /\ Go(t, "EnqNext", "EnqCheck")
  /\ nextTagged' = [nextTagged EXCEPT ![t] = next[tailTagged[t].ptr]]
  /\ UNCHANGED <<memory, queue, node, headTagged, tailTagged, value, ops, got, order>>

\* A mutant: _tail is not looked at again.
EnqNoCheck(t) ==
  /\ Go(t, "EnqCheck", IF nextTagged[t].ptr = NoNode THEN "EnqLink" ELSE "EnqHelp")
  /\ UNCHANGED <<memory, locals, ops, got, order>>

EnqCheck(t) ==
  /\ Go(t, "EnqCheck", IF tail[queue[t]] # tailTagged[t] THEN "EnqTail"
                       ELSE IF nextTagged[t].ptr = NoNode THEN "EnqLink" ELSE "EnqHelp")
  /\ UNCHANGED <<memory, locals, ops, got, order>>

EnqHelp(t) ==
  /\ Go(t, "EnqHelp", "EnqTail")
  /\ CasTail(t, nextTagged[t].ptr)
  /\ UNCHANGED <<next, data, head, size, free, locals, ops, got, order>>

EnqLink(t) ==
  /\ Go(t, "EnqLink", "EnqSwing")
  /\ next[tailTagged[t].ptr] = nextTagged[t]
  /\ next' = [next EXCEPT ![tailTagged[t].ptr] = Make(nextTagged[t].tag + 1, node[t])]
  /\ order' = [order EXCEPT ![queue[t]] = Append(@, node[t])]
  /\ UNCHANGED <<data, head, tail, size, free, locals, ops, got>>

EnqLinkFails(t) ==
  /\ Go(t, "EnqLink", "EnqTail")
  /\ next[tailTagged[t].ptr] # nextTagged[t]
  /\ UNCHANGED <<memory, locals, ops, got, order>>

EnqSwing(t) ==
  /\ Go(t, "EnqSwing", "EnqCount")
  /\ CasTail(t, node[t])
  /\ UNCHANGED <<next, data, head, size, free, locals, ops, got, order>>

EnqCount(t) ==
  /\ End(t, "EnqCount")
  /\ size' = [size EXCEPT ![queue[t]] = @ + 1]
  /\ UNCHANGED <<next, data, head, tail, free, got, order>>

----------------------------------------------------------------------------
(***************************************************************************)
(* Dequeue.                                                                *)
(***************************************************************************)

\* A mutant: one more is let in.
DeqReserveMore(t, q) ==
  /\ Begin(t, q)
  /\ pc' = [pc EXCEPT ![t] = IF size[q] < 0 THEN "DeqUndo" ELSE "DeqHead"]
  /\ size' = [size EXCEPT ![q] = @ - 1]
  /\ UNCHANGED <<next, data, head, tail, free, node, headTagged, tailTagged, nextTagged,
                 value, got, order>>

DeqReserve(t, q) ==
  /\ Begin(t, q)
  /\ pc' = [pc EXCEPT ![t] = IF size[q] - 1 < 0 THEN "DeqUndo" ELSE "DeqHead"]
  /\ size' = [size EXCEPT ![q] = @ - 1]
  /\ UNCHANGED <<next, data, head, tail, free, node, headTagged, tailTagged, nextTagged,
                 value, got, order>>

\* A mutant: the size stays as it is.
DeqUndoNothing(t) ==
  /\ End(t, "DeqUndo")
  /\ got' = [got EXCEPT ![t] = Nothing]
  /\ UNCHANGED <<memory, order>>

DeqUndo(t) ==
  /\ End(t, "DeqUndo")
  /\ size' = [size EXCEPT ![queue[t]] = @ + 1]
  /\ got' = [got EXCEPT ![t] = Nothing]
  /\ UNCHANGED <<next, data, head, tail, free, order>>

DeqHead(t) ==
  /\ Go(t, "DeqHead", "DeqTail")
  /\ headTagged' = [headTagged EXCEPT ![t] = head[queue[t]]]
  /\ UNCHANGED <<memory, queue, node, tailTagged, nextTagged, value, ops, got, order>>

DeqTail(t) ==
  /\ Go(t, "DeqTail", "DeqNext")
  /\ tailTagged' = [tailTagged EXCEPT ![t] = tail[queue[t]]]
  /\ UNCHANGED <<memory, queue, node, headTagged, nextTagged, value, ops, got, order>>

DeqNext(t) ==
  LET h == headTagged[t].ptr
  IN  /\ Go(t, "DeqNext", IF next[h].ptr = NoNode THEN "DeqHead"
                          ELSE IF h = tailTagged[t].ptr THEN "DeqHelp" ELSE "DeqData")
      /\ nextTagged' = [nextTagged EXCEPT ![t] = next[h]]
      /\ UNCHANGED <<memory, queue, node, headTagged, tailTagged, value, ops, got, order>>

DeqHelp(t) ==
  /\ Go(t, "DeqHelp", "DeqHead")
  /\ CasTail(t, nextTagged[t].ptr)
  /\ UNCHANGED <<next, data, head, size, free, locals, ops, got, order>>

DeqData(t) ==
  /\ Go(t, "DeqData", "DeqUnlink")
  /\ value' = [value EXCEPT ![t] = data[nextTagged[t].ptr]]
  /\ UNCHANGED <<memory, queue, node, headTagged, tailTagged, nextTagged, ops, got, order>>

DeqUnlink(t) ==
  /\ Go(t, "DeqUnlink", "DeqFree")
  /\ head[queue[t]] = headTagged[t]
  /\ head' = [head EXCEPT ![queue[t]] = Make(headTagged[t].tag + 1, nextTagged[t].ptr)]
  /\ got' = [got EXCEPT ![t] = value[t]]
  /\ order' = [order EXCEPT ![queue[t]] = Tail(@)]
  /\ UNCHANGED <<next, data, tail, size, free, locals, ops>>

DeqUnlinkFails(t) ==
  /\ Go(t, "DeqUnlink", "DeqHead")
  /\ head[queue[t]] # headTagged[t]
  /\ UNCHANGED <<memory, locals, ops, got, order>>

DeqFree(t) ==
  /\ End(t, "DeqFree")
  /\ free' = free \cup {headTagged[t].ptr}
  /\ UNCHANGED <<next, data, head, tail, size, got, order>>

----------------------------------------------------------------------------
Enqueue(t) ==
  \/ EnqTail(t) \/ EnqNext(t) \/ EnqCheck(t) \/ EnqHelp(t) \/ EnqLink(t) \/ EnqLinkFails(t)
  \/ EnqSwing(t) \/ EnqCount(t)

Dequeue(t) ==
  \/ DeqUndo(t) \/ DeqHead(t) \/ DeqTail(t) \/ DeqNext(t) \/ DeqHelp(t) \/ DeqData(t)
  \/ DeqUnlink(t) \/ DeqUnlinkFails(t) \/ DeqFree(t)

Next ==
  \E t \in Threads :
    \/ Enqueue(t) \/ Dequeue(t)
    \/ \E q \in Queues : DeqReserve(t, q) \/ \E v \in Values : EnqAlloc(t, q, v)

Spec == Init /\ [][Next]_vars

----------------------------------------------------------------------------
(***************************************************************************)
(* Properties.                                                             *)
(***************************************************************************)

\* Every variable holds a value of its type.
TypeOK ==
  /\ next \in [Nodes -> Tagged] /\ data \in [Nodes -> Values \cup {Nothing}]
  /\ {head, tail} \subseteq [Queues -> [tag : 0 .. TagLimit - 1, ptr : Nodes]]
  /\ size \in [Queues -> Int] /\ free \subseteq Nodes
  /\ queue \in [Threads -> Queues] /\ node \in [Threads -> Nodes \cup {NoNode}]
  /\ headTagged \in [Threads -> Tagged] /\ tailTagged \in [Threads -> Tagged]
  /\ nextTagged \in [Threads -> Tagged]
  /\ value \in [Threads -> Values \cup {Nothing}] /\ got \in [Threads -> Values \cup {Nothing}]
  /\ ops \in [Threads -> 0 .. MaxOps]

In(q) == {order[q][i] : i \in 1 .. Len(order[q])}

\* The nodes from _head on are those that were linked and not yet removed, in
\* that order, and the last one's next is null; _tail is one of the last two.
ChainExact ==
  \A q \in Queues :
    LET c == order[q]
    IN  /\ c # <<>> /\ head[q].ptr = c[1]
        /\ \A i \in 1 .. Len(c) - 1 : next[c[i]].ptr = c[i + 1]
        /\ next[c[Len(c)]].ptr = NoNode
        /\ tail[q].ptr \in {c[i] : i \in {Len(c) - 1, Len(c)} \ {0}}

Places(n) ==
  Cardinality({q \in Queues : n \in In(q)})
  + Cardinality({t \in Threads : pc[t] \in {"EnqTail", "EnqNext", "EnqCheck", "EnqHelp", "EnqLink"}
                                 /\ node[t] = n})
  + Cardinality({t \in Threads : pc[t] = "DeqFree" /\ headTagged[t].ptr = n})
  + IF n \in free THEN 1 ELSE 0

\* Every node is in one queue, or with the thread about to link or to free it,
\* or in the pool: none is lost, freed twice or in two queues; and the links in
\* memory say so.
NodesInOnePlace == ChainExact /\ \A n \in Nodes : Places(n) = 1

At(q, labels) == Cardinality({t \in Threads : queue[t] = q /\ pc[t] \in labels})

\* _size is the number of values, less those linked and not counted yet, those
\* a Dequeue has reserved, and the Dequeues that are about to fail.
SizeExact ==
  \A q \in Queues :
    size[q] = Len(order[q]) - 1 - At(q, {"EnqSwing", "EnqCount"}) - At(q, {"DeqUndo"})
              - At(q, {"DeqHead", "DeqTail", "DeqNext", "DeqHelp", "DeqData", "DeqUnlink"})

\* A Dequeue that was let in has a value to wait for: it never spins on a queue
\* that has run empty.
ReservedIsThere ==
  \A q \in Queues :
    At(q, {"DeqHead", "DeqTail", "DeqNext", "DeqHelp", "DeqData", "DeqUnlink"})
      <= Len(order[q]) - 1

\* Where a thread remembers what it read of _head, of _tail and of a next, to be
\* compared with it later.
HeadRead == {"DeqTail", "DeqNext", "DeqData", "DeqUnlink"}
TailRead == {"EnqNext", "EnqCheck", "EnqHelp", "EnqLink", "EnqSwing", "DeqNext", "DeqHelp"}
NextRead == {"EnqCheck", "EnqLink"}

\* A word that t remembers and that was changed does not come back to what t read.
NoReturn(t) ==
  /\ pc[t] \in HeadRead /\ head[queue[t]] # headTagged[t]
       => head'[queue[t]] # headTagged[t]
  /\ pc[t] \in TailRead /\ tail[queue[t]] # tailTagged[t]
       => tail'[queue[t]] # tailTagged[t]
  /\ pc[t] \in NextRead /\ next[tailTagged[t].ptr] # nextTagged[t]
       => next'[tailTagged[t].ptr] # nextTagged[t]

\* The tags tell a word of _head, _tail or next that was changed from one that was
\* not, as long as a thread may still compare it with what it read: it takes a
\* sleep through TagLimit changes of one word to break this.
TagsTell == [][\A t \in Threads : NoReturn(t)]_vars

Abstract == INSTANCE Fifo WITH
  items <- [q \in Queues |-> [i \in 1 .. Len(order[q]) - 1 |-> data[order[q][i + 1]]]]

\* Values come out in the order they were linked, each once, from their queue.
ImplementsFifo == Abstract!Spec

=============================================================================
