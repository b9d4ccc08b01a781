-------------------------- MODULE LockFreeQueueProofs --------------------------
(***************************************************************************)
(* LockFreeQueue: its nodes, its sizes, and that it implements Fifo:       *)
(* proofs, for any number of threads, queues and nodes.  What is said of   *)
(* the nodes and of the order of values takes that the tags tell a changed *)
(* word from one that was not (TagsTell); what is said of sizes does not.  *)
(***************************************************************************)
EXTENDS LockFreeQueue, FiniteSetTheorems, SequenceTheorems, TLAPS

----------------------------------------------------------------------------
(***************************************************************************)
(* The inductive invariant.                                                *)
(***************************************************************************)

\* An Enqueue has a node of its own; a Dequeue was let in.
Linking  == {"EnqTail", "EnqNext", "EnqCheck", "EnqHelp", "EnqLink"}
Reserved == {"DeqHead", "DeqTail", "DeqNext", "DeqHelp", "DeqData", "DeqUnlink"}
Counting == {"EnqSwing", "EnqCount"}
Labels   == {"idle", "DeqUndo", "DeqFree"} \cup Linking \cup Counting \cup Reserved

Word == [tag : Int, ptr : Nodes \cup {NoNode}]

QueueType ==
  /\ next \in [Nodes -> Word] /\ data \in [Nodes -> Values \cup {Nothing}]
  /\ head \in [Queues -> Word] /\ tail \in [Queues -> Word]
  /\ size \in [Queues -> Int] /\ free \subseteq Nodes
  /\ pc \in [Threads -> Labels] /\ queue \in [Threads -> Queues]
  /\ node \in [Threads -> Nodes \cup {NoNode}]
  /\ headTagged \in [Threads -> Word] /\ tailTagged \in [Threads -> Word]
  /\ nextTagged \in [Threads -> Word]
  /\ value \in [Threads -> Values \cup {Nothing}] /\ got \in [Threads -> Values \cup {Nothing}]
  /\ order \in [Queues -> Seq(Nodes)]

Size(q) == Len(order[q])
Last(q) == order[q][Size(q)]

\* The nodes of q hang together, and none is in it twice.
ChainOK(q) ==
  /\ Size(q) >= 1 /\ head[q].ptr = order[q][1]
  /\ \A i, j \in 1 .. Size(q) : order[q][i] = order[q][j] => i = j
  /\ \A i \in 1 .. Size(q) - 1 : next[order[q][i]].ptr = order[q][i + 1]
  /\ next[Last(q)].ptr = NoNode
  /\ \/ tail[q].ptr = Last(q)
     \/ Size(q) >= 2 /\ tail[q].ptr = order[q][Size(q) - 1]

\* A node that thread t is about to link, or to free.
Has(t, n) ==
  \/ pc[t] \in Linking /\ node[t] = n
  \/ pc[t] = "DeqFree" /\ headTagged[t].ptr = n

\* Nodes are in one place.
Apart(n) ==
  /\ \A q, r \in Queues : n \in In(q) /\ n \in In(r) => q = r
  /\ \A q \in Queues : n \in In(q) => n \notin free
  /\ \A t \in Threads : Has(t, n) =>
       /\ n \notin free
       /\ \A q \in Queues : n \notin In(q)
       /\ \A u \in Threads : Has(u, n) => u = t
  /\ \/ n \in free
     \/ \E q \in Queues : n \in In(q)
     \/ \E t \in Threads : Has(t, n)

\* The pointers a thread follows.
PointersOK(t) ==
  /\ pc[t] \in Linking \cup {"EnqSwing"} => node[t] \in Nodes
  /\ pc[t] \in TailRead => tailTagged[t].ptr \in Nodes
  /\ pc[t] \in HeadRead \cup {"DeqHelp", "DeqFree"} => headTagged[t].ptr \in Nodes
  /\ pc[t] \in {"EnqHelp", "DeqHelp", "DeqData", "DeqUnlink"} => nextTagged[t].ptr \in Nodes

\* What the local variables of a thread hold where it uses them.
LocalOK(t) ==
  /\ PointersOK(t)
  /\ pc[t] \in Linking => next[node[t]].ptr = NoNode /\ data[node[t]] \in Values
  /\ pc[t] = "EnqLink" => nextTagged[t].ptr = NoNode

\* If _tail is still what t read, it is behind, and n is where it should be.
Behind(t, n) ==
  tail[queue[t]] = tailTagged[t] =>
    /\ Size(queue[t]) >= 2
    /\ tail[queue[t]].ptr = order[queue[t]][Size(queue[t]) - 1]
    /\ n = Last(queue[t])

\* What a thread may conclude from a word that is still what it read.
SeenOK(t) ==
  LET q == queue[t] IN
  /\ pc[t] = "EnqCheck" /\ nextTagged[t].ptr # NoNode => Behind(t, nextTagged[t].ptr)
  /\ pc[t] \in {"EnqHelp", "DeqHelp"} => Behind(t, nextTagged[t].ptr)
  /\ pc[t] = "EnqSwing" => Behind(t, node[t])
  /\ pc[t] = "EnqLink" /\ next[tailTagged[t].ptr] = nextTagged[t] =>
       tail[q] = tailTagged[t] /\ tailTagged[t].ptr = Last(q)
  /\ pc[t] = "DeqNext" /\ tailTagged[t].ptr # headTagged[t].ptr /\ head[q] = headTagged[t] =>
       tail[q].ptr # head[q].ptr
  /\ pc[t] \in {"DeqData", "DeqUnlink"} /\ head[q] = headTagged[t] =>
       tail[q].ptr # head[q].ptr /\ Size(q) >= 2 /\ nextTagged[t].ptr = order[q][2]
  /\ pc[t] = "DeqUnlink" /\ head[q] = headTagged[t] => value[t] = data[order[q][2]]

QueueInv ==
  /\ QueueType
  /\ \A q \in Queues : ChainOK(q)
  /\ \A n \in Nodes : Apart(n)
  /\ \A t \in Threads : LocalOK(t) /\ SeenOK(t)

----------------------------------------------------------------------------
(***************************************************************************)
(* Steps.                                                                  *)
(***************************************************************************)

Moves(t) ==
  \/ Enqueue(t) \/ Dequeue(t)
  \/ \E q \in Queues : DeqReserve(t, q) \/ \E v \in Values : EnqAlloc(t, q, v)

\* Making a tagged pointer.
LEMMA MakeWord ==
  ASSUME NEW k \in Int, NEW n \in Nodes \cup {NoNode}
  PROVE  Make(k, n) \in Word /\ Make(k, n).ptr = n
BY QueueAssumption DEF Make, Word

\* A step of one thread leaves the others where they are.
LEMMA OthersStay ==
  ASSUME QueueType, NEW t \in Threads, Moves(t), NEW u \in Threads, u # t
  PROVE  /\ pc'[u] = pc[u] /\ queue'[u] = queue[u] /\ node'[u] = node[u]
         /\ headTagged'[u] = headTagged[u] /\ tailTagged'[u] = tailTagged[u]
         /\ nextTagged'[u] = nextTagged[u] /\ value'[u] = value[u]
<1>1. QueueType
  OBVIOUS
<1> USE DEF locals, QueueType
<1>10. CASE EnqTail(t)
  BY <1>1, <1>10 DEF EnqTail, Go
<1>11. CASE EnqNext(t)
  BY <1>1, <1>11 DEF EnqNext, Go
<1>12. CASE EnqCheck(t)
  BY <1>1, <1>12 DEF EnqCheck, Go
<1>13. CASE EnqHelp(t)
  BY <1>1, <1>13 DEF EnqHelp, Go, CasTail
<1>14. CASE EnqLink(t)
  BY <1>1, <1>14 DEF EnqLink, Go
<1>15. CASE EnqLinkFails(t)
  BY <1>1, <1>15 DEF EnqLinkFails, Go
<1>16. CASE EnqSwing(t)
  BY <1>1, <1>16 DEF EnqSwing, Go, CasTail
<1>17. CASE EnqCount(t)
  BY <1>1, <1>17 DEF EnqCount, Go, End
<1>18. CASE DeqUndo(t)
  BY <1>1, <1>18 DEF DeqUndo, Go, End
<1>19. CASE DeqHead(t)
  BY <1>1, <1>19 DEF DeqHead, Go
<1>20. CASE DeqTail(t)
  BY <1>1, <1>20 DEF DeqTail, Go
<1>21. CASE DeqNext(t)
  BY <1>1, <1>21 DEF DeqNext, Go
<1>22. CASE DeqHelp(t)
  BY <1>1, <1>22 DEF DeqHelp, Go, CasTail
<1>23. CASE DeqData(t)
  BY <1>1, <1>23 DEF DeqData, Go
<1>24. CASE DeqUnlink(t)
  BY <1>1, <1>24 DEF DeqUnlink, Go
<1>25. CASE DeqUnlinkFails(t)
  BY <1>1, <1>25 DEF DeqUnlinkFails, Go
<1>26. CASE DeqFree(t)
  BY <1>1, <1>26 DEF DeqFree, Go, End
<1>27. ASSUME NEW q1 \in Queues, DeqReserve(t, q1)
      PROVE  /\ pc'[u] = pc[u] /\ queue'[u] = queue[u] /\ node'[u] = node[u]
             /\ headTagged'[u] = headTagged[u] /\ tailTagged'[u] = tailTagged[u]
             /\ nextTagged'[u] = nextTagged[u] /\ value'[u] = value[u]
  BY <1>1, <1>27 DEF DeqReserve, Begin
<1>28. ASSUME NEW q1 \in Queues, NEW v \in Values, EnqAlloc(t, q1, v)
      PROVE  /\ pc'[u] = pc[u] /\ queue'[u] = queue[u] /\ node'[u] = node[u]
             /\ headTagged'[u] = headTagged[u] /\ tailTagged'[u] = tailTagged[u]
             /\ nextTagged'[u] = nextTagged[u] /\ value'[u] = value[u]
  BY <1>1, <1>28 DEF EnqAlloc, Begin
<1> QED
  BY <1>10, <1>11, <1>12, <1>13, <1>14, <1>15, <1>16, <1>17, <1>18, <1>19, <1>20, <1>21, <1>22, <1>23, <1>24, <1>25, <1>26, <1>27, <1>28 DEF Moves, Enqueue, Dequeue

\* Every variable keeps its type.
LEMMA MoveTypes ==
  ASSUME QueueType, NEW t \in Threads, PointersOK(t), Size(queue[t]) >= 1, Moves(t)
  PROVE  QueueType'
<1>1. QueueType /\ PointersOK(t) /\ queue[t] \in Queues /\ Size(queue[t]) >= 1
  BY DEF QueueType
<1>2. \A k \in Int, n \in Nodes \cup {NoNode} : Make(k, n) \in Word
  BY MakeWord
<1>3. Null \in Word /\ Nothing \in Values \cup {Nothing}
  BY <1>2 DEF Null
<1>4. \A w \in Word : w.ptr \in Nodes \cup {NoNode} /\ w.tag + 1 \in Int
  BY DEF Word
<1> HIDE DEF Null, Make, Word
<1> USE DEF memory, locals, QueueType, PointersOK, Labels, Linking, Reserved, Counting, HeadRead, TailRead, NextRead
<1>10. CASE EnqTail(t)
  BY <1>1, <1>2, <1>3, <1>4, <1>10 DEF EnqTail, Go
<1>11. CASE EnqNext(t)
  BY <1>1, <1>2, <1>3, <1>4, <1>11 DEF EnqNext, Go
<1>12. CASE EnqCheck(t)
  BY <1>1, <1>2, <1>3, <1>4, <1>12 DEF EnqCheck, Go
<1>13. CASE EnqHelp(t)
  BY <1>1, <1>2, <1>3, <1>4, <1>13 DEF EnqHelp, Go, CasTail
<1>14. CASE EnqLink(t)
  BY <1>1, <1>2, <1>3, <1>4, <1>14 DEF EnqLink, Go
<1>15. CASE EnqLinkFails(t)
  BY <1>1, <1>2, <1>3, <1>4, <1>15 DEF EnqLinkFails, Go
<1>16. CASE EnqSwing(t)
  BY <1>1, <1>2, <1>3, <1>4, <1>16 DEF EnqSwing, Go, CasTail
<1>17. CASE EnqCount(t)
  BY <1>1, <1>2, <1>3, <1>4, <1>17 DEF EnqCount, Go, End
<1>18. CASE DeqUndo(t)
  BY <1>1, <1>2, <1>3, <1>4, <1>18 DEF DeqUndo, Go, End
<1>19. CASE DeqHead(t)
  BY <1>1, <1>2, <1>3, <1>4, <1>19 DEF DeqHead, Go
<1>20. CASE DeqTail(t)
  BY <1>1, <1>2, <1>3, <1>4, <1>20 DEF DeqTail, Go
<1>21. CASE DeqNext(t)
  BY <1>1, <1>2, <1>3, <1>4, <1>21 DEF DeqNext, Go
<1>22. CASE DeqHelp(t)
  BY <1>1, <1>2, <1>3, <1>4, <1>22 DEF DeqHelp, Go, CasTail
<1>23. CASE DeqData(t)
  BY <1>1, <1>2, <1>3, <1>4, <1>23 DEF DeqData, Go
<1>24. CASE DeqUnlink(t)
  <2>1. Size(queue[t]) >= 1 /\ order[queue[t]] \in Seq(Nodes)
    BY <1>1
  <2>2. Tail(order[queue[t]]) \in Seq(Nodes)
    BY <2>1 DEF Size
  <2> QED
    BY <1>1, <1>2, <1>3, <1>4, <2>2, <1>24 DEF DeqUnlink, Go
<1>25. CASE DeqUnlinkFails(t)
  BY <1>1, <1>2, <1>3, <1>4, <1>25 DEF DeqUnlinkFails, Go
<1>26. CASE DeqFree(t)
  BY <1>1, <1>2, <1>3, <1>4, <1>26 DEF DeqFree, Go, End
<1>27. ASSUME NEW q1 \in Queues, DeqReserve(t, q1)
      PROVE  QueueType'
  BY <1>1, <1>2, <1>3, <1>4, <1>27 DEF DeqReserve, Begin
<1>28. ASSUME NEW q1 \in Queues, NEW v \in Values, EnqAlloc(t, q1, v)
      PROVE  QueueType'
  BY <1>1, <1>2, <1>3, <1>4, <1>28 DEF EnqAlloc, Begin
<1> QED
  BY <1>10, <1>11, <1>12, <1>13, <1>14, <1>15, <1>16, <1>17, <1>18, <1>19, <1>20, <1>21, <1>22, <1>23, <1>24, <1>25, <1>26, <1>27, <1>28 DEF Moves, Enqueue, Dequeue

----------------------------------------------------------------------------
(***************************************************************************)
(* What steps do to the memory.                                            *)
(***************************************************************************)

KeepsHold(t) == \A n \in Nodes : Has(t, n)' <=> Has(t, n)

\* Nothing changes that others see, but for _size.
Quiet(t) == UNCHANGED <<next, data, head, tail, free, order>> /\ KeepsHold(t)

\* _tail goes on to n, or stays.
Swings(t, n) ==
  /\ Behind(t, n) /\ KeepsHold(t)
  /\ \/ tail' = tail
     \/ /\ tail[queue[t]] = tailTagged[t]
        /\ tail' = [tail EXCEPT ![queue[t]] = Make(tailTagged[t].tag + 1, n)]
  /\ UNCHANGED <<next, data, head, free, order>>

Links(t) ==
  /\ pc[t] = "EnqLink" /\ pc'[t] = "EnqSwing"
  /\ next[tailTagged[t].ptr] = nextTagged[t]
  /\ next' = [next EXCEPT ![tailTagged[t].ptr] = Make(nextTagged[t].tag + 1, node[t])]
  /\ order' = [order EXCEPT ![queue[t]] = Append(order[queue[t]], node[t])]
  /\ UNCHANGED <<data, head, tail, free, locals>>

Unlinks(t) ==
  /\ pc[t] = "DeqUnlink" /\ pc'[t] = "DeqFree"
  /\ head[queue[t]] = headTagged[t]
  /\ head' = [head EXCEPT ![queue[t]] = Make(headTagged[t].tag + 1, nextTagged[t].ptr)]
  /\ order' = [order EXCEPT ![queue[t]] = Tail(order[queue[t]])]
  /\ UNCHANGED <<next, data, tail, free, locals>>

Allocs(t, n, v) ==
  /\ pc[t] = "idle" /\ pc'[t] = "EnqTail" /\ node' = [node EXCEPT ![t] = n]
  /\ free' = free \ {n} /\ data' = [data EXCEPT ![n] = v]
  /\ next' = [next EXCEPT ![n] = Make(next[n].tag + 1, NoNode)]
  /\ UNCHANGED <<head, tail, order>>

Frees(t) ==
  /\ pc[t] = "DeqFree" /\ pc'[t] = "idle"
  /\ free' = free \cup {headTagged[t].ptr}
  /\ UNCHANGED <<next, data, head, tail, order>>

Does(t) ==
  \/ Quiet(t) \/ Links(t) \/ Unlinks(t) \/ Frees(t)
  \/ \E n \in Nodes : Swings(t, n)
  \/ \E n \in free, v \in Values : Allocs(t, n, v)

\* Every step is one of these.
LEMMA Effects ==
  ASSUME QueueInv, NEW t \in Threads, Moves(t)
  PROVE  Does(t)
<1>1. QueueType /\ LocalOK(t) /\ SeenOK(t)
  BY DEF QueueInv
<1>2. NoNode \notin Nodes
  BY QueueAssumption
<1> USE DEF memory, locals, QueueType, LocalOK, PointersOK, SeenOK, Does, Quiet, Swings, Links, Unlinks, Allocs, Frees, KeepsHold, Has, Labels, Linking, Reserved, Counting, HeadRead, TailRead, NextRead
<1>10. CASE EnqTail(t)
  BY <1>1, <1>2, <1>10 DEF EnqTail, Go
<1>11. CASE EnqNext(t)
  BY <1>1, <1>2, <1>11 DEF EnqNext, Go
<1>12. CASE EnqCheck(t)
  BY <1>1, <1>2, <1>12 DEF EnqCheck, Go
<1>13. CASE EnqHelp(t)
  BY <1>1, <1>2, <1>13 DEF EnqHelp, Go, CasTail
<1>14. CASE EnqLink(t)
  BY <1>1, <1>2, <1>14 DEF EnqLink, Go
<1>15. CASE EnqLinkFails(t)
  BY <1>1, <1>2, <1>15 DEF EnqLinkFails, Go
<1>16. CASE EnqSwing(t)
  BY <1>1, <1>2, <1>16 DEF EnqSwing, Go, CasTail
<1>17. CASE EnqCount(t)
  BY <1>1, <1>2, <1>17 DEF EnqCount, Go, End
<1>18. CASE DeqUndo(t)
  BY <1>1, <1>2, <1>18 DEF DeqUndo, Go, End
<1>19. CASE DeqHead(t)
  BY <1>1, <1>2, <1>19 DEF DeqHead, Go
<1>20. CASE DeqTail(t)
  BY <1>1, <1>2, <1>20 DEF DeqTail, Go
<1>21. CASE DeqNext(t)
  BY <1>1, <1>2, <1>21 DEF DeqNext, Go
<1>22. CASE DeqHelp(t)
  BY <1>1, <1>2, <1>22 DEF DeqHelp, Go, CasTail
<1>23. CASE DeqData(t)
  BY <1>1, <1>2, <1>23 DEF DeqData, Go
<1>24. CASE DeqUnlink(t)
  BY <1>1, <1>2, <1>24 DEF DeqUnlink, Go
<1>25. CASE DeqUnlinkFails(t)
  BY <1>1, <1>2, <1>25 DEF DeqUnlinkFails, Go
<1>26. CASE DeqFree(t)
  BY <1>1, <1>2, <1>26 DEF DeqFree, Go, End
<1>27. ASSUME NEW q1 \in Queues, DeqReserve(t, q1)
      PROVE  Does(t)
  BY <1>1, <1>2, <1>27 DEF DeqReserve, Begin
<1>28. ASSUME NEW q1 \in Queues, NEW v \in Values, EnqAlloc(t, q1, v)
      PROVE  Does(t)
  <2>1. PICK n \in free : /\ free' = free \ {n} /\ data' = [data EXCEPT ![n] = v]
                           /\ next' = [next EXCEPT ![n] = Make(next[n].tag + 1, NoNode)]
                           /\ node' = [node EXCEPT ![t] = n]
    BY <1>1, <1>28 DEF EnqAlloc
  <2>2. Allocs(t, n, v)
    BY <1>1, <2>1, <1>28 DEF EnqAlloc, Begin
  <2> QED
    BY <2>1, <2>2
<1> QED
  BY <1>10, <1>11, <1>12, <1>13, <1>14, <1>15, <1>16, <1>17, <1>18, <1>19, <1>20, <1>21, <1>22, <1>23, <1>24, <1>25, <1>26, <1>27, <1>28 DEF Moves, Enqueue, Dequeue

----------------------------------------------------------------------------
(***************************************************************************)
(* What becomes of the invariant.                                          *)
(***************************************************************************)

\* Taking the first of a sequence off, and adding one at its end.
LEMMA TailFacts ==
  ASSUME NEW s \in Seq(Nodes), Len(s) >= 1
  PROVE  /\ Len(Tail(s)) = Len(s) - 1
         /\ \A i \in 1 .. Len(s) - 1 : Tail(s)[i] = s[i + 1]
OBVIOUS

LEMMA AppendFacts ==
  ASSUME NEW s \in Seq(Nodes), NEW n \in Nodes
  PROVE  /\ Len(Append(s, n)) = Len(s) + 1 /\ Append(s, n)[Len(s) + 1] = n
         /\ \A i \in 1 .. Len(s) : Append(s, n)[i] = s[i]
OBVIOUS

\* The first two and the last two nodes of a queue.
LEMMA ChainFacts ==
  ASSUME QueueInv, NEW q \in Queues
  PROVE  /\ order[q] \in Seq(Nodes) /\ Size(q) \in Nat /\ Size(q) >= 1
         /\ \A i \in 1 .. Size(q) : order[q][i] \in Nodes
         /\ Last(q) \in Nodes /\ order[q][1] \in Nodes
         /\ next[Last(q)].ptr = NoNode /\ head[q].ptr = order[q][1]
         /\ Size(q) >= 2 =>
              /\ next[order[q][1]].ptr = order[q][2] /\ order[q][2] \in Nodes
              /\ order[q][1] # order[q][2] /\ order[q][1] # Last(q)
              /\ next[order[q][Size(q) - 1]].ptr = Last(q)
              /\ order[q][Size(q) - 1] # Last(q) /\ order[q][Size(q) - 1] \in Nodes
         /\ Size(q) = 1 => Last(q) = order[q][1]
<1>1. order[q] \in Seq(Nodes) /\ ChainOK(q)
  BY DEF QueueInv, QueueType
<1>2. Size(q) \in Nat /\ Size(q) >= 1 /\ \A i \in 1 .. Size(q) : order[q][i] \in Nodes
  BY <1>1 DEF Size, ChainOK
<1>3. ASSUME Size(q) >= 2
      PROVE  /\ next[order[q][1]].ptr = order[q][2]
             /\ order[q][1] # order[q][2] /\ order[q][1] # Last(q)
             /\ next[order[q][Size(q) - 1]].ptr = Last(q)
             /\ order[q][Size(q) - 1] # Last(q)
  <2>1. /\ 1 \in 1 .. Size(q) /\ 2 \in 1 .. Size(q) /\ Size(q) \in 1 .. Size(q)
        /\ Size(q) - 1 \in 1 .. Size(q) /\ Size(q) - 1 # Size(q) /\ 1 # Size(q)
        /\ 1 \in 1 .. Size(q) - 1 /\ Size(q) - 1 \in 1 .. Size(q) - 1
        /\ (Size(q) - 1) + 1 = Size(q) /\ 1 + 1 = 2
    BY <1>2, <1>3
  <2> QED
    BY <1>1, <2>1 DEF ChainOK, Last
<1> QED
  BY <1>1, <1>2, <1>3 DEF ChainOK, Last

\* A thread knows what its local variables hold.
LEMMA MoveLocal ==
  ASSUME QueueInv, NEW t \in Threads, Moves(t)
  PROVE  LocalOK(t)'
<1>1. QueueType /\ LocalOK(t) /\ queue[t] \in Queues /\ ChainOK(queue[t])
  BY DEF QueueInv, QueueType
<1>2. \A k \in Int, n \in Nodes \cup {NoNode} : Make(k, n) \in Word /\ Make(k, n).ptr = n
  BY MakeWord
<1>3. NoNode \notin Nodes
  BY QueueAssumption
<1>4. \A w \in Word : w.ptr \in Nodes \cup {NoNode} /\ w.tag \in Int /\ w.tag + 1 \in Int
  BY DEF Word
<1>5. head[queue[t]].ptr \in Nodes /\ tail[queue[t]].ptr \in Nodes
  BY <1>1 DEF QueueType, ChainOK, Size, Last
<1> HIDE DEF Null, Make, Word
<1> USE DEF memory, locals, QueueType, LocalOK, PointersOK, Labels, Linking, Reserved, Counting, HeadRead, TailRead, NextRead
<1>10. CASE EnqTail(t)
  BY <1>1, <1>2, <1>3, <1>4, <1>5, <1>10 DEF EnqTail, Go
<1>11. CASE EnqNext(t)
  BY <1>1, <1>2, <1>3, <1>4, <1>5, <1>11 DEF EnqNext, Go
<1>12. CASE EnqCheck(t)
  BY <1>1, <1>2, <1>3, <1>4, <1>5, <1>12 DEF EnqCheck, Go
<1>13. CASE EnqHelp(t)
  BY <1>1, <1>2, <1>3, <1>4, <1>5, <1>13 DEF EnqHelp, Go, CasTail
<1>14. CASE EnqLink(t)
  BY <1>1, <1>2, <1>3, <1>4, <1>5, <1>14 DEF EnqLink, Go
<1>15. CASE EnqLinkFails(t)
  BY <1>1, <1>2, <1>3, <1>4, <1>5, <1>15 DEF EnqLinkFails, Go
<1>16. CASE EnqSwing(t)
  BY <1>1, <1>2, <1>3, <1>4, <1>5, <1>16 DEF EnqSwing, Go, CasTail
<1>17. CASE EnqCount(t)
  BY <1>1, <1>2, <1>3, <1>4, <1>5, <1>17 DEF EnqCount, Go, End
<1>18. CASE DeqUndo(t)
  BY <1>1, <1>2, <1>3, <1>4, <1>5, <1>18 DEF DeqUndo, Go, End
<1>19. CASE DeqHead(t)
  BY <1>1, <1>2, <1>3, <1>4, <1>5, <1>19 DEF DeqHead, Go
<1>20. CASE DeqTail(t)
  BY <1>1, <1>2, <1>3, <1>4, <1>5, <1>20 DEF DeqTail, Go
<1>21. CASE DeqNext(t)
  BY <1>1, <1>2, <1>3, <1>4, <1>5, <1>21 DEF DeqNext, Go
<1>22. CASE DeqHelp(t)
  BY <1>1, <1>2, <1>3, <1>4, <1>5, <1>22 DEF DeqHelp, Go, CasTail
<1>23. CASE DeqData(t)
  BY <1>1, <1>2, <1>3, <1>4, <1>5, <1>23 DEF DeqData, Go
<1>24. CASE DeqUnlink(t)
  BY <1>1, <1>2, <1>3, <1>4, <1>5, <1>24 DEF DeqUnlink, Go
<1>25. CASE DeqUnlinkFails(t)
  BY <1>1, <1>2, <1>3, <1>4, <1>5, <1>25 DEF DeqUnlinkFails, Go
<1>26. CASE DeqFree(t)
  BY <1>1, <1>2, <1>3, <1>4, <1>5, <1>26 DEF DeqFree, Go, End
<1>27. ASSUME NEW q1 \in Queues, DeqReserve(t, q1)
      PROVE  LocalOK(t)'
  BY <1>1, <1>2, <1>3, <1>4, <1>5, <1>27 DEF DeqReserve, Begin
<1>28. ASSUME NEW q1 \in Queues, NEW v \in Values, EnqAlloc(t, q1, v)
      PROVE  LocalOK(t)'
  BY <1>1, <1>2, <1>3, <1>4, <1>5, <1>28 DEF EnqAlloc, Begin
<1> QED
  BY <1>10, <1>11, <1>12, <1>13, <1>14, <1>15, <1>16, <1>17, <1>18, <1>19, <1>20, <1>21, <1>22, <1>23, <1>24, <1>25, <1>26, <1>27, <1>28 DEF Moves, Enqueue, Dequeue

\* What a thread concludes from what it has just read.
LEMMA MoveSeen ==
  ASSUME QueueInv, NEW t \in Threads, Moves(t)
  PROVE  SeenOK(t)'
<1>1. QueueType /\ LocalOK(t) /\ SeenOK(t) /\ queue[t] \in Queues /\ ChainOK(queue[t])
  BY DEF QueueInv, QueueType
<1>2. NoNode \notin Nodes
  BY QueueAssumption
<1>3. /\ Size(queue[t]) \in Nat /\ Size(queue[t]) >= 1 /\ Last(queue[t]) \in Nodes
      /\ Size(queue[t]) >= 2 =>
           /\ next[order[queue[t]][Size(queue[t]) - 1]].ptr = Last(queue[t])
           /\ next[order[queue[t]][1]].ptr = order[queue[t]][2]
  BY <1>1, ChainFacts
<1> HIDE DEF Null, Make, Word
<1> USE DEF memory, locals, QueueType, LocalOK, PointersOK, SeenOK, ChainOK, Behind, Last, Size, Labels, Linking, Reserved, Counting, HeadRead, TailRead, NextRead
<1>10. CASE EnqTail(t)
  BY <1>1, <1>2, <1>10 DEF EnqTail, Go
<1>11. CASE EnqNext(t)
  <2>1. /\ pc'[t] = "EnqCheck" /\ nextTagged'[t] = next[tailTagged[t].ptr]
        /\ UNCHANGED <<memory, queue, node, headTagged, tailTagged, order>>
    BY <1>1, <1>11 DEF EnqNext, Go
  <2>2. ASSUME nextTagged'[t].ptr # NoNode, tail[queue[t]] = tailTagged[t]
        PROVE  /\ Size(queue[t]) >= 2 /\ tail[queue[t]].ptr = order[queue[t]][Size(queue[t]) - 1]
               /\ nextTagged'[t].ptr = Last(queue[t])
    BY <1>1, <2>1, <2>2
  <2>3. Behind(t, nextTagged[t].ptr)' \/ nextTagged'[t].ptr = NoNode
    BY <2>1, <2>2
  <2> QED
    BY <2>1, <2>3
<1>12. CASE EnqCheck(t)
  <2>1. UNCHANGED <<memory, locals, order>>
    BY <1>12 DEF EnqCheck
  <2>2. CASE pc'[t] = "EnqTail"
    BY <2>2
  <2>3. CASE pc'[t] = "EnqHelp" /\ nextTagged[t].ptr # NoNode
    <3>1. Behind(t, nextTagged[t].ptr)
      BY <1>1, <2>3, <1>12 DEF EnqCheck, Go
    <3>2. Behind(t, nextTagged[t].ptr)'
      BY <2>1, <3>1
    <3> QED
      BY <2>3, <3>2
  <2>4. CASE pc'[t] = "EnqLink" /\ nextTagged[t].ptr = NoNode /\ tail[queue[t]] = tailTagged[t]
    <3>1. ASSUME next[tailTagged[t].ptr] = nextTagged[t]
          PROVE  tailTagged[t].ptr = Last(queue[t])
      <4>1. next[tail[queue[t]].ptr].ptr = NoNode
        BY <2>4, <3>1
      <4>2. CASE tail[queue[t]].ptr = Last(queue[t])
        BY <2>4, <4>2
      <4>3. CASE Size(queue[t]) >= 2 /\ tail[queue[t]].ptr = order[queue[t]][Size(queue[t]) - 1]
        BY <1>2, <1>3, <4>1, <4>3
      <4> QED
        BY <1>1, <4>2, <4>3
    <3> QED
      BY <2>1, <2>4, <3>1
  <2> QED
    BY <1>1, <2>2, <2>3, <2>4, <1>12 DEF EnqCheck, Go
<1>13. CASE EnqHelp(t)
  BY <1>1, <1>2, <1>13 DEF EnqHelp, Go, CasTail
<1>14. CASE EnqLink(t)
  BY <1>1, <1>2, <1>14 DEF EnqLink, Go
<1>15. CASE EnqLinkFails(t)
  BY <1>1, <1>2, <1>15 DEF EnqLinkFails, Go
<1>16. CASE EnqSwing(t)
  BY <1>1, <1>2, <1>16 DEF EnqSwing, Go, CasTail
<1>17. CASE EnqCount(t)
  BY <1>1, <1>2, <1>17 DEF EnqCount, Go, End
<1>18. CASE DeqUndo(t)
  BY <1>1, <1>2, <1>18 DEF DeqUndo, Go, End
<1>19. CASE DeqHead(t)
  BY <1>1, <1>2, <1>19 DEF DeqHead, Go
<1>20. CASE DeqTail(t)
  BY <1>1, <1>2, <1>20 DEF DeqTail, Go
<1>21. CASE DeqNext(t)
  <2>1. /\ nextTagged'[t] = next[headTagged[t].ptr] /\ pc[t] = "DeqNext"
        /\ UNCHANGED <<memory, queue, node, headTagged, tailTagged, order>>
    BY <1>1, <1>21 DEF DeqNext, Go
  <2>2. CASE pc'[t] = "DeqHead"
    BY <2>2
  <2>3. CASE pc'[t] = "DeqHelp" /\ next[headTagged[t].ptr].ptr # NoNode
             /\ headTagged[t].ptr = tailTagged[t].ptr
    <3>1. ASSUME tail[queue[t]] = tailTagged[t]
          PROVE  /\ Size(queue[t]) >= 2 /\ tail[queue[t]].ptr = order[queue[t]][Size(queue[t]) - 1]
                 /\ nextTagged'[t].ptr = Last(queue[t])
      BY <1>1, <2>1, <2>3, <3>1
    <3>2. Behind(t, nextTagged[t].ptr)'
      BY <2>1, <3>1
    <3> QED
      BY <2>3, <3>2
  <2>4. CASE pc'[t] = "DeqData" /\ next[headTagged[t].ptr].ptr # NoNode
             /\ headTagged[t].ptr # tailTagged[t].ptr
    <3>1. ASSUME head[queue[t]] = headTagged[t]
          PROVE  /\ tail[queue[t]].ptr # head[queue[t]].ptr /\ Size(queue[t]) >= 2
                 /\ nextTagged'[t].ptr = order[queue[t]][2]
      <4>1. tail[queue[t]].ptr # head[queue[t]].ptr
        BY <1>1, <2>1, <2>4, <3>1
      <4>2. headTagged[t].ptr = order[queue[t]][1] /\ Size(queue[t]) \in Nat
        BY <1>1, <3>1
      <4>3. Size(queue[t]) # 1
        BY <1>1, <2>4, <4>2
      <4>4. next[order[queue[t]][1]].ptr = order[queue[t]][2]
        <5> HIDE DEF Size, Last, ChainOK, SeenOK, LocalOK, PointersOK, QueueType
        <5> QED
          BY <1>3, <4>3
      <4> QED
        BY <1>1, <2>1, <4>1, <4>2, <4>3, <4>4
    <3> QED
      BY <2>1, <2>4, <3>1
  <2> QED
    BY <1>1, <2>2, <2>3, <2>4, <1>21 DEF DeqNext, Go
<1>22. CASE DeqHelp(t)
  BY <1>1, <1>2, <1>22 DEF DeqHelp, Go, CasTail
<1>23. CASE DeqData(t)
  BY <1>1, <1>2, <1>23 DEF DeqData, Go
<1>24. CASE DeqUnlink(t)
  BY <1>1, <1>2, <1>24 DEF DeqUnlink, Go
<1>25. CASE DeqUnlinkFails(t)
  BY <1>1, <1>2, <1>25 DEF DeqUnlinkFails, Go
<1>26. CASE DeqFree(t)
  BY <1>1, <1>2, <1>26 DEF DeqFree, Go, End
<1>27. ASSUME NEW q1 \in Queues, DeqReserve(t, q1)
      PROVE  SeenOK(t)'
  BY <1>1, <1>2, <1>27 DEF DeqReserve, Begin
<1>28. ASSUME NEW q1 \in Queues, NEW v \in Values, EnqAlloc(t, q1, v)
      PROVE  SeenOK(t)'
  BY <1>1, <1>2, <1>28 DEF EnqAlloc, Begin
<1> QED
  BY <1>10, <1>11, <1>12, <1>13, <1>14, <1>15, <1>16, <1>17, <1>18, <1>19, <1>20, <1>21, <1>22, <1>23, <1>24, <1>25, <1>26, <1>27, <1>28 DEF Moves, Enqueue, Dequeue

----------------------------------------------------------------------------
(***************************************************************************)
(* What a step leaves of what the others know.                             *)
(***************************************************************************)

Still(u) ==
  /\ pc'[u] = pc[u] /\ queue'[u] = queue[u] /\ node'[u] = node[u]
  /\ headTagged'[u] = headTagged[u] /\ tailTagged'[u] = tailTagged[u]
  /\ nextTagged'[u] = nextTagged[u] /\ value'[u] = value[u]

\* Thread u sees the queue it works on as it was.
LEMMA SameSeen ==
  ASSUME NEW u \in Threads, SeenOK(u), Still(u), NoReturn(u),
         next' = next, data' = data, head'[queue[u]] = head[queue[u]],
         tail'[queue[u]] = tail[queue[u]], order'[queue[u]] = order[queue[u]]
  PROVE  SeenOK(u)'
BY DEF SeenOK, Still, Behind, Size, Last

LEMMA OthersSwing ==
  ASSUME QueueInv, NEW t \in Threads, NEW n \in Nodes, Swings(t, n),
         NEW u \in Threads, Still(u), NoReturn(u)
  PROVE  SeenOK(u)'
<1>1. SeenOK(u) /\ queue[u] \in Queues /\ queue[t] \in Queues /\ tail \in [Queues -> Word]
  BY DEF QueueInv, QueueType
<1>2. UNCHANGED <<next, data, head, order>>
  BY DEF Swings
<1>3. CASE tail'[queue[u]] = tail[queue[u]]
  BY <1>1, <1>2, <1>3, SameSeen
<1>4. CASE tail'[queue[u]] # tail[queue[u]]
  <2>1. queue[u] = queue[t] /\ tail[queue[t]] = tailTagged[t]
    BY <1>1, <1>4 DEF Swings
  <2>2. tail'[queue[t]] = Make(tailTagged[t].tag + 1, n)
    BY <1>1, <1>4, <2>1 DEF Swings
  <2>3. /\ Size(queue[t]) >= 2 /\ tail[queue[t]].ptr = order[queue[t]][Size(queue[t]) - 1]
        /\ n = Last(queue[t])
    BY <2>1 DEF Swings, Behind
  <2>4. tail'[queue[t]].ptr = Last(queue[t])
    BY <2>2, <2>3 DEF Make
  <2>5. /\ order[queue[t]][Size(queue[t]) - 1] # Last(queue[t])
        /\ order[queue[t]][1] # Last(queue[t]) /\ head[queue[t]].ptr = order[queue[t]][1]
    BY <1>1, <2>3, ChainFacts
  <2>6. pc[u] \in TailRead => tail'[queue[u]] # tailTagged[u]
    BY <1>4 DEF NoReturn
  <2>7. ~(pc[u] = "EnqLink" /\ next[tailTagged[u].ptr] = nextTagged[u])
    BY <1>1, <2>1, <2>3, <2>5 DEF SeenOK
  <2>8. tail'[queue[u]].ptr # head'[queue[u]].ptr
    BY <1>2, <2>1, <2>4, <2>5
  <2>9. pc[u] \in {"EnqCheck", "EnqHelp", "DeqHelp", "EnqSwing"} => pc[u] \in TailRead
    BY DEF TailRead
  <2> QED
    BY <1>1, <1>2, <2>6, <2>7, <2>8, <2>9 DEF SeenOK, Still, Behind, Size, Last
<1> QED
  BY <1>3, <1>4

LEMMA OthersLink ==
  ASSUME QueueInv, NEW t \in Threads, Links(t),
         NEW u \in Threads, Still(u), NoReturn(u)
  PROVE  SeenOK(u)' /\ (LocalOK(u)' \/ u = t)
<1> DEFINE q == queue[t]
           n == tailTagged[t].ptr
<1>1. /\ SeenOK(u) /\ LocalOK(u) /\ SeenOK(t) /\ LocalOK(t) /\ queue[u] \in Queues /\ q \in Queues
      /\ next \in [Nodes -> Word] /\ order \in [Queues -> Seq(Nodes)] /\ NoNode \notin Nodes
  BY QueueAssumption DEF QueueInv, QueueType
<1>2. /\ n = Last(q) /\ tail[q].ptr = Last(q) /\ n \in Nodes /\ node[t] \in Nodes
      /\ nextTagged[t].tag \in Int
  BY <1>1 DEF SeenOK, LocalOK, PointersOK, Links, TailRead, Linking, QueueInv, QueueType, Word
<1>3. /\ next' = [next EXCEPT ![n] = Make(nextTagged[t].tag + 1, node[t])]
      /\ order'[q] = Append(order[q], node[t])
      /\ queue[u] # q => order'[queue[u]] = order[queue[u]]
      /\ UNCHANGED <<data, head, tail>>
  BY <1>1 DEF Links
<1>4. /\ order[q] \in Seq(Nodes) /\ Size(q) \in Nat /\ Size(q) >= 1
      /\ Size(q) >= 2 => order[q][Size(q) - 1] # Last(q)
  BY <1>1, ChainFacts
<1>5. Size(q)' = Size(q) + 1 /\ \A i \in 1 .. Size(q) : order'[q][i] = order[q][i]
  <2>1. order'[q] = Append(order[q], node[t]) /\ order[q] \in Seq(Nodes) /\ q' = q
    BY <1>3, <1>4 DEF Links, locals
  <2> QED
    BY <1>2, <2>1 DEF Size
<1>6. next'[n].ptr \in Nodes /\ \A m \in Nodes : m # n => next'[m] = next[m]
  <2>1. next'[n] = Make(nextTagged[t].tag + 1, node[t])
    BY <1>1, <1>2, <1>3
  <2> QED
    BY <1>1, <1>2, <1>3, <2>1 DEF Make
<1>7. LocalOK(u)' \/ u = t
  <2>1. CASE pc[u] \in Linking /\ u # t
    <3>1. node[u] \in Nodes /\ node[u] # n
      <4>1. n \in In(q) /\ node[u] \in Nodes /\ Has(u, node[u])
        BY <1>1, <1>2, <1>4, <2>1 DEF In, LocalOK, PointersOK, Has, Last, Size
      <4>2. node[u] \notin In(q)
        BY <1>1, <4>1 DEF QueueInv, Apart
      <4> QED
        BY <4>1, <4>2
    <3>2. next'[node[u]] = next[node[u]] /\ data' = data
      BY <1>3, <1>6, <3>1
    <3> QED
      BY <1>1, <3>2 DEF LocalOK, PointersOK, Still
  <2>2. CASE pc[u] \notin Linking
    BY <1>1, <2>2 DEF LocalOK, PointersOK, Still
  <2> QED
    BY <2>1, <2>2
<1>8. CASE queue[u] = q
  <2>1. pc[u] \in {"EnqCheck", "EnqHelp", "DeqHelp", "EnqSwing"} =>
          \/ tail[queue[u]] # tailTagged[u]
          \/ pc[u] = "EnqCheck" /\ nextTagged[u].ptr = NoNode
    BY <1>1, <1>2, <1>4, <1>8 DEF SeenOK, Behind
  <2>2. ~(pc[u] = "EnqLink" /\ next'[tailTagged[u].ptr] = nextTagged[u])
    <3>1. SUFFICES ASSUME pc[u] = "EnqLink", next'[tailTagged[u].ptr] = nextTagged[u]
                   PROVE  FALSE
      OBVIOUS
    <3>2. nextTagged[u].ptr = NoNode /\ tailTagged[u].ptr \in Nodes
      BY <1>1, <3>1 DEF LocalOK, PointersOK, TailRead
    <3>3. tailTagged[u].ptr # n
      BY <1>1, <1>6, <3>1, <3>2
    <3>4. tailTagged[u].ptr = Last(q)
      BY <1>1, <1>6, <1>8, <3>1, <3>2, <3>3 DEF SeenOK
    <3> QED
      BY <1>2, <3>3, <3>4
  <2>3. /\ head'[q] = head[q] /\ tail'[q] = tail[q] /\ data' = data
        /\ Size(q) >= 2 => Size(q)' >= 2 /\ order'[q][2] = order[q][2]
    <3>1. Size(q) >= 2 => 2 \in 1 .. Size(q) /\ Size(q) + 1 >= 2
      BY <1>4
    <3> QED
      BY <1>3, <1>5, <3>1
  <2>4. Size(queue[u])' = Size(q)' /\ queue'[u] = q
    BY <1>8 DEF Still, Size, Links, locals
  <2>5. pc[u] \in {"DeqData", "DeqUnlink"} /\ head[q] = headTagged[u] => Size(q) >= 2
    BY <1>1, <1>8 DEF SeenOK
  <2> HIDE DEF q, n, Size, Last
  <2> QED
    BY <1>1, <1>7, <1>8, <2>1, <2>2, <2>3, <2>4, <2>5 DEF SeenOK, Still, Behind
<1>9. CASE queue[u] # q
  <2>1. tailTagged[u].ptr = n => ~(pc[u] = "EnqLink" /\ next'[tailTagged[u].ptr] = nextTagged[u])
    BY <1>1, <1>6 DEF LocalOK, PointersOK
  <2>2. tailTagged[u].ptr \in Nodes /\ tailTagged[u].ptr # n =>
          next'[tailTagged[u].ptr] = next[tailTagged[u].ptr]
    BY <1>6
  <2>3. pc[u] = "EnqLink" => tailTagged[u].ptr \in Nodes
    BY <1>1 DEF LocalOK, PointersOK, TailRead
  <2>4. Size(queue[u])' = Size(queue[u]) /\ Last(queue[u])' = Last(queue[u])
    BY <1>3, <1>9 DEF Size, Last, Still
  <2>5. order'[queue[u]] = order[queue[u]] /\ UNCHANGED <<data, head, tail>> /\ queue'[u] = queue[u]
    BY <1>3, <1>9 DEF Still
  <2> HIDE DEF q, n, Size, Last
  <2> QED
    BY <1>1, <1>7, <2>1, <2>2, <2>3, <2>4, <2>5 DEF SeenOK, Still, Behind
<1> QED
  BY <1>8, <1>9

LEMMA OthersUnlink ==
  ASSUME QueueInv, NEW t \in Threads, Unlinks(t),
         NEW u \in Threads, Still(u), NoReturn(u)
  PROVE  SeenOK(u)'
<1> DEFINE q == queue[t]
<1>1. /\ SeenOK(u) /\ SeenOK(t) /\ LocalOK(t) /\ queue[u] \in Queues /\ q \in Queues
      /\ head \in [Queues -> Word] /\ order \in [Queues -> Seq(Nodes)] /\ ChainOK(q)
  BY DEF QueueInv, QueueType
<1>2. CASE queue[u] # q
  <2>1. /\ UNCHANGED <<next, data, tail>> /\ head'[queue[u]] = head[queue[u]]
        /\ order'[queue[u]] = order[queue[u]]
    BY <1>1, <1>2 DEF Unlinks
  <2> QED
    BY <1>1, <2>1, SameSeen
<1>3. CASE queue[u] = q
  <2>1. /\ head[q] = headTagged[t] /\ Size(q) >= 2 /\ nextTagged[t].ptr = order[q][2]
        /\ tail[q].ptr # head[q].ptr
    BY <1>1 DEF Unlinks, SeenOK
  <2>2. /\ order[q] \in Seq(Nodes) /\ Size(q) \in Nat /\ head[q].ptr = order[q][1]
        /\ order[q][1] # order[q][2]
    BY <1>1, <2>1, ChainFacts
  <2>3. head'[q].ptr # head[q].ptr
    <3>1. head'[q] = Make(headTagged[t].tag + 1, nextTagged[t].ptr)
      BY <1>1 DEF Unlinks
    <3> QED
      BY <2>1, <2>2, <3>1 DEF Make
  <2>4. /\ Size(q)' = Size(q) - 1 /\ \A i \in 1 .. Size(q) - 1 : order'[q][i] = order[q][i + 1]
    <3>1. order'[q] = Tail(order[q]) /\ q' = q
      BY <1>1 DEF Unlinks, locals
    <3>2. Size(q)' = Len(Tail(order[q])) /\ Size(q) = Len(order[q])
      BY <3>1 DEF Size
    <3>3. Len(order[q]) >= 1
      BY <2>1, <2>2, <3>2
    <3>4. /\ Len(Tail(order[q])) = Len(order[q]) - 1
          /\ \A i \in 1 .. Len(order[q]) - 1 : Tail(order[q])[i] = order[q][i + 1]
      BY <2>2, <3>3, TailFacts
    <3> QED
      BY <3>1, <3>2, <3>4
  <2>5. Last(q)' = Last(q)
    <3>1. order'[q][Size(q) - 1] = order[q][(Size(q) - 1) + 1] /\ (Size(q) - 1) + 1 = Size(q)
      BY <2>1, <2>2, <2>4
    <3>2. q' = q
      BY DEF Unlinks, locals
    <3> HIDE DEF Size, q
    <3> QED
      BY <2>4, <3>1, <3>2 DEF Last
  <2>6. ASSUME tail[q].ptr = order[q][Size(q) - 1]
        PROVE  Size(q)' >= 2 /\ tail'[q].ptr = order'[q][Size(q)' - 1]
    <3>1. Size(q) # 2
      BY <2>1, <2>2, <2>6
    <3>2. Size(q) - 2 \in 1 .. Size(q) - 1 /\ (Size(q) - 2) + 1 = Size(q) - 1 /\ (Size(q) - 1) - 1 = Size(q) - 2
      BY <2>1, <2>2, <3>1
    <3>3. order'[q][Size(q) - 2] = order[q][Size(q) - 1]
      BY <2>4, <3>2
    <3>4. tail' = tail
      BY DEF Unlinks
    <3> HIDE DEF Size, q
    <3> QED
      BY <2>1, <2>2, <2>4, <2>6, <3>1, <3>2, <3>3, <3>4
  <2>7. pc[u] \in HeadRead => head'[q] # headTagged[u]
    BY <1>3, <2>3 DEF NoReturn
  <2>8. UNCHANGED <<next, data, tail>>
    BY DEF Unlinks
  <2>9. Size(queue[u])' = Size(q)' /\ Last(queue[u])' = Last(q)' /\ queue'[u] = q
    BY <1>3 DEF Still, Size, Last, Unlinks, locals
  <2>10. {"DeqNext", "DeqData", "DeqUnlink"} \subseteq HeadRead
    BY DEF HeadRead
  <2> HIDE DEF q, Size, Last
  <2> QED
    BY <1>1, <1>3, <2>5, <2>6, <2>7, <2>8, <2>9, <2>10 DEF SeenOK, Still, Behind
<1> QED
  BY <1>2, <1>3

LEMMA OthersAlloc ==
  ASSUME QueueInv, NEW t \in Threads, NEW n \in free, NEW v \in Values, Allocs(t, n, v),
         NEW u \in Threads, Still(u), NoReturn(u)
  PROVE  SeenOK(u)' /\ (LocalOK(u)' \/ u = t)
<1>1. /\ SeenOK(u) /\ LocalOK(u) /\ queue[u] \in Queues /\ n \in Nodes
      /\ next \in [Nodes -> Word] /\ data \in [Nodes -> Values \cup {Nothing}]
  BY DEF QueueInv, QueueType
<1>2. n \notin In(queue[u]) /\ ~Has(u, n)
  BY <1>1 DEF QueueInv, Apart
<1>3. \A m \in Nodes : m # n => next'[m] = next[m] /\ data'[m] = data[m]
  BY <1>1 DEF Allocs
<1>4. UNCHANGED <<head, tail, order>>
  BY DEF Allocs
<1>5. /\ Last(queue[u]) \in Nodes /\ Last(queue[u]) # n
      /\ Size(queue[u]) >= 2 => order[queue[u]][2] \in Nodes /\ order[queue[u]][2] # n
  <2>1. /\ order[queue[u]] \in Seq(Nodes) /\ Size(queue[u]) \in Nat /\ Size(queue[u]) >= 1
        /\ Last(queue[u]) \in Nodes /\ Size(queue[u]) >= 2 => order[queue[u]][2] \in Nodes
    BY <1>1, ChainFacts
  <2> QED
    BY <1>2, <2>1 DEF In, Last, Size
<1>6. ~(pc[u] = "EnqLink" /\ next'[tailTagged[u].ptr] = nextTagged[u]
          /\ next[tailTagged[u].ptr] # nextTagged[u])
  BY DEF NoReturn, NextRead
<1>7. /\ Size(queue[u])' = Size(queue[u]) /\ Last(queue[u])' = Last(queue[u])
      /\ queue'[u] = queue[u]
  BY <1>4 DEF Size, Last, Still
<1>8. LocalOK(u)' \/ u = t
  BY <1>1, <1>2, <1>3 DEF LocalOK, PointersOK, Still, Has
<1>9. pc[u] = "DeqUnlink" /\ head[queue[u]] = headTagged[u] =>
        data'[order[queue[u]][2]] = data[order[queue[u]][2]]
  BY <1>1, <1>3, <1>5 DEF SeenOK
<1> QED
  <2> HIDE DEF Size, Last
  <2> QED
    BY <1>1, <1>4, <1>6, <1>7, <1>8, <1>9 DEF SeenOK, Still, Behind

\* What others know stays.
LEMMA OthersKeep ==
  ASSUME QueueInv, NEW t \in Threads, Does(t), NEW u \in Threads, u # t, Still(u), NoReturn(u)
  PROVE  LocalOK(u)' /\ SeenOK(u)'
<1>1. LocalOK(u) /\ SeenOK(u)
  BY DEF QueueInv
<1>2. next' = next /\ data' = data => LocalOK(u)'
  BY <1>1 DEF LocalOK, PointersOK, Still
<1>3. CASE Quiet(t) \/ Frees(t)
  <2>1. UNCHANGED <<next, data, head, tail, order>>
    BY <1>3 DEF Quiet, Frees
  <2> QED
    BY <1>1, <1>2, <2>1, SameSeen
<1>4. ASSUME NEW n \in Nodes, Swings(t, n)
      PROVE  LocalOK(u)' /\ SeenOK(u)'
  <2>1. SeenOK(u)'
    BY <1>4, OthersSwing
  <2> QED
    BY <1>2, <1>4, <2>1 DEF Swings
<1>5. CASE Links(t)
  BY <1>5, OthersLink
<1>6. CASE Unlinks(t)
  <2>1. SeenOK(u)'
    BY <1>6, OthersUnlink
  <2> QED
    BY <1>2, <1>6, <2>1 DEF Unlinks
<1>7. ASSUME NEW n \in free, NEW v \in Values, Allocs(t, n, v)
      PROVE  LocalOK(u)' /\ SeenOK(u)'
  BY <1>7, OthersAlloc
<1> QED
  BY <1>3, <1>4, <1>5, <1>6, <1>7 DEF Does

----------------------------------------------------------------------------
(***************************************************************************)
(* Chains, and the places of nodes.                                        *)
(***************************************************************************)

LEMMA SameChain ==
  ASSUME QueueInv, NEW r \in Queues, head' = head, tail' = tail, order'[r] = order[r],
         \A n \in In(r) : next'[n].ptr = next[n].ptr
  PROVE  ChainOK(r)'
<1>1. /\ ChainOK(r) /\ order[r] \in Seq(Nodes) /\ Size(r) \in Nat /\ Size(r) >= 1
  BY ChainFacts DEF QueueInv
<1>2. Size(r)' = Size(r) /\ Last(r)' = Last(r)
  BY DEF Size, Last
<1>3. \A i \in 1 .. Size(r) : next'[order[r][i]].ptr = next[order[r][i]].ptr
  BY DEF In, Size
<1>4. next'[Last(r)].ptr = next[Last(r)].ptr
  BY <1>1, <1>3 DEF Last
<1> HIDE DEF Size, Last
<1> QED
  BY <1>1, <1>2, <1>3, <1>4 DEF ChainOK

LEMMA SwingChain ==
  ASSUME QueueInv, NEW t \in Threads, NEW n \in Nodes, Swings(t, n), NEW r \in Queues
  PROVE  ChainOK(r)'
<1>1. ChainOK(r) /\ tail \in [Queues -> Word] /\ UNCHANGED <<next, head, order>>
  BY DEF QueueInv, QueueType, Swings
<1>2. CASE tail'[r] = tail[r]
  BY <1>1, <1>2 DEF ChainOK, Size, Last
<1>3. CASE tail'[r] # tail[r]
  <2>1. r = queue[t] /\ tail'[r] = Make(tailTagged[t].tag + 1, n) /\ n = Last(r)
    BY <1>1, <1>3 DEF Swings, Behind
  <2>2. tail'[r].ptr = Last(r) /\ Last(r)' = Last(r) /\ Size(r)' = Size(r)
    BY <1>1, <2>1 DEF Make, Last, Size
  <2> HIDE DEF Size, Last
  <2> QED
    BY <1>1, <2>2 DEF ChainOK
<1> QED
  BY <1>2, <1>3

\* What EnqLink links, and to what.
LEMMA LinkFacts ==
  ASSUME QueueInv, NEW t \in Threads, Links(t)
  PROVE  /\ queue[t] \in Queues /\ tailTagged[t].ptr = Last(queue[t])
         /\ tail[queue[t]].ptr = Last(queue[t])
         /\ node[t] \in Nodes /\ next[node[t]].ptr = NoNode
         /\ node[t] \notin free /\ \A r \in Queues : node[t] \notin In(r)
         /\ next'[Last(queue[t])].ptr = node[t]
         /\ \A m \in Nodes : m # Last(queue[t]) => next'[m] = next[m]
         /\ order'[queue[t]] = Append(order[queue[t]], node[t])
         /\ \A r \in Queues : r # queue[t] => order'[r] = order[r]
<1>1. /\ SeenOK(t) /\ LocalOK(t) /\ queue[t] \in Queues
      /\ next \in [Nodes -> Word] /\ order \in [Queues -> Seq(Nodes)] /\ pc[t] \in Linking
  BY DEF QueueInv, QueueType, Links, Linking
<1>2. /\ tailTagged[t].ptr = Last(queue[t]) /\ tail[queue[t]].ptr = Last(queue[t])
  BY <1>1 DEF SeenOK, Links
<1>3. node[t] \in Nodes /\ next[node[t]].ptr = NoNode /\ Has(t, node[t])
  BY <1>1 DEF LocalOK, PointersOK, Has
<1>4. node[t] \notin free /\ \A r \in Queues : node[t] \notin In(r)
  BY <1>3 DEF QueueInv, Apart
<1>5. Last(queue[t]) \in Nodes
  BY <1>1, ChainFacts
<1>6. next' = [next EXCEPT ![Last(queue[t])] = Make(nextTagged[t].tag + 1, node[t])]
  BY <1>2 DEF Links
<1>7. /\ next'[Last(queue[t])].ptr = node[t]
      /\ \A m \in Nodes : m # Last(queue[t]) => next'[m] = next[m]
  <2> HIDE DEF Last
  <2> QED
    BY <1>1, <1>5, <1>6 DEF Make
<1>8. /\ order'[queue[t]] = Append(order[queue[t]], node[t])
      /\ \A r \in Queues : r # queue[t] => order'[r] = order[r]
  BY <1>1 DEF Links
<1> QED
  BY <1>1, <1>2, <1>3, <1>4, <1>7, <1>8

LEMMA LinkChain ==
  ASSUME QueueInv, NEW t \in Threads, Links(t), NEW r \in Queues
  PROVE  ChainOK(r)'
<1> DEFINE q == queue[t]
<1>1. UNCHANGED <<head, tail>> /\ q \in Queues
  BY LinkFacts DEF Links
<1>2. CASE r # q
  <2>1. Last(q) \in In(q)
    BY <1>1, ChainFacts DEF Last, Size, In
  <2>2. Last(q) \notin In(r) /\ In(r) \subseteq Nodes
    <3>1. Last(q) \in Nodes /\ order[r] \in Seq(Nodes)
      BY <1>1, ChainFacts
    <3>2. Last(q) \notin In(r)
      BY <1>1, <1>2, <2>1, <3>1 DEF QueueInv, Apart
    <3> QED
      BY <3>1, <3>2 DEF In
  <2>3. \A n \in In(r) : next'[n] = next[n]
    BY <2>2, LinkFacts
  <2>4. order'[r] = order[r]
    BY <1>2, LinkFacts
  <2> QED
    BY <1>1, <2>3, <2>4, SameChain
<1>3. CASE r = q
  <2> DEFINE c == order[q]
             k == Size(q)
  <2>1. c \in Seq(Nodes) /\ k \in Nat /\ k >= 1 /\ ChainOK(q) /\ \A i \in 1 .. k : c[i] \in Nodes
    BY <1>1, ChainFacts DEF QueueInv
  <2>2. order'[r] = Append(c, node[t]) /\ node[t] \in Nodes
    BY <1>3, LinkFacts
  <2>3. /\ Size(r)' = k + 1 /\ order'[r][k + 1] = node[t]
        /\ \A i \in 1 .. k : order'[r][i] = c[i]
    BY <1>3, <2>1, <2>2, AppendFacts DEF Size
  <2>4. \A i \in 1 .. k : c[i] # node[t]
    <3>1. node[t] \notin In(q)
      BY <1>1, LinkFacts
    <3> QED
      BY <3>1 DEF In, Size
  <2>6. /\ next'[c[k]].ptr = node[t] /\ \A m \in Nodes : m # c[k] => next'[m] = next[m]
        /\ next[node[t]].ptr = NoNode
    BY LinkFacts DEF Last
  <2>7. tail[r].ptr = c[k] /\ head[r].ptr = c[1]
    BY <1>1, <1>3, <2>1, LinkFacts DEF Last, ChainOK
  <2>8. /\ \A i, j \in 1 .. k : c[i] = c[j] => i = j
        /\ \A i \in 1 .. k - 1 : next[c[i]].ptr = c[i + 1]
    BY <2>1 DEF ChainOK
  <2>9. Last(r)' = node[t] /\ Size(r)' - 1 = k
    BY <2>1, <2>3 DEF Last
  <2> HIDE DEF c, k, q, Size, Last
  <2>5. \A i \in 1 .. k - 1 : c[i] # c[k]
    <3>1. \A i \in 1 .. k - 1 : i \in 1 .. k /\ i # k /\ k \in 1 .. k
      BY <2>1
    <3> QED
      BY <2>8, <3>1
  <2>10. \A i, j \in 1 .. k + 1 : order'[r][i] = order'[r][j] => i = j
    <3>1. \A i \in 1 .. k + 1 : i \in 1 .. k \/ i = k + 1
      BY <2>1
    <3> QED
      BY <2>3, <2>4, <2>8, <3>1
  <2>11. \A i \in 1 .. k : next'[order'[r][i]].ptr = order'[r][i + 1]
    <3>1. ASSUME NEW i \in 1 .. k - 1
          PROVE  next'[order'[r][i]].ptr = order'[r][i + 1]
      <4>1. i \in 1 .. k /\ i + 1 \in 1 .. k
        BY <2>1
      <4> QED
        BY <2>1, <2>3, <2>5, <2>6, <2>8, <4>1
    <3>2. next'[order'[r][k]].ptr = order'[r][k + 1]
      <4>1. k \in 1 .. k
        BY <2>1
      <4> QED
        BY <2>3, <2>6, <4>1
    <3>3. \A i \in 1 .. k : i \in 1 .. k - 1 \/ i = k
      BY <2>1
    <3> QED
      BY <3>1, <3>2, <3>3
  <2>12. next'[node[t]].ptr = NoNode
    <3>1. c[k] # node[t]
      BY <2>1, <2>4
    <3> QED
      BY <2>2, <2>6, <3>1
  <2>13. order'[r][1] = c[1] /\ order'[r][k] = c[k] /\ k + 1 >= 2 /\ k + 1 >= 1
    BY <2>1, <2>3
  <2>14. /\ Size(r)' >= 1 /\ head'[r].ptr = order'[r][1]
         /\ Size(r)' >= 2 /\ tail'[r].ptr = order'[r][Size(r)' - 1]
    BY <1>1, <2>3, <2>7, <2>9, <2>13
  <2>15. /\ \A i, j \in 1 .. Size(r)' : order'[r][i] = order'[r][j] => i = j
         /\ \A i \in 1 .. Size(r)' - 1 : next'[order'[r][i]].ptr = order'[r][i + 1]
         /\ next'[Last(r)'].ptr = NoNode
    BY <2>3, <2>9, <2>10, <2>11, <2>12
  <2> QED
    BY <2>14, <2>15 DEF ChainOK
<1> QED
  BY <1>2, <1>3

\* What DeqUnlink takes off.
LEMMA UnlinkFacts ==
  ASSUME QueueInv, NEW t \in Threads, Unlinks(t)
  PROVE  /\ queue[t] \in Queues /\ Size(queue[t]) >= 2
         /\ headTagged[t].ptr = order[queue[t]][1] /\ tail[queue[t]].ptr # order[queue[t]][1]
         /\ head'[queue[t]].ptr = order[queue[t]][2]
         /\ order'[queue[t]] = Tail(order[queue[t]])
         /\ \A r \in Queues : r # queue[t] => order'[r] = order[r] /\ head'[r] = head[r]
<1>1. SeenOK(t) /\ queue[t] \in Queues /\ head \in [Queues -> Word] /\ order \in [Queues -> Seq(Nodes)]
  BY DEF QueueInv, QueueType
<1>2. /\ head[queue[t]] = headTagged[t] /\ Size(queue[t]) >= 2
      /\ nextTagged[t].ptr = order[queue[t]][2] /\ tail[queue[t]].ptr # head[queue[t]].ptr
  BY <1>1 DEF Unlinks, SeenOK
<1>3. head[queue[t]].ptr = order[queue[t]][1]
  BY <1>1, ChainFacts
<1>4. head'[queue[t]] = Make(headTagged[t].tag + 1, nextTagged[t].ptr)
  BY <1>1 DEF Unlinks
<1> QED
  BY <1>1, <1>2, <1>3, <1>4 DEF Unlinks, Make

LEMMA UnlinkChain ==
  ASSUME QueueInv, NEW t \in Threads, Unlinks(t), NEW r \in Queues
  PROVE  ChainOK(r)'
<1> DEFINE q == queue[t]
<1>1. UNCHANGED <<next, tail>> /\ q \in Queues
  BY UnlinkFacts DEF Unlinks
<1>2. CASE r # q
  <2>1. order'[r] = order[r] /\ head'[r] = head[r] /\ ChainOK(r)
    BY <1>2, UnlinkFacts DEF QueueInv
  <2> QED
    BY <1>1, <2>1 DEF ChainOK, Size, Last
<1>3. CASE r = q
  <2> DEFINE c == order[q]
             k == Size(q)
  <2>1. c \in Seq(Nodes) /\ k \in Nat /\ k >= 2 /\ ChainOK(q)
    BY <1>1, ChainFacts, UnlinkFacts DEF QueueInv
  <2>2. /\ Size(r)' = k - 1 /\ \A i \in 1 .. k - 1 : order'[r][i] = c[i + 1]
    <3>1. order'[r] = Tail(c) /\ Size(r)' = Len(Tail(c)) /\ k = Len(c)
      BY <1>3, UnlinkFacts DEF Size
    <3>2. Len(Tail(c)) = Len(c) - 1 /\ \A i \in 1 .. Len(c) - 1 : Tail(c)[i] = c[i + 1]
      <4>1. Len(c) >= 1
        BY <2>1, <3>1
      <4> QED
        BY <2>1, <4>1, TailFacts
    <3> HIDE DEF c, k
    <3> QED
      BY <3>1, <3>2
  <2>3. head'[r].ptr = c[2] /\ tail'[r].ptr = tail[r].ptr /\ tail[r].ptr # c[1]
    BY <1>1, <1>3, UnlinkFacts
  <2>4. /\ \A i, j \in 1 .. k : c[i] = c[j] => i = j
        /\ \A i \in 1 .. k - 1 : next[c[i]].ptr = c[i + 1]
        /\ tail[r].ptr = c[k] \/ tail[r].ptr = c[k - 1]
        /\ next[c[k]].ptr = NoNode
    BY <1>3, <2>1 DEF ChainOK, Last
  <2>5. Last(r)' = order'[r][k - 1]
    BY <2>2 DEF Last
  <2> HIDE DEF c, k, q, Size, Last
  <2>6. order'[r][k - 1] = c[k] /\ order'[r][1] = c[2]
    <3>1. k - 1 \in 1 .. k - 1 /\ 1 \in 1 .. k - 1 /\ (k - 1) + 1 = k /\ 1 + 1 = 2
      BY <2>1
    <3> QED
      BY <2>2, <3>1
  <2>7. \A i, j \in 1 .. k - 1 : order'[r][i] = order'[r][j] => i = j
    <3>1. \A i \in 1 .. k - 1 : i + 1 \in 1 .. k
      BY <2>1
    <3>2. \A i, j \in 1 .. k - 1 : i + 1 = j + 1 => i = j
      BY <2>1
    <3> QED
      BY <2>2, <2>4, <3>1, <3>2
  <2>8. \A i \in 1 .. (k - 1) - 1 : next'[order'[r][i]].ptr = order'[r][i + 1]
    <3>1. \A i \in 1 .. (k - 1) - 1 : i \in 1 .. k - 1 /\ i + 1 \in 1 .. k - 1
      BY <2>1
    <3> QED
      BY <1>1, <2>2, <2>4, <3>1
  <2>9. tail[r].ptr = c[k - 1] => k >= 3 /\ order'[r][(k - 1) - 1] = c[k - 1]
    <3>1. tail[r].ptr = c[k - 1] => k # 2
      BY <2>3
    <3>2. k >= 3 => (k - 1) - 1 \in 1 .. k - 1 /\ ((k - 1) - 1) + 1 = k - 1
      BY <2>1
    <3> QED
      BY <2>1, <2>2, <3>1, <3>2
  <2>10. k - 1 >= 1 /\ (k >= 3 => k - 1 >= 2)
    BY <2>1
  <2> QED
    BY <1>1, <2>2, <2>3, <2>4, <2>5, <2>6, <2>7, <2>8, <2>9, <2>10 DEF ChainOK
<1> QED
  BY <1>2, <1>3

LEMMA ChainsKeep ==
  ASSUME QueueInv, NEW t \in Threads, Does(t), NEW r \in Queues
  PROVE  ChainOK(r)'
<1>1. CASE Quiet(t) \/ Frees(t)
  <2>1. UNCHANGED <<next, head, tail, order>>
    BY <1>1 DEF Quiet, Frees
  <2> QED
    BY <2>1, SameChain
<1>2. ASSUME NEW n \in free, NEW v \in Values, Allocs(t, n, v)
      PROVE  ChainOK(r)'
  <2>1. n \in Nodes /\ next \in [Nodes -> Word] /\ order[r] \in Seq(Nodes)
    BY DEF QueueInv, QueueType
  <2>2. n \notin In(r) /\ In(r) \subseteq Nodes
    <3>1. n \notin In(r)
      BY <2>1 DEF QueueInv, Apart
    <3> QED
      BY <2>1, <3>1 DEF In
  <2>3. \A m \in In(r) : next'[m] = next[m]
    BY <1>2, <2>1, <2>2 DEF Allocs
  <2>4. UNCHANGED <<head, tail, order>>
    BY <1>2 DEF Allocs
  <2> QED
    BY <2>3, <2>4, SameChain
<1> QED
  BY <1>1, <1>2, SwingChain, LinkChain, UnlinkChain DEF Does

\* The other threads hold what they held.
LEMMA OthersHold ==
  ASSUME NEW u, Still(u)
  PROVE  \A n \in Nodes : Has(u, n)' <=> Has(u, n)
BY DEF Still, Has

\* Where every node is stays told apart, whatever thread t does.
LEMMA ApartKeeps ==
  ASSUME QueueInv, NEW t \in Threads, Does(t), \A u \in Threads \ {t} : Still(u),
         NEW n \in Nodes
  PROVE  Apart(n)'
<1>1. Apart(n) /\ order \in [Queues -> Seq(Nodes)]
  BY DEF QueueInv, QueueType
<1>2. \A u \in Threads \ {t} : Has(u, n)' <=> Has(u, n)
  BY OthersHold
<1>3. ASSUME order' = order
      PROVE  \A q \in Queues : In(q)' = In(q)
  BY <1>3 DEF In
<1>4. ASSUME KeepsHold(t), order' = order, free' = free
      PROVE  Apart(n)'
  <2>1. \A u \in Threads : Has(u, n)' <=> Has(u, n)
    BY <1>2, <1>4 DEF KeepsHold
  <2> HIDE DEF In, Has
  <2> QED
    BY <1>1, <1>3, <1>4, <2>1 DEF Apart
<1>5. CASE Quiet(t) \/ \E m \in Nodes : Swings(t, m)
  BY <1>4, <1>5 DEF Quiet, Swings
<1>6. CASE Links(t)
  <2>1. Has(t, n) <=> n = node[t]
    BY <1>6 DEF Links, Has, Linking
  <2>2. ~Has(t, n)'
    BY <1>6 DEF Links, Has, Linking
  <2>3. /\ In(queue[t])' = In(queue[t]) \cup {node[t]}
        /\ \A q \in Queues : q # queue[t] => In(q)' = In(q)
        /\ queue[t] \in Queues /\ free' = free
    <3> DEFINE c == order[queue[t]]
    <3>1. c \in Seq(Nodes) /\ node[t] \in Nodes /\ order'[queue[t]] = Append(c, node[t])
      BY <1>1, <1>6, LinkFacts
    <3>2. /\ Len(order'[queue[t]]) = Len(c) + 1 /\ order'[queue[t]][Len(c) + 1] = node[t]
          /\ \A i \in 1 .. Len(c) : order'[queue[t]][i] = c[i]
      BY <3>1, AppendFacts
    <3>3. {order'[queue[t]][i] : i \in 1 .. Len(c) + 1} = {c[i] : i \in 1 .. Len(c)} \cup {node[t]}
      <4>1. 1 .. Len(c) + 1 = (1 .. Len(c)) \cup {Len(c) + 1} /\ Len(c) \in Nat
        BY <3>1
      <4> HIDE DEF c
      <4> QED
        BY <3>2, <4>1
    <3>4. queue' = queue /\ free' = free
      BY <1>6 DEF Links, locals
    <3>5. \A q \in Queues : q # queue[t] => order'[q] = order[q]
      BY <1>6, LinkFacts
    <3>6. In(queue[t])' = {order'[queue[t]][i] : i \in 1 .. Len(order'[queue[t]])}
      BY <3>4 DEF In
    <3>7. In(queue[t]) = {c[i] : i \in 1 .. Len(c)}
      BY DEF In
    <3>8. \A q \in Queues : q # queue[t] => In(q)' = In(q)
      BY <3>5 DEF In
    <3>9. queue[t] \in Queues
      BY <1>6, LinkFacts
    <3> HIDE DEF c
    <3> QED
      BY <3>2, <3>3, <3>4, <3>6, <3>7, <3>8, <3>9
  <2> HIDE DEF In, Has
  <2>4. \A q \in Queues : n \in In(q)' <=> n \in In(q) \/ (q = queue[t] /\ n = node[t])
    <3>1. \A q \in Queues : q = queue[t] => In(q)' = In(q) \cup {node[t]}
      <4>1. queue' = queue
        BY <1>6 DEF Links, locals
      <4> QED
        BY <2>3, <4>1
    <3> QED
      BY <2>3, <3>1
  <2>5. \A u \in Threads : Has(u, n)' <=> Has(u, n) /\ u # t
    BY <1>2, <2>2
  <2>6. n \in free' <=> n \in free
    BY <2>3
  <2>7. CASE n = node[t]
    BY <1>1, <2>1, <2>3, <2>4, <2>5, <2>6, <2>7 DEF Apart
  <2>8. CASE n # node[t]
    BY <1>1, <2>1, <2>4, <2>5, <2>6, <2>8 DEF Apart
  <2> QED
    BY <2>7, <2>8
<1>7. CASE Unlinks(t)
  <2>1. ~Has(t, n)
    BY <1>7 DEF Unlinks, Has, Linking
  <2>2. Has(t, n)' <=> n = order[queue[t]][1]
    BY <1>7, UnlinkFacts DEF Unlinks, Has, Linking, locals
  <2>3. /\ In(queue[t])' = In(queue[t]) \ {order[queue[t]][1]}
        /\ order[queue[t]][1] \in In(queue[t])
        /\ \A q \in Queues : q # queue[t] => In(q)' = In(q)
        /\ queue[t] \in Queues /\ free' = free
    <3> DEFINE c == order[queue[t]]
    <3>1. c \in Seq(Nodes) /\ order'[queue[t]] = Tail(c) /\ Len(c) >= 2 /\ ChainOK(queue[t])
      BY <1>1, <1>7, UnlinkFacts DEF Size, QueueInv
    <3>2. /\ Len(order'[queue[t]]) = Len(c) - 1
          /\ \A i \in 1 .. Len(c) - 1 : order'[queue[t]][i] = c[i + 1]
      <4>1. Len(c) >= 1
        BY <3>1
      <4> QED
        BY <3>1, <4>1, TailFacts
    <3>3. \A i \in 1 .. Len(c) : c[i] = c[1] => i = 1
      <4>1. 1 \in 1 .. Len(c)
        BY <3>1
      <4> QED
        BY <3>1, <4>1 DEF ChainOK, Size
    <3>4. Len(c) \in Nat
      BY <3>1
    <3>5. queue' = queue /\ free' = free
      BY <1>7 DEF Unlinks, locals
    <3>6. {order'[queue[t]][i] : i \in 1 .. Len(c) - 1} = {c[i] : i \in 1 .. Len(c)} \ {c[1]}
      <4>1. \A i \in 1 .. Len(c) - 1 : i + 1 \in 1 .. Len(c) /\ i + 1 # 1
        BY <3>4
      <4>2. \A i \in 1 .. Len(c) : i # 1 => i - 1 \in 1 .. Len(c) - 1 /\ (i - 1) + 1 = i
        BY <3>4
      <4> HIDE DEF c
      <4>3. ASSUME NEW i \in 1 .. Len(c) - 1
            PROVE  /\ order'[queue[t]][i] \in {c[j] : j \in 1 .. Len(c)}
                   /\ order'[queue[t]][i] # c[1]
        BY <3>2, <3>3, <4>1
      <4>4. ASSUME NEW i \in 1 .. Len(c), c[i] # c[1]
            PROVE  c[i] \in {order'[queue[t]][j] : j \in 1 .. Len(c) - 1}
        <5>1. i - 1 \in 1 .. Len(c) - 1 /\ order'[queue[t]][i - 1] = c[i]
          BY <3>2, <4>2, <4>4
        <5> QED
          BY <5>1
      <4> QED
        BY <4>3, <4>4
    <3>7. c[1] \in In(queue[t])
      <4>1. 1 \in 1 .. Len(c)
        BY <3>1
      <4> QED
        BY <4>1 DEF In
    <3>8. \A q \in Queues : q # queue[t] => order'[q] = order[q]
      BY <1>7, UnlinkFacts
    <3>9. In(queue[t])' = {order'[queue[t]][i] : i \in 1 .. Len(order'[queue[t]])}
      BY <3>5 DEF In
    <3>10. In(queue[t]) = {c[i] : i \in 1 .. Len(c)}
      BY DEF In
    <3>11. \A q \in Queues : q # queue[t] => In(q)' = In(q)
      BY <3>8 DEF In
    <3>12. queue[t] \in Queues
      BY <1>7, UnlinkFacts
    <3> HIDE DEF c
    <3>13. In(queue[t])' = In(queue[t]) \ {c[1]}
      BY <3>2, <3>6, <3>9, <3>10
    <3> USE DEF c
    <3> QED
      BY <3>5, <3>7, <3>11, <3>12, <3>13
  <2>4. order[queue[t]][1] \notin free /\ \A u \in Threads : ~Has(u, order[queue[t]][1])
    <3>1. order[queue[t]][1] \in Nodes
      BY <2>3, ChainFacts
    <3> HIDE DEF In, Has
    <3> QED
      BY <2>3, <3>1 DEF QueueInv, Apart
  <2> DEFINE h == order[queue[t]][1]
  <2> HIDE DEF In, Has
  <2>5. \A q \in Queues : n \in In(q)' <=> n \in In(q) /\ ~(q = queue[t] /\ n = h)
    <3>1. \A q \in Queues : q = queue[t] => In(q)' = In(q) \ {h}
      <4>1. queue' = queue
        BY <1>7 DEF Unlinks, locals
      <4> QED
        BY <2>3, <4>1
    <3> QED
      BY <2>3, <3>1
  <2>6. \A u \in Threads : Has(u, n)' <=> Has(u, n) \/ (u = t /\ n = h)
    BY <1>2, <2>1, <2>2
  <2>7. n \in free' <=> n \in free
    BY <2>3
  <2>8. h \in In(queue[t]) /\ queue[t] \in Queues /\ h \notin free /\ \A u \in Threads : ~Has(u, h)
    BY <2>3, <2>4
  <2> HIDE DEF h
  <2>9. CASE n = h
    BY <1>1, <2>5, <2>6, <2>7, <2>8, <2>9 DEF Apart
  <2>10. CASE n # h
    BY <1>1, <2>5, <2>6, <2>7, <2>10 DEF Apart
  <2> QED
    BY <2>9, <2>10
<1>8. ASSUME NEW m \in free, NEW v \in Values, Allocs(t, m, v)
      PROVE  Apart(n)'
  <2>1. ~Has(t, n) /\ (Has(t, n)' <=> n = m)
    <3>1. node'[t] = m
      BY <1>8 DEF Allocs, QueueInv, QueueType
    <3> QED
      BY <1>8, <3>1 DEF Allocs, Has, Linking
  <2>2. free' = free \ {m} /\ \A q \in Queues : In(q)' = In(q)
    BY <1>3, <1>8 DEF Allocs
  <2> HIDE DEF In, Has
  <2> QED
    BY <1>1, <1>2, <1>8, <2>1, <2>2 DEF Apart
<1>9. CASE Frees(t)
  <2>1. (Has(t, n) <=> n = headTagged[t].ptr) /\ ~Has(t, n)'
    BY <1>9 DEF Frees, Has, Linking
  <2>2. free' = free \cup {headTagged[t].ptr} /\ \A q \in Queues : In(q)' = In(q)
    BY <1>3, <1>9 DEF Frees
  <2> HIDE DEF In, Has
  <2> QED
    BY <1>1, <1>2, <2>1, <2>2 DEF Apart
<1> QED
  BY <1>5, <1>6, <1>7, <1>8, <1>9 DEF Does

----------------------------------------------------------------------------
(***************************************************************************)
(* Where nodes are.                                                        *)
(***************************************************************************)

LEMMA QueueInit == Init => QueueInv
<1> SUFFICES ASSUME Init
             PROVE  QueueInv
  OBVIOUS
<1>1. PICK dummy \in [Queues -> Nodes] :
        /\ \A q, r \in Queues : dummy[q] = dummy[r] => q = r
        /\ next = [n \in Nodes |-> Make(IF \E q \in Queues : dummy[q] = n THEN 1 ELSE 0, NoNode)]
        /\ head = [q \in Queues |-> Make(0, dummy[q])] /\ tail = head
        /\ free = Nodes \ {dummy[q] : q \in Queues}
        /\ order = [q \in Queues |-> <<dummy[q]>>]
  BY DEF Init
<1>2. /\ data = [n \in Nodes |-> Nothing] /\ size = [q \in Queues |-> 0]
      /\ pc = [t \in Threads |-> "idle"]
      /\ queue = [t \in Threads |-> CHOOSE q \in Queues : TRUE]
      /\ node = [t \in Threads |-> NoNode]
      /\ headTagged = [t \in Threads |-> Null] /\ tailTagged = headTagged
      /\ nextTagged = headTagged
      /\ value = [t \in Threads |-> Nothing] /\ got = value
  BY DEF Init
<1>3. \A k \in Int, n \in Nodes \cup {NoNode} : Make(k, n) \in Word /\ Make(k, n).ptr = n
  BY MakeWord
<1>4. (CHOOSE q \in Queues : TRUE) \in Queues
  BY QueueAssumption
<1>5. Null \in Word
  BY <1>3 DEF Null
<1>6. QueueType
  <2>1. next \in [Nodes -> Word] /\ head \in [Queues -> Word] /\ tail \in [Queues -> Word]
    <3> DEFINE first(n) == IF \E q \in Queues : dummy[q] = n THEN 1 ELSE 0
    <3>1. \A n \in Nodes : first(n) \in Int
      OBVIOUS
    <3>2. next = [n \in Nodes |-> Make(first(n), NoNode)]
      BY <1>1
    <3> HIDE DEF first
    <3>3. next \in [Nodes -> Word]
      BY <1>3, <3>1, <3>2
    <3>4. \A q \in Queues : Make(0, dummy[q]) \in Word
      BY <1>3
    <3>5. head \in [Queues -> Word] /\ tail = head
      BY <1>1, <3>4
    <3> QED
      BY <3>3, <3>5
  <2>2. order \in [Queues -> Seq(Nodes)] /\ free \subseteq Nodes
    BY <1>1
  <2>3. pc \in [Threads -> Labels] /\ queue \in [Threads -> Queues]
    BY <1>2, <1>4 DEF Labels
  <2> QED
    BY <1>2, <1>5, <2>1, <2>2, <2>3 DEF QueueType
<1>7. ASSUME NEW q \in Queues
      PROVE  ChainOK(q) /\ In(q) = {dummy[q]}
  <2>1. order[q] = <<dummy[q]>> /\ dummy[q] \in Nodes
    BY <1>1
  <2>2. Size(q) = 1 /\ Last(q) = dummy[q] /\ order[q][1] = dummy[q]
    BY <2>1 DEF Size, Last
  <2>3. head[q].ptr = dummy[q] /\ tail[q].ptr = dummy[q] /\ next[dummy[q]].ptr = NoNode
    <3>1. head[q] = Make(0, dummy[q]) /\ tail = head
      BY <1>1
    <3>2. next[dummy[q]] = Make(1, NoNode)
      BY <1>1, <2>1
    <3> QED
      BY <1>3, <2>1, <3>1, <3>2
  <2>4. In(q) = {dummy[q]}
    BY <2>1, <2>2 DEF In, Size
  <2> HIDE DEF Size, Last
  <2> QED
    BY <2>2, <2>3, <2>4 DEF ChainOK
<1>8. ASSUME NEW n \in Nodes
      PROVE  Apart(n)
  <2>1. \A t \in Threads : ~Has(t, n)
    BY <1>2 DEF Has, Linking
  <2> HIDE DEF In, Has
  <2> QED
    BY <1>1, <1>7, <2>1 DEF Apart
<1>9. \A t \in Threads : LocalOK(t) /\ SeenOK(t)
  BY <1>2 DEF LocalOK, PointersOK, SeenOK, Linking, TailRead, HeadRead
<1> QED
  BY <1>6, <1>7, <1>8, <1>9 DEF QueueInv

LEMMA QueueStep ==
  QueueInv /\ [Next]_vars /\ [\A t \in Threads : NoReturn(t)]_vars => QueueInv'
<1> SUFFICES ASSUME QueueInv, [Next]_vars, [\A t \in Threads : NoReturn(t)]_vars
             PROVE  QueueInv'
  OBVIOUS
<1>1. CASE UNCHANGED vars
  <2>1. UNCHANGED <<next, data, head, tail, size, free, pc, queue, node, headTagged, tailTagged,
                    nextTagged, value, got, order>>
    BY <1>1 DEF vars, memory, locals
  <2>2. QueueType' /\ \A q \in Queues : ChainOK(q)'
    BY <2>1 DEF QueueInv, QueueType, ChainOK, Size, Last
  <2>3. \A n \in Nodes : Apart(n)'
    <3>1. \A q \in Queues : In(q)' = In(q)
      BY <2>1 DEF In
    <3>2. \A t \in Threads, n \in Nodes : Has(t, n)' <=> Has(t, n)
      BY <2>1 DEF Has
    <3> HIDE DEF In, Has
    <3> QED
      BY <2>1, <3>1, <3>2 DEF QueueInv, Apart
  <2>4. \A t \in Threads : LocalOK(t)' /\ SeenOK(t)'
    BY <2>1 DEF QueueInv, LocalOK, PointersOK, SeenOK, Behind, Size, Last
  <2> QED
    BY <2>2, <2>3, <2>4 DEF QueueInv
<1>2. ASSUME NEW t \in Threads, Moves(t), \A u \in Threads : NoReturn(u)
      PROVE  QueueInv'
  <2>1. Does(t) /\ QueueType'
    <3>1. QueueType /\ PointersOK(t) /\ queue[t] \in Queues
      BY DEF QueueInv, QueueType, LocalOK
    <3>2. Size(queue[t]) >= 1
      BY <3>1 DEF QueueInv, ChainOK
    <3> QED
      BY <1>2, <3>1, <3>2, Effects, MoveTypes
  <2>2. \A u \in Threads \ {t} : Still(u)
    BY <1>2, OthersStay DEF QueueInv, Still
  <2>3. \A q \in Queues : ChainOK(q)'
    BY <2>1, ChainsKeep
  <2>4. \A n \in Nodes : Apart(n)'
    BY <2>1, <2>2, ApartKeeps
  <2>5. ASSUME NEW u \in Threads
        PROVE  LocalOK(u)' /\ SeenOK(u)'
    <3>1. CASE u = t
      BY <1>2, <3>1, MoveLocal, MoveSeen
    <3>2. CASE u # t
      BY <1>2, <2>1, <2>2, <3>2, OthersKeep
    <3> QED
      BY <3>1, <3>2
  <2> QED
    BY <2>1, <2>3, <2>4, <2>5 DEF QueueInv
<1> QED
  BY <1>1, <1>2 DEF Next, Moves

\* Of the sets Places counts exactly one has n, and only once.
LEMMA OnePlaceEach ==
  ASSUME NEW n \in Nodes, Apart(n)
  PROVE  Places(n) = 1
<1> DEFINE Q == {q \in Queues : n \in In(q)}
           L == {t \in Threads : pc[t] \in {"EnqTail", "EnqNext", "EnqCheck", "EnqHelp", "EnqLink"}
                                 /\ node[t] = n}
           F == {t \in Threads : pc[t] = "DeqFree" /\ headTagged[t].ptr = n}
<1>1. Places(n) = Cardinality(Q) + Cardinality(L) + Cardinality(F) + IF n \in free THEN 1 ELSE 0
  BY DEF Places
<1>2. Cardinality({}) = 0
  BY FS_EmptySet
<1>3. \A x : Cardinality({x}) = 1
  BY FS_Singleton
<1>4. \A t \in Threads : Has(t, n) <=> t \in L \/ t \in F
  BY DEF Has, Linking
<1>5. L \cap F = {} /\ L \subseteq Threads /\ F \subseteq Threads /\ Q \subseteq Queues
  OBVIOUS
<1>6. CASE n \in free
  <2>1. Q = {} /\ L = {} /\ F = {}
    BY <1>4, <1>6 DEF Apart
  <2> HIDE DEF Q, L, F
  <2> QED
    BY <1>1, <1>2, <1>6, <2>1
<1>7. ASSUME NEW q \in Queues, n \in In(q)
      PROVE  Places(n) = 1
  <2>1. Q = {q} /\ L = {} /\ F = {} /\ n \notin free
    BY <1>4, <1>7 DEF Apart
  <2>2. Cardinality({q}) = 1
    BY <1>3
  <2> HIDE DEF Q, L, F
  <2> QED
    BY <1>1, <1>2, <2>1, <2>2
<1>8. ASSUME NEW t \in Threads, Has(t, n)
      PROVE  Places(n) = 1
  <2>1. Q = {} /\ n \notin free /\ \A u \in Threads : Has(u, n) => u = t
    BY <1>8 DEF Apart
  <2>2. (L = {t} /\ F = {}) \/ (L = {} /\ F = {t})
    <3>1. \A u \in Threads : u \in L \/ u \in F => u = t
      BY <1>4, <2>1
    <3>2. t \in L \/ t \in F
      BY <1>4, <1>8
    <3> HIDE DEF Q, L, F
    <3> QED
      BY <1>5, <3>1, <3>2
  <2>3. Cardinality({t}) = 1
    BY <1>3
  <2> HIDE DEF Q, L, F
  <2> QED
    BY <1>1, <1>2, <2>1, <2>2, <2>3
<1> QED
  BY <1>6, <1>7, <1>8 DEF Apart

\* As long as the tags tell, no node is lost, freed twice or in two queues, and
\* the links in memory are the queues.
THEOREM NodesKept == Spec /\ TagsTell => []NodesInOnePlace
<1>1. Spec /\ TagsTell => []QueueInv
  BY QueueInit, QueueStep, PTL DEF Spec, TagsTell
<1>2. QueueInv => NodesInOnePlace
  <2> SUFFICES ASSUME QueueInv
               PROVE  NodesInOnePlace
    OBVIOUS
  <2>1. \A n \in Nodes : Places(n) = 1
    BY OnePlaceEach DEF QueueInv
  <2>2. ASSUME NEW q \in Queues
        PROVE  /\ order[q] # <<>> /\ head[q].ptr = order[q][1]
               /\ \A i \in 1 .. Len(order[q]) - 1 : next[order[q][i]].ptr = order[q][i + 1]
               /\ next[order[q][Len(order[q])]].ptr = NoNode
               /\ tail[q].ptr \in {order[q][i] : i \in {Len(order[q]) - 1, Len(order[q])} \ {0}}
    <3>1. ChainOK(q) /\ Size(q) \in Nat /\ Size(q) >= 1
      BY ChainFacts DEF QueueInv
    <3>2. order[q] # <<>>
      BY <3>1 DEF Size
    <3> QED
      BY <3>1, <3>2 DEF ChainOK, Size, Last
  <2> QED
    BY <2>1, <2>2 DEF NodesInOnePlace, ChainExact
<1> QED
  BY <1>1, <1>2, PTL

----------------------------------------------------------------------------
(***************************************************************************)
(* Sizes, whatever the tags tell.                                          *)
(***************************************************************************)

\* The ends of a queue lead to nodes.
EndsOK(q) == head[q].ptr \in Nodes /\ tail[q].ptr \in Nodes

SizeInv ==
  /\ QueueType
  /\ \A q \in Queues : EndsOK(q) /\ Size(q) >= 1
  /\ \A t \in Threads : PointersOK(t)
  /\ SizeExact /\ ReservedIsThere

One(t, labels) == IF pc[t] \in labels THEN 1 ELSE 0

\* By how much a step of t changes _size and the length of its queue, and how
\* often t is counted among those that have linked, that fail, and that were let in.
Turns(t, s, l, c, u, r) ==
  LET q == queue'[t] IN
  /\ q \in Queues /\ (pc[t] = "idle" \/ q = queue[t])
  /\ size'[q] = size[q] + s /\ Len(order'[q]) = Len(order[q]) + l
  /\ \A p \in Queues : p # q => size'[p] = size[p] /\ order'[p] = order[p]
  /\ One(t, Counting)' = One(t, Counting) + c
  /\ One(t, {"DeqUndo"})' = One(t, {"DeqUndo"}) + u
  /\ One(t, Reserved)' = One(t, Reserved) + r

Balanced(t) ==
  \/ Turns(t, 0, 0, 0, 0, 0)
  \/ Turns(t, 0, 1, 1, 0, 0) \/ Turns(t, 1, 0, -1, 0, 0)
  \/ Turns(t, -1, 0, 0, 1, 0) \/ Turns(t, 1, 0, 0, -1, 0)
  \/ Turns(t, -1, 0, 0, 0, 1) /\ size[queue'[t]] >= 1
  \/ Turns(t, 0, -1, 0, 0, -1)

\* Pointers that a thread follows lead to nodes.
LEMMA MovePointers ==
  ASSUME QueueType, NEW t \in Threads, PointersOK(t), \A q \in Queues : EndsOK(q), Moves(t)
  PROVE  PointersOK(t)' /\ \A q \in Queues : EndsOK(q)'
<1>1. QueueType /\ PointersOK(t) /\ queue[t] \in Queues /\ \A q \in Queues : EndsOK(q)
  BY DEF QueueType
<1>2. \A k \in Int, n \in Nodes \cup {NoNode} : Make(k, n) \in Word /\ Make(k, n).ptr = n
  BY MakeWord
<1>3. \A w \in Word : w.tag + 1 \in Int /\ (w.ptr # NoNode => w.ptr \in Nodes)
  BY DEF Word
<1> HIDE DEF Null, Make, Word
<1> USE DEF memory, locals, QueueType, PointersOK, EndsOK, Labels, Linking, Reserved, Counting, HeadRead, TailRead, NextRead
<1>10. CASE EnqTail(t)
  BY <1>1, <1>2, <1>3, <1>10 DEF EnqTail, Go
<1>11. CASE EnqNext(t)
  BY <1>1, <1>2, <1>3, <1>11 DEF EnqNext, Go
<1>12. CASE EnqCheck(t)
  BY <1>1, <1>2, <1>3, <1>12 DEF EnqCheck, Go
<1>13. CASE EnqHelp(t)
  BY <1>1, <1>2, <1>3, <1>13 DEF EnqHelp, Go, CasTail
<1>14. CASE EnqLink(t)
  BY <1>1, <1>2, <1>3, <1>14 DEF EnqLink, Go
<1>15. CASE EnqLinkFails(t)
  BY <1>1, <1>2, <1>3, <1>15 DEF EnqLinkFails, Go
<1>16. CASE EnqSwing(t)
  BY <1>1, <1>2, <1>3, <1>16 DEF EnqSwing, Go, CasTail
<1>17. CASE EnqCount(t)
  BY <1>1, <1>2, <1>3, <1>17 DEF EnqCount, Go, End
<1>18. CASE DeqUndo(t)
  BY <1>1, <1>2, <1>3, <1>18 DEF DeqUndo, Go, End
<1>19. CASE DeqHead(t)
  BY <1>1, <1>2, <1>3, <1>19 DEF DeqHead, Go
<1>20. CASE DeqTail(t)
  BY <1>1, <1>2, <1>3, <1>20 DEF DeqTail, Go
<1>21. CASE DeqNext(t)
  BY <1>1, <1>2, <1>3, <1>21 DEF DeqNext, Go
<1>22. CASE DeqHelp(t)
  BY <1>1, <1>2, <1>3, <1>22 DEF DeqHelp, Go, CasTail
<1>23. CASE DeqData(t)
  BY <1>1, <1>2, <1>3, <1>23 DEF DeqData, Go
<1>24. CASE DeqUnlink(t)
  BY <1>1, <1>2, <1>3, <1>24 DEF DeqUnlink, Go
<1>25. CASE DeqUnlinkFails(t)
  BY <1>1, <1>2, <1>3, <1>25 DEF DeqUnlinkFails, Go
<1>26. CASE DeqFree(t)
  BY <1>1, <1>2, <1>3, <1>26 DEF DeqFree, Go, End
<1>27. ASSUME NEW q1 \in Queues, DeqReserve(t, q1)
      PROVE  PointersOK(t)' /\ \A q \in Queues : EndsOK(q)'
  BY <1>1, <1>2, <1>3, <1>27 DEF DeqReserve, Begin
<1>28. ASSUME NEW q1 \in Queues, NEW v \in Values, EnqAlloc(t, q1, v)
      PROVE  PointersOK(t)' /\ \A q \in Queues : EndsOK(q)'
  BY <1>1, <1>2, <1>3, <1>28 DEF EnqAlloc, Begin
<1> QED
  BY <1>10, <1>11, <1>12, <1>13, <1>14, <1>15, <1>16, <1>17, <1>18, <1>19, <1>20, <1>21, <1>22, <1>23, <1>24, <1>25, <1>26, <1>27, <1>28 DEF Moves, Enqueue, Dequeue

\* Every step keeps the balance of _size.
LEMMA Balance ==
  ASSUME QueueType, NEW t \in Threads, Size(queue[t]) >= 1, Moves(t)
  PROVE  Balanced(t)
<1>1. QueueType /\ queue[t] \in Queues /\ Size(queue[t]) >= 1
  BY DEF QueueType
<1> USE DEF memory, locals, QueueType, Size, Balanced, Turns, One, Labels, Linking, Reserved, Counting, HeadRead, TailRead, NextRead
<1>10. CASE EnqTail(t)
  BY <1>1, <1>10 DEF EnqTail, Go
<1>11. CASE EnqNext(t)
  BY <1>1, <1>11 DEF EnqNext, Go
<1>12. CASE EnqCheck(t)
  BY <1>1, <1>12 DEF EnqCheck, Go
<1>13. CASE EnqHelp(t)
  BY <1>1, <1>13 DEF EnqHelp, Go, CasTail
<1>14. CASE EnqLink(t)
  <2>1. Len(order'[queue[t]]) = Len(order[queue[t]]) + 1
    BY <1>1, <1>14, AppendFacts DEF EnqLink
  <2> QED
    BY <1>1, <1>14, <2>1 DEF EnqLink, Go
<1>15. CASE EnqLinkFails(t)
  BY <1>1, <1>15 DEF EnqLinkFails, Go
<1>16. CASE EnqSwing(t)
  BY <1>1, <1>16 DEF EnqSwing, Go, CasTail
<1>17. CASE EnqCount(t)
  BY <1>1, <1>17 DEF EnqCount, Go, End
<1>18. CASE DeqUndo(t)
  BY <1>1, <1>18 DEF DeqUndo, Go, End
<1>19. CASE DeqHead(t)
  BY <1>1, <1>19 DEF DeqHead, Go
<1>20. CASE DeqTail(t)
  BY <1>1, <1>20 DEF DeqTail, Go
<1>21. CASE DeqNext(t)
  BY <1>1, <1>21 DEF DeqNext, Go
<1>22. CASE DeqHelp(t)
  BY <1>1, <1>22 DEF DeqHelp, Go, CasTail
<1>23. CASE DeqData(t)
  BY <1>1, <1>23 DEF DeqData, Go
<1>24. CASE DeqUnlink(t)
  <2>1. Len(order'[queue[t]]) = Len(order[queue[t]]) - 1
    BY <1>1, <1>24, TailFacts DEF DeqUnlink
  <2> QED
    BY <1>1, <1>24, <2>1 DEF DeqUnlink, Go
<1>25. CASE DeqUnlinkFails(t)
  BY <1>1, <1>25 DEF DeqUnlinkFails, Go
<1>26. CASE DeqFree(t)
  BY <1>1, <1>26 DEF DeqFree, Go, End
<1>27. ASSUME NEW q1 \in Queues, DeqReserve(t, q1)
      PROVE  Balanced(t)
  BY <1>1, <1>27 DEF DeqReserve, Begin
<1>28. ASSUME NEW q1 \in Queues, NEW v \in Values, EnqAlloc(t, q1, v)
      PROVE  Balanced(t)
  BY <1>1, <1>28 DEF EnqAlloc, Begin
<1> QED
  BY <1>10, <1>11, <1>12, <1>13, <1>14, <1>15, <1>16, <1>17, <1>18, <1>19, <1>20, <1>21, <1>22, <1>23, <1>24, <1>25, <1>26, <1>27, <1>28 DEF Moves, Enqueue, Dequeue

\* Of the threads that are counted, all but t are counted again.
LEMMA Recount ==
  ASSUME QueueType, QueueType', NEW t \in Threads, NEW labels, "idle" \notin labels,
         NEW q \in Queues, q = queue'[t], pc[t] = "idle" \/ q = queue[t],
         \A u \in Threads \ {t} : pc'[u] = pc[u] /\ queue'[u] = queue[u]
  PROVE  /\ \A p \in Queues : At(p, labels) \in Nat /\ At(p, labels)' \in Nat
         /\ \A p \in Queues : p # q => At(p, labels)' = At(p, labels)
         /\ At(q, labels)' - One(t, labels)' = At(q, labels) - One(t, labels)
<1> DEFINE A(p)  == {u \in Threads : queue[u] = p /\ pc[u] \in labels}
           B(p)  == {u \in Threads : queue'[u] = p /\ pc'[u] \in labels}
           O     == {u \in Threads \ {t} : queue[u] = q /\ pc[u] \in labels}
<1>1. \A p : IsFiniteSet(A(p)) /\ IsFiniteSet(B(p))
  <2>1. \A p : A(p) \subseteq Threads /\ B(p) \subseteq Threads
    OBVIOUS
  <2> HIDE DEF A, B
  <2> QED
    BY <2>1, FS_Subset, QueueAssumption
<1>2. IsFiniteSet(O) /\ t \notin O
  <2>1. O \subseteq Threads /\ t \notin O
    OBVIOUS
  <2> QED
    BY <2>1, FS_Subset, QueueAssumption
<1>3. \A p \in Queues : At(p, labels) = Cardinality(A(p)) /\ At(p, labels)' = Cardinality(B(p))
  BY DEF At
<1>4. ASSUME NEW p \in Queues, p # q
      PROVE  A(p) = B(p)
  <2>1. \A v \in Threads : v \in A(p) <=> v \in B(p)
    <3> TAKE v \in Threads
    <3>1. CASE v = t
      BY <1>4, <3>1
    <3>2. CASE v # t
      BY <1>4, <3>2
    <3> QED
      BY <3>1, <3>2
  <2>2. A(p) \subseteq Threads /\ B(p) \subseteq Threads
    OBVIOUS
  <2> HIDE DEF A, B
  <2> QED
    BY <2>1, <2>2
<1>5. A(q) = IF pc[t] \in labels THEN O \cup {t} ELSE O
  OBVIOUS
<1>6. B(q) = IF pc'[t] \in labels THEN O \cup {t} ELSE O
  OBVIOUS
<1>7. Cardinality(O \cup {t}) = Cardinality(O) + 1 /\ Cardinality(O) \in Nat
  <2> HIDE DEF O
  <2> QED
    BY <1>2, FS_AddElement, FS_CardinalityType
<1> HIDE DEF A, B, O
<1>8. \A p \in Queues : At(p, labels) \in Nat /\ At(p, labels)' \in Nat
  BY <1>1, <1>3, FS_CardinalityType
<1>9. \A p \in Queues : p # q => At(p, labels)' = At(p, labels)
  BY <1>3, <1>4
<1>10. At(q, labels) - One(t, labels) = Cardinality(O)
  BY <1>3, <1>5, <1>7 DEF One
<1>11. At(q, labels)' - One(t, labels)' = Cardinality(O)
  BY <1>3, <1>6, <1>7 DEF One
<1> QED
  BY <1>8, <1>9, <1>10, <1>11

\* Every step keeps sizes exact, and nobody is let in for nothing.
LEMMA SizesKeep ==
  ASSUME QueueType, QueueType', SizeExact, ReservedIsThere, NEW t \in Threads, Balanced(t),
         \A u \in Threads \ {t} : pc'[u] = pc[u] /\ queue'[u] = queue[u]
  PROVE  SizeExact' /\ ReservedIsThere' /\ \A q \in Queues : Len(order'[q]) >= 1
<1> DEFINE C(p) == At(p, Counting)
           U(p) == At(p, {"DeqUndo"})
           R(p) == At(p, Reserved)
<1>1. PICK q \in Queues : q = queue'[t] /\ (pc[t] = "idle" \/ q = queue[t])
  BY DEF Balanced, Turns
<1>2. "idle" \notin Counting /\ "idle" \notin {"DeqUndo"} /\ "idle" \notin Reserved
  BY DEF Counting, Reserved
<1>3. /\ \A p \in Queues : C(p) \in Nat /\ C(p)' \in Nat
      /\ \A p \in Queues : p # q => C(p)' = C(p)
      /\ C(q)' - One(t, Counting)' = C(q) - One(t, Counting)
  BY <1>1, <1>2, Recount
<1>4. /\ \A p \in Queues : U(p) \in Nat /\ U(p)' \in Nat
      /\ \A p \in Queues : p # q => U(p)' = U(p)
      /\ U(q)' - One(t, {"DeqUndo"})' = U(q) - One(t, {"DeqUndo"})
  BY <1>1, <1>2, Recount
<1>5. /\ \A p \in Queues : R(p) \in Nat /\ R(p)' \in Nat
      /\ \A p \in Queues : p # q => R(p)' = R(p)
      /\ R(q)' - One(t, Reserved)' = R(q) - One(t, Reserved)
  BY <1>1, <1>2, Recount
<1>6. /\ \A labels : One(t, labels) \in 0 .. 1
      /\ One(t, Counting)' \in 0 .. 1 /\ One(t, {"DeqUndo"})' \in 0 .. 1 /\ One(t, Reserved)' \in 0 .. 1
  BY DEF One
<1>7. \A p \in Queues : /\ size[p] \in Int /\ Len(order[p]) \in Nat
                        /\ size'[p] \in Int /\ Len(order'[p]) \in Nat
  BY DEF QueueType
<1>8. \A p \in Queues : /\ size[p] = Len(order[p]) - 1 - C(p) - U(p) - R(p)
                        /\ R(p) <= Len(order[p]) - 1
  BY DEF SizeExact, ReservedIsThere, Counting, Reserved
<1> HIDE DEF C, U, R
<1>9. \A p \in Queues : p # q => size'[p] = size[p] /\ order'[p] = order[p]
  BY <1>1 DEF Balanced, Turns
<1>10. /\ size'[q] = Len(order'[q]) - 1 - C(q)' - U(q)' - R(q)'
       /\ R(q)' <= Len(order'[q]) - 1
  <2>1. PICK c0, c1, u0, u1, r0, r1 \in Nat :
          c0 = C(q) /\ c1 = C(q)' /\ u0 = U(q) /\ u1 = U(q)' /\ r0 = R(q) /\ r1 = R(q)'
    BY <1>3, <1>4, <1>5
  <2>2. PICK s0, s1 \in Int, l0, l1 \in Nat :
          s0 = size[q] /\ s1 = size'[q] /\ l0 = Len(order[q]) /\ l1 = Len(order'[q])
    BY <1>7
  <2>3. s0 = l0 - 1 - c0 - u0 - r0 /\ r0 <= l0 - 1
    BY <1>8, <2>1, <2>2
  <2>4. ASSUME NEW s \in Int, NEW l \in Int, NEW c \in Int, NEW u \in Int, NEW r \in Int,
               Turns(t, s, l, c, u, r)
        PROVE  s1 = s0 + s /\ l1 = l0 + l /\ c1 = c0 + c /\ u1 = u0 + u /\ r1 = r0 + r
    <3>1. PICK a0, a1, b0, b1, d0, d1 \in 0 .. 1 :
            /\ a0 = One(t, Counting) /\ a1 = One(t, Counting)'
            /\ b0 = One(t, {"DeqUndo"}) /\ b1 = One(t, {"DeqUndo"})'
            /\ d0 = One(t, Reserved) /\ d1 = One(t, Reserved)'
      BY <1>6
    <3> HIDE DEF One
    <3>2. s1 = s0 + s /\ l1 = l0 + l /\ a1 = a0 + c /\ b1 = b0 + u /\ d1 = d0 + r
      BY <1>1, <2>2, <2>4, <3>1 DEF Turns
    <3>3. c1 - a1 = c0 - a0 /\ u1 - b1 = u0 - b0 /\ r1 - d1 = r0 - d0
      BY <1>3, <1>4, <1>5, <2>1, <3>1
    <3> QED
      BY <3>2, <3>3
  <2> HIDE DEF Turns
  <2> SUFFICES s1 = l1 - 1 - c1 - u1 - r1 /\ r1 <= l1 - 1
    BY <2>1, <2>2
  <2>5. ASSUME NEW s \in Int, NEW l \in Int, NEW c \in Int, NEW u \in Int, NEW r \in Int,
               Turns(t, s, l, c, u, r), s = l - c - u - r, r <= l \/ s0 + s >= 0
        PROVE  s1 = l1 - 1 - c1 - u1 - r1 /\ r1 <= l1 - 1
    BY <2>3, <2>4, <2>5
  <2>6. CASE Turns(t, 0, 0, 0, 0, 0)
    BY <2>5, <2>6
  <2>7. CASE Turns(t, 0, 1, 1, 0, 0)
    BY <2>5, <2>7
  <2>8. CASE Turns(t, 1, 0, -1, 0, 0)
    BY <2>5, <2>8
  <2>9. CASE Turns(t, -1, 0, 0, 1, 0)
    BY <2>5, <2>9
  <2>10. CASE Turns(t, 1, 0, 0, -1, 0)
    BY <2>5, <2>10
  <2>11. CASE Turns(t, -1, 0, 0, 0, 1) /\ size[queue'[t]] >= 1
    <3>1. size[q] >= 1
      BY <1>1, <2>11
    <3>2. s0 >= 1
      BY <2>2, <3>1
    <3>3. Turns(t, -1, 0, 0, 0, 1) /\ -1 \in Int /\ 0 \in Int /\ 1 \in Int
      BY <2>11
    <3>4. s1 = s0 + -1 /\ l1 = l0 + 0 /\ c1 = c0 + 0 /\ u1 = u0 + 0 /\ r1 = r0 + 1
      <4>1. PICK a0, a1, b0, b1, d0, d1 \in 0 .. 1 :
              /\ a0 = One(t, Counting) /\ a1 = One(t, Counting)'
              /\ b0 = One(t, {"DeqUndo"}) /\ b1 = One(t, {"DeqUndo"})'
              /\ d0 = One(t, Reserved) /\ d1 = One(t, Reserved)'
        BY <1>6
      <4> HIDE DEF One
      <4>2. s1 = s0 + -1 /\ l1 = l0 + 0 /\ a1 = a0 + 0 /\ b1 = b0 + 0 /\ d1 = d0 + 1
        BY <1>1, <2>2, <3>3, <4>1 DEF Turns
      <4>3. c1 - a1 = c0 - a0 /\ u1 - b1 = u0 - b0 /\ r1 - d1 = r0 - d0
        BY <1>3, <1>4, <1>5, <2>1, <4>1
      <4> QED
        BY <4>2, <4>3
    <3> QED
      BY <2>3, <3>2, <3>4
  <2>12. CASE Turns(t, 0, -1, 0, 0, -1)
    BY <2>5, <2>12
  <2> QED
    BY <2>6, <2>7, <2>8, <2>9, <2>10, <2>11, <2>12 DEF Balanced
<1>11. \A p \in Queues : /\ size'[p] = Len(order'[p]) - 1 - C(p)' - U(p)' - R(p)'
                         /\ R(p)' <= Len(order'[p]) - 1
  BY <1>3, <1>4, <1>5, <1>8, <1>9, <1>10
<1>12. \A p \in Queues : Len(order'[p]) >= 1
  BY <1>5, <1>7, <1>11
<1>13. SizeExact'
  BY <1>11 DEF SizeExact, C, U, R, Counting, Reserved
<1>14. ReservedIsThere'
  BY <1>11 DEF ReservedIsThere, R, Reserved
<1> QED
  BY <1>12, <1>13, <1>14

LEMMA SizeInit == Init => SizeInv
<1> SUFFICES ASSUME Init
             PROVE  SizeInv
  OBVIOUS
<1>1. QueueInv
  BY QueueInit
<1>2. /\ QueueType /\ \A q \in Queues : Size(q) = 1 /\ Size(q) \in Nat
      /\ \A q \in Queues : size[q] = 0
      /\ \A t \in Threads : pc[t] = "idle"
  <2>1. \A q \in Queues : order[q] \in Seq(Nodes) /\ \E n \in Nodes : order[q] = <<n>>
    BY DEF Init
  <2> QED
    BY <1>1, <2>1 DEF QueueInv, Init, Size
<1>3. \A q \in Queues : EndsOK(q)
  <2>1. PICK dummy \in [Queues -> Nodes] : head = [q \in Queues |-> Make(0, dummy[q])] /\ tail = head
    BY DEF Init
  <2>2. \A n \in Nodes : Make(0, n).ptr = n
    BY MakeWord
  <2> QED
    BY <2>1, <2>2 DEF EndsOK
<1>4. \A t \in Threads : PointersOK(t)
  BY <1>2 DEF PointersOK, Linking, TailRead, HeadRead
<1>5. ASSUME NEW labels, "idle" \notin labels, NEW q \in Queues
      PROVE  At(q, labels) = 0
  <2>1. {t \in Threads : queue[t] = q /\ pc[t] \in labels} = {}
    BY <1>2, <1>5
  <2> QED
    BY <2>1, FS_EmptySet DEF At
<1> HIDE DEF At
<1>6. SizeExact /\ ReservedIsThere
  <2>1. ASSUME NEW q \in Queues
        PROVE  /\ At(q, {"EnqSwing", "EnqCount"}) = 0 /\ At(q, {"DeqUndo"}) = 0
               /\ At(q, {"DeqHead", "DeqTail", "DeqNext", "DeqHelp", "DeqData", "DeqUnlink"}) = 0
    BY <1>5
  <2>2. \A q \in Queues : size[q] = Len(order[q]) - 1 - 0 - 0 - 0 /\ 0 <= Len(order[q]) - 1
    <3> TAKE q \in Queues
    <3>1. size[q] = 0 /\ Len(order[q]) = 1
      BY <1>2 DEF Size
    <3> HIDE DEF Size
    <3> QED
      BY <3>1
  <2>3. SizeExact
    BY <2>1, <2>2 DEF SizeExact
  <2>4. ReservedIsThere
    BY <2>1, <2>2 DEF ReservedIsThere
  <2> QED
    BY <2>3, <2>4
<1> QED
  BY <1>2, <1>3, <1>4, <1>6 DEF SizeInv

LEMMA SizeStep == SizeInv /\ [Next]_vars => SizeInv'
<1> SUFFICES ASSUME SizeInv, [Next]_vars
             PROVE  SizeInv'
  OBVIOUS
<1>1. CASE UNCHANGED vars
  <2>1. UNCHANGED <<next, data, head, tail, size, free, pc, queue, node, headTagged, tailTagged,
                    nextTagged, value, got, order>>
    BY <1>1 DEF vars, memory, locals
  <2>2. QueueType' /\ \A q \in Queues : EndsOK(q)' /\ Size(q)' >= 1
    BY <2>1 DEF SizeInv, QueueType, EndsOK, Size
  <2>3. \A t \in Threads : PointersOK(t)'
    BY <2>1 DEF SizeInv, PointersOK
  <2>4. SizeExact' /\ ReservedIsThere'
    BY <2>1 DEF SizeInv, SizeExact, ReservedIsThere, At
  <2> QED
    BY <2>2, <2>3, <2>4 DEF SizeInv
<1>2. ASSUME NEW t \in Threads, Moves(t)
      PROVE  SizeInv'
  <2>1. QueueType /\ queue[t] \in Queues /\ Size(queue[t]) >= 1
    BY DEF SizeInv, QueueType
  <2>2. QueueType'
    BY <1>2, <2>1, MoveTypes DEF SizeInv
  <2>3. PointersOK(t)' /\ \A q \in Queues : EndsOK(q)'
    BY <1>2, <2>1, MovePointers DEF SizeInv
  <2>4. \A u \in Threads \ {t} :
          /\ pc'[u] = pc[u] /\ queue'[u] = queue[u] /\ node'[u] = node[u]
          /\ headTagged'[u] = headTagged[u] /\ tailTagged'[u] = tailTagged[u]
          /\ nextTagged'[u] = nextTagged[u]
    BY <1>2, <2>1, OthersStay
  <2>5. \A u \in Threads : PointersOK(u)'
    <3>1. ASSUME NEW u \in Threads, u # t
          PROVE  PointersOK(u)'
      BY <2>4, <3>1 DEF SizeInv, PointersOK
    <3> QED
      BY <2>3, <3>1
  <2>6. SizeExact' /\ ReservedIsThere' /\ \A q \in Queues : Len(order'[q]) >= 1
    BY <1>2, <2>1, <2>2, <2>4, Balance, SizesKeep DEF SizeInv
  <2> QED
    BY <2>2, <2>3, <2>5, <2>6 DEF SizeInv, Size
<1> QED
  BY <1>1, <1>2 DEF Next, Moves

\* _size is what it stands for in every state, even when tags mislead.
THEOREM SizeIsExact == Spec => []SizeExact
<1>1. SizeInv => SizeExact
  BY DEF SizeInv
<1> QED
  BY SizeInit, SizeStep, <1>1, PTL DEF Spec

\* A Dequeue that was let in finds a value, or another takes its place.
THEOREM LetInForValue == Spec => []ReservedIsThere
<1>1. SizeInv => ReservedIsThere
  BY DEF SizeInv
<1> QED
  BY SizeInit, SizeStep, <1>1, PTL DEF Spec

----------------------------------------------------------------------------
(***************************************************************************)
(* The queues give their values out in the order they took them in.        *)
(***************************************************************************)

Items(q) == [i \in 1 .. Len(order[q]) - 1 |-> data[order[q][i + 1]]]

LEMMA IsSequence ==
  ASSUME NEW S, NEW n \in Nat, NEW f \in [1 .. n -> S]
  PROVE  f \in Seq(S) /\ Len(f) = n
OBVIOUS

LEMMA IsAppend ==
  ASSUME NEW S, NEW n \in Nat, NEW f \in [1 .. n -> S], NEW v \in S,
         NEW g \in [1 .. n + 1 -> S], g[n + 1] = v, \A i \in 1 .. n : g[i] = f[i]
  PROVE  g = Append(f, v)
<1>1. f \in Seq(S) /\ Len(f) = n
  BY IsSequence
<1>2. g \in Seq(S) /\ Len(g) = n + 1
  BY IsSequence
<1>3. Append(f, v) \in Seq(S) /\ Len(Append(f, v)) = n + 1
  BY <1>1
<1>4. ASSUME NEW i \in 1 .. n + 1
      PROVE  g[i] = Append(f, v)[i]
  <2>1. CASE i = n + 1
    BY <1>1, <2>1
  <2>2. CASE i # n + 1
    <3>1. i \in 1 .. n
      BY <2>2
    <3> QED
      BY <1>1, <3>1
  <2> QED
    BY <2>1, <2>2
<1> QED
  BY <1>2, <1>3, <1>4, SeqEqual

LEMMA IsTail ==
  ASSUME NEW S, NEW n \in Nat, NEW f \in [1 .. n + 1 -> S], NEW g \in [1 .. n -> S],
         \A i \in 1 .. n : g[i] = f[i + 1]
  PROVE  g = Tail(f) /\ f # <<>> /\ Head(f) = f[1]
<1>1. f \in Seq(S) /\ Len(f) = n + 1
  BY IsSequence
<1>2. g \in Seq(S) /\ Len(g) = n
  BY IsSequence
<1>3. f # <<>> /\ Head(f) = f[1]
  BY <1>1
<1>4. Tail(f) \in Seq(S) /\ Len(Tail(f)) = n /\ \A i \in 1 .. n : Tail(f)[i] = f[i + 1]
  BY <1>1
<1> QED
  BY <1>2, <1>3, <1>4, SeqEqual

\* Where the nodes and their data stay, the values do.
LEMMA ItemsStay ==
  ASSUME QueueType, NEW q \in Queues, order'[q] = order[q],
         \A i \in 1 .. Len(order[q]) : data'[order[q][i]] = data[order[q][i]]
  PROVE  Items(q)' = Items(q)
<1>1. Len(order[q]) \in Nat
  BY DEF QueueType
<1>2. \A i \in 1 .. Len(order[q]) - 1 : i + 1 \in 1 .. Len(order[q])
  BY <1>1
<1>3. \A i \in 1 .. Len(order[q]) - 1 : data'[order[q][i + 1]] = data[order[q][i + 1]]
  BY <1>2
<1> QED
  BY <1>3 DEF Items

LEMMA ItemsType ==
  ASSUME NEW c \in Seq(Nodes), Len(c) >= 1, QueueType
  PROVE  [i \in 1 .. Len(c) - 1 |-> data[c[i + 1]]] \in [1 .. Len(c) - 1 -> Values \cup {Nothing}]
<1>1. \A i \in 1 .. Len(c) - 1 : i + 1 \in 1 .. Len(c)
  OBVIOUS
<1>2. \A i \in 1 .. Len(c) : c[i] \in Nodes
  OBVIOUS
<1>3. \A n \in Nodes : data[n] \in Values \cup {Nothing}
  BY DEF QueueType
<1>4. \A i \in 1 .. Len(c) - 1 : data[c[i + 1]] \in Values \cup {Nothing}
  BY <1>1, <1>2, <1>3
<1> QED
  BY <1>4

LEMMA LinkItems ==
  ASSUME QueueInv, NEW t \in Threads, Links(t)
  PROVE  /\ queue[t] \in Queues /\ data[node[t]] \in Values
         /\ \A q \in Queues : q # queue[t] => Items(q)' = Items(q)
         /\ \A q \in Queues : q = queue[t] => Items(q)' = Append(Items(q), data[node[t]])
<1>1. /\ queue[t] \in Queues /\ node[t] \in Nodes /\ data' = data
      /\ order'[queue[t]] = Append(order[queue[t]], node[t])
      /\ \A q \in Queues : q # queue[t] => order'[q] = order[q]
  BY LinkFacts DEF Links
<1>2. data[node[t]] \in Values
  BY DEF QueueInv, LocalOK, Links, Linking
<1>3. \A q \in Queues : q # queue[t] => Items(q)' = Items(q)
  BY <1>1, ItemsStay DEF QueueInv
<1>4. ASSUME NEW q \in Queues, q = queue[t]
      PROVE  Items(q)' = Append(Items(q), data[node[t]])
  <2> DEFINE n == Len(order[q]) - 1
             f == Items(q)
             g == [i \in 1 .. Len(order'[q]) - 1 |-> data[order'[q][i + 1]]]
  <2>1. /\ order[q] \in Seq(Nodes) /\ Len(order'[q]) = Len(order[q]) + 1
        /\ order'[q][Len(order[q]) + 1] = node[t]
        /\ \A i \in 1 .. Len(order[q]) : order'[q][i] = order[q][i]
    <3>1. order[q] \in Seq(Nodes) /\ order'[q] = Append(order[q], node[t])
      BY <1>1, <1>4 DEF QueueInv, QueueType
    <3> QED
      BY <1>1, <3>1, AppendFacts
  <2>2. n \in Nat /\ f \in [1 .. n -> Values \cup {Nothing}]
    <3>1. Len(order[q]) >= 1
      BY ChainFacts DEF Size
    <3> QED
      BY <2>1, <3>1, ItemsType DEF QueueInv, Items
  <2>3. Items(q)' = g
    BY <1>1 DEF Items
  <2>4. Len(order'[q]) - 1 = n + 1
    BY <2>1, <2>2
  <2>5. g \in [1 .. n + 1 -> Values \cup {Nothing}]
    <3>1. order'[q] = Append(order[q], node[t])
      BY <1>1, <1>4
    <3>2. order'[q] \in Seq(Nodes) /\ Len(order'[q]) >= 1
      <4>1. Append(order[q], node[t]) \in Seq(Nodes)
        BY <1>1, <2>1
      <4> QED
        BY <2>2, <2>4, <3>1, <4>1
    <3> QED
      BY <2>4, <3>2, ItemsType DEF QueueInv
  <2>6. g[n + 1] = data[node[t]]
    <3>1. n + 1 \in 1 .. Len(order'[q]) - 1 /\ (n + 1) + 1 = Len(order[q]) + 1
      BY <2>1, <2>2, <2>4
    <3> QED
      BY <2>1, <3>1
  <2>7. \A i \in 1 .. n : g[i] = f[i]
    <3> TAKE i \in 1 .. n
    <3>1. i + 1 \in 1 .. Len(order[q]) /\ i \in 1 .. Len(order'[q]) - 1 /\ i \in 1 .. Len(order[q]) - 1
      BY <2>1, <2>2
    <3>2. g[i] = data[order'[q][i + 1]] /\ f[i] = data[order[q][i + 1]]
      BY <3>1 DEF Items
    <3> QED
      BY <2>1, <3>1, <3>2
  <2> HIDE DEF f, g, n
  <2> QED
    BY <1>2, <2>2, <2>3, <2>5, <2>6, <2>7, IsAppend DEF f
<1> QED
  BY <1>1, <1>2, <1>3, <1>4

LEMMA UnlinkItems ==
  ASSUME QueueInv, NEW t \in Threads, Unlinks(t)
  PROVE  /\ queue[t] \in Queues
         /\ \A q \in Queues : q # queue[t] => Items(q)' = Items(q)
         /\ \A q \in Queues : q = queue[t] =>
              Items(q)' = Tail(Items(q)) /\ Items(q) # <<>> /\ Head(Items(q)) = value[t]
<1>1. /\ queue[t] \in Queues /\ data' = data /\ Len(order[queue[t]]) >= 2
      /\ order'[queue[t]] = Tail(order[queue[t]])
      /\ \A q \in Queues : q # queue[t] => order'[q] = order[q]
  BY UnlinkFacts DEF Unlinks, Size
<1>2. value[t] = data[order[queue[t]][2]]
  BY DEF QueueInv, SeenOK, Unlinks
<1>3. \A q \in Queues : q # queue[t] => Items(q)' = Items(q)
  BY <1>1, ItemsStay DEF QueueInv
<1>4. ASSUME NEW q \in Queues, q = queue[t]
      PROVE  Items(q)' = Tail(Items(q)) /\ Items(q) # <<>> /\ Head(Items(q)) = value[t]
  <2> DEFINE n == Len(order[q]) - 2
             f == Items(q)
             g == [i \in 1 .. Len(order'[q]) - 1 |-> data[order'[q][i + 1]]]
  <2>1. /\ order[q] \in Seq(Nodes) /\ Len(order'[q]) = Len(order[q]) - 1
        /\ \A i \in 1 .. Len(order[q]) - 1 : order'[q][i] = order[q][i + 1]
    <3>1. order[q] \in Seq(Nodes) /\ Len(order[q]) >= 1
      BY <1>1, <1>4 DEF QueueInv, QueueType
    <3> QED
      BY <1>1, <1>4, <3>1, TailFacts
  <2>2. /\ Len(order[q]) \in Nat /\ n \in Nat /\ Len(order[q]) - 1 = n + 1
        /\ Len(order'[q]) - 1 = n
    BY <1>1, <1>4, <2>1
  <2>3. f \in [1 .. n + 1 -> Values \cup {Nothing}]
    <3>1. Len(order[q]) >= 1
      BY <1>1, <1>4, <2>2
    <3>2. f \in [1 .. Len(order[q]) - 1 -> Values \cup {Nothing}]
      BY <2>1, <3>1, ItemsType DEF QueueInv, Items
    <3> QED
      BY <2>2, <3>2
  <2>4. Items(q)' = g
    BY <1>1 DEF Items
  <2>5. g \in [1 .. n -> Values \cup {Nothing}]
    <3>1. order'[q] = Tail(order[q])
      BY <1>1, <1>4
    <3>2. order'[q] \in Seq(Nodes) /\ Len(order'[q]) >= 1
      <4>1. Tail(order[q]) \in Seq(Nodes)
        BY <1>1, <1>4, <2>1
      <4>2. Len(order[q]) >= 2
        BY <1>1, <1>4
      <4> QED
        BY <2>1, <2>2, <3>1, <4>1, <4>2
    <3> QED
      BY <2>2, <3>2, ItemsType DEF QueueInv
  <2>6. \A i \in 1 .. n : g[i] = f[i + 1]
    <3> TAKE i \in 1 .. n
    <3>1. /\ i + 1 \in 1 .. Len(order[q]) - 1 /\ i \in 1 .. Len(order'[q]) - 1
          /\ i + 1 \in 1 .. n + 1
      BY <2>2
    <3>2. g[i] = data[order'[q][i + 1]] /\ f[i + 1] = data[order[q][(i + 1) + 1]]
      BY <3>1 DEF Items
    <3> QED
      BY <2>1, <3>1, <3>2
  <2>7. f[1] = value[t]
    <3>1. 1 \in 1 .. Len(order[q]) - 1 /\ 1 + 1 = 2
      BY <2>2
    <3> QED
      BY <1>2, <1>4, <3>1 DEF Items
  <2> HIDE DEF f, g, n
  <2>8. g = Tail(f) /\ f # <<>> /\ Head(f) = f[1]
    BY <2>2, <2>3, <2>5, <2>6, IsTail
  <2> QED
    BY <2>4, <2>7, <2>8 DEF f
<1> QED
  BY <1>1, <1>3, <1>4


\* What a step gives the thread: the value it has taken, or none when it fails.
Gives(t) ==
  IF pc[t] = "DeqUnlink" /\ pc'[t] = "DeqFree"
  THEN Unlinks(t) /\ got' = [got EXCEPT ![t] = value[t]]
  ELSE got' = IF pc[t] = "DeqUndo" THEN [got EXCEPT ![t] = Nothing] ELSE got

LEMMA MoveGives ==
  ASSUME QueueType, NEW t \in Threads, Moves(t)
  PROVE  Gives(t)
<1>1. QueueType
  OBVIOUS
<1> USE DEF memory, locals, QueueType, Unlinks, Gives
<1>10. CASE EnqTail(t)
  BY <1>1, <1>10 DEF EnqTail, Go
<1>11. CASE EnqNext(t)
  BY <1>1, <1>11 DEF EnqNext, Go
<1>12. CASE EnqCheck(t)
  BY <1>1, <1>12 DEF EnqCheck, Go
<1>13. CASE EnqHelp(t)
  BY <1>1, <1>13 DEF EnqHelp, Go, CasTail
<1>14. CASE EnqLink(t)
  BY <1>1, <1>14 DEF EnqLink, Go
<1>15. CASE EnqLinkFails(t)
  BY <1>1, <1>15 DEF EnqLinkFails, Go
<1>16. CASE EnqSwing(t)
  BY <1>1, <1>16 DEF EnqSwing, Go, CasTail
<1>17. CASE EnqCount(t)
  BY <1>1, <1>17 DEF EnqCount, Go, End
<1>18. CASE DeqUndo(t)
  BY <1>1, <1>18 DEF DeqUndo, Go, End
<1>19. CASE DeqHead(t)
  BY <1>1, <1>19 DEF DeqHead, Go
<1>20. CASE DeqTail(t)
  BY <1>1, <1>20 DEF DeqTail, Go
<1>21. CASE DeqNext(t)
  BY <1>1, <1>21 DEF DeqNext, Go
<1>22. CASE DeqHelp(t)
  BY <1>1, <1>22 DEF DeqHelp, Go, CasTail
<1>23. CASE DeqData(t)
  BY <1>1, <1>23 DEF DeqData, Go
<1>24. CASE DeqUnlink(t)
  BY <1>1, <1>24 DEF DeqUnlink, Go
<1>25. CASE DeqUnlinkFails(t)
  BY <1>1, <1>25 DEF DeqUnlinkFails, Go
<1>26. CASE DeqFree(t)
  BY <1>1, <1>26 DEF DeqFree, Go, End
<1>27. ASSUME NEW q1 \in Queues, DeqReserve(t, q1)
      PROVE  Gives(t)
  BY <1>1, <1>27 DEF DeqReserve, Begin
<1>28. ASSUME NEW q1 \in Queues, NEW v \in Values, EnqAlloc(t, q1, v)
      PROVE  Gives(t)
  BY <1>1, <1>28 DEF EnqAlloc, Begin
<1> QED
  BY <1>10, <1>11, <1>12, <1>13, <1>14, <1>15, <1>16, <1>17, <1>18, <1>19, <1>20, <1>21, <1>22, <1>23, <1>24, <1>25, <1>26, <1>27, <1>28 DEF Moves, Enqueue, Dequeue

\* A step of a thread is a step of the abstract queues, or none.
LEMMA MoveImplements ==
  ASSUME QueueInv, NEW t \in Threads, Moves(t)
  PROVE  [Abstract!Next]_<<[q \in Queues |-> Items(q)], got>>
<1> DEFINE A == [q \in Queues |-> Items(q)]
<1> SUFFICES \/ A' = A /\ got' = got
             \/ A' = A /\ got' = [got EXCEPT ![t] = Nothing]
             \/ \E q \in Queues, v \in Values : A' = [A EXCEPT ![q] = Append(@, v)] /\ got' = got
             \/ \E q \in Queues : /\ A[q] # <<>>
                                  /\ got' = [got EXCEPT ![t] = Head(A[q])]
                                  /\ A' = [A EXCEPT ![q] = Tail(@)]
  BY DEF Items, Abstract!Next, Abstract!Fail, Abstract!Enqueue, Abstract!Dequeue
<1>1. Does(t)
  BY Effects
<1>2. ASSUME order' = order, data' = data
      PROVE  A' = A
  BY <1>2, ItemsStay DEF QueueInv
<1>3. CASE Links(t)
  <2>1. got' = got
    BY <1>3, MoveGives DEF QueueInv, Links, Gives
  <2>2. A' = [A EXCEPT ![queue[t]] = Append(@, data[node[t]])]
    <3> HIDE DEF Items
    <3> QED
      BY <1>3, LinkItems
  <2> QED
    BY <1>3, <2>1, <2>2, LinkItems
<1>4. CASE Unlinks(t)
  <2>1. queue[t] \in Queues /\ A[queue[t]] # <<>> /\ Head(A[queue[t]]) = value[t]
    <3> HIDE DEF Items
    <3> QED
      BY <1>4, UnlinkItems
  <2>2. A' = [A EXCEPT ![queue[t]] = Tail(@)]
    <3> HIDE DEF Items
    <3> QED
      BY <1>4, UnlinkItems
  <2>3. got' = [got EXCEPT ![t] = value[t]]
    BY <1>4, MoveGives DEF QueueInv, Unlinks, Gives
  <2> QED
    BY <2>1, <2>2, <2>3
<1>5. ASSUME NEW n \in free, NEW v \in Values, Allocs(t, n, v)
      PROVE  A' = A /\ got' = got
  <2>1. ASSUME NEW q \in Queues
        PROVE  Items(q)' = Items(q)
    <3>1. order' = order /\ data' = [data EXCEPT ![n] = v] /\ n \in Nodes
      BY <1>5 DEF Allocs, QueueInv, QueueType
    <3>2. n \notin In(q)
      BY <1>5, <3>1 DEF QueueInv, Apart
    <3>3. \A i \in 1 .. Len(order[q]) : order[q][i] # n /\ order[q][i] \in Nodes
      BY <3>2, ChainFacts DEF In, Size
    <3>4. \A m \in Nodes : m # n => data'[m] = data[m]
      BY <3>1 DEF QueueInv, QueueType
    <3> QED
      BY <3>1, <3>3, <3>4, ItemsStay DEF QueueInv
  <2>2. got' = got
    BY <1>5, MoveGives DEF QueueInv, Allocs, Gives
  <2> QED
    BY <2>1, <2>2
<1>6. CASE order' = order /\ data' = data /\ ~Unlinks(t)
  <2>1. got' = got \/ got' = [got EXCEPT ![t] = Nothing]
    BY <1>6, MoveGives DEF QueueInv, Gives
  <2> QED
    BY <1>2, <1>6, <2>1
<1> QED
  BY <1>1, <1>3, <1>4, <1>5, <1>6 DEF Does, Quiet, Frees, Swings

\* As long as the tags tell, the queues give their values out in the order they
\* were linked, each once.
THEOREM FifoImplemented == Spec /\ TagsTell => ImplementsFifo
<1>1. Init => Abstract!Init
  <2> SUFFICES ASSUME Init
               PROVE  Abstract!Init
    OBVIOUS
  <2>1. got = [t \in Threads |-> Nothing]
    BY DEF Init
  <2>2. ASSUME NEW q \in Queues
        PROVE  Items(q) = <<>>
    <3>1. Len(order[q]) = 1
      BY DEF Init
    <3>2. 1 .. Len(order[q]) - 1 = {}
      BY <3>1
    <3>3. Items(q) \in [1 .. 0 -> Nodes]
      BY <3>2 DEF Items
    <3> HIDE DEF Items
    <3>4. Items(q) \in Seq(Nodes) /\ Len(Items(q)) = 0
      BY <3>3, IsSequence
    <3> QED
      BY <3>4, EmptySeq
  <2> QED
    BY <2>1, <2>2 DEF Abstract!Init, Items
<1>2. QueueInv /\ [Next]_vars => [Abstract!Next]_<<[q \in Queues |-> Items(q)], got>>
  <2> SUFFICES ASSUME QueueInv, [Next]_vars
               PROVE  [Abstract!Next]_<<[q \in Queues |-> Items(q)], got>>
    OBVIOUS
  <2>1. CASE UNCHANGED vars
    BY <2>1 DEF vars, memory, Items
  <2>2. ASSUME NEW t \in Threads, Moves(t)
        PROVE  [Abstract!Next]_<<[q \in Queues |-> Items(q)], got>>
    BY <2>2, MoveImplements
  <2> QED
    BY <2>1, <2>2 DEF Next, Moves
<1>3. Spec /\ TagsTell => []QueueInv
  BY QueueInit, QueueStep, PTL DEF Spec, TagsTell
<1> QED
  BY <1>1, <1>2, <1>3, PTL DEF Spec, ImplementsFifo, Abstract!Spec, Items

=============================================================================
