---------------------------- MODULE LockFreeStack ----------------------------
(***************************************************************************)
(* LockFreeStack<T>: linked nodes under a tagged _Top.  The nodes come     *)
(* from a pool whose memory is never given back.                           *)
(*                                                                         *)
(* One action is one access to memory another thread can see.  A node that *)
(* a thread has allocated, or has taken off the stack, is its own.         *)
(***************************************************************************)
EXTENDS Integers, FiniteSets

CONSTANTS
  Users,     \* the threads that push and pop
  Nodes, Values,
  TagLimit,  \* TAG_MASK + 1
  NoNode,    \* nullptr
  Nothing    \* no value

ASSUME StackAssumption ==
  /\ NoNode \notin Nodes /\ Nothing \notin Values
  /\ TagLimit \in Nat \ {0} /\ IsFiniteSet(Nodes)

VARIABLES
  top,      \* _Top
  below,    \* [Nodes -> Nodes \cup {NoNode}]: _Next
  data,     \* [Nodes -> Values \cup {Nothing}]: _Data
  free,     \* the nodes in s_nodePool
  \* the threads: where they are in Push or Pop, and their local variables
  at, node, topSeen, belowSeen

stackMemory == <<top, below, data, free>>
stackLocals == <<at, node, topSeen, belowSeen>>
stackVars   == <<stackMemory, stackLocals>>

Make(tag, n) == [tag |-> tag % TagLimit, ptr |-> n]

StackInit ==
  /\ top = Make(0, NoNode)
  /\ below = [n \in Nodes |-> NoNode] /\ data = [n \in Nodes |-> Nothing]
  /\ free = Nodes
  /\ at = [t \in Users |-> "out"]
  /\ node = [t \in Users |-> NoNode] /\ belowSeen = node
  /\ topSeen = [t \in Users |-> Make(0, NoNode)]

Move(t, from, to) == at[t] = from /\ at' = [at EXCEPT ![t] = to]

\* The end of an operation: its local variables are gone.
Return(t, from, to) ==
  /\ Move(t, from, to)
  /\ node' = [node EXCEPT ![t] = NoNode] /\ belowSeen' = [belowSeen EXCEPT ![t] = NoNode]
  /\ topSeen' = [topSeen EXCEPT ![t] = Make(0, NoNode)]

----------------------------------------------------------------------------
PushAlloc(t, v) ==
  /\ Move(t, "out", "PushRead")
  /\ \E n \in free :
       /\ free' = free \ {n}
       /\ data' = [data EXCEPT ![n] = v]
       /\ node' = [node EXCEPT ![t] = n]
  /\ UNCHANGED <<top, below, topSeen, belowSeen>>

PushRead(t) ==
  /\ Move(t, "PushRead", "PushCas")
  /\ topSeen' = [topSeen EXCEPT ![t] = top]
  /\ below' = [below EXCEPT ![node[t]] = top.ptr]
  /\ UNCHANGED <<top, data, free, node, belowSeen>>

\* A mutant: _Next is set once, before the loop.
PushRetriesCas(t) ==
  /\ Move(t, "PushCas", "PushCas")
  /\ top # topSeen[t]
  /\ topSeen' = [topSeen EXCEPT ![t] = top]
  /\ UNCHANGED <<stackMemory, node, belowSeen>>

PushRetry(t) ==
  /\ Move(t, "PushCas", "PushRead")
  /\ top # topSeen[t]
  /\ UNCHANGED <<stackMemory, node, topSeen, belowSeen>>

PushCas(t) ==
  /\ Return(t, "PushCas", "out")
  /\ top = topSeen[t]
  /\ top' = Make(top.tag + 1, node[t])
  /\ UNCHANGED <<below, data, free>>

----------------------------------------------------------------------------
\* The loop of Pop begins, for the first time or once more; Pop returns false
\* when the stack is empty.
PopTop(t) ==
  /\ Move(t, "out", IF top.ptr = NoNode THEN "empty" ELSE "PopNext")
  /\ topSeen' = [topSeen EXCEPT ![t] = IF top.ptr = NoNode THEN @ ELSE top]
  /\ UNCHANGED <<stackMemory, node, belowSeen>>

\* The node may have been taken, and its memory used again, since PopTop.
PopNext(t) ==
  /\ Move(t, "PopNext", "PopCas")
  /\ belowSeen' = [belowSeen EXCEPT ![t] = below[topSeen[t].ptr]]
  /\ UNCHANGED <<stackMemory, node, topSeen>>

PopRetry(t) ==
  /\ Return(t, "PopCas", "out")
  /\ top # topSeen[t]
  /\ UNCHANGED stackMemory

PopCas(t) ==
  /\ Move(t, "PopCas", "got")
  /\ top = topSeen[t]
  /\ top' = Make(top.tag + 1, belowSeen[t])
  /\ node' = [node EXCEPT ![t] = top.ptr]
  /\ UNCHANGED <<below, data, free, topSeen, belowSeen>>

PopNothing(t) == Return(t, "empty", "out") /\ UNCHANGED stackMemory

\* The value is read and the node given back.  Nobody reads that value again.
Taken(t) == data[node[t]]

PopFree(t) ==
  /\ Return(t, "got", "out")
  /\ free' = free \cup {node[t]}
  /\ data' = [data EXCEPT ![node[t]] = Nothing]
  /\ UNCHANGED <<top, below>>

\* What is left of a Push once it has its node, and of a turn of Pop's loop
\* once it has seen a node.
StackStep(t) ==
  \/ PushRead(t) \/ PushRetry(t) \/ PushCas(t)
  \/ PopNext(t) \/ PopRetry(t) \/ PopCas(t)

----------------------------------------------------------------------------
\* The nodes on the stack, found from _Top.
OnStack ==
  LET Reach[k \in 0 .. Cardinality(Nodes)] ==
        IF k = 0 THEN {top.ptr} \ {NoNode}
        ELSE Reach[k - 1] \cup ({below[n] : n \in Reach[k - 1]} \ {NoNode})
  IN  Reach[Cardinality(Nodes)]

\* ~LockFreeStack.
FreeAll ==
  /\ free' = free \cup OnStack
  /\ UNCHANGED <<top, below, data, stackLocals>>

=============================================================================
