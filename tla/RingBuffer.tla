------------------------------ MODULE RingBuffer ------------------------------
(***************************************************************************)
(* RingBuffer: an array of Capacity elements (one more than it holds), the *)
(* read position front and the write position rear.  It is empty where the *)
(* two meet.  The operations are operators on the record of its members.   *)
(***************************************************************************)
EXTENDS Integers, Sequences

CONSTANT Capacity   \* m_capacity

ASSUME RingAssumption == Capacity \in Nat \ {0}

Positions == 0 .. Capacity - 1

Least(a, b) == IF a < b THEN a ELSE b

UseSize(r) ==
  IF r.rear >= r.front THEN r.rear - r.front ELSE Capacity - (r.front - r.rear)

\* A mutant: one place more is kept free.
FreeSizeLess(r) == Capacity - 2 - UseSize(r)

FreeSize(r) == Capacity - 1 - UseSize(r)

\* What can be written from rear without going round the end.
DirectEnqueueSize(r) ==
  IF FreeSize(r) <= 0 THEN 0
  ELSE IF r.front <= r.rear THEN Least(Capacity - r.rear, FreeSize(r))
  ELSE r.front - r.rear - 1

\* A mutant: as if rear were always behind front.
DirectDequeueSizeToEnd(r) == IF UseSize(r) <= 0 THEN 0 ELSE Capacity - r.front

\* What can be read from front without going round the end.
DirectDequeueSize(r) ==
  IF UseSize(r) <= 0 THEN 0
  ELSE IF r.front < r.rear THEN UseSize(r)
  ELSE Capacity - r.front

MoveFront(r, n) == [r EXCEPT !.front = (@ + Least(n, UseSize(r))) % Capacity]

MoveRear(r, n) == [r EXCEPT !.rear = (@ + Least(n, FreeSize(r))) % Capacity]

\* What Enqueue returns: how many of the elements s it takes.
EnqueueSize(r, s) == Least(FreeSize(r), Len(s))

Enqueue(r, s) ==
  LET n     == EnqueueSize(r, s)
      at(p) == ((p - r.rear) % Capacity) + 1   \* which of them comes to place p
  IN  [r EXCEPT !.buffer = [p \in Positions |-> IF at(p) <= n THEN s[at(p)] ELSE @[p]],
                !.rear = (@ + n) % Capacity]

\* n elements from front on; none, if there are fewer.
Peek(r, n) ==
  IF n > UseSize(r) THEN <<>>
  ELSE LET first == Least(Capacity - r.front, n)
       IN  [i \in 1 .. n |-> IF i <= first THEN r.buffer[r.front + i - 1]
                             ELSE r.buffer[i - first - 1]]

\* What Dequeue leaves; the elements are those of Peek.
Dequeue(r, n) == IF n > UseSize(r) THEN r ELSE [r EXCEPT !.front = (@ + n) % Capacity]

ClearBuffer(r) == [r EXCEPT !.front = 0, !.rear = 0]

=============================================================================
