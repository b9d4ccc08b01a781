---------------------------- MODULE SessionService ----------------------------
(***************************************************************************)
(* What CNetServer promises an application, without threads, reference     *)
(* counts, sockets or the array of sessions: sessions are opened and       *)
(* closed, and what SendPacket accepts for a session is handed to the      *)
(* network in that order or dropped when the session closes.               *)
(***************************************************************************)
EXTENDS Integers, Sequences

CONSTANTS Packets, MaxSessionCount, MaxGen

Ids == (1 .. MaxGen) \X (0 .. MaxSessionCount - 1)

VARIABLES
  opened,  \* sessions the application was told of by OnAccept
  closed,  \* sessions it was told of by OnRelease
  queue    \* [Ids -> Seq(Packets)]: accepted for the session, not yet done with

vars == <<opened, closed, queue>>

Live == opened \ closed

Init ==
  /\ opened = {}
  /\ closed = {}
  /\ queue = [id \in Ids |-> <<>>]

\* A new session is newer than every other one, and its low bits, the place of
\* its state, differ from those of every session that is live.
Open(id) ==
  /\ \A other \in opened : other[1] < id[1]
  /\ \A other \in Live : other[2] # id[2]
  /\ queue[id] = <<>>
  /\ opened' = opened \cup {id}
  /\ UNCHANGED <<closed, queue>>

\* SendPacket succeeds for a live session only.
Send(id, p) ==
  /\ id \in Live
  /\ queue' = [queue EXCEPT ![id] = Append(@, p)]
  /\ UNCHANGED <<opened, closed>>

\* The oldest n packets were sent, or nobody will send them any more.
Done(id, n) ==
  /\ id \in Live
  /\ queue' = [queue EXCEPT ![id] = SubSeq(@, n + 1, Len(@))]
  /\ UNCHANGED <<opened, closed>>

\* OnRelease: the last word on a session, when nothing of it is left.
Close(id) ==
  /\ id \in Live
  /\ queue[id] = <<>>
  /\ closed' = closed \cup {id}
  /\ UNCHANGED <<opened, queue>>

Next ==
  \E id \in Ids :
    \/ Open(id) \/ Close(id)
    \/ \E p \in Packets : Send(id, p)
    \/ \E n \in 1 .. Len(queue[id]) : Done(id, n)

Spec == Init /\ [][Next]_vars

=============================================================================
