----------------------------- MODULE MCChatServer -----------------------------
(***************************************************************************)
(* Values for checking ChatServer with TLC.  Sessions and Player objects   *)
(* are interchangeable.                                                    *)
(***************************************************************************)
EXTENDS ChatServer

CONSTANTS a1

Symmetry == Permutations(Sessions) \cup Permutations(Players)

\* What clients send where accounts and time matter.
TakeoverMessages == {[type |-> "login", account |-> a] : a \in Accounts}

\* What they send where the sectors matter.
RoomMessages ==
  TakeoverMessages
    \cup {[type |-> "move", own |-> TRUE, to |-> <<x, 0>>] : x \in 0 .. SectorMaxX - 1}
    \cup {[type |-> "message", own |-> TRUE]}

=============================================================================
