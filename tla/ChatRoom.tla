------------------------------- MODULE ChatRoom -------------------------------
(***************************************************************************)
(* What ChatServer promises its clients, without callbacks, jobs, a        *)
(* contents thread, maps or sector vectors: a session comes, logs in once, *)
(* moves from sector to sector, says something that everybody in the       *)
(* sectors around hears once, and goes.                                    *)
(***************************************************************************)
EXTENDS Integers

CONSTANTS Sessions, Accounts, SectorMaxX, SectorMaxY, NoAccount, NoSector

Sectors == (0 .. SectorMaxX - 1) \X (0 .. SectorMaxY - 1)

VARIABLES
  here,   \* the sessions in the room
  name,   \* [Sessions -> Accounts \cup {NoAccount}]
  place,  \* [Sessions -> Sectors \cup {NoSector}]
  heard   \* [Sessions -> Nat]: how often each got the last thing that was sent

vars == <<here, name, place, heard>>

Silence == [s \in Sessions |-> 0]
Only(s) == [Silence EXCEPT ![s] = 1]

Near(c, d) == c[1] - d[1] \in -1 .. 1 /\ c[2] - d[2] \in -1 .. 1

Init ==
  /\ here = {}
  /\ name = [s \in Sessions |-> NoAccount]
  /\ place = [s \in Sessions |-> NoSector]
  /\ heard = Silence

Come(s) ==
  /\ s \notin here
  /\ here' = here \cup {s}
  /\ heard' = Silence
  /\ UNCHANGED <<name, place>>

Go(s) ==
  /\ s \in here
  /\ here' = here \ {s}
  /\ name' = [name EXCEPT ![s] = NoAccount]
  /\ place' = [place EXCEPT ![s] = NoSector]
  /\ heard' = Silence

Login(s, a) ==
  /\ s \in here /\ name[s] = NoAccount
  /\ name' = [name EXCEPT ![s] = a]
  /\ heard' = Only(s)
  /\ UNCHANGED <<here, place>>

Move(s, c) ==
  /\ s \in here /\ name[s] # NoAccount
  /\ place' = [place EXCEPT ![s] = c]
  /\ heard' = Only(s)
  /\ UNCHANGED <<here, name>>

Say(s) ==
  /\ s \in here /\ place[s] # NoSector
  /\ heard' = [t \in Sessions |->
                 IF t \in here /\ place[t] # NoSector /\ Near(place[t], place[s])
                 THEN 1 ELSE 0]
  /\ UNCHANGED <<here, name, place>>

\* A request that is refused, or answered with nothing.
Refuse == heard' = Silence /\ UNCHANGED <<here, name, place>>

Next ==
  \/ Refuse
  \/ \E s \in Sessions :
       \/ Come(s) \/ Go(s) \/ Say(s)
       \/ \E a \in Accounts : Login(s, a)
       \/ \E c \in Sectors : Move(s, c)

Spec == Init /\ [][Next]_vars

=============================================================================
