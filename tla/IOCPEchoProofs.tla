---------------------------- MODULE IOCPEchoProofs ----------------------------
(***************************************************************************)
(* The sessions of IOCPEchoServer: ioCount is exact, one thread deletes a  *)
(* session and nobody is at it then, in its critical section or waiting    *)
(* for it; and a peer is sent whole echoes, round the end of the ring and  *)
(* in whatever parts: proofs, for any number of workers, connections and   *)
(* frames, and any size of the ring and of an echo.                        *)
(***************************************************************************)
EXTENDS IOCPEchoServer, FiniteSetTheorems, SequenceTheorems, WellFoundedInduction, TLAPS

----------------------------------------------------------------------------
(***************************************************************************)
(* The inductive invariant.                                                *)
(***************************************************************************)

InSend == {"SpLock", "SpEnter", "SpEnqueue", "SpPost", "SpUndo"}

\* Who has the turn to receive, or to send, on its session.
RecvTurn == {"EnterRecv", "RecvLoop"} \cup InSend
SendTurn == {"EnterSend", "SdMove", "SdPost", "SpPost"}

Releasing == {"RelErase", "RelWait", "RelDelete"}
Fresh     == {"AcLock", "AcInsert", "AcPost"}
Accepting == {"AcSocket", "AcListen", "AcCall", "AcWait", "AcUndo", "AcBreak"} \cup Fresh
Working   == Serving \cup {"Idle", "Leave", "OuterLeave"}

\* Inside a session's critical section; who releases the session out of RecvProc
\* or SendProc has one entry left.
InCs(t) ==
  \/ pc[t] \in {"RecvLoop", "RecvDec", "SdMove", "SdPost", "SdUndo", "SdDec", "Leave"} \cup InSend
  \/ pc[t] \in Releasing /\ back[t] = "OuterLeave"

TypeOK ==
  /\ object \in [IDs -> {"none", "alive", "deleted"}]
  /\ ioCount \in [IDs -> Int] /\ isSending \in [IDs -> BOOLEAN]
  /\ owner \in [IDs -> Threads \cup {NoThread}] /\ sessionMap \subseteq IDs
  /\ io \in [IDs -> [IoTypes -> {"idle", "posted", "ok", "err"}]]
  /\ pc \in [Threads \cup {Main} -> {"Getch", "Join", "Done", "Ended"}
                                      \cup Working \cup Accepting \cup Releasing]
  /\ cur \in [Threads -> IDs \cup {NoID}]
  /\ back \in [Threads -> {"Idle", "OuterLeave", "AcBreak"}]

\* Where each kind of thread can be, and where ReleaseSession returns to.
PlaceOK(t) ==
  /\ pc[t] \in Working => t \in Workers
  /\ pc[t] \in Accepting => t = Acceptor
  /\ pc[t] \in Releasing => (back[t] = "AcBreak" <=> t = Acceptor)
  /\ pc[t] \notin {"Getch", "Join", "Done"}

\* What a thread works on is there, and no thread ever had what is yet to come.
ThereOK(t) ==
  /\ Uses(t) => cur[t] \in IDs /\ object[cur[t]] = "alive"
  /\ cur[t] \in IDs => object[cur[t]] # "none"

\* Who releases a session has it alone, as has the accept thread a new one.
AloneOK(t) ==
  /\ pc[t] \in Releasing =>
       /\ ioCount[cur[t]] = 0
       /\ \A u \in Threads \ {t} : pc[u] \in Releasing => cur[u] # cur[t]
  /\ pc[t] \in Fresh =>
       /\ ioCount[cur[t]] = 0
       /\ \A u \in Threads \ {t} : cur[u] # cur[t]

\* The owner of cs is who is inside; it is free, or the thread's own, when the
\* session is deleted.
CsOK(t) ==
  /\ \A s \in IDs : owner[s] = t <=> cur[t] = s /\ InCs(t)
  /\ pc[t] = "RelDelete" => owner[cur[t]] \in {NoThread, t}

\* One receive and one send at a time.
TurnOK(t) ==
  /\ pc[t] \in RecvTurn =>
       /\ io[cur[t]]["recv"] = "idle"
       /\ \A u \in Threads \ {t} : pc[u] \in RecvTurn => cur[u] # cur[t]
  /\ pc[t] \in SendTurn =>
       /\ io[cur[t]]["send"] = "idle" /\ isSending[cur[t]]
       /\ \A u \in Threads \ {t} : pc[u] \in SendTurn => cur[u] # cur[t]

\* Operations are in flight on sessions that are there; one that is there is in
\* the map, or on its way into it or out of it.
SessionOK(s) ==
  /\ \A ty \in IoTypes : io[s][ty] # "idle" => object[s] = "alive"
  /\ io[s]["send"] # "idle" => isSending[s]
  /\ object[s] = "none" => ioCount[s] = 0
  /\ object[s] = "alive" =>
       \/ s \in sessionMap
       \/ pc[Acceptor] \in {"AcLock", "AcInsert"} /\ cur[Acceptor] = s
       \/ \E t \in Threads : pc[t] \in {"RelWait", "RelDelete"} /\ cur[t] = s

EchoInv ==
  /\ TypeOK /\ CountExact
  /\ \A t \in Threads : PlaceOK(t) /\ ThereOK(t) /\ AloneOK(t) /\ CsOK(t) /\ TurnOK(t)
  /\ \A s \in IDs : SessionOK(s)

----------------------------------------------------------------------------
(***************************************************************************)
(* Counting references.                                                    *)
(***************************************************************************)

\* The references of s that thread t has to give back, and the operations of s
\* that are in flight.
Owed(t, s)    == IF cur[t] = s THEN Held(t) ELSE 0
Flight(s, ty) == IF io[s][ty] = "idle" THEN 0 ELSE 1
InFlight(s)   == {ty \in IoTypes : io[s][ty] # "idle"}

\* A thread owes two references at most.
LEMMA OwedType ==
  ASSUME NEW t, NEW s
  PROVE  /\ Held(t) \in 0 .. 2 /\ Owed(t, s) \in 0 .. 2
         /\ Held(t)' \in 0 .. 2 /\ Owed(t, s)' \in 0 .. 2
BY DEF Held, Owed

LEMMA ThreadRefsFinite ==
  ASSUME NEW s
  PROVE  IsFiniteSet(ThreadRefs(s)) /\ Cardinality(ThreadRefs(s)) \in Nat
<1>1. IsFiniteSet(1 .. 2)
  <2>1. \A n \in Nat : IsFiniteSet(1 .. n)
    BY FS_Interval
  <2> QED
    BY <2>1
<1>2. IsFiniteSet(Workers \cup {Acceptor})
  BY EchoAssumption, FS_AddElement
<1>3. IsFiniteSet(Threads \X (1 .. 2))
  BY <1>1, <1>2, FS_Product DEF Threads
<1>4. IsFiniteSet(ThreadRefs(s))
  BY <1>3, FS_Subset DEF ThreadRefs
<1> QED
  BY <1>4, FS_CardinalityType

\* How many of the two types a set holds.
LEMMA PairCount ==
  ASSUME NEW S, S \subseteq IoTypes
  PROVE  Cardinality(S) = (IF "recv" \in S THEN 1 ELSE 0) + (IF "send" \in S THEN 1 ELSE 0)
<1>1. Cardinality({}) = 0
  BY FS_EmptySet
<1>2. Cardinality({"recv"}) = 1 /\ Cardinality({"send"}) = 1 /\ IsFiniteSet({"recv"})
  BY FS_Singleton
<1>3. Cardinality({"recv"} \cup {"send"}) = 2
  BY <1>2, FS_AddElement
<1>4. S = {} \/ S = {"recv"} \/ S = {"send"} \/ S = {"recv"} \cup {"send"}
  BY DEF IoTypes
<1>5. CASE S = {}
  BY <1>1, <1>5
<1>6. CASE S = {"recv"} \/ S = {"send"}
  BY <1>2, <1>6
<1>7. CASE S = {"recv"} \cup {"send"}
  BY <1>3, <1>7
<1> QED
  BY <1>4, <1>5, <1>6, <1>7

LEMMA FlightCount ==
  ASSUME NEW s
  PROVE  /\ Cardinality(InFlight(s)) = Flight(s, "recv") + Flight(s, "send")
         /\ Cardinality(InFlight(s)') = Flight(s, "recv")' + Flight(s, "send")'
<1>1. InFlight(s) \subseteq IoTypes /\ InFlight(s)' \subseteq IoTypes
  BY DEF InFlight
<1>2. \A ty \in IoTypes : /\ Flight(s, ty) = IF ty \in InFlight(s) THEN 1 ELSE 0
                          /\ Flight(s, ty)' = IF ty \in InFlight(s)' THEN 1 ELSE 0
  BY DEF InFlight, Flight
<1>3. "recv" \in IoTypes /\ "send" \in IoTypes
  BY DEF IoTypes
<1> QED
  BY <1>1, <1>2, <1>3, PairCount

\* When one thread alone changes what it owes, by one at most, the set of
\* references follows.
LEMMA RefsMove ==
  ASSUME NEW t \in Threads, NEW s \in IDs,
         \A u \in Threads \ {t} : Owed(u, s)' = Owed(u, s),
         Owed(t, s)' - Owed(t, s) \in {-1, 0, 1}
  PROVE  Cardinality(ThreadRefs(s)') =
           Cardinality(ThreadRefs(s)) + (Owed(t, s)' - Owed(t, s))
<1>1. Owed(t, s) \in 0 .. 2 /\ Owed(t, s)' \in 0 .. 2
  BY OwedType
<1>2. ThreadRefs(s) = {r \in Threads \X (1 .. 2) : r[2] <= Owed(r[1], s)}
  BY DEF ThreadRefs, Owed
<1>3. ThreadRefs(s)' = {r \in Threads \X (1 .. 2) : r[2] <= Owed(r[1], s)'}
  BY DEF ThreadRefs, Owed
<1>4. CASE Owed(t, s)' = Owed(t, s)
  <2>1. \A u \in Threads : Owed(u, s)' = Owed(u, s)
    BY <1>4
  <2>2. ThreadRefs(s)' = ThreadRefs(s)
    BY <1>2, <1>3, <2>1
  <2> QED
    BY <1>1, <1>4, <2>2, ThreadRefsFinite
<1>5. CASE Owed(t, s)' = Owed(t, s) + 1
  <2> DEFINE r == <<t, Owed(t, s)'>>
  <2>1. ThreadRefs(s)' = ThreadRefs(s) \cup {r} /\ r \notin ThreadRefs(s)
    <3> HIDE DEF Owed
    <3> QED
      BY <1>1, <1>2, <1>3, <1>5
  <2>2. Cardinality(ThreadRefs(s) \cup {r}) = Cardinality(ThreadRefs(s)) + 1
    <3> HIDE DEF r
    <3> QED
      BY <2>1, ThreadRefsFinite, FS_AddElement
  <2> QED
    BY <1>1, <1>5, <2>1, <2>2, ThreadRefsFinite
<1>6. CASE Owed(t, s) = Owed(t, s)' + 1
  <2> DEFINE r == <<t, Owed(t, s)>>
  <2>1. ThreadRefs(s)' = ThreadRefs(s) \ {r} /\ r \in ThreadRefs(s)
    BY <1>1, <1>2, <1>3, <1>6
  <2>2. Cardinality(ThreadRefs(s) \ {r}) = Cardinality(ThreadRefs(s)) - 1
    <3> HIDE DEF r
    <3> QED
      BY <2>1, ThreadRefsFinite, FS_RemoveElement
  <2> QED
    BY <1>1, <1>6, <2>1, <2>2, ThreadRefsFinite
<1> QED
  BY <1>1, <1>4, <1>5, <1>6

\* ioCount is never less than what a thread owes, and where it is zero nobody
\* owes anything and nothing is in flight.
LEMMA CountFacts ==
  ASSUME CountExact, NEW s \in IDs
  PROVE  /\ ioCount[s] \in Nat
         /\ \A t \in Threads : Owed(t, s) <= ioCount[s]
         /\ ioCount[s] = 0 => \A ty \in IoTypes : io[s][ty] = "idle"
<1>1. ioCount[s] = Cardinality(ThreadRefs(s)) + Flight(s, "recv") + Flight(s, "send")
  <2>1. ioCount[s] = Cardinality(ThreadRefs(s)) + Cardinality(InFlight(s))
    BY DEF CountExact, InFlight
  <2>2. Flight(s, "recv") \in Int /\ Flight(s, "send") \in Int
    BY DEF Flight
  <2> QED
    BY <2>1, <2>2, FlightCount, ThreadRefsFinite
<1>2. Flight(s, "recv") \in {0, 1} /\ Flight(s, "send") \in {0, 1}
  BY DEF Flight
<1>3. ioCount[s] \in Nat /\ Cardinality(ThreadRefs(s)) <= ioCount[s]
  BY <1>1, <1>2, ThreadRefsFinite
<1>4. ioCount[s] = 0 => \A ty \in IoTypes : io[s][ty] = "idle"
  BY <1>1, <1>2, ThreadRefsFinite DEF Flight, IoTypes
<1>5. ASSUME NEW t \in Threads
      PROVE  Owed(t, s) <= Cardinality(ThreadRefs(s))
  <2> DEFINE one == {<<t, 1>>}
             two == <<t, 2>>
  <2>1. Owed(t, s) \in 0 .. 2
    BY OwedType
  <2>2. IsFiniteSet(one) /\ Cardinality(one) = 1
    BY FS_Singleton
  <2>3. Cardinality(one \cup {two}) = 2 /\ IsFiniteSet(one \cup {two})
    <3>1. two \notin one
      OBVIOUS
    <3> HIDE DEF one, two
    <3> QED
      BY <2>2, <3>1, FS_AddElement
  <2>4. Owed(t, s) >= 1 => one \subseteq ThreadRefs(s)
    BY DEF ThreadRefs, Owed
  <2>5. Owed(t, s) = 2 => one \cup {two} \subseteq ThreadRefs(s)
    BY DEF ThreadRefs, Owed
  <2> HIDE DEF one, two
  <2>6. Owed(t, s) >= 1 => 1 <= Cardinality(ThreadRefs(s))
    BY <2>2, <2>4, ThreadRefsFinite, FS_Subset
  <2>7. Owed(t, s) = 2 => 2 <= Cardinality(ThreadRefs(s))
    BY <2>3, <2>5, ThreadRefsFinite, FS_Subset
  <2> QED
    BY <2>1, <2>6, <2>7, ThreadRefsFinite
<1> QED
  BY <1>3, <1>4, <1>5, OwedType, ThreadRefsFinite

----------------------------------------------------------------------------
(***************************************************************************)
(* What giving a reference back and posting do.                            *)
(***************************************************************************)

\* Thread t, at from, gives a reference back; it is not the last one, or it is.
GivenBack(t) ==
  /\ ioCount' = [ioCount EXCEPT ![cur[t]] = ioCount[cur[t]] - 1]
  /\ UNCHANGED <<object, isSending, owner, sessionMap, io, cur>>
NotTheLast(t, from, next) ==
  /\ pc[t] = from /\ GivenBack(t) /\ ioCount[cur[t]] # 1
  /\ pc' = [pc EXCEPT ![t] = next] /\ back' = back
TheLast(t, from, after) ==
  /\ pc[t] = from /\ GivenBack(t) /\ ioCount[cur[t]] = 1
  /\ pc' = [pc EXCEPT ![t] = "RelErase"] /\ back' = [back EXCEPT ![t] = after]

LEMMA ReleaseEffect ==
  ASSUME NEW t \in Threads, NEW from, At(t, from), NEW next, NEW after, Release(t, next, after)
  PROVE  NotTheLast(t, from, next) \/ TheLast(t, from, after)
BY DEF Release, IsLast, At, Goto, NotTheLast, TheLast, GivenBack, locks, system

\* Four places give back what may be the last reference; SpUndo and SdUndo give
\* back the second of two.
LEMMA DecEffects ==
  ASSUME EchoInv, NEW t \in Threads
  PROVE  /\ DecLost(t) => NotTheLast(t, "DecLost", "Idle") \/ TheLast(t, "DecLost", "Idle")
         /\ RecvDec(t) => NotTheLast(t, "RecvDec", "Leave") \/ TheLast(t, "RecvDec", "OuterLeave")
         /\ SdDec(t) => NotTheLast(t, "SdDec", "Leave") \/ TheLast(t, "SdDec", "OuterLeave")
         /\ AcUndo(t) => NotTheLast(t, "AcUndo", "AcBreak") \/ TheLast(t, "AcUndo", "AcBreak")
         /\ SpUndo(t) => NotTheLast(t, "SpUndo", "RecvLoop")
         /\ SdUndo(t) => NotTheLast(t, "SdUndo", "SdDec")
<1>1. ASSUME pc[t] \in {"SpUndo", "SdUndo"}
      PROVE  ioCount[cur[t]] # 1
  <2>1. cur[t] \in IDs
    BY <1>1 DEF EchoInv, ThereOK, Uses, Serving
  <2>2. Owed(t, cur[t]) = 2
    BY <1>1 DEF Owed, Held, Serving
  <2>3. CountExact
    BY DEF EchoInv
  <2> QED
    BY <2>1, <2>2, <2>3, CountFacts
<1>2. DecLost(t) => NotTheLast(t, "DecLost", "Idle") \/ TheLast(t, "DecLost", "Idle")
  BY ReleaseEffect DEF DecLost
<1>3. RecvDec(t) => NotTheLast(t, "RecvDec", "Leave") \/ TheLast(t, "RecvDec", "OuterLeave")
  BY ReleaseEffect DEF RecvDec
<1>4. SdDec(t) => NotTheLast(t, "SdDec", "Leave") \/ TheLast(t, "SdDec", "OuterLeave")
  BY ReleaseEffect DEF SdDec
<1>5. AcUndo(t) => NotTheLast(t, "AcUndo", "AcBreak") \/ TheLast(t, "AcUndo", "AcBreak")
  BY ReleaseEffect DEF AcUndo
<1>6. SpUndo(t) => NotTheLast(t, "SpUndo", "RecvLoop") \/ TheLast(t, "SpUndo", "RecvLoop")
  BY ReleaseEffect DEF SpUndo
<1>7. SdUndo(t) => NotTheLast(t, "SdUndo", "SdDec") \/ TheLast(t, "SdUndo", "OuterLeave")
  BY ReleaseEffect DEF SdUndo
<1>8. /\ ~TheLast(t, "SpUndo", "RecvLoop")
      /\ ~TheLast(t, "SdUndo", "OuterLeave")
  BY <1>1 DEF TheLast
<1> QED
  BY <1>2, <1>3, <1>4, <1>5, <1>6, <1>7, <1>8

\* Thread t, at from, posts an operation, or the connection was reset.
Posts(t, from, ty, next) ==
  /\ pc[t] = from /\ pc' = [pc EXCEPT ![t] = next]
  /\ io' = [io EXCEPT ![cur[t]] = [io[cur[t]] EXCEPT ![ty] = "posted"]]
  /\ UNCHANGED <<object, isSending, owner, sessionMap, cur, back>>
Fails(t, from, next) ==
  /\ pc[t] = from /\ pc' = [pc EXCEPT ![t] = next]
  /\ UNCHANGED <<object, isSending, owner, sessionMap, io, cur, back>>

\* The accept thread counts the operation with the same step.
LEMMA PostEffects ==
  ASSUME NEW t \in Threads
  PROVE  /\ SpPost(t) => /\ Posts(t, "SpPost", "send", "RecvLoop") \/ Fails(t, "SpPost", "SpUndo")
                         /\ ioCount' = ioCount
         /\ SdPost(t) => /\ Posts(t, "SdPost", "send", "SdDec") \/ Fails(t, "SdPost", "SdUndo")
                         /\ ioCount' = ioCount
         /\ RecvPost(t) => /\ Posts(t, "RecvLoop", "recv", "Leave") \/ Fails(t, "RecvLoop", "RecvDec")
                           /\ ioCount' = ioCount
         /\ AcPost(t) => /\ Posts(t, "AcPost", "recv", "AcCall") \/ Fails(t, "AcPost", "AcUndo")
                         /\ ioCount' = [ioCount EXCEPT ![cur[t]] = ioCount[cur[t]] + 1]
<1> USE DEF PostSend, Posted, At, Goto, Posts, Fails, session, locks, local
<1>1. SpPost(t) => /\ Posts(t, "SpPost", "send", "RecvLoop") \/ Fails(t, "SpPost", "SpUndo")
                   /\ ioCount' = ioCount
  BY DEF SpPost
<1>2. SdPost(t) => /\ Posts(t, "SdPost", "send", "SdDec") \/ Fails(t, "SdPost", "SdUndo")
                   /\ ioCount' = ioCount
  BY DEF SdPost
<1>3. RecvPost(t) => /\ Posts(t, "RecvLoop", "recv", "Leave") \/ Fails(t, "RecvLoop", "RecvDec")
                     /\ ioCount' = ioCount
  BY DEF RecvPost
<1>4. AcPost(t) => /\ Posts(t, "AcPost", "recv", "AcCall") \/ Fails(t, "AcPost", "AcUndo")
                   /\ ioCount' = [ioCount EXCEPT ![cur[t]] = ioCount[cur[t]] + 1]
  BY DEF AcPost
<1> QED
  BY <1>1, <1>2, <1>3, <1>4

----------------------------------------------------------------------------
(***************************************************************************)
(* Steps of threads.                                                       *)
(***************************************************************************)

Moves(t) ==
  \/ Step(t) \/ TakeQuit(t) \/ Accept(t)
  \/ \E s \in IDs, ty \in IoTypes : Take(t, s, ty)

\* Where a thread serves, or an operation is in flight, ioCount is not zero.
LEMMA Busy ==
  ASSUME EchoInv
  PROVE  /\ \A u \in Threads : pc[u] \in Serving \cup {"AcUndo"} => ioCount[cur[u]] # 0
         /\ \A s \in IDs, ty \in IoTypes : io[s][ty] # "idle" => ioCount[s] # 0
<1>1. CountExact /\ \A u \in Threads : ThereOK(u)
  BY DEF EchoInv
<1>2. ASSUME NEW u \in Threads, pc[u] \in Serving \cup {"AcUndo"}
      PROVE  ioCount[cur[u]] # 0
  <2>1. cur[u] \in IDs
    BY <1>1, <1>2 DEF ThereOK, Uses
  <2>2. Owed(u, cur[u]) >= 1
    BY <1>2 DEF Owed, Held
  <2> QED
    BY <1>1, <2>1, <2>2, CountFacts, OwedType
<1>3. ASSUME NEW s \in IDs, NEW ty \in IoTypes, io[s][ty] # "idle"
      PROVE  ioCount[s] # 0
  BY <1>1, <1>3, CountFacts
<1> QED
  BY <1>2, <1>3

\* A thread changes where it is itself, and nobody else.
LEMMA OthersStay ==
  ASSUME TypeOK, NEW t \in Threads, Moves(t)
  PROVE  /\ pc' = [pc EXCEPT ![t] = pc'[t]] /\ cur' = [cur EXCEPT ![t] = cur'[t]]
         /\ back' = [back EXCEPT ![t] = back'[t]]
<1>1. TypeOK
  OBVIOUS
<1> USE DEF At, Goto, local, TypeOK
<1>10. CASE RelErase(t)
  BY <1>1, <1>10 DEF RelErase
<1>11. CASE RelWait(t)
  BY <1>1, <1>11 DEF RelWait
<1>12. CASE RelDelete(t)
  BY <1>1, <1>12 DEF RelDelete
<1>13. CASE OuterLeave(t)
  BY <1>1, <1>13 DEF OuterLeave
<1>14. CASE EnterLost(t)
  BY <1>1, <1>14 DEF EnterLost
<1>15. CASE DecLost(t)
  BY <1>1, <1>15 DEF DecLost, Release
<1>16. CASE Leave(t)
  BY <1>1, <1>16 DEF Leave, LeaveAll
<1>17. CASE EnterRecv(t)
  BY <1>1, <1>17 DEF EnterRecv, Enter
<1>18. CASE Find(t)
  BY <1>1, <1>18 DEF Find
<1>19. CASE SpLock(t)
  BY <1>1, <1>19 DEF SpLock
<1>20. CASE SpEnter(t)
  BY <1>1, <1>20 DEF SpEnter
<1>21. CASE SpEnqueue(t)
  BY <1>1, <1>21 DEF SpEnqueue
<1>22. CASE SpPost(t)
  BY <1>1, <1>22 DEF SpPost, PostSend, Posted
<1>23. CASE SpUndo(t)
  BY <1>1, <1>23 DEF SpUndo, Release
<1>24. CASE RecvPost(t)
  BY <1>1, <1>24 DEF RecvPost, Posted
<1>25. CASE RecvDec(t)
  BY <1>1, <1>25 DEF RecvDec, Release
<1>26. CASE EnterSend(t)
  BY <1>1, <1>26 DEF EnterSend, Enter
<1>27. CASE SdMove(t)
  BY <1>1, <1>27 DEF SdMove
<1>28. CASE SdPost(t)
  BY <1>1, <1>28 DEF SdPost, PostSend, Posted
<1>29. CASE SdUndo(t)
  BY <1>1, <1>29 DEF SdUndo, Release
<1>30. CASE SdDec(t)
  BY <1>1, <1>30 DEF SdDec, Release
<1>31. CASE AcSocket(t)
  BY <1>1, <1>31 DEF AcSocket
<1>32. CASE AcListen(t)
  BY <1>1, <1>32 DEF AcListen
<1>33. CASE AcCall(t)
  BY <1>1, <1>33 DEF AcCall
<1>34. CASE AcInterrupted(t)
  BY <1>1, <1>34 DEF AcInterrupted
<1>35. CASE AcLock(t)
  BY <1>1, <1>35 DEF AcLock
<1>36. CASE AcInsert(t)
  BY <1>1, <1>36 DEF AcInsert
<1>37. CASE AcPost(t)
  BY <1>1, <1>37 DEF AcPost, Posted
<1>38. CASE AcUndo(t)
  BY <1>1, <1>38 DEF AcUndo, Release
<1>39. CASE AcBreak(t)
  BY <1>1, <1>39 DEF AcBreak
<1>40. CASE TakeQuit(t)
  BY <1>1, <1>40 DEF TakeQuit
<1>41. CASE Accept(t)
  BY <1>1, <1>41 DEF Accept
<1>42. ASSUME NEW s1 \in IDs, NEW ty \in IoTypes, Take(t, s1, ty)
  PROVE  /\ pc' = [pc EXCEPT ![t] = pc'[t]] /\ cur' = [cur EXCEPT ![t] = cur'[t]]
         /\ back' = [back EXCEPT ![t] = back'[t]]
  BY <1>1, <1>42 DEF Take
<1> QED
  BY <1>10, <1>11, <1>12, <1>13, <1>14, <1>15, <1>16, <1>17, <1>18, <1>19, <1>20, <1>21, <1>22, <1>23, <1>24, <1>25, <1>26, <1>27, <1>28, <1>29, <1>30, <1>31, <1>32, <1>33, <1>34, <1>35, <1>36, <1>37, <1>38, <1>39, <1>40, <1>41, <1>42 DEF Moves, Step

\* Every variable keeps its type.
LEMMA MoveTypes ==
  ASSUME EchoInv, NEW t \in Threads, Moves(t)
  PROVE  TypeOK'
<1>1. TypeOK
  BY DEF EchoInv
<1>2. Uses(t) => cur[t] \in IDs
  BY DEF EchoInv, ThereOK
<1>3. back[t] = "AcBreak" \/ back[t] = "Idle" \/ back[t] = "OuterLeave"
  BY <1>1 DEF TypeOK
<1> USE DEF At, Goto, session, locks, system, local, TypeOK, Uses, Serving, Working, Accepting, Releasing, Fresh, InSend
<1>10. CASE RelErase(t)
  BY <1>1, <1>2, <1>3, <1>10 DEF RelErase
<1>11. CASE RelWait(t)
  BY <1>1, <1>2, <1>3, <1>11 DEF RelWait
<1>12. CASE RelDelete(t)
  BY <1>1, <1>2, <1>3, <1>12 DEF RelDelete
<1>13. CASE OuterLeave(t)
  BY <1>1, <1>2, <1>3, <1>13 DEF OuterLeave
<1>14. CASE EnterLost(t)
  BY <1>1, <1>2, <1>3, <1>14 DEF EnterLost
<1>15. CASE DecLost(t)
  <2>1. NotTheLast(t, "DecLost", "Idle") \/ TheLast(t, "DecLost", "Idle")
    BY <1>15, DecEffects
  <2>2. CASE NotTheLast(t, "DecLost", "Idle")
    BY <1>1, <1>2, <2>2 DEF NotTheLast, GivenBack
  <2>3. CASE TheLast(t, "DecLost", "Idle")
    BY <1>1, <1>2, <2>3 DEF TheLast, GivenBack
  <2> QED
    BY <2>1, <2>2, <2>3
<1>16. CASE Leave(t)
  BY <1>1, <1>2, <1>3, <1>16 DEF Leave, LeaveAll
<1>17. CASE EnterRecv(t)
  BY <1>1, <1>2, <1>3, <1>17 DEF EnterRecv, Enter
<1>18. CASE Find(t)
  BY <1>1, <1>2, <1>3, <1>18 DEF Find
<1>19. CASE SpLock(t)
  BY <1>1, <1>2, <1>3, <1>19 DEF SpLock
<1>20. CASE SpEnter(t)
  BY <1>1, <1>2, <1>3, <1>20 DEF SpEnter
<1>21. CASE SpEnqueue(t)
  BY <1>1, <1>2, <1>3, <1>21 DEF SpEnqueue
<1>22. CASE SpPost(t)
  <2>1. Posts(t, "SpPost", "send", "RecvLoop") \/ Fails(t, "SpPost", "SpUndo")
    BY <1>22, PostEffects
  <2>2. ioCount' = ioCount
    BY <1>22, PostEffects
  <2>3. CASE Posts(t, "SpPost", "send", "RecvLoop")
    BY <1>1, <1>2, <2>2, <2>3 DEF Posts
  <2>4. CASE Fails(t, "SpPost", "SpUndo")
    BY <1>1, <1>2, <2>2, <2>4 DEF Fails
  <2> QED
    BY <2>1, <2>3, <2>4
<1>23. CASE SpUndo(t)
  <2>1. NotTheLast(t, "SpUndo", "RecvLoop")
    BY <1>23, DecEffects
  <2> QED
    BY <1>1, <1>2, <2>1 DEF NotTheLast, GivenBack
<1>24. CASE RecvPost(t)
  <2>1. Posts(t, "RecvLoop", "recv", "Leave") \/ Fails(t, "RecvLoop", "RecvDec")
    BY <1>24, PostEffects
  <2>2. ioCount' = ioCount
    BY <1>24, PostEffects
  <2>3. CASE Posts(t, "RecvLoop", "recv", "Leave")
    BY <1>1, <1>2, <2>2, <2>3 DEF Posts
  <2>4. CASE Fails(t, "RecvLoop", "RecvDec")
    BY <1>1, <1>2, <2>2, <2>4 DEF Fails
  <2> QED
    BY <2>1, <2>3, <2>4
<1>25. CASE RecvDec(t)
  <2>1. NotTheLast(t, "RecvDec", "Leave") \/ TheLast(t, "RecvDec", "OuterLeave")
    BY <1>25, DecEffects
  <2>2. CASE NotTheLast(t, "RecvDec", "Leave")
    BY <1>1, <1>2, <2>2 DEF NotTheLast, GivenBack
  <2>3. CASE TheLast(t, "RecvDec", "OuterLeave")
    BY <1>1, <1>2, <2>3 DEF TheLast, GivenBack
  <2> QED
    BY <2>1, <2>2, <2>3
<1>26. CASE EnterSend(t)
  BY <1>1, <1>2, <1>3, <1>26 DEF EnterSend, Enter
<1>27. CASE SdMove(t)
  BY <1>1, <1>2, <1>3, <1>27 DEF SdMove
<1>28. CASE SdPost(t)
  <2>1. Posts(t, "SdPost", "send", "SdDec") \/ Fails(t, "SdPost", "SdUndo")
    BY <1>28, PostEffects
  <2>2. ioCount' = ioCount
    BY <1>28, PostEffects
  <2>3. CASE Posts(t, "SdPost", "send", "SdDec")
    BY <1>1, <1>2, <2>2, <2>3 DEF Posts
  <2>4. CASE Fails(t, "SdPost", "SdUndo")
    BY <1>1, <1>2, <2>2, <2>4 DEF Fails
  <2> QED
    BY <2>1, <2>3, <2>4
<1>29. CASE SdUndo(t)
  <2>1. NotTheLast(t, "SdUndo", "SdDec")
    BY <1>29, DecEffects
  <2> QED
    BY <1>1, <1>2, <2>1 DEF NotTheLast, GivenBack
<1>30. CASE SdDec(t)
  <2>1. NotTheLast(t, "SdDec", "Leave") \/ TheLast(t, "SdDec", "OuterLeave")
    BY <1>30, DecEffects
  <2>2. CASE NotTheLast(t, "SdDec", "Leave")
    BY <1>1, <1>2, <2>2 DEF NotTheLast, GivenBack
  <2>3. CASE TheLast(t, "SdDec", "OuterLeave")
    BY <1>1, <1>2, <2>3 DEF TheLast, GivenBack
  <2> QED
    BY <2>1, <2>2, <2>3
<1>31. CASE AcSocket(t)
  BY <1>1, <1>2, <1>3, <1>31 DEF AcSocket
<1>32. CASE AcListen(t)
  BY <1>1, <1>2, <1>3, <1>32 DEF AcListen
<1>33. CASE AcCall(t)
  BY <1>1, <1>2, <1>3, <1>33 DEF AcCall
<1>34. CASE AcInterrupted(t)
  BY <1>1, <1>2, <1>3, <1>34 DEF AcInterrupted
<1>35. CASE AcLock(t)
  BY <1>1, <1>2, <1>3, <1>35 DEF AcLock
<1>36. CASE AcInsert(t)
  BY <1>1, <1>2, <1>3, <1>36 DEF AcInsert
<1>37. CASE AcPost(t)
  <2>1. Posts(t, "AcPost", "recv", "AcCall") \/ Fails(t, "AcPost", "AcUndo")
    BY <1>37, PostEffects
  <2>2. ioCount' \in [IDs -> Int]
    <3>1. ioCount' = [ioCount EXCEPT ![cur[t]] = ioCount[cur[t]] + 1]
      BY <1>37, PostEffects
    <3> QED
      BY <1>1, <1>2, <2>1, <3>1 DEF Posts, Fails
  <2>3. CASE Posts(t, "AcPost", "recv", "AcCall")
    BY <1>1, <1>2, <2>2, <2>3 DEF Posts
  <2>4. CASE Fails(t, "AcPost", "AcUndo")
    BY <1>1, <1>2, <2>2, <2>4 DEF Fails
  <2> QED
    BY <2>1, <2>3, <2>4
<1>38. CASE AcUndo(t)
  <2>1. NotTheLast(t, "AcUndo", "AcBreak") \/ TheLast(t, "AcUndo", "AcBreak")
    BY <1>38, DecEffects
  <2>2. CASE NotTheLast(t, "AcUndo", "AcBreak")
    BY <1>1, <1>2, <2>2 DEF NotTheLast, GivenBack
  <2>3. CASE TheLast(t, "AcUndo", "AcBreak")
    BY <1>1, <1>2, <2>3 DEF TheLast, GivenBack
  <2> QED
    BY <2>1, <2>2, <2>3
<1>39. CASE AcBreak(t)
  BY <1>1, <1>2, <1>3, <1>39 DEF AcBreak
<1>40. CASE TakeQuit(t)
  BY <1>1, <1>2, <1>3, <1>40 DEF TakeQuit
<1>41. CASE Accept(t)
  BY <1>1, <1>2, <1>3, <1>41 DEF Accept
<1>42. ASSUME NEW s1 \in IDs, NEW ty \in IoTypes, Take(t, s1, ty)
  PROVE  TypeOK'
  BY <1>1, <1>2, <1>3, <1>42 DEF Take
<1> QED
  BY <1>10, <1>11, <1>12, <1>13, <1>14, <1>15, <1>16, <1>17, <1>18, <1>19, <1>20, <1>21, <1>22, <1>23, <1>24, <1>25, <1>26, <1>27, <1>28, <1>29, <1>30, <1>31, <1>32, <1>33, <1>34, <1>35, <1>36, <1>37, <1>38, <1>39, <1>40, <1>41, <1>42 DEF Moves, Step

\* Threads stay at places of their own kind.
LEMMA MovePlace ==
  ASSUME EchoInv, NEW t \in Threads, Moves(t)
  PROVE  PlaceOK(t)'
<1>1. TypeOK /\ PlaceOK(t)
  BY DEF EchoInv
<1>2. Acceptor \notin Workers /\ (t \in Workers \/ t = Acceptor)
  BY EchoAssumption DEF Threads
<1> USE DEF At, Goto, local, TypeOK, PlaceOK, Uses, Serving, Working, Accepting, Releasing, Fresh, InSend
<1>10. CASE RelErase(t)
  BY <1>1, <1>2, <1>10 DEF RelErase
<1>11. CASE RelWait(t)
  BY <1>1, <1>2, <1>11 DEF RelWait
<1>12. CASE RelDelete(t)
  BY <1>1, <1>2, <1>12 DEF RelDelete
<1>13. CASE OuterLeave(t)
  BY <1>1, <1>2, <1>13 DEF OuterLeave
<1>14. CASE EnterLost(t)
  BY <1>1, <1>2, <1>14 DEF EnterLost
<1>15. CASE DecLost(t)
  <2>1. NotTheLast(t, "DecLost", "Idle") \/ TheLast(t, "DecLost", "Idle")
    BY <1>15, DecEffects
  <2>2. CASE NotTheLast(t, "DecLost", "Idle")
    BY <1>1, <1>2, <2>2 DEF NotTheLast, GivenBack
  <2>3. CASE TheLast(t, "DecLost", "Idle")
    BY <1>1, <1>2, <2>3 DEF TheLast, GivenBack
  <2> QED
    BY <2>1, <2>2, <2>3
<1>16. CASE Leave(t)
  BY <1>1, <1>2, <1>16 DEF Leave, LeaveAll
<1>17. CASE EnterRecv(t)
  BY <1>1, <1>2, <1>17 DEF EnterRecv, Enter
<1>18. CASE Find(t)
  BY <1>1, <1>2, <1>18 DEF Find
<1>19. CASE SpLock(t)
  BY <1>1, <1>2, <1>19 DEF SpLock
<1>20. CASE SpEnter(t)
  BY <1>1, <1>2, <1>20 DEF SpEnter
<1>21. CASE SpEnqueue(t)
  BY <1>1, <1>2, <1>21 DEF SpEnqueue
<1>22. CASE SpPost(t)
  <2>1. Posts(t, "SpPost", "send", "RecvLoop") \/ Fails(t, "SpPost", "SpUndo")
    BY <1>22, PostEffects
  <2>2. ioCount' = ioCount
    BY <1>22, PostEffects
  <2>3. CASE Posts(t, "SpPost", "send", "RecvLoop")
    BY <1>1, <1>2, <2>2, <2>3 DEF Posts
  <2>4. CASE Fails(t, "SpPost", "SpUndo")
    BY <1>1, <1>2, <2>2, <2>4 DEF Fails
  <2> QED
    BY <2>1, <2>3, <2>4
<1>23. CASE SpUndo(t)
  <2>1. NotTheLast(t, "SpUndo", "RecvLoop")
    BY <1>23, DecEffects
  <2> QED
    BY <1>1, <1>2, <2>1 DEF NotTheLast, GivenBack
<1>24. CASE RecvPost(t)
  <2>1. Posts(t, "RecvLoop", "recv", "Leave") \/ Fails(t, "RecvLoop", "RecvDec")
    BY <1>24, PostEffects
  <2>2. ioCount' = ioCount
    BY <1>24, PostEffects
  <2>3. CASE Posts(t, "RecvLoop", "recv", "Leave")
    BY <1>1, <1>2, <2>2, <2>3 DEF Posts
  <2>4. CASE Fails(t, "RecvLoop", "RecvDec")
    BY <1>1, <1>2, <2>2, <2>4 DEF Fails
  <2> QED
    BY <2>1, <2>3, <2>4
<1>25. CASE RecvDec(t)
  <2>1. NotTheLast(t, "RecvDec", "Leave") \/ TheLast(t, "RecvDec", "OuterLeave")
    BY <1>25, DecEffects
  <2>2. CASE NotTheLast(t, "RecvDec", "Leave")
    BY <1>1, <1>2, <2>2 DEF NotTheLast, GivenBack
  <2>3. CASE TheLast(t, "RecvDec", "OuterLeave")
    BY <1>1, <1>2, <2>3 DEF TheLast, GivenBack
  <2> QED
    BY <2>1, <2>2, <2>3
<1>26. CASE EnterSend(t)
  BY <1>1, <1>2, <1>26 DEF EnterSend, Enter
<1>27. CASE SdMove(t)
  BY <1>1, <1>2, <1>27 DEF SdMove
<1>28. CASE SdPost(t)
  <2>1. Posts(t, "SdPost", "send", "SdDec") \/ Fails(t, "SdPost", "SdUndo")
    BY <1>28, PostEffects
  <2>2. ioCount' = ioCount
    BY <1>28, PostEffects
  <2>3. CASE Posts(t, "SdPost", "send", "SdDec")
    BY <1>1, <1>2, <2>2, <2>3 DEF Posts
  <2>4. CASE Fails(t, "SdPost", "SdUndo")
    BY <1>1, <1>2, <2>2, <2>4 DEF Fails
  <2> QED
    BY <2>1, <2>3, <2>4
<1>29. CASE SdUndo(t)
  <2>1. NotTheLast(t, "SdUndo", "SdDec")
    BY <1>29, DecEffects
  <2> QED
    BY <1>1, <1>2, <2>1 DEF NotTheLast, GivenBack
<1>30. CASE SdDec(t)
  <2>1. NotTheLast(t, "SdDec", "Leave") \/ TheLast(t, "SdDec", "OuterLeave")
    BY <1>30, DecEffects
  <2>2. CASE NotTheLast(t, "SdDec", "Leave")
    BY <1>1, <1>2, <2>2 DEF NotTheLast, GivenBack
  <2>3. CASE TheLast(t, "SdDec", "OuterLeave")
    BY <1>1, <1>2, <2>3 DEF TheLast, GivenBack
  <2> QED
    BY <2>1, <2>2, <2>3
<1>31. CASE AcSocket(t)
  BY <1>1, <1>2, <1>31 DEF AcSocket
<1>32. CASE AcListen(t)
  BY <1>1, <1>2, <1>32 DEF AcListen
<1>33. CASE AcCall(t)
  BY <1>1, <1>2, <1>33 DEF AcCall
<1>34. CASE AcInterrupted(t)
  BY <1>1, <1>2, <1>34 DEF AcInterrupted
<1>35. CASE AcLock(t)
  BY <1>1, <1>2, <1>35 DEF AcLock
<1>36. CASE AcInsert(t)
  BY <1>1, <1>2, <1>36 DEF AcInsert
<1>37. CASE AcPost(t)
  <2>1. Posts(t, "AcPost", "recv", "AcCall") \/ Fails(t, "AcPost", "AcUndo")
    BY <1>37, PostEffects
  <2>2. ioCount' = [ioCount EXCEPT ![cur[t]] = ioCount[cur[t]] + 1]
    BY <1>37, PostEffects
  <2>3. CASE Posts(t, "AcPost", "recv", "AcCall")
    BY <1>1, <1>2, <2>2, <2>3 DEF Posts
  <2>4. CASE Fails(t, "AcPost", "AcUndo")
    BY <1>1, <1>2, <2>2, <2>4 DEF Fails
  <2> QED
    BY <2>1, <2>3, <2>4
<1>38. CASE AcUndo(t)
  <2>1. NotTheLast(t, "AcUndo", "AcBreak") \/ TheLast(t, "AcUndo", "AcBreak")
    BY <1>38, DecEffects
  <2>2. CASE NotTheLast(t, "AcUndo", "AcBreak")
    BY <1>1, <1>2, <2>2 DEF NotTheLast, GivenBack
  <2>3. CASE TheLast(t, "AcUndo", "AcBreak")
    BY <1>1, <1>2, <2>3 DEF TheLast, GivenBack
  <2> QED
    BY <2>1, <2>2, <2>3
<1>39. CASE AcBreak(t)
  BY <1>1, <1>2, <1>39 DEF AcBreak
<1>40. CASE TakeQuit(t)
  BY <1>1, <1>2, <1>40 DEF TakeQuit
<1>41. CASE Accept(t)
  BY <1>1, <1>2, <1>41 DEF Accept
<1>42. ASSUME NEW s1 \in IDs, NEW ty \in IoTypes, Take(t, s1, ty)
  PROVE  PlaceOK(t)'
  BY <1>1, <1>2, <1>42 DEF Take
<1> QED
  BY <1>10, <1>11, <1>12, <1>13, <1>14, <1>15, <1>16, <1>17, <1>18, <1>19, <1>20, <1>21, <1>22, <1>23, <1>24, <1>25, <1>26, <1>27, <1>28, <1>29, <1>30, <1>31, <1>32, <1>33, <1>34, <1>35, <1>36, <1>37, <1>38, <1>39, <1>40, <1>41, <1>42 DEF Moves, Step

\* What threads work on stays there.
LEMMA MoveThere ==
  ASSUME EchoInv, NEW t \in Threads, Moves(t), NEW u \in Threads
  PROVE  ThereOK(u)'
<1>1. /\ TypeOK /\ PlaceOK(t) /\ ThereOK(t) /\ AloneOK(t) /\ CsOK(t)
      /\ TypeOK' /\ ThereOK(u) /\ AloneOK(u) /\ CsOK(u)
  BY MoveTypes DEF EchoInv
<1>2. u # t => pc'[u] = pc[u] /\ cur'[u] = cur[u] /\ back'[u] = back[u]
  BY OthersStay, <1>1 DEF TypeOK
<1>3. /\ pc[t] \in Serving \cup {"AcUndo"} => ioCount[cur[t]] # 0
      /\ pc[u] \in Serving \cup {"AcUndo"} => ioCount[cur[u]] # 0
      /\ \A s \in IDs, ty \in IoTypes : io[s][ty] # "idle" => ioCount[s] # 0
  BY Busy
<1>4. NoThread \notin Threads /\ NoID \notin IDs
  BY EchoAssumption DEF NoID, IDs
<1>5. \A s \in IDs, ty \in IoTypes : io[s][ty] # "idle" => object[s] = "alive"
  BY DEF EchoInv, SessionOK
<1> USE DEF At, Goto, session, locks, system, local, TypeOK, PlaceOK, ThereOK, AloneOK, CsOK, InCs, Uses, Serving, Working, Accepting, Releasing, Fresh, InSend
<1>10. CASE RelErase(t)
  BY <1>1, <1>2, <1>3, <1>4, <1>5, <1>10 DEF RelErase
<1>11. CASE RelWait(t)
  BY <1>1, <1>2, <1>3, <1>4, <1>5, <1>11 DEF RelWait
<1>12. CASE RelDelete(t)
  BY <1>1, <1>2, <1>3, <1>4, <1>5, <1>12 DEF RelDelete
<1>13. CASE OuterLeave(t)
  BY <1>1, <1>2, <1>3, <1>4, <1>5, <1>13 DEF OuterLeave
<1>14. CASE EnterLost(t)
  BY <1>1, <1>2, <1>3, <1>4, <1>5, <1>14 DEF EnterLost
<1>15. CASE DecLost(t)
  <2>1. NotTheLast(t, "DecLost", "Idle") \/ TheLast(t, "DecLost", "Idle")
    BY <1>15, DecEffects
  <2>2. CASE NotTheLast(t, "DecLost", "Idle")
    BY <1>1, <1>2, <1>3, <1>4, <1>5, <2>2 DEF NotTheLast, GivenBack
  <2>3. CASE TheLast(t, "DecLost", "Idle")
    BY <1>1, <1>2, <1>3, <1>4, <1>5, <2>3 DEF TheLast, GivenBack
  <2> QED
    BY <2>1, <2>2, <2>3
<1>16. CASE Leave(t)
  BY <1>1, <1>2, <1>3, <1>4, <1>5, <1>16 DEF Leave, LeaveAll
<1>17. CASE EnterRecv(t)
  BY <1>1, <1>2, <1>3, <1>4, <1>5, <1>17 DEF EnterRecv, Enter
<1>18. CASE Find(t)
  BY <1>1, <1>2, <1>3, <1>4, <1>5, <1>18 DEF Find
<1>19. CASE SpLock(t)
  BY <1>1, <1>2, <1>3, <1>4, <1>5, <1>19 DEF SpLock
<1>20. CASE SpEnter(t)
  BY <1>1, <1>2, <1>3, <1>4, <1>5, <1>20 DEF SpEnter
<1>21. CASE SpEnqueue(t)
  BY <1>1, <1>2, <1>3, <1>4, <1>5, <1>21 DEF SpEnqueue
<1>22. CASE SpPost(t)
  <2>1. Posts(t, "SpPost", "send", "RecvLoop") \/ Fails(t, "SpPost", "SpUndo")
    BY <1>22, PostEffects
  <2>2. ioCount' = ioCount
    BY <1>22, PostEffects
  <2>3. CASE Posts(t, "SpPost", "send", "RecvLoop")
    BY <1>1, <1>2, <1>3, <1>4, <1>5, <2>2, <2>3 DEF Posts
  <2>4. CASE Fails(t, "SpPost", "SpUndo")
    BY <1>1, <1>2, <1>3, <1>4, <1>5, <2>2, <2>4 DEF Fails
  <2> QED
    BY <2>1, <2>3, <2>4
<1>23. CASE SpUndo(t)
  <2>1. NotTheLast(t, "SpUndo", "RecvLoop")
    BY <1>23, DecEffects
  <2> QED
    BY <1>1, <1>2, <1>3, <1>4, <1>5, <2>1 DEF NotTheLast, GivenBack
<1>24. CASE RecvPost(t)
  <2>1. Posts(t, "RecvLoop", "recv", "Leave") \/ Fails(t, "RecvLoop", "RecvDec")
    BY <1>24, PostEffects
  <2>2. ioCount' = ioCount
    BY <1>24, PostEffects
  <2>3. CASE Posts(t, "RecvLoop", "recv", "Leave")
    BY <1>1, <1>2, <1>3, <1>4, <1>5, <2>2, <2>3 DEF Posts
  <2>4. CASE Fails(t, "RecvLoop", "RecvDec")
    BY <1>1, <1>2, <1>3, <1>4, <1>5, <2>2, <2>4 DEF Fails
  <2> QED
    BY <2>1, <2>3, <2>4
<1>25. CASE RecvDec(t)
  <2>1. NotTheLast(t, "RecvDec", "Leave") \/ TheLast(t, "RecvDec", "OuterLeave")
    BY <1>25, DecEffects
  <2>2. CASE NotTheLast(t, "RecvDec", "Leave")
    BY <1>1, <1>2, <1>3, <1>4, <1>5, <2>2 DEF NotTheLast, GivenBack
  <2>3. CASE TheLast(t, "RecvDec", "OuterLeave")
    BY <1>1, <1>2, <1>3, <1>4, <1>5, <2>3 DEF TheLast, GivenBack
  <2> QED
    BY <2>1, <2>2, <2>3
<1>26. CASE EnterSend(t)
  BY <1>1, <1>2, <1>3, <1>4, <1>5, <1>26 DEF EnterSend, Enter
<1>27. CASE SdMove(t)
  BY <1>1, <1>2, <1>3, <1>4, <1>5, <1>27 DEF SdMove
<1>28. CASE SdPost(t)
  <2>1. Posts(t, "SdPost", "send", "SdDec") \/ Fails(t, "SdPost", "SdUndo")
    BY <1>28, PostEffects
  <2>2. ioCount' = ioCount
    BY <1>28, PostEffects
  <2>3. CASE Posts(t, "SdPost", "send", "SdDec")
    BY <1>1, <1>2, <1>3, <1>4, <1>5, <2>2, <2>3 DEF Posts
  <2>4. CASE Fails(t, "SdPost", "SdUndo")
    BY <1>1, <1>2, <1>3, <1>4, <1>5, <2>2, <2>4 DEF Fails
  <2> QED
    BY <2>1, <2>3, <2>4
<1>29. CASE SdUndo(t)
  <2>1. NotTheLast(t, "SdUndo", "SdDec")
    BY <1>29, DecEffects
  <2> QED
    BY <1>1, <1>2, <1>3, <1>4, <1>5, <2>1 DEF NotTheLast, GivenBack
<1>30. CASE SdDec(t)
  <2>1. NotTheLast(t, "SdDec", "Leave") \/ TheLast(t, "SdDec", "OuterLeave")
    BY <1>30, DecEffects
  <2>2. CASE NotTheLast(t, "SdDec", "Leave")
    BY <1>1, <1>2, <1>3, <1>4, <1>5, <2>2 DEF NotTheLast, GivenBack
  <2>3. CASE TheLast(t, "SdDec", "OuterLeave")
    BY <1>1, <1>2, <1>3, <1>4, <1>5, <2>3 DEF TheLast, GivenBack
  <2> QED
    BY <2>1, <2>2, <2>3
<1>31. CASE AcSocket(t)
  BY <1>1, <1>2, <1>3, <1>4, <1>5, <1>31 DEF AcSocket
<1>32. CASE AcListen(t)
  BY <1>1, <1>2, <1>3, <1>4, <1>5, <1>32 DEF AcListen
<1>33. CASE AcCall(t)
  BY <1>1, <1>2, <1>3, <1>4, <1>5, <1>33 DEF AcCall
<1>34. CASE AcInterrupted(t)
  BY <1>1, <1>2, <1>3, <1>4, <1>5, <1>34 DEF AcInterrupted
<1>35. CASE AcLock(t)
  BY <1>1, <1>2, <1>3, <1>4, <1>5, <1>35 DEF AcLock
<1>36. CASE AcInsert(t)
  BY <1>1, <1>2, <1>3, <1>4, <1>5, <1>36 DEF AcInsert
<1>37. CASE AcPost(t)
  <2>1. Posts(t, "AcPost", "recv", "AcCall") \/ Fails(t, "AcPost", "AcUndo")
    BY <1>37, PostEffects
  <2>2. ioCount' = [ioCount EXCEPT ![cur[t]] = ioCount[cur[t]] + 1]
    BY <1>37, PostEffects
  <2>3. CASE Posts(t, "AcPost", "recv", "AcCall")
    BY <1>1, <1>2, <1>3, <1>4, <1>5, <2>2, <2>3 DEF Posts
  <2>4. CASE Fails(t, "AcPost", "AcUndo")
    BY <1>1, <1>2, <1>3, <1>4, <1>5, <2>2, <2>4 DEF Fails
  <2> QED
    BY <2>1, <2>3, <2>4
<1>38. CASE AcUndo(t)
  <2>1. NotTheLast(t, "AcUndo", "AcBreak") \/ TheLast(t, "AcUndo", "AcBreak")
    BY <1>38, DecEffects
  <2>2. CASE NotTheLast(t, "AcUndo", "AcBreak")
    BY <1>1, <1>2, <1>3, <1>4, <1>5, <2>2 DEF NotTheLast, GivenBack
  <2>3. CASE TheLast(t, "AcUndo", "AcBreak")
    BY <1>1, <1>2, <1>3, <1>4, <1>5, <2>3 DEF TheLast, GivenBack
  <2> QED
    BY <2>1, <2>2, <2>3
<1>39. CASE AcBreak(t)
  BY <1>1, <1>2, <1>3, <1>4, <1>5, <1>39 DEF AcBreak
<1>40. CASE TakeQuit(t)
  BY <1>1, <1>2, <1>3, <1>4, <1>5, <1>40 DEF TakeQuit
<1>41. CASE Accept(t)
  BY <1>1, <1>2, <1>3, <1>4, <1>5, <1>41 DEF Accept
<1>42. ASSUME NEW s1 \in IDs, NEW ty \in IoTypes, Take(t, s1, ty)
  PROVE  ThereOK(u)'
  BY <1>1, <1>2, <1>3, <1>4, <1>5, <1>42 DEF Take
<1> QED
  BY <1>10, <1>11, <1>12, <1>13, <1>14, <1>15, <1>16, <1>17, <1>18, <1>19, <1>20, <1>21, <1>22, <1>23, <1>24, <1>25, <1>26, <1>27, <1>28, <1>29, <1>30, <1>31, <1>32, <1>33, <1>34, <1>35, <1>36, <1>37, <1>38, <1>39, <1>40, <1>41, <1>42 DEF Moves, Step

\* SendPacket and ReleaseSession find their session in the map.
LEMMA InMap ==
  ASSUME EchoInv, NEW t \in Threads, pc[t] \in {"SpLock", "RelErase"}
  PROVE  cur[t] \in sessionMap
<1>1. cur[t] \in IDs /\ object[cur[t]] = "alive"
  BY DEF EchoInv, ThereOK, Uses, Serving
<1>2. Acceptor \in Threads
  BY DEF Threads
<1>3. ~(pc[Acceptor] \in {"AcLock", "AcInsert"} /\ cur[Acceptor] = cur[t])
  BY <1>1, <1>2 DEF EchoInv, AloneOK, Fresh
<1>4. ASSUME NEW v \in Threads, pc[v] \in {"RelWait", "RelDelete"}, cur[v] = cur[t]
      PROVE  FALSE
  <2>1. AloneOK(v) /\ (pc[t] = "SpLock" => ioCount[cur[t]] # 0)
    BY Busy DEF EchoInv, Serving
  <2> QED
    BY <1>4, <2>1 DEF AloneOK, Releasing
<1> QED
  BY <1>1, <1>3, <1>4 DEF EchoInv, SessionOK

\* Who releases a session, and who brings a new one, stays alone with it.
LEMMA MoveAlone ==
  ASSUME EchoInv, NEW t \in Threads, Moves(t), NEW u \in Threads
  PROVE  AloneOK(u)'
<1>1. /\ TypeOK /\ PlaceOK(t) /\ ThereOK(t) /\ AloneOK(t) /\ CsOK(t)
      /\ TypeOK' /\ ThereOK(u) /\ AloneOK(u) /\ CsOK(u)
  BY MoveTypes DEF EchoInv
<1>2. u # t => pc'[u] = pc[u] /\ cur'[u] = cur[u] /\ back'[u] = back[u]
  BY OthersStay, <1>1 DEF TypeOK
<1>3. /\ pc[t] \in Serving \cup {"AcUndo"} => ioCount[cur[t]] # 0
      /\ pc[u] \in Serving \cup {"AcUndo"} => ioCount[cur[u]] # 0
      /\ \A s \in IDs, ty \in IoTypes : io[s][ty] # "idle" => ioCount[s] # 0
  BY Busy
<1>4. NoThread \notin Threads /\ NoID \notin IDs
  BY EchoAssumption DEF NoID, IDs
<1>5. \A s \in IDs : object[s] = "none" => ioCount[s] = 0
  BY DEF EchoInv, SessionOK
<1>6. \A v \in Threads :
        /\ cur[v] \in IDs => object[cur[v]] # "none"
        /\ pc[v] \in Releasing => ioCount[cur[v]] = 0
        /\ v # t => pc'[v] = pc[v] /\ cur'[v] = cur[v]
  BY OthersStay, <1>1 DEF EchoInv, ThereOK, AloneOK, TypeOK
<1> USE DEF At, Goto, session, locks, system, local, TypeOK, PlaceOK, ThereOK, AloneOK, Uses, Serving, Working, Accepting, Releasing, Fresh, InSend
<1>10. CASE RelErase(t)
  BY <1>1, <1>2, <1>3, <1>4, <1>5, <1>6, <1>10 DEF RelErase
<1>11. CASE RelWait(t)
  BY <1>1, <1>2, <1>3, <1>4, <1>5, <1>6, <1>11 DEF RelWait
<1>12. CASE RelDelete(t)
  BY <1>1, <1>2, <1>3, <1>4, <1>5, <1>6, <1>12 DEF RelDelete
<1>13. CASE OuterLeave(t)
  BY <1>1, <1>2, <1>3, <1>4, <1>5, <1>6, <1>13 DEF OuterLeave
<1>14. CASE EnterLost(t)
  BY <1>1, <1>2, <1>3, <1>4, <1>5, <1>6, <1>14 DEF EnterLost
<1>15. CASE DecLost(t)
  <2>1. NotTheLast(t, "DecLost", "Idle") \/ TheLast(t, "DecLost", "Idle")
    BY <1>15, DecEffects
  <2>2. CASE NotTheLast(t, "DecLost", "Idle")
    BY <1>1, <1>2, <1>3, <1>4, <1>5, <1>6, <2>2 DEF NotTheLast, GivenBack
  <2>3. CASE TheLast(t, "DecLost", "Idle")
    BY <1>1, <1>2, <1>3, <1>4, <1>5, <1>6, <2>3 DEF TheLast, GivenBack
  <2> QED
    BY <2>1, <2>2, <2>3
<1>16. CASE Leave(t)
  BY <1>1, <1>2, <1>3, <1>4, <1>5, <1>6, <1>16 DEF Leave, LeaveAll
<1>17. CASE EnterRecv(t)
  BY <1>1, <1>2, <1>3, <1>4, <1>5, <1>6, <1>17 DEF EnterRecv, Enter
<1>18. CASE Find(t)
  BY <1>1, <1>2, <1>3, <1>4, <1>5, <1>6, <1>18 DEF Find
<1>19. CASE SpLock(t)
  BY <1>1, <1>2, <1>3, <1>4, <1>5, <1>6, <1>19 DEF SpLock
<1>20. CASE SpEnter(t)
  BY <1>1, <1>2, <1>3, <1>4, <1>5, <1>6, <1>20 DEF SpEnter
<1>21. CASE SpEnqueue(t)
  BY <1>1, <1>2, <1>3, <1>4, <1>5, <1>6, <1>21 DEF SpEnqueue
<1>22. CASE SpPost(t)
  <2>1. Posts(t, "SpPost", "send", "RecvLoop") \/ Fails(t, "SpPost", "SpUndo")
    BY <1>22, PostEffects
  <2>2. ioCount' = ioCount
    BY <1>22, PostEffects
  <2>3. CASE Posts(t, "SpPost", "send", "RecvLoop")
    BY <1>1, <1>2, <1>3, <1>4, <1>5, <1>6, <2>2, <2>3 DEF Posts
  <2>4. CASE Fails(t, "SpPost", "SpUndo")
    BY <1>1, <1>2, <1>3, <1>4, <1>5, <1>6, <2>2, <2>4 DEF Fails
  <2> QED
    BY <2>1, <2>3, <2>4
<1>23. CASE SpUndo(t)
  <2>1. NotTheLast(t, "SpUndo", "RecvLoop")
    BY <1>23, DecEffects
  <2> QED
    BY <1>1, <1>2, <1>3, <1>4, <1>5, <1>6, <2>1 DEF NotTheLast, GivenBack
<1>24. CASE RecvPost(t)
  <2>1. Posts(t, "RecvLoop", "recv", "Leave") \/ Fails(t, "RecvLoop", "RecvDec")
    BY <1>24, PostEffects
  <2>2. ioCount' = ioCount
    BY <1>24, PostEffects
  <2>3. CASE Posts(t, "RecvLoop", "recv", "Leave")
    BY <1>1, <1>2, <1>3, <1>4, <1>5, <1>6, <2>2, <2>3 DEF Posts
  <2>4. CASE Fails(t, "RecvLoop", "RecvDec")
    BY <1>1, <1>2, <1>3, <1>4, <1>5, <1>6, <2>2, <2>4 DEF Fails
  <2> QED
    BY <2>1, <2>3, <2>4
<1>25. CASE RecvDec(t)
  <2>1. NotTheLast(t, "RecvDec", "Leave") \/ TheLast(t, "RecvDec", "OuterLeave")
    BY <1>25, DecEffects
  <2>2. CASE NotTheLast(t, "RecvDec", "Leave")
    BY <1>1, <1>2, <1>3, <1>4, <1>5, <1>6, <2>2 DEF NotTheLast, GivenBack
  <2>3. CASE TheLast(t, "RecvDec", "OuterLeave")
    BY <1>1, <1>2, <1>3, <1>4, <1>5, <1>6, <2>3 DEF TheLast, GivenBack
  <2> QED
    BY <2>1, <2>2, <2>3
<1>26. CASE EnterSend(t)
  BY <1>1, <1>2, <1>3, <1>4, <1>5, <1>6, <1>26 DEF EnterSend, Enter
<1>27. CASE SdMove(t)
  BY <1>1, <1>2, <1>3, <1>4, <1>5, <1>6, <1>27 DEF SdMove
<1>28. CASE SdPost(t)
  <2>1. Posts(t, "SdPost", "send", "SdDec") \/ Fails(t, "SdPost", "SdUndo")
    BY <1>28, PostEffects
  <2>2. ioCount' = ioCount
    BY <1>28, PostEffects
  <2>3. CASE Posts(t, "SdPost", "send", "SdDec")
    BY <1>1, <1>2, <1>3, <1>4, <1>5, <1>6, <2>2, <2>3 DEF Posts
  <2>4. CASE Fails(t, "SdPost", "SdUndo")
    BY <1>1, <1>2, <1>3, <1>4, <1>5, <1>6, <2>2, <2>4 DEF Fails
  <2> QED
    BY <2>1, <2>3, <2>4
<1>29. CASE SdUndo(t)
  <2>1. NotTheLast(t, "SdUndo", "SdDec")
    BY <1>29, DecEffects
  <2> QED
    BY <1>1, <1>2, <1>3, <1>4, <1>5, <1>6, <2>1 DEF NotTheLast, GivenBack
<1>30. CASE SdDec(t)
  <2>1. NotTheLast(t, "SdDec", "Leave") \/ TheLast(t, "SdDec", "OuterLeave")
    BY <1>30, DecEffects
  <2>2. CASE NotTheLast(t, "SdDec", "Leave")
    BY <1>1, <1>2, <1>3, <1>4, <1>5, <1>6, <2>2 DEF NotTheLast, GivenBack
  <2>3. CASE TheLast(t, "SdDec", "OuterLeave")
    BY <1>1, <1>2, <1>3, <1>4, <1>5, <1>6, <2>3 DEF TheLast, GivenBack
  <2> QED
    BY <2>1, <2>2, <2>3
<1>31. CASE AcSocket(t)
  BY <1>1, <1>2, <1>3, <1>4, <1>5, <1>6, <1>31 DEF AcSocket
<1>32. CASE AcListen(t)
  BY <1>1, <1>2, <1>3, <1>4, <1>5, <1>6, <1>32 DEF AcListen
<1>33. CASE AcCall(t)
  BY <1>1, <1>2, <1>3, <1>4, <1>5, <1>6, <1>33 DEF AcCall
<1>34. CASE AcInterrupted(t)
  BY <1>1, <1>2, <1>3, <1>4, <1>5, <1>6, <1>34 DEF AcInterrupted
<1>35. CASE AcLock(t)
  BY <1>1, <1>2, <1>3, <1>4, <1>5, <1>6, <1>35 DEF AcLock
<1>36. CASE AcInsert(t)
  BY <1>1, <1>2, <1>3, <1>4, <1>5, <1>6, <1>36 DEF AcInsert
<1>37. CASE AcPost(t)
  <2>1. Posts(t, "AcPost", "recv", "AcCall") \/ Fails(t, "AcPost", "AcUndo")
    BY <1>37, PostEffects
  <2>2. ioCount' = [ioCount EXCEPT ![cur[t]] = ioCount[cur[t]] + 1]
    BY <1>37, PostEffects
  <2>3. CASE Posts(t, "AcPost", "recv", "AcCall")
    BY <1>1, <1>2, <1>3, <1>4, <1>5, <1>6, <2>2, <2>3 DEF Posts
  <2>4. CASE Fails(t, "AcPost", "AcUndo")
    BY <1>1, <1>2, <1>3, <1>4, <1>5, <1>6, <2>2, <2>4 DEF Fails
  <2> QED
    BY <2>1, <2>3, <2>4
<1>38. CASE AcUndo(t)
  <2>1. NotTheLast(t, "AcUndo", "AcBreak") \/ TheLast(t, "AcUndo", "AcBreak")
    BY <1>38, DecEffects
  <2>2. CASE NotTheLast(t, "AcUndo", "AcBreak")
    BY <1>1, <1>2, <1>3, <1>4, <1>5, <1>6, <2>2 DEF NotTheLast, GivenBack
  <2>3. CASE TheLast(t, "AcUndo", "AcBreak")
    BY <1>1, <1>2, <1>3, <1>4, <1>5, <1>6, <2>3 DEF TheLast, GivenBack
  <2> QED
    BY <2>1, <2>2, <2>3
<1>39. CASE AcBreak(t)
  BY <1>1, <1>2, <1>3, <1>4, <1>5, <1>6, <1>39 DEF AcBreak
<1>40. CASE TakeQuit(t)
  BY <1>1, <1>2, <1>3, <1>4, <1>5, <1>6, <1>40 DEF TakeQuit
<1>41. CASE Accept(t)
  BY <1>1, <1>2, <1>3, <1>4, <1>5, <1>6, <1>41 DEF Accept
<1>42. ASSUME NEW s1 \in IDs, NEW ty \in IoTypes, Take(t, s1, ty)
  PROVE  AloneOK(u)'
  BY <1>1, <1>2, <1>3, <1>4, <1>5, <1>6, <1>42 DEF Take
<1> QED
  BY <1>10, <1>11, <1>12, <1>13, <1>14, <1>15, <1>16, <1>17, <1>18, <1>19, <1>20, <1>21, <1>22, <1>23, <1>24, <1>25, <1>26, <1>27, <1>28, <1>29, <1>30, <1>31, <1>32, <1>33, <1>34, <1>35, <1>36, <1>37, <1>38, <1>39, <1>40, <1>41, <1>42 DEF Moves, Step

\* The owner of a critical section is who is inside.
LEMMA MoveCs ==
  ASSUME EchoInv, NEW t \in Threads, Moves(t), NEW u \in Threads
  PROVE  CsOK(u)'
<1>1. /\ TypeOK /\ PlaceOK(t) /\ ThereOK(t) /\ AloneOK(t) /\ CsOK(t)
      /\ TypeOK' /\ ThereOK(u) /\ AloneOK(u) /\ CsOK(u)
  BY MoveTypes DEF EchoInv
<1>2. u # t => pc'[u] = pc[u] /\ cur'[u] = cur[u] /\ back'[u] = back[u]
  BY OthersStay, <1>1 DEF TypeOK
<1>3. /\ pc[t] \in Serving \cup {"AcUndo"} => ioCount[cur[t]] # 0
      /\ pc[u] \in Serving \cup {"AcUndo"} => ioCount[cur[u]] # 0
      /\ \A s \in IDs, ty \in IoTypes : io[s][ty] # "idle" => ioCount[s] # 0
  BY Busy
<1>4. NoThread \notin Threads /\ NoID \notin IDs
  BY EchoAssumption DEF NoID, IDs
<1>5. pc[t] = "RelErase" => cur[t] \in sessionMap
  BY InMap
<1> USE DEF At, Goto, session, locks, system, local, TypeOK, PlaceOK, ThereOK, AloneOK, CsOK, InCs, Uses, Serving, Working, Accepting, Releasing, Fresh, InSend
<1>10. CASE RelErase(t)
  BY <1>1, <1>2, <1>3, <1>4, <1>5, <1>10 DEF RelErase
<1>11. CASE RelWait(t)
  BY <1>1, <1>2, <1>3, <1>4, <1>5, <1>11 DEF RelWait
<1>12. CASE RelDelete(t)
  BY <1>1, <1>2, <1>3, <1>4, <1>5, <1>12 DEF RelDelete
<1>13. CASE OuterLeave(t)
  BY <1>1, <1>2, <1>3, <1>4, <1>5, <1>13 DEF OuterLeave
<1>14. CASE EnterLost(t)
  BY <1>1, <1>2, <1>3, <1>4, <1>5, <1>14 DEF EnterLost
<1>15. CASE DecLost(t)
  <2>1. NotTheLast(t, "DecLost", "Idle") \/ TheLast(t, "DecLost", "Idle")
    BY <1>15, DecEffects
  <2>2. CASE NotTheLast(t, "DecLost", "Idle")
    BY <1>1, <1>2, <1>3, <1>4, <1>5, <2>2 DEF NotTheLast, GivenBack
  <2>3. CASE TheLast(t, "DecLost", "Idle")
    BY <1>1, <1>2, <1>3, <1>4, <1>5, <2>3 DEF TheLast, GivenBack
  <2> QED
    BY <2>1, <2>2, <2>3
<1>16. CASE Leave(t)
  BY <1>1, <1>2, <1>3, <1>4, <1>5, <1>16 DEF Leave, LeaveAll
<1>17. CASE EnterRecv(t)
  BY <1>1, <1>2, <1>3, <1>4, <1>5, <1>17 DEF EnterRecv, Enter
<1>18. CASE Find(t)
  BY <1>1, <1>2, <1>3, <1>4, <1>5, <1>18 DEF Find
<1>19. CASE SpLock(t)
  BY <1>1, <1>2, <1>3, <1>4, <1>5, <1>19 DEF SpLock
<1>20. CASE SpEnter(t)
  BY <1>1, <1>2, <1>3, <1>4, <1>5, <1>20 DEF SpEnter
<1>21. CASE SpEnqueue(t)
  BY <1>1, <1>2, <1>3, <1>4, <1>5, <1>21 DEF SpEnqueue
<1>22. CASE SpPost(t)
  <2>1. Posts(t, "SpPost", "send", "RecvLoop") \/ Fails(t, "SpPost", "SpUndo")
    BY <1>22, PostEffects
  <2>2. ioCount' = ioCount
    BY <1>22, PostEffects
  <2>3. CASE Posts(t, "SpPost", "send", "RecvLoop")
    BY <1>1, <1>2, <1>3, <1>4, <1>5, <2>2, <2>3 DEF Posts
  <2>4. CASE Fails(t, "SpPost", "SpUndo")
    BY <1>1, <1>2, <1>3, <1>4, <1>5, <2>2, <2>4 DEF Fails
  <2> QED
    BY <2>1, <2>3, <2>4
<1>23. CASE SpUndo(t)
  <2>1. NotTheLast(t, "SpUndo", "RecvLoop")
    BY <1>23, DecEffects
  <2> QED
    BY <1>1, <1>2, <1>3, <1>4, <1>5, <2>1 DEF NotTheLast, GivenBack
<1>24. CASE RecvPost(t)
  <2>1. Posts(t, "RecvLoop", "recv", "Leave") \/ Fails(t, "RecvLoop", "RecvDec")
    BY <1>24, PostEffects
  <2>2. ioCount' = ioCount
    BY <1>24, PostEffects
  <2>3. CASE Posts(t, "RecvLoop", "recv", "Leave")
    BY <1>1, <1>2, <1>3, <1>4, <1>5, <2>2, <2>3 DEF Posts
  <2>4. CASE Fails(t, "RecvLoop", "RecvDec")
    BY <1>1, <1>2, <1>3, <1>4, <1>5, <2>2, <2>4 DEF Fails
  <2> QED
    BY <2>1, <2>3, <2>4
<1>25. CASE RecvDec(t)
  <2>1. NotTheLast(t, "RecvDec", "Leave") \/ TheLast(t, "RecvDec", "OuterLeave")
    BY <1>25, DecEffects
  <2>2. CASE NotTheLast(t, "RecvDec", "Leave")
    BY <1>1, <1>2, <1>3, <1>4, <1>5, <2>2 DEF NotTheLast, GivenBack
  <2>3. CASE TheLast(t, "RecvDec", "OuterLeave")
    BY <1>1, <1>2, <1>3, <1>4, <1>5, <2>3 DEF TheLast, GivenBack
  <2> QED
    BY <2>1, <2>2, <2>3
<1>26. CASE EnterSend(t)
  BY <1>1, <1>2, <1>3, <1>4, <1>5, <1>26 DEF EnterSend, Enter
<1>27. CASE SdMove(t)
  BY <1>1, <1>2, <1>3, <1>4, <1>5, <1>27 DEF SdMove
<1>28. CASE SdPost(t)
  <2>1. Posts(t, "SdPost", "send", "SdDec") \/ Fails(t, "SdPost", "SdUndo")
    BY <1>28, PostEffects
  <2>2. ioCount' = ioCount
    BY <1>28, PostEffects
  <2>3. CASE Posts(t, "SdPost", "send", "SdDec")
    BY <1>1, <1>2, <1>3, <1>4, <1>5, <2>2, <2>3 DEF Posts
  <2>4. CASE Fails(t, "SdPost", "SdUndo")
    BY <1>1, <1>2, <1>3, <1>4, <1>5, <2>2, <2>4 DEF Fails
  <2> QED
    BY <2>1, <2>3, <2>4
<1>29. CASE SdUndo(t)
  <2>1. NotTheLast(t, "SdUndo", "SdDec")
    BY <1>29, DecEffects
  <2> QED
    BY <1>1, <1>2, <1>3, <1>4, <1>5, <2>1 DEF NotTheLast, GivenBack
<1>30. CASE SdDec(t)
  <2>1. NotTheLast(t, "SdDec", "Leave") \/ TheLast(t, "SdDec", "OuterLeave")
    BY <1>30, DecEffects
  <2>2. CASE NotTheLast(t, "SdDec", "Leave")
    BY <1>1, <1>2, <1>3, <1>4, <1>5, <2>2 DEF NotTheLast, GivenBack
  <2>3. CASE TheLast(t, "SdDec", "OuterLeave")
    BY <1>1, <1>2, <1>3, <1>4, <1>5, <2>3 DEF TheLast, GivenBack
  <2> QED
    BY <2>1, <2>2, <2>3
<1>31. CASE AcSocket(t)
  BY <1>1, <1>2, <1>3, <1>4, <1>5, <1>31 DEF AcSocket
<1>32. CASE AcListen(t)
  BY <1>1, <1>2, <1>3, <1>4, <1>5, <1>32 DEF AcListen
<1>33. CASE AcCall(t)
  BY <1>1, <1>2, <1>3, <1>4, <1>5, <1>33 DEF AcCall
<1>34. CASE AcInterrupted(t)
  BY <1>1, <1>2, <1>3, <1>4, <1>5, <1>34 DEF AcInterrupted
<1>35. CASE AcLock(t)
  BY <1>1, <1>2, <1>3, <1>4, <1>5, <1>35 DEF AcLock
<1>36. CASE AcInsert(t)
  BY <1>1, <1>2, <1>3, <1>4, <1>5, <1>36 DEF AcInsert
<1>37. CASE AcPost(t)
  <2>1. Posts(t, "AcPost", "recv", "AcCall") \/ Fails(t, "AcPost", "AcUndo")
    BY <1>37, PostEffects
  <2>2. ioCount' = [ioCount EXCEPT ![cur[t]] = ioCount[cur[t]] + 1]
    BY <1>37, PostEffects
  <2>3. CASE Posts(t, "AcPost", "recv", "AcCall")
    BY <1>1, <1>2, <1>3, <1>4, <1>5, <2>2, <2>3 DEF Posts
  <2>4. CASE Fails(t, "AcPost", "AcUndo")
    BY <1>1, <1>2, <1>3, <1>4, <1>5, <2>2, <2>4 DEF Fails
  <2> QED
    BY <2>1, <2>3, <2>4
<1>38. CASE AcUndo(t)
  <2>1. NotTheLast(t, "AcUndo", "AcBreak") \/ TheLast(t, "AcUndo", "AcBreak")
    BY <1>38, DecEffects
  <2>2. CASE NotTheLast(t, "AcUndo", "AcBreak")
    BY <1>1, <1>2, <1>3, <1>4, <1>5, <2>2 DEF NotTheLast, GivenBack
  <2>3. CASE TheLast(t, "AcUndo", "AcBreak")
    BY <1>1, <1>2, <1>3, <1>4, <1>5, <2>3 DEF TheLast, GivenBack
  <2> QED
    BY <2>1, <2>2, <2>3
<1>39. CASE AcBreak(t)
  BY <1>1, <1>2, <1>3, <1>4, <1>5, <1>39 DEF AcBreak
<1>40. CASE TakeQuit(t)
  BY <1>1, <1>2, <1>3, <1>4, <1>5, <1>40 DEF TakeQuit
<1>41. CASE Accept(t)
  BY <1>1, <1>2, <1>3, <1>4, <1>5, <1>41 DEF Accept
<1>42. ASSUME NEW s1 \in IDs, NEW ty \in IoTypes, Take(t, s1, ty)
  PROVE  CsOK(u)'
  BY <1>1, <1>2, <1>3, <1>4, <1>5, <1>42 DEF Take
<1> QED
  BY <1>10, <1>11, <1>12, <1>13, <1>14, <1>15, <1>16, <1>17, <1>18, <1>19, <1>20, <1>21, <1>22, <1>23, <1>24, <1>25, <1>26, <1>27, <1>28, <1>29, <1>30, <1>31, <1>32, <1>33, <1>34, <1>35, <1>36, <1>37, <1>38, <1>39, <1>40, <1>41, <1>42 DEF Moves, Step

\* There is one receive and one send at a time.
LEMMA MoveTurn ==
  ASSUME EchoInv, NEW t \in Threads, Moves(t), NEW u \in Threads
  PROVE  TurnOK(u)'
<1>1. /\ TypeOK /\ PlaceOK(t) /\ ThereOK(t) /\ AloneOK(t) /\ CsOK(t) /\ TurnOK(t)
      /\ TypeOK' /\ TurnOK(u)
  BY MoveTypes DEF EchoInv
<1>2. \A v \in Threads \ {t} : pc'[v] = pc[v] /\ cur'[v] = cur[v]
  BY OthersStay, <1>1 DEF TypeOK
<1>3. /\ pc[t] \in Serving \cup {"AcUndo"} => ioCount[cur[t]] # 0
      /\ \A v \in Threads : pc[v] \in Serving => ioCount[cur[v]] # 0
      /\ \A s \in IDs, ty \in IoTypes : io[s][ty] # "idle" => ioCount[s] # 0
      /\ \A s \in IDs : io[s]["send"] # "idle" => isSending[s]
  BY Busy DEF EchoInv, SessionOK
<1>4. \A v \in Threads : pc[v] \in Serving => cur[v] \in IDs
  BY DEF EchoInv, ThereOK, Uses
<1>5. \A v \in Threads :
        /\ pc[v] \in RecvTurn => io[cur[v]]["recv"] = "idle"
        /\ pc[v] \in SendTurn => io[cur[v]]["send"] = "idle" /\ isSending[cur[v]]
  BY DEF EchoInv, TurnOK
<1> USE DEF At, Goto, session, locks, system, local, TypeOK, PlaceOK, ThereOK, AloneOK, TurnOK, RecvTurn, SendTurn, IoTypes, Uses, Serving, Working, Accepting, Releasing, Fresh, InSend
<1>10. CASE RelErase(t)
  BY <1>1, <1>2, <1>3, <1>4, <1>5, <1>10 DEF RelErase
<1>11. CASE RelWait(t)
  BY <1>1, <1>2, <1>3, <1>4, <1>5, <1>11 DEF RelWait
<1>12. CASE RelDelete(t)
  BY <1>1, <1>2, <1>3, <1>4, <1>5, <1>12 DEF RelDelete
<1>13. CASE OuterLeave(t)
  BY <1>1, <1>2, <1>3, <1>4, <1>5, <1>13 DEF OuterLeave
<1>14. CASE EnterLost(t)
  BY <1>1, <1>2, <1>3, <1>4, <1>5, <1>14 DEF EnterLost
<1>15. CASE DecLost(t)
  <2>1. NotTheLast(t, "DecLost", "Idle") \/ TheLast(t, "DecLost", "Idle")
    BY <1>15, DecEffects
  <2>2. CASE NotTheLast(t, "DecLost", "Idle")
    BY <1>1, <1>2, <1>3, <1>4, <1>5, <2>2 DEF NotTheLast, GivenBack
  <2>3. CASE TheLast(t, "DecLost", "Idle")
    BY <1>1, <1>2, <1>3, <1>4, <1>5, <2>3 DEF TheLast, GivenBack
  <2> QED
    BY <2>1, <2>2, <2>3
<1>16. CASE Leave(t)
  BY <1>1, <1>2, <1>3, <1>4, <1>5, <1>16 DEF Leave, LeaveAll
<1>17. CASE EnterRecv(t)
  BY <1>1, <1>2, <1>3, <1>4, <1>5, <1>17 DEF EnterRecv, Enter
<1>18. CASE Find(t)
  BY <1>1, <1>2, <1>3, <1>4, <1>5, <1>18 DEF Find
<1>19. CASE SpLock(t)
  BY <1>1, <1>2, <1>3, <1>4, <1>5, <1>19 DEF SpLock
<1>20. CASE SpEnter(t)
  BY <1>1, <1>2, <1>3, <1>4, <1>5, <1>20 DEF SpEnter
<1>21. CASE SpEnqueue(t)
  BY <1>1, <1>2, <1>3, <1>4, <1>5, <1>21 DEF SpEnqueue
<1>22. CASE SpPost(t)
  <2>1. Posts(t, "SpPost", "send", "RecvLoop") \/ Fails(t, "SpPost", "SpUndo")
    BY <1>22, PostEffects
  <2>2. ioCount' = ioCount
    BY <1>22, PostEffects
  <2>3. CASE Posts(t, "SpPost", "send", "RecvLoop")
    BY <1>1, <1>2, <1>3, <1>4, <1>5, <2>2, <2>3 DEF Posts
  <2>4. CASE Fails(t, "SpPost", "SpUndo")
    BY <1>1, <1>2, <1>3, <1>4, <1>5, <2>2, <2>4 DEF Fails
  <2> QED
    BY <2>1, <2>3, <2>4
<1>23. CASE SpUndo(t)
  <2>1. NotTheLast(t, "SpUndo", "RecvLoop")
    BY <1>23, DecEffects
  <2> QED
    BY <1>1, <1>2, <1>3, <1>4, <1>5, <2>1 DEF NotTheLast, GivenBack
<1>24. CASE RecvPost(t)
  <2>1. Posts(t, "RecvLoop", "recv", "Leave") \/ Fails(t, "RecvLoop", "RecvDec")
    BY <1>24, PostEffects
  <2>2. ioCount' = ioCount
    BY <1>24, PostEffects
  <2>3. CASE Posts(t, "RecvLoop", "recv", "Leave")
    BY <1>1, <1>2, <1>3, <1>4, <1>5, <2>2, <2>3 DEF Posts
  <2>4. CASE Fails(t, "RecvLoop", "RecvDec")
    BY <1>1, <1>2, <1>3, <1>4, <1>5, <2>2, <2>4 DEF Fails
  <2> QED
    BY <2>1, <2>3, <2>4
<1>25. CASE RecvDec(t)
  <2>1. NotTheLast(t, "RecvDec", "Leave") \/ TheLast(t, "RecvDec", "OuterLeave")
    BY <1>25, DecEffects
  <2>2. CASE NotTheLast(t, "RecvDec", "Leave")
    BY <1>1, <1>2, <1>3, <1>4, <1>5, <2>2 DEF NotTheLast, GivenBack
  <2>3. CASE TheLast(t, "RecvDec", "OuterLeave")
    BY <1>1, <1>2, <1>3, <1>4, <1>5, <2>3 DEF TheLast, GivenBack
  <2> QED
    BY <2>1, <2>2, <2>3
<1>26. CASE EnterSend(t)
  BY <1>1, <1>2, <1>3, <1>4, <1>5, <1>26 DEF EnterSend, Enter
<1>27. CASE SdMove(t)
  BY <1>1, <1>2, <1>3, <1>4, <1>5, <1>27 DEF SdMove
<1>28. CASE SdPost(t)
  <2>1. Posts(t, "SdPost", "send", "SdDec") \/ Fails(t, "SdPost", "SdUndo")
    BY <1>28, PostEffects
  <2>2. ioCount' = ioCount
    BY <1>28, PostEffects
  <2>3. CASE Posts(t, "SdPost", "send", "SdDec")
    BY <1>1, <1>2, <1>3, <1>4, <1>5, <2>2, <2>3 DEF Posts
  <2>4. CASE Fails(t, "SdPost", "SdUndo")
    BY <1>1, <1>2, <1>3, <1>4, <1>5, <2>2, <2>4 DEF Fails
  <2> QED
    BY <2>1, <2>3, <2>4
<1>29. CASE SdUndo(t)
  <2>1. NotTheLast(t, "SdUndo", "SdDec")
    BY <1>29, DecEffects
  <2> QED
    BY <1>1, <1>2, <1>3, <1>4, <1>5, <2>1 DEF NotTheLast, GivenBack
<1>30. CASE SdDec(t)
  <2>1. NotTheLast(t, "SdDec", "Leave") \/ TheLast(t, "SdDec", "OuterLeave")
    BY <1>30, DecEffects
  <2>2. CASE NotTheLast(t, "SdDec", "Leave")
    BY <1>1, <1>2, <1>3, <1>4, <1>5, <2>2 DEF NotTheLast, GivenBack
  <2>3. CASE TheLast(t, "SdDec", "OuterLeave")
    BY <1>1, <1>2, <1>3, <1>4, <1>5, <2>3 DEF TheLast, GivenBack
  <2> QED
    BY <2>1, <2>2, <2>3
<1>31. CASE AcSocket(t)
  BY <1>1, <1>2, <1>3, <1>4, <1>5, <1>31 DEF AcSocket
<1>32. CASE AcListen(t)
  BY <1>1, <1>2, <1>3, <1>4, <1>5, <1>32 DEF AcListen
<1>33. CASE AcCall(t)
  BY <1>1, <1>2, <1>3, <1>4, <1>5, <1>33 DEF AcCall
<1>34. CASE AcInterrupted(t)
  BY <1>1, <1>2, <1>3, <1>4, <1>5, <1>34 DEF AcInterrupted
<1>35. CASE AcLock(t)
  BY <1>1, <1>2, <1>3, <1>4, <1>5, <1>35 DEF AcLock
<1>36. CASE AcInsert(t)
  BY <1>1, <1>2, <1>3, <1>4, <1>5, <1>36 DEF AcInsert
<1>37. CASE AcPost(t)
  <2>1. Posts(t, "AcPost", "recv", "AcCall") \/ Fails(t, "AcPost", "AcUndo")
    BY <1>37, PostEffects
  <2>2. ioCount' = [ioCount EXCEPT ![cur[t]] = ioCount[cur[t]] + 1]
    BY <1>37, PostEffects
  <2>3. CASE Posts(t, "AcPost", "recv", "AcCall")
    BY <1>1, <1>2, <1>3, <1>4, <1>5, <2>2, <2>3 DEF Posts
  <2>4. CASE Fails(t, "AcPost", "AcUndo")
    BY <1>1, <1>2, <1>3, <1>4, <1>5, <2>2, <2>4 DEF Fails
  <2> QED
    BY <2>1, <2>3, <2>4
<1>38. CASE AcUndo(t)
  <2>1. NotTheLast(t, "AcUndo", "AcBreak") \/ TheLast(t, "AcUndo", "AcBreak")
    BY <1>38, DecEffects
  <2>2. CASE NotTheLast(t, "AcUndo", "AcBreak")
    BY <1>1, <1>2, <1>3, <1>4, <1>5, <2>2 DEF NotTheLast, GivenBack
  <2>3. CASE TheLast(t, "AcUndo", "AcBreak")
    BY <1>1, <1>2, <1>3, <1>4, <1>5, <2>3 DEF TheLast, GivenBack
  <2> QED
    BY <2>1, <2>2, <2>3
<1>39. CASE AcBreak(t)
  BY <1>1, <1>2, <1>3, <1>4, <1>5, <1>39 DEF AcBreak
<1>40. CASE TakeQuit(t)
  BY <1>1, <1>2, <1>3, <1>4, <1>5, <1>40 DEF TakeQuit
<1>41. CASE Accept(t)
  BY <1>1, <1>2, <1>3, <1>4, <1>5, <1>41 DEF Accept
<1>42. ASSUME NEW s1 \in IDs, NEW ty \in IoTypes, Take(t, s1, ty)
  PROVE  TurnOK(u)'
  BY <1>1, <1>2, <1>3, <1>4, <1>5, <1>42 DEF Take
<1> QED
  BY <1>10, <1>11, <1>12, <1>13, <1>14, <1>15, <1>16, <1>17, <1>18, <1>19, <1>20, <1>21, <1>22, <1>23, <1>24, <1>25, <1>26, <1>27, <1>28, <1>29, <1>30, <1>31, <1>32, <1>33, <1>34, <1>35, <1>36, <1>37, <1>38, <1>39, <1>40, <1>41, <1>42 DEF Moves, Step

\* Operations are on sessions that are there, and these are in the map.
LEMMA MoveSession ==
  ASSUME EchoInv, NEW t \in Threads, Moves(t), NEW s \in IDs
  PROVE  SessionOK(s)'
<1>1. /\ TypeOK /\ PlaceOK(t) /\ ThereOK(t) /\ AloneOK(t) /\ CsOK(t) /\ TurnOK(t)
      /\ TypeOK' /\ SessionOK(s) /\ PlaceOK(Acceptor) /\ Acceptor \in Threads
  BY MoveTypes DEF EchoInv, Threads
<1>2. \A v \in Threads \ {t} : pc'[v] = pc[v] /\ cur'[v] = cur[v]
  BY OthersStay, <1>1 DEF TypeOK
<1>3. /\ pc[t] \in Serving \cup {"AcUndo"} => ioCount[cur[t]] # 0
      /\ \A r \in IDs, ty \in IoTypes : io[r][ty] # "idle" => ioCount[r] # 0
  BY Busy
<1>4. pc[t] = "RelErase" => cur[t] \in sessionMap
  BY InMap
<1> USE DEF At, Goto, session, locks, system, local, TypeOK, PlaceOK, ThereOK, AloneOK, SessionOK, TurnOK, RecvTurn, SendTurn, IoTypes, Uses, Serving, Working, Accepting, Releasing, Fresh, InSend
<1>10. CASE RelErase(t)
  BY <1>1, <1>2, <1>3, <1>4, <1>10 DEF RelErase
<1>11. CASE RelWait(t)
  BY <1>1, <1>2, <1>3, <1>4, <1>11 DEF RelWait
<1>12. CASE RelDelete(t)
  <2>1. cur[t] \in IDs /\ \A ty \in IoTypes : io[cur[t]][ty] = "idle"
    BY <1>1, <1>3, <1>12 DEF RelDelete
  <2>2. CASE s = cur[t]
    BY <1>1, <2>1, <2>2, <1>12 DEF RelDelete
  <2>3. CASE s # cur[t]
    <3>1. UNCHANGED <<io, isSending[s], object[s], ioCount, sessionMap>>
      BY <1>1, <2>1, <2>3, <1>12 DEF RelDelete
    <3>2. ASSUME object[s] = "alive"
          PROVE  \/ s \in sessionMap
                 \/ pc'[Acceptor] \in {"AcLock", "AcInsert"} /\ cur'[Acceptor] = s
                 \/ \E v \in Threads : pc'[v] \in {"RelWait", "RelDelete"} /\ cur'[v] = s
      <4>1. CASE pc[Acceptor] \in {"AcLock", "AcInsert"} /\ cur[Acceptor] = s
        BY <1>1, <1>2, <2>3, <4>1
      <4>2. ASSUME NEW v \in Threads, pc[v] \in {"RelWait", "RelDelete"}, cur[v] = s
            PROVE  pc'[v] \in {"RelWait", "RelDelete"} /\ cur'[v] = s
        BY <1>2, <2>3, <4>2
      <4> QED
        BY <1>1, <3>2, <4>1, <4>2
    <3> QED
      BY <1>1, <3>1, <3>2
  <2> QED
    BY <2>2, <2>3
<1>13. CASE OuterLeave(t)
  BY <1>1, <1>2, <1>3, <1>4, <1>13 DEF OuterLeave
<1>14. CASE EnterLost(t)
  BY <1>1, <1>2, <1>3, <1>4, <1>14 DEF EnterLost
<1>15. CASE DecLost(t)
  <2>1. NotTheLast(t, "DecLost", "Idle") \/ TheLast(t, "DecLost", "Idle")
    BY <1>15, DecEffects
  <2>2. CASE NotTheLast(t, "DecLost", "Idle")
    BY <1>1, <1>2, <1>3, <1>4, <2>2 DEF NotTheLast, GivenBack
  <2>3. CASE TheLast(t, "DecLost", "Idle")
    BY <1>1, <1>2, <1>3, <1>4, <2>3 DEF TheLast, GivenBack
  <2> QED
    BY <2>1, <2>2, <2>3
<1>16. CASE Leave(t)
  BY <1>1, <1>2, <1>3, <1>4, <1>16 DEF Leave, LeaveAll
<1>17. CASE EnterRecv(t)
  BY <1>1, <1>2, <1>3, <1>4, <1>17 DEF EnterRecv, Enter
<1>18. CASE Find(t)
  BY <1>1, <1>2, <1>3, <1>4, <1>18 DEF Find
<1>19. CASE SpLock(t)
  BY <1>1, <1>2, <1>3, <1>4, <1>19 DEF SpLock
<1>20. CASE SpEnter(t)
  BY <1>1, <1>2, <1>3, <1>4, <1>20 DEF SpEnter
<1>21. CASE SpEnqueue(t)
  BY <1>1, <1>2, <1>3, <1>4, <1>21 DEF SpEnqueue
<1>22. CASE SpPost(t)
  <2>1. Posts(t, "SpPost", "send", "RecvLoop") \/ Fails(t, "SpPost", "SpUndo")
    BY <1>22, PostEffects
  <2>2. ioCount' = ioCount
    BY <1>22, PostEffects
  <2>3. CASE Posts(t, "SpPost", "send", "RecvLoop")
    BY <1>1, <1>2, <1>3, <1>4, <2>2, <2>3 DEF Posts
  <2>4. CASE Fails(t, "SpPost", "SpUndo")
    BY <1>1, <1>2, <1>3, <1>4, <2>2, <2>4 DEF Fails
  <2> QED
    BY <2>1, <2>3, <2>4
<1>23. CASE SpUndo(t)
  <2>1. NotTheLast(t, "SpUndo", "RecvLoop")
    BY <1>23, DecEffects
  <2> QED
    BY <1>1, <1>2, <1>3, <1>4, <2>1 DEF NotTheLast, GivenBack
<1>24. CASE RecvPost(t)
  <2>1. Posts(t, "RecvLoop", "recv", "Leave") \/ Fails(t, "RecvLoop", "RecvDec")
    BY <1>24, PostEffects
  <2>2. ioCount' = ioCount
    BY <1>24, PostEffects
  <2>3. CASE Posts(t, "RecvLoop", "recv", "Leave")
    BY <1>1, <1>2, <1>3, <1>4, <2>2, <2>3 DEF Posts
  <2>4. CASE Fails(t, "RecvLoop", "RecvDec")
    BY <1>1, <1>2, <1>3, <1>4, <2>2, <2>4 DEF Fails
  <2> QED
    BY <2>1, <2>3, <2>4
<1>25. CASE RecvDec(t)
  <2>1. NotTheLast(t, "RecvDec", "Leave") \/ TheLast(t, "RecvDec", "OuterLeave")
    BY <1>25, DecEffects
  <2>2. CASE NotTheLast(t, "RecvDec", "Leave")
    BY <1>1, <1>2, <1>3, <1>4, <2>2 DEF NotTheLast, GivenBack
  <2>3. CASE TheLast(t, "RecvDec", "OuterLeave")
    BY <1>1, <1>2, <1>3, <1>4, <2>3 DEF TheLast, GivenBack
  <2> QED
    BY <2>1, <2>2, <2>3
<1>26. CASE EnterSend(t)
  BY <1>1, <1>2, <1>3, <1>4, <1>26 DEF EnterSend, Enter
<1>27. CASE SdMove(t)
  BY <1>1, <1>2, <1>3, <1>4, <1>27 DEF SdMove
<1>28. CASE SdPost(t)
  <2>1. Posts(t, "SdPost", "send", "SdDec") \/ Fails(t, "SdPost", "SdUndo")
    BY <1>28, PostEffects
  <2>2. ioCount' = ioCount
    BY <1>28, PostEffects
  <2>3. CASE Posts(t, "SdPost", "send", "SdDec")
    BY <1>1, <1>2, <1>3, <1>4, <2>2, <2>3 DEF Posts
  <2>4. CASE Fails(t, "SdPost", "SdUndo")
    BY <1>1, <1>2, <1>3, <1>4, <2>2, <2>4 DEF Fails
  <2> QED
    BY <2>1, <2>3, <2>4
<1>29. CASE SdUndo(t)
  <2>1. NotTheLast(t, "SdUndo", "SdDec")
    BY <1>29, DecEffects
  <2> QED
    BY <1>1, <1>2, <1>3, <1>4, <2>1 DEF NotTheLast, GivenBack
<1>30. CASE SdDec(t)
  <2>1. NotTheLast(t, "SdDec", "Leave") \/ TheLast(t, "SdDec", "OuterLeave")
    BY <1>30, DecEffects
  <2>2. CASE NotTheLast(t, "SdDec", "Leave")
    BY <1>1, <1>2, <1>3, <1>4, <2>2 DEF NotTheLast, GivenBack
  <2>3. CASE TheLast(t, "SdDec", "OuterLeave")
    BY <1>1, <1>2, <1>3, <1>4, <2>3 DEF TheLast, GivenBack
  <2> QED
    BY <2>1, <2>2, <2>3
<1>31. CASE AcSocket(t)
  BY <1>1, <1>2, <1>3, <1>4, <1>31 DEF AcSocket
<1>32. CASE AcListen(t)
  BY <1>1, <1>2, <1>3, <1>4, <1>32 DEF AcListen
<1>33. CASE AcCall(t)
  BY <1>1, <1>2, <1>3, <1>4, <1>33 DEF AcCall
<1>34. CASE AcInterrupted(t)
  BY <1>1, <1>2, <1>3, <1>4, <1>34 DEF AcInterrupted
<1>35. CASE AcLock(t)
  BY <1>1, <1>2, <1>3, <1>4, <1>35 DEF AcLock
<1>36. CASE AcInsert(t)
  BY <1>1, <1>2, <1>3, <1>4, <1>36 DEF AcInsert
<1>37. CASE AcPost(t)
  <2>1. Posts(t, "AcPost", "recv", "AcCall") \/ Fails(t, "AcPost", "AcUndo")
    BY <1>37, PostEffects
  <2>2. ioCount' = [ioCount EXCEPT ![cur[t]] = ioCount[cur[t]] + 1]
    BY <1>37, PostEffects
  <2>3. CASE Posts(t, "AcPost", "recv", "AcCall")
    BY <1>1, <1>2, <1>3, <1>4, <2>2, <2>3 DEF Posts
  <2>4. CASE Fails(t, "AcPost", "AcUndo")
    BY <1>1, <1>2, <1>3, <1>4, <2>2, <2>4 DEF Fails
  <2> QED
    BY <2>1, <2>3, <2>4
<1>38. CASE AcUndo(t)
  <2>1. NotTheLast(t, "AcUndo", "AcBreak") \/ TheLast(t, "AcUndo", "AcBreak")
    BY <1>38, DecEffects
  <2>2. CASE NotTheLast(t, "AcUndo", "AcBreak")
    BY <1>1, <1>2, <1>3, <1>4, <2>2 DEF NotTheLast, GivenBack
  <2>3. CASE TheLast(t, "AcUndo", "AcBreak")
    BY <1>1, <1>2, <1>3, <1>4, <2>3 DEF TheLast, GivenBack
  <2> QED
    BY <2>1, <2>2, <2>3
<1>39. CASE AcBreak(t)
  BY <1>1, <1>2, <1>3, <1>4, <1>39 DEF AcBreak
<1>40. CASE TakeQuit(t)
  BY <1>1, <1>2, <1>3, <1>4, <1>40 DEF TakeQuit
<1>41. CASE Accept(t)
  BY <1>1, <1>2, <1>3, <1>4, <1>41 DEF Accept
<1>42. ASSUME NEW s1 \in IDs, NEW ty \in IoTypes, Take(t, s1, ty)
  PROVE  SessionOK(s)'
  BY <1>1, <1>2, <1>3, <1>4, <1>42 DEF Take
<1> QED
  BY <1>10, <1>11, <1>12, <1>13, <1>14, <1>15, <1>16, <1>17, <1>18, <1>19, <1>20, <1>21, <1>22, <1>23, <1>24, <1>25, <1>26, <1>27, <1>28, <1>29, <1>30, <1>31, <1>32, <1>33, <1>34, <1>35, <1>36, <1>37, <1>38, <1>39, <1>40, <1>41, <1>42 DEF Moves, Step

Balanced(t, s) ==
  /\ Owed(t, s)' - Owed(t, s) \in {-1, 0, 1}
  /\ ioCount'[s] = ioCount[s] + (Owed(t, s)' - Owed(t, s))
                     + (Flight(s, "recv")' - Flight(s, "recv"))
                     + (Flight(s, "send")' - Flight(s, "send"))

\* What a step does to ioCount is what it does to the references of the thread
\* and to the operations in flight.
LEMMA MoveBalance ==
  ASSUME EchoInv, NEW t \in Threads, Moves(t), NEW s \in IDs
  PROVE  Balanced(t, s)
<1>1. /\ TypeOK /\ PlaceOK(t) /\ ThereOK(t) /\ AloneOK(t) /\ TurnOK(t) /\ TypeOK'
  BY MoveTypes DEF EchoInv
<1>2. pc[t] = "AcPost" => io[cur[t]]["recv"] = "idle"
  <2>1. pc[t] = "AcPost" => cur[t] \in IDs /\ ioCount[cur[t]] = 0
    BY <1>1 DEF ThereOK, AloneOK, Uses, Fresh
  <2> QED
    BY <2>1, Busy DEF IoTypes
<1> USE DEF At, Goto, session, locks, system, local, TypeOK, PlaceOK, ThereOK, AloneOK, TurnOK, RecvTurn, SendTurn, IoTypes, Balanced, Owed, Flight, Held, Uses, Serving, Working, Accepting, Releasing, Fresh, InSend
<1>10. CASE RelErase(t)
  BY <1>1, <1>2, <1>10 DEF RelErase
<1>11. CASE RelWait(t)
  BY <1>1, <1>2, <1>11 DEF RelWait
<1>12. CASE RelDelete(t)
  BY <1>1, <1>2, <1>12 DEF RelDelete
<1>13. CASE OuterLeave(t)
  BY <1>1, <1>2, <1>13 DEF OuterLeave
<1>14. CASE EnterLost(t)
  BY <1>1, <1>2, <1>14 DEF EnterLost
<1>15. CASE DecLost(t)
  <2>1. NotTheLast(t, "DecLost", "Idle") \/ TheLast(t, "DecLost", "Idle")
    BY <1>15, DecEffects
  <2>2. CASE NotTheLast(t, "DecLost", "Idle")
    BY <1>1, <1>2, <2>2 DEF NotTheLast, GivenBack
  <2>3. CASE TheLast(t, "DecLost", "Idle")
    BY <1>1, <1>2, <2>3 DEF TheLast, GivenBack
  <2> QED
    BY <2>1, <2>2, <2>3
<1>16. CASE Leave(t)
  BY <1>1, <1>2, <1>16 DEF Leave, LeaveAll
<1>17. CASE EnterRecv(t)
  BY <1>1, <1>2, <1>17 DEF EnterRecv, Enter
<1>18. CASE Find(t)
  BY <1>1, <1>2, <1>18 DEF Find
<1>19. CASE SpLock(t)
  BY <1>1, <1>2, <1>19 DEF SpLock
<1>20. CASE SpEnter(t)
  BY <1>1, <1>2, <1>20 DEF SpEnter
<1>21. CASE SpEnqueue(t)
  BY <1>1, <1>2, <1>21 DEF SpEnqueue
<1>22. CASE SpPost(t)
  <2>1. Posts(t, "SpPost", "send", "RecvLoop") \/ Fails(t, "SpPost", "SpUndo")
    BY <1>22, PostEffects
  <2>2. ioCount' = ioCount
    BY <1>22, PostEffects
  <2>3. CASE Posts(t, "SpPost", "send", "RecvLoop")
    BY <1>1, <1>2, <2>2, <2>3 DEF Posts
  <2>4. CASE Fails(t, "SpPost", "SpUndo")
    BY <1>1, <1>2, <2>2, <2>4 DEF Fails
  <2> QED
    BY <2>1, <2>3, <2>4
<1>23. CASE SpUndo(t)
  <2>1. NotTheLast(t, "SpUndo", "RecvLoop")
    BY <1>23, DecEffects
  <2> QED
    BY <1>1, <1>2, <2>1 DEF NotTheLast, GivenBack
<1>24. CASE RecvPost(t)
  <2>1. Posts(t, "RecvLoop", "recv", "Leave") \/ Fails(t, "RecvLoop", "RecvDec")
    BY <1>24, PostEffects
  <2>2. ioCount' = ioCount
    BY <1>24, PostEffects
  <2>3. CASE Posts(t, "RecvLoop", "recv", "Leave")
    <3>1. cur[t] \in IDs /\ io[cur[t]]["recv"] = "idle" /\ ioCount[s] \in Int
      BY <1>1, <1>2, <2>3 DEF Posts
    <3>2. /\ Flight(s, "send")' = Flight(s, "send") /\ Flight(s, "send") \in {0, 1}
          /\ Flight(s, "recv")' = IF s = cur[t] THEN Flight(s, "recv") + 1 ELSE Flight(s, "recv")
          /\ Flight(s, "recv") \in {0, 1}
      BY <1>1, <2>3, <3>1 DEF Posts
    <3>3. pc[t] = "RecvLoop" /\ pc'[t] = "Leave" /\ cur' = cur /\ s \in IDs /\ ioCount \in [IDs -> Int]
      BY <1>1, <2>3 DEF Posts
    <3>4. Owed(t, s)' = IF s = cur[t] THEN Owed(t, s) - 1 ELSE Owed(t, s)
      BY <3>3
    <3>5. ioCount'[s] = ioCount[s]
      BY <2>2, <3>3
    <3>6. Owed(t, s) \in 0 .. 2
      BY OwedType
    <3> HIDE DEF Owed, Flight
    <3> QED
      BY <3>1, <3>2, <3>4, <3>5, <3>6
  <2>4. CASE Fails(t, "RecvLoop", "RecvDec")
    BY <1>1, <1>2, <2>2, <2>4 DEF Fails
  <2> QED
    BY <2>1, <2>3, <2>4
<1>25. CASE RecvDec(t)
  <2>1. NotTheLast(t, "RecvDec", "Leave") \/ TheLast(t, "RecvDec", "OuterLeave")
    BY <1>25, DecEffects
  <2>2. CASE NotTheLast(t, "RecvDec", "Leave")
    BY <1>1, <1>2, <2>2 DEF NotTheLast, GivenBack
  <2>3. CASE TheLast(t, "RecvDec", "OuterLeave")
    BY <1>1, <1>2, <2>3 DEF TheLast, GivenBack
  <2> QED
    BY <2>1, <2>2, <2>3
<1>26. CASE EnterSend(t)
  BY <1>1, <1>2, <1>26 DEF EnterSend, Enter
<1>27. CASE SdMove(t)
  BY <1>1, <1>2, <1>27 DEF SdMove
<1>28. CASE SdPost(t)
  <2>1. Posts(t, "SdPost", "send", "SdDec") \/ Fails(t, "SdPost", "SdUndo")
    BY <1>28, PostEffects
  <2>2. ioCount' = ioCount
    BY <1>28, PostEffects
  <2>3. CASE Posts(t, "SdPost", "send", "SdDec")
    BY <1>1, <1>2, <2>2, <2>3 DEF Posts
  <2>4. CASE Fails(t, "SdPost", "SdUndo")
    BY <1>1, <1>2, <2>2, <2>4 DEF Fails
  <2> QED
    BY <2>1, <2>3, <2>4
<1>29. CASE SdUndo(t)
  <2>1. NotTheLast(t, "SdUndo", "SdDec")
    BY <1>29, DecEffects
  <2> QED
    BY <1>1, <1>2, <2>1 DEF NotTheLast, GivenBack
<1>30. CASE SdDec(t)
  <2>1. NotTheLast(t, "SdDec", "Leave") \/ TheLast(t, "SdDec", "OuterLeave")
    BY <1>30, DecEffects
  <2>2. CASE NotTheLast(t, "SdDec", "Leave")
    BY <1>1, <1>2, <2>2 DEF NotTheLast, GivenBack
  <2>3. CASE TheLast(t, "SdDec", "OuterLeave")
    BY <1>1, <1>2, <2>3 DEF TheLast, GivenBack
  <2> QED
    BY <2>1, <2>2, <2>3
<1>31. CASE AcSocket(t)
  BY <1>1, <1>2, <1>31 DEF AcSocket
<1>32. CASE AcListen(t)
  BY <1>1, <1>2, <1>32 DEF AcListen
<1>33. CASE AcCall(t)
  BY <1>1, <1>2, <1>33 DEF AcCall
<1>34. CASE AcInterrupted(t)
  BY <1>1, <1>2, <1>34 DEF AcInterrupted
<1>35. CASE AcLock(t)
  BY <1>1, <1>2, <1>35 DEF AcLock
<1>36. CASE AcInsert(t)
  BY <1>1, <1>2, <1>36 DEF AcInsert
<1>37. CASE AcPost(t)
  <2>1. Posts(t, "AcPost", "recv", "AcCall") \/ Fails(t, "AcPost", "AcUndo")
    BY <1>37, PostEffects
  <2>2. ioCount' = [ioCount EXCEPT ![cur[t]] = ioCount[cur[t]] + 1]
    BY <1>37, PostEffects
  <2>3. CASE Posts(t, "AcPost", "recv", "AcCall")
    <3>1. cur[t] \in IDs /\ io[cur[t]]["recv"] = "idle" /\ ioCount[s] \in Int
      BY <1>1, <1>2, <2>3 DEF Posts
    <3>2. /\ Flight(s, "send")' = Flight(s, "send") /\ Flight(s, "send") \in {0, 1}
          /\ Flight(s, "recv")' = IF s = cur[t] THEN Flight(s, "recv") + 1 ELSE Flight(s, "recv")
          /\ Flight(s, "recv") \in {0, 1}
      BY <1>1, <2>3, <3>1 DEF Posts
    <3>3. pc[t] = "AcPost" /\ pc'[t] = "AcCall" /\ cur' = cur /\ s \in IDs /\ ioCount \in [IDs -> Int]
      BY <1>1, <2>3 DEF Posts
    <3>4. Owed(t, s)' = Owed(t, s)
      BY <3>3
    <3>5. ioCount'[s] = IF s = cur[t] THEN ioCount[s] + 1 ELSE ioCount[s]
      BY <2>2, <3>3
    <3>6. Owed(t, s) \in 0 .. 2
      BY OwedType
    <3> HIDE DEF Owed, Flight
    <3> QED
      BY <3>1, <3>2, <3>4, <3>5, <3>6
  <2>4. CASE Fails(t, "AcPost", "AcUndo")
    BY <1>1, <1>2, <2>2, <2>4 DEF Fails
  <2> QED
    BY <2>1, <2>3, <2>4
<1>38. CASE AcUndo(t)
  <2>1. NotTheLast(t, "AcUndo", "AcBreak") \/ TheLast(t, "AcUndo", "AcBreak")
    BY <1>38, DecEffects
  <2>2. CASE NotTheLast(t, "AcUndo", "AcBreak")
    BY <1>1, <1>2, <2>2 DEF NotTheLast, GivenBack
  <2>3. CASE TheLast(t, "AcUndo", "AcBreak")
    BY <1>1, <1>2, <2>3 DEF TheLast, GivenBack
  <2> QED
    BY <2>1, <2>2, <2>3
<1>39. CASE AcBreak(t)
  BY <1>1, <1>2, <1>39 DEF AcBreak
<1>40. CASE TakeQuit(t)
  BY <1>1, <1>2, <1>40 DEF TakeQuit
<1>41. CASE Accept(t)
  BY <1>1, <1>2, <1>41 DEF Accept
<1>42. ASSUME NEW s1 \in IDs, NEW ty \in IoTypes, Take(t, s1, ty)
  PROVE  Balanced(t, s)
  <2>1. /\ pc[t] = "Idle" /\ io[s1][ty] # "idle" /\ cur' = [cur EXCEPT ![t] = s1]
        /\ io' = [io EXCEPT ![s1] = [io[s1] EXCEPT ![ty] = "idle"]]
        /\ pc'[t] \in {"EnterLost", "EnterRecv", "EnterSend"} /\ ioCount' = ioCount
    BY <1>1, <1>42 DEF Take
  <2>2. Owed(t, s) = 0 /\ Owed(t, s)' = IF s = s1 THEN 1 ELSE 0
    BY <1>1, <2>1
  <2>3. \A x \in IoTypes : /\ Flight(s, x) \in {0, 1}
                           /\ Flight(s, x)' = IF s = s1 /\ x = ty THEN Flight(s, x) - 1 ELSE Flight(s, x)
    BY <1>1, <2>1
  <2>4. ioCount[s] \in Int
    BY <1>1
  <2> HIDE DEF Owed, Flight
  <2> QED
    BY <2>1, <2>2, <2>3, <2>4
<1> QED
  BY <1>10, <1>11, <1>12, <1>13, <1>14, <1>15, <1>16, <1>17, <1>18, <1>19, <1>20, <1>21, <1>22, <1>23, <1>24, <1>25, <1>26, <1>27, <1>28, <1>29, <1>30, <1>31, <1>32, <1>33, <1>34, <1>35, <1>36, <1>37, <1>38, <1>39, <1>40, <1>41, <1>42 DEF Moves, Step

\* ioCount stays exact.
LEMMA MoveCount ==
  ASSUME EchoInv, NEW t \in Threads, Moves(t)
  PROVE  CountExact'
<1>1. ASSUME NEW s \in IDs
      PROVE  ioCount'[s] = Cardinality(ThreadRefs(s)') + Cardinality(InFlight(s)')
  <2>1. Balanced(t, s)
    BY MoveBalance
  <2>2. \A u \in Threads \ {t} : Owed(u, s)' = Owed(u, s)
    <3>1. TypeOK
      BY DEF EchoInv
    <3>2. \A u \in Threads \ {t} : pc'[u] = pc[u] /\ cur'[u] = cur[u]
      BY <3>1, OthersStay DEF TypeOK
    <3> QED
      BY <3>2 DEF Owed, Held
  <2>3. ioCount[s] = Cardinality(ThreadRefs(s)) + Cardinality(InFlight(s))
    BY DEF EchoInv, CountExact, InFlight
  <2>4. Owed(t, s) \in 0 .. 2 /\ Owed(t, s)' \in 0 .. 2
    BY OwedType
  <2>5. /\ Flight(s, "recv") \in Int /\ Flight(s, "send") \in Int
        /\ Flight(s, "recv")' \in Int /\ Flight(s, "send")' \in Int
    BY DEF Flight
  <2>6. Owed(t, s)' - Owed(t, s) \in {-1, 0, 1}
    BY <2>1 DEF Balanced
  <2>7. ioCount'[s] = ioCount[s] + (Owed(t, s)' - Owed(t, s))
                        + (Flight(s, "recv")' - Flight(s, "recv"))
                        + (Flight(s, "send")' - Flight(s, "send"))
    BY <2>1 DEF Balanced
  <2> HIDE DEF Owed, Flight
  <2>8. Cardinality(ThreadRefs(s)') = Cardinality(ThreadRefs(s)) + (Owed(t, s)' - Owed(t, s))
    BY <2>2, <2>6, RefsMove
  <2>9. Cardinality(ThreadRefs(s)) \in Nat
    BY ThreadRefsFinite
  <2> QED
    BY <2>3, <2>4, <2>5, <2>7, <2>8, <2>9, FlightCount
<1> QED
  BY <1>1 DEF CountExact, InFlight

----------------------------------------------------------------------------
(***************************************************************************)
(* Windows, the peers, main, and the theorems.                             *)
(***************************************************************************)

\* Nothing of the sessions and of their threads changes, but how far operations
\* in flight have come.
Outside ==
  /\ UNCHANGED <<object, ioCount, isSending, owner, sessionMap, cur, back>>
  /\ \A t \in Threads : pc'[t] = pc[t]
  /\ \A s \in IDs, ty \in IoTypes : io'[s][ty] = "idle" <=> io[s][ty] = "idle"

LEMMA OutsideKeeps ==
  ASSUME EchoInv, Outside, TypeOK'
  PROVE  EchoInv'
<1>1. CountExact'
  <2>1. \A s \in IDs : ThreadRefs(s)' = ThreadRefs(s)
    BY DEF Outside, ThreadRefs, Held
  <2>2. \A s \in IDs : InFlight(s)' = InFlight(s)
    BY DEF Outside, InFlight
  <2>3. ioCount' = ioCount
    BY DEF Outside
  <2> QED
    BY <2>1, <2>2, <2>3 DEF EchoInv, CountExact, InFlight
<1>2. ASSUME NEW t \in Threads
      PROVE  (PlaceOK(t) /\ ThereOK(t) /\ AloneOK(t) /\ CsOK(t) /\ TurnOK(t))'
  <2>1. PlaceOK(t) /\ ThereOK(t) /\ AloneOK(t) /\ CsOK(t) /\ TurnOK(t)
    BY DEF EchoInv
  <2>2. PlaceOK(t)'
    BY <2>1 DEF Outside, PlaceOK
  <2>3. ThereOK(t)'
    BY <2>1 DEF Outside, ThereOK, Uses
  <2>4. AloneOK(t)'
    BY <2>1 DEF Outside, AloneOK
  <2>5. CsOK(t)'
    BY <2>1 DEF Outside, CsOK, InCs
  <2>6. TurnOK(t)'
    <3>1. pc[t] \in RecvTurn \cup SendTurn => cur[t] \in IDs
      BY <2>1 DEF ThereOK, RecvTurn, SendTurn, Uses, Serving, InSend
    <3> QED
      BY <2>1, <3>1 DEF Outside, TurnOK, IoTypes
  <2> QED
    BY <2>2, <2>3, <2>4, <2>5, <2>6
<1>3. ASSUME NEW s \in IDs
      PROVE  SessionOK(s)'
  <2>1. SessionOK(s) /\ Acceptor \in Threads /\ "send" \in IoTypes
    BY DEF EchoInv, Threads, IoTypes
  <2> QED
    BY <2>1 DEF Outside, SessionOK
<1> QED
  BY <1>1, <1>2, <1>3 DEF EchoInv

LEMMA SystemStep ==
  ASSUME EchoInv,
         \/ \E s \in IDs : Arrive(s) \/ HangUp(s) \/ Deliver(s) \/ PeerReset(s)
         \/ Quit \/ Join \/ UNCHANGED vars
  PROVE  Outside /\ TypeOK'
<1>1. TypeOK
  BY DEF EchoInv
<1>2. Main \notin Threads
  BY EchoAssumption
<1> USE DEF session, locks, system, local, Outside, TypeOK
<1>3. ASSUME NEW s \in IDs, NEW ty \in IoTypes, NEW to \in {"ok", "err"},
             io[s][ty] = "posted", io' = [io EXCEPT ![s][ty] = to],
             UNCHANGED <<session, locks, pc, local>>
      PROVE  Outside /\ TypeOK'
  BY <1>1, <1>3
<1>4. ASSUME NEW s \in IDs, Arrive(s) \/ HangUp(s) \/ Deliver(s)
      PROVE  Outside /\ TypeOK'
  <2>1. "recv" \in IoTypes /\ "send" \in IoTypes
    BY DEF IoTypes
  <2>2. CASE Arrive(s)
    <3>1. io[s]["recv"] = "posted" /\ io' = [io EXCEPT ![s]["recv"] = "ok"]
          /\ UNCHANGED <<session, locks, pc, local>>
      BY <2>2 DEF Arrive
    <3> QED
      BY <1>3, <2>1, <3>1
  <2>3. CASE HangUp(s)
    <3>1. io[s]["recv"] = "posted" /\ io' = [io EXCEPT ![s]["recv"] = "err"]
          /\ UNCHANGED <<session, locks, pc, local>>
      BY <2>3 DEF HangUp
    <3> QED
      BY <1>3, <2>1, <3>1
  <2>4. CASE Deliver(s)
    <3>1. io[s]["send"] = "posted" /\ io' = [io EXCEPT ![s]["send"] = "ok"]
          /\ UNCHANGED <<session, locks, pc, local>>
      BY <2>4 DEF Deliver
    <3> QED
      BY <1>3, <2>1, <3>1
  <2> QED
    BY <1>4, <2>2, <2>3, <2>4
<1>5. ASSUME NEW s \in IDs, PeerReset(s)
      PROVE  Outside /\ TypeOK'
  BY <1>1, <1>5 DEF PeerReset
<1>6. CASE Quit
  BY <1>1, <1>2, <1>6 DEF Quit, At, Goto
<1>7. CASE Join
  BY <1>1, <1>2, <1>7 DEF Join, At, Goto
<1>8. CASE UNCHANGED vars
  BY <1>1, <1>8 DEF vars
<1> QED
  BY <1>4, <1>5, <1>6, <1>7, <1>8

LEMMA EchoInit == Init => EchoInv
<1> SUFFICES ASSUME Init
             PROVE  EchoInv
  OBVIOUS
<1>1. TypeOK
  BY EchoAssumption DEF Init, TypeOK, Working, Accepting, Fresh, Serving
<1>2. CountExact
  <2>1. \A s \in IDs : ThreadRefs(s) = {}
    BY DEF Init, ThreadRefs, IDs, NoID
  <2>2. \A s \in IDs : {ty \in IoTypes : io[s][ty] # "idle"} = {}
    BY DEF Init
  <2>3. Cardinality({}) = 0
    BY FS_EmptySet
  <2>4. \A s \in IDs : ioCount[s] = 0
    BY DEF Init
  <2> QED
    BY <2>1, <2>2, <2>3, <2>4 DEF CountExact
<1>3. ASSUME NEW t \in Threads
      PROVE  /\ pc[t] = (IF t = Acceptor THEN "AcSocket" ELSE "Idle")
             /\ cur[t] \notin IDs /\ (t \in Workers <=> t # Acceptor)
  BY EchoAssumption DEF Init, Threads, IDs, NoID
<1>4. ASSUME NEW t \in Threads
      PROVE  PlaceOK(t) /\ ThereOK(t) /\ AloneOK(t) /\ TurnOK(t)
  BY <1>3 DEF PlaceOK, ThereOK, AloneOK, TurnOK, Uses, Serving, Working, Accepting, Fresh,
              Releasing, RecvTurn, SendTurn, InSend
<1>5. ASSUME NEW t \in Threads
      PROVE  CsOK(t)
  BY <1>3, EchoAssumption DEF Init, CsOK
<1>6. ASSUME NEW s \in IDs
      PROVE  SessionOK(s)
  BY DEF Init, SessionOK, IoTypes
<1> QED
  BY <1>1, <1>2, <1>4, <1>5, <1>6 DEF EchoInv

LEMMA EchoStep == EchoInv /\ [Next]_vars => EchoInv'
<1> SUFFICES ASSUME EchoInv, [Next]_vars
             PROVE  EchoInv'
  OBVIOUS
<1>1. ASSUME NEW t \in Threads, Moves(t)
      PROVE  EchoInv'
  <2>1. TypeOK' /\ CountExact'
    BY <1>1, MoveTypes, MoveCount
  <2>2. ASSUME NEW u \in Threads
        PROVE  (PlaceOK(u) /\ ThereOK(u) /\ AloneOK(u) /\ CsOK(u) /\ TurnOK(u))'
    <3>1. ThereOK(u)' /\ AloneOK(u)' /\ CsOK(u)' /\ TurnOK(u)'
      BY <1>1, MoveThere, MoveAlone, MoveCs, MoveTurn
    <3>2. CASE u = t
      BY <1>1, <3>1, <3>2, MovePlace
    <3>3. CASE u # t
      <4>1. PlaceOK(u) /\ TypeOK
        BY DEF EchoInv
      <4>2. pc'[u] = pc[u] /\ back'[u] = back[u]
        BY <1>1, <3>3, <4>1, OthersStay DEF TypeOK
      <4>3. PlaceOK(u)'
        BY <4>1, <4>2 DEF PlaceOK
      <4> QED
        BY <3>1, <4>3
    <3> QED
      BY <3>2, <3>3
  <2>3. \A s \in IDs : SessionOK(s)'
    BY <1>1, MoveSession
  <2> QED
    BY <2>1, <2>2, <2>3 DEF EchoInv
<1>2. ASSUME \/ \E s \in IDs : Arrive(s) \/ HangUp(s) \/ Deliver(s) \/ PeerReset(s)
             \/ Quit \/ Join \/ UNCHANGED vars
      PROVE  EchoInv'
  BY <1>2, SystemStep, OutsideKeeps
<1>3. \/ \E t \in Threads : Moves(t)
      \/ \E s \in IDs : Arrive(s) \/ HangUp(s) \/ Deliver(s) \/ PeerReset(s)
      \/ Quit \/ Join \/ UNCHANGED vars
  BY DEF Next, Moves, Threads
<1> QED
  BY <1>1, <1>2, <1>3

\* Whatever peers and workers do, every session's ioCount is the number of its
\* operations in flight and of the references threads have still to give back.
THEOREM CountIsExact == Spec => []CountExact
<1>1. Spec => []EchoInv
  BY EchoInit, EchoStep, PTL DEF Spec
<1>2. EchoInv => CountExact
  BY DEF EchoInv
<1> QED
  BY <1>1, <1>2, PTL

\* Nobody works on a session that is deleted: not a thread that waits for its
\* critical section or has it, nor Windows, which has its OVERLAPPEDs; and
\* SendPacket and ReleaseSession always find theirs in the map.
THEOREM DeletedOnce == Spec => []NoUseAfterDelete
<1>1. Spec => []EchoInv
  BY EchoInit, EchoStep, PTL DEF Spec
<1>2. EchoInv => NoUseAfterDelete
  <2> SUFFICES ASSUME EchoInv
               PROVE  NoUseAfterDelete
    OBVIOUS
  <2>1. \A t \in Threads : ThereOK(t) /\ CsOK(t)
    BY DEF EchoInv
  <2>2. \A t \in Threads : Uses(t) => object[cur[t]] = "alive"
    BY <2>1 DEF ThereOK
  <2>3. \A t \in Threads : pc[t] \in {"SpLock", "RelErase"} => cur[t] \in sessionMap
    BY InMap
  <2>4. ASSUME NEW s \in IDs, object[s] # "alive"
        PROVE  owner[s] = NoThread /\ \A ty \in IoTypes : io[s][ty] = "idle"
    <3>1. owner[s] \in Threads \cup {NoThread} /\ SessionOK(s)
      BY DEF EchoInv, TypeOK
    <3>2. owner[s] \notin Threads
      <4>1. SUFFICES ASSUME NEW t \in Threads, owner[s] = t
                     PROVE  FALSE
        OBVIOUS
      <4>2. cur[t] = s /\ InCs(t)
        BY <2>1, <4>1 DEF CsOK
      <4>3. Uses(t)
        BY <4>2 DEF InCs, InSend, Releasing, Uses, Serving
      <4> QED
        BY <2>2, <2>4, <4>2, <4>3
    <3> QED
      BY <2>4, <3>1, <3>2 DEF SessionOK
  <2> QED
    BY <2>2, <2>3, <2>4 DEF NoUseAfterDelete
<1> QED
  BY <1>1, <1>2, PTL

----------------------------------------------------------------------------
(***************************************************************************)
(* Induction.                                                              *)
(***************************************************************************)

\* Every non-empty set of naturals has a least element.
LEMMA LeastOf == \A T \in SUBSET Nat : T # {} => \E x \in T : \A y \in T : x <= y
<1> DEFINE R == {p \in Nat \X Nat : p[1] < p[2]}
<1>1. IsWellFoundedOn(R, Nat)
  BY NatLessThanWellFounded DEF OpToRel
<1>2. ASSUME NEW T \in SUBSET Nat, T # {}
      PROVE  \E x \in T : \A y \in T : x <= y
  <2>1. PICK x \in T : \A y \in T : ~ (<<y, x>> \in R)
    <3>1. T \subseteq Nat /\ T # {}
      BY <1>2
    <3> HIDE DEF R
    <3> QED
      BY <1>1, <3>1, WFMin, Zenon
  <2>2. \A y \in T : ~(y < x)
    BY <2>1
  <2> HIDE DEF R
  <2>3. \A y \in T : x <= y
    BY <1>2, <2>2
  <2> QED
    BY <2>3
<1> QED
  BY <1>2

\* A set that holds 0 and with every n its successor is Nat.
LEMMA Induction ==
  ASSUME NEW S \in SUBSET Nat, 0 \in S, \A n \in S : n + 1 \in S
  PROVE  S = Nat
<1> DEFINE T == Nat \ S
<1>1. SUFFICES ASSUME T # {}
               PROVE  FALSE
  OBVIOUS
<1>2. PICK x \in T : \A y \in T : x <= y
  BY <1>1, LeastOf
<1>3. x # 0 /\ x - 1 \in Nat
  BY <1>2
<1>4. x - 1 \in S
  BY <1>2, <1>3
<1> QED
  BY <1>2, <1>4

----------------------------------------------------------------------------
(***************************************************************************)
(* What the ring holds, and what its operations do to that.                *)
(***************************************************************************)

Rings     == [buffer : [Positions -> Int], front : Positions, rear : Positions]
RingOK(r) == r \in Rings

\* The i-th place from front on, and the elements in use.
Place(r, i) == IF r.front + i <= Capacity THEN r.front + i - 1 ELSE r.front + i - 1 - Capacity
Filled(r)   == Peek(r, UseSize(r))

\* A position that leaves the array by less than its length comes back round.
LEMMA Mods ==
  ASSUME NEW x \in Int
  PROVE  /\ 0 <= x /\ x < Capacity => x % Capacity = x
         /\ Capacity <= x /\ x < 2 * Capacity => x % Capacity = x - Capacity
         /\ -Capacity <= x /\ x < 0 => x % Capacity = x + Capacity
BY RingAssumption

\* What is in use and what is free make up the array but for one place, and rear
\* is as far from front as there are elements.
LEMMA Sizes ==
  ASSUME NEW r, RingOK(r)
  PROVE  /\ Capacity \in Nat \ {0} /\ r.front \in Positions /\ r.rear \in Positions
         /\ r.buffer \in [Positions -> Int]
         /\ UseSize(r) \in 0 .. Capacity - 1 /\ FreeSize(r) \in 0 .. Capacity - 1
         /\ UseSize(r) + FreeSize(r) = Capacity - 1
         /\ r.rear = (IF r.front + UseSize(r) < Capacity THEN r.front + UseSize(r)
                      ELSE r.front + UseSize(r) - Capacity)
<1>1. PICK f \in Int, b \in Int : f = r.front /\ b = r.rear
  <2>1. r.front \in Int /\ r.rear \in Int
    BY RingAssumption DEF RingOK, Rings, Positions
  <2> QED
    BY <2>1, Zenon
<1>2. /\ Capacity \in Nat \ {0} /\ f \in 0 .. Capacity - 1 /\ b \in 0 .. Capacity - 1
      /\ r.buffer \in [Positions -> Int]
  BY <1>1, RingAssumption DEF RingOK, Rings, Positions
<1>3. PICK u \in 0 .. Capacity - 1 : u = UseSize(r) /\ u = IF b >= f THEN b - f ELSE Capacity - (f - b)
  <2>1. UseSize(r) = IF b >= f THEN b - f ELSE Capacity - (f - b)
    BY <1>1 DEF UseSize
  <2>2. (IF b >= f THEN b - f ELSE Capacity - (f - b)) \in 0 .. Capacity - 1
    BY <1>2
  <2> QED
    BY <2>1, <2>2, Zenon
<1>4. FreeSize(r) = Capacity - 1 - u
  BY <1>3 DEF FreeSize
<1>5. b = IF f + u < Capacity THEN f + u ELSE f + u - Capacity
  BY <1>2, <1>3
<1>6. /\ UseSize(r) = u /\ FreeSize(r) = Capacity - 1 - u /\ r.front = f /\ r.rear = b
      /\ u \in 0 .. Capacity - 1 /\ Capacity - 1 - u \in 0 .. Capacity - 1
      /\ u + (Capacity - 1 - u) = Capacity - 1
  BY <1>1, <1>2, <1>3, <1>4
<1> QED
  BY <1>2, <1>5, <1>6 DEF Positions

\* What is in use goes on round the end of the array.
LEMMA FilledIs ==
  ASSUME NEW r, RingOK(r)
  PROVE  /\ Filled(r) \in Seq(Int) /\ Len(Filled(r)) = UseSize(r)
         /\ \A i \in 1 .. UseSize(r) : Place(r, i) \in Positions /\ Filled(r)[i] = r.buffer[Place(r, i)]
<1>1. /\ Capacity \in Nat \ {0} /\ r.front \in 0 .. Capacity - 1
      /\ r.buffer \in [Positions -> Int] /\ UseSize(r) \in 0 .. Capacity - 1
  BY Sizes DEF Positions
<1>2. PICK u \in 0 .. Capacity - 1 : u = UseSize(r)
  <2>1. UseSize(r) \in 0 .. Capacity - 1
    BY <1>1
  <2> QED
    BY <2>1, Zenon
<1>3. PICK k : k = Least(Capacity - r.front, u)
  BY Zenon
<1>4. k = (IF Capacity - r.front < u THEN Capacity - r.front ELSE u)
  BY <1>3 DEF Least
<1>5. Filled(r) = [i \in 1 .. u |-> IF i <= k THEN r.buffer[r.front + i - 1] ELSE r.buffer[i - k - 1]]
  BY <1>1, <1>2, <1>3 DEF Filled, Peek
<1>6. ASSUME NEW i \in 1 .. u
      PROVE  Place(r, i) \in Positions /\ Filled(r)[i] = r.buffer[Place(r, i)]
  <2>1. Place(r, i) \in Positions
    BY <1>1 DEF Place, Positions
  <2>2. Place(r, i) = IF i <= k THEN r.front + i - 1 ELSE i - k - 1
    BY <1>1, <1>4 DEF Place
  <2> QED
    BY <1>5, <2>1, <2>2
<1>7. Filled(r) \in [1 .. u -> Int]
  BY <1>1, <1>5, <1>6
<1> QED
  BY <1>1, <1>2, <1>6, <1>7

\* Two sequences of numbers are one if they agree.
LEMMA Alike ==
  ASSUME NEW a \in Seq(Int), NEW b \in Seq(Int), Len(a) = Len(b),
         \A i \in 1 .. Len(a) : a[i] = b[i]
  PROVE  a = b
OBVIOUS

\* A sequence of numbers is its first n elements and the rest.
LEMMA Tails ==
  ASSUME NEW q \in Seq(Int), NEW n \in 0 .. Len(q)
  PROVE  /\ SubSeq(q, n + 1, Len(q)) \in Seq(Int)
         /\ Len(SubSeq(q, n + 1, Len(q))) = Len(q) - n
         /\ \A i \in 1 .. Len(q) - n : SubSeq(q, n + 1, Len(q))[i] = q[n + i]
         /\ SubSeq(q, 1, n) \in Seq(Int) /\ Len(SubSeq(q, 1, n)) = n
         /\ \A i \in 1 .. n : SubSeq(q, 1, n)[i] = q[i]
         /\ SubSeq(q, 1, n) \o SubSeq(q, n + 1, Len(q)) = q
<1>1. /\ SubSeq(q, n + 1, Len(q)) \in Seq(Int)
      /\ Len(SubSeq(q, n + 1, Len(q))) = Len(q) - n
      /\ \A i \in 1 .. Len(q) - n : SubSeq(q, n + 1, Len(q))[i] = q[n + i]
  OBVIOUS
<1>2. /\ SubSeq(q, 1, n) \in Seq(Int) /\ Len(SubSeq(q, 1, n)) = n
      /\ \A i \in 1 .. n : SubSeq(q, 1, n)[i] = q[i]
  OBVIOUS
<1>3. PICK a \in Seq(Int), b \in Seq(Int) : a = SubSeq(q, 1, n) /\ b = SubSeq(q, n + 1, Len(q))
  <2>1. SubSeq(q, 1, n) \in Seq(Int) /\ SubSeq(q, n + 1, Len(q)) \in Seq(Int)
    BY <1>1, <1>2
  <2> QED
    BY <2>1, Zenon
<1>4. a \o b = q
  <2>1. Len(a) = n /\ Len(b) = Len(q) - n
        /\ (\A i \in 1 .. n : a[i] = q[i]) /\ (\A i \in 1 .. Len(q) - n : b[i] = q[n + i])
    BY <1>1, <1>2, <1>3
  <2>0. PICK l \in Nat : l = Len(q)
    <3>1. Len(q) \in Nat
      OBVIOUS
    <3> QED
      BY <3>1, Zenon
  <2>2. /\ a \o b \in Seq(Int) /\ Len(a \o b) = Len(a) + Len(b)
        /\ \A i \in 1 .. Len(a) + Len(b) :
             (a \o b)[i] = IF i <= Len(a) THEN a[i] ELSE b[i - Len(a)]
    BY ConcatProperties
  <2>3. Len(a) + Len(b) = l
    BY <2>0, <2>1
  <2>4. ASSUME NEW i \in 1 .. l
        PROVE  (a \o b)[i] = q[i]
    <3>1. CASE i <= n
      BY <2>1, <2>2, <2>3, <3>1
    <3>2. CASE ~(i <= n)
      <4>1. (a \o b)[i] = b[i - n] /\ i - n \in 1 .. l - n
        BY <2>0, <2>1, <2>2, <2>3, <3>2
      <4>2. b[i - n] = q[n + (i - n)]
        BY <2>0, <2>1, <4>1
      <4>3. n + (i - n) = i
        OBVIOUS
      <4> QED
        BY <4>1, <4>2, <4>3
    <3> QED
      BY <3>1, <3>2
  <2> QED
    BY <2>0, <2>2, <2>3, <2>4, Alike
<1> QED
  BY <1>1, <1>2, <1>3, <1>4

\* MoveFront gives places back at the front.
LEMMA MoveFrontIs ==
  ASSUME NEW r, RingOK(r), NEW n \in 0 .. UseSize(r)
  PROVE  /\ RingOK(MoveFront(r, n)) /\ UseSize(MoveFront(r, n)) = UseSize(r) - n
         /\ Filled(MoveFront(r, n)) = SubSeq(Filled(r), n + 1, Len(Filled(r)))
<1>1. /\ Capacity \in Nat \ {0} /\ r.front \in 0 .. Capacity - 1 /\ r.rear \in 0 .. Capacity - 1
      /\ r.buffer \in [Positions -> Int] /\ UseSize(r) \in 0 .. Capacity - 1
      /\ r.rear = (IF r.front + UseSize(r) < Capacity THEN r.front + UseSize(r)
                   ELSE r.front + UseSize(r) - Capacity)
  BY Sizes DEF Positions
<1>2. PICK m : m = MoveFront(r, n)
  BY Zenon
<1>3. PICK f : f = IF r.front + n < Capacity THEN r.front + n ELSE r.front + n - Capacity
  BY Zenon
<1>4. (r.front + Least(n, UseSize(r))) % Capacity = f
  <2>1. Least(n, UseSize(r)) = n
    BY <1>1 DEF Least
  <2>2. r.front + n \in Int /\ 0 <= r.front + n /\ r.front + n < 2 * Capacity
    BY <1>1
  <2>3. (r.front + n) % Capacity = f
    BY <1>1, <1>3, <2>2, Mods
  <2> QED
    BY <2>1, <2>3
<1>5. m = [r EXCEPT !.front = f]
  BY <1>2, <1>4 DEF MoveFront
<1>6. m.front = f /\ m.rear = r.rear /\ m.buffer = r.buffer /\ RingOK(m)
  <2>1. f \in 0 .. Capacity - 1
    BY <1>1, <1>3
  <2>2. f \in Positions /\ r \in Rings
    BY <2>1 DEF Positions, RingOK
  <2> QED
    BY <1>5, <2>2 DEF RingOK, Rings
<1>7. UseSize(m) = UseSize(r) - n
  <2>1. PICK u \in Nat : u = UseSize(r)
    <3>1. UseSize(r) \in Nat
      BY <1>1
    <3> QED
      BY <3>1, Zenon
  <2> QED
    BY <1>1, <1>3, <1>6, <2>1 DEF UseSize
<1>8. Filled(m) = SubSeq(Filled(r), n + 1, Len(Filled(r)))
  <2>1. PICK b \in Seq(Int) : b = SubSeq(Filled(r), n + 1, Len(Filled(r)))
    <3>1. SubSeq(Filled(r), n + 1, Len(Filled(r))) \in Seq(Int)
      BY FilledIs, Tails
    <3> QED
      BY <3>1, Zenon
  <2>2. Len(b) = UseSize(r) - n /\ \A i \in 1 .. UseSize(r) - n : b[i] = Filled(r)[n + i]
    BY <2>1, FilledIs, Tails
  <2>3. ASSUME NEW i \in 1 .. UseSize(r) - n
        PROVE  Filled(m)[i] = b[i]
    <3>1. n + i \in 1 .. UseSize(r) /\ i \in 1 .. UseSize(m)
      BY <1>1, <1>7
    <3>2. Place(m, i) = Place(r, n + i)
      <4>1. PICK j \in Int, g \in Int : j = i /\ g = r.front
        <5>1. i \in Int /\ r.front \in Int
          BY <1>1
        <5> QED
          BY <5>1, Zenon
      <4>2. PICK u \in 0 .. Capacity - 1 : u = UseSize(r)
        <5>1. UseSize(r) \in 0 .. Capacity - 1
          BY <1>1
        <5> QED
          BY <5>1, Zenon
      <4>3. j \in 1 .. u - n /\ n \in 0 .. u /\ g \in 0 .. Capacity - 1
        BY <1>1, <4>1, <4>2
      <4>4. f = IF g + n < Capacity THEN g + n ELSE g + n - Capacity
        BY <1>3, <4>1
      <4>5. (IF f + j <= Capacity THEN f + j - 1 ELSE f + j - 1 - Capacity)
              = IF g + (n + j) <= Capacity THEN g + (n + j) - 1 ELSE g + (n + j) - 1 - Capacity
        BY <1>1, <4>3, <4>4
      <4> QED
        BY <1>6, <4>1, <4>5 DEF Place
    <3>3. Filled(m)[i] = m.buffer[Place(m, i)] /\ Filled(r)[n + i] = r.buffer[Place(r, n + i)]
      BY <1>6, <3>1, FilledIs
    <3> QED
      BY <1>6, <2>2, <3>2, <3>3
  <2>4. Filled(m) \in Seq(Int) /\ Len(Filled(m)) = UseSize(r) - n
    BY <1>6, <1>7, FilledIs
  <2> QED
    BY <2>1, <2>2, <2>3, <2>4, Alike
<1> QED
  BY <1>2, <1>6, <1>7, <1>8

\* How far behind rear the i-th place is, as Enqueue counts it.
LEMMA Behind ==
  ASSUME NEW r, RingOK(r), NEW i \in 1 .. Capacity
  PROVE  /\ Place(r, i) \in Positions
         /\ ((Place(r, i) - r.rear) % Capacity) + 1
              = IF i > UseSize(r) THEN i - UseSize(r) ELSE i - UseSize(r) + Capacity
<1>1. PICK f \in Int, b \in Int, u \in Int : f = r.front /\ b = r.rear /\ u = UseSize(r)
  <2>1. r.front \in Int /\ r.rear \in Int /\ UseSize(r) \in Int
    BY Sizes DEF Positions
  <2> QED
    BY <2>1, Zenon
<1>2. /\ Capacity \in Nat \ {0} /\ f \in 0 .. Capacity - 1 /\ u \in 0 .. Capacity - 1
      /\ b = IF f + u < Capacity THEN f + u ELSE f + u - Capacity
  BY <1>1, Sizes DEF Positions
<1>3. PICK p : p = IF f + i <= Capacity THEN f + i - 1 ELSE f + i - 1 - Capacity
  BY Zenon
<1>4. p \in 0 .. Capacity - 1
  BY <1>2, <1>3
<1>5. PICK d : d = IF i > u THEN i - u ELSE i - u + Capacity
  BY Zenon
<1>6. d \in 1 .. Capacity /\ (p - b = d - 1 \/ p - b = d - 1 - Capacity)
  BY <1>2, <1>3, <1>5
<1>7. (p - b) % Capacity = d - 1
  <2>1. p - b \in Int /\ b \in Int
    BY <1>1, <1>2, <1>4
  <2>2. CASE p - b = d - 1
    BY <1>2, <1>6, <2>1, <2>2, Mods
  <2>3. CASE p - b = d - 1 - Capacity
    BY <1>2, <1>6, <2>1, <2>3, Mods
  <2> QED
    BY <1>6, <2>2, <2>3
<1>8. p = Place(r, i)
  BY <1>1, <1>3 DEF Place
<1>9. ((p - b) % Capacity) + 1 = d
  BY <1>5, <1>7
<1> QED
  BY <1>1, <1>4, <1>5, <1>8, <1>9 DEF Positions

\* Enqueue appends what there is room for.
LEMMA EnqueueIs ==
  ASSUME NEW r, RingOK(r), NEW s \in Seq(Int)
  PROVE  /\ RingOK(Enqueue(r, s)) /\ Enqueue(r, s).front = r.front
         /\ EnqueueSize(r, s) \in 0 .. Len(s)
         /\ UseSize(Enqueue(r, s)) = UseSize(r) + EnqueueSize(r, s)
         /\ Filled(Enqueue(r, s)) = Filled(r) \o SubSeq(s, 1, EnqueueSize(r, s))
         /\ \A i \in 1 .. UseSize(r) : Enqueue(r, s).buffer[Place(r, i)] = r.buffer[Place(r, i)]
<1>1. PICK u \in Int, v \in Int, f \in Int, l \in Int, n \in Int :
        /\ u = UseSize(r) /\ v = FreeSize(r) /\ f = r.front /\ l = Len(s) /\ n = EnqueueSize(r, s)
  <2>1. UseSize(r) \in Int /\ FreeSize(r) \in Int /\ r.front \in Int /\ Len(s) \in Int
    BY Sizes, RingAssumption DEF Positions
  <2> QED
    BY <2>1 DEF EnqueueSize, Least
<1>2. /\ Capacity \in Nat \ {0} /\ f \in 0 .. Capacity - 1 /\ u \in 0 .. Capacity - 1
      /\ v \in 0 .. Capacity - 1 /\ u + v = Capacity - 1 /\ l \in Nat
      /\ n \in 0 .. l /\ n <= v /\ r.buffer \in [Positions -> Int]
  <2>1. n = IF v < l THEN v ELSE l
    BY <1>1 DEF EnqueueSize, Least
  <2>2. /\ Capacity \in Nat \ {0} /\ f \in 0 .. Capacity - 1 /\ u \in 0 .. Capacity - 1
        /\ v \in 0 .. Capacity - 1 /\ u + v = Capacity - 1 /\ l \in Nat
        /\ r.buffer \in [Positions -> Int]
    BY <1>1, Sizes DEF Positions
  <2> QED
    BY <2>1, <2>2
<1>3. PICK b : b = r.rear /\ b \in 0 .. Capacity - 1
                /\ b = IF f + u < Capacity THEN f + u ELSE f + u - Capacity
  BY <1>1, Sizes, Zenon DEF Positions
<1>4. PICK c : c = IF b + n < Capacity THEN b + n ELSE b + n - Capacity
  BY Zenon
<1>5. (b + n) % Capacity = c /\ c \in 0 .. Capacity - 1
  <2>1. PICK x : x = b + n
    BY Zenon
  <2>2. x \in Int /\ 0 <= x /\ x < 2 * Capacity /\ c \in 0 .. Capacity - 1
        /\ c = IF x < Capacity THEN x ELSE x - Capacity
    <3>1. PICK k \in Nat : k = Capacity
      <4>1. Capacity \in Nat
        BY <1>2
      <4> QED
        BY <4>1, Zenon
    <3>2. /\ f \in 0 .. k - 1 /\ u \in 0 .. k - 1 /\ n \in Nat /\ u + n <= k - 1 /\ b \in 0 .. k - 1
          /\ x = b + n /\ c = IF x < k THEN x ELSE x - k
      BY <1>2, <1>3, <1>4, <2>1, <3>1
    <3>3. x \in Int /\ 0 <= x /\ x < 2 * k /\ c \in 0 .. k - 1
      BY <3>2
    <3> QED
      BY <3>1, <3>2, <3>3
  <2>3. x < Capacity => x % Capacity = x
    BY <2>2, Mods
  <2>4. Capacity <= x => x % Capacity = x - Capacity
    BY <2>2, Mods
  <2>5. x % Capacity = c
    BY <1>2, <2>2, <2>3, <2>4
  <2> QED
    BY <2>1, <2>2, <2>5
<1>6. PICK g : g = [p \in Positions |-> IF ((p - b) % Capacity) + 1 <= n
                                        THEN s[((p - b) % Capacity) + 1] ELSE r.buffer[p]]
  OBVIOUS
<1>7. PICK m : m = Enqueue(r, s)
  BY Zenon
<1>8. m = [r EXCEPT !.buffer = g, !.rear = c]
  BY <1>1, <1>3, <1>5, <1>6, <1>7 DEF Enqueue
<1>9. g \in [Positions -> Int]
  <2>1. \A p \in Positions : p - b \in Int /\ -Capacity <= p - b /\ p - b < Capacity
    BY <1>2, <1>3 DEF Positions
  <2>2. \A p \in Positions : (p - b) % Capacity \in Nat
    BY <1>2, <2>1, Mods
  <2>3. \A i \in 1 .. n : s[i] \in Int
    BY <1>1, <1>2
  <2> QED
    BY <1>2, <1>6, <2>2, <2>3
<1>10. m.buffer = g /\ m.front = f /\ m.rear = c /\ RingOK(m)
  BY <1>1, <1>2, <1>5, <1>8, <1>9 DEF RingOK, Rings, Positions
<1>11. UseSize(m) = u + n
  <2>1. c >= f <=> f + u + n < Capacity
    BY <1>2, <1>3, <1>4
  <2>2. u + n = IF c >= f THEN c - f ELSE Capacity - (f - c)
    BY <1>2, <1>3, <1>4, <2>1
  <2> QED
    BY <1>10, <2>2 DEF UseSize
<1>12. ASSUME NEW i \in 1 .. Capacity
       PROVE  /\ Place(m, i) = Place(r, i) /\ Place(r, i) \in Positions
              /\ i <= u => m.buffer[Place(r, i)] = r.buffer[Place(r, i)]
              /\ u < i /\ i <= u + n => m.buffer[Place(r, i)] = s[i - u]
  <2>1. Place(m, i) = Place(r, i)
    BY <1>1, <1>10 DEF Place
  <2>2. /\ Place(r, i) \in Positions
        /\ ((Place(r, i) - b) % Capacity) + 1 = IF i > u THEN i - u ELSE i - u + Capacity
    BY <1>1, <1>3, Behind
  <2>3. PICK p \in Positions, d \in Int : p = Place(r, i) /\ d = ((p - b) % Capacity) + 1
    <3>1. Place(r, i) \in Positions
      BY <2>2
    <3>2. PICK p \in Positions : p = Place(r, i)
      BY <3>1, Zenon
    <3>3. ((p - b) % Capacity) + 1 \in Int
      BY <1>1, <1>2, <2>2, <3>2
    <3> QED
      BY <3>2, <3>3, Zenon
  <2>4. d = IF i > u THEN i - u ELSE i - u + Capacity
    BY <2>2, <2>3
  <2>5. g[p] = IF d <= n THEN s[d] ELSE r.buffer[p]
    BY <1>6, <2>3
  <2>6. i <= u => ~(d <= n)
    BY <1>2, <2>4
  <2>7. u < i /\ i <= u + n => d = i - u /\ d <= n
    BY <1>2, <2>4
  <2> QED
    BY <1>10, <2>1, <2>3, <2>5, <2>6, <2>7
<1>13. Filled(m) = Filled(r) \o SubSeq(s, 1, n)
  <2>1. PICK a \in Seq(Int), x \in Seq(Int), y \in Seq(Int) :
          a = Filled(r) /\ x = SubSeq(s, 1, n) /\ y = Filled(m)
    BY <1>1, <1>2, <1>10, FilledIs, Tails
  <2>2. Len(a) = u /\ Len(x) = n /\ Len(y) = u + n
        /\ \A i \in 1 .. n : x[i] = s[i]
    BY <1>1, <1>2, <1>10, <1>11, <2>1, FilledIs, Tails
  <2>3. /\ a \o x \in Seq(Int) /\ Len(a \o x) = u + n
        /\ \A i \in 1 .. u + n : (a \o x)[i] = IF i <= u THEN a[i] ELSE x[i - u]
    BY <2>2, ConcatProperties
  <2>4. ASSUME NEW i \in 1 .. u + n
        PROVE  (a \o x)[i] = y[i]
    <3>1. i \in 1 .. Capacity /\ i \in 1 .. UseSize(m)
      BY <1>2, <1>11
    <3>2. y[i] = m.buffer[Place(m, i)]
      BY <1>10, <2>1, <3>1, FilledIs
    <3>3. CASE i <= u
      <4>1. i \in 1 .. UseSize(r)
        BY <1>1, <3>3
      <4>2. a[i] = r.buffer[Place(r, i)]
        BY <2>1, <4>1, FilledIs
      <4> QED
        BY <1>12, <2>3, <3>1, <3>2, <3>3, <4>2
    <3>4. CASE ~(i <= u)
      <4>1. i - u \in 1 .. n /\ u < i /\ i <= u + n
        BY <1>2, <3>4
      <4>2. y[i] = s[i - u]
        BY <1>12, <3>1, <3>2, <4>1
      <4>3. x[i - u] = s[i - u]
        BY <2>2, <4>1
      <4> QED
        BY <2>3, <3>4, <4>2, <4>3
    <3> QED
      BY <3>3, <3>4
  <2>5. a \o x = y
    BY <2>2, <2>3, <2>4, Alike
  <2> QED
    BY <2>1, <2>5
<1>14. \A i \in 1 .. UseSize(r) : m.buffer[Place(r, i)] = r.buffer[Place(r, i)]
  <2> TAKE i \in 1 .. UseSize(r)
  <2>1. i \in 1 .. Capacity /\ i <= u
    BY <1>1, <1>2
  <2> QED
    BY <1>12, <2>1
<1> QED
  BY <1>1, <1>2, <1>7, <1>10, <1>11, <1>13, <1>14

\* The areas of a send are the first n places in use, from front to the end of
\* the array and from its beginning.
Covers(a, r, n) ==
  \E k, m \in Nat :
    /\ a = <<[start |-> r.front, len |-> k], [start |-> 0, len |-> m]>>
    /\ k + m = n /\ n <= UseSize(r) /\ k <= Capacity - r.front
    /\ m > 0 => k = Capacity - r.front

LEMMA SendCovers ==
  ASSUME NEW r, RingOK(r)
  PROVE  Covers(SendAreas(r), r, UseSize(r))
<1>1. PICK f \in Int, b \in Int, u \in Int : f = r.front /\ b = r.rear /\ u = UseSize(r)
  <2>1. r.front \in Int /\ r.rear \in Int /\ UseSize(r) \in Int
    BY Sizes DEF Positions
  <2> QED
    BY <2>1, Zenon
<1>2. /\ Capacity \in Nat \ {0} /\ f \in 0 .. Capacity - 1 /\ u \in 0 .. Capacity - 1
      /\ b = IF f + u < Capacity THEN f + u ELSE f + u - Capacity
  BY <1>1, Sizes DEF Positions
<1>3. PICK k : k = IF u <= 0 THEN 0 ELSE IF f < b THEN u ELSE Capacity - f
  BY Zenon
<1>4. DirectDequeueSize(r) = k
  BY <1>1, <1>3 DEF DirectDequeueSize
<1>5. k \in Nat /\ u - k \in Nat /\ k + (u - k) = u /\ k <= Capacity - f
      /\ (u - k > 0 => k = Capacity - f)
  BY <1>2, <1>3
<1>6. SendAreas(r) = <<[start |-> f, len |-> k], [start |-> 0, len |-> u - k]>>
  BY <1>1, <1>4 DEF SendAreas
<1>7. PICK m \in Nat : m = u - k
  <2>1. u - k \in Nat
    BY <1>5
  <2> QED
    BY <2>1, Zenon
<1>8. \E i, j \in Nat :
        /\ SendAreas(r) = <<[start |-> r.front, len |-> i], [start |-> 0, len |-> j]>>
        /\ i + j = u /\ u <= UseSize(r) /\ i <= Capacity - r.front
        /\ j > 0 => i = Capacity - r.front
  <2>1. /\ SendAreas(r) = <<[start |-> r.front, len |-> k], [start |-> 0, len |-> m]>>
        /\ k + m = u /\ u <= UseSize(r) /\ k <= Capacity - r.front
        /\ m > 0 => k = Capacity - r.front
    BY <1>1, <1>2, <1>5, <1>6, <1>7
  <2> QED
    BY <1>5, <2>1, Zenon
<1> QED
  BY <1>1, <1>8, Zenon DEF Covers

\* What lies there is the first n elements in use.
LEMMA InAreasAre ==
  ASSUME NEW s, NEW n, RingOK(sendQ[s]), Covers(areas[s], sendQ[s], n)
  PROVE  /\ n \in 0 .. UseSize(sendQ[s])
         /\ InAreas(s) = SubSeq(Filled(sendQ[s]), 1, n) /\ Len(InAreas(s)) = n
<1>1. PICK r : r = sendQ[s]
  BY Zenon
<1>2. PICK k \in Nat, m \in Nat :
        /\ areas[s] = <<[start |-> r.front, len |-> k], [start |-> 0, len |-> m]>>
        /\ k + m = n /\ n <= UseSize(r) /\ k <= Capacity - r.front
        /\ m > 0 => k = Capacity - r.front
  BY <1>1 DEF Covers
<1>3. PICK f \in Int, u \in Int : f = r.front /\ u = UseSize(r)
  <2>1. r.front \in Int /\ UseSize(r) \in Int
    BY <1>1, Sizes DEF Positions
  <2> QED
    BY <2>1, Zenon
<1>4. /\ Capacity \in Nat \ {0} /\ f \in 0 .. Capacity - 1 /\ u \in 0 .. Capacity - 1
      /\ r.buffer \in [Positions -> Int]
  BY <1>1, <1>3, Sizes DEF Positions
<1>5. n \in 0 .. u /\ k <= n /\ m = n - k /\ (k < n => k = Capacity - f) /\ k <= Capacity - f
  BY <1>2, <1>3
<1>6. PICK x, y : /\ x = [i \in 1 .. k |-> r.buffer[f + i - 1]]
                  /\ y = [i \in 1 .. m |-> r.buffer[i - 1]]
  OBVIOUS
<1>7. InAreas(s) = x \o y
  <2>1. areas[s][1] = [start |-> f, len |-> k] /\ areas[s][2] = [start |-> 0, len |-> m]
    BY <1>2, <1>3
  <2>2. \A i \in 1 .. m : 0 + i - 1 = i - 1
    OBVIOUS
  <2> QED
    BY <1>1, <1>6, <2>1, <2>2 DEF InAreas
<1>8. ASSUME NEW i \in 1 .. n
      PROVE  /\ i <= k => f + i - 1 \in Positions /\ Place(r, i) = f + i - 1
             /\ ~(i <= k) => i - k - 1 \in Positions /\ Place(r, i) = i - k - 1
  <2>1. CASE i <= k
    <3>1. f + i <= Capacity /\ f + i - 1 \in 0 .. Capacity - 1
      BY <1>4, <1>5, <2>1
    <3> QED
      BY <1>3, <2>1, <3>1 DEF Place, Positions
  <2>2. CASE ~(i <= k)
    <3>1. k = Capacity - f
      BY <1>5, <2>2
    <3>2. Place(r, i) = f + i - 1 - Capacity
      BY <1>3, <1>4, <2>2, <3>1 DEF Place
    <3>3. f + i - 1 - Capacity = i - k - 1 /\ i - k - 1 \in 0 .. Capacity - 1
      BY <1>4, <1>5, <2>2, <3>1
    <3> QED
      BY <2>2, <3>2, <3>3 DEF Positions
  <2> QED
    BY <2>1, <2>2
<1>9. x \in Seq(Int) /\ Len(x) = k /\ y \in Seq(Int) /\ Len(y) = m
  <2>1. \A i \in 1 .. k : f + i - 1 \in Positions
    BY <1>4, <1>5 DEF Positions
  <2>2. \A i \in 1 .. m : i - 1 \in Positions
    BY <1>4, <1>5 DEF Positions
  <2>3. x \in [1 .. k -> Int] /\ y \in [1 .. m -> Int]
    BY <1>4, <1>6, <2>1, <2>2
  <2>4. k \in Nat /\ m \in Nat
    OBVIOUS
  <2>5. x \in Seq(Int) /\ y \in Seq(Int)
    BY <2>3, <2>4
  <2> QED
    BY <1>6, <2>4, <2>5
<1>10. PICK a \in Seq(Int), b \in Seq(Int) : a = Filled(r) /\ b = SubSeq(a, 1, n)
  <2>1. Filled(r) \in Seq(Int)
    BY <1>1, FilledIs
  <2>2. SubSeq(Filled(r), 1, n) \in Seq(Int)
    BY <1>1, <1>3, <1>5, FilledIs, Tails
  <2> QED
    BY <2>1, <2>2, Zenon
<1>11. Len(a) = u /\ Len(b) = n /\ \A i \in 1 .. n : b[i] = r.buffer[Place(r, i)]
  <2>1. Len(a) = u /\ Len(b) = n /\ \A i \in 1 .. n : b[i] = a[i]
    BY <1>1, <1>3, <1>5, <1>10, FilledIs, Tails
  <2>2. \A i \in 1 .. n : i \in 1 .. UseSize(r)
    BY <1>3, <1>5
  <2> QED
    BY <1>1, <1>10, <2>1, <2>2, FilledIs
<1>12. /\ x \o y \in Seq(Int) /\ Len(x \o y) = n
       /\ \A i \in 1 .. n : (x \o y)[i] = IF i <= k THEN x[i] ELSE y[i - k]
  <2>1. k + m = n
    BY <1>2
  <2> QED
    BY <1>9, <2>1, ConcatProperties
<1>13. ASSUME NEW i \in 1 .. n
       PROVE  (x \o y)[i] = b[i]
  <2>1. CASE i <= k
    <3>1. x[i] = r.buffer[f + i - 1]
      BY <1>6, <2>1
    <3> QED
      BY <1>8, <1>11, <1>12, <2>1, <3>1
  <2>2. CASE ~(i <= k)
    <3>1. i - k \in 1 .. m
      BY <1>5, <2>2
    <3>2. y[i - k] = r.buffer[i - k - 1]
      BY <1>6, <3>1
    <3> QED
      BY <1>8, <1>11, <1>12, <2>2, <3>2
  <2> QED
    BY <2>1, <2>2
<1>14. x \o y = b
  BY <1>11, <1>12, <1>13, Alike
<1> QED
  BY <1>1, <1>3, <1>5, <1>7, <1>10, <1>12, <1>14

----------------------------------------------------------------------------
(***************************************************************************)
(* The echoes of the first n frames.                                       *)
(***************************************************************************)

Echoes(s) ==
  LET echoes[n \in 0 .. MaxFrames[s]] == IF n = 0 THEN <<>> ELSE echoes[n - 1] \o Echo(n)
  IN  echoes

\* What the recursion says of the echoes of up to m frames.
EchoesTo(m, g) == g = [n \in 0 .. m |-> IF n = 0 THEN <<>> ELSE g[n - 1] \o Echo(n)]

\* There is a function that the recursion defines,
LEMMA EchoesExist == \A m \in Nat : \E g : EchoesTo(m, g)
<1> DEFINE S == {m \in Nat : \E g : EchoesTo(m, g)}
<1>1. 0 \in S
  <2>1. PICK g : g = [n \in 0 .. 0 |-> <<>>]
    BY Zenon
  <2>2. EchoesTo(0, g)
    BY <2>1 DEF EchoesTo
  <2> QED
    BY <2>2
<1>2. ASSUME NEW m \in S
      PROVE  m + 1 \in S
  <2>1. PICK g : EchoesTo(m, g)
    BY Zenon
  <2>2. PICK h : h = [n \in 0 .. m + 1 |-> IF n <= m THEN g[n] ELSE g[m] \o Echo(m + 1)]
    BY Zenon
  <2>3. ASSUME NEW n \in 0 .. m + 1
        PROVE  h[n] = IF n = 0 THEN <<>> ELSE h[n - 1] \o Echo(n)
    <3>1. CASE n = 0
      <4>1. h[0] = g[0] /\ g[0] = <<>>
        BY <2>1, <2>2 DEF EchoesTo
      <4> QED
        BY <3>1, <4>1
    <3>2. CASE n # 0 /\ n <= m
      <4>1. h[n] = g[n] /\ h[n - 1] = g[n - 1] /\ n \in 0 .. m
        BY <2>2, <3>2
      <4>2. g[n] = g[n - 1] \o Echo(n)
        BY <2>1, <3>2, <4>1 DEF EchoesTo
      <4> QED
        BY <3>2, <4>1, <4>2
    <3>3. CASE n = m + 1
      <4>1. h[n] = g[m] \o Echo(m + 1) /\ h[m] = g[m] /\ n # 0 /\ n - 1 = m
        BY <2>2, <3>3
      <4> QED
        BY <3>3, <4>1
    <3> QED
      BY <3>1, <3>2, <3>3
  <2>4. EchoesTo(m + 1, h)
    BY <2>2, <2>3, Zenon DEF EchoesTo
  <2> QED
    BY <2>4
<1>3. S = Nat
  <2> HIDE DEF S
  <2>1. S \in SUBSET Nat
    BY DEF S
  <2> QED
    BY <1>1, <1>2, <2>1, Induction
<1> QED
  BY <1>3

\* and Echoes is one.
LEMMA EchoesAre ==
  ASSUME NEW s \in IDs
  PROVE  /\ Echoes(s)[0] = <<>>
         /\ \A n \in 1 .. MaxFrames[s] : Echoes(s)[n] = Echoes(s)[n - 1] \o Echo(n)
<1>1. PICK m \in Nat : m = MaxFrames[s]
  <2>1. MaxFrames[s] \in Nat
    BY EchoAssumption
  <2> QED
    BY <2>1, Zenon
<1>2. Echoes(s) = CHOOSE g : EchoesTo(m, g)
  BY <1>1 DEF Echoes, EchoesTo
<1>3. EchoesTo(m, Echoes(s))
  BY <1>2, EchoesExist
<1>4. ASSUME NEW n \in 0 .. m
      PROVE  Echoes(s)[n] = IF n = 0 THEN <<>> ELSE Echoes(s)[n - 1] \o Echo(n)
  <2>1. PICK e : e = Echoes(s)
    BY Zenon
  <2>2. EchoesTo(m, e)
    BY <1>3, <2>1
  <2>3. e[n] = IF n = 0 THEN <<>> ELSE e[n - 1] \o Echo(n)
    BY <2>2 DEF EchoesTo
  <2> QED
    BY <2>1, <2>3
<1>5. 0 \in 0 .. m /\ \A n \in 1 .. m : n \in 0 .. m /\ n # 0
  OBVIOUS
<1> QED
  BY <1>1, <1>4, <1>5

\* An echo is as long as a header and the value.
LEMMA EchoIs == ASSUME NEW v \in Int PROVE Echo(v) \in Seq(Int) /\ Len(Echo(v)) = BodySize + 1
<1>1. PICK x, y : x = <<Header>> /\ y = [i \in 1 .. BodySize |-> v]
  BY Zenon
<1>2. x \in Seq(Int) /\ Len(x) = 1
  BY <1>1 DEF Header
<1>3. BodySize \in Nat /\ y \in Seq(Int) /\ Len(y) = BodySize
  BY <1>1, EchoAssumption
<1>4. x \o y \in Seq(Int) /\ Len(x \o y) = 1 + BodySize
  <2>1. x \in Seq(Int) /\ y \in Seq(Int) /\ Len(x) = 1 /\ Len(y) = BodySize
    BY <1>2, <1>3
  <2>2. x \o y \in Seq(Int) /\ Len(x \o y) = Len(x) + Len(y)
    BY <2>1, ConcatProperties
  <2> QED
    BY <2>1, <2>2, Zenon
<1> QED
  BY <1>1, <1>3, <1>4 DEF Echo

----------------------------------------------------------------------------
(***************************************************************************)
(* The invariant of the streams.                                           *)
(***************************************************************************)

\* In RecvProc, with frames of its receive still to be handled.
InRecv    == {"RecvLoop"} \cup InSend
Answering == {"SpLock", "SpEnter", "SpEnqueue"}
Posting   == {"SpPost", "SdPost"}

StreamType ==
  /\ sendQ \in [IDs -> Rings] /\ moved \in [IDs -> [IoTypes -> Nat]]
  /\ areas = [s \in IDs |-> areas[s]]
  /\ sent \in [IDs -> Nat] /\ echoed \in [IDs -> Nat] /\ out \in [IDs -> Seq(Int)]
  /\ todo \in [Threads -> Nat]

\* What a completion of a send is for leaves sendQ before the next is posted; a
\* send that is in flight has the first places of what is in use.
SentOK(s) ==
  /\ moved[s]["send"] <= UseSize(sendQ[s])
  /\ moved[s]["send"] # 0 =>
       /\ isSending[s] /\ io[s]["send"] # "posted"
       /\ \A t \in Threads : pc[t] \in Posting => cur[t] # s
  /\ io[s]["send"] = "posted" => \E n \in Nat : Covers(areas[s], sendQ[s], n)

\* No more frames are answered than have come.
FramesOK(s) ==
  /\ echoed[s] + moved[s]["recv"] <= sent[s] /\ sent[s] <= MaxFrames[s]
  /\ \A t \in Threads : pc[t] \in InRecv /\ cur[t] = s =>
       echoed[s] + moved[s]["recv"] + todo[t] <= sent[s]

\* What the peer was sent, and what sendQ holds that it was not sent yet.
Unsent(s) == SubSeq(Filled(sendQ[s]), moved[s]["send"] + 1, Len(Filled(sendQ[s])))
WholeOK(s) == s \notin cut => out[s] \o Unsent(s) = Echoes(s)[echoed[s]]

StreamInv ==
  /\ StreamType
  /\ \A s \in IDs : SentOK(s) /\ FramesOK(s) /\ WholeOK(s)
  /\ \A t \in Threads : pc[t] \in Answering => todo[t] > 0

\* What t is about to do does not concern the streams.
Goes(t) ==
  /\ pc'[t] \in Posting \cup InRecv => cur'[t] = cur[t]
  /\ pc'[t] \in Posting => pc[t] \in Posting
  /\ pc'[t] \in InRecv => pc[t] \in InRecv
  /\ pc'[t] \in Answering => todo[t] > 0

\* No stream changes; a send that was in flight may fail.
Still ==
  /\ UNCHANGED <<isSending, sendQ, moved, todo, sent, echoed, cut, out>>
  /\ areas' = [s \in IDs |-> areas'[s]]
  /\ \A s \in IDs : io'[s]["send"] = "posted" => io[s]["send"] = "posted" /\ areas'[s] = areas[s]
  /\ \A t \in Threads : Goes(t)

\* Steps that leave the streams alone keep their invariant.
LEMMA StillKeeps ==
  ASSUME StreamInv, Still
  PROVE  StreamInv'
<1>1. StreamType'
  BY DEF StreamInv, Still, StreamType
<1>2. \A t \in Threads : pc'[t] \in Answering => todo'[t] > 0
  BY DEF Still, Goes
<1>3. ASSUME NEW s \in IDs
      PROVE  (SentOK(s) /\ FramesOK(s) /\ WholeOK(s))'
  <2>1. SentOK(s) /\ FramesOK(s) /\ WholeOK(s)
    BY DEF StreamInv
  <2>2. SentOK(s)'
    BY <2>1 DEF SentOK, Still, Goes
  <2>3. FramesOK(s)'
    BY <2>1 DEF FramesOK, Still, Goes
  <2>4. WholeOK(s)'
    BY <2>1, Zenon DEF WholeOK, Unsent, Still
  <2> QED
    BY <2>2, <2>3, <2>4
<1> QED
  BY <1>1, <1>2, <1>3 DEF StreamInv

\* One thread moves, and it is not a move that concerns the streams.
Calm(t) ==
  /\ UNCHANGED <<isSending, sendQ, moved, areas, todo, sent, echoed, cut, out>>
  /\ \A s \in IDs : io'[s]["send"] = "posted" => io[s]["send"] = "posted"
  /\ Goes(t)

\* The steps of threads that do concern the streams.
Telling(t) ==
  RelDelete(t) \/ EnterRecv(t) \/ SpEnqueue(t) \/ SpPost(t) \/ SdMove(t) \/ SdPost(t)

\* All others are calm,
LEMMA CalmMoves ==
  ASSUME EchoInv, StreamInv, NEW t \in Threads, Moves(t), ~Telling(t)
  PROVE  Calm(t)
<1>1. TypeOK /\ (pc[t] \in Answering => todo[t] > 0)
  BY DEF EchoInv, StreamInv
<1> USE DEF At, Goto, session, locks, system, local, history, TypeOK, Calm, Goes, Posting, InRecv,
            InSend, Answering
<1>2. CASE RelErase(t) \/ RelWait(t) \/ OuterLeave(t) \/ EnterLost(t) \/ Leave(t)
  BY <1>1, <1>2 DEF RelErase, RelWait, OuterLeave, EnterLost, Leave, LeaveAll
<1>3. CASE DecLost(t) \/ RecvDec(t) \/ SdUndo(t) \/ SdDec(t) \/ AcUndo(t) \/ SpUndo(t)
  <2>1. \E from \in {"DecLost", "RecvDec", "SdUndo", "SdDec", "AcUndo", "SpUndo"},
           next \in {"Idle", "Leave", "SdDec", "AcBreak", "RecvLoop"},
           after \in {"Idle", "OuterLeave", "AcBreak", "RecvLoop"} :
          /\ pc[t] = from /\ Release(t, next, after) /\ (next = "RecvLoop" => from = "SpUndo")
    BY <1>3 DEF DecLost, RecvDec, SdUndo, SdDec, AcUndo, SpUndo
  <2> QED
    BY <1>1, <2>1 DEF Release
<1>4. CASE Find(t) \/ SpLock(t) \/ SpEnter(t) \/ EnterSend(t)
  BY <1>1, <1>4 DEF Find, SpLock, SpEnter, EnterSend, Enter
<1>5. CASE RecvPost(t)
  <2>1. Posts(t, "RecvLoop", "recv", "Leave") \/ Fails(t, "RecvLoop", "RecvDec")
    BY <1>5, PostEffects
  <2>2. UNCHANGED <<isSending, sendQ, moved, areas, todo, sent, echoed, cut, out>>
    BY <1>5 DEF RecvPost, Posted
  <2>3. \A s \in IDs : io'[s]["send"] = "posted" => io[s]["send"] = "posted"
    BY <1>1, <2>1 DEF Posts, Fails, IoTypes
  <2>4. Goes(t)
    BY <1>1, <2>1 DEF Posts, Fails
  <2> QED
    BY <2>2, <2>3, <2>4
<1>6. CASE AcPost(t)
  <2>1. Posts(t, "AcPost", "recv", "AcCall") \/ Fails(t, "AcPost", "AcUndo")
    BY <1>6, PostEffects
  <2>2. UNCHANGED <<isSending, sendQ, moved, areas, todo, sent, echoed, cut, out>>
    BY <1>6 DEF AcPost, Posted
  <2>3. \A s \in IDs : io'[s]["send"] = "posted" => io[s]["send"] = "posted"
    BY <1>1, <2>1 DEF Posts, Fails, IoTypes
  <2>4. Goes(t)
    BY <1>1, <2>1 DEF Posts, Fails
  <2> QED
    BY <2>2, <2>3, <2>4
<1>7. CASE AcSocket(t) \/ AcListen(t) \/ AcCall(t) \/ AcInterrupted(t) \/ AcLock(t)
           \/ AcInsert(t) \/ AcBreak(t) \/ TakeQuit(t) \/ Accept(t)
  BY <1>1, <1>7 DEF AcSocket, AcListen, AcCall, AcInterrupted, AcLock, AcInsert, AcBreak,
                    TakeQuit, Accept
<1>8. ASSUME NEW s \in IDs, NEW ty \in IoTypes, Take(t, s, ty)
      PROVE  Calm(t)
  BY <1>1, <1>8 DEF Take
<1> QED
  BY <1>2, <1>3, <1>4, <1>5, <1>6, <1>7, <1>8 DEF Moves, Step, Telling

\* and keep the invariant.
LEMMA CalmKeeps ==
  ASSUME EchoInv, StreamInv, NEW t \in Threads, Moves(t), ~Telling(t)
  PROVE  StreamInv'
<1>1. Calm(t)
  BY CalmMoves
<1>2. \A u \in Threads \ {t} : pc'[u] = pc[u] /\ cur'[u] = cur[u]
  <2>1. TypeOK
    BY DEF EchoInv
  <2> QED
    BY <2>1, OthersStay DEF TypeOK
<1>3. \A u \in Threads : Goes(u)
  BY <1>1, <1>2 DEF Calm, Goes, StreamInv
<1>4. areas' = [s \in IDs |-> areas'[s]]
  BY <1>1 DEF Calm, StreamInv, StreamType
<1> QED
  BY <1>1, <1>3, <1>4, StillKeeps DEF Calm, Still

\* One session is concerned, and the others are not.
Aside(s) ==
  /\ \A r \in IDs \ {s} :
       /\ sendQ'[r] = sendQ[r] /\ moved'[r] = moved[r] /\ areas'[r] = areas[r]
       /\ isSending'[r] = isSending[r] /\ sent'[r] = sent[r] /\ echoed'[r] = echoed[r]
       /\ out'[r] = out[r] /\ (r \in cut' <=> r \in cut)
       /\ io'[r]["send"] = "posted" => io[r]["send"] = "posted"
  /\ \A u \in Threads : cur'[u] # s =>
       /\ pc'[u] \in Posting => pc[u] \in Posting /\ cur'[u] = cur[u]
       /\ pc'[u] \in InRecv => pc[u] \in InRecv /\ cur'[u] = cur[u] /\ todo'[u] = todo[u]

\* It is enough to look at that one.
LEMMA AsideKeeps ==
  ASSUME StreamInv, NEW s \in IDs, Aside(s), StreamType', (SentOK(s) /\ FramesOK(s) /\ WholeOK(s))',
         \A t \in Threads : pc'[t] \in Answering => todo'[t] > 0
  PROVE  StreamInv'
<1>1. ASSUME NEW r \in IDs \ {s}
      PROVE  (SentOK(r) /\ FramesOK(r) /\ WholeOK(r))'
  <2>1. SentOK(r) /\ FramesOK(r) /\ WholeOK(r)
    BY DEF StreamInv
  <2>2. SentOK(r)'
    BY <2>1 DEF SentOK, Aside
  <2>3. FramesOK(r)'
    BY <2>1 DEF FramesOK, Aside
  <2>4. WholeOK(r)'
    BY <2>1, Zenon DEF WholeOK, Unsent, Aside
  <2> QED
    BY <2>2, <2>3, <2>4
<1> QED
  BY <1>1 DEF StreamInv

\* What a thread may rely on when it works on its session.
LEMMA Mine ==
  ASSUME EchoInv, StreamInv, NEW t \in Threads, Uses(t)
  PROVE  /\ cur[t] \in IDs /\ TypeOK /\ StreamType
         /\ SentOK(cur[t]) /\ FramesOK(cur[t]) /\ WholeOK(cur[t])
         /\ TurnOK(t) /\ AloneOK(t)
BY DEF EchoInv, StreamInv, ThereOK

\* The other threads stay where they are.
LEMMA OnlyMe ==
  ASSUME EchoInv, NEW t \in Threads, Moves(t)
  PROVE  \A u \in Threads \ {t} : pc'[u] = pc[u] /\ cur'[u] = cur[u]
<1>1. TypeOK
  BY DEF EchoInv
<1> QED
  BY <1>1, OthersStay DEF TypeOK

\* What a receive brought becomes what is to be handled.
LEMMA EnterRecvKeeps ==
  ASSUME EchoInv, StreamInv, NEW t \in Threads, EnterRecv(t)
  PROVE  StreamInv'
<1>1. PICK s : s = cur[t]
  BY Zenon
<1>2. pc[t] = "EnterRecv" /\ Moves(t)
  BY DEF EnterRecv, At, Moves, Step
<1>3. /\ s \in IDs /\ TypeOK /\ StreamType /\ SentOK(s) /\ FramesOK(s) /\ WholeOK(s) /\ TurnOK(t)
  BY <1>1, <1>2, Mine DEF Uses, Serving
<1>4. /\ UNCHANGED <<isSending, sendQ, io, areas, cur, sent, echoed, cut, out>>
      /\ todo' = [todo EXCEPT ![t] = moved[s]["recv"]]
      /\ moved' = [moved EXCEPT ![s]["recv"] = 0]
      /\ pc' = [pc EXCEPT ![t] = "RecvLoop"]
  BY <1>1 DEF EnterRecv, session, local, history, Goto
<1>5. \A u \in Threads \ {t} : pc'[u] = pc[u] /\ cur'[u] = cur[u] /\ todo'[u] = todo[u]
  BY <1>2, <1>4, OnlyMe
<1>6. pc'[t] = "RecvLoop" /\ todo'[t] = moved[s]["recv"]
  BY <1>3, <1>4 DEF TypeOK, StreamType
<1>7. /\ moved[s]["recv"] \in Nat /\ moved'[s]["recv"] = 0 /\ moved'[s]["send"] = moved[s]["send"]
      /\ \A r \in IDs \ {s} : moved'[r] = moved[r]
      /\ moved' \in [IDs -> [IoTypes -> Nat]]
  BY <1>3, <1>4 DEF StreamType, IoTypes
<1>8. StreamType'
  BY <1>3, <1>4, <1>7 DEF StreamType
<1>9. Aside(s)
  BY <1>1, <1>4, <1>5, <1>7 DEF Aside
<1>10. SentOK(s)'
  BY <1>3, <1>4, <1>5, <1>6, <1>7 DEF SentOK, Posting
<1>11. FramesOK(s)'
  <2>1. \A u \in Threads \ {t} : pc[u] \in InRecv => cur[u] # s
    BY <1>1, <1>2, <1>3 DEF TurnOK, RecvTurn, InRecv
  <2>2. sent[s] \in Nat /\ echoed[s] \in Nat
    BY <1>3 DEF StreamType
  <2>3. echoed[s] + moved[s]["recv"] <= sent[s] /\ sent[s] <= MaxFrames[s]
    BY <1>3 DEF FramesOK
  <2>4. sent'[s] = sent[s] /\ echoed'[s] = echoed[s]
    BY <1>4
  <2> QED
    BY <1>5, <1>6, <1>7, <2>1, <2>2, <2>3, <2>4 DEF FramesOK
<1>12. WholeOK(s)'
  BY <1>3, <1>4, <1>7, Zenon DEF WholeOK, Unsent
<1>13. \A u \in Threads : pc'[u] \in Answering => todo'[u] > 0
  BY <1>5, <1>6 DEF StreamInv, Answering
<1> QED
  BY <1>3, <1>8, <1>9, <1>10, <1>11, <1>12, <1>13, AsideKeeps

\* A place of a send's areas stays where it is while more is written behind.
LEMMA CoversMore ==
  ASSUME NEW a, NEW r, NEW q, NEW n, Covers(a, r, n), RingOK(r), RingOK(q), q.front = r.front,
         UseSize(r) <= UseSize(q)
  PROVE  Covers(a, q, n)
<1>1. PICK k \in Nat, m \in Nat :
        /\ a = <<[start |-> r.front, len |-> k], [start |-> 0, len |-> m]>>
        /\ k + m = n /\ n <= UseSize(r) /\ k <= Capacity - r.front
        /\ m > 0 => k = Capacity - r.front
  BY DEF Covers
<1>2. n <= UseSize(q)
  <2>1. UseSize(r) \in Int /\ UseSize(q) \in Int
    BY Sizes
  <2>2. PICK x \in Int, y \in Int : x = UseSize(r) /\ y = UseSize(q)
    <3>1. UseSize(r) \in Int /\ UseSize(q) \in Int
      BY <2>1
    <3> QED
      BY <3>1, Zenon
  <2>3. n \in Int /\ n <= x /\ x <= y
    BY <1>1, <2>2
  <2> QED
    BY <2>2, <2>3
<1> QED
  BY <1>1, <1>2 DEF Covers

\* What is left of a queue that something was appended to.
LEMMA TailGrows ==
  ASSUME NEW q \in Seq(Int), NEW f \in Seq(Int), NEW m \in 0 .. Len(q)
  PROVE  /\ q \o f \in Seq(Int)
         /\ SubSeq(q \o f, m + 1, Len(q \o f)) = SubSeq(q, m + 1, Len(q)) \o f
<1>1. PICK g \in Seq(Int) : g = q \o f
  <2>1. q \o f \in Seq(Int)
    BY ConcatProperties
  <2> QED
    BY <2>1, Zenon
<1>2. PICK x \in Nat, y \in Nat : x = Len(q) /\ y = Len(f)
  <2>1. Len(q) \in Nat /\ Len(f) \in Nat
    OBVIOUS
  <2> QED
    BY <2>1, Zenon
<1>3. Len(g) = x + y /\ \A i \in 1 .. x + y : g[i] = IF i <= x THEN q[i] ELSE f[i - x]
  BY <1>1, <1>2, ConcatProperties
<1>4. PICK a \in Seq(Int), b \in Seq(Int) : a = SubSeq(g, m + 1, Len(g)) /\ b = SubSeq(q, m + 1, Len(q))
  <2>1. m \in 0 .. Len(g)
    BY <1>2, <1>3
  <2> QED
    BY <2>1, Tails
<1>5. Len(a) = x + y - m /\ \A i \in 1 .. x + y - m : a[i] = g[m + i]
  <2>1. m \in 0 .. Len(g)
    BY <1>2, <1>3
  <2> QED
    BY <1>3, <1>4, <2>1, Tails
<1>6. Len(b) = x - m /\ \A i \in 1 .. x - m : b[i] = q[m + i]
  BY <1>2, <1>4, Tails
<1>7. /\ b \o f \in Seq(Int) /\ Len(b \o f) = (x - m) + y
      /\ \A i \in 1 .. (x - m) + y : (b \o f)[i] = IF i <= x - m THEN b[i] ELSE f[i - (x - m)]
  <2>1. /\ b \o f \in Seq(Int) /\ Len(b \o f) = Len(b) + Len(f)
        /\ \A i \in 1 .. Len(b) + Len(f) : (b \o f)[i] = IF i <= Len(b) THEN b[i] ELSE f[i - Len(b)]
    BY ConcatProperties
  <2>2. Len(b) = x - m /\ Len(f) = y
    BY <1>2, <1>6
  <2> QED
    BY <2>1, <2>2, Zenon
<1>8. m \in 0 .. x
  BY <1>2
<1>9. ASSUME NEW i \in 1 .. x + y - m
      PROVE  a[i] = (b \o f)[i]
  <2>1. m + i \in 1 .. x + y /\ i \in 1 .. (x - m) + y
    BY <1>8
  <2>2. PICK j \in 1 .. x + y : j = m + i
    BY <2>1, Zenon
  <2>3. a[i] = g[j]
    <3>1. a[i] = g[m + i]
      BY <1>5
    <3> QED
      BY <2>2, <3>1, Zenon
  <2>4. CASE i <= x - m
    <3>1. j <= x /\ i \in 1 .. x - m
      BY <1>8, <2>2, <2>4
    <3>2. g[j] = q[j]
      BY <1>3, <3>1
    <3>3. b[i] = q[j]
      <4>1. b[i] = q[m + i]
        BY <1>6, <3>1
      <4> QED
        BY <2>2, <4>1, Zenon
    <3>4. (b \o f)[i] = b[i]
      BY <1>7, <2>1, <2>4
    <3> QED
      BY <2>3, <3>2, <3>3, <3>4, Zenon
  <2>5. CASE ~(i <= x - m)
    <3>1. ~(j <= x) /\ j - x = i - (x - m)
      BY <1>8, <2>2, <2>5
    <3>2. g[j] = f[j - x]
      BY <1>3, <3>1
    <3>3. (b \o f)[i] = f[i - (x - m)]
      BY <1>7, <2>1, <2>5
    <3> QED
      BY <2>3, <3>1, <3>2, <3>3, Zenon
  <2> QED
    BY <2>4, <2>5
<1>10. a = b \o f
  <2>1. (x - m) + y = x + y - m
    BY <1>8
  <2> QED
    BY <1>5, <1>7, <1>9, <2>1, Alike
<1> QED
  BY <1>1, <1>4, <1>10

\* Three sequences, one after the other.
LEMMA Three ==
  ASSUME NEW a \in Seq(Int), NEW b \in Seq(Int), NEW c \in Seq(Int)
  PROVE  (a \o b) \o c = a \o (b \o c)
<1>1. PICK l \in Nat, m \in Nat, n \in Nat : l = Len(a) /\ m = Len(b) /\ n = Len(c)
  <2>1. Len(a) \in Nat /\ Len(b) \in Nat /\ Len(c) \in Nat
    OBVIOUS
  <2> QED
    BY <2>1, Zenon
<1>2. PICK x \in Seq(Int), y \in Seq(Int) : x = a \o b /\ y = b \o c
  <2>1. a \o b \in Seq(Int) /\ b \o c \in Seq(Int)
    BY ConcatProperties
  <2> QED
    BY <2>1, Zenon
<1>3. Len(x) = l + m /\ \A i \in 1 .. l + m : x[i] = IF i <= l THEN a[i] ELSE b[i - l]
  BY <1>1, <1>2, ConcatProperties
<1>4. Len(y) = m + n /\ \A i \in 1 .. m + n : y[i] = IF i <= m THEN b[i] ELSE c[i - m]
  BY <1>1, <1>2, ConcatProperties
<1>5. PICK p \in Seq(Int), q \in Seq(Int) : p = x \o c /\ q = a \o y
  <2>1. x \o c \in Seq(Int) /\ a \o y \in Seq(Int)
    BY ConcatProperties
  <2> QED
    BY <2>1, Zenon
<1>6. Len(p) = l + m + n /\ \A i \in 1 .. l + m + n : p[i] = IF i <= l + m THEN x[i] ELSE c[i - (l + m)]
  BY <1>1, <1>3, <1>5, ConcatProperties
<1>7. Len(q) = l + m + n /\ \A i \in 1 .. l + m + n : q[i] = IF i <= l THEN a[i] ELSE y[i - l]
  <2>1. Len(q) = l + (m + n) /\ \A i \in 1 .. l + (m + n) : q[i] = IF i <= l THEN a[i] ELSE y[i - l]
    BY <1>1, <1>4, <1>5, ConcatProperties
  <2>2. l + (m + n) = l + m + n
    OBVIOUS
  <2> QED
    BY <2>1, <2>2, Zenon
<1>8. ASSUME NEW i \in 1 .. l + m + n
      PROVE  p[i] = q[i]
  <2>1. CASE i <= l
    <3>1. i \in 1 .. l + m /\ i <= l + m
      BY <2>1
    <3> QED
      BY <1>3, <1>6, <1>7, <2>1, <3>1
  <2>2. CASE ~(i <= l) /\ i <= l + m
    <3>1. i - l \in 1 .. m + n /\ i - l <= m /\ i \in 1 .. l + m
      BY <2>2
    <3> QED
      BY <1>3, <1>4, <1>6, <1>7, <2>2, <3>1
  <2>3. CASE ~(i <= l + m)
    <3>1. i - l \in 1 .. m + n /\ ~(i - l <= m) /\ ~(i <= l) /\ (i - l) - m = i - (l + m)
      BY <2>3
    <3> QED
      BY <1>4, <1>6, <1>7, <2>3, <3>1
  <2> QED
    BY <2>1, <2>2, <2>3
<1>9. p = q
  BY <1>6, <1>7, <1>8, Alike
<1> QED
  BY <1>2, <1>5, <1>9

\* All of a sequence is a part of it.
LEMMA AllOf == ASSUME NEW q \in Seq(Int) PROVE SubSeq(q, 1, Len(q)) = q
<1>1. Len(q) \in 0 .. Len(q)
  OBVIOUS
<1> QED
  BY <1>1, Tails, Alike

\* SendPacket enqueues a header and a value; both are taken whole, or not.
Enqueued(r, v, frame, header, value, half, q) ==
  /\ frame = Echo(v) /\ header = SubSeq(frame, 1, 1) /\ value = SubSeq(frame, 2, Len(frame))
  /\ half = Enqueue(r, header) /\ q = Enqueue(half, value)

LEMMA FrameEnqueued ==
  ASSUME NEW r, RingOK(r), NEW v \in Int, NEW frame, NEW header, NEW value, NEW half, NEW q,
         Enqueued(r, v, frame, header, value, half, q)
  PROVE  /\ RingOK(q) /\ q.front = r.front /\ UseSize(r) <= UseSize(q)
         /\ EnqueueSize(r, header) + EnqueueSize(half, value) = Len(frame) =>
              Filled(q) = Filled(r) \o frame
<1>1. /\ frame = Echo(v) /\ header = SubSeq(frame, 1, 1) /\ value = SubSeq(frame, 2, Len(frame))
      /\ half = Enqueue(r, header) /\ q = Enqueue(half, value)
  BY DEF Enqueued
<1>2. frame \in Seq(Int) /\ Len(frame) = BodySize + 1 /\ BodySize \in Nat
  BY <1>1, EchoIs, EchoAssumption
<1>3. /\ header \in Seq(Int) /\ Len(header) = 1 /\ value \in Seq(Int) /\ Len(value) = BodySize
      /\ header \o value = frame
  <2>1. 1 \in 0 .. Len(frame) /\ 1 + 1 = 2 /\ Len(frame) - 1 = BodySize
    BY <1>2
  <2>2. header = SubSeq(frame, 1, 1) /\ value = SubSeq(frame, 1 + 1, Len(frame))
    BY <1>1, <2>1
  <2> QED
    BY <1>2, <2>1, <2>2, Tails
<1>4. PICK n \in Int : n = EnqueueSize(r, header)
  <2>1. EnqueueSize(r, header) \in 0 .. Len(header)
    BY <1>3, EnqueueIs
  <2> QED
    BY <1>3, <2>1
<1>5. /\ RingOK(half) /\ half.front = r.front /\ n \in 0 .. 1
      /\ UseSize(half) = UseSize(r) + n /\ Filled(half) = Filled(r) \o SubSeq(header, 1, n)
  BY <1>1, <1>3, <1>4, EnqueueIs
<1>6. PICK k \in Int : k = EnqueueSize(half, value)
  <2>1. EnqueueSize(half, value) \in 0 .. Len(value)
    BY <1>3, <1>5, EnqueueIs
  <2> QED
    BY <1>2, <1>3, <2>1
<1>7. /\ RingOK(q) /\ q.front = half.front /\ k \in 0 .. BodySize
      /\ UseSize(q) = UseSize(half) + k /\ Filled(q) = Filled(half) \o SubSeq(value, 1, k)
  BY <1>1, <1>3, <1>5, <1>6, EnqueueIs
<1>8. UseSize(r) <= UseSize(q)
  <2>1. PICK x \in Int : x = UseSize(r)
    <3>1. UseSize(r) \in Int
      BY Sizes
    <3> QED
      BY <3>1, Zenon
  <2> QED
    BY <1>5, <1>7, <2>1
<1>9. ASSUME n + k = Len(frame)
      PROVE  Filled(q) = Filled(r) \o frame
  <2>1. n = 1 /\ k = BodySize
    <3>1. PICK l \in Nat : l = BodySize
      <4>1. BodySize \in Nat
        BY <1>2
      <4> QED
        BY <4>1, Zenon
    <3>2. n + k = l + 1 /\ n \in 0 .. 1 /\ k \in 0 .. l
      BY <1>2, <1>5, <1>7, <1>9, <3>1
    <3>3. n = 1 /\ k = l
      BY <3>2
    <3> QED
      BY <3>1, <3>3
  <2>2. SubSeq(header, 1, n) = header /\ SubSeq(value, 1, k) = value
    BY <1>3, <2>1, AllOf
  <2>3. Filled(q) = (Filled(r) \o header) \o value
    BY <1>5, <1>7, <2>2
  <2>4. PICK a \in Seq(Int) : a = Filled(r)
    <3>1. Filled(r) \in Seq(Int)
      BY FilledIs
    <3> QED
      BY <3>1, Zenon
  <2>5. (a \o header) \o value = a \o (header \o value)
    <3>1. header \in Seq(Int) /\ value \in Seq(Int)
      BY <1>3
    <3> QED
      BY <2>4, <3>1, Three
  <2> QED
    BY <1>3, <2>3, <2>4, <2>5
<1> QED
  BY <1>4, <1>5, <1>6, <1>7, <1>8, <1>9

\* SendPacket: one more echo is in sendQ, unless it was cut.
LEMMA SpEnqueueKeeps ==
  ASSUME EchoInv, StreamInv, NEW t \in Threads, SpEnqueue(t)
  PROVE  StreamInv'
<1>1. PICK s, e, r : s = cur[t] /\ e = echoed[s] /\ r = sendQ[s]
  BY Zenon
<1>2. pc[t] = "SpEnqueue" /\ Moves(t)
  BY DEF SpEnqueue, At, Moves, Step
<1>3. /\ s \in IDs /\ TypeOK /\ StreamType /\ SentOK(s) /\ FramesOK(s) /\ WholeOK(s) /\ TurnOK(t)
      /\ todo[t] > 0
  <2>1. todo[t] > 0
    BY <1>2 DEF StreamInv, Answering
  <2> QED
    BY <1>1, <1>2, <2>1, Mine DEF Uses, Serving
<1>4. /\ e \in Nat /\ RingOK(r) /\ moved[s]["send"] \in Nat /\ moved[s]["recv"] \in Nat
      /\ todo[t] \in Nat /\ sent[s] \in Nat /\ out[s] \in Seq(Int) /\ isSending[s] \in BOOLEAN
  BY <1>1, <1>3 DEF StreamType, TypeOK, IoTypes, RingOK
<1>5. PICK frame, header, value : /\ frame = Echo(e + 1) /\ header = SubSeq(frame, 1, 1)
                                  /\ value = SubSeq(frame, 2, Len(frame))
  OBVIOUS
<1>6. PICK half, q : half = Enqueue(r, header) /\ q = Enqueue(half, value)
  BY Zenon
<1>7. /\ sendQ' = [sendQ EXCEPT ![s] = q]
      /\ cut' = IF EnqueueSize(r, header) + EnqueueSize(half, value) = Len(frame)
                THEN cut ELSE cut \cup {s}
      /\ echoed' = [echoed EXCEPT ![s] = echoed[s] + 1]
      /\ todo' = [todo EXCEPT ![t] = todo[t] - 1]
      /\ isSending' = [isSending EXCEPT ![s] = TRUE]
      /\ pc' = [pc EXCEPT ![t] = IF isSending[s] THEN "RecvLoop" ELSE "SpPost"]
      /\ UNCHANGED <<moved, areas, io, cur, sent, out>>
  BY <1>1, <1>5, <1>6 DEF SpEnqueue, system, local, Goto
<1>8. \A u \in Threads \ {t} : pc'[u] = pc[u] /\ cur'[u] = cur[u] /\ todo'[u] = todo[u]
  BY <1>2, <1>7, OnlyMe
<1>9. /\ pc'[t] = (IF isSending[s] THEN "RecvLoop" ELSE "SpPost") /\ todo'[t] = todo[t] - 1
      /\ sendQ'[s] = q /\ echoed'[s] = e + 1 /\ isSending'[s] = TRUE
  BY <1>1, <1>3, <1>7 DEF TypeOK, StreamType
<1>10. /\ RingOK(q) /\ q.front = r.front /\ UseSize(r) <= UseSize(q)
       /\ EnqueueSize(r, header) + EnqueueSize(half, value) = Len(frame) =>
            Filled(q) = Filled(r) \o frame
  <2>1. PICK v \in Int : v = e + 1
    <3>1. e + 1 \in Int
      BY <1>4
    <3> QED
      BY <3>1, Zenon
  <2>2. Enqueued(r, v, frame, header, value, half, q)
    BY <1>5, <1>6, <2>1 DEF Enqueued
  <2> QED
    BY <1>4, <2>2, FrameEnqueued
<1>11. StreamType'
  <2>1. todo[t] - 1 \in Nat /\ echoed[s] + 1 \in Nat
    BY <1>1, <1>3, <1>4
  <2> QED
    BY <1>3, <1>7, <1>10, <2>1 DEF StreamType, RingOK
<1>12. Aside(s)
  <2>1. \A x \in IDs \ {s} :
          /\ sendQ'[x] = sendQ[x] /\ isSending'[x] = isSending[x] /\ echoed'[x] = echoed[x]
          /\ x \in cut' <=> x \in cut
    BY <1>3, <1>7 DEF StreamType, TypeOK
  <2> QED
    BY <1>1, <1>7, <1>8, <2>1 DEF Aside
<1>13. SentOK(s)'
  <2>1. moved[s]["send"] <= UseSize(q)
    <3>1. PICK x \in Int, y \in Int : x = UseSize(r) /\ y = UseSize(q)
      <4>1. UseSize(r) \in Int /\ UseSize(q) \in Int
        BY <1>4, <1>10, Sizes
      <4> QED
        BY <4>1, Zenon
    <3>2. moved[s]["send"] <= x /\ x <= y
      BY <1>1, <1>3, <1>10, <3>1 DEF SentOK
    <3> QED
      BY <1>4, <3>1, <3>2
  <2>2. io[s]["send"] = "posted" => \E n \in Nat : Covers(areas[s], q, n)
    BY <1>1, <1>3, <1>4, <1>10, CoversMore DEF SentOK
  <2>3. moved[s]["send"] # 0 => \A u \in Threads : pc'[u] \in Posting => cur'[u] # s
    <3>1. SUFFICES ASSUME moved[s]["send"] # 0 PROVE \A u \in Threads : pc'[u] \in Posting => cur'[u] # s
      OBVIOUS
    <3>2. isSending[s] /\ \A u \in Threads : pc[u] \in Posting => cur[u] # s
      BY <1>3, <3>1 DEF SentOK
    <3>3. pc'[t] \notin Posting
      BY <1>9, <3>2 DEF Posting
    <3> QED
      BY <1>8, <3>2, <3>3
  <2>4. moved' = moved /\ areas' = areas /\ io' = io
    BY <1>7
  <2>5. moved[s]["send"] # 0 => io[s]["send"] # "posted"
    BY <1>3 DEF SentOK
  <2> HIDE DEF Covers
  <2> QED
    BY <1>9, <2>1, <2>2, <2>3, <2>4, <2>5 DEF SentOK
<1>14. FramesOK(s)'
  <2>1. \A u \in Threads \ {t} : pc[u] \in InRecv => cur[u] # s
    BY <1>1, <1>2, <1>3 DEF TurnOK, RecvTurn, InRecv, InSend
  <2>2. e + moved[s]["recv"] + todo[t] <= sent[s] /\ sent[s] <= MaxFrames[s]
    BY <1>1, <1>2, <1>3 DEF FramesOK, InRecv, InSend
  <2>3. (e + 1) + moved[s]["recv"] <= sent[s]
    BY <1>3, <1>4, <2>2
  <2>4. (e + 1) + moved[s]["recv"] + (todo[t] - 1) <= sent[s]
    BY <1>3, <1>4, <2>2
  <2>5. moved' = moved /\ sent' = sent
    BY <1>7
  <2> QED
    BY <1>8, <1>9, <2>1, <2>2, <2>3, <2>4, <2>5 DEF FramesOK
<1>15. WholeOK(s)'
  <2>1. SUFFICES ASSUME s \notin cut'
                 PROVE  out'[s] \o Unsent(s)' = Echoes(s)[echoed'[s]]
    BY DEF WholeOK, Echoes
  <2>2. EnqueueSize(r, header) + EnqueueSize(half, value) = Len(frame) /\ s \notin cut
    BY <1>7, <2>1
  <2>3. Filled(q) = Filled(r) \o frame
    BY <1>10, <2>2
  <2>4. frame \in Seq(Int) /\ Filled(r) \in Seq(Int) /\ moved[s]["send"] \in 0 .. Len(Filled(r))
    <3>1. Filled(r) \in Seq(Int) /\ Len(Filled(r)) = UseSize(r) /\ UseSize(r) \in Nat
      BY <1>4, FilledIs, Sizes
    <3>2. moved[s]["send"] <= UseSize(r)
      BY <1>1, <1>3 DEF SentOK
    <3> QED
      <4>1. e + 1 \in Int
        BY <1>4
      <4>2. frame \in Seq(Int)
        BY <1>5, <4>1, EchoIs
      <4>3. PICK u \in Nat, m \in Nat : u = UseSize(r) /\ m = moved[s]["send"]
        <5>1. UseSize(r) \in Nat /\ moved[s]["send"] \in Nat
          BY <1>4, <3>1
        <5> QED
          BY <5>1, Zenon
      <4> QED
        BY <3>1, <3>2, <4>2, <4>3
  <2>5. Unsent(s)' = Unsent(s) \o frame /\ Unsent(s) \in Seq(Int)
    <3>1. PICK a \in Seq(Int), m \in Int : a = Filled(r) /\ m = moved[s]["send"] /\ m \in 0 .. Len(a)
      <4>1. Filled(r) \in Seq(Int) /\ moved[s]["send"] \in Int /\ moved[s]["send"] \in 0 .. Len(Filled(r))
        BY <2>4
      <4> QED
        BY <4>1, Zenon
    <3>2. SubSeq(a \o frame, m + 1, Len(a \o frame)) = SubSeq(a, m + 1, Len(a)) \o frame
          /\ SubSeq(a, m + 1, Len(a)) \in Seq(Int)
      <4>1. frame \in Seq(Int) /\ m \in 0 .. Len(a)
        BY <2>4, <3>1
      <4> QED
        BY <4>1, TailGrows, Tails
    <3>3. Unsent(s) = SubSeq(a, m + 1, Len(a))
      BY <1>1, <3>1 DEF Unsent
    <3>4. Unsent(s)' = SubSeq(a \o frame, m + 1, Len(a \o frame))
      BY <1>7, <1>9, <2>3, <3>1 DEF Unsent
    <3> QED
      BY <3>2, <3>3, <3>4
  <2>6. out[s] \o Unsent(s) = Echoes(s)[e]
    BY <1>1, <1>3, <2>2 DEF WholeOK
  <2>7. Echoes(s)[e + 1] = Echoes(s)[e] \o frame
    <3>1. e + 1 \in 1 .. MaxFrames[s] /\ e + 1 - 1 = e
      <4>1. e + moved[s]["recv"] + todo[t] <= sent[s] /\ sent[s] <= MaxFrames[s]
        BY <1>1, <1>2, <1>3 DEF FramesOK, InRecv, InSend
      <4>2. MaxFrames[s] \in Nat
        BY <1>3, EchoAssumption
      <4> QED
        BY <1>3, <1>4, <4>1, <4>2
    <3>2. PICK n : n = e + 1
      OBVIOUS
    <3>3. Echoes(s)[n] = Echoes(s)[n - 1] \o Echo(n)
      BY <1>3, <3>1, <3>2, EchoesAre
    <3>4. n - 1 = e
      BY <1>4, <3>2
    <3> QED
      BY <1>5, <3>2, <3>3, <3>4, Zenon
  <2>8. out[s] \o (Unsent(s) \o frame) = (out[s] \o Unsent(s)) \o frame
    BY <1>4, <2>4, <2>5, Three
  <2>9. out' = out
    BY <1>7
  <2> QED
    BY <1>9, <2>5, <2>6, <2>7, <2>8, <2>9
<1>16. \A u \in Threads : pc'[u] \in Answering => todo'[u] > 0
  BY <1>8, <1>9 DEF StreamInv, Answering
<1> QED
  BY <1>3, <1>11, <1>12, <1>13, <1>14, <1>15, <1>16, AsideKeeps

\* A send is posted, or is not: its areas are those of all that is in use.
SendPosted(t, s) ==
  /\ pc[t] \in Posting /\ cur[t] = s
  /\ UNCHANGED <<isSending, sendQ, moved, cur, todo, sent, echoed, cut, out>>
  /\ areas' = [areas EXCEPT ![s] = SendAreas(sendQ[s])]
  /\ \A r \in IDs \ {s} : io'[r] = io[r]
  /\ pc'[t] \in {"RecvLoop", "SpUndo"} => pc[t] \in InRecv
  /\ pc'[t] \in {"RecvLoop", "SpUndo", "SdDec", "SdUndo"}
  /\ \A u \in Threads \ {t} : pc'[u] = pc[u]

\* SendPacket and SendProc post alike,
LEMMA SendPosts ==
  ASSUME EchoInv, NEW t \in Threads, SpPost(t) \/ SdPost(t)
  PROVE  Uses(t) /\ SendPosted(t, cur[t])
<1>1. TypeOK /\ Moves(t) /\ Uses(t)
  BY DEF EchoInv, SpPost, SdPost, At, Moves, Step, Uses, Serving
<1>2. \A u \in Threads \ {t} : pc'[u] = pc[u]
  BY <1>1, OnlyMe
<1>3. /\ UNCHANGED <<isSending, sendQ, moved, cur, todo, sent, echoed, cut, out>>
      /\ areas' = [areas EXCEPT ![cur[t]] = SendAreas(sendQ[cur[t]])]
  BY DEF SpPost, SdPost, PostSend, Posted, session, local, history
<1>4. CASE SpPost(t)
  <2>1. Posts(t, "SpPost", "send", "RecvLoop") \/ Fails(t, "SpPost", "SpUndo")
    BY <1>4, PostEffects
  <2>2. pc[t] = "SpPost" /\ pc'[t] \in {"RecvLoop", "SpUndo"}
    BY <1>1, <2>1 DEF Posts, Fails, TypeOK
  <2>3. \A r \in IDs \ {cur[t]} : io'[r] = io[r]
    BY <1>1, <2>1 DEF Posts, Fails, TypeOK
  <2> QED
    BY <1>1, <1>2, <1>3, <2>2, <2>3 DEF SendPosted, Posting, InRecv, InSend
<1>5. CASE SdPost(t)
  <2>1. Posts(t, "SdPost", "send", "SdDec") \/ Fails(t, "SdPost", "SdUndo")
    BY <1>5, PostEffects
  <2>2. pc[t] = "SdPost" /\ pc'[t] \in {"SdDec", "SdUndo"}
    BY <1>1, <2>1 DEF Posts, Fails, TypeOK
  <2>3. \A r \in IDs \ {cur[t]} : io'[r] = io[r]
    BY <1>1, <2>1 DEF Posts, Fails, TypeOK
  <2> QED
    BY <1>1, <1>2, <1>3, <2>2, <2>3 DEF SendPosted, Posting
<1> QED
  BY <1>4, <1>5

\* and what they give WSASend is what the queue holds.
LEMMA SendPostedKeeps ==
  ASSUME EchoInv, StreamInv, NEW t \in Threads, SpPost(t) \/ SdPost(t)
  PROVE  StreamInv'
<1>1. PICK s : s = cur[t] /\ SendPosted(t, s) /\ Uses(t)
  BY SendPosts
<1>2. /\ s \in IDs /\ StreamType /\ SentOK(s) /\ FramesOK(s) /\ WholeOK(s)
  BY <1>1, Mine
<1>3. UNCHANGED <<isSending, sendQ, moved, cur, todo, sent, echoed, cut, out>>
  BY <1>1 DEF SendPosted
<1>4. areas' = [r \in IDs |-> areas'[r]] /\ areas'[s] = SendAreas(sendQ[s])
      /\ \A r \in IDs \ {s} : areas'[r] = areas[r] /\ io'[r] = io[r]
  BY <1>1, <1>2 DEF SendPosted, StreamType
<1>5. \A u \in Threads : /\ pc'[u] \in Posting => pc[u] \in Posting
                         /\ pc'[u] \in InRecv => pc[u] \in InRecv
                         /\ pc'[u] \in Answering => pc[u] \in Answering
  <2>1. \A u \in Threads \ {t} : pc'[u] = pc[u]
    BY <1>1 DEF SendPosted
  <2>2. pc'[t] \notin Posting \cup Answering /\ (pc'[t] \in InRecv => pc[t] \in InRecv)
    BY <1>1 DEF SendPosted, Posting, Answering, InRecv, InSend
  <2> QED
    BY <2>1, <2>2
<1>6. StreamType'
  BY <1>2, <1>3, <1>4 DEF StreamType
<1>7. Aside(s)
  BY <1>3, <1>4, <1>5 DEF Aside
<1>8. SentOK(s)'
  <2>1. moved[s]["send"] = 0
    BY <1>1, <1>2 DEF SentOK, SendPosted
  <2>2. Covers(areas'[s], sendQ[s], UseSize(sendQ[s])) /\ UseSize(sendQ[s]) \in Nat
    BY <1>2, <1>4, SendCovers, Sizes DEF StreamType, RingOK
  <2> QED
    BY <1>2, <1>3, <2>1, <2>2 DEF SentOK
<1>9. FramesOK(s)'
  BY <1>2, <1>3, <1>5 DEF FramesOK
<1>10. WholeOK(s)'
  BY <1>2, <1>3, Zenon DEF WholeOK, Unsent
<1>11. \A u \in Threads : pc'[u] \in Answering => todo'[u] > 0
  BY <1>3, <1>5 DEF StreamInv
<1> QED
  BY <1>2, <1>6, <1>7, <1>8, <1>9, <1>10, <1>11, AsideKeeps

\* SendProc takes out of sendQ what the peer was sent.
LEMMA SdMoveKeeps ==
  ASSUME EchoInv, StreamInv, NEW t \in Threads, SdMove(t)
  PROVE  StreamInv'
<1>1. PICK s, r, n : s = cur[t] /\ r = sendQ[s] /\ n = moved[s]["send"]
  BY Zenon
<1>2. pc[t] = "SdMove" /\ Moves(t)
  BY DEF SdMove, At, Moves, Step
<1>3. /\ s \in IDs /\ TypeOK /\ StreamType /\ SentOK(s) /\ FramesOK(s) /\ WholeOK(s) /\ TurnOK(t)
  BY <1>1, <1>2, Mine DEF Uses, Serving
<1>4. PICK q : q = MoveFront(r, n)
  BY Zenon
<1>5. /\ sendQ' = [sendQ EXCEPT ![s] = q]
      /\ moved' = [moved EXCEPT ![s]["send"] = 0]
      /\ isSending' = [isSending EXCEPT ![s] = UseSize(q) > 0]
      /\ pc' = [pc EXCEPT ![t] = IF UseSize(q) > 0 THEN "SdPost" ELSE "SdDec"]
      /\ UNCHANGED <<areas, io, cur, todo, sent, echoed, cut, out>>
  BY <1>1, <1>4 DEF SdMove, local, history, Goto
<1>6. \A u \in Threads \ {t} : pc'[u] = pc[u] /\ cur'[u] = cur[u]
  BY <1>2, OnlyMe
<1>7. /\ pc'[t] \in {"SdPost", "SdDec"} /\ sendQ'[s] = q
      /\ moved'[s]["send"] = 0 /\ moved'[s]["recv"] = moved[s]["recv"]
      /\ moved' \in [IDs -> [IoTypes -> Nat]]
      /\ \A x \in IDs \ {s} : sendQ'[x] = sendQ[x] /\ moved'[x] = moved[x] /\ isSending'[x] = isSending[x]
  BY <1>3, <1>5 DEF TypeOK, StreamType, IoTypes
<1>8. /\ RingOK(q) /\ Filled(q) \in Seq(Int)
      /\ Filled(q) = SubSeq(Filled(r), n + 1, Len(Filled(r)))
  <2>1. RingOK(r) /\ n \in Nat /\ n <= UseSize(r)
    BY <1>1, <1>3 DEF StreamType, SentOK, RingOK, IoTypes
  <2>2. PICK u \in Nat : u = UseSize(r)
    <3>1. UseSize(r) \in Nat
      BY <2>1, Sizes
    <3> QED
      BY <3>1, Zenon
  <2>3. n \in 0 .. UseSize(r)
    BY <2>1, <2>2
  <2> QED
    BY <1>4, <2>1, <2>3, MoveFrontIs, FilledIs
<1>9. StreamType'
  BY <1>3, <1>5, <1>7, <1>8 DEF StreamType, RingOK
<1>10. Aside(s)
  BY <1>1, <1>5, <1>6, <1>7 DEF Aside
<1>11. SentOK(s)'
  <2>1. io'[s]["send"] # "posted"
    BY <1>1, <1>2, <1>3, <1>5 DEF TurnOK, SendTurn
  <2>2. PICK u \in Nat : u = UseSize(q)
    <3>1. UseSize(q) \in Nat
      BY <1>8, Sizes
    <3> QED
      BY <3>1, Zenon
  <2>3. moved'[s]["send"] <= UseSize(sendQ'[s])
    BY <1>7, <2>2
  <2> QED
    BY <1>7, <2>1, <2>3 DEF SentOK
<1>12. FramesOK(s)'
  BY <1>3, <1>5, <1>6, <1>7 DEF FramesOK, InRecv, InSend
<1>13. WholeOK(s)'
  <2>1. PICK a \in Seq(Int) : a = Filled(q)
    <3>1. Filled(q) \in Seq(Int)
      BY <1>8
    <3> QED
      BY <3>1, Zenon
  <2>2. SubSeq(a, 1, Len(a)) = a
    BY AllOf
  <2>3. Unsent(s) = a
    BY <1>1, <1>8, <2>1 DEF Unsent
  <2>4. Unsent(s)' = SubSeq(a, 0 + 1, Len(a))
    BY <1>5, <1>7, <2>1 DEF Unsent
  <2>5. Unsent(s)' = Unsent(s)
    BY <2>2, <2>3, <2>4
  <2>6. out' = out /\ echoed' = echoed /\ cut' = cut
    BY <1>5
  <2> QED
    BY <1>3, <2>5, <2>6, Zenon DEF WholeOK, Echoes
<1>14. \A u \in Threads : pc'[u] \in Answering => todo'[u] > 0
  BY <1>5, <1>6, <1>7 DEF StreamInv, Answering
<1> QED
  BY <1>3, <1>9, <1>10, <1>11, <1>12, <1>13, <1>14, AsideKeeps

\* A queue that is empty.
LEMMA EmptyIs ==
  ASSUME NEW r, r = EmptyQ
  PROVE  RingOK(r) /\ UseSize(r) = 0 /\ Filled(r) = <<>>
<1>1. r.front = 0 /\ r.rear = 0 /\ r.buffer \in [Positions -> Int] /\ r \in Rings
  BY RingAssumption DEF EmptyQ, Rings, Positions, Unwritten
<1>2. UseSize(r) = 0
  BY <1>1 DEF UseSize
<1>3. Filled(r) \in Seq(Int) /\ Len(Filled(r)) = 0
  BY <1>1, <1>2, FilledIs DEF RingOK
<1> QED
  BY <1>1, <1>2, <1>3 DEF RingOK

\* What a session begins with, and what is left of it.
LEMMA NothingYet ==
  ASSUME NEW s \in IDs, sendQ[s] = EmptyQ, moved[s]["send"] = 0, echoed[s] = 0, out[s] = <<>>
  PROVE  WholeOK(s)
<1>1. Filled(sendQ[s]) = <<>>
  BY EmptyIs
<1>2. Unsent(s) = <<>>
  BY <1>1 DEF Unsent
<1>3. Echoes(s)[0] = <<>>
  BY EchoesAre
<1> QED
  BY <1>2, <1>3 DEF WholeOK

\* The same of the state that a step leads to.
LEMMA NothingLeft ==
  ASSUME NEW s \in IDs, sendQ'[s] = EmptyQ, moved'[s]["send"] = 0, echoed'[s] = 0, out'[s] = <<>>
  PROVE  WholeOK(s)'
<1>1. Filled(sendQ'[s]) = <<>>
  BY EmptyIs
<1>2. Unsent(s)' = <<>>
  BY <1>1 DEF Unsent
<1>3. Echoes(s)[0] = <<>>
  BY EchoesAre
<1> QED
  BY <1>2, <1>3 DEF WholeOK, Echoes

\* With the session its streams are gone.
LEMMA RelDeleteKeeps ==
  ASSUME EchoInv, StreamInv, NEW t \in Threads, RelDelete(t)
  PROVE  StreamInv'
<1>1. PICK s : s = cur[t]
  BY Zenon
<1>2. pc[t] = "RelDelete" /\ Moves(t)
  BY DEF RelDelete, At, Moves, Step
<1>3. /\ s \in IDs /\ TypeOK /\ StreamType /\ SentOK(s) /\ FramesOK(s) /\ AloneOK(t)
  BY <1>1, <1>2, Mine DEF Uses
<1>4. /\ sendQ' = [sendQ EXCEPT ![s] = EmptyQ]
      /\ moved' = [moved EXCEPT ![s] = [ty \in IoTypes |-> 0]]
      /\ isSending' = [isSending EXCEPT ![s] = FALSE]
      /\ echoed' = [echoed EXCEPT ![s] = 0]
      /\ cut' = cut \ {s}
      /\ out' = [out EXCEPT ![s] = <<>>]
      /\ pc' = [pc EXCEPT ![t] = back[t]]
      /\ UNCHANGED <<areas, io, todo, sent>>
  BY <1>1 DEF RelDelete, Goto
<1>5. \A u \in Threads \ {t} : pc'[u] = pc[u] /\ cur'[u] = cur[u]
  BY <1>2, OnlyMe
<1>6. pc'[t] \in {"Idle", "OuterLeave", "AcBreak"}
  BY <1>3, <1>4 DEF TypeOK
<1>7. /\ sendQ'[s] = EmptyQ /\ moved'[s]["send"] = 0 /\ moved'[s]["recv"] = 0 /\ echoed'[s] = 0
      /\ out'[s] = <<>>
      /\ \A x \in IDs \ {s} : /\ sendQ'[x] = sendQ[x] /\ moved'[x] = moved[x]
                              /\ isSending'[x] = isSending[x] /\ echoed'[x] = echoed[x]
                              /\ out'[x] = out[x] /\ (x \in cut' <=> x \in cut)
  BY <1>3, <1>4 DEF TypeOK, StreamType, IoTypes
<1>8. ioCount[s] = 0 /\ CountExact
  BY <1>1, <1>2, <1>3 DEF AloneOK, Releasing, EchoInv
<1>9. EmptyQ \in Rings /\ UseSize(EmptyQ) = 0
  BY EmptyIs DEF RingOK
<1>10. StreamType'
  BY <1>3, <1>4, <1>9 DEF StreamType
<1>11. Aside(s)
  BY <1>4, <1>5, <1>6, <1>7 DEF Aside, Posting, InRecv, InSend
<1>12. SentOK(s)'
  <2>1. io[s]["send"] = "idle"
    BY <1>3, <1>8, CountFacts DEF IoTypes
  <2> QED
    BY <1>4, <1>7, <1>9, <2>1 DEF SentOK
<1>13. FramesOK(s)'
  <2>1. \A u \in Threads : pc'[u] \in InRecv => cur'[u] # s
    <3>1. \A u \in Threads : pc[u] \in InRecv => cur[u] # s
      BY <1>8, Busy DEF InRecv, InSend, Serving
    <3>2. pc'[t] \notin InRecv
      BY <1>6 DEF InRecv, InSend
    <3> QED
      BY <1>5, <3>1, <3>2
  <2>2. sent'[s] \in Nat /\ sent'[s] <= MaxFrames[s]
    BY <1>3, <1>4 DEF StreamType, FramesOK
  <2> QED
    BY <1>7, <2>1, <2>2 DEF FramesOK
<1>14. WholeOK(s)'
  BY <1>3, <1>7, NothingLeft
<1>15. \A u \in Threads : pc'[u] \in Answering => todo'[u] > 0
  BY <1>4, <1>5, <1>6 DEF StreamInv, Answering
<1> QED
  BY <1>3, <1>10, <1>11, <1>12, <1>13, <1>14, <1>15, AsideKeeps

\* Frames come while nobody handles earlier ones.
LEMMA ArriveKeeps ==
  ASSUME EchoInv, StreamInv, NEW s \in IDs, Arrive(s)
  PROVE  StreamInv'
<1>1. /\ StreamType /\ TypeOK /\ SentOK(s) /\ FramesOK(s) /\ WholeOK(s) /\ \A t \in Threads : TurnOK(t)
  BY DEF StreamInv, EchoInv
<1>2. PICK n \in 1 .. MaxFrames[s] - sent[s] :
        /\ sent' = [sent EXCEPT ![s] = sent[s] + n]
        /\ moved' = [moved EXCEPT ![s]["recv"] = n]
  BY DEF Arrive
<1>3. /\ io[s]["recv"] = "posted" /\ io' = [io EXCEPT ![s]["recv"] = "ok"]
      /\ UNCHANGED <<isSending, sendQ, areas, pc, cur, todo, echoed, cut, out>>
  BY DEF Arrive, session, local
<1>4. MaxFrames[s] \in Nat /\ sent[s] \in Nat /\ echoed[s] \in Nat /\ moved[s]["recv"] \in Nat
  BY <1>1, EchoAssumption DEF StreamType, IoTypes
<1>5. n \in Nat /\ sent[s] + n <= MaxFrames[s]
  BY <1>4
<1>6. /\ sent'[s] = sent[s] + n /\ moved'[s]["recv"] = n /\ moved'[s]["send"] = moved[s]["send"]
      /\ moved' \in [IDs -> [IoTypes -> Nat]] /\ io'[s]["send"] = io[s]["send"]
      /\ \A x \in IDs \ {s} : moved'[x] = moved[x] /\ sent'[x] = sent[x] /\ io'[x] = io[x]
  BY <1>1, <1>2, <1>3, <1>5 DEF StreamType, TypeOK, IoTypes
<1>7. StreamType'
  BY <1>1, <1>2, <1>3, <1>4, <1>5, <1>6 DEF StreamType
<1>8. Aside(s)
  BY <1>3, <1>6 DEF Aside
<1>9. SentOK(s)'
  BY <1>1, <1>3, <1>6 DEF SentOK
<1>10. FramesOK(s)'
  <2>1. \A u \in Threads : pc[u] \in InRecv => cur[u] # s
    BY <1>1, <1>3 DEF TurnOK, RecvTurn, InRecv
  <2>2. echoed[s] + n <= sent[s] + n
    BY <1>1, <1>4, <1>5 DEF FramesOK
  <2> QED
    BY <1>3, <1>5, <1>6, <2>1, <2>2 DEF FramesOK
<1>11. WholeOK(s)'
  BY <1>1, <1>3, <1>6, Zenon DEF WholeOK, Unsent, Echoes
<1>12. \A u \in Threads : pc'[u] \in Answering => todo'[u] > 0
  BY <1>3 DEF StreamInv
<1> QED
  BY <1>7, <1>8, <1>9, <1>10, <1>11, <1>12, AsideKeeps

\* The peer reads what its areas hold: the first places in use, which leave
\* sendQ with the completion.
LEMMA DeliverKeeps ==
  ASSUME EchoInv, StreamInv, NEW s \in IDs, Deliver(s)
  PROVE  StreamInv'
<1>1. /\ StreamType /\ TypeOK /\ SentOK(s) /\ FramesOK(s) /\ WholeOK(s) /\ SessionOK(s)
      /\ \A t \in Threads : TurnOK(t)
  BY DEF StreamInv, EchoInv
<1>2. /\ io[s]["send"] = "posted" /\ io' = [io EXCEPT ![s]["send"] = "ok"]
      /\ out' = [out EXCEPT ![s] = out[s] \o InAreas(s)]
      /\ moved' = [moved EXCEPT ![s]["send"] = Len(InAreas(s))]
      /\ areas' = [areas EXCEPT ![s] = NoAreas]
      /\ UNCHANGED <<isSending, sendQ, pc, cur, todo, sent, echoed, cut>>
  BY DEF Deliver, session, local
<1>3. PICK r : r = sendQ[s] /\ RingOK(r)
  BY <1>1 DEF StreamType, RingOK
<1>4. PICK n \in Nat : Covers(areas[s], r, n)
  BY <1>1, <1>2, <1>3 DEF SentOK
<1>5. PICK a \in Seq(Int) : a = Filled(r)
  <2>1. Filled(r) \in Seq(Int)
    BY <1>3, FilledIs
  <2> QED
    BY <2>1, Zenon
<1>6. /\ n \in 0 .. UseSize(r) /\ n \in 0 .. Len(a) /\ InAreas(s) = SubSeq(a, 1, n)
      /\ Len(InAreas(s)) = n
  BY <1>3, <1>4, <1>5, InAreasAre, FilledIs
<1>7. PICK b \in Seq(Int), c \in Seq(Int) : b = SubSeq(a, 1, n) /\ c = SubSeq(a, n + 1, Len(a)) /\ b \o c = a
  <2>1. /\ SubSeq(a, 1, n) \in Seq(Int) /\ SubSeq(a, n + 1, Len(a)) \in Seq(Int)
        /\ SubSeq(a, 1, n) \o SubSeq(a, n + 1, Len(a)) = a
    BY <1>6, Tails
  <2> QED
    BY <2>1, Zenon
<1>8. /\ out'[s] = out[s] \o b /\ moved'[s]["send"] = n /\ moved'[s]["recv"] = moved[s]["recv"]
      /\ moved' \in [IDs -> [IoTypes -> Nat]] /\ io'[s]["send"] = "ok"
      /\ areas' = [x \in IDs |-> areas'[x]]
      /\ \A x \in IDs \ {s} : /\ moved'[x] = moved[x] /\ io'[x] = io[x] /\ out'[x] = out[x]
                              /\ areas'[x] = areas[x]
  <2>1. areas' = [x \in IDs |-> areas'[x]] /\ \A x \in IDs \ {s} : areas'[x] = areas[x]
    BY <1>1, <1>2 DEF StreamType
  <2>2. out'[s] = out[s] \o b /\ \A x \in IDs \ {s} : out'[x] = out[x]
    BY <1>1, <1>2, <1>6, <1>7 DEF StreamType
  <2>3. io'[s]["send"] = "ok" /\ \A x \in IDs \ {s} : io'[x] = io[x]
    BY <1>1, <1>2 DEF TypeOK, IoTypes
  <2>4. /\ moved'[s]["send"] = n /\ moved'[s]["recv"] = moved[s]["recv"]
        /\ moved' \in [IDs -> [IoTypes -> Nat]] /\ \A x \in IDs \ {s} : moved'[x] = moved[x]
    <3>1. moved' = [moved EXCEPT ![s]["send"] = n]
      BY <1>2, <1>6
    <3> QED
      BY <1>1, <3>1 DEF StreamType, IoTypes
  <2> QED
    BY <2>1, <2>2, <2>3, <2>4
<1>9. StreamType'
  <2>1. out[s] \o b \in Seq(Int)
    BY <1>1, ConcatProperties DEF StreamType
  <2>2. out' \in [IDs -> Seq(Int)]
    BY <1>1, <1>2, <1>6, <1>7, <2>1 DEF StreamType
  <2> QED
    BY <1>1, <1>2, <1>8, <2>2 DEF StreamType
<1>10. Aside(s)
  BY <1>2, <1>8 DEF Aside
<1>11. SentOK(s)'
  <2>1. \A u \in Threads : pc[u] \in Posting => cur[u] # s
    BY <1>1, <1>2 DEF TurnOK, SendTurn, Posting
  <2>2. isSending[s]
    BY <1>1, <1>2 DEF SessionOK
  <2>3. n <= UseSize(r)
    <3>1. PICK u \in Nat : u = UseSize(r)
      <4>1. UseSize(r) \in Nat
        BY <1>3, Sizes
      <4> QED
        BY <4>1, Zenon
    <3> QED
      BY <1>6, <3>1
  <2> QED
    BY <1>2, <1>3, <1>8, <2>1, <2>2, <2>3 DEF SentOK
<1>12. FramesOK(s)'
  BY <1>1, <1>2, <1>8 DEF FramesOK
<1>13. WholeOK(s)'
  <2>1. SUFFICES ASSUME s \notin cut
                 PROVE  out'[s] \o Unsent(s)' = Echoes(s)[echoed[s]]
    BY <1>2 DEF WholeOK, Echoes
  <2>2. moved[s]["send"] = 0
    BY <1>1, <1>2 DEF SentOK
  <2>3. Unsent(s) = a
    <3>1. Unsent(s) = SubSeq(a, 0 + 1, Len(a))
      BY <1>3, <1>5, <2>2 DEF Unsent
    <3> QED
      BY <3>1, AllOf
  <2>4. Unsent(s)' = c
    BY <1>2, <1>3, <1>5, <1>7, <1>8 DEF Unsent
  <2>5. out[s] \o a = Echoes(s)[echoed[s]]
    BY <1>1, <2>1, <2>3 DEF WholeOK
  <2>6. (out[s] \o b) \o c = out[s] \o (b \o c)
    <3>1. out[s] \in Seq(Int)
      BY <1>1 DEF StreamType
    <3> QED
      BY <3>1, Three
  <2> QED
    BY <1>7, <1>8, <2>4, <2>5, <2>6
<1>14. \A u \in Threads : pc'[u] \in Answering => todo'[u] > 0
  BY <1>2 DEF StreamInv
<1> QED
  BY <1>9, <1>10, <1>11, <1>12, <1>13, <1>14, AsideKeeps

\* A peer that leaves takes the send with it that is in flight.
LEMMA RestKeeps ==
  ASSUME EchoInv, StreamInv,
         \/ \E s \in IDs : HangUp(s) \/ PeerReset(s)
         \/ Quit \/ Join \/ UNCHANGED vars
  PROVE  StreamInv'
<1>1. TypeOK /\ StreamType /\ \A t \in Threads : pc[t] \in Answering => todo[t] > 0
  BY DEF EchoInv, StreamInv
<1>2. areas = [r \in IDs |-> areas[r]]
  BY <1>1 DEF StreamType
<1>3. ASSUME UNCHANGED <<isSending, sendQ, moved, cur, todo, sent, echoed, cut, out>>,
             \A t \in Threads : pc'[t] = pc[t],
             areas' = [r \in IDs |-> areas'[r]],
             \A r \in IDs : io'[r]["send"] = "posted" => io[r]["send"] = "posted" /\ areas'[r] = areas[r]
      PROVE  StreamInv'
  <2>1. \A t \in Threads : Goes(t)
    BY <1>1, <1>3 DEF Goes
  <2>2. Still
    BY <1>3, <2>1 DEF Still
  <2> QED
    BY <2>2, StillKeeps
<1>4. ASSUME NEW s \in IDs, HangUp(s)
      PROVE  StreamInv'
  <2>1. /\ UNCHANGED <<isSending, sendQ, moved, areas, pc, cur, todo, sent, echoed, cut, out>>
        /\ io' = [io EXCEPT ![s]["recv"] = "err"]
    BY <1>4 DEF HangUp, session, local, history
  <2>2. \A r \in IDs : io'[r]["send"] = io[r]["send"]
    BY <1>1, <2>1 DEF TypeOK, IoTypes
  <2>3. areas' = [r \in IDs |-> areas'[r]]
    BY <1>2, <2>1
  <2> QED
    BY <1>3, <2>1, <2>2, <2>3
<1>5. ASSUME NEW s \in IDs, PeerReset(s)
      PROVE  StreamInv'
  <2>1. /\ UNCHANGED <<isSending, sendQ, moved, pc, cur, todo, sent, echoed, cut, out>>
        /\ areas' = [areas EXCEPT ![s] = NoAreas]
    BY <1>5 DEF PeerReset, session, local, history
  <2>2. io'[s]["send"] # "posted" /\ \A r \in IDs \ {s} : io'[r] = io[r]
    BY <1>1, <1>5 DEF PeerReset, TypeOK, IoTypes
  <2>3. areas' = [r \in IDs |-> areas'[r]] /\ \A r \in IDs \ {s} : areas'[r] = areas[r]
    BY <1>2, <2>1
  <2> QED
    BY <1>3, <2>1, <2>2, <2>3
<1>6. CASE Quit \/ Join \/ UNCHANGED vars
  <2>1. UNCHANGED <<isSending, sendQ, moved, areas, io, cur, todo, sent, echoed, cut, out>>
    BY <1>6 DEF Quit, Join, vars, session, system, local, history
  <2>2. \A t \in Threads : pc'[t] = pc[t]
    BY <1>1, <1>6, EchoAssumption DEF Quit, Join, vars, Goto, TypeOK
  <2>3. areas' = [r \in IDs |-> areas'[r]]
    BY <1>2, <2>1
  <2> QED
    BY <1>3, <2>1, <2>2, <2>3
<1> QED
  BY <1>4, <1>5, <1>6

LEMMA StreamInit == Init => StreamInv
<1> SUFFICES ASSUME Init
             PROVE  StreamInv
  OBVIOUS
<1>1. StreamType
  <2>1. EmptyQ \in Rings
    BY EmptyIs DEF RingOK
  <2>2. <<>> \in Seq(Int)
    OBVIOUS
  <2> QED
    BY <2>1, <2>2 DEF Init, StreamType
<1>2. \A t \in Threads : pc[t] \notin Answering \cup InRecv \cup Posting
  BY DEF Init, Answering, InRecv, InSend, Posting
<1>3. ASSUME NEW s \in IDs
      PROVE  SentOK(s) /\ FramesOK(s) /\ WholeOK(s)
  <2>1. /\ sendQ[s] = EmptyQ /\ moved[s]["send"] = 0 /\ moved[s]["recv"] = 0 /\ echoed[s] = 0
        /\ sent[s] = 0 /\ out[s] = <<>> /\ io[s]["send"] = "idle"
    BY DEF Init, IoTypes
  <2>2. UseSize(sendQ[s]) = 0
    BY <2>1, EmptyIs
  <2>3. MaxFrames[s] \in Nat
    BY EchoAssumption
  <2>4. WholeOK(s)
    BY <2>1, NothingYet
  <2>5. SentOK(s)
    BY <2>1, <2>2 DEF SentOK
  <2>6. FramesOK(s)
    BY <1>2, <2>1, <2>3 DEF FramesOK
  <2> QED
    BY <2>4, <2>5, <2>6
<1> QED
  BY <1>1, <1>2, <1>3 DEF StreamInv

LEMMA StreamStep == EchoInv /\ StreamInv /\ [Next]_vars => StreamInv'
<1> SUFFICES ASSUME EchoInv, StreamInv, [Next]_vars
             PROVE  StreamInv'
  OBVIOUS
<1>1. ASSUME NEW t \in Threads, Moves(t)
      PROVE  StreamInv'
  <2>1. CASE ~Telling(t)
    BY <1>1, <2>1, CalmKeeps
  <2>2. CASE Telling(t)
    BY <2>2, RelDeleteKeeps, EnterRecvKeeps, SpEnqueueKeeps, SendPostedKeeps, SdMoveKeeps DEF Telling
  <2> QED
    BY <2>1, <2>2
<1>2. ASSUME NEW s \in IDs, Arrive(s) \/ Deliver(s)
      PROVE  StreamInv'
  BY <1>2, ArriveKeeps, DeliverKeeps
<1>3. CASE \/ \E s \in IDs : HangUp(s) \/ PeerReset(s)
           \/ Quit \/ Join \/ UNCHANGED vars
  BY <1>3, RestKeeps
<1> QED
  BY <1>1, <1>2, <1>3 DEF Next, Moves, Threads

\* The peer is sent the echoes of its frames, in order and each of them whole,
\* as long as sendQ had room for every one: the parts that sends take, the ring
\* going round its end, and frames coming while a send is in flight do not matter.
THEOREM EchoesWhole == Spec => []StreamWhole
<1>1. Init => EchoInv /\ StreamInv
  BY EchoInit, StreamInit
<1>2. EchoInv /\ StreamInv /\ [Next]_vars => (EchoInv /\ StreamInv)'
  BY EchoStep, StreamStep
<1>3. EchoInv /\ StreamInv => StreamWhole
  <2> SUFFICES ASSUME StreamInv, NEW s \in IDs \ cut
               PROVE  out[s] \o Unsent(s) = Echoes(s)[echoed[s]]
    BY DEF StreamWhole, Unsent, Filled, Echoes
  <2> QED
    BY DEF StreamInv, WholeOK
<1> QED
  BY <1>1, <1>2, <1>3, PTL DEF Spec

=============================================================================
