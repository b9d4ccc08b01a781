---------------------------- MODULE NetServerProofs ----------------------------
(***************************************************************************)
(* Proofs about CNetServer, for any number of threads, slots and packets:  *)
(* every variable keeps its type, the reference count is exact, a slot has *)
(* one owner, and nobody uses a session that was released; no packet waits *)
(* with nobody to send it, reaches the next session of its slot, is freed  *)
(* too early or is forgotten; the callbacks come in order; the session     *)
(* count is exact; and CNetServer implements SessionService.               *)
(***************************************************************************)
EXTENDS NetServer, FiniteSetTheorems, SequenceTheorems, TLAPS

USE DEF Threads, Slots, NoSlot, IoTypes, Ids, NoId, Conns, NoConn

----------------------------------------------------------------------------
(***************************************************************************)
(* Where a thread stands: what its label says of its other variables.      *)
(***************************************************************************)

CallLabels == {"AcqInc", "AcqCheck", "DcClose", "EnqLink", "EnqSize", "RetDec",
               "SpXchg", "SpSize", "SpClear", "SpRecheck", "SpDeq", "SpUndo",
               "SpInc", "SpSend"}
AcceptLabels == {"AcPop", "AcInit", "AcInc", "AcClear", "AcCount", "AcNotify",
                 "AcIncRecv"}
ReleaseLabels == {"RelCas", "RelClose", "RelFree", "RelNotify", "RelPush"}
NoneHeld == {"Idle", "AcqInc", "AcPop", "AcInit", "AcInc"}

\* A call inside OnRecv is a worker's.
HomeOK(t) ==
  home[t] = "RpLoop" => t \in Workers /\ pc[t] \in CallLabels \cup ReleaseLabels

\* How many references a thread holds, over those of its Base.
HeldOK(t) ==
  /\ pc[t] \in NoneHeld => held[t] = Base(t)
  /\ pc[t] = "RpLoop" => held[t] = 1 /\ home[t] = "Idle"
  /\ pc[t] \in ReleaseLabels => held[t] \in {Base(t), Base(t) + 1}
  /\ pc[t] \in {"RetDec", "RecvPost"} => held[t] \in {Base(t) + 1, Base(t) + 2}
  /\ pc[t] = "SpSend" => held[t] = Base(t) + 2
  /\ pc[t] \notin NoneHeld \cup ReleaseLabels \cup {"RetDec", "RecvPost", "SpSend"}
       => held[t] = Base(t) + 1

SlotOK(t) == pc[t] \notin {"Idle", "AcPop"} => slot[t] \in Slots

AcceptOK(t) ==
  /\ pc[t] \in AcceptLabels => t = Acceptor
  /\ pc[t] \in {"AcPop", "AcInit"} => gen < MaxGen /\ client \in Handles

CallOK(t) ==
  /\ pc[t] \in {"AcqInc", "AcqCheck", "EnqLink", "EnqSize", "DcClose"} => arg[t] \in Ids
  /\ pc[t] = "EnqLink" => pkt[t] \in Packets

\* The slot was given to a session at least once.
Opened(s) == sock[s] \in Handles /\ sessionID[s] \in Ids /\ sessionID[s][2] = s

OpenedOK ==
  /\ \A t \in Threads : pc[t] \notin {"Idle", "AcPop", "AcInit"} => Opened(slot[t])
  /\ \A s \in Slots, ty \in IoTypes : io[s][ty] # "idle" => Opened(s)
  /\ \A id \in accepted : Opened(id[2])

ThreadOK(t) == HomeOK(t) /\ HeldOK(t) /\ SlotOK(t) /\ AcceptOK(t) /\ CallOK(t)

ControlOK == \A t \in Threads : ThreadOK(t)

TypeInv == TypeOK /\ ControlOK /\ OpenedOK

----------------------------------------------------------------------------
(***************************************************************************)
(* Type correctness.                                                       *)
(***************************************************************************)

\* What RelPush and AcReject make of the stack is a sequence again.
LEMMA PushIn ==
  ASSUME NEW S, NEW q \in Seq(S), NEW e \in S
  PROVE  <<e>> \o q \in Seq(S)
  OBVIOUS

\* And so is what AcPop leaves of it.
LEMMA HeadIn ==
  ASSUME NEW S, NEW q \in Seq(S), q # <<>>
  PROVE  Head(q) \in S /\ Tail(q) \in Seq(S)
  OBVIOUS

\* A step of thread t.
Moves(t) ==
  \/ Step(t) \/ CallSendPacket(t) \/ CallDisconnect(t) \/ Accept(t)
  \/ \E s \in Slots, ty \in IoTypes : Complete(t, s, ty)

\* A step of one thread leaves the variables of the others alone.
LEMMA OthersStay ==
  ASSUME ThreadTypeOK, NEW t \in Threads, NEW u \in Threads \ {t},
         Moves(t)
  PROVE  /\ pc'[u] = pc[u] /\ slot'[u] = slot[u] /\ arg'[u] = arg[u]
         /\ home'[u] = home[u] /\ held'[u] = held[u] /\ pkt'[u] = pkt[u]
<1> USE DEF Goto, Leave, callVars, ThreadTypeOK, Post, Call
<1>1. CASE CallSendPacket(t)
  BY <1>1 DEF CallSendPacket
<1>2. CASE CallDisconnect(t)
  BY <1>2 DEF CallDisconnect
<1>3. CASE FreePacket(t)
  BY <1>3 DEF FreePacket
<1>4. CASE AcqInc(t)
  BY <1>4 DEF AcqInc
<1>5. CASE AcqCheck(t)
  BY <1>5 DEF AcqCheck
<1>6. CASE DcClose(t)
  BY <1>6 DEF DcClose
<1>7. CASE EnqLink(t)
  BY <1>7 DEF EnqLink
<1>8. CASE EnqSize(t)
  BY <1>8 DEF EnqSize
<1>9. CASE RetDec(t)
  BY <1>9 DEF RetDec
<1>10. CASE RelCas(t)
  BY <1>10 DEF RelCas
<1>11. CASE RelClose(t)
  BY <1>11 DEF RelClose
<1>12. CASE RelFree(t)
  BY <1>12 DEF RelFree
<1>13. CASE RelNotify(t)
  BY <1>13 DEF RelNotify
<1>14. CASE RelPush(t)
  BY <1>14 DEF RelPush
<1>15. CASE RecvPost(t)
  BY <1>15 DEF RecvPost
<1>16. CASE SpXchg(t)
  BY <1>16 DEF SpXchg
<1>17. CASE SpSize(t)
  BY <1>17 DEF SpSize
<1>18. CASE SpClear(t)
  BY <1>18 DEF SpClear
<1>19. CASE SpRecheck(t)
  BY <1>19 DEF SpRecheck
<1>20. CASE SpDeq(t)
  BY <1>20 DEF SpDeq
<1>21. CASE SpUndo(t)
  BY <1>21 DEF SpUndo
<1>22. CASE SpInc(t)
  BY <1>22 DEF SpInc
<1>23. CASE SpSend(t)
  BY <1>23 DEF SpSend
<1>24. CASE RpEnd(t)
  BY <1>24 DEF RpEnd
<1>25. CASE SdFree(t)
  BY <1>25 DEF SdFree
<1>26. CASE SdClear(t)
  BY <1>26 DEF SdClear
<1>27. CASE Accept(t)
  BY <1>27 DEF Accept
<1>28. CASE AcPop(t)
  BY <1>28 DEF AcPop
<1>29. CASE AcFull(t)
  BY <1>29 DEF AcFull
<1>30. CASE AcReject(t)
  BY <1>30 DEF AcReject
<1>31. CASE AcInit(t)
  BY <1>31 DEF AcInit
<1>32. CASE AcInc(t)
  BY <1>32 DEF AcInc
<1>33. CASE AcClear(t)
  BY <1>33 DEF AcClear
<1>34c. CASE AcCount(t)
  BY <1>34c DEF AcCount
<1>34. CASE AcNotify(t)
  BY <1>34 DEF AcNotify
<1>35. CASE AcIncRecv(t)
  BY <1>35 DEF AcIncRecv
<1>36. CASE \E s \in Slots, ty \in IoTypes : Complete(t, s, ty)
  BY <1>36 DEF Complete
<1> QED
  BY <1>1, <1>2, <1>3, <1>4, <1>5, <1>6, <1>7, <1>8, <1>9, <1>10, <1>11,
    <1>12, <1>13, <1>14, <1>15, <1>16, <1>17, <1>18, <1>19, <1>20, <1>21,
    <1>22, <1>23, <1>24, <1>25, <1>26, <1>27, <1>28, <1>29, <1>30, <1>31,
    <1>32, <1>33, <1>34c, <1>34, <1>35, <1>36 DEF Moves, Step

\* What its own step makes of a thread.
LEMMA OwnStep ==
  ASSUME TypeInv, NEW t \in Threads, Moves(t)
  PROVE  ThreadOK(t)'
<1>1. ThreadTypeOK /\ ServerTypeOK
  BY DEF TypeInv, TypeOK
<1>2. ThreadOK(t)
  BY DEF TypeInv, ControlOK
<1>3. t = Acceptor => home[t] = "Idle"
  BY <1>1, <1>2, ThreadAssumption DEF ThreadOK, HomeOK, ThreadTypeOK
<1>4. accepted \subseteq Ids /\ (Known(t) \subseteq Ids \/ ~MayCall(t))
  BY <1>1, <1>2 DEF Known, MayCall, At, TypeInv, OpenedOK, Opened, ServerTypeOK
<1>50. indexStack # <<>> => Head(indexStack) \in Slots
  BY <1>1, HeadIn DEF ServerTypeOK
<1> USE DEF At, Goto, Leave, Base, callVars, Post, Call, MayCall, Labels,
        ThreadTypeOK, ThreadOK, HomeOK, HeldOK, SlotOK, AcceptOK, CallOK,
        NoneHeld, ReleaseLabels, CallLabels, AcceptLabels
<1>5. CASE CallSendPacket(t)
  BY <1>1, <1>2, <1>5, <1>4 DEF CallSendPacket
<1>6. CASE CallDisconnect(t)
  BY <1>1, <1>2, <1>6, <1>4 DEF CallDisconnect
<1>7. CASE FreePacket(t)
  BY <1>1, <1>2, <1>7 DEF FreePacket
<1>8. CASE AcqInc(t)
  BY <1>1, <1>2, <1>8 DEF AcqInc
<1>9. CASE AcqCheck(t)
  BY <1>1, <1>2, <1>9 DEF AcqCheck
<1>10. CASE DcClose(t)
  BY <1>1, <1>2, <1>10 DEF DcClose
<1>11. CASE EnqLink(t)
  BY <1>1, <1>2, <1>11 DEF EnqLink
<1>12. CASE EnqSize(t)
  BY <1>1, <1>2, <1>12 DEF EnqSize
<1>13. CASE RetDec(t)
  BY <1>1, <1>2, <1>13 DEF RetDec
<1>14. CASE RelCas(t)
  BY <1>1, <1>2, <1>14 DEF RelCas
<1>15. CASE RelClose(t)
  BY <1>1, <1>2, <1>15 DEF RelClose
<1>16. CASE RelFree(t)
  BY <1>1, <1>2, <1>16 DEF RelFree
<1>17. CASE RelNotify(t)
  BY <1>1, <1>2, <1>17 DEF RelNotify
<1>18. CASE RelPush(t)
  BY <1>1, <1>2, <1>18 DEF RelPush
<1>19. CASE RecvPost(t)
  BY <1>1, <1>2, <1>19 DEF RecvPost
<1>20. CASE SpXchg(t)
  BY <1>1, <1>2, <1>20 DEF SpXchg
<1>21. CASE SpSize(t)
  BY <1>1, <1>2, <1>21 DEF SpSize
<1>22. CASE SpClear(t)
  BY <1>1, <1>2, <1>22 DEF SpClear
<1>23. CASE SpRecheck(t)
  BY <1>1, <1>2, <1>23 DEF SpRecheck
<1>24. CASE SpDeq(t)
  BY <1>1, <1>2, <1>24 DEF SpDeq
<1>25. CASE SpUndo(t)
  BY <1>1, <1>2, <1>25 DEF SpUndo
<1>26. CASE SpInc(t)
  BY <1>1, <1>2, <1>26 DEF SpInc
<1>27. CASE SpSend(t)
  BY <1>1, <1>2, <1>27 DEF SpSend
<1>28. CASE RpEnd(t)
  BY <1>1, <1>2, <1>28 DEF RpEnd
<1>29. CASE SdFree(t)
  BY <1>1, <1>2, <1>29 DEF SdFree
<1>30. CASE SdClear(t)
  BY <1>1, <1>2, <1>30 DEF SdClear
<1>31. CASE Accept(t)
  BY <1>1, <1>2, <1>31, <1>3 DEF Accept, poolVars
<1>32. CASE AcPop(t)
  BY <1>1, <1>2, <1>32, <1>3, <1>50 DEF AcPop
<1>33. CASE AcFull(t)
  BY <1>1, <1>2, <1>33 DEF AcFull
<1>34. CASE AcReject(t)
  BY <1>1, <1>2, <1>34 DEF AcReject
<1>35. CASE AcInit(t)
  BY <1>1, <1>2, <1>35, <1>3 DEF AcInit
<1>36. CASE AcInc(t)
  BY <1>1, <1>2, <1>36 DEF AcInc
<1>37. CASE AcClear(t)
  BY <1>1, <1>2, <1>37 DEF AcClear
<1>38c. CASE AcCount(t)
  BY <1>1, <1>2, <1>38c DEF AcCount
<1>38. CASE AcNotify(t)
  BY <1>1, <1>2, <1>38 DEF AcNotify
<1>39. CASE AcIncRecv(t)
  BY <1>1, <1>2, <1>39 DEF AcIncRecv
<1>40. CASE \E s \in Slots, ty \in IoTypes : Complete(t, s, ty)
  BY <1>1, <1>2, <1>40 DEF Complete
<1> QED
  BY <1>5, <1>6, <1>7, <1>8, <1>9, <1>10, <1>11, <1>12, <1>13, <1>14, <1>15,
    <1>16, <1>17, <1>18, <1>19, <1>20, <1>21, <1>22, <1>23, <1>24, <1>25,
    <1>26, <1>27, <1>28, <1>29, <1>30, <1>31, <1>32, <1>33, <1>34, <1>35,
    <1>36, <1>37, <1>38c, <1>38, <1>39, <1>40 DEF Moves, Step

\* The variables of the threads keep their types.
LEMMA TypedStep ==
  ASSUME TypeInv, NEW t \in Threads, Moves(t)
  PROVE  ThreadTypeOK'
<1>1. ThreadTypeOK /\ ServerTypeOK
  BY DEF TypeInv, TypeOK
<1>2. ThreadOK(t)
  BY DEF TypeInv, ControlOK
<1>3. indexStack # <<>> => Head(indexStack) \in Slots
  BY <1>1, HeadIn DEF ServerTypeOK
<1>4. Known(t) \subseteq Ids \/ ~MayCall(t)
  BY <1>1, <1>2 DEF Known, MayCall, At, TypeInv, OpenedOK, Opened, ServerTypeOK
<1> USE DEF At, Goto, Leave, Base, callVars, Labels, ThreadTypeOK, ThreadOK,
        HomeOK, HeldOK, NoneHeld, ReleaseLabels, CallLabels
<1>5. CASE CallSendPacket(t)
  BY <1>1, <1>2, <1>5, <1>4, ThreadAssumption, BoundAssumption DEF CallSendPacket, MayCall, Call
<1>6. CASE CallDisconnect(t)
  BY <1>1, <1>2, <1>6, <1>4, ThreadAssumption, BoundAssumption DEF CallDisconnect, MayCall, Call
<1>7. CASE FreePacket(t)
  BY <1>1, <1>2, <1>7 DEF FreePacket
<1>8. CASE AcqInc(t)
  BY <1>1, <1>2, <1>8 DEF AcqInc
<1>9. CASE AcqCheck(t)
  BY <1>1, <1>2, <1>9 DEF AcqCheck
<1>10. CASE DcClose(t)
  BY <1>1, <1>2, <1>10 DEF DcClose
<1>11. CASE EnqLink(t)
  BY <1>1, <1>2, <1>11 DEF EnqLink
<1>12. CASE EnqSize(t)
  BY <1>1, <1>2, <1>12 DEF EnqSize
<1>13. CASE RetDec(t)
  BY <1>1, <1>2, <1>13 DEF RetDec
<1>14. CASE RelCas(t)
  BY <1>1, <1>2, <1>14 DEF RelCas
<1>15. CASE RelClose(t)
  BY <1>1, <1>2, <1>15 DEF RelClose
<1>16. CASE RelFree(t)
  BY <1>1, <1>2, <1>16 DEF RelFree
<1>17. CASE RelNotify(t)
  BY <1>1, <1>2, <1>17 DEF RelNotify
<1>18. CASE RelPush(t)
  <2>1. Leave(t, held[t]) /\ UNCHANGED <<held, pkt, client>>
    BY <1>18 DEF RelPush
  <2> QED
    BY <1>1, <1>2, <2>1
<1>19. CASE RecvPost(t)
  <2>1. UNCHANGED <<pkt, client>> /\ t \in Threads /\ held[t] \in 1 .. 3
    BY <1>1, <1>2, <1>19 DEF RecvPost
  <2>2. CASE held' = [held EXCEPT ![t] = @ - 1] /\ Leave(t, held[t] - 1)
    BY <1>1, <1>2, <2>1, <2>2
  <2>3. CASE Goto(t, "RetDec") /\ UNCHANGED <<held, callVars>>
    BY <1>1, <1>2, <2>1, <2>3
  <2>4. CASE UNCHANGED <<held, callVars, pc>>
    BY <1>1, <2>1, <2>4
  <2> QED
    BY <1>19, <2>2, <2>3, <2>4 DEF RecvPost, Post
<1>20. CASE SpXchg(t)
  BY <1>1, <1>2, <1>20 DEF SpXchg
<1>21. CASE SpSize(t)
  BY <1>1, <1>2, <1>21 DEF SpSize
<1>22. CASE SpClear(t)
  BY <1>1, <1>2, <1>22 DEF SpClear
<1>23. CASE SpRecheck(t)
  BY <1>1, <1>2, <1>23 DEF SpRecheck
<1>24. CASE SpDeq(t)
  BY <1>1, <1>2, <1>24 DEF SpDeq
<1>25. CASE SpUndo(t)
  BY <1>1, <1>2, <1>25 DEF SpUndo
<1>26. CASE SpInc(t)
  BY <1>1, <1>2, <1>26 DEF SpInc
<1>27. CASE SpSend(t)
  BY <1>1, <1>2, <1>27 DEF SpSend, Post
<1>28. CASE RpEnd(t)
  BY <1>1, <1>2, <1>28, BoundAssumption DEF RpEnd
<1>29. CASE SdFree(t)
  BY <1>1, <1>2, <1>29 DEF SdFree
<1>30. CASE SdClear(t)
  BY <1>1, <1>2, <1>30 DEF SdClear
<1>31. CASE Accept(t)
  BY <1>1, <1>2, <1>31 DEF Accept
<1>32. CASE AcPop(t)
  BY <1>1, <1>2, <1>32, <1>3 DEF AcPop
<1>33. CASE AcFull(t)
  BY <1>1, <1>2, <1>33 DEF AcFull
<1>34. CASE AcReject(t)
  BY <1>1, <1>2, <1>34 DEF AcReject
<1>35. CASE AcInit(t)
  BY <1>1, <1>2, <1>35 DEF AcInit
<1>36. CASE AcInc(t)
  BY <1>1, <1>2, <1>36 DEF AcInc
<1>37. CASE AcClear(t)
  BY <1>1, <1>2, <1>37 DEF AcClear
<1>38c. CASE AcCount(t)
  BY <1>1, <1>2, <1>38c DEF AcCount
<1>38. CASE AcNotify(t)
  BY <1>1, <1>2, <1>38 DEF AcNotify
<1>39. CASE AcIncRecv(t)
  BY <1>1, <1>2, <1>39 DEF AcIncRecv
<1>40. CASE \E s \in Slots, ty \in IoTypes : Complete(t, s, ty)
  BY <1>1, <1>2, <1>40, BoundAssumption DEF Complete
<1> QED
  BY <1>5, <1>6, <1>7, <1>8, <1>9, <1>10, <1>11, <1>12, <1>13, <1>14, <1>15,
    <1>16, <1>17, <1>18, <1>19, <1>20, <1>21, <1>22, <1>23, <1>24, <1>25,
    <1>26, <1>27, <1>28, <1>29, <1>30, <1>31, <1>32, <1>33, <1>34, <1>35,
    <1>36, <1>37, <1>38c, <1>38, <1>39, <1>40 DEF Moves, Step

\* A step is a step of one thread, of the system or of a peer.
LEMMA NextCases ==
  ASSUME [Next]_vars
  PROVE  \/ \E t \in Threads : Moves(t)
         \/ \E s \in Slots, ty \in IoTypes : IoDone(s, ty)
         \/ \E c \in Conns : PeerReset(c)
         \/ UNCHANGED vars
  BY DEF Next, Begin, Moves

\* Only the accept thread changes client_sock and the generator.
LEMMA AcceptorOnly ==
  ASSUME NEW t \in Threads, Moves(t), AcceptOK(t)
  PROVE  t = Acceptor \/ UNCHANGED <<client, gen>>
<1>1. ASSUME \/ CallSendPacket(t) \/ CallDisconnect(t) \/ FreePacket(t)
             \/ AcqInc(t) \/ AcqCheck(t) \/ DcClose(t) \/ EnqLink(t)
             \/ EnqSize(t) \/ RetDec(t) \/ RelCas(t) \/ RelClose(t)
             \/ RelFree(t) \/ RelNotify(t) \/ RelPush(t) \/ RecvPost(t)
             \/ SpXchg(t) \/ SpSize(t) \/ SpClear(t) \/ SpRecheck(t)
             \/ SpDeq(t) \/ SpUndo(t) \/ SpInc(t) \/ SpSend(t) \/ RpEnd(t)
             \/ SdFree(t) \/ SdClear(t) \/ AcPop(t) \/ AcInc(t) \/ AcClear(t)
             \/ AcCount(t) \/ AcNotify(t) \/ AcIncRecv(t)
      PROVE  UNCHANGED <<client, gen>>
  BY <1>1 DEF poolVars, CallSendPacket, CallDisconnect, FreePacket, AcqInc,
    AcqCheck, DcClose, EnqLink, EnqSize, RetDec, RelCas, RelClose, RelFree,
    RelNotify, RelPush, RecvPost, SpXchg, SpSize, SpClear, SpRecheck, SpDeq,
    SpUndo, SpInc, SpSend, RpEnd, SdFree, SdClear, AcPop, AcInc, AcClear,
    AcCount, AcNotify, AcIncRecv
<1>2. ASSUME Accept(t) \/ AcFull(t) \/ AcReject(t) \/ AcInit(t)
      PROVE  t = Acceptor
  BY <1>2 DEF Accept, AcFull, AcReject, AcInit, AcceptOK, AcceptLabels, At
<1>3. ASSUME NEW s \in Slots, NEW ty \in IoTypes, Complete(t, s, ty)
      PROVE  UNCHANGED <<client, gen>>
  BY <1>3 DEF Complete, poolVars
<1> QED
  BY <1>1, <1>2, <1>3 DEF Moves, Step

\* Every thread stands where its label says it does.
LEMMA ControlStep == TypeInv /\ [Next]_vars => ThreadTypeOK' /\ ControlOK'
<1> SUFFICES ASSUME TypeInv, [Next]_vars PROVE ThreadTypeOK' /\ ControlOK'
  OBVIOUS
<1>1. ThreadTypeOK /\ ServerTypeOK /\ ControlOK
  BY DEF TypeInv, TypeOK
<1>2. ASSUME NEW t \in Threads, Moves(t)
      PROVE  ThreadTypeOK' /\ ControlOK'
  <2>1. ThreadTypeOK' /\ ThreadOK(t)'
    BY <1>2, OwnStep, TypedStep
  <2>2. t = Acceptor \/ UNCHANGED <<client, gen>>
    BY <1>1, <1>2, AcceptorOnly DEF ControlOK, ThreadOK
  <2>3. ASSUME NEW u \in Threads \ {t}
        PROVE  ThreadOK(u)'
    <3>1. /\ pc'[u] = pc[u] /\ slot'[u] = slot[u] /\ arg'[u] = arg[u]
          /\ home'[u] = home[u] /\ held'[u] = held[u] /\ pkt'[u] = pkt[u]
      BY <1>1, <1>2, OthersStay
    <3>2. ThreadOK(u)
      BY <1>1 DEF ControlOK
    <3> QED
      BY <2>2, <3>1, <3>2 DEF ThreadOK, HomeOK, HeldOK, SlotOK, AcceptOK, CallOK, Base, AcceptLabels
  <2> QED
    BY <2>1, <2>3 DEF ControlOK
<1>3. ASSUME UNCHANGED <<pc, callVars, held, pkt, client, gen>>
      PROVE  ThreadTypeOK' /\ ControlOK'
  BY <1>1, <1>3 DEF callVars, ThreadTypeOK, ControlOK, ThreadOK, HomeOK, HeldOK,
     SlotOK, AcceptOK, CallOK, Base
<1>4. ASSUME NEW s \in Slots, NEW ty \in IoTypes, IoDone(s, ty)
      PROVE  UNCHANGED <<pc, callVars, held, pkt, client, gen>>
  BY <1>4 DEF IoDone, poolVars
<1>5. ASSUME NEW c \in Conns, PeerReset(c)
      PROVE  UNCHANGED <<pc, callVars, held, pkt, client, gen>>
  BY <1>5 DEF PeerReset, poolVars
<1>6. UNCHANGED vars => UNCHANGED <<pc, callVars, held, pkt, client, gen>>
  BY DEF vars, poolVars
<1> QED
  BY <1>2, <1>3, <1>4, <1>5, <1>6, NextCases

\* The session array.
LEMMA LifeQuiet ==
  ASSUME NEW t \in Threads,
         \/ CallSendPacket(t) \/ CallDisconnect(t) \/ FreePacket(t)
         \/ AcqCheck(t) \/ DcClose(t) \/ EnqLink(t) \/ EnqSize(t)
         \/ RelClose(t) \/ RelFree(t) \/ RelNotify(t) \/ RelPush(t)
         \/ RecvPost(t) \/ SpXchg(t) \/ SpSize(t) \/ SpClear(t)
         \/ SpRecheck(t) \/ SpDeq(t) \/ SpUndo(t) \/ SpSend(t) \/ RpEnd(t)
         \/ SdFree(t) \/ SdClear(t) \/ Accept(t) \/ AcPop(t) \/ AcFull(t)
         \/ AcReject(t) \/ AcCount(t) \/ AcNotify(t)
  PROVE  UNCHANGED lifeVars
  BY DEF CallSendPacket, CallDisconnect, FreePacket, AcqCheck, DcClose,
    EnqLink, EnqSize, RelClose, RelFree, RelNotify, RelPush, RecvPost, SpXchg,
    SpSize, SpClear, SpRecheck, SpDeq, SpUndo, SpSend, RpEnd, SdFree, SdClear,
    Accept, AcPop, AcFull, AcReject, AcCount, AcNotify

\* The session a slot belongs to is changed by Session::Init only.
LEMMA IdQuiet ==
  ASSUME NEW t \in Threads,
         \/ CallSendPacket(t) \/ CallDisconnect(t) \/ FreePacket(t)
         \/ AcqInc(t) \/ AcqCheck(t) \/ DcClose(t) \/ EnqLink(t) \/ EnqSize(t)
         \/ RetDec(t) \/ RelCas(t) \/ RelClose(t) \/ RelFree(t)
         \/ RelNotify(t) \/ RelPush(t) \/ RecvPost(t) \/ SpXchg(t)
         \/ SpSize(t) \/ SpClear(t) \/ SpRecheck(t) \/ SpDeq(t) \/ SpUndo(t)
         \/ SpInc(t) \/ SpSend(t) \/ RpEnd(t) \/ SdFree(t) \/ SdClear(t)
         \/ Accept(t) \/ AcPop(t) \/ AcFull(t) \/ AcReject(t) \/ AcInc(t)
         \/ AcClear(t) \/ AcCount(t) \/ AcNotify(t) \/ AcIncRecv(t)
  PROVE  UNCHANGED <<sock, sessionID>>
  BY DEF CallSendPacket, CallDisconnect, FreePacket, AcqInc, AcqCheck,
    DcClose, EnqLink, EnqSize, RetDec, RelCas, RelClose, RelFree, RelNotify,
    RelPush, RecvPost, SpXchg, SpSize, SpClear, SpRecheck, SpDeq, SpUndo,
    SpInc, SpSend, RpEnd, SdFree, SdClear, Accept, AcPop, AcFull, AcReject,
    AcInc, AcClear, AcCount, AcNotify, AcIncRecv, lifeVars

\* Session::Init gives the slot a socket and an ID, and leaves the others alone.
LEMMA InitOpens ==
  ASSUME TypeInv, NEW t \in Threads, AcInit(t)
  PROVE  /\ slot[t] \in Slots /\ Opened(slot[t])'
         /\ \A s \in Slots : Opened(s) => Opened(s)'
<1>1. SessionTypeOK /\ SlotOK(t) /\ AcceptOK(t) /\ gen \in 0 .. MaxGen
  BY DEF TypeInv, TypeOK, ServerTypeOK, ControlOK, ThreadOK
<1>2. slot[t] \in Slots /\ gen < MaxGen /\ client \in Handles
  BY <1>1 DEF AcInit, At, SlotOK, AcceptOK
<1>3. gen + 1 \in 1 .. MaxGen
  BY <1>1, <1>2, BoundAssumption
<1>4. <<gen + 1, slot[t]>> \in Ids
  BY <1>2, <1>3
<1>5. /\ sock' = [sock EXCEPT ![slot[t]] = client]
      /\ sessionID' = [sessionID EXCEPT ![slot[t]] = <<gen + 1, slot[t]>>]
      /\ slot' = slot
  BY DEF AcInit, callVars
<1> QED
  BY <1>1, <1>2, <1>4, <1>5 DEF Opened, SessionTypeOK

\* The session array keeps its types.
LEMMA SessionStep == TypeInv /\ [Next]_vars => SessionTypeOK'
<1> SUFFICES ASSUME TypeInv, [Next]_vars PROVE SessionTypeOK'
  OBVIOUS
<1>1. SessionTypeOK /\ ServerTypeOK /\ ThreadTypeOK
  BY DEF TypeInv, TypeOK
<1>2. \A t \in Threads : SlotOK(t) /\ AcceptOK(t)
  BY DEF TypeInv, ControlOK, ThreadOK
<1>3. ASSUME NEW t \in Threads,
             \/ AcqInc(t) \/ RetDec(t) \/ SpInc(t) \/ AcInc(t) \/ AcIncRecv(t)
      PROVE  SessionTypeOK'
  BY <1>1, <1>2, <1>3 DEF AcqInc, RetDec, SpInc, AcInc, AcIncRecv, At, SlotOK, SessionTypeOK
<1>4. ASSUME NEW t \in Threads, RelCas(t) \/ AcClear(t)
      PROVE  SessionTypeOK'
  BY <1>1, <1>2, <1>4 DEF RelCas, AcClear, At, SlotOK, SessionTypeOK
<1>5. ASSUME NEW t \in Threads, AcInit(t)
      PROVE  SessionTypeOK'
  <2>1. count' = count /\ flag' = flag /\ slot' = slot
    BY <1>5 DEF AcInit, callVars
  <2>2. slot[t] \in Slots /\ Opened(slot[t])'
    BY <1>5, InitOpens
  <2>3. /\ sock' = [sock EXCEPT ![slot[t]] = sock'[slot[t]]]
        /\ sessionID' = [sessionID EXCEPT ![slot[t]] = sessionID'[slot[t]]]
    BY <1>1, <1>5, <2>2 DEF AcInit, SessionTypeOK
  <2> QED
    BY <1>1, <2>1, <2>2, <2>3 DEF SessionTypeOK, Opened
<1>6. ASSUME UNCHANGED lifeVars
      PROVE  SessionTypeOK'
  BY <1>1, <1>6 DEF lifeVars, SessionTypeOK
<1>7. ASSUME NEW s \in Slots, NEW ty \in IoTypes,
             IoDone(s, ty) \/ \E t \in Threads : Complete(t, s, ty)
      PROVE  UNCHANGED lifeVars
  BY <1>7 DEF IoDone, Complete
<1>8. ASSUME NEW c \in Conns, PeerReset(c)
      PROVE  UNCHANGED lifeVars
  BY <1>8 DEF PeerReset
<1>9. UNCHANGED vars => UNCHANGED lifeVars
  BY DEF vars
<1> QED
  BY <1>3, <1>4, <1>5, <1>6, <1>7, <1>8, <1>9, LifeQuiet, NextCases DEF Moves, Step

\* A slot that was opened stays opened.
LEMMA OpenedStays ==
  ASSUME TypeInv, [Next]_vars, NEW s \in Slots, Opened(s)
  PROVE  Opened(s)'
<1>1. UNCHANGED <<sock, sessionID>> => Opened(s)'
  BY DEF Opened
<1>2. ASSUME NEW t \in Threads, AcInit(t)
      PROVE  Opened(s)'
  BY <1>2, InitOpens
<1>3. ASSUME NEW u \in Slots, NEW ty \in IoTypes,
             IoDone(u, ty) \/ \E t \in Threads : Complete(t, u, ty)
      PROVE  UNCHANGED <<sock, sessionID>>
  BY <1>3 DEF IoDone, Complete, lifeVars
<1>4. ASSUME NEW c \in Conns, PeerReset(c)
      PROVE  UNCHANGED <<sock, sessionID>>
  BY <1>4 DEF PeerReset, lifeVars
<1>5. UNCHANGED vars => UNCHANGED <<sock, sessionID>>
  BY DEF vars, lifeVars
<1> QED
  BY <1>1, <1>2, <1>3, <1>4, <1>5, IdQuiet, NextCases DEF Moves, Step

\* A thread that goes on working stays with its slot.
LEMMA SlotStays ==
  ASSUME ThreadTypeOK, NEW t \in Threads,
         \/ FreePacket(t) \/ AcqInc(t) \/ AcqCheck(t) \/ DcClose(t)
         \/ EnqLink(t) \/ EnqSize(t) \/ RetDec(t) \/ RelCas(t) \/ RelClose(t)
         \/ RelFree(t) \/ RelNotify(t) \/ RelPush(t) \/ RecvPost(t)
         \/ SpXchg(t) \/ SpSize(t) \/ SpClear(t) \/ SpRecheck(t) \/ SpDeq(t)
         \/ SpUndo(t) \/ SpInc(t) \/ SpSend(t) \/ RpEnd(t) \/ SdFree(t)
         \/ SdClear(t) \/ AcFull(t) \/ AcReject(t) \/ AcInc(t) \/ AcClear(t)
         \/ AcCount(t) \/ AcNotify(t) \/ AcIncRecv(t)
  PROVE  pc'[t] \notin {"Idle", "AcPop", "AcInit"} =>
           slot'[t] = slot[t] /\ pc[t] \notin {"Idle", "AcPop", "AcInit"}
<1> USE DEF At, Goto, Leave, callVars, Post, ThreadTypeOK
<1>1. CASE FreePacket(t)
  BY <1>1 DEF FreePacket
<1>2. CASE AcqInc(t)
  BY <1>2 DEF AcqInc
<1>3. CASE AcqCheck(t)
  BY <1>3 DEF AcqCheck
<1>4. CASE DcClose(t)
  BY <1>4 DEF DcClose
<1>5. CASE EnqLink(t)
  BY <1>5 DEF EnqLink
<1>6. CASE EnqSize(t)
  BY <1>6 DEF EnqSize
<1>7. CASE RetDec(t)
  BY <1>7 DEF RetDec
<1>8. CASE RelCas(t)
  BY <1>8 DEF RelCas
<1>9. CASE RelClose(t)
  BY <1>9 DEF RelClose
<1>10. CASE RelFree(t)
  BY <1>10 DEF RelFree
<1>11. CASE RelNotify(t)
  BY <1>11 DEF RelNotify
<1>12. CASE RelPush(t)
  BY <1>12 DEF RelPush
<1>13. CASE RecvPost(t)
  BY <1>13 DEF RecvPost
<1>14. CASE SpXchg(t)
  BY <1>14 DEF SpXchg
<1>15. CASE SpSize(t)
  BY <1>15 DEF SpSize
<1>16. CASE SpClear(t)
  BY <1>16 DEF SpClear
<1>17. CASE SpRecheck(t)
  BY <1>17 DEF SpRecheck
<1>18. CASE SpDeq(t)
  BY <1>18 DEF SpDeq
<1>19. CASE SpUndo(t)
  BY <1>19 DEF SpUndo
<1>20. CASE SpInc(t)
  BY <1>20 DEF SpInc
<1>21. CASE SpSend(t)
  BY <1>21 DEF SpSend
<1>22. CASE RpEnd(t)
  BY <1>22 DEF RpEnd
<1>23. CASE SdFree(t)
  BY <1>23 DEF SdFree
<1>24. CASE SdClear(t)
  BY <1>24 DEF SdClear
<1>25. CASE AcFull(t)
  BY <1>25 DEF AcFull
<1>26. CASE AcReject(t)
  BY <1>26 DEF AcReject
<1>27. CASE AcInc(t)
  BY <1>27 DEF AcInc
<1>28. CASE AcClear(t)
  BY <1>28 DEF AcClear
<1>29c. CASE AcCount(t)
  BY <1>29c DEF AcCount
<1>29. CASE AcNotify(t)
  BY <1>29 DEF AcNotify
<1>30. CASE AcIncRecv(t)
  BY <1>30 DEF AcIncRecv
<1> QED
  BY <1>1, <1>2, <1>3, <1>4, <1>5, <1>6, <1>7, <1>8, <1>9, <1>10, <1>11,
    <1>12, <1>13, <1>14, <1>15, <1>16, <1>17, <1>18, <1>19, <1>20, <1>21,
    <1>22, <1>23, <1>24, <1>25, <1>26, <1>27, <1>28, <1>29c, <1>29, <1>30

\* The OVERLAPPED structures.
LEMMA IoQuiet ==
  ASSUME NEW t \in Threads,
         \/ CallSendPacket(t) \/ CallDisconnect(t) \/ FreePacket(t)
         \/ AcqInc(t) \/ AcqCheck(t) \/ EnqLink(t) \/ EnqSize(t) \/ RetDec(t)
         \/ RelCas(t) \/ RelFree(t) \/ RelNotify(t) \/ RelPush(t) \/ SpXchg(t)
         \/ SpSize(t) \/ SpClear(t) \/ SpRecheck(t) \/ SpDeq(t) \/ SpUndo(t)
         \/ SpInc(t) \/ RpEnd(t) \/ SdFree(t) \/ SdClear(t) \/ Accept(t)
         \/ AcPop(t) \/ AcInit(t) \/ AcInc(t) \/ AcClear(t) \/ AcCount(t) \/ AcNotify(t)
         \/ AcIncRecv(t)
  PROVE  UNCHANGED ioVars
  BY DEF CallSendPacket, CallDisconnect, FreePacket, AcqInc, AcqCheck,
    EnqLink, EnqSize, RetDec, RelCas, RelFree, RelNotify, RelPush, SpXchg,
    SpSize, SpClear, SpRecheck, SpDeq, SpUndo, SpInc, RpEnd, SdFree, SdClear,
    Accept, AcPop, AcInit, AcInc, AcClear, AcCount, AcNotify, AcIncRecv

\* OnAccept is called by AcNotify only.
LEMMA AcceptedQuiet ==
  ASSUME NEW t \in Threads,
         \/ CallSendPacket(t) \/ CallDisconnect(t) \/ FreePacket(t)
         \/ AcqInc(t) \/ AcqCheck(t) \/ DcClose(t) \/ EnqLink(t) \/ EnqSize(t)
         \/ RetDec(t) \/ RelCas(t) \/ RelClose(t) \/ RelFree(t)
         \/ RelNotify(t) \/ RelPush(t) \/ RecvPost(t) \/ SpXchg(t)
         \/ SpSize(t) \/ SpClear(t) \/ SpRecheck(t) \/ SpDeq(t) \/ SpUndo(t)
         \/ SpInc(t) \/ SpSend(t) \/ RpEnd(t) \/ SdFree(t) \/ SdClear(t)
         \/ Accept(t) \/ AcPop(t) \/ AcFull(t) \/ AcReject(t) \/ AcInit(t)
         \/ AcInc(t) \/ AcClear(t) \/ AcCount(t) \/ AcIncRecv(t)
  PROVE  UNCHANGED accepted
  BY DEF CallSendPacket, CallDisconnect, FreePacket, AcqInc, AcqCheck,
    DcClose, EnqLink, EnqSize, RetDec, RelCas, RelClose, RelFree, RelNotify,
    RelPush, RecvPost, SpXchg, SpSize, SpClear, SpRecheck, SpDeq, SpUndo,
    SpInc, SpSend, RpEnd, SdFree, SdClear, Accept, AcPop, AcFull, AcReject,
    AcInit, AcInc, AcClear, AcCount, AcIncRecv, history

\* A call names a session in a slot that was opened.
LEMMA CallOpened ==
  ASSUME TypeInv, NEW t \in Threads, CallSendPacket(t) \/ CallDisconnect(t)
  PROVE  slot'[t] \in Slots /\ Opened(slot'[t])
<1>1. PICK id \in Known(t) : Call(t, id) /\ MayCall(t)
  BY DEF CallSendPacket, CallDisconnect
<1>2. ThreadTypeOK /\ OpenedOK /\ ControlOK /\ accepted \subseteq Ids
  BY DEF TypeInv, TypeOK, ServerTypeOK
<1>3. id \in Ids /\ Opened(id[2])
  <2>1. CASE t \in Callers
    BY <1>1, <1>2, <2>1 DEF Known, OpenedOK
  <2>2. CASE t \notin Callers
    <3>1. pc[t] = "RpLoop" /\ id = sessionID[slot[t]]
      BY <1>1, <2>2 DEF MayCall, At, Known
    <3>2. Opened(slot[t])
      BY <1>2, <3>1 DEF OpenedOK
    <3> QED
      BY <3>1, <3>2 DEF Opened
  <2> QED
    BY <2>1, <2>2
<1>4. slot'[t] = id[2]
  BY <1>1, <1>2 DEF Call, ThreadTypeOK
<1> QED
  BY <1>3, <1>4

\* An operation that is aborted was pending.
LEMMA AbortStays ==
  ASSUME NEW c, AbortOn(c)
  PROVE  \A s \in Slots, ty \in IoTypes : io'[s][ty] = "idle" <=> io[s][ty] = "idle"
  BY DEF AbortOn

\* An operation is begun by a post.
LEMMA IoStep ==
  ASSUME TypeInv, NEW t \in Threads, Moves(t), NEW s \in Slots, NEW ty \in IoTypes,
         io'[s][ty] # "idle"
  PROVE  \/ io[s][ty] # "idle"
         \/ RecvPost(t) /\ ty = "recv" /\ s = slot[t]
         \/ SpSend(t) /\ ty = "send" /\ s = slot[t]
<1>1. SystemTypeOK /\ SlotOK(t)
  BY DEF TypeInv, TypeOK, ControlOK, ThreadOK
<1>2. CASE io' = io
  BY <1>2
<1>3. CASE DcClose(t) \/ RelClose(t) \/ AcFull(t) \/ AcReject(t)
  BY <1>3, AbortStays DEF DcClose, RelClose, AcFull, AcReject, CloseSocket
<1>4. CASE RecvPost(t)
  <2>1. slot[t] \in Slots
    BY <1>1, <1>4 DEF RecvPost, At, SlotOK
  <2>2. io' = io \/ io' = [io EXCEPT ![slot[t]]["recv"] = "posted"]
    BY <1>4 DEF RecvPost, Post, ioVars
  <2>3. ASSUME io' = [io EXCEPT ![slot[t]]["recv"] = "posted"],
               s # slot[t] \/ ty # "recv"
        PROVE  io'[s][ty] = io[s][ty]
    BY <1>1, <2>1, <2>3 DEF SystemTypeOK
  <2> QED
    BY <1>4, <2>2, <2>3
<1>5. CASE SpSend(t)
  <2>1. slot[t] \in Slots
    BY <1>1, <1>5 DEF SpSend, At, SlotOK
  <2>2. io' = io \/ io' = [io EXCEPT ![slot[t]]["send"] = "posted"]
    BY <1>5 DEF SpSend, Post, ioVars
  <2>3. ASSUME io' = [io EXCEPT ![slot[t]]["send"] = "posted"],
               s # slot[t] \/ ty # "send"
        PROVE  io'[s][ty] = io[s][ty]
    BY <1>1, <2>1, <2>3 DEF SystemTypeOK
  <2> QED
    BY <1>5, <2>2, <2>3
<1>6. CASE \E r \in Slots, ti \in IoTypes : Complete(t, r, ti)
  BY <1>1, <1>6 DEF Complete, SystemTypeOK
<1> QED
  BY <1>2, <1>3, <1>4, <1>5, <1>6, IoQuiet DEF Moves, Step, ioVars

\* Every slot that a thread works on or that has an operation pending was opened.
LEMMA OpenedStep == TypeInv /\ [Next]_vars => OpenedOK'
<1> SUFFICES ASSUME TypeInv, [Next]_vars PROVE OpenedOK'
  OBVIOUS
<1>1. ThreadTypeOK /\ OpenedOK /\ SystemTypeOK /\ ControlOK /\ accepted \subseteq Ids
  BY DEF TypeInv, TypeOK, ServerTypeOK
<1>2. \A s \in Slots : Opened(s) => Opened(s)'
  BY OpenedStays
<1>3. ASSUME NEW t \in Threads, Moves(t), NEW u \in Threads,
             pc'[u] \notin {"Idle", "AcPop", "AcInit"}
      PROVE  Opened(slot[u])'
  <2>1. \A v \in Threads : pc[v] \notin {"Idle", "AcPop"} => slot[v] \in Slots
    BY <1>1 DEF ControlOK, ThreadOK, SlotOK
  <2>2. CASE slot'[u] = slot[u] /\ pc[u] \notin {"Idle", "AcPop", "AcInit"}
    BY <1>1, <1>2, <2>1, <2>2 DEF OpenedOK, Opened
  <2>3. CASE u # t
    BY <1>1, <1>3, <2>2, <2>3, OthersStay
  <2>4. CASE u = t /\ (CallSendPacket(t) \/ CallDisconnect(t))
    BY <1>2, <2>4, CallOpened DEF Opened
  <2>5. CASE u = t /\ AcInit(t)
    BY <2>5, InitOpens
  <2>6. CASE u = t /\ \E s \in Slots, ty \in IoTypes : Complete(t, s, ty)
    <3>1. PICK s \in Slots, ty \in IoTypes : Complete(t, s, ty)
      BY <2>6
    <3>2. Opened(s)
      BY <1>1, <3>1 DEF Complete, OpenedOK
    <3>3. slot'[t] = s
      BY <1>1, <3>1 DEF Complete, ThreadTypeOK
    <3> QED
      BY <1>2, <2>6, <3>2, <3>3 DEF Opened
  <2>7. CASE u = t /\ (Accept(t) \/ AcPop(t))
    BY <1>1, <1>3, <2>7 DEF Accept, AcPop, Goto, ThreadTypeOK
  <2> QED
    BY <1>1, <1>3, <2>2, <2>3, <2>4, <2>5, <2>6, <2>7, SlotStays DEF Moves, Step
<1>4. ASSUME NEW t \in Threads, Moves(t), NEW s \in Slots, NEW ty \in IoTypes,
             io'[s][ty] # "idle"
      PROVE  Opened(s)'
  <2>1. CASE io[s][ty] # "idle"
    BY <1>1, <1>2, <2>1 DEF OpenedOK
  <2>2. CASE s = slot[t] /\ (RecvPost(t) \/ SpSend(t))
    BY <1>1, <1>2, <2>2 DEF RecvPost, SpSend, At, OpenedOK
  <2> QED
    BY <1>4, <2>1, <2>2, IoStep
<1>5. ASSUME NEW t \in Threads, Moves(t), NEW id \in accepted'
      PROVE  Opened(id[2])'
  <2>1. CASE id \in accepted
    BY <1>1, <1>2, <2>1 DEF OpenedOK
  <2>2. CASE AcNotify(t) /\ id = sessionID[slot[t]]
    <3>1. slot[t] \in Slots /\ Opened(slot[t])
      BY <1>1, <2>2 DEF AcNotify, At, ControlOK, ThreadOK, SlotOK, OpenedOK
    <3> QED
      BY <1>2, <2>2, <3>1 DEF Opened
  <2>3. CASE accepted' = accepted
    BY <1>5, <2>1, <2>3
  <2>4. CASE AcNotify(t)
    BY <1>5, <2>1, <2>2, <2>4 DEF AcNotify
  <2>5. CASE \E r \in Slots, ti \in IoTypes : Complete(t, r, ti)
    BY <2>3, <2>5 DEF Complete, history
  <2> QED
    BY <1>5, <2>3, <2>4, <2>5, AcceptedQuiet DEF Moves, Step
<1>6. ASSUME UNCHANGED <<pc, slot, accepted>>,
             \A s \in Slots, ty \in IoTypes : io[s][ty] = "idle" => io'[s][ty] = "idle"
      PROVE  OpenedOK'
  BY <1>1, <1>2, <1>6 DEF OpenedOK, Opened, ControlOK, ThreadOK, SlotOK
<1>7. ASSUME NEW s \in Slots, NEW ty \in IoTypes, IoDone(s, ty)
      PROVE  OpenedOK'
  BY <1>1, <1>6, <1>7 DEF IoDone, callVars, history, SystemTypeOK
<1>8. ASSUME NEW c \in Conns, PeerReset(c)
      PROVE  OpenedOK'
  BY <1>6, <1>8, AbortStays DEF PeerReset, callVars, history
<1>9. UNCHANGED vars => OpenedOK'
  BY <1>6 DEF vars, callVars, history, ioVars
<1>10. ASSUME NEW t \in Threads, Moves(t)
       PROVE  OpenedOK'
  BY <1>3, <1>4, <1>5, <1>10 DEF OpenedOK
<1> QED
  BY <1>7, <1>8, <1>9, <1>10, NextCases

\* The send queues and the packets being sent.
LEMMA SendQuiet ==
  ASSUME NEW t \in Threads,
         \/ CallSendPacket(t) \/ CallDisconnect(t) \/ FreePacket(t)
         \/ AcqInc(t) \/ AcqCheck(t) \/ DcClose(t) \/ RetDec(t) \/ RelCas(t)
         \/ RelClose(t) \/ RelNotify(t) \/ RelPush(t) \/ RecvPost(t)
         \/ SpRecheck(t) \/ SpSend(t) \/ RpEnd(t) \/ Accept(t) \/ AcPop(t)
         \/ AcFull(t) \/ AcReject(t) \/ AcInc(t) \/ AcClear(t) \/ AcCount(t) \/ AcNotify(t)
         \/ AcIncRecv(t)
  PROVE  UNCHANGED sendVars
  BY DEF CallSendPacket, CallDisconnect, FreePacket, AcqInc, AcqCheck,
    DcClose, RetDec, RelCas, RelClose, RelNotify, RelPush, RecvPost,
    SpRecheck, SpSend, RpEnd, Accept, AcPop, AcFull, AcReject, AcInc, AcClear,
    AcCount, AcNotify, AcIncRecv

\* The send side of a session keeps its type.
LEMMA SendStep == TypeInv /\ [Next]_vars => SendTypeOK'
<1> SUFFICES ASSUME TypeInv, [Next]_vars PROVE SendTypeOK'
  OBVIOUS
<1>1. SendTypeOK /\ (\A t \in Threads : SlotOK(t) /\ CallOK(t))
  BY DEF TypeInv, TypeOK, ControlOK, ThreadOK
<1> USE DEF SendTypeOK, At, SlotOK
<1>2. ASSUME NEW t \in Threads, EnqLink(t)
      PROVE  SendTypeOK'
  <2>1. [pkt |-> pkt[t], to |-> arg[t]] \in Entry /\ slot[t] \in Slots
    BY <1>1, <1>2 DEF EnqLink, CallOK, Entry
  <2> QED
    BY <1>1, <1>2, <2>1 DEF EnqLink
<1>3. ASSUME NEW t \in Threads,
             \/ EnqSize(t) \/ SpXchg(t) \/ SpSize(t) \/ SpClear(t) \/ SpUndo(t)
             \/ SdFree(t) \/ SdClear(t) \/ AcInit(t)
      PROVE  SendTypeOK'
  <2>1. CASE EnqSize(t) \/ SpUndo(t)
    BY <1>1, <2>1 DEF EnqSize, SpUndo
  <2>2. CASE SpXchg(t) \/ SpClear(t) \/ SdClear(t)
    BY <1>1, <2>2 DEF SpXchg, SpClear, SdClear
  <2>3. CASE SdFree(t)
    BY <1>1, <2>3 DEF SdFree
  <2>4. CASE AcInit(t)
    BY <1>1, <2>4 DEF AcInit
  <2>5. CASE SpSize(t)
    <3>1. UNCHANGED <<isSending, sendQ, qsize, sendingCount>>
      BY <2>5 DEF SpSize
    <3>2. CASE sending' = sending
      BY <1>1, <3>1, <3>2
    <3>3. CASE sending' = [sending EXCEPT ![slot[t]] = <<>>]
      <4>1. slot[t] \in Slots /\ <<>> \in Seq(Entry)
        BY <1>1, <2>5 DEF SpSize
      <4> QED
        BY <1>1, <3>1, <3>3, <4>1
    <3> QED
      BY <2>5, <3>2, <3>3 DEF SpSize
  <2> QED
    BY <1>3, <2>1, <2>2, <2>3, <2>4, <2>5
<1>4. ASSUME NEW t \in Threads, SpInc(t)
      PROVE  SendTypeOK'
  BY <1>1, <1>4 DEF SpInc
<1>5. ASSUME NEW t \in Threads, SpDeq(t)
      PROVE  SendTypeOK'
  <2>1. slot[t] \in Slots /\ sendQ[slot[t]] \in Seq(Entry) /\ sending[slot[t]] \in Seq(Entry)
    BY <1>1, <1>5 DEF SpDeq
  <2>2. sendQ[slot[t]] # <<>> =>
          /\ Tail(sendQ[slot[t]]) \in Seq(Entry)
          /\ Append(sending[slot[t]], Head(sendQ[slot[t]])) \in Seq(Entry)
    BY <2>1, HeadIn
  <2>3. CASE /\ sendQ[slot[t]] # <<>>
             /\ qsize' = [qsize EXCEPT ![slot[t]] = @ - 1]
             /\ sending' = [sending EXCEPT ![slot[t]] = Append(@, Head(sendQ[slot[t]]))]
             /\ sendQ' = [sendQ EXCEPT ![slot[t]] = Tail(@)]
    <3>1. UNCHANGED <<isSending, sendingCount>>
      BY <1>5 DEF SpDeq
    <3> QED
      BY <1>1, <2>1, <2>2, <2>3, <3>1
  <2>4. CASE sendQ' = sendQ /\ sending' = sending
    BY <1>1, <1>5, <2>1, <2>4 DEF SpDeq
  <2> QED
    BY <1>5, <2>3, <2>4 DEF SpDeq
<1>6. ASSUME NEW t \in Threads, RelFree(t)
      PROVE  SendTypeOK'
  <2> DEFINE s == slot[t]
             drained == IF qsize[s] < 0 THEN 0 ELSE qsize[s]
  <2>1. s \in Slots /\ sendQ[s] \in Seq(Entry) /\ qsize[s] \in Int
    BY <1>1, <1>6 DEF RelFree
  <2>2. drained \in Nat /\ drained <= Len(sendQ[s])
    BY <1>6, <2>1 DEF RelFree
  <2>3. SubSeq(sendQ[s], drained + 1, Len(sendQ[s])) \in Seq(Entry)
    BY <2>1, <2>2
  <2>4. /\ isSending' = isSending
        /\ sending' = [sending EXCEPT ![s] = <<>>]
        /\ sendingCount' = [sendingCount EXCEPT ![s] = 0]
        /\ sendQ' = [sendQ EXCEPT ![s] = SubSeq(@, drained + 1, Len(@))]
        /\ qsize' = [qsize EXCEPT ![s] = @ - drained]
    BY <1>6 DEF RelFree
  <2> HIDE DEF drained, s
  <2> QED
    BY <1>1, <2>1, <2>2, <2>3, <2>4
<1>7. ASSUME UNCHANGED sendVars
      PROVE  SendTypeOK'
  BY <1>1, <1>7 DEF sendVars
<1>8. ASSUME NEW s \in Slots, NEW ty \in IoTypes,
             IoDone(s, ty) \/ \E t \in Threads : Complete(t, s, ty)
      PROVE  UNCHANGED sendVars
  BY <1>8 DEF IoDone, Complete
<1>9. ASSUME NEW c \in Conns, PeerReset(c)
      PROVE  UNCHANGED sendVars
  BY <1>9 DEF PeerReset
<1>10. UNCHANGED vars => UNCHANGED sendVars
  BY DEF vars
<1> QED
  BY <1>2, <1>3, <1>4, <1>5, <1>6, <1>7, <1>8, <1>9, <1>10, SendQuiet, NextCases
  DEF Moves, Step

\* What Windows keeps.
LEMMA SystemQuiet ==
  ASSUME NEW t \in Threads,
         \/ CallSendPacket(t) \/ CallDisconnect(t) \/ FreePacket(t)
         \/ AcqInc(t) \/ AcqCheck(t) \/ EnqLink(t) \/ EnqSize(t) \/ RetDec(t)
         \/ RelCas(t) \/ RelFree(t) \/ RelNotify(t) \/ RelPush(t) \/ SpXchg(t)
         \/ SpSize(t) \/ SpClear(t) \/ SpRecheck(t) \/ SpDeq(t) \/ SpUndo(t)
         \/ SpInc(t) \/ RpEnd(t) \/ SdFree(t) \/ SdClear(t) \/ AcPop(t)
         \/ AcInit(t) \/ AcInc(t) \/ AcClear(t) \/ AcCount(t) \/ AcNotify(t) \/ AcIncRecv(t)
  PROVE  UNCHANGED <<connVars, ioVars>>
  BY DEF CallSendPacket, CallDisconnect, FreePacket, AcqInc, AcqCheck,
    EnqLink, EnqSize, RetDec, RelCas, RelFree, RelNotify, RelPush, SpXchg,
    SpSize, SpClear, SpRecheck, SpDeq, SpUndo, SpInc, RpEnd, SdFree, SdClear,
    AcPop, AcInit, AcInc, AcClear, AcCount, AcNotify, AcIncRecv

\* An abort leaves the OVERLAPPED structures in one of their states.
LEMMA AbortType ==
  ASSUME SystemTypeOK, NEW c, AbortOn(c)
  PROVE  /\ io' \in [Slots -> [IoTypes -> {"idle", "posted", "ok", "err"}]]
         /\ ioOn' \in [Slots -> [IoTypes -> Conns \cup {NoConn}]]
  BY DEF AbortOn, SystemTypeOK

\* What Windows holds keeps its type.
LEMMA SystemStep == TypeInv /\ [Next]_vars => SystemTypeOK'
<1> SUFFICES ASSUME TypeInv, [Next]_vars PROVE SystemTypeOK'
  OBVIOUS
<1>1. SystemTypeOK /\ OpenedOK /\ gen \in 0 .. MaxGen /\ (\A t \in Threads : SlotOK(t))
  BY DEF TypeInv, TypeOK, ServerTypeOK, ControlOK, ThreadOK
<1>2. ASSUME NEW h, CloseSocket(h)
      PROVE  SystemTypeOK'
  BY <1>1, <1>2, AbortType DEF CloseSocket, SystemTypeOK
<1>3. ASSUME NEW t \in Threads, DcClose(t) \/ RelClose(t) \/ AcFull(t) \/ AcReject(t)
      PROVE  SystemTypeOK'
  BY <1>2, <1>3 DEF DcClose, RelClose, AcFull, AcReject
<1>4. ASSUME NEW t \in Threads, RecvPost(t) \/ SpSend(t)
      PROVE  SystemTypeOK'
  <2>1. slot[t] \in Slots /\ sock[slot[t]] \in Handles
    BY <1>1, <1>4 DEF RecvPost, SpSend, At, SlotOK, OpenedOK, Opened
  <2>2. owner' = owner /\ reset' = reset
    BY <1>4 DEF RecvPost, SpSend, connVars
  <2> QED
    BY <1>1, <1>4, <2>1, <2>2 DEF RecvPost, SpSend, Post, ioVars, SystemTypeOK
<1>5. ASSUME NEW t \in Threads, Accept(t)
      PROVE  SystemTypeOK'
  <2>1. gen + 1 \in Conns
    BY <1>1, <1>5, BoundAssumption DEF Accept
  <2> QED
    BY <1>1, <1>5, <2>1 DEF Accept, ioVars, SystemTypeOK
<1>6. ASSUME NEW t \in Threads, NEW s \in Slots, NEW ty \in IoTypes,
             IoDone(s, ty) \/ Complete(t, s, ty)
      PROVE  SystemTypeOK'
  <2>1. CASE IoDone(s, ty)
    <3>1. owner' = owner /\ reset' = reset
      BY <2>1 DEF IoDone, connVars
    <3>2. PICK r \in {"ok", "err"} : io' = [io EXCEPT ![s][ty] = r]
      BY <2>1 DEF IoDone
    <3>3. ioOn' = [ioOn EXCEPT ![s][ty] = NoConn]
      BY <2>1 DEF IoDone
    <3> QED
      BY <1>1, <3>1, <3>2, <3>3 DEF SystemTypeOK
  <2>2. CASE Complete(t, s, ty)
    BY <1>1, <2>2 DEF Complete, connVars, SystemTypeOK
  <2> QED
    BY <1>6, <2>1, <2>2
<1>7. ASSUME NEW c \in Conns, PeerReset(c)
      PROVE  SystemTypeOK'
  BY <1>1, <1>7, AbortType DEF PeerReset, SystemTypeOK
<1>8. ASSUME UNCHANGED <<connVars, ioVars>>
      PROVE  SystemTypeOK'
  BY <1>1, <1>8 DEF connVars, ioVars, SystemTypeOK
<1>9. UNCHANGED vars => UNCHANGED <<connVars, ioVars>>
  BY DEF vars
<1>10. Threads # {}
  OBVIOUS
<1> QED
  BY <1>3, <1>4, <1>5, <1>6, <1>7, <1>8, <1>9, <1>10, SystemQuiet, NextCases
  DEF Moves, Step

\* The variables of the server and its packets.
LEMMA ServerQuiet ==
  ASSUME NEW t \in Threads,
         \/ CallDisconnect(t) \/ AcqInc(t) \/ AcqCheck(t) \/ DcClose(t)
         \/ EnqSize(t) \/ RetDec(t) \/ RelCas(t) \/ RelClose(t) \/ SpXchg(t)
         \/ SpSize(t) \/ SpClear(t) \/ SpRecheck(t) \/ SpDeq(t) \/ SpUndo(t)
         \/ SpInc(t) \/ RpEnd(t) \/ SdClear(t) \/ Accept(t) \/ AcFull(t)
         \/ AcInc(t) \/ AcClear(t) \/ AcIncRecv(t)
  PROVE  UNCHANGED <<poolVars, ref, crashed, history>>
  BY DEF CallDisconnect, AcqInc, AcqCheck, DcClose, EnqSize, RetDec, RelCas,
    RelClose, SpXchg, SpSize, SpClear, SpRecheck, SpDeq, SpUndo, SpInc, RpEnd,
    SdClear, Accept, AcFull, AcInc, AcClear, AcIncRecv

\* How many references a queue gives back is a number.
LEMMA RefsInNat ==
  ASSUME NEW q, NEW n \in Nat, NEW p
  PROVE  RefsIn(q, n, p) \in Nat
<1>1. IsFiniteSet(1 .. n)
  BY FS_Interval
<1>2. IsFiniteSet({i \in 1 .. n : q[i].pkt = p})
  BY <1>1, FS_Subset
<1> QED
  BY <1>2, FS_CardinalityType DEF RefsIn

\* The index stack, the generator and the packets keep their types.
LEMMA ServerStep == TypeInv /\ [Next]_vars => ServerTypeOK'
<1> SUFFICES ASSUME TypeInv, [Next]_vars PROVE ServerTypeOK'
  OBVIOUS
<1>1. /\ ServerTypeOK /\ SendTypeOK /\ OpenedOK
      /\ \A t \in Threads : SlotOK(t) /\ AcceptOK(t)
  BY DEF TypeInv, TypeOK, ControlOK, ThreadOK
<1> USE DEF At
<1>2. ASSUME NEW t \in Threads, CallSendPacket(t) \/ FreePacket(t) \/ EnqLink(t)
      PROVE  ServerTypeOK'
  BY <1>1, <1>2 DEF CallSendPacket, FreePacket, EnqLink, poolVars, history, ServerTypeOK
<1>3. ASSUME NEW t \in Threads, RelFree(t) \/ SdFree(t)
      PROVE  ServerTypeOK'
  <2> DEFINE s == slot[t]
             drained == IF qsize[s] < 0 THEN 0 ELSE qsize[s]
  <2>1. s \in Slots
    BY <1>1, <1>3 DEF RelFree, SdFree, SlotOK
  <2>2. sendingCount[s] \in Nat /\ drained \in Nat
    BY <1>1, <2>1 DEF SendTypeOK
  <2>3. \A p \in Packets : /\ RefsIn(sending[s], sendingCount[s], p) \in Nat
                           /\ RefsIn(sendQ[s], drained, p) \in Nat
    BY <2>2, RefsInNat
  <2>4. CASE RelFree(t)
    <3>1. /\ ref' = [p \in Packets |-> ref[p] - RefsIn(sending[s], sendingCount[s], p)
                                              - RefsIn(sendQ[s], drained, p)]
          /\ sessionCount' = sessionCount - 1
          /\ UNCHANGED <<indexStack, gen, crashed, accepted, released>>
      BY <2>4 DEF RelFree, history
    <3> HIDE DEF s, drained
    <3> QED
      BY <1>1, <2>3, <3>1 DEF ServerTypeOK
  <2>5. CASE SdFree(t)
    <3>1. /\ ref' = [p \in Packets |-> ref[p] - RefsIn(sending[s], sendingCount[s], p)]
          /\ UNCHANGED <<poolVars, crashed, history>>
      BY <2>5 DEF SdFree
    <3> HIDE DEF s, drained
    <3> QED
      BY <1>1, <2>3, <3>1 DEF ServerTypeOK, poolVars, history
  <2> QED
    BY <1>3, <2>4, <2>5
<1>4. ASSUME NEW t \in Threads, RelPush(t) \/ AcReject(t)
      PROVE  ServerTypeOK'
  <2>1. <<slot[t]>> \o indexStack \in Seq(Slots)
    BY <1>1, <1>4, PushIn DEF RelPush, AcReject, SlotOK, ServerTypeOK
  <2> QED
    BY <1>1, <1>4, <2>1 DEF RelPush, AcReject, history, ServerTypeOK
<1>5. ASSUME NEW t \in Threads, AcPop(t)
      PROVE  ServerTypeOK'
  <2>1. Tail(indexStack) \in Seq(Slots)
    BY <1>1, <1>5, HeadIn DEF AcPop, ServerTypeOK
  <2> QED
    BY <1>1, <1>5, <2>1 DEF AcPop, history, ServerTypeOK
<1>6. ASSUME NEW t \in Threads, AcInit(t)
      PROVE  ServerTypeOK'
  <2>1. gen + 1 \in 0 .. MaxGen
    BY <1>1, <1>6, BoundAssumption DEF AcInit, AcceptOK, ServerTypeOK
  <2> QED
    BY <1>1, <1>6, <2>1 DEF AcInit, history, ServerTypeOK
<1>7a. ASSUME NEW t \in Threads, AcCount(t)
       PROVE  ServerTypeOK'
  BY <1>1, <1>7a DEF AcCount, history, ServerTypeOK
<1>7. ASSUME NEW t \in Threads, AcNotify(t) \/ RelNotify(t)
      PROVE  ServerTypeOK'
  <2>1. sessionID[slot[t]] \in Ids
    BY <1>1, <1>7 DEF AcNotify, RelNotify, OpenedOK, Opened
  <2> QED
    BY <1>1, <1>7, <2>1 DEF AcNotify, RelNotify, poolVars, ServerTypeOK
<1>8. ASSUME NEW t \in Threads, RecvPost(t) \/ SpSend(t)
      PROVE  ServerTypeOK'
  BY <1>1, <1>8 DEF RecvPost, SpSend, Post, poolVars, history, ServerTypeOK
<1>9. ASSUME UNCHANGED <<poolVars, ref, crashed, history>>
      PROVE  ServerTypeOK'
  BY <1>1, <1>9 DEF poolVars, history, ServerTypeOK
<1>10. ASSUME NEW s \in Slots, NEW ty \in IoTypes,
              IoDone(s, ty) \/ \E t \in Threads : Complete(t, s, ty)
       PROVE  UNCHANGED <<poolVars, ref, crashed, history>>
  BY <1>10 DEF IoDone, Complete
<1>11. ASSUME NEW c \in Conns, PeerReset(c)
       PROVE  UNCHANGED <<poolVars, ref, crashed, history>>
  BY <1>11 DEF PeerReset
<1>12. UNCHANGED vars => UNCHANGED <<poolVars, ref, crashed, history>>
  BY DEF vars
<1> QED
  BY <1>2, <1>3, <1>4, <1>5, <1>6, <1>7a, <1>7, <1>8, <1>9, <1>10, <1>11,
     <1>12, ServerQuiet, NextCases DEF Moves, Step

\* The initial state satisfies the type invariant and what it needs.
LEMMA TypeInit == Init => TypeInv
<1> SUFFICES ASSUME Init PROVE TypeInv
  OBVIOUS
<1>1. SessionTypeOK
  BY DEF Init, SessionTypeOK
<1>2. SendTypeOK
  BY DEF Init, SendTypeOK
<1>3. ServerTypeOK
  <2>1. [i \in 1 .. MaxSessionCount |-> i - 1] \in Seq(Slots)
    <3>1. \A i \in 1 .. MaxSessionCount : i - 1 \in Slots
      BY BoundAssumption
    <3> HIDE DEF Slots
    <3> QED
      BY <3>1, BoundAssumption
  <2>2. indexStack \in Seq(Slots)
    BY <2>1 DEF Init
  <2>3. gen \in 0 .. MaxGen
    BY BoundAssumption DEF Init
  <2>4. sessionCount \in Int /\ ref \in [Packets -> Int]
    BY DEF Init
  <2>6. crashed \in BOOLEAN
    BY DEF Init
  <2>5. accepted \subseteq Ids /\ released \subseteq Ids
    BY DEF Init
  <2> QED
    BY <2>2, <2>3, <2>4, <2>5, <2>6 DEF ServerTypeOK
<1>4. SystemTypeOK
  BY DEF Init, SystemTypeOK
<1>5. ThreadTypeOK
  BY BoundAssumption DEF Init, ThreadTypeOK, Labels
<1>6. ControlOK
  BY DEF Init, ControlOK, ThreadOK, HomeOK, HeldOK, SlotOK, AcceptOK, CallOK, Base,
     AcceptLabels, NoneHeld, ReleaseLabels
<1>7. OpenedOK
  BY DEF Init, OpenedOK
<1> QED
  BY <1>1, <1>2, <1>3, <1>4, <1>5, <1>6, <1>7 DEF TypeInv, TypeOK

\* Every step preserves it.
LEMMA TypeStep == TypeInv /\ [Next]_vars => TypeInv'
  BY SessionStep, SendStep, ServerStep, SystemStep, ControlStep, OpenedStep
  DEF TypeInv, TypeOK

\* Every variable keeps to its type, whatever the threads do: in particular a
\* thread never has more than three references of a session to give back and
\* the generator never passes its bound.
THEOREM TypeCorrect == Spec => []TypeOK
<1>1. TypeInv => TypeOK
  BY DEF TypeInv
<1> QED
  BY <1>1, TypeInit, TypeStep, PTL DEF Spec

----------------------------------------------------------------------------
(***************************************************************************)
(* The inductive invariant.                                                *)
(***************************************************************************)

\* Where a thread relies on its session being live.
LiveLabels == {"AcqCheck", "EnqLink", "EnqSize", "DcClose", "SpXchg", "SpSize",
               "SpClear", "SpRecheck", "SpDeq", "SpUndo", "SpInc", "SpSend",
               "RecvPost", "RpLoop", "SdFree", "SdClear", "AcCount", "AcNotify",
               "AcIncRecv"}
Relies(t) == pc[t] \in LiveLabels \/ home[t] = "RpLoop"

LiveOK ==
  /\ \A t \in Threads : Relies(t) => ~flag[slot[t]]
  /\ \A s \in Slots, ty \in IoTypes : io[s][ty] # "idle" => ~flag[s]

IdOK ==
  \A t \in Threads : pc[t] \in {"EnqLink", "EnqSize", "DcClose"} =>
    sessionID[slot[t]] = arg[t]

\* Where a thread has taken its slot out of circulation.
OwnLabels == {"RelClose", "RelFree", "RelNotify", "RelPush", "AcInit", "AcInc", "AcClear"}
Owns(t)    == pc[t] \in OwnLabels
InStack(s) == \E i \in 1 .. Len(indexStack) : indexStack[i] = s

\* What is in the stack or owned is flagged, not both, and once; and what is
\* flagged is in the stack or owned.
StackFlagged  == \A s \in Slots : InStack(s) => flag[s]
OwnerFlagged  == \A t \in Threads : Owns(t) => flag[slot[t]] /\ ~InStack(slot[t])
OwnerUnique   == \A t, u \in Threads : Owns(t) /\ Owns(u) /\ slot[t] = slot[u] => t = u
StackDistinct == \A i, j \in 1 .. Len(indexStack) : indexStack[i] = indexStack[j] => i = j
FlagCovered   ==
  \A s \in Slots : flag[s] => InStack(s) \/ \E t \in Threads : Owns(t) /\ slot[t] = s

OwnerOK == StackFlagged /\ OwnerFlagged /\ OwnerUnique /\ StackDistinct /\ FlagCovered

\* The thread whose turn it is to receive, and the one whose turn it is to send.
RecvTurn(t) ==
  \/ pc[t] \in {"AcCount", "AcNotify", "AcIncRecv", "RecvPost", "RpLoop"}
  \/ home[t] = "RpLoop"
SendTurn(t) ==
  pc[t] \in {"SpSize", "SpClear", "SpDeq", "SpUndo", "SpInc", "SpSend", "SdFree", "SdClear"}

RecvOK ==
  /\ \A t \in Threads : RecvTurn(t) => io[slot[t]]["recv"] = "idle"
  /\ \A t, u \in Threads : RecvTurn(t) /\ RecvTurn(u) /\ slot[t] = slot[u] => t = u

SendOK ==
  /\ \A t \in Threads : SendTurn(t) => io[slot[t]]["send"] = "idle" /\ isSending[slot[t]]
  /\ \A t, u \in Threads : SendTurn(t) /\ SendTurn(u) /\ slot[t] = slot[u] => t = u
  /\ \A s \in Slots : io[s]["send"] # "idle" => isSending[s]

SafeInv == TypeInv /\ RefExact /\ LiveOK /\ IdOK /\ OwnerOK /\ RecvOK /\ SendOK /\ NoZombie

----------------------------------------------------------------------------
(***************************************************************************)
(* Counting references.                                                    *)
(***************************************************************************)

\* How many references of s thread t has to give back, and whether an
\* operation is in flight.
Owed(t, s) == IF slot[t] = s THEN held[t] ELSE 0
Flight(s, ty) == IF io[s][ty] = "idle" THEN 0 ELSE 1

\* The references threads hold of a session can be counted.
LEMMA ThreadRefsFinite ==
  ASSUME NEW s
  PROVE  IsFiniteSet(ThreadRefs(s)) /\ Cardinality(ThreadRefs(s)) \in Nat
<1>1. IsFiniteSet(1 .. 3)
  <2>1. \A n \in Nat : IsFiniteSet(1 .. n)
    BY FS_Interval
  <2> QED
    BY <2>1
<1>2. IsFiniteSet(Threads \X (1 .. 3))
  BY <1>1, ThreadAssumption, FS_Product
<1>3. IsFiniteSet(ThreadRefs(s))
  BY <1>2, FS_Subset DEF ThreadRefs
<1> QED
  BY <1>3, FS_CardinalityType

\* The operations in flight are none, one or two.
LEMMA PairCount ==
  ASSUME NEW S, S \subseteq IoTypes
  PROVE  Cardinality(S) = (IF "recv" \in S THEN 1 ELSE 0) + (IF "send" \in S THEN 1 ELSE 0)
<1>1. Cardinality({}) = 0
  BY FS_EmptySet
<1>2. Cardinality({"recv"}) = 1 /\ Cardinality({"send"}) = 1 /\ IsFiniteSet({"recv"})
  BY FS_Singleton
<1>3. Cardinality({"recv"} \cup {"send"}) = 2
  BY <1>2, FS_AddElement
<1>4. CASE S = {}
  BY <1>1, <1>4
<1>5. CASE S = {"recv"} \/ S = {"send"}
  BY <1>2, <1>5
<1>6. CASE S = {"recv"} \cup {"send"}
  BY <1>3, <1>6
<1>7. S = {} \/ S = {"recv"} \/ S = {"send"} \/ S = {"recv"} \cup {"send"}
  OBVIOUS
<1> QED
  BY <1>4, <1>5, <1>6, <1>7

\* So many references of a session are held by the system.
LEMMA IoRefsCount ==
  ASSUME NEW s
  PROVE  /\ Cardinality(IoRefs(s)) = Flight(s, "recv") + Flight(s, "send")
         /\ Cardinality(IoRefs(s)') = Flight(s, "recv")' + Flight(s, "send")'
<1>1. IoRefs(s) \subseteq IoTypes /\ IoRefs(s)' \subseteq IoTypes
  BY DEF IoRefs
<1>2. \A ty \in IoTypes : /\ Flight(s, ty) = IF ty \in IoRefs(s) THEN 1 ELSE 0
                          /\ Flight(s, ty)' = IF ty \in IoRefs(s)' THEN 1 ELSE 0
  BY DEF IoRefs, Flight
<1> QED
  BY <1>1, <1>2, PairCount

\* When one thread alone changes what it owes, by one at most, the set of
\* references follows.
LEMMA RefsMove ==
  ASSUME ThreadTypeOK, ThreadTypeOK', NEW t \in Threads, NEW s \in Slots,
         \A u \in Threads \ {t} : slot'[u] = slot[u] /\ held'[u] = held[u],
         Owed(t, s)' - Owed(t, s) \in {-1, 0, 1}
  PROVE  Cardinality(ThreadRefs(s)') =
           Cardinality(ThreadRefs(s)) + (Owed(t, s)' - Owed(t, s))
<1>1. Owed(t, s) \in 0 .. 3 /\ Owed(t, s)' \in 0 .. 3
  BY DEF Owed, ThreadTypeOK
<1>2. ThreadRefs(s) = {r \in Threads \X (1 .. 3) : r[2] <= Owed(r[1], s)}
  BY DEF ThreadRefs, Owed, ThreadTypeOK
<1>3. ThreadRefs(s)' = {r \in Threads \X (1 .. 3) : r[2] <= Owed(r[1], s)'}
  BY DEF ThreadRefs, Owed, ThreadTypeOK
<1>4. \A u \in Threads \ {t} : Owed(u, s)' = Owed(u, s)
  BY DEF Owed
<1>5. CASE Owed(t, s)' = Owed(t, s)
  <2>1. ThreadRefs(s)' = ThreadRefs(s)
    BY <1>2, <1>3, <1>4, <1>5
  <2> QED
    BY <1>1, <1>5, <2>1, ThreadRefsFinite
<1>6. CASE Owed(t, s)' = Owed(t, s) + 1
  <2> DEFINE r == <<t, Owed(t, s)'>>
  <2>1. ThreadRefs(s)' = ThreadRefs(s) \cup {r} /\ r \notin ThreadRefs(s)
    BY <1>1, <1>2, <1>3, <1>4, <1>6
  <2>2. Cardinality(ThreadRefs(s) \cup {r}) = Cardinality(ThreadRefs(s)) + 1
    <3> HIDE DEF r
    <3> QED
      BY <2>1, ThreadRefsFinite, FS_AddElement
  <2> QED
    BY <1>1, <1>6, <2>1, <2>2, ThreadRefsFinite
<1>7. CASE Owed(t, s) = Owed(t, s)' + 1
  <2> DEFINE r == <<t, Owed(t, s)>>
  <2>1. ThreadRefs(s)' = ThreadRefs(s) \ {r} /\ r \in ThreadRefs(s)
    BY <1>1, <1>2, <1>3, <1>4, <1>7
  <2> QED
    BY <1>1, <1>7, <2>1, ThreadRefsFinite, FS_RemoveElement
<1> QED
  BY <1>1, <1>5, <1>6, <1>7

\* ioCount is at least what a single thread has to give back.
LEMMA HeldAtLeast ==
  ASSUME TypeInv, RefExact, NEW t \in Threads, slot[t] \in Slots, held[t] >= 2
  PROVE  count[slot[t]] >= 2
<1> DEFINE s == slot[t]
<1>1. held[t] \in 2 .. 3
  BY DEF TypeInv, TypeOK, ThreadTypeOK
<1>2. {<<t, 1>>, <<t, 2>>} \subseteq ThreadRefs(s)
  BY <1>1 DEF ThreadRefs
<1>3. Cardinality({<<t, 1>>, <<t, 2>>}) = 2
  <2> DEFINE one == {<<t, 1>>}
             two == <<t, 2>>
  <2>1. IsFiniteSet(one) /\ Cardinality(one) = 1
    BY FS_Singleton
  <2>2. two \notin one
    OBVIOUS
  <2>3. {<<t, 1>>, <<t, 2>>} = one \cup {two}
    OBVIOUS
  <2> HIDE DEF one, two
  <2>4. Cardinality(one \cup {two}) = Cardinality(one) + 1
    BY <2>1, <2>2, FS_AddElement
  <2> QED
    BY <2>1, <2>3, <2>4
<1>4. IsFiniteSet(ThreadRefs(s)) /\ Cardinality(ThreadRefs(s)) \in Nat
  BY ThreadRefsFinite, FS_CardinalityType
<1>5. Cardinality(ThreadRefs(s)) >= 2
  BY <1>2, <1>3, <1>4, FS_Subset
<1>6. Cardinality(IoRefs(s)) \in Nat
  BY IoRefsCount DEF Flight
<1> QED
  BY <1>4, <1>5, <1>6 DEF RefExact

\* A reference that is not given back yet keeps ioCount above zero.
LEMMA HeldCounts ==
  ASSUME TypeInv, RefExact, NEW s \in Slots, count[s] = 0
  PROVE  /\ \A t \in Threads : slot[t] = s => held[t] = 0
         /\ \A ty \in IoTypes : io[s][ty] = "idle"
<1>1. Cardinality(ThreadRefs(s)) = 0 /\ Flight(s, "recv") = 0 /\ Flight(s, "send") = 0
  BY IoRefsCount, ThreadRefsFinite DEF RefExact, Flight
<1>2. ThreadRefs(s) = {}
  BY <1>1, ThreadRefsFinite, FS_EmptySet
<1>3. ASSUME NEW t \in Threads, slot[t] = s, held[t] # 0
      PROVE  FALSE
  <2>1. held[t] \in 0 .. 3
    BY DEF TypeInv, TypeOK, ThreadTypeOK
  <2>2. <<t, 1>> \in ThreadRefs(s)
    BY <1>3, <2>1 DEF ThreadRefs
  <2> QED
    BY <1>2, <2>2
<1> QED
  BY <1>1, <1>3 DEF Flight

\* A call is made without a reference, or from OnRecv for the session served.
LEMMA CallSlot ==
  ASSUME TypeInv, NEW t \in Threads, CallSendPacket(t) \/ CallDisconnect(t)
  PROVE  slot'[t] = slot[t] \/ held[t] = 0
<1>1. PICK id \in Known(t) : Call(t, id) /\ MayCall(t)
  BY DEF CallSendPacket, CallDisconnect
<1>2. ThreadTypeOK /\ OpenedOK /\ ThreadOK(t)
  BY DEF TypeInv, TypeOK, ControlOK
<1>3. slot'[t] = id[2]
  BY <1>1, <1>2 DEF Call, ThreadTypeOK
<1>4. CASE pc[t] = "Idle"
  BY <1>2, <1>4 DEF ThreadOK, HeldOK, HomeOK, Base, NoneHeld, ThreadTypeOK, CallLabels,
     ReleaseLabels
<1>5. CASE pc[t] = "RpLoop" /\ t \in Workers
  <2>1. id = sessionID[slot[t]]
    BY <1>1, <1>5, ThreadAssumption DEF Known
  <2>2. Opened(slot[t])
    BY <1>2, <1>5 DEF OpenedOK
  <2> QED
    BY <1>3, <2>1, <2>2 DEF Opened
<1> QED
  BY <1>1, <1>4, <1>5 DEF MayCall, At


\* What a step of t does to ioCount is what it does to the references of t and
\* to the operations in flight.
Balanced(t, s) ==
  /\ Owed(t, s)' - Owed(t, s) \in {-1, 0, 1}
  /\ count'[s] = count[s] + (Owed(t, s)' - Owed(t, s))
                   + (Flight(s, "recv")' - Flight(s, "recv"))
                   + (Flight(s, "send")' - Flight(s, "send"))

\* Every step changes ioCount by as much as it changes the references.
LEMMA BalanceStep ==
  ASSUME SafeInv, NEW t \in Threads, Moves(t), NEW s \in Slots
  PROVE  Balanced(t, s)
<1>1. /\ ThreadTypeOK /\ SessionTypeOK /\ SystemTypeOK /\ ThreadOK(t)
      /\ Owed(t, s) \in 0 .. 3
  BY DEF SafeInv, TypeInv, TypeOK, ControlOK, Owed, ThreadTypeOK
<1>2. /\ pc[t] = "RecvPost" => io[slot[t]]["recv"] = "idle"
      /\ pc[t] = "SpSend" => io[slot[t]]["send"] = "idle"
  BY DEF SafeInv, RecvOK, SendOK, RecvTurn, SendTurn
<1>3. ASSUME NEW c, AbortOn(c)
      PROVE  \A ty \in IoTypes : Flight(s, ty)' = Flight(s, ty)
  BY <1>3, AbortStays DEF Flight
<1> USE DEF At, Goto, Leave, Base, callVars, ioVars, lifeVars, ThreadTypeOK,
        SessionTypeOK, ThreadOK, HomeOK, HeldOK, SlotOK, NoneHeld, ReleaseLabels,
        CallLabels, AcceptLabels, Balanced, Owed, Flight
<1>q. ASSUME count'[s] = count[s], held'[t] = held[t],
              slot'[t] = slot[t] \/ held[t] = 0,
              \A ty \in IoTypes : Flight(s, ty)' = Flight(s, ty)
       PROVE  Balanced(t, s)
  BY <1>1, <1>q
<1>r. UNCHANGED <<count, held, slot, io>> => Balanced(t, s)
  BY <1>q
<1>4. CASE CallSendPacket(t)
  <2>1. slot'[t] = slot[t] \/ held[t] = 0
    BY <1>4, CallSlot DEF SafeInv
  <2> QED
    BY <1>q, <2>1, <1>4 DEF CallSendPacket, Call
<1>5. CASE CallDisconnect(t)
  <2>1. slot'[t] = slot[t] \/ held[t] = 0
    BY <1>5, CallSlot DEF SafeInv
  <2> QED
    BY <1>q, <2>1, <1>5 DEF CallDisconnect, Call
<1>6. CASE FreePacket(t)
  BY <1>r, <1>6 DEF FreePacket
<1>7. CASE AcqInc(t)
  BY <1>1, <1>7 DEF AcqInc
<1>8. CASE AcqCheck(t)
  BY <1>r, <1>8 DEF AcqCheck
<1>9. CASE DcClose(t)
  <2>1. UNCHANGED <<count, held, slot>> /\ AbortOn(owner[sock[slot[t]]])
    BY <1>9 DEF DcClose, CloseSocket
  <2>2. \A ty \in IoTypes : Flight(s, ty)' = Flight(s, ty)
    BY <1>3, <2>1
  <2> QED
    BY <1>q, <2>1, <2>2
<1>10. CASE EnqLink(t)
  BY <1>r, <1>10 DEF EnqLink
<1>11. CASE EnqSize(t)
  BY <1>r, <1>11 DEF EnqSize
<1>12. CASE RetDec(t)
  <2>1. /\ count' = [count EXCEPT ![slot[t]] = count[slot[t]] - 1]
        /\ held' = [held EXCEPT ![t] = held[t] - 1]
        /\ pc[t] = "RetDec" /\ io' = io
    BY <1>12 DEF RetDec
  <2>2. held[t] \in 1 .. 3 /\ slot[t] \in Slots /\ held'[t] = held[t] - 1
    BY <1>1, <2>1
  <2>a. count \in [Slots -> Int]
    BY <1>1
  <2>b. count[s] \in Int /\ \A ty \in IoTypes : Flight(s, ty) \in Int
    BY <2>a
  <2>3. slot'[t] = slot[t] \/ held[t] - 1 = 0
    BY <1>1, <1>12 DEF RetDec
  <2>4. \A ty \in IoTypes : Flight(s, ty)' = Flight(s, ty)
    BY <2>1
  <2>5. CASE slot[t] = s
    <3>1. Owed(t, s) = held[t] /\ Owed(t, s)' = held[t] - 1
      BY <2>2, <2>3, <2>5
    <3>2. count'[s] = count[s] - 1
      BY <2>1, <2>a, <2>5
    <3> HIDE DEF Owed, Flight
    <3> QED
      BY <2>b, <2>2, <2>4, <3>1, <3>2
  <2>6. CASE slot[t] # s
    <3>1. Owed(t, s) = 0 /\ Owed(t, s)' = 0
      BY <2>2, <2>3, <2>6
    <3>2. count'[s] = count[s]
      BY <2>1, <2>2, <2>a, <2>6
    <3> HIDE DEF Owed, Flight
    <3> QED
      BY <2>b, <2>4, <3>1, <3>2
  <2> QED
    BY <2>5, <2>6
<1>13. CASE RelCas(t)
  BY <1>1, <1>13 DEF RelCas
<1>14. CASE RelClose(t)
  <2>1. UNCHANGED <<count, held, slot>>
    BY <1>14 DEF RelClose
  <2>2. \A ty \in IoTypes : Flight(s, ty)' = Flight(s, ty)
    BY <1>3, <1>14 DEF RelClose, CloseSocket
  <2> QED
    BY <1>q, <2>1, <2>2
<1>15. CASE RelFree(t)
  <2>1. UNCHANGED <<count, held, slot, io>>
    BY <1>15 DEF RelFree
  <2> QED
    BY <1>q, <2>1
<1>16. CASE RelNotify(t)
  BY <1>r, <1>16 DEF RelNotify
<1>17. CASE RelPush(t)
  BY <1>1, <1>17 DEF RelPush
<1>18. CASE RecvPost(t)
  <2>1. slot[t] \in Slots /\ io[slot[t]]["recv"] = "idle" /\ count' = count
    BY <1>1, <1>2, <1>18 DEF RecvPost
  <2>2. CASE /\ io' = [io EXCEPT ![slot[t]]["recv"] = "posted"]
             /\ held' = [held EXCEPT ![t] = held[t] - 1]
             /\ Leave(t, held[t] - 1)
    <3>1. held'[t] = held[t] - 1 /\ (slot'[t] = slot[t] \/ held'[t] = 0)
      BY <1>1, <1>18, <2>2 DEF RecvPost
    <3>2. s = slot[t] => Flight(s, "recv")' = Flight(s, "recv") + 1
      BY <1>1, <2>1, <2>2 DEF SystemTypeOK
    <3>3. /\ Flight(s, "send")' = Flight(s, "send")
          /\ s # slot[t] => Flight(s, "recv")' = Flight(s, "recv")
      BY <1>1, <2>1, <2>2 DEF SystemTypeOK
    <3> QED
      BY <1>1, <2>1, <3>1, <3>2, <3>3
  <2>3. CASE UNCHANGED <<io, held, slot>>
    BY <1>q, <2>1, <2>3
  <2> QED
    BY <1>18, <2>2, <2>3 DEF RecvPost, Post
<1>19. CASE SpXchg(t)
  <2>1. UNCHANGED <<count, held, io>>
    BY <1>19 DEF SpXchg
  <2>2. slot'[t] = slot[t] \/ held[t] = 0
    BY <1>1, <1>19 DEF SpXchg
  <2> QED
    BY <1>q, <2>1, <2>2
<1>20. CASE SpSize(t)
  BY <1>r, <1>20 DEF SpSize
<1>21. CASE SpClear(t)
  BY <1>r, <1>21 DEF SpClear
<1>22. CASE SpRecheck(t)
  BY <1>1, <1>22 DEF SpRecheck
<1>23. CASE SpDeq(t)
  BY <1>r, <1>23 DEF SpDeq
<1>24. CASE SpUndo(t)
  BY <1>r, <1>24 DEF SpUndo
<1>25. CASE SpInc(t)
  BY <1>1, <1>25 DEF SpInc
<1>26. CASE SpSend(t)
  <2>1. slot[t] \in Slots /\ io[slot[t]]["send"] = "idle" /\ count' = count
    BY <1>1, <1>2, <1>26 DEF SpSend
  <2>2. CASE /\ io' = [io EXCEPT ![slot[t]]["send"] = "posted"]
             /\ held' = [held EXCEPT ![t] = held[t] - 1]
             /\ Leave(t, held[t] - 1)
    <3>1. held'[t] = held[t] - 1 /\ (slot'[t] = slot[t] \/ held'[t] = 0)
      BY <1>1, <1>26, <2>2 DEF SpSend
    <3>2. s = slot[t] => Flight(s, "send")' = Flight(s, "send") + 1
      BY <1>1, <2>1, <2>2 DEF SystemTypeOK
    <3>3. /\ Flight(s, "recv")' = Flight(s, "recv")
          /\ s # slot[t] => Flight(s, "send")' = Flight(s, "send")
      BY <1>1, <2>1, <2>2 DEF SystemTypeOK
    <3> QED
      BY <1>1, <2>1, <3>1, <3>2, <3>3
  <2>3. CASE UNCHANGED <<io, held, slot>>
    BY <1>q, <2>1, <2>3
  <2> QED
    BY <1>26, <2>2, <2>3 DEF SpSend, Post
<1>27. CASE RpEnd(t)
  BY <1>r, <1>27 DEF RpEnd
<1>28. CASE SdFree(t)
  BY <1>r, <1>28 DEF SdFree
<1>29. CASE SdClear(t)
  BY <1>r, <1>29 DEF SdClear
<1>30. CASE Accept(t)
  BY <1>r, <1>30 DEF Accept
<1>31. CASE AcPop(t)
  <2>1. UNCHANGED <<count, held, io>>
    BY <1>31 DEF AcPop
  <2>2. held[t] = 0
    BY <1>1, <1>31, ThreadAssumption DEF AcPop
  <2> QED
    BY <1>q, <2>1, <2>2
<1>32. CASE AcFull(t)
  BY <1>1, <1>32, <1>3 DEF AcFull, CloseSocket
<1>33. CASE AcReject(t)
  <2>1. UNCHANGED <<count, held>> /\ held[t] = 0
    BY <1>1, <1>33, ThreadAssumption DEF AcReject, AcceptOK
  <2>2. \A ty \in IoTypes : Flight(s, ty)' = Flight(s, ty)
    BY <1>3, <1>33 DEF AcReject, CloseSocket
  <2> QED
    BY <1>q, <2>1, <2>2
<1>34. CASE AcInit(t)
  BY <1>1, <1>34 DEF AcInit
<1>35. CASE AcInc(t)
  BY <1>1, <1>35 DEF AcInc
<1>36. CASE AcClear(t)
  BY <1>1, <1>36 DEF AcClear
<1>37c. CASE AcCount(t)
  BY <1>1, <1>37c DEF AcCount
<1>37. CASE AcNotify(t)
  BY <1>1, <1>37 DEF AcNotify
<1>38. CASE AcIncRecv(t)
  BY <1>1, <1>38 DEF AcIncRecv
<1>39. ASSUME NEW r \in Slots, NEW ty \in IoTypes, Complete(t, r, ty)
       PROVE  Balanced(t, s)
  <2>1. /\ count' = count /\ io[r][ty] # "idle" /\ io' = [io EXCEPT ![r][ty] = "idle"]
        /\ slot'[t] = r /\ held'[t] = 1 /\ held[t] = 0
    BY <1>1, <1>39 DEF Complete
  <2>2. \A ti \in IoTypes : (s # r \/ ti # ty) => Flight(s, ti)' = Flight(s, ti)
    BY <1>1, <2>1 DEF SystemTypeOK
  <2>3. s = r => Flight(s, ty) = 1 /\ Flight(s, ty)' = 0
    BY <1>1, <2>1 DEF SystemTypeOK
  <2>4. Owed(t, s) = 0 /\ Owed(t, s)' = (IF s = r THEN 1 ELSE 0)
    BY <2>1
  <2>5. CASE s # r
    BY <1>1, <2>1, <2>2, <2>4, <2>5
  <2>6. CASE s = r /\ ty = "recv"
    BY <1>1, <2>1, <2>2, <2>3, <2>4, <2>6
  <2>7. CASE s = r /\ ty = "send"
    BY <1>1, <2>1, <2>2, <2>3, <2>4, <2>7
  <2> QED
    BY <2>5, <2>6, <2>7
<1> QED
  BY <1>4, <1>5, <1>6, <1>7, <1>8, <1>9, <1>10, <1>11, <1>12, <1>13, <1>14,
    <1>15, <1>16, <1>17, <1>18, <1>19, <1>20, <1>21, <1>22, <1>23, <1>24,
    <1>25, <1>26, <1>27, <1>28, <1>29, <1>30, <1>31, <1>32, <1>33, <1>34,
    <1>35, <1>36, <1>37c, <1>37, <1>38, <1>39
  DEF Moves, Step

\* Every conjunct of the invariant that looks at the OVERLAPPED structures only
\* asks whether they are in use; the system and the peers do not change that.
LEMMA OutsideStep ==
  ASSUME SafeInv, [Next]_vars, ~ \E t \in Threads : Moves(t)
  PROVE  /\ UNCHANGED <<count, flag, sessionID, isSending, indexStack, pc, slot, arg, home, held>>
         /\ \A s \in Slots, ty \in IoTypes : io'[s][ty] = "idle" <=> io[s][ty] = "idle"
<1>1. SystemTypeOK
  BY DEF SafeInv, TypeInv, TypeOK
<1>2. ASSUME NEW s \in Slots, NEW ty \in IoTypes, IoDone(s, ty)
      PROVE  /\ UNCHANGED <<count, flag, sessionID, isSending, indexStack, pc, slot, arg, home, held>>
             /\ \A r \in Slots, ti \in IoTypes : io'[r][ti] = "idle" <=> io[r][ti] = "idle"
  BY <1>1, <1>2 DEF IoDone, lifeVars, sendVars, poolVars, callVars, SystemTypeOK
<1>3. ASSUME NEW c \in Conns, PeerReset(c)
      PROVE  /\ UNCHANGED <<count, flag, sessionID, isSending, indexStack, pc, slot, arg, home, held>>
             /\ \A r \in Slots, ti \in IoTypes : io'[r][ti] = "idle" <=> io[r][ti] = "idle"
  BY <1>3, AbortStays DEF PeerReset, lifeVars, sendVars, poolVars, callVars
<1>4. UNCHANGED vars => UNCHANGED <<count, flag, sessionID, isSending, indexStack, pc, slot, arg, home, held, io>>
  BY DEF vars, lifeVars, sendVars, poolVars, callVars, ioVars
<1> QED
  BY <1>2, <1>3, <1>4, NextCases

\* ioCount stays exact.
LEMMA RefExactStep ==
  ASSUME SafeInv, TypeInv', [Next]_vars
  PROVE  RefExact'
<1>1. /\ ThreadTypeOK /\ ThreadTypeOK' /\ SessionTypeOK /\ TypeInv
      /\ \A s \in Slots : count[s] = Cardinality(ThreadRefs(s)) + Cardinality(IoRefs(s))
  BY DEF SafeInv, TypeInv, TypeOK, RefExact
<1>2. \A s \in Slots : /\ Cardinality(ThreadRefs(s)) \in Nat
                       /\ Cardinality(IoRefs(s)) = Flight(s, "recv") + Flight(s, "send")
                       /\ Cardinality(IoRefs(s)') = Flight(s, "recv")' + Flight(s, "send")'
                       /\ \A ty \in IoTypes : Flight(s, ty) \in Nat /\ Flight(s, ty)' \in Nat
  BY ThreadRefsFinite, IoRefsCount DEF Flight
<1>3. ASSUME NEW t \in Threads, Moves(t), NEW s \in Slots
      PROVE  count'[s] = Cardinality(ThreadRefs(s)') + Cardinality(IoRefs(s)')
  <2>1. Balanced(t, s)
    BY <1>3, BalanceStep
  <2>2. \A u \in Threads \ {t} : slot'[u] = slot[u] /\ held'[u] = held[u]
    BY <1>1, <1>3, OthersStay
  <2>3. Cardinality(ThreadRefs(s)') =
           Cardinality(ThreadRefs(s)) + (Owed(t, s)' - Owed(t, s))
    BY <1>1, <2>1, <2>2, RefsMove DEF Balanced
  <2>4. Owed(t, s) \in 0 .. 3 /\ Owed(t, s)' \in 0 .. 3
    BY <1>1 DEF Owed, ThreadTypeOK
  <2> QED
    BY <1>1, <1>2, <2>1, <2>3, <2>4 DEF Balanced
<1>4. CASE ~ \E t \in Threads : Moves(t)
  <2>1. /\ UNCHANGED <<count, slot, held>>
        /\ \A s \in Slots, ty \in IoTypes : io'[s][ty] = "idle" <=> io[s][ty] = "idle"
    BY <1>4, OutsideStep
  <2>2. \A s \in Slots : ThreadRefs(s)' = ThreadRefs(s) /\ IoRefs(s)' = IoRefs(s)
    BY <2>1 DEF ThreadRefs, IoRefs
  <2> QED
    BY <1>1, <2>1, <2>2 DEF RefExact
<1> QED
  BY <1>3, <1>4 DEF RefExact

\* RELEASE_FLAG is changed in two places.
LEMMA FlagQuiet ==
  ASSUME NEW t \in Threads,
         \/ CallSendPacket(t) \/ CallDisconnect(t) \/ FreePacket(t)
         \/ AcqInc(t) \/ AcqCheck(t) \/ DcClose(t) \/ EnqLink(t) \/ EnqSize(t)
         \/ RetDec(t) \/ RelClose(t) \/ RelFree(t) \/ RelNotify(t)
         \/ RelPush(t) \/ RecvPost(t) \/ SpXchg(t) \/ SpSize(t) \/ SpClear(t)
         \/ SpRecheck(t) \/ SpDeq(t) \/ SpUndo(t) \/ SpInc(t) \/ SpSend(t)
         \/ RpEnd(t) \/ SdFree(t) \/ SdClear(t) \/ Accept(t) \/ AcPop(t)
         \/ AcFull(t) \/ AcReject(t) \/ AcInit(t) \/ AcInc(t) \/ AcCount(t) \/ AcNotify(t)
         \/ AcIncRecv(t)
  PROVE  UNCHANGED flag
  BY DEF CallSendPacket, CallDisconnect, FreePacket, AcqInc, AcqCheck,
    DcClose, EnqLink, EnqSize, RetDec, RelClose, RelFree, RelNotify, RelPush,
    RecvPost, SpXchg, SpSize, SpClear, SpRecheck, SpDeq, SpUndo, SpInc,
    SpSend, RpEnd, SdFree, SdClear, Accept, AcPop, AcFull, AcReject, AcInit,
    AcInc, AcCount, AcNotify, AcIncRecv, lifeVars

\* It is set by the compare-and-swap on an idle live slot, cleared by the
\* accept thread.
LEMMA FlagStep ==
  ASSUME TypeInv, NEW t \in Threads, Moves(t)
  PROVE  \/ flag' = flag
         \/ /\ pc[t] = "RelCas" /\ slot[t] \in Slots /\ count[slot[t]] = 0 /\ ~flag[slot[t]]
            /\ flag' = [flag EXCEPT ![slot[t]] = TRUE]
            /\ pc' = [pc EXCEPT ![t] = "RelClose"] /\ slot' = slot
         \/ /\ pc[t] = "AcClear" /\ slot[t] \in Slots
            /\ flag' = [flag EXCEPT ![slot[t]] = FALSE]
            /\ pc' = [pc EXCEPT ![t] = "AcCount"] /\ slot' = slot
<1>1. SlotOK(t)
  BY DEF TypeInv, ControlOK, ThreadOK
<1>2. CASE RelCas(t)
  BY <1>1, <1>2 DEF RelCas, At, Goto, SlotOK, callVars
<1>3. CASE AcClear(t)
  BY <1>1, <1>3 DEF AcClear, At, Goto, SlotOK, callVars
<1>4. CASE \E r \in Slots, ty \in IoTypes : Complete(t, r, ty)
  BY <1>4 DEF Complete, lifeVars
<1> QED
  BY <1>2, <1>3, <1>4, FlagQuiet DEF Moves, Step

\* A thread that relies on its session holds a reference of it.
LEMMA ReliesHolds ==
  ASSUME TypeInv, NEW t \in Threads, Relies(t)
  PROVE  held[t] \in 1 .. 3 /\ slot[t] \in Slots
<1>1. ThreadTypeOK /\ ThreadOK(t)
  BY DEF TypeInv, TypeOK, ControlOK
<1> QED
  BY <1>1 DEF Relies, LiveLabels, ThreadTypeOK, ThreadOK, HomeOK, HeldOK, SlotOK, Base,
     NoneHeld, ReleaseLabels, CallLabels

\* How a thread comes to rely on a session.
LEMMA ReliesStep ==
  ASSUME TypeInv, NEW t \in Threads, Moves(t), Relies(t)'
  PROVE  \/ Relies(t) /\ slot'[t] = slot[t]
         \/ AcqInc(t) /\ ~flag[slot[t]] /\ slot'[t] = slot[t]
         \/ AcClear(t) /\ slot'[t] = slot[t]
         \/ \E r \in Slots, ty \in IoTypes : Complete(t, r, ty) /\ slot'[t] = r
<1>1. ThreadTypeOK /\ ThreadOK(t)
  BY DEF TypeInv, TypeOK, ControlOK
<1>2. t = Acceptor => home[t] = "Idle"
  BY <1>1, ThreadAssumption DEF ThreadOK, HomeOK, ThreadTypeOK
<1> USE DEF At, Goto, Leave, Base, callVars, ThreadTypeOK, ThreadOK, HomeOK, SlotOK,
        AcceptOK, AcceptLabels, CallLabels, ReleaseLabels, Relies, LiveLabels
<1>3. CASE CallSendPacket(t)
  <2>1. slot'[t] = slot[t] \/ held[t] = 0
    BY <1>3, CallSlot
  <2>2. Relies(t) => held[t] # 0
    BY ReliesHolds
  <2> QED
    BY <1>1, <1>3, <2>1, <2>2 DEF CallSendPacket, MayCall, Call
<1>4. CASE CallDisconnect(t)
  <2>1. slot'[t] = slot[t] \/ held[t] = 0
    BY <1>4, CallSlot
  <2>2. Relies(t) => held[t] # 0
    BY ReliesHolds
  <2> QED
    BY <1>1, <1>4, <2>1, <2>2 DEF CallDisconnect, MayCall, Call
<1>5. CASE FreePacket(t)
  BY <1>1, <1>5 DEF FreePacket
<1>6. CASE AcqInc(t)
  BY <1>1, <1>6 DEF AcqInc
<1>7. CASE AcqCheck(t)
  BY <1>1, <1>7 DEF AcqCheck
<1>8. CASE DcClose(t)
  BY <1>1, <1>8 DEF DcClose
<1>9. CASE EnqLink(t)
  BY <1>1, <1>9 DEF EnqLink
<1>10. CASE EnqSize(t)
  BY <1>1, <1>10 DEF EnqSize
<1>11. CASE RetDec(t)
  BY <1>1, <1>11 DEF RetDec
<1>12. CASE RelCas(t)
  BY <1>1, <1>12 DEF RelCas
<1>13. CASE RelClose(t)
  BY <1>1, <1>13 DEF RelClose
<1>14. CASE RelFree(t)
  BY <1>1, <1>14 DEF RelFree
<1>15. CASE RelNotify(t)
  BY <1>1, <1>15 DEF RelNotify
<1>16. CASE RelPush(t)
  BY <1>1, <1>16 DEF RelPush
<1>17. CASE RecvPost(t)
  BY <1>1, <1>17 DEF RecvPost, Post
<1>18. CASE SpXchg(t)
  BY <1>1, <1>18 DEF SpXchg
<1>19. CASE SpSize(t)
  BY <1>1, <1>19 DEF SpSize
<1>20. CASE SpClear(t)
  BY <1>1, <1>20 DEF SpClear
<1>21. CASE SpRecheck(t)
  BY <1>1, <1>21 DEF SpRecheck
<1>22. CASE SpDeq(t)
  BY <1>1, <1>22 DEF SpDeq
<1>23. CASE SpUndo(t)
  BY <1>1, <1>23 DEF SpUndo
<1>24. CASE SpInc(t)
  BY <1>1, <1>24 DEF SpInc
<1>25. CASE SpSend(t)
  BY <1>1, <1>25 DEF SpSend, Post
<1>26. CASE RpEnd(t)
  BY <1>1, <1>26 DEF RpEnd
<1>27. CASE SdFree(t)
  BY <1>1, <1>27 DEF SdFree
<1>28. CASE SdClear(t)
  BY <1>1, <1>28 DEF SdClear
<1>29. CASE Accept(t)
  BY <1>1, <1>29, <1>2 DEF Accept
<1>30. CASE AcPop(t)
  BY <1>1, <1>30, <1>2 DEF AcPop
<1>31. CASE AcFull(t)
  BY <1>1, <1>31, <1>2 DEF AcFull
<1>32. CASE AcReject(t)
  BY <1>1, <1>32, <1>2 DEF AcReject
<1>33. CASE AcInit(t)
  BY <1>1, <1>33, <1>2 DEF AcInit
<1>34. CASE AcInc(t)
  BY <1>1, <1>34, <1>2 DEF AcInc
<1>35. CASE AcClear(t)
  BY <1>1, <1>35 DEF AcClear
<1>36c. CASE AcCount(t)
  BY <1>1, <1>36c, <1>2 DEF AcCount
<1>36. CASE AcNotify(t)
  BY <1>1, <1>36, <1>2 DEF AcNotify
<1>37. CASE AcIncRecv(t)
  BY <1>1, <1>37, <1>2 DEF AcIncRecv
<1>38. CASE \E r \in Slots, ty \in IoTypes : Complete(t, r, ty)
  <2>1. PICK r \in Slots, ty \in IoTypes : Complete(t, r, ty)
    BY <1>38
  <2>2. slot'[t] = r
    BY <1>1, <2>1 DEF Complete
  <2> QED
    BY <2>1, <2>2
<1> QED
  BY <1>3, <1>4, <1>5, <1>6, <1>7, <1>8, <1>9, <1>10, <1>11, <1>12, <1>13,
    <1>14, <1>15, <1>16, <1>17, <1>18, <1>19, <1>20, <1>21, <1>22, <1>23,
    <1>24, <1>25, <1>26, <1>27, <1>28, <1>29, <1>30, <1>31, <1>32, <1>33,
    <1>34, <1>35, <1>36c, <1>36, <1>37, <1>38
  DEF Moves, Step

\* Whoever relies on a session finds it live.
LEMMA LiveStep ==
  ASSUME SafeInv, TypeInv', [Next]_vars
  PROVE  LiveOK'
<1>1. /\ TypeInv /\ RefExact /\ LiveOK /\ OwnerOK
      /\ ThreadTypeOK /\ SessionTypeOK /\ SystemTypeOK
  BY DEF SafeInv, TypeInv, TypeOK
<1>2. ASSUME NEW t \in Threads, Moves(t), NEW u \in Threads, Relies(u)'
      PROVE  ~flag'[slot'[u]]
  <2>1. CASE Relies(u) /\ slot'[u] = slot[u]
    <3>1. held[u] \in 1 .. 3 /\ slot[u] \in Slots /\ ~flag[slot[u]]
      BY <1>1, <2>1, ReliesHolds DEF LiveOK
    <3>2. count[slot[u]] # 0
      BY <1>1, <3>1, HeldCounts
    <3> QED
      BY <1>1, <1>2, <2>1, <3>1, <3>2, FlagStep DEF SessionTypeOK
  <2>2. CASE u # t
    <3>1. pc'[u] = pc[u] /\ slot'[u] = slot[u] /\ home'[u] = home[u]
      BY <1>1, <1>2, <2>2, OthersStay
    <3> QED
      BY <1>2, <2>1, <3>1 DEF Relies
  <2>3. CASE u = t /\ AcqInc(t) /\ ~flag[slot[t]] /\ slot'[t] = slot[t]
    BY <2>3 DEF AcqInc
  <2>4. CASE u = t /\ AcClear(t) /\ slot'[t] = slot[t]
    BY <1>1, <2>4 DEF AcClear, SessionTypeOK, At, TypeInv, ControlOK, ThreadOK, SlotOK
  <2>5. CASE u = t /\ \E r \in Slots, ty \in IoTypes : Complete(t, r, ty) /\ slot'[t] = r
    <3>1. PICK r \in Slots, ty \in IoTypes : Complete(t, r, ty) /\ slot'[t] = r
      BY <2>5
    <3>2. ~flag[r] /\ flag' = flag
      BY <1>1, <3>1 DEF Complete, LiveOK, lifeVars
    <3> QED
      BY <2>5, <3>1, <3>2
  <2> QED
    BY <1>1, <1>2, <2>1, <2>2, <2>3, <2>4, <2>5, ReliesStep
<1>3. ASSUME NEW t \in Threads, Moves(t), NEW s \in Slots, NEW ty \in IoTypes,
             io'[s][ty] # "idle"
      PROVE  ~flag'[s]
  <2>1. CASE io[s][ty] # "idle"
    <3>1. ~flag[s] /\ count[s] # 0
      BY <1>1, <2>1, HeldCounts DEF LiveOK
    <3> QED
      BY <1>1, <1>3, <3>1, FlagStep DEF SessionTypeOK
  <2>2. CASE s = slot[t] /\ (RecvPost(t) \/ SpSend(t))
    <3>1. Relies(t) /\ flag' = flag
      BY <2>2 DEF RecvPost, SpSend, At, Relies, LiveLabels, lifeVars
    <3> QED
      BY <1>1, <2>2, <3>1 DEF LiveOK
  <2> QED
    BY <1>1, <1>3, <2>1, <2>2, IoStep
<1>4. CASE ~ \E t \in Threads : Moves(t)
  <2>1. /\ UNCHANGED <<flag, pc, slot, home>>
        /\ \A s \in Slots, ty \in IoTypes : io'[s][ty] = "idle" <=> io[s][ty] = "idle"
    BY <1>4, OutsideStep
  <2> QED
    BY <1>1, <2>1 DEF LiveOK, Relies
<1> QED
  BY <1>2, <1>3, <1>4 DEF LiveOK

IdLabels == {"EnqLink", "EnqSize", "DcClose"}

\* AcquireSession lets nobody pass who asked for another session.
LEMMA IdLabelStep ==
  ASSUME TypeInv, NEW t \in Threads, Moves(t), pc'[t] \in IdLabels
  PROVE  /\ pc[t] \in {"AcqCheck", "EnqLink"} /\ slot'[t] = slot[t] /\ arg'[t] = arg[t]
         /\ sessionID' = sessionID
         /\ pc[t] = "AcqCheck" => sessionID[slot[t]] = arg[t]
<1>1. ThreadTypeOK /\ ThreadOK(t)
  BY DEF TypeInv, TypeOK, ControlOK
<1> USE DEF At, Goto, Leave, callVars, lifeVars, ThreadTypeOK, ThreadOK, IdLabels
<1>2. CASE CallSendPacket(t)
  BY <1>1, <1>2 DEF CallSendPacket, MayCall, Call
<1>3. CASE CallDisconnect(t)
  BY <1>1, <1>3 DEF CallDisconnect, MayCall, Call
<1>4. CASE FreePacket(t)
  BY <1>1, <1>4 DEF FreePacket
<1>5. CASE AcqInc(t)
  BY <1>1, <1>5 DEF AcqInc
<1>6. CASE AcqCheck(t)
  BY <1>1, <1>6 DEF AcqCheck
<1>7. CASE DcClose(t)
  BY <1>1, <1>7 DEF DcClose
<1>8. CASE EnqLink(t)
  BY <1>1, <1>8 DEF EnqLink
<1>9. CASE EnqSize(t)
  BY <1>1, <1>9 DEF EnqSize
<1>10. CASE RetDec(t)
  BY <1>1, <1>10 DEF RetDec
<1>11. CASE RelCas(t)
  BY <1>1, <1>11 DEF RelCas
<1>12. CASE RelClose(t)
  BY <1>1, <1>12 DEF RelClose
<1>13. CASE RelFree(t)
  BY <1>1, <1>13 DEF RelFree
<1>14. CASE RelNotify(t)
  BY <1>1, <1>14 DEF RelNotify
<1>15. CASE RelPush(t)
  BY <1>1, <1>15 DEF RelPush
<1>16. CASE RecvPost(t)
  BY <1>1, <1>16 DEF RecvPost, Post
<1>17. CASE SpXchg(t)
  BY <1>1, <1>17 DEF SpXchg
<1>18. CASE SpSize(t)
  BY <1>1, <1>18 DEF SpSize
<1>19. CASE SpClear(t)
  BY <1>1, <1>19 DEF SpClear
<1>20. CASE SpRecheck(t)
  BY <1>1, <1>20 DEF SpRecheck
<1>21. CASE SpDeq(t)
  BY <1>1, <1>21 DEF SpDeq
<1>22. CASE SpUndo(t)
  BY <1>1, <1>22 DEF SpUndo
<1>23. CASE SpInc(t)
  BY <1>1, <1>23 DEF SpInc
<1>24. CASE SpSend(t)
  BY <1>1, <1>24 DEF SpSend, Post
<1>25. CASE RpEnd(t)
  BY <1>1, <1>25 DEF RpEnd
<1>26. CASE SdFree(t)
  BY <1>1, <1>26 DEF SdFree
<1>27. CASE SdClear(t)
  BY <1>1, <1>27 DEF SdClear
<1>28. CASE Accept(t)
  BY <1>1, <1>28 DEF Accept
<1>29. CASE AcPop(t)
  BY <1>1, <1>29 DEF AcPop
<1>30. CASE AcFull(t)
  BY <1>1, <1>30 DEF AcFull
<1>31. CASE AcReject(t)
  BY <1>1, <1>31 DEF AcReject
<1>32. CASE AcInit(t)
  BY <1>1, <1>32 DEF AcInit
<1>33. CASE AcInc(t)
  BY <1>1, <1>33 DEF AcInc
<1>34. CASE AcClear(t)
  BY <1>1, <1>34 DEF AcClear
<1>35c. CASE AcCount(t)
  BY <1>1, <1>35c DEF AcCount
<1>35. CASE AcNotify(t)
  BY <1>1, <1>35 DEF AcNotify
<1>36. CASE AcIncRecv(t)
  BY <1>1, <1>36 DEF AcIncRecv
<1>37. CASE \E r \in Slots, ty \in IoTypes : Complete(t, r, ty)
  BY <1>1, <1>37 DEF Complete
<1> QED
  BY <1>2, <1>3, <1>4, <1>5, <1>6, <1>7, <1>8, <1>9, <1>10, <1>11, <1>12,
    <1>13, <1>14, <1>15, <1>16, <1>17, <1>18, <1>19, <1>20, <1>21, <1>22,
    <1>23, <1>24, <1>25, <1>26, <1>27, <1>28, <1>29, <1>30, <1>31, <1>32,
    <1>33, <1>34, <1>35c, <1>35, <1>36, <1>37
  DEF Moves, Step

\* The session found is the one that was asked for, as long as it is used.
LEMMA IdStep ==
  ASSUME SafeInv, [Next]_vars
  PROVE  IdOK'
<1>1. TypeInv /\ LiveOK /\ IdOK /\ OwnerOK /\ ThreadTypeOK /\ SessionTypeOK
  BY DEF SafeInv, TypeInv, TypeOK
<1>2. ASSUME NEW t \in Threads, Moves(t), NEW u \in Threads, pc'[u] \in IdLabels
      PROVE  sessionID'[slot'[u]] = arg'[u]
  <2>1. CASE u = t
    BY <1>1, <1>2, <2>1, IdLabelStep DEF IdOK, IdLabels
  <2>2. CASE u # t
    <3>1. pc'[u] = pc[u] /\ slot'[u] = slot[u] /\ arg'[u] = arg[u]
      BY <1>1, <1>2, <2>2, OthersStay
    <3>2. ~flag[slot[u]] /\ sessionID[slot[u]] = arg[u]
      BY <1>1, <1>2, <3>1 DEF IdLabels, LiveOK, IdOK, Relies, LiveLabels
    <3>3. AcInit(t) => flag[slot[t]] /\ sessionID' = [sessionID EXCEPT ![slot[t]] = <<gen + 1, slot[t]>>]
      BY <1>1 DEF AcInit, At, OwnerOK, OwnerFlagged, Owns, OwnLabels
    <3>4. AcInit(t) \/ sessionID' = sessionID
      <4>1. CASE \E r \in Slots, ty \in IoTypes : Complete(t, r, ty)
        BY <4>1 DEF Complete, lifeVars
      <4> QED
        BY <1>2, <4>1, IdQuiet DEF Moves, Step
    <3>5. slot[u] \in Slots
      BY <1>1, <1>2, <3>1 DEF IdLabels, TypeInv, ControlOK, ThreadOK, SlotOK
    <3> QED
      BY <1>1, <3>1, <3>2, <3>3, <3>4, <3>5 DEF SessionTypeOK
  <2> QED
    BY <2>1, <2>2
<1>3. CASE ~ \E t \in Threads : Moves(t)
  <2>1. UNCHANGED <<pc, slot, arg, sessionID>>
    BY <1>3, OutsideStep
  <2> QED
    BY <1>1, <2>1 DEF IdOK
<1> QED
  BY <1>2, <1>3 DEF IdOK, IdLabels

\* How a slot is taken out of circulation and put back.
LEMMA OwnsStep ==
  ASSUME TypeInv, NEW t \in Threads, Moves(t)
  PROVE  \/ /\ Owns(t)' = Owns(t) /\ (Owns(t) => slot'[t] = slot[t])
            /\ indexStack' = indexStack /\ flag' = flag
         \/ /\ ~Owns(t) /\ Owns(t)' /\ slot' = slot /\ indexStack' = indexStack
            /\ ~flag[slot[t]] /\ flag' = [flag EXCEPT ![slot[t]] = TRUE]
         \/ /\ Owns(t) /\ ~Owns(t)' /\ indexStack' = indexStack
            /\ flag' = [flag EXCEPT ![slot[t]] = FALSE]
         \/ /\ Owns(t) /\ ~Owns(t)' /\ flag' = flag
            /\ indexStack' = <<slot[t]>> \o indexStack
         \/ /\ ~Owns(t) /\ Owns(t)' /\ flag' = flag
            /\ indexStack # <<>> /\ slot'[t] = Head(indexStack)
            /\ indexStack' = Tail(indexStack)
<1>1. ThreadTypeOK /\ ThreadOK(t)
  BY DEF TypeInv, TypeOK, ControlOK
<1> USE DEF At, Goto, Leave, Base, callVars, lifeVars, poolVars, ThreadTypeOK, ThreadOK,
        HomeOK, Owns, OwnLabels, CallLabels, ReleaseLabels
<1>2. CASE CallSendPacket(t)
  BY <1>1, <1>2 DEF CallSendPacket, MayCall, Call
<1>3. CASE CallDisconnect(t)
  BY <1>1, <1>3 DEF CallDisconnect, MayCall, Call
<1>4. CASE FreePacket(t)
  BY <1>1, <1>4 DEF FreePacket
<1>5. CASE AcqInc(t)
  BY <1>1, <1>5 DEF AcqInc
<1>6. CASE AcqCheck(t)
  BY <1>1, <1>6 DEF AcqCheck
<1>7. CASE DcClose(t)
  BY <1>1, <1>7 DEF DcClose
<1>8. CASE EnqLink(t)
  BY <1>1, <1>8 DEF EnqLink
<1>9. CASE EnqSize(t)
  BY <1>1, <1>9 DEF EnqSize
<1>10. CASE RetDec(t)
  BY <1>1, <1>10 DEF RetDec
<1>11. CASE RelCas(t)
  BY <1>1, <1>11 DEF RelCas
<1>12. CASE RelClose(t)
  BY <1>1, <1>12 DEF RelClose
<1>13. CASE RelFree(t)
  BY <1>1, <1>13 DEF RelFree
<1>14. CASE RelNotify(t)
  BY <1>1, <1>14 DEF RelNotify
<1>15. CASE RelPush(t)
  BY <1>1, <1>15 DEF RelPush
<1>16. CASE RecvPost(t)
  BY <1>1, <1>16 DEF RecvPost, Post
<1>17. CASE SpXchg(t)
  BY <1>1, <1>17 DEF SpXchg
<1>18. CASE SpSize(t)
  BY <1>1, <1>18 DEF SpSize
<1>19. CASE SpClear(t)
  BY <1>1, <1>19 DEF SpClear
<1>20. CASE SpRecheck(t)
  BY <1>1, <1>20 DEF SpRecheck
<1>21. CASE SpDeq(t)
  BY <1>1, <1>21 DEF SpDeq
<1>22. CASE SpUndo(t)
  BY <1>1, <1>22 DEF SpUndo
<1>23. CASE SpInc(t)
  BY <1>1, <1>23 DEF SpInc
<1>24. CASE SpSend(t)
  BY <1>1, <1>24 DEF SpSend, Post
<1>25. CASE RpEnd(t)
  BY <1>1, <1>25 DEF RpEnd
<1>26. CASE SdFree(t)
  BY <1>1, <1>26 DEF SdFree
<1>27. CASE SdClear(t)
  BY <1>1, <1>27 DEF SdClear
<1>28. CASE Accept(t)
  BY <1>1, <1>28 DEF Accept
<1>29. CASE AcPop(t)
  BY <1>1, <1>29 DEF AcPop
<1>30. CASE AcFull(t)
  BY <1>1, <1>30 DEF AcFull
<1>31. CASE AcReject(t)
  BY <1>1, <1>31 DEF AcReject
<1>32. CASE AcInit(t)
  BY <1>1, <1>32 DEF AcInit
<1>33. CASE AcInc(t)
  BY <1>1, <1>33 DEF AcInc
<1>34. CASE AcClear(t)
  BY <1>1, <1>34 DEF AcClear
<1>35c. CASE AcCount(t)
  BY <1>1, <1>35c DEF AcCount
<1>35. CASE AcNotify(t)
  BY <1>1, <1>35 DEF AcNotify
<1>36. CASE AcIncRecv(t)
  BY <1>1, <1>36 DEF AcIncRecv
<1>37. CASE \E r \in Slots, ty \in IoTypes : Complete(t, r, ty)
  BY <1>1, <1>37 DEF Complete
<1> QED
  BY <1>2, <1>3, <1>4, <1>5, <1>6, <1>7, <1>8, <1>9, <1>10, <1>11, <1>12,
    <1>13, <1>14, <1>15, <1>16, <1>17, <1>18, <1>19, <1>20, <1>21, <1>22,
    <1>23, <1>24, <1>25, <1>26, <1>27, <1>28, <1>29, <1>30, <1>31, <1>32,
    <1>33, <1>34, <1>35c, <1>35, <1>36, <1>37
  DEF Moves, Step

\* The index stack as a set of slots.
LEMMA PushSlot ==
  ASSUME NEW q \in Seq(Slots), NEW e \in Slots
  PROVE  /\ Len(<<e>> \o q) = Len(q) + 1
         /\ (<<e>> \o q)[1] = e
         /\ \A i \in 1 .. Len(q) : (<<e>> \o q)[i + 1] = q[i]
         /\ \A i \in 2 .. Len(q) + 1 : (<<e>> \o q)[i] = q[i - 1]
  OBVIOUS

\* What Pop leaves: the other slots, each one place nearer to the top.
LEMMA PopSlot ==
  ASSUME NEW q \in Seq(Slots), q # <<>>
  PROVE  /\ Len(Tail(q)) = Len(q) - 1 /\ Len(q) \in Nat \ {0} /\ Head(q) = q[1]
         /\ \A i \in 1 .. Len(Tail(q)) : Tail(q)[i] = q[i + 1]
         /\ \A i \in 2 .. Len(q) : Tail(q)[i - 1] = q[i]
  OBVIOUS

\* A slot has one owner, always.
LEMMA OwnerStep ==
  ASSUME SafeInv, TypeInv', [Next]_vars
  PROVE  OwnerOK'
<1>1. /\ TypeInv /\ OwnerOK /\ ThreadTypeOK /\ SessionTypeOK /\ indexStack \in Seq(Slots)
      /\ \A t \in Threads : SlotOK(t)
  BY DEF SafeInv, TypeInv, TypeOK, ServerTypeOK, ControlOK, ThreadOK
<1>2. \A t \in Threads : Owns(t) => slot[t] \in Slots
  BY <1>1 DEF SlotOK, Owns, OwnLabels
<1>3. Len(indexStack) \in Nat
  BY <1>1
<1>4. ASSUME NEW t \in Threads, Moves(t)
      PROVE  OwnerOK'
  <2>1. \A u \in Threads \ {t} : Owns(u)' = Owns(u) /\ slot'[u] = slot[u]
    BY <1>1, <1>4, OthersStay DEF Owns
  <2>2. CASE /\ Owns(t)' = Owns(t) /\ (Owns(t) => slot'[t] = slot[t])
             /\ indexStack' = indexStack /\ flag' = flag
    <3>1. \A s \in Slots : InStack(s)' = InStack(s)
      BY <2>2 DEF InStack
    <3>2. StackFlagged'
      BY <1>1, <1>2, <2>1, <2>2, <3>1 DEF OwnerOK, StackFlagged
    <3>3. OwnerFlagged'
      BY <1>1, <1>2, <2>1, <2>2, <3>1 DEF OwnerOK, OwnerFlagged
    <3>4. OwnerUnique'
      BY <1>1, <1>2, <2>1, <2>2, <3>1 DEF OwnerOK, OwnerUnique
    <3>5. StackDistinct'
      BY <1>1, <1>2, <2>1, <2>2, <3>1 DEF OwnerOK, StackDistinct
    <3>6. FlagCovered'
      BY <1>1, <1>2, <2>1, <2>2, <3>1 DEF OwnerOK, FlagCovered
    <3> QED
      BY <3>2, <3>3, <3>4, <3>5, <3>6 DEF OwnerOK
  <2>3. CASE /\ ~Owns(t) /\ Owns(t)' /\ slot' = slot /\ indexStack' = indexStack
             /\ ~flag[slot[t]] /\ flag' = [flag EXCEPT ![slot[t]] = TRUE]
    <3>1. \A s : InStack(s)' <=> InStack(s)
      BY <2>3 DEF InStack
    <3>2. slot[t] \in Slots
      BY <2>3 DEF TypeInv, ControlOK, ThreadOK, SlotOK, Owns, OwnLabels
    <3>3. ~InStack(slot[t]) /\ \A u \in Threads : ~(Owns(u) /\ slot[u] = slot[t])
      BY <1>1, <2>3, <3>2 DEF OwnerOK, StackFlagged, OwnerFlagged
    <3>4. flag' \in [Slots -> BOOLEAN] /\ flag'[slot[t]] /\ \A s \in Slots \ {slot[t]} : flag'[s] = flag[s]
      BY <1>1, <2>3, <3>2 DEF SessionTypeOK
    <3>5. StackFlagged'
      BY <1>1, <1>2, <2>1, <2>3, <3>1, <3>2, <3>3, <3>4 DEF OwnerOK, StackFlagged
    <3>6. OwnerFlagged'
      BY <1>1, <1>2, <2>1, <2>3, <3>1, <3>2, <3>3, <3>4 DEF OwnerOK, OwnerFlagged
    <3>7. OwnerUnique'
      BY <1>1, <1>2, <2>1, <2>3, <3>1, <3>2, <3>3, <3>4 DEF OwnerOK, OwnerUnique
    <3>8. StackDistinct'
      BY <1>1, <1>2, <2>1, <2>3, <3>1, <3>2, <3>3, <3>4 DEF OwnerOK, StackDistinct
    <3>9. FlagCovered'
      BY <1>1, <1>2, <2>1, <2>3, <3>1, <3>2, <3>3, <3>4 DEF OwnerOK, FlagCovered
    <3> QED
      BY <3>5, <3>6, <3>7, <3>8, <3>9 DEF OwnerOK
  <2>4. CASE /\ Owns(t) /\ ~Owns(t)' /\ indexStack' = indexStack
             /\ flag' = [flag EXCEPT ![slot[t]] = FALSE]
    <3>1. \A s : InStack(s)' <=> InStack(s)
      BY <2>4 DEF InStack
    <3>2. slot[t] \in Slots /\ ~InStack(slot[t])
      BY <1>1, <1>2, <2>4 DEF OwnerOK, OwnerFlagged
    <3>3. \A u \in Threads \ {t} : ~(Owns(u) /\ slot[u] = slot[t])
      BY <1>1, <2>4 DEF OwnerOK, OwnerUnique
    <3>4. flag' \in [Slots -> BOOLEAN] /\ ~flag'[slot[t]] /\ \A s \in Slots \ {slot[t]} : flag'[s] = flag[s]
      BY <1>1, <2>4, <3>2 DEF SessionTypeOK
    <3>5. StackFlagged'
      BY <1>1, <1>2, <2>1, <2>4, <3>1, <3>2, <3>3, <3>4 DEF OwnerOK, StackFlagged
    <3>6. OwnerFlagged'
      BY <1>1, <1>2, <2>1, <2>4, <3>1, <3>2, <3>3, <3>4 DEF OwnerOK, OwnerFlagged
    <3>7. OwnerUnique'
      BY <1>1, <1>2, <2>1, <2>4, <3>1, <3>2, <3>3, <3>4 DEF OwnerOK, OwnerUnique
    <3>8. StackDistinct'
      BY <1>1, <1>2, <2>1, <2>4, <3>1, <3>2, <3>3, <3>4 DEF OwnerOK, StackDistinct
    <3>9. FlagCovered'
      BY <1>1, <1>2, <2>1, <2>4, <3>1, <3>2, <3>3, <3>4 DEF OwnerOK, FlagCovered
    <3> QED
      BY <3>5, <3>6, <3>7, <3>8, <3>9 DEF OwnerOK
  <2>5. CASE /\ Owns(t) /\ ~Owns(t)' /\ flag' = flag
             /\ indexStack' = <<slot[t]>> \o indexStack
    <3> DEFINE q == indexStack
    <3>2. slot[t] \in Slots /\ flag[slot[t]] /\ \A i \in 1 .. Len(q) : q[i] # slot[t]
      BY <1>1, <1>2, <2>5 DEF OwnerOK, OwnerFlagged, InStack
    <3>3. \A u \in Threads \ {t} : ~(Owns(u) /\ slot[u] = slot[t])
      BY <1>1, <2>5 DEF OwnerOK, OwnerUnique
    <3>4. /\ Len(q') = Len(q) + 1 /\ q'[1] = slot[t]
          /\ \A i \in 1 .. Len(q) : q'[i + 1] = q[i]
          /\ \A i \in 2 .. Len(q) + 1 : q'[i] = q[i - 1]
      BY <1>1, <2>5, <3>2, PushSlot
    <3>1. ASSUME NEW s \in Slots
          PROVE  InStack(s)' <=> (s = slot[t] \/ InStack(s))
      <4>1. s = slot[t] => InStack(s)'
        BY <1>3, <3>4 DEF InStack
      <4>2. InStack(s) => InStack(s)'
        <5>1. \A i \in 1 .. Len(q) : i + 1 \in 1 .. Len(q')
          BY <1>3, <3>4
        <5> QED
          BY <3>4, <5>1 DEF InStack
      <4>3. InStack(s)' => s = slot[t] \/ InStack(s)
        <5>1. \A i \in 1 .. Len(q') : i = 1 \/ (i \in 2 .. Len(q) + 1 /\ i - 1 \in 1 .. Len(q))
          BY <1>3, <3>4
        <5> QED
          BY <3>4, <5>1 DEF InStack
      <4> QED
        BY <4>1, <4>2, <4>3
    <3>5. StackDistinct'
      <4>1. ASSUME NEW i \in 1 .. Len(q'), NEW j \in 1 .. Len(q'), q'[i] = q'[j]
            PROVE  i = j
        <5>1. i = 1 \/ (i \in 2 .. Len(q) + 1 /\ i - 1 \in 1 .. Len(q))
          BY <1>3, <3>4
        <5>2. j = 1 \/ (j \in 2 .. Len(q) + 1 /\ j - 1 \in 1 .. Len(q))
          BY <1>3, <3>4
        <5>3. \A k, l \in 1 .. Len(q) : q[k] = q[l] => k = l
          BY <1>1 DEF OwnerOK, StackDistinct
        <5> QED
          BY <3>2, <3>4, <4>1, <5>1, <5>2, <5>3
      <4> QED
        BY <4>1 DEF StackDistinct
    <3>6. StackFlagged'
      BY <1>1, <2>5, <3>1, <3>2 DEF OwnerOK, StackFlagged
    <3>7. OwnerFlagged'
      BY <1>1, <1>2, <2>1, <2>5, <3>1, <3>3 DEF OwnerOK, OwnerFlagged
    <3>8. OwnerUnique'
      BY <1>1, <2>1, <2>5 DEF OwnerOK, OwnerUnique
    <3>9. FlagCovered'
      BY <1>1, <2>1, <2>5, <3>1 DEF OwnerOK, FlagCovered
    <3> QED
      BY <3>5, <3>6, <3>7, <3>8, <3>9 DEF OwnerOK
  <2>6. CASE /\ ~Owns(t) /\ Owns(t)' /\ flag' = flag
             /\ indexStack # <<>> /\ slot'[t] = Head(indexStack)
             /\ indexStack' = Tail(indexStack)
    <3> DEFINE q == indexStack
    <3>1. \A s \in Slots : InStack(s) <=> (s = slot'[t] \/ InStack(s)')
      BY <1>1, <1>3, <2>6, PopSlot DEF InStack
    <3>2. /\ Len(q') = Len(q) - 1 /\ Len(q) \in Nat \ {0} /\ slot'[t] = q[1] /\ q[1] \in Slots
          /\ \A i \in 1 .. Len(q') : q'[i] = q[i + 1] /\ i + 1 \in 2 .. Len(q)
      <4>1. q \in Seq(Slots) /\ q # <<>> /\ q' = Tail(q) /\ slot'[t] = Head(q)
        BY <1>1, <2>6
      <4>2. /\ Len(Tail(q)) = Len(q) - 1 /\ Len(q) \in Nat \ {0} /\ Head(q) = q[1]
            /\ \A i \in 1 .. Len(Tail(q)) : Tail(q)[i] = q[i + 1]
        BY <4>1, PopSlot
      <4>3. q[1] \in Slots
        BY <4>1, <4>2, HeadIn
      <4>4. \A i \in 1 .. Len(q) - 1 : i + 1 \in 2 .. Len(q)
        BY <4>2
      <4> HIDE DEF q
      <4> QED
        BY <4>1, <4>2, <4>3, <4>4
    <3>3. \A k, l \in 1 .. Len(q) : q[k] = q[l] => k = l
      BY <1>1 DEF OwnerOK, StackDistinct
    <3>4. \A s : s = slot'[t] => ~InStack(s)'
      BY <3>2, <3>3 DEF InStack
    <3>5. StackDistinct'
      BY <3>2, <3>3 DEF StackDistinct
    <3>6. StackFlagged'
      BY <1>1, <2>6, <3>1 DEF OwnerOK, StackFlagged
    <3>7. flag[slot'[t]] /\ \A u \in Threads \ {t} : Owns(u) => slot[u] # slot'[t]
      BY <1>1, <1>2, <2>6, <3>1, <3>2 DEF OwnerOK, StackFlagged, OwnerFlagged
    <3>8. OwnerFlagged'
      BY <1>1, <1>2, <2>1, <2>6, <3>1, <3>4, <3>7 DEF OwnerOK, OwnerFlagged
    <3>9. OwnerUnique'
      BY <1>1, <2>1, <2>6, <3>7 DEF OwnerOK, OwnerUnique
    <3>10. FlagCovered'
      BY <1>1, <2>1, <2>6, <3>1 DEF OwnerOK, FlagCovered
    <3> QED
      BY <3>5, <3>6, <3>8, <3>9, <3>10 DEF OwnerOK
  <2> QED
    BY <1>1, <1>4, <2>2, <2>3, <2>4, <2>5, <2>6, OwnsStep
<1>5. CASE ~ \E t \in Threads : Moves(t)
  <2>1. UNCHANGED <<pc, slot, flag, indexStack>>
    BY <1>5, OutsideStep
  <2> QED
    BY <1>1, <2>1 DEF OwnerOK, StackFlagged, OwnerFlagged, OwnerUnique, StackDistinct,
       FlagCovered, InStack, Owns
<1> QED
  BY <1>4, <1>5

\* How a thread comes to its turn to receive.
LEMMA RecvTurnStep ==
  ASSUME TypeInv, NEW t \in Threads, Moves(t), RecvTurn(t)'
  PROVE  \/ RecvTurn(t) /\ slot'[t] = slot[t]
         \/ AcClear(t) /\ slot'[t] = slot[t]
         \/ \E r \in Slots : Complete(t, r, "recv") /\ slot'[t] = r
<1>1. ThreadTypeOK /\ ThreadOK(t)
  BY DEF TypeInv, TypeOK, ControlOK
<1>2. t = Acceptor => home[t] = "Idle"
  BY <1>1, ThreadAssumption DEF ThreadOK, HomeOK, ThreadTypeOK
<1> USE DEF At, Goto, Leave, Base, callVars, ThreadTypeOK, ThreadOK, HomeOK, SlotOK,
        AcceptOK, AcceptLabels, CallLabels, ReleaseLabels, RecvTurn
<1>3. CASE CallSendPacket(t)
  <2>1. slot'[t] = slot[t] \/ held[t] = 0
    BY <1>3, CallSlot
  <2>2. RecvTurn(t) => held[t] # 0
    BY <1>1 DEF HeldOK, HomeOK, Base, NoneHeld, ReleaseLabels, CallLabels
  <2> QED
    BY <1>1, <1>3, <2>1, <2>2 DEF CallSendPacket, MayCall, Call
<1>4. CASE CallDisconnect(t)
  <2>1. slot'[t] = slot[t] \/ held[t] = 0
    BY <1>4, CallSlot
  <2>2. RecvTurn(t) => held[t] # 0
    BY <1>1 DEF HeldOK, HomeOK, Base, NoneHeld, ReleaseLabels, CallLabels
  <2> QED
    BY <1>1, <1>4, <2>1, <2>2 DEF CallDisconnect, MayCall, Call
<1>5. CASE FreePacket(t)
  BY <1>1, <1>5 DEF FreePacket
<1>6. CASE AcqInc(t)
  BY <1>1, <1>6 DEF AcqInc
<1>7. CASE AcqCheck(t)
  BY <1>1, <1>7 DEF AcqCheck
<1>8. CASE DcClose(t)
  BY <1>1, <1>8 DEF DcClose
<1>9. CASE EnqLink(t)
  BY <1>1, <1>9 DEF EnqLink
<1>10. CASE EnqSize(t)
  BY <1>1, <1>10 DEF EnqSize
<1>11. CASE RetDec(t)
  BY <1>1, <1>11 DEF RetDec
<1>12. CASE RelCas(t)
  BY <1>1, <1>12 DEF RelCas
<1>13. CASE RelClose(t)
  BY <1>1, <1>13 DEF RelClose
<1>14. CASE RelFree(t)
  BY <1>1, <1>14 DEF RelFree
<1>15. CASE RelNotify(t)
  BY <1>1, <1>15 DEF RelNotify
<1>16. CASE RelPush(t)
  BY <1>1, <1>16 DEF RelPush
<1>17. CASE RecvPost(t)
  BY <1>1, <1>17 DEF RecvPost, Post, HeldOK, NoneHeld, ioVars
<1>18. CASE SpXchg(t)
  BY <1>1, <1>18 DEF SpXchg
<1>19. CASE SpSize(t)
  BY <1>1, <1>19 DEF SpSize
<1>20. CASE SpClear(t)
  BY <1>1, <1>20 DEF SpClear
<1>21. CASE SpRecheck(t)
  BY <1>1, <1>21 DEF SpRecheck
<1>22. CASE SpDeq(t)
  BY <1>1, <1>22 DEF SpDeq
<1>23. CASE SpUndo(t)
  BY <1>1, <1>23 DEF SpUndo
<1>24. CASE SpInc(t)
  BY <1>1, <1>24 DEF SpInc
<1>25. CASE SpSend(t)
  BY <1>1, <1>25 DEF SpSend, Post
<1>26. CASE RpEnd(t)
  BY <1>1, <1>26 DEF RpEnd
<1>27. CASE SdFree(t)
  BY <1>1, <1>27 DEF SdFree
<1>28. CASE SdClear(t)
  BY <1>1, <1>28 DEF SdClear
<1>29. CASE Accept(t)
  BY <1>1, <1>29, <1>2 DEF Accept
<1>30. CASE AcPop(t)
  BY <1>1, <1>30, <1>2 DEF AcPop
<1>31. CASE AcFull(t)
  BY <1>1, <1>31, <1>2 DEF AcFull
<1>32. CASE AcReject(t)
  BY <1>1, <1>32, <1>2 DEF AcReject
<1>33. CASE AcInit(t)
  BY <1>1, <1>33, <1>2 DEF AcInit
<1>34. CASE AcInc(t)
  BY <1>1, <1>34, <1>2 DEF AcInc
<1>35. CASE AcClear(t)
  BY <1>1, <1>35, <1>2 DEF AcClear
<1>36c. CASE AcCount(t)
  BY <1>1, <1>36c, <1>2 DEF AcCount
<1>36. CASE AcNotify(t)
  BY <1>1, <1>36, <1>2 DEF AcNotify
<1>37. CASE AcIncRecv(t)
  BY <1>1, <1>37, <1>2 DEF AcIncRecv
<1>38. CASE \E r \in Slots, ty \in IoTypes : Complete(t, r, ty)
  <2>1. PICK r \in Slots, ty \in IoTypes : Complete(t, r, ty)
    BY <1>38
  <2>2. slot'[t] = r
    BY <1>1, <2>1 DEF Complete
  <2> QED
    BY <1>1, <2>1, <2>2 DEF Complete
<1> QED
  BY <1>3, <1>4, <1>5, <1>6, <1>7, <1>8, <1>9, <1>10, <1>11, <1>12, <1>13,
    <1>14, <1>15, <1>16, <1>17, <1>18, <1>19, <1>20, <1>21, <1>22, <1>23,
    <1>24, <1>25, <1>26, <1>27, <1>28, <1>29, <1>30, <1>31, <1>32, <1>33,
    <1>34, <1>35, <1>36c, <1>36, <1>37, <1>38
  DEF Moves, Step

\* How a thread comes to its turn to send.
LEMMA SendTurnStep ==
  ASSUME TypeInv, NEW t \in Threads, Moves(t), SendTurn(t)'
  PROVE  \/ SendTurn(t) /\ slot'[t] = slot[t] /\ isSending' = isSending
         \/ /\ SpXchg(t) /\ slot'[t] = slot[t] /\ ~isSending[slot[t]]
            /\ isSending' = [isSending EXCEPT ![slot[t]] = TRUE]
         \/ \E r \in Slots : Complete(t, r, "send") /\ slot'[t] = r
<1>1. ThreadTypeOK /\ ThreadOK(t)
  BY DEF TypeInv, TypeOK, ControlOK
<1> USE DEF At, Goto, Leave, Base, callVars, sendVars, ThreadTypeOK, ThreadOK, SendTurn
<1>2. CASE CallSendPacket(t)
  BY <1>1, <1>2 DEF CallSendPacket, MayCall, Call
<1>3. CASE CallDisconnect(t)
  BY <1>1, <1>3 DEF CallDisconnect, MayCall, Call
<1>4. CASE FreePacket(t)
  BY <1>1, <1>4 DEF FreePacket
<1>5. CASE AcqInc(t)
  BY <1>1, <1>5 DEF AcqInc
<1>6. CASE AcqCheck(t)
  BY <1>1, <1>6 DEF AcqCheck
<1>7. CASE DcClose(t)
  BY <1>1, <1>7 DEF DcClose
<1>8. CASE EnqLink(t)
  BY <1>1, <1>8 DEF EnqLink
<1>9. CASE EnqSize(t)
  BY <1>1, <1>9 DEF EnqSize
<1>10. CASE RetDec(t)
  BY <1>1, <1>10 DEF RetDec
<1>11. CASE RelCas(t)
  BY <1>1, <1>11 DEF RelCas
<1>12. CASE RelClose(t)
  BY <1>1, <1>12 DEF RelClose
<1>13. CASE RelFree(t)
  BY <1>1, <1>13 DEF RelFree
<1>14. CASE RelNotify(t)
  BY <1>1, <1>14 DEF RelNotify
<1>15. CASE RelPush(t)
  BY <1>1, <1>15 DEF RelPush
<1>16. CASE RecvPost(t)
  BY <1>1, <1>16 DEF RecvPost, Post
<1>17. CASE SpXchg(t)
  BY <1>1, <1>17 DEF SpXchg
<1>18. CASE SpSize(t)
  BY <1>1, <1>18 DEF SpSize
<1>19. CASE SpClear(t)
  BY <1>1, <1>19 DEF SpClear
<1>20. CASE SpRecheck(t)
  BY <1>1, <1>20 DEF SpRecheck
<1>21. CASE SpDeq(t)
  BY <1>1, <1>21 DEF SpDeq
<1>22. CASE SpUndo(t)
  BY <1>1, <1>22 DEF SpUndo
<1>23. CASE SpInc(t)
  BY <1>1, <1>23 DEF SpInc
<1>24. CASE SpSend(t)
  BY <1>1, <1>24 DEF SpSend, Post, HeldOK, NoneHeld, ioVars
<1>25. CASE RpEnd(t)
  BY <1>1, <1>25 DEF RpEnd
<1>26. CASE SdFree(t)
  BY <1>1, <1>26 DEF SdFree
<1>27. CASE SdClear(t)
  BY <1>1, <1>27 DEF SdClear
<1>28. CASE Accept(t)
  BY <1>1, <1>28 DEF Accept
<1>29. CASE AcPop(t)
  BY <1>1, <1>29 DEF AcPop
<1>30. CASE AcFull(t)
  BY <1>1, <1>30 DEF AcFull
<1>31. CASE AcReject(t)
  BY <1>1, <1>31 DEF AcReject
<1>32. CASE AcInit(t)
  BY <1>1, <1>32 DEF AcInit
<1>33. CASE AcInc(t)
  BY <1>1, <1>33 DEF AcInc
<1>34. CASE AcClear(t)
  BY <1>1, <1>34 DEF AcClear
<1>35c. CASE AcCount(t)
  BY <1>1, <1>35c DEF AcCount
<1>35. CASE AcNotify(t)
  BY <1>1, <1>35 DEF AcNotify
<1>36. CASE AcIncRecv(t)
  BY <1>1, <1>36 DEF AcIncRecv
<1>37. CASE \E r \in Slots, ty \in IoTypes : Complete(t, r, ty)
  <2>1. PICK r \in Slots, ty \in IoTypes : Complete(t, r, ty)
    BY <1>37
  <2>2. slot'[t] = r
    BY <1>1, <2>1 DEF Complete
  <2> QED
    BY <1>1, <2>1, <2>2 DEF Complete
<1> QED
  BY <1>2, <1>3, <1>4, <1>5, <1>6, <1>7, <1>8, <1>9, <1>10, <1>11, <1>12,
    <1>13, <1>14, <1>15, <1>16, <1>17, <1>18, <1>19, <1>20, <1>21, <1>22,
    <1>23, <1>24, <1>25, <1>26, <1>27, <1>28, <1>29, <1>30, <1>31, <1>32,
    <1>33, <1>34, <1>35c, <1>35, <1>36, <1>37
  DEF Moves, Step

\* A post that succeeds ends the turn of its thread.
LEMMA PostEndsTurn ==
  ASSUME TypeInv, NEW t \in Threads
  PROVE  /\ RecvPost(t) /\ io' # io => ~RecvTurn(t)'
         /\ SpSend(t) /\ io' # io => ~SendTurn(t)'
<1>1. ThreadTypeOK /\ ThreadOK(t)
  BY DEF TypeInv, TypeOK, ControlOK
<1> USE DEF At, Goto, Leave, Base, Post, callVars, ioVars, ThreadTypeOK, ThreadOK, HomeOK,
        HeldOK, CallLabels, ReleaseLabels, NoneHeld
<1>2. RecvPost(t) /\ io' # io => ~RecvTurn(t)'
  BY <1>1 DEF RecvPost, RecvTurn
<1>3. SpSend(t) /\ io' # io => ~SendTurn(t)'
  BY <1>1 DEF SpSend, SendTurn
<1> QED
  BY <1>2, <1>3

\* Somebody whose turn it is relies on the session.
LEMMA TurnRelies ==
  ASSUME NEW t \in Threads
  PROVE  RecvTurn(t) \/ SendTurn(t) => Relies(t)
  BY DEF RecvTurn, SendTurn, Relies, LiveLabels

\* The receives of a session do not overlap.
LEMMA RecvStep ==
  ASSUME SafeInv, TypeInv', [Next]_vars
  PROVE  RecvOK'
<1>1. /\ TypeInv /\ LiveOK /\ OwnerOK /\ RecvOK
      /\ ThreadTypeOK /\ SystemTypeOK /\ (\A t \in Threads : SlotOK(t))
  BY DEF SafeInv, TypeInv, TypeOK, ControlOK, ThreadOK
<1>2. \A t \in Threads : RecvTurn(t) => slot[t] \in Slots /\ ~flag[slot[t]]
  BY <1>1, TurnRelies, ReliesHolds DEF LiveOK
<1>3. ASSUME NEW t \in Threads, Moves(t)
      PROVE  RecvOK'
  <2>1. \A u \in Threads \ {t} : RecvTurn(u)' = RecvTurn(u) /\ slot'[u] = slot[u]
    BY <1>1, <1>3, OthersStay DEF RecvTurn
  \* A receive that is posted was the turn of t.
  <2>2. ASSUME NEW u \in Threads \ {t}, RecvTurn(u)
        PROVE  io'[slot[u]]["recv"] = "idle"
    <3>1. ASSUME RecvPost(t), slot[t] = slot[u]
          PROVE  FALSE
      BY <1>1, <2>2, <3>1 DEF RecvPost, At, RecvTurn, RecvOK
    <3> QED
      BY <1>1, <1>2, <1>3, <2>2, <3>1, IoStep DEF RecvOK
  <2>3. CASE RecvTurn(t) /\ slot'[t] = slot[t] /\ RecvTurn(t)'
    <3>1. io'[slot[t]]["recv"] = "idle"
      <4>1. CASE io' = io
        BY <1>1, <2>3, <4>1 DEF RecvOK
      <4>2. CASE ~RecvPost(t)
        BY <1>1, <1>2, <1>3, <2>3, <4>2, IoStep DEF RecvOK
      <4> QED
        BY <1>1, <2>3, <4>1, <4>2, PostEndsTurn
    <3> QED
      BY <1>1, <2>1, <2>2, <2>3, <3>1 DEF RecvOK
  <2>4. CASE AcClear(t) /\ slot'[t] = slot[t]
    <3>1. slot[t] \in Slots /\ flag[slot[t]]
      BY <1>1, <2>4 DEF AcClear, At, SlotOK, OwnerOK, OwnerFlagged, Owns, OwnLabels
    <3>2. io'[slot[t]]["recv"] = "idle"
      BY <1>1, <2>4, <3>1 DEF AcClear, ioVars, LiveOK
    <3> QED
      BY <1>1, <1>2, <2>1, <2>2, <2>4, <3>1, <3>2 DEF RecvOK
  <2>5. CASE \E r \in Slots : Complete(t, r, "recv") /\ slot'[t] = r
    <3>1. PICK r \in Slots : Complete(t, r, "recv") /\ slot'[t] = r
      BY <2>5
    <3>2. io[r]["recv"] # "idle" /\ io'[r]["recv"] = "idle"
      BY <1>1, <3>1 DEF Complete, SystemTypeOK
    <3> QED
      BY <1>1, <2>1, <2>2, <3>1, <3>2 DEF RecvOK
  <2>6. CASE ~RecvTurn(t)'
    BY <1>1, <2>1, <2>2, <2>6 DEF RecvOK
  <2> QED
    BY <1>1, <1>3, <2>3, <2>4, <2>5, <2>6, RecvTurnStep
<1>4. CASE ~ \E t \in Threads : Moves(t)
  <2>1. /\ UNCHANGED <<pc, slot, home>>
        /\ \A s \in Slots, ty \in IoTypes : io'[s][ty] = "idle" <=> io[s][ty] = "idle"
    BY <1>4, OutsideStep
  <2> QED
    BY <1>1, <1>2, <2>1 DEF RecvOK, RecvTurn
<1> QED
  BY <1>3, <1>4

\* isSending is changed in four places.
LEMMA SendingQuiet ==
  ASSUME NEW t \in Threads,
         \/ CallSendPacket(t) \/ CallDisconnect(t) \/ FreePacket(t)
         \/ AcqInc(t) \/ AcqCheck(t) \/ DcClose(t) \/ EnqLink(t) \/ EnqSize(t)
         \/ RetDec(t) \/ RelCas(t) \/ RelClose(t) \/ RelFree(t)
         \/ RelNotify(t) \/ RelPush(t) \/ RecvPost(t) \/ SpSize(t)
         \/ SpRecheck(t) \/ SpDeq(t) \/ SpUndo(t) \/ SpInc(t) \/ SpSend(t)
         \/ RpEnd(t) \/ SdFree(t) \/ Accept(t) \/ AcPop(t) \/ AcFull(t)
         \/ AcReject(t) \/ AcInc(t) \/ AcClear(t) \/ AcCount(t) \/ AcNotify(t)
         \/ AcIncRecv(t)
  PROVE  UNCHANGED isSending
  BY DEF CallSendPacket, CallDisconnect, FreePacket, AcqInc, AcqCheck,
    DcClose, EnqLink, EnqSize, RetDec, RelCas, RelClose, RelFree, RelNotify,
    RelPush, RecvPost, SpSize, SpRecheck, SpDeq, SpUndo, SpInc, SpSend, RpEnd,
    SdFree, Accept, AcPop, AcFull, AcReject, AcInc, AcClear, AcCount, AcNotify,
    AcIncRecv, sendVars

\* It is set by the exchange; who clears it ends a turn to send.
LEMMA SendingStep ==
  ASSUME TypeInv, NEW t \in Threads, Moves(t)
  PROVE  \/ isSending' = isSending
         \/ SpXchg(t) /\ isSending' = [isSending EXCEPT ![slot[t]] = TRUE]
         \/ /\ SendTurn(t) /\ ~SendTurn(t)' /\ io' = io
            /\ isSending' = [isSending EXCEPT ![slot[t]] = FALSE]
         \/ AcInit(t) /\ isSending' = [isSending EXCEPT ![slot[t]] = FALSE]
<1>1. ThreadTypeOK
  BY DEF TypeInv, TypeOK
<1>2. CASE SpXchg(t) \/ AcInit(t)
  BY <1>2 DEF SpXchg, AcInit
<1>3. CASE SpClear(t) \/ SdClear(t)
  BY <1>1, <1>3 DEF SpClear, SdClear, At, Goto, SendTurn, ioVars, ThreadTypeOK
<1>4. CASE \E r \in Slots, ty \in IoTypes : Complete(t, r, ty)
  BY <1>4 DEF Complete, sendVars
<1> QED
  BY <1>2, <1>3, <1>4, SendingQuiet DEF Moves, Step

\* isSending admits one thread or one WSASend.
LEMMA SendingExclusive ==
  ASSUME SafeInv, TypeInv', [Next]_vars
  PROVE  SendOK'
<1>1. /\ TypeInv /\ LiveOK /\ OwnerOK /\ SendOK /\ isSending \in [Slots -> BOOLEAN]
      /\ ThreadTypeOK /\ SystemTypeOK /\ (\A t \in Threads : SlotOK(t))
  BY DEF SafeInv, TypeInv, TypeOK, SendTypeOK, ControlOK, ThreadOK
<1>2. \A t \in Threads : SendTurn(t) => slot[t] \in Slots /\ ~flag[slot[t]]
  BY <1>1, TurnRelies, ReliesHolds DEF LiveOK
<1>3. ASSUME NEW t \in Threads, Moves(t)
      PROVE  SendOK'
  <2>1. \A u \in Threads \ {t} : SendTurn(u)' = SendTurn(u) /\ slot'[u] = slot[u]
    BY <1>1, <1>3, OthersStay DEF SendTurn
  <2>2. AcInit(t) => slot[t] \in Slots /\ flag[slot[t]]
    BY <1>1 DEF AcInit, At, SlotOK, OwnerOK, OwnerFlagged, Owns, OwnLabels
  <2>3. SpXchg(t) => slot[t] \in Slots
    BY <1>1 DEF SpXchg, At, SlotOK
  \* Nobody else's turn ends with a step of t, nor does a WSASend lose isSending.
  <2>4. ASSUME NEW u \in Threads \ {t}, SendTurn(u)
        PROVE  io'[slot[u]]["send"] = "idle" /\ isSending'[slot[u]]
    <3>1. ASSUME SpSend(t), slot[t] = slot[u]
          PROVE  FALSE
      BY <1>1, <2>4, <3>1 DEF SpSend, At, SendTurn, SendOK
    <3>2. io'[slot[u]]["send"] = "idle"
      BY <1>1, <1>2, <1>3, <2>4, <3>1, IoStep DEF SendOK
    <3>3. SendTurn(t) => slot[t] # slot[u]
      BY <1>1, <2>4 DEF SendOK
    <3>4. isSending[slot[u]] /\ slot[u] \in Slots /\ ~flag[slot[u]]
      BY <1>1, <1>2, <2>4 DEF SendOK
    <3>5. isSending'[slot[u]]
      BY <1>1, <1>2, <1>3, <2>2, <2>3, <3>3, <3>4, SendingStep
    <3> QED
      BY <3>2, <3>5
  <2>5. ASSUME NEW s \in Slots, io'[s]["send"] # "idle"
        PROVE  isSending'[s]
    <3>1. CASE SpSend(t) /\ s = slot[t]
      <4>1. SendTurn(t) /\ isSending' = isSending
        BY <3>1 DEF SpSend, At, SendTurn, sendVars
      <4> QED
        BY <1>1, <3>1, <4>1 DEF SendOK
    <3>2. CASE io[s]["send"] # "idle"
      <4>1. isSending[s] /\ ~flag[s]
        BY <1>1, <3>2 DEF SendOK, LiveOK
      <4>2. SendTurn(t) => slot[t] # s
        BY <1>1, <3>2 DEF SendOK
      <4> QED
        BY <1>1, <1>2, <1>3, <2>2, <2>3, <4>1, <4>2, SendingStep
    <3> QED
      BY <1>1, <1>3, <2>5, <3>1, <3>2, IoStep
  <2>6. CASE SendTurn(t) /\ slot'[t] = slot[t] /\ isSending' = isSending /\ SendTurn(t)'
    <3>1. io'[slot[t]]["send"] = "idle"
      <4>1. CASE io' = io
        BY <1>1, <2>6, <4>1 DEF SendOK
      <4>2. CASE ~SpSend(t)
        BY <1>1, <1>2, <1>3, <2>6, <4>2, IoStep DEF SendOK
      <4> QED
        BY <1>1, <2>6, <4>1, <4>2, PostEndsTurn
    <3> QED
      BY <1>1, <2>1, <2>4, <2>5, <2>6, <3>1 DEF SendOK
  <2>7. CASE /\ SpXchg(t) /\ slot'[t] = slot[t] /\ ~isSending[slot[t]]
             /\ isSending' = [isSending EXCEPT ![slot[t]] = TRUE]
    <3>1. io'[slot[t]]["send"] = "idle" /\ isSending'[slot[t]]
      BY <1>1, <2>3, <2>7 DEF SpXchg, ioVars, SendOK
    <3>2. \A u \in Threads \ {t} : SendTurn(u) => slot[u] # slot[t]
      BY <1>1, <2>7 DEF SendOK
    <3> QED
      BY <1>1, <2>1, <2>4, <2>5, <2>7, <3>1, <3>2 DEF SendOK
  <2>8. CASE \E r \in Slots : Complete(t, r, "send") /\ slot'[t] = r
    <3>1. PICK r \in Slots : Complete(t, r, "send") /\ slot'[t] = r
      BY <2>8
    <3>2. io[r]["send"] # "idle" /\ io'[r]["send"] = "idle" /\ isSending' = isSending
      BY <1>1, <3>1 DEF Complete, SystemTypeOK, sendVars
    <3>3. \A u \in Threads \ {t} : SendTurn(u) => slot[u] # r
      BY <1>1, <3>2 DEF SendOK
    <3> QED
      BY <1>1, <2>1, <2>4, <2>5, <3>1, <3>2, <3>3 DEF SendOK
  <2>9. CASE ~SendTurn(t)'
    BY <1>1, <2>1, <2>4, <2>5, <2>9 DEF SendOK
  <2> QED
    BY <1>1, <1>3, <2>6, <2>7, <2>8, <2>9, SendTurnStep
<1>4. CASE ~ \E t \in Threads : Moves(t)
  <2>1. /\ UNCHANGED <<pc, slot, isSending>>
        /\ \A s \in Slots, ty \in IoTypes : io'[s][ty] = "idle" <=> io[s][ty] = "idle"
    BY <1>4, OutsideStep
  <2> QED
    BY <1>1, <1>2, <2>1 DEF SendOK, SendTurn
<1> QED
  BY <1>3, <1>4

\* ioCount is changed in five places, and given back in one.
LEMMA CountQuiet ==
  ASSUME NEW t \in Threads,
         \/ CallSendPacket(t) \/ CallDisconnect(t) \/ FreePacket(t)
         \/ AcqCheck(t) \/ DcClose(t) \/ EnqLink(t) \/ EnqSize(t) \/ RelCas(t)
         \/ RelClose(t) \/ RelFree(t) \/ RelNotify(t) \/ RelPush(t)
         \/ RecvPost(t) \/ SpXchg(t) \/ SpSize(t) \/ SpClear(t)
         \/ SpRecheck(t) \/ SpDeq(t) \/ SpUndo(t) \/ SpSend(t) \/ RpEnd(t)
         \/ SdFree(t) \/ SdClear(t) \/ Accept(t) \/ AcPop(t) \/ AcFull(t)
         \/ AcReject(t) \/ AcInit(t) \/ AcClear(t) \/ AcCount(t) \/ AcNotify(t)
  PROVE  UNCHANGED count
  BY DEF CallSendPacket, CallDisconnect, FreePacket, AcqCheck, DcClose,
    EnqLink, EnqSize, RelCas, RelClose, RelFree, RelNotify, RelPush, RecvPost,
    SpXchg, SpSize, SpClear, SpRecheck, SpDeq, SpUndo, SpSend, RpEnd, SdFree,
    SdClear, Accept, AcPop, AcFull, AcReject, AcInit, AcClear, AcCount, AcNotify,
    lifeVars

\* It grows by one, or the thread at RetDec takes one away.
LEMMA CountStep ==
  ASSUME TypeInv, NEW t \in Threads, Moves(t), NEW s \in Slots, count'[s] # count[s]
  PROVE  \/ count'[s] = count[s] + 1
         \/ RetDec(t) /\ slot[t] = s /\ count'[s] = count[s] - 1
<1>1. SessionTypeOK /\ SlotOK(t)
  BY DEF TypeInv, TypeOK, ControlOK, ThreadOK
<1>2. CASE AcqInc(t) \/ SpInc(t) \/ AcInc(t) \/ AcIncRecv(t)
  BY <1>1, <1>2 DEF AcqInc, SpInc, AcInc, AcIncRecv, SessionTypeOK
<1>3. CASE RetDec(t)
  BY <1>1, <1>3 DEF RetDec, SessionTypeOK
<1>4. CASE \E r \in Slots, ty \in IoTypes : Complete(t, r, ty)
  BY <1>4 DEF Complete, lifeVars
<1> QED
  BY <1>2, <1>3, <1>4, CountQuiet DEF Moves, Step

\* A thread at the compare-and-swap does it.
LEMMA CasNext ==
  ASSUME NEW t \in Threads, Moves(t), pc[t] = "RelCas"
  PROVE  RelCas(t)
<1> USE DEF At, MayCall
<1>1. ~ \E r \in Slots, ty \in IoTypes : Complete(t, r, ty)
  BY DEF Complete
<1>2. ~(CallSendPacket(t) \/ CallDisconnect(t) \/ Accept(t) \/ FreePacket(t))
  BY DEF CallSendPacket, CallDisconnect, Accept, FreePacket
<1>3. ASSUME \/ AcqInc(t) \/ AcqCheck(t) \/ DcClose(t) \/ EnqLink(t)
             \/ EnqSize(t) \/ RetDec(t) \/ RelClose(t) \/ RelFree(t)
             \/ RelNotify(t) \/ RelPush(t) \/ RecvPost(t) \/ SpXchg(t)
             \/ SpSize(t) \/ SpClear(t) \/ SpRecheck(t) \/ SpDeq(t)
             \/ SpUndo(t) \/ SpInc(t) \/ SpSend(t) \/ RpEnd(t) \/ SdFree(t)
             \/ SdClear(t) \/ AcPop(t) \/ AcFull(t) \/ AcReject(t)
             \/ AcInit(t) \/ AcInc(t) \/ AcClear(t) \/ AcCount(t) \/ AcNotify(t)
             \/ AcIncRecv(t)
      PROVE  FALSE
  BY <1>3 DEF AcqInc, AcqCheck, DcClose, EnqLink, EnqSize, RetDec, RelClose,
    RelFree, RelNotify, RelPush, RecvPost, SpXchg, SpSize, SpClear, SpRecheck,
    SpDeq, SpUndo, SpInc, SpSend, RpEnd, SdFree, SdClear, AcPop, AcFull,
    AcReject, AcInit, AcInc, AcClear, AcCount, AcNotify, AcIncRecv
<1> QED
  BY <1>1, <1>2, <1>3 DEF Moves, Step

\* The last reference never goes without somebody who releases the session.
LEMMA ZombieStep ==
  ASSUME SafeInv, TypeInv', [Next]_vars
  PROVE  NoZombie'
<1>1. /\ TypeInv /\ RefExact /\ NoZombie /\ ThreadTypeOK /\ SessionTypeOK
      /\ \A t \in Threads : ThreadOK(t)
  BY DEF SafeInv, TypeInv, TypeOK, ControlOK
<1>2. \A s \in Slots : count[s] \in Nat
  BY <1>1, ThreadRefsFinite, IoRefsCount DEF RefExact, Flight
<1>3. ASSUME NEW t \in Threads, Moves(t), NEW s \in Slots, ~flag'[s], count'[s] = 0
      PROVE  \E u \in Threads : slot'[u] = s /\ pc'[u] = "RelCas"
  <2>1. CASE ~flag[s] /\ count[s] = 0
    <3>1. PICK u \in Threads : slot[u] = s /\ pc[u] = "RelCas"
      BY <1>1, <2>1 DEF NoZombie
    <3>2. u # t
      BY <1>1, <1>3, <2>1, <3>1, CasNext DEF RelCas, SessionTypeOK
    <3> QED
      BY <1>1, <1>3, <3>1, <3>2, OthersStay
  <2>2. CASE flag[s] /\ count[s] = 0
    <3>1. pc[t] = "AcClear" /\ slot[t] = s
      <4>1. TypeInv /\ flag \in [Slots -> BOOLEAN]
        BY <1>1 DEF SessionTypeOK
      <4> QED
        BY <1>3, <2>2, <4>1, FlagStep
    <3>2. held[t] # 0
      BY <1>1, <3>1 DEF ThreadOK, HeldOK, Base, NoneHeld, ReleaseLabels, ThreadTypeOK
    <3> QED
      BY <1>1, <2>2, <3>1, <3>2, HeldCounts
  <2>3. CASE count[s] # 0
    <3>1. RetDec(t) /\ slot[t] = s /\ count[s] = 1
      BY <1>1, <1>2, <1>3, <2>3, CountStep
    <3>2. flag' = flag
      BY <3>1 DEF RetDec
    <3> QED
      BY <1>1, <1>3, <3>1, <3>2 DEF RetDec, Goto, callVars, ThreadTypeOK
  <2> QED
    BY <1>2, <2>1, <2>2, <2>3
<1>4. CASE ~ \E t \in Threads : Moves(t)
  <2>1. UNCHANGED <<flag, count, slot, pc>>
    BY <1>4, OutsideStep
  <2> QED
    BY <1>1, <2>1 DEF NoZombie
<1> QED
  BY <1>3, <1>4 DEF NoZombie

----------------------------------------------------------------------------
(***************************************************************************)
(* The invariant holds, and what it is worth.                              *)
(***************************************************************************)

\* The initial state satisfies the inductive invariant.
LEMMA SafeInit == Init => SafeInv
<1> SUFFICES ASSUME Init PROVE SafeInv
  OBVIOUS
<1>1. TypeInv
  BY TypeInit
<1>2. /\ count = [s \in Slots |-> 0] /\ flag = [s \in Slots |-> TRUE]
      /\ io = [s \in Slots |-> [ty \in IoTypes |-> "idle"]]
      /\ pc = [t \in Threads |-> "Idle"] /\ home = [t \in Threads |-> "Idle"]
      /\ held = [t \in Threads |-> 0]
      /\ indexStack = [i \in 1 .. MaxSessionCount |-> i - 1]
  BY DEF Init
<1>3. RefExact
  <2>1. \A s \in Slots : ThreadRefs(s) = {} /\ IoRefs(s) = {}
    BY <1>2 DEF ThreadRefs, IoRefs
  <2>2. Cardinality({}) = 0
    BY FS_EmptySet
  <2>3. \A s \in Slots : count[s] = 0
    BY <1>2
  <2> QED
    BY <2>1, <2>2, <2>3 DEF RefExact
<1>4. \A s \in Slots : InStack(s)
  <2>1. Len(indexStack) = MaxSessionCount
    BY <1>2, BoundAssumption
  <2>2. ASSUME NEW s \in Slots
        PROVE  s + 1 \in 1 .. MaxSessionCount /\ indexStack[s + 1] = s
    BY <1>2, BoundAssumption
  <2> QED
    BY <2>1, <2>2 DEF InStack
<1>5. StackDistinct
  <2>1. Len(indexStack) = MaxSessionCount
    BY <1>2, BoundAssumption
  <2>2. \A i \in 1 .. MaxSessionCount : indexStack[i] = i - 1
    BY <1>2
  <2> QED
    BY <2>1, <2>2, BoundAssumption DEF StackDistinct
<1>6. OwnerOK
  BY <1>2, <1>4, <1>5 DEF OwnerOK, StackFlagged, OwnerFlagged, OwnerUnique, FlagCovered, Owns,
     OwnLabels
<1>7. LiveOK /\ IdOK /\ RecvOK /\ SendOK
  BY <1>2 DEF LiveOK, IdOK, RecvOK, SendOK, Relies, LiveLabels, RecvTurn, SendTurn
<1>8. NoZombie
  BY <1>2 DEF NoZombie
<1> QED
  BY <1>1, <1>3, <1>6, <1>7, <1>8 DEF SafeInv

\* Every step preserves it.
LEMMA SafeStep == SafeInv /\ [Next]_vars => SafeInv'
<1> SUFFICES ASSUME SafeInv, [Next]_vars PROVE SafeInv'
  OBVIOUS
<1>1. TypeInv'
  BY TypeStep DEF SafeInv
<1> QED
  BY <1>1, RefExactStep, LiveStep, IdStep, OwnerStep, RecvStep, SendingExclusive, ZombieStep
  DEF SafeInv

\* So it holds throughout.
LEMMA Safe == Spec => []SafeInv
  BY SafeInit, SafeStep, PTL DEF Spec

\* ioCount is exact (RefExact): no path through AcquireSession, ReturnSession,
\* the posts and the completions forgets a reference or gives one back twice.
THEOREM RefExactness == Spec => []RefExact
<1>1. SafeInv => RefExact
  BY DEF SafeInv
<1> QED
  BY <1>1, Safe, PTL

\* A session that was released is not used, nor is the next one in its slot
\* taken for it: what the reference count is there for.
THEOREM UseOnlyLive == Spec => []NoUseAfterRelease
<1>1. SafeInv => NoUseAfterRelease
  <2>1. \A t : Using(t) => Relies(t)
    BY DEF Using, Relies, LiveLabels
  <2> QED
    BY <2>1 DEF SafeInv, LiveOK, IdOK, NoUseAfterRelease
<1> QED
  BY <1>1, Safe, PTL

\* Every slot is in the index stack, or claimed, or live, or being released,
\* in one of these places: two sessions never share a slot, none gets lost.
THEOREM SlotOwnership == Spec => []OneOwner
<1>1. ASSUME SafeInv, NEW s \in Slots
      PROVE  Cardinality(SlotOwners(s)) = 1
  <2> DEFINE inStack == {<<"stack", i>> : i \in {j \in 1 .. Len(indexStack) : indexStack[j] = s}}
             byThread == {<<"thread", t>> : t \in {u \in Threads : slot[u] = s /\ Owns(u)}}
  <2>1. /\ OwnerOK /\ \A x : Cardinality({x}) = 1
        /\ \A t : Owns(t) <=> (Releasing(t) \/ Claiming(t))
    BY <1>1, FS_Singleton DEF SafeInv, Owns, OwnLabels, Releasing, Claiming
  <2>2. SlotOwners(s) = inStack \cup byThread \cup (IF flag[s] THEN {} ELSE {<<"live", s>>})
    BY <2>1 DEF SlotOwners
  <2>3. \A i, j \in 1 .. Len(indexStack) : indexStack[i] = s /\ indexStack[j] = s => i = j
    BY <2>1 DEF OwnerOK, StackDistinct
  <2>4. CASE ~flag[s]
    <3>1. inStack = {} /\ byThread = {}
      BY <2>1, <2>4 DEF OwnerOK, StackFlagged, OwnerFlagged, InStack
    <3> QED
      BY <2>1, <2>2, <2>4, <3>1
  <2>5. CASE flag[s] /\ InStack(s)
    <3>1. PICK i \in 1 .. Len(indexStack) : indexStack[i] = s
      BY <2>5 DEF InStack
    <3>2. inStack = {<<"stack", i>>}
      BY <2>3, <3>1
    <3>3. byThread = {}
      BY <2>1, <2>5 DEF OwnerOK, OwnerFlagged
    <3> QED
      BY <2>1, <2>2, <2>5, <3>2, <3>3
  <2>6. CASE flag[s] /\ ~InStack(s)
    <3>1. PICK t \in Threads : Owns(t) /\ slot[t] = s
      BY <2>1, <2>6 DEF OwnerOK, FlagCovered
    <3>2. byThread = {<<"thread", t>>}
      BY <2>1, <3>1 DEF OwnerOK, OwnerUnique
    <3>3. inStack = {}
      BY <2>6 DEF InStack
    <3> QED
      BY <2>1, <2>2, <2>6, <3>2, <3>3
  <2> QED
    BY <2>4, <2>5, <2>6
<1>2. SafeInv => OneOwner
  BY <1>1 DEF OneOwner
<1> QED
  BY <1>2, Safe, PTL

\* sendingPackets and the consumer side of sendQ belong to one thread or to one
\* WSASend at a time.
THEOREM SendExclusion == Spec => []SendExclusive
<1>1. ASSUME SafeInv, NEW s \in Slots
      PROVE  /\ Cardinality(SendOwners(s)) + (IF io[s]["send"] = "idle" THEN 0 ELSE 1) <= 1
             /\ SendOwners(s) # {} \/ io[s]["send"] # "idle" => isSending[s]
  <2>1. SendOK /\ SendOwners(s) = {t \in Threads : slot[t] = s /\ SendTurn(t)}
    BY <1>1 DEF SafeInv, SendOwners, SendTurn
  <2>2. CASE SendOwners(s) = {}
    <3>1. Cardinality(SendOwners(s)) = 0
      BY <2>2, FS_EmptySet
    <3> QED
      BY <2>1, <2>2, <3>1 DEF SendOK
  <2>3. CASE SendOwners(s) # {}
    <3>1. PICK t \in Threads : slot[t] = s /\ SendTurn(t)
      BY <2>1, <2>3
    <3>2. SendOwners(s) = {t}
      BY <2>1, <3>1 DEF SendOK
    <3>3. Cardinality(SendOwners(s)) = 1
      BY <3>2, FS_Singleton
    <3>4. io[s]["send"] = "idle" /\ isSending[s]
      BY <2>1, <3>1 DEF SendOK
    <3> QED
      BY <3>3, <3>4
  <2> QED
    BY <2>2, <2>3
<1>2. SafeInv => SendExclusive
  BY <1>1 DEF SendExclusive
<1> QED
  BY <1>2, Safe, PTL

\* A live session nobody refers to is about to be released.
THEOREM ZombieFree == Spec => []NoZombie
<1>1. SafeInv => NoZombie
  BY DEF SafeInv
<1> QED
  BY <1>1, Safe, PTL

----------------------------------------------------------------------------
(***************************************************************************)
(* The send path: its inductive invariant, slot by slot.                   *)
(***************************************************************************)

On(t, s, labels) == slot[t] = s /\ pc[t] \in labels

\* The threads that have linked a packet and not counted it yet, and the one
\* whose Dequeue has failed and not been undone yet.
Late(s)  == {t \in Threads : On(t, s, {"EnqSize"})}
Under(s) == {t \in Threads : On(t, s, {"SpUndo"})}

\* qsize lags behind the links by what these threads have yet to do.
SizeOK(s) == qsize[s] = Len(sendQ[s]) - Cardinality(Late(s)) - Cardinality(Under(s))

\* What a release leaves in a slot.
Emptying(s) == \E t \in Threads : On(t, s, {"RelClose", "RelFree"})
EmptyOK(s)  == flag[s] => Emptying(s) \/ (sendQ[s] = <<>> /\ sending[s] = <<>>)

\* Whose packets lie in a slot.
ToOK(s) ==
  /\ \A i \in 1 .. Len(sendQ[s]) : sendQ[s][i].to = sessionID[s]
  /\ \A i \in 1 .. Len(sending[s]) : sending[s][i].to = sessionID[s]

\* Who will look at the queue.
WakeOK(s) ==
  ~flag[s] /\ sendQ[s] # <<>> /\ ~isSending[s] =>
    \E t \in Threads : On(t, s, {"EnqSize", "SpXchg", "SpRecheck"})

\* When sendingPackets is empty, and when sendingCount counts it.
SendingOK(s) ==
  /\ ~isSending[s] \/ (\E t \in Threads : On(t, s, {"SpSize", "SpClear", "SdClear"}))
       => sending[s] = <<>>
  /\ \/ sendingCount[s] = Len(sending[s])
     \/ \E t \in Threads : On(t, s, {"SpDeq", "SpUndo", "SpInc"})

QueueOK(s) == SizeOK(s) /\ EmptyOK(s) /\ ToOK(s) /\ WakeOK(s) /\ SendingOK(s)

QueueInv == \A s \in Slots : QueueOK(s)
----------------------------------------------------------------------------
(***************************************************************************)
(* Steps that leave the queues alone.                                      *)
(***************************************************************************)

SendLabels == {"EnqSize", "SpXchg", "SpRecheck", "SpDeq", "SpUndo", "SpInc",
               "SpSize", "SpClear", "SdClear"}

\* The actions that touch a queue, or that come from a label of SendLabels.
QueueStep(t) ==
  \/ EnqLink(t) \/ EnqSize(t) \/ SpXchg(t) \/ SpSize(t) \/ SpClear(t) \/ SpRecheck(t)
  \/ SpDeq(t) \/ SpUndo(t) \/ SpInc(t) \/ SdFree(t) \/ SdClear(t) \/ RelFree(t) \/ AcInit(t)

\* Nothing of the send path of slot s changes, nor who works on it.
Same(s) ==
  /\ sendQ'[s] = sendQ[s] /\ qsize'[s] = qsize[s] /\ sending'[s] = sending[s]
  /\ sendingCount'[s] = sendingCount[s] /\ isSending'[s] = isSending[s]
  /\ sessionID'[s] = sessionID[s]

\* All others leave it alone, and the thread is at no such label before or after.
LEMMA OtherSteps ==
  ASSUME TypeInv, NEW t \in Threads, Moves(t), ~QueueStep(t)
  PROVE  /\ UNCHANGED <<sendVars, sessionID>>
         /\ pc[t] \notin SendLabels /\ pc'[t] \notin SendLabels
         /\ pc[t] \in {"RelClose", "RelFree"} => pc'[t] = "RelFree" /\ slot'[t] = slot[t]
<1>1. ThreadTypeOK /\ ThreadOK(t)
  BY DEF TypeInv, TypeOK, ControlOK
<1>2. UNCHANGED <<sendVars, sessionID>>
  <2>1. CASE \E s \in Slots, ty \in IoTypes : Complete(t, s, ty)
    BY <2>1 DEF Complete, lifeVars
  <2>2. CASE SpRecheck(t)
    BY <2>2 DEF QueueStep
  <2> QED
    BY <2>1, <2>2, SendQuiet, IdQuiet DEF Moves, Step, QueueStep
<1> DEFINE Goal == /\ pc[t] \notin SendLabels /\ pc'[t] \notin SendLabels
                   /\ pc[t] \in {"RelClose", "RelFree"} => pc'[t] = "RelFree" /\ slot'[t] = slot[t]
<1> SUFFICES Goal
  BY <1>2
<1> USE DEF At, Goto, Leave, callVars, ThreadTypeOK, ThreadOK, HomeOK, SendLabels
<1>3. CASE CallSendPacket(t)
  BY <1>1, <1>3 DEF CallSendPacket, MayCall, Call
<1>4. CASE CallDisconnect(t)
  BY <1>1, <1>4 DEF CallDisconnect, MayCall, Call
<1>5. CASE FreePacket(t)
  BY <1>1, <1>5 DEF FreePacket
<1>6. CASE AcqInc(t)
  BY <1>1, <1>6 DEF AcqInc
<1>7. CASE AcqCheck(t)
  BY <1>1, <1>7 DEF AcqCheck
<1>8. CASE DcClose(t)
  BY <1>1, <1>8 DEF DcClose
<1>9. CASE RetDec(t)
  BY <1>1, <1>9 DEF RetDec
<1>10. CASE RelCas(t)
  BY <1>1, <1>10 DEF RelCas
<1>11. CASE RelClose(t)
  BY <1>1, <1>11 DEF RelClose
<1>12. CASE RelNotify(t)
  BY <1>1, <1>12 DEF RelNotify
<1>13. CASE RelPush(t)
  BY <1>1, <1>13 DEF RelPush
<1>14. CASE RecvPost(t)
  BY <1>1, <1>14 DEF RecvPost, Post
<1>15. CASE SpSend(t)
  BY <1>1, <1>15 DEF SpSend, Post
<1>16. CASE RpEnd(t)
  BY <1>1, <1>16 DEF RpEnd
<1>17. CASE Accept(t)
  BY <1>1, <1>17 DEF Accept
<1>18. CASE AcPop(t)
  BY <1>1, <1>18 DEF AcPop
<1>19. CASE AcFull(t)
  BY <1>1, <1>19 DEF AcFull
<1>20. CASE AcReject(t)
  BY <1>1, <1>20 DEF AcReject
<1>21. CASE AcInc(t)
  BY <1>1, <1>21 DEF AcInc
<1>22. CASE AcClear(t)
  BY <1>1, <1>22 DEF AcClear
<1>23c. CASE AcCount(t)
  BY <1>1, <1>23c DEF AcCount
<1>23. CASE AcNotify(t)
  BY <1>1, <1>23 DEF AcNotify
<1>24. CASE AcIncRecv(t)
  BY <1>1, <1>24 DEF AcIncRecv
<1>25. CASE \E s \in Slots, ty \in IoTypes : Complete(t, s, ty)
  BY <1>1, <1>25 DEF Complete
<1> QED
  BY <1>2, <1>3, <1>4, <1>5, <1>6, <1>7, <1>8, <1>9, <1>10, <1>11, <1>12, <1>13, <1>14, <1>15, <1>16, <1>17, <1>18, <1>19, <1>20, <1>21, <1>22, <1>23c, <1>23, <1>24, <1>25 DEF Moves, Step, QueueStep

\* A slot whose send path and threads stay as they are is still in order, if
\* the flag is set only by a thread that will empty it and cleared only on an
\* empty queue.
LEMMA SlotQuiet ==
  ASSUME NEW s \in Slots, QueueOK(s), Same(s),
         \A u \in Threads, l \in SendLabels :
           (slot'[u] = s /\ pc'[u] = l) <=> (slot[u] = s /\ pc[u] = l),
         flag'[s] => Emptying(s)' \/ (flag[s] /\ ~Emptying(s)),
         ~flag'[s] => ~flag[s] \/ (sendQ[s] = <<>> /\ sending[s] = <<>>)
  PROVE  QueueOK(s)'
<1> USE DEF SendLabels, On, Same
<1>1. Late(s)' = Late(s) /\ Under(s)' = Under(s)
  BY DEF Late, Under
<1>2. SizeOK(s)'
  BY <1>1 DEF QueueOK, SizeOK
<1>3. EmptyOK(s)'
  BY DEF QueueOK, EmptyOK
<1>4. ToOK(s)'
  BY DEF QueueOK, ToOK
<1>5. WakeOK(s)'
  BY DEF QueueOK, WakeOK
<1>6. SendingOK(s)'
  BY DEF QueueOK, SendingOK
<1> QED
  BY <1>2, <1>3, <1>4, <1>5, <1>6 DEF QueueOK

\* The other steps.
LEMMA OtherStepsKeep ==
  ASSUME SafeInv, QueueInv, NEW t \in Threads, Moves(t), ~QueueStep(t)
  PROVE  QueueInv'
<1>1. TypeInv /\ OwnerOK /\ ThreadTypeOK /\ SessionTypeOK
  BY DEF SafeInv, TypeInv, TypeOK
<1>2. /\ UNCHANGED <<sendVars, sessionID>>
      /\ pc[t] \notin SendLabels /\ pc'[t] \notin SendLabels
      /\ pc[t] \in {"RelClose", "RelFree"} => pc'[t] = "RelFree" /\ slot'[t] = slot[t]
  BY <1>1, OtherSteps
<1>3. \A u \in Threads \ {t} : pc'[u] = pc[u] /\ slot'[u] = slot[u]
  BY <1>1, OthersStay
<1>4. \A s \in Slots : Emptying(s) => Emptying(s)'
  BY <1>2, <1>3 DEF Emptying, On
<1>5. ASSUME NEW s \in Slots
      PROVE  QueueOK(s)'
  <2>1. QueueOK(s) /\ EmptyOK(s)
    BY DEF QueueInv, QueueOK
  <2>2. Same(s)
    BY <1>2 DEF Same, sendVars
  <2>3. \A u \in Threads, l \in SendLabels :
           (slot'[u] = s /\ pc'[u] = l) <=> (slot[u] = s /\ pc[u] = l)
    BY <1>2, <1>3
  <2>4. CASE flag' = flag
    BY <1>4, <2>1, <2>2, <2>3, <2>4, SlotQuiet
  <2>5. CASE /\ slot[t] \in Slots /\ flag' = [flag EXCEPT ![slot[t]] = TRUE]
             /\ pc' = [pc EXCEPT ![t] = "RelClose"] /\ slot' = slot
    <3>1. s = slot[t] => Emptying(s)'
      BY <1>1, <2>5 DEF Emptying, On, ThreadTypeOK
    <3>2. s # slot[t] => flag'[s] = flag[s]
      BY <1>1, <2>5 DEF SessionTypeOK
    <3>3. s = slot[t] => flag'[s]
      BY <1>1, <2>5 DEF SessionTypeOK
    <3> QED
      BY <1>4, <2>1, <2>2, <2>3, <3>1, <3>2, <3>3, SlotQuiet
  <2>6. CASE /\ pc[t] = "AcClear" /\ slot[t] \in Slots
             /\ flag' = [flag EXCEPT ![slot[t]] = FALSE]
    <3>1. s = slot[t] => flag[s] /\ ~Emptying(s)
      BY <1>1, <2>6 DEF Emptying, On, OwnerOK, OwnerFlagged, OwnerUnique, Owns, OwnLabels
    <3>2. s = slot[t] => sendQ[s] = <<>> /\ sending[s] = <<>>
      BY <2>1, <3>1 DEF EmptyOK
    <3>3. /\ s # slot[t] => flag'[s] = flag[s]
          /\ s = slot[t] => ~flag'[s]
      BY <1>1, <2>6 DEF SessionTypeOK
    <3> QED
      BY <1>4, <2>1, <2>2, <2>3, <3>2, <3>3, SlotQuiet
  <2> QED
    BY <1>1, <2>4, <2>5, <2>6, FlagStep
<1> QED
  BY <1>5 DEF QueueInv

----------------------------------------------------------------------------
(***************************************************************************)
(* Steps on a queue.                                                       *)
(***************************************************************************)

\* A step on the send path of a slot leaves the other slots, and the flags,
\* alone.
LEMMA QueueStepSlot ==
  ASSUME TypeInv, NEW t \in Threads, QueueStep(t)
  PROVE  /\ Moves(t) /\ slot[t] \in Slots /\ flag' = flag
         /\ slot'[t] \in {slot[t], NoSlot}
         /\ \A s \in Slots \ {slot[t]} : Same(s)
<1>1. ThreadTypeOK /\ SessionTypeOK /\ SendTypeOK /\ SlotOK(t)
  BY DEF TypeInv, TypeOK, ControlOK, ThreadOK
<1>2. Moves(t)
  BY DEF QueueStep, Moves, Step
<1>3. slot[t] \in Slots
  BY <1>1 DEF SlotOK, At, QueueStep, EnqLink, EnqSize, SpXchg, SpSize, SpClear, SpRecheck, SpDeq,
     SpUndo, SpInc, SdFree, SdClear, RelFree, AcInit
<1>4. flag' = flag
  BY DEF QueueStep, EnqLink, EnqSize, SpXchg, SpSize, SpClear, SpRecheck, SpDeq,
     SpUndo, SpInc, SdFree, SdClear, RelFree, AcInit, lifeVars
<1>5. slot'[t] \in {slot[t], NoSlot}
  BY <1>1 DEF QueueStep, EnqLink, EnqSize, SpXchg, SpSize, SpClear, SpRecheck, SpDeq,
     SpUndo, SpInc, SdFree, SdClear, RelFree, AcInit, callVars, Leave, ThreadTypeOK
<1>6. ASSUME NEW s \in Slots, s # slot[t]
      PROVE  Same(s)
  <2> USE DEF Same, lifeVars, sendVars, SessionTypeOK, SendTypeOK
  <2>1. CASE EnqLink(t) \/ EnqSize(t) \/ SpXchg(t)
    BY <1>1, <1>6, <2>1 DEF EnqLink, EnqSize, SpXchg
  <2>2. CASE SpSize(t)
    BY <1>1, <1>6, <2>2 DEF SpSize
  <2>3. CASE SpDeq(t)
    BY <1>1, <1>6, <2>3 DEF SpDeq
  <2>4. CASE SpClear(t) \/ SpRecheck(t) \/ SpUndo(t) \/ SpInc(t)
    BY <1>1, <1>6, <2>4 DEF SpClear, SpRecheck, SpUndo, SpInc
  <2>5. CASE SdFree(t) \/ SdClear(t)
    BY <1>1, <1>6, <2>5 DEF SdFree, SdClear
  <2>6. CASE RelFree(t)
    BY <1>1, <1>6, <2>6 DEF RelFree
  <2>7. CASE AcInit(t)
    BY <1>1, <1>6, <2>7 DEF AcInit
  <2> QED
    BY <2>1, <2>2, <2>3, <2>4, <2>5, <2>6, <2>7 DEF QueueStep
<1> QED
  BY <1>2, <1>3, <1>4, <1>5, <1>6

\* So only its own slot has to be looked at.
LEMMA QueueStepElsewhere ==
  ASSUME SafeInv, QueueInv, NEW t \in Threads, QueueStep(t), NEW s \in Slots, s # slot[t]
  PROVE  QueueOK(s)'
<1>1. TypeInv /\ ThreadTypeOK
  BY DEF SafeInv, TypeInv, TypeOK
<1>2. /\ Moves(t) /\ slot[t] \in Slots /\ flag' = flag
      /\ slot'[t] \in {slot[t], NoSlot} /\ Same(s)
  BY <1>1, QueueStepSlot
<1>3. \A u \in Threads \ {t} : pc'[u] = pc[u] /\ slot'[u] = slot[u]
  BY <1>1, <1>2, OthersStay
<1>4. slot'[t] # s
  BY <1>2, BoundAssumption
<1>5. Emptying(s)' <=> Emptying(s)
  BY <1>2, <1>3, <1>4 DEF Emptying, On
<1>6. \A u \in Threads, l \in SendLabels :
        (slot'[u] = s /\ pc'[u] = l) <=> (slot[u] = s /\ pc[u] = l)
  BY <1>3, <1>4
<1> QED
  BY <1>2, <1>5, <1>6, SlotQuiet DEF QueueInv

\* A thread that joins or leaves a set of threads.
LEMMA ThreadSet ==
  ASSUME NEW A, A \subseteq Threads, NEW t \in Threads
  PROVE  /\ Cardinality(A) \in Nat
         /\ t \notin A => Cardinality(A \cup {t}) = Cardinality(A) + 1
         /\ t \in A => Cardinality(A \ {t}) = Cardinality(A) - 1 /\ Cardinality(A) # 0
<1>1. IsFiniteSet(A)
  BY ThreadAssumption, FS_Subset
<1>2. Cardinality(A) \in Nat /\ Cardinality({}) = 0 /\ (Cardinality(A) = 0 => A = {})
  BY <1>1, FS_CardinalityType, FS_EmptySet
<1> QED
  BY <1>1, <1>2, FS_AddElement, FS_RemoveElement

\* Linking a packet: a new last entry.
LEMMA AppendEntry ==
  ASSUME NEW q \in Seq(Entry), NEW e \in Entry
  PROVE  /\ Append(q, e) \in Seq(Entry) /\ Append(q, e) # <<>> /\ Len(q) \in Nat
         /\ Len(Append(q, e)) = Len(q) + 1 /\ Append(q, e)[Len(q) + 1] = e
         /\ \A i \in 1 .. Len(q) : Append(q, e)[i] = q[i]
  OBVIOUS

\* Taking one: the entries move up.
LEMMA TailEntry ==
  ASSUME NEW q \in Seq(Entry), q # <<>>
  PROVE  /\ Tail(q) \in Seq(Entry) /\ Head(q) \in Entry /\ Len(q) \in Nat \ {0}
         /\ Head(q) = q[1] /\ Len(Tail(q)) = Len(q) - 1
         /\ \A i \in 1 .. Len(Tail(q)) : Tail(q)[i] = q[i + 1] /\ i + 1 \in 1 .. Len(q)
  OBVIOUS

\* What a step on the send path of slot s finds, and what it leaves.
Here(t, s) ==
  /\ ThreadTypeOK /\ SessionTypeOK /\ SendTypeOK /\ ThreadOK(t)
  /\ s = slot[t] /\ s \in Slots /\ flag' = flag /\ QueueOK(s)
  /\ sendQ[s] \in Seq(Entry) /\ sending[s] \in Seq(Entry) /\ qsize[s] \in Int
  /\ \A u \in Threads \ {t} : pc'[u] = pc[u] /\ slot'[u] = slot[u]
  /\ pc[t] \in LiveLabels => ~flag[s]
  /\ SendTurn(t) => isSending[s] /\ \A u \in Threads \ {t} : SendTurn(u) => slot[u] # s

LEMMA QueueStepFacts ==
  ASSUME SafeInv, QueueInv, NEW t \in Threads, QueueStep(t), NEW s, s = slot[t]
  PROVE  Here(t, s)
<1>1. TypeInv /\ ThreadTypeOK /\ SessionTypeOK /\ SendTypeOK /\ ThreadOK(t) /\ LiveOK /\ SendOK
  BY DEF SafeInv, TypeInv, TypeOK, ControlOK
<1>2. Moves(t) /\ s \in Slots /\ flag' = flag
  BY <1>1, QueueStepSlot
<1>3. \A u \in Threads \ {t} : pc'[u] = pc[u] /\ slot'[u] = slot[u]
  BY <1>1, <1>2, OthersStay
<1>4. SendTurn(t) => isSending[s] /\ \A u \in Threads \ {t} : SendTurn(u) => slot[u] # s
  BY <1>1 DEF SendOK
<1> QED
  BY <1>1, <1>2, <1>3, <1>4 DEF Here, SendTypeOK, QueueInv, LiveOK, Relies

\* SendPacket links a packet.
LEMMA EnqLinkKeeps ==
  ASSUME SafeInv, QueueInv, NEW t \in Threads, EnqLink(t), NEW s, s = slot[t]
  PROVE  QueueOK(s)'
<1> DEFINE e == [pkt |-> pkt[t], to |-> arg[t]]
<1> USE DEF Here
<1>1. Here(t, s)
  BY QueueStepFacts DEF QueueStep
<1>2. /\ pc[t] = "EnqLink" /\ pc'[t] = "EnqSize" /\ slot' = slot /\ ~flag[s]
      /\ sendQ' = [sendQ EXCEPT ![s] = Append(sendQ[s], e)]
      /\ UNCHANGED <<qsize, sending, sendingCount, isSending, sessionID>>
  BY <1>1 DEF EnqLink, At, Goto, callVars, lifeVars, ThreadTypeOK, LiveLabels
<1>3. e \in Entry /\ arg[t] = sessionID[s]
  BY <1>1, <1>2 DEF ThreadOK, CallOK, Entry, SafeInv, IdOK
<1>4. sendQ'[s] = Append(sendQ[s], e)
  BY <1>1, <1>2 DEF SendTypeOK
<1>5. SizeOK(s)'
  <2> DEFINE len == Len(sendQ[s])
             len2 == Len(sendQ'[s])
             late == Cardinality(Late(s))
             late2 == Cardinality(Late(s)')
             under == Cardinality(Under(s))
             under2 == Cardinality(Under(s)')
  <2>1. Late(s)' = Late(s) \cup {t} /\ t \notin Late(s) /\ Under(s)' = Under(s)
    BY <1>1, <1>2 DEF Late, Under, On
  <2>2. /\ late2 = late + 1
        /\ late \in Nat /\ under \in Nat
    BY <2>1, ThreadSet DEF Late, Under
  <2>3. len2 = len + 1 /\ len \in Nat
    BY <1>1, <1>3, <1>4, AppendEntry
  <2>4. qsize[s] = len - late - under
    BY <1>1 DEF QueueOK, SizeOK
  <2>5. qsize'[s] = qsize[s] /\ under2 = under
    BY <1>2, <2>1
  <2> HIDE DEF len, len2, late, late2, under, under2
  <2>6. qsize'[s] = len2 - late2 - under2
    BY <2>2, <2>3, <2>4, <2>5
  <2> QED
    BY <2>6 DEF SizeOK, len2, late2, under2
<1>6. EmptyOK(s)'
  BY <1>1, <1>2 DEF EmptyOK
<1>7. ToOK(s)'
  <2>1. /\ Len(sendQ'[s]) = Len(sendQ[s]) + 1 /\ sendQ'[s][Len(sendQ[s]) + 1] = e
        /\ Len(sendQ[s]) \in Nat /\ \A i \in 1 .. Len(sendQ[s]) : sendQ'[s][i] = sendQ[s][i]
    BY <1>1, <1>3, <1>4, AppendEntry
  <2>2. \A i \in 1 .. Len(sendQ'[s]) : i \in 1 .. Len(sendQ[s]) \/ i = Len(sendQ[s]) + 1
    BY <2>1
  <2>3. ToOK(s) /\ e.to = arg[t]
    BY <1>1 DEF QueueOK
  <2> QED
    BY <1>2, <1>3, <2>1, <2>2, <2>3 DEF ToOK
<1>8. WakeOK(s)'
  BY <1>2 DEF WakeOK, On
<1>9. SendingOK(s)'
  BY <1>1, <1>2 DEF QueueOK, SendingOK, On
<1> QED
  BY <1>5, <1>6, <1>7, <1>8, <1>9 DEF QueueOK

\* EnqSize counts it.
LEMMA EnqSizeKeeps ==
  ASSUME SafeInv, QueueInv, NEW t \in Threads, EnqSize(t), NEW s, s = slot[t]
  PROVE  QueueOK(s)'
<1> USE DEF Here
<1>1. Here(t, s)
  BY QueueStepFacts DEF QueueStep
<1>2. /\ pc[t] = "EnqSize" /\ pc'[t] = "SpXchg" /\ slot' = slot /\ ~flag[s]
      /\ qsize'[s] = qsize[s] + 1
      /\ UNCHANGED <<sendQ, sending, sendingCount, isSending, sessionID>>
  BY <1>1 DEF EnqSize, At, Goto, callVars, lifeVars, ThreadTypeOK, SendTypeOK, LiveLabels
<1>3. SizeOK(s)'
  <2> DEFINE len == Len(sendQ[s])
             len2 == Len(sendQ'[s])
             late == Cardinality(Late(s))
             late2 == Cardinality(Late(s)')
             under == Cardinality(Under(s))
             under2 == Cardinality(Under(s)')
  <2>1. Late(s)' = Late(s) \ {t} /\ t \in Late(s) /\ Under(s)' = Under(s)
    BY <1>1, <1>2 DEF Late, Under, On
  <2>2. /\ late2 = late - 1
        /\ late \in Nat /\ under \in Nat
    BY <2>1, ThreadSet DEF Late, Under
  <2>3. qsize[s] = len - late - under /\ len \in Nat
    BY <1>1 DEF QueueOK, SizeOK
  <2>4. /\ qsize'[s] = qsize[s] + 1 /\ len2 = len
        /\ under2 = under
    BY <1>2, <2>1
  <2> HIDE DEF len, len2, late, late2, under, under2
  <2>5. qsize'[s] = len2 - late2 - under2
    BY <2>2, <2>3, <2>4
  <2> QED
    BY <2>5 DEF SizeOK, len2, late2, under2
<1>4. EmptyOK(s)' /\ WakeOK(s)'
  BY <1>1, <1>2 DEF EmptyOK, WakeOK, On
<1>5. ToOK(s)' /\ SendingOK(s)'
  BY <1>1, <1>2 DEF QueueOK, ToOK, SendingOK, On
<1> QED
  BY <1>3, <1>4, <1>5 DEF QueueOK

\* The failed Dequeue is undone.
LEMMA SpUndoKeeps ==
  ASSUME SafeInv, QueueInv, NEW t \in Threads, SpUndo(t), NEW s, s = slot[t]
  PROVE  QueueOK(s)'
<1> USE DEF Here
<1>1. Here(t, s)
  BY QueueStepFacts DEF QueueStep
<1>2. /\ pc[t] = "SpUndo" /\ pc'[t] = "SpInc" /\ slot' = slot /\ ~flag[s]
      /\ qsize'[s] = qsize[s] + 1
      /\ UNCHANGED <<sendQ, sending, sendingCount, isSending, sessionID>>
  BY <1>1 DEF SpUndo, At, Goto, callVars, lifeVars, ThreadTypeOK, SendTypeOK, LiveLabels
<1>3. SizeOK(s)'
  <2> DEFINE len == Len(sendQ[s])
             len2 == Len(sendQ'[s])
             late == Cardinality(Late(s))
             late2 == Cardinality(Late(s)')
             under == Cardinality(Under(s))
             under2 == Cardinality(Under(s)')
  <2>1. Under(s)' = Under(s) \ {t} /\ t \in Under(s) /\ Late(s)' = Late(s)
    BY <1>1, <1>2 DEF Late, Under, On
  <2>2. /\ under2 = under - 1
        /\ late \in Nat /\ under \in Nat
    BY <2>1, ThreadSet DEF Late, Under
  <2>3. qsize[s] = len - late - under /\ len \in Nat
    BY <1>1 DEF QueueOK, SizeOK
  <2>4. /\ qsize'[s] = qsize[s] + 1 /\ len2 = len
        /\ late2 = late
    BY <1>2, <2>1
  <2> HIDE DEF len, len2, late, late2, under, under2
  <2>5. qsize'[s] = len2 - late2 - under2
    BY <2>2, <2>3, <2>4
  <2> QED
    BY <2>5 DEF SizeOK, len2, late2, under2
<1>4. isSending[s] /\ \A u \in Threads : ~On(u, s, {"SpSize", "SpClear", "SdClear"})'
  BY <1>1, <1>2 DEF SendTurn, On
<1>5. EmptyOK(s)' /\ WakeOK(s)'
  BY <1>1, <1>2, <1>4 DEF EmptyOK, WakeOK
<1>6. ToOK(s)'
  BY <1>1, <1>2 DEF QueueOK, ToOK
<1>7. SendingOK(s)'
  BY <1>1, <1>2, <1>4 DEF SendingOK, On
<1> QED
  BY <1>3, <1>5, <1>6, <1>7 DEF QueueOK

\* SpSize, SpInc and SdFree: sendingPackets is emptied, counted, and given back.
LEMMA SendingKeeps ==
  ASSUME SafeInv, QueueInv, NEW t \in Threads, SpSize(t) \/ SpInc(t) \/ SdFree(t), NEW s, s = slot[t]
  PROVE  QueueOK(s)'
<1> USE DEF Here
<1>1. Here(t, s)
  BY QueueStepFacts DEF QueueStep
<1>2. /\ pc[t] \in {"SpSize", "SpInc", "SdFree"} /\ slot' = slot /\ ~flag[s]
      /\ pc'[t] \in {"SpDeq", "SpClear", "SpSend", "SdClear"}
      /\ UNCHANGED <<sendQ, qsize, isSending, sessionID>>
      /\ sending'[s] \in {sending[s], <<>>}
  BY <1>1 DEF SpSize, SpInc, SdFree, At, Goto, callVars, lifeVars, ThreadTypeOK, SendTypeOK, LiveLabels
<1>3. isSending[s] /\ \A u \in Threads \ {t} : ~On(u, s, {"SpSize", "SpClear", "SdClear", "SpDeq", "SpUndo", "SpInc"})
  BY <1>1, <1>2 DEF SendTurn, On
<1>4. Late(s)' = Late(s) /\ Under(s)' = Under(s)
  BY <1>1, <1>2 DEF Late, Under, On
<1>5. SizeOK(s)' /\ EmptyOK(s)' /\ WakeOK(s)'
  BY <1>1, <1>2, <1>3, <1>4 DEF QueueOK, SizeOK, EmptyOK, WakeOK
<1>6. ToOK(s)'
  BY <1>1, <1>2 DEF QueueOK, ToOK
<1>7. SendingOK(s)'
  <2>1. CASE SpSize(t)
    <3>1. sending[s] = <<>> /\ sendingCount[s] = 0
      BY <1>1, <1>3, <2>1 DEF QueueOK, SendingOK, On, SpSize, At
    <3>2. sending'[s] = <<>> /\ sendingCount'[s] = 0
      BY <1>1, <2>1, <3>1 DEF SpSize, SendTypeOK
    <3> QED
      BY <3>2 DEF SendingOK
  <2>2. CASE SpInc(t)
    <3>1. sendingCount'[s] = Len(sending'[s]) /\ isSending'[s] /\ pc'[t] = "SpSend"
      BY <1>1, <1>2, <1>3, <2>2 DEF SpInc, SendTypeOK, Goto, ThreadTypeOK
    <3>2. \A u \in Threads : ~On(u, s, {"SpSize", "SpClear", "SdClear"})'
      BY <1>1, <1>2, <1>3, <3>1 DEF On
    <3> QED
      BY <3>1, <3>2 DEF SendingOK
  <2>3. CASE SdFree(t)
    <3>1. sending'[s] = <<>> /\ sendingCount'[s] = 0
      BY <1>1, <2>3 DEF SdFree, SendTypeOK
    <3> QED
      BY <3>1 DEF SendingOK
  <2> QED
    BY <2>1, <2>2, <2>3
<1> QED
  BY <1>5, <1>6, <1>7 DEF QueueOK

\* isSending is taken, or was taken already.
LEMMA SpXchgKeeps ==
  ASSUME SafeInv, QueueInv, NEW t \in Threads, SpXchg(t), NEW s, s = slot[t]
  PROVE  QueueOK(s)'
<1> USE DEF Here
<1>1. Here(t, s)
  BY QueueStepFacts DEF QueueStep
<1>2. /\ pc[t] = "SpXchg" /\ ~flag[s] /\ isSending'[s]
      /\ pc'[t] \notin {"EnqSize", "SpUndo", "SpClear", "SdClear", "SpDeq", "SpInc"}
      /\ pc'[t] = "SpSize" => ~isSending[s]
      /\ UNCHANGED <<sendQ, qsize, sending, sendingCount, sessionID>>
  BY <1>1 DEF SpXchg, At, Goto, Leave, callVars, lifeVars, ThreadTypeOK, SendTypeOK, LiveLabels
<1>3. Late(s)' = Late(s) /\ Under(s)' = Under(s)
  BY <1>1, <1>2 DEF Late, Under, On
<1>4. SizeOK(s)' /\ EmptyOK(s)' /\ WakeOK(s)'
  BY <1>1, <1>2, <1>3 DEF QueueOK, SizeOK, EmptyOK, WakeOK
<1>5. ToOK(s)'
  BY <1>1, <1>2 DEF QueueOK, ToOK
<1>6. SendingOK(s)'
  BY <1>1, <1>2 DEF QueueOK, SendingOK, On
<1> QED
  BY <1>4, <1>5, <1>6 DEF QueueOK

\* isSending is given up, by a thread that will look once more.
LEMMA ClearKeeps ==
  ASSUME SafeInv, QueueInv, NEW t \in Threads, SpClear(t) \/ SdClear(t), NEW s, s = slot[t]
  PROVE  QueueOK(s)'
<1> USE DEF Here
<1>1. Here(t, s)
  BY QueueStepFacts DEF QueueStep
<1>2. /\ pc[t] \in {"SpClear", "SdClear"} /\ ~flag[s] /\ slot' = slot
      /\ pc'[t] \in {"SpRecheck", "SpXchg"}
      /\ UNCHANGED <<sendQ, qsize, sending, sendingCount, sessionID>>
  BY <1>1 DEF SpClear, SdClear, At, Goto, callVars, lifeVars, ThreadTypeOK, LiveLabels
<1>3. Late(s)' = Late(s) /\ Under(s)' = Under(s)
  BY <1>1, <1>2 DEF Late, Under, On
<1>4. SizeOK(s)' /\ EmptyOK(s)' /\ WakeOK(s)'
  BY <1>1, <1>2, <1>3 DEF QueueOK, SizeOK, EmptyOK, WakeOK, On
<1>5. ToOK(s)'
  BY <1>1, <1>2 DEF QueueOK, ToOK
<1>6. SendingOK(s)'
  BY <1>1, <1>2 DEF QueueOK, SendingOK, On
<1> QED
  BY <1>4, <1>5, <1>6 DEF QueueOK

\* The second look finds the queue empty only if whoever has linked a packet
\* has yet to count it, and will look then.
LEMMA SpRecheckKeeps ==
  ASSUME SafeInv, QueueInv, NEW t \in Threads, SpRecheck(t), NEW s, s = slot[t]
  PROVE  QueueOK(s)'
<1> USE DEF Here
<1>1. Here(t, s)
  BY QueueStepFacts DEF QueueStep
<1>2. /\ pc[t] = "SpRecheck" /\ ~flag[s]
      /\ pc'[t] \notin {"EnqSize", "SpUndo", "SpSize", "SpClear", "SdClear", "SpDeq", "SpInc"}
      /\ qsize[s] # 0 => pc'[t] = "SpXchg" /\ slot' = slot
      /\ UNCHANGED <<sendQ, qsize, isSending, sending, sendingCount, sessionID>>
  BY <1>1 DEF SpRecheck, At, Goto, Leave, callVars, lifeVars, sendVars, ThreadTypeOK, LiveLabels
<1>3. Late(s)' = Late(s) /\ Under(s)' = Under(s)
  BY <1>1, <1>2 DEF Late, Under, On
<1>4. SizeOK(s)' /\ EmptyOK(s)'
  BY <1>1, <1>2, <1>3 DEF QueueOK, SizeOK, EmptyOK
<1>5. WakeOK(s)'
  <2>1. SUFFICES ASSUME sendQ[s] # <<>>, ~isSending[s]
                 PROVE  \E u \in Threads : On(u, s, {"EnqSize", "SpXchg", "SpRecheck"})'
    BY <1>2 DEF WakeOK
  <2>2. CASE qsize[s] # 0
    BY <1>1, <1>2, <2>2 DEF On
  <2>3. CASE qsize[s] = 0
    <3>1. Under(s) = {} /\ Cardinality({}) = 0
      <4>1. \A u \in Threads : ~On(u, s, {"SpUndo"})
        BY <1>1, <1>2, <2>1 DEF On, SafeInv, SendOK, SendTurn
      <4> QED
        BY <4>1, FS_EmptySet DEF Under
    <3>2. Len(sendQ[s]) \in Nat \ {0}
      BY <1>1, <2>1, TailEntry
    <3>3. 0 = Len(sendQ[s]) - Cardinality(Late(s)) - 0
      <4>1. qsize[s] = Len(sendQ[s]) - Cardinality(Late(s)) - Cardinality(Under(s))
        BY <1>1 DEF QueueOK, SizeOK
      <4>2. Cardinality(Under(s)) = 0
        BY <3>1, Zenon
      <4> QED
        BY <2>3, <4>1, <4>2
    <3>4. Late(s) = {} => Cardinality(Late(s)) = 0
      BY <3>1, Zenon
    <3>5. Cardinality(Late(s)) # 0 /\ Late(s) # {}
      BY <3>2, <3>3, <3>4
    <3>6. PICK u \in Threads : slot[u] = s /\ pc[u] = "EnqSize"
      BY <3>5 DEF Late, On
    <3>7. u # t
      BY <1>2, <3>6
    <3> QED
      BY <1>1, <3>6, <3>7 DEF On
  <2> QED
    BY <2>2, <2>3
<1>6. ToOK(s)'
  BY <1>1, <1>2 DEF QueueOK, ToOK
<1>7. SendingOK(s)'
  BY <1>1, <1>2 DEF QueueOK, SendingOK, On
<1> QED
  BY <1>4, <1>5, <1>6, <1>7 DEF QueueOK

\* A turn of the loop that dequeues.
LEMMA SpDeqKeeps ==
  ASSUME SafeInv, QueueInv, NEW t \in Threads, SpDeq(t), NEW s, s = slot[t]
  PROVE  QueueOK(s)'
<1> USE DEF Here
<1>1. Here(t, s)
  BY QueueStepFacts DEF QueueStep
<1>2. /\ pc[t] = "SpDeq" /\ ~flag[s] /\ slot' = slot
      /\ pc'[t] \in {"SpDeq", "SpUndo", "SpInc"}
      /\ UNCHANGED <<isSending, sendingCount, sessionID>>
  BY <1>1 DEF SpDeq, At, Goto, callVars, lifeVars, ThreadTypeOK, LiveLabels
<1>3. /\ isSending[s]
      /\ \A u \in Threads : ~On(u, s, {"SpSize", "SpClear", "SdClear"})'
      /\ Under(s) = {}
  BY <1>1, <1>2 DEF SendTurn, On, Under
<1>4. EmptyOK(s)' /\ WakeOK(s)' /\ SendingOK(s)'
  BY <1>1, <1>2, <1>3 DEF EmptyOK, WakeOK, SendingOK, On
<1>5. Late(s)' = Late(s) /\ Cardinality(Late(s)) \in Nat /\ Cardinality({}) = 0
  BY <1>1, <1>2, ThreadSet, FS_EmptySet DEF Late, On
<1>6. qsize[s] = Len(sendQ[s]) - Cardinality(Late(s)) - Cardinality(Under(s)) /\ ToOK(s)
  BY <1>1 DEF QueueOK, SizeOK
<1>7. CASE /\ sendQ[s] # <<>> /\ qsize' = [qsize EXCEPT ![s] = qsize[s] - 1]
           /\ sending' = [sending EXCEPT ![s] = Append(sending[s], Head(sendQ[s]))]
           /\ sendQ' = [sendQ EXCEPT ![s] = Tail(sendQ[s])]
           /\ pc' = pc
  <2> DEFINE q == sendQ[s]
             d == sending[s]
  <2>1. sendQ'[s] = Tail(q) /\ sending'[s] = Append(d, Head(q)) /\ qsize'[s] = qsize[s] - 1
    BY <1>1, <1>7 DEF SendTypeOK
  <2>2. q \in Seq(Entry) /\ d \in Seq(Entry) /\ q # <<>>
    BY <1>1, <1>7
  <2>3. /\ Head(q) \in Entry /\ Len(q) \in Nat \ {0}
        /\ Head(q) = q[1] /\ Len(Tail(q)) = Len(q) - 1
        /\ \A i \in 1 .. Len(Tail(q)) : Tail(q)[i] = q[i + 1] /\ i + 1 \in 1 .. Len(q)
    BY <2>2, TailEntry
  <2>4. /\ Len(d) \in Nat /\ Len(Append(d, Head(q))) = Len(d) + 1
        /\ Append(d, Head(q))[Len(d) + 1] = Head(q)
        /\ \A i \in 1 .. Len(d) : Append(d, Head(q))[i] = d[i]
    BY <2>2, <2>3, AppendEntry
  <2>5. Under(s)' = {}
    BY <1>2, <1>3, <1>7 DEF Under, On
  <2>6. SizeOK(s)'
    BY <1>1, <1>3, <1>5, <1>6, <2>1, <2>3, <2>5 DEF SizeOK
  <2>7. ToOK(s)'
    <3>1. \A i \in 1 .. Len(q) : q[i].to = sessionID[s]
      BY <1>6 DEF ToOK
    <3>2. \A i \in 1 .. Len(d) : d[i].to = sessionID[s]
      BY <1>6 DEF ToOK
    <3>3. 1 \in 1 .. Len(q) /\ \A i \in 1 .. Len(d) + 1 : i \in 1 .. Len(d) \/ i = Len(d) + 1
      BY <2>3, <2>4
    <3>4. sessionID' = sessionID
      BY <1>2
    <3> HIDE DEF q, d
    <3>5. \A i \in 1 .. Len(sendQ'[s]) : sendQ'[s][i].to = sessionID'[s]
      BY <2>1, <2>3, <3>1, <3>4
    <3>6. \A i \in 1 .. Len(sending'[s]) : sending'[s][i].to = sessionID'[s]
      BY <2>1, <2>3, <2>4, <3>1, <3>2, <3>3, <3>4
    <3> QED
      BY <3>5, <3>6 DEF ToOK
  <2> QED
    BY <1>4, <2>6, <2>7 DEF QueueOK
<1>8. CASE UNCHANGED <<sendQ, sending>>
  <2>1. ToOK(s)'
    BY <1>2, <1>6, <1>8 DEF ToOK
  <2>2. CASE pc'[t] = "SpUndo" /\ qsize' = [qsize EXCEPT ![s] = qsize[s] - 1]
    <3>1. Under(s)' = {t} /\ Cardinality({t}) = 1
      <4>1. Under(s)' = {t}
        BY <1>1, <1>2, <1>3, <2>2 DEF Under, On
      <4>2. Cardinality({t}) = 1
        BY FS_Singleton
      <4> QED
        BY <4>1, <4>2
    <3>2. qsize'[s] = qsize[s] - 1 /\ Len(sendQ[s]) \in Nat
      BY <1>1, <2>2 DEF SendTypeOK
    <3>3. SizeOK(s)'
      BY <1>1, <1>3, <1>5, <1>6, <1>8, <3>1, <3>2 DEF SizeOK
    <3> QED
      BY <1>4, <2>1, <3>3 DEF QueueOK
  <2>3. CASE pc'[t] = "SpInc" /\ qsize' = qsize
    <3>1. Under(s)' = {}
      BY <1>1, <1>2, <1>3, <2>3 DEF Under, On
    <3>2. SizeOK(s)'
      BY <1>3, <1>5, <1>6, <1>8, <2>3, <3>1 DEF SizeOK
    <3> QED
      BY <1>4, <2>1, <3>2 DEF QueueOK
  <2>4. \/ sendQ[s] # <<>> /\ sendQ' = [sendQ EXCEPT ![s] = Tail(sendQ[s])]
        \/ pc'[t] = "SpUndo" /\ qsize' = [qsize EXCEPT ![s] = qsize[s] - 1]
        \/ pc'[t] = "SpInc" /\ qsize' = qsize
    BY <1>1 DEF SpDeq, Goto, ThreadTypeOK
  <2>5. sendQ[s] # <<>> => Tail(sendQ[s]) # sendQ[s]
    <3>1. sendQ[s] # <<>> => Len(Tail(sendQ[s])) = Len(sendQ[s]) - 1 /\ Len(sendQ[s]) \in Nat
      BY <1>1, TailEntry
    <3>2. sendQ[s] # <<>> => Len(Tail(sendQ[s])) # Len(sendQ[s])
      BY <3>1
    <3> QED
      BY <3>2, Zenon
  <2> QED
    <3>1. CASE sendQ[s] # <<>> /\ sendQ' = [sendQ EXCEPT ![s] = Tail(sendQ[s])]
      BY <1>1, <1>8, <2>5, <3>1 DEF SendTypeOK
    <3> QED
      BY <2>2, <2>3, <2>4, <3>1
<1> QED
  BY <1>1, <1>7, <1>8 DEF SpDeq

\* A release empties the slot: nobody is late, so qsize is the length.
LEMMA RelFreeEmpties ==
  ASSUME SafeInv, QueueInv, NEW t \in Threads, RelFree(t), NEW s, s = slot[t]
  PROVE  /\ Here(t, s) /\ pc[t] = "RelFree" /\ pc'[t] = "RelNotify" /\ slot' = slot
         /\ flag[s] /\ qsize[s] = Len(sendQ[s]) /\ Late(s) = {} /\ Under(s) = {}
         /\ sendQ'[s] = <<>> /\ sending'[s] = <<>> /\ sendingCount'[s] = 0 /\ qsize'[s] = 0
<1> USE DEF Here
<1>1. Here(t, s)
  BY QueueStepFacts DEF QueueStep
<1>2. /\ pc[t] = "RelFree" /\ pc'[t] = "RelNotify" /\ slot' = slot
      /\ sending'[s] = <<>> /\ sendingCount'[s] = 0
  BY <1>1 DEF RelFree, At, Goto, callVars, ThreadTypeOK, SendTypeOK
<1>3. flag[s]
  BY <1>1, <1>2 DEF SafeInv, OwnerOK, OwnerFlagged, Owns, OwnLabels
<1>4. Late(s) = {} /\ Under(s) = {}
  BY <1>3 DEF Late, Under, On, SafeInv, LiveOK, Relies, LiveLabels
<1>5. qsize[s] = Len(sendQ[s]) /\ Len(sendQ[s]) \in Nat
  BY <1>1, <1>4, FS_EmptySet DEF QueueOK, SizeOK
<1> DEFINE drained == IF qsize[s] < 0 THEN 0 ELSE qsize[s]
<1>6. /\ sendQ' = [sendQ EXCEPT ![s] = SubSeq(sendQ[s], drained + 1, Len(sendQ[s]))]
      /\ qsize' = [qsize EXCEPT ![s] = qsize[s] - drained]
      /\ drained = Len(sendQ[s])
  BY <1>1, <1>5 DEF RelFree
<1>7. \A n \in Nat : SubSeq(sendQ[s], n + 1, n) = <<>>
  BY <1>1
<1>8. sendQ'[s] = <<>> /\ qsize'[s] = 0
  <2> HIDE DEF drained
  <2>1. SubSeq(sendQ[s], drained + 1, Len(sendQ[s])) = <<>> /\ qsize[s] - drained = 0
    BY <1>1, <1>5, <1>6, <1>7
  <2> QED
    BY <1>1, <1>6, <2>1 DEF SendTypeOK
<1> QED
  BY <1>1, <1>2, <1>3, <1>4, <1>5, <1>8

LEMMA RelFreeKeeps ==
  ASSUME SafeInv, QueueInv, NEW t \in Threads, RelFree(t), NEW s, s = slot[t]
  PROVE  QueueOK(s)'
<1> USE DEF Here
<1>1. /\ Here(t, s) /\ pc[t] = "RelFree" /\ pc'[t] = "RelNotify" /\ slot' = slot
      /\ flag[s] /\ Late(s) = {} /\ Under(s) = {}
      /\ sendQ'[s] = <<>> /\ sending'[s] = <<>> /\ sendingCount'[s] = 0 /\ qsize'[s] = 0
  BY RelFreeEmpties
<1>2. Late(s)' = {} /\ Under(s)' = {} /\ Cardinality({}) = 0
  BY <1>1, FS_EmptySet DEF Late, Under, On
<1>3. SizeOK(s)' /\ ToOK(s)' /\ SendingOK(s)'
  BY <1>1, <1>2 DEF SizeOK, ToOK, SendingOK
<1>4. EmptyOK(s)' /\ WakeOK(s)'
  BY <1>1 DEF EmptyOK, WakeOK
<1> QED
  BY <1>3, <1>4 DEF QueueOK

\* Session::Init finds nothing in the queue it leaves alone.
LEMMA AcInitFinds ==
  ASSUME SafeInv, QueueInv, NEW t \in Threads, pc[t] \in {"AcInit", "AcInc", "AcClear"}, NEW s, s = slot[t]
  PROVE  s \in Slots /\ flag[s] /\ sendQ[s] = <<>> /\ sending[s] = <<>>
<1>1. s \in Slots
  BY DEF SafeInv, TypeInv, ControlOK, ThreadOK, SlotOK
<1>2. flag[s] /\ ~Emptying(s)
  BY DEF SafeInv, OwnerOK, OwnerFlagged, OwnerUnique, Owns, OwnLabels, Emptying, On
<1> QED
  BY <1>1, <1>2 DEF QueueInv, QueueOK, EmptyOK

LEMMA AcInitKeeps ==
  ASSUME SafeInv, QueueInv, NEW t \in Threads, AcInit(t), NEW s, s = slot[t]
  PROVE  QueueOK(s)'
<1> USE DEF Here
<1>1. Here(t, s)
  BY QueueStepFacts DEF QueueStep
<1>2. /\ pc[t] = "AcInit" /\ pc'[t] = "AcInc" /\ slot' = slot /\ UNCHANGED <<sendQ, qsize>>
      /\ sending'[s] = <<>> /\ sendingCount'[s] = 0
  BY <1>1 DEF AcInit, At, Goto, callVars, ThreadTypeOK, SendTypeOK
<1>3. flag[s] /\ sendQ[s] = <<>>
  BY <1>2, AcInitFinds
<1>4. Late(s)' = Late(s) /\ Under(s)' = Under(s)
  BY <1>1, <1>2 DEF Late, Under, On
<1>5. SizeOK(s)'
  BY <1>1, <1>2, <1>4 DEF QueueOK, SizeOK
<1>6. EmptyOK(s)' /\ ToOK(s)' /\ WakeOK(s)' /\ SendingOK(s)'
  BY <1>1, <1>2, <1>3 DEF EmptyOK, ToOK, WakeOK, SendingOK
<1> QED
  BY <1>5, <1>6 DEF QueueOK
----------------------------------------------------------------------------
(***************************************************************************)
(* The invariant holds.                                                    *)
(***************************************************************************)

LEMMA QueueInit ==
  Init => QueueInv
<1> SUFFICES ASSUME Init, NEW s \in Slots
             PROVE  QueueOK(s)
  BY DEF QueueInv
<1>1. Late(s) = {} /\ Under(s) = {} /\ Cardinality({}) = 0
  BY FS_EmptySet DEF Init, Late, Under, On
<1>2. sendQ[s] = <<>> /\ sending[s] = <<>> /\ sendingCount[s] = 0 /\ qsize[s] = 0
  BY DEF Init
<1>3. SizeOK(s)
  BY <1>1, <1>2 DEF SizeOK
<1>4. EmptyOK(s) /\ ToOK(s) /\ WakeOK(s) /\ SendingOK(s)
  BY <1>2 DEF EmptyOK, ToOK, WakeOK, SendingOK
<1> QED
  BY <1>3, <1>4 DEF QueueOK

LEMMA QueueStepKeeps ==
  ASSUME SafeInv, QueueInv, NEW t \in Threads, QueueStep(t)
  PROVE  QueueInv'
<1> SUFFICES ASSUME NEW s \in Slots
             PROVE  QueueOK(s)'
  BY DEF QueueInv
<1>1. CASE s # slot[t]
  BY <1>1, QueueStepElsewhere
<1>2. CASE s = slot[t]
  BY <1>2, EnqLinkKeeps, EnqSizeKeeps, SpUndoKeeps, SendingKeeps, SpXchgKeeps, ClearKeeps,
     SpRecheckKeeps, SpDeqKeeps, RelFreeKeeps, AcInitKeeps DEF QueueStep
<1> QED
  BY <1>1, <1>2

\* The steps of Windows, and those that change nothing.
LEMMA OutsideKeeps ==
  ASSUME SafeInv, QueueInv, [Next]_vars, \A t \in Threads : ~Moves(t)
  PROVE  QueueInv'
<1>1. UNCHANGED <<flag, sessionID, pc, slot>>
  BY OutsideStep DEF SafeInv
<1>2. UNCHANGED sendVars
  BY NextCases DEF IoDone, PeerReset, vars, SafeInv
<1>3. ASSUME NEW s \in Slots
      PROVE  QueueOK(s)'
  <2>1. QueueOK(s) /\ Same(s)
    BY <1>1, <1>2 DEF QueueInv, Same, sendVars
  <2>2. Emptying(s)' <=> Emptying(s)
    BY <1>1 DEF Emptying, On
  <2> QED
    BY <1>1, <2>1, <2>2, SlotQuiet
<1> QED
  BY <1>3 DEF QueueInv

LEMMA QueueStepInv ==
  SafeInv /\ QueueInv /\ [Next]_vars => QueueInv'
<1> SUFFICES ASSUME SafeInv, QueueInv, [Next]_vars
             PROVE  QueueInv'
  OBVIOUS
<1>1. CASE \A t \in Threads : ~Moves(t)
  BY <1>1, OutsideKeeps
<1>2. ASSUME NEW t \in Threads, Moves(t)
      PROVE  QueueInv'
  BY <1>2, QueueStepKeeps, OtherStepsKeep
<1> QED
  BY <1>1, <1>2

\* The queues, the counter of each, and who looks at them are in order in
\* every state the server reaches, whatever the number of threads and slots.
THEOREM Queues == Spec => []QueueInv
<1>1. Spec => []SafeInv
  BY Safe
<1> QED
  BY <1>1, QueueInit, QueueStepInv, PTL DEF Spec

\* A packet never waits in the queue of a live session with nobody to send
\* it: the check of the queue after isSending is given up (SendPost,
\* CNetServer.cpp) closes the window in which a sender found it still set.
THEOREM NoWakeupLost == Spec => []NoLostWakeup
<1>1. QueueInv => NoLostWakeup
  BY DEF QueueInv, QueueOK, WakeOK, On, NoLostWakeup
<1> QED
  BY <1>1, Queues, PTL

\* A packet never lies in the queue, or in sendingPackets, of another session
\* than the one SendPacket was called for.
THEOREM NothingCrosses == Spec => []NoCrossDelivery
<1>1. QueueInv => NoCrossDelivery
  BY DEF QueueInv, QueueOK, ToOK, NoCrossDelivery
<1> QED
  BY <1>1, Queues, PTL
----------------------------------------------------------------------------
(***************************************************************************)
(* Counting the holders of a packet.                                       *)
(***************************************************************************)

\* Where p stands in a queue, and the holders these places make in each slot.
Places(q, p) == {i \in 1 .. Len(q) : q[i].pkt = p}
Tagged(x, s, I) == {<<x, s, i>> : i \in I}
InSlots(x, q, p) == [s \in Slots |-> Tagged(x, s, Places(q[s], p))]
One(b) == IF b THEN 1 ELSE 0

\* The holders: threads, queues and what is being sent.
ThreadsWith(h, p) == {<<"thread", t, 0>> : t \in {u \in Threads : h[u] = p}}
HoldersOf(h, q, d, p) ==
  (ThreadsWith(h, p) \cup (UNION {InSlots("queue", q, p)[s] : s \in Slots}))
  \cup (UNION {InSlots("sending", d, p)[s] : s \in Slots})

\* They are what PacketHolders counts.
LEMMA HoldersAre ==
  ASSUME NEW p
  PROVE  /\ PacketHolders(p) = HoldersOf(pkt, sendQ, sending, p)
         /\ PacketHolders(p)' = HoldersOf(pkt', sendQ', sending', p)
<1> DEFINE A(x, q) == {{<<x, s, i>> : i \in {j \in 1 .. Len(q[s]) : q[s][j].pkt = p}} : s \in Slots}
           B(x, q) == {InSlots(x, q, p)[s] : s \in Slots}
<1>1. ASSUME NEW x, NEW q
      PROVE  A(x, q) = B(x, q)
  <2> DEFINE C(s) == {<<x, s, i>> : i \in {j \in 1 .. Len(q[s]) : q[s][j].pkt = p}}
  <2>1. \A s \in Slots : C(s) = InSlots(x, q, p)[s]
    BY DEF InSlots, Tagged, Places
  <2> HIDE DEF C
  <2>2. {C(s) : s \in Slots} = {InSlots(x, q, p)[s] : s \in Slots}
    BY <2>1
  <2> QED
    BY <2>2 DEF C
<1>2. PacketHolders(p) =
        (ThreadsWith(pkt, p) \cup (UNION A("queue", sendQ))) \cup (UNION A("sending", sending))
  BY DEF PacketHolders, ThreadsWith
<1>3. PacketHolders(p)' =
        (ThreadsWith(pkt', p) \cup (UNION A("queue", sendQ'))) \cup (UNION A("sending", sending'))
  BY DEF PacketHolders, ThreadsWith
<1>4. \A h, q, d : HoldersOf(h, q, d, p) =
        (ThreadsWith(h, p) \cup (UNION B("queue", q))) \cup (UNION B("sending", d))
  BY Zenon DEF HoldersOf
<1> HIDE DEF A, B
<1> QED
  BY <1>1, <1>2, <1>3, <1>4

\* A function that is one to one and onto.
LEMMA OneToOne ==
  ASSUME NEW S, NEW T, NEW f \in [S -> T], \A a, b \in S : f[a] = f[b] => a = b,
         \A e \in T : \E a \in S : f[a] = e
  PROVE  f \in Bijection(S, T)
BY DEF Bijection, Injection, Surjection, IsInjective

\* The places of a packet can be counted, as RefsIn does.
LEMMA PlacesCount ==
  ASSUME NEW q \in Seq(Entry), NEW p
  PROVE  /\ IsFiniteSet(Places(q, p)) /\ Cardinality(Places(q, p)) \in Nat
         /\ RefsIn(q, Len(q), p) = Cardinality(Places(q, p))
<1>1. Len(q) \in Nat
  OBVIOUS
<1>2. IsFiniteSet(1 .. Len(q))
  BY <1>1, FS_Interval
<1>3. IsFiniteSet(Places(q, p))
  BY <1>2, FS_Subset DEF Places
<1> QED
  BY <1>3, FS_CardinalityType DEF Places, RefsIn

\* A queue holds a packet at each of them.
LEMMA TaggedCount ==
  ASSUME NEW x, NEW s, NEW I, IsFiniteSet(I)
  PROVE  IsFiniteSet(Tagged(x, s, I)) /\ Cardinality(Tagged(x, s, I)) = Cardinality(I)
<1> DEFINE f == [i \in I |-> <<x, s, i>>]
<1>1. f \in Bijection(I, Tagged(x, s, I))
  <2>1. f \in [I -> Tagged(x, s, I)]
    BY DEF Tagged
  <2>2. \A i, j \in I : f[i] = f[j] => i = j
    OBVIOUS
  <2>3. \A e \in Tagged(x, s, I) : \E i \in I : f[i] = e
    BY DEF Tagged
  <2> HIDE DEF f
  <2> QED
    BY <2>1, <2>2, <2>3, OneToOne
<1> QED
  BY <1>1, FS_Bijection DEF ExistsBijection

\* Finitely many finite sets have a finite union.
LEMMA FamilyFinite ==
  ASSUME NEW R, IsFiniteSet(R), NEW F, \A r \in R : IsFiniteSet(F[r])
  PROVE  IsFiniteSet(UNION {F[r] : r \in R})
<1> DEFINE f == [r \in R |-> F[r]]
<1>1. f \in Surjection(R, {F[r] : r \in R})
  BY DEF Surjection
<1>2. IsFiniteSet({F[r] : r \in R})
  <2> HIDE DEF f
  <2> QED
    BY <1>1, FS_Surjection
<1> QED
  BY <1>2, FS_UNION

\* One member of a union, and the others.
LEMMA UnionSplit ==
  ASSUME NEW R, NEW F, NEW s \in R
  PROVE  (UNION {F[r] : r \in R}) = (UNION {F[r] : r \in R \ {s}}) \cup F[s]
<1> DEFINE rest == UNION {F[r] : r \in R \ {s}}
<1>1. ASSUME NEW e \in UNION {F[r] : r \in R}
      PROVE  e \in rest \cup F[s]
  <2>1. PICK r \in R : e \in F[r]
    OBVIOUS
  <2>2. CASE r = s
    <3> HIDE DEF rest
    <3> QED
      BY <2>1, <2>2
  <2>3. CASE r # s
    <3>1. r \in R \ {s}
      BY <2>3
    <3>2. F[r] \in {F[q] : q \in R \ {s}}
      BY <3>1
    <3>3. e \in rest
      BY <2>1, <3>2
    <3> HIDE DEF rest
    <3> QED
      BY <3>3
  <2> QED
    BY <2>2, <2>3
<1>2. ASSUME NEW e \in rest \cup F[s]
      PROVE  e \in UNION {F[r] : r \in R}
  <2>1. PICK r \in R : e \in F[r]
    <3>1. CASE e \in F[s]
      BY <3>1
    <3>2. CASE e \in rest
      <4>1. PICK q \in R \ {s} : e \in F[q]
        BY <3>2
      <4> QED
        BY <4>1
    <3> HIDE DEF rest
    <3>3. e \in rest \/ e \in F[s]
      BY <1>2
    <3> QED
      BY <3>1, <3>2, <3>3
  <2>2. F[r] \in {F[q] : q \in R}
    OBVIOUS
  <2> QED
    BY <2>1, <2>2
<1> DEFINE all == UNION {F[r] : r \in R}
<1>3. \A e : e \in all <=> e \in rest \cup F[s]
  BY <1>1, <1>2
<1>4. all = rest \cup F[s]
  <2> HIDE DEF all, rest
  <2> QED
    BY <1>3
<1> QED
  BY <1>4

\* A packet that is linked takes one place more,
LEMMA PlacesAppend ==
  ASSUME NEW q \in Seq(Entry), NEW e \in Entry, NEW p
  PROVE  Cardinality(Places(Append(q, e), p)) = Cardinality(Places(q, p)) + One(e.pkt = p)
<1>1. /\ Len(q) \in Nat /\ Len(Append(q, e)) = Len(q) + 1 /\ Append(q, e)[Len(q) + 1] = e
      /\ \A i \in 1 .. Len(q) : Append(q, e)[i] = q[i]
  BY AppendEntry
<1>2. \A i : i \in 1 .. Len(q) + 1 <=> i \in 1 .. Len(q) \/ i = Len(q) + 1
  BY <1>1
<1>3. Len(q) + 1 \notin Places(q, p)
  BY <1>1 DEF Places
<1>4. CASE e.pkt = p
  <2>1. Places(Append(q, e), p) = Places(q, p) \cup {Len(q) + 1}
    BY <1>1, <1>2, <1>4 DEF Places
  <2>2. IsFiniteSet(Places(q, p))
    BY PlacesCount
  <2>3. Cardinality(Places(q, p) \cup {Len(q) + 1}) = Cardinality(Places(q, p)) + 1
    BY <1>3, <2>2, FS_AddElement
  <2> QED
    BY <1>4, <2>1, <2>3 DEF One
<1>5. CASE e.pkt # p
  <2>1. Places(Append(q, e), p) = Places(q, p)
    BY <1>1, <1>2, <1>5 DEF Places
  <2> QED
    BY <1>5, <2>1, PlacesCount DEF One
<1> QED
  BY <1>4, <1>5

\* and the one that is taken gives its place up; the others move.
LEMMA PlacesTail ==
  ASSUME NEW q \in Seq(Entry), q # <<>>, NEW p
  PROVE  Cardinality(Places(q, p)) = Cardinality(Places(Tail(q), p)) + One(Head(q).pkt = p)
<1>1. /\ Len(q) \in Nat \ {0} /\ Head(q) = q[1] /\ Len(Tail(q)) = Len(q) - 1 /\ Tail(q) \in Seq(Entry)
      /\ \A i \in 1 .. Len(Tail(q)) : Tail(q)[i] = q[i + 1] /\ i + 1 \in 1 .. Len(q)
  BY TailEntry
<1> DEFINE B == Places(q, p) \ {1}
           f == [i \in Places(Tail(q), p) |-> i + 1]
<1>2. f \in Bijection(Places(Tail(q), p), B)
  <2>1. \A i \in Places(Tail(q), p) : i \in Nat /\ i + 1 \in B
    BY <1>1 DEF Places
  <2>2. \A j \in B : j - 1 \in Places(Tail(q), p) /\ (j - 1) + 1 = j
    BY <1>1 DEF Places
  <2>3. f \in [Places(Tail(q), p) -> B]
    BY <2>1
  <2>4. \A i, j \in Places(Tail(q), p) : f[i] = f[j] => i = j
    BY <2>1
  <2>5. \A j \in B : \E i \in Places(Tail(q), p) : f[i] = j
    BY <2>2
  <2> HIDE DEF f, B
  <2> QED
    BY <2>3, <2>4, <2>5, OneToOne
<1>3. Cardinality(B) = Cardinality(Places(Tail(q), p))
  BY <1>1, <1>2, PlacesCount, FS_Bijection DEF ExistsBijection
<1>4. 1 \in Places(q, p) <=> Head(q).pkt = p
  BY <1>1 DEF Places
<1> QED
  <2> HIDE DEF f
  <2>1. Cardinality(B) = IF 1 \in Places(q, p) THEN Cardinality(Places(q, p)) - 1 ELSE Cardinality(Places(q, p))
    BY PlacesCount, FS_RemoveElement
  <2>2. Cardinality(Places(q, p)) \in Nat
    BY PlacesCount
  <2> HIDE DEF B
  <2> QED
    BY <1>3, <1>4, <2>1, <2>2 DEF One

\* The holders, but for those in slot s.
Others(h, q, d, p, s) ==
  (ThreadsWith(h, p) \cup (UNION {InSlots("queue", q, p)[r] : r \in Slots \ {s}}))
  \cup (UNION {InSlots("sending", d, p)[r] : r \in Slots \ {s}})

\* The holders of a packet are those elsewhere, and its places in the slot.
Counted(h, q, d, p, s) ==
  /\ IsFiniteSet(HoldersOf(h, q, d, p))
  /\ Cardinality(Others(h, q, d, p, s)) \in Nat
  /\ Cardinality(HoldersOf(h, q, d, p)) =
       Cardinality(Others(h, q, d, p, s)) + Cardinality(Places(q[s], p))
         + Cardinality(Places(d[s], p))

LEMMA HoldersCount ==
  ASSUME NEW h, NEW q \in [Slots -> Seq(Entry)], NEW d \in [Slots -> Seq(Entry)], NEW p,
         NEW s \in Slots
  PROVE  Counted(h, q, d, p, s)
<1> DEFINE T == {u \in Threads : h[u] = p}
           HT == ThreadsWith(h, p)
           FQ == InSlots("queue", q, p)
           FD == InSlots("sending", d, p)
           UQ == UNION {FQ[r] : r \in Slots \ {s}}
           UD == UNION {FD[r] : r \in Slots \ {s}}
           O == Others(h, q, d, p, s)
<1>1. IsFiniteSet(HT)
  <2>1. IsFiniteSet(T)
    BY ThreadAssumption, FS_Subset
  <2> DEFINE f == [t \in T |-> <<"thread", t, 0>>]
  <2>2. f \in Surjection(T, HT)
    BY DEF Surjection, ThreadsWith
  <2> HIDE DEF f, T
  <2> QED
    BY <2>1, <2>2, FS_Surjection
<1>2. \A r \in Slots : /\ IsFiniteSet(FQ[r]) /\ Cardinality(FQ[r]) = Cardinality(Places(q[r], p))
                       /\ IsFiniteSet(FD[r]) /\ Cardinality(FD[r]) = Cardinality(Places(d[r], p))
  BY PlacesCount, TaggedCount DEF InSlots
<1>3. IsFiniteSet(Slots \ {s})
  <2>1. MaxSessionCount - 1 \in Int
    BY BoundAssumption
  <2>2. IsFiniteSet(Slots)
    BY <2>1, FS_Interval
  <2> QED
    BY <2>2, FS_Difference
<1>4. IsFiniteSet(UQ) /\ IsFiniteSet(UD)
  <2> HIDE DEF FQ, FD
  <2> QED
    BY <1>2, <1>3, FamilyFinite
<1>5. O = (HT \cup UQ) \cup UD
  BY DEF Others
<1>6. IsFiniteSet(O)
  <2> HIDE DEF O, HT, UQ, UD
  <2>1. IsFiniteSet(HT \cup UQ)
    BY <1>1, <1>4, FS_Union
  <2> DEFINE C == HT \cup UQ
  <2> HIDE DEF C
  <2>2. IsFiniteSet(C \cup UD)
    BY <1>4, <2>1, FS_Union DEF C
  <2> QED
    BY <1>5, <2>2 DEF C
<1>7. HoldersOf(h, q, d, p) = (O \cup FQ[s]) \cup FD[s]
  <2> DEFINE AQ == UNION {FQ[r] : r \in Slots}
             AD == UNION {FD[r] : r \in Slots}
  <2>1. HoldersOf(h, q, d, p) = HT \cup AQ \cup AD
    BY DEF HoldersOf
  <2> HIDE DEF FQ, FD, HT, O
  <2>2. AQ = UQ \cup FQ[s]
    BY UnionSplit
  <2>3. AD = UD \cup FD[s]
    BY UnionSplit
  <2> HIDE DEF AQ, AD, UQ, UD
  <2> QED
    BY <1>5, <2>1, <2>2, <2>3
<1>8. O \cap FQ[s] = {} /\ (O \cup FQ[s]) \cap FD[s] = {}
  <2>1. \A e \in FQ[s] : e[1] = "queue" /\ e[2] = s
    BY DEF InSlots, Tagged
  <2>2. \A e \in FD[s] : e[1] = "sending" /\ e[2] = s
    BY DEF InSlots, Tagged
  <2>3. ASSUME NEW e \in O
        PROVE  e[1] = "thread" \/ (e[1] \in {"queue", "sending"} /\ e[2] \in Slots \ {s})
    <3>1. CASE e \in HT
      BY <3>1 DEF ThreadsWith
    <3>2. CASE e \in UQ
      <4>1. PICK r \in Slots \ {s} : e \in FQ[r]
        BY <3>2
      <4>2. e \in Tagged("queue", r, Places(q[r], p))
        BY <4>1 DEF InSlots
      <4> QED
        BY <4>2 DEF Tagged
    <3>3. CASE e \in UD
      <4>1. PICK r \in Slots \ {s} : e \in FD[r]
        BY <3>3
      <4>2. e \in Tagged("sending", r, Places(d[r], p))
        BY <4>1 DEF InSlots
      <4> QED
        BY <4>2 DEF Tagged
    <3> HIDE DEF O, HT, FQ, FD, UQ, UD
    <3>4. e \in HT \/ e \in UQ \/ e \in UD
      BY <1>5
    <3> QED
      BY <3>1, <3>2, <3>3, <3>4
  <2> HIDE DEF O, FQ, FD
  <2> QED
    BY <2>1, <2>2, <2>3
<1> HIDE DEF O, HT, FQ, FD
<1>9. /\ IsFiniteSet(O \cup FQ[s])
      /\ Cardinality(O \cup FQ[s]) = Cardinality(O) + Cardinality(FQ[s]) - Cardinality({})
  BY <1>2, <1>6, <1>8, FS_Union
<1>10. /\ IsFiniteSet((O \cup FQ[s]) \cup FD[s])
       /\ Cardinality((O \cup FQ[s]) \cup FD[s]) =
            Cardinality(O \cup FQ[s]) + Cardinality(FD[s]) - Cardinality({})
  <2> DEFINE C == O \cup FQ[s]
  <2>1. IsFiniteSet(C) /\ IsFiniteSet(FD[s]) /\ C \cap FD[s] = {}
    BY <1>2, <1>8, <1>9
  <2> HIDE DEF C
  <2>2. /\ IsFiniteSet(C \cup FD[s])
        /\ Cardinality(C \cup FD[s]) = Cardinality(C) + Cardinality(FD[s]) - Cardinality({})
    BY <2>1, FS_Union
  <2> QED
    BY <2>2 DEF C
<1>11. Cardinality({}) = 0 /\ Cardinality(O) \in Nat
  BY <1>6, FS_EmptySet, FS_CardinalityType
<1>12. Cardinality(Places(q[s], p)) \in Nat /\ Cardinality(Places(d[s], p)) \in Nat
  BY PlacesCount
<1>13. O = Others(h, q, d, p, s)
  BY DEF O
<1> QED
  <2>1. IsFiniteSet(HoldersOf(h, q, d, p))
    BY <1>7, <1>10
  <2>2. Cardinality(HoldersOf(h, q, d, p)) =
          Cardinality(O) + Cardinality(Places(q[s], p)) + Cardinality(Places(d[s], p))
    BY <1>2, <1>7, <1>9, <1>10, <1>11, <1>12
  <2> QED
    BY <1>11, <1>13, <2>1, <2>2 DEF Counted

----------------------------------------------------------------------------
(***************************************************************************)
(* The reference count of a packet.                                        *)
(***************************************************************************)

\* The steps that take or give back a packet, or move one.
PacketStep(t) ==
  \/ CallSendPacket(t) \/ FreePacket(t) \/ EnqLink(t) \/ SpSize(t) \/ SpDeq(t)
  \/ SdFree(t) \/ RelFree(t) \/ AcInit(t)

\* The others leave packets alone.
LEMMA PacketQuiet ==
  ASSUME NEW t \in Threads, Moves(t), ~PacketStep(t)
  PROVE  UNCHANGED <<ref, pkt, sendQ, sending>>
  BY DEF Moves, Step, PacketStep, CallDisconnect, AcqInc, AcqCheck, DcClose, RetDec, RelCas,
    RelClose, RelNotify, RelPush, RecvPost, SpSend, SpRecheck, RpEnd, Accept, AcPop, AcFull,
    AcReject, AcInc, AcClear, AcCount, AcNotify, AcIncRecv, EnqSize, SpXchg, SpClear, SpUndo, SpInc,
    SdClear, Complete, sendVars

\* What a step that only touches slot s and no thread's packet does to the
\* number of holders.
LEMMA HoldersMove ==
  ASSUME SendTypeOK, SendTypeOK', NEW s \in Slots, UNCHANGED pkt,
         \A r \in Slots \ {s} : sendQ'[r] = sendQ[r] /\ sending'[r] = sending[r],
         NEW p
  PROVE  \E n \in Nat :
           /\ Cardinality(PacketHolders(p)) =
                n + Cardinality(Places(sendQ[s], p)) + Cardinality(Places(sending[s], p))
           /\ Cardinality(PacketHolders(p)') =
                n + Cardinality(Places(sendQ'[s], p)) + Cardinality(Places(sending'[s], p))
<1> DEFINE n == Cardinality(Others(pkt, sendQ, sending, p, s))
<1>1. /\ PacketHolders(p) = HoldersOf(pkt, sendQ, sending, p)
      /\ PacketHolders(p)' = HoldersOf(pkt', sendQ', sending', p)
  BY HoldersAre
<1>2. Others(pkt', sendQ', sending', p, s) = Others(pkt, sendQ, sending, p, s)
  <2>1. \A x : \A r \in Slots \ {s} : /\ InSlots(x, sendQ', p)[r] = InSlots(x, sendQ, p)[r]
                                      /\ InSlots(x, sending', p)[r] = InSlots(x, sending, p)[r]
    BY DEF InSlots
  <2> QED
    BY <2>1 DEF Others
<1>3. /\ sendQ \in [Slots -> Seq(Entry)] /\ sending \in [Slots -> Seq(Entry)]
      /\ sendQ' \in [Slots -> Seq(Entry)] /\ sending' \in [Slots -> Seq(Entry)]
  BY DEF SendTypeOK
<1>4. Counted(pkt, sendQ, sending, p, s)
  BY <1>3, HoldersCount
<1>5. Counted(pkt', sendQ', sending', p, s)
  BY <1>3, HoldersCount
<1>6. n \in Nat /\ Cardinality(PacketHolders(p)) =
                      n + Cardinality(Places(sendQ[s], p)) + Cardinality(Places(sending[s], p))
  BY <1>1, <1>4 DEF Counted
<1>7. Cardinality(PacketHolders(p)') =
        n + Cardinality(Places(sendQ'[s], p)) + Cardinality(Places(sending'[s], p))
  BY <1>1, <1>2, <1>5 DEF Counted
<1> HIDE DEF n
<1> QED
  BY <1>6, <1>7

\* What a step on the send path of its slot finds.
LEMMA PacketStepFacts ==
  ASSUME SafeInv, QueueInv, NEW t \in Threads, NEW s, s = slot[t],
         EnqLink(t) \/ SpSize(t) \/ SpDeq(t) \/ SdFree(t) \/ RelFree(t) \/ AcInit(t)
  PROVE  /\ Here(t, s) /\ SendTypeOK' /\ UNCHANGED pkt
         /\ \A r \in Slots \ {s} : sendQ'[r] = sendQ[r] /\ sending'[r] = sending[r]
         /\ \A p : /\ Cardinality(Places(sendQ[s], p)) \in Nat
                   /\ Cardinality(Places(sending[s], p)) \in Nat
                   /\ Cardinality(Places(<<>>, p)) = 0
         /\ ref \in [Packets -> Int]
<1>1. Here(t, s) /\ TypeInv /\ Moves(t)
  BY QueueStepFacts DEF QueueStep, SafeInv, Moves, Step
<1>2. \A r \in Slots \ {s} : sendQ'[r] = sendQ[r] /\ sending'[r] = sending[r]
  BY <1>1, QueueStepSlot DEF QueueStep, Same
<1>3. [Next]_vars
  BY DEF Next, Step
<1>4. SendTypeOK'
  BY <1>1, <1>3, SendStep
<1>5. UNCHANGED pkt
  BY DEF EnqLink, SpSize, SpDeq, SdFree, RelFree, AcInit
<1>6. \A p : Places(<<>>, p) = {}
  BY DEF Places
<1>7. \A p : /\ Cardinality(Places(sendQ[s], p)) \in Nat
             /\ Cardinality(Places(sending[s], p)) \in Nat
             /\ Cardinality(Places(<<>>, p)) = 0
  BY <1>1, <1>6, PlacesCount, FS_EmptySet DEF Here
<1> QED
  BY <1>1, <1>2, <1>4, <1>5, <1>7 DEF TypeInv, TypeOK, ServerTypeOK

\* SendPacket takes the reference of the queue.
LEMMA EnqLinkRefs ==
  ASSUME SafeInv, QueueInv, PacketRefs, NEW t \in Threads, EnqLink(t), NEW s, s = slot[t]
  PROVE  PacketRefs'
<1> SUFFICES ASSUME NEW p \in Packets
             PROVE  ref'[p] = Cardinality(PacketHolders(p)')
  BY DEF PacketRefs
<1>1. /\ Here(t, s) /\ SendTypeOK' /\ UNCHANGED pkt /\ ref \in [Packets -> Int]
      /\ \A r \in Slots \ {s} : sendQ'[r] = sendQ[r] /\ sending'[r] = sending[r]
  BY PacketStepFacts
<1> DEFINE e == [pkt |-> pkt[t], to |-> arg[t]]
<1>2. e \in Entry
  BY <1>1 DEF Here, ThreadOK, CallOK, Entry, EnqLink, At
<1>3. sendQ'[s] = Append(sendQ[s], e) /\ sending' = sending /\ sendQ[s] \in Seq(Entry)
  BY <1>1 DEF Here, EnqLink, SendTypeOK
<1>4. ref'[p] = ref[p] + One(e.pkt = p)
  BY <1>1, <1>2 DEF EnqLink, One, Entry
<1>5. PICK n \in Nat :
           /\ Cardinality(PacketHolders(p)) =
                n + Cardinality(Places(sendQ[s], p)) + Cardinality(Places(sending[s], p))
           /\ Cardinality(PacketHolders(p)') =
                n + Cardinality(Places(sendQ'[s], p)) + Cardinality(Places(sending'[s], p))
  BY <1>1, HoldersMove DEF Here
<1>6. /\ Cardinality(Places(sendQ'[s], p)) = Cardinality(Places(sendQ[s], p)) + One(e.pkt = p)
      /\ Cardinality(Places(sendQ[s], p)) \in Nat /\ Cardinality(Places(sending[s], p)) \in Nat
  <2>1. Cardinality(Places(Append(sendQ[s], e), p)) = Cardinality(Places(sendQ[s], p)) + One(e.pkt = p)
    <3> HIDE DEF e
    <3> QED
      BY <1>2, <1>3, PlacesAppend
  <2>2. Cardinality(Places(sendQ[s], p)) \in Nat /\ Cardinality(Places(sending[s], p)) \in Nat
    BY PacketStepFacts
  <2> QED
    BY <1>3, <2>1, <2>2
<1>7. ref[p] = Cardinality(PacketHolders(p)) /\ One(e.pkt = p) \in Nat
  BY DEF PacketRefs, One
<1> QED
  BY <1>3, <1>4, <1>5, <1>6, <1>7

\* Dequeue takes a packet out of the queue, with its reference; a step that
\* leaves what lies in the slot as it is changes nothing.
LEMMA MoveRefs ==
  ASSUME SafeInv, QueueInv, PacketRefs, NEW t \in Threads, SpSize(t) \/ SpDeq(t) \/ AcInit(t),
         NEW s, s = slot[t]
  PROVE  PacketRefs'
<1> SUFFICES ASSUME NEW p \in Packets
             PROVE  ref'[p] = Cardinality(PacketHolders(p)')
  BY DEF PacketRefs
<1>1. /\ Here(t, s) /\ SendTypeOK' /\ UNCHANGED pkt /\ ref \in [Packets -> Int]
      /\ \A r \in Slots \ {s} : sendQ'[r] = sendQ[r] /\ sending'[r] = sending[r]
      /\ Cardinality(Places(sendQ[s], p)) \in Nat /\ Cardinality(Places(sending[s], p)) \in Nat
  BY PacketStepFacts
<1>2. ref' = ref /\ ref[p] = Cardinality(PacketHolders(p))
  BY DEF PacketRefs, SpSize, SpDeq, AcInit
<1>3. PICK n \in Nat :
           /\ Cardinality(PacketHolders(p)) =
                n + Cardinality(Places(sendQ[s], p)) + Cardinality(Places(sending[s], p))
           /\ Cardinality(PacketHolders(p)') =
                n + Cardinality(Places(sendQ'[s], p)) + Cardinality(Places(sending'[s], p))
  BY <1>1, HoldersMove DEF Here
<1>4. CASE sendQ'[s] = sendQ[s] /\ sending'[s] = sending[s]
  BY <1>2, <1>3, <1>4
<1>5. CASE /\ sendQ[s] # <<>> /\ sendQ'[s] = Tail(sendQ[s])
           /\ sending'[s] = Append(sending[s], Head(sendQ[s]))
  <2>1. sendQ[s] \in Seq(Entry) /\ sending[s] \in Seq(Entry) /\ Head(sendQ[s]) \in Entry
    BY <1>1, <1>5, TailEntry DEF Here
  <2>2. /\ Cardinality(Places(sendQ[s], p)) =
             Cardinality(Places(Tail(sendQ[s]), p)) + One(Head(sendQ[s]).pkt = p)
        /\ Cardinality(Places(Append(sending[s], Head(sendQ[s])), p)) =
             Cardinality(Places(sending[s], p)) + One(Head(sendQ[s]).pkt = p)
        /\ One(Head(sendQ[s]).pkt = p) \in Nat
    BY <1>5, <2>1, PlacesTail, PlacesAppend DEF One
  <2>3. Cardinality(Places(Tail(sendQ[s]), p)) \in Nat
    BY <1>5, <2>1, TailEntry, PlacesCount
  <2> QED
    BY <1>1, <1>2, <1>3, <1>5, <2>2, <2>3
<1>6. CASE SpSize(t)
  <2>1. sending[s] = <<>>
    BY <1>1, <1>6 DEF Here, QueueOK, SendingOK, On, SpSize, At
  <2>2. sending'[s] = sending[s] /\ sendQ' = sendQ
    BY <1>1, <1>6, <2>1 DEF Here, SpSize, SendTypeOK
  <2> QED
    BY <1>4, <2>2
<1>7. CASE AcInit(t)
  <2>1. sending[s] = <<>>
    BY <1>7, AcInitFinds DEF AcInit, At
  <2>2. sending'[s] = sending[s] /\ sendQ' = sendQ
    BY <1>1, <1>7, <2>1 DEF Here, AcInit, SendTypeOK
  <2> QED
    BY <1>4, <2>2
<1>8. CASE SpDeq(t)
  BY <1>1, <1>4, <1>5, <1>8 DEF Here, SpDeq, SendTypeOK
<1> QED
  BY <1>6, <1>7, <1>8

\* SendProc gives back what was sent, ReleaseSession all that is left.
LEMMA FreeRefs ==
  ASSUME SafeInv, QueueInv, PacketRefs, NEW t \in Threads, SdFree(t) \/ RelFree(t),
         NEW s, s = slot[t]
  PROVE  PacketRefs'
<1> SUFFICES ASSUME NEW p \in Packets
             PROVE  ref'[p] = Cardinality(PacketHolders(p)')
  BY DEF PacketRefs
<1>1. /\ Here(t, s) /\ SendTypeOK' /\ UNCHANGED pkt /\ ref \in [Packets -> Int]
      /\ \A r \in Slots \ {s} : sendQ'[r] = sendQ[r] /\ sending'[r] = sending[r]
      /\ Cardinality(Places(sendQ[s], p)) \in Nat /\ Cardinality(Places(sending[s], p)) \in Nat
      /\ Cardinality(Places(<<>>, p)) = 0
  BY PacketStepFacts
<1>2. ref[p] = Cardinality(PacketHolders(p))
  BY DEF PacketRefs
<1>3. PICK n \in Nat :
           /\ Cardinality(PacketHolders(p)) =
                n + Cardinality(Places(sendQ[s], p)) + Cardinality(Places(sending[s], p))
           /\ Cardinality(PacketHolders(p)') =
                n + Cardinality(Places(sendQ'[s], p)) + Cardinality(Places(sending'[s], p))
  BY <1>1, HoldersMove DEF Here
<1>4. RefsIn(sending[s], sendingCount[s], p) = Cardinality(Places(sending[s], p))
  <2>1. \A u \in Threads : ~On(u, s, {"SpDeq", "SpUndo", "SpInc"})
    <3>1. CASE SdFree(t)
      BY <1>1, <3>1 DEF Here, On, SendTurn, SdFree, At
    <3>2. CASE RelFree(t)
      <4>1. flag[s]
        BY <3>2, RelFreeEmpties
      <4> QED
        BY <4>1 DEF SafeInv, LiveOK, Relies, LiveLabels, On
    <3> QED
      BY <3>1, <3>2
  <2>2. sendingCount[s] = Len(sending[s]) /\ sending[s] \in Seq(Entry)
    BY <1>1, <2>1 DEF Here, QueueOK, SendingOK
  <2> QED
    BY <2>2, PlacesCount
<1>5. CASE SdFree(t)
  <2>1. sending'[s] = <<>> /\ sendQ' = sendQ
    BY <1>1, <1>5 DEF Here, SdFree, SendTypeOK
  <2>2. ref'[p] = ref[p] - RefsIn(sending[s], sendingCount[s], p)
    BY <1>5 DEF SdFree
  <2> QED
    BY <1>1, <1>2, <1>3, <1>4, <2>1, <2>2
<1>6. CASE RelFree(t)
  <2>1. sending'[s] = <<>> /\ sendQ'[s] = <<>> /\ qsize[s] = Len(sendQ[s]) /\ sendQ[s] \in Seq(Entry)
    BY <1>6, RelFreeEmpties DEF Here
  <2>2. ref'[p] = ref[p] - RefsIn(sending[s], sendingCount[s], p) - RefsIn(sendQ[s], qsize[s], p)
    <3>1. ~(qsize[s] < 0)
      BY <2>1
    <3> QED
      BY <1>6, <3>1 DEF RelFree
  <2>3. RefsIn(sendQ[s], qsize[s], p) = Cardinality(Places(sendQ[s], p))
    BY <2>1, PlacesCount
  <2> QED
    BY <1>1, <1>2, <1>3, <1>4, <2>1, <2>2, <2>3
<1> QED
  BY <1>5, <1>6

\* Alloc and Free: a thread takes the packet it allocates, and gives it back.
LEMMA ThreadRefsStep ==
  ASSUME SafeInv, PacketRefs, NEW t \in Threads, CallSendPacket(t) \/ FreePacket(t)
  PROVE  PacketRefs'
<1> SUFFICES ASSUME NEW p \in Packets
             PROVE  ref'[p] = Cardinality(PacketHolders(p)')
  BY DEF PacketRefs
<1>1. ThreadTypeOK /\ SendTypeOK /\ ref \in [Packets -> Int]
  BY DEF SafeInv, TypeInv, TypeOK, ServerTypeOK
<1>2. UNCHANGED <<sendQ, sending>>
  BY DEF CallSendPacket, FreePacket, sendVars
<1>3. IsFiniteSet(PacketHolders(p)) /\ ref[p] = Cardinality(PacketHolders(p))
  <2>1. 0 \in Slots
    BY BoundAssumption
  <2>2. Counted(pkt, sendQ, sending, p, 0)
    BY <1>1, <2>1, HoldersCount DEF SendTypeOK
  <2> QED
    BY <2>2, HoldersAre DEF Counted, PacketRefs
<1> DEFINE me == <<"thread", t, 0>>
           FQ == InSlots("queue", sendQ, p)
           FD == InSlots("sending", sending, p)
           UQ == UNION {FQ[r] : r \in Slots}
           UD == UNION {FD[r] : r \in Slots}
           rest == UQ \cup UD
           holders(h) == ThreadsWith(h, p)
<1>4. PacketHolders(p) = holders(pkt) \cup rest /\ PacketHolders(p)' = holders(pkt') \cup rest
  <2>1. /\ PacketHolders(p) = HoldersOf(pkt, sendQ, sending, p)
        /\ PacketHolders(p)' = HoldersOf(pkt', sendQ, sending, p)
    BY <1>2, HoldersAre
  <2>2. \A h : HoldersOf(h, sendQ, sending, p) = (holders(h) \cup UQ) \cup UD
    BY DEF HoldersOf
  <2> HIDE DEF holders, UQ, UD
  <2> QED
    BY <2>1, <2>2
<1>5. me \notin rest /\ (me \in holders(pkt) <=> pkt[t] = p)
  <2>1. \A r \in Slots : \A e : e \in FQ[r] \/ e \in FD[r] => e[1] # "thread"
    BY DEF InSlots, Tagged
  <2>3. ASSUME NEW e \in rest
        PROVE  e[1] # "thread"
    <3> HIDE DEF FQ, FD
    <3>1. CASE e \in UQ
      <4>1. PICK r \in Slots : e \in FQ[r]
        BY <3>1
      <4> QED
        BY <2>1, <4>1
    <3>2. CASE e \in UD
      <4>1. PICK r \in Slots : e \in FD[r]
        BY <3>2
      <4> QED
        BY <2>1, <4>1
    <3> HIDE DEF UQ, UD
    <3>3. e \in UQ \/ e \in UD
      OBVIOUS
    <3> QED
      BY <3>1, <3>2, <3>3
  <2>4. me[1] = "thread" /\ me[2] = t
    OBVIOUS
  <2>5. \A e \in holders(pkt) : e[2] \in Threads /\ pkt[e[2]] = p
    BY DEF ThreadsWith
  <2>6. pkt[t] = p => me \in holders(pkt)
    BY DEF ThreadsWith
  <2> HIDE DEF rest, me, holders
  <2> QED
    BY <2>3, <2>4, <2>5, <2>6
<1>6. ASSUME NEW x \in Packets \cup {NoPacket}, pkt' = [pkt EXCEPT ![t] = x]
      PROVE  /\ x = p => PacketHolders(p)' = PacketHolders(p) \cup {me}
             /\ x # p => PacketHolders(p)' = PacketHolders(p) \ {me}
  <2> HIDE DEF rest
  <2>1. x = p => holders(pkt') = holders(pkt) \cup {me}
    BY <1>1, <1>6 DEF ThreadTypeOK, ThreadsWith
  <2>2. x # p => holders(pkt') = holders(pkt) \ {me}
    BY <1>1, <1>6 DEF ThreadTypeOK, ThreadsWith
  <2> HIDE DEF holders, me
  <2> QED
    BY <1>4, <1>5, <2>1, <2>2
<1>7. me \in PacketHolders(p) <=> pkt[t] = p
  BY <1>4, <1>5
<1> HIDE DEF me
<1>8. /\ Cardinality(PacketHolders(p) \cup {me}) =
           IF me \in PacketHolders(p) THEN Cardinality(PacketHolders(p)) ELSE Cardinality(PacketHolders(p)) + 1
      /\ Cardinality(PacketHolders(p) \ {me}) =
           IF me \in PacketHolders(p) THEN Cardinality(PacketHolders(p)) - 1 ELSE Cardinality(PacketHolders(p))
  BY <1>3, FS_AddElement, FS_RemoveElement
<1>9. CASE UNCHANGED <<pkt, ref>>
  BY <1>3, <1>4, <1>9
<1>10. ASSUME NEW x \in Packets, pkt[t] = NoPacket, pkt' = [pkt EXCEPT ![t] = x], ref[x] = 0,
              ref' = [ref EXCEPT ![x] = 1]
       PROVE  ref'[p] = Cardinality(PacketHolders(p)')
  <2>1. me \notin PacketHolders(p)
    BY <1>7, <1>10, DataAssumption
  <2>2. CASE x = p
    <3>1. PacketHolders(p)' = PacketHolders(p) \cup {me} /\ ref'[p] = 1 /\ ref[p] = 0
      BY <1>1, <1>6, <1>10, <2>2
    <3> QED
      BY <1>3, <1>8, <2>1, <3>1
  <2>3. CASE x # p
    <3>1. PacketHolders(p)' = PacketHolders(p) \ {me}
      BY <1>6, <1>10, <2>3
    <3>2. ref'[p] = ref[p]
      BY <1>1, <1>10, <2>3
    <3> QED
      BY <1>3, <1>8, <2>1, <3>1, <3>2
  <2> QED
    BY <2>2, <2>3
<1>11. ASSUME pkt[t] # NoPacket, pkt' = [pkt EXCEPT ![t] = NoPacket],
              ref' = [ref EXCEPT ![pkt[t]] = ref[pkt[t]] - 1]
       PROVE  ref'[p] = Cardinality(PacketHolders(p)')
  <2>1. pkt[t] \in Packets /\ NoPacket # p
    BY <1>1, <1>11, DataAssumption DEF ThreadTypeOK
  <2> QED
    BY <1>1, <1>3, <1>6, <1>7, <1>8, <1>11, <2>1
<1>12. CASE CallSendPacket(t)
  BY <1>9, <1>10, <1>12 DEF CallSendPacket
<1>13. CASE FreePacket(t)
  BY <1>11, <1>13 DEF FreePacket
<1> QED
  BY <1>12, <1>13

\* Every step keeps the count of every packet.
LEMMA PacketRefsStep ==
  SafeInv /\ QueueInv /\ PacketRefs /\ [Next]_vars => PacketRefs'
<1> SUFFICES ASSUME SafeInv, QueueInv, PacketRefs, [Next]_vars
             PROVE  PacketRefs'
  OBVIOUS
<1>1. ASSUME UNCHANGED <<ref, pkt, sendQ, sending>>
      PROVE  PacketRefs'
  BY <1>1 DEF PacketRefs, PacketHolders
<1>2. ASSUME NEW t \in Threads, Moves(t)
      PROVE  PacketRefs'
  <2>1. CASE ~PacketStep(t)
    BY <1>1, <1>2, <2>1, PacketQuiet
  <2>2. CASE PacketStep(t)
    BY <2>2, EnqLinkRefs, MoveRefs, FreeRefs, ThreadRefsStep DEF PacketStep
  <2> QED
    BY <2>1, <2>2
<1>3. CASE UNCHANGED vars
  BY <1>1, <1>3 DEF vars, sendVars
<1>4. ASSUME NEW s \in Slots, NEW ty \in IoTypes, IoDone(s, ty)
      PROVE  PacketRefs'
  BY <1>1, <1>4 DEF IoDone, sendVars
<1>5. ASSUME NEW c \in Conns, PeerReset(c)
      PROVE  PacketRefs'
  BY <1>1, <1>5 DEF PeerReset, sendVars
<1> QED
  BY <1>2, <1>3, <1>4, <1>5, NextCases

\* A packet's reference count is the number of its holders: SendPacket, the
\* moves into sendingPackets, SendProc and ReleaseSession neither give a packet
\* back while a queue or a WSASend still needs it nor keep one for ever.
THEOREM PacketRefsExact == Spec => []PacketRefs
<1>1. Init => PacketRefs
  <2> SUFFICES ASSUME Init, NEW p \in Packets
               PROVE  PacketHolders(p) = {} /\ ref[p] = 0
    BY FS_EmptySet DEF PacketRefs
  <2>1. \A t \in Threads : pkt[t] # p
    BY DataAssumption DEF Init
  <2>2. \A s \in Slots : sendQ[s] = <<>> /\ sending[s] = <<>>
    BY DEF Init
  <2> QED
    BY <2>1, <2>2 DEF Init, PacketHolders
<1>2. Spec => [](SafeInv /\ QueueInv)
  BY Safe, Queues, PTL
<1> QED
  BY <1>1, <1>2, PacketRefsStep, PTL DEF Spec

----------------------------------------------------------------------------
(***************************************************************************)
(* The callbacks: their inductive invariant.                               *)
(***************************************************************************)

\* A session has its ID and the application does not know of it yet.
Fresh(t) == pc[t] \in {"AcInc", "AcClear", "AcCount", "AcNotify"}

\* It is live, and the application is about to be told.
Telling(t) == pc[t] \in {"AcCount", "AcNotify"}

\* It is out of circulation and the application has not been told.
LeavingLabels == {"RelClose", "RelFree", "RelNotify"}
Leaving(t)    == pc[t] \in LeavingLabels

Live == accepted \ released

\* IDs grow, and name their slot; a fresh session has nothing to send.
FreshOK ==
  /\ \A id \in accepted : id[1] <= gen
  /\ \A s \in Slots : sessionID[s] \in Ids => sessionID[s][2] = s
  /\ \A t \in Threads : Fresh(t) =>
       /\ sessionID[slot[t]][1] = gen /\ \A id \in accepted : id[1] < gen
       /\ sendQ[slot[t]] = <<>> /\ sending[slot[t]] = <<>>

\* What is live is known to the application, or it is being told.
LiveKnown ==
  \A s \in Slots : ~flag[s] =>
    sessionID[s] \in Live \/ \E t \in Threads : Telling(t) /\ slot[t] = s

\* What leaves is still known, and what is known is live or leaves.
LeavingKnown == \A t \in Threads : Leaving(t) => sessionID[slot[t]] \in Live
KnownPlaced  ==
  \A id \in Live : /\ sessionID[id[2]] = id
                   /\ ~flag[id[2]] \/ \E t \in Threads : Leaving(t) /\ slot[t] = id[2]

KnownOK == released \subseteq accepted /\ LiveKnown /\ LeavingKnown /\ KnownPlaced

\* Calls are for sessions the application was told of.
ArgLabels == {"AcqInc", "AcqCheck", "DcClose", "EnqLink"}
ArgOK     == \A t \in Threads : pc[t] \in ArgLabels => arg[t] \in accepted

ServiceInv == FreshOK /\ KnownOK /\ ArgOK /\ SessionCountExact

----------------------------------------------------------------------------
(***************************************************************************)
(* Which steps matter.                                                     *)
(***************************************************************************)

\* The compare-and-swap that finds nobody.
CasWins(t) == RelCas(t) /\ pc'[t] = "RelClose"

\* The steps of a slot's way in and out of circulation.
KeyStep(t) ==
  \/ AcInit(t) \/ AcInc(t) \/ AcClear(t) \/ AcCount(t) \/ AcNotify(t)
  \/ CasWins(t) \/ RelClose(t) \/ RelFree(t) \/ RelNotify(t)

\* The others are neither on that way nor tell the application anything.
LEMMA QuietSteps ==
  ASSUME TypeInv, NEW t \in Threads, Moves(t), ~KeyStep(t)
  PROVE  /\ UNCHANGED <<accepted, released, gen, sessionCount, sessionID, flag>>
         /\ ~Fresh(t) /\ ~Fresh(t)' /\ ~Leaving(t) /\ ~Leaving(t)'
<1>1. ThreadTypeOK /\ ThreadOK(t)
  BY DEF TypeInv, TypeOK, ControlOK
<1> USE DEF At, Goto, Leave, callVars, lifeVars, poolVars, history, ThreadTypeOK, ThreadOK, HomeOK,
        Fresh, Leaving, LeavingLabels
<1>2. CASE CallSendPacket(t)
  BY <1>1, <1>2 DEF CallSendPacket, MayCall, Call
<1>3. CASE CallDisconnect(t)
  BY <1>1, <1>3 DEF CallDisconnect, MayCall, Call
<1>4. CASE FreePacket(t)
  BY <1>1, <1>4 DEF FreePacket
<1>5. CASE AcqInc(t)
  BY <1>1, <1>5 DEF AcqInc
<1>6. CASE AcqCheck(t)
  BY <1>1, <1>6 DEF AcqCheck
<1>7. CASE DcClose(t)
  BY <1>1, <1>7 DEF DcClose
<1>8. CASE EnqLink(t)
  BY <1>1, <1>8 DEF EnqLink
<1>9. CASE EnqSize(t)
  BY <1>1, <1>9 DEF EnqSize
<1>10. CASE RetDec(t)
  BY <1>1, <1>10 DEF RetDec
<1>30. CASE RelCas(t)
  BY <1>1, <1>30 DEF RelCas, CasWins, KeyStep
<1>11. CASE RelPush(t)
  BY <1>1, <1>11 DEF RelPush
<1>12. CASE RecvPost(t)
  BY <1>1, <1>12 DEF RecvPost, Post
<1>13. CASE SpXchg(t)
  BY <1>1, <1>13 DEF SpXchg
<1>14. CASE SpSize(t)
  BY <1>1, <1>14 DEF SpSize
<1>15. CASE SpClear(t)
  BY <1>1, <1>15 DEF SpClear
<1>16. CASE SpRecheck(t)
  BY <1>1, <1>16 DEF SpRecheck
<1>17. CASE SpDeq(t)
  BY <1>1, <1>17 DEF SpDeq
<1>18. CASE SpUndo(t)
  BY <1>1, <1>18 DEF SpUndo
<1>19. CASE SpInc(t)
  BY <1>1, <1>19 DEF SpInc
<1>20. CASE SpSend(t)
  BY <1>1, <1>20 DEF SpSend, Post
<1>21. CASE RpEnd(t)
  BY <1>1, <1>21 DEF RpEnd
<1>22. CASE SdFree(t)
  BY <1>1, <1>22 DEF SdFree
<1>23. CASE SdClear(t)
  BY <1>1, <1>23 DEF SdClear
<1>24. CASE Accept(t)
  BY <1>1, <1>24 DEF Accept
<1>25. CASE AcPop(t)
  BY <1>1, <1>25 DEF AcPop
<1>26. CASE AcFull(t)
  BY <1>1, <1>26 DEF AcFull
<1>27. CASE AcReject(t)
  BY <1>1, <1>27 DEF AcReject
<1>28. CASE AcIncRecv(t)
  BY <1>1, <1>28 DEF AcIncRecv
<1>29. CASE \E s \in Slots, ty \in IoTypes : Complete(t, s, ty)
  BY <1>1, <1>29 DEF Complete
<1> QED
  BY <1>2, <1>3, <1>4, <1>5, <1>6, <1>7, <1>8, <1>9, <1>10, <1>11, <1>12,
    <1>13, <1>14, <1>15, <1>16, <1>17, <1>18, <1>19, <1>20, <1>21, <1>22,
    <1>23, <1>24, <1>25, <1>26, <1>27, <1>28, <1>29, <1>30 DEF Moves, Step, KeyStep

\* How a thread comes to work on a session it was called for.
LEMMA ArgStep ==
  ASSUME TypeInv, NEW t \in Threads, Moves(t), pc'[t] \in ArgLabels
  PROVE  \/ pc[t] \in ArgLabels /\ arg'[t] = arg[t]
         \/ MayCall(t) /\ arg'[t] \in Known(t)
<1>1. ThreadTypeOK /\ ThreadOK(t)
  BY DEF TypeInv, TypeOK, ControlOK
<1> USE DEF At, Goto, Leave, callVars, ThreadTypeOK, ThreadOK, HomeOK, ArgLabels
<1>2. CASE CallSendPacket(t)
  BY <1>1, <1>2 DEF CallSendPacket, Call
<1>3. CASE CallDisconnect(t)
  BY <1>1, <1>3 DEF CallDisconnect, Call
<1>4. CASE FreePacket(t)
  BY <1>1, <1>4 DEF FreePacket
<1>5. CASE AcqInc(t)
  BY <1>1, <1>5 DEF AcqInc
<1>6. CASE AcqCheck(t)
  BY <1>1, <1>6 DEF AcqCheck
<1>7. CASE DcClose(t)
  BY <1>1, <1>7 DEF DcClose
<1>8. CASE EnqLink(t)
  BY <1>1, <1>8 DEF EnqLink
<1>9. CASE EnqSize(t)
  BY <1>1, <1>9 DEF EnqSize
<1>10. CASE RetDec(t)
  BY <1>1, <1>10 DEF RetDec
<1>11. CASE RelCas(t)
  BY <1>1, <1>11 DEF RelCas
<1>12. CASE RelClose(t)
  BY <1>1, <1>12 DEF RelClose
<1>13. CASE RelFree(t)
  BY <1>1, <1>13 DEF RelFree
<1>14. CASE RelNotify(t)
  BY <1>1, <1>14 DEF RelNotify
<1>15. CASE RelPush(t)
  BY <1>1, <1>15 DEF RelPush
<1>16. CASE RecvPost(t)
  BY <1>1, <1>16 DEF RecvPost, Post
<1>17. CASE SpXchg(t)
  BY <1>1, <1>17 DEF SpXchg
<1>18. CASE SpSize(t)
  BY <1>1, <1>18 DEF SpSize
<1>19. CASE SpClear(t)
  BY <1>1, <1>19 DEF SpClear
<1>20. CASE SpRecheck(t)
  BY <1>1, <1>20 DEF SpRecheck
<1>21. CASE SpDeq(t)
  BY <1>1, <1>21 DEF SpDeq
<1>22. CASE SpUndo(t)
  BY <1>1, <1>22 DEF SpUndo
<1>23. CASE SpInc(t)
  BY <1>1, <1>23 DEF SpInc
<1>24. CASE SpSend(t)
  BY <1>1, <1>24 DEF SpSend, Post
<1>25. CASE RpEnd(t)
  BY <1>1, <1>25 DEF RpEnd
<1>26. CASE SdFree(t)
  BY <1>1, <1>26 DEF SdFree
<1>27. CASE SdClear(t)
  BY <1>1, <1>27 DEF SdClear
<1>28. CASE Accept(t)
  BY <1>1, <1>28 DEF Accept
<1>29. CASE AcPop(t)
  BY <1>1, <1>29 DEF AcPop
<1>30. CASE AcFull(t)
  BY <1>1, <1>30 DEF AcFull
<1>31. CASE AcReject(t)
  BY <1>1, <1>31 DEF AcReject
<1>32. CASE AcInit(t)
  BY <1>1, <1>32 DEF AcInit
<1>33. CASE AcInc(t)
  BY <1>1, <1>33 DEF AcInc
<1>34. CASE AcClear(t)
  BY <1>1, <1>34 DEF AcClear
<1>35c. CASE AcCount(t)
  BY <1>1, <1>35c DEF AcCount
<1>35. CASE AcNotify(t)
  BY <1>1, <1>35 DEF AcNotify
<1>36. CASE AcIncRecv(t)
  BY <1>1, <1>36 DEF AcIncRecv
<1>37. CASE \E s \in Slots, ty \in IoTypes : Complete(t, s, ty)
  BY <1>1, <1>37 DEF Complete
<1> QED
  BY <1>2, <1>3, <1>4, <1>5, <1>6, <1>7, <1>8, <1>9, <1>10, <1>11, <1>12,
    <1>13, <1>14, <1>15, <1>16, <1>17, <1>18, <1>19, <1>20, <1>21, <1>22,
    <1>23, <1>24, <1>25, <1>26, <1>27, <1>28, <1>29, <1>30, <1>31, <1>32,
    <1>33, <1>34, <1>35c, <1>35, <1>36, <1>37 DEF Moves, Step
\* What the steps on the way do to the variables the invariant is about.
LEMMA KeySteps ==
  ASSUME TypeInv, NEW t \in Threads, KeyStep(t)
  PROVE  /\ Moves(t) /\ slot' = slot /\ slot[t] \in Slots
         /\ AcInit(t) => /\ pc[t] = "AcInit" /\ pc'[t] = "AcInc" /\ gen' = gen + 1
                         /\ sessionID' = [sessionID EXCEPT ![slot[t]] = <<gen + 1, slot[t]>>]
                         /\ UNCHANGED <<accepted, released, sessionCount, flag>>
         /\ AcInc(t) => /\ pc[t] = "AcInc" /\ pc'[t] = "AcClear"
                        /\ UNCHANGED <<accepted, released, gen, sessionCount, sessionID, flag>>
         /\ AcClear(t) => /\ pc[t] = "AcClear" /\ pc'[t] = "AcCount"
                          /\ flag' = [flag EXCEPT ![slot[t]] = FALSE]
                          /\ UNCHANGED <<accepted, released, gen, sessionCount, sessionID>>
         /\ AcCount(t) => /\ pc[t] = "AcCount" /\ pc'[t] = "AcNotify"
                          /\ sessionCount' = sessionCount + 1
                          /\ UNCHANGED <<accepted, released, gen, sessionID, flag>>
         /\ AcNotify(t) => /\ pc[t] = "AcNotify" /\ pc'[t] = "AcIncRecv"
                           /\ accepted' = accepted \cup {sessionID[slot[t]]}
                           /\ UNCHANGED <<released, gen, sessionCount, sessionID, flag>>
         /\ CasWins(t) => /\ pc[t] = "RelCas" /\ pc'[t] = "RelClose"
                          /\ count[slot[t]] = 0 /\ ~flag[slot[t]]
                          /\ flag' = [flag EXCEPT ![slot[t]] = TRUE]
                          /\ UNCHANGED <<accepted, released, gen, sessionCount, sessionID>>
         /\ RelClose(t) => /\ pc[t] = "RelClose" /\ pc'[t] = "RelFree"
                           /\ UNCHANGED <<accepted, released, gen, sessionCount, sessionID, flag>>
         /\ RelFree(t) => /\ pc[t] = "RelFree" /\ pc'[t] = "RelNotify"
                          /\ sessionCount' = sessionCount - 1
                          /\ UNCHANGED <<accepted, released, gen, sessionID, flag>>
         /\ RelNotify(t) => /\ pc[t] = "RelNotify" /\ pc'[t] = "RelPush"
                            /\ released' = released \cup {sessionID[slot[t]]}
                            /\ UNCHANGED <<accepted, gen, sessionCount, sessionID, flag>>
<1>1. ThreadTypeOK /\ SlotOK(t)
  BY DEF TypeInv, TypeOK, ControlOK, ThreadOK
<1>2. Moves(t)
  BY DEF Moves, Step, KeyStep, CasWins
<1> USE DEF At, Goto, callVars, lifeVars, poolVars, history, ThreadTypeOK, SlotOK
<1>3. /\ AcInit(t) => pc[t] = "AcInit" /\ pc'[t] = "AcInc" /\ slot' = slot
      /\ AcInc(t) => pc[t] = "AcInc" /\ pc'[t] = "AcClear" /\ slot' = slot
      /\ AcClear(t) => pc[t] = "AcClear" /\ pc'[t] = "AcCount" /\ slot' = slot
      /\ AcCount(t) => pc[t] = "AcCount" /\ pc'[t] = "AcNotify" /\ slot' = slot
      /\ AcNotify(t) => pc[t] = "AcNotify" /\ pc'[t] = "AcIncRecv" /\ slot' = slot
  BY <1>1 DEF AcInit, AcInc, AcClear, AcCount, AcNotify
<1>4. /\ RelClose(t) => pc[t] = "RelClose" /\ pc'[t] = "RelFree" /\ slot' = slot
      /\ RelFree(t) => pc[t] = "RelFree" /\ pc'[t] = "RelNotify" /\ slot' = slot
      /\ RelNotify(t) => pc[t] = "RelNotify" /\ pc'[t] = "RelPush" /\ slot' = slot
  BY <1>1 DEF RelClose, RelFree, RelNotify
<1>5. CasWins(t) => /\ pc[t] = "RelCas" /\ count[slot[t]] = 0 /\ ~flag[slot[t]] /\ slot' = slot
                    /\ flag' = [flag EXCEPT ![slot[t]] = TRUE]
                    /\ UNCHANGED <<accepted, released, gen, sessionCount, sessionID>>
  <2>1. pc[t] = "RelCas" /\ CasWins(t) => home[t] # "RelClose"
    BY <1>1
  <2> QED
    BY <1>1, <2>1 DEF CasWins, RelCas, Leave
<1> HIDE DEF At, Goto, callVars, ThreadTypeOK, SlotOK
<1>6. slot' = slot /\ slot[t] \in Slots
  BY <1>1, <1>3, <1>4, <1>5 DEF KeyStep, SlotOK
<1>7. AcInit(t) => /\ gen' = gen + 1
                   /\ sessionID' = [sessionID EXCEPT ![slot[t]] = <<gen + 1, slot[t]>>]
                   /\ UNCHANGED <<accepted, released, sessionCount, flag>>
  BY DEF AcInit
<1>8. AcInc(t) => UNCHANGED <<accepted, released, gen, sessionCount, sessionID, flag>>
  BY DEF AcInc
<1>9. AcClear(t) => /\ flag' = [flag EXCEPT ![slot[t]] = FALSE]
                    /\ UNCHANGED <<accepted, released, gen, sessionCount, sessionID>>
  BY DEF AcClear
<1>15. AcCount(t) => /\ sessionCount' = sessionCount + 1
                     /\ UNCHANGED <<accepted, released, gen, sessionID, flag>>
  BY DEF AcCount
<1>10. AcNotify(t) => /\ accepted' = accepted \cup {sessionID[slot[t]]}
                      /\ UNCHANGED <<released, gen, sessionCount, sessionID, flag>>
  BY DEF AcNotify
<1>11. RelClose(t) => UNCHANGED <<accepted, released, gen, sessionCount, sessionID, flag>>
  BY DEF RelClose
<1>12. RelFree(t) => /\ sessionCount' = sessionCount - 1
                     /\ UNCHANGED <<accepted, released, gen, sessionID, flag>>
  BY DEF RelFree
<1>13. RelNotify(t) => /\ released' = released \cup {sessionID[slot[t]]}
                       /\ UNCHANGED <<accepted, gen, sessionCount, sessionID, flag>>
  BY DEF RelNotify
<1>14. CasWins(t) => pc'[t] = "RelClose"
  BY DEF CasWins
<1> QED
  BY <1>2, <1>3, <1>4, <1>5, <1>6, <1>7, <1>8, <1>9, <1>10, <1>11, <1>12, <1>13, <1>14, <1>15

\* A slot with nothing to send gets something only by a SendPacket on it.
LEMMA EmptyStays ==
  ASSUME TypeInv, NEW t \in Threads, Moves(t), NEW s \in Slots,
         sendQ[s] = <<>>, sending[s] = <<>>, ~(EnqLink(t) /\ slot[t] = s)
  PROVE  sendQ'[s] = <<>> /\ sending'[s] = <<>>
<1>1. ThreadTypeOK /\ SendTypeOK
  BY DEF TypeInv, TypeOK
<1>2. CASE ~QueueStep(t)
  BY <1>2, OtherSteps DEF sendVars
<1>3. CASE QueueStep(t) /\ slot[t] # s
  BY <1>3, QueueStepSlot DEF Same
<1>4. CASE QueueStep(t) /\ slot[t] = s
  <2>1. CASE EnqSize(t) \/ SpXchg(t) \/ SpClear(t) \/ SpRecheck(t) \/ SpUndo(t) \/ SpInc(t) \/ SdClear(t)
    BY <2>1 DEF EnqSize, SpXchg, SpClear, SpRecheck, SpUndo, SpInc, SdClear, sendVars
  <2>2. CASE SpSize(t) \/ SdFree(t) \/ AcInit(t)
    BY <1>1, <1>4, <2>2 DEF SpSize, SdFree, AcInit, SendTypeOK
  <2>3. CASE SpDeq(t)
    BY <1>1, <1>4, <2>3 DEF SpDeq
  <2>4. CASE RelFree(t)
    <3> DEFINE drained == IF qsize[s] < 0 THEN 0 ELSE qsize[s]
    <3>1. /\ drained <= Len(sendQ[s]) /\ sending' = [sending EXCEPT ![s] = <<>>]
          /\ sendQ' = [sendQ EXCEPT ![s] = SubSeq(sendQ[s], drained + 1, Len(sendQ[s]))]
      BY <1>4, <2>4 DEF RelFree
    <3>2. drained = 0
      BY <1>1, <3>1 DEF SendTypeOK
    <3> HIDE DEF drained
    <3>3. SubSeq(sendQ[s], drained + 1, Len(sendQ[s])) = <<>>
      BY <3>2
    <3> QED
      BY <1>1, <3>1, <3>3 DEF SendTypeOK
  <2> QED
    BY <1>4, <2>1, <2>2, <2>3, <2>4 DEF QueueStep
<1> QED
  BY <1>2, <1>3, <1>4
----------------------------------------------------------------------------
(***************************************************************************)
(* Fresh sessions.                                                         *)
(***************************************************************************)

\* Only the accept thread has a fresh session.
LEMMA FreshAcceptor ==
  ASSUME TypeInv, NEW t \in Threads, Fresh(t)
  PROVE  t = Acceptor /\ slot[t] \in Slots
BY DEF TypeInv, ControlOK, ThreadOK, AcceptOK, AcceptLabels, SlotOK, Fresh

\* SendPacket is never at work on a fresh session.
LEMMA FreshUnsent ==
  ASSUME SafeInv, ServiceInv, NEW t \in Threads, EnqLink(t), NEW u \in Threads, Fresh(u)
  PROVE  slot[u] # slot[t]
<1>1. pc[t] = "EnqLink"
  BY DEF EnqLink, At
<1>2. ~flag[slot[t]] /\ sessionID[slot[t]] = arg[t] /\ arg[t] \in accepted
  BY <1>1 DEF SafeInv, LiveOK, Relies, LiveLabels, IdOK, ServiceInv, ArgOK, ArgLabels
<1>3. gen \in Int /\ arg[t][1] < gen
  BY <1>2 DEF SafeInv, TypeInv, TypeOK, ServerTypeOK, ServiceInv, FreshOK
<1>4. sessionID[slot[u]][1] = gen
  BY DEF ServiceInv, FreshOK
<1> QED
  BY <1>2, <1>3, <1>4

LEMMA FreshStep ==
  ASSUME SafeInv, QueueInv, ServiceInv, NEW t \in Threads, Moves(t)
  PROVE  FreshOK'
<1>1. /\ TypeInv /\ ThreadTypeOK /\ SessionTypeOK /\ ServerTypeOK /\ gen \in Int
      /\ FreshOK /\ released \subseteq accepted
  BY DEF SafeInv, TypeInv, TypeOK, ServerTypeOK, ServiceInv, KnownOK
<1>2. \A u \in Threads \ {t} : pc'[u] = pc[u] /\ slot'[u] = slot[u]
  BY <1>1, OthersStay
<1>3. ASSUME NEW u \in Threads, Fresh(u), slot'[u] = slot[u]
      PROVE  sendQ'[slot'[u]] = <<>> /\ sending'[slot'[u]] = <<>>
  BY <1>1, <1>3, FreshAcceptor, FreshUnsent, EmptyStays DEF FreshOK
<1>4. CASE /\ UNCHANGED <<accepted, gen, sessionID>>
           /\ \A u \in Threads : Fresh(u)' => Fresh(u) /\ slot'[u] = slot[u]
  <2>1. \A u \in Threads : Fresh(u)' => sendQ'[slot'[u]] = <<>> /\ sending'[slot'[u]] = <<>>
    BY <1>3, <1>4
  <2> QED
    BY <1>1, <1>4, <2>1 DEF FreshOK
<1>5. CASE AcInit(t)
  <2>1. /\ slot[t] \in Slots /\ slot' = slot /\ gen' = gen + 1 /\ UNCHANGED accepted
        /\ sessionID' = [sessionID EXCEPT ![slot[t]] = <<gen + 1, slot[t]>>]
        /\ pc[t] = "AcInit"
    BY <1>1, <1>5, KeySteps DEF KeyStep
  <2>2. sendQ[slot[t]] = <<>> /\ sending[slot[t]] = <<>>
    BY <2>1, AcInitFinds
  <2>3. sendQ'[slot[t]] = <<>> /\ sending'[slot[t]] = <<>>
    BY <1>1, <1>5, <2>1, <2>2, EmptyStays DEF EnqLink, At
  <2>4. \A u \in Threads : Fresh(u)' => u = t
    <3>1. t = Acceptor
      BY <1>1, <2>1 DEF TypeInv, ControlOK, ThreadOK, AcceptOK, AcceptLabels
    <3> QED
      BY <1>1, <1>2, <3>1, FreshAcceptor DEF Fresh
  <2>5. \A id \in accepted : id[1] <= gen + 1 /\ id[1] < gen + 1
    <3>1. \A id \in accepted : id[1] \in Int /\ id[1] <= gen
      BY <1>1 DEF FreshOK, ServerTypeOK
    <3> QED
      BY <1>1, <3>1
  <2>6. \A s \in Slots : sessionID'[s] \in Ids => sessionID'[s][2] = s
    BY <1>1, <2>1 DEF FreshOK, SessionTypeOK
  <2>7. sessionID'[slot'[t]][1] = gen'
    BY <1>1, <2>1 DEF SessionTypeOK
  <2> QED
    BY <2>1, <2>3, <2>4, <2>5, <2>6, <2>7 DEF FreshOK
<1>6. CASE AcNotify(t)
  <2>1. /\ slot[t] \in Slots /\ slot' = slot /\ UNCHANGED <<gen, sessionID>>
        /\ accepted' = accepted \cup {sessionID[slot[t]]}
        /\ pc[t] = "AcNotify" /\ pc'[t] = "AcIncRecv"
    BY <1>1, <1>6, KeySteps DEF KeyStep
  <2>2. Fresh(t) /\ ~Fresh(t)' /\ t = Acceptor
    BY <1>1, <2>1, FreshAcceptor DEF Fresh
  <2>3. \A u \in Threads : ~Fresh(u)'
    BY <1>1, <1>2, <2>2, FreshAcceptor DEF Fresh
  <2>4. \A id \in accepted' : id[1] <= gen
    BY <1>1, <2>1, <2>2 DEF FreshOK
  <2> QED
    BY <1>1, <2>1, <2>3, <2>4 DEF FreshOK
<1>7. CASE ~AcInit(t) /\ ~AcNotify(t) /\ KeyStep(t)
  <2>1. UNCHANGED <<accepted, gen, sessionID>> /\ slot' = slot
    BY <1>1, <1>7, KeySteps DEF KeyStep
  <2>2. Fresh(t)' => Fresh(t)
    BY <1>1, <1>7, KeySteps DEF KeyStep, Fresh
  <2> QED
    BY <1>2, <1>4, <2>1, <2>2 DEF Fresh
<1>8. CASE ~KeyStep(t)
  <2>1. UNCHANGED <<accepted, gen, sessionID>> /\ ~Fresh(t)'
    BY <1>1, <1>8, QuietSteps
  <2> QED
    BY <1>2, <1>4, <2>1 DEF Fresh
<1> QED
  BY <1>5, <1>6, <1>7, <1>8

----------------------------------------------------------------------------
(***************************************************************************)
(* Sessions the application knows of.                                      *)
(***************************************************************************)

\* Whoever serves a receive serves a session OnAccept was called for.
LEMMA ServedKnown ==
  ASSUME SafeInv, ServiceInv, NEW t \in Threads, pc[t] = "RpLoop" \/ home[t] = "RpLoop"
  PROVE  slot[t] \in Slots /\ sessionID[slot[t]] \in Live
<1>1. slot[t] \in Slots
  BY DEF SafeInv, TypeInv, ControlOK, ThreadOK, SlotOK, HomeOK, CallLabels, ReleaseLabels
<1>2. ~flag[slot[t]] /\ RecvTurn(t)
  BY DEF SafeInv, LiveOK, Relies, LiveLabels, RecvTurn
<1>3. ASSUME NEW u \in Threads, Telling(u), slot[u] = slot[t]
      PROVE  FALSE
  <2>1. u = t
    BY <1>2, <1>3 DEF SafeInv, RecvOK, RecvTurn, Telling
  <2> QED
    BY <1>3, <2>1 DEF Telling, SafeInv, TypeInv, ControlOK, ThreadOK, HomeOK, CallLabels, ReleaseLabels
<1> QED
  BY <1>1, <1>2, <1>3 DEF ServiceInv, KnownOK, LiveKnown

LEMMA ArgOKStep ==
  ASSUME SafeInv, ServiceInv, NEW t \in Threads, Moves(t)
  PROVE  ArgOK'
<1>1. TypeInv /\ ThreadTypeOK /\ ArgOK
  BY DEF SafeInv, TypeInv, TypeOK, ServiceInv
<1>2. accepted \subseteq accepted'
  BY <1>1, QuietSteps, KeySteps DEF KeyStep
<1>3. ASSUME NEW u \in Threads, pc'[u] \in ArgLabels
      PROVE  arg'[u] \in accepted'
  <2>1. CASE u # t
    BY <1>1, <1>2, <1>3, <2>1, OthersStay DEF ArgOK
  <2>2. CASE u = t
    <3>1. MayCall(t) => Known(t) \subseteq accepted
      BY ServedKnown DEF MayCall, At, Known, Live
    <3> QED
      BY <1>1, <1>2, <1>3, <2>2, <3>1, ArgStep DEF ArgOK
  <2> QED
    BY <2>1, <2>2
<1> QED
  BY <1>3 DEF ArgOK
\* A live session the application does not know of is one that it is told of.
LEMMA LiveSession ==
  ASSUME SafeInv, ServiceInv, NEW s \in Slots, ~flag[s], count[s] = 0
  PROVE  sessionID[s] \in Live
<1>1. ASSUME NEW u \in Threads, Telling(u), slot[u] = s
      PROVE  FALSE
  <2>1. held[u] = 0
    BY <1>1, HeldCounts DEF SafeInv
  <2> QED
    BY <1>1, <2>1, ReliesHolds DEF SafeInv, Telling, Relies, LiveLabels
<1> QED
  BY <1>1 DEF ServiceInv, KnownOK, LiveKnown

\* Known sessions stay known when nothing is told and no flag or ID changes.
LEMMA KnownFrame ==
  ASSUME KnownOK, UNCHANGED <<accepted, released, sessionID, flag>>,
         \A u \in Threads : Leaving(u)' = Leaving(u) /\ (Leaving(u) => slot'[u] = slot[u]),
         \A u \in Threads : Telling(u) => Telling(u)' /\ slot'[u] = slot[u]
  PROVE  KnownOK'
<1>1. Live' = Live
  BY DEF Live
<1>2. (released \subseteq accepted)'
  BY DEF KnownOK
<1>3. LiveKnown'
  BY <1>1 DEF KnownOK, LiveKnown
<1>4. LeavingKnown' /\ KnownPlaced'
  BY <1>1 DEF KnownOK, LeavingKnown, KnownPlaced
<1> QED
  BY <1>2, <1>3, <1>4 DEF KnownOK

LEMMA KnownStep ==
  ASSUME SafeInv, QueueInv, ServiceInv, NEW t \in Threads, Moves(t)
  PROVE  KnownOK'
<1> DEFINE s == slot[t]
           id == sessionID[s]
<1>1. /\ TypeInv /\ ThreadTypeOK /\ SessionTypeOK /\ OwnerOK /\ LiveOK
      /\ FreshOK /\ KnownOK /\ released \subseteq accepted
      /\ accepted \subseteq Ids /\ released \subseteq Ids
  BY DEF SafeInv, TypeInv, TypeOK, ServerTypeOK, ServiceInv, KnownOK
<1>2. \A u \in Threads \ {t} : pc'[u] = pc[u] /\ slot'[u] = slot[u]
  BY <1>1, OthersStay
<1>3. LiveKnown /\ LeavingKnown /\ KnownPlaced
  BY <1>1 DEF KnownOK
<1>4. \A u \in Threads : Leaving(u) => Owns(u) /\ slot[u] \in Slots /\ flag[slot[u]]
  BY <1>1 DEF Leaving, LeavingLabels, Owns, OwnLabels, OwnerOK, OwnerFlagged, TypeInv, ControlOK,
     ThreadOK, SlotOK
<1>5. \A i \in Live : i \in Ids /\ i[2] \in Slots
  BY <1>1 DEF Live
<1>6. ASSUME KeyStep(t)
      PROVE  slot' = slot /\ s \in Slots
  BY <1>1, <1>6, KeySteps
<1>7. CASE ~KeyStep(t)
  <2>1. /\ UNCHANGED <<accepted, released, sessionID, flag>>
        /\ ~Fresh(t) /\ ~Leaving(t) /\ ~Leaving(t)'
    BY <1>1, <1>7, QuietSteps
  <2> QED
    BY <1>1, <1>2, <2>1, KnownFrame DEF Fresh, Telling, Leaving
<1>8. CASE AcInc(t) \/ AcCount(t) \/ RelClose(t) \/ RelFree(t)
  <2>1. /\ UNCHANGED <<accepted, released, sessionID, flag, slot>>
        /\ Telling(t)' = Telling(t) /\ Leaving(t)' = Leaving(t)
    BY <1>1, <1>8, KeySteps DEF KeyStep, Telling, Leaving, LeavingLabels
  <2> QED
    BY <1>1, <1>2, <2>1, KnownFrame DEF Telling, Leaving
<1>9. CASE AcInit(t)
  <2>1. /\ UNCHANGED <<accepted, released, flag, slot>> /\ pc[t] = "AcInit" /\ pc'[t] = "AcInc"
        /\ sessionID' = [sessionID EXCEPT ![s] = <<gen + 1, s>>]
    BY <1>1, <1>9, KeySteps DEF KeyStep
  <2>2. s \in Slots /\ flag[s] /\ Owns(t)
    BY <1>1, <1>6, <1>9, <2>1 DEF KeyStep, OwnerOK, OwnerFlagged, Owns, OwnLabels
  <2>3. \A r \in Slots : r # s => sessionID'[r] = sessionID[r]
    BY <1>1, <2>1, <2>2 DEF SessionTypeOK
  <2>4. \A u \in Threads : /\ Leaving(u)' = Leaving(u)
                           /\ Telling(u) => Telling(u)'
    BY <1>2, <2>1 DEF Telling, Leaving, LeavingLabels
  <2>5. \A u \in Threads : Leaving(u) => slot[u] # s
    BY <1>1, <1>4, <2>1, <2>2 DEF OwnerOK, OwnerUnique, Leaving, LeavingLabels
  <2>6. \A i \in Live : i[2] # s
    BY <1>3, <1>5, <2>2, <2>5 DEF KnownPlaced
  <2>7. Live' = Live
    BY <2>1 DEF Live
  <2>8. LiveKnown'
    BY <1>3, <2>1, <2>2, <2>3, <2>4, <2>7 DEF LiveKnown
  <2>9. LeavingKnown'
    BY <1>3, <1>4, <2>1, <2>3, <2>4, <2>5, <2>7 DEF LeavingKnown
  <2>10. KnownPlaced'
    BY <1>3, <1>5, <2>1, <2>3, <2>4, <2>6, <2>7 DEF KnownPlaced
  <2> QED
    BY <1>1, <2>1, <2>8, <2>9, <2>10 DEF KnownOK
<1>10. CASE AcClear(t)
  <2>1. /\ UNCHANGED <<accepted, released, sessionID, slot>> /\ pc[t] = "AcClear" /\ pc'[t] = "AcCount"
        /\ flag' = [flag EXCEPT ![s] = FALSE] /\ s \in Slots
    BY <1>1, <1>10, KeySteps DEF KeyStep
  <2>2. \A r \in Slots : r # s => flag'[r] = flag[r]
    BY <1>1, <2>1 DEF SessionTypeOK
  <2>3. \A u \in Threads : /\ Leaving(u)' = Leaving(u)
                           /\ Telling(u) => Telling(u)'
    BY <1>2, <2>1 DEF Telling, Leaving, LeavingLabels
  <2>4. Live' = Live /\ ~flag'[s]
    BY <1>1, <2>1 DEF Live, SessionTypeOK
  <2>5. LiveKnown'
    BY <1>3, <2>1, <2>2, <2>3, <2>4 DEF LiveKnown, Telling
  <2>6. LeavingKnown' /\ KnownPlaced'
    BY <1>3, <1>5, <2>1, <2>2, <2>3, <2>4 DEF LeavingKnown, KnownPlaced
  <2> QED
    BY <1>1, <2>1, <2>5, <2>6 DEF KnownOK
<1>11. CASE AcNotify(t)
  <2>1. /\ UNCHANGED <<released, sessionID, flag, slot>> /\ pc[t] = "AcNotify" /\ pc'[t] = "AcIncRecv"
        /\ accepted' = accepted \cup {id} /\ s \in Slots
    BY <1>1, <1>11, KeySteps DEF KeyStep
  <2>2. /\ id \notin accepted /\ ~flag[s] /\ id[2] = s
    <3>1. Opened(s)
      BY <1>1, <2>1 DEF TypeInv, OpenedOK
    <3>2. gen \in Int /\ id[1] = gen /\ \A i \in accepted : i[1] < gen
      BY <1>1, <2>1 DEF FreshOK, Fresh, TypeInv, TypeOK, ServerTypeOK
    <3> QED
      BY <1>1, <2>1, <3>1, <3>2 DEF Opened, LiveOK, Relies, LiveLabels
  <2>3. \A u \in Threads : Leaving(u)' = Leaving(u)
    BY <1>2, <2>1 DEF Leaving, LeavingLabels
  <2>4. Live' = Live \cup {id}
    BY <1>1, <2>1, <2>2 DEF Live
  <2>5. LiveKnown'
    BY <1>2, <1>3, <2>1, <2>4 DEF LiveKnown, Telling
  <2>6. LeavingKnown' /\ KnownPlaced'
    BY <1>3, <2>1, <2>2, <2>3, <2>4 DEF LeavingKnown, KnownPlaced
  <2> QED
    BY <1>1, <2>1, <2>5, <2>6 DEF KnownOK
<1>12. CASE CasWins(t)
  <2>1. /\ UNCHANGED <<accepted, released, sessionID, slot>> /\ pc[t] = "RelCas" /\ pc'[t] = "RelClose"
        /\ flag' = [flag EXCEPT ![s] = TRUE] /\ s \in Slots /\ ~flag[s] /\ count[s] = 0
    BY <1>1, <1>12, KeySteps DEF KeyStep
  <2>2. id \in Live
    BY <2>1, LiveSession
  <2>3. \A r \in Slots : r # s => flag'[r] = flag[r]
    BY <1>1, <2>1 DEF SessionTypeOK
  <2>4. /\ \A u \in Threads : Leaving(u) => Leaving(u)'
        /\ \A u \in Threads \ {t} : Leaving(u)' = Leaving(u)
        /\ \A u \in Threads : Telling(u) => Telling(u)'
        /\ Leaving(t)'
    BY <1>2, <2>1 DEF Telling, Leaving, LeavingLabels
  <2>5. Live' = Live /\ flag'[s]
    BY <1>1, <2>1 DEF Live, SessionTypeOK
  <2>6. LiveKnown'
    BY <1>3, <2>1, <2>3, <2>4, <2>5 DEF LiveKnown
  <2>7. LeavingKnown' /\ KnownPlaced'
    BY <1>3, <1>5, <2>1, <2>2, <2>3, <2>4, <2>5 DEF LeavingKnown, KnownPlaced
  <2> QED
    BY <1>1, <2>1, <2>6, <2>7 DEF KnownOK
<1>13. CASE RelNotify(t)
  <2>1. /\ UNCHANGED <<accepted, sessionID, flag, slot>> /\ pc[t] = "RelNotify" /\ pc'[t] = "RelPush"
        /\ released' = released \cup {id} /\ s \in Slots
    BY <1>1, <1>13, KeySteps DEF KeyStep
  <2>2. Leaving(t) /\ id \in Live /\ id[2] = s /\ flag[s]
    BY <1>1, <1>3, <1>4, <1>5, <2>1 DEF Leaving, LeavingLabels, LeavingKnown, FreshOK
  <2>3. \A r \in Slots : sessionID[r] = id => r = s
    BY <1>1, <1>5, <2>2 DEF FreshOK
  <2>4. /\ \A u \in Threads : Leaving(u)' => Leaving(u) /\ u # t
        /\ \A u \in Threads : Leaving(u) /\ u # t => Leaving(u)'
        /\ \A u \in Threads : Telling(u) => Telling(u)'
    BY <1>2, <2>1 DEF Telling, Leaving, LeavingLabels
  <2>5. \A u \in Threads : Leaving(u) /\ u # t => slot[u] # s
    BY <1>1, <1>4, <2>1, <2>2 DEF OwnerOK, OwnerUnique
  <2>6. Live' = Live \ {id} /\ (released \subseteq accepted)'
    BY <1>1, <2>1, <2>2 DEF Live
  <2>7. LiveKnown'
    BY <1>3, <2>1, <2>2, <2>3, <2>4, <2>6 DEF LiveKnown
  <2>8. LeavingKnown'
    BY <1>3, <1>4, <2>1, <2>3, <2>4, <2>5, <2>6 DEF LeavingKnown
  <2>9. KnownPlaced'
    BY <1>3, <1>5, <2>1, <2>2, <2>4, <2>6 DEF KnownPlaced
  <2> QED
    BY <2>6, <2>7, <2>8, <2>9 DEF KnownOK
<1> QED
  BY <1>7, <1>8, <1>9, <1>10, <1>11, <1>12, <1>13 DEF KeyStep

----------------------------------------------------------------------------
(***************************************************************************)
(* The session count.                                                      *)
(***************************************************************************)

Announcing == {t \in Threads : pc[t] = "AcNotify"}
Notifying  == {t \in Threads : pc[t] = "RelNotify"}

\* Sessions and threads can be counted.
LEMMA CountsFinite ==
  ASSUME SafeInv
  PROVE  /\ IsFiniteSet(Live) /\ Cardinality(Live) \in Nat
         /\ IsFiniteSet(Announcing) /\ Cardinality(Announcing) \in Nat
         /\ IsFiniteSet(Notifying) /\ Cardinality(Notifying) \in Nat
<1>1. IsFiniteSet(1 .. MaxGen) /\ IsFiniteSet(0 .. MaxSessionCount - 1)
  BY BoundAssumption, FS_Interval
<1>2. IsFiniteSet((1 .. MaxGen) \X (0 .. MaxSessionCount - 1))
  BY <1>1, FS_Product
<1>3. Live \subseteq (1 .. MaxGen) \X (0 .. MaxSessionCount - 1)
  BY DEF SafeInv, TypeInv, TypeOK, ServerTypeOK, Live
<1>4. IsFiniteSet(Live)
  BY <1>2, <1>3, FS_Subset
<1>5. IsFiniteSet(Announcing) /\ IsFiniteSet(Notifying)
  <2>1. IsFiniteSet(Threads)
    BY ThreadAssumption, FS_Subset
  <2> QED
    BY <2>1, FS_Subset DEF Announcing, Notifying
<1> QED
  BY <1>4, <1>5, FS_CardinalityType

LEMMA SessionCountStep ==
  ASSUME SafeInv, QueueInv, ServiceInv, NEW t \in Threads, Moves(t)
  PROVE  SessionCountExact'
<1> DEFINE id == sessionID[slot[t]]
<1>1. /\ TypeInv /\ ThreadTypeOK /\ released \subseteq accepted /\ FreshOK /\ LeavingKnown
      /\ sessionCount \in Int
      /\ sessionCount = Cardinality(Live) + Cardinality(Announcing) - Cardinality(Notifying)
  BY DEF SafeInv, TypeInv, TypeOK, ServerTypeOK, ServiceInv, KnownOK, SessionCountExact, Live,
     Announcing, Notifying
<1>2. \A u \in Threads \ {t} : pc'[u] = pc[u]
  BY <1>1, OthersStay
<1>3. SUFFICES sessionCount'
                 = Cardinality(Live') + Cardinality(Announcing') - Cardinality(Notifying')
  BY DEF SessionCountExact, Live, Announcing, Notifying
<1>4. CASE /\ UNCHANGED <<accepted, released, sessionCount>>
           /\ pc[t] \notin {"AcNotify", "RelNotify"} /\ pc'[t] \notin {"AcNotify", "RelNotify"}
  <2>1. Live' = Live /\ Announcing' = Announcing /\ Notifying' = Notifying
    BY <1>2, <1>4 DEF Live, Announcing, Notifying
  <2> QED
    BY <1>1, <1>4, <2>1
<1>10. CASE AcCount(t)
  <2>1. /\ pc[t] = "AcCount" /\ pc'[t] = "AcNotify" /\ UNCHANGED <<accepted, released>>
        /\ sessionCount' = sessionCount + 1
    BY <1>1, <1>10, KeySteps DEF KeyStep
  <2>2. /\ Live' = Live /\ Notifying' = Notifying
        /\ Announcing' = Announcing \cup {t} /\ t \notin Announcing
    BY <1>2, <2>1 DEF Live, Announcing, Notifying
  <2>3. Cardinality(Announcing') = Cardinality(Announcing) + 1
    BY <2>2, CountsFinite, FS_AddElement
  <2> QED
    BY <1>1, <2>1, <2>2, <2>3, CountsFinite
<1>5. CASE AcNotify(t)
  <2>1. /\ pc[t] = "AcNotify" /\ pc'[t] = "AcIncRecv" /\ accepted' = accepted \cup {id}
        /\ UNCHANGED <<released, sessionCount>>
    BY <1>1, <1>5, KeySteps DEF KeyStep
  <2>2. id \notin accepted
    BY <1>1, <2>1 DEF FreshOK, Fresh, TypeInv, TypeOK, ServerTypeOK
  <2>3. /\ Live' = Live \cup {id} /\ id \notin Live /\ Notifying' = Notifying
        /\ Announcing' = Announcing \ {t} /\ t \in Announcing
    BY <1>1, <1>2, <2>1, <2>2 DEF Live, Announcing, Notifying
  <2>4. /\ Cardinality(Live') = Cardinality(Live) + 1
        /\ Cardinality(Announcing') = Cardinality(Announcing) - 1
    BY <2>3, CountsFinite, FS_AddElement, FS_RemoveElement
  <2> QED
    BY <1>1, <2>1, <2>3, <2>4, CountsFinite
<1>6. CASE RelFree(t)
  <2>1. /\ pc[t] = "RelFree" /\ pc'[t] = "RelNotify" /\ UNCHANGED <<accepted, released>>
        /\ sessionCount' = sessionCount - 1
    BY <1>1, <1>6, KeySteps DEF KeyStep
  <2>2. /\ Live' = Live /\ Announcing' = Announcing
        /\ Notifying' = Notifying \cup {t} /\ t \notin Notifying
    BY <1>2, <2>1 DEF Live, Announcing, Notifying
  <2>3. Cardinality(Notifying') = Cardinality(Notifying) + 1
    BY <2>2, CountsFinite, FS_AddElement
  <2> QED
    BY <1>1, <2>1, <2>2, <2>3, CountsFinite
<1>7. CASE RelNotify(t)
  <2>1. /\ pc[t] = "RelNotify" /\ pc'[t] = "RelPush" /\ released' = released \cup {id}
        /\ UNCHANGED <<accepted, sessionCount>>
    BY <1>1, <1>7, KeySteps DEF KeyStep
  <2>2. id \in Live
    BY <1>1, <2>1 DEF LeavingKnown, Leaving, LeavingLabels
  <2>3. /\ Live' = Live \ {id} /\ Announcing' = Announcing
        /\ Notifying' = Notifying \ {t} /\ t \in Notifying
    BY <1>2, <2>1, <2>2 DEF Live, Announcing, Notifying
  <2>4. /\ Cardinality(Live') = Cardinality(Live) - 1
        /\ Cardinality(Notifying') = Cardinality(Notifying) - 1
    BY <2>2, <2>3, CountsFinite, FS_RemoveElement
  <2> QED
    BY <1>1, <2>1, <2>3, <2>4, CountsFinite
<1>8. CASE AcInit(t) \/ AcInc(t) \/ AcClear(t) \/ CasWins(t) \/ RelClose(t)
  BY <1>1, <1>4, <1>8, KeySteps DEF KeyStep
<1>9. CASE ~KeyStep(t)
  BY <1>1, <1>4, <1>9, QuietSteps DEF Fresh, Leaving, LeavingLabels
<1> QED
  BY <1>5, <1>6, <1>7, <1>8, <1>9, <1>10 DEF KeyStep
----------------------------------------------------------------------------
(***************************************************************************)
(* The invariant holds.                                                    *)
(***************************************************************************)

LEMMA ServiceInit ==
  Init => ServiceInv
<1> SUFFICES ASSUME Init
             PROVE  ServiceInv
  OBVIOUS
<1>1. FreshOK /\ ArgOK
  BY BoundAssumption DEF Init, FreshOK, ArgOK, Fresh, ArgLabels
<1>2. KnownOK
  BY DEF Init, KnownOK, LiveKnown, LeavingKnown, KnownPlaced, Live, Leaving, LeavingLabels
<1>3. SessionCountExact
  <2>1. /\ accepted \ released = {} /\ sessionCount = 0
        /\ {t \in Threads : pc[t] = "AcNotify"} = {}
        /\ {t \in Threads : pc[t] = "RelNotify"} = {}
    BY DEF Init
  <2> QED
    BY <2>1, FS_EmptySet DEF SessionCountExact
<1> QED
  BY <1>1, <1>2, <1>3 DEF ServiceInv

\* The steps of Windows, and those that change nothing.
LEMMA OutsideServes ==
  ASSUME SafeInv, ServiceInv, [Next]_vars, ~ \E t \in Threads : Moves(t)
  PROVE  ServiceInv' /\ UNCHANGED <<accepted, released, gen, sendVars, sessionID>>
<1>1. UNCHANGED <<flag, sessionID, pc, slot, arg>>
  BY OutsideStep
<1>2. UNCHANGED <<accepted, released, gen, sessionCount, sendVars>>
  BY NextCases DEF IoDone, PeerReset, vars, history, poolVars
<1>3. \A u \in Threads :
        Fresh(u)' = Fresh(u) /\ Telling(u)' = Telling(u) /\ Leaving(u)' = Leaving(u)
  BY <1>1 DEF Fresh, Telling, Leaving
<1>4. FreshOK'
  BY <1>1, <1>2, <1>3 DEF ServiceInv, FreshOK, sendVars
<1>5. KnownOK'
  BY <1>1, <1>2, <1>3, KnownFrame DEF ServiceInv
<1>6. ArgOK' /\ SessionCountExact'
  BY <1>1, <1>2 DEF ServiceInv, ArgOK, SessionCountExact
<1> QED
  BY <1>1, <1>2, <1>4, <1>5, <1>6 DEF ServiceInv

LEMMA ServiceStep ==
  SafeInv /\ QueueInv /\ ServiceInv /\ [Next]_vars => ServiceInv'
<1> SUFFICES ASSUME SafeInv, QueueInv, ServiceInv, [Next]_vars
             PROVE  ServiceInv'
  OBVIOUS
<1>1. ASSUME NEW t \in Threads, Moves(t)
      PROVE  ServiceInv'
  BY <1>1, FreshStep, KnownStep, ArgOKStep, SessionCountStep DEF ServiceInv
<1> QED
  BY <1>1, OutsideServes

LEMMA Serves == Spec => []ServiceInv
<1>1. Spec => [](SafeInv /\ QueueInv)
  BY Safe, Queues, PTL
<1> QED
  BY <1>1, ServiceInit, ServiceStep, PTL DEF Spec

\* OnAccept comes once and first, OnRelease once and last, OnRecv between the
\* two, however the threads that accept, receive and release interleave.
THEOREM CallbacksInOrder == Spec => []CallbackOrder
<1>1. SafeInv /\ ServiceInv => CallbackOrder
  <2> SUFFICES ASSUME SafeInv, ServiceInv, NEW t \in Threads
               PROVE  /\ pc[t] = "AcNotify" => sessionID[slot[t]] \notin accepted \cup released
                      /\ pc[t] = "RpLoop" \/ home[t] = "RpLoop" => sessionID[slot[t]] \in Live
                      /\ pc[t] = "RelNotify" => sessionID[slot[t]] \in Live
    BY DEF CallbackOrder, Live
  <2>1. pc[t] = "AcNotify" => sessionID[slot[t]] \notin accepted \cup released
    BY DEF ServiceInv, FreshOK, Fresh, KnownOK, SafeInv, TypeInv, TypeOK, ServerTypeOK
  <2>2. pc[t] = "RpLoop" \/ home[t] = "RpLoop" => sessionID[slot[t]] \in Live
    BY ServedKnown
  <2>3. pc[t] = "RelNotify" => sessionID[slot[t]] \in Live
    BY DEF ServiceInv, KnownOK, LeavingKnown, Leaving, LeavingLabels
  <2> QED
    BY <2>1, <2>2, <2>3
<1> QED
  BY <1>1, Safe, Serves, PTL

\* GetSessionCount counts the sessions between OnAccept and OnRelease, and at
\* each end runs ahead of the callback: by a session the accept thread has
\* counted and not announced yet, less those ReleaseSession has counted off
\* and not announced yet.
THEOREM CountOfSessions == Spec => []SessionCountExact
<1>1. ServiceInv => SessionCountExact
  BY DEF ServiceInv
<1> QED
  BY <1>1, Serves, PTL
----------------------------------------------------------------------------
(***************************************************************************)
(* The packets of a queue, in order.                                       *)
(***************************************************************************)

\* PacketsOf maps a queue to the sequence of its packets.
LEMMA PacketsIn ==
  ASSUME NEW q \in Seq(Entry)
  PROVE  /\ PacketsOf(q) \in Seq(Packets) /\ Len(q) \in Nat /\ Len(PacketsOf(q)) = Len(q)
         /\ \A i \in 1 .. Len(q) : PacketsOf(q)[i] = q[i].pkt /\ q[i] \in Entry
<1>1. Len(q) \in Nat /\ \A i \in 1 .. Len(q) : q[i] \in Entry
  OBVIOUS
<1>2. \A i \in 1 .. Len(q) : q[i].pkt \in Packets
  BY <1>1 DEF Entry
<1>3. PacketsOf(q) \in [1 .. Len(q) -> Packets]
  BY <1>2 DEF PacketsOf
<1>4. PacketsOf(q) \in Seq(Packets) /\ Len(PacketsOf(q)) = Len(q)
  BY <1>1, <1>3
<1> QED
  BY <1>1, <1>4 DEF PacketsOf

\* A packet that is linked is the last one.
LEMMA PacketsAppend ==
  ASSUME NEW d \in Seq(Entry), NEW q \in Seq(Entry), NEW e \in Entry
  PROVE  PacketsOf(d \o Append(q, e)) = Append(PacketsOf(d \o q), e.pkt)
<1> DEFINE a == PacketsOf(d \o Append(q, e))
           c == PacketsOf(d \o q)
           b == Append(c, e.pkt)
<1>1. d \o q \in Seq(Entry) /\ Append(q, e) \in Seq(Entry) /\ d \o Append(q, e) \in Seq(Entry)
  BY ConcatProperties
<1>2. /\ Len(d) \in Nat /\ Len(q) \in Nat /\ Len(d \o q) = Len(d) + Len(q)
      /\ Len(d \o Append(q, e)) = Len(d) + Len(q) + 1
  BY <1>1
<1>3. ASSUME NEW i \in 1 .. Len(d) + Len(q)
      PROVE  (d \o Append(q, e))[i] = (d \o q)[i]
  <2>1. CASE i <= Len(d)
    BY <1>1, <1>2, <2>1, ConcatProperties
  <2>2. CASE i > Len(d)
    <3>1. i - Len(d) \in 1 .. Len(q)
      BY <1>2, <2>2
    <3>2. Append(q, e)[i - Len(d)] = q[i - Len(d)]
      BY <3>1
    <3> QED
      BY <1>1, <1>2, <2>2, <3>1, <3>2, ConcatProperties
  <2> QED
    BY <1>2, <2>1, <2>2
<1>4. (d \o Append(q, e))[Len(d) + Len(q) + 1] = e
  <2>1. Append(q, e)[Len(q) + 1] = e
    OBVIOUS
  <2>2. (d \o Append(q, e))[Len(d) + Len(q) + 1] = Append(q, e)[Len(d) + Len(q) + 1 - Len(d)]
    BY <1>1, <1>2, ConcatProperties
  <2>3. Len(d) + Len(q) + 1 - Len(d) = Len(q) + 1
    BY <1>2
  <2> QED
    BY <2>1, <2>2, <2>3
<1>5. e.pkt \in Packets
  BY DEF Entry
<1>6. /\ a \in Seq(Packets) /\ Len(a) = Len(d) + Len(q) + 1
      /\ \A i \in 1 .. Len(d) + Len(q) + 1 : a[i] = (d \o Append(q, e))[i].pkt
  BY <1>1, <1>2, PacketsIn
<1>7. /\ c \in Seq(Packets) /\ Len(c) = Len(d) + Len(q)
      /\ \A i \in 1 .. Len(d) + Len(q) : c[i] = (d \o q)[i].pkt
  BY <1>1, <1>2, PacketsIn
<1> HIDE DEF a, c
<1>8. /\ b \in Seq(Packets) /\ Len(b) = Len(c) + 1 /\ b[Len(c) + 1] = e.pkt
      /\ \A i \in 1 .. Len(c) : b[i] = c[i]
  BY <1>5, <1>7
<1> HIDE DEF b
<1>9. ASSUME NEW i \in 1 .. Len(a)
      PROVE  a[i] = b[i]
  <2>1. CASE i \in 1 .. Len(d) + Len(q)
    BY <1>3, <1>6, <1>7, <1>8, <2>1
  <2>2. CASE i = Len(d) + Len(q) + 1
    BY <1>4, <1>6, <1>7, <1>8, <2>2
  <2>3. i \in 1 .. Len(d) + Len(q) \/ i = Len(d) + Len(q) + 1
    <3>1. \A n \in Nat : \A j \in 1 .. n + 1 : j \in 1 .. n \/ j = n + 1
      OBVIOUS
    <3> QED
      BY <1>2, <1>6, <3>1
  <2> QED
    BY <2>1, <2>2, <2>3
<1>10. a = b
  <2>1. Len(a) = Len(b)
    BY <1>2, <1>6, <1>7, <1>8
  <2>2. a \in Seq(Packets) /\ b \in Seq(Packets)
    BY <1>6, <1>8
  <2> QED
    BY <1>9, <2>1, <2>2, SeqEqual
<1> USE DEF a, b, c
<1> QED
  BY <1>10

\* A packet that is taken over into sendingPackets keeps its place.
LEMMA PacketsMove ==
  ASSUME NEW d \in Seq(Entry), NEW q \in Seq(Entry), q # <<>>
  PROVE  Append(d, Head(q)) \o Tail(q) = d \o q
<1>1. /\ Head(q) \in Entry /\ Tail(q) \in Seq(Entry) /\ Append(d, Head(q)) \in Seq(Entry)
      /\ Len(d) \in Nat /\ Len(q) \in Nat \ {0} /\ Len(Tail(q)) = Len(q) - 1
      /\ \A i \in 1 .. Len(Tail(q)) : Tail(q)[i] = q[i + 1]
      /\ Head(q) = q[1]
  OBVIOUS
<1> DEFINE a == Append(d, Head(q)) \o Tail(q)
           b == d \o q
<1>2. a \in Seq(Entry) /\ b \in Seq(Entry) /\ Len(a) = Len(d) + Len(q) /\ Len(b) = Len(d) + Len(q)
  BY <1>1, ConcatProperties
<1>3. \A i \in 1 .. Len(a) : a[i] = b[i]
  BY <1>1, <1>2
<1> QED
  BY <1>2, <1>3, SeqEqual

\* Those of sendingPackets are the oldest.
LEMMA PacketsDone ==
  ASSUME NEW d \in Seq(Entry), NEW q \in Seq(Entry)
  PROVE  /\ Len(d) \in 0 .. Len(PacketsOf(d \o q))
         /\ PacketsOf(<<>> \o q) = SubSeq(PacketsOf(d \o q), Len(d) + 1, Len(PacketsOf(d \o q)))
<1> DEFINE a == PacketsOf(q)
           b == PacketsOf(d \o q)
           c == SubSeq(b, Len(d) + 1, Len(b))
<1>1. d \o q \in Seq(Entry) /\ Len(d \o q) = Len(d) + Len(q) /\ Len(d) \in Nat /\ Len(q) \in Nat
  BY ConcatProperties
<1>2. a \in Seq(Packets) /\ Len(a) = Len(q) /\ b \in Seq(Packets) /\ Len(b) = Len(d) + Len(q)
  BY <1>1, PacketsIn
<1>3. c \in Seq(Packets) /\ Len(c) = Len(q)
  BY <1>1, <1>2
<1>4. ASSUME NEW i \in 1 .. Len(a)
      PROVE  a[i] = c[i]
  <2>1. c[i] = b[Len(d) + i]
    <3>1. \A j \in 1 .. Len(b) - (Len(d) + 1) + 1 : c[j] = b[Len(d) + 1 + j - 1]
      <4>1. \A j \in Len(d) + 1 .. Len(b) : b[j] \in Packets
        BY <1>1, <1>2
      <4>2. Len(d) + 1 \in Int /\ Len(b) \in Int
        BY <1>1, <1>2
      <4> HIDE DEF b
      <4> QED
        BY <4>1, <4>2, SubSeqProperties
    <3> HIDE DEF b, c
    <3>2. Len(d) + 1 + i - 1 = Len(d) + i /\ i \in 1 .. Len(b) - (Len(d) + 1) + 1
      BY <1>1, <1>2
    <3> QED
      BY <3>1, <3>2
  <2>2. b[Len(d) + i] = (d \o q)[Len(d) + i].pkt
    <3>1. Len(d) + i \in 1 .. Len(d \o q)
      BY <1>1, <1>2
    <3> QED
      BY <1>1, <3>1, PacketsIn
  <2>3. (d \o q)[Len(d) + i] = q[i]
    BY <1>1, <1>2
  <2> QED
    BY <1>2, <2>1, <2>2, <2>3, PacketsIn
<1>5. a = c
  BY <1>2, <1>3, <1>4, SeqEqual
<1>6. <<>> \o q = q
  BY ConcatEmptySeq
<1> QED
  BY <1>1, <1>2, <1>5, <1>6

\* Nothing is nothing.
LEMMA PacketsNone ==
  PacketsOf(<<>> \o <<>>) = <<>>
<1>1. <<>> \o <<>> = <<>>
  BY ConcatEmptySeq, EmptySeq
<1>2. Len(<<>>) = 0
  OBVIOUS
<1> QED
  BY <1>1, <1>2 DEF PacketsOf

----------------------------------------------------------------------------
(***************************************************************************)
(* The refinement of SessionService.                                       *)
(***************************************************************************)

\* What a slot has yet to send, and what the session <<g, s>> has.
Waiting(s) == PacketsOf(sending[s] \o sendQ[s])
Queue == [id \in Ids |-> IF sessionID[id[2]] = id THEN Waiting(id[2]) ELSE <<>>]

LEMMA ServiceStutters ==
  ASSUME UNCHANGED <<accepted, released>>, Queue' = Queue
  PROVE  UNCHANGED Service!vars
BY DEF Service!vars, Queue, Waiting

\* Nothing happens to the queues when no slot gets or loses a packet.
LEMMA QueuesStay ==
  ASSUME UNCHANGED sessionID, \A s \in Slots : Waiting(s)' = Waiting(s)
  PROVE  Queue' = Queue
BY DEF Queue

\* What happens to one slot happens to the queue of its session.
LEMMA QueueMoves ==
  ASSUME UNCHANGED sessionID, NEW s \in Slots, sessionID[s] \in Ids, sessionID[s][2] = s,
         \A r \in Slots \ {s} : Waiting(r)' = Waiting(r)
  PROVE  Queue' = [Queue EXCEPT ![sessionID[s]] = Waiting(s)'] /\ Queue[sessionID[s]] = Waiting(s)
<1> DEFINE id == sessionID[s]
<1>1. \A i \in Ids : i[2] = s /\ sessionID[i[2]] = i => i = id
  OBVIOUS
<1>2. ASSUME NEW i \in Ids
      PROVE  Queue'[i] = [Queue EXCEPT ![id] = Waiting(s)'][i]
  <2>1. CASE i = id
    BY <2>1 DEF Queue
  <2>2. CASE i # id
    <3>1. i[2] \in Slots
      OBVIOUS
    <3> QED
      BY <1>1, <2>2, <3>1 DEF Queue
  <2> QED
    BY <2>1, <2>2
<1>3. /\ Queue' = [i \in Ids |-> Queue'[i]]
      /\ [Queue EXCEPT ![id] = Waiting(s)'] = [i \in Ids |-> [Queue EXCEPT ![id] = Waiting(s)'][i]]
  BY DEF Queue
<1>4. Queue[id] = Waiting(s)
  BY DEF Queue
<1>5. Queue' = [Queue EXCEPT ![id] = Waiting(s)']
  BY <1>2, <1>3
<1> QED
  BY <1>4, <1>5

LEMMA ServiceInitMaps == Init => Service!Init
<1> SUFFICES ASSUME Init
             PROVE  Service!Init
  OBVIOUS
<1>1. \A id \in Ids : id[2] \in Slots /\ id # NoId
  OBVIOUS
<1>2. \A id \in Ids : sessionID[id[2]] # id
  BY <1>1 DEF Init
<1>3. accepted = {} /\ released = {}
  BY DEF Init
<1> QED
  BY <1>2, <1>3 DEF Service!Init, Service!Ids
\* What waits after a step.
LEMMA WaitingNext ==
  ASSUME NEW s, NEW d, NEW q, sending'[s] = d, sendQ'[s] = q
  PROVE  Waiting(s)' = PacketsOf(d \o q)
BY DEF Waiting, PacketsOf

\* A step of the service is one of these.
LEMMA ServiceCases ==
  ASSUME NEW id \in Ids,
         \/ Service!Open(id) \/ Service!Close(id)
         \/ \E p \in Packets : Service!Send(id, p)
         \/ \E n \in 1 .. Len(Queue[id]) : Service!Done(id, n)
  PROVE  Service!Next
BY DEF Service!Next, Service!Ids, Queue, Waiting

\* What a step on the send path of slot s leaves in the other slots.
LEMMA WaitElsewhere ==
  ASSUME SafeInv, NEW t \in Threads, QueueStep(t)
  PROVE  /\ slot[t] \in Slots /\ \A r \in Slots \ {slot[t]} : Waiting(r)' = Waiting(r)
         /\ sendQ[slot[t]] \in Seq(Entry) /\ sending[slot[t]] \in Seq(Entry)
         /\ SendTypeOK /\ SessionTypeOK /\ ThreadTypeOK /\ TypeInv /\ Moves(t)
<1>1. TypeInv /\ SendTypeOK /\ SessionTypeOK /\ ThreadTypeOK
  BY DEF SafeInv, TypeInv, TypeOK
<1>2. Moves(t) /\ slot[t] \in Slots /\ \A r \in Slots \ {slot[t]} : Same(r)
  BY <1>1, QueueStepSlot
<1>3. \A r \in Slots : Same(r) => Waiting(r)' = Waiting(r)
  BY DEF Same, Waiting
<1> QED
  BY <1>1, <1>2, <1>3 DEF SendTypeOK

\* OnAccept opens a session: it is newer than all others, no live one lies in
\* its slot, and nothing is queued for it yet.
LEMMA AcNotifyOpens ==
  ASSUME SafeInv, ServiceInv, NEW t \in Threads, AcNotify(t)
  PROVE  Service!Next
<1> DEFINE s == slot[t]
           id == sessionID[s]
<1>1. /\ TypeInv /\ FreshOK /\ KnownOK /\ accepted \subseteq Ids /\ gen \in Int /\ SendTypeOK
  BY DEF SafeInv, TypeInv, TypeOK, ServerTypeOK, ServiceInv
<1>2. /\ s \in Slots /\ pc[t] = "AcNotify" /\ accepted' = accepted \cup {id}
      /\ UNCHANGED <<released, sessionID>>
  BY <1>1, KeySteps DEF KeyStep
<1>3. /\ \A i \in accepted : i[1] < id[1]
      /\ sendQ[s] = <<>> /\ sending[s] = <<>>
  BY <1>1, <1>2 DEF FreshOK, Fresh
<1>4. id \in Ids /\ id[2] = s
  BY <1>1, <1>2 DEF TypeInv, OpenedOK, Opened
<1>5. \A i \in Live : i[2] # s
  <2>1. SUFFICES ASSUME NEW i \in Live, i[2] = s
                 PROVE  FALSE
    OBVIOUS
  <2>2. id = i /\ i \in accepted
    BY <1>1, <2>1 DEF KnownOK, KnownPlaced, Live
  <2>3. id[1] \in Int
    BY <1>4
  <2> QED
    BY <1>3, <2>2, <2>3
<1>6. Queue[id] = <<>>
  BY <1>3, <1>4, PacketsNone DEF Queue, Waiting
<1>7. Queue' = Queue
  BY <1>2, QueuesStay DEF AcNotify, sendVars, Waiting
<1>8. Service!Open(id)
  BY <1>2, <1>3, <1>4, <1>5, <1>6, <1>7 DEF Service!Open, Service!Live, Live, Queue, Waiting
<1> QED
  BY <1>4, <1>8, ServiceCases

\* OnRelease closes a session that has nothing left to send.
LEMMA RelNotifyCloses ==
  ASSUME SafeInv, QueueInv, ServiceInv, NEW t \in Threads, RelNotify(t)
  PROVE  Service!Next
<1> DEFINE s == slot[t]
           id == sessionID[s]
<1>1. TypeInv /\ KnownOK /\ accepted \subseteq Ids /\ OwnerOK
  BY DEF SafeInv, TypeInv, TypeOK, ServerTypeOK, ServiceInv
<1>2. /\ s \in Slots /\ pc[t] = "RelNotify" /\ released' = released \cup {id}
      /\ UNCHANGED <<accepted, sessionID>>
  BY <1>1, KeySteps DEF KeyStep
<1>3. id \in Live /\ id \in Ids
  BY <1>1, <1>2 DEF KnownOK, LeavingKnown, Leaving, LeavingLabels, Live
<1>4. id[2] = s
  BY <1>2, <1>3 DEF ServiceInv, FreshOK
<1>5. flag[s] /\ ~Emptying(s)
  BY <1>1, <1>2 DEF OwnerOK, OwnerFlagged, OwnerUnique, Owns, OwnLabels, Emptying, On
<1>6. sendQ[s] = <<>> /\ sending[s] = <<>>
  BY <1>2, <1>5 DEF QueueInv, QueueOK, EmptyOK
<1>7. Queue[id] = <<>>
  BY <1>3, <1>4, <1>6, PacketsNone DEF Queue, Waiting
<1>8. Queue' = Queue
  BY <1>2, QueuesStay DEF RelNotify, sendVars, Waiting
<1>9. Service!Close(id)
  BY <1>2, <1>3, <1>7, <1>8 DEF Service!Close, Service!Live, Live, Queue, Waiting
<1> QED
  BY <1>3, <1>9, ServiceCases

\* SendPacket queues its packet last, for a session the application knows.
LEMMA EnqLinkSends ==
  ASSUME SafeInv, QueueInv, ServiceInv, NEW t \in Threads, EnqLink(t)
  PROVE  Service!Next
<1> SUFFICES ASSUME NEW s, s = slot[t], NEW p, p = pkt[t], NEW e, e = [pkt |-> p, to |-> arg[t]]
             PROVE  Service!Next
  OBVIOUS
<1> DEFINE id == sessionID[s]
<1>1. /\ s \in Slots /\ \A r \in Slots \ {s} : Waiting(r)' = Waiting(r)
      /\ sendQ[s] \in Seq(Entry) /\ sending[s] \in Seq(Entry)
      /\ SendTypeOK /\ SessionTypeOK /\ ThreadTypeOK /\ TypeInv /\ Moves(t)
  BY WaitElsewhere DEF QueueStep
<1>2. /\ pc[t] = "EnqLink" /\ UNCHANGED <<sending, sessionID, accepted, released>>
      /\ sendQ' = [sendQ EXCEPT ![s] = Append(sendQ[s], e)]
  BY <1>1 DEF EnqLink, At, lifeVars, history
<1>3. p \in Packets /\ arg[t] \in Ids /\ e \in Entry
  BY <1>1, <1>2 DEF TypeInv, ControlOK, ThreadOK, CallOK, Entry
<1>4. ~flag[s] /\ id = arg[t] /\ arg[t] \in accepted
  BY <1>2 DEF SafeInv, LiveOK, Relies, LiveLabels, IdOK, ServiceInv, ArgOK, ArgLabels
<1>5. id \in Ids /\ id[2] = s
  BY <1>1, <1>3, <1>4 DEF ServiceInv, FreshOK
<1>6. id \in Live
  <2>1. ASSUME NEW u \in Threads, Telling(u), slot[u] = s
        PROVE  FALSE
    BY <2>1, FreshUnsent DEF Telling, Fresh
  <2> QED
    BY <1>1, <1>4, <2>1 DEF ServiceInv, KnownOK, LiveKnown
<1>7. Waiting(s)' = Append(Waiting(s), p)
  <2>1. sendQ'[s] = Append(sendQ[s], e) /\ sending'[s] = sending[s] /\ e.pkt = p
    BY <1>1, <1>2 DEF SendTypeOK
  <2>2. SUFFICES ASSUME NEW d, d = sending[s], NEW q, q = sendQ[s], NEW r, r = Append(q, e)
                 PROVE  Waiting(s)' = Append(Waiting(s), p)
    OBVIOUS
  <2>3. d \in Seq(Entry) /\ q \in Seq(Entry) /\ sending'[s] = d /\ sendQ'[s] = r
    BY <1>1, <2>1, <2>2
  <2>4. Waiting(s) = PacketsOf(d \o q)
    BY <2>2 DEF Waiting
  <2>5. Waiting(s)' = PacketsOf(d \o r)
    BY <2>3, WaitingNext
  <2>6. PacketsOf(d \o r) = Append(PacketsOf(d \o q), e.pkt)
    <3>1. PacketsOf(d \o Append(q, e)) = Append(PacketsOf(d \o q), e.pkt)
      BY <1>3, <2>3, PacketsAppend
    <3> QED
      BY <2>2, <3>1, Zenon
  <2> QED
    BY <2>1, <2>4, <2>5, <2>6
<1>8. Queue' = [Queue EXCEPT ![id] = Append(Queue[id], p)]
  BY <1>1, <1>2, <1>5, <1>7, QueueMoves
<1>9. Service!Send(id, p)
  BY <1>2, <1>6, <1>8 DEF Service!Send, Service!Live, Live, Queue, Waiting
<1> QED
  BY <1>3, <1>5, <1>9, ServiceCases

\* SendProc and ReleaseSession give packets back: the oldest ones, or all.
LEMMA FreeDone ==
  ASSUME SafeInv, QueueInv, ServiceInv, NEW t \in Threads, SdFree(t) \/ RelFree(t)
  PROVE  Service!Next \/ UNCHANGED Service!vars
<1> SUFFICES ASSUME NEW s, s = slot[t]
             PROVE  Service!Next \/ UNCHANGED Service!vars
  OBVIOUS
<1> DEFINE id == sessionID[s]
           w == Waiting(s)
<1>1. /\ s \in Slots /\ \A r \in Slots \ {s} : Waiting(r)' = Waiting(r)
      /\ sendQ[s] \in Seq(Entry) /\ sending[s] \in Seq(Entry)
      /\ SendTypeOK /\ SessionTypeOK /\ ThreadTypeOK /\ TypeInv /\ Moves(t)
  BY WaitElsewhere DEF QueueStep
<1>2. UNCHANGED <<sessionID, accepted, released>>
  BY DEF SdFree, RelFree, lifeVars, history
<1>3. sending[s] \o sendQ[s] \in Seq(Entry)
  BY <1>1, ConcatProperties
<1>4. w \in Seq(Packets) /\ Len(w) \in Nat
  BY <1>3, PacketsIn DEF Waiting
<1>5. \E n \in 0 .. Len(w) : Waiting(s)' = SubSeq(w, n + 1, Len(w))
  <2>1. CASE SdFree(t)
    <3>1. sending'[s] = <<>> /\ sendQ'[s] = sendQ[s]
      BY <1>1, <2>1 DEF SdFree, SendTypeOK
    <3>2. Len(sending[s]) \in 0 .. Len(w) /\ Waiting(s)' = SubSeq(w, Len(sending[s]) + 1, Len(w))
      <4>1. Waiting(s)' = PacketsOf(<<>> \o sendQ[s])
        BY <3>1, WaitingNext
      <4> QED
        BY <1>1, <4>1, PacketsDone DEF Waiting
    <3> QED
      BY <3>2
  <2>2. CASE RelFree(t)
    <3>1. sending'[s] = <<>> /\ sendQ'[s] = <<>>
      BY <2>2, RelFreeEmpties
    <3>2. Waiting(s)' = <<>>
      BY <3>1, WaitingNext, PacketsNone
    <3> HIDE DEF w
    <3>3. SubSeq(w, Len(w) + 1, Len(w)) = <<>> /\ Len(w) \in 0 .. Len(w)
      BY <1>4
    <3> QED
      BY <3>2, <3>3
  <2> QED
    BY <2>1, <2>2
<1>6. PICK n \in 0 .. Len(w) : Waiting(s)' = SubSeq(w, n + 1, Len(w))
  BY <1>5
<1>7. CASE Waiting(s)' = w
  BY <1>1, <1>2, <1>7, QueuesStay, ServiceStutters
<1>8. CASE Waiting(s)' # w
  <2>1. n \in 1 .. Len(w)
    <3> HIDE DEF w
    <3>1. SubSeq(w, 1, Len(w)) = w
      BY <1>4, SubSeqFull
    <3>2. n # 0
      BY <1>6, <1>8, <3>1
    <3> QED
      BY <1>4, <3>2
  <2>2. id \in Live
    <3>1. CASE SdFree(t)
      <4>1. ~flag[s]
        BY <3>1 DEF SdFree, At, SafeInv, LiveOK, Relies, LiveLabels
      <4>2. ASSUME NEW u \in Threads, Telling(u), slot[u] = s
            PROVE  FALSE
        <5>1. sendQ[s] = <<>> /\ sending[s] = <<>>
          BY <4>2 DEF Telling, ServiceInv, FreshOK, Fresh
        <5>2. Len(w) = 0
          BY <5>1, PacketsNone DEF Waiting
        <5> QED
          BY <2>1, <5>2
      <4> QED
        BY <1>1, <4>1, <4>2 DEF ServiceInv, KnownOK, LiveKnown
    <3>2. CASE RelFree(t)
      BY <3>2 DEF RelFree, At, ServiceInv, KnownOK, LeavingKnown, Leaving, LeavingLabels
    <3> QED
      BY <3>1, <3>2
  <2>3. id \in Ids /\ id[2] = s
    <3>1. id \in Ids
      BY <2>2 DEF Live, SafeInv, TypeInv, TypeOK, ServerTypeOK
    <3> QED
      BY <1>1, <3>1 DEF ServiceInv, FreshOK
  <2>4. Queue[id] = w /\ Queue' = [Queue EXCEPT ![id] = SubSeq(Queue[id], n + 1, Len(Queue[id]))]
    BY <1>1, <1>2, <1>6, <2>3, QueueMoves
  <2>5. Service!Done(id, n)
    BY <1>2, <2>2, <2>4 DEF Service!Done, Service!Live, Live, Queue, Waiting
  <2>6. n \in 1 .. Len(Queue[id])
    BY <2>1, <2>4
  <2> QED
    BY <2>3, <2>5, <2>6, ServiceCases
<1> QED
  BY <1>7, <1>8
\* Every step of CNetServer is one of the service, or one it does not see.
LEMMA ServiceMaps ==
  ASSUME SafeInv, QueueInv, ServiceInv, NEW t \in Threads, Moves(t)
  PROVE  Service!Next \/ UNCHANGED Service!vars
<1>1. TypeInv
  BY DEF SafeInv
<1>2. CASE AcNotify(t) \/ RelNotify(t) \/ EnqLink(t) \/ SdFree(t) \/ RelFree(t)
  BY <1>2, AcNotifyOpens, RelNotifyCloses, EnqLinkSends, FreeDone
<1>3. CASE QueueStep(t) /\ ~EnqLink(t) /\ ~SdFree(t) /\ ~RelFree(t)
  <2> SUFFICES ASSUME NEW s, s = slot[t]
               PROVE  UNCHANGED Service!vars
    OBVIOUS
  <2>1. /\ s \in Slots /\ \A r \in Slots \ {s} : Waiting(r)' = Waiting(r)
        /\ sendQ[s] \in Seq(Entry) /\ sending[s] \in Seq(Entry)
        /\ SendTypeOK /\ SessionTypeOK /\ Here(t, s)
    BY <1>3, WaitElsewhere, QueueStepFacts
  <2>2. UNCHANGED <<accepted, released>>
    BY <1>3 DEF QueueStep, EnqSize, SpXchg, SpSize, SpClear, SpRecheck, SpDeq, SpUndo, SpInc, SdClear,
       AcInit, history
  <2>3. CASE AcInit(t)
    <3>1. /\ pc[t] = "AcInit" /\ sendQ[s] = <<>> /\ sending[s] = <<>> /\ UNCHANGED sendQ
          /\ sending' = [sending EXCEPT ![s] = <<>>]
          /\ sessionID' = [sessionID EXCEPT ![s] = <<gen + 1, s>>]
      BY <2>3, AcInitFinds DEF AcInit, At
    <3>2. sending'[s] = <<>> /\ sendQ'[s] = <<>>
      BY <2>1, <3>1 DEF SendTypeOK
    <3>3. Waiting(s) = <<>> /\ Waiting(s)' = <<>>
      BY <3>1, <3>2, WaitingNext, PacketsNone DEF Waiting
    <3>4. \A r \in Slots \ {s} : sessionID'[r] = sessionID[r]
      BY <2>1, <3>1 DEF SessionTypeOK
    <3>5. \A i \in Ids : i[2] \in Slots
      OBVIOUS
    <3>6. ASSUME NEW i \in Ids
          PROVE  Queue'[i] = Queue[i]
      <4>1. CASE i[2] = s
        BY <3>3, <4>1 DEF Queue
      <4>2. CASE i[2] # s
        BY <2>1, <3>4, <3>5, <4>2 DEF Queue
      <4> QED
        BY <4>1, <4>2
    <3>7. Queue = [i \in Ids |-> Queue[i]] /\ Queue' = [i \in Ids |-> Queue'[i]]
      BY DEF Queue
    <3>8. Queue' = Queue
      BY <3>6, <3>7
    <3> QED
      BY <2>2, <3>8, ServiceStutters
  <2>4. CASE ~AcInit(t)
    <3>1. UNCHANGED sessionID
      BY <1>3, <2>4 DEF QueueStep, EnqSize, SpXchg, SpSize, SpClear, SpRecheck, SpDeq, SpUndo, SpInc,
         SdClear, lifeVars
    <3>2. Waiting(s)' = Waiting(s)
      <4>1. CASE SpDeq(t) /\ sending' # sending
        <5>1. /\ sendQ[s] # <<>> /\ sending' = [sending EXCEPT ![s] = Append(sending[s], Head(sendQ[s]))]
              /\ sendQ' = [sendQ EXCEPT ![s] = Tail(sendQ[s])]
          BY <4>1 DEF SpDeq
        <5>2. sending'[s] = Append(sending[s], Head(sendQ[s])) /\ sendQ'[s] = Tail(sendQ[s])
          BY <2>1, <5>1 DEF SendTypeOK
        <5>3. Append(sending[s], Head(sendQ[s])) \o Tail(sendQ[s]) = sending[s] \o sendQ[s]
          BY <2>1, <5>1, PacketsMove
        <5> QED
          BY <5>2, <5>3 DEF Waiting
      <4>2. CASE SpDeq(t) /\ sending' = sending
        <5>1. sendQ' = sendQ
          <6>1. ASSUME sendQ[s] # <<>>, sending' = [sending EXCEPT ![s] = Append(sending[s], Head(sendQ[s]))]
                PROVE  FALSE
            <7>1. sending'[s] = Append(sending[s], Head(sendQ[s])) /\ Head(sendQ[s]) \in Entry
              BY <2>1, <6>1, TailEntry DEF SendTypeOK
            <7>2. Len(sending'[s]) = Len(sending[s]) + 1 /\ Len(sending[s]) \in Nat
              BY <2>1, <7>1, AppendEntry
            <7> QED
              BY <4>2, <7>2
          <6> QED
            BY <4>2, <6>1 DEF SpDeq
        <5> QED
          BY <4>2, <5>1 DEF Waiting
      <4>3. CASE SpSize(t)
        <5>1. pc[t] = "SpSize" /\ sendQ' = sendQ
          BY <4>3 DEF SpSize, At
        <5>2. sending[s] = <<>>
          BY <2>1, <5>1 DEF Here, QueueOK, SendingOK, On
        <5>3. sending'[s] = <<>>
          BY <2>1, <4>3, <5>2 DEF SpSize, SendTypeOK
        <5> QED
          BY <5>1, <5>2, <5>3 DEF Waiting
      <4>4. CASE EnqSize(t) \/ SpXchg(t) \/ SpClear(t) \/ SpRecheck(t) \/ SpUndo(t) \/ SpInc(t) \/ SdClear(t)
        BY <4>4 DEF EnqSize, SpXchg, SpClear, SpRecheck, SpUndo, SpInc, SdClear, sendVars, Waiting
      <4> QED
        BY <1>3, <2>4, <4>1, <4>2, <4>3, <4>4 DEF QueueStep
    <3>3. Queue' = Queue
      BY <2>1, <3>1, <3>2, QueuesStay
    <3> QED
      BY <2>2, <3>3, ServiceStutters
  <2> QED
    BY <2>3, <2>4
<1>4. CASE ~QueueStep(t) /\ ~AcNotify(t) /\ ~RelNotify(t)
  <2>1. UNCHANGED <<sendVars, sessionID>>
    BY <1>1, <1>4, OtherSteps
  <2>2. UNCHANGED <<accepted, released>>
    BY <1>1, <1>4, QuietSteps, KeySteps DEF KeyStep, QueueStep
  <2>3. Queue' = Queue
    BY <2>1, QueuesStay DEF sendVars, Waiting
  <2> QED
    BY <2>2, <2>3, ServiceStutters
<1> QED
  BY <1>2, <1>3, <1>4

\* CNetServer implements the service it offers: sessions open once and in
\* order, never two live ones in one slot; SendPacket accepts packets for live
\* sessions only; each session's leave it first in, first out; and a session
\* is closed when nothing is left of it.
THEOREM Implementation == Spec => ImplementsService
<1>1. Init => Service!Init
  BY ServiceInitMaps
<1>2. ASSUME SafeInv, QueueInv, ServiceInv, [Next]_vars
      PROVE  [Service!Next]_Service!vars
  <2>1. CASE \E t \in Threads : Moves(t)
    BY <1>2, <2>1, ServiceMaps
  <2>2. CASE ~ \E t \in Threads : Moves(t)
    <3>1. UNCHANGED <<accepted, released, sendVars, sessionID>>
      BY <1>2, <2>2, OutsideServes
    <3>2. Queue' = Queue
      BY <3>1, QueuesStay DEF sendVars, Waiting
    <3> QED
      BY <3>1, <3>2, ServiceStutters
  <2> QED
    BY <2>1, <2>2
<1>3. SafeInv /\ QueueInv /\ ServiceInv /\ [Next]_vars => [Service!Next]_Service!vars
  BY <1>2
<1>4. Spec => [](SafeInv /\ QueueInv /\ ServiceInv)
  BY Safe, Queues, Serves, PTL
<1> QED
  BY <1>1, <1>3, <1>4, PTL DEF Spec, ImplementsService, Service!Spec
=============================================================================
