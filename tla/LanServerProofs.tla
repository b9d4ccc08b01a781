---------------------------- MODULE LanServerProofs ----------------------------
(***************************************************************************)
(* CLanServer implements CNetServer: proofs, for any number of threads,    *)
(* slots and packets.  Every step is compared with the one it was copied   *)
(* from, or replaced; that the plain decrement of the accept thread is one *)
(* of ReturnSession's takes the exact reference count, which is proved of  *)
(* NetServer and holds here through the mapping.                           *)
(***************************************************************************)
EXTENDS LanServer, TLAPS

\* Where a thread of CNetServer stands when its copy does: the mapping of Net.
NetPc == [t \in Threads |-> IF pc[t] = "AcUndo" THEN "RetDec" ELSE pc[t]]

\* What is proved of NetServer, through the same mapping.
NetP == INSTANCE NetServerProofs WITH
  pc <- [t \in Threads |-> IF pc[t] = "AcUndo" THEN "RetDec" ELSE pc[t]]

----------------------------------------------------------------------------
(***************************************************************************)
(* The proofs of NetServer hold of the mapped state.                       *)
(***************************************************************************)

\* Counting means the same there as here.
LEMMA Counting ==
  /\ \A S : NetP!IsFiniteSet(S) <=> IsFiniteSet(S)
  /\ \A S : NetP!Cardinality(S) = Cardinality(S)
  /\ \A S : Net!Cardinality(S) = Cardinality(S)
<1>1. \A S : NetP!IsFiniteSet(S) <=> IsFiniteSet(S)
  BY Zenon DEF NetP!IsFiniteSet, IsFiniteSet
<1>2. \A S : NetP!Cardinality(S) = Cardinality(S) /\ Net!Cardinality(S) = Cardinality(S)
  BY Zenon DEF NetP!Cardinality, Cardinality, Net!Cardinality
<1> QED
  BY <1>1, <1>2

\* The threads are the same.
LEMMA SameThreads == NetP!Threads = Threads
BY DEF NetP!Threads, Threads

\* The inductive invariant of NetServer holds at the start,
LEMMA SafeStart == NetP!Init => NetP!SafeInv
<1>1. \A S : NetP!IsFiniteSet(S) <=> IsFiniteSet(S)
  BY Counting
<1> QED
  BY <1>1, NetP!SafeInit, SameThreads, ThreadAssumption, BoundAssumption, DataAssumption

\* and every step of NetServer keeps it.
LEMMA SafeNext == NetP!SafeInv /\ [NetP!Next]_NetP!vars => NetP!SafeInv'
<1>1. \A S : NetP!IsFiniteSet(S) <=> IsFiniteSet(S)
  BY Counting
<1> QED
  BY <1>1, NetP!SafeStep, SameThreads, ThreadAssumption, BoundAssumption, DataAssumption

----------------------------------------------------------------------------
(***************************************************************************)
(* The invariant of CLanServer's own.                                      *)
(***************************************************************************)

\* The accept thread holds two references when it posts the first receive.
FirstHeld == pc[Acceptor] \in {"RecvPost", "AcUndo"} => held[Acceptor] = 2

LanInv ==
  /\ pc = [t \in Threads |-> pc[t]]
  /\ \A t \in Threads : pc[t] = "AcUndo" => t = Acceptor
  /\ pc[Acceptor] # "RpLoop"
  /\ FirstHeld

\* What the invariant of NetServer says of the accept thread.
AcceptorOK ==
  /\ home[Acceptor] = "Idle"
  /\ home \in [Threads -> {"Idle", "RpLoop"}]
  /\ held \in [Threads -> 0 .. 3]
  /\ pc[Acceptor] = "AcIncRecv" => held[Acceptor] = 1

\* It makes no call inside OnRecv, and keeps one reference over its turn.
LEMMA AcceptorFacts ==
  ASSUME NetP!SafeInv
  PROVE  AcceptorOK
<1>1. NetP!TypeOK /\ NetP!ThreadOK(Acceptor)
  BY DEF NetP!SafeInv, NetP!TypeInv, NetP!ControlOK, NetP!Threads
<1>2. /\ home \in [Threads -> {"Idle", "RpLoop"}]
      /\ held \in [Threads -> 0 .. 3]
      /\ Acceptor \in Threads
  BY <1>1 DEF NetP!TypeOK, NetP!ThreadTypeOK, NetP!Threads, Threads
<1>3. home[Acceptor] # "RpLoop"
  BY <1>1, ThreadAssumption DEF NetP!ThreadOK, NetP!HomeOK
<1>4. ASSUME pc[Acceptor] = "AcIncRecv"
      PROVE  held[Acceptor] = 1
  <2>1. NetPc[Acceptor] = "AcIncRecv" /\ NetP!Base(Acceptor) = 0
    BY <1>2, <1>3, <1>4 DEF NetPc, NetP!Base
  <2> QED
    BY <1>1, <2>1 DEF NetP!ThreadOK, NetP!HeldOK, NetP!NoneHeld, NetP!ReleaseLabels, NetPc
<1> QED
  BY <1>2, <1>3, <1>4 DEF AcceptorOK

\* A reference that is not the thread's only one is not the last of the session.
LEMMA TwoHeld ==
  ASSUME NetP!SafeInv, NEW t \in Threads, NetPc[t] = "RetDec", held[t] = 2
  PROVE  count[slot[t]] # 1
<1>1. NetP!TypeInv /\ NetP!RefExact /\ slot[t] \in NetP!Slots
  BY DEF NetP!SafeInv, NetP!TypeInv, NetP!ControlOK, NetP!Threads, Threads,
         NetP!ThreadOK, NetP!SlotOK, NetPc
<1>2. held[t] >= 2 /\ t \in NetP!Threads
  BY SameThreads
<1>3. \A S : NetP!IsFiniteSet(S) <=> IsFiniteSet(S)
  BY Counting
<1>4. count[slot[t]] >= 2
  BY <1>1, <1>2, <1>3, NetP!HeldAtLeast, SameThreads, ThreadAssumption, BoundAssumption,
     DataAssumption, Zenon
<1> QED
  BY <1>4

\* Every step keeps it: only AcIncRecv sends the accept thread to its receive.
LEMMA LanInvStep ==
  ASSUME AcceptorOK, LanInv, NEW t \in Threads
  PROVE  /\ RecvPost(t) /\ t \in Workers => LanInv'
         /\ CallSendPacket(t) => LanInv'
         /\ CallDisconnect(t) => LanInv'
         /\ FreePacket(t) => LanInv'
         /\ AcqInc(t) => LanInv'
         /\ AcqCheck(t) => LanInv'
         /\ DcClose(t) => LanInv'
         /\ EnqLink(t) => LanInv'
         /\ EnqSize(t) => LanInv'
         /\ RetDec(t) => LanInv'
         /\ RelCas(t) => LanInv'
         /\ RelClose(t) => LanInv'
         /\ RelFree(t) => LanInv'
         /\ RelNotify(t) => LanInv'
         /\ RelPush(t) => LanInv'
         /\ SpXchg(t) => LanInv'
         /\ SpSize(t) => LanInv'
         /\ SpClear(t) => LanInv'
         /\ SpRecheck(t) => LanInv'
         /\ SpDeq(t) => LanInv'
         /\ SpUndo(t) => LanInv'
         /\ SpInc(t) => LanInv'
         /\ SpSend(t) => LanInv'
         /\ SdFree(t) => LanInv'
         /\ SdClear(t) => LanInv'
         /\ AcPop(t) => LanInv'
         /\ AcFull(t) => LanInv'
         /\ AcReject(t) => LanInv'
         /\ AcInit(t) => LanInv'
         /\ AcInc(t) => LanInv'
         /\ AcClear(t) => LanInv'
         /\ AcCount(t) => LanInv'
         /\ AcNotify(t) => LanInv'
         /\ AcIncRecv(t) => LanInv'
         /\ RpEndOfData(t) => LanInv'
         /\ FirstRecv(t) => LanInv'
         /\ FirstUndo(t) => LanInv'
         /\ Accept(t) => LanInv'
         /\ \A s \in Slots, ty \in IoTypes : Complete(t, s, ty) => LanInv'
<1> USE ThreadAssumption DEF AcceptorOK, LanInv, FirstHeld, At, Goto, Leave, Call, Post,
                             MayCall, Threads, callVars
<1>1. RecvPost(t) /\ t \in Workers => LanInv'
  BY DEF RecvPost
<1>2. CallSendPacket(t) => LanInv'
  BY DEF CallSendPacket
<1>3. CallDisconnect(t) => LanInv'
  BY DEF CallDisconnect
<1>4. FreePacket(t) => LanInv'
  BY DEF FreePacket
<1>5. AcqInc(t) => LanInv'
  BY DEF AcqInc
<1>6. AcqCheck(t) => LanInv'
  BY DEF AcqCheck
<1>7. DcClose(t) => LanInv'
  BY DEF DcClose
<1>8. EnqLink(t) => LanInv'
  BY DEF EnqLink
<1>9. EnqSize(t) => LanInv'
  BY DEF EnqSize
<1>10. RetDec(t) => LanInv'
  BY DEF RetDec
<1>11. RelCas(t) => LanInv'
  BY DEF RelCas
<1>12. RelClose(t) => LanInv'
  BY DEF RelClose
<1>13. RelFree(t) => LanInv'
  BY DEF RelFree
<1>14. RelNotify(t) => LanInv'
  BY DEF RelNotify
<1>15. RelPush(t) => LanInv'
  BY DEF RelPush
<1>16. SpXchg(t) => LanInv'
  BY DEF SpXchg
<1>17. SpSize(t) => LanInv'
  BY DEF SpSize
<1>18. SpClear(t) => LanInv'
  BY DEF SpClear
<1>19. SpRecheck(t) => LanInv'
  BY DEF SpRecheck
<1>20. SpDeq(t) => LanInv'
  BY DEF SpDeq
<1>21. SpUndo(t) => LanInv'
  BY DEF SpUndo
<1>22. SpInc(t) => LanInv'
  BY DEF SpInc
<1>23. SpSend(t) => LanInv'
  BY DEF SpSend
<1>24. SdFree(t) => LanInv'
  BY DEF SdFree
<1>25. SdClear(t) => LanInv'
  BY DEF SdClear
<1>26. AcPop(t) => LanInv'
  BY DEF AcPop
<1>27. AcFull(t) => LanInv'
  BY DEF AcFull
<1>28. AcReject(t) => LanInv'
  BY DEF AcReject
<1>29. AcInit(t) => LanInv'
  BY DEF AcInit
<1>30. AcInc(t) => LanInv'
  BY DEF AcInc
<1>31. AcClear(t) => LanInv'
  BY DEF AcClear
<1>39. AcCount(t) => LanInv'
  BY DEF AcCount
<1>32. AcNotify(t) => LanInv'
  BY DEF AcNotify
<1>33. AcIncRecv(t) => LanInv'
  <2>1. CASE t = Acceptor
    <3>1. AcIncRecv(t) => held'[Acceptor] = 2 /\ pc' = [pc EXCEPT ![t] = "RecvPost"]
      BY <2>1 DEF AcIncRecv
    <3> QED
      BY <2>1, <3>1
  <2>2. CASE t # Acceptor
    BY <2>2 DEF AcIncRecv
  <2> QED
    BY <2>1, <2>2
<1>34. RpEndOfData(t) => LanInv'
  BY DEF RpEndOfData
<1>35. FirstRecv(t) => LanInv'
  BY DEF FirstRecv
<1>36. FirstUndo(t) => LanInv'
  BY DEF FirstUndo
<1>37. Accept(t) => LanInv'
  BY DEF Accept
<1>38. ASSUME NEW s \in Slots, NEW ty \in IoTypes
      PROVE  Complete(t, s, ty) => LanInv'
  BY DEF Complete
<1> QED
  BY <1>1, <1>2, <1>3, <1>4, <1>5, <1>6, <1>7, <1>8, <1>9, <1>10, <1>11, <1>12, <1>13,
     <1>14, <1>15, <1>16, <1>17, <1>18, <1>19, <1>20, <1>21, <1>22, <1>23, <1>24, <1>25,
     <1>26, <1>27, <1>28, <1>29, <1>30, <1>31, <1>32, <1>33, <1>34, <1>35, <1>36, <1>37,
     <1>38, <1>39

----------------------------------------------------------------------------
(***************************************************************************)
(* The steps, compared.                                                    *)
(***************************************************************************)

\* What the mapping makes of a step of one thread.
LEMMA Mapped ==
  ASSUME LanInv, AcceptorOK, NEW t \in Threads
  PROVE  /\ \A l : pc' = [pc EXCEPT ![t] = l] /\ l # "AcUndo" => NetPc' = [NetPc EXCEPT ![t] = l]
         /\ UNCHANGED pc => NetPc' = NetPc
         /\ pc[t] # "AcUndo" => NetPc[t] = pc[t]
         /\ home[t] # "AcUndo"
BY DEF LanInv, AcceptorOK, NetPc

\* The calls of the application are copies
LEMMA CallsCopied ==
  ASSUME LanInv, AcceptorOK, NEW t \in Threads
  PROVE  /\ CallSendPacket(t) => Net!CallSendPacket(t) /\ NetP!CallSendPacket(t)
         /\ CallDisconnect(t) => Net!CallDisconnect(t) /\ NetP!CallDisconnect(t)
         /\ FreePacket(t) => Net!FreePacket(t) /\ NetP!FreePacket(t)
         /\ AcqInc(t) => Net!AcqInc(t) /\ NetP!AcqInc(t)
         /\ AcqCheck(t) => Net!AcqCheck(t) /\ NetP!AcqCheck(t)
         /\ DcClose(t) => Net!DcClose(t) /\ NetP!DcClose(t)
         /\ EnqLink(t) => Net!EnqLink(t) /\ NetP!EnqLink(t)
         /\ EnqSize(t) => Net!EnqSize(t) /\ NetP!EnqSize(t)
<1> USE Mapped DEF NetPc, At, Net!At, NetP!At, Goto, Net!Goto, NetP!Goto, Leave,
        Net!Leave, NetP!Leave, Base, Net!Base, NetP!Base, Call, Net!Call, NetP!Call,
        MayCall, Net!MayCall, NetP!MayCall, Known, Net!Known, NetP!Known, Queued,
        Net!Queued, NetP!Queued, CloseSocket, Net!CloseSocket, NetP!CloseSocket,
        AbortOn, Net!AbortOn, NetP!AbortOn, Post, Net!Post, NetP!Post, callVars,
        Net!callVars, NetP!callVars, lifeVars, Net!lifeVars, NetP!lifeVars, sendVars,
        Net!sendVars, NetP!sendVars, poolVars, Net!poolVars, NetP!poolVars, connVars,
        Net!connVars, NetP!connVars, ioVars, Net!ioVars, NetP!ioVars, history,
        Net!history, NetP!history, Slots, Net!Slots, NetP!Slots, IoTypes, Net!IoTypes,
        NetP!IoTypes, Conns, Net!Conns, NetP!Conns, NoConn, Net!NoConn, NetP!NoConn,
        NoId, Net!NoId, NetP!NoId, NoSlot, Net!NoSlot, NetP!NoSlot, Threads,
        Net!Threads, NetP!Threads
<1>1. ASSUME CallSendPacket(t)
      PROVE  Net!CallSendPacket(t) /\ NetP!CallSendPacket(t)
  <2>1. /\ MayCall(t)
        /\ UNCHANGED <<lifeVars, sendVars, poolVars, connVars, ioVars, crashed, held, client, history>>
    BY <1>1 DEF CallSendPacket
  <2>2. PICK id \in Known(t), p \in Packets :
          /\ ~Queued(id[2], p)
          /\ \/ pkt[t] = p /\ t \in Callers /\ UNCHANGED <<pkt, ref>>
             \/ /\ pkt[t] = NoPacket /\ ref[p] = 0
                /\ pkt' = [pkt EXCEPT ![t] = p]
                /\ ref' = [ref EXCEPT ![p] = 1]
          /\ Call(t, id)
    BY <1>1 DEF CallSendPacket
  <2>3. /\ Net!MayCall(t) /\ NetP!MayCall(t)
        /\ Net!Call(t, id) /\ NetP!Call(t, id)
        /\ id \in Net!Known(t) /\ id \in NetP!Known(t)
        /\ ~Net!Queued(id[2], p) /\ ~NetP!Queued(id[2], p)
    BY <2>1, <2>2
  <2> HIDE DEF MayCall, Net!MayCall, NetP!MayCall, Call, Net!Call, NetP!Call, Known, Net!Known,
        NetP!Known, Queued, Net!Queued, NetP!Queued
  <2> QED
    BY <2>1, <2>2, <2>3 DEF Net!CallSendPacket, NetP!CallSendPacket
<1>2. CallDisconnect(t) => Net!CallDisconnect(t) /\ NetP!CallDisconnect(t)
  BY Mapped DEF CallDisconnect, Net!CallDisconnect, NetP!CallDisconnect
<1>3. FreePacket(t) => Net!FreePacket(t) /\ NetP!FreePacket(t)
  BY Mapped DEF FreePacket, Net!FreePacket, NetP!FreePacket
<1>4. AcqInc(t) => Net!AcqInc(t) /\ NetP!AcqInc(t)
  BY Mapped DEF AcqInc, Net!AcqInc, NetP!AcqInc
<1>5. AcqCheck(t) => Net!AcqCheck(t) /\ NetP!AcqCheck(t)
  BY Mapped DEF AcqCheck, Net!AcqCheck, NetP!AcqCheck
<1>6. DcClose(t) => Net!DcClose(t) /\ NetP!DcClose(t)
  BY Mapped DEF DcClose, Net!DcClose, NetP!DcClose
<1>7. EnqLink(t) => Net!EnqLink(t) /\ NetP!EnqLink(t)
  BY Mapped DEF EnqLink, Net!EnqLink, NetP!EnqLink
<1>8. EnqSize(t) => Net!EnqSize(t) /\ NetP!EnqSize(t)
  BY Mapped DEF EnqSize, Net!EnqSize, NetP!EnqSize
<1> QED
  BY <1>1, <1>2, <1>3, <1>4, <1>5, <1>6, <1>7, <1>8

\* and so are the steps of ReturnSession and ReleaseSession,
LEMMA ReleaseCopied ==
  ASSUME LanInv, AcceptorOK, NEW t \in Threads
  PROVE  /\ RetDec(t) => Net!RetDec(t) /\ NetP!RetDec(t)
         /\ RelCas(t) => Net!RelCas(t) /\ NetP!RelCas(t)
         /\ RelClose(t) => Net!RelClose(t) /\ NetP!RelClose(t)
         /\ RelFree(t) => Net!RelFree(t) /\ NetP!RelFree(t)
         /\ RelNotify(t) => Net!RelNotify(t) /\ NetP!RelNotify(t)
         /\ RelPush(t) => Net!RelPush(t) /\ NetP!RelPush(t)
<1> USE Mapped DEF NetPc, At, Net!At, NetP!At, Goto, Net!Goto, NetP!Goto, Leave,
        Net!Leave, NetP!Leave, Base, Net!Base, NetP!Base, Call, Net!Call, NetP!Call,
        MayCall, Net!MayCall, NetP!MayCall, Known, Net!Known, NetP!Known, Queued,
        Net!Queued, NetP!Queued, CloseSocket, Net!CloseSocket, NetP!CloseSocket,
        AbortOn, Net!AbortOn, NetP!AbortOn, Post, Net!Post, NetP!Post, callVars,
        Net!callVars, NetP!callVars, lifeVars, Net!lifeVars, NetP!lifeVars, sendVars,
        Net!sendVars, NetP!sendVars, poolVars, Net!poolVars, NetP!poolVars, connVars,
        Net!connVars, NetP!connVars, ioVars, Net!ioVars, NetP!ioVars, history,
        Net!history, NetP!history, Slots, Net!Slots, NetP!Slots, IoTypes, Net!IoTypes,
        NetP!IoTypes, Conns, Net!Conns, NetP!Conns, NoConn, Net!NoConn, NetP!NoConn,
        NoId, Net!NoId, NetP!NoId, NoSlot, Net!NoSlot, NetP!NoSlot, Threads,
        Net!Threads, NetP!Threads
<1>1. RetDec(t) => Net!RetDec(t) /\ NetP!RetDec(t)
  BY Mapped DEF RetDec, Net!RetDec, NetP!RetDec
<1>2. RelCas(t) => Net!RelCas(t) /\ NetP!RelCas(t)
  BY Mapped DEF RelCas, Net!RelCas, NetP!RelCas
<1>3. RelClose(t) => Net!RelClose(t) /\ NetP!RelClose(t)
  BY Mapped DEF RelClose, Net!RelClose, NetP!RelClose
<1>4. RelFree(t) => Net!RelFree(t) /\ NetP!RelFree(t)
  BY Counting, Mapped DEF RelFree, Net!RelFree, NetP!RelFree, RefsIn, Net!RefsIn, NetP!RefsIn
<1>5. RelNotify(t) => Net!RelNotify(t) /\ NetP!RelNotify(t)
  BY Mapped DEF RelNotify, Net!RelNotify, NetP!RelNotify
<1>6. RelPush(t) => Net!RelPush(t) /\ NetP!RelPush(t)
  BY Mapped DEF RelPush, Net!RelPush, NetP!RelPush
<1> QED
  BY <1>1, <1>2, <1>3, <1>4, <1>5, <1>6

\* those of RecvPost, SendPost and SendProc,
LEMMA SendCopied ==
  ASSUME LanInv, AcceptorOK, NEW t \in Threads
  PROVE  /\ RecvPost(t) => Net!RecvPost(t) /\ NetP!RecvPost(t)
         /\ SpXchg(t) => Net!SpXchg(t) /\ NetP!SpXchg(t)
         /\ SpSize(t) => Net!SpSize(t) /\ NetP!SpSize(t)
         /\ SpClear(t) => Net!SpClear(t) /\ NetP!SpClear(t)
         /\ SpRecheck(t) => Net!SpRecheck(t) /\ NetP!SpRecheck(t)
         /\ SpDeq(t) => Net!SpDeq(t) /\ NetP!SpDeq(t)
         /\ SpUndo(t) => Net!SpUndo(t) /\ NetP!SpUndo(t)
         /\ SpInc(t) => Net!SpInc(t) /\ NetP!SpInc(t)
         /\ SpSend(t) => Net!SpSend(t) /\ NetP!SpSend(t)
         /\ SdFree(t) => Net!SdFree(t) /\ NetP!SdFree(t)
         /\ SdClear(t) => Net!SdClear(t) /\ NetP!SdClear(t)
<1> USE Mapped DEF NetPc, At, Net!At, NetP!At, Goto, Net!Goto, NetP!Goto, Leave,
        Net!Leave, NetP!Leave, Base, Net!Base, NetP!Base, Call, Net!Call, NetP!Call,
        MayCall, Net!MayCall, NetP!MayCall, Known, Net!Known, NetP!Known, Queued,
        Net!Queued, NetP!Queued, CloseSocket, Net!CloseSocket, NetP!CloseSocket,
        AbortOn, Net!AbortOn, NetP!AbortOn, Post, Net!Post, NetP!Post, callVars,
        Net!callVars, NetP!callVars, lifeVars, Net!lifeVars, NetP!lifeVars, sendVars,
        Net!sendVars, NetP!sendVars, poolVars, Net!poolVars, NetP!poolVars, connVars,
        Net!connVars, NetP!connVars, ioVars, Net!ioVars, NetP!ioVars, history,
        Net!history, NetP!history, Slots, Net!Slots, NetP!Slots, IoTypes, Net!IoTypes,
        NetP!IoTypes, Conns, Net!Conns, NetP!Conns, NoConn, Net!NoConn, NetP!NoConn,
        NoId, Net!NoId, NetP!NoId, NoSlot, Net!NoSlot, NetP!NoSlot, Threads,
        Net!Threads, NetP!Threads
<1>1. RecvPost(t) => Net!RecvPost(t) /\ NetP!RecvPost(t)
  BY Mapped DEF RecvPost, Net!RecvPost, NetP!RecvPost
<1>2. SpXchg(t) => Net!SpXchg(t) /\ NetP!SpXchg(t)
  BY Mapped DEF SpXchg, Net!SpXchg, NetP!SpXchg
<1>3. SpSize(t) => Net!SpSize(t) /\ NetP!SpSize(t)
  BY Mapped DEF SpSize, Net!SpSize, NetP!SpSize
<1>4. SpClear(t) => Net!SpClear(t) /\ NetP!SpClear(t)
  BY Mapped DEF SpClear, Net!SpClear, NetP!SpClear
<1>5. SpRecheck(t) => Net!SpRecheck(t) /\ NetP!SpRecheck(t)
  BY Mapped DEF SpRecheck, Net!SpRecheck, NetP!SpRecheck
<1>6. SpDeq(t) => Net!SpDeq(t) /\ NetP!SpDeq(t)
  BY Mapped DEF SpDeq, Net!SpDeq, NetP!SpDeq
<1>7. SpUndo(t) => Net!SpUndo(t) /\ NetP!SpUndo(t)
  BY Mapped DEF SpUndo, Net!SpUndo, NetP!SpUndo
<1>8. SpInc(t) => Net!SpInc(t) /\ NetP!SpInc(t)
  BY Mapped DEF SpInc, Net!SpInc, NetP!SpInc
<1>9. SpSend(t) => Net!SpSend(t) /\ NetP!SpSend(t)
  BY Mapped DEF SpSend, Net!SpSend, NetP!SpSend
<1>10. SdFree(t) => Net!SdFree(t) /\ NetP!SdFree(t)
  BY Counting, Mapped DEF SdFree, Net!SdFree, NetP!SdFree, RefsIn, Net!RefsIn, NetP!RefsIn
<1>11. SdClear(t) => Net!SdClear(t) /\ NetP!SdClear(t)
  BY Mapped DEF SdClear, Net!SdClear, NetP!SdClear
<1> QED
  BY <1>1, <1>2, <1>3, <1>4, <1>5, <1>6, <1>7, <1>8, <1>9, <1>10, <1>11

\* and those of the accept thread up to its first receive.
LEMMA AcceptCopied ==
  ASSUME LanInv, AcceptorOK, NEW t \in Threads
  PROVE  /\ Accept(t) => Net!Accept(t) /\ NetP!Accept(t)
         /\ AcPop(t) => Net!AcPop(t) /\ NetP!AcPop(t)
         /\ AcFull(t) => Net!AcFull(t) /\ NetP!AcFull(t)
         /\ AcReject(t) => Net!AcReject(t) /\ NetP!AcReject(t)
         /\ AcInit(t) => Net!AcInit(t) /\ NetP!AcInit(t)
         /\ AcInc(t) => Net!AcInc(t) /\ NetP!AcInc(t)
         /\ AcClear(t) => Net!AcClear(t) /\ NetP!AcClear(t)
         /\ AcCount(t) => Net!AcCount(t) /\ NetP!AcCount(t)
         /\ AcNotify(t) => Net!AcNotify(t) /\ NetP!AcNotify(t)
         /\ AcIncRecv(t) => Net!AcIncRecv(t) /\ NetP!AcIncRecv(t)
<1> USE Mapped DEF NetPc, At, Net!At, NetP!At, Goto, Net!Goto, NetP!Goto, Leave,
        Net!Leave, NetP!Leave, Base, Net!Base, NetP!Base, Call, Net!Call, NetP!Call,
        MayCall, Net!MayCall, NetP!MayCall, Known, Net!Known, NetP!Known, Queued,
        Net!Queued, NetP!Queued, CloseSocket, Net!CloseSocket, NetP!CloseSocket,
        AbortOn, Net!AbortOn, NetP!AbortOn, Post, Net!Post, NetP!Post, callVars,
        Net!callVars, NetP!callVars, lifeVars, Net!lifeVars, NetP!lifeVars, sendVars,
        Net!sendVars, NetP!sendVars, poolVars, Net!poolVars, NetP!poolVars, connVars,
        Net!connVars, NetP!connVars, ioVars, Net!ioVars, NetP!ioVars, history,
        Net!history, NetP!history, Slots, Net!Slots, NetP!Slots, IoTypes, Net!IoTypes,
        NetP!IoTypes, Conns, Net!Conns, NetP!Conns, NoConn, Net!NoConn, NetP!NoConn,
        NoId, Net!NoId, NetP!NoId, NoSlot, Net!NoSlot, NetP!NoSlot, Threads,
        Net!Threads, NetP!Threads
<1>1. Accept(t) => Net!Accept(t) /\ NetP!Accept(t)
  BY Mapped DEF Accept, Net!Accept, NetP!Accept
<1>2. AcPop(t) => Net!AcPop(t) /\ NetP!AcPop(t)
  BY Mapped DEF AcPop, Net!AcPop, NetP!AcPop
<1>3. AcFull(t) => Net!AcFull(t) /\ NetP!AcFull(t)
  BY Mapped DEF AcFull, Net!AcFull, NetP!AcFull
<1>4. AcReject(t) => Net!AcReject(t) /\ NetP!AcReject(t)
  BY Mapped DEF AcReject, Net!AcReject, NetP!AcReject
<1>5. AcInit(t) => Net!AcInit(t) /\ NetP!AcInit(t)
  BY Mapped DEF AcInit, Net!AcInit, NetP!AcInit
<1>6. AcInc(t) => Net!AcInc(t) /\ NetP!AcInc(t)
  BY Mapped DEF AcInc, Net!AcInc, NetP!AcInc
<1>7. AcClear(t) => Net!AcClear(t) /\ NetP!AcClear(t)
  BY Mapped DEF AcClear, Net!AcClear, NetP!AcClear
<1>10. AcCount(t) => Net!AcCount(t) /\ NetP!AcCount(t)
  BY Mapped DEF AcCount, Net!AcCount, NetP!AcCount
<1>8. AcNotify(t) => Net!AcNotify(t) /\ NetP!AcNotify(t)
  BY Mapped DEF AcNotify, Net!AcNotify, NetP!AcNotify
<1>9. AcIncRecv(t) => Net!AcIncRecv(t) /\ NetP!AcIncRecv(t)
  BY Mapped DEF AcIncRecv, Net!AcIncRecv, NetP!AcIncRecv
<1> QED
  BY <1>1, <1>2, <1>3, <1>4, <1>5, <1>6, <1>7, <1>8, <1>9, <1>10

\* RecvProc refuses nothing, which its original may do; the first receive is a
\* RecvPost; and the undo of the accept thread is a ReturnSession that does not
\* take the last reference.
LEMMA OwnSteps ==
  ASSUME LanInv, AcceptorOK, NEW t \in Threads
  PROVE  /\ RpEndOfData(t) => Net!RpEnd(t) /\ NetP!RpEnd(t)
         /\ FirstRecv(t) => Net!RecvPost(t) /\ NetP!RecvPost(t)
         /\ FirstUndo(t) /\ count[slot[t]] # 1 => Net!RetDec(t) /\ NetP!RetDec(t)
         /\ \A s \in Slots, ty \in IoTypes :
              Complete(t, s, ty) => Net!Complete(t, s, ty) /\ NetP!Complete(t, s, ty)
<1> USE Mapped DEF NetPc, At, Net!At, NetP!At, Goto, Net!Goto, NetP!Goto, Leave,
        Net!Leave, NetP!Leave, Base, Net!Base, NetP!Base, Call, Net!Call, NetP!Call,
        MayCall, Net!MayCall, NetP!MayCall, Known, Net!Known, NetP!Known, Queued,
        Net!Queued, NetP!Queued, CloseSocket, Net!CloseSocket, NetP!CloseSocket,
        AbortOn, Net!AbortOn, NetP!AbortOn, Post, Net!Post, NetP!Post, callVars,
        Net!callVars, NetP!callVars, lifeVars, Net!lifeVars, NetP!lifeVars, sendVars,
        Net!sendVars, NetP!sendVars, poolVars, Net!poolVars, NetP!poolVars, connVars,
        Net!connVars, NetP!connVars, ioVars, Net!ioVars, NetP!ioVars, history,
        Net!history, NetP!history, Slots, Net!Slots, NetP!Slots, IoTypes, Net!IoTypes,
        NetP!IoTypes, Conns, Net!Conns, NetP!Conns, NoConn, Net!NoConn, NetP!NoConn,
        NoId, Net!NoId, NetP!NoId, NoSlot, Net!NoSlot, NetP!NoSlot, Threads,
        Net!Threads, NetP!Threads
<1>1. RpEndOfData(t) => Net!RpEnd(t) /\ NetP!RpEnd(t)
  BY Mapped DEF RpEndOfData, Net!RpEnd, NetP!RpEnd
<1>2. ASSUME FirstRecv(t)
      PROVE  Net!RecvPost(t) /\ NetP!RecvPost(t)
  <2>1. pc' = [pc EXCEPT ![t] = "AcUndo"] => NetPc' = [NetPc EXCEPT ![t] = "RetDec"]
    BY DEF LanInv, NetPc
  <2>2. CASE owner[sock[slot[t]]] \in reset
    BY <1>2, <2>1, <2>2 DEF FirstRecv, Net!RecvPost, NetP!RecvPost
  <2>3. CASE owner[sock[slot[t]]] \notin reset
    <3>1. At(t, "RecvPost") /\ Net!At(t, "RecvPost") /\ NetP!At(t, "RecvPost")
      BY <1>2 DEF FirstRecv
    <3>2. Post(t, "recv")
      BY <1>2, <2>3 DEF FirstRecv
    <3>3. Net!Post(t, "recv")
      BY <3>2
    <3>4. NetP!Post(t, "recv")
      BY <3>2
    <3>5. UNCHANGED <<lifeVars, sendVars, poolVars, ref, connVars, pkt, client, history>>
      BY <1>2 DEF FirstRecv
    <3> HIDE DEF Post, Net!Post, NetP!Post, At, Net!At, NetP!At
    <3>6. Net!RecvPost(t)
      BY <3>1, <3>3, <3>5 DEF Net!RecvPost
    <3>7. NetP!RecvPost(t)
      BY <3>1, <3>4, <3>5 DEF NetP!RecvPost
    <3> QED
      BY <3>6, <3>7
  <2> QED
    BY <2>2, <2>3
<1>3. ASSUME FirstUndo(t), count[slot[t]] # 1
      PROVE  Net!RetDec(t) /\ NetP!RetDec(t)
  <2>1. t = Acceptor /\ held[t] = 2 /\ home[t] = "Idle" /\ NetPc[t] = "RetDec"
    BY <1>3 DEF FirstUndo, LanInv, FirstHeld, AcceptorOK
  <2>2. NetPc' = [NetPc EXCEPT ![t] = "RetDec"] /\ UNCHANGED callVars
    BY <1>3, Mapped DEF FirstUndo
  <2>3. Net!Leave(t, held[t] - 1) /\ NetP!Leave(t, held[t] - 1)
    BY <2>1, <2>2
  <2>4. Net!At(t, "RetDec") /\ NetP!At(t, "RetDec")
    BY <1>3, <2>1 DEF FirstUndo
  <2> HIDE DEF Net!Leave, NetP!Leave, Net!At, NetP!At, NetPc
  <2> QED
    BY <1>3, <2>1, <2>3, <2>4 DEF FirstUndo, Net!RetDec, NetP!RetDec
<1>4. ASSUME NEW s \in Slots, NEW ty \in IoTypes
      PROVE  Complete(t, s, ty) => Net!Complete(t, s, ty) /\ NetP!Complete(t, s, ty)
  BY Mapped DEF Complete, Net!Complete, NetP!Complete
<1> QED
  BY <1>1, <1>2, <1>3, <1>4

\* Windows and the peers do the same to both.
LEMMA OutsideSteps ==
  /\ \A s \in Slots, ty \in IoTypes : IoDone(s, ty) => Net!IoDone(s, ty) /\ NetP!IoDone(s, ty)
  /\ \A c \in Conns : PeerReset(c) => Net!PeerReset(c) /\ NetP!PeerReset(c)
  /\ Init => Net!Init /\ NetP!Init /\ LanInv
  /\ UNCHANGED vars => UNCHANGED Net!vars /\ UNCHANGED NetP!vars /\ (LanInv => LanInv')
<1> USE DEF AbortOn, Net!AbortOn, NetP!AbortOn, callVars, Net!callVars, NetP!callVars,
            lifeVars, Net!lifeVars, NetP!lifeVars, sendVars, Net!sendVars,
            NetP!sendVars, poolVars, Net!poolVars, NetP!poolVars, connVars,
            Net!connVars, NetP!connVars, ioVars, Net!ioVars, NetP!ioVars, history,
            Net!history, NetP!history, Slots, Net!Slots, NetP!Slots, IoTypes,
            Net!IoTypes, NetP!IoTypes, Conns, Net!Conns, NetP!Conns, NoConn, Net!NoConn,
            NetP!NoConn, NoId, Net!NoId, NetP!NoId, NoSlot, Net!NoSlot, NetP!NoSlot,
            Threads, Net!Threads, NetP!Threads
<1>1. ASSUME NEW s \in Slots, NEW ty \in IoTypes
      PROVE  IoDone(s, ty) => Net!IoDone(s, ty) /\ NetP!IoDone(s, ty)
  BY DEF IoDone, Net!IoDone, NetP!IoDone
<1>2. ASSUME NEW c \in Conns
      PROVE  PeerReset(c) => Net!PeerReset(c) /\ NetP!PeerReset(c)
  BY DEF PeerReset, Net!PeerReset, NetP!PeerReset
<1>3. Init => Net!Init /\ NetP!Init
  BY DEF Init, Net!Init, NetP!Init
<1>4. Init => LanInv
  BY DEF Init, LanInv, FirstHeld
<1>5. UNCHANGED vars => UNCHANGED Net!vars /\ UNCHANGED NetP!vars
  BY DEF vars, Net!vars, NetP!vars
<1>6. UNCHANGED vars => (LanInv => LanInv')
  BY DEF vars, LanInv, FirstHeld
<1> QED
  BY <1>1, <1>2, <1>3, <1>4, <1>5, <1>6

\* A step of CLanServer is one of CNetServer.
LEMMA LanMaps ==
  ASSUME NetP!SafeInv, LanInv, [LanNext]_vars
  PROVE  [Net!Next]_Net!vars /\ [NetP!Next]_NetP!vars /\ LanInv'
<1>0. AcceptorOK
  BY AcceptorFacts
<1> USE DEF Net!Next, NetP!Next
<1>1. ASSUME NEW t \in Threads, LanStep(t)
      PROVE  Net!Next /\ NetP!Next /\ LanInv'
  <2> USE <1>0, SameThreads DEF Net!Step, NetP!Step, Net!Threads, Threads
  <2>1. CASE \/ EnqLink(t) \/ EnqSize(t) \/ DcClose(t) \/ AcqInc(t) \/ AcqCheck(t)
             \/ CallSendPacket(t) \/ CallDisconnect(t)
    BY <2>1, CallsCopied, LanInvStep DEF Net!Begin, NetP!Begin
  <2>2. CASE ReturnSession(t) \/ ReleaseSession(t)
    BY <2>2, ReleaseCopied, LanInvStep DEF ReturnSession, ReleaseSession
  <2>3. CASE RpEndOfData(t)
    BY <2>3, OwnSteps, LanInvStep
  <2>4. CASE FreePacket(t)
    BY <2>4, CallsCopied, LanInvStep
  <2>5. CASE t \in Workers /\ RecvPost(t)
    BY <2>5, SendCopied, LanInvStep
  <2>6. CASE SendProc(t) \/ SendPost(t)
    BY <2>6, SendCopied, LanInvStep DEF SendProc, SendPost
  <2>7. CASE AcceptTurn(t) /\ ~FirstUndo(t)
    BY <2>7, AcceptCopied, OwnSteps, LanInvStep DEF AcceptTurn
  <2>8. CASE FirstUndo(t)
    <3>1. NetPc[t] = "RetDec" /\ held[t] = 2
      BY <2>8 DEF FirstUndo, At, LanInv, FirstHeld, NetPc
    <3> QED
      BY <2>8, <3>1, TwoHeld, OwnSteps, LanInvStep
  <2> QED
    BY <1>1, <2>1, <2>2, <2>3, <2>4, <2>5, <2>6, <2>7, <2>8
       DEF LanStep, SendPacket, Disconnect, AcquireSession, RecvProc
<1>2. ASSUME NEW t \in Threads, CallSendPacket(t) \/ CallDisconnect(t)
      PROVE  Net!Next /\ NetP!Next /\ LanInv'
  BY <1>0, <1>2, CallsCopied, LanInvStep, SameThreads DEF Net!Begin, NetP!Begin, Net!Threads, Threads
<1>3. ASSUME NEW t \in Workers, TakeCompletion(t)
      PROVE  Net!Next /\ NetP!Next /\ LanInv'
  BY <1>0, <1>3, OwnSteps, LanInvStep
     DEF TakeCompletion, Net!Begin, NetP!Begin, Net!Slots, NetP!Slots, Slots, Net!IoTypes, NetP!IoTypes, IoTypes, Threads
<1>4. ASSUME Accept(Acceptor)
      PROVE  Net!Next /\ NetP!Next /\ LanInv'
  BY <1>0, <1>4, AcceptCopied, LanInvStep, SameThreads DEF Net!Begin, NetP!Begin, Net!Threads, Threads
<1>5. ASSUME NEW s \in Slots, NEW ty \in IoTypes, IoDone(s, ty)
      PROVE  Net!Next /\ NetP!Next /\ LanInv'
  <2>1. LanInv'
    BY <1>5 DEF IoDone, LanInv, FirstHeld
  <2> QED
    BY <1>5, <2>1, OutsideSteps
       DEF Net!Begin, NetP!Begin, Net!Slots, NetP!Slots, Slots, Net!IoTypes, NetP!IoTypes, IoTypes
<1>6. ASSUME NEW c \in Conns, PeerReset(c)
      PROVE  Net!Next /\ NetP!Next /\ LanInv'
  <2>1. LanInv'
    BY <1>6 DEF PeerReset, LanInv, FirstHeld, callVars
  <2> QED
    BY <1>6, <2>1, OutsideSteps DEF Net!Begin, NetP!Begin, Net!Conns, NetP!Conns, Conns
<1>7. CASE UNCHANGED vars
  BY <1>7, OutsideSteps
<1> QED
  BY <1>1, <1>2, <1>3, <1>4, <1>5, <1>6, <1>7 DEF LanNext

----------------------------------------------------------------------------
(***************************************************************************)
(* The theorems.                                                           *)
(***************************************************************************)

\* Both invariants hold throughout.
LEMMA LanSafe == LanSpec => [](NetP!SafeInv /\ LanInv)
<1>1. Init => NetP!SafeInv /\ LanInv
  BY OutsideSteps, SafeStart
<1>2. NetP!SafeInv /\ LanInv /\ [LanNext]_vars => (NetP!SafeInv /\ LanInv)'
  BY LanMaps, SafeNext
<1> QED
  BY <1>1, <1>2, PTL DEF LanSpec

\* Every behaviour of CLanServer is one of CNetServer: what was changed in the
\* copy, the first receive and its undo, is within what the original may do.
THEOREM LanImplements == LanSpec => ImplementsNet
<1>1. Init => Net!Init
  BY OutsideSteps
<1>2. NetP!SafeInv /\ LanInv /\ [LanNext]_vars => [Net!Next]_Net!vars
  BY LanMaps
<1> QED
  BY <1>1, <1>2, LanSafe, PTL DEF LanSpec, ImplementsNet, Net!Spec

\* So what is proved of CNetServer is true of it.
LEMMA LanIsNet == LanSpec => NetP!Spec
<1>1. Init => NetP!Init
  BY OutsideSteps
<1>2. NetP!SafeInv /\ LanInv /\ [LanNext]_vars => [NetP!Next]_NetP!vars
  BY LanMaps
<1> QED
  BY <1>1, <1>2, LanSafe, PTL DEF LanSpec, NetP!Spec

\* The assumptions of NetServer on its constants are those of CLanServer.
LEMMA Assumed == NetP!ThreadAssumption /\ NetP!DataAssumption /\ NetP!BoundAssumption
BY Counting, SameThreads, ThreadAssumption, DataAssumption, BoundAssumption
   DEF NetP!ThreadAssumption, NetP!DataAssumption, NetP!BoundAssumption

\* A slot of CLanServer is in the index stack once, or in use by one session, or
\* in the hands of one thread.
THEOREM LanSlots == LanSpec => []OneOwner
<1>1. NetP!Spec => []NetP!OneOwner
  BY NetP!SlotOwnership, Assumed
<1>2. NetP!OneOwner => OneOwner
  <2>1. NetP!Slots = Slots
    BY DEF NetP!Slots, Slots
  <2>2. ASSUME NEW s \in Slots
        PROVE  NetP!SlotOwners(s) = SlotOwners(s)
    <3>1. \A u \in Threads : NetP!Releasing(u) \/ NetP!Claiming(u) <=> Releasing(u) \/ Claiming(u)
      BY DEF NetP!Releasing, NetP!Claiming, Releasing, Claiming
    <3> QED
      BY <3>1, SameThreads DEF NetP!SlotOwners, SlotOwners
  <2> QED
    BY <2>1, <2>2, Counting DEF NetP!OneOwner, OneOwner
<1> QED
  BY <1>1, <1>2, LanIsNet, PTL

\* GetSessionCount of CLanServer is the number of sessions the application was
\* told of and not yet told of the end of, and one more before the notice of an
\* accepted session, one less before that of a released one.
THEOREM LanSessionCount == LanSpec => []SessionCountExact
<1>1. NetP!Spec => []NetP!SessionCountExact
  BY NetP!CountOfSessions, Assumed
<1>2. NetP!SessionCountExact => SessionCountExact
  <2>1. /\ {t \in NetP!Threads : NetPc[t] = "AcNotify"} = {t \in Threads : pc[t] = "AcNotify"}
        /\ {t \in NetP!Threads : NetPc[t] = "RelNotify"} = {t \in Threads : pc[t] = "RelNotify"}
    BY SameThreads DEF NetPc
  <2> QED
    BY <2>1, Counting, SameThreads DEF NetP!SessionCountExact, SessionCountExact, NetPc
<1> QED
  BY <1>1, <1>2, LanIsNet, PTL

=============================================================================
