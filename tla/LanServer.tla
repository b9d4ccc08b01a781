------------------------------ MODULE LanServer ------------------------------
(***************************************************************************)
(* CLanServer, the server for trusted peers: the sessions and the send     *)
(* path of NetServer, in functions of its own that were copied and then    *)
(* changed in two places.  Its accept thread posts the first receive       *)
(* itself, with an undo of its own when that fails, and its RecvProc       *)
(* refuses no packet.                                                      *)
(*                                                                         *)
(* The actions are those of NetServer; here they are gathered under the    *)
(* functions of CLanServer they are the steps of.                          *)
(***************************************************************************)
EXTENDS NetServer

----------------------------------------------------------------------------
(***************************************************************************)
(* The calls of the application, and the session they work on.             *)
(***************************************************************************)

SendPacket(t) == CallSendPacket(t) \/ EnqLink(t) \/ EnqSize(t)

Disconnect(t) == CallDisconnect(t) \/ DcClose(t)

AcquireSession(t) == AcqInc(t) \/ AcqCheck(t)

ReturnSession(t) == RetDec(t)

ReleaseSession(t) ==
  RelCas(t) \/ RelClose(t) \/ RelFree(t) \/ RelNotify(t) \/ RelPush(t)

----------------------------------------------------------------------------
(***************************************************************************)
(* The worker threads.                                                     *)
(***************************************************************************)

\* WorkerThreadMain, with the branch for errors and for the end of a stream.
TakeCompletion(t) == \E s \in Slots, ty \in IoTypes : Complete(t, s, ty)

\* RecvProc.  A packet that is not yet whole ends the loop; nothing else does.
RpEndOfData(t) ==
  /\ At(t, "RpLoop")
  /\ pkt[t] = NoPacket
  /\ Goto(t, "RecvPost")
  /\ frames' = [frames EXCEPT ![t] = 0]
  /\ UNCHANGED <<lifeVars, sendVars, poolVars, ref, connVars, ioVars, crashed,
                 slot, arg, home, held, pkt, client, history>>

RecvProc(t) == RpEndOfData(t) \/ FreePacket(t) \/ (t \in Workers /\ RecvPost(t))

SendProc(t) == SdFree(t) \/ SdClear(t)

SendPost(t) ==
  \/ SpXchg(t) \/ SpSize(t) \/ SpClear(t) \/ SpRecheck(t)
  \/ SpDeq(t) \/ SpUndo(t) \/ SpInc(t) \/ SpSend(t)

----------------------------------------------------------------------------
(***************************************************************************)
(* The accept thread.  Where NetServer's goes through RecvPost, this one   *)
(* posts the first receive and, should the peer have reset the connection  *)
(* already, takes the reference of the receive back by a plain decrement:  *)
(* it still holds the one it keeps over the whole turn.                    *)
(***************************************************************************)

FirstRecv(t) ==
  /\ t = Acceptor /\ At(t, "RecvPost")
  /\ \/ owner[sock[slot[t]]] \notin reset /\ Post(t, "recv")
     \/ /\ owner[sock[slot[t]]] \in reset
        /\ Goto(t, "AcUndo")
        /\ UNCHANGED <<ioVars, held, callVars, crashed>>
  /\ UNCHANGED <<lifeVars, sendVars, poolVars, ref, connVars, pkt, client, history>>

\* A mutant: the accept thread gives its reference back after the receive has
\* failed, and forgets the one of the receive.
FirstUndoForgets(t) ==
  /\ At(t, "AcUndo")
  /\ held' = [held EXCEPT ![t] = @ - 1]
  /\ Goto(t, "RetDec")
  /\ UNCHANGED <<lifeVars, sendVars, poolVars, ref, connVars, ioVars, crashed,
                 callVars, pkt, client, history>>

FirstUndo(t) ==
  /\ At(t, "AcUndo")
  /\ count' = [count EXCEPT ![slot[t]] = @ - 1]
  /\ held' = [held EXCEPT ![t] = @ - 1]
  /\ Goto(t, "RetDec")
  /\ UNCHANGED <<flag, sessionID, sock, sendVars, poolVars, ref, connVars, ioVars,
                 crashed, callVars, pkt, client, history>>

AcceptTurn(t) ==
  \/ AcPop(t) \/ AcFull(t) \/ AcReject(t) \/ AcInit(t) \/ AcInc(t) \/ AcClear(t)
  \/ AcCount(t) \/ AcNotify(t) \/ AcIncRecv(t) \/ FirstRecv(t) \/ FirstUndo(t)

----------------------------------------------------------------------------
\* What a thread does once it has begun something.
LanStep(t) ==
  \/ (At(t, "EnqLink") \/ At(t, "EnqSize")) /\ SendPacket(t)
  \/ At(t, "DcClose") /\ Disconnect(t)
  \/ AcquireSession(t) \/ ReturnSession(t) \/ ReleaseSession(t)
  \/ RecvProc(t) \/ SendProc(t) \/ SendPost(t) \/ AcceptTurn(t)

LanNext ==
  \/ \E t \in Threads : LanStep(t) \/ CallSendPacket(t) \/ CallDisconnect(t)
  \/ \E t \in Workers : TakeCompletion(t)
  \/ Accept(Acceptor)
  \/ \E s \in Slots, ty \in IoTypes : IoDone(s, ty)
  \/ \E c \in Conns : PeerReset(c)

LanSpec == Init /\ [][LanNext]_vars

LanFairness == SystemFairness /\ \A t \in Threads : WF_vars(LanStep(t))

LanFairSpec == LanSpec /\ LanFairness

----------------------------------------------------------------------------
(***************************************************************************)
(* CLanServer behaves as CNetServer does.                                  *)
(***************************************************************************)

Net == INSTANCE NetServer WITH
  pc <- [t \in Threads |-> IF pc[t] = "AcUndo" THEN "RetDec" ELSE pc[t]]

\* Every step of CLanServer is a step CNetServer could have taken: the copy has
\* not drifted.  What depends on the count is that its unchecked decrement
\* never takes the last reference, where ReturnSession would have released.
ImplementsNet == Net!Spec

=============================================================================
