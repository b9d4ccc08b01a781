------------------------------ MODULE NetServer ------------------------------
(***************************************************************************)
(* The session life cycle and the send path of CNetServer: an array of     *)
(* sessions shared by an accept thread, the worker threads of the          *)
(* completion port and the threads of the application that call SendPacket *)
(* and Disconnect.  Nothing is locked; a session is kept alive by ioCount, *)
(* whose top bit (RELEASE_FLAG) says that the slot is not in use.          *)
(*                                                                         *)
(* One action is one Interlocked operation or one access to memory another *)
(* thread can see; accesses that only the acting thread can see are part   *)
(* of the next visible one.  Windows is modelled from how the code uses    *)
(* it: SOCKET values are reused, closing a socket aborts what is pending   *)
(* on its connection, a peer may reset its connection at any time.         *)
(***************************************************************************)
EXTENDS Integers, Sequences, FiniteSets

CONSTANTS
  Acceptor,        \* the accept thread
  Workers,         \* the worker threads
  Callers,         \* threads of the application, e.g. a contents thread
  Handles,         \* the SOCKET values the system hands out, again and again
  Packets,         \* the packets of the pool
  MaxSessionCount, \* m_maxSessionCount: the length of m_sessions
  MaxSendPacket,   \* Session::MAX_SEND_PACKET
  MaxGen,          \* bound: how many sessions are accepted
  MaxFrames,       \* bound: packets of one receive that the handler answers
  NoPacket,        \* no packet
  NoHandle         \* INVALID_SOCKET

Threads == {Acceptor} \cup Workers \cup Callers

ASSUME ThreadAssumption ==
  /\ Acceptor \notin Workers \cup Callers
  /\ Workers \cap Callers = {}
  /\ IsFiniteSet(Threads)

ASSUME DataAssumption ==
  /\ NoPacket \notin Packets
  /\ NoHandle \notin Handles
  /\ IsFiniteSet(Packets)

ASSUME BoundAssumption ==
  /\ MaxSessionCount \in Nat \ {0}
  /\ MaxSendPacket \in Nat \ {0}
  /\ MaxGen \in Nat
  /\ MaxFrames \in Nat

Slots   == 0 .. MaxSessionCount - 1
NoSlot  == -1
IoTypes == {"recv", "send"}

\* sessionID: the value of the generator in the high bits, the slot in the low
\* ones.  The connection accepted for the session <<g, s>> is named g.
Ids    == (1 .. MaxGen) \X Slots
NoId   == <<0, 0>>
Conns  == 1 .. MaxGen
NoConn == 0

VARIABLES
  \* Session
  count,        \* [Slots -> Int]: ioCount without its top bit
  flag,         \* [Slots -> BOOLEAN]: RELEASE_FLAG, the top bit of ioCount
  sessionID,    \* [Slots -> Ids \cup {NoId}]
  sock,         \* [Slots -> Handles \cup {NoHandle}]
  isSending,    \* [Slots -> BOOLEAN]
  sendQ,        \* [Slots -> Seq of Entry]: the packets linked in sendQ
  qsize,        \* [Slots -> Int]: sendQ._size, which lags behind the links
  sending,      \* [Slots -> Seq of Entry]: sendingPackets, as far as written
  sendingCount, \* [Slots -> Nat]
  \* CNetServer
  indexStack,   \* m_indexStack, its top first
  gen,          \* m_sessionIDGenerator
  sessionCount, \* m_sessionCount
  \* Packet
  ref,          \* [Packets -> Int]: the reference count
  \* Windows
  owner,        \* [Handles -> Conns \cup {NoConn}]: what a SOCKET names now
  reset,        \* the open connections their peer has reset
  io,           \* [Slots -> [IoTypes -> state of the OVERLAPPED]]
  ioOn,         \* [Slots -> [IoTypes -> connection it is pending on]]
  crashed,      \* a __debugbreak() was reached
  \* each thread
  pc,
  slot,         \* the session it works on
  arg,          \* the sessionID SendPacket or Disconnect was called with
  home,         \* where that call returns to
  held,         \* how many references of that session it has yet to give back
  pkt,          \* the packet the application holds
  frames,       \* answers it may still give to what it received
  client,       \* client_sock of the accept thread
  \* history
  accepted,     \* sessions OnAccept was called for
  released      \* sessions OnRelease was called for

lifeVars == <<count, flag, sessionID, sock>>
sendVars == <<isSending, sendQ, qsize, sending, sendingCount>>
poolVars == <<indexStack, gen, sessionCount>>
connVars == <<owner, reset>>
ioVars   == <<io, ioOn>>
callVars == <<slot, arg, home, frames>>
history  == <<accepted, released>>

vars == <<lifeVars, sendVars, poolVars, ref, connVars, ioVars, crashed,
          pc, callVars, held, pkt, client, history>>

Entry == [pkt : Packets, to : Ids]

----------------------------------------------------------------------------
(***************************************************************************)
(* Helpers.                                                                *)
(***************************************************************************)

\* A thread is at a label, and the process has not stopped.
At(t, label) == ~crashed /\ pc[t] = label

Goto(t, label) == pc' = [pc EXCEPT ![t] = label]

\* A handler of OnRecv runs inside RecvProc, which holds the reference of the
\* receive; a call of the application gives back the others.
Base(t) == IF home[t] = "RpLoop" THEN 1 ELSE 0

\* What a thread does next when it has n references left: give back another
\* one, or return from the call.
Leave(t, n) ==
  IF n > Base(t)
  THEN Goto(t, "RetDec") /\ UNCHANGED callVars
  ELSE /\ Goto(t, home[t])
       /\ slot' = [slot EXCEPT ![t] = IF home[t] = "RpLoop" THEN @ ELSE NoSlot]
       /\ arg'  = [arg EXCEPT ![t] = NoId]
       /\ home' = [home EXCEPT ![t] = "Idle"]
       /\ UNCHANGED frames

\* How many of the first n entries of q are references of p.
RefsIn(q, n, p) == Cardinality({i \in 1 .. n : q[i].pkt = p})

\* What is pending on connection c fails.
AbortOn(c) ==
  LET aborted(s, ty) == io[s][ty] = "posted" /\ ioOn[s][ty] = c
  IN  /\ io' = [s \in Slots |-> [ty \in IoTypes |->
                  IF aborted(s, ty) THEN "err" ELSE io[s][ty]]]
      /\ ioOn' = [s \in Slots |-> [ty \in IoTypes |->
                  IF aborted(s, ty) THEN NoConn ELSE ioOn[s][ty]]]

\* closesocket(h): the handle is free, what was pending on its connection is
\* aborted.  On a handle that names nothing it only fails.
CloseSocket(h) ==
  /\ owner' = [owner EXCEPT ![h] = NoConn]
  /\ reset' = reset \ {owner[h]}
  /\ AbortOn(owner[h])

----------------------------------------------------------------------------
(***************************************************************************)
(* The initial state: Start has built the session array and started the    *)
(* threads.                                                                *)
(***************************************************************************)

Init ==
  /\ count = [s \in Slots |-> 0]
  /\ flag = [s \in Slots |-> TRUE]
  /\ sessionID = [s \in Slots |-> NoId]
  /\ sock = [s \in Slots |-> NoHandle]
  /\ isSending = [s \in Slots |-> FALSE]
  /\ sendQ = [s \in Slots |-> <<>>]
  /\ qsize = [s \in Slots |-> 0]
  /\ sending = [s \in Slots |-> <<>>]
  /\ sendingCount = [s \in Slots |-> 0]
  /\ indexStack = [i \in 1 .. MaxSessionCount |-> i - 1]
  /\ gen = 0
  /\ sessionCount = 0
  /\ ref = [p \in Packets |-> 0]
  /\ owner = [h \in Handles |-> NoConn]
  /\ reset = {}
  /\ io = [s \in Slots |-> [ty \in IoTypes |-> "idle"]]
  /\ ioOn = [s \in Slots |-> [ty \in IoTypes |-> NoConn]]
  /\ crashed = FALSE
  /\ pc = [t \in Threads |-> "Idle"]
  /\ slot = [t \in Threads |-> NoSlot]
  /\ arg = [t \in Threads |-> NoId]
  /\ home = [t \in Threads |-> "Idle"]
  /\ held = [t \in Threads |-> 0]
  /\ pkt = [t \in Threads |-> NoPacket]
  /\ frames = [t \in Threads |-> 0]
  /\ client = NoHandle
  /\ accepted = {}
  /\ released = {}

----------------------------------------------------------------------------
(***************************************************************************)
(* The calls of the application.  A thread of the application holds at     *)
(* most one packet; it may send it to several sessions (a broadcast),      *)
(* though never twice to the same queue, and then frees it.  The handler   *)
(* of OnRecv answers the session it serves, as EchoServer does.            *)
(***************************************************************************)

Queued(s, p) == \/ \E i \in 1 .. Len(sendQ[s]) : sendQ[s][i].pkt = p
                \/ \E i \in 1 .. Len(sending[s]) : sending[s][i].pkt = p

\* The sessions a thread may name: any it was told of, dead ones included.
Known(t) ==
  IF t \in Callers THEN accepted ELSE {sessionID[slot[t]]}

MayCall(t) ==
  \/ t \in Callers /\ At(t, "Idle")
  \/ t \in Workers /\ At(t, "RpLoop") /\ frames[t] > 0

Call(t, id) ==
  /\ Goto(t, "AcqInc")
  /\ slot' = [slot EXCEPT ![t] = id[2]]
  /\ arg'  = [arg EXCEPT ![t] = id]
  /\ home' = [home EXCEPT ![t] = pc[t]]
  /\ frames' = [frames EXCEPT ![t] = IF t \in Workers THEN @ - 1 ELSE @]

CallSendPacket(t) ==
  /\ MayCall(t)
  /\ \E id \in Known(t), p \in Packets :
       /\ ~Queued(id[2], p)
       /\ \/ pkt[t] = p /\ t \in Callers /\ UNCHANGED <<pkt, ref>>
          \/ /\ pkt[t] = NoPacket /\ ref[p] = 0
             /\ pkt' = [pkt EXCEPT ![t] = p]
             /\ ref' = [ref EXCEPT ![p] = 1]
       /\ Call(t, id)
  /\ UNCHANGED <<lifeVars, sendVars, poolVars, connVars, ioVars, crashed, held,
                 client, history>>

CallDisconnect(t) ==
  /\ MayCall(t)
  /\ pkt[t] = NoPacket
  /\ \E id \in Known(t) : Call(t, id)
  /\ UNCHANGED <<lifeVars, sendVars, poolVars, ref, connVars, ioVars, crashed,
                 held, pkt, client, history>>

FreePacket(t) ==
  /\ At(t, "Idle") \/ At(t, "RpLoop")
  /\ pkt[t] # NoPacket
  /\ ref' = [ref EXCEPT ![pkt[t]] = @ - 1]
  /\ pkt' = [pkt EXCEPT ![t] = NoPacket]
  /\ UNCHANGED <<lifeVars, sendVars, poolVars, connVars, ioVars, crashed, pc,
                 callVars, held, client, history>>

----------------------------------------------------------------------------
(***************************************************************************)
(* AcquireSession: take a reference first, look at the session afterwards. *)
(* The flag is read by the increment itself, the ID by a read of its own.  *)
(* A thread with a packet is in SendPacket, one without in Disconnect.     *)
(***************************************************************************)

AcqInc(t) ==
  /\ At(t, "AcqInc")
  /\ count' = [count EXCEPT ![slot[t]] = @ + 1]
  /\ held' = [held EXCEPT ![t] = @ + 1]
  /\ Goto(t, IF flag[slot[t]] THEN "RetDec" ELSE "AcqCheck")
  /\ UNCHANGED <<flag, sessionID, sock, sendVars, poolVars, ref, connVars,
                 ioVars, crashed, callVars, pkt, client, history>>

\* A mutant of AcquireSession: a slot that is live will do.
AcqCheckAnyID(t) ==
  /\ At(t, "AcqCheck")
  /\ Goto(t, IF pkt[t] # NoPacket THEN "EnqLink" ELSE "DcClose")
  /\ UNCHANGED <<lifeVars, sendVars, poolVars, ref, connVars, ioVars, crashed,
                 callVars, held, pkt, client, history>>

AcqCheck(t) ==
  /\ At(t, "AcqCheck")
  /\ Goto(t, IF sessionID[slot[t]] # arg[t] THEN "RetDec"
             ELSE IF pkt[t] # NoPacket THEN "EnqLink" ELSE "DcClose")
  /\ UNCHANGED <<lifeVars, sendVars, poolVars, ref, connVars, ioVars, crashed,
                 callVars, held, pkt, client, history>>

\* Disconnect.  The reference is kept over the call; sock is left as it is.
DcClose(t) ==
  /\ At(t, "DcClose")
  /\ CloseSocket(sock[slot[t]])
  /\ Goto(t, "RetDec")
  /\ UNCHANGED <<lifeVars, sendVars, poolVars, ref, crashed, callVars, held,
                 pkt, client, history>>

\* SendPacket: AddRef and Enqueue.  Enqueue links the node, then counts it.
EnqLink(t) ==
  /\ At(t, "EnqLink")
  /\ ref' = [ref EXCEPT ![pkt[t]] = @ + 1]
  /\ sendQ' = [sendQ EXCEPT ![slot[t]] =
                 Append(@, [pkt |-> pkt[t], to |-> arg[t]])]
  /\ Goto(t, "EnqSize")
  /\ UNCHANGED <<lifeVars, isSending, qsize, sending, sendingCount, poolVars,
                 connVars, ioVars, crashed, callVars, held, pkt, client, history>>

EnqSize(t) ==
  /\ At(t, "EnqSize")
  /\ qsize' = [qsize EXCEPT ![slot[t]] = @ + 1]
  /\ Goto(t, "SpXchg")
  /\ UNCHANGED <<lifeVars, isSending, sendQ, sending, sendingCount, poolVars, ref,
                 connVars, ioVars, crashed, callVars, held, pkt, client, history>>

----------------------------------------------------------------------------
(***************************************************************************)
(* ReturnSession and ReleaseSession.  Every reference a thread gives back  *)
(* goes through RetDec.                                                    *)
(***************************************************************************)

\* A mutant of ReturnSession: a plain decrement.
RetDecOnly(t) ==
  /\ At(t, "RetDec")
  /\ count' = [count EXCEPT ![slot[t]] = @ - 1]
  /\ held' = [held EXCEPT ![t] = @ - 1]
  /\ Leave(t, held[t] - 1)
  /\ UNCHANGED <<flag, sessionID, sock, sendVars, poolVars, ref, connVars,
                 ioVars, crashed, pkt, client, history>>

RetDec(t) ==
  LET s == slot[t]
      n == held[t] - 1
  IN  /\ At(t, "RetDec")
      /\ count' = [count EXCEPT ![s] = @ - 1]
      /\ held' = [held EXCEPT ![t] = n]
      /\ IF count[s] = 1 /\ ~flag[s]
         THEN Goto(t, "RelCas") /\ UNCHANGED callVars
         ELSE Leave(t, n)
      /\ UNCHANGED <<flag, sessionID, sock, sendVars, poolVars, ref, connVars,
                     ioVars, crashed, pkt, client, history>>

\* A mutant of ReleaseSession: the flag is set whatever ioCount is by then.
RelCasBlind(t) ==
  /\ At(t, "RelCas")
  /\ flag' = [flag EXCEPT ![slot[t]] = TRUE]
  /\ Goto(t, "RelClose")
  /\ UNCHANGED <<count, sessionID, sock, sendVars, poolVars, ref, connVars,
                 ioVars, crashed, callVars, held, pkt, client, history>>

RelCas(t) ==
  LET s == slot[t]
  IN  /\ At(t, "RelCas")
      /\ IF count[s] = 0 /\ ~flag[s]
         THEN /\ flag' = [flag EXCEPT ![s] = TRUE]
              /\ Goto(t, "RelClose")
              /\ UNCHANGED callVars
         ELSE Leave(t, held[t]) /\ UNCHANGED flag
      /\ UNCHANGED <<count, sessionID, sock, sendVars, poolVars, ref, connVars,
                     ioVars, crashed, held, pkt, client, history>>

RelClose(t) ==
  /\ At(t, "RelClose")
  /\ CloseSocket(sock[slot[t]])
  /\ Goto(t, "RelFree")
  /\ UNCHANGED <<lifeVars, sendVars, poolVars, ref, crashed, callVars, held,
                 pkt, client, history>>

\* A mutant of ReleaseSession: sendQ is left to the next session.
RelFreeNoDrain(t) ==
  LET s == slot[t]
  IN  /\ At(t, "RelFree")
      /\ ref' = [p \in Packets |-> ref[p] - RefsIn(sending[s], sendingCount[s], p)]
      /\ sending' = [sending EXCEPT ![s] = <<>>]
      /\ sendingCount' = [sendingCount EXCEPT ![s] = 0]
      /\ sessionCount' = sessionCount - 1
      /\ Goto(t, "RelNotify")
      /\ UNCHANGED <<lifeVars, isSending, sendQ, qsize, indexStack, gen, connVars,
                     ioVars, crashed, callVars, held, pkt, client, history>>

\* Both loops of ReleaseSession: the packets being sent, then what the queue
\* counts; and the session count.
RelFree(t) ==
  LET s == slot[t]
      drained == IF qsize[s] < 0 THEN 0 ELSE qsize[s]
  IN  /\ At(t, "RelFree")
      /\ drained <= Len(sendQ[s])
      /\ ref' = [p \in Packets |-> ref[p] - RefsIn(sending[s], sendingCount[s], p)
                                          - RefsIn(sendQ[s], drained, p)]
      /\ sending' = [sending EXCEPT ![s] = <<>>]
      /\ sendingCount' = [sendingCount EXCEPT ![s] = 0]
      /\ sendQ' = [sendQ EXCEPT ![s] = SubSeq(@, drained + 1, Len(@))]
      /\ qsize' = [qsize EXCEPT ![s] = @ - drained]
      /\ sessionCount' = sessionCount - 1
      /\ Goto(t, "RelNotify")
      /\ UNCHANGED <<lifeVars, isSending, indexStack, gen, connVars, ioVars,
                     crashed, callVars, held, pkt, client, history>>

RelNotify(t) ==
  /\ At(t, "RelNotify")
  /\ released' = released \cup {sessionID[slot[t]]}
  /\ Goto(t, "RelPush")
  /\ UNCHANGED <<lifeVars, sendVars, poolVars, ref, connVars, ioVars, crashed,
                 callVars, held, pkt, client, accepted>>

RelPush(t) ==
  /\ At(t, "RelPush")
  /\ indexStack' = <<slot[t]>> \o indexStack
  /\ Leave(t, held[t])
  /\ UNCHANGED <<lifeVars, sendVars, gen, sessionCount, ref, connVars, ioVars,
                 crashed, held, pkt, client, history>>

----------------------------------------------------------------------------
(***************************************************************************)
(* Posting an overlapped operation on the socket of the session: it is     *)
(* pending, or the peer has reset the connection and the reference of the  *)
(* operation is given back, or the socket is closed and the code stops at  *)
(* its __debugbreak().                                                     *)
(***************************************************************************)

\* A mutant: a post that fails keeps the reference of its operation.
PostKeepsRef(t, ty) ==
  LET s == slot[t]
      c == owner[sock[s]]
  IN  \/ /\ c # NoConn /\ c \notin reset
         /\ io' = [io EXCEPT ![s][ty] = "posted"]
         /\ ioOn' = [ioOn EXCEPT ![s][ty] = c]
         /\ held' = [held EXCEPT ![t] = @ - 1]
         /\ Leave(t, held[t] - 1)
         /\ UNCHANGED crashed
      \/ /\ c \in reset
         /\ held' = [held EXCEPT ![t] = @ - 1]
         /\ Leave(t, held[t] - 1)
         /\ UNCHANGED <<ioVars, crashed>>
      \/ /\ c = NoConn
         /\ crashed' = TRUE
         /\ UNCHANGED <<ioVars, held, callVars, pc>>

Post(t, ty) ==
  LET s == slot[t]
      c == owner[sock[s]]
  IN  \/ /\ c # NoConn /\ c \notin reset
         /\ io' = [io EXCEPT ![s][ty] = "posted"]
         /\ ioOn' = [ioOn EXCEPT ![s][ty] = c]
         /\ held' = [held EXCEPT ![t] = @ - 1]
         /\ Leave(t, held[t] - 1)
         /\ UNCHANGED crashed
      \/ /\ c \in reset
         /\ Goto(t, "RetDec")
         /\ UNCHANGED <<ioVars, held, callVars, crashed>>
      \/ /\ c = NoConn
         /\ crashed' = TRUE
         /\ UNCHANGED <<ioVars, held, callVars, pc>>

RecvPost(t) ==
  /\ At(t, "RecvPost")
  /\ Post(t, "recv")
  /\ UNCHANGED <<lifeVars, sendVars, poolVars, ref, connVars, pkt, client, history>>

(***************************************************************************)
(* SendPost: one thread at a time owns isSending; it fills sendingPackets  *)
(* and posts them in one WSASend.                                          *)
(***************************************************************************)

\* A mutant: the old value of isSending is not looked at.
SpXchgBlind(t) ==
  /\ At(t, "SpXchg")
  /\ isSending' = [isSending EXCEPT ![slot[t]] = TRUE]
  /\ Goto(t, "SpSize")
  /\ UNCHANGED <<lifeVars, sendQ, qsize, sending, sendingCount, poolVars, ref,
                 connVars, ioVars, crashed, callVars, held, pkt, client, history>>

SpXchg(t) ==
  LET s == slot[t]
  IN  /\ At(t, "SpXchg")
      /\ isSending' = [isSending EXCEPT ![s] = TRUE]
      /\ IF isSending[s] THEN Leave(t, held[t])
         ELSE Goto(t, "SpSize") /\ UNCHANGED callVars
      /\ UNCHANGED <<lifeVars, sendQ, qsize, sending, sendingCount, poolVars, ref,
                     connVars, ioVars, crashed, held, pkt, client, history>>

SpSize(t) ==
  /\ At(t, "SpSize")
  /\ \/ /\ qsize[slot[t]] > 0
        /\ sending' = [sending EXCEPT ![slot[t]] = <<>>]   \* count = 0
        /\ Goto(t, "SpDeq")
     \/ /\ qsize[slot[t]] <= 0
        /\ Goto(t, "SpClear")
        /\ UNCHANGED sending
  /\ UNCHANGED <<lifeVars, isSending, sendQ, qsize, sendingCount, poolVars, ref,
                 connVars, ioVars, crashed, callVars, held, pkt, client, history>>

SpClear(t) ==
  /\ At(t, "SpClear")
  /\ isSending' = [isSending EXCEPT ![slot[t]] = FALSE]
  /\ Goto(t, "SpRecheck")
  /\ UNCHANGED <<lifeVars, sendQ, qsize, sending, sendingCount, poolVars, ref,
                 connVars, ioVars, crashed, callVars, held, pkt, client, history>>

\* A mutant: the queue is not looked at again after isSending is given up.
SpNoRecheck(t) ==
  /\ At(t, "SpRecheck")
  /\ Leave(t, held[t])
  /\ UNCHANGED <<lifeVars, sendVars, poolVars, ref, connVars, ioVars, crashed,
                 held, pkt, client, history>>

SpRecheck(t) ==
  /\ At(t, "SpRecheck")
  /\ IF qsize[slot[t]] = 0 THEN Leave(t, held[t])
     ELSE Goto(t, "SpXchg") /\ UNCHANGED callVars
  /\ UNCHANGED <<lifeVars, sendVars, poolVars, ref, connVars, ioVars, crashed,
                 held, pkt, client, history>>

\* One turn of the loop that dequeues: a packet, or the failing Dequeue (it
\* counts below zero and undoes that), or sendingPackets is full.
SpDeq(t) ==
  LET s == slot[t]
  IN  /\ At(t, "SpDeq")
      /\ \/ /\ Len(sending[s]) < MaxSendPacket
            /\ qsize[s] > 0 /\ sendQ[s] # <<>>
            /\ qsize' = [qsize EXCEPT ![s] = @ - 1]
            /\ sending' = [sending EXCEPT ![s] = Append(@, Head(sendQ[s]))]
            /\ sendQ' = [sendQ EXCEPT ![s] = Tail(@)]
            /\ UNCHANGED pc
         \/ /\ Len(sending[s]) < MaxSendPacket
            /\ qsize[s] <= 0
            /\ qsize' = [qsize EXCEPT ![s] = @ - 1]
            /\ Goto(t, "SpUndo")
            /\ UNCHANGED <<sendQ, sending>>
         \/ /\ Len(sending[s]) = MaxSendPacket
            /\ Goto(t, "SpInc")
            /\ UNCHANGED <<sendQ, sending, qsize>>
      /\ UNCHANGED <<lifeVars, isSending, sendingCount, poolVars, ref, connVars,
                     ioVars, crashed, callVars, held, pkt, client, history>>

SpUndo(t) ==
  /\ At(t, "SpUndo")
  /\ qsize' = [qsize EXCEPT ![slot[t]] = @ + 1]
  /\ Goto(t, "SpInc")
  /\ UNCHANGED <<lifeVars, isSending, sendQ, sending, sendingCount, poolVars, ref,
                 connVars, ioVars, crashed, callVars, held, pkt, client, history>>

SpInc(t) ==
  LET s == slot[t]
  IN  /\ At(t, "SpInc")
      /\ sendingCount' = [sendingCount EXCEPT ![s] = Len(sending[s])]
      /\ count' = [count EXCEPT ![s] = @ + 1]
      /\ held' = [held EXCEPT ![t] = @ + 1]
      /\ Goto(t, "SpSend")
      /\ UNCHANGED <<flag, sessionID, sock, isSending, sendQ, qsize, sending,
                     poolVars, ref, connVars, ioVars, crashed, callVars, pkt,
                     client, history>>

SpSend(t) ==
  /\ At(t, "SpSend")
  /\ Post(t, "send")
  /\ UNCHANGED <<lifeVars, sendVars, poolVars, ref, connVars, pkt, client, history>>

----------------------------------------------------------------------------
(***************************************************************************)
(* A worker thread: GetQueuedCompletionStatus returns some completion; its *)
(* OVERLAPPED names the session, and its reference is now the worker's.    *)
(***************************************************************************)

Complete(t, s, ty) ==
  /\ t \in Workers /\ At(t, "Idle")
  /\ io[s][ty] \in {"ok", "err"}
  /\ io' = [io EXCEPT ![s][ty] = "idle"]
  /\ slot' = [slot EXCEPT ![t] = s]
  /\ held' = [held EXCEPT ![t] = 1]
  /\ Goto(t, IF io[s][ty] = "err" THEN "RetDec"
             ELSE IF ty = "recv" THEN "RpLoop" ELSE "SdFree")
  /\ frames' = [frames EXCEPT ![t] =
                  IF io[s][ty] = "ok" /\ ty = "recv" THEN MaxFrames ELSE 0]
  /\ UNCHANGED <<lifeVars, sendVars, poolVars, ref, connVars, ioOn, crashed,
                 arg, home, pkt, client, history>>

\* RecvProc.  Its loop hands packets to OnRecv (the calls of the application
\* above) and ends with the next receive, or with a packet that is refused.
RpEnd(t) ==
  /\ At(t, "RpLoop")
  /\ pkt[t] = NoPacket
  /\ \E label \in {"RecvPost", "RetDec"} : Goto(t, label)
  /\ frames' = [frames EXCEPT ![t] = 0]
  /\ UNCHANGED <<lifeVars, sendVars, poolVars, ref, connVars, ioVars, crashed,
                 slot, arg, home, held, pkt, client, history>>

\* A mutant of SendProc: sendingCount keeps its value.
SdFreeKeepsCount(t) ==
  LET s == slot[t]
  IN  /\ At(t, "SdFree")
      /\ ref' = [p \in Packets |-> ref[p] - RefsIn(sending[s], sendingCount[s], p)]
      /\ Goto(t, "SdClear")
      /\ UNCHANGED <<lifeVars, sendVars, poolVars, connVars, ioVars, crashed,
                     callVars, held, pkt, client, history>>

\* SendProc.
SdFree(t) ==
  LET s == slot[t]
  IN  /\ At(t, "SdFree")
      /\ ref' = [p \in Packets |-> ref[p] - RefsIn(sending[s], sendingCount[s], p)]
      /\ sending' = [sending EXCEPT ![s] = <<>>]
      /\ sendingCount' = [sendingCount EXCEPT ![s] = 0]
      /\ Goto(t, "SdClear")
      /\ UNCHANGED <<lifeVars, isSending, sendQ, qsize, poolVars, connVars, ioVars,
                     crashed, callVars, held, pkt, client, history>>

\* A mutant of SendProc: what was queued during the send is not posted.
SdClearNoPost(t) ==
  /\ At(t, "SdClear")
  /\ isSending' = [isSending EXCEPT ![slot[t]] = FALSE]
  /\ Leave(t, held[t])
  /\ UNCHANGED <<lifeVars, sendQ, qsize, sending, sendingCount, poolVars, ref,
                 connVars, ioVars, crashed, held, pkt, client, history>>

SdClear(t) ==
  /\ At(t, "SdClear")
  /\ isSending' = [isSending EXCEPT ![slot[t]] = FALSE]
  /\ Goto(t, "SpXchg")
  /\ UNCHANGED <<lifeVars, sendQ, qsize, sending, sendingCount, poolVars, ref,
                 connVars, ioVars, crashed, callVars, held, pkt, client, history>>

----------------------------------------------------------------------------
(***************************************************************************)
(* The accept thread.                                                      *)
(***************************************************************************)

Accept(t) ==
  /\ t = Acceptor /\ At(t, "Idle")
  /\ gen < MaxGen
  /\ \E h \in Handles :
       /\ owner[h] = NoConn
       /\ owner' = [owner EXCEPT ![h] = gen + 1]
       /\ client' = h
  /\ Goto(t, "AcPop")
  /\ UNCHANGED <<lifeVars, sendVars, poolVars, ref, reset, ioVars, crashed,
                 callVars, held, pkt, history>>

\* A mutant: the stack hands out its top and keeps it.
AcPeek(t) ==
  /\ At(t, "AcPop")
  /\ indexStack # <<>>
  /\ slot' = [slot EXCEPT ![t] = Head(indexStack)]
  /\ Goto(t, "AcInit")
  /\ UNCHANGED <<lifeVars, sendVars, poolVars, ref, connVars, ioVars, crashed,
                 arg, home, frames, held, pkt, client, history>>

AcPop(t) ==
  /\ At(t, "AcPop")
  /\ indexStack # <<>>
  /\ slot' = [slot EXCEPT ![t] = Head(indexStack)]
  /\ indexStack' = Tail(indexStack)
  /\ Goto(t, "AcInit")
  /\ UNCHANGED <<lifeVars, sendVars, gen, sessionCount, ref, connVars, ioVars,
                 crashed, arg, home, frames, held, pkt, client, history>>

\* No slot is free: the connection is closed again.
AcFull(t) ==
  /\ At(t, "AcPop")
  /\ indexStack = <<>>
  /\ CloseSocket(client)
  /\ client' = NoHandle
  /\ Goto(t, "Idle")
  /\ UNCHANGED <<lifeVars, sendVars, poolVars, ref, crashed, callVars, held, pkt,
                 history>>

\* A mutant: the slot of a refused connection is not pushed back.
AcRejectNoPush(t) ==
  /\ At(t, "AcInit")
  /\ CloseSocket(client)
  /\ client' = NoHandle
  /\ slot' = [slot EXCEPT ![t] = NoSlot]
  /\ Goto(t, "Idle")
  /\ UNCHANGED <<lifeVars, sendVars, poolVars, ref, crashed, arg, home, frames,
                 held, pkt, history>>

\* OnConnectionRequest refuses the connection.
AcReject(t) ==
  /\ At(t, "AcInit")
  /\ indexStack' = <<slot[t]>> \o indexStack
  /\ CloseSocket(client)
  /\ client' = NoHandle
  /\ slot' = [slot EXCEPT ![t] = NoSlot]
  /\ Goto(t, "Idle")
  /\ UNCHANGED <<lifeVars, sendVars, gen, sessionCount, ref, crashed, arg, home,
                 frames, held, pkt, history>>

\* Session::Init.  It leaves sendQ alone.
AcInit(t) ==
  LET s == slot[t]
  IN  /\ At(t, "AcInit")
      /\ gen' = gen + 1
      /\ sock' = [sock EXCEPT ![s] = client]
      /\ sending' = [sending EXCEPT ![s] = <<>>]
      /\ sendingCount' = [sendingCount EXCEPT ![s] = 0]
      /\ isSending' = [isSending EXCEPT ![s] = FALSE]
      /\ sessionID' = [sessionID EXCEPT ![s] = <<gen + 1, s>>]
      /\ client' = NoHandle
      /\ Goto(t, "AcInc")
      /\ UNCHANGED <<count, flag, sendQ, qsize, indexStack, sessionCount, ref,
                     connVars, ioVars, crashed, callVars, held, pkt, history>>

AcInc(t) ==
  /\ At(t, "AcInc")
  /\ count' = [count EXCEPT ![slot[t]] = @ + 1]
  /\ held' = [held EXCEPT ![t] = @ + 1]
  /\ Goto(t, "AcClear")
  /\ UNCHANGED <<flag, sessionID, sock, sendVars, poolVars, ref, connVars, ioVars,
                 crashed, callVars, pkt, client, history>>

AcClear(t) ==
  /\ At(t, "AcClear")
  /\ flag' = [flag EXCEPT ![slot[t]] = FALSE]
  /\ Goto(t, "AcCount")
  /\ UNCHANGED <<count, sessionID, sock, sendVars, poolVars, ref, connVars, ioVars,
                 crashed, callVars, held, pkt, client, history>>

AcCount(t) ==
  /\ At(t, "AcCount")
  /\ sessionCount' = sessionCount + 1
  /\ Goto(t, "AcNotify")
  /\ UNCHANGED <<lifeVars, sendVars, indexStack, gen, ref, connVars, ioVars,
                 crashed, callVars, held, pkt, client, history>>

\* The association with the port, of which nothing comes before the first
\* operation is posted, and OnAccept.
AcNotify(t) ==
  /\ At(t, "AcNotify")
  /\ accepted' = accepted \cup {sessionID[slot[t]]}
  /\ Goto(t, "AcIncRecv")
  /\ UNCHANGED <<lifeVars, sendVars, poolVars, ref, connVars, ioVars, crashed,
                 callVars, held, pkt, client, released>>

AcIncRecv(t) ==
  /\ At(t, "AcIncRecv")
  /\ count' = [count EXCEPT ![slot[t]] = @ + 1]
  /\ held' = [held EXCEPT ![t] = @ + 1]
  /\ Goto(t, "RecvPost")
  /\ UNCHANGED <<flag, sessionID, sock, sendVars, poolVars, ref, connVars, ioVars,
                 crashed, callVars, pkt, client, history>>

----------------------------------------------------------------------------
(***************************************************************************)
(* Windows and the peers.                                                  *)
(***************************************************************************)

\* A pending operation is done: data arrived or was taken, or a receive of 0
\* bytes or an error ends it.
IoDone(s, ty) ==
  /\ ~crashed /\ io[s][ty] = "posted"
  /\ \E r \in {"ok", "err"} : io' = [io EXCEPT ![s][ty] = r]
  /\ ioOn' = [ioOn EXCEPT ![s][ty] = NoConn]
  /\ UNCHANGED <<lifeVars, sendVars, poolVars, ref, connVars, crashed, pc,
                 callVars, held, pkt, client, history>>

\* The peer resets a connection: everything pending on it fails.
PeerReset(c) ==
  /\ ~crashed /\ c \in {owner[h] : h \in Handles} \ (reset \cup {NoConn})
  /\ reset' = reset \cup {c}
  /\ AbortOn(c)
  /\ UNCHANGED <<lifeVars, sendVars, poolVars, ref, owner, crashed, pc, callVars,
                 held, pkt, client, history>>

----------------------------------------------------------------------------
\* What a thread does once it has begun something.
Step(t) ==
  \/ AcqInc(t) \/ AcqCheck(t) \/ DcClose(t) \/ EnqLink(t) \/ EnqSize(t)
  \/ RetDec(t) \/ RelCas(t) \/ RelClose(t) \/ RelFree(t) \/ RelNotify(t) \/ RelPush(t)
  \/ RecvPost(t)
  \/ SpXchg(t) \/ SpSize(t) \/ SpClear(t) \/ SpRecheck(t)
  \/ SpDeq(t) \/ SpUndo(t) \/ SpInc(t) \/ SpSend(t)
  \/ FreePacket(t) \/ RpEnd(t) \/ SdFree(t) \/ SdClear(t)
  \/ AcPop(t) \/ AcFull(t) \/ AcReject(t) \/ AcInit(t) \/ AcInc(t) \/ AcClear(t)
  \/ AcCount(t) \/ AcNotify(t) \/ AcIncRecv(t)

\* What begins something.
Begin ==
  \/ \E t \in Threads : CallSendPacket(t) \/ CallDisconnect(t) \/ Accept(t)
  \/ \E s \in Slots, ty \in IoTypes :
       IoDone(s, ty) \/ \E t \in Workers : Complete(t, s, ty)
  \/ \E c \in Conns : PeerReset(c)

Next == Begin \/ \E t \in Threads : Step(t)

Spec == Init /\ [][Next]_vars

\* A send has failed: isSending is set, and neither a thread nor the system
\* will look at it again.
SendFailed(s) ==
  /\ isSending[s] /\ io[s]["send"] = "idle"
  /\ \A t \in Threads : slot[t] = s =>
       pc[t] \notin {"SpSize", "SpClear", "SpDeq", "SpUndo", "SpInc", "SpSend",
                    "SdFree", "SdClear"}

RecvFails(s) == IoDone(s, "recv") /\ io'[s]["recv"] = "err"

\* The port is a FIFO queue, so every completion is some day taken by a worker
\* that is free again and again; the peers read what is sent to them, or their
\* connection breaks; and on a connection that is broken for the send the
\* receive fails as well.
SystemFairness ==
  /\ \A s \in Slots, ty \in IoTypes :
       SF_vars(\E t \in Workers : Complete(t, s, ty))
  /\ \A s \in Slots : WF_vars(IoDone(s, "send"))
  /\ \A s \in Slots : SF_vars(SendFailed(s) /\ RecvFails(s))

\* Besides, threads run.  Nothing makes a peer send, an application call or a
\* connection arrive.
Fairness == SystemFairness /\ \A t \in Threads : WF_vars(Step(t))

FairSpec == Spec /\ Fairness

----------------------------------------------------------------------------
(***************************************************************************)
(* Properties.                                                             *)
(***************************************************************************)

Labels == {"Idle", "AcqInc", "AcqCheck", "DcClose", "EnqLink", "EnqSize",
           "RetDec", "RelCas", "RelClose", "RelFree", "RelNotify", "RelPush",
           "RecvPost", "SpXchg", "SpSize", "SpClear", "SpRecheck", "SpDeq",
           "SpUndo", "SpInc", "SpSend", "RpLoop", "SdFree", "SdClear",
           "AcPop", "AcInit", "AcInc", "AcClear", "AcCount", "AcNotify",
           "AcIncRecv"}

SessionTypeOK ==
  /\ count \in [Slots -> Int]
  /\ flag \in [Slots -> BOOLEAN]
  /\ sessionID \in [Slots -> Ids \cup {NoId}]
  /\ sock \in [Slots -> Handles \cup {NoHandle}]

SendTypeOK ==
  /\ isSending \in [Slots -> BOOLEAN]
  /\ sendQ \in [Slots -> Seq(Entry)]
  /\ qsize \in [Slots -> Int]
  /\ sending \in [Slots -> Seq(Entry)]
  /\ sendingCount \in [Slots -> Nat]

ServerTypeOK ==
  /\ indexStack \in Seq(Slots)
  /\ gen \in 0 .. MaxGen
  /\ sessionCount \in Int
  /\ ref \in [Packets -> Int]
  /\ crashed \in BOOLEAN
  /\ accepted \subseteq Ids
  /\ released \subseteq Ids

SystemTypeOK ==
  /\ owner \in [Handles -> Conns \cup {NoConn}]
  /\ reset \subseteq Conns
  /\ io \in [Slots -> [IoTypes -> {"idle", "posted", "ok", "err"}]]
  /\ ioOn \in [Slots -> [IoTypes -> Conns \cup {NoConn}]]

ThreadTypeOK ==
  /\ pc \in [Threads -> Labels]
  /\ slot \in [Threads -> Slots \cup {NoSlot}]
  /\ arg \in [Threads -> Ids \cup {NoId}]
  /\ home \in [Threads -> {"Idle", "RpLoop"}]
  /\ held \in [Threads -> 0 .. 3]
  /\ pkt \in [Threads -> Packets \cup {NoPacket}]
  /\ frames \in [Threads -> 0 .. MaxFrames]
  /\ client \in Handles \cup {NoHandle}

\* Every variable holds a value of its type; a thread never holds more than
\* three references of a session.
TypeOK ==
  SessionTypeOK /\ SendTypeOK /\ ServerTypeOK /\ SystemTypeOK /\ ThreadTypeOK

ThreadRefs(s) == {r \in Threads \X (1 .. 3) : slot[r[1]] = s /\ r[2] <= held[r[1]]}
IoRefs(s)     == {ty \in IoTypes : io[s][ty] # "idle"}

\* ioCount is exactly the number of references threads still have to give
\* back plus the number of operations in flight: no path of the code drops a
\* reference twice or forgets one, temporary ones of AcquireSession included.
RefExact ==
  \A s \in Slots : count[s] = Cardinality(ThreadRefs(s)) + Cardinality(IoRefs(s))

\* Where a thread touches the session it works on: behind AcquireSession, in
\* RecvProc and SendProc, and in the accept thread once the session is live.
Using(t) ==
  \/ pc[t] \in {"EnqLink", "EnqSize", "DcClose", "SpXchg", "SpSize", "SpClear",
                "SpRecheck", "SpDeq", "SpUndo", "SpInc", "SpSend", "RecvPost",
                "RpLoop", "SdFree", "SdClear", "AcCount", "AcNotify", "AcIncRecv"}
  \/ home[t] = "RpLoop"

\* A thread that uses a session finds it live and finds in it the session it
\* was asked for, not the next one in the same slot; and so does a completion
\* whose OVERLAPPED lies inside the session.
NoUseAfterRelease ==
  /\ \A t \in Threads : Using(t) =>
       /\ ~flag[slot[t]]
       /\ pc[t] \in {"EnqLink", "EnqSize", "DcClose"} => sessionID[slot[t]] = arg[t]
  /\ \A s \in Slots, ty \in IoTypes : io[s][ty] # "idle" => ~flag[s]

Releasing(t) == pc[t] \in {"RelClose", "RelFree", "RelNotify", "RelPush"}
Claiming(t)  == pc[t] \in {"AcInit", "AcInc", "AcClear"}

SlotOwners(s) ==
  {<<"stack", i>> : i \in {j \in 1 .. Len(indexStack) : indexStack[j] = s}}
  \cup {<<"thread", t>> : t \in {u \in Threads : slot[u] = s
                                              /\ (Releasing(u) \/ Claiming(u))}}
  \cup (IF flag[s] THEN {} ELSE {<<"live", s>>})

\* A slot is in the index stack once, or claimed by the accept thread, or
\* live, or being released by one thread: never in two of these places (two
\* sessions would share it) and never in none (the slot would be lost).
OneOwner == \A s \in Slots : Cardinality(SlotOwners(s)) = 1

\* A live session nobody refers to any more is about to be released: the last
\* reference never goes without someone at the compare-and-swap, and a failed
\* compare-and-swap never leaves the session behind.
NoZombie ==
  \A s \in Slots : ~flag[s] /\ count[s] = 0 =>
    \E t \in Threads : slot[t] = s /\ pc[t] = "RelCas"

\* OnAccept comes once and first, OnRelease once and last, and OnRecv only
\* between the two.
CallbackOrder ==
  \A t \in Threads :
    LET id == sessionID[slot[t]]
    IN  /\ pc[t] = "AcNotify" => id \notin accepted \cup released
        /\ pc[t] = "RpLoop" \/ home[t] = "RpLoop" => id \in accepted \ released
        /\ pc[t] = "RelNotify" => id \in accepted \ released

\* The threads and the operation that may touch sendingPackets and the head
\* of sendQ.
SendOwners(s) ==
  {t \in Threads : slot[t] = s /\ pc[t] \in {"SpSize", "SpClear", "SpDeq", "SpUndo",
                                           "SpInc", "SpSend", "SdFree", "SdClear"}}

\* isSending admits one of them: one thread fills or empties sendingPackets,
\* or one WSASend is in flight.
SendExclusive ==
  \A s \in Slots :
    /\ Cardinality(SendOwners(s)) + (IF io[s]["send"] = "idle" THEN 0 ELSE 1) <= 1
    /\ SendOwners(s) # {} \/ io[s]["send"] # "idle" => isSending[s]

\* A packet linked into the queue of a live session never waits there with
\* nobody to send it: isSending is set, or a thread is on its way to look.
NoLostWakeup ==
  \A s \in Slots : ~flag[s] /\ sendQ[s] # <<>> /\ ~isSending[s] =>
    \E t \in Threads : slot[t] = s /\ pc[t] \in {"EnqSize", "SpXchg", "SpRecheck"}

\* Whatever lies in a session's queue or in its sendingPackets was sent to
\* that session, not to an earlier one in the same slot.
NoCrossDelivery ==
  \A s \in Slots :
    /\ \A i \in 1 .. Len(sendQ[s]) : sendQ[s][i].to = sessionID[s]
    /\ \A i \in 1 .. Len(sending[s]) : sending[s][i].to = sessionID[s]

PacketHolders(p) ==
  {<<"thread", t, 0>> : t \in {u \in Threads : pkt[u] = p}}
  \cup (UNION {{<<"queue", s, i>> : i \in {j \in 1 .. Len(sendQ[s]) : sendQ[s][j].pkt = p}}
               : s \in Slots})
  \cup (UNION {{<<"sending", s, i>> : i \in {j \in 1 .. Len(sending[s]) : sending[s][j].pkt = p}}
               : s \in Slots})

\* The reference count of a packet is the number of its holders: it is not
\* freed while a queue or a WSASend still needs it, and it is not leaked.
PacketRefs == \A p \in Packets : ref[p] = Cardinality(PacketHolders(p))

\* GetSessionCount, which any thread may read at any time, is the number of
\* sessions between OnAccept and OnRelease, and is ahead of these callbacks at
\* both ends: by the session whose OnAccept is about to be called, and by those
\* whose OnRelease is.
SessionCountExact ==
  sessionCount = Cardinality(accepted \ released)
                   + Cardinality({t \in Threads : pc[t] = "AcNotify"})
                   - Cardinality({t \in Threads : pc[t] = "RelNotify"})

\* Disconnect, ReleaseSession, and the posts are meant for the connection the
\* session was accepted for; sock still names it, or nothing any more.
OwnConnection(t) ==
  owner[sock[slot[t]]] \in {sessionID[slot[t]][1], NoConn}

ClosesOwnConnection ==
  \A t \in Threads : pc[t] \in {"DcClose", "RelClose"} => OwnConnection(t)

\* WSARecv and WSASend fail with WSAECONNRESET or not at all.
NoDebugBreak == ~crashed

\* What the socket of the session names is closed or reset.
Dead(s) == owner[sock[s]] \in reset \cup {NoConn}

\* A session whose socket stays closed or reset is released once the
\* application leaves it alone: no path of the code, in whatever order the
\* completions come, leaves a reference behind that keeps it for ever.
DeadIsReleased ==
  \A id \in Ids :
    []<>(\/ id \notin accepted \/ id \in released \/ ~Dead(id[2]) \/ crashed
         \/ \E t \in Callers : arg[t] = id)

\* A packet SendPacket has queued is taken from the queue, to be sent or to
\* be freed with its session.
QueuedIsTaken ==
  \A s \in Slots, p \in Packets :
    (\E i \in 1 .. Len(sendQ[s]) : sendQ[s][i].pkt = p)
      ~> (crashed \/ ~ \E i \in 1 .. Len(sendQ[s]) : sendQ[s][i].pkt = p)

----------------------------------------------------------------------------
(***************************************************************************)
(* CNetServer implements the service it offers.                            *)
(***************************************************************************)

PacketsOf(q) == [i \in 1 .. Len(q) |-> q[i].pkt]

Service == INSTANCE SessionService WITH
  opened <- accepted,
  closed <- released,
  queue  <- [id \in Ids |-> IF sessionID[id[2]] = id
                            THEN PacketsOf(sending[id[2]] \o sendQ[id[2]])
                            ELSE <<>>]

\* Sessions open once, in order, never two in one slot; packets are accepted
\* for live sessions only and leave each of them first in, first out; and a
\* session is closed when nothing is left of it.
ImplementsService == Service!Spec

=============================================================================
