---------------------------- MODULE IOCPEchoServer ----------------------------
(***************************************************************************)
(* The first echo server: sessions on the heap, found through a map under  *)
(* a reader-writer lock, each with a critical section that a worker holds  *)
(* while it serves a completion of the session.  A session is deleted by   *)
(* the thread whose decrement takes ioCount to zero.                       *)
(*                                                                         *)
(* A worker enters the critical section up to three deep, in WorkerThread, *)
(* in RecvProc or SendProc, and in SendPacket; what matters to others is   *)
(* that it has entered it and has not left it as often.  What it does in   *)
(* there, out of sight, is part of its next step that others can see.      *)
(*                                                                         *)
(* How frames are found in the bytes received is RecvFraming's; here a     *)
(* receive brings whole frames, and the i-th frame that a session handles  *)
(* carries the value i.                                                    *)
(***************************************************************************)
EXTENDS RingBuffer, FiniteSets

CONSTANTS
  Acceptor, Main,  \* AcceptThread and main
  Workers,         \* the threads that run WorkerThread
  MaxConns,        \* bound: connections that are accepted
  MaxFrames,       \* bound: [IDs -> Nat], the frames the peers send
  BodySize,        \* the length of an echo, in places of the ring
  NoThread         \* nobody

Threads  == Workers \cup {Acceptor}
IDs      == 0 .. MaxConns - 1   \* sessionIDCount starts from 0
NoID     == -1
IoTypes  == {"recv", "send"}

\* What lies in a place of sendQ: nothing yet, a header, or a part of a value.
Unwritten == -1
Header    == 0

ASSUME EchoAssumption ==
  /\ Acceptor \notin Workers /\ Main \notin Threads /\ NoThread \notin Threads
  /\ IsFiniteSet(Workers)
  /\ {MaxConns, BodySize} \subseteq Nat \ {0}
  /\ MaxFrames \in [IDs -> Nat]

VARIABLES
  object,     \* [IDs -> {"none", "alive", "deleted"}]: the Session
  ioCount, isSending, sendQ,
  owner,      \* [IDs -> Threads \cup {NoThread}]: who holds cs
  sessionMap, \* the IDs in the map
  writer,     \* who holds sessionMapLock exclusively
  listener,   \* listen_sock: "none", "open" or "closed"
  quits,      \* the empty completions in the port
  \* Windows and the peers
  sock,       \* [IDs -> {"none", "open", "half", "reset", "closed"}]
  io,         \* [IDs -> [IoTypes -> state of the OVERLAPPED]]
  moved,      \* [IDs -> [IoTypes -> what the completed operation brings]]
  areas,      \* [IDs -> the two WSABUFs of the send]
  crashed,    \* a __debugbreak() was reached, or the program fell over
  \* threads
  pc, cur,
  todo,       \* frames in recvQ that are yet to be handled
  back,       \* where ReleaseSession returns to
  \* history
  sent,       \* [IDs -> Nat]: the number of frames the peer has sent
  echoed,     \* [IDs -> the frames SendPacket has put into sendQ]
  cut,        \* the sessions in which Enqueue had no room for all of a frame
  out         \* [IDs -> what the peer has been sent]

session == <<object, ioCount, isSending, sendQ>>
locks   == <<owner, sessionMap, writer>>
system  == <<sock, io, moved, areas>>
local   == <<cur, todo, back>>
history == <<sent, echoed, cut, out>>

vars == <<session, locks, listener, quits, system, crashed, pc, local, history>>

----------------------------------------------------------------------------
At(t, label) == ~crashed /\ pc[t] = label

Goto(t, label) == pc' = [pc EXCEPT ![t] = label]

\* The frame that answers value v: a header and the value.
Echo(v) == <<Header>> \o [i \in 1 .. BodySize |-> v]

\* The two parts of sendQ that a WSASend is given.
SendAreas(r) ==
  <<[start |-> r.front, len |-> DirectDequeueSize(r)],
    [start |-> 0, len |-> UseSize(r) - DirectDequeueSize(r)]>>

\* What lies in the areas of a send, from the first place on.
InAreas(s) ==
  LET part(a) == [i \in 1 .. a.len |-> sendQ[s].buffer[a.start + i - 1]]
  IN  part(areas[s][1]) \o part(areas[s][2])

EmptyQ  == [buffer |-> [p \in Positions |-> Unwritten], front |-> 0, rear |-> 0]
NoAreas == <<[start |-> 0, len |-> 0], [start |-> 0, len |-> 0]>>

Init ==
  /\ object = [s \in IDs |-> "none"]
  /\ ioCount = [s \in IDs |-> 0]
  /\ isSending = [s \in IDs |-> FALSE]
  /\ sendQ = [s \in IDs |-> EmptyQ]
  /\ owner = [s \in IDs |-> NoThread]
  /\ sessionMap = {} /\ writer = NoThread
  /\ listener = "none" /\ quits = 0 /\ crashed = FALSE
  /\ sock = [s \in IDs |-> "none"]
  /\ io = [s \in IDs |-> [ty \in IoTypes |-> "idle"]]
  /\ moved = [s \in IDs |-> [ty \in IoTypes |-> 0]]
  /\ areas = [s \in IDs |-> NoAreas]
  /\ pc = [t \in Threads \cup {Main} |->
             IF t = Acceptor THEN "AcSocket" ELSE IF t = Main THEN "Getch" ELSE "Idle"]
  /\ cur = [t \in Threads |-> NoID]
  /\ todo = [t \in Threads |-> 0]
  /\ back = [t \in Threads |-> "Idle"]
  /\ sent = [s \in IDs |-> 0] /\ echoed = sent
  /\ cut = {} /\ out = [s \in IDs |-> <<>>]

----------------------------------------------------------------------------
(***************************************************************************)
(* ReleaseSession.  A worker comes from RecvProc or SendProc with one of   *)
(* its two entries of cs still to leave, and leaves it in WorkerThread,    *)
(* when the session is deleted already.                                    *)
(***************************************************************************)

\* A mutant: what InterlockedDecrement returns is taken for the old value.
IsLastButOne(s) == ioCount[s] = 2

\* The decrement takes ioCount to zero.
IsLast(s) == ioCount[s] = 1

\* Give back a reference; the last one releases the session.
Release(t, next, after) ==
  LET s == cur[t]
  IN  /\ ioCount' = [ioCount EXCEPT ![s] = @ - 1]
      /\ IF IsLast(s)
         THEN Goto(t, "RelErase") /\ back' = [back EXCEPT ![t] = after]
         ELSE Goto(t, next) /\ UNCHANGED back
      /\ UNCHANGED <<object, isSending, sendQ, locks, listener, quits, system, crashed,
                     cur, todo, history>>

\* FindSession and erase under the exclusive lock.  Without a session in the map
\* it returns as it is, and keeps the lock.
RelErase(t) ==
  /\ At(t, "RelErase")
  /\ writer = NoThread /\ pc[Acceptor] # "AcInsert"
  /\ IF cur[t] \in sessionMap
     THEN UNCHANGED writer /\ Goto(t, "RelWait")
     ELSE writer' = t /\ Goto(t, back[t])
  /\ sessionMap' = sessionMap \ {cur[t]}
  /\ UNCHANGED <<session, owner, listener, quits, system, crashed, local, history>>

\* EnterCriticalSection and LeaveCriticalSection.
RelWait(t) ==
  /\ At(t, "RelWait")
  /\ owner[cur[t]] \in {NoThread, t}
  /\ Goto(t, "RelDelete")
  /\ UNCHANGED <<session, locks, listener, quits, system, crashed, local, history>>

\* With the object its members are gone, and what was to be known of them.
RelDelete(t) ==
  LET s == cur[t]
  IN  /\ At(t, "RelDelete")
      /\ object' = [object EXCEPT ![s] = "deleted"]
      /\ sock' = [sock EXCEPT ![s] = "closed"]
      /\ owner' = [owner EXCEPT ![s] = NoThread]
      /\ isSending' = [isSending EXCEPT ![s] = FALSE]
      /\ sendQ' = [sendQ EXCEPT ![s] = EmptyQ]
      /\ moved' = [moved EXCEPT ![s] = [ty \in IoTypes |-> 0]]
      /\ echoed' = [echoed EXCEPT ![s] = 0]
      /\ cut' = cut \ {s}
      /\ out' = [out EXCEPT ![s] = <<>>]
      /\ Goto(t, back[t])
      /\ back' = [back EXCEPT ![t] = "Idle"]
      /\ cur' = [cur EXCEPT ![t] = IF back[t] = "Idle" THEN NoID ELSE @]
      /\ UNCHANGED <<ioCount, sessionMap, writer, listener, quits, io, areas, crashed,
                     todo, sent>>

\* LeaveCriticalSection in WorkerThread on a session that is no more: nothing,
\* or the end of the program.
OuterLeave(t) ==
  /\ At(t, "OuterLeave")
  /\ crashed' \in BOOLEAN
  /\ Goto(t, "Idle")
  /\ cur' = [cur EXCEPT ![t] = NoID]
  /\ UNCHANGED <<session, locks, listener, quits, system, todo, back, history>>

----------------------------------------------------------------------------
(***************************************************************************)
(* WorkerThread.                                                           *)
(***************************************************************************)

TakeQuit(t) ==
  /\ t \in Workers /\ At(t, "Idle") /\ quits > 0
  /\ quits' = quits - 1
  /\ Goto(t, "Ended")
  /\ UNCHANGED <<session, locks, listener, system, crashed, local, history>>

Take(t, s, ty) ==
  /\ t \in Workers /\ At(t, "Idle") /\ io[s][ty] \in {"ok", "err"}
  /\ io' = [io EXCEPT ![s][ty] = "idle"]
  /\ cur' = [cur EXCEPT ![t] = s]
  /\ Goto(t, IF io[s][ty] = "err" THEN "EnterLost"
             ELSE IF ty = "recv" THEN "EnterRecv" ELSE "EnterSend")
  /\ UNCHANGED <<session, locks, listener, quits, sock, moved, areas, crashed, todo,
                 back, history>>

Enter(t) ==
  /\ owner[cur[t]] = NoThread
  /\ owner' = [owner EXCEPT ![cur[t]] = t]

\* Out of the critical section, as deep as the thread is in it.
LeaveAll(t) == owner' = [owner EXCEPT ![cur[t]] = NoThread]

\* The operation failed or the stream ended: in, and out again.
EnterLost(t) ==
  /\ At(t, "EnterLost")
  /\ owner[cur[t]] = NoThread
  /\ Goto(t, "DecLost")
  /\ UNCHANGED <<session, locks, listener, quits, system, crashed, local, history>>

\* A mutant: the reference of a failed operation is kept.
DecLostNot(t) ==
  /\ At(t, "DecLost")
  /\ Goto(t, "Idle")
  /\ UNCHANGED <<session, locks, listener, quits, system, crashed, local, history>>

DecLost(t) == At(t, "DecLost") /\ Release(t, "Idle", "Idle")

Leave(t) ==
  /\ At(t, "Leave")
  /\ LeaveAll(t)
  /\ Goto(t, "Idle")
  /\ cur' = [cur EXCEPT ![t] = NoID]
  /\ UNCHANGED <<session, sessionMap, writer, listener, quits, system, crashed, todo,
                 back, history>>

----------------------------------------------------------------------------
(***************************************************************************)
(* Posting.  A reset connection fails the call; the socket itself is open  *)
(* as long as the session is.                                              *)
(***************************************************************************)

Posted(t, ty, next, failed) ==
  LET s == cur[t]
  IN  /\ \/ /\ sock[s] \in {"open", "half"}
            /\ io' = [io EXCEPT ![s][ty] = "posted"]
            /\ Goto(t, next)
         \/ /\ sock[s] = "reset"
            /\ Goto(t, failed)
            /\ UNCHANGED io
      /\ UNCHANGED <<locks, listener, quits, sock, moved, crashed, local, history>>

PostSend(t, next, failed) ==
  /\ Posted(t, "send", next, failed)
  /\ UNCHANGED session
  /\ areas' = [areas EXCEPT ![cur[t]] = SendAreas(sendQ[cur[t]])]

----------------------------------------------------------------------------
(***************************************************************************)
(* RecvProc, and OnRecv and SendPacket in it.                              *)
(***************************************************************************)

EnterRecv(t) ==
  /\ At(t, "EnterRecv")
  /\ Enter(t)
  /\ todo' = [todo EXCEPT ![t] = moved[cur[t]]["recv"]]
  /\ moved' = [moved EXCEPT ![cur[t]]["recv"] = 0]
  /\ Goto(t, "RecvLoop")
  /\ UNCHANGED <<session, sessionMap, writer, listener, quits, sock, io, areas,
                 crashed, cur, back, history>>

\* OnRecv looks its session up under the shared lock; the accept thread may be
\* changing the map under the same.
Find(t) ==
  /\ At(t, "RecvLoop") /\ todo[t] > 0
  /\ writer = NoThread
  /\ \/ cur[t] \in sessionMap /\ UNCHANGED crashed
     \/ pc[Acceptor] = "AcInsert" /\ crashed' = TRUE
  /\ Goto(t, "SpLock")
  /\ UNCHANGED <<session, locks, listener, quits, system, local, history>>

\* SendPacket takes the exclusive lock, finds the session and holds the lock
\* until it has its critical section.
SpLock(t) ==
  /\ At(t, "SpLock")
  /\ writer = NoThread /\ pc[Acceptor] # "AcInsert"
  /\ cur[t] \in sessionMap
  /\ writer' = t
  /\ Goto(t, "SpEnter")
  /\ UNCHANGED <<session, owner, sessionMap, listener, quits, system, crashed,
                 local, history>>

SpEnter(t) ==
  /\ At(t, "SpEnter")
  /\ owner[cur[t]] \in {NoThread, t}
  /\ owner' = [owner EXCEPT ![cur[t]] = t]
  /\ writer' = NoThread
  /\ Goto(t, "SpEnqueue")
  /\ UNCHANGED <<session, sessionMap, listener, quits, system, crashed, local, history>>

\* Header and value go into sendQ; what does not fit is dropped.  Who finds
\* isSending clear counts the send he is about to post.
SpEnqueue(t) ==
  LET s      == cur[t]
      frame  == Echo(echoed[s] + 1)
      header == SubSeq(frame, 1, 1)
      value  == SubSeq(frame, 2, Len(frame))
      half   == Enqueue(sendQ[s], header)
  IN  /\ At(t, "SpEnqueue")
      /\ sendQ' = [sendQ EXCEPT ![s] = Enqueue(half, value)]
      /\ cut' = IF EnqueueSize(sendQ[s], header) + EnqueueSize(half, value) = Len(frame)
                THEN cut ELSE cut \cup {s}
      /\ echoed' = [echoed EXCEPT ![s] = @ + 1]
      /\ todo' = [todo EXCEPT ![t] = @ - 1]
      /\ isSending' = [isSending EXCEPT ![s] = TRUE]
      /\ ioCount' = [ioCount EXCEPT ![s] = IF isSending[s] THEN @ ELSE @ + 1]
      /\ Goto(t, IF isSending[s] THEN "RecvLoop" ELSE "SpPost")
      /\ UNCHANGED <<object, locks, listener, quits, system, crashed, cur, back, sent, out>>

SpPost(t) == At(t, "SpPost") /\ PostSend(t, "RecvLoop", "SpUndo")

SpUndo(t) == At(t, "SpUndo") /\ Release(t, "RecvLoop", "RecvLoop")

RecvPost(t) ==
  /\ At(t, "RecvLoop") /\ todo[t] = 0
  /\ Posted(t, "recv", "Leave", "RecvDec")
  /\ UNCHANGED <<session, areas>>

RecvDec(t) == At(t, "RecvDec") /\ Release(t, "Leave", "OuterLeave")

----------------------------------------------------------------------------
(***************************************************************************)
(* SendProc.                                                               *)
(***************************************************************************)

EnterSend(t) ==
  /\ At(t, "EnterSend")
  /\ Enter(t)
  /\ Goto(t, "SdMove")
  /\ UNCHANGED <<session, sessionMap, writer, listener, quits, system, crashed, local,
                 history>>

\* What was sent leaves the queue; what is left is counted, to be sent at once.
SdMove(t) ==
  LET s    == cur[t]
      left == MoveFront(sendQ[s], moved[s]["send"])
      more == UseSize(left) > 0
  IN  /\ At(t, "SdMove")
      /\ sendQ' = [sendQ EXCEPT ![s] = left]
      /\ moved' = [moved EXCEPT ![s]["send"] = 0]
      /\ isSending' = [isSending EXCEPT ![s] = more]
      /\ ioCount' = [ioCount EXCEPT ![s] = IF more THEN @ + 1 ELSE @]
      /\ Goto(t, IF more THEN "SdPost" ELSE "SdDec")
      /\ UNCHANGED <<object, locks, listener, quits, sock, io, areas, crashed, local,
                     history>>

SdPost(t) == At(t, "SdPost") /\ PostSend(t, "SdDec", "SdUndo")

SdUndo(t) == At(t, "SdUndo") /\ Release(t, "SdDec", "OuterLeave")

SdDec(t) == At(t, "SdDec") /\ Release(t, "Leave", "OuterLeave")

----------------------------------------------------------------------------
(***************************************************************************)
(* AcceptThread and main.                                                  *)
(***************************************************************************)

AcSocket(t) ==
  /\ t = Acceptor /\ At(t, "AcSocket")
  /\ \/ listener' = "open" /\ Goto(t, "AcListen")
     \/ UNCHANGED listener /\ Goto(t, "Ended")
  /\ UNCHANGED <<session, locks, quits, system, crashed, local, history>>

\* bind and listen; they fail on a socket that is closed.
AcListen(t) ==
  /\ t = Acceptor /\ At(t, "AcListen")
  /\ \/ listener = "open" /\ Goto(t, "AcCall")
     \/ Goto(t, "Ended")
  /\ UNCHANGED <<session, locks, listener, quits, system, crashed, local, history>>

\* The call of accept.  A socket that is closed already is an error the code
\* stops at; one that is closed while the call waits ends the thread.
AcCall(t) ==
  /\ t = Acceptor /\ At(t, "AcCall")
  /\ crashed' = (listener = "closed")
  /\ Goto(t, "AcWait")
  /\ UNCHANGED <<session, locks, listener, quits, system, local, history>>

AcInterrupted(t) ==
  /\ t = Acceptor /\ At(t, "AcWait") /\ listener = "closed"
  /\ Goto(t, "Ended")
  /\ UNCHANGED <<session, locks, listener, quits, system, crashed, local, history>>

\* A connection arrives: a new Session.
Accept(t) ==
  /\ t = Acceptor /\ At(t, "AcWait") /\ listener = "open"
  /\ \E s \in IDs :
       /\ object[s] = "none" /\ \A r \in IDs : r < s => object[r] # "none"
       /\ object' = [object EXCEPT ![s] = "alive"]
       /\ sock' = [sock EXCEPT ![s] = "open"]
       /\ cur' = [cur EXCEPT ![t] = s]
  /\ Goto(t, "AcLock")
  /\ UNCHANGED <<ioCount, isSending, sendQ, locks, listener, quits, io, moved, areas,
                 crashed, todo, back, history>>

AcLock(t) ==
  /\ t = Acceptor /\ At(t, "AcLock")
  /\ writer = NoThread
  /\ Goto(t, "AcInsert")
  /\ UNCHANGED <<session, locks, listener, quits, system, crashed, local, history>>

AcInsert(t) ==
  /\ t = Acceptor /\ At(t, "AcInsert")
  /\ sessionMap' = sessionMap \cup {cur[t]}
  /\ Goto(t, "AcPost")
  /\ UNCHANGED <<session, owner, writer, listener, quits, system, crashed,
                 local, history>>

\* The first receive, counted before it is posted.
AcPost(t) ==
  /\ At(t, "AcPost")
  /\ ioCount' = [ioCount EXCEPT ![cur[t]] = @ + 1]
  /\ Posted(t, "recv", "AcCall", "AcUndo")
  /\ UNCHANGED <<object, isSending, sendQ, areas>>

\* The peer has reset the connection: the session goes, and so does the program.
AcUndo(t) == At(t, "AcUndo") /\ Release(t, "AcBreak", "AcBreak")

AcBreak(t) ==
  /\ At(t, "AcBreak")
  /\ crashed' = TRUE
  /\ UNCHANGED <<session, locks, listener, quits, system, pc, local, history>>

\* A key is pressed: the listening socket is closed, if there is one, and every
\* thread is sent an empty completion, the accept thread too.
Quit ==
  /\ At(Main, "Getch")
  /\ listener' = IF listener = "open" THEN "closed" ELSE listener
  /\ quits' = Cardinality(Threads)
  /\ Goto(Main, "Join")
  /\ UNCHANGED <<session, locks, system, crashed, local, history>>

Join ==
  /\ At(Main, "Join")
  /\ \A t \in Threads : pc[t] = "Ended"
  /\ Goto(Main, "Done")
  /\ UNCHANGED <<session, locks, listener, quits, system, crashed, local, history>>

----------------------------------------------------------------------------
(***************************************************************************)
(* Windows and the peers.                                                  *)
(***************************************************************************)

\* Frames arrive.
Arrive(s) ==
  /\ ~crashed /\ io[s]["recv"] = "posted"
  /\ \E n \in 1 .. MaxFrames[s] - sent[s] :
       /\ sent' = [sent EXCEPT ![s] = @ + n]
       /\ moved' = [moved EXCEPT ![s]["recv"] = n]
  /\ io' = [io EXCEPT ![s]["recv"] = "ok"]
  /\ UNCHANGED <<session, locks, listener, quits, sock, areas, crashed, pc, local,
                 echoed, cut, out>>

\* The peer ends its stream.
HangUp(s) ==
  /\ ~crashed /\ io[s]["recv"] = "posted" /\ sock[s] = "open"
  /\ io' = [io EXCEPT ![s]["recv"] = "err"]
  /\ sock' = [sock EXCEPT ![s] = "half"]
  /\ UNCHANGED <<session, locks, listener, quits, moved, areas, crashed, pc, local,
                 history>>

\* The peer reads what it is sent; the send is done when all of it has gone.
Deliver(s) ==
  /\ ~crashed /\ io[s]["send"] = "posted"
  /\ out' = [out EXCEPT ![s] = @ \o InAreas(s)]
  /\ moved' = [moved EXCEPT ![s]["send"] = Len(InAreas(s))]
  /\ io' = [io EXCEPT ![s]["send"] = "ok"]
  /\ areas' = [areas EXCEPT ![s] = NoAreas]
  /\ UNCHANGED <<session, locks, listener, quits, sock, crashed, pc, local, sent,
                 echoed, cut>>

PeerReset(s) ==
  /\ ~crashed /\ sock[s] \in {"open", "half"}
  /\ sock' = [sock EXCEPT ![s] = "reset"]
  /\ io' = [io EXCEPT ![s] = [ty \in IoTypes |-> IF @[ty] = "posted" THEN "err" ELSE @[ty]]]
  /\ areas' = [areas EXCEPT ![s] = NoAreas]
  /\ UNCHANGED <<session, locks, listener, quits, moved, crashed, pc, local, history>>

----------------------------------------------------------------------------
Step(t) ==
  \/ RelErase(t) \/ RelWait(t) \/ RelDelete(t) \/ OuterLeave(t)
  \/ EnterLost(t) \/ DecLost(t) \/ Leave(t)
  \/ EnterRecv(t) \/ Find(t) \/ SpLock(t) \/ SpEnter(t) \/ SpEnqueue(t)
  \/ SpPost(t) \/ SpUndo(t) \/ RecvPost(t) \/ RecvDec(t)
  \/ EnterSend(t) \/ SdMove(t) \/ SdPost(t) \/ SdUndo(t) \/ SdDec(t)
  \/ AcSocket(t) \/ AcListen(t) \/ AcCall(t) \/ AcInterrupted(t)
  \/ AcLock(t) \/ AcInsert(t) \/ AcPost(t) \/ AcUndo(t) \/ AcBreak(t)

Next ==
  \/ \E t \in Threads : Step(t) \/ TakeQuit(t) \/ Accept(t)
  \/ \E t \in Workers, s \in IDs, ty \in IoTypes : Take(t, s, ty)
  \/ \E s \in IDs : Arrive(s) \/ HangUp(s) \/ Deliver(s) \/ PeerReset(s)
  \/ Quit \/ Join

Spec == Init /\ [][Next]_vars

\* Threads run, a completion is taken by some worker, and the peers read.  That
\* connections and frames come, that a peer leaves and that a key is pressed is
\* left open.
Fairness ==
  /\ \A t \in Threads : WF_vars(Step(t))
  /\ WF_vars(\E t \in Workers, s \in IDs, ty \in IoTypes : Take(t, s, ty))
  /\ WF_vars(\E t \in Workers : TakeQuit(t))
  /\ \A s \in IDs : WF_vars(Deliver(s))
  /\ WF_vars(Join)

FairSpec == Spec /\ Fairness

----------------------------------------------------------------------------
(***************************************************************************)
(* Properties.                                                             *)
(***************************************************************************)

Serving == {"EnterLost", "DecLost", "EnterRecv", "RecvLoop", "SpLock",
            "SpEnter", "SpEnqueue", "SpPost", "SpUndo", "RecvDec",
            "EnterSend", "SdMove", "SdPost", "SdUndo", "SdDec"}

\* References of a thread that is yet to give them back.
Held(t) == (IF pc[t] \in Serving THEN 1 ELSE 0)
           + (IF pc[t] \in {"SpPost", "SpUndo", "SdPost", "SdUndo", "AcUndo"} THEN 1 ELSE 0)

ThreadRefs(s) == {r \in Threads \X (1 .. 2) : cur[r[1]] = s /\ r[2] <= Held(r[1])}

\* ioCount is the number of operations in flight plus the references threads
\* hold of completions they serve and of operations they are about to post.
CountExact ==
  \A s \in IDs :
    ioCount[s] = Cardinality(ThreadRefs(s)) + Cardinality({ty \in IoTypes : io[s][ty] # "idle"})

\* Where a thread works on the Session it was handed.
Uses(t) == pc[t] \in Serving \cup {"RelErase", "RelWait", "RelDelete", "Leave",
                                   "AcLock", "AcInsert", "AcPost", "AcUndo"}

\* A session is not deleted while a thread works on it, waits for its critical
\* section or has yet to leave it, or while an operation is in flight.  The one
\* exception is the thread that deletes it out of RecvProc or SendProc.
\* ReleaseSession and SendPacket find it in the map, so that the former never
\* returns with the lock of the map.
NoUseAfterDelete ==
  /\ \A t \in Threads : Uses(t) => object[cur[t]] = "alive"
  /\ \A t \in Threads : pc[t] \in {"SpLock", "RelErase"} => cur[t] \in sessionMap
  /\ \A s \in IDs : object[s] # "alive" =>
       owner[s] = NoThread /\ \A ty \in IoTypes : io[s][ty] = "idle"

\* As long as no frame was cut the peer is sent the echoes of its frames, one
\* after the other and each of them whole: what it was sent and what sendQ still
\* holds are the frames handled, whatever parts the sends took.
StreamWhole ==
  \A s \in IDs \ cut :
    LET queued == Peek(sendQ[s], UseSize(sendQ[s]))
        echoes[n \in 0 .. MaxFrames[s]] == IF n = 0 THEN <<>> ELSE echoes[n - 1] \o Echo(n)
    IN  out[s] \o SubSeq(queued, moved[s]["send"] + 1, Len(queued)) = echoes[echoed[s]]

\* The peer is gone: it has ended its stream or reset the connection.
Gone(s) == sock[s] \in {"half", "reset"}

\* While the server runs, every session whose peer is gone is deleted: no order
\* of completions leaves a reference behind that keeps it.  And once it was told
\* to end, with the listening socket closed, it does; unless it falls over.
Settles ==
  []<>(\/ pc[Main] = "Getch" /\ \A s \in IDs : ~ Gone(s)
       \/ pc[Main] = "Join" /\ listener # "closed"
       \/ pc[Main] = "Done" \/ crashed)

=============================================================================
