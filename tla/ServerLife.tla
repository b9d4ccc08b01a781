----------------------------- MODULE ServerLife -----------------------------
(***************************************************************************)
(* The life of a server: Start with its errors, the accept thread and the  *)
(* workers, Stop, and the destructor.  The stack of free indices is the    *)
(* real one, one access at a time; a completion is handled in one step,    *)
(* since NetServer has the interleavings inside, and what counts here is   *)
(* what the threads are at when Stop comes.                                *)
(***************************************************************************)
EXTENDS LockFreeStack, Sequences, FiniteSetsExt

CONSTANTS
  Main, Acceptor, Workers,
  MaxConns,    \* bound: connections
  MaxFrames,   \* bound: messages received
  Answers      \* bound: numbers of packets the application answers one with

Threads == {Acceptor} \cup Workers
Slots   == Values

\* The indices are numbers, and all threads fit one WaitForMultipleObjects.
ASSUME LifeAssumption ==
  /\ Users = {Main} \cup Threads /\ Main \notin Threads /\ Acceptor \notin Workers
  /\ Slots \subseteq Nat /\ IsFiniteSet(Slots)
  /\ Cardinality(Threads) <= 64
  /\ MaxConns \in Nat /\ MaxFrames \in Nat /\ Answers \subseteq Nat

VARIABLES
  main,       \* where the main thread is
  toPush,     \* the indices Start has yet to push
  zeros,      \* the completions Stop has posted
  running,    \* m_isRunning
  hcp,        \* m_hcp is open
  listening,  \* m_listenSock is open
  sessions,   \* m_sessions exists
  begun,      \* m_threads
  st,         \* [Threads -> where it is]
  work,       \* [Threads -> the index it has in hand]
  port,       \* the completions of the port, in their order
  live,       \* [Slots -> BOOLEAN]: RELEASE_FLAG is clear
  io,         \* [Slots -> [IoTypes -> whether an operation is posted, or done]]
  isSending,
  sending,    \* [Slots -> Nat]: sendingCount
  queued,     \* [Slots -> Nat]: the packets in sendQ
  taken,      \* the packets allocated and not given back
  conns, frames

mainVars    == <<main, toPush, zeros, running, hcp, listening, sessions, begun>>
sessionVars == <<live, io, isSending, sending, queued, taken>>
lifeVars    == <<mainVars, st, work, port, sessionVars, conns, frames>>
vars        == <<stackVars, lifeVars>>

IoTypes == {"recv", "send"}
Zero    == [slot |-> -1, type |-> "zero", ok |-> FALSE]

Init ==
  /\ StackInit
  /\ main = "StPort" /\ toPush = Slots /\ zeros = 0
  /\ running = FALSE /\ hcp = FALSE /\ listening = FALSE /\ sessions = FALSE
  /\ begun = {}
  /\ st = [t \in Threads |-> "loop"] /\ work = [t \in Threads |-> -1]
  /\ port = <<>>
  /\ live = [s \in Slots |-> FALSE]
  /\ io = [s \in Slots |-> [ty \in IoTypes |-> "none"]]
  /\ isSending = live
  /\ sending = [s \in Slots |-> 0] /\ queued = sending /\ taken = 0
  /\ conns = 0 /\ frames = 0

----------------------------------------------------------------------------
(***************************************************************************)
(* Start.  An error leaves everything as it is.                            *)
(***************************************************************************)

MainGo(from, to) == main = from /\ main' = to

StPort ==
  /\ MainGo("StPort", "StListen")
  /\ hcp' = TRUE
  /\ UNCHANGED <<stackVars, toPush, zeros, running, listening, sessions, begun,
                 st, work, port, sessionVars, conns, frames>>

StListen ==
  /\ MainGo("StListen", "StPush")
  /\ listening' = TRUE /\ sessions' = TRUE
  /\ UNCHANGED <<stackVars, toPush, zeros, running, hcp, begun,
                 st, work, port, sessionVars, conns, frames>>

StPush ==
  /\ main = "StPush" /\ toPush # {}
  /\ PushAlloc(Main, Max(toPush))
  /\ toPush' = toPush \ {Max(toPush)}
  /\ UNCHANGED <<main, zeros, running, hcp, listening, sessions, begun,
                 st, work, port, sessionVars, conns, frames>>

StRun ==
  /\ MainGo("StPush", "StThreads")
  /\ toPush = {} /\ at[Main] = "out"
  /\ running' = TRUE
  /\ UNCHANGED <<stackVars, toPush, zeros, hcp, listening, sessions, begun,
                 st, work, port, sessionVars, conns, frames>>

\* _beginthreadex, the accept thread first.
StThread(t) ==
  /\ MainGo("StThreads", IF Cardinality(begun) + 1 = Cardinality(Threads)
                         THEN "up" ELSE "StThreads")
  /\ t \notin begun /\ (begun = {} <=> t = Acceptor)
  /\ begun' = begun \cup {t}
  /\ UNCHANGED <<stackVars, toPush, zeros, running, hcp, listening, sessions,
                 st, work, port, sessionVars, conns, frames>>

StFails ==
  /\ main \in {"StPort", "StListen", "StThreads"}
  /\ main' = "gone"
  /\ UNCHANGED <<stackVars, toPush, zeros, running, hcp, listening, sessions, begun,
                 st, work, port, sessionVars, conns, frames>>

----------------------------------------------------------------------------
(***************************************************************************)
(* The accept thread.                                                      *)
(***************************************************************************)

\* A thread that runs, is there, and is not inside Push or Pop.
At(t, where) == t \in begun /\ st[t] = where /\ at[t] = "out"

Goto(t, where) == st' = [st EXCEPT ![t] = where]

\* The thread is done with the index it had in hand.
Drop(t) == work' = [work EXCEPT ![t] = -1]

AcTest ==
  /\ At(Acceptor, "loop")
  /\ Goto(Acceptor, IF running THEN "accept" ELSE "ended")
  /\ UNCHANGED <<stackVars, mainVars, work, port, sessionVars, conns, frames>>

Accept ==
  /\ At(Acceptor, "accept")
  /\ listening /\ conns < MaxConns
  /\ conns' = conns + 1
  /\ Goto(Acceptor, "pop")
  /\ UNCHANGED <<stackVars, mainVars, work, port, sessionVars, frames>>

\* Any error ends the thread: the socket that Stop closed, but also a client
\* that gave up while it waited.
AcceptFails ==
  /\ At(Acceptor, "accept")
  /\ Goto(Acceptor, "ended")
  /\ UNCHANGED <<stackVars, mainVars, work, port, sessionVars, conns, frames>>

AcPop ==
  /\ At(Acceptor, "pop")
  /\ PopTop(Acceptor)
  /\ UNCHANGED lifeVars

AcFull ==
  /\ PopNothing(Acceptor)
  /\ Goto(Acceptor, "loop")
  /\ UNCHANGED <<mainVars, work, port, sessionVars, conns, frames>>

AcGot ==
  /\ PopFree(Acceptor)
  /\ work' = [work EXCEPT ![Acceptor] = Taken(Acceptor)]
  /\ Goto(Acceptor, "open")
  /\ UNCHANGED <<mainVars, port, sessionVars, conns, frames>>

\* OnConnectionRequest says no.
AcReject ==
  /\ At(Acceptor, "open")
  /\ PushAlloc(Acceptor, work[Acceptor])
  /\ Goto(Acceptor, "loop") /\ Drop(Acceptor)
  /\ UNCHANGED <<mainVars, port, sessionVars, conns, frames>>

\* Session::Init, OnAccept and the first WSARecv.
AcOpen ==
  /\ At(Acceptor, "open")
  /\ LET s == work[Acceptor] IN
       /\ live' = [live EXCEPT ![s] = TRUE]
       /\ io' = [io EXCEPT ![s].recv = "posted"]
       /\ isSending' = [isSending EXCEPT ![s] = FALSE]
       /\ sending' = [sending EXCEPT ![s] = 0]
  /\ Goto(Acceptor, "loop") /\ Drop(Acceptor)
  /\ UNCHANGED <<stackVars, mainVars, port, queued, taken, conns, frames>>

----------------------------------------------------------------------------
(***************************************************************************)
(* The workers.  A session without operations has no references.           *)
(***************************************************************************)

\* A mutant: only what is being sent is given back.
LeftOverSending(s) == sending[s]

\* What the release, or Stop, finds in a session.
LeftOver(s) == sending[s] + queued[s]

\* The first completion of the port, taken by t.
Takes(t, c) == At(t, "loop") /\ t \in Workers /\ port # <<>> /\ c = Head(port)
               /\ port' = Tail(port)

TakeZero(t) ==
  /\ Takes(t, Zero)
  /\ Goto(t, "ended")
  /\ UNCHANGED <<stackVars, mainVars, work, sessionVars, conns, frames>>

\* ReturnSession, at the end of what a completion brings about.
Settle(t, s) ==
  IF \A ty \in IoTypes : io'[s][ty] = "none"
  THEN Goto(t, "release") /\ work' = [work EXCEPT ![t] = s]
  ELSE UNCHANGED <<st, work>>

\* RecvProc.  The application answers with n packets, one SendPacket each: the
\* first is sent at once unless another send is under way.
TakeRecv(t, s, n) ==
  /\ Takes(t, [slot |-> s, type |-> "recv", ok |-> TRUE])
  /\ taken' = taken + n
  /\ LET sends == n > 0 /\ ~isSending[s] IN
       /\ isSending' = [isSending EXCEPT ![s] = @ \/ sends]
       /\ sending' = [sending EXCEPT ![s] = IF sends THEN 1 ELSE @]
       /\ queued' = [queued EXCEPT ![s] = @ + n - IF sends THEN 1 ELSE 0]
       /\ io' = [io EXCEPT ![s].recv = "posted", ![s].send = IF sends THEN "posted" ELSE @]
  /\ UNCHANGED <<stackVars, mainVars, st, work, live, conns, frames>>

\* SendProc: what was sent is given back, and what was queued meanwhile is sent.
TakeSend(t, s) ==
  /\ Takes(t, [slot |-> s, type |-> "send", ok |-> TRUE])
  /\ taken' = taken - sending[s]
  /\ sending' = [sending EXCEPT ![s] = queued[s]]
  /\ queued' = [queued EXCEPT ![s] = 0]
  /\ isSending' = [isSending EXCEPT ![s] = queued[s] > 0]
  /\ io' = [io EXCEPT ![s].send = IF queued[s] > 0 THEN "posted" ELSE "none"]
  /\ Settle(t, s)
  /\ UNCHANGED <<stackVars, mainVars, live, conns, frames>>

\* The branch for errors: isSending and sendingPackets stay as they are.
TakeFailure(t, s, ty) ==
  /\ Takes(t, [slot |-> s, type |-> ty, ok |-> FALSE])
  /\ io' = [io EXCEPT ![s][ty] = "none"]
  /\ Settle(t, s)
  /\ UNCHANGED <<stackVars, mainVars, live, isSending, sending, queued, taken,
                 conns, frames>>

\* ReleaseSession, up to the node for the push of the index.
Release(t) ==
  /\ At(t, "release")
  /\ LET s == work[t] IN
       /\ live' = [live EXCEPT ![s] = FALSE]
       /\ taken' = taken - LeftOver(s)
       /\ sending' = [sending EXCEPT ![s] = 0]
       /\ queued' = [queued EXCEPT ![s] = 0]
       /\ PushAlloc(t, s)
  /\ Goto(t, "loop") /\ Drop(t)
  /\ UNCHANGED <<mainVars, port, io, isSending, conns, frames>>

IoDone(s, ty, ok) ==
  /\ sessions /\ io[s][ty] = "posted"
  /\ ok /\ ty = "recv" => frames < MaxFrames
  /\ frames' = IF ok /\ ty = "recv" THEN frames + 1 ELSE frames
  /\ io' = [io EXCEPT ![s][ty] = "done"]
  /\ port' = Append(port, [slot |-> s, type |-> ty, ok |-> ok])
  /\ UNCHANGED <<stackVars, mainVars, st, work, live, isSending, sending, queued,
                 taken, conns>>

----------------------------------------------------------------------------
(***************************************************************************)
(* Stop and the destructor.                                                *)
(***************************************************************************)

\* Stop is called by the program or, after a failed Start, by the destructor.
SpFlag ==
  /\ main = "up" \/ (main = "gone" /\ running)
  /\ main' = "SpListen"
  /\ running' = FALSE
  /\ UNCHANGED <<stackVars, toPush, zeros, hcp, listening, sessions, begun,
                 st, work, port, sessionVars, conns, frames>>

\* A mutant: the listening socket stays open.
SpListenKeeps ==
  /\ MainGo("SpListen", "SpPost")
  /\ UNCHANGED <<stackVars, toPush, zeros, running, hcp, listening, sessions, begun,
                 st, work, port, sessionVars, conns, frames>>

SpListen ==
  /\ MainGo("SpListen", "SpPost")
  /\ listening' = FALSE
  /\ UNCHANGED <<stackVars, toPush, zeros, running, hcp, sessions, begun,
                 st, work, port, sessionVars, conns, frames>>

\* One for every thread; the accept thread takes none.
Zeros == Cardinality(begun)

SpPost ==
  /\ main = "SpPost" /\ zeros < Zeros
  /\ zeros' = zeros + 1
  /\ port' = Append(port, Zero)
  /\ UNCHANGED <<stackVars, main, toPush, running, hcp, listening, sessions, begun,
                 st, work, sessionVars, conns, frames>>

\* A mutant: bWaitAll is FALSE.
AnyEnded == begun = {} \/ \E t \in begun : st[t] = "ended"

AllEnded == \A t \in begun : st[t] = "ended"

\* WaitForMultipleObjects.
SpWait ==
  /\ MainGo("SpPost", "SpClean")
  /\ zeros = Zeros /\ AllEnded
  /\ UNCHANGED <<stackVars, toPush, zeros, running, hcp, listening, sessions, begun,
                 st, work, port, sessionVars, conns, frames>>

\* The sessions that are left lose their sockets and packets; nobody is told,
\* and their indices stay out of the stack.
SpClean ==
  /\ MainGo("SpClean", "SpPort")
  /\ taken' = taken - MapThenSumSet(LeftOver, {s \in Slots : live[s]})
  /\ sending' = [s \in Slots |-> 0] /\ queued' = [s \in Slots |-> 0]
  /\ sessions' = FALSE
  /\ UNCHANGED <<stackVars, toPush, zeros, running, hcp, listening, begun,
                 st, work, port, live, io, isSending, conns, frames>>

SpPort ==
  /\ MainGo("SpPort", "gone")
  /\ hcp' = FALSE
  /\ UNCHANGED <<stackVars, toPush, zeros, running, listening, sessions, begun,
                 st, work, port, sessionVars, conns, frames>>

\* What is left of the destructor: ~LockFreeStack.
Destroy ==
  /\ MainGo("gone", "freed") /\ ~running
  /\ FreeAll
  /\ UNCHANGED <<toPush, zeros, running, hcp, listening, sessions, begun,
                 st, work, port, sessionVars, conns, frames>>

----------------------------------------------------------------------------
Started ==
  \/ StPort \/ StListen \/ StPush \/ StRun
  \/ \E t \in Threads : StThread(t)

Stopped == SpListen \/ SpPost \/ SpWait \/ SpClean \/ SpPort \/ Destroy

AcStep == AcTest \/ AcPop \/ AcFull \/ AcGot \/ AcReject \/ AcOpen

\* The end of the accept thread when its socket is gone.
AcEnd == ~listening /\ AcceptFails

WkStep(t) ==
  \/ TakeZero(t) \/ Release(t)
  \/ \E s \in Slots :
       \/ \E n \in Answers : TakeRecv(t, s, n)
       \/ TakeSend(t, s)
       \/ \E ty \in IoTypes : TakeFailure(t, s, ty)

InStack(t) == StackStep(t) /\ UNCHANGED lifeVars

Next ==
  \/ Started \/ StFails \/ SpFlag \/ Stopped
  \/ AcStep \/ Accept \/ AcceptFails
  \/ \E t \in Workers : WkStep(t)
  \/ \E t \in Users : InStack(t)
  \/ \E s \in Slots, ty \in IoTypes, ok \in BOOLEAN : IoDone(s, ty, ok)

Spec == Init /\ [][Next]_vars

MainStep     == Started \/ Stopped \/ (main = "gone" /\ SpFlag) \/ InStack(Main)
AcceptorStep == AcStep \/ AcEnd \/ InStack(Acceptor)
WorkerStep(t) == WkStep(t) \/ InStack(t)

\* Threads are scheduled, and accept fails on a closed socket.  Clients, their
\* answers and the call of Stop are under no obligation.
Fairness ==
  /\ WF_vars(MainStep) /\ WF_vars(AcceptorStep)
  /\ \A t \in Workers : WF_vars(WorkerStep(t))

FairSpec == Spec /\ Fairness

----------------------------------------------------------------------------
\* The nodes whose value counts: on the stack, or in the hands of a thread.
Held == OnStack \cup ({node[t] : t \in Users} \ {NoNode})

\* Where an index is found.
Copies(s) ==
  Cardinality({n \in Held : data[n] = s}) + (IF s \in toPush \/ live[s] THEN 1 ELSE 0)
  + (IF work[Acceptor] = s THEN 1 ELSE 0)

\* From the first push to the destructor every index is in one place: still to
\* be pushed, on the stack, in the hands of a thread, or with a live session.
\* Pushes and pops of three threads meet in the compare-and-swap of _Top, with
\* nodes that are used again at once and tags of one value only: that the
\* accept thread alone pops is enough.
IndexExact == main # "freed" => \A s \in Slots : Copies(s) = 1

\* Nothing is deleted or closed under a thread: while one of the threads Start
\* began has not ended, the sessions and the port it works on are there,
\* whether all of Start succeeded or only a part.
UseOnlyWhatExists == \A t \in begun : st[t] # "ended" => sessions /\ hcp

\* Every packet allocated is in one session, queued or being sent, until it is
\* given back, once: by the completion, by the release, or by Stop.
PacketsExact ==
  taken = MapThenSumSet(LAMBDA s : sending[s] + queued[s], Slots)

\* Stop returns, and the program ends, whatever completions are queued before
\* those of Stop and wherever the threads are.
StopReturns == (main = "SpListen") ~> (main = "freed")

=============================================================================
