------------------------------ MODULE ChatServer ------------------------------
(***************************************************************************)
(* ChatServer: the callbacks of CNetServer, made by the accept thread and  *)
(* the workers, push jobs into a queue; one contents thread takes them out *)
(* and keeps the players, the accounts and the sectors.  Only the contents *)
(* thread touches these, so the handling of a job is one action; pushing   *)
(* one takes the three steps the other threads can see.                    *)
(*                                                                         *)
(* A callback is made on behalf of a session, by one thread at a time      *)
(* (CallbackOrder of NetServer).  OnRelease may also run on the contents   *)
(* thread, inside its own Disconnect or SendPacket; it only pushes a job,  *)
(* as if another thread had done so meanwhile.                             *)
(***************************************************************************)
EXTENDS Integers, Sequences, FiniteSets, SequencesExt

CONSTANTS
  Sessions,    \* the sessions CNetServer opens, each with an ID of its own
  Players,     \* the Player objects of _playerPool
  Accounts,    \* the account numbers clients log in with
  Messages,    \* what clients send
  SectorMaxX,  \* SECTOR_MAX_X
  SectorMaxY,  \* SECTOR_MAX_Y
  Timeout,     \* the 40000 ms of CheckTimeout, in seconds
  MaxPackets,  \* bound: packets a client sends
  MaxJobs,     \* bound: jobs in the queue when a callback is made
  MaxBehind,   \* bound: seconds the contents thread may be behind
  NoPlayer,    \* a null pointer
  NoSession,   \* the sessionId of a Player object never used
  NoAccount,   \* the account number 0 of Player::Init
  NoSector     \* INVALID_SECTOR

Sectors == (0 .. SectorMaxX - 1) \X (0 .. SectorMaxY - 1)

\* A packet, as far as its handler looks at it: "own" says whether it carries
\* the account number of the player; "malformed" stands for an unknown type, a
\* wrong size or an impossible length.
AllMessages ==
  [type : {"login"}, account : Accounts]
  \cup [type : {"move"}, own : BOOLEAN, to : (0 .. SectorMaxX) \X (0 .. SectorMaxY)]
  \cup [type : {"message"}, own : BOOLEAN]
  \cup [type : {"heartbeat", "malformed"}]

ASSUME ChatAssumption ==
  /\ Messages \subseteq AllMessages
  /\ NoPlayer \notin Players /\ NoAccount \notin Accounts /\ NoSector \notin Sectors
  /\ IsFiniteSet(Sessions)
  /\ \E f \in [Sessions -> Players] : \A s, u \in Sessions : f[s] = f[u] => s = u

ASSUME ChatBounds ==
  /\ SectorMaxX \in Nat \ {0} /\ SectorMaxY \in Nat \ {0}
  /\ Timeout \in Nat \ {0} /\ MaxBehind \in Nat
  /\ MaxPackets \in Nat /\ MaxJobs \in Nat \ {0}

VARIABLES
  \* CNetServer, as its callbacks show it
  opened,      \* sessions OnAccept was called for
  closed,      \* sessions OnRelease was called for
  cut,         \* sessions Disconnect was called for while they were open
  packets,     \* [Sessions -> Nat]: how many OnRecv each has had
  push,        \* [Sessions -> {"none", "linked", "counted"}]: PushJob in progress
  \* the queue
  jobs,        \* the jobs linked into _jobQueue
  size,        \* its _size
  event,       \* _jobEvent is signalled
  \* the contents thread
  isRunning,
  pc,          \* "test", "wait", "drain", "clock" or "done"
  behind,      \* whole seconds in now - prev
  player,      \* [Players -> Player]
  sessionMap,  \* [Sessions -> Players \cup {NoPlayer}]
  accountMap,  \* [Accounts -> Players \cup {NoPlayer}]
  sectors,     \* [Sectors -> Seq(Players)]
  crashed,     \* a __debugbreak() was reached
  sent         \* [Sessions -> Nat]: the packets sent by the last job

netVars  == <<opened, closed, cut, packets, push>>
jobVars  == <<jobs, size, event>>
loopVars == <<isRunning, pc, behind>>
chatVars == <<player, sessionMap, accountMap, sectors, sent>>

vars == <<netVars, jobVars, loopVars, chatVars, crashed>>

Player == [sessionId : Sessions \cup {NoSession}, accountNo : Accounts \cup {NoAccount},
           sector : Sectors \cup {NoSector}, sectorIndex : Nat,
           quiet : 0 .. Timeout,   \* seconds since lastRecvTime, Timeout at most
           isLogin : BOOLEAN, isDisconnecting : BOOLEAN]

Nothing == [type |-> "none"]
Job     == [type : {"ACCEPT", "RELEASE", "RECV"}, session : Sessions,
            packet : Messages \cup {Nothing}]

Live == {sessionMap[s] : s \in Sessions} \ {NoPlayer}

Silence == [s \in Sessions |-> 0]
Only(s) == [Silence EXCEPT ![s] = 1]

\* Player::Init.
NewPlayer(s) ==
  [sessionId |-> s, accountNo |-> NoAccount, sector |-> NoSector, sectorIndex |-> 0,
   quiet |-> 0, isLogin |-> FALSE, isDisconnecting |-> FALSE]

Init ==
  /\ opened = {} /\ closed = {} /\ cut = {}
  /\ packets = [s \in Sessions |-> 0]
  /\ push = [s \in Sessions |-> "none"]
  /\ jobs = <<>> /\ size = 0 /\ event = FALSE
  /\ isRunning = TRUE /\ pc = "test" /\ behind = 0
  /\ player = [p \in Players |-> NewPlayer(NoSession)]
  /\ sessionMap = [s \in Sessions |-> NoPlayer]
  /\ accountMap = [a \in Accounts |-> NoPlayer]
  /\ sectors = [c \in Sectors |-> <<>>]
  /\ crashed = FALSE
  /\ sent = Silence

----------------------------------------------------------------------------
(***************************************************************************)
(* PushJob, called by the three callbacks: the job is linked into the      *)
(* queue, counted, and announced.                                          *)
(***************************************************************************)

Link(s, type, packet) ==
  /\ push[s] = "none"
  /\ Len(jobs) < MaxJobs
  /\ jobs' = Append(jobs, [type |-> type, session |-> s, packet |-> packet])
  /\ push' = [push EXCEPT ![s] = "linked"]
  /\ UNCHANGED <<size, event>>

OnAccept(s) ==
  /\ s \notin opened
  /\ Link(s, "ACCEPT", Nothing)
  /\ opened' = opened \cup {s}
  /\ UNCHANGED <<closed, cut, packets, loopVars, chatVars, crashed>>

\* A mutant of the accept thread: the first receive is posted before OnAccept.
OnRecvBeforeAccept(s) ==
  /\ s \notin closed /\ packets[s] < MaxPackets
  /\ \E m \in Messages : Link(s, "RECV", m)
  /\ packets' = [packets EXCEPT ![s] = @ + 1]
  /\ UNCHANGED <<opened, closed, cut, loopVars, chatVars, crashed>>

OnRecv(s) ==
  /\ s \in opened \ closed /\ packets[s] < MaxPackets
  /\ \E m \in Messages : Link(s, "RECV", m)
  /\ packets' = [packets EXCEPT ![s] = @ + 1]
  /\ UNCHANGED <<opened, closed, cut, loopVars, chatVars, crashed>>

\* The client leaves, or the session was cut.
OnRelease(s) ==
  /\ s \in opened \ closed
  /\ Link(s, "RELEASE", Nothing)
  /\ closed' = closed \cup {s}
  /\ UNCHANGED <<opened, cut, packets, loopVars, chatVars, crashed>>

Count(s) ==
  /\ push[s] = "linked"
  /\ push' = [push EXCEPT ![s] = "counted"]
  /\ size' = size + 1
  /\ UNCHANGED <<opened, closed, cut, packets, jobs, event, loopVars, chatVars, crashed>>

\* A mutant of PushJob: nobody is told.
AnnounceNothing(s) ==
  /\ push[s] = "counted"
  /\ push' = [push EXCEPT ![s] = "none"]
  /\ UNCHANGED <<opened, closed, cut, packets, jobVars, loopVars, chatVars, crashed>>

Announce(s) ==
  /\ push[s] = "counted"
  /\ push' = [push EXCEPT ![s] = "none"]
  /\ event' = TRUE
  /\ UNCHANGED <<opened, closed, cut, packets, jobs, size, loopVars, chatVars, crashed>>

----------------------------------------------------------------------------
(***************************************************************************)
(* The loop of the contents thread.                                        *)
(***************************************************************************)

\* A mutant: Stop is not noticed.
TestNothing ==
  /\ pc = "test"
  /\ pc' = "wait"
  /\ UNCHANGED <<netVars, jobVars, isRunning, behind, chatVars, crashed>>

TestRunning ==
  /\ pc = "test"
  /\ pc' = IF isRunning THEN "wait" ELSE "done"
  /\ UNCHANGED <<netVars, jobVars, isRunning, behind, chatVars, crashed>>

\* The event is reset by the wait it ends; or a second has passed.
Wake ==
  /\ pc = "wait"
  /\ pc' = "drain"
  /\ event' = FALSE
  /\ UNCHANGED <<netVars, jobs, size, isRunning, behind, chatVars, crashed>>

\* Dequeue finds nothing counted; nobody sees that it counts down and up again.
Drained ==
  /\ pc = "drain" /\ size <= 0
  /\ pc' = "clock"
  /\ UNCHANGED <<netVars, jobVars, isRunning, behind, chatVars, crashed>>

\* A mutant: the player is marked, the session is left alone.
DisconnectMarks(pl, P) ==
  /\ player' = [p \in Players |-> [pl[p] EXCEPT !.isDisconnecting = @ \/ p \in P]]
  /\ UNCHANGED netVars

\* DisconnectPlayer for the players of P, the fields of all being those of pl.
DisconnectPlayers(pl, P) ==
  LET Q == {p \in P : ~pl[p].isDisconnecting}
  IN  /\ player' = [p \in Players |-> [pl[p] EXCEPT !.isDisconnecting = @ \/ p \in Q]]
      /\ cut' = cut \cup ({pl[p].sessionId : p \in Q} \ closed)
      /\ UNCHANGED <<opened, closed, packets, push>>

CheckTimeout ==
  /\ pc = "clock" /\ behind >= 1
  /\ behind' = behind - 1
  /\ DisconnectPlayers(player, {p \in Live : player[p].quiet >= Timeout})
  /\ pc' = "test"
  /\ UNCHANGED <<jobVars, isRunning, sessionMap, accountMap, sectors, sent, crashed>>

NoTimeYet ==
  /\ pc = "clock" /\ behind = 0
  /\ pc' = "test"
  /\ UNCHANGED <<netVars, jobVars, isRunning, behind, chatVars, crashed>>

\* Stop, as far as the contents thread sees it.
Stop ==
  /\ isRunning
  /\ isRunning' = FALSE
  /\ event' = TRUE
  /\ UNCHANGED <<netVars, jobs, size, pc, behind, chatVars, crashed>>

\* A second passes.
Tick ==
  /\ behind < MaxBehind
  /\ behind' = behind + 1
  /\ player' = [p \in Players |->
                 [player[p] EXCEPT !.quiet =
                    IF p \in Live /\ @ < Timeout THEN @ + 1 ELSE @]]
  /\ UNCHANGED <<netVars, jobVars, isRunning, pc, sessionMap, accountMap, sectors,
                 sent, crashed>>

----------------------------------------------------------------------------
(***************************************************************************)
(* HandleJob.                                                              *)
(***************************************************************************)

\* Dequeue of a job of this type: one is counted, and it is linked.
Take(type) ==
  /\ pc = "drain" /\ size > 0 /\ jobs # <<>>
  /\ Head(jobs).type = type
  /\ jobs' = Tail(jobs)
  /\ size' = size - 1
  /\ UNCHANGED <<event, loopVars>>

\* The player a job finds, or a null pointer.
FindPlayer == sessionMap[Head(jobs).session]

ProcessAccept ==
  /\ Take("ACCEPT")
  /\ \E p \in Players \ Live :
       /\ player' = [player EXCEPT ![p] = NewPlayer(Head(jobs).session)]
       /\ sessionMap' = [sessionMap EXCEPT ![Head(jobs).session] = p]
  /\ sent' = Silence
  /\ UNCHANGED <<netVars, accountMap, sectors, crashed>>

\* A player leaves its sector: the last one of the vector takes its place.
Moved(p) == Last(sectors[player[p].sector])

SectorsWithout(p) ==
  LET c == player[p].sector
  IN  [sectors EXCEPT ![c] = Front([@ EXCEPT ![player[p].sectorIndex + 1] = Moved(p)])]

\* A mutant of the above: the one that takes the place is not told.
PlayersWithoutIndex(p) == player

PlayersWithout(p) == [player EXCEPT ![Moved(p)].sectorIndex = player[p].sectorIndex]

\* A mutant of ProcessRelease: the account keeps its entry.
ReleaseKeepsAccount ==
  LET p == FindPlayer
  IN  /\ Take("RELEASE")
      /\ IF p = NoPlayer
         THEN UNCHANGED <<player, sectors, accountMap, sessionMap>>
         ELSE /\ IF player[p].sector = NoSector THEN UNCHANGED <<player, sectors>>
                 ELSE player' = PlayersWithout(p) /\ sectors' = SectorsWithout(p)
              /\ sessionMap' = [sessionMap EXCEPT ![Head(jobs).session] = NoPlayer]
              /\ UNCHANGED accountMap
      /\ sent' = Silence
      /\ UNCHANGED <<netVars, crashed>>

\* The entry of the account is erased, whoever it belongs to by now.
ProcessRelease ==
  LET p == FindPlayer
  IN  /\ Take("RELEASE")
      /\ IF p = NoPlayer
         THEN UNCHANGED <<player, sectors, accountMap, sessionMap>>
         ELSE /\ IF player[p].sector = NoSector THEN UNCHANGED <<player, sectors>>
                 ELSE player' = PlayersWithout(p) /\ sectors' = SectorsWithout(p)
              /\ accountMap' = IF player[p].isLogin
                               THEN [accountMap EXCEPT ![player[p].accountNo] = NoPlayer]
                               ELSE accountMap
              /\ sessionMap' = [sessionMap EXCEPT ![Head(jobs).session] = NoPlayer]
      /\ sent' = Silence
      /\ UNCHANGED <<netVars, crashed>>

\* PacketProc finds nobody to listen to.
PacketDropped ==
  /\ Take("RECV")
  /\ FindPlayer = NoPlayer \/ player[FindPlayer].isDisconnecting
  /\ sent' = Silence
  /\ UNCHANGED <<netVars, player, sessionMap, accountMap, sectors, crashed>>

\* What a handler does with a packet it does not accept.
Refuse(p, pl) ==
  /\ DisconnectPlayers(pl, {p})
  /\ sent' = Silence
  /\ UNCHANGED <<sessionMap, accountMap, sectors, crashed>>

\* The packet carries another account number than the player's.
Break(pl) ==
  /\ crashed' = TRUE
  /\ player' = pl
  /\ sent' = Silence
  /\ UNCHANGED <<netVars, sessionMap, accountMap, sectors>>

\* Another session has the account: it is cut, and the entry is overwritten.
PacketProcLogin(p, m, pl) ==
  LET a == m.account
      old == accountMap[a]
  IN  /\ m.type = "login"
      /\ \/ /\ pl[p].isLogin
            /\ Refuse(p, pl)
         \/ /\ ~pl[p].isLogin
            /\ DisconnectPlayers([pl EXCEPT ![p].accountNo = a, ![p].isLogin = TRUE],
                                 {old} \ {NoPlayer})
            /\ accountMap' = [accountMap EXCEPT ![a] = p]
            /\ sent' = Only(pl[p].sessionId)
            /\ UNCHANGED <<sessionMap, sectors, crashed>>

InRange(c) == c[1] < SectorMaxX /\ c[2] < SectorMaxY

\* A mutant of the next: nobody asks whether the player is logged in.
MoveWithoutLogin(p, m, pl) ==
  /\ m.type = "move" /\ m.own /\ InRange(m.to) /\ pl[p].sector = NoSector
  /\ player' = [pl EXCEPT ![p].sector = m.to, ![p].sectorIndex = Len(sectors[m.to])]
  /\ sectors' = [sectors EXCEPT ![m.to] = Append(@, p)]
  /\ sent' = Only(pl[p].sessionId)
  /\ UNCHANGED <<netVars, sessionMap, accountMap, crashed>>

PacketProcSectorMove(p, m, pl) ==
  /\ m.type = "move"
  /\ \/ /\ ~pl[p].isLogin \/ (m.own /\ ~InRange(m.to))
        /\ Refuse(p, pl)
     \/ /\ pl[p].isLogin /\ ~m.own
        /\ Break(pl)
     \/ /\ pl[p].isLogin /\ m.own /\ InRange(m.to)
        /\ LET there == pl[p].sector # NoSector
               left == IF there THEN SectorsWithout(p) ELSE sectors
               rest == IF there THEN PlayersWithout(p) ELSE player
           IN  /\ player' = [rest EXCEPT ![p].quiet = 0, ![p].sector = m.to,
                                         ![p].sectorIndex = Len(left[m.to])]
               /\ sectors' = [left EXCEPT ![m.to] = Append(@, p)]
        /\ sent' = Only(pl[p].sessionId)
        /\ UNCHANGED <<netVars, sessionMap, accountMap, crashed>>

\* A mutant: the loops end before the last sector, not after it.
AroundShort(c) ==
  LET begin(x) == IF x = 0 THEN 0 ELSE x - 1
      end(x, max) == IF x = max - 1 THEN x ELSE x + 1
  IN  (begin(c[1]) .. end(c[1], SectorMaxX) - 1) \X (begin(c[2]) .. end(c[2], SectorMaxY) - 1)

\* The sectors PacketProcMessage loops over.
Around(c) ==
  LET begin(x) == IF x = 0 THEN 0 ELSE x - 1
      end(x, max) == IF x = max - 1 THEN x ELSE x + 1
  IN  (begin(c[1]) .. end(c[1], SectorMaxX)) \X (begin(c[2]) .. end(c[2], SectorMaxY))

\* How many packets a broadcast to the sectors of C sends to a session.
Broadcast(pl, C) ==
  [s \in Sessions |->
     Cardinality(UNION {{<<c, i>> : i \in {j \in 1 .. Len(sectors[c]) :
                                           pl[sectors[c][j]].sessionId = s}} : c \in C})]

PacketProcMessage(p, m, pl) ==
  /\ m.type = "message"
  /\ \/ /\ ~pl[p].isLogin \/ pl[p].sector = NoSector
        /\ Refuse(p, pl)
     \/ /\ pl[p].isLogin /\ pl[p].sector # NoSector /\ ~m.own
        /\ Break(pl)
     \/ /\ pl[p].isLogin /\ pl[p].sector # NoSector /\ m.own
        /\ player' = pl
        /\ sent' = Broadcast(pl, Around(pl[p].sector))
        /\ UNCHANGED <<netVars, sessionMap, accountMap, sectors, crashed>>

PacketProcHeartbeat(p, m, pl) ==
  /\ m.type = "heartbeat"
  /\ player' = pl
  /\ sent' = Silence
  /\ UNCHANGED <<netVars, sessionMap, accountMap, sectors, crashed>>

PacketMalformed(p, m, pl) == m.type = "malformed" /\ Refuse(p, pl)

ProcessPacket ==
  \E p \in Players :
    LET m == Head(jobs).packet
        pl == [player EXCEPT ![p].quiet = 0]
    IN  /\ Take("RECV")
        /\ p = FindPlayer /\ ~player[p].isDisconnecting
        /\ \/ PacketProcLogin(p, m, pl) \/ PacketProcSectorMove(p, m, pl)
           \/ PacketProcMessage(p, m, pl) \/ PacketProcHeartbeat(p, m, pl)
           \/ PacketMalformed(p, m, pl)

----------------------------------------------------------------------------
Pushing(s) == Count(s) \/ Announce(s)

Contents ==
  \/ TestRunning \/ Wake \/ Drained \/ CheckTimeout \/ NoTimeYet
  \/ ProcessAccept \/ ProcessRelease \/ PacketDropped \/ ProcessPacket

Next ==
  /\ ~crashed
  /\ \/ Contents \/ Tick \/ Stop
     \/ \E s \in Sessions : OnAccept(s) \/ OnRecv(s) \/ OnRelease(s) \/ Pushing(s)

Spec == Init /\ [][Next]_vars

\* The threads run, time passes, and CNetServer releases a session whose
\* socket was closed (DeadIsReleased of NetServer).  Nothing makes a client
\* come, send or leave.
Fairness ==
  /\ WF_vars(~crashed /\ Contents)
  /\ WF_vars(~crashed /\ Tick)
  /\ \A s \in Sessions :
       /\ WF_vars(~crashed /\ Pushing(s))
       /\ WF_vars(~crashed /\ s \in cut /\ OnRelease(s))

FairSpec == Spec /\ Fairness

----------------------------------------------------------------------------
(***************************************************************************)
(* Properties.                                                             *)
(***************************************************************************)

\* Every variable holds a value of its type.
TypeOK ==
  /\ opened \subseteq Sessions /\ closed \subseteq opened /\ cut \subseteq opened
  /\ packets \in [Sessions -> 0 .. MaxPackets]
  /\ push \in [Sessions -> {"none", "linked", "counted"}]
  /\ jobs \in Seq(Job) /\ size \in Nat /\ event \in BOOLEAN
  /\ isRunning \in BOOLEAN /\ behind \in 0 .. MaxBehind
  /\ pc \in {"test", "wait", "drain", "clock", "done"}
  /\ player \in [Players -> Player]
  /\ sessionMap \in [Sessions -> Players \cup {NoPlayer}]
  /\ accountMap \in [Accounts -> Players \cup {NoPlayer}]
  /\ sectors \in [Sectors -> Seq(Players)]
  /\ crashed \in BOOLEAN
  /\ sent \in [Sessions -> Nat]

\* Where the jobs of a session are in the queue.
JobsOf(s) == {i \in 1 .. Len(jobs) : jobs[i].session = s}

\* Jobs come to the contents thread in the order of a session's life: the
\* first one of a session nobody knows yet makes its player, and its release
\* is the last, so PacketProc and ProcessRelease never look for a player that
\* is not there yet or not there any more.
JobsInOrder ==
  \A s \in Sessions :
    /\ \A i \in JobsOf(s) :
         /\ jobs[i].type = "ACCEPT" <=>
              sessionMap[s] = NoPlayer /\ \A j \in JobsOf(s) : i <= j
         /\ jobs[i].type = "RELEASE" <=>
              s \in closed /\ \A j \in JobsOf(s) : j <= i
    /\ sessionMap[s] # NoPlayer /\ s \in closed => JobsOf(s) # {}

\* When the contents thread waits while jobs are counted, the event is set or
\* a thread is about to set it: a job never waits for the second to pass.
NoForgottenJob ==
  pc = "wait" /\ size > 0 => event \/ \E s \in Sessions : push[s] = "counted"

\* A session has a player of its own, and an entry of the account map leads to
\* a player that is there and logged in with that account: ProcessRelease
\* leaves no pointer to a player it gives back to the pool.
NoDangling ==
  /\ \A s \in Sessions : sessionMap[s] # NoPlayer => player[sessionMap[s]].sessionId = s
  /\ \A a \in Accounts : accountMap[a] # NoPlayer =>
       /\ accountMap[a] \in Live
       /\ player[accountMap[a]].isLogin /\ player[accountMap[a]].accountNo = a

\* A player that entered a sector is where its sectorIndex says, and nowhere
\* else; the vectors hold nobody who left or was released.
SectorsExact ==
  /\ \A p \in Live : player[p].sector # NoSector =>
       /\ player[p].sectorIndex < Len(sectors[player[p].sector])
       /\ sectors[player[p].sector][player[p].sectorIndex + 1] = p
  /\ \A c \in Sectors : \A i \in 1 .. Len(sectors[c]) :
       LET p == sectors[c][i]
       IN  p \in Live /\ player[p].sector = c /\ player[p].sectorIndex = i - 1

\* A session logging in with an account cuts the one that has it: an account
\* is never in use by two players that are not being disconnected.
OneSessionPerAccount ==
  \A p, q \in Live :
    /\ p # q /\ player[p].isLogin /\ player[q].isLogin
    /\ player[p].accountNo = player[q].accountNo
    => player[p].isDisconnecting \/ player[q].isDisconnecting

\* A client that sends no more is cut and forgotten, its player included,
\* unless the server stops first.
SilentIsForgotten ==
  \A s \in Sessions :
    s \in opened ~> (s \in closed /\ sessionMap[s] = NoPlayer /\ JobsOf(s) = {})
                      \/ crashed \/ ~isRunning

\* Stop does not wait for ever.
StopEnds == ~isRunning ~> pc = "done" \/ crashed

Room == INSTANCE ChatRoom WITH
  here  <- {s \in Sessions : sessionMap[s] # NoPlayer},
  name  <- [s \in Sessions |-> IF sessionMap[s] = NoPlayer THEN NoAccount
                               ELSE player[sessionMap[s]].accountNo],
  place <- [s \in Sessions |-> IF sessionMap[s] = NoPlayer THEN NoSector
                               ELSE player[sessionMap[s]].sector],
  heard <- sent

\* The server implements the room: whatever callbacks and jobs it is made of,
\* and however late they are, its clients see sessions that come, log in once,
\* move only then, and what is said reaches each of those around once, or nobody.
ImplementsRoom == Room!Spec

\* The contents thread takes a message of session s, whose player p may talk.
Says(s, p) ==
  /\ pc = "drain" /\ jobs # <<>> /\ jobs' = Tail(jobs)
  /\ Head(jobs).session = s
  /\ Head(jobs).packet = [type |-> "message", own |-> TRUE]
  /\ p # NoPlayer /\ ~player[p].isDisconnecting /\ player[p].sector # NoSector

\* A message of a player in a sector does reach them, the speaker too: the
\* vectors PacketProcMessage walks hold each player of the sectors around once.
MessageHeard ==
  [][\A s \in Sessions : Says(s, sessionMap[s]) =>
       \A q \in Live :
         sent'[player[q].sessionId] =
           IF /\ player[q].sector # NoSector
              /\ Room!Near(player[q].sector, player[sessionMap[s]].sector)
           THEN 1 ELSE 0]_vars

=============================================================================
