# Verification of the IOCP server library and its chat server

The repository holds a server library for Windows' I/O completion ports
(`NetworkLibrary`), the lock-free containers and buffers it stands on
(`MyLibrary`), and programs built with it (`ChatServer_SingleThread`, two echo
servers). This directory models the parts in which something can go wrong that
a test would hardly reach, checks them with TLC on small instances, and proves
the most important facts for all instances with TLAPS.

All paths below are relative to `src/`.

## 1. The system

| component | state it keeps | operations | talks to |
|---|---|---|---|
| **CNetServer** (`NetworkLibrary/CNetServer/CNetServer`) | array of `Session` (`ioCount` with `RELEASE_FLAG`, `sessionID`, `sock`, `isSending`, `sendQ`, `sendingPackets`, `recvQ`), `m_indexStack`, `m_sessionIDGenerator`, `m_sessionCount` | accept loop, `SendPacket`, `Disconnect`, `AcquireSession`/`ReturnSession`/`ReleaseSession`, `RecvPost`/`SendPost`, `RecvProc`/`SendProc`, `Start`, `Stop` | Windows (sockets, completion port); the application by `OnAccept`, `OnRecv`, `OnRelease`; LockFreeQueue, LockFreeStack, RingBuffer, Packet |
| **CLanServer** (`NetworkLibrary/CLanServer`) | as CNetServer | as CNetServer, shorter header, no encoding | as CNetServer; `EchoServer` |
| **LockFreeQueue** (`MyLibrary/LockFreeQueue.h`) | linked nodes, tagged `_head`, `_tail`, `_size` | `Enqueue`, `Dequeue`, `GetSize` | node pool |
| **LockFreeStack** (`MyLibrary/LockFreeStack.h`) | linked nodes under a tagged `_Top` | `Push`, `Pop` | node pool; holds the free indices of the two servers |
| **LockFreeMemoryPool(TLS)** | shared list of chunks, a chunk per thread | `Alloc`, `Free` | used by all of the above |
| **RingBuffer** | array, `front`, `rear` | `Enqueue`, `Dequeue`, `Peek`, direct access | `RecvProc`; both queues of IOCPEchoServer |
| **Packet** (`MyLibrary/PacketBuffer.*`) | positions, header, reference count, `m_bEncoded` | `Alloc`/`AddRef`/`Free`, put/get, encode/decode | everyone |
| **ChatServer** (`ChatServer_SingleThread`) | `_jobQueue`, `_jobEvent`, `_sessionMap`, `_accountMap`, `_sectors`, players | three callbacks, contents thread with its handlers and `CheckTimeout`, `Stop` | CNetServer |
| **IOCPEchoServer** (`Echo/EchoServer`) | `sessionMap` with its lock; `Session` with `ioCount`, `isSending`, two rings, a critical section | accept, `RecvProc`, `OnRecv`, `SendPacket`, `SendProc`, `ReleaseSession`, the end | Windows; RingBuffer |
| **CrashDump** | none worth checking | writes a dump | Windows |

What is hard about it, by component:

* *CNetServer.* Nothing is locked. A slot of the session array is used by one
  session after another, and any thread may call `SendPacket` or `Disconnect`
  with the ID of a session that is long gone. `AcquireSession` therefore takes
  a reference first and looks at the session afterwards, so that references of
  strangers appear on slots that are free, being released or newly used.
  Sending is serialised by `isSending`, given up and looked at again; socket
  values are reused by the system while the code still holds them.
  *Correct means:* the reference count is exact; who uses a session finds the
  one it asked for, alive; slots are neither lost nor shared; callbacks come in
  order; every queued packet is handed to the network or freed, for the right
  session; a dead session is released.
* *ChatServer.* Callbacks come from many threads, chat data belongs to one.
  *Correct means:* jobs arrive in the order of a session's life and do not wait
  unnoticed; no map or vector leads to a player that was given back; messages
  reach exactly the sectors around; silent clients are cut; an account is used
  by one session.
* *Containers.* ABA and node reuse in queue and stack, chunks passed between
  threads in the pool, indices around the end of the ring.
* *Start/Stop.* Threads in the middle of anything when the server stops, the
  completions queued before those that tell the workers to end, packets of
  sessions that live, a `Start` that fails halfway. *Correct means:* no thread
  outlives what it works on, every packet is given back once, `Stop` returns.
* *IOCPEchoServer.* A session is found in the map, or handed out by the port,
  under three kinds of protection: a count, a critical section of its own and
  the lock of the map, taken in different orders. *Correct means:* who takes the
  last count, and nobody else, deletes it; echoes leave in order and whole.

`PROJECT.json` lists the hazards one by one at their lines, with the properties
that would catch them.

## 2. Modules

| module | what it is |
|---|---|
| `SessionService` | abstract: what CNetServer promises an application |
| `NetServer` | sessions, accept thread, workers, send path of CNetServer; implements `SessionService` |
| `MCNetServer` | symmetry for TLC |
| `LanServer` | CLanServer's session protocol, function by function; implements `NetServer` |
| `LockFreeStack` | the stack of free indices, one access to memory at a time |
| `ServerLife` | `Start`, the ends of the threads, `Stop` and the destructor of both servers, over `LockFreeStack` |
| `ServerLifeProofs` | that no thread of a server outlives what it works on, that no index is lost, and that packets are given back once |
| `NetServerProofs` | type correctness of `NetServer`, its inductive invariant and safety, the send path (no packet forgotten, misdirected or freed early), its callbacks and session count, and that it implements `SessionService` |
| `LanServerProofs` | that `LanServer` implements `NetServer` |
| `ChatRoom` | abstract: what ChatServer promises its clients |
| `ChatServer` | callbacks, job queue, contents thread, handlers; implements `ChatRoom` |
| `MCChatServer` | messages and symmetry for TLC |
| `ChatServerProofs` | the inductive invariants of the chat data and of its jobs, six theorems: among them that `ChatServer` implements `ChatRoom` |
| `Fifo` | abstract: what a set of LockFreeQueues promises their users |
| `LockFreeQueue` | queues of tagged links over one shared pool of nodes; implements `Fifo` |
| `LockFreeQueueProofs` | nodes and sizes of `LockFreeQueue`, and that it implements `Fifo` |
| `MCLockFreeQueue` | symmetry for TLC |
| `MemoryPool` | the caches of threads over the shared stack of chunks |
| `MCMemoryPool` | symmetry and a view for TLC |
| `MemoryPoolProofs` | that every block is in one place, the numbers written down are right and caches stay in their bounds |
| `RingBuffer` | the ring's operations, as operators on a record of its members |
| `Packet` | positions, headers, encoding and decoding, likewise |
| `RecvFraming` | `RecvPost` and `RecvProc` of both servers over `RingBuffer` and `Packet` |
| `RecvFramingProofs` | that what peers send reaches the application as it was sent, and that there is room to read on |
| `MCRecvFraming` | the streams peers send, for TLC |
| `IOCPEchoServer` | the first echo server, over `RingBuffer` |
| `MCIOCPEchoServer` | how much each client sends, for TLC |
| `IOCPEchoProofs` | that counts of `IOCPEchoServer` are exact, nobody uses what is deleted and peers are sent whole echoes |

### NetServer

Variables follow the members of `Session` and `CNetServer`. `ioCount` is split
into `count` and `flag` (its top bit). `sessionID` is the pair of generator
value and slot it is composed of. A SOCKET value is a *handle*; `owner` says
which connection it names at the moment, so a closed handle can come back for
another connection. Each thread has a program counter; one action is one
`Interlocked` operation or one access to memory another thread can see, in the
order of the code:

* `AcqInc`, `AcqCheck` - `AcquireSession`; `RetDec` - `ReturnSession`; `RelCas`,
  `RelClose`, `RelFree`, `RelNotify`, `RelPush` - `ReleaseSession`;
* `EnqLink`, `EnqSize` - `SendPacket`'s `Enqueue`, which links a node before it
  counts it; `SpXchg` ... `SpSend` - `SendPost`; `SdFree`, `SdClear` - `SendProc`;
* `RpEnd`, `RecvPost` - `RecvProc` and `RecvPost`; while a worker is in the loop
  of `RecvProc` the application's handler may call `SendPacket` or `Disconnect`;
* `Accept` ... `AcIncRecv` - the accept thread, in which `AcCount` counts a session
  and `AcNotify` calls `OnAccept`; `DcClose` - `Disconnect`;
* `IoDone`, `PeerReset` - Windows and the peers; `Complete` -
  `GetQueuedCompletionStatus` handing a completion to a worker.

`held[t]` is bookkeeping, not code: how many references of its session thread t
has yet to give back. `accepted` and `released` are history: the callbacks made.

Abstractions, each of a step no other thread can see or of data no property
looks at: a successful `Dequeue` of `sendQ` is one step, since `isSending`
makes the consumer unique (which `SendExclusive` checks); the loops that free
packets are one step each, by the thread that owns the slot; `RecvProc`'s
framing is a choice of how many packets it finds; the index stack is atomic. The
session count is a step apart from the callback at both ends (`AcCount` and
`AcNotify`, `RelFree` and `RelNotify`), so that others may see a session counted
whose `OnAccept` has not been called, or one no longer counted before its
`OnRelease`: `SessionCountExact` says that these are all the differences.
Application threads hold one packet at a time, may send it to several sessions
(as a broadcast does) though not twice to the same queue, and free it; handlers
of `OnRecv` answer the session they serve. A post on a reset connection fails
with WSAECONNRESET and on a closed handle with WSAENOTSOCK, for which the code
has a `__debugbreak()`: the process stops (`crashed`).

### LanServer

CLanServer's functions were copied from CNetServer and then changed. The module
extends `NetServer`, gathers its actions under the functions of CLanServer they
are steps of, and has actions of its own where the code differs: `RpEndOfData`
(nothing ends the loop of `RecvProc` but the end of the data), `FirstRecv` and
`FirstUndo` (the accept thread posts the first receive itself and, when that
fails, takes its reference back by a decrement whose result it ignores).
`ImplementsNet` maps the state after such a failure to the `ReturnSession` that
CNetServer would have called: it says that no behaviour was added, in particular
that this decrement never takes the last reference.

### ServerLife and LockFreeStack

The main thread goes through `Start` (`StPort` ... `StThread`, each of which may
fail), `Stop` (`SpFlag` ... `SpPort`) and `~LockFreeStack`; a failed `Start` goes
to the destructor, which calls `Stop` where `m_isRunning` is set. `port` is the
completion queue in its order, so that the empty completions of `Stop` come after
what was queued before. `AcTest` ... `AcOpen` are a turn of the accept thread;
`TakeZero`, `TakeRecv`, `TakeSend`, `TakeFailure` are what a worker does with a
completion, in one step, as `NetServer` has what happens inside, and as `Stop` does
not look at a session before all threads have ended. A session without operations
has no references and is released. Packets are counted: `taken` is the number
allocated and not given back.

The index stack is not atomic here: `Push` and `Pop` are taken from
`LockFreeStack`, one access to memory at a time, with nodes that go back to the
pool and are used again at once. With `TagLimit = 1` a tag tells nothing. Nothing
goes wrong, because only the accept thread pops: as long as it looks at a top
node nobody takes that node away, so its `_Next` is still right whatever was
pushed and popped on top of it in between. The 17 bits of the code's tags, which
wrap, are therefore no hazard as the stack is used; they would be with a second
thread that pops.

### IOCPEchoServer

One action is one lock, one `Interlocked` operation or one call of Windows, with
the statements around it that touch what the thread alone may touch then. `ioCount`
is the code's; `owner` is the holder of a session's critical section, `writer`
that of the map's lock in exclusive mode (shared holders are at single actions,
except the accept thread, which *inserts* under the shared lock: between `AcLock`
and `AcInsert` the map is being changed, and a lookup by `OnRecv` under the
same lock may find the session or fall over, `Find`). `object` says whether the
`Session` is there. `Release` is the decrement with its test; `RelErase`,
`RelWait`, `RelDelete` are `ReleaseSession`. `SendPacket` is `SpLock` ...
`SpUndo`, `SendProc` is `EnterSend` ... `SdDec`. The send queue is a `RingBuffer`
of a header and `BodySize` elements for each echo. Clients send whole messages of one
size, end their stream or reset the connection. Received data are only counted.

### ChatServer

CNetServer appears as its callbacks, in the order `CallbackOrder` establishes
for it. `PushJob` takes three steps (`Link`, `Count`, `Announce`), because the
contents thread may look at the queue, at its size and at the event in between.
Handling a job is one action: only the contents thread touches chat data, and
its calls into CNetServer cannot change them, since even an `OnRelease` that runs
inside its own `Disconnect` only pushes a job. Each handler has the early
returns of the code as disjuncts. A Player object has an identity apart from
its session, so that pointers to one that was given back, or reused, can be
told from good ones. Packets are records of what their handlers look at; wrong
types, sizes and lengths are one value, `malformed`, as all of them end in
`DisconnectPlayer`. Time passes in seconds; `quiet` is the distance to
`lastRecvTime`, `behind` that of `now` to `prev`.

### LockFreeQueue

One action is one access to memory another thread can see, in the order of
`Enqueue` (`Enq...`) and `Dequeue` (`Deq...`); the helper that moves a lagging
`_tail` is an action of each. All queues of a type share the static
`s_nodePool`, and its memory never goes back to the system, so a thread may read
a node that is in another queue by now, or free: that is why the model has
several queues over one set of nodes, and why a read of a freed node is an
ordinary read. The pool itself is a set here, and a module of its own below.
`_size` is counted after a node is linked and reserved before one is unlinked,
so it may be behind or below the links. `order` is history: the nodes
of each queue in the order they were linked, the dummy first. The destructor is
left out: it needs every other thread to be done with the queue.

Tags count modulo `TagLimit` (`2^17` in the code). A thread that sleeps through
exactly `TagLimit` changes of a pointer finds it as it was, and its
compare-and-swap succeeds where it must not: with a `TagLimit` of 3 TLC shows
this. `TagsTell` says it exactly: while a thread may still compare what it read of
`_head`, `_tail` or a `next`, a word that changed does not come back to it. The run
takes the smallest limit that another thread's `MaxOps` operations do not reach,
and checks that `TagsTell` holds there; a node taken from the pool without the
counting on of its tag breaks it at once.

### MemoryPool

`Alloc`, `Free` and `Seal` touch the thread's own cache and blocks only, and are
one action each up to the point where the shared stack is needed. `PopTop`,
`PopNext`, `PopCas` are `PopChunk`, `PushTop`, `PushLink`, `PushCas` are
`PushChunk`; `NewChunk` makes blocks where the stack is empty. `Exit` is the
destructor of a thread's cache, which pushes everything it has, one chunk after
another; the thread that follows starts with an empty one. An application gives
back what it took, once, and may do so on another thread. The assumption about
tags is in the guards of `PopCas` and `PushCas`: nobody sleeps through
`TagLimit` changes of `m_top`. The system's memory is the finite set `Blocks`:
where it is used up, a thread that needs more waits, which is the one reason why
this run may deadlock. Blocks made in advance, object construction, guard words
and statistics are left out.

### RingBuffer, Packet, RecvFraming

The two classes have no concurrency worth a state machine where the servers use
them, so they are modules of operators, and `RecvFraming` is the machine that
uses them: a session's receive, from `RecvPost`, which gives Windows the free
room of the ring as two areas, over any number of bytes arriving (`Receive`), to
`RecvProc`, which takes complete frames out, checks and decodes them and calls
`OnRecv`. `server` chooses between the two servers, which differ in the header and
in how they take it off the ring. A session is used by one connection after
another, with the same ring.

An element of a ring or packet is a header field or a byte of the payload, so a
length field is one element. Bytes have `Width` bits, and encoding is done on
them as in the code; `Xor` is the exclusive or, bit by bit from the last one on.
Peers send good frames, frames with a wrong code or checksum, and long ones, with
more payload than a packet holds. A long frame that does not fit into the ring
fills it, and the receive that follows ends the session. One that fits is found
complete, and `RecvProc` copies it into a packet whose size it does not look at
(`Overrun`): past the end of the buffer nothing is defined, and the model ends.
A packet is filled and read as applications do it, by the operators `<<` and
`>>` first and by `PutData` and `GetData` for the rest.

## 3. Runs

| run | shows | instance |
|---|---|---|
| `net_reuse` | reference counting, release and reuse, send path, refinement of `SessionService` | 1 slot, 2 sessions in turn on 1 handle, accept thread, 2 workers, 1 caller, 2 packets |
| `lan` | slots neither lost nor shared, session count exact but for announcements, a dead session is released, a queued packet is taken, refinement of `NetServer` | 1 slot, 2 sessions in turn, 1 worker, 1 caller, 1 received frame that `OnRecv` may answer, 2 packets |
| `net_debugbreak` | violation: `Disconnect` makes a later post stop the process | as `net_reuse` |
| `net_wrongclose` | violation: the second `closesocket` hits another connection | 2 slots, 3 sessions, no packets |
| `life` | no index lost, nothing deleted under a thread, packets given back once, `Stop` returns | 1 worker, 2 slots, 2 nodes, 3 clients, 1 message answered by none or 2 packets |
| `chat` | order and promptness of jobs, no dangling pointers, sector vectors, a message reaches everybody around, refinement of `ChatRoom` | 2 sessions, 2 players, 1 account, 3 sectors in a row, 3 packets each, 2 jobs queued by clients, no time passes |
| `chat_live` | silent clients are forgotten, `Stop` ends | 2 sessions, 1 account, 1 packet each, 1 job queued by clients |
| `chat_takeover` | violation: two sessions use one account | 3 sessions, 1 account |
| `queue` | links, node reuse, `_size`, refinement of `Fifo` | 2 threads with 3 operations each, 2 queues, 5 nodes, 2 values |
| `pool` | no block lost or given out twice, bounded caches | 2 threads, 4 blocks in chunks of 2, 1 full chunk kept |
| `framing` | streams cut anywhere arrive as sent, a packet is overrun by long frames only, and there is room to read on unless a frame does not fit into the ring | ring of 7 elements, payloads of up to 2 in packets, of 3 and 8 in long frames, 2 connections |
| `echo` | exact counts, nobody uses a deleted session, echoes in order and whole, sessions of clients that are gone are deleted | 2 workers, 2 clients, 3 messages of the first, ring of 6 elements, echoes of 3 |

Why these bounds are enough to be interesting. One slot with two sessions in
turn puts every stranger's reference on the slot being reused; two workers and
a caller give three threads that may hold references of it while the accept
thread prepares the next session, and more threads add no new kind of
reference. Two packets with two entries in `sendingPackets` allow a full
buffer, a partial one and a rest in the queue. One handle is the tightest reuse
of socket values there is: the second session can only have the first one's. The
handle run, which needs two, has no packets, since it does not depend on the send
path. In `lan` one worker and a caller suffice for liveness and for the steps that
differ; its safety beyond that is that of `net_reuse`, by refinement. The caller and
the answer to a frame queue one packet each, so that the second waits behind the
first while its send is under way, and behind one that failed: that it is sent or
freed is `QueuedIsTaken`, and a `SendProc` that does not call `SendPost` breaks it.
`MaxGen`, `MaxFrames`,
`MaxPackets`, `MaxJobs` and `MaxBehind` bound histories only; the proofs need no
particular value of them. For chat, a takeover and its release need two
sessions, the erased entry a third; swapping with the last of a vector needs two
players; three sectors are the fewest with a pair that is not adjacent. The
messages of `chat` are logins, moves to each sector and chat messages in the
client's own name. Malformed packets, which are refused as a second login is,
heartbeats, which only wind `quiet` back, and moves or messages in another name,
which end in `__debugbreak()`, are in the model and the proofs but not in this run. No
time passes in `chat`: what the clock does is in `chat_live`, and in
the proofs.
For the queue, two dummies and three more nodes let a node go from one queue to
the other while a thread still holds it, and let one thread find the tail of
another's unfinished enqueue, which takes both to help it on. For the pool, four
blocks make two chunks, so that a thread may seal one more than it keeps, and
chunks go to the other thread both by the stack and block by block. Its view leaves
out the links of blocks in use and the counts of blocks that head no chunk: where
`OnePlace` holds, nobody reads these before they are written again, so states that
differ in them alone go on in the same way. For framing,
the longest good frame of a CNetServer leaves one place of the ring, which the
shortest long one fills exactly, wherever it starts, and the other long one is too
long for the ring with either header; each payload and key comes alone, and all
kinds of frames come in pairs.
For `life`, the worker pushes while the accept thread pops; a third client finds
the stack empty; two nodes for two indices are as few as can be, so each node is
used again at once; an answer of two packets leaves one queued while the other is
sent. That several workers end in any order while the main thread waits is covered
by the proof of `UseOnlyWhatExists`. For `echo`, the ring has room for two
echoes: the second is appended while the first is in flight, with `SendProc` moving
`front` past the one and posting the other; the third goes round the end of the array,
whole when the first has left and cut when it has not; the second client comes and goes,
so that its session is found,
released and deleted next to one that talks. Deadlock is not checked (`CHECK_DEADLOCK
FALSE`): a server with no more clients
within the bounds, one that reached a `__debugbreak()` and one that was stopped,
threads that have done their operations and a pool whose memory is used up really
do nothing more.

Every property of a passing run has a mutant in `PROJECT.json`: a definition
changed the way a plausible bug would change it (a dropped ID check, a blind
compare-and-swap, a forgotten decrement, a missing look at the queue, an index
left stale), under which TLC finds the property violated.

### Fairness

* `NetServer` and `LanServer`: weak fairness of every thread's steps (threads are
  scheduled); strong fairness of completions being taken, since the port is a FIFO
  queue and a worker that is free again and again gets to each of them; weak
  fairness of a pending send ending, since a peer reads or its connection breaks;
  and strong fairness of the receive failing on a connection on which a send has
  failed, as the connection is broken then: `isSending` stays set after a failed
  send, so what is queued behind it is only freed by the release, for which the
  receive has to end too. Nothing makes
  a peer send or the application call. `DeadIsReleased` speaks of a session whose
  socket stays closed or reset and that no caller names any more: a caller that
  names it again and again may hold a reference at every moment the others look,
  and a handle that names another connection by then is not dead.
* `ChatServer`: weak fairness of the contents thread and of callbacks in
  progress, of time, and of `OnRelease` for sessions that were cut, which is what
  `DeadIsReleased` gives. Clients send a bounded number of packets, that is, fall
  silent. The assumption matters: the contents thread looks at the clock and at
  `_isRunning` only when the queue has run empty, so a stream of jobs that never
  pauses would put off `CheckTimeout` and `Stop`.

* `ServerLife`: weak fairness of each thread by itself: of the main thread except
  its call of `Stop`, of the accept thread, and of every worker; and of `accept`
  failing on a closed socket. Clients may do nothing at all: `Stop` needs none of them.
* `IOCPEchoServer`: weak fairness of every thread's steps, of a completion being
  taken by some worker, and of a pending send ending, as in `NetServer`.

## 4. What disagrees with the code's own statements

* `NoDebugBreak` (`CNetServer.cpp:446`, `:491`). The code asserts that posts fail
  with WSAECONNRESET or not at all. `Disconnect` closes the socket and leaves
  `session->sock` as it is; whoever posts next gets WSAENOTSOCK.
* `ClosesOwnConnection` (`CNetServer.cpp:349`). After `Disconnect` has closed the
  handle, `ReleaseSession` closes the same value again, which may by then name
  another session's connection, though `Disconnect` is documented to cut the
  session named.
* `OneSessionPerAccount` (`ChatServer.cpp:105`). The release of a session whose
  account was taken over erases the entry of its successor; the next login then
  cuts nobody, against the comment at `ChatServer.cpp:191`.

What else a reader of the code should know; no statement of the repository is
about it, so none of it is a violated property:

* *Stop.* Live sessions are deleted while their operations, cancelled by
  `closesocket`, may still be about to write their OVERLAPPEDs
  (`CNetServer.cpp:107-117`). `OnRelease` is not called for them, `m_sessionCount`
  keeps their number and their indices stay out of the stack, while `Start` pushes
  all indices: after a second `Start` the indices that were free at `Stop` would be
  in the stack twice. No program calls `Start` again, and the model ends with the
  destructor.
* *A failed Start* before line 56 leaves the port and the socket open; after it, the
  destructor stops the threads, but those of a derived class run with the callbacks
  of `CNetServer` by then, which are pure virtual.
* *accept.* Any error ends the accept thread (`CNetServer.cpp:197-200`), a client
  that gave up while it waited included; the server then accepts nobody until it is
  stopped, which still works (`AcceptFails`).
* *ChatServer::Stop* ends the contents thread before CNetServer's threads, whose
  callbacks queue jobs that nobody handles or frees.
* *Frames longer than a packet.* `RecvProc` of both servers compares `header._len`
  with what is in the ring, of 2001 bytes, and not with the size of a packet, of
  1405: a frame between the two is copied past the end of the packet's buffer
  (`CNetServer.cpp:389`, `CLanServer.cpp:401`), before `Decode` looks at it. No sender in
  the repository makes such a frame, as all of them fill a `Packet`. `Overrun` is
  that step; `StreamExact` says that nothing else leads to it.
* *IOCPEchoServer.* When `RecvProc` or `SendProc` deletes the session, the worker
  still calls `LeaveCriticalSection` on it (`IOCPEchoServer.cpp:301`): the one
  exception `NoUseAfterDelete` makes (`OuterLeave`). The accept thread writes the
  map under the shared lock (205-207). Echoes are cut when the ring is full, as
  nobody looks at what `Enqueue` returns (493-494). A client that resets before
  the first receive is posted stops the program (225), and so does `q` between
  two calls of `accept` (179). `q` before the listening socket is made leaves the
  main thread waiting for ever (117). The early return that keeps the map's lock
  (319) is never taken.

## 5. Proofs

The theorems hold for any number of threads, slots, handles, packets and
sessions. They assume what the modules' `ASSUME`s say: the accept thread, the
workers and the callers are different threads and finitely many, packets are
finitely many, the null values are none of the proper ones, and the two sizes
are at least one.

*Type correctness* (`NetServerProofs!TypeCorrect`). `TypeOK` alone is not
inductive: that `held` stays within 0..3, that `slot` is a slot where it is
used and that a handle is there to be closed depend on where each thread
stands. `TypeInv` adds `ControlOK` (for each label: references held, slot,
argument, place to return to) and `OpenedOK` (a slot anyone works on was given
to a session once).

*Safety* (`NetServerProofs`). The inductive invariant `SafeInv` adds

* `RefExact` - `count` is what threads owe plus the operations in flight;
* `LiveOK` - who relies on a session finds `flag` clear;
* `IdOK` - behind `AcqCheck` the ID is the one asked for;
* `OwnerOK` - stack, claim, life and release exclude each other and leave no gap;
* `RecvOK`, `SendOK` - one receive and one send turn at a time;
* `NoZombie`.

They need each other: a flag can only be set at `count = 0`, by `RefExact`
nobody who relies on the session holds a reference then, so `LiveOK` survives;
the ID only changes at `AcInit`, where `OwnerOK` says that the slot is not
live, so `IdOK` survives; `RefExact` survives a post only because by
`RecvOK`/`SendOK` the OVERLAPPED is free. From `SafeInv` follow

* `RefExactness`: `[]RefExact`;
* `UseOnlyLive`: `[]NoUseAfterRelease`;
* `SlotOwnership`: `[]OneOwner`;
* `SendExclusion`: `[]SendExclusive`;
* `ZombieFree`: `[]NoZombie`.

*The send path* (`NetServerProofs`). `QueueInv` says of every slot, on top of
`SafeInv`: by how much `_size` lags behind the links (one for each thread between
the two halves of `Enqueue`, one for a `Dequeue` that found too few and has not
undone its count); that a slot out of circulation is empty, unless the thread that
empties it is on its way; that what lies in a slot was sent to the ID the slot has;
that `isSending` clear over a queue that is not empty means somebody who will look
again; and where `sendingPackets` must be empty or counted. That the reference
count of a packet is the number of places it lies in (`PacketRefs`) is kept by each
step for itself: the steps that move a packet from one place to another move one,
which takes counting lemmas about the positions in a sequence. From it follow

* `Queues`: `[]QueueInv`;
* `NoWakeupLost`: `[]NoLostWakeup`;
* `NothingCrosses`: `[]NoCrossDelivery`;
* `PacketRefsExact`: `[]PacketRefs`.

*What the application sees* (also in `NetServerProofs`). `ServiceInv` ties the history of
callbacks to the slots: a session between `AcInit` and `OnAccept` is newer than any
the application knows and its slot has nothing to send (`FreshOK`); what is live is
known or just being told (`LiveKnown`), what leaves is still known
(`LeavingKnown`), and what is known has its slot (`KnownPlaced`); calls name
sessions the application was told of (`ArgOK`). With it every step is one of
`SessionService` or leaves its state alone: the steps of the release are a drop,
then a close, the steps of `SendPost` move a packet from the queue to what was
handed over, and the ID check is what makes `EnqLink` a step for the session the
caller named. The theorems are

* `CallbacksInOrder`: `[]CallbackOrder`;
* `CountOfSessions`: `[]SessionCountExact`;
* `Implementation`: `ImplementsService`.

*CLanServer* (`LanServerProofs`). The proofs of `NetServer` are instantiated at the
mapped state, so that its invariant may be used there. Each step is then a copy
of one of `NetServer` (`CallsCopied`, `ReleaseCopied` and their like), or one of
CLanServer's own: the accept thread's plain decrement after a failed first receive
is a `ReturnSession` that does not take the last reference, because the thread
holds two references then (`FirstHeld`) and the count is exact (`TwoHeld`). Hence

* `LanImplements`: `ImplementsNet`, and through it
* `LanSlots`: `[]OneOwner`, and `LanSessionCount`: `[]SessionCountExact`.

*Chat data* (`ChatServerProofs`). `NoDangling` and `SectorsExact` are not
inductive on their own: an ACCEPT job for a session that already has a player
would orphan that player, and the vectors could still hold it. `ChatInv` adds the
types of the maps and of the queue, and `AcceptsOnce`: a session's ACCEPT job is
queued at most once, before the session has a player. `LeaveSector` is the heart
of it, shared by moves and releases: taking a player out of its vector by putting
the last one in its place leaves everybody else exactly where its index says; it
rests on `SwapOut`, a fact about sequences. From `ChatInv` follow

* `MapsNeverDangle`: `[]NoDangling`;
* `VectorsExact`: `[]SectorsExact`.

*Jobs and the room* (also in `ChatServerProofs`). That no job is forgotten needs one more
thing than it says (`Told`): it holds not only where the contents thread waits but everywhere
but in the loop that drains the queue. The
order of jobs (`OrderInv`) is kept because a session has one callback at a time and
the queue takes what comes at its end. For the refinement, `RoomInv` says that a
player is logged in exactly if it has an account number, that only such a player
is in a sector, and that only RECV jobs carry packets; every step is then one of
`ChatRoom` under the mapping
that reads a session's place off its player. `MessageHeard` is a property of single
steps: by `SectorsExact` each player around stands once in one vector, so that the
broadcast finds each of them, once, and nobody else.

* `JobsAnnounced`: `[]NoForgottenJob`; `JobsOrdered`: `[]JobsInOrder`;
* `RoomImplemented`: `ImplementsRoom`; `MessagesHeard`: `MessageHeard`.

*Start and Stop* (`ServerLifeProofs`). `UseOnlyWhatExists` needs to know where the
main thread stands: `MainOK` says for each of its places what there is and whether
all threads have ended, which is what `WaitForMultipleObjects` established before
anything is deleted or closed, and `~running` before that tells a `Stop` to come
from one that is over. A thread that ended never wakes: for the accept thread
that needs `PopOK`, that it is inside `Pop` only where it takes an index. From
`LifeInv`, the two with the shape of the functions, follows

* `NothingVanishes`: `[]UseOnlyWhatExists`.

For the indices `StackInv` says that there is a sequence of nodes, none twice, that
one meets from `_Top` down (`Linked`); that each node is free, on it or in one
thread's hands, and that what the accept thread saw at the top is still on it
while it is inside `Pop` (`Apart`); and that the value each index stands for is in
one place (`Placed`). The second is why `PopCas` is right with any `TagLimit`, and
it holds because nobody else pops: pushes put nodes in front and never touch the
`_Next` of one that is on the stack, so that what `PopNext` read still follows
(`HandOK`). For the packets `SessionInv` says that a completion in the port is that of one
operation that is done (`PortOK`), that who releases a session does so alone, with
nothing of it under way (`WorkOK`), and that a session that is not live has nothing left
(`DeadOK`), for which what `Session::Init` clears was empty before and `Stop` misses
nothing. `OnStack` and the sum of the packets are recursive: that going down from
`_Top` finds what is on the sequence (`OnStackIs`), and that a sum changes by what
one session changes by (`PacketsChange`), are proved by induction in the form of
facts about sets of numbers and of subsets (`Induction`, `SizeInduction`). The nodes are
assumed to be finitely many.

* `NoIndexLost`: `[]IndexExact`; `PacketsReturned`: `[]PacketsExact`.

*The first echo server* (`IOCPEchoProofs`). `EchoInv` puts `CountExact` beside what
keeps it: where each kind of thread can be (`PlaceOK`); that what a thread works on
is there (`ThereOK`); that who releases a session, or has just accepted it, has it
alone (`AloneOK`); that the owner of a critical section is who is inside (`CsOK`);
that there is one receive and one send at a time (`TurnOK`), without which two
operations on one OVERLAPPED would be counted once; and that a session is in the
map from its insertion to its release (`SessionOK`). A thread that waits for a
critical section holds a reference, so by `CountFacts` the count is not zero and
nobody is about to delete the session. The step is proved action by action, once
for each part; that the set of references grows and shrinks with what one thread
owes is `RefsMove`. The workers are assumed to be finitely many, nothing else.

* `CountIsExact`: `[]CountExact`; `DeletedOnce`: `[]NoUseAfterDelete`;
* `EchoesWhole`: `[]StreamWhole`.

The last rests on `RingBuffer`. `Filled` is what the ring holds, read from `front` on
round the end of the array; `EnqueueIs` says that Enqueue appends to it what there is room
for and moves nothing, `MoveFrontIs` that MoveFront takes the first elements away,
`SendCovers` and `InAreasAre` that the two areas of a send are the first elements in
use. `StreamInv` adds to `EchoInv`: what a completed send is for is still in sendQ until
`SendProc`, nobody posts before, and a send in flight covers the first places
(`SentOK`), which stays true while frames are appended (`CoversMore`); no more frames
are answered than came (`FramesOK`), which bounds the recursion over the echoes; and
what was sent, followed by what is in sendQ and was not, is the echoes of the
frames handled (`WholeOK`). That one send and one receive are in flight is `TurnOK`. The
ring has any size from one place on, an echo any length; the echoes are a recursive
function, whose equations are proved by induction over sets of numbers.

*The lock-free queue* (`LockFreeQueueProofs`). `QueueInv` is what the algorithm rests on.
Of a queue: its nodes hang together from `_head` on, none twice, and `_tail` is at the
last or the one before (`ChainOK`). Of nodes: each is free, in one queue or in one
thread's hands (`Apart`). Of a thread: what the words it read still say (`PointersOK`).
A `_tail` that is still what was read, with a `next` read as null after it, is the
last node, which is what makes the link safe; a `_head` that is still what was read
means that the `next` read after it is the second node still. Both take that a word which
is what was read has been so all along, so `TagsTell` is a hypothesis of the two
theorems, and no `TagLimit` could replace it: a thread may sleep as long as it
likes. It is satisfiable, as the run shows. The sizes take no such thing:
`_size` moves with the links whatever the tags do (`Balanced`: by how much each step
moves each side), and a Dequeue passes only where it finds a value counted.

* `NodesKept`: `Spec /\ TagsTell => []NodesInOnePlace`;
* `SizeIsExact`: `[]SizeExact`; `LetInForValue`: `[]ReservedIsThere`;
* `FifoImplemented`: `Spec /\ TagsTell => ImplementsFifo`.

*The memory pool* (`MemoryPoolProofs`). Blocks are strung by `next` to chunks, and the
chunks that are not being worked on by `chunkNext` to stacks, the pool's and one of each
thread; a thread has one chunk besides, the one it takes from or the one it is about to
push. `PoolInv` says so with two sets of lists (`Placed`): the unused blocks are strung to
lists that begin at the chunks, the chunks in stacks to lists that begin at `m_top` and at
each thread's first, and no list begins in two places. `Strung` gives each block the end of
its list and its distance from there, so that what is reached from a block is what has the
same end and is no farther away (`ReachIs`: the recursion in `Reach`, by induction over
sets of numbers); from there on no proof looks at recursion again. Eight lemmas move a
block or a chunk from one place to another (`Taken`, `Given`, `Made`, `OpenedOwn`,
`OpenedPool`, `ClosedOwn`, `ClosedPool`, `Kept`), and each action is one or two of them. Beside
`Placed` stand the counts (`CacheOK`, `PlaceOK`, and in `InPlace` those of stacked chunks),
and what the tag tells a thread that has read `m_top` (`TopOK`): how often it changed
since, by the tag, and if never, that the `chunkNext` that was read or written still is
that of the top. That is why the two compare-and-swaps are right although `PopNext` may
read the link of a chunk somebody else has opened; it takes that nobody sleeps through
`TagLimit` changes, which is a guard of the model. The blocks are assumed to be finitely
many. In a pool that was made with a maximum and passes it the code stops on purpose:
`WithinMax` says that it has not.

* `BlocksInOnePlace`: `[](WithinMax => OnePlace)`;
* `CountsRight`: `[]CountsExact`; `CacheInBounds`: `[]CacheBounded`.

*Receiving* (`RecvFramingProofs`). `FramingInv` says that what is in the ring, in the
buffers posted and on the wire is the rest of the stream behind the frames that were
given out (`Pending = Rest(sent, Len(got))`), that a frame copied past the end of a packet is
one its sender made longer than a packet, that the buffers posted are the free places
of the ring, and that a receive is posted only when no whole frame is in the ring,
which `RoomToRead` needs. Three things carry it. The ring: `Spot` is where the i-th
element lies, `FrontMoves` and `RearMoves` say what the two operations do to the contents,
`AreasAre` that the two areas go on where the contents end, and `SpotsDiffer` that Windows
overwrites none of them. The encoding: `XorTwice` (taking the exclusive or with a byte
twice gives back what there was, by induction over the bits), `DecodeEncode`, and
`CameNet`: a frame that comes with code and checksum as they should be is decoded to what
its sender filled in, and one whose checksum is not that of its payload is refused; that
changing the code or the checksum by one makes another value of it takes a byte of at
least one bit. The stream: `RestIs` takes the next frame off what is left of it, and
`FrameAtHand` finds its elements at the head of the ring, `FrameIsThere` that the length
read there is that of its payload, so that `ShortFrame` tells from it which frames fit
into a packet; `TakenNet` and `TakenLan` take those out as each server does, and
`OverrunKeeps` is about the others. What recursion defines in `Packet` and in the library (`Xor`,
`Encode`, the sum, the joining of frames) is known only once some function satisfies the
equation; that one does is shown each time by `Induction` or `Recursion` over sets of
numbers. The ring is assumed to take the largest packet with its header, as one of 2001
bytes takes one of 1405 in the code. Of frames nothing is assumed: a `long` one is by
definition one whose payload does not fit into a packet.

* `FramingInvariant`: `[]FramingInv`;
* `StreamComesThrough`: `[]StreamExact`; `RoomEnough`: `[]RoomToRead`.

*Only model-checked:* `TagsTell`, which no finite tag guarantees and two theorems about the
queue name as their hypothesis, on the instance of `queue`; and the liveness
properties of all modules, because fairness and ENABLED are out of the prover's reach.

## 6. Not modelled

Not modelled: a second `Start` after `Stop`, which no program makes; the jobs a
stopped ChatServer leaves in its queue; the destructor of LockFreeQueue and the
construction and destruction of pooled objects, their guard words and statistics,
blocks made in advance; the copy operator of Packet, and the unlocked
`m_bEncoded`, since no program sends one packet from two threads; RingBuffer's
lock, which nobody takes. CrashDump, project files and the shipped
`EchoClient.exe` have no state to check.
