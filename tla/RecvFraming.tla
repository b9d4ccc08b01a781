----------------------------- MODULE RecvFraming -----------------------------
(***************************************************************************)
(* How the bytes of a connection become calls of OnRecv: RecvPost gives    *)
(* the free room of recvQ to Windows, Windows writes there what arrives,   *)
(* cut anywhere, and RecvProc takes the frames out that are complete.      *)
(* A session has one receive at a time, so nobody else touches recvQ.      *)
(*                                                                         *)
(* Both servers work like this; they differ in the header and in how they  *)
(* take it off the ring.                                                   *)
(***************************************************************************)
EXTENDS RingBuffer, Packet

CONSTANTS
  Streams,    \* bound: what peers send, sequences of frames
  MaxConns,   \* bound: connections that use the session in turn
  Nothing     \* a place of the ring never written

\* A frame as its sender means it: a good one holds a payload that fits into a
\* Packet, a long one a payload that does not; code and sum are to be refused.
Frame == [kind : {"good", "code", "sum", "long"}, payload : Seq(Bytes), key : Bytes]

ASSUME StreamAssumption ==
  /\ MaxConns \in Nat \ {0}
  /\ Capacity > NetHeaderSize + BufferSize
  /\ Streams \subseteq Seq(Frame)
  /\ \A s \in Streams : \A i \in 1 .. Len(s) :
       s[i].kind = "long" <=> Len(s[i].payload) > BufferSize

VARIABLES
  server,   \* "net" or "lan"
  ring,     \* recvQ
  posted,   \* the two WSABUFs, [start, len]
  cb,       \* cbTransferred of the completion at hand
  pc,       \* what the session's receive is at
  \* the peer and the application
  conns,    \* connections so far
  sent,     \* the frames the peer sends
  wire,     \* what of it was not received yet
  got       \* the payloads OnRecv was called with

vars == <<server, ring, posted, cb, pc, conns, sent, wire, got>>

HeaderSize == IF server = "net" THEN NetHeaderSize ELSE LanHeaderSize

\* A packet as applications fill it: a value, then the rest as it is.
Filled(s) ==
  LET value == SubSeq(s, 1, Least(1, Len(s)))
  IN  PutData(Push(Fresh, value), SubSeq(s, Len(value) + 1, Len(s)))

\* What a peer sends for a frame.  A long one has not been through a Packet.
NetElements(f) ==
  LET s == Sent(SetNetHeader(Filled(f.payload), f.key))
  IN  CASE f.kind = "good" -> s
        [] f.kind = "code" -> [s EXCEPT ![1] = Byte(@ + 1)]
        [] f.kind = "sum"  -> SubSeq(s, 1, 3)
                              \o Encode(<<Byte(CheckSum(f.payload) + 1)>> \o f.payload, f.key)
        [] f.kind = "long" -> <<PacketCode, Len(f.payload), f.key, 0>> \o f.payload

LanElements(f) ==
  IF f.kind = "long" THEN <<Len(f.payload)>> \o f.payload
  ELSE Sent(SetLanHeader(Filled(f.payload)))

Elements(f) == IF server = "net" THEN NetElements(f) ELSE LanElements(f)

Stream(s) == FlattenSeq([i \in 1 .. Len(s) |-> Elements(s[i])])

\* Servers of trusted peers are sent good frames and long ones.
MaySend(s) == server = "lan" => \A i \in 1 .. Len(s) : s[i].kind \in {"good", "long"}

Empty == [i \in 1 .. 2 |-> [start |-> 0, len |-> 0]]

Init ==
  /\ server \in {"net", "lan"}
  /\ ring = [buffer |-> [i \in Positions |-> Nothing], front |-> 0, rear |-> 0]
  /\ posted = Empty /\ cb = 0 /\ got = <<>>
  /\ \E s \in Streams : MaySend(s) /\ sent = s /\ wire = Stream(s)
  /\ conns = 1 /\ pc = "RecvPost"

\* The next connection in the session; Session::Init clears the ring.
Accept ==
  /\ pc = "ended" /\ conns < MaxConns
  /\ conns' = conns + 1
  /\ ring' = ClearBuffer(ring)
  /\ \E s \in Streams : MaySend(s) /\ sent' = s /\ wire' = Stream(s)
  /\ got' = <<>> /\ pc' = "RecvPost"
  /\ UNCHANGED <<server, posted, cb>>

\* A mutant: the second part is as long as all the free room.
AreasTooLong ==
  <<[start |-> ring.rear, len |-> DirectEnqueueSize(ring)], [start |-> 0, len |-> FreeSize(ring)]>>

\* The room behind rear up to the end of the array, and the rest at its start.
Areas ==
  <<[start |-> ring.rear, len |-> DirectEnqueueSize(ring)],
    [start |-> 0, len |-> FreeSize(ring) - DirectEnqueueSize(ring)]>>

RecvPost ==
  /\ pc = "RecvPost"
  /\ posted' = Areas
  /\ pc' = "posted"
  /\ UNCHANGED <<server, ring, cb, conns, sent, wire, got>>

Room == posted[1].len + posted[2].len

\* Where the i-th element received goes.
Place(i) ==
  IF i <= posted[1].len THEN posted[1].start + i - 1 ELSE posted[2].start + i - posted[1].len - 1

\* Windows fills the two buffers with what has arrived of the stream.
Receive(n) ==
  /\ pc = "posted" /\ n <= Room /\ n <= Len(wire)
  /\ ring' = [ring EXCEPT !.buffer =
       [p \in Positions |-> IF \E i \in 1 .. n : Place(i) = p
                            THEN wire[CHOOSE i \in 1 .. n : Place(i) = p] ELSE @[p]]]
  /\ wire' = SubSeq(wire, n + 1, Len(wire))
  /\ cb' = n
  /\ pc' = "completed"
  /\ UNCHANGED <<server, posted, conns, sent, got>>

\* The peer closes, or something arrives while there is no room: nothing was
\* transferred, and WorkerThreadMain returns the session.
ReceiveNothing ==
  /\ pc = "posted" /\ (wire = <<>> \/ Room = 0)
  /\ posted' = Empty /\ cb' = 0
  /\ pc' = "ended"
  /\ UNCHANGED <<server, ring, conns, sent, wire, got>>

RecvProc ==
  /\ pc = "completed"
  /\ ring' = MoveRear(ring, cb)
  /\ posted' = Empty /\ cb' = 0
  /\ pc' = "frames"
  /\ UNCHANGED <<server, conns, sent, wire, got>>

----------------------------------------------------------------------------
(***************************************************************************)
(* The loop of RecvProc over the frames.                                   *)
(***************************************************************************)

\* header._len.
PeekedLen == IF server = "net" THEN Peek(ring, HeaderSize)[2] ELSE Peek(ring, HeaderSize)[1]

Complete == UseSize(ring) >= HeaderSize /\ UseSize(ring) >= HeaderSize + PeekedLen

NoMoreFrames ==
  /\ pc = "frames" /\ ~ Complete
  /\ pc' = "RecvPost"
  /\ UNCHANGED <<server, ring, posted, cb, conns, sent, wire, got>>

WrongCode == server = "net" /\ Peek(ring, HeaderSize)[1] # PacketCode

\* The frame in a Packet: CNetServer takes header and payload out at once,
NetTaken ==
  LET n == NetHeaderSize + PeekedLen
  IN  [ring   |-> Dequeue(ring, n),
       packet |-> MoveWritePos([Fresh EXCEPT !.buffer = Written(@, 0, Peek(ring, n))], PeekedLen)]

\* CLanServer steps over the header first.
LanTaken ==
  LET r == MoveFront(ring, LanHeaderSize)
  IN  [ring   |-> Dequeue(r, PeekedLen),
       packet |-> MoveWritePos([Fresh EXCEPT !.buffer = Written(@, Reserve, Peek(r, PeekedLen))],
                               PeekedLen)]

Refuse ==
  /\ pc = "frames" /\ Complete /\ WrongCode
  /\ pc' = "ended"
  /\ UNCHANGED <<server, ring, posted, cb, conns, sent, wire, got>>

\* Neither server compares header._len with the size of the packet: a longer
\* frame that fits into the ring is copied past the end of the packet's buffer,
\* before Decode.  Nothing is said of what the process does from there on.
Overrun ==
  /\ pc = "frames" /\ Complete /\ ~ WrongCode /\ PeekedLen > BufferSize
  /\ pc' = "undefined"
  /\ UNCHANGED <<server, ring, posted, cb, conns, sent, wire, got>>

RefuseSum ==
  /\ pc = "frames" /\ Complete /\ server = "net" /\ ~ WrongCode /\ PeekedLen <= BufferSize
  /\ ~ ChecksOut(Decoded(NetTaken.packet))
  /\ ring' = NetTaken.ring
  /\ pc' = "ended"
  /\ UNCHANGED <<server, posted, cb, conns, sent, wire, got>>

\* What an application reads: a value of one byte, an array of one, and the rest.
Read(p) ==
  LET q == Pop(p, 1)
  IN  Popped(p, 1) \o Data(q, 1) \o Data(GetData(q, 1), BufferSize)

OnRecv ==
  LET packet == IF server = "net" THEN Decoded(NetTaken.packet) ELSE LanTaken.packet
  IN  /\ pc = "frames" /\ Complete /\ ~ WrongCode /\ PeekedLen <= BufferSize
      /\ server = "net" => ChecksOut(packet)
      /\ ring' = IF server = "net" THEN NetTaken.ring ELSE LanTaken.ring
      /\ got' = Append(got, Read(packet))
      /\ UNCHANGED <<server, posted, cb, pc, conns, sent, wire>>

Next ==
  \/ Accept \/ RecvPost \/ ReceiveNothing \/ RecvProc
  \/ NoMoreFrames \/ Refuse \/ Overrun \/ RefuseSum \/ OnRecv
  \/ \E n \in 1 .. Capacity : Receive(n)

Spec == Init /\ [][Next]_vars

----------------------------------------------------------------------------
(***************************************************************************)
(* Properties.                                                             *)
(***************************************************************************)

\* The elements in the ring, those in the posted buffers and those on the wire.
Pending ==
  Peek(ring, UseSize(ring)) \o [i \in 1 .. cb |-> ring.buffer[Place(i)]] \o wire

\* What the application was given are the good frames in order, as they were before
\* they were encoded, and nothing behind one that is not good.
Delivered ==
  /\ Len(got) <= Len(sent)
  /\ \A i \in 1 .. Len(got) : sent[i].kind = "good" /\ got[i] = sent[i].payload

\* No byte is lost, doubled, garbled or overwritten, whatever the pieces it came in:
\* the application was given the good frames at the head of the stream, and as long
\* as the session lives what is pending is the rest of what was sent.  A packet's
\* buffer is overrun only by a frame that its sender made longer than a packet.
StreamExact ==
  /\ Delivered
  /\ pc \notin {"ended", "undefined"} =>
       Pending = Stream(SubSeq(sent, Len(got) + 1, Len(sent)))
  /\ pc = "undefined" => Len(got) < Len(sent) /\ sent[Len(got) + 1].kind = "long"

\* A receive that could complete with nothing for want of room is posted only
\* when the frame at hand does not fit into the ring.
RoomToRead ==
  pc = "posted" /\ Room = 0 => HeaderSize + Len(sent[Len(got) + 1].payload) >= Capacity

=============================================================================
