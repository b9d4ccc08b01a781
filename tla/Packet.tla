-------------------------------- MODULE Packet --------------------------------
(***************************************************************************)
(* Packet: a buffer whose first places are reserved for a header, a read   *)
(* and a write position behind them, and the encoding of packets for       *)
(* clients.  An element of the buffer is a header field or a byte of the   *)
(* payload; bytes have Width bits.                                         *)
(***************************************************************************)
EXTENDS Integers, Sequences, SequencesExt

CONSTANTS
  Width,        \* bits of a byte
  BufferSize,   \* eBUFFER_DEFAULT
  PacketCode,   \* PACKET_CODE
  FixedKey      \* FIXED_KEY

\* How many values there are of n bits.
Values[n \in 0 .. Width] == IF n = 0 THEN 1 ELSE 2 * Values[n - 1]

Bytes   == 0 .. Values[Width] - 1
Byte(n) == n % Values[Width]

ASSUME PacketAssumption ==
  /\ {Width, BufferSize} \subseteq Nat \ {0}
  /\ {PacketCode, FixedKey} \subseteq Bytes

\* The exclusive or of two bytes: that of their last bits, and that of the n - 1 others.
Xor(a, b) ==
  LET xor[n \in 0 .. Width] ==
        [p \in Bytes \X Bytes |->
           IF n = 0 THEN 0
           ELSE ((p[1] + p[2]) % 2) + 2 * xor[n - 1][<<p[1] \div 2, p[2] \div 2>>]]
  IN  xor[Width][<<a, b>>]

\* NetServerHeader is _byteCode, _len, _randomKey, _checkSum; LanServerHeader _len.
NetHeaderSize == 4
LanHeaderSize == 1
Reserve       == NetHeaderSize   \* eHEADER_RESERVE

\* Alloc and Clear.
Fresh == [buffer |-> [i \in 0 .. Reserve + BufferSize - 1 |-> 0],
          readPos |-> Reserve, writePos |-> Reserve, headerSize |-> 0, encoded |-> FALSE]

\* The buffer with the elements s from position at on.
Written(buffer, at, s) ==
  [i \in DOMAIN buffer |-> IF i \in at .. at + Len(s) - 1 THEN s[i - at + 1] ELSE buffer[i]]

Part(buffer, at, n) == [i \in 1 .. n |-> buffer[at + i - 1]]

Fits(p, n) == IF n <= Reserve + BufferSize - p.writePos THEN n ELSE Reserve + BufferSize - p.writePos

MoveWritePos(p, n) == [p EXCEPT !.writePos = @ + Fits(p, n)]

\* The payload is cut off where the buffer ends.
PutData(p, s) ==
  [p EXCEPT !.buffer = Written(@, p.writePos, SubSeq(s, 1, Fits(p, Len(s)))),
            !.writePos = @ + Fits(p, Len(s))]

\* operator<<: a value that does not fit is left out as a whole.
Push(p, s) ==
  IF Reserve + BufferSize - p.writePos < Len(s) THEN p
  ELSE [p EXCEPT !.buffer = Written(@, p.writePos, s), !.writePos = @ + Len(s)]

DataSize(p) == p.writePos - p.readPos

\* What GetData copies for a caller that asks for n elements.
Data(p, n) == Part(p.buffer, p.readPos, IF DataSize(p) < n THEN DataSize(p) ELSE n)

\* What GetData leaves.
GetData(p, n) ==
  IF DataSize(p) <= n THEN [p EXCEPT !.readPos = Reserve, !.writePos = Reserve]
  ELSE [p EXCEPT !.readPos = @ + n]

\* operator>>: the n elements of a value; none, if there are fewer.
Popped(p, n) == IF DataSize(p) < n THEN <<>> ELSE Part(p.buffer, p.readPos, n)

\* What operator>> leaves.
Pop(p, n) ==
  IF DataSize(p) < n THEN p
  ELSE IF DataSize(p) = n THEN [p EXCEPT !.readPos = Reserve, !.writePos = Reserve]
  ELSE [p EXCEPT !.readPos = @ + n]

CheckSum(s) == Byte(FoldSeq(+, 0, s))

----------------------------------------------------------------------------
(***************************************************************************)
(* Encode and Decode work on the checksum and the payload.                 *)
(***************************************************************************)

Encode(s, key) ==
  LET at[i \in 0 .. Len(s)] ==
        IF i = 0 THEN [p |-> 0, e |-> 0]
        ELSE LET p == Xor(s[i], Byte(at[i - 1].p + key + i))
             IN  [p |-> p, e |-> Xor(p, Byte(at[i - 1].e + FixedKey + i))]
  IN  [i \in 1 .. Len(s) |-> at[i].e]

\* A mutant: prevP is not carried over.
DecodeForgets(s, key) ==
  LET e(i) == IF i = 0 THEN 0 ELSE s[i]
      p(i) == IF i = 0 THEN 0 ELSE Xor(e(i), Byte(e(i - 1) + FixedKey + i))
  IN  [i \in 1 .. Len(s) |-> Xor(p(i), Byte(key + i))]

Decode(s, key) ==
  LET e(i) == IF i = 0 THEN 0 ELSE s[i]
      p(i) == IF i = 0 THEN 0 ELSE Xor(e(i), Byte(e(i - 1) + FixedKey + i))
  IN  [i \in 1 .. Len(s) |-> Xor(p(i), Byte(p(i - 1) + key + i))]

SetNetHeader(p, key) ==
  LET len    == p.writePos - Reserve
      header == <<PacketCode, len, key>>
      body   == <<CheckSum(Part(p.buffer, Reserve, len))>> \o Part(p.buffer, Reserve, len)
  IN  IF p.encoded THEN p
      ELSE [p EXCEPT !.buffer = Written(@, 0, header \o Encode(body, key)),
                     !.headerSize = NetHeaderSize, !.encoded = TRUE]

SetLanHeader(p) ==
  [p EXCEPT !.buffer = Written(@, Reserve - LanHeaderSize, <<p.writePos - Reserve>>),
            !.headerSize = LanHeaderSize]

\* What is sent: from GetSendPtr on, GetSendSize elements.
Sent(p) == Part(p.buffer, Reserve - p.headerSize, p.headerSize + p.writePos - Reserve)

\* Decode of a packet whose buffer holds a header with its payload.
Decoded(p) ==
  LET len == p.buffer[1]
  IN  [p EXCEPT !.buffer = Written(@, Reserve - 1,
                                   Decode(Part(@, Reserve - 1, len + 1), p.buffer[2]))]

\* What Decode returns.
ChecksOut(p) ==
  LET len == p.buffer[1]
  IN  CheckSum(Part(p.buffer, Reserve, len)) = p.buffer[Reserve - 1]

=============================================================================
