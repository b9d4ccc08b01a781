\* A ring of seven places: one more than the longest good frame takes, and as many
\* as the shortest frame that is longer than a packet.
CONSTANTS
  Capacity = 8
  Width = 2
  BufferSize = 2
  PacketCode = 3
  FixedKey = 2
  Streams <- MCStreams
  MaxConns = 2
  Nothing = Nothing
SPECIFICATION Spec
CHECK_DEADLOCK FALSE
INVARIANTS
  StreamExact
  RoomToRead
