\* One slot used by two sessions in turn; a caller and OnRecv send two packets, so
\* one can wait behind the send of the other.  Liveness, so no symmetry.
CONSTANTS
  Acceptor = acc
  Workers = {w1}
  Callers = {c1}
  Handles = {h1}
  Packets = {p1, p2}
  MaxSessionCount = 1
  MaxSendPacket = 1
  MaxGen = 2
  MaxFrames = 1
  NoPacket = NoPacket
  NoHandle = NoHandle
SPECIFICATION LanFairSpec
CHECK_DEADLOCK FALSE
INVARIANTS
  OneOwner
  SessionCountExact
PROPERTIES
  ImplementsNet
  DeadIsReleased
  QueuedIsTaken
