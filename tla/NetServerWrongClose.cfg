\* Two slots, so that a closed socket value can come back for another session.
CONSTANTS
  Acceptor = acc
  Workers = {w1, w2}
  Callers = {c1}
  Handles = {h1, h2}
  Packets = {}
  MaxSessionCount = 2
  MaxSendPacket = 2
  MaxGen = 3
  MaxFrames = 0
  NoPacket = NoPacket
  NoHandle = NoHandle
SPECIFICATION Spec
SYMMETRY Symmetry
CHECK_DEADLOCK FALSE
INVARIANTS
  ClosesOwnConnection
