\* The shortest way to a post on a closed socket.
CONSTANTS
  Acceptor = acc
  Workers = {w1, w2}
  Callers = {c1}
  Handles = {h1, h2}
  Packets = {p1, p2}
  MaxSessionCount = 1
  MaxSendPacket = 2
  MaxGen = 2
  MaxFrames = 1
  NoPacket = NoPacket
  NoHandle = NoHandle
SPECIFICATION Spec
SYMMETRY Symmetry
CHECK_DEADLOCK FALSE
INVARIANTS
  NoDebugBreak
