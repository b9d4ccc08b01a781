\* One slot used by two sessions in turn, two workers and a caller.
CONSTANTS
  Acceptor = acc
  Workers = {w1, w2}
  Callers = {c1}
  Handles = {h1}
  Packets = {p1, p2}
  MaxSessionCount = 1
  MaxSendPacket = 2
  MaxGen = 2
  MaxFrames = 1
  NoPacket = NoPacket
  NoHandle = NoHandle
SPECIFICATION Spec
SYMMETRY Symmetry
CHECK_DEADLOCK FALSE
INVARIANTS
  RefExact
  NoUseAfterRelease
  NoZombie
  CallbackOrder
  SendExclusive
  NoLostWakeup
  NoCrossDelivery
  PacketRefs
PROPERTIES
  ImplementsService
