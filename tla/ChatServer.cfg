\* Two sessions that use one account in turn, players that are reused, three
\* sectors in a row, two jobs in the queue.  No time passes here.  A server that
\* was stopped is at its end.
CONSTANTS
  Sessions = {s1, s2}
  Players = {q1, q2}
  Accounts = {a1}
  Messages <- RoomMessages
  SectorMaxX = 3
  SectorMaxY = 1
  Timeout = 1
  MaxPackets = 3
  MaxJobs = 2
  MaxBehind = 0
  NoPlayer = NoPlayer
  NoSession = NoSession
  NoAccount = NoAccount
  NoSector = NoSector
  a1 = a1
SPECIFICATION Spec
SYMMETRY Symmetry
CHECK_DEADLOCK FALSE
INVARIANTS
  JobsInOrder
  NoForgottenJob
  NoDangling
  SectorsExact
PROPERTIES
  ImplementsRoom
  MessageHeard
