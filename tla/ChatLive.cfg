\* Two sessions that use one account in turn, players that are reused, clients
\* that fall silent.  Liveness: no symmetry.  A server that was stopped, or has
\* run into __debugbreak, is at its end.
CONSTANTS
  Sessions = {s1, s2}
  Players = {q1, q2}
  Accounts = {a1}
  Messages <- TakeoverMessages
  SectorMaxX = 1
  SectorMaxY = 1
  Timeout = 1
  MaxPackets = 1
  MaxJobs = 1
  MaxBehind = 1
  NoPlayer = NoPlayer
  NoSession = NoSession
  NoAccount = NoAccount
  NoSector = NoSector
  a1 = a1
SPECIFICATION FairSpec
CHECK_DEADLOCK FALSE
PROPERTIES
  SilentIsForgotten
  StopEnds
