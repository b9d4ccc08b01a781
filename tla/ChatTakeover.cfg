\* Three sessions with one account.
CONSTANTS
  Sessions = {s1, s2, s3}
  Players = {q1, q2, q3}
  Accounts = {a1}
  Messages <- TakeoverMessages
  SectorMaxX = 1
  SectorMaxY = 1
  Timeout = 1
  MaxPackets = 1
  MaxJobs = 1
  MaxBehind = 1
  NoPlayer = NoPlayer
  NoSession = NoSession
  NoAccount = NoAccount
  NoSector = NoSector
  a1 = a1
SPECIFICATION Spec
SYMMETRY Symmetry
CHECK_DEADLOCK FALSE
INVARIANTS
  OneSessionPerAccount
