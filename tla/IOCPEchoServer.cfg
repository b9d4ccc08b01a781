\* Two workers, two connections, three frames of the first, a ring with room for two
\* echoes: one is in flight while the next goes behind it, the third goes round the
\* end of the ring, or is cut where the first two are still in it.
\* Liveness: no symmetry.
CONSTANTS
  Acceptor = acc
  Main = main
  Workers = {w1, w2}
  MaxConns = 2
  MaxFrames <- FirstTalks
  BodySize = 2
  Capacity = 7
  NoThread = NoThread
SPECIFICATION FairSpec
CHECK_DEADLOCK FALSE
INVARIANTS
  CountExact
  NoUseAfterDelete
  StreamWhole
PROPERTIES
  Settles
