\* Two threads, two chunks of two blocks, one full chunk kept by a thread.
CONSTANTS
  Threads = {t1,t2}
  Blocks = {b1,b2,b3,b4}
  ChunkSize = 2
  TlsMaxChunks = 1
  MaxChunks = 0
  TagLimit = 3
  NoBlock = NoBlock
SPECIFICATION Spec
VIEW Seen
SYMMETRY Symmetry
CHECK_DEADLOCK FALSE
INVARIANTS
  OnePlace
  CountsExact
  CacheBounded
