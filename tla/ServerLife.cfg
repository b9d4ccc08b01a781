\* Two indices and three clients, one worker beside the accept thread; tags of one
\* value.  Liveness: no symmetry.  The system stops for good at the end of the program.
CONSTANTS
  Main = main
  Acceptor = acc
  Workers = {w1}
  Users = {main, acc, w1}
  Values = {0, 1}
  Nodes = {n1, n2}
  NoNode = none
  Nothing = nothing
  TagLimit = 1
  MaxConns = 3
  MaxFrames = 1
  Answers = {0, 2}
SPECIFICATION FairSpec
CHECK_DEADLOCK FALSE
INVARIANTS
  IndexExact
  UseOnlyWhatExists
  PacketsExact
PROPERTIES
  StopReturns
