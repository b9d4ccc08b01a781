\* Two threads and two queues that share a pool; tags of two bits wrap.
CONSTANTS
  Threads = {t1,t2}
  Queues = {q1,q2}
  Nodes = {n1, n2, n3, n4, n5}
  Values = {v1, v2}
  TagLimit = 4
  MaxOps = 3
  NoNode = NoNode
  Nothing = Nothing
SPECIFICATION Spec
SYMMETRY Symmetry
CHECK_DEADLOCK FALSE
INVARIANTS
  NodesInOnePlace
  SizeExact
  ReservedIsThere
PROPERTIES
  ImplementsFifo
  TagsTell
