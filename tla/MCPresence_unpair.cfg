\* Unpairing on one node while the agent is connected to another.
CONSTANTS
  Node = {n1, n2}
  Conn = {c1, c2}
  NoNode = NoNode
  NoConn = NoConn
  MaxAge = 1
  DetectTicks = 1
  ForeignKeys = TRUE
SPECIFICATION Spec
INVARIANTS
  UnpairedIsBooted
