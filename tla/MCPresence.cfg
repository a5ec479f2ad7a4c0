CONSTANTS
  Node = {n1, n2}
  Conn = {c1, c2, c3}
  NoNode = NoNode
  NoConn = NoConn
  MaxAge = 1
  DetectTicks = 1
  ForeignKeys = FALSE
SPECIFICATION Spec
SYMMETRY Symmetry
INVARIANTS
  TypeOK
  LiveIsRegistered
  FreshRowIsRecent
  ControlFromAnyNode
