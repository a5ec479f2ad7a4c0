CONSTANTS
  Node = {n1, n2}
  Dev = {d1}
  Slot = {s1}
  NoNode = NoNode
  NoDev = NoDev
  Clock = {1, 2}
  Retention = {1, 2}
  ForeignKeys = TRUE
  MaxFiles = 3
SPECIFICATION Spec
SYMMETRY Symmetry
INVARIANTS
  TypeOK
  RowHasFile
  
