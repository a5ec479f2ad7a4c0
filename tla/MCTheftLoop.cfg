CONSTANTS
  Node = {n1}
  Dev = {d1, d2}
  NoNode = NoNode
  Lockable = {d1}
  Req = {r1, r2}
  Interval = 2
  MaxKinds = 1
  MaxTime = 6
SPECIFICATION Spec
SYMMETRY Symmetry
INVARIANTS
  TypeOK
  AwakeIsExplained
  DisarmSettles
  NoBurst
