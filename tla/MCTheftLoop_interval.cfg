\* The same hub node and devices; the interval the comments promise.
CONSTANTS
  Node = {n1}
  Dev = {d1, d2}
  NoNode = NoNode
  Lockable = {d1}
  Req = {r1, r2}
  Interval = 2
  MaxKinds = 1
  MaxTime = 6
SPECIFICATION Spec
SYMMETRY Symmetry
INVARIANTS
  IntervalIsKept
