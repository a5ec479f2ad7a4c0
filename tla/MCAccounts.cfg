CONSTANTS
  Node = {n1, n2}
  Replica = {n2}
  Req = {r1, r2, r3}
  Name = {alice, bob, carol}
  Code = {i1}
  NoName = NoName
  NoReq = NoReq
  NoForm = NoForm
  Thread = {t1, t2}
  RATE_WINDOW = 1
  RATE_MAX = 2
  RATE_BLOCK = 2
  NoBlock = NoBlock
SPECIFICATION AccountsSpec
SYMMETRY Symmetry
INVARIANTS
  TypeOK
  AdmissionsAreSound
  GuessBudget

  
CHECK_DEADLOCK FALSE
