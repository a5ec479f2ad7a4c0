SPECIFICATION FairSpec
CONSTANTS
  Node = {n1, n2}
  Replica = {n1}
  Agent = {g1, g2}
  User = {u1}
  Code = {c1}
  MaxIssues = 2
  MaxPages = 1
  MaxDevices = 2
  Loop = {g1}
  Beside = {n1}
  Isolated = {n2}
  NoRow = NoRow
  NoCfg = NoCfg
  NoNode = NoNode
INVARIANTS
  TypeOK
PROPERTIES
  FatalExitIsExplained
  CodesAreRedeemedOnce
  FailoverWorks
