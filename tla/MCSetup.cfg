CONSTANTS
  Post = {s1, s2}
  Main = Main
  Reg = {q1}
  Remote = {turso}
  Local = Local
  Blank = Blank
  Env <- MCEnv
  Nobody = Nobody
SPECIFICATION FairSpec
INVARIANTS
  TypeOK
  BackendIsExplained
PROPERTIES
  SelfLocks
  SetupAnswers
CHECK_DEADLOCK FALSE
