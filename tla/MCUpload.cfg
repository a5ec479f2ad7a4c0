CONSTANTS
  Up = {u1, u2}
  Path = {p1, p2}
  NoUp = NoUp
  Sized = {u1}
  Size <- MCSize
  MaxDrops = 2
SPECIFICATION FairSpec
INVARIANTS
  TypeOK
  InstalledAsTold
  NothingLeftBehind
PROPERTIES
  UploadSettles
CHECK_DEADLOCK FALSE
