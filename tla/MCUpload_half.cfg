\* What op_write_file's comment promises of the file at the final path.
CONSTANTS
  Up = {u1, u2}
  Path = {p1, p2}
  NoUp = NoUp
  Sized = {u1}
  Size <- MCSize
  MaxDrops = 1
SPECIFICATION Spec
INVARIANTS
  FinalIsWhole
CHECK_DEADLOCK FALSE
