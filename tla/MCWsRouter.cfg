CONSTANTS
  Unary = {u1}
  Stream = {s1, s2}
  NoRid = NoRid
  MaxCalls = 2
  MaxChunks = 2
SPECIFICATION Spec
SYMMETRY StreamSymmetry
INVARIANTS
  TypeOK
  StreamIntegrity
  EndedStreamIsComplete
  AnswersAreOwn
  NoLeakedEntry
  NoStrandedStream
