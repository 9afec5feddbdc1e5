\* Three calls of one server that may fail, stall and die.
SPECIFICATION Spec
CONSTANTS
  Call = {c1, c2, c3}
  None = None
  Threads = 2
  Texts = {t1, t2}
  Kinds <- MCKinds
  Room = 1
  Stubborn = FALSE
  MaxEdits = 1
  MaxFaults = 1
SYMMETRY LspSymmetry
INVARIANTS
  OneServer
  InStep
  AnswerIsOwn
