CONSTANTS
  s1 = s1  s2 = s2
  Session <- Sessions
  None = None
  MaxCalls = 1
  MaxLines = 4
  MaxIterations = 1
  MaxBatch = 1
  Faults = {"append", "interrupt", "create", "crash", "tornCrash"}
SPECIFICATION Spec
INVARIANTS RestoreYieldsContext
PROPERTIES ImplementsDurableChat
