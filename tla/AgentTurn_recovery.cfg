CONSTANTS
  s1 = s1  s2 = s2
  Session <- OneSession
  None = None
  MaxCalls = 3
  MaxLines = 5
  MaxIterations = 2
  MaxBatch = 2
  Faults = {"append", "interrupt", "yieldInterrupt", "contextLength", "crash"}
SPECIFICATION FairSpec
INVARIANTS
  ExecutedIsLogged
  RequestAnswered
  ReportsOnce
PROPERTIES
  CompactionKeepsPairs
  TurnEnds
