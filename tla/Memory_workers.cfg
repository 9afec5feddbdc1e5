\* Two workers at once, one of which may fail or die.
SPECIFICATION Spec
CONSTANTS
  Worker = {w1, w2}
  None = None
  Ids = {m1, m2}
  UserCategories = {c1, c2}
  ProjectCategories = {c1}
  UserOps = {"create", "delete", "move"}
  ProjectOps = {"create"}
  MaxEntries = 2
  MaxTurns = 2
  MaxFaults = 1
  MaxWeeks = 1
INVARIANTS
  WholeWhenQuiet
PROPERTIES
  ImplementsBoard
  WorkerEnds
