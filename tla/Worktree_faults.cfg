\* Two worktrees; anything may fail, be interrupted or die twice.
SPECIFICATION Spec
CONSTANTS
  Ids = {w1, w2}
  None = None
  Corrupt = Corrupt
  MaxWorktrees = 2
  MaxFaults = 2
  MaxUser = 2
SYMMETRY IdSymmetry
INVARIANTS
  WorkKnown
  ActiveIsCheckedOut
PROPERTIES
  ImplementsKeeper
