\* Two tasks of one session: two monitors, the lease, signals.
SPECIFICATION Spec
CONSTANTS
  Task = {t1, t2}
  Session = {s1}
  None = None
  MaxTasks = 2
  MaxUsage = 0
  Requests = {"definition", "sharedFork"}
  Faults = {"startInterrupt", "waitInterrupt", "drainError"}
SYMMETRY TaskSymmetry
INVARIANTS
  WriterHoldsLease
PROPERTIES
  ImplementsLedger
