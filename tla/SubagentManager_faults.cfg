\* One task of any kind, two sessions, every fault.
SPECIFICATION Spec
CONSTANTS
  Task = {t1}
  Session = {s1, s2}
  None = None
  MaxTasks = 1
  MaxUsage = 2
  Requests = {"definition", "sharedFork", "isolatedFork"}
  Faults = {"timeout", "crash", "startInterrupt", "armInterrupt", "waitInterrupt", "drainError", "deleteError"}
SYMMETRY SessionSymmetry
INVARIANTS
  TypeOK
  HandedOnce
  NoResultMislaid
  InboxesSound
  CompletedHonestly
