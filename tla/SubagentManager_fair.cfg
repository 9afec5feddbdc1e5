\* Two tasks, one slot, no interrupted start: deadlines and progress.
SPECIFICATION FairSpec
CONSTANTS
  Task = {t1, t2}
  Session = {s1}
  None = None
  MaxTasks = 1
  MaxUsage = 0
  Requests = {"definition"}
  Faults = {"timeout"}
PROPERTIES
  SlotFreed
  ForegroundReturns
