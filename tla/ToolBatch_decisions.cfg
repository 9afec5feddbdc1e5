\* Every kind of call, and the tasks that they start.
SPECIFICATION Spec
CONSTANTS
  Task = {t1, t2}
  MaxTasks = 2
  None = None
  Kinds = {"ReadFile", "WriteFile", "PlanFile", "Bash", "ReadBash",
           "SafeMcp", "LoadSkill", "SharedFork", "IsolatedFork",
           "RemoveWorktree", "ExitPlanMode", "UpdatePlan"}
  Denied = {"ReadFile"}
  MaxBatch = 2
  MaxBatches = 2
SYMMETRY TaskSymmetry
INVARIANTS
  AnsweredInFull
  UnsafeIsBarrier
  PlanStopsTools
  LeaseRespected
  FailuresBounded
PROPERTIES
  RemovalSafe
