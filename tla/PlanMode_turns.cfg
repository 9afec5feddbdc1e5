\* Two turns of up to three iterations, with two mode switches or restarts.
SPECIFICATION PlanSpec
CONSTANTS
  MaxIterations = 3
  MaxBatch = 2
  MaxTurns = 2
  MaxSwitches = 2
INVARIANTS
  ReminderTrue

  
