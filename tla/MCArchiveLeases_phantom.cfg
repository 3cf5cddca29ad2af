\* The planner adds a session while the job is aggregated.
SPECIFICATION Spec
CONSTANTS
  Worker = {w1}
  Session = {s1, s2}
  Job = {j1}
  Nil = Nil
  MaxAttempts = 1
  LeaseTimeout = 0
  Backoff = {1}
  Cooldown = 2
  BudgetDelay = {1}
  MinInterval = 0
  RecoveryBatch = 2
  MaxPauses = 1
  MaxCrashes = 1
INVARIANT TerminalJobIsDone
