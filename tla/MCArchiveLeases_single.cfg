\* One worker on two sessions: mixed outcomes, a pause, a crash.
SPECIFICATION FairSpec
CONSTANTS
  Worker = {w1}
  Session = {s1, s2}
  Job = {j1}
  Nil = Nil
  MaxAttempts = 2
  LeaseTimeout = 0
  Backoff = {1}
  Cooldown = 1
  BudgetDelay = {1}
  MinInterval = 0
  RecoveryBatch = 2
  MaxPauses = 1
  MaxCrashes = 1
PROPERTIES LeaseEnds JobEnds
