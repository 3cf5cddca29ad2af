\* One session, refreshed by a second job: retries, pauses, a stalled worker.
SPECIFICATION Spec
CONSTANTS
  Worker = {w1, w2}
  Session = {s1}
  Job = {j1, j2}
  Nil = Nil
  MaxAttempts = 2
  LeaseTimeout = 1
  Backoff = {1}
  Cooldown = 2
  BudgetDelay = {1}
  MinInterval = 0
  RecoveryBatch = 2
  MaxPauses = 1
  MaxCrashes = 1
SYMMETRY Symmetry
INVARIANTS
  AtMostOneOwner RowsAgree CompletedHasData ClaimsAccounted
PROPERTIES SettledIsFinal ImplementsFencedLease
