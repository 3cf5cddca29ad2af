\* Two workers serve one lap while its session is refreshed.
SPECIFICATION FairSpec
CONSTANTS
  Worker = {w1, w2}
  Lap = {l1}
  Nil = Nil
  MaxAttempts = 2
  LeaseTimeout = 0
  Backoff = {1}
  RecoveryBatch = 1
  MaxSnapshots = 3
  MaxRequests = 2
  MaxCrashes = 1
INVARIANT AvailableIsCurrent
PROPERTIES AvailableStays LeaseEnds RequestEnds
