\* A client of a collector whose connections fail and end, then the upstream is quiet.
SPECIFICATION FairSpec
CONSTANTS
  Session = {1, 2}
  Field = {f1, f2}
  Value = {a, b}
  Client = {c1}
  Nil = Nil
  QueueSize = 2
  MaxPending = 0
  MaxBacklog = 2
  MaxLogBytes = 1
  MaxChanges = 2
  MaxCloses = 2
  MaxStarts = 1
  MaxCrashes = 0
  MaxLogErrors = 0
INVARIANTS CaughtUp NothingMissed
PROPERTY CatchesUp
CHECK_DEADLOCK FALSE
