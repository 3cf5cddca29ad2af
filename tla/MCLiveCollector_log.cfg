\* The log of two runs of the collector, with a crash and a second session.
SPECIFICATION Spec
CONSTANTS
  Session = {1, 2}
  Field = {f1, f2}
  Value = {a, b}
  Client = {}
  Nil = Nil
  QueueSize = 3
  MaxPending = 1
  MaxBacklog = 1
  MaxLogBytes = 4
  MaxChanges = 2
  MaxCloses = 1
  MaxStarts = 2
  MaxCrashes = 1
  MaxLogErrors = 1
SYMMETRY Symmetry
INVARIANT LogRebuilds
CHECK_DEADLOCK FALSE
