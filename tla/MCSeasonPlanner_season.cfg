\* The worker and an API request plan two events while upstream changes.
SPECIFICATION FairSpec
CONSTANTS
  Event = {"first", "second"}
  Testing = "test"
  Order <- MCOrder
  Key = {"race"}
  Grace = 0
  Checkpoints = {1}
  CoverageTTL = 2
  Worker = "worker"
  Request = {"r1"}
  Nil = Nil
  StartAt <- MCStartAt
  Meeting <- MCMeeting
  Calendar <- MCCalendar
  MaxTime = 3
  LastChange = 0
  MaxChanges = 1
  MaxFailures = 1
  MaxHold = 1
INVARIANTS EveryEventPlaced LoadsBounded
PROPERTIES SnapshotAdvances SeasonSettles OverviewSettles
