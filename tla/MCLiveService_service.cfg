\* Several tabs start, replay and stop; answers to polls are overtaken.
SPECIFICATION FairServiceSpec
CONSTANTS
  Request = {r1}
  Own = own
  NoCollector = NoCollector
  MaxMade = 2
  Shared = TRUE
  Delayed = TRUE
INVARIANT NoneUnseen
PROPERTIES StopEnds StreamSettles
CHECK_DEADLOCK FALSE
