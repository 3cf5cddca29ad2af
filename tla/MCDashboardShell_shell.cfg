CONSTANTS
  y1 = y1
  y2 = y2
  Years <- MCYears
  CurrentYear = y1
  NoJob = NoJob
  NoSeason = NoSeason
  MaxAttempts = 2
  Lockout = 1
  SessionTtl = 1
  MaxTime = 2
  MaxWrong = 3
  MaxJobs = 1
  MaxActs = 3
SPECIFICATION Spec
INVARIANT GuessesBounded
INVARIANT OwnSeason
INVARIANT OnePoller
INVARIANT ControlsComeBack
CHECK_DEADLOCK FALSE
