CONSTANTS
  m1 = m1
  m2 = m2
  MaxHead = 2
  MaxBase = 3
  Conflicts <- MCConflicts
  Settings <- MCSettings
  Workers = 2
  Mergers = {m1, m2}
  MaxTasks = 2
  MaxEvents = 3
SPECIFICATION FairSpec
CHECK_DEADLOCK FALSE
INVARIANTS
  TypeOK
  RecheckComing
  ScheduleKept
  ExpectedHead
PROPERTIES
  MergedOnce
  SettledAgain
