CONSTANTS
  None = None
  service = service
  manual = manual
  here = here
  Service = service
  Manual <- MCManual
  Spot <- MCSpot
  DayLen = 3
  Cadence = 2
  Busy = 1
  MinRest = 1
  ReconcileWait = 1
  WindowLo = 1
  WindowHi = 1
  MaxLead = 1
  DumpPre = 1
  DumpPost = 0
  Margin = 1
  MaxDeleteFiles = 2
  StreakEvery = 1
  StreakLimit = 3
  MaxShots = 2
  MaxTime = 3
  MaxRestarts = 0
  MaxTriggers = 1
  LastTrigger = 9
SPECIFICATION Spec
CHECK_DEADLOCK FALSE
INVARIANTS
  CleanupSparesOthers
