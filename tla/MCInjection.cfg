CONSTANTS
  None = None
  service = service
  manual = manual
  here = here
  Service = service
  Manual <- MCManualNone
  Spot <- MCSpot
  DayLen = 3
  Cadence = 2
  Busy = 1
  MinRest = 1
  ReconcileWait = 1
  WindowLo = 1
  WindowHi = 1
  MaxLead = 1
  DumpPre = 0
  DumpPost = 0
  Margin = 1
  MaxDeleteFiles = 2
  StreakEvery = 1
  StreakLimit = 3
  MaxShots = 3
  MaxTime = 4
  MaxRestarts = 1
  MaxTriggers = 1
  LastTrigger = 1
SPECIFICATION Spec
CHECK_DEADLOCK FALSE
INVARIANTS
  TypeOK
  NamesUnique
  ShotsSpaced
  OutcomeTrue
  MissDumpKept
  AlertsOncePerMultiple
PROPERTIES
  EveryShotLives
