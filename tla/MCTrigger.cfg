CONSTANTS
  here = here
  there = there
  Host <- MCHostOne
  LocalHost = here
  Event <- MCEvent
  Configs <- MCConfigs
  DayLen = 3
  MinSpacing = 1
  DailyMax = 1
  VoltMinSpacing = 2
  VoltDailyMax = 1
  StormLockout = 2
  DiskStale = 1
  PollTimeout = 1
  Endpoints = 2
  LastStart = 4
  MaxTime = 4
  MaxRestarts = 1
  MaxDiskChanges = 0
SPECIFICATION Spec
CHECK_DEADLOCK FALSE
INVARIANTS
  TypeOK
  SerialBudgetHolds
  LockoutHolds
  SerialVoltageHolds
  DumpsAudited
