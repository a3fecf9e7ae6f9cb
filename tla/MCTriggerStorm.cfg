CONSTANTS
  here = here
  there = there
  Host <- MCHostOne
  LocalHost = here
  Event <- MCEvent
  Configs <- MCConfigsShipped
  DayLen = 2
  MinSpacing = 1
  DailyMax = 2
  VoltMinSpacing = 2
  VoltDailyMax = 2
  StormLockout = 2
  DiskStale = 1
  PollTimeout = 1
  Endpoints = 2
  LastStart = 3
  MaxTime = 3
  MaxRestarts = 0
  MaxDiskChanges = 0
SPECIFICATION Spec
CHECK_DEADLOCK FALSE
INVARIANT
  OneBlindDumpPerLockout
