CONSTANTS
  here = here
  there = there
  Host <- MCHost
  LocalHost = here
  Event <- MCEventRemote
  Configs <- MCConfigsVolt
  DayLen = 2
  MinSpacing = 1
  DailyMax = 1
  VoltMinSpacing = 2
  VoltDailyMax = 1
  StormLockout = 2
  DiskStale = 1
  PollTimeout = 1
  Endpoints = 2
  LastStart = 4
  MaxTime = 4
  MaxRestarts = 1
  MaxDiskChanges = 1
SPECIFICATION FairSpec
CHECK_DEADLOCK FALSE
PROPERTIES
  DumpHostHadRoom
  EveryCallEnds
