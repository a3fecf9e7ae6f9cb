CONSTANTS
  None = None
  Configs <- MCConfigs
  MaxShots = 2
  MaxDays = 2
  MaxFaults = 2
  MaxCrashes = 1
SPECIFICATION FairSpec
CHECK_DEADLOCK FALSE
INVARIANTS
  OneCardPerShot
  LedgerMatchesChannel
  DailyOnce
PROPERTIES
  OutcomeReachesChannel
