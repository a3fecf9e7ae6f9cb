CONSTANTS
  here = here
  there = there
  NStreams = 2
  Local <- MCLocal
  Hosts <- MCHosts
  Window = 1
  Lag = 0
  Lead = 1
  Lookback = 1
  Full = 1
  Grace = 0
  Poll = 1
  MaxTime = 5
SPECIFICATION FairSpec
CHECK_DEADLOCK FALSE
INVARIANTS
  GatheredIsTheDump
  ClientTells
PROPERTIES
  GatherEnds
