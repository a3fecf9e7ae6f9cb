CONSTANTS
  g1 = g1
  g2 = g2
  gbad = gbad
  j1 = j1
  j2 = j2
  Key <- MCKey
  Job <- MCJob
  Batch <- MCBatch
  BadStart <- MCBad
  CoalesceJobs = 2
  CoalesceS = 1
  CoalesceMaxS = 3
  MaxCands = 1
  StormSkip = FALSE
  FlushedCap = 1
  FlushedKeep = 1
  LoopLag = 1
  LastArrival = 2
  MaxTime = 5
  MaxRestarts = 1
SPECIFICATION FairSpec
CHECK_DEADLOCK FALSE
INVARIANTS
  TypeOK
  EveryBatchHasOneFate
  RowsAccountForBatches
  ObservedWhole
  HoldBounded
  TimelyGulpKept
PROPERTIES
  EveryBatchDecided
  GulpsDecidedWhole
