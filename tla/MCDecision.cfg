CONSTANTS
  None = None
  n1 = n1
  n2 = n2
  n3 = n3
  g1 = g1
  g2 = g2
  Name <- MCName
  Gulp <- MCGulp
  Event <- MCEvent
  Batch <- MCBatch
  Cluster <- MCCluster
  CacheTTL = 1
  Lookback = 2
  MatchWindow = 1
  BufferDepth = 1
  FastGap = 1
  FastExpiry = 1
  OccWindow = 2
  MaxTime = 2
  MaxRestarts = 1
  MaxMissed = 1
SPECIFICATION Spec
SYMMETRY Symmetry
CHECK_DEADLOCK FALSE
INVARIANTS
  InjectionNeverDumped
  InjectionTagged
  FunnelAccounts
  RowsJoin
