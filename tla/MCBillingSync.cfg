SPECIFICATION SFairSpec
CONSTANTS
  a = a
  b = b
  c = c
  v = v
  w = w
  Records = {a, b, c}
  At <- MCAt
  Rank <- MCRank
  SyncWorkers = {v, w}
  SyncTime = 3
  Lookback = 1
  PageSize = 1
  Span = 1
  Profiles <- MCProfiles
INVARIANTS
  NoGap
PROPERTY
  CatchesUp
CHECK_DEADLOCK FALSE
