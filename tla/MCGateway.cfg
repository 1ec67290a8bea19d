SPECIFICATION FairSpec
CONSTANTS
  Requests = {1, 2}
  Ids = {1, 2}
  Account = account
  Candidates = 2
  MaxAmount = 2
  Settings <- All
INVARIANTS UpstreamIsHeld AnomaliesHaveEvidence ReportsMatchLedger AllowanceIsSpentOnce
PROPERTY HoldsAreResolved
CHECK_DEADLOCK FALSE
