SPECIFICATION FairSpec
CONSTANTS
  Requests = {1, 2, 3}
  Channels = {1, 2, 3}
  Instances = {1, 2}
  Workers = {w1, w2}
  Nobody = Nobody
  Settings <- All
INVARIANTS FailoverFollowsTiers LoadCoversCalls
PROPERTY FaultsWearOff
CHECK_DEADLOCK FALSE
