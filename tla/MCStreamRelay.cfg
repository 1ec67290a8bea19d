CONSTANTS
  RelayCalls <- MCRelayCalls
  Chunks <- MCChunks
  MaxMatcherWork = 4
  MaxEvaluationWork = 20
  MaxFindings = 4
  ToolCalls = {"tool0", "tool1"}
  FallbackOutput = 2
  OutputCap = 4
  Int64Limit = 8
  MinHold = 1
  ImageHold = 1
  AudioHold = 2
SPECIFICATION RelaySpec
INVARIANTS
  AnswerArrivesWhole
  MoneyFollowsTheEnd
  GuardrailsHold
  HoldCoversCharge
\* a call ends: a refused, failed, interrupted or finished one does nothing more
CHECK_DEADLOCK FALSE
