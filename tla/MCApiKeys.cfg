SPECIFICATION KSpec
CONSTANTS
  Calls = {c1, c2}
  Admins = {a1, a2}
  Secrets = {1, 2, 3}
  Window = 2
  MinuteLength = 1
  DayLength = 2
  WeekDays = 2
  MonthDays = 1
  Horizon = 3
  Configs <- All
SYMMETRY Symmetry
INVARIANTS SecretOpensTheKey WindowBound BucketsHold OvershootIsBounded
CHECK_DEADLOCK FALSE
