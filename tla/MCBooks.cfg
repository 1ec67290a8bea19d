SPECIFICATION BooksSpec
CONSTANTS
  c = c
  d = d
  b = b
  x = x
  v = v
  w = w
  NoCall = NoCall
  Calls = {c, d}
  Bills = {b, x}
  Workers = {v, w}
  Period = 1
  Settings <- MCSettings
INVARIANTS
  FlawsAreReported
  AlarmsAreWarranted
CHECK_DEADLOCK FALSE
