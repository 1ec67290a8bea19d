SPECIFICATION FairSpec
CONSTANTS
  Account = account
  Funds = 4
  Price = 1
  Duration = 4
  Window = 2
  Buyers = {b1, b2}
  Workers = {w1, w2}
  MaxPeriods = 4
  MaxTime = 4
  Settings <- All
INVARIANTS PeriodsArePaidOnce PaymentsBuyOnePeriod
PROPERTY RenewalsRecover
