CONSTANTS
  Orders = {o1}
  Account = account
  MaxAmount = 2
  Handlers = {h1, h2}
  MaxActivations = 2
SPECIFICATION FairSpec
INVARIANTS
  PaidMeansCredited
  NoMoneyFromNothing
  AcknowledgedMeansSettled
PROPERTY PaymentsAreDelivered
