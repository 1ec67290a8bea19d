SPECIFICATION Spec
CONSTANTS
  Wallets = {1, 2}
  Keys = {k1, k2}
  MaxAmount = 2
  Sessions = {s1, s2}
  Kinds = {"reserve", "topup", "spend", "commit", "settle", "release", "transfer"}
  Varied = {"transfer"}
  Nobody = Nobody
SYMMETRY Symmetry
INVARIANTS NoWaitCycle AcknowledgedAmount
PROPERTY ImplementsWallet
CHECK_DEADLOCK FALSE
