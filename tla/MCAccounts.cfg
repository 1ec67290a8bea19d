SPECIFICATION TSpec
CONSTANTS
  Users = {admin, wei}
  Admin = admin
  Synthetic = {wei}
  Tokens = {t1, t2}
  Handlers = {h1, h2}
  Life = 2
  Buffer = 1
  MaxTime = 2
  Statuses = {"active", "deleted"}
  Nobody = Nobody
  Codes = {acme, platform}
  Platform = platform
SYMMETRY Symmetry
INVARIANTS OneWalletEach RevokedStaysOut TenantsAreOwned
CHECK_DEADLOCK FALSE
