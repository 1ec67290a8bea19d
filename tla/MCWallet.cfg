SPECIFICATION CSpec
CONSTANTS
  Wallets = {w1, w2}
  Keys = {k1, k2, k3}
  MaxAmount = 2
  Handlers = {h1, h2, h3}
  Sizes = {3, 4}
  Nobody = Nobody
SYMMETRY Symmetry
INVARIANTS LedgerExplainsColumns MeteredNeverNegative CreditsAreEarned SomeCallMoves
PROPERTY FinalRowsNeverChange
CHECK_DEADLOCK FALSE
