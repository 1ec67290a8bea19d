CONSTANTS
  h1 = h1
  h2 = h2
  c1 = c1
  c2 = c2
  k1 = k1
  k2 = k2
  Models = {chat}
  Placeholder = chat
  Cacheable = {chat}
  Channels = {c1, c2}
  Urls = {u1}
  Keys = {k1, k2}
  Routines = {h1, h2}
  Faults = TRUE
  MaxInstances = 2
  Nil = Nil
SPECIFICATION CatalogSpec
SYMMETRY Symmetry
INVARIANTS NoUnroutableModels PurgeLeavesNoOldResponse
