----------------------------- MODULE MCCatalog -----------------------------
EXTENDS Catalog, TLC
CONSTANTS h1, h2, c1, c2, k1, k2
Symmetry == Permutations({h1, h2}) \cup Permutations({c1, c2}) \cup Permutations({k1, k2})
=============================================================================
