----------------------------- MODULE MCAccounts -----------------------------
EXTENDS Tenants, TLC
\* Tokens and handlers are interchangeable.
Symmetry == Permutations(Tokens) \cup Permutations(Handlers)
=============================================================================
