----------------------------- MODULE MCWalletTxn -----------------------------
(* Sessions and keys are interchangeable; wallet ids are ordered.           *)
EXTENDS WalletTxn, TLC

Symmetry == Permutations(Sessions) \cup Permutations(Keys)
=============================================================================
