------------------------------ MODULE MCWallet ------------------------------
(* Two wallets, three keys, amounts up to two units, three handlers, and as *)
(* many connections as handlers or one more.                                *)
EXTENDS Credits, TLC

\* Wallets, keys and handlers are interchangeable in every action and property.
Symmetry == Permutations(Wallets) \cup Permutations(Keys) \cup Permutations(Handlers)
=============================================================================
