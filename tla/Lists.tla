-------------------------------- MODULE Lists --------------------------------
(* What the modules about lists share.                                         *)
EXTENDS Naturals, Sequences, SequencesExt

\* The members of T in s, in their order.
Kept(s, T) == FoldLeft(LAMBDA kept, c : IF c \in T THEN Append(kept, c) ELSE kept, <<>>, s)
==============================================================================
