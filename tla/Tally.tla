------------------------------- MODULE Tally -------------------------------
(***************************************************************************)
(* The column sum of a ledger query, SUM(amount) over a finite set of      *)
(* rows, as the number of units the rows hold: a row whose column is n     *)
(* contributes the units 1 .. n.  Counting units rather than folding keeps *)
(* the sum within reach of the theorems on finite cardinalities.           *)
(***************************************************************************)
EXTENDS Integers, FiniteSets

\* The units of column f, whose entries are at most cap.
Units(f, cap) == { u \in (DOMAIN f) \X (1 .. cap) : u[2] <= f[u[1]] }

\* SELECT COALESCE(SUM(f), 0).
Total(f, cap) == Cardinality(Units(f, cap))

\* The sum of a column without a bound known beforehand: its highest entry is
\* the bound.
Highest(f) ==
  CHOOSE n \in {f[k] : k \in DOMAIN f} \cup {0} : \A k \in DOMAIN f : f[k] <= n
Summed(f) == Total(f, Highest(f))
=============================================================================
