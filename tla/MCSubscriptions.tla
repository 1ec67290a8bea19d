--------------------------- MODULE MCSubscriptions ---------------------------
EXTENDS Subscriptions

\* Renewals with every fault, and purchases beside renewals when nothing fails.
All == {[faults |-> Faults, funds |-> 2, buyers |-> {}, wishes |-> {TRUE}, time |-> 3],
        [faults |-> {}, funds |-> 3, buyers |-> Buyers, wishes |-> {FALSE}, time |-> 4]}
=============================================================================
