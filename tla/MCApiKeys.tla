------------------------------ MODULE MCApiKeys ------------------------------
EXTENDS ApiKeys, TLC
\* Handlers are interchangeable.
Symmetry == Permutations(Calls) \cup Permutations(Admins)

NoLimit == [type \in Types |-> 0]
Base == [rpm |-> 0, tpm |-> 0, limit |-> NoLimit, rate |-> 0, failing |-> {},
         console |-> {}, cost |-> 0, tokens |-> 0, calls |-> 0, until |-> 2]
Console == [Base EXCEPT !.console = {"update", "secret", "delete"}, !.failing = {"write"}]
Limiter == [Base EXCEPT !.rate = 2, !.failing = {"limiter"}, !.calls = 4, !.until = 3]
Minute2 == [Base EXCEPT !.rpm = 2, !.tpm = 2, !.failing = {"bucket"},
              !.tokens = 2, !.calls = 3]
Spend(limit) == [Base EXCEPT !.limit = limit, !.failing = {"write", "read"},
             !.cost = 1, !.calls = 4]
Long    == [NoLimit EXCEPT !["cumulative"] = 2]
Monthly == [NoLimit EXCEPT !["monthly"] = 1]
All     == {Console, Limiter, Minute2, Spend(Long), Spend(Monthly)}
=============================================================================
