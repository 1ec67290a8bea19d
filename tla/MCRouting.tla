----------------------------- MODULE MCRouting -----------------------------
EXTENDS Routing, TLC

Plain == [tier |-> 0, weight |-> 1, score |-> 1, sticky |-> FALSE,
          quality |-> FALSE, dedicated |-> FALSE, group |-> TRUE, of |-> {1}]

\* One channel, two with an instance each, and three of every kind in two tiers.
One   == 1 :> Plain
Pair  == 1 :> Plain @@ 2 :> [Plain EXCEPT !.of = {2}]
Kinds == {Plain, [Plain EXCEPT !.tier = 1], [Plain EXCEPT !.sticky = TRUE],
          [Plain EXCEPT !.quality = TRUE, !.dedicated = TRUE],
          [Plain EXCEPT !.tier = 1, !.weight = 2, !.score = 2, !.of = {2}],
          [Plain EXCEPT !.group = FALSE, !.of = {1, 2}]}

\* The first instance takes one call at a time.
Quiet == [faults |-> {}, modes |-> Modes, hashes |-> {0}, requests |-> {},
          workers |-> {}, again |-> FALSE, config |-> Pair,
          limit |-> [i \in Instances |-> IF i = 1 THEN 1 ELSE 0]]

\* Calls that keep coming, or three of them, and crashes; every fault; every configuration of three
\* channels; and the health checker.
All == {[Quiet EXCEPT !.faults = {"crash"}, !.requests = {1, 2}, !.modes = {"chat"},
                      !.again = TRUE],
        [Quiet EXCEPT !.faults = {"crash"}, !.requests = Requests, !.modes = {"chat"}],
        [Quiet EXCEPT !.faults = {"crash", "redis"},
                      !.requests = {1, 2}, !.modes = {"chat", "stream"}],
        [Quiet EXCEPT !.faults = {"outage", "db"}, !.workers = Workers],
        [Quiet EXCEPT !.faults = {"outage", "slow"}, !.workers = Workers,
                      !.config = One]}
       \cup {[Quiet EXCEPT !.config = f, !.requests = {1}, !.hashes = {0, 1, 2}] :
               f \in [Channels -> Kinds]}
       \cup {[Quiet EXCEPT !.config = f, !.requests = {1, 2}, !.modes = {"json"}] :
               f \in [Channels -> {k \in Kinds : k.of = {1} /\ k.group}]}
=============================================================================
