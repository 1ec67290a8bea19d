------------------------------ MODULE MCGateway ------------------------------
EXTENDS Gateway

Faulty(modes, faults, tokens) == [modes |-> modes, faults |-> faults, allowance |-> tokens]
All == {Faulty({"chat"}, Faults, 0),
        Faulty({"relay", "raw", "stream"}, {"disconnect"}, 0),
        Faulty({"video"}, {"disconnect"}, 0),
        Faulty({"chat", "stream"}, {"ack"}, 3),
        Faulty(Modes, {}, 2)}
=============================================================================
