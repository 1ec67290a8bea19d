------------------------------- MODULE MCBooks -------------------------------
(* Two calls and two bills over two or three instants, periods of one: what   *)
(* the gateway logs for buffered, streamed, cached, free, failed and          *)
(* undercharged calls.                                                        *)
EXTENDS Books, TLC
CONSTANTS c, d, b, x, v, w
Call(status, lines, cost, id, undercharged) ==
  [status |-> status, lines |-> lines, cost |-> cost, id |-> id, undercharged |-> undercharged]
Buffered == Call("completed", TRUE, 1, "provider", FALSE)
Streamed == Call("completed", TRUE, 1, "request", FALSE)
Shortfall == Call("completed", TRUE, 1, "provider", TRUE)
Cached   == Call("completed", FALSE, 0, "none", FALSE)
Free     == Call("completed", TRUE, 0, "provider", FALSE)
Refused  == Call("failed", FALSE, 0, "provider", FALSE)
Under(k, l, bs, amount, limit) ==
  [calls |-> {c, d}, kind |-> c :> k @@ d :> l, bills |-> bs, of |-> b :> c @@ x :> NoCall,
   amount |-> b :> amount @@ x :> 1, workers |-> {w}, runs |-> 1, until |-> 2,
   limit |-> limit, faults |-> 1]
\* Two processes whose runs over one call overlap.
Overlapping ==
  [Under(Streamed, Cached, {b}, 0, 2)
     EXCEPT !.calls = {c}, !.workers = {v, w}, !.runs = 2, !.until = 3, !.faults = 0]
MCSettings ==
  { Under(Buffered, Shortfall, {b}, 0, 2), Under(Streamed, Refused, {b}, 0, 2),
    Under(Buffered, Cached, {x}, 1, 2), Under(Buffered, Free, {}, 1, 1), Overlapping }
=============================================================================
