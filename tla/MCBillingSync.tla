---------------------------- MODULE MCBillingSync ----------------------------
(* Three bills, two of one instant, over three instants; a range of two       *)
(* billing cycles or windows, pages of one bill; two processes that overlap,  *)
(* or one that meets faults; bills listed at their start or an instant later. *)
EXTENDS BillingSync, TLC
CONSTANTS a, b, c, v, w
MCAt == a :> 1 @@ b :> 2 @@ c :> 2
MCRank == a :> 2 @@ b :> 3 @@ c :> 1
Under(k, i, ws, f, d) == [kind |-> k, interval |-> i, workers |-> ws, faults |-> f, delay |-> d]
MCProfiles ==
  { Under(k, 1, {v, w}, 1, 0) : k \in {"aliyun", "newapi"} }
  \cup { Under(k, 0, {v}, 2, 0) : k \in {"aliyun", "newapi", "oneapi"} }
  \cup { Under(k, 0, {v}, 1, 1) : k \in {"aliyun", "newapi", "oneapi"} }
  \cup { Under("aliyun", 1, {v, w}, 0, 1) }
=============================================================================
