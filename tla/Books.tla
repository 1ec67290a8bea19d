-------------------------------- MODULE Books --------------------------------
(***************************************************************************)
(* The usage books and their reconciliation: Logger.Record writes the      *)
(* usage log of a call, its charge lines and its provider evidence         *)
(* (internal/service/billing/logger.go); bills of the upstream arrive in   *)
(* billing_records (module BillingSync brings them); once per period a     *)
(* leader compares the rows of the last period query by query and writes   *)
(* what disagrees into reconciliation_diffs                                *)
(* (internal/worker/reconciliation/reconciler.go).                         *)
(*                                                                         *)
(* Record begins a transaction and then writes through the pool, so its    *)
(* three inserts commit one by one.  What a call is worth logging is fixed *)
(* in the setting.  The counts that only fill the report (countEvidence,   *)
(* countBillingRecords) are left out; a period is Period ticks.            *)
(***************************************************************************)
EXTENDS Naturals, FiniteSets, Sequences

CONSTANTS
  Calls,      \* calls of the gateway that have a usage log to record
  Bills,      \* bills of the upstream
  NoCall,     \* a bill that is for no call of this gateway
  Workers,    \* worker processes
  Period,     \* ticks of one reconciliation period (one hour)
  Settings    \* [calls, bills, kind, of, amount, workers, runs, until, limit, faults] of a
              \* behaviour; runs bounds the cycles and until the clock

Kinds ==
  [status : {"completed", "failed"},         \* UsageLog.status
   lines : BOOLEAN,                          \* the pricer returned charge lines
   cost : {0, 1},                            \* upstream_cost
   id : {"provider", "request", "none"},     \* column of the upstream's id
   undercharged : BOOLEAN]                   \* error_code = 'undercharged'

ASSUME BooksAssumption ==
  /\ Period \in Nat \ {0} /\ NoCall \notin Calls
  /\ Settings \subseteq [calls : SUBSET Calls, bills : SUBSET Bills, kind : [Calls -> Kinds],
                         of : [Bills -> Calls \cup {NoCall}], amount : [Bills -> {0, 1}],
                         workers : SUBSET Workers, runs : Nat, until : Nat \ {0},
                         limit : Nat \ {0}, faults : Nat]

VARIABLES
  setting,    \* what is recorded and which faults occur, never changed
  now,        \* the clock
  call,       \* call[c]: how far the call and its Record got, and when
  logs,       \* usage_logs: the calls that have a row
  lined,      \* charge_lines: the calls that have rows
  evidenced,  \* provider_evidence: the calls that have a row
  bills,      \* billing_records: start time of each bill, 0 before it is stored
  lease,      \* the Redis key worker:lease:reconciler exists
  run,        \* run[w]: the cycle worker w is in
  runs,       \* reconciliation_runs, by number
  diffs,      \* reconciliation_diffs: <<run, type, usage log or bill>>
  faults,     \* failures this behaviour may still see
  seen        \* history, by run: the books as it began; nothing of it failed so far

bookVars == <<setting, now, call, logs, lined, evidenced, bills, lease, run, runs, diffs,
          faults, seen>>

\* The queries of a cycle in their order; "l2" only fills the report.
Types == <<"missing_charge_lines", "missing_evidence", "usage_mismatch", "error_mislabel", "l2",
           "billing_without_usage", "usage_without_billing", "billing_amount_mismatch",
           "undercharge_review">>

\* Worker w is in no cycle.
Idle == [pc |-> "idle", id |-> 0, at |-> 0, found |-> {}, balanced |-> FALSE]

BooksInit ==
  /\ setting \in Settings /\ now = 1
  /\ call = [c \in Calls |-> [pc |-> "none", served |-> 0, stamp |-> 0]]
  /\ logs = {} /\ lined = {} /\ evidenced = {} /\ bills = [b \in Bills |-> 0]
  /\ lease = FALSE /\ run = [w \in Workers |-> Idle] /\ runs = << >> /\ diffs = {}
  /\ faults = setting.faults /\ seen = << >>

Kind(c) == setting.kind[c]

Fault == faults > 0 /\ faults' = faults - 1

-----------------------------------------------------------------------------
(* Logger.Record. *)

RowsUnchanged == UNCHANGED <<logs, lined, evidenced>>

OthersUnchanged ==
  UNCHANGED <<setting, now, bills, lease, run, runs, diffs, seen>>

\* The upstream serves the call.
Serve(c) ==
  /\ c \in setting.calls /\ call[c].pc = "none"
  /\ call' = [call EXCEPT ![c].pc = "served", ![c].served = now]
  /\ RowsUnchanged /\ OthersUnchanged /\ UNCHANGED faults

\* Record stamps the rows it is about to write.
Record(c) ==
  /\ call[c].pc = "served"
  /\ call' = [call EXCEPT ![c].pc = "log", ![c].stamp = now]
  /\ RowsUnchanged /\ OthersUnchanged /\ UNCHANGED faults

\* Without charge lines insertChargeLines writes nothing.
CreateUsageLog(c) ==
  /\ call[c].pc = "log"
  /\ logs' = logs \cup {c}
  /\ call' = [call EXCEPT ![c].pc = IF Kind(c).lines THEN "lines" ELSE "evidence"]
  /\ OthersUnchanged /\ UNCHANGED <<lined, evidenced, faults>>

\* The lines are one batch, so all or none are inserted.
CreateChargeLines(c) ==
  /\ call[c].pc = "lines"
  /\ lined' = lined \cup {c}
  /\ call' = [call EXCEPT ![c].pc = "evidence"]
  /\ OthersUnchanged /\ UNCHANGED <<logs, evidenced, faults>>

CreateProviderEvidence(c) ==
  /\ call[c].pc = "evidence"
  /\ evidenced' = evidenced \cup {c}
  /\ call' = [call EXCEPT ![c].pc = "done"]
  /\ OthersUnchanged /\ UNCHANGED <<logs, lined, faults>>

\* A statement fails, or the process stops: the rows written so far stay.
BreakRecord(c) ==
  /\ Fault /\ call[c].pc \in {"log", "lines", "evidence"}
  /\ call' = [call EXCEPT ![c].pc = "broken"]
  /\ RowsUnchanged /\ OthersUnchanged

\* A bill is stored, at any time after its call was served, which is when it
\* starts; one for no call of ours starts now.
Arrive(b) ==
  /\ b \in setting.bills /\ bills[b] = 0
  /\ IF setting.of[b] = NoCall THEN bills' = [bills EXCEPT ![b] = now]
     ELSE /\ call[setting.of[b]].pc # "none"
          /\ bills' = [bills EXCEPT ![b] = call[setting.of[b]].served]
  /\ RowsUnchanged
  /\ UNCHANGED <<setting, now, call, lease, run, runs, diffs, faults, seen>>

-----------------------------------------------------------------------------
(* The queries: what each finds in the period of run i. *)

\* The instants [start, end) of a run.
Within(t, i) == runs[i].start <= t /\ t < runs[i].end

Logged(i) == { c \in logs : Within(call[c].stamp, i) }

Completed(i) == { c \in Logged(i) : Kind(c).status = "completed" }

Billed(i) == { b \in Bills : bills[b] # 0 /\ Within(bills[b], i) }

\* The bill carries an id of the call's log: in provider_request_id for a
\* buffered answer, in request_id for a streamed one.
Matches(b, c) == setting.of[b] = c /\ Kind(c).id # "none"

\* Mutant of Orphaned: the logs are joined with their evidence.
Orphaned_WithEvidence(i) == (Completed(i) \cap evidenced) \ lined

Orphaned(i) == Completed(i) \ lined

MissingEvidence(i) == Completed(i) \ evidenced

\* The evidence holds the very usage of the log, and the log of an upstream
\* error is never completed: these two find nothing among Record's rows.
UsageMismatch(i) == {}

StatusCode(c) == IF Kind(c).status = "completed" THEN 200 ELSE 500

ErrorMislabel(i) == { c \in Completed(i) \cap evidenced : StatusCode(c) >= 400 }

BillingWithoutUsage(i) == { b \in Billed(i) : \A c \in Logged(i) : ~Matches(b, c) }

\* Mutant of UsageWithoutBilling: free calls are expected on the bill.
UsageWithoutBilling_FreeToo(i) ==
  { c \in Logged(i) : /\ Kind(c).id = "provider"
                      /\ \A b \in Bills : ~(bills[b] # 0 /\ setting.of[b] = c) }

\* Only logs with a provider_request_id, whenever the bill starts.
UsageWithoutBilling(i) ==
  { c \in Logged(i) : /\ Kind(c).cost > 0 /\ Kind(c).id = "provider"
                      /\ \A b \in Bills : ~(bills[b] # 0 /\ setting.of[b] = c) }

AmountMismatch(i) ==
  { c \in Logged(i) : \E b \in Billed(i) : Matches(b, c) /\ setting.amount[b] # Kind(c).cost }

Undercharged(i) == { c \in Logged(i) : Kind(c).undercharged }

Find(type, i) ==
  CASE type = "missing_charge_lines"    -> Orphaned(i)
    [] type = "missing_evidence"        -> MissingEvidence(i)
    [] type = "usage_mismatch"          -> UsageMismatch(i)
    [] type = "error_mislabel"          -> ErrorMislabel(i)
    [] type = "l2"                      -> {}
    [] type = "billing_without_usage"   -> BillingWithoutUsage(i)
    [] type = "usage_without_billing"   -> UsageWithoutBilling(i)
    [] type = "billing_amount_mismatch" -> AmountMismatch(i)
    [] type = "undercharge_review"      -> Undercharged(i)

\* runL2's verdict: every completed log has its lines and its evidence.
Balanced(i) == Completed(i) \subseteq lined /\ Completed(i) \subseteq evidenced

\* LIMIT: any `limit` of the rows when there are more.
Limited(S) ==
  IF Cardinality(S) <= setting.limit THEN {S}
  ELSE { T \in SUBSET S : Cardinality(T) = setting.limit }

-----------------------------------------------------------------------------
(* A cycle of the reconciler. *)

BooksUnchanged == RowsUnchanged /\ UNCHANGED <<setting, now, call, bills>>

Clean(i, still) == seen' = [seen EXCEPT ![i].clean = @ /\ still]

\* The ticker fires, first after one period; the leader opens a run over the
\* period that ends now.  The lease lasts five minutes and is never given back.
CreateRun(w) ==
  /\ w \in setting.workers /\ run[w].pc = "idle" /\ ~lease
  /\ now > Period /\ Len(runs) < setting.runs
  /\ LET i == Len(runs) + 1
     IN  /\ runs' = Append(runs, [start |-> now - Period, end |-> now, status |-> "running",
                                  count |-> 0, balanced |-> FALSE])
         /\ seen' = Append(seen, [whole |-> { c \in Calls : call[c].pc = "done" },
                                  broken |-> { c \in logs : call[c].pc = "broken" },
                                  logs |-> logs, clean |-> TRUE,
                                  bills |-> { b \in Bills : bills[b] # 0 }])
         /\ run' = [run EXCEPT ![w] = [Idle EXCEPT !.pc = "count", !.id = i]]
  /\ lease' = TRUE
  /\ BooksUnchanged /\ UNCHANGED <<diffs, faults>>

\* The counts of the period; when they fail the run is marked failed.
CountLogs(w) ==
  /\ run[w].pc = "count"
  /\ \/ /\ run' = [run EXCEPT ![w].pc = "query", ![w].at = 1]
        /\ UNCHANGED <<runs, faults>>
     \/ /\ Fault
        /\ run' = [run EXCEPT ![w] = Idle]
        /\ runs' = [runs EXCEPT ![run[w].id].status = "failed"]
  /\ BooksUnchanged /\ UNCHANGED <<lease, diffs, seen>>

\* The next query.  One that fails is logged and counts as no rows; a failed
\* L2 query leaves all counts zero, which the report calls balanced.
Query(w) ==
  /\ run[w].pc = "query"
  /\ LET i == run[w].id
         type == Types[run[w].at]
         result == Find(type, i)
         Go(rows, balanced) ==
           run' = [run EXCEPT ![w].found = @ \cup ({type} \X rows), ![w].at = @ + 1,
                              ![w].balanced = IF type = "l2" THEN balanced ELSE @,
                              ![w].pc = IF run[w].at = 9 THEN "complete" ELSE "query"]
     IN  \/ /\ \E rows \in Limited(result) : Go(rows, Balanced(i)) /\ Clean(i, rows = result)
            /\ UNCHANGED faults
         \/ Fault /\ Go({}, TRUE) /\ Clean(i, FALSE)
  /\ BooksUnchanged /\ UNCHANGED <<lease, runs, diffs>>

\* The run is completed before its differences are written.
CompleteRun(w) ==
  /\ run[w].pc = "complete"
  /\ runs' = [runs EXCEPT ![run[w].id].status = "completed",
                          ![run[w].id].count = Cardinality(run[w].found),
                          ![run[w].id].balanced = run[w].balanced]
  /\ run' = [run EXCEPT ![w].pc = "write"]
  /\ BooksUnchanged /\ UNCHANGED <<lease, diffs, faults, seen>>

Place(type) == CHOOSE n \in 1..9 : Types[n] = type

\* The differences are inserted in the order of the queries; a failure is
\* counted and the loop goes on.
CreateDiff(w) ==
  /\ run[w].pc = "write"
  /\ \E d \in run[w].found :
       /\ \A e \in run[w].found : Place(d[1]) <= Place(e[1])
       /\ run' = [run EXCEPT ![w].found = @ \ {d}]
       /\ \/ diffs' = diffs \cup {<<run[w].id, d[1], d[2]>>} /\ UNCHANGED <<faults, seen>>
          \/ Fault /\ Clean(run[w].id, FALSE) /\ UNCHANGED diffs
  /\ BooksUnchanged /\ UNCHANGED <<lease, runs>>

EndRun(w) ==
  /\ run[w].pc = "write" /\ run[w].found = {}
  /\ run' = [run EXCEPT ![w] = Idle]
  /\ BooksUnchanged /\ UNCHANGED <<lease, runs, diffs, faults, seen>>

\* The process stops, or the statement that completes the run fails.
Crash(w) ==
  /\ Fault /\ run[w].pc # "idle"
  /\ run' = [run EXCEPT ![w] = Idle] /\ Clean(run[w].id, FALSE)
  /\ BooksUnchanged /\ UNCHANGED <<lease, runs, diffs>>

\* Once the runs are used up the lease is of no interest.
LeaseExpires ==
  /\ lease /\ Len(runs) < setting.runs /\ lease' = FALSE
  /\ BooksUnchanged /\ UNCHANGED <<run, runs, diffs, faults, seen>>

Tick ==
  /\ now < setting.until /\ now' = now + 1
  /\ RowsUnchanged
  /\ UNCHANGED <<setting, call, bills, lease, run, runs, diffs, faults, seen>>

BooksNext ==
  \/ \E c \in Calls : \/ Serve(c) \/ Record(c) \/ CreateUsageLog(c) \/ CreateChargeLines(c)
                      \/ CreateProviderEvidence(c) \/ BreakRecord(c)
  \/ \E b \in Bills : Arrive(b)
  \/ \E w \in Workers : \/ CreateRun(w) \/ CountLogs(w) \/ Query(w) \/ CompleteRun(w)
                        \/ CreateDiff(w) \/ EndRun(w) \/ Crash(w)
  \/ LeaseExpires \/ Tick

BooksSpec == BooksInit /\ [][BooksNext]_bookVars

-----------------------------------------------------------------------------
(* Properties. *)

\* Run i went to its end and nothing of it failed or was cut off.
Thorough(i) ==
  /\ runs[i].status = "completed" /\ seen[i].clean
  /\ \A w \in Workers : run[w].id # i

\* What run i owes the operator, by what had happened when it began and was
\* never put right: Records that broke off half-way or had no lines to write,
\* calls that cost less than they should, bills of calls that never reached
\* the books or reached them with another amount, calls that are on no bill.
Owed(i) ==
  LET was == seen[i]
      inside == { c \in was.logs : Within(call[c].stamp, i) }
      completed == { c \in inside : Kind(c).status = "completed" }
      billed == { b \in was.bills : Within(bills[b], i) }
      unpaid == { c \in inside : \A b \in Bills : setting.of[b] = c => bills[b] = 0 }
  IN  ({"missing_charge_lines"} \X (completed \ lined))
      \cup ({"missing_evidence"} \X ((completed \cap was.broken) \ evidenced))
      \cup ({"undercharge_review"} \X { c \in inside : Kind(c).undercharged })
      \cup ({"billing_without_usage"} \X { b \in billed : \A c \in logs : ~Matches(b, c) })
      \cup ({"usage_without_billing"} \X
             { c \in unpaid : Kind(c).cost > 0 /\ Kind(c).id = "provider" })
      \cup ({"billing_amount_mismatch"} \X
             { c \in inside : \E b \in billed :
                 Matches(b, c) /\ setting.amount[b] # Kind(c).cost })

\* However Records, arriving bills, crashes and other runs fall between its
\* queries, a run that met no error and no limit reports every flaw of its
\* period that was there when it began and still is, and calls its period
\* balanced only without half-written calls (reconciler.go:41).
FlawsAreReported ==
  \A i \in DOMAIN runs : Thorough(i) =>
    /\ \A d \in Owed(i) : <<i, d[1], d[2]>> \in diffs
    /\ runs[i].balanced =>
         \A d \in Owed(i) : d[1] \notin {"missing_charge_lines", "missing_evidence"}

\* A difference never accuses a call that was whole, and rightly billed, when
\* the run began, nor a bill of such a call that was served and logged inside
\* one period, with one exception: a call that has no charge lines to write (a
\* cache hit, an unpriced call) is accused of missing them however whole it is.
\* Apart from those, a Record or a bill on its way is the only false alarm
\* (reconciler.go:246, :281, :543, :567).
AlarmsAreWarranted ==
  \A d \in diffs :
    LET was == seen[d[1]]
        accused == d[3]
        Is(type) == d[2] = type
    IN  /\ Is("missing_charge_lines") /\ accused \in was.whole => ~Kind(accused).lines
        /\ Is("missing_evidence") => accused \notin was.whole
        /\ Is("usage_without_billing") =>
             Kind(accused).cost > 0 /\ \A b \in was.bills : setting.of[b] # accused
        /\ Is("billing_without_usage") =>
             \A c \in was.logs : Matches(accused, c) => ~Within(call[c].stamp, d[1])
        /\ Is("billing_amount_mismatch") =>
             \E b \in Bills : setting.of[b] = accused /\ setting.amount[b] # Kind(accused).cost
        /\ Is("undercharge_review") => Kind(accused).undercharged
        /\ ~Is("usage_mismatch") /\ ~Is("error_mislabel")
=============================================================================
