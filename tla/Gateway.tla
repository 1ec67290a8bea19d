------------------------------- MODULE Gateway -------------------------------
(***************************************************************************)
(* The hold lifecycle of the gateway's metered endpoints                   *)
(* (internal/handler/gateway): reserve a hold before the upstream call,    *)
(* release it when the call fails, settle it when the call succeeds, fall  *)
(* back when the settlement is rejected, and report what was charged in    *)
(* the usage log.                                                          *)
(*                                                                         *)
(* All requests are of one caller, so they share one wallet; requests      *)
(* with the same X-Request-ID are retries of one call.  The handlers:      *)
(*   "chat"      non-streaming chat: fails over across candidate channels  *)
(*   "relay"     the Claude and Responses relays: one candidate            *)
(*   "stream"    streaming chat and relays: one candidate                  *)
(*   "endpoint"  forwarded JSON and multipart endpoints: fail over         *)
(*   "raw"       audio/speech: fails over, bills its own estimate          *)
(*   "video"     video generation: fails over, may become a job whose hold *)
(*               stays open until the job is cancelled                     *)
(* A wallet operation is one step (module Wallet).  The log goroutine that *)
(* writes the usage log belongs to the step that ends the request.         *)
(***************************************************************************)
EXTENDS Integers, Tally

CONSTANTS Requests,    \* handler goroutines, numbered as they arrive
          Ids,         \* values of X-Request-ID, numbered as they are used
          Account,     \* the caller's wallet
          Candidates,  \* bound: candidate channels of a chat request (code: 3)
          MaxAmount,   \* bound: the largest amount of money in one operation
          Settings     \* bound: the handlers, faults and allowance in play

\* "disconnect": the client goes away and its request context is cancelled.
\* "db":         a database call fails and has no effect.
\* "ack":        a database call takes effect but is reported as failed.
\* "usage":      the upstream may fail a chat call and still report usage.
Faults  == {"disconnect", "db", "ack", "usage"}
Modes   == {"chat", "relay", "stream", "endpoint", "raw", "video"}
Setting == [modes : SUBSET Modes, faults : SUBSET Faults, allowance : Nat]

\* 0 is the id of no request and of the top-up's key.
ASSUME RequestsAssumption == Requests \subseteq Nat /\ Ids \subseteq Nat \ {0}
ASSUME CandidatesAssumption == Candidates \in Nat \ {0}
ASSUME SettingsAssumption == Settings \subseteq Setting
\* The sums of the reports are over requests that have arrived, finitely many.
ASSUME SumsAssumption == IsFiniteSet(Requests) /\ MaxAmount \in Nat

VARIABLES setting,   \* the setting of this behaviour
          balance, frozen, ledger,   \* the wallet, see module Wallet
          allowance, \* free tokens left in the subscription of the caller
          term,      \* "running", or "over" until its next use starts another
          waived,    \* history: tokens of this period that were not charged for
          hold,      \* X-Request-ID -> its maximum charge; a retry has the
                     \* body, hence the hold, of the first request
          req,       \* what a request was called with
          at,        \* where its handler stands
          slot,      \* which of its wallet keys it uses
          final,     \* the final cost of its upstream call
          gone,      \* its context is cancelled
          detached,  \* its wallet calls use a context of their own
          class,     \* how its settlement was rejected
          report     \* what its usage log says was charged, and error_code

wallet  == <<balance, frozen, ledger>>
quota   == <<allowance, term, waived>>
given   == <<setting, hold>>
vars    == <<given, wallet, quota, req, at, slot, final, gone, detached, class,
             report>>

\* The wallet keys of one X-Request-ID: candidate 0 uses the id itself,
\* candidate i its "-a<i>" suffix, and the last one stands for "-usage".
UsageSlot == Candidates
Slots     == 0 .. Candidates
TopUpKey  == <<0, 0>>
Keys      == {TopUpKey} \cup (Ids \X Slots)

Bank == INSTANCE Wallet WITH Wallets <- {Account}

Amounts == 1 .. MaxAmount

Key(r) == <<req[r].id, slot[r]>>

\* The hold a settlement of r falls back to: the re-reserved hold of a failed
\* call with usage is its final cost.
ReservedHold(r) == IF slot[r] = UsageSlot THEN final[r] ELSE hold[req[r].id]

NoReport   == [charged |-> 0, code |-> "none"]
NoRequest  == [id |-> 0, mode |-> "none", tries |-> 0, available |-> 0]
\* The account was topped up before; every key of the requests is fresh.
Init ==
  \E funds \in Amounts :
    /\ setting \in Settings
    /\ allowance = setting.allowance /\ term = "running" /\ waived = 0
    /\ balance = [w \in {Account} |-> funds]
    /\ frozen = [w \in {Account} |-> 0]
    /\ ledger = [w \in {Account} |-> [k \in Keys |->
         IF k = TopUpKey THEN [type |-> "topup", amount |-> funds]
                         ELSE Bank!NoRow]]
    /\ hold \in [Ids -> Amounts]
    /\ req = [r \in Requests |-> NoRequest]
    /\ at = [r \in Requests |-> "idle"]
    /\ slot = [r \in Requests |-> 0]
    /\ final = [r \in Requests |-> 0]
    /\ gone = [r \in Requests |-> FALSE]
    /\ detached = [r \in Requests |-> FALSE]
    /\ class = [r \in Requests |-> "none"]
    /\ report = [r \in Requests |-> NoReport]

-----------------------------------------------------------------------------
(* Steps of a handler.                                                     *)

MayHappen(fault) == fault \in setting.faults

\* A wallet call needs a live context, and the database.
Reaches(r) == detached[r] \/ ~gone[r]
MayFail(r) == ~Reaches(r) \/ MayHappen("db")

Goto(r, label) == at' = [at EXCEPT ![r] = label]

Finish(r, charged, code) ==
  /\ Goto(r, "done")
  /\ report' = [report EXCEPT ![r] = [charged |-> charged, code |-> code]]

\* The next request to arrive is the one with the smallest number, and so is
\* the next new id.
Arriving(r) == at[r] = "idle" /\ \A q \in Requests : q < r => at[q] # "idle"
Usable(id)  == \A i \in Ids : i < id => \E r \in Requests : req[r].id = i

\* The body or the key is refused, a guardrail blocks it, no channel serves the
\* model, or the response is cached: nothing is reserved.
Refuse(r) ==
  /\ Arriving(r)
  /\ Finish(r, 0, "blocked")
  /\ UNCHANGED <<given, wallet, quota, req, slot, final, gone, detached, class>>

\* FindByUser takes the snapshot that CanReserve is asked about before every
\* attempt; the request ends when there is not enough, the read fails or the
\* hold cannot be priced.  Up to the given number of candidates will be tried.
Gated(r, mode, tries) ==
  /\ mode \in setting.modes
  /\ \E id \in Ids :
       LET available == Bank!Available(Account) IN
       /\ Usable(id)
       /\ req' = [req EXCEPT ![r] = [id |-> id, mode |-> mode, tries |-> tries,
                                    available |-> available]]
       /\ IF available >= hold[id] THEN Goto(r, "reserve") /\ UNCHANGED report
                                   ELSE Finish(r, 0, "blocked")

ChatArrives(r)     == Gated(r, "chat", Candidates)
RelayArrives(r)    == Gated(r, "relay", 1)
StreamArrives(r)   == Gated(r, "stream", 1)
EndpointArrives(r) == Gated(r, "endpoint", Candidates)
RawArrives(r)      == Gated(r, "raw", Candidates)
VideoArrives(r)    == Gated(r, "video", Candidates)

Arrive(r) ==
  /\ Arriving(r)
  /\ \/ ChatArrives(r) \/ RelayArrives(r) \/ StreamArrives(r)
     \/ EndpointArrives(r) \/ RawArrives(r) \/ VideoArrives(r)
  /\ UNCHANGED <<given, wallet, quota, slot, final, gone, detached, class>>

\* Mutant of Reserve: a failed reservation does not stop the attempt.
Reserve_ErrorIgnored(r) ==
  /\ at[r] = "reserve"
  /\ \/ /\ Reaches(r)
        /\ Bank!Reserve(Account, Key(r), hold[req[r].id])
     \/ UNCHANGED wallet
  /\ Goto(r, "upstream")
  /\ UNCHANGED <<given, quota, req, slot, final, gone, detached, class, report>>

\* Charger.Reserve of an attempt.  A key already used returns its row, whatever
\* became of it.
Reserve(r) ==
  LET k == Key(r)  a == hold[req[r].id] IN
  /\ at[r] = "reserve"
  /\ \/ /\ Reaches(r)
        /\ Bank!Reserve(Account, k, a)
        /\ \/ Goto(r, "upstream") /\ UNCHANGED report
           \/ MayHappen("ack") /\ Finish(r, 0, "blocked")
     \/ /\ Reaches(r)
        /\ ~Bank!Fresh(Account, k)
        /\ Goto(r, "upstream")
        /\ UNCHANGED <<wallet, report>>
     \/ /\ MayFail(r) \/ (Bank!Fresh(Account, k) /\ Bank!Available(Account) < a)
        /\ Finish(r, 0, "blocked")
        /\ UNCHANGED wallet
  /\ UNCHANGED <<given, quota, req, slot, final, gone, detached, class>>

\* RemainingQuota: the allowance is whole again once its period is over.
Remaining == IF term = "over" THEN setting.allowance ELSE allowance

\* applySubscriptionAllowance asks for it under the request's context.
\* Bound: as many tokens as units of money.
Covered(r, cost) ==
  /\ req[r].mode \in {"chat", "relay", "stream"}
  /\ cost > 0 /\ ~gone[r] /\ Remaining >= cost

\* The upstream answers.  The cost is computed from its usage, the estimate or
\* the hold (pricing incomplete); own says whether the settlement has a context
\* of its own.
Answered(r, costs, own) ==
  /\ \E cost \in costs :
       /\ final' = [final EXCEPT ![r] = cost]
       /\ \/ Covered(r, cost) /\ Goto(r, "consume")
          \/ (~Covered(r, cost) \/ MayHappen("db")) /\ Goto(r, "settle")
  /\ detached' = [detached EXCEPT ![r] = own]

IsFor(r, mode) == req[r].mode = mode
AnyCost == 0 .. MaxAmount

ChatAnswered(r)     == IsFor(r, "chat") /\ Answered(r, AnyCost, FALSE)
RelayAnswered(r)    == IsFor(r, "relay") /\ Answered(r, AnyCost, FALSE)
EndpointAnswered(r) == IsFor(r, "endpoint") /\ Answered(r, AnyCost, FALSE)
VideoAnswered(r)    == IsFor(r, "video") /\ Answered(r, AnyCost, FALSE)

\* A stream that ends cleanly settles although its client may have left.
StreamAnswered(r) == IsFor(r, "stream") /\ Answered(r, AnyCost, TRUE)

\* Speech is billed the estimate its hold was computed from, or nothing when it
\* cannot be priced any more.
RawAnswered(r) == IsFor(r, "raw") /\ Answered(r, 0 .. hold[req[r].id], FALSE)

UpstreamOK(r) ==
  /\ at[r] = "upstream"
  /\ \/ ChatAnswered(r) \/ RelayAnswered(r) \/ StreamAnswered(r)
     \/ EndpointAnswered(r) \/ RawAnswered(r) \/ VideoAnswered(r)
  /\ UNCHANGED <<given, wallet, quota, req, slot, gone, class, report>>

\* Mutant of Consume: the UPDATE does not compare with the quota.
Consume_Unchecked(r) ==
  /\ at[r] = "consume"
  /\ allowance' = Remaining - final[r] /\ term' = "running" /\ waived' = waived + final[r]
  /\ final' = [final EXCEPT ![r] = 0]
  /\ Goto(r, "settle")
  /\ UNCHANGED <<given, wallet, req, slot, gone, detached, class, report>>

\* ConsumeQuota: one UPDATE that starts the next period when one is over and
\* compares with the quota again.  Any error bills normally.
Consume(r) ==
  /\ at[r] = "consume"
  /\ \/ /\ ~gone[r] /\ Remaining >= final[r]
        /\ allowance' = Remaining - final[r] /\ term' = "running"
        /\ \/ waived' = waived + final[r] /\ final' = [final EXCEPT ![r] = 0]
           \/ MayHappen("ack") /\ UNCHANGED <<waived, final>>
     \/ /\ gone[r] \/ Remaining < final[r] \/ MayHappen("db")
        /\ UNCHANGED <<quota, final>>
  /\ Goto(r, "settle")
  /\ UNCHANGED <<given, wallet, req, slot, gone, detached, class, report>>

\* Failover loops release every failed attempt, with a context of their own when
\* they see that the request's is cancelled.
LoopFails(r, mode) == IsFor(r, mode) /\ detached' = [detached EXCEPT ![r] = gone[r]]

ChatFails(r)     == LoopFails(r, "chat")
EndpointFails(r) == LoopFails(r, "endpoint")
RawFails(r)      == LoopFails(r, "raw")
VideoFails(r)    == LoopFails(r, "video")

RelayFails(r) == IsFor(r, "relay") /\ UNCHANGED detached

\* A stream that was interrupted has a context of its own, one that never
\* started has not.
StreamFails(r) == /\ IsFor(r, "stream")
                  /\ \E own \in BOOLEAN : detached' = [detached EXCEPT ![r] = own]

\* The call fails, always when its context is cancelled.
UpstreamFails(r) ==
  /\ at[r] = "upstream"
  /\ \/ ChatFails(r) \/ RelayFails(r) \/ StreamFails(r)
     \/ EndpointFails(r) \/ RawFails(r) \/ VideoFails(r)
  /\ Goto(r, "release")
  /\ UNCHANGED <<given, wallet, quota, req, slot, final, gone, class, report>>

\* Charger.Release; its error is only logged.
ReleaseCall(r) ==
  \/ Reaches(r) /\ Bank!Release(Account, Key(r))
  \/ /\ MayFail(r) \/ ~Bank!Held(Account, Key(r))
     /\ UNCHANGED wallet

\* The next candidate is tried under a key of its own.
NextCandidate(r) ==
  /\ slot[r] + 1 < req[r].tries
  /\ slot' = [slot EXCEPT ![r] = @ + 1]
  /\ Goto(r, "reserve")
  /\ UNCHANGED <<final, report>>

\* The usage the failed call of a chat reported is billed.
BillUsage(r) ==
  /\ IsFor(r, "chat") /\ MayHappen("usage")
  /\ slot' = [slot EXCEPT ![r] = UsageSlot]
  /\ \E cost \in Amounts : final' = [final EXCEPT ![r] = cost]
  /\ Goto(r, "usage")
  /\ UNCHANGED report

\* The failed request is logged at no cost; relays and video leave no log.
CallGivesUp(r)   == req[r].mode \in {"chat", "endpoint", "raw"} /\ Finish(r, 0, "failed")
StreamGivesUp(r) == IsFor(r, "stream") /\ Finish(r, 0, "failed")
RelayGivesUp(r)  == IsFor(r, "relay") /\ Finish(r, 0, "unlogged")
VideoGivesUp(r)  == IsFor(r, "video") /\ Finish(r, 0, "unlogged")

GiveUp(r) == /\ CallGivesUp(r) \/ StreamGivesUp(r) \/ RelayGivesUp(r) \/ VideoGivesUp(r)
             /\ UNCHANGED <<slot, final>>

Release(r) ==
  /\ at[r] = "release"
  /\ ReleaseCall(r)
  /\ detached' = [detached EXCEPT ![r] = FALSE]
  /\ NextCandidate(r) \/ BillUsage(r) \/ GiveUp(r)
  /\ UNCHANGED <<given, quota, req, gone, class>>

\* A failed call that consumed tokens: reserve its cost again and settle it.
ReserveUsage(r) ==
  LET k == Key(r) IN
  /\ at[r] = "usage"
  /\ \/ /\ Reaches(r)
        /\ Bank!Reserve(Account, k, final[r])
        /\ \/ Goto(r, "settle") /\ UNCHANGED report
           \/ MayHappen("ack") /\ Finish(r, 0, "undercharged")
     \/ /\ Reaches(r)
        /\ ~Bank!Fresh(Account, k)
        /\ Goto(r, "settle")
        /\ UNCHANGED <<wallet, report>>
     \/ /\ \/ MayFail(r)
           \/ Bank!Fresh(Account, k) /\ Bank!Available(Account) < final[r]
        /\ Finish(r, 0, "undercharged")
        /\ UNCHANGED wallet
  /\ UNCHANGED <<given, quota, req, slot, final, gone, detached, class>>

\* settleOrFallback, the first call: Charger.Settle and classifySettleFailure.
Fallback(r, c) ==
  /\ Goto(r, "commit")
  /\ class' = [class EXCEPT ![r] = c]
  /\ UNCHANGED report

\* Mutant of Settle: every rejection is taken for a replay.
Settle_NoFallback(r) ==
  /\ at[r] = "settle"
  /\ \/ /\ Reaches(r)
        /\ Bank!Settle(Account, Key(r), final[r])
        /\ Finish(r, final[r], "")
     \/ /\ MayFail(r) \/ ~Bank!Held(Account, Key(r))
        /\ Finish(r, 0, "")
        /\ UNCHANGED wallet
  /\ UNCHANGED <<given, quota, req, slot, final, gone, detached, class>>

Settle(r) ==
  LET k == Key(r)  reserved == ledger[Account][k].amount IN
  /\ at[r] = "settle"
  /\ \/ /\ Reaches(r)
        /\ Bank!Settle(Account, k, final[r])
        /\ \/ Finish(r, final[r], "") /\ UNCHANGED class
           \/ MayHappen("ack") /\ Fallback(r, "settle_error")
     \/ /\ Reaches(r)
        /\ Bank!Held(Account, k)
        /\ final[r] > reserved
        /\ Bank!Available(Account) < final[r] - reserved
        /\ Fallback(r, "undercharged")
        /\ UNCHANGED wallet
     \/ /\ Reaches(r)
        /\ ~Bank!Held(Account, k)
        /\ Finish(r, 0, "")
        /\ UNCHANGED <<wallet, class>>
     \/ /\ MayFail(r)
        /\ Fallback(r, "settle_error")
        /\ UNCHANGED wallet
  /\ UNCHANGED <<given, quota, req, slot, final, gone, detached>>

FallbackCode(r) ==
  IF class[r] = "undercharged" \/ final[r] > ReservedHold(r)
  THEN "undercharged" ELSE "settle_error"

\* Mutant of Commit: the fallback reports the cost and commits nothing.
Commit_OnlyReports(r) ==
  /\ at[r] = "commit"
  /\ Finish(r, final[r], FallbackCode(r))
  /\ UNCHANGED <<given, wallet, quota, req, slot, final, gone, detached, class>>

\* settleOrFallback, the second call: commit the hold.  Only ErrTxNotReserved
\* changes what is reported; any other error of Commit is logged and ignored.
Commit(r) ==
  LET k == Key(r) IN
  /\ at[r] = "commit"
  /\ \/ /\ Reaches(r)
        /\ Bank!Commit(Account, k)
        /\ Finish(r, ReservedHold(r), FallbackCode(r))
     \/ /\ Reaches(r)
        /\ ~Bank!Held(Account, k)
        /\ Finish(r, 0, "")
        /\ UNCHANGED wallet
     \/ /\ MayFail(r)
        /\ Finish(r, ReservedHold(r), FallbackCode(r))
        /\ UNCHANGED wallet
  /\ UNCHANGED <<given, quota, req, slot, final, gone, detached, class>>

-----------------------------------------------------------------------------
(* Video jobs.                                                             *)

\* The upstream answers with a task, or with nothing the handler understands.
VideoAccepted(r) ==
  /\ at[r] = "upstream" /\ req[r].mode = "video"
  /\ \/ Goto(r, "record") /\ UNCHANGED detached
     \/ Goto(r, "discard") /\ detached' = [detached EXCEPT ![r] = gone[r]]
  /\ UNCHANGED <<given, wallet, quota, req, slot, final, gone, class, report>>

\* Mutant of Discard: the hold of an answer without a task stays.
Discard_KeepsHold(r) ==
  /\ at[r] = "discard"
  /\ Finish(r, 0, "unlogged")
  /\ UNCHANGED <<given, wallet, quota, req, slot, final, gone, detached, class>>

Discard(r) ==
  /\ at[r] = "discard"
  /\ ReleaseCall(r)
  /\ Finish(r, 0, "unlogged")
  /\ UNCHANGED <<given, quota, req, slot, final, gone, detached, class>>

\* insertAsyncJob: the row remembers the hold; its error is only logged.
RecordJob(r) ==
  /\ at[r] = "record"
  /\ \/ ~gone[r] /\ Goto(r, "job") /\ UNCHANGED report
     \/ (gone[r] \/ MayHappen("db")) /\ Finish(r, 0, "lost")
  /\ UNCHANGED <<given, wallet, quota, req, slot, final, gone, detached, class>>

\* A request of its own locks the row of the job.
StartCancel(r) ==
  /\ at[r] = "job"
  /\ Goto(r, "cancel")
  /\ gone' = [gone EXCEPT ![r] = FALSE]
  /\ UNCHANGED <<given, wallet, quota, req, slot, final, detached, class, report>>

\* The hold is released on another connection; the error is only logged.
Cancel(r) ==
  /\ at[r] = "cancel"
  /\ ReleaseCall(r)
  /\ Goto(r, "cancelled")
  /\ UNCHANGED <<given, quota, req, slot, final, gone, detached, class, report>>

\* The status of the job is committed, or stays what it was.
CommitCancel(r) ==
  /\ at[r] = "cancelled"
  /\ \/ ~gone[r] /\ Finish(r, 0, "cancelled")
     \/ (gone[r] \/ MayHappen("db")) /\ Goto(r, "job") /\ UNCHANGED report
  /\ UNCHANGED <<given, wallet, quota, req, slot, final, gone, detached, class>>

\* The client goes away while its request is handled.
Disconnect(r) ==
  /\ MayHappen("disconnect")
  /\ at[r] \notin {"idle", "job", "done"}
  /\ ~gone[r]
  /\ gone' = [gone EXCEPT ![r] = TRUE]
  /\ UNCHANGED <<given, wallet, quota, req, at, slot, final, detached, class, report>>

\* quota_reset_at passes; nothing is written.  While nothing of the allowance is
\* spent it makes no difference.
Lapse ==
  /\ term = "running" /\ allowance < setting.allowance
  /\ term' = "over" /\ waived' = 0
  /\ UNCHANGED <<given, wallet, allowance, req, at, slot, final, gone, detached, class, report>>

Step(r) ==
  \/ Reserve(r) \/ UpstreamOK(r) \/ UpstreamFails(r) \/ Release(r)
  \/ ReserveUsage(r) \/ Consume(r) \/ Settle(r) \/ Commit(r)
  \/ VideoAccepted(r) \/ Discard(r) \/ RecordJob(r) \/ Cancel(r) \/ CommitCancel(r)

Next ==
  \/ Lapse
  \/ \E r \in Requests :
       Refuse(r) \/ Arrive(r) \/ Step(r) \/ StartCancel(r) \/ Disconnect(r)

Spec == Init /\ [][Next]_vars

\* The scheduler runs every handler, and every database and upstream call
\* returns (HTTP client timeout); requests need not arrive, clients leave nor
\* jobs be cancelled.
FairSpec == Spec /\ \A r \in Requests : WF_vars(Step(r))

-----------------------------------------------------------------------------
(* Properties.                                                             *)

Ended(r) == at[r] = "done"

\* The upstream served r, so its report is that of a settlement.
Served(r) ==
  /\ Ended(r)
  /\ slot[r] # UsageSlot
  /\ report[r].code \notin {"blocked", "failed", "unlogged", "lost", "cancelled"}

\* What the wallet was charged under key k.
Billed(k) == LET row == ledger[Account][k]
             IN  IF row.type = "charge" THEN row.amount ELSE 0

Charged(r) == Billed(Key(r))

\* No other request is a retry of the same call.
Unshared(r) == \A q \in Requests \ {r} : req[q].id # req[r].id

\* Invariant #2 of the gateway: while a call is at the upstream its hold is
\* frozen, whatever the other requests of the account do.
UpstreamIsHeld ==
  \A r \in Requests :
    at[r] = "upstream" /\ Unshared(r) => Bank!Held(Account, Key(r))

\* TH-P05-02: a served call that was charged anything but its final cost
\* leaves an evidence code, whatever failed on the way.
AnomaliesHaveEvidence ==
  \A r \in Requests :
    Served(r) /\ Unshared(r) /\ Charged(r) # final[r] => report[r].code # ""

RequestsOf(id) == {r \in Requests : req[r].id = id}

ReportOf(r, id) == IF req[r].id = id THEN report[r].charged ELSE 0

Reported(id) == Total([r \in Requests |-> ReportOf(r, id)], MaxAmount)

ChargedTo(id) == Total([s \in Slots |-> Billed(<<id, s>>)], MaxAmount)

\* settle_fallback.go:85-89: a report is "the amount actually charged to the
\* wallet": when all requests of a call have ended and nothing failed, the sum
\* of what their usage logs report is what the wallet was charged for it.
ReportsMatchLedger ==
  setting.faults = {} =>
    \A id \in Ids :
      (\A r \in RequestsOf(id) : Ended(r)) => Reported(id) = ChargedTo(id)

\* The job that remembers hold k, if any.
Remembered(k) == \E r \in Requests : at[r] \in {"job", "cancel", "cancelled"} /\ Key(r) = k

HeldForNobody == {k \in Ids \X Slots : Bank!Held(Account, k) /\ ~Remembered(k)}

\* Every hold is eventually finalised or remembered by a job.
HoldsAreResolved == setting.faults = {} => []<>(HeldForNobody = {})

\* Requests that saw the same allowance do not spend it twice, whatever fails
\* and whichever of them starts the next period: no token is waived that was not
\* taken from the allowance, and no period waives more than the plan gives.
AllowanceIsSpentOnce ==
  allowance >= 0 /\ waived + Remaining <= setting.allowance
=============================================================================
