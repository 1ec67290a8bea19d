------------------------------- MODULE ApiKeys -------------------------------
(***************************************************************************)
(* An API key of the gateway: its administration in the console and the    *)
(* admission of the calls made with it.  A call is authenticated, counted  *)
(* by the gateway's fixed-window limiter, reserved in the minute bucket of *)
(* the key and compared with its spend limits; when the upstream has       *)
(* answered, the reservation is settled against the tokens really used and *)
(* the cost is added to the spend of each period.                          *)
(*                                                                         *)
(* The console reads the whole row of a key, changes some columns of the   *)
(* copy and writes the row back, so its operations are two steps.  Redis   *)
(* commands, Lua scripts and single SQL statements are one step each.      *)
(* Names, the allowlists, the expiry date and the group of a key decide    *)
(* only whether one call is refused: RefuseCall stands for all of them.    *)
(***************************************************************************)
EXTENDS Integers, FiniteSets, FiniteSetsExt, Tally

CONSTANTS Calls,       \* goroutines serving gateway calls
          Admins,      \* goroutines serving console calls about the key
          Secrets,     \* bound: the secrets that can be generated, 1 .. n
          Window,      \* of GatewayRateLimit in ticks (code: one minute)
          MinuteLength, DayLength, WeekDays, MonthDays,  \* the calendar
          Horizon,     \* bound: the last tick of any clock
          Configs      \* the settings and bounds to check, see KeyConfig

\* A setting: the limits of the key per minute and period (0 for none), the
\* limit of GatewayRateLimit (code: 100; 0 where it is out of reach and left
\* out) and what may fail; and bounds: the
\* console operations in play, what one call costs and uses, how many calls
\* the limiter lets pass, and when the clock stops.
Types    == {"cumulative", "weekly", "monthly"}
KeyConfig   == [rpm : Nat, tpm : Nat, limit : [Types -> Nat], rate : Nat,
             failing : SUBSET {"limiter", "bucket", "read", "write"},
             console : SUBSET {"update", "secret", "delete"},
             cost : Nat, tokens : Nat, calls : Nat, until : 0 .. Horizon]

ASSUME ConfigsAssumption == Configs \subseteq KeyConfig
ASSUME ClockAssumption ==
  /\ Horizon \in Nat
  /\ {MinuteLength, DayLength, WeekDays, MonthDays, Window} \subseteq Nat \ {0}
ASSUME SecretsAssumption == Secrets \subseteq Nat \ {0} /\ Secrets # {}
ASSUME CallsAssumption == IsFiniteSet(Calls)

VARIABLES config,   \* the setting of this behaviour
          now,      \* the clock
          row,      \* the row of the key in api_keys
          admin,    \* handler -> the console call it serves
          call,     \* handler -> the gateway call it serves
          window,   \* limiter store -> count and end of the current window
          store,    \* where minute buckets live: chosen when the app starts
          bucket,   \* minute -> requests and tokens
          spend     \* period -> its row of api_key_spend, -1 for none
\* History: secrets answered to the owner; per store and tick the calls the
\* limiter let pass, and their number; per minute the reservations granted;
\* tokens owed to the buckets; per period the cost of the calls served and
\* what of it the limits are not answerable for.
VARIABLES handed, passed, total, granted, owed, served, excused

keyVars   == <<row, admin, handed>>
limits    == <<window, passed, total>>
buckets   == <<store, bucket, granted, owed>>
spending  == <<spend, served, excused>>
kVars == <<config, now, keyVars, call, limits, buckets, spending>>

Minute(t) == t \div MinuteLength
Minutes   == Minute(0) .. Minute(Horizon)

\* recordAPIKeySpend: a week starts as many days ago as the weekday says, at
\* the time of day it is now; a month starts on its first day at midnight.
PeriodStart(type, t) ==
  CASE type = "cumulative" -> 0
    [] type = "weekly" -> t - ((t \div DayLength) % WeekDays) * DayLength
    [] type = "monthly" -> t - (t % (MonthDays * DayLength))

Starts  == 0 .. Horizon
Periods == Types \X Starts

\* The period of a type that really contains an instant.
Calendar(type, t) ==
  CASE type = "cumulative" -> 0
    [] type = "weekly" -> t \div (WeekDays * DayLength)
    [] type = "monthly" -> t \div (MonthDays * DayLength)

NoKey  == [status |-> "none", hash |-> 0, plain |-> 0, block |-> TRUE]
NoJob  == [op |-> "none", copy |-> NoKey]
NoCall == [at |-> "idle", block |-> TRUE, free |-> FALSE, reserved |-> -1,
           cost |-> 0, starts |-> [type \in Types |-> 0], todo |-> {}]
Stores == {"redis", "memory"}

\* There is no key yet, or one from before secrets were stored.
KInit ==
  /\ config \in Configs /\ now = 0
  /\ row \in {NoKey, [NoKey EXCEPT !.status = "active", !.hash = Min(Secrets)]}
  /\ admin = [h \in Admins |-> NoJob] /\ call = [c \in Calls |-> NoCall]
  /\ window = [s \in Stores |-> [count |-> 0, ends |-> 0]]
  /\ store \in {"redis", "postgres"}
  /\ bucket = [m \in Minutes |-> [there |-> FALSE, requests |-> 0, tokens |-> 0]]
  /\ spend = [p \in Periods |-> -1]
  /\ handed = {row.hash} \ {0}
  /\ passed = [s \in Stores |-> [t \in Starts |-> 0]] /\ total = 0
  /\ granted = [m \in Minutes |-> 0] /\ owed = 0
  /\ served = [p \in Periods |-> 0] /\ excused = [p \in Periods |-> 0]

Tick == /\ now < config.until /\ now' = now + 1
        /\ UNCHANGED <<config, keyVars, call, limits, buckets, spending>>

MayFail(what) == what \in config.failing
At(c, place) == call[c].at = place
Idle(c) == call' = [call EXCEPT ![c] = NoCall]

-----------------------------------------------------------------------------
(* The console.                                                            *)

Unused == Secrets \ (handed \cup {row.hash} \cup {admin[h].copy.hash : h \in Admins})

\* The row that is inserted: the hash of the secret, the secret encrypted.
NewRow(s, block) == [status |-> "active", hash |-> s, plain |-> s, block |-> block]

\* The answer carries the secret.
Create(h) ==
  /\ admin[h].op = "none" /\ row.status = "none"
  /\ \E s \in Unused, block \in BOOLEAN :
       /\ row' = NewRow(s, block)
       /\ handed' = handed \cup {s}
  /\ UNCHANGED <<config, now, admin, call, limits, buckets, spending>>

\* Every operation starts with FindByID.
Read(h, op, copy) ==
  /\ admin[h].op = "none" /\ row.status # "none" /\ op \in config.console
  /\ admin' = [admin EXCEPT ![h] = [op |-> op, copy |-> copy]]
  /\ UNCHANGED <<config, now, row, handed, call, limits, buckets, spending>>

\* A status other than active and disabled is refused; new RPM and TPM limits
\* are checked, but Save does not write them.
Update(h) == \E status \in {row.status, "active", "disabled"}, block \in BOOLEAN :
               Read(h, "update", [row EXCEPT !.status = status, !.block = block])
Delete(h) == Read(h, "delete", [row EXCEPT !.status = "revoked"])

\* A key without a stored secret is given a new one; otherwise nothing changes.
GetSecret(h) == \E s \in Unused :
  row.plain = 0 /\ Read(h, "secret", [row EXCEPT !.hash = s, !.plain = s])

\* Mutant of Saved: an update keeps the hash that is in the table.
Saved_KeepsHash(copy) == [copy EXCEPT !.hash = row.hash]

\* Update of the repository writes every column a call may have changed.
Saved(copy) == copy

\* The copy replaces the row, then the call is answered.
Save(h) ==
  LET copy == admin[h].copy  op == admin[h].op IN
  /\ op # "none"
  /\ row' = Saved(copy)
  /\ handed' = IF op = "secret" THEN handed \cup {copy.plain} ELSE handed
  /\ admin' = [admin EXCEPT ![h] = NoJob]
  /\ UNCHANGED <<config, now, call, limits, buckets, spending>>

SaveFails(h) ==
  /\ admin[h].op # "none" /\ MayFail("write")
  /\ admin' = [admin EXCEPT ![h] = NoJob]
  /\ UNCHANGED <<config, now, row, handed, call, limits, buckets, spending>>

-----------------------------------------------------------------------------
(* Admission.                                                              *)

UsableKey == row.status \in {"active", "over_limit"}

\* GatewayAuth hashes the secret of the call and looks the row up by it.
Authenticate(c) ==
  /\ At(c, "idle") /\ row.hash \in handed /\ UsableKey
  /\ call' = [call EXCEPT ![c].at = "limit"]
  /\ UNCHANGED <<config, now, keyVars, limits, buckets, spending>>

\* Whether the window of a store is over: Redis drops the key when its time to
\* live has passed, memory compares with After.
Over(s) == \/ window[s].count = 0
           \/ IF s = "redis" THEN now >= window[s].ends ELSE now > window[s].ends

\* Mutant of Counted: the window of a store ends one tick early.
Counted_Early(s) == IF Over(s) \/ now + 1 >= window[s].ends
                    THEN [count |-> 1, ends |-> now + Window]
                    ELSE [window[s] EXCEPT !.count = Min({@, config.rate}) + 1]

\* Bound: what was counted beyond the limit is not told apart.
Counted(s) == IF Over(s) THEN [count |-> 1, ends |-> now + Window]
                         ELSE [window[s] EXCEPT !.count = Min({@, config.rate}) + 1]

\* Passing counts towards the bound of the calls.
Pass(c) == /\ total < config.calls /\ total' = total + 1
           /\ call' = [call EXCEPT ![c].at = "bucket"]

\* GatewayRateLimit: Redis counts, and memory where Redis fails.
RateLimit(c) ==
  /\ At(c, "limit")
  /\ \/ config.rate = 0 /\ Pass(c) /\ UNCHANGED <<window, passed>>
     \/ \E s \in Stores :
          /\ config.rate > 0 /\ (s = "memory" => MayFail("limiter"))
          /\ window' = [window EXCEPT ![s] = Counted(s)]
          /\ IF Counted(s).count > config.rate
             THEN Idle(c) /\ UNCHANGED <<passed, total>>
             ELSE passed' = [passed EXCEPT ![s][now] = @ + 1] /\ Pass(c)
  /\ UNCHANGED <<config, now, keyVars, buckets, spending>>

\* Expired entries of the memory store are swept.
Sweep == /\ window["memory"].count > 0 /\ now > window["memory"].ends
         /\ window' = [window EXCEPT !["memory"] = [count |-> 0, ends |-> 0]]
         /\ UNCHANGED <<config, now, keyVars, call, passed, total, buckets, spending>>

Fits(b) == (config.rpm > 0 => b.requests <= config.rpm) /\ (config.tpm > 0 => b.tokens <= config.tpm)

Added(b, tokens) == [there |-> TRUE, requests |-> b.requests + 1,
                     tokens |-> b.tokens + tokens]

\* The reservation is counted first and taken back when it does not fit; the
\* SQL store creates the row of the minute even then.  A store that fails lets
\* the call pass without a reservation to settle, also one that failed after the
\* counting: in Redis the counters are read back by a second command.  The row of
\* the key is read again, its status is not looked at.
Reserve(c) ==
  LET m == Minute(now)  next == [call[c] EXCEPT !.at = "checks", !.block = row.block]
      Passes == MayFail("bucket") /\ call' = [call EXCEPT ![c] = next] IN
  /\ At(c, "bucket")
  /\ \/ /\ config.rpm + config.tpm = 0 \/ MayFail("bucket")
        /\ call' = [call EXCEPT ![c] = next]
        /\ UNCHANGED buckets
     \/ \E tokens \in 0 .. config.tokens :
          /\ config.rpm + config.tpm > 0
          /\ UNCHANGED store
          /\ IF Fits(Added(bucket[m], tokens))
             THEN /\ bucket' = [bucket EXCEPT ![m] = Added(@, tokens)]
                  /\ granted' = [granted EXCEPT ![m] = @ + 1]
                  /\ owed' = owed + tokens
                  /\ Passes \/ call' = [call EXCEPT ![c] = [next EXCEPT !.reserved = tokens]]
             ELSE /\ bucket' = [bucket EXCEPT ![m].there = TRUE]
                  /\ Passes \/ Idle(c)
                  /\ UNCHANGED <<granted, owed>>
  /\ UNCHANGED <<config, now, keyVars, limits, spending>>

\* GetSpend: the row of the type with the latest start, or none.
Recorded(type) ==
  LET rows == {t \in Starts : spend[<<type, t>>] >= 0} IN
  IF rows = {} THEN 0 ELSE spend[<<type, Max(rows)>>]

Reached(type) == config.limit[type] > 0 /\ Recorded(type) >= config.limit[type]

\* Each limit is compared with a read of its own (one step here: totals only
\* grow); a read that fails and a key that only warns let the call pass.
CheckSpend(c) ==
  /\ At(c, "checks")
  /\ \/ /\ call[c].block /\ \E type \in Types : Reached(type)
        /\ Idle(c)
     \/ /\ \A type \in Types : ~Reached(type)
        /\ call' = [call EXCEPT ![c].at = "upstream"]
     \/ /\ ~call[c].block \/ MayFail("read")
        /\ call' = [call EXCEPT ![c].at = "upstream", ![c].free = TRUE]
  /\ UNCHANGED <<config, now, keyVars, limits, buckets, spending>>

\* The call ends between its reservation and the upstream: a model or address
\* that is not allowed, a guardrail, a cache hit, no route, no money.
RefuseCall(c) == /\ call[c].at \in {"checks", "upstream"} /\ Idle(c)
                 /\ UNCHANGED <<config, now, keyVars, limits, buckets, spending>>

-----------------------------------------------------------------------------
(* After the upstream call.                                                *)

\* Mutant of Settled: Redis too corrects only a bucket that is there.
Settled_OnlyExisting(m, delta) ==
  IF bucket[m].there THEN [bucket[m] EXCEPT !.tokens = Max({0, @ + delta})]
  ELSE bucket[m]

\* The correction goes to the bucket of the minute it is made in.  Redis
\* creates that bucket, SQL updates it when it is there; neither goes below 0.
Settled(m, delta) ==
  IF store = "postgres" /\ ~bucket[m].there THEN bucket[m]
  ELSE [bucket[m] EXCEPT !.there = TRUE, !.tokens = Max({0, @ + delta})]

Settle(c, tokens) ==
  LET m == Minute(now)  delta == tokens - call[c].reserved IN
  \/ /\ call[c].reserved >= 0 /\ delta # 0
     /\ bucket' = [bucket EXCEPT ![m] = Settled(m, delta)]
     /\ owed' = owed + delta
     /\ UNCHANGED <<store, granted>>
  \/ /\ call[c].reserved < 0 \/ delta = 0 \/ MayFail("bucket")
     /\ UNCHANGED buckets

\* A failed call is settled at no tokens and adds nothing to the spend.
UpstreamFails(c) ==
  /\ At(c, "upstream") /\ Settle(c, 0) /\ Idle(c)
  /\ UNCHANGED <<config, now, keyVars, limits, spending>>

Limited == {type \in Types : config.limit[type] > 0}

Bill(f, starts, types, cost) ==
  [p \in Periods |-> f[p] + IF p[1] \in types /\ starts[p[1]] = p[2] THEN cost ELSE 0]

\* The price of a call may be zero: then nothing is recorded.  Bound: the rows
\* of a type without a limit, which nothing reads, are left out.
UpstreamAnswers(c) ==
  /\ At(c, "upstream")
  /\ \E tokens \in 0 .. config.tokens : Settle(c, tokens)
  /\ \E cost \in 0 .. config.cost :
       LET starts == [type \in Types |-> PeriodStart(type, now)] IN
       IF cost = 0 \/ Limited = {} THEN Idle(c) /\ UNCHANGED spending
       ELSE /\ call' = [call EXCEPT ![c].at = "record", ![c].cost = cost,
                          ![c].starts = starts, ![c].todo = Limited]
            /\ LET real == [type \in Types |-> Calendar(type, now)] IN
               /\ served' = Bill(served, real, Limited, cost)
               /\ excused' = IF call[c].free THEN Bill(excused, real, Limited, cost)
                                             ELSE excused
            /\ UNCHANGED spend
  /\ UNCHANGED <<config, now, keyVars, limits>>

\* Mutant of Upserted: the row is replaced.
Upserted_Replaces(p, cost) == cost

Upserted(p, cost) == IF spend[p] < 0 THEN cost ELSE spend[p] + cost

Rest(c, type) ==
  LET todo == call[c].todo \ {type} IN
  IF todo = {} THEN Idle(c) ELSE call' = [call EXCEPT ![c].todo = todo]

\* Three statements, cumulative first and monthly last; one that fails is
\* logged, and the cost is missing from that period.
RecordSpend(c) ==
  /\ At(c, "record")
  /\ LET type == IF "cumulative" \in call[c].todo THEN "cumulative"
                 ELSE IF "weekly" \in call[c].todo THEN "weekly" ELSE "monthly"
         p == <<type, call[c].starts[type]>> IN
     /\ Rest(c, type)
     /\ \/ /\ spend' = [spend EXCEPT ![p] = Upserted(p, call[c].cost)]
           /\ UNCHANGED excused
        \/ /\ MayFail("write")
           /\ excused' = [excused EXCEPT ![<<type, Calendar(type, p[2])>>] = @ + call[c].cost]
           /\ UNCHANGED spend
  /\ UNCHANGED <<config, now, keyVars, limits, buckets, served>>

AdminStep(h) == Create(h) \/ Update(h) \/ Delete(h) \/ GetSecret(h)
                \/ Save(h) \/ SaveFails(h)
CallStep(c)  == \/ Authenticate(c) \/ RateLimit(c) \/ Reserve(c) \/ CheckSpend(c)
                \/ RefuseCall(c) \/ UpstreamFails(c) \/ UpstreamAnswers(c) \/ RecordSpend(c)

KNext == Tick \/ Sweep \/ (\E h \in Admins : AdminStep(h)) \/ (\E c \in Calls : CallStep(c))
KSpec == KInit /\ [][KNext]_kVars

-----------------------------------------------------------------------------
(* Properties.                                                             *)

\* The hash calls are authenticated with and the encrypted secret the owner is
\* shown are written by different operations from copies read at different
\* times: what is shown opens the key, and somebody was given what opens it.
SecretOpensTheKey ==
  row.status # "none" => row.hash \in handed /\ row.plain \in {0, row.hash}

\* The calls a store let pass from instant t on and before instant e.
Passed(s, t, e) ==
  Summed([u \in Starts |-> IF t <= u /\ u < e THEN passed[s][u] ELSE 0])

\* However calls of two stores and outages interleave, a store lets at most
\* two windows' worth of calls less the one that opened the first pass in any
\* stretch as long as one window.
WindowBound ==
  config.rate > 0 => \A s \in Stores, t \in Starts :
    Passed(s, t, t + Window) <= 2 * config.rate - 1

\* No minute grants more than RPM reservations, and no token that was reserved
\* or used drops out of Redis: corrections land in other minutes than the
\* reservations they correct, but all minutes together count what is owed.  A
\* correction that was not written is not owed: the minute keeps the estimate.
BucketsHold ==
  /\ config.rpm > 0 => \A m \in Minutes : granted[m] <= config.rpm
  /\ store = "redis" => Summed([m \in Minutes |-> bucket[m].tokens]) >= owed

Overshoot(type) == config.limit[type] - 1 + Cardinality(Calls) * config.cost

\* The limit is compared with what was recorded, and calls in flight are not:
\* a period is overspent by no more than the calls that run at once can cost,
\* except by calls that were let pass anyway and costs that were not recorded.
Bounded(type) ==
  config.limit[type] > 0 => \A k \in Starts :
    served[<<type, k>>] <= Overshoot(type) + excused[<<type, k>>]

OvershootIsBounded == Bounded("cumulative") /\ Bounded("monthly")

=============================================================================
