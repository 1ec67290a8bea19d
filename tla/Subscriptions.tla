---------------------------- MODULE Subscriptions ----------------------------
(***************************************************************************)
(* Subscription periods of one user: bought from the wallet                *)
(* (internal/handler/console/subscription.go), renewed by the worker       *)
(* (internal/worker/subscriptions/renewer.go) and activated by the         *)
(* subscription service (internal/service/subscription/service.go).        *)
(*                                                                         *)
(* Every statement is a transaction of its own, and wallet operations are  *)
(* those of module Wallet.  Worker processes elect the one that runs a     *)
(* cycle with a lease that expires after a fixed time (internal/pkg/lease).*)
(* Time is counted in steps of half a day.                                 *)
(***************************************************************************)
EXTENDS Integers, FiniteSets, FiniteSetsExt

CONSTANTS Account,    \* the user's wallet
          Funds,      \* bound: the most it is topped up with
          Price,      \* price of the plan
          Duration,   \* plan.duration_days
          Window,     \* renewWindow
          Buyers,     \* purchase requests of the user
          Workers,    \* worker processes
          MaxPeriods, \* bound: rows of user_subscriptions
          MaxTime,    \* bound: the clock
          Settings    \* bound: what may happen, see Setting

\* "crash": a process stops anywhere; "db": a statement fails; "slow": a cycle
\* outlives its lease.  And bounds: the funds, the purchases in play, what the
\* user may set auto-renew to, when the clock stops.
Faults  == {"crash", "db", "slow"}
Setting == [faults : SUBSET Faults, funds : 1 .. Funds, buyers : SUBSET Buyers,
            wishes : SUBSET BOOLEAN, time : 0 .. MaxTime]

ASSUME SettingsAssumption == Settings \subseteq Setting
ASSUME PriceAssumption == Price \in 1 .. Funds
ASSUME BoundsAssumption ==
  /\ {Funds, Duration, MaxTime} \subseteq Nat
  /\ MaxPeriods \in Nat \ {0}
  /\ Window \in Int
ASSUME ActorsAssumption == Buyers \cap Workers = {}

VARIABLES setting,    \* the setting of this behaviour
          balance, frozen, ledger,   \* the wallet, see module Wallet
          clock,      \* NOW()
          periods,    \* user_subscriptions: id -> row
          lease,      \* the lease key exists
          at,         \* where a buyer or worker stands
          due,        \* the renewals left in a worker's cycle
          auto,       \* auto_renew a purchase asked for
          base        \* start of the period being activated

wallet == <<setting, balance, frozen, ledger>>
vars   == <<setting, balance, frozen, ledger, clock, periods, lease, at, due,
            auto, base>>

Actors  == Buyers \cup Workers
Periods == 1 .. MaxPeriods
Times   == 0 .. MaxTime + (MaxPeriods + 1) * Duration

\* A purchase pays under a fresh key, a renewal under the id and the expiry of
\* the period it renews.
TopUpKey       == <<"topup", 0, 0>>
PurchaseKey(b) == <<"sub", b, 0>>
Keys == {TopUpKey} \cup {PurchaseKey(b) : b \in Buyers}
          \cup ({"subrenew"} \X Periods \X Times)

Bank == INSTANCE Wallet WITH Wallets <- {Account}, MaxAmount <- Funds

\* "paid" remembers the key of the payment a row was activated for.
NoPeriod == [status |-> "none", start |-> 0, expires |-> 0, auto |-> FALSE,
             paid |-> TopUpKey]

Period == [status : {"none", "active", "expired"}, start : Times,
           expires : Times, auto : BOOLEAN, paid : Keys]

TypeOK ==
  /\ setting \in Settings
  /\ Bank!TypeOK
  /\ clock \in 0 .. MaxTime
  /\ periods \in [Periods -> Period]
  /\ lease \in BOOLEAN
  /\ at \in [Actors -> {"idle", "check", "spend", "read", "insert", "supersede",
                        "done"}]
  /\ due \in [Workers -> SUBSET Periods]
  /\ auto \in [Buyers -> BOOLEAN]
  /\ base \in [Actors -> Times]

\* The user has one period, bought with auto-renew.
Init ==
  /\ setting \in Settings
  /\ balance = [w \in {Account} |-> setting.funds]
  /\ frozen = [w \in {Account} |-> 0]
  /\ ledger = [w \in {Account} |-> [k \in Keys |->
       IF k = TopUpKey THEN [type |-> "topup", amount |-> setting.funds]
                       ELSE Bank!NoRow]]
  /\ clock = 0
  /\ periods = [p \in Periods |->
       IF p = 1 THEN [NoPeriod EXCEPT !.status = "active",
                                      !.expires = Duration, !.auto = TRUE]
                ELSE NoPeriod]
  /\ lease = FALSE
  /\ at = [a \in Actors |-> "idle"]
  /\ due = [w \in Workers |-> {}]
  /\ auto = [b \in Buyers |-> FALSE]
  /\ base = [a \in Actors |-> 0]

-----------------------------------------------------------------------------
(* The clock, the expirer and the user's consent.                          *)

Tick ==
  /\ clock < setting.time
  /\ clock' = clock + 1
  /\ UNCHANGED <<wallet, periods, lease, at, due, auto, base>>

Running(p) == periods[p].status = "active" /\ periods[p].expires > clock

\* Expirer.Run.
Lapse ==
  /\ \E p \in Periods : periods[p].status = "active" /\ ~Running(p)
  /\ periods' = [p \in Periods |->
       IF periods[p].status = "active" /\ ~Running(p)
       THEN [periods[p] EXCEPT !.status = "expired"] ELSE periods[p]]
  /\ UNCHANGED <<wallet, clock, lease, at, due, auto, base>>

\* SetAutoRenew, for all active subscriptions.
SetAutoRenew(wish) ==
  /\ periods' = [p \in Periods |->
       IF Running(p) THEN [periods[p] EXCEPT !.auto = wish] ELSE periods[p]]
  /\ UNCHANGED <<wallet, clock, lease, at, due, auto, base>>

-----------------------------------------------------------------------------
(* Activation, by a purchase or a renewal.                                 *)

Pay(key) == Bank!Spend(Account, key, Price) /\ UNCHANGED setting

MayHappen(fault) == fault \in setting.faults

Goto(a, label) == at' = [at EXCEPT ![a] = label]

Current(w) == Min(due[w])

\* Mutant of RenewalKey: the day of the run instead of the day of the expiry.
RenewalKey_Today(p) == <<"subrenew", p, clock>>

RenewalKey(p) == <<"subrenew", p, periods[p].expires>>

PaymentKey(a) == IF a \in Buyers THEN PurchaseKey(a) ELSE RenewalKey(Current(a))

\* The rest of a worker's cycle after the renewal at hand.
NextRenewal(w) ==
  /\ due' = [due EXCEPT ![w] = @ \ {Current(w)}]
  /\ Goto(w, IF due[w] = {Current(w)} THEN "idle" ELSE "check")

GiveUp(a) == IF a \in Buyers THEN Goto(a, "done") /\ UNCHANGED due
                             ELSE NextRenewal(a)

\* The latest expiry of a running period, or now.  A failed query counts as
\* "no period"; a failed or disabled plan lookup ends the activation.
ReadBase(a) ==
  /\ at[a] = "read"
  /\ \/ /\ base' = [base EXCEPT ![a] =
             Max({clock} \cup {periods[p].expires : p \in
                                 {q \in Periods : Running(q)}})]
        /\ Goto(a, "insert")
        /\ UNCHANGED due
     \/ /\ MayHappen("db")
        /\ base' = [base EXCEPT ![a] = clock]
        /\ Goto(a, "insert")
        /\ UNCHANGED due
     \/ /\ MayHappen("db")
        /\ GiveUp(a)
        /\ UNCHANGED base
  /\ UNCHANGED <<wallet, clock, periods, lease, auto>>

Unused == {p \in Periods : periods[p].status = "none"}

\* INSERT INTO user_subscriptions; a renewed period renews again.
Insert(a) ==
  /\ at[a] = "insert"
  /\ Unused # {}
  /\ \/ /\ periods' = [periods EXCEPT ![Min(Unused)] =
             [status |-> "active", start |-> base[a],
              expires |-> base[a] + Duration,
              auto |-> IF a \in Buyers THEN auto[a] ELSE TRUE,
              paid |-> PaymentKey(a)]]
        /\ Goto(a, IF a \in Buyers THEN "done" ELSE "supersede")
        /\ UNCHANGED due
     \/ /\ MayHappen("db")
        /\ GiveUp(a)
        /\ UNCHANGED periods
  /\ UNCHANGED <<wallet, clock, lease, auto, base>>

-----------------------------------------------------------------------------
(* HandlePurchaseSubscription.                                             *)

Purchase(b) ==
  /\ at[b] = "idle"
  /\ \E wish \in setting.wishes : auto' = [auto EXCEPT ![b] = wish]
  /\ \/ /\ Pay(PurchaseKey(b))
        /\ Goto(b, "read")
     \/ /\ balance[Account] < Price \/ MayHappen("db")
        /\ Goto(b, "done")
        /\ UNCHANGED wallet
  /\ UNCHANGED <<clock, periods, lease, due, base>>

-----------------------------------------------------------------------------
(* Renewer.Run under withLease.                                            *)

DueNow ==
  {p \in Periods : /\ Running(p)
                   /\ periods[p].auto
                   /\ periods[p].expires <= clock + Window}

\* Mutant of StartCycle: the lease is not asked for.
StartCycle_NoLease(w) ==
  /\ at[w] = "idle"
  /\ lease' = TRUE
  /\ due' = [due EXCEPT ![w] = DueNow]
  /\ Goto(w, IF DueNow = {} THEN "idle" ELSE "check")
  /\ UNCHANGED <<wallet, clock, periods, auto, base>>

\* lease.Acquire is SET NX; the cycle begins with the query of what is due.
StartCycle(w) ==
  /\ at[w] = "idle"
  /\ ~lease
  /\ lease' = TRUE
  /\ due' = [due EXCEPT ![w] = DueNow]
  /\ Goto(w, IF DueNow = {} THEN "idle" ELSE "check")
  /\ UNCHANGED <<wallet, clock, periods, auto, base>>

\* The lease is neither renewed nor released: its key expires.
LeaseExpires ==
  /\ lease
  /\ MayHappen("slow") \/ \A w \in Workers : at[w] = "idle"
  /\ lease' = FALSE
  /\ UNCHANGED <<wallet, clock, periods, at, due, auto, base>>

\* A user whose balance, as read now, does not cover the price is skipped.
CheckBalance(w) ==
  /\ at[w] = "check"
  /\ \/ /\ balance[Account] >= Price
        /\ Goto(w, "spend")
        /\ UNCHANGED due
     \/ /\ balance[Account] < Price \/ MayHappen("db")
        /\ NextRenewal(w)
  /\ UNCHANGED <<wallet, clock, periods, lease, auto, base>>

\* Mutant of RenewSpend: a payment made before is taken for a rejected one.
RenewSpend_ReplayIsError(w) ==
  /\ at[w] = "spend"
  /\ \/ /\ Pay(PaymentKey(w))
        /\ Goto(w, "read")
        /\ UNCHANGED due
     \/ NextRenewal(w) /\ UNCHANGED wallet
  /\ UNCHANGED <<clock, periods, lease, auto, base>>

\* A payment made before, by a cycle that did not finish, is replayed.
RenewSpend(w) ==
  LET k == PaymentKey(w) IN
  /\ at[w] = "spend"
  /\ \/ /\ Pay(k)
        /\ Goto(w, "read")
        /\ UNCHANGED due
     \/ /\ ~Bank!Fresh(Account, k)
        /\ Goto(w, "read")
        /\ UNCHANGED <<wallet, due>>
     \/ /\ \/ MayHappen("db")
           \/ Bank!Fresh(Account, k) /\ balance[Account] < Price
        /\ NextRenewal(w)
        /\ UNCHANGED wallet
  /\ UNCHANGED <<clock, periods, lease, auto, base>>

\* The renewed period is not renewed again; a failure is only logged.
Supersede(w) ==
  /\ at[w] = "supersede"
  /\ \/ periods' = [periods EXCEPT ![Current(w)].auto = FALSE]
     \/ MayHappen("db") /\ UNCHANGED periods
  /\ NextRenewal(w)
  /\ UNCHANGED <<wallet, clock, lease, auto, base>>

\* The process stops; a worker is restarted, a purchase is not.
Crash(a) ==
  /\ MayHappen("crash")
  /\ at[a] \notin {"idle", "done"}
  /\ Goto(a, IF a \in Buyers THEN "done" ELSE "idle")
  /\ due' = [w \in Workers |-> IF w = a THEN {} ELSE due[w]]
  /\ UNCHANGED <<wallet, clock, periods, lease, auto, base>>

Activate(a) == ReadBase(a) \/ Insert(a)

Renew(w) == CheckBalance(w) \/ RenewSpend(w) \/ Activate(w) \/ Supersede(w)

Next ==
  \/ Tick
  \/ Lapse
  \/ \E wish \in setting.wishes : SetAutoRenew(wish)
  \/ \E b \in setting.buyers : Purchase(b) \/ Activate(b)
  \/ \E w \in Workers : StartCycle(w) \/ Renew(w)
  \/ LeaseExpires
  \/ \E a \in Actors : Crash(a)

Spec == Init /\ [][Next]_vars

\* Some worker's ticker keeps starting cycles, the lease key expires, and what
\* is tried again and again in new cycles does not fail or crash every time.
FairSpec ==
  /\ Spec
  /\ WF_vars(LeaseExpires)
  /\ SF_vars(\E w \in Workers : StartCycle(w))
  /\ SF_vars(\E w \in Workers : CheckBalance(w) /\ at'[w] = "spend")
  /\ SF_vars(\E w \in Workers : RenewSpend(w) /\ at'[w] = "read")
  /\ SF_vars(\E w \in Workers : ReadBase(w) /\ at'[w] = "insert")
  /\ SF_vars(\E w \in Workers : Insert(w) /\ at'[w] = "supersede")
  /\ WF_vars(\E w \in Workers : Supersede(w))

-----------------------------------------------------------------------------
(* Properties.                                                             *)

Bought == {p \in Periods : periods[p].status # "none"} \ {1}

Paid(k) == ledger[Account][k] = [type |-> "subscription", amount |-> -Price]

\* No period without a payment of its price, whatever fails on the way; and
\* renewing a period is paid at most once, however many cycles run, crash or
\* overlap (renewer.go:76: "replays never double-debit").
PeriodsArePaidOnce ==
  /\ \A p \in Bought : Paid(periods[p].paid)
  /\ \A p \in Periods :
       Cardinality({k \in {"subrenew"} \X {p} \X Times : ~Bank!Fresh(Account, k)})
         <= 1

\* renewer.go:90-91: a renewed period "is never re-picked", so when nothing
\* fails and the user does not opt in again a payment buys one period.
PaymentsBuyOnePeriod ==
  setting.faults = {} /\ TRUE \notin setting.wishes =>
    \A p, q \in Bought : periods[p].paid = periods[q].paid => p = q

\* A renewal that was paid gets its period, although cycles crash between the
\* payment and the activation.  (A payment stays paid and a row stays: "again
\* and again every payment has its period" says each one gets it.)
Delivered(k) == \E q \in Bought : periods[q].paid = k

RenewalsRecover ==
  []<>(\A p \in Periods : Paid(RenewalKey(p)) => Delivered(RenewalKey(p)))
=============================================================================
