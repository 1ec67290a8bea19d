---------------------------- MODULE WorkerProofs ----------------------------
(***************************************************************************)
(* Proofs about the cycles of the worker processes: subscriptions, for any *)
(* buyers, workers, plan and bounds, and the synchronisation of bills, for *)
(* any bills, adapters, workers and page sizes.                            *)
(***************************************************************************)
EXTENDS Subscriptions, BillingSync, FiniteSetTheorems, WellFoundedInduction, TLAPS

Present(p) == periods[p].status # "none"

\* A worker past "idle" has renewals left, of periods that are there.
WorkOK ==
  \A w \in Workers :
    /\ at[w] # "done"
    /\ due[w] = {} <=> at[w] = "idle"
    /\ \A p \in due[w] : Present(p)

BuyersOK == \A b \in Buyers : at[b] \in {"idle", "read", "insert", "done"}

\* The last day a period may reach, if its row is the p-th.
Latest(p) == MaxTime + p * Duration

\* Rows are inserted in the order of their ids, each at most one duration
\* beyond the rows before it.
RowsInOrder ==
  /\ \A p, q \in Periods : Present(q) /\ p < q => Present(p)
  /\ \A p \in Periods : periods[p].expires <= Latest(p)
  /\ \A a \in Actors, p \in Periods : ~Present(p) => base[a] <= Latest(p - 1)

\* What is in the ledger was paid for a subscription, and a renewal is paid
\* under the expiry of the period it renews, which never changes.
KeysOK ==
  \A k \in Keys \ {TopUpKey} : ~Bank!Fresh(Account, k) =>
    /\ Paid(k)
    /\ \A p \in Periods, t \in Times :
         k = <<"subrenew", p, t>> => Present(p) /\ t = periods[p].expires

\* Rows, and activations under way, are paid.
RowsPaid ==
  /\ \A p \in Bought : Paid(periods[p].paid)
  /\ \A a \in Actors : at[a] \in {"read", "insert"} => Paid(PaymentKey(a))

\* A purchase that is under way has no row yet.
PurchasesOpen ==
  \A q \in Bought, b \in Buyers :
    periods[q].paid = PurchaseKey(b) => at[b] = "done"

Calm == setting.faults = {} /\ TRUE \notin setting.wishes

\* The lease is held while a worker is busy, and one worker is busy at most.
OneCycle ==
  \A w \in Workers : at[w] # "idle" =>
    lease /\ \A v \in Workers : at[v] # "idle" => v = w

\* A period that has been renewed is not due again.
RenewedOnce ==
  \A q \in Bought, p \in Periods :
    Present(p) /\ periods[q].paid = RenewalKey(p) =>
      \/ ~periods[p].auto /\ \A w \in Workers : p \notin due[w]
      \/ \E w \in Workers : at[w] = "supersede" /\ p = Current(w)

DistinctPayments ==
  \A p, q \in Bought : periods[p].paid = periods[q].paid => p = q

Delivering ==
  /\ PurchasesOpen
  /\ Calm => OneCycle /\ RenewedOnce /\ DistinctPayments

IInv == TypeOK /\ WorkOK /\ BuyersOK /\ RowsInOrder /\ KeysOK /\ RowsPaid /\ Delivering
-----------------------------------------------------------------------------
(* Least and greatest elements.                                            *)

LEMMA LeastIn ==
  ASSUME NEW S \in SUBSET Nat, S # {}
  PROVE  Min(S) \in S /\ \A y \in S : Min(S) <= y
<1> DEFINE R == OpToRel(<, Nat)
<1>1. IsWellFoundedOn(R, Nat)
  BY NatLessThanWellFounded
<1>2. \A x, y \in Nat : <<x, y>> \in R <=> x < y
  BY DEF OpToRel
<1> HIDE DEF R
<1>3. PICK x \in S : \A y \in S : ~ (<<y, x>> \in R)
  BY <1>1, WFMin
<1>4. \A y \in S : ~ (y < x)
  BY <1>2, <1>3
<1>5. \A y \in S : x <= y
  BY <1>4
<1> QED
  BY <1>5 DEF Min

LEMMA GreatestIn ==
  ASSUME NEW B \in Nat, NEW S \in SUBSET (0 .. B), S # {}
  PROVE  Max(S) \in S
<1> DEFINE D == {d \in 0 .. B : B - d \in S}
<1>1. D \in SUBSET Nat /\ D # {}
  <2>1. PICK x \in S : TRUE
    OBVIOUS
  <2>2. B - x \in 0 .. B /\ B - (B - x) = x
    OBVIOUS
  <2>3. B - x \in D
    BY <2>1, <2>2
  <2>4. D \in SUBSET Nat
    OBVIOUS
  <2> QED
    BY <2>3, <2>4
<1>2. Min(D) \in D /\ \A d \in D : Min(D) <= d
  BY <1>1, LeastIn
<1>3. B - Min(D) \in S
  BY <1>2
<1>4. \A y \in S : B - Min(D) >= y
  <2> SUFFICES ASSUME NEW y \in S PROVE B - Min(D) >= y
    OBVIOUS
  <2>1. B - y \in D
    OBVIOUS
  <2>2. Min(D) <= B - y
    BY <2>1, <1>2
  <2> HIDE DEF D
  <2>3. Min(D) \in 0 .. B
    BY <1>2 DEF D
  <2> QED
    BY <2>2, <2>3
<1> QED
  BY <1>3, <1>4 DEF Max

\* The renewal at hand is one of those left.
LEMMA CurrentIsDue ==
  ASSUME TypeOK, NEW w \in Workers, due[w] # {}
  PROVE  Current(w) \in due[w] /\ Current(w) \in Periods
<1>1. due[w] \in SUBSET Nat /\ due[w] \in SUBSET Periods
  BY DEF TypeOK, Periods
<1> QED
  BY <1>1, LeastIn DEF Current

\* The row of the next period is the first unused one.
LEMMA NextRow ==
  ASSUME TypeOK, Unused # {}
  PROVE  /\ Min(Unused) \in Periods
         /\ ~Present(Min(Unused))
         /\ \A p \in Periods : ~Present(p) => Min(Unused) <= p
<1>1. Unused \in SUBSET Nat
  BY DEF Unused, Periods
<1>2. Min(Unused) \in Unused /\ \A y \in Unused : Min(Unused) <= y
  BY <1>1, LeastIn
<1> QED
  BY <1>2 DEF Unused, Present

\* The expiries of rows in order are within the range of the clock.
LEMMA LatestGrows ==
  ASSUME NEW p \in Nat, NEW q \in Nat, p <= q
  PROVE  Latest(p) \in Nat /\ Latest(p) <= Latest(q)
<1>1. ASSUME NEW d \in Nat PROVE p * d \in Nat /\ p * d <= q * d
  <2>1. PICK e \in Nat : q = p + e
    BY q - p \in Nat
  <2>2. q * d = p * d + e * d /\ e * d >= 0 /\ p * d >= 0
    BY <2>1
  <2> QED
    BY <2>2
<1> QED
  BY <1>1, BoundsAssumption DEF Latest

LEMMA LatestStep ==
  ASSUME NEW p \in Nat \ {0}
  PROVE  Latest(p) = Latest(p - 1) + Duration
BY BoundsAssumption DEF Latest

LEMMA LatestIsTime ==
  ASSUME NEW p \in Periods \cup {0}, NEW t \in Nat, t <= Latest(p)
  PROVE  t \in Times
<1>1. p \in Nat /\ MaxPeriods + 1 \in Nat /\ p <= MaxPeriods + 1
  BY BoundsAssumption DEF Periods
<1>2. Latest(p) <= Latest(MaxPeriods + 1) /\ Latest(p) \in Nat
  BY <1>1, LatestGrows
<1> QED
  BY <1>2, BoundsAssumption DEF Times, Latest

-----------------------------------------------------------------------------
(* Types and rows.                                                         *)

LEMMA KeyTyped ==
  ASSUME TypeOK, NEW a \in Actors, a \in Workers => due[a] # {}
  PROVE  PaymentKey(a) \in Keys \ {TopUpKey}
<1>1. CASE a \in Buyers
  BY <1>1 DEF PaymentKey, PurchaseKey, Keys, TopUpKey
<1>2. CASE a \notin Buyers
  <2>1. Current(a) \in Periods
    BY <1>2, CurrentIsDue DEF Actors
  <2>2. periods[Current(a)].expires \in Times
    BY <2>1 DEF TypeOK, Period
  <2> QED
    BY <1>2, <2>1, <2>2 DEF PaymentKey, RenewalKey, Keys, TopUpKey
<1> QED
  BY <1>1, <1>2

\* A payment writes one row.
LEMMA PayShape ==
  ASSUME TypeOK, NEW k \in Keys, Pay(k)
  PROVE  /\ Bank!TypeOK' /\ setting' = setting
         /\ Bank!Fresh(Account, k) /\ Paid(k)'
         /\ \A j \in Keys \ {k} : ledger'[Account][j] = ledger[Account][j]
<1>1. [type |-> "subscription", amount |-> -Price] \in Bank!Row
  BY PriceAssumption, BoundsAssumption
     DEF Bank!Row, Bank!TxTypes, Bank!Debits, Bank!Credits
<1>2. Price \in Int
  BY PriceAssumption, BoundsAssumption
<1> QED
  BY <1>1, <1>2 DEF TypeOK, Pay, Paid, Bank!TypeOK, Bank!Spend, Bank!WriteRow,
                    Bank!Move

\* What is read as the start of the next period is at most one duration before
\* the last day of any row that is still unused.
LEMMA BaseIsEarly ==
  ASSUME TypeOK, RowsInOrder,
         NEW S, S = {clock} \cup {periods[p].expires : p \in {q \in Periods : Running(q)}}
  PROVE  /\ Max(S) \in Times /\ clock \in Times
         /\ \A p \in Periods : ~Present(p) =>
              Max(S) <= Latest(p - 1) /\ clock <= Latest(p - 1)
<1>1. clock \in Times /\ clock \in Nat /\ clock <= Latest(0)
  <2>1. clock \in Nat /\ clock <= MaxTime /\ 0 * Duration = 0
    BY BoundsAssumption DEF TypeOK
  <2> QED
    BY <2>1, LatestIsTime, BoundsAssumption DEF Latest
<1>2. \A q \in Periods : periods[q].expires \in Times
  BY DEF TypeOK, Period
<1> DEFINE B == MaxTime + (MaxPeriods + 1) * Duration
<1>3. B \in Nat /\ Times = 0 .. B
  <2>1. Latest(MaxPeriods + 1) \in Nat
    BY LatestGrows, BoundsAssumption
  <2> QED
    BY <2>1 DEF Times, Latest
<1> HIDE DEF B
<1>4. S \in SUBSET (0 .. B) /\ S # {}
  BY <1>1, <1>2, <1>3
<1>5. Max(S) \in S
  BY <1>3, <1>4, GreatestIn
<1>6. ASSUME NEW p \in Periods, ~Present(p), NEW x \in S
      PROVE  x <= Latest(p - 1)
  <2>1. p - 1 \in Nat /\ Latest(p - 1) \in Nat
    BY LatestGrows DEF Periods
  <2>2. Latest(0) <= Latest(p - 1) /\ Latest(0) \in Nat
    BY <2>1, LatestGrows
  <2>3. ASSUME NEW q \in Periods, Running(q) PROVE periods[q].expires <= Latest(p - 1)
    <3>1. Present(q)
      BY <2>3 DEF Running, Present
    <3>2. q <= p - 1 /\ q \in Nat
      BY <1>6, <3>1 DEF RowsInOrder, Periods
    <3>3. Latest(q) <= Latest(p - 1) /\ Latest(q) \in Nat
      BY <2>1, <3>2, LatestGrows
    <3>4. periods[q].expires <= Latest(q) /\ periods[q].expires \in Nat
      BY <1>2, <1>3 DEF RowsInOrder
    <3> QED
      BY <2>1, <3>3, <3>4
  <2> QED
    BY <1>1, <2>1, <2>2, <2>3
<1> QED
  BY <1>1, <1>3, <1>4, <1>5, <1>6

TypedWork == TypeOK /\ WorkOK /\ BuyersOK

\* The end of a renewal leaves a worker idle or with renewals left.
LEMMA NextRenewalTyped ==
  ASSUME TypedWork, NEW w \in Workers, at[w] # "idle", NextRenewal(w),
         UNCHANGED <<wallet, clock, lease, auto, base>>,
         \/ UNCHANGED periods
         \/ periods' = [periods EXCEPT ![Current(w)].auto = FALSE]
  PROVE  TypedWork'
<1> USE DEF TypedWork
<1>1. PICK c \in Periods : c = Current(w) /\ c \in due[w]
  BY CurrentIsDue DEF WorkOK
<1>2. /\ due' = [due EXCEPT ![w] = @ \ {c}]
      /\ at' = [at EXCEPT ![w] = IF due[w] = {c} THEN "idle" ELSE "check"]
  BY <1>1 DEF NextRenewal, Goto
<1>3. periods' \in [Periods -> Period] /\ \A p \in Periods : Present(p)' = Present(p)
  <2>1. periods' = periods \/ periods' = [periods EXCEPT ![c].auto = FALSE]
    BY <1>1
  <2>2. periods \in [Periods -> Period] /\ periods[c] \in Period
    BY DEF TypeOK
  <2>3. ASSUME NEW x \in Period
        PROVE  /\ [x EXCEPT !.auto = FALSE] \in Period
               /\ [x EXCEPT !.auto = FALSE].status = x.status
    BY DEF Period
  <2> QED
    BY <2>1, <2>2, <2>3 DEF Present
<1>4. TypeOK'
  BY <1>2, <1>3 DEF TypeOK, Actors, wallet, Bank!TypeOK
<1>5. WorkOK'
  <2> SUFFICES ASSUME NEW v \in Workers
               PROVE  /\ at'[v] # "done"
                      /\ due'[v] = {} <=> at'[v] = "idle"
                      /\ \A p \in due'[v] : Present(p)'
    BY DEF WorkOK
  <2>1. due[v] \in SUBSET Periods
    BY DEF TypeOK
  <2>2. CASE v = w
    BY <1>1, <1>2, <1>3, <2>1, <2>2 DEF WorkOK, TypeOK, Actors
  <2>3. CASE v # w
    BY <1>2, <1>3, <2>1, <2>3 DEF WorkOK, TypeOK, Actors
  <2> QED
    BY <2>2, <2>3
<1>6. BuyersOK'
  BY <1>2, ActorsAssumption DEF BuyersOK, TypeOK, Actors
<1> QED
  BY <1>4, <1>5, <1>6

\* A step that moves an actor from one statement of a transaction to the next.
LEMMA GotoTyped ==
  ASSUME TypedWork, NEW a \in Actors, NEW l, Goto(a, l),
         IF a \in Buyers THEN l \in {"read", "insert", "done"}
            ELSE /\ l \in {"check", "spend", "read", "insert", "supersede"}
                 /\ at[a] # "idle"
  PROVE  /\ at' \in [Actors -> {"idle", "check", "spend", "read", "insert",
                                "supersede", "done"}]
         /\ \A w \in Workers : at'[w] # "done" /\ (at'[w] = "idle" <=> at[w] = "idle")
         /\ BuyersOK'
BY ActorsAssumption DEF TypedWork, TypeOK, WorkOK, BuyersOK, Goto, Actors

LEMMA TypeStep ==
  ASSUME TypedWork, RowsInOrder, [Next]_vars
  PROVE  TypedWork'
<1> USE DEF TypedWork
<1>1. ASSUME Tick \/ Lapse \/ LeaseExpires PROVE TypedWork'
  <2>1. clock' \in 0 .. MaxTime
    BY <1>1, SettingsAssumption, BoundsAssumption
       DEF Tick, Lapse, LeaseExpires, TypeOK, Setting
  <2>2. periods' \in [Periods -> Period] /\ \A p \in Periods : Present(p)' = Present(p)
    BY <1>1 DEF Tick, Lapse, LeaseExpires, TypeOK, Period, Present
  <2> QED
    BY <1>1, <2>1, <2>2 DEF Tick, Lapse, LeaseExpires, TypeOK, WorkOK, BuyersOK,
                            wallet, Bank!TypeOK
<1>2. ASSUME NEW wish \in setting.wishes, SetAutoRenew(wish) PROVE TypedWork'
  <2>1. wish \in BOOLEAN
    BY SettingsAssumption DEF TypeOK, Setting
  <2>2. periods' \in [Periods -> Period] /\ \A p \in Periods : Present(p)' = Present(p)
    BY <1>2, <2>1 DEF SetAutoRenew, TypeOK, Period, Present
  <2> QED
    BY <1>2, <2>2 DEF SetAutoRenew, TypeOK, WorkOK, BuyersOK, wallet, Bank!TypeOK
<1>3. ASSUME NEW b \in Buyers, Purchase(b) PROVE TypedWork'
  <2>1. PurchaseKey(b) \in Keys
    BY DEF PurchaseKey, Keys
  <2>2. Bank!TypeOK' /\ setting' = setting
    BY <1>3, <2>1, PayShape DEF Purchase, TypeOK, wallet, Bank!TypeOK
  <2>3. auto' \in [Buyers -> BOOLEAN]
    BY <1>3, SettingsAssumption DEF Purchase, TypeOK, Setting
  <2>4. PICK l \in {"read", "done"} : Goto(b, l)
    BY <1>3 DEF Purchase
  <2>5. b \in Actors
    BY DEF Actors
  <2> QED
    BY <1>3, <2>2, <2>3, <2>4, <2>5, GotoTyped DEF Purchase, TypeOK, WorkOK, Present
<1>4. ASSUME NEW a \in Actors, GiveUp(a), at[a] \in {"read", "insert"},
             UNCHANGED <<wallet, clock, periods, lease, auto>>,
             base' \in [Actors -> Times], a \notin Buyers => UNCHANGED base
      PROVE  TypedWork'
  <2>1. CASE a \in Buyers
    BY <1>4, <2>1, GotoTyped
       DEF GiveUp, TypeOK, WorkOK, Present, wallet, Bank!TypeOK
  <2>2. CASE a \notin Buyers
    BY <1>4, <2>2, NextRenewalTyped DEF GiveUp, Actors
  <2> QED
    BY <2>1, <2>2
<1>5. ASSUME NEW a \in Actors, ReadBase(a) PROVE TypedWork'
  <2> DEFINE S == {clock} \cup {periods[p].expires : p \in {q \in Periods : Running(q)}}
  <2>1. Max(S) \in Times /\ clock \in Times
    BY BaseIsEarly
  <2> HIDE DEF S
  <2>2. base' \in [Actors -> Times]
    BY <1>5, <2>1 DEF ReadBase, TypeOK, S
  <2>3. CASE Goto(a, "insert") /\ UNCHANGED due
    <3>1. at[a] # "idle"
      BY <1>5 DEF ReadBase
    <3> QED
      BY <1>5, <2>2, <2>3, <3>1, GotoTyped
         DEF ReadBase, TypeOK, WorkOK, Present, wallet, Bank!TypeOK
  <2>4. CASE GiveUp(a) /\ UNCHANGED base
    BY <1>4, <1>5, <2>2, <2>4 DEF ReadBase
  <2> QED
    BY <1>5, <2>3, <2>4 DEF ReadBase
<1>6. ASSUME NEW a \in Actors, Insert(a) PROVE TypedWork'
  <2>1. CASE GiveUp(a) /\ UNCHANGED periods
    BY <1>4, <1>6, <2>1 DEF Insert, TypeOK
  <2>2. CASE ~(GiveUp(a) /\ UNCHANGED periods)
    <3>1. PICK r \in Periods : r = Min(Unused) /\ ~Present(r)
      BY <1>6, NextRow DEF Insert
    <3>2. base[a] \in Times /\ base[a] + Duration \in Times
      <4>1. base[a] \in Nat /\ base[a] \in Times
        BY BoundsAssumption DEF TypeOK, Times
      <4>2. base[a] <= Latest(r - 1) /\ r \in Nat \ {0}
        BY <3>1 DEF RowsInOrder, Periods
      <4>3. Latest(r) = Latest(r - 1) + Duration /\ Latest(r - 1) \in Nat
        BY <4>2, LatestStep, LatestGrows
      <4>4. base[a] + Duration \in Nat /\ base[a] + Duration <= Latest(r)
        BY <4>1, <4>2, <4>3, BoundsAssumption
      <4> QED
        BY <4>1, <4>4, LatestIsTime
    <3>3. PaymentKey(a) \in Keys
      BY <1>6, KeyTyped DEF Insert, WorkOK
    <3>4. PICK row \in Period : row.status = "active" /\ periods' = [periods EXCEPT ![r] = row]
      <4>1. (IF a \in Buyers THEN auto[a] ELSE TRUE) \in BOOLEAN
        BY DEF TypeOK
      <4> DEFINE new == [status |-> "active", start |-> base[a],
                         expires |-> base[a] + Duration,
                         auto |-> IF a \in Buyers THEN auto[a] ELSE TRUE,
                         paid |-> PaymentKey(a)]
      <4>2. new \in Period
        BY <3>2, <3>3, <4>1 DEF Period
      <4>3. periods' = [periods EXCEPT ![r] = new]
        BY <1>6, <2>2, <3>1 DEF Insert
      <4> QED
        BY <4>2, <4>3
    <3>5. periods' \in [Periods -> Period] /\ \A p \in Periods : Present(p) => Present(p)'
      BY <3>4 DEF TypeOK, Period, Present
    <3>6. PICK l \in {"done", "supersede"} :
            Goto(a, l) /\ (a \in Buyers <=> l = "done") /\ UNCHANGED due
      BY <1>6, <2>2 DEF Insert
    <3>7. at[a] # "idle"
      BY <1>6 DEF Insert
    <3>8. \A w \in Workers : due[w] \in SUBSET Periods
      BY DEF TypeOK
    <3> QED
      BY <1>6, <3>5, <3>6, <3>7, <3>8, GotoTyped
         DEF Insert, TypeOK, WorkOK, wallet, Bank!TypeOK
  <2> QED
    BY <1>6, <2>1, <2>2 DEF Insert
<1>7. ASSUME NEW w \in Workers, StartCycle(w) PROVE TypedWork'
  <2>1. DueNow \in SUBSET Periods /\ \A p \in DueNow : Present(p)
    BY DEF DueNow, Running, Present
  <2> HIDE DEF DueNow
  <2>2. TypeOK'
    BY <1>7, <2>1 DEF StartCycle, Goto, TypeOK, wallet, Bank!TypeOK
  <2>3. WorkOK'
    BY <1>7, <2>1 DEF StartCycle, Goto, WorkOK, Present, TypeOK, Actors
  <2>4. BuyersOK'
    BY <1>7, ActorsAssumption DEF StartCycle, Goto, BuyersOK, TypeOK, Actors
  <2> QED
    BY <2>2, <2>3, <2>4
<1>8. ASSUME NEW w \in Workers, CheckBalance(w) PROVE TypedWork'
  <2>1. CASE Goto(w, "spend") /\ UNCHANGED due
    BY <1>8, <2>1, GotoTyped, ActorsAssumption
       DEF CheckBalance, TypeOK, WorkOK, Present, Actors, wallet, Bank!TypeOK
  <2>2. CASE NextRenewal(w)
    BY <1>8, <2>2, NextRenewalTyped DEF CheckBalance
  <2> QED
    BY <1>8, <2>1, <2>2 DEF CheckBalance
<1>9. ASSUME NEW w \in Workers, RenewSpend(w) PROVE TypedWork'
  <2>1. CASE Goto(w, "read") /\ UNCHANGED due
    <3>1. PaymentKey(w) \in Keys
      BY <1>9, KeyTyped DEF RenewSpend, WorkOK, Actors
    <3>2. Bank!TypeOK' /\ setting' = setting
      BY <1>9, <2>1, <3>1, PayShape DEF RenewSpend, TypeOK, wallet, Bank!TypeOK, NextRenewal
    <3> QED
      BY <1>9, <2>1, <3>2, GotoTyped, ActorsAssumption
         DEF RenewSpend, TypeOK, WorkOK, Present, Actors
  <2>2. CASE NextRenewal(w) /\ UNCHANGED wallet
    BY <1>9, <2>2, NextRenewalTyped DEF RenewSpend
  <2> QED
    BY <1>9, <2>1, <2>2 DEF RenewSpend
<1>10. ASSUME NEW w \in Workers, Supersede(w) PROVE TypedWork'
  BY <1>10, NextRenewalTyped DEF Supersede
<1>11. ASSUME NEW a \in Actors, Crash(a) PROVE TypedWork'
  <2>1. TypeOK'
    BY <1>11 DEF Crash, Goto, TypeOK, wallet, Bank!TypeOK
  <2>2. WorkOK'
    BY <1>11, ActorsAssumption DEF Crash, Goto, WorkOK, Present, TypeOK, Actors
  <2>3. BuyersOK'
    BY <1>11, ActorsAssumption DEF Crash, Goto, BuyersOK, TypeOK, Actors
  <2> QED
    BY <2>1, <2>2, <2>3
<1>12. CASE UNCHANGED vars
  BY <1>12 DEF vars, TypeOK, WorkOK, BuyersOK, Present, Bank!TypeOK
<1> QED
  BY <1>1, <1>2, <1>3, <1>5, <1>6, <1>7, <1>8, <1>9, <1>10, <1>11, <1>12,
     SettingsAssumption
     DEF Next, Activate, Renew, Actors, TypeOK, Setting

-----------------------------------------------------------------------------
(* What a step does to the rows.                                           *)

RowsSame ==
  \A p \in Periods :
    /\ Present(p)' = Present(p)
    /\ periods'[p].expires = periods[p].expires
    /\ periods'[p].paid = periods[p].paid

\* Row r is inserted by a, the other rows stay.
Inserted(a, r) ==
  /\ ~Present(r) /\ Present(r)'
  /\ \A p \in Periods : ~Present(p) => r <= p
  /\ periods'[r].expires = base[a] + Duration
  /\ periods'[r].paid = PaymentKey(a)
  /\ \A p \in Periods \ {r} : periods'[p] = periods[p]
  /\ at[a] = "insert"
  /\ Goto(a, IF a \in Buyers THEN "done" ELSE "supersede")
  /\ UNCHANGED <<wallet, clock, lease, due, auto, base>>

LEMMA InsertShape ==
  ASSUME TypedWork, NEW a \in Actors, Insert(a)
  PROVE  \/ GiveUp(a) /\ UNCHANGED <<wallet, clock, periods, lease, auto, base>>
         \/ \E r \in Periods : Inserted(a, r)
<1>1. PICK r \in Periods : /\ r = Min(Unused) /\ ~Present(r)
                           /\ \A p \in Periods : ~Present(p) => r <= p
  BY NextRow DEF Insert, TypedWork
<1>2. SUFFICES ASSUME ~(GiveUp(a) /\ UNCHANGED periods)
               PROVE  Inserted(a, r)
  BY DEF Insert
<1>3. /\ periods' = [periods EXCEPT ![r] =
             [status |-> "active", start |-> base[a],
              expires |-> base[a] + Duration,
              auto |-> IF a \in Buyers THEN auto[a] ELSE TRUE,
              paid |-> PaymentKey(a)]]
      /\ Goto(a, IF a \in Buyers THEN "done" ELSE "supersede")
      /\ UNCHANGED due
  BY <1>1, <1>2 DEF Insert
<1>4. periods \in [Periods -> Period]
  BY DEF TypedWork, TypeOK
<1> QED
  BY <1>1, <1>3, <1>4 DEF Insert, Inserted, Present

\* The other writes keep what is in the rows, up to their lapse and consent.
LEMMA QuietRows ==
  ASSUME TypedWork,
         \/ Lapse \/ UNCHANGED periods
         \/ \E wish \in BOOLEAN : SetAutoRenew(wish)
         \/ \E w \in Workers : Supersede(w)
  PROVE  RowsSame
<1>1. periods \in [Periods -> Period]
  BY DEF TypedWork, TypeOK
<1>2. ASSUME NEW x \in Period, NEW b
      PROVE  LET y == [x EXCEPT !.auto = b] IN
             y.status = x.status /\ y.expires = x.expires /\ y.paid = x.paid
  BY DEF Period
<1>3. ASSUME NEW x \in Period, x.status = "active"
      PROVE  LET y == [x EXCEPT !.status = "expired"] IN
             y.status = "expired" /\ y.expires = x.expires /\ y.paid = x.paid
  BY DEF Period
<1>4. CASE Lapse
  BY <1>1, <1>3, <1>4 DEF Lapse, RowsSame, Present
<1>5. ASSUME NEW wish \in BOOLEAN, SetAutoRenew(wish) PROVE RowsSame
  BY <1>1, <1>2, <1>5 DEF SetAutoRenew, RowsSame, Present
<1>6. ASSUME NEW w \in Workers, Supersede(w) PROVE RowsSame
  <2>1. PICK c : periods' = periods \/ periods' = [periods EXCEPT ![c].auto = FALSE]
    BY <1>6 DEF Supersede
  <2> DEFINE Off(x) == [x EXCEPT !.auto = FALSE]
  <2>2. \A p \in Periods : periods'[p] = periods[p] \/ periods'[p] = Off(periods[p])
    BY <1>1, <2>1
  <2>3. \A x \in Period : /\ Off(x).status = x.status
                         /\ Off(x).expires = x.expires
                         /\ Off(x).paid = x.paid
    BY <1>2
  <2>4. \A p \in Periods : periods[p] \in Period
    BY <1>1
  <2> HIDE DEF Off
  <2> QED
    BY <2>2, <2>3, <2>4 DEF RowsSame, Present
<1>7. ASSUME UNCHANGED periods PROVE RowsSame
  BY <1>7 DEF RowsSame, Present
<1> QED
  BY <1>4, <1>5, <1>6, <1>7

LEMMA RowsShape ==
  ASSUME TypedWork, [Next]_vars
  PROVE  RowsSame \/ \E a \in Actors, r \in Periods : Insert(a) /\ Inserted(a, r)
<1>8. ASSUME NEW a \in Actors, Insert(a)
      PROVE  RowsSame \/ \E r \in Periods : Inserted(a, r)
  BY <1>8, QuietRows, InsertShape
<1>9. setting.buyers \subseteq Buyers
  BY SettingsAssumption DEF TypedWork, TypeOK, Setting
<1>10. setting.wishes \subseteq BOOLEAN
  BY SettingsAssumption DEF TypedWork, TypeOK, Setting
<1> QED
  BY <1>8, <1>9, <1>10, QuietRows
     DEF Next, vars, Tick, Purchase, Activate, Renew, ReadBase, StartCycle,
         CheckBalance, RenewSpend, LeaseExpires, Crash, Actors

LEMMA RowsStep ==
  ASSUME TypedWork, RowsInOrder, [Next]_vars
  PROVE  RowsInOrder'
<1>1. ASSUME NEW a \in Actors, NEW r \in Periods, Inserted(a, r)
      PROVE  RowsInOrder'
  <2>1. base' = base /\ base[a] \in Nat
    BY <1>1, BoundsAssumption DEF Inserted, TypedWork, TypeOK, Times
  <2>2. \A p \in Periods : Present(p)' <=> Present(p) \/ p = r
    BY <1>1 DEF Inserted, Present
  <2>3. ASSUME NEW p \in Periods, NEW q \in Periods, Present(q)', p < q
        PROVE  Present(p)'
    BY <1>1, <2>2, <2>3 DEF RowsInOrder, Inserted, Periods
  <2>4. ASSUME NEW p \in Periods PROVE periods'[p].expires <= Latest(p)
    <3>1. CASE p = r
      <4>1. r \in Nat \ {0} /\ base[a] <= Latest(r - 1)
        BY <1>1 DEF RowsInOrder, Inserted, Periods
      <4>2. Latest(r) = Latest(r - 1) + Duration /\ Latest(r - 1) \in Nat
        BY <4>1, LatestStep, LatestGrows
      <4>3. periods'[p].expires = base[a] + Duration
        BY <1>1, <3>1 DEF Inserted
      <4> QED
        BY <2>1, <3>1, <4>1, <4>2, <4>3, BoundsAssumption
    <3>2. CASE p # r
      BY <1>1, <3>2 DEF RowsInOrder, Inserted
    <3> QED
      BY <3>1, <3>2
  <2> QED
    BY <2>1, <2>2, <2>3, <2>4 DEF RowsInOrder, Latest
<1>2. ASSUME NEW a \in Actors, ReadBase(a) PROVE RowsInOrder'
  <2> DEFINE S == {clock} \cup {periods[p].expires : p \in {q \in Periods : Running(q)}}
  <2>1. \A p \in Periods : ~Present(p) => Max(S) <= Latest(p - 1) /\ clock <= Latest(p - 1)
    BY BaseIsEarly DEF TypedWork
  <2>2. base' = [base EXCEPT ![a] = Max(S)] \/ base' = [base EXCEPT ![a] = clock]
          \/ UNCHANGED base
    BY <1>2 DEF ReadBase
  <2> HIDE DEF S
  <2>3. UNCHANGED periods
    BY <1>2 DEF ReadBase
  <2>4. base \in [Actors -> Times]
    BY DEF TypedWork, TypeOK
  <2> QED
    BY <2>1, <2>2, <2>3, <2>4 DEF RowsInOrder, Present, Latest
<1>3. ASSUME RowsSame, UNCHANGED base PROVE RowsInOrder'
  BY <1>3 DEF RowsSame, RowsInOrder, Present, Latest
<1>4. UNCHANGED base \/ \E a \in Actors : ReadBase(a)
  <2>1. setting.buyers \subseteq Buyers
    BY SettingsAssumption DEF TypedWork, TypeOK, Setting
  <2> QED
    BY <2>1 DEF Next, vars, Tick, Lapse, SetAutoRenew, Purchase, Activate, Renew,
            Insert, StartCycle, CheckBalance, RenewSpend, Supersede, LeaseExpires,
            Crash, Actors
<1> QED
  BY <1>1, <1>2, <1>3, <1>4, RowsShape

-----------------------------------------------------------------------------
(* The ledger pays for the rows.                                           *)

\* An actor pays for what it is about to activate.
Paying(a) ==
  /\ Pay(PaymentKey(a))
  /\ at[a] = IF a \in Buyers THEN "idle" ELSE "spend"
  /\ Goto(a, "read")
  /\ UNCHANGED <<periods, due>>

LEMMA BuyersAreActors == ASSUME TypedWork PROVE setting.buyers \subseteq Buyers
BY SettingsAssumption DEF TypedWork, TypeOK, Setting

LEMMA LedgerShape ==
  ASSUME TypedWork, [Next]_vars
  PROVE  UNCHANGED wallet \/ \E a \in Actors : Paying(a)
<1> USE ActorsAssumption, BuyersAreActors DEF Actors
<1>1. ASSUME NEW b \in Buyers, Purchase(b) PROVE UNCHANGED wallet \/ Paying(b)
  BY <1>1 DEF Purchase, Paying, PaymentKey
<1>2. ASSUME NEW w \in Workers, RenewSpend(w) PROVE UNCHANGED wallet \/ Paying(w)
  BY <1>2 DEF RenewSpend, Paying
<1> QED
  BY <1>1, <1>2
     DEF Next, vars, Tick, Lapse, SetAutoRenew, Activate, Renew, ReadBase, Insert,
         StartCycle, CheckBalance, Supersede, LeaseExpires, Crash, wallet

\* A row of the ledger that is there stays; a new one is a payment.
LEMMA LedgerKept ==
  ASSUME TypedWork, [Next]_vars, NEW k \in Keys
  PROVE  \/ ledger'[Account][k] = ledger[Account][k]
         \/ /\ Bank!Fresh(Account, k) /\ Paid(k)'
            /\ \E a \in Actors : Paying(a) /\ k = PaymentKey(a)
<1>1. ASSUME NEW a \in Actors, Paying(a)
      PROVE  \/ ledger'[Account][k] = ledger[Account][k]
             \/ Bank!Fresh(Account, k) /\ Paid(k)' /\ k = PaymentKey(a)
  <2>1. PaymentKey(a) \in Keys
    BY <1>1, KeyTyped, ActorsAssumption DEF TypedWork, WorkOK, Paying, Actors
  <2>2. PICK j \in Keys : j = PaymentKey(a)
    BY <2>1
  <2>3. Pay(j)
    BY <1>1, <2>2 DEF Paying
  <2>4. /\ Bank!Fresh(Account, j) /\ Paid(j)'
        /\ \A i \in Keys \ {j} : ledger'[Account][i] = ledger[Account][i]
    BY <2>3, PayShape DEF TypedWork
  <2> QED
    BY <2>2, <2>4
<1> QED
  BY <1>1, LedgerShape DEF wallet

LEMMA PaidStays ==
  ASSUME TypedWork, [Next]_vars, NEW k \in Keys, Paid(k)
  PROVE  Paid(k)'
BY LedgerKept DEF Paid, Bank!Fresh

\* A row that is there keeps its expiry and its payment.
LEMMA PresentStays ==
  ASSUME TypedWork, [Next]_vars, NEW p \in Periods, Present(p)
  PROVE  /\ Present(p)'
         /\ periods'[p].expires = periods[p].expires
         /\ periods'[p].paid = periods[p].paid
BY RowsShape DEF RowsSame, Inserted, Present

LEMMA KeysStep ==
  ASSUME TypedWork, KeysOK, [Next]_vars
  PROVE  KeysOK'
<1> SUFFICES ASSUME NEW k \in Keys \ {TopUpKey}, ~Bank!Fresh(Account, k)'
             PROVE  /\ Paid(k)'
                    /\ \A p \in Periods, t \in Times :
                         k = <<"subrenew", p, t>> =>
                           Present(p)' /\ t = periods'[p].expires
  BY DEF KeysOK, TopUpKey, Keys, PurchaseKey
<1>1. CASE ledger'[Account][k] = ledger[Account][k]
  <2>1. ~Bank!Fresh(Account, k)
    BY <1>1 DEF Bank!Fresh
  <2> QED
    BY <2>1, PaidStays, PresentStays DEF KeysOK
<1>2. CASE Paid(k)' /\ \E a \in Actors : Paying(a) /\ k = PaymentKey(a)
  <2>1. PICK a \in Actors : Paying(a) /\ k = PaymentKey(a)
    BY <1>2
  <2>2. ASSUME NEW p \in Periods, NEW t \in Times, k = <<"subrenew", p, t>>
        PROVE  Present(p)' /\ t = periods'[p].expires
    <3>1. a \notin Buyers
      BY <2>1, <2>2 DEF PaymentKey, PurchaseKey
    <3>2. k = RenewalKey(Current(a)) /\ due[a] # {} /\ a \in Workers
      BY <2>1, <3>1 DEF PaymentKey, Paying, TypedWork, WorkOK, Actors
    <3>3. Current(a) \in due[a] /\ Current(a) \in Periods
      BY <3>2, CurrentIsDue DEF TypedWork
    <3>4. p = Current(a) /\ t = periods[p].expires /\ Present(p)
      BY <2>2, <3>2, <3>3 DEF RenewalKey, TypedWork, WorkOK
    <3> QED
      BY <3>4, PresentStays
  <2> QED
    BY <1>2, <2>2
<1> QED
  BY <1>1, <1>2, LedgerKept

\* What an activation under way pays with was paid when it began.
LEMMA ActivationShape ==
  ASSUME TypedWork, [Next]_vars, NEW a \in Actors, at'[a] \in {"read", "insert"}
  PROVE  \/ at[a] \in {"read", "insert"} /\ (a \in Workers => due'[a] = due[a])
         \/ Paying(a)
         \/ /\ at[a] = "spend" /\ a \in Workers
            /\ ~Bank!Fresh(Account, PaymentKey(a))
            /\ UNCHANGED <<wallet, periods, due>>
<1> USE ActorsAssumption, BuyersAreActors DEF Actors
<1> DEFINE Goal == \/ at[a] \in {"read", "insert"} /\ (a \in Workers => due'[a] = due[a])
                   \/ Paying(a)
                   \/ /\ at[a] = "spend" /\ a \in Workers
                      /\ ~Bank!Fresh(Account, PaymentKey(a))
                      /\ UNCHANGED <<wallet, periods, due>>
<1>1. at \in [Actors -> {"idle", "check", "spend", "read", "insert", "supersede", "done"}]
      /\ due \in [Workers -> SUBSET Periods]
  BY DEF TypedWork, TypeOK
<1>2. ASSUME NEW w \in Workers, NextRenewal(w) PROVE Goal
  BY <1>1, <1>2 DEF NextRenewal, Goto
<1>3. ASSUME NEW b \in Actors, GiveUp(b) PROVE Goal
  BY <1>1, <1>2, <1>3 DEF GiveUp, Goto
<1>4. ASSUME NEW b \in Buyers, Purchase(b) PROVE Goal
  BY <1>1, <1>4 DEF Purchase, Paying, PaymentKey, Goto
<1>5. ASSUME NEW b \in Actors, ReadBase(b) PROVE Goal
  BY <1>1, <1>3, <1>5 DEF ReadBase, Goto
<1>6. ASSUME NEW b \in Actors, Insert(b) PROVE Goal
  BY <1>1, <1>3, <1>6 DEF Insert, Goto
<1>7. ASSUME NEW w \in Workers, StartCycle(w) PROVE Goal
  <2> HIDE DEF DueNow
  <2> QED
    BY <1>1, <1>7 DEF StartCycle, Goto
<1>8. ASSUME NEW w \in Workers, CheckBalance(w) PROVE Goal
  BY <1>1, <1>2, <1>8 DEF CheckBalance, Goto
<1>9. ASSUME NEW w \in Workers, RenewSpend(w) PROVE Goal
  BY <1>1, <1>2, <1>9 DEF RenewSpend, Goto, Paying
<1>10. ASSUME NEW w \in Workers, Supersede(w) PROVE Goal
  BY <1>2, <1>10 DEF Supersede
<1>11. ASSUME NEW b \in Actors, Crash(b) PROVE Goal
  BY <1>1, <1>11 DEF Crash, Goto
<1> QED
  BY <1>4, <1>5, <1>6, <1>7, <1>8, <1>9, <1>10, <1>11
     DEF Next, vars, Tick, Lapse, SetAutoRenew, Activate, Renew, LeaseExpires

\* The key of an activation is the same as long as its renewals are.
LEMMA KeyStays ==
  ASSUME TypedWork, [Next]_vars, NEW a \in Actors,
         a \in Workers => due[a] # {} /\ due'[a] = due[a]
  PROVE  PaymentKey(a)' = PaymentKey(a) /\ PaymentKey(a) \in Keys \ {TopUpKey}
<1>1. CASE a \in Buyers
  BY <1>1, KeyTyped, ActorsAssumption DEF PaymentKey, PurchaseKey, TypedWork
<1>2. CASE a \notin Buyers
  <2>1. a \in Workers /\ Current(a)' = Current(a)
    BY <1>2 DEF Current, Actors
  <2>2. PICK c \in Periods : c = Current(a) /\ Present(c)
    BY <2>1, CurrentIsDue DEF TypedWork, WorkOK
  <2>3. periods'[c].expires = periods[c].expires
    BY <2>2, PresentStays
  <2> QED
    BY <1>2, <2>1, <2>2, <2>3, KeyTyped DEF PaymentKey, RenewalKey, TypedWork
<1> QED
  BY <1>1, <1>2

LEMMA RowsPaidStep ==
  ASSUME TypedWork, KeysOK, RowsPaid, [Next]_vars
  PROVE  RowsPaid'
<1>1. ASSUME NEW p \in Bought' PROVE Paid(periods[p].paid)'
  <2>1. p \in Periods /\ p # 1 /\ Present(p)'
    BY DEF Bought, Present
  <2>2. CASE Present(p)
    <3>1. Paid(periods[p].paid) /\ periods[p].paid \in Keys
      BY <2>1, <2>2 DEF RowsPaid, Bought, Present, TypedWork, TypeOK, Period
    <3>2. PICK k \in Keys : k = periods[p].paid /\ periods'[p].paid = k
      BY <2>1, <2>2, <3>1, PresentStays
    <3>3. Paid(k)'
      BY <3>1, <3>2, PaidStays
    <3> QED
      BY <3>2, <3>3 DEF Paid
  <2>3. CASE ~Present(p)
    <3>1. PICK a \in Actors : Inserted(a, p)
      <4>1. ~RowsSame
        BY <2>1, <2>3 DEF RowsSame
      <4>2. PICK a \in Actors, r \in Periods : Inserted(a, r)
        BY <4>1, RowsShape
      <4>3. r = p
        BY <2>1, <2>3, <4>2 DEF Inserted, Present
      <4> QED
        BY <4>2, <4>3
    <3>2. Paid(PaymentKey(a)) /\ PaymentKey(a) \in Keys
      BY <3>1, KeyTyped DEF RowsPaid, Inserted, TypedWork, WorkOK
    <3>3. PICK k \in Keys : k = PaymentKey(a) /\ periods'[p].paid = k /\ Paid(k)
      BY <3>1, <3>2 DEF Inserted
    <3>4. Paid(k)'
      BY <3>3, PaidStays
    <3> QED
      BY <3>3, <3>4 DEF Paid
  <2> QED
    BY <2>2, <2>3
<1>2. ASSUME NEW a \in Actors, at'[a] \in {"read", "insert"} PROVE Paid(PaymentKey(a))'
  <2>1. a \in Workers => due[a] # {} /\ due'[a] = due[a]
    BY <1>2, ActivationShape, ActorsAssumption DEF Paying, TypedWork, WorkOK
  <2>2. PICK k \in Keys \ {TopUpKey} : k = PaymentKey(a) /\ PaymentKey(a)' = k
    BY <2>1, KeyStays
  <2>3. Paid(k)'
    <3>1. CASE at[a] \in {"read", "insert"}
      BY <2>2, <3>1, PaidStays DEF RowsPaid
    <3>2. CASE Pay(k)
      BY <3>2, PayShape DEF TypedWork
    <3>3. CASE ~Bank!Fresh(Account, k)
      BY <3>3, PaidStays DEF KeysOK
    <3> QED
      BY <1>2, <2>2, <3>1, <3>2, <3>3, ActivationShape DEF Paying
  <2> QED
    BY <2>2, <2>3 DEF Paid
<1> QED
  BY <1>1, <1>2 DEF RowsPaid

-----------------------------------------------------------------------------
(* A payment buys one period.                                              *)

LEMMA DoneStays ==
  ASSUME TypedWork, [Next]_vars, NEW b \in Buyers, at[b] = "done"
  PROVE  at'[b] = "done"
<1> USE ActorsAssumption, BuyersAreActors DEF Actors
<1>1. at \in [Actors -> {"idle", "check", "spend", "read", "insert", "supersede", "done"}]
  BY DEF TypedWork, TypeOK
<1>2. ASSUME NEW w \in Workers, NextRenewal(w) PROVE at'[b] = "done"
  BY <1>1, <1>2 DEF NextRenewal, Goto
<1>3. ASSUME NEW a \in Actors, ReadBase(a) \/ Insert(a) PROVE at'[b] = "done"
  BY <1>1, <1>2, <1>3 DEF ReadBase, Insert, GiveUp, Goto
<1>4. ASSUME NEW w \in Workers, StartCycle(w) PROVE at'[b] = "done"
  <2> HIDE DEF DueNow
  <2> QED
    BY <1>1, <1>4 DEF StartCycle, Goto
<1>5. ASSUME NEW w \in Workers, CheckBalance(w) \/ RenewSpend(w) \/ Supersede(w)
      PROVE  at'[b] = "done"
  BY <1>1, <1>2, <1>5 DEF CheckBalance, RenewSpend, Supersede, Goto
<1>6. ASSUME NEW a \in Actors, Crash(a) PROVE at'[b] = "done"
  BY <1>1, <1>6 DEF Crash, Goto
<1> QED
  BY <1>1, <1>3, <1>4, <1>5, <1>6
     DEF Next, vars, Tick, Lapse, SetAutoRenew, Purchase, Activate, Renew,
         LeaseExpires, Goto

LEMMA PurchasesStep ==
  ASSUME TypedWork, PurchasesOpen, [Next]_vars
  PROVE  PurchasesOpen'
<1> SUFFICES ASSUME NEW q \in Periods, Present(q)', q # 1, NEW b \in Buyers,
                    periods'[q].paid = PurchaseKey(b)
             PROVE  at'[b] = "done"
  BY DEF PurchasesOpen, Bought, Present, PurchaseKey
<1>1. CASE Present(q)
  <2>1. periods[q].paid = PurchaseKey(b)
    BY <1>1, PresentStays
  <2> QED
    BY <1>1, <2>1, DoneStays DEF PurchasesOpen, Bought, Present
<1>2. CASE ~Present(q)
  <2>1. PICK a \in Actors, r \in Periods : Inserted(a, r)
    BY <1>2, RowsShape DEF RowsSame
  <2>2. r = q
    BY <1>2, <2>1 DEF Inserted, Present
  <2>3. PaymentKey(a) = PurchaseKey(b)
    BY <2>1, <2>2 DEF Inserted
  <2>4. a = b
    BY <2>3 DEF PaymentKey, PurchaseKey, RenewalKey
  <2> QED
    BY <2>1, <2>4 DEF Inserted, Goto, TypedWork, TypeOK
<1> QED
  BY <1>1, <1>2

-----------------------------------------------------------------------------
(* What the steps of a calm behaviour do to the renewals.                  *)

\* No renewal that was not due becomes due.
ConsentShrinks ==
  \A p \in Periods : Present(p) /\ ~periods[p].auto => ~periods'[p].auto

OthersWait(w) ==
  \A v \in Workers \ {w} : at'[v] = at[v] /\ due'[v] = due[v]

NoWorkerMoves ==
  /\ \A w \in Workers : at'[w] = at[w] /\ due'[w] = due[w]
  /\ lease' = lease \/ \A w \in Workers : at[w] = "idle"
  /\ ConsentShrinks
  /\ RowsSame \/ \E b \in Buyers, r \in Periods : Inserted(b, r)

Begins(w) ==
  /\ ~lease /\ lease'
  /\ at[w] = "idle" /\ at'[w] # "supersede"
  /\ \A p \in due'[w] : periods[p].auto
  /\ OthersWait(w)
  /\ UNCHANGED periods

Proceeds(w) ==
  /\ at[w] \notin {"idle", "supersede"} /\ at'[w] # "supersede"
  /\ due'[w] \subseteq due[w]
  /\ lease' = lease
  /\ OthersWait(w)
  /\ UNCHANGED periods

Concludes(w) ==
  /\ at[w] = "supersede" /\ at'[w] # "supersede"
  /\ Current(w) \notin due'[w] /\ due'[w] \subseteq due[w]
  /\ Current(w) \in Periods /\ ~periods'[Current(w)].auto
  /\ lease' = lease
  /\ OthersWait(w)
  /\ ConsentShrinks /\ RowsSame

LEMMA NextRenewalShape ==
  ASSUME TypedWork, NEW w \in Workers, NextRenewal(w)
  PROVE  /\ at'[w] \in {"idle", "check"}
         /\ due'[w] = due[w] \ {Current(w)}
         /\ OthersWait(w)
<1>1. at \in [Actors -> {"idle", "check", "spend", "read", "insert", "supersede", "done"}]
      /\ due \in [Workers -> SUBSET Periods]
  BY DEF TypedWork, TypeOK
<1> QED
  BY <1>1 DEF NextRenewal, Goto, OthersWait, Actors

LEMMA CalmShape ==
  ASSUME TypedWork, Calm, [Next]_vars
  PROVE  \/ NoWorkerMoves
         \/ \E w \in Workers : Begins(w) \/ Proceeds(w) \/ Concludes(w)
         \/ \E w \in Workers, r \in Periods : Inserted(w, r)
<1> USE ActorsAssumption, BuyersAreActors DEF Actors
<1>1. /\ at \in [Actors -> {"idle", "check", "spend", "read", "insert", "supersede", "done"}]
      /\ due \in [Workers -> SUBSET Periods]
      /\ periods \in [Periods -> Period]
  BY DEF TypedWork, TypeOK
<1>2. ASSUME UNCHANGED periods PROVE RowsSame /\ ConsentShrinks
  BY <1>2 DEF RowsSame, ConsentShrinks, Present
<1>3. ASSUME NEW b \in Buyers, Goto(b, at'[b]), UNCHANGED <<periods, due, lease>>
      PROVE  NoWorkerMoves
  BY <1>1, <1>2, <1>3 DEF NoWorkerMoves, Goto
<1>4. ASSUME NEW w \in Workers, NEW l, Goto(w, l), l \notin {"idle", "supersede"},
             at[w] \notin {"idle", "supersede"}, UNCHANGED <<periods, due, lease>>
      PROVE  Proceeds(w)
  BY <1>1, <1>4 DEF Proceeds, Goto, OthersWait
<1>5. ASSUME NEW w \in Workers, NextRenewal(w), at[w] \notin {"idle", "supersede"},
             UNCHANGED <<periods, lease>>
      PROVE  Proceeds(w)
  BY <1>5, NextRenewalShape DEF Proceeds
<1> DEFINE Goal == \/ NoWorkerMoves
                   \/ \E w \in Workers : Begins(w) \/ Proceeds(w) \/ Concludes(w)
                   \/ \E w \in Workers, r \in Periods : Inserted(w, r)
<1>6. ASSUME Tick \/ LeaseExpires PROVE Goal
  BY <1>2, <1>6 DEF Tick, LeaseExpires, NoWorkerMoves, Calm, MayHappen
<1>7. ASSUME Lapse PROVE Goal
  <2>1. ASSUME NEW x \in Period PROVE [x EXCEPT !.status = "expired"].auto = x.auto
    BY DEF Period
  <2>2. ConsentShrinks
    BY <1>1, <1>7, <2>1 DEF Lapse, ConsentShrinks
  <2>3. RowsSame
    BY <1>7, QuietRows
  <2> QED
    BY <1>7, <2>2, <2>3 DEF Lapse, NoWorkerMoves
<1>8. ASSUME NEW wish \in setting.wishes, SetAutoRenew(wish) PROVE Goal
  <2>1. wish = FALSE
    BY SettingsAssumption DEF Calm, TypedWork, TypeOK, Setting
  <2>2. ASSUME NEW x \in Period PROVE ~[x EXCEPT !.auto = FALSE].auto
    BY DEF Period
  <2>3. ConsentShrinks
    BY <1>1, <1>8, <2>1, <2>2 DEF SetAutoRenew, ConsentShrinks
  <2>4. RowsSame
    BY <1>8, <2>1, QuietRows
  <2> QED
    BY <1>8, <2>3, <2>4 DEF SetAutoRenew, NoWorkerMoves
<1>9. ASSUME NEW b \in Buyers, Purchase(b) PROVE Goal
  <2>1. PICK l : Goto(b, l)
    BY <1>9 DEF Purchase
  <2> QED
    BY <1>1, <1>2, <1>9, <2>1 DEF Purchase, NoWorkerMoves, Goto
<1>10. ASSUME NEW a \in Actors, ReadBase(a) PROVE Goal
  <2>1. Goto(a, "insert") /\ UNCHANGED <<due, periods, lease>>
    BY <1>10 DEF ReadBase, Calm, MayHappen
  <2>2. CASE a \in Buyers
    BY <1>1, <1>2, <2>1, <2>2 DEF NoWorkerMoves, Goto
  <2>3. CASE a \in Workers
    BY <1>4, <1>10, <2>1, <2>3 DEF ReadBase
  <2> QED
    BY <2>2, <2>3
<1>11. ASSUME NEW a \in Actors, Insert(a) PROVE Goal
  <2>1. PICK r \in Periods : Inserted(a, r)
    <3>1. at'[a] \in {"done", "supersede"}
      BY <1>1, <1>11 DEF Insert, Goto, Calm, MayHappen
    <3>2. CASE GiveUp(a) /\ UNCHANGED periods
      <4>1. UNCHANGED periods => FALSE
        <5>1. PICK r \in Periods : r = Min(Unused) /\ ~Present(r)
          BY <1>11, NextRow DEF Insert, TypedWork
        <5>2. Present(r)'
          BY <1>1, <1>11, <5>1 DEF Insert, Calm, MayHappen, Present
        <5> QED
          BY <5>1, <5>2 DEF Present
      <4> QED
        BY <3>2, <4>1
    <3> QED
      BY <1>11, <3>2, InsertShape
  <2>2. CASE a \in Buyers
    <3>1. ConsentShrinks
      BY <2>1 DEF Inserted, ConsentShrinks
    <3> QED
      BY <1>1, <2>1, <2>2, <3>1 DEF NoWorkerMoves, Inserted, Goto
  <2>3. CASE a \in Workers
    BY <2>1, <2>3
  <2> QED
    BY <2>2, <2>3
<1>12. ASSUME NEW w \in Workers, StartCycle(w) PROVE Goal
  <2>1. \A p \in DueNow : periods[p].auto
    BY DEF DueNow
  <2> HIDE DEF DueNow
  <2>2. Begins(w)
    BY <1>1, <1>12, <2>1 DEF StartCycle, Begins, OthersWait, Goto
  <2> QED
    BY <2>2
<1>13. ASSUME NEW w \in Workers, CheckBalance(w) PROVE Goal
  BY <1>4, <1>5, <1>13 DEF CheckBalance
<1>14. ASSUME NEW w \in Workers, RenewSpend(w) PROVE Goal
  BY <1>4, <1>5, <1>14 DEF RenewSpend
<1>15. ASSUME NEW w \in Workers, Supersede(w) PROVE Goal
  <2>1. PICK c \in Periods : c = Current(w)
    BY <1>15, CurrentIsDue DEF Supersede, TypedWork, WorkOK
  <2>2. periods' = [periods EXCEPT ![c].auto = FALSE] /\ NextRenewal(w) /\ lease' = lease
    BY <1>15, <2>1 DEF Supersede, Calm, MayHappen
  <2>3. ASSUME NEW x \in Period PROVE ~[x EXCEPT !.auto = FALSE].auto
    BY DEF Period
  <2>4. ConsentShrinks /\ ~periods'[c].auto
    BY <1>1, <2>2, <2>3 DEF ConsentShrinks
  <2>5. /\ at'[w] \in {"idle", "check"}
        /\ due'[w] = due[w] \ {Current(w)}
        /\ OthersWait(w)
    BY <2>2, NextRenewalShape
  <2>6. RowsSame
    BY <1>15, QuietRows
  <2>7. Concludes(w)
    BY <1>15, <2>1, <2>2, <2>4, <2>5, <2>6 DEF Concludes, Supersede
  <2> QED
    BY <2>7
<1>16. ASSUME NEW a \in Actors, Crash(a) PROVE Goal
  BY <1>16 DEF Crash, Calm, MayHappen
<1>17. ASSUME UNCHANGED vars PROVE Goal
  BY <1>2, <1>17 DEF vars, NoWorkerMoves
<1> HIDE DEF Goal
<1>18. Goal
  BY <1>6, <1>7, <1>8, <1>9, <1>10, <1>11, <1>12, <1>13, <1>14, <1>15, <1>16, <1>17
     DEF Next, Activate, Renew
<1> QED
  BY <1>18 DEF Goal

LEMMA SettingStays == ASSUME TypedWork, [Next]_vars PROVE setting' = setting
BY LedgerShape DEF wallet, Paying, Pay

LEMMA OneCycleStep ==
  ASSUME TypedWork, OneCycle, Calm, [Next]_vars
  PROVE  OneCycle'
<1>1. at \in [Actors -> {"idle", "check", "spend", "read", "insert", "supersede", "done"}]
  BY DEF TypedWork, TypeOK
<1>2. ASSUME NoWorkerMoves PROVE OneCycle'
  BY <1>2 DEF OneCycle, NoWorkerMoves
<1>3. ASSUME NEW w \in Workers, Begins(w) PROVE OneCycle'
  BY <1>3 DEF OneCycle, Begins, OthersWait
<1>4. ASSUME NEW w \in Workers, Proceeds(w) \/ Concludes(w) PROVE OneCycle'
  BY <1>4 DEF OneCycle, Proceeds, Concludes, OthersWait
<1>5. ASSUME NEW w \in Workers, NEW r \in Periods, Inserted(w, r) PROVE OneCycle'
  BY <1>1, <1>5 DEF OneCycle, Inserted, Goto
<1> QED
  BY <1>2, <1>3, <1>4, <1>5, CalmShape

\* No row is paid with the key of a row that is not there, nor with the key of
\* an activation under way.
LEMMA KeyUnused ==
  ASSUME TypedWork, KeysOK, RowsPaid, NEW q \in Bought
  PROVE  \A r \in Periods, t \in Times :
           ~Present(r) => periods[q].paid # <<"subrenew", r, t>>
<1>1. Paid(periods[q].paid) /\ periods[q].paid \in Keys
  BY DEF RowsPaid, Bought, TypedWork, TypeOK, Period
<1>2. PICK k \in Keys : k = periods[q].paid /\ Paid(k)
  BY <1>1
<1>3. ~Bank!Fresh(Account, k)
  BY <1>2 DEF Paid, Bank!Fresh
<1> QED
  BY <1>2, <1>3 DEF KeysOK, TopUpKey

LEMMA KeyUnshared ==
  ASSUME TypedWork, PurchasesOpen, OneCycle, RenewedOnce,
         NEW a \in Actors, at[a] = "insert", NEW q \in Bought
  PROVE  periods[q].paid # PaymentKey(a)
<1>1. CASE a \in Buyers
  BY <1>1 DEF PaymentKey, PurchasesOpen
<1>2. CASE a \notin Buyers
  <2>1. a \in Workers /\ due[a] # {}
    BY <1>2 DEF Actors, TypedWork, WorkOK
  <2>2. PICK c \in Periods : c = Current(a) /\ c \in due[a] /\ Present(c)
    BY <2>1, CurrentIsDue DEF TypedWork, WorkOK
  <2>3. SUFFICES ASSUME periods[q].paid = RenewalKey(c) PROVE FALSE
    BY <1>2, <2>2 DEF PaymentKey
  <2>4. PICK v \in Workers : at[v] = "supersede"
    BY <2>1, <2>2, <2>3 DEF RenewedOnce
  <2> QED
    BY <2>1, <2>4 DEF OneCycle
<1> QED
  BY <1>1, <1>2

LEMMA RenewedStep ==
  ASSUME TypedWork, TypedWork', KeysOK, RowsPaid, PurchasesOpen, OneCycle, RenewedOnce,
         Calm, [Next]_vars
  PROVE  RenewedOnce'
<1> SUFFICES ASSUME NEW q \in Periods, NEW p \in Periods, Present(q)', Present(p)', q # 1,
                    periods'[q].paid = <<"subrenew", p, periods'[p].expires>>
             PROVE  \/ ~periods'[p].auto /\ \A w \in Workers : p \notin due'[w]
                    \/ \E w \in Workers : at'[w] = "supersede" /\ p = Min(due'[w])
  BY DEF RenewedOnce, Bought, Present, RenewalKey, Current
<1>1. at \in [Actors -> {"idle", "check", "spend", "read", "insert", "supersede", "done"}]
  BY DEF TypedWork, TypeOK
<1> DEFINE Left    == ~periods[p].auto /\ \A w \in Workers : p \notin due[w]
           Heir(v) == at[v] = "supersede" /\ p = Min(due[v])
<1>2. ASSUME Present(q), Present(p)
      PROVE  Left \/ \E v \in Workers : Heir(v)
  <2>1. periods[q].paid = RenewalKey(p)
    BY <1>2, PresentStays DEF RenewalKey
  <2> QED
    BY <1>2, <2>1 DEF RenewedOnce, Bought, Present, Current
<1>3. ASSUME NEW a \in Actors, NEW r \in Periods, Inserted(a, r)
      PROVE  \/ ~periods'[p].auto /\ \A w \in Workers : p \notin due'[w]
             \/ \E w \in Workers : at'[w] = "supersede" /\ p = Min(due'[w])
  <2>1. \A x \in Periods \ {r} : periods'[x] = periods[x] /\ Present(x)' = Present(x)
    BY <1>3 DEF Inserted, Present
  <2>2. CASE q = r
    <3>1. PaymentKey(a) = <<"subrenew", p, periods'[p].expires>>
      BY <1>3, <2>2 DEF Inserted
    <3>2. a \in Workers /\ p = Current(a)
      BY <3>1 DEF PaymentKey, PurchaseKey, RenewalKey, Actors
    <3> QED
      BY <1>1, <1>3, <3>2, ActorsAssumption DEF Inserted, Goto, Current
  <2>3. CASE q # r /\ p = r
    <3>1. q \in Bought /\ periods[q].paid = <<"subrenew", r, periods'[r].expires>>
      BY <2>1, <2>3 DEF Bought, Present
    <3>2. periods'[r].expires \in Times
      BY DEF TypedWork, TypeOK, Period
    <3>3. ~Present(r)
      BY <1>3 DEF Inserted
    <3> QED
      BY <3>1, <3>2, <3>3, KeyUnused
  <2>4. CASE q # r /\ p # r
    <3>1. Left \/ \E v \in Workers : Heir(v)
      BY <1>2, <2>1, <2>4
    <3>2. CASE Left
      BY <1>3, <2>1, <2>4, <3>2 DEF Inserted
    <3>3. ASSUME NEW v \in Workers, Heir(v) PROVE at'[v] = "supersede" /\ p = Min(due'[v])
      <4>1. v # a
        BY <1>3, <3>3 DEF Inserted
      <4> QED
        BY <1>1, <1>3, <3>3, <4>1 DEF Inserted, Goto, Actors
    <3> QED
      BY <3>1, <3>2, <3>3
  <2> QED
    BY <2>2, <2>3, <2>4
<1>4. ASSUME RowsSame PROVE Left \/ \E v \in Workers : Heir(v)
  BY <1>2, <1>4 DEF RowsSame
<1>5. ASSUME UNCHANGED periods PROVE RowsSame /\ ConsentShrinks
  BY <1>5 DEF RowsSame, ConsentShrinks, Present
<1>6. ASSUME RowsSame PROVE Present(p)
  BY <1>6 DEF RowsSame
<1>7. ASSUME NoWorkerMoves, RowsSame
      PROVE  \/ ~periods'[p].auto /\ \A w \in Workers : p \notin due'[w]
             \/ \E w \in Workers : at'[w] = "supersede" /\ p = Min(due'[w])
  BY <1>4, <1>6, <1>7 DEF NoWorkerMoves, ConsentShrinks
<1>8. ASSUME NEW w \in Workers, Begins(w)
      PROVE  ~periods'[p].auto /\ \A v \in Workers : p \notin due'[v]
  <2>1. Left
    BY <1>4, <1>5, <1>8 DEF Begins, OneCycle
  <2> QED
    BY <1>8, <2>1 DEF Begins, OthersWait
<1>9. ASSUME NEW w \in Workers, Proceeds(w)
      PROVE  ~periods'[p].auto /\ \A v \in Workers : p \notin due'[v]
  <2>1. Left
    BY <1>4, <1>5, <1>9 DEF Proceeds, OneCycle
  <2> QED
    BY <1>9, <2>1 DEF Proceeds, OthersWait
<1>10. ASSUME NEW w \in Workers, Concludes(w)
       PROVE  ~periods'[p].auto /\ \A v \in Workers : p \notin due'[v]
  <2>1. Present(p) /\ (Left \/ \E v \in Workers : Heir(v))
    BY <1>4, <1>6, <1>10 DEF Concludes
  <2>2. CASE Left
    BY <1>10, <2>1, <2>2 DEF Concludes, OthersWait, ConsentShrinks
  <2>3. ASSUME NEW v \in Workers, Heir(v)
        PROVE  ~periods'[p].auto /\ \A u \in Workers : p \notin due'[u]
    <3>1. v = w /\ \A u \in Workers \ {w} : at[u] = "idle"
      BY <1>10, <2>3 DEF Concludes, OneCycle
    <3>2. p = Current(w) /\ \A u \in Workers \ {w} : due[u] = {}
      BY <2>3, <3>1 DEF Current, TypedWork, WorkOK
    <3> QED
      BY <1>10, <3>2 DEF Concludes, OthersWait
  <2> QED
    BY <2>1, <2>2, <2>3
<1> HIDE DEF Left, Heir
<1> QED
  BY <1>3, <1>7, <1>8, <1>9, <1>10, CalmShape DEF NoWorkerMoves, Actors

LEMMA DistinctStep ==
  ASSUME TypedWork, PurchasesOpen, OneCycle, RenewedOnce, DistinctPayments, [Next]_vars
  PROVE  DistinctPayments'
<1>1. CASE RowsSame
  BY <1>1 DEF RowsSame, DistinctPayments, Bought, Present
<1>2. ASSUME NEW a \in Actors, NEW r \in Periods, Inserted(a, r)
      PROVE  DistinctPayments'
  <2>1. \A x \in Periods \ {r} : periods'[x] = periods[x] /\ Present(x)' = Present(x)
    BY <1>2 DEF Inserted, Present
  <2>2. \A q \in Bought : periods[q].paid # periods'[r].paid
    BY <1>2, KeyUnshared DEF Inserted
  <2>3. \A x \in Bought' : x # r => x \in Bought /\ periods'[x].paid = periods[x].paid
    BY <2>1 DEF Bought, Present
  <2>4. \A x \in Bought' : x # r => periods'[x].paid # periods'[r].paid
    BY <2>2, <2>3
  <2> QED
    BY <2>3, <2>4 DEF DistinctPayments
<1> QED
  BY <1>1, <1>2, RowsShape

-----------------------------------------------------------------------------
(* The theorems.                                                           *)

LEMMA InitIsSound == Init => IInv
<1> SUFFICES ASSUME Init PROVE IInv
  OBVIOUS
<1>1. 1 \in Periods /\ Duration \in Times /\ 0 \in Times /\ 1 * Duration = Duration
  <2>1. Latest(1) = Latest(0) + Duration /\ Latest(0) = MaxTime + 0 * Duration
    BY LatestStep DEF Latest
  <2>2. 0 * Duration = 0 /\ 1 \in Periods /\ 1 * Duration = Duration
    BY BoundsAssumption DEF Periods
  <2>3. Duration <= Latest(1) /\ 0 <= Latest(1)
    BY <2>1, <2>2, BoundsAssumption
  <2> QED
    BY <2>2, <2>3, LatestIsTime, BoundsAssumption
<1>2. TopUpKey \in Keys
  BY DEF Keys
<1>3. TypeOK
  <2>1. /\ [type |-> "topup", amount |-> setting.funds] \in Bank!Row
        /\ Bank!NoRow \in Bank!Row
        /\ setting \in Settings /\ setting.funds \in Int
    BY SettingsAssumption, BoundsAssumption
       DEF Init, Setting, Bank!Row, Bank!NoRow, Bank!TxTypes, Bank!Debits, Bank!Credits
  <2>2. Bank!TypeOK
    <3> DEFINE bought == [type |-> "topup", amount |-> setting.funds]
    <3>1. /\ balance = [w \in {Account} |-> setting.funds]
          /\ frozen = [w \in {Account} |-> 0]
          /\ ledger = [w \in {Account} |-> [k \in Keys |->
                         IF k = TopUpKey THEN bought ELSE Bank!NoRow]]
      BY DEF Init
    <3>2. bought \in Bank!Row
      BY <2>1
    <3> HIDE DEF bought
    <3> QED
      BY <2>1, <3>1, <3>2 DEF Bank!TypeOK
  <2>3. NoPeriod \in Period /\ [NoPeriod EXCEPT !.status = "active",
                                      !.expires = Duration, !.auto = TRUE] \in Period
    BY <1>1, <1>2 DEF NoPeriod, Period
  <2>4. periods \in [Periods -> Period]
    BY <2>3 DEF Init
  <2>5. clock \in 0 .. MaxTime /\ lease \in BOOLEAN /\ base \in [Actors -> Times]
    <3>1. clock = 0 /\ lease = FALSE /\ base = [a \in Actors |-> 0]
      BY DEF Init
    <3>2. 0 \in Times /\ 0 \in 0 .. MaxTime
      BY <1>1, BoundsAssumption
    <3> QED
      BY <3>1, <3>2
  <2>6. /\ at \in [Actors -> {"idle", "check", "spend", "read", "insert",
                              "supersede", "done"}]
        /\ due \in [Workers -> SUBSET Periods]
        /\ auto \in [Buyers -> BOOLEAN]
    BY DEF Init
  <2> QED
    BY <2>1, <2>2, <2>4, <2>5, <2>6 DEF TypeOK
<1>4. /\ \A p \in Periods : Present(p) <=> p = 1
      /\ \A p \in Periods \ {1} : periods[p].expires = 0
      /\ periods[1].expires = Duration
  BY <1>1 DEF Init, Present, NoPeriod
<1>5. \A a \in Actors : at[a] = "idle" /\ base[a] = 0
  BY DEF Init
<1>6. WorkOK /\ BuyersOK
  BY <1>5 DEF Init, WorkOK, BuyersOK, Actors
<1>7. RowsInOrder
  <2>1. \A p \in Periods : /\ Latest(p) \in Nat /\ Latest(p - 1) \in Nat /\ p \in Nat \ {0}
                           /\ Latest(p) = Latest(p - 1) + Duration
    BY LatestGrows, LatestStep DEF Periods
  <2>2. \A p \in Periods : 0 <= Latest(p) /\ Duration <= Latest(p) /\ 0 <= Latest(p - 1)
    BY <2>1, BoundsAssumption
  <2>3. ASSUME NEW p \in Periods, NEW q \in Periods, Present(q), p < q PROVE FALSE
    BY <1>4, <2>1, <2>3
  <2> QED
    BY <1>4, <1>5, <2>2, <2>3 DEF RowsInOrder
<1>8. \A k \in Keys \ {TopUpKey} : Bank!Fresh(Account, k)
  BY DEF Init, Bank!Fresh, Bank!NoRow
<1>9. Bought = {}
  BY <1>4 DEF Bought, Present
<1>10. KeysOK /\ RowsPaid
  BY <1>5, <1>8, <1>9 DEF KeysOK, RowsPaid
<1>11. Delivering
  BY <1>5, <1>9 DEF Delivering, PurchasesOpen, OneCycle, RenewedOnce, DistinctPayments, Actors
<1> QED
  BY <1>3, <1>6, <1>7, <1>10, <1>11 DEF IInv

LEMMA IInvInductive == IInv /\ [Next]_vars => IInv'
<1> SUFFICES ASSUME IInv, [Next]_vars PROVE IInv'
  OBVIOUS
<1>1. TypedWork /\ TypedWork'
  BY TypeStep DEF IInv, TypedWork
<1>2. RowsInOrder' /\ KeysOK' /\ RowsPaid'
  BY <1>1, RowsStep, KeysStep, RowsPaidStep DEF IInv
<1>3. PurchasesOpen'
  BY <1>1, PurchasesStep DEF IInv, Delivering
<1>4. Calm' => Calm
  BY <1>1, SettingStays DEF Calm
<1>5. Calm => OneCycle' /\ RenewedOnce' /\ DistinctPayments'
  BY <1>1, OneCycleStep, RenewedStep, DistinctStep DEF IInv, Delivering
<1> QED
  BY <1>1, <1>2, <1>3, <1>4, <1>5 DEF IInv, Delivering, TypedWork

\* The inductive invariant holds of every reachable state.
THEOREM Inductive == Spec => []IInv
BY InitIsSound, IInvInductive, PTL DEF Spec

\* Wallet, rows, cycles and activations keep their types.
THEOREM TypeCorrect == Spec => []TypeOK
<1>1. IInv => TypeOK
  BY DEF IInv
<1> QED
  BY <1>1, Inductive, PTL

\* Whatever fails or overlaps, every period was paid for and no renewal twice.
THEOREM RenewalsArePaidOnce == Spec => []PeriodsArePaidOnce
<1>1. IInv => PeriodsArePaidOnce
  <2> SUFFICES ASSUME TypeOK, KeysOK, RowsPaid PROVE PeriodsArePaidOnce
    BY DEF IInv
  <2>1. ASSUME NEW p \in Periods
        PROVE  Cardinality({k \in {"subrenew"} \X {p} \X Times : ~Bank!Fresh(Account, k)}) <= 1
    <3> DEFINE S == {k \in {"subrenew"} \X {p} \X Times : ~Bank!Fresh(Account, k)}
               x == <<"subrenew", p, periods[p].expires>>
    <3>1. \A k \in S : k = x
      <4> SUFFICES ASSUME NEW t \in Times, ~Bank!Fresh(Account, <<"subrenew", p, t>>)
                   PROVE  t = periods[p].expires
        OBVIOUS
      <4>1. <<"subrenew", p, t>> \in Keys \ {TopUpKey}
        BY DEF Keys, TopUpKey
      <4> QED
        BY <4>1 DEF KeysOK
    <3>2. S \subseteq {x}
      BY <3>1
    <3> HIDE DEF S, x
    <3>3. IsFiniteSet({x}) /\ Cardinality({x}) = 1
      BY FS_Singleton
    <3>4. Cardinality(S) <= Cardinality({x})
      BY <3>2, <3>3, FS_Subset
    <3> QED
      BY <3>3, <3>4 DEF S
  <2> QED
    BY <2>1 DEF PeriodsArePaidOnce, RowsPaid
<1> QED
  BY <1>1, Inductive, PTL

\* While nothing fails and the user does not opt in again, no payment gets two
\* periods: neither the lease nor the purchases let one slip through.
THEOREM OnePeriodPerPayment == Spec => []PaymentsBuyOnePeriod
<1>1. IInv => PaymentsBuyOnePeriod
  BY DEF IInv, Delivering, Calm, DistinctPayments, PaymentsBuyOnePeriod
<1> QED
  BY <1>1, Inductive, PTL
-----------------------------------------------------------------------------
(* The synchronisation of bills.                                             *)

USE SyncAssumption, NumbersAssumption

\* A cursor in use has a page of at least one.
Cursors == {NoCursor} \cup (Int \X (Nat \ {0}))

Ranges == [from : Int, to : Nat, cursor : Cursors]

Runs == [pc : {"idle", "listed", "fetch", "save", "done", "fail"}, from : Int, to : Nat,
         cursor : Cursors, left : SUBSET Records, next : Cursors]

\* A range ends no earlier than it begins.
SyncTyped ==
  /\ profile \in Profiles
  /\ now \in Nat /\ origin \in Int
  /\ upstream \subseteq Records
  /\ conn \in [exists : BOOLEAN, active : BOOLEAN, due : BOOLEAN, through : Nat,
               checkpoint : Ranges]
  /\ conn.checkpoint.from <= conn.checkpoint.to
  /\ sync \in [SyncWorkers -> Runs]
  /\ \A w \in SyncWorkers : sync[w].from <= sync[w].to

\* The bills that were listed in time.
Prompt == upstream \ late

InRange(r, u) == u.from <= At[r] /\ At[r] < u.to

\* A bill on a page before the one at cursor c of range u.
Passed(r, u, c) ==
  /\ c # NoCursor
  /\ \/ /\ profile.kind = "aliyun"
        /\ \/ CycleOf(At[r]) < c[1]
           \/ /\ CycleOf(At[r]) = c[1]
              /\ OnPage(r, {q \in upstream : CycleOf(At[q]) = c[1]}) < c[2]
     \/ profile.kind = "newapi" /\ At[r] < c[1]
     \/ /\ profile.kind = "oneapi"
        /\ OnPage(r, {q \in upstream : At[q] \in u.from .. u.to}) < c[2]

\* What was listed before the range is stored.
Anchored(f) == \A r \in Prompt : origin <= At[r] /\ At[r] < f => r \in stored

\* The bills of range u before cursor c are stored, or left to be stored.
Covered(u, c, left) ==
  \A r \in Prompt : InRange(r, u) /\ Passed(r, u, c) => r \in stored \cup left

\* After the last page the whole range is.
Complete(u, left) == \A r \in Prompt : InRange(r, u) => r \in stored \cup left

Going(u, c, left) == IF c = NoCursor THEN Complete(u, left) ELSE Covered(u, c, left)

RunOK(u) ==
  /\ u.pc \in {"fetch", "save", "done"} => Anchored(u.from)
  /\ u.pc = "fetch" => Covered(u, u.cursor, {})
  /\ u.pc = "save" => Going(u, u.next, u.left)
  /\ u.pc = "done" => Complete(u, {})

CheckpointOK ==
  conn.checkpoint.to # 0 => /\ Anchored(conn.checkpoint.from)
                            /\ Covered(conn.checkpoint, conn.checkpoint.cursor, {})

Synced ==
  conn.exists =>
    Anchored(conn.through) /\ CheckpointOK /\ \A w \in SyncWorkers : RunOK(sync[w])

SyncInv == SyncTyped /\ Synced

-----------------------------------------------------------------------------
(* Pages. *)

LEMMA DivNat == ASSUME NEW n \in Nat, NEW d \in Nat \ {0}  PROVE n \div d \in Nat
  OBVIOUS

LEMMA DivMonotone ==
  ASSUME NEW n \in Int, NEW m \in Int, NEW d \in Nat \ {0}, n <= m
  PROVE  n \div d <= m \div d
  OBVIOUS

LEMMA DivBound ==
  ASSUME NEW n \in Nat, NEW m \in Nat, NEW d \in Nat \ {0}, n < m * d
  PROVE  1 + n \div d <= m
  OBVIOUS

LEMMA CycleType ==
  ASSUME NEW t \in Int
  PROVE  CycleOf(t) \in Int
  BY DEF CycleOf, SyncAssumption, NumbersAssumption

LEMMA CycleMonotone ==
  ASSUME NEW s \in Int, NEW t \in Int, s <= t
  PROVE  CycleOf(s) <= CycleOf(t)
  BY DivMonotone, s - 1 <= t - 1 DEF CycleOf, NumbersAssumption

\* Pages are numbered from one.
LEMMA OnPageType ==
  ASSUME NEW L \in SUBSET Records, NEW r \in Records
  PROVE  OnPage(r, L) \in Nat \ {0}
<1> DEFINE before == {q \in L : Rank[q] < Rank[r]}
<1>1. IsFiniteSet(before) BY FS_Subset, FS_Subset DEF NumbersAssumption
<1>2. Cardinality(before) \in Nat BY <1>1, FS_CardinalityType
<1> QED BY <1>2, DivNat DEF OnPage, NumbersAssumption

\* A bill moves to later pages only when the listing grows.
LEMMA OnPageMonotone ==
  ASSUME NEW L \in SUBSET Records, NEW M \in SUBSET Records,
         L \subseteq M, NEW r \in Records
  PROVE  OnPage(r, L) <= OnPage(r, M)
<1> DEFINE A == {q \in L : Rank[q] < Rank[r]}
           B == {q \in M : Rank[q] < Rank[r]}
<1>1. A \subseteq B /\ IsFiniteSet(B) BY FS_Subset DEF NumbersAssumption
<1>2. Cardinality(A) \in Nat /\ Cardinality(B) \in Nat /\ Cardinality(A) <= Cardinality(B)
  BY <1>1, FS_Subset, FS_CardinalityType
<1> HIDE DEF A, B
<1>3. PageSize \in Nat \ {0} BY DEF NumbersAssumption
<1>4. Cardinality(A) \div PageSize <= Cardinality(B) \div PageSize BY <1>2, <1>3, DivMonotone
<1>5. Cardinality(A) \div PageSize \in Nat /\ Cardinality(B) \div PageSize \in Nat
  BY <1>2, <1>3, DivNat
<1> QED BY <1>4, <1>5 DEF OnPage, A, B

\* When no more pages follow, all bills were on the ones before.
LEMMA LastPage ==
  ASSUME NEW L \in SUBSET Records, NEW r \in L,
         NEW n \in Nat, ~More(n, L)
  PROVE  OnPage(r, L) <= n
<1> DEFINE A == {q \in L : Rank[q] < Rank[r]}
<1>1. IsFiniteSet(L) BY FS_Subset DEF NumbersAssumption
<1>2. A \subseteq L /\ A # L BY DEF SyncAssumption
<1>3. IsFiniteSet(A) /\ Cardinality(A) \in Nat /\ Cardinality(L) \in Nat
  BY <1>1, <1>2, FS_Subset, FS_CardinalityType
<1>4. Cardinality(A) < Cardinality(L) BY <1>1, <1>2, <1>3, FS_Subset
<1> HIDE DEF A
<1>5. PageSize \in Nat \ {0} BY DEF NumbersAssumption
<1>6. n * PageSize \in Nat /\ Cardinality(A) < n * PageSize BY <1>3, <1>4, <1>5 DEF More
<1> QED BY <1>3, <1>5, <1>6, DivBound DEF OnPage, A

\* What a request's cursor has left to it.
LEMMA FirstCursor ==
  ASSUME SyncTyped, NEW u \in Runs, Covered(u, u.cursor, {}),
         NEW first \in Int \X {1}, profile.kind # "oneapi",
         profile.kind = "aliyun" => first[1] = CycleOf(u.from),
         profile.kind = "newapi" => first[1] = u.from
  PROVE  Covered(u, From(u, first), {}) /\ From(u, first) \in Int \X (Nat \ {0})
<1>1. CASE u.cursor # NoCursor
  BY <1>1 DEF From, Runs, Cursors
<1>2. CASE u.cursor = NoCursor
  <2>1. From(u, first) = first BY <1>2 DEF From
  <2> SUFFICES ASSUME NEW r \in Prompt, InRange(r, u), Passed(r, u, first)  PROVE FALSE
    BY <2>1 DEF Covered
  <2>2. r \in Records /\ At[r] \in Int /\ u.from \in Int /\ first[1] \in Int /\ first[2] = 1
        /\ u.from <= At[r]
    BY DEF SyncTyped, SyncAssumption, Runs, InRange, Prompt
  <2>3. CASE profile.kind = "aliyun"
    <3> DEFINE L == {q \in upstream : CycleOf(At[q]) = first[1]}
    <3>1. L \in SUBSET Records BY DEF SyncTyped
    <3>2. OnPage(r, L) \in Nat \ {0} BY <2>2, <3>1, OnPageType
    <3>3. CycleOf(u.from) <= CycleOf(At[r]) BY <2>2, CycleMonotone
    <3>4. CycleOf(u.from) \in Int /\ CycleOf(At[r]) \in Int BY <2>2, CycleType
    <3>5. CycleOf(At[r]) < first[1] \/ OnPage(r, L) < first[2]
      BY <2>3 DEF Passed
    <3> HIDE DEF L
    <3> QED BY <2>2, <2>3, <3>2, <3>3, <3>4, <3>5
  <2>4. CASE profile.kind = "newapi"
    BY <2>2, <2>4 DEF Passed
  <2> QED BY <2>3, <2>4 DEF Passed
<1> QED BY <1>1, <1>2

LEMMA AliyunPages ==
  ASSUME SyncTyped, NEW u \in Runs, Covered(u, u.cursor, {}),
         profile.kind = "aliyun"
  PROVE  /\ FetchAliyun(u).records \in SUBSET upstream /\ FetchAliyun(u).next \in Cursors
         /\ Going(u, FetchAliyun(u).next, FetchAliyun(u).records)
<1> DEFINE first == <<CycleOf(u.from), 1>>
           c == From(u, first)
           L == {q \in upstream : CycleOf(At[q]) = c[1]}
           page == {r \in OfPage(c[2], L) : At[r] \in u.from .. u.to}
           next == IF More(c[2], L) THEN <<c[1], c[2] + 1>>
                   ELSE IF c[1] + 1 <= CycleOf(u.to - 1) THEN <<c[1] + 1, 1>> ELSE NoCursor
<1>1. u.from \in Int /\ u.to \in Nat BY DEF Runs
<1>2. first \in Int \X {1} /\ first[1] = CycleOf(u.from) BY <1>1, CycleType
<1> HIDE DEF first
<1>3. Covered(u, c, {}) /\ c \in Int \X (Nat \ {0}) BY <1>2, FirstCursor
<1>4. FetchAliyun(u).records = page /\ FetchAliyun(u).next = next
  BY DEF FetchAliyun, NewPage, first
<1> HIDE DEF c
<1>5. c[1] \in Int /\ c[2] \in Nat \ {0} /\ c # NoCursor BY <1>3 DEF NoCursor
<1>6. L \in SUBSET Records BY DEF SyncTyped
<1>7. page \subseteq L BY DEF OfPage
<1>8. next \in Cursors BY <1>5 DEF Cursors
<1>9. ASSUME NEW r \in Prompt, InRange(r, u), \/ next = NoCursor
                                              \/ next # NoCursor /\ Passed(r, u, next)
      PROVE  r \in stored \cup page
  <2>1. r \in Records /\ At[r] \in Int /\ u.from <= At[r] /\ At[r] < u.to /\ CycleOf(At[r]) \in Int
    BY <1>9, CycleType DEF SyncTyped, SyncAssumption, InRange, Prompt
  <2>2. At[r] \in u.from .. u.to BY <1>1, <2>1
  <2>3. OnPage(r, L) \in Nat \ {0} BY <2>1, <1>6, OnPageType
  <2>4. CASE CycleOf(At[r]) < c[1] \/ (CycleOf(At[r]) = c[1] /\ OnPage(r, L) < c[2])
    <3>1. Passed(r, u, c) BY <2>4, <1>5 DEF Passed
    <3> QED BY <1>3, <1>9, <3>1 DEF Covered
  <2>5. ASSUME CycleOf(At[r]) = c[1], OnPage(r, L) = c[2] PROVE r \in page
    BY <2>5, <2>2, <1>9 DEF OfPage, Prompt
  <2>6. ASSUME CycleOf(At[r]) = c[1], ~More(c[2], L)  PROVE OnPage(r, L) <= c[2]
    <3>1. r \in L BY <2>6, <1>9 DEF Prompt
    <3> HIDE DEF L
    <3> QED BY <2>6, <3>1, <1>5, <1>6, LastPage
  <2>7. CASE More(c[2], L)
    <3>1. next = <<c[1], c[2] + 1>> /\ next # NoCursor BY <2>7, <1>5 DEF NoCursor
    <3> HIDE DEF next, L, page
    <3>2. CycleOf(At[r]) < c[1] \/ (CycleOf(At[r]) = c[1] /\ OnPage(r, L) < c[2] + 1)
      BY <3>1, <1>9 DEF Passed, L
    <3> QED BY <3>2, <2>3, <2>4, <2>5, <1>5
  <2>8. CASE ~More(c[2], L) /\ c[1] + 1 <= CycleOf(u.to - 1)
    <3>1. next = <<c[1] + 1, 1>> /\ next # NoCursor BY <2>8, <1>5 DEF NoCursor
    <3> DEFINE M == {q \in upstream : CycleOf(At[q]) = c[1] + 1}
    <3>2. M \in SUBSET Records BY DEF SyncTyped
    <3>3. OnPage(r, M) \in Nat \ {0} BY <2>1, <3>2, OnPageType
    <3>4. CycleOf(At[r]) < c[1] + 1 \/ OnPage(r, M) < 1
      BY <3>1, <1>9 DEF Passed
    <3> HIDE DEF next, L, page, M
    <3> QED BY <3>3, <3>4, <2>1, <2>3, <2>4, <2>5, <2>6, <2>8, <1>5
  <2>9. CASE ~More(c[2], L) /\ ~(c[1] + 1 <= CycleOf(u.to - 1))
    <3>1. CycleOf(At[r]) <= CycleOf(u.to - 1) BY <1>1, <2>1, CycleMonotone
    <3>2. CycleOf(u.to - 1) \in Int BY <1>1, CycleType
    <3> HIDE DEF next, L, page
    <3> QED BY <3>1, <3>2, <2>1, <2>3, <2>4, <2>5, <2>6, <2>9, <1>5
  <2> QED BY <2>7, <2>8, <2>9
<1> HIDE DEF next, page
<1>10. Going(u, next, page)
  BY <1>9 DEF Going, Complete, Covered
<1> QED BY <1>4, <1>7, <1>8, <1>10

LEMMA NewAPIPages ==
  ASSUME SyncTyped, NEW u \in Runs, Covered(u, u.cursor, {}),
         profile.kind = "newapi"
  PROVE  /\ FetchNewAPI(u).records \in SUBSET upstream /\ FetchNewAPI(u).next \in Cursors
         /\ Going(u, FetchNewAPI(u).next, FetchNewAPI(u).records)
<1> DEFINE first == <<u.from, 1>>
           c == From(u, first)
           end == Smaller(c[1] + Span, u.to)
           page == {r \in upstream : At[r] \in c[1] .. end}
           next == IF end < u.to THEN <<end + 1, 1>> ELSE NoCursor
<1>1. u.from \in Int /\ u.to \in Nat BY DEF Runs
<1>2. first \in Int \X {1} /\ first[1] = u.from BY <1>1
<1> HIDE DEF first
<1>3. Covered(u, c, {}) /\ c \in Int \X (Nat \ {0}) BY <1>2, FirstCursor
<1>4. FetchNewAPI(u).records = page /\ FetchNewAPI(u).next = next
  BY DEF FetchNewAPI, NewPage, first
<1> HIDE DEF c
<1>6. c # NoCursor /\ c[1] \in Int /\ end \in Int /\ (~(end < u.to) => end = u.to)
  BY <1>1, <1>3 DEF NumbersAssumption, Smaller, NoCursor
<1> HIDE DEF end
<1>7. next \in Cursors BY <1>6 DEF Cursors
<1>8. ASSUME NEW r \in Prompt, InRange(r, u), \/ next = NoCursor
                                              \/ next # NoCursor /\ Passed(r, u, next)
      PROVE  r \in stored \cup page
  <2>1. At[r] \in Int /\ u.from <= At[r] /\ At[r] < u.to
    BY <1>8 DEF SyncTyped, SyncAssumption, InRange, Prompt
  <2>2. CASE At[r] < c[1]
    <3>1. Passed(r, u, c) BY <2>2, <1>6 DEF Passed
    <3> QED BY <1>3, <1>8, <3>1 DEF Covered
  <2>3. At[r] <= end
    <3>1. CASE end < u.to
      <4>1. next = <<end + 1, 1>> /\ next # NoCursor BY <3>1, <1>6 DEF NoCursor
      <4> HIDE DEF next
      <4>2. At[r] < end + 1 BY <4>1, <1>8 DEF Passed
      <4> QED BY <4>2, <1>6, <2>1
    <3>2. CASE ~(end < u.to) BY <3>2, <1>6, <2>1
    <3> QED BY <3>1, <3>2
  <2> QED BY <2>1, <2>2, <2>3, <1>6, <1>8 DEF Prompt
<1> HIDE DEF next
<1>10. Going(u, next, page)
  BY <1>8 DEF Going, Complete, Covered
<1> QED BY <1>4, <1>7, <1>10

LEMMA OneAPIPages ==
  ASSUME SyncTyped, NEW u \in Runs, Covered(u, u.cursor, {}),
         profile.kind = "oneapi"
  PROVE  /\ FetchOneAPI(u).records \in SUBSET upstream /\ FetchOneAPI(u).next \in Cursors
         /\ Going(u, FetchOneAPI(u).next, FetchOneAPI(u).records)
<1> DEFINE n == From(u, <<0, 1>>)[2]
           L == {q \in upstream : At[q] \in u.from .. u.to}
           page == OfPage(n, L)
           next == IF More(n, L) THEN <<0, n + 1>> ELSE NoCursor
<1>1. u.from \in Int /\ u.to \in Nat BY DEF Runs
<1>2. n \in Nat \ {0} /\ (u.cursor # NoCursor => n = u.cursor[2]) /\ (u.cursor = NoCursor => n = 1)
  BY DEF From, Runs, Cursors
<1>4. FetchOneAPI(u).records = page /\ FetchOneAPI(u).next = next
  BY DEF FetchOneAPI, NewPage
<1> HIDE DEF n
<1>6. L \in SUBSET Records BY DEF SyncTyped
<1>7. page \subseteq L BY DEF OfPage
<1>8. next \in Cursors BY <1>2 DEF Cursors
<1>9. ASSUME NEW r \in Prompt, InRange(r, u), \/ next = NoCursor
                                              \/ next # NoCursor /\ Passed(r, u, next)
      PROVE  r \in stored \cup page
  <2>1. r \in Records /\ At[r] \in Int /\ u.from <= At[r] /\ At[r] < u.to
    BY <1>9 DEF SyncTyped, SyncAssumption, InRange, Prompt
  <2>2. r \in L BY <1>1, <2>1, <1>9 DEF Prompt
  <2>3. OnPage(r, L) \in Nat \ {0} BY <2>1, <1>6, OnPageType
  <2>4. CASE OnPage(r, L) < n
    <3>1. u.cursor # NoCursor /\ n = u.cursor[2] BY <2>3, <2>4, <1>2
    <3>2. Passed(r, u, u.cursor) BY <3>1, <2>4 DEF Passed
    <3> QED BY <1>9, <3>2 DEF Covered
  <2>5. ASSUME OnPage(r, L) = n PROVE r \in page BY <2>2, <2>5 DEF OfPage
  <2>6. OnPage(r, L) <= n
    <3>1. CASE More(n, L)
      <4>1. next = <<0, n + 1>> /\ next # NoCursor BY <3>1, <1>2 DEF NoCursor
      <4>2. OnPage(r, L) < next[2] BY <4>1, <1>9 DEF Passed
      <4> HIDE DEF next, L
      <4> QED BY <4>1, <4>2, <2>3, <1>2
    <3>2. CASE ~More(n, L) BY <3>2, <2>2, <1>2, <1>6, LastPage
    <3> QED BY <3>1, <3>2
  <2> HIDE DEF next, page, L
  <2> QED BY <2>3, <2>4, <2>5, <2>6, <1>2
<1> HIDE DEF next, page
<1>10. Going(u, next, page)
  BY <1>9 DEF Going, Complete, Covered
<1> QED BY <1>4, <1>7, <1>8, <1>10

LEMMA FetchedPage ==
  ASSUME SyncTyped, NEW u \in Runs, Covered(u, u.cursor, {})
  PROVE  /\ Page(u).records \in SUBSET upstream /\ Page(u).next \in Cursors
         /\ Going(u, Page(u).next, Page(u).records)
<1>1. profile.kind \in {"aliyun", "newapi", "oneapi"} BY DEF SyncTyped, SyncAssumption
<1>2. CASE profile.kind = "aliyun" BY <1>2, AliyunPages DEF Page
<1>3. CASE profile.kind = "newapi" BY <1>3, NewAPIPages DEF Page
<1>4. CASE profile.kind = "oneapi" BY <1>4, OneAPIPages DEF Page
<1> QED BY <1>1, <1>2, <1>3, <1>4

-----------------------------------------------------------------------------
(* What grows meanwhile takes nothing back. *)

Grown ==
  /\ profile' = profile /\ origin <= origin' /\ origin' \in Int
  /\ upstream \subseteq upstream' /\ upstream' \subseteq Records
  /\ \A r \in Prompt' \ Prompt : ~Taken(At[r])
  /\ stored \subseteq stored'

\* Whatever starts before f is taken: no bill listed in time appears there.
Fixed(f) == \A t \in Int : t < f => Taken(t)

\* The ranges that are over, left unfinished or under way are fixed.
LEMMA RangesFixed ==
  ASSUME SyncTyped
  PROVE  /\ Fixed(conn.through) /\ Fixed(conn.checkpoint.from) /\ Fixed(conn.checkpoint.to)
         /\ \A w \in SyncWorkers : Fixed(sync[w].from) /\ Fixed(sync[w].to)
<1>1. Fixed(conn.through) /\ Fixed(conn.checkpoint.to)
  BY DEF Fixed, Taken
<1>2. Fixed(conn.checkpoint.from)
  <2>1. /\ conn.checkpoint.from \in Int /\ conn.checkpoint.to \in Int
        /\ conn.checkpoint.from <= conn.checkpoint.to
    BY DEF SyncTyped, Ranges
  <2> QED BY <2>1 DEF Fixed, Taken
<1>3. ASSUME NEW w \in SyncWorkers PROVE Fixed(sync[w].from) /\ Fixed(sync[w].to)
  <2>1. sync[w].from \in Int /\ sync[w].to \in Int /\ sync[w].from <= sync[w].to
    BY DEF SyncTyped, Runs
  <2> QED BY <2>1 DEF Fixed, Taken
<1> QED BY <1>1, <1>2, <1>3

LEMMA AnchoredKept ==
  ASSUME SyncTyped, Grown, NEW f \in Int, Fixed(f),
         Anchored(f)
  PROVE  Anchored(f)'
<1> SUFFICES ASSUME NEW r \in Prompt', origin' <= At[r], At[r] < f  PROVE r \in stored'
  BY DEF Anchored
<1>1. At[r] \in Int /\ origin \in Int /\ origin' \in Int
  BY DEF SyncTyped, SyncAssumption, Grown, Prompt
<1>2. r \in Prompt BY <1>1 DEF Grown, Fixed
<1> QED BY <1>1, <1>2 DEF Grown, Anchored

\* Later in time a bill is on no earlier page.
LEMMA PassedBefore ==
  ASSUME SyncTyped, Grown, NEW u, u.from \in Int,
         u.to \in Nat, NEW c \in Cursors, NEW r \in upstream, Passed(r, u, c)'
  PROVE  Passed(r, u, c)
<1>1. r \in Records /\ profile' = profile BY DEF SyncTyped, Grown
<1>2. c # NoCursor BY DEF Passed
<1>3. c[1] \in Int /\ c[2] \in Nat BY <1>2 DEF Cursors
<1>4. ASSUME NEW L \in SUBSET Records, NEW M \in SUBSET Records, L \subseteq M, OnPage(r, M) < c[2]
      PROVE  OnPage(r, L) < c[2]
  <2>1. OnPage(r, L) <= OnPage(r, M) BY <1>1, <1>4, OnPageMonotone
  <2>2. OnPage(r, L) \in Nat /\ OnPage(r, M) \in Nat BY <1>1, OnPageType
  <2> QED BY <2>1, <2>2, <1>3, <1>4
<1>5. /\ {q \in upstream : CycleOf(At[q]) = c[1]} \subseteq {q \in upstream' : CycleOf(At[q]) = c[1]}
      /\ {q \in upstream : At[q] \in u.from .. u.to} \subseteq {q \in upstream' : At[q] \in u.from .. u.to}
      /\ {q \in upstream' : CycleOf(At[q]) = c[1]} \in SUBSET Records
      /\ {q \in upstream' : At[q] \in u.from .. u.to} \in SUBSET Records
      /\ {q \in upstream : CycleOf(At[q]) = c[1]} \in SUBSET Records
      /\ {q \in upstream : At[q] \in u.from .. u.to} \in SUBSET Records
  BY DEF Grown, SyncTyped
<1>6. CASE profile.kind = "aliyun"
  <2>1. \/ CycleOf(At[r]) < c[1]
        \/ CycleOf(At[r]) = c[1] /\ OnPage(r, {q \in upstream' : CycleOf(At[q]) = c[1]}) < c[2]
    BY <1>1, <1>6 DEF Passed
  <2> QED BY <2>1, <1>2, <1>4, <1>5, <1>6 DEF Passed
<1>7. CASE profile.kind = "newapi" BY <1>1, <1>7 DEF Passed
<1>8. CASE profile.kind = "oneapi"
  <2>1. OnPage(r, {q \in upstream' : At[q] \in u.from .. u.to}) < c[2]
    BY <1>1, <1>8 DEF Passed
  <2> QED BY <2>1, <1>2, <1>4, <1>5, <1>8 DEF Passed
<1> QED BY <1>1, <1>6, <1>7, <1>8 DEF Passed

LEMMA CoveredKept ==
  ASSUME SyncTyped, Grown, NEW u, u.from \in Int,
         u.to \in Nat, Fixed(u.to), NEW c \in Cursors, NEW left
  PROVE  /\ Covered(u, c, left) => Covered(u, c, left)'
         /\ Complete(u, left) => Complete(u, left)'
         /\ Going(u, c, left) => Going(u, c, left)'
<1>1. ASSUME NEW r \in Prompt', InRange(r, u)  PROVE r \in Prompt /\ r \in upstream
  <2>1. At[r] \in Int BY DEF SyncTyped, SyncAssumption, Grown, Prompt
  <2> QED BY <1>1, <2>1 DEF InRange, Grown, Fixed, Prompt
<1>2. Covered(u, c, left) => Covered(u, c, left)'
  <2> SUFFICES ASSUME Covered(u, c, left), NEW r \in Prompt', InRange(r, u), Passed(r, u, c)'
               PROVE  r \in stored' \cup left
    BY DEF Covered, InRange
  <2>1. r \in Prompt /\ r \in upstream BY <1>1
  <2>2. Passed(r, u, c) BY <2>1, PassedBefore
  <2> QED BY <2>1, <2>2 DEF Covered, Grown
<1>3. Complete(u, left) => Complete(u, left)'
  BY <1>1 DEF Complete, Grown, InRange
<1> QED BY <1>2, <1>3 DEF Going

LEMMA RunKept ==
  ASSUME SyncTyped, Grown, NEW u \in Runs, Fixed(u.from), Fixed(u.to), RunOK(u)
  PROVE  RunOK(u)'
<1>1. /\ u.from \in Int /\ u.to \in Nat /\ u.cursor \in Cursors /\ u.next \in Cursors
  BY DEF Runs
<1>2. Anchored(u.from) => Anchored(u.from)' BY <1>1, AnchoredKept
<1>3. Covered(u, u.cursor, {}) => Covered(u, u.cursor, {})' BY <1>1, CoveredKept
<1>4. Complete(u, {}) => Complete(u, {})' BY <1>1, CoveredKept
<1>5. Going(u, u.next, u.left) => Going(u, u.next, u.left)' BY <1>1, CoveredKept
<1> QED BY <1>2, <1>3, <1>4, <1>5 DEF RunOK

LEMMA CheckpointKept ==
  ASSUME SyncTyped, Grown, CheckpointOK,
         conn'.checkpoint = conn.checkpoint
  PROVE  CheckpointOK'
<1> DEFINE p == conn.checkpoint
<1>1. p.from \in Int /\ p.to \in Nat /\ p.cursor \in Cursors /\ Fixed(p.from) /\ Fixed(p.to)
  BY RangesFixed DEF SyncTyped, Ranges
<1>2. PICK q : q = p OBVIOUS
<1>3. ASSUME q.to # 0 PROVE Anchored(q.from)' /\ Covered(q, q.cursor, {})'
  <2>1. Anchored(q.from) /\ Covered(q, q.cursor, {}) BY <1>2, <1>3 DEF CheckpointOK
  <2> QED BY <1>1, <1>2, <2>1, AnchoredKept, CoveredKept
<1>4. (conn.checkpoint)' = q BY <1>2
<1> HIDE DEF p
<1> QED BY <1>3, <1>4 DEF CheckpointOK

-----------------------------------------------------------------------------
(* Steps. *)

LEMMA SyncInit ==
  ASSUME SInit
  PROVE  SyncInv
<1>1. SyncTyped
  <2>1. NoCheckpoint \in Ranges /\ NoCheckpoint.from = 0 /\ NoCheckpoint.to = 0
    BY DEF NoCheckpoint, Ranges, Cursors
  <2>2. Idle \in Runs /\ Idle.from = 0 /\ Idle.to = 0 BY DEF Idle, Runs, Cursors
  <2>5. /\ profile \in Profiles /\ now = 1 /\ upstream = {} /\ origin \in Int
        /\ conn.through = 0 /\ conn.checkpoint = NoCheckpoint
        /\ sync = [w \in SyncWorkers |-> Idle]
    BY DEF SInit, NumbersAssumption
  <2>6. conn \in [exists : BOOLEAN, active : BOOLEAN, due : BOOLEAN, through : Nat,
                  checkpoint : Ranges]
    <3>1. (profile.interval = 0) \in BOOLEAN OBVIOUS
    <3> QED BY <2>1, <3>1 DEF SInit
  <2> QED BY <2>1, <2>2, <2>5, <2>6 DEF SyncTyped
<1>2. Synced
  <2>1. upstream = {} /\ conn.checkpoint = NoCheckpoint /\ \A w \in SyncWorkers : sync[w].pc = "idle"
    BY DEF SInit, Idle
  <2>2. CheckpointOK BY <2>1 DEF CheckpointOK, NoCheckpoint
  <2> QED BY <2>1, <2>2 DEF Synced, Anchored, RunOK, Prompt
<1> QED BY <1>1, <1>2 DEF SyncInv

\* Steps that change nothing but what grows, and perhaps the run of one worker.
LEMMA WorkerStep ==
  ASSUME SyncInv, SyncTyped', Grown, conn' = conn,
         NEW w \in SyncWorkers, NEW u, sync' = [sync EXCEPT ![w] = u], conn.exists => RunOK(u)'
  PROVE  SyncInv'
<1> SUFFICES ASSUME conn.exists
             PROVE  Anchored(conn.through)' /\ CheckpointOK' /\ \A v \in SyncWorkers : RunOK(sync[v])'
  BY DEF SyncInv, Synced
<1>1. Anchored(conn.through) /\ CheckpointOK /\ \A v \in SyncWorkers : RunOK(sync[v])
  BY DEF SyncInv, Synced
<1>2. SyncTyped BY DEF SyncInv
<1>3. PICK f : f = conn.through OBVIOUS
<1>4. f \in Int /\ Fixed(f) /\ Anchored(f) BY <1>1, <1>2, <1>3, RangesFixed DEF SyncTyped
<1>5. Anchored(f)' BY <1>2, <1>4, AnchoredKept
<1>6. Anchored(conn.through)' BY <1>3, <1>5
<1>7. CheckpointOK' BY <1>1, <1>2, CheckpointKept
<1>8. ASSUME NEW v \in SyncWorkers PROVE RunOK(sync[v])'
  <2>1. CASE v = w
    <3>1. sync'[v] = u BY <2>1, <1>2 DEF SyncTyped
    <3>2. RunOK(u)' OBVIOUS
    <3> QED BY <3>1, <3>2
  <2>2. CASE v # w
    <3>1. PICK s : s = sync[v] OBVIOUS
    <3>2. s \in Runs /\ Fixed(s.from) /\ Fixed(s.to) /\ RunOK(s)
      BY <1>1, <1>2, <3>1, RangesFixed DEF SyncTyped
    <3>3. RunOK(s)' BY <1>2, <3>2, RunKept
    <3>4. sync'[v] = s BY <2>2, <1>2, <3>1 DEF SyncTyped
    <3> QED BY <3>3, <3>4
  <2> QED BY <2>1, <2>2
<1> QED BY <1>6, <1>7, <1>8

\* Nothing but the counters of faults, the lease and the connector's flags.
LEMMA NothingGrows ==
  ASSUME SyncTyped, UNCHANGED <<profile, upstream, late, stored, origin>>
  PROVE  Grown
  BY DEF Grown, SyncTyped, Prompt

\* A typed run of one worker keeps the types.
LEMMA WorkerTyped ==
  ASSUME SyncTyped, UNCHANGED <<profile, now, upstream, conn>>, origin' \in Int,
         NEW w \in SyncWorkers, NEW u \in Runs, u.from <= u.to,
         sync' = [sync EXCEPT ![w] = u]
  PROVE  SyncTyped'
<1>1. sync' \in [SyncWorkers -> Runs] BY DEF SyncTyped
<1>2. \A v \in SyncWorkers : sync'[v].from <= sync'[v].to BY DEF SyncTyped
<1> QED BY <1>1, <1>2 DEF SyncTyped

LEMMA BeginStep ==
  ASSUME SyncInv, NEW w \in SyncWorkers, Begin(w)
  PROVE  SyncInv'
<1>1. SyncTyped /\ (conn.exists => Anchored(conn.through) /\ CheckpointOK) BY DEF SyncInv, Synced
<1>2. origin \in Int /\ now \in Nat /\ Lookback \in Nat /\ now - Lookback \in Int
  BY <1>1 DEF SyncTyped, NumbersAssumption
<1>3. /\ conn.through \in Nat /\ conn.checkpoint \in Ranges
      /\ Fixed(conn.through) /\ Fixed(conn.checkpoint.from) /\ Fixed(conn.checkpoint.to)
  BY <1>1, RangesFixed DEF SyncTyped
<1>4. SyncRange \in Ranges
  BY <1>2, <1>3 DEF SyncRange, Ranges, Cursors
<1>5. origin' \in Int /\ origin <= origin'
  BY <1>2, <1>4 DEF Begin, Ranges
<1>6. Grown BY <1>1, <1>5 DEF Begin, Grown, SyncTyped, Prompt
<1>7. CASE conn.exists /\ conn.active /\ SyncRange.from < SyncRange.to
  <2> DEFINE u == [Idle EXCEPT !.pc = "fetch", !.from = SyncRange.from, !.to = SyncRange.to,
                               !.cursor = SyncRange.cursor]
  <2>1. sync' = [sync EXCEPT ![w] = u] /\ conn' = conn /\ UNCHANGED <<profile, now, upstream>>
    BY <1>7 DEF Begin
  <2>2. Idle \in Runs BY DEF Idle, Runs, Cursors
  <2>3. u \in Runs BY <2>2, <1>4 DEF Runs, Ranges
  <2>4. u.pc = "fetch" /\ u.from = SyncRange.from /\ u.to = SyncRange.to
        /\ u.cursor = SyncRange.cursor
    BY <2>2 DEF Runs
  <2>10. u.from <= u.to BY <1>4, <1>7, <2>4 DEF Ranges
  <2> HIDE DEF u
  <2>5. PICK s : s = u OBVIOUS
  <2>6. SyncTyped' BY <1>1, <1>4, <1>5, <2>1, <2>3, <2>4, <2>10, WorkerTyped
  <2>7. Anchored(s.from)' /\ Covered(s, s.cursor, {})'
    <3>1. CASE conn.checkpoint.to # 0
      <4>1. Anchored(conn.checkpoint.from) /\ Covered(conn.checkpoint, conn.checkpoint.cursor, {})
        BY <1>1, <1>7, <3>1 DEF CheckpointOK
      <4>2. s.from = conn.checkpoint.from /\ s.to = conn.checkpoint.to
            /\ s.cursor = conn.checkpoint.cursor
        BY <2>4, <2>5, <3>1 DEF SyncRange
      <4>3. Anchored(s.from) BY <4>1, <4>2
      <4>4. Covered(s, s.cursor, {}) BY <4>1, <4>2 DEF Covered, Passed, InRange
      <4>5. s.from \in Int /\ Fixed(s.from) /\ s.to \in Nat /\ Fixed(s.to) /\ s.cursor \in Cursors
        BY <4>2, <1>3 DEF Ranges
      <4> QED BY <4>3, <4>4, <4>5, <1>1, <1>6, AnchoredKept, CoveredKept
    <3>2. CASE conn.checkpoint.to = 0
      <4>1. s.cursor = NoCursor
            /\ s.from = IF conn.through # 0 THEN conn.through ELSE now - Lookback
        BY <2>4, <2>5, <3>2 DEF SyncRange
      <4>2. Covered(s, s.cursor, {})' BY <4>1 DEF Covered, Passed
      <4>3. CASE conn.through # 0
        <5>1. Anchored(s.from) BY <4>1, <4>3, <1>1, <1>7
        <5> QED BY <5>1, <4>1, <4>2, <4>3, <1>1, <1>3, <1>6, AnchoredKept
      <4>4. CASE conn.through = 0
        <5>1. origin' = IF SyncRange.from > origin THEN SyncRange.from ELSE origin
          BY <1>7, <3>2, <4>4 DEF Begin
        <5>2. s.from = SyncRange.from /\ s.from \in Int BY <2>4, <2>5, <4>1, <4>4, <1>2
        <5>3. s.from <= origin' BY <5>1, <5>2, <1>2
        <5>4. ASSUME NEW r \in Prompt'  PROVE At[r] \in Int
          BY <5>4, <2>6 DEF SyncTyped, SyncAssumption, Prompt
        <5>5. Anchored(s.from)' BY <5>2, <5>3, <5>4, <1>5 DEF Anchored
        <5> QED BY <5>5, <4>2
      <4> QED BY <4>3, <4>4
    <3> QED BY <3>1, <3>2
  <2>8. RunOK(s)' BY <2>4, <2>5, <2>7 DEF RunOK
  <2>9. sync' = [sync EXCEPT ![w] = s] BY <2>1, <2>5
  <2> QED BY <1>6, <2>1, <2>6, <2>8, <2>9, WorkerStep
<1>8. CASE ~(conn.exists /\ conn.active /\ SyncRange.from < SyncRange.to)
  <2>1. sync' = [sync EXCEPT ![w] = Idle] /\ conn' = conn /\ UNCHANGED <<profile, now, upstream>>
    BY <1>8 DEF Begin, Ended
  <2>2. Idle \in Runs /\ Idle.from <= Idle.to /\ Idle.pc = "idle"
    BY <1>2 DEF Idle, Runs, Cursors
  <2>3. SyncTyped' BY <1>1, <1>5, <2>1, <2>2, WorkerTyped
  <2>4. RunOK(Idle)' BY <2>2 DEF RunOK
  <2> QED BY <1>6, <2>1, <2>3, <2>4, WorkerStep
<1> QED BY <1>7, <1>8

LEMMA RunDueStep ==
  ASSUME SyncInv, NEW w \in SyncWorkers, RunDue(w)
  PROVE  SyncInv'
<1>1. SyncTyped BY DEF SyncInv
<1>2. Grown BY <1>1, NothingGrows DEF RunDue
<1>3. /\ UNCHANGED <<profile, now, upstream, late, conn, stored, origin>> /\ origin \in Int
      /\ sync[w] \in Runs /\ sync[w].from <= sync[w].to /\ sync[w].pc = "idle"
  BY <1>1 DEF RunDue, SyncTyped
<1>4. PICK u : /\ sync' = [sync EXCEPT ![w] = u] /\ u \in Runs /\ u.from = sync[w].from
               /\ u.to = sync[w].to /\ u.pc \in {"idle", "listed"}
  <2>1. CASE conn.exists /\ conn.active /\ conn.due
    <3>1. sync' = [sync EXCEPT ![w] = [sync[w] EXCEPT !.pc = "listed"]]
      BY <2>1 DEF RunDue
    <3>2. [sync[w] EXCEPT !.pc = "listed"] \in Runs BY <1>3 DEF Runs
    <3>3. [sync[w] EXCEPT !.pc = "listed"].pc = "listed"
          /\ [sync[w] EXCEPT !.pc = "listed"].from = sync[w].from
          /\ [sync[w] EXCEPT !.pc = "listed"].to = sync[w].to
      BY <1>3 DEF Runs
    <3> QED BY <3>1, <3>2, <3>3
  <2>2. CASE ~(conn.exists /\ conn.active /\ conn.due)
    <3>1. sync' = [sync EXCEPT ![w] = sync[w]]
      BY <2>2, <1>1 DEF RunDue, SyncTyped
    <3> QED BY <3>1, <1>3
  <2> QED BY <2>1, <2>2
<1>5. SyncTyped' BY <1>1, <1>3, <1>4, WorkerTyped
<1>6. RunOK(u)' BY <1>4 DEF RunOK
<1> QED BY <1>2, <1>3, <1>4, <1>5, <1>6, WorkerStep


LEMMA PageTyped ==
  ASSUME SyncTyped, NEW u \in Runs
  PROVE  Page(u).records \in SUBSET upstream /\ Page(u).next \in Cursors
<1>1. profile.kind \in {"aliyun", "newapi", "oneapi"} BY DEF SyncTyped, SyncAssumption
<1>2. u.from \in Int /\ u.to \in Nat /\ Span \in Nat BY DEF Runs, NumbersAssumption
<1>3. ASSUME NEW first \in Int \X {1}  PROVE From(u, first) \in Int \X (Nat \ {0})
  BY DEF From, Runs, Cursors
<1>4. CASE profile.kind = "aliyun"
  <2> DEFINE c == From(u, <<CycleOf(u.from), 1>>)
  <2>1. <<CycleOf(u.from), 1>> \in Int \X {1} BY <1>2, CycleType
  <2>2. c \in Int \X (Nat \ {0}) BY <2>1, <1>3
  <2>3. Page(u) = FetchAliyun(u) BY <1>4 DEF Page
  <2> QED BY <2>2, <2>3 DEF FetchAliyun, NewPage, OfPage, Cursors
<1>5. CASE profile.kind = "newapi"
  <2> DEFINE c == From(u, <<u.from, 1>>)
             end == Smaller(c[1] + Span, u.to)
  <2>1. c \in Int \X (Nat \ {0}) BY <1>2, <1>3
  <2>2. end \in Int BY <2>1, <1>2 DEF Smaller
  <2>3. Page(u) = FetchNewAPI(u) BY <1>5 DEF Page
  <2> QED BY <2>2, <2>3 DEF FetchNewAPI, NewPage, Cursors
<1>6. CASE profile.kind = "oneapi"
  <2> DEFINE c == From(u, <<0, 1>>)
  <2>1. c \in Int \X (Nat \ {0}) BY <1>3
  <2>2. Page(u) = FetchOneAPI(u) BY <1>6 DEF Page
  <2> QED BY <2>1, <2>2 DEF FetchOneAPI, NewPage, OfPage, Cursors
<1> QED BY <1>1, <1>4, <1>5, <1>6

LEMMA FetchStep ==
  ASSUME SyncInv, NEW w \in SyncWorkers, Fetch(w)
  PROVE  SyncInv'
<1>1. SyncTyped /\ (conn.exists => RunOK(sync[w])) BY DEF SyncInv, Synced
<1>2. Grown BY <1>1, NothingGrows DEF Fetch
<1>3. /\ UNCHANGED <<profile, now, upstream, late, conn, stored, origin>> /\ origin \in Int
      /\ sync[w].pc = "fetch"
  BY <1>1 DEF Fetch, SyncTyped
<1>4. PICK s : s = sync[w] OBVIOUS
<1>5. PICK p : p = Page(s) OBVIOUS
<1>6. s \in Runs /\ s.from <= s.to /\ Fixed(s.from) /\ Fixed(s.to) /\ s.pc = "fetch"
  BY <1>1, <1>3, <1>4, RangesFixed DEF SyncTyped
<1>7. p.records \in SUBSET upstream /\ p.next \in Cursors /\ upstream \subseteq Records
  BY <1>1, <1>5, <1>6, PageTyped DEF SyncTyped
<1> DEFINE u == [s EXCEPT !.pc = "save", !.left = p.records, !.next = p.next]
<1>8. sync' = [sync EXCEPT ![w] = u] BY <1>1, <1>4, <1>5 DEF Fetch, SyncTyped
<1>9. /\ u \in Runs /\ u.pc = "save" /\ u.from = s.from /\ u.to = s.to
      /\ u.left = p.records /\ u.next = p.next
  BY <1>6, <1>7 DEF Runs
<1> HIDE DEF u
<1>10. SyncTyped' BY <1>1, <1>3, <1>6, <1>8, <1>9, WorkerTyped
<1>11. PICK v : v = u OBVIOUS
<1>12. ASSUME conn.exists PROVE RunOK(v)'
  <2>1. Anchored(s.from) /\ Covered(s, s.cursor, {}) BY <1>1, <1>4, <1>6, <1>12 DEF RunOK
  <2>2. Going(s, p.next, p.records) BY <2>1, <1>1, <1>5, <1>6, FetchedPage
  <2>3. s.from \in Int /\ s.to \in Nat BY <1>6 DEF Runs
  <2>4. Anchored(s.from)' BY <2>1, <2>3, <1>1, <1>2, <1>6, AnchoredKept
  <2>5. Going(s, p.next, p.records)' BY <2>2, <2>3, <1>1, <1>2, <1>6, <1>7, CoveredKept
  <2>6. Going(v, p.next, p.records)'
    BY <2>5, <1>9, <1>11 DEF Going, Complete, Covered, Passed, InRange, Prompt
  <2> QED BY <2>4, <2>6, <1>9, <1>11 DEF RunOK
<1>13. sync' = [sync EXCEPT ![w] = v] BY <1>8, <1>11
<1> QED BY <1>2, <1>3, <1>10, <1>12, <1>13, WorkerStep

LEMMA SaveRecordStep ==
  ASSUME SyncInv, NEW w \in SyncWorkers, SaveRecord(w)
  PROVE  SyncInv'
<1>1. SyncTyped /\ (conn.exists => RunOK(sync[w])) BY DEF SyncInv, Synced
<1>2. /\ UNCHANGED <<profile, now, upstream, late, conn, origin>> /\ origin \in Int
      /\ sync[w].pc = "save" /\ stored \subseteq stored'
  BY <1>1 DEF SaveRecord, SyncTyped
<1>3. Grown BY <1>1, <1>2 DEF Grown, SyncTyped, Prompt
<1>4. PICK s : s = sync[w] OBVIOUS
<1>5. s \in Runs /\ s.from <= s.to /\ Fixed(s.from) /\ Fixed(s.to) /\ s.pc = "save"
      /\ s.from \in Int /\ s.to \in Nat /\ s.next \in Cursors
  BY <1>1, <1>2, <1>4, RangesFixed DEF SyncTyped, Runs
<1>6. CASE conn.exists
  <2>1. PICK r \in s.left : stored' = stored \cup {r}
                            /\ sync' = [sync EXCEPT ![w].left = @ \ {r}]
    BY <1>4, <1>6 DEF SaveRecord
  <2> DEFINE u == [s EXCEPT !.left = s.left \ {r}]
  <2>2. sync' = [sync EXCEPT ![w] = u] BY <2>1, <1>1, <1>4 DEF SyncTyped
  <2>3. /\ u \in Runs /\ u.pc = "save" /\ u.from = s.from /\ u.to = s.to
        /\ u.left = s.left \ {r} /\ u.next = s.next
    BY <1>5 DEF Runs
  <2> HIDE DEF u
  <2>4. SyncTyped' BY <1>1, <1>2, <1>5, <2>2, <2>3, WorkerTyped
  <2>5. Anchored(s.from)' /\ Going(s, s.next, s.left)'
    <3>1. Anchored(s.from) /\ Going(s, s.next, s.left) BY <1>1, <1>4, <1>5, <1>6 DEF RunOK
    <3> QED BY <3>1, <1>1, <1>3, <1>5, AnchoredKept, CoveredKept
  <2>6. PICK v : v = u OBVIOUS
  <2>7. Going(v, s.next, s.left \ {r})'
    BY <2>1, <2>3, <2>5, <2>6 DEF Going, Complete, Covered, Passed, InRange, Prompt
  <2>8. RunOK(v)' BY <2>3, <2>5, <2>6, <2>7 DEF RunOK
  <2>9. sync' = [sync EXCEPT ![w] = v] BY <2>2, <2>6
  <2> QED BY <1>2, <1>3, <2>4, <2>8, <2>9, WorkerStep
<1>7. CASE ~conn.exists
  <2> DEFINE u == [s EXCEPT !.pc = "fail"]
  <2>1. sync' = [sync EXCEPT ![w] = u] BY <1>7, <1>1, <1>4 DEF SaveRecord, SyncTyped
  <2>2. u \in Runs /\ u.from = s.from /\ u.to = s.to BY <1>5 DEF Runs
  <2> HIDE DEF u
  <2>3. SyncTyped' BY <1>1, <1>2, <1>5, <2>1, <2>2, WorkerTyped
  <2> QED BY <1>2, <1>7, <2>3 DEF SyncInv, Synced
<1> QED BY <1>6, <1>7

\* The row of the connector is written at the end of a page or of a run.
LEMMA ConnStep ==
  ASSUME SyncInv, SyncTyped', Grown,
         NEW w \in SyncWorkers, NEW u, sync' = [sync EXCEPT ![w] = u], conn.exists' => conn.exists,
         conn.exists => RunOK(u)' /\ CheckpointOK' /\ Anchored(conn.through)'
  PROVE  SyncInv'
<1> SUFFICES ASSUME conn.exists  PROVE \A v \in SyncWorkers : RunOK(sync[v])'
  BY DEF SyncInv, Synced
<1>1. \A v \in SyncWorkers : RunOK(sync[v]) BY DEF SyncInv, Synced
<1>2. SyncTyped BY DEF SyncInv
<1>3. ASSUME NEW v \in SyncWorkers PROVE RunOK(sync[v])'
  <2>1. CASE v = w
    <3>1. sync'[v] = u BY <2>1, <1>2 DEF SyncTyped
    <3>2. RunOK(u)' OBVIOUS
    <3> QED BY <3>1, <3>2
  <2>2. CASE v # w
    <3>1. PICK s : s = sync[v] OBVIOUS
    <3>2. s \in Runs /\ Fixed(s.from) /\ Fixed(s.to) /\ RunOK(s)
      BY <1>1, <1>2, <3>1, RangesFixed DEF SyncTyped
    <3>3. RunOK(s)' BY <1>2, <3>2, RunKept
    <3>4. sync'[v] = s BY <2>2, <1>2, <3>1 DEF SyncTyped
    <3> QED BY <3>3, <3>4
  <2> QED BY <2>1, <2>2
<1> QED BY <1>3

LEMMA SaveCheckpointStep ==
  ASSUME SyncInv, NEW w \in SyncWorkers, SaveCheckpoint(w)
  PROVE  SyncInv'
<1>1. SyncTyped /\ (conn.exists => RunOK(sync[w]) /\ Anchored(conn.through))
  BY DEF SyncInv, Synced
<1>2. /\ UNCHANGED <<profile, now, upstream, late, stored, origin>> /\ origin \in Int
      /\ sync[w].pc = "save" /\ sync[w].left = {}
  BY <1>1 DEF SaveCheckpoint, SyncTyped
<1>3. Grown BY <1>1, <1>2, NothingGrows
<1>4. PICK s : s = sync[w] OBVIOUS
<1>5. /\ s \in Runs /\ s.from <= s.to /\ Fixed(s.from) /\ Fixed(s.to) /\ s.pc = "save"
      /\ s.from \in Int /\ s.to \in Nat /\ s.next \in Cursors /\ s.left = {}
  BY <1>1, <1>2, <1>4, RangesFixed DEF SyncTyped, Runs
<1>6. NoCursor \in Cursors BY DEF Cursors
<1> DEFINE u == [s EXCEPT !.pc = IF s.next = NoCursor THEN "done" ELSE "fetch",
                          !.cursor = s.next, !.next = NoCursor]
<1>7. sync' = [sync EXCEPT ![w] = u] BY <1>1, <1>4 DEF SaveCheckpoint, SyncTyped
<1>8. /\ u \in Runs /\ u.from = s.from /\ u.to = s.to /\ u.cursor = s.next
      /\ u.pc = IF s.next = NoCursor THEN "done" ELSE "fetch"
  BY <1>5, <1>6 DEF Runs
<1> HIDE DEF u
<1>9. PICK p : p = [from |-> s.from, to |-> s.to, cursor |-> s.next] OBVIOUS
<1>10. p \in Ranges /\ p.from = s.from /\ p.to = s.to /\ p.cursor = s.next
  BY <1>5, <1>9 DEF Ranges
<1>11. /\ conn' \in [exists : BOOLEAN, active : BOOLEAN, due : BOOLEAN, through : Nat,
                     checkpoint : Ranges]
       /\ conn'.exists = conn.exists /\ conn'.through = conn.through
       /\ conn'.checkpoint = IF conn.exists THEN p ELSE conn.checkpoint
  <2>1. conn' = [conn EXCEPT !.checkpoint = IF conn.exists THEN p ELSE conn.checkpoint]
    BY <1>1, <1>4, <1>9 DEF SaveCheckpoint, SyncTyped
  <2>2. conn \in [exists : BOOLEAN, active : BOOLEAN, due : BOOLEAN, through : Nat,
                  checkpoint : Ranges]
    BY <1>1 DEF SyncTyped
  <2> QED BY <2>1, <2>2, <1>10
<1>12. SyncTyped'
  <2>1. sync' \in [SyncWorkers -> Runs] BY <1>1, <1>7, <1>8 DEF SyncTyped
  <2>2. \A v \in SyncWorkers : sync'[v].from <= sync'[v].to
    BY <1>1, <1>2, <1>5, <1>7, <1>8 DEF SyncTyped
  <2>3. conn'.checkpoint.from <= conn'.checkpoint.to
    BY <1>1, <1>2, <1>5, <1>10, <1>11 DEF SyncTyped
  <2> QED BY <1>1, <1>2, <1>11, <2>1, <2>2, <2>3 DEF SyncTyped
<1>13. PICK v : v = u OBVIOUS
<1>14. ASSUME conn.exists PROVE RunOK(v)' /\ CheckpointOK' /\ Anchored(conn.through)'
  <2>1. Anchored(s.from) /\ Going(s, s.next, {}) BY <1>1, <1>4, <1>5, <1>14 DEF RunOK
  <2>2. Anchored(s.from)' /\ Going(s, s.next, {})'
    BY <2>1, <1>1, <1>3, <1>5, AnchoredKept, CoveredKept
  <2>3. Covered(s, s.next, {})' /\ (s.next = NoCursor => Complete(s, {})')
    BY <2>2 DEF Going, Covered, Passed
  <2>4. /\ Covered(v, s.next, {})' /\ Covered(p, s.next, {})'
        /\ (s.next = NoCursor => Complete(v, {})')
    BY <2>3, <1>8, <1>10, <1>13 DEF Complete, Covered, Passed, InRange
  <2>5. RunOK(v)' BY <2>2, <2>4, <1>8, <1>13 DEF RunOK
  <2>6. (conn.checkpoint)' = p BY <1>11, <1>14
  <2>7. Anchored(p.from)' /\ Covered(p, p.cursor, {})' BY <2>2, <2>4, <1>10
  <2>8. CheckpointOK' BY <2>6, <2>7 DEF CheckpointOK
  <2>9. Anchored(conn.through)' BY <1>1, <1>2, <1>11, <1>14 DEF Anchored, Prompt
  <2> QED BY <2>5, <2>8, <2>9
<1>15. sync' = [sync EXCEPT ![w] = v] BY <1>7, <1>13
<1> QED BY <1>3, <1>11, <1>12, <1>14, <1>15, ConnStep

LEMMA FinishRunStep ==
  ASSUME SyncInv, NEW w \in SyncWorkers, FinishRun(w)
  PROVE  SyncInv'
<1>1. SyncTyped
      /\ (conn.exists => RunOK(sync[w]) /\ CheckpointOK /\ Anchored(conn.through))
  BY DEF SyncInv, Synced
<1>2. /\ UNCHANGED <<profile, now, upstream, late, stored, origin>> /\ origin \in Int
      /\ sync' = [sync EXCEPT ![w] = Idle]
  BY <1>1 DEF FinishRun, Ended, SyncTyped
<1>3. Grown BY <1>1, <1>2, NothingGrows
<1>4. PICK s : s = sync[w] OBVIOUS
<1>5. s \in Runs /\ s.from <= s.to /\ s.from \in Int /\ s.to \in Nat
  BY <1>1, <1>4 DEF SyncTyped, Runs
<1>6. /\ NoCheckpoint \in Ranges /\ NoCheckpoint.from = 0 /\ NoCheckpoint.to = 0
      /\ Idle \in Runs /\ Idle.from = 0 /\ Idle.to = 0 /\ Idle.pc = "idle"
  BY <1>1 DEF NoCheckpoint, Ranges, Cursors, Idle, Runs, SyncTyped
<1>7. conn \in [exists : BOOLEAN, active : BOOLEAN, due : BOOLEAN, through : Nat,
                checkpoint : Ranges]
  BY <1>1 DEF SyncTyped
<1>8. /\ conn' \in [exists : BOOLEAN, active : BOOLEAN, due : BOOLEAN, through : Nat,
                    checkpoint : Ranges]
      /\ conn'.exists = conn.exists
      /\ \/ conn'.through = conn.through /\ conn'.checkpoint = conn.checkpoint
         \/ /\ conn'.through = s.to /\ conn'.checkpoint = NoCheckpoint
            /\ s.pc = "done"
  <2>1. CASE ~conn.exists BY <2>1, <1>7 DEF FinishRun
  <2>2. CASE conn.exists
    <3> DEFINE soon == ~(conn.active /\ profile.interval > 0)
    <3>1. soon \in BOOLEAN OBVIOUS
    <3>2. conn' = [conn EXCEPT !.checkpoint = IF s.pc = "done" THEN NoCheckpoint ELSE conn.checkpoint,
                               !.through = IF s.pc = "done" THEN s.to ELSE conn.through,
                               !.due = soon]
      BY <2>2, <1>4, <1>7 DEF FinishRun, Finished
    <3> HIDE DEF soon
    <3> QED BY <3>1, <3>2, <1>5, <1>6, <1>7
  <2> QED BY <2>1, <2>2
<1>9. SyncTyped'
  <2>1. sync' \in [SyncWorkers -> Runs] BY <1>1, <1>2, <1>6 DEF SyncTyped
  <2>2. \A v \in SyncWorkers : sync'[v].from <= sync'[v].to
    BY <1>1, <1>2, <1>6 DEF SyncTyped
  <2>3. conn'.checkpoint.from <= conn'.checkpoint.to
    BY <1>1, <1>2, <1>5, <1>6, <1>8 DEF SyncTyped
  <2> QED BY <1>1, <1>2, <1>8, <2>1, <2>2, <2>3 DEF SyncTyped
<1>10. ASSUME conn.exists PROVE RunOK(Idle)' /\ CheckpointOK' /\ Anchored(conn.through)'
  <2>1. RunOK(Idle)' BY <1>6 DEF RunOK
  <2>2. CASE conn'.through = conn.through /\ conn'.checkpoint = conn.checkpoint
    <3>1. CheckpointOK' BY <2>2, <1>1, <1>3, <1>10, CheckpointKept
    <3>2. Anchored(conn.through)' BY <2>2, <1>1, <1>2, <1>10 DEF Anchored, Prompt
    <3> QED BY <2>1, <3>1, <3>2
  <2>3. CASE conn'.through = s.to /\ conn'.checkpoint = NoCheckpoint /\ s.pc = "done"
    <3>1. CheckpointOK' BY <2>3, <1>6 DEF CheckpointOK
    <3>2. Anchored(s.from) /\ Complete(s, {}) BY <2>3, <1>1, <1>4, <1>10 DEF RunOK
    <3>3. ASSUME NEW r \in Prompt, origin <= At[r], At[r] < s.to  PROVE r \in stored
      <4>1. At[r] \in Int BY <1>1 DEF SyncTyped, SyncAssumption, Prompt
      <4> QED BY <3>2, <3>3, <4>1, <1>5 DEF Anchored, Complete, InRange
    <3>4. Anchored(s.to)' BY <3>3, <1>2 DEF Anchored, Prompt
    <3>5. (conn.through)' = s.to BY <2>3
    <3> QED BY <2>1, <3>1, <3>4, <3>5
  <2> QED BY <2>2, <2>3, <1>8
<1> QED BY <1>2, <1>3, <1>8, <1>9, <1>10, ConnStep

\* Steps of others: no run changes, and of the connector only its flags.
LEMMA OtherStep ==
  ASSUME SyncInv, Grown, sync' = sync, now' \in Nat,
         conn' \in [exists : BOOLEAN, active : BOOLEAN, due : BOOLEAN, through : Nat,
                    checkpoint : Ranges],
         conn'.exists => conn.exists, conn'.through = conn.through,
         conn'.checkpoint = conn.checkpoint
  PROVE  SyncInv'
<1>1. SyncTyped BY DEF SyncInv
<1>3. SyncTyped' BY <1>1 DEF SyncTyped, Grown
<1>4. ASSUME conn.exists
      PROVE  Anchored(conn.through)' /\ CheckpointOK' /\ \A w \in SyncWorkers : RunOK(sync[w])'
  <2>1. Anchored(conn.through) /\ CheckpointOK /\ \A w \in SyncWorkers : RunOK(sync[w])
    BY <1>4 DEF SyncInv, Synced
  <2>2. PICK f : f = conn.through OBVIOUS
  <2>3. f \in Int /\ Fixed(f) /\ Anchored(f) BY <1>1, <2>1, <2>2, RangesFixed DEF SyncTyped
  <2>4. Anchored(f)' BY <1>1, <2>3, AnchoredKept
  <2>5. Anchored(conn.through)' BY <2>2, <2>4
  <2>6. CheckpointOK' BY <1>1, <2>1, CheckpointKept
  <2>7. ASSUME NEW w \in SyncWorkers PROVE RunOK(sync[w])'
    <3>1. PICK s : s = sync[w] OBVIOUS
    <3>2. s \in Runs /\ Fixed(s.from) /\ Fixed(s.to) /\ RunOK(s)
      BY <1>1, <2>1, <3>1, RangesFixed DEF SyncTyped
    <3>3. RunOK(s)' BY <1>1, <3>2, RunKept
    <3> QED BY <3>1, <3>3
  <2> QED BY <2>5, <2>6, <2>7
<1> QED BY <1>3, <1>4 DEF SyncInv, Synced

LEMMA FaultStep ==
  ASSUME SyncInv,
         \/ \E w \in SyncWorkers : Break(w) \/ Abandon(w)
         \/ UpdateBillingConnector \/ DeleteBillingConnector
  PROVE  SyncInv'
<1>1. SyncTyped BY DEF SyncInv
<1>2. ASSUME NEW w \in SyncWorkers, Break(w) \/ Abandon(w)  PROVE SyncInv'
  <2>1. UNCHANGED <<profile, now, upstream, late, conn, stored, origin>> /\ origin \in Int
    BY <1>1, <1>2 DEF Break, Abandon, SyncTyped
  <2>2. Grown BY <1>1, <2>1, NothingGrows
  <2>3. PICK u \in Runs : /\ sync' = [sync EXCEPT ![w] = u] /\ u.pc \in {"idle", "fail"}
                          /\ u.from <= u.to
    <3>1. CASE Break(w)
      <4>1. sync[w] \in Runs /\ sync[w].from <= sync[w].to BY <1>1 DEF SyncTyped
      <4> DEFINE u == [sync[w] EXCEPT !.pc = "fail"]
      <4>2. u \in Runs /\ u.pc = "fail" /\ u.from = sync[w].from /\ u.to = sync[w].to
        BY <4>1 DEF Runs
      <4>3. sync' = [sync EXCEPT ![w] = u] BY <3>1 DEF Break
      <4> HIDE DEF u
      <4> QED BY <4>1, <4>2, <4>3
    <3>2. CASE Abandon(w)
      <4>1. Idle \in Runs /\ Idle.pc = "idle" /\ Idle.from = 0 /\ Idle.to = 0
        BY <1>1 DEF Idle, Runs, Cursors, SyncTyped
      <4>2. Idle.from <= Idle.to BY <4>1
      <4>3. sync' = [sync EXCEPT ![w] = Idle] BY <3>2 DEF Abandon, Ended
      <4> QED BY <4>1, <4>2, <4>3
    <3> QED BY <1>2, <3>1, <3>2
  <2>4. SyncTyped' BY <1>1, <2>1, <2>3, WorkerTyped
  <2>5. RunOK(u)' BY <2>3 DEF RunOK
  <2> QED BY <2>1, <2>2, <2>3, <2>4, <2>5, WorkerStep
<1>3. conn \in [exists : BOOLEAN, active : BOOLEAN, due : BOOLEAN, through : Nat,
                checkpoint : Ranges] /\ now \in Nat
  BY <1>1 DEF SyncTyped
<1>4. CASE UpdateBillingConnector
  <2>1. Grown BY <1>1, <1>4, NothingGrows DEF UpdateBillingConnector
  <2>2. /\ conn' \in [exists : BOOLEAN, active : BOOLEAN, due : BOOLEAN, through : Nat,
                      checkpoint : Ranges]
        /\ conn'.exists = conn.exists /\ conn'.through = conn.through
        /\ conn'.checkpoint = conn.checkpoint
    <3> DEFINE soon == conn.active \/ profile.interval = 0
    <3>1. soon \in BOOLEAN OBVIOUS
    <3>2. conn' = [conn EXCEPT !.active = ~conn.active, !.due = soon]
      BY <1>3, <1>4 DEF UpdateBillingConnector
    <3> HIDE DEF soon
    <3> QED BY <3>1, <3>2, <1>3
  <2>3. sync' = sync /\ now' = now /\ upstream' = upstream BY <1>4 DEF UpdateBillingConnector
  <2> QED BY <1>3, <2>1, <2>2, <2>3, OtherStep
<1>5. CASE DeleteBillingConnector
  <2>1. conn' = [conn EXCEPT !.exists = FALSE]
        /\ UNCHANGED <<profile, now, upstream, late, sync, origin>>
    BY <1>5 DEF DeleteBillingConnector
  <2>2. /\ conn' \in [exists : BOOLEAN, active : BOOLEAN, due : BOOLEAN, through : Nat,
                      checkpoint : Ranges]
        /\ conn'.exists = FALSE /\ conn'.through = conn.through
        /\ conn'.checkpoint = conn.checkpoint
    BY <1>3, <2>1
  <2>3. SyncTyped' BY <1>1, <2>1, <2>2 DEF SyncTyped
  <2> QED BY <2>2, <2>3 DEF SyncInv, Synced
<1> QED BY <1>2, <1>4, <1>5

LEMMA WorldStep ==
  ASSUME SyncInv, Appear \/ SyncTick \/ FallDue \/ SyncLeaseExpires
  PROVE  SyncInv'
<1>1. SyncTyped BY DEF SyncInv
<1>2. /\ conn \in [exists : BOOLEAN, active : BOOLEAN, due : BOOLEAN, through : Nat,
                   checkpoint : Ranges]
      /\ now \in Nat /\ upstream \subseteq Records /\ origin \in Int
  BY <1>1 DEF SyncTyped, SyncAssumption
<1>3. CASE Appear
  <2>1. PICK r \in Records \ upstream : /\ upstream' = upstream \cup {r}
                                       /\ late' = IF Taken(At[r]) THEN late \cup {r} ELSE late
    BY <1>3 DEF Appear
  <2>2. \A q \in Prompt' \ Prompt : q = r /\ ~Taken(At[r]) BY <2>1 DEF Prompt
  <2>3. Grown BY <1>2, <1>3, <2>1, <2>2 DEF Appear, Grown
  <2> QED BY <1>2, <1>3, <2>3, OtherStep DEF Appear
<1>4. CASE SyncTick
  <2>1. now' \in Nat BY <1>2, <1>4 DEF SyncTick
  <2>2. Grown BY <1>1, <1>4, NothingGrows DEF SyncTick
  <2> QED BY <1>2, <1>4, <2>1, <2>2, OtherStep DEF SyncTick
<1>5. CASE FallDue
  <2>1. Grown BY <1>1, <1>5, NothingGrows DEF FallDue
  <2>2. /\ conn' \in [exists : BOOLEAN, active : BOOLEAN, due : BOOLEAN, through : Nat,
                      checkpoint : Ranges]
        /\ conn'.exists = conn.exists /\ conn'.through = conn.through
        /\ conn'.checkpoint = conn.checkpoint
    BY <1>2, <1>5 DEF FallDue
  <2> QED BY <1>2, <1>5, <2>1, <2>2, OtherStep DEF FallDue
<1>6. CASE SyncLeaseExpires
  <2>1. Grown BY <1>1, <1>6, NothingGrows DEF SyncLeaseExpires
  <2> QED BY <1>2, <1>6, <2>1, OtherStep DEF SyncLeaseExpires
<1> QED BY <1>3, <1>4, <1>5, <1>6

LEMMA StutterStep ==
  ASSUME SyncInv, UNCHANGED syncVars
  PROVE  SyncInv'
<1>1. SyncTyped /\ UNCHANGED <<profile, now, upstream, late, conn, stored, syncLease, sync, faults, origin>>
  BY DEF syncVars, SyncInv
<1>2. Grown BY <1>1, NothingGrows
<1> QED BY <1>1, <1>2, OtherStep DEF SyncTyped

\* last_synced_through is believed by reconciliation: no bill that was listed
\* before a range over its start was taken falls behind it, for any bills,
\* delays, adapters, overlapping runs, failures and resumptions.
THEOREM NoBillFallsBehind ==
  SSpec => []NoGap
<1>1. SInit => SyncInv BY SyncInit
<1>2. SyncInv /\ [SNext]_syncVars => SyncInv'
  <2> SUFFICES ASSUME SyncInv, [SNext]_syncVars PROVE SyncInv' OBVIOUS
  <2>1. ASSUME NEW w \in SyncWorkers, Work(w) PROVE SyncInv'
    BY <2>1, RunDueStep, BeginStep, FetchStep, SaveRecordStep, SaveCheckpointStep,
       FinishRunStep DEF Work
  <2>2. CASE UNCHANGED syncVars BY <2>2, StutterStep
  <2>3. ASSUME NEW w \in SyncWorkers, Break(w) \/ Abandon(w) PROVE SyncInv'
    BY <2>3, FaultStep
  <2>4. CASE UpdateBillingConnector \/ DeleteBillingConnector BY <2>4, FaultStep
  <2>5. CASE Appear \/ SyncTick \/ FallDue \/ SyncLeaseExpires BY <2>5, WorldStep
  <2> QED BY <2>1, <2>2, <2>3, <2>4, <2>5 DEF SNext
<1>3. SyncInv => NoGap BY DEF SyncInv, Synced, Anchored, NoGap, Prompt
<1> QED BY <1>1, <1>2, <1>3, PTL DEF SSpec
=============================================================================
