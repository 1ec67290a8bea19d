-------------------------- MODULE SettlementProofs --------------------------
(***************************************************************************)
(* Proofs about what is settled with the outside: payment orders, for any  *)
(* number of orders and handlers and any amounts, and the reconciliation   *)
(* of the usage books with the upstream's bills, for any calls, bills and  *)
(* workers.                                                                *)
(***************************************************************************)
EXTENDS Payment, Books, TallyProofs, SequenceTheorems

-----------------------------------------------------------------------------
(* Payment orders. *)

Jobs == [order : Orders, status : {"pending", "closed"}, admin : BOOLEAN]

\* A handler past "idle" works on an order.
JobsOK == \A h \in Handlers : at[h] # "idle" => job[h] \in Jobs

\* The row of an order is its price, put there for a reason; there is none for
\* an order of a plan.
RowsJustified ==
  \A o \in Orders :
    ledger[Account][o] # Bank!NoRow =>
      /\ ledger[Account][o] = [type |-> "topup", amount |-> price[o]]
      /\ kind[o] = "topup"
      /\ Justified(o)

\* A handler about to credit an order checked it, one about to mark it paid
\* credited it.
HandlersJustified ==
  \A h \in Handlers :
    /\ at[h] = "credit" => Justified(job[h].order)
    /\ at[h] = "mark" => Credited(job[h].order)

\* Callbacks are answered about money that was collected.
AnswersFollow == \A o \in Orders : answered[o] => collected[o] > 0

\* A callback is handled for an order the payment gateway collected for.
CallbacksCollected ==
  \A h \in Handlers :
    at[h] # "idle" /\ ~job[h].admin => collected[job[h].order] > 0

RowAmounts == [o \in Orders |-> ledger[Account][o].amount]

BalanceIsRows == balance[Account] = Total(RowAmounts, MaxAmount)

-----------------------------------------------------------------------------
(* Type correctness.                                                       *)

\* Handlers that work on an order keep every variable within its type.
LEMMA TypeStep ==
  ASSUME TypeOK, JobsOK, [Next]_vars
  PROVE  TypeOK' /\ JobsOK'
<1> USE MaxPriceAssumption, MaxActivationsAssumption
    DEF TypeOK, JobsOK, Jobs, Amounts, wallet, order
<1>1. ASSUME NEW o \in Orders, CreateOrder(o)
      PROVE  TypeOK' /\ JobsOK'
  BY <1>1 DEF CreateOrder, Bank!TypeOK
<1>2. ASSUME NEW o \in Orders, UserPays(o)
      PROVE  TypeOK' /\ JobsOK'
  BY <1>2 DEF UserPays, Bank!TypeOK
<1>3. ASSUME NEW o \in Orders, Expire(o)
      PROVE  TypeOK' /\ JobsOK'
  BY <1>3 DEF Expire, Bank!TypeOK
<1>4. ASSUME NEW h \in Handlers, NEW o \in Orders, Notify(h, o)
      PROVE  TypeOK' /\ JobsOK'
  <2>1. CASE status[o] = "pending" /\ Start(h, o, FALSE, "check")
                /\ UNCHANGED answered
    BY <1>4, <2>1 DEF Notify, Start, Goto, Bank!TypeOK
  <2>2. CASE Answer(o) /\ UNCHANGED <<at, job>>
    BY <1>4, <2>2 DEF Notify, Answer, Bank!TypeOK
  <2> QED
    BY <1>4, <2>1, <2>2 DEF Notify
<1>5. ASSUME NEW h \in Handlers, NEW o \in Orders, AdminComplete(h, o)
      PROVE  TypeOK' /\ JobsOK'
  BY <1>5 DEF AdminComplete, Start, Goto, Bank!TypeOK
<1>6. ASSUME NEW h \in Handlers, Refuse(h) \/ Abandon(h)
      PROVE  TypeOK' /\ JobsOK'
  BY <1>6 DEF Refuse, Abandon, Stop, Goto, Bank!TypeOK
<1>7. ASSUME NEW h \in Handlers, Accept(h)
      PROVE  TypeOK' /\ JobsOK'
  BY <1>7 DEF Accept, Goto, Bank!TypeOK
<1>8. ASSUME NEW h \in Handlers, CloseExpired(h)
      PROVE  TypeOK' /\ JobsOK'
  BY <1>8 DEF CloseExpired, Stop, Goto, Bank!TypeOK
<1>9. ASSUME NEW h \in Handlers, Credit(h)
      PROVE  TypeOK' /\ JobsOK'
  <2> DEFINE o == job[h].order
  <2>1. o \in Orders /\ price[o] \in 1 .. MaxAmount
    BY <1>9 DEF Credit
  <2>2. Bank!TypeOK'
    <3>1. CASE Bank!TopUp(Account, o, price[o])
      <4>1. [type |-> "topup", amount |-> price[o]] \in Bank!Row
        BY <2>1 DEF Bank!Row, Bank!TxTypes, Bank!Credits, Bank!Debits
      <4> QED
        BY <2>1, <3>1, <4>1
           DEF Bank!TypeOK, Bank!TopUp, Bank!WriteRow, Bank!Move
    <3>2. CASE UNCHANGED <<balance, frozen, ledger>>
      BY <3>2 DEF Bank!TypeOK
    <3> QED
      BY <1>9, <3>1, <3>2 DEF Credit
  <2>3. activations' \in [Orders -> 0 .. MaxActivations]
    BY <1>9, <2>1 DEF Credit, Bank!TopUp
  <2> QED
    BY <1>9, <2>2, <2>3 DEF Credit, Goto
<1>10. ASSUME NEW h \in Handlers, MarkPaid(h)
       PROVE  TypeOK' /\ JobsOK'
  BY <1>10 DEF MarkPaid, Stop, Goto, Answer, Bank!TypeOK
<1>11. CASE UNCHANGED vars
  BY <1>11 DEF vars, Bank!TypeOK
<1> QED
  BY <1>1, <1>2, <1>3, <1>4, <1>5, <1>6, <1>7, <1>8, <1>9, <1>10, <1>11
     DEF Next, Step

LEMMA InitTyped == Init => TypeOK /\ JobsOK
BY MaxPriceAssumption, MaxActivationsAssumption
   DEF Init, TypeOK, JobsOK, NoJob, Amounts, Bank!Init, Bank!TypeOK, Bank!NoRow,
       Bank!Row, Bank!TxTypes, Bank!Credits, Bank!Debits

\* Whatever callbacks are repeated and however handlers overlap and stop, the
\* orders and the wallet stay within their types.
THEOREM TypeCorrect == Spec => []TypeOK
<1>1. TypeOK /\ JobsOK /\ [Next]_vars => (TypeOK /\ JobsOK)'
  BY TypeStep
<1> QED
  BY InitTyped, <1>1, PTL DEF Spec
-----------------------------------------------------------------------------
(* What never changes back.                                                *)

\* The wallet changes only when a checked top-up is credited.
LEMMA WalletStep ==
  ASSUME [Next]_vars
  PROVE  \/ UNCHANGED wallet
         \/ \E h \in Handlers :
              /\ Credit(h)
              /\ kind[job[h].order] = "topup"
              /\ Bank!TopUp(Account, job[h].order, price[job[h].order])
<1> USE DEF wallet
<1>1. ASSUME NEW h \in Handlers, Step(h)
      PROVE  \/ UNCHANGED wallet
             \/ /\ Credit(h)
                /\ kind[job[h].order] = "topup"
                /\ Bank!TopUp(Account, job[h].order, price[job[h].order])
  BY <1>1 DEF Step, Refuse, Accept, CloseExpired, Credit, MarkPaid
<1> QED
  BY <1>1 DEF Next, vars, CreateOrder, UserPays, Expire, Notify, AdminComplete,
              Abandon

\* Orders keep their kind and price, and lose neither a matching payment, nor
\* the administrator's word, nor an activation.
LEMMA OrderStep ==
  ASSUME TypeOK, JobsOK, [Next]_vars
  PROVE  /\ kind' = kind
         /\ price' = price
         /\ \A o \in Orders :
              /\ collected[o] > 0 => collected'[o] = collected[o]
              /\ manual[o] => manual'[o]
              /\ activations[o] > 0 => activations'[o] > 0
              /\ status[o] = "closed" => status'[o] = "closed"
              /\ status[o] = "paid" => status'[o] = "paid"
<1> DEFINE Kept ==
      /\ kind' = kind
      /\ price' = price
      /\ \A o \in Orders :
           /\ collected[o] > 0 => collected'[o] = collected[o]
           /\ manual[o] => manual'[o]
           /\ activations[o] > 0 => activations'[o] > 0
           /\ status[o] = "closed" => status'[o] = "closed"
           /\ status[o] = "paid" => status'[o] = "paid"
<1> USE DEF TypeOK, order
<1>1. ASSUME NEW o \in Orders, CreateOrder(o) \/ UserPays(o) \/ Expire(o)
      PROVE  Kept
  BY <1>1 DEF CreateOrder, UserPays, Expire
<1>2. ASSUME NEW h \in Handlers, NEW o \in Orders, Notify(h, o)
      PROVE  Kept
  BY <1>2 DEF Notify
<1>3. ASSUME NEW h \in Handlers, NEW o \in Orders, AdminComplete(h, o)
      PROVE  Kept
  BY <1>3 DEF AdminComplete
<1>4. ASSUME NEW h \in Handlers, Refuse(h) \/ Abandon(h) \/ Accept(h)
      PROVE  Kept
  BY <1>4 DEF Refuse, Abandon, Accept
<1>5. ASSUME NEW h \in Handlers, CloseExpired(h)
      PROVE  Kept
  BY <1>5 DEF CloseExpired
<1>6. ASSUME NEW h \in Handlers, Credit(h)
      PROVE  Kept
  BY <1>6, MaxActivationsAssumption DEF Credit, Bank!TopUp
<1>7. ASSUME NEW h \in Handlers, MarkPaid(h)
      PROVE  Kept
  BY <1>7 DEF MarkPaid
<1>8. CASE UNCHANGED vars
  BY <1>8 DEF vars
<1> QED
  BY <1>1, <1>2, <1>3, <1>4, <1>5, <1>6, <1>7, <1>8 DEF Next, Step

\* A reason to credit an order stays one.
LEMMA JustifiedStays ==
  ASSUME TypeOK, JobsOK, [Next]_vars, NEW o \in Orders, Justified(o)
  PROVE  Justified(o)'
<1>1. price[o] > 0
  BY DEF TypeOK, Amounts
<1> QED
  BY <1>1, OrderStep DEF Justified

\* A row that was credited is never written again, so what was delivered stays
\* delivered.
LEMMA CreditedStays ==
  ASSUME TypeOK, JobsOK, [Next]_vars, NEW o \in Orders, Credited(o)
  PROVE  Credited(o)'
<1>1. kind[o] = "topup" => ledger'[Account][o] = ledger[Account][o]
  <2> SUFFICES ASSUME kind[o] = "topup"
               PROVE  ledger'[Account][o] = ledger[Account][o]
    OBVIOUS
  <2>1. ledger[Account][o].type = "topup"
    BY DEF Credited
  <2>2. CASE UNCHANGED wallet
    BY <2>2 DEF wallet
  <2>3. ASSUME NEW h \in Handlers,
               Bank!TopUp(Account, job[h].order, price[job[h].order])
        PROVE  ledger'[Account][o] = ledger[Account][o]
    BY <2>1, <2>3
       DEF Bank!TopUp, Bank!Fresh, Bank!WriteRow, TypeOK, Bank!TypeOK
  <2> QED
    BY <2>2, <2>3, WalletStep
<1> QED
  BY <1>1, OrderStep DEF Credited

\* A paid order stays paid, whatever the other handlers saw before.
THEOREM PaidStaysPaid == Spec => PaidIsFinal
<1> DEFINE Kept == \A o \in Orders : status[o] = "paid" => status'[o] = "paid"
<1>1. TypeOK /\ JobsOK /\ [Next]_vars => (TypeOK /\ JobsOK)' /\ Kept
  BY TypeStep, OrderStep
<1> QED
  BY <1>1, InitTyped, PTL DEF Spec, PaidIsFinal

-----------------------------------------------------------------------------
(* Deliveries.                                                             *)

Delivery ==
  /\ TypeOK
  /\ JobsOK
  /\ RowsJustified
  /\ HandlersJustified
  /\ CallbacksCollected
  /\ AnswersFollow
  /\ PaidMeansCredited
  /\ AcknowledgedMeansSettled

\* Rows are written for checked orders only.
LEMMA RowsStep ==
  ASSUME Delivery, [Next]_vars
  PROVE  RowsJustified'
<1> USE DEF Delivery
<1> SUFFICES ASSUME NEW o \in Orders, ledger'[Account][o] # Bank!NoRow
             PROVE  /\ ledger'[Account][o] = [type |-> "topup", amount |-> price'[o]]
                    /\ kind'[o] = "topup"
                    /\ Justified(o)'
  BY DEF RowsJustified, Bank!NoRow
<1>1. CASE ledger'[Account][o] = ledger[Account][o]
  BY <1>1, OrderStep, JustifiedStays DEF RowsJustified
<1>2. ASSUME NEW h \in Handlers, Credit(h), kind[job[h].order] = "topup",
             Bank!TopUp(Account, job[h].order, price[job[h].order]),
             ledger'[Account][o] # ledger[Account][o]
      PROVE  /\ ledger'[Account][o] = [type |-> "topup", amount |-> price'[o]]
             /\ kind'[o] = "topup"
             /\ Justified(o)'
  <2>1. o = job[h].order
    BY <1>2 DEF Bank!TopUp, Bank!WriteRow, TypeOK, Bank!TypeOK
  <2>2. ledger'[Account][o] = [type |-> "topup", amount |-> price[o]]
    BY <1>2, <2>1 DEF Bank!TopUp, Bank!WriteRow, TypeOK, Bank!TypeOK
  <2>3. Justified(o)
    BY <1>2, <2>1 DEF Credit, HandlersJustified
  <2> QED
    BY <1>2, <2>1, <2>2, <2>3, OrderStep, JustifiedStays
<1> QED
  BY <1>1, <1>2, WalletStep DEF wallet

\* Crediting an order delivers it, also when the row was there already.
LEMMA CreditDelivers ==
  ASSUME Delivery, NEW h \in Handlers, Credit(h)
  PROVE  Credited(job[h].order)'
<1> DEFINE o == job[h].order
<1> USE DEF Delivery
<1>1. o \in Orders /\ price' = price /\ kind' = kind /\ job' = job
  BY DEF Credit, JobsOK, Jobs
<1>2. CASE kind[o] = "topup" /\ Bank!TopUp(Account, o, price[o])
  BY <1>1, <1>2
     DEF Credited, Bank!TopUp, Bank!WriteRow, TypeOK, Bank!TypeOK
<1>3. CASE kind[o] = "topup" /\ ~Bank!Fresh(Account, o) /\ UNCHANGED wallet
  <2>1. ledger[Account][o] # Bank!NoRow
    BY <1>3 DEF Bank!Fresh, Bank!NoRow
  <2> QED
    BY <1>1, <1>3, <2>1 DEF RowsJustified, Credited, wallet
<1>4. CASE /\ kind[o] = "subscription"
           /\ activations' = [activations EXCEPT
                ![o] = IF @ < MaxActivations THEN @ + 1 ELSE @]
  BY <1>1, <1>4, MaxActivationsAssumption DEF Credited, TypeOK
<1> QED
  BY <1>2, <1>3, <1>4 DEF Credit

\* Handlers reach "credit" by a check and "mark" by a credit.
LEMMA HandlersStep ==
  ASSUME Delivery, [Next]_vars
  PROVE  HandlersJustified'
<1> USE DEF Delivery
<1> SUFFICES ASSUME NEW x \in Handlers
             PROVE  /\ (at[x] = "credit" => Justified(job[x].order))'
                    /\ (at[x] = "mark" => Credited(job[x].order))'
  BY DEF HandlersJustified
<1> DEFINE Goal == /\ (at[x] = "credit" => Justified(job[x].order))'
                   /\ (at[x] = "mark" => Credited(job[x].order))'
<1>0. ASSUME at'[x] = at[x], job'[x] = job[x]
      PROVE  Goal
  <2>1. CASE at[x] = "credit"
    BY <1>0, <2>1, JustifiedStays DEF HandlersJustified, JobsOK, Jobs, Justified
  <2>2. CASE at[x] = "mark"
    BY <1>0, <2>2, CreditedStays DEF HandlersJustified, JobsOK, Jobs, Credited
  <2> QED
    BY <1>0, <2>1, <2>2
<1>1. CASE \E o \in Orders : CreateOrder(o) \/ UserPays(o) \/ Expire(o)
  BY <1>0, <1>1 DEF CreateOrder, UserPays, Expire
<1>2. ASSUME NEW h \in Handlers, NEW o \in Orders, Notify(h, o)
      PROVE  Goal
  <2>1. CASE x = h /\ Start(h, o, FALSE, "check")
    BY <2>1 DEF Start, Goto, TypeOK
  <2>2. CASE x # h /\ Start(h, o, FALSE, "check")
    BY <1>0, <2>2 DEF Start, Goto, TypeOK
  <2>3. CASE UNCHANGED <<at, job>>
    BY <1>0, <2>3
  <2> QED
    BY <1>2, <2>1, <2>2, <2>3 DEF Notify
<1>3. ASSUME NEW h \in Handlers, NEW o \in Orders, AdminComplete(h, o)
      PROVE  Goal
  <2>1. CASE x = h
    BY <1>3, <2>1 DEF AdminComplete, Start, Goto, TypeOK, Justified
  <2>2. CASE x # h
    BY <1>0, <1>3, <2>2 DEF AdminComplete, Start, Goto, TypeOK
  <2> QED
    BY <2>1, <2>2
<1>4. ASSUME NEW h \in Handlers,
             Refuse(h) \/ Abandon(h) \/ CloseExpired(h) \/ MarkPaid(h)
      PROVE  Goal
  <2>1. Stop(h)
    BY <1>4 DEF Refuse, Abandon, CloseExpired, MarkPaid
  <2>2. CASE x = h
    BY <2>1, <2>2 DEF Stop, Goto, TypeOK
  <2>3. CASE x # h
    BY <1>0, <2>1, <2>3 DEF Stop, Goto, TypeOK
  <2> QED
    BY <2>2, <2>3
<1>5. ASSUME NEW h \in Handlers, Accept(h)
      PROVE  Goal
  <2>1. CASE x = h
    BY <1>5, <2>1 DEF Accept, Goto, TypeOK, Justified, order
  <2>2. CASE x # h
    BY <1>0, <1>5, <2>2 DEF Accept, Goto, TypeOK
  <2> QED
    BY <2>1, <2>2
<1>6. ASSUME NEW h \in Handlers, Credit(h)
      PROVE  Goal
  <2>1. CASE x = h
    BY <1>6, <2>1, CreditDelivers DEF Credit, Goto, TypeOK
  <2>2. CASE x # h
    BY <1>0, <1>6, <2>2 DEF Credit, Goto, TypeOK
  <2> QED
    BY <2>1, <2>2
<1>7. CASE UNCHANGED vars
  BY <1>0, <1>7 DEF vars
<1> QED
  BY <1>1, <1>2, <1>3, <1>4, <1>5, <1>6, <1>7 DEF Next, Step

\* The payment gateway calls back about money it collected.
LEMMA CallbacksStep ==
  ASSUME Delivery, [Next]_vars
  PROVE  CallbacksCollected'
<1> USE DEF Delivery, TypeOK
<1> SUFFICES ASSUME NEW x \in Handlers, at'[x] # "idle", ~job'[x].admin
             PROVE  collected'[job'[x].order] > 0
  BY DEF CallbacksCollected
<1>0. ASSUME at[x] # "idle", job'[x] = job[x]
      PROVE  collected'[job'[x].order] > 0
  <2>1. job[x].order \in Orders /\ collected[job[x].order] > 0
    BY <1>0 DEF CallbacksCollected, JobsOK, Jobs
  <2> QED
    BY <1>0, <2>1, OrderStep
<1>1. ASSUME NEW h \in Handlers, NEW o \in Orders, Notify(h, o),
             ~(at[x] # "idle" /\ job'[x] = job[x])
      PROVE  collected'[job'[x].order] > 0
  <2>1. x = h /\ job'[x].order = o
    BY <1>1 DEF Notify, Start, Goto
  <2> QED
    BY <1>1, <2>1 DEF Notify
<1>2. ASSUME NEW h \in Handlers, NEW o \in Orders, AdminComplete(h, o)
      PROVE  at[x] # "idle" /\ job'[x] = job[x]
  BY <1>2 DEF AdminComplete, Start, Goto
<1>3. ASSUME NEW h \in Handlers,
             Refuse(h) \/ Abandon(h) \/ CloseExpired(h) \/ MarkPaid(h)
      PROVE  at[x] # "idle" /\ job'[x] = job[x]
  BY <1>3 DEF Refuse, Abandon, CloseExpired, MarkPaid, Stop, Goto
<1>4. ASSUME NEW h \in Handlers, Accept(h) \/ Credit(h)
      PROVE  at[x] # "idle" /\ job'[x] = job[x]
  BY <1>4 DEF Accept, Credit, Goto
<1>5. CASE \E o \in Orders : CreateOrder(o) \/ UserPays(o) \/ Expire(o)
  BY <1>0, <1>5 DEF CreateOrder, UserPays, Expire
<1>6. CASE UNCHANGED vars
  BY <1>0, <1>6 DEF vars
<1> QED
  BY <1>0, <1>1, <1>2, <1>3, <1>4, <1>5, <1>6 DEF Next, Step

\* An order becomes paid when a handler marks it.
LEMMA PaidStep ==
  ASSUME Delivery, [Next]_vars
  PROVE  PaidMeansCredited'
<1> USE DEF Delivery
<1> SUFFICES ASSUME NEW o \in Orders, status'[o] = "paid"
             PROVE  Credited(o)'
  BY DEF PaidMeansCredited
<1>1. CASE status[o] = "paid"
  BY <1>1, CreditedStays DEF PaidMeansCredited
<1>2. ASSUME status[o] # "paid", NEW h \in Handlers, MarkPaid(h)
      PROVE  Credited(o)'
  <2>1. o = job[h].order
    BY <1>2 DEF MarkPaid, TypeOK
  <2> QED
    BY <1>2, <2>1, CreditedStays DEF MarkPaid, HandlersJustified
<1>3. CASE status[o] # "paid" /\ ~\E h \in Handlers : MarkPaid(h)
  <2> USE <1>3 DEF TypeOK, order
  <2>1. ASSUME NEW x \in Orders, CreateOrder(x) \/ UserPays(x) \/ Expire(x)
        PROVE  FALSE
    BY <2>1 DEF CreateOrder, UserPays, Expire
  <2>2. ASSUME NEW h \in Handlers, NEW x \in Orders,
               Notify(h, x) \/ AdminComplete(h, x)
        PROVE  FALSE
    BY <2>2 DEF Notify, AdminComplete
  <2>3. ASSUME NEW h \in Handlers,
               Refuse(h) \/ Abandon(h) \/ Accept(h) \/ CloseExpired(h)
                 \/ Credit(h)
        PROVE  FALSE
    BY <2>3 DEF Refuse, Abandon, Accept, CloseExpired, Credit
  <2> QED
    BY <2>1, <2>2, <2>3 DEF Next, Step, vars
<1> QED
  BY <1>1, <1>2, <1>3

\* A callback is answered when its order is final or was just marked.
LEMMA AnswerStep ==
  ASSUME Delivery, [Next]_vars, NEW o \in Orders, ~answered[o], answered'[o]
  PROVE  /\ Credited(o)' \/ status'[o] = "closed"
         /\ collected'[o] > 0
<1> USE DEF Delivery
<1> DEFINE Settled == /\ Credited(o)' \/ status'[o] = "closed"
                      /\ collected'[o] > 0
<1>1. ASSUME NEW h \in Handlers, NEW x \in Orders, Notify(h, x)
      PROVE  Settled
  <2>1. x = o /\ status[o] \in {"paid", "closed"} /\ collected[o] > 0
    BY <1>1 DEF Notify, Answer, TypeOK
  <2> QED
    BY <2>1, OrderStep, CreditedStays DEF PaidMeansCredited
<1>2. ASSUME NEW h \in Handlers, MarkPaid(h)
      PROVE  Settled
  <2>1. o = job[h].order /\ at[h] = "mark" /\ ~job[h].admin
    BY <1>2 DEF MarkPaid, Answer, TypeOK
  <2>2. Credited(o)'
    BY <2>1, CreditedStays DEF HandlersJustified
  <2>3. collected[o] > 0
    BY <2>1 DEF CallbacksCollected
  <2> QED
    BY <2>2, <2>3, OrderStep
<1>3. ASSUME NEW x \in Orders,
             CreateOrder(x) \/ UserPays(x) \/ Expire(x)
      PROVE  FALSE
  BY <1>3 DEF CreateOrder, UserPays, Expire
<1>4. ASSUME NEW h \in Handlers,
             \/ Refuse(h) \/ Abandon(h) \/ Accept(h) \/ CloseExpired(h)
             \/ Credit(h) \/ \E x \in Orders : AdminComplete(h, x)
      PROVE  FALSE
  BY <1>4 DEF Refuse, Abandon, Accept, CloseExpired, Credit, AdminComplete
<1>5. CASE UNCHANGED vars
  BY <1>5 DEF vars
<1> QED
  BY <1>1, <1>2, <1>3, <1>4, <1>5 DEF Next, Step

\* Answers stay true: what they were about is final.
LEMMA AcknowledgedStep ==
  ASSUME Delivery, [Next]_vars
  PROVE  AnswersFollow' /\ AcknowledgedMeansSettled'
<1> USE DEF Delivery
<1> SUFFICES ASSUME NEW o \in Orders, answered'[o]
             PROVE  /\ collected'[o] > 0
                    /\ collected'[o] = price'[o] =>
                         Credited(o)' \/ status'[o] = "closed"
  BY DEF AnswersFollow, AcknowledgedMeansSettled
<1>1. CASE answered[o]
  <2>1. collected[o] > 0 /\ collected'[o] = collected[o] /\ price' = price
    BY <1>1, OrderStep DEF AnswersFollow
  <2>2. collected[o] = price[o] => Credited(o) \/ status[o] = "closed"
    BY <1>1 DEF AcknowledgedMeansSettled
  <2> QED
    BY <2>1, <2>2, OrderStep, CreditedStays
<1>2. CASE ~answered[o]
  BY <1>2, AnswerStep
<1> QED
  BY <1>1, <1>2

LEMMA InitDelivery == Init => Delivery
BY InitTyped
   DEF Init, Delivery, Bank!Init, RowsJustified, HandlersJustified,
       CallbacksCollected, AnswersFollow, PaidMeansCredited,
       AcknowledgedMeansSettled

LEMMA DeliveryStep ==
  ASSUME Delivery, [Next]_vars
  PROVE  Delivery'
BY TypeStep, RowsStep, HandlersStep, CallbacksStep, AcknowledgedStep, PaidStep
   DEF Delivery

\* However callbacks are duplicated, overlap and fail: an order shows as paid
\* only after what it buys was delivered, ...
THEOREM PaidOrdersAreDelivered == Spec => []PaidMeansCredited
<1>1. Delivery => PaidMeansCredited
  BY DEF Delivery
<1> QED
  BY InitDelivery, DeliveryStep, <1>1, PTL DEF Spec

\* ... and a callback is acknowledged only when its payment was delivered or the
\* order closed.
THEOREM AcknowledgedOrdersAreSettled == Spec => []AcknowledgedMeansSettled
<1>1. Delivery => AcknowledgedMeansSettled
  BY DEF Delivery
<1> QED
  BY InitDelivery, DeliveryStep, <1>1, PTL DEF Spec

-----------------------------------------------------------------------------
(* Money.                                                                  *)

\* The columns of credited and of due amounts.
LEMMA ColumnTypes ==
  ASSUME TypeOK, RowsJustified
  PROVE  /\ RowAmounts \in [Orders -> Int]
         /\ [o \in Orders |-> Due(o)] \in [Orders -> Int]
         /\ \A o \in Orders : RowAmounts[o] \in 0 .. MaxAmount
         /\ \A o \in Orders : RowAmounts[o] <= Due(o)
<1> SUFFICES ASSUME NEW o \in Orders
             PROVE  /\ ledger[Account][o].amount \in 0 .. MaxAmount
                    /\ Due(o) \in 0 .. MaxAmount
                    /\ ledger[Account][o].amount <= Due(o)
  BY MaxPriceAssumption DEF RowAmounts
<1>1. Due(o) \in 0 .. MaxAmount
  BY MaxPriceAssumption DEF Due, TypeOK, Amounts
<1>2. CASE ledger[Account][o] = Bank!NoRow
  BY <1>1, <1>2, MaxPriceAssumption DEF Bank!NoRow
<1>3. CASE ledger[Account][o] # Bank!NoRow
  <2>1. ledger[Account][o].amount = price[o]
    <3>1. ledger[Account][o] = [type |-> "topup", amount |-> price[o]]
      BY <1>3 DEF RowsJustified
    <3> QED
      BY <3>1
  <2>2. Due(o) = price[o]
    BY <1>3 DEF RowsJustified, Due
  <2>3. price[o] \in 1 .. MaxAmount
    BY DEF TypeOK, Amounts
  <2> QED
    BY <2>1, <2>2, <2>3, MaxPriceAssumption
<1> QED
  BY <1>1, <1>2, <1>3

\* A credit adds the same amount to the wallet and to the column of its rows.
LEMMA BalanceStep ==
  ASSUME Delivery, RowsJustified', BalanceIsRows, [Next]_vars
  PROVE  BalanceIsRows'
<1> USE DEF Delivery
<1>1. CASE UNCHANGED wallet
  BY <1>1 DEF wallet, BalanceIsRows, RowAmounts
<1>2. ASSUME NEW h \in Handlers, Credit(h),
             Bank!TopUp(Account, job[h].order, price[job[h].order])
      PROVE  BalanceIsRows'
  <2> DEFINE o == job[h].order
  <2>1. /\ o \in Orders
        /\ price[o] \in 1 .. MaxAmount
        /\ balance' = [balance EXCEPT ![Account] = @ + price[o]]
        /\ ledger' = [ledger EXCEPT
             ![Account][o] = [type |-> "topup", amount |-> price[o]]]
    BY <1>2 DEF Credit, JobsOK, Jobs, TypeOK, Amounts, Bank!TopUp, Bank!Move,
                Bank!WriteRow
  <2>2. RowAmounts[o] = 0
    <3>1. ledger[Account][o].type = "none"
      BY <1>2 DEF Bank!TopUp, Bank!Fresh
    <3>2. ledger[Account][o] = Bank!NoRow
      BY <2>1, <3>1 DEF RowsJustified
    <3> QED
      BY <2>1, <3>2 DEF RowAmounts, Bank!NoRow
  <2>3. /\ RowAmounts'[o] = price[o]
        /\ \A x \in Orders \ {o} : RowAmounts'[x] = RowAmounts[x]
    BY <2>1 DEF RowAmounts, TypeOK, Bank!TypeOK
  <2>4. RowAmounts \in [Orders -> Int] /\ RowAmounts' \in [Orders -> Int]
    <3>1. RowAmounts \in [Orders -> Int]
      BY ColumnTypes
    <3>2. \A x \in Orders : RowAmounts'[x] \in Int
      BY <2>1, <2>3, <3>1
    <3>3. RowAmounts' = [x \in Orders |-> RowAmounts'[x]]
      BY DEF RowAmounts
    <3> QED
      BY <3>1, <3>2, <3>3
  <2>5. /\ MaxAmount \in Nat
        /\ RowAmounts[o] \in 0 .. MaxAmount
        /\ RowAmounts'[o] \in 0 .. MaxAmount
    BY <2>1, <2>2, <2>3, MaxPriceAssumption
  <2>6. Total(RowAmounts', MaxAmount)
          = Total(RowAmounts, MaxAmount) - RowAmounts[o] + RowAmounts'[o]
    BY <2>1, <2>3, <2>4, <2>5, OrdersAssumption, TotalUpdate
  <2>7. balance'[Account] = balance[Account] + price[o]
    BY <2>1 DEF TypeOK, Bank!TypeOK
  <2>8. Total(RowAmounts, MaxAmount) \in Int
    BY <2>4, <2>5, OrdersAssumption, TotalIsNat
  <2> QED
    BY <2>1, <2>2, <2>3, <2>6, <2>7, <2>8 DEF BalanceIsRows
<1> QED
  BY <1>1, <1>2, WalletStep

\* The wallet never holds more than what was collected in full, or granted by
\* an administrator, for its orders.
THEOREM NothingFromNothing == Spec => []NoMoneyFromNothing
<1>1. Init => BalanceIsRows
  <2> SUFFICES ASSUME Init PROVE BalanceIsRows
    OBVIOUS
  <2>1. RowAmounts = [o \in Orders |-> 0]
    BY DEF Init, RowAmounts, Bank!Init, Bank!NoRow
  <2>2. Total(RowAmounts, MaxAmount) = 0
    BY <2>1, MaxPriceAssumption, TotalOfZeros
  <2> QED
    BY <2>2 DEF Init, Bank!Init, BalanceIsRows
<1>2. Delivery /\ BalanceIsRows /\ [Next]_vars => BalanceIsRows'
  BY DeliveryStep, BalanceStep DEF Delivery
<1>3. Delivery /\ BalanceIsRows => NoMoneyFromNothing
  <2> SUFFICES ASSUME Delivery, BalanceIsRows PROVE NoMoneyFromNothing
    OBVIOUS
  <2> DEFINE due == [o \in Orders |-> Due(o)]
  <2>1. /\ RowAmounts \in [Orders -> Int]
        /\ due \in [Orders -> Int]
        /\ \A o \in Orders : RowAmounts[o] <= due[o]
    BY ColumnTypes DEF Delivery
  <2> HIDE DEF due
  <2>2. Total(RowAmounts, MaxAmount) <= Total(due, MaxAmount)
    BY <2>1, OrdersAssumption, MaxPriceAssumption, TotalMonotone
  <2> QED
    BY <2>2 DEF BalanceIsRows, NoMoneyFromNothing, due
<1> QED
  BY InitDelivery, DeliveryStep, <1>1, <1>2, <1>3, PTL DEF Spec

-----------------------------------------------------------------------------
(* The usage books and their reconciliation. *)

TypeNames ==
  {"missing_charge_lines", "missing_evidence", "usage_mismatch", "error_mislabel", "l2",
   "billing_without_usage", "usage_without_billing", "billing_amount_mismatch",
   "undercharge_review"}
Items    == Calls \cup Bills
Findings == TypeNames \X Items
Counts   == {Cardinality(S) : S \in SUBSET Findings} \cup {0}

CallStates ==
  [pc : {"none", "served", "log", "lines", "evidence", "done", "broken"},
   served : Nat, stamp : Nat]
Cycles ==
  [pc : {"idle", "count", "query", "complete", "write"}, id : Nat, at : 0..10,
   found : SUBSET Findings, balanced : BOOLEAN]
RunRows ==
  [start : Nat, end : Nat, status : {"running", "completed", "failed"}, count : Counts,
   balanced : BOOLEAN]
Pasts ==
  [whole : SUBSET Calls, broken : SUBSET Calls, logs : SUBSET Calls, clean : BOOLEAN,
   bills : SUBSET Bills]

BooksTyped ==
  /\ setting \in Settings /\ now \in Nat /\ faults \in Nat
  /\ call \in [Calls -> CallStates]
  /\ logs \subseteq Calls /\ lined \subseteq Calls /\ evidenced \subseteq Calls
  /\ bills \in [Bills -> Nat]
  /\ run \in [Workers -> Cycles]
  /\ runs \in Seq(RunRows) /\ seen \in Seq(Pasts) /\ Len(seen) = Len(runs)

\* A log is written before its lines, and the lines before the evidence.
CallsOK ==
  \A c \in Calls :
    /\ c \in logs => call[c].pc \in {"lines", "evidence", "done", "broken"}
    /\ call[c].pc \in {"evidence", "done"} /\ Kind(c).lines => c \in lined
    /\ call[c].pc = "done" => c \in evidenced

\* A cycle is one of the runs, and no two are the same.
CyclesOK ==
  \A w \in Workers :
    /\ run[w].pc = "idle" => run[w] = Idle
    /\ run[w].pc # "idle" => run[w].id \in 1..Len(runs)
    /\ run[w].pc = "count" => run[w].found = {} /\ ~run[w].balanced
    /\ run[w].pc = "query" => run[w].at \in 1..9
    /\ \A v \in Workers : run[v].id = run[w].id /\ run[w].id # 0 => v = w

\* What a run saw when it began is still there.
PastsOK ==
  \A i \in 1..Len(runs) :
    /\ seen[i].logs \subseteq logs
    /\ \A b \in seen[i].bills : bills[b] # 0
    /\ \A c \in seen[i].whole : call[c].pc = "done"

\* The query of this type is behind the worker.
Behind(w, type) ==
  \/ run[w].pc = "query" /\ \E n \in 1..9 : n < run[w].at /\ Types[n] = type
  \/ run[w].pc \in {"complete", "write"}

Written(i, d) == <<i, d[1], d[2]>> \in diffs

NoHalves(i) == \A d \in Owed(i) : d[1] \notin {"missing_charge_lines", "missing_evidence"}

\* What a run owes and has asked for, it has found or written.
ReportOK(i) ==
  seen[i].clean =>
    /\ \A w \in Workers : run[w].id = i =>
         /\ \A d \in Owed(i) : Behind(w, d[1]) => d \in run[w].found \/ Written(i, d)
         /\ run[w].balanced => NoHalves(i)
    /\ (\A w \in Workers : run[w].id # i) =>
         runs[i].status = "failed" \/ \A d \in Owed(i) : Written(i, d)
    /\ runs[i].balanced => NoHalves(i)

ReportsOK == \A i \in 1..Len(runs) : ReportOK(i)

\* AlarmsAreWarranted, of one difference.
Warranted(i, type, accused) ==
  LET was == seen[i]
  IN  /\ type = "missing_charge_lines" /\ accused \in was.whole => ~Kind(accused).lines
      /\ type = "missing_evidence" => accused \notin was.whole
      /\ type = "usage_without_billing" =>
           Kind(accused).cost > 0 /\ \A b \in was.bills : setting.of[b] # accused
      /\ type = "billing_without_usage" =>
           \A c \in was.logs : Matches(accused, c) => ~Within(call[c].stamp, i)
      /\ type = "billing_amount_mismatch" =>
           \E b \in Bills : setting.of[b] = accused /\ setting.amount[b] # Kind(accused).cost
      /\ type = "undercharge_review" => Kind(accused).undercharged
      /\ type \notin {"usage_mismatch", "error_mislabel"}

AlarmsOK ==
  /\ \A w \in Workers : \A i \in 1..Len(runs) :
       run[w].id = i => \A d \in run[w].found : Warranted(i, d[1], d[2])
  /\ \A d \in diffs : d[1] \in 1..Len(runs) /\ Warranted(d[1], d[2], d[3])

BooksInv == BooksTyped /\ CallsOK /\ CyclesOK /\ PastsOK /\ ReportsOK /\ AlarmsOK

\* From now on the books only grow, and the runs keep what they are about.
BooksGrow ==
  /\ setting' = setting
  /\ logs \subseteq logs' /\ lined \subseteq lined' /\ evidenced \subseteq evidenced'
  /\ \A b \in Bills : bills[b] # 0 => bills'[b] = bills[b]
  /\ \A c \in logs : call'[c].stamp = call[c].stamp
  /\ \A c \in Calls : call[c].pc = "done" => call'[c].pc = "done"

RunsStand ==
  /\ Len(runs) <= Len(runs')
  /\ \A i \in 1..Len(runs) :
       /\ runs'[i].start = runs[i].start /\ runs'[i].end = runs[i].end
       /\ seen'[i].whole = seen[i].whole /\ seen'[i].broken = seen[i].broken
       /\ seen'[i].logs = seen[i].logs /\ seen'[i].bills = seen[i].bills
       /\ seen'[i].clean => seen[i].clean

\* What a run began with, typed.
LEMMA PastTyped ==
  ASSUME BooksTyped, NEW i \in 1..Len(runs)
  PROVE  /\ runs[i] \in RunRows /\ seen[i] \in Pasts
         /\ i \in DOMAIN runs /\ i \in DOMAIN seen
  BY DEF BooksTyped

\* What a run owes it still can find: nothing is added to it.
LEMMA OwedShrinks ==
  ASSUME BooksTyped, PastsOK, BooksGrow, RunsStand, NEW i \in 1..Len(runs)
  PROVE  Owed(i)' \subseteq Owed(i)
<1>1. seen[i] \in Pasts
  BY PastTyped
<1>2. seen[i].logs \subseteq logs /\ seen[i].logs \subseteq Calls
  BY <1>1 DEF PastsOK, Pasts
<1>3. \A b \in seen[i].bills : bills[b] # 0 /\ b \in Bills
  BY <1>1 DEF PastsOK, Pasts
<1>4. \A c \in seen[i].logs : Within(call[c].stamp, i)' <=> Within(call[c].stamp, i)
  BY <1>2 DEF Within, RunsStand, BooksGrow
<1>5. \A b \in seen[i].bills : Within(bills[b], i)' <=> Within(bills[b], i)
  BY <1>3 DEF Within, RunsStand, BooksGrow
<1>6. /\ seen'[i].logs = seen[i].logs /\ seen'[i].bills = seen[i].bills
      /\ seen'[i].broken = seen[i].broken
  BY DEF RunsStand
<1>7. setting' = setting /\ logs \subseteq logs' /\ lined \subseteq lined'
      /\ evidenced \subseteq evidenced'
  BY DEF BooksGrow
<1>8. \A b \in Bills : bills'[b] = 0 => bills[b] = 0
  BY DEF BooksGrow
<1> QED
  BY <1>2, <1>3, <1>4, <1>5, <1>6, <1>7, <1>8 DEF Owed, Kind, Matches

\* A warranted difference stays warranted.
LEMMA WarrantedStays ==
  ASSUME BooksTyped, PastsOK, BooksGrow, RunsStand, NEW i \in 1..Len(runs),
         NEW type, NEW accused, Warranted(i, type, accused)
  PROVE  Warranted(i, type, accused)'
<1>1. seen[i].logs \subseteq logs
  BY DEF PastsOK
<1>2. \A c \in seen[i].logs : Within(call[c].stamp, i)' <=> Within(call[c].stamp, i)
  BY <1>1 DEF Within, RunsStand, BooksGrow
<1>3. /\ seen'[i].logs = seen[i].logs /\ seen'[i].bills = seen[i].bills
      /\ seen'[i].whole = seen[i].whole
  BY DEF RunsStand
<1>4. setting' = setting
  BY DEF BooksGrow
<1> QED
  BY <1>2, <1>3, <1>4 DEF Warranted, Kind, Matches

\* What a run owes its queries can find.
LEMMA OwedIsFound ==
  ASSUME BooksTyped, PastsOK, NEW i \in 1..Len(runs), NEW d \in Owed(i)
  PROVE  d[2] \in Find(d[1], i) /\ d[1] \in TypeNames /\ d = <<d[1], d[2]>>
<1>1. seen[i] \in Pasts
  BY PastTyped
<1>2. seen[i].logs \subseteq logs /\ seen[i].logs \subseteq Calls
  BY <1>1 DEF PastsOK, Pasts
<1>3. \A b \in seen[i].bills : bills[b] # 0 /\ b \in Bills
  BY <1>1 DEF PastsOK, Pasts
<1>4. d[1] \in TypeNames /\ d = <<d[1], d[2]>>
  BY DEF Owed, TypeNames
<1>5. CASE d[1] = "missing_charge_lines"
  BY <1>2, <1>4, <1>5 DEF Owed, Find, Orphaned, Completed, Logged
<1>6. CASE d[1] = "missing_evidence"
  BY <1>2, <1>4, <1>6 DEF Owed, Find, MissingEvidence, Completed, Logged
<1>7. CASE d[1] = "undercharge_review"
  BY <1>2, <1>4, <1>7 DEF Owed, Find, Undercharged, Logged
<1>8. CASE d[1] = "billing_without_usage"
  BY <1>3, <1>4, <1>8 DEF Owed, Find, BillingWithoutUsage, Billed, Logged
<1>9. CASE d[1] = "usage_without_billing"
  BY <1>2, <1>4, <1>9 DEF Owed, Find, UsageWithoutBilling, Logged
<1>10. CASE d[1] = "billing_amount_mismatch"
  BY <1>2, <1>3, <1>4, <1>10 DEF Owed, Find, AmountMismatch, Billed, Logged
<1> QED
  BY <1>4, <1>5, <1>6, <1>7, <1>8, <1>9, <1>10 DEF Owed

\* What a query finds is warranted.
LEMMA FoundIsWarranted ==
  ASSUME BooksTyped, CallsOK, PastsOK, NEW i \in 1..Len(runs), NEW type \in TypeNames,
         NEW x \in Find(type, i)
  PROVE  Warranted(i, type, x) /\ x \in Items
<1>1. seen[i] \in Pasts
  BY PastTyped
<1>2. seen[i].logs \subseteq logs /\ seen[i].logs \subseteq Calls /\ seen[i].whole \subseteq Calls
  BY <1>1 DEF PastsOK, Pasts
<1>3. \A b \in seen[i].bills : bills[b] # 0 /\ b \in Bills
  BY <1>1 DEF PastsOK, Pasts
<1>4. \A c \in seen[i].whole : c \in evidenced /\ (Kind(c).lines => c \in lined)
  BY <1>2 DEF PastsOK, CallsOK
<1>5. logs \subseteq Calls
  BY DEF BooksTyped
<1>6. CASE type = "missing_charge_lines"
  BY <1>4, <1>5, <1>6 DEF Warranted, Find, Orphaned, Completed, Logged, Items
<1>7. CASE type = "missing_evidence"
  BY <1>4, <1>5, <1>7 DEF Warranted, Find, MissingEvidence, Completed, Logged, Items
<1>8. CASE type = "usage_mismatch"
  BY <1>8 DEF Find, UsageMismatch
<1>9. CASE type = "error_mislabel"
  BY <1>9 DEF Find, ErrorMislabel, Completed, StatusCode
<1>10. CASE type = "l2"
  BY <1>10 DEF Find
<1>11. CASE type = "billing_without_usage"
  BY <1>2, <1>11 DEF Warranted, Find, BillingWithoutUsage, Billed, Logged, Items
<1>12. CASE type = "usage_without_billing"
  BY <1>3, <1>5, <1>12 DEF Warranted, Find, UsageWithoutBilling, Logged, Items
<1>13. CASE type = "billing_amount_mismatch"
  BY <1>5, <1>13 DEF Warranted, Find, AmountMismatch, Billed, Matches, Logged, Items
<1>14. CASE type = "undercharge_review"
  BY <1>5, <1>14 DEF Warranted, Find, Undercharged, Logged, Items
<1> QED
  BY <1>6, <1>7, <1>8, <1>9, <1>10, <1>11, <1>12, <1>13, <1>14 DEF TypeNames

\* When the verdict is balanced, no completed call owes rows of its own.
LEMMA BalancedOwesNoHalves ==
  ASSUME BooksTyped, PastsOK, NEW i \in 1..Len(runs), Balanced(i)
  PROVE  NoHalves(i)
<1>1. SUFFICES ASSUME NEW d \in Owed(i),
                      d[1] \in {"missing_charge_lines", "missing_evidence"}
               PROVE  FALSE
  BY DEF NoHalves
<1>2. d[2] \in Find(d[1], i)
  BY OwedIsFound
<1>3. CASE d[1] = "missing_charge_lines"
  BY <1>2, <1>3 DEF Find, Orphaned, Balanced
<1>4. CASE d[1] = "missing_evidence"
  BY <1>2, <1>4 DEF Find, MissingEvidence, Balanced
<1> QED
  BY <1>1, <1>3, <1>4

\* Whoever does not work on a run leaves its report as good as it was.
LEMMA ReportStands ==
  ASSUME BooksTyped, PastsOK, BooksGrow, RunsStand, diffs \subseteq diffs',
         NEW i \in 1..Len(runs), ReportOK(i),
         \A w \in Workers : run[w].id = i \/ run'[w].id = i => run'[w] = run[w],
         runs'[i].status = runs[i].status, runs'[i].balanced = runs[i].balanced
  PROVE  ReportOK(i)'
<1>1. Owed(i)' \subseteq Owed(i)
  BY OwedShrinks
<1>2. NoHalves(i) => NoHalves(i)'
  BY <1>1 DEF NoHalves
<1>3. \A d : Written(i, d) => Written(i, d)'
  BY DEF Written
<1>4. seen'[i].clean => seen[i].clean
  BY DEF RunsStand
<1>5. \A w \in Workers : run'[w].id = i => run'[w] = run[w]
  OBVIOUS
<1>6. \A w \in Workers : \A type : run'[w].id = i => (Behind(w, type)' <=> Behind(w, type))
  BY <1>5 DEF Behind
<1>7. ASSUME seen[i].clean, NEW w \in Workers, run'[w].id = i
      PROVE  /\ \A d \in Owed(i)' : Behind(w, d[1])' => d \in run'[w].found \/ Written(i, d)'
             /\ run'[w].balanced => NoHalves(i)'
  <2>1. run'[w] = run[w] /\ run[w].id = i
    BY <1>5, <1>7
  <2>2. \A d \in Owed(i) : Behind(w, d[1]) => d \in run[w].found \/ Written(i, d)
    BY <1>7, <2>1 DEF ReportOK
  <2>3. \A d \in Owed(i)' : Behind(w, d[1])' => Behind(w, d[1])
    BY <1>6, <1>7
  <2>4. run[w].balanced => NoHalves(i)
    BY <1>7, <2>1 DEF ReportOK
  <2> QED
    BY <1>1, <1>2, <1>3, <2>1, <2>2, <2>3, <2>4
<1>8. ASSUME seen[i].clean, \A w \in Workers : run'[w].id # i
      PROVE  runs'[i].status = "failed" \/ \A d \in Owed(i)' : Written(i, d)'
  <2>1. \A w \in Workers : run[w].id # i
    BY <1>8
  <2> QED
    BY <1>1, <1>3, <1>8, <2>1 DEF ReportOK
<1>9. seen[i].clean /\ runs'[i].balanced => NoHalves(i)'
  BY <1>2 DEF ReportOK
<1> QED
  BY <1>4, <1>7, <1>8, <1>9 DEF ReportOK

\* No step finds or writes a difference that is not warranted.
LEMMA AlarmsStand ==
  ASSUME BooksTyped, PastsOK, BooksGrow, RunsStand, CyclesOK, AlarmsOK,
         \A w \in Workers : \A d \in run'[w].found :
           /\ run'[w].id = run[w].id /\ run[w].id \in 1..Len(runs)
           /\ d \in run[w].found \/ Warranted(run[w].id, d[1], d[2]),
         \A d \in diffs' :
           d \in diffs \/ (d[1] \in 1..Len(runs) /\ Warranted(d[1], d[2], d[3])),
         Len(runs') \in Nat
  PROVE  AlarmsOK'
<1>1. \A w \in Workers : \A i : run'[w].id = i =>
        \A d \in run'[w].found : i \in 1..Len(runs) /\ Warranted(i, d[1], d[2])
  BY DEF AlarmsOK
<1>2. \A w \in Workers : \A i : run'[w].id = i =>
        \A d \in run'[w].found : Warranted(i, d[1], d[2])'
  <2>1. SUFFICES ASSUME NEW w \in Workers, NEW i, run'[w].id = i, NEW d \in run'[w].found
                 PROVE  Warranted(i, d[1], d[2])'
    OBVIOUS
  <2>2. i \in 1..Len(runs) /\ Warranted(i, d[1], d[2])
    BY <1>1, <2>1
  <2> QED
    BY <2>2, WarrantedStays
<1>3. \A d \in diffs' : d[1] \in 1..Len(runs) /\ Warranted(d[1], d[2], d[3])
  BY DEF AlarmsOK
<1>4. \A d \in diffs' : Warranted(d[1], d[2], d[3])'
  BY <1>3, WarrantedStays
<1>5. \A d \in diffs' : d[1] \in 1..Len(runs')
  BY <1>3 DEF RunsStand, BooksTyped
<1> QED
  BY <1>2, <1>4, <1>5 DEF AlarmsOK

-----------------------------------------------------------------------------

\* What the books themselves do leaves the runs alone.
CyclesUnchanged == UNCHANGED <<run, runs, diffs, seen>>

LEMMA BooksKeep ==
  ASSUME BooksInv, BooksGrow, CyclesUnchanged
  PROVE  CyclesOK' /\ PastsOK' /\ ReportsOK' /\ AlarmsOK'
<1>0. /\ BooksTyped /\ CyclesOK /\ PastsOK /\ ReportsOK /\ AlarmsOK
      /\ run' = run /\ runs' = runs /\ diffs' = diffs /\ seen' = seen /\ Len(runs) \in Nat
  BY DEF BooksInv, BooksTyped, CyclesUnchanged
<1>1. RunsStand
  BY <1>0 DEF RunsStand
<1>2. CyclesOK'
  BY <1>0 DEF CyclesOK
<1>3. PastsOK'
  <2>1. \A i \in 1..Len(runs) : seen[i] \in Pasts
    BY <1>0, PastTyped
  <2> QED
    BY <1>0, <2>1 DEF PastsOK, BooksGrow, Pasts
<1>4. ReportsOK'
  BY <1>0, <1>1, ReportStands DEF ReportsOK
<1>5. AlarmsOK'
  <2>1. \A w \in Workers : run[w].found # {} => run[w].id \in 1..Len(runs)
    BY <1>0 DEF CyclesOK, Idle
  <2> QED
    BY <1>0, <1>1, <2>1, AlarmsStand
<1> QED
  BY <1>2, <1>3, <1>4, <1>5

\* The books: each step types the row it writes and keeps the order of Record.
LEMMA RecordKeeps ==
  ASSUME BooksInv, NEW c \in Calls,
         \/ Serve(c) \/ Record(c) \/ CreateUsageLog(c) \/ CreateChargeLines(c)
         \/ CreateProviderEvidence(c) \/ BreakRecord(c)
  PROVE  BooksInv'
<1>0. BooksTyped /\ CallsOK /\ PastsOK /\ call[c] \in CallStates
  BY DEF BooksInv, BooksTyped
<1>1. /\ setting' = setting /\ now' = now /\ bills' = bills /\ CyclesUnchanged
      /\ DOMAIN call = Calls
  BY DEF Serve, Record, CreateUsageLog, CreateChargeLines, CreateProviderEvidence, BreakRecord,
         OthersUnchanged, CyclesUnchanged, BooksInv, BooksTyped
<1>2. \A x \in Calls : x # c => call'[x] = call[x]
  BY <1>0 DEF Serve, Record, CreateUsageLog, CreateChargeLines, CreateProviderEvidence,
         BreakRecord, BooksTyped
<1>3. /\ call' \in [Calls -> CallStates] /\ faults' \in Nat
      /\ logs' \subseteq Calls /\ lined' \subseteq Calls /\ evidenced' \subseteq Calls
  <2>1. logs' \subseteq Calls /\ lined' \subseteq Calls /\ evidenced' \subseteq Calls
    BY <1>0 DEF Serve, Record, CreateUsageLog, CreateChargeLines, CreateProviderEvidence,
           BreakRecord, BooksTyped, RowsUnchanged
  <2>2. faults' \in Nat
    BY <1>0 DEF Serve, Record, CreateUsageLog, CreateChargeLines, CreateProviderEvidence,
           BreakRecord, BooksTyped, Fault
  <2>3. \E next \in CallStates : call' = [call EXCEPT ![c] = next]
    <3>1. CASE Serve(c)
      <4>1. [call[c] EXCEPT !.pc = "served", !.served = now] \in CallStates
        BY <1>0 DEF BooksTyped, CallStates
      <4> QED
        BY <1>0, <3>1, <4>1 DEF Serve, BooksTyped
    <3>2. CASE Record(c)
      <4>1. [call[c] EXCEPT !.pc = "log", !.stamp = now] \in CallStates
        BY <1>0 DEF BooksTyped, CallStates
      <4> QED
        BY <1>0, <3>2, <4>1 DEF Record, BooksTyped
    <3>3. \A pc \in {"lines", "evidence", "done", "broken"} :
            [call[c] EXCEPT !.pc = pc] \in CallStates
      BY <1>0 DEF CallStates
    <3>4. CASE \/ CreateUsageLog(c) \/ CreateChargeLines(c)
               \/ CreateProviderEvidence(c) \/ BreakRecord(c)
      BY <3>3, <3>4 DEF CreateUsageLog, CreateChargeLines, CreateProviderEvidence, BreakRecord
    <3> QED
      BY <3>1, <3>2, <3>4
  <2> QED
    BY <1>0, <2>1, <2>2, <2>3 DEF BooksTyped
<1>4. BooksTyped'
  BY <1>0, <1>1, <1>3 DEF BooksTyped, CyclesUnchanged
<1>5. /\ logs \subseteq logs' /\ lined \subseteq lined' /\ evidenced \subseteq evidenced'
      /\ \A x \in logs' : x \in logs \/ x = c
      /\ \A x \in lined' : x \in lined \/ x = c
  BY DEF Serve, Record, CreateUsageLog, CreateChargeLines, CreateProviderEvidence,
         BreakRecord, RowsUnchanged, OthersUnchanged
<1>6. /\ c \in logs => call'[c].stamp = call[c].stamp
      /\ call[c].pc # "done"
  BY <1>0 DEF Serve, Record, CreateUsageLog, CreateChargeLines, CreateProviderEvidence,
         BreakRecord, CallsOK, BooksTyped, CallStates
<1>7. BooksGrow
  BY <1>0, <1>1, <1>2, <1>5, <1>6 DEF BooksGrow, BooksTyped
<1>8. /\ c \in logs' => call'[c].pc \in {"lines", "evidence", "done", "broken"}
      /\ call'[c].pc \in {"evidence", "done"} /\ Kind(c).lines => c \in lined'
      /\ call'[c].pc = "done" => c \in evidenced'
  BY <1>0 DEF Serve, Record, CreateUsageLog, CreateChargeLines, CreateProviderEvidence,
         BreakRecord, CallsOK, BooksTyped, CallStates, RowsUnchanged, OthersUnchanged
<1>9. CallsOK'
  BY <1>0, <1>1, <1>2, <1>5, <1>8 DEF CallsOK, Kind
<1> QED
  BY <1>1, <1>4, <1>7, <1>9, BooksKeep DEF BooksInv

LEMMA ArriveKeeps ==
  ASSUME BooksInv, NEW b \in Bills, Arrive(b)
  PROVE  BooksInv'
<1>0. BooksTyped /\ CallsOK
  BY DEF BooksInv
<1>1. /\ UNCHANGED <<setting, now, call, logs, lined, evidenced, faults>> /\ CyclesUnchanged
      /\ setting.of[b] # NoCall => call[setting.of[b]].pc # "none"
  BY DEF Arrive, RowsUnchanged, CyclesUnchanged
<1>2. setting.of[b] \in Calls \cup {NoCall}
  BY <1>0, BooksAssumption DEF BooksTyped
<1>3. bills' \in [Bills -> Nat] /\ \A x \in Bills : bills[x] # 0 => bills'[x] = bills[x]
  BY <1>0, <1>2 DEF Arrive, BooksTyped, CallStates
<1>4. BooksTyped' /\ CallsOK' /\ BooksGrow
  BY <1>0, <1>1, <1>3 DEF BooksTyped, CallsOK, BooksGrow, CyclesUnchanged, Kind
<1> QED
  BY <1>1, <1>4, BooksKeep DEF BooksInv

LEMMA ClockKeeps ==
  ASSUME BooksInv, LeaseExpires \/ Tick \/ UNCHANGED bookVars
  PROVE  BooksInv'
<1>0. BooksTyped /\ CallsOK
  BY DEF BooksInv
<1>1. /\ UNCHANGED <<setting, call, bills, logs, lined, evidenced, faults>> /\ CyclesUnchanged
      /\ now' \in Nat
  BY <1>0 DEF LeaseExpires, Tick, bookVars, RowsUnchanged, BooksUnchanged, CyclesUnchanged,
                 BooksTyped
<1>2. BooksTyped' /\ CallsOK' /\ BooksGrow
  BY <1>0, <1>1 DEF BooksTyped, CallsOK, BooksGrow, CyclesUnchanged, Kind
<1> QED
  BY <1>1, <1>2, BooksKeep DEF BooksInv

-----------------------------------------------------------------------------

\* A failure is noted in the history of its run only.
LEMMA CleanNoted ==
  ASSUME BooksTyped, NEW i \in 1..Len(runs), NEW still \in BOOLEAN, Clean(i, still)
  PROVE  /\ seen' \in Seq(Pasts) /\ Len(seen') = Len(seen)
         /\ \A j \in 1..Len(runs) :
              /\ seen'[j].whole = seen[j].whole /\ seen'[j].broken = seen[j].broken
              /\ seen'[j].logs = seen[j].logs /\ seen'[j].bills = seen[j].bills
              /\ j # i => seen'[j] = seen[j]
         /\ seen'[i].clean <=> seen[i].clean /\ still
<1> DEFINE past == [seen[i] EXCEPT !.clean = seen[i].clean /\ still]
<1>1. seen \in Seq(Pasts) /\ i \in 1..Len(seen) /\ seen[i] \in Pasts /\ Len(seen) = Len(runs)
  BY DEF BooksTyped
<1>2. past \in Pasts
  BY <1>1 DEF Pasts
<1>3. seen' = [seen EXCEPT ![i] = past]
  BY DEF Clean
<1>4. /\ past.whole = seen[i].whole /\ past.broken = seen[i].broken
      /\ past.logs = seen[i].logs /\ past.bills = seen[i].bills
  BY <1>1 DEF Pasts
<1>5. past.clean <=> seen[i].clean /\ still
  BY <1>1 DEF Pasts
<1> HIDE DEF past
<1>6. /\ seen' \in Seq(Pasts) /\ Len(seen') = Len(seen)
      /\ \A j \in 1..Len(seen) : seen'[j] = IF j = i THEN past ELSE seen[j]
  BY <1>1, <1>2, <1>3, ExceptSeq
<1> QED
  BY <1>1, <1>4, <1>5, <1>6

\* A run's row changes in its status, count and verdict only.
LEMMA RowNoted ==
  ASSUME BooksTyped, NEW i \in 1..Len(runs), NEW row \in RunRows,
         row.start = runs[i].start, row.end = runs[i].end,
         runs' = [runs EXCEPT ![i] = row]
  PROVE  /\ runs' \in Seq(RunRows) /\ Len(runs') = Len(runs) /\ runs'[i] = row
         /\ \A j \in 1..Len(runs) :
              /\ runs'[j].start = runs[j].start /\ runs'[j].end = runs[j].end
              /\ j # i => runs'[j] = runs[j]
<1>1. runs \in Seq(RunRows)
  BY DEF BooksTyped
<1>2. /\ runs' \in Seq(RunRows) /\ Len(runs') = Len(runs)
      /\ \A j \in 1..Len(runs) : runs'[j] = IF j = i THEN row ELSE runs[j]
  BY <1>1, ExceptSeq
<1> QED
  BY <1>2

\* A worker leaves the books alone.
LEMMA BooksStand ==
  ASSUME BooksInv, BooksUnchanged
  PROVE  CallsOK' /\ BooksGrow
BY DEF BooksInv, BooksUnchanged, RowsUnchanged, CallsOK, BooksGrow, Kind

\* The step of a worker in run i: what is left to show is the report of its own
\* run and that what it adds is warranted.
LEMMA CycleKeeps ==
  ASSUME BooksInv, BooksUnchanged, NEW w \in Workers, run[w].pc # "idle",
         NEW i, i = run[w].id, NEW next \in Cycles, run' = [run EXCEPT ![w] = next],
         next = Idle \/ (next.id = i /\ next.pc \in {"query", "complete", "write"}),
         next.pc = "query" => next.at \in 1..9,
         faults' \in Nat, runs' \in Seq(RunRows), seen' \in Seq(Pasts),
         Len(runs') = Len(runs), Len(seen') = Len(seen),
         RunsStand, \A j \in 1..Len(runs) : j # i => runs'[j] = runs[j],
         diffs \subseteq diffs',
         \A d \in next.found : d \in run[w].found \/ Warranted(i, d[1], d[2]),
         \A d \in diffs' : d \in diffs \/ (d[1] = i /\ Warranted(i, d[2], d[3])),
         Owed(i)' \subseteq Owed(i) => ReportOK(i)'
  PROVE  BooksInv'
<1>0. /\ BooksTyped /\ CyclesOK /\ PastsOK /\ ReportsOK /\ AlarmsOK /\ BooksGrow /\ CallsOK'
      /\ setting' = setting /\ now' = now /\ bills' = bills /\ logs' = logs /\ lined' = lined
      /\ evidenced' = evidenced /\ call' = call /\ Len(runs) \in Nat /\ run \in [Workers -> Cycles]
  BY BooksStand DEF BooksInv, BooksUnchanged, RowsUnchanged, BooksTyped
<1>1. i \in 1..Len(runs) /\ i # 0
  BY <1>0 DEF CyclesOK
<1>2. BooksTyped'
  BY <1>0 DEF BooksTyped
<1>3. run'[w] = next /\ \A v \in Workers : v # w => run'[v] = run[v]
  BY <1>0
<1>4. \A v \in Workers : run[v].id = i => v = w
  BY <1>0, <1>1 DEF CyclesOK
<1>5. CyclesOK'
  <2>1. next.pc = "idle" => next = Idle
    OBVIOUS
  <2>2. next.pc # "idle" => next.id = i /\ next.pc # "count"
    BY DEF Idle
  <2>3. ASSUME NEW u \in Workers, NEW v \in Workers, run'[v].id = run'[u].id, run'[u].id # 0
        PROVE  v = u
    <3>1. CASE u # w /\ v # w
      BY <1>0, <1>3, <2>3, <3>1 DEF CyclesOK
    <3>2. CASE u = w /\ v # w
      BY <1>3, <1>4, <2>3, <3>2 DEF Idle
    <3>3. CASE u # w /\ v = w
      BY <1>3, <1>4, <2>3, <3>3 DEF Idle
    <3> QED
      BY <3>1, <3>2, <3>3
  <2> QED
    BY <1>0, <1>1, <1>3, <2>1, <2>2, <2>3 DEF CyclesOK
<1>6. PastsOK'
  BY <1>0 DEF PastsOK, RunsStand
<1>7. ReportsOK'
  <2>1. ReportOK(i)'
    BY <1>0, <1>1, <1>3, OwedShrinks
  <2>2. ASSUME NEW j \in 1..Len(runs), j # i
        PROVE  ReportOK(j)'
    <3>1. \A v \in Workers : run[v].id = j \/ run'[v].id = j => run'[v] = run[v]
      BY <1>3, <2>2 DEF Idle
    <3>2. runs'[j].status = runs[j].status /\ runs'[j].balanced = runs[j].balanced
      BY <2>2
    <3>3. ReportOK(j)
      BY <1>0 DEF ReportsOK
    <3> QED
      BY <1>0, <1>3, <3>1, <3>2, <3>3, ReportStands
  <2> QED
    BY <2>1, <2>2 DEF ReportsOK
<1>8. AlarmsOK'
  <2>1. \A v \in Workers : \A d \in run'[v].found :
          /\ run'[v].id = run[v].id /\ run[v].id \in 1..Len(runs)
          /\ d \in run[v].found \/ Warranted(run[v].id, d[1], d[2])
    <3>1. ASSUME NEW v \in Workers, NEW d \in run'[v].found, v # w
          PROVE  run'[v].id = run[v].id /\ run[v].id \in 1..Len(runs) /\ d \in run[v].found
      BY <1>0, <1>3, <3>1 DEF CyclesOK, Idle
    <3>2. ASSUME NEW d \in next.found
          PROVE  next.id = i /\ (d \in run[w].found \/ Warranted(i, d[1], d[2]))
      BY DEF Idle
    <3> QED
      BY <1>1, <1>3, <3>1, <3>2
  <2>2. \A d \in diffs' : d \in diffs \/ (d[1] \in 1..Len(runs) /\ Warranted(d[1], d[2], d[3]))
    BY <1>1
  <2> QED
    BY <1>0, <1>3, <2>1, <2>2, AlarmsStand
<1> QED
  BY <1>0, <1>2, <1>5, <1>6, <1>7, <1>8 DEF BooksInv

\* What a worker may rely on in its own run.
LEMMA OwnRun ==
  ASSUME BooksInv, NEW w \in Workers, run[w].pc # "idle", NEW i, i = run[w].id
  PROVE  /\ i \in 1..Len(runs) /\ i # 0
         /\ \A v \in Workers : run[v].id = i => v = w
         /\ run[w] \in Cycles /\ runs[i] \in RunRows /\ seen[i] \in Pasts
         /\ run[w].found \subseteq Findings
         /\ seen[i].clean =>
              /\ \A d \in Owed(i) : Behind(w, d[1]) => d \in run[w].found \/ Written(i, d)
              /\ run[w].balanced => NoHalves(i)
              /\ runs[i].balanced => NoHalves(i)
<1>1. BooksTyped /\ CyclesOK /\ ReportsOK
  BY DEF BooksInv
<1>2. i \in 1..Len(runs) /\ i # 0
  BY <1>1 DEF CyclesOK, BooksTyped
<1>3. \A v \in Workers : run[v].id = i => v = w
  BY <1>1, <1>2 DEF CyclesOK
<1>4. run[w] \in Cycles /\ run[w].found \subseteq Findings
  BY <1>1 DEF BooksTyped, Cycles
<1> QED
  BY <1>1, <1>2, <1>3, <1>4, PastTyped DEF ReportsOK, ReportOK

\* The report of a run whose worker takes the step to next.
LEMMA OwnReport ==
  ASSUME NEW w \in Workers, NEW i, i # 0, run \in [Workers -> Cycles],
         \A v \in Workers : run[v].id = i => v = w,
         NEW next, run' = [run EXCEPT ![w] = next],
         Owed(i)' \subseteq Owed(i), diffs \subseteq diffs',
         seen'[i].clean =>
           /\ next.id = i => /\ \A d \in Owed(i) : Behind(w, d[1])' =>
                                   d \in next.found \/ Written(i, d)'
                             /\ next.balanced => NoHalves(i)
           /\ next.id # i => \/ runs'[i].status = "failed"
                             \/ \A d \in Owed(i) : Written(i, d)'
           /\ runs'[i].balanced => NoHalves(i)
  PROVE  ReportOK(i)'
<1>1. run'[w] = next /\ \A v \in Workers : v # w => run'[v] = run[v]
  OBVIOUS
<1>2. NoHalves(i) => NoHalves(i)'
  BY DEF NoHalves
<1>3. \A v \in Workers : run'[v].id = i => v = w
  BY <1>1
<1>4. (\A v \in Workers : run'[v].id # i) => next.id # i
  BY <1>1
<1>5. ASSUME seen'[i].clean, NEW v \in Workers, run'[v].id = i
      PROVE  /\ \A d \in Owed(i)' : Behind(v, d[1])' => d \in run'[v].found \/ Written(i, d)'
             /\ run'[v].balanced => NoHalves(i)'
  <2>1. v = w /\ next.id = i
    BY <1>1, <1>3, <1>5
  <2> QED
    BY <1>1, <1>2, <1>5, <2>1
<1> QED
  BY <1>2, <1>4, <1>5 DEF ReportOK

\* A cycle that goes to its queries, or on to the next one.
LEMMA CycleMoves ==
  ASSUME NEW c \in Cycles, NEW pc \in {"query", "complete", "write"}, NEW n \in 0..10
  PROVE  [c EXCEPT !.pc = pc, !.at = n] \in Cycles
BY DEF Cycles

LEMMA CountKeeps ==
  ASSUME BooksInv, NEW w \in Workers, CountLogs(w)
  PROVE  BooksInv'
<1>1. PICK own : own = run[w].id
  OBVIOUS
<1>2. run[w].pc = "count" /\ BooksUnchanged /\ UNCHANGED <<diffs, seen>>
  BY DEF CountLogs
<1>3. /\ own \in 1..Len(runs) /\ own # 0 /\ \A v \in Workers : run[v].id = own => v = w
      /\ run[w] \in Cycles /\ runs[own] \in RunRows /\ run[w].found = {} /\ ~run[w].balanced
      /\ seen[own].clean /\ runs[own].balanced => NoHalves(own)
  BY <1>1, <1>2, OwnRun DEF BooksInv, CyclesOK
<1>4. /\ runs \in Seq(RunRows) /\ seen \in Seq(Pasts) /\ run \in [Workers -> Cycles]
      /\ faults \in Nat /\ BooksTyped
  BY DEF BooksInv, BooksTyped
<1>5. CASE /\ run' = [run EXCEPT ![w].pc = "query", ![w].at = 1]
           /\ UNCHANGED <<runs, faults>>
  <2> DEFINE next == [run[w] EXCEPT !.pc = "query", !.at = 1]
  <2>0. run[w].balanced = FALSE
    BY <1>3 DEF Cycles
  <2>1. /\ next \in Cycles
        /\ next.id = own /\ next.pc = "query" /\ next.at = 1 /\ next.found = {}
        /\ next.balanced = FALSE
    <3>1. next \in Cycles
      <4>1. 1 \in 0..10
        OBVIOUS
      <4> QED
        BY <1>3, <4>1, CycleMoves
    <3>2. next.id = own /\ next.pc = "query" /\ next.at = 1 /\ next.found = {}
      BY <1>1, <1>3 DEF Cycles
    <3>3. next.balanced = FALSE
      BY <1>3, <2>0 DEF Cycles
    <3> QED
      BY <3>1, <3>2, <3>3
  <2>2. run' = [run EXCEPT ![w] = next]
    BY <1>5
  <2> HIDE DEF next
  <2>3. run'[w] = next
    BY <1>4, <2>2
  <2>4. \A type : ~Behind(w, type)'
    BY <2>1, <2>3 DEF Behind
  <2>5. Owed(own)' \subseteq Owed(own) => ReportOK(own)'
    BY <1>2, <1>3, <1>4, <1>5, <2>1, <2>2, <2>4, OwnReport
  <2>6. RunsStand /\ Len(runs') = Len(runs) /\ Len(seen') = Len(seen) /\ next.at \in 1..9
    BY <1>2, <1>4, <1>5, <2>1 DEF RunsStand
  <2> QED
    BY <1>1, <1>2, <1>4, <1>5, <2>1, <2>2, <2>5, <2>6, CycleKeeps
<1>6. CASE /\ Fault
           /\ run' = [run EXCEPT ![w] = Idle]
           /\ runs' = [runs EXCEPT ![run[w].id].status = "failed"]
  <2> DEFINE row == [runs[own] EXCEPT !.status = "failed"]
  <2>1. row \in RunRows /\ row.start = runs[own].start /\ row.end = runs[own].end
        /\ row.status = "failed" /\ row.balanced = runs[own].balanced
    BY <1>3 DEF RunRows
  <2>2. runs' = [runs EXCEPT ![own] = row]
    BY <1>1, <1>6
  <2> HIDE DEF row
  <2>3. /\ runs' \in Seq(RunRows) /\ Len(runs') = Len(runs) /\ runs'[own] = row
        /\ \A j \in 1..Len(runs) :
             /\ runs'[j].start = runs[j].start /\ runs'[j].end = runs[j].end
             /\ j # own => runs'[j] = runs[j]
    BY <1>3, <1>4, <2>1, <2>2, RowNoted
  <2>4. Idle \in Cycles /\ Idle.id = 0 /\ Idle.found = {} /\ Idle.pc = "idle"
    BY DEF Idle, Cycles
  <2>5. Owed(own)' \subseteq Owed(own) => ReportOK(own)'
    BY <1>2, <1>3, <1>4, <1>6, <2>1, <2>3, <2>4, OwnReport
  <2>6. faults' \in Nat
    BY <1>4, <1>6 DEF Fault
  <2>7. RunsStand
    BY <1>2, <1>4, <2>3 DEF RunsStand
  <2> QED
    BY <1>1, <1>2, <1>4, <1>6, <2>3, <2>4, <2>5, <2>6, <2>7, CycleKeeps
<1> QED
  BY <1>5, <1>6 DEF CountLogs

LEMMA TypesListed ==
  /\ \A n \in 1..9 : Types[n] \in TypeNames
  /\ \A type \in TypeNames : \E n \in 1..9 : Types[n] = type
<1>1. /\ Types[1] = "missing_charge_lines" /\ Types[2] = "missing_evidence"
      /\ Types[3] = "usage_mismatch" /\ Types[4] = "error_mislabel" /\ Types[5] = "l2"
      /\ Types[6] = "billing_without_usage" /\ Types[7] = "usage_without_billing"
      /\ Types[8] = "billing_amount_mismatch" /\ Types[9] = "undercharge_review"
  BY DEF Types
<1>2. \A n \in 1..9 : n \in {1, 2, 3, 4, 5, 6, 7, 8, 9}
  OBVIOUS
<1>3. {1, 2, 3, 4, 5, 6, 7, 8, 9} \subseteq 1..9
  OBVIOUS
<1>4. \A n \in 1..9 : Types[n] \in TypeNames
  BY <1>1, <1>2 DEF TypeNames
<1>5. ASSUME NEW type \in TypeNames
      PROVE  \E n \in 1..9 : Types[n] = type
  BY <1>1, <1>3 DEF TypeNames
<1> QED
  BY <1>4, <1>5

\* What a query does: rows it found, its verdict, and whether all went well.
Queried(w, i, type, rows, verdict, still) ==
  /\ run' = [run EXCEPT ![w] =
               [run[w] EXCEPT !.found = run[w].found \cup ({type} \X rows),
                              !.at = run[w].at + 1,
                              !.balanced = IF type = "l2" THEN verdict ELSE run[w].balanced,
                              !.pc = IF run[w].at = 9 THEN "complete" ELSE "query"]]
  /\ rows \subseteq Find(type, i) /\ verdict \in BOOLEAN /\ still \in BOOLEAN
  /\ Clean(i, still)
  /\ still => rows = Find(type, i) /\ (verdict <=> Balanced(i))

LEMMA QueryOutcome ==
  ASSUME NEW w \in Workers, Query(w), faults \in Nat, run \in [Workers -> Cycles],
         NEW i, i = run[w].id, NEW type, type = Types[run[w].at]
  PROVE  /\ \E rows, verdict, still : Queried(w, i, type, rows, verdict, still)
         /\ faults' \in Nat /\ run[w].pc = "query" /\ BooksUnchanged
         /\ UNCHANGED <<runs, diffs>>
<1>0. run[w].pc = "query" /\ BooksUnchanged /\ UNCHANGED <<runs, diffs>>
  BY DEF Query
<1>1. CASE /\ \E rows \in Limited(Find(type, i)) :
                /\ run' = [run EXCEPT ![w].found = @ \cup ({type} \X rows), ![w].at = @ + 1,
                             ![w].balanced = IF type = "l2" THEN Balanced(i) ELSE @,
                             ![w].pc = IF run[w].at = 9 THEN "complete" ELSE "query"]
                /\ Clean(i, rows = Find(type, i))
           /\ UNCHANGED faults
  <2>1. PICK rows \in Limited(Find(type, i)) :
          /\ run' = [run EXCEPT ![w].found = @ \cup ({type} \X rows), ![w].at = @ + 1,
                       ![w].balanced = IF type = "l2" THEN Balanced(i) ELSE @,
                       ![w].pc = IF run[w].at = 9 THEN "complete" ELSE "query"]
          /\ Clean(i, rows = Find(type, i))
    BY <1>1
  <2>2. rows \subseteq Find(type, i)
    BY DEF Limited
  <2>3. Balanced(i) \in BOOLEAN
    BY DEF Balanced
  <2>4. Queried(w, i, type, rows, Balanced(i), rows = Find(type, i))
    BY <2>1, <2>2, <2>3 DEF Queried
  <2> QED
    BY <1>0, <1>1, <2>4
<1>2. CASE /\ Fault
           /\ run' = [run EXCEPT ![w].found = @ \cup ({type} \X {}), ![w].at = @ + 1,
                        ![w].balanced = IF type = "l2" THEN TRUE ELSE @,
                        ![w].pc = IF run[w].at = 9 THEN "complete" ELSE "query"]
           /\ Clean(i, FALSE)
  <2>1. Queried(w, i, type, {}, TRUE, FALSE)
    BY <1>2 DEF Queried
  <2>2. faults' \in Nat
    BY <1>2 DEF Fault
  <2> QED
    BY <1>0, <2>1, <2>2
<1> QED
  BY <1>1, <1>2 DEF Query

LEMMA QueryKeeps ==
  ASSUME BooksInv, NEW w \in Workers, Query(w)
  PROVE  BooksInv'
<1>1. PICK i : i = run[w].id
  OBVIOUS
<1>2. PICK type : type = Types[run[w].at]
  OBVIOUS
<1>3. /\ runs \in Seq(RunRows) /\ seen \in Seq(Pasts) /\ run \in [Workers -> Cycles]
      /\ faults \in Nat /\ BooksTyped /\ PastsOK /\ CallsOK /\ Len(seen) = Len(runs)
  BY DEF BooksInv, BooksTyped
<1>4. /\ faults' \in Nat /\ run[w].pc = "query" /\ BooksUnchanged
      /\ UNCHANGED <<runs, diffs>>
  BY <1>1, <1>2, <1>3, QueryOutcome
<1>5. PICK rows, verdict, still : Queried(w, i, type, rows, verdict, still)
  BY <1>1, <1>2, <1>3, QueryOutcome
<1>6. /\ i \in 1..Len(runs) /\ i # 0 /\ \A v \in Workers : run[v].id = i => v = w
      /\ run[w] \in Cycles /\ run[w].found \subseteq Findings /\ seen[i] \in Pasts
      /\ seen[i].clean =>
           /\ \A d \in Owed(i) : Behind(w, d[1]) => d \in run[w].found \/ Written(i, d)
           /\ run[w].balanced => NoHalves(i)
           /\ runs[i].balanced => NoHalves(i)
  BY <1>1, <1>4, OwnRun
<1>7. run[w].at \in 1..9 /\ type \in TypeNames
  BY <1>2, <1>4, TypesListed DEF BooksInv, CyclesOK
<1> DEFINE more == {type} \X rows
           next == [run[w] EXCEPT !.found = run[w].found \cup ({type} \X rows),
                                  !.at = run[w].at + 1,
                                  !.balanced = IF type = "l2" THEN verdict ELSE run[w].balanced,
                                  !.pc = IF run[w].at = 9 THEN "complete" ELSE "query"]
<1>8. /\ run' = [run EXCEPT ![w] = next]
      /\ rows \subseteq Find(type, i) /\ verdict \in BOOLEAN /\ still \in BOOLEAN
      /\ Clean(i, still)
      /\ still => rows = Find(type, i) /\ (verdict <=> Balanced(i))
  BY <1>5 DEF Queried
<1>9. \A x \in rows : Warranted(i, type, x) /\ x \in Items
  BY <1>3, <1>6, <1>7, <1>8, FoundIsWarranted
<1>10. more \subseteq Findings
  BY <1>7, <1>9 DEF Findings
<1>11. /\ next \in Cycles /\ next.id = i
       /\ next.found = run[w].found \cup more
       /\ next.at = run[w].at + 1
       /\ next.balanced <=> IF type = "l2" THEN verdict ELSE run[w].balanced
       /\ next.pc = IF run[w].at = 9 THEN "complete" ELSE "query"
  <2>1. PICK n \in 0..10 : n = run[w].at + 1
    BY <1>7
  <2>2. PICK found \in SUBSET Findings : found = run[w].found \cup more
    BY <1>6, <1>10
  <2>3. (IF type = "l2" THEN verdict ELSE run[w].balanced) \in BOOLEAN
    BY <1>6, <1>8 DEF Cycles
  <2>4. PICK b \in BOOLEAN : b = (IF type = "l2" THEN verdict ELSE run[w].balanced)
    BY <2>3
  <2>5. PICK pc \in {"query", "complete"} : pc = IF run[w].at = 9 THEN "complete" ELSE "query"
    OBVIOUS
  <2>6. next = [run[w] EXCEPT !.found = found, !.at = n, !.balanced = b, !.pc = pc]
    BY <2>1, <2>2, <2>4, <2>5
  <2> HIDE DEF next
  <2>7. /\ next \in Cycles /\ next.id = run[w].id /\ next.found = found
        /\ next.at = n /\ next.balanced = b /\ next.pc = pc
    <3>1. run[w] \in Cycles /\ n \in 0..10 /\ found \in SUBSET Findings /\ b \in BOOLEAN
          /\ pc \in {"query", "complete"}
      BY <1>6, <2>1, <2>2, <2>4, <2>5
    <3>2. next \in Cycles
      BY <2>6, <3>1 DEF Cycles
    <3>3. next.id = run[w].id /\ next.found = found /\ next.at = n /\ next.pc = pc
      BY <2>6, <3>1 DEF Cycles
    <3>4. next.balanced = b
      BY <2>6, <3>1 DEF Cycles
    <3> QED
      BY <3>2, <3>3, <3>4
  <2> QED
    BY <1>1, <2>1, <2>2, <2>4, <2>5, <2>7
<1> HIDE DEF next
<1>12. run'[w] = next
  BY <1>3, <1>8
<1>13. /\ seen' \in Seq(Pasts) /\ Len(seen') = Len(seen)
       /\ \A j \in 1..Len(runs) :
            /\ seen'[j].whole = seen[j].whole /\ seen'[j].broken = seen[j].broken
            /\ seen'[j].logs = seen[j].logs /\ seen'[j].bills = seen[j].bills
            /\ j # i => seen'[j] = seen[j]
       /\ seen'[i].clean <=> seen[i].clean /\ still
  BY <1>3, <1>6, <1>8, CleanNoted
<1>14. RunsStand
  BY <1>3, <1>4, <1>6, <1>13, SMTT(40) DEF RunsStand
<1>15. ASSUME seen'[i].clean, NEW d \in Owed(i), Behind(w, d[1])'
       PROVE  d \in next.found \/ Written(i, d)'
  <2>1. d[2] \in Find(d[1], i) /\ d[1] \in TypeNames /\ d = <<d[1], d[2]>>
    BY <1>3, <1>6, OwedIsFound
  <2>2. PICK n \in 1..9 : Types[n] = d[1] /\ n <= run[w].at
    BY <1>7, <1>11, <1>12, <1>15, <2>1, TypesListed DEF Behind
  <2>3. CASE n = run[w].at
    BY <1>2, <1>8, <1>11, <1>13, <1>15, <2>1, <2>2, <2>3
  <2>4. CASE n < run[w].at
    <3>1. Behind(w, d[1])
      BY <1>4, <2>2, <2>4 DEF Behind
    <3>2. d \in run[w].found \/ Written(i, d)
      BY <1>6, <1>13, <1>15, <3>1
    <3> QED
      BY <1>4, <1>11, <3>2 DEF Written
  <2> QED
    BY <1>7, <2>2, <2>3, <2>4
<1>16. ASSUME seen'[i].clean, next.balanced
       PROVE  NoHalves(i)
  BY <1>3, <1>6, <1>8, <1>11, <1>13, <1>16, BalancedOwesNoHalves
<1>17. Owed(i)' \subseteq Owed(i) => ReportOK(i)'
  BY <1>3, <1>4, <1>6, <1>8, <1>11, <1>13, <1>15, <1>16, OwnReport
<1>18. \A d \in next.found : d \in run[w].found \/ Warranted(i, d[1], d[2])
  BY <1>9, <1>11
<1>19. next.pc \in {"query", "complete", "write"} /\ (next.pc = "query" => next.at \in 1..9)
  BY <1>7, <1>11
<1>20. Len(runs') = Len(runs) /\ \A j \in 1..Len(runs) : j # i => runs'[j] = runs[j]
  BY <1>4
<1> QED
  BY <1>1, <1>3, <1>4, <1>8, <1>11, <1>13, <1>14, <1>17, <1>18, <1>19, <1>20, CycleKeeps

LEMMA CompleteKeeps ==
  ASSUME BooksInv, NEW w \in Workers, CompleteRun(w)
  PROVE  BooksInv'
<1>1. PICK i : i = run[w].id
  OBVIOUS
<1>2. run[w].pc = "complete" /\ BooksUnchanged /\ UNCHANGED <<diffs, faults, seen>>
  BY DEF CompleteRun
<1>3. /\ runs \in Seq(RunRows) /\ seen \in Seq(Pasts) /\ run \in [Workers -> Cycles]
      /\ faults \in Nat /\ BooksTyped
  BY DEF BooksInv, BooksTyped
<1>4. /\ i \in 1..Len(runs) /\ i # 0 /\ \A v \in Workers : run[v].id = i => v = w
      /\ run[w] \in Cycles /\ runs[i] \in RunRows /\ run[w].found \in SUBSET Findings
      /\ seen[i].clean =>
           /\ \A d \in Owed(i) : Behind(w, d[1]) => d \in run[w].found \/ Written(i, d)
           /\ run[w].balanced => NoHalves(i)
  BY <1>1, <1>2, OwnRun
<1> DEFINE next == [run[w] EXCEPT !.pc = "write"]
           n == Cardinality(run[w].found)
           row == [runs[i] EXCEPT !.status = "completed", !.count = n,
                                  !.balanced = run[w].balanced]
<1>5. run' = [run EXCEPT ![w] = next] /\ runs' = [runs EXCEPT ![i] = row]
  BY <1>1 DEF CompleteRun
<1>6. /\ next \in Cycles /\ next.id = i /\ next.pc = "write" /\ next.found = run[w].found
      /\ next.balanced = run[w].balanced
  BY <1>1, <1>4 DEF Cycles
<1>7. n \in Counts
  BY <1>4 DEF Counts
<1> HIDE DEF n
<1>8. /\ row \in RunRows /\ row.start = runs[i].start /\ row.end = runs[i].end
      /\ row.balanced = run[w].balanced
  <2>1. run[w].balanced \in BOOLEAN
    BY <1>4 DEF Cycles
  <2> QED
    BY <1>4, <1>7, <2>1 DEF RunRows
<1> HIDE DEF next, row
<1>9. /\ runs' \in Seq(RunRows) /\ Len(runs') = Len(runs) /\ runs'[i] = row
      /\ \A j \in 1..Len(runs) :
           /\ runs'[j].start = runs[j].start /\ runs'[j].end = runs[j].end
           /\ j # i => runs'[j] = runs[j]
  BY <1>3, <1>4, <1>5, <1>8, RowNoted
<1>10. RunsStand
  BY <1>2, <1>3, <1>9 DEF RunsStand
<1>11. \A type : Behind(w, type)
  BY <1>2 DEF Behind
<1>12. \A d : Written(i, d) => Written(i, d)'
  BY <1>2 DEF Written
<1>13. Owed(i)' \subseteq Owed(i) => ReportOK(i)'
  <2>1. seen'[i].clean =>
          /\ \A d \in Owed(i) : d \in next.found \/ Written(i, d)'
          /\ next.balanced => NoHalves(i)
          /\ runs'[i].balanced => NoHalves(i)
    BY <1>2, <1>4, <1>6, <1>8, <1>9, <1>11, <1>12
  <2> QED
    BY <1>2, <1>3, <1>4, <1>5, <1>6, <2>1, OwnReport
<1> QED
  BY <1>1, <1>2, <1>3, <1>5, <1>6, <1>9, <1>10, <1>13, CycleKeeps

LEMMA WriteKeeps ==
  ASSUME BooksInv, NEW w \in Workers, CreateDiff(w)
  PROVE  BooksInv'
<1>1. PICK i : i = run[w].id
  OBVIOUS
<1>2. run[w].pc = "write" /\ BooksUnchanged /\ UNCHANGED runs
  BY DEF CreateDiff
<1>3. /\ runs \in Seq(RunRows) /\ seen \in Seq(Pasts) /\ run \in [Workers -> Cycles]
      /\ faults \in Nat /\ BooksTyped /\ AlarmsOK
  BY DEF BooksInv, BooksTyped
<1>4. /\ i \in 1..Len(runs) /\ i # 0 /\ \A v \in Workers : run[v].id = i => v = w
      /\ run[w] \in Cycles /\ run[w].found \in SUBSET Findings
      /\ seen[i].clean =>
           /\ \A d \in Owed(i) : Behind(w, d[1]) => d \in run[w].found \/ Written(i, d)
           /\ run[w].balanced => NoHalves(i)
           /\ runs[i].balanced => NoHalves(i)
  BY <1>1, <1>2, OwnRun
<1>5. PICK d \in run[w].found :
        /\ run' = [run EXCEPT ![w].found = @ \ {d}]
        /\ \/ diffs' = diffs \cup {<<run[w].id, d[1], d[2]>>} /\ UNCHANGED <<faults, seen>>
           \/ Fault /\ Clean(run[w].id, FALSE) /\ UNCHANGED diffs
  BY DEF CreateDiff
<1> DEFINE next == [run[w] EXCEPT !.found = run[w].found \ {d}]
<1>6. run' = [run EXCEPT ![w] = next]
  BY <1>5
<1>7. /\ next \in Cycles /\ next.id = i /\ next.pc = "write"
      /\ next.found = run[w].found \ {d} /\ next.balanced = run[w].balanced
  <2>1. run[w].found \ {d} \in SUBSET Findings
    BY <1>4
  <2> QED
    BY <1>1, <1>2, <1>4, <2>1 DEF Cycles
<1> HIDE DEF next
<1>8. \A type : Behind(w, type)
  BY <1>2 DEF Behind
<1>9. \A e : e \in diffs => e \in diffs'
  BY <1>5
<1>10. \A e : Written(i, e) => Written(i, e)'
  BY <1>9 DEF Written
<1>11. Warranted(i, d[1], d[2])
  BY <1>1, <1>3, <1>4 DEF AlarmsOK
<1>12. \A e \in diffs' : e \in diffs \/ (e[1] = i /\ Warranted(i, e[2], e[3]))
  <2>1. SUFFICES ASSUME NEW e \in diffs', e \notin diffs
                 PROVE  e[1] = i /\ Warranted(i, e[2], e[3])
    OBVIOUS
  <2>2. e = <<i, d[1], d[2]>>
    BY <1>1, <1>5, <2>1
  <2>3. e[1] = i /\ e[2] = d[1] /\ e[3] = d[2]
    BY <2>2
  <2> QED
    BY <1>11, <2>3
<1>13. CASE diffs' = diffs \cup {<<run[w].id, d[1], d[2]>>} /\ UNCHANGED <<faults, seen>>
  <2>1. RunsStand
    BY <1>2, <1>3, <1>13 DEF RunsStand
  <2>2. Written(i, d)'
    BY <1>1, <1>13 DEF Written
  <2>3. Owed(i)' \subseteq Owed(i) => ReportOK(i)'
    BY <1>2, <1>3, <1>4, <1>6, <1>7, <1>8, <1>9, <1>10, <1>13, <2>2, OwnReport
  <2> QED
    BY <1>1, <1>2, <1>3, <1>6, <1>7, <1>9, <1>12, <1>13, <2>1, <2>3, CycleKeeps
<1>14. CASE Fault /\ Clean(run[w].id, FALSE) /\ UNCHANGED diffs
  <2>1. /\ seen' \in Seq(Pasts) /\ Len(seen') = Len(seen)
        /\ \A j \in 1..Len(runs) :
             /\ seen'[j].whole = seen[j].whole /\ seen'[j].broken = seen[j].broken
             /\ seen'[j].logs = seen[j].logs /\ seen'[j].bills = seen[j].bills
             /\ j # i => seen'[j] = seen[j]
        /\ seen'[i].clean <=> seen[i].clean /\ FALSE
    BY <1>1, <1>3, <1>4, <1>14, CleanNoted
  <2>2. RunsStand
    BY <1>2, <1>3, <2>1 DEF RunsStand
  <2>3. Owed(i)' \subseteq Owed(i) => ReportOK(i)'
    BY <2>1 DEF ReportOK
  <2>4. faults' \in Nat
    BY <1>3, <1>14 DEF Fault
  <2> QED
    BY <1>1, <1>2, <1>3, <1>6, <1>7, <1>9, <1>12, <1>14, <2>1, <2>2, <2>3, <2>4, CycleKeeps
<1> QED
  BY <1>5, <1>13, <1>14

LEMMA EndKeeps ==
  ASSUME BooksInv, NEW w \in Workers, EndRun(w)
  PROVE  BooksInv'
<1>1. PICK i : i = run[w].id
  OBVIOUS
<1>2. /\ run[w].pc = "write" /\ run[w].found = {} /\ BooksUnchanged
      /\ UNCHANGED <<runs, diffs, faults, seen>> /\ run' = [run EXCEPT ![w] = Idle]
  BY DEF EndRun
<1>3. /\ runs \in Seq(RunRows) /\ seen \in Seq(Pasts) /\ run \in [Workers -> Cycles]
      /\ faults \in Nat /\ BooksTyped
  BY DEF BooksInv, BooksTyped
<1>4. /\ i \in 1..Len(runs) /\ i # 0 /\ \A v \in Workers : run[v].id = i => v = w
      /\ seen[i].clean =>
           /\ \A d \in Owed(i) : Behind(w, d[1]) => d \in run[w].found \/ Written(i, d)
           /\ runs[i].balanced => NoHalves(i)
  BY <1>1, <1>2, OwnRun
<1>5. \A type : Behind(w, type)
  BY <1>2 DEF Behind
<1>6. \A d : Written(i, d) => Written(i, d)'
  BY <1>2 DEF Written
<1>7. RunsStand
  BY <1>2, <1>3 DEF RunsStand
<1>8. Idle \in Cycles /\ Idle.id = 0 /\ Idle.found = {} /\ Idle.pc = "idle"
  BY DEF Idle, Cycles
<1>9. Owed(i)' \subseteq Owed(i) => ReportOK(i)'
  BY <1>2, <1>3, <1>4, <1>5, <1>6, <1>8, OwnReport
<1> QED
  BY <1>1, <1>2, <1>3, <1>7, <1>8, <1>9, CycleKeeps

LEMMA CrashKeeps ==
  ASSUME BooksInv, NEW w \in Workers, Crash(w)
  PROVE  BooksInv'
<1>1. PICK i : i = run[w].id
  OBVIOUS
<1>2. /\ run[w].pc # "idle" /\ BooksUnchanged /\ UNCHANGED <<runs, diffs>>
      /\ run' = [run EXCEPT ![w] = Idle] /\ Clean(i, FALSE) /\ Fault
  BY <1>1 DEF Crash
<1>3. /\ runs \in Seq(RunRows) /\ run \in [Workers -> Cycles]
      /\ faults \in Nat /\ BooksTyped
  BY DEF BooksInv, BooksTyped
<1>4. i \in 1..Len(runs)
  BY <1>1, <1>2, OwnRun
<1>5. /\ seen' \in Seq(Pasts) /\ Len(seen') = Len(seen)
      /\ \A j \in 1..Len(runs) :
           /\ seen'[j].whole = seen[j].whole /\ seen'[j].broken = seen[j].broken
           /\ seen'[j].logs = seen[j].logs /\ seen'[j].bills = seen[j].bills
           /\ j # i => seen'[j] = seen[j]
      /\ seen'[i].clean <=> seen[i].clean /\ FALSE
  BY <1>2, <1>3, <1>4, CleanNoted
<1>6. RunsStand
  BY <1>2, <1>3, <1>5 DEF RunsStand
<1>7. Idle \in Cycles /\ Idle.id = 0 /\ Idle.found = {} /\ Idle.pc = "idle"
  BY DEF Idle, Cycles
<1>8. Owed(i)' \subseteq Owed(i) => ReportOK(i)'
  BY <1>5 DEF ReportOK
<1>9. faults' \in Nat
  BY <1>2, <1>3 DEF Fault
<1> QED
  BY <1>1, <1>2, <1>3, <1>5, <1>6, <1>7, <1>8, <1>9, CycleKeeps

\* A run begins with what there is, and owes nothing of it yet.
LEMMA CreateRunKeeps ==
  ASSUME BooksInv, NEW w \in Workers, CreateRun(w)
  PROVE  BooksInv'
<1> DEFINE i == Len(runs) + 1
           next == [Idle EXCEPT !.pc = "count", !.id = i]
           row == [start |-> now - Period, end |-> now, status |-> "running",
                   count |-> 0, balanced |-> FALSE]
           past == [whole |-> { c \in Calls : call[c].pc = "done" },
                    broken |-> { c \in logs : call[c].pc = "broken" },
                    logs |-> logs, clean |-> TRUE, bills |-> { b \in Bills : bills[b] # 0 }]
<1>1. /\ run[w].pc = "idle" /\ BooksUnchanged /\ UNCHANGED <<diffs, faults>> /\ now > Period
      /\ runs' = Append(runs, row) /\ seen' = Append(seen, past)
      /\ run' = [run EXCEPT ![w] = next]
  BY DEF CreateRun
<1>2. /\ BooksTyped /\ CyclesOK /\ PastsOK /\ ReportsOK /\ AlarmsOK
      /\ runs \in Seq(RunRows) /\ seen \in Seq(Pasts) /\ run \in [Workers -> Cycles]
      /\ Len(seen) = Len(runs) /\ Len(runs) \in Nat /\ now \in Nat /\ Period \in Nat
      /\ logs \subseteq Calls
  BY BooksAssumption DEF BooksInv, BooksTyped
<1>3. BooksGrow /\ CallsOK'
  BY <1>1, BooksStand
<1>4. row \in RunRows /\ ~row.balanced
  BY <1>1, <1>2 DEF RunRows, Counts
<1>5. /\ past \in Pasts /\ past.logs = logs
      /\ \A b \in past.bills : bills[b] # 0
      /\ \A c \in past.whole : call[c].pc = "done"
  BY <1>2 DEF Pasts
<1>6. next \in Cycles /\ next.id = i /\ next.pc = "count" /\ next.found = {} /\ ~next.balanced
  <2>1. /\ Idle \in Cycles /\ Idle.found = {} /\ Idle.balanced = FALSE
    BY DEF Idle, Cycles
  <2>2. next \in Cycles
    <3>1. \A c \in Cycles, n \in Nat : [c EXCEPT !.pc = "count", !.id = n] \in Cycles
      BY DEF Cycles
    <3>2. i \in Nat
      BY <1>2
    <3> QED
      BY <2>1, <3>1, <3>2
  <2>3. next.id = i /\ next.pc = "count" /\ next.found = {}
    BY <1>2, <2>1 DEF Cycles
  <2>4. next.balanced = FALSE
    BY <2>1 DEF Cycles
  <2> QED
    BY <2>2, <2>3, <2>4
<1> HIDE DEF next, row, past
<1>7. /\ runs' \in Seq(RunRows) /\ Len(runs') = i /\ runs'[i] = row
      /\ \A j \in 1..Len(runs) : runs'[j] = runs[j]
  BY <1>1, <1>2, <1>4, AppendProperties
<1>8. /\ seen' \in Seq(Pasts) /\ Len(seen') = i /\ seen'[i] = past
      /\ \A j \in 1..Len(runs) : seen'[j] = seen[j]
  BY <1>1, <1>2, <1>5, AppendProperties
<1>9. run'[w] = next /\ \A v \in Workers : v # w => run'[v] = run[v]
  BY <1>1, <1>2
<1>10. \A v \in Workers : run[v].id # i
  BY <1>2 DEF CyclesOK, Idle
<1>11. RunsStand
  BY <1>2, <1>7, <1>8 DEF RunsStand
<1>12. \A j \in 1..Len(runs') : j = i \/ j \in 1..Len(runs)
  BY <1>2, <1>7
<1>13. BooksTyped'
  BY <1>1, <1>2, <1>6, <1>7, <1>8 DEF BooksTyped, BooksUnchanged, RowsUnchanged
<1>14. CyclesOK'
  <2>1. ASSUME NEW u \in Workers, NEW v \in Workers, run'[v].id = run'[u].id, run'[u].id # 0
        PROVE  v = u
    BY <1>2, <1>6, <1>9, <1>10, <2>1 DEF CyclesOK
  <2>2. i \in 1..Len(runs') /\ \A j \in 1..Len(runs) : j \in 1..Len(runs')
    BY <1>2, <1>7
  <2> QED
    BY <1>2, <1>6, <1>9, <2>1, <2>2 DEF CyclesOK
<1>15. PastsOK'
  BY <1>1, <1>2, <1>5, <1>8, <1>12 DEF PastsOK, BooksUnchanged, RowsUnchanged
<1>16. ReportsOK'
  <2>1. ASSUME NEW j \in 1..Len(runs)
        PROVE  ReportOK(j)'
    <3>1. \A v \in Workers : run[v].id = j \/ run'[v].id = j => run'[v] = run[v]
      BY <1>1, <1>2, <1>6, <1>9 DEF CyclesOK, Idle
    <3>2. runs'[j].status = runs[j].status /\ runs'[j].balanced = runs[j].balanced
      BY <1>7
    <3>3. ReportOK(j) /\ diffs \subseteq diffs'
      BY <1>1, <1>2 DEF ReportsOK
    <3> QED
      BY <1>2, <1>3, <1>11, <3>1, <3>2, <3>3, ReportStands
  <2>2. PICK n : n = i
    OBVIOUS
  <2>3. ReportOK(n)'
    <3>1. \A v \in Workers : run'[v].id = n => v = w
      BY <1>9, <1>10, <2>2
    <3>2. \A type : ~Behind(w, type)'
      BY <1>6, <1>9 DEF Behind
    <3>3. run'[w].id = n /\ ~run'[w].balanced /\ ~runs'[n].balanced
      BY <1>4, <1>6, <1>7, <1>9, <2>2
    <3> QED
      BY <3>1, <3>2, <3>3 DEF ReportOK
  <2>4. \A j \in 1..Len(runs') : j = n \/ j \in 1..Len(runs)
    BY <1>12, <2>2
  <2> QED
    BY <2>1, <2>3, <2>4 DEF ReportsOK
<1>17. AlarmsOK'
  <2>1. \A v \in Workers : \A d \in run'[v].found :
          run'[v] = run[v] /\ run[v].id \in 1..Len(runs) /\ d \in run[v].found
    BY <1>2, <1>6, <1>9 DEF CyclesOK, Idle
  <2>2. Len(runs') \in Nat /\ diffs' = diffs
    BY <1>1, <1>2, <1>7
  <2> QED
    BY <1>2, <1>3, <1>11, <2>1, <2>2, AlarmsStand
<1> QED
  BY <1>3, <1>13, <1>14, <1>15, <1>16, <1>17 DEF BooksInv

-----------------------------------------------------------------------------

LEMMA BooksInvariant == BooksSpec => []BooksInv
<1>1. BooksInit => BooksInv
  <2> SUFFICES ASSUME BooksInit
               PROVE  BooksInv
    OBVIOUS
  <2>1. /\ setting \in Settings /\ setting.faults \in Nat
        /\ runs = << >> /\ seen = << >> /\ logs = {} /\ diffs = {}
        /\ \A w \in Workers : run[w] = Idle
    BY BooksAssumption DEF BooksInit
  <2>2. Idle \in Cycles /\ Idle.id = 0 /\ Idle.found = {} /\ Idle.pc = "idle"
    BY DEF Idle, Cycles
  <2>3. BooksTyped
    BY <2>1, <2>2 DEF BooksInit, BooksTyped, CallStates
  <2>4. CallsOK
    BY DEF BooksInit, CallsOK
  <2>5. CyclesOK
    BY <2>1, <2>2 DEF CyclesOK
  <2>6. 1..Len(runs) = {}
    BY <2>1
  <2>7. PastsOK /\ ReportsOK /\ AlarmsOK
    BY <2>1, <2>2, <2>6 DEF PastsOK, ReportsOK, AlarmsOK
  <2> QED
    BY <2>3, <2>4, <2>5, <2>7 DEF BooksInv
<1>2. BooksInv /\ [BooksNext]_bookVars => BooksInv'
  <2> SUFFICES ASSUME BooksInv, [BooksNext]_bookVars
               PROVE  BooksInv'
    OBVIOUS
  <2>1. CASE UNCHANGED bookVars
    BY <2>1, ClockKeeps
  <2>2. CASE \E c \in Calls : \/ Serve(c) \/ Record(c) \/ CreateUsageLog(c)
                              \/ CreateChargeLines(c) \/ CreateProviderEvidence(c)
                              \/ BreakRecord(c)
    BY <2>2, RecordKeeps
  <2>3. CASE \E b \in Bills : Arrive(b)
    BY <2>3, ArriveKeeps
  <2>4. CASE \E w \in Workers : \/ CreateRun(w) \/ CountLogs(w) \/ Query(w) \/ CompleteRun(w)
                                \/ CreateDiff(w) \/ EndRun(w) \/ Crash(w)
    BY <2>4, CreateRunKeeps, CountKeeps, QueryKeeps, CompleteKeeps, WriteKeeps, EndKeeps,
       CrashKeeps
  <2>5. CASE LeaseExpires \/ Tick
    BY <2>5, ClockKeeps
  <2> QED
    BY <2>1, <2>2, <2>3, <2>4, <2>5 DEF BooksNext
<1> QED
  BY <1>1, <1>2, PTL DEF BooksSpec

\* A run that met no error and no limit has written every flaw of its period
\* that was there when it began and still is, and calls its period balanced only
\* without half-written calls, for any calls, bills and workers.
THEOREM FlawsAreFound == BooksSpec => []FlawsAreReported
<1>1. BooksInv => FlawsAreReported
  <2> SUFFICES ASSUME BooksInv, NEW i \in DOMAIN runs, Thorough(i)
               PROVE  /\ \A d \in Owed(i) : <<i, d[1], d[2]>> \in diffs
                      /\ runs[i].balanced =>
                           \A d \in Owed(i) :
                             d[1] \notin {"missing_charge_lines", "missing_evidence"}
    BY DEF FlawsAreReported
  <2>1. i \in 1..Len(runs) /\ ReportOK(i)
    BY DEF BooksInv, BooksTyped, ReportsOK
  <2>2. /\ runs[i].status = "completed" /\ seen[i].clean
        /\ \A w \in Workers : run[w].id # i
    BY DEF Thorough
  <2> QED
    BY <2>1, <2>2 DEF ReportOK, Written, NoHalves
<1> QED
  BY <1>1, BooksInvariant, PTL

\* No difference accuses what was whole and rightly billed when its run began,
\* for any calls, bills, workers and any order of their steps; only a call that
\* had no charge lines to write is accused of missing them though it was whole.
THEOREM AlarmsAreTrue == BooksSpec => []AlarmsAreWarranted
<1>1. BooksInv => AlarmsAreWarranted
  BY DEF BooksInv, AlarmsOK, AlarmsAreWarranted, Warranted
<1> QED
  BY <1>1, BooksInvariant, PTL
=============================================================================
