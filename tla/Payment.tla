------------------------------- MODULE Payment -------------------------------
(***************************************************************************)
(* Payment orders (internal/service/payment/service.go and                 *)
(* internal/repository/paymentorder): an order is settled by the payment   *)
(* gateway's callbacks, which are repeated until one is answered with      *)
(* success, or by an administrator.  Handlers run concurrently, every      *)
(* statement is a transaction of its own, and any of them may fail or be   *)
(* the last one before a crash.                                            *)
(*                                                                         *)
(* A callback on the wrong route, with a bad signature or without success  *)
(* changes nothing and is left out.                                        *)
(***************************************************************************)
EXTENDS Integers, FiniteSets, Tally

CONSTANTS Orders,          \* order numbers
          Account,         \* the wallet of the user who placed them
          MaxAmount,       \* bound: the largest price or payment
          Handlers,        \* goroutines serving callbacks and admin calls
          MaxActivations   \* bound: activations of one order counted

ASSUME OrdersAssumption == IsFiniteSet(Orders)
ASSUME MaxPriceAssumption == MaxAmount \in Nat \ {0}
ASSUME MaxActivationsAssumption == MaxActivations \in Nat \ {0, 1}

VARIABLES balance, frozen, ledger,   \* the wallet; its keys are order numbers
          kind,         \* payment_orders.purpose
          price,        \* payment_orders.amount
          status,       \* payment_orders.status
          expired,      \* the clock is past payment_orders.expires_at
          activations,  \* plans activated for the order
          collected,    \* what the payment gateway collected for the order
          answered,     \* a callback was answered with success
          manual,       \* an administrator asked to complete the order
          at,           \* where a handler stands
          job           \* what it works on: order, its status when it was
                        \* read, and whether an administrator asked

wallet == <<balance, frozen, ledger>>
order  == <<kind, price, status, expired, activations>>
vars   == <<balance, frozen, ledger, kind, price, status, expired, activations,
            collected, answered, manual, at, job>>

Bank == INSTANCE Wallet WITH Wallets <- {Account}, Keys <- Orders

Amounts == 1 .. MaxAmount
NoJob   == [order |-> "none", status |-> "none", admin |-> FALSE]

TypeOK ==
  /\ Bank!TypeOK
  /\ kind \in [Orders -> {"topup", "subscription"}]
  /\ price \in [Orders -> Amounts]
  /\ status \in [Orders -> {"none", "pending", "paid", "closed"}]
  /\ expired \in [Orders -> BOOLEAN]
  /\ activations \in [Orders -> 0 .. MaxActivations]
  /\ collected \in [Orders -> 0 .. MaxAmount]
  /\ answered \in [Orders -> BOOLEAN]
  /\ manual \in [Orders -> BOOLEAN]
  /\ at \in [Handlers -> {"idle", "check", "credit", "mark"}]
  /\ job \in [Handlers -> {NoJob} \cup
       [order : Orders, status : {"pending", "closed"}, admin : BOOLEAN]]

Init ==
  /\ Bank!Init
  /\ kind \in [Orders -> {"topup", "subscription"}]
  /\ price \in [Orders -> Amounts]
  /\ status = [o \in Orders |-> "none"]
  /\ expired = [o \in Orders |-> FALSE]
  /\ activations = [o \in Orders |-> 0]
  /\ collected = [o \in Orders |-> 0]
  /\ answered = [o \in Orders |-> FALSE]
  /\ manual = [o \in Orders |-> FALSE]
  /\ at = [h \in Handlers |-> "idle"]
  /\ job = [h \in Handlers |-> NoJob]

-----------------------------------------------------------------------------
(* The user, the payment gateway and the clock.                            *)

\* CreateOrder and CreateSubscriptionOrder: the user gets the pay URL only
\* after the row was inserted.
CreateOrder(o) ==
  /\ status[o] = "none"
  /\ status' = [status EXCEPT ![o] = "pending"]
  /\ UNCHANGED <<wallet, kind, price, expired, activations, collected, answered,
                 manual, at, job>>

\* The gateway collects money; it need not be the amount of the order.
UserPays(o) ==
  /\ status[o] # "none"
  /\ collected[o] = 0
  /\ \E amount \in Amounts : collected' = [collected EXCEPT ![o] = amount]
  /\ UNCHANGED <<wallet, order, answered, manual, at, job>>

\* orderTTL passes.
Expire(o) ==
  /\ status[o] # "none"
  /\ ~expired[o]
  /\ expired' = [expired EXCEPT ![o] = TRUE]
  /\ UNCHANGED <<wallet, kind, price, status, activations, collected, answered,
                 manual, at, job>>

-----------------------------------------------------------------------------
(* Handlers.                                                               *)

Goto(h, label) == at' = [at EXCEPT ![h] = label]

Start(h, o, admin, label) ==
  /\ Goto(h, label)
  /\ job' = [job EXCEPT
       ![h] = [order |-> o, status |-> status[o], admin |-> admin]]

Stop(h) ==
  /\ Goto(h, "idle")
  /\ job' = [job EXCEPT ![h] = NoJob]

Answer(o) == answered' = [answered EXCEPT ![o] = TRUE]

\* Mutant of Notify: success is answered before the order is settled.
Notify_AnswersFirst(h, o) ==
  /\ at[h] = "idle"
  /\ collected[o] > 0
  /\ status[o] = "pending"
  /\ Start(h, o, FALSE, "check")
  /\ Answer(o)
  /\ UNCHANGED <<wallet, order, collected, manual>>

\* HandleNotifyForChannel reads the order; one that is not pending is answered
\* with success at once.  Callbacks may be duplicated, also after that.
Notify(h, o) ==
  /\ at[h] = "idle"
  /\ collected[o] > 0
  /\ \/ /\ status[o] = "pending"
        /\ Start(h, o, FALSE, "check")
        /\ UNCHANGED answered
     \/ /\ status[o] \in {"paid", "closed"}
        /\ Answer(o)
        /\ UNCHANGED <<at, job>>
  /\ UNCHANGED <<wallet, order, collected, manual>>

\* AdminComplete reads the order; a paid one is left alone, a closed one not.
AdminComplete(h, o) ==
  /\ at[h] = "idle"
  /\ status[o] \in {"pending", "closed"}
  /\ Start(h, o, TRUE, "credit")
  /\ manual' = [manual EXCEPT ![o] = TRUE]
  /\ UNCHANGED <<wallet, order, collected, answered>>

\* Mutant of Accept: the amount is not compared.
Accept_AnyAmount(h) ==
  /\ at[h] = "check"
  /\ ~expired[job[h].order]
  /\ Goto(h, "credit")
  /\ UNCHANGED <<wallet, order, collected, answered, manual, job>>

\* Mutant of Accept: the order is marked paid before it is credited.
Accept_MarksFirst(h) ==
  LET o == job[h].order IN
  /\ at[h] = "check"
  /\ collected[o] = price[o]
  /\ ~expired[o]
  /\ status' = [status EXCEPT ![o] = IF @ = "pending" THEN "paid" ELSE @]
  /\ Goto(h, "credit")
  /\ UNCHANGED <<wallet, kind, price, expired, activations, collected, answered,
                 manual, job>>

\* The callback passed its checks: the amount, then the expiry.
Accept(h) ==
  LET o == job[h].order IN
  /\ at[h] = "check"
  /\ collected[o] = price[o]
  /\ ~expired[o]
  /\ Goto(h, "credit")
  /\ UNCHANGED <<wallet, order, collected, answered, manual, job>>

\* MarkClosed of an expired order; the callback is answered with a failure.
CloseExpired(h) ==
  LET o == job[h].order IN
  /\ at[h] = "check"
  /\ collected[o] = price[o]
  /\ expired[o]
  /\ status' = [status EXCEPT ![o] = IF @ = "pending" THEN "closed" ELSE @]
  /\ Stop(h)
  /\ UNCHANGED <<wallet, kind, price, expired, activations, collected, answered,
                 manual>>

\* credit: a top-up is keyed by the order number, so a repeated one replays;
\* the activation of a plan has no key.
Credit(h) ==
  LET o == job[h].order IN
  /\ at[h] = "credit"
  /\ \/ /\ kind[o] = "topup"
        /\ \/ Bank!TopUp(Account, o, price[o])
           \/ ~Bank!Fresh(Account, o) /\ UNCHANGED wallet
        /\ UNCHANGED activations
     \/ /\ kind[o] = "subscription"
        /\ activations' =
             [activations EXCEPT ![o] = IF @ < MaxActivations THEN @ + 1 ELSE @]
        /\ UNCHANGED wallet
  /\ Goto(h, "mark")
  /\ UNCHANGED <<kind, price, status, expired, collected, answered, manual,
                 job>>

\* MarkPaid leaves an order that is not pending as it is; the callback is
\* answered with success either way, unless the process stops before that.
MarkPaid(h) ==
  LET o == job[h].order IN
  /\ at[h] = "mark"
  /\ status' = [status EXCEPT ![o] = IF @ = "pending" THEN "paid" ELSE @]
  /\ \/ UNCHANGED answered
     \/ ~job[h].admin /\ Answer(o)
  /\ Stop(h)
  /\ UNCHANGED <<wallet, kind, price, expired, activations, collected, manual>>

\* Mutant of Abandon: a failed callback is answered with success.
Abandon_Answers(h) ==
  /\ at[h] # "idle"
  /\ Answer(job[h].order)
  /\ Stop(h)
  /\ UNCHANGED <<wallet, order, collected, manual>>

\* ErrAmountMismatch: the callback is answered with a failure.
Refuse(h) ==
  /\ at[h] = "check"
  /\ collected[job[h].order] # price[job[h].order]
  /\ Stop(h)
  /\ UNCHANGED <<wallet, order, collected, answered, manual>>

\* A handler stops before its next statement: it failed, or the process
\* crashed.  The callback is not answered with success.
Abandon(h) ==
  /\ at[h] # "idle"
  /\ Stop(h)
  /\ UNCHANGED <<wallet, order, collected, answered, manual>>

Step(h) ==
  Refuse(h) \/ Accept(h) \/ CloseExpired(h) \/ Credit(h) \/ MarkPaid(h)

Next ==
  \/ \E o \in Orders : CreateOrder(o) \/ UserPays(o) \/ Expire(o)
  \/ \E h \in Handlers, o \in Orders : Notify(h, o) \/ AdminComplete(h, o)
  \/ \E h \in Handlers : Step(h) \/ Abandon(h)

Spec == Init /\ [][Next]_vars

\* The payment gateway repeats its callback until one is answered, and a
\* statement that is tried again and again is not abandoned every time.
FairSpec ==
  /\ Spec
  /\ \A o \in Orders :
       SF_vars(\E h \in Handlers : ~answered[o] /\ Notify(h, o))
  /\ \A o \in Orders, h \in Handlers :
       /\ SF_vars(job[h].order = o /\ Refuse(h))
       /\ SF_vars(job[h].order = o /\ Accept(h))
       /\ SF_vars(job[h].order = o /\ CloseExpired(h))
       /\ SF_vars(job[h].order = o /\ Credit(h))
       /\ SF_vars(job[h].order = o /\ MarkPaid(h))

-----------------------------------------------------------------------------
(* Properties.                                                             *)

Credited(o) ==
  IF kind[o] = "topup"
  THEN ledger[Account][o] = [type |-> "topup", amount |-> price[o]]
  ELSE activations[o] > 0

\* An order shows as paid only after what it buys was delivered, so a crash
\* between the two statements loses nothing.
PaidMeansCredited == \A o \in Orders : status[o] = "paid" => Credited(o)

\* A paid order stays paid: a callback that saw it pending and expired cannot
\* close it after another one settled it.
PaidIsFinal ==
  [][\A o \in Orders : status[o] = "paid" => status'[o] = "paid"]_vars

\* The payment gateway collected exactly the price, or an administrator asked
\* for the order to be completed.
Justified(o) == collected[o] = price[o] \/ manual[o]

\* What an order may put into the wallet.
Due(o) == IF kind[o] = "topup" /\ Justified(o) THEN price[o] ELSE 0

\* However often and in whatever order callbacks are delivered, the wallet
\* never holds more than what its orders are due.
NoMoneyFromNothing ==
  balance[Account] <= Total([o \in Orders |-> Due(o)], MaxAmount)

\* The callback is not acknowledged while a payment it reports is undelivered,
\* unless the order ran out of time.
AcknowledgedMeansSettled ==
  \A o \in Orders :
    answered[o] /\ collected[o] = price[o] =>
      Credited(o) \/ status[o] = "closed"

\* A correct payment is delivered, or its order is closed for manual review,
\* whatever callbacks are lost to failures and crashes: it is never forgotten.
PaymentsAreDelivered ==
  \A o \in Orders :
    collected[o] = price[o] ~> Credited(o) \/ status[o] = "closed"

=============================================================================
