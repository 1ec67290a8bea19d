------------------------------- MODULE Wallet -------------------------------
(***************************************************************************)
(* The prepaid wallets and their ledger                                    *)
(* (internal/repository/wallet/postgres.go).  A step is one committed      *)
(* database transaction: a wallet row (balance, frozen) changes together   *)
(* with the wallet_transactions row that accounts for it.                  *)
(*                                                                         *)
(* Ledger rows are addressed by (wallet, idempotency key), which migration *)
(* 000004 makes unique, so the pair also stands for the row's id.  A call  *)
(* that returns an error, or that replays a key already used, commits no   *)
(* change: it is a stuttering step here (WalletTxn has those steps).       *)
(* Money is counted in whole units; MaxAmount bounds one operation.        *)
(***************************************************************************)
EXTENDS Integers, FiniteSets, Tally

CONSTANTS Wallets,    \* wallet ids
          Keys,       \* idempotency keys
          MaxAmount   \* bound: the largest amount of one operation

ASSUME WalletsAssumption == IsFiniteSet(Wallets)
ASSUME KeysAssumption == IsFiniteSet(Keys)
ASSUME MaxAmountAssumption == MaxAmount \in Nat \ {0}

VARIABLES balance,    \* wallets.balance
          frozen,     \* wallets.frozen
          ledger      \* wallet_transactions: wallet -> key -> row

vars == <<balance, frozen, ledger>>

Amounts == 1 .. MaxAmount

\* tx_type of the rows the repository writes; "none" is the absent row.
Credits == {"topup", "transfer_in"}
Debits  == {"transfer_out", "subscription"}
TxTypes == {"none", "reserve", "charge", "release"} \cup Credits \cup Debits

\* Debit rows store a negative amount, all other rows a nonnegative one.
Row   == [type : TxTypes \ Debits, amount : 0 .. MaxAmount]
           \cup [type : Debits, amount : -MaxAmount .. 0]
NoRow == [type |-> "none", amount |-> 0]

TypeOK ==
  /\ balance \in [Wallets -> Int]
  /\ frozen \in [Wallets -> Int]
  /\ ledger \in [Wallets -> [Keys -> Row]]

Init ==
  /\ balance = [w \in Wallets |-> 0]
  /\ frozen = [w \in Wallets |-> 0]
  /\ ledger = [w \in Wallets |-> [k \in Keys |-> NoRow]]

-----------------------------------------------------------------------------
Available(w) == balance[w] - frozen[w]

\* findIdempotentTx finds no row, and the unique index will accept one.
Fresh(w, k) == ledger[w][k].type = "none"

\* The row Commit, Settle and Release insist on.
Held(w, k) == ledger[w][k].type = "reserve"

WriteRow(w, k, t, a) ==
  ledger' = [ledger EXCEPT ![w][k] = [type |-> t, amount |-> a]]

Move(counter, w, delta) == [counter EXCEPT ![w] = @ + delta]

-----------------------------------------------------------------------------
(* The operations.                                                         *)

\* Mutant of Reserve: holds already frozen are forgotten by the check.
Reserve_IgnoresHolds(w, k, a) ==
  /\ Fresh(w, k)
  /\ balance[w] >= a
  /\ WriteRow(w, k, "reserve", a)
  /\ frozen' = Move(frozen, w, a)
  /\ UNCHANGED balance

\* Freeze an amount of the available balance.
Reserve(w, k, a) ==
  /\ Fresh(w, k)
  /\ Available(w) >= a
  /\ WriteRow(w, k, "reserve", a)
  /\ frozen' = Move(frozen, w, a)
  /\ UNCHANGED balance

TopUp(w, k, a) ==
  /\ Fresh(w, k)
  /\ WriteRow(w, k, "topup", a)
  /\ balance' = Move(balance, w, a)
  /\ UNCHANGED frozen

\* Both rows share the key, so it must be fresh in both wallets.
Transfer(v, w, k, a) ==
  /\ v # w
  /\ Fresh(v, k)
  /\ Available(v) >= a
  /\ Fresh(w, k)
  /\ ledger' = [ledger EXCEPT
        ![v][k] = [type |-> "transfer_out", amount |-> -a],
        ![w][k] = [type |-> "transfer_in", amount |-> a]]
  /\ balance' = [balance EXCEPT ![v] = @ - a, ![w] = @ + a]
  /\ UNCHANGED frozen

\* Subscription purchase: compared with the balance, not with what is available.
Spend(w, k, a) ==
  /\ Fresh(w, k)
  /\ balance[w] >= a
  /\ WriteRow(w, k, "subscription", -a)
  /\ balance' = Move(balance, w, -a)
  /\ UNCHANGED frozen

\* Mutant of Commit: any row of the wallet may be committed, not only a hold.
Commit_AnyRow(w, k) ==
  /\ ~Fresh(w, k)
  /\ WriteRow(w, k, "charge", ledger[w][k].amount)
  /\ balance' = Move(balance, w, -ledger[w][k].amount)
  /\ frozen' = Move(frozen, w, -ledger[w][k].amount)

\* Charge exactly the reserved amount.
Commit(w, k) ==
  /\ Held(w, k)
  /\ WriteRow(w, k, "charge", ledger[w][k].amount)
  /\ balance' = Move(balance, w, -ledger[w][k].amount)
  /\ frozen' = Move(frozen, w, -ledger[w][k].amount)

\* Mutant of Settle: the row keeps the reserved amount.
Settle_KeepsReserved(w, k, final) ==
  LET reserved == ledger[w][k].amount IN
  /\ Held(w, k)
  /\ final > reserved => Available(w) >= final - reserved
  /\ WriteRow(w, k, "charge", reserved)
  /\ balance' = Move(balance, w, -final)
  /\ frozen' = Move(frozen, w, -reserved)

\* Charge the final cost; only an extra over the hold must be available.
Settle(w, k, final) ==
  LET reserved == ledger[w][k].amount IN
  /\ Held(w, k)
  /\ final > reserved => Available(w) >= final - reserved
  /\ WriteRow(w, k, "charge", final)
  /\ balance' = Move(balance, w, -final)
  /\ frozen' = Move(frozen, w, -reserved)

Release(w, k) ==
  /\ Held(w, k)
  /\ WriteRow(w, k, "release", ledger[w][k].amount)
  /\ frozen' = Move(frozen, w, -ledger[w][k].amount)
  /\ UNCHANGED balance
-----------------------------------------------------------------------------
\* The gateway and the payment service: everything but buying a subscription.
MeteredStep(w, k) ==
  \/ \E a \in Amounts : Reserve(w, k, a)
  \/ \E a \in Amounts : TopUp(w, k, a)
  \/ \E v \in Wallets, a \in Amounts : Transfer(v, w, k, a)
  \/ Commit(w, k)
  \/ \E final \in 0 .. MaxAmount : Settle(w, k, final)
  \/ Release(w, k)

MeteredNext == \E w \in Wallets, k \in Keys : MeteredStep(w, k)

Purchase == \E w \in Wallets, k \in Keys, a \in Amounts : Spend(w, k, a)

Next == MeteredNext \/ Purchase

Spec == Init /\ [][Next]_vars

-----------------------------------------------------------------------------
(* The columns the invariants sum over.                                    *)

\* amount of the rows of the given types, 0 for the others.
Entry(row, types, sign) == IF row.type \in types THEN sign * row.amount ELSE 0

Column(w, types, sign) == [k \in Keys |-> Entry(ledger[w][k], types, sign)]

Sum(column) == Total(column, MaxAmount)

OpenHolds(w) == Sum(Column(w, {"reserve"}, 1))
Charged(w)   == Sum(Column(w, {"charge"}, 1))
Credited(w)  == Sum(Column(w, Credits, 1))
Debited(w)   == Sum(Column(w, Debits, -1))

\* Reserve and release rows do not move the balance, charges deduct, and every
\* other row adds its stored amount.
LedgerNet(w) == Credited(w) - Charged(w) - Debited(w)

\* W11, frozen: what is frozen in a wallet is exactly the sum of its open
\* holds, whatever mix of reserve, commit, settle and release calls ran.
FrozenIsOpenHolds == \A w \in Wallets : frozen[w] = OpenHolds(w)

\* W11, balance: the balance is exactly what the ledger rows add up to.
BalanceIsLedgerNet == \A w \in Wallets : balance[w] = LedgerNet(w)

\* W11: the ledger rows explain both columns of every wallet.
LedgerExplainsColumns == FrozenIsOpenHolds /\ BalanceIsLedgerNet

NonNegative(w) == balance[w] >= 0 /\ frozen[w] >= 0 /\ Available(w) >= 0

Purchased(w) == \E k \in Keys : ledger[w][k].type = "subscription"

\* W1, W2, W3 (invariants_p0503_test.go:11) for a wallet that never paid for a
\* subscription: neither the balance, nor the frozen part, nor what is available
\* is ever negative, whatever the other operations and the other wallets do.
\* (A purchase compares with the balance and may leave less than the holds.)
MeteredNeverNegative ==
  \A w \in Wallets : ~Purchased(w) => NonNegative(w)

\* W7, W8, W9: a row changes at most once after it was written, from an open
\* hold to its one final state; no later call moves money through it again.
FinalRowsNeverChange ==
  [][\A w \in Wallets, k \in Keys :
       ~Fresh(w, k) /\ ~Held(w, k) => ledger'[w][k] = ledger[w][k]]_vars
=============================================================================
