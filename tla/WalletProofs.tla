---------------------------- MODULE WalletProofs ----------------------------
(***************************************************************************)
(* Proofs about the wallet ledger and about what credits it, for any       *)
(* number of wallets, idempotency keys, amounts, handlers and connections. *)
(***************************************************************************)
EXTENDS Credits, TallyProofs

\* What one row adds to the open holds and to the balance of its wallet.
HoldOf(row) == Entry(row, {"reserve"}, 1)
NetOf(row)  == Entry(row, Credits, 1) - Entry(row, {"charge"}, 1)
                 - Entry(row, Debits, -1)

-----------------------------------------------------------------------------
(* Type correctness.                                                       *)

\* Every operation keeps balances, frozen amounts and ledger rows well typed.
LEMMA TypeStep ==
  ASSUME TypeOK, [Next]_vars
  PROVE  TypeOK'
<1> USE MaxAmountAssumption DEF TypeOK
<1>1. ASSUME NEW w \in Wallets, NEW k \in Keys, NEW a \in Amounts,
             Reserve(w, k, a)
      PROVE  TypeOK'
  BY <1>1 DEF Reserve, WriteRow, Move, Row, TxTypes, Credits, Debits, Amounts
<1>2. ASSUME NEW w \in Wallets, NEW k \in Keys, NEW a \in Amounts,
             TopUp(w, k, a)
      PROVE  TypeOK'
  BY <1>2 DEF TopUp, WriteRow, Move, Row, TxTypes, Credits, Debits, Amounts
<1>3. ASSUME NEW v \in Wallets, NEW w \in Wallets, NEW k \in Keys,
             NEW a \in Amounts, Transfer(v, w, k, a)
      PROVE  TypeOK'
  <2>1. /\ [type |-> "transfer_out", amount |-> -a] \in Row
        /\ [type |-> "transfer_in", amount |-> a] \in Row
    BY DEF Row, TxTypes, Credits, Debits, Amounts
  <2>2. ledger' \in [Wallets -> [Keys -> Row]]
    BY <1>3, <2>1 DEF Transfer
  <2>3. balance' \in [Wallets -> Int]
    BY <1>3 DEF Transfer, Amounts
  <2> QED
    BY <1>3, <2>2, <2>3 DEF Transfer
<1>4. ASSUME NEW w \in Wallets, NEW k \in Keys, NEW a \in Amounts,
             Spend(w, k, a)
      PROVE  TypeOK'
  BY <1>4 DEF Spend, WriteRow, Move, Row, TxTypes, Credits, Debits, Amounts
<1>5. ASSUME NEW w \in Wallets, NEW k \in Keys, Commit(w, k)
      PROVE  TypeOK'
  BY <1>5 DEF Commit, Held, WriteRow, Move, Row, TxTypes, Credits, Debits
<1>6. ASSUME NEW w \in Wallets, NEW k \in Keys, NEW final \in 0 .. MaxAmount,
             Settle(w, k, final)
      PROVE  TypeOK'
  BY <1>6 DEF Settle, Held, WriteRow, Move, Row, TxTypes, Credits, Debits
<1>7. ASSUME NEW w \in Wallets, NEW k \in Keys, Release(w, k)
      PROVE  TypeOK'
  BY <1>7 DEF Release, Held, WriteRow, Move, Row, TxTypes, Credits, Debits
<1>8. CASE UNCHANGED vars
  BY <1>8 DEF vars
<1> QED
  BY <1>1, <1>2, <1>3, <1>4, <1>5, <1>6, <1>7, <1>8
     DEF Next, MeteredNext, MeteredStep, Purchase

\* The wallet tables are well typed in every reachable state.
THEOREM TypeCorrect == Spec => []TypeOK
<1>1. Init => TypeOK
  BY MaxAmountAssumption
     DEF Init, TypeOK, NoRow, Row, TxTypes, Credits, Debits
<1> QED
  BY <1>1, TypeStep, PTL DEF Spec

-----------------------------------------------------------------------------
(* Rewriting a ledger row and the sums over the ledger.                    *)

\* The columns the sums range over hold natural numbers up to the bound.
LEMMA EntryRange ==
  ASSUME NEW r \in Row
  PROVE  /\ Entry(r, {"reserve"}, 1) \in 0 .. MaxAmount
         /\ Entry(r, {"charge"}, 1) \in 0 .. MaxAmount
         /\ Entry(r, Credits, 1) \in 0 .. MaxAmount
         /\ Entry(r, Debits, -1) \in 0 .. MaxAmount
BY MaxAmountAssumption DEF Entry, Row, TxTypes, Credits, Debits

\* A column changes by the difference of the one row that was written.
LEMMA ColumnWritten ==
  ASSUME TypeOK, TypeOK', NEW w \in Wallets, NEW k \in Keys,
         \A j \in Keys \ {k} : ledger'[w][j] = ledger[w][j],
         NEW types, NEW sign,
         \A r \in Row : Entry(r, types, sign) \in 0 .. MaxAmount
  PROVE  /\ Sum(Column(w, types, sign)) \in Nat
         /\ Sum(Column(w, types, sign))' =
              Sum(Column(w, types, sign)) - Entry(ledger[w][k], types, sign)
                + Entry(ledger'[w][k], types, sign)
<1> DEFINE f == [j \in Keys |-> Entry(ledger[w][j], types, sign)]
           g == [j \in Keys |-> Entry(ledger'[w][j], types, sign)]
<1>1. \A j \in Keys : ledger[w][j] \in Row /\ ledger'[w][j] \in Row
  BY DEF TypeOK
<1>2. f \in [Keys -> Int] /\ g \in [Keys -> Int]
  BY <1>1, MaxAmountAssumption
<1>3. f[k] \in 0 .. MaxAmount /\ g[k] \in 0 .. MaxAmount
  BY <1>1
<1>4. \A j \in Keys \ {k} : g[j] = f[j]
  OBVIOUS
<1>5. IsFiniteSet(Keys) /\ MaxAmount \in Nat
  BY KeysAssumption, MaxAmountAssumption
<1>6. Total(f, MaxAmount) \in Nat
  BY <1>2, <1>5, TotalIsNat
<1>7. Total(g, MaxAmount) = Total(f, MaxAmount) - f[k] + g[k]
  <2> HIDE DEF f, g
  <2> QED
    BY <1>2, <1>3, <1>4, <1>5, TotalUpdate
<1>8. /\ Sum(Column(w, types, sign)) = Total(f, MaxAmount)
      /\ Sum(Column(w, types, sign))' = Total(g, MaxAmount)
  BY DEF Sum, Column
<1> QED
  BY <1>6, <1>7, <1>8

\* Writing row k of a wallet moves its open holds and its ledger net by what
\* the new row contributes instead of the old one.
LEMMA RowWritten ==
  ASSUME TypeOK, TypeOK', NEW w \in Wallets, NEW k \in Keys,
         \A j \in Keys \ {k} : ledger'[w][j] = ledger[w][j]
  PROVE  /\ OpenHolds(w) \in Int /\ LedgerNet(w) \in Int
         /\ OpenHolds(w)' =
              OpenHolds(w) - HoldOf(ledger[w][k]) + HoldOf(ledger'[w][k])
         /\ LedgerNet(w)' =
              LedgerNet(w) - NetOf(ledger[w][k]) + NetOf(ledger'[w][k])
<1>1. ledger[w][k] \in Row /\ ledger'[w][k] \in Row
  BY DEF TypeOK
<1>2. /\ OpenHolds(w) \in Nat
      /\ OpenHolds(w)' = OpenHolds(w) - Entry(ledger[w][k], {"reserve"}, 1)
                            + Entry(ledger'[w][k], {"reserve"}, 1)
  BY EntryRange, ColumnWritten DEF OpenHolds
<1>3. /\ Charged(w) \in Nat
      /\ Charged(w)' = Charged(w) - Entry(ledger[w][k], {"charge"}, 1)
                          + Entry(ledger'[w][k], {"charge"}, 1)
  BY EntryRange, ColumnWritten DEF Charged
<1>4. /\ Credited(w) \in Nat
      /\ Credited(w)' = Credited(w) - Entry(ledger[w][k], Credits, 1)
                           + Entry(ledger'[w][k], Credits, 1)
  BY EntryRange, ColumnWritten DEF Credited
<1>5. /\ Debited(w) \in Nat
      /\ Debited(w)' = Debited(w) - Entry(ledger[w][k], Debits, -1)
                          + Entry(ledger'[w][k], Debits, -1)
  BY EntryRange, ColumnWritten DEF Debited
<1>6. /\ Entry(ledger[w][k], {"reserve"}, 1) \in Int
      /\ Entry(ledger[w][k], {"charge"}, 1) \in Int
      /\ Entry(ledger[w][k], Credits, 1) \in Int
      /\ Entry(ledger[w][k], Debits, -1) \in Int
      /\ Entry(ledger'[w][k], {"reserve"}, 1) \in Int
      /\ Entry(ledger'[w][k], {"charge"}, 1) \in Int
      /\ Entry(ledger'[w][k], Credits, 1) \in Int
      /\ Entry(ledger'[w][k], Debits, -1) \in Int
  BY <1>1, EntryRange, MaxAmountAssumption
<1>7. LedgerNet(w)' = Credited(w)' - Charged(w)' - Debited(w)'
  BY DEF LedgerNet
<1> QED
  BY <1>2, <1>3, <1>4, <1>5, <1>6, <1>7 DEF LedgerNet, HoldOf, NetOf

\* A wallet none of whose rows changes keeps its sums.
LEMMA RowsKept ==
  ASSUME NEW w \in Wallets, ledger'[w] = ledger[w]
  PROVE  OpenHolds(w)' = OpenHolds(w) /\ LedgerNet(w)' = LedgerNet(w)
BY DEF OpenHolds, LedgerNet, Charged, Credited, Debited, Column, Sum
-----------------------------------------------------------------------------
(* W11: the wallet rows are explained by the ledger.                       *)

Explained == FrozenIsOpenHolds /\ BalanceIsLedgerNet

\* A transaction that writes one row and moves the wallet by what the row adds
\* keeps the wallet explained.
LEMMA ExplainedByRow ==
  ASSUME TypeOK, TypeOK', Explained, NEW w \in Wallets, NEW k \in Keys, NEW r,
         ledger' = [ledger EXCEPT ![w][k] = r],
         \A u \in Wallets \ {w} :
           frozen'[u] = frozen[u] /\ balance'[u] = balance[u],
         frozen'[w] = frozen[w] - HoldOf(ledger[w][k]) + HoldOf(r),
         balance'[w] = balance[w] - NetOf(ledger[w][k]) + NetOf(r)
  PROVE  Explained'
<1>1. ledger'[w][k] = r /\ \A j \in Keys \ {k} : ledger'[w][j] = ledger[w][j]
  BY DEF TypeOK
<1>2. \A u \in Wallets \ {w} : ledger'[u] = ledger[u]
  BY DEF TypeOK
<1>3. frozen'[w] = OpenHolds(w)' /\ balance'[w] = LedgerNet(w)'
  BY <1>1, RowWritten DEF Explained, FrozenIsOpenHolds, BalanceIsLedgerNet
<1>4. ASSUME NEW u \in Wallets \ {w}
      PROVE  frozen'[u] = OpenHolds(u)' /\ balance'[u] = LedgerNet(u)'
  BY <1>2, RowsKept DEF Explained, FrozenIsOpenHolds, BalanceIsLedgerNet
<1> QED
  BY <1>3, <1>4 DEF Explained, FrozenIsOpenHolds, BalanceIsLedgerNet

\* What a row of each kind contributes.
LEMMA Contributions ==
  ASSUME NEW a \in Int
  PROVE  /\ HoldOf([type |-> "reserve", amount |-> a]) = a
         /\ NetOf([type |-> "reserve", amount |-> a]) = 0
         /\ HoldOf([type |-> "charge", amount |-> a]) = 0
         /\ NetOf([type |-> "charge", amount |-> a]) = -a
         /\ HoldOf([type |-> "release", amount |-> a]) = 0
         /\ NetOf([type |-> "release", amount |-> a]) = 0
         /\ HoldOf([type |-> "topup", amount |-> a]) = 0
         /\ NetOf([type |-> "topup", amount |-> a]) = a
         /\ HoldOf([type |-> "transfer_in", amount |-> a]) = 0
         /\ NetOf([type |-> "transfer_in", amount |-> a]) = a
         /\ HoldOf([type |-> "transfer_out", amount |-> a]) = 0
         /\ NetOf([type |-> "transfer_out", amount |-> a]) = a
         /\ HoldOf([type |-> "subscription", amount |-> a]) = 0
         /\ NetOf([type |-> "subscription", amount |-> a]) = a
BY DEF HoldOf, NetOf, Entry, Credits, Debits

\* An absent row contributes nothing; an open hold contributes its amount to
\* the frozen part and nothing to the balance.
LEMMA OldRow ==
  ASSUME TypeOK, NEW w \in Wallets, NEW k \in Keys
  PROVE  /\ balance[w] \in Int /\ frozen[w] \in Int
         /\ ledger[w][k].amount \in Int
         /\ Fresh(w, k) => HoldOf(ledger[w][k]) = 0 /\ NetOf(ledger[w][k]) = 0
         /\ Held(w, k) => /\ HoldOf(ledger[w][k]) = ledger[w][k].amount
                          /\ NetOf(ledger[w][k]) = 0
<1>1. ledger[w][k] \in Row
  BY DEF TypeOK
<1> QED
  BY <1>1, MaxAmountAssumption
     DEF TypeOK, Row, Fresh, Held, HoldOf, NetOf, Entry, TxTypes, Credits,
         Debits

\* Every operation of the repository keeps all wallets explained.
LEMMA ExplainedStep ==
  ASSUME TypeOK, TypeOK', Explained, [Next]_vars
  PROVE  Explained'
<1>1. ASSUME NEW w \in Wallets, NEW k \in Keys, NEW a \in Amounts,
             Reserve(w, k, a)
      PROVE  Explained'
  <2> DEFINE r == [type |-> "reserve", amount |-> a]
  <2>1. a \in Int
    BY DEF Amounts
  <2>2. ledger' = [ledger EXCEPT ![w][k] = r]
    BY <1>1 DEF Reserve, WriteRow
  <2>3. HoldOf(r) = a /\ NetOf(r) = 0
    BY <2>1, Contributions
  <2>4. HoldOf(ledger[w][k]) = 0 /\ NetOf(ledger[w][k]) = 0
    BY <1>1, OldRow DEF Reserve
  <2>5. /\ frozen'[w] = frozen[w] + a
        /\ balance'[w] = balance[w] + 0
    BY <1>1, OldRow DEF Reserve, Move, TypeOK
  <2> HIDE DEF r
  <2>6. /\ frozen'[w] = frozen[w] - HoldOf(ledger[w][k]) + HoldOf(r)
        /\ balance'[w] = balance[w] - NetOf(ledger[w][k]) + NetOf(r)
    BY <2>1, <2>3, <2>4, <2>5, OldRow
  <2> QED
    BY <1>1, <2>2, <2>6, ExplainedByRow DEF Reserve, Move, TypeOK
<1>2. ASSUME NEW w \in Wallets, NEW k \in Keys, NEW a \in Amounts,
             TopUp(w, k, a)
      PROVE  Explained'
  <2> DEFINE r == [type |-> "topup", amount |-> a]
  <2>1. a \in Int
    BY DEF Amounts
  <2>2. ledger' = [ledger EXCEPT ![w][k] = r]
    BY <1>2 DEF TopUp, WriteRow
  <2>3. HoldOf(r) = 0 /\ NetOf(r) = a
    BY <2>1, Contributions
  <2>4. HoldOf(ledger[w][k]) = 0 /\ NetOf(ledger[w][k]) = 0
    BY <1>2, OldRow DEF TopUp
  <2>5. /\ frozen'[w] = frozen[w] + 0
        /\ balance'[w] = balance[w] + a
    BY <1>2, OldRow DEF TopUp, Move, TypeOK
  <2> HIDE DEF r
  <2>6. /\ frozen'[w] = frozen[w] - HoldOf(ledger[w][k]) + HoldOf(r)
        /\ balance'[w] = balance[w] - NetOf(ledger[w][k]) + NetOf(r)
    BY <2>1, <2>3, <2>4, <2>5, OldRow
  <2> QED
    BY <1>2, <2>2, <2>6, ExplainedByRow DEF TopUp, Move, TypeOK
<1>3. ASSUME NEW v \in Wallets, NEW w \in Wallets, NEW k \in Keys,
             NEW a \in Amounts, Transfer(v, w, k, a)
      PROVE  Explained'
  <2>1. a \in Int /\ -a \in Int /\ v # w
    BY <1>3 DEF Amounts, Transfer
  <2>2. /\ ledger'[v][k] = [type |-> "transfer_out", amount |-> -a]
        /\ ledger'[w][k] = [type |-> "transfer_in", amount |-> a]
        /\ \A j \in Keys \ {k} : /\ ledger'[v][j] = ledger[v][j]
                                 /\ ledger'[w][j] = ledger[w][j]
        /\ \A u \in Wallets \ {v, w} : ledger'[u] = ledger[u]
    BY <1>3, <2>1 DEF Transfer, TypeOK
  <2>3. /\ frozen' = frozen
        /\ balance'[v] = balance[v] - a /\ balance'[w] = balance[w] + a
        /\ \A u \in Wallets \ {v, w} : balance'[u] = balance[u]
    BY <1>3, <2>1 DEF Transfer, TypeOK
  <2>4. OpenHolds(v)' = frozen[v] /\ LedgerNet(v)' = balance[v] - a
    <3>1. HoldOf(ledger'[v][k]) = 0 /\ NetOf(ledger'[v][k]) = -a
      BY <2>1, <2>2, Contributions
    <3>2. HoldOf(ledger[v][k]) = 0 /\ NetOf(ledger[v][k]) = 0
      BY <1>3, OldRow DEF Transfer
    <3>3. /\ OpenHolds(v)' = OpenHolds(v) - 0 + 0
          /\ LedgerNet(v)' = LedgerNet(v) - 0 + (-a)
      BY <2>2, <3>1, <3>2, RowWritten
    <3> QED
      BY <2>1, <3>3, OldRow DEF Explained, FrozenIsOpenHolds, BalanceIsLedgerNet
  <2>5. OpenHolds(w)' = frozen[w] /\ LedgerNet(w)' = balance[w] + a
    <3>1. HoldOf(ledger'[w][k]) = 0 /\ NetOf(ledger'[w][k]) = a
      BY <2>1, <2>2, Contributions, ZenonT(40)
    <3>2. HoldOf(ledger[w][k]) = 0 /\ NetOf(ledger[w][k]) = 0
      BY <1>3, OldRow DEF Transfer
    <3>3. /\ OpenHolds(w)' = OpenHolds(w) - 0 + 0
          /\ LedgerNet(w)' = LedgerNet(w) - 0 + (a)
      BY <2>2, <3>1, <3>2, RowWritten
    <3> QED
      BY <2>1, <3>3, OldRow DEF Explained, FrozenIsOpenHolds, BalanceIsLedgerNet
  <2>6. \A u \in Wallets \ {v, w} :
          OpenHolds(u)' = OpenHolds(u) /\ LedgerNet(u)' = LedgerNet(u)
    BY <2>2, RowsKept
  <2> QED
    BY <2>3, <2>4, <2>5, <2>6
       DEF Explained, FrozenIsOpenHolds, BalanceIsLedgerNet
<1>4. ASSUME NEW w \in Wallets, NEW k \in Keys, NEW a \in Amounts,
             Spend(w, k, a)
      PROVE  Explained'
  <2> DEFINE r == [type |-> "subscription", amount |-> -a]
  <2>1. a \in Int /\ -a \in Int
    BY DEF Amounts
  <2>2. ledger' = [ledger EXCEPT ![w][k] = r]
    BY <1>4 DEF Spend, WriteRow
  <2>3. HoldOf(r) = 0 /\ NetOf(r) = -a
    BY <2>1, Contributions
  <2>4. HoldOf(ledger[w][k]) = 0 /\ NetOf(ledger[w][k]) = 0
    BY <1>4, OldRow DEF Spend
  <2>5. /\ frozen'[w] = frozen[w] + 0
        /\ balance'[w] = balance[w] + (-a)
    BY <1>4, OldRow DEF Spend, Move, TypeOK
  <2> HIDE DEF r
  <2>6. /\ frozen'[w] = frozen[w] - HoldOf(ledger[w][k]) + HoldOf(r)
        /\ balance'[w] = balance[w] - NetOf(ledger[w][k]) + NetOf(r)
    BY <2>1, <2>3, <2>4, <2>5, OldRow
  <2> QED
    BY <1>4, <2>2, <2>6, ExplainedByRow DEF Spend, Move, TypeOK
<1>5. ASSUME NEW w \in Wallets, NEW k \in Keys, Commit(w, k)
      PROVE  Explained'
  <2> DEFINE r == [type |-> "charge", amount |-> ledger[w][k].amount]
  <2>1. ledger' = [ledger EXCEPT ![w][k] = r]
    BY <1>5 DEF Commit, WriteRow
  <2>2. HoldOf(r) = 0 /\ NetOf(r) = -ledger[w][k].amount
    BY OldRow, Contributions
  <2>3. HoldOf(ledger[w][k]) = ledger[w][k].amount /\ NetOf(ledger[w][k]) = 0
    BY <1>5, OldRow DEF Commit
  <2>4. /\ frozen'[w] = frozen[w] + (-ledger[w][k].amount)
        /\ balance'[w] = balance[w] + (-ledger[w][k].amount)
    BY <1>5, OldRow DEF Commit, Move, TypeOK
  <2> HIDE DEF r
  <2>5. /\ frozen'[w] = frozen[w] - HoldOf(ledger[w][k]) + HoldOf(r)
        /\ balance'[w] = balance[w] - NetOf(ledger[w][k]) + NetOf(r)
    BY <2>2, <2>3, <2>4, OldRow
  <2> QED
    BY <1>5, <2>1, <2>5, ExplainedByRow DEF Commit, Move, TypeOK
<1>6. ASSUME NEW w \in Wallets, NEW k \in Keys, NEW final \in 0 .. MaxAmount,
             Settle(w, k, final)
      PROVE  Explained'
  <2> DEFINE r == [type |-> "charge", amount |-> final]
  <2>1. final \in Int
    BY MaxAmountAssumption
  <2>2. ledger' = [ledger EXCEPT ![w][k] = r]
    BY <1>6 DEF Settle, WriteRow
  <2>3. HoldOf(r) = 0 /\ NetOf(r) = -final
    BY <2>1, Contributions
  <2>4. HoldOf(ledger[w][k]) = ledger[w][k].amount /\ NetOf(ledger[w][k]) = 0
    BY <1>6, OldRow DEF Settle
  <2>5. /\ frozen'[w] = frozen[w] + (-ledger[w][k].amount)
        /\ balance'[w] = balance[w] + (-final)
    BY <1>6, OldRow DEF Settle, Move, TypeOK
  <2> HIDE DEF r
  <2>6. /\ frozen'[w] = frozen[w] - HoldOf(ledger[w][k]) + HoldOf(r)
        /\ balance'[w] = balance[w] - NetOf(ledger[w][k]) + NetOf(r)
    BY <2>1, <2>3, <2>4, <2>5, OldRow
  <2> QED
    BY <1>6, <2>2, <2>6, ExplainedByRow DEF Settle, Move, TypeOK
<1>7. ASSUME NEW w \in Wallets, NEW k \in Keys, Release(w, k)
      PROVE  Explained'
  <2> DEFINE r == [type |-> "release", amount |-> ledger[w][k].amount]
  <2>1. ledger' = [ledger EXCEPT ![w][k] = r]
    BY <1>7 DEF Release, WriteRow
  <2>2. HoldOf(r) = 0 /\ NetOf(r) = 0
    BY OldRow, Contributions
  <2>3. HoldOf(ledger[w][k]) = ledger[w][k].amount /\ NetOf(ledger[w][k]) = 0
    BY <1>7, OldRow DEF Release
  <2>4. /\ frozen'[w] = frozen[w] + (-ledger[w][k].amount)
        /\ balance'[w] = balance[w] + 0
    BY <1>7, OldRow DEF Release, Move, TypeOK
  <2> HIDE DEF r
  <2>5. /\ frozen'[w] = frozen[w] - HoldOf(ledger[w][k]) + HoldOf(r)
        /\ balance'[w] = balance[w] - NetOf(ledger[w][k]) + NetOf(r)
    BY <2>2, <2>3, <2>4, OldRow
  <2> QED
    BY <1>7, <2>1, <2>5, ExplainedByRow DEF Release, Move, TypeOK
<1>8. CASE UNCHANGED vars
  BY <1>8, RowsKept
     DEF vars, Explained, FrozenIsOpenHolds, BalanceIsLedgerNet
<1> QED
  BY <1>1, <1>2, <1>3, <1>4, <1>5, <1>6, <1>7, <1>8
     DEF Next, MeteredNext, MeteredStep, Purchase
\* New wallets are empty, and so is their ledger.
LEMMA InitExplained == Init => TypeOK /\ Explained
<1> SUFFICES ASSUME Init PROVE TypeOK /\ Explained
  OBVIOUS
<1>1. TypeOK
  BY MaxAmountAssumption
     DEF Init, TypeOK, NoRow, Row, TxTypes, Credits, Debits
<1>2. ASSUME NEW w \in Wallets
      PROVE  OpenHolds(w) = 0 /\ LedgerNet(w) = 0
  <2> DEFINE zeros == [k \in Keys |-> 0]
  <2>1. Total(zeros, MaxAmount) = 0
    BY MaxAmountAssumption, TotalOfZeros
  <2>2. /\ Column(w, {"reserve"}, 1) = zeros
        /\ Column(w, {"charge"}, 1) = zeros
        /\ Column(w, Credits, 1) = zeros
        /\ Column(w, Debits, -1) = zeros
    BY DEF Init, NoRow, Column, Entry, Credits, Debits
  <2> QED
    BY <2>1, <2>2 DEF OpenHolds, LedgerNet, Charged, Credited, Debited, Sum
<1> QED
  BY <1>1, <1>2 DEF Init, Explained, FrozenIsOpenHolds, BalanceIsLedgerNet

\* W11: in every reachable state, whatever calls ran in whatever order, what is
\* frozen is the sum of the open holds and the balance is the ledger's net.
THEOREM LedgerExplainsWallet ==
  Spec => []LedgerExplainsColumns
<1>1. TypeOK /\ Explained /\ [Next]_vars => (TypeOK /\ Explained)'
  BY TypeStep, ExplainedStep
<1>2. TypeOK /\ Explained => LedgerExplainsColumns
  BY DEF Explained, LedgerExplainsColumns
<1> QED
  BY InitExplained, <1>1, <1>2, PTL DEF Spec

-----------------------------------------------------------------------------
(* W7, W8, W9: rows are final.                                             *)

\* A row is written when it is fresh or an open hold, and never otherwise.
LEMMA FinalRowsStep ==
  ASSUME TypeOK, [Next]_vars,
         NEW x \in Wallets, NEW y \in Keys, ~Fresh(x, y), ~Held(x, y)
  PROVE  ledger'[x][y] = ledger[x][y]
<1> USE DEF TypeOK, WriteRow
<1>1. ASSUME NEW w \in Wallets, NEW k \in Keys, NEW a \in Amounts,
             Reserve(w, k, a)
      PROVE  ledger'[x][y] = ledger[x][y]
  BY <1>1 DEF Reserve
<1>2. ASSUME NEW w \in Wallets, NEW k \in Keys, NEW a \in Amounts,
             TopUp(w, k, a)
      PROVE  ledger'[x][y] = ledger[x][y]
  BY <1>2 DEF TopUp
<1>3. ASSUME NEW v \in Wallets, NEW w \in Wallets, NEW k \in Keys,
             NEW a \in Amounts, Transfer(v, w, k, a)
      PROVE  ledger'[x][y] = ledger[x][y]
  BY <1>3 DEF Transfer
<1>4. ASSUME NEW w \in Wallets, NEW k \in Keys, Commit(w, k)
      PROVE  ledger'[x][y] = ledger[x][y]
  BY <1>4 DEF Commit
<1>5. ASSUME NEW w \in Wallets, NEW k \in Keys, NEW final \in 0 .. MaxAmount,
             Settle(w, k, final)
      PROVE  ledger'[x][y] = ledger[x][y]
  BY <1>5 DEF Settle
<1>6. ASSUME NEW w \in Wallets, NEW k \in Keys, Release(w, k)
      PROVE  ledger'[x][y] = ledger[x][y]
  BY <1>6 DEF Release
<1>7. ASSUME NEW w \in Wallets, NEW k \in Keys, NEW a \in Amounts,
             Spend(w, k, a)
      PROVE  ledger'[x][y] = ledger[x][y]
  BY <1>7 DEF Spend
<1>8. CASE UNCHANGED vars
  BY <1>8 DEF vars
<1> QED
  BY <1>1, <1>2, <1>3, <1>4, <1>5, <1>6, <1>7, <1>8
     DEF Next, MeteredNext, MeteredStep, Purchase

\* W7, W8, W9: whatever calls are repeated in whatever order, a row that is not
\* an open hold never changes again.
THEOREM RowsAreFinal == Spec => FinalRowsNeverChange
<1> DEFINE Kept ==
      \A w \in Wallets, k \in Keys :
        ~Fresh(w, k) /\ ~Held(w, k) => ledger'[w][k] = ledger[w][k]
<1>1. TypeOK /\ [Next]_vars => Kept
  BY FinalRowsStep
<1> QED
  BY <1>1, TypeCorrect, PTL DEF Spec, FinalRowsNeverChange

-----------------------------------------------------------------------------
(* W1, W2, W3: a wallet without purchases never goes negative.             *)

AvailableOK == \A w \in Wallets : ~Purchased(w) => Available(w) >= 0

\* A purchase is never forgotten, because its row is final.
LEMMA PurchasedStays ==
  ASSUME TypeOK, [Next]_vars, NEW w \in Wallets, Purchased(w)
  PROVE  Purchased(w)'
<1>1. PICK k \in Keys : ledger[w][k].type = "subscription"
  BY DEF Purchased
<1>2. ledger'[w][k] = ledger[w][k]
  BY <1>1, FinalRowsStep DEF Fresh, Held
<1> QED
  BY <1>1, <1>2 DEF Purchased

\* What is available to a wallet only drops under a step that compared with it,
\* or under a purchase.
LEMMA AvailableStep ==
  ASSUME TypeOK, TypeOK', AvailableOK, [Next]_vars
  PROVE  AvailableOK'
<1> SUFFICES ASSUME NEW x \in Wallets, ~Purchased(x)' PROVE Available(x)' >= 0
  BY DEF AvailableOK
<1>0. Available(x) >= 0
  BY PurchasedStays DEF AvailableOK
<1> USE <1>0, MaxAmountAssumption DEF Available, TypeOK, Move
<1>1. ASSUME NEW w \in Wallets, NEW k \in Keys, NEW a \in Amounts,
             Reserve(w, k, a)
      PROVE  Available(x)' >= 0
  BY <1>1 DEF Reserve, Amounts
<1>2. ASSUME NEW w \in Wallets, NEW k \in Keys, NEW a \in Amounts,
             TopUp(w, k, a)
      PROVE  Available(x)' >= 0
  BY <1>2 DEF TopUp, Amounts
<1>3. ASSUME NEW v \in Wallets, NEW w \in Wallets, NEW k \in Keys,
             NEW a \in Amounts, Transfer(v, w, k, a)
      PROVE  Available(x)' >= 0
  BY <1>3, SMTT(40) DEF Transfer, Amounts
<1>4. ASSUME NEW w \in Wallets, NEW k \in Keys, Commit(w, k)
      PROVE  Available(x)' >= 0
  BY <1>4, OldRow DEF Commit
<1>5. ASSUME NEW w \in Wallets, NEW k \in Keys, NEW final \in 0 .. MaxAmount,
             Settle(w, k, final)
      PROVE  Available(x)' >= 0
  BY <1>5, OldRow DEF Settle
<1>6. ASSUME NEW w \in Wallets, NEW k \in Keys, Release(w, k)
      PROVE  Available(x)' >= 0
  <2>1. ledger[w][k] \in Row /\ ledger[w][k].type = "reserve"
    BY <1>6 DEF Release, Held
  <2>2. ledger[w][k].amount \in 0 .. MaxAmount
    BY <2>1 DEF Row, Debits
  <2> QED
    BY <1>6, <2>2 DEF Release
<1>7. ASSUME NEW w \in Wallets, NEW k \in Keys, NEW a \in Amounts,
             Spend(w, k, a)
      PROVE  Available(x)' >= 0
  <2>1. Purchased(w)'
    BY <1>7 DEF Spend, WriteRow, Purchased
  <2>2. x # w
    BY <2>1
  <2> QED
    BY <1>7, <2>2 DEF Spend
<1>8. CASE UNCHANGED vars
  BY <1>8 DEF vars
<1> QED
  BY <1>1, <1>2, <1>3, <1>4, <1>5, <1>6, <1>7, <1>8
     DEF Next, MeteredNext, MeteredStep, Purchase

\* Frozen is a sum of amounts, so it is nonnegative; with what is available
\* nonnegative too, so is the balance.
LEMMA NonNegativeFromInvariant ==
  ASSUME TypeOK, Explained, AvailableOK
  PROVE  MeteredNeverNegative
<1> SUFFICES ASSUME NEW w \in Wallets, ~Purchased(w) PROVE NonNegative(w)
  BY DEF MeteredNeverNegative
<1> DEFINE f == [k \in Keys |-> Entry(ledger[w][k], {"reserve"}, 1)]
<1>1. f \in [Keys -> Int]
  BY MaxAmountAssumption, EntryRange DEF TypeOK
<1>2. Total(f, MaxAmount) \in Nat
  BY <1>1, KeysAssumption, MaxAmountAssumption, TotalIsNat
<1>3. frozen[w] \in Nat
  BY <1>2 DEF Explained, FrozenIsOpenHolds, OpenHolds, Sum, Column
<1> QED
  BY <1>3 DEF AvailableOK, Available, NonNegative, TypeOK

\* W1, W2, W3: neither the balance, nor the frozen part, nor what is available
\* of a wallet that paid for no subscription ever goes negative.
THEOREM MeteredWalletsNeverNegative == Spec => []MeteredNeverNegative
<1> DEFINE IInv == TypeOK /\ Explained /\ AvailableOK
<1>1. Init => IInv
  BY InitExplained DEF Init, AvailableOK, Available
<1>2. IInv /\ [Next]_vars => IInv'
  BY TypeStep, ExplainedStep, AvailableStep
<1>3. IInv => MeteredNeverNegative
  BY NonNegativeFromInvariant
<1> QED
  BY <1>1, <1>2, <1>3, PTL DEF Spec
-----------------------------------------------------------------------------
(* Credits: codes, check-ins and rewards.                                  *)

Redeeming == {"lock", "credit", "commit"}
Places == Redeeming \cup {"idle", "reward", "note", "invite", "inviter", "write", "end"}

\* What a handler is about at each place of its call: a code and the wallet that
\* redeems it, which holds the code's lock once it was found active; a check-in,
\* which is noted only when it was paid; an invitation, whose inviter comes
\* after the invited was paid; the connection of a log entry.
Consistent(h) ==
  LET w == call[h].wallet  k == call[h].key  pc == call[h].pc IN
  /\ pc \in Redeeming => w \in Wallets /\ k \in KeyOf("code")
  /\ pc \in {"credit", "commit"} => lock[k] = h /\ code[k] = "active"
  /\ pc \in {"reward", "note"} => w \in Wallets /\ k \in KeyOf("day")
  /\ pc \in {"invite", "inviter"} => w \in Wallets /\ k \in KeyOf("invite")
  /\ pc \in {"commit", "note", "inviter"} => Paid(w, k)

\* A lock is held by the redemption of that code, past its check.
LockHeld(c) ==
  lock[c] # Nobody => \E h \in Handlers :
    lock[c] = h /\ call[h].pc \in {"credit", "commit"} /\ call[h].key = c

\* Until a redemption breaks off, a code that is not used has paid only the
\* wallet whose redemption is about to commit, and a used one paid one wallet.
CodePays(c) ==
  /\ code[c] = "used" => \E w \in Wallets : Paid(w, c)
  /\ c \notin broken =>
       /\ \A v, w \in Wallets : Paid(v, c) /\ Paid(w, c) => v = w
       /\ code[c] # "used" => \A w \in Wallets : Paid(w, c) =>
            \E h \in Handlers : At(h, "commit") /\ call[h].key = c /\ call[h].wallet = w

NotedArePaid == \A n \in checkins : Paid(n[1], n[2])

InvitersFollow ==
  \A v \in Wallets, k \in KeyOf("inviter") : Paid(v, k) =>
    \E p \in invited, j \in KeyOf("invite") : p[2] = v /\ Paid(p[1], j)

\* The connections that are not free are those of transactions.
Using == {h \in Handlers : call[h].pc \in Redeeming \cup {"write", "end"}}
PoolCounts == pool = size - Cardinality(Using)

Jobs == [pc : Places, wallet : Wallets \cup {Nobody}, key : Keys \cup {Nobody}]

CreditsTyped ==
  /\ kind \in Layouts \cup {Plain} /\ size \in Nat
  /\ call \in [Handlers -> Jobs]
  /\ DOMAIN code = Keys /\ DOMAIN lock = Keys
  /\ invited \subseteq Wallets \X Wallets /\ checkins \subseteq Wallets \X Keys

Earned ==
  /\ \A h \in Handlers : Consistent(h)
  /\ \A c \in Keys : LockHeld(c)
  /\ \A c \in KeyOf("code") : CodePays(c)
  /\ NotedArePaid /\ InvitersFollow

Resting == \A h \in Handlers : call[h].pc = "idle"

CIInv ==
  /\ TypeOK /\ CreditsTyped /\ PoolCounts
  /\ IF kind = Plain THEN Resting ELSE Earned

\* The calls of the handlers other than h stay what they are.
OthersIdle(h) == \A g \in Handlers \ {h} : call'[g] = call[g]

LEMMA CallMoves ==
  ASSUME call \in [Handlers -> Jobs], NEW h \in Handlers, NEW pc \in Places, Go(h, pc)
  PROVE  /\ call' \in [Handlers -> Jobs] /\ OthersIdle(h)
         /\ call'[h].pc = pc
         /\ call'[h].wallet = call[h].wallet /\ call'[h].key = call[h].key
<1>1. call[h] \in Jobs
  OBVIOUS
<1>2. call'[h] = [call[h] EXCEPT !.pc = pc] /\ DOMAIN call' = Handlers /\ OthersIdle(h)
  BY DEF Go, OthersIdle
<1>3. [call[h] EXCEPT !.pc = pc] = [pc |-> pc, wallet |-> call[h].wallet, key |-> call[h].key]
  BY <1>1 DEF Jobs
<1>4. call'[h] \in Jobs
  BY <1>1, <1>2, <1>3 DEF Jobs
<1>5. call' \in [Handlers -> Jobs]
  BY <1>4 DEF Go
<1> QED
  BY <1>2, <1>3, <1>5

LEMMA CallStarts ==
  ASSUME call \in [Handlers -> Jobs], NEW h \in Handlers, NEW pc \in Places,
         NEW w \in Wallets, NEW k \in Keys, Start(h, pc, w, k)
  PROVE  /\ call' \in [Handlers -> Jobs] /\ OthersIdle(h)
         /\ call'[h].pc = pc /\ call'[h].wallet = w /\ call'[h].key = k
<1>1. [pc |-> pc, wallet |-> w, key |-> k] \in Jobs
  BY DEF Jobs
<1> QED
  BY <1>1 DEF Start, OthersIdle

LEMMA CallEnds ==
  ASSUME call \in [Handlers -> Jobs], NEW h \in Handlers, Done(h)
  PROVE  /\ call' \in [Handlers -> Jobs] /\ OthersIdle(h) /\ call'[h].pc = "idle"
<1>1. Idle \in Jobs /\ Idle.pc = "idle"
  BY DEF Idle, Jobs, Places
<1> QED
  BY <1>1 DEF Done, OthersIdle

\* What a credit pays, and that it is an operation of the wallet.
LEMMA CreditPays ==
  ASSUME TypeOK, NEW w \in Wallets, NEW k \in Keys, NEW a \in Amounts, Credit(w, k, a)
  PROVE  /\ [Next]_vars
         /\ Paid(w, k)'
         /\ \A v \in Wallets, j \in Keys : Paid(v, j) => Paid(v, j)'
         /\ \A v \in Wallets, j \in Keys : Paid(v, j)' => Paid(v, j) \/ (v = w /\ j = k)
<1>1. CASE Fresh(w, k) /\ TopUp(w, k, a)
  <2>1. [Next]_vars
    BY <1>1 DEF Next, MeteredNext, MeteredStep
  <2>2. ledger' = [ledger EXCEPT ![w][k] = [type |-> "topup", amount |-> a]]
    BY <1>1 DEF TopUp, WriteRow
  <2>3. \A v \in Wallets, j \in Keys :
          ledger'[v][j] = IF v = w /\ j = k THEN [type |-> "topup", amount |-> a] ELSE ledger[v][j]
    BY <2>2 DEF TypeOK
  <2> QED
    BY <2>1, <2>3 DEF Paid, Fresh
<1>2. CASE ~Fresh(w, k) /\ UNCHANGED vars
  BY <1>2 DEF Paid, Fresh, vars
<1> QED
  BY <1>1, <1>2 DEF Credit

\* The keys of one kind are at most one, and those of two kinds are different.
LEMMA KeysApart ==
  ASSUME NEW s, NEW t, s # t
  PROVE  /\ KeyOf(s) \subseteq Keys
         /\ KeyOf(s) \cap KeyOf(t) = {}
BY DEF KeyOf

\* A step leaves alone what the others hold and are paid.
LEMMA OthersConsistent ==
  ASSUME NEW g \in Handlers, Consistent(g), call'[g] = call[g], kind' = kind,
         \A v \in Wallets, j \in Keys : Paid(v, j) => Paid(v, j)',
         \A c \in Keys : lock[c] = g /\ code[c] = "active" => lock'[c] = g /\ code'[c] = "active"
  PROVE  Consistent(g)'
<1>1. \A t : KeyOf(t)' = KeyOf(t) /\ KeyOf(t) \subseteq Keys
  BY DEF KeyOf
<1> QED
  BY <1>1 DEF Consistent, Redeeming

\* Steps of calls that redeem no code, and of redemptions before the code is
\* locked: what is paid is no code's.
LEMMA Quiet ==
  ASSUME CreditsTyped, Earned, NEW h \in Handlers,
         kind' = kind, lock' = lock, code' = code, broken' = broken,
         call[h].pc \notin {"credit", "commit"}, OthersIdle(h),
         Consistent(h)', NotedArePaid', InvitersFollow',
         \A v \in Wallets, j \in Keys : Paid(v, j) => Paid(v, j)',
         \A v \in Wallets, j \in KeyOf("code") : Paid(v, j)' => Paid(v, j)
  PROVE  Earned'
<1>1. \A g \in Handlers : Consistent(g)'
  BY OthersConsistent DEF Earned, OthersIdle
<1>2. \A c \in Keys : LockHeld(c)'
  BY DEF Earned, LockHeld, OthersIdle
<1>3. ASSUME NEW c \in KeyOf("code")' PROVE CodePays(c)'
  <2>1. c \in KeyOf("code") /\ c \in Keys
    BY DEF KeyOf
  <2>2. \A w \in Wallets : Paid(w, c)' <=> Paid(w, c)
    BY <2>1
  <2>3. CodePays(c)
    BY <2>1 DEF Earned
  <2>4. \A g \in Handlers : At(g, "commit") => g # h /\ call'[g] = call[g]
    BY DEF At, OthersIdle
  <2> QED
    BY <2>2, <2>3, <2>4 DEF CodePays, At
<1> QED
  BY <1>1, <1>2, <1>3 DEF Earned

LEMMA NotedStay ==
  ASSUME CreditsTyped, Earned, checkins' = checkins,
         \A v \in Wallets, j \in Keys : Paid(v, j) => Paid(v, j)'
  PROVE  NotedArePaid'
<1>1. \A n \in checkins : n[1] \in Wallets /\ n[2] \in Keys
  BY DEF CreditsTyped
<1> QED
  BY <1>1 DEF Earned, NotedArePaid

LEMMA InvitersStay ==
  ASSUME CreditsTyped, Earned, kind' = kind, invited \subseteq invited',
         \A v \in Wallets, j \in Keys : Paid(v, j) => Paid(v, j)',
         \A v \in Wallets, j \in KeyOf("inviter") : Paid(v, j)' => Paid(v, j)
  PROVE  InvitersFollow'
<1>1. \A p \in invited : p[1] \in Wallets
  BY DEF CreditsTyped
<1>2. KeyOf("inviter")' = KeyOf("inviter") /\ KeyOf("invite")' = KeyOf("invite")
      /\ KeyOf("invite") \subseteq Keys
  BY DEF KeyOf
<1> SUFFICES ASSUME NEW v \in Wallets, NEW k \in KeyOf("inviter"), Paid(v, k)'
             PROVE  \E p \in invited', j \in KeyOf("invite") : p[2] = v /\ Paid(p[1], j)'
  BY <1>2 DEF InvitersFollow
<1>3. PICK p \in invited, j \in KeyOf("invite") : p[2] = v /\ Paid(p[1], j)
  BY DEF Earned, InvitersFollow
<1> QED
  BY <1>1, <1>2, <1>3
\* A step that credits nothing and writes no table.
LEMMA Silent ==
  ASSUME CreditsTyped, Earned, NEW h \in Handlers,
         UNCHANGED <<ledger, kind, lock, code, broken, checkins, invited>>,
         call[h].pc \notin {"credit", "commit"}, OthersIdle(h), Consistent(h)'
  PROVE  Earned'
<1>1. \A v, j : Paid(v, j)' <=> Paid(v, j)
  BY DEF Paid, Fresh
<1>2. NotedArePaid' /\ InvitersFollow'
  <2>1. \A v \in Wallets, j \in Keys : Paid(v, j) => Paid(v, j)'
    BY <1>1
  <2>2. \A v \in Wallets, j \in KeyOf("inviter") : Paid(v, j)' => Paid(v, j)
    BY <1>1
  <2> QED
    BY <2>1, <2>2, NotedStay, InvitersStay
<1> QED
  BY <1>1, <1>2, Quiet

\* What a call is about stays what it is, and what it was paid stays paid.
LEMMA SilentSteps ==
  ASSUME CreditsTyped, Earned, NEW h \in Handlers,
         \/ \E w \in Wallets, c \in KeyOf("code") : BeginRedeem(h, w, c)
         \/ \E w \in Wallets, d \in KeyOf("day") : CheckIn(h, w, d)
         \/ BreakCheckIn(h) \/ BreakInvite(h)
         \/ BeginRecord(h) \/ WriteRecord(h) \/ EndRecord(h)
  PROVE  Earned' /\ call' \in [Handlers -> Jobs]
<1> USE DEF CreditsTyped
<1>0. UNCHANGED <<ledger, kind, lock, code, broken, checkins, invited>>
  BY DEF BeginRedeem, CheckIn, BreakCheckIn, BreakInvite, BeginRecord, WriteRecord,
         EndRecord, vars
<1>1. \A t : KeyOf(t)' = KeyOf(t) /\ KeyOf(t) \subseteq Keys
  BY <1>0 DEF KeyOf
<1>2. ASSUME NEW w \in Wallets, NEW c \in KeyOf("code"), BeginRedeem(h, w, c)
      PROVE  Earned' /\ call' \in [Handlers -> Jobs]
  <2>1. Start(h, "lock", w, c) /\ call[h].pc = "idle" /\ c \in Keys /\ "lock" \in Places
    BY <1>1, <1>2 DEF BeginRedeem, At, Places, Redeeming
  <2>2. /\ call' \in [Handlers -> Jobs] /\ OthersIdle(h)
        /\ call'[h].pc = "lock" /\ call'[h].wallet = w /\ call'[h].key = c
    BY <2>1, CallStarts
  <2>3. Consistent(h)'
    BY <1>1, <2>2 DEF Consistent, Redeeming
  <2> QED
    BY <1>0, <2>1, <2>2, <2>3, Silent
<1>3. ASSUME NEW w \in Wallets, NEW d \in KeyOf("day"), CheckIn(h, w, d)
      PROVE  Earned' /\ call' \in [Handlers -> Jobs]
  <2>1. Start(h, "reward", w, d) /\ call[h].pc = "idle" /\ d \in Keys /\ "reward" \in Places
    BY <1>1, <1>3 DEF CheckIn, At, Places
  <2>2. /\ call' \in [Handlers -> Jobs] /\ OthersIdle(h)
        /\ call'[h].pc = "reward" /\ call'[h].wallet = w /\ call'[h].key = d
    BY <2>1, CallStarts
  <2>3. Consistent(h)'
    BY <1>1, <2>2 DEF Consistent, Redeeming
  <2> QED
    BY <1>0, <2>1, <2>2, <2>3, Silent
<1>4. ASSUME BreakCheckIn(h) \/ BreakInvite(h) \/ EndRecord(h)
      PROVE  Earned' /\ call' \in [Handlers -> Jobs]
  <2>1. Done(h) /\ call[h].pc \notin {"credit", "commit"}
    BY <1>4 DEF BreakCheckIn, BreakInvite, EndRecord, At
  <2>2. call' \in [Handlers -> Jobs] /\ OthersIdle(h) /\ call'[h].pc = "idle"
    BY <2>1, CallEnds
  <2>3. Consistent(h)'
    BY <2>2 DEF Consistent, Redeeming
  <2> QED
    BY <1>0, <2>1, <2>2, <2>3, Silent
<1>5. ASSUME NEW pc \in {"write", "end"}, Go(h, pc), call[h].pc \in {"idle", "write"}
      PROVE  Earned' /\ call' \in [Handlers -> Jobs]
  <2>1. pc \in Places
    BY DEF Places
  <2>2. call' \in [Handlers -> Jobs] /\ OthersIdle(h) /\ call'[h].pc = pc
    BY <1>5, <2>1, CallMoves
  <2>3. Consistent(h)'
    BY <2>2 DEF Consistent, Redeeming
  <2> QED
    BY <1>0, <1>5, <2>2, <2>3, Silent
<1> QED
  BY <1>2, <1>3, <1>4, <1>5 DEF BeginRecord, WriteRecord, At

\* Rewards: of a check-in, of an invited user, and the demo's top-up.
LEMMA RewardSteps ==
  ASSUME TypeOK, CreditsTyped, Earned, NEW h \in Handlers,
         \/ Reward(h) \/ RewardInvited(h)
         \/ \E w \in Wallets, k \in KeyOf("client") : HandleTopUp(h, w, k)
  PROVE  Earned' /\ call' \in [Handlers -> Jobs] /\ [Next]_vars
<1> USE DEF CreditsTyped
<1>0. UNCHANGED <<kind, lock, code, broken, checkins, invited>>
  BY DEF Reward, RewardInvited, HandleTopUp
<1>1. \A t : KeyOf(t)' = KeyOf(t) /\ KeyOf(t) \subseteq Keys
  BY <1>0 DEF KeyOf
<1>2. InviteReward \in Amounts /\ CheckinReward = Amounts
  BY MaxAmountAssumption DEF InviteReward, CheckinReward, Amounts
<1>3. ASSUME NEW w \in Wallets, NEW s \in {"day", "invite", "client"}, NEW k \in KeyOf(s),
             NEW a \in Amounts, Credit(w, k, a),
             call[h].pc \notin {"credit", "commit"}, OthersIdle(h),
             Paid(w, k)' => Consistent(h)'
      PROVE  Earned' /\ [Next]_vars
  <2>1. k \in Keys /\ k \notin KeyOf("code") /\ k \notin KeyOf("inviter")
    BY KeysApart
  <2>2. /\ [Next]_vars /\ Paid(w, k)'
        /\ \A v \in Wallets, j \in Keys : Paid(v, j) => Paid(v, j)'
        /\ \A v \in Wallets, j \in Keys : Paid(v, j)' => Paid(v, j) \/ (v = w /\ j = k)
    BY <1>3, <2>1, CreditPays
  <2>3. \A v \in Wallets, j \in KeyOf("code") \cup KeyOf("inviter") : Paid(v, j)' => Paid(v, j)
    BY <1>1, <2>1, <2>2
  <2>4. NotedArePaid' /\ InvitersFollow'
    BY <1>0, <2>2, <2>3, NotedStay, InvitersStay
  <2> QED
    BY <1>0, <1>3, <2>2, <2>3, <2>4, Quiet
<1>4. Consistent(h)
  BY DEF Earned
<1>5. CASE Reward(h)
  <2>1. Go(h, "note") /\ call[h].pc = "reward" /\ "note" \in Places
    BY <1>5 DEF Reward, At, Places
  <2>2. call[h].wallet \in Wallets /\ call[h].key \in KeyOf("day")
    BY <1>4, <2>1 DEF Consistent
  <2>3. /\ call' \in [Handlers -> Jobs] /\ OthersIdle(h)
        /\ call'[h].pc = "note" /\ call'[h].wallet = call[h].wallet /\ call'[h].key = call[h].key
    BY <2>1, CallMoves
  <2>4. Paid(call[h].wallet, call[h].key)' => Consistent(h)'
    <3> DEFINE w == call[h].wallet  k == call[h].key
    <3>1. call[h].wallet' = w /\ call[h].key' = k
      BY <2>3
    <3> QED
      BY <1>1, <2>2, <2>3, <3>1 DEF Consistent, Redeeming, Paid, Fresh
  <2>5. PICK a \in Amounts : Credit(call[h].wallet, call[h].key, a)
    BY <1>2, <1>5 DEF Reward
  <2> QED
    BY <1>3, <2>1, <2>2, <2>3, <2>4, <2>5
<1>6. CASE RewardInvited(h)
  <2>1. Go(h, "inviter") /\ call[h].pc = "invite" /\ "inviter" \in Places
    BY <1>6 DEF RewardInvited, At, Places
  <2>2. call[h].wallet \in Wallets /\ call[h].key \in KeyOf("invite")
    BY <1>4, <2>1 DEF Consistent
  <2>3. /\ call' \in [Handlers -> Jobs] /\ OthersIdle(h)
        /\ call'[h].pc = "inviter" /\ call'[h].wallet = call[h].wallet /\ call'[h].key = call[h].key
    BY <2>1, CallMoves
  <2>4. Paid(call[h].wallet, call[h].key)' => Consistent(h)'
    BY <1>1, <2>2, <2>3 DEF Consistent, Redeeming, Paid, Fresh
  <2>5. Credit(call[h].wallet, call[h].key, InviteReward)
    BY <1>6 DEF RewardInvited
  <2> QED
    BY <1>2, <1>3, <2>1, <2>2, <2>3, <2>4, <2>5
<1>7. ASSUME NEW w \in Wallets, NEW k \in KeyOf("client"), HandleTopUp(h, w, k)
      PROVE  Earned' /\ call' \in [Handlers -> Jobs] /\ [Next]_vars
  <2>1. call[h].pc = "idle" /\ call' = call
    BY <1>7 DEF HandleTopUp, At
  <2>2. OthersIdle(h) /\ Consistent(h)'
    BY <2>1 DEF OthersIdle, Consistent, Redeeming
  <2>3. PICK a \in Amounts : Credit(w, k, a)
    BY <1>7 DEF HandleTopUp
  <2> QED
    BY <1>3, <2>1, <2>2, <2>3
<1> QED
  BY <1>5, <1>6, <1>7

\* A check-in is noted once it was paid.
LEMMA NoteStep ==
  ASSUME CreditsTyped, Earned, NEW h \in Handlers, NoteCheckIn(h)
  PROVE  Earned' /\ call' \in [Handlers -> Jobs] /\ checkins' \subseteq Wallets \X Keys
<1> USE DEF CreditsTyped
<1>1. /\ UNCHANGED <<ledger, kind, lock, code, broken, invited>>
      /\ checkins' = checkins \cup {<<call[h].wallet, call[h].key>>}
      /\ Done(h) /\ call[h].pc = "note"
  BY DEF NoteCheckIn, At, vars
<1>2. call' \in [Handlers -> Jobs] /\ OthersIdle(h) /\ call'[h].pc = "idle"
  BY <1>1, CallEnds
<1>3. /\ call[h].wallet \in Wallets /\ call[h].key \in Keys
      /\ Paid(call[h].wallet, call[h].key)
  BY <1>1, KeysApart DEF Earned, Consistent, KeyOf
<1>4. \A v, j : Paid(v, j)' <=> Paid(v, j)
  BY <1>1 DEF Paid, Fresh
<1>5. NotedArePaid'
  BY <1>1, <1>3, <1>4 DEF Earned, NotedArePaid
<1>6. InvitersFollow'
  <2>1. \A v \in Wallets, j \in Keys : Paid(v, j) => Paid(v, j)'
    BY <1>4
  <2>2. \A v \in Wallets, j \in KeyOf("inviter") : Paid(v, j)' => Paid(v, j)
    BY <1>4
  <2> QED
    BY <1>1, <2>1, <2>2, InvitersStay
<1>7. Consistent(h)'
  BY <1>2 DEF Consistent, Redeeming
<1>8. Earned'
  BY <1>1, <1>2, <1>4, <1>5, <1>6, <1>7, Quiet
<1> QED
  BY <1>1, <1>2, <1>3, <1>8

\* An invitation is remembered; its rewards follow.
LEMMA InviteStep ==
  ASSUME CreditsTyped, Earned, NEW h \in Handlers, NEW w \in Wallets, NEW v \in Wallets,
         Invite(h, w, v)
  PROVE  Earned' /\ call' \in [Handlers -> Jobs] /\ invited' \subseteq Wallets \X Wallets
<1> USE DEF CreditsTyped
<1>1. /\ UNCHANGED <<ledger, kind, lock, code, broken, checkins>>
      /\ invited' = invited \cup {<<w, v>>}
      /\ call[h].pc = "idle"
  BY DEF Invite, At, vars
<1>2. PICK k \in KeyOf("invite") : Start(h, "invite", w, k)
  BY DEF Invite
<1>3. k \in Keys /\ "invite" \in Places
  BY DEF KeyOf, Places
<1>4. /\ call' \in [Handlers -> Jobs] /\ OthersIdle(h)
      /\ call'[h].pc = "invite" /\ call'[h].wallet = w /\ call'[h].key = k
  BY <1>2, <1>3, CallStarts
<1>5. Consistent(h)'
  BY <1>1, <1>4 DEF Consistent, Redeeming, KeyOf
<1>6. \A u, j : Paid(u, j)' <=> Paid(u, j)
  BY <1>1 DEF Paid, Fresh
<1>7. NotedArePaid' /\ InvitersFollow'
  <2>1. \A u \in Wallets, j \in Keys : Paid(u, j) => Paid(u, j)'
    BY <1>6
  <2>2. \A u \in Wallets, j \in KeyOf("inviter") : Paid(u, j)' => Paid(u, j)
    BY <1>6
  <2> QED
    BY <1>1, <2>1, <2>2, NotedStay, InvitersStay
<1>8. Earned'
  BY <1>1, <1>4, <1>5, <1>6, <1>7, Quiet
<1> QED
  BY <1>1, <1>4, <1>8

\* The inviter is paid for an invited user who was paid.
LEMMA InviterStep ==
  ASSUME TypeOK, CreditsTyped, Earned, NEW h \in Handlers, RewardInviter(h)
  PROVE  Earned' /\ call' \in [Handlers -> Jobs] /\ [Next]_vars
<1> USE DEF CreditsTyped
<1>1. UNCHANGED <<kind, lock, code, broken, checkins, invited>>
      /\ Done(h) /\ call[h].pc = "inviter"
  BY DEF RewardInviter, At
<1>2. PICK p \in invited, k \in KeyOf("inviter") :
        p[1] = call[h].wallet /\ Credit(p[2], k, InviteReward)
  BY DEF RewardInviter
<1>3. \A t : KeyOf(t)' = KeyOf(t) /\ KeyOf(t) \subseteq Keys
  BY <1>1 DEF KeyOf
<1>4. /\ p[1] \in Wallets /\ p[2] \in Wallets /\ k \in Keys
      /\ InviteReward \in Amounts
      /\ call[h].key \in KeyOf("invite") /\ Paid(p[1], call[h].key)
  <2>1. InviteReward \in Amounts
    BY MaxAmountAssumption DEF InviteReward, Amounts
  <2>2. call[h].key \in KeyOf("invite") /\ Paid(p[1], call[h].key)
    BY <1>1, <1>2 DEF Earned, Consistent
  <2>3. p[1] \in Wallets /\ p[2] \in Wallets /\ k \in Keys
    BY <1>3
  <2> QED
    BY <2>1, <2>2, <2>3
<1>5. /\ [Next]_vars
      /\ \A v \in Wallets, j \in Keys : Paid(v, j) => Paid(v, j)'
      /\ \A v \in Wallets, j \in Keys : Paid(v, j)' => Paid(v, j) \/ (v = p[2] /\ j = k)
  BY <1>2, <1>4, CreditPays
<1>6. call' \in [Handlers -> Jobs] /\ OthersIdle(h) /\ call'[h].pc = "idle"
  BY <1>1, CallEnds
<1>7. Consistent(h)'
  BY <1>6 DEF Consistent, Redeeming
<1>8. NotedArePaid'
  BY <1>1, <1>5, NotedStay
<1>9. InvitersFollow'
  <2> SUFFICES ASSUME NEW v \in Wallets, NEW i \in KeyOf("inviter"), Paid(v, i)'
               PROVE  \E q \in invited, j \in KeyOf("invite") : q[2] = v /\ Paid(q[1], j)'
    BY <1>1, <1>3 DEF InvitersFollow
  <2>1. CASE v = p[2]
    BY <1>3, <1>4, <1>5, <2>1
  <2>2. CASE v # p[2]
    <3>1. Paid(v, i)
      BY <1>3, <1>5, <2>2
    <3>2. PICK q \in invited, j \in KeyOf("invite") : q[2] = v /\ Paid(q[1], j)
      BY <3>1 DEF Earned, InvitersFollow
    <3> QED
      BY <1>3, <1>5, <3>2
  <2> QED
    BY <2>1, <2>2
<1>10. \A v \in Wallets, j \in KeyOf("code") : Paid(v, j)' => Paid(v, j)
  BY <1>3, <1>5, KeysApart
<1>11. Earned'
  BY <1>1, <1>5, <1>6, <1>7, <1>8, <1>9, <1>10, Quiet
<1> QED
  BY <1>5, <1>6, <1>11
\* The tables of check-ins and invitations are left alone.
LEMMA OthersPaid ==
  ASSUME CreditsTyped, Earned, kind' = kind, checkins' = checkins, invited' = invited,
         \A v \in Wallets, j \in Keys : Paid(v, j) => Paid(v, j)',
         \A v \in Wallets, j \in KeyOf("inviter") : Paid(v, j)' => Paid(v, j)
  PROVE  NotedArePaid' /\ InvitersFollow'
BY NotedStay, InvitersStay

\* A new code pays nobody before it is redeemed.
LEMMA CreateStep ==
  ASSUME CreditsTyped, Earned, NEW h \in Handlers, NEW c \in KeyOf("code"),
         HandleCreateRedemption(h, c)
  PROVE  Earned' /\ DOMAIN code' = Keys
<1> USE DEF CreditsTyped
<1>1. /\ UNCHANGED <<ledger, kind, lock, broken, checkins, invited, call>>
      /\ code[c] = "none" /\ code' = [code EXCEPT ![c] = "active"]
  BY DEF HandleCreateRedemption, vars
<1>2. \A v, j : Paid(v, j)' <=> Paid(v, j)
  BY <1>1 DEF Paid, Fresh
<1>3. NotedArePaid' /\ InvitersFollow'
  <2>1. \A v \in Wallets, j \in KeyOf("inviter") : Paid(v, j)' => Paid(v, j)
    BY <1>2
  <2> QED
    BY <1>1, <1>2, <2>1, OthersPaid
<1>4. ASSUME NEW g \in Handlers PROVE Consistent(g)'
  <2>1. \A d \in Keys : lock[d] = g /\ code[d] = "active" => lock'[d] = g /\ code'[d] = "active"
    BY <1>1
  <2> QED
    BY <1>1, <1>2, <2>1, OthersConsistent DEF Earned
<1>5. \A d \in Keys : LockHeld(d)'
  BY <1>1 DEF Earned, LockHeld
<1>6. ASSUME NEW d \in KeyOf("code")' PROVE CodePays(d)'
  <2>1. d \in KeyOf("code") /\ d \in Keys
    BY <1>1 DEF KeyOf
  <2>2. CodePays(d) /\ code'[d] = IF d = c THEN "active" ELSE code[d]
    BY <1>1, <2>1 DEF Earned
  <2>3. code'[d] = "used" <=> code[d] = "used"
    BY <1>1, <2>2
  <2> QED
    BY <1>1, <1>2, <2>2, <2>3 DEF CodePays, At
<1> QED
  BY <1>1, <1>3, <1>4, <1>5, <1>6 DEF Earned

\* A redemption takes the lock of an active code that nobody holds.
LEMMA LockCodeStep ==
  ASSUME CreditsTyped, Earned, NEW h \in Handlers, LockCode(h)
  PROVE  Earned' /\ call' \in [Handlers -> Jobs] /\ DOMAIN lock' = Keys
<1> USE DEF CreditsTyped
<1> DEFINE c == call[h].key
<1>1. /\ UNCHANGED <<ledger, kind, code, broken, checkins, invited>>
      /\ call[h].pc = "lock" /\ lock[c] = Nobody
  BY DEF LockCode, At, vars
<1>2. CASE Done(h) /\ UNCHANGED lock
  <2>1. call' \in [Handlers -> Jobs] /\ OthersIdle(h) /\ call'[h].pc = "idle"
    BY <1>2, CallEnds
  <2>2. Consistent(h)'
    BY <2>1 DEF Consistent, Redeeming
  <2> QED
    BY <1>1, <1>2, <2>1, <2>2, Silent
<1>3. CASE code[c] = "active" /\ lock' = [lock EXCEPT ![c] = h] /\ Go(h, "credit")
  <2>1. call[h].wallet \in Wallets /\ c \in KeyOf("code") /\ c \in Keys
    BY <1>1 DEF Earned, Consistent, Redeeming, KeyOf
  <2>2. /\ call' \in [Handlers -> Jobs] /\ OthersIdle(h) /\ call'[h].pc = "credit"
        /\ call'[h].wallet = call[h].wallet /\ call'[h].key = c
    <3>1. "credit" \in Places
      BY DEF Places, Redeeming
    <3> QED
      BY <1>3, <3>1, CallMoves
  <2>3. \A v, j : Paid(v, j)' <=> Paid(v, j)
    BY <1>1 DEF Paid, Fresh
  <2>4. NotedArePaid' /\ InvitersFollow'
    <3>1. \A v \in Wallets, j \in KeyOf("inviter") : Paid(v, j)' => Paid(v, j)
      BY <2>3
    <3> QED
      BY <1>1, <2>3, <3>1, OthersPaid
  <2>5. ASSUME NEW g \in Handlers PROVE Consistent(g)'
    <3>1. CASE g = h
      <4>1. KeyOf("code")' = KeyOf("code")
        BY <1>1 DEF KeyOf
      <4>2. lock'[c] = h /\ code'[c] = "active"
        BY <1>1, <1>3, <2>1
      <4> HIDE DEF c
      <4> QED
        BY <2>1, <2>2, <3>1, <4>1, <4>2 DEF Consistent, Redeeming
    <3>2. CASE g # h
      <4>1. call'[g] = call[g]
        BY <2>2, <3>2 DEF OthersIdle
      <4>2. g # Nobody
        BY CreditsAssumption
      <4>3. \A d \in Keys : lock[d] = g /\ code[d] = "active" => lock'[d] = g /\ code'[d] = "active"
        BY <1>1, <1>3, <4>2
      <4> QED
        BY <1>1, <2>3, <4>1, <4>3, OthersConsistent DEF Earned
    <3> QED
      BY <3>1, <3>2
  <2>6. ASSUME NEW d \in Keys PROVE LockHeld(d)'
    <3>1. CASE d = c
      BY <1>3, <2>1, <2>2, <3>1 DEF LockHeld
    <3>2. CASE d # c
      <4>1. lock'[d] = lock[d] /\ LockHeld(d)
        BY <1>3, <3>2 DEF Earned
      <4>2. \A g \in Handlers : call[g].pc \in {"credit", "commit"} => call'[g] = call[g]
        BY <1>1, <2>2 DEF OthersIdle
      <4> QED
        BY <4>1, <4>2 DEF LockHeld
    <3> QED
      BY <3>1, <3>2
  <2>7. ASSUME NEW d \in KeyOf("code")' PROVE CodePays(d)'
    <3>1. CodePays(d)
      BY <1>1 DEF Earned, KeyOf
    <3>2. \A g \in Handlers : At(g, "commit") => call'[g] = call[g]
      BY <1>1, <2>2 DEF OthersIdle, At
    <3> QED
      BY <1>1, <2>3, <3>1, <3>2 DEF CodePays, At
  <2> QED
    BY <1>3, <2>2, <2>4, <2>5, <2>6, <2>7 DEF Earned
<1> QED
  BY <1>2, <1>3 DEF LockCode

\* The redemption that holds an active code that never broke off pays the
\* first and only wallet.
LEMMA CreditCodeStep ==
  ASSUME TypeOK, CreditsTyped, Earned, NEW h \in Handlers, CreditCode(h)
  PROVE  Earned' /\ call' \in [Handlers -> Jobs] /\ [Next]_vars
<1> USE DEF CreditsTyped
<1>0. PICK c, w : c = call[h].key /\ w = call[h].wallet
  OBVIOUS
<1>1. /\ UNCHANGED <<kind, lock, code, broken, checkins, invited>>
      /\ call[h].pc = "credit" /\ Go(h, "commit") /\ Credit(w, c, Worth(c))
  BY <1>0 DEF CreditCode, At
<1>2. w \in Wallets /\ c \in KeyOf("code") /\ c \in Keys /\ lock[c] = h /\ code[c] = "active"
  BY <1>0, <1>1 DEF Earned, Consistent, Redeeming, KeyOf
<1>3. /\ call' \in [Handlers -> Jobs] /\ OthersIdle(h) /\ call'[h].pc = "commit"
      /\ call'[h].wallet = w /\ call'[h].key = c
  <2>1. "commit" \in Places
    BY DEF Places, Redeeming
  <2> QED
    BY <1>0, <1>1, <2>1, CallMoves
<1>4. Worth(c) \in Amounts
  BY MaxAmountAssumption DEF Worth, Amounts
<1>5. /\ [Next]_vars /\ Paid(w, c)'
      /\ \A v \in Wallets, j \in Keys : Paid(v, j) => Paid(v, j)'
      /\ \A v \in Wallets, j \in Keys : Paid(v, j)' => Paid(v, j) \/ (v = w /\ j = c)
  BY <1>1, <1>2, <1>4, CreditPays
<1>6. NotedArePaid' /\ InvitersFollow'
  <2>1. \A v \in Wallets, j \in KeyOf("inviter") : Paid(v, j)' => Paid(v, j)
    BY <1>2, <1>5, KeysApart
  <2> QED
    BY <1>1, <1>5, <2>1, OthersPaid
<1>7. ASSUME NEW g \in Handlers PROVE Consistent(g)'
  <2>1. CASE g = h
    <3>1. KeyOf("code")' = KeyOf("code")
      BY <1>1 DEF KeyOf
    <3>2. Paid(call[h].wallet, call[h].key)'
      BY <1>3, <1>5 DEF Paid, Fresh
    <3> QED
      BY <1>1, <1>2, <1>3, <2>1, <3>1, <3>2 DEF Consistent, Redeeming
  <2>2. CASE g # h
    BY <1>1, <1>3, <1>5, <2>2, OthersConsistent DEF Earned, OthersIdle
  <2> QED
    BY <2>1, <2>2
<1>8. ASSUME NEW d \in Keys PROVE LockHeld(d)'
  <2>1. LockHeld(d)
    BY DEF Earned
  <2>2. \A g \in Handlers : g # h => call'[g] = call[g]
    BY <1>3 DEF OthersIdle
  <2>3. call'[h].key = call[h].key
    BY <1>0, <1>3
  <2> QED
    BY <1>1, <1>3, <2>1, <2>2, <2>3 DEF LockHeld
<1>9. ASSUME NEW d \in KeyOf("code")' PROVE CodePays(d)'
  <2>1. d \in KeyOf("code") /\ d \in Keys /\ CodePays(d)
    BY <1>1 DEF Earned, KeyOf
  <2>2. \A g \in Handlers : At(g, "commit") => g # h /\ call'[g] = call[g]
    BY <1>1, <1>3 DEF OthersIdle, At
  <2>3. CASE d # c
    <3>1. \A v \in Wallets : Paid(v, d)' <=> Paid(v, d)
      BY <1>5, <2>1, <2>3
    <3> QED
      BY <1>1, <2>1, <2>2, <3>1 DEF CodePays, At
  <2>4. CASE d = c
    <3>1. ASSUME c \notin broken, NEW v \in Wallets, Paid(v, c) PROVE FALSE
      <4>1. PICK g \in Handlers : At(g, "commit") /\ call[g].key = c
        BY <1>2, <2>1, <2>4, <3>1 DEF CodePays
      <4>2. lock[c] = g
        BY <4>1 DEF Earned, Consistent, At
      <4> QED
        BY <1>1, <1>2, <4>1, <4>2 DEF At
    <3>2. c \notin broken => \A v \in Wallets : Paid(v, c)' => v = w
      BY <1>2, <1>5, <3>1
    <3>3. code'[c] = "active"
      BY <1>1, <1>2
    <3>4. c \notin broken' => c \notin broken
      BY <1>1
    <3> QED
      BY <1>3, <2>4, <3>2, <3>3, <3>4 DEF CodePays, At
  <2> QED
    BY <2>3, <2>4
<1>10. Earned'
  BY <1>6, <1>7, <1>8, <1>9 DEF Earned
<1> QED
  BY <1>3, <1>5, <1>10

\* The end of a redemption, committed or not, frees the code's lock.
LEMMA RedeemEnds ==
  ASSUME CreditsTyped, Earned, NEW h \in Handlers, CommitCode(h) \/ BreakRedeem(h)
  PROVE  /\ Earned' /\ call' \in [Handlers -> Jobs]
         /\ DOMAIN lock' = Keys /\ DOMAIN code' = Keys
<1> USE DEF CreditsTyped
<1> DEFINE c == call[h].key  w == call[h].wallet
<1>1. /\ UNCHANGED <<ledger, kind, checkins, invited>>
      /\ call[h].pc \in Redeeming /\ Done(h)
  BY DEF CommitCode, BreakRedeem, At, vars, Redeeming
<1>2. w \in Wallets /\ c \in KeyOf("code") /\ c \in Keys
  BY <1>1 DEF Earned, Consistent, Redeeming, KeyOf
<1>3. /\ lock' = IF lock[c] = h THEN [lock EXCEPT ![c] = Nobody] ELSE lock
      /\ call[h].pc \in {"credit", "commit"} => lock[c] = h
  <2>1. call[h].pc \in {"credit", "commit"} => lock[c] = h
    BY DEF Earned, Consistent
  <2> QED
    BY <2>1 DEF CommitCode, BreakRedeem, At
<1>4. call' \in [Handlers -> Jobs] /\ OthersIdle(h) /\ call'[h].pc = "idle"
  BY <1>1, CallEnds
<1>5. \/ /\ code' = [code EXCEPT ![c] = "used"] /\ broken' = broken
         /\ call[h].pc = "commit"
      \/ /\ code' = code
         /\ broken' = IF call[h].pc = "commit" THEN broken \cup {c} ELSE broken
  BY DEF CommitCode, BreakRedeem, At
<1>6. \A v, j : Paid(v, j)' <=> Paid(v, j)
  BY <1>1 DEF Paid, Fresh
<1>7. NotedArePaid' /\ InvitersFollow'
  <2>1. \A v \in Wallets, j \in KeyOf("inviter") : Paid(v, j)' => Paid(v, j)
    BY <1>6
  <2> QED
    BY <1>1, <1>6, <2>1, OthersPaid
<1>8. h # Nobody
  BY CreditsAssumption
<1> HIDE DEF c, w
<1>9. ASSUME NEW g \in Handlers PROVE Consistent(g)'
  <2>1. CASE g = h
    BY <1>4, <2>1 DEF Consistent, Redeeming
  <2>2. CASE g # h
    <3>1. \A d \in Keys : lock[d] = g /\ code[d] = "active" => lock'[d] = g /\ code'[d] = "active"
      BY <1>3, <1>5, <2>2
    <3> QED
      BY <1>1, <1>4, <1>6, <2>2, <3>1, OthersConsistent DEF Earned, OthersIdle
  <2> QED
    BY <2>1, <2>2
<1>10. ASSUME NEW d \in Keys PROVE LockHeld(d)'
  <2>1. LockHeld(d)
    BY DEF Earned
  <2>2. ASSUME lock'[d] # Nobody PROVE lock'[d] = lock[d] /\ lock[d] # h
    <3>1. lock'[d] = lock[d]
      BY <1>2, <1>3, <2>2
    <3>2. ASSUME lock[d] = h PROVE FALSE
      <4>1. call[h].key = d
        BY <1>8, <2>1, <3>2 DEF LockHeld
      <4> QED
        BY <1>2, <1>3, <2>2, <3>2, <4>1 DEF c
    <3> QED
      BY <3>1, <3>2
  <2> QED
    BY <1>4, <2>1, <2>2 DEF LockHeld, OthersIdle
<1>11. ASSUME NEW d \in KeyOf("code")' PROVE CodePays(d)'
  <2>1. d \in KeyOf("code") /\ d \in Keys /\ CodePays(d)
    BY <1>1 DEF Earned, KeyOf
  <2>2. ASSUME d # c \/ call[h].pc # "commit"
        PROVE  /\ code'[d] = code[d] /\ (d \in broken' <=> d \in broken)
               /\ \A g \in Handlers : At(g, "commit") /\ call[g].key = d => call'[g] = call[g]
    BY <1>4, <1>5, <2>1, <2>2 DEF c, OthersIdle, At
  <2>3. CASE d # c \/ call[h].pc # "commit"
    BY <1>6, <2>1, <2>2, <2>3 DEF CodePays, At
  <2>4. CASE d = c /\ call[h].pc = "commit"
    <3>1. Paid(w, c)
      BY <2>4 DEF Earned, Consistent, c, w
    <3>2. \/ code'[c] = "used" /\ broken' = broken
          \/ code'[c] = code[c] /\ c \in broken'
      BY <1>2, <1>5, <2>4
    <3> QED
      BY <1>2, <1>6, <2>1, <2>4, <3>1, <3>2 DEF CodePays
  <2> QED
    BY <2>3, <2>4
<1>12. DOMAIN lock' = Keys /\ DOMAIN code' = Keys
  BY <1>3, <1>5
<1> QED
  BY <1>4, <1>7, <1>9, <1>10, <1>11, <1>12 DEF Earned
-----------------------------------------------------------------------------
(* The connection pool.                                                    *)

Connected == Redeeming \cup {"write", "end"}

\* A call takes a connection when its transaction begins and gives it back
\* when it ends.
LEMMA PoolFollows ==
  ASSUME CreditsTyped, PoolCounts, NEW h \in Handlers, OthersIdle(h), size' = size,
         \/ /\ call[h].pc \in Connected <=> call'[h].pc \in Connected
            /\ pool' = pool
         \/ /\ call[h].pc \notin Connected /\ call'[h].pc \in Connected
            /\ pool' = pool - 1
         \/ /\ call[h].pc \in Connected /\ call'[h].pc \notin Connected
            /\ pool' = pool + 1
  PROVE  PoolCounts'
<1>1. IsFiniteSet(Using) /\ Cardinality(Using) \in Nat
  <2>1. Using \in SUBSET Handlers
    BY DEF Using
  <2>2. IsFiniteSet(Using)
    BY <2>1, CreditsAssumption, FS_Subset
  <2> QED
    BY <2>2, FS_CardinalityType
<1>2. size \in Nat /\ pool = size - Cardinality(Using)
  BY DEF CreditsTyped, PoolCounts
<1>3. CASE (call[h].pc \in Connected <=> call'[h].pc \in Connected) /\ pool' = pool
  <2>1. Using' = Using
    BY <1>3 DEF Using, OthersIdle, Connected
  <2> QED
    BY <1>2, <1>3, <2>1 DEF PoolCounts
<1>4. CASE call[h].pc \notin Connected /\ call'[h].pc \in Connected /\ pool' = pool - 1
  <2>1. h \notin Using /\ Using' = Using \cup {h}
    BY <1>4 DEF Using, OthersIdle, Connected
  <2>2. Cardinality(Using') = Cardinality(Using) + 1
    BY <1>1, <2>1, FS_AddElement
  <2> QED
    BY <1>1, <1>2, <1>4, <2>2 DEF PoolCounts
<1>5. CASE call[h].pc \in Connected /\ call'[h].pc \notin Connected /\ pool' = pool + 1
  <2>1. h \in Using /\ Using' = Using \ {h}
    BY <1>5 DEF Using, OthersIdle, Connected
  <2>2. Cardinality(Using') = Cardinality(Using) - 1
    BY <1>1, <2>1, FS_RemoveElement
  <2> QED
    BY <1>1, <1>2, <1>5, <2>2 DEF PoolCounts
<1> QED
  BY <1>3, <1>4, <1>5

LEMMA PoolStep ==
  ASSUME CreditsTyped, PoolCounts, NEW h \in Handlers, Serve(h) \/ Arrive(h)
  PROVE  PoolCounts'
<1> USE DEF Take, Give, Borrow, At
<1>0. size' = size /\ call \in [Handlers -> Jobs]
  BY DEF CreditsTyped, Serve, Arrive, BeginRecord, HandleCreateRedemption, BeginRedeem, CheckIn,
         HandleTopUp, Invite, LockCode, CreditCode, CommitCode, Reward, NoteCheckIn,
         WriteRecord, EndRecord, RewardInvited, RewardInviter, BreakRedeem, BreakCheckIn,
         BreakInvite
<1>1. CASE CommitCode(h) \/ BreakRedeem(h) \/ EndRecord(h)
  <2>1. Done(h) /\ call[h].pc \in Connected /\ pool' = pool + 1
    BY <1>1 DEF CommitCode, BreakRedeem, EndRecord, Connected, Redeeming
  <2>2. OthersIdle(h) /\ call'[h].pc = "idle"
    BY <1>0, <2>1, CallEnds
  <2>3. call'[h].pc \notin Connected
    BY <2>2 DEF Connected, Redeeming
  <2> QED
    BY <1>0, <2>1, <2>2, <2>3, PoolFollows
<1>2. CASE NoteCheckIn(h) \/ RewardInviter(h) \/ BreakCheckIn(h) \/ BreakInvite(h)
  <2>1. Done(h) /\ call[h].pc \notin Connected /\ pool' = pool
    BY <1>2 DEF NoteCheckIn, RewardInviter, BreakCheckIn, BreakInvite, Connected, Redeeming
  <2>2. OthersIdle(h) /\ call'[h].pc = "idle"
    BY <1>0, <2>1, CallEnds
  <2>3. call'[h].pc \notin Connected
    BY <2>2 DEF Connected, Redeeming
  <2> QED
    BY <1>0, <2>1, <2>2, <2>3, PoolFollows
<1>3. CASE LockCode(h)
  <2>1. CASE Go(h, "credit") /\ pool' = pool
    <3>1. call[h].pc = "lock" /\ "credit" \in Places
      BY <1>3 DEF LockCode, Places, Redeeming
    <3>2. OthersIdle(h) /\ call'[h].pc = "credit"
      BY <1>0, <2>1, <3>1, CallMoves
    <3> QED
      BY <1>0, <2>1, <3>1, <3>2, PoolFollows DEF Connected, Redeeming
  <2>2. CASE Done(h) /\ pool' = pool + 1
    <3>1. call[h].pc = "lock"
      BY <1>3 DEF LockCode
    <3>2. OthersIdle(h) /\ call'[h].pc = "idle"
      BY <1>0, <2>2, CallEnds
    <3> QED
      BY <1>0, <2>2, <3>1, <3>2, PoolFollows DEF Connected, Redeeming
  <2> QED
    BY <1>3, <2>1, <2>2 DEF LockCode
<1>4. CASE CreditCode(h)
  <2>1. call[h].pc = "credit" /\ Go(h, "commit") /\ "commit" \in Places /\ pool' = pool
    BY <1>4 DEF CreditCode, Places, Redeeming
  <2>2. OthersIdle(h) /\ call'[h].pc = "commit"
    BY <1>0, <2>1, CallMoves
  <2> QED
    BY <1>0, <2>1, <2>2, PoolFollows DEF Connected, Redeeming
<1>5. CASE Reward(h)
  <2>1. call[h].pc = "reward" /\ Go(h, "note") /\ "note" \in Places /\ pool' = pool
    BY <1>5 DEF Reward, Places
  <2>2. OthersIdle(h) /\ call'[h].pc = "note"
    BY <1>0, <2>1, CallMoves
  <2> QED
    BY <1>0, <2>1, <2>2, PoolFollows DEF Connected, Redeeming
<1>6. CASE RewardInvited(h)
  <2>1. call[h].pc = "invite" /\ Go(h, "inviter") /\ "inviter" \in Places /\ pool' = pool
    BY <1>6 DEF RewardInvited, Places
  <2>2. OthersIdle(h) /\ call'[h].pc = "inviter"
    BY <1>0, <2>1, CallMoves
  <2> QED
    BY <1>0, <2>1, <2>2, PoolFollows DEF Connected, Redeeming
<1>7. CASE WriteRecord(h)
  <2>1. call[h].pc = "write" /\ Go(h, "end") /\ "end" \in Places /\ pool' = pool
    BY <1>7 DEF WriteRecord, Places
  <2>2. OthersIdle(h) /\ call'[h].pc = "end"
    BY <1>0, <2>1, CallMoves
  <2> QED
    BY <1>0, <2>1, <2>2, PoolFollows DEF Connected, Redeeming
<1>8. CASE BeginRecord(h)
  <2>1. call[h].pc = "idle" /\ Go(h, "write") /\ "write" \in Places /\ pool' = pool - 1
    BY <1>8 DEF BeginRecord, Places
  <2>2. OthersIdle(h) /\ call'[h].pc = "write"
    BY <1>0, <2>1, CallMoves
  <2> QED
    BY <1>0, <2>1, <2>2, PoolFollows DEF Connected, Redeeming
<1>9. ASSUME NEW w \in Wallets, NEW c \in KeyOf("code"), BeginRedeem(h, w, c)
      PROVE  PoolCounts'
  <2>1. call[h].pc = "idle" /\ Start(h, "lock", w, c) /\ "lock" \in Places /\ pool' = pool - 1
    BY <1>9 DEF BeginRedeem, Places, Redeeming
  <2>2. OthersIdle(h) /\ call'[h].pc = "lock"
    BY <1>0, <2>1, KeysApart, CallStarts DEF KeyOf
  <2> QED
    BY <1>0, <2>1, <2>2, PoolFollows DEF Connected, Redeeming
<1>10. ASSUME NEW w \in Wallets, NEW d \in KeyOf("day"), CheckIn(h, w, d)
       PROVE  PoolCounts'
  <2>1. call[h].pc = "idle" /\ Start(h, "reward", w, d) /\ "reward" \in Places /\ pool' = pool
    BY <1>10 DEF CheckIn, Places
  <2>2. OthersIdle(h) /\ call'[h].pc = "reward"
    BY <1>0, <2>1, CallStarts DEF KeyOf
  <2> QED
    BY <1>0, <2>1, <2>2, PoolFollows DEF Connected, Redeeming
<1>11. ASSUME NEW w \in Wallets, NEW v \in Wallets, Invite(h, w, v)
       PROVE  PoolCounts'
  <2>1. PICK k \in KeyOf("invite") : Start(h, "invite", w, k)
    BY <1>11 DEF Invite
  <2>2. call[h].pc = "idle" /\ "invite" \in Places /\ pool' = pool
    BY <1>11 DEF Invite, Places
  <2>3. OthersIdle(h) /\ call'[h].pc = "invite"
    BY <1>0, <2>1, <2>2, CallStarts DEF KeyOf
  <2> QED
    BY <1>0, <2>2, <2>3, PoolFollows DEF Connected, Redeeming
<1>12. ASSUME call' = call, pool' = pool
       PROVE  PoolCounts'
  BY <1>0, <1>12, PoolFollows DEF OthersIdle
<1>13. ASSUME \/ \E c \in KeyOf("code") : HandleCreateRedemption(h, c)
              \/ \E w \in Wallets, k \in KeyOf("client") : HandleTopUp(h, w, k)
       PROVE  PoolCounts'
  BY <1>12, <1>13 DEF HandleCreateRedemption, HandleTopUp
<1> QED
  BY <1>1, <1>2, <1>3, <1>4, <1>5, <1>6, <1>7, <1>8, <1>9, <1>10, <1>11, <1>13
     DEF Serve, Arrive

-----------------------------------------------------------------------------
(* The invariant of the credits.                                           *)

LEMMA EarnedStep ==
  ASSUME TypeOK, CreditsTyped, Earned, NEW h \in Handlers, Serve(h) \/ Arrive(h)
  PROVE  Earned' /\ CreditsTyped' /\ [Next]_vars
<1> DEFINE Goal == Earned' /\ CreditsTyped' /\ [Next]_vars
<1>0. UNCHANGED <<kind, size>> /\ (KeyOf("code") \subseteq Keys)
  BY DEF Serve, Arrive, BeginRecord, HandleCreateRedemption, BeginRedeem, CheckIn,
         HandleTopUp, Invite, LockCode, CreditCode, CommitCode, Reward, NoteCheckIn,
         WriteRecord, EndRecord, RewardInvited, RewardInviter, BreakRedeem, BreakCheckIn,
         BreakInvite, KeyOf
<1>1. CASE \/ \E w \in Wallets, c \in KeyOf("code") : BeginRedeem(h, w, c)
           \/ \E w \in Wallets, d \in KeyOf("day") : CheckIn(h, w, d)
           \/ BreakCheckIn(h) \/ BreakInvite(h)
           \/ BeginRecord(h) \/ WriteRecord(h) \/ EndRecord(h)
  <2>1. Earned' /\ call' \in [Handlers -> Jobs]
    BY <1>1, SilentSteps
  <2>2. UNCHANGED <<vars, code, lock, checkins, invited>>
    BY <1>1 DEF BeginRedeem, CheckIn, BreakCheckIn, BreakInvite, BeginRecord, WriteRecord,
                EndRecord
  <2> QED
    BY <1>0, <2>1, <2>2 DEF CreditsTyped
<1>2. CASE \/ Reward(h) \/ RewardInvited(h)
           \/ \E w \in Wallets, k \in KeyOf("client") : HandleTopUp(h, w, k)
  <2>1. Earned' /\ call' \in [Handlers -> Jobs] /\ [Next]_vars
    BY <1>2, RewardSteps
  <2>2. UNCHANGED <<code, lock, checkins, invited>>
    BY <1>2 DEF Reward, RewardInvited, HandleTopUp
  <2> QED
    BY <1>0, <2>1, <2>2 DEF CreditsTyped
<1>3. CASE NoteCheckIn(h)
  <2>1. Earned' /\ call' \in [Handlers -> Jobs] /\ checkins' \subseteq Wallets \X Keys
    BY <1>3, NoteStep
  <2>2. UNCHANGED <<vars, code, lock, invited>>
    BY <1>3 DEF NoteCheckIn
  <2> QED
    BY <1>0, <2>1, <2>2 DEF CreditsTyped
<1>4. ASSUME NEW w \in Wallets, NEW v \in Wallets, Invite(h, w, v)
      PROVE  Goal
  <2>1. Earned' /\ call' \in [Handlers -> Jobs] /\ invited' \subseteq Wallets \X Wallets
    BY <1>4, InviteStep
  <2>2. UNCHANGED <<vars, code, lock, checkins>>
    BY <1>4 DEF Invite
  <2> QED
    BY <1>0, <2>1, <2>2 DEF CreditsTyped
<1>5. CASE RewardInviter(h)
  <2>1. Earned' /\ call' \in [Handlers -> Jobs] /\ [Next]_vars
    BY <1>5, InviterStep
  <2>2. UNCHANGED <<code, lock, checkins, invited>>
    BY <1>5 DEF RewardInviter
  <2> QED
    BY <1>0, <2>1, <2>2 DEF CreditsTyped
<1>6. ASSUME NEW c \in KeyOf("code"), HandleCreateRedemption(h, c)
      PROVE  Goal
  <2>1. Earned' /\ DOMAIN code' = Keys
    BY <1>6, CreateStep
  <2>2. UNCHANGED <<vars, call, lock, checkins, invited>>
    BY <1>6 DEF HandleCreateRedemption
  <2> QED
    BY <1>0, <2>1, <2>2 DEF CreditsTyped
<1>7. CASE LockCode(h)
  <2>1. Earned' /\ call' \in [Handlers -> Jobs] /\ DOMAIN lock' = Keys
    BY <1>7, LockCodeStep
  <2>2. UNCHANGED <<vars, code, checkins, invited>>
    BY <1>7 DEF LockCode
  <2> QED
    BY <1>0, <2>1, <2>2 DEF CreditsTyped
<1>8. CASE CreditCode(h)
  <2>1. Earned' /\ call' \in [Handlers -> Jobs] /\ [Next]_vars
    BY <1>8, CreditCodeStep
  <2>2. UNCHANGED <<code, lock, checkins, invited>>
    BY <1>8 DEF CreditCode
  <2> QED
    BY <1>0, <2>1, <2>2 DEF CreditsTyped
<1>9. CASE CommitCode(h) \/ BreakRedeem(h)
  <2>1. /\ Earned' /\ call' \in [Handlers -> Jobs]
        /\ DOMAIN lock' = Keys /\ DOMAIN code' = Keys
    BY <1>9, RedeemEnds
  <2>2. UNCHANGED <<vars, checkins, invited>>
    BY <1>9 DEF CommitCode, BreakRedeem
  <2> QED
    BY <1>0, <2>1, <2>2 DEF CreditsTyped
<1> QED
  BY <1>1, <1>2, <1>3, <1>4, <1>5, <1>6, <1>7, <1>8, <1>9 DEF Serve, Arrive

LEMMA CreditsInit ==
  ASSUME CInit
  PROVE  CIInv
<1>1. TypeOK
  BY MaxAmountAssumption DEF CInit, Init, TypeOK, NoRow, Row, TxTypes, Credits, Debits
<1>2. call = [h \in Handlers |-> Idle] /\ Idle \in Jobs /\ Idle.pc = "idle"
  BY DEF CInit, Idle, Jobs, Places
<1>3. CreditsTyped
  BY <1>2, CreditsAssumption DEF CInit, CreditsTyped
<1>4. PoolCounts
  <2>1. Using = {}
    BY <1>2 DEF Using, Redeeming
  <2>2. Cardinality(Using) = 0 /\ pool = size /\ size \in Nat
    BY <2>1, FS_EmptySet, CreditsAssumption DEF CInit
  <2> QED
    BY <2>2 DEF PoolCounts
<1>5. Earned
  <2>1. \A w \in Wallets, k \in Keys : ~Paid(w, k)
    BY DEF CInit, Init, NoRow, Paid, Fresh
  <2>2. \A t : KeyOf(t) \subseteq Keys
    BY DEF KeyOf
  <2>3. \A h \in Handlers : Consistent(h)
    BY <1>2 DEF Consistent, Redeeming
  <2>4. \A c \in Keys : LockHeld(c) /\ code[c] = "none"
    BY DEF CInit, LockHeld
  <2>5. \A c \in KeyOf("code") : CodePays(c)
    BY <2>1, <2>2, <2>4 DEF CodePays
  <2>6. NotedArePaid /\ InvitersFollow
    BY <2>1, <2>2 DEF CInit, NotedArePaid, InvitersFollow
  <2> QED
    BY <2>3, <2>4, <2>5, <2>6 DEF Earned
<1>6. Resting
  BY <1>2 DEF Resting
<1> QED
  BY <1>1, <1>3, <1>4, <1>5, <1>6 DEF CIInv

LEMMA CreditsStep ==
  ASSUME CIInv, [CNext]_cvars
  PROVE  CIInv' /\ [Next]_vars
<1>1. CASE kind = Plain /\ Next /\ UNCHANGED credits
  <2>1. TypeOK'
    BY <1>1, TypeStep DEF CIInv
  <2>2. UNCHANGED <<kind, size, pool, code, lock, checkins, invited, call, broken>>
    BY <1>1 DEF credits
  <2>3. CreditsTyped' /\ PoolCounts' /\ Resting'
    BY <1>1, <2>2 DEF CIInv, CreditsTyped, PoolCounts, Using, Resting
  <2>4. kind' = Plain /\ Plain' = Plain
    BY <1>1, <2>2 DEF Plain
  <2> QED
    BY <1>1, <2>1, <2>3, <2>4 DEF CIInv
<1>2. ASSUME kind # Plain, NEW h \in Handlers, Serve(h) \/ Arrive(h)
      PROVE  CIInv' /\ [Next]_vars
  <2>1. Earned' /\ CreditsTyped' /\ [Next]_vars
    BY <1>2, EarnedStep DEF CIInv
  <2>2. TypeOK'
    BY <2>1, TypeStep DEF CIInv
  <2>3. PoolCounts'
    BY <1>2, PoolStep DEF CIInv
  <2>4. kind' = kind /\ Plain' = Plain
    BY <1>2 DEF Plain, Serve, Arrive, BeginRecord, HandleCreateRedemption, BeginRedeem,
         CheckIn, HandleTopUp, Invite, LockCode, CreditCode, CommitCode, Reward, NoteCheckIn,
         WriteRecord, EndRecord, RewardInvited, RewardInviter, BreakRedeem, BreakCheckIn,
         BreakInvite
  <2> QED
    BY <1>2, <2>1, <2>2, <2>3, <2>4 DEF CIInv
<1>3. CASE UNCHANGED cvars
  <2>1. UNCHANGED <<balance, frozen, ledger, kind, size, pool, code, lock, checkins, invited, call, broken>>
        /\ UNCHANGED vars
    BY <1>3 DEF cvars, vars, credits
  <2>2. TypeOK'
    BY <2>1 DEF CIInv, TypeOK
  <2>3. CreditsTyped' /\ PoolCounts'
    BY <2>1 DEF CIInv, CreditsTyped, PoolCounts, Using
  <2>4. \A v, j : Paid(v, j)' <=> Paid(v, j)
    BY <2>1 DEF Paid, Fresh
  <2>5. ASSUME Earned PROVE Earned'
    <3>1. \A t : KeyOf(t)' = KeyOf(t)
      BY <2>1 DEF KeyOf
    <3>2. \A h \in Handlers : Consistent(h)'
      BY <2>1, <2>4, <2>5, <3>1, OthersConsistent DEF Earned
    <3>3. \A c \in Keys : LockHeld(c)'
      BY <2>1, <2>5 DEF Earned, LockHeld
    <3>4. \A c \in KeyOf("code")' : CodePays(c)'
      BY <2>1, <2>4, <2>5, <3>1 DEF Earned, CodePays, At
    <3>5. NotedArePaid' /\ InvitersFollow'
      BY <2>1, <2>4, <2>5, <3>1 DEF Earned, NotedArePaid, InvitersFollow
    <3> QED
      BY <3>2, <3>3, <3>4, <3>5 DEF Earned
  <2>6. (kind' = Plain' <=> kind = Plain) /\ (Resting => Resting')
    BY <2>1 DEF Plain, Resting
  <2> QED
    BY <2>1, <2>2, <2>3, <2>5, <2>6 DEF CIInv
<1> QED
  BY <1>1, <1>2, <1>3 DEF CNext

\* Codes, check-ins and rewards touch the wallets through their operations
\* only: what holds of module Wallet holds of them too.
THEOREM CreditsUseTheWallet == CSpec => Spec
<1>1. CInit => Init
  BY DEF CInit
<1> QED
  BY CreditsInit, CreditsStep, <1>1, PTL DEF CSpec, Spec

\* A code pays one wallet, whoever races for it, and another only after a
\* redemption broke off between its two commits; what is noted was paid; and an
\* inviter is paid for somebody who was.
THEOREM CreditsWereEarned == CSpec => []CreditsAreEarned
<1>1. CIInv => CreditsAreEarned
  <2> SUFFICES ASSUME Earned PROVE CreditsAreEarned
    BY DEF CIInv, CreditsAreEarned
  <2>1. ASSUME NEW c \in KeyOf("code")
        PROVE  LET paid == {w \in Wallets : Paid(w, c)} IN
               /\ Cardinality(paid) > 1 => c \in broken
               /\ code[c] = "used" => paid # {}
    <3> DEFINE paid == {w \in Wallets : Paid(w, c)}
    <3>1. CodePays(c)
      BY DEF Earned
    <3>2. ASSUME c \notin broken PROVE ~(Cardinality(paid) > 1)
      <4>1. paid = {} \/ \E w : paid = {w}
        BY <3>1, <3>2 DEF CodePays
      <4>2. Cardinality(paid) = 0 \/ Cardinality(paid) = 1
        BY <4>1, FS_EmptySet, FS_Singleton
      <4> QED
        BY <4>2
    <3>3. code[c] = "used" => paid # {}
      BY <3>1 DEF CodePays
    <3> QED
      BY <3>2, <3>3
  <2> QED
    BY <2>1 DEF Earned, NotedArePaid, InvitersFollow, CreditsAreEarned
<1> QED
  BY CreditsInit, CreditsStep, <1>1, PTL DEF CSpec

\* With more connections than handlers nobody runs out of them: a code's lock is
\* held by a call that can go on.
THEOREM ConnectionsSuffice == CSpec => []SomeCallMoves
<1>1. CIInv => SomeCallMoves
  <2> SUFFICES ASSUME CreditsTyped, PoolCounts, IF kind = Plain THEN Resting ELSE Earned,
                      size > Cardinality(Handlers), \A h \in Handlers : Waits(h)
               PROVE  FALSE
    BY DEF CIInv, SomeCallMoves
  <2>1. Using \in SUBSET Handlers /\ IsFiniteSet(Handlers) /\ Handlers # {}
    BY CreditsAssumption DEF Using
  <2>2. /\ Cardinality(Using) <= Cardinality(Handlers)
        /\ Cardinality(Using) \in Nat /\ Cardinality(Handlers) \in Nat
    BY <2>1, FS_Subset, FS_CardinalityType
  <2>3. pool # 0
    BY <2>2 DEF PoolCounts, CreditsTyped
  <2>4. PICK h \in Handlers : TRUE
    BY <2>1
  <2>5. call[h].pc = "lock" /\ lock[call[h].key] # Nobody
    BY <2>3 DEF Waits, At
  <2>6. CASE kind # Plain
    <3>1. call[h].key \in Keys
      BY <2>5, <2>6 DEF Earned, Consistent, Redeeming, KeyOf
    <3>2. PICK g \in Handlers : call[g].pc \in {"credit", "commit"}
      BY <2>5, <2>6, <3>1 DEF Earned, LockHeld
    <3> QED
      BY <2>3, <3>2 DEF Waits, At
  <2>7. CASE kind = Plain
    BY <2>5, <2>7 DEF Resting
  <2> QED
    BY <2>6, <2>7
<1> QED
  BY CreditsInit, CreditsStep, <1>1, PTL DEF CSpec
=============================================================================
