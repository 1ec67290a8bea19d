--------------------------- MODULE WalletTxnProofs ---------------------------
(***************************************************************************)
(* Proof that the SQL statements of concurrent sessions implement the      *)
(* atomic wallet, for any number of sessions, wallets and keys.            *)
(***************************************************************************)
EXTENDS WalletTxn, SequenceTheorems, FiniteSetTheorems, TLAPS

\* The wallet rows s has still to lock.
Pending(s) == {todo[s][i] : i \in DOMAIN todo[s]}

\* A session past its first lock owns the wallets it has read, and what it read
\* is what is committed.
Owned(s) ==
  at[s] \in {"lock", "write"} =>
    /\ at[s] = "lock" => todo[s] # <<>>
    /\ at[s] = "write" => todo[s] = <<>>
    /\ \A w \in Touched(call[s]) \ Pending(s) :
         walletOwner[w] = s /\ seen[s][w] = Current(w)

WalletsOwned == \A s \in Sessions : Owned(s)

\* A session that finalises a hold owns its row.
HoldOwned(s) ==
  /\ at[s] = "lookup" => call[s].kind \in Inserting
  /\ at[s] \in {"lock", "write"} /\ call[s].kind \in Finalizing =>
       /\ rowOwner[call[s].wallet][call[s].key] = s
       /\ ledger[call[s].wallet][call[s].key].type = "reserve"

HoldsOwned == \A s \in Sessions : HoldOwned(s)

IInv == TypeOK /\ WalletsOwned /\ HoldsOwned

-----------------------------------------------------------------------------
(* Helpers.                                                                *)

\* The arguments of a call.
LEMMA CallTypes ==
  ASSUME NEW c \in Calls
  PROVE  /\ c.kind \in Inserting \cup Finalizing
         /\ c.wallet \in Wallets
         /\ c.other \in Wallets
         /\ c.key \in Keys
         /\ c.amount \in 0 .. MaxAmount
         /\ c.kind = "transfer" => c.other # c.wallet
         /\ c.kind # "transfer" => c.other = c.wallet
         /\ c.kind \in Inserting => c.amount \in 1 .. MaxAmount
BY MaxAmountAssumption, KindsAssumption DEF Calls

\* The order in which a call locks its wallets leaves none out.
LEMMA LockOrderCovers ==
  ASSUME NEW c \in Calls
  PROVE  /\ LockOrder(c) \in Seq(Wallets)
         /\ LockOrder(c) # <<>>
         /\ \A w \in Touched(c) :
              \E i \in DOMAIN LockOrder(c) : LockOrder(c)[i] = w
<1>1. c.wallet \in Wallets /\ c.other \in Wallets
  BY CallTypes
<1>2. CASE c.wallet = c.other
  BY <1>1, <1>2 DEF LockOrder, Touched
<1>3. CASE c.wallet # c.other /\ c.wallet < c.other
  BY <1>1, <1>3 DEF LockOrder, Touched
<1>4. CASE c.wallet # c.other /\ ~(c.wallet < c.other)
  BY <1>1, <1>4 DEF LockOrder, Touched
<1> QED
  BY <1>2, <1>3, <1>4

\* Values of the transaction's own writes.
LEMMA RowTypes ==
  ASSUME NEW a \in 0 .. MaxAmount
  PROVE  /\ \A t \in {"reserve", "charge", "release", "topup", "transfer_in"} :
              Row(t, a) \in Atomic!Row
         /\ \A t \in {"transfer_out", "subscription"} : Row(t, -a) \in Atomic!Row
BY MaxAmountAssumption
   DEF Row, Atomic!Row, Atomic!TxTypes, Atomic!Credits, Atomic!Debits

\* The end of a transaction keeps its variables typed.
LEMMA EndTxTypes ==
  ASSUME TypeOK, NEW s \in Sessions, EndTx(s)
  PROVE  /\ todo' \in [Sessions -> Seq(Wallets)]
         /\ seen' \in [Sessions -> [Wallets -> Snapshot]]
         /\ walletOwner' \in [Wallets -> Owners]
         /\ rowOwner' \in [Wallets -> [Keys -> Owners]]
<1> USE DEF TypeOK, EndTx
<1>1. todo' \in [Sessions -> Seq(Wallets)]
  <2>1. <<>> \in Seq(Wallets)
    OBVIOUS
  <2> QED
    BY <2>1
<1>2. seen' \in [Sessions -> [Wallets -> Snapshot]]
  <2>1. [w \in Wallets |-> Unread] \in [Wallets -> Snapshot]
    BY DEF Unread, Snapshot
  <2> QED
    BY <2>1
<1>3. walletOwner' \in [Wallets -> Owners]
  BY DEF Owners
<1>4. rowOwner' \in [Wallets -> [Keys -> Owners]]
  BY DEF Owners
<1> QED
  BY <1>1, <1>2, <1>3, <1>4

\* The amounts in rows are integers, those of open holds natural numbers.
LEMMA RowAmounts ==
  ASSUME NEW r \in Atomic!Row
  PROVE  /\ r.amount \in Int
         /\ r.type = "reserve" => r.amount \in 0 .. MaxAmount
<1>1. CASE r \in [type : Atomic!TxTypes \ Atomic!Debits, amount : 0 .. MaxAmount]
  BY <1>1, MaxAmountAssumption
<1>2. CASE r \in [type : Atomic!Debits, amount : -MaxAmount .. 0]
  BY <1>2, MaxAmountAssumption DEF Atomic!Debits
<1> QED
  BY <1>1, <1>2 DEF Atomic!Row

\* Rewriting one row, and one column, keeps the tables typed.
LEMMA LedgerWritten ==
  ASSUME TypeOK, NEW w \in Wallets, NEW k \in Keys, NEW r \in Atomic!Row
  PROVE  [ledger EXCEPT ![w][k] = r] \in [Wallets -> [Keys -> Atomic!Row]]
BY DEF TypeOK, Atomic!TypeOK

LEMMA ColumnWritten ==
  ASSUME NEW f \in [Wallets -> Int], NEW w \in Wallets, NEW n \in Int
  PROVE  /\ [f EXCEPT ![w] = @ + n] \in [Wallets -> Int]
         /\ [f EXCEPT ![w] = @ - n] \in [Wallets -> Int]
         /\ [f EXCEPT ![w] = n] \in [Wallets -> Int]
OBVIOUS

\* What a transaction writes is typed.
LEMMA WriteTypes ==
  ASSUME TypeOK, HoldsOwned, NEW s \in Sessions, Write(s)
  PROVE  Atomic!TypeOK' /\ version' \in [Wallets -> Nat]
<1> DEFINE c == call[s]
<1> DEFINE Typed == Atomic!TypeOK' /\ version' \in [Wallets -> Nat]
<1>0. c \in Calls /\ at[s] = "write"
  BY DEF Write, WriteReserve, WriteTopUp, WriteTransfer, WriteSpend, WriteCommit,
         WriteSettle, WriteRelease, Writing, TypeOK
<1>1. /\ c.wallet \in Wallets /\ c.other \in Wallets /\ c.key \in Keys
      /\ c.amount \in 0 .. MaxAmount /\ c.amount \in Int
  BY <1>0, CallTypes, MaxAmountAssumption
<1>2. /\ balance \in [Wallets -> Int] /\ frozen \in [Wallets -> Int]
      /\ version \in [Wallets -> Nat]
  BY DEF TypeOK, Atomic!TypeOK
<1>3. \A W \in SUBSET Wallets :
        UpdateVersions(s, W) => version' \in [Wallets -> Nat]
  BY <1>2 DEF UpdateVersions
<1>4. {c.wallet} \in SUBSET Wallets /\ {c.wallet, c.other} \in SUBSET Wallets
  BY <1>1
<1> DEFINE held == ledger[c.wallet][c.key].amount
<1>5. ledger[c.wallet][c.key] \in Atomic!Row
  BY <1>1 DEF TypeOK, Atomic!TypeOK
<1>6. held \in Int
  BY <1>5, RowAmounts
<1>7. c.kind \in Finalizing => held \in 0 .. MaxAmount
  BY <1>0, <1>5, RowAmounts DEF HoldsOwned, HoldOwned
<1>8. CASE WriteReserve(s)
  <2>1. ledger' \in [Wallets -> [Keys -> Atomic!Row]]
    BY <1>1, <1>8, RowTypes, LedgerWritten DEF WriteReserve
  <2>2. balance' \in [Wallets -> Int] /\ frozen' \in [Wallets -> Int]
    BY <1>1, <1>2, <1>8, ColumnWritten DEF WriteReserve
  <2>3. version' \in [Wallets -> Nat]
    BY <1>3, <1>4, <1>8 DEF WriteReserve
  <2> QED
    BY <2>1, <2>2, <2>3 DEF Atomic!TypeOK
<1>9. CASE WriteTopUp(s)
  <2>1. ledger' \in [Wallets -> [Keys -> Atomic!Row]]
    BY <1>1, <1>9, RowTypes, LedgerWritten DEF WriteTopUp
  <2>2. balance' \in [Wallets -> Int] /\ frozen' \in [Wallets -> Int]
    BY <1>1, <1>2, <1>9, ColumnWritten DEF WriteTopUp
  <2>3. version' \in [Wallets -> Nat]
    BY <1>3, <1>4, <1>9 DEF WriteTopUp
  <2> QED
    BY <2>1, <2>2, <2>3 DEF Atomic!TypeOK
<1>10. CASE WriteTransfer(s)
  <2>1. ledger' \in [Wallets -> [Keys -> Atomic!Row]]
    <3>1. /\ Row("transfer_out", -c.amount) \in Atomic!Row
          /\ Row("transfer_in", c.amount) \in Atomic!Row
      BY <1>1, RowTypes
    <3> QED
      BY <1>1, <1>10, <3>1 DEF WriteTransfer, TypeOK, Atomic!TypeOK
  <2>2. balance' \in [Wallets -> Int] /\ frozen' \in [Wallets -> Int]
    BY <1>1, <1>2, <1>10 DEF WriteTransfer
  <2>3. version' \in [Wallets -> Nat]
    BY <1>3, <1>4, <1>10 DEF WriteTransfer
  <2> QED
    BY <2>1, <2>2, <2>3 DEF Atomic!TypeOK
<1>11. CASE WriteSpend(s)
  <2>1. ledger' \in [Wallets -> [Keys -> Atomic!Row]]
    <3>1. Row("subscription", -c.amount) \in Atomic!Row
      BY <1>1, RowTypes
    <3> QED
      BY <1>1, <1>11, <3>1, LedgerWritten DEF WriteSpend
  <2>2. balance' \in [Wallets -> Int] /\ frozen' \in [Wallets -> Int]
    BY <1>1, <1>2, <1>11, ColumnWritten DEF WriteSpend
  <2>3. version' \in [Wallets -> Nat]
    BY <1>3, <1>4, <1>11 DEF WriteSpend
  <2> QED
    BY <2>1, <2>2, <2>3 DEF Atomic!TypeOK
<1>12. CASE WriteCommit(s)
  <2>1. ledger' \in [Wallets -> [Keys -> Atomic!Row]]
    <3>1. Row("charge", held) \in Atomic!Row
      BY <1>7, <1>12, RowTypes DEF WriteCommit, Writing, Finalizing
    <3> QED
      BY <1>1, <1>12, <3>1, LedgerWritten DEF WriteCommit
  <2>2. balance' \in [Wallets -> Int] /\ frozen' \in [Wallets -> Int]
    BY <1>1, <1>2, <1>6, <1>12, ColumnWritten DEF WriteCommit
  <2> QED
    BY <1>2, <1>12, <2>1, <2>2 DEF WriteCommit, Atomic!TypeOK
<1>13. CASE WriteSettle(s)
  <2>1. ledger' \in [Wallets -> [Keys -> Atomic!Row]]
    BY <1>1, <1>13, RowTypes, LedgerWritten DEF WriteSettle
  <2>2. balance' \in [Wallets -> Int] /\ frozen' \in [Wallets -> Int]
    <3>1. /\ seen[s][c.wallet].balance \in Int
          /\ seen[s][c.wallet].frozen \in Int
      BY <1>1 DEF TypeOK, Snapshot
    <3> QED
      BY <1>1, <1>2, <1>6, <1>13, <3>1, ColumnWritten DEF WriteSettle
  <2>3. version' \in [Wallets -> Nat]
    BY <1>1, <1>2, <1>13 DEF WriteSettle
  <2> QED
    BY <2>1, <2>2, <2>3 DEF Atomic!TypeOK
<1>14. CASE WriteRelease(s)
  <2>1. ledger' \in [Wallets -> [Keys -> Atomic!Row]]
    <3>1. Row("release", held) \in Atomic!Row
      BY <1>7, <1>14, RowTypes DEF WriteRelease, Writing, Finalizing
    <3> QED
      BY <1>1, <1>14, <3>1, LedgerWritten DEF WriteRelease
  <2>2. balance' \in [Wallets -> Int] /\ frozen' \in [Wallets -> Int]
    BY <1>1, <1>2, <1>6, <1>14, ColumnWritten DEF WriteRelease
  <2> QED
    BY <1>2, <1>14, <2>1, <2>2 DEF WriteRelease, Atomic!TypeOK
<1> QED
  BY <1>8, <1>9, <1>10, <1>11, <1>12, <1>13, <1>14 DEF Write

\* Sessions keep their call, their locks and what they read typed.
LEMMA TypeStep ==
  ASSUME TypeOK, WalletsOwned, HoldsOwned, [Next]_vars
  PROVE  TypeOK'
<1> DEFINE Labels == {"idle", "lookup", "row", "lock", "write", "ok"}
<1> DEFINE CallOK == /\ at' \in [Sessions -> Labels]
                     /\ call' \in [Sessions -> Calls \cup {NoCall}]
                     /\ \A s \in Sessions : at'[s] # "idle" => call'[s] \in Calls
<1> DEFINE TablesOK == Atomic!TypeOK' /\ version' \in [Wallets -> Nat]
<1> DEFINE TxOK == /\ todo' \in [Sessions -> Seq(Wallets)]
                   /\ seen' \in [Sessions -> [Wallets -> Snapshot]]
                   /\ walletOwner' \in [Wallets -> Owners]
                   /\ rowOwner' \in [Wallets -> [Keys -> Owners]]
<1> SUFFICES CallOK /\ TablesOK /\ TxOK
  BY DEF TypeOK
<1>0. ASSUME UNCHANGED db
      PROVE  TablesOK
  BY <1>0 DEF db, TypeOK, Atomic!TypeOK
<1>1. ASSUME NEW s \in Sessions, NEW c \in Calls, Begin(s, c)
      PROVE  CallOK /\ TablesOK /\ TxOK
  BY <1>0, <1>1 DEF Begin, Goto, TypeOK, locks
<1>2. ASSUME NEW s \in Sessions, Lookup(s)
      PROVE  CallOK /\ TablesOK /\ TxOK
  <2>1. call[s] \in Calls
    BY <1>2 DEF Lookup, TypeOK
  <2>2. LockOrder(call[s]) \in Seq(Wallets)
    BY <2>1, LockOrderCovers
  <2>3. CASE at' = [at EXCEPT ![s] = "lock"]
               /\ todo' = [todo EXCEPT ![s] = LockOrder(call[s])]
    BY <1>0, <1>2, <2>1, <2>2, <2>3 DEF Lookup, TypeOK, locks
  <2>4. CASE at' = [at EXCEPT ![s] = "ok"] /\ UNCHANGED todo
    BY <1>0, <1>2, <2>1, <2>4 DEF Lookup, TypeOK, locks
  <2> QED
    BY <1>2, <2>3, <2>4 DEF Lookup, Goto
<1>3. ASSUME NEW s \in Sessions, LockRow(s)
      PROVE  CallOK /\ TablesOK /\ TxOK
  <2>1. call[s] \in Calls
    BY <1>3 DEF LockRow, TypeOK
  <2>2. LockOrder(call[s]) \in Seq(Wallets)
    BY <2>1, LockOrderCovers
  <2>3. CallOK
    BY <1>3, <2>1 DEF LockRow, Goto, TypeOK
  <2>4. TxOK
    <3>1. /\ todo' \in [Sessions -> Seq(Wallets)]
          /\ seen' \in [Sessions -> [Wallets -> Snapshot]]
          /\ walletOwner' \in [Wallets -> Owners]
      BY <1>3, <2>2 DEF LockRow, TypeOK
    <3>2. rowOwner' \in [Wallets -> [Keys -> Owners]]
      BY <1>3 DEF LockRow, TypeOK, Owners
    <3> QED
      BY <3>1, <3>2
  <2> QED
    BY <1>0, <1>3, <2>3, <2>4 DEF LockRow
<1>4. ASSUME NEW s \in Sessions, LockWallet(s)
      PROVE  CallOK /\ TablesOK /\ TxOK
  <2> DEFINE w == Head(todo[s])
  <2>1. /\ call[s] \in Calls
        /\ todo[s] \in Seq(Wallets)
        /\ todo[s] # <<>>
    BY <1>4 DEF LockWallet, TypeOK, WalletsOwned, Owned
  <2>2. w \in Wallets /\ Tail(todo[s]) \in Seq(Wallets)
    BY <2>1
  <2>3. CallOK
    BY <1>4, <2>1 DEF LockWallet, ReadWallet, Goto, TypeOK
  <2>4. Current(w) \in Snapshot
    BY <2>2 DEF Current, Snapshot, TypeOK, Atomic!TypeOK
  <2>5. TxOK
    <3>1. todo' \in [Sessions -> Seq(Wallets)]
      BY <1>4, <2>2 DEF LockWallet, ReadWallet, TypeOK
    <3>2. seen' \in [Sessions -> [Wallets -> Snapshot]]
      BY <1>4, <2>2, <2>4 DEF LockWallet, ReadWallet, TypeOK
    <3>3. /\ walletOwner' \in [Wallets -> Owners]
          /\ rowOwner' \in [Wallets -> [Keys -> Owners]]
      BY <1>4, <2>2 DEF LockWallet, TypeOK, Owners
    <3> QED
      BY <3>1, <3>2, <3>3
  <2> QED
    BY <1>0, <1>4, <2>3, <2>5 DEF LockWallet
<1>5. ASSUME NEW s \in Sessions, Write(s)
      PROVE  CallOK /\ TablesOK /\ TxOK
  <2>1. PICK kind \in Inserting \cup Finalizing : Writing(s, kind)
    BY <1>5 DEF Write, WriteReserve, WriteTopUp, WriteTransfer, WriteSpend,
                WriteCommit, WriteSettle, WriteRelease, Inserting, Finalizing
  <2>2. CallOK
    BY <2>1 DEF Writing, Goto, TypeOK
  <2>3. TxOK
    BY <2>1, EndTxTypes DEF Writing
  <2> QED
    BY <1>5, <2>2, <2>3, WriteTypes
<1>6. ASSUME NEW s \in Sessions, Rollback(s)
      PROVE  CallOK /\ TablesOK /\ TxOK
  <2>1. CallOK
    BY <1>6 DEF Rollback, Goto, TypeOK
  <2>2. TxOK
    BY <1>6, EndTxTypes DEF Rollback
  <2> QED
    BY <1>0, <1>6, <2>1, <2>2 DEF Rollback
<1>7. CASE UNCHANGED vars
  BY <1>0, <1>7 DEF vars, db, TypeOK
<1> QED
  BY <1>1, <1>2, <1>3, <1>4, <1>5, <1>6, <1>7 DEF Next

-----------------------------------------------------------------------------
(* Locks.                                                                  *)

\* A session that writes owns the wallets of its call and knows their columns.
LEMMA WriterOwns ==
  ASSUME TypeOK, WalletsOwned, NEW s \in Sessions, at[s] = "write",
         NEW w \in Touched(call[s])
  PROVE  walletOwner[w] = s /\ seen[s][w] = Current(w)
<1>1. Pending(s) = {}
  BY DEF WalletsOwned, Owned, Pending
<1> QED
  BY <1>1 DEF WalletsOwned, Owned

\* A transaction writes the columns of the wallets of its call only, ...
LEMMA OtherWalletsKept ==
  ASSUME TypeOK, NEW s \in Sessions, Write(s),
         NEW w \in Wallets, w \notin Touched(call[s])
  PROVE  Current(w)' = Current(w)
<1> DEFINE c == call[s]
<1>1. w # c.wallet /\ w # c.other
  BY DEF Touched
<1>2. balance'[w] = balance[w] /\ frozen'[w] = frozen[w]
  BY <1>1 DEF Write, WriteReserve, WriteTopUp, WriteTransfer, WriteSpend,
              WriteCommit, WriteSettle, WriteRelease, TypeOK, Atomic!TypeOK
<1>3. \A W \in SUBSET Wallets :
        w \notin W /\ UpdateVersions(s, W) => version'[w] = version[w]
  BY DEF UpdateVersions
<1>4. c.wallet \in Wallets /\ c.other \in Wallets
  <2>1. c \in Calls
    BY DEF Write, WriteReserve, WriteTopUp, WriteTransfer, WriteSpend,
           WriteCommit, WriteSettle, WriteRelease, Writing, TypeOK
  <2> QED
    BY <2>1, CallTypes
<1>5. version'[w] = version[w]
  BY <1>1, <1>3, <1>4
     DEF Write, WriteReserve, WriteTopUp, WriteTransfer, WriteSpend, WriteCommit,
         WriteSettle, WriteRelease, TypeOK
<1> QED
  BY <1>2, <1>5 DEF Current

\* ... and rows that were absent, or the hold it finalises.
LEMMA OtherRowsKept ==
  ASSUME TypeOK, NEW s \in Sessions, Write(s),
         NEW w \in Wallets, NEW k \in Keys, ledger[w][k].type # "none",
         ~(/\ call[s].kind \in Finalizing
           /\ call[s].wallet = w
           /\ call[s].key = k)
  PROVE  ledger'[w][k] = ledger[w][k]
<1> USE DEF TypeOK, Atomic!TypeOK
<1>1. CASE WriteReserve(s)
  BY <1>1 DEF WriteReserve, Insertable
<1>2. CASE WriteTopUp(s)
  BY <1>2 DEF WriteTopUp, Insertable
<1>3. CASE WriteTransfer(s)
  BY <1>3, ZenonT(40) DEF WriteTransfer, Insertable
<1>4. CASE WriteSpend(s)
  BY <1>4 DEF WriteSpend, Insertable
<1>5. CASE WriteCommit(s)
  BY <1>5 DEF WriteCommit, Writing, Finalizing
<1>6. CASE WriteSettle(s)
  BY <1>6 DEF WriteSettle, Writing, Finalizing
<1>7. CASE WriteRelease(s)
  BY <1>7 DEF WriteRelease, Writing, Finalizing
<1> QED
  BY <1>1, <1>2, <1>3, <1>4, <1>5, <1>6, <1>7 DEF Write

\* Ending a transaction frees no lock of another session.
LEMMA EndTxKeeps ==
  ASSUME TypeOK, NEW s \in Sessions, EndTx(s), NEW t \in Sessions, t # s
  PROVE  /\ todo'[t] = todo[t] /\ seen'[t] = seen[t]
         /\ \A w \in Wallets : walletOwner[w] = t => walletOwner'[w] = t
         /\ \A w \in Wallets, k \in Keys :
              rowOwner[w][k] = t => rowOwner'[w][k] = t
BY DEF EndTx, TypeOK

\* Nobody writes a wallet that another session has locked.
LEMMA OwnedKept ==
  ASSUME TypeOK, WalletsOwned, NEW s \in Sessions, Write(s),
         NEW t \in Sessions, t # s, NEW w \in Wallets, walletOwner[w] = t
  PROVE  Current(w)' = Current(w)
<1>1. at[s] = "write"
  BY DEF Write, WriteReserve, WriteTopUp, WriteTransfer, WriteSpend,
         WriteCommit, WriteSettle, WriteRelease, Writing
<1>2. w \notin Touched(call[s])
  BY <1>1, WriterOwns
<1> QED
  BY <1>2, OtherWalletsKept

\* What a session owns it keeps as long as others respect its locks.
LEMMA OwnedFrame ==
  ASSUME TypeOK, WalletsOwned, NEW t \in Sessions,
         at'[t] = at[t], call'[t] = call[t], todo'[t] = todo[t],
         seen'[t] = seen[t],
         \A w \in Wallets : walletOwner[w] = t =>
           walletOwner'[w] = t /\ Current(w)' = Current(w)
  PROVE  Owned(t)'
<1>1. Pending(t)' = Pending(t)
  BY DEF Pending
<1>2. at[t] \in {"lock", "write"} => Touched(call[t]) \subseteq Wallets
  <2>1. at[t] \in {"lock", "write"} => call[t] \in Calls
    BY DEF TypeOK
  <2> QED
    BY <2>1, CallTypes DEF Touched
<1> QED
  BY <1>1, <1>2 DEF WalletsOwned, Owned, Touched

\* Locking the wallets of a call one by one, in its order, and writing only
\* what is locked: no session reads what another is about to change.
LEMMA WalletsStep ==
  ASSUME TypeOK, WalletsOwned, [Next]_vars, NEW t \in Sessions
  PROVE  Owned(t)'
<1> USE DEF locks
<1>0. ASSUME UNCHANGED db, NEW w
      PROVE  Current(w)' = Current(w)
  BY <1>0 DEF db, Current
<1>1. ASSUME NEW s \in Sessions, NEW c \in Calls, Begin(s, c)
      PROVE  Owned(t)'
  <2>1. CASE t = s
    BY <1>1, <2>1 DEF Begin, Goto, TypeOK, Owned
  <2>2. CASE t # s
    BY <1>0, <1>1, <2>2, OwnedFrame DEF Begin, Goto, TypeOK
  <2> QED
    BY <2>1, <2>2
<1>2. ASSUME NEW s \in Sessions, call[s] \in Calls,
             Goto(s, "lock"), todo' = [todo EXCEPT ![s] = LockOrder(call[s])],
             UNCHANGED <<db, call, seen, walletOwner>>
      PROVE  Owned(t)'
  <2>1. CASE t = s
    <3>1. todo'[t] = LockOrder(call[s]) /\ at'[t] = "lock" /\ call'[t] = call[s]
      BY <1>2, <2>1 DEF Goto, TypeOK
    <3>2. \A w \in Touched(call[s]) : w \in Pending(t)'
      BY <1>2, <3>1, LockOrderCovers, SMTT(40) DEF Pending
    <3> QED
      BY <1>2, <3>1, <3>2, LockOrderCovers DEF Owned, Touched
  <2>2. CASE t # s
    BY <1>0, <1>2, <2>2, OwnedFrame DEF Goto, TypeOK
  <2> QED
    BY <2>1, <2>2
<1>3. ASSUME NEW s \in Sessions, Lookup(s)
      PROVE  Owned(t)'
  <2>1. call[s] \in Calls
    BY <1>3 DEF Lookup, TypeOK
  <2>2. CASE Goto(s, "lock") /\ todo' = [todo EXCEPT ![s] = LockOrder(call[s])]
    BY <1>2, <1>3, <2>1, <2>2 DEF Lookup
  <2>3. CASE Goto(s, "ok") /\ UNCHANGED todo
    <3>1. CASE t = s
      BY <2>3, <3>1 DEF Goto, TypeOK, Owned
    <3>2. CASE t # s
      BY <1>0, <1>3, <2>3, <3>2, OwnedFrame DEF Lookup, Goto, TypeOK
    <3> QED
      BY <3>1, <3>2
  <2> QED
    BY <1>3, <2>2, <2>3 DEF Lookup
<1>4. ASSUME NEW s \in Sessions, LockRow(s)
      PROVE  Owned(t)'
  <2>1. call[s] \in Calls
    BY <1>4 DEF LockRow, TypeOK
  <2> QED
    BY <1>2, <1>4, <2>1 DEF LockRow
<1>5. ASSUME NEW s \in Sessions, LockWallet(s)
      PROVE  Owned(t)'
  <2> DEFINE h == Head(todo[s])
  <2>1. todo[s] \in Seq(Wallets) /\ todo[s] # <<>> /\ at[s] = "lock"
    BY <1>5 DEF LockWallet, TypeOK, WalletsOwned, Owned
  <2>2. /\ h \in Wallets
        /\ walletOwner[h] = Nobody
        /\ walletOwner' = [walletOwner EXCEPT ![h] = s]
        /\ seen' = [seen EXCEPT ![s][h] = Current(h)]
        /\ todo' = [todo EXCEPT ![s] = Tail(todo[s])]
        /\ at' = [at EXCEPT ![s] =
                   IF Len(todo[s]) = 1 THEN "write" ELSE "lock"]
        /\ UNCHANGED <<db, call>>
    BY <1>5, <2>1 DEF LockWallet, ReadWallet, Goto, TypeOK
  <2>3. CASE t = s
    <3>1. /\ todo'[t] = Tail(todo[s])
          /\ at'[t] = IF Len(todo[s]) = 1 THEN "write" ELSE "lock"
          /\ call'[t] = call[s]
      BY <2>2, <2>3 DEF TypeOK
    <3>2. /\ at'[t] = "lock" => todo'[t] # <<>>
          /\ at'[t] = "write" => todo'[t] = <<>>
      <4>1. /\ Len(Tail(todo[s])) = Len(todo[s]) - 1
            /\ Tail(todo[s]) \in Seq(Wallets)
            /\ Len(todo[s]) \in Nat
        BY <2>1
      <4>2. Tail(todo[s]) = <<>> <=> Len(todo[s]) = 1
        <5>1. Tail(todo[s]) = <<>> => Len(Tail(todo[s])) = 0
          BY EmptySeq, Zenon
        <5>2. Tail(todo[s]) # <<>> => Len(Tail(todo[s])) # 0
          BY <4>1, EmptySeq, Zenon
        <5>3. Len(Tail(todo[s])) = 0 <=> Len(todo[s]) = 1
          BY <4>1
        <5> QED
          BY <5>1, <5>2, <5>3, Zenon
      <4> QED
        BY <3>1, <4>2
    <3>3. ASSUME NEW w \in Touched(call[s]), w \notin Pending(t)'
          PROVE  walletOwner'[w] = t /\ seen'[t][w] = Current(w)'
      <4>1. w \in Wallets
        <5>1. call[s] \in Calls
          BY <2>1 DEF TypeOK
        <5> QED
          BY <5>1, CallTypes DEF Touched
      <4>2. CASE w = h
        BY <1>0, <2>2, <2>3, <4>1, <4>2 DEF TypeOK
      <4>3. CASE w # h
        <5>1. w \notin Pending(s)
          <6>1. ASSUME NEW i \in DOMAIN todo[s] PROVE todo[s][i] # w
            <7>1. CASE i = 1
              BY <2>1, <4>3, <7>1
            <7>2. CASE i # 1
              <8>1. i - 1 \in DOMAIN Tail(todo[s])
                       /\ Tail(todo[s])[i - 1] = todo[s][i]
                BY <2>1, <7>2
              <8> QED
                BY <3>1, <3>3, <8>1 DEF Pending
            <7> QED
              BY <7>1, <7>2
          <6> QED
            BY <6>1 DEF Pending
        <5>2. walletOwner[w] = s /\ seen[s][w] = Current(w)
          BY <2>1, <5>1 DEF WalletsOwned, Owned
        <5> QED
          BY <1>0, <2>2, <2>3, <4>1, <4>3, <5>2 DEF TypeOK
      <4> QED
        BY <4>2, <4>3
    <3> QED
      BY <3>1, <3>2, <3>3 DEF Owned, Touched
  <2>4. CASE t # s
    <3>1. \A w \in Wallets : walletOwner[w] = t => walletOwner'[w] = t
      BY <2>2, NobodyAssumption DEF TypeOK
    <3> QED
      BY <1>0, <2>2, <2>4, <3>1, OwnedFrame DEF TypeOK
  <2> QED
    BY <2>3, <2>4
<1>6. ASSUME NEW s \in Sessions, Write(s)
      PROVE  Owned(t)'
  <2>1. PICK kind \in Inserting \cup Finalizing : Writing(s, kind)
    BY <1>6 DEF Write, WriteReserve, WriteTopUp, WriteTransfer, WriteSpend,
                WriteCommit, WriteSettle, WriteRelease, Inserting, Finalizing
  <2>2. CASE t = s
    BY <2>1, <2>2 DEF Writing, Goto, TypeOK, Owned
  <2>3. CASE t # s
    <3>1. at'[t] = at[t] /\ call'[t] = call[t]
      BY <2>1, <2>3 DEF Writing, Goto, TypeOK
    <3> QED
      BY <1>6, <2>1, <2>3, <3>1, EndTxKeeps, OwnedKept, OwnedFrame DEF Writing
  <2> QED
    BY <2>2, <2>3
<1>7. ASSUME NEW s \in Sessions, Rollback(s)
      PROVE  Owned(t)'
  <2>1. CASE t = s
    BY <1>7, <2>1 DEF Rollback, Goto, TypeOK, Owned
  <2>2. CASE t # s
    <3>1. at'[t] = at[t] /\ call'[t] = call[t]
      BY <1>7, <2>2 DEF Rollback, Goto, TypeOK
    <3> QED
      BY <1>0, <1>7, <2>2, <3>1, EndTxKeeps, OwnedFrame DEF Rollback
  <2> QED
    BY <2>1, <2>2
<1>8. CASE UNCHANGED vars
  BY <1>0, <1>8, OwnedFrame DEF vars, db
<1> QED
  BY <1>1, <1>3, <1>4, <1>5, <1>6, <1>7, <1>8 DEF Next

\* A hold stays open and locked as long as others respect its lock.
LEMMA HoldFrame ==
  ASSUME TypeOK, HoldsOwned, NEW t \in Sessions,
         at'[t] = at[t], call'[t] = call[t],
         \A w \in Wallets, k \in Keys : rowOwner[w][k] = t =>
           /\ rowOwner'[w][k] = t
           /\ ledger[w][k].type = "reserve" => ledger'[w][k] = ledger[w][k]
  PROVE  HoldOwned(t)'
<1>1. at[t] \in {"lock", "write"} =>
        call[t].wallet \in Wallets /\ call[t].key \in Keys
  BY CallTypes DEF TypeOK
<1> QED
  BY <1>1 DEF HoldsOwned, HoldOwned

\* A hold that passed its check stays open until its session writes it.
LEMMA HoldsStep ==
  ASSUME TypeOK, WalletsOwned, HoldsOwned, [Next]_vars, NEW t \in Sessions
  PROVE  HoldOwned(t)'
<1> USE DEF locks, db
<1>1. ASSUME NEW s \in Sessions, NEW c \in Calls, Begin(s, c)
      PROVE  HoldOwned(t)'
  <2>1. CASE t = s
    BY <1>1, <2>1 DEF Begin, Goto, TypeOK, HoldOwned
  <2>2. CASE t # s
    BY <1>1, <2>2, HoldFrame DEF Begin, Goto, TypeOK
  <2> QED
    BY <2>1, <2>2
<1>2. ASSUME NEW s \in Sessions, Lookup(s)
      PROVE  HoldOwned(t)'
  <2>1. CASE t = s
    <3>1. call[s].kind \notin Finalizing
      BY <1>2 DEF Lookup, HoldsOwned, HoldOwned, Inserting, Finalizing
    <3>2. at'[t] \in {"lock", "ok"} /\ call' = call
      BY <1>2, <2>1 DEF Lookup, Goto, TypeOK
    <3> QED
      BY <2>1, <3>1, <3>2 DEF HoldOwned
  <2>2. CASE t # s
    BY <1>2, <2>2, HoldFrame DEF Lookup, Goto, TypeOK
  <2> QED
    BY <2>1, <2>2
<1>3. ASSUME NEW s \in Sessions, LockRow(s)
      PROVE  HoldOwned(t)'
  <2>1. call[s] \in Calls /\ call[s].wallet \in Wallets /\ call[s].key \in Keys
    BY <1>3, CallTypes DEF LockRow, TypeOK
  <2>2. CASE t = s
    BY <1>3, <2>1, <2>2 DEF LockRow, Goto, TypeOK, HoldOwned
  <2>3. CASE t # s
    <3>1. \A w \in Wallets, k \in Keys :
            rowOwner[w][k] = t => rowOwner'[w][k] = t
      BY <1>3, <2>1, NobodyAssumption DEF LockRow, TypeOK
    <3> QED
      BY <1>3, <2>3, <3>1, HoldFrame DEF LockRow, Goto, TypeOK
  <2> QED
    BY <2>2, <2>3
<1>4. ASSUME NEW s \in Sessions, LockWallet(s)
      PROVE  HoldOwned(t)'
  <2>1. CASE t = s
    <3>1. at[t] = "lock" /\ at'[t] \in {"lock", "write"}
      BY <1>4, <2>1 DEF LockWallet, ReadWallet, Goto, TypeOK
    <3> QED
      BY <1>4, <3>1 DEF LockWallet, HoldsOwned, HoldOwned
  <2>2. CASE t # s
    BY <1>4, <2>2, HoldFrame DEF LockWallet, ReadWallet, Goto, TypeOK
  <2> QED
    BY <2>1, <2>2
<1>5. ASSUME NEW s \in Sessions, Write(s)
      PROVE  HoldOwned(t)'
  <2>1. PICK kind \in Inserting \cup Finalizing : Writing(s, kind)
    BY <1>5 DEF Write, WriteReserve, WriteTopUp, WriteTransfer, WriteSpend,
                WriteCommit, WriteSettle, WriteRelease, Inserting, Finalizing
  <2>2. CASE t = s
    BY <2>1, <2>2 DEF Writing, Goto, TypeOK, HoldOwned
  <2>3. CASE t # s
    <3>1. at'[t] = at[t] /\ call'[t] = call[t]
      BY <2>1, <2>3 DEF Writing, Goto, TypeOK
    <3>2. ASSUME NEW w \in Wallets, NEW k \in Keys, rowOwner[w][k] = t,
                 ledger[w][k].type = "reserve"
          PROVE  ledger'[w][k] = ledger[w][k]
      <4>1. at[s] = "write"
        BY <2>1 DEF Writing
      <4>2. ~(/\ call[s].kind \in Finalizing
              /\ call[s].wallet = w
              /\ call[s].key = k)
        BY <2>3, <3>2, <4>1 DEF HoldsOwned, HoldOwned
      <4>3. ledger[w][k].type # "none"
        BY <3>2
      <4> QED
        BY <1>5, <4>2, <4>3, OtherRowsKept
    <3>3. \A w \in Wallets, k \in Keys :
            rowOwner[w][k] = t => rowOwner'[w][k] = t
      BY <2>1, <2>3, EndTxKeeps DEF Writing
    <3> QED
      BY <3>1, <3>2, <3>3, HoldFrame
  <2> QED
    BY <2>2, <2>3
<1>6. ASSUME NEW s \in Sessions, Rollback(s)
      PROVE  HoldOwned(t)'
  <2>1. CASE t = s
    BY <1>6, <2>1 DEF Rollback, Goto, TypeOK, HoldOwned
  <2>2. CASE t # s
    <3>1. at'[t] = at[t] /\ call'[t] = call[t]
      BY <1>6, <2>2 DEF Rollback, Goto, TypeOK
    <3> QED
      BY <1>6, <2>2, <3>1, EndTxKeeps, HoldFrame DEF Rollback
  <2> QED
    BY <2>1, <2>2
<1>7. CASE UNCHANGED vars
  BY <1>7, HoldFrame DEF vars
<1> QED
  BY <1>1, <1>2, <1>3, <1>4, <1>5, <1>6, <1>7 DEF Next

-----------------------------------------------------------------------------
(* Refinement.                                                             *)

LEMMA InitIInv == Init => IInv
<1> SUFFICES ASSUME Init PROVE IInv
  OBVIOUS
<1>1. Atomic!TypeOK
  BY MaxAmountAssumption
     DEF Init, Atomic!Init, Atomic!TypeOK, Atomic!NoRow, Atomic!Row,
         Atomic!TxTypes, Atomic!Debits, Atomic!Credits
<1>2. seen \in [Sessions -> [Wallets -> Snapshot]]
  BY DEF Init, Unread, Snapshot
<1>3. TypeOK
  BY <1>1, <1>2 DEF Init, TypeOK, Owners
<1> QED
  BY <1>3 DEF Init, IInv, WalletsOwned, HoldsOwned, Owned, HoldOwned

LEMMA IInvStep == IInv /\ [Next]_vars => IInv'
BY TypeStep, WalletsStep, HoldsStep DEF IInv, WalletsOwned, HoldsOwned

\* A committed transaction is one operation of the atomic wallet: what the
\* session compared with when it took its locks is still so when it writes.
LEMMA WriteIsAtomic ==
  ASSUME IInv, NEW s \in Sessions, Write(s)
  PROVE  Atomic!Next
<1> DEFINE c == call[s]  v == call[s].wallet  w == call[s].other
           k == call[s].key  a == call[s].amount
<1>0. c \in Calls /\ at[s] = "write" /\ TypeOK
  BY DEF IInv, Write, WriteReserve, WriteTopUp, WriteTransfer, WriteSpend,
         WriteCommit, WriteSettle, WriteRelease, Writing, TypeOK
<1>1. /\ v \in Wallets /\ w \in Wallets /\ k \in Keys
      /\ c.kind = "transfer" => v # w
      /\ c.kind \in Inserting => a \in Atomic!Amounts
      /\ a \in 0 .. MaxAmount
  BY <1>0, CallTypes DEF Atomic!Amounts
<1>2. seen[s][v] = Current(v) /\ seen[s][w] = Current(w)
  BY <1>0, WriterOwns DEF IInv, Touched
<1>3. /\ seen[s][v].balance = balance[v]
      /\ seen[s][v].frozen = frozen[v]
      /\ SeenAvailable(s, v) = Atomic!Available(v)
  BY <1>2 DEF Current, SeenAvailable, Atomic!Available
<1>4. c.kind \in Finalizing => Atomic!Held(v, k)
  BY <1>0 DEF IInv, HoldsOwned, HoldOwned, Atomic!Held
<1>5. balance \in [Wallets -> Int] /\ frozen \in [Wallets -> Int]
  BY <1>0 DEF TypeOK, Atomic!TypeOK
<1>6. ledger[v][k].amount \in Int
  BY <1>0, <1>1, RowAmounts DEF TypeOK, Atomic!TypeOK
<1> USE DEF Writing, Inserting, Finalizing, Row, Insertable, Atomic!Fresh,
            Atomic!WriteRow, Atomic!Move
<1>7. ASSUME WriteReserve(s) PROVE Atomic!Reserve(v, k, a)
  BY <1>3, <1>7 DEF WriteReserve, Atomic!Reserve
<1>8. ASSUME WriteTopUp(s) PROVE Atomic!TopUp(v, k, a)
  BY <1>8 DEF WriteTopUp, Atomic!TopUp
<1>9. ASSUME WriteTransfer(s) PROVE Atomic!Transfer(v, w, k, a)
  BY <1>1, <1>3, <1>9 DEF WriteTransfer, Atomic!Transfer
<1>10. ASSUME WriteSpend(s) PROVE Atomic!Spend(v, k, a)
  BY <1>1, <1>3, <1>5, <1>10, MaxAmountAssumption DEF WriteSpend, Atomic!Spend
<1>11. ASSUME WriteCommit(s) PROVE Atomic!Commit(v, k)
  BY <1>1, <1>4, <1>5, <1>6, <1>11 DEF WriteCommit, Atomic!Commit
<1>12. ASSUME WriteSettle(s) PROVE Atomic!Settle(v, k, a)
  BY <1>1, <1>3, <1>4, <1>5, <1>6, <1>12, MaxAmountAssumption
     DEF WriteSettle, Atomic!Settle
<1>13. ASSUME WriteRelease(s) PROVE Atomic!Release(v, k)
  BY <1>1, <1>4, <1>5, <1>6, <1>13 DEF WriteRelease, Atomic!Release
<1>14. /\ WriteReserve(s) \/ WriteTopUp(s) \/ WriteTransfer(s) \/ WriteSpend(s)
            => a \in Atomic!Amounts
  BY <1>1 DEF WriteReserve, WriteTopUp, WriteTransfer, WriteSpend
<1> QED
  BY <1>1, <1>7, <1>8, <1>9, <1>10, <1>11, <1>12, <1>13, <1>14
     DEF Write, Atomic!Next, Atomic!MeteredNext, Atomic!MeteredStep,
         Atomic!Purchase

\* The statements before the writes, and rollbacks, change nothing committed.
LEMMA StepIsAtomic ==
  ASSUME IInv, [Next]_vars
  PROVE  [Atomic!Next]_(Atomic!vars)
<1> USE DEF Atomic!vars, db
<1>1. ASSUME NEW s \in Sessions, Write(s)
      PROVE  Atomic!Next
  BY <1>1, WriteIsAtomic
<1>2. ASSUME NEW s \in Sessions,
             \/ \E c \in Calls : Begin(s, c)
             \/ Lookup(s) \/ LockRow(s) \/ LockWallet(s) \/ Rollback(s)
      PROVE  UNCHANGED <<balance, frozen, ledger>>
  BY <1>2 DEF Begin, Lookup, LockRow, LockWallet, Rollback
<1> QED
  BY <1>1, <1>2 DEF Next, vars

\* Whatever the interleaving of the statements of any number of sessions, and
\* wherever one of them fails, the committed tables behave as if the operations
\* ran one after the other.
THEOREM StatementsImplementWallet == Spec => ImplementsWallet
<1>1. Init => Atomic!Init
  BY DEF Init
<1> QED
  BY InitIInv, IInvStep, StepIsAtomic, <1>1, PTL
     DEF Spec, ImplementsWallet, Atomic!Spec

\* At its writes a session works with current values: what it compared is
\* never stale, and no version check fails.
THEOREM ReadsStayCurrent == Spec => []ReadsAreCurrent
<1>1. IInv => ReadsAreCurrent
  BY WriterOwns DEF IInv, ReadsAreCurrent
<1> QED
  BY InitIInv, IInvStep, <1>1, PTL DEF Spec

\* Racing calls never finalise a hold twice.
THEOREM HoldsStayOpenUntilWritten == Spec => []HoldsStayOpen
<1>1. IInv => HoldsStayOpen
  BY DEF IInv, HoldsOwned, HoldOwned, HoldsStayOpen
<1> QED
  BY InitIInv, IInvStep, <1>1, PTL DEF Spec

\* The tables, the locks and the calls stay typed.
THEOREM TypeCorrect == Spec => []TypeOK
<1>1. IInv => TypeOK
  BY DEF IInv
<1> QED
  BY InitIInv, IInvStep, <1>1, PTL DEF Spec

-----------------------------------------------------------------------------
(* Acknowledged transfers.                                                 *)

RowOf(s) == ledger[call[s].wallet][call[s].key]

\* An acknowledged transfer has a row, and one of a transfer has its amount.
Acknowledged(s) ==
  at[s] = "ok" /\ call[s].kind = "transfer" =>
    /\ RowOf(s).type # "none"
    /\ RowOf(s).type \in {"transfer_in", "transfer_out"} =>
         Absolute(RowOf(s).amount) = call[s].amount

\* A row that exists only changes into a finalised hold.
LEMMA RowsBecomeFinal ==
  ASSUME IInv, [Next]_vars, NEW w \in Wallets, NEW k \in Keys,
         ledger[w][k].type # "none"
  PROVE  \/ ledger'[w][k] = ledger[w][k]
         \/ ledger'[w][k].type \in {"charge", "release"}
<1>1. ASSUME NEW s \in Sessions, Write(s)
      PROVE  \/ ledger'[w][k] = ledger[w][k]
             \/ ledger'[w][k].type \in {"charge", "release"}
  <2> USE DEF IInv, TypeOK, Atomic!TypeOK
  <2>1. CASE WriteCommit(s) \/ WriteSettle(s) \/ WriteRelease(s)
    <3>1. PICK t \in {"charge", "release"}, a \in Int :
            ledger' = [ledger EXCEPT ![call[s].wallet][call[s].key] = Row(t, a)]
      <4>1. /\ call[s].amount \in Int
            /\ ledger[call[s].wallet][call[s].key].amount \in Int
        <5>1. call[s] \in Calls
          BY <2>1 DEF WriteCommit, WriteSettle, WriteRelease, Writing
        <5> QED
          BY <5>1, CallTypes, RowAmounts, MaxAmountAssumption
      <4> QED
        BY <2>1, <4>1 DEF WriteCommit, WriteSettle, WriteRelease
    <3>2. Row(t, a).type \in {"charge", "release"}
      BY DEF Row
    <3> QED
      BY <3>1, <3>2
  <2>2. CASE WriteReserve(s) \/ WriteTopUp(s) \/ WriteTransfer(s) \/ WriteSpend(s)
    <3>1. call[s].kind \notin Finalizing
      BY <2>2 DEF WriteReserve, WriteTopUp, WriteTransfer, WriteSpend, Writing,
                  Finalizing
    <3> QED
      BY <1>1, <3>1, OtherRowsKept
  <2> QED
    BY <1>1, <2>1, <2>2 DEF Write
<1>2. ASSUME NEW s \in Sessions,
             \/ \E c \in Calls : Begin(s, c)
             \/ Lookup(s) \/ LockRow(s) \/ LockWallet(s) \/ Rollback(s)
      PROVE  ledger' = ledger
  BY <1>2 DEF Begin, Lookup, LockRow, LockWallet, Rollback, db
<1> QED
  BY <1>1, <1>2 DEF Next, vars

\* An acknowledgment stays true, because the row it was about is final.
LEMMA AcknowledgedFrame ==
  ASSUME IInv, [Next]_vars, NEW t \in Sessions, Acknowledged(t),
         at'[t] = "ok" => at[t] = "ok" /\ call'[t] = call[t]
  PROVE  Acknowledged(t)'
<1> SUFFICES ASSUME at'[t] = "ok", call'[t].kind = "transfer"
             PROVE  /\ RowOf(t)'.type # "none"
                    /\ RowOf(t)'.type \in {"transfer_in", "transfer_out"} =>
                         Absolute(RowOf(t)'.amount) = call'[t].amount
  BY DEF Acknowledged
<1>1. /\ call'[t] = call[t]
      /\ call[t].wallet \in Wallets /\ call[t].key \in Keys
      /\ RowOf(t).type # "none"
      /\ RowOf(t).type \in {"transfer_in", "transfer_out"} =>
           Absolute(RowOf(t).amount) = call[t].amount
  BY CallTypes DEF IInv, TypeOK, Acknowledged
<1>2. \/ RowOf(t)' = RowOf(t)
      \/ RowOf(t)'.type \in {"charge", "release"}
  BY <1>1, RowsBecomeFinal DEF RowOf
<1> QED
  BY <1>1, <1>2

LEMMA AcknowledgedStep ==
  ASSUME IInv, [Next]_vars, NEW t \in Sessions, Acknowledged(t)
  PROVE  Acknowledged(t)'
<1> USE DEF IInv, TypeOK
<1>1. ASSUME NEW s \in Sessions,
             \/ \E c \in Calls : Begin(s, c)
             \/ LockRow(s) \/ LockWallet(s) \/ Rollback(s)
      PROVE  at'[t] = "ok" => at[t] = "ok" /\ call'[t] = call[t]
  BY <1>1 DEF Begin, LockRow, LockWallet, ReadWallet, Rollback, Goto
<1>2. ASSUME NEW s \in Sessions, Lookup(s)
      PROVE  Acknowledged(t)'
  <2>1. CASE t = s /\ ReplayAccepted(call[s])
    <3>1. call' = call /\ ledger' = ledger
      BY <1>2 DEF Lookup, db
    <3> QED
      BY <2>1, <3>1 DEF ReplayAccepted, Acknowledged, RowOf
  <2>2. CASE ~(t = s /\ ReplayAccepted(call[s]))
    <3>1. at'[t] = "ok" => at[t] = "ok" /\ call'[t] = call[t]
      BY <1>2, <2>2 DEF Lookup, Goto
    <3> QED
      BY <3>1, AcknowledgedFrame
  <2> QED
    BY <2>1, <2>2
<1>3. ASSUME NEW s \in Sessions, Write(s)
      PROVE  Acknowledged(t)'
  <2>1. PICK kind \in Inserting \cup Finalizing : Writing(s, kind)
    BY <1>3 DEF Write, WriteReserve, WriteTopUp, WriteTransfer, WriteSpend,
                WriteCommit, WriteSettle, WriteRelease, Inserting, Finalizing
  <2>2. CASE t # s
    <3>1. at'[t] = at[t] /\ call'[t] = call[t]
      BY <2>1, <2>2 DEF Writing, Goto
    <3> QED
      BY <3>1, AcknowledgedFrame
  <2>3. CASE t = s /\ at'[t] = "ok" /\ call'[t].kind = "transfer"
    <3>1. /\ call'[t] = call[t] /\ call[t] \in Calls
      BY <2>1, <2>3 DEF Writing
    <3>2. WriteTransfer(s)
      BY <1>3, <2>3, <3>1 DEF Write, WriteReserve, WriteTopUp, WriteTransfer,
             WriteSpend, WriteCommit, WriteSettle, WriteRelease, Writing
    <3>3. /\ call[t].wallet \in Wallets /\ call[t].key \in Keys
          /\ call[t].other # call[t].wallet
          /\ call[t].amount \in 0 .. MaxAmount
      BY <2>3, <3>1, CallTypes
    <3>4. RowOf(t)' = Row("transfer_out", -call[t].amount)
      BY <2>3, <3>1, <3>2, <3>3 DEF WriteTransfer, RowOf, Atomic!TypeOK
    <3>5. /\ RowOf(t)'.type = "transfer_out"
          /\ RowOf(t)'.amount = -call[t].amount
      BY <3>4 DEF Row
    <3>6. Absolute(-call[t].amount) = call[t].amount
      BY <3>3, MaxAmountAssumption DEF Absolute
    <3> QED
      BY <3>1, <3>5, <3>6 DEF Acknowledged
  <2>4. CASE t = s /\ ~(at'[t] = "ok" /\ call'[t].kind = "transfer")
    BY <2>4 DEF Acknowledged
  <2> QED
    BY <2>2, <2>3, <2>4
<1>4. CASE UNCHANGED vars
  BY <1>4, AcknowledgedFrame DEF vars
<1> QED
  BY <1>1, <1>2, <1>3, <1>4, AcknowledgedFrame DEF Next

\* Whatever is acknowledged under the key of a transfer is what it moved.
THEOREM AcknowledgedTransfersMoved == Spec => []AcknowledgedAmount
<1> DEFINE Inv == IInv /\ \A s \in Sessions : Acknowledged(s)
<1>1. Init => Inv
  BY InitIInv DEF Init, Acknowledged
<1>2. Inv /\ [Next]_vars => Inv'
  <2> SUFFICES ASSUME Inv, [Next]_vars PROVE Inv'
    OBVIOUS
  <2>1. ASSUME NEW t \in Sessions PROVE Acknowledged(t)'
    BY AcknowledgedStep
  <2> QED
    BY <2>1, IInvStep
<1>3. Inv => AcknowledgedAmount
  BY DEF Acknowledged, AcknowledgedAmount, RowOf
<1> QED
  BY <1>1, <1>2, <1>3, PTL DEF Spec
-----------------------------------------------------------------------------
(* No deadlock.                                                            *)

Ascending(q) == \A i, j \in DOMAIN q : i < j => q[i] < q[j]

\* A session holds locks between its first and its writes only, and those of
\* wallets are before the one it asks for.
Ordered(s) ==
  /\ Ascending(todo[s])
  /\ \A w \in Wallets : walletOwner[w] = s =>
       /\ at[s] \in {"lock", "write"}
       /\ at[s] = "lock" => w < Head(todo[s])
  /\ \A w \in Wallets, k \in Keys :
       rowOwner[w][k] = s => at[s] \in {"lock", "write"}

LocksOrdered == \A s \in Sessions : Ordered(s)

\* Every set of natural numbers has a least member, ...
LEMMA LeastNatural ==
  ASSUME NEW T, T \subseteq Nat, T # {}
  PROVE  \E m \in T : \A n \in T : m <= n
<1> DEFINE R == OpToRel(<, Nat)
<1>1. IsWellFoundedOn(R, Nat)
  BY NatLessThanWellFounded
<1>2. \A x, y \in Nat : <<x, y>> \in R <=> x < y
  BY DEF OpToRel
<1> HIDE DEF R
<1>3. PICK m \in T : \A y \in T : ~ (<<y, m>> \in R)
  BY <1>1, WFMin
<1>4. ASSUME NEW n \in T PROVE m <= n
  <2>1. n \in Nat /\ m \in Nat
    OBVIOUS
  <2>2. ~ (n < m)
    BY <2>1, <1>2, <1>3
  <2> QED
    BY <2>1, <2>2
<1> QED
  BY <1>4

\* ... and an integer function on a finite set has a highest value: the member
\* of which the fewest are above.
LEMMA HighestValue ==
  ASSUME NEW S, IsFiniteSet(S), S # {}, NEW f, \A s \in S : f[s] \in Int
  PROVE  \E s \in S : \A t \in S : f[t] <= f[s]
<1> DEFINE Above(s) == {t \in S : f[t] > f[s]}
           Sizes == {Cardinality(Above(s)) : s \in S}
<1>1. \A s \in S : IsFiniteSet(Above(s)) /\ Cardinality(Above(s)) \in Nat
  BY FS_Subset, FS_CardinalityType
<1>2. Sizes \subseteq Nat /\ Sizes # {}
  BY <1>1
<1>3. PICK s \in S : \A t \in S : Cardinality(Above(s)) <= Cardinality(Above(t))
  <2>1. PICK m \in Sizes : \A n \in Sizes : m <= n
    <3> HIDE DEF Sizes
    <3> QED
      BY <1>2, LeastNatural
  <2> QED
    BY <2>1
<1>4. ASSUME NEW t \in S PROVE f[t] <= f[s]
  <2> SUFFICES ASSUME ~(f[t] <= f[s]) PROVE FALSE
    OBVIOUS
  <2>1. f[t] \in Int /\ f[s] \in Int /\ f[t] > f[s]
    OBVIOUS
  <2>2. Above(t) \in SUBSET Above(s)
    <3> SUFFICES ASSUME NEW u \in S, f[u] > f[t] PROVE f[u] > f[s]
      OBVIOUS
    <3>1. f[u] \in Int
      OBVIOUS
    <3> QED
      BY <2>1, <3>1
  <2>3. t \in Above(s) /\ t \notin Above(t)
    BY <2>1
  <2> HIDE DEF Above
  <2>4. /\ Cardinality(Above(t)) <= Cardinality(Above(s))
        /\ Cardinality(Above(s)) = Cardinality(Above(t)) => Above(s) = Above(t)
    BY <1>1, <2>2, FS_Subset
  <2>5. Cardinality(Above(s)) <= Cardinality(Above(t))
    BY <1>3
  <2> QED
    BY <1>1, <2>3, <2>4, <2>5
<1> QED
  BY <1>4

\* Transfer locks its two wallets in the order of their ids.
LEMMA LockOrderAscends ==
  ASSUME NEW c \in Calls
  PROVE  Ascending(LockOrder(c))
<1>1. c.wallet \in Int /\ c.other \in Int
  BY CallTypes, WalletIdsAssumption
<1> QED
  BY <1>1 DEF LockOrder, Ascending

LEMMA SecondOfMany ==
  ASSUME NEW S, NEW q \in Seq(S), q # <<>>, Len(q) # 1
  PROVE  /\ 1 \in DOMAIN q /\ 2 \in DOMAIN q /\ Head(q) = q[1]
         /\ Head(Tail(q)) = q[2] /\ q[2] \in S
<1>1. Len(q) \in Nat /\ Len(q) # 0 /\ DOMAIN q = 1 .. Len(q)
  BY EmptySeq
<1>2. 1 \in DOMAIN q /\ 2 \in DOMAIN q
  BY <1>1
<1>3. Tail(q) \in Seq(S) /\ Len(Tail(q)) = Len(q) - 1
  OBVIOUS
<1>4. Tail(q)[1] = q[2]
  BY <1>1
<1> QED
  BY <1>1, <1>2, <1>3, <1>4

LEMMA Before ==
  ASSUME NEW a \in Int, NEW b \in Int, NEW c \in Int, a < b, b < c
  PROVE  a < c
OBVIOUS

\* The locks of a session that does not move are ordered as they were.
LEMMA OrderFrame ==
  ASSUME NEW t \in Sessions, Ordered(t), at'[t] = at[t], todo'[t] = todo[t],
         \A w \in Wallets : walletOwner'[w] = t => walletOwner[w] = t,
         \A w \in Wallets, k \in Keys : rowOwner'[w][k] = t => rowOwner[w][k] = t
  PROVE  Ordered(t)'
BY DEF Ordered

\* A session that holds nothing orders what it is about to lock.
LEMMA OrderStart ==
  ASSUME NEW t \in Sessions, Ascending(todo'[t]),
         \A w \in Wallets : walletOwner'[w] # t,
         \A w \in Wallets, k \in Keys : rowOwner'[w][k] = t => at'[t] \in {"lock", "write"}
  PROVE  Ordered(t)'
BY DEF Ordered

\* The end of a transaction frees its locks and no others.
LEMMA EndTxFrees ==
  ASSUME TypeOK, LocksOrdered, NEW s \in Sessions, EndTx(s), NEW t \in Sessions,
         t # s => at'[t] = at[t]
  PROVE  Ordered(t)'
<1>1. CASE t = s
  <2>1. \A w \in Wallets : walletOwner'[w] # t
    BY <1>1, NobodyAssumption DEF EndTx
  <2>2. \A w \in Wallets, k \in Keys : rowOwner'[w][k] # t
    BY <1>1, NobodyAssumption DEF EndTx
  <2>3. Ascending(todo'[t])
    BY <1>1 DEF EndTx, TypeOK, Ascending
  <2> QED
    BY <2>1, <2>2, <2>3, OrderStart
<1>2. CASE t # s
  <2>1. todo'[t] = todo[t]
    BY <1>2, EndTxKeeps
  <2>2. \A w \in Wallets : walletOwner'[w] = t => walletOwner[w] = t
    BY NobodyAssumption DEF EndTx
  <2>3. \A w \in Wallets, k \in Keys : rowOwner'[w][k] = t => rowOwner[w][k] = t
    BY NobodyAssumption DEF EndTx
  <2> QED
    BY <1>2, <2>1, <2>2, <2>3, OrderFrame DEF LocksOrdered
<1> QED
  BY <1>1, <1>2

LEMMA OrderStep ==
  ASSUME TypeOK, WalletsOwned, LocksOrdered, [Next]_vars, NEW t \in Sessions
  PROVE  Ordered(t)'
<1> USE DEF locks
<1>0. Ordered(t)
  BY DEF LocksOrdered
<1>1. at[t] \notin {"lock", "write"} =>
        /\ \A w \in Wallets : walletOwner[w] # t
        /\ \A w \in Wallets, k \in Keys : rowOwner[w][k] # t
  BY <1>0 DEF Ordered
<1>2. ASSUME NEW s \in Sessions,
             (\E c \in Calls : Begin(s, c)) \/ Lookup(s)
      PROVE  Ordered(t)'
  <2>1. UNCHANGED locks /\ at[s] \notin {"lock", "write"}
    BY <1>2 DEF Begin, Lookup
  <2>2. CASE t = s
    <3>1. todo'[t] = todo[t] \/ todo'[t] = LockOrder(call[s])
      BY <1>2, <2>2 DEF Begin, Lookup, TypeOK
    <3>2. at[s] = "lookup" => call[s] \in Calls
      BY DEF TypeOK
    <3>3. at[s] # "lookup" => todo'[t] = todo[t]
      BY <1>2 DEF Begin, Lookup
    <3>4. Ascending(todo'[t])
      BY <1>0, <3>1, <3>2, <3>3, LockOrderAscends DEF Ordered
    <3> QED
      BY <1>1, <2>1, <2>2, <3>4, OrderStart
  <2>3. CASE t # s
    <3>1. at'[t] = at[t] /\ todo'[t] = todo[t]
      BY <1>2, <2>3 DEF Begin, Lookup, Goto, TypeOK
    <3> QED
      BY <1>0, <2>1, <3>1, OrderFrame
  <2> QED
    BY <2>2, <2>3
<1>3. ASSUME NEW s \in Sessions, LockRow(s) PROVE Ordered(t)'
  <2>1. call[s] \in Calls /\ call[s].wallet \in Wallets /\ call[s].key \in Keys
    BY <1>3, CallTypes DEF LockRow, TypeOK
  <2>2. CASE t = s
    <3>1. at'[t] = "lock" /\ todo'[t] = LockOrder(call[s]) /\ at[t] = "row"
      BY <1>3, <2>2 DEF LockRow, Goto, TypeOK
    <3>2. walletOwner' = walletOwner
      BY <1>3 DEF LockRow
    <3> QED
      BY <1>1, <2>1, <3>1, <3>2, LockOrderAscends, OrderStart
  <2>3. CASE t # s
    <3>1. at'[t] = at[t] /\ todo'[t] = todo[t]
      BY <1>3, <2>3 DEF LockRow, Goto, TypeOK
    <3>2. \A w \in Wallets, k \in Keys : rowOwner'[w][k] = t => rowOwner[w][k] = t
      BY <1>3, <2>1, <2>3 DEF LockRow, TypeOK
    <3>3. walletOwner' = walletOwner
      BY <1>3 DEF LockRow
    <3> QED
      BY <1>0, <3>1, <3>2, <3>3, OrderFrame
  <2> QED
    BY <2>2, <2>3
<1>4. ASSUME NEW s \in Sessions, LockWallet(s) PROVE Ordered(t)'
  <2> DEFINE q == todo[s]  h == Head(q)
  <2>1. q \in Seq(Wallets) /\ q # <<>> /\ at[s] = "lock"
    BY <1>4 DEF LockWallet, TypeOK, WalletsOwned, Owned
  <2>2. /\ h \in Wallets
        /\ walletOwner' = [walletOwner EXCEPT ![h] = s]
        /\ rowOwner' = rowOwner
        /\ todo' = [todo EXCEPT ![s] = Tail(q)]
        /\ at' = [at EXCEPT ![s] = IF Len(q) = 1 THEN "write" ELSE "lock"]
    BY <1>4, <2>1 DEF LockWallet, ReadWallet, Goto, TypeOK
  <2>3. CASE t = s
    <3>1. /\ todo'[t] = Tail(q)
          /\ at'[t] = IF Len(q) = 1 THEN "write" ELSE "lock"
      BY <2>2, <2>3 DEF TypeOK
    <3>2. Ascending(q)
      BY <1>0, <2>3 DEF Ordered
    <3>3. Ascending(Tail(q))
      <4> SUFFICES ASSUME NEW i \in DOMAIN Tail(q), NEW j \in DOMAIN Tail(q), i < j
                   PROVE  Tail(q)[i] < Tail(q)[j]
        BY DEF Ascending
      <4>1. /\ i + 1 \in DOMAIN q /\ j + 1 \in DOMAIN q /\ i + 1 < j + 1
            /\ Tail(q)[i] = q[i + 1] /\ Tail(q)[j] = q[j + 1]
        BY <2>1
      <4> QED
        BY <3>2, <4>1 DEF Ascending
    <3>4. ASSUME Len(q) # 1 PROVE h < Head(Tail(q)) /\ Head(Tail(q)) \in Int
      <4>1. /\ 1 \in DOMAIN q /\ 2 \in DOMAIN q /\ h = q[1]
            /\ Head(Tail(q)) = q[2] /\ q[2] \in Wallets
        BY <2>1, <3>4, SecondOfMany
      <4>2. q[1] < q[2]
        BY <3>2, <4>1 DEF Ascending
      <4> QED
        BY <4>1, <4>2, WalletIdsAssumption
    <3>5. ASSUME NEW w \in Wallets, walletOwner'[w] = s, Len(q) # 1
          PROVE  w < Head(Tail(q))
      <4>1. CASE w = h
        BY <3>4, <3>5, <4>1
      <4>2. CASE w # h
        <5>1. walletOwner[w] = s
          BY <2>2, <3>5, <4>2 DEF TypeOK
        <5>2. w < h
          BY <1>0, <2>1, <2>3, <5>1 DEF Ordered
        <5>3. w \in Int /\ h \in Int
          BY <2>2, WalletIdsAssumption
        <5>4. h < Head(Tail(q)) /\ Head(Tail(q)) \in Int
          BY <3>4, <3>5
        <5> QED
          BY <5>2, <5>3, <5>4, Before
      <4> QED
        BY <4>1, <4>2
    <3> QED
      BY <2>3, <3>1, <3>3, <3>5 DEF Ordered
  <2>4. CASE t # s
    <3>1. at'[t] = at[t] /\ todo'[t] = todo[t]
      BY <2>2, <2>4 DEF TypeOK
    <3>2. \A w \in Wallets : walletOwner'[w] = t => walletOwner[w] = t
      BY <2>2, <2>4 DEF TypeOK
    <3> QED
      BY <1>0, <2>2, <3>1, <3>2, OrderFrame
  <2> QED
    BY <2>3, <2>4
<1>5. ASSUME NEW s \in Sessions, Write(s) PROVE Ordered(t)'
  <2>1. PICK kind \in Inserting \cup Finalizing : Writing(s, kind)
    BY <1>5 DEF Write, WriteReserve, WriteTopUp, WriteTransfer, WriteSpend,
                WriteCommit, WriteSettle, WriteRelease, Inserting, Finalizing
  <2>2. t # s => at'[t] = at[t]
    BY <2>1 DEF Writing, Goto, TypeOK
  <2> QED
    BY <2>1, <2>2, EndTxFrees DEF Writing
<1>6. ASSUME NEW s \in Sessions, Rollback(s) PROVE Ordered(t)'
  <2>1. t # s => at'[t] = at[t]
    BY <1>6 DEF Rollback, Goto, TypeOK
  <2> QED
    BY <1>6, <2>1, EndTxFrees DEF Rollback
<1>7. CASE UNCHANGED vars
  BY <1>0, <1>7, OrderFrame DEF vars
<1> QED
  BY <1>2, <1>3, <1>4, <1>5, <1>6, <1>7 DEF Next

\* Whoever waits waits for a session that holds a lock; the one among the
\* waiting that asks for the highest wallet waits for one that asks for none.
LEMMA OrderedSessionsMove ==
  ASSUME TypeOK, WalletsOwned, LocksOrdered
  PROVE  NoWaitCycle
<1> SUFFICES ASSUME NEW S \in SUBSET Sessions, S # {},
                    \A s \in S : \E t \in S : WaitsFor(s, t)
             PROVE  FALSE
  BY DEF NoWaitCycle
<1> DEFINE L == {s \in S : at[s] = "lock"}
           f == [s \in L |-> Head(todo[s])]
<1>1. ASSUME NEW s \in S PROVE at[s] \in {"row", "lock"}
  BY DEF WaitsFor
<1>2. ASSUME NEW s \in S, NEW t \in S, WaitsFor(s, t)
      PROVE  at[t] = "lock" /\ (at[s] = "lock" => Head(todo[s]) < Head(todo[t]))
  <2>1. at[t] # "write" /\ Ordered(t) /\ Ordered(s)
    BY <1>1 DEF LocksOrdered
  <2>2. CASE at[s] = "row"
    <3>1. call[s].wallet \in Wallets /\ call[s].key \in Keys
      BY <2>2, CallTypes DEF TypeOK
    <3> QED
      BY <1>2, <2>1, <2>2, <3>1 DEF WaitsFor, Ordered
  <2>3. CASE at[s] = "lock"
    <3>1. Head(todo[s]) \in Wallets
      BY <2>3 DEF TypeOK, WalletsOwned, Owned
    <3> QED
      BY <1>2, <2>1, <2>3, <3>1 DEF WaitsFor, Ordered
  <2> QED
    BY <1>1, <2>2, <2>3
<1>3. L # {}
  BY <1>2
<1>4. IsFiniteSet(L)
  <2>1. L \in SUBSET Sessions
    OBVIOUS
  <2> QED
    BY <2>1, SessionsAssumption, FS_Subset
<1>5. \A s \in L : f[s] \in Int
  <2> SUFFICES ASSUME NEW s \in L PROVE Head(todo[s]) \in Int
    OBVIOUS
  <2>1. todo[s] \in Seq(Wallets) /\ todo[s] # <<>>
    BY DEF TypeOK, WalletsOwned, Owned
  <2>2. Head(todo[s]) \in Wallets
    BY <2>1
  <2> QED
    BY <2>2, WalletIdsAssumption
<1>6. PICK s \in L : \A t \in L : f[t] <= f[s]
  <2> HIDE DEF L, f
  <2> QED
    BY <1>3, <1>4, <1>5, HighestValue
<1>7. PICK t \in S : WaitsFor(s, t)
  OBVIOUS
<1>8. t \in L /\ f[s] < f[t]
  BY <1>2, <1>7
<1> HIDE DEF f, L
<1>9. f[s] \in Int /\ f[t] \in Int /\ f[t] <= f[s]
  BY <1>5, <1>6, <1>8
<1> QED
  BY <1>8, <1>9

\* Concurrent calls never wait for each other in a circle, whatever they are and
\* however many: no deadlock of the database is left for its detector to break.
THEOREM SessionsNeverDeadlock == Spec => []NoWaitCycle
<1>1. Init => LocksOrdered
  <2> SUFFICES ASSUME Init, NEW t \in Sessions PROVE Ordered(t)
    BY DEF LocksOrdered
  <2>1. todo[t] = <<>> /\ \A w \in Wallets : walletOwner[w] # t
    BY NobodyAssumption DEF Init
  <2>2. \A w \in Wallets, k \in Keys : rowOwner[w][k] # t
    BY NobodyAssumption DEF Init
  <2> QED
    BY <2>1, <2>2 DEF Ordered, Ascending
<1>2. IInv /\ LocksOrdered /\ [Next]_vars => LocksOrdered'
  BY OrderStep DEF IInv, LocksOrdered
<1>3. IInv /\ LocksOrdered => NoWaitCycle
  BY OrderedSessionsMove DEF IInv
<1> QED
  BY InitIInv, IInvStep, <1>1, <1>2, <1>3, PTL DEF Spec

=============================================================================
