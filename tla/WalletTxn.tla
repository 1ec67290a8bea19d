------------------------------ MODULE WalletTxn ------------------------------
(***************************************************************************)
(* The wallet repository at the grain of its SQL statements: sessions run  *)
(* concurrently in READ COMMITTED transactions, and only the row locks     *)
(* their statements take keep them apart.  A call goes                     *)
(*                                                                         *)
(*   idle -> lookup -> lock -> write -> ok      Reserve, TopUp, Transfer,  *)
(*                                              Spend                      *)
(*   idle -> row -> lock -> write -> ok         Commit, Settle, Release    *)
(*                                                                         *)
(* Writes of an open transaction are invisible to the others and the rows  *)
(* it writes stay locked, so the checks after the last lock, the inserts,  *)
(* the updates and COMMIT are one step.  Every error return, cancelled     *)
(* context and lost connection is the same Rollback.                       *)
(* INSTANCE Wallet is the specification these transactions implement.      *)
(***************************************************************************)
EXTENDS Integers, Sequences, FiniteSets

CONSTANTS Wallets,    \* wallet ids; the integers carry the order of the ids
          Keys,       \* idempotency keys
          MaxAmount,  \* bound: the largest amount of one operation
          Sessions,   \* database connections running wallet calls
          Kinds,      \* bound: the operations the sessions call
          Varied      \* bound: the operations called with any amount, the
                      \* others with 0 or 1

Inserting  == {"reserve", "topup", "transfer", "spend"}
Finalizing == {"commit", "settle", "release"}

ASSUME WalletIdsAssumption == Wallets \subseteq Int
ASSUME MaxAmountAssumption == MaxAmount \in Nat \ {0}
ASSUME KindsAssumption == Kinds \subseteq Inserting \cup Finalizing

CONSTANT Nobody   \* the owner of a row that is not locked
ASSUME NobodyAssumption == Nobody \notin Sessions
ASSUME SessionsAssumption == IsFiniteSet(Sessions)   \* a pool of connections

VARIABLES balance, frozen,   \* committed columns of wallets
          version,           \* committed wallets.version
          ledger,            \* committed wallet_transactions
          at,                \* where a session's call stands
          call,              \* its arguments
          todo,              \* the wallet rows it has still to lock
          seen,              \* wallet row -> what it read when it locked it
          walletOwner,       \* wallet row -> the session that locks it
          rowOwner           \* ledger row -> the session that locks it

db    == <<balance, frozen, version, ledger>>
locks == <<walletOwner, rowOwner>>
vars  == <<balance, frozen, version, ledger, at, call, todo, seen,
           walletOwner, rowOwner>>

Atomic == INSTANCE Wallet

Owners == Sessions \cup {Nobody}

\* The arguments of one call.  "other" is Transfer's destination; Commit and
\* Release take no amount; TopUp, Transfer and Spend refuse one that is not
\* positive, and the callers of Reserve never ask for less than a minimum.
Calls ==
  {c \in [kind : Kinds, wallet : Wallets, other : Wallets, key : Keys,
          amount : 0 .. MaxAmount] :
     /\ c.kind = "transfer" <=> c.other # c.wallet
     /\ c.kind \in Inserting => c.amount > 0
     /\ c.kind \notin Varied => c.amount <= 1
     /\ c.kind \in {"commit", "release"} => c.amount = 0}

NoCall == [kind |-> "none"]

Snapshot == [balance : Int, frozen : Int, version : Nat]

Current(w) ==
  [balance |-> balance[w], frozen |-> frozen[w], version |-> version[w]]

\* The wallet rows a call locks.
Touched(c) == {c.wallet, c.other}

TypeOK ==
  /\ Atomic!TypeOK
  /\ version \in [Wallets -> Nat]
  /\ at \in [Sessions -> {"idle", "lookup", "row", "lock", "write", "ok"}]
  /\ call \in [Sessions -> Calls \cup {NoCall}]
  /\ \A s \in Sessions : at[s] # "idle" => call[s] \in Calls
  /\ todo \in [Sessions -> Seq(Wallets)]
  /\ seen \in [Sessions -> [Wallets -> Snapshot]]
  /\ walletOwner \in [Wallets -> Owners]
  /\ rowOwner \in [Wallets -> [Keys -> Owners]]

Unread == [balance |-> 0, frozen |-> 0, version |-> 0]

Init ==
  /\ Atomic!Init
  /\ version = [w \in Wallets |-> 0]
  /\ at = [s \in Sessions |-> "idle"]
  /\ call = [s \in Sessions |-> NoCall]
  /\ todo = [s \in Sessions |-> <<>>]
  /\ seen = [s \in Sessions |-> [w \in Wallets |-> Unread]]
  /\ walletOwner = [w \in Wallets |-> Nobody]
  /\ rowOwner = [w \in Wallets |-> [k \in Keys |-> Nobody]]

-----------------------------------------------------------------------------
(* Statements before the writes.                                           *)

\* Mutant of LockOrder: source first.
LockOrder_AsGiven(c) ==
  IF c.wallet = c.other THEN <<c.wallet>> ELSE <<c.wallet, c.other>>

\* Transfer locks its two wallets in the order of their ids.
LockOrder(c) ==
  IF c.wallet = c.other THEN <<c.wallet>>
  ELSE IF c.wallet < c.other THEN <<c.wallet, c.other>>
                             ELSE <<c.other, c.wallet>>

Goto(s, label) == at' = [at EXCEPT ![s] = label]

\* The transaction of s ends: its locks are free, what it read is forgotten.
EndTx(s) ==
  /\ todo' = [todo EXCEPT ![s] = <<>>]
  /\ seen' = [seen EXCEPT ![s] = [w \in Wallets |-> Unread]]
  /\ walletOwner' =
       [w \in Wallets |-> IF walletOwner[w] = s THEN Nobody ELSE walletOwner[w]]
  /\ rowOwner' =
       [w \in Wallets |-> [k \in Keys |->
          IF rowOwner[w][k] = s THEN Nobody ELSE rowOwner[w][k]]]

Begin(s, c) ==
  /\ at[s] \in {"idle", "ok"}
  /\ Goto(s, IF c.kind \in Inserting THEN "lookup" ELSE "row")
  /\ call' = [call EXCEPT ![s] = c]
  /\ UNCHANGED <<db, todo, seen, locks>>

\* Any error return, cancelled context or lost connection.
Rollback(s) ==
  /\ at[s] \in {"lookup", "row", "lock", "write"}
  /\ Goto(s, "idle")
  /\ call' = [call EXCEPT ![s] = NoCall]
  /\ EndTx(s)
  /\ UNCHANGED db

Absolute(n) == IF n < 0 THEN -n ELSE n

\* Mutant of ReplayAccepted: a replay with another amount is accepted.
ReplayAccepted_AnyAmount(c) == ledger[c.wallet][c.key].type # "none"

\* The key was used before in this wallet, and the call reports success with
\* that row; only Transfer compares the amounts.
ReplayAccepted(c) ==
  /\ ledger[c.wallet][c.key].type # "none"
  /\ c.kind = "transfer" => Absolute(ledger[c.wallet][c.key].amount) = c.amount

\* findIdempotentTx.
Lookup(s) ==
  LET c == call[s] IN
  /\ at[s] = "lookup"
  /\ \/ /\ ledger[c.wallet][c.key].type = "none"
        /\ Goto(s, "lock")
        /\ todo' = [todo EXCEPT ![s] = LockOrder(c)]
     \/ /\ ReplayAccepted(c)
        /\ Goto(s, "ok")
        /\ UNCHANGED todo
  /\ UNCHANGED <<db, call, seen, locks>>

\* Mutant of LockRow: a plain SELECT of the ledger row.
LockRow_PlainSelect(s) ==
  LET c == call[s] IN
  /\ at[s] = "row"
  /\ ledger[c.wallet][c.key].type = "reserve"
  /\ Goto(s, "lock")
  /\ todo' = [todo EXCEPT ![s] = LockOrder(c)]
  /\ UNCHANGED <<db, call, seen, locks>>

\* SELECT ... FROM wallet_transactions ... FOR UPDATE, and the check of its
\* tx_type (ErrTxNotReserved is a Rollback).
LockRow(s) ==
  LET c == call[s] IN
  /\ at[s] = "row"
  /\ rowOwner[c.wallet][c.key] = Nobody
  /\ ledger[c.wallet][c.key].type = "reserve"
  /\ rowOwner' = [rowOwner EXCEPT ![c.wallet][c.key] = s]
  /\ Goto(s, "lock")
  /\ todo' = [todo EXCEPT ![s] = LockOrder(c)]
  /\ UNCHANGED <<db, call, seen, walletOwner>>

ReadWallet(s, w) ==
  /\ seen' = [seen EXCEPT ![s][w] = Current(w)]
  /\ todo' = [todo EXCEPT ![s] = Tail(@)]
  /\ Goto(s, IF Len(todo[s]) = 1 THEN "write" ELSE "lock")

\* SELECT ... FROM wallets ... FOR UPDATE.  Commit and Release take the same
\* lock with their UPDATE of the row and use nothing they read.
LockWallet(s) ==
  LET w == Head(todo[s]) IN
  /\ at[s] = "lock"
  /\ walletOwner[w] = Nobody
  /\ walletOwner' = [walletOwner EXCEPT ![w] = s]
  /\ ReadWallet(s, w)
  /\ UNCHANGED <<db, call, rowOwner>>

-----------------------------------------------------------------------------
(* The checks, the writes and COMMIT.                                      *)

\* The acknowledgment of a COMMIT that took effect may be lost.
Writing(s, kind) ==
  /\ at[s] = "write"
  /\ call[s].kind = kind
  /\ \A w \in Touched(call[s]) : walletOwner[w] \in {Nobody, s}
  /\ \E outcome \in {"idle", "ok"} : Goto(s, outcome)
  /\ call' = [call EXCEPT ![s] = IF at'[s] = "ok" THEN @ ELSE NoCall]
  /\ EndTx(s)

SeenAvailable(s, w) == seen[s][w].balance - seen[s][w].frozen

\* INSERT: the unique index (wallet, key) accepts the row.
Insertable(w, k) == ledger[w][k].type = "none"

\* UPDATE ... SET version = version + 1 ... WHERE version = $3.
UpdateVersions(s, written) ==
  /\ \A w \in written : version[w] = seen[s][w].version
  /\ version' = [w \in Wallets |->
                   IF w \in written THEN version[w] + 1 ELSE version[w]]

Row(t, a) == [type |-> t, amount |-> a]

WriteReserve(s) ==
  LET w == call[s].wallet  k == call[s].key  a == call[s].amount IN
  /\ Writing(s, "reserve")
  /\ SeenAvailable(s, w) >= a
  /\ Insertable(w, k)
  /\ ledger' = [ledger EXCEPT ![w][k] = Row("reserve", a)]
  /\ UpdateVersions(s, {w})
  /\ frozen' = [frozen EXCEPT ![w] = @ + a]
  /\ UNCHANGED balance

WriteTopUp(s) ==
  LET w == call[s].wallet  k == call[s].key  a == call[s].amount IN
  /\ Writing(s, "topup")
  /\ Insertable(w, k)
  /\ ledger' = [ledger EXCEPT ![w][k] = Row("topup", a)]
  /\ UpdateVersions(s, {w})
  /\ balance' = [balance EXCEPT ![w] = @ + a]
  /\ UNCHANGED frozen

WriteTransfer(s) ==
  LET v == call[s].wallet  w == call[s].other
      k == call[s].key     a == call[s].amount IN
  /\ Writing(s, "transfer")
  /\ SeenAvailable(s, v) >= a
  /\ Insertable(v, k)
  /\ Insertable(w, k)
  /\ ledger' = [ledger EXCEPT ![v][k] = Row("transfer_out", -a),
                              ![w][k] = Row("transfer_in", a)]
  /\ UpdateVersions(s, {v, w})
  /\ balance' = [balance EXCEPT ![v] = @ - a, ![w] = @ + a]
  /\ UNCHANGED frozen

WriteSpend(s) ==
  LET w == call[s].wallet  k == call[s].key  a == call[s].amount IN
  /\ Writing(s, "spend")
  /\ seen[s][w].balance >= a
  /\ Insertable(w, k)
  /\ ledger' = [ledger EXCEPT ![w][k] = Row("subscription", -a)]
  /\ UpdateVersions(s, {w})
  /\ balance' = [balance EXCEPT ![w] = @ - a]
  /\ UNCHANGED frozen

\* Commit and Release update the wallet relative to its committed columns and
\* leave the version alone.
WriteCommit(s) ==
  LET w == call[s].wallet  k == call[s].key  a == ledger[w][k].amount IN
  /\ Writing(s, "commit")
  /\ ledger' = [ledger EXCEPT ![w][k] = Row("charge", a)]
  /\ balance' = [balance EXCEPT ![w] = @ - a]
  /\ frozen' = [frozen EXCEPT ![w] = @ - a]
  /\ UNCHANGED version

\* Settle writes the columns it computed from what it read.
WriteSettle(s) ==
  LET w == call[s].wallet  k == call[s].key  final == call[s].amount
      reserved == ledger[w][k].amount IN
  /\ Writing(s, "settle")
  /\ final > reserved => SeenAvailable(s, w) >= final - reserved
  /\ ledger' = [ledger EXCEPT ![w][k] = Row("charge", final)]
  /\ balance' = [balance EXCEPT ![w] = seen[s][w].balance - final]
  /\ frozen' = [frozen EXCEPT ![w] = seen[s][w].frozen - reserved]
  /\ version' = [version EXCEPT ![w] = @ + 1]

WriteRelease(s) ==
  LET w == call[s].wallet  k == call[s].key  a == ledger[w][k].amount IN
  /\ Writing(s, "release")
  /\ ledger' = [ledger EXCEPT ![w][k] = Row("release", a)]
  /\ frozen' = [frozen EXCEPT ![w] = @ - a]
  /\ UNCHANGED <<balance, version>>

Write(s) ==
  \/ WriteReserve(s)
  \/ WriteTopUp(s)
  \/ WriteTransfer(s)
  \/ WriteSpend(s)
  \/ WriteCommit(s)
  \/ WriteSettle(s)
  \/ WriteRelease(s)

Next ==
  \E s \in Sessions :
    \/ \E c \in Calls : Begin(s, c)
    \/ Lookup(s)
    \/ LockRow(s)
    \/ LockWallet(s)
    \/ Write(s)
    \/ Rollback(s)

Spec == Init /\ [][Next]_vars

-----------------------------------------------------------------------------
(* Properties.                                                             *)

\* The statement-level repository implements the atomic one: whatever the
\* interleaving of the statements of concurrent calls, and wherever one of them
\* fails, a committed transaction is one operation of module Wallet.
ImplementsWallet == Atomic!Spec

\* What a call read about a wallet before its writes is still what is committed
\* when it writes: the balance it compared and the columns Settle computes from
\* are never stale, and the optimistic version check never fails.
ReadsAreCurrent ==
  \A s \in Sessions : at[s] = "write" =>
    \A w \in Touched(call[s]) : seen[s][w] = Current(w)

\* A Commit, Settle or Release that passed its tx_type check finds the hold
\* still open when it writes: a hold is never finalised twice by racing calls.
HoldsStayOpen ==
  \A s \in Sessions :
    at[s] \in {"lock", "write"} /\ call[s].kind \in Finalizing =>
      ledger[call[s].wallet][call[s].key].type = "reserve"

\* The row s is about to lock belongs to another session.
WaitsFor(s, t) ==
  \/ at[s] = "row" /\ rowOwner[call[s].wallet][call[s].key] = t
  \/ at[s] = "lock" /\ walletOwner[Head(todo[s])] = t

\* Calls never deadlock on each other's rows: every set of sessions has one
\* that waits for no other of the set.
NoWaitCycle ==
  \A S \in SUBSET Sessions :
    S # {} => \E s \in S : \A t \in S : ~WaitsFor(s, t)

\* postgres.go:262-265: a transfer key is never replayed for another amount.
\* Whatever is acknowledged under the key of a transfer is what that transfer
\* moved, also when the first answer was lost and the retry races it.
AcknowledgedAmount ==
  \A s \in Sessions :
    LET c == call[s]  row == ledger[c.wallet][c.key] IN
    /\ at[s] = "ok"
    /\ c.kind = "transfer"
    /\ row.type \in {"transfer_in", "transfer_out"}
    => Absolute(row.amount) = c.amount
=============================================================================
