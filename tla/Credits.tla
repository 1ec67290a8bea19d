------------------------------- MODULE Credits -------------------------------
(***************************************************************************)
(* What credits a wallet besides paid orders: redemption codes, the daily  *)
(* check-in, the rewards of an invitation and the top-up of a demo         *)
(* installation (internal/handler/console/redemption.go, checkin.go,       *)
(* auth.go, wallet.go), on top of the wallets and their ledger.            *)
(*                                                                         *)
(* All of them credit through Wallets.TopUp, which commits by itself on a  *)
(* pooled connection.  A redemption holds another connection meanwhile,    *)
(* for the transaction that has locked the code; so does Logger.Record     *)
(* (internal/service/billing/logger.go), which begins a transaction and    *)
(* writes through the pool.  A statement outside a transaction needs a     *)
(* connection for the length of the step only.                             *)
(***************************************************************************)
EXTENDS Wallet

CONSTANTS Handlers,   \* goroutines serving calls of the console and the gateway
          Sizes,      \* sizes of the connection pool
          Nobody      \* the holder of a free lock, and what an idle call is about

ASSUME CreditsAssumption ==
  /\ Sizes \subseteq Nat
  /\ IsFiniteSet(Handlers) /\ Handlers # {} /\ Nobody \notin Handlers

VARIABLES kind,       \* bound: what each key of this behaviour is made of
          size, pool, \* connections of the pool, and those that are free
          code,       \* redemption_codes: status
          lock,       \* the transaction that holds the lock on a code's row
          checkins,   \* checkins: <<wallet, day>>
          invited,    \* users: who was invited by whom
          call,       \* call[h]: what handler h is doing
          broken      \* history: codes of redemptions that broke off once credited

credits == <<kind, size, pool, code, lock, checkins, invited, call, broken>>
cvars == <<vars, credits>>

Idle == [pc |-> "idle", wallet |-> Nobody, key |-> Nobody]

\* Keys are a code, "checkin:<user>:<day>", the client's, or the two keys
\* "invite:<user>" and "invite:<user>:inviter"; at most one of each here.
Kinds == {"code", "day", "client", "invite", "inviter"}

Layouts == { f \in [Keys -> Kinds] :
               /\ \A j, k \in Keys : f[j] = f[k] => j = k
               /\ (\E k \in Keys : f[k] = "invite") = (\E k \in Keys : f[k] = "inviter") }

\* The keys of the ledger followed for itself.
Plain == [k \in Keys |-> "client"]

KeyOf(t) == { k \in Keys : kind[k] = t }

CInit ==
  /\ Init /\ kind \in Layouts \cup {Plain} /\ size \in Sizes /\ pool = size
  /\ (kind = Plain => \A s \in Sizes : size <= s)
  /\ code = [k \in Keys |-> "none"] /\ lock = [k \in Keys |-> Nobody]
  /\ checkins = {} /\ invited = {} /\ call = [h \in Handlers |-> Idle] /\ broken = {}

At(h, pc) == call[h].pc = pc
Go(h, pc) == call' = [call EXCEPT ![h].pc = pc]
Start(h, pc, w, k) == call' = [call EXCEPT ![h] = [pc |-> pc, wallet |-> w, key |-> k]]
Done(h) == call' = [call EXCEPT ![h] = Idle]

Take == pool > 0 /\ pool' = pool - 1
Give == pool' = pool + 1
Borrow == pool > 0 /\ pool' = pool    \* for the length of the step

\* TopUp of a key the wallet has credited before returns that credit.
Credit(w, k, a) == IF Fresh(w, k) THEN TopUp(w, k, a) ELSE UNCHANGED vars

\* The reward of a check-in is drawn anew by every call, between the configured
\* bounds; that of an invitation is a setting.  Bound: it, and what a code is
\* worth, is one unit.
CheckinReward == Amounts
InviteReward == 1
Worth(c) == 1

-----------------------------------------------------------------------------
\* An administrator's codes are active from the start.
HandleCreateRedemption(h, c) ==
  /\ At(h, "idle") /\ Borrow /\ code[c] = "none"
  /\ code' = [code EXCEPT ![c] = "active"]
  /\ UNCHANGED <<vars, kind, size, lock, checkins, invited, call, broken>>

\* HandleRedeem begins its transaction.
BeginRedeem(h, w, c) ==
  /\ At(h, "idle") /\ Take /\ Start(h, "lock", w, c)
  /\ UNCHANGED <<vars, kind, size, code, lock, checkins, invited, broken>>

\* Mutant of LockCode: a used code is answered without the rollback.
LockCode_KeepsConnection(h) ==
  LET c == call[h].key IN
  /\ At(h, "lock") /\ lock[c] = Nobody
  /\ IF code[c] = "active" THEN lock' = [lock EXCEPT ![c] = h] /\ Go(h, "credit")
                           ELSE Done(h) /\ UNCHANGED lock
  /\ UNCHANGED <<vars, kind, size, pool, code, checkins, invited, broken>>

\* Mutant of LockCode: the code is read without FOR UPDATE.
LockCode_Reads(h) ==
  LET c == call[h].key IN
  /\ At(h, "lock")
  /\ IF code[c] = "active" THEN lock' = [lock EXCEPT ![c] = h] /\ Go(h, "credit") /\ pool' = pool
                           ELSE Done(h) /\ Give /\ UNCHANGED lock
  /\ UNCHANGED <<vars, kind, size, code, checkins, invited, broken>>

\* SELECT ... FOR UPDATE waits for the redemption that holds the code.
LockCode(h) ==
  LET c == call[h].key IN
  /\ At(h, "lock") /\ lock[c] = Nobody
  /\ IF code[c] = "active" THEN lock' = [lock EXCEPT ![c] = h] /\ Go(h, "credit") /\ pool' = pool
                           ELSE Done(h) /\ Give /\ UNCHANGED lock
  /\ UNCHANGED <<vars, kind, size, code, checkins, invited, broken>>

\* The wallet is found and credited through a second connection.
CreditCode(h) ==
  /\ At(h, "credit") /\ Borrow
  /\ Credit(call[h].wallet, call[h].key, Worth(call[h].key)) /\ Go(h, "commit")
  /\ UNCHANGED <<kind, size, code, lock, checkins, invited, broken>>

CommitCode(h) ==
  LET c == call[h].key IN
  /\ At(h, "commit") /\ Give
  /\ code' = [code EXCEPT ![c] = "used"] /\ lock' = [lock EXCEPT ![c] = Nobody]
  /\ Done(h) /\ UNCHANGED <<vars, kind, size, checkins, invited, broken>>

\* The client leaves, a statement fails or the process stops: the transaction
\* is rolled back, the credit stays.
BreakRedeem(h) ==
  LET c == call[h].key IN
  /\ call[h].pc \in {"lock", "credit", "commit"} /\ Give
  /\ lock' = IF lock[c] = h THEN [lock EXCEPT ![c] = Nobody] ELSE lock
  /\ broken' = IF At(h, "commit") THEN broken \cup {c} ELSE broken
  /\ Done(h) /\ UNCHANGED <<vars, kind, size, code, checkins, invited>>

-----------------------------------------------------------------------------
\* HandleCheckIn asks for the row of today.
CheckIn(h, w, d) ==
  /\ At(h, "idle") /\ Borrow /\ <<w, d>> \notin checkins /\ Start(h, "reward", w, d)
  /\ UNCHANGED <<vars, kind, size, code, lock, checkins, invited, broken>>

\* Whatever this call draws, the key decides.
Reward(h) ==
  /\ At(h, "reward") /\ Borrow
  /\ \E a \in CheckinReward : Credit(call[h].wallet, call[h].key, a)
  /\ Go(h, "note") /\ UNCHANGED <<kind, size, code, lock, checkins, invited, broken>>

\* A second row of the day is refused, which is answered with a conflict.
NoteCheckIn(h) ==
  /\ At(h, "note") /\ Borrow
  /\ checkins' = checkins \cup {<<call[h].wallet, call[h].key>>}
  /\ Done(h) /\ UNCHANGED <<vars, kind, size, code, lock, invited, broken>>

BreakCheckIn(h) ==
  /\ call[h].pc \in {"reward", "note"} /\ Done(h)
  /\ UNCHANGED <<vars, kind, size, pool, code, lock, checkins, invited, broken>>

-----------------------------------------------------------------------------
\* HandleTopUp of a demo installation: the client's key, or one drawn for the
\* call, makes a retry return the first credit.
HandleTopUp(h, w, k) ==
  /\ At(h, "idle") /\ Borrow /\ \E a \in Amounts : Credit(w, k, a)
  /\ UNCHANGED <<kind, size, code, lock, checkins, invited, call, broken>>

\* HandleRegister, once the account of the invited and its wallet are made.
\* (The account of w is made once: the address is taken from then on.)
Invite(h, w, v) ==
  /\ At(h, "idle") /\ v # w /\ \A p \in invited : p[1] # w
  /\ invited' = invited \cup {<<w, v>>}
  /\ \E k \in KeyOf("invite") : Start(h, "invite", w, k)
  /\ UNCHANGED <<vars, kind, size, pool, code, lock, checkins, broken>>

RewardInvited(h) ==
  /\ At(h, "invite") /\ Borrow
  /\ Credit(call[h].wallet, call[h].key, InviteReward) /\ Go(h, "inviter")
  /\ UNCHANGED <<kind, size, code, lock, checkins, invited, broken>>

RewardInviter(h) ==
  /\ At(h, "inviter") /\ Borrow
  /\ \E p \in invited, k \in KeyOf("inviter") :
       p[1] = call[h].wallet /\ Credit(p[2], k, InviteReward)
  /\ Done(h) /\ UNCHANGED <<kind, size, code, lock, checkins, invited, broken>>

\* A lookup or a credit fails, or the process stops: nobody resumes it.
BreakInvite(h) ==
  /\ call[h].pc \in {"invite", "inviter"} /\ Done(h)
  /\ UNCHANGED <<vars, kind, size, pool, code, lock, checkins, invited, broken>>

-----------------------------------------------------------------------------
\* Logger.Record holds the connection of its transaction, ...
BeginRecord(h) ==
  /\ At(h, "idle") /\ Take /\ Go(h, "write")
  /\ UNCHANGED <<vars, kind, size, code, lock, checkins, invited, broken>>

\* ... writes its rows through others, and commits nothing.
WriteRecord(h) ==
  /\ At(h, "write") /\ Borrow /\ Go(h, "end")
  /\ UNCHANGED <<vars, kind, size, code, lock, checkins, invited, broken>>

EndRecord(h) ==
  /\ At(h, "end") /\ Give /\ Done(h)
  /\ UNCHANGED <<vars, kind, size, code, lock, checkins, invited, broken>>

Serve(h) ==
  \/ LockCode(h) \/ CreditCode(h) \/ CommitCode(h)
  \/ Reward(h) \/ NoteCheckIn(h) \/ WriteRecord(h) \/ EndRecord(h)
  \/ RewardInvited(h) \/ RewardInviter(h)
  \/ BreakRedeem(h) \/ BreakCheckIn(h) \/ BreakInvite(h)

Arrive(h) ==
  \/ BeginRecord(h)
  \/ \E c \in KeyOf("code") :
       HandleCreateRedemption(h, c) \/ \E w \in Wallets : BeginRedeem(h, w, c)
  \/ \E w \in Wallets : \E d \in KeyOf("day") : CheckIn(h, w, d)
  \/ \E w \in Wallets : \E k \in KeyOf("client") : HandleTopUp(h, w, k)
  \/ \E w, v \in Wallets : Invite(h, w, v)

CNext ==
  \/ kind = Plain /\ Next /\ UNCHANGED credits
  \/ kind # Plain /\ \E h \in Handlers : Serve(h) \/ Arrive(h)

CSpec == CInit /\ [][CNext]_cvars

-----------------------------------------------------------------------------
Paid(w, k) == ~Fresh(w, k)

\* A code pays one wallet, whoever redeems it at the same time, and is used
\* only if it paid: only a redemption that broke off after its credit leaves
\* the code for another wallet.  A check-in that is noted was paid, and an
\* inviter is paid for nobody whose own reward failed (redemption.go:155).
CreditsAreEarned == kind # Plain =>
  /\ \A c \in KeyOf("code") : LET paid == { w \in Wallets : Paid(w, c) } IN
       /\ Cardinality(paid) > 1 => c \in broken
       /\ code[c] = "used" => paid # {}
  /\ \A n \in checkins : Paid(n[1], n[2])
  /\ \A v \in Wallets, k \in KeyOf("inviter") : Paid(v, k) =>
       \E p \in invited, j \in KeyOf("invite") : p[2] = v /\ Paid(p[1], j)

\* What a call of handler h waits for: a connection, or a code's lock.
Waits(h) ==
  \/ pool = 0 /\ call[h].pc \in {"idle", "credit", "reward", "note", "write",
                                 "invite", "inviter"}
  \/ At(h, "lock") /\ lock[call[h].key] # Nobody

\* With more connections than handlers some call can always go on: never do
\* all wait for a second connection while they hold theirs, or for a lock whose
\* holder waits.  (With as many, they do, until their clients leave:
\* redemption.go:155, logger.go:91.)
SomeCallMoves ==
  size > Cardinality(Handlers) => \E h \in Handlers : ~Waits(h)
=============================================================================
