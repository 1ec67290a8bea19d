---------------------------- MODULE ConsoleProofs ----------------------------
(***************************************************************************)
(* Proofs about what the console administers: accounts, sessions and       *)
(* tenants, for any number of accounts, tokens, tenants and concurrent     *)
(* calls, and the catalogue, for any models, channels and credentials.     *)
(*                                                                         *)
(* A step of a call touches accounts, sessions and tenants; each of the    *)
(* three has an invariant of its own, kept by the few shapes a step can    *)
(* have there.  The catalogue has one for its rows and requests, and a     *)
(* second one for what a listed model stands on.                           *)
(***************************************************************************)
EXTENDS Tenants, Catalog, TLAPS

UserStatuses == {"none", "active", "banned", "deleted"}
TenantStatuses == {"none", "pending_review", "active", "suspended", "terminated",
                   "rejected", "deleted"}
Owners == Users \cup {Nobody}
Places == {"idle", "create", "provision", "in", "issue", "row", "deny", "tenant"}
Hows   == {"none", "console", "self", "logout", "revoke"}
RowStates == {"none", "live", "revoked"}

Jobs == [at : Places, user : Users, how : Hows, role : Roles,
         current : SUBSET Tokens, todo : SUBSET Tokens]
UserRows   == [status : UserStatuses, role : Roles]
TokenRows  == [owner : Owners, expires : Int, row : RowStates]
TenantRows == [status : TenantStatuses, owner : Owners]
Works == [at : {"none", "insert", "write", "owner"}, code : Codes, owner : Owners,
          fresh : BOOLEAN, status : TenantStatuses]

AccountsTyped ==
  users \in [Users -> UserRows] /\ wallets \in [Users -> Nat] /\ orphans \in SUBSET Users
SessionsTyped ==
  /\ tokens \in [Tokens -> TokenRows] /\ redis \in BOOLEAN /\ denied \in [Tokens -> Int]
  /\ clock \in Nat /\ reached \in SUBSET Tokens /\ loggedOut \in SUBSET Tokens
TenantsTyped ==
  /\ tenants \in [Codes -> TenantRows] /\ members \in [Codes -> SUBSET Users]
  /\ work \in [Handlers -> Works] /\ provisioned \in SUBSET Users /\ booted \in BOOLEAN
JobsTyped == job \in [Handlers -> Jobs]

TypeOK == AccountsTyped /\ SessionsTyped /\ TenantsTyped /\ JobsTyped

-----------------------------------------------------------------------------
(* The invariant.                                                          *)

Provisioning(h, u) == At(h, "provision") /\ job[h].user = u

\* An account has one wallet, or none while a single call is about to make it.
WalletKept(u) ==
  /\ wallets[u] \in {0, 1}
  /\ ~Exists(u) => wallets[u] = 0
  /\ Exists(u) /\ wallets[u] = 0 => u \in orphans \/ \E h \in Handlers : Provisioning(h, u)
OneMaker(u) ==
  \A h \in Handlers : Provisioning(h, u) =>
    /\ Exists(u) /\ wallets[u] = 0
    /\ \A g \in Handlers : Provisioning(g, u) => g = h

AccountsOK == \A u \in Users : WalletKept(u) /\ OneMaker(u)

\* A listed session has a row, also while it is being revoked.
RowsStay == \A t \in Tokens : tokens[t].owner = Nobody => tokens[t].row = "none"
Revoking(h) ==
  /\ At(h, "row") \/ At(h, "deny") => job[h].how \in {"logout", "revoke"}
  /\ job[h].how = "revoke" /\ At(h, "row") => \A t \in job[h].todo : tokens[t].row # "none"
  /\ job[h].how = "revoke" /\ At(h, "deny") =>
       /\ \A t \in job[h].current : tokens[t].row # "none"
       /\ \A t \in job[h].todo : tokens[t].row # "none"
KeptOut(t) ==
  t \in reached =>
    /\ tokens[t].row # "none"
    /\ t \notin loggedOut \/ ~redis =>
         IF redis THEN denied[t] >= tokens[t].expires ELSE tokens[t].row = "revoked"

SessionsOK ==
  RowsStay /\ (\A h \in Handlers : Revoking(h)) /\ \A t \in Tokens : KeptOut(t)

\* What a call on a tenant has read still holds, but that an unknown address
\* may be known and a code taken: the transaction decides these again.
WorkOK(h) ==
  /\ Working(h, "insert") =>
       IF work[h].fresh THEN work[h].owner # Nobody
                        ELSE work[h].owner # Nobody => Exists(work[h].owner)
  /\ Working(h, "write") => work[h].status \notin {"none", "deleted"}
  /\ Working(h, "owner") => Present(Platform)
OwnerKept(c) ==
  Present(c) /\ tenants[c].owner # Nobody =>
    /\ Exists(tenants[c].owner)
    /\ tenants[c].owner \in members[c] \/ (c = Platform /\ tenants[c].owner = Admin)
MadeWithTenant(u) ==
  u \in provisioned =>
    /\ Exists(u) /\ wallets[u] = 1
    /\ \E c \in Codes : tenants[c].owner = u /\ tenants[c].status # "none"
PlatformStays ==
  /\ tenants[Platform].status # "deleted"
  /\ booted => Present(Platform) /\ Admin \in members[Platform]

TenantsOK ==
  /\ \A h \in Handlers : WorkOK(h)
  /\ \A c \in Codes : OwnerKept(c)
  /\ \A u \in Users : MadeWithTenant(u)
  /\ PlatformStays

IInv == TypeOK /\ AccountsOK /\ SessionsOK /\ TenantsOK

-----------------------------------------------------------------------------
(* The records of calls.                                                   *)

\* A step of h leaves the other calls alone.
Moves(h) == JobsTyped' /\ \A g \in Handlers \ {h} : job'[g] = job[g]

LEMMA ConstantsTyped ==
  /\ Admin \in Users /\ Nobody \notin Users /\ Nobody \in Owners /\ Platform \in Codes
  /\ "user" \in Roles /\ "admin" \in Roles
  /\ Idle \in Jobs /\ Idle.at = "idle" /\ NoWork \in Works /\ NoWork.at = "none"
<1>1. /\ Admin \in Users /\ Nobody \notin Users /\ Nobody \in Owners /\ Platform \in Codes
      /\ "user" \in Roles /\ "admin" \in Roles
  BY AdminAssumption, PlatformAssumption DEF Owners, Roles
<1>2. Idle \in Jobs /\ Idle.at = "idle"
  <2>1. "idle" \in Places /\ "none" \in Hows
    BY DEF Places, Hows
  <2> QED
    BY <1>1, <2>1 DEF Idle, Jobs
<1>3. NoWork \in Works /\ NoWork.at = "none"
  <2>1. "none" \in TenantStatuses
    BY DEF TenantStatuses
  <2> QED
    BY <1>1, <2>1 DEF NoWork, Works
<1> QED
  BY <1>1, <1>2, <1>3

LEMMA Became ==
  ASSUME JobsTyped, NEW h \in Handlers, NEW next \in Jobs, Become(h, next)
  PROVE  Moves(h) /\ job'[h] = next
BY DEF JobsTyped, Become, Moves

LEMMA Served ==
  ASSUME JobsTyped, NEW h \in Handlers, NEW place \in Places, NEW u \in Users,
         NEW how \in Hows, NEW role \in Roles, Serve(h, place, u, how, role)
  PROVE  /\ Moves(h) /\ job'[h].at = place /\ job'[h].user = u /\ job'[h].how = how
<1> DEFINE next == [Idle EXCEPT !.at = place, !.user = u, !.how = how, !.role = role]
<1>1. /\ next \in Jobs /\ next.at = place /\ next.user = u /\ next.how = how
  BY ConstantsTyped DEF Jobs, Idle
<1>2. Become(h, next)
  BY DEF Serve
<1> HIDE DEF next
<1> QED
  BY <1>1, <1>2, Became

LEMMA Ended ==
  ASSUME JobsTyped, NEW h \in Handlers, Done(h)
  PROVE  Moves(h) /\ job'[h].at = "idle"
BY ConstantsTyped, Became DEF Done

-----------------------------------------------------------------------------
(* Accounts and wallets.                                                   *)

\* No account appears and no wallet is made or about to be made.
SameAccounts(h) ==
  /\ \A u \in Users : Exists(u)' = Exists(u)
  /\ wallets' = wallets /\ orphans' = orphans
  /\ Moves(h) /\ ~At(h, "provision") /\ ~At(h, "provision")'

\* No account and no wallet goes away.
NoneLost ==
  \A u \in Users : (Exists(u) => Exists(u)') /\ (wallets[u] = 1 => wallets'[u] = 1)

LEMMA SameAccountsKept ==
  ASSUME AccountsOK, NEW h \in Handlers, SameAccounts(h)
  PROVE  AccountsOK' /\ NoneLost
<1>1. ASSUME NEW g \in Handlers, NEW u \in Users
      PROVE  Provisioning(g, u)' = Provisioning(g, u)
  <2>1. CASE g = h
    BY <2>1 DEF SameAccounts, Provisioning, At
  <2>2. CASE g # h
    BY <2>2 DEF SameAccounts, Moves, Provisioning, At
  <2> QED
    BY <2>1, <2>2
<1>2. ASSUME NEW u \in Users PROVE WalletKept(u)' /\ OneMaker(u)'
  <2>1. WalletKept(u) /\ OneMaker(u)
    BY DEF AccountsOK
  <2>2. Exists(u)' = Exists(u) /\ wallets'[u] = wallets[u] /\ orphans' = orphans
    BY DEF SameAccounts
  <2> QED
    BY <1>1, <2>1, <2>2 DEF WalletKept, OneMaker
<1> QED
  BY <1>2 DEF AccountsOK, SameAccounts, NoneLost

\* The unique address lets one creation in, which then makes the wallet.
LEMMA CreateKept ==
  ASSUME AccountsTyped, JobsTyped, AccountsOK, NEW h \in Handlers, Create(h)
  PROVE  AccountsTyped' /\ Moves(h) /\ AccountsOK' /\ NoneLost
<1>0. At(h, "create") /\ UNCHANGED <<wallets, orphans>> /\ job[h] \in Jobs
  BY DEF Create, history, JobsTyped
<1> PICK u, r, how : u = job[h].user /\ r = job[h].role /\ how = job[h].how
  OBVIOUS
<1>a. u \in Users /\ r \in Roles /\ how \in Hows
  BY <1>0 DEF Jobs
<1>1. CASE Insertable(u)
  <2>1. ~Exists(u) /\ NewAccount(u, r) /\ Serve(h, "provision", u, how, "user")
    BY <1>1 DEF Create, Insertable
  <2>2. Moves(h) /\ job'[h].at = "provision" /\ job'[h].user = u
    <3>1. "provision" \in Places
      BY DEF Places
    <3> QED
      BY <1>a, <2>1, <3>1, ConstantsTyped, Served
  <2>3. /\ users' \in [Users -> UserRows] /\ users'[u].status = "active"
        /\ \A v \in Users \ {u} : users'[v] = users[v]
    BY <1>a, <2>1 DEF AccountsTyped, NewAccount, UserRows, UserStatuses
  <2>4. \A g \in Handlers : ~Provisioning(g, u)
    BY <1>a, <2>1 DEF AccountsOK, OneMaker
  <2>5. \A g \in Handlers, v \in Users :
          Provisioning(g, v)' <=> IF g = h THEN v = u ELSE Provisioning(g, v)
    BY <2>2 DEF Moves, Provisioning, At
  <2>6. ASSUME NEW v \in Users PROVE WalletKept(v)' /\ OneMaker(v)'
    <3>1. WalletKept(v) /\ OneMaker(v) /\ WalletKept(u)
      BY <1>a DEF AccountsOK
    <3>2. CASE v = u
      BY <1>0, <2>1, <2>3, <2>4, <2>5, <3>1, <3>2 DEF WalletKept, OneMaker, Exists
    <3>3. CASE v # u
      <4>1. \A g \in Handlers : Provisioning(g, v)' <=> Provisioning(g, v)
        BY <1>0, <2>5, <3>3 DEF Provisioning, At
      <4>2. Exists(v)' = Exists(v) /\ wallets'[v] = wallets[v] /\ orphans' = orphans
        BY <1>0, <2>3, <3>3 DEF Exists
      <4> QED
        BY <3>1, <4>1, <4>2 DEF WalletKept, OneMaker
    <3> QED
      BY <3>2, <3>3
  <2>7. NoneLost
    BY <1>0, <2>1, <2>3 DEF NoneLost, Exists
  <2> QED
    BY <1>0, <2>2, <2>3, <2>6, <2>7 DEF AccountsTyped, AccountsOK
<1>2. CASE ~Insertable(u)
  <2>1. Done(h) /\ users' = users
    BY <1>2 DEF Create
  <2>2. Moves(h) /\ job'[h].at = "idle"
    BY <2>1, Ended
  <2>3. SameAccounts(h)
    BY <1>0, <2>1, <2>2 DEF SameAccounts, Exists, At
  <2> QED
    BY <1>0, <2>1, <2>2, <2>3, SameAccountsKept DEF AccountsTyped
<1> QED
  BY <1>1, <1>2

\* The call that inserted an account is the only one to give it a wallet.
LEMMA ProvisionKept ==
  ASSUME AccountsTyped, JobsTyped, AccountsOK, NEW h \in Handlers, Provision(h)
  PROVE  AccountsTyped' /\ Moves(h) /\ AccountsOK' /\ NoneLost
<1>0. At(h, "provision") /\ UNCHANGED <<users, orphans>> /\ job[h] \in Jobs
  BY DEF Provision, history, JobsTyped
<1> PICK u : u = job[h].user
  OBVIOUS
<1>1. u \in Users /\ Provisioning(h, u)
  BY <1>0 DEF Jobs, Provisioning
<1>2. Exists(u) /\ wallets[u] = 0 /\ \A g \in Handlers : Provisioning(g, u) => g = h
  BY <1>1 DEF AccountsOK, OneMaker
<1>3. /\ wallets' \in [Users -> Nat] /\ wallets'[u] = 1
      /\ \A v \in Users \ {u} : wallets'[v] = wallets[v]
  BY <1>1, <1>2 DEF Provision, AccountsTyped
<1>4. Moves(h) /\ job'[h].at # "provision"
  <2>1. "issue" \in Places /\ "none" \in Hows
    BY DEF Places, Hows
  <2>2. CASE Serve(h, "issue", u, "none", "user")
    BY <1>1, <2>1, <2>2, ConstantsTyped, Served
  <2>3. CASE Done(h)
    BY <2>3, Ended
  <2> QED
    BY <2>2, <2>3 DEF Provision
<1>5. \A g \in Handlers, v \in Users :
        Provisioning(g, v)' <=> g # h /\ Provisioning(g, v)
  BY <1>4 DEF Moves, Provisioning, At
<1>6. ASSUME NEW v \in Users PROVE WalletKept(v)' /\ OneMaker(v)'
  <2>1. WalletKept(v) /\ OneMaker(v)
    BY DEF AccountsOK
  <2>2. Exists(v)' = Exists(v)
    BY <1>0 DEF Exists
  <2>3. CASE v = u
    BY <1>0, <1>2, <1>3, <1>5, <2>1, <2>2, <2>3 DEF WalletKept, OneMaker
  <2>4. CASE v # u
    <3>1. \A g \in Handlers : Provisioning(g, v)' <=> Provisioning(g, v)
      BY <1>5, <1>1, <2>4 DEF Provisioning
    <3> QED
      BY <1>0, <1>3, <2>1, <2>2, <2>4, <3>1 DEF WalletKept, OneMaker
  <2> QED
    BY <2>3, <2>4
<1> QED
  BY <1>0, <1>2, <1>3, <1>4, <1>6 DEF AccountsTyped, AccountsOK, NoneLost, Exists

\* A call that dies before the wallet leaves an orphan.
LEMMA AbortKept ==
  ASSUME AccountsTyped, JobsTyped, AccountsOK, NEW h \in Handlers, Abort(h)
  PROVE  AccountsTyped' /\ Moves(h) /\ job'[h].at = "idle" /\ AccountsOK' /\ NoneLost
<1>0. UNCHANGED <<users, wallets>> /\ job[h] \in Jobs
  BY DEF Abort, JobsTyped
<1>1. Moves(h) /\ job'[h].at = "idle"
  BY Ended DEF Abort
<1>2. CASE At(h, "provision")
  <2>1. orphans' = orphans \cup {job[h].user} /\ job[h].user \in Users
    BY <1>0, <1>2 DEF Abort, Jobs
  <2>2. \A g \in Handlers, v \in Users :
          Provisioning(g, v)' <=> g # h /\ Provisioning(g, v)
    BY <1>1 DEF Moves, Provisioning, At
  <2>3. ASSUME NEW v \in Users PROVE WalletKept(v)' /\ OneMaker(v)'
    <3>1. WalletKept(v) /\ OneMaker(v) /\ Exists(v)' = Exists(v)
      BY <1>0 DEF AccountsOK, Exists
    <3> QED
      BY <1>0, <2>1, <2>2, <3>1 DEF WalletKept, OneMaker, Provisioning
  <2> QED
    BY <1>0, <1>1, <2>1, <2>3 DEF AccountsTyped, AccountsOK, NoneLost, Exists
<1>3. CASE ~At(h, "provision")
  <2>1. orphans' = orphans
    BY <1>3 DEF Abort
  <2>2. SameAccounts(h)
    BY <1>0, <1>1, <1>3, <2>1 DEF SameAccounts, Exists, At
  <2> QED
    BY <1>0, <1>1, <2>1, <2>2, SameAccountsKept DEF AccountsTyped
<1> QED
  BY <1>2, <1>3

\* The owner of a new tenant gets account and wallet at once.
LEMMA FreshOwnerKept ==
  ASSUME AccountsTyped, AccountsOK, NEW h \in Handlers, NEW u \in Users,
         ~Exists(u), NewAccount(u, "user"), wallets' = [wallets EXCEPT ![u] = @ + 1],
         orphans' = orphans, Moves(h), ~At(h, "provision"), job'[h].at = "idle"
  PROVE  AccountsTyped' /\ AccountsOK' /\ NoneLost
<1>1. wallets[u] = 0 /\ \A g \in Handlers : ~Provisioning(g, u)
  BY DEF AccountsOK, WalletKept, OneMaker
<1>2. /\ users' \in [Users -> UserRows] /\ users'[u].status = "active"
      /\ \A v \in Users \ {u} : users'[v] = users[v]
  BY ConstantsTyped DEF AccountsTyped, NewAccount, UserRows, UserStatuses
<1>3. /\ wallets' \in [Users -> Nat] /\ wallets'[u] = 1
      /\ \A v \in Users \ {u} : wallets'[v] = wallets[v]
  BY <1>1 DEF AccountsTyped
<1>4. \A g \in Handlers, v \in Users : Provisioning(g, v)' <=> Provisioning(g, v)
  BY DEF Moves, Provisioning, At
<1>5. ASSUME NEW v \in Users PROVE WalletKept(v)' /\ OneMaker(v)'
  <2>1. WalletKept(v) /\ OneMaker(v)
    BY DEF AccountsOK
  <2>2. CASE v = u
    BY <1>1, <1>2, <1>3, <1>4, <2>2 DEF WalletKept, OneMaker, Exists
  <2>3. CASE v # u
    BY <1>2, <1>3, <1>4, <2>1, <2>3 DEF WalletKept, OneMaker, Exists
  <2> QED
    BY <2>2, <2>3
<1> QED
  BY <1>1, <1>2, <1>3, <1>5 DEF AccountsTyped, AccountsOK, NoneLost, Exists

-----------------------------------------------------------------------------
(* Sessions and their revocation.                                          *)

\* No token is issued or taken back.
SameSessions(h) ==
  /\ UNCHANGED <<tokens, redis, denied, reached, loggedOut, clock>>
  /\ Moves(h) /\ job'[h].at \notin {"row", "deny"}

\* What the other calls are about to revoke stays what it is.
LEMMA OthersRevoke ==
  ASSUME SessionsOK, NEW h \in Handlers, Moves(h), NEW g \in Handlers \ {h},
         \A t \in Tokens : /\ tokens[t].row # "none" => tokens'[t].row # "none"
                           /\ tokens[t].row = "revoked" => tokens'[t].row = "revoked",
         JobsTyped
  PROVE  Revoking(g)'
<1>1. job'[g] = job[g] /\ Revoking(g) /\ job[g].todo \in SUBSET Tokens
      /\ job[g].current \in SUBSET Tokens
  BY DEF Moves, SessionsOK, JobsTyped, Jobs
<1> QED
  BY <1>1 DEF Revoking, At

LEMMA SameSessionsKept ==
  ASSUME SessionsTyped, JobsTyped, SessionsOK, NEW h \in Handlers, SameSessions(h)
  PROVE  SessionsTyped' /\ SessionsOK'
<1>0. UNCHANGED <<tokens, redis, denied, reached, loggedOut, clock>> /\ Moves(h)
      /\ job'[h].at \notin {"row", "deny"}
  BY DEF SameSessions
<1>1. ASSUME NEW g \in Handlers PROVE Revoking(g)'
  <2>1. CASE g = h
    BY <1>0, <2>1 DEF Revoking, At
  <2>2. CASE g # h
    BY <1>0, <2>2, OthersRevoke
  <2> QED
    BY <2>1, <2>2
<1>2. RowsStay' /\ \A t \in Tokens : KeptOut(t)'
  BY <1>0 DEF SessionsOK, RowsStay, KeptOut
<1> QED
  BY <1>0, <1>1, <1>2 DEF SessionsTyped, SessionsOK

LEMMA IssueKept ==
  ASSUME SessionsTyped, JobsTyped, SessionsOK, NEW h \in Handlers, Issue(h)
  PROVE  SessionsTyped' /\ Moves(h) /\ job'[h].at = "idle" /\ SessionsOK'
<1>1. PICK t \in Tokens, row \in {"live", "none"} :
        /\ tokens[t].owner = Nobody /\ Done(h)
        /\ tokens' = [tokens EXCEPT ![t] = [owner |-> job[h].user, expires |-> clock + Life,
                                            row |-> row]]
        /\ UNCHANGED <<redis, denied, clock, reached, loggedOut>>
  BY DEF Issue, history
<1>2. Moves(h) /\ job'[h].at = "idle"
  BY <1>1, Ended
<1>3. job[h].user \in Users /\ clock + Life \in Int /\ row \in RowStates
  BY TimesAssumption DEF JobsTyped, Jobs, SessionsTyped, RowStates
<1>4. /\ tokens' \in [Tokens -> TokenRows] /\ tokens'[t].owner = job[h].user
      /\ \A s \in Tokens \ {t} : tokens'[s] = tokens[s]
  BY <1>1, <1>3 DEF SessionsTyped, TokenRows, Owners
<1>5. tokens[t].row = "none" /\ t \notin reached
  BY <1>1 DEF SessionsOK, RowsStay, KeptOut
<1>6. ASSUME NEW g \in Handlers PROVE Revoking(g)'
  <2>1. CASE g = h
    BY <1>2, <2>1 DEF Revoking, At
  <2>2. CASE g # h
    BY <1>2, <1>4, <1>5, <2>2, OthersRevoke
  <2> QED
    BY <2>1, <2>2
<1>7. RowsStay' /\ \A s \in Tokens : KeptOut(s)'
  BY <1>1, <1>3, <1>4, <1>5, ConstantsTyped DEF SessionsOK, RowsStay, KeptOut
<1> QED
  BY <1>1, <1>2, <1>4, <1>6, <1>7 DEF SessionsTyped, SessionsOK

\* What is revoked from the list is listed.
LEMMA StartRevokingKept ==
  ASSUME SessionsTyped, JobsTyped, SessionsOK, NEW h \in Handlers,
         NEW how \in {"logout", "revoke"}, NEW targets \in SUBSET Tokens,
         StartRevoking(h, how, targets),
         how = "revoke" => \A t \in targets : tokens[t].row = "live"
  PROVE  SessionsTyped' /\ Moves(h) /\ job'[h].at = "row" /\ SessionsOK'
<1> DEFINE next == [Idle EXCEPT !.at = "row", !.how = how, !.todo = targets]
<1>1. /\ next \in Jobs /\ next.at = "row" /\ next.how = how /\ next.todo = targets
  BY ConstantsTyped DEF Jobs, Idle, Places, Hows
<1>2. Become(h, next) /\ UNCHANGED <<tokens, redis, denied, clock, reached, loggedOut>>
  BY DEF StartRevoking, session, history
<1> HIDE DEF next
<1>3. Moves(h) /\ job'[h] = next
  BY <1>1, <1>2, Became
<1>4. ASSUME NEW g \in Handlers PROVE Revoking(g)'
  <2>1. CASE g = h
    BY <1>1, <1>2, <1>3, <2>1 DEF Revoking, At
  <2>2. CASE g # h
    BY <1>2, <1>3, <2>2, OthersRevoke
  <2> QED
    BY <2>1, <2>2
<1>5. RowsStay' /\ \A t \in Tokens : KeptOut(t)'
  BY <1>2 DEF SessionsOK, RowsStay, KeptOut
<1> QED
  BY <1>1, <1>2, <1>3, <1>4, <1>5 DEF SessionsTyped, SessionsOK

LEMMA RevokeRowKept ==
  ASSUME SessionsTyped, JobsTyped, SessionsOK, NEW h \in Handlers, RevokeRow(h)
  PROVE  SessionsTyped' /\ Moves(h) /\ job'[h].at = "deny" /\ SessionsOK'
<1>1. PICK t \in job[h].todo, done \in BOOLEAN :
        /\ At(h, "row")
        /\ tokens' = IF done /\ tokens[t].row # "none"
                     THEN [tokens EXCEPT ![t].row = "revoked"] ELSE tokens
        /\ reached' = IF done /\ ~redis /\ job[h].how = "revoke" THEN reached \cup {t}
                      ELSE reached
        /\ Become(h, [job[h] EXCEPT !.at = "deny", !.current = {t}])
        /\ UNCHANGED <<redis, denied, clock, loggedOut>>
  BY Zenon DEF RevokeRow
<1> DEFINE next == [job[h] EXCEPT !.at = "deny", !.current = {t}]
<1>2. job[h] \in Jobs /\ t \in Tokens /\ Revoking(h)
  BY DEF JobsTyped, Jobs, SessionsOK
<1>3. /\ next \in Jobs /\ next.at = "deny" /\ next.how = job[h].how
      /\ next.current = {t} /\ next.todo = job[h].todo
  BY <1>2 DEF Jobs, Places
<1>4. Become(h, next)
  BY <1>1
<1> HIDE DEF next
<1>5. Moves(h) /\ job'[h] = next
  BY <1>3, <1>4, Became
<1>6. /\ tokens' \in [Tokens -> TokenRows]
      /\ tokens'[t].owner = tokens[t].owner /\ tokens'[t].expires = tokens[t].expires
      /\ tokens'[t].row = IF done /\ tokens[t].row # "none" THEN "revoked" ELSE tokens[t].row
      /\ \A s \in Tokens \ {t} : tokens'[s] = tokens[s]
  BY <1>1, <1>2 DEF SessionsTyped, TokenRows, RowStates
<1>9. job[h].how = "revoke" => tokens[t].row # "none"
  BY <1>1, <1>2 DEF Revoking
<1>7. ASSUME NEW g \in Handlers PROVE Revoking(g)'
  <2>1. CASE g = h
    <3>1. job[h].how \in {"logout", "revoke"}
          /\ (job[h].how = "revoke" => \A s \in job[h].todo : tokens[s].row # "none")
          /\ job[h].todo \in SUBSET Tokens
      BY <1>1, <1>2 DEF Revoking, Jobs
    <3>2. \A s \in job[h].todo : tokens[s].row # "none" => tokens'[s].row # "none"
      BY <1>6, <3>1
    <3> QED
      BY <1>3, <1>5, <1>6, <2>1, <3>1, <3>2 DEF Revoking, At
  <2>2. CASE g # h
    BY <1>5, <1>6, <2>2, OthersRevoke
  <2> QED
    BY <2>1, <2>2
<1>8. RowsStay' /\ \A s \in Tokens : KeptOut(s)'
  BY <1>1, <1>6, <1>9 DEF SessionsOK, RowsStay, KeptOut
<1>10. reached' \in SUBSET Tokens
  BY <1>1, <1>2 DEF SessionsTyped
<1> QED
  BY <1>1, <1>3, <1>5, <1>6, <1>7, <1>8, <1>10 DEF SessionsTyped, SessionsOK

LEMMA DenyKept ==
  ASSUME SessionsTyped, JobsTyped, SessionsOK, NEW h \in Handlers, Deny(h)
  PROVE  SessionsTyped' /\ Moves(h) /\ job'[h].at \in {"idle", "row"} /\ SessionsOK'
<1>1. PICK t \in job[h].current, done \in BOOLEAN :
        /\ At(h, "deny")
        /\ denied' = IF redis /\ done
                     THEN [denied EXCEPT ![t] = DenyUntil(job[h].how, t)] ELSE denied
        /\ reached' = IF redis /\ done /\ job[h].how = "revoke" THEN reached \cup {t}
                      ELSE reached
        /\ loggedOut' = IF job[h].how = "logout" THEN loggedOut \cup {t} ELSE loggedOut
        /\ IF job[h].todo \ {t} = {} THEN Done(h)
           ELSE Become(h, [Idle EXCEPT !.at = "row", !.how = job[h].how,
                                       !.todo = job[h].todo \ {t}])
        /\ UNCHANGED <<tokens, redis, clock>>
  BY Zenon DEF Deny
<1> DEFINE next == [Idle EXCEPT !.at = "row", !.how = job[h].how, !.todo = job[h].todo \ {t}]
           how == job[h].how
           until == DenyUntil(how, t)
<1>a. tokens' = tokens /\ redis' = redis /\ clock' = clock
  BY <1>1
<1>b. denied' = IF redis /\ done THEN [denied EXCEPT ![t] = until] ELSE denied
  BY <1>1
<1>c. /\ reached' = IF redis /\ done /\ how = "revoke" THEN reached \cup {t} ELSE reached
      /\ loggedOut' = IF how = "logout" THEN loggedOut \cup {t} ELSE loggedOut
  BY <1>1
<1>2. /\ job[h] \in Jobs /\ t \in Tokens /\ job[h].todo \in SUBSET Tokens
      /\ how \in {"logout", "revoke"}
      /\ how = "revoke" => /\ tokens[t].row # "none"
                           /\ \A s \in job[h].todo : tokens[s].row # "none"
  <2>1. job[h] \in Jobs /\ t \in Tokens /\ job[h].todo \in SUBSET Tokens
    BY DEF JobsTyped, Jobs
  <2>2. Revoking(h) /\ At(h, "deny")
    BY <1>1 DEF SessionsOK
  <2> QED
    BY <2>1, <2>2 DEF Revoking
<1>3. /\ next \in Jobs /\ next.at = "row" /\ next.how = how
      /\ next.todo = job[h].todo \ {t}
  BY <1>2, ConstantsTyped DEF Jobs, Places, Hows, Idle
<1>4. Done(h) \/ Become(h, next)
  BY <1>1
<1>7. until \in Int /\ (how = "revoke" => until >= tokens[t].expires)
  <2>1. tokens[t].expires \in Int
    BY <1>2 DEF SessionsTyped, TokenRows
  <2>2. clock \in Int /\ Buffer \in Nat
    BY TimesAssumption DEF SessionsTyped
  <2> QED
    BY <2>1, <2>2 DEF DenyUntil
<1> HIDE DEF next, how, until
<1>5. Moves(h) /\ (job'[h].at = "idle" \/ job'[h] = next)
  BY <1>3, <1>4, Became, Ended
<1>6. ASSUME NEW g \in Handlers PROVE Revoking(g)'
  <2>1. CASE g = h
    BY <1>a, <1>2, <1>3, <1>5, <2>1 DEF Revoking, At
  <2>2. CASE g # h
    BY <1>a, <1>5, <2>2, OthersRevoke
  <2> QED
    BY <2>1, <2>2
<1>d. /\ denied' \in [Tokens -> Int]
      /\ denied'[t] = IF redis /\ done THEN until ELSE denied[t]
      /\ \A s \in Tokens : s # t => denied'[s] = denied[s]
  BY <1>b, <1>2, <1>7 DEF SessionsTyped
<1>8. ASSUME NEW s \in Tokens PROVE KeptOut(s)'
  <2>1. KeptOut(s)
    BY DEF SessionsOK
  <2>2. CASE s = t
    <3>1. CASE how = "logout"
      BY <1>a, <1>c, <1>d, <2>1, <2>2, <3>1 DEF KeptOut
    <3>2. CASE how = "revoke"
      BY <1>a, <1>c, <1>d, <1>2, <1>7, <2>1, <2>2, <3>2 DEF KeptOut
    <3> QED
      BY <1>2, <3>1, <3>2
  <2>3. CASE s # t
    BY <1>a, <1>c, <1>d, <2>1, <2>3 DEF KeptOut
  <2> QED
    BY <2>2, <2>3
<1>9. RowsStay'
  BY <1>a DEF SessionsOK, RowsStay
<1>10. reached' \in SUBSET Tokens /\ loggedOut' \in SUBSET Tokens
  BY <1>c, <1>2 DEF SessionsTyped
<1>11. job'[h].at \in {"idle", "row"}
  BY <1>3, <1>5
<1> QED
  BY <1>a, <1>d, <1>5, <1>6, <1>8, <1>9, <1>10, <1>11 DEF SessionsTyped, SessionsOK

-----------------------------------------------------------------------------
(* Tenants and their owners.                                               *)

\* No tenant changes hands, and h is not about to change one.
SameTenants(h) ==
  /\ UNCHANGED <<tenants, members, provisioned, booted>>
  /\ Moves(h) /\ job'[h].at # "tenant"
  /\ work' \in [Handlers -> Works] /\ \A g \in Handlers \ {h} : work'[g] = work[g]

\* What the other calls have read still holds.
LEMMA OthersWork ==
  ASSUME TenantsOK, TenantsTyped, NEW h \in Handlers, Moves(h), NEW g \in Handlers \ {h},
         work'[g] = work[g], NoneLost, Present(Platform) => Present(Platform)'
  PROVE  WorkOK(g)'
<1>1. WorkOK(g) /\ job'[g] = job[g] /\ work[g].owner \in Owners
  BY DEF TenantsOK, TenantsTyped, Works, Moves
<1>2. work[g].owner # Nobody /\ Exists(work[g].owner) => Exists(work[g].owner)'
  BY <1>1 DEF NoneLost, Owners
<1> QED
  BY <1>1, <1>2 DEF WorkOK, Working, At, Exists

LEMMA NobodyLosesTenants ==
  ASSUME TenantsOK, TenantsTyped, NoneLost, UNCHANGED <<tenants, members, provisioned, booted>>
  PROVE  /\ \A c \in Codes : OwnerKept(c)'
         /\ \A u \in Users : MadeWithTenant(u)'
         /\ PlatformStays'
<1>1. ASSUME NEW c \in Codes PROVE OwnerKept(c)'
  <2>1. OwnerKept(c) /\ tenants[c].owner \in Owners
    BY DEF TenantsOK, TenantsTyped, TenantRows
  <2> QED
    BY <2>1 DEF OwnerKept, Present, NoneLost, Owners, Exists
<1>2. ASSUME NEW u \in Users PROVE MadeWithTenant(u)'
  <2>1. MadeWithTenant(u)
    BY DEF TenantsOK
  <2> QED
    BY <2>1 DEF MadeWithTenant, NoneLost
<1>3. PlatformStays'
  BY DEF TenantsOK, PlatformStays, Present
<1> QED
  BY <1>1, <1>2, <1>3

LEMMA SameTenantsKept ==
  ASSUME TenantsTyped, TenantsOK, NoneLost, NEW h \in Handlers, SameTenants(h)
  PROVE  TenantsTyped' /\ TenantsOK'
<1>0. UNCHANGED <<tenants, members, provisioned, booted>> /\ Moves(h)
  BY DEF SameTenants
<1>1. ASSUME NEW g \in Handlers PROVE WorkOK(g)'
  <2>1. CASE g = h
    BY <2>1 DEF SameTenants, WorkOK, Working, At
  <2>2. CASE g # h
    BY <1>0, <2>2, OthersWork DEF SameTenants, Present
  <2> QED
    BY <2>1, <2>2
<1> QED
  BY <1>0, <1>1, NobodyLosesTenants DEF TenantsOK, TenantsTyped, SameTenants

\* A call that goes on to a tenant has read what it will need.
LEMMA GoKept ==
  ASSUME TenantsTyped, JobsTyped, TenantsOK, AccountsOK, NEW h \in Handlers, NEW next \in Works,
         Go(h, next),
         next.at = "insert" => IF next.fresh THEN next.owner # Nobody
                               ELSE next.owner # Nobody => Exists(next.owner),
         next.at = "write" => next.status \notin {"none", "deleted"},
         next.at # "owner"
  PROVE  TenantsTyped' /\ Moves(h) /\ SameAccounts(h) /\ job'[h].at = "tenant" /\ TenantsOK'
<1>1. /\ At(h, "in") /\ Serve(h, "tenant", job[h].user, "console", "admin") /\ Work(h, next)
      /\ UNCHANGED <<users, wallets, orphans, tenants, members, provisioned, booted>>
  BY DEF Go, AccountsUnchanged, history
<1>2. Moves(h) /\ job'[h].at = "tenant"
  <2>1. job[h].user \in Users /\ "tenant" \in Places /\ "console" \in Hows
    BY DEF JobsTyped, Jobs, Places, Hows
  <2> QED
    BY <1>1, <2>1, ConstantsTyped, Served
<1>3. SameAccounts(h)
  BY <1>1, <1>2 DEF SameAccounts, At, Exists
<1>4. /\ work' \in [Handlers -> Works] /\ work'[h] = next
      /\ \A g \in Handlers \ {h} : work'[g] = work[g]
  BY <1>1 DEF TenantsTyped, Work
<1>5. NoneLost
  BY <1>3, SameAccountsKept
<1>6. ASSUME NEW g \in Handlers PROVE WorkOK(g)'
  <2>1. CASE g = h
    BY <1>1, <1>4, <2>1 DEF WorkOK, Working, Exists
  <2>2. CASE g # h
    BY <1>1, <1>2, <1>4, <1>5, <2>2, OthersWork DEF Present
  <2> QED
    BY <2>1, <2>2
<1> QED
  BY <1>1, <1>2, <1>3, <1>4, <1>5, <1>6, NobodyLosesTenants DEF TenantsOK, TenantsTyped

LEMMA CreateTenantKept ==
  ASSUME TenantsTyped, JobsTyped, TenantsOK, AccountsOK, NEW h \in Handlers,
         NEW c \in Codes, NEW u \in Owners, CreateTenant(h, c, u)
  PROVE  TenantsTyped' /\ Moves(h) /\ SameAccounts(h) /\ job'[h].at = "tenant" /\ TenantsOK'
<1> DEFINE next == [NoWork EXCEPT !.at = "insert", !.code = c, !.owner = u,
                                  !.fresh = FreshOwner(u)]
<1>1. Go(h, next)
  BY DEF CreateTenant
<1>2. FreshOwner(u) \in BOOLEAN
  BY DEF FreshOwner, Exists
<1>3. /\ next \in Works /\ next.at = "insert" /\ next.owner = u /\ next.fresh = FreshOwner(u)
  BY <1>2, ConstantsTyped DEF Works, NoWork
<1>4. IF FreshOwner(u) THEN u # Nobody ELSE u # Nobody => Exists(u)
  BY DEF FreshOwner
<1> HIDE DEF next
<1> QED
  BY <1>1, <1>3, <1>4, GoKept

LEMMA UpdateTenantKept ==
  ASSUME TenantsTyped, JobsTyped, TenantsOK, AccountsOK, NEW h \in Handlers,
         NEW c \in Codes, NEW s \in {"active", "suspended", "terminated", "rejected"},
         UpdateTenant(h, c, s)
  PROVE  TenantsTyped' /\ Moves(h) /\ SameAccounts(h) /\ job'[h].at = "tenant" /\ TenantsOK'
<1> DEFINE next == [NoWork EXCEPT !.at = "write", !.code = c, !.status = s]
<1>1. Go(h, next)
  BY DEF UpdateTenant
<1>2. s \in TenantStatuses /\ s \notin {"none", "deleted"}
  BY DEF TenantStatuses
<1>3. next \in Works /\ next.at = "write" /\ next.status = s
  BY <1>2, ConstantsTyped DEF Works, NoWork
<1> HIDE DEF next
<1> QED
  BY <1>1, <1>2, <1>3, GoKept

\* The end of a call on a tenant.
LEMMA Finished ==
  ASSUME TenantsTyped, JobsTyped, NEW h \in Handlers, Finish(h)
  PROVE  /\ Moves(h) /\ job'[h].at = "idle" /\ work' \in [Handlers -> Works]
         /\ \A g \in Handlers \ {h} : work'[g] = work[g]
<1>1. work' \in [Handlers -> Works] /\ \A g \in Handlers \ {h} : work'[g] = work[g]
  BY ConstantsTyped DEF Finish, Work, TenantsTyped
<1> QED
  BY <1>1, Ended DEF Finish

\* The platform tenant is never deleted, so the status a call read and writes
\* back never hides it.
LEMMA WriteTenantKept ==
  ASSUME TenantsTyped, JobsTyped, TenantsOK, AccountsOK, NEW h \in Handlers, WriteTenant(h)
  PROVE  TenantsTyped' /\ Moves(h) /\ SameAccounts(h) /\ job'[h].at = "idle" /\ TenantsOK'
<1>1. /\ Working(h, "write") /\ Finish(h)
      /\ UNCHANGED <<users, wallets, orphans, members, provisioned, booted>>
      /\ tenants' = IF Present(work[h].code)
                    THEN [tenants EXCEPT ![work[h].code].status = work[h].status] ELSE tenants
  BY DEF WriteTenant, AccountsUnchanged, history
<1>2. /\ Moves(h) /\ job'[h].at = "idle" /\ work' \in [Handlers -> Works]
      /\ \A g \in Handlers \ {h} : work'[g] = work[g]
  BY <1>1, Finished
<1>3. SameAccounts(h)
  BY <1>1, <1>2 DEF SameAccounts, At, Exists, Working
<1>4. NoneLost
  BY <1>3, SameAccountsKept
<1> PICK d, s : d = work[h].code /\ s = work[h].status
  OBVIOUS
<1>5. d \in Codes /\ s \in TenantStatuses /\ s \notin {"none", "deleted"}
  <2>1. work[h] \in Works /\ WorkOK(h)
    BY DEF TenantsTyped, TenantsOK
  <2> QED
    BY <1>1, <2>1 DEF Works, WorkOK
<1>6. /\ tenants' \in [Codes -> TenantRows]
      /\ \A c \in Codes : tenants'[c].owner = tenants[c].owner /\ Present(c)' = Present(c)
      /\ \A c \in Codes : tenants[c].status = "none" <=> tenants'[c].status = "none"
      /\ \A c \in Codes : tenants[c].status = "deleted" <=> tenants'[c].status = "deleted"
  BY <1>1, <1>5 DEF TenantsTyped, TenantRows, Present
<1>7. ASSUME NEW g \in Handlers PROVE WorkOK(g)'
  <2>1. CASE g = h
    BY <1>2, <2>1 DEF WorkOK, Working, At
  <2>2. CASE g # h
    BY <1>2, <1>4, <1>6, <2>2, OthersWork, ConstantsTyped
  <2> QED
    BY <2>1, <2>2
<1>8. ASSUME NEW c \in Codes PROVE OwnerKept(c)'
  <2>1. OwnerKept(c) /\ Exists(tenants[c].owner)' = Exists(tenants[c].owner)
    BY <1>1, <1>6 DEF TenantsOK, Exists
  <2> QED
    BY <1>1, <1>6, <2>1 DEF OwnerKept
<1>9. ASSUME NEW u \in Users PROVE MadeWithTenant(u)'
  <2>1. MadeWithTenant(u)
    BY DEF TenantsOK
  <2> QED
    BY <1>1, <1>4, <1>6, <2>1 DEF MadeWithTenant, NoneLost
<1>10. PlatformStays'
  BY <1>1, <1>6, ConstantsTyped DEF TenantsOK, PlatformStays
<1> QED
  BY <1>1, <1>2, <1>3, <1>6, <1>7, <1>8, <1>9, <1>10 DEF TenantsOK, TenantsTyped

LEMMA DeleteTenantKept ==
  ASSUME TenantsTyped, JobsTyped, TenantsOK, AccountsOK, NEW h \in Handlers,
         NEW d \in Codes, DeleteTenant(h, d)
  PROVE  TenantsTyped' /\ Moves(h) /\ SameAccounts(h) /\ job'[h].at = "idle" /\ TenantsOK'
<1>1. /\ At(h, "in") /\ Present(d) /\ d # Platform /\ Finish(h)
      /\ tenants' = [tenants EXCEPT ![d].status = "deleted"]
      /\ members' = [members EXCEPT ![d] = {}]
      /\ UNCHANGED <<users, wallets, orphans, provisioned, booted>>
  BY DEF DeleteTenant, Removed, AccountsUnchanged, history
<1>2. /\ Moves(h) /\ job'[h].at = "idle" /\ work' \in [Handlers -> Works]
      /\ \A g \in Handlers \ {h} : work'[g] = work[g]
  BY <1>1, Finished
<1>3. SameAccounts(h)
  BY <1>1, <1>2 DEF SameAccounts, At, Exists
<1>4. NoneLost
  BY <1>3, SameAccountsKept
<1>6. /\ tenants' \in [Codes -> TenantRows] /\ members' \in [Codes -> SUBSET Users]
      /\ tenants'[d].status = "deleted" /\ tenants'[d].owner = tenants[d].owner
      /\ \A c \in Codes \ {d} : tenants'[c] = tenants[c] /\ members'[c] = members[c]
  BY <1>1 DEF TenantsTyped, TenantRows, TenantStatuses
<1>7. ASSUME NEW g \in Handlers PROVE WorkOK(g)'
  <2>1. CASE g = h
    BY <1>2, <2>1 DEF WorkOK, Working, At
  <2>2. CASE g # h
    BY <1>1, <1>2, <1>4, <1>6, <2>2, OthersWork, ConstantsTyped DEF Present
  <2> QED
    BY <2>1, <2>2
<1>8. ASSUME NEW c \in Codes PROVE OwnerKept(c)'
  <2>1. OwnerKept(c) /\ Exists(tenants[c].owner)' = Exists(tenants[c].owner)
    BY <1>1, <1>6 DEF TenantsOK, Exists
  <2> QED
    BY <1>6, <2>1 DEF OwnerKept, Present
<1>9. ASSUME NEW u \in Users PROVE MadeWithTenant(u)'
  <2>1. MadeWithTenant(u)
    BY DEF TenantsOK
  <2> QED
    BY <1>1, <1>4, <1>6, <2>1 DEF MadeWithTenant, NoneLost, Present
<1>10. PlatformStays'
  BY <1>1, <1>6, ConstantsTyped DEF TenantsOK, PlatformStays, Present
<1> QED
  BY <1>1, <1>2, <1>3, <1>6, <1>7, <1>8, <1>9, <1>10 DEF TenantsOK, TenantsTyped

\* A tenant is inserted with its owner, who has an account, old or new.
LEMMA NewTenantKept ==
  ASSUME TenantsTyped, TenantsOK, NoneLost, NEW h \in Handlers, NEW d \in Codes, NEW o \in Owners,
         tenants[d].status = "none", o # Nobody => Exists(o)', UNCHANGED booted,
         tenants' = [tenants EXCEPT ![d] = [status |-> "pending_review", owner |-> o]],
         members' = [members EXCEPT ![d] = {o} \ {Nobody}],
         \/ UNCHANGED provisioned
         \/ o \in Users /\ wallets'[o] = 1 /\ provisioned' = provisioned \cup {o},
         Moves(h), job'[h].at = "idle", work' \in [Handlers -> Works],
         \A g \in Handlers \ {h} : work'[g] = work[g]
  PROVE  TenantsTyped' /\ TenantsOK'
<1>1. /\ tenants' \in [Codes -> TenantRows] /\ members' \in [Codes -> SUBSET Users]
      /\ tenants'[d].status = "pending_review" /\ tenants'[d].owner = o
      /\ members'[d] = {o} \ {Nobody}
      /\ \A c \in Codes \ {d} : tenants'[c] = tenants[c] /\ members'[c] = members[c]
  BY DEF TenantsTyped, TenantRows, TenantStatuses, Owners
<1>2. provisioned' \in SUBSET Users
  BY DEF TenantsTyped
<1>3. ASSUME NEW g \in Handlers PROVE WorkOK(g)'
  <2>1. CASE g = h
    BY <2>1 DEF WorkOK, Working, At
  <2>2. CASE g # h
    BY <1>1, <2>2, OthersWork, ConstantsTyped DEF Present
  <2> QED
    BY <2>1, <2>2
<1>4. ASSUME NEW c \in Codes PROVE OwnerKept(c)'
  <2>1. CASE c = d
    BY <1>1, <2>1 DEF OwnerKept, Exists
  <2>2. CASE c # d
    <3>1. OwnerKept(c) /\ tenants[c].owner \in Owners
      BY DEF TenantsOK, TenantsTyped, TenantRows
    <3>2. tenants'[c] = tenants[c] /\ members'[c] = members[c]
      BY <1>1, <2>2
    <3> PICK v : v = tenants[c].owner
      OBVIOUS
    <3>3. v # Nobody /\ Exists(v) => Exists(v)'
      BY <3>1 DEF NoneLost, Owners
    <3> QED
      BY <3>1, <3>2, <3>3 DEF OwnerKept, Present, Exists
  <2> QED
    BY <2>1, <2>2
<1>5. ASSUME NEW u \in Users PROVE MadeWithTenant(u)'
  <2>1. MadeWithTenant(u)
    BY DEF TenantsOK
  <2>2. CASE u \in provisioned
    <3>1. PICK c \in Codes : tenants[c].owner = u /\ tenants[c].status # "none"
      BY <2>1, <2>2 DEF MadeWithTenant
    <3>2. tenants'[c].owner = u /\ tenants'[c].status # "none"
      BY <1>1, <3>1
    <3> QED
      BY <2>1, <2>2, <3>2 DEF MadeWithTenant, NoneLost
  <2>3. CASE u \notin provisioned
    <3>1. u \in provisioned' => u = o /\ u # Nobody /\ wallets'[u] = 1
      BY <2>3, ConstantsTyped
    <3> QED
      BY <1>1, <3>1 DEF MadeWithTenant
  <2> QED
    BY <2>2, <2>3
<1>6. PlatformStays'
  BY <1>1, ConstantsTyped DEF TenantsOK, PlatformStays, Present
<1> QED
  BY <1>1, <1>2, <1>3, <1>4, <1>5, <1>6 DEF TenantsTyped, TenantsOK

\* Nothing of a tenant is left behind by a transaction that meets a taken code
\* or address.
LEMMA CommitTenantKept ==
  ASSUME TypeOK, TenantsOK, AccountsOK, NEW h \in Handlers, CommitTenant(h)
  PROVE  /\ AccountsTyped' /\ AccountsOK' /\ TenantsTyped' /\ TenantsOK'
         /\ Moves(h) /\ job'[h].at = "idle"
<1> DEFINE d == work[h].code
           o == work[h].owner
           ok == tenants[d].status = "none" /\ (work[h].fresh => Insertable(o))
<1>1. /\ Working(h, "insert") /\ Finish(h) /\ UNCHANGED <<orphans, booted>>
      /\ IF ok /\ work[h].fresh
         THEN /\ NewAccount(o, "user") /\ provisioned' = provisioned \cup {o}
              /\ wallets' = [wallets EXCEPT ![o] = @ + 1]
         ELSE UNCHANGED <<users, wallets, provisioned>>
      /\ IF ok
         THEN /\ tenants' = [tenants EXCEPT ![d] = [status |-> "pending_review", owner |-> o]]
              /\ members' = [members EXCEPT ![d] = {o} \ {Nobody}]
         ELSE UNCHANGED <<tenants, members>>
  BY DEF CommitTenant, history
<1>2. AccountsTyped /\ TenantsTyped /\ JobsTyped
  BY DEF TypeOK
<1>3. /\ Moves(h) /\ job'[h].at = "idle" /\ work' \in [Handlers -> Works]
      /\ \A g \in Handlers \ {h} : work'[g] = work[g]
  BY <1>1, <1>2, Finished
<1>4. /\ d \in Codes /\ o \in Owners
      /\ IF work[h].fresh THEN o # Nobody ELSE o # Nobody => Exists(o)
  BY <1>1 DEF TypeOK, TenantsTyped, Works, TenantsOK, WorkOK
<1>5. ASSUME UNCHANGED <<users, wallets>>
      PROVE  AccountsTyped' /\ AccountsOK' /\ NoneLost
  <2>1. SameAccounts(h)
    BY <1>1, <1>3, <1>5 DEF SameAccounts, At, Exists, Working
  <2> QED
    BY <1>1, <1>2, <1>5, <2>1, SameAccountsKept DEF AccountsTyped
<1> PICK c, u, fresh : c = d /\ u = o /\ fresh = work[h].fresh
  OBVIOUS
<1>6. CASE ~ok
  <2>1. UNCHANGED <<users, wallets, provisioned, tenants, members, booted>>
    BY <1>1, <1>6
  <2>2. SameTenants(h)
    BY <1>3, <2>1 DEF SameTenants
  <2> QED
    BY <1>2, <1>3, <1>5, <2>1, <2>2, SameTenantsKept
<1>7. CASE ok /\ fresh
  <2>1. /\ u \in Users /\ c \in Codes /\ tenants[c].status = "none" /\ ~Exists(u)
        /\ NewAccount(u, "user") /\ provisioned' = provisioned \cup {u}
        /\ wallets' = [wallets EXCEPT ![u] = @ + 1]
        /\ tenants' = [tenants EXCEPT ![c] = [status |-> "pending_review", owner |-> u]]
        /\ members' = [members EXCEPT ![c] = {u} \ {Nobody}]
    BY <1>1, <1>4, <1>7 DEF Insertable, Owners
  <2>2. AccountsTyped' /\ AccountsOK' /\ NoneLost
    BY <1>1, <1>2, <1>3, <2>1, FreshOwnerKept DEF Working, At
  <2>3. wallets'[u] = 1 /\ Exists(u)'
    <3>1. wallets[u] = 0 /\ wallets[u] \in Nat
      BY <1>2, <2>1 DEF AccountsOK, WalletKept, AccountsTyped
    <3> QED
      BY <1>2, <2>1, <3>1 DEF AccountsTyped, NewAccount, Exists
  <2>4. TenantsTyped' /\ TenantsOK'
    BY <1>1, <1>2, <1>3, <2>1, <2>2, <2>3, NewTenantKept DEF Owners
  <2> QED
    BY <1>3, <2>2, <2>4
<1>8. CASE ok /\ ~fresh
  <2>1. /\ UNCHANGED <<users, wallets, provisioned, booted>>
        /\ c \in Codes /\ u \in Owners /\ tenants[c].status = "none"
        /\ u # Nobody => Exists(u)
        /\ tenants' = [tenants EXCEPT ![c] = [status |-> "pending_review", owner |-> u]]
        /\ members' = [members EXCEPT ![c] = {u} \ {Nobody}]
    BY <1>1, <1>4, <1>8
  <2>2. AccountsTyped' /\ AccountsOK' /\ NoneLost
    BY <1>5, <2>1
  <2>3. u # Nobody => Exists(u)'
    BY <2>1 DEF Exists
  <2>4. TenantsTyped' /\ TenantsOK'
    BY <1>2, <1>3, <2>1, <2>2, <2>3, NewTenantKept
  <2> QED
    BY <1>3, <2>2, <2>4
<1> QED
  BY <1>6, <1>7, <1>8

\* A boot finds the platform tenant or makes it, for the administrator.
LEMMA EnsurePlatformKept ==
  ASSUME TenantsTyped, JobsTyped, TenantsOK, AccountsOK, NEW h \in Handlers,
         EnsurePlatformTenant(h)
  PROVE  TenantsTyped' /\ Moves(h) /\ SameAccounts(h) /\ job'[h].at = "tenant" /\ TenantsOK'
<1>1. /\ At(h, "idle") /\ (Present(Platform) \/ Exists(Admin))
      /\ tenants' = IF Present(Platform) THEN tenants
                    ELSE [tenants EXCEPT ![Platform] = PlatformTenant]
      /\ Serve(h, "tenant", Admin, "console", "admin")
      /\ Work(h, [NoWork EXCEPT !.at = "owner"])
      /\ UNCHANGED <<users, wallets, orphans, members, provisioned, booted>>
  BY DEF EnsurePlatformTenant, AccountsUnchanged, history
<1>2. Moves(h) /\ job'[h].at = "tenant"
  <2>1. "tenant" \in Places /\ "console" \in Hows
    BY DEF Places, Hows
  <2> QED
    BY <1>1, <2>1, ConstantsTyped, Served
<1>3. SameAccounts(h)
  BY <1>1, <1>2 DEF SameAccounts, At, Exists
<1>4. NoneLost
  BY <1>3, SameAccountsKept
<1>5. /\ work' \in [Handlers -> Works] /\ work'[h].at = "owner"
      /\ \A g \in Handlers \ {h} : work'[g] = work[g]
  <2> DEFINE next == [NoWork EXCEPT !.at = "owner"]
  <2>1. next \in Works /\ next.at = "owner"
    BY ConstantsTyped DEF Works, NoWork
  <2>2. work' = [work EXCEPT ![h] = next]
    BY <1>1 DEF Work
  <2> HIDE DEF next
  <2> QED
    BY <2>1, <2>2 DEF TenantsTyped
<1>6. /\ tenants' \in [Codes -> TenantRows]
      /\ \A c \in Codes : c # Platform \/ Present(c) => tenants'[c] = tenants[c]
      /\ ~Present(Platform) => tenants'[Platform] = PlatformTenant
  <2>1. PlatformTenant \in TenantRows
    BY ConstantsTyped DEF PlatformTenant, TenantRows, TenantStatuses, Owners
  <2> QED
    BY <1>1, <2>1, ConstantsTyped DEF TenantsTyped
<1>7. Present(Platform)'
  BY <1>6, ConstantsTyped DEF Present, PlatformTenant
<1>8. ASSUME NEW g \in Handlers PROVE WorkOK(g)'
  <2>1. CASE g = h
    BY <1>5, <1>7, <2>1 DEF WorkOK, Working
  <2>2. CASE g # h
    BY <1>2, <1>4, <1>5, <1>7, <2>2, OthersWork
  <2> QED
    BY <2>1, <2>2
<1>9. ASSUME NEW c \in Codes PROVE OwnerKept(c)'
  <2>1. CASE c # Platform \/ Present(c)
    <3>1. OwnerKept(c) /\ tenants'[c] = tenants[c]
      BY <1>6, <2>1 DEF TenantsOK
    <3> QED
      BY <1>1, <3>1 DEF OwnerKept, Present, Exists
  <2>2. CASE c = Platform /\ ~Present(c)
    BY <1>1, <1>6, <2>2 DEF OwnerKept, PlatformTenant, Exists
  <2> QED
    BY <2>1, <2>2
<1>10. ASSUME NEW u \in Users PROVE MadeWithTenant(u)'
  <2>1. MadeWithTenant(u)
    BY DEF TenantsOK
  <2>2. CASE u \in provisioned
    <3>1. PICK c \in Codes : tenants[c].owner = u /\ tenants[c].status # "none"
      BY <2>1, <2>2 DEF MadeWithTenant
    <3>2. tenants'[c] = tenants[c]
      BY <1>6, <3>1 DEF TenantsOK, PlatformStays, Present
    <3> QED
      BY <1>1, <2>1, <3>1, <3>2 DEF MadeWithTenant, Exists
  <2>3. CASE u \notin provisioned
    BY <1>1, <2>3 DEF MadeWithTenant
  <2> QED
    BY <2>2, <2>3
<1>11. PlatformStays'
  BY <1>1, <1>6, <1>7 DEF TenantsOK, PlatformStays, Present
<1> QED
  BY <1>1, <1>2, <1>3, <1>5, <1>6, <1>8, <1>9, <1>10, <1>11 DEF TenantsOK, TenantsTyped

LEMMA EnsureOwnerKept ==
  ASSUME TenantsTyped, JobsTyped, TenantsOK, AccountsOK, NEW h \in Handlers, EnsureOwner(h)
  PROVE  TenantsTyped' /\ Moves(h) /\ SameAccounts(h) /\ job'[h].at = "idle" /\ TenantsOK'
<1>1. /\ Working(h, "owner") /\ booted' = TRUE /\ Finish(h)
      /\ members' = [members EXCEPT ![Platform] = @ \cup {Admin}]
      /\ UNCHANGED <<users, wallets, orphans, tenants, provisioned>>
  BY DEF EnsureOwner, Join, AccountsUnchanged, history
<1>2. /\ Moves(h) /\ job'[h].at = "idle" /\ work' \in [Handlers -> Works]
      /\ \A g \in Handlers \ {h} : work'[g] = work[g]
  BY <1>1, Finished
<1>3. SameAccounts(h)
  BY <1>1, <1>2 DEF SameAccounts, At, Exists, Working
<1>4. NoneLost
  BY <1>3, SameAccountsKept
<1>5. /\ members' \in [Codes -> SUBSET Users] /\ Admin \in members'[Platform]
      /\ \A c \in Codes : members[c] \in SUBSET members'[c]
  BY <1>1, ConstantsTyped DEF TenantsTyped
<1>6. Present(Platform)
  BY <1>1 DEF TenantsOK, WorkOK
<1>7. ASSUME NEW g \in Handlers PROVE WorkOK(g)'
  <2>1. CASE g = h
    BY <1>2, <2>1 DEF WorkOK, Working, At
  <2>2. CASE g # h
    BY <1>1, <1>2, <1>4, <2>2, OthersWork DEF Present
  <2> QED
    BY <2>1, <2>2
<1>8. ASSUME NEW c \in Codes PROVE OwnerKept(c)'
  <2>1. OwnerKept(c) /\ members[c] \in SUBSET members'[c]
    BY <1>5 DEF TenantsOK
  <2> QED
    BY <1>1, <2>1 DEF OwnerKept, Present, Exists
<1>9. ASSUME NEW u \in Users PROVE MadeWithTenant(u)'
  <2>1. MadeWithTenant(u)
    BY DEF TenantsOK
  <2> QED
    BY <1>1, <2>1 DEF MadeWithTenant, Exists
<1>10. PlatformStays'
  BY <1>1, <1>5, <1>6 DEF TenantsOK, PlatformStays, Present
<1> QED
  BY <1>1, <1>2, <1>3, <1>5, <1>7, <1>8, <1>9, <1>10 DEF TenantsOK, TenantsTyped

-----------------------------------------------------------------------------
(* Every step.                                                             *)

SessionsUnchanged == UNCHANGED <<tokens, redis, denied, reached, loggedOut, clock>>

\* Calls that look something up, or write one row of an account that exists.
Plain(h) ==
  /\ UNCHANGED <<wallets, orphans>> /\ SessionsUnchanged
  /\ Moves(h) /\ job'[h].at \in {"idle", "create", "issue", "in"} /\ ~At(h, "provision")
  /\ \/ users' = users
     \/ \E u \in Users, row \in UserRows :
          Exists(u) /\ row.status # "none" /\ users' = [users EXCEPT ![u] = row]

LEMMA LookupIsPlain ==
  ASSUME JobsTyped, NEW h \in Handlers, NEW place \in {"create", "issue"}, NEW u \in Users,
         NEW how \in {"none", "console", "self"}, NEW role \in Roles,
         Serve(h, place, u, how, role), ~At(h, "provision"),
         UNCHANGED <<users, wallets, session, clock, history>>
  PROVE  Plain(h)
<1>1. place \in Places /\ how \in Hows
  BY DEF Places, Hows
<1>2. Moves(h) /\ job'[h].at = place
  BY <1>1, Served
<1> QED
  BY <1>2 DEF Plain, SessionsUnchanged, session, history

LEMMA RewriteIsPlain ==
  ASSUME JobsTyped, NEW h \in Handlers, NEW u \in Users, NEW row \in UserRows,
         Exists(u), row.status # "none", users' = [users EXCEPT ![u] = row], Done(h),
         ~At(h, "provision"), UNCHANGED <<wallets, session, clock, history>>
  PROVE  Plain(h)
<1>1. Moves(h) /\ job'[h].at = "idle"
  BY Ended
<1> QED
  BY <1>1 DEF Plain, SessionsUnchanged, session, history

LEMMA PlainSteps ==
  ASSUME TypeOK, NEW h \in Handlers,
         \/ Boot(h) \/ BootstrapLogin(h)
         \/ \E u \in Users : \/ Register(h, u) \/ Login(h, u) \/ DeleteUser(h, u)
                             \/ GithubCallback(h, u) \/ GoogleCallback(h, u)
                             \/ WechatCallback(h, u)
                             \/ \E r \in Roles : CreateUser(h, u, r) \/ SetRole(h, u, r)
                             \/ \E s \in Statuses : SetStatus(h, u, s)
         \/ \E t \in Tokens : Authenticate(h, t)
  PROVE  Plain(h)
<1>0. JobsTyped /\ AccountsTyped /\ SessionsTyped
  BY DEF TypeOK
<1>1. CASE Boot(h) \/ BootstrapLogin(h)
  BY <1>0, <1>1, ConstantsTyped, LookupIsPlain DEF Boot, BootstrapLogin, At
<1>2. ASSUME NEW u \in Users, \/ Register(h, u) \/ Login(h, u) \/ GithubCallback(h, u)
                              \/ GoogleCallback(h, u) \/ WechatCallback(h, u)
                              \/ \E r \in Roles : CreateUser(h, u, r)
      PROVE  Plain(h)
  BY <1>0, <1>2, ConstantsTyped, LookupIsPlain
     DEF Register, Login, GithubCallback, GoogleCallback, WechatCallback, FindOrCreate,
         CreateUser, At
<1>3. ASSUME NEW u \in Users, NEW s \in Statuses \cup {"deleted"}, SetStatus(h, u, s)
      PROVE  Plain(h)
  <2>1. [users[u] EXCEPT !.status = s] \in UserRows /\ s # "none"
        /\ [users[u] EXCEPT !.status = s].status = s
    BY <1>0, StatusesAssumption DEF AccountsTyped, UserRows, UserStatuses
  <2>2. /\ users' = [users EXCEPT ![u] = [users[u] EXCEPT !.status = s]]
        /\ Exists(u) /\ Done(h) /\ ~At(h, "provision")
        /\ UNCHANGED <<wallets, session, clock, history>>
    BY <1>0, <1>3 DEF SetStatus, At, AccountsTyped, UserRows
  <2> QED
    BY <1>0, <2>1, <2>2, RewriteIsPlain
<1>4. ASSUME NEW u \in Users, NEW r \in Roles, SetRole(h, u, r)
      PROVE  Plain(h)
  <2>1. /\ [users[u] EXCEPT !.role = r] \in UserRows
        /\ [users[u] EXCEPT !.role = r].status = users[u].status
    BY <1>0 DEF AccountsTyped, UserRows
  <2>2. /\ users' = [users EXCEPT ![u] = [users[u] EXCEPT !.role = r]]
        /\ Exists(u) /\ users[u].status # "none" /\ Done(h) /\ ~At(h, "provision")
        /\ UNCHANGED <<wallets, session, clock, history>>
    BY <1>0, <1>4 DEF SetRole, At, AccountsTyped, UserRows, Exists
  <2> QED
    BY <1>0, <2>1, <2>2, RewriteIsPlain
<1>5. ASSUME NEW t \in Tokens, Authenticate(h, t)
      PROVE  Plain(h)
  <2>0. tokens[t].owner # Nobody
    BY <1>5, Zenon DEF Authenticate, Accepted
  <2>1. tokens[t].owner \in Users
    BY <1>0, <2>0 DEF SessionsTyped, TokenRows, Owners
  <2> PICK u : u = tokens[t].owner
    OBVIOUS
  <2> DEFINE next == [Idle EXCEPT !.at = "in", !.user = u, !.role = users[u].role,
                                  !.current = {t}]
  <2>2. users[u].role \in Roles
    BY <1>0, <2>1 DEF AccountsTyped, UserRows
  <2>3. next \in Jobs /\ next.at = "in"
    BY <2>1, <2>2, ConstantsTyped DEF Jobs, Places, Idle
  <2>4. /\ Become(h, next) /\ ~At(h, "provision")
        /\ UNCHANGED <<users, wallets, session, clock, history>>
    <3>1. /\ At(h, "idle") /\ UNCHANGED <<users, wallets, session, clock, history>>
          /\ Become(h, [Idle EXCEPT !.at = "in", !.user = tokens[t].owner,
                                    !.role = users[tokens[t].owner].role, !.current = {t}])
      BY <1>5, Zenon DEF Authenticate
    <3> QED
      BY <3>1 DEF At
  <2> HIDE DEF next
  <2>5. Moves(h) /\ job'[h].at = "in"
    BY <1>0, <2>3, <2>4, Became
  <2> QED
    BY <2>4, <2>5 DEF Plain, SessionsUnchanged, session, history
<1> QED
  BY <1>1, <1>2, <1>3, <1>4, <1>5 DEF DeleteUser

LEMMA PlainKept ==
  ASSUME TypeOK, AccountsOK, SessionsOK, NEW h \in Handlers, Plain(h)
  PROVE  /\ AccountsTyped' /\ AccountsOK' /\ NoneLost /\ SessionsTyped' /\ SessionsOK'
         /\ Moves(h) /\ job'[h].at # "tenant"
<1>0. AccountsTyped /\ SessionsTyped /\ JobsTyped
  BY DEF TypeOK
<1>1. users' \in [Users -> UserRows] /\ \A u \in Users : Exists(u)' = Exists(u)
  BY <1>0 DEF Plain, AccountsTyped, Exists
<1>2. SameAccounts(h)
  BY <1>1 DEF Plain, SameAccounts, At
<1>3. SameSessions(h) /\ job'[h].at # "tenant"
  BY DEF Plain, SameSessions, SessionsUnchanged
<1>4. AccountsTyped'
  BY <1>0, <1>1 DEF Plain, AccountsTyped
<1>5. SessionsTyped' /\ SessionsOK'
  BY <1>0, <1>3, SameSessionsKept
<1> QED
  BY <1>2, <1>3, <1>4, <1>5, SameAccountsKept DEF SameAccounts

\* Steps on tokens find the accounts as they are.
LEMMA TokenKept ==
  ASSUME TypeOK, AccountsOK, SessionsOK, NEW h \in Handlers,
         \/ Issue(h) \/ Logout(h) \/ RevokeOthers(h) \/ RevokeRow(h) \/ Deny(h)
         \/ \E t \in Tokens : RevokeSession(h, t)
  PROVE  /\ AccountsTyped' /\ AccountsOK' /\ NoneLost /\ SessionsTyped' /\ SessionsOK'
         /\ Moves(h) /\ job'[h].at # "tenant"
<1>0. AccountsTyped /\ SessionsTyped /\ JobsTyped
  BY DEF TypeOK
<1>1. /\ SessionsTyped' /\ SessionsOK' /\ Moves(h)
      /\ job'[h].at \in {"idle", "row", "deny"} /\ ~At(h, "provision")
      /\ UNCHANGED <<users, wallets, orphans>>
  <2>1. CASE Issue(h)
    BY <1>0, <2>1, IssueKept DEF Issue, At, history
  <2>2. ASSUME NEW how \in {"logout", "revoke"}, NEW targets \in SUBSET Tokens,
               StartRevoking(h, how, targets),
               how = "revoke" => \A t \in targets : tokens[t].row = "live"
        PROVE  /\ SessionsTyped' /\ SessionsOK' /\ Moves(h)
               /\ job'[h].at \in {"idle", "row", "deny"} /\ ~At(h, "provision")
               /\ UNCHANGED <<users, wallets, orphans>>
    <3>1. ~At(h, "provision") /\ UNCHANGED <<users, wallets, orphans>>
      BY <2>2 DEF StartRevoking, At, history
    <3> QED
      BY <1>0, <2>2, <3>1, StartRevokingKept
  <2>3. CASE Logout(h)
    <3>1. job[h].current \in SUBSET Tokens
      BY <1>0 DEF JobsTyped, Jobs
    <3> QED
      BY <2>2, <2>3, <3>1 DEF Logout
  <2>4. CASE RevokeOthers(h)
    BY <2>2, <2>4 DEF RevokeOthers, Live
  <2>5. ASSUME NEW t \in Tokens, RevokeSession(h, t)
        PROVE  /\ SessionsTyped' /\ SessionsOK' /\ Moves(h)
               /\ job'[h].at \in {"idle", "row", "deny"} /\ ~At(h, "provision")
               /\ UNCHANGED <<users, wallets, orphans>>
    BY <2>2, <2>5 DEF RevokeSession, Live
  <2>6. CASE RevokeRow(h)
    <3>1. At(h, "row") /\ UNCHANGED <<users, wallets, orphans>>
      BY <2>6, Zenon DEF RevokeRow
    <3> QED
      BY <1>0, <2>6, <3>1, RevokeRowKept DEF At
  <2>7. CASE Deny(h)
    <3>1. At(h, "deny") /\ UNCHANGED <<users, wallets, orphans>>
      BY <2>7, Zenon DEF Deny
    <3> QED
      BY <1>0, <2>7, <3>1, DenyKept DEF At
  <2> QED
    BY <2>1, <2>3, <2>4, <2>5, <2>6, <2>7
<1>2. SameAccounts(h) /\ AccountsTyped'
  BY <1>0, <1>1 DEF SameAccounts, At, Exists, AccountsTyped
<1> QED
  BY <1>1, <1>2, SameAccountsKept

LEMMA ConsoleKept ==
  ASSUME TypeOK, AccountsOK, SessionsOK, NEW h \in Handlers, Account(h) \/ Session(h)
  PROVE  /\ AccountsTyped' /\ AccountsOK' /\ NoneLost /\ SessionsTyped' /\ SessionsOK'
         /\ Moves(h) /\ job'[h].at # "tenant"
<1>0. AccountsTyped /\ SessionsTyped /\ JobsTyped
  BY DEF TypeOK
<1>1. CASE Create(h) \/ Provision(h)
  <2>1. AccountsTyped' /\ AccountsOK' /\ NoneLost /\ Moves(h)
    BY <1>0, <1>1, CreateKept, ProvisionKept
  <2>2. job'[h].at \in {"idle", "provision", "issue"}
    <3>1. job[h].user \in Users /\ job[h].how \in Hows
          /\ "provision" \in Places /\ "issue" \in Places /\ "none" \in Hows
      BY <1>0 DEF JobsTyped, Jobs, Places, Hows
    <3> QED
      BY <1>0, <1>1, <3>1, ConstantsTyped, Served, Ended DEF Create, Provision
  <2>3. SameSessions(h)
    BY <1>1, <2>1, <2>2 DEF Create, Provision, SameSessions, session, history
  <2> QED
    BY <1>0, <2>1, <2>2, <2>3, SameSessionsKept
<1>2. CASE ~(Create(h) \/ Provision(h))
  BY <1>2, PlainSteps, PlainKept, TokenKept DEF Account, Session
<1> QED
  BY <1>1, <1>2

LEMMA TenancyKept ==
  ASSUME IInv, NEW h \in Handlers, Tenancy(h)
  PROVE  IInv'
<1>0. /\ TypeOK /\ AccountsTyped /\ SessionsTyped /\ TenantsTyped /\ JobsTyped
      /\ AccountsOK /\ SessionsOK /\ TenantsOK
  BY DEF IInv, TypeOK
<1>1. /\ TenantsTyped' /\ TenantsOK' /\ AccountsTyped' /\ AccountsOK'
      /\ Moves(h) /\ job'[h].at \in {"idle", "tenant"}
  <2>1. ASSUME TenantsTyped', Moves(h), SameAccounts(h), job'[h].at \in {"idle", "tenant"},
               TenantsOK', users' = users
        PROVE  /\ TenantsTyped' /\ TenantsOK' /\ AccountsTyped' /\ AccountsOK'
               /\ Moves(h) /\ job'[h].at \in {"idle", "tenant"}
    <3>1. AccountsTyped'
      BY <1>0, <2>1 DEF AccountsTyped, SameAccounts
    <3> QED
      BY <1>0, <2>1, <3>1, SameAccountsKept
  <2>2. ASSUME NEW c \in Codes, NEW u \in Users \cup {Nobody}, CreateTenant(h, c, u)
        PROVE  /\ TenantsTyped' /\ TenantsOK' /\ AccountsTyped' /\ AccountsOK'
               /\ Moves(h) /\ job'[h].at \in {"idle", "tenant"}
    <3>1. users' = users
      BY <2>2 DEF CreateTenant, Go, AccountsUnchanged
    <3> QED
      BY <1>0, <2>1, <2>2, <3>1, CreateTenantKept DEF Owners
  <2>3. ASSUME NEW c \in Codes, NEW s \in {"active", "suspended", "terminated", "rejected"},
               UpdateTenant(h, c, s)
        PROVE  /\ TenantsTyped' /\ TenantsOK' /\ AccountsTyped' /\ AccountsOK'
               /\ Moves(h) /\ job'[h].at \in {"idle", "tenant"}
    <3>1. users' = users
      BY <2>3 DEF UpdateTenant, Go, AccountsUnchanged
    <3> QED
      BY <1>0, <2>1, <2>3, <3>1, UpdateTenantKept
  <2>4. ASSUME NEW c \in Codes, DeleteTenant(h, c)
        PROVE  /\ TenantsTyped' /\ TenantsOK' /\ AccountsTyped' /\ AccountsOK'
               /\ Moves(h) /\ job'[h].at \in {"idle", "tenant"}
    <3>1. users' = users
      BY <2>4 DEF DeleteTenant, AccountsUnchanged
    <3> QED
      BY <1>0, <2>1, <2>4, <3>1, DeleteTenantKept
  <2>5. CASE CommitTenant(h)
    BY <1>0, <2>5, CommitTenantKept
  <2>6. CASE WriteTenant(h) \/ EnsurePlatformTenant(h) \/ EnsureOwner(h)
    <3>1. users' = users
      BY <2>6 DEF WriteTenant, EnsurePlatformTenant, EnsureOwner, AccountsUnchanged
    <3> QED
      BY <1>0, <2>1, <2>6, <3>1, WriteTenantKept, EnsurePlatformKept, EnsureOwnerKept
  <2> QED
    BY <2>2, <2>3, <2>4, <2>5, <2>6 DEF Tenancy
<1>2. SessionsUnchanged
  BY DEF Tenancy, CreateTenant, UpdateTenant, DeleteTenant, CommitTenant, WriteTenant,
     EnsurePlatformTenant, EnsureOwner, Go, AccountsUnchanged, session, history,
     SessionsUnchanged
<1>3. SameSessions(h)
  BY <1>1, <1>2 DEF SameSessions, SessionsUnchanged
<1>4. SessionsTyped' /\ SessionsOK'
  BY <1>0, <1>3, SameSessionsKept
<1> QED
  BY <1>1, <1>4 DEF IInv, TypeOK, Moves

LEMMA InitIsSound == TInit => IInv
<1> SUFFICES ASSUME TInit PROVE IInv
  OBVIOUS
<1>0. Init
  BY DEF TInit
<1>1. AccountsTyped
  <2>1. NoUser \in UserRows
    BY ConstantsTyped DEF NoUser, UserRows, UserStatuses
  <2> QED
    BY <1>0, <2>1 DEF Init, AccountsTyped
<1>2. SessionsTyped
  <2>1. Unissued \in TokenRows
    BY ConstantsTyped DEF Unissued, TokenRows, RowStates
  <2> QED
    BY <1>0, <2>1 DEF Init, SessionsTyped
<1>3. TenantsTyped
  <2>1. NoTenant \in TenantRows
    BY ConstantsTyped DEF NoTenant, TenantRows, TenantStatuses
  <2> QED
    BY <2>1, ConstantsTyped DEF TInit, TenantsTyped
<1>4. JobsTyped /\ \A h \in Handlers : job[h].at = "idle"
  BY <1>0, ConstantsTyped DEF Init, JobsTyped
<1>5. AccountsOK
  BY <1>0, <1>4 DEF Init, AccountsOK, WalletKept, OneMaker, Provisioning, At, Exists, NoUser
<1>6. SessionsOK
  BY <1>0, <1>4 DEF Init, SessionsOK, RowsStay, Revoking, KeptOut, At, Unissued
<1>7. TenantsOK
  BY <1>4, ConstantsTyped DEF TInit, TenantsOK, WorkOK, Working, At, OwnerKept, MadeWithTenant,
     PlatformStays, Present, NoTenant
<1> QED
  BY <1>1, <1>2, <1>3, <1>4, <1>5, <1>6, <1>7 DEF IInv, TypeOK

LEMMA IInvInductive == IInv /\ [TNext]_tvars => IInv'
<1> SUFFICES ASSUME IInv, [TNext]_tvars PROVE IInv'
  OBVIOUS
<1>0. /\ TypeOK /\ AccountsTyped /\ SessionsTyped /\ TenantsTyped /\ JobsTyped
      /\ AccountsOK /\ SessionsOK /\ TenantsOK
  BY DEF IInv, TypeOK
<1>1. CASE UNCHANGED <<users, wallets, job, orphans, tokens, redis, denied, reached, loggedOut,
                       tenants, members, work, provisioned, booted>> /\ clock' \in Nat
  <2>1. TypeOK'
    BY <1>0, <1>1 DEF TypeOK, AccountsTyped, SessionsTyped, TenantsTyped, JobsTyped
  <2>2. AccountsOK'
    BY <1>0, <1>1 DEF AccountsOK, WalletKept, OneMaker, Provisioning, At, Exists
  <2>3. SessionsOK'
    BY <1>0, <1>1 DEF SessionsOK, RowsStay, Revoking, KeptOut, At
  <2>4. TenantsOK'
    BY <1>0, <1>1 DEF TenantsOK, WorkOK, Working, At, OwnerKept, MadeWithTenant, PlatformStays,
       Present, Exists
  <2> QED
    BY <2>1, <2>2, <2>3, <2>4 DEF IInv
<1>2. ASSUME NEW h \in Handlers, Account(h) \/ Session(h), UNCHANGED tenancy
      PROVE  IInv'
  <2>1. /\ AccountsTyped' /\ AccountsOK' /\ NoneLost /\ SessionsTyped' /\ SessionsOK'
        /\ Moves(h) /\ job'[h].at # "tenant"
    BY <1>0, <1>2, ConsoleKept
  <2>2. SameTenants(h)
    BY <1>0, <1>2, <2>1 DEF SameTenants, tenancy, TenantsTyped
  <2>3. TenantsTyped' /\ TenantsOK'
    BY <1>0, <2>1, <2>2, SameTenantsKept
  <2> QED
    BY <2>1, <2>3 DEF IInv, TypeOK, Moves
<1>3. ASSUME NEW h \in Handlers, Abort(h), Work(h, NoWork),
             UNCHANGED <<tenants, members, provisioned, booted>>
      PROVE  IInv'
  <2>1. AccountsTyped' /\ Moves(h) /\ job'[h].at = "idle" /\ AccountsOK' /\ NoneLost
    BY <1>0, <1>3, AbortKept
  <2>2. SameSessions(h)
    BY <1>3, <2>1 DEF Abort, SameSessions, session
  <2>3. work' \in [Handlers -> Works] /\ \A g \in Handlers \ {h} : work'[g] = work[g]
    BY <1>0, <1>3, ConstantsTyped DEF Work, TenantsTyped
  <2>4. SameTenants(h)
    BY <1>3, <2>1, <2>3 DEF SameTenants
  <2>5. TenantsTyped' /\ TenantsOK'
    BY <1>0, <2>1, <2>4, SameTenantsKept
  <2>6. SessionsTyped' /\ SessionsOK'
    BY <1>0, <2>2, SameSessionsKept
  <2> QED
    BY <2>1, <2>5, <2>6 DEF IInv, TypeOK, Moves
<1>4. CASE UNCHANGED tvars
  BY <1>0, <1>1, <1>4 DEF tvars, vars, tenancy, SessionsTyped
<1>5. CASE Tick /\ UNCHANGED <<scene, tenancy>>
  BY <1>0, <1>1, <1>5 DEF Tick, session, history, tenancy, SessionsTyped
<1>6. ASSUME NEW h \in Handlers, Beside(h) PROVE Account(h) \/ Session(h)
  BY <1>6 DEF Beside, Account, Session
<1>7. ASSUME NEW h \in Handlers, Tenancy(h) PROVE IInv'
  BY <1>7, TenancyKept
<1> QED
  BY <1>2, <1>3, <1>4, <1>5, <1>6, <1>7 DEF TNext

-----------------------------------------------------------------------------
(* The theorems.                                                           *)

\* The inductive invariant holds of every reachable state.
THEOREM Inductive == TSpec => []IInv
BY InitIsSound, IInvInductive, PTL DEF TSpec

\* Accounts, sessions, tenants and calls keep their types.
THEOREM TypeCorrect == TSpec => []TypeOK
<1>1. IInv => TypeOK
  BY DEF IInv
<1> QED
  BY <1>1, Inductive, PTL

\* However many calls create an account at once, on whichever path, it gets one
\* wallet; it has none only while it is being made or after a crash in between.
THEOREM AccountsHaveOneWallet == TSpec => []OneWalletEach
<1>1. IInv => OneWalletEach
  BY DEF IInv, AccountsOK, WalletKept, Provisioning, OneWalletEach
<1> QED
  BY <1>1, Inductive, PTL

\* A listed session whose revocation reached the store that is asked is not let
\* in again on an answer of that store, with Redis and without, whatever else
\* runs beside it but a logout of the same token.
THEOREM RevocationsLast == TSpec => []RevokedStaysOut
<1>1. IInv => RevokedStaysOut
  <2> SUFFICES ASSUME IInv, NEW t \in reached, t \notin loggedOut \/ ~redis,
                      Accepted(t, TRUE)
               PROVE  FALSE
    BY DEF RevokedStaysOut
  <2>1. t \in Tokens /\ KeptOut(t)
    BY DEF IInv, TypeOK, SessionsTyped, SessionsOK
  <2>2. tokens[t].expires \in Int /\ denied[t] \in Int /\ clock \in Int
    BY <2>1 DEF IInv, TypeOK, SessionsTyped, TokenRows
  <2> QED
    BY <2>1, <2>2 DEF KeptOut, Accepted
<1> QED
  BY <1>1, Inductive, PTL

\* Owners of tenants have an account and a membership; an account made for a
\* tenant has its wallet and its tenant.
THEOREM TenantsKeepTheirOwners == TSpec => []TenantsAreOwned
<1>1. IInv => TenantsAreOwned
  <2> SUFFICES ASSUME IInv PROVE TenantsAreOwned
    OBVIOUS
  <2>1. PlatformStays /\ (\A u \in Users : MadeWithTenant(u)) /\ \A c \in Codes : OwnerKept(c)
    BY DEF IInv, TenantsOK
  <2>2. provisioned \in SUBSET Users
    BY DEF IInv, TypeOK, TenantsTyped
  <2> QED
    BY <2>1, <2>2 DEF TenantsAreOwned, PlatformStays, MadeWithTenant, OwnerKept
<1> QED
  BY <1>1, Inductive, PTL

-----------------------------------------------------------------------------
(* The catalogue. *)

Presence == {"none", "active", "inactive"}
Tasks ==
  [at : {"idle", "upsert", "channel", "instance", "import", "rotate", "purge", "remove",
         "commit", "revive", "check", "edit", "catalog", "call"},
   model : Models \cup {Nil}, channel : Channels \cup {Nil}, cred : Changes, new : Changes,
   todo : SUBSET Models, locked : SUBSET Instances, orphans : SUBSET Models,
   old : BOOLEAN, status : Presence, created : BOOLEAN]
Responses == [cred : Changes, old : BOOLEAN, is : BOOLEAN]
Rows == [model : Models \cup {Nil}, status : {"active", "inactive"}]

\* What a call has in its hands: a channel that was made, a credential in use,
\* a change; only a deletion of a provider that is about to commit has rows.
ReqOK(j) ==
  /\ j.at # "commit" => j.locked = {} /\ j.orphans = {}
  /\ \A i \in j.locked : ~Fresh(i.channel)
  /\ j.at \in {"channel", "revive", "check", "edit", "call"} => j.model \in Models
  /\ j.at \in {"upsert", "channel", "instance"} => j.cred \in Credentials
  /\ j.at = "instance" => j.channel \in Channels /\ ~Fresh(j.channel)
  /\ j.at \in {"rotate", "purge"} => j.new # Unchanged
  /\ j.at = "call" /\ ~j.old => j.cred \notin retired \ unpurged

ReqsOK == req \in [Routines -> Tasks] /\ \A h \in Routines : ReqOK(req[h])

\* The instances belong to channels that were made, and hold no replaced
\* credential.
RowsOK ==
  /\ models \in [Models -> Presence] /\ channels \in [Channels -> Rows]
  /\ instances \subseteq Instances /\ \A i \in instances : ~Fresh(i.channel)
  /\ retired \cap InUse(instances) = {}

CatalogInv ==
  RowsOK /\ ReqsOK /\ cache \in [Models -> Responses] /\ PurgeLeavesNoOldResponse

-----------------------------------------------------------------------------
\* No two transactions hold instances of one channel.
Apart ==
  \A h, g \in Routines : g # h => ChannelsOf(req[h].locked) \cap ChannelsOf(req[g].locked) = {}

\* Model m has an active channel no transaction is removing; a call stands
\* between its channel and its row; the history accounts for it.
Standing(m) ==
  \E c \in Channels :
    channels[c] = [model |-> m, status |-> "active"] /\ c \notin ChannelsOf(LockedInstances)
Interrupted(m) == \E h \in Routines : req[h].at \in {"channel", "check"} /\ req[h].model = m
Excused == unbacked \cup crossed

ListedStand ==
  \A m \in Models :
    models[m] = "active" /\ m \notin Excused /\ ~Interrupted(m) => Standing(m) \/ Leaving(m)

ListingInv == Apart /\ ListedStand
-----------------------------------------------------------------------------
(* Calls and rows.                                                         *)

LEMMA NilIsNothing ==
  /\ Nil \notin Urls /\ Nil \notin Keys /\ Nil \notin Models
  /\ Placeholder \in Models
  BY NilAssumption, ModelsAssumption

LEMMA NoWorkTyped ==
  NoTask \in Tasks /\ NoTask.at = "idle" /\ NoTask.locked = {} /\ NoTask.orphans = {}
  BY DEF NoTask, Tasks, Unchanged, NoCredential, Changes, Presence

\* An idle handler answers for nothing.
LEMMA NoWorkIsOK == ReqOK(NoTask)
  BY NoWorkTyped DEF ReqOK

\* Where a call goes next, when it takes up something or drops it.
LEMMA WorkWith ==
  ASSUME NEW j \in Tasks
  PROVE  /\ \A at \in {"idle", "upsert", "channel", "instance", "import", "rotate", "purge",
                       "remove", "commit", "revive", "check", "edit", "catalog", "call"} :
              [j EXCEPT !.at = at] \in Tasks /\ [j EXCEPT !.at = at].at = at
         /\ \A ms \in SUBSET Models : [j EXCEPT !.todo = ms] \in Tasks
  BY DEF Tasks

\* One call goes on and the others stay as they are: channels once made stay made,
\* and no credential is replaced.
LEMMA OthersOK ==
  ASSUME ReqsOK, NEW h \in Routines, NEW next \in Tasks, Takes(h, next), ReqOK(next)',
         \A c \in Channels : Fresh(c)' => Fresh(c), (retired \ unpurged)' \subseteq retired \ unpurged
  PROVE  ReqsOK' /\ req'[h] = next /\ \A g \in Routines \ {h} : req'[g] = req[g]
<1>1. req'[h] = next /\ (\A g \in Routines \ {h} : req'[g] = req[g])
      /\ req' \in [Routines -> Tasks]
  BY DEF ReqsOK, Takes
<1>2. ASSUME NEW g \in Routines
      PROVE  ReqOK(req[g])'
  <2>1. CASE g = h
    BY <1>1, <2>1 DEF ReqOK
  <2>2. CASE g # h
    <3>1. req'[g] = req[g] /\ ReqOK(req[g]) /\ req[g] \in Tasks
      BY <1>1, <2>2 DEF ReqsOK
    <3>2. \A i \in req[g].locked : i.channel \in Channels
      BY <3>1 DEF Tasks, Instances
    <3>. QED
      BY <3>1, <3>2 DEF ReqOK
  <2>. QED
    BY <2>1, <2>2
<1>. QED
  BY <1>1, <1>2 DEF ReqsOK

LEMMA RowsUnchanged ==
  ASSUME RowsOK, UNCHANGED rows, UNCHANGED <<retired, unpurged>>
  PROVE  RowsOK'
  BY DEF RowsOK, rows, Fresh, InUse, Cred

\* The statuses of models change and nothing else.
LEMMA ModelsChange ==
  ASSUME RowsOK, models' \in [Models -> Presence], UNCHANGED <<channels, instances, retired, unpurged>>
  PROVE  RowsOK'
  BY DEF RowsOK, Fresh, InUse, Cred

\* Channels change, and those that were made stay so.
LEMMA ChannelsChange ==
  ASSUME RowsOK, channels' \in [Channels -> Rows], \A c \in Channels : Fresh(c)' => Fresh(c),
         models' \in [Models -> Presence], UNCHANGED <<instances, retired, unpurged>>
  PROVE  RowsOK'
<1>1. \A i \in instances : i.channel \in Channels
  BY DEF RowsOK, Instances
<1>. QED
  BY <1>1 DEF RowsOK, InUse, Cred

\* Nothing of a transaction that is running moves.
LEMMA SwitchedTyped ==
  ASSUME channels \in [Channels -> Rows], NEW cs, NEW s \in {"active", "inactive"}
  PROVE  /\ Switched(cs, s) \in [Channels -> Rows]
         /\ \A c \in Channels : Switched(cs, s)[c].model = channels[c].model
         /\ \A c \in Channels : c \notin cs => Switched(cs, s)[c] = channels[c]
  BY DEF Switched, Rows
-----------------------------------------------------------------------------
(* Each call keeps the rows in order.                                      *)

\* A step of a call that leaves the rows and the cache alone.
LEMMA OnlyTheCall ==
  ASSUME CatalogInv, NEW h \in Routines, NEW next \in Tasks, Takes(h, next), ReqOK(next),
         UNCHANGED <<models, channels, instances, cache, retired, unpurged>>
  PROVE  CatalogInv'
<1>1. ReqOK(next)'
  BY DEF ReqOK, Fresh
<1>2. ReqsOK'
  BY <1>1, OthersOK DEF CatalogInv, Fresh
<1>3. RowsOK'
  BY RowsUnchanged DEF CatalogInv, rows
<1>. QED
  BY <1>2, <1>3 DEF CatalogInv, PurgeLeavesNoOldResponse

\* A step that changes models and channels, and nothing else.
LEMMA CallAndRows ==
  ASSUME CatalogInv, NEW h \in Routines, NEW next \in Tasks, Takes(h, next), ReqOK(next)',
         models' \in [Models -> Presence], channels' \in [Channels -> Rows],
         \A c \in Channels : Fresh(c)' => Fresh(c), UNCHANGED <<instances, cache, retired, unpurged>>
  PROVE  CatalogInv'
<1>1. ReqsOK'
  BY OthersOK DEF CatalogInv
<1>2. RowsOK'
  BY ChannelsChange DEF CatalogInv
<1>. QED
  BY <1>1, <1>2 DEF CatalogInv, PurgeLeavesNoOldResponse

\* A call that only begins.
LEMMA CreateProviderKeeps ==
  ASSUME CatalogInv, NEW h \in Routines, NEW cred \in Credentials, NEW ms \in SUBSET Models,
         CreateProvider(h, cred, ms)
  PROVE  CatalogInv'
<1> DEFINE next == [NoTask EXCEPT !.at = "upsert", !.cred = cred, !.todo = ms]
<1>1. next \in Tasks /\ next.at = "upsert" /\ next.cred = cred /\ next.locked = {}
      /\ next.orphans = {}
  BY NoWorkTyped DEF Tasks, Credentials, Changes
<1>2. Takes(h, next) /\ UNCHANGED <<models, channels, instances, cache, retired, unpurged>>
  BY DEF CreateProvider, rows, Rest, withdrawn
<1>. HIDE DEF next
<1>. QED
  BY <1>1, <1>2, OnlyTheCall DEF ReqOK

LEMMA SyncKeeps ==
  ASSUME CatalogInv, NEW h \in Routines, NEW ms \in SUBSET Models,
         SyncProviderModels(h, ms) \/ CatalogSync(h, ms)
  PROVE  CatalogInv'
<1>1. PICK next \in Tasks : /\ next.at \in {"import", "catalog"} /\ next.locked = {}
                            /\ next.orphans = {} /\ Takes(h, next)
  <2>1. CASE SyncProviderModels(h, ms)
    <3>1. [NoTask EXCEPT !.at = "import", !.todo = ms] \in Tasks
      BY NoWorkTyped DEF Tasks
    <3>. QED
      BY <2>1, <3>1, NoWorkTyped DEF SyncProviderModels, Tasks
  <2>2. CASE CatalogSync(h, ms)
    <3> DEFINE todo == {m \in ms : models[m] = "none"}
    <3>1. [NoTask EXCEPT !.at = "catalog", !.todo = todo] \in Tasks
      BY NoWorkTyped DEF Tasks
    <3>2. Takes(h, [NoTask EXCEPT !.at = "catalog", !.todo = todo])
      BY <2>2 DEF CatalogSync
    <3>. HIDE DEF todo
    <3>. QED
      BY <3>1, <3>2, NoWorkTyped DEF Tasks
  <2>. QED
    BY <2>1, <2>2
<1>2. UNCHANGED <<models, channels, instances, cache, retired, unpurged>>
  BY DEF SyncProviderModels, CatalogSync, rows, Rest, withdrawn
<1>. QED
  BY <1>1, <1>2, OnlyTheCall DEF ReqOK

LEMMA InsertPlaceholderKeeps ==
  ASSUME CatalogInv, NEW h \in Routines, NEW cred \in Credentials, InsertPlaceholder(h, cred)
  PROVE  CatalogInv'
<1> DEFINE next == [NoTask EXCEPT !.at = "upsert", !.cred = cred, !.created = TRUE,
                              !.model = Placeholder]
           new  == [next EXCEPT !.at = "channel"]
<1>1. /\ next \in Tasks /\ next.at = "upsert" /\ next.cred = cred /\ next.locked = {}
      /\ next.orphans = {} /\ next.model = Placeholder
  BY NoWorkTyped, NilIsNothing DEF Tasks, Credentials, Changes
<1>2. /\ new \in Tasks /\ new.at = "channel" /\ new.cred = cred /\ new.locked = {}
      /\ new.orphans = {} /\ new.model = Placeholder
  BY <1>1 DEF Tasks
<1>3. \/ Takes(h, next) /\ UNCHANGED models
      \/ Takes(h, new) /\ models' = [models EXCEPT ![Placeholder] = "active"]
  BY DEF InsertPlaceholder
<1>4. UNCHANGED <<channels, instances, cache, retired, unpurged>>
  BY DEF InsertPlaceholder, Rest, withdrawn
<1>5. models' \in [Models -> Presence]
  BY <1>3 DEF CatalogInv, RowsOK, Presence
<1>. HIDE DEF next, new
<1>6. ReqOK(next)' /\ ReqOK(new)'
  BY <1>1, <1>2, NilIsNothing DEF ReqOK
<1>7. (\A c \in Channels : Fresh(c)' => Fresh(c)) /\ channels' \in [Channels -> Rows]
  BY <1>4 DEF Fresh, CatalogInv, RowsOK
<1>. QED
  BY <1>1, <1>2, <1>3, <1>4, <1>5, <1>6, <1>7, CallAndRows

LEMMA OfTheCall ==
  ASSUME CatalogInv, NEW h \in Routines
  PROVE  /\ req[h] \in Tasks /\ ReqOK(req[h])
         /\ models \in [Models -> Presence] /\ channels \in [Channels -> Rows]
  BY DEF CatalogInv, ReqsOK, RowsOK

\* A handler ends its call.
LEMMA EndingKeeps ==
  ASSUME CatalogInv, NEW h \in Routines, Ends(h), models' \in [Models -> Presence],
         channels' \in [Channels -> Rows], \A c \in Channels : Fresh(c)' => Fresh(c),
         UNCHANGED <<instances, cache, retired, unpurged>>
  PROVE  CatalogInv'
<1>1. ReqOK(NoTask)'
  BY NoWorkTyped DEF ReqOK
<1>. QED
  BY <1>1, NoWorkTyped, CallAndRows DEF Ends

LEMMA UpsertModelKeeps ==
  ASSUME CatalogInv, NEW h \in Routines, UpsertModel(h)
  PROVE  CatalogInv'
<1>1. PICK m \in req[h].todo :
        LET left == [req[h] EXCEPT !.todo = @ \ {m}]
        IN \/ /\ \E s \in {"active", "inactive"} :
                   models' = [models EXCEPT ![m] = IF @ = "none" THEN s ELSE "active"]
              /\ Takes(h, [left EXCEPT !.at = "channel", !.model = m])
           \/ Takes(h, left) /\ UNCHANGED models
  BY DEF UpsertModel
<1>2. req[h] \in Tasks /\ ReqOK(req[h]) /\ req[h].at = "upsert"
  BY OfTheCall DEF UpsertModel, In
<1>3. m \in Models
  BY <1>2 DEF Tasks
<1>10. PICK left \in Tasks : left = [req[h] EXCEPT !.todo = req[h].todo \ {m}]
  BY <1>2 DEF Tasks
<1>11. PICK next \in Tasks : next = [left EXCEPT !.at = "channel", !.model = m]
  BY <1>3 DEF Tasks
<1>4. /\ left \in Tasks /\ left.at = "upsert" /\ left.cred = req[h].cred
      /\ left.locked = req[h].locked /\ left.orphans = req[h].orphans
  BY <1>2, <1>10 DEF Tasks
<1>5. /\ next \in Tasks /\ next.at = "channel" /\ next.cred = req[h].cred /\ next.model = m
      /\ next.locked = req[h].locked /\ next.orphans = req[h].orphans
  BY <1>4, <1>11 DEF Tasks
<1>6. (Takes(h, left) \/ Takes(h, next)) /\ models' \in [Models -> Presence]
  <2>1. models \in [Models -> Presence]
    BY OfTheCall
  <2>2. CASE Takes(h, left) /\ UNCHANGED models
    BY <2>1, <2>2
  <2>3. CASE /\ \E s \in {"active", "inactive"} :
                  models' = [models EXCEPT ![m] = IF @ = "none" THEN s ELSE "active"]
             /\ Takes(h, next)
    BY <1>3, <2>1, <2>3 DEF Presence
  <2>. QED
    BY <1>1, <1>10, <1>11, <2>2, <2>3
<1>7. UNCHANGED <<channels, instances, cache, retired, unpurged>>
  BY DEF UpsertModel, Rest, withdrawn
<1>8. ReqOK(left)' /\ ReqOK(next)'
  BY <1>2, <1>3, <1>4, <1>5 DEF ReqOK
<1>9. (\A c \in Channels : Fresh(c)' => Fresh(c)) /\ channels' \in [Channels -> Rows]
  BY <1>7, OfTheCall DEF Fresh
<1>. QED
  BY <1>4, <1>5, <1>6, <1>7, <1>8, <1>9, CallAndRows

\* A channel that is made.
LEMMA ChannelMade ==
  ASSUME channels \in [Channels -> Rows], NEW c \in Channels, NEW m \in Models,
         channels' = [channels EXCEPT ![c] = [model |-> m, status |-> "active"]]
  PROVE  /\ channels' \in [Channels -> Rows] /\ ~Fresh(c)'
         /\ \A d \in Channels : Fresh(d)' => Fresh(d)
<1>1. [model |-> m, status |-> "active"] \in Rows
  BY DEF Rows
<1>2. channels'[c].model # Nil
  BY NilIsNothing
<1>. QED
  BY <1>1, <1>2 DEF Fresh

LEMMA InsertChannelKeeps ==
  ASSUME CatalogInv, NEW h \in Routines, InsertChannel(h)
  PROVE  CatalogInv'
<1>1. req[h] \in Tasks /\ ReqOK(req[h]) /\ req[h].at = "channel" /\ req[h].model \in Models
      /\ channels \in [Channels -> Rows] /\ models \in [Models -> Presence]
  BY OfTheCall DEF InsertChannel, In, ReqOK
<1>2. UNCHANGED <<models, instances, cache, retired, unpurged>>
  BY DEF InsertChannel, Rest, withdrawn
<1>3. CASE \E c \in Channels :
             /\ channels' = [channels EXCEPT ![c] = [model |-> req[h].model, status |-> "active"]]
             /\ Takes(h, [req[h] EXCEPT !.at = "instance", !.channel = c])
  <2>1. PICK c \in Channels :
             /\ channels' = [channels EXCEPT ![c] = [model |-> req[h].model, status |-> "active"]]
             /\ Takes(h, [req[h] EXCEPT !.at = "instance", !.channel = c])
    BY <1>3
  <2>6. PICK next \in Tasks : next = [req[h] EXCEPT !.at = "instance", !.channel = c]
    BY <1>1 DEF Tasks
  <2>2. next \in Tasks /\ next.at = "instance" /\ next.channel = c /\ next.cred = req[h].cred
        /\ next.locked = req[h].locked /\ next.orphans = req[h].orphans
    BY <1>1, <2>6 DEF Tasks
  <2>3. channels' \in [Channels -> Rows] /\ ~Fresh(c)' /\ \A d \in Channels : Fresh(d)' => Fresh(d)
    BY <1>1, <2>1, ChannelMade
  <2>4. Takes(h, next) /\ models' \in [Models -> Presence]
    BY <1>1, <1>2, <2>1, <2>6
  <2>5. ReqOK(next)'
    BY <1>1, <2>2, <2>3 DEF ReqOK
  <2>. QED
    BY <1>2, <2>2, <2>3, <2>4, <2>5, CallAndRows
<1>4. CASE GoOn(h, "upsert") /\ UNCHANGED channels
  <2> DEFINE next == [req[h] EXCEPT !.at = "upsert"]
  <2>1. next \in Tasks /\ next.at = "upsert" /\ next.cred = req[h].cred
        /\ next.locked = req[h].locked /\ next.orphans = req[h].orphans
    BY <1>1 DEF Tasks
  <2>2. Takes(h, next)
    BY <1>4 DEF GoOn
  <2>. HIDE DEF next
  <2>3. ReqOK(next)
    BY <1>1, <2>1 DEF ReqOK
  <2>. QED
    BY <1>2, <1>4, <2>1, <2>2, <2>3, OnlyTheCall
<1>. QED
  BY <1>3, <1>4 DEF InsertChannel

\* An instance that is made with a credential puts it to use.
LEMMA InstanceMade ==
  ASSUME RowsOK, NEW c \in Channels, ~Fresh(c), NEW cred \in Credentials, NewInstance(c, cred),
         UNCHANGED <<models, channels>>
  PROVE  RowsOK' /\ (retired \ unpurged)' \subseteq retired \ unpurged
<1> DEFINE i == [channel |-> c, url |-> cred.url, key |-> cred.key, on |-> TRUE]
<1>1. i \in Instances /\ i.channel = c /\ Cred(i) = cred
  BY DEF Instances, Credentials, Cred
<1>2. /\ instances' = instances \cup {i}
      /\ retired' = retired \ {cred} /\ unpurged' = unpurged \ {cred}
  BY DEF NewInstance, InUseAgain
<1>. HIDE DEF i
<1>3. InUse(instances)' = InUse(instances) \cup {cred}
  BY <1>1, <1>2 DEF InUse
<1>. QED
  BY <1>1, <1>2, <1>3 DEF RowsOK, Fresh

LEMMA InsertInstanceKeeps ==
  ASSUME CatalogInv, NEW h \in Routines, InsertInstance(h)
  PROVE  CatalogInv'
<1>1. /\ req[h] \in Tasks /\ ReqOK(req[h]) /\ req[h].at = "instance" /\ ~Fresh(req[h].channel)
      /\ req[h].channel \in Channels /\ req[h].cred \in Credentials
  BY OfTheCall DEF InsertInstance, In, ReqOK
<1>2. UNCHANGED <<models, channels, cache>>
  BY DEF InsertInstance
<1>3. PICK next \in Tasks :
        /\ Takes(h, next) /\ next.at = "upsert" /\ next.cred = req[h].cred
        /\ next.locked = req[h].locked /\ next.orphans = req[h].orphans
  <2>1. [req[h] EXCEPT !.at = "upsert"] \in Tasks
    BY <1>1 DEF Tasks
  <2>2. [req[h] EXCEPT !.at = "upsert", !.created = TRUE] \in Tasks
    BY <1>1 DEF Tasks
  <2>3. Takes(h, [req[h] EXCEPT !.at = "upsert"])
        \/ Takes(h, [req[h] EXCEPT !.at = "upsert", !.created = TRUE])
    BY DEF InsertInstance, GoOn
  <2>. QED
    BY <1>1, <2>1, <2>2, <2>3 DEF Tasks
<1>4. RowsOK' /\ (retired \ unpurged)' \subseteq retired \ unpurged
  <2>1. CASE NewInstance(req[h].channel, req[h].cred)
    BY <1>1, <1>2, <2>1, InstanceMade DEF CatalogInv
  <2>2. CASE UNCHANGED <<instances, retired, unpurged>>
    BY <1>2, <2>2, RowsUnchanged DEF CatalogInv, rows, withdrawn
  <2>. QED
    BY <2>1, <2>2 DEF InsertInstance, withdrawn
<1>5. ReqOK(next)'
  BY <1>1, <1>3 DEF ReqOK
<1>6. ReqsOK'
  BY <1>2, <1>3, <1>4, <1>5, OthersOK DEF CatalogInv, Fresh
<1>. QED
  BY <1>2, <1>4, <1>6 DEF CatalogInv, PurgeLeavesNoOldResponse

LEMMA CreatedKeeps ==
  ASSUME CatalogInv, NEW h \in Routines, Created(h)
  PROVE  CatalogInv'
<1>1. Ends(h) /\ UNCHANGED <<models, channels, instances, cache, retired, unpurged>>
  BY DEF Created, rows, Rest, withdrawn
<1>. QED
  BY <1>1, NoWorkTyped, NoWorkIsOK, OnlyTheCall DEF Ends

LEMMA ImportModelKeeps ==
  ASSUME CatalogInv, NEW h \in Routines, ImportModel(h)
  PROVE  CatalogInv'
<1>1. PICK m \in req[h].todo :
        LET left == req[h].todo \ {m}
        IN /\ Takes(h, IF left = {} THEN NoTask ELSE [req[h] EXCEPT !.todo = left])
           /\ UNCHANGED channels
           /\ \/ models' = [models EXCEPT ![m] = IF @ = "none" THEN "active" ELSE @]
              \/ UNCHANGED models
  BY DEF ImportModel
<1>2. req[h] \in Tasks /\ ReqOK(req[h]) /\ req[h].at = "import"
      /\ channels \in [Channels -> Rows] /\ models \in [Models -> Presence]
  BY OfTheCall DEF ImportModel, In
<1>3. models' \in [Models -> Presence]
  BY <1>1, <1>2 DEF Presence
<1>4. UNCHANGED <<channels, instances, cache, retired, unpurged>>
  BY <1>1 DEF ImportModel, Rest, withdrawn
<1>9. PICK next \in Tasks : next = [req[h] EXCEPT !.todo = req[h].todo \ {m}]
  BY <1>2 DEF Tasks
<1>5. next \in Tasks /\ next.at = "import"
      /\ next.locked = req[h].locked /\ next.orphans = req[h].orphans
  BY <1>2, <1>9 DEF Tasks
<1>6. Takes(h, NoTask) \/ Takes(h, next)
  BY <1>1, <1>9
<1>7. ReqOK(next)' /\ ReqOK(NoTask)'
  BY <1>2, <1>5, NoWorkTyped DEF ReqOK
<1>8. (\A c \in Channels : Fresh(c)' => Fresh(c)) /\ channels' \in [Channels -> Rows]
  BY <1>2, <1>4 DEF Fresh
<1>. QED
  BY <1>3, <1>4, <1>5, <1>6, <1>7, <1>8, NoWorkTyped, CallAndRows

LEMMA CommitCatalogKeeps ==
  ASSUME CatalogInv, NEW h \in Routines, CommitCatalog(h)
  PROVE  CatalogInv'
<1>1. Ends(h) /\ UNCHANGED <<channels, instances, cache, retired, unpurged>>
  BY DEF CommitCatalog, Rest, withdrawn
<1>2. models' \in [Models -> Presence]
  BY OfTheCall DEF CommitCatalog, Presence
<1>. QED
  BY <1>1, <1>2, OfTheCall, EndingKeeps DEF Fresh

\* A call that looks a credential up, to change it or to delete its provider.
LEMMA LookUpKeeps ==
  ASSUME CatalogInv, NEW h \in Routines, NEW c, NEW place \in {"rotate", "remove"},
         NEW new \in Changes, LookUp(h, c, place, new), place = "rotate" => new # Unchanged
  PROVE  CatalogInv'
<1>1. PICK i \in instances :
        Takes(h, [NoTask EXCEPT !.at = place, !.cred = Cred(i), !.new = new])
  BY DEF LookUp
<1>2. Cred(i) \in Changes
  BY DEF CatalogInv, RowsOK, Instances, Cred, Changes
<1>3. PICK next \in Tasks :
        next = [NoTask EXCEPT !.at = place, !.cred = Cred(i), !.new = new]
  BY <1>2, NoWorkTyped DEF Tasks
<1>4. next.at = place /\ next.new = new /\ next.locked = {} /\ next.orphans = {}
  BY <1>3, NoWorkTyped DEF Tasks
<1>5. UNCHANGED <<models, channels, instances, cache, retired, unpurged>>
  BY DEF LookUp, rows, Rest, withdrawn
<1>6. ReqOK(next)
  BY <1>4 DEF ReqOK
<1>. QED
  BY <1>1, <1>3, <1>5, <1>6, OnlyTheCall

LEMMA ProviderCallsKeep ==
  ASSUME CatalogInv, NEW h \in Routines, NEW c \in Channels,
         (\E new \in Changes : UpdateProvider(h, c, new)) \/ DeleteProvider(h, c)
  PROVE  CatalogInv'
<1>1. Unchanged \in Changes
  BY DEF Unchanged, NoCredential, Changes
<1>. QED
  BY <1>1, LookUpKeeps DEF UpdateProvider, DeleteProvider

\* Instances get another credential, and the replaced ones come into use again.
LEMMA WrittenTyped ==
  ASSUME NEW i \in Instances, NEW cred, NEW new \in Changes
  PROVE  Written(i, cred, new) \in Instances /\ Written(i, cred, new).channel = i.channel
<1>1. new.url \in Urls \cup {Nil} /\ new.key \in Keys \cup {Nil}
  BY DEF Changes
<1>2. /\ \A url \in Urls : [i EXCEPT !.url = url] \in Instances
                           /\ [i EXCEPT !.url = url].channel = i.channel
      /\ \A key \in Keys : [i EXCEPT !.key = key] \in Instances
                           /\ [i EXCEPT !.key = key].channel = i.channel
  BY DEF Instances
<1>. QED
  BY <1>1, <1>2 DEF Written

LEMMA RotateKeeps ==
  ASSUME CatalogInv, NEW h \in Routines, Rotate(h)
  PROVE  CatalogInv'
<1>1. req[h] \in Tasks /\ ReqOK(req[h]) /\ req[h].at = "rotate" /\ req[h].new \in Changes
      /\ req[h].new # Unchanged
  BY OfTheCall DEF Rotate, In, ReqOK, Tasks
<1>2. UNCHANGED <<models, channels, cache>>
  BY DEF Rotate
<1>3. CASE /\ instances' = {Written(i, req[h].cred, req[h].new) : i \in instances}
           /\ retired' = retired \ InUse(instances')
           /\ unpurged' = unpurged \ InUse(instances')
           /\ GoOn(h, "purge")
  <2>1. PICK next \in Tasks : next = [req[h] EXCEPT !.at = "purge"]
    BY <1>1 DEF Tasks
  <2>2. next.at = "purge" /\ next.new = req[h].new /\ next.locked = req[h].locked
        /\ next.orphans = req[h].orphans /\ Takes(h, next)
    BY <1>1, <1>3, <2>1 DEF Tasks, GoOn
  <2>3. ReqOK(next)'
    BY <1>1, <2>2 DEF ReqOK
  <2>4. ReqsOK'
    BY <1>2, <1>3, <2>2, <2>3, OthersOK DEF CatalogInv, Fresh
  <2>5. ASSUME NEW i \in instances'
        PROVE  i \in Instances /\ ~Fresh(i.channel)'
    <3>1. PICK k \in instances : i = Written(k, req[h].cred, req[h].new)
      BY <1>3
    <3>2. k \in Instances /\ ~Fresh(k.channel)
      BY DEF CatalogInv, RowsOK
    <3>3. i \in Instances /\ i.channel = k.channel
      BY <1>1, <3>1, <3>2, WrittenTyped
    <3>. QED
      BY <1>2, <3>2, <3>3 DEF Fresh
  <2>6. RowsOK'
    BY <1>2, <1>3, <2>5 DEF CatalogInv, RowsOK
  <2>. QED
    BY <1>2, <1>3, <2>4, <2>6 DEF CatalogInv, PurgeLeavesNoOldResponse
<1>4. CASE Ends(h) /\ UNCHANGED <<instances, retired, unpurged>>
  BY <1>2, <1>4, NoWorkTyped, NoWorkIsOK, OnlyTheCall DEF Ends
<1>. QED
  BY <1>3, <1>4 DEF Rotate, InUseAgain, withdrawn

\* The purge empties the cache, marks the calls at the upstream, and from then
\* on the credential counts as replaced where nothing uses it.
LEMMA PurgeKeeps ==
  ASSUME CatalogInv, NEW h \in Routines, Purge(h)
  PROVE  CatalogInv'
<1>1. req[h] \in Tasks /\ ReqOK(req[h]) /\ req[h].new # Unchanged
  BY OfTheCall DEF Purge, In, ReqOK
<1>2. UNCHANGED <<models, channels, instances>>
  BY DEF Purge, rows
<1>3. CASE /\ cache' = IF Purged(req[h].new) THEN [m \in Models |-> NoResponse] ELSE cache
           /\ req' = [g \in Routines |-> IF g = h THEN NoTask ELSE
                                         IF req[g].at = "call" THEN [req[g] EXCEPT !.old = TRUE]
                                         ELSE req[g]]
           /\ retired' = (retired \cup {req[h].cred}) \ InUse(instances)
           /\ unpurged' = {}
  <2>1. cache' = [m \in Models |-> NoResponse]
    BY <1>1, <1>3 DEF Purged
  <2>2. cache' \in [Models -> Responses] /\ \A m \in Models : ~cache'[m].is
    BY <2>1 DEF NoResponse, Responses, NoCredential, Changes
  <2>3. RowsOK'
    BY <1>2, <1>3 DEF CatalogInv, RowsOK, Fresh, InUse, Cred
  <2>4. ASSUME NEW g \in Routines
        PROVE  req'[g] \in Tasks /\ ReqOK(req[g])'
    <3>1. req[g] \in Tasks /\ ReqOK(req[g])
      BY OfTheCall
    <3>2. CASE g = h
      <4>1. req'[g] = NoTask
        BY <1>3, <3>2
      <4>. QED
        BY <4>1, NoWorkTyped DEF ReqOK
    <3>3. CASE g # h /\ req[g].at = "call"
      <4>1. PICK next \in Tasks : next = [req[g] EXCEPT !.old = TRUE]
        BY <3>1 DEF Tasks
      <4>2. next.at = "call" /\ next.old /\ next.model = req[g].model
            /\ next.locked = req[g].locked /\ next.orphans = req[g].orphans
        BY <3>1, <3>3, <4>1 DEF Tasks
      <4>3. req'[g] = next
        BY <1>3, <3>3, <4>1
      <4>. QED
        BY <1>2, <3>1, <3>3, <4>2, <4>3 DEF ReqOK, Fresh
    <3>4. CASE g # h /\ req[g].at # "call"
      <4>1. req'[g] = req[g]
        BY <1>3, <3>4
      <4>. QED
        BY <1>2, <3>1, <3>4, <4>1 DEF ReqOK, Fresh
    <3>. QED
      BY <3>2, <3>3, <3>4
  <2>5. ReqsOK'
    <3>1. req' \in [Routines -> Tasks]
      BY <1>3, <2>4
    <3>. QED
      BY <2>4, <3>1 DEF ReqsOK
  <2>. QED
    BY <2>2, <2>3, <2>5 DEF CatalogInv, PurgeLeavesNoOldResponse
<1>4. CASE /\ Ends(h) /\ UNCHANGED cache
           /\ retired' = (retired \cup {req[h].cred}) \ InUse(instances)
           /\ unpurged' = (unpurged \cup {req[h].cred}) \ InUse(instances)
  <2>1. RowsOK'
    BY <1>2, <1>4 DEF CatalogInv, RowsOK, Fresh, InUse, Cred
  <2>2. (retired \ unpurged)' \subseteq retired \ unpurged
    BY <1>4 DEF CatalogInv, RowsOK
  <2>3. ReqOK(NoTask)'
    BY NoWorkTyped DEF ReqOK
  <2>4. ReqsOK'
    BY <1>2, <1>4, <2>2, <2>3, NoWorkTyped, OthersOK DEF CatalogInv, Ends, Fresh
  <2>. QED
    BY <1>4, <2>1, <2>2, <2>4 DEF CatalogInv, PurgeLeavesNoOldResponse
<1>. QED
  BY <1>3, <1>4 DEF Purge

\* The deletion of a provider takes hold of instances that are there.
LEMMA RemoveProviderKeeps ==
  ASSUME CatalogInv, NEW h \in Routines, RemoveProvider(h)
  PROVE  CatalogInv'
<1> DEFINE found == Holding(req[h].cred)
           lost  == Orphaned(ChannelsOf(found))
<1>1. req[h] \in Tasks /\ found \in SUBSET Instances /\ lost \in SUBSET Models
      /\ \A i \in found : ~Fresh(i.channel)
  BY OfTheCall DEF Holding, Orphaned, CatalogInv, RowsOK
<1>2. PICK next \in Tasks :
        next = [req[h] EXCEPT !.at = "commit", !.locked = found, !.orphans = lost]
  BY <1>1 DEF Tasks
<1>3. next.at = "commit" /\ next.locked = found
  BY <1>1, <1>2 DEF Tasks
<1>4. Takes(h, next) /\ UNCHANGED <<models, channels, instances, cache, retired, unpurged>>
  BY <1>2 DEF RemoveProvider, rows, Rest, withdrawn
<1>. HIDE DEF found, lost
<1>5. ReqOK(next)
  BY <1>1, <1>3 DEF ReqOK
<1>. QED
  BY <1>4, <1>5, OnlyTheCall

LEMMA CommitRemovalKeeps ==
  ASSUME CatalogInv, NEW h \in Routines, CommitRemoval(h)
  PROVE  CatalogInv'
<1>1. Ends(h) /\ UNCHANGED <<cache, retired, unpurged>>
  BY DEF CommitRemoval, Rest, withdrawn
<1>2. CASE UNCHANGED rows
  BY <1>1, <1>2, NoWorkTyped, NoWorkIsOK, OnlyTheCall DEF Ends, rows
<1>3. CASE /\ channels' = Switched(ChannelsOf(req[h].locked), "inactive")
           /\ instances' = {IF i \in req[h].locked THEN [i EXCEPT !.on = FALSE] ELSE i : i \in instances}
           /\ models' = [m \in Models |-> Listed(m, req[h].orphans)]
  <2>1. models' \in [Models -> Presence]
    BY <1>3, OfTheCall DEF Listed, Presence
  <2>2. channels' \in [Channels -> Rows] /\ \A c \in Channels : channels'[c].model = channels[c].model
    BY <1>3, OfTheCall, SwitchedTyped
  <2>3. ASSUME NEW i \in instances'
        PROVE  i \in Instances /\ ~Fresh(i.channel) /\ Cred(i) \in InUse(instances)
    <3>1. PICK k \in instances : i = k \/ i = [k EXCEPT !.on = FALSE]
      BY <1>3
    <3>2. k \in Instances /\ ~Fresh(k.channel)
      BY DEF CatalogInv, RowsOK
    <3>3. i \in Instances /\ i.channel = k.channel /\ Cred(i) = Cred(k)
      BY <3>1, <3>2 DEF Instances, Cred
    <3>. QED
      BY <3>2, <3>3 DEF InUse
  <2>4. \A i \in instances' : i.channel \in Channels
    BY <2>3 DEF Instances
  <2>5. InUse(instances)' \subseteq InUse(instances)
    BY <2>3 DEF InUse, Cred
  <2>6. RowsOK'
    BY <1>1, <2>1, <2>2, <2>3, <2>4, <2>5 DEF CatalogInv, RowsOK, Fresh
  <2>7. ReqOK(NoTask)'
    BY NoWorkTyped DEF ReqOK
  <2>8. ReqsOK'
    BY <1>1, <2>2, <2>7, NoWorkTyped, OthersOK DEF CatalogInv, Ends, Fresh
  <2>. QED
    BY <1>1, <2>6, <2>8 DEF CatalogInv, PurgeLeavesNoOldResponse
<1>. QED
  BY <1>2, <1>3 DEF CommitRemoval

\* A call that goes on about a model.
LEMMA WorkOn ==
  ASSUME NEW m \in Models, NEW place \in {"revive", "check", "edit"}
  PROVE  \E next \in Tasks :
           /\ next = [NoTask EXCEPT !.at = place, !.model = m]
           /\ next.at = place /\ next.model = m /\ next.locked = {} /\ next.orphans = {}
<1> DEFINE next == [NoTask EXCEPT !.at = place, !.model = m]
<1>1. next \in Tasks
  BY NoWorkTyped DEF Tasks
<1>2. next.at = place /\ next.model = m /\ next.locked = {} /\ next.orphans = {}
  BY NoWorkTyped DEF Tasks
<1>. QED
  BY <1>1, <1>2

LEMMA CreateChannelKeeps ==
  ASSUME CatalogInv, NEW h \in Routines, NEW m \in Models, CreateChannel(h, m)
  PROVE  CatalogInv'
<1>1. PICK c \in Channels :
        channels' = [channels EXCEPT ![c] = [model |-> m, status |-> "active"]]
  BY DEF CreateChannel
<1>2. PICK next \in Tasks :
        /\ next = [NoTask EXCEPT !.at = "revive", !.model = m]
        /\ next.at = "revive" /\ next.model = m /\ next.locked = {} /\ next.orphans = {}
  BY WorkOn
<1>3. Takes(h, next) /\ UNCHANGED <<models, instances, cache, retired, unpurged>>
  BY <1>2 DEF CreateChannel, Rest, withdrawn
<1>4. channels' \in [Channels -> Rows] /\ \A d \in Channels : Fresh(d)' => Fresh(d)
  BY <1>1, OfTheCall, ChannelMade
<1>5. ReqOK(next)'
  BY <1>2 DEF ReqOK
<1>. QED
  BY <1>3, <1>4, <1>5, OfTheCall, CallAndRows

LEMMA DeleteChannelKeeps ==
  ASSUME CatalogInv, NEW h \in Routines, NEW c \in Channels, DeleteChannel(h, c)
  PROVE  CatalogInv'
<1>1. channels[c].model \in Models
  BY OfTheCall DEF DeleteChannel, Fresh, Rows
<1>2. PICK next \in Tasks :
        /\ next = [NoTask EXCEPT !.at = "check", !.model = channels[c].model]
        /\ next.at = "check" /\ next.model = channels[c].model
        /\ next.locked = {} /\ next.orphans = {}
  BY <1>1, WorkOn
<1>3. Takes(h, next) /\ UNCHANGED <<models, instances, cache, retired, unpurged>>
      /\ channels' = Switched({c}, "inactive")
  BY <1>2 DEF DeleteChannel, Rest, withdrawn
<1>4. channels' \in [Channels -> Rows] /\ \A d \in Channels : Fresh(d)' => Fresh(d)
  BY <1>3, OfTheCall, SwitchedTyped DEF Fresh
<1>5. ReqOK(next)'
  BY <1>1, <1>2 DEF ReqOK
<1>. QED
  BY <1>3, <1>4, <1>5, OfTheCall, CallAndRows

\* The calls that end with a statement on models.
LEMMA EndingsKeep ==
  ASSUME CatalogInv, NEW h \in Routines,
         ReviveModel(h) \/ DeactivateModel(h) \/ SaveModel(h) \/ Crash(h)
  PROVE  CatalogInv'
<1>1. Ends(h) /\ UNCHANGED <<channels, instances, cache, retired, unpurged>>
  BY DEF ReviveModel, DeactivateModel, SaveModel, Crash, Decide, rows, Rest, withdrawn
<1>2. req[h] \in Tasks /\ ReqOK(req[h]) /\ models \in [Models -> Presence]
      /\ channels \in [Channels -> Rows]
  BY OfTheCall
<1>3. models' \in [Models -> Presence]
  <2>1. CASE ReviveModel(h)
    BY <1>2, <2>1 DEF ReviveModel, Presence
  <2>2. CASE DeactivateModel(h)
    BY <1>2, <2>2 DEF DeactivateModel, Presence
  <2>3. CASE SaveModel(h)
    BY <1>2, <2>3 DEF SaveModel, Decide, rows, Tasks, Presence
  <2>4. CASE Crash(h)
    BY <1>2, <2>4 DEF Crash, rows
  <2>. QED
    BY <2>1, <2>2, <2>3, <2>4
<1>. QED
  BY <1>1, <1>2, <1>3, EndingKeeps DEF Fresh

LEMMA UpdateModelKeeps ==
  ASSUME CatalogInv, NEW h \in Routines, NEW m \in Models, UpdateModel(h, m)
  PROVE  CatalogInv'
<1>1. PICK next \in Tasks : next = [NoTask EXCEPT !.at = "edit", !.model = m, !.status = models[m]]
  BY NoWorkTyped, OfTheCall DEF Tasks
<1>2. next.at = "edit" /\ next.model = m /\ next.locked = {} /\ next.orphans = {}
  BY <1>1, NoWorkTyped DEF Tasks
<1>3. Takes(h, next) /\ UNCHANGED <<models, channels, instances, cache, retired, unpurged>>
  BY <1>1 DEF UpdateModel, rows, Rest, withdrawn
<1>. QED
  BY <1>2, <1>3, OnlyTheCall DEF ReqOK

\* A call takes a credential that is in use, so one that was not replaced.
LEMMA CallKeeps ==
  ASSUME CatalogInv, NEW h \in Routines, NEW m \in Models, Call(h, m)
  PROVE  CatalogInv'
<1>1. PICK i \in instances :
        Takes(h, [NoTask EXCEPT !.at = "call", !.model = m, !.cred = Cred(i)])
  BY DEF Call
<1>2. Cred(i) \in Changes /\ Cred(i) \notin retired \ unpurged
  BY DEF CatalogInv, RowsOK, Instances, Cred, Changes, InUse
<1>3. PICK next \in Tasks : next = [NoTask EXCEPT !.at = "call", !.model = m, !.cred = Cred(i)]
  BY <1>2, NoWorkTyped DEF Tasks
<1>4. next.at = "call" /\ next.model = m /\ next.cred = Cred(i) /\ next.locked = {}
      /\ next.orphans = {}
  BY <1>2, <1>3, NoWorkTyped DEF Tasks
<1>5. UNCHANGED <<models, channels, instances, cache, retired, unpurged>>
  BY DEF Call, rows, Rest, withdrawn
<1>6. ReqOK(next)
  BY <1>2, <1>4 DEF ReqOK
<1>. QED
  BY <1>1, <1>3, <1>5, <1>6, OnlyTheCall

LEMMA RespondKeeps ==
  ASSUME CatalogInv, NEW h \in Routines, Respond(h)
  PROVE  CatalogInv'
<1>1. req[h] \in Tasks /\ ReqOK(req[h]) /\ req[h].at = "call"
  BY OfTheCall DEF Respond, In
<1>2. Ends(h) /\ UNCHANGED <<models, channels, instances, retired, unpurged>>
  BY DEF Respond, rows, withdrawn
<1>3. ReqsOK'
  BY <1>2, NoWorkTyped, NoWorkIsOK, OthersOK DEF CatalogInv, Ends, ReqOK, Fresh
<1>4. RowsOK'
  BY <1>2, RowsUnchanged DEF CatalogInv, rows
<1>5. [cred |-> req[h].cred, old |-> req[h].old, is |-> TRUE] \in Responses
  BY <1>1 DEF Responses, Tasks
<1>6. cache' \in [Models -> Responses] /\ PurgeLeavesNoOldResponse'
  <2>1. CASE UNCHANGED cache
    BY <1>2, <2>1 DEF CatalogInv, PurgeLeavesNoOldResponse
  <2>2. CASE cache' = [cache EXCEPT ![req[h].model] =
                         [cred |-> req[h].cred, old |-> req[h].old, is |-> TRUE]]
    BY <1>1, <1>2, <1>5, <2>2 DEF CatalogInv, PurgeLeavesNoOldResponse, ReqOK
  <2>. QED
    BY <2>1, <2>2 DEF Respond
<1>. QED
  BY <1>3, <1>4, <1>6 DEF CatalogInv

-----------------------------------------------------------------------------
(* The steps of one statement.                                             *)

LEMMA JobsAside ==
  ASSUME ReqsOK, UNCHANGED req, \A c \in Channels : Fresh(c)' => Fresh(c),
         (retired \ unpurged)' \subseteq retired \ unpurged
  PROVE  ReqsOK'
<1>1. ASSUME NEW h \in Routines PROVE ReqOK(req[h])'
  <2>1. ReqOK(req[h]) /\ \A i \in req[h].locked : i.channel \in Channels
    BY DEF ReqsOK, Tasks, Instances
  <2>. QED
    BY <2>1 DEF ReqOK
<1>. QED
  BY <1>1 DEF ReqsOK

LEMMA StatementsKeep ==
  ASSUME CatalogInv
  PROVE  /\ \A c \in Channels, s \in {"active", "inactive"} :
              SetChannelStatus(c, s) \/ SetProviderStatus(c, s) => CatalogInv'
         /\ \A c \in Channels, cred \in Credentials : AddInstance(c, cred) => CatalogInv'
         /\ \A i \in instances : RemoveInstance(i) => CatalogInv'
         /\ \A m \in Models : CreateModel(m) \/ DeleteModel(m) \/ Expire(m) => CatalogInv'
<1>1. /\ models \in [Models -> Presence] /\ channels \in [Channels -> Rows]
      /\ RowsOK /\ ReqsOK
  BY DEF CatalogInv, RowsOK
<1>2. ASSUME NEW cs, NEW s \in {"active", "inactive"}, Switch(cs, s)
      PROVE  CatalogInv'
  <2>1. channels' = Switched(cs, s) /\ UNCHANGED <<models, instances, req, cache, retired, unpurged>>
    BY <1>2 DEF Switch, Rest, withdrawn
  <2>2. channels' \in [Channels -> Rows] /\ \A c \in Channels : Fresh(c)' => Fresh(c)
    BY <1>1, <2>1, SwitchedTyped DEF Fresh
  <2>3. RowsOK' /\ ReqsOK'
    BY <1>1, <2>1, <2>2, ChannelsChange, JobsAside
  <2>. QED
    BY <2>1, <2>3 DEF CatalogInv, PurgeLeavesNoOldResponse
<1>3. ASSUME NEW c \in Channels, NEW cred \in Credentials, AddInstance(c, cred)
      PROVE  CatalogInv'
  <2>1. ~Fresh(c) /\ NewInstance(c, cred) /\ UNCHANGED <<models, channels, cache, req>>
    BY <1>3 DEF AddInstance
  <2>2. RowsOK' /\ (retired \ unpurged)' \subseteq retired \ unpurged
    BY <1>1, <2>1, InstanceMade
  <2>3. ReqsOK'
    BY <1>1, <2>1, <2>2, JobsAside DEF Fresh
  <2>. QED
    BY <2>1, <2>2, <2>3 DEF CatalogInv, PurgeLeavesNoOldResponse
<1>4. ASSUME NEW i \in instances, RemoveInstance(i)
      PROVE  CatalogInv'
  <2>1. instances' = (instances \ {i}) \cup {[i EXCEPT !.on = FALSE]}
        /\ UNCHANGED <<models, channels, req, cache, retired, unpurged>>
    BY <1>4 DEF RemoveInstance, Rest, withdrawn
  <2>2. i \in Instances /\ ~Fresh(i.channel)
    BY <1>1 DEF RowsOK
  <2>3. /\ [i EXCEPT !.on = FALSE] \in Instances /\ [i EXCEPT !.on = FALSE].channel = i.channel
        /\ Cred([i EXCEPT !.on = FALSE]) = Cred(i)
    BY <2>2 DEF Instances, Cred
  <2>4. InUse(instances)' \subseteq InUse(instances)
    BY <2>1, <2>3 DEF InUse
  <2>5. RowsOK'
    BY <1>1, <2>1, <2>2, <2>3, <2>4 DEF RowsOK, Fresh
  <2>6. ReqsOK'
    BY <1>1, <2>1, JobsAside DEF Fresh
  <2>. QED
    BY <2>1, <2>5, <2>6 DEF CatalogInv, PurgeLeavesNoOldResponse
<1>5. ASSUME NEW m \in Models, CreateModel(m) \/ DeleteModel(m)
      PROVE  CatalogInv'
  <2>1. UNCHANGED <<channels, instances, req, cache, retired, unpurged>>
    BY <1>5 DEF CreateModel, DeleteModel, Decide, Rest, withdrawn
  <2>2. models' \in [Models -> Presence]
    BY <1>1, <1>5 DEF CreateModel, DeleteModel, Decide, Presence
  <2>3. RowsOK' /\ ReqsOK'
    BY <1>1, <2>1, <2>2, ModelsChange, JobsAside DEF Fresh
  <2>. QED
    BY <2>1, <2>3 DEF CatalogInv, PurgeLeavesNoOldResponse
<1>6. ASSUME NEW m \in Models, Expire(m)
      PROVE  CatalogInv'
  <2>1. cache' = [cache EXCEPT ![m] = NoResponse]
        /\ UNCHANGED <<models, channels, instances, req, retired, unpurged>>
    BY <1>6 DEF Expire, rows, withdrawn
  <2>2. RowsOK' /\ ReqsOK'
    BY <1>1, <2>1, RowsUnchanged, JobsAside DEF rows, withdrawn, Fresh
  <2>3. NoResponse \in Responses /\ ~NoResponse.is
    BY DEF NoResponse, Responses, NoCredential, Changes
  <2>. QED
    BY <2>1, <2>2, <2>3 DEF CatalogInv, PurgeLeavesNoOldResponse
<1>7. ASSUME NEW c \in Channels, NEW s \in {"active", "inactive"},
             SetChannelStatus(c, s) \/ SetProviderStatus(c, s)
      PROVE  CatalogInv'
  BY <1>2, <1>7 DEF SetChannelStatus, SetProviderStatus
<1>. QED
  BY <1>3, <1>4, <1>5, <1>6, <1>7

-----------------------------------------------------------------------------
(* No response of a replaced credential.                                   *)

LEMMA InitCatalog == CatalogInit => CatalogInv
<1>1. SUFFICES ASSUME CatalogInit PROVE CatalogInv
  OBVIOUS
<1>2. /\ NoChannel \in Rows /\ NoResponse \in Responses /\ ~NoResponse.is
  BY DEF NoChannel, Rows, NoResponse, Responses, NoCredential, Changes
<1>3. RowsOK
  BY <1>1, <1>2 DEF CatalogInit, RowsOK, Presence
<1>4. ReqsOK
  BY <1>1, NoWorkTyped, NoWorkIsOK DEF CatalogInit, ReqsOK
<1>. QED
  BY <1>1, <1>2, <1>3, <1>4 DEF CatalogInit, CatalogInv, PurgeLeavesNoOldResponse

LEMMA CallsKeepTheCatalog ==
  ASSUME CatalogInv, NEW h \in Routines, ListingStep(h) \/ ResponseStep(h) \/ CommonStep(h)
  PROVE  CatalogInv'
<1>1. CASE ListingStep(h)
  BY <1>1, CreateProviderKeeps, SyncKeeps, InsertPlaceholderKeeps, UpsertModelKeeps,
     InsertChannelKeeps, InsertInstanceKeeps, CreatedKeeps, ImportModelKeeps,
     CommitCatalogKeeps, ProviderCallsKeep, RemoveProviderKeeps, CommitRemovalKeeps,
     DeleteChannelKeeps, EndingsKeep, UpdateModelKeeps, StatementsKeep DEF ListingStep
<1>2. CASE ResponseStep(h)
  BY <1>2, CallKeeps, RespondKeeps, StatementsKeep DEF ResponseStep
<1>3. CASE CommonStep(h)
  BY <1>3, ProviderCallsKeep, RotateKeeps, PurgeKeeps, EndingsKeep, CreateChannelKeeps,
     StatementsKeep DEF CommonStep
<1>. QED
  BY <1>1, <1>2, <1>3

LEMMA NextCatalog == CatalogInv /\ [CatalogNext]_catalogVars => CatalogInv'
<1>1. SUFFICES ASSUME CatalogInv, [CatalogNext]_catalogVars PROVE CatalogInv'
  OBVIOUS
<1>2. CASE CatalogNext
  BY <1>1, <1>2, CallsKeepTheCatalog DEF CatalogNext
<1>3. CASE UNCHANGED catalogVars
  <2>1. RowsOK' /\ ReqsOK'
    BY <1>1, <1>3, RowsUnchanged, JobsAside DEF catalogVars, rows, withdrawn, Fresh, CatalogInv
  <2>. QED
    BY <1>1, <1>3, <2>1 DEF catalogVars, CatalogInv, PurgeLeavesNoOldResponse
<1>. QED
  BY <1>1, <1>2, <1>3

LEMMA CatalogInvariant == CatalogSpec => []CatalogInv
  BY InitCatalog, NextCatalog, PTL DEF CatalogSpec

\* Once a change of a credential was answered, the cache serves nothing that was
\* obtained with the old one, however the change, its purge, calls at the
\* upstream and other changes interleave, but for answers of calls that were at
\* the upstream when it was purged, and for a credential whose purge failed until
\* a purge goes through (response_cache.go:118, providers.go:961).
THEOREM NoOldResponses == CatalogSpec => []PurgeLeavesNoOldResponse
<1>1. CatalogInv => PurgeLeavesNoOldResponse
  BY DEF CatalogInv
<1>. QED
  BY <1>1, CatalogInvariant, PTL

-----------------------------------------------------------------------------
(* No model stays listed without a channel.                                *)

\* What one call does to the transactions and the interruptions.
Elsewhere(h) ==
  \A g \in Routines \ {h} :
    /\ req'[g].at = req[g].at /\ req'[g].model = req[g].model
    /\ req'[g].locked = req[g].locked /\ req'[g].orphans = req[g].orphans
SameRows(h) == req'[h].locked = req[h].locked /\ req'[h].orphans = req[h].orphans
Between(j, m) == j.at \in {"channel", "check"} /\ j.model = m

LEMMA OnlyOneMoves ==
  ASSUME CatalogInv, NEW h \in Routines, \E next : Takes(h, next)
  PROVE  Elsewhere(h)
  BY DEF CatalogInv, ReqsOK, Takes, Elsewhere

\* What transactions hold stays.
HoldsKept ==
  \A g \in Routines : req'[g].locked = req[g].locked /\ req'[g].orphans = req[g].orphans

LEMMA ApartKept ==
  ASSUME Apart, HoldsKept
  PROVE  Apart'
  BY DEF Apart, HoldsKept, ChannelsOf

LEMMA LockedAreChannels ==
  ASSUME CatalogInv, NEW g \in Routines
  PROVE  /\ \A c \in ChannelsOf(req[g].locked) : c \in Channels
         /\ ChannelsOf(req[g].locked) \subseteq ChannelsOf(LockedInstances)
<1>1. req[g].locked \subseteq Instances
  BY OfTheCall DEF Tasks
<1>2. req[g].locked \subseteq LockedInstances
  BY DEF LockedInstances
<1>. QED
  BY <1>1, <1>2 DEF ChannelsOf, Instances

\* Rows of transactions and interruptions of the other calls stay.
LEMMA OfTheOthers ==
  ASSUME NEW h \in Routines, Elsewhere(h), SameRows(h)
  PROVE  /\ HoldsKept /\ LockedInstances' = LockedInstances
         /\ \A m \in Models : Interrupted(m) => Interrupted(m)' \/ Between(req[h], m)
         /\ \A m \in Models : Between(req'[h], m) => Interrupted(m)'
<1>1. HoldsKept
  BY DEF Elsewhere, SameRows, HoldsKept
<1>2. LockedInstances' = LockedInstances
  BY <1>1 DEF LockedInstances, HoldsKept
<1>4. \A m \in Models : Interrupted(m) => Interrupted(m)' \/ Between(req[h], m)
  BY DEF Interrupted, Between, Elsewhere
<1>5. \A m \in Models : Between(req'[h], m) => Interrupted(m)'
  BY DEF Interrupted, Between
<1>. QED
  BY <1>1, <1>2, <1>4, <1>5

\* A step that decides about the models ms and leaves those of the others.
LEMMA ListingKept ==
  ASSUME CatalogInv, ListedStand, NEW ms, HoldsKept,
         \A m \in Models : m \in Excused \cup ms => m \in Excused' \/ Standing(m)',
         \A m \in Models \ ms : models'[m] = "active" /\ ~Interrupted(m)' =>
            Standing(m)' \/ Leaving(m)' \/ (models[m] = "active" /\ ~Interrupted(m)),
         \A m \in Models \ ms, c \in Channels :
            channels[c] = [model |-> m, status |-> "active"] /\ ~Interrupted(m)'
              => channels'[c] = channels[c]
  PROVE  ListedStand'
<1>1. SUFFICES ASSUME NEW m \in Models, models'[m] = "active", m \notin Excused', ~Interrupted(m)',
                      ~Standing(m)'
               PROVE  Leaving(m)'
  BY DEF ListedStand
<1>2. CASE Leaving(m)'
  BY <1>2
<1>3. CASE ~Leaving(m)'
  <2>1. m \notin Excused /\ m \notin ms /\ models[m] = "active" /\ ~Interrupted(m)
    BY <1>1, <1>3
  <2>2. \A c \in Channels : channels[c] = [model |-> m, status |-> "active"]
                              => channels'[c] = channels[c]
    BY <1>1, <2>1
  <2>3. LockedInstances' = LockedInstances
    BY DEF HoldsKept, LockedInstances
  <2>4. ~Standing(m)
    BY <1>1, <2>2, <2>3 DEF Standing, ChannelsOf
  <2>5. Leaving(m)
    BY <2>1, <2>4 DEF ListedStand
  <2>6. PICK g \in Routines :
          /\ m \in req[g].orphans
          /\ \E c \in ChannelsOf(req[g].locked) : channels[c] = [model |-> m, status |-> "active"]
    BY <2>5 DEF Leaving
  <2>8. PICK c \in ChannelsOf(req[g].locked) : channels[c] = [model |-> m, status |-> "active"]
    BY <2>6
  <2>7. channels'[c] = [model |-> m, status |-> "active"]
    BY <2>2, <2>8, LockedAreChannels
  <2>. QED
    BY <2>6, <2>7 DEF HoldsKept, Leaving, ChannelsOf
<1>. QED
  BY <1>2, <1>3

\* The history of a step that decides, or at which requests cross.
LEMMA DecidedMeans ==
  ASSUME NEW ms, Decided(ms) \/ Booked({}, ms),
         ChannelsOf(LockedInstances)' \subseteq ChannelsOf(LockedInstances)
  PROVE  \A m \in Models : m \in Excused \cup ms => m \in Excused' \/ Standing(m)'
  BY DEF Decided, Booked, Excused, Standing

LEMMA LocksStay ==
  ASSUME LockedInstances' = LockedInstances
  PROVE  ChannelsOf(LockedInstances)' \subseteq ChannelsOf(LockedInstances)
  BY DEF ChannelsOf

\* A step that touches no model and no channel.
LEMMA ListingAside ==
  ASSUME CatalogInv, ListedStand, UNCHANGED <<models, channels, listing>>, HoldsKept,
         \A m \in Models : Interrupted(m) => Interrupted(m)'
  PROVE  ListedStand'
<1>1. Excused' = Excused
  BY DEF Excused, listing
<1>2. \A m \in Models : m \in Excused \cup {} => m \in Excused' \/ Standing(m)'
  BY <1>1
<1>3. \A m \in Models \ {} : models'[m] = "active" /\ ~Interrupted(m)' =>
         models[m] = "active" /\ ~Interrupted(m)
  OBVIOUS
<1>. QED
  BY <1>2, <1>3, ListingKept

\* A call that does not stand between a channel and its row.
LEMMA PlainCall ==
  ASSUME CatalogInv, ListingInv, NEW h \in Routines, Elsewhere(h), SameRows(h),
         UNCHANGED <<models, channels, listing>>, req[h].at \notin {"channel", "check"}
  PROVE  ListingInv'
<1>1. HoldsKept
  BY OfTheOthers
<1>2. ListedStand'
  BY <1>1, OfTheOthers, ListingAside DEF ListingInv, Between
<1>. QED
  BY <1>1, <1>2, ApartKept DEF ListingInv

\* A call that begins or ends holds no rows.
LEMMA BeginsAndEnds ==
  ASSUME CatalogInv, NEW h \in Routines, req[h].at # "commit", NEW next \in Tasks,
         next.locked = {}, next.orphans = {}, Takes(h, next)
  PROVE  Elsewhere(h) /\ SameRows(h) /\ req'[h] = next
<1>1. req'[h] = next
  BY DEF CatalogInv, ReqsOK, Takes
<1>. QED
  BY <1>1, OnlyOneMoves, OfTheCall DEF SameRows, ReqOK

LEMMA BeginningsList ==
  ASSUME CatalogInv, ListingInv, NEW h \in Routines, NEW next \in Tasks, Takes(h, next),
         next.locked = {}, next.orphans = {}, In(h, "idle"),
         UNCHANGED <<models, channels, listing>>
  PROVE  ListingInv'
  BY BeginsAndEnds, PlainCall DEF In

LEMMA CallsThatBegin ==
  ASSUME CatalogInv, ListingInv, NEW h \in Routines,
         \/ \E ms \in SUBSET Models : \/ \E cred \in Credentials : CreateProvider(h, cred, ms)
                                      \/ SyncProviderModels(h, ms) \/ CatalogSync(h, ms)
         \/ \E c \in Channels, new \in Changes : UpdateProvider(h, c, new)
         \/ \E c \in Channels : DeleteProvider(h, c)
         \/ \E m \in Models : UpdateModel(h, m) \/ Call(h, m)
  PROVE  ListingInv'
<1>1. In(h, "idle") /\ UNCHANGED <<models, channels, listing>>
  BY DEF CreateProvider, SyncProviderModels, CatalogSync, UpdateProvider, DeleteProvider, LookUp,
         UpdateModel, Call, rows
<1> DEFINE Begun == \E next \in Tasks :
                      /\ Takes(h, next) /\ next.locked = {} /\ next.orphans = {}
<1>2. ASSUME NEW ms \in SUBSET Models, NEW cred \in Credentials, CreateProvider(h, cred, ms)
      PROVE  Begun
  <2>1. PICK next \in Tasks : next = [NoTask EXCEPT !.at = "upsert", !.cred = cred, !.todo = ms]
    BY NoWorkTyped DEF Tasks, Credentials, Changes
  <2>2. next.locked = {} /\ next.orphans = {} /\ next.at = "upsert"
    BY <2>1, NoWorkTyped DEF Tasks
  <2>. QED
    BY <1>2, <2>1, <2>2 DEF CreateProvider
<1>3. ASSUME NEW ms \in SUBSET Models, SyncProviderModels(h, ms)
      PROVE  Begun
  <2>1. PICK next \in Tasks : next = [NoTask EXCEPT !.at = "import", !.todo = ms]
    BY NoWorkTyped DEF Tasks
  <2>2. next.locked = {} /\ next.orphans = {} /\ next.at = "import"
    BY <2>1, NoWorkTyped DEF Tasks
  <2>. QED
    BY <1>3, <2>1, <2>2 DEF SyncProviderModels
<1>4. ASSUME NEW ms \in SUBSET Models, CatalogSync(h, ms)
      PROVE  Begun
  <2>1. PICK next \in Tasks :
          next = [NoTask EXCEPT !.at = "catalog", !.todo = {m \in ms : models[m] = "none"}]
    BY NoWorkTyped DEF Tasks
  <2>2. next.locked = {} /\ next.orphans = {} /\ next.at = "catalog"
    BY <2>1, NoWorkTyped DEF Tasks
  <2>. QED
    BY <1>4, <2>1, <2>2 DEF CatalogSync
<1>5. ASSUME NEW c \in Channels, NEW place \in {"rotate", "remove"}, NEW new \in Changes,
             LookUp(h, c, place, new)
      PROVE  Begun
  <2>1. PICK i \in instances :
          Takes(h, [NoTask EXCEPT !.at = place, !.cred = Cred(i), !.new = new])
    BY <1>5 DEF LookUp
  <2>2. Cred(i) \in Changes
    BY DEF CatalogInv, RowsOK, Instances, Cred, Changes
  <2>3. PICK next \in Tasks :
          next = [NoTask EXCEPT !.at = place, !.cred = Cred(i), !.new = new]
    BY <2>2, NoWorkTyped DEF Tasks
  <2>4. next.locked = {} /\ next.orphans = {} /\ next.at = place
    BY <2>3, NoWorkTyped DEF Tasks
  <2>. QED
    BY <2>1, <2>3, <2>4
<1>6. ASSUME NEW m \in Models, UpdateModel(h, m)
      PROVE  Begun
  <2>1. PICK next \in Tasks : next = [NoTask EXCEPT !.at = "edit", !.model = m, !.status = models[m]]
    BY NoWorkTyped, OfTheCall DEF Tasks
  <2>2. next.locked = {} /\ next.orphans = {} /\ next.at = "edit"
    BY <2>1, NoWorkTyped DEF Tasks
  <2>. QED
    BY <1>6, <2>1, <2>2 DEF UpdateModel
<1>7. ASSUME NEW m \in Models, Call(h, m)
      PROVE  Begun
  <2>1. PICK i \in instances :
          Takes(h, [NoTask EXCEPT !.at = "call", !.model = m, !.cred = Cred(i)])
    BY <1>7 DEF Call
  <2>2. Cred(i) \in Changes
    BY DEF CatalogInv, RowsOK, Instances, Cred, Changes
  <2>3. PICK next \in Tasks : next = [NoTask EXCEPT !.at = "call", !.model = m, !.cred = Cred(i)]
    BY <2>2, NoWorkTyped DEF Tasks
  <2>4. next.locked = {} /\ next.orphans = {} /\ next.at = "call"
    BY <2>3, NoWorkTyped DEF Tasks
  <2>. QED
    BY <2>1, <2>3, <2>4
<1>8. Unchanged \in Changes
  BY DEF Changes, Unchanged, NoCredential
<1>9. Begun
  BY <1>2, <1>3, <1>4, <1>5, <1>6, <1>7, <1>8 DEF UpdateProvider, DeleteProvider
<1>. QED
  BY <1>1, <1>9, BeginningsList

\* Calls that end without touching a model or a channel.
LEMMA EndsAsIs ==
  ASSUME CatalogInv, ListingInv, NEW h \in Routines, Ends(h),
         req[h].at \notin {"commit", "channel", "check"}, UNCHANGED <<models, channels, listing>>
  PROVE  ListingInv'
<1>1. Elsewhere(h) /\ SameRows(h) /\ req'[h] = NoTask
  BY BeginsAndEnds, NoWorkTyped DEF Ends
<1>. QED
  BY <1>1, PlainCall, NoWorkTyped

LEMMA CallsThatEndList ==
  ASSUME CatalogInv, ListingInv, NEW h \in Routines, Created(h) \/ Respond(h)
  PROVE  ListingInv'
  BY EndsAsIs DEF Created, Respond, In, rows

\* A call that goes on with the rows it has.
LEMMA GoesOn ==
  ASSUME CatalogInv, NEW h \in Routines, NEW next \in Tasks, Takes(h, next),
         next.locked = req[h].locked, next.orphans = req[h].orphans
  PROVE  Elsewhere(h) /\ SameRows(h) /\ req'[h] = next
<1>1. req'[h] = next
  BY DEF CatalogInv, ReqsOK, Takes
<1>. QED
  BY <1>1, OnlyOneMoves DEF SameRows

LEMMA InstancesList ==
  ASSUME CatalogInv, ListingInv, NEW h \in Routines, InsertInstance(h) \/ Rotate(h)
  PROVE  ListingInv'
<1>1. UNCHANGED <<models, channels, listing>> /\ req[h] \in Tasks
      /\ req[h].at \in {"instance", "rotate"}
  BY OfTheCall DEF InsertInstance, Rotate, In
<1>2. CASE Ends(h)
  BY <1>1, <1>2, EndsAsIs
<1>3. CASE ~Ends(h)
  <2>1. PICK next \in Tasks :
          /\ Takes(h, next) /\ next.at \in {"upsert", "purge"}
          /\ next.locked = req[h].locked /\ next.orphans = req[h].orphans
    <3>1. \/ Takes(h, [req[h] EXCEPT !.at = "upsert"])
          \/ Takes(h, [req[h] EXCEPT !.at = "upsert", !.created = TRUE])
          \/ Takes(h, [req[h] EXCEPT !.at = "purge"])
      BY <1>3 DEF InsertInstance, Rotate, GoOn
    <3>2. [req[h] EXCEPT !.at = "upsert"] \in Tasks
          /\ [req[h] EXCEPT !.at = "upsert", !.created = TRUE] \in Tasks
          /\ [req[h] EXCEPT !.at = "purge"] \in Tasks
      BY <1>1 DEF Tasks
    <3>. QED
      BY <1>1, <3>1, <3>2 DEF Tasks
  <2>2. Elsewhere(h) /\ SameRows(h) /\ req'[h] = next
    BY <2>1, GoesOn
  <2>. QED
    BY <1>1, <2>1, <2>2, PlainCall
<1>. QED
  BY <1>2, <1>3

LEMMA PurgeLists ==
  ASSUME CatalogInv, ListingInv, NEW h \in Routines, Purge(h)
  PROVE  ListingInv'
<1>1. UNCHANGED <<models, channels, listing>> /\ req[h].at = "purge"
  BY DEF Purge, In, rows
<1>2. CASE Ends(h)
  BY <1>1, <1>2, EndsAsIs
<1>3. CASE req' = [g \in Routines |-> IF g = h THEN NoTask ELSE
                                      IF req[g].at = "call" THEN [req[g] EXCEPT !.old = TRUE]
                                      ELSE req[g]]
  <2>1. req'[h] = NoTask
    BY <1>3
  <2>2. SameRows(h)
    BY <1>1, <2>1, NoWorkTyped, OfTheCall DEF SameRows, ReqOK
  <2>3. ASSUME NEW g \in Routines \ {h}
        PROVE  /\ req'[g].at = req[g].at /\ req'[g].model = req[g].model
               /\ req'[g].locked = req[g].locked /\ req'[g].orphans = req[g].orphans
    <3>1. req[g] \in Tasks
      BY OfTheCall
    <3>2. req'[g] = req[g] \/ req'[g] = [req[g] EXCEPT !.old = TRUE]
      BY <1>3
    <3>. QED
      BY <3>1, <3>2 DEF Tasks
  <2>4. Elsewhere(h)
    BY <2>3 DEF Elsewhere
  <2>. QED
    BY <1>1, <2>1, <2>2, <2>4, PlainCall, NoWorkTyped
<1>. QED
  BY <1>2, <1>3 DEF Purge

\* A model is put on the list by a call that goes on to its channel.
LEMMA ListedNext ==
  ASSUME CatalogInv, ListingInv, NEW h \in Routines, Elsewhere(h), SameRows(h), NEW m \in Models,
         req[h].at \notin {"channel", "check"}, req'[h].at = "channel", req'[h].model = m,
         \A n \in Models \ {m} : models'[n] = models[n], UNCHANGED <<channels, listing>>
  PROVE  ListingInv'
<1>1. Between(req'[h], m) /\ \A n \in Models : ~Between(req[h], n)
  BY DEF Between
<1>2. Interrupted(m)' /\ HoldsKept
  BY <1>1, OfTheOthers
<1>3. \A n \in Models : Interrupted(n) => Interrupted(n)'
  BY <1>1, OfTheOthers
<1>4. ListedStand'
  <2>1. \A n \in Models : n \in Excused \cup {} => n \in Excused' \/ Standing(n)'
    BY DEF Excused, listing
  <2>2. \A n \in Models \ {} : models'[n] = "active" /\ ~Interrupted(n)' =>
           models[n] = "active" /\ ~Interrupted(n)
    BY <1>2, <1>3
  <2>. QED
    BY <1>2, <2>1, <2>2, ListingKept DEF ListingInv
<1>5. Apart'
  BY <1>2, ApartKept DEF ListingInv
<1>. QED
  BY <1>4, <1>5 DEF ListingInv

LEMMA InsertPlaceholderLists ==
  ASSUME CatalogInv, ListingInv, NEW h \in Routines, NEW cred \in Credentials,
         InsertPlaceholder(h, cred)
  PROVE  ListingInv'
<1>1. PICK next \in Tasks :
        next = [NoTask EXCEPT !.at = "upsert", !.cred = cred, !.created = TRUE,
                              !.model = Placeholder]
  BY NoWorkTyped, NilIsNothing DEF Tasks, Credentials, Changes
<1>2. PICK new \in Tasks : new = [next EXCEPT !.at = "channel"]
  BY <1>1 DEF Tasks
<1>3. /\ next.at = "upsert" /\ next.locked = {} /\ next.orphans = {}
      /\ new.at = "channel" /\ new.locked = {} /\ new.orphans = {} /\ new.model = Placeholder
  BY <1>1, <1>2, NoWorkTyped DEF Tasks
<1>4. UNCHANGED <<channels, listing>> /\ In(h, "idle")
  BY DEF InsertPlaceholder
<1>5. \/ Takes(h, next) /\ UNCHANGED models
      \/ Takes(h, new) /\ models' = [models EXCEPT ![Placeholder] = "active"]
  BY <1>1, <1>2 DEF InsertPlaceholder
<1>6. CASE Takes(h, next) /\ UNCHANGED models
  BY <1>3, <1>4, <1>6, BeginningsList
<1>7. CASE Takes(h, new) /\ models' = [models EXCEPT ![Placeholder] = "active"]
  <2>1. Elsewhere(h) /\ SameRows(h) /\ req'[h] = new
    BY <1>3, <1>4, <1>7, BeginsAndEnds DEF In
  <2>2. \A n \in Models \ {Placeholder} : models'[n] = models[n]
    BY <1>7, OfTheCall
  <2>. QED
    BY <1>3, <1>4, <2>1, <2>2, ListedNext, NilIsNothing DEF In
<1>. QED
  BY <1>5, <1>6, <1>7

LEMMA UpsertModelLists ==
  ASSUME CatalogInv, ListingInv, NEW h \in Routines, UpsertModel(h)
  PROVE  ListingInv'
<1>1. PICK m \in req[h].todo :
        LET left == [req[h] EXCEPT !.todo = @ \ {m}]
        IN \/ /\ \E s \in {"active", "inactive"} :
                   models' = [models EXCEPT ![m] = IF @ = "none" THEN s ELSE "active"]
              /\ Takes(h, [left EXCEPT !.at = "channel", !.model = m])
           \/ Takes(h, left) /\ UNCHANGED models
  BY DEF UpsertModel
<1>2. req[h] \in Tasks /\ req[h].at = "upsert" /\ m \in Models
  BY OfTheCall DEF UpsertModel, In, Tasks
<1>3. PICK left \in Tasks : left = [req[h] EXCEPT !.todo = req[h].todo \ {m}]
  BY <1>2 DEF Tasks
<1>4. PICK next \in Tasks : next = [left EXCEPT !.at = "channel", !.model = m]
  BY <1>2 DEF Tasks
<1>5. /\ left.at = "upsert" /\ left.locked = req[h].locked /\ left.orphans = req[h].orphans
      /\ next.at = "channel" /\ next.model = m
      /\ next.locked = req[h].locked /\ next.orphans = req[h].orphans
  BY <1>2, <1>3, <1>4 DEF Tasks
<1>6. UNCHANGED <<channels, listing>>
  BY DEF UpsertModel
<1>7. CASE Takes(h, left) /\ UNCHANGED models
  BY <1>2, <1>5, <1>6, <1>7, GoesOn, PlainCall
<1>8. CASE /\ \E s \in {"active", "inactive"} :
                models' = [models EXCEPT ![m] = IF @ = "none" THEN s ELSE "active"]
           /\ Takes(h, next)
  <2>1. Elsewhere(h) /\ SameRows(h) /\ req'[h] = next
    BY <1>5, <1>8, GoesOn
  <2>2. \A n \in Models \ {m} : models'[n] = models[n]
    BY <1>8, OfTheCall
  <2>. QED
    BY <1>2, <1>5, <1>6, <2>1, <2>2, ListedNext
<1>. QED
  BY <1>1, <1>3, <1>4, <1>7, <1>8

\* A new channel belongs to nobody's transaction.
LEMMA NewChannelStands ==
  ASSUME CatalogInv, NEW c \in Channels, NEW m \in Models, Fresh(c),
         channels' = [channels EXCEPT ![c] = [model |-> m, status |-> "active"]],
         LockedInstances' = LockedInstances
  PROVE  /\ Standing(m)'
         /\ \A n \in Models, d \in Channels :
              channels[d] = [model |-> n, status |-> "active"] => channels'[d] = channels[d]
<1>1. \A i \in LockedInstances : ~Fresh(i.channel)
  BY DEF CatalogInv, ReqsOK, ReqOK, LockedInstances
<1>2. c \notin ChannelsOf(LockedInstances)
  BY <1>1 DEF ChannelsOf
<1>3. channels'[c] = [model |-> m, status |-> "active"]
  BY OfTheCall DEF CatalogInv, RowsOK
<1>4. c \notin ChannelsOf(LockedInstances)'
  BY <1>2 DEF ChannelsOf
<1>5. Standing(m)'
  BY <1>3, <1>4 DEF Standing
<1>6. ASSUME NEW n \in Models, NEW d \in Channels,
             channels[d] = [model |-> n, status |-> "active"]
      PROVE  channels'[d] = channels[d]
  <2>1. channels[d].model = n
    BY <1>6
  <2>2. d # c
    BY <2>1, NilIsNothing DEF Fresh
  <2>. QED
    BY <2>2 DEF CatalogInv, RowsOK
<1>. QED
  BY <1>5, <1>6

LEMMA InsertChannelLists ==
  ASSUME CatalogInv, ListingInv, NEW h \in Routines, InsertChannel(h)
  PROVE  ListingInv'
<1>1. /\ req[h] \in Tasks /\ req[h].at = "channel" /\ req[h].model \in Models
      /\ UNCHANGED models
  BY OfTheCall DEF InsertChannel, In, ReqOK
<1>5. PICK m \in Models : m = req[h].model
  BY <1>1
<1>2. \A n \in Models \ {m} : ~Between(req[h], n)
  BY <1>5 DEF Between
<1>3. CASE \E c \in Channels :
             /\ Fresh(c)
             /\ channels' = [channels EXCEPT ![c] = [model |-> m, status |-> "active"]]
             /\ Takes(h, [req[h] EXCEPT !.at = "instance", !.channel = c])
             /\ Decided({})
  <2>1. PICK c \in Channels :
             /\ Fresh(c)
             /\ channels' = [channels EXCEPT ![c] = [model |-> m, status |-> "active"]]
             /\ Takes(h, [req[h] EXCEPT !.at = "instance", !.channel = c])
             /\ Decided({})
    BY <1>3
  <2>2. PICK next \in Tasks : next = [req[h] EXCEPT !.at = "instance", !.channel = c]
    BY <1>1 DEF Tasks
  <2>3. next.at = "instance" /\ next.locked = req[h].locked /\ next.orphans = req[h].orphans
    BY <1>1, <2>2 DEF Tasks
  <2>4. Elsewhere(h) /\ SameRows(h) /\ req'[h] = next
    BY <2>1, <2>2, <2>3, GoesOn
  <2>5. LockedInstances' = LockedInstances /\ HoldsKept
        /\ \A n \in Models \ {m} : Interrupted(n) => Interrupted(n)'
    BY <1>2, <2>4, OfTheOthers
  <2>6. Standing(m)' /\ \A n \in Models, d \in Channels :
              channels[d] = [model |-> n, status |-> "active"] => channels'[d] = channels[d]
    BY <1>1, <2>1, <2>5, NewChannelStands
  <2>7. \A n \in Models : n \in Excused \cup {} => n \in Excused' \/ Standing(n)'
    BY <2>1, <2>5, LocksStay, DecidedMeans
  <2>8. ListedStand'
    BY <1>1, <2>5, <2>6, <2>7, ListingKept DEF ListingInv
  <2>9. Apart'
    BY <2>5, ApartKept DEF ListingInv
  <2>. QED
    BY <2>8, <2>9 DEF ListingInv
<1>4. CASE GoOn(h, "upsert") /\ UNCHANGED channels /\ Decided({m})
  <2>2. PICK next \in Tasks : next = [req[h] EXCEPT !.at = "upsert"]
    BY <1>1 DEF Tasks
  <2>3. next.at = "upsert" /\ next.locked = req[h].locked /\ next.orphans = req[h].orphans
    BY <1>1, <2>2 DEF Tasks
  <2>4. Elsewhere(h) /\ SameRows(h) /\ req'[h] = next
    BY <1>4, <2>2, <2>3, GoesOn DEF GoOn
  <2>5. LockedInstances' = LockedInstances /\ HoldsKept
        /\ \A n \in Models \ {m} : Interrupted(n) => Interrupted(n)'
    BY <1>2, <2>4, OfTheOthers
  <2>7. \A n \in Models : n \in Excused \cup {m} => n \in Excused' \/ Standing(n)'
    BY <1>4, <2>5, LocksStay, DecidedMeans
  <2>8. ListedStand'
    BY <1>1, <1>4, <2>5, <2>7, ListingKept DEF ListingInv
  <2>9. Apart'
    BY <2>5, ApartKept DEF ListingInv
  <2>. QED
    BY <2>8, <2>9 DEF ListingInv
<1>. QED
  BY <1>3, <1>4, <1>5 DEF InsertChannel

\* Calls of a moment that decide about models: those that end with it.
LEMMA EndsDecided ==
  ASSUME CatalogInv, ListingInv, NEW h \in Routines, Ends(h), req[h].at # "commit",
         NEW ms, Decided(ms) \/ Booked({}, ms), UNCHANGED channels,
         \A n \in Models \ ms : models'[n] = "active" =>
           \/ models[n] = "active" /\ ~Between(req[h], n)
           \/ Standing(n) \/ Leaving(n)
  PROVE  ListingInv'
<1>1. Elsewhere(h) /\ SameRows(h) /\ req'[h] = NoTask
  BY BeginsAndEnds, NoWorkTyped DEF Ends
<1>2. LockedInstances' = LockedInstances /\ HoldsKept
      /\ \A n \in Models : Interrupted(n) => Interrupted(n)' \/ Between(req[h], n)
  BY <1>1, OfTheOthers
<1>3. \A n \in Models : n \in Excused \cup ms => n \in Excused' \/ Standing(n)'
  BY <1>2, LocksStay, DecidedMeans
<1>4. \A n \in Models : (Standing(n) => Standing(n)') /\ (Leaving(n) => Leaving(n)')
  BY <1>2 DEF Standing, Leaving, HoldsKept, ChannelsOf
<1>5. ListedStand'
  BY <1>2, <1>3, <1>4, ListingKept DEF ListingInv
<1>6. Apart'
  BY <1>2, ApartKept DEF ListingInv
<1>. QED
  BY <1>5, <1>6 DEF ListingInv

LEMMA ImportModelLists ==
  ASSUME CatalogInv, ListingInv, NEW h \in Routines, ImportModel(h)
  PROVE  ListingInv'
<1>1. PICK m \in req[h].todo :
        LET left == req[h].todo \ {m}
        IN /\ Takes(h, IF left = {} THEN NoTask ELSE [req[h] EXCEPT !.todo = left])
           /\ \/ /\ models' = [models EXCEPT ![m] = IF @ = "none" THEN "active" ELSE @]
                 /\ UNCHANGED channels
                 /\ Decided(IF models[m] = "none" THEN {m} ELSE {})
              \/ UNCHANGED <<models, channels, listing>>
  BY DEF ImportModel
<1>2. req[h] \in Tasks /\ req[h].at = "import" /\ m \in Models /\ ReqOK(req[h])
  BY OfTheCall DEF ImportModel, In, Tasks
<1>3. req[h].locked = {} /\ req[h].orphans = {}
  BY <1>2 DEF ReqOK
<1>4. PICK next \in Tasks :
        Takes(h, next) /\ next.at \in {"idle", "import"} /\ next.locked = {} /\ next.orphans = {}
  <2>1. [req[h] EXCEPT !.todo = req[h].todo \ {m}] \in Tasks
    BY <1>2 DEF Tasks
  <2>2. Takes(h, NoTask) \/ Takes(h, [req[h] EXCEPT !.todo = req[h].todo \ {m}])
    BY <1>1
  <2>. QED
    BY <1>2, <1>3, <2>1, <2>2, NoWorkTyped DEF Tasks
<1>5. Elsewhere(h) /\ SameRows(h) /\ req'[h] = next
  BY <1>2, <1>4, BeginsAndEnds
<1>6. CASE UNCHANGED <<models, channels, listing>>
  BY <1>2, <1>4, <1>5, <1>6, PlainCall
<1>7. CASE /\ models' = [models EXCEPT ![m] = IF @ = "none" THEN "active" ELSE @]
           /\ UNCHANGED channels
           /\ Decided(IF models[m] = "none" THEN {m} ELSE {})
  <2>1. PICK ms \in SUBSET Models : ms = IF models[m] = "none" THEN {m} ELSE {}
    BY <1>2
  <2>2. LockedInstances' = LockedInstances /\ HoldsKept
        /\ \A n \in Models : Interrupted(n) => Interrupted(n)'
    BY <1>2, <1>5, OfTheOthers DEF Between
  <2>3. \A n \in Models : n \in Excused \cup ms => n \in Excused' \/ Standing(n)'
    BY <1>7, <2>1, <2>2, LocksStay, DecidedMeans
  <2>4. \A n \in Models \ ms : models'[n] = models[n]
    BY <1>7, <2>1, OfTheCall
  <2>5. ListedStand'
    BY <1>7, <2>2, <2>3, <2>4, ListingKept DEF ListingInv
  <2>6. Apart'
    BY <2>2, ApartKept DEF ListingInv
  <2>. QED
    BY <2>5, <2>6 DEF ListingInv
<1>. QED
  BY <1>1, <1>6, <1>7

LEMMA CommitCatalogLists ==
  ASSUME CatalogInv, ListingInv, NEW h \in Routines, CommitCatalog(h)
  PROVE  ListingInv'
<1>1. Ends(h) /\ req[h].at = "catalog"
  BY DEF CommitCatalog, In
<1>2. CASE UNCHANGED <<models, channels, listing>>
  BY <1>1, <1>2, EndsAsIs
<1>3. CASE \E off \in SUBSET req[h].todo :
             /\ models' = [m \in Models |-> IF m \in off THEN "inactive" ELSE
                                            IF m \in req[h].todo THEN "active" ELSE models[m]]
             /\ UNCHANGED channels /\ Decided(req[h].todo \ off)
  <2>1. PICK off \in SUBSET req[h].todo :
             /\ models' = [m \in Models |-> IF m \in off THEN "inactive" ELSE
                                            IF m \in req[h].todo THEN "active" ELSE models[m]]
             /\ UNCHANGED channels /\ Decided(req[h].todo \ off)
    BY <1>3
  <2>2. PICK ms : ms = req[h].todo \ off
    OBVIOUS
  <2>3. \A n \in Models \ ms : models'[n] = "active" => models[n] = "active" /\ ~Between(req[h], n)
    BY <1>1, <2>1, <2>2 DEF Between
  <2>. QED
    BY <1>1, <2>1, <2>2, <2>3, EndsDecided
<1>. QED
  BY <1>2, <1>3 DEF CommitCatalog

LEMMA ReviveModelLists ==
  ASSUME CatalogInv, ListingInv, NEW h \in Routines, ReviveModel(h)
  PROVE  ListingInv'
<1>1. Ends(h) /\ req[h].at = "revive"
  BY DEF ReviveModel, In
<1>2. CASE UNCHANGED <<models, channels, listing>>
  BY <1>1, <1>2, EndsAsIs
<1>3. CASE /\ models' = [models EXCEPT ![req[h].model] = "active"]
           /\ UNCHANGED channels /\ Booked({}, {req[h].model})
  <2>1. PICK ms : ms = {req[h].model}
    OBVIOUS
  <2>2. \A n \in Models \ ms : models'[n] = "active" => models[n] = "active" /\ ~Between(req[h], n)
    BY <1>1, <1>3, <2>1, OfTheCall DEF Between
  <2>. QED
    BY <1>1, <1>3, <2>1, <2>2, EndsDecided
<1>. QED
  BY <1>2, <1>3 DEF ReviveModel

LEMMA SaveModelLists ==
  ASSUME CatalogInv, ListingInv, NEW h \in Routines, SaveModel(h)
  PROVE  ListingInv'
<1>1. Ends(h) /\ req[h].at = "edit" /\ req[h].model \in Models
  BY OfTheCall DEF SaveModel, In, ReqOK
<1>2. CASE UNCHANGED rows /\ UNCHANGED listing
  BY <1>1, <1>2, EndsAsIs DEF rows
<1>3. CASE \E s \in {req[h].status, "active", "inactive"} : Decide(req[h].model, s)
  <2>1. PICK s : Decide(req[h].model, s)
    BY <1>3
  <2>2. PICK ms : ms = IF s = "active" THEN {req[h].model} ELSE {}
    OBVIOUS
  <2>3. Decided(ms) /\ UNCHANGED channels
    BY <2>1, <2>2 DEF Decide
  <2>4. \A n \in Models \ ms : models'[n] = "active" => models[n] = "active" /\ ~Between(req[h], n)
    BY <1>1, <2>1, <2>2, OfTheCall DEF Decide, Between
  <2>. QED
    BY <1>1, <2>3, <2>4, EndsDecided
<1>. QED
  BY <1>2, <1>3 DEF SaveModel

LEMMA CreateChannelLists ==
  ASSUME CatalogInv, ListingInv, NEW h \in Routines, NEW m \in Models, CreateChannel(h, m)
  PROVE  ListingInv'
<1>1. PICK c \in Channels :
        /\ Fresh(c)
        /\ channels' = [channels EXCEPT ![c] = [model |-> m, status |-> "active"]]
  BY DEF CreateChannel
<1>2. PICK next \in Tasks :
        /\ next = [NoTask EXCEPT !.at = "revive", !.model = m]
        /\ next.at = "revive" /\ next.model = m /\ next.locked = {} /\ next.orphans = {}
  BY WorkOn
<1>3. Takes(h, next) /\ UNCHANGED models /\ Decided({}) /\ req[h].at = "idle"
  BY <1>2 DEF CreateChannel, In
<1>4. Elsewhere(h) /\ SameRows(h) /\ req'[h] = next
  BY <1>2, <1>3, BeginsAndEnds
<1>5. LockedInstances' = LockedInstances /\ HoldsKept
      /\ \A n \in Models : Interrupted(n) => Interrupted(n)'
  BY <1>3, <1>4, OfTheOthers DEF Between
<1>6. \A n \in Models, d \in Channels :
        channels[d] = [model |-> n, status |-> "active"] => channels'[d] = channels[d]
  BY <1>1, <1>5, NewChannelStands
<1>7. \A n \in Models : n \in Excused \cup {} => n \in Excused' \/ Standing(n)'
  BY <1>3, <1>5, LocksStay, DecidedMeans
<1>8. ListedStand'
  BY <1>3, <1>5, <1>6, <1>7, ListingKept DEF ListingInv
<1>9. Apart'
  BY <1>5, ApartKept DEF ListingInv
<1>. QED
  BY <1>8, <1>9 DEF ListingInv

\* Channels are switched that no transaction removes: the models of the others
\* keep theirs.
LEMMA OthersKeepTheirs ==
  ASSUME channels \in [Channels -> Rows], NEW cs, NEW s, channels' = Switched(cs, s), NEW n,
         \A c \in cs \cap Channels : channels[c].model # n
  PROVE  \A d \in Channels :
           channels[d] = [model |-> n, status |-> "active"] => channels'[d] = channels[d]
  BY DEF Switched

\* The deletion of a channel stands between it and its model.
LEMMA DeleteChannelLists ==
  ASSUME CatalogInv, ListingInv, NEW h \in Routines, NEW c \in Channels, DeleteChannel(h, c)
  PROVE  ListingInv'
<1>1. PICK m \in Models : m = channels[c].model
  BY OfTheCall DEF DeleteChannel, Fresh, Rows
<1>2. PICK next \in Tasks :
        /\ next = [NoTask EXCEPT !.at = "check", !.model = m]
        /\ next.at = "check" /\ next.model = m /\ next.locked = {} /\ next.orphans = {}
  BY WorkOn
<1>3. Takes(h, next) /\ UNCHANGED <<models, listing>> /\ req[h].at = "idle"
      /\ channels' = Switched({c}, "inactive")
  BY <1>1, <1>2 DEF DeleteChannel, In
<1>4. Elsewhere(h) /\ SameRows(h) /\ req'[h] = next
  BY <1>2, <1>3, BeginsAndEnds
<1>5. LockedInstances' = LockedInstances /\ HoldsKept
      /\ (\A n \in Models : Interrupted(n) => Interrupted(n)') /\ Interrupted(m)'
  BY <1>2, <1>3, <1>4, OfTheOthers DEF Between
<1>6. \A n \in Models \ {m}, d \in Channels :
        channels[d] = [model |-> n, status |-> "active"] => channels'[d] = channels[d]
  BY <1>1, <1>3, OfTheCall, OthersKeepTheirs
<1>7. \A n \in Models : n \in Excused \cup {} => n \in Excused' \/ Standing(n)'
  BY <1>3 DEF Excused, listing
<1>8. ListedStand'
  BY <1>3, <1>5, <1>6, <1>7, ListingKept DEF ListingInv
<1>9. Apart'
  BY <1>5, ApartKept DEF ListingInv
<1>. QED
  BY <1>8, <1>9 DEF ListingInv

\* The check of a deleted channel leaves a model on the list that has another,
\* or that a transaction is about to take off it.
LEMMA DeactivateModelLists ==
  ASSUME CatalogInv, ListingInv, NEW h \in Routines, DeactivateModel(h)
  PROVE  ListingInv'
<1>1. /\ Ends(h) /\ req[h].at = "check" /\ req[h].model \in Models /\ UNCHANGED channels
      /\ models \in [Models -> Presence]
  BY OfTheCall DEF DeactivateModel, In, ReqOK
<1>2. \A n \in Models : models'[n] = "active" => models[n] = "active"
  BY <1>1 DEF DeactivateModel
<1>3. CASE Decided({req[h].model}) \/ Booked({}, {req[h].model})
  <2>1. PICK ms : ms = {req[h].model}
    OBVIOUS
  <2>2. \A n \in Models \ ms : models'[n] = "active" => models[n] = "active" /\ ~Between(req[h], n)
    BY <1>2, <2>1 DEF Between
  <2>. QED
    BY <1>1, <1>3, <2>1, <2>2, EndsDecided
<1>4. CASE Booked({}, {}) /\ Leaving(req[h].model)
  <2>1. \A n \in Models \ {} : models'[n] = "active" =>
          models[n] = "active" /\ (~Between(req[h], n) \/ Leaving(n))
    BY <1>2, <1>4 DEF Between
  <2>. QED
    BY <1>1, <1>4, <2>1, EndsDecided
<1>. QED
  BY <1>3, <1>4 DEF DeactivateModel

-----------------------------------------------------------------------------
(* The deletion of a provider.                                             *)

\* It takes hold of instances whose channels nobody holds.  A model that had a
\* channel of its own to stand on keeps one, or leaves the list with these, or
\* its last channels go in two transactions.
LEMMA RemoveProviderLists ==
  ASSUME CatalogInv, ListingInv, NEW h \in Routines, RemoveProvider(h)
  PROVE  ListingInv'
<1> DEFINE found == Holding(req[h].cred)
           cs    == ChannelsOf(found)
           lost  == Orphaned(cs)
<1>1. req[h] \in Tasks /\ found \in SUBSET Instances /\ lost \in SUBSET Models
      /\ req[h].at = "remove" /\ req[h].orphans = {}
  BY OfTheCall DEF RemoveProvider, In, Holding, Orphaned, CatalogInv, RowsOK, ReqOK
<1>2. PICK next \in Tasks :
        next = [req[h] EXCEPT !.at = "commit", !.locked = found, !.orphans = lost]
  BY <1>1 DEF Tasks
<1>3. next.at = "commit" /\ next.locked = found /\ next.orphans = lost
  BY <1>1, <1>2 DEF Tasks
<1>4. /\ Takes(h, next) /\ UNCHANGED <<models, channels, instances, unbacked>>
      /\ crossed' = crossed \cup Missed(cs)
      /\ cs \cap ChannelsOf(LockedInstances) = {}
  BY <1>2 DEF RemoveProvider, rows, Free
<1>5. Elsewhere(h) /\ req'[h] = next
  BY <1>4, OnlyOneMoves DEF CatalogInv, ReqsOK, Takes
<1>. HIDE DEF found, lost
<1>6. /\ ChannelsOf(req[h].locked)' = cs /\ req'[h].orphans = lost
      /\ \A g \in Routines \ {h} : /\ ChannelsOf(req[g].locked)' = ChannelsOf(req[g].locked)
                                   /\ req'[g].orphans = req[g].orphans
  BY <1>3, <1>5 DEF Elsewhere, ChannelsOf
<1>7. ChannelsOf(LockedInstances)' \subseteq ChannelsOf(LockedInstances) \cup cs
  <2>1. LockedInstances' \subseteq LockedInstances \cup found
    BY <1>3, <1>5 DEF LockedInstances, Elsewhere
  <2>. QED
    BY <2>1 DEF ChannelsOf
<1>. HIDE DEF cs
<1>8. Apart'
  <2>1. \A g \in Routines : ChannelsOf(req[g].locked) \cap cs = {}
    BY <1>4, LockedAreChannels
  <2>. QED
    BY <1>6, <2>1 DEF ListingInv, Apart
<1>9. \A m \in Models : Interrupted(m)' <=> Interrupted(m)
  BY <1>1, <1>3, <1>5 DEF Interrupted, Elsewhere
<1>10. ASSUME NEW m \in Models, models'[m] = "active", m \notin Excused', ~Interrupted(m)',
              ~Standing(m)'
       PROVE  Leaving(m)'
  <2>1. models[m] = "active" /\ m \notin Excused /\ m \notin Missed(cs) /\ ~Interrupted(m)
    BY <1>4, <1>9, <1>10 DEF Excused
  <2>2. CASE Leaving(m)
    <3>1. PICK g \in Routines : /\ m \in req[g].orphans
                                /\ \E c \in ChannelsOf(req[g].locked) :
                                     channels[c] = [model |-> m, status |-> "active"]
      BY <2>2 DEF Leaving
    <3>2. g # h
      BY <1>1, <3>1
    <3>. QED
      BY <1>4, <1>6, <3>1, <3>2 DEF Leaving
  <2>3. CASE ~Leaving(m)
    <3>1. Standing(m)
      BY <2>1, <2>3 DEF ListingInv, ListedStand
    <3>2. \A c \in Channels : channels[c] = [model |-> m, status |-> "active"]
                                => c \in cs \cup ChannelsOf(LockedInstances)
      BY <1>4, <1>7, <1>10 DEF Standing
    <3>3. PICK c \in Channels : c \in cs /\ channels[c] = [model |-> m, status |-> "active"]
      BY <3>1, <3>2 DEF Standing
    <3>4. m \in lost
      BY <2>1, <2>3, <3>2, <3>3 DEF Missed, lost
    <3>. QED
      BY <1>4, <1>6, <3>3, <3>4 DEF Leaving
  <2>. QED
    BY <2>2, <2>3
<1>11. ListedStand'
  BY <1>10 DEF ListedStand
<1>. QED
  BY <1>8, <1>11 DEF ListingInv

\* What a deletion held is free when it ends; the others hold what they held.
LEMMA DeletionEnds ==
  ASSUME CatalogInv, Apart, NEW h \in Routines, req[h].at = "commit", Ends(h)
  PROVE  /\ Apart'
         /\ ChannelsOf(LockedInstances)' \subseteq ChannelsOf(LockedInstances)
         /\ ChannelsOf(LockedInstances)' \cap ChannelsOf(req[h].locked) = {}
         /\ \A m \in Models : Interrupted(m)' <=> Interrupted(m)
         /\ \A g \in Routines \ {h} : /\ ChannelsOf(req[g].locked)' = ChannelsOf(req[g].locked)
                                      /\ req'[g].orphans = req[g].orphans
<1>1. Elsewhere(h) /\ req'[h] = NoTask
  BY OnlyOneMoves, NoWorkTyped DEF Ends, CatalogInv, ReqsOK, Takes
<1>2. /\ ChannelsOf(req[h].locked)' = {}
      /\ \A g \in Routines \ {h} : /\ ChannelsOf(req[g].locked)' = ChannelsOf(req[g].locked)
                                   /\ req'[g].orphans = req[g].orphans
  BY <1>1, NoWorkTyped DEF Elsewhere, ChannelsOf
<1>3. Apart'
  BY <1>2 DEF Apart
<1>4. ASSUME NEW c \in ChannelsOf(LockedInstances)'
      PROVE  c \in ChannelsOf(LockedInstances) /\ c \notin ChannelsOf(req[h].locked)
  <2>1. PICK g \in Routines : c \in ChannelsOf(req[g].locked)'
    BY <1>4 DEF ChannelsOf, LockedInstances
  <2>2. g # h /\ c \in ChannelsOf(req[g].locked)
    BY <1>2, <2>1
  <2>. QED
    BY <2>2, LockedAreChannels DEF Apart
<1>5. \A m \in Models : Interrupted(m)' <=> Interrupted(m)
  BY <1>1, NoWorkTyped DEF Interrupted, Elsewhere
<1>. QED
  BY <1>2, <1>3, <1>4, <1>5

\* A deletion that is dropped leaves the channels, which now stand again.
LEMMA DroppedDeletion ==
  ASSUME CatalogInv, ListingInv, NEW h \in Routines, req[h].at = "commit", Ends(h),
         UNCHANGED <<models, channels>>,
         \A m \in Models : m \in Excused => m \in Excused' \/ Standing(m)'
  PROVE  ListingInv'
<1>1. /\ Apart'
      /\ ChannelsOf(LockedInstances)' \subseteq ChannelsOf(LockedInstances)
      /\ ChannelsOf(LockedInstances)' \cap ChannelsOf(req[h].locked) = {}
      /\ \A m \in Models : Interrupted(m)' <=> Interrupted(m)
      /\ \A g \in Routines \ {h} : /\ ChannelsOf(req[g].locked)' = ChannelsOf(req[g].locked)
                                   /\ req'[g].orphans = req[g].orphans
  BY DeletionEnds DEF ListingInv
<1>2. ASSUME NEW m \in Models, models'[m] = "active", m \notin Excused', ~Interrupted(m)'
      PROVE  Standing(m)' \/ Leaving(m)'
  <2>1. CASE m \in Excused
    BY <1>2, <2>1
  <2>2. CASE m \notin Excused
    <3>1. Standing(m) \/ Leaving(m)
      BY <1>1, <1>2, <2>2 DEF ListingInv, ListedStand
    <3>2. CASE Standing(m)
      BY <1>1, <3>2 DEF Standing
    <3>3. CASE Leaving(m)
      <4>1. PICK g \in Routines :
              /\ m \in req[g].orphans
              /\ \E c \in ChannelsOf(req[g].locked) : channels[c] = [model |-> m, status |-> "active"]
        BY <3>3 DEF Leaving
      <4>4. PICK c \in ChannelsOf(req[g].locked) : channels[c] = [model |-> m, status |-> "active"]
        BY <4>1
      <4>2. CASE g = h
        BY <1>1, <4>4, <4>2, LockedAreChannels DEF Standing
      <4>3. CASE g # h
        BY <1>1, <4>1, <4>4, <4>3 DEF Leaving
      <4>. QED
        BY <4>2, <4>3
    <3>. QED
      BY <3>1, <3>2, <3>3
  <2>. QED
    BY <2>1, <2>2
<1>3. ListedStand'
  BY <1>2 DEF ListedStand
<1>. QED
  BY <1>1, <1>3 DEF ListingInv

LEMMA CommitRemovalLists ==
  ASSUME CatalogInv, ListingInv, NEW h \in Routines, CommitRemoval(h)
  PROVE  ListingInv'
<1>1. Ends(h) /\ req[h].at = "commit" /\ UNCHANGED listing /\ Excused' = Excused
  BY DEF CommitRemoval, In, Excused, listing
<1>2. CASE UNCHANGED rows
  BY <1>1, <1>2, DroppedDeletion DEF rows
<1>3. CASE /\ channels' = Switched(ChannelsOf(req[h].locked), "inactive")
           /\ models' = [m \in Models |-> Listed(m, req[h].orphans)]
  <2>1. /\ Apart'
        /\ ChannelsOf(LockedInstances)' \subseteq ChannelsOf(LockedInstances)
        /\ \A m \in Models : Interrupted(m)' <=> Interrupted(m)
        /\ \A g \in Routines \ {h} : /\ ChannelsOf(req[g].locked)' = ChannelsOf(req[g].locked)
                                     /\ req'[g].orphans = req[g].orphans
    BY <1>1, DeletionEnds DEF ListingInv
  <2>2. \A c \in Channels : c \notin ChannelsOf(req[h].locked) => channels'[c] = channels[c]
    BY <1>3 DEF Switched
  <2>3. ASSUME NEW m \in Models, models'[m] = "active", m \notin Excused', ~Interrupted(m)'
        PROVE  Standing(m)' \/ Leaving(m)'
    <3>1. models[m] = "active" /\ m \notin req[h].orphans
      BY <1>3, <2>3 DEF Listed
    <3>2. Standing(m) \/ Leaving(m)
      BY <1>1, <2>1, <2>3, <3>1 DEF ListingInv, ListedStand
    <3>3. CASE Standing(m)
      BY <2>1, <2>2, <3>3, LockedAreChannels DEF Standing
    <3>4. CASE Leaving(m)
      <4>1. PICK g \in Routines :
              /\ m \in req[g].orphans
              /\ \E c \in ChannelsOf(req[g].locked) : channels[c] = [model |-> m, status |-> "active"]
        BY <3>4 DEF Leaving
      <4>2. PICK c \in ChannelsOf(req[g].locked) : channels[c] = [model |-> m, status |-> "active"]
        BY <4>1
      <4>3. g # h /\ c \in Channels /\ c \notin ChannelsOf(req[h].locked)
        BY <3>1, <4>1, LockedAreChannels DEF ListingInv, Apart
      <4>. QED
        BY <2>1, <2>2, <4>1, <4>2, <4>3 DEF Leaving
    <3>. QED
      BY <3>2, <3>3, <3>4
  <2>4. ListedStand'
    BY <2>3 DEF ListedStand
  <2>. QED
    BY <2>1, <2>4 DEF ListingInv
<1>. QED
  BY <1>2, <1>3 DEF CommitRemoval

LEMMA CrashLists ==
  ASSUME CatalogInv, ListingInv, NEW h \in Routines, Crash(h)
  PROVE  ListingInv'
<1>1. PICK ms : ms = IF req[h].at \in {"channel", "check"} THEN {req[h].model} ELSE {}
  OBVIOUS
<1>2. Ends(h) /\ UNCHANGED <<models, channels>> /\ Decided(ms)
  BY <1>1 DEF Crash, rows
<1>3. CASE req[h].at = "commit"
  <2>1. ChannelsOf(LockedInstances)' \subseteq ChannelsOf(LockedInstances)
    BY <1>2, <1>3, DeletionEnds DEF ListingInv
  <2>2. \A m \in Models : m \in Excused => m \in Excused' \/ Standing(m)'
    BY <1>2, <2>1, DecidedMeans
  <2>. QED
    BY <1>2, <1>3, <2>2, DroppedDeletion
<1>4. CASE req[h].at # "commit"
  <2>1. \A n \in Models \ ms : models'[n] = "active" => models[n] = "active" /\ ~Between(req[h], n)
    BY <1>1, <1>2 DEF Between
  <2>. QED
    BY <1>2, <1>4, <2>1, EndsDecided
<1>. QED
  BY <1>3, <1>4

-----------------------------------------------------------------------------
(* The statements of their own, and the whole.                             *)

LEMMA StatementsList ==
  ASSUME CatalogInv, ListingInv
  PROVE  /\ \A c \in Channels, s \in {"active", "inactive"} :
              SetChannelStatus(c, s) \/ SetProviderStatus(c, s) => ListingInv'
         /\ \A c \in Channels, cred \in Credentials : AddInstance(c, cred) => ListingInv'
         /\ \A i \in instances : RemoveInstance(i) => ListingInv'
         /\ \A m \in Models : CreateModel(m) \/ DeleteModel(m) \/ Expire(m) => ListingInv'
<1>1. ASSUME UNCHANGED req
      PROVE  /\ HoldsKept /\ Apart' /\ LockedInstances' = LockedInstances
             /\ \A m \in Models : Interrupted(m)' <=> Interrupted(m)
  BY <1>1, ApartKept DEF HoldsKept, LockedInstances, Interrupted, ListingInv
<1>2. ASSUME UNCHANGED <<req, models, channels, listing>>
      PROVE  ListingInv'
  BY <1>1, <1>2, ListingAside DEF ListingInv
<1>3. ASSUME NEW cs, NEW s, Switch(cs, s)
      PROVE  ListingInv'
  <2>1. PICK ms : ms = {channels[c].model : c \in cs} \ {Nil}
    OBVIOUS
  <2>2. Decided(ms) /\ UNCHANGED <<models, req>> /\ channels' = Switched(cs, s)
    BY <1>3, <2>1 DEF Switch
  <2>3. \A m \in Models : m \in Excused \cup ms => m \in Excused' \/ Standing(m)'
    BY <1>1, <2>2, LocksStay, DecidedMeans
  <2>4. \A n \in Models \ ms : \A c \in cs : channels[c].model # n
    BY <2>1, NilIsNothing
  <2>5. \A n \in Models \ ms, d \in Channels :
          channels[d] = [model |-> n, status |-> "active"] => channels'[d] = channels[d]
    <3>1. channels \in [Channels -> Rows] BY DEF CatalogInv, RowsOK
    <3>2. ASSUME NEW n \in Models \ ms
          PROVE  \A d \in Channels :
                   channels[d] = [model |-> n, status |-> "active"] => channels'[d] = channels[d]
      <4>1. \A c \in cs \cap Channels : channels[c].model # n BY <2>4, <3>2
      <4>2. channels' = Switched(cs, s) BY <2>2
      <4> QED BY <3>1, <4>1, <4>2, OthersKeepTheirs
    <3> QED BY <3>2
  <2>6. ListedStand'
    BY <1>1, <2>2, <2>3, <2>5, ListingKept DEF ListingInv
  <2>. QED
    BY <1>1, <2>2, <2>6 DEF ListingInv
<1>4. ASSUME NEW m \in Models, NEW s, Decide(m, s), UNCHANGED req
      PROVE  ListingInv'
  <2>1. PICK ms : ms = IF s = "active" THEN {m} ELSE {}
    OBVIOUS
  <2>2. Decided(ms) /\ UNCHANGED channels /\ models' = [models EXCEPT ![m] = s]
    BY <1>4, <2>1 DEF Decide
  <2>3. \A n \in Models : n \in Excused \cup ms => n \in Excused' \/ Standing(n)'
    BY <1>1, <1>4, <2>2, LocksStay, DecidedMeans
  <2>4. \A n \in Models \ ms : models'[n] = "active" => models[n] = "active"
    BY <2>1, <2>2 DEF CatalogInv, RowsOK
  <2>5. ListedStand'
    BY <1>1, <1>4, <2>2, <2>3, <2>4, ListingKept DEF ListingInv
  <2>. QED
    BY <1>1, <1>4, <2>5 DEF ListingInv
<1>5. ASSUME NEW c \in Channels, NEW s \in {"active", "inactive"},
             SetChannelStatus(c, s) \/ SetProviderStatus(c, s)
      PROVE  ListingInv'
  BY <1>3, <1>5 DEF SetChannelStatus, SetProviderStatus
<1>6. ASSUME NEW m \in Models, CreateModel(m) \/ DeleteModel(m)
      PROVE  ListingInv'
  BY <1>4, <1>6 DEF CreateModel, DeleteModel
<1>7. ASSUME NEW m \in Models, Expire(m)
      PROVE  ListingInv'
  BY <1>2, <1>7 DEF Expire, rows
<1>8. ASSUME NEW c \in Channels, NEW cred \in Credentials, AddInstance(c, cred)
      PROVE  ListingInv'
  BY <1>2, <1>8 DEF AddInstance
<1>9. ASSUME NEW i \in instances, RemoveInstance(i)
      PROVE  ListingInv'
  BY <1>2, <1>9 DEF RemoveInstance
<1>. QED
  BY <1>5, <1>6, <1>7, <1>8, <1>9

LEMMA InitListing == CatalogInit => ListingInv
<1>1. SUFFICES ASSUME CatalogInit PROVE ListingInv
  OBVIOUS
<1>2. \A m \in Models : models[m] # "active"
  BY <1>1 DEF CatalogInit
<1>3. Apart
  BY <1>1, NoWorkTyped DEF CatalogInit, Apart, ChannelsOf
<1>. QED
  BY <1>2, <1>3 DEF ListingInv, ListedStand

LEMMA NextListing == CatalogInv /\ ListingInv /\ [CatalogNext]_catalogVars => ListingInv'
<1>1. SUFFICES ASSUME CatalogInv, ListingInv, [CatalogNext]_catalogVars PROVE ListingInv'
  OBVIOUS
<1>2. ASSUME NEW h \in Routines, ListingStep(h)
      PROVE  ListingInv'
  BY <1>1, <1>2, CallsThatBegin, InsertPlaceholderLists, UpsertModelLists, InsertChannelLists,
     InstancesList, CallsThatEndList, ImportModelLists, CommitCatalogLists, DeleteChannelLists,
     RemoveProviderLists, CommitRemovalLists, DeactivateModelLists, SaveModelLists,
     StatementsList DEF ListingStep
<1>3. ASSUME NEW h \in Routines, ResponseStep(h)
      PROVE  ListingInv'
  BY <1>1, <1>3, CallsThatBegin, CallsThatEndList, StatementsList DEF ResponseStep
<1>4. ASSUME NEW h \in Routines, CommonStep(h)
      PROVE  ListingInv'
  BY <1>1, <1>4, CallsThatBegin, InstancesList, PurgeLists, CreateChannelLists,
     ReviveModelLists, CrashLists, StatementsList DEF CommonStep
<1>5. CASE UNCHANGED catalogVars
  BY <1>1, <1>5 DEF catalogVars, ListingInv, Apart, ListedStand, Excused, Standing, Leaving,
                    Interrupted, LockedInstances, ChannelsOf
<1>. QED
  BY <1>1, <1>2, <1>3, <1>4, <1>5 DEF CatalogNext

LEMMA ListedThenServed ==
  ASSUME CatalogInv, ListingInv
  PROVE  NoUnroutableModels
<1>1. ASSUME NEW m \in Models, models[m] = "active", m \notin unbacked \cup crossed, ~Interrupted(m)
      PROVE  Backed(m, channels)
  <2>1. Standing(m) \/ Leaving(m)
    BY <1>1 DEF ListingInv, ListedStand, Excused
  <2>. QED
    BY <2>1, LockedAreChannels DEF Standing, Leaving, Backed
<1>. QED
  BY <1>1 DEF NoUnroutableModels, Interrupted

\* A model whose last active channel goes, goes off the list, for any number of
\* models, channels, instances and handlers, with failing statements and crashes
\* between any two and deletions that overlap, but for what administrators
\* decided, what broke off, and the two crossings NoUnroutableModels names
\* (providers.go:1042, channels.go:316).
THEOREM ListedModelsAreServed == CatalogSpec => []NoUnroutableModels
<1>1. CatalogInit => CatalogInv /\ ListingInv
  BY InitCatalog, InitListing
<1>2. CatalogInv /\ ListingInv /\ [CatalogNext]_catalogVars => (CatalogInv /\ ListingInv)'
  BY NextCatalog, NextListing
<1>3. CatalogInv /\ ListingInv => NoUnroutableModels
  BY ListedThenServed
<1>. QED
  BY <1>1, <1>2, <1>3, PTL DEF CatalogSpec
=============================================================================
