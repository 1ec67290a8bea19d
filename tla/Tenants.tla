------------------------------- MODULE Tenants -------------------------------
(***************************************************************************)
(* Enterprise tenants beside the accounts that own them: an administrator  *)
(* creates a tenant together with its owner's account, wallet and          *)
(* membership in one transaction, moves it between its statuses and        *)
(* deletes it; every boot makes sure that the platform tenant exists and   *)
(* that the bootstrap administrator owns it                                *)
(* (internal/handler/console/tenants.go, internal/app/bootstrap.go).       *)
(*                                                                         *)
(* The lookups of the code and of the owner are one step: the transaction  *)
(* decides both again.  Names and contacts are left out, and so is the     *)
(* repair of a membership that is not an active owner's, which nothing     *)
(* makes.  A code that was deleted is not used again.                      *)
(***************************************************************************)
EXTENDS Accounts

CONSTANTS Codes,      \* tenant codes
          Platform    \* PlatformTenantCode

ASSUME PlatformAssumption == Platform \in Codes

VARIABLES scene,      \* bound: what this behaviour follows
          tenants,    \* code -> status and owner
          members,    \* code -> owners in tenant_memberships
          work        \* handler -> what its call on a tenant has read
\* History: accounts made for a tenant; whether a boot came through.
VARIABLES provisioned, booted

tenancy == <<tenants, members, work, provisioned, booted>>
tvars == <<vars, scene, tenancy>>

NoTenant == [status |-> "none", owner |-> Nobody]
NoWork   == [at |-> "none", code |-> Platform, owner |-> Nobody, fresh |-> FALSE,
             status |-> "none"]

\* Tenant.ValidTransitions.
Transitions(status) ==
  CASE status = "pending_review" -> {"active", "rejected"}
    [] status = "active"         -> {"suspended", "terminated"}
    [] status = "suspended"      -> {"active", "terminated"}
    [] OTHER                     -> {}

Present(c) == tenants[c].status \notin {"none", "deleted"}

\* The row a boot inserts for the platform.
PlatformTenant == [status |-> "active", owner |-> Admin]

TInit ==
  /\ Init /\ scene \in {"accounts", "sessions", "tenants"}
  /\ (scene # "sessions" => redis)
  /\ tenants = [c \in Codes |-> NoTenant] /\ members = [c \in Codes |-> {}]
  /\ work = [h \in Handlers |-> NoWork]
  /\ provisioned = {} /\ booted = FALSE

Working(h, at) == At(h, "tenant") /\ work[h].at = at
Work(h, next) == work' = [work EXCEPT ![h] = next]
Finish(h) == Done(h) /\ Work(h, NoWork)
AccountsUnchanged == UNCHANGED <<users, wallets, session, clock, history, scene>>

\* The administrator's call goes on to a tenant.
Go(h, next) == /\ At(h, "in") /\ job[h].role = "admin"
               /\ Serve(h, "tenant", job[h].user, "console", "admin") /\ Work(h, next)
               /\ AccountsUnchanged /\ UNCHANGED <<tenants, members, provisioned, booted>>

-----------------------------------------------------------------------------
\* The owner is nobody, an existing account named by id or by address and
\* password, or an unknown address that becomes an account.
FreshOwner(u) == u # Nobody /\ ~Exists(u)

CreateTenant(h, c, u) ==
  /\ tenants[c].status = "none"
  /\ Go(h, [NoWork EXCEPT !.at = "insert", !.code = c, !.owner = u, !.fresh = FreshOwner(u)])

\* Mutant of CommitTenant: the owner's account is not part of the transaction.
CommitTenant_OwnerStays(h) ==
  LET t == work[h]
      ok == tenants[t.code].status = "none" /\ (t.fresh => Insertable(t.owner)) IN
  /\ Working(h, "insert")
  /\ IF t.fresh /\ Insertable(t.owner)
     THEN /\ NewAccount(t.owner, "user") /\ provisioned' = provisioned \cup {t.owner}
          /\ wallets' = [wallets EXCEPT ![t.owner] = @ + 1]
     ELSE UNCHANGED <<users, wallets, provisioned>>
  /\ IF ok
     THEN /\ tenants' = [tenants EXCEPT ![t.code] = [status |-> "pending_review",
                                                     owner |-> t.owner]]
          /\ members' = [members EXCEPT ![t.code] = {t.owner} \ {Nobody}]
     ELSE UNCHANGED <<tenants, members>>
  /\ Finish(h) /\ UNCHANGED <<session, clock, history, scene, booted>>

\* Account, wallet, tenant and membership are inserted together.  An address
\* or a code that was taken since the lookup undoes all of it.
CommitTenant(h) ==
  LET t == work[h]
      ok == tenants[t.code].status = "none" /\ (t.fresh => Insertable(t.owner)) IN
  /\ Working(h, "insert")
  /\ IF ok /\ t.fresh
     THEN /\ NewAccount(t.owner, "user") /\ provisioned' = provisioned \cup {t.owner}
          /\ wallets' = [wallets EXCEPT ![t.owner] = @ + 1]
     ELSE UNCHANGED <<users, wallets, provisioned>>
  /\ IF ok
     THEN /\ tenants' = [tenants EXCEPT ![t.code] = [status |-> "pending_review",
                                                     owner |-> t.owner]]
          /\ members' = [members EXCEPT ![t.code] = {t.owner} \ {Nobody}]
     ELSE UNCHANGED <<tenants, members>>
  /\ Finish(h) /\ UNCHANGED <<session, clock, history, scene, booted>>

\* The new status must follow the one that was read; the platform tenant
\* keeps its own.
UpdateTenant(h, c, s) ==
  /\ Present(c)
  /\ s = tenants[c].status \/ (c # Platform /\ s \in Transitions(tenants[c].status))
  /\ Go(h, [NoWork EXCEPT !.at = "write", !.code = c, !.status = s])

\* The row is written whatever happened to it since it was read.
WriteTenant(h) ==
  LET t == work[h] IN
  /\ Working(h, "write")
  /\ tenants' = IF Present(t.code) THEN [tenants EXCEPT ![t.code].status = t.status]
                ELSE tenants
  /\ Finish(h) /\ AccountsUnchanged /\ UNCHANGED <<members, provisioned, booted>>

\* The memberships go with the tenant; the owner's account stays.
Removed(c) == /\ tenants' = [tenants EXCEPT ![c].status = "deleted"]
              /\ members' = [members EXCEPT ![c] = {}]

DeleteTenant(h, c) ==
  /\ At(h, "in") /\ job[h].role = "admin" /\ Present(c) /\ c # Platform
  /\ Removed(c) /\ Finish(h) /\ AccountsUnchanged /\ UNCHANGED <<provisioned, booted>>

\* A boot, after it looked after the administrator's account, finds or makes
\* the platform tenant, which needs that account; a concurrent boot or an
\* administrator may have inserted the code meanwhile, whose row is taken then.
EnsurePlatformTenant(h) ==
  /\ At(h, "idle") /\ (Present(Platform) \/ Exists(Admin))
  /\ tenants' = IF Present(Platform) THEN tenants
                ELSE [tenants EXCEPT ![Platform] = PlatformTenant]
  /\ Serve(h, "tenant", Admin, "console", "admin") /\ Work(h, [NoWork EXCEPT !.at = "owner"])
  /\ AccountsUnchanged /\ UNCHANGED <<members, provisioned, booted>>

\* A membership is inserted once: a second insert finds the first.
Join(c, u) == members' = [members EXCEPT ![c] = @ \cup {u}]

\* The administrator becomes its owner, unless a membership is there.
EnsureOwner(h) ==
  /\ Working(h, "owner") /\ Exists(Admin)
  /\ Join(Platform, Admin) /\ booted' = TRUE
  /\ Finish(h) /\ AccountsUnchanged /\ UNCHANGED <<tenants, provisioned>>

Tenancy(h) ==
  \/ \E c \in Codes : \/ \E u \in Users \cup {Nobody} : CreateTenant(h, c, u)
                      \/ \E s \in {"active", "suspended", "terminated", "rejected"} :
                           UpdateTenant(h, c, s)
                      \/ DeleteTenant(h, c)
  \/ CommitTenant(h) \/ WriteTenant(h)
  \/ EnsurePlatformTenant(h) \/ EnsureOwner(h)

\* What happens to accounts and tokens in every scene.  Bound: where no session
\* is revoked, one token is issued and time stands still.
Beside(h) ==
  \/ Boot(h) \/ Create(h) \/ Provision(h)
  \/ (scene = "sessions" \/ \A t \in Tokens : tokens[t].owner = Nobody) /\ Issue(h)
  \/ \E t \in Tokens : Authenticate(h, t)
  \/ \E u \in Users : Register(h, u) \/ Login(h, u) \/ DeleteUser(h, u)

TNext ==
  \/ Tick /\ scene = "sessions" /\ UNCHANGED <<scene, tenancy>>
  \/ \E h \in Handlers :
       \/ scene = "accounts" /\ Account(h) /\ UNCHANGED <<scene, tenancy>>
       \/ scene = "sessions" /\ Session(h) /\ UNCHANGED <<scene, tenancy>>
       \/ Beside(h) /\ UNCHANGED <<scene, tenancy>>
       \/ scene = "tenants" /\ Tenancy(h)
       \/ Abort(h) /\ Work(h, NoWork)
          /\ UNCHANGED <<scene, tenants, members, provisioned, booted>>

TSpec == TInit /\ [][TNext]_tvars

-----------------------------------------------------------------------------
\* A tenant's owner has an account and, but for the platform tenant of a boot
\* that broke off, the membership that opens the tenant; an account that was
\* made for a tenant has a wallet and was made with its tenant.  No creation
\* that meets a taken code or address, or breaks off, leaves a part behind
\* (tenants.go:262, bootstrap.go:35).
TenantsAreOwned ==
  /\ \A c \in Codes : Present(c) /\ tenants[c].owner # Nobody =>
       /\ Exists(tenants[c].owner)
       /\ tenants[c].owner \in members[c] \/ (c = Platform /\ ~booted)
  /\ \A u \in provisioned :
       wallets[u] = 1 /\ \E c \in Codes : tenants[c].owner = u /\ tenants[c].status # "none"
  /\ booted => Present(Platform) /\ Admin \in members[Platform]
=============================================================================
