------------------------------ MODULE Accounts ------------------------------
(***************************************************************************)
(* Console accounts and login sessions.  An account comes from             *)
(* registration, from an OAuth or WeChat callback, from an administrator,  *)
(* with a new tenant or from the boot of the API process; each of these    *)
(* looks the address up, inserts the user and gives it a wallet, in        *)
(* separate statements unless a tenant is created (module Tenants).        *)
(* A login issues a signed token that stands on its own.  It is taken      *)
(* back by two statements: a row of auth_sessions, then an entry with a    *)
(* lifetime in the Redis denylist.  The denylist alone is consulted where  *)
(* Redis is configured, the row alone where it is not.                     *)
(* A call is authenticated once, when it enters; what it does with the     *)
(* identity and the role it read then happens later.                       *)
(***************************************************************************)
EXTENDS Integers, FiniteSets

CONSTANTS Users,      \* accounts, named by their e-mail address
          Admin,      \* the bootstrap administrator (uuid.Nil)
          Synthetic,  \* the addresses made up for WeChat accounts
          Tokens,     \* bound: the tokens that can be issued
          Handlers,   \* goroutines serving console calls or booting
          Life,       \* JWT.ExpiryHours
          Buffer,     \* revokedSessionTTLBuffer
          MaxTime,    \* bound: the clock stops here
          Statuses,   \* bound: the statuses an administrator sets
          Nobody      \* the owner of a token not issued yet

ASSUME AdminAssumption == Admin \in Users /\ Nobody \notin Users
ASSUME TimesAssumption ==
  Life \in Nat /\ Buffer \in Nat \ {0} /\ MaxTime \in Nat
ASSUME StatusesAssumption == Statuses \subseteq {"active", "banned", "deleted"}

VARIABLES users,      \* account -> status and role
          wallets,    \* account -> rows in wallets (no unique index holds)
          tokens,     \* token -> owner, expiry and its auth_sessions row
          redis,      \* whether Redis is configured
          denied,     \* token -> end of its denylist entry
          clock,
          job         \* handler -> the call it is serving
\* History: accounts whose creation died before the wallet, sessions whose
\* revocation from the list reached the store that is asked about them,
\* tokens that went through a logout.
VARIABLES orphans, reached, loggedOut

session == <<tokens, redis, denied>>
history == <<orphans, reached, loggedOut>>
vars == <<users, wallets, tokens, redis, denied, clock, job,
          orphans, reached, loggedOut>>

Roles    == {"user", "admin"}
NoUser   == [status |-> "none", role |-> "user"]
Unissued == [owner |-> Nobody, expires |-> 0, row |-> "none"]
Idle     == [at |-> "idle", user |-> Admin, how |-> "none", role |-> "user",
             current |-> {}, todo |-> {}]

\* An installation starts empty, with or without Redis.
Init ==
  /\ users = [u \in Users |-> NoUser] /\ wallets = [u \in Users |-> 0]
  /\ tokens = [t \in Tokens |-> Unissued] /\ redis \in BOOLEAN
  /\ denied = [t \in Tokens |-> 0]
  /\ clock = 1 /\ job = [h \in Handlers |-> Idle]
  /\ orphans = {} /\ reached = {} /\ loggedOut = {}

Exists(u) == users[u].status # "none"
At(h, place) == job[h].at = place
Become(h, next) == job' = [job EXCEPT ![h] = next]
Serve(h, place, u, how, role) ==
  Become(h, [Idle EXCEPT !.at = place, !.user = u, !.how = how, !.role = role])
Done(h) == Become(h, Idle)

\* Whether ConsoleAuth lets a call with this token in.  A store that does not
\* answer counts as one that knows of no revocation.
Accepted(t, answered) ==
  /\ tokens[t].owner # Nobody /\ clock < tokens[t].expires
  /\ answered => IF redis THEN clock >= denied[t] ELSE tokens[t].row # "revoked"
  /\ users[tokens[t].owner].status = "active"

Tick == /\ clock < MaxTime /\ clock' = clock + 1
        /\ UNCHANGED <<users, wallets, session, job, history>>

-----------------------------------------------------------------------------
\* Accounts.  A boot that finds its administrator leaves it as it is.
Boot(h) == /\ At(h, "idle") /\ ~Exists(Admin)
           /\ Serve(h, "create", Admin, "console", "admin")
           /\ UNCHANGED <<users, wallets, session, clock, history>>

\* An address that is known is answered with a conflict.
Register(h, u) == /\ At(h, "idle") /\ ~Exists(u)
                  /\ Serve(h, "create", u, "self", "user")
                  /\ UNCHANGED <<users, wallets, session, clock, history>>

\* The state that comes back is only signed, not stored: whoever asks for one
\* has one, and may use it again until it expires.  An account that exists
\* is logged in whatever its status, which ConsoleAuth looks at.
FindOrCreate(h, u) ==
  /\ At(h, "idle")
  /\ IF Exists(u) THEN Serve(h, "issue", u, "none", "user")
                  ELSE Serve(h, "create", u, "self", "user")
  /\ UNCHANGED <<users, wallets, session, clock, history>>

GithubCallback(h, u) == u \notin Synthetic /\ FindOrCreate(h, u)
GoogleCallback(h, u) == u \notin Synthetic /\ FindOrCreate(h, u)
WechatCallback(h, u) == u \in Synthetic /\ FindOrCreate(h, u)

\* The administrator's form does not look the address up first, and takes
\* any role.
CreateUser(h, u, role) ==
  /\ At(h, "in") /\ job[h].role = "admin"
  /\ Serve(h, "create", u, "console", role)
  /\ UNCHANGED <<users, wallets, session, clock, history>>

\* Mutant: users.email has no unique index.
Insertable_NoIndex(u) == TRUE

\* The unique address decides between concurrent creations.
Insertable(u) == ~Exists(u)
NewAccount(u, role) == users' = [users EXCEPT ![u] = [status |-> "active", role |-> role]]
Create(h) ==
  LET u == job[h].user IN
  /\ At(h, "create")
  /\ IF Insertable(u)
     THEN NewAccount(u, job[h].role) /\ Serve(h, "provision", u, job[h].how, "user")
     ELSE Done(h) /\ UNCHANGED users
  /\ UNCHANGED <<wallets, session, clock, history>>

\* A registered or OAuth account is logged in at once.
Provision(h) ==
  /\ At(h, "provision")
  /\ wallets' = [wallets EXCEPT ![job[h].user] = @ + 1]
  /\ IF job[h].how = "self"
       THEN Serve(h, "issue", job[h].user, "none", "user") ELSE Done(h)
  /\ UNCHANGED <<users, session, clock, history>>

\* The administrator acts on the role read when the call came in, and on
\* any account but the own one.
SetStatus(h, u, s) ==
  /\ At(h, "in") /\ job[h].role = "admin" /\ u # job[h].user /\ Exists(u)
  /\ users' = [users EXCEPT ![u].status = s] /\ Done(h)
  /\ UNCHANGED <<wallets, session, clock, history>>

DeleteUser(h, u) == SetStatus(h, u, "deleted")

SetRole(h, u, r) ==
  /\ At(h, "in") /\ job[h].role = "admin" /\ Exists(u)
  /\ users' = [users EXCEPT ![u].role = r] /\ Done(h)
  /\ UNCHANGED <<wallets, session, clock, history>>

-----------------------------------------------------------------------------
\* Sessions.  Accounts without a password log in through their provider
\* only; which way a login took makes no difference later.
Login(h, u) == /\ At(h, "idle") /\ users[u].status = "active"
               /\ Serve(h, "issue", u, "none", "user")
               /\ UNCHANGED <<users, wallets, session, clock, history>>

\* The bootstrap credentials are taken while no account has the address;
\* the insert behind it names nine columns for eight values and never
\* takes effect.
BootstrapLogin(h) == /\ At(h, "idle") /\ ~Exists(Admin)
                     /\ Serve(h, "issue", Admin, "none", "user")
                     /\ UNCHANGED <<users, wallets, session, clock, history>>

\* The session row is best effort and needs the account it refers to.  Bound:
\* a token is issued before the last tick, so that each one sees time pass.
Issue(h) ==
  \E t \in Tokens, row \in {"live", "none"} :
    /\ At(h, "issue") /\ tokens[t].owner = Nobody /\ clock < MaxTime
    /\ row = "live" => Exists(job[h].user)
    /\ tokens' = [tokens EXCEPT ![t] = [owner |-> job[h].user,
                    expires |-> clock + Life, row |-> row]]
    /\ Done(h)
    /\ UNCHANGED <<users, wallets, redis, denied, clock, history>>

\* A call enters: account and role are read now.
Authenticate(h, t) ==
  /\ At(h, "idle") /\ \E answered \in BOOLEAN : Accepted(t, answered)
  /\ LET u == tokens[t].owner IN
       Become(h, [Idle EXCEPT !.at = "in", !.user = u, !.role = users[u].role,
                              !.current = {t}])
  /\ UNCHANGED <<users, wallets, session, clock, history>>

Live(u) == {t \in Tokens : tokens[t].owner = u /\ tokens[t].row = "live"}

\* Logout, one session of the list, all but the current one.
StartRevoking(h, how, targets) ==
  /\ At(h, "in") /\ targets # {}
  /\ Become(h, [Idle EXCEPT !.at = "row", !.how = how, !.todo = targets])
  /\ UNCHANGED <<users, wallets, session, clock, history>>

Logout(h) == StartRevoking(h, "logout", job[h].current)
RevokeSession(h, t) == t \in Live(job[h].user) /\ StartRevoking(h, "revoke", {t})
RevokeOthers(h) ==
  StartRevoking(h, "revoke", Live(job[h].user) \ job[h].current)

\* current now names the one whose row is done.  An error of the statement is
\* ignored: the handler goes on and answers as if it had taken effect.
RevokeRow(h) ==
  \E t \in job[h].todo, done \in BOOLEAN :
    /\ At(h, "row")
    /\ tokens' = IF done /\ tokens[t].row # "none"
                 THEN [tokens EXCEPT ![t].row = "revoked"] ELSE tokens
    /\ reached' = IF done /\ ~redis /\ job[h].how = "revoke" THEN reached \cup {t}
                  ELSE reached
    /\ Become(h, [job[h] EXCEPT !.at = "deny", !.current = {t}])
    /\ UNCHANGED <<users, wallets, redis, denied, clock, orphans, loggedOut>>

\* Mutant: every denylist entry lasts the buffer.
DenyUntil_Buffer(how, t) == clock + Buffer

\* The denylist entry of a listed session outlives its token; the one of a
\* logout lasts the buffer, and replaces an entry that was there.
DenyUntil(how, t) ==
  IF how = "revoke" /\ tokens[t].expires > clock THEN tokens[t].expires + Buffer
                                                 ELSE clock + Buffer
\* So is an error of Redis.
Deny(h) ==
  \E t \in job[h].current, done \in BOOLEAN :
    LET rest == job[h].todo \ {t} IN
    /\ At(h, "deny")
    /\ denied' = IF redis /\ done
                 THEN [denied EXCEPT ![t] = DenyUntil(job[h].how, t)] ELSE denied
    /\ reached' = IF redis /\ done /\ job[h].how = "revoke" THEN reached \cup {t}
                  ELSE reached
    /\ loggedOut' = IF job[h].how = "logout" THEN loggedOut \cup {t} ELSE loggedOut
    /\ IF rest = {} THEN Done(h)
       ELSE Become(h, [Idle EXCEPT !.at = "row", !.how = job[h].how, !.todo = rest])
    /\ UNCHANGED <<users, wallets, tokens, redis, clock, orphans>>

\* The process stops, or a statement whose error is looked at returns one: the
\* call ends where it stands.
Abort(h) ==
  /\ ~At(h, "idle") /\ Done(h)
  /\ orphans' = IF At(h, "provision") THEN orphans \cup {job[h].user} ELSE orphans
  /\ UNCHANGED <<users, wallets, session, clock, reached, loggedOut>>

Account(h) ==
  \/ Boot(h)
  \/ Create(h)
  \/ Provision(h)
  \/ \E u \in Users : \/ Register(h, u)
                      \/ GithubCallback(h, u)
                      \/ GoogleCallback(h, u)
                      \/ WechatCallback(h, u)
                      \/ DeleteUser(h, u)
                      \/ \E r \in Roles : CreateUser(h, u, r) \/ SetRole(h, u, r)
                      \/ \E s \in Statuses : SetStatus(h, u, s)

Session(h) ==
  \/ BootstrapLogin(h)
  \/ \E u \in Users : Login(h, u)
  \/ Issue(h)
  \/ \E t \in Tokens : Authenticate(h, t) \/ RevokeSession(h, t)
  \/ Logout(h)
  \/ RevokeOthers(h)
  \/ RevokeRow(h)
  \/ Deny(h)

Next ==
  \/ Tick
  \/ \E h \in Handlers : Account(h) \/ Session(h) \/ Abort(h)

Spec == Init /\ [][Next]_vars

-----------------------------------------------------------------------------
\* However an account was made and whoever else was making it, it has one
\* wallet: the wallets table has no index that would refuse a second one, and
\* every balance is read from whichever row comes first.  An account without
\* one is being made, or its creation died before the wallet.
OneWalletEach ==
  \A u \in Users :
    /\ wallets[u] <= 1
    /\ Exists(u) /\ wallets[u] = 0 =>
         u \in orphans \/ \E h \in Handlers : At(h, "provision") /\ job[h].user = u

\* A session whose revocation from the list reached the store that is asked,
\* Redis where there is one and the row otherwise, is not let in again until it
\* expires by itself, whatever runs beside the revocation.  It takes an answer
\* of that store to keep it out: where the store fails, the call is let in
\* (auth.go:192, 196).  Nor does the answer to the revocation say that it reached
\* the store: both errors are ignored (sessions.go:194, 201).  With Redis a
\* logout of the same token may break it: its entry is shorter and replaces
\* the other.
RevokedStaysOut ==
  \A t \in reached : t \notin loggedOut \/ ~redis => ~Accepted(t, TRUE)

=============================================================================
