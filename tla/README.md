# Formal models of DeepTrols TokenHub

TokenHub is an AI gateway with prepaid billing: callers spend a wallet on calls
to upstream model providers, fill the wallet with payment orders, redemption
codes and check-ins, and may buy subscriptions from it. The modules in this
directory model the program from the API key at the door to the reconciliation
of the books: admission, routing, content policies, the hold on the wallet, the
stream to the client and its price, the ledger beneath, and everything that
fills, renews, configures or checks it beside the calls.

Run `tlc -config X.cfg X` for a model-checking run (`X` is `MCWallet`,
`MCGateway`, ...) and `tlapm M.tla` for the proofs (`M` ends in `Proofs`).
`PROJECT.json` lists the components, the runs, the hazards of the code, the map
from definitions to source lines, the theorems, and for every checked property a
mutant of the model (a plausible bug of the code) that violates it.

## 1. The system

Paths are relative to the repository; Go packages are under `internal/`.

| Component | State | Operations | Talks to |
|---|---|---|---|
| Wallet repository, `repository/wallet` | `wallets(balance, frozen, version)`, `wallet_transactions` unique in (wallet, idempotency key) | Reserve, TopUp, Transfer, Spend, Commit, Settle, Release | PostgreSQL transactions with row locks |
| Billing charger, `service/billing/charger.go` | none | Reserve, Commit, Settle, Release | wallet repository |
| Gateway handlers, `handler/gateway` | the goroutine of each request, its hold and its context | chat, streaming chat, Claude and Responses relays, forwarded endpoints, video jobs | router, charger, upstream provider, usage logger |
| Protocol conversion, `relayconvert`, `pkg/usageparser` | the converter of one stream | requests, streams and usage between Chat Completions, Messages and Responses | gateway handlers |
| Guardrails, `guardrails` | policies, items, bindings | LoadPolicies, Evaluate | chat handler |
| Router, affinity, load tracker, `service/gateway` | channels, instances; Redis in-flight counters and sticky channels | RouteCandidates, Acquire, Release, RecordAffinity | PostgreSQL, Redis |
| Rate limiter, minute bucket, `pkg/ratelimit`, `pkg/minutebucket` | Redis, PostgreSQL or in-memory counters per window | Allow; Reserve, Settle | gateway middleware |
| API keys and spend limits, `handler/console/apikeys.go`, `repository/apikey`, `handler/gateway/boundaries.go` | key rows; accumulated spend per key and period | create, update, secret, delete; limit check before a call, accumulation after it | gateway handlers |
| Usage log, `service/billing/logger.go`, `repository/usage` | usage logs, charge lines, provider evidence | Record, from a detached goroutine | reconciliation reads it |
| Pricing, `service/billing/pricer.go`, `handler/gateway/reserve.go`, `group_ratio.go` | price rows, volume tiers | the hold of a request, the cost of a usage | gateway handlers |
| Payment, `service/payment`, `repository/paymentorder` | `payment_orders(status, expires_at)` | CreateOrder, HandleNotify, AdminComplete, MarkPaid, MarkClosed, query intents | payment gateway, wallet, subscription service |
| Subscriptions, `service/subscription`, `worker/subscriptions` | `user_subscriptions(status, expires_at, auto_renew, quota_used)` | Activate, SetAutoRenew, ConsumeQuota; Renewer, Expirer | wallet, worker leases |
| Redemption, check-in, invitations, `handler/console` | codes, check-ins, inviters | redeem, check in, reward | wallet |
| Accounts and sessions, `handler/console/auth.go`, `oauth.go`, `users.go`, `sessions.go` | users, `auth_sessions`, Redis denylist | register, log in, revoke, ban | wallet (a row per user) |
| Tenants, `handler/console/tenants.go`, `app/bootstrap.go` | tenants, memberships | create with an owner, change status, delete; platform tenant at boot | accounts |
| Catalogue, `handler/console/models.go`, `channels.go`, `providers.go`, `response_cache` | models, channels, instances with their credentials, cached responses | create, update, delete, sync, purge | read by router and handlers |
| Worker, `cmd/worker`, `pkg/lease` | Redis lease keys | hourly and per-minute cycles | all workers |
| Health checker, `worker/health_checker` | `channels.health_score` | probe, write the score | router reads it |
| Billing sync, `billing_sync` | connectors with checkpoint and `last_synced_through`, imported bills | RunDue, Sync, three adapters | external billing APIs |
| Reconciliation, `worker/reconciliation` | runs and differences | hourly comparison of logs, lines, evidence and bills | usage log, billing sync |
| Payment scanner, metrics, settings, rankings, web front ends, tooling | configuration, counters | selection of candidates, reads, single statements | |

**How they interact.** A request is admitted by the middleware (key, limits,
bucket), judged by the guardrails if it is a chat call, routed to an ordered
list of channels, and its worst-case cost is frozen in the wallet before the
upstream call. After the call the hold is settled at the real cost, or released.
A settlement that is rejected falls back to committing the hold, with an
evidence code in the usage log. The log itself is written by a goroutine nobody
waits for; hours later the reconciler compares it with the bills the billing
sync has brought. A payment callback credits the wallet under the order number
and then marks the order paid. The renewer pays from the wallet under a key made
of the subscription and its expiry, activates a new period, and takes the old
one out of renewal. The console edits what all of this reads: keys, channels,
prices, policies, tenants.

**What is hard.** All of it runs concurrently, in several API and worker
processes. The wallet is protected by row locks in READ COMMITTED transactions;
everything above the wallet is a sequence of separate transactions, any of which
may fail, be cancelled by the client, or be the last before a crash. Retries are
recognised by idempotency keys only, and each layer has its own idea of what a
key identifies. Console operations write back whole rows they read earlier.
Worker cycles are kept apart by a lease that is neither renewed nor checked.
Counters in Redis live and expire on their own.

**What makes each part correct**, in one line each:

- wallet: the columns are what the ledger adds up to; nothing negative; a hold
  is finalised once; a replay moves nothing; no deadlock;
- gateway: nothing reaches an upstream without a hold; every hold is resolved;
  a call is charged once; what the usage log says is what the ledger did;
- stream: the client reads a well-formed answer or sees that it broke off, and
  the money agrees with what it saw;
- guardrails: what a policy forbids does not leave, whichever detector finds it;
- pricing: the hold covers the charge it was computed for;
- payment: a collected payment is delivered once, and never forgotten;
- subscriptions: a payment buys one period; consent is respected; a paid
  renewal survives a crash;
- redemption, check-in: one code credits one wallet, one day one reward;
- router: failover follows the configured tiers; a load counter looks lower than
  the calls in flight by no more than the calls whose count expired under them,
  and what a crash left behind does not keep an idle instance busy;
- API keys, limiter, bucket: the secret shown opens the key; windows, minutes
  and spend limits are overrun by no more than their design allows;
- accounts, tenants: one wallet per account; a session stays out once its
  revocation has reached the store that is asked; a tenant is made whole, with its
  owner, or not at all;
- catalogue: no model stays listed when its last channel is deleted, unless two
  requests cross, and after a purge that went through no response of a replaced
  credential is served;
- billing sync: no bill that was listed in time falls behind the mark, and all of
  these are stored in the end;
- reconciliation: every lasting flaw of the books is reported, and what is
  accused is a flaw, was unfinished, or is a free call without charge lines.

The hazards this gives rise to are listed with their lines in `PROJECT.json`.

## 2. The modules

```
Tally            finite sums of naturals          TallyProofs
  Wallet         the wallet and its ledger,       WalletProofs
                 one step per transaction
    Credits        what credits it beside orders, WalletProofs
                   and the connection pool
    WalletTxn      the same operations, one step  WalletTxnProofs
                   per SQL statement              (WalletTxn implements Wallet)
    Gateway        the hold lifecycle of          GatewayProofs
                   requests, over Wallet
    Payment        payment orders, over Wallet    SettlementProofs
    Subscriptions  periods, purchases and         WorkerProofs
                   renewals, over Wallet
  ApiKeys        one key: its console, limiter,   AdmissionProofs
                 minute bucket and spend limits
Guardrails, Pricing   operators: what the policies decide; holds and prices
Lists                 the filter of a list, for Guardrails and Routing
  StreamRelay    one streamed call, from its    GatewayProofs
                 judgement to its settlement
Routing          candidates, in-flight counters,  AdmissionProofs
                 failover, health checks
Accounts         accounts, their wallets,         ConsoleProofs
                 sessions
  Tenants        tenants and their owners,        ConsoleProofs
                 over Accounts
Catalog          models, channels, credentials   ConsoleProofs
                 and cached responses
BillingSync      one connector and its runs       WorkerProofs
Books            usage records, bills and        SettlementProofs
                 reconciliation runs
MC*              model-checking instances
```

Actions carry the names of the functions they translate, and handlers or workers
are processes whose program counter (`at`, `call[h].pc`, `job[h].at`, ...) says
which statement comes next. One SQL statement that commits by itself, one
transaction whose rows nobody else can see or write, one Redis command or script
is one step.

**Wallet** is the abstract specification of the repository: `balance`, `frozen`
and `ledger` are the columns of `wallets` and the rows of `wallet_transactions`;
`Reserve`, `TopUp`, `Transfer`, `Spend`, `Commit`, `Settle`, `Release` are the
committed transactions of the functions of those names. A call that fails or
replays commits nothing, so it is a stuttering step.

**WalletTxn** is what the repository does: sessions run the statements of a call
(`Lookup`, `LockRow`, `LockWallet`, `Write`) interleaved with those of others,
with a `Rollback` possible before every one of them. What a session writes is
invisible to others until COMMIT and its rows stay locked, so the statements
after the last lock are one step. `ImplementsWallet` says this refines Wallet.
The refinement mapping is the identity: the committed columns are the abstract
ones. Idempotency row, hold and wallet are read in different steps, so a check
that used a stale value would show up as a step Wallet does not allow.

**Credits** adds what credits a wallet besides orders: a redemption begins a
transaction, locks the code (`LockCode`) and keeps both while `CreditCode`
commits on another connection, then marks the code used (`CommitCode`); a
check-in credits and is noted afterwards (`Reward`, `NoteCheckIn`); registration
pays the invited user, then the inviter. `BeginRecord`, `WriteRecord` and
`EndRecord` are `Logger.Record`, which also holds a connection and waits for a
second. `pool` counts the free connections. The wallet actions of Wallet remain
possible beside all of it in behaviours of their own (`kind = Plain`).

**Gateway** composes any number of requests of one account with Wallet. `at` is
the place of a handler; `slot` names the wallet key it uses, because several
handlers derive one key per candidate (`id`, `id-a1`, ..., `id-usage`) and
requests with the same `X-Request-ID` share them. The modes are the handlers:
chat (fails over, releases between candidates, charges the usage of failed
calls), streams, Claude and Responses relays, forwarded JSON endpoints, raw
audio (charged by its own estimate) and video, whose hold is handed to a job row
(`job`) that only its cancellation ends. `gone` and `detached` are the
cancellation of the request context and the contexts of their own that some
calls use; `report` is what the usage log says; `allowance` is the free-token
quota of the caller's subscription, read before a settlement and taken after it;
`Lapse` ends its period, and the next use of it begins another (`Remaining`).
The final cost of a call is any amount, since StreamRelay and Pricing decide it;
the hold is any amount fixed per call identifier, since a retry repeats the
body. A wallet call is one step; its failure before taking effect (`db`), and
after taking effect (`ack`), are outcomes of that step.

**StreamRelay** is one streamed call seen whole: `Judge` applies Guardrails (or
fails, when the policies cannot be loaded),
`ConvertRequest` translates the body for the upstream and may refuse it,
`ReserveMaximum` freezes the hold Pricing computes, then chunk after chunk passes the
converter (`ClaudeStreamState`, `ResponsesStreamState`, or none) until the
upstream finishes, breaks off, or the client leaves, and the call is settled by
the last usage, by an estimate, at zero when the pricer fails, or released
(`DataLine`, `Interrupt`, `Leave`, `Complete`). What is no JSON (`RawLine`) or
not marked as data (`BareLine`) is sent past the converter. The client is an
automaton that reads the events and records what a client library would reject. **Guardrails**
has `Loaded` (how `LoadPolicies` builds its slice), `Applicable`, `AllMatches`,
`Masked` and `Evaluate` with its budgets; **Pricing** has the choice of price
rows by period, tenant and size, the volume ratio, `Parsed` usage, estimates and
holds. A text is a sequence of letters, and a matcher a word.

**Routing** has the order of candidates as operators (`Listed`, `OrderGroup`,
`OrderChannels`, `ApplyAffinity`, `Cut`, the instance `Best` for a channel) and
as actions what surrounds them: arrival (`Route`, `Deny`), the counter in Redis,
raised by one command (`Acquire`) and given its lifetime by another (`Renew`,
`PExpire`), renewed by a heartbeat (`Beat`), lowered at the end (`Uncount`) and
expiring whenever its key has a lifetime (`Lapse`), failover from one candidate to
the next (`Failed`), the crash of a process, a caller that comes again (`Return`),
channels whose upstream stops answering, and the health checker's cycles
(`ReadScore`, `Probe`, `WriteScore`). `expired` is a history variable: how many
calls in flight had their count expire under them.

**ApiKeys** follows one key. `Create`, `Read` and `Save` are the console
operations, which write back the copy they read (`admin[h].copy`); a call goes
through `Authenticate`, `RateLimit`, `Reserve`, `CheckSpend`, the upstream,
`Settle` and `RecordSpend`; the limiter has a Redis and a memory
store, the buckets a Redis and a PostgreSQL variant, with their failures.

**Accounts** has every path that makes an account (registration, OAuth, WeChat,
administrator, boot) as look-up, insertion and wallet, log-in, log-out,
revocation, change of status, and authentication with and without Redis. The two
writes of a revocation may fail and the handler goes on (`RevokeRow`, `Deny`), and
a store that does not answer lets a token in (`Accepted`); `reached` is a history
variable, the tokens whose revocation arrived in the store that is asked.
**Tenants** adds the tenants, whose creation makes an account inside one
transaction, and the platform tenant made at boot. **Catalog** has the console
operations on models, channels and providers at statement grain, the deletion of
a provider as one transaction that overlaps others, and gateway calls that read a
credential and leave a response in the cache. Its history variables name what the
properties except: models an operation left listed without a channel
(`unbacked`), models two requests left so by crossing (`crossed`), and replaced
credentials no purge has gone through for (`unpurged`). **BillingSync** has bills
that are listed at their start or some time after it, the page loop of `Sync` with
`SaveBillingPage` bill by bill, checkpoint and end of run, `RunDue` under its
lease, and the paging of the three adapters; `late` are the bills listed after the
range over their start was taken (`Taken`). **Books** has the three inserts of
a usage record, bills as they arrive, and the reconciler's queries one by one.

**Payment** composes orders, the handlers serving callbacks and administrators,
the payment gateway and the clock with Wallet. A handler remembers what it read
(`job`) and goes through `check`, `credit`, `mark`; a refused amount (`Refuse`)
and an expired order (`CloseExpired`) end it as the code does, and `Abandon` may
end it before any statement: it stands for a failed statement and for a crash.
`collected` may differ from the price of the order.

**Subscriptions** composes purchases, worker processes with their lease, the
expirer, the user's choice and the clock with Wallet. `ReadBase` and `Insert`
are the two statements of an activation. `paid` in a row is a history variable:
the key of the payment it was activated for.

## 3. What the runs show

Each run is the configuration of the MC module of that name.

| Run | Instance | Checks |
|---|---|---|
| `wallet` | 2 wallets, 3 keys, amounts 1..2, 3 handlers, pools of 3 and 4 connections | LedgerExplainsColumns, MeteredNeverNegative, FinalRowsNeverChange, CreditsAreEarned, SomeCallMoves |
| `wallet_txn` | 2 wallets, 2 keys, 2 sessions, all seven calls | NoWaitCycle, AcknowledgedAmount, ImplementsWallet |
| `gateway` | 2 requests over 2 identifiers, 2 candidates, five settings of handlers, faults and allowance, whose period ends at any time; fair | UpstreamIsHeld, AnomaliesHaveEvidence, ReportsMatchLedger, AllowanceIsSpentOnce, HoldsAreResolved |
| `payment` | one order of either kind, 2 handlers, prices and payments 1..2; fair | PaidMeansCredited, NoMoneyFromNothing, AcknowledgedMeansSettled, PaymentsAreDelivered |
| `subscriptions` | 2 workers with every fault; 2 workers and 2 purchases without; fair | PeriodsArePaidOnce, PaymentsBuyOnePeriod, RenewalsRecover |
| `accounts` | 2 accounts, 2 tokens, 2 handlers, 2 tenants, failing stores; a behaviour follows accounts, sessions or tenants | OneWalletEach, RevokedStaysOut, TenantsAreOwned |
| `catalog` | 1 model (the placeholder of its provider), 2 channels, 2 keys, 2 instances, 2 handlers whose operations overlap in every way, failing statements and crashes; a behaviour follows the listing or the responses | NoUnroutableModels, PurgeLeavesNoOldResponse |
| `apikeys` | 2 calls at a time, 2 administrators, 3 secrets; five settings | SecretOpensTheKey, WindowBound, BucketsHold, OvershootIsBounded |
| `routing` | 3 requests, or 2 that keep coming; 3 channels in 216 configurations, 2 instances, 2 workers; fair | FailoverFollowsTiers, LoadCoversCalls, FaultsWearOff |
| `billing_sync` | 3 bills, two of one instant, listed at their start or an instant later; three adapters, 2 overlapping workers or up to 2 faults; fair | NoGap, CatchesUp |
| `relay` | streams of up to 4 lines, among them such as no converter reads; chats of up to 2 messages, price tables, conversions | AnswerArrivesWhole, MoneyFollowsTheEnd, GuardrailsHold, HoldCoversCharge |
| `books` | 2 calls, 2 bills, 2 workers, periods of one instant | FlawsAreReported, AlarmsAreWarranted |

What the properties say is in the comment before each. `LedgerExplainsColumns`
is the conjunction of `FrozenIsOpenHolds` and `BalanceIsLedgerNet`.

**Bounds.** Two keys per wallet are enough for one to be an open hold while
another is credited, charged or replayed. Amounts of 1 and 2 distinguish "below
the hold", "exactly", "above" and "not covered". Two sessions show every race
between two calls and, with transfers both ways, the cycle of two waiting for
each other; since all sessions lock at most two wallets and in one order, a
longer cycle would need a different order somewhere, which two sessions already
show. Two requests with one identifier are a retry, with two identifiers two
calls competing for the same money; two candidates distinguish the first, a later
and the last attempt. Orders share nothing but the wallet, which they only credit
under keys of their own, so one order is enough, and two handlers are two
overlapping callbacks, or a callback and an administrator. `MaxActivations = 2`
counts "once" and "more than once". Four steps of half a day are a plan of two
days renewed from its second day on: the clock crosses the renewal window and a
day. A pool of as many connections as handlers, and of one more, are the two
sides of the boundary `SomeCallMoves` is about. Two administrators hold two
stale copies of one key, and three secrets let each of them issue one more. A
window of two instants out of three lets calls straddle its end; a month of one
day separates its rollover from that of the cumulative sum. Three channels are
the fewest where a tier has two members and another follows; every combination
of kinds is an initial state, with every rotation. Three bills, pages of one and
ranges of two windows give pages before, at and after a checkpoint, and two
bills of one instant a page boundary between them. Four chunks open, close and
reopen a block of another kind. Texts of up to five letters reach overlapping
matches and each budget. Where a run follows several settings (a constant
`Settings`, or the variable `setting`), each is the smallest that contains the
actors whose race it is about; a setting says which faults it excludes.
Two variables divide the behaviours of a run by which operations run together.
In `accounts` (`scene`) the scene of sessions has log-ins, log-outs, revocations
and changes of status, those of accounts and tenants every way of making them;
where nothing is revoked there is one token and no time. In `catalog` (`focus`)
the one of responses has gateway calls and what changes the credentials and
channels they use, that of the listing everything that touches models and
channels. One model suffices for what two requests can do to one listing, which
is what the property relates; two channels are the last and the one before. A
delay of one instant puts bills before and after the taking of their range; the
profiles with a delay have one worker and one fault, or two workers and none.
With `Return` two requests come again and again, so that calls may overlap
without end. Symmetry is used for what no definition tells apart, and never
together with liveness.

**Fairness.** `gateway`: every handler keeps running (the Go scheduler), every
upstream call returns (the HTTP client has a timeout) and every database call
returns; clients need not come, and liveness is claimed without faults only.
`payment`: the payment gateway repeats a callback until it gets `success`, which
is what the answer `fail` asks of it, and a handler that is started again and
again gets through eventually (strong fairness of each step); gateways do give
up after some days, so the result is about those days. Nothing makes an
administrator act or the user pay. `subscriptions`: tickers keep starting
cycles, leases expire by their time to live, and what is tried in cycle after
cycle does not fail or crash every time (strong fairness of the successful
outcome of each step). There the clock stays before the expiry and the balance
covers the price once more: outside of that the code makes no such promise (see
below). `routing`: requests that were not killed go on, the heartbeat of a
counted call and the lifetime of a Redis key are timers, and the worker's cycles
follow each other. The heartbeat is taken to be on time: it comes twice in a
lifetime, so a key does not expire while the last PEXPIRE of a call went through.
A caller need not come again. `billing_sync`: the ticker of some process keeps firing
(strong fairness of `RunDue`, since the lease may be taken in between), and its
statements return once the faults of the setting are used up.

### Where code and its own words differ

The models contain the following behaviour; where a property would be violated
by it, its statement or the setting of its run excludes it by name.

*Wallet and gateway*

- `Spend` compares with the balance, not with what is available, so a
  subscription bought during an open hold makes the available amount negative
  (`repository/wallet/postgres.go:430`; `invariants_p0503_test.go:11` says it
  never is). `MeteredNeverNegative` therefore ends with a wallet's first
  purchase.
- `handler/console/wallet.go:65-71` sums charge rows as "negative" amounts, but
  `Commit` and `Settle` store positive ones: the total consumption shown has the
  wrong sign.
- A transfer under a key a top-up of the same amount used is acknowledged and
  moves nothing (`postgres.go:262-268`), which is why `AcknowledgedAmount`
  speaks of transfer rows only.
- A retry of a charged chat call whose first candidate fails is charged again
  under the next candidate's key (`chat.go:470`, against
  `handler/gateway` invariant "no double charge"). A retry that reuses the hold
  released by a failed first attempt is served as a replay for nothing, without
  evidence (`settle_fallback.go:107`): `AnomaliesHaveEvidence` leaves out calls
  that share an identifier.
- A disconnect between the check of the request context and the release that
  uses it leaves the hold frozen (`chat.go:897-902`), and so does any failure of
  a stream before its first chunk when the client is gone (`chat.go:674`,
  `:686`). Before a non-streaming settlement it makes both wallet calls fail and
  the hold is reported as charged (`settle_fallback.go:113`).
- Failed relay and video calls leave no usage log, though
  `endpoints.go:703-705` says no request may vanish from the evidence. Relays
  settle at zero when the upstream reports no usage (`chat.go:438` says never),
  and relays and video do not enforce the boundaries of a key.
- Nothing finishes a processing video job: its hold stays until the user
  cancels, which the upstream is not told.
- Candidates are filtered by the group of the key for some endpoints only
  (`router.go:33-36`).

*Streams, prices, guardrails*

- `ClaudeToOpenAIRequest` drops the results of tools, though `reverse.go:5-7`
  says they become tool messages, assistant messages that are plain strings, and
  pictures and documents. The arguments of tool calls are not counted in the
  estimate (`responses.go:117-121`).
- After the open blocks are closed, fragments of a tool call open a block
  without a name; a tool block does not close text or thinking; the Responses
  converter repeats `response.created` for every chunk while the upstream sends
  no id; an empty stream ends without a start; and an upstream line that is no
  JSON, or not marked as data, goes to Claude and Responses clients unconverted,
  even after the end of their stream (`claude_relay.go:153-157`,
  `responses_via_chat.go:82-84`, `chat.go:737-739`). `AnswerArrivesWhole` names
  these exceptions.
- An interrupted stream whose converter had already sent the terminal events is
  released for free. Usage is read from the last data line only.
- An estimated settlement assumes 256 tokens of output even when the caller
  declared fewer, and exceeds the hold; so do cached tokens with a row of their
  own, decreasing tiers, a reported total beyond prompt and output (which chooses
  the tier), and a price period that changes in between: the premises of
  `HoldCoversCharge`. So is a declared output below 2^63: `reserve.go:105-109`
  converts a float64, which beyond that gives a negative number on amd64 (and the
  largest one on arm64), passes the cap at `:90` and is not priced, against
  `:54-57`. When the pricer fails after a stream, the call is settled for nothing
  (`chat.go:799-812`). `volumeRatio` takes the last tier reached,
  though its comment says the best.
- `LoadPolicies` keeps pointers into a slice that grows
  (`guardrails/persistence/pgx.go:49`): some of several policies are returned
  without items, though `:16-18` says every policy is returned. `GuardrailsHold`
  is therefore about policies as loaded. Replacements of masking items are not
  applied to what goes upstream; guardrails judge the chat endpoint only; the
  application wires no model detector (`app.go:146`).

*Payments and subscriptions*

- Two callbacks of a subscription order activate the plan twice
  (`service/payment/service.go:501`, against `:387-388`): `NoMoneyFromNothing`
  is about the wallet. A callback that read an order before its expiry credits
  it after another closed it; a closed subscription order can be completed by an
  administrator repeatedly.
- Opting in again after a renewal makes the renewed period due again: the
  payment is replayed and a further period is free
  (`service/subscription/service.go:92`, against `renewer.go:90-91`). Concurrent
  purchases read the same latest expiry and buy the same period twice (`:67`);
  opting out between the renewer's query and its insertion is overwritten. A
  renewal whose cycle crashed after paying is skipped while the balance does not
  cover the price a second time.

*Credits, keys, accounts, catalogue*

- A credit commits although the redemption around it rolls back, so the code can
  pay a second wallet; with as many redemptions and usage records as pooled
  connections all of them wait until clients leave. A check-in repeated after
  its note was lost answers with a newly drawn amount, though the key decides.
- The weekly spend limit is never enforced: the start of a week keeps the time
  of day (`boundaries.go:191`), so a sum is never found again
  (`OvershootIsBounded` is about the other two). A monthly limit once reached
  refuses the key for good. New RPM and TPM limits of an update are answered
  "updated" and not stored. A revoked key can be revived by a racing update
  (`apikeys.go:457`).
- Refunds of a bucket go to the minute of the answer; the PostgreSQL bucket
  loses a positive correction when that minute has no row.
- A revocation ignores the errors of both its writes and answers ok
  (`sessions.go:194`, `:201`), and authentication lets a token in when the store
  it asks does not answer (`auth.go:192`, `:196`): `RevokedStaysOut` is about
  revocations that reached that store, and holds while it answers. A logout's
  entry in the denylist lasts five minutes and replaces the longer one of a
  revocation: tokens that were logged out are excepted. A stale update can revive
  a terminated tenant.
- Changing address and key of a provider in one request loses key, headers and
  format (`providers.go:875-899`); two concurrent deletions, one of a provider, each see
  the other's channel and leave the model listed, though the statement is there
  so that this does not happen (`providers.go:1042-1043`); so does the deletion
  of a new channel before the model is switched on for it (`channels.go:316`):
  `NoUnroutableModels` calls both `crossed`. A purge that fails is logged and the
  change answered 200 (`providers.go:961`), so old responses stay until a later
  purge or their expiry (`unpurged`). Switching channels or providers off never
  touches their models; a second credential is answered as saved but not stored
  while a placeholder exists (`providers.go:383`).

*Routing, billing sync, books*

- "Dedicated first" (`channel/postgres.go:33-34`) is undone by `orderChannels`;
  affinity is recorded before the group filter and before success; scores of 30
  to 69 are "still routable" by `checker.go:77` and refused below 50.
- The counter of an instance is raised by one command and given its lifetime by
  the next (`loadtracker.go:87`, `:92`). A key left over by a crash may expire
  between the two, or after a failed second one, and take the count of a call in
  flight with it (`LoadCoversCalls` counts these as `expired`). A process that
  stops between the two leaves a count that never expires, and where calls
  overlap each of them renews the key and keeps alive what a crash left behind
  (`:92`, `:130`); `:90-91` speaks of the first only as outliving a crash.
  `FaultsWearOff` is about instances that have no calls and keys with a lifetime.
- A bill that is listed after the range over its start was taken is not fetched
  again: the next range begins where that one ended (`billing_sync/service.go:241`)
  and the adapters drop what starts before it (`aliyun.go:108`). `NoGap` and
  `CatchesUp` are about bills listed in time, the others are `late`.
- A connector whose overlapping runs keep handing a checkpoint to each other
  need not get on; a malformed bill blocks its page for ever; a first
  synchronisation that fails for more than a day loses the bills before it;
  raising the page size makes a resumed page skip bills.
- `logger.go:84` says the three writes are one transaction; they are three. A
  reconciliation query that fails is taken as "nothing found" and its run ends
  as completed and balanced. Logs inserted late, cycles later than an hour and
  more than 100 differences leave gaps against the 100 % coverage of the product
  document; an upstream bill logged in the next hour is reported as one without
  usage. A completed call that had no lines to write, a cache hit or one priced at
  zero, is accused of missing its charge lines (`reconciler.go:567`), which
  `AlarmsAreWarranted` excepts; nor is a bill missed for a call without the id its
  upstream gave it, which streamed calls do not record. The diagnoses `usage_mismatch` and `error_mislabel` cannot occur.


## 4. What is proved

`tlapm` checks every theorem to its last leaf, for every value of the constants
that satisfies the named assumptions of the modules: any number of wallets,
keys, sessions, requests, candidates, orders, handlers, workers, accounts,
tenants and calls, and any amounts. The assumptions say what the constants
are: that ids are distinct from the marks the code keeps apart from them, that a
price, a size of a page or a duration is positive where the code divides by it or
refuses zero, that no price row of a relayed call is negative (which only those
who enter prices see to), and that what is counted, summed or sorted (requests, sessions, handlers,
tickets, channels) is finite in any one behaviour. TLC evaluates each of them in the run
of the module that declares it.

Every theorem is `Spec => []P`, `Spec => [][A]_vars` or an implication between
specifications. The argument is the usual one: an inductive invariant that is
checked by TLC before it is proved, one step per action, and the theorem as a
consequence.

**TallyProofs.** `Total(f, cap)` is the sum of a function into the naturals below a cap,
written as the number of its units, so that it needs no recursion. The lemmas
give its arithmetic: a change of one entry changes the sum by the difference,
zeros have sum zero, a larger function has the larger sum, a sum splits off a
member. All sums of the wallet, of the gateway, of the buckets and of the spend
limits rest on them. `Summed` turns a sum over any finite set into one over the
numbers up to some bound; the bound is found as a least element.

**WalletProofs**, from `WalletsAssumption`, `KeysAssumption`,
`MaxAmountAssumption` and `CreditsAssumption`. `LedgerExplainsWallet`: the two
columns are at every moment what the rows of the ledger add up to.
`RowsAreFinal`: a row that is not an open hold never changes again.
`MeteredWalletsNeverNegative`: nothing goes below zero before the first purchase
of a subscription. `TypeCorrect` alone is not inductive for the columns, since a
column may fall when a hold is finalised; the invariant that carries it is the
ledger equation. For Credits, `CreditsUseTheWallet` is a refinement: each
statement of a redemption, check-in or reward is an operation of Wallet or leaves
it alone. `CreditsWereEarned` needs to know of each call between its statements
what it holds and what it has paid (`LockHeld`, `CodePays`, `NotedArePaid`,
`InvitersFollow`). `ConnectionsSuffice` counts the connections out (`PoolCounts`)
and concludes that with one more connection than calls some call has both.

**WalletTxnProofs** proves that the statements implement the wallet
(`StatementsImplementWallet`): every step of a session is an operation of Wallet
or a stuttering step. What is needed is that the rows a session has read are
still as it read them when it writes: it owns the wallets it has locked
(`WalletsOwned`), the hold it looked at is still open (`HoldsOwned`), and no
other session writes what is owned (`OtherRowsKept`). `ReadsStayCurrent` and
`HoldsStayOpenUntilWritten` state this by itself. `AcknowledgedTransfersMoved`
follows since rows become final (`RowsBecomeFinal`). `SessionsNeverDeadlock`
takes a circle of waiting sessions and the highest wallet anybody in it waits
for: its owner waits for one that is higher still, because locks are taken in
ascending order.

**SettlementProofs** covers Payment and Books. For Payment, from
`OrdersAssumption`, `MaxPriceAssumption` and `MaxActivationsAssumption`:
`PaidStaysPaid`, `PaidOrdersAreDelivered` and
`AcknowledgedOrdersAreSettled` follow from what each handler may believe of the
order at each of its statements (`HandlersJustified`), what the row of an order
means (`RowsJustified`), that a callback speaks of money that was collected
(`CallbacksCollected`), and what an answer of success meant when it was given
(`AnswersFollow`). `NothingFromNothing` bounds the balance by the rows and each
row by what was collected for its order.

For Books, from `BooksAssumption`: `FlawsAreFound` and `AlarmsAreTrue`. The
invariant says in which order the three rows of a call appear (`CallsOK`), that
a cycle is one of the runs and no two workers write the same one (`CyclesOK`),
and what a run saw when it began is still there (`PastsOK`), because rows are
only added (`BooksGrow`). A run owes a report for every flaw that was there at
its beginning; what it owes and has already asked for is in its findings or
among the written reports (`ReportsOK`). Two lemmas carry the steps: a debt can
only shrink while the books grow (`OwedShrinks`), and each query finds what is
owed of its kind (`OwedIsFound`). The other direction is that what a query finds
is a flaw (`FoundIsWarranted`), and stays one for as long as the run may speak
of it (`WarrantedStays`, `AlarmsOK`).

**GatewayProofs**, from the assumptions of Gateway. A call is resolved by its own
request while other requests of the account, even under the same identifier, move
the same wallet. The invariant says of each request what stands in the ledger
for it, where it is in its course (`Standing`), that the keys of candidates
still ahead are unused (`AheadIsFresh`), that what it believes frozen is an open
hold (`HoldIsOpen`) and what it has charged is its cost (`ChargeIsCost`) — each
relative to `Alone(r)`, the condition that no other request shares its
identifier. What the allowance waives is counted from the start of its period. Steps are then of two sorts: of the request itself, and of others,
which keep all of it (`OthersKept`). From this follow `CallsAreHeld`,
`AnomaliesAreReported` and `AllowanceNeverOverspent`. `BooksAgree` sums over the
requests that share an identifier, so its invariant (`Orderly`, `Booked`)
compares the sum of the reports with the charges of the identifier.

The same module has the relay of streams, from `ChunksAssumption`,
`RelayCallsAssumption` and `HoldAssumption`. A converter's run over a chunk and a
client's reading of the events are folds; the prover has no induction over
sequences, so each fold is turned into the list of its intermediate results
(`FoldRuns`), about which `EveryNatural` proves what one step at a time keeps.
`RelayKeepsTheAnswer` and `RelaySettlesTheEnd` share the invariant `RelayInv`:
next to the client there is one that has read everything so far, and a client
that has not left is that one (`ClientFollows`); its blocks are the converter's,
the open ones those the converter means to close, the latest that of the last
content (`Agree`, `Latest`); and converter, client and upstream agree on what is
over (`ConverterFollows`, `EndsAgree`). `WritingReady`, `WritingCloses`,
`WritingDelta` and `WritingEnds` carry a client through the events of one part
of a chunk. `RelayChargesWithinHold` needs less: the hold is the one computed
from what was sent, the charge the one computed from what came back (`HoldInv`);
the cost of a usage of two dimensions is what each adds (`CostOfUsage`), and what
a dimension adds rises with its tokens and its price (`AddedRises`).

`RelayKeepsItsPolicies` is about what nested scans of texts return, from
`BudgetsAssumption` and `PoliciesAssumption`: policies are as `NormalizePolicy`
leaves them (only sensitive data is masked, no keyword is empty) and no letter of
a text or a keyword is the mark that replaces what is masked. Nothing in the
repository but tests calls `NormalizePolicy` or `SavePolicy`, so the first is a
demand on whoever writes these tables. A scan is a fold again:
`MatchesFound` says that a scan from left to right takes occurrences only and that
every occurrence begins inside one it has taken; `Masking` relates a
masked text to its source by the strictly rising positions its letters come from, a
mark standing for a run of covered ones. From that relation a word found in the
masked text stands unbroken in the source (`HitInMasked`), no two marks touch
(`MarksDoNotTouch`), and as many letters outside the masked words are left as there
were (`SameOthers`). `Judging` is `Evaluate` read as a sequence of early returns;
a request that is let through had no finding of a blocking item and no exhausted
budget (`JudgedLetsThrough`), and what a detector is shown is masked wherever a
masked word was (`JudgedSeesMasked`). The invariant, `GuardInv`, says that
no OpenAI call is past its judgement without the verdict of `Evaluate` on it, one
that lets it through; only `Judge` makes a verdict, and no chunk changes it.

**AdmissionProofs** covers Routing and ApiKeys. In `CountersCoverCalls` a
counter may be higher than the calls in flight, after crashes; what it may be
lower by are the calls whose count expired under them, a history no action lets
exceed the calls in flight. The invariant needs that a request is
counted once, and only while it holds a count (`NotYetCounted`, `CountersOK`). `FailoverGoesTierByTier` follows the list of a request
through the router: the order of the database and that of a tier are stable sorts
by strict weak orders, and such a sort is a permutation without an inversion
(`SortedPermutes`: what sorts before an element is finite, so its number is its
position); a rotation, a sticky channel in front and the concatenation of the
tiers lose no list its distinctness (`RotatedRow`, `MovedRow`, `RowsJoin`); the
concatenation is followed tier by tier (`ChannelsInOrder`), the remembered channel
changes the first place only (`AffinityInOrder`), and what is cut, filtered or
tried already leaves a part of the list in its order (`PartTriable`).

For one API key, from `ClockAssumption`, `SecretsAssumption` and
`CallsAssumption`: `ShownSecretsOpenTheKey` needs what the row holds and what
each stale copy of an administrator holds (`KeyOK`, `CopyOK`).
`WindowsNeverPassTwice` describes a limiter from its store alone (`StoreOK`): the
current window was opened by a call that passed, no more passed since than its
count and the rate, fewer than the rate passed in the window's length before it
opened, and nothing after the last tick (`LastTick`, `Rested`).
`BucketsNeverOverflow` is that what was granted in a minute equals the bucket's
column, and the tokens of the calls still to be settled are part of it
(`BucketsOK`). `LimitsBoundTheSpend` divides the spend into what was recorded
(`Accounted`) and what each call in flight may still add (`Bearable`, `CallsOK`).

**ConsoleProofs** covers Accounts and Tenants together, for every mode a
behaviour may run in. `AccountsHaveOneWallet` needs that at most one call is
between making an account and making its wallet (`OneMaker`), `RevocationsLast`
what each store holds of a token whose revocation has reached it: a revoked row
without Redis, an entry that outlives the token with it (`Revoking`, `KeptOut`), `TenantsKeepTheirOwners` what the transaction that
makes a tenant has made so far (`WorkOK`, `OwnerKept`, `MadeWithTenant`).

For Catalog: `NoOldResponses` follows since a credential that was replaced and
purged is in no call's hands but those the purge marked, and no entry made with it
is in the cache, whichever statement the replacement has reached.
`ListedModelsAreServed` is proved for every overlap of deletions, creations,
switches and failures: a listed model has a channel no transaction is removing
(`Standing`), or a transaction holds the last one it has and takes the model off
the list when it commits (`Leaving`), or an operation on it is
between its channel and its row (`Interrupted`), or the history names it
(`unbacked`, `crossed`). That transactions cannot hold instances of one channel
(`Apart`), by the row locks, is what keeps a second one from taking the channel
the first counts on.

**WorkerProofs**. The key of a renewal names a subscription and its
expiry, so the invariant has to tie keys to rows: rows are filled in order and
none ends later than one duration after its predecessors (`RowsInOrder`), the
key of a renewal names a row that exists with the expiry it will keep
(`KeysOK`), and a row was paid for with its price under the key it remembers
(`RowsPaid`). `OnePeriodPerPayment` is stated for behaviours without faults and
without opting in again, as the property is: there one worker at a time runs a
cycle (`OneCycle`) and a subscription leaves renewal before the next cycle lists
it (`RenewedOnce`).

For the billing synchronisation, `NoBillFallsBehind`: what was listed before the
range of a run is stored (`Anchored`); of the range, the bills before the cursor
are stored, or the run has given them up with an error (`Covered`); after the
last page all are, since a page shorter than its size is the last
(`LastPage`, by counting); and the checkpoint says no more than that of the run
that wrote it. All of this is about the bills listed in time (`Prompt`). A bill
may appear at any time after its start, and as long as no range over that start
has been taken it changes nothing the invariant speaks of; after that it is late,
and a late bill can only move the prompt ones of its listing to later pages.

**Only model-checked.** Liveness (`HoldsAreResolved`, `PaymentsAreDelivered`,
`RenewalsRecover`, `FaultsWearOff`, `CatchesUp`): the prover has no rules for
fairness and ENABLED here. Every other property of the runs is a theorem.

## 5. What is not modelled

*Within the modelled components.* Look-ups and listings that change nothing; the
creation of rows nobody contends for (plans, policies, price rows, connectors);
validation of input beyond the conditions a state change depends on.
Money is a natural number of the smallest unit: the decimal arithmetic of
`decimal.Decimal` is exact, and where the code rounds, Pricing rounds. Matchers
of guardrails and data types are words, since what the properties need of a
regular expression is where it matches. Of the dimensions of a price row, input,
output and the cached tokens are modelled, not those counted in units (images,
seconds of audio). The adapters of vendors are the three protocols they speak;
signatures of callbacks are accepted or refused, not computed. A policy item whose
configuration cannot be read is one without words (`pgx.go:86`), and a regular
expression that does not compile is not modelled. Bills are imported once: a
vendor that revises one is not modelled. During one call the plan of its caller
stays the same one, though its period may end. Redis may fail to answer, and its
keys expire, but it does not lose data. Beyond the numbers `int64` holds the
model says which way a declared output goes, and leaves the rounding of a float64
near that bound out.

*Premises of properties.* `BucketsHold` speaks of calls whose correction was
written: one that failed leaves the minute with its estimate. A redemption whose
credit committed and whose code was rolled back is described above and not
refuted by a property, nor is the retry of a transfer to another destination under
one key (`AcknowledgedAmount` compares amounts).

*Faults no property speaks of.* When the API process stops while a call is at
its upstream, the hold of that call stays: nothing in the code sweeps it, so there
is no recovery to check (`handler/gateway/chat.go:357`). A video job whose row
cannot be written leaves its hold in the same way (`video.go:174`). Two
activations that read the same latest expiry insert one period twice
(`service/subscription/service.go:67`); the models let it happen and
`NoMoneyFromNothing` and `PeriodsArePaidOnce` are stated so that they do not
deny it.

*Components left out.* The payment scanner is a selection of expired orders, and
what it does with each is in Payment. Metrics, configuration, wiring and the
small libraries keep counters and constants. Rankings and settings are reads and
single-statement writes. The remaining console handlers (announcements,
feedback, statistics, profile pages) change one row each. The web front ends,
the operations scripts and the load generator are not part of the service.
