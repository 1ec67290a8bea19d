------------------------------- MODULE Routing -------------------------------
(***************************************************************************)
(* From a model name to an upstream instance: the router                   *)
(* (internal/service/gateway/router.go, affinity.go), the in-flight        *)
(* counters in Redis (loadtracker.go), the failover loops of the handlers  *)
(* and the health checker of the worker                                    *)
(* (internal/worker/health_checker/checker.go).                            *)
(*                                                                         *)
(* All requests are of one caller for one model.  A candidate is a channel *)
(* with the instance chosen for it.  The wallet, which a request asks      *)
(* between the counter and the upstream call, only accepts or refuses      *)
(* here; module Gateway says what it does.                                 *)
(***************************************************************************)
EXTENDS Lists, Integers, FiniteSets, FiniteSetsExt, SequencesExt

CONSTANTS Requests,   \* handler goroutines, numbered as they arrive
          Channels,   \* channels of the model
          Instances,  \* their instances, numbered as ListInstances returns them
          Workers,    \* worker processes that check health
          Nobody,     \* no channel is remembered
          Settings    \* bound: the channels and faults in play, see SettingsAssumption

\* "crash":     a gateway process stops with a call in flight
\* "redis":     a Redis command fails, or is sent when the client is gone: the
\*              counters are raised under the context of the request
\* "db":        a statement of the health checker fails
\* "outage":    an upstream stops answering, and answers again
\* "slow":      a health cycle outlives its lease
Faults == {"crash", "redis", "db", "outage", "slow"}
Modes  == {"chat", "stream", "multipart", "json"}

\* What an administrator configured of a channel; score stands for
\* weight / (max_concurrency + 1).
Config == [tier : Int, weight : Int, score : Int, sticky : BOOLEAN,
           quality : BOOLEAN, dedicated : BOOLEAN, group : BOOLEAN,
           of : SUBSET Instances]

\* A setting: faults, modes of the calls, hashes of their routing keys,
\* the requests and workers that act, whether requests come again and again,
\* the channels with their configuration, and the concurrency limits of the
\* instances, 0 for none.
ASSUME SettingsAssumption == \A s \in Settings :
  /\ s.faults \subseteq Faults /\ s.modes \subseteq Modes /\ s.hashes \subseteq Nat
  /\ s.requests \subseteq Requests /\ s.workers \subseteq Workers /\ s.again \in BOOLEAN
  /\ DOMAIN s.config \subseteq Channels
  /\ \A c \in DOMAIN s.config : s.config[c] \in Config
  /\ s.limit \in [Instances -> Nat]
ASSUME NumbersAssumption == Requests \subseteq Nat /\ Instances \subseteq Nat
ASSUME RequestsAssumption == IsFiniteSet(Requests)
ASSUME ChannelsAssumption == IsFiniteSet(Channels)

VARIABLES setting,   \* the setting of this behaviour
          active,    \* channels.status = 'active'
          health,    \* channels.health_score
          up,        \* the upstream of the channel answers
          load,      \* ai:channel:load:<instance>, Missing when there is no such key
          ttl,       \* the key has a time to live
          affinity,  \* the channel remembered for the caller and the model
          at,        \* where a request stands
          mode,      \* the handler that serves it
          left,      \* the candidates it has not given up, in order
          counted,   \* its call is counted at the instance of the first of them
          renewed,   \* the last PEXPIRE of that call went through
          todo,      \* channels left in a worker's cycle
          score,     \* the score a worker read for the first of them, -1 when
                     \* it did not read it yet
          probe      \* the outcome of its probes
\* History: the counts of an instance that expired under calls in flight, no more
\* than it has calls in flight.
VARIABLE expired

routed  == <<at, mode, left, counted, renewed>>
redis   == <<load, ttl, affinity, expired>>
catalog == <<active, health, up>>
checks  == <<todo, score, probe>>
vars    == <<setting, catalog, redis, routed, checks>>

MaxHealth == 100
Step      == 30       \* healthStep
NoMode    == "none"
Missing   == -1

Init ==
  /\ setting \in Settings
  /\ active = [c \in Channels |-> c \in DOMAIN setting.config]
  /\ health = [c \in Channels |-> MaxHealth]
  /\ up = [c \in Channels |-> TRUE]
  /\ load = [i \in Instances |-> Missing]
  /\ ttl = [i \in Instances |-> FALSE]
  /\ affinity = Nobody
  /\ at = [r \in Requests |-> "idle"]
  /\ mode = [r \in Requests |-> NoMode]
  /\ left = [r \in Requests |-> <<>>]
  /\ counted = [r \in Requests |-> FALSE]
  /\ renewed = [r \in Requests |-> FALSE]
  /\ expired = [i \in Instances |-> 0]
  /\ todo = [w \in Workers |-> {}]
  /\ score = [w \in Workers |-> -1]
  /\ probe = [w \in Workers |-> "none"]

MayHappen(fault) == fault \in setting.faults

Is(c) == setting.config[c]
Existing == DOMAIN setting.config

-----------------------------------------------------------------------------
(* The order of the channels.                                              *)

\* The stable sort of s by the pairs of before.
Sorted(s, before) ==
  LET Position(i) == Cardinality({j \in DOMAIN s :
        \/ <<s[j], s[i]>> \in before
        \/ j < i /\ <<s[i], s[j]>> \notin before}) + 1
  IN  [n \in DOMAIN s |-> s[CHOOSE i \in DOMAIN s : Position(i) = n]]

\* ListByModel: the dedicated channels of a tenant, then by weight; the
\* database orders equal rows as it likes.
Listed(routable) ==
  LET before == {p \in Existing \X Existing : LET c == p[1]  d == p[2] IN
        \/ Is(c).dedicated /\ ~Is(d).dedicated
        \/ Is(c).dedicated = Is(d).dedicated /\ Is(c).weight > Is(d).weight}
  IN  Sorted(SetToSeq(routable), before)

\* A channel with a score below 30 is also 'unhealthy'.
Routable(c) == active[c] /\ health[c] >= 50

Rotated(s, hash) ==
  LET k == hash % Len(s) IN SubSeq(s, k + 1, Len(s)) \o SubSeq(s, 1, k)

\* The sticky channel the routing key falls on, then the others as they are.
StickyOrder(s, hash) ==
  IF s = <<>> THEN s
  ELSE LET first == s[(hash % Len(s)) + 1]
       IN  <<first>> \o Kept(s, ToSet(s) \ {first})

\* By health where one of them asks for quality, and by score; channels of
\* equal scores are rotated.
StrategyOrder(s, hash) ==
  LET quality == \E i \in DOMAIN s : Is(s[i]).quality
      before == {p \in Existing \X Existing : LET c == p[1]  d == p[2] IN
        \/ quality /\ health[c] > health[d]
        \/ (quality => health[c] = health[d]) /\ Is(c).score > Is(d).score}
      sorted == Sorted(s, before)
      equal  == \A i, j \in DOMAIN s : Is(s[i]).score = Is(s[j]).score
  IN  IF Len(s) > 1 /\ equal THEN Rotated(sorted, hash) ELSE sorted

Sticky == {c \in Existing : Is(c).sticky}

OrderGroup(s, hash) ==
  IF Len(s) <= 1 THEN s
  ELSE StickyOrder(Kept(s, Sticky), hash)
       \o StrategyOrder(Kept(s, Existing \ Sticky), hash)

\* Mutant of OrderChannels: the fallback tiers are ignored.
OrderChannels_OneTier(s, hash) == OrderGroup(s, hash)

Tiers     == {Is(c).tier : c \in Existing}
OfTier(t) == {c \in Existing : Is(c).tier = t}

\* One fallback tier after the other.
OrderChannels(s, hash) ==
  LET tiers == Sorted(SetToSeq(Tiers), {p \in Tiers \X Tiers : p[1] < p[2]})
  IN  FoldLeft(LAMBDA order, t : order \o OrderGroup(Kept(s, OfTier(t)), hash), <<>>, tiers)

\* The remembered channel is moved to the front, if it is a candidate.
ApplyAffinity(s) ==
  IF Len(s) > 1 /\ affinity \in ToSet(s)
  THEN <<affinity>> \o Kept(s, ToSet(s) \ {affinity})
  ELSE s

-----------------------------------------------------------------------------
(* RouteCandidates.                                                        *)

\* A load source that fails is replaced by a column that is always 0, which is
\* what a missing key counts for.
Counter(i) == IF load[i] = Missing THEN 0 ELSE load[i]
LoadOf(i, blind) == IF blind THEN 0 ELSE Counter(i)

\* The instance of least load among those below their limit; neither the
\* status of an instance nor a cooldown, which nothing sets, plays a role.
Usable(c, blind) == {i \in Is(c).of : setting.limit[i] = 0
                                        \/ LoadOf(i, blind) < setting.limit[i]}
Best(c, blind) ==
  CHOOSE i \in Usable(c, blind) : \A j \in Usable(c, blind) :
    \/ LoadOf(i, blind) < LoadOf(j, blind)
    \/ LoadOf(i, blind) = LoadOf(j, blind) /\ i <= j

Cut(s, max) == SubSeq(s, 1, Min({max, Len(s)}))

\* Route asks for one candidate, the failover loops for three; candidates are
\* cut before those without a usable instance are dropped.
MaxCandidates(m) == IF m = "stream" THEN 1 ELSE 3

Candidates(m, hash, blind) ==
  LET order == ApplyAffinity(OrderChannels(Listed({c \in Channels : Routable(c)}), hash))
      found == Kept(Cut(order, MaxCandidates(m)), {c \in Existing : Usable(c, blind) # {}})
  IN  [n \in DOMAIN found |-> [channel |-> found[n], instance |-> Best(found[n], blind)]]

\* FilterByGroup, which streams and the JSON endpoints do without.
Allowed(m, s) ==
  IF m \in {"chat", "multipart"} THEN Kept(s, {k \in ToSet(s) : Is(k.channel).group}) ELSE s

\* The next request to arrive.
Arriving(r) == at[r] = "idle" /\ \A q \in setting.requests : q < r => at[q] # "idle"

\* The model is unknown or not callable, or the tenant does not list it.
Deny(r) ==
  /\ Arriving(r)
  /\ at' = [at EXCEPT ![r] = "done"]
  /\ UNCHANGED <<setting, catalog, redis, mode, left, counted, renewed, checks>>

\* The first candidate is remembered before the group of the key is looked at
\* and before the call.
Route(r) ==
  /\ Arriving(r)
  /\ \E m \in setting.modes, hash \in setting.hashes, blind \in BOOLEAN :
       LET found == Candidates(m, hash, blind)  mine == Allowed(m, found) IN
       /\ blind => MayHappen("redis")
       /\ mode' = [mode EXCEPT ![r] = m]
       /\ left' = [left EXCEPT ![r] = mine]
       /\ at' = [at EXCEPT ![r] = IF mine = <<>> THEN "done" ELSE "try"]
       /\ affinity' = IF found = <<>> \/ blind THEN affinity ELSE found[1].channel
  /\ UNCHANGED <<setting, catalog, load, ttl, expired, counted, renewed, checks>>

-----------------------------------------------------------------------------
(* The in-flight counters and the failover loop.                           *)

Here(r) == Head(left[r]).instance

\* The calls whose Release will lower the counter of i.
Holders(i) == {r \in Requests : at[r] \in {"renew", "calling"} /\ counted[r] /\ Here(r) = i}

\* Acquire raises the counter, and creates the key without a time to live; a
\* request that gets no answer, whether or not the script ran, goes on untracked.
Acquire(r) ==
  LET raised == [load EXCEPT ![Here(r)] = Counter(Here(r)) + 1] IN
  /\ at[r] = "try"
  /\ \/ /\ load' = raised
        /\ counted' = [counted EXCEPT ![r] = TRUE]
        /\ at' = [at EXCEPT ![r] = "renew"]
     \/ /\ MayHappen("redis") /\ load' \in {load, raised}
        /\ at' = [at EXCEPT ![r] = "calling"]
        /\ UNCHANGED counted
  /\ UNCHANGED <<setting, catalog, ttl, affinity, expired, mode, left, renewed, checks>>

\* Mutant of PExpire: the key gets no time to live.
PExpire_NoTTL(r) == renewed' = [renewed EXCEPT ![r] = TRUE] /\ UNCHANGED ttl

\* PEXPIRE, which does nothing to a key that is gone and whose error is ignored.
PExpire(r) ==
  \/ /\ renewed' = [renewed EXCEPT ![r] = TRUE]
     /\ ttl' = [ttl EXCEPT ![Here(r)] = load[Here(r)] # Missing]
  \/ /\ MayHappen("redis")
     /\ renewed' = [renewed EXCEPT ![r] = FALSE]
     /\ UNCHANGED ttl

\* The second command of Acquire, then the heartbeat of the call.
Renew(r) ==
  /\ at[r] = "renew"
  /\ PExpire(r)
  /\ at' = [at EXCEPT ![r] = "calling"]
  /\ UNCHANGED <<setting, catalog, load, affinity, expired, mode, left, counted, checks>>
Beat(r) ==
  /\ at[r] = "calling" /\ counted[r]
  /\ PExpire(r)
  /\ UNCHANGED <<setting, catalog, load, affinity, expired, at, mode, left, counted, checks>>

\* DECR, where a missing key stays missing and a negative one is deleted.
Lowered(n) == IF n <= 0 THEN Missing ELSE n - 1

\* What becomes of the history when the call of r ends.
Ended(r) ==
  expired' = [expired EXCEPT ![Here(r)] = Min({@, Cardinality(Holders(Here(r)) \ {r})})]

\* Mutant of Uncount: the counter of an untracked call is decremented too.
Uncount_Always(r) ==
  /\ counted' = [counted EXCEPT ![r] = FALSE]
  /\ renewed' = [renewed EXCEPT ![r] = FALSE]
  /\ load' = [load EXCEPT ![Here(r)] = Lowered(@)]
  /\ ttl' = [ttl EXCEPT ![Here(r)] = @ /\ load[Here(r)] # 0]
  /\ Ended(r)

\* LoadHold.Release, once per hold.
Uncount(r) ==
  /\ counted' = [counted EXCEPT ![r] = FALSE]
  /\ renewed' = [renewed EXCEPT ![r] = FALSE]
  /\ \/ /\ counted[r]
        /\ load' = [load EXCEPT ![Here(r)] = Lowered(@)]
        /\ ttl' = [ttl EXCEPT ![Here(r)] = @ /\ load[Here(r)] # 0]
     \/ /\ ~counted[r] \/ MayHappen("redis")
        /\ UNCHANGED <<load, ttl>>
  /\ Ended(r)

\* The wallet refuses: no other candidate is tried.
Refuse(r) ==
  /\ at[r] = "calling"
  /\ Uncount(r)
  /\ at' = [at EXCEPT ![r] = "done"]
  /\ UNCHANGED <<setting, catalog, affinity, mode, left, checks>>

\* A chat remembers the channel that answered.
Answered(r) ==
  LET c == Head(left[r]).channel IN
  /\ at[r] = "calling"
  /\ up[c]
  /\ Uncount(r)
  /\ at' = [at EXCEPT ![r] = "done"]
  /\ affinity' = IF mode[r] = "chat" THEN c ELSE affinity
  /\ UNCHANGED <<setting, catalog, mode, left, checks>>

\* The attempt fails and the next candidate, if any, is tried.
Failed(r) ==
  /\ at[r] = "calling"
  /\ Uncount(r)
  /\ left' = [left EXCEPT ![r] = Tail(@)]
  /\ at' = [at EXCEPT ![r] = IF Len(left[r]) = 1 THEN "done" ELSE "try"]
  /\ UNCHANGED <<setting, catalog, affinity, mode, checks>>

\* The gateway process of r stops and leaves its count behind, between the two
\* commands of Acquire in a key that may have no time to live.
Crash(r) ==
  /\ MayHappen("crash")
  /\ \/ at[r] = "calling" /\ at' = [at EXCEPT ![r] = "dead"]
     \/ at[r] = "renew" /\ at' = [at EXCEPT ![r] = "cut"]
  /\ Ended(r)
  /\ UNCHANGED <<setting, catalog, load, ttl, affinity, mode, left, counted, renewed, checks>>

\* Another request comes from the same place.
Return(r) ==
  /\ setting.again /\ at[r] = "done"
  /\ at' = [at EXCEPT ![r] = "idle"]
  /\ mode' = [mode EXCEPT ![r] = NoMode]
  /\ left' = [left EXCEPT ![r] = <<>>]
  /\ UNCHANGED <<setting, catalog, redis, counted, renewed, checks>>

\* The key expires.  The heartbeat comes twice in a time to live, so the key of a
\* call whose last PEXPIRE went through is not due; that of one between the two
\* commands, or whose PEXPIRE failed, may be.
Lapse(i) ==
  /\ ttl[i] /\ \A r \in Holders(i) : ~renewed[r]
  /\ load' = [load EXCEPT ![i] = Missing]
  /\ ttl' = [ttl EXCEPT ![i] = FALSE]
  /\ expired' = [expired EXCEPT ![i] = Min({@ + Counter(i), Cardinality(Holders(i))})]
  /\ UNCHANGED <<setting, catalog, affinity, routed, checks>>

\* The remembered channel is forgotten after an hour.
Forget ==
  /\ affinity # Nobody
  /\ affinity' = Nobody
  /\ UNCHANGED <<setting, catalog, load, ttl, expired, routed, checks>>

-----------------------------------------------------------------------------
(* The health checker.                                                     *)

\* The query of the active channels, under the lease.
StartCycle(w) ==
  /\ todo[w] = {}
  /\ MayHappen("slow") \/ \A v \in Workers : todo[v] = {}
  /\ todo' = [todo EXCEPT ![w] = {c \in Channels : active[c]}]
  /\ UNCHANGED <<setting, catalog, redis, routed, score, probe>>

Current(w) == CHOOSE c \in todo[w] : TRUE

ReadScore(w) ==
  /\ todo[w] # {} /\ score[w] = -1
  /\ score' = [score EXCEPT ![w] = health[Current(w)]]
  /\ UNCHANGED <<setting, catalog, redis, routed, todo, probe>>

\* Any instance that answers makes the channel healthy.
Probe(w) ==
  /\ score[w] >= 0 /\ probe[w] = "none"
  /\ probe' = [probe EXCEPT ![w] = IF up[Current(w)] THEN "healthy" ELSE "failed"]
  /\ UNCHANGED <<setting, catalog, redis, routed, todo, score>>

\* adjustHealthScore.
Adjusted(s, healthy) ==
  IF healthy THEN Min({s + Step, MaxHealth}) ELSE Max({s - Step, 0})

\* The score is written, or the UPDATE fails; then the next channel.
WriteScore(w) ==
  LET c == Current(w) IN
  /\ probe[w] # "none"
  /\ \/ health' = [health EXCEPT ![c] = Adjusted(score[w], probe[w] = "healthy")]
     \/ MayHappen("db") /\ UNCHANGED health
  /\ todo' = [todo EXCEPT ![w] = @ \ {c}]
  /\ score' = [score EXCEPT ![w] = -1]
  /\ probe' = [probe EXCEPT ![w] = "none"]
  /\ UNCHANGED <<setting, active, up, redis, routed>>

Toggle(c) ==
  /\ MayHappen("outage")
  /\ \/ up' = [up EXCEPT ![c] = ~@] /\ UNCHANGED active
     \/ active' = [active EXCEPT ![c] = ~@] /\ UNCHANGED up
  /\ UNCHANGED <<setting, health, redis, routed, checks>>

Serve(r) == Acquire(r) \/ Renew(r) \/ Refuse(r) \/ Answered(r) \/ Failed(r)

Check(w) == StartCycle(w) \/ ReadScore(w) \/ Probe(w) \/ WriteScore(w)

Next ==
  \/ \E r \in setting.requests :
       Deny(r) \/ Route(r) \/ Serve(r) \/ Beat(r) \/ Crash(r) \/ Return(r)
  \/ \E i \in Instances : Lapse(i)
  \/ Forget
  \/ \E w \in setting.workers : Check(w)
  \/ \E c \in Existing : Toggle(c)

Spec == Init /\ [][Next]_vars

\* Calls return, heartbeats beat, keys expire and workers run.
FairSpec ==
  /\ Spec
  /\ \A r \in Requests : WF_vars(Serve(r)) /\ WF_vars(Beat(r))
  /\ \A i \in Instances : WF_vars(Lapse(i))
  /\ \A w \in Workers : WF_vars(w \in setting.workers /\ Check(w))

-----------------------------------------------------------------------------
(* Properties.                                                             *)

\* What a request will try, in which order: never a channel twice, and after
\* the first (which affinity may have chosen) the channels of a fallback tier
\* before those of a later one, and in a tier the sticky ones first, whatever
\* sorting, rotation, affinity, cutting and filtering did.
FailoverFollowsTiers ==
  \A r \in Requests : \A m, n \in DOMAIN left[r] :
    LET c == Is(left[r][m].channel)  d == Is(left[r][n].channel) IN
    m < n => /\ left[r][m].channel # left[r][n].channel
             /\ m > 1 => c.tier < d.tier \/ (c.tier = d.tier /\ (d.sticky => c.sticky))

\* An instance looks less busy than it is (loadtracker.go:110) only by counts that
\* expired while their calls were in flight, in a key left over from an earlier
\* call between the two commands of Acquire or after a PEXPIRE that failed, and only
\* until its calls have ended: crashes, failing commands, untracked calls and the
\* decrements of calls whose own count has expired take no more than that away.
LoadCoversCalls == \A i \in Instances : Counter(i) + expired[i] >= Cardinality(Holders(i))

\* A process stopped between the two commands of Acquire.
CutOff(i) == \E r \in Requests : at[r] = "cut" /\ Here(r) = i

\* What went wrong once wears off.  While Redis answers, an instance without calls
\* does not count as busy for ever with what crashed processes left behind, unless
\* one stopped before its key had a time to live (loadtracker.go:90); while calls
\* overlap, each renews the key and with it such a count (loadtracker.go:92, 130).
\* And a channel that answers from some time on gets its full score back, although
\* cycles that outlived their lease write scores read long ago (checker.go:114).
FaultsWearOff ==
  /\ "redis" \notin setting.faults =>
       \A i \in Instances : []<>(Holders(i) = {} /\ (CutOff(i) => ttl[i]) => Counter(i) = 0)
  /\ "db" \notin setting.faults /\ setting.workers # {} =>
       \A c \in Channels : <>[](c \in Existing /\ up[c] /\ active[c])
                            => <>[](health[c] = MaxHealth)
=============================================================================
