------------------------------ MODULE Catalog ------------------------------
(***************************************************************************)
(* The catalogue the console administers: models, the channels that serve  *)
(* them and the channel instances that hold an upstream credential, a base *)
(* URL with a key.  A provider is no row of its own, it is whatever        *)
(* channels and instances share one credential.                            *)
(* Routines run concurrently.  Most write with statements that commit on   *)
(* their own; the deletion of a provider is a transaction that others do   *)
(* not see, and whose rows they cannot write, until it commits.            *)
(* A gateway call reads a credential, uses it later and may leave the      *)
(* answer in the response cache, which a change of credentials purges.     *)
(***************************************************************************)
EXTENDS Integers, FiniteSets

CONSTANTS Models,       \* model codes
          Placeholder,  \* the code <provider>-pending
          Cacheable,    \* models whose responses are cached
          Channels, Urls, Keys,
          Routines,
          Faults,       \* whether statements fail and routines die
          MaxInstances, \* bound: instances that can be created
          Nil           \* none; a field a request leaves out

ASSUME ModelsAssumption == Placeholder \in Models /\ Cacheable \subseteq Models
ASSUME SwitchesAssumption == Faults \in BOOLEAN
ASSUME NilAssumption == Nil \notin Urls \cup Keys \cup Models

VARIABLES focus,      \* bound: what this behaviour follows
          models,     \* code -> status
          channels,   \* channel -> model and status
          instances,  \* rows of channel_instances
          cache,      \* model -> the cached response, by its credential
          req         \* routine -> the request it serves
\* History: listed models no channel stands behind, because somebody decided so
\* or a request broke off, and because two requests crossed; credentials whose
\* replacement was answered, and those among them no purge has followed.
VARIABLES unbacked, crossed, retired, unpurged

rows == <<models, channels, instances>>
catalogVars == <<focus, models, channels, instances, cache, req, unbacked, crossed,
                 retired, unpurged>>
listing == <<unbacked, crossed>>
withdrawn == <<retired, unpurged>>

Credentials  == [url : Urls, key : Keys]
Changes      == [url : Urls \cup {Nil}, key : Keys \cup {Nil}]
NoCredential == [url |-> Nil, key |-> Nil]
Unchanged    == NoCredential
NoChannel    == [model |-> Nil, status |-> "inactive"]
NoResponse   == [cred |-> NoCredential, old |-> FALSE, is |-> FALSE]
NoTask == [at |-> "idle", model |-> Nil, channel |-> Nil, cred |-> NoCredential,
           new |-> Unchanged, todo |-> {}, locked |-> {}, orphans |-> {},
           old |-> FALSE, status |-> "none", created |-> FALSE]

Instances == [channel : Channels, url : Urls, key : Keys, on : BOOLEAN]
CatalogInit ==
  /\ focus \in {"listing", "responses"}
  /\ models = [m \in Models |-> "none"]
  /\ channels = [c \in Channels |-> NoChannel] /\ instances = {}
  /\ cache = [m \in Models |-> NoResponse]
  /\ req = [h \in Routines |-> NoTask]
  /\ unbacked = {} /\ crossed = {} /\ retired = {} /\ unpurged = {}

In(h, place)    == req[h].at = place
Takes(h, next)  == req' = [req EXCEPT ![h] = next]
GoOn(h, place)  == Takes(h, [req[h] EXCEPT !.at = place])
Ends(h)         == Takes(h, NoTask)
Fails           == Faults

Cred(i)          == [url |-> i.url, key |-> i.key]
Holding(cred)    == {i \in instances : Cred(i) = cred}
ChannelsOf(rs)   == {i.channel : i \in rs}
Backed(m, chs)   == \E c \in Channels : chs[c] = [model |-> m, status |-> "active"]
Fresh(c)         == channels[c].model = Nil
Switched(cs, s)  == [c \in Channels |->
                       IF c \in cs THEN [channels[c] EXCEPT !.status = s] ELSE channels[c]]
\* The rows a transaction has written and not committed.
LockedInstances == UNION {req[h].locked : h \in Routines}
Free(cs)         == cs \cap ChannelsOf(LockedInstances) = {}
FreeModel(m)     == \A h \in Routines : m \notin req[h].orphans
InUse(rs)        == {Cred(i) : i \in rs}

\* What becomes of the history when these models are listed, or lose channels,
\* by a decision and by a crossing.  A channel that a transaction is removing
\* does not count.
Booked(decided, met) ==
  LET Unserved(ms) == {m \in ms : \A c \in Channels :
        channels'[c] = [model |-> m, status |-> "active"] => c \in ChannelsOf(LockedInstances)}
  IN unbacked' = Unserved(unbacked \cup decided) /\ crossed' = Unserved(crossed \cup met)
Decided(ms) == Booked(ms, {})
Rest == UNCHANGED <<cache, withdrawn>>

-----------------------------------------------------------------------------
\* A provider is created model by model, in statements of its own; one that
\* fails leaves what the earlier ones wrote and the loop goes on.
CreateProvider(h, cred, discovered) ==
  /\ In(h, "idle")
  /\ Takes(h, [NoTask EXCEPT !.at = "upsert", !.cred = cred, !.todo = discovered])
  /\ UNCHANGED rows /\ UNCHANGED listing /\ Rest

\* A model that is there is switched on, a new one gets the status that
\* new_model_default_status names.
UpsertModel(h) ==
  /\ In(h, "upsert")
  /\ \E m \in req[h].todo :
       /\ FreeModel(m)
       /\ LET left == [req[h] EXCEPT !.todo = @ \ {m}]
          IN \/ /\ \E s \in {"active", "inactive"} :
                     models' = [models EXCEPT ![m] = IF @ = "none" THEN s ELSE "active"]
                /\ Takes(h, [left EXCEPT !.at = "channel", !.model = m])
             \/ Fails /\ Takes(h, left) /\ UNCHANGED models
  /\ UNCHANGED <<channels, instances, listing>> /\ Rest

\* Discovery failed: a placeholder takes the credential.  A placeholder of
\* this provider that exists is kept, and then the channel names a model that
\* is not there and the two inserts that follow are refused.
InsertPlaceholder(h, cred) ==
  /\ In(h, "idle")
  /\ LET next == [NoTask EXCEPT !.at = "upsert", !.cred = cred, !.created = TRUE,
                              !.model = Placeholder]
     IN IF models[Placeholder] = "none"
        THEN /\ models' = [models EXCEPT ![Placeholder] = "active"]
             /\ Takes(h, [next EXCEPT !.at = "channel"])
        ELSE Takes(h, next) /\ UNCHANGED models
  /\ UNCHANGED <<channels, instances, listing>> /\ Rest

InsertChannel(h) ==
  /\ In(h, "channel")
  /\ \/ /\ \E c \in Channels :
             /\ Fresh(c)
             /\ channels' = [channels EXCEPT ![c] = [model |-> req[h].model, status |-> "active"]]
             /\ Takes(h, [req[h] EXCEPT !.at = "instance", !.channel = c])
        /\ Decided({})
     \/ Fails /\ GoOn(h, "upsert") /\ UNCHANGED channels /\ Decided({req[h].model})
  /\ UNCHANGED <<models, instances>> /\ Rest

\* A credential in a new row is in use, whatever was answered about it.
InUseAgain(creds) == retired' = retired \ creds /\ unpurged' = unpurged \ creds
NewInstance(c, cred) ==
  /\ Cardinality(instances) < MaxInstances
  /\ instances' = instances \cup {[channel |-> c, url |-> cred.url, key |-> cred.key, on |-> TRUE]}
  /\ InUseAgain({cred})

InsertInstance(h) ==
  /\ In(h, "instance")
  /\ \/ /\ NewInstance(req[h].channel, req[h].cred)
        /\ Takes(h, [req[h] EXCEPT !.at = "upsert", !.created = TRUE])
     \/ Fails /\ GoOn(h, "upsert") /\ UNCHANGED <<instances, withdrawn>>
  /\ UNCHANGED <<models, channels, cache, listing>>

Created(h) == /\ In(h, "upsert") /\ req[h].todo = {} /\ Ends(h)
              /\ UNCHANGED rows /\ UNCHANGED listing /\ Rest

\* Only models are imported, each by its own statement, one that exists
\* keeps its status.
SyncProviderModels(h, discovered) ==
  /\ In(h, "idle")
  /\ \E i \in instances : i.on
  /\ Takes(h, [NoTask EXCEPT !.at = "import", !.todo = discovered])
  /\ UNCHANGED rows /\ UNCHANGED listing /\ Rest
ImportModel(h) ==
  /\ In(h, "import")
  /\ \E m \in req[h].todo :
       LET left == req[h].todo \ {m}
       IN /\ Takes(h, IF left = {} THEN NoTask ELSE [req[h] EXCEPT !.todo = left])
          /\ \/ /\ models' = [models EXCEPT ![m] = IF @ = "none" THEN "active" ELSE @]
                /\ UNCHANGED channels
                /\ Decided(IF models[m] = "none" THEN {m} ELSE {})
             \/ Fails /\ UNCHANGED <<models, channels, listing>>
  /\ UNCHANGED instances /\ Rest

-----------------------------------------------------------------------------
\* What shares the credential of the representative channel is changed in one
\* transaction, after the credential was looked up outside of it.  A field that
\* repeats its value changes nothing and is left out.
LookUp(h, c, place, new) ==
  /\ In(h, "idle")
  /\ \E i \in instances :
       /\ i.channel = c /\ new.url # i.url /\ new.key # i.key
       /\ Takes(h, [NoTask EXCEPT !.at = place, !.cred = Cred(i), !.new = new])
  /\ UNCHANGED rows /\ UNCHANGED listing /\ Rest

UpdateProvider(h, c, new) == new # Unchanged /\ LookUp(h, c, "rotate", new)

\* The URL is written first: a key given with it looks for the credential
\* as it was and finds it no more.
Written(i, cred, new) ==
  IF Cred(i) = cred /\ new.url \notin {Nil, cred.url} THEN [i EXCEPT !.url = new.url]
  ELSE IF Cred(i) = cred /\ new.key # Nil THEN [i EXCEPT !.key = new.key] ELSE i

Rotate(h) ==
  /\ In(h, "rotate")
  /\ Holding(req[h].cred) \cap LockedInstances = {}
  /\ \/ /\ instances' = {Written(i, req[h].cred, req[h].new) : i \in instances}
        /\ InUseAgain(InUse(instances'))
        /\ GoOn(h, "purge")
     \/ Fails /\ Ends(h) /\ UNCHANGED <<instances, withdrawn>>
  /\ UNCHANGED <<models, channels, cache, listing>>

\* Mutant: only a change of the URL empties the cache.
Purged_UrlOnly(new) == new.url # Nil
Purged(new) == new # Unchanged

\* Responses of calls that are still at the upstream will arrive later.  A
\* purge that fails is only logged, and the change is answered all the same.
Purge(h) ==
  /\ In(h, "purge")
  /\ retired' = (retired \cup {req[h].cred}) \ InUse(instances)
  /\ \/ /\ cache' = IF Purged(req[h].new) THEN [m \in Models |-> NoResponse] ELSE cache
        /\ req' = [g \in Routines |-> IF g = h THEN NoTask ELSE
                                      IF req[g].at = "call" THEN [req[g] EXCEPT !.old = TRUE]
                                      ELSE req[g]]
        /\ unpurged' = {}
     \/ /\ Fails /\ Ends(h) /\ UNCHANGED cache
        /\ unpurged' = (unpurged \cup {req[h].cred}) \ InUse(instances)
  /\ UNCHANGED rows /\ UNCHANGED listing

DeleteProvider(h, c) == LookUp(h, c, "remove", Unchanged)

\* The models that lose their last channel with these.
Orphaned(cs) == {m \in Models : /\ models[m] = "active"
                                /\ \E c \in cs : channels[c].model = m
                                /\ ~Backed(m, Switched(cs, "inactive"))}
\* A transaction is taking this model off the list, with a channel it still has.
Leaving(m) == \E g \in Routines :
  /\ m \in req[g].orphans
  /\ \E c \in ChannelsOf(req[g].locked) : channels[c] = [model |-> m, status |-> "active"]
\* The models that lose their last channel with these too, but for channels
\* other transactions are removing: they look active still, and those that are
\* removing them saw these.
Missed(cs) ==
  {m \in Models : /\ models[m] = "active" /\ m \notin Orphaned(cs) /\ ~Leaving(m)
                  /\ \E c \in cs : channels[c] = [model |-> m, status |-> "active"]
                  /\ \A c \in Channels : channels[c] = [model |-> m, status |-> "active"]
                                         => c \in cs \cup ChannelsOf(LockedInstances)}
RemoveProvider(h) ==
  /\ In(h, "remove")
  /\ LET found == Holding(req[h].cred)  cs == ChannelsOf(found)
     IN /\ Free(cs) /\ \A m \in Orphaned(cs) : FreeModel(m)
        /\ Takes(h, [req[h] EXCEPT !.at = "commit", !.locked = found, !.orphans = Orphaned(cs)])
        /\ crossed' = crossed \cup Missed(cs)
  /\ UNCHANGED rows /\ UNCHANGED unbacked /\ Rest

Listed(m, orphans) == IF m \in orphans THEN "inactive" ELSE models[m]

CommitRemoval(h) ==
  /\ In(h, "commit") /\ Ends(h)
  /\ \/ /\ channels' = Switched(ChannelsOf(req[h].locked), "inactive")
        /\ instances' = {IF i \in req[h].locked THEN [i EXCEPT !.on = FALSE] ELSE i : i \in instances}
        /\ models' = [m \in Models |-> Listed(m, req[h].orphans)]
     \/ Fails /\ UNCHANGED rows
  /\ UNCHANGED listing /\ Rest

-----------------------------------------------------------------------------
\* Channels.  A new one is there before its model is switched on again, and
\* may be deleted in between: the model is then listed without it.
CreateChannel(h, m) ==
  /\ In(h, "idle") /\ models[m] # "none"
  /\ \E c \in Channels :
       /\ Fresh(c)
       /\ channels' = [channels EXCEPT ![c] = [model |-> m, status |-> "active"]]
  /\ Takes(h, [NoTask EXCEPT !.at = "revive", !.model = m])
  /\ Decided({}) /\ UNCHANGED <<models, instances>> /\ Rest
ReviveModel(h) ==
  LET m == req[h].model IN
  /\ In(h, "revive") /\ Ends(h)
  /\ \/ /\ models[m] = "inactive" /\ models' = [models EXCEPT ![m] = "active"]
        /\ UNCHANGED channels /\ Booked({}, {m})
     \/ /\ Fails \/ models[m] = "active"
        /\ UNCHANGED <<models, channels, listing>>
  /\ UNCHANGED instances /\ Rest

\* Mutant: the model is looked at before the channel is switched off.
DeleteChannel_ChecksFirst(h, c) ==
  /\ In(h, "idle") /\ ~Fresh(c) /\ Free({c})
  /\ channels' = Switched({c}, "inactive")
  /\ Takes(h, IF Backed(channels[c].model, channels) THEN NoTask
               ELSE [NoTask EXCEPT !.at = "check", !.model = channels[c].model])
  /\ UNCHANGED <<models, instances, listing>> /\ Rest
\* Two statements: the channel, then the model if no channel is left.
DeleteChannel(h, c) ==
  /\ In(h, "idle") /\ ~Fresh(c) /\ Free({c})
  /\ channels' = Switched({c}, "inactive")
  /\ Takes(h, [NoTask EXCEPT !.at = "check", !.model = channels[c].model])
  /\ UNCHANGED <<models, instances, listing>> /\ Rest

\* It waits for the model's row only where it would write it.
DeactivateModel(h) ==
  LET m == req[h].model
      unlist == models[m] = "active" /\ ~Backed(m, channels) IN
  /\ In(h, "check") /\ Ends(h)
  /\ \/ /\ unlist => FreeModel(m)
        /\ models' = IF unlist THEN [models EXCEPT ![m] = "inactive"] ELSE models
        /\ UNCHANGED channels /\ Booked({}, IF Leaving(m) THEN {} ELSE {m})
     \/ Fails /\ UNCHANGED <<models, channels>> /\ Decided({m})
  /\ UNCHANGED instances /\ Rest

\* The switches of a channel and of a provider leave the models as they are.
Switch(cs, s) ==
  /\ cs # {} /\ Free(cs)
  /\ channels' = Switched(cs, s)
  /\ Decided({channels[c].model : c \in cs} \ {Nil})
  /\ UNCHANGED <<models, instances, req>> /\ Rest
SetChannelStatus(c, s)  == ~Fresh(c) /\ Switch({c}, s)
SetProviderStatus(c, s) ==
  LET own == {i \in instances : i.channel = c}
  IN Switch(ChannelsOf({i \in instances : Cred(i) \in InUse(own)}), s)

AddInstance(c, cred) == /\ ~Fresh(c) /\ NewInstance(c, cred)
                        /\ UNCHANGED <<models, channels, cache, req, listing>>
RemoveInstance(i) == /\ i \notin LockedInstances
                     /\ instances' = (instances \ {i}) \cup {[i EXCEPT !.on = FALSE]}
                     /\ UNCHANGED <<models, channels, req, listing>> /\ Rest

-----------------------------------------------------------------------------
\* Models.  An edit writes back the status it read unless it is given one.
Decide(m, s) == /\ models' = [models EXCEPT ![m] = s]
                /\ UNCHANGED <<channels, instances>>
                /\ Decided(IF s = "active" THEN {m} ELSE {})
                /\ Rest
CreateModel(m) == models[m] = "none" /\ Decide(m, "active") /\ UNCHANGED req
DeleteModel(m) == /\ models[m] # "none" /\ FreeModel(m)
                  /\ Decide(m, "inactive") /\ UNCHANGED req
UpdateModel(h, m) ==
  /\ In(h, "idle") /\ models[m] # "none"
  /\ Takes(h, [NoTask EXCEPT !.at = "edit", !.model = m, !.status = models[m]])
  /\ UNCHANGED rows /\ UNCHANGED listing /\ Rest
SaveModel(h) ==
  /\ In(h, "edit") /\ FreeModel(req[h].model) /\ Ends(h)
  /\ \/ \E s \in {req[h].status, "active", "inactive"} : Decide(req[h].model, s)
     \/ Fails /\ UNCHANGED rows /\ UNCHANGED listing /\ Rest

\* One transaction inserts what was missing when it looked; one model that
\* has appeared since fails it as a whole.
CatalogSync(h, listed) ==
  /\ In(h, "idle")
  /\ Takes(h, [NoTask EXCEPT !.at = "catalog", !.todo = {m \in listed : models[m] = "none"}])
  /\ UNCHANGED rows /\ UNCHANGED listing /\ Rest
CommitCatalog(h) ==
  /\ In(h, "catalog") /\ Ends(h)
  /\ \/ /\ \A m \in req[h].todo : models[m] = "none"
        /\ \E off \in SUBSET req[h].todo :
             /\ models' = [m \in Models |-> IF m \in off THEN "inactive" ELSE
                                            IF m \in req[h].todo THEN "active" ELSE models[m]]
             /\ UNCHANGED channels /\ Decided(req[h].todo \ off)
     \/ UNCHANGED <<models, channels, listing>>
  /\ UNCHANGED instances /\ Rest

-----------------------------------------------------------------------------
\* The gateway.  A request that is not answered from the cache takes an
\* instance of an active channel, whatever the instance's own status.
Call(h, m) ==
  /\ In(h, "idle") /\ models[m] = "active" /\ ~cache[m].is
  /\ \E i \in instances :
       /\ channels[i.channel] = [model |-> m, status |-> "active"]
       /\ Takes(h, [NoTask EXCEPT !.at = "call", !.model = m, !.cred = Cred(i)])
  /\ UNCHANGED rows /\ UNCHANGED listing /\ Rest
Respond(h) ==
  /\ In(h, "call") /\ Ends(h)
  /\ \/ /\ req[h].model \in Cacheable
        /\ cache' = [cache EXCEPT ![req[h].model] =
                       [cred |-> req[h].cred, old |-> req[h].old, is |-> TRUE]]
     \/ UNCHANGED cache
  /\ UNCHANGED rows /\ UNCHANGED <<listing, withdrawn>>
Expire(m) == /\ cache[m].is /\ cache' = [cache EXCEPT ![m] = NoResponse]
             /\ UNCHANGED rows /\ UNCHANGED <<req, listing, withdrawn>>

\* The process dies, or the client goes and its context with it.
Crash(h) == /\ Faults /\ ~In(h, "idle") /\ Ends(h)
            /\ UNCHANGED rows
            /\ Decided(IF req[h].at \in {"channel", "check"} THEN {req[h].model} ELSE {})
            /\ Rest

\* Requests that write the catalogue.
ListingStep(h) ==
  \/ \E ms \in SUBSET Models :
       \/ \E cred \in Credentials : CreateProvider(h, cred, ms)
       \/ ms # {} /\ (SyncProviderModels(h, ms) \/ CatalogSync(h, ms))
  \/ \E cred \in Credentials : InsertPlaceholder(h, cred)
  \/ UpsertModel(h) \/ InsertChannel(h) \/ InsertInstance(h) \/ Created(h)
  \/ ImportModel(h) \/ CommitCatalog(h)
  \/ \E c \in Channels : DeleteProvider(h, c) \/ DeleteChannel(h, c)
  \/ RemoveProvider(h) \/ CommitRemoval(h)
  \/ \E m \in Models : UpdateModel(h, m)
  \/ DeactivateModel(h) \/ SaveModel(h)
  \/ \E c \in Channels, s \in {"active", "inactive"} : SetProviderStatus(c, s)
  \/ \E m \in Models : DeleteModel(m)

\* Calls and the cache.
ResponseStep(h) ==
  \/ \E m \in Models : Call(h, m) \/ Expire(m)
  \/ Respond(h)

\* What both scenes need.
CommonStep(h) ==
  \/ \E c \in Channels, new \in Changes : UpdateProvider(h, c, new)
  \/ Rotate(h) \/ Purge(h) \/ ReviveModel(h) \/ Crash(h)
  \/ \E m \in Models : CreateChannel(h, m) \/ CreateModel(m)
  \/ \E c \in Channels :
       \/ \E s \in {"active", "inactive"} : SetChannelStatus(c, s)
       \/ \E cred \in Credentials : AddInstance(c, cred)
  \/ \E i \in instances : RemoveInstance(i)

CatalogNext ==
  /\ UNCHANGED focus
  /\ \E h \in Routines :
       \/ CommonStep(h)
       \/ focus = "listing" /\ ListingStep(h)
       \/ focus = "responses" /\ ResponseStep(h)

CatalogSpec == CatalogInit /\ [][CatalogNext]_catalogVars

-----------------------------------------------------------------------------
\* A model whose last active channel is deleted goes off the list, whatever
\* deletions, creations, switches and failures meet, with these exceptions.
\* Listed without a channel stay models an administrator or an import listed,
\* models whose channels were switched off, and models a creation or a deletion
\* broke off at (unbacked).  And two requests may cross: the last two channels
\* go in deletions one of which is a provider's that the other does not see yet
\* (providers.go:1042), or a new channel is deleted before its model is switched
\* on again (channels.go:316).
NoUnroutableModels ==
  \A m \in Models :
    \/ models[m] # "active" \/ m \in unbacked \cup crossed \/ Backed(m, channels)
    \/ \E h \in Routines : req[h].at \in {"channel", "check"} /\ req[h].model = m

\* Once a changed credential is answered, the cache holds no response obtained
\* with the old one, except from calls that were at the upstream when it was
\* purged (response_cache.go:118); where the purge failed, which the answer does
\* not say (providers.go:961), until a later one goes through.
PurgeLeavesNoOldResponse ==
  \A m \in Models : cache[m].is /\ ~cache[m].old => cache[m].cred \notin retired \ unpurged

=============================================================================
