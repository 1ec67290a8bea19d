----------------------------- MODULE BillingSync -----------------------------
(***************************************************************************)
(* Synchronisation of an upstream account's bills into billing_records     *)
(* (internal/billing_sync): the worker cycle that picks due connectors,    *)
(* the page loop of Service.Sync with its checkpoint, the statements of    *)
(* SaveBillingPage and FinishBillingSyncRun, which no transaction joins,   *)
(* and the three adapters that cut a range into pages.                     *)
(*                                                                         *)
(* One connector is followed: connectors share no row and a cycle visits   *)
(* them one after the other.  The rows of billing_sync_runs, the raw       *)
(* snapshots and the audit entries are left out, no decision reads them;   *)
(* so are the cursor that does not advance and the limit of 10000 pages,   *)
(* which no adapter of this repository reaches.  A bill is known by the    *)
(* start of its usage, the only time a range is compared with; it is       *)
(* listed complete, at its start or some time after it.  Time is in whole  *)
(* ticks.                                                                  *)
(***************************************************************************)
EXTENDS Integers, FiniteSets

CONSTANTS
  Records,    \* the bills the upstream will ever issue
  At,         \* At[r]: the usage start of bill r
  Rank,       \* Rank[r]: the place of bill r in the upstream's listings
  SyncWorkers, \* worker processes
  SyncTime,   \* bound of the clock
  Lookback,   \* reach of the very first synchronisation (24 hours)
  PageSize,   \* bills of one page (config "page_size")
  Span,       \* ticks of a billing cycle (Aliyun) and of a window (NewAPI)
  Profiles    \* [kind, interval, workers, faults, delay] a behaviour runs under;
              \* bounds: faults, and the ticks from the start of a bill to its listing

ASSUME SyncAssumption ==
  /\ At \in [Records -> 1..SyncTime] /\ Rank \in [Records -> Nat]
  /\ \A r, s \in Records : Rank[r] = Rank[s] => r = s
  /\ Profiles \subseteq [kind : {"aliyun", "newapi", "oneapi"}, interval : {0, 1},
                         workers : SUBSET SyncWorkers, faults : Nat, delay : Nat]

ASSUME NumbersAssumption ==
  /\ IsFiniteSet(Records)
  /\ Lookback \in Nat /\ {SyncTime, PageSize, Span} \subseteq Nat \ {0}

VARIABLES
  profile,    \* the configuration of this behaviour, never changed
  now,        \* the clock
  upstream,   \* the bills the upstream lists by now
  conn,       \* the billing_connectors row
  stored,     \* the external ids in billing_records
  syncLease,  \* the Redis key worker:lease:billing_sync exists
  sync,       \* sync[w]: the run worker w is executing
  faults,     \* failures and edits this behaviour may still see
  origin,     \* history: the latest start of a first, unanchored range
  late        \* history: the bills listed when a range over their start was taken

syncVars == <<profile, now, upstream, conn, stored, syncLease, sync, faults, origin, late>>

\* A cursor is <<billing cycle or window start, page>>; this one is "".
NoCursor == <<0, 0>>

\* The checkpoint column: "" unmarshals to no range, so its times are zero.
NoCheckpoint == [from |-> 0, to |-> 0, cursor |-> NoCursor]

\* Worker w executes no run.
Idle == [pc |-> "idle", from |-> 0, to |-> 0, cursor |-> NoCursor,
         left |-> {}, next |-> NoCursor]

\* A connector that was just created: active, never synchronised, due after its
\* interval or, without one, at once.
SInit ==
  /\ profile \in Profiles
  /\ now = 1 /\ upstream = {}
  /\ conn = [exists |-> TRUE, active |-> TRUE, due |-> profile.interval = 0, through |-> 0,
             checkpoint |-> NoCheckpoint]
  /\ stored = {} /\ syncLease = FALSE
  /\ sync = [w \in SyncWorkers |-> Idle]
  /\ faults = profile.faults /\ origin = 0 - Lookback /\ late = {}

-----------------------------------------------------------------------------
(* The adapters: which bills a page holds and which cursor follows it. *)

CycleOf(t) == (t - 1) \div Span

Smaller(a, b) == IF a < b THEN a ELSE b

NewPage(records, next) == [records |-> records, next |-> next]

\* The cursor of a request: the one given, or the first.
From(run, first) == IF run.cursor = NoCursor THEN first ELSE run.cursor

\* One page of what the upstream lists for a request, and whether more follow.
OnPage(r, listing) ==
  1 + Cardinality({q \in listing : Rank[q] < Rank[r]}) \div PageSize
OfPage(n, listing) == {r \in listing : OnPage(r, listing) = n}
More(n, listing)   == n * PageSize < Cardinality(listing)

\* Aliyun lists a whole billing cycle: what starts outside of the range is
\* dropped.  The next cycle follows while the range reaches into it.
FetchAliyun(run) ==
  LET cursor  == From(run, <<CycleOf(run.from), 1>>)
      cycle   == cursor[1]
      listing == {r \in upstream : CycleOf(At[r]) = cycle}
  IN  NewPage({r \in OfPage(cursor[2], listing) : At[r] \in run.from .. run.to},
              IF More(cursor[2], listing) THEN <<cycle, cursor[2] + 1>>
              ELSE IF cycle + 1 <= CycleOf(run.to - 1) THEN <<cycle + 1, 1>>
              ELSE NoCursor)

\* NewAPI lists a window of the range at once; the next one starts an instant
\* after it.
FetchNewAPI(run) ==
  LET start == From(run, <<run.from, 1>>)[1]
      end   == Smaller(start + Span, run.to)
  IN  NewPage({r \in upstream : At[r] \in start .. end},
              IF end < run.to THEN <<end + 1, 1>> ELSE NoCursor)

\* OneAPI lists the range page by page.
FetchOneAPI(run) ==
  LET page    == From(run, <<0, 1>>)[2]
      listing == {r \in upstream : At[r] \in run.from .. run.to}
  IN  NewPage(OfPage(page, listing),
              IF More(page, listing) THEN <<0, page + 1>> ELSE NoCursor)

Page(run) == CASE profile.kind = "aliyun" -> FetchAliyun(run)
               [] profile.kind = "newapi" -> FetchNewAPI(run)
               [] profile.kind = "oneapi" -> FetchOneAPI(run)

-----------------------------------------------------------------------------
(* A run. *)

\* Worker w is the leader for the lifetime of the lease, which it never gives
\* back, and lists the connector when it is active and due.
RunDue(w) ==
  /\ w \in profile.workers /\ sync[w].pc = "idle" /\ ~syncLease
  /\ syncLease' = TRUE
  /\ sync' = IF conn.exists /\ conn.active /\ conn.due
             THEN [sync EXCEPT ![w].pc = "listed"] ELSE sync
  /\ UNCHANGED <<profile, now, upstream, conn, stored, faults, origin, late>>

\* An unfinished range is resumed where its checkpoint stands; otherwise the
\* range starts where the last one ended, or Lookback before its end.
SyncRange ==
  IF conn.checkpoint.to # 0 THEN conn.checkpoint
  ELSE [from |-> IF conn.through # 0 THEN conn.through ELSE now - Lookback,
        to |-> now, cursor |-> NoCursor]

\* The run of worker w ends.
Ended(w) == sync' = [sync EXCEPT ![w] = Idle]

\* Sync reads the connector again and starts a run over its range.
Begin(w) ==
  /\ sync[w].pc = "listed"
  /\ IF conn.exists /\ conn.active /\ SyncRange.from < SyncRange.to
     THEN /\ sync' = [sync EXCEPT ![w] = [Idle EXCEPT !.pc = "fetch", !.from = SyncRange.from,
                                            !.to = SyncRange.to, !.cursor = SyncRange.cursor]]
          /\ origin' = IF conn.checkpoint.to = 0 /\ conn.through = 0 /\ SyncRange.from > origin
                       THEN SyncRange.from ELSE origin
     ELSE Ended(w) /\ UNCHANGED origin
  /\ UNCHANGED <<profile, now, upstream, conn, stored, syncLease, faults, late>>

\* A page is fetched, at the first or at a later attempt.
Fetch(w) ==
  /\ sync[w].pc = "fetch"
  /\ sync' = [sync EXCEPT ![w].pc = "save", ![w].left = Page(sync[w]).records,
                          ![w].next = Page(sync[w]).next]
  /\ UNCHANGED <<profile, now, upstream, conn, stored, syncLease, faults, origin, late>>

\* Mutant of SaveRecord: the checkpoint is written with the first record.
SaveRecord_CheckpointFirst(w) ==
  /\ sync[w].pc = "save" /\ sync[w].left # {}
  /\ conn' = [conn EXCEPT !.checkpoint =
                [from |-> sync[w].from, to |-> sync[w].to, cursor |-> sync[w].next]]
  /\ \E r \in sync[w].left :
       stored' = stored \cup {r} /\ sync' = [sync EXCEPT ![w].left = @ \ {r}]
  /\ UNCHANGED <<profile, now, upstream, syncLease, faults, origin, late>>

\* One record of the page is upserted.  The row refers to the connector, so the
\* statement fails once that is deleted and the run fails with it.
SaveRecord(w) ==
  /\ sync[w].pc = "save" /\ sync[w].left # {}
  /\ \E r \in sync[w].left :
       /\ \A q \in sync[w].left : Rank[r] <= Rank[q]
       /\ IF conn.exists
          THEN /\ stored' = stored \cup {r}
               /\ sync' = [sync EXCEPT ![w].left = @ \ {r}]
          ELSE sync' = [sync EXCEPT ![w].pc = "fail"] /\ UNCHANGED stored
  /\ UNCHANGED <<profile, now, upstream, conn, syncLease, faults, origin, late>>

\* After the records the checkpoint is overwritten, whoever wrote it last, and
\* the loop goes on with the following page or leaves.
SaveCheckpoint(w) ==
  /\ sync[w].pc = "save" /\ sync[w].left = {}
  /\ conn' = [conn EXCEPT !.checkpoint =
                IF conn.exists THEN [from |-> sync[w].from, to |-> sync[w].to,
                                     cursor |-> sync[w].next] ELSE @]
  /\ sync' = [sync EXCEPT ![w].pc = IF sync[w].next = NoCursor THEN "done" ELSE "fetch",
                          ![w].cursor = sync[w].next, ![w].next = NoCursor]
  /\ UNCHANGED <<profile, now, upstream, stored, syncLease, faults, origin, late>>

\* Mutant of Finished: a finished range keeps its checkpoint.
Finished_KeepsCheckpoint(succeeded, to) ==
  [conn EXCEPT !.through = IF succeeded THEN to ELSE @,
               !.due = ~(conn.active /\ profile.interval > 0)]

\* The connector's row when a run ends: the next one is due at once when the
\* interval is zero.  Success anchors the next range, failure keeps the
\* checkpoint.
Finished(succeeded, to) ==
  [conn EXCEPT !.checkpoint = IF succeeded THEN NoCheckpoint ELSE @,
               !.through = IF succeeded THEN to ELSE @,
               !.due = ~(conn.active /\ profile.interval > 0)]

FinishRun(w) ==
  /\ sync[w].pc \in {"done", "fail"}
  /\ conn' = IF conn.exists THEN Finished(sync[w].pc = "done", sync[w].to) ELSE conn
  /\ Ended(w)
  /\ UNCHANGED <<profile, now, upstream, stored, syncLease, faults, origin, late>>

-----------------------------------------------------------------------------
(* Faults, the administrator, the upstream and the clock. *)

Fault == faults > 0 /\ faults' = faults - 1

\* The upstream refuses for good, every attempt failed, a statement of the
\* page fails or the process is told to stop: failRun.
Break(w) ==
  /\ Fault /\ sync[w].pc \in {"fetch", "save"}
  /\ sync' = [sync EXCEPT ![w].pc = "fail"]
  /\ UNCHANGED <<profile, now, upstream, conn, stored, syncLease, origin, late>>

\* The process stops, or the statements of FinishBillingSyncRun fail: the run
\* leaves the connector as it is.
Abandon(w) ==
  /\ Fault /\ sync[w].pc # "idle"
  /\ Ended(w)
  /\ UNCHANGED <<profile, now, upstream, conn, stored, syncLease, origin, late>>

\* UpdateBillingConnector changes the status: next_sync_at is computed anew
\* and the checkpoint kept.
UpdateBillingConnector ==
  /\ Fault /\ conn.exists
  /\ conn' = [conn EXCEPT !.active = ~@, !.due = conn.active \/ profile.interval = 0]
  /\ UNCHANGED <<profile, now, upstream, stored, syncLease, sync, origin, late>>

\* DeleteBillingConnector removes the records with the connector.
DeleteBillingConnector ==
  /\ Fault /\ conn.exists
  /\ conn' = [conn EXCEPT !.exists = FALSE] /\ stored' = {}
  /\ UNCHANGED <<profile, now, upstream, syncLease, sync, origin, late>>

\* The start t is before the end of a range that was synchronised, is being
\* synchronised or was left unfinished: the next range begins where it ends.
Taken(t) ==
  \/ t < conn.through \/ t < conn.checkpoint.to
  \/ \E w \in SyncWorkers : t < sync[w].to

\* A bill appears, anywhere in the listings, when its usage starts or later: it
\* covers an hour (NewAPI) or a billing period (Aliyun), and may be posted after it.
Appear ==
  /\ \E r \in Records \ upstream :
       /\ At[r] <= now
       /\ upstream' = upstream \cup {r}
       /\ late' = IF Taken(At[r]) THEN late \cup {r} ELSE late
  /\ UNCHANGED <<profile, now, conn, stored, syncLease, sync, faults, origin>>

SyncTick ==
  /\ now < SyncTime /\ \A r \in Records : At[r] + profile.delay <= now => r \in upstream
  /\ now' = now + 1
  /\ UNCHANGED <<profile, upstream, conn, stored, syncLease, sync, faults, origin, late>>

\* next_sync_at passes.
FallDue ==
  /\ ~conn.due /\ conn' = [conn EXCEPT !.due = TRUE]
  /\ UNCHANGED <<profile, now, upstream, stored, syncLease, sync, faults, origin, late>>

\* The lease outlives no cycle of more than its 50 seconds.
SyncLeaseExpires ==
  /\ syncLease /\ syncLease' = FALSE
  /\ UNCHANGED <<profile, now, upstream, conn, stored, sync, faults, origin, late>>

Work(w) == \/ RunDue(w) \/ Begin(w) \/ Fetch(w) \/ SaveRecord(w) \/ SaveCheckpoint(w)
           \/ FinishRun(w)

SNext ==
  \/ \E w \in SyncWorkers : Work(w) \/ Break(w) \/ Abandon(w)
  \/ UpdateBillingConnector \/ DeleteBillingConnector
  \/ Appear \/ SyncTick \/ FallDue \/ SyncLeaseExpires

SSpec == SInit /\ [][SNext]_syncVars

\* The ticker of some worker process keeps firing and its statements and
\* requests return; bills appear, time and leases pass.
SFairSpec ==
  /\ SSpec
  /\ WF_syncVars(\E w \in SyncWorkers : Begin(w) \/ Fetch(w) \/ SaveRecord(w)
                                \/ SaveCheckpoint(w) \/ FinishRun(w))
  /\ SF_syncVars(\E w \in SyncWorkers : RunDue(w))
  /\ WF_syncVars(Appear) /\ WF_syncVars(SyncTick) /\ WF_syncVars(FallDue) /\ WF_syncVars(SyncLeaseExpires)

-----------------------------------------------------------------------------
(* Properties. *)

\* last_synced_through is believed by reconciliation: every bill that starts
\* between the first synchronised instant and that one is stored, if the upstream
\* listed it before a range over its start was taken, however runs of two processes
\* overlap, fail, stop half-way through a page or resume from a checkpoint another
\* run wrote (service.go:126, pgx.go:269).  A bill listed later is stored only if
\* the run happens to fetch its page afterwards: no later range reaches back for
\* it (service.go:241, aliyun.go:108), which this says nothing about.
NoGap ==
  \A r \in upstream \ late :
    conn.exists /\ origin <= At[r] /\ At[r] < conn.through => r \in stored

\* Once the faults stop, a process that works alone stores every bill of an
\* active connector that was listed in time, whatever checkpoints the faults left
\* behind (service.go:228).  Two processes whose runs overlap for ever may hand the
\* checkpoint of one range to each other for ever.
CatchesUp ==
  Cardinality(profile.workers) = 1 =>
    [](\A r \in Records : At[r] < SyncTime =>
         <>(r \in stored \cup late \/ ~conn.exists \/ ~conn.active \/ At[r] < origin))
=============================================================================
