# Verification of CC Switch Telemetry

TLA+ models of the parts of this repository that keep state, checked with TLC
on small instances, and theorems about all of them checked with TLAPS for every
value of the constants: every safety invariant and every action property that a
passing run checks is also the statement of a theorem.

    tlc -config sync_safety.cfg MCUsageSync.tla     # one run, see PROJECT.json
    tlapm UsageSyncProofs.tla                       # the proofs of a module

`PROJECT.json` is the index: components, runs, the source lines every
definition stands for, one deliberately wrong variant of the code ("mutant")
per checked property, findings, hazards and theorems. Line numbers below are
those of the commit in `src/`.

Contents: 1 the system; 2 modules; 3 runs; 4 fairness; 5 proofs;
6 assumptions and what is not modelled; 7 findings; 8 plan.

## 1. The system

A *client* per machine collects usage of coding tools into a SQLite ledger and
uploads it to one *server*, which shows the usage of all its *nodes* on a
dashboard. Beside it the client samples quotas into a second database and
uploads those too.

    session files ─┐ local, local-compact
                   ├─> ledger ──generation protocol──> usage_events,       ─┐
    cc-switch.db ──┘   (+ upload baseline)             daily snapshots      │
                                                         │ commit / purge    ├─> dashboard
    quota API ─> quota-history.db ──batches──>         hourly + billing cache│
                                                       quota observations   ─┘
                                                         │ triggers, worker
                                                       current + reset cache

### Components, their state and operations

| component | state | operations | interacts through |
|---|---|---|---|
| cc-switch mirror (`usage_ledger.rs:530-580, 965-1099`) | ledger copies of rows and rollups, `compaction_barriers`, `sync_seen_requests` | read a page, delete unseen rows, mirror rollups, raise barriers | reads the database of another program that writes it meanwhile |
| local collection (`usage_ledger.rs:582-646, 1101-1160, 445-470`) | ledger rows, rollups, barriers, `session_log_sync`, `session_usage_dedup` | stamp, parse, defer, import, compact, rebuild | session files that grow while they are read |
| Codex importer (`session-usage-core/src/codex.rs`) | none of its own between passes | parse a rollout, resolve the parent of a fork, number and emit records | rollouts Codex is writing; the ledger's cursors |
| poll loop (`main.rs:187-226`) | the last observed fingerprint | wake, pass, upload, observe | calls the three above and the upload |
| upload client (`lib.rs:337-578`) | `upload_remotes`, `upload_hashes` (the baseline) | diff, begin, stage, commit, retry, save the baseline | HTTP requests that are lost, repeated, late |
| generation server (`sync_v2.rs`) | `sync_generations`, staging tables, visible rows | begin, stage events / rollups / providers, commit | one database mutex; marks the cache dirty |
| hourly and billing cache (`usage_cache.rs`, `billing_cache.rs`) | partitions, hourly rows, billed costs, revision | mark dirty, rebuild one hour per pass, restart | commits, purges, settings, dashboard queries |
| dashboard queries (`dashboard.rs`) | none | choose cache or detail for a range; totals, trend | reads the cache under the settings |
| quota client (`quota.rs`) | observations, provider states, cursor | collect, load a batch, send, save the cursor, replay | two processes on one cursor |
| quota server (`telemetry-server/src/quota.rs`, `quota_cache.rs`) | observations, provider states, sample / current / reset cache | ingest, triggers, rebuild, purge | batches in any order; the worker |
| quota dashboard (`quota.rs:844-975`) | none | thin a series into buckets, keep its gaps | reads the sample cache |
| server start (`lib.rs:148-491`, `nodes.rs:18-118`) | the schema and rows any earlier version left | create tables, add columns, rebuild v3 tables, give nodes records and move their rows | runs before the listener is open, on what uploads of earlier versions stored |
| administration (`admin.rs`, `nodes.rs`, `settings.rs`) | sessions, tokens, the settings file and its copy in memory | login, create / rename / revoke node, purge, save settings | purge cuts through everything above; tokens decide who may upload |
| parsers, prices, web pages, scripts | none | | |

### What is hard, and what correct means

* **Upload.** Any request, or its answer, may be lost, repeated or late; the
  client may stop between any two steps, the server may be purged between two
  requests. Correct: what the server shows moves only by whole planned
  generations, and the diffs a client sends are against what the server holds,
  also where the ledger has detail beside a rollup of its day.
* **Mirror.** Pages are read in transactions of their own while the source is
  written. Correct: no row is deleted that the source always had; a quiet pass
  leaves a mirror; the server ends up showing the source.
* **Local collection.** Files grow between being stamped, read and
  committed; compaction deletes what an import may bring back. Correct: each
  request is counted once, none is passed over for good, none is lost.
* **Codex forks.** A fork's file repeats its parent's history, both are
  behind the threads that write them. Correct: a call is counted once, with
  what it used, under the right thread, and in the end.
* **Caches.** Commits, purges, settings changes, a background worker and
  restarts interleave. Correct: no state of a cache changes an answer, and the
  caches become ready again.
* **Quota.** Two uploaders share one cursor; batches arrive again, late and
  after a purge, and the server refuses some. Correct: the cursor never passes
  what was not stored, every sample arrives that no refused row or state stands
  in the way of, derived values are those of the ordered history.

* **Server start.** A start may stop between any two statements of a migration,
  clients and administrators write between two starts, and rows of one machine
  are found under several names. Correct: a start fails only over daily rollups
  without the bounds of their days, and then before it moves a row; none loses or
  merges what was stored, and a migrated database is left alone.
* **Administration.** A handler asks who is there under one lock and works under
  another, a save of the settings waits in between. Correct: a revoked token and
  an ended session let nothing more in, rows are stored under the token's own
  node, and the settings file is always one that was saved whole.

The list of hazards with their lines is in `PROJECT.json`; six of them have no
property, each with the reason.

## 2. The modules

Each component module has its state as variables, one action per transaction or
handler, `Next`, `Spec`, `LiveSpec` where liveness is checked, then its
properties. An MC module gives the instances; a `...Proofs` module the theorems.
Operators commented *Mutant* are wrong variants of the definition behind them;
no specification uses them.

| module | models |
|---|---|
| `UsageData` | rows of a node as functions from keys to contents, mutations, the diff of two row sets, what applying a generation does (pure) |
| `NodeReplica` | abstract specification: rows move by applying one offered generation whole, at most once between purges |
| `UsageSync` | protocol v3 for one node: client, network, server, rebuild, purge |
| `UsageCache` | hourly and billing cache, its writers, the worker, and the dashboard's choice of source |
| `CcSwitchMirror` | poll loop and pass of `--source cc-switch`, with cc-switch as an environment |
| `LocalUsage` | poll loop, import and compaction of `local` and `local-compact`, `rebuild` |
| `CodexSessions` | the import of a Codex thread and its fork, with Codex as an environment |
| `QuotaUpload` | quota collection, the two uploaders, the server's ingest and purge |
| `QuotaResets` | sample, current and reset caches: triggers, worker, query |
| `QuotaHistory` | the series the quota dashboard thins out of the same samples |
| `ServerStart` | `init_db` statement by statement on databases of versions 2 and 3, `nodes::ensure_schema`, and what is written between starts |
| `SettingsDocument` | accepting, normalizing and pricing the document of settings.json (pure) |
| `ServerAdmin` | the server once it is up: tokens, sessions, handlers in two stages, saves of the settings, stops and starts |

`NodeReplica` and `UsageSync` share `UsageData`; `UsageSync` instantiates
`NodeReplica` for its refinement. `QuotaHistory` extends `QuotaResets`: it reads
the samples that module stores. `ServerAdmin` extends `ServerStart` and
`SettingsDocument`: its uploads and node edits are those the next start finds,
and a start that cannot read the settings file ends. The composition of the
modules is by what one leaves to the next: `CcSwitchMirror` and `LocalUsage` end
a pass in `Upload`, one action here and the whole of `UsageSync` there;
`UsageCache` starts from any commit `UsageSync` may apply; `QuotaResets` lets
samples arrive in any order because `QuotaUpload` delivers them so; `LocalUsage`
takes whether a fork is deferred as an input, which `CodexSessions` computes.

### State and actions against the code

**UsageSync.** `plan` is what `sync_snapshot_v3_with_mode` computes before its
first request; the ledger is an input of `StartUpload`, any rows at all, since
nothing there (`lib.rs:346-347`) keeps detail and rollups of one day apart. A
request stays in `net` for ever: handling it again is a retry or a duplicate,
handling it after its upload ended is a late delivery, never handling it a loss.
Every server handler holds the database mutex from check to commit, hence one
action each. `CommitAcknowledged` and `SaveBaseline` are two steps because the
process may stop between them (`lib.rs:503-519`). `Abandon` is a stop or the
fifth failed attempt; `Refused` a status that is not retried. `ForgetBaseline`
is `rebuild` or a new server or token. A batch carries one row: how rows are
packed does not matter to a server that upserts each.

**UsageCache.** Time is in half-hour slots, the finest step at which a local
day can fall within a UTC hour in the zones checked. A cached aggregate is the
set of the requests it sums, so that "the sum is right" is "the set is right".
The worker's pass is `ReadSettings` (before the lock, `usage_cache.rs:207`) and
then `SkipPass` (the lock is busy) or `WorkerPass`. `Answer` is
`accounting_source`: raw edges, raw dirty hours, cached clean hours. `Overview`
is one query of the dashboard: totals and trend in one read transaction, the
trend from the same source if its buckets cannot cut a cached hour and from
detail alone if they can. `PassStops` is a pass that ends between two
statements; the states it leaves are also those that readers, on connections of
their own, see in the midst of any pass.

**CcSwitchMirror.** Rows are numbered by the order in which pages read them. A
page is one read of the source and one write of the ledger; `SourceWrite` and
`SourceCompact` may come between any two. `gone` and `quiet` are history
variables: which rows the source was without during the pass, and whether it
was written in it.

**LocalUsage.** A file only grows, so the set of its records is its stamp
(size and time). `Stamp`, `Parse` (or `Defer`), `Import`, `Compact`,
`RaiseBarriers`, `Upload`, `Observe` are the steps of a round; the last two
transactions of a compaction are separate in the code (`usage_ledger.rs:1157`
and `1158`) and here. A rollup is how often it counts each record.

**CodexSessions.** Lines are started / token / ended with a time, the thread's
total and the call's own use. The parent's file holds the first `flushed` of the
parent's lines. `Parse` reads the fork's file, `Commit` the parent's and stores
both; in between Codex writes on. `Sealed`, `SignaturesAt`,
`MatchingReplayPrefix`, `Repeated` and `Delta` are the functions of the same
names in the code; `Offsets` is the index its loop over the parent's signatures
has reached, `Totals` the high water of the session's cumulative counter, which
all models share (`codex.rs:575-577`). A fork copies its parent's lines so far,
the markers of turns included. `call` is not in the file: it says which call a
line is about, which is how the properties know what should be counted.

**QuotaUpload.** The steps of `upload_pending` for each of the two uploaders:
`Begin`, `LoadRows`, `LoadStates` (separate statements, `quota.rs:749`),
`Ingest` at the server, `Receive`, `SaveCursor` (which takes the maximum). An
uploader may give up at any step (`GiveUp`), and what it sent may still arrive
(`IngestLate`). `ValidBatch` is `validate_batch`, which answers 400 to a whole
batch for one state or one row: `LongIds` are the providers whose id or name only
the client takes (it allows an id of 512 bytes, the server one of 256), `valid`
says of a sample whether its metrics pass the server's stricter checks (a metric
of a balance without any value, a unit beyond 32 bytes), and a time must be above
zero. `AnswerTo` is what the server answers; a refusal is not retried, it ends
the upload (`Refused`) and leaves the cursor.

**QuotaResets, QuotaHistory.** A sample is (time, rank of its id, reset, used,
percentage or amount). `Arrive` is a batch with all triggers it fires, `Rebuild`
one call of `rebuild_reset_cache`. `RetainHistory` is a pure function, checked
in every state of `QuotaResets` for every range and bucket width.

**ServerStart.** A table is its version (`shape`) and the columns it lacks; a
row is the machine that made it (`src`, which no code reads), the node, app and
request it is stored under, and its event id; `Machine` is the request a row
stands for, whatever node it was moved to. `pc` names the statement of `init_db`
that is next, so that `Stop` may come between any two that are committed apart;
what is one transaction in the code (`MigrateV3Schema`, `MigrateNodes`) is one
action. Between the tables of its first batch stands `IndexDayBounds`
(`lib.rs:220-221`), which names columns that only a later statement adds
(`lib.rs:295-306`): it fails, and the start with it (`failed`), on a
`usage_daily_snapshots` without them. The next start, `Open`, tries again.
`Legacy` are the node values of the databases that knew machines by name only.
`UploadEvent`, `UploadRollup`, `BeginGeneration` and `NameNode` are what a
running server writes.

**ServerAdmin.** `request[h]` is what handler `h` was let in for, between the
lock under which it was checked (`ClientCheck`, `AdminCheck`) and the one under
which it works (`ClientWork`, `CreateNode`, ...). `PutSettings` is `admin_put`
up to its first `await`, `SavePut` what follows; `WriteTemp`, `RenameTemp` and
`FinishSave` are the three steps of `settings::save` that a stop can part.
`minted`, `retired`, `accepted` and `due` are history variables: for whom a
token was made, which tokens ended, what was stored for whom, which documents
the file may hold.

## 3. The runs

Times are for two workers on a small machine.

| run | instance | checks |
|---|---|---|
| `sync_safety` | 1 event with 2 contents, a rollup with 2, on the day of one of them; 2 generations, 1 purge, late delivery | `TypeOK`, `BaselineFollowsCommit`, `MirrorExact`, `ImplementsReplica`, `UploadSettles` (335 738 states, 2 min) |
| `sync_retry` | 3 generations, no purge, no late delivery | `RetryIsExact`, violated |
| `cache_safety` | 2 events, 2 hours, days on whole hours, 2 signatures, 2 commits or purges, 2 settings changes, buckets of half an hour, an hour and two at every offset | `TypeOK`, `QueriesExact`, `HoursExact`, `CacheCatchesUp` (45 732 states, 2 min) |
| `cache_halfhour` | a day that begins and ends within an hour | `QueriesExact`, violated |
| `mirror_pass` | 3 rows on 2 days, pages of 2, 4 writes, 1 error | `TypeOK`, `PassIsExact`, `DeletesOnlyGone`, `UndisturbedCatchesUp` |
| `mirror_missed` | 2 rows, 2 writes, no error | `MirrorCatchesUp`, violated |
| `local_compact` | 3 records in 2 files on 2 days, one identified, one deferred child, 3 stops | `TypeOK`, `CountedOnce`, `CursorsHonest`, `HistoryKept` |
| `local_crash` | 2 records, one stop, also within a compaction | `CountedOnce`, violated |
| `codex_fork` | 3 calls, 2 turns, 1 fork, 2 rate limit ids, 1 refresh | `TypeOK`, `CallsCountedOnce`, `NothingSkipped`, `CallsArrive` (300 987 states, 1 min) |
| `quota_upload` | 2 samples in batches of 1, of rows and states the server takes or refuses, a replay, a purge, a late request | `TypeOK`, `CursorHonest`, `StatesCarried`, `LastSuccessExact`, `ReplayResends`, `ObservationsArrive` (222 851 states, 3 min) |
| `quota_resets` | 4 samples of 5 contents, ranges and buckets of 1 to 3 | `TypeOK`, `CurrentIsLatest`, `ResetsExact`, `HistoryFaithful` (13 385 states) |
| `server_start` | databases of every earlier form: 2 machines known by name (with daily rollups, without, or with rollups that lack their bounds) or 1 v2 node, 2 tools that used one request id; 1 stop, 1 upload, 2 edits and saves, 2 handlers, 2 tokens, 1 session, documents with and without prices | `AdminTypeOK`, `StartSucceeds`, `HistoryKept`, `HistoryListed`, `LeftAlone`, `StoredUnderOwnNode`, `EndedStaysOut`, `SettingsKept` (1.70 million states, 3 min) |

What each property says is in the comment above it. The less obvious:

* `MirrorExact` (UsageSync): while `faithful`, that is while no commit went
  unacknowledged, came late or was purged away since the last full upload, the
  server *shows* the baseline, or the snapshot just committed (`Shows`): no row
  is stale, none is left over, and one is missing only if some committed
  generation carried a rollup of its day beside it (`Withheld`: the commit deletes
  that detail, `sync_v2.rs:857`, while the baseline keeps its hash and never sends
  it again). And what the commit's own rollups cover is not there in detail. The
  diff is computed from a baseline read before the first request; this is what
  makes it a diff against the server.
* `ImplementsReplica`: the whole protocol refines `NodeReplica`, with
  `applied` the committed generations. Staging is invisible, a commit is all or
  nothing, and a repeated one changes nothing.
* `QueriesExact` (UsageCache): for every range, under every settings the reader
  may hold, the chosen mix of cached hours and raw edges counts each request
  once, with its present content at the price of those settings, in the totals
  and in exactly the point of the trend whose bucket the request falls into; and
  the points drawn cover the range.
* `PassIsExact`, `DeletesOnlyGone` (CcSwitchMirror): what a pass achieves when
  undisturbed, and what it may never do when disturbed.
* `CursorsHonest` (LocalUsage): a file that will be skipped has nothing in it
  that was not counted or refused by a barrier.
* `CallsCountedOnce`, `NothingSkipped` (CodexSessions): the two ways in which
  the replayed prefix can be wrong, too short (a copy is counted again) and too
  long (an own call is taken for a copy), for every moment at which the
  two files may be read and every lag of the parent's file.
* `CursorHonest` (QuotaUpload): everything behind the cursor was stored by the
  server at some time, with two processes moving the cursor.
* `ObservationsArrive` (QuotaUpload): unless the server refuses a row at or in
  front of a sample, or so close behind it that one batch may hold both
  (`Blocked`), or refuses some provider's state for ever, the sample arrives.
  Nothing in the code skips a refused row (`quota.rs:792`): whatever follows it
  waits.
* `StartSucceeds` (ServerStart): a start that failed had daily rollups without
  the bounds of their days, and found the rows still under the names of their
  machines. No constraint of a migration ever fails one.
* `ResetsExact` (QuotaResets): the incremental fold, which skips what is known
  to be folded already, gives the runs of the ordered history.

### Why the bounds are enough

`sync_safety`: an event's two contents are on and off the rollup's day, so the
rollup may cover it, uncover it, stand beside it and move it; two generations
are what an old late commit behind a new one, or a purge followed by reuse,
need. With the rollup's two contents an upsert of a changed rollup happens.
Providers are empty in TLC's instances (they multiply the states by three and
touch nothing but `catalog`); the refinement theorem covers them.
`cache_safety`: an event can move between two hours, be replaced by a rollup,
and come back; two settings changes are needed to leave an hour priced under a
signature that no longer holds. `mirror_pass`: a full page, a partial one, and a
row after the cursor; four writes are one more than a delete, its late return
and a compaction. `local_compact`: a file over two days is read before, between
and after the days' compaction; three stops exceed the two that a stop in a pass
and another in its repetition need. `codex_fork`: a total-only call, a call
under another id, and one to be made by the fork or by the parent after it, with
a refresh that may be the last line copied. `quota_upload`: two batches, so that
the cursor has a middle, and either may be refused, for a row or for a state
that a later one replaces; `quota_resets`: four samples are a run of two, a
drift past the jitter, and a late one in between.

`server_start`: two machines known by name are the least that a migration could
merge, two tools with one request id the least whose event ids could collide;
with one stop every prefix of a migration is left once, and one upload writes
what the repeated start finds. Two handlers are two requests that overlap; two
tokens, an old one and its replacement. `MaxEdits` bounds node edits,
`MaxChanges` edits and saves of the settings together, `MaxUploads` and
`MaxStops` the rest. The symmetry set permutes names, uuids, tools, tokens and
handlers, which no definition tells apart (`MCServerAdmin`).

## 4. Fairness

* **UsageSync**: the server answers the request a client waits for
  (`WF(HandlePending)`: axum handlers run to their end and
  `post_json_with_retry` resends), and the client acts on an answer that it gets
  again and again (`SF` of its three continuations, because an answer may be
  lost). Nothing obliges a client to give up, a late request to arrive, or an
  administrator to purge. `UploadSettles` therefore shows that the server has an
  answer to everything, a repeated commit above all.
* **UsageCache**: `spawn_worker` loops (`WF(ReadSettings)`), time passes
  (`WF(Tick)`), and `try_lock` succeeds again and again (`SF(WorkerPass)`).
  `SkipPass` is allowed in any pass.
* **CcSwitchMirror**: `WF` of the loop's own steps. Errors and writes of others
  are never owed.
* **CodexSessions**: the importer keeps running (`WF` of `Parse`, and of
  `Commit`, stated by what only it does to `pc`), what Codex has written reaches
  the file (`WF(Flush)`), and a turn ends, in `task_complete` or
  `turn_aborted`, unless the thread is archived (`WF(TurnEnded)`). A new turn is
  never owed, so a fork may not wait for one.
* **QuotaUpload**: the collector ticks (`WF(CollectAny)`); its upload steps are
  strongly fair, since each can be preempted by giving up and restarting, and so
  is a refusal that gets back to the client. That the server takes what it gets is
  not assumed. Nothing is asked of the replay.

## 5. What is proved

Each `...Proofs` module shows its specification's invariants by a strengthening
`IInv` with `Init => IInv` and `IInv /\ [Next]_vars => IInv'`, one lemma per
action or group of actions, and a PTL step. The strengthening is in the
component's module, where TLC can evaluate it too, or, for `QuotaUpload`, among
its proofs. `QuotaHistoryProofs` is about `QuotaResets` and `QuotaHistory`,
`ServerAdminProofs` about `ServerStart` and `ServerAdmin`. All constants are
arbitrary within the assumptions the modules declare.

**UsageSyncProofs**: `TypeCorrect`, `MirrorIsExact`, `BaselineIsCommitted`,
`StagingIsClean`, `SyncImplementsReplica`, `DisjointIsWhole`. `SyncInv` adds:
requests exist only for planned generations and the client waits on its own
(`Ownership`); a plan upserts rollups of its own snapshot only, and a full plan
is the diff against nothing (`PlansSound`); an acknowledged generation is
committed, unless purged (`AcknowledgedCommit`); and, the core, while the chain
is undisturbed the diff being uploaded *is* a diff against what the server shows
(`DiffCurrent`). `EventApplied` and `RollupsApplied` are the lemmas about the
data: what the diff of two row sets makes of the first is the second, less the
detail that rollups cover; `CommitMirrors` carries this over to the server, and
`ShowsKept` says that what is withheld stays so. `DisjointIsWhole` is the case
the README has in mind (README.md:277-280): if no snapshot has detail beside a
rollup of its day, nothing is withheld, and the server has the baseline's rows,
or the committed snapshot's, every one. The refinement maps every step to a step
of `NodeReplica` or a stutter.

**UsageCacheProofs**: `CacheTypes`, `CacheIsExact` and `QueriesAreExact`, for
days on whole hours (`HourAligned`); `cache_halfhour` shows that the assumption
is needed. `CacheInv` adds `BilledCurrent`: no billed cost is that of a content
the event no longer has. `RangeCut` is the arithmetic of edges and hours,
`BucketHolds`, `RangeDrawn` and `HourInBucket` that of the trend's buckets.

**CcSwitchMirrorProofs**: `TypeCorrect`, `PassesAreExact`,
`OnlyGoneRowsAreDeleted`. `MirrorInv` says what a pass has met so far
(`MetOrGone`), that ledger rollups and barriers are never ahead of the source
(`RollupsBehind`), and what each finished step of a quiet pass has achieved
(`QuietProgress`).

**LocalUsageProofs**: `TypeCorrect`, `CursorsAreHonest`, `NothingIsLost`, and
`NothingIsCountedTwice`, the last for a client that does not stop within a
compaction (`local_crash` is what happens if it does). `LocalInv`: nothing in
the ledger that is not in a file; barriers are exactly before rolled days except
between the two transactions; an identity met is counted or refused; every
record under the stamp of a file that was read is in the report.

**QuotaUploadProofs**: `UploadTypeCorrect`, `CursorIsHonest`,
`StatesAreCarried`, `LastSuccessIsExact`, `ReplaysResend`. `UploadInv`: each
uploader's batch extends a sent prefix (`BatchHonest`), each batch on its way
carries the states of its rows' providers, and the server's last success is that
of what it stores. Why the client's batches are honest with two movers: a cursor
saved by one is behind rows the server stored, so the other's batch, loaded
after any such save, begins behind stored rows too. That a finite set of times
has a maximum (`MaxExists`) follows from the well-foundedness of finite subsets.
`ReplayInv` is the invariant of a replay: what it owes behind the shared cursor
or behind its batch is stored, and a batch without rows, which ends it, is one
with nothing owed ahead.

**QuotaHistoryProofs**: `ResetsTypeCorrect`, `CurrentStaysLatest`,
`ResetHistoryIsExact`, and `HistoryIsFaithful`, for every finite set of samples
in any batches and order. `ResetsInv` ties the row of the reset cache to the
samples (`RowInv`): it is dirty exactly while its revision is ahead of what was
cached; when it is clean it reaches the latest sample; and unless a sample
arrived behind what it reaches, its runs are those of one fold over all samples
up to there. The last is what lets a rebuild go on instead of starting again;
`Extension` is the lemma behind it: folding the later samples onto the runs of
the earlier ones is folding all. For the dashboard's series, `ReadInv` follows
the pass over the samples in order: what is shown and what is pending stand for
every sample read, and two points are joined only over a stretch without a gap.
The folds are functions on subsets; that they exist and step as their equations
say (`FoldedExists`, `FoldRunsStep`) is proved layer by layer of cardinality.

**CodexSessionsProofs**: `SessionTypes`, `CallsAreCountedOnce`,
`NoCallIsSkipped`, for any number of calls, turns, refreshes and rate limit ids.
`CodexInv` says what a rollout looks like and why counting it works. Each token
line is that of a new call, one above every earlier total, or repeats one that
the code recognizes as repeated (`TokensSound`), so `Delta` is one or nothing
(`SoundDelta`); what a line adds and its number depend only on the lines up to
it (`SameBeginning`, `SameNumber`), so that re-reading a file that has grown
changes no row. The lines up to the fork's time are the copies (`CopiesSound`);
`SealedHoldsCopies` shows that a parent's file which is taken for complete holds
all of them, by each of its three reasons; then `ReplayIs` shows that the
replayed prefix is exactly the copies, as matching finds each copy at its own
place and an own call's total at none. `LedgerSound` ties each row to the line
of an own call and each such line behind a cursor to its row. A mistake in
either direction, which the two properties exclude, would break it.

**ServerAdminProofs**, the start alone: `StartTypes`, `StartsSucceed`,
`NoHistoryLost`, `HistoriesListed`, `MigratedIsLeft`, for any number of
machines, tools, requests, stops, uploads and edits. `StartInv` says what the
code never states: a database is in one of two conditions, all rows under names
of machines and no node record (`ByName`), or all rows under the record made for
their machine (`ByUuid`), and the one transaction of `nodes::ensure_schema`
takes the first to the second, so that no stop leaves a third; ids have one of
the two formats and are distinct (`RowsDistinct`, `IdsFormatted`), and no two
records are for one machine (`OriginsDistinct`). `BoundsFirst` is what
`StartsSucceed` needs besides: the bounds of the days are there before any
migration begins, so that a start which fails over them has moved nothing.
`MovedRows` and `MovedRollups` are the lemmas about the migration: what was
distinct under names is distinct under records, because the older UNIQUE
constraint still holds of rows that nobody added to since.

The running server: `AdminTypes`, `StoredForOwnNode`, `WhatEndedStaysOut`,
`SettingsAreKept`, `AdminImplementsStart` and `AdminKeepsHistory`
(`HistoryKept`, `HistoryListed` and `LeftAlone` again, now with the handlers'
interleavings in place of single steps). `AdminStep` maps each step of the
server to one of `ServerStart` or a stutter, and `AdminImplementsStart` is the
refinement it gives; that a start never ends over its settings, and over its
database only as `StartSucceeds` says, is part of it. `AdminInv` adds that a
token is generated once and for one node, which nothing removes
(`TokensOfOneNode`, `KnownGrows`), so that the node a handler was let in for is
still the token's when it works (`AskedForOwnNode`). `SettingsInv` says that
whatever is in memory, in the file, in the temporary file or in the hands of a
handler is settled: accepted, and normalized already (`Settled`). That needs
normalizing to be idempotent and to keep what is acceptable so, facts about the
filter over the aliases (`RetainedProperties`) proved from its equation.

The library's induction theorems take an operator as a parameter, which the
provers cannot instantiate. Where a proof needs induction over numbers, sequences
or finite sets, it takes a smallest counterexample instead (`LeastNatural`,
`SmallestSet`), which `WFMin` gives for any well-founded relation.

Only model-checked: liveness (`UploadSettles`, `CacheCatchesUp`,
`UndisturbedCatchesUp`, `ObservationsArrive`, `CallsArrive`),
since the prover has no ENABLED and so no fairness; and the four claims that are
violated. Two theorems have a hypothesis that TLC's instances meet:
`CacheIsExact` and `QueriesAreExact` that days begin on whole hours, and
`NothingIsCountedTwice` that the client does not stop within a compaction;
`cache_halfhour` and `local_crash` show what happens without.

## 6. Assumptions and limits

* **UsageSync.** The ledger may hold any rows (`CcSwitchMirror` reaches ledgers
  with detail on a rolled day): what the commit deletes of them is out of sight
  until the row changes, the baseline is lost or a full upload is made without
  the rollup. One uploading process; a new generation id per upload. Content
  hashes do not collide.
* **UsageCache.** One node, one billing model; costs are (content, signature). A
  month bucket, which begins and ends with a day, is left out. `CacheCatchesUp`
  is claimed for at most one change of the settings: a second, made before the
  worker was done with the first, can leave an hour whose answers stay right but
  come from the detail.
* **CcSwitchMirror.** The fingerprint sees every write. Rows keep their place in
  the order of reading and their `created_at`; `DeletesOnlyGone` and
  `PassIsExact` count a detail row that arrives for a day already rolled up as
  mirrored (the barrier refuses it), where the comment at
  `usage_ledger.rs:532-534` speaks of a complete mirror. `UndisturbedCatchesUp`
  is what remains of the promise that fails in `mirror_missed`.
* **LocalUsage.** Session files only grow, a rebuild happens while the loop
  sleeps, and one parser's records keep their ids. Prices and the sums in a
  rollup are not modelled; `reconcile_codex_upgrade` is not.
* **CodexSessions.** Times strictly increase. The beginning of the turn that
  forks is in the parent's file by the time of the fork: a file that still ended
  at an older turn's end would be accepted (`codex.rs:177-192`, the comment
  there) and copies not yet in it counted twice. The fork copies all lines and
  its file is written at once. Refreshes come during a turn, one after a
  call. The parent is one file: pages and copies of it, missing timestamps and
  half-written lines (each of which defers the fork) are left out, as are
  sub-agents that copy nothing.
* **QuotaUpload.** One remote, one metric per observation, contiguous sequence
  numbers. TLC's items are successful samples; failures are covered by the
  theorems. The promise of `quota replay` (README.md:203-208) is checked for a
  replay during which the collector does not move the cursor; otherwise its
  saved maximum (`quota.rs:760`) cuts the replay short. The limits on a batch as
  a whole (2000 observations, 10 000 metrics, 1000 provider states where the
  client's catalogue allows 1024) are not modelled: `ObservationsArrive` speaks
  of batches within them, which 512 rows, the default, are as a rule. An
  observation id with other content, which the server refuses for ever, is never
  produced.
* **QuotaResets.** `Rebuild` does not fail, and nothing is said of when it
  happens: the worker calls it for one metric a pass and goes on to the other
  caches (`usage_cache.rs:214-221`); an error would end the pass before them.
* **LocalUsage.** The loop compares the fingerprint of the ledger it writes
  itself (`main.rs:27`): after a round that succeeded, `Wake` waits for a
  restart, an error or a rebuild. The models have it so; no run is about it.
* **ServerStart.** The columns of a table are those the migrations add. Of the
  indices only the one on the bounds of the days is modelled, since it can fail;
  foreign keys and `user_version`, which nothing reads, are left out. Each
  statement outside the explicit transactions commits by itself. The administrator's
  purge is in the modules of what it cuts through, not in this one and
  `ServerAdmin`.
* **ServerAdmin.** Passwords, the confirmation phrase and the Secure flag of
  cookies are left out. Expired sessions stay in memory until they are presented
  (`admin.rs:101-119`). Uploads are single rows, whose protocol is `UsageSync`.
* **SettingsDocument.** Ranges, lengths and characters of values are left out;
  whether the catalogue has a price is a choice.
* Not modelled: parsers of other tools, which turn one line into one
  record; prices and SQL fragments (decimals the properties do not tell apart);
  filters and pages of events on the dashboard, quota cycle summaries; the web
  pages and scripts (presentation); the ingest queue of earlier protocols
  (`telemetry-server/src/lib.rs:86-134, 552-848`), which no route reaches any
  more. Validation of requests is modelled for the quota batches, some of which
  the client can produce and the server refuses; of the usage protocol it is left
  out.

## 7. Findings

Four statements of the repository that a run refutes; the full text is in
`PROJECT.json`.

| run | statement | what the code does |
|---|---|---|
| `sync_retry` | "Retrying after a crash is idempotent" (README.md:145-146) | after a committed upload whose answer was lost, the next diff is against an older baseline: a row changed by that upload and changed back since is not sent |
| `cache_halfhour` | "cache work never changes query results" (README.md:253-256) | a rollup day bounded within an hour clears the cached rows of an hour it leaves clean (`usage_cache.rs:101`) |
| `mirror_missed` | "The client watches the source database" (README.md:137) | the fingerprint is taken after the upload (`main.rs:218`): what was written since the rows were read is taken for mirrored |
| `local_crash` | "The two tables together remain the complete local history" (README.md:29-32) | a stop between the two transactions of a compaction lets a re-read file be counted again (`usage_ledger.rs:1157`) |

Two more things the models show, which no sentence of the repository denies:
databases whose daily rollups lack the bounds of their days never start, since
the index on the bounds (`lib.rs:220-221`) comes before the columns
(`lib.rs:295-306`); and a quota row that the server refuses keeps everything
behind it from ever arriving. `StartSucceeds` and `ObservationsArrive` say how far
each reaches.

## 8. Plan

Done, in this order: `UsageData`, `NodeReplica`, `UsageSync` and its proofs (the
protocol everything rests on); `UsageCache` and its proofs; `CcSwitchMirror`,
`LocalUsage` and theirs; `QuotaUpload` and its; `QuotaResets`, `QuotaHistory`;
`CodexSessions`; `ServerStart`, `SettingsDocument`, `ServerAdmin` and theirs; the
trend and the interrupted worker pass in `UsageCache`; then the proofs about
`QuotaResets`, `QuotaHistory`, `CodexSessions` and the settings.

What remains, most important first:

1. Two uploading processes on one ledger (`run` beside `rebuild --upload`):
   `UsageSync` with a set of clients that share the baseline.
2. `CodexSessions`: the parent in pages; a second fork, of the fork.
3. Algorithms over bounded inputs: quota cycle summaries (`quota_cycles.rs`),
   pages of the event list, bounds of a source-local day.

The runs are one per question; where two questions need the same instance they
share one, as the eight properties of `server_start` do. The violation runs are
kept until the code or the sentence they quote changes.
