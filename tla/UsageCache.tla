----------------------------- MODULE UsageCache -----------------------------
(***************************************************************************)
(* The disposable hourly projection of one node's usage_events            *)
(* (telemetry-server/src/usage_cache.rs), the per-event billing projection *)
(* it is computed through (billing_cache.rs), their invalidation by        *)
(* commits (sync_v2.rs) and purges (admin.rs), the background worker that  *)
(* rebuilds them, and the source a dashboard query reads (dashboard.rs).   *)
(*                                                                         *)
(* Time is cut into half-hour slots, the finest step at which the bounds   *)
(* of a source-local day differ from whole UTC hours in the instances      *)
(* checked.  Every event is of one model, so one billing signature applies *)
(* to all rows; a cached aggregate is the set of the requests it counts,   *)
(* each with the content and the signature its cost was computed from.     *)
(***************************************************************************)
EXTENDS Integers, FiniteSets

CONSTANTS
  Events,      \* request keys of the node
  Hours,       \* number of UTC hours
  DayRanges,   \* [from, to) slot bounds of source-local days with a rollup
  Signatures,  \* billing signatures of the settings
  Base,        \* the signature of settings without component adjustment
  None, Keep, Delete,
  BatchLimit,  \* events billed per worker pass (2000 in the code)
  MaxCommits, MaxSettings  \* bounds on commits and purges, on settings changes

SlotsPerHour == 2
AllHours == 0 .. Hours - 1
Slots == 0 .. Hours * SlotsPerHour - 1

ASSUME HourAssumption == Hours \in Nat /\ Base \in Signatures
ASSUME RangeAssumption ==
  \A d \in DayRanges : d = [from |-> d.from, to |-> d.to] /\ d.from \in Nat /\ d.to \in Nat
ASSUME MarkAssumption ==
  /\ {None, Keep, Delete} \cap (Slots \cup Signatures) = {}
  /\ None # Keep /\ None # Delete /\ Keep # Delete
ASSUME LimitAssumption ==
  BatchLimit \in Nat \ {0} /\ MaxCommits \in Nat /\ MaxSettings \in Nat

(* Source-local days begin and end on whole UTC hours. *)
HourAligned ==
  \A d \in DayRanges : d.from % SlotsPerHour = 0 /\ d.to % SlotsPerHour = 0

VARIABLES
  events,    \* usage_events: the slot of created_at, or None
  part,      \* usage_cache_partitions.state
  rows,      \* usage_hourly_cache
  billed,    \* usage_billing_cache
  settings,  \* signature of the saved settings
  revisionSeen, seenSignature,  \* billing_projection_meta: processed = revision, signature
  wsig,      \* signature the worker read for this pass, or None
  now,       \* the current UTC hour
  commits, changes

vars == <<events, part, rows, billed, settings, revisionSeen, seenSignature,
          wsig, now, commits, changes>>

Cost == [at : Slots, sig : Signatures]
Row == [event : Events, at : Slots, cost : Cost]

HourOf(s) == s \div SlotsPerHour

NoEvents == [e \in Events |-> None]

EventsIn(ev, h) == {e \in Events : ev[e] # None /\ HourOf(ev[e]) = h}

Init ==
  /\ events = NoEvents
  /\ part = [h \in AllHours |-> "absent"]
  /\ rows = [h \in AllHours |-> {}]
  /\ billed = [e \in Events |-> None]
  /\ settings = Base
  /\ revisionSeen = FALSE /\ seenSignature = None
  /\ wsig = None
  /\ now = 0 /\ commits = 0 /\ changes = 0

-----------------------------------------------------------------------------
(* The writers: commit and purge.                                          *)

InRange(s, d) == d.from <= s /\ s < d.to

(* The rows after the event mutations of a commit. *)
Upserted(base, muts) ==
  [e \in Events |-> IF muts[e] = Delete THEN None
                    ELSE IF muts[e] = Keep THEN base[e] ELSE muts[e]]

(* The rows after its rollups have replaced the detail of their days. *)
Replaced(ev, days) ==
  [e \in Events |->
    IF ev[e] # None /\ \E d \in days : InRange(ev[e], d) THEN None ELSE ev[e]]

(* Mutant: an updated event dirties the hour it moves to and not the hour  *)
(* it leaves.                                                              *)
TouchedOnArrival(full, muts) ==
  {HourOf(muts[e]) : e \in {e \in Events : muts[e] \in Slots /\ (full \/ muts[e] # events[e])}}

(* mark_event_dirty for every deleted, changed or inserted event (the hour *)
(* it had and the hour it gets), mark_node_dirty for a full replacement.   *)
TouchedHours(full, muts) ==
  {HourOf(muts[e]) : e \in {e \in Events : muts[e] \in Slots /\ (full \/ muts[e] # events[e])}}
    \cup {HourOf(events[e]) :
            e \in {e \in Events : events[e] # None
                                    /\ (full \/ muts[e] \notin {Keep, events[e]})}}

(* mark_range_dirty: partitions are dirtied where the range holds detail,  *)
(* cached rows are deleted from the hour the range begins in up to its end.*)
RangeDirty(ev, days) ==
  {HourOf(ev[e]) : e \in {e \in Events : ev[e] # None /\ \E d \in days : InRange(ev[e], d)}}

RangeCleared(days) ==
  {h \in AllHours : \E d \in days : HourOf(d.from) <= h /\ h * SlotsPerHour < d.to}

(* commit: one transaction.  muts gives each event's mutation, days the    *)
(* days of its rollup upserts.  The triggers on usage_events count every   *)
(* row written and forget the cost of every event changed or deleted.      *)
Commit ==
  /\ commits < MaxCommits
  /\ commits' = commits + 1
  /\ \E full \in BOOLEAN, muts \in [Events -> Slots \cup {Keep, Delete}],
        days \in SUBSET DayRanges :
       LET base == IF full THEN NoEvents ELSE events
           mid == Upserted(base, muts)
           dirty == TouchedHours(full, muts) \cup RangeDirty(mid, days)
           cleared == (IF full THEN AllHours ELSE TouchedHours(full, muts))
                        \cup RangeCleared(days)
       IN  /\ events' = Replaced(mid, days)
           /\ part' = [h \in AllHours |-> IF h \in dirty THEN "dirty" ELSE part[h]]
           /\ rows' = [h \in AllHours |-> IF h \in cleared THEN {} ELSE rows[h]]
           /\ billed' = [e \in Events |->
                IF ~full /\ events'[e] = events[e] THEN billed[e] ELSE None]
           /\ revisionSeen' =
                (revisionSeen /\ base = events /\ mid = base /\ events' = mid)
  /\ UNCHANGED <<settings, seenSignature, wsig, now, changes>>

(* purge_logs(kind=request). *)
Purge ==
  /\ commits < MaxCommits
  /\ commits' = commits + 1
  /\ events' = NoEvents
  /\ part' = [h \in AllHours |-> "absent"]
  /\ rows' = [h \in AllHours |-> {}]
  /\ billed' = [e \in Events |-> None]
  /\ revisionSeen' = (revisionSeen /\ events = NoEvents)
  /\ UNCHANGED <<settings, seenSignature, wsig, now, changes>>

(* admin_put of other billing multipliers. *)
ChangeSettings(s) ==
  /\ changes < MaxSettings
  /\ s # settings
  /\ changes' = changes + 1
  /\ settings' = s
  /\ UNCHANGED <<events, part, rows, billed, revisionSeen, seenSignature, wsig, now, commits>>

(* The next UTC hour begins. *)
Tick ==
  /\ now < Hours
  /\ now' = now + 1
  /\ UNCHANGED <<events, part, rows, billed, settings, revisionSeen, seenSignature,
                 wsig, commits, changes>>

(* The server stops and starts: ensure_schema gives a partition to every   *)
(* hour that has detail and no partition.                                  *)
Restart ==
  /\ wsig' = None
  /\ part' = [h \in AllHours |->
       IF part[h] = "absent" /\ EventsIn(events, h) # {} THEN "dirty" ELSE part[h]]
  /\ UNCHANGED <<events, rows, billed, settings, revisionSeen, seenSignature,
                 now, commits, changes>>

-----------------------------------------------------------------------------
(* The worker.                                                             *)

(* settings::read, before the database lock is tried. *)
ReadSettings ==
  /\ wsig = None
  /\ wsig' = settings
  /\ UNCHANGED <<events, part, rows, billed, settings, revisionSeen, seenSignature,
                 now, commits, changes>>

(* The lock is taken by somebody else. *)
SkipPass ==
  /\ wsig # None
  /\ wsig' = None
  /\ UNCHANGED <<events, part, rows, billed, settings, revisionSeen, seenSignature,
                 now, commits, changes>>

(* Mutant: the adjusted cost has no fallback when none is cached.          *)
ProjectionUnbacked(bl, e, sig) ==
  IF sig # Base THEN bl[e] ELSE [at |-> events[e], sig |-> sig]

(* projection_sql: the cached cost when its signature matches, the cost    *)
(* computed from the row otherwise.                                        *)
Projection(bl, e, sig) ==
  IF sig # Base /\ bl[e] # None /\ bl[e].sig = sig
  THEN bl[e] ELSE [at |-> events[e], sig |-> sig]

(* Mutant: the rebuild reads created_at > start.                           *)
HourRowsAfterStart(bl, h, sig) ==
  {[event |-> e, at |-> events[e], cost |-> Projection(bl, e, sig)] :
     e \in {e \in EventsIn(events, h) : events[e] > h * SlotsPerHour}}

(* The aggregate rebuild_one_before writes for an hour. *)
HourRows(bl, h, sig) ==
  {[event |-> e, at |-> events[e], cost |-> Projection(bl, e, sig)] : e \in EventsIn(events, h)}

Unbilled(sig) ==
  {e \in Events : events[e] # None /\ sig # Base
                    /\ (billed[e] = None \/ billed[e].sig # sig)}

(* Mutant: rebuild_batch bills events and leaves clean hours as they are.  *)
NoStaleHours(sig) == {}

StaleHours(sig) ==
  {h \in AllHours : part[h] = "clean" /\ \E r \in rows[h] : r.cost.sig # sig}

Latest(hs) == CHOOSE h \in hs : \A k \in hs : k <= h

(* The first statement of rebuild_batch: up to BatchLimit events (bill).   *)
BillEvents(sig, bill) ==
  /\ bill \subseteq Unbilled(sig)
  /\ \/ bill = Unbilled(sig) /\ Cardinality(bill) <= BatchLimit
     \/ Cardinality(bill) = BatchLimit
  /\ billed' = [e \in Events |->
       IF e \in bill THEN [at |-> events[e], sig |-> sig] ELSE billed[e]]

(* rebuild_batch: skipped when this revision was done under this signature.*)
(* Bills events and reopens the latest hour whose cached costs have another*)
(* signature; when there was nothing to do, the revision is done.          *)
RebuildBatch(sig, bill) ==
  IF revisionSeen /\ seenSignature = sig
  THEN bill = {} /\ UNCHANGED <<billed, revisionSeen, seenSignature>>
  ELSE /\ BillEvents(sig, bill)
       /\ IF bill = {} /\ StaleHours(sig) = {}
          THEN revisionSeen' = TRUE /\ seenSignature' = sig
          ELSE UNCHANGED <<revisionSeen, seenSignature>>

(* The partitions rebuild_batch leaves to rebuild_one_before. *)
Reopened(sig) ==
  IF (revisionSeen /\ seenSignature = sig) \/ StaleHours(sig) = {}
  THEN part
  ELSE [part EXCEPT ![Latest(StaleHours(sig))] = "dirty"]

(* One pass under the lock: rebuild_batch, then rebuild_one_before on one  *)
(* dirty hour that is over.                                                *)
WorkerPass ==
  /\ wsig # None
  /\ wsig' = None
  /\ \E bill \in SUBSET Events : RebuildBatch(wsig, bill)
  /\ LET open == Reopened(wsig)
         due == {h \in AllHours : open[h] = "dirty" /\ h < now}
     IN  IF due = {}
         THEN part' = open /\ UNCHANGED rows
         ELSE \E h \in due :
                /\ part' = [open EXCEPT ![h] = "clean"]
                /\ rows' = [rows EXCEPT ![h] = HourRows(billed', h, wsig)]
  /\ UNCHANGED <<events, settings, now, commits, changes>>

(* A pass that an error or a stop ends between its statements, which are   *)
(* committed one by one: events were billed, or rebuild_batch was through. *)
(* Readers have connections of their own and see these states during every *)
(* pass; the other writers wait for the lock.                              *)
PassStops ==
  /\ wsig # None
  /\ wsig' = None
  /\ \E bill \in SUBSET Events :
       \/ /\ ~(revisionSeen /\ seenSignature = wsig)
          /\ BillEvents(wsig, bill)
          /\ UNCHANGED <<part, revisionSeen, seenSignature>>
       \/ RebuildBatch(wsig, bill) /\ part' = Reopened(wsig)
  /\ UNCHANGED <<events, rows, settings, now, commits, changes>>

Next ==
  \/ Commit \/ Purge
  \/ \E s \in Signatures : ChangeSettings(s)
  \/ Tick \/ Restart
  \/ ReadSettings \/ SkipPass \/ WorkerPass \/ PassStops

Spec == Init /\ [][Next]_vars

(* spawn_worker loops for ever, and the lock is free often enough.         *)
Fairness == WF_vars(Tick) /\ WF_vars(ReadSettings) /\ SF_vars(WorkerPass)

LiveSpec == Spec /\ Fairness

-----------------------------------------------------------------------------
(* The reader: accounting_source for the half-open range [from, to).       *)

(* valid_hour_sql *)
ValidHour(h, sig) == \A r \in rows[h] : r.cost.sig = sig

(* An answer is a set of counted requests, tagged with the branch of the   *)
(* UNION ALL that counts them: a request in two branches is counted twice. *)
Detail(evs, tag, sig) ==
  {[from |-> tag, event |-> e, at |-> events[e], cost |-> Projection(billed, e, sig)] : e \in evs}

EventsFrom(from, to) == {e \in Events : events[e] # None /\ from <= events[e] /\ events[e] < to}

FullStart(from) ==
  IF from % SlotsPerHour = 0 THEN from ELSE (HourOf(from) + 1) * SlotsPerHour

FullEnd(to) == HourOf(to) * SlotsPerHour

HoursOf(lo, hi) == {h \in AllHours : lo <= h * SlotsPerHour /\ h * SlotsPerHour < hi}

Answer(from, to, sig) ==
  LET lo == FullStart(from)
      hi == FullEnd(to)
      raw == {h \in HoursOf(lo, hi) :
                part[h] # "absent" /\ (part[h] = "dirty" \/ ~ValidHour(h, sig))}
      cached == {h \in HoursOf(lo, hi) : part[h] = "clean" /\ ValidHour(h, sig)}
  IN  IF lo >= hi
      THEN Detail(EventsFrom(from, to), "edge", sig)
      ELSE Detail(EventsFrom(from, lo) \cup EventsFrom(hi, to), "edge", sig)
             \cup Detail({e \in Events : \E h \in raw : e \in EventsIn(events, h)}, "dirty", sig)
             \cup {[from |-> "cache", event |-> r.event, at |-> r.at, cost |-> r.cost] :
                     r \in UNION {rows[h] : h \in cached}}

(* resolve_query refuses a range that ends before it begins.  A bucket is  *)
(* half an hour, an hour or two hours wide; the offset of a day bucket from*)
(* UTC is taken modulo its width, that of the others is 0.  (A month is    *)
(* left out: it begins and ends with a day.)                               *)
Times == 0 .. Hours * SlotsPerHour
Widths == {1, SlotsPerHour, 2 * SlotsPerHour}

BucketOf(t, width, offset) == ((t + offset) \div width) * width - offset

(* query_trend: hours that a bucket boundary could cut are read raw.       *)
TrendSource(from, to, width, offset, sig) ==
  IF width % SlotsPerHour = 0 /\ offset % SlotsPerHour = 0
  THEN Answer(from, to, sig)
  ELSE Detail(EventsFrom(from, to), "edge", sig)

(* The created_at of a row of the source: a cached aggregate has the       *)
(* beginning of its hour.                                                  *)
CreatedAt(r) == IF r.from = "cache" THEN HourOf(r.at) * SlotsPerHour ELSE r.at

(* The points that are drawn, empty ones included. *)
Points(from, to, width, offset) ==
  {b \in -offset .. to :
     /\ BucketOf(from, width, offset) <= b /\ b <= BucketOf(to - 1, width, offset)
     /\ (b - BucketOf(from, width, offset)) % width = 0}

(* What each point of the trend counts. *)
Trend(from, to, width, offset, sig) ==
  LET source == TrendSource(from, to, width, offset, sig)
  IN [b \in Points(from, to, width, offset) |->
        {r \in source : BucketOf(CreatedAt(r), width, offset) = b}]

(* query_overview: the totals and the trend, in one read transaction. *)
Overview(from, to, width, offset, sig) ==
  [summary |-> Answer(from, to, sig), trend |-> Trend(from, to, width, offset, sig)]

-----------------------------------------------------------------------------
(* Every table holds values of its schema, a missing cost above all.       *)
TypeOK ==
  /\ events \in [Events -> Slots \cup {None}]
  /\ part \in [AllHours -> {"absent", "dirty", "clean"}]
  /\ rows \in [AllHours -> SUBSET Row]
  /\ billed \in [Events -> Cost \cup {None}]
  /\ settings \in Signatures
  /\ revisionSeen \in BOOLEAN /\ seenSignature \in Signatures \cup {None}
  /\ wsig \in Signatures \cup {None}
  /\ now \in 0 .. Hours
  /\ commits \in 0 .. MaxCommits /\ changes \in 0 .. MaxSettings

(* The requests evs as a query counts them.  *)
Priced(evs, sig) ==
  {[event |-> e, at |-> events[e], cost |-> [at |-> events[e], sig |-> sig]] : e \in evs}

(* Each of the requests evs is in the answer once, as priced under sig.    *)
Counts(answer, evs, sig) ==
  /\ {[event |-> r.event, at |-> r.at, cost |-> r.cost] : r \in answer} = Priced(evs, sig)
  /\ \A r, q \in answer : r.event = q.event => r = q

(* README.md:255-256: cache work never changes query results.  Whatever    *)
(* range is asked, under whatever settings the reader holds, every request *)
(* in the range is counted once, with its own content and a cost computed  *)
(* from that content under those settings: in the summary, and in the one  *)
(* point of the trend whose bucket it falls into.                          *)
QueriesExact ==
  \A from, to \in Times, sig \in Signatures, width \in Widths :
    \A offset \in 0 .. width - 1 :
      from < to =>
        LET view == Overview(from, to, width, offset, sig)
            points == DOMAIN view.trend
        IN  /\ Counts(view.summary, EventsFrom(from, to), sig)
            /\ \A b \in points :
                 Counts(view.trend[b], EventsFrom(from, to) \cap EventsFrom(b, b + width), sig)
            /\ \A t \in from .. to - 1 : \E b \in points : b <= t /\ t < b + width

(* Why they are exact: an hour marked clean caches exactly its detail, all *)
(* of it priced under one signature from its present content, and an hour  *)
(* without a partition has none.                                           *)
HoursExact ==
  \A h \in AllHours :
    /\ part[h] = "clean" =>
         \E sig \in Signatures : rows[h] = Priced(EventsIn(events, h), sig)
    /\ part[h] = "absent" => EventsIn(events, h) = {}

(* An hour the reader takes from the cache under the saved settings. *)
Ready(h) == EventsIn(events, h) = {} \/ (part[h] = "clean" /\ ValidHour(h, settings))

(* billing_cache.rs:107-108: reads fall back to raw "until it is ready":   *)
(* once commits and settings changes stop, every hour that is over is      *)
(* served from the cache again, if the settings were not changed a second  *)
(* time (changed back before the worker was done with the first change,    *)
(* they leave an hour that no pass looks at again).                        *)
CacheCatchesUp == <>[](changes <= 1 => \A h \in AllHours : h < now => Ready(h))

(* The billing projection never holds the cost of a content the event no   *)
(* longer has.                                                             *)
BilledCurrent == \A e \in Events : billed[e] # None => billed[e].at = events[e]

CacheInv == TypeOK /\ BilledCurrent /\ HoursExact
=============================================================================
