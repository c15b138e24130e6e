-------------------------- MODULE UsageCacheProofs --------------------------
(***************************************************************************)
(* When source-local days begin and end on whole UTC hours, the hourly     *)
(* cache never changes what a query counts, for any events, days, billing  *)
(* signatures and number of hours.  The induction is on CacheInv: an hour  *)
(* marked clean caches exactly its detail, priced under one signature.     *)
(***************************************************************************)
EXTENDS UsageCache, TLAPS

LEMMA SlotHour ==
  ASSUME NEW s \in Slots
  PROVE  /\ HourOf(s) \in AllHours
         /\ HourOf(s) * SlotsPerHour <= s
         /\ s < (HourOf(s) + 1) * SlotsPerHour
BY HourAssumption DEF Slots, AllHours, HourOf, SlotsPerHour

(* mark_range_dirty clears an hour exactly when the whole hour lies in the *)
(* day: a day bound within the hour would make the difference.             *)
LEMMA ClearedHourInDay ==
  ASSUME HourAligned, NEW d \in DayRanges, NEW s \in Slots
  PROVE  InRange(s, d) <=> HourOf(d.from) <= HourOf(s) /\ HourOf(s) * SlotsPerHour < d.to
<1>1. d.from \in Nat /\ d.to \in Nat /\ d.from % 2 = 0 /\ d.to % 2 = 0
  BY RangeAssumption DEF HourAligned, SlotsPerHour
<1>2. s \in Nat
  BY HourAssumption DEF Slots, SlotsPerHour
<1>3. QED
  BY <1>1, <1>2 DEF InRange, HourOf, SlotsPerHour

-----------------------------------------------------------------------------
(* The commit.                                                             *)

Mutations == [Events -> Slots \cup {Keep, Delete}]

(* The rows of a commit between its event mutations and its rollups. *)
Mid(full, muts) == Upserted(IF full THEN NoEvents ELSE events, muts)

LEMMA MidType ==
  ASSUME TypeOK, NEW full \in BOOLEAN, NEW muts \in Mutations,
         NEW days \in SUBSET DayRanges
  PROVE  /\ Mid(full, muts) \in [Events -> Slots \cup {None}]
         /\ Replaced(Mid(full, muts), days) \in [Events -> Slots \cup {None}]
BY DEF TypeOK, Mid, Upserted, Replaced, NoEvents, Mutations

(* An hour the commit does not dirty keeps its detail.                     *)
LEMMA UndirtiedHour ==
  ASSUME TypeOK, NEW full \in BOOLEAN, NEW muts \in Mutations,
         NEW days \in SUBSET DayRanges, NEW h \in AllHours,
         h \notin TouchedHours(full, muts), h \notin RangeDirty(Mid(full, muts), days)
  PROVE  /\ \A e \in Events :
              e \in EventsIn(Replaced(Mid(full, muts), days), h) <=> e \in EventsIn(events, h)
         /\ \A e \in EventsIn(events, h) : Replaced(Mid(full, muts), days)[e] = events[e]
         /\ full => EventsIn(events, h) = {}
         /\ \A e \in EventsIn(events, h) : Mid(full, muts)[e] = events[e]
<1>1. Mid(full, muts) \in [Events -> Slots \cup {None}]
  BY MidType
<1>2. ASSUME NEW e \in Events, e \in EventsIn(events, h)
      PROVE  ~full /\ Mid(full, muts)[e] = events[e]
  <2>1. ~full /\ muts[e] \in {Keep, events[e]}
    BY <1>2 DEF TouchedHours, EventsIn, TypeOK
  <2>2. QED
    BY <1>2, <2>1, MarkAssumption DEF Mid, Upserted, EventsIn, TypeOK
<1>3. ASSUME NEW e \in Events, Mid(full, muts)[e] # None, HourOf(Mid(full, muts)[e]) = h
      PROVE  /\ Replaced(Mid(full, muts), days)[e] = Mid(full, muts)[e]
             /\ events[e] = Mid(full, muts)[e]
  <2>1. ~\E d \in days : InRange(Mid(full, muts)[e], d)
    BY <1>3 DEF RangeDirty
  <2>2. CASE muts[e] = Keep
    BY <1>3, <2>1, <2>2, <1>1, MarkAssumption DEF Mid, Upserted, Replaced, NoEvents, Mutations
  <2>3. CASE muts[e] # Keep
    <3>1. muts[e] \in Slots /\ Mid(full, muts)[e] = muts[e]
      BY <1>3, <2>3, MarkAssumption DEF Mid, Upserted, Mutations
    <3>2. ~full /\ muts[e] = events[e]
      BY <1>3, <3>1 DEF TouchedHours
    <3>3. QED
      BY <1>3, <2>1, <3>1, <3>2, <1>1 DEF Replaced
  <2>4. QED
    BY <2>2, <2>3
<1>4. \A e \in Events : e \in EventsIn(Replaced(Mid(full, muts), days), h) <=> e \in EventsIn(events, h)
  BY <1>2, <1>3 DEF EventsIn, Replaced
<1>5. \A e \in EventsIn(events, h) : Replaced(Mid(full, muts), days)[e] = events[e]
  BY <1>2, <1>3 DEF EventsIn
<1>6. QED
  BY <1>2, <1>4, <1>5 DEF EventsIn

(* An undirtied hour whose cached rows mark_range_dirty deletes holds no   *)
(* detail, so its rows were empty anyway.                                  *)
LEMMA ClearedHourEmpty ==
  ASSUME HourAligned, TypeOK, NEW full \in BOOLEAN, NEW muts \in Mutations,
         NEW days \in SUBSET DayRanges, NEW h \in AllHours,
         h \notin TouchedHours(full, muts), h \notin RangeDirty(Mid(full, muts), days),
         h \in RangeCleared(days)
  PROVE  EventsIn(events, h) = {}
<1>1. SUFFICES ASSUME NEW e \in EventsIn(events, h) PROVE FALSE
  OBVIOUS
<1>2. e \in Events /\ events[e] \in Slots /\ HourOf(events[e]) = h
  BY DEF EventsIn, TypeOK
<1>3. Mid(full, muts)[e] = events[e]
  <2>1. \A x \in EventsIn(events, h) : Mid(full, muts)[x] = events[x]
    BY UndirtiedHour, Zenon
  <2>2. QED
    BY <2>1
<1>4. PICK d \in days : HourOf(d.from) <= h /\ h * SlotsPerHour < d.to
  BY DEF RangeCleared
<1>5. InRange(events[e], d)
  BY <1>2, <1>4, ClearedHourInDay
<1>6. QED
  BY <1>2, <1>3, <1>5, MarkAssumption DEF RangeDirty

LEMMA CommitExact ==
  ASSUME HourAligned, CacheInv, Commit
  PROVE  BilledCurrent' /\ HoursExact'
<1>1. PICK full \in BOOLEAN, muts \in Mutations, days \in SUBSET DayRanges :
        LET mid == Mid(full, muts)
        IN  /\ events' = Replaced(mid, days)
            /\ part' = [h \in AllHours |->
                 IF h \in TouchedHours(full, muts) \cup RangeDirty(mid, days)
                 THEN "dirty" ELSE part[h]]
            /\ rows' = [h \in AllHours |->
                 IF h \in (IF full THEN AllHours ELSE TouchedHours(full, muts))
                            \cup RangeCleared(days)
                 THEN {} ELSE rows[h]]
            /\ billed' = [e \in Events |->
                 IF ~full /\ events'[e] = events[e] THEN billed[e] ELSE None]
  BY Zenon DEF Commit, Mutations, Mid
<1>2. /\ events' = Replaced(Mid(full, muts), days)
      /\ \A h \in AllHours :
           /\ part'[h] = IF h \in TouchedHours(full, muts) \cup RangeDirty(Mid(full, muts), days)
                         THEN "dirty" ELSE part[h]
           /\ rows'[h] = IF h \in (IF full THEN AllHours ELSE TouchedHours(full, muts))
                                    \cup RangeCleared(days)
                         THEN {} ELSE rows[h]
      /\ \A e \in Events : billed'[e] # None =>
           billed'[e] = billed[e] /\ events'[e] = events[e]
  BY <1>1
<1>3. TypeOK /\ BilledCurrent /\ HoursExact
  BY DEF CacheInv
<1>4. BilledCurrent'
  BY <1>2, <1>3 DEF BilledCurrent
<1>5. ASSUME NEW h \in AllHours, part'[h] # "dirty"
      PROVE  /\ part'[h] = "clean" =>
                  \E sig \in Signatures : rows'[h] = Priced(EventsIn(events, h), sig)'
             /\ part'[h] = "absent" => EventsIn(events, h)' = {}
  <2>1. h \notin TouchedHours(full, muts) /\ h \notin RangeDirty(Mid(full, muts), days) /\ part'[h] = part[h]
    BY <1>2, <1>5
  <2>2. /\ \A e \in Events : e \in EventsIn(Replaced(Mid(full, muts), days), h) <=> e \in EventsIn(events, h)
        /\ \A e \in EventsIn(events, h) : Replaced(Mid(full, muts), days)[e] = events[e]
        /\ full => EventsIn(events, h) = {}
    BY <1>3, <2>1, UndirtiedHour, Zenon
  <2>3. h \in RangeCleared(days) => EventsIn(events, h) = {}
    BY <1>3, <2>1, ClearedHourEmpty, Zenon
  <2>4. /\ EventsIn(events', h) = EventsIn(events, h)
        /\ \A e \in EventsIn(events, h) : events'[e] = events[e]
    BY <1>2, <2>2 DEF EventsIn
  <2>5. \A sig : Priced(EventsIn(events, h), sig)' = Priced(EventsIn(events, h), sig)
    BY <2>4 DEF Priced
  <2>6. ASSUME part[h] = "clean"
        PROVE  \E sig \in Signatures : rows'[h] = Priced(EventsIn(events, h), sig)
    <3>1. PICK sig \in Signatures : rows[h] = Priced(EventsIn(events, h), sig)
      BY <1>3, <2>6 DEF HoursExact
    <3>2. rows'[h] # rows[h] => EventsIn(events, h) = {} /\ rows'[h] = {}
      BY <1>2, <2>1, <2>2, <2>3
    <3>3. EventsIn(events, h) = {} => Priced(EventsIn(events, h), sig) = {}
      BY DEF Priced
    <3>4. QED
      BY <3>1, <3>2, <3>3
  <2>7. QED
    BY <1>3, <2>1, <2>4, <2>5, <2>6 DEF HoursExact
<1>6. QED
  BY <1>4, <1>5 DEF HoursExact

-----------------------------------------------------------------------------
(* The worker.                                                             *)

LEMMA ProjectionExact ==
  ASSUME NEW bl \in [Events -> Cost \cup {None}],
         \A e \in Events : bl[e] # None => bl[e].at = events[e],
         NEW e \in Events, NEW sig
  PROVE  Projection(bl, e, sig) = [at |-> events[e], sig |-> sig]
BY DEF Projection, Cost

LEMMA BillExact ==
  ASSUME TypeOK, BilledCurrent, NEW sig \in Signatures, NEW bill \in SUBSET Events,
         BillEvents(sig, bill)
  PROVE  /\ billed' \in [Events -> Cost \cup {None}]
         /\ \A e \in Events : billed'[e] # None => billed'[e].at = events[e]
<1>1. \A e \in bill : [at |-> events[e], sig |-> sig] \in Cost
  BY DEF BillEvents, Unbilled, Cost, TypeOK
<1>2. QED
  BY <1>1 DEF BillEvents, BilledCurrent, TypeOK

LEMMA BatchExact ==
  ASSUME CacheInv, NEW sig \in Signatures, NEW bill \in SUBSET Events,
         RebuildBatch(sig, bill)
  PROVE  /\ billed' \in [Events -> Cost \cup {None}]
         /\ \A e \in Events : billed'[e] # None => billed'[e].at = events[e]
         /\ revisionSeen' \in BOOLEAN /\ seenSignature' \in Signatures \cup {None}
<1>1. TypeOK /\ BilledCurrent
  BY DEF CacheInv
<1>2. CASE revisionSeen /\ seenSignature = sig
  BY <1>1, <1>2 DEF RebuildBatch, BilledCurrent, TypeOK
<1>3. CASE ~(revisionSeen /\ seenSignature = sig)
  <2>1. BillEvents(sig, bill)
    BY <1>3 DEF RebuildBatch
  <2>2. /\ billed' \in [Events -> Cost \cup {None}]
        /\ \A e \in Events : billed'[e] # None => billed'[e].at = events[e]
    BY <1>1, <2>1, BillExact
  <2>3. revisionSeen' \in BOOLEAN /\ seenSignature' \in Signatures \cup {None}
    BY <1>1, <1>3 DEF RebuildBatch, TypeOK
  <2>4. QED
    BY <2>2, <2>3
<1>4. QED
  BY <1>2, <1>3

LEMMA ReopenedPart ==
  ASSUME TypeOK, NEW sig
  PROVE  /\ Reopened(sig) \in [AllHours -> {"absent", "dirty", "clean"}]
         /\ \A h \in AllHours :
              /\ Reopened(sig)[h] = "clean" => part[h] = "clean"
              /\ Reopened(sig)[h] = "absent" => part[h] = "absent"
BY DEF Reopened, TypeOK

LEMMA WorkerExact ==
  ASSUME CacheInv, WorkerPass
  PROVE  CacheInv'
<1>1. TypeOK /\ BilledCurrent /\ HoursExact /\ wsig \in Signatures
  BY DEF CacheInv, WorkerPass, TypeOK
<1>2. /\ billed' \in [Events -> Cost \cup {None}]
      /\ \A e \in Events : billed'[e] # None => billed'[e].at = events[e]
      /\ revisionSeen' \in BOOLEAN /\ seenSignature' \in Signatures \cup {None}
  BY <1>1, BatchExact DEF WorkerPass
<1>3. UNCHANGED <<events, settings, now, commits, changes>> /\ wsig' = None
  BY DEF WorkerPass
<1>4. \A h \in AllHours : HourRows(billed', h, wsig) = Priced(EventsIn(events, h), wsig)
  BY <1>2, ProjectionExact DEF HourRows, Priced, EventsIn
<1>5. \A h \in AllHours : HourRows(billed', h, wsig) \in SUBSET Row
  BY <1>1, <1>4 DEF Priced, EventsIn, Row, Cost, TypeOK
<1>6. PICK h \in AllHours \cup {None} :
        \/ h \in AllHours
           /\ part' = [Reopened(wsig) EXCEPT ![h] = "clean"]
           /\ rows' = [rows EXCEPT ![h] = HourRows(billed', h, wsig)]
        \/ part' = Reopened(wsig) /\ rows' = rows
  BY DEF WorkerPass
<1>7. /\ part' \in [AllHours -> {"absent", "dirty", "clean"}]
      /\ rows' \in [AllHours -> SUBSET Row]
  BY <1>1, <1>5, <1>6, ReopenedPart DEF TypeOK
<1>8. HoursExact'
  <2>1. SUFFICES ASSUME NEW k \in AllHours
        PROVE  /\ part'[k] = "clean" =>
                    \E sig \in Signatures : rows'[k] = Priced(EventsIn(events, k), sig)
               /\ part'[k] = "absent" => EventsIn(events, k) = {}
    BY <1>3 DEF HoursExact, Priced, EventsIn
  <2>2. \/ rows'[k] = rows[k] /\ part'[k] = Reopened(wsig)[k]
        \/ rows'[k] = Priced(EventsIn(events, k), wsig) /\ part'[k] = "clean"
    BY <1>1, <1>4, <1>6, ReopenedPart DEF TypeOK
  <2>3. QED
    BY <1>1, <2>2, ReopenedPart DEF HoursExact
<1>9. QED
  BY <1>1, <1>2, <1>3, <1>7, <1>8 DEF CacheInv, TypeOK, BilledCurrent

(* What a pass that ends early leaves, and readers see during every pass. *)
LEMMA StoppedExact ==
  ASSUME CacheInv, PassStops
  PROVE  CacheInv'
<1>1. TypeOK /\ BilledCurrent /\ HoursExact /\ wsig \in Signatures
  BY DEF CacheInv, PassStops, TypeOK
<1>2. UNCHANGED <<events, rows, settings, now, commits, changes>> /\ wsig' = None
  BY DEF PassStops
<1>3. PICK bill \in SUBSET Events :
        \/ BillEvents(wsig, bill) /\ UNCHANGED <<part, revisionSeen, seenSignature>>
        \/ RebuildBatch(wsig, bill) /\ part' = Reopened(wsig)
  BY DEF PassStops
<1>4. /\ billed' \in [Events -> Cost \cup {None}]
      /\ \A e \in Events : billed'[e] # None => billed'[e].at = events[e]
      /\ revisionSeen' \in BOOLEAN /\ seenSignature' \in Signatures \cup {None}
  <2>1. CASE BillEvents(wsig, bill) /\ UNCHANGED <<part, revisionSeen, seenSignature>>
    BY <1>1, <2>1, BillExact DEF TypeOK
  <2>2. CASE RebuildBatch(wsig, bill)
    BY <1>1, <2>2, BatchExact
  <2>3. QED
    BY <1>3, <2>1, <2>2
<1>5. /\ part' \in [AllHours -> {"absent", "dirty", "clean"}]
      /\ \A h \in AllHours :
           /\ part'[h] = "clean" => part[h] = "clean"
           /\ part'[h] = "absent" => part[h] = "absent"
  BY <1>1, <1>3, ReopenedPart DEF TypeOK
<1>6. HoursExact'
  BY <1>1, <1>2, <1>5 DEF HoursExact, Priced, EventsIn
<1>7. QED
  BY <1>1, <1>2, <1>4, <1>5, <1>6 DEF CacheInv, TypeOK, BilledCurrent

-----------------------------------------------------------------------------
(* The specification.                                                      *)

LEMMA InitExact ==
  ASSUME Init
  PROVE  CacheInv
<1>1. TypeOK
  <2>1. /\ events \in [Events -> Slots \cup {None}]
        /\ part \in [AllHours -> {"absent", "dirty", "clean"}]
        /\ rows \in [AllHours -> SUBSET Row]
        /\ billed \in [Events -> Cost \cup {None}]
    BY DEF Init, NoEvents
  <2>2. 0 \in 0 .. Hours /\ 0 \in 0 .. MaxCommits /\ 0 \in 0 .. MaxSettings
    BY HourAssumption, LimitAssumption
  <2>3. QED
    BY <2>1, <2>2, HourAssumption DEF Init, TypeOK
<1>2. BilledCurrent
  BY DEF Init, BilledCurrent
<1>3. HoursExact
  BY DEF Init, HoursExact, EventsIn, NoEvents
<1>4. QED
  BY <1>1, <1>2, <1>3 DEF CacheInv

LEMMA CommitType ==
  ASSUME TypeOK, Commit
  PROVE  TypeOK'
<1>1. PICK full \in BOOLEAN, muts \in Mutations, days \in SUBSET DayRanges :
        /\ events' = Replaced(Mid(full, muts), days)
        /\ \E dirty : part' = [h \in AllHours |-> IF h \in dirty THEN "dirty" ELSE part[h]]
        /\ \E cleared : rows' = [h \in AllHours |-> IF h \in cleared THEN {} ELSE rows[h]]
        /\ \E kept : billed' = [e \in Events |-> IF e \in kept THEN billed[e] ELSE None]
        /\ revisionSeen' \in BOOLEAN
  <2>1. PICK full \in BOOLEAN, muts \in Mutations, days \in SUBSET DayRanges :
          LET base == IF full THEN NoEvents ELSE events
              mid == Mid(full, muts)
              dirty == TouchedHours(full, muts) \cup RangeDirty(mid, days)
              cleared == (IF full THEN AllHours ELSE TouchedHours(full, muts))
                           \cup RangeCleared(days)
          IN  /\ events' = Replaced(mid, days)
              /\ part' = [h \in AllHours |-> IF h \in dirty THEN "dirty" ELSE part[h]]
              /\ rows' = [h \in AllHours |-> IF h \in cleared THEN {} ELSE rows[h]]
              /\ billed' = [e \in Events |->
                   IF ~full /\ events'[e] = events[e] THEN billed[e] ELSE None]
              /\ revisionSeen' =
                   (revisionSeen /\ base = events /\ mid = base /\ events' = mid)
    BY Zenon DEF Commit, Mutations, Mid
  <2>2. billed' = [e \in Events |->
          IF e \in {x \in Events : ~full /\ events'[x] = events[x]} THEN billed[e] ELSE None]
    BY <2>1
  <2>3. QED
    BY <2>1, <2>2, Zenon
<1>2. events' \in [Events -> Slots \cup {None}]
  BY <1>1, MidType, Zenon
<1>3. commits' \in 0 .. MaxCommits
  BY LimitAssumption DEF Commit, TypeOK
<1>4. QED
  BY <1>1, <1>2, <1>3 DEF Commit, TypeOK

(* The steps that leave the detail, the cached rows and the billing        *)
(* projection alone, or clear them all.                                    *)
LEMMA QuietExact ==
  ASSUME CacheInv,
         \/ Purge
         \/ \E s \in Signatures : ChangeSettings(s)
         \/ Tick \/ Restart \/ ReadSettings \/ SkipPass
         \/ UNCHANGED vars
  PROVE  CacheInv'
<1>1. TypeOK /\ BilledCurrent /\ HoursExact
  BY DEF CacheInv
<1>2. CASE Purge
  <2>1. TypeOK'
    BY <1>1, <1>2, LimitAssumption DEF TypeOK, Purge, NoEvents
  <2>2. BilledCurrent' /\ HoursExact'
    BY <1>2 DEF Purge, BilledCurrent, HoursExact, EventsIn, NoEvents
  <2>3. QED
    BY <2>1, <2>2 DEF CacheInv
<1>3. CASE Restart
  <2>1. TypeOK'
    BY <1>1, <1>3 DEF TypeOK, Restart
  <2>2. BilledCurrent'
    BY <1>1, <1>3 DEF Restart, BilledCurrent
  <2>3. HoursExact'
    BY <1>1, <1>3 DEF Restart, HoursExact, TypeOK, EventsIn, Priced
  <2>4. QED
    BY <2>1, <2>2, <2>3 DEF CacheInv
<1>4. CASE \/ \E s \in Signatures : ChangeSettings(s)
           \/ Tick \/ ReadSettings \/ SkipPass \/ UNCHANGED vars
  <2>1. UNCHANGED <<events, part, rows, billed>>
    BY <1>4 DEF ChangeSettings, Tick, ReadSettings, SkipPass, vars
  <2>2. TypeOK'
    BY <1>1, <1>4, HourAssumption, LimitAssumption
    DEF TypeOK, ChangeSettings, Tick, ReadSettings, SkipPass, vars
  <2>3. BilledCurrent' /\ HoursExact'
    BY <1>1, <2>1 DEF BilledCurrent, HoursExact, EventsIn, Priced
  <2>4. QED
    BY <2>2, <2>3 DEF CacheInv
<1>5. QED
  BY <1>2, <1>3, <1>4

LEMMA StepExact ==
  ASSUME HourAligned, CacheInv, [Next]_vars
  PROVE  CacheInv'
<1>1. CASE Commit
  BY <1>1, CommitExact, CommitType DEF CacheInv
<1>2. CASE WorkerPass
  BY <1>2, WorkerExact
<1>3. CASE PassStops
  BY <1>3, StoppedExact
<1>4. CASE ~Commit /\ ~WorkerPass /\ ~PassStops
  BY <1>4, QuietExact DEF Next
<1>5. QED
  BY <1>1, <1>2, <1>3, <1>4

(* An hour marked clean caches exactly its detail, an hour without a       *)
(* partition has none, in every reachable state: sync_v2.rs and admin.rs   *)
(* invalidate enough, usage_cache.rs rebuilds enough.                      *)
THEOREM CacheIsExact ==
  ASSUME HourAligned
  PROVE  Spec => []HoursExact
<1>1. Init => CacheInv
  BY InitExact
<1>2. CacheInv /\ [Next]_vars => CacheInv'
  BY StepExact
<1>3. CacheInv => HoursExact
  BY DEF CacheInv
<1>4. QED
  BY <1>1, <1>2, <1>3, PTL DEF Spec

(* Every table holds values of its schema: no worker pass, rebuild or      *)
(* restart prices a row that is missing (usage_cache.rs, billing_cache.rs).*)
THEOREM CacheTypes ==
  ASSUME HourAligned
  PROVE  Spec => []TypeOK
<1>1. Init => CacheInv
  BY InitExact
<1>2. CacheInv /\ [Next]_vars => CacheInv'
  BY StepExact
<1>3. CacheInv => TypeOK
  BY DEF CacheInv
<1>4. QED
  BY <1>1, <1>2, <1>3, PTL DEF Spec

-----------------------------------------------------------------------------
(* The reader.                                                             *)

(* A query cuts its range into edges and whole hours without gap or        *)
(* overlap.                                                                *)
LEMMA RangeCut ==
  ASSUME NEW from \in Nat, NEW to \in Nat, NEW s \in Slots,
         FullStart(from) < FullEnd(to)
  PROVE  LET lo == FullStart(from)
             hi == FullEnd(to)
             whole == lo <= HourOf(s) * SlotsPerHour /\ HourOf(s) * SlotsPerHour < hi
             edge == (from <= s /\ s < lo) \/ (hi <= s /\ s < to)
         IN  /\ (from <= s /\ s < to) <=> (edge \/ whole)
             /\ ~(edge /\ whole)
<1>1. s \in Nat
  BY HourAssumption DEF Slots, SlotsPerHour
<1>2. CASE from % 2 = 0
  BY <1>1, <1>2 DEF FullStart, FullEnd, HourOf, SlotsPerHour
<1>3. CASE from % 2 # 0
  BY <1>1, <1>3 DEF FullStart, FullEnd, HourOf, SlotsPerHour
<1>4. QED
  BY <1>2, <1>3

Tagged(evs, tag, sig) ==
  {[from |-> tag, event |-> e, at |-> events[e], cost |-> [at |-> events[e], sig |-> sig]] :
     e \in evs}

LEMMA DetailTagged ==
  ASSUME CacheInv, NEW evs \in SUBSET Events, NEW tag, NEW sig
  PROVE  Detail(evs, tag, sig) = Tagged(evs, tag, sig)
<1>1. \A e \in evs : Projection(billed, e, sig) = [at |-> events[e], sig |-> sig]
  BY ProjectionExact DEF CacheInv, TypeOK, BilledCurrent
<1>2. QED
  BY <1>1 DEF Detail, Tagged

(* A clean hour whose signature is the reader's is what the reader would   *)
(* count in the detail.                                                    *)
LEMMA ValidHourExact ==
  ASSUME CacheInv, NEW h \in AllHours, NEW sig \in Signatures,
         part[h] = "clean", ValidHour(h, sig)
  PROVE  rows[h] = Priced(EventsIn(events, h), sig)
<1>1. PICK held \in Signatures : rows[h] = Priced(EventsIn(events, h), held)
  BY DEF CacheInv, HoursExact
<1>2. CASE EventsIn(events, h) = {}
  BY <1>1, <1>2 DEF Priced
<1>3. CASE EventsIn(events, h) # {}
  <2>1. PICK e \in EventsIn(events, h) : TRUE
    BY <1>3
  <2>2. [event |-> e, at |-> events[e], cost |-> [at |-> events[e], sig |-> held]] \in rows[h]
    BY <1>1, <2>1 DEF Priced
  <2>3. held = sig
    BY <2>2 DEF ValidHour
  <2>4. QED
    BY <1>1, <2>3
<1>4. QED
  BY <1>2, <1>3

LEMMA CacheBranch ==
  ASSUME NEW evs, NEW sig
  PROVE  {[from |-> "cache", event |-> r.event, at |-> r.at, cost |-> r.cost] :
            r \in Priced(evs, sig)} = Tagged(evs, "cache", sig)
<1> DEFINE row(e) == [event |-> e, at |-> events[e], cost |-> [at |-> events[e], sig |-> sig]]
           counted(r) == [from |-> "cache", event |-> r.event, at |-> r.at, cost |-> r.cost]
           one(e) == [from |-> "cache", event |-> e, at |-> events[e],
                      cost |-> [at |-> events[e], sig |-> sig]]
<1>1. \A e \in evs : counted(row(e)) = one(e)
  OBVIOUS
<1>2. Priced(evs, sig) = {row(e) : e \in evs} /\ Tagged(evs, "cache", sig) = {one(e) : e \in evs}
  BY DEF Priced, Tagged
<1> HIDE DEF row, counted, one
<1>3. {counted(r) : r \in {row(e) : e \in evs}} = {one(e) : e \in evs}
  BY <1>1
<1>4. QED
  BY <1>2, <1>3 DEF counted

LEMMA TaggedExact ==
  ASSUME NEW edge, NEW raw, NEW cached, NEW sig,
         edge \cap raw = {}, edge \cap cached = {}, raw \cap cached = {}
  PROVE  LET answer == Tagged(edge, "edge", sig) \cup Tagged(raw, "dirty", sig)
                         \cup Tagged(cached, "cache", sig)
         IN  /\ {[event |-> r.event, at |-> r.at, cost |-> r.cost] : r \in answer}
                  = Priced(edge \cup raw \cup cached, sig)
             /\ \A r, q \in answer : r.event = q.event => r = q
<1> DEFINE answer == Tagged(edge, "edge", sig) \cup Tagged(raw, "dirty", sig)
                       \cup Tagged(cached, "cache", sig)
           one(tag, e) == [from |-> tag, event |-> e, at |-> events[e],
                           cost |-> [at |-> events[e], sig |-> sig]]
<1>1. \A r : r \in answer <=>
        \/ \E e \in edge : r = one("edge", e)
        \/ \E e \in raw : r = one("dirty", e)
        \/ \E e \in cached : r = one("cache", e)
  BY DEF Tagged
<1>2. \A r, q \in answer : r.event = q.event => r = q
  BY <1>1
<1>3. \A r \in answer : [event |-> r.event, at |-> r.at, cost |-> r.cost]
                          \in Priced(edge \cup raw \cup cached, sig)
  BY <1>1 DEF Priced
<1>4. ASSUME NEW e \in edge \cup raw \cup cached
      PROVE  \E r \in answer : [event |-> r.event, at |-> r.at, cost |-> r.cost]
               = [event |-> e, at |-> events[e], cost |-> [at |-> events[e], sig |-> sig]]
  <2>1. one("edge", e) \in answer \/ one("dirty", e) \in answer \/ one("cache", e) \in answer
    BY <1>1
  <2>2. QED
    BY <2>1
<1>5. {[event |-> r.event, at |-> r.at, cost |-> r.cost] : r \in answer}
        = Priced(edge \cup raw \cup cached, sig)
  <2> HIDE DEF answer
  <2>1. \A x \in Priced(edge \cup raw \cup cached, sig) :
          \E r \in answer : x = [event |-> r.event, at |-> r.at, cost |-> r.cost]
    <3>1. SUFFICES ASSUME NEW x \in Priced(edge \cup raw \cup cached, sig)
          PROVE  \E r \in answer : x = [event |-> r.event, at |-> r.at, cost |-> r.cost]
      OBVIOUS
    <3>2. PICK e \in edge \cup raw \cup cached :
            x = [event |-> e, at |-> events[e], cost |-> [at |-> events[e], sig |-> sig]]
      BY DEF Priced
    <3>3. PICK r \in answer : [event |-> r.event, at |-> r.at, cost |-> r.cost]
            = [event |-> e, at |-> events[e], cost |-> [at |-> events[e], sig |-> sig]]
      BY <1>4
    <3>4. QED
      BY <3>2, <3>3
  <2>2. QED
    BY <1>3, <2>1
<1>6. QED
  BY <1>2, <1>5

(* Whatever range a query asks for and whatever billing settings its       *)
(* reader holds, the cache answers what usage_events would.                *)
LEMMA AnswerExact ==
  ASSUME CacheInv, NEW from \in 0 .. Hours * SlotsPerHour,
         NEW to \in 0 .. Hours * SlotsPerHour, NEW sig \in Signatures
  PROVE  /\ {[event |-> r.event, at |-> r.at, cost |-> r.cost] : r \in Answer(from, to, sig)}
              = Priced(EventsFrom(from, to), sig)
         /\ \A r, q \in Answer(from, to, sig) : r.event = q.event => r = q
<1> DEFINE lo == FullStart(from)
           hi == FullEnd(to)
           raw == {h \in HoursOf(lo, hi) :
                     part[h] # "absent" /\ (part[h] = "dirty" \/ ~ValidHour(h, sig))}
           cached == {h \in HoursOf(lo, hi) : part[h] = "clean" /\ ValidHour(h, sig)}
           edgeEv == IF lo >= hi THEN EventsFrom(from, to)
                     ELSE EventsFrom(from, lo) \cup EventsFrom(hi, to)
           rawEv == IF lo >= hi THEN {}
                    ELSE {e \in Events : \E h \in raw : e \in EventsIn(events, h)}
           cachedEv == IF lo >= hi THEN {}
                       ELSE {e \in Events : \E h \in cached : e \in EventsIn(events, h)}
<1>1. from \in Nat /\ to \in Nat
  BY HourAssumption DEF SlotsPerHour
<1>2. TypeOK /\ HoursExact
  BY DEF CacheInv
<1>3. UNION {rows[h] : h \in cached}
        = {[event |-> e, at |-> events[e], cost |-> [at |-> events[e], sig |-> sig]] :
             e \in {e \in Events : \E h \in cached : e \in EventsIn(events, h)}}
  <2>1. \A h \in cached : rows[h] = Priced(EventsIn(events, h), sig)
    BY ValidHourExact DEF HoursOf
  <2>2. QED
    BY <2>1 DEF Priced, EventsIn
<1>4. Answer(from, to, sig) = Tagged(edgeEv, "edge", sig) \cup Tagged(rawEv, "dirty", sig)
                                \cup Tagged(cachedEv, "cache", sig)
  <2>1. \A evs \in SUBSET Events : /\ Detail(evs, "edge", sig) = Tagged(evs, "edge", sig)
                                   /\ Detail(evs, "dirty", sig) = Tagged(evs, "dirty", sig)
    BY DetailTagged
  <2>2. CASE lo >= hi
    <3>1. Answer(from, to, sig) = Detail(EventsFrom(from, to), "edge", sig)
      BY <2>2 DEF Answer
    <3>2. Tagged({}, "dirty", sig) = {} /\ Tagged({}, "cache", sig) = {}
      BY DEF Tagged
    <3>3. QED
      BY <2>1, <2>2, <3>1, <3>2 DEF EventsFrom
  <2>3. CASE ~(lo >= hi)
    <3>1. Answer(from, to, sig) =
            Detail(edgeEv, "edge", sig) \cup Detail(rawEv, "dirty", sig)
              \cup {[from |-> "cache", event |-> r.event, at |-> r.at, cost |-> r.cost] :
                      r \in UNION {rows[h] : h \in cached}}
      BY <2>3 DEF Answer
    <3>2. {[from |-> "cache", event |-> r.event, at |-> r.at, cost |-> r.cost] :
             r \in UNION {rows[h] : h \in cached}} = Tagged(cachedEv, "cache", sig)
      BY <1>3, <2>3, CacheBranch DEF Priced
    <3>3. edgeEv \in SUBSET Events /\ rawEv \in SUBSET Events
      BY DEF EventsFrom
    <3>4. QED
      BY <2>1, <3>1, <3>2, <3>3
  <2>4. QED
    BY <2>2, <2>3
<1>5. /\ edgeEv \cup rawEv \cup cachedEv = EventsFrom(from, to)
      /\ edgeEv \cap rawEv = {} /\ edgeEv \cap cachedEv = {} /\ rawEv \cap cachedEv = {}
  <2>1. CASE lo >= hi
    BY <2>1
  <2>2. CASE ~(lo >= hi)
    <3>1. lo < hi
      BY <1>1, <2>2 DEF FullStart, FullEnd, HourOf, SlotsPerHour
    <3>2. ASSUME NEW e \in Events
          PROVE  /\ e \in EventsFrom(from, to) <=> (e \in edgeEv \/ e \in rawEv \/ e \in cachedEv)
                 /\ ~(e \in edgeEv /\ e \in rawEv) /\ ~(e \in edgeEv /\ e \in cachedEv)
                 /\ ~(e \in rawEv /\ e \in cachedEv)
      <4>1. CASE events[e] = None
        BY <2>2, <4>1 DEF EventsFrom, EventsIn
      <4>2. CASE events[e] # None
        <5>1. events[e] \in Slots /\ HourOf(events[e]) \in AllHours
          BY <1>2, <4>2, SlotHour DEF TypeOK
        <5>2. part[HourOf(events[e])] \in {"dirty", "clean"}
          BY <1>2, <4>2, <5>1 DEF TypeOK, HoursExact, EventsIn
        <5>3. e \in edgeEv <=> (from <= events[e] /\ events[e] < lo)
                                 \/ (hi <= events[e] /\ events[e] < to)
          BY <2>2, <4>2 DEF EventsFrom
        <5>4. /\ e \in rawEv <=> HourOf(events[e]) \in raw
              /\ e \in cachedEv <=> HourOf(events[e]) \in cached
          BY <2>2, <4>2, <5>1 DEF EventsIn, HoursOf
        <5>5. HourOf(events[e]) \in HoursOf(lo, hi) <=>
                HourOf(events[e]) \in raw \/ HourOf(events[e]) \in cached
          BY <5>2
        <5>6. ~(HourOf(events[e]) \in raw /\ HourOf(events[e]) \in cached)
          OBVIOUS
        <5>7. HourOf(events[e]) \in HoursOf(lo, hi) <=>
                lo <= HourOf(events[e]) * SlotsPerHour /\ HourOf(events[e]) * SlotsPerHour < hi
          BY <5>1 DEF HoursOf
        <5>8. e \in EventsFrom(from, to) <=> from <= events[e] /\ events[e] < to
          BY <4>2 DEF EventsFrom
        <5> HIDE DEF lo, hi, raw, cached, edgeEv, rawEv, cachedEv
        <5>9. /\ (from <= events[e] /\ events[e] < to) <=>
                   \/ (from <= events[e] /\ events[e] < lo) \/ (hi <= events[e] /\ events[e] < to)
                   \/ HourOf(events[e]) \in HoursOf(lo, hi)
              /\ ~(/\ (from <= events[e] /\ events[e] < lo) \/ (hi <= events[e] /\ events[e] < to)
                   /\ HourOf(events[e]) \in HoursOf(lo, hi))
          BY <1>1, <3>1, <5>1, <5>7, RangeCut DEF lo, hi
        <5>10. QED
          BY <5>3, <5>4, <5>5, <5>6, <5>8, <5>9
      <4>3. QED
        BY <4>1, <4>2
    <3>3. EventsFrom(from, to) \in SUBSET Events /\ edgeEv \in SUBSET Events
            /\ rawEv \in SUBSET Events /\ cachedEv \in SUBSET Events
      BY DEF EventsFrom
    <3> HIDE DEF edgeEv, rawEv, cachedEv
    <3>4. QED
      BY <3>2, <3>3
  <2>3. QED
    BY <2>1, <2>2
<1> HIDE DEF edgeEv, rawEv, cachedEv
<1>6. QED
  BY <1>4, <1>5, TaggedExact

-----------------------------------------------------------------------------
(* The trend.                                                              *)

Starts(c, width, offset) == c \in Int /\ (c + offset) % width = 0

(* The bucket of a time is the one that begins at or before it and ends    *)
(* after it.                                                               *)
LEMMA BucketHolds ==
  ASSUME NEW width \in Widths, NEW offset \in 0 .. width - 1, NEW t \in Nat
  PROVE  LET b == BucketOf(t, width, offset)
         IN  /\ Starts(b, width, offset) /\ -offset <= b /\ b <= t /\ t < b + width
             /\ \A c : Starts(c, width, offset) /\ c <= t /\ t < c + width => c = b
<1>1. CASE width = 1
  BY <1>1 DEF BucketOf, Starts
<1>2. CASE width = 2
  BY <1>2 DEF BucketOf, Starts
<1>3. CASE width = 4
  <2> DEFINE b == ((t + offset) \div 4) * 4 - offset
  <2>1. /\ Starts(b, 4, offset) /\ -offset <= b /\ b <= t /\ t < b + 4
    BY <1>3 DEF Starts
  <2>2. ASSUME NEW c, Starts(c, 4, offset), c <= t, t < c + 4
        PROVE  c = b
    <3>1. c \in Int /\ (c + offset) % 4 = 0
      BY <2>2 DEF Starts
    <3> HIDE DEF b
    <3>2. QED
      BY <1>3, <2>1, <2>2, <3>1 DEF Starts
  <2>3. QED
    BY <1>3, <2>1, <2>2 DEF BucketOf
<1>4. QED
  BY <1>1, <1>2, <1>3 DEF Widths, SlotsPerHour

(* A point begins a bucket, and the bucket of a time in the range is drawn. *)
LEMMA PointStarts ==
  ASSUME NEW width \in Widths, NEW offset \in 0 .. width - 1, NEW from \in Nat, NEW to \in Nat,
         NEW b \in Points(from, to, width, offset)
  PROVE  Starts(b, width, offset)
<1> DEFINE first == BucketOf(from, width, offset)
<1>1. Starts(first, width, offset)
  BY BucketHolds
<1>2. b \in Int /\ (b - first) % width = 0
  BY DEF Points
<1> HIDE DEF first
<1>3. CASE width = 1
  BY <1>1, <1>2, <1>3 DEF Starts
<1>4. CASE width = 2
  BY <1>1, <1>2, <1>4 DEF Starts
<1>5. CASE width = 4
  BY <1>1, <1>2, <1>5 DEF Starts
<1>6. QED
  BY <1>3, <1>4, <1>5 DEF Widths, SlotsPerHour

LEMMA RangeDrawn ==
  ASSUME NEW width \in Widths, NEW offset \in 0 .. width - 1, NEW from \in Nat, NEW to \in Nat,
         NEW t \in from .. to - 1
  PROVE  BucketOf(t, width, offset) \in Points(from, to, width, offset)
<1> DEFINE b == BucketOf(t, width, offset)
           first == BucketOf(from, width, offset)
           last == BucketOf(to - 1, width, offset)
<1>1. /\ Starts(b, width, offset) /\ -offset <= b /\ b <= t /\ t < b + width
      /\ Starts(first, width, offset) /\ first <= from /\ from < first + width
      /\ Starts(last, width, offset) /\ last <= to - 1 /\ to - 1 < last + width
  BY BucketHolds
<1>2. b \in -offset .. to
  BY <1>1 DEF Starts
<1> SUFFICES first <= b /\ b <= last /\ (b - first) % width = 0
  BY <1>2 DEF Points
<1> HIDE DEF b, first, last
<1>3. CASE width = 1
  BY <1>1, <1>3 DEF Starts
<1>4. CASE width = 2
  BY <1>1, <1>4 DEF Starts
<1>5. CASE width = 4
  BY <1>1, <1>5 DEF Starts
<1>6. QED
  BY <1>3, <1>4, <1>5 DEF Widths, SlotsPerHour

(* No bucket of the cached trend cuts an hour. *)
LEMMA HourInBucket ==
  ASSUME NEW width \in Widths, NEW offset \in 0 .. width - 1, NEW t \in Nat,
         width % SlotsPerHour = 0, offset % SlotsPerHour = 0
  PROVE  BucketOf(HourOf(t) * SlotsPerHour, width, offset) = BucketOf(t, width, offset)
<1>1. CASE width = 2
  BY <1>1 DEF BucketOf, HourOf, SlotsPerHour
<1>2. CASE width = 4
  BY <1>2 DEF BucketOf, HourOf, SlotsPerHour
<1>3. QED
  BY <1>1, <1>2 DEF Widths, SlotsPerHour

(* The source of a trend counts what the summary counts, and each row of   *)
(* it falls into the bucket of its request.                                *)
LEMMA SourceExact ==
  ASSUME CacheInv, NEW from \in Times, NEW to \in Times, NEW sig \in Signatures,
         NEW width \in Widths, NEW offset \in 0 .. width - 1
  PROVE  LET source == TrendSource(from, to, width, offset, sig)
         IN  /\ Counts(source, EventsFrom(from, to), sig)
             /\ \A r \in source :
                  /\ r.event \in EventsFrom(from, to) /\ r.at = events[r.event] /\ r.at \in Nat
                  /\ BucketOf(CreatedAt(r), width, offset) = BucketOf(r.at, width, offset)
<1> DEFINE source == TrendSource(from, to, width, offset, sig)
           whole == width % SlotsPerHour = 0 /\ offset % SlotsPerHour = 0
<1>1. Counts(source, EventsFrom(from, to), sig) /\ (whole \/ \A r \in source : r.from = "edge")
  <2>1. CASE whole
    BY <2>1, AnswerExact DEF TrendSource, Counts, Times
  <2>2. CASE ~whole
    <3>1. source = Tagged(EventsFrom(from, to), "edge", sig)
      BY <2>2, DetailTagged DEF TrendSource, EventsFrom
    <3>2. source = Tagged(EventsFrom(from, to), "edge", sig)
                     \cup Tagged({}, "dirty", sig) \cup Tagged({}, "cache", sig)
      BY <3>1 DEF Tagged
    <3>3. \A r \in source : r.from = "edge"
      BY <3>1 DEF Tagged
    <3> HIDE DEF source
    <3>4. Counts(source, EventsFrom(from, to), sig)
      <4> DEFINE evs == EventsFrom(from, to)
                 answer == Tagged(evs, "edge", sig) \cup Tagged({}, "dirty", sig)
                             \cup Tagged({}, "cache", sig)
      <4>1. source = answer
        BY <3>2
      <4> HIDE DEF evs
      <4>2. /\ {[event |-> r.event, at |-> r.at, cost |-> r.cost] : r \in answer}
                 = Priced(evs \cup {} \cup {}, sig)
            /\ \A r, q \in answer : r.event = q.event => r = q
        <5>1. PICK none : none = {}
          OBVIOUS
        <5>2. evs \cap none = {} /\ none \cap none = {}
          BY <5>1
        <5>3. LET found == Tagged(evs, "edge", sig) \cup Tagged(none, "dirty", sig)
                             \cup Tagged(none, "cache", sig)
              IN  /\ {[event |-> r.event, at |-> r.at, cost |-> r.cost] : r \in found}
                       = Priced(evs \cup none \cup none, sig)
                  /\ \A r, q \in found : r.event = q.event => r = q
          BY <5>2, TaggedExact
        <5>4. QED
          BY <5>1, <5>3
      <4>3. evs \cup {} \cup {} = evs
        OBVIOUS
      <4> HIDE DEF answer
      <4>4. Counts(answer, evs, sig)
        BY <4>2, <4>3 DEF Counts
      <4>5. QED
        BY <4>1, <4>4 DEF evs
    <3>5. QED
      BY <3>3, <3>4
  <2>3. QED
    BY <2>1, <2>2
<1> HIDE DEF source
<1>2. ASSUME NEW r \in source
      PROVE  /\ r.event \in EventsFrom(from, to) /\ r.at = events[r.event] /\ r.at \in Nat
             /\ BucketOf(CreatedAt(r), width, offset) = BucketOf(r.at, width, offset)
  <2>1. [event |-> r.event, at |-> r.at, cost |-> r.cost] \in Priced(EventsFrom(from, to), sig)
    BY <1>1 DEF Counts
  <2>2. PICK e \in EventsFrom(from, to) :
          [event |-> r.event, at |-> r.at, cost |-> r.cost]
            = [event |-> e, at |-> events[e], cost |-> [at |-> events[e], sig |-> sig]]
    BY <2>1 DEF Priced
  <2>3. r.event = e /\ r.at = events[e]
    BY <2>2
  <2>4. events[e] \in Nat
    <3>1. events[e] \in Slots
      BY DEF CacheInv, TypeOK, EventsFrom
    <3>2. QED
      BY <3>1, HourAssumption DEF Slots, SlotsPerHour
  <2>5. BucketOf(CreatedAt(r), width, offset) = BucketOf(r.at, width, offset)
    BY <1>1, <2>3, <2>4, HourInBucket DEF CreatedAt
  <2>6. QED
    BY <2>3, <2>4, <2>5
<1>3. QED
  BY <1>1, <1>2 DEF source

(* Each point of a trend counts the requests of its bucket. *)
LEMMA PointExact ==
  ASSUME CacheInv, NEW from \in Times, NEW to \in Times, NEW sig \in Signatures,
         NEW width \in Widths, NEW offset \in 0 .. width - 1,
         NEW b \in Points(from, to, width, offset)
  PROVE  Counts(Trend(from, to, width, offset, sig)[b],
                EventsFrom(from, to) \cap EventsFrom(b, b + width), sig)
<1> DEFINE source == TrendSource(from, to, width, offset, sig)
           point == {r \in source : BucketOf(CreatedAt(r), width, offset) = b}
           all == EventsFrom(from, to)
           mine == all \cap EventsFrom(b, b + width)
<1>1. Trend(from, to, width, offset, sig)[b] = point
  BY DEF Trend
<1>2. /\ Counts(source, all, sig)
      /\ \A r \in source :
           /\ r.event \in all /\ r.at = events[r.event] /\ r.at \in Nat
           /\ BucketOf(CreatedAt(r), width, offset) = BucketOf(r.at, width, offset)
  BY SourceExact
<1>3. Starts(b, width, offset)
  BY PointStarts, HourAssumption DEF Times, SlotsPerHour
<1>4. \A r \in source : r \in point <=> b <= r.at /\ r.at < b + width
  BY <1>2, <1>3, BucketHolds
<1>5. \A r \in source : r \in point <=> r.event \in mine
  BY <1>2, <1>4 DEF EventsFrom
<1> HIDE DEF source, all
<1>6. {[event |-> r.event, at |-> r.at, cost |-> r.cost] : r \in point} = Priced(mine, sig)
  <2>1. ASSUME NEW r \in point
        PROVE  [event |-> r.event, at |-> r.at, cost |-> r.cost] \in Priced(mine, sig)
    <3>1. [event |-> r.event, at |-> r.at, cost |-> r.cost] \in Priced(all, sig)
      BY <1>2 DEF Counts
    <3>2. r.event \in mine
      BY <1>5
    <3> HIDE DEF mine, point
    <3>3. PICK e \in all : [event |-> r.event, at |-> r.at, cost |-> r.cost]
            = [event |-> e, at |-> events[e], cost |-> [at |-> events[e], sig |-> sig]]
      BY <3>1 DEF Priced
    <3>4. r.event = e
      BY <3>3
    <3>5. QED
      BY <3>2, <3>3, <3>4 DEF Priced
  <2>2. ASSUME NEW e \in mine
        PROVE  \E r \in point : [event |-> r.event, at |-> r.at, cost |-> r.cost]
                 = [event |-> e, at |-> events[e], cost |-> [at |-> events[e], sig |-> sig]]
    <3>1. [event |-> e, at |-> events[e], cost |-> [at |-> events[e], sig |-> sig]]
            \in Priced(all, sig)
      BY DEF Priced
    <3>2. PICK r \in source : [event |-> r.event, at |-> r.at, cost |-> r.cost]
                 = [event |-> e, at |-> events[e], cost |-> [at |-> events[e], sig |-> sig]]
      BY <1>2, <3>1 DEF Counts
    <3>3. r.event = e
      BY <3>2
    <3>4. QED
      BY <1>5, <3>2, <3>3
  <2> HIDE DEF mine, point
  <2> DEFINE image == {[event |-> r.event, at |-> r.at, cost |-> r.cost] : r \in point}
  <2>3. image \subseteq Priced(mine, sig)
    BY <2>1
  <2>4. Priced(mine, sig) \subseteq image
    <3>1. ASSUME NEW x \in Priced(mine, sig)
          PROVE  x \in image
      <4>1. PICK e \in mine :
              x = [event |-> e, at |-> events[e], cost |-> [at |-> events[e], sig |-> sig]]
        BY <3>1 DEF Priced
      <4>2. PICK r \in point : [event |-> r.event, at |-> r.at, cost |-> r.cost] = x
        BY <2>2, <4>1
      <4>3. QED
        BY <4>2
    <3>2. QED
      BY <3>1
  <2>5. QED
    BY <2>3, <2>4
<1>7. \A r, q \in point : r.event = q.event => r = q
  BY <1>2 DEF Counts
<1> HIDE DEF mine, point
<1>8. Counts(point, mine, sig)
  BY <1>6, <1>7 DEF Counts
<1>9. QED
  BY <1>1, <1>8 DEF mine, all

LEMMA OverviewExact ==
  ASSUME CacheInv
  PROVE  QueriesExact
<1> SUFFICES ASSUME NEW from \in Times, NEW to \in Times, NEW sig \in Signatures,
                    NEW width \in Widths, NEW offset \in 0 .. width - 1, from < to
             PROVE  LET view == Overview(from, to, width, offset, sig)
                        points == DOMAIN view.trend
                    IN  /\ Counts(view.summary, EventsFrom(from, to), sig)
                        /\ \A b \in points :
                             Counts(view.trend[b],
                                    EventsFrom(from, to) \cap EventsFrom(b, b + width), sig)
                        /\ \A t \in from .. to - 1 : \E b \in points : b <= t /\ t < b + width
  BY DEF QueriesExact
<1> DEFINE view == Overview(from, to, width, offset, sig)
<1>1. /\ view.summary = Answer(from, to, sig)
      /\ view.trend = Trend(from, to, width, offset, sig)
      /\ DOMAIN view.trend = Points(from, to, width, offset)
  BY DEF Overview, Trend
<1>2. Counts(view.summary, EventsFrom(from, to), sig)
  BY <1>1, AnswerExact DEF Counts, Times
<1>3. from \in Nat /\ to \in Nat
  BY HourAssumption DEF Times, SlotsPerHour
<1>4. ASSUME NEW t \in from .. to - 1
      PROVE  \E b \in Points(from, to, width, offset) : b <= t /\ t < b + width
  <2>1. BucketOf(t, width, offset) \in Points(from, to, width, offset)
    BY <1>3, RangeDrawn
  <2>2. BucketOf(t, width, offset) <= t /\ t < BucketOf(t, width, offset) + width
    BY <1>3, BucketHolds
  <2>3. QED
    BY <2>1, <2>2
<1> HIDE DEF view
<1>5. QED
  BY <1>1, <1>2, <1>4, PointExact DEF view

(* README.md:255-256: cache work never changes query results, when         *)
(* source-local days begin and end on whole UTC hours.                     *)
THEOREM QueriesAreExact ==
  ASSUME HourAligned
  PROVE  Spec => []QueriesExact
<1>1. Init => CacheInv
  BY InitExact
<1>2. CacheInv /\ [Next]_vars => CacheInv'
  BY StepExact
<1>3. CacheInv => QueriesExact
  BY OverviewExact
<1>4. QED
  BY <1>1, <1>2, <1>3, PTL DEF Spec
=============================================================================
