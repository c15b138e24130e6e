--------------------------- MODULE CcSwitchMirror ---------------------------
(***************************************************************************)
(* The client run with --source cc-switch: the poll loop of                *)
(* telemetry-client/src/main.rs, the pass sync_cc_switch makes over the    *)
(* cc-switch database (usage_ledger.rs), page by page, each page in a      *)
(* transaction of its own, and the upload that follows it.                 *)
(*                                                                         *)
(* The cc-switch database belongs to another program, which writes it at   *)
(* any moment.  A row keeps its place in the (created_at, app_type,        *)
(* request_id) order in which it is read, so rows are numbered by it; a    *)
(* daily rollup is the set of the rows it has absorbed.                    *)
(***************************************************************************)
EXTENDS Integers, FiniteSets

CONSTANTS
  RowCount,   \* requests the source may ever hold
  DayOf,      \* the source-local day of each
  Vals,       \* contents of a row
  None,
  BatchSize,  \* rows of a page
  MaxWrites, MaxCrashes

Rows == 1 .. RowCount
Days == {DayOf[r] : r \in Rows}

ASSUME RowAssumption == RowCount \in Nat /\ DayOf \in [Rows -> Nat] /\ None \notin Vals
ASSUME BatchAssumption == BatchSize \in Nat \ {0}
ASSUME BoundAssumption == MaxWrites \in Nat /\ MaxCrashes \in Nat

VARIABLES
  src, srcRoll,      \* cc-switch: proxy_request_logs, usage_daily_rollups
  led, ledRoll, barriers,  \* the ledger's copies and compaction_barriers
  pc, cursor, seen,  \* the pass: next step, place, sync_seen_requests
  observed,          \* is the last observed fingerprint that of the source now
  central,           \* what the server shows of the node
  gone, quiet,       \* history: rows absent at some moment of the pass, no write in it
  writes, crashes

srcVars == <<src, srcRoll>>
ledVars == <<led, ledRoll, barriers>>
passVars == <<pc, cursor, seen>>
vars == <<srcVars, ledVars, passVars, observed, central, gone, quiet, writes, crashes>>

Steps == {"sleep", "page", "unseen", "rollups", "barriers", "upload", "observe"}

RowContents == [Rows -> Vals \cup {None}]
Rollups == [Days -> SUBSET Rows]

NoRows == [r \in Rows |-> None]
NoRollups == [d \in Days |-> {}]

(* What the server shows of a ledger: a rollup replaces the detail of its  *)
(* day (UsageData!EventsAfter).                                            *)
View(detail, rolls) ==
  [detail |-> [r \in Rows |-> IF rolls[DayOf[r]] = {} THEN detail[r] ELSE None],
   rolls |-> rolls]

Init ==
  /\ src = NoRows /\ srcRoll = NoRollups
  /\ led = NoRows /\ ledRoll = NoRollups /\ barriers = {}
  /\ pc = "sleep" /\ cursor = 0 /\ seen = {}
  /\ observed = FALSE
  /\ central = View(NoRows, NoRollups)
  /\ gone = Rows /\ quiet = TRUE
  /\ writes = 0 /\ crashes = 0

-----------------------------------------------------------------------------
(* cc-switch.                                                              *)

SourceMayWrite == writes < MaxWrites

(* A request is recorded, amended in place, or hidden from readers because *)
(* a proxied request of the same usage was recorded (v = None).            *)
SourceWrite(r, v) ==
  /\ SourceMayWrite
  /\ src[r] # v /\ r \notin srcRoll[DayOf[r]]
  /\ src' = [src EXCEPT ![r] = v]
  /\ gone' = IF v = None THEN gone \cup {r} ELSE gone
  /\ observed' = FALSE /\ quiet' = FALSE
  /\ writes' = writes + 1
  /\ UNCHANGED <<srcRoll, ledVars, passVars, central, crashes>>

(* cc-switch aggregates the detail of an old day and deletes it.           *)
SourceCompact(d) ==
  LET absorbed == {r \in Rows : DayOf[r] = d /\ src[r] # None}
  IN  /\ SourceMayWrite
      /\ absorbed # {}
      /\ srcRoll' = [srcRoll EXCEPT ![d] = @ \cup absorbed]
      /\ src' = [r \in Rows |-> IF r \in absorbed THEN None ELSE src[r]]
      /\ gone' = gone \cup absorbed
      /\ observed' = FALSE /\ quiet' = FALSE
      /\ writes' = writes + 1
      /\ UNCHANGED <<ledVars, passVars, central, crashes>>

-----------------------------------------------------------------------------
(* The client.                                                             *)

(* The loop compares fingerprints; on a difference a pass begins.          *)
Wake ==
  /\ pc = "sleep" /\ ~observed
  /\ pc' = "page" /\ cursor' = 0 /\ seen' = {}
  /\ gone' = {r \in Rows : src[r] = None} /\ quiet' = TRUE
  /\ UNCHANGED <<srcVars, ledVars, observed, central, writes, crashes>>

Ahead == {r \in Rows : r > cursor /\ src[r] # None}

(* Mutant: a batch may leave out rows before its last one (no ORDER BY).   *)
AnyBatch(batch) ==
  /\ batch \subseteq Ahead /\ Cardinality(batch) <= BatchSize
  /\ batch = Ahead \/ Cardinality(batch) = BatchSize

(* read_events: the first BatchSize rows after the cursor.                 *)
Batch(batch) ==
  /\ batch \subseteq Ahead /\ Cardinality(batch) <= BatchSize
  /\ batch = Ahead \/ Cardinality(batch) = BatchSize
  /\ \A r \in batch, q \in Ahead \ batch : r < q

(* insert_values: a row of a compacted day is skipped.                     *)
Stored(batch) ==
  [r \in Rows |-> IF r \in batch /\ DayOf[r] \notin barriers THEN src[r] ELSE led[r]]

(* Mutant: rows the barrier kept out are not recorded as met.              *)
MetIfStored(batch) == {r \in batch : DayOf[r] \notin barriers}

(* Every row read is recorded in sync_seen_requests.                       *)
Met(batch) == batch

(* Mutant: the next page begins one row further.                           *)
PageSkipsOne ==
  /\ pc = "page"
  /\ \E batch \in SUBSET Rows :
       /\ Batch(batch)
       /\ led' = Stored(batch)
       /\ seen' = seen \cup Met(batch)
       /\ \/ batch = {} /\ cursor' = cursor
          \/ \E last \in batch : cursor' = last + 1 /\ (\A r \in batch : r <= last)
       /\ pc' = IF Cardinality(batch) < BatchSize THEN "unseen" ELSE "page"
  /\ UNCHANGED <<srcVars, ledRoll, barriers, observed, central, gone, quiet, writes, crashes>>

(* One page, in one transaction of the ledger.  A short page is the last.  *)
Page ==
  /\ pc = "page"
  /\ \E batch \in SUBSET Rows :
       /\ Batch(batch)
       /\ led' = Stored(batch)
       /\ seen' = seen \cup Met(batch)
       /\ \/ batch = {} /\ cursor' = cursor
          \/ cursor' \in batch /\ (\A r \in batch : r <= cursor')
       /\ pc' = IF Cardinality(batch) < BatchSize THEN "unseen" ELSE "page"
  /\ UNCHANGED <<srcVars, ledRoll, barriers, observed, central, gone, quiet, writes, crashes>>

(* Rows of this collector the pass did not meet are deleted.               *)
DeleteUnseen ==
  /\ pc = "unseen"
  /\ led' = [r \in Rows |-> IF r \in seen THEN led[r] ELSE None]
  /\ pc' = "rollups"
  /\ UNCHANGED <<srcVars, ledRoll, barriers, cursor, seen, observed, central, gone, quiet,
                 writes, crashes>>

(* mirror_rollups: one transaction, the source read in it.                 *)
MirrorRollups ==
  /\ pc = "rollups"
  /\ ledRoll' = srcRoll
  /\ pc' = "barriers"
  /\ UNCHANGED <<srcVars, led, barriers, cursor, seen, observed, central, gone, quiet,
                 writes, crashes>>

(* rebuild_compaction_barriers, in a transaction after it.                 *)
RebuildBarriers ==
  /\ pc = "barriers"
  /\ barriers' = {d \in Days : ledRoll[d] # {}}
  /\ pc' = "upload"
  /\ UNCHANGED <<srcVars, led, ledRoll, cursor, seen, observed, central, gone, quiet,
                 writes, crashes>>

(* upload_ledger succeeds: the server shows the ledger (UsageSync).        *)
Upload ==
  /\ pc = "upload"
  /\ central' = View(led, ledRoll)
  /\ pc' = "observe"
  /\ UNCHANGED <<srcVars, ledVars, cursor, seen, observed, gone, quiet, writes, crashes>>

(* The fingerprint is taken now, not when the pass began.                  *)
Observe ==
  /\ pc = "observe"
  /\ observed' = TRUE
  /\ pc' = "sleep"
  /\ UNCHANGED <<srcVars, ledVars, cursor, seen, central, gone, quiet, writes, crashes>>

(* Mutant: the loop records the fingerprint whether or not it uploaded.    *)
ErrorForgotten ==
  /\ crashes < MaxCrashes
  /\ crashes' = crashes + 1
  /\ pc' = "sleep" /\ cursor' = 0 /\ seen' = {}
  /\ observed' = (pc # "sleep")
  /\ UNCHANGED <<srcVars, ledVars, central, gone, quiet, writes>>

(* An error of any step, a refused upload included, leaves the fingerprint *)
(* as it was; a restart forgets it.                                        *)
CrashOrError ==
  /\ crashes < MaxCrashes
  /\ crashes' = crashes + 1
  /\ pc' = "sleep" /\ cursor' = 0 /\ seen' = {}
  /\ observed' = FALSE
  /\ UNCHANGED <<srcVars, ledVars, central, gone, quiet, writes>>

Client == Wake \/ Page \/ DeleteUnseen \/ MirrorRollups \/ RebuildBarriers \/ Upload \/ Observe

Next ==
  \/ \E r \in Rows, v \in Vals \cup {None} : SourceWrite(r, v)
  \/ \E d \in Days : SourceCompact(d)
  \/ Client
  \/ CrashOrError

Spec == Init /\ [][Next]_vars

(* The loop never blocks for ever; a source that is written, and an error, *)
(* are never owed.                                                         *)
Fairness == WF_vars(Client)

LiveSpec == Spec /\ Fairness

-----------------------------------------------------------------------------
(* Both databases hold well-formed rows, rollups and barriers.             *)
TypeOK ==
  /\ src \in RowContents /\ srcRoll \in Rollups
  /\ led \in RowContents /\ ledRoll \in Rollups /\ barriers \subseteq Days
  /\ pc \in Steps /\ cursor \in 0 .. RowCount /\ seen \subseteq Rows
  /\ observed \in BOOLEAN
  /\ central \in [detail : RowContents, rolls : Rollups]
  /\ gone \subseteq Rows /\ quiet \in BOOLEAN
  /\ writes \in 0 .. MaxWrites /\ crashes \in 0 .. MaxCrashes

(* The ledger's rows are the source's, but for late detail of a day the    *)
(* source has already aggregated, which the barrier keeps out.             *)
Mirrors(detail) ==
  \A r \in Rows : detail[r] = src[r] \/ (src[r] # None /\ srcRoll[DayOf[r]] # {})

(* usage_ledger.rs:532-534: a pass during which the source was not written *)
(* leaves the ledger a mirror of it, however the pages fell.               *)
PassIsExact ==
  pc \in {"upload", "observe"} /\ quiet => Mirrors(led) /\ ledRoll = srcRoll

(* Whatever is written between two pages, a pass deletes only rows the     *)
(* source was without at some moment of the pass.                          *)
DeletesOnlyGone ==
  [][\A r \in Rows : led[r] # None /\ led'[r] = None => r \in gone]_vars

(* README.md:137: the client watches the source.  When the source is no    *)
(* longer written, the server ends up showing what it holds.               *)
MirrorCatchesUp == <>[](central = View(src, srcRoll))

(* It does at least when the last pass was not disturbed: whatever failed  *)
(* before, an undisturbed pass follows the last write made while the       *)
(* client slept, and it ends in an upload.                                 *)
UndisturbedCatchesUp == <>[](quiet => central = View(src, srcRoll))

-----------------------------------------------------------------------------
(* The inductive strengthening the proofs use.                             *)

Absent == {r \in Rows : src[r] = None}

(* A pass has met, or missed for a reason, every row it has passed by.     *)
MetOrGone ==
  /\ Absent \subseteq gone
  /\ pc = "page" => \A r \in Rows : r <= cursor => r \in seen \cup gone
  /\ pc = "unseen" => Rows \subseteq seen \cup gone

(* Rollups only grow in the source: the ledger's copies and the barriers   *)
(* are behind it, never ahead.                                             *)
RollupsBehind ==
  /\ \A d \in Days : ledRoll[d] \subseteq srcRoll[d]
  /\ \A d \in barriers : srcRoll[d] # {}

(* What the steps of an undisturbed pass have achieved so far. *)
QuietProgress ==
  quiet /\ pc # "sleep" =>
    /\ gone = Absent
    /\ \A r \in seen : src[r] # None /\ (led[r] = src[r] \/ srcRoll[DayOf[r]] # {})
    /\ pc \notin {"page", "unseen"} => Mirrors(led)
    /\ pc \notin {"page", "unseen", "rollups"} => ledRoll = srcRoll

MirrorInv == TypeOK /\ MetOrGone /\ RollupsBehind /\ QuietProgress
=============================================================================
