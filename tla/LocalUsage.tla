----------------------------- MODULE LocalUsage -----------------------------
(***************************************************************************)
(* The client run with --source local or local-compact                     *)
(* (telemetry-client/src/usage_ledger.rs, main.rs): session files of other *)
(* tools, which grow while they are read, are parsed into the ledger;      *)
(* their stamps are remembered so that unchanged files are skipped;        *)
(* local-compact then folds old days into rollups and raises barriers      *)
(* against importing them again.                                           *)
(*                                                                         *)
(* A file only grows, so the records in it stand for its stamp (size and   *)
(* modification time).  A rollup is how often it counts each record.       *)
(***************************************************************************)
EXTENDS Integers, FiniteSets

CONSTANTS
  Files, Records,
  FileOf, DayOf,   \* the file and the source-local day of each record
  Identified,      \* records with a semantic identity (Pi sessions)
  Children,        \* Codex files whose replay of a parent has to be resolved
  None,
  Compacting,      \* --source local-compact
  RetainDays,
  LastDay, MaxCrashes,
  CrashInCompaction  \* may the client stop between rollup_local's transactions

ASSUME RecordAssumption ==
  /\ FileOf \in [Records -> Files] /\ DayOf \in [Records -> Nat]
  /\ Identified \subseteq Records /\ Children \subseteq Files
  /\ None \notin Files /\ \A rs \in SUBSET Records : rs # None
ASSUME BoundAssumption ==
  /\ RetainDays \in Nat /\ LastDay \in Nat /\ MaxCrashes \in Nat
  /\ Compacting \in BOOLEAN /\ CrashInCompaction \in BOOLEAN

VARIABLES
  written, today,   \* records in the session files, the source-local day
  detail,           \* proxy_request_logs
  rolled,           \* usage_daily_rollups
  barriers,         \* compaction_barriers
  cursors,          \* session_log_sync: the stamp of the last import, or None
  known,            \* session_usage_dedup
  pc, stamps, parsing, parsed, deferred,  \* the pass
  observed,         \* is the last observed fingerprint that of the ledger now
  crashes

fileVars == <<written, today>>
ledgerVars == <<detail, rolled, barriers, cursors, known>>
passVars == <<stamps, parsing, parsed, deferred>>
vars == <<fileVars, ledgerVars, pc, passVars, observed, crashes>>

Steps == {"sleep", "scan", "compact", "barriers", "upload", "observe"}

Content(f) == {r \in written : FileOf[r] = f}

NoStamps == [f \in Files |-> None]

RolledDays(counts) == {DayOf[r] : r \in {r \in Records : counts[r] > 0}}

Init ==
  /\ written = {} /\ today = 0
  /\ detail = {} /\ rolled = [r \in Records |-> 0] /\ barriers = {}
  /\ cursors = NoStamps /\ known = {}
  /\ pc = "sleep" /\ stamps = NoStamps /\ parsing = None /\ parsed = {} /\ deferred = {}
  /\ observed = FALSE
  /\ crashes = 0

-----------------------------------------------------------------------------
(* The tools and the calendar.                                             *)

(* A session file gets a record, of today or, when a session is resumed or *)
(* copied from elsewhere, of an earlier day.                               *)
Append(r) ==
  /\ r \notin written /\ DayOf[r] <= today
  /\ written' = written \cup {r}
  /\ UNCHANGED <<today, ledgerVars, pc, passVars, observed, crashes>>

NextDay ==
  /\ today < LastDay
  /\ today' = today + 1
  /\ UNCHANGED <<written, ledgerVars, pc, passVars, observed, crashes>>

-----------------------------------------------------------------------------
(* The import: sync_into.                                                  *)

(* The loop compares fingerprints of the ledger database itself, which is  *)
(* the source database of the local modes.                                 *)
Wake ==
  /\ pc = "sleep" /\ ~observed
  /\ pc' = "scan"
  /\ stamps' = NoStamps /\ parsing' = None /\ parsed' = {} /\ deferred' = {}
  /\ UNCHANGED <<fileVars, ledgerVars, observed, crashes>>

(* The filter of import_all_filtered: the stamp is taken before the file   *)
(* is read, and an unchanged file is not read at all.                      *)
Stamp(f) ==
  /\ pc = "scan" /\ parsing = None
  /\ stamps[f] = None /\ Content(f) # {}
  /\ stamps' = [stamps EXCEPT ![f] = Content(f)]
  /\ parsing' = IF cursors[f] = Content(f) THEN None ELSE f
  /\ UNCHANGED <<fileVars, ledgerVars, pc, parsed, deferred, observed, crashes>>

(* The whole file is read, whatever was imported of it before.             *)
Parse ==
  /\ pc = "scan" /\ parsing # None
  /\ parsed' = parsed \cup Content(parsing)
  /\ parsing' = None
  /\ UNCHANGED <<fileVars, ledgerVars, pc, stamps, deferred, observed, crashes>>

(* A child whose parent file is missing or incomplete yields nothing yet;  *)
(* a file that ends in half a line yields what it has.  Both are deferred. *)
Defer ==
  /\ pc = "scan" /\ parsing \in Children
  /\ parsed' \in {parsed, parsed \cup Content(parsing)}
  /\ deferred' = deferred \cup {parsing}
  /\ parsing' = None
  /\ UNCHANGED <<fileVars, ledgerVars, pc, stamps, observed, crashes>>

(* Mutant: the cursor takes the stamp of the file as it is now.            *)
CursorsAtCommit ==
  [f \in Files |-> IF stamps[f] # None /\ f \notin deferred THEN Content(f) ELSE cursors[f]]

(* record_scan_metadata: the stamp taken before reading, if the file has   *)
(* not changed since and was not deferred.                                 *)
CursorsAfter ==
  [f \in Files |->
    IF stamps[f] # None /\ f \notin deferred /\ stamps[f] = Content(f)
    THEN stamps[f] ELSE cursors[f]]

(* Mutant: a record met again is imported again.                           *)
AdmittedAgain == {r \in parsed : r \notin Identified \/ r \notin known}

(* insert_record: not one whose identity was met, and, in insert_values,   *)
(* not one of a compacted day.                                             *)
Admitted ==
  {r \in parsed : (r \notin Identified \/ r \notin known) /\ DayOf[r] \notin barriers}

(* Records and cursors, in one transaction.                                *)
Import ==
  /\ pc = "scan" /\ parsing = None
  /\ \A f \in Files : Content(f) = {} \/ stamps[f] # None
  /\ detail' = detail \cup Admitted
  /\ known' = known \cup (parsed \cap Identified)
  /\ cursors' = CursorsAfter
  /\ pc' = IF Compacting THEN "compact" ELSE "upload"
  /\ UNCHANGED <<fileVars, rolled, barriers, passVars, observed, crashes>>

-----------------------------------------------------------------------------
(* The compaction: rollup_local.                                           *)

(* Mutant: the cutoff is one day late.                                     *)
OldOrNearly(rs) == {r \in rs : DayOf[r] + RetainDays <= today + 1}

(* Detail before the end of the day that was RetainDays ago.               *)
Old(rs) == {r \in rs : DayOf[r] + RetainDays <= today}

(* Mutant: the aggregate stops a day before the deletion does.             *)
RollupBeforeTarget(rs) ==
  [r \in Records |-> IF r \in rs /\ DayOf[r] + RetainDays < today THEN rolled[r] + 1 ELSE rolled[r]]

(* The old rollup row of the day plus the aggregate of its detail.         *)
RollupAdded(rs) == [r \in Records |-> IF r \in rs THEN rolled[r] + 1 ELSE rolled[r]]

(* Aggregates and deletions, in one transaction. *)
Compact ==
  /\ pc = "compact"
  /\ rolled' = RollupAdded(Old(detail))
  /\ detail' = detail \ Old(detail)
  /\ pc' = "barriers"
  /\ UNCHANGED <<fileVars, barriers, cursors, known, passVars, observed, crashes>>

(* rebuild_compaction_barriers, in another. *)
RaiseBarriers ==
  /\ pc = "barriers"
  /\ barriers' = RolledDays(rolled)
  /\ pc' = "upload"
  /\ UNCHANGED <<fileVars, detail, rolled, cursors, known, passVars, observed, crashes>>

-----------------------------------------------------------------------------
(* The rest of the loop.                                                   *)

(* upload_ledger succeeds, and writes the baseline into the ledger. *)
Upload ==
  /\ pc = "upload"
  /\ pc' = "observe"
  /\ UNCHANGED <<fileVars, ledgerVars, passVars, observed, crashes>>

(* The fingerprint of the ledger, after everything the pass wrote to it. *)
Observe ==
  /\ pc = "observe"
  /\ observed' = TRUE
  /\ pc' = "sleep"
  /\ UNCHANGED <<fileVars, ledgerVars, passVars, crashes>>

(* An error of a step, a refused upload included, or a restart. *)
CrashOrError ==
  /\ crashes < MaxCrashes
  /\ pc = "barriers" => CrashInCompaction
  /\ crashes' = crashes + 1
  /\ pc' = "sleep" /\ observed' = FALSE
  /\ UNCHANGED <<fileVars, ledgerVars, passVars>>

(* rebuild --replace-all: a fresh ledger from all files takes the place of *)
(* this one.                                                               *)
Rebuild ==
  LET old == IF Compacting THEN Old(written) ELSE {}
      counts == [r \in Records |-> IF r \in old THEN 1 ELSE 0]
  IN  /\ pc = "sleep"
      /\ detail' = written \ old
      /\ rolled' = counts
      /\ barriers' = RolledDays(counts)
      /\ cursors' = [f \in Files |-> IF Content(f) = {} THEN None ELSE Content(f)]
      /\ known' = written \cap Identified
      /\ observed' = FALSE
      /\ UNCHANGED <<fileVars, pc, passVars, crashes>>

Pass ==
  \/ Wake \/ Parse \/ Defer \/ Import
  \/ \E f \in Files : Stamp(f)
  \/ Compact \/ RaiseBarriers \/ Upload \/ Observe

Next ==
  \/ \E r \in Records : Append(r)
  \/ NextDay
  \/ Pass
  \/ CrashOrError \/ Rebuild

Spec == Init /\ [][Next]_vars

-----------------------------------------------------------------------------
(* The ledger, its cursors and the pass in memory are well formed, and     *)
(* only days past their retention are compacted.                           *)
TypeOK ==
  /\ written \subseteq Records /\ today \in 0 .. LastDay
  /\ detail \subseteq Records /\ rolled \in [Records -> Nat]
  /\ \A d \in barriers : d \in Nat /\ d + RetainDays <= today
  /\ cursors \in [Files -> (SUBSET Records) \cup {None}] /\ known \subseteq Records
  /\ pc \in Steps /\ stamps \in [Files -> (SUBSET Records) \cup {None}]
  /\ parsing \in Files \cup {None} /\ parsed \subseteq Records /\ deferred \subseteq Files
  /\ observed \in BOOLEAN /\ crashes \in 0 .. MaxCrashes

Counted(r) == r \in detail \/ rolled[r] > 0

(* README.md:29-32: compaction moves a request from the detail to the      *)
(* rollups.  However often a file that still grows is read again, before   *)
(* and after its days were compacted, a request is counted at most once.   *)
CountedOnce == \A r \in Records : rolled[r] <= 1 /\ (rolled[r] > 0 => r \notin detail)

(* A cursor is honest: a file that will be skipped because its stamp is    *)
(* known has had every record it holds counted, unless its day was already *)
(* compacted when the record arrived.  A file that grew between the stamp, *)
(* the reading and the commit is read again.                               *)
CursorsHonest ==
  \A f \in Files : cursors[f] # None =>
    \A r \in cursors[f] : Counted(r) \/ DayOf[r] \in barriers

(* README.md:31-32: "The two tables together remain the complete local     *)
(* history": a request once counted is never lost again, by compaction, by *)
(* an aggregate merged into an older one, or by a rebuild.                 *)
HistoryKept == [][\A r \in Records : Counted(r) => Counted(r)']_vars

-----------------------------------------------------------------------------
(* The inductive strengthening the proofs use.                             *)

(* Nothing is in the ledger, or about to be, that is not in a file, and    *)
(* only records of old days are rolled up.                                 *)
FromFiles ==
  /\ detail \subseteq written /\ known \subseteq written /\ parsed \subseteq written
  /\ \A r \in Records : rolled[r] > 0 => r \in written /\ DayOf[r] + RetainDays <= today
  /\ \A f \in Files : stamps[f] # None => stamps[f] \subseteq Content(f)

(* Barriers stand only before rolled days, before all of them but between  *)
(* the two transactions of rollup_local.                                   *)
BarriersStand ==
  /\ barriers \subseteq RolledDays(rolled)
  /\ pc # "barriers" /\ ~CrashInCompaction => barriers = RolledDays(rolled)

(* What was met under an identity was counted, or refused by a barrier. *)
KnownCounted == \A r \in known : Counted(r) \/ DayOf[r] \in barriers

(* Every record under the stamp of a file that was read is in the report,  *)
(* and a stamped file that was not read is unchanged since its import.     *)
ReportComplete ==
  pc = "scan" =>
    \A f \in Files : stamps[f] # None /\ f # parsing /\ f \notin deferred =>
      stamps[f] = cursors[f] \/ stamps[f] \subseteq parsed

LocalInv ==
  /\ TypeOK /\ FromFiles /\ BarriersStand /\ KnownCounted /\ ReportComplete
  /\ CursorsHonest
  /\ ~CrashInCompaction => CountedOnce
=============================================================================
