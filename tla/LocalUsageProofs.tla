-------------------------- MODULE LocalUsageProofs --------------------------
(***************************************************************************)
(* The import and the compaction of local session files, for any files,    *)
(* records, days and number of crashes: what a cursor skips was counted,   *)
(* nothing counted is lost, and, when the client does not stop between the *)
(* two transactions of a compaction, nothing is counted twice.  The        *)
(* induction is on LocalInv.                                               *)
(***************************************************************************)
EXTENDS LocalUsage, TLAPS

USE RecordAssumption, BoundAssumption

LEMMA InitInv ==
  ASSUME Init
  PROVE  LocalInv
<1>1. TypeOK
  <2>1. written \subseteq Records /\ detail \subseteq Records /\ known \subseteq Records
        /\ parsed \subseteq Records /\ deferred \subseteq Files
    BY DEF Init
  <2>2. today \in 0 .. LastDay /\ crashes \in 0 .. MaxCrashes /\ rolled \in [Records -> Nat]
    BY DEF Init
  <2>3. cursors \in [Files -> (SUBSET Records) \cup {None}] /\ stamps = cursors
        /\ parsing \in Files \cup {None}
    BY DEF Init, NoStamps
  <2>4. pc \in Steps /\ observed \in BOOLEAN /\ barriers = {}
    BY DEF Init, Steps
  <2>5. QED
    BY <2>1, <2>2, <2>3, <2>4 DEF TypeOK
<1>2. FromFiles /\ BarriersStand
  BY DEF Init, FromFiles, BarriersStand, RolledDays, NoStamps
<1>3. KnownCounted /\ ReportComplete /\ CursorsHonest /\ CountedOnce
  BY DEF Init, KnownCounted, ReportComplete, CursorsHonest, CountedOnce, NoStamps
<1>4. QED
  BY <1>1, <1>2, <1>3 DEF LocalInv

(* While nothing counted is lost and barriers stay, what was known and     *)
(* skipped rightly stays so.                                               *)
LEMMA HonestyKept ==
  ASSUME TypeOK, KnownCounted, CursorsHonest,
         \A r \in Records : Counted(r) => Counted(r)',
         barriers \subseteq barriers',
         UNCHANGED <<cursors, known>>
  PROVE  KnownCounted' /\ CursorsHonest'
<1>1. KnownCounted'
  <2>1. SUFFICES ASSUME NEW r \in known PROVE Counted(r)' \/ DayOf[r] \in barriers'
    BY DEF KnownCounted
  <2>2. r \in Records
    BY DEF TypeOK
  <2>3. Counted(r) \/ DayOf[r] \in barriers
    BY DEF KnownCounted
  <2>4. QED
    BY <2>2, <2>3
<1>2. CursorsHonest'
  <2>1. SUFFICES ASSUME NEW f \in Files, cursors[f] # None, NEW r \in cursors[f]
                 PROVE  Counted(r)' \/ DayOf[r] \in barriers'
    BY DEF CursorsHonest
  <2>2. r \in Records
    BY <2>1 DEF TypeOK
  <2>3. Counted(r) \/ DayOf[r] \in barriers
    BY <2>1 DEF CursorsHonest
  <2>4. QED
    BY <2>2, <2>3
<1>3. QED
  BY <1>1, <1>2

(* A step that leaves the ledger alone. *)
LEMMA LedgerKept ==
  ASSUME LocalInv, UNCHANGED ledgerVars
  PROVE  /\ KnownCounted' /\ CursorsHonest'
         /\ ~CrashInCompaction => CountedOnce'
         /\ \A r \in Records : Counted(r) => Counted(r)'
<1>1. \A r \in Records : Counted(r) => Counted(r)'
  BY DEF ledgerVars, Counted
<1>2. KnownCounted' /\ CursorsHonest'
  BY <1>1, HonestyKept DEF LocalInv, ledgerVars
<1>3. ~CrashInCompaction => CountedOnce'
  BY DEF LocalInv, CountedOnce, ledgerVars
<1>4. QED
  BY <1>1, <1>2, <1>3

-----------------------------------------------------------------------------
(* The steps that change the ledger.                                       *)

(* Every record an import reads is counted afterwards, or refused by a     *)
(* barrier.                                                                *)
LEMMA ReportCounted ==
  ASSUME LocalInv, Import, NEW r \in parsed
  PROVE  Counted(r)' \/ DayOf[r] \in barriers'
<1>1. barriers' = barriers /\ rolled' = rolled /\ detail' = detail \cup Admitted
  BY DEF Import
<1>2. CASE r \in Admitted
  BY <1>1, <1>2 DEF Counted
<1>3. CASE DayOf[r] \in barriers
  BY <1>1, <1>3
<1>4. CASE r \in known
  BY <1>1, <1>4 DEF LocalInv, KnownCounted, Counted
<1>5. QED
  BY <1>2, <1>3, <1>4 DEF Admitted

LEMMA ImportInv ==
  ASSUME LocalInv, Import
  PROVE  LocalInv'
<1>1. TypeOK'
  <2>1. cursors' \in [Files -> (SUBSET Records) \cup {None}]
    BY DEF LocalInv, TypeOK, Import, CursorsAfter
  <2>2. detail' \subseteq Records /\ known' \subseteq Records
    BY DEF LocalInv, TypeOK, Import, Admitted
  <2>3. QED
    BY <2>1, <2>2 DEF LocalInv, TypeOK, Import, fileVars, passVars, Steps
<1>2. FromFiles'
  BY DEF LocalInv, FromFiles, Import, Admitted, Content, fileVars, passVars
<1>3. BarriersStand'
  BY DEF LocalInv, BarriersStand, Import, RolledDays
<1>4. KnownCounted'
  <2>1. SUFFICES ASSUME NEW r \in known' PROVE Counted(r)' \/ DayOf[r] \in barriers'
    BY DEF KnownCounted
  <2>2. r \in known \/ r \in parsed
    BY DEF Import
  <2>3. r \in known => Counted(r)' \/ DayOf[r] \in barriers'
    BY DEF LocalInv, KnownCounted, Counted, Import
  <2>4. QED
    BY <2>2, <2>3, ReportCounted
<1>5. ReportComplete'
  BY DEF ReportComplete, Import
<1>6. CursorsHonest'
  <2>1. SUFFICES ASSUME NEW f \in Files, cursors'[f] # None, NEW r \in cursors'[f]
                 PROVE  Counted(r)' \/ DayOf[r] \in barriers'
    BY DEF CursorsHonest
  <2>2. r \in parsed \/ (cursors[f] # None /\ r \in cursors[f])
    BY <2>1 DEF LocalInv, ReportComplete, Import, CursorsAfter
  <2>3. cursors[f] # None /\ r \in cursors[f] => Counted(r)' \/ DayOf[r] \in barriers'
    BY DEF LocalInv, CursorsHonest, Counted, Import
  <2>4. QED
    BY <2>2, <2>3, ReportCounted
<1>7. ~CrashInCompaction => CountedOnce'
  <2>1. SUFFICES ASSUME ~CrashInCompaction, NEW r \in Records
                 PROVE  rolled'[r] <= 1 /\ (rolled'[r] > 0 => r \notin detail')
    BY DEF CountedOnce
  <2>2. rolled[r] <= 1 /\ (rolled[r] > 0 => r \notin detail)
    BY <2>1 DEF LocalInv, CountedOnce
  <2>3. barriers = RolledDays(rolled)
    BY <2>1 DEF LocalInv, BarriersStand, Import
  <2>4. rolled[r] > 0 => r \notin Admitted
    BY <2>3 DEF Admitted, RolledDays
  <2>5. QED
    BY <2>2, <2>4 DEF Import
<1>8. QED
  BY <1>1, <1>2, <1>3, <1>4, <1>5, <1>6, <1>7 DEF LocalInv

LEMMA CompactKeeps ==
  ASSUME TypeOK, Compact
  PROVE  \A r \in Records : Counted(r) => Counted(r)'
BY DEF TypeOK, Compact, RollupAdded, Old, Counted

LEMMA CompactInv ==
  ASSUME LocalInv, Compact
  PROVE  LocalInv'
<1>0. rolled \in [Records -> Nat] /\ rolled' = RollupAdded(Old(detail))
      /\ detail' = detail \ Old(detail) /\ detail \subseteq Records
  BY DEF LocalInv, TypeOK, Compact
<1>1. TypeOK'
  BY <1>0 DEF LocalInv, TypeOK, Compact, RollupAdded, fileVars, passVars, Steps
<1>2. FromFiles'
  BY <1>0 DEF LocalInv, FromFiles, Compact, RollupAdded, Old, Content, fileVars, passVars
<1>3. BarriersStand'
  <2>1. \A r \in Records : rolled[r] > 0 => rolled'[r] > 0
    BY <1>0 DEF RollupAdded
  <2>2. RolledDays(rolled) \subseteq RolledDays(rolled)'
    BY <2>1 DEF RolledDays
  <2>3. QED
    BY <2>2 DEF LocalInv, BarriersStand, Compact
<1>4. KnownCounted' /\ CursorsHonest'
  BY CompactKeeps, HonestyKept DEF LocalInv, Compact
<1>5. ReportComplete'
  BY DEF ReportComplete, Compact
<1>6. ~CrashInCompaction => CountedOnce'
  <2>1. SUFFICES ASSUME ~CrashInCompaction, NEW r \in Records
                 PROVE  rolled'[r] <= 1 /\ (rolled'[r] > 0 => r \notin detail')
    BY DEF CountedOnce
  <2>2. rolled[r] <= 1 /\ (rolled[r] > 0 => r \notin detail) /\ rolled[r] \in Nat
    BY <1>0, <2>1 DEF LocalInv, CountedOnce
  <2>3. CASE r \in Old(detail)
    <3>1. r \in detail
      BY <2>3 DEF Old
    <3>2. rolled[r] = 0 /\ rolled'[r] = 1 /\ r \notin detail'
      BY <1>0, <2>2, <2>3, <3>1 DEF RollupAdded
    <3>3. QED
      BY <3>2
  <2>4. CASE r \notin Old(detail)
    BY <1>0, <2>2, <2>4 DEF RollupAdded
  <2>5. QED
    BY <2>3, <2>4
<1>7. QED
  BY <1>1, <1>2, <1>3, <1>4, <1>5, <1>6 DEF LocalInv

LEMMA RaiseBarriersInv ==
  ASSUME LocalInv, RaiseBarriers
  PROVE  LocalInv'
<1>1. TypeOK'
  <2>1. \A d \in barriers' : d \in Nat /\ d + RetainDays <= today
    BY DEF LocalInv, FromFiles, RaiseBarriers, RolledDays
  <2>2. QED
    BY <2>1 DEF LocalInv, TypeOK, RaiseBarriers, fileVars, passVars, Steps
<1>2. FromFiles'
  BY DEF LocalInv, FromFiles, RaiseBarriers, Content, fileVars, passVars
<1>3. BarriersStand'
  BY DEF BarriersStand, RaiseBarriers, RolledDays
<1>4. KnownCounted' /\ CursorsHonest'
  <2>1. barriers \subseteq barriers'
    BY DEF LocalInv, BarriersStand, RaiseBarriers
  <2>2. \A r \in Records : Counted(r) => Counted(r)'
    BY DEF RaiseBarriers, Counted
  <2>3. QED
    BY <2>1, <2>2, HonestyKept DEF LocalInv, RaiseBarriers
<1>5. ReportComplete'
  BY DEF ReportComplete, RaiseBarriers
<1>6. ~CrashInCompaction => CountedOnce'
  BY DEF LocalInv, CountedOnce, RaiseBarriers
<1>7. QED
  BY <1>1, <1>2, <1>3, <1>4, <1>5, <1>6 DEF LocalInv

(* A rebuild counts every record of the files exactly once. *)
LEMMA RebuildCounts ==
  ASSUME LocalInv, Rebuild
  PROVE  /\ rolled' \in [Records -> Nat] /\ detail' \subseteq written
         /\ barriers' = RolledDays(rolled')
         /\ \A r \in Records :
              /\ r \in written => Counted(r)'
              /\ rolled'[r] <= 1
              /\ rolled'[r] > 0 =>
                   r \in written /\ r \notin detail' /\ DayOf[r] + RetainDays <= today
<1>1. PICK old \in SUBSET written :
        /\ old \subseteq Old(written)
        /\ detail' = written \ old
        /\ rolled' = [r \in Records |-> IF r \in old THEN 1 ELSE 0]
        /\ barriers' = RolledDays([r \in Records |-> IF r \in old THEN 1 ELSE 0])
  <2>1. (IF Compacting THEN Old(written) ELSE {}) \in SUBSET written
    BY DEF Old
  <2>2. (IF Compacting THEN Old(written) ELSE {}) \subseteq Old(written)
    OBVIOUS
  <2>3. QED
    BY <2>1, <2>2 DEF Rebuild
<1>2. rolled' \in [Records -> Nat] /\ detail' \subseteq written
      /\ barriers' = RolledDays(rolled')
  BY <1>1
<1>3. \A r \in Records :
        /\ r \in written => Counted(r)'
        /\ rolled'[r] <= 1
        /\ rolled'[r] > 0 =>
             r \in written /\ r \notin detail' /\ DayOf[r] + RetainDays <= today
  BY <1>1 DEF Counted, Old
<1>4. QED
  BY <1>2, <1>3

LEMMA RebuildInv ==
  ASSUME LocalInv, Rebuild
  PROVE  LocalInv'
<1>0. UNCHANGED <<fileVars, pc, passVars, crashes>> /\ pc = "sleep" /\ observed' = FALSE
      /\ cursors' = [f \in Files |-> IF Content(f) = {} THEN None ELSE Content(f)]
      /\ known' = written \cap Identified
  BY DEF Rebuild
<1>1. written \subseteq Records /\ written' = written /\ today' = today
  BY <1>0 DEF LocalInv, TypeOK, fileVars
<1>2. TypeOK'
  <2>1. cursors' \in [Files -> (SUBSET Records) \cup {None}] /\ known' \subseteq Records
    BY <1>0, <1>1 DEF Content
  <2>2. \A d \in barriers' : d \in Nat /\ d + RetainDays <= today
    BY RebuildCounts DEF RolledDays
  <2>3. rolled' \in [Records -> Nat] /\ detail' \subseteq Records
    BY <1>1, RebuildCounts
  <2>4. /\ today' \in 0 .. LastDay /\ observed' \in BOOLEAN /\ crashes' \in 0 .. MaxCrashes
        /\ pc' \in Steps
    BY <1>0, <1>1 DEF LocalInv, TypeOK
  <2>5. /\ stamps' \in [Files -> (SUBSET Records) \cup {None}] /\ parsing' \in Files \cup {None}
        /\ parsed' \subseteq Records /\ deferred' \subseteq Files
    BY <1>0 DEF LocalInv, TypeOK, passVars
  <2>6. \A d \in barriers' : d \in Nat /\ d + RetainDays <= today'
    BY <1>1, <2>2
  <2>7. QED
    BY <1>1, <2>1, <2>3, <2>4, <2>5, <2>6 DEF TypeOK
<1>3. FromFiles'
  BY <1>0, <1>1, RebuildCounts DEF LocalInv, FromFiles, Content, passVars
<1>4. BarriersStand'
  BY RebuildCounts DEF BarriersStand, RolledDays
<1>5. KnownCounted'
  BY <1>0, <1>1, RebuildCounts DEF KnownCounted
<1>6. ReportComplete'
  BY <1>0 DEF ReportComplete
<1>7. CursorsHonest'
  <2>1. SUFFICES ASSUME NEW f \in Files, cursors'[f] # None, NEW r \in cursors'[f]
                 PROVE  Counted(r)' \/ DayOf[r] \in barriers'
    BY DEF CursorsHonest
  <2>2. r \in written
    BY <1>0, <2>1 DEF Content
  <2>3. QED
    BY <1>1, <2>2, RebuildCounts
<1>8. CountedOnce'
  BY RebuildCounts DEF CountedOnce
<1>9. QED
  BY <1>2, <1>3, <1>4, <1>5, <1>6, <1>7, <1>8 DEF LocalInv

-----------------------------------------------------------------------------
(* The steps that leave the ledger alone.                                  *)

LEMMA FilesInv ==
  ASSUME LocalInv, (\E r \in Records : Append(r)) \/ NextDay
  PROVE  LocalInv'
<1>0. UNCHANGED <<ledgerVars, pc, passVars, observed, crashes>>
  BY DEF Append, NextDay
<1>1. /\ written \subseteq written' /\ written' \subseteq Records
      /\ today \in Nat /\ today' \in 0 .. LastDay /\ today <= today'
  BY DEF LocalInv, TypeOK, Append, NextDay
<1>2. TypeOK'
  BY <1>0, <1>1 DEF LocalInv, TypeOK, ledgerVars, passVars
<1>3. FromFiles'
  BY <1>0, <1>1 DEF LocalInv, TypeOK, FromFiles, Content, ledgerVars, passVars
<1>4. BarriersStand'
  BY <1>0 DEF LocalInv, BarriersStand, RolledDays, ledgerVars
<1>5. ReportComplete'
  BY <1>0 DEF LocalInv, ReportComplete, ledgerVars, passVars
<1>6. QED
  BY <1>0, <1>2, <1>3, <1>4, <1>5, LedgerKept DEF LocalInv

LEMMA WakeInv ==
  ASSUME LocalInv, Wake
  PROVE  LocalInv'
<1>0. UNCHANGED ledgerVars
  BY DEF Wake
<1>1. TypeOK'
  BY DEF LocalInv, TypeOK, Wake, NoStamps, fileVars, ledgerVars, Steps
<1>2. FromFiles' /\ ReportComplete'
  BY DEF LocalInv, FromFiles, ReportComplete, Wake, NoStamps, fileVars, ledgerVars
<1>3. BarriersStand'
  BY DEF LocalInv, BarriersStand, RolledDays, Wake, ledgerVars
<1>4. QED
  BY <1>0, <1>1, <1>2, <1>3, LedgerKept DEF LocalInv

LEMMA ScanInv ==
  ASSUME LocalInv, (\E f \in Files : Stamp(f)) \/ Parse \/ Defer
  PROVE  LocalInv'
<1>0. UNCHANGED <<fileVars, ledgerVars, pc, observed, crashes>> /\ pc = "scan"
  BY DEF Stamp, Parse, Defer
<1>1. \A f \in Files : Content(f) \in SUBSET Records
  BY DEF LocalInv, TypeOK, Content
<1>2. TypeOK'
  <2>1. /\ stamps' \in [Files -> (SUBSET Records) \cup {None}]
        /\ parsing' \in Files \cup {None}
        /\ parsed' \subseteq Records /\ deferred' \subseteq Files
    BY <1>1 DEF LocalInv, TypeOK, Stamp, Parse, Defer
  <2>2. QED
    BY <1>0, <2>1 DEF LocalInv, TypeOK, fileVars, ledgerVars
<1>3. FromFiles'
  <2>1. parsed' \subseteq written
    BY DEF LocalInv, FromFiles, Content, Stamp, Parse, Defer
  <2>2. \A f \in Files : stamps'[f] # None => stamps'[f] \subseteq Content(f)
    BY DEF LocalInv, TypeOK, FromFiles, Stamp, Parse, Defer
  <2>3. QED
    BY <1>0, <2>1, <2>2 DEF LocalInv, FromFiles, Content, fileVars, ledgerVars
<1>4. BarriersStand'
  BY <1>0 DEF LocalInv, BarriersStand, RolledDays, ledgerVars
<1>5. ReportComplete'
  <2>1. SUFFICES ASSUME NEW f \in Files, stamps'[f] # None, f # parsing', f \notin deferred'
                 PROVE  stamps'[f] = cursors[f] \/ stamps'[f] \subseteq parsed'
    BY <1>0 DEF ReportComplete, ledgerVars
  <2>2. /\ stamps[f] # None /\ f # parsing /\ f \notin deferred
           => stamps[f] = cursors[f] \/ stamps[f] \subseteq parsed
        /\ stamps[f] # None => stamps[f] \subseteq Content(f)
    BY <1>0 DEF LocalInv, ReportComplete, FromFiles
  <2>3. CASE \E g \in Files : Stamp(g)
    BY <2>1, <2>2, <2>3 DEF Stamp, LocalInv, TypeOK
  <2>4. CASE Parse
    BY <2>1, <2>2, <2>4 DEF Parse
  <2>5. CASE Defer
    BY <2>1, <2>2, <2>5 DEF Defer
  <2>6. QED
    BY <2>3, <2>4, <2>5
<1>6. QED
  BY <1>0, <1>2, <1>3, <1>4, <1>5, LedgerKept DEF LocalInv

LEMMA RestInv ==
  ASSUME LocalInv, Upload \/ Observe \/ CrashOrError
  PROVE  LocalInv'
<1>0. UNCHANGED <<fileVars, ledgerVars, passVars>> /\ pc' \in {"sleep", "observe"}
  BY DEF Upload, Observe, CrashOrError
<1>1. TypeOK'
  <2>1. observed' \in BOOLEAN /\ crashes' \in 0 .. MaxCrashes
    <3>1. CASE Upload
      BY <3>1 DEF LocalInv, TypeOK, Upload
    <3>2. CASE Observe
      BY <3>2 DEF LocalInv, TypeOK, Observe
    <3>3. CASE CrashOrError
      <4>1. crashes < MaxCrashes /\ crashes' = crashes + 1 /\ observed' = FALSE
        BY <3>3 DEF CrashOrError
      <4>2. crashes \in 0 .. MaxCrashes
        BY DEF LocalInv, TypeOK
      <4>3. crashes' \in 0 .. MaxCrashes
        BY <4>1, <4>2
      <4>4. observed' \in BOOLEAN
        BY <4>1
      <4>5. QED
        BY <4>3, <4>4
    <3>4. QED
      BY <3>1, <3>2, <3>3
  <2>2. QED
    BY <1>0, <2>1 DEF LocalInv, TypeOK, fileVars, ledgerVars, passVars, Steps
<1>2. FromFiles'
  BY <1>0 DEF LocalInv, FromFiles, Content, fileVars, ledgerVars, passVars
<1>3. BarriersStand'
  <2>1. ~CrashInCompaction => pc # "barriers"
    BY DEF Upload, Observe, CrashOrError
  <2>2. QED
    BY <1>0, <2>1 DEF LocalInv, BarriersStand, RolledDays, ledgerVars
<1>4. ReportComplete'
  BY <1>0 DEF ReportComplete
<1>5. QED
  BY <1>0, <1>1, <1>2, <1>3, <1>4, LedgerKept DEF LocalInv

-----------------------------------------------------------------------------
(* The theorems.                                                           *)

LEMMA NextInv ==
  ASSUME LocalInv, [Next]_vars
  PROVE  LocalInv'
<1>1. CASE UNCHANGED vars
  <2>1. UNCHANGED ledgerVars
    BY <1>1 DEF vars
  <2>2. TypeOK'
    BY <1>1 DEF LocalInv, TypeOK, vars, fileVars, ledgerVars, passVars
  <2>3. FromFiles' /\ BarriersStand' /\ ReportComplete'
    BY <1>1 DEF LocalInv, FromFiles, BarriersStand, ReportComplete, RolledDays, Content,
                vars, fileVars, ledgerVars, passVars
  <2>4. QED
    BY <2>1, <2>2, <2>3, LedgerKept DEF LocalInv
<1>2. QED
  BY <1>1, FilesInv, WakeInv, ScanInv, ImportInv, CompactInv, RaiseBarriersInv, RestInv,
     RebuildInv DEF Next, Pass

LEMMA InvAlways == Spec => []LocalInv
<1>1. Init => LocalInv
  BY InitInv
<1>2. LocalInv /\ [Next]_vars => LocalInv'
  BY NextInv
<1>3. QED
  BY <1>1, <1>2, PTL DEF Spec

(* The ledger and the pass stay well formed, and a barrier only ever       *)
(* stands before a day that is past its retention (rollup_local).          *)
THEOREM TypeCorrect == Spec => []TypeOK
<1>1. LocalInv => TypeOK
  BY DEF LocalInv
<1>2. QED
  BY <1>1, InvAlways, PTL

(* Every record of a file that will be skipped as unchanged was counted,   *)
(* or its day had been compacted: files that grow while they are read,     *)
(* deferred children and errors do not let a record slip by                *)
(* (record_scan_metadata).                                                 *)
THEOREM CursorsAreHonest == Spec => []CursorsHonest
<1>1. LocalInv => CursorsHonest
  BY DEF LocalInv
<1>2. QED
  BY <1>1, InvAlways, PTL

(* No step, of an import, a compaction, a crash or a rebuild, loses a      *)
(* request that was counted (rollup_local, rebuild).                       *)
THEOREM NothingIsLost == Spec => HistoryKept
<1>1. LocalInv /\ [Next]_vars => [\A r \in Records : Counted(r) => Counted(r)']_vars
  <2>1. SUFFICES ASSUME LocalInv, Next
                 PROVE  \A r \in Records : Counted(r) => Counted(r)'
    OBVIOUS
  <2>2. CASE Import
    BY <2>2 DEF Import, Counted
  <2>3. CASE Compact
    BY <2>1, <2>3, CompactKeeps DEF LocalInv
  <2>4. CASE RaiseBarriers
    BY <2>4 DEF RaiseBarriers, Counted
  <2>5. CASE Rebuild
    <3>1. \A r \in Records : Counted(r) => r \in written
      BY <2>1 DEF LocalInv, FromFiles, Counted
    <3>2. QED
      BY <2>1, <2>5, <3>1, RebuildCounts
  <2>6. CASE UNCHANGED ledgerVars
    BY <2>6, LedgerKept, <2>1
  <2>7. QED
    BY <2>1, <2>2, <2>3, <2>4, <2>5, <2>6
       DEF Next, Pass, Append, NextDay, Wake, Stamp, Parse, Defer, Upload, Observe, CrashOrError
<1>2. QED
  BY <1>1, InvAlways, PTL DEF Spec, HistoryKept

(* A client that does not stop between the two transactions of a           *)
(* compaction counts every request at most once, however often its file is *)
(* read again (insert_values, rollup_local).                               *)
THEOREM NothingIsCountedTwice ==
  ASSUME ~CrashInCompaction
  PROVE  Spec => []CountedOnce
<1>1. LocalInv => CountedOnce
  BY DEF LocalInv
<1>2. QED
  BY <1>1, InvAlways, PTL
=============================================================================
