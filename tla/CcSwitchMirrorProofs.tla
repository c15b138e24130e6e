------------------------ MODULE CcSwitchMirrorProofs ------------------------
(***************************************************************************)
(* The mirroring pass, for any number of rows, days, page sizes, writes of *)
(* cc-switch between its steps and errors: it deletes only what the source *)
(* was without, and, undisturbed, it leaves the ledger a mirror.  The      *)
(* induction is on MirrorInv.                                              *)
(***************************************************************************)
EXTENDS CcSwitchMirror, TLAPS

USE RowAssumption, BatchAssumption, BoundAssumption

LEMMA ViewType ==
  ASSUME NEW detail \in RowContents, NEW rolls \in Rollups
  PROVE  View(detail, rolls) \in [detail : RowContents, rolls : Rollups]
BY DEF View, RowContents, Days

LEMMA InitInv ==
  ASSUME Init
  PROVE  MirrorInv
<1>1. NoRows \in RowContents /\ NoRollups \in Rollups
  BY DEF NoRows, NoRollups, RowContents, Rollups
<1>2. TypeOK
  <2>1. central \in [detail : RowContents, rolls : Rollups]
    BY <1>1, ViewType DEF Init
  <2>2. writes \in 0 .. MaxWrites /\ crashes \in 0 .. MaxCrashes /\ cursor \in 0 .. RowCount
    BY DEF Init
  <2>3. pc \in Steps /\ observed \in BOOLEAN /\ quiet \in BOOLEAN
    BY DEF Init, Steps
  <2>4. QED
    BY <1>1, <2>1, <2>2, <2>3 DEF Init, TypeOK
<1>3. MetOrGone /\ RollupsBehind /\ QuietProgress
  BY DEF Init, MetOrGone, RollupsBehind, QuietProgress, Absent, NoRollups
<1>4. QED
  BY <1>2, <1>3 DEF MirrorInv

-----------------------------------------------------------------------------
(* cc-switch.                                                              *)

LEMMA SourceInv ==
  ASSUME MirrorInv,
         \/ \E r \in Rows, v \in Vals \cup {None} : SourceWrite(r, v)
         \/ \E d \in Days : SourceCompact(d)
  PROVE  MirrorInv'
<1>0. UNCHANGED <<ledVars, passVars, central, crashes>> /\ observed' = FALSE /\ quiet' = FALSE
      /\ writes < MaxWrites /\ writes' = writes + 1
  BY DEF SourceWrite, SourceCompact, SourceMayWrite
<1>1. /\ src' \in RowContents /\ srcRoll' \in Rollups
      /\ gone \subseteq gone' /\ gone' \subseteq Rows /\ Absent' \subseteq gone'
      /\ \A d \in Days : srcRoll[d] \subseteq srcRoll'[d]
  <2>1. CASE \E r \in Rows, v \in Vals \cup {None} : SourceWrite(r, v)
    <3>1. PICK r \in Rows, v \in Vals \cup {None} : SourceWrite(r, v)
      BY <2>1
    <3>2. QED
      BY <3>1 DEF MirrorInv, TypeOK, MetOrGone, SourceWrite, Absent, RowContents, Rollups
  <2>2. CASE \E d \in Days : SourceCompact(d)
    <3>1. PICK d \in Days : SourceCompact(d)
      BY <2>2
    <3>2. PICK absorbed \in SUBSET Rows :
            /\ srcRoll' = [srcRoll EXCEPT ![d] = @ \cup absorbed]
            /\ src' = [r \in Rows |-> IF r \in absorbed THEN None ELSE src[r]]
            /\ gone' = gone \cup absorbed
      BY <3>1 DEF SourceCompact
    <3>3. QED
      BY <3>2 DEF MirrorInv, TypeOK, MetOrGone, Absent, RowContents, Rollups
  <2>3. QED
    BY <2>1, <2>2
<1>2. TypeOK'
  <2>1. writes' \in 0 .. MaxWrites
    BY <1>0 DEF MirrorInv, TypeOK
  <2>2. QED
    BY <1>0, <1>1, <2>1 DEF MirrorInv, TypeOK, ledVars, passVars
<1>3. MetOrGone'
  BY <1>0, <1>1 DEF MirrorInv, MetOrGone, passVars
<1>4. RollupsBehind'
  BY <1>0, <1>1 DEF MirrorInv, TypeOK, RollupsBehind, ledVars
<1>5. QuietProgress'
  BY <1>0 DEF QuietProgress
<1>6. QED
  BY <1>2, <1>3, <1>4, <1>5 DEF MirrorInv

-----------------------------------------------------------------------------
(* The pass.                                                               *)

LEMMA WakeInv ==
  ASSUME MirrorInv, Wake
  PROVE  MirrorInv'
<1>1. UNCHANGED <<srcVars, ledVars, observed, central, writes, crashes>>
      /\ pc' = "page" /\ cursor' = 0 /\ seen' = {} /\ gone' = Absent /\ quiet' = TRUE
  BY DEF Wake, Absent
<1>2. TypeOK'
  BY <1>1 DEF MirrorInv, TypeOK, srcVars, ledVars, Absent, Steps
<1>3. MetOrGone'
  BY <1>1 DEF MetOrGone, Absent, srcVars, Rows
<1>4. RollupsBehind'
  BY <1>1 DEF MirrorInv, RollupsBehind, srcVars, ledVars
<1>5. QuietProgress'
  BY <1>1 DEF QuietProgress, Absent, srcVars
<1>6. QED
  BY <1>2, <1>3, <1>4, <1>5 DEF MirrorInv

(* A page passes by no row that is there without meeting it. *)
LEMMA PageMeets ==
  ASSUME MirrorInv, Page
  PROVE  /\ seen' \in SUBSET Rows /\ seen \subseteq seen' /\ cursor' \in 0 .. RowCount
         /\ pc' \in {"page", "unseen"}
         /\ \E batch \in SUBSET Ahead : seen' = seen \cup batch /\ led' = Stored(batch)
         /\ \A r \in Rows : pc' = "unseen" \/ r <= cursor' =>
              r <= cursor \/ r \in seen' \/ r \in Absent
<1>1. PICK batch \in SUBSET Rows :
        /\ Batch(batch) /\ led' = Stored(batch) /\ seen' = seen \cup batch
        /\ \/ batch = {} /\ cursor' = cursor
           \/ cursor' \in batch /\ (\A r \in batch : r <= cursor')
        /\ pc' = IF Cardinality(batch) < BatchSize THEN "unseen" ELSE "page"
  BY DEF Page, Met
<1>2. /\ batch \subseteq Ahead
      /\ pc' = "unseen" => batch = Ahead
      /\ \A r \in batch, q \in Ahead \ batch : r < q
  BY <1>1 DEF Batch
<1>3. seen' \in SUBSET Rows /\ seen \subseteq seen' /\ cursor' \in 0 .. RowCount
  <2>1. seen \subseteq Rows /\ cursor \in 0 .. RowCount
    BY DEF MirrorInv, TypeOK
  <2>2. cursor' \in Rows \/ cursor' = cursor
    BY <1>1
  <2>3. cursor' \in 0 .. RowCount
    BY <2>1, <2>2 DEF Rows
  <2>4. QED
    BY <1>1, <2>1, <2>3
<1>4. ASSUME NEW r \in Rows, pc' = "unseen" \/ r <= cursor', ~(r <= cursor), r \notin Absent
      PROVE  r \in seen'
  <2>1. r \in Ahead
    BY <1>4 DEF Ahead, Absent, MirrorInv, TypeOK, Rows
  <2>2. CASE pc' = "unseen"
    BY <1>1, <1>2, <2>1, <2>2
  <2>3. CASE r <= cursor' /\ r \notin batch
    <3>1. cursor' \in batch
      BY <1>1, <1>4, <2>3
    <3>2. cursor' < r
      BY <1>2, <2>1, <2>3, <3>1
    <3>3. QED
      BY <1>3, <2>3, <3>2 DEF Rows
  <2>4. QED
    BY <1>1, <1>4, <2>2, <2>3
<1>5. pc' \in {"page", "unseen"}
  BY <1>1
<1>6. \E b \in SUBSET Ahead : seen' = seen \cup b /\ led' = Stored(b)
  BY <1>1, <1>2
<1>7. QED
  BY <1>3, <1>4, <1>5, <1>6

LEMMA PageInv ==
  ASSUME MirrorInv, Page
  PROVE  MirrorInv'
<1>0. UNCHANGED <<srcVars, ledRoll, barriers, observed, central, gone, quiet, writes, crashes>>
      /\ pc = "page"
  BY DEF Page
<1>1. PICK batch \in SUBSET Ahead : seen' = seen \cup batch /\ led' = Stored(batch)
  BY PageMeets
<1>2. Ahead \subseteq Rows
  BY DEF Ahead
<1>3. TypeOK'
  <2>1. led' \in RowContents
    BY <1>1 DEF MirrorInv, TypeOK, Stored, RowContents
  <2>2. QED
    BY <1>0, <2>1, PageMeets DEF MirrorInv, TypeOK, srcVars, Steps
<1>4. MetOrGone'
  <2>1. Absent' = Absent /\ Absent \subseteq gone /\ gone' = gone
    BY <1>0 DEF MirrorInv, MetOrGone, Absent, srcVars
  <2>2. \A r \in Rows : r <= cursor => r \in seen \cup gone
    BY <1>0 DEF MirrorInv, MetOrGone
  <2>3. QED
    BY <2>1, <2>2, PageMeets DEF MetOrGone
<1>5. RollupsBehind'
  BY <1>0 DEF MirrorInv, RollupsBehind, srcVars
<1>6. QuietProgress'
  <2>1. SUFFICES ASSUME quiet
                 PROVE  /\ gone = Absent
                        /\ \A r \in seen' : src[r] # None
                             /\ (led'[r] = src[r] \/ srcRoll[DayOf[r]] # {})
    BY <1>0, PageMeets DEF QuietProgress, Absent, srcVars
  <2>2. /\ gone = Absent
        /\ \A r \in seen : src[r] # None /\ (led[r] = src[r] \/ srcRoll[DayOf[r]] # {})
    BY <1>0, <2>1 DEF MirrorInv, QuietProgress
  <2>3. ASSUME NEW r \in seen'
        PROVE  src[r] # None /\ (led'[r] = src[r] \/ srcRoll[DayOf[r]] # {})
    <3>1. r \in Rows
      BY <2>3, PageMeets
    <3>2. CASE r \in batch
      BY <1>1, <3>1, <3>2 DEF Ahead, Stored, MirrorInv, RollupsBehind
    <3>3. CASE r \notin batch
      BY <1>1, <2>2, <2>3, <3>1, <3>3 DEF Stored
    <3>4. QED
      BY <3>2, <3>3
  <2>4. QED
    BY <2>2, <2>3
<1>7. QED
  BY <1>3, <1>4, <1>5, <1>6 DEF MirrorInv

LEMMA DeleteUnseenInv ==
  ASSUME MirrorInv, DeleteUnseen
  PROVE  MirrorInv'
<1>0. UNCHANGED <<srcVars, ledRoll, barriers, cursor, seen, observed, central, gone, quiet,
                  writes, crashes>>
      /\ pc = "unseen" /\ pc' = "rollups"
      /\ led' = [r \in Rows |-> IF r \in seen THEN led[r] ELSE None]
  BY DEF DeleteUnseen
<1>1. TypeOK'
  <2>1. led' \in RowContents
    BY <1>0 DEF MirrorInv, TypeOK, RowContents
  <2>2. QED
    BY <1>0, <2>1 DEF MirrorInv, TypeOK, srcVars, Steps
<1>2. MetOrGone'
  BY <1>0 DEF MirrorInv, MetOrGone, Absent, srcVars
<1>3. RollupsBehind'
  BY <1>0 DEF MirrorInv, RollupsBehind, srcVars
<1>4. QuietProgress'
  <2>1. SUFFICES ASSUME quiet
                 PROVE  /\ gone = Absent
                        /\ \A r \in seen : src[r] # None
                             /\ (led'[r] = src[r] \/ srcRoll[DayOf[r]] # {})
                        /\ Mirrors(led)'
    BY <1>0 DEF QuietProgress, Absent, srcVars
  <2>2. /\ gone = Absent
        /\ \A r \in seen : src[r] # None /\ (led[r] = src[r] \/ srcRoll[DayOf[r]] # {})
    BY <1>0, <2>1 DEF MirrorInv, QuietProgress
  <2>3. seen \subseteq Rows /\ Rows \subseteq seen \cup gone
    BY <1>0 DEF MirrorInv, TypeOK, MetOrGone
  <2>4. \A r \in seen : src[r] # None /\ (led'[r] = src[r] \/ srcRoll[DayOf[r]] # {})
    BY <1>0, <2>2, <2>3
  <2>5. \A r \in Rows : r \notin seen => led'[r] = src[r]
    BY <1>0, <2>2, <2>3 DEF Absent
  <2>6. Mirrors(led)'
    BY <1>0, <2>4, <2>5 DEF Mirrors, srcVars
  <2>7. QED
    BY <2>2, <2>4, <2>6
<1>5. QED
  BY <1>1, <1>2, <1>3, <1>4 DEF MirrorInv

LEMMA RollupsInv ==
  ASSUME MirrorInv, MirrorRollups \/ RebuildBarriers
  PROVE  MirrorInv'
<1>0. UNCHANGED <<srcVars, led, cursor, seen, observed, central, gone, quiet, writes, crashes>>
      /\ pc \in {"rollups", "barriers"} /\ pc' \in {"barriers", "upload"}
  BY DEF MirrorRollups, RebuildBarriers
<1>1. /\ ledRoll' \in Rollups /\ barriers' \subseteq Days
      /\ \A d \in Days : ledRoll'[d] \subseteq srcRoll[d]
      /\ \A d \in barriers' : srcRoll[d] # {}
  <2>1. CASE MirrorRollups
    BY <2>1 DEF MirrorRollups, MirrorInv, TypeOK, RollupsBehind
  <2>2. CASE RebuildBarriers
    BY <2>2 DEF RebuildBarriers, MirrorInv, TypeOK, RollupsBehind
  <2>3. QED
    BY <2>1, <2>2
<1>2. quiet => ledRoll' = srcRoll
  BY DEF MirrorRollups, RebuildBarriers, MirrorInv, QuietProgress
<1>3. TypeOK'
  BY <1>0, <1>1 DEF MirrorInv, TypeOK, srcVars, Steps
<1>4. MetOrGone'
  BY <1>0 DEF MirrorInv, MetOrGone, Absent, srcVars
<1>5. RollupsBehind'
  BY <1>0, <1>1 DEF RollupsBehind, srcVars
<1>6. QuietProgress'
  BY <1>0, <1>2 DEF MirrorInv, QuietProgress, Mirrors, Absent, srcVars
<1>7. QED
  BY <1>3, <1>4, <1>5, <1>6 DEF MirrorInv

LEMMA RestInv ==
  ASSUME MirrorInv, Upload \/ Observe \/ CrashOrError
  PROVE  MirrorInv'
<1>0. UNCHANGED <<srcVars, ledVars, gone, quiet, writes>> /\ pc' \in {"sleep", "observe"}
  BY DEF Upload, Observe, CrashOrError
<1>1. TypeOK'
  <2>1. central' \in [detail : RowContents, rolls : Rollups]
    <3>1. CASE Upload
      BY <3>1, ViewType DEF Upload, MirrorInv, TypeOK
    <3>2. CASE Observe \/ CrashOrError
      BY <3>2 DEF Observe, CrashOrError, MirrorInv, TypeOK
    <3>3. QED
      BY <3>1, <3>2
  <2>2. cursor' \in 0 .. RowCount /\ seen' \subseteq Rows
    BY DEF Upload, Observe, CrashOrError, MirrorInv, TypeOK
  <2>3. crashes' \in 0 .. MaxCrashes
    BY DEF Upload, Observe, CrashOrError, MirrorInv, TypeOK
  <2>4. observed' \in BOOLEAN
    BY DEF Upload, Observe, CrashOrError, MirrorInv, TypeOK
  <2>5. QED
    BY <1>0, <2>1, <2>2, <2>3, <2>4 DEF MirrorInv, TypeOK, srcVars, ledVars, Steps
<1>2. MetOrGone'
  BY <1>0 DEF MirrorInv, MetOrGone, Absent, srcVars
<1>3. RollupsBehind'
  BY <1>0 DEF MirrorInv, RollupsBehind, srcVars, ledVars
<1>4. QuietProgress'
  <2>1. pc' # "sleep" => pc = "upload" /\ UNCHANGED <<cursor, seen>>
    BY DEF Upload, Observe, CrashOrError
  <2>2. QED
    BY <1>0, <2>1 DEF MirrorInv, QuietProgress, Mirrors, Absent, srcVars, ledVars
<1>5. QED
  BY <1>1, <1>2, <1>3, <1>4 DEF MirrorInv

-----------------------------------------------------------------------------
(* The theorems.                                                           *)

LEMMA NextInv ==
  ASSUME MirrorInv, [Next]_vars
  PROVE  MirrorInv'
<1>1. CASE UNCHANGED vars
  <2>1. TypeOK'
    BY <1>1 DEF MirrorInv, TypeOK, vars, srcVars, ledVars, passVars
  <2>2. MetOrGone' /\ RollupsBehind' /\ QuietProgress'
    BY <1>1 DEF MirrorInv, MetOrGone, RollupsBehind, QuietProgress, Mirrors, Absent,
                vars, srcVars, ledVars, passVars
  <2>3. QED
    BY <2>1, <2>2 DEF MirrorInv
<1>2. QED
  BY <1>1, SourceInv, WakeInv, PageInv, DeleteUnseenInv, RollupsInv, RestInv
     DEF Next, Client

LEMMA InvAlways == Spec => []MirrorInv
<1>1. Init => MirrorInv
  BY InitInv
<1>2. MirrorInv /\ [Next]_vars => MirrorInv'
  BY NextInv
<1>3. QED
  BY <1>1, <1>2, PTL DEF Spec

(* Both databases and the pass stay well formed. *)
THEOREM TypeCorrect == Spec => []TypeOK
<1>1. MirrorInv => TypeOK
  BY DEF MirrorInv
<1>2. QED
  BY <1>1, InvAlways, PTL

(* usage_ledger.rs:532-534: a pass during which the source was not written *)
(* leaves the ledger a mirror of it, whatever the size of its pages and    *)
(* whatever earlier, disturbed or broken off, passes left behind.          *)
THEOREM PassesAreExact == Spec => []PassIsExact
<1>1. MirrorInv => PassIsExact
  BY DEF MirrorInv, QuietProgress, PassIsExact
<1>2. QED
  BY <1>1, InvAlways, PTL

(* Whatever cc-switch writes between two pages, the deletion that follows  *)
(* them (usage_ledger.rs:565-574) hits only rows the source was without at *)
(* some moment of the pass.                                                *)
THEOREM OnlyGoneRowsAreDeleted == Spec => DeletesOnlyGone
<1>1. MirrorInv /\ [Next]_vars
        => [\A r \in Rows : led[r] # None /\ led'[r] = None => r \in gone]_vars
  <2>1. SUFFICES ASSUME MirrorInv, Next, NEW r \in Rows, led[r] # None, led'[r] = None
                 PROVE  r \in gone
    OBVIOUS
  <2>2. CASE Page
    <3>1. PICK batch \in SUBSET Ahead : led' = Stored(batch)
      BY <2>1, <2>2, PageMeets
    <3>2. QED
      BY <2>1, <3>1 DEF Stored, Ahead
  <2>3. CASE DeleteUnseen
    BY <2>1, <2>3 DEF DeleteUnseen, MirrorInv, MetOrGone
  <2>4. CASE led' = led
    BY <2>1, <2>4
  <2>5. QED
    BY <2>1, <2>2, <2>3, <2>4
       DEF Next, Client, SourceWrite, SourceCompact, Wake, MirrorRollups, RebuildBarriers,
           Upload, Observe, CrashOrError, ledVars
<1>2. QED
  BY <1>1, InvAlways, PTL DEF Spec, DeletesOnlyGone
=============================================================================
