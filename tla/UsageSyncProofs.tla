-------------------------- MODULE UsageSyncProofs --------------------------
(***************************************************************************)
(* Proofs about UsageSync for every set of rows, generations and any       *)
(* number of purges.                                                       *)
(***************************************************************************)
EXTENDS UsageSync, TLAPS

-----------------------------------------------------------------------------
(* Facts about the diff and its application.                               *)

LEMMA MutationType ==
  ASSUME NEW full \in BOOLEAN, NEW S, NEW base, NEW current \in S \cup {None}
  PROVE  Mutation(full, base, current) \in S \cup {Keep, Delete}
BY DEF Mutation

LEMMA PlanForType ==
  ASSUME TypeOK, NEW force \in BOOLEAN, NEW ev \in EventRows,
         NEW ro \in RollupRows, NEW prov \in SUBSET Providers
  PROVE  PlanFor(force, ev, ro, prov) \in Plans
<1>1. (force \/ ~baseInit) \in BOOLEAN
  BY DEF TypeOK
<1>2. EventDiff(force \/ ~baseInit, baseEv, ev) \in EventMutations
  BY <1>1, MutationType DEF EventDiff, EventMutations, EventRows
<1>3. RollupDiff(force \/ ~baseInit, baseRo, ro) \in RollupMutations
  BY <1>1, MutationType DEF RollupDiff, RollupMutations, RollupRows
<1>4. QED
  BY <1>1, <1>2, <1>3 DEF PlanFor, Plans

LEMMA RowsAfterType ==
  ASSUME NEW full \in BOOLEAN, NEW ev \in EventMutations,
         NEW ro \in RollupMutations, NEW rows \in EventRows,
         NEW rrows \in RollupRows
  PROVE  /\ EventsAfter(full, ev, ro, rows) \in EventRows
         /\ RollupsAfter(full, ro, rrows) \in RollupRows
<1>1. \A e \in Events : Mutated(ev[e], IF full THEN None ELSE rows[e])
                          \in Vals \cup {None}
  BY DEF Mutated, EventMutations, EventRows
<1>2. \A r \in Rollups : Mutated(ro[r], IF full THEN None ELSE rrows[r])
                           \in RollupVals \cup {None}
  BY DEF Mutated, RollupMutations, RollupRows
<1>3. QED
  BY <1>1, <1>2 DEF EventsAfter, RollupsAfter, EventRows, RollupRows

(* Applying a diff whose deletes and skips were computed against base to   *)
(* rows that may lack some of base's yields the current rows, less those   *)
(* a rollup covers and those that were skipped and are not there.          *)
LEMMA EventApplied ==
  ASSUME NEW full \in BOOLEAN, NEW base \in EventRows, NEW ev \in EventRows,
         NEW ro \in RollupMutations, NEW rows \in EventRows, NEW e \in Events,
         full \/ rows[e] = base[e] \/ rows[e] = None
  PROVE  LET after == EventsAfter(full, EventDiff(full, base, ev), ro, rows)[e]
         IN  /\ after # None => after = ev[e] /\ ~Covered(after, ro)
             /\ after # ev[e] => \/ Covered(ev[e], ro)
                                 \/ ~full /\ rows[e] = None /\ base[e] = ev[e]
<1> DEFINE kept == Mutated(EventDiff(full, base, ev)[e], IF full THEN None ELSE rows[e])
           after == EventsAfter(full, EventDiff(full, base, ev), ro, rows)[e]
<1>1. after = IF kept # None /\ Covered(kept, ro) THEN None ELSE kept
  BY DEF EventsAfter
<1>2. EventDiff(full, base, ev)[e] = Mutation(full, base[e], ev[e])
  BY DEF EventDiff
<1>3. ev[e] \in Vals \cup {None} /\ base[e] \in Vals \cup {None}
  BY DEF EventRows
<1>4. kept = ev[e] \/ (~full /\ kept = None /\ rows[e] = None /\ base[e] = ev[e])
  BY <1>2, <1>3, MarkAssumption DEF Mutated, Mutation
<1>5. QED
  BY <1>1, <1>4

LEMMA RollupsApplied ==
  ASSUME NEW full \in BOOLEAN, NEW ro \in RollupRows, NEW rrows \in RollupRows
  PROVE  RollupsAfter(full, RollupDiff(full, rrows, ro), rrows) = ro
<1>1. \A r \in Rollups : Mutated(RollupDiff(full, rrows, ro)[r],
                                 IF full THEN None ELSE rrows[r]) = ro[r]
  BY MarkAssumption DEF Mutated, RollupDiff, Mutation, RollupRows
<1>2. QED
  BY <1>1 DEF RollupsAfter, RollupRows

(* A full plan does not depend on the baseline it ignores.                 *)
LEMMA FullDiff ==
  ASSUME NEW a, NEW b, NEW ev, NEW ro, NEW c, NEW d
  PROVE  /\ EventDiff(TRUE, a, ev) = EventDiff(TRUE, b, ev)
         /\ RollupDiff(TRUE, c, ro) = RollupDiff(TRUE, d, ro)
BY DEF EventDiff, RollupDiff, Mutation

-----------------------------------------------------------------------------
(* Type correctness.                                                       *)

LEMMA ScriptType ==
  ASSUME NEW g \in Gens
  PROVE  Script(g) \subseteq Request /\ \A q \in Script(g) : q.gen = g
BY DEF Script, Req, Request, Kinds

LEMMA PlannedType ==
  ASSUME TypeOK, NEW g \in Gens, plan[g] # NoPlan
  PROVE  plan[g] \in Plans
BY DEF TypeOK

LEMMA TypeStep ==
  ASSUME TypeOK, Ownership, [Next]_vars
  PROVE  TypeOK'
<1> USE DEF TypeOK
<1>1. ASSUME NEW g \in Gens, StartUpload(g)
      PROVE  TypeOK'
  <2>1. plan' \in [Gens -> Plans \cup {NoPlan}]
    BY <1>1, PlanForType DEF StartUpload
  <2>2. Req("begin", g, None) \in Request
    BY DEF Req, Request, Kinds
  <2>3. QED
    BY <1>1, <2>1, <2>2 DEF StartUpload, serverVars, baseVars
<1>2. CASE Proceed
  <2>1. cur \in Gens
    BY <1>2 DEF Proceed, Ownership
  <2>2. NextRequests(cur) \subseteq Request
    BY <2>1, ScriptType DEF NextRequests
  <2>3. QED
    BY <1>2, <2>2 DEF Proceed, serverVars, baseVars
<1>3. CASE CommitAcknowledged
  BY <1>3 DEF CommitAcknowledged, serverVars, baseVars
<1>4. CASE SaveBaseline
  <2>1. plan[cur] \in Plans
    BY <1>4, PlannedType DEF SaveBaseline, Ownership
  <2>2. QED
    BY <1>4, <2>1 DEF SaveBaseline, serverVars, Plans
<1>5. CASE Refused \/ Abandon
  BY <1>5 DEF Refused, Abandon, LeaveUpload, serverVars, baseVars
<1>6. CASE ForgetBaseline
  BY <1>6 DEF ForgetBaseline, serverVars, NoEvents, NoRollups, EventRows, RollupRows
<1>7. CASE LoseReply
  BY <1>7 DEF LoseReply, serverVars, clientVars, baseVars
<1>8. ASSUME NEW g \in Gens, Begin(g)
      PROVE  TypeOK'
  BY <1>8 DEF Begin, Answer, clientVars, baseVars
<1>9. ASSUME NEW g \in Gens, NEW e \in Events, StageEvent(g, e)
      PROVE  TypeOK'
  <2>1. plan[g] \in Plans
    BY <1>9, PlannedType DEF StageEvent, Ownership, Req
  <2>2. plan[g].ev[e] \in Vals \cup {Keep, Delete}
    BY <2>1 DEF Plans, EventMutations
  <2>3. stagedEv' \in [Gens -> EventMutations]
    <3>1. [stagedEv[g] EXCEPT ![e] = plan[g].ev[e]] \in EventMutations
      BY <2>2 DEF EventMutations
    <3>2. stagedEv' = [stagedEv EXCEPT ![g] = [stagedEv[g] EXCEPT ![e] = plan[g].ev[e]]]
            \/ stagedEv' = stagedEv
      BY <1>9 DEF StageEvent
    <3>3. QED
      BY <3>1, <3>2
  <2>4. QED
    BY <1>9, <2>3 DEF StageEvent, Answer, clientVars, baseVars
<1>10. ASSUME NEW g \in Gens, NEW r \in Rollups, StageRollup(g, r)
       PROVE  TypeOK'
  <2>1. plan[g] \in Plans
    BY <1>10, PlannedType DEF StageRollup, Ownership, Req
  <2>2. plan[g].ro[r] \in RollupVals \cup {Keep, Delete}
    BY <2>1 DEF Plans, RollupMutations
  <2>3. stagedRo' \in [Gens -> RollupMutations]
    <3>1. [stagedRo[g] EXCEPT ![r] = plan[g].ro[r]] \in RollupMutations
      BY <2>2 DEF RollupMutations
    <3>2. stagedRo' = [stagedRo EXCEPT ![g] = [stagedRo[g] EXCEPT ![r] = plan[g].ro[r]]]
            \/ stagedRo' = stagedRo
      BY <1>10 DEF StageRollup
    <3>3. QED
      BY <3>1, <3>2
  <2>4. QED
    BY <1>10, <2>3 DEF StageRollup, Answer, clientVars, baseVars
<1>11. ASSUME NEW g \in Gens, StageProviders(g)
       PROVE  TypeOK'
  <2>1. plan[g] \in Plans
    BY <1>11, PlannedType DEF StageProviders, Ownership, Req
  <2>2. stagedProv' \in [Gens -> SUBSET Providers]
    BY <1>11, <2>1 DEF StageProviders, Plans
  <2>3. QED
    BY <1>11, <2>2 DEF StageProviders, Answer, clientVars, baseVars
<1>12. ASSUME NEW g \in Gens, Commit(g)
       PROVE  TypeOK'
  <2>1. plan[g] \in Plans
    BY <1>12, PlannedType DEF Commit, Ownership, Req
  <2>2. CASE ApplyStaged(g)
    <3>1. events' \in EventRows /\ rollups' \in RollupRows
      BY <2>1, <2>2, RowsAfterType DEF ApplyStaged, Plans
    <3>2. NoEventMutations \in EventMutations /\ NoRollupMutations \in RollupMutations
      BY DEF NoEventMutations, NoRollupMutations, EventMutations, RollupMutations
    <3>3. faithful' \in BOOLEAN
      BY <2>1, <2>2 DEF ApplyStaged, Plans
    <3>4. QED
      BY <1>12, <2>2, <3>1, <3>2, <3>3
      DEF Commit, ApplyStaged, Answer, clientVars, baseVars
  <2>3. CASE RepeatResult(g) \/ RefuseCommit(g)
    BY <1>12, <2>3
    DEF Commit, RepeatResult, RefuseCommit, Answer, serverVars, clientVars, baseVars
  <2>4. QED
    BY <1>12, <2>2, <2>3 DEF Commit
<1>13. CASE Purge
  <2>1. purges' \in 0..MaxPurges
    BY <1>13, BoundAssumption DEF Purge
  <2>2. NoEvents \in EventRows /\ NoRollups \in RollupRows
    BY DEF NoEvents, NoRollups, EventRows, RollupRows
  <2>3. NoEventMutations \in EventMutations /\ NoRollupMutations \in RollupMutations
    BY DEF NoEventMutations, NoRollupMutations, EventMutations, RollupMutations
  <2>4. QED
    BY <1>13, <2>1, <2>2, <2>3 DEF Purge, clientVars, baseVars
<1>14. CASE UNCHANGED vars
  BY <1>14 DEF vars, serverVars, clientVars, baseVars
<1>15. QED
  BY <1>1, <1>2, <1>3, <1>4, <1>5, <1>6, <1>7, <1>8, <1>9, <1>10, <1>11,
     <1>12, <1>13, <1>14 DEF Next, Handle

-----------------------------------------------------------------------------
(* The other conjuncts of the inductive invariant.                         *)

LEMMA OwnershipStep ==
  ASSUME TypeOK, Ownership, [Next]_vars
  PROVE  Ownership'
<1> USE DEF TypeOK, Ownership
<1>1. ASSUME NEW g \in Gens, StartUpload(g)
      PROVE  Ownership'
  <2>1. g # None /\ Req("begin", g, None) # None
    BY NoneAssumption DEF Req, Request, Kinds
  <2>2. plan' = [plan EXCEPT ![g] = plan'[g]] /\ plan'[g] # NoPlan
    BY <1>1, PlanForType, PlanAssumption DEF StartUpload
  <2>3. QED
    BY <1>1, <2>1, <2>2 DEF StartUpload, Req, serverVars
<1>2. CASE Proceed
  <2>1. cur \in Gens
    BY <1>2 DEF Proceed
  <2>2. \A q \in NextRequests(cur) : q.gen = cur /\ q # None
    BY <2>1, ScriptType, NoneAssumption DEF NextRequests
  <2>3. QED
    BY <1>2, <2>1, <2>2 DEF Proceed, serverVars
<1>3. CASE CommitAcknowledged
  BY <1>3 DEF CommitAcknowledged, serverVars
<1>4. CASE SaveBaseline
  BY <1>4 DEF SaveBaseline, serverVars
<1>5. CASE Refused \/ Abandon
  BY <1>5 DEF Refused, Abandon, LeaveUpload, serverVars
<1>6. CASE ForgetBaseline
  BY <1>6 DEF ForgetBaseline, serverVars
<1>7. CASE LoseReply
  BY <1>7 DEF LoseReply, serverVars, clientVars
<1>8. ASSUME NEW g \in Gens, Begin(g)
      PROVE  Ownership'
  <2>1. plan[g] # NoPlan
    BY <1>8 DEF Begin, Req
  <2>2. QED
    BY <1>8, <2>1 DEF Begin, clientVars
<1>9. ASSUME NEW g \in Gens,
             (\E e \in Events : StageEvent(g, e))
               \/ (\E r \in Rollups : StageRollup(g, r))
               \/ StageProviders(g)
      PROVE  Ownership'
  BY <1>9 DEF StageEvent, StageRollup, StageProviders, clientVars
<1>10. ASSUME NEW g \in Gens, Commit(g)
       PROVE  Ownership'
  <2>1. plan[g] # NoPlan
    BY <1>10 DEF Commit, Req
  <2>2. QED
    BY <1>10, <2>1
    DEF Commit, ApplyStaged, RepeatResult, RefuseCommit, clientVars, serverVars
<1>11. CASE Purge
  BY <1>11 DEF Purge, clientVars
<1>12. CASE UNCHANGED vars
  BY <1>12 DEF vars, serverVars, clientVars
<1>13. QED
  BY <1>1, <1>2, <1>3, <1>4, <1>5, <1>6, <1>7, <1>8, <1>9, <1>10, <1>11, <1>12
  DEF Next, Handle

(* Only StartUpload writes a plan. *)
LEMMA PlanFrame ==
  ASSUME [Next]_vars, ~\E g \in Gens : StartUpload(g)
  PROVE  UNCHANGED plan
BY DEF Next, Handle, Proceed, CommitAcknowledged, SaveBaseline, Refused, Abandon,
       LeaveUpload, ForgetBaseline, LoseReply, Begin, StageEvent, StageRollup,
       StageProviders, Commit, Purge, vars, clientVars

LEMMA PlansSoundStep ==
  ASSUME TypeOK, PlansSound, [Next]_vars
  PROVE  PlansSound'
<1>1. ASSUME NEW g \in Gens, StartUpload(g)
      PROVE  PlansSound'
  <2>1. PICK force \in BOOLEAN, ev \in EventRows, ro \in RollupRows,
             prov \in SUBSET Providers :
          plan' = [plan EXCEPT ![g] = PlanFor(force, ev, ro, prov)]
    BY <1>1 DEF StartUpload
  <2>2. plan'[g] = PlanFor(force, ev, ro, prov)
    BY <2>1 DEF TypeOK
  <2>3. /\ EventDiff(TRUE, baseEv, ev) = EventDiff(TRUE, NoEvents, ev)
        /\ RollupDiff(TRUE, baseRo, ro) = RollupDiff(TRUE, NoRollups, ro)
    BY FullDiff
  <2>4. plan'[g].replaceAll =>
          /\ plan'[g].ev = EventDiff(TRUE, NoEvents, ev)
          /\ plan'[g].ro = RollupDiff(TRUE, NoRollups, ro)
    <3> DEFINE full == force \/ ~baseInit
    <3>1. /\ plan'[g].replaceAll = full
          /\ plan'[g].ev = EventDiff(full, baseEv, ev)
          /\ plan'[g].ro = RollupDiff(full, baseRo, ro)
      BY <2>2 DEF PlanFor
    <3>2. full \in BOOLEAN
      BY DEF TypeOK
    <3>3. CASE full = TRUE
      BY <3>1, <3>3, <2>3
    <3>4. CASE full = FALSE
      BY <3>1, <3>4
    <3>5. QED
      BY <3>2, <3>3, <3>4
  <2>5. plan'[g].curEv = ev /\ plan'[g].curRo = ro
    BY <2>2 DEF PlanFor
  <2>6. \A h \in Gens : h # g => plan'[h] = plan[h]
    BY <2>1 DEF TypeOK
  <2>7. \A r \in Rollups : plan'[g].ro[r] \in {Keep, Delete, ro[r]}
    BY <2>2 DEF PlanFor, RollupDiff, Mutation
  <2>8. QED
    BY <2>4, <2>5, <2>6, <2>7 DEF PlansSound
<1>2. CASE ~\E g \in Gens : StartUpload(g)
  BY <1>2, PlanFrame DEF PlansSound
<1>3. QED
  BY <1>1, <1>2

LEMMA AcknowledgedCommitStep ==
  ASSUME TypeOK, Ownership, AcknowledgedCommit, [Next]_vars
  PROVE  AcknowledgedCommit'
<1> USE DEF TypeOK, Ownership, AcknowledgedCommit, Acknowledged
<1>1. ASSUME NEW g \in Gens, StartUpload(g)
      PROVE  AcknowledgedCommit'
  <2>1. Req("begin", g, None) # None /\ Req("begin", g, None).kind # "commit"
    BY NoneAssumption DEF Req, Request, Kinds
  <2>2. QED
    BY <1>1, <2>1 DEF StartUpload
<1>2. CASE Proceed
  <2>1. \A q \in NextRequests(cur) : q # None
    BY <1>2, ScriptType, NoneAssumption DEF NextRequests, Proceed
  <2>2. QED
    BY <1>2, <2>1 DEF Proceed
<1>3. CASE CommitAcknowledged
  BY <1>3 DEF CommitAcknowledged, serverVars
<1>4. CASE SaveBaseline
  BY <1>4 DEF SaveBaseline
<1>5. CASE Refused \/ Abandon
  BY <1>5 DEF Refused, Abandon, LeaveUpload
<1>6. CASE ForgetBaseline
  BY <1>6 DEF ForgetBaseline, serverVars
<1>7. CASE LoseReply
  BY <1>7 DEF LoseReply, serverVars, clientVars
<1>8. ASSUME NEW g \in Gens, Begin(g)
      PROVE  AcknowledgedCommit'
  <2>1. Req("begin", g, None).kind = "begin"
    BY DEF Req
  <2>2. QED
    BY <1>8, <2>1 DEF Begin, Answer, clientVars
<1>9. ASSUME NEW g \in Gens,
             (\E e \in Events : StageEvent(g, e))
               \/ (\E r \in Rollups : StageRollup(g, r))
               \/ StageProviders(g)
      PROVE  AcknowledgedCommit'
  <2>1. UNCHANGED <<status, cur, pending, purges, faithful>>
    BY <1>9 DEF StageEvent, StageRollup, StageProviders, clientVars
  <2>2. reply' = reply \/ pending.kind # "commit"
    <3>1. CASE \E e \in Events : StageEvent(g, e)
      BY <3>1 DEF StageEvent, Answer, Req
    <3>2. CASE \E r \in Rollups : StageRollup(g, r)
      BY <3>2 DEF StageRollup, Answer, Req
    <3>3. CASE StageProviders(g)
      BY <3>3 DEF StageProviders, Answer, Req
    <3>4. QED
      BY <1>9, <3>1, <3>2, <3>3
  <2>3. QED
    BY <2>1, <2>2
<1>10. ASSUME NEW g \in Gens, Commit(g)
       PROVE  AcknowledgedCommit'
  <2>1. cur' = cur /\ pending' = pending /\ purges' = purges
    BY <1>10 DEF Commit, clientVars
  <2>2. Req("commit", g, None).gen = g
    BY DEF Req
  <2>3. CASE ApplyStaged(g)
    BY <2>1, <2>2, <2>3 DEF ApplyStaged, Answer
  <2>4. CASE RepeatResult(g)
    BY <2>1, <2>2, <2>4 DEF RepeatResult, Answer, serverVars
  <2>5. CASE RefuseCommit(g)
    BY <2>1, <2>2, <2>5 DEF RefuseCommit, Answer, serverVars
  <2>6. QED
    BY <1>10, <2>3, <2>4, <2>5 DEF Commit
<1>11. CASE Purge
  BY <1>11, BoundAssumption DEF Purge, clientVars
<1>12. CASE UNCHANGED vars
  BY <1>12 DEF vars, serverVars, clientVars
<1>13. QED
  BY <1>1, <1>2, <1>3, <1>4, <1>5, <1>6, <1>7, <1>8, <1>9, <1>10, <1>11, <1>12
  DEF Next, Handle

(* A server step other than the first commit of a generation or a purge    *)
(* leaves the rows, the sealed generations and the history alone.          *)
LEMMA QuietStep ==
  ASSUME TypeOK, NEW g \in Gens, Handle(g), ~ApplyStaged(g)
  PROVE  /\ UNCHANGED <<events, rollups, catalog, clientVars, faithful, purges>>
         /\ \A h \in Gens : status'[h] = "committed" <=> status[h] = "committed"
<1>1. CASE Begin(g)
  BY <1>1 DEF Begin, TypeOK
<1>2. CASE \E e \in Events : StageEvent(g, e)
  BY <1>2 DEF StageEvent
<1>3. CASE \E r \in Rollups : StageRollup(g, r)
  BY <1>3 DEF StageRollup
<1>4. CASE StageProviders(g)
  BY <1>4 DEF StageProviders
<1>5. CASE Commit(g)
  BY <1>5 DEF Commit, RepeatResult, RefuseCommit, serverVars
<1>6. QED
  BY <1>1, <1>2, <1>3, <1>4, <1>5 DEF Handle

(* What the commit of the upload in progress leaves on the server.         *)
LEMMA CommitMirrors ==
  ASSUME TypeOK, Ownership, PlansSound, DiffCurrent, NEW g \in Gens,
         ApplyStaged(g), plan[g] # NoPlan, plan' = plan, faithful'
  PROVE  /\ cur = g
         /\ Shows(plan[g].curEv, plan[g].curRo)'
         /\ \A e \in Events : events'[e] # None => ~Covered(events'[e], plan[g].ro)
<1> DEFINE p == plan[g]
<1> USE DEF TypeOK
<1>1. cur = g /\ (faithful \/ p.replaceAll)
  BY DEF ApplyStaged
<1>2. p \in Plans
  BY PlannedType
<1>3. /\ p.curEv \in EventRows /\ p.curRo \in RollupRows
      /\ p.ro \in RollupMutations /\ p.replaceAll \in BOOLEAN
  BY <1>2 DEF Plans
<1>4. /\ events' = EventsAfter(p.replaceAll, p.ev, p.ro, events)
      /\ rollups' = RollupsAfter(p.replaceAll, p.ro, rollups)
  BY DEF ApplyStaged, ManifestMatches
<1>5. PICK base \in EventRows :
        /\ p.ev = EventDiff(p.replaceAll, base, p.curEv)
        /\ ~p.replaceAll => Shows(base, rollups)
  <2>1. CASE p.replaceAll
    <3>1. NoEvents \in EventRows
      BY DEF NoEvents, EventRows
    <3>2. p.replaceAll = TRUE
      BY <1>3, <2>1
    <3>3. p.ev = EventDiff(TRUE, NoEvents, p.curEv)
      BY <2>1 DEF PlansSound
    <3>4. QED
      BY <3>1, <3>2, <3>3
  <2>2. CASE ~p.replaceAll
    <3>1. p.replaceAll = FALSE
      BY <1>3, <2>2
    <3>2. faithful /\ status[g] # "committed" /\ cur # None
      BY <1>1, <2>2, NoneAssumption DEF ApplyStaged
    <3>3. QED
      BY <1>1, <2>2, <3>1, <3>2 DEF DiffCurrent
  <2>3. QED
    BY <2>1, <2>2
<1>6. p.ro = RollupDiff(p.replaceAll, rollups, p.curRo)
  <2>1. CASE p.replaceAll
    <3>1. p.replaceAll = TRUE
      BY <1>3, <2>1
    <3>2. p.ro = RollupDiff(TRUE, NoRollups, p.curRo)
      BY <2>1 DEF PlansSound
    <3>3. QED
      BY <3>1, <3>2, FullDiff
  <2>2. CASE ~p.replaceAll
    <3>1. p.replaceAll = FALSE
      BY <1>3, <2>2
    <3>2. faithful /\ status[g] # "committed" /\ cur # None
      BY <1>1, <2>2, NoneAssumption DEF ApplyStaged
    <3>3. QED
      BY <1>1, <2>2, <3>1, <3>2 DEF DiffCurrent
  <2>3. QED
    BY <2>1, <2>2
<1>7. rollups' = p.curRo
  BY <1>3, <1>4, <1>6, RollupsApplied
<1>8. status'[g] = "committed" /\ \A h \in Gens : status[h] = "committed" =>
                                                    status'[h] = "committed"
  BY DEF ApplyStaged
<1>9. ASSUME NEW e \in Events
      PROVE  /\ events'[e] # None => events'[e] = p.curEv[e] /\ ~Covered(events'[e], p.ro)
             /\ events'[e] # p.curEv[e] => Withheld(e, p.curEv[e])'
  <2>1. p.replaceAll \/ events[e] = base[e] \/ events[e] = None
    BY <1>5 DEF Shows
  <2>2. /\ events'[e] # None => events'[e] = p.curEv[e] /\ ~Covered(events'[e], p.ro)
        /\ events'[e] # p.curEv[e] =>
             \/ Covered(p.curEv[e], p.ro)
             \/ ~p.replaceAll /\ events[e] = None /\ base[e] = p.curEv[e]
    BY <1>3, <1>4, <1>5, <2>1, EventApplied
  <2>3. CASE Covered(p.curEv[e], p.ro)
    BY <1>8, <2>2, <2>3 DEF Withheld, Covered
  <2>4. CASE events'[e] # p.curEv[e] /\ ~Covered(p.curEv[e], p.ro)
    <3>1. ~p.replaceAll /\ events[e] = None /\ base[e] = p.curEv[e]
      BY <2>2, <2>4
    <3>2. events'[e] = None /\ base[e] # None
      BY <2>2, <2>4, <3>1
    <3>3. Withheld(e, base[e])
      BY <1>5, <3>1, <3>2 DEF Shows
    <3>4. Withheld(e, base[e])'
      BY <1>8, <3>3 DEF Withheld, Covered
    <3>5. QED
      BY <2>2, <3>1, <3>4
  <2>5. QED
    BY <2>2, <2>3, <2>4
<1>10. Shows(p.curEv, p.curRo)'
  BY <1>7, <1>9 DEF Shows
<1>11. QED
  BY <1>1, <1>9, <1>10

(* The first commit of a generation: what it does to the other conjuncts.  *)
LEMMA CommitStep ==
  ASSUME TypeOK, Ownership, PlansSound, DiffCurrent, NEW g \in Gens,
         Handle(g), ApplyStaged(g), Req("commit", g, None) \in net,
         UNCHANGED <<clientVars, purges>>
  PROVE  DiffCurrent' /\ MirrorExact'
<1>1. plan[g] # NoPlan
  BY DEF Ownership, Req
<1>2. status'[g] = "committed"
  BY DEF ApplyStaged, TypeOK
<1>3. UNCHANGED <<cur, plan, baseInit, baseEv, baseRo>>
  BY DEF clientVars, baseVars
<1>4. CASE faithful'
  <2>1. /\ cur = g
        /\ Shows(plan[g].curEv, plan[g].curRo)'
        /\ \A e \in Events : events'[e] # None => ~Covered(events'[e], plan[g].ro)
    BY <1>1, <1>3, <1>4, CommitMirrors
  <2>2. cur # None
    BY <2>1, NoneAssumption
  <2>3. QED
    BY <1>2, <1>3, <2>1, <2>2 DEF DiffCurrent, MirrorExact
<1>5. CASE ~faithful'
  BY <1>5 DEF DiffCurrent, MirrorExact
<1>6. QED
  BY <1>4, <1>5

(* What the server shows does not depend on uploads, or on generations     *)
(* that are not sealed.                                                    *)
LEMMA ShowsKept ==
  ASSUME UNCHANGED <<events, rollups>>,
         \A g \in Gens : status[g] = "committed" => status'[g] = "committed"
                                                   /\ plan'[g] = plan[g]
  PROVE  \A ev \in EventRows, ro \in RollupRows : Shows(ev, ro) => Shows(ev, ro)'
BY DEF Shows, Withheld, Covered

LEMMA MirrorStep ==
  ASSUME SyncInv, [Next]_vars
  PROVE  DiffCurrent' /\ MirrorExact'
<1> USE DEF SyncInv
<1>a. baseEv \in EventRows /\ baseRo \in RollupRows /\ rollups \in RollupRows
  BY DEF TypeOK
<1>b. cur # None => /\ plan[cur].curEv \in EventRows
                    /\ plan[cur].curRo \in RollupRows
  BY PlannedType DEF Ownership, TypeOK, Plans
<1>1. ASSUME NEW g \in Gens, StartUpload(g)
      PROVE  DiffCurrent' /\ MirrorExact'
  <2>1. PICK force \in BOOLEAN, ev \in EventRows, ro \in RollupRows,
             prov \in SUBSET Providers :
          plan' = [plan EXCEPT ![g] = PlanFor(force, ev, ro, prov)]
    BY <1>1 DEF StartUpload
  <2>2. plan'[g] = PlanFor(force, ev, ro, prov)
    BY <2>1 DEF TypeOK
  <2>3. /\ UNCHANGED <<events, rollups, status, baseInit, baseEv, baseRo, faithful>>
        /\ cur = None /\ cur' = g /\ g # None
    BY <1>1, NoneAssumption DEF StartUpload, serverVars, baseVars
  <2>4. status[g] = "absent"
    BY <1>1 DEF StartUpload, Ownership
  <2>5. \A h \in Gens : status[h] = "committed" => status'[h] = "committed"
                                                  /\ plan'[h] = plan[h]
    BY <2>1, <2>3, <2>4 DEF TypeOK
  <2>6. Shows(baseEv, baseRo) => rollups = baseRo /\ Shows(baseEv, rollups)'
    BY <1>a, <2>3, <2>5, ShowsKept DEF Shows
  <2>7. Shows(baseEv, baseRo) => Shows(baseEv, baseRo)'
    BY <1>a, <2>3, <2>5, ShowsKept DEF Shows
  <2>8. ASSUME faithful, ~plan'[g].replaceAll
        PROVE  /\ plan'[g].ro = RollupDiff(FALSE, rollups, plan'[g].curRo)
               /\ Shows(baseEv, rollups)'
               /\ plan'[g].ev = EventDiff(FALSE, baseEv, plan'[g].curEv)
    <3> DEFINE full == force \/ ~baseInit
    <3>1. /\ plan'[g].replaceAll = full
          /\ plan'[g].ev = EventDiff(full, baseEv, plan'[g].curEv)
          /\ plan'[g].ro = RollupDiff(full, baseRo, plan'[g].curRo)
      BY <2>2 DEF PlanFor
    <3>2. full \in BOOLEAN
      BY DEF TypeOK
    <3> HIDE DEF full
    <3>3. full = FALSE
      BY <2>8, <3>1, <3>2
    <3>4. baseInit
      BY <3>3 DEF full
    <3>5. Shows(baseEv, baseRo)
      BY <2>3, <2>8, <3>4 DEF MirrorExact
    <3>6. QED
      BY <2>6, <3>1, <3>3, <3>5
  <2>9. DiffCurrent'
    BY <1>a, <2>3, <2>4, <2>8 DEF DiffCurrent, Shows
  <2>10. QED
    BY <2>3, <2>4, <2>7, <2>9 DEF MirrorExact, Shows
<1>2. CASE Proceed \/ CommitAcknowledged \/ LoseReply
  <2>1. UNCHANGED <<events, rollups, status, plan, cur, baseInit, baseEv, baseRo,
                    faithful>>
    BY <1>2 DEF Proceed, CommitAcknowledged, LoseReply, serverVars, clientVars,
                baseVars
  <2>2. QED
    BY <2>1 DEF DiffCurrent, MirrorExact, Shows, Withheld
<1>3. CASE SaveBaseline
  <2>1. faithful => status[cur] = "committed"
    BY <1>3 DEF SaveBaseline, AcknowledgedCommit, Acknowledged
  <2>2. /\ UNCHANGED <<events, rollups, status, plan, faithful>>
        /\ cur # None /\ cur' = None
        /\ baseEv' = plan[cur].curEv /\ baseRo' = plan[cur].curRo
    BY <1>3 DEF SaveBaseline, serverVars
  <2>3. QED
    BY <2>1, <2>2 DEF DiffCurrent, MirrorExact, Shows, Withheld
<1>4. CASE Refused \/ Abandon
  <2>1. /\ UNCHANGED <<events, rollups, status, plan, baseInit, baseEv, baseRo>>
        /\ cur' = None
    BY <1>4 DEF Refused, Abandon, LeaveUpload, serverVars, baseVars
  <2>2. faithful' => faithful /\ status[cur] # "committed"
    BY <1>4 DEF Refused, Abandon, LeaveUpload
  <2>3. QED
    BY <2>1, <2>2 DEF DiffCurrent, MirrorExact, Shows, Withheld
<1>5. CASE ForgetBaseline
  <2>1. /\ UNCHANGED <<events, rollups, status, plan, cur, faithful>>
        /\ ~baseInit'
    BY <1>5 DEF ForgetBaseline, serverVars
  <2>2. QED
    BY <2>1 DEF DiffCurrent, MirrorExact, Shows, Withheld
<1>6. ASSUME NEW g \in Gens, Handle(g), ~ApplyStaged(g)
      PROVE  DiffCurrent' /\ MirrorExact'
  <2>1. /\ UNCHANGED <<events, rollups, plan, cur, baseInit, baseEv, baseRo, faithful>>
        /\ \A h \in Gens : status'[h] = "committed" <=> status[h] = "committed"
    BY <1>6, QuietStep DEF clientVars, baseVars
  <2>2. cur # None => cur \in Gens
    BY DEF TypeOK
  <2>3. \A ev \in EventRows, ro \in RollupRows : Shows(ev, ro) => Shows(ev, ro)'
    BY <2>1, ShowsKept
  <2>4. DiffCurrent'
    BY <1>a, <2>1, <2>2, <2>3 DEF DiffCurrent, Shows
  <2>5. MirrorExact'
    BY <1>a, <1>b, <2>1, <2>2, <2>3 DEF MirrorExact, Shows
  <2>6. QED
    BY <2>4, <2>5
<1>7. ASSUME NEW g \in Gens, Handle(g), ApplyStaged(g)
      PROVE  DiffCurrent' /\ MirrorExact'
  <2>1. status' # status
    BY <1>7 DEF ApplyStaged, TypeOK
  <2>2. Req("commit", g, None) \in net /\ UNCHANGED <<clientVars, purges>>
    BY <1>7, <2>1 DEF Handle, Begin, StageEvent, StageRollup, StageProviders, Commit,
                      ApplyStaged, TypeOK
  <2>3. QED
    BY <1>7, <2>2, CommitStep
<1>8. CASE Purge
  BY <1>8 DEF Purge, DiffCurrent, MirrorExact
<1>9. CASE UNCHANGED vars
  BY <1>9 DEF vars, serverVars, clientVars, baseVars, DiffCurrent, MirrorExact, Shows,
              Withheld
<1>10. QED
  BY <1>1, <1>2, <1>3, <1>4, <1>5, <1>6, <1>7, <1>8, <1>9 DEF Next

LEMMA SyncInvInductive == Spec => []SyncInv
<1>1. Init => SyncInv
  <2> SUFFICES ASSUME Init PROVE SyncInv
    OBVIOUS
  <2>1. TypeOK
    <3>1. NoEvents \in EventRows /\ NoRollups \in RollupRows
      BY DEF NoEvents, NoRollups, EventRows, RollupRows
    <3>2. NoEventMutations \in EventMutations /\ NoRollupMutations \in RollupMutations
      BY DEF NoEventMutations, NoRollupMutations, EventMutations, RollupMutations
    <3>3. 0 \in 0..MaxPurges
      BY BoundAssumption
    <3>4. QED
      BY <3>1, <3>2, <3>3 DEF Init, TypeOK
  <2>2. Ownership /\ PlansSound /\ AcknowledgedCommit /\ DiffCurrent /\ MirrorExact
    BY DEF Init, Ownership, PlansSound, AcknowledgedCommit, Acknowledged,
           DiffCurrent, MirrorExact
  <2>3. QED
    BY <2>1, <2>2 DEF SyncInv
<1>2. SyncInv /\ [Next]_vars => SyncInv'
  BY TypeStep, OwnershipStep, PlansSoundStep, AcknowledgedCommitStep, MirrorStep
  DEF SyncInv
<1>3. QED
  BY <1>1, <1>2, PTL DEF Spec

(* Every variable keeps its type, for any rows and any number of uploads.  *)
THEOREM TypeCorrect == Spec => []TypeOK
BY SyncInvInductive, PTL DEF SyncInv

(* The hash diff of sync_snapshot_v3_with_mode is exact while no commit    *)
(* went unacknowledged, and after a committed full replacement: the server *)
(* shows the snapshot, less rows a rollup of their day replaced.           *)
THEOREM MirrorIsExact == Spec => []MirrorExact
BY SyncInvInductive, PTL DEF SyncInv

(* No day has both request detail and a rollup. *)
Disjoint(ev, ro) ==
  \A e \in Events, r \in Rollups :
    ev[e] # None /\ ro[r] # None => EventDay[ev[e]] # RollupDay[r]

NoOverlap ==
  \A g \in Gens : plan[g] # NoPlan => Disjoint(plan[g].curEv, plan[g].curRo)

(* Nothing is withheld from a ledger in which detail and rollups of a day  *)
(* never overlapped: the server then has exactly the snapshot committed or *)
(* the baseline (client lib.rs:362-430, sync_v2.rs:763-940).               *)
THEOREM DisjointIsWhole ==
  Spec => [](NoOverlap /\ faithful =>
               IF cur # None /\ status[cur] = "committed"
               THEN events = plan[cur].curEv /\ rollups = plan[cur].curRo
               ELSE baseInit => events = baseEv /\ rollups = baseRo)
<1>1. ASSUME SyncInv, NoOverlap, NEW e \in Events, NEW val \in Vals
      PROVE  ~Withheld(e, val)
  <2> SUFFICES ASSUME NEW g \in Gens, status[g] = "committed",
                      plan[g].curEv[e] = val, Covered(val, plan[g].ro)
               PROVE  FALSE
    BY DEF Withheld
  <2>1. plan[g] # NoPlan
    BY <1>1 DEF SyncInv, Ownership
  <2>2. plan[g] \in Plans
    BY <1>1, <2>1, PlannedType DEF SyncInv
  <2>3. PICK r \in Rollups : plan[g].ro[r] \notin {Keep, Delete}
                             /\ RollupDay[r] = EventDay[val]
    BY DEF Covered
  <2>4. plan[g].ro[r] = plan[g].curRo[r] /\ plan[g].curRo[r] # None
    <3>1. plan[g].ro[r] \in RollupVals
      BY <2>2, <2>3 DEF Plans, RollupMutations
    <3>2. plan[g].ro[r] = plan[g].curRo[r]
      BY <1>1, <2>1, <2>3 DEF SyncInv, PlansSound
    <3>3. QED
      BY <3>1, <3>2, MarkAssumption
  <2>5. QED
    BY <1>1, <2>1, <2>3, <2>4, MarkAssumption DEF NoOverlap, Disjoint
<1>2. ASSUME SyncInv, NoOverlap, NEW ev \in EventRows, NEW ro, Shows(ev, ro)
      PROVE  events = ev /\ rollups = ro
  <2>1. \A e \in Events : ev[e] # None => ev[e] \in Vals
    BY DEF EventRows
  <2>2. \A e \in Events : events[e] = ev[e]
    BY <1>1, <1>2, <2>1 DEF Shows
  <2>3. events \in EventRows
    BY <1>2 DEF SyncInv, TypeOK
  <2>4. QED
    BY <1>2, <2>2, <2>3 DEF Shows, EventRows
<1>3. ASSUME SyncInv
      PROVE  NoOverlap /\ faithful =>
               IF cur # None /\ status[cur] = "committed"
               THEN events = plan[cur].curEv /\ rollups = plan[cur].curRo
               ELSE baseInit => events = baseEv /\ rollups = baseRo
  <2>1. baseEv \in EventRows
    BY <1>3 DEF SyncInv, TypeOK
  <2>2. cur # None => plan[cur].curEv \in EventRows
    BY <1>3, PlannedType DEF SyncInv, Ownership, TypeOK, Plans
  <2>3. QED
    BY <1>2, <1>3, <2>1, <2>2 DEF SyncInv, MirrorExact
<1>4. QED
  BY <1>3, SyncInvInductive, PTL

(* save_upload_baseline is reached only for a generation the server has    *)
(* committed, unless its record was purged.                                *)
THEOREM BaselineIsCommitted == Spec => []BaselineFollowsCommit
<1>1. SyncInv => BaselineFollowsCommit
  BY DEF SyncInv, AcknowledgedCommit, Acknowledged, BaselineFollowsCommit
<1>2. QED
  BY <1>1, SyncInvInductive, PTL

LEMMA StagedStep ==
  ASSUME TypeOK, StagedOnlyWhileOpen, [Next]_vars
  PROVE  StagedOnlyWhileOpen'
<1> USE DEF TypeOK, StagedOnlyWhileOpen
<1>1. ASSUME UNCHANGED <<status, stagedEv, stagedRo, stagedProv>>
      PROVE  StagedOnlyWhileOpen'
  BY <1>1
<1>2. ASSUME NEW g \in Gens, Begin(g)
      PROVE  StagedOnlyWhileOpen'
  BY <1>2 DEF Begin
<1>3. ASSUME NEW g \in Gens, NEW e \in Events, StageEvent(g, e)
      PROVE  StagedOnlyWhileOpen'
  BY <1>3 DEF StageEvent
<1>4. ASSUME NEW g \in Gens, NEW r \in Rollups, StageRollup(g, r)
      PROVE  StagedOnlyWhileOpen'
  BY <1>4 DEF StageRollup
<1>5. ASSUME NEW g \in Gens, StageProviders(g)
      PROVE  StagedOnlyWhileOpen'
  BY <1>5 DEF StageProviders
<1>6. ASSUME NEW g \in Gens, Commit(g)
      PROVE  StagedOnlyWhileOpen'
  BY <1>6 DEF Commit, ApplyStaged, RepeatResult, RefuseCommit, serverVars
<1>7. CASE Purge
  BY <1>7 DEF Purge
<1>8. QED
  BY <1>1, <1>2, <1>3, <1>4, <1>5, <1>6, <1>7
  DEF Next, Handle, StartUpload, Proceed, CommitAcknowledged, SaveBaseline, Refused,
      Abandon, LeaveUpload, ForgetBaseline, LoseReply, vars, serverVars

(* The open check of the staging handlers and the cleanup of commit leave  *)
(* no staged row behind for a generation that is not open.                 *)
THEOREM StagingIsClean == Spec => []StagedOnlyWhileOpen
<1>1. Init => StagedOnlyWhileOpen
  BY DEF Init, StagedOnlyWhileOpen
<1>2. TypeOK /\ StagedOnlyWhileOpen /\ [Next]_vars => StagedOnlyWhileOpen'
  BY StagedStep
<1>3. QED
  BY <1>1, <1>2, TypeCorrect, PTL DEF Spec

-----------------------------------------------------------------------------
(* Refinement.                                                             *)

(* The replica's copies of the data operators are the protocol's own.      *)
LEMMA SameData ==
  /\ Replica!NoEvents = NoEvents /\ Replica!NoRollups = NoRollups
  /\ Replica!Plans = Plans
  /\ \A full, ev, ro, rows : Replica!EventsAfter(full, ev, ro, rows)
                               = EventsAfter(full, ev, ro, rows)
  /\ \A full, ro, rows : Replica!RollupsAfter(full, ro, rows)
                           = RollupsAfter(full, ro, rows)
<1>1. Replica!NoEvents = NoEvents /\ Replica!NoRollups = NoRollups
  BY DEF Replica!NoEvents, NoEvents, Replica!NoRollups, NoRollups
<1>2. Replica!Plans = Plans
  BY DEF Replica!Plans, Plans, Replica!EventMutations, EventMutations,
         Replica!RollupMutations, RollupMutations, Replica!EventRows, EventRows,
         Replica!RollupRows, RollupRows
<1>3. \A m, row : Replica!Mutated(m, row) = Mutated(m, row)
  BY DEF Replica!Mutated, Mutated
<1>4. \A val, ro : Replica!Covered(val, ro) <=> Covered(val, ro)
  BY DEF Replica!Covered, Covered
<1>5. \A full, ev, ro, rows : Replica!EventsAfter(full, ev, ro, rows)
                               = EventsAfter(full, ev, ro, rows)
  BY <1>3, <1>4 DEF Replica!EventsAfter, EventsAfter
<1>6. \A full, ro, rows : Replica!RollupsAfter(full, ro, rows)
                           = RollupsAfter(full, ro, rows)
  BY <1>3 DEF Replica!RollupsAfter, RollupsAfter
<1>7. QED
  BY <1>1, <1>2, <1>5, <1>6

LEMMA ReplicaStep ==
  ASSUME SyncInv, [Next]_vars
  PROVE  [Replica!Next]_(Replica!replicaVars)
<1> USE DEF SyncInv
<1>1. ASSUME NEW g \in Gens, StartUpload(g)
      PROVE  Replica!Offer(g)
  <2>1. plan'[g] \in Plans /\ plan' = [plan EXCEPT ![g] = plan'[g]]
    BY <1>1, PlanForType DEF StartUpload, TypeOK
  <2>2. QED
    BY <1>1, <2>1, SameData DEF StartUpload, serverVars, Replica!Offer
<1>2. ASSUME UNCHANGED <<serverVars, plan>>
      PROVE  UNCHANGED Replica!replicaVars
  BY <1>2 DEF serverVars, Replica!replicaVars
<1>3. ASSUME NEW g \in Gens, Handle(g), ~ApplyStaged(g)
      PROVE  UNCHANGED Replica!replicaVars
  BY <1>3, QuietStep DEF clientVars, Replica!replicaVars
<1>4. ASSUME NEW g \in Gens, Handle(g), ApplyStaged(g)
      PROVE  Replica!Apply(g)
  <2>1. status' # status
    BY <1>4 DEF ApplyStaged, TypeOK
  <2>2. Req("commit", g, None) \in net /\ UNCHANGED <<clientVars, purges>>
    BY <1>4, <2>1 DEF Handle, Begin, StageEvent, StageRollup, StageProviders, Commit,
                      ApplyStaged, TypeOK
  <2>3. plan[g] # NoPlan /\ UNCHANGED plan
    BY <2>2 DEF Ownership, Req, clientVars
  <2>4. {h \in Gens : status'[h] = "committed"}
          = {h \in Gens : status[h] = "committed"} \cup {g}
    BY <1>4 DEF ApplyStaged, TypeOK
  <2>5. QED
    BY <1>4, <2>3, <2>4, SameData DEF ApplyStaged, ManifestMatches, Replica!Apply
<1>5. CASE Purge
  <2>1. {h \in Gens : status'[h] = "committed"} = {}
    BY <1>5 DEF Purge
  <2>2. QED
    BY <1>5, <2>1, SameData DEF Purge, clientVars, Replica!Next, Replica!Purge
<1>6. QED
  BY <1>1, <1>2, <1>3, <1>4, <1>5
  DEF Next, Proceed, CommitAcknowledged, SaveBaseline, Refused, Abandon,
      LeaveUpload, ForgetBaseline, LoseReply, vars, clientVars, Replica!Next

(* The staged protocol implements the atomic replica: whole generations,   *)
(* as planned, each at most once between purges.                           *)
THEOREM SyncImplementsReplica == Spec => ImplementsReplica
<1>1. Init => Replica!Init
  BY SameData DEF Init, Replica!Init
<1>2. SyncInv /\ [Next]_vars => [Replica!Next]_(Replica!replicaVars)
  BY ReplicaStep
<1>3. QED
  BY <1>1, <1>2, SyncInvInductive, PTL DEF Spec, ImplementsReplica, Replica!Spec
=============================================================================
