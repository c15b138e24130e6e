---------------------------- MODULE QuotaResets ----------------------------
(***************************************************************************)
(* What the server derives from the stored samples of one quota metric:    *)
(* the current value and the reset history (reset_tier and                 *)
(* rebuild_reset_cache of telemetry-server/src/quota.rs, the triggers of   *)
(* quota_cache.rs), whatever the order in which QuotaUpload delivers the   *)
(* samples.                                                                *)
(*                                                                         *)
(* A sample says when it was taken, the rank of its observation id, when   *)
(* the quota resets next and whether any of it was used.  Samples whose    *)
(* resets lie within Jitter of the first of their run belong to one reset. *)
(***************************************************************************)
EXTENDS Integers, Sequences, FiniteSets, SequencesExt

CONSTANTS
  Ids,       \* observations there may be, each named by the rank of its id
  Contents,  \* what an observation may say
  Jitter,    \* 60 seconds in the code
  None

ASSUME JitterAssumption == Jitter \in Nat
ASSUME BoundAssumption == Ids \subseteq Nat \ {0}
ASSUME ContentAssumption ==
  Contents \subseteq [at : Nat, resets : Nat, used : BOOLEAN, percent : BOOLEAN]
VARIABLES
  stored,   \* quota_sample_cache: the samples of the metric
  current,  \* quota_current_cache
  reset     \* the row of quota_reset_cache, None when there is none

vars == <<stored, current, reset>>

Sample(id, c) ==
  [at |-> c.at, id |-> id, resets |-> c.resets, used |-> c.used, percent |-> c.percent]
Samples == {Sample(id, c) : id \in Ids, c \in Contents}

Before(s, t) == s.at < t.at \/ (s.at = t.at /\ s.id < t.id)

NoSample == [at |-> -1, id |-> 0]

Later(s, t) == IF Before(s, t) THEN t ELSE s

(* The rows of quota_reset_cache; a dirty of None stands for the largest   *)
(* integer.                                                                *)
Run == [resets : Nat, first : Nat, last : Nat, count : Nat, usage : Nat \cup {None}]

Rows ==
  [revision : Nat, cached : Nat \cup {-1}, dirty : Nat \cup {None},
   through : Samples \cup {NoSample}, runs : Seq(Run)]

ASSUME NoneAssumption == None \notin Nat /\ None \notin Rows

-----------------------------------------------------------------------------
(* One reset as the samples that announced it describe it.                 *)
NewRun(s) ==
  [resets |-> s.resets, first |-> s.at, last |-> s.at, count |-> 1,
   usage |-> IF s.used THEN s.at ELSE None]

SameReset(run, s) == run.resets - s.resets \in -Jitter .. Jitter

Continued(run, s) ==
  [run EXCEPT !.count = IF s.at > run.last THEN @ + 1 ELSE @,
              !.last = s.at,
              !.usage = IF s.used /\ @ = None THEN s.at ELSE @]

WithSample(runs, s) ==
  IF runs # <<>> /\ SameReset(Last(runs), s)
  THEN Append(Front(runs), Continued(Last(runs), s))
  ELSE Append(runs, NewRun(s))

Newest(S) == CHOOSE s \in S : \A t \in S : ~Before(s, t)

(* The runs of samples, oldest first, added to those before them.          *)
FoldRuns(samples, runs) ==
  LET fold[S \in SUBSET samples] ==
        IF S = {} THEN runs ELSE WithSample(fold[S \ {Newest(S)}], Newest(S))
  IN fold[samples]

Due(samples, after) == {s \in samples : s.resets > s.at /\ Before(after, s)}

ResetTier(samples, runs, after) == FoldRuns(Due(samples, after), runs)

AllRuns(samples) == ResetTier(samples, <<>>, NoSample)

-----------------------------------------------------------------------------
(* The cache row.                                                          *)
NewRow(s) ==
  [revision |-> 0, cached |-> -1, dirty |-> s.at, through |-> NoSample, runs |-> <<>>]

(* Mutant: a late sample does not move dirty_from back.                    *)
FirstDirtyKept(s, row) ==
  IF row = None THEN NewRow(s)
  ELSE [row EXCEPT !.revision = @ + 1, !.dirty = IF @ = None THEN s.at ELSE @]

SampleInserted(s, row) ==
  IF row = None THEN NewRow(s)
  ELSE [row EXCEPT !.revision = @ + 1,
                   !.dirty = IF @ = None \/ s.at < @ THEN s.at ELSE @]

Outdated(row) == row # None /\ row.cached # row.revision

(* Mutant: a sample as old as the newest folded one extends the runs too.  *)
ExtendsSameTime(row) == row.dirty = None \/ row.dirty >= row.through.at

(* Samples newer than everything folded so far extend the cached runs; any *)
(* other arrival folds the whole history again.                            *)
Extends(row) == row.dirty = None \/ row.dirty > row.through.at

(* Mutant: the revision is marked as cached one step ahead.                *)
RebuiltAhead(row, samples, latest) ==
  [row EXCEPT !.cached = row.revision + 1, !.dirty = None, !.through = latest,
              !.runs = IF Extends(row) THEN ResetTier(samples, row.runs, row.through)
                       ELSE AllRuns(samples)]

Rebuilt(row, samples, latest) ==
  [row EXCEPT !.cached = row.revision, !.dirty = None, !.through = latest,
              !.runs = IF Extends(row) THEN ResetTier(samples, row.runs, row.through)
                       ELSE AllRuns(samples)]

(* What a query shows: the cached runs while they are current.             *)
ResetsShown(row, samples) ==
  IF row = None THEN <<>>
  ELSE IF row.cached = row.revision THEN row.runs ELSE AllRuns(samples)

-----------------------------------------------------------------------------
Init == stored = {} /\ current = NoSample /\ reset = None

(* Mutant: the newest arrival becomes the current value.                   *)
ArriveAsCurrent(new) ==
  /\ stored' = stored \cup new
  /\ current' = Newest(new)
  /\ reset' = FoldSet(SampleInserted, reset, new)

(* A batch stores samples of new observations, and the triggers follow     *)
(* each insertion.                                                         *)
Arrive(new) ==
  /\ stored' = stored \cup new
  /\ current' = FoldSet(Later, current, new)
  /\ reset' = FoldSet(SampleInserted, reset, new)

(* An administrator deletes the quota log: the last sample takes the rows  *)
(* derived from the samples with it.                                       *)
Purge == stored' = {} /\ current' = NoSample /\ reset' = None

(* A pass of the background worker.                                        *)
Rebuild ==
  /\ Outdated(reset)
  /\ reset' = Rebuilt(reset, stored, current)
  /\ UNCHANGED <<stored, current>>

NewIds == Ids \ {s.id : s \in stored}

Next ==
  \/ \E ids \in (SUBSET NewIds) \ {{}} : \E c \in [ids -> Contents] :
       IsFiniteSet(ids) /\ Arrive({Sample(id, c[id]) : id \in ids})
  \/ Purge
  \/ Rebuild

Spec == Init /\ [][Next]_vars

-----------------------------------------------------------------------------
(* Properties.                                                             *)

TypeOK ==
  /\ stored \subseteq Samples
  /\ current \in stored \cup {NoSample}
  /\ reset # None => /\ reset \in Rows /\ reset.cached <= reset.revision
                     /\ reset.through \in stored \cup {NoSample}

(* The current value is that of the sample taken last, in whatever order   *)
(* the samples arrive.                                                     *)
CurrentIsLatest ==
  /\ current = NoSample <=> stored = {}
  /\ \A s \in stored : ~Before(current, s)

(* The reset history shown is that of all samples in the order they were   *)
(* taken, though they arrive several at once or long after the worker      *)
(* folded later ones.                                                      *)
ResetsExact == ResetsShown(reset, stored) = AllRuns(stored)

-----------------------------------------------------------------------------
(* What the proofs carry from step to step.                                *)

DistinctIds(S) == \A s, t \in S : s.id = t.id => s = t

UpTo(S, t) == {s \in S : ~Before(t, s)}

(* Unless a sample arrived behind it, the fold covers what is stored up to *)
(* the newest sample it has seen, and dirty tells whether one did.         *)
RowInv ==
  /\ reset.dirty = None <=> reset.cached = reset.revision
  /\ reset.dirty = None => reset.through = current
  /\ Extends(reset) => reset.runs = AllRuns(UpTo(stored, reset.through))

ResetsInv ==
  /\ TypeOK /\ CurrentIsLatest
  /\ IsFiniteSet(stored) /\ DistinctIds(stored)
  /\ reset = None <=> stored = {}
  /\ reset # None => RowInv
=============================================================================
