------------------------- MODULE QuotaUploadProofs -------------------------
(***************************************************************************)
(* Proofs about QuotaUpload for every set of providers and items, any      *)
(* batch size and any number of observations, replays and purges.          *)
(***************************************************************************)
EXTENDS QuotaUpload, FiniteSetTheorems, SequenceTheorems, TLAPS

-----------------------------------------------------------------------------
(* Facts about times and batches.                                          *)

(* By the well-founded order of the finite subsets: a smallest set without *)
(* a maximum would have one, got from the maximum of the set less any of   *)
(* its elements.                                                           *)
LEMMA MaxExists ==
  ASSUME NEW S \in SUBSET Nat, S # {}, IsFiniteSet(S)
  PROVE  \E m \in S : \A t \in S : m >= t
<1> DEFINE Bad == {A \in FiniteSubsetsOf(S) : A # {} /\ \A m \in A : \E t \in A : ~(m >= t)}
<1>1. ASSUME Bad # {}
      PROVE  FALSE
  <2>1. PICK A \in Bad : \A B \in Bad : ~(<<B, A>> \in StrictSubsetOrdering(S))
    <3>1. Bad \subseteq FiniteSubsetsOf(S)
      OBVIOUS
    <3>2. IsWellFoundedOn(StrictSubsetOrdering(S), FiniteSubsetsOf(S))
      BY FS_StrictSubsetOrderingWellFounded
    <3> HIDE DEF Bad
    <3> QED BY <1>1, <3>1, <3>2, WFMin
  <2>2. A \in SUBSET S /\ IsFiniteSet(A) /\ A \subseteq Nat
    BY DEF FiniteSubsetsOf
  <2>3. PICK x \in A : TRUE
    OBVIOUS
  <2> DEFINE B == A \ {x}
  <2>4. B \in FiniteSubsetsOf(S)
    BY <2>2, FS_Subset DEF FiniteSubsetsOf
  <2>5. <<B, A>> \in StrictSubsetOrdering(S)
    BY <2>2, <2>3 DEF StrictSubsetOrdering
  <2>6. B \notin Bad
    BY <2>1, <2>5
  <2>7. CASE B = {}
    BY <2>2, <2>7
  <2>8. CASE B # {}
    <3>1. PICK m \in B : \A t \in B : m >= t
      BY <2>4, <2>6, <2>8
    <3>2. m \in Nat /\ x \in Nat
      BY <2>2
    <3>3. \A t \in A : (IF m >= x THEN m ELSE x) >= t
      BY <2>2, <3>1, <3>2
    <3>4. (IF m >= x THEN m ELSE x) \in A
      BY <3>1
    <3>5. QED
      BY <3>3, <3>4
  <2>9. QED
    BY <2>7, <2>8
<1>2. S \in FiniteSubsetsOf(S)
  BY DEF FiniteSubsetsOf
<1>3. QED
  BY <1>1, <1>2

LEMMA MaxUnique ==
  ASSUME NEW S \in SUBSET Nat, NEW m \in S, \A t \in S : m >= t
  PROVE  Max(S) = m
<1>1. \A x \in S : (\A y \in S : x >= y) => x = m
  OBVIOUS
<1>2. QED
  BY <1>1 DEF Max

LEMMA MaxOf ==
  ASSUME NEW S \in SUBSET Nat, S # {}, IsFiniteSet(S)
  PROVE  Max(S) \in S /\ \A t \in S : Max(S) >= t
BY MaxExists, MaxUnique

LEMMA TimesType ==
  ASSUME TypeOK, NEW S \in SUBSET (1 .. Len(local)), NEW p \in Providers
  PROVE  TimesOf(S, p) \in SUBSET Nat /\ IsFiniteSet(TimesOf(S, p))
<1> DEFINE own == {n \in S : local[n].provider = p}
           at[n \in own] == local[n].at
<1>1. Len(local) \in Nat /\ local \in [1 .. Len(local) -> ObservationType]
  BY LenProperties DEF TypeOK
<1>2. IsFiniteSet(1 .. Len(local))
  BY <1>1, FS_Interval
<1>3. IsFiniteSet(own)
  <2>1. own \subseteq 1 .. Len(local)
    OBVIOUS
  <2>2. QED
    BY <1>2, <2>1, FS_Subset
<1>4. TimesOf(S, p) = {local[n].at : n \in own} /\ TimesOf(S, p) \subseteq Nat
  BY <1>1 DEF TimesOf, ObservationType
<1>5. at \in Surjection(own, TimesOf(S, p))
  BY <1>4 DEF Surjection
<1>6. IsFiniteSet(TimesOf(S, p))
  <2> HIDE DEF own, at
  <2> QED BY <1>3, <1>5, FS_Surjection
<1>7. QED
  BY <1>4, <1>6

LEMMA LatestType ==
  ASSUME NEW times \in SUBSET Nat, IsFiniteSet(times)
  PROVE  /\ LatestSuccess(times) \in {0} \cup times
         /\ \A t \in {0} \cup times : LatestSuccess(times) >= t
<1>1. {0} \cup times \in SUBSET Nat /\ {0} \cup times # {}
  OBVIOUS
<1>2. IsFiniteSet({0} \cup times)
  BY FS_AddElement, {0} \cup times = times \cup {0}
<1>3. QED
  BY <1>1, <1>2, MaxOf DEF LatestSuccess

(* What an observation of the batch is.                                    *)
LEMMA LocalType ==
  ASSUME TypeOK, NEW n \in 1 .. Len(local)
  PROVE  local[n] \in ObservationType /\ local[n].provider \in Providers /\ local[n].at \in Nat
<1>1. local[n] \in ObservationType
  BY ElementOfSeq DEF TypeOK
<1>2. QED
  BY <1>1 DEF ObservationType

LEMMA RowsType ==
  ASSUME TypeOK, NEW b \in BatchType, b.to <= Len(local)
  PROVE  RowsOf(b) \subseteq 1 .. Len(local)
<1>1. Len(local) \in Nat /\ b.from \in Nat /\ b.to \in Int
  BY LenProperties DEF TypeOK, BatchType
<1>2. QED
  BY <1>1 DEF RowsOf

LEMMA NoBatchType ==
  ASSUME NEW f \in BOOLEAN
  PROVE  /\ [NoBatch EXCEPT !.first = f] \in BatchType
         /\ NoBatch \in BatchType /\ NoBatch.from = 0 /\ NoBatch.to = 0
BY BoundAssumption DEF NoBatch, BatchType, StateType

LEMMA MergedType ==
  ASSUME NEW new \in StateType,
         NEW old, old = None \/ old \in StoredState
  PROVE  \/ MergedState(old, new) = None /\ old = None /\ new = None
         \/ /\ MergedState(old, new) \in StoredState
            /\ MergedState(old, new).success = IF old = None THEN 0 ELSE old.success
<1>1. new # None => new.at \in Nat /\ new.ok \in BOOLEAN
  BY ItemAssumption DEF StateType
<1>2. CASE new = None
  BY <1>2 DEF MergedState, StoredState
<1>3. CASE new # None /\ old = None
  BY <1>1, <1>3 DEF MergedState, StoredState
<1>4. CASE new # None /\ old # None
  BY <1>1, <1>4 DEF MergedState, StoredState
<1>5. QED
  BY <1>2, <1>3, <1>4

LEMMA SucceededType ==
  ASSUME NEW state \in StoredState,
         NEW times \in SUBSET Nat, IsFiniteSet(times)
  PROVE  /\ Succeeded(state, times) \in StoredState
         /\ Succeeded(state, times).success \in {state.success} \cup times
         /\ \A t \in {state.success} \cup times : Succeeded(state, times).success >= t
<1> DEFINE all == {state.success} \cup times
<1>1. all \in SUBSET Nat /\ IsFiniteSet(all)
  BY FS_AddElement, all = times \cup {state.success} DEF StoredState
<1>2. /\ LatestSuccess(all) \in {0} \cup all
      /\ \A t \in {0} \cup all : LatestSuccess(all) >= t
  <2> HIDE DEF all
  <2> QED BY <1>1, LatestType
<1>3. LatestSuccess(all) \in all
  BY <1>1, <1>2
<1>4. CASE times = {}
  BY <1>4 DEF Succeeded, StoredState
<1>5. CASE times # {}
  <2>1. Succeeded(state, times) = [state EXCEPT !.success = LatestSuccess(all)]
    BY <1>5 DEF Succeeded
  <2> HIDE DEF all
  <2>2. LatestSuccess(all) \in Nat
    BY <1>1, <1>3
  <2>3. Succeeded(state, times).success = LatestSuccess(all)
    BY <2>1 DEF StoredState
  <2>4. Succeeded(state, times) \in StoredState
    BY <2>1, <2>2 DEF StoredState
  <2> USE DEF all
  <2>5. QED
    BY <1>2, <1>3, <2>3, <2>4
<1>6. QED
  BY <1>4, <1>5

-----------------------------------------------------------------------------
(* Type correctness, action by action.                                     *)

(* The rows the server has, and what it knows of their providers.          *)
LEMMA StoreBatchType ==
  ASSUME TypeOK, NEW b \in BatchType, b.to <= Len(local), StoreBatch(b)
  PROVE  /\ stored' \subseteq received' /\ received' \subseteq 1 .. Len(local)
         /\ received \subseteq received' /\ stored \subseteq stored'
         /\ Taken(b) => RowsOf(b) \subseteq stored'
         /\ states' \in [Providers -> {None} \cup StoredState]
<1> DEFINE new == IF Taken(b) THEN RowsOf(b) \ stored ELSE {}
<1>1. new \subseteq 1 .. Len(local)
  BY RowsType
<1>2. StatesWith(b) \in [Providers -> {None} \cup StoredState]
  <2>1. ASSUME NEW p \in Providers
        PROVE  MergedState(states[p], b.states[p]) \in {None} \cup StoredState
    <3>1. states[p] = None \/ states[p] \in StoredState
      BY DEF TypeOK
    <3>2. b.states[p] \in StateType
      BY DEF BatchType
    <3>3. QED
      BY <3>1, <3>2, MergedType
  <2>2. QED
    BY <2>1 DEF StatesWith
<1>3. ASSUME Taken(b), NEW p \in Providers
      PROVE  Succeeded(StatesWith(b)[p], TimesOf(new, p)) \in {None} \cup StoredState
  <2>1. TimesOf(new, p) \in SUBSET Nat /\ IsFiniteSet(TimesOf(new, p))
    BY <1>1, TimesType
  <2>2. CASE StatesWith(b)[p] = None
    <3>1. TimesOf(new, p) = {}
      BY <1>3, <2>2 DEF Taken, Complete, TimesOf
    <3>2. QED
      BY <2>2, <3>1 DEF Succeeded
  <2>3. CASE StatesWith(b)[p] \in StoredState
    BY <2>1, <2>3, SucceededType
  <2>4. QED
    BY <1>2, <2>2, <2>3
<1>4. states' \in [Providers -> {None} \cup StoredState]
  BY <1>3 DEF StoreBatch, TypeOK
<1>5. stored' = stored \cup new /\ received' = received \cup new
  BY DEF StoreBatch
<1>6. QED
  BY <1>1, <1>4, <1>5 DEF TypeOK

(* What a tick appends.                                                    *)
LEMMA CollectType ==
  ASSUME TypeOK, NEW asked \in SUBSET Providers, NEW item \in [asked -> Items],
         NEW sampled \in SetToSeqs(Sampled(item)), Collect(item, sampled)
  PROVE  /\ local' \in Seq(ObservationType) /\ Len(local') <= MaxObs
         /\ Len(local) <= Len(local')
         /\ \A n \in 1 .. Len(local) : local'[n] = local[n]
         /\ \A n \in 1 .. Len(local') :
              n > Len(local) => local'[n].provider \in Sampled(item)
         /\ localStates' \in [Providers -> StateType]
<1>1. IsFiniteSet(Sampled(item)) /\ Sampled(item) \subseteq asked
  <2>1. Sampled(item) \subseteq asked
    BY DEF Sampled
  <2>2. QED
    BY <2>1, ProviderAssumption, FS_Subset
<1> DEFINE k == Cardinality(Sampled(item))
<1>2. k \in Nat
  BY <1>1, FS_CardinalityType
<1>3. sampled \in [1 .. k -> Sampled(item)]
  BY DEF SetToSeqs
<1>4. sampled \in Seq(Sampled(item)) /\ Len(sampled) = k
  <2> HIDE DEF k
  <2> QED BY <1>2, <1>3, IsASeq, LenProperties
<1> DEFINE more == [i \in 1 .. Len(sampled) |->
                      [provider |-> sampled[i], at |-> item[sampled[i]].at,
                       valid |-> item[sampled[i]].valid]]
<1>5. \A i \in 1 .. Len(sampled) : sampled[i] \in Sampled(item) /\ item[sampled[i]] \in Items
  BY <1>1, <1>3, <1>4
<1>6. \A i \in 1 .. Len(sampled) :
         more[i] \in ObservationType /\ more[i].provider \in Sampled(item)
  BY <1>1, <1>5, ItemAssumption DEF ObservationType
<1>7. more \in Seq(ObservationType) /\ Len(more) = k
  BY <1>2, <1>4, <1>6, IsASeq
<1>8. local' = local \o more /\ Len(local) + Len(sampled) <= MaxObs
  BY DEF Collect
<1>9. local \in Seq(ObservationType) /\ Len(local) \in Nat
  BY LenProperties DEF TypeOK
<1>10. /\ local' \in Seq(ObservationType) /\ Len(local') = Len(local) + k
       /\ \A n \in 1 .. Len(local') :
            local'[n] = IF n <= Len(local) THEN local[n] ELSE more[n - Len(local)]
  <2> HIDE DEF more, k
  <2> QED BY <1>2, <1>7, <1>8, <1>9, ConcatProperties
<1>11. \A n \in 1 .. Len(local') : n > Len(local) => local'[n].provider \in Sampled(item)
  <2> HIDE DEF more, k
  <2> QED BY <1>2, <1>4, <1>6, <1>9, <1>10
<1>12. localStates' \in [Providers -> StateType]
  BY DEF Collect, StateType, TypeOK
<1>13. QED
  <2> HIDE DEF more, k
  <2> QED BY <1>2, <1>4, <1>8, <1>9, <1>10, <1>11, <1>12

LEMMA BeginType ==
  ASSUME TypeOK, NEW w \in Uploaders, Begin(w)
  PROVE  /\ pc' \in [Uploaders -> Steps] /\ batch' \in [Uploaders -> BatchType]
         /\ batch'[w].to = 0 /\ \A v \in Uploaders : v # w => batch'[v] = batch[v]
<1> DEFINE fresh == [NoBatch EXCEPT !.first = TRUE]
<1>1. fresh \in BatchType
  BY NoBatchType, TRUE \in BOOLEAN
<1>2. fresh.to = 0
  BY DEF NoBatch
<1>3. batch' = [batch EXCEPT ![w] = fresh] /\ pc' = [pc EXCEPT ![w] = "rows"]
  BY DEF Begin
<1>4. QED
  <2> HIDE DEF fresh
  <2> QED BY <1>1, <1>2, <1>3 DEF TypeOK, Steps

(* An uploader's step that leaves the databases of both ends alone.        *)
LEMMA BatchStepType ==
  ASSUME TypeOK, NEW w \in Uploaders, NEW b \in BatchType, b.to <= Len(local),
         batch' \in {batch, [batch EXCEPT ![w] = b]},
         NEW step \in Steps, pc' = [pc EXCEPT ![w] = step],
         NEW a \in Answers, answer' \in {answer, [answer EXCEPT ![w] = a]},
         late' \in {late, late \cup {batch[w]}},
         UNCHANGED <<local, localStates, serverVars, received, replays, purges>>,
         cursor' \in 0 .. Len(local), owed' \in {owed, {}}
  PROVE  TypeOK'
<1>1. batch' \in [Uploaders -> BatchType] /\ \A v \in Uploaders : batch'[v].to <= Len(local)
  BY DEF TypeOK
<1>2. pc' \in [Uploaders -> Steps] /\ answer' \in [Uploaders -> Answers]
  BY DEF TypeOK
<1>3. late' \subseteq BatchType /\ \A d \in late' : d.to <= Len(local)
  BY DEF TypeOK
<1>4. /\ local \in Seq(ObservationType) /\ Len(local) <= MaxObs
      /\ localStates \in [Providers -> StateType]
      /\ stored \subseteq received /\ received \subseteq 1 .. Len(local) /\ owed \subseteq Seqs
      /\ states \in [Providers -> {None} \cup StoredState]
      /\ replays \in 0 .. MaxReplays /\ purges \in 0 .. MaxPurges
  BY DEF TypeOK
<1>5. QED
  BY <1>1, <1>2, <1>3, <1>4 DEF TypeOK, serverVars

LEMMA TypeStep ==
  ASSUME TypeOK, [Next]_vars
  PROVE  TypeOK'
<1>0. Len(local) \in Nat /\ cursor \in Nat
  BY LenProperties DEF TypeOK
<1>1. ASSUME NEW asked \in SUBSET Providers, NEW item \in [asked -> Items],
             NEW sampled \in SetToSeqs(Sampled(item)), Collect(item, sampled)
      PROVE  TypeOK'
  <2>1. /\ local' \in Seq(ObservationType) /\ Len(local') <= MaxObs
        /\ Len(local) <= Len(local') /\ localStates' \in [Providers -> StateType]
    BY <1>1, CollectType
  <2>2. Len(local') \in Nat
    BY <2>1, LenProperties
  <2>3. /\ pc' \in [Uploaders -> Steps] /\ batch' \in [Uploaders -> BatchType]
        /\ batch'["run"].to = 0 /\ \A v \in Uploaders : v # "run" => batch'[v] = batch[v]
    BY <1>1, BeginType, "run" \in Uploaders DEF Collect, Uploaders
  <2>4. \A v \in Uploaders : batch'[v].to <= Len(local')
    <3>1. \A v \in Uploaders : batch[v].to \in Int /\ batch[v].to <= Len(local)
      BY DEF TypeOK, BatchType
    <3>2. QED
      BY <1>0, <2>1, <2>2, <2>3, <3>1
  <2>5. late \subseteq BatchType /\ \A b \in late : b.to <= Len(local')
    <3>1. \A b \in late : b.to \in Int /\ b.to <= Len(local)
      BY DEF TypeOK, BatchType
    <3>2. QED
      BY <1>0, <2>1, <2>2, <3>1 DEF TypeOK
  <2>6. /\ answer' = answer /\ late' = late /\ cursor' = cursor
        /\ UNCHANGED <<serverVars, received, owed, replays, purges>>
    BY <1>1 DEF Collect
  <2>7. cursor \in 0 .. Len(local') /\ received \subseteq 1 .. Len(local')
    BY <1>0, <2>1, <2>2 DEF TypeOK
  <2>8. QED
    BY <2>1, <2>3, <2>4, <2>5, <2>6, <2>7 DEF TypeOK, serverVars
<1>2. CASE Replay
  <2>1. /\ pc' \in [Uploaders -> Steps] /\ batch' \in [Uploaders -> BatchType]
        /\ batch'["replay"].to = 0 /\ \A v \in Uploaders : v # "replay" => batch'[v] = batch[v]
    BY <1>2, BeginType, "replay" \in Uploaders DEF Replay, Uploaders
  <2>2. \A v \in Uploaders : batch'[v].to <= Len(local)
    BY <1>0, <2>1 DEF TypeOK
  <2>3. 0 \in 0 .. Len(local) /\ 1 .. Len(local) \subseteq Seqs
    BY <1>0, BoundAssumption DEF TypeOK, Seqs
  <2>4. replays + 1 \in 0 .. MaxReplays
    BY <1>2, BoundAssumption DEF Replay, TypeOK
  <2>5. QED
    BY <1>2, <2>1, <2>2, <2>3, <2>4 DEF Replay, TypeOK, serverVars
<1>3. ASSUME NEW w \in Uploaders, LoadRows(w)
      PROVE  TypeOK'
  <2> DEFINE upTo == IF cursor + Limit < Len(local) THEN cursor + Limit ELSE Len(local)
             b == [batch[w] EXCEPT !.from = cursor, !.to = upTo]
  <2>1. upTo \in 0 .. MaxObs /\ upTo <= Len(local)
    BY <1>0, LimitAssumption, BoundAssumption DEF TypeOK
  <2>2. b \in BatchType /\ b.to <= Len(local)
    <3>1. batch[w] \in BatchType
      BY DEF TypeOK
    <3> HIDE DEF upTo
    <3> QED BY <1>0, <2>1, <3>1 DEF BatchType
  <2>3. batch' = [batch EXCEPT ![w] = b]
    BY <1>3 DEF LoadRows, TypeOK
  <2> HIDE DEF b, upTo
  <2>4. QED
    BY <1>3, <2>2, <2>3, BatchStepType, "states" \in Steps, "none" \in Answers
       DEF LoadRows, Steps, Answers, TypeOK, clientVars
<1>4. ASSUME NEW w \in Uploaders, LoadStates(w)
      PROVE  TypeOK'
  <2> DEFINE b == IF NothingToSend(batch[w]) THEN NoBatch
                  ELSE [batch[w] EXCEPT !.states = localStates]
             step == IF NothingToSend(batch[w]) THEN "idle" ELSE "post"
  <2>1. b \in BatchType /\ b.to <= Len(local)
    <3>1. batch[w] \in BatchType /\ batch[w].to <= Len(local) /\ localStates \in [Providers -> StateType]
      BY DEF TypeOK
    <3>2. NoBatch \in BatchType /\ NoBatch.to = 0
      BY NoBatchType, TRUE \in BOOLEAN DEF NoBatch
    <3> QED BY <1>0, <3>1, <3>2 DEF BatchType
  <2>2. batch' = [batch EXCEPT ![w] = b] /\ pc' = [pc EXCEPT ![w] = step] /\ step \in Steps
    BY <1>4 DEF LoadStates, TypeOK, Steps
  <2> HIDE DEF b, step
  <2>3. QED
    BY <1>4, <2>1, <2>2, BatchStepType, "none" \in Answers
       DEF LoadStates, Answers, TypeOK, clientVars
<1>5. ASSUME NEW w \in Uploaders, Receive(w) \/ SaveCursor(w) \/ GiveUp(w)
      PROVE  TypeOK'
  <2>1. NoBatch \in BatchType /\ NoBatch.to <= Len(local)
    <3>1. NoBatch \in BatchType /\ NoBatch.to = 0
      BY NoBatchType, TRUE \in BOOLEAN
    <3>2. QED
      BY <1>0, <3>1
  <2>2. CASE Receive(w)
    <3> DEFINE step == IF RowsOf(batch[w]) = {} THEN "idle" ELSE "save"
    <3>1. pc' = [pc EXCEPT ![w] = step] /\ step \in Steps
      BY <2>2 DEF Receive, Steps
    <3> HIDE DEF step
    <3>2. QED
      BY <2>1, <2>2, <3>1, BatchStepType, "none" \in Answers
         DEF Receive, Answers, TypeOK, clientVars
  <2>3. CASE SaveCursor(w)
    <3>1. cursor' \in 0 .. Len(local)
      <4>1. batch[w].to \in 0 .. MaxObs /\ batch[w].to <= Len(local)
        BY DEF TypeOK, BatchType
      <4>2. QED
        BY <1>0, <2>3, <4>1, BoundAssumption DEF SaveCursor, TypeOK
    <3>2. owed' \in {owed, {}}
      BY <2>3 DEF SaveCursor
    <3>3. QED
      BY <2>1, <2>3, <3>1, <3>2, BatchStepType, "rows" \in Steps, "none" \in Answers
         DEF SaveCursor, Answers, Steps
  <2>4. CASE GiveUp(w)
    <3>1. owed' \in {owed, {}} /\ late' \in {late, late \cup {batch[w]}}
      BY <2>4 DEF GiveUp
    <3>2. QED
      BY <2>1, <2>4, <3>1, BatchStepType, "idle" \in Steps, "none" \in Answers
         DEF GiveUp, Answers, Steps, TypeOK, clientVars
  <2>5. QED
    BY <1>5, <2>2, <2>3, <2>4
<1>6. ASSUME NEW w \in Uploaders, Ingest(w)
      PROVE  TypeOK'
  <2>1. /\ stored' \subseteq received' /\ received' \subseteq 1 .. Len(local)
        /\ states' \in [Providers -> {None} \cup StoredState]
    BY <1>6, StoreBatchType DEF Ingest, TypeOK
  <2>2. answer' \in [Uploaders -> Answers]
    BY <1>6 DEF Ingest, AnswerTo, TypeOK, Answers
  <2>3. QED
    BY <1>6, <2>1, <2>2 DEF Ingest, TypeOK, clientVars
<1>7. ASSUME NEW b \in late, IngestLate(b)
      PROVE  TypeOK'
  <2>1. /\ stored' \subseteq received' /\ received' \subseteq 1 .. Len(local)
        /\ states' \in [Providers -> {None} \cup StoredState]
    BY <1>7, StoreBatchType DEF IngestLate, TypeOK
  <2>2. QED
    BY <1>7, <2>1 DEF IngestLate, TypeOK, clientVars, uploadVars
<1>8. CASE Purge
  BY <1>8, BoundAssumption DEF Purge, TypeOK, clientVars, uploadVars
<1>9. CASE UNCHANGED vars
  BY <1>9 DEF vars, clientVars, uploadVars, serverVars, TypeOK
<1>10. QED
  BY <1>1, <1>2, <1>3, <1>4, <1>5, <1>6, <1>7, <1>8, <1>9 DEF Next, CollectAny, Upload

(* Every variable keeps to its values: in particular the cursor and the    *)
(* rows of a batch stay within the client's history.                       *)
THEOREM UploadTypeCorrect == Spec => []TypeOK
<1>1. ASSUME Init
      PROVE  TypeOK
  <2>1. NoBatch \in BatchType /\ NoBatch.to = 0
    BY NoBatchType, TRUE \in BOOLEAN
  <2>2. /\ local \in Seq(ObservationType) /\ Len(local) = 0
        /\ localStates \in [Providers -> StateType]
    BY <1>1 DEF Init, StateType
  <2>3. batch \in [Uploaders -> BatchType] /\ \A w \in Uploaders : batch[w].to = 0
    BY <1>1, <2>1 DEF Init
  <2>4. QED
    BY <1>1, <2>2, <2>3, BoundAssumption DEF Init, TypeOK, Steps, Answers
<1>2. QED
  BY <1>1, TypeStep, PTL DEF Spec

-----------------------------------------------------------------------------
(* The invariant.  What a batch begins after has been received, and all of *)
(* it once it was answered; a batch ready to be sent, or still on its way, *)
(* holds the states of the providers of its rows.                          *)
Sent(b) == 1 .. b.from \subseteq received

BatchHonest(w) ==
  /\ Sent(batch[w])
  /\ answer[w] = "ok" => pc[w] = "post" /\ RowsOf(batch[w]) \subseteq received
  /\ pc[w] = "save" => RowsOf(batch[w]) \subseteq received

CarriesStates(b) == \A n \in RowsOf(b) : b.states[local[n].provider] # None

HonestInv == CursorHonest /\ \A w \in Uploaders : BatchHonest(w)

StatesInv ==
  /\ \A n \in 1 .. Len(local) : localStates[local[n].provider] # None
  /\ \A w \in Uploaders : pc[w] = "post" => CarriesStates(batch[w])
  /\ \A b \in late : CarriesStates(b)
  /\ StatesCarried

UploadInv == TypeOK /\ HonestInv /\ StatesInv /\ LastSuccessExact

(* An uploader that drops its batch, or begins anew, claims nothing.       *)
LEMMA FreshHonest ==
  ASSUME NEW f \in BOOLEAN
  PROVE  /\ Sent([NoBatch EXCEPT !.first = f]) /\ Sent(NoBatch)
         /\ RowsOf([NoBatch EXCEPT !.first = f]) = {} /\ RowsOf(NoBatch) = {}
<1>1. /\ [NoBatch EXCEPT !.first = f].from = 0 /\ [NoBatch EXCEPT !.first = f].to = 0
      /\ NoBatch.from = 0 /\ NoBatch.to = 0
  BY DEF NoBatch
<1>2. QED
  BY <1>1 DEF Sent, RowsOf

LEMMA Prefix ==
  ASSUME NEW b \in BatchType, Sent(b), RowsOf(b) \subseteq received
  PROVE  1 .. b.to \subseteq received
<1>1. b.from \in Nat /\ b.to \in Nat
  BY BoundAssumption DEF BatchType
<1>2. QED
  BY <1>1 DEF Sent, RowsOf

LEMMA HonestStep ==
  ASSUME TypeOK, HonestInv, [Next]_vars
  PROVE  HonestInv'
<1> USE DEF HonestInv
<1>1. ASSUME NEW asked \in SUBSET Providers, NEW item \in [asked -> Items],
             NEW sampled \in SetToSeqs(Sampled(item)), Collect(item, sampled)
      PROVE  HonestInv'
  <2>1. /\ batch' = [batch EXCEPT !["run"] = [NoBatch EXCEPT !.first = TRUE]]
        /\ pc' = [pc EXCEPT !["run"] = "rows"] /\ pc["run"] = "idle"
        /\ UNCHANGED <<cursor, answer, received>>
    BY <1>1 DEF Collect, Begin
  <2>2. Sent([NoBatch EXCEPT !.first = TRUE])
    BY FreshHonest, TRUE \in BOOLEAN
  <2>3. QED
    BY <2>1, <2>2 DEF TypeOK, CursorHonest, BatchHonest, Sent, Uploaders
<1>2. CASE Replay
  <2>1. /\ batch' = [batch EXCEPT !["replay"] = [NoBatch EXCEPT !.first = TRUE]]
        /\ pc' = [pc EXCEPT !["replay"] = "rows"] /\ pc["replay"] = "idle"
        /\ cursor' = 0 /\ UNCHANGED <<answer, received>>
    BY <1>2 DEF Replay, Begin
  <2>2. Sent([NoBatch EXCEPT !.first = TRUE])
    BY FreshHonest, TRUE \in BOOLEAN
  <2>3. QED
    BY <2>1, <2>2 DEF TypeOK, CursorHonest, BatchHonest, Sent, Uploaders
<1>3. ASSUME NEW w \in Uploaders, LoadRows(w)
      PROVE  HonestInv'
  <2>1. batch'[w].from = cursor /\ \A v \in Uploaders : v # w => batch'[v] = batch[v]
    BY <1>3 DEF LoadRows, TypeOK, BatchType
  <2>2. /\ pc[w] = "rows" /\ pc' = [pc EXCEPT ![w] = "states"]
        /\ UNCHANGED <<cursor, answer, received>>
    BY <1>3 DEF LoadRows, clientVars
  <2>3. QED
    BY <2>1, <2>2 DEF TypeOK, CursorHonest, BatchHonest, Sent
<1>4. ASSUME NEW w \in Uploaders, LoadStates(w)
      PROVE  HonestInv'
  <2>1. /\ batch'[w] = NoBatch \/ batch'[w].from = batch[w].from
        /\ \A v \in Uploaders : v # w => batch'[v] = batch[v]
    BY <1>4 DEF LoadStates, TypeOK, BatchType
  <2>2. /\ pc[w] = "states" /\ pc'[w] \in {"idle", "post"}
        /\ \A v \in Uploaders : v # w => pc'[v] = pc[v]
        /\ UNCHANGED <<cursor, answer, received>>
    BY <1>4 DEF LoadStates, TypeOK, clientVars
  <2>3. Sent(NoBatch)
    BY FreshHonest, TRUE \in BOOLEAN
  <2>4. QED
    BY <2>1, <2>2, <2>3 DEF CursorHonest, BatchHonest, Sent
<1>5. ASSUME NEW w \in Uploaders, Receive(w)
      PROVE  HonestInv'
  <2>1. RowsOf(batch[w]) \subseteq received /\ Sent(batch[w])
    BY <1>5 DEF Receive, BatchHonest
  <2>2. /\ batch'[w] \in {NoBatch, batch[w]} /\ \A v \in Uploaders : v # w => batch'[v] = batch[v]
        /\ pc'[w] = "idle" \/ (pc'[w] = "save" /\ batch'[w] = batch[w])
        /\ \A v \in Uploaders : v # w => pc'[v] = pc[v]
        /\ answer' = [answer EXCEPT ![w] = "none"] /\ UNCHANGED <<cursor, received>>
    BY <1>5 DEF Receive, TypeOK, clientVars
  <2>3. Sent(NoBatch)
    BY FreshHonest, TRUE \in BOOLEAN
  <2>4. QED
    BY <2>1, <2>2, <2>3 DEF TypeOK, CursorHonest, BatchHonest, Sent, RowsOf
<1>6. ASSUME NEW w \in Uploaders, SaveCursor(w)
      PROVE  HonestInv'
  <2>1. 1 .. batch[w].to \subseteq received
    BY <1>6, Prefix DEF SaveCursor, BatchHonest, TypeOK
  <2>2. cursor' \in {cursor, batch[w].to}
    BY <1>6 DEF SaveCursor
  <2>3. /\ batch' = [batch EXCEPT ![w] = NoBatch] /\ pc' = [pc EXCEPT ![w] = "rows"]
        /\ pc[w] = "save" /\ UNCHANGED <<answer, received>>
    BY <1>6 DEF SaveCursor
  <2>4. Sent(NoBatch)
    BY FreshHonest, TRUE \in BOOLEAN
  <2>5. QED
    BY <2>1, <2>2, <2>3, <2>4 DEF TypeOK, CursorHonest, BatchHonest, Sent
<1>7. ASSUME NEW w \in Uploaders, GiveUp(w)
      PROVE  HonestInv'
  <2>1. /\ batch' = [batch EXCEPT ![w] = NoBatch] /\ pc' = [pc EXCEPT ![w] = "idle"]
        /\ answer' = [answer EXCEPT ![w] = "none"] /\ UNCHANGED <<cursor, received>>
    BY <1>7 DEF GiveUp, clientVars
  <2>2. Sent(NoBatch)
    BY FreshHonest, TRUE \in BOOLEAN
  <2>3. QED
    BY <2>1, <2>2 DEF TypeOK, CursorHonest, BatchHonest, Sent
<1>8. ASSUME NEW w \in Uploaders, Ingest(w)
      PROVE  HonestInv'
  <2>1. /\ stored' \subseteq received' /\ received \subseteq received'
        /\ Taken(batch[w]) => RowsOf(batch[w]) \subseteq stored'
    BY <1>8, StoreBatchType DEF Ingest, TypeOK
  <2>2. /\ answer' = [answer EXCEPT ![w] = AnswerTo(batch[w])]
        /\ pc[w] = "post" /\ UNCHANGED <<cursor, pc, batch>>
    BY <1>8 DEF Ingest, clientVars
  <2>3. answer'[w] = "ok" => Taken(batch[w])
    BY <2>2 DEF TypeOK, AnswerTo, Taken
  <2>4. QED
    BY <2>1, <2>2, <2>3 DEF TypeOK, CursorHonest, BatchHonest, Sent
<1>9. ASSUME NEW b \in late, IngestLate(b)
      PROVE  HonestInv'
  <2>1. received \subseteq received'
    BY <1>9, StoreBatchType DEF IngestLate, TypeOK
  <2>2. UNCHANGED <<cursor, pc, batch, answer>>
    BY <1>9 DEF IngestLate, clientVars, uploadVars
  <2>3. QED
    BY <2>1, <2>2 DEF CursorHonest, BatchHonest, Sent
<1>10. CASE Purge \/ UNCHANGED vars
  <2>1. UNCHANGED <<cursor, pc, batch, answer, received>>
    BY <1>10 DEF Purge, vars, clientVars, uploadVars
  <2>2. QED
    BY <2>1 DEF CursorHonest, BatchHonest, Sent
<1>11. QED
  BY <1>1, <1>2, <1>3, <1>4, <1>5, <1>6, <1>7, <1>8, <1>9, <1>10 DEF Next, CollectAny, Upload

(* What a batch carries it carries for good: its rows do not change.       *)
LEMMA CarriesStable ==
  ASSUME TypeOK, NEW b \in BatchType, b.to <= Len(local), CarriesStates(b),
         \A n \in 1 .. Len(local) : local'[n] = local[n]
  PROVE  CarriesStates(b)'
BY RowsType DEF CarriesStates, RowsOf

LEMMA CarryingIsComplete ==
  ASSUME TypeOK, NEW b \in BatchType, b.to <= Len(local), CarriesStates(b)
  PROVE  Complete(b)
<1>1. ASSUME NEW n \in RowsOf(b) \ stored
      PROVE  StatesWith(b)[local[n].provider] # None
  <2>1. n \in 1 .. Len(local) /\ b.states[local[n].provider] # None
    BY <1>1, RowsType DEF CarriesStates
  <2> DEFINE p == local[n].provider
  <2>2. p \in Providers
    BY <2>1, LocalType
  <2>3. states[p] = None \/ states[p] \in StoredState
    BY <2>2 DEF TypeOK
  <2>4. b.states[p] \in StateType
    BY <2>2 DEF BatchType
  <2>5. MergedState(states[p], b.states[p]) \in StoredState
    BY <2>1, <2>3, <2>4, MergedType
  <2>6. QED
    BY <2>2, <2>5, NoneAssumption DEF StatesWith
<1>2. QED
  BY <1>1 DEF Complete

LEMMA StatesStep ==
  ASSUME TypeOK, HonestInv, StatesInv, [Next]_vars
  PROVE  StatesInv'
<1> USE DEF StatesInv, StatesCarried
<1>0. /\ \A w \in Uploaders : batch[w] \in BatchType /\ batch[w].to <= Len(local)
      /\ \A b \in late : b \in BatchType /\ b.to <= Len(local)
      /\ "none" # "missing" /\ "ok" # "missing"
  BY DEF TypeOK
<1>1. ASSUME NEW asked \in SUBSET Providers, NEW item \in [asked -> Items],
             NEW sampled \in SetToSeqs(Sampled(item)), Collect(item, sampled)
      PROVE  StatesInv'
  <2>1. /\ \A n \in 1 .. Len(local) : local'[n] = local[n]
        /\ \A n \in 1 .. Len(local') : n > Len(local) => local'[n].provider \in Sampled(item)
        /\ Len(local') \in Nat /\ Len(local) \in Nat
    BY <1>1, CollectType, LenProperties DEF TypeOK
  <2>2. \A p \in Providers : localStates[p] # None => localStates'[p] # None
    BY <1>1, ItemAssumption DEF Collect
  <2>3. \A p \in Sampled(item) : p \in Providers /\ localStates'[p] # None
    BY <1>1, ItemAssumption DEF Collect, Sampled, NewerState
  <2>4. \A n \in 1 .. Len(local') : localStates'[local'[n].provider] # None
    BY <2>1, <2>2, <2>3, LocalType
  <2>5. /\ batch' = [batch EXCEPT !["run"] = [NoBatch EXCEPT !.first = TRUE]]
        /\ pc' = [pc EXCEPT !["run"] = "rows"] /\ UNCHANGED <<answer, late>>
    BY <1>1 DEF Collect, Begin
  <2>6. \A w \in Uploaders : pc'[w] = "post" => pc[w] = "post" /\ batch'[w] = batch[w]
    BY <2>5 DEF TypeOK
  <2>7. \A b \in late : CarriesStates(b)'
    BY <1>0, <2>1, CarriesStable
  <2>8. ASSUME NEW w \in Uploaders, pc[w] = "post"
        PROVE  \A n \in RowsOf(batch[w]) : batch[w].states[local'[n].provider] # None
    <3>1. RowsOf(batch[w]) \subseteq 1 .. Len(local)
      BY <1>0, RowsType
    <3>2. QED
      BY <2>1, <2>8, <3>1 DEF CarriesStates
  <2>9. \A w \in Uploaders : pc'[w] = "post" => CarriesStates(batch[w])'
    BY <2>6, <2>8 DEF CarriesStates, RowsOf
  <2>10. /\ \A b \in late' : CarriesStates(b)'
         /\ \A w \in Uploaders : answer'[w] # "missing"
    BY <2>5, <2>7
  <2>11. QED
    BY <2>4, <2>9, <2>10
<1>2. CASE Replay
  <2>1. /\ pc' = [pc EXCEPT !["replay"] = "rows"]
        /\ \A w \in Uploaders : w # "replay" => batch'[w] = batch[w]
        /\ UNCHANGED <<local, localStates, answer, late>>
    BY <1>2 DEF Replay, Begin, TypeOK
  <2>2. QED
    BY <2>1 DEF TypeOK, CarriesStates
<1>3. ASSUME NEW w \in Uploaders, LoadRows(w)
      PROVE  StatesInv'
  <2>1. /\ pc' = [pc EXCEPT ![w] = "states"]
        /\ \A v \in Uploaders : v # w => batch'[v] = batch[v]
        /\ UNCHANGED <<local, localStates, answer, late>>
    BY <1>3 DEF LoadRows, TypeOK, clientVars
  <2>2. QED
    BY <2>1 DEF TypeOK, CarriesStates
<1>4. ASSUME NEW w \in Uploaders, LoadStates(w)
      PROVE  StatesInv'
  <2>1. /\ pc'[w] = "post" => /\ batch'[w].from = batch[w].from /\ batch'[w].to = batch[w].to
                             /\ batch'[w].states = localStates
        /\ \A v \in Uploaders : v # w => batch'[v] = batch[v] /\ pc'[v] = pc[v]
        /\ UNCHANGED <<local, localStates, answer, late>>
    BY <1>4 DEF LoadStates, TypeOK, BatchType, clientVars
  <2>2. pc'[w] = "post" => CarriesStates(batch'[w])
    BY <1>0, <2>1, RowsType DEF CarriesStates, RowsOf
  <2>3. QED
    BY <2>1, <2>2 DEF CarriesStates
<1>5. ASSUME NEW w \in Uploaders, Receive(w) \/ SaveCursor(w) \/ GiveUp(w)
      PROVE  StatesInv'
  <2>1. /\ pc'[w] # "post" /\ \A v \in Uploaders : v # w => batch'[v] = batch[v] /\ pc'[v] = pc[v]
        /\ answer' \in {answer, [answer EXCEPT ![w] = "none"]}
        /\ UNCHANGED <<local, localStates>>
    BY <1>5 DEF Receive, SaveCursor, GiveUp, TypeOK, clientVars
  <2>2. late' = late \/ (late' = late \cup {batch[w]} /\ pc[w] = "post")
    BY <1>5 DEF Receive, SaveCursor, GiveUp
  <2>3. \A b \in late' : CarriesStates(b)
    BY <2>2
  <2>4. \A v \in Uploaders : answer'[v] # "missing"
    BY <1>0, <2>1 DEF TypeOK
  <2>5. QED
    BY <2>1, <2>3, <2>4 DEF CarriesStates
<1>6. ASSUME NEW w \in Uploaders, Ingest(w)
      PROVE  StatesInv'
  <2>1. Complete(batch[w])
    BY <1>0, <1>6, CarryingIsComplete DEF Ingest
  <2>2. /\ answer' = [answer EXCEPT ![w] = answer'[w]] /\ answer'[w] # "missing"
        /\ UNCHANGED <<local, localStates, pc, batch, late>>
    BY <1>6, <2>1 DEF Ingest, AnswerTo, TypeOK, clientVars
  <2>3. QED
    BY <1>0, <2>2 DEF TypeOK, CarriesStates
<1>7. ASSUME NEW b \in late, IngestLate(b)
      PROVE  StatesInv'
  <2>1. late' \subseteq late /\ UNCHANGED <<local, localStates, pc, batch, answer>>
    BY <1>7 DEF IngestLate, clientVars, uploadVars
  <2>2. QED
    BY <2>1 DEF CarriesStates
<1>8. CASE Purge \/ UNCHANGED vars
  <2>1. UNCHANGED <<local, localStates, pc, batch, answer, late>>
    BY <1>8 DEF Purge, vars, clientVars, uploadVars
  <2>2. QED
    BY <2>1 DEF CarriesStates
<1>9. QED
  BY <1>1, <1>2, <1>3, <1>4, <1>5, <1>6, <1>7, <1>8 DEF Next, CollectAny, Upload

LEMMA LatestOfBoth ==
  ASSUME NEW old \in SUBSET Nat, NEW added \in SUBSET Nat,
         NEW first, first \in {0} \cup old, \A t \in {0} \cup old : first >= t,
         NEW last, last \in {first} \cup added, \A t \in {first} \cup added : last >= t
  PROVE  LatestSuccess(old \cup added) = last
<1>1. first \in Nat /\ last \in Nat /\ last >= first
  OBVIOUS
<1>2. \A t \in {0} \cup old : last >= t
  BY <1>1
<1> DEFINE all == {0} \cup (old \cup added)
<1>3. all \in SUBSET Nat /\ last \in all /\ \A t \in all : last >= t
  BY <1>2
<1>4. Max(all) = last
  <2> HIDE DEF all
  <2> QED BY <1>3, MaxUnique
<1>5. QED
  BY <1>4 DEF LatestSuccess

(* The rows of a batch raise the time of the last success to that of the   *)
(* newest row, or leave it at a newer one.                                 *)
LEMMA LastSuccessStored ==
  ASSUME TypeOK, LastSuccessExact, NEW b \in BatchType, b.to <= Len(local),
         StoreBatch(b), local' = local
  PROVE  LastSuccessExact'
<1> DEFINE new == IF Taken(b) THEN RowsOf(b) \ stored ELSE {}
<1>1. new \subseteq 1 .. Len(local) /\ stored \subseteq 1 .. Len(local)
  BY RowsType DEF TypeOK
<1>2. stored' = stored \cup new
  BY DEF StoreBatch
<1>3. ASSUME NEW p \in Providers
      PROVE  IF states'[p] = None THEN TimesOf(stored, p)' = {}
             ELSE states'[p].success = LatestSuccess(TimesOf(stored, p)')
  <2> DEFINE old == TimesOf(stored, p)
             added == TimesOf(new, p)
             merged == MergedState(states[p], b.states[p])
  <2>1. TimesOf(stored, p)' = old \cup added
    <3> HIDE DEF new
    <3> QED BY <1>2 DEF TimesOf
  <2>2. /\ old \in SUBSET Nat /\ IsFiniteSet(old)
        /\ added \in SUBSET Nat /\ IsFiniteSet(added)
    <3> HIDE DEF new
    <3> QED BY <1>1, TimesType
  <2>3. IF states[p] = None THEN old = {} ELSE states[p].success = LatestSuccess(old)
    BY DEF LastSuccessExact
  <2>4. \/ merged = None /\ states[p] = None
        \/ merged \in StoredState /\ merged.success = IF states[p] = None THEN 0 ELSE states[p].success
    <3>1. states[p] = None \/ states[p] \in StoredState
      BY DEF TypeOK
    <3>2. b.states[p] \in StateType
      BY DEF BatchType
    <3>3. QED
      BY <3>1, <3>2, MergedType
  <2>5. CASE ~Taken(b)
    <3>1. added = {} /\ states' = states
      BY <2>5 DEF TimesOf, StoreBatch
    <3>2. old \cup added = old
      BY <3>1
    <3>3. QED
      BY <2>1, <2>3, <3>1, <3>2
  <2>6. ASSUME Taken(b)
        PROVE  states'[p] = Succeeded(merged, added)
    BY <2>6 DEF StoreBatch, StatesWith
  <2>7. CASE Taken(b) /\ merged = None
    <3>1. added = {}
      BY <2>7 DEF Taken, Complete, StatesWith, TimesOf
    <3>2. states'[p] = None
      BY <2>6, <2>7, <3>1 DEF Succeeded
    <3>3. old = {}
      BY <2>3, <2>4, <2>7, NoneAssumption
    <3>4. QED
      BY <2>1, <3>1, <3>2, <3>3
  <2>8. CASE Taken(b) /\ merged \in StoredState
    <3> DEFINE state == Succeeded(merged, added)
    <3>1. merged.success \in {0} \cup old /\ \A t \in {0} \cup old : merged.success >= t
      <4>1. CASE states[p] = None
        BY <2>3, <2>4, <2>8, <4>1, NoneAssumption
      <4>2. CASE states[p] # None
        <5>1. merged.success = LatestSuccess(old)
          BY <2>3, <2>4, <2>8, <4>2, NoneAssumption
        <5>2. QED
          <6> HIDE DEF old
          <6> QED BY <2>2, <5>1, LatestType
      <4>3. QED
        BY <4>1, <4>2
    <3>2. /\ state \in StoredState /\ state.success \in {merged.success} \cup added
          /\ \A t \in {merged.success} \cup added : state.success >= t
      <4> HIDE DEF merged, added
      <4> QED BY <2>2, <2>8, SucceededType
    <3>3. LatestSuccess(old \cup added) = state.success
      <4> HIDE DEF old, added, merged, state
      <4> QED BY <2>2, <3>1, <3>2, LatestOfBoth
    <3>4. states'[p] = state /\ state # None
      BY <2>6, <2>8, <3>2, NoneAssumption
    <3>5. QED
      BY <2>1, <3>3, <3>4
  <2>9. QED
    BY <2>4, <2>5, <2>7, <2>8
<1>4. QED
  BY <1>3 DEF LastSuccessExact

LEMMA LastSuccessStep ==
  ASSUME TypeOK, LastSuccessExact, [Next]_vars
  PROVE  LastSuccessExact'
<1>1. ASSUME NEW asked \in SUBSET Providers, NEW item \in [asked -> Items],
             NEW sampled \in SetToSeqs(Sampled(item)), Collect(item, sampled)
      PROVE  LastSuccessExact'
  <2>1. \A n \in 1 .. Len(local) : local'[n] = local[n]
    BY <1>1, CollectType
  <2>2. UNCHANGED serverVars
    BY <1>1 DEF Collect
  <2>3. \A p \in Providers : TimesOf(stored, p)' = TimesOf(stored, p)
    BY <2>1, <2>2 DEF TimesOf, TypeOK, serverVars
  <2>4. QED
    BY <2>2, <2>3 DEF LastSuccessExact, serverVars
<1>2. CASE \/ Replay
           \/ \E w \in Uploaders : \/ LoadRows(w) \/ LoadStates(w) \/ Receive(w)
                                   \/ SaveCursor(w) \/ GiveUp(w)
           \/ UNCHANGED vars
  <2>1. UNCHANGED <<local, serverVars>>
    BY <1>2 DEF Replay, LoadRows, LoadStates, Receive, SaveCursor, GiveUp, vars, clientVars
  <2>2. QED
    BY <2>1 DEF LastSuccessExact, TimesOf, serverVars
<1>3. ASSUME NEW w \in Uploaders, Ingest(w)
      PROVE  LastSuccessExact'
  BY <1>3, LastSuccessStored DEF Ingest, clientVars, TypeOK
<1>4. ASSUME NEW b \in late, IngestLate(b)
      PROVE  LastSuccessExact'
  BY <1>4, LastSuccessStored DEF IngestLate, clientVars, TypeOK
<1>5. CASE Purge
  BY <1>5 DEF Purge, LastSuccessExact, TimesOf
<1>6. QED
  BY <1>1, <1>2, <1>3, <1>4, <1>5 DEF Next, CollectAny, Upload

-----------------------------------------------------------------------------
(* The theorems.                                                           *)

(* The invariant of both ends, which the three promises follow from.       *)
THEOREM UploadInvariant == Spec => []UploadInv
<1>1. ASSUME Init
      PROVE  HonestInv /\ StatesInv /\ LastSuccessExact
  <2>1. CursorHonest /\ \A w \in Uploaders : BatchHonest(w)
    <3>1. Sent(NoBatch)
      BY FreshHonest, TRUE \in BOOLEAN
    <3>2. QED
      BY <1>1, <3>1 DEF Init, CursorHonest, BatchHonest, Sent
  <2>2. Len(local) = 0
    BY <1>1 DEF Init
  <2>3. QED
    BY <1>1, <2>1, <2>2 DEF Init, HonestInv, StatesInv, StatesCarried, LastSuccessExact, TimesOf
<1>2. ASSUME TypeOK, HonestInv /\ StatesInv /\ LastSuccessExact, [Next]_vars
      PROVE  (HonestInv /\ StatesInv /\ LastSuccessExact)'
  BY <1>2, HonestStep, StatesStep, LastSuccessStep
<1>3. QED
  BY <1>1, <1>2, UploadTypeCorrect, PTL DEF Spec, UploadInv

(* The cursor of the client's upload never stands beyond an observation    *)
(* the server did not store, with two uploaders on one cursor.             *)
THEOREM CursorIsHonest == Spec => []CursorHonest
<1>1. UploadInv => CursorHonest
  BY DEF UploadInv, HonestInv
<1>2. QED
  BY <1>1, UploadInvariant, PTL

(* No batch is refused for the want of a provider's state.                 *)
THEOREM StatesAreCarried == Spec => []StatesCarried
<1>1. UploadInv => StatesCarried
  BY DEF UploadInv, StatesInv
<1>2. QED
  BY <1>1, UploadInvariant, PTL

(* The server's time of the last success is that of its newest sample.     *)
THEOREM LastSuccessIsExact == Spec => []LastSuccessExact
<1>1. UploadInv => LastSuccessExact
  BY DEF UploadInv
<1>2. QED
  BY <1>1, UploadInvariant, PTL

-----------------------------------------------------------------------------
(* A replay, as long as it is undisturbed (owed is not empty): what it owes *)
(* behind the shared cursor, and behind the batch it has in hand, is        *)
(* stored; and it has a batch without rows only when nothing is ahead.      *)
Ahead == owed \ 1 .. batch["replay"].from

ReplayInv ==
  /\ owed \subseteq 1 .. Len(local)
  /\ owed \cap (1 .. cursor) \subseteq stored
  /\ pc["replay"] \in {"states", "post", "save"} =>
       /\ owed \cap (1 .. batch["replay"].from) \subseteq stored
       /\ RowsOf(batch["replay"]) = {} => Ahead = {}
  /\ answer["replay"] = "ok" \/ pc["replay"] = "save" =>
       owed \cap RowsOf(batch["replay"]) \subseteq stored

LEMMA NothingOwed ==
  ASSUME owed' = {}
  PROVE  ReplayInv'
BY DEF ReplayInv, Ahead

(* Steps of anyone else, and what reaches the server meanwhile.            *)
LEMMA ReplayUntouched ==
  ASSUME ReplayInv, UNCHANGED <<owed, cursor>>, stored \subseteq stored',
         1 .. Len(local) \subseteq 1 .. Len(local'),
         batch'["replay"] = batch["replay"], pc'["replay"] = pc["replay"],
         answer'["replay"] = answer["replay"]
  PROVE  ReplayInv'
BY DEF ReplayInv, Ahead, RowsOf

LEMMA ReplayStep ==
  ASSUME TypeOK, HonestInv, ReplayInv, [Next]_vars
  PROVE  ReplayInv' /\ (ReplayEnds => owed' \subseteq stored')
<1> DEFINE b == batch["replay"]
<1>0. /\ b \in BatchType /\ b.from \in Nat /\ b.to \in 0 .. MaxObs
      /\ cursor \in Nat /\ Len(local) \in Nat /\ Limit \in Nat \ {0} /\ MaxObs \in Nat
      /\ "replay" \in Uploaders /\ "run" \in Uploaders
  BY BoundAssumption, LimitAssumption, LenProperties DEF TypeOK, BatchType, Uploaders
<1>1. ASSUME NEW asked \in SUBSET Providers, NEW item \in [asked -> Items],
             NEW sampled \in SetToSeqs(Sampled(item)), Collect(item, sampled)
      PROVE  ReplayInv' /\ ~ReplayEnds
  <2>1. /\ UNCHANGED <<owed, cursor, stored, answer>>
        /\ batch'["replay"] = batch["replay"] /\ pc'["replay"] = pc["replay"]
    BY <1>1 DEF Collect, Begin, TypeOK, serverVars
  <2>2. 1 .. Len(local) \subseteq 1 .. Len(local')
    <3>1. local' \in Seq(ObservationType) /\ Len(local) <= Len(local')
      BY <1>1, CollectType
    <3>2. Len(local') \in Nat
      BY <3>1, LenProperties
    <3>3. QED
      BY <1>0, <3>1, <3>2
  <2>3. QED
    BY <2>1, <2>2, ReplayUntouched DEF ReplayEnds
<1>2. CASE Replay
  <2>1. /\ owed' = 1 .. Len(local) /\ cursor' = 0 /\ UNCHANGED <<local, stored, answer>>
        /\ pc["replay"] = "idle" /\ pc'["replay"] = "rows"
    BY <1>2 DEF Replay, Begin, TypeOK, serverVars, Uploaders
  <2>2. answer["replay"] # "ok"
    BY <1>0, <2>1 DEF HonestInv, BatchHonest
  <2>3. QED
    BY <2>1, <2>2 DEF ReplayInv, ReplayEnds
<1>3. CASE LoadRows("replay")
  <2>1. /\ UNCHANGED <<owed, cursor, local, stored, answer>>
        /\ pc["replay"] = "rows" /\ pc'["replay"] = "states"
        /\ batch'["replay"].from = cursor
        /\ batch'["replay"].to = IF cursor + Limit < Len(local) THEN cursor + Limit ELSE Len(local)
    BY <1>3, <1>0 DEF LoadRows, TypeOK, BatchType, clientVars, serverVars
  <2>2. answer["replay"] # "ok"
    BY <1>0, <2>1 DEF HonestInv, BatchHonest
  <2>3. RowsOf(batch["replay"])' = {} => Len(local) <= cursor
    <3>1. SUFFICES ASSUME cursor < Len(local)
                   PROVE  cursor + 1 \in cursor + 1 .. batch'["replay"].to
      BY <1>0, <2>1 DEF RowsOf
    <3>2. QED
      BY <1>0, <2>1, <3>1
  <2>4. RowsOf(batch["replay"])' = {} => Ahead' = {}
    <3>1. Len(local) <= cursor => owed \subseteq 1 .. cursor
      BY <1>0 DEF ReplayInv
    <3>2. QED
      BY <2>1, <2>3, <3>1 DEF Ahead
  <2>5. QED
    BY <2>1, <2>2, <2>4 DEF ReplayInv, ReplayEnds
<1>4. CASE LoadStates("replay")
  <2>1. /\ UNCHANGED <<owed, cursor, local, stored, answer>> /\ pc["replay"] = "states"
    BY <1>4 DEF LoadStates, clientVars, serverVars
  <2>2. answer["replay"] # "ok"
    BY <1>0, <2>1 DEF HonestInv, BatchHonest
  <2>3. CASE NothingToSend(b)
    <3>1. pc'["replay"] = "idle" /\ RowsOf(b) = {}
      BY <1>0, <1>4, <2>3 DEF LoadStates, NothingToSend, TypeOK
    <3>2. owed \subseteq stored
      BY <2>1, <3>1 DEF ReplayInv, Ahead
    <3>3. QED
      BY <2>1, <2>2, <3>1, <3>2 DEF ReplayInv
  <2>4. CASE ~NothingToSend(b)
    <3>1. /\ pc'["replay"] = "post"
          /\ batch'["replay"].from = b.from /\ batch'["replay"].to = b.to
      BY <1>0, <1>4, <2>4 DEF LoadStates, TypeOK, BatchType
    <3>2. QED
      BY <2>1, <2>2, <3>1 DEF ReplayInv, Ahead, RowsOf, ReplayEnds
  <2>5. QED
    BY <2>3, <2>4
<1>5. CASE Receive("replay")
  <2>1. /\ UNCHANGED <<owed, cursor, local, stored>> /\ answer'["replay"] = "none"
        /\ pc["replay"] = "post" /\ answer["replay"] = "ok"
        /\ \/ RowsOf(b) = {} /\ pc'["replay"] = "idle"
           \/ RowsOf(b) # {} /\ pc'["replay"] = "save" /\ batch'["replay"] = b
    BY <1>0, <1>5 DEF Receive, TypeOK, clientVars, serverVars
  <2>2. RowsOf(b) = {} => owed \subseteq stored
    BY <2>1 DEF ReplayInv, Ahead
  <2>3. QED
    BY <2>1, <2>2 DEF ReplayInv, Ahead, RowsOf, ReplayEnds
<1>6. CASE SaveCursor("replay")
  <2>1. /\ UNCHANGED <<owed, local, stored, answer>>
        /\ pc["replay"] = "save" /\ pc'["replay"] = "rows"
        /\ cursor' \in {cursor, b.to}
    BY <1>0, <1>6 DEF SaveCursor, TypeOK, serverVars
  <2>2. answer["replay"] # "ok"
    BY <1>0, <2>1 DEF HonestInv, BatchHonest
  <2>3. 1 .. b.to \subseteq (1 .. b.from) \cup RowsOf(b)
    BY <1>0 DEF RowsOf
  <2>4. owed \cap (1 .. b.to) \subseteq stored
    BY <2>1, <2>3 DEF ReplayInv
  <2>5. QED
    BY <2>1, <2>2, <2>4 DEF ReplayInv, ReplayEnds
<1>7. CASE SaveCursor("run") \/ GiveUp("replay") \/ Purge
  <2>1. owed' = {}
    BY <1>7 DEF SaveCursor, GiveUp, Purge
  <2>2. QED
    BY <2>1, NothingOwed
<1>8. CASE Ingest("replay")
  <2>1. /\ stored \subseteq stored'
        /\ Taken(b) => RowsOf(b) \subseteq stored'
    BY <1>0, <1>8 DEF Ingest, StoreBatch
  <2>2. /\ UNCHANGED <<owed, cursor, local, pc, batch>>
        /\ answer'["replay"] = "ok" => Taken(b)
    BY <1>0, <1>8 DEF Ingest, AnswerTo, Taken, clientVars, TypeOK
  <2>3. pc["replay"] = "post"
    BY <1>8 DEF Ingest
  <2>4. QED
    BY <2>1, <2>2, <2>3 DEF ReplayInv, Ahead, RowsOf, ReplayEnds
<1>9. CASE LoadRows("run") \/ LoadStates("run") \/ Receive("run") \/ GiveUp("run")
             \/ Ingest("run") \/ (\E l \in late : IngestLate(l)) \/ UNCHANGED vars
  <2>1. stored \subseteq stored'
    BY <1>9 DEF LoadRows, LoadStates, Receive, GiveUp, Ingest, IngestLate, StoreBatch, serverVars, vars
  <2>2. /\ UNCHANGED <<owed, cursor, local>>
        /\ batch'["replay"] = batch["replay"] /\ pc'["replay"] = pc["replay"]
        /\ answer'["replay"] = answer["replay"]
    BY <1>0, <1>9 DEF LoadRows, LoadStates, Receive, GiveUp, Ingest, IngestLate, TypeOK,
      clientVars, uploadVars, vars
  <2>3. QED
    BY <2>1, <2>2, ReplayUntouched DEF ReplayEnds
<1>10. QED
  BY <1>1, <1>2, <1>3, <1>4, <1>5, <1>6, <1>7, <1>8, <1>9
     DEF Next, CollectAny, Upload, Uploaders

(* A replay that ends has resent the whole history it began with, unless   *)
(* the collector moved the cursor, or the log was purged, meanwhile; what  *)
(* else the two uploaders do, and whichever requests come late.            *)
THEOREM ReplaysResend == Spec => ReplayResends
<1>1. Init => ReplayInv
  BY DEF Init, ReplayInv, Ahead
<1>2. TypeOK /\ HonestInv /\ ReplayInv /\ [Next]_vars => ReplayInv'
  BY ReplayStep
<1>3. TypeOK /\ HonestInv /\ ReplayInv /\ [Next]_vars => [ReplayEnds => owed' \subseteq stored']_vars
  BY ReplayStep
<1>4. UploadInv => TypeOK /\ HonestInv
  BY DEF UploadInv
<1>5. QED
  BY <1>1, <1>2, <1>3, <1>4, UploadInvariant, PTL DEF Spec, ReplayResends
=============================================================================
