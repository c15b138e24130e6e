---------------------------- MODULE QuotaUpload ----------------------------
(***************************************************************************)
(* The quota history of one node: the client that samples it into a        *)
(* database of its own and uploads it (telemetry-client/src/quota.rs), the *)
(* server that stores it (telemetry-server/src/quota.rs).                  *)
(*                                                                         *)
(* Two processes of the client upload from one database, each with the     *)
(* loop upload_pending: the collector of "run" and the command "quota      *)
(* replay".  An observation is named by its sequence number in the client  *)
(* database and stands with its metrics for what it holds.                 *)
(***************************************************************************)
EXTENDS Integers, Sequences, FiniteSets, SequencesExt

CONSTANTS
  Providers,
  LongIds,    \* those whose id or name the client takes and the server refuses
  Items,      \* what a provider may answer: when, a sample or a failure, and
              \* whether the server's checks take the metrics of the sample
  None,
  Limit,      \* upload_batch_size
  MaxObs,     \* observations ever sampled
  MaxReplays, MaxPurges,
  MaxLate     \* abandoned requests still on their way

Uploaders == {"run", "replay"}
Seqs == 1 .. MaxObs

ASSUME BoundAssumption == MaxObs \in Nat /\ MaxReplays \in Nat /\ MaxPurges \in Nat /\ MaxLate \in Nat
ASSUME ProviderAssumption == IsFiniteSet(Providers) /\ LongIds \subseteq Providers
ASSUME LimitAssumption == Limit \in Nat \ {0}
ASSUME ItemAssumption ==
  Items \subseteq [at : Nat, ok : BOOLEAN, valid : BOOLEAN] /\ None \notin Items

(* A provider's state on the server, with last_success_at.                 *)
StoredState == [at : Nat, ok : BOOLEAN, success : Nat]
ASSUME NoneAssumption == None \notin StoredState

VARIABLES
  local,        \* client: quota_observations, by sequence number
  localStates,  \* client: quota_provider_states
  cursor,       \* client: quota_upload_cursors
  pc, batch, answer,  \* of each uploader: next step, batch, what the server answered
  late,         \* abandoned requests still on their way
  stored,       \* server: quota_observations of the node, by sequence number
  states,       \* server: quota_provider_states, with last_success_at
  received,     \* history: observations the server ever stored
  owed,         \* history: what an undisturbed replay still has to send
  replays, purges

clientVars == <<local, localStates, cursor>>
uploadVars == <<pc, batch, answer>>
serverVars == <<stored, states>>
vars == <<clientVars, uploadVars, late, serverVars, received, owed, replays, purges>>

Steps == {"idle", "rows", "states", "post", "save"}
Answers == {"none", "ok", "missing", "refused"}

(* When the observations of a provider were sampled.                       *)
TimesOf(S, p) == {local[n].at : n \in {m \in S : local[m].provider = p}}

NoBatch == [first |-> FALSE, from |-> 0, to |-> 0, states |-> [p \in Providers |-> None]]
RowsOf(b) == b.from + 1 .. b.to

Init ==
  /\ local = <<>> /\ localStates = [p \in Providers |-> None] /\ cursor = 0
  /\ pc = [w \in Uploaders |-> "idle"] /\ batch = [w \in Uploaders |-> NoBatch]
  /\ answer = [w \in Uploaders |-> "none"]
  /\ late = {} /\ stored = {} /\ states = [p \in Providers |-> None]
  /\ received = {} /\ owed = {} /\ replays = 0 /\ purges = 0

-----------------------------------------------------------------------------
(* The client.                                                             *)

(* Both ends keep the state checked last.                                  *)
NewerState(old, new) == old = None \/ new.at >= old.at

Begin(w) ==
  /\ pc' = [pc EXCEPT ![w] = "rows"]
  /\ batch' = [batch EXCEPT ![w] = [NoBatch EXCEPT !.first = TRUE]]

(* A tick of "run": every provider of the catalogue is asked, and the      *)
(* answers are stored in one transaction before the upload begins; the     *)
(* successful ones are observations, in the order of the catalogue.  When  *)
(* the quota API is down the known providers are recorded as failed.       *)
Sampled(item) == {p \in DOMAIN item : item[p].ok}

Collect(item, sampled) ==
  /\ pc["run"] = "idle"
  /\ Len(local) + Len(sampled) <= MaxObs
  /\ local' = local \o [i \in 1 .. Len(sampled) |->
                          [provider |-> sampled[i], at |-> item[sampled[i]].at,
                           valid |-> item[sampled[i]].valid]]
  /\ localStates' = [p \in Providers |->
                       IF p \in DOMAIN item /\ NewerState(localStates[p], item[p])
                       THEN item[p] ELSE localStates[p]]
  /\ Begin("run")
  /\ UNCHANGED <<cursor, answer, late, serverVars, received, owed, replays, purges>>

(* Mutant: a replay keeps the cursor.                                      *)
ReplayFromCursor ==
  /\ pc["replay"] = "idle" /\ replays < MaxReplays
  /\ Begin("replay")
  /\ owed' = 1 .. Len(local)
  /\ replays' = replays + 1
  /\ UNCHANGED <<clientVars, answer, late, serverVars, received, purges>>

(* "quota replay" starts over.                                             *)
Replay ==
  /\ pc["replay"] = "idle" /\ replays < MaxReplays
  /\ cursor' = 0
  /\ Begin("replay")
  /\ owed' = 1 .. Len(local)
  /\ replays' = replays + 1
  /\ UNCHANGED <<local, localStates, answer, late, serverVars, received, purges>>

(* Mutant: the row at the cursor is read again.                            *)
LoadRowsFromCursor(w) ==
  LET from == IF cursor = 0 THEN 0 ELSE cursor - 1 IN
  /\ pc[w] = "rows"
  /\ batch' = [batch EXCEPT ![w].from = from,
                            ![w].to = IF from + Limit < Len(local) THEN from + Limit ELSE Len(local)]
  /\ pc' = [pc EXCEPT ![w] = "states"]
  /\ UNCHANGED <<clientVars, answer, late, serverVars, received, owed, replays, purges>>

(* load_pending reads the rows after the cursor ...                        *)
LoadRows(w) ==
  LET upTo == IF cursor + Limit < Len(local) THEN cursor + Limit ELSE Len(local) IN
  /\ pc[w] = "rows"
  /\ batch' = [batch EXCEPT ![w].from = cursor,
                            ![w].to = upTo]
  /\ pc' = [pc EXCEPT ![w] = "states"]
  /\ UNCHANGED <<clientVars, answer, late, serverVars, received, owed, replays, purges>>

(* ... and then, in a statement of its own, the states of all providers.   *)
(* The loop ends at a batch that has nothing to say.                       *)
NothingToSend(b) ==
  RowsOf(b) = {} /\ (~b.first \/ \A p \in Providers : localStates[p] = None)

(* Mutant: only the first batch of an upload carries the states.           *)
LoadStatesOnce(w) ==
  /\ pc[w] = "states"
  /\ batch' = [batch EXCEPT ![w] = IF NothingToSend(batch[w]) THEN NoBatch
                                   ELSE IF batch[w].first THEN [@ EXCEPT !.states = localStates]
                                   ELSE @]
  /\ pc' = [pc EXCEPT ![w] = IF NothingToSend(batch[w]) THEN "idle" ELSE "post"]
  /\ UNCHANGED <<clientVars, answer, late, serverVars, received, owed, replays, purges>>

LoadStates(w) ==
  /\ pc[w] = "states"
  /\ batch' = [batch EXCEPT ![w] = IF NothingToSend(batch[w]) THEN NoBatch
                                   ELSE [@ EXCEPT !.states = localStates]]
  /\ pc' = [pc EXCEPT ![w] = IF NothingToSend(batch[w]) THEN "idle" ELSE "post"]
  /\ UNCHANGED <<clientVars, answer, late, serverVars, received, owed, replays, purges>>

(* The response arrives: the cursor may move, or a batch without rows ends *)
(* the loop.  An earlier attempt may still be on its way.                  *)
Receive(w) ==
  /\ pc[w] = "post" /\ answer[w] = "ok"
  /\ pc' = [pc EXCEPT ![w] = IF RowsOf(batch[w]) = {} THEN "idle" ELSE "save"]
  /\ batch' = IF RowsOf(batch[w]) = {} THEN [batch EXCEPT ![w] = NoBatch] ELSE batch
  /\ answer' = [answer EXCEPT ![w] = "none"]
  /\ late' \in {late, late \cup {batch[w]}} /\ Cardinality(late') <= MaxLate
  /\ UNCHANGED <<clientVars, serverVars, received, owed, replays, purges>>

(* Mutant: the cursor moves by the size of a full batch.                   *)
SaveFullBatch(w) ==
  /\ pc[w] = "save"
  /\ cursor' = cursor + Limit
  /\ pc' = [pc EXCEPT ![w] = "rows"] /\ batch' = [batch EXCEPT ![w] = NoBatch]
  /\ owed' = IF w = "run" THEN {} ELSE owed
  /\ UNCHANGED <<local, localStates, answer, late, serverVars, received, replays, purges>>

(* Mutant: the cursor moves to the newest row of the table.                *)
SaveNewest(w) ==
  /\ pc[w] = "save"
  /\ cursor' = Len(local)
  /\ pc' = [pc EXCEPT ![w] = "rows"] /\ batch' = [batch EXCEPT ![w] = NoBatch]
  /\ owed' = IF w = "run" THEN {} ELSE owed
  /\ UNCHANGED <<local, localStates, answer, late, serverVars, received, replays, purges>>

SaveCursor(w) ==
  /\ pc[w] = "save"
  /\ cursor' = IF cursor < batch[w].to THEN batch[w].to ELSE cursor
  /\ pc' = [pc EXCEPT ![w] = "rows"]
  /\ batch' = [batch EXCEPT ![w] = NoBatch]
  /\ owed' = IF w = "run" THEN {} ELSE owed
  /\ UNCHANGED <<local, localStates, answer, late, serverVars, received, replays, purges>>

(* The attempts are used up, the batch is refused, or the process dies:    *)
(* the batch is dropped, and the cursor stays where it is.                 *)
GiveUp(w) ==
  /\ pc[w] # "idle"
  /\ pc' = [pc EXCEPT ![w] = "idle"] /\ batch' = [batch EXCEPT ![w] = NoBatch]
  /\ answer' = [answer EXCEPT ![w] = "none"]
  /\ late' \in {late, IF pc[w] = "post" THEN late \cup {batch[w]} ELSE late}
  /\ Cardinality(late') <= MaxLate
  /\ owed' = IF w = "replay" THEN {} ELSE owed
  /\ UNCHANGED <<clientVars, serverVars, received, replays, purges>>

(* A 400 is not retried: it ends the upload at once.                       *)
Refused(w) == answer[w] \in {"missing", "refused"} /\ GiveUp(w)

-----------------------------------------------------------------------------
(* The server.                                                             *)

(* valid_state, valid_observation: an id and a name of up to 256 bytes,    *)
(* where the client takes an id of 512 and any name; a time above zero,    *)
(* where the client rounds the first second of the epoch down; metrics     *)
(* with a value, a short unit and so on, where the client checks less.     *)
ValidState(p, state) == p \notin LongIds /\ state.at > 0
ValidObservation(o) == o.provider \notin LongIds /\ o.at > 0 /\ o.valid

ValidStates(known) == \A p \in Providers : known[p] # None => ValidState(p, known[p])

(* validate_batch: one part that is refused refuses the whole batch.       *)
ValidBatch(b) == ValidStates(b.states) /\ \A n \in RowsOf(b) : ValidObservation(local[n])

(* Mutant: a newer state replaces the whole row.                           *)
ReplacedState(old, new) ==
  IF new = None \/ (old # None /\ ~NewerState(old, new)) THEN old
  ELSE [at |-> new.at, ok |-> new.ok, success |-> 0]

MergedState(old, new) ==
  IF new = None THEN old
  ELSE IF old = None THEN [at |-> new.at, ok |-> new.ok, success |-> 0]
  ELSE IF NewerState(old, new) THEN [old EXCEPT !.at = new.at, !.ok = new.ok]
  ELSE old

LatestSuccess(times) == Max({0} \cup times)

Succeeded(state, times) ==
  IF times = {} THEN state ELSE [state EXCEPT !.success = LatestSuccess({@} \cup times)]

(* store_batch: one transaction, undone when an observation has no         *)
(* provider state.  What is stored already is answered as a duplicate.     *)
StatesWith(b) == [p \in Providers |-> MergedState(states[p], b.states[p])]

Complete(b) == \A n \in RowsOf(b) \ stored : StatesWith(b)[local[n].provider] # None

Taken(b) == ValidBatch(b) /\ Complete(b)

StoreBatch(b) ==
  LET new == IF Taken(b) THEN RowsOf(b) \ stored ELSE {} IN
  /\ stored' = stored \cup new
  /\ received' = received \cup new
  /\ states' = IF Taken(b)
               THEN [p \in Providers |-> Succeeded(StatesWith(b)[p], TimesOf(new, p))]
               ELSE states

(* Mutant: what fails the checks is answered as if it had been stored.     *)
RefusalAcknowledged(b) == IF ~ValidBatch(b) \/ Complete(b) THEN "ok" ELSE "missing"

AnswerTo(b) == IF ~ValidBatch(b) THEN "refused" ELSE IF Complete(b) THEN "ok" ELSE "missing"

(* An attempt reaches the server; its answer may be lost and the batch     *)
(* sent again.                                                             *)
Ingest(w) ==
  /\ pc[w] = "post"
  /\ StoreBatch(batch[w])
  /\ answer' = [answer EXCEPT ![w] = AnswerTo(batch[w])]
  /\ UNCHANGED <<clientVars, pc, batch, late, owed, replays, purges>>

IngestLate(b) ==
  /\ b \in late /\ late' = late \ {b}
  /\ StoreBatch(b)
  /\ UNCHANGED <<clientVars, uploadVars, owed, replays, purges>>

(* An administrator deletes the quota log of the node.                     *)
Purge ==
  /\ purges < MaxPurges /\ purges' = purges + 1
  /\ stored' = {} /\ states' = [p \in Providers |-> None]
  /\ owed' = {}
  /\ UNCHANGED <<clientVars, uploadVars, late, received, replays>>

-----------------------------------------------------------------------------
CollectAny ==
  \E asked \in SUBSET Providers :
    \E item \in [asked -> Items] :
      \E sampled \in SetToSeqs(Sampled(item)) : Collect(item, sampled)

Upload(w) ==
  LoadRows(w) \/ LoadStates(w) \/ Ingest(w) \/ Receive(w) \/ SaveCursor(w) \/ GiveUp(w)

Next ==
  \/ CollectAny
  \/ Replay
  \/ \E w \in Uploaders : Upload(w)
  \/ \E b \in late : IngestLate(b)
  \/ Purge

Spec == Init /\ [][Next]_vars

(* The collector ticks for ever, and neither failures nor restarts keep it *)
(* for ever from its next step: of the requests sent again and again, some *)
(* get through to the server and some answers get back, a refusal too.     *)
(* That the server takes what it gets is not assumed.                      *)
Fairness ==
  /\ WF_vars(CollectAny)
  /\ SF_vars(LoadRows("run")) /\ SF_vars(LoadStates("run")) /\ SF_vars(Ingest("run"))
  /\ SF_vars(Receive("run")) /\ SF_vars(Refused("run")) /\ SF_vars(SaveCursor("run"))

LiveSpec == Spec /\ Fairness
-----------------------------------------------------------------------------
(* Properties.                                                             *)

ObservationType == [provider : Providers, at : Nat, valid : BOOLEAN]
StateType == {None} \cup Items
BatchType == [first : BOOLEAN, from : Nat, to : 0 .. MaxObs, states : [Providers -> StateType]]

TypeOK ==
  /\ local \in Seq(ObservationType) /\ Len(local) <= MaxObs
  /\ localStates \in [Providers -> StateType]
  /\ cursor \in 0 .. Len(local)
  /\ pc \in [Uploaders -> Steps] /\ answer \in [Uploaders -> Answers]
  /\ batch \in [Uploaders -> BatchType] /\ (\A w \in Uploaders : batch[w].to <= Len(local))
  /\ late \subseteq BatchType /\ (\A b \in late : b.to <= Len(local))
  /\ stored \subseteq received /\ received \subseteq 1 .. Len(local) /\ owed \subseteq Seqs
  /\ states \in [Providers -> {None} \cup StoredState]
  /\ replays \in 0 .. MaxReplays /\ purges \in 0 .. MaxPurges

(* The cursor has never passed an observation the server did not store,    *)
(* whatever was sent again, given up or resent by a replay: what is behind *)
(* it need never be sent again.                                            *)
CursorHonest == 1 .. cursor \subseteq received

(* The server never refuses a batch of the client for the want of a        *)
(* provider's state: batches carry the states read after the rows, so they *)
(* hold the provider of each row even when it was sampled meanwhile, and   *)
(* even when the server has just lost them all.                            *)
StatesCarried == \A w \in Uploaders : answer[w] # "missing"

(* The server's time of a provider's last success is that of the newest    *)
(* sample it holds, in whatever order samples and states arrive; and it    *)
(* holds no sample of a provider it does not know.                         *)
LastSuccessExact ==
  \A p \in Providers :
    IF states[p] = None THEN TimesOf(stored, p) = {}
    ELSE states[p].success = LatestSuccess(TimesOf(stored, p))

(* "To resend the complete local history idempotently": a replay that ends *)
(* has resent all it began with, if meanwhile nothing was purged and the   *)
(* collector, which shares the cursor, did not move it.                    *)
ReplayEnds == pc["replay"] # "idle" /\ pc'["replay"] = "idle"
ReplayResends == [][ReplayEnds => owed' \subseteq stored']_vars

(* A row that the server refuses stands before n or so close behind it     *)
(* that a batch may hold both.                                             *)
Blocked(n) == \E m \in 1 .. Len(local) : m < n + Limit /\ ~ValidObservation(local[m])

(* Every observation reaches the server in the end, whatever fails, is     *)
(* given up, replayed or purged, unless the server refuses what comes with *)
(* it: a row for good, from the row on (quota.rs:792 has no way around     *)
(* it), or the state of any provider for as long as it stays.              *)
ObservationsArrive ==
  <>[]ValidStates(localStates) =>
    \A n \in Seqs : n <= Len(local) ~> n \in received \/ Blocked(n)
=============================================================================
