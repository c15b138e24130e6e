----------------------------- MODULE UsageSync -----------------------------
(***************************************************************************)
(* Protocol v3 for one node: the client that diffs its ledger against the  *)
(* durable upload baseline and uploads the difference as one generation    *)
(* (telemetry-client/src/lib.rs, usage_ledger.rs), and the server that     *)
(* stages the generation and applies it in one transaction                 *)
(* (telemetry-server/src/sync_v2.rs), over requests that may be delayed,   *)
(* repeated or never answered, with client crashes, ledger rebuilds and    *)
(* administrator purges.                                                   *)
(*                                                                         *)
(* Every handler works under the one database mutex, so it is one action.  *)
(* A request stays in net for ever: handling it again is a retry or a      *)
(* duplicate, handling it after its upload was given up is a late delivery,*)
(* and never handling it is a loss.                                        *)
(***************************************************************************)
EXTENDS UsageData, Naturals

CONSTANTS
  Gens,       \* generation ids (a fresh UUID per upload)
  NoPlan,     \* the plan of a generation id not drawn yet
  MaxPurges,  \* bound on administrator purges
  LateDelivery  \* may a request reach the server after its upload ended

ASSUME BoundAssumption == MaxPurges \in Nat /\ LateDelivery \in BOOLEAN

VARIABLES
  events, rollups, catalog,  \* usage_events, usage_daily_snapshots, provider_catalog
  status,                    \* sync_generations.status
  stagedEv, stagedRo, stagedProv,
  net,                       \* requests sent so far
  plan,                      \* what the client put in each generation
  cur,                       \* the generation being uploaded, or None
  pending,                   \* the request awaiting its answer, or None
  reply,                     \* the answer to pending, if one arrived
  baseInit, baseEv, baseRo,  \* the durable baseline: upload_remotes, upload_hashes
  faithful,                  \* history: see MirrorExact
  purges

serverVars == <<events, rollups, catalog, status, stagedEv, stagedRo, stagedProv>>
baseVars == <<baseInit, baseEv, baseRo>>
clientVars == <<net, plan, cur, pending, baseVars>>
vars == <<serverVars, clientVars, reply, faithful, purges>>

Kinds == {"begin", "events", "rollups", "providers", "commit"}
Request == [kind : Kinds, gen : Gens, key : Events \cup Rollups \cup {None}]

Req(kind, g, key) == [kind |-> kind, gen |-> g, key |-> key]

Plans ==
  [replaceAll : BOOLEAN, ev : EventMutations, ro : RollupMutations,
   prov : SUBSET Providers, curEv : EventRows, curRo : RollupRows]

ASSUME PlanAssumption == NoPlan \notin Plans
ASSUME NoneAssumption == None \notin Gens \cup Request

Init ==
  /\ events = NoEvents /\ rollups = NoRollups /\ catalog = {}
  /\ status = [g \in Gens |-> "absent"]
  /\ stagedEv = [g \in Gens |-> NoEventMutations]
  /\ stagedRo = [g \in Gens |-> NoRollupMutations]
  /\ stagedProv = [g \in Gens |-> {}]
  /\ net = {}
  /\ plan = [g \in Gens |-> NoPlan]
  /\ cur = None /\ pending = None /\ reply = "none"
  /\ baseInit = FALSE /\ baseEv = NoEvents /\ baseRo = NoRollups
  /\ faithful = TRUE
  /\ purges = 0

-----------------------------------------------------------------------------
(* The client.                                                             *)

(* The plan of an upload of (ev, ro, prov): a full snapshot when forced or *)
(* when this remote has no baseline, the hash diff otherwise.              *)
PlanFor(force, ev, ro, prov) ==
  LET full == force \/ ~baseInit
  IN  [replaceAll |-> full,
       ev |-> EventDiff(full, baseEv, ev),
       ro |-> RollupDiff(full, baseRo, ro),
       prov |-> prov, curEv |-> ev, curRo |-> ro]

(* sync_snapshot_v3_with_mode up to its first request.  The ledger is an   *)
(* input: any rows at all, because the collectors may have changed it in   *)
(* any way since the last upload, and detail of a day may be there beside  *)
(* the day's rollup.                                                       *)
StartUpload(g) ==
  /\ cur = None
  /\ plan[g] = NoPlan
  /\ \E force \in BOOLEAN, ev \in EventRows, ro \in RollupRows,
        prov \in SUBSET Providers :
       plan' = [plan EXCEPT ![g] = PlanFor(force, ev, ro, prov)]
  /\ cur' = g
  /\ pending' = Req("begin", g, None)
  /\ net' = net \cup {Req("begin", g, None)}
  /\ reply' = "none"
  /\ UNCHANGED <<serverVars, baseVars, faithful, purges>>

(* The requests of an upload, one mutation to a batch.                     *)
Script(g) ==
  {Req(k, g, None) : k \in {"begin", "providers", "commit"}}
    \cup {Req("events", g, e) : e \in {e \in Events : plan[g].ev[e] # Keep}}
    \cup {Req("rollups", g, r) : r \in {r \in Rollups : plan[g].ro[r] # Keep}}

Rank == [k \in Kinds |-> CASE k = "begin" -> 0 [] k = "events" -> 1
                           [] k = "rollups" -> 2 [] k = "providers" -> 3
                           [] k = "commit" -> 4]

(* The requests that may be sent next: events, then rollups, then the      *)
(* provider catalog, then the commit.                                      *)
NextRequests(g) ==
  LET unsent == Script(g) \ net
  IN  {q \in unsent : \A p \in unsent : Rank[q.kind] <= Rank[p.kind]}

(* A success answer to anything but the commit: send the next request.     *)
Proceed ==
  /\ pending # None /\ pending.kind # "commit"
  /\ reply = "ok"
  /\ \E q \in NextRequests(cur) : pending' = q /\ net' = net \cup {q}
  /\ reply' = "none"
  /\ UNCHANGED <<serverVars, plan, cur, baseVars, faithful, purges>>

(* Mutant: running out of attempts falls through to the success path.      *)
UnansweredAcknowledges ==
  /\ pending # None /\ pending.kind = "commit"
  /\ reply # "conflict"
  /\ pending' = None
  /\ reply' = "none"
  /\ UNCHANGED <<serverVars, net, plan, cur, baseVars, faithful, purges>>

(* The commit is acknowledged; the baseline is not written yet.            *)
CommitAcknowledged ==
  /\ pending # None /\ pending.kind = "commit"
  /\ reply = "ok"
  /\ pending' = None
  /\ reply' = "none"
  /\ UNCHANGED <<serverVars, net, plan, cur, baseVars, faithful, purges>>

(* save_upload_baseline: one transaction of the ledger database.           *)
SaveBaseline ==
  /\ cur # None /\ pending = None
  /\ baseInit' = TRUE
  /\ baseEv' = plan[cur].curEv
  /\ baseRo' = plan[cur].curRo
  /\ cur' = None
  /\ UNCHANGED <<serverVars, net, plan, pending, reply, faithful, purges>>

(* Leaving an upload without saving the baseline.  The generation may      *)
(* already be committed: from then on the baseline is behind the server.   *)
LeaveUpload ==
  /\ cur' = None /\ pending' = None /\ reply' = "none"
  /\ faithful' = (faithful /\ status[cur] # "committed")
  /\ UNCHANGED <<serverVars, net, plan, baseVars, purges>>

(* A status that is_retryable_status does not list ends the upload.        *)
Refused == cur # None /\ reply = "conflict" /\ LeaveUpload

(* Five attempts without a usable answer, or the process stops.            *)
Abandon == cur # None /\ LeaveUpload

(* rebuild renames a fresh ledger over the old one, and a new server url   *)
(* or token is a new remote_key: either way no baseline row is found.      *)
ForgetBaseline ==
  /\ baseInit
  /\ baseInit' = FALSE /\ baseEv' = NoEvents /\ baseRo' = NoRollups
  /\ UNCHANGED <<serverVars, net, plan, cur, pending, reply, faithful, purges>>

-----------------------------------------------------------------------------
(* The network and the server.                                             *)

Answer(q, result) == reply' = IF pending = q THEN result ELSE reply

LoseReply ==
  /\ reply # "none"
  /\ reply' = "none"
  /\ UNCHANGED <<serverVars, clientVars, faithful, purges>>

(* begin: a new id opens a generation, an open one is resumed.             *)
Begin(g) ==
  LET q == Req("begin", g, None)
  IN  /\ q \in net
      /\ IF status[g] = "committed"
         THEN Answer(q, "conflict") /\ UNCHANGED status
         ELSE Answer(q, "ok") /\ status' = [status EXCEPT ![g] = "open"]
      /\ UNCHANGED <<events, rollups, catalog, stagedEv, stagedRo, stagedProv,
                     clientVars, faithful, purges>>

(* stage_events, stage_rollups, stage_providers: upserts keyed by the      *)
(* generation and the row, refused unless the generation is open.          *)
StageEvent(g, e) ==
  LET q == Req("events", g, e)
  IN  /\ q \in net
      /\ IF status[g] = "open"
         THEN /\ Answer(q, "ok")
              /\ stagedEv' = [stagedEv EXCEPT ![g][e] = plan[g].ev[e]]
         ELSE Answer(q, "conflict") /\ UNCHANGED stagedEv
      /\ UNCHANGED <<events, rollups, catalog, status, stagedRo, stagedProv,
                     clientVars, faithful, purges>>

StageRollup(g, r) ==
  LET q == Req("rollups", g, r)
  IN  /\ q \in net
      /\ IF status[g] = "open"
         THEN /\ Answer(q, "ok")
              /\ stagedRo' = [stagedRo EXCEPT ![g][r] = plan[g].ro[r]]
         ELSE Answer(q, "conflict") /\ UNCHANGED stagedRo
      /\ UNCHANGED <<events, rollups, catalog, status, stagedEv, stagedProv,
                     clientVars, faithful, purges>>

StageProviders(g) ==
  LET q == Req("providers", g, None)
  IN  /\ q \in net
      /\ IF status[g] = "open"
         THEN /\ Answer(q, "ok")
              /\ stagedProv' = [stagedProv EXCEPT ![g] = @ \cup plan[g].prov]
         ELSE Answer(q, "conflict") /\ UNCHANGED stagedProv
      /\ UNCHANGED <<events, rollups, catalog, status, stagedEv, stagedRo,
                     clientVars, faithful, purges>>

(* Mutant: commit trusts what is staged.                                   *)
ManifestUnchecked(g) == status[g] = "open"

(* The staged rows have the counts and the manifest hash of the request.   *)
ManifestMatches(g) ==
  /\ stagedEv[g] = plan[g].ev
  /\ stagedRo[g] = plan[g].ro
  /\ stagedProv[g] = plan[g].prov

(* commit, first time: the staged generation is applied, sealed and its    *)
(* staging cleared in one transaction.  A full replacement by the upload   *)
(* in progress leaves the server with exactly that snapshot; a generation  *)
(* no upload is waiting for changes rows behind the client's back.         *)
ApplyStaged(g) ==
  /\ status[g] = "open"
  /\ ManifestMatches(g)
  /\ events' = EventsAfter(plan[g].replaceAll, stagedEv[g], stagedRo[g], events)
  /\ rollups' = RollupsAfter(plan[g].replaceAll, stagedRo[g], rollups)
  /\ catalog' = stagedProv[g]
  /\ status' = [status EXCEPT ![g] = "committed"]
  /\ stagedEv' = [stagedEv EXCEPT ![g] = NoEventMutations]
  /\ stagedRo' = [stagedRo EXCEPT ![g] = NoRollupMutations]
  /\ stagedProv' = [stagedProv EXCEPT ![g] = {}]
  /\ faithful' = (cur = g /\ (faithful \/ plan[g].replaceAll))
  /\ Answer(Req("commit", g, None), "ok")

(* Mutant: a repeated commit finds no stored result to return.             *)
RepeatUnanswered(g) ==
  /\ status[g] = "committed"
  /\ UNCHANGED <<serverVars, faithful, reply>>

(* commit again: the stored result, and nothing else.                      *)
RepeatResult(g) ==
  /\ status[g] = "committed"
  /\ Answer(Req("commit", g, None), "ok")
  /\ UNCHANGED <<serverVars, faithful>>

RefuseCommit(g) ==
  /\ \/ status[g] = "absent"
     \/ status[g] = "open" /\ ~ManifestMatches(g)
  /\ Answer(Req("commit", g, None), "conflict")
  /\ UNCHANGED <<serverVars, faithful>>

Commit(g) ==
  /\ Req("commit", g, None) \in net
  /\ ApplyStaged(g) \/ RepeatResult(g) \/ RefuseCommit(g)
  /\ UNCHANGED <<clientVars, purges>>

(* admin purge_logs(kind=request): rows, staging and generations go, the   *)
(* provider labels stay.                                                   *)
Purge ==
  /\ purges < MaxPurges
  /\ purges' = purges + 1
  /\ events' = NoEvents /\ rollups' = NoRollups
  /\ status' = [g \in Gens |-> "absent"]
  /\ stagedEv' = [g \in Gens |-> NoEventMutations]
  /\ stagedRo' = [g \in Gens |-> NoRollupMutations]
  /\ stagedProv' = [g \in Gens |-> {}]
  /\ faithful' = FALSE
  /\ UNCHANGED <<catalog, clientVars, reply>>

Handle(g) ==
  /\ g = cur \/ LateDelivery
  /\ \/ Begin(g)
     \/ \E e \in Events : StageEvent(g, e)
     \/ \E r \in Rollups : StageRollup(g, r)
     \/ StageProviders(g)
     \/ Commit(g)

Next ==
  \/ \E g \in Gens : StartUpload(g)
  \/ Proceed \/ CommitAcknowledged \/ SaveBaseline
  \/ Refused \/ Abandon \/ ForgetBaseline
  \/ LoseReply
  \/ \E g \in Gens : Handle(g)
  \/ Purge

Spec == Init /\ [][Next]_vars

(* The server answers the request a client waits for, and the client acts  *)
(* on an answer it keeps getting: axum handlers run to completion and      *)
(* post_json_with_retry resends.  Giving up, crashes, losses, late         *)
(* deliveries, rebuilds and purges are never owed.                         *)
HandlePending == pending # None /\ Handle(pending.gen) /\ reply' # "none"

Fairness ==
  /\ WF_vars(HandlePending)
  /\ SF_vars(Proceed) /\ SF_vars(CommitAcknowledged) /\ SF_vars(Refused)
  /\ WF_vars(SaveBaseline)

LiveSpec == Spec /\ Fairness

-----------------------------------------------------------------------------
(* Every table, request and plan is well formed: what the server makes of  *)
(* staged mutations is rows again.                                         *)
TypeOK ==
  /\ events \in EventRows /\ rollups \in RollupRows /\ catalog \subseteq Providers
  /\ status \in [Gens -> {"absent", "open", "committed"}]
  /\ stagedEv \in [Gens -> EventMutations]
  /\ stagedRo \in [Gens -> RollupMutations]
  /\ stagedProv \in [Gens -> SUBSET Providers]
  /\ net \subseteq Request
  /\ plan \in [Gens -> Plans \cup {NoPlan}]
  /\ cur \in Gens \cup {None}
  /\ pending \in Request \cup {None}
  /\ reply \in {"none", "ok", "conflict"}
  /\ baseInit \in BOOLEAN /\ baseEv \in EventRows /\ baseRo \in RollupRows
  /\ faithful \in BOOLEAN
  /\ purges \in 0..MaxPurges

(* A committed generation carried a rollup of the row's day while the      *)
(* ledger held the row: commit deletes the row, the baseline keeps it.     *)
Withheld(e, val) ==
  \E g \in Gens :
    /\ status[g] = "committed"
    /\ plan[g].curEv[e] = val
    /\ Covered(val, plan[g].ro)

(* The server has the rows of a snapshot, less those it withholds.         *)
Shows(ev, ro) ==
  /\ rollups = ro
  /\ \A e \in Events :
       \/ events[e] = ev[e]
       \/ events[e] = None /\ ev[e] # None /\ Withheld(e, ev[e])

(* The hash diff is exact.  Unless a commit went unacknowledged, was       *)
(* delivered after its upload was given up, or the rows were purged, the   *)
(* server's rows are the baseline's rows, or, from the commit on, the      *)
(* snapshot being uploaded: none is stale, none is left over, and a row is *)
(* missing only for a rollup of its day (sync_v2.rs:470-544).  What the    *)
(* commit's own rollups cover is not there in detail.  A committed full    *)
(* replacement re-establishes this after any disturbance.                  *)
MirrorExact ==
  faithful =>
    IF cur # None /\ status[cur] = "committed"
    THEN /\ Shows(plan[cur].curEv, plan[cur].curRo)
         /\ \A e \in Events : events[e] # None => ~Covered(events[e], plan[cur].ro)
    ELSE baseInit => Shows(baseEv, baseRo)

(* A late or repeated batch never lands in a generation that is sealed or  *)
(* was purged: rows are staged for open generations only.                  *)
StagedOnlyWhileOpen ==
  \A g \in Gens : status[g] # "open" =>
    /\ stagedEv[g] = NoEventMutations
    /\ stagedRo[g] = NoRollupMutations
    /\ stagedProv[g] = {}

(* A client about to write its baseline has had its generation committed,  *)
(* whatever was lost, repeated or resumed on the way; only a purge can     *)
(* have removed the record since.                                          *)
BaselineFollowsCommit ==
  cur # None /\ pending = None => status[cur] = "committed" \/ purges > 0

(* The node's visible rows move only by whole planned generations, each    *)
(* applied at most once between purges, whatever the network does.         *)
Replica == INSTANCE NodeReplica WITH
             applied <- {g \in Gens : status[g] = "committed"}
ImplementsReplica == Replica!Spec

(* Every upload comes to an end, saved, refused or given up: no order of   *)
(* losses and repeats leaves the client waiting on a request the server    *)
(* will not answer.                                                        *)
UploadSettles == \A g \in Gens : (cur = g) ~> (cur # g)

(* What README.md:146 promises of a retry after a crash: when the commit   *)
(* of a diff is acknowledged the server holds the uploaded snapshot,       *)
(* whatever became of the uploads before it.  It is asked without purges   *)
(* and without late deliveries.                                            *)
RetryIsExact ==
  cur # None /\ pending = None /\ ~plan[cur].replaceAll /\ purges = 0 =>
    events = plan[cur].curEv /\ rollups = plan[cur].curRo

-----------------------------------------------------------------------------
(* The inductive strengthening the proofs use.                             *)

(* Requests exist only for planned generations, a generation exists on the *)
(* server only after a request, and the client waits on its own upload.    *)
Ownership ==
  /\ \A q \in net : plan[q.gen] # NoPlan
  /\ \A g \in Gens : plan[g] = NoPlan => status[g] = "absent"
  /\ cur = None => pending = None
  /\ cur # None => plan[cur] # NoPlan
  /\ pending # None => pending.gen = cur /\ pending \in net

(* A plan upserts rollups of its snapshot only, and a full plan is the     *)
(* diff against no rows at all.                                            *)
PlansSound ==
  \A g \in Gens : plan[g] # NoPlan =>
    /\ \A r \in Rollups : plan[g].ro[r] \in {Keep, Delete, plan[g].curRo[r]}
    /\ plan[g].replaceAll =>
         /\ plan[g].ev = EventDiff(TRUE, NoEvents, plan[g].curEv)
         /\ plan[g].ro = RollupDiff(TRUE, NoRollups, plan[g].curRo)

Acknowledged ==
  /\ cur # None
  /\ \/ pending = None
     \/ pending.kind = "commit" /\ reply = "ok"

AcknowledgedCommit ==
  Acknowledged => status[cur] = "committed" \/ (purges > 0 /\ ~faithful)

(* While nothing disturbed the chain, the diff being uploaded is a diff    *)
(* against what the server shows.                                          *)
DiffCurrent ==
  faithful /\ cur # None /\ status[cur] # "committed" /\ ~plan[cur].replaceAll =>
    /\ plan[cur].ro = RollupDiff(FALSE, rollups, plan[cur].curRo)
    /\ \E base \in EventRows :
         /\ Shows(base, rollups)
         /\ plan[cur].ev = EventDiff(FALSE, base, plan[cur].curEv)

SyncInv ==
  /\ TypeOK /\ Ownership /\ PlansSound /\ AcknowledgedCommit /\ DiffCurrent
  /\ MirrorExact
=============================================================================
