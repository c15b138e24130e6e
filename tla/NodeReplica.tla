---------------------------- MODULE NodeReplica ----------------------------
(***************************************************************************)
(* What the generation protocol promises for the rows of one node, without *)
(* requests, staging or a network: the visible rows move only by applying  *)
(* one offered generation, whole and exactly as its client planned it, and *)
(* no generation is applied twice unless the request history was purged in *)
(* between.                                                                *)
(***************************************************************************)
EXTENDS UsageData

CONSTANTS Gens, NoPlan

VARIABLES
  events, rollups, catalog,  \* the node's visible rows
  plan,                      \* what each generation's client planned
  applied                    \* the generations applied since the last purge

replicaVars == <<events, rollups, catalog, plan, applied>>

Plans ==
  [replaceAll : BOOLEAN, ev : EventMutations, ro : RollupMutations,
   prov : SUBSET Providers, curEv : EventRows, curRo : RollupRows]

Init ==
  /\ events = NoEvents
  /\ rollups = NoRollups
  /\ catalog = {}
  /\ plan = [g \in Gens |-> NoPlan]
  /\ applied = {}

Offer(g) ==
  /\ plan[g] = NoPlan
  /\ plan'[g] \in Plans
  /\ plan' = [plan EXCEPT ![g] = plan'[g]]
  /\ UNCHANGED <<events, rollups, catalog, applied>>

Apply(g) ==
  /\ plan[g] # NoPlan
  /\ g \notin applied
  /\ LET p == plan[g]
     IN  /\ events' = EventsAfter(p.replaceAll, p.ev, p.ro, events)
         /\ rollups' = RollupsAfter(p.replaceAll, p.ro, rollups)
         /\ catalog' = p.prov
  /\ applied' = applied \cup {g}
  /\ UNCHANGED plan

Purge ==
  /\ events' = NoEvents
  /\ rollups' = NoRollups
  /\ applied' = {}
  /\ UNCHANGED <<catalog, plan>>

Next ==
  \/ \E g \in Gens : Offer(g) \/ Apply(g)
  \/ Purge

Spec == Init /\ [][Next]_replicaVars
=============================================================================
