----------------------------- MODULE UsageData -----------------------------
(***************************************************************************)
(* The data one node exchanges with the central store, and the pure        *)
(* operators both sides apply to it: the hash diff the client computes     *)
(* against its upload baseline, and the effect of a committed generation   *)
(* on the node's rows.                                                     *)
(*                                                                         *)
(* A row is a key mapped to a content (what content_hash identifies) or to *)
(* None.  The content of an event fixes the day it falls on; the key of a  *)
(* rollup names its source-local day.                                      *)
(***************************************************************************)
CONSTANTS
  Events,      \* (app_type, request_id) keys of one node
  Vals,        \* event contents
  Rollups,     \* snapshot keys of one node
  RollupVals,  \* rollup contents
  Providers,   \* provider catalog entries
  Days,        \* source-local days
  EventDay,    \* the day an event content's created_at falls on
  RollupDay,   \* the day [day_start_utc, day_end_utc) of a snapshot key
  None, Keep, Delete

ASSUME DayAssumption ==
  /\ EventDay \in [Vals -> Days]
  /\ RollupDay \in [Rollups -> Days]

ASSUME MarkAssumption ==
  /\ None \notin Vals \cup RollupVals
  /\ Keep \notin Vals \cup RollupVals
  /\ Delete \notin Vals \cup RollupVals
  /\ None # Keep /\ None # Delete /\ Keep # Delete

EventRows == [Events -> Vals \cup {None}]
RollupRows == [Rollups -> RollupVals \cup {None}]

NoEvents == [e \in Events |-> None]
NoRollups == [r \in Rollups |-> None]

(* What one generation does to each key: Keep when it carries no mutation. *)
EventMutations == [Events -> Vals \cup {Keep, Delete}]
RollupMutations == [Rollups -> RollupVals \cup {Keep, Delete}]

NoEventMutations == [e \in Events |-> Keep]
NoRollupMutations == [r \in Rollups |-> Keep]

(* Mutant: a diff that never sends deletes.                                *)
UpsertOnlyMutation(full, base, current) ==
  IF current # None /\ (full \/ base # current) THEN current ELSE Keep

(* The mutation of one key: every current row is an upsert of a full       *)
(* upload; a diff skips the rows whose hash is in the baseline and deletes *)
(* the rows only the baseline has.                                         *)
Mutation(full, base, current) ==
  IF current # None
  THEN IF ~full /\ base = current THEN Keep ELSE current
  ELSE IF ~full /\ base # None THEN Delete ELSE Keep

EventDiff(full, base, current) ==
  [e \in Events |-> Mutation(full, base[e], current[e])]

RollupDiff(full, base, current) ==
  [r \in Rollups |-> Mutation(full, base[r], current[r])]

(* Mutant: commit stores a delete mutation as if it were an upsert.        *)
DeleteStored(mutation, row) == IF mutation = Keep THEN row ELSE mutation

(* The row a mutation leaves behind. *)
Mutated(mutation, row) ==
  IF mutation = Keep THEN row
  ELSE IF mutation = Delete THEN None ELSE mutation

(* Applying an upserted rollup deletes the node's detail of that day. *)
Covered(val, ro) ==
  \E r \in Rollups : ro[r] \notin {Keep, Delete} /\ RollupDay[r] = EventDay[val]

(* Mutant: commit applies the rollups before the events.                   *)
RollupsFirst(full, ev, ro, rows) ==
  LET row(e) == IF full THEN None ELSE rows[e]
  IN  [e \in Events |->
        Mutated(ev[e], IF row(e) # None /\ Covered(row(e), ro) THEN None ELSE row(e))]

(* Event mutations first, then rollup mutations, as commit orders them. *)
EventsAfter(full, ev, ro, rows) ==
  LET kept(e) == Mutated(ev[e], IF full THEN None ELSE rows[e])
  IN  [e \in Events |->
        IF kept(e) # None /\ Covered(kept(e), ro) THEN None ELSE kept(e)]

RollupsAfter(full, ro, rows) ==
  [r \in Rollups |-> Mutated(ro[r], IF full THEN None ELSE rows[r])]
=============================================================================
