---------------------------- MODULE ServerStart ----------------------------
(***************************************************************************)
(* The start of the telemetry server: init_db (telemetry-server/src/       *)
(* lib.rs) opens a database that any earlier version may have written,     *)
(* creates what is missing, rebuilds the tables of protocol v2, gives the  *)
(* rows of servers that knew nodes only by name a node record              *)
(* (nodes.rs), and prepares the caches.  Every statement or transaction    *)
(* is a step, and the process may stop between any two of them.            *)
(*                                                                         *)
(* A usage row keeps, instead of its columns, the machine that wrote it    *)
(* (src), which no code reads: the properties compare it with the node     *)
(* the row is listed under.  An event id is a tuple of the parts it is     *)
(* formatted from, tagged with the format.                                 *)
(***************************************************************************)
EXTENDS Integers, FiniteSets, Functions

CONSTANTS
  Legacy,    \* node names that older servers used as node_id
  Uuids,     \* uuids of node records
  Apps, Requests,
  Absent,    \* no node record under a uuid
  MaxStops, MaxUploads, MaxEdits  \* bounds on stops, uploads, node edits

ASSUME NameAssumption == Legacy \cap Uuids = {}
ASSUME AbsentAssumption == Absent \notin [name : Legacy \cup Uuids, origin : Legacy \cup Uuids]
ASSUME BoundAssumption == MaxStops \in Nat /\ MaxUploads \in Nat /\ MaxEdits \in Nat

Names == Legacy \cup Uuids     \* an administrator may type any of them
NodeIds == Names

FirstTables == {"usage_events", "usage_daily_snapshots"}
Tables == FirstTables \cup {"sync_generations", "staged_event_mutations"}

(* The hash in usage_events, and the bounds of the day in                  *)
(* usage_daily_snapshots, whose form is otherwise the same in all versions.*)
BaseColumns == {"content_hash", "day_bounds"}
TierColumns == {"service_tier"}

VARIABLES
  shape,     \* the form of each table: "none", "v2" or "v3"
  columns,   \* the added columns present
  rows,      \* usage_events
  rollups,   \* usage_daily_snapshots
  nodes,     \* the nodes table, and the name each record was inserted with
  gens,      \* nodes with a row in sync_generations
  staged,    \* nodes whose generation has staged mutations
  parts,     \* node ids with their hours in usage_cache_partitions
  pc,        \* the next step of init_db, "up", "down" or "failed"
  wrote,     \* every request ever stored, by the machine that wrote it
  stops, uploads, edits

db == <<shape, columns, rows, rollups, nodes, gens, staged, parts>>
vars == <<db, pc, wrote, stops, uploads, edits>>

V3Id(n, a, q) == <<"v3", n, a, q>>
V2Id(n, q) == <<"v2", n, q>>
EventIds == {V3Id(n, a, q) : n \in NodeIds, a \in Apps, q \in Requests}
              \cup {V2Id(n, q) : n \in NodeIds, q \in Requests}

Row == [node : NodeIds, app : Apps, req : Requests, src : Names, id : EventIds]
\* snapshot_key is the node id followed by the rest of the key
Rollup == [node : NodeIds, keyNode : NodeIds, rest : Apps]
NodeRecord == [name : Names, origin : Names]

Known == {u \in Uuids : nodes[u] # Absent}
Machine(r) == [src |-> r.src, app |-> r.app, req |-> r.req]

-----------------------------------------------------------------------------
(* The databases a start may find.                                         *)

NoNodes == [u \in Uuids |-> Absent]

V2Row(n, a, q) == [node |-> n, app |-> a, req |-> q, src |-> n, id |-> V2Id(n, q)]
V3Row(n, a, q, m) == [node |-> n, app |-> a, req |-> q, src |-> m, id |-> V3Id(n, a, q)]

(* UNIQUE(node_id, request_id) of the tables before protocol v3. *)
V2Details(ids) ==
  {d \in SUBSET {V2Row(n, a, q) : n \in ids, a \in Apps, q \in Requests} :
     \A r, s \in d : r.node = s.node /\ r.req = s.req => r = s}

RollupsOf(ids) == {[node |-> n, keyNode |-> n, rest |-> a] : n \in ids, a \in Apps}

(* No database yet. *)
EmptyDatabase ==
  /\ shape = [t \in Tables |-> "none"]
  /\ columns = {} /\ rows = {} /\ rollups = {} /\ nodes = NoNodes
  /\ gens = {} /\ staged = {}

(* Written by a server that had no nodes table and no generations, and no  *)
(* daily rollups (daily = "none") or some, with or without their bounds.   *)
NamedNodesDatabase ==
  /\ \E daily \in {"none", "v3"} :
       /\ shape = [t \in Tables |-> IF t = "usage_events" THEN "v2"
                                    ELSE IF t = "usage_daily_snapshots" THEN daily ELSE "none"]
       /\ columns \in SUBSET (IF daily = "none" THEN {"content_hash"} ELSE BaseColumns)
       /\ rows \in V2Details(Legacy)
       /\ rollups = IF daily = "none" THEN {} ELSE RollupsOf({r.node : r \in rows})
  /\ nodes = NoNodes
  /\ gens = {} /\ staged = {}

(* Written by a server of protocol v2; the generations carry a source_kind. *)
V2Database ==
  /\ shape = [t \in Tables |-> IF t = "usage_daily_snapshots" THEN "v3" ELSE "v2"]
  /\ columns = BaseColumns
  /\ \E u \in Uuids, n \in Names :
       /\ nodes = [NoNodes EXCEPT ![u] = [name |-> n, origin |-> u]]
       /\ rows \in V2Details({u})
       /\ rollups = RollupsOf({r.node : r \in rows})
       /\ gens \in SUBSET {u}
       /\ staged \in SUBSET gens

Init ==
  /\ EmptyDatabase \/ NamedNodesDatabase \/ V2Database
  /\ parts = {}
  /\ pc = "down"
  /\ wrote = {Machine(r) : r \in rows}
  /\ stops = 0 /\ uploads = 0 /\ edits = 0

-----------------------------------------------------------------------------
(* init_db                                                                 *)

Goto(step) == pc' = step /\ UNCHANGED <<wrote, stops, uploads, edits>>

(* A start, also after one that failed. *)
Open == pc \in {"down", "failed"} /\ Goto("tables") /\ UNCHANGED db

(* The batch of init_db, in which each statement stands by itself: CREATE  *)
(* TABLE IF NOT EXISTS for detail and daily rollups ...                    *)
ColumnsOf(t) ==
  {c \in BaseColumns : \/ t = "usage_events" /\ c = "content_hash"
                       \/ t = "usage_daily_snapshots" /\ c = "day_bounds"}

CreateTable(t) ==
  /\ \/ pc = "tables" /\ t \in FirstTables
     \/ pc = "staging" /\ t \notin FirstTables
  /\ shape[t] = "none"
  /\ shape' = [shape EXCEPT ![t] = "v3"]
  /\ columns' = columns \cup ColumnsOf(t)
  /\ Goto(pc)
  /\ UNCHANGED <<rows, rollups, nodes, gens, staged, parts>>

(* ... then the index of the daily rollups on their bounds, which a table  *)
(* of an older server may lack until EnsureBaseColumns: the statement, and *)
(* with it the start, fails ...                                            *)
IndexDayBounds ==
  /\ pc = "index"
  /\ Goto(IF "day_bounds" \in columns THEN "staging" ELSE "failed")
  /\ UNCHANGED db

(* ... and then the tables of the generations. *)
TablesDone ==
  /\ \/ pc = "tables" /\ (\A t \in FirstTables : shape[t] # "none") /\ Goto("index")
     \/ pc = "staging" /\ (\A t \in Tables : shape[t] # "none") /\ Goto("columns")
  /\ UNCHANGED db

AddColumn(wanted, c) ==
  /\ c \in wanted \ columns
  /\ columns' = columns \cup {c}
  /\ Goto(pc)
  /\ UNCHANGED <<shape, rows, rollups, nodes, gens, staged, parts>>

ColumnsDone(wanted, next) ==
  /\ wanted \subseteq columns
  /\ Goto(next)
  /\ UNCHANGED db

EnsureBaseColumns ==
  /\ pc = "columns"
  /\ (\E c \in BaseColumns : AddColumn(BaseColumns, c)) \/ ColumnsDone(BaseColumns, "migrate")

EnsureTierColumns ==
  /\ pc = "tiers"
  /\ (\E c \in TierColumns : AddColumn(TierColumns, c)) \/ ColumnsDone(TierColumns, "nodes")

UsageIsV3 == shape["usage_events"] = "v3"
GenerationsAreV3 == shape["sync_generations"] = "v3"
StagedEventsAreV3 == shape["staged_event_mutations"] = "v3"

(* The transaction of migrate_v3_schema: usage_events is rebuilt with the  *)
(* identity of v3 and without the tier columns, the generation tables are  *)
(* dropped and created anew.                                               *)
RebuildUsage ==
  IF UsageIsV3
    THEN UNCHANGED <<rows, columns>>
    ELSE /\ rows' = {[r EXCEPT !.id = V3Id(r.node, r.app, r.req)] : r \in rows}
         /\ columns' = columns \ TierColumns

(* Mutant: the staging tables of v2 are left behind. *)
MutantKeepStaged ==
  IF GenerationsAreV3 /\ StagedEventsAreV3 THEN UNCHANGED <<gens, staged>>
  ELSE gens' = {} /\ UNCHANGED staged

(* Mutant: any start creates the generation tables anew. *)
MutantDropGenerations == gens' = {} /\ staged' = {}

RebuildGenerations ==
  IF GenerationsAreV3 /\ StagedEventsAreV3
    THEN UNCHANGED <<gens, staged>>
    ELSE gens' = {} /\ staged' = {}

MigrateV3Schema ==
  /\ pc = "migrate"
  /\ RebuildUsage
  /\ RebuildGenerations
  /\ shape' = [t \in Tables |-> "v3"]
  /\ Goto("tiers")
  /\ UNCHANGED <<rollups, nodes, parts>>

(* nodes::ensure_schema: every node_id that is no uuid of a record gets    *)
(* the record of that name, or a new one under a fresh uuid.               *)
LegacyValues == {r.node : r \in rows} \cup {s.node : s \in rollups}

Named(v) == {u \in Known : nodes[u].name = v}

Unrecorded == {v \in LegacyValues : v \notin Known /\ Named(v) = {}}

(* Mutant: one uuid is generated for all values of a start. *)
MutantSharedUuid == [Unrecorded -> Uuids \ Known]

Assignments ==
  {f \in [Unrecorded -> Uuids \ Known] : \A v, w \in Unrecorded : f[v] = f[w] => v = w}

Target(f, v) ==
  IF v \in Known THEN v
  ELSE IF Named(v) # {} THEN CHOOSE u \in Named(v) : TRUE
  ELSE f[v]

MoveRow(f, r) ==
  LET u == Target(f, r.node)
  IN IF u = r.node THEN r ELSE [r EXCEPT !.node = u, !.id = V2Id(u, r.req)]

(* Mutant: the key of a moved rollup stays. *)
MutantKeepKey(f, s) == [s EXCEPT !.node = Target(f, s.node)]

MoveRollup(f, s) ==
  LET u == Target(f, s.node)
  IN IF u = s.node THEN s ELSE [s EXCEPT !.node = u, !.keyNode = u]

Recorded(f) ==
  [u \in Uuids |->
     IF u \in Range(f)
       THEN LET v == CHOOSE w \in Unrecorded : f[w] = u IN [name |-> v, origin |-> v]
       ELSE nodes[u]]

(* The PRIMARY KEY and the UNIQUE constraint of usage_events, and the      *)
(* PRIMARY KEY of usage_daily_snapshots; the moved rows stay as many.      *)
Stored(detail, daily) ==
  /\ \A r, s \in detail : r.id = s.id \/ (r.node = s.node /\ r.app = s.app /\ r.req = s.req) => r = s
  /\ \A r, s \in daily : r.keyNode = s.keyNode /\ r.rest = s.rest => r = s

MigrateNodes ==
  /\ pc = "nodes"
  /\ \E f \in Assignments :
       LET detail == {MoveRow(f, r) : r \in rows}
           daily == {MoveRollup(f, s) : s \in rollups}
       IN IF Stored(detail, daily)
            THEN /\ rows' = detail
                 /\ rollups' = daily
                 /\ nodes' = Recorded(f)
                 /\ Goto("caches")
            ELSE /\ UNCHANGED <<rows, rollups, nodes>>
                 /\ Goto("failed")
  /\ UNCHANGED <<shape, columns, gens, staged, parts>>

(* The quota tables and the caches; every hour with detail gets a          *)
(* partition unless it has one.                                            *)
PrepareCaches ==
  /\ pc = "caches"
  /\ parts' = parts \cup {r.node : r \in rows}
  /\ Goto("up")
  /\ UNCHANGED <<shape, columns, rows, rollups, nodes, gens, staged>>

Start ==
  \/ Open
  \/ \E t \in Tables : CreateTable(t)
  \/ IndexDayBounds
  \/ TablesDone
  \/ EnsureBaseColumns
  \/ MigrateV3Schema
  \/ EnsureTierColumns
  \/ MigrateNodes
  \/ PrepareCaches

(* The process stops, by a crash or an orderly end, between two statements. *)
Stop ==
  /\ pc \notin {"down", "failed"}
  /\ stops < MaxStops
  /\ pc' = "down"
  /\ stops' = stops + 1
  /\ UNCHANGED <<db, wrote, uploads, edits>>

-----------------------------------------------------------------------------
(* The server at work, as far as it writes what the next start reads.      *)

UploadsGoOn == pc = "up" /\ uploads < MaxUploads /\ uploads' = uploads + 1

(* Mutant: the upsert conflicts on the event id. *)
MutantById(u, a, q) ==
  LET m == nodes[u].origin
  IN /\ UploadsGoOn
     /\ rows' = {r \in rows : r.id # V3Id(u, a, q)} \cup {V3Row(u, a, q, m)}
     /\ wrote' = wrote \cup {[src |-> m, app |-> a, req |-> q]}
     /\ parts' = parts \cup {u}
     /\ UNCHANGED <<shape, columns, rollups, nodes, gens, staged, pc, stops, edits>>

(* A commit replaces the row of the request and marks its hour. *)
UploadEvent(u, a, q) ==
  LET m == nodes[u].origin
  IN /\ UploadsGoOn
     /\ rows' = {r \in rows : ~(r.node = u /\ r.app = a /\ r.req = q)} \cup {V3Row(u, a, q, m)}
     /\ wrote' = wrote \cup {[src |-> m, app |-> a, req |-> q]}
     /\ parts' = parts \cup {u}
     /\ UNCHANGED <<shape, columns, rollups, nodes, gens, staged, pc, stops, edits>>

UploadRollup(u, a) ==
  /\ UploadsGoOn
  /\ rollups' = {s \in rollups : ~(s.keyNode = u /\ s.rest = a)}
                  \cup {[node |-> u, keyNode |-> u, rest |-> a]}
  /\ UNCHANGED <<shape, columns, rows, nodes, gens, staged, parts, pc, wrote, stops, edits>>

(* A client opens a generation and stages into it. *)
BeginGeneration(u) ==
  /\ UploadsGoOn
  /\ gens' = gens \cup {u} /\ staged' = staged \cup {u}
  /\ UNCHANGED <<shape, columns, rows, rollups, nodes, parts, pc, wrote, stops, edits>>

NameIsFree(n, u) == \A k \in Known \ {u} : nodes[k].name # n

(* nodes::create and nodes::rename under the unique index on node_name. *)
NameNode(u, n) ==
  /\ pc = "up" /\ edits < MaxEdits
  /\ NameIsFree(n, u)
  /\ nodes' = [nodes EXCEPT ![u] =
                 IF @ = Absent THEN [name |-> n, origin |-> u] ELSE [@ EXCEPT !.name = n]]
  /\ edits' = edits + 1
  /\ UNCHANGED <<shape, columns, rows, rollups, gens, staged, parts, pc, wrote, stops, uploads>>

Work ==
  \/ \E u \in Known :
       \/ \E a \in Apps, q \in Requests : UploadEvent(u, a, q)
       \/ \E a \in Apps : UploadRollup(u, a)
       \/ BeginGeneration(u)
  \/ \E u \in Uuids, n \in Names : NameNode(u, n)

Next == Start \/ Stop \/ Work

Spec == Init /\ [][Next]_vars

-----------------------------------------------------------------------------
TypeOK ==
  /\ shape \in [Tables -> {"none", "v2", "v3"}]
  /\ columns \subseteq BaseColumns \cup TierColumns
  /\ rows \subseteq Row /\ rollups \subseteq Rollup
  /\ nodes \in [Uuids -> NodeRecord \cup {Absent}]
  /\ gens \subseteq Uuids /\ staged \subseteq gens /\ parts \subseteq NodeIds
  /\ pc \in {"down", "tables", "index", "staging", "columns", "migrate", "tiers", "nodes", "caches", "up", "failed"}
  /\ wrote \subseteq [src : Names, app : Apps, req : Requests]
  /\ stops \in 0 .. MaxStops /\ uploads \in 0 .. MaxUploads /\ edits \in 0 .. MaxEdits

(* Before nodes::ensure_schema: there is no record, the rows are under the *)
(* names of machines and unique as the older tables had them.              *)
ByName ==
  /\ Known = {}
  /\ \A r \in rows : r.node \in Legacy /\ r.src = r.node
  /\ \A r, s \in rows : r.node = s.node /\ r.req = s.req => r = s
  /\ \A s \in rollups : s.node \in Legacy /\ s.keyNode = s.node

(* A start fails on one kind of database only, whatever older version      *)
(* wrote it and wherever earlier starts stopped: daily rollups without the *)
(* bounds of their days.  Such a start has moved nothing yet, so that the  *)
(* older server can still read the database.  On every other database no   *)
(* step runs into a constraint (nodes::ensure_schema would otherwise fail  *)
(* on every start), and the server comes up.                               *)
StartSucceeds ==
  pc = "failed" => "day_bounds" \notin columns /\ ByName

(* A migration loses no request and counts none twice: at any point of any *)
(* start, each request ever stored is there, in one row.                   *)
HistoryKept ==
  /\ {Machine(r) : r \in rows} = wrote
  /\ \A r, s \in rows : Machine(r) = Machine(s) => r = s

(* Once the server is up, each row is listed under the node that was made  *)
(* for the machine that wrote it, whatever names nodes were given since    *)
(* (the histories of two machines never merge), with its hours among the   *)
(* partitions the worker rebuilds; and the key of every daily rollup is    *)
(* the one its next upload will use, so that the upload replaces it and is *)
(* not counted beside it.                                                  *)
HistoryListed ==
  pc = "up" =>
    /\ \A r \in rows : r.node \in Known /\ nodes[r.node].origin = r.src /\ r.node \in parts
    /\ \A s \in rollups : s.node \in Known /\ s.keyNode = s.node
    /\ \A s, t \in rollups : s.node = t.node /\ s.rest = t.rest => s = t

(* A database that is migrated already is left alone by every later start: *)
(* detail, rollups, nodes and, above all, the open generations that        *)
(* clients will go on uploading into.                                      *)
Migrated ==
  /\ shape = [t \in Tables |-> "v3"]
  /\ \A v \in LegacyValues : v \in Known
LeftAlone ==
  [][Migrated /\ Start => UNCHANGED <<rows, rollups, nodes, gens, staged>>]_vars

-----------------------------------------------------------------------------
(* What the proofs carry from step to step.                                *)

(* The constraints of the two tables, with the request that a row stands   *)
(* for in place of its node; an id has one of the two formats.             *)
RowsDistinct ==
  \A r, s \in rows :
    r.id = s.id \/ Machine(r) = Machine(s)
      \/ (r.node = s.node /\ r.app = s.app /\ r.req = s.req) => r = s
IdsFormatted ==
  \A r \in rows : r.id \in {V3Id(r.node, r.app, r.req), V2Id(r.node, r.req)}
RollupsDistinct ==
  \A s, t \in rollups : s.keyNode = t.keyNode /\ s.rest = t.rest => s = t

(* After nodes::ensure_schema. *)
ByUuid ==
  /\ \A r \in rows : r.node \in Known /\ nodes[r.node].origin = r.src
  /\ \A s \in rollups : s.node \in Known /\ s.keyNode = s.node

(* No two records are for one machine. *)
OriginsDistinct ==
  /\ \A u \in Known : nodes[u].origin \in Legacy \cup {u}
  /\ \A u, w \in Known : nodes[u].origin = nodes[w].origin => u = w

StartInv ==
  /\ TypeOK
  /\ RowsDistinct /\ IdsFormatted /\ RollupsDistinct /\ OriginsDistinct
  /\ ByName \/ ByUuid
  /\ pc \in {"caches", "up"} => ByUuid
  /\ pc = "up" => \A r \in rows : r.node \in parts
  /\ wrote = {Machine(r) : r \in rows}

(* A database without the day bounds gets nowhere near the migrations.     *)
BoundsFirst ==
  /\ "day_bounds" \notin columns => ByName
  /\ pc \in {"staging", "columns", "migrate", "tiers", "nodes", "caches", "up"} =>
       "day_bounds" \in columns

=============================================================================
