------------------------- MODULE ServerAdminProofs -------------------------
(***************************************************************************)
(* First the start of the server, for any number of machines, nodes, tools *)
(* and requests, and wherever it is stopped: it succeeds, it keeps every   *)
(* request in one row under the node of its machine, and it leaves a       *)
(* migrated database alone.                                                *)
(*                                                                         *)
(* Then the running server, for any number of handlers, tokens, sessions   *)
(* and nodes: what a client stores is under its own node, what has ended   *)
(* lets nobody in, and whatever administrators and clients do between two  *)
(* starts, no history is lost or merged.  The settings file is always one  *)
(* that a start can read and that a save wrote, wherever a save fails or   *)
(* the server stops.  The inductions are on StartInv, AdminInv and         *)
(* ServerInv.                                                              *)
(***************************************************************************)
EXTENDS ServerAdmin, SequenceTheorems, WellFoundedInduction, TLAPS

-----------------------------------------------------------------------------
(* The start alone: ServerStart.                                           *)

USE NameAssumption, AbsentAssumption, BoundAssumption

LEMMA NoRecords ==
  ASSUME nodes = NoNodes
  PROVE  Known = {}
BY DEF Known, NoNodes

LEMMA KnownRecords ==
  ASSUME TypeOK
  PROVE  /\ Known \subseteq Uuids
         /\ \A u \in Known : nodes[u] \in NodeRecord
BY DEF TypeOK, Known

LEMMA MachineType ==
  ASSUME rows \subseteq Row
  PROVE  {Machine(r) : r \in rows} \subseteq [src : Names, app : Apps, req : Requests]
BY DEF Row, Machine

(* A database that only names machines satisfies the constraints.          *)
LEMMA NamedRows ==
  ASSUME NEW ids \in SUBSET NodeIds, NEW d \in V2Details(ids)
  PROVE  /\ d \subseteq Row
         /\ \A r \in d : r.node \in ids /\ r.src = r.node /\ r.id = V2Id(r.node, r.req)
         /\ \A r, s \in d : r.node = s.node /\ r.req = s.req => r = s
         /\ \A r, s \in d : r.id = s.id => r = s
<1>1. \A r \in d : /\ r.node \in ids /\ r.src = r.node /\ r.id = V2Id(r.node, r.req)
                   /\ r \in Row
  <2>1. SUFFICES ASSUME NEW r \in d
                 PROVE  /\ r.node \in ids /\ r.src = r.node /\ r.id = V2Id(r.node, r.req)
                        /\ r \in Row
    OBVIOUS
  <2>2. PICK n \in ids, a \in Apps, q \in Requests : r = V2Row(n, a, q)
    BY <2>1 DEF V2Details
  <2>3. V2Id(n, q) \in EventIds
    BY <2>2 DEF EventIds
  <2>4. QED
    BY <2>2, <2>3 DEF V2Row, Row, NodeIds, Names
<1>2. \A r, s \in d : r.node = s.node /\ r.req = s.req => r = s
  BY DEF V2Details
<1>3. QED
  BY <1>1, <1>2 DEF V2Id

LEMMA NamedRollups ==
  ASSUME NEW ids \in SUBSET NodeIds
  PROVE  /\ RollupsOf(ids) \subseteq Rollup
         /\ \A s \in RollupsOf(ids) : s.node \in ids /\ s.keyNode = s.node
         /\ \A s, t \in RollupsOf(ids) : s.keyNode = t.keyNode /\ s.rest = t.rest => s = t
BY DEF RollupsOf, Rollup

LEMMA InitInv ==
  ASSUME Init
  PROVE  StartInv
<1>1. /\ pc = "down" /\ parts = {} /\ wrote = {Machine(r) : r \in rows}
      /\ stops \in 0 .. MaxStops /\ uploads \in 0 .. MaxUploads /\ edits \in 0 .. MaxEdits
  BY DEF Init
<1>2. ASSUME NEW ids \in SUBSET NodeIds, rows \in V2Details(ids),
             rollups = {} \/ rollups = RollupsOf({r.node : r \in rows})
      PROVE  /\ RowsDistinct /\ IdsFormatted /\ RollupsDistinct
             /\ rows \subseteq Row /\ rollups \subseteq Rollup
             /\ \A r \in rows : r.node \in ids /\ r.src = r.node
             /\ \A r, s \in rows : r.node = s.node /\ r.req = s.req => r = s
             /\ \A s \in rollups : s.node \in ids /\ s.keyNode = s.node
  <2>1. /\ rows \subseteq Row
        /\ \A r \in rows : r.node \in ids /\ r.src = r.node /\ r.id = V2Id(r.node, r.req)
        /\ \A r, s \in rows : r.node = s.node /\ r.req = s.req => r = s
        /\ \A r, s \in rows : r.id = s.id => r = s
    BY <1>2, NamedRows
  <2>2. {r.node : r \in rows} \in SUBSET NodeIds
    BY <2>1 DEF Row
  <2>3. /\ rollups \subseteq Rollup
        /\ \A s \in rollups : s.node \in {r.node : r \in rows} /\ s.keyNode = s.node
        /\ \A s, t \in rollups : s.keyNode = t.keyNode /\ s.rest = t.rest => s = t
    BY <1>2, <2>2, NamedRollups
  <2>4. RowsDistinct
    BY <2>1 DEF RowsDistinct, Machine
  <2>5. QED
    BY <2>1, <2>3, <2>4 DEF IdsFormatted, RollupsDistinct
<1>3. CASE EmptyDatabase
  <2>1. Known = {} /\ nodes \in [Uuids -> NodeRecord \cup {Absent}]
    BY <1>3, NoRecords DEF EmptyDatabase, NoNodes
  <2>2. TypeOK
    BY <1>1, <1>3, <2>1 DEF EmptyDatabase, TypeOK
  <2>3. RowsDistinct /\ IdsFormatted /\ RollupsDistinct /\ OriginsDistinct /\ ByName
    BY <1>3, <2>1 DEF EmptyDatabase, RowsDistinct, IdsFormatted, RollupsDistinct, OriginsDistinct, ByName
  <2>4. QED
    BY <1>1, <2>2, <2>3 DEF StartInv
<1>4. CASE NamedNodesDatabase
  <2>1. Known = {} /\ nodes \in [Uuids -> NodeRecord \cup {Absent}]
    BY <1>4, NoRecords DEF NamedNodesDatabase, NoNodes
  <2>2. Legacy \in SUBSET NodeIds
    BY DEF NodeIds, Names
  <2>0. /\ rows \in V2Details(Legacy) /\ gens = {} /\ staged = {}
        /\ rollups = {} \/ rollups = RollupsOf({r.node : r \in rows})
        /\ shape \in [Tables -> {"none", "v2", "v3"}] /\ columns \subseteq BaseColumns
    BY <1>4 DEF NamedNodesDatabase, BaseColumns
  <2>3. /\ RowsDistinct /\ IdsFormatted /\ RollupsDistinct
        /\ rows \subseteq Row /\ rollups \subseteq Rollup
        /\ \A r \in rows : r.node \in Legacy /\ r.src = r.node
        /\ \A r, s \in rows : r.node = s.node /\ r.req = s.req => r = s
        /\ \A s \in rollups : s.node \in Legacy /\ s.keyNode = s.node
    BY <1>2, <2>0, <2>2
  <2>4. TypeOK
    BY <1>1, <2>0, <2>1, <2>3, MachineType DEF TypeOK
  <2>5. OriginsDistinct /\ ByName
    BY <2>1, <2>3 DEF OriginsDistinct, ByName
  <2>6. QED
    BY <1>1, <2>3, <2>4, <2>5 DEF StartInv
<1>5. CASE V2Database
  <2>1. PICK u \in Uuids, n \in Names :
          /\ nodes = [NoNodes EXCEPT ![u] = [name |-> n, origin |-> u]]
          /\ rows \in V2Details({u})
          /\ rollups = RollupsOf({r.node : r \in rows})
          /\ gens \in SUBSET {u}
          /\ staged \in SUBSET gens
    BY <1>5 DEF V2Database
  <2>2. [name |-> n, origin |-> u] \in NodeRecord /\ [name |-> n, origin |-> u] # Absent
    BY DEF NodeRecord, Names
  <2>3. /\ nodes \in [Uuids -> NodeRecord \cup {Absent}]
        /\ Known = {u} /\ nodes[u].origin = u
    <3>1. nodes = [w \in Uuids |-> IF w = u THEN [name |-> n, origin |-> u] ELSE Absent]
      BY <2>1 DEF NoNodes
    <3>2. QED
      BY <2>2, <3>1 DEF Known
  <2>4. {u} \in SUBSET NodeIds
    BY DEF NodeIds, Names
  <2>5. /\ RowsDistinct /\ IdsFormatted /\ RollupsDistinct
        /\ rows \subseteq Row /\ rollups \subseteq Rollup
        /\ \A r \in rows : r.node \in {u} /\ r.src = r.node
        /\ \A s \in rollups : s.node \in {u} /\ s.keyNode = s.node
    BY <1>2, <2>1, <2>4
  <2>6. TypeOK
    BY <1>1, <1>5, <2>1, <2>3, <2>5, MachineType DEF V2Database, TypeOK
  <2>7. OriginsDistinct /\ ByUuid
    BY <2>3, <2>5 DEF OriginsDistinct, ByUuid
  <2>8. QED
    BY <1>1, <2>5, <2>6, <2>7 DEF StartInv
<1>6. QED
  BY <1>3, <1>4, <1>5 DEF Init

-----------------------------------------------------------------------------
(* Steps that leave the rows, the rollups and the nodes alone.             *)

LEMMA SameData ==
  ASSUME StartInv, TypeOK', UNCHANGED <<rows, rollups, nodes, wrote>>,
         pc' \in {"caches", "up"} => ByUuid,
         pc' = "up" => \A r \in rows : r.node \in parts'
  PROVE  StartInv'
<1>1. Known' = Known
  BY DEF Known
<1>2. /\ RowsDistinct' /\ IdsFormatted' /\ RollupsDistinct'
      /\ wrote' = {Machine(r) : r \in rows'}
  BY DEF StartInv, RowsDistinct, IdsFormatted, RollupsDistinct
<1>3. OriginsDistinct' /\ (ByName \/ ByUuid)' /\ (ByUuid => ByUuid')
  BY <1>1 DEF StartInv, OriginsDistinct, ByName, ByUuid
<1>4. QED
  BY <1>2, <1>3 DEF StartInv

LEMMA SchemaInv ==
  ASSUME StartInv,
         \/ Open \/ (\E t \in Tables : CreateTable(t)) \/ IndexDayBounds \/ TablesDone
         \/ EnsureBaseColumns \/ EnsureTierColumns
  PROVE  StartInv'
<1>1. /\ UNCHANGED <<rows, rollups, nodes, gens, staged, parts, wrote, stops, uploads, edits>>
      /\ pc' \in {"tables", "index", "staging", "columns", "migrate", "tiers", "nodes", "failed"}
      /\ shape' \in [Tables -> {"none", "v2", "v3"}]
      /\ columns' \subseteq BaseColumns \cup TierColumns
  BY DEF StartInv, TypeOK, Open, CreateTable, ColumnsOf, IndexDayBounds, TablesDone,
         EnsureBaseColumns, EnsureTierColumns, AddColumn, ColumnsDone, Goto, db
<1>2. TypeOK'
  BY <1>1 DEF StartInv, TypeOK
<1>3. QED
  BY <1>1, <1>2, SameData

LEMMA PrepareInv ==
  ASSUME StartInv, PrepareCaches
  PROVE  StartInv'
<1>1. /\ ByUuid /\ pc' = "up" /\ parts' = parts \cup {r.node : r \in rows}
      /\ UNCHANGED <<shape, columns, rows, rollups, nodes, gens, staged, wrote, stops, uploads, edits>>
  BY DEF StartInv, PrepareCaches, Goto
<1>2. TypeOK'
  BY <1>1 DEF StartInv, TypeOK, Row
<1>3. QED
  BY <1>1, <1>2, SameData

LEMMA StopInv ==
  ASSUME StartInv, Stop
  PROVE  StartInv'
<1>1. /\ pc' = "down" /\ stops < MaxStops /\ stops' = stops + 1
      /\ UNCHANGED <<shape, columns, rows, rollups, nodes, gens, staged, parts, wrote, uploads, edits>>
  BY DEF Stop, db
<1>2. TypeOK'
  BY <1>1 DEF StartInv, TypeOK
<1>3. QED
  BY <1>1, <1>2, SameData

LEMMA BeginInv ==
  ASSUME StartInv, NEW u \in Known, BeginGeneration(u)
  PROVE  StartInv'
<1>1. /\ pc = "up" /\ pc' = "up" /\ uploads < MaxUploads /\ uploads' = uploads + 1
      /\ gens' = gens \cup {u} /\ staged' = staged \cup {u}
      /\ UNCHANGED <<shape, columns, rows, rollups, nodes, parts, wrote, stops, edits>>
  BY DEF BeginGeneration, UploadsGoOn
<1>2. TypeOK'
  BY <1>1, KnownRecords DEF StartInv, TypeOK
<1>3. QED
  BY <1>1, <1>2, SameData DEF StartInv

LEMMA StutterInv ==
  ASSUME StartInv, UNCHANGED vars
  PROVE  StartInv'
<1>1. UNCHANGED <<shape, columns, rows, rollups, nodes, gens, staged, parts, pc, wrote, stops, uploads, edits>>
  BY DEF vars, db
<1>2. TypeOK'
  BY <1>1 DEF StartInv, TypeOK
<1>3. QED
  BY <1>1, <1>2, SameData DEF StartInv

-----------------------------------------------------------------------------
(* migrate_v3_schema: the new ids are as distinct as the identities.       *)

LEMMA RebuiltRows ==
  ASSUME StartInv, rows' = {[r EXCEPT !.id = V3Id(r.node, r.app, r.req)] : r \in rows},
         UNCHANGED nodes
  PROVE  /\ rows' \subseteq Row
         /\ RowsDistinct' /\ IdsFormatted'
         /\ {Machine(r) : r \in rows'} = {Machine(r) : r \in rows}
         /\ \A r \in rows' : \E o \in rows :
              r.node = o.node /\ r.app = o.app /\ r.req = o.req /\ r.src = o.src
         /\ (\A r, s \in rows : r.node = s.node /\ r.req = s.req => r = s)
              => \A r, s \in rows' : r.node = s.node /\ r.req = s.req => r = s
<1> DEFINE New(r) == [r EXCEPT !.id = V3Id(r.node, r.app, r.req)]
<1>1. \A r \in rows :
        /\ New(r) \in Row
        /\ New(r).node = r.node /\ New(r).app = r.app /\ New(r).req = r.req /\ New(r).src = r.src
        /\ New(r).id = V3Id(r.node, r.app, r.req)
        /\ Machine(New(r)) = Machine(r)
  <2>1. SUFFICES ASSUME NEW r \in rows
                 PROVE  /\ New(r) \in Row
                        /\ New(r).node = r.node /\ New(r).app = r.app
                        /\ New(r).req = r.req /\ New(r).src = r.src
                        /\ New(r).id = V3Id(r.node, r.app, r.req)
                        /\ Machine(New(r)) = Machine(r)
    OBVIOUS
  <2>2. r \in Row
    BY DEF StartInv, TypeOK
  <2>3. V3Id(r.node, r.app, r.req) \in EventIds
    BY <2>2 DEF Row, EventIds
  <2>4. QED
    BY <2>2, <2>3 DEF Row, Machine
<1> HIDE DEF New
<1>2. rows' = {New(r) : r \in rows}
  BY DEF New
<1>3. \A r \in rows' : \E o \in rows : r = New(o)
  BY <1>2
<1>4. ASSUME NEW r \in rows, NEW s \in rows,
             \/ New(r).id = New(s).id \/ Machine(New(r)) = Machine(New(s))
             \/ (New(r).node = New(s).node /\ New(r).app = New(s).app /\ New(r).req = New(s).req)
      PROVE  r = s
  BY <1>1, <1>4 DEF StartInv, RowsDistinct, V3Id
<1>5. RowsDistinct'
  <2>1. \A r, s \in rows' :
          r.id = s.id \/ Machine(r) = Machine(s)
            \/ (r.node = s.node /\ r.app = s.app /\ r.req = s.req) => r = s
    BY <1>3, <1>4
  <2>2. QED
    BY <2>1 DEF RowsDistinct, Machine
<1>6. IdsFormatted'
  <2>1. \A r \in rows' : r.id = V3Id(r.node, r.app, r.req)
    BY <1>1, <1>3
  <2>2. QED
    BY <2>1 DEF IdsFormatted, V2Id, V3Id
<1>7. {Machine(r) : r \in rows'} = {Machine(r) : r \in rows}
  BY <1>1, <1>2
<1>8. \A r, s \in rows : r.node = s.node /\ r.req = s.req <=> New(r).node = New(s).node /\ New(r).req = New(s).req
  BY <1>1
<1>9. QED
  BY <1>1, <1>2, <1>3, <1>5, <1>6, <1>7, <1>8

LEMMA MigrateSchemaInv ==
  ASSUME StartInv, MigrateV3Schema
  PROVE  StartInv'
<1>1. /\ UNCHANGED <<rollups, nodes, parts, wrote, stops, uploads, edits>>
      /\ pc' = "tiers" /\ shape' = [t \in Tables |-> "v3"]
      /\ columns' \subseteq BaseColumns \cup TierColumns
      /\ gens' \subseteq Uuids /\ staged' \subseteq gens'
  BY DEF StartInv, TypeOK, MigrateV3Schema, Goto, RebuildUsage, RebuildGenerations
<1>2. CASE UNCHANGED rows
  <2>1. TypeOK'
    BY <1>1, <1>2 DEF StartInv, TypeOK
  <2>2. QED
    BY <1>1, <1>2, <2>1, SameData
<1>3. CASE rows' = {[r EXCEPT !.id = V3Id(r.node, r.app, r.req)] : r \in rows}
  <2>1. Known' = Known
    BY <1>1 DEF Known
  <2>2. /\ rows' \subseteq Row
        /\ RowsDistinct' /\ IdsFormatted'
        /\ {Machine(r) : r \in rows'} = {Machine(r) : r \in rows}
        /\ \A r \in rows' : \E o \in rows :
             r.node = o.node /\ r.app = o.app /\ r.req = o.req /\ r.src = o.src
        /\ (\A r, s \in rows : r.node = s.node /\ r.req = s.req => r = s)
             => \A r, s \in rows' : r.node = s.node /\ r.req = s.req => r = s
    BY <1>1, <1>3, RebuiltRows
  <2>3. TypeOK'
    BY <1>1, <2>2 DEF StartInv, TypeOK
  <2>4. ByName => ByName'
    BY <1>1, <2>1, <2>2 DEF ByName
  <2>5. ByUuid => ByUuid'
    BY <1>1, <2>1, <2>2 DEF ByUuid
  <2>6. RollupsDistinct' /\ OriginsDistinct'
    BY <1>1, <2>1 DEF StartInv, RollupsDistinct, OriginsDistinct
  <2>7. wrote' = {Machine(r) : r \in rows'}
    BY <1>1, <2>2 DEF StartInv
  <2>8. QED
    BY <1>1, <2>2, <2>3, <2>4, <2>5, <2>6, <2>7 DEF StartInv, Machine
<1>4. QED
  BY <1>2, <1>3 DEF MigrateV3Schema, RebuildUsage

-----------------------------------------------------------------------------
(* nodes::ensure_schema.                                                   *)

(* Nothing is left to do once every row is under a record.                 *)
LEMMA NothingToMove ==
  ASSUME TypeOK, LegacyValues \subseteq Known, NEW f \in Assignments
  PROVE  /\ {MoveRow(f, r) : r \in rows} = rows
         /\ {MoveRollup(f, s) : s \in rollups} = rollups
         /\ Recorded(f) = nodes
<1>1. \A v \in LegacyValues : Target(f, v) = v
  BY DEF Target
<1>2. \A r \in rows : MoveRow(f, r) = r
  BY <1>1 DEF MoveRow, LegacyValues
<1>3. \A s \in rollups : MoveRollup(f, s) = s
  BY <1>1 DEF MoveRollup, LegacyValues
<1>4. Recorded(f) = nodes
  <2>1. Unrecorded = {}
    BY DEF Unrecorded
  <2>2. DOMAIN f = {}
    BY <2>1 DEF Assignments
  <2>3. Range(f) = {}
    BY <2>2 DEF Range
  <2>4. QED
    BY <2>3 DEF Recorded, TypeOK
<1>5. QED
  BY <1>2, <1>3, <1>4

(* Each name gets a record of its own.                                     *)
LEMMA NamesRecorded ==
  ASSUME StartInv, ByName, NEW f \in Assignments
  PROVE  /\ Unrecorded = LegacyValues /\ LegacyValues \subseteq Legacy
         /\ \A v \in LegacyValues : Target(f, v) = f[v] /\ f[v] \in Uuids /\ f[v] # v
         /\ \A v, w \in LegacyValues : f[v] = f[w] => v = w
         /\ Recorded(f) \in [Uuids -> NodeRecord \cup {Absent}]
         /\ \A v \in LegacyValues : Recorded(f)[f[v]] = [name |-> v, origin |-> v]
         /\ \A u \in Uuids : Recorded(f)[u] # Absent <=> \E v \in LegacyValues : u = f[v]
<1>1. LegacyValues \subseteq Legacy
  BY DEF ByName, LegacyValues
<1>2. \A v \in Names : Named(v) = {}
  BY DEF ByName, Named
<1>3. Unrecorded = LegacyValues
  BY <1>1, <1>2 DEF Unrecorded, ByName, Names
<1>4. \A v \in LegacyValues : Target(f, v) = f[v] /\ f[v] \in Uuids /\ f[v] # v
  BY <1>1, <1>2, <1>3 DEF Target, Assignments, ByName, Names
<1>5. \A v, w \in LegacyValues : f[v] = f[w] => v = w
  BY <1>3 DEF Assignments
<1>6. Range(f) = {f[v] : v \in LegacyValues}
  BY <1>3 DEF Range, Assignments
<1>7. \A v \in LegacyValues : (CHOOSE w \in Unrecorded : f[w] = f[v]) = v
  BY <1>3, <1>5
<1>8. \A v \in LegacyValues : Recorded(f)[f[v]] = [name |-> v, origin |-> v]
  BY <1>4, <1>6, <1>7 DEF Recorded
<1>9. \A v \in LegacyValues : /\ [name |-> v, origin |-> v] \in NodeRecord
                              /\ [name |-> v, origin |-> v] # Absent
  BY <1>1 DEF NodeRecord, Names
<1>10. \A u \in Uuids : u \notin Range(f) => Recorded(f)[u] = Absent
  BY DEF Recorded, ByName, Known
<1>11. ASSUME NEW u \in Uuids
       PROVE  /\ Recorded(f)[u] \in NodeRecord \cup {Absent}
              /\ Recorded(f)[u] # Absent <=> \E v \in LegacyValues : u = f[v]
  <2>1. CASE u \notin Range(f)
    BY <1>6, <1>10, <2>1
  <2>2. CASE u \in Range(f)
    <3>1. PICK v \in LegacyValues : u = f[v]
      BY <1>6, <2>2
    <3>2. Recorded(f)[u] \in NodeRecord /\ Recorded(f)[u] # Absent
      BY <1>8, <1>9, <3>1
    <3>3. QED
      BY <3>1, <3>2
  <2>3. QED
    BY <2>1, <2>2
<1>12. Recorded(f) \in [Uuids -> NodeRecord \cup {Absent}]
  <2>1. Recorded(f) = [u \in Uuids |-> Recorded(f)[u]]
    BY DEF Recorded
  <2>2. QED
    BY <1>11, <2>1
<1>13. QED
  BY <1>1, <1>3, <1>4, <1>5, <1>8, <1>11, <1>12

(* The rows and rollups moved from names to records are as distinct as     *)
(* they were: no constraint stands in their way.                           *)
(* The records there are after it. *)
RecordedIds(f) == {u \in Uuids : Recorded(f)[u] # Absent}

LEMMA MovedRows ==
  ASSUME StartInv, ByName, NEW f \in Assignments,
         NEW detail, detail = {MoveRow(f, r) : r \in rows}
  PROVE  /\ detail \subseteq Row
         /\ \A r, s \in detail :
              r.id = s.id \/ Machine(r) = Machine(s)
                \/ (r.node = s.node /\ r.app = s.app /\ r.req = s.req) => r = s
         /\ \A r \in detail : r.id = V2Id(r.node, r.req)
         /\ {Machine(r) : r \in detail} = {Machine(r) : r \in rows}
         /\ \A r \in detail : r.node \in RecordedIds(f) /\ Recorded(f)[r.node].origin = r.src
<1> DEFINE New(r) == MoveRow(f, r)
<1>0. /\ \A v \in LegacyValues : Target(f, v) = f[v] /\ f[v] \in Uuids /\ f[v] # v
      /\ \A v, w \in LegacyValues : f[v] = f[w] => v = w
      /\ \A v \in LegacyValues : Recorded(f)[f[v]] = [name |-> v, origin |-> v]
      /\ \A u \in Uuids : Recorded(f)[u] # Absent <=> \E v \in LegacyValues : u = f[v]
  BY NamesRecorded
<1>1. ASSUME NEW r \in rows
      PROVE  /\ r.node \in LegacyValues
             /\ New(r) \in Row
             /\ New(r).node = f[r.node] /\ New(r).app = r.app
             /\ New(r).req = r.req /\ New(r).src = r.node
             /\ New(r).id = V2Id(f[r.node], r.req)
             /\ Machine(New(r)) = Machine(r)
             /\ New(r).node \in RecordedIds(f) /\ Recorded(f)[New(r).node].origin = New(r).src
  <2>1. r.node \in LegacyValues /\ r \in Row /\ r.src = r.node
    BY DEF LegacyValues, StartInv, TypeOK, ByName
  <2>2. /\ Target(f, r.node) = f[r.node] /\ f[r.node] \in Uuids /\ f[r.node] # r.node
        /\ Recorded(f)[f[r.node]] = [name |-> r.node, origin |-> r.node]
        /\ Recorded(f)[f[r.node]] # Absent
    BY <1>0, <2>1
  <2>3. New(r) = [r EXCEPT !.node = f[r.node], !.id = V2Id(f[r.node], r.req)]
    BY <2>2 DEF MoveRow
  <2>4. V2Id(f[r.node], r.req) \in EventIds /\ f[r.node] \in NodeIds
    BY <2>1, <2>2 DEF EventIds, Row, NodeIds, Names
  <2>5. /\ New(r) \in Row
        /\ New(r).node = f[r.node] /\ New(r).app = r.app /\ New(r).req = r.req
        /\ New(r).src = r.node /\ New(r).id = V2Id(f[r.node], r.req)
    BY <2>1, <2>3, <2>4 DEF Row
  <2>6. Machine(New(r)) = Machine(r)
    BY <2>1, <2>5 DEF Machine
  <2>7. New(r).node \in RecordedIds(f) /\ Recorded(f)[New(r).node].origin = New(r).src
    BY <2>2, <2>5 DEF RecordedIds
  <2>8. QED
    BY <2>1, <2>5, <2>6, <2>7
<1> HIDE DEF New
<1>2. detail = {New(r) : r \in rows}
  BY DEF New
<1>3. \A r \in detail : \E o \in rows : r = New(o)
  BY <1>2
<1>4. ASSUME NEW r \in rows, NEW s \in rows,
             \/ New(r).id = New(s).id \/ Machine(New(r)) = Machine(New(s))
             \/ (New(r).node = New(s).node /\ New(r).app = New(s).app /\ New(r).req = New(s).req)
      PROVE  r = s
  <2>1. CASE Machine(New(r)) = Machine(New(s))
    BY <1>1, <2>1 DEF StartInv, RowsDistinct
  <2>2. CASE New(r).id = New(s).id
    <3>1. f[r.node] = f[s.node] /\ r.req = s.req
      BY <1>1, <2>2 DEF V2Id
    <3>2. r.node = s.node
      BY <1>0, <1>1, <3>1
    <3>3. QED
      BY <3>1, <3>2 DEF ByName
  <2>3. CASE New(r).node = New(s).node /\ New(r).req = New(s).req
    <3>1. f[r.node] = f[s.node] /\ r.req = s.req
      BY <1>1, <2>3
    <3>2. r.node = s.node
      BY <1>0, <1>1, <3>1
    <3>3. QED
      BY <3>1, <3>2 DEF ByName
  <2>4. QED
    BY <1>4, <2>1, <2>2, <2>3
<1>5. \A r, s \in detail :
        r.id = s.id \/ Machine(r) = Machine(s)
          \/ (r.node = s.node /\ r.app = s.app /\ r.req = s.req) => r = s
  BY <1>3, <1>4
<1>6. \A r \in detail : r.id = V2Id(r.node, r.req)
  BY <1>1, <1>3
<1>7. {Machine(r) : r \in detail} = {Machine(r) : r \in rows}
  <2>1. \A r \in rows : New(r) \in detail /\ Machine(New(r)) = Machine(r)
    BY <1>1, <1>2
  <2>2. \A r \in detail : \E o \in rows : Machine(r) = Machine(o)
    BY <1>3, <2>1
  <2>3. QED
    BY <2>1, <2>2
<1>8. detail \subseteq Row /\ \A r \in detail : r.node \in RecordedIds(f) /\ Recorded(f)[r.node].origin = r.src
  BY <1>1, <1>3
<1>9. QED
  BY <1>5, <1>6, <1>7, <1>8

LEMMA MovedRollups ==
  ASSUME StartInv, ByName, NEW f \in Assignments,
         NEW daily, daily = {MoveRollup(f, s) : s \in rollups}
  PROVE  /\ daily \subseteq Rollup
         /\ \A s, t \in daily : s.keyNode = t.keyNode /\ s.rest = t.rest => s = t
         /\ \A s \in daily : s.node \in RecordedIds(f) /\ s.keyNode = s.node
<1> DEFINE New(s) == MoveRollup(f, s)
<1>0. /\ \A v \in LegacyValues : Target(f, v) = f[v] /\ f[v] \in Uuids /\ f[v] # v
      /\ \A v, w \in LegacyValues : f[v] = f[w] => v = w
      /\ \A u \in Uuids : Recorded(f)[u] # Absent <=> \E v \in LegacyValues : u = f[v]
  BY NamesRecorded
<1>1. ASSUME NEW s \in rollups
      PROVE  /\ s.node \in LegacyValues /\ s.keyNode = s.node
             /\ New(s) \in Rollup
             /\ New(s).node = f[s.node] /\ New(s).keyNode = f[s.node] /\ New(s).rest = s.rest
             /\ New(s).node \in RecordedIds(f)
  <2>1. s.node \in LegacyValues /\ s \in Rollup /\ s.keyNode = s.node
    BY DEF LegacyValues, StartInv, TypeOK, ByName
  <2>2. /\ Target(f, s.node) = f[s.node] /\ f[s.node] \in Uuids /\ f[s.node] # s.node
        /\ Recorded(f)[f[s.node]] # Absent
    BY <1>0, <2>1
  <2>3. New(s) = [s EXCEPT !.node = f[s.node], !.keyNode = f[s.node]]
    BY <2>2 DEF MoveRollup
  <2>4. /\ New(s) \in Rollup
        /\ New(s).node = f[s.node] /\ New(s).keyNode = f[s.node] /\ New(s).rest = s.rest
    BY <2>1, <2>2, <2>3 DEF Rollup, NodeIds, Names
  <2>5. QED
    BY <2>1, <2>2, <2>4 DEF RecordedIds
<1> HIDE DEF New
<1>2. daily = {New(s) : s \in rollups}
  BY DEF New
<1>3. \A s \in daily : \E o \in rollups : s = New(o)
  BY <1>2
<1>4. ASSUME NEW s \in rollups, NEW t \in rollups,
             New(s).keyNode = New(t).keyNode, New(s).rest = New(t).rest
      PROVE  s = t
  <2>1. s.node = t.node /\ s.rest = t.rest
    BY <1>0, <1>1, <1>4
  <2>2. QED
    BY <1>1, <2>1 DEF StartInv, RollupsDistinct
<1>5. \A s, t \in daily : s.keyNode = t.keyNode /\ s.rest = t.rest => s = t
  BY <1>3, <1>4
<1>6. QED
  BY <1>1, <1>3, <1>5

LEMMA MigrateNodesInv ==
  ASSUME StartInv, MigrateNodes
  PROVE  StartInv' /\ pc' = "caches"
<1>1. PICK f \in Assignments :
        LET detail == {MoveRow(f, r) : r \in rows}
            daily == {MoveRollup(f, s) : s \in rollups}
        IN IF Stored(detail, daily)
             THEN /\ rows' = detail /\ rollups' = daily /\ nodes' = Recorded(f)
                  /\ Goto("caches")
             ELSE UNCHANGED <<rows, rollups, nodes>> /\ Goto("failed")
  BY DEF MigrateNodes
<1> DEFINE detail == {MoveRow(f, r) : r \in rows}
           daily == {MoveRollup(f, s) : s \in rollups}
<1>2. /\ UNCHANGED <<shape, columns, gens, staged, parts, wrote, stops, uploads, edits>>
      /\ pc' \in {"caches", "failed"}
  BY <1>1 DEF MigrateNodes, Goto
<1>3. CASE ByUuid
  <2>1. LegacyValues \subseteq Known
    BY <1>3 DEF ByUuid, LegacyValues
  <2>2. detail = rows /\ daily = rollups /\ Recorded(f) = nodes
    BY <2>1, NothingToMove DEF StartInv
  <2>3. Stored(rows, rollups)
    BY DEF StartInv, RowsDistinct, RollupsDistinct, Stored
  <2>4. UNCHANGED <<rows, rollups, nodes>> /\ pc' = "caches"
    BY <1>1, <2>2, <2>3 DEF Goto
  <2>5. TypeOK'
    BY <1>2, <2>4 DEF StartInv, TypeOK
  <2>6. QED
    BY <1>2, <1>3, <2>4, <2>5, SameData
<1>4. CASE ByName
  <2>1. /\ detail \subseteq Row
        /\ \A r, s \in detail :
             r.id = s.id \/ Machine(r) = Machine(s)
               \/ (r.node = s.node /\ r.app = s.app /\ r.req = s.req) => r = s
        /\ \A r \in detail : r.id = V2Id(r.node, r.req)
        /\ {Machine(r) : r \in detail} = {Machine(r) : r \in rows}
        /\ \A r \in detail : r.node \in RecordedIds(f) /\ Recorded(f)[r.node].origin = r.src
    BY <1>4, MovedRows
  <2>2. /\ daily \subseteq Rollup
        /\ \A s, t \in daily : s.keyNode = t.keyNode /\ s.rest = t.rest => s = t
        /\ \A s \in daily : s.node \in RecordedIds(f) /\ s.keyNode = s.node
    BY <1>4, MovedRollups
  <2>3. ASSUME rows' = detail, rollups' = daily, nodes' = Recorded(f), pc' = "caches"
        PROVE  StartInv'
    <3>1. /\ rows' \subseteq Row
          /\ \A r \in rows' : r.node \in Known' /\ nodes'[r.node].origin = r.src
          /\ rollups' \subseteq Rollup
          /\ \A s \in rollups' : s.node \in Known' /\ s.keyNode = s.node
          /\ {Machine(r) : r \in rows'} = {Machine(r) : r \in rows}
      BY <2>1, <2>2, <2>3 DEF Known, RecordedIds
    <3>2. RowsDistinct' /\ IdsFormatted' /\ RollupsDistinct'
      BY <2>1, <2>2, <2>3 DEF RowsDistinct, IdsFormatted, RollupsDistinct, Machine, V2Id, V3Id
    <3>3. /\ LegacyValues \subseteq Legacy
          /\ nodes' \in [Uuids -> NodeRecord \cup {Absent}]
          /\ \A v \in LegacyValues : nodes'[f[v]] = [name |-> v, origin |-> v]
          /\ \A u \in Uuids : nodes'[u] # Absent <=> \E v \in LegacyValues : u = f[v]
      BY <1>4, <2>3, NamesRecorded
    <3>4. \A u \in Known' : \E v \in LegacyValues : u = f[v] /\ nodes'[u].origin = v
      <4>1. SUFFICES ASSUME NEW u \in Known'
                     PROVE  \E v \in LegacyValues : u = f[v] /\ nodes'[u].origin = v
        OBVIOUS
      <4>2. u \in Uuids /\ nodes'[u] # Absent
        BY <4>1 DEF Known
      <4>3. PICK v \in LegacyValues : u = f[v]
        BY <3>3, <4>2
      <4>4. nodes'[u] = [name |-> v, origin |-> v]
        BY <3>3, <4>3
      <4>5. QED
        BY <4>3, <4>4
    <3>5. OriginsDistinct'
      <4>1. \A u \in Known' : nodes'[u].origin \in Legacy \cup {u}
        BY <3>3, <3>4
      <4>2. \A u, w \in Known' : nodes'[u].origin = nodes'[w].origin => u = w
        BY <3>4
      <4>3. QED
        BY <4>1, <4>2 DEF OriginsDistinct
    <3>6. TypeOK'
      BY <1>2, <2>3, <3>1, <3>3 DEF StartInv, TypeOK
    <3>7. ByUuid'
      BY <3>1 DEF ByUuid
    <3>8. wrote' = {Machine(r) : r \in rows'}
      BY <1>2, <3>1 DEF StartInv
    <3>9. QED
      BY <2>3, <3>1, <3>2, <3>5, <3>6, <3>7, <3>8 DEF StartInv, Machine
  <2>4. Stored(detail, daily)
    BY <2>1, <2>2 DEF Stored
  <2>5. QED
    BY <1>1, <2>3, <2>4 DEF Goto
<1>5. QED
  BY <1>3, <1>4 DEF StartInv

-----------------------------------------------------------------------------
(* The server at work.                                                     *)

LEMMA UploadEventInv ==
  ASSUME StartInv, NEW u \in Known, NEW a \in Apps, NEW q \in Requests, UploadEvent(u, a, q)
  PROVE  StartInv'
<1> DEFINE m == nodes[u].origin
           new == V3Row(u, a, q, m)
           kept == {r \in rows : ~(r.node = u /\ r.app = a /\ r.req = q)}
<1>1. /\ pc = "up" /\ uploads < MaxUploads /\ uploads' = uploads + 1
      /\ rows' = kept \cup {new}
      /\ wrote' = wrote \cup {[src |-> m, app |-> a, req |-> q]}
      /\ parts' = parts \cup {u}
      /\ UNCHANGED <<shape, columns, rollups, nodes, gens, staged, pc, stops, edits>>
  BY DEF UploadEvent, UploadsGoOn
<1>2. ByUuid /\ u \in Uuids /\ m \in Names
  BY <1>1, KnownRecords DEF StartInv, NodeRecord
<1>3. /\ new.node = u /\ new.app = a /\ new.req = q /\ new.src = m /\ new.id = V3Id(u, a, q)
      /\ Machine(new) = [src |-> m, app |-> a, req |-> q]
  BY DEF V3Row, Machine
<1>4. new \in Row
  <2>1. V3Id(u, a, q) \in EventIds /\ u \in NodeIds
    BY <1>2 DEF EventIds, NodeIds, Names
  <2>2. QED
    BY <1>2, <2>1 DEF V3Row, Row
<1>5. ASSUME NEW r \in rows, Machine(r) = Machine(new)
      PROVE  r.node = u /\ r.app = a /\ r.req = q
  <2>1. r.src = m /\ r.app = a /\ r.req = q
    BY <1>3, <1>5 DEF Machine
  <2>2. r.node \in Known /\ nodes[r.node].origin = nodes[u].origin
    BY <1>2, <2>1 DEF ByUuid
  <2>3. QED
    BY <2>1, <2>2 DEF StartInv, OriginsDistinct
<1>6. ASSUME NEW r \in rows, r.id = new.id
      PROVE  r.node = u /\ r.app = a /\ r.req = q
  <2>1. r.id \in {V3Id(r.node, r.app, r.req), V2Id(r.node, r.req)}
    BY DEF StartInv, IdsFormatted
  <2>2. QED
    BY <1>3, <1>6, <2>1 DEF V2Id, V3Id
<1>7. \A r \in kept : r \in rows /\ r.id # new.id /\ Machine(r) # Machine(new)
                        /\ ~(r.node = u /\ r.app = a /\ r.req = q)
  BY <1>5, <1>6
<1>8. \A r \in rows : r \in kept \/ Machine(r) = Machine(new)
  <2>1. SUFFICES ASSUME NEW r \in rows, r.node = u, r.app = a, r.req = q
                 PROVE  Machine(r) = Machine(new)
    OBVIOUS
  <2>2. r.src = m
    BY <1>2, <2>1 DEF ByUuid
  <2>3. QED
    BY <1>3, <2>1, <2>2 DEF Machine
<1> HIDE DEF new, kept
<1>9. RowsDistinct'
  <2>1. ASSUME NEW r \in rows', NEW s \in rows',
               \/ r.id = s.id \/ Machine(r) = Machine(s)
               \/ (r.node = s.node /\ r.app = s.app /\ r.req = s.req)
        PROVE  r = s
    <3>1. CASE r \in kept /\ s \in kept
      BY <1>7, <2>1, <3>1 DEF StartInv, RowsDistinct
    <3>2. CASE r = new \/ s = new
      BY <1>1, <1>3, <1>7, <2>1, <3>2
    <3>3. QED
      BY <1>1, <3>1, <3>2
  <2>2. QED
    BY <2>1 DEF RowsDistinct, Machine
<1>10. IdsFormatted'
  <2>1. \A r \in rows' : r.id \in {V3Id(r.node, r.app, r.req), V2Id(r.node, r.req)}
    BY <1>1, <1>3, <1>7 DEF StartInv, IdsFormatted
  <2>2. QED
    BY <2>1 DEF IdsFormatted, V2Id, V3Id
<1>11. wrote' = {Machine(r) : r \in rows'}
  <2>1. wrote' = {Machine(r) : r \in rows} \cup {Machine(new)}
    BY <1>1, <1>3 DEF StartInv
  <2>2. QED
    BY <1>1, <1>7, <1>8, <2>1
<1>12. TypeOK'
  <2>1. rows' \subseteq Row
    BY <1>1, <1>4, <1>7 DEF StartInv, TypeOK
  <2>2. wrote' \subseteq [src : Names, app : Apps, req : Requests]
    BY <1>1, <1>2 DEF StartInv, TypeOK
  <2>3. parts' \subseteq NodeIds
    BY <1>1, <1>2 DEF StartInv, TypeOK, NodeIds, Names
  <2>4. QED
    BY <1>1, <2>1, <2>2, <2>3 DEF StartInv, TypeOK
<1>13. Known' = Known
  BY <1>1 DEF Known
<1>14. ByUuid' /\ RollupsDistinct' /\ OriginsDistinct' /\ \A r \in rows' : r.node \in parts'
  <2>1. \A r \in rows' : r.node \in Known /\ nodes[r.node].origin = r.src /\ r.node \in parts'
    BY <1>1, <1>2, <1>3, <1>7 DEF StartInv, ByUuid
  <2>2. QED
    BY <1>1, <1>2, <1>13, <2>1 DEF StartInv, ByUuid, RollupsDistinct, OriginsDistinct
<1>15. QED
  BY <1>1, <1>9, <1>10, <1>11, <1>12, <1>14 DEF StartInv, Machine

LEMMA UploadRollupInv ==
  ASSUME StartInv, NEW u \in Known, NEW a \in Apps, UploadRollup(u, a)
  PROVE  StartInv'
<1> DEFINE new == [node |-> u, keyNode |-> u, rest |-> a]
<1>1. /\ pc = "up" /\ uploads < MaxUploads /\ uploads' = uploads + 1
      /\ rollups' = {s \in rollups : ~(s.keyNode = u /\ s.rest = a)} \cup {new}
      /\ UNCHANGED <<shape, columns, rows, nodes, gens, staged, parts, pc, wrote, stops, edits>>
  BY DEF UploadRollup, UploadsGoOn
<1>2. u \in Uuids /\ ByUuid /\ Known' = Known
  BY <1>1, KnownRecords DEF StartInv, Known
<1>3. new \in Rollup
  BY <1>2 DEF Rollup, NodeIds, Names
<1>4. TypeOK'
  BY <1>1, <1>3 DEF StartInv, TypeOK
<1>5. RollupsDistinct'
  BY <1>1 DEF StartInv, RollupsDistinct
<1>6. ByUuid'
  BY <1>1, <1>2 DEF ByUuid
<1>7. /\ RowsDistinct' /\ IdsFormatted' /\ OriginsDistinct'
      /\ wrote' = {Machine(r) : r \in rows'}
  BY <1>1, <1>2 DEF StartInv, RowsDistinct, IdsFormatted, OriginsDistinct
<1>8. QED
  BY <1>1, <1>4, <1>5, <1>6, <1>7 DEF StartInv

LEMMA NameNodeInv ==
  ASSUME StartInv, NEW u \in Uuids, NEW n \in Names, NameNode(u, n)
  PROVE  StartInv'
<1>1. /\ pc = "up" /\ edits < MaxEdits /\ edits' = edits + 1
      /\ nodes' = [nodes EXCEPT ![u] =
                     IF @ = Absent THEN [name |-> n, origin |-> u] ELSE [@ EXCEPT !.name = n]]
      /\ UNCHANGED <<shape, columns, rows, rollups, gens, staged, parts, pc, wrote, stops, uploads>>
  BY DEF NameNode
<1>2. ByUuid /\ nodes \in [Uuids -> NodeRecord \cup {Absent}]
  BY <1>1 DEF StartInv, TypeOK
<1>3. /\ nodes'[u] \in NodeRecord /\ nodes'[u] # Absent
      /\ u \in Known => nodes'[u].origin = nodes[u].origin
      /\ u \notin Known => nodes'[u].origin = u
  <2>1. CASE nodes[u] = Absent
    BY <1>1, <1>2, <2>1 DEF Known, NodeRecord, Names
  <2>2. CASE nodes[u] # Absent
    <3>1. nodes[u] \in NodeRecord /\ nodes'[u] = [nodes[u] EXCEPT !.name = n]
      BY <1>1, <1>2, <2>2
    <3>2. QED
      BY <2>2, <3>1 DEF Known, NodeRecord, Names
  <2>3. QED
    BY <2>1, <2>2
<1>4. /\ \A w \in Uuids \ {u} : nodes'[w] = nodes[w]
      /\ Known' = Known \cup {u}
  BY <1>1, <1>2, <1>3 DEF Known
<1>5. nodes' \in [Uuids -> NodeRecord \cup {Absent}]
  BY <1>1, <1>2, <1>3
<1>6. TypeOK'
  BY <1>1, <1>5 DEF StartInv, TypeOK
<1>7. \A w \in Known : nodes'[w].origin = nodes[w].origin
  BY <1>3, <1>4 DEF Known
<1>8. OriginsDistinct'
  <2>1. \A w \in Known : nodes[w].origin \in Legacy \cup {w}
    BY DEF StartInv, OriginsDistinct
  <2>2. \A v, w \in Known : nodes[v].origin = nodes[w].origin => v = w
    BY DEF StartInv, OriginsDistinct
  <2>3. \A w \in Known' : nodes'[w].origin \in Legacy \cup {w}
    BY <1>3, <1>4, <1>7, <2>1
  <2>4. Known \subseteq Uuids
    BY DEF Known
  <2>5. \A v, w \in Known' : nodes'[v].origin = nodes'[w].origin => v = w
    BY <1>3, <1>4, <1>7, <2>1, <2>2, <2>4
  <2>6. QED
    BY <2>3, <2>5 DEF OriginsDistinct
<1>9. ByUuid'
  BY <1>1, <1>2, <1>4, <1>7 DEF ByUuid
<1>10. /\ RowsDistinct' /\ IdsFormatted' /\ RollupsDistinct'
       /\ wrote' = {Machine(r) : r \in rows'}
  BY <1>1 DEF StartInv, RowsDistinct, IdsFormatted, RollupsDistinct
<1>11. QED
  BY <1>1, <1>6, <1>8, <1>9, <1>10 DEF StartInv

-----------------------------------------------------------------------------

LEMMA NextInv ==
  ASSUME StartInv, [Next]_vars
  PROVE  StartInv'
<1>1. CASE Start
  <2>1. CASE MigrateV3Schema
    BY <2>1, MigrateSchemaInv
  <2>2. CASE MigrateNodes
    BY <2>2, MigrateNodesInv
  <2>3. CASE PrepareCaches
    BY <2>3, PrepareInv
  <2>4. QED
    BY <1>1, <2>1, <2>2, <2>3, SchemaInv DEF Start
<1>2. CASE Stop
  BY <1>2, StopInv
<1>3. CASE Work
  BY <1>3, UploadEventInv, UploadRollupInv, BeginInv, NameNodeInv DEF Work
<1>4. CASE UNCHANGED vars
  BY <1>4, StutterInv
<1>5. QED
  BY <1>1, <1>2, <1>3, <1>4 DEF Next

(* The day bounds are there before anything is moved, so that only the     *)
(* index can end a start, and only in a database where nothing was.        *)
LEMMA NextSucceeds ==
  ASSUME StartInv, BoundsFirst, StartSucceeds, [Next]_vars
  PROVE  BoundsFirst' /\ StartSucceeds'
<1>1. ASSUME UNCHANGED <<rows, rollups, nodes>>
      PROVE  ByName => ByName'
  BY <1>1 DEF ByName, Known
<1>2. CASE Open \/ (\E t \in Tables : CreateTable(t)) \/ TablesDone \/ IndexDayBounds
  <2>1. /\ UNCHANGED <<rows, rollups, nodes>>
        /\ "day_bounds" \in columns => "day_bounds" \in columns'
        /\ "day_bounds" \notin columns' => "day_bounds" \notin columns
    BY <1>2 DEF Open, CreateTable, TablesDone, IndexDayBounds, db
  <2>2. /\ pc' \in {"staging", "columns"} => "day_bounds" \in columns'
        /\ pc' = "failed" => "day_bounds" \notin columns'
        /\ pc' \in {"tables", "index", "staging", "columns", "failed"}
    BY <1>2 DEF Open, CreateTable, TablesDone, IndexDayBounds, Goto, db, BoundsFirst
  <2>3. QED
    BY <1>1, <2>1, <2>2 DEF BoundsFirst, StartSucceeds
<1>3. CASE \/ EnsureBaseColumns \/ MigrateV3Schema \/ EnsureTierColumns \/ MigrateNodes
           \/ PrepareCaches \/ Work
  <2>1. "day_bounds" \in columns
    BY <1>3 DEF BoundsFirst, EnsureBaseColumns, MigrateV3Schema, EnsureTierColumns, MigrateNodes,
      PrepareCaches, Work, UploadEvent, UploadRollup, BeginGeneration, NameNode, UploadsGoOn
  <2>2. CASE EnsureBaseColumns \/ EnsureTierColumns
    <3>1. pc' # "failed" /\ columns \subseteq columns'
      BY <2>2 DEF EnsureBaseColumns, EnsureTierColumns, AddColumn, ColumnsDone, Goto, db
    <3>2. QED
      BY <2>1, <3>1 DEF BoundsFirst, StartSucceeds
  <2>3. CASE MigrateV3Schema
    <3>1. pc' # "failed" /\ "day_bounds" \in columns'
      BY <2>1, <2>3 DEF MigrateV3Schema, RebuildUsage, TierColumns, Goto
    <3>2. QED
      BY <3>1 DEF BoundsFirst, StartSucceeds
  <2>4. CASE MigrateNodes
    <3>1. pc' = "caches" /\ UNCHANGED columns
      BY <2>4, MigrateNodesInv DEF MigrateNodes
    <3>2. QED
      BY <2>1, <3>1 DEF BoundsFirst, StartSucceeds
  <2>5. CASE PrepareCaches \/ Work
    <3>1. pc' = "up" /\ UNCHANGED columns
      BY <2>5 DEF PrepareCaches, Goto, Work, UploadEvent, UploadRollup, BeginGeneration, NameNode,
        UploadsGoOn
    <3>2. QED
      BY <2>1, <3>1 DEF BoundsFirst, StartSucceeds
  <2>6. QED
    BY <1>3, <2>2, <2>3, <2>4, <2>5
<1>4. CASE Stop \/ UNCHANGED vars
  <2>1. /\ UNCHANGED <<columns, rows, rollups, nodes>>
        /\ pc' = "down" \/ pc' = pc
    BY <1>4 DEF Stop, vars, db
  <2>2. QED
    BY <1>1, <2>1 DEF BoundsFirst, StartSucceeds
<1>5. QED
  BY <1>2, <1>3, <1>4 DEF Next, Start

(* Only databases of node names may lack the day bounds.                   *)
LEMMA InitSucceeds ==
  ASSUME Init
  PROVE  BoundsFirst /\ StartSucceeds
<1>1. pc = "down"
  BY DEF Init
<1>2. CASE EmptyDatabase
  BY <1>1, <1>2, NoRecords DEF EmptyDatabase, BoundsFirst, StartSucceeds, ByName
<1>3. CASE NamedNodesDatabase
  <2>1. Legacy \in SUBSET NodeIds /\ rows \in V2Details(Legacy) /\ nodes = NoNodes
    BY <1>3 DEF NamedNodesDatabase, NodeIds, Names
  <2>2. /\ \A r \in rows : r.node \in Legacy /\ r.src = r.node
        /\ \A r, s \in rows : r.node = s.node /\ r.req = s.req => r = s
    BY <2>1, NamedRows
  <2>3. rollups = {} \/ rollups = RollupsOf({r.node : r \in rows})
    BY <1>3 DEF NamedNodesDatabase
  <2>5. \A s \in rollups : s.node \in Legacy /\ s.keyNode = s.node
    BY <2>2, <2>3 DEF RollupsOf
  <2>4. QED
    BY <1>1, <2>1, <2>2, <2>5, NoRecords DEF BoundsFirst, StartSucceeds, ByName
<1>4. CASE V2Database
  BY <1>1, <1>4 DEF V2Database, BaseColumns, BoundsFirst, StartSucceeds
<1>5. QED
  BY <1>2, <1>3, <1>4 DEF Init

LEMMA InvKeepsHistory ==
  ASSUME StartInv
  PROVE  HistoryKept
BY DEF StartInv, HistoryKept, RowsDistinct

LEMMA InvListsHistory ==
  ASSUME StartInv
  PROVE  HistoryListed
<1>1. SUFFICES ASSUME pc = "up"
               PROVE  HistoryListed
  BY DEF HistoryListed
<1>2. ByUuid /\ RollupsDistinct /\ \A r \in rows : r.node \in parts
  BY <1>1 DEF StartInv
<1>3. QED
  BY <1>2 DEF HistoryListed, ByUuid, RollupsDistinct

LEMMA MigratedStays ==
  ASSUME TypeOK, Migrated, Start
  PROVE  UNCHANGED <<rows, rollups, nodes, gens, staged>>
<1>1. CASE MigrateNodes
  <2>1. PICK f \in Assignments :
          \/ /\ rows' = {MoveRow(f, r) : r \in rows}
             /\ rollups' = {MoveRollup(f, s) : s \in rollups}
             /\ nodes' = Recorded(f)
          \/ UNCHANGED <<rows, rollups, nodes>>
    BY <1>1 DEF MigrateNodes
  <2>2. LegacyValues \subseteq Known
    BY DEF Migrated
  <2>3. UNCHANGED <<gens, staged>>
    BY <1>1 DEF MigrateNodes
  <2>4. QED
    BY <2>1, <2>2, <2>3, NothingToMove
<1>2. CASE MigrateV3Schema
  <2>1. UsageIsV3 /\ GenerationsAreV3 /\ StagedEventsAreV3
    BY DEF Migrated, UsageIsV3, GenerationsAreV3, StagedEventsAreV3, Tables, FirstTables
  <2>2. QED
    BY <1>2, <2>1 DEF MigrateV3Schema, RebuildUsage, RebuildGenerations
<1>3. CASE ~MigrateNodes /\ ~MigrateV3Schema
  BY <1>3 DEF Start, Open, CreateTable, IndexDayBounds, TablesDone, EnsureBaseColumns,
    EnsureTierColumns, AddColumn, ColumnsDone, PrepareCaches, db
<1>4. QED
  BY <1>1, <1>2, <1>3

LEMMA SpecInv == Spec => []StartInv
<1>1. Init => StartInv
  BY InitInv
<1>2. StartInv /\ [Next]_vars => StartInv'
  BY NextInv
<1>3. QED
  BY <1>1, <1>2, PTL DEF Spec

(* Every variable keeps its type: in particular, staged mutations belong   *)
(* to generations that exist, also when a stop parts their tables.         *)
THEOREM StartTypes == Spec => []TypeOK
<1>1. StartInv => TypeOK
  BY DEF StartInv
<1>2. QED
  BY <1>1, SpecInv, PTL

(* Whatever older version wrote the database and wherever earlier starts   *)
(* stopped, a start fails only over daily rollups without the bounds of    *)
(* their days, and then before it has moved a row; no constraint of a      *)
(* migration ever stands in the way of the others.                         *)
THEOREM StartsSucceed == Spec => []StartSucceeds
<1>1. Init => BoundsFirst /\ StartSucceeds
  BY InitSucceeds
<1>2. StartInv /\ BoundsFirst /\ StartSucceeds /\ [Next]_vars => BoundsFirst' /\ StartSucceeds'
  BY NextSucceeds
<1>3. QED
  BY <1>1, <1>2, SpecInv, PTL DEF Spec

(* No migration and no upload loses a request or stores one twice.         *)
THEOREM NoHistoryLost == Spec => []HistoryKept
<1>1. StartInv => HistoryKept
  BY InvKeepsHistory
<1>2. QED
  BY <1>1, SpecInv, PTL

(* When the server is up, each row is under the node of its machine and    *)
(* its hours are among those the cache worker rebuilds, and each rollup is *)
(* under the key that its next upload uses.                                *)
THEOREM HistoriesListed == Spec => []HistoryListed
<1>1. StartInv => HistoryListed
  BY InvListsHistory
<1>2. QED
  BY <1>1, SpecInv, PTL

(* A start leaves a migrated database as it is, open generations included. *)
THEOREM MigratedIsLeft == Spec => LeftAlone
<1>1. StartInv /\ [Next]_vars => [Migrated /\ Start => UNCHANGED <<rows, rollups, nodes, gens, staged>>]_vars
  BY MigratedStays DEF StartInv
<1>2. QED
  BY <1>1, SpecInv, PTL DEF Spec, LeftAlone

-----------------------------------------------------------------------------
(* Documents.  The aliases are kept by a recursion on their number; what   *)
(* it does follows from its equation by taking a smallest counterexample.  *)

LEMMA LeastNatural ==
  ASSUME NEW T \in SUBSET Nat, T # {}
  PROVE  \E n \in T : \A m \in T : n <= m
<1> DEFINE less == {p \in Nat \X Nat : p[1] < p[2]}
<1>1. IsWellFoundedOn(less, Nat)
  BY NatLessThanWellFounded DEF OpToRel
<1>2. PICK n \in T : \A m \in T : ~(<<m, n>> \in less)
  <2> HIDE DEF less
  <2> QED BY <1>1, WFMin
<1>3. \A m \in T : n <= m
  <2>1. SUFFICES ASSUME NEW m \in T, m < n PROVE FALSE
    OBVIOUS
  <2>2. <<m, n>> \in less
    BY <2>1
  <2>3. QED
    BY <1>2, <2>2
<1>4. QED
  BY <1>3

KeptUpTo(kept, s, n) ==
  kept[n] = IF n = 0 THEN <<>>
            ELSE IF s[n].blank THEN kept[n - 1] ELSE Append(kept[n - 1], s[n])

LEMMA KeptExists ==
  ASSUME NEW s \in Seq(Alias), NEW m \in 0 .. Len(s)
  PROVE  \E kept \in [0 .. m -> Seq(Alias)] : \A n \in 0 .. m : KeptUpTo(kept, s, n)
<1> DEFINE Bad == {k \in 0 .. Len(s) :
                     ~\E kept \in [0 .. k -> Seq(Alias)] : \A n \in 0 .. k : KeptUpTo(kept, s, n)}
<1>1. Len(s) \in Nat /\ \A n \in 1 .. Len(s) : s[n] \in Alias
  BY LenProperties, ElementOfSeq
<1>2. ASSUME NEW k \in Bad, \A j \in Bad : k <= j
      PROVE  FALSE
  <2>1. CASE k = 0
    <3> DEFINE kept == [n \in 0 .. 0 |-> <<>>]
    <3>1. kept \in [0 .. 0 -> Seq(Alias)]
      BY EmptySeq
    <3>2. \A n \in 0 .. 0 : KeptUpTo(kept, s, n)
      BY DEF KeptUpTo
    <3>3. QED
      BY <2>1, <3>1, <3>2
  <2>2. CASE k # 0
    <3>1. k \in 1 .. Len(s) /\ k - 1 \in 0 .. Len(s)
      BY <1>1, <2>2
    <3>0. k - 1 \notin Bad
      <4> HIDE DEF Bad
      <4> QED BY <1>2, <3>1
    <3>2. PICK before \in [0 .. k - 1 -> Seq(Alias)] : \A n \in 0 .. k - 1 : KeptUpTo(before, s, n)
      BY <3>0, <3>1
    <3> DEFINE last == IF s[k].blank THEN before[k - 1] ELSE Append(before[k - 1], s[k])
               kept == [n \in 0 .. k |-> IF n = k THEN last ELSE before[n]]
    <3>3. k - 1 \in 0 .. k - 1 /\ 0 .. k - 1 = (0 .. k) \ {k}
      BY <3>1
    <3>4. last \in Seq(Alias)
      BY <1>1, <3>1, <3>3, AppendProperties
    <3>5. kept \in [0 .. k -> Seq(Alias)]
      BY <3>3, <3>4
    <3>6. KeptUpTo(kept, s, k)
      BY <2>2, <3>1, <3>3 DEF KeptUpTo
    <3>7. \A n \in 0 .. k - 1 : KeptUpTo(kept, s, n)
      <4>1. SUFFICES ASSUME NEW n \in 0 .. k - 1 PROVE KeptUpTo(kept, s, n)
        OBVIOUS
      <4>2. kept[n] = before[n] /\ (n # 0 => kept[n - 1] = before[n - 1])
        BY <3>1
      <4>3. QED
        BY <3>2, <4>2 DEF KeptUpTo
    <3>8. QED
      BY <3>3, <3>5, <3>6, <3>7
  <2>3. QED
    BY <2>1, <2>2
<1>3. Bad \subseteq Nat
  BY <1>1
<1>4. Bad = {}
  <2> HIDE DEF Bad
  <2> QED BY <1>2, <1>3, LeastNatural
<1>5. QED
  BY <1>4

(* Nothing is kept but the aliases that are not blank, each at most once,  *)
(* and all of them if none is blank.                                       *)
KeptRight(kept, s, n) ==
  /\ kept[n] \in Seq(Alias) /\ Len(kept[n]) \in 0 .. n
  /\ \A i \in 1 .. Len(kept[n]) : ~kept[n][i].blank /\ \E j \in 1 .. n : kept[n][i] = s[j]
  /\ (\A i, j \in 1 .. Len(s) : s[i].of = s[j].of => i = j)
       => \A i, j \in 1 .. Len(kept[n]) : kept[n][i].of = kept[n][j].of => i = j
  /\ (\A i \in 1 .. Len(s) : ~s[i].blank)
       => Len(kept[n]) = n /\ \A i \in 1 .. n : kept[n][i] = s[i]

LEMMA KeptInduction ==
  ASSUME NEW s \in Seq(Alias), NEW kept,
         \A n \in 0 .. Len(s) : KeptUpTo(kept, s, n)
  PROVE  KeptRight(kept, s, Len(s))
<1> DEFINE Bad == {k \in 0 .. Len(s) : ~KeptRight(kept, s, k)}
<1>1. Len(s) \in Nat /\ \A n \in 1 .. Len(s) : s[n] \in Alias
  BY LenProperties, ElementOfSeq
<1>2. ASSUME NEW k \in Bad, \A j \in Bad : k <= j
      PROVE  FALSE
  <2>1. CASE k = 0
    <3>1. kept[0] = <<>> /\ Len(<<>>) = 0 /\ <<>> \in Seq(Alias)
      BY <1>1, EmptySeq DEF KeptUpTo
    <3>2. KeptRight(kept, s, 0)
      BY <3>1 DEF KeptRight
    <3>3. QED
      BY <2>1, <3>2
  <2>2. CASE k # 0
    <3>1. k \in 1 .. Len(s) /\ k - 1 \in 0 .. Len(s)
      BY <1>1, <2>2
    <3>0. k - 1 \notin Bad
      <4> HIDE DEF Bad
      <4> QED BY <1>2, <3>1
    <3> DEFINE was == kept[k - 1]
               is == kept[k]
    <3>2. KeptRight(kept, s, k - 1)
      BY <3>0, <3>1
    <3>3. was \in Seq(Alias) /\ Len(was) \in 0 .. k - 1
      BY <3>1, <3>2 DEF KeptRight
    <3>4. CASE s[k].blank
      <4>1. is = was
        BY <2>2, <3>1, <3>4 DEF KeptUpTo
      <4>2. KeptRight(kept, s, k)
        BY <1>1, <3>1, <3>2, <3>3, <3>4, <4>1 DEF KeptRight
      <4>3. QED
        BY <4>2
    <3>5. CASE ~s[k].blank
      <4>1. is = Append(was, s[k])
        BY <2>2, <3>1, <3>5 DEF KeptUpTo
      <4>2. /\ Len(is) = Len(was) + 1
            /\ \A i \in 1 .. Len(was) : is[i] = was[i]
            /\ is[Len(was) + 1] = s[k]
        BY <1>1, <3>1, <3>3, <4>1, AppendProperties
      <4>3. is \in Seq(Alias) /\ Len(is) \in 0 .. k
        BY <1>1, <3>1, <3>3, <4>1, <4>2, AppendProperties
      <4>4. \A i \in 1 .. Len(is) : ~is[i].blank /\ \E j \in 1 .. k : is[i] = s[j]
        <5>1. SUFFICES ASSUME NEW i \in 1 .. Len(is)
                       PROVE  ~is[i].blank /\ \E j \in 1 .. k : is[i] = s[j]
          OBVIOUS
        <5>2. CASE i = Len(was) + 1
          BY <3>1, <3>5, <4>2, <5>2
        <5>3. CASE i \in 1 .. Len(was)
          <6>1. ~was[i].blank /\ \E j \in 1 .. k - 1 : was[i] = s[j]
            BY <3>2, <5>3 DEF KeptRight
          <6>2. 1 .. k - 1 \subseteq 1 .. k
            BY <3>1
          <6>3. QED
            BY <4>2, <5>3, <6>1, <6>2
        <5>4. QED
          BY <3>3, <4>2, <5>2, <5>3
      <4>5. ASSUME \A i, j \in 1 .. Len(s) : s[i].of = s[j].of => i = j,
                   NEW i \in 1 .. Len(is), NEW j \in 1 .. Len(is), is[i].of = is[j].of
            PROVE  i = j
        <5>1. \A l \in 1 .. Len(was) : \E m \in 1 .. k - 1 : is[l] = s[m]
          BY <3>2, <4>2 DEF KeptRight
        <5>2. \A l \in 1 .. Len(was) : is[l].of # s[k].of
          <6>1. SUFFICES ASSUME NEW l \in 1 .. Len(was), is[l].of = s[k].of PROVE FALSE
            OBVIOUS
          <6>2. PICK m \in 1 .. k - 1 : is[l] = s[m]
            BY <5>1
          <6>3. m \in 1 .. Len(s) /\ m # k
            BY <1>1, <3>1
          <6>4. QED
            BY <3>1, <4>5, <6>1, <6>2, <6>3
        <5>3. \A l, m \in 1 .. Len(was) : is[l].of = is[m].of => l = m
          BY <3>2, <4>2, <4>5 DEF KeptRight
        <5>4. \A l \in 1 .. Len(is) : l \in 1 .. Len(was) \/ l = Len(was) + 1
          BY <3>3, <4>2
        <5>5. QED
          BY <4>2, <4>5, <5>2, <5>3, <5>4
      <4>6. ASSUME \A i \in 1 .. Len(s) : ~s[i].blank
            PROVE  Len(is) = k /\ \A i \in 1 .. k : is[i] = s[i]
        <5>1. Len(was) = k - 1 /\ \A i \in 1 .. k - 1 : was[i] = s[i]
          BY <3>2, <4>6 DEF KeptRight
        <5>2. Len(is) = k /\ is[k] = s[k] /\ \A i \in 1 .. k - 1 : is[i] = s[i]
          <6> HIDE DEF was, is
          <6>1. Len(was) + 1 = k
            BY <3>1, <5>1
          <6>2. QED
            BY <4>2, <5>1, <6>1
        <5>3. \A i \in 1 .. k : i \in 1 .. k - 1 \/ i = k
          BY <3>1
        <5>4. QED
          BY <5>2, <5>3
      <4>7. KeptRight(kept, s, k)
        BY <4>3, <4>4, <4>5, <4>6 DEF KeptRight
      <4>8. QED
        BY <4>7
    <3>6. QED
      BY <3>4, <3>5
  <2>3. QED
    BY <2>1, <2>2
<1>3. Bad \subseteq Nat
  BY <1>1
<1>4. Bad = {}
  <2> HIDE DEF Bad
  <2> QED BY <1>2, <1>3, LeastNatural
<1>5. QED
  BY <1>1, <1>4

LEMMA RetainedRight ==
  ASSUME NEW s \in Seq(Alias)
  PROVE  \E kept : KeptRight(kept, s, Len(s)) /\ Retained(s) = kept[Len(s)]
<1> DEFINE Equation(f) ==
             f = [n \in 0 .. Len(s) |->
                    IF n = 0 THEN <<>>
                    ELSE IF s[n].blank THEN f[n - 1] ELSE Append(f[n - 1], s[n])]
           kept == CHOOSE f : Equation(f)
<1>1. Len(s) \in Nat
  BY LenProperties
<1>2. PICK f \in [0 .. Len(s) -> Seq(Alias)] : \A n \in 0 .. Len(s) : KeptUpTo(f, s, n)
  BY <1>1, KeptExists, Len(s) \in 0 .. Len(s)
<1>3. Equation(f)
  <2> DEFINE g == [n \in 0 .. Len(s) |->
                     IF n = 0 THEN <<>>
                     ELSE IF s[n].blank THEN f[n - 1] ELSE Append(f[n - 1], s[n])]
  <2>1. \A n \in 0 .. Len(s) : f[n] = g[n]
    BY <1>2 DEF KeptUpTo
  <2>2. f = [n \in 0 .. Len(s) |-> f[n]] /\ g = [n \in 0 .. Len(s) |-> g[n]]
    BY <1>2
  <2>3. f = g
    <3> HIDE DEF g
    <3> QED BY <2>1, <2>2
  <2>4. QED
    BY <2>3
<1>4. Equation(kept)
  BY <1>3
<1>5. Retained(s) = kept[Len(s)]
  BY DEF Retained
<1>6. \A n \in 0 .. Len(s) : KeptUpTo(kept, s, n)
  <2> HIDE DEF kept
  <2> QED BY <1>4 DEF KeptUpTo
<1>7. QED
  <2> HIDE DEF kept
  <2> QED BY <1>5, <1>6, KeptInduction
LEMMA RetainedProperties ==
  ASSUME NEW n \in Nat, NEW s \in [1 .. n -> Alias]
  PROVE  /\ \E m \in 0 .. n : Retained(s) \in [1 .. m -> Alias]
         /\ \A i \in DOMAIN Retained(s) : ~Retained(s)[i].blank
         /\ (\A i, j \in 1 .. n : s[i].of = s[j].of => i = j)
              => \A i, j \in DOMAIN Retained(s) : Retained(s)[i].of = Retained(s)[j].of => i = j
         /\ (\A i \in 1 .. n : ~s[i].blank) => Retained(s) = s
<1>1. s \in Seq(Alias) /\ Len(s) = n
  BY SeqDef
<1>2. PICK kept : KeptRight(kept, s, n) /\ Retained(s) = kept[n]
  BY <1>1, RetainedRight
<1> DEFINE r == kept[n]
<1>3. /\ r \in Seq(Alias) /\ Len(r) \in 0 .. n
      /\ r \in [1 .. Len(r) -> Alias] /\ DOMAIN r = 1 .. Len(r)
  BY <1>2, LenProperties DEF KeptRight
<1>4. (\A i \in 1 .. n : ~s[i].blank) => r = s
  <2>1. SUFFICES ASSUME \A i \in 1 .. n : ~s[i].blank
                 PROVE  r = s
    OBVIOUS
  <2>2. Len(r) = Len(s) /\ \A i \in 1 .. Len(r) : r[i] = s[i]
    BY <1>1, <1>2, <2>1 DEF KeptRight
  <2>3. QED
    BY <1>1, <1>3, <2>2, SeqEqual
<1>5. QED
  BY <1>1, <1>2, <1>3, <1>4 DEF KeptRight

LEMMA DocumentType ==
  ASSUME NEW d \in Document(2)
  PROVE  /\ d = [multipliers |-> d.multipliers, aliases |-> d.aliases]
         /\ \E n \in 0 .. 2 : d.multipliers \in [1 .. n -> Multiplier]
         /\ \E n \in 0 .. 2 : d.aliases \in [1 .. n -> Alias]
BY DEF Document

LEMMA MultiplierNormal ==
  ASSUME NEW e \in Multiplier
  PROVE  /\ NormalMultiplier(e) \in Multiplier
         /\ NormalMultiplier(e).model = e.model /\ NormalMultiplier(e).priced = e.priced
         /\ NormalMultiplier(NormalMultiplier(e)) = NormalMultiplier(e)
BY DEF Multiplier, NormalMultiplier

(* What admin_put and a start make of a document.                          *)
LEMMA NormalizeType ==
  ASSUME NEW d \in Document(2)
  PROVE  Normalize(d) \in Document(2)
<1>1. PICK n \in 0 .. 2 : d.multipliers \in [1 .. n -> Multiplier]
  BY DocumentType
<1>2. PICK k \in 0 .. 2 : d.aliases \in [1 .. k -> Alias]
  BY DocumentType
<1>3. PICK m \in 0 .. k : Retained(d.aliases) \in [1 .. m -> Alias]
  BY <1>2, RetainedProperties
<1>4. Normalize(d).multipliers \in [1 .. n -> Multiplier]
  BY <1>1, MultiplierNormal DEF Normalize
<1>5. m \in 0 .. 2
  BY <1>2, <1>3
<1>6. QED
  BY <1>3, <1>4, <1>5 DEF Normalize, Document

LEMMA NormalizeSettles ==
  ASSUME NEW d \in Document(2), Acceptable(d)
  PROVE  Settled(Normalize(d))
<1>1. PICK n \in 0 .. 2 : d.multipliers \in [1 .. n -> Multiplier]
  BY DocumentType
<1>2. PICK k \in 0 .. 2 : d.aliases \in [1 .. k -> Alias]
  BY DocumentType
<1> DEFINE list == [i \in 1 .. n |-> NormalMultiplier(d.multipliers[i])]
           kept == Retained(d.aliases)
<1>3. Normalize(d) = [multipliers |-> list, aliases |-> kept]
  BY <1>1 DEF Normalize
<1>4. list \in [1 .. n -> Multiplier]
      /\ \A i \in 1 .. n : /\ list[i].model = d.multipliers[i].model
                           /\ list[i].priced = d.multipliers[i].priced
                           /\ NormalMultiplier(list[i]) = list[i]
  BY <1>1, MultiplierNormal
<1>5. PICK m \in 0 .. k : kept \in [1 .. m -> Alias]
  BY <1>2, RetainedProperties
<1>6. \A i, j \in 1 .. k : d.aliases[i].of = d.aliases[j].of => i = j
  BY <1>2 DEF Acceptable
<1>7. /\ \A i \in 1 .. m : ~kept[i].blank
      /\ \A i, j \in 1 .. m : kept[i].of = kept[j].of => i = j
  <2> HIDE DEF kept
  <2>1. DOMAIN kept = 1 .. m
    BY <1>5
  <2>2. QED
    BY <1>2, <1>6, <2>1, RetainedProperties DEF kept
<1>8. Retained(kept) = kept
  <2> HIDE DEF kept
  <2> QED BY <1>5, <1>7, RetainedProperties
<1>9. Normalize(Normalize(d)) = Normalize(d)
  <2>1. [i \in DOMAIN list |-> NormalMultiplier(list[i])] = list
    BY <1>4
  <2>2. QED
    BY <1>3, <1>8, <2>1 DEF Normalize
<1>10. Acceptable(Normalize(d))
  <2>1. \A i \in 1 .. n :
          /\ list[i].priced \in {NoPrice, list[i].model}
          /\ \A j \in 1 .. n : list[i].model = list[j].model => i = j
    BY <1>1, <1>4 DEF Acceptable
  <2>2. DOMAIN list = 1 .. n /\ DOMAIN kept = 1 .. m
    BY <1>5
  <2> HIDE DEF list, kept
  <2>3. QED
    BY <1>3, <1>7, <2>1, <2>2 DEF Acceptable
<1>11. QED
  BY <1>9, <1>10, NormalizeType DEF Settled

(* The prices that are filled in after the checks leave the document as    *)
(* acceptable and as normal as it was.                                     *)
LEMMA PricesSettled ==
  ASSUME NEW d, Settled(d), NEW found \in SUBSET Unpriced(d)
  PROVE  Settled(WithPrices(d, found))
<1>1. d \in Document(2) /\ Acceptable(d) /\ Normalize(d) = d
  BY DEF Settled
<1>2. PICK n \in 0 .. 2 : d.multipliers \in [1 .. n -> Multiplier]
  BY <1>1, DocumentType
<1>3. PICK k \in 0 .. 2 : d.aliases \in [1 .. k -> Alias]
  BY <1>1, DocumentType
<1> DEFINE list == [i \in 1 .. n |->
                      IF i \in found THEN [d.multipliers[i] EXCEPT !.priced = d.multipliers[i].model]
                      ELSE d.multipliers[i]]
<1>4. WithPrices(d, found) = [multipliers |-> list, aliases |-> d.aliases]
  <2>1. DOMAIN d.multipliers = 1 .. n
    BY <1>2
  <2>2. d = [multipliers |-> d.multipliers, aliases |-> d.aliases]
    BY <1>1, DocumentType
  <2>3. WithPrices(d, found) = [d EXCEPT !.multipliers = list]
    BY <2>1 DEF WithPrices
  <2> HIDE DEF list
  <2>4. QED
    BY <2>2, <2>3
<1>5. /\ Retained(d.aliases) = d.aliases
      /\ \A i \in 1 .. n : NormalMultiplier(d.multipliers[i]) = d.multipliers[i]
  <2>1. /\ d.aliases = Retained(d.aliases)
        /\ d.multipliers = [i \in DOMAIN d.multipliers |-> NormalMultiplier(d.multipliers[i])]
    BY <1>1 DEF Normalize
  <2>2. QED
    BY <1>2, <2>1
<1>6. ASSUME NEW i \in 1 .. n
      PROVE  /\ list[i] \in Multiplier /\ list[i].model = d.multipliers[i].model
             /\ list[i].priced \in {d.multipliers[i].priced, list[i].model}
             /\ NormalMultiplier(list[i]) = list[i]
  <2>1. d.multipliers[i] \in Multiplier /\ NormalMultiplier(d.multipliers[i]) = d.multipliers[i]
    BY <1>2, <1>5
  <2>2. CASE i \in found
    <3>1. list[i] = [d.multipliers[i] EXCEPT !.priced = d.multipliers[i].model]
      BY <2>2
    <3>2. QED
      BY <2>1, <3>1 DEF Multiplier, NormalMultiplier
  <2>3. CASE i \notin found
    BY <2>1, <2>3
  <2>4. QED
    BY <2>2, <2>3
<1>7. WithPrices(d, found) \in Document(2)
  <2>1. list \in [1 .. n -> Multiplier]
    BY <1>6
  <2> HIDE DEF list
  <2>2. /\ list \in UNION {[1 .. m -> Multiplier] : m \in 0 .. 2}
        /\ d.aliases \in UNION {[1 .. m -> Alias] : m \in 0 .. 2}
    BY <1>3, <2>1
  <2>3. QED
    BY <1>4, <2>2 DEF Document
<1>8. Normalize(WithPrices(d, found)) = WithPrices(d, found)
  <2>1. [i \in DOMAIN list |-> NormalMultiplier(list[i])] = list
    <3>1. list = [i \in 1 .. n |-> list[i]] /\ DOMAIN list = 1 .. n
      OBVIOUS
    <3>2. \A i \in 1 .. n : NormalMultiplier(list[i]) = list[i]
      BY <1>6
    <3> HIDE DEF list
    <3>3. QED
      BY <3>1, <3>2
  <2> HIDE DEF list
  <2>2. QED
    BY <1>4, <1>5, <2>1 DEF Normalize
<1>9. Acceptable(WithPrices(d, found))
  <2>1. DOMAIN list = 1 .. n /\ DOMAIN d.multipliers = 1 .. n
    BY <1>2
  <2>2. \A i \in 1 .. n :
          /\ list[i].priced \in {NoPrice, list[i].model}
          /\ \A j \in 1 .. n : list[i].model = list[j].model => i = j
    <3> HIDE DEF list
    <3> QED BY <1>1, <1>6, <2>1 DEF Acceptable
  <2> HIDE DEF list
  <2>3. QED
    BY <1>1, <1>4, <2>1, <2>2 DEF Acceptable
<1>10. QED
  BY <1>7, <1>8, <1>9 DEF Settled

LEMMA DefaultSettled == Settled(DefaultSettings)
<1>1. <<>> \in [1 .. 0 -> Multiplier] /\ <<>> \in [1 .. 0 -> Alias] /\ DOMAIN <<>> = {}
  OBVIOUS
<1>2. DefaultSettings \in Document(2)
  BY <1>1, 0 \in 0 .. 2 DEF DefaultSettings, Document
<1>3. Acceptable(DefaultSettings)
  BY DEF Acceptable, DefaultSettings
<1>4. Retained(<<>>) = <<>>
  BY <1>1, RetainedProperties, 1 .. 0 = {}
<1>5. [i \in DOMAIN <<>> |-> NormalMultiplier(<<>>[i])] = <<>>
  OBVIOUS
<1>6. QED
  BY <1>2, <1>3, <1>4, <1>5 DEF Settled, Normalize, DefaultSettings

-----------------------------------------------------------------------------

(* A start that ends over the settings; nothing else is touched.           *)
StartEnds ==
  pc' = "failed" /\ UNCHANGED <<db, wrote, stops, uploads, edits>>

(* Each step of the server is one of ServerStart, if any of its variables  *)
(* changes, or ends a start.                                               *)
LEMMA AdminStep ==
  ASSUME AdminInv, [AdminNext]_allVars
  PROVE  [Next]_vars \/ (ReadSettings /\ StartEnds)
<1>1. CASE StartServer
  BY <1>1 DEF StartServer, Next
<1>2. CASE StopServer
  BY <1>2 DEF StopServer, Next
<1>3. CASE ReadSettings
  BY <1>3 DEF ReadSettings, StartEnds
<1>4. ASSUME NEW h \in Handlers, ClientWork(h)
      PROVE  Next
  <2>1. request[h].node \in Known
    BY <1>4 DEF ClientWork, AdminInv, AskedForOwnNode, Asks
  <2>2. Work
    BY <1>4, <2>1 DEF ClientWork, Work
  <2>3. QED
    BY <2>2 DEF Next
<1>5. ASSUME NEW h \in Handlers, NEW u \in Uuids, NEW n \in Names,
             RenameNode(h, u, n) \/ \E t \in Tokens : CreateNode(h, u, n, t)
      PROVE  Next
  <2>1. NameNode(u, n)
    BY <1>5 DEF RenameNode, CreateNode
  <2>2. QED
    BY <2>1 DEF Work, Next
<1>6. ASSUME NEW h \in Handlers,
             \/ \E t \in Tokens \cup {NoToken} : ClientCheck(h, t)
             \/ \E s \in Sessions : AdminCheck(h, s)
             \/ \E u \in Uuids, t \in Tokens : RegenerateToken(h, u, t)
             \/ \E u \in Uuids : RevokeToken(h, u)
             \/ AnswerAdmin(h)
             \/ \E body \in Bodies : PutSettings(h, body)
             \/ SavePut(h)
      PROVE  UNCHANGED vars
  BY <1>6 DEF ClientCheck, AdminCheck, RegenerateToken, RevokeToken, AnswerAdmin, PutSettings,
    SavePut, BeginSave
<1>7. CASE \/ \E s \in Sessions : Login(s) \/ Expire(s) \/ Logout(s)
           \/ WriteTemp \/ RenameTemp \/ FinishSave \/ FailSave
           \/ UNCHANGED allVars
  BY <1>7 DEF Login, Expire, Logout, WriteTemp, RenameTemp, FinishSave, FailSave, allVars
<1>8. QED
  BY <1>1, <1>2, <1>3, <1>4, <1>5, <1>6, <1>7 DEF AdminNext

LEMMA AdminStepKeepsStart ==
  ASSUME AdminInv, [AdminNext]_allVars
  PROVE  StartInv'
<1>1. StartInv
  BY DEF AdminInv
<1>2. CASE [Next]_vars
  BY <1>1, <1>2, NextInv
<1>3. CASE StartEnds
  <2>1. /\ pc' = "failed"
        /\ UNCHANGED <<shape, columns, rows, rollups, nodes, gens, staged, parts,
                       wrote, stops, uploads, edits>>
    BY <1>3 DEF StartEnds, db
  <2>2. TypeOK'
    BY <1>1, <2>1 DEF StartInv, TypeOK
  <2>3. QED
    BY <1>1, <2>1, <2>2, SameData
<1>4. QED
  BY <1>2, <1>3, AdminStep

(* No step removes a node record.                                          *)
LEMMA KnownGrows ==
  ASSUME StartInv, [Next]_vars \/ StartEnds
  PROVE  Known \subseteq Known'
<1>1. CASE UNCHANGED nodes
  BY <1>1 DEF Known
<1>2. CASE MigrateNodes
  <2>1. PICK f \in Assignments : nodes' = Recorded(f) \/ UNCHANGED nodes
    BY <1>2 DEF MigrateNodes
  <2>2. \A u \in Known : u \notin Range(f)
    BY DEF Assignments, Range
  <2>3. \A u \in Known : Recorded(f)[u] = nodes[u]
    BY <2>2 DEF Recorded, Known
  <2>4. QED
    BY <1>1, <2>1, <2>3 DEF Known
<1>3. CASE \E u \in Uuids, n \in Names : NameNode(u, n)
  <2>1. PICK u \in Uuids, n \in Names : NameNode(u, n)
    BY <1>3
  <2>2. nodes \in [Uuids -> NodeRecord \cup {Absent}]
    BY DEF StartInv, TypeOK
  <2>3. \A w \in Uuids \ {u} : nodes'[w] = nodes[w]
    BY <2>1, <2>2 DEF NameNode
  <2>4. u \in Known'
    <3>1. CASE nodes[u] = Absent
      <4>1. nodes'[u] = [name |-> n, origin |-> u]
        BY <2>1, <2>2, <3>1 DEF NameNode
      <4>2. QED
        BY <4>1, AbsentAssumption DEF Known, Names
    <3>2. CASE nodes[u] # Absent
      <4>1. nodes[u] \in NodeRecord /\ nodes'[u] = [nodes[u] EXCEPT !.name = n]
        BY <2>1, <2>2, <3>2 DEF NameNode
      <4>2. nodes'[u] \in NodeRecord
        BY <4>1 DEF NodeRecord
      <4>3. QED
        BY <4>2, AbsentAssumption DEF Known, NodeRecord, Names
    <3>3. QED
      BY <3>1, <3>2
  <2>5. QED
    BY <2>3, <2>4 DEF Known
<1>4. QED
  BY <1>1, <1>2, <1>3 DEF Next, Start, Stop, Work, StartEnds, vars, db, Open, CreateTable,
    IndexDayBounds, TablesDone, EnsureBaseColumns, EnsureTierColumns, AddColumn, ColumnsDone, MigrateV3Schema,
    PrepareCaches, UploadEvent, UploadRollup, BeginGeneration

-----------------------------------------------------------------------------

LEMMA AdminInitInv ==
  ASSUME AdminInit
  PROVE  AdminInv
<1>1. StartInv
  BY InitInv DEF AdminInit
<1>2. /\ token = [u \in Uuids |-> NoToken] /\ minted = [t \in Tokens |-> NoToken]
      /\ retired = {} /\ accepted = {} /\ request = [h \in Handlers |-> Idle]
  BY DEF AdminInit
<1>3. QED
  BY <1>1, <1>2 DEF AdminInv, TokensOfOneNode, AskedForOwnNode, AcceptedForOwnNode, Asks

(* Steps that leave tokens alone and let no client in.                     *)
LEMMA NobodyAsks ==
  ASSUME AdminInv, StartInv', Known \subseteq Known',
         UNCHANGED <<token, minted, retired, accepted>>,
         request' = [h \in Handlers |-> request'[h]],
         \A h \in Handlers : Asks(h)' => request'[h] = request[h]
  PROVE  AdminInv'
<1>1. TokensOfOneNode' /\ AcceptedForOwnNode'
  BY DEF AdminInv, TokensOfOneNode, AcceptedForOwnNode
<1>2. AskedForOwnNode'
  <2>1. SUFFICES ASSUME NEW h \in Handlers, Asks(h)'
                 PROVE  /\ request'[h].node \in Known'
                        /\ request'[h].token \in Tokens
                        /\ minted'[request'[h].token] = request'[h].node
    BY DEF AskedForOwnNode
  <2>2. Asks(h) /\ request'[h] = request[h]
    BY <2>1 DEF Asks
  <2>3. QED
    BY <2>2 DEF AdminInv, AskedForOwnNode
<1>3. QED
  BY <1>1, <1>2 DEF AdminInv

LEMMA AnswerAsks ==
  ASSUME NEW h, request = [g \in Handlers |-> request[g]], Answer(h)
  PROVE  /\ request' = [g \in Handlers |-> request'[g]]
         /\ \A g \in Handlers : request'[g] = request[g] \/ request'[g] = Idle
         /\ \A g \in Handlers : Asks(g)' => request'[g] = request[g]
<1>1. request' = [g \in Handlers |-> IF g = h THEN Idle ELSE request[g]]
  BY DEF Answer
<1>2. QED
  BY <1>1 DEF Asks

LEMMA LetIn ==
  ASSUME NEW h \in Handlers, NEW r, request = [g \in Handlers |-> request[g]],
         request' = [request EXCEPT ![h] = r]
  PROVE  /\ request' = [g \in Handlers |-> request'[g]]
         /\ request'[h] = r
         /\ \A g \in Handlers \ {h} : request'[g] = request[g]
<1>1. request' = [g \in Handlers |-> IF g = h THEN r ELSE request[g]]
  OBVIOUS
<1>2. QED
  BY <1>1

LEMMA ClientCheckInv ==
  ASSUME AdminInv, StartInv', Known \subseteq Known',
         NEW h \in Handlers, NEW t \in Tokens \cup {NoToken}, ClientCheck(h, t)
  PROVE  AdminInv'
<1>1. PICK u \in Known :
        /\ token[u] = t
        /\ request' = [request EXCEPT ![h] = [kind |-> "client", node |-> u, token |-> t]]
  BY DEF ClientCheck
<1>2. t \in Tokens /\ UNCHANGED <<token, minted, retired, accepted>>
  BY DEF ClientCheck
<1>3. minted[t] = u
  BY <1>1, <1>2, TokenAssumption DEF AdminInv, TokensOfOneNode, Known
<1>4. /\ request' = [g \in Handlers |-> request'[g]]
      /\ request'[h] = [kind |-> "client", node |-> u, token |-> t]
      /\ \A g \in Handlers \ {h} : request'[g] = request[g]
  BY <1>1, LetIn DEF AdminInv
<1>5. TokensOfOneNode' /\ AcceptedForOwnNode'
  BY <1>2 DEF AdminInv, TokensOfOneNode, AcceptedForOwnNode
<1>6. AskedForOwnNode'
  <2>1. SUFFICES ASSUME NEW g \in Handlers, Asks(g)'
                 PROVE  /\ request'[g].node \in Known'
                        /\ request'[g].token \in Tokens
                        /\ minted'[request'[g].token] = request'[g].node
    BY DEF AskedForOwnNode
  <2>2. CASE g = h
    BY <1>1, <1>2, <1>3, <1>4, <2>2
  <2>3. CASE g # h
    <3>1. Asks(g) /\ request'[g] = request[g]
      BY <1>4, <2>1, <2>3 DEF Asks
    <3>2. QED
      BY <1>2, <3>1 DEF AdminInv, AskedForOwnNode
  <2>4. QED
    BY <2>2, <2>3
<1>7. QED
  BY <1>2, <1>4, <1>5, <1>6 DEF AdminInv

LEMMA ClientWorkInv ==
  ASSUME AdminInv, StartInv', Known \subseteq Known', NEW h \in Handlers, ClientWork(h)
  PROVE  AdminInv'
<1> DEFINE p == <<request[h].token, request[h].node>>
<1>1. /\ Asks(h) /\ accepted' = accepted \cup {p} /\ Answer(h)
      /\ UNCHANGED <<token, minted, retired>>
  BY DEF ClientWork, Asks
<1>2. p[1] \in Tokens /\ p[2] \in Uuids /\ minted[p[1]] = p[2]
  BY <1>1 DEF AdminInv, AskedForOwnNode, Known
<1>3. TokensOfOneNode' /\ AcceptedForOwnNode'
  <2>1. \A e \in accepted' : e[1] \in Tokens /\ e[2] \in Uuids /\ minted[e[1]] = e[2]
    BY <1>1, <1>2 DEF AdminInv, AcceptedForOwnNode
  <2>2. QED
    BY <1>1, <2>1 DEF AdminInv, TokensOfOneNode, AcceptedForOwnNode
<1>4. /\ request' = [g \in Handlers |-> request'[g]]
      /\ \A g \in Handlers : Asks(g)' => request'[g] = request[g]
  BY <1>1, AnswerAsks DEF AdminInv
<1>5. AskedForOwnNode'
  <2>1. SUFFICES ASSUME NEW g \in Handlers, Asks(g)'
                 PROVE  /\ request'[g].node \in Known'
                        /\ request'[g].token \in Tokens
                        /\ minted'[request'[g].token] = request'[g].node
    BY DEF AskedForOwnNode
  <2>2. Asks(g) /\ request'[g] = request[g]
    BY <1>4, <2>1 DEF Asks
  <2>3. QED
    BY <1>1, <2>2 DEF AdminInv, AskedForOwnNode
<1>6. QED
  BY <1>1, <1>3, <1>4, <1>5 DEF AdminInv

(* A new token is one that was never generated, so that what depends on    *)
(* the node of an older token is as before.                                *)
LEMMA MintInv ==
  ASSUME AdminInv, StartInv', Known \subseteq Known',
         NEW h \in Handlers, NEW u \in Uuids, NEW t \in Tokens,
         Mint(u, t), Answer(h), UNCHANGED accepted
  PROVE  AdminInv'
<1>1. /\ minted[t] = NoToken
      /\ minted' = [minted EXCEPT ![t] = u]
      /\ token' = [token EXCEPT ![u] = t]
      /\ retired' = retired \cup ({token[u]} \ {NoToken})
  BY DEF Mint
<1>2. /\ token \in [Uuids -> Tokens \cup {NoToken}]
      /\ minted \in [Tokens -> Uuids \cup {NoToken}]
      /\ retired \subseteq Tokens
  BY DEF AdminInv
<1>3. /\ token' \in [Uuids -> Tokens \cup {NoToken}]
      /\ minted' \in [Tokens -> Uuids \cup {NoToken}]
      /\ retired' \subseteq Tokens
      /\ token'[u] = t /\ \A w \in Uuids \ {u} : token'[w] = token[w]
      /\ minted'[t] = u /\ \A o \in Tokens \ {t} : minted'[o] = minted[o]
  BY <1>1, <1>2
<1>4. \A w \in Uuids : token[w] # t
  BY <1>1, <1>2, TokenAssumption DEF AdminInv, TokensOfOneNode
<1>5. TokensOfOneNode'
  <2>1. \A w \in Uuids : token'[w] # NoToken => minted'[token'[w]] = w
    BY <1>2, <1>3, <1>4 DEF AdminInv, TokensOfOneNode
  <2>2. \A o \in retired' : minted'[o] # NoToken
    <3>1. SUFFICES ASSUME NEW o \in retired'
                   PROVE  minted[o] # NoToken \/ o = t
      BY <1>3, TokenAssumption
    <3>2. CASE o \in retired
      BY <3>2 DEF AdminInv, TokensOfOneNode
    <3>3. CASE o = token[u] /\ o # NoToken
      BY <3>3, TokenAssumption DEF AdminInv, TokensOfOneNode
    <3>4. QED
      BY <1>1, <3>2, <3>3
  <2>3. \A w \in Uuids : token'[w] \notin retired'
    <3>1. t \notin retired'
      BY <1>1, <1>4 DEF AdminInv, TokensOfOneNode
    <3>2. ASSUME NEW w \in Uuids \ {u}
          PROVE  token[w] \notin retired'
      <4>1. token[w] \notin retired
        BY DEF AdminInv, TokensOfOneNode
      <4>2. token[w] = token[u] => token[u] = NoToken
        BY <3>2 DEF AdminInv, TokensOfOneNode
      <4>3. QED
        BY <1>1, <4>1, <4>2
    <3>3. QED
      BY <1>3, <3>1, <3>2
  <2>4. QED
    BY <2>1, <2>2, <2>3 DEF TokensOfOneNode
<1>6. AcceptedForOwnNode'
  <2>1. \A p \in accepted : p[1] \in Tokens /\ p[2] \in Uuids /\ minted'[p[1]] = p[2]
    BY <1>1, <1>3, TokenAssumption DEF AdminInv, AcceptedForOwnNode
  <2>2. QED
    BY <2>1 DEF AcceptedForOwnNode
<1>7. /\ request' = [g \in Handlers |-> request'[g]]
      /\ \A g \in Handlers : Asks(g)' => request'[g] = request[g]
  BY AnswerAsks DEF AdminInv
<1>8. AskedForOwnNode'
  <2>1. SUFFICES ASSUME NEW g \in Handlers, Asks(g)'
                 PROVE  /\ request'[g].node \in Known'
                        /\ request'[g].token \in Tokens
                        /\ minted'[request'[g].token] = request'[g].node
    BY DEF AskedForOwnNode
  <2>2. Asks(g) /\ request'[g] = request[g]
    BY <1>7, <2>1 DEF Asks
  <2>3. /\ request[g].node \in Known /\ request[g].token \in Tokens
        /\ minted[request[g].token] = request[g].node
    BY <2>2 DEF AdminInv, AskedForOwnNode
  <2>4. request[g].token # t
    BY <1>1, <2>3, TokenAssumption DEF Known
  <2>5. QED
    BY <1>3, <2>2, <2>3, <2>4
<1>9. QED
  BY <1>3, <1>5, <1>6, <1>7, <1>8 DEF AdminInv

LEMMA RevokeInv ==
  ASSUME AdminInv, StartInv', Known \subseteq Known',
         NEW h \in Handlers, NEW u \in Uuids, RevokeToken(h, u)
  PROVE  AdminInv'
<1>1. /\ token' = [token EXCEPT ![u] = NoToken]
      /\ retired' = retired \cup ({token[u]} \ {NoToken})
      /\ Answer(h) /\ UNCHANGED <<minted, accepted>>
  BY DEF RevokeToken
<1>2. /\ token' \in [Uuids -> Tokens \cup {NoToken}]
      /\ retired' \subseteq Tokens
      /\ token'[u] = NoToken /\ \A w \in Uuids \ {u} : token'[w] = token[w]
  BY <1>1 DEF AdminInv
<1>3. TokensOfOneNode'
  <2>1. \A w \in Uuids : token'[w] # NoToken => minted[token'[w]] = w
    BY <1>2 DEF AdminInv, TokensOfOneNode
  <2>2. \A o \in retired' : minted[o] # NoToken
    BY <1>1, TokenAssumption DEF AdminInv, TokensOfOneNode
  <2>3. NoToken \notin retired'
    BY <1>2, TokenAssumption
  <2>4. ASSUME NEW w \in Uuids \ {u}
        PROVE  token[w] \notin retired'
    <3>1. token[w] \notin retired
      BY DEF AdminInv, TokensOfOneNode
    <3>2. token[w] = token[u] => token[u] = NoToken
      BY <2>4 DEF AdminInv, TokensOfOneNode
    <3>3. QED
      BY <1>1, <3>1, <3>2
  <2>5. QED
    BY <1>1, <1>2, <2>1, <2>2, <2>3, <2>4 DEF TokensOfOneNode
<1>4. /\ request' = [g \in Handlers |-> request'[g]]
      /\ \A g \in Handlers : Asks(g)' => request'[g] = request[g]
  BY <1>1, AnswerAsks DEF AdminInv
<1>5. AskedForOwnNode'
  <2>1. SUFFICES ASSUME NEW g \in Handlers, Asks(g)'
                 PROVE  /\ request'[g].node \in Known'
                        /\ request'[g].token \in Tokens
                        /\ minted'[request'[g].token] = request'[g].node
    BY DEF AskedForOwnNode
  <2>2. Asks(g) /\ request'[g] = request[g]
    BY <1>4, <2>1 DEF Asks
  <2>3. QED
    BY <1>1, <2>2 DEF AdminInv, AskedForOwnNode
<1>6. AcceptedForOwnNode'
  BY <1>1 DEF AdminInv, AcceptedForOwnNode
<1>7. QED
  BY <1>1, <1>2, <1>3, <1>4, <1>5, <1>6 DEF AdminInv

LEMMA AdminNextInv ==
  ASSUME AdminInv, [AdminNext]_allVars
  PROVE  AdminInv'
<1>1. StartInv' /\ Known \subseteq Known'
  BY AdminStep, AdminStepKeepsStart, KnownGrows DEF AdminInv
<1>2. request = [h \in Handlers |-> request[h]]
  BY DEF AdminInv
<1>3. ASSUME NEW h \in Handlers, \E t \in Tokens \cup {NoToken} : ClientCheck(h, t)
      PROVE  AdminInv'
  BY <1>1, <1>3, ClientCheckInv
<1>4. ASSUME NEW h \in Handlers, ClientWork(h)
      PROVE  AdminInv'
  BY <1>1, <1>4, ClientWorkInv
<1>5. ASSUME NEW h \in Handlers, NEW s \in Sessions, AdminCheck(h, s)
      PROVE  AdminInv'
  <2>1. /\ UNCHANGED <<token, minted, retired, accepted>>
        /\ request' = [request EXCEPT ![h] = [kind |-> "admin", session |-> s]] \/ UNCHANGED request
    BY <1>5 DEF AdminCheck
  <2>2. CASE request' = [request EXCEPT ![h] = [kind |-> "admin", session |-> s]]
    <3>1. /\ request' = [g \in Handlers |-> request'[g]]
          /\ request'[h] = [kind |-> "admin", session |-> s]
          /\ \A g \in Handlers \ {h} : request'[g] = request[g]
      BY <1>2, <2>2, LetIn
    <3>2. ~Asks(h)'
      BY <3>1 DEF Asks
    <3>3. QED
      BY <1>1, <2>1, <3>1, <3>2, NobodyAsks
  <2>3. QED
    BY <1>1, <1>2, <2>1, <2>2, NobodyAsks
<1>6. ASSUME NEW h \in Handlers, NEW u \in Uuids, NEW t \in Tokens,
             RegenerateToken(h, u, t) \/ \E n \in Names : CreateNode(h, u, n, t)
      PROVE  AdminInv'
  <2>1. Mint(u, t) /\ Answer(h) /\ UNCHANGED accepted
    BY <1>6 DEF RegenerateToken, CreateNode
  <2>2. QED
    BY <1>1, <2>1, MintInv
<1>7. ASSUME NEW h \in Handlers, NEW u \in Uuids, RevokeToken(h, u)
      PROVE  AdminInv'
  BY <1>1, <1>7, RevokeInv
<1>8. ASSUME NEW h \in Handlers, AnswerAdmin(h) \/ \E u \in Uuids, n \in Names : RenameNode(h, u, n)
      PROVE  AdminInv'
  <2>1. Answer(h) /\ UNCHANGED <<token, minted, retired, accepted>>
    BY <1>8 DEF AnswerAdmin, RenameNode
  <2>2. QED
    BY <1>1, <1>2, <2>1, AnswerAsks, NobodyAsks
<1>9. ASSUME NEW h \in Handlers, NEW body \in Bodies, PutSettings(h, body)
      PROVE  AdminInv'
  <2>1. /\ UNCHANGED <<token, minted, retired, accepted>>
        /\ request' = [request EXCEPT ![h] = [kind |-> "put", value |-> Normalize(body)]]
    BY <1>9 DEF PutSettings
  <2>2. /\ request' = [g \in Handlers |-> request'[g]]
        /\ request'[h] = [kind |-> "put", value |-> Normalize(body)]
        /\ \A g \in Handlers \ {h} : request'[g] = request[g]
    BY <1>2, <2>1, LetIn
  <2>3. ~Asks(h)'
    BY <2>2 DEF Asks
  <2>4. QED
    BY <1>1, <2>1, <2>2, <2>3, NobodyAsks
<1>10. CASE FinishSave \/ FailSave
  <2>1. /\ UNCHANGED <<token, minted, retired, accepted>>
        /\ UNCHANGED request \/ Answer(save.by)
    BY <1>10 DEF FinishSave, FailSave, Release
  <2>2. QED
    BY <1>1, <1>2, <2>1, AnswerAsks, NobodyAsks
<1>11. CASE StopServer
  <2>1. /\ UNCHANGED <<token, minted, retired, accepted>>
        /\ request' = [h \in Handlers |-> Idle]
    BY <1>11 DEF StopServer
  <2>2. QED
    BY <1>1, <2>1, NobodyAsks DEF Asks
<1>12. CASE \/ StartServer \/ ReadSettings \/ WriteTemp \/ RenameTemp
            \/ \E h \in Handlers : SavePut(h)
            \/ \E s \in Sessions : Login(s) \/ Expire(s) \/ Logout(s)
            \/ UNCHANGED allVars
  <2>1. UNCHANGED <<token, minted, retired, accepted, request>>
    BY <1>12 DEF StartServer, ReadSettings, WriteTemp, RenameTemp, SavePut, BeginSave, Login,
      Expire, Logout, adminVars, allVars
  <2>2. QED
    BY <1>1, <1>2, <2>1, NobodyAsks
<1>13. QED
  BY <1>3, <1>4, <1>5, <1>6, <1>7, <1>8, <1>9, <1>10, <1>11, <1>12 DEF AdminNext

(* Only the two checks let a request in; every other step leaves a handler *)
(* as it is, answers, or goes on with what it was let in for.              *)
LEMMA OnlyChecksLetIn ==
  ASSUME AdminInv, [AdminNext]_allVars,
         NEW h \in Handlers, request[h] = Idle, request'[h] # Idle
  PROVE  \/ request'[h].kind = "client" /\ request'[h].token \notin retired
         \/ request'[h].kind = "admin" /\ session[request'[h].session] = "live"
<1>1. request = [g \in Handlers |-> request[g]]
  BY DEF AdminInv
<1>2. ASSUME NEW g, Answer(g)
      PROVE  FALSE
  BY <1>1, <1>2, AnswerAsks
<1>3. ASSUME NEW g \in Handlers, NEW t \in Tokens \cup {NoToken}, ClientCheck(g, t)
      PROVE  request'[h].kind = "client" /\ request'[h].token \notin retired
  <2>1. PICK u \in Known :
          /\ token[u] = t
          /\ request' = [request EXCEPT ![g] = [kind |-> "client", node |-> u, token |-> t]]
    BY <1>3 DEF ClientCheck
  <2>2. h = g
    BY <1>1, <2>1, LetIn
  <2>3. request'[h] = [kind |-> "client", node |-> u, token |-> t]
    BY <1>1, <2>1, <2>2, LetIn
  <2>4. t \notin retired
    BY <2>1 DEF AdminInv, TokensOfOneNode, Known
  <2>5. QED
    BY <2>3, <2>4
<1>4. ASSUME NEW g \in Handlers, NEW s \in Sessions, AdminCheck(g, s)
      PROVE  request'[h].kind = "admin" /\ session[request'[h].session] = "live"
  <2>1. /\ session[s] = "live"
        /\ request' = [request EXCEPT ![g] = [kind |-> "admin", session |-> s]]
    BY <1>4 DEF AdminCheck
  <2>2. h = g
    BY <1>1, <2>1, LetIn
  <2>3. request'[h] = [kind |-> "admin", session |-> s]
    BY <1>1, <2>1, <2>2, LetIn
  <2>4. QED
    BY <2>1, <2>3
<1>5. ASSUME NEW g \in Handlers, NEW body \in Bodies, PutSettings(g, body)
      PROVE  FALSE
  <2>1. /\ request[g] # Idle
        /\ request' = [request EXCEPT ![g] = [kind |-> "put", value |-> Normalize(body)]]
    BY <1>5 DEF PutSettings, Admitted
  <2>2. request'[h] = request[h]
    BY <1>1, <2>1, LetIn
  <2>3. QED
    BY <2>2
<1>6. CASE \E g \in Handlers :
             \/ ClientWork(g) \/ AnswerAdmin(g)
             \/ \E u \in Uuids, n \in Names, t \in Tokens : CreateNode(g, u, n, t)
             \/ \E u \in Uuids, n \in Names : RenameNode(g, u, n)
             \/ \E u \in Uuids, t \in Tokens : RegenerateToken(g, u, t)
             \/ \E u \in Uuids : RevokeToken(g, u)
  BY <1>2, <1>6 DEF ClientWork, AnswerAdmin, CreateNode, RenameNode, RegenerateToken, RevokeToken
<1>7. CASE FinishSave \/ FailSave
  BY <1>2, <1>7 DEF FinishSave, FailSave, Release
<1>8. CASE \/ StartServer \/ StopServer \/ ReadSettings \/ WriteTemp \/ RenameTemp
           \/ \E g \in Handlers : SavePut(g)
           \/ \E s \in Sessions : Login(s) \/ Expire(s) \/ Logout(s)
           \/ UNCHANGED allVars
  <2>1. UNCHANGED request \/ request' = [g \in Handlers |-> Idle]
    BY <1>8 DEF StartServer, StopServer, ReadSettings, WriteTemp, RenameTemp, SavePut, BeginSave,
      Login, Expire, Logout, adminVars, allVars
  <2>2. QED
    BY <2>1
<1>9. QED
  BY <1>3, <1>4, <1>5, <1>6, <1>7, <1>8 DEF AdminNext

LEMMA AdminSpecInv == AdminSpec => []AdminInv
<1>1. AdminInit => AdminInv
  BY AdminInitInv
<1>2. AdminInv /\ [AdminNext]_allVars => AdminInv'
  BY AdminNextInv
<1>3. QED
  BY <1>1, <1>2, PTL DEF AdminSpec

-----------------------------------------------------------------------------
(* The settings.                                                           *)

LEMMA SettingsInitInv ==
  ASSUME AdminInit
  PROVE  SettingsInv /\ BoundsFirst /\ StartSucceeds
<1>1. BoundsFirst /\ StartSucceeds
  BY InitSucceeds DEF AdminInit
<1>2. RequestsSettled
  BY DEF AdminInit, RequestsSettled, Request
<1>3. KeptSettled
  <2>1. /\ file = None /\ cache = None /\ due = {} /\ save = NoSave
        /\ save.step = None /\ None # "cache"
    BY SettingsAssumption DEF AdminInit, NoSave
  <2>2. QED
    BY <2>1 DEF KeptSettled, Settled
<1>4. /\ temp = FALSE /\ puts = 0 /\ accepted = {}
      /\ session = [s \in Sessions |-> "unused"]
  BY DEF AdminInit
<1>5. /\ puts \in Nat /\ puts <= MaxChanges
      /\ accepted \subseteq Tokens \X Uuids
  BY <1>4, ChangeAssumption
<1>6. temp \in BOOLEAN
  BY <1>4, Zenon
<1>7. session \in [Sessions -> {"unused", "live", "expired", "ended"}]
  BY <1>4
<1>8. QED
  BY <1>1, <1>2, <1>3, <1>5, <1>6, <1>7 DEF SettingsInv

(* Answers, and steps of other handlers.                                   *)
LEMMA RequestsAnswered ==
  ASSUME RequestsSettled,
         \A h \in Handlers : request'[h] = request[h] \/ request'[h] = Idle
  PROVE  RequestsSettled'
<1>1. Idle \in Request
  BY DEF Request
<1>2. QED
  BY <1>1 DEF RequestsSettled

(* A handler goes on to what it was let in for.                            *)
LEMMA RequestGoesOn ==
  ASSUME RequestsSettled, request = [g \in Handlers |-> request[g]],
         NEW h \in Handlers, NEW r \in Request, r.kind = "put" => Settled(r.value),
         request' = [request EXCEPT ![h] = r]
  PROVE  RequestsSettled'
<1>1. request'[h] = r /\ \A g \in Handlers \ {h} : request'[g] = request[g]
  BY LetIn
<1>2. ASSUME NEW g \in Handlers
      PROVE  /\ request'[g] \in Request
             /\ request'[g] # Idle /\ request'[g].kind = "put" => Settled(request'[g].value)
  <2>1. CASE g = h
    BY <1>1, <2>1
  <2>2. CASE g # h
    BY <1>1, <2>2 DEF RequestsSettled
  <2>3. QED
    BY <2>1, <2>2
<1>3. QED
  BY <1>2 DEF RequestsSettled, Settled

LEMMA SaveSteps ==
  ASSUME KeptSettled
  PROVE  /\ save = NoSave => save.step \notin {"write", "rename", "cache"}
         /\ save.step \in {"write", "rename", "cache"} => save \in Saves /\ Settled(save.value)
BY SettingsAssumption DEF KeptSettled, NoSave

(* What reads the settings finds them acceptable: no start ends over them, *)
(* and each step is one of ServerStart.                                    *)
LEMMA AdminStepIsStart ==
  ASSUME ServerInv, [AdminNext]_allVars
  PROVE  [Next]_vars
<1>1. ASSUME ReadSettings, StartEnds
      PROVE  UNCHANGED vars
  <2>1. file # None => file # Partial /\ Acceptable(file)
    BY SettingsAssumption DEF ServerInv, SettingsInv, KeptSettled, Settled
  <2>2. QED
    BY <1>1, <2>1, SettingsAssumption DEF ReadSettings
<1>2. QED
  BY <1>1, AdminStep DEF ServerInv

LEMMA RequestsNext ==
  ASSUME ServerInv, [AdminNext]_allVars
  PROVE  RequestsSettled'
<1>1. RequestsSettled /\ request = [g \in Handlers |-> request[g]]
  BY DEF ServerInv, AdminInv, SettingsInv
<1>2. ASSUME NEW h, Answer(h)
      PROVE  RequestsSettled'
  <2>1. \A g \in Handlers : request'[g] = request[g] \/ request'[g] = Idle
    BY <1>1, <1>2, AnswerAsks
  <2>2. QED
    BY <1>1, <2>1, RequestsAnswered
<1>3. ASSUME NEW h \in Handlers, NEW t \in Tokens \cup {NoToken}, ClientCheck(h, t)
      PROVE  RequestsSettled'
  <2>1. PICK u \in Known :
          request' = [request EXCEPT ![h] = [kind |-> "client", node |-> u, token |-> t]]
    BY <1>3 DEF ClientCheck
  <2> DEFINE r == [kind |-> "client", node |-> u, token |-> t]
  <2>2. r \in Request /\ r.kind # "put"
    BY DEF Request, Known
  <2> HIDE DEF r
  <2>3. request' = [request EXCEPT ![h] = r]
    BY <2>1 DEF r
  <2>4. QED
    BY <1>1, <2>2, <2>3, RequestGoesOn
<1>4. ASSUME NEW h \in Handlers, NEW s \in Sessions, AdminCheck(h, s)
      PROVE  RequestsSettled'
  <2> DEFINE r == [kind |-> "admin", session |-> s]
  <2>1. r \in Request /\ r.kind # "put"
    BY DEF Request
  <2>2. request' = [request EXCEPT ![h] = r] \/ UNCHANGED request
    BY <1>4 DEF AdminCheck
  <2> HIDE DEF r
  <2>3. QED
    BY <1>1, <2>1, <2>2, RequestGoesOn, RequestsAnswered
<1>5. ASSUME NEW h \in Handlers, NEW body \in Bodies, PutSettings(h, body)
      PROVE  RequestsSettled'
  <2>1. body \in Document(2) /\ Acceptable(body)
    BY <1>5, SettingsAssumption DEF PutSettings
  <2>2. Normalize(body) \in Document(2) /\ Settled(Normalize(body))
    BY <2>1, NormalizeType, NormalizeSettles
  <2> DEFINE v == Normalize(body)
             r == [kind |-> "put", value |-> v]
  <2>3. request' = [request EXCEPT ![h] = r]
    BY <1>5 DEF PutSettings
  <2> HIDE DEF v
  <2>4. r \in Request /\ r.value = v
    BY <2>2 DEF Request, v
  <2> HIDE DEF r
  <2>5. QED
    BY <1>1, <2>2, <2>3, <2>4, RequestGoesOn DEF v
<1>6. CASE FinishSave \/ FailSave
  <2>1. UNCHANGED request \/ Answer(save.by)
    BY <1>6 DEF FinishSave, FailSave, Release
  <2>2. QED
    BY <1>1, <1>2, <2>1, RequestsAnswered
<1>7. CASE StopServer
  <2>1. \A h \in Handlers : request'[h] = Idle
    BY <1>7 DEF StopServer
  <2>2. QED
    BY <1>1, <2>1, RequestsAnswered
<1>8. CASE \/ StartServer \/ ReadSettings \/ WriteTemp \/ RenameTemp
           \/ \E h \in Handlers : SavePut(h)
           \/ \E s \in Sessions : Login(s) \/ Expire(s) \/ Logout(s)
           \/ UNCHANGED allVars
  <2>1. UNCHANGED request
    BY <1>8 DEF StartServer, ReadSettings, WriteTemp, RenameTemp, SavePut, BeginSave, Login,
      Expire, Logout, adminVars, allVars
  <2>2. QED
    BY <1>1, <2>1, RequestsAnswered
<1>9. ASSUME NEW h \in Handlers,
             \/ ClientWork(h) \/ AnswerAdmin(h)
             \/ \E u \in Uuids, n \in Names, t \in Tokens : CreateNode(h, u, n, t)
             \/ \E u \in Uuids, n \in Names : RenameNode(h, u, n)
             \/ \E u \in Uuids, t \in Tokens : RegenerateToken(h, u, t)
             \/ \E u \in Uuids : RevokeToken(h, u)
      PROVE  RequestsSettled'
  <2>1. Answer(h)
    BY <1>9 DEF ClientWork, AnswerAdmin, CreateNode, RenameNode, RegenerateToken, RevokeToken
  <2>2. QED
    BY <1>2, <2>1
<1>10. QED
  BY <1>3, <1>4, <1>5, <1>6, <1>7, <1>8, <1>9 DEF AdminNext

LEMMA KeptNext ==
  ASSUME ServerInv, [AdminNext]_allVars
  PROVE  KeptSettled'
<1>1. KeptSettled
  BY DEF ServerInv, SettingsInv
<1>2. /\ save = NoSave => save.step \notin {"write", "rename", "cache"}
      /\ save.step \in {"write", "rename", "cache"} => save \in Saves /\ Settled(save.value)
      /\ save \in Saves => save.value # None
  BY <1>1, SaveSteps, SettingsAssumption DEF Saves
<1>3. ASSUME NEW h \in Handlers, SavePut(h)
      PROVE  KeptSettled'
  <2>1. request[h] # Idle /\ request[h].kind = "put"
    BY <1>3 DEF SavePut
  <2>2. Settled(request[h].value)
    BY <2>1 DEF ServerInv, SettingsInv, RequestsSettled
  <2>3. PICK found \in SUBSET Unpriced(request[h].value) :
          BeginSave(h, WithPrices(request[h].value, found))
    BY <1>3 DEF SavePut
  <2> DEFINE v == WithPrices(request[h].value, found)
  <2>4. Settled(v)
    BY <2>2, PricesSettled
  <2>5. /\ save = NoSave /\ save' = [by |-> h, value |-> v, step |-> "write"]
        /\ UNCHANGED <<file, cache, due>>
    BY <2>3 DEF BeginSave
  <2> HIDE DEF v
  <2>6. save' \in Saves /\ save'.value = v /\ save'.step = "write"
    BY <2>4, <2>5 DEF Saves, Settled
  <2>7. QED
    BY <1>1, <1>2, <2>4, <2>5, <2>6 DEF KeptSettled, Settled
<1>4. CASE ReadSettings
  <2>1. save = NoSave /\ cache = None /\ UNCHANGED <<file, due>>
    BY <1>4 DEF ReadSettings
  <2>2. CASE UNCHANGED <<cache, save>>
    BY <1>1, <2>1, <2>2 DEF KeptSettled, Settled
  <2>3. CASE file # None /\ cache' = Normalize(file) /\ UNCHANGED save
    <3>1. Settled(file) /\ cache' = file
      BY <1>1, <2>3 DEF KeptSettled, Settled
    <3>2. QED
      BY <1>1, <2>1, <2>3, <3>1 DEF KeptSettled, Settled
  <2>4. CASE save' = [by |-> Boot, value |-> DefaultSettings, step |-> "write"] /\ UNCHANGED cache
    <3>1. save' \in Saves /\ Settled(save'.value) /\ save'.step = "write"
      BY <2>4, DefaultSettled DEF Saves, Settled
    <3>2. QED
      BY <1>1, <2>1, <2>4, <3>1 DEF KeptSettled, Settled
  <2>5. QED
    BY <1>4, <2>2, <2>3, <2>4 DEF ReadSettings
<1>5. CASE WriteTemp
  <2>1. /\ save.step = "write" /\ save' = [save EXCEPT !.step = "rename"]
        /\ UNCHANGED <<file, cache, due>>
    BY <1>5 DEF WriteTemp
  <2>2. save' \in Saves /\ save'.value = save.value /\ save'.step = "rename" /\ Settled(save.value)
    BY <1>2, <2>1 DEF Saves
  <2>3. QED
    BY <1>1, <2>1, <2>2 DEF KeptSettled, Settled
<1>6. CASE RenameTemp
  <2>1. /\ save.step = "rename" /\ save' = [save EXCEPT !.step = "cache"]
        /\ file' = save.value /\ due' = due \cup {save.value} /\ UNCHANGED cache
    BY <1>6 DEF RenameTemp
  <2>2. save' \in Saves /\ save'.value = save.value /\ save'.step = "cache" /\ Settled(save.value)
    BY <1>2, <2>1 DEF Saves
  <2>3. QED
    BY <1>1, <2>1, <2>2 DEF KeptSettled, Settled
<1>7. CASE FinishSave
  <2>1. /\ save.step = "cache" /\ save' = NoSave
        /\ cache' = save.value /\ due' = {save.value} /\ UNCHANGED file
    BY <1>7 DEF FinishSave, Release
  <2>2. file = save.value /\ Settled(save.value) /\ save'.step # "cache"
    BY <1>1, <1>2, <2>1, SettingsAssumption DEF KeptSettled, NoSave
  <2>3. QED
    BY <1>1, <2>1, <2>2 DEF KeptSettled, Settled
<1>8. CASE FailSave
  <2>1. save.step # "cache" /\ save' = NoSave /\ UNCHANGED <<file, cache, due>>
    BY <1>8 DEF FailSave, Release
  <2>2. save'.step # "cache"
    BY <2>1, SettingsAssumption DEF NoSave
  <2>3. QED
    BY <1>1, <2>1, <2>2 DEF KeptSettled, Settled
<1>9. CASE StopServer
  <2>1. cache' = None /\ save' = NoSave /\ UNCHANGED <<file, due>>
    BY <1>9 DEF StopServer
  <2>2. save'.step # "cache"
    BY <2>1, SettingsAssumption DEF NoSave
  <2>3. QED
    BY <1>1, <2>1, <2>2 DEF KeptSettled, Settled
<1>10. CASE \/ StartServer
            \/ \E h \in Handlers :
                 \/ \E t \in Tokens \cup {NoToken} : ClientCheck(h, t)
                 \/ ClientWork(h)
                 \/ \E s \in Sessions : AdminCheck(h, s)
                 \/ \E u \in Uuids, n \in Names, t \in Tokens : CreateNode(h, u, n, t)
                 \/ \E u \in Uuids, n \in Names : RenameNode(h, u, n)
                 \/ \E u \in Uuids, t \in Tokens : RegenerateToken(h, u, t)
                 \/ \E u \in Uuids : RevokeToken(h, u)
                 \/ AnswerAdmin(h)
                 \/ \E body \in Bodies : PutSettings(h, body)
            \/ \E s \in Sessions : Login(s) \/ Expire(s) \/ Logout(s)
            \/ UNCHANGED allVars
  <2>1. UNCHANGED <<file, cache, save, due>>
    BY <1>10 DEF StartServer, ClientCheck, ClientWork, AdminCheck, CreateNode, RenameNode,
      RegenerateToken, RevokeToken, AnswerAdmin, PutSettings, Login, Expire, Logout, settingsVars,
      allVars
  <2>2. QED
    BY <1>1, <2>1 DEF KeptSettled, Settled
<1>11. QED
  BY <1>3, <1>4, <1>5, <1>6, <1>7, <1>8, <1>9, <1>10 DEF AdminNext

(* The rest of the types.                                                  *)
LEMMA AdminTypesNext ==
  ASSUME ServerInv, [AdminNext]_allVars
  PROVE  /\ temp' \in BOOLEAN /\ puts' \in Nat /\ puts' <= MaxChanges
         /\ session' \in [Sessions -> {"unused", "live", "expired", "ended"}]
         /\ accepted' \subseteq Tokens \X Uuids
<1>1. /\ temp \in BOOLEAN /\ puts \in Nat /\ puts <= MaxChanges
      /\ session \in [Sessions -> {"unused", "live", "expired", "ended"}]
      /\ accepted \subseteq Tokens \X Uuids
  BY DEF ServerInv, SettingsInv
<1>2. ASSUME NEW h \in Handlers, ClientWork(h)
      PROVE  accepted' \subseteq Tokens \X Uuids /\ UNCHANGED <<temp, puts, session>>
  <2>1. request[h].token \in Tokens /\ request[h].node \in Uuids
    BY <1>2 DEF ClientWork, ServerInv, AdminInv, AskedForOwnNode, Asks, Known
  <2>2. /\ accepted' = accepted \cup {<<request[h].token, request[h].node>>}
        /\ UNCHANGED <<temp, puts, session>>
    BY <1>2 DEF ClientWork, settingsVars
  <2>3. QED
    BY <1>1, <2>1, <2>2
<1>3. ASSUME NEW h \in Handlers, NEW body \in Bodies, PutSettings(h, body)
      PROVE  puts' \in Nat /\ puts' <= MaxChanges /\ UNCHANGED <<temp, session, accepted>>
  <2>1. edits \in Nat
    BY BoundAssumption DEF ServerInv, AdminInv, StartInv, TypeOK
  <2>2. /\ edits + puts < MaxChanges /\ puts' = puts + 1
        /\ UNCHANGED <<temp, session, accepted>>
    BY <1>3 DEF PutSettings, ChangesGoOn
  <2>3. QED
    BY <1>1, <2>1, <2>2, ChangeAssumption
<1>4. CASE \/ WriteTemp \/ RenameTemp \/ FinishSave \/ FailSave
           \/ \E h \in Handlers : SavePut(h)
           \/ ReadSettings \/ StartServer \/ UNCHANGED allVars
  <2>1. temp' \in BOOLEAN /\ UNCHANGED <<puts, session, accepted>>
    BY <1>1, <1>4 DEF WriteTemp, RenameTemp, FinishSave, FailSave, SavePut, BeginSave, ReadSettings,
      StartServer, adminVars, settingsVars, allVars
  <2>2. QED
    BY <1>1, <2>1
<1>5. CASE \/ StopServer
           \/ \E s \in Sessions : Login(s) \/ Expire(s) \/ Logout(s)
           \/ \E h \in Handlers, s \in Sessions : AdminCheck(h, s)
  <2>1. UNCHANGED <<temp, puts, accepted>>
    BY <1>5 DEF StopServer, Login, Expire, Logout, AdminCheck, settingsVars
  <2>2. session' \in [Sessions -> {"unused", "live", "expired", "ended"}]
    BY <1>1, <1>5 DEF StopServer, Login, Expire, Logout, AdminCheck
  <2>3. QED
    BY <1>1, <2>1, <2>2
<1>6. CASE \E h \in Handlers :
             \/ \E t \in Tokens \cup {NoToken} : ClientCheck(h, t)
             \/ \E u \in Uuids, n \in Names, t \in Tokens : CreateNode(h, u, n, t)
             \/ \E u \in Uuids, n \in Names : RenameNode(h, u, n)
             \/ \E u \in Uuids, t \in Tokens : RegenerateToken(h, u, t)
             \/ \E u \in Uuids : RevokeToken(h, u)
             \/ AnswerAdmin(h)
  <2>1. UNCHANGED <<temp, puts, session, accepted>>
    BY <1>6 DEF ClientCheck, CreateNode, RenameNode, RegenerateToken, RevokeToken, AnswerAdmin,
      settingsVars
  <2>2. QED
    BY <1>1, <2>1
<1>7. QED
  BY <1>1, <1>2, <1>3, <1>4, <1>5, <1>6 DEF AdminNext

LEMMA ServerSpecInv == AdminSpec => []ServerInv
<1>1. AdminInit => ServerInv
  BY AdminInitInv, SettingsInitInv DEF ServerInv
<1>2. ServerInv /\ [AdminNext]_allVars => ServerInv'
  <2>1. SUFFICES ASSUME ServerInv, [AdminNext]_allVars
                 PROVE  ServerInv'
    OBVIOUS
  <2>2. AdminInv'
    BY <2>1, AdminNextInv DEF ServerInv
  <2>3. BoundsFirst' /\ StartSucceeds'
    BY <2>1, AdminStepIsStart, NextSucceeds DEF ServerInv, AdminInv
  <2>4. SettingsInv'
    BY <2>1, RequestsNext, KeptNext, AdminTypesNext DEF SettingsInv
  <2>5. QED
    BY <2>2, <2>3, <2>4 DEF ServerInv
<1>3. QED
  BY <1>1, <1>2, PTL DEF AdminSpec

(* Everything the running server keeps has its type.                       *)
THEOREM AdminTypes == AdminSpec => []AdminTypeOK
<1>1. ServerInv => AdminTypeOK
  BY SettingsAssumption DEF ServerInv, AdminInv, StartInv, SettingsInv, RequestsSettled, KeptSettled, Settled,
    AdminTypeOK
<1>2. QED
  BY <1>1, ServerSpecInv, PTL

(* settings.json is whole, and the settings last acknowledged or later     *)
(* ones, through every stop and failed save; memory agrees with it when    *)
(* nobody saves; and the next start accepts it and reads it back as it is. *)
THEOREM SettingsAreKept == AdminSpec => []SettingsKept
<1>1. ServerInv => SettingsKept
  BY SettingsAssumption DEF ServerInv, SettingsInv, KeptSettled, Settled, SettingsKept, NoSave
<1>2. QED
  BY <1>1, ServerSpecInv, PTL

(* Whatever administrators and clients do, the server is one of            *)
(* ServerStart: what it saved never ends a start, and all that holds of    *)
(* starts (StartsSucceed, NoHistoryLost, HistoriesListed, MigratedIsLeft)  *)
(* holds of it.                                                            *)
THEOREM AdminImplementsStart == AdminSpec => Spec /\ []StartSucceeds
<1>1. AdminInit => Init
  BY DEF AdminInit
<1>2. ServerInv /\ [AdminNext]_allVars => [Next]_vars
  BY AdminStepIsStart
<1>3. ServerInv => StartSucceeds
  BY DEF ServerInv
<1>4. QED
  BY <1>1, <1>2, <1>3, ServerSpecInv, PTL DEF AdminSpec, Spec

(* What a client stored is under the node its token was generated for,     *)
(* also if the token was revoked between the check and the work, and a     *)
(* node without a token stores nothing.                                    *)
THEOREM StoredForOwnNode == AdminSpec => []StoredUnderOwnNode
<1>1. AdminInv => StoredUnderOwnNode
  BY DEF AdminInv, AcceptedForOwnNode, TokensOfOneNode, StoredUnderOwnNode, Known
<1>2. QED
  BY <1>1, AdminSpecInv, PTL

(* A token or a session that has ended lets no further request in.         *)
THEOREM WhatEndedStaysOut == AdminSpec => EndedStaysOut
<1>1. AdminInv /\ [AdminNext]_allVars =>
        [\A h \in Handlers :
           request[h] = Idle /\ request'[h] # Idle =>
             \/ request'[h].kind = "client" /\ request'[h].token \notin retired
             \/ request'[h].kind = "admin" /\ session[request'[h].session] = "live"]_allVars
  BY OnlyChecksLetIn
<1>2. QED
  BY <1>1, AdminSpecInv, PTL DEF AdminSpec, EndedStaysOut

(* Between starts, too, where administrators name nodes and clients upload *)
(* through requests that overlap, no history is lost or merged, and a      *)
(* migrated database is left alone.                                        *)
THEOREM AdminKeepsHistory == AdminSpec => [](HistoryKept /\ HistoryListed) /\ LeftAlone
<1>1. AdminInv => HistoryKept /\ HistoryListed
  BY InvKeepsHistory, InvListsHistory DEF AdminInv
<1>2. AdminInv /\ [AdminNext]_allVars =>
        [Migrated /\ Start => UNCHANGED <<rows, rollups, nodes, gens, staged>>]_vars
  BY MigratedStays DEF AdminInv, StartInv
<1>3. QED
  BY <1>1, <1>2, AdminSpecInv, PTL DEF AdminSpec, LeftAlone
=============================================================================
