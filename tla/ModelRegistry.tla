--------------------------- MODULE ModelRegistry ---------------------------
(* The data models a console defines, the PostgreSQL tables behind them and *)
(* the in-memory registry the record API reads.                             *)
(*                                                                          *)
(* A mutation changes metadata rows and physical tables in one transaction  *)
(* and then rebuilds the registry: it reads the field rows, then the model  *)
(* rows, then inspects the table of each model, and swaps the map.  Nothing *)
(* orders the rebuilds of two requests.  A record operation takes a model   *)
(* from the registry and goes to its table later.                           *)
(*                                                                          *)
(* Every model has a code of its own, so that its id names its table.  Left *)
(* out: external data sources (their health needs no table), scopes and     *)
(* permissions, titles and field options, sort order, self relations, the   *)
(* health checks of the targets a record list expands.                      *)
EXTENDS Naturals

CONSTANTS
  Requests,     \* console and record requests in progress at one time
  OldModels,    \* models an earlier life of the process created
  MaxModels,    \* models ever created (bound)
  MaxFields,    \* fields ever created (bound)
  Codes,        \* field codes; the column takes the code of its field
  Kinds,        \* kinds of field in use, a subset of AllKinds
  Statuses,     \* "published" and the statuses that block record operations
  MaxOrders,    \* requests ever begun (bound)
  MaxFaults,    \* dropped requests, failed creations and restarts (bound)
  None

AllKinds == {"scalar", "many_to_one", "one_to_many", "many_to_many"}

ASSUME ModelRegistryAssumption ==
  /\ MaxModels \in Nat /\ MaxFields \in Nat /\ MaxOrders \in Nat /\ MaxFaults \in Nat
  /\ OldModels \in 0..MaxModels
  /\ Kinds \subseteq AllKinds
  /\ "published" \in Statuses
  /\ None \notin AllKinds \cup Statuses \cup Codes \cup Requests
  /\ None \notin 1..MaxModels /\ None \notin 1..MaxFields

VARIABLES
  models,     \* model_definitions: model -> row, None when there is none
  fields,     \* model_fields: field -> row, None when there is none
  minted,     \* how many model ids, field ids and requests were issued
  tables,     \* physical tables, named by the model they were created for
  columns,    \* <<model, code>>: dynamic columns of those tables
  joins,      \* <<model, target>>: join tables
  grants,     \* models with the scope grant of their creation
  registry,   \* RuntimeModelRegistry: one entry for each served model
  req,        \* what each request is doing
  scan,       \* the rebuild each request is in
  built,      \* history: ids whose creating transaction committed
  ungranted,  \* history: models whose creator stopped before the grant
  lapped,     \* history: requests overtaken by a committed change
  fresh,      \* history: the registry was published by a rebuild not overtaken
  faults      \* faults so far

rows  == <<models, fields, tables, columns, joins, built>>
store == <<rows, minted>>
vars == <<models, fields, minted, tables, columns, joins, grants, registry,
          req, scan, built, ungranted, lapped, fresh, faults>>

ModelIds == 1..MaxModels
FieldIds == 1..MaxFields
Relations == Kinds \ {"scalar"}
Availability == {"available", "unavailable", "broken"}
ModelRows == [status : Statuses, avail : Availability]
FieldRows == [model : ModelIds, code : Codes, kind : Kinds, target : ModelIds \cup {None},
              avail : Availability]

ASSUME RowAssumption == None \notin ModelRows /\ None \notin FieldRows

\* The kinds the health check wants a column for: every kind but one_to_many,
\* many_to_many included, whose values live in a join table.
RequiresColumn(kind) == kind # "one_to_many"
\* The kinds add_model_field creates a column for.
CreatesColumn(kind)  == kind \in {"scalar", "many_to_one"}

Present  == {m \in ModelIds : models[m] # None}
FieldSet == {f \in FieldIds : fields[f] # None}
FieldsOf(m) == {f \in FieldSet : fields[f].model = m}

NoScan == [rows |-> {}, todo |-> {}, kept |-> {}, down |-> {}, up |-> TRUE, news |-> {}]
Idle   == [phase |-> "idle", op |-> "none", model |-> None, field |-> None,
           code |-> None, kind |-> None, target |-> None, status |-> None]
To(p, phase) == [req EXCEPT ![p].phase = phase]
Rebuild(p)   == [req EXCEPT ![p] = [Idle EXCEPT !.phase = "list_fields"]]
Done(p)      == [req EXCEPT ![p] = Idle]
Leave(p)     == req' = Done(p) /\ lapped' = lapped \ {p}
----------------------------------------------------------------------------
(* Locks.  add_field, delete_field and delete_model hold the row of their   *)
(* model FOR UPDATE from "lock" to the end of the transaction; an insert    *)
(* that references a row, and an update of it, wait for that lock.          *)

\* Mutant of Locks: the broken row is written before the transaction ends.
LocksLonger(p, m) == req[p].phase \in {"commit", "broken"} /\ req[p].model = m
Locks(p, m) == req[p].phase = "commit" /\ req[p].model = m
LockedByOther(p, m) == \E q \in Requests \ {p} : Locks(q, m)

\* delete_field holds the row of its field too.
DeletedByOther(p, f) ==
  \E q \in Requests \ {p} :
    req[q].phase = "commit" /\ req[q].op = "delete_field" /\ req[q].field = f

\* The transaction of p waits for the one of q: the field it inserts
\* references the model q holds.
WaitsFor(p, q) ==
  /\ req[p].phase = "commit" /\ req[p].op = "add" /\ req[p].target # None
  /\ p # q /\ Locks(q, req[p].target)

Deadlocked(p) ==
  \E S \in SUBSET Requests :
    p \in S /\ \A q \in S : \E r \in S : WaitsFor(q, r)

\* A change p commits overtakes the readings in progress.
Reading == {"list_models", "inspect", "record", "query"}
Overtake(p) ==
  /\ lapped' = lapped \cup {q \in Requests \ {p} : req[q].phase \in Reading}
  /\ fresh' = FALSE
----------------------------------------------------------------------------
(* Requests: each handler checks that its model exists, which the           *)
(* transaction checks again.                                                *)

Order(op, phase, m) == [Idle EXCEPT !.op = op, !.phase = phase, !.model = m]

Counted == [minted EXCEPT !.order = @ + 1]
Accept(p) == req[p].phase = "idle" /\ minted.order < MaxOrders

Begin(p, order) ==
  /\ Accept(p)
  /\ req' = [req EXCEPT ![p] = order]
  /\ UNCHANGED <<rows, grants, registry, scan, ungranted, lapped, fresh, faults>>

StartCreate(p) ==
  /\ minted.model < MaxModels
  /\ minted' = [Counted EXCEPT !.model = @ + 1]
  /\ \E s \in Statuses : Begin(p, [Order("create", "insert", minted'.model) EXCEPT !.status = s])

StartAdd(p) ==
  /\ minted.field < MaxFields
  /\ minted' = [Counted EXCEPT !.field = @ + 1]
  /\ \E m \in Present, c \in Codes, k \in Kinds :
       \E t \in IF k \in Relations THEN Present \ {m} ELSE {None} :
         Begin(p, [Order("add", "lock", m) EXCEPT !.code = c, !.kind = k, !.target = t,
                                                  !.field = minted'.field])

StartDeleteField(p) ==
  /\ \E f \in FieldSet : Begin(p, [Order("delete_field", "lock", fields[f].model) EXCEPT !.field = f])
  /\ minted' = Counted

StartDelete(p) ==
  /\ \E m \in Present : Begin(p, Order("delete", "lock", m))
  /\ minted' = Counted

StartStatus(p) ==
  /\ minted' = Counted
  /\ \E m \in Present : \E s \in Statuses \ {models[m].status} :
       Begin(p, [Order("status", "update", m) EXCEPT !.status = s])

\* An update of a title or of the options of a field, a new file table, a
\* deleted one: what they write is left out, the rebuild that follows is not.
StartTouch(p) == Begin(p, Order("touch", "list_fields", None)) /\ minted' = Counted

Start(p) == StartCreate(p) \/ StartAdd(p) \/ StartDeleteField(p) \/ StartDelete(p)
            \/ StartStatus(p) \/ StartTouch(p)
----------------------------------------------------------------------------
(* create_model: the row and its table in one transaction, then the grant.  *)

\* The row is inserted, the table is created, both committed.
CreateModel(p) ==
  /\ req[p].phase = "insert"
  /\ LET m == req[p].model IN
     /\ models' = [models EXCEPT ![m] = [status |-> req[p].status, avail |-> "available"]]
     /\ tables' = tables \cup {m}
     /\ built' = built \cup {<<"model", m>>}
  /\ req' = To(p, "grant")
  /\ Overtake(p)
  /\ UNCHANGED <<fields, minted, columns, joins, grants, registry, scan, ungranted, faults>>

\* The transaction fails: it is rolled back, and the row is written again as
\* broken, without a table.  The request ends in an error.  (Cut stands for a
\* second failure: a code that is taken is refused twice.)
CreateModelFails(p) ==
  /\ req[p].phase = "insert"
  /\ faults < MaxFaults /\ faults' = faults + 1
  /\ LET m == req[p].model IN
     /\ models' = [models EXCEPT ![m] = [status |-> req[p].status, avail |-> "broken"]]
     /\ ungranted' = ungranted \cup {m}
  /\ req' = Done(p)
  /\ Overtake(p)
  /\ UNCHANGED <<fields, minted, tables, columns, joins, grants, registry, scan, built>>

\* The grant of the creating scope; NotFound when the model is already gone.
GrantModel(p) ==
  /\ req[p].phase = "grant" /\ ~LockedByOther(p, req[p].model)
  /\ IF req[p].model \in Present
     THEN grants' = grants \cup {req[p].model} /\ req' = Rebuild(p)
     ELSE req' = Done(p) /\ UNCHANGED grants
  /\ UNCHANGED <<store, registry, scan, ungranted, lapped, fresh, faults>>
----------------------------------------------------------------------------
(* The transactions on an existing model.                                   *)

\* load_model_definition_for_update: the row is locked, or it is gone.  A
\* relation reads its target here, without locking it; a field to delete is
\* locked too.
Missing(p) ==
  \/ req[p].model \notin Present
  \/ req[p].target # None /\ req[p].target \notin Present
  \/ req[p].op = "delete_field" /\ req[p].field \notin FieldSet

LockModel(p) ==
  /\ req[p].phase = "lock" /\ ~LockedByOther(p, req[p].model)
  /\ req' = IF Missing(p) THEN Done(p) ELSE To(p, "commit")
  /\ UNCHANGED <<store, grants, registry, scan, ungranted, lapped, fresh, faults>>

\* The code of the field or the join table of its pair of models is taken, or
\* a table the statement names is missing, its model being a broken one.
Conflicts(p) ==
  \/ req[p].kind # "one_to_many" /\ ~({req[p].model, req[p].target} \ {None} \subseteq tables)
  \/ \E f \in FieldsOf(req[p].model) : fields[f].code = req[p].code
  \/ req[p].kind = "many_to_many" /\ <<req[p].model, req[p].target>> \in joins

FieldRow(p, avail) == [model |-> req[p].model, code |-> req[p].code, kind |-> req[p].kind,
                       target |-> req[p].target, avail |-> avail]

TargetReady(p) ==
  req[p].target # None => ~LockedByOther(p, req[p].target) /\ req[p].target \in Present

AddField(p) ==
  /\ req[p].phase = "commit" /\ req[p].op = "add"
  /\ TargetReady(p) /\ ~Conflicts(p)
  /\ LET f == req[p].field
         at == <<req[p].model, req[p].code>>
         pair == <<req[p].model, req[p].target>> IN
     /\ fields' = [fields EXCEPT ![f] = FieldRow(p, "available")]
     /\ columns' = columns \cup (IF CreatesColumn(req[p].kind) THEN {at} ELSE {})
     /\ joins' = joins \cup (IF req[p].kind = "many_to_many" THEN {pair} ELSE {})
     /\ built' = built \cup {<<"field", f>>}
  /\ req' = Rebuild(p)
  /\ Overtake(p)
  /\ UNCHANGED <<models, minted, tables, grants, registry, scan, ungranted, faults>>

\* The insert or the DDL fails (the code is taken, the target is gone, a
\* required column meets existing rows) or PostgreSQL breaks a deadlock: the
\* transaction is rolled back, which frees the locks, before the row is
\* written as broken.
AddFieldFails(p) ==
  /\ req[p].phase = "commit" /\ req[p].op = "add"
  /\ (req[p].target # None /\ LockedByOther(p, req[p].target)) => Deadlocked(p)
  /\ req' = To(p, "broken")
  /\ UNCHANGED <<store, grants, registry, scan, ungranted, lapped, fresh, faults>>

\* insert_model_field_after_failure, a statement of its own: it waits for the
\* rows it references and fails on the same conflicts of code.
FieldAfterFailure(p) ==
  /\ req[p].phase = "broken"
  /\ ~LockedByOther(p, req[p].model)
  /\ req[p].target # None => ~LockedByOther(p, req[p].target)
  /\ IF /\ ~Missing(p)
        /\ \A f \in FieldsOf(req[p].model) : fields[f].code # req[p].code
     THEN /\ fields' = [fields EXCEPT ![req[p].field] = FieldRow(p, "broken")]
          /\ Overtake(p)
     ELSE UNCHANGED <<fields, lapped, fresh>>
  /\ req' = Done(p)
  /\ UNCHANGED <<models, minted, tables, columns, joins, grants, registry, scan, built,
                 ungranted, faults>>

\* Mutant of ColumnsWithout: a relation is taken for one that has no column.
ColumnsWithoutScalar(f) ==
  IF fields[f].kind = "scalar" THEN columns \ {<<fields[f].model, fields[f].code>>} ELSE columns
ColumnsWithout(f) ==
  IF CreatesColumn(fields[f].kind) THEN columns \ {<<fields[f].model, fields[f].code>>} ELSE columns

\* A field with its column or join table; the join table is the one of the
\* pair of models, whichever field of that pair is deleted.
DeleteField(p) ==
  /\ req[p].phase = "commit" /\ req[p].op = "delete_field"
  /\ CreatesColumn(fields[req[p].field].kind) => req[p].model \in tables
  /\ LET f == req[p].field IN
     /\ fields' = [fields EXCEPT ![f] = None]
     /\ columns' = ColumnsWithout(f)
     /\ joins' = IF fields[f].kind = "many_to_many"
                 THEN joins \ {<<fields[f].model, fields[f].target>>} ELSE joins
  /\ req' = Rebuild(p)
  /\ Overtake(p)
  /\ UNCHANGED <<models, minted, tables, grants, registry, scan, built, ungranted, faults>>

\* A relation of another model refers to it: the foreign key refuses.
Referenced(m) == \E f \in FieldSet : fields[f].target = m /\ fields[f].model # m

\* Mutant of JoinTablesOf: the pair is read the wrong way round.
JoinTablesInto(m) == {j \in joins : j[2] = m}
JoinTablesOf(m) == {j \in joins : m \in {j[1], j[2]}}

\* The join tables of its relations, the table, the row with its fields and
\* its grants.
DeleteModel(p) ==
  /\ req[p].phase = "commit" /\ req[p].op = "delete" /\ ~Referenced(req[p].model)
  /\ LET m == req[p].model IN
     /\ joins' = joins \ JoinTablesOf(m)
     /\ tables' = tables \ {m}
     /\ columns' = {c \in columns : c[1] # m}
     /\ models' = [models EXCEPT ![m] = None]
     /\ fields' = [f \in FieldIds |-> IF f \in FieldsOf(m) THEN None ELSE fields[f]]
     /\ grants' = grants \ {m}
  /\ req' = Rebuild(p)
  /\ Overtake(p)
  /\ UNCHANGED <<minted, registry, scan, built, ungranted, faults>>

\* Rolled back: the model is referenced by another one or by a file table, or
\* the column to drop is one of a table that does not exist.
DeletionFails(p) ==
  /\ req[p].phase = "commit" /\ req[p].op \in {"delete", "delete_field"}
  /\ req' = Done(p)
  /\ UNCHANGED <<store, grants, registry, scan, ungranted, lapped, fresh, faults>>

\* One update statement; NotFound when the row is gone.
UpdateStatus(p) ==
  /\ req[p].phase = "update" /\ ~LockedByOther(p, req[p].model)
  /\ IF req[p].model \in Present
     THEN /\ models' = [models EXCEPT ![req[p].model].status = req[p].status]
          /\ req' = Rebuild(p)
          /\ Overtake(p)
     ELSE /\ req' = Done(p)
          /\ UNCHANGED <<models, lapped, fresh>>
  /\ UNCHANGED <<fields, minted, tables, columns, joins, grants, registry, scan, built,
                 ungranted, faults>>
----------------------------------------------------------------------------
(* The rebuild: ApiRuntimeRegistrySync::rebuild.                            *)

Row(f) == [id |-> f, model |-> fields[f].model, code |-> fields[f].code,
           kind |-> fields[f].kind, avail |-> fields[f].avail]

ModelRow(m) == [id |-> m, status |-> models[m].status, avail |-> models[m].avail]

\* Models are listed, and inspected, in the order of their creation.
Earliest(p, m) == m \in scan[p].todo /\ \A o \in scan[p].todo : m.id <= o.id

ListFields(p) ==
  /\ req[p].phase = "list_fields"
  /\ scan' = [scan EXCEPT ![p] = [NoScan EXCEPT !.rows = {Row(f) : f \in FieldSet}]]
  /\ req' = To(p, "list_models")
  /\ UNCHANGED <<store, grants, registry, ungranted, lapped, fresh, faults>>

ListModels(p) ==
  /\ req[p].phase = "list_models"
  /\ scan' = [scan EXCEPT ![p].todo = {ModelRow(m) : m \in Present}]
  /\ req' = To(p, "inspect")
  /\ UNCHANGED <<store, grants, registry, ungranted, lapped, fresh, faults>>

HasObject(row) ==
  row.model \in tables /\ (RequiresColumn(row.kind) => <<row.model, row.code>> \in columns)

\* Mutant of Down: a column is taken to exist with its table.
DownWithTable(listed) == {r.id : r \in {f \in listed : f.model \notin tables}}
Down(listed) == {r.id : r \in {f \in listed : ~HasObject(f)}}

\* Mutant of Up: a model is available when its table is.
UpWithTable(m, down) == m \in tables
Up(m, down) == m \in tables /\ down = {}

Health(up) == IF up THEN "available" ELSE "unavailable"

\* refresh_runtime_model_health: what the table of the next model says of it
\* and of the fields that were listed.  A field has news if its verdict differs
\* from the listed one.
InspectModel(p) ==
  /\ req[p].phase = "inspect"
  /\ \E m \in scan[p].todo : Earliest(p, m) /\
     LET mine == {r \in scan[p].rows : r.model = m.id}
         down == Down(mine)
         up   == Up(m.id, down)
         news == {r.id : r \in {f \in mine : f.avail # Health(f.id \notin down)}}
         same == news = {} /\ m.avail = Health(up)
         kept == IF up THEN {[model |-> m.id, status |-> m.status,
                              fields |-> {<<r.id, r.code, r.kind>> : r \in mine}]}
                       ELSE {} IN
     \/ /\ same
        /\ scan' = [scan EXCEPT ![p].kept = @ \cup kept, ![p].todo = @ \ {m}]
        /\ req' = req
     \/ /\ ~same
        /\ scan' = [scan EXCEPT ![p].kept = @ \cup kept, ![p].down = down, ![p].up = up,
                                ![p].news = news]
        /\ req' = To(p, "record")
  /\ UNCHANGED <<store, grants, registry, ungranted, lapped, fresh, faults>>

\* The news are written one statement each, to the rows that still exist, in
\* any order of the fields.
RecordField(p) ==
  /\ req[p].phase = "record"
  /\ \E f \in scan[p].news :
       /\ ~DeletedByOther(p, f)
       /\ fields' = IF f \in FieldSet
                    THEN [fields EXCEPT ![f].avail = Health(f \notin scan[p].down)] ELSE fields
       /\ scan' = [scan EXCEPT ![p].news = @ \ {f}]
  /\ UNCHANGED <<models, minted, tables, columns, joins, grants, registry, req, built, ungranted,
                 lapped, fresh, faults>>

\* Then the verdict on the model, if that differs, and on to the next one.
RecordModel(p) ==
  /\ req[p].phase = "record" /\ scan[p].news = {}
  /\ \E row \in scan[p].todo : Earliest(p, row) /\
     LET m == row.id  news == row.avail # Health(scan[p].up) IN
     /\ news => ~LockedByOther(p, m)
     /\ models' = IF news /\ m \in Present
                  THEN [models EXCEPT ![m].avail = Health(scan[p].up)] ELSE models
     /\ scan' = [scan EXCEPT ![p].todo = @ \ {row}, ![p].down = {}, ![p].up = TRUE]
  /\ req' = To(p, "inspect")
  /\ UNCHANGED <<fields, minted, tables, columns, joins, grants, registry, built, ungranted,
                 lapped, fresh, faults>>

\* Mutant of Published: entries are put into the map that is there.
PublishedOver(p) == {e \in registry : \A k \in scan[p].kept : k.model # e.model} \cup scan[p].kept
Published(p) == scan[p].kept

\* RuntimeModelRegistry::rebuild: the whole map is replaced.
Publish(p) ==
  /\ req[p].phase = "inspect" /\ scan[p].todo = {}
  /\ registry' = Published(p)
  /\ fresh' = (p \notin lapped)
  /\ scan' = [scan EXCEPT ![p] = NoScan]
  /\ Leave(p)
  /\ UNCHANGED <<store, grants, ungranted, faults>>
----------------------------------------------------------------------------
(* A record operation.                                                      *)

\* load_available_metadata: an entry that is registered and published.  The
\* operation names one of its fields or none.  A field without a column is
\* refused as a value and as a filter, but it may be what the list is sorted by.
LoadMetadata(p) ==
  /\ Accept(p) /\ minted' = Counted
  /\ \E e \in registry :
       /\ e.status = "published"
       /\ LET order == Order("crud", "query", e.model) IN
          \/ req' = [req EXCEPT ![p] = order]
          \/ \E f \in e.fields :
               req' = [req EXCEPT ![p] = [order EXCEPT !.code = f[2], !.kind = f[3]]]
  /\ lapped' = IF fresh THEN lapped ELSE lapped \cup {p}
  /\ UNCHANGED <<rows, grants, registry, scan, ungranted, fresh, faults>>

ObjectMissing(p) ==
  \/ req[p].model \notin tables
  \/ req[p].code # None /\ <<req[p].model, req[p].code>> \notin columns

\* PostgreSQL answers, or it reports a missing table or column.
QueryRecords(p) ==
  /\ req[p].phase = "query"
  /\ IF ObjectMissing(p) THEN req' = To(p, "mark") /\ UNCHANGED lapped ELSE Leave(p)
  /\ UNCHANGED <<store, grants, registry, scan, ungranted, fresh, faults>>

\* mark_runtime_model_unavailable: the rows are marked; the registry is not
\* told.
MarkUnavailable(p) ==
  /\ req[p].phase = "mark" /\ ~LockedByOther(p, req[p].model)
  /\ LET m == req[p].model IN
     /\ models' = IF m \in Present THEN [models EXCEPT ![m].avail = "unavailable"] ELSE models
     /\ fields' = [f \in FieldIds |-> IF f \in FieldsOf(m)
                                      THEN [fields[f] EXCEPT !.avail = "unavailable"]
                                      ELSE fields[f]]
  /\ Leave(p)
  /\ UNCHANGED <<minted, tables, columns, joins, grants, registry, scan, built, ungranted,
                 fresh, faults>>
----------------------------------------------------------------------------
(* Faults.                                                                  *)

\* A client that hangs up, or a statement that fails: the handler stops where
\* it is, an open transaction is rolled back.
Cut(p) ==
  /\ req[p].phase # "idle"
  /\ faults < MaxFaults /\ faults' = faults + 1
  /\ ungranted' = ungranted \cup (IF req[p].phase = "grant" THEN {req[p].model} ELSE {})
  /\ Leave(p)
  /\ scan' = [scan EXCEPT ![p] = NoScan]
  /\ UNCHANGED <<store, grants, registry, fresh>>

\* The health of the rows as they are, what a rebuild that runs alone finds.
FieldUp(f) == HasObject(Row(f))
ModelUp(m) == m \in tables /\ \A f \in FieldsOf(m) : FieldUp(f)
Entry(m)   == [model |-> m, status |-> models[m].status,
               fields |-> {<<f, fields[f].code, fields[f].kind>> : f \in FieldsOf(m)}]

\* The process dies and starts again: its requests are gone, and it reads the
\* models before it serves any.
Restart ==
  /\ faults < MaxFaults /\ faults' = faults + 1
  /\ ungranted' = ungranted \cup {req[p].model : p \in {q \in Requests : req[q].phase = "grant"}}
  /\ req' = [p \in Requests |-> Idle]
  /\ scan' = [p \in Requests |-> NoScan]
  /\ lapped' = {}
  /\ models' = [m \in ModelIds |-> IF m \in Present
                                   THEN [models[m] EXCEPT !.avail = Health(ModelUp(m))]
                                   ELSE None]
  /\ fields' = [f \in FieldIds |-> IF f \in FieldSet
                                   THEN [fields[f] EXCEPT !.avail = Health(FieldUp(f))]
                                   ELSE None]
  /\ registry' = {Entry(m) : m \in {n \in Present : ModelUp(n)}}
  /\ fresh' = TRUE
  /\ UNCHANGED <<minted, tables, columns, joins, grants, built>>
----------------------------------------------------------------------------
Init ==
  /\ models = [m \in ModelIds |-> IF m <= OldModels
                                  THEN [status |-> "published", avail |-> "available"] ELSE None]
  /\ fields = [f \in FieldIds |-> None]
  /\ minted = [model |-> OldModels, field |-> 0, order |-> 0]
  /\ tables = 1..OldModels /\ columns = {} /\ joins = {} /\ grants = 1..OldModels
  /\ registry = {Entry(m) : m \in Present}
  /\ req = [p \in Requests |-> Idle]
  /\ scan = [p \in Requests |-> NoScan]
  /\ built = {"model"} \X (1..OldModels) /\ ungranted = {} /\ lapped = {} /\ fresh = TRUE
  /\ faults = 0

\* The steps of a request that is under way.
Step(p) ==
  \/ CreateModel(p) \/ CreateModelFails(p) \/ GrantModel(p)
  \/ LockModel(p) \/ AddField(p) \/ AddFieldFails(p) \/ FieldAfterFailure(p)
  \/ DeleteField(p) \/ DeleteModel(p) \/ DeletionFails(p) \/ UpdateStatus(p)
  \/ ListFields(p) \/ ListModels(p) \/ InspectModel(p)
  \/ RecordField(p) \/ RecordModel(p) \/ Publish(p) \/ QueryRecords(p) \/ MarkUnavailable(p)

Next ==
  \/ \E p \in Requests : Start(p) \/ LoadMetadata(p) \/ Step(p) \/ Cut(p)
  \/ Restart

\* A handler goes on as long as its statements return.  That is enough where it
\* waits for a row lock too: those that it finds in its way are few, their
\* number being bounded, and PostgreSQL grants a lock in the order of asking.
Fairness == \A p \in Requests : WF_vars(Step(p))

Spec == Init /\ [][Next]_vars
FairSpec == Spec /\ Fairness
----------------------------------------------------------------------------
(* Properties.                                                              *)

Phases == {"idle", "insert", "grant", "lock", "commit", "broken", "update", "list_fields",
           "list_models", "inspect", "record", "query", "mark"}

\* The type invariant: rows, physical objects and requests are well formed,
\* and nothing carries an id that was not issued.
TypeOK ==
  /\ minted \in [model : 0..MaxModels, field : 0..MaxFields, order : 0..MaxOrders]
  /\ models \in [ModelIds -> ModelRows \cup {None}]
  /\ fields \in [FieldIds -> FieldRows \cup {None}]
  /\ Present \subseteq 1..minted.model /\ FieldSet \subseteq 1..minted.field
  /\ tables \subseteq 1..minted.model
  /\ columns \subseteq tables \X Codes
  /\ joins \subseteq tables \X tables
  /\ \A e \in registry : e.model \in 1..minted.model /\ e.status \in Statuses
  /\ \A p \in Requests : req[p].phase \in Phases
  /\ lapped \subseteq Requests /\ fresh \in BOOLEAN /\ faults \in 0..MaxFaults

Built(m) == <<"model", m>> \in built
BuiltField(f) == <<"field", f>> \in built

\* Every table, column and join table has its rows, so that nothing is left
\* behind that makes a later creation of the same code fail.
NoOrphans ==
  /\ tables \subseteq Present
  /\ \A c \in columns :
       \E f \in FieldsOf(c[1]) : fields[f].code = c[2] /\ CreatesColumn(fields[f].kind)
  /\ \A j \in joins :
       \E f \in FieldsOf(j[1]) : fields[f].target = j[2] /\ fields[f].kind = "many_to_many"

\* Every row whose transaction committed has its table or column, and no row
\* written after a failure has one.
BuiltRowsHaveObjects ==
  /\ \A m \in Present : Built(m) <=> m \in tables
  /\ \A f \in FieldSet : CreatesColumn(fields[f].kind) =>
       (BuiltField(f) <=> <<fields[f].model, fields[f].code>> \in columns)

\* A field never outlives its model or the target of its relation.
RelationsResolve ==
  \A f \in FieldSet : /\ fields[f].model \in Present
                      /\ fields[f].target # None => fields[f].target \in Present

\* A model without the grant of its creation is about to get it, or its
\* creation was cut short.
GrantedUnlessCut ==
  \A m \in Present \ grants :
    m \in ungranted \/ \E p \in Requests : req[p].phase = "grant" /\ req[p].model = m

\* Metadata and physical schema agree whatever transactions interleave, fail
\* or deadlock: no orphaned table, column or join table, no committed row
\* without its objects, no dangling relation, no silently ungranted model
\* (model_definition_repository/mod.rs, physical_schema_repository.rs).
MetadataMatchesSchema ==
  NoOrphans /\ BuiltRowsHaveObjects /\ RelationsResolve /\ GrantedUnlessCut

\* What the registry should hold: the models that were built, and whose
\* fields were built or need nothing.  A many_to_many field takes its model
\* out, because the health check asks for a column it never has.
Servable(m) ==
  /\ Built(m)
  /\ \A f \in FieldsOf(m) : /\ fields[f].kind # "many_to_many"
                            /\ BuiltField(f) \/ fields[f].kind = "one_to_many"

\* The registry is what the metadata says, statuses and fields included, if
\* the rebuild that published it was not overtaken by a change and nothing
\* changed since (runtime_registry_sync.rs).
RegistryCurrentUnlessOvertaken ==
  fresh => registry = {Entry(m) : m \in {n \in Present : Servable(n)}}

\* A record operation finds its table or column missing, for which it takes the
\* model out of service, only if a change overtook it, if the registry it read
\* was already out of date, or if it asked for the records in the order of a
\* one_to_many field, which append_sort_clause takes for a column
\* (map_runtime_storage_error).
RecordsReachTheirTables ==
  \A p \in Requests :
    req[p].phase = "mark" => p \in lapped \/ req[p].kind = "one_to_many"

\* A rebuild that was not overtaken writes only true verdicts: a row it turns
\* available has its table or column, a row it turns unavailable has not
\* (refresh_runtime_model_health).
VerdictsAreTrue ==
  [][\A p \in Requests \ lapped : RecordField(p) \/ RecordModel(p) =>
       /\ \A m \in Present : models'[m].avail # models[m].avail =>
            models'[m].avail = Health(ModelUp(m))
       /\ \A f \in FieldSet : fields'[f].avail # fields[f].avail =>
            fields'[f].avail = Health(FieldUp(f))]_vars

\* Every request ends, whatever locks it waits for: a failed creation frees
\* its locks before it writes its broken row, and a circle of relations is
\* broken by the database.
EveryRequestEnds ==
  \A p \in Requests : req[p].phase # "idle" ~> req[p].phase = "idle"

\* A published model, all of whose fields were added without an error, is
\* open to record operations once the registry is up to date
\* (data-model-runtime-crud-design: many_to_many uses a join table, and a
\* published model is operated on by runtime CRUD).
BuiltModelsAreServed ==
  fresh => \A m \in Present :
    (Built(m) /\ \A f \in FieldsOf(m) : BuiltField(f)) => \E e \in registry : e.model = m
=============================================================================
