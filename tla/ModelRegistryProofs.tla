------------------------- MODULE ModelRegistryProofs -------------------------
(***************************************************************************)
(* That metadata and physical schema agree, that the registry and every    *)
(* verdict and record operation that no change overtook agree with both:   *)
(* for any number of requests, models, fields, codes and faults.           *)
(***************************************************************************)
EXTENDS ModelRegistry, TLAPS

USE ModelRegistryAssumption, RowAssumption

-----------------------------------------------------------------------------
\* Shapes

Ops == {"none", "create", "add", "delete_field", "delete", "status", "touch", "crud"}

Orders == [phase : Phases, op : Ops, model : ModelIds \cup {None}, field : FieldIds \cup {None},
           code : Codes \cup {None}, kind : Kinds \cup {None}, target : ModelIds \cup {None},
           status : Statuses \cup {None}]

ScanRows == [id : FieldIds, model : ModelIds, code : Codes, kind : Kinds, avail : Availability]
TodoRows == [id : ModelIds, status : Statuses, avail : Availability]
FieldEntries == SUBSET (FieldIds \X Codes \X Kinds)
Entries == [model : ModelIds, status : Statuses, fields : FieldEntries]
Scans == [rows : SUBSET ScanRows, todo : SUBSET TodoRows, kept : SUBSET Entries,
          down : SUBSET FieldIds, up : BOOLEAN, news : SUBSET FieldIds]

Tables ==
  /\ models \in [ModelIds -> ModelRows \cup {None}]
  /\ fields \in [FieldIds -> FieldRows \cup {None}]
  /\ tables \subseteq ModelIds /\ columns \subseteq tables \X Codes
  /\ joins \subseteq tables \X tables

Counters ==
  /\ minted \in [model : 0..MaxModels, field : 0..MaxFields, order : 0..MaxOrders]
  /\ lapped \subseteq Requests /\ fresh \in BOOLEAN /\ faults \in 0..MaxFaults

\* What a request has at hand where it is
Prepared(r) ==
  /\ r.phase = "insert" => r.model \in ModelIds /\ r.status \in Statuses
  /\ r.phase \in {"grant", "lock", "commit", "broken", "update", "query", "mark"} =>
       r.model \in ModelIds
  /\ r.phase = "update" => r.status \in Statuses
  /\ r.phase \in {"lock", "commit"} => r.op \in {"add", "delete_field", "delete"}
  /\ r.phase = "broken" => r.op = "add"
  /\ r.op = "add" => /\ r.phase \in {"lock", "commit", "broken"}
                     /\ r.field \in FieldIds /\ r.code \in Codes /\ r.kind \in Kinds
                     /\ r.target # None <=> r.kind \in Relations
  /\ r.op # "add" => r.target = None
  /\ r.op = "delete_field" => r.field \in FieldIds /\ r.phase \in {"lock", "commit"}
  /\ r.op \notin {"add", "delete_field"} => r.field = None

Handlers == /\ req \in [Requests -> Orders] /\ \A p \in Requests : Prepared(req[p])
            /\ scan \in [Requests -> Scans] /\ registry \subseteq Entries

\* Ids that were not issued are nowhere.
Issued ==
  /\ Present \subseteq 1..minted.model /\ FieldSet \subseteq 1..minted.field
  /\ tables \subseteq 1..minted.model
  /\ built \subseteq ({"model"} \X (1..minted.model)) \cup ({"field"} \X (1..minted.field))
  /\ \A e \in registry : e.model \in 1..minted.model
  /\ \A p \in Requests :
       /\ \A e \in scan[p].kept : e.model \in 1..minted.model
       /\ \A t \in scan[p].todo : t.id \in 1..minted.model
       /\ req[p].phase = "insert" => req[p].model \in 1..minted.model
       /\ req[p].field # None => req[p].field \in 1..minted.field

Types == Tables /\ Counters /\ Handlers /\ Issued

-----------------------------------------------------------------------------
\* Ownership

\* The model a request is about to create, and the field it is about to add,
\* are its own.
Adding(p) == req[p].op = "add"

FreshModels ==
  \A p \in Requests : req[p].phase = "insert" =>
    /\ req[p].model \notin Present /\ <<"model", req[p].model>> \notin built
    /\ \A q \in Requests \ {p} : req[q].phase = "insert" => req[q].model # req[p].model

FreshFields ==
  \A p \in Requests : Adding(p) =>
    /\ req[p].field \notin FieldSet /\ <<"field", req[p].field>> \notin built
    /\ \A q \in Requests \ {p} : req[q].field # req[p].field

\* A model is locked by one transaction, and is there.
Held ==
  \A p \in Requests : req[p].phase = "commit" =>
    /\ req[p].model \in Present
    /\ \A q \in Requests \ {p} : req[q].phase = "commit" => req[q].model # req[p].model

\* A field that is about to be deleted belongs to the model that is locked for it.
Condemned ==
  \A p \in Requests : req[p].op = "delete_field" =>
    /\ req[p].field \in FieldSet => fields[req[p].field].model = req[p].model
    /\ req[p].phase = "commit" => req[p].field \in FieldSet

Ownership == FreshModels /\ FreshFields /\ Held /\ Condemned

UniqueCodes ==
  \A f, g \in FieldSet :
    fields[f].model = fields[g].model /\ fields[f].code = fields[g].code => f = g

Schema == NoOrphans /\ BuiltRowsHaveObjects /\ RelationsResolve /\ UniqueCodes

-----------------------------------------------------------------------------
\* What a request that was not overtaken has read is so.

SeesFields(p) ==
  /\ \A r \in scan[p].rows : /\ r.id \in FieldSet /\ r.model = fields[r.id].model
                             /\ r.code = fields[r.id].code /\ r.kind = fields[r.id].kind
  /\ \A f \in FieldSet : \E r \in scan[p].rows : r.id = f

Inspected(p) ==
  {m \in Present : \A t \in scan[p].todo :
                     t.id = m => req[p].phase = "record" /\ Earliest(p, t)}

SeesModels(p) ==
  /\ \A t \in scan[p].todo : t.id \in Present /\ t.status = models[t.id].status
  /\ \A t, u \in scan[p].todo : t.id = u.id => t = u
  /\ scan[p].kept = {Entry(m) : m \in {n \in Inspected(p) : Servable(n)}}

Judges(p) ==
  /\ \E t \in scan[p].todo : Earliest(p, t)
  /\ \A t \in scan[p].todo : Earliest(p, t) =>
       /\ scan[p].up = ModelUp(t.id)
       /\ scan[p].down = {f \in FieldsOf(t.id) : ~FieldUp(f)}
       /\ scan[p].news \subseteq FieldsOf(t.id)

Finds(p) ==
  /\ req[p].model \in tables
  /\ req[p].code # None /\ req[p].kind # "one_to_many" =>
       <<req[p].model, req[p].code>> \in columns

Sees(p) ==
  /\ req[p].phase \in {"list_models", "inspect", "record"} => SeesFields(p)
  /\ req[p].phase = "list_models" => scan[p].kept = {}
  /\ req[p].phase \in {"inspect", "record"} => SeesModels(p)
  /\ req[p].phase = "record" => Judges(p)
  /\ req[p].phase = "query" => Finds(p)
  /\ req[p].phase = "mark" => req[p].kind = "one_to_many"

ServableEntries == {Entry(m) : m \in {n \in Present : Servable(n)}}

Served == fresh => registry = ServableEntries

Current == Served /\ \A p \in Requests \ lapped : Sees(p)

Inv == Types /\ Ownership /\ Schema /\ GrantedUnlessCut /\ Current

-----------------------------------------------------------------------------
\* Requests

LEMMA IdlePrepared ==
  /\ Idle \in Orders /\ Prepared(Idle)
  /\ [Idle EXCEPT !.phase = "list_fields"] \in Orders
  /\ Prepared([Idle EXCEPT !.phase = "list_fields"])
  /\ NoScan \in Scans
<1>1. Idle \in Orders /\ [Idle EXCEPT !.phase = "list_fields"] \in Orders
  BY DEF Idle, Orders, Phases, Ops
<1>2. Prepared(Idle)
  BY DEF Idle, Prepared
<1>3. Prepared([Idle EXCEPT !.phase = "list_fields"])
  BY DEF Idle, Prepared
<1>4. NoScan \in Scans
  BY DEF NoScan, Scans
<1>5. QED
  BY <1>1, <1>2, <1>3, <1>4

LEMMA MovedOrder ==
  ASSUME NEW r \in Orders, NEW x \in Phases
  PROVE  LET s == [r EXCEPT !.phase = x]
         IN  /\ s \in Orders /\ s.phase = x /\ s.op = r.op /\ s.model = r.model
             /\ s.field = r.field /\ s.code = r.code /\ s.kind = r.kind
             /\ s.target = r.target /\ s.status = r.status
BY DEF Orders

\* A step of p gives it a well prepared order and leaves the other requests alone.
Takes(p, r) == /\ r \in Orders /\ Prepared(r)
               /\ req' = [req EXCEPT ![p] = r]

LEMMA TakesIdle ==
  ASSUME NEW p \in Requests
  PROVE  /\ req' = Done(p) => Takes(p, Idle)
         /\ req' = Rebuild(p) => Takes(p, [Idle EXCEPT !.phase = "list_fields"])
BY IdlePrepared DEF Takes, Done, Rebuild

LEMMA TakesTo ==
  ASSUME Handlers, NEW p \in Requests, NEW x \in Phases, req' = To(p, x),
         Prepared([req[p] EXCEPT !.phase = x])
  PROVE  Takes(p, [req[p] EXCEPT !.phase = x])
<1>1. req[p] \in Orders /\ req' = [req EXCEPT ![p] = [req[p] EXCEPT !.phase = x]]
  BY DEF Handlers, To
<1>2. QED
  BY <1>1, MovedOrder DEF Takes

LEMMA TakesOthers ==
  ASSUME Handlers, NEW p \in Requests, NEW r, Takes(p, r)
  PROVE  /\ req' \in [Requests -> Orders] /\ req'[p] = r
         /\ \A q \in Requests \ {p} : req'[q] = req[q]
         /\ \A q \in Requests : Prepared(req'[q])
BY DEF Handlers, Takes

LEMMA Ordered ==
  ASSUME NEW op \in Ops, NEW x \in Phases, NEW m \in ModelIds \cup {None}
  PROVE  /\ Order(op, x, m) \in Orders
         /\ Order(op, x, m).op = op /\ Order(op, x, m).phase = x /\ Order(op, x, m).model = m
         /\ Order(op, x, m).field = None /\ Order(op, x, m).target = None
         /\ Order(op, x, m).code = None
BY DEF Order, Idle, Orders

\* What the first step of a request gives it
Begins(p, r) ==
  /\ Takes(p, r) /\ req[p].phase = "idle"
  /\ r.phase \in {"insert", "lock", "update", "list_fields", "query"}
  /\ r.phase = "query" => LoadMetadata(p)
  /\ r.phase = "insert" => r.model = minted.model + 1 /\ minted'.model = minted.model + 1
  /\ r.op = "add" => r.field = minted.field + 1 /\ minted'.field = minted.field + 1
  /\ r.op = "delete_field" => r.field \in FieldSet /\ r.model = fields[r.field].model
  /\ minted' \in [model : 0..MaxModels, field : 0..MaxFields, order : 0..MaxOrders]
  /\ minted'.model >= minted.model /\ minted'.field >= minted.field
  /\ lapped \subseteq lapped' /\ lapped' \subseteq lapped \cup {p}
  /\ UNCHANGED <<rows, grants, registry, scan, ungranted, fresh, faults>>

LEMMA CountedOrder ==
  ASSUME Counters, NEW p \in Requests, Accept(p)
  PROVE  /\ Counted \in [model : 0..MaxModels, field : 0..MaxFields, order : 0..MaxOrders]
         /\ Counted.model = minted.model /\ Counted.field = minted.field
BY DEF Counters, Counted, Accept

LEMMA BeginsOrder ==
  ASSUME NEW p \in Requests, NEW r \in Orders, Prepared(r), Begin(p, r),
         r.phase \in {"insert", "lock", "update", "list_fields"},
         r.phase = "insert" => r.model = minted.model + 1 /\ minted'.model = minted.model + 1,
         r.op = "add" => r.field = minted.field + 1 /\ minted'.field = minted.field + 1,
         r.op = "delete_field" => r.field \in FieldSet /\ r.model = fields[r.field].model,
         minted' \in [model : 0..MaxModels, field : 0..MaxFields, order : 0..MaxOrders],
         minted'.model >= minted.model /\ minted'.field >= minted.field
  PROVE  Begins(p, r)
BY DEF Begins, Begin, Takes, Accept

LEMMA Rows ==
  ASSUME Tables
  PROVE  /\ Present \subseteq ModelIds /\ FieldSet \subseteq FieldIds
         /\ \A m \in Present : models[m] \in ModelRows
         /\ \A f \in FieldSet : fields[f] \in FieldRows
BY DEF Tables, Present, FieldSet

LEMMA Started ==
  ASSUME Types, NEW p \in Requests, Start(p) \/ LoadMetadata(p)
  PROVE  \E r : Begins(p, r)
<1> USE DEF Types
<1>0. Tables /\ Counters
  OBVIOUS
<1>1. CASE StartCreate(p)
  <2>1. PICK s \in Statuses :
          Begin(p, [Order("create", "insert", minted'.model) EXCEPT !.status = s])
    BY <1>1 DEF StartCreate
  <2>2. minted' = [Counted EXCEPT !.model = @ + 1] /\ minted.model < MaxModels /\ Accept(p)
    BY <1>1, <2>1 DEF StartCreate, Begin
  <2>3. /\ minted' \in [model : 0..MaxModels, field : 0..MaxFields, order : 0..MaxOrders]
        /\ minted'.model = minted.model + 1 /\ minted'.field = minted.field
    BY <1>0, <2>2, CountedOrder DEF Counters
  <2> DEFINE m == minted'.model
             o == Order("create", "insert", m)
             r == [o EXCEPT !.status = s]
  <2>4. m \in ModelIds
    BY <1>0, <2>3 DEF ModelIds, Counters
  <2>5. o \in Orders /\ o.op = "create" /\ o.phase = "insert" /\ o.model = m /\ o.field = None
        /\ o.target = None
    BY <2>4, Ordered DEF Ops, Phases
  <2>6. r \in Orders /\ r.op = "create" /\ r.phase = "insert" /\ r.model = m /\ r.field = None
        /\ r.target = None /\ r.status = s
    BY <2>5 DEF Orders
  <2>7. Prepared(r)
    BY <2>4, <2>6 DEF Prepared
  <2>8. minted.field \in 0..MaxFields /\ minted.model \in 0..MaxModels
    BY <1>0 DEF Counters
  <2>9. Begin(p, r)
    BY <2>1
  <2> HIDE DEF r
  <2>10. Begins(p, r)
    BY <2>9, <2>3, <2>6, <2>7, <2>8, BeginsOrder
  <2>11. QED
    BY <2>10
<1>2. CASE StartAdd(p)
  <2>1. minted.field < MaxFields /\ minted' = [Counted EXCEPT !.field = @ + 1]
    BY <1>2 DEF StartAdd
  <2>2. PICK m \in Present, c \in Codes, k \in Kinds :
          \E t \in IF k \in Relations THEN Present \ {m} ELSE {None} :
            Begin(p, [Order("add", "lock", m) EXCEPT !.code = c, !.kind = k, !.target = t,
                                                     !.field = minted'.field])
    BY <1>2 DEF StartAdd
  <2>3. PICK t \in IF k \in Relations THEN Present \ {m} ELSE {None} :
          Begin(p, [Order("add", "lock", m) EXCEPT !.code = c, !.kind = k, !.target = t,
                                                   !.field = minted'.field])
    BY <2>2
  <2>4. Accept(p)
    BY <2>3 DEF Begin
  <2>5. /\ minted' \in [model : 0..MaxModels, field : 0..MaxFields, order : 0..MaxOrders]
        /\ minted'.field = minted.field + 1 /\ minted'.model = minted.model
    BY <1>0, <2>1, <2>4, CountedOrder DEF Counters
  <2>6. minted.field \in 0..MaxFields /\ minted.model \in 0..MaxModels
    BY <1>0 DEF Counters
  <2> DEFINE f == minted'.field
             o == Order("add", "lock", m)
             r == [o EXCEPT !.code = c, !.kind = k, !.target = t, !.field = f]
  <2>7. m \in ModelIds /\ f \in FieldIds /\ t \in ModelIds \cup {None}
        /\ (t # None <=> k \in Relations)
    <3>1. Present \subseteq ModelIds /\ None \notin ModelIds
      BY <1>0, Rows DEF ModelIds
    <3>2. f \in FieldIds
      BY <2>5, <2>6 DEF FieldIds
    <3>3. QED
      BY <3>1, <3>2
  <2>8. o \in Orders /\ o.op = "add" /\ o.phase = "lock" /\ o.model = m
    BY <2>7, Ordered DEF Ops, Phases
  <2>9. r \in Orders /\ r.op = "add" /\ r.phase = "lock" /\ r.model = m /\ r.field = f
        /\ r.code = c /\ r.kind = k /\ r.target = t
    BY <2>7, <2>8 DEF Orders
  <2>10. Prepared(r)
    BY <2>7, <2>9 DEF Prepared
  <2>11. Begin(p, r)
    BY <2>3
  <2> HIDE DEF r
  <2>12. Begins(p, r)
    BY <2>11, <2>5, <2>6, <2>9, <2>10, BeginsOrder
  <2>13. QED
    BY <2>12
<1>3. CASE StartDeleteField(p)
  <2>1. PICK f \in FieldSet :
          Begin(p, [Order("delete_field", "lock", fields[f].model) EXCEPT !.field = f])
    BY <1>3 DEF StartDeleteField
  <2>2. Accept(p) /\ minted' = Counted
    BY <1>3, <2>1 DEF StartDeleteField, Begin
  <2> DEFINE m == fields[f].model
             o == Order("delete_field", "lock", m)
             r == [o EXCEPT !.field = f]
  <2>3. f \in FieldIds /\ m \in ModelIds
    BY <1>0, Rows DEF FieldRows
  <2>4. o \in Orders /\ o.op = "delete_field" /\ o.phase = "lock" /\ o.model = m
        /\ o.target = None
    BY <2>3, Ordered DEF Ops, Phases
  <2>5. r \in Orders /\ r.op = "delete_field" /\ r.phase = "lock" /\ r.model = m /\ r.field = f
        /\ r.target = None
    BY <2>3, <2>4 DEF Orders
  <2>6. Prepared(r)
    BY <2>3, <2>5 DEF Prepared
  <2>7. minted.field \in 0..MaxFields /\ minted.model \in 0..MaxModels
    BY <1>0 DEF Counters
  <2>8. Begin(p, r)
    BY <2>1
  <2> HIDE DEF r
  <2>9. Begins(p, r)
    BY <1>0, <2>8, <2>2, <2>5, <2>6, <2>7, BeginsOrder, CountedOrder
  <2>10. QED
    BY <2>9
<1>4. CASE StartDelete(p)
  <2>1. PICK m \in Present : Begin(p, Order("delete", "lock", m))
    BY <1>4 DEF StartDelete
  <2>2. Accept(p) /\ minted' = Counted
    BY <1>4, <2>1 DEF StartDelete, Begin
  <2> DEFINE r == Order("delete", "lock", m)
  <2>3. m \in ModelIds
    BY <1>0, Rows
  <2>4. r \in Orders /\ r.op = "delete" /\ r.phase = "lock" /\ r.model = m /\ r.field = None
        /\ r.target = None
    BY <2>3, Ordered DEF Ops, Phases
  <2>5. Prepared(r)
    BY <2>3, <2>4 DEF Prepared
  <2>6. minted.field \in 0..MaxFields /\ minted.model \in 0..MaxModels
    BY <1>0 DEF Counters
  <2>7. Begins(p, r)
    BY <1>0, <2>1, <2>2, <2>4, <2>5, <2>6, BeginsOrder, CountedOrder
  <2>8. QED
    BY <2>7
<1>5. CASE StartStatus(p)
  <2>1. PICK m \in Present : \E s \in Statuses \ {models[m].status} :
          Begin(p, [Order("status", "update", m) EXCEPT !.status = s])
    BY <1>5 DEF StartStatus
  <2>2. PICK s \in Statuses : Begin(p, [Order("status", "update", m) EXCEPT !.status = s])
    BY <2>1
  <2>3. Accept(p) /\ minted' = Counted
    BY <1>5, <2>2 DEF StartStatus, Begin
  <2> DEFINE o == Order("status", "update", m)
             r == [o EXCEPT !.status = s]
  <2>4. m \in ModelIds
    BY <1>0, Rows
  <2>5. o \in Orders /\ o.op = "status" /\ o.phase = "update" /\ o.model = m /\ o.field = None
        /\ o.target = None
    BY <2>4, Ordered DEF Ops, Phases
  <2>6. r \in Orders /\ r.op = "status" /\ r.phase = "update" /\ r.model = m /\ r.field = None
        /\ r.target = None /\ r.status = s
    BY <2>5 DEF Orders
  <2>7. Prepared(r)
    BY <2>4, <2>6 DEF Prepared
  <2>8. minted.field \in 0..MaxFields /\ minted.model \in 0..MaxModels
    BY <1>0 DEF Counters
  <2>9. Begin(p, r)
    BY <2>2
  <2> HIDE DEF r
  <2>10. Begins(p, r)
    BY <1>0, <2>9, <2>3, <2>6, <2>7, <2>8, BeginsOrder, CountedOrder
  <2>11. QED
    BY <2>10
<1>6. CASE StartTouch(p)
  <2>1. Begin(p, Order("touch", "list_fields", None)) /\ Accept(p) /\ minted' = Counted
    BY <1>6 DEF StartTouch, Begin
  <2> DEFINE r == Order("touch", "list_fields", None)
  <2>2. r \in Orders /\ r.op = "touch" /\ r.phase = "list_fields" /\ r.field = None
        /\ r.target = None
    BY Ordered DEF Ops, Phases
  <2>3. Prepared(r)
    BY <2>2 DEF Prepared
  <2>4. minted.field \in 0..MaxFields /\ minted.model \in 0..MaxModels
    BY <1>0 DEF Counters
  <2>5. Begins(p, r)
    BY <1>0, <2>1, <2>2, <2>3, <2>4, BeginsOrder, CountedOrder
  <2>6. QED
    BY <2>5
<1>7. CASE LoadMetadata(p)
  <2>1. PICK e \in registry :
          LET o == Order("crud", "query", e.model) IN
          \/ req' = [req EXCEPT ![p] = o]
          \/ \E f \in e.fields : req' = [req EXCEPT ![p] = [o EXCEPT !.code = f[2], !.kind = f[3]]]
    BY <1>7 DEF LoadMetadata
  <2>2. Accept(p) /\ minted' = Counted
    BY <1>7 DEF LoadMetadata
  <2> DEFINE o == Order("crud", "query", e.model)
  <2>3. e.model \in ModelIds /\ \A f \in e.fields : f[2] \in Codes /\ f[3] \in Kinds
    <3>1. e \in Entries
      BY DEF Handlers
    <3>2. e.model \in ModelIds /\ e.fields \in FieldEntries
      BY <3>1 DEF Entries
    <3>3. QED
      BY <3>2 DEF FieldEntries
  <2>4. o \in Orders /\ o.op = "crud" /\ o.phase = "query" /\ o.model = e.model /\ o.field = None
        /\ o.target = None
    BY <2>3, Ordered DEF Ops, Phases
  <2>5. PICK r \in Orders : /\ req' = [req EXCEPT ![p] = r]
                            /\ r.op = "crud" /\ r.phase = "query" /\ r.model = e.model
                            /\ r.field = None /\ r.target = None
    <3>1. CASE req' = [req EXCEPT ![p] = o]
      BY <2>4, <3>1
    <3>2. ASSUME NEW f \in e.fields, req' = [req EXCEPT ![p] = [o EXCEPT !.code = f[2], !.kind = f[3]]]
          PROVE  \E r \in Orders : /\ req' = [req EXCEPT ![p] = r]
                                   /\ r.op = "crud" /\ r.phase = "query" /\ r.model = e.model
                                   /\ r.field = None /\ r.target = None
      <4> DEFINE r == [o EXCEPT !.code = f[2], !.kind = f[3]]
      <4>1. r \in Orders /\ r.op = "crud" /\ r.phase = "query" /\ r.model = e.model
            /\ r.field = None /\ r.target = None
        BY <2>3, <2>4 DEF Orders
      <4> HIDE DEF r
      <4>2. req' = [req EXCEPT ![p] = r]
        BY <3>2 DEF r
      <4>3. QED
        BY <4>1, <4>2
    <3>3. QED
      BY <2>1, <3>1, <3>2
  <2>6. Prepared(r)
    BY <2>3, <2>5 DEF Prepared
  <2>7. minted.field \in 0..MaxFields /\ minted.model \in 0..MaxModels
    BY <1>0 DEF Counters
  <2>8. lapped \subseteq lapped' /\ lapped' \subseteq lapped \cup {p}
        /\ UNCHANGED <<rows, grants, registry, scan, ungranted, fresh, faults>>
    BY <1>7 DEF LoadMetadata
  <2>9. /\ minted' \in [model : 0..MaxModels, field : 0..MaxFields, order : 0..MaxOrders]
        /\ minted'.model = minted.model /\ minted'.field = minted.field
    BY <1>0, <2>2, CountedOrder
  <2>10. Begins(p, r)
    BY <1>7, <2>2, <2>5, <2>6, <2>7, <2>8, <2>9 DEF Begins, Takes, Accept
  <2>11. QED
    BY <2>10
<1>8. QED
  BY <1>1, <1>2, <1>3, <1>4, <1>5, <1>6, <1>7 DEF Start


\* What a later step of a request makes of it
Continues(p, r) ==
  /\ Takes(p, r) /\ req[p].phase # "idle" /\ minted' = minted
  /\ r.phase \notin {"insert", "lock", "query"}
  /\ r.op = "add" => req[p].op = "add"
  /\ r.op \in {"add", "delete_field"} => /\ r.op = req[p].op /\ r.field = req[p].field
                                         /\ r.model = req[p].model
  /\ r.phase = "commit" => /\ req[p].phase = "lock" /\ ~LockedByOther(p, req[p].model)
                           /\ req[p].model \in Present /\ r.model = req[p].model
                           /\ r.op = "delete_field" => req[p].field \in FieldSet
  /\ r.phase = "grant" => req[p].phase = "insert" /\ r.model = req[p].model
  /\ r.phase = "mark" => req[p].phase = "query" /\ r.model = req[p].model

LEMMA Ends ==
  ASSUME NEW p \in Requests, req[p].phase # "idle", minted' = minted,
         req' = Done(p) \/ req' = Rebuild(p)
  PROVE  \E r : Continues(p, r) /\ r.phase \in {"idle", "list_fields"}
<1>1. CASE req' = Done(p)
  <2>1. Takes(p, Idle)
    BY <1>1, TakesIdle
  <2>2. Idle.phase = "idle" /\ Idle.op = "none"
    BY DEF Idle
  <2>3. Continues(p, Idle)
    BY <2>1, <2>2 DEF Continues
  <2>4. QED
    BY <2>2, <2>3
<1>2. CASE req' = Rebuild(p)
  <2> DEFINE r == [Idle EXCEPT !.phase = "list_fields"]
  <2>1. Takes(p, r)
    BY <1>2, TakesIdle
  <2>2. r.phase = "list_fields" /\ r.op = "none"
    BY DEF Idle
  <2> HIDE DEF r
  <2>3. Continues(p, r)
    BY <2>1, <2>2 DEF Continues
  <2>4. QED
    BY <2>2, <2>3
<1>3. QED
  BY <1>1, <1>2

LEMMA GoesTo ==
  ASSUME Handlers, NEW p \in Requests, NEW x \in Phases \ {"insert", "lock", "query"},
         req[p].phase # "idle", minted' = minted, req' = To(p, x),
         Prepared([req[p] EXCEPT !.phase = x]),
         x = "commit" => /\ req[p].phase = "lock" /\ ~LockedByOther(p, req[p].model)
                         /\ ~Missing(p),
         x = "grant" => req[p].phase = "insert",
         x = "mark" => req[p].phase = "query"
  PROVE  \E r : Continues(p, r) /\ r = [req[p] EXCEPT !.phase = x]
<1> DEFINE r == [req[p] EXCEPT !.phase = x]
<1>1. r.phase = x /\ r.op = req[p].op /\ r.model = req[p].model /\ r.field = req[p].field
  BY MovedOrder DEF Handlers
<1>2. Takes(p, r)
  BY TakesTo
<1>3. x = "commit" => req[p].model \in Present
                      /\ (req[p].op = "delete_field" => req[p].field \in FieldSet)
  BY DEF Missing
<1> HIDE DEF r
<1>4. Continues(p, r)
  BY <1>1, <1>2, <1>3 DEF Continues
<1>5. QED
  BY <1>4 DEF r

\* The steps that keep the order of a request
Proceeds(p) ==
  \/ CreateModel(p) \/ LockModel(p) \/ AddFieldFails(p) \/ ListFields(p) \/ ListModels(p)
  \/ InspectModel(p) \/ RecordField(p) \/ RecordModel(p) \/ QueryRecords(p)

LEMMA Stepped ==
  ASSUME Types, NEW p \in Requests, Step(p) \/ Cut(p)
  PROVE  \E r : Continues(p, r)
<1>0. Handlers /\ req[p] \in Orders /\ Prepared(req[p]) /\ req[p].phase \in Phases
  BY DEF Types, Handlers, Orders
<1>1. req[p].phase # "idle" /\ minted' = minted
  BY DEF Step, Cut, CreateModel, CreateModelFails, GrantModel, LockModel, AddField,
         AddFieldFails, FieldAfterFailure, DeleteField, DeleteModel, DeletionFails, UpdateStatus,
         ListFields, ListModels, InspectModel, RecordField, RecordModel, Publish, QueryRecords,
         MarkUnavailable, store
<1>2. CASE req' = Done(p) \/ req' = Rebuild(p)
  BY <1>1, <1>2, Ends
<1>3. CASE CreateModel(p)
  <2>1. req' = To(p, "grant") /\ req[p].phase = "insert"
    BY <1>3 DEF CreateModel
  <2>2. Prepared([req[p] EXCEPT !.phase = "grant"])
    BY <1>0, <2>1, MovedOrder DEF Prepared, Phases
  <2>3. QED
    BY <1>0, <1>1, <2>1, <2>2, GoesTo DEF Phases
<1>4. CASE LockModel(p)
  <2>1. CASE Missing(p)
    BY <1>2, <1>4, <2>1 DEF LockModel
  <2>2. CASE ~Missing(p)
    <3>1. req' = To(p, "commit") /\ req[p].phase = "lock" /\ ~LockedByOther(p, req[p].model)
      BY <1>4, <2>2 DEF LockModel
    <3>2. Prepared([req[p] EXCEPT !.phase = "commit"])
      BY <1>0, <3>1, MovedOrder DEF Prepared, Phases
    <3>3. QED
      BY <1>0, <1>1, <2>2, <3>1, <3>2, GoesTo DEF Phases
  <2>3. QED
    BY <2>1, <2>2
<1>5. CASE AddFieldFails(p)
  <2>1. req' = To(p, "broken") /\ req[p].phase = "commit" /\ req[p].op = "add"
    BY <1>5 DEF AddFieldFails
  <2>2. Prepared([req[p] EXCEPT !.phase = "broken"])
    BY <1>0, <2>1, MovedOrder DEF Prepared, Phases
  <2>3. QED
    BY <1>0, <1>1, <2>1, <2>2, GoesTo DEF Phases
<1>6. CASE ListFields(p) \/ ListModels(p) \/ InspectModel(p) \/ RecordField(p) \/ RecordModel(p)
  <2>1. PICK x \in {"list_models", "inspect", "record"} : req' = To(p, x)
    <3>1. CASE InspectModel(p)
      <4>1. req' = To(p, "record") \/ req' = req
        BY <3>1 DEF InspectModel
      <4>2. req[p].phase = "inspect"
        BY <3>1 DEF InspectModel
      <4>3. req = To(p, "inspect")
        BY <1>0, <4>2 DEF To, Handlers, Orders
      <4>4. QED
        BY <4>1, <4>3
    <3>2. CASE RecordField(p)
      <4>1. req' = req /\ req[p].phase = "record"
        BY <3>2 DEF RecordField
      <4>2. req = To(p, "record")
        BY <1>0, <4>1 DEF To, Handlers, Orders
      <4>3. QED
        BY <4>1, <4>2
    <3>3. QED
      BY <1>6, <3>1, <3>2 DEF ListFields, ListModels, RecordModel
  <2>2. req[p].phase \in {"list_fields", "list_models", "inspect", "record"}
    BY <1>6 DEF ListFields, ListModels, InspectModel, RecordField, RecordModel
  <2>3. Prepared([req[p] EXCEPT !.phase = x])
    BY <1>0, <2>2, MovedOrder DEF Prepared, Phases
  <2>4. QED
    BY <1>0, <1>1, <2>1, <2>3, GoesTo DEF Phases
<1>7. CASE QueryRecords(p)
  <2>1. CASE ObjectMissing(p)
    <3>1. req' = To(p, "mark") /\ req[p].phase = "query"
      BY <1>7, <2>1 DEF QueryRecords
    <3>2. Prepared([req[p] EXCEPT !.phase = "mark"])
      BY <1>0, <3>1, MovedOrder DEF Prepared, Phases
    <3>3. QED
      BY <1>0, <1>1, <3>1, <3>2, GoesTo DEF Phases
  <2>2. CASE ~ObjectMissing(p)
    BY <1>2, <1>7, <2>2 DEF QueryRecords, Leave
  <2>3. QED
    BY <2>1, <2>2
<1>8. CASE ~Proceeds(p)
  <2>1. req' = Done(p) \/ req' = Rebuild(p)
    BY <1>8 DEF Proceeds, Step, Cut, CreateModelFails, GrantModel, AddField, FieldAfterFailure,
                DeleteField, DeleteModel, DeletionFails, UpdateStatus, Publish, MarkUnavailable, Leave
  <2>2. QED
    BY <1>2, <2>1
<1>9. QED
  BY <1>3, <1>4, <1>5, <1>6, <1>7, <1>8 DEF Proceeds

-----------------------------------------------------------------------------
\* Rows

LEMMA PutModel ==
  ASSUME Tables, NEW m \in ModelIds, NEW row \in ModelRows, models' = [models EXCEPT ![m] = row]
  PROVE  /\ models' \in [ModelIds -> ModelRows \cup {None}] /\ Present' = Present \cup {m}
         /\ models'[m] = row /\ \A n \in ModelIds \ {m} : models'[n] = models[n]
<1>1. models' \in [ModelIds -> ModelRows \cup {None}] /\ models'[m] = row
      /\ \A n \in ModelIds \ {m} : models'[n] = models[n]
  BY DEF Tables
<1>2. row # None
  OBVIOUS
<1>3. QED
  BY <1>1, <1>2 DEF Present

LEMMA PutField ==
  ASSUME Tables, NEW f \in FieldIds, NEW row \in FieldRows, fields' = [fields EXCEPT ![f] = row]
  PROVE  /\ fields' \in [FieldIds -> FieldRows \cup {None}] /\ FieldSet' = FieldSet \cup {f}
         /\ fields'[f] = row /\ \A g \in FieldIds \ {f} : fields'[g] = fields[g]
<1>1. fields' \in [FieldIds -> FieldRows \cup {None}] /\ fields'[f] = row
      /\ \A g \in FieldIds \ {f} : fields'[g] = fields[g]
  BY DEF Tables
<1>2. row # None
  OBVIOUS
<1>3. QED
  BY <1>1, <1>2 DEF FieldSet

LEMMA DropFields ==
  ASSUME Tables, NEW S, fields' = [f \in FieldIds |-> IF f \in S THEN None ELSE fields[f]]
  PROVE  /\ fields' \in [FieldIds -> FieldRows \cup {None}] /\ FieldSet' = FieldSet \ S
         /\ \A g \in FieldSet' : fields'[g] = fields[g]
BY DEF Tables, FieldSet

\* Nothing changes but the health of rows.
SameSchema ==
  /\ Present' = Present /\ FieldSet' = FieldSet
  /\ \A m \in Present : models'[m].status = models[m].status
  /\ \A f \in FieldSet :
       /\ fields'[f].model = fields[f].model /\ fields'[f].code = fields[f].code
       /\ fields'[f].kind = fields[f].kind /\ fields'[f].target = fields[f].target
  /\ UNCHANGED <<tables, columns, joins, built>>

LEMMA SameRows ==
  ASSUME UNCHANGED rows
  PROVE  SameSchema /\ (Tables => Tables')
BY DEF SameSchema, rows, Tables, Present, FieldSet

LEMMA HealthIs ==
  \A up : Health(up) \in Availability
BY DEF Health, Availability

\* The health of the models M and of the fields F is written.
Judging(M, F, up, ok) ==
  /\ models' = [m \in ModelIds |-> IF m \in M THEN [models[m] EXCEPT !.avail = up[m]]
                                              ELSE models[m]]
  /\ fields' = [f \in FieldIds |-> IF f \in F THEN [fields[f] EXCEPT !.avail = ok[f]]
                                              ELSE fields[f]]
  /\ UNCHANGED <<tables, columns, joins, built>>

LEMMA Judged ==
  ASSUME Tables, NEW M \in SUBSET Present, NEW F \in SUBSET FieldSet,
         NEW up \in [ModelIds -> Availability], NEW ok \in [FieldIds -> Availability],
         Judging(M, F, up, ok)
  PROVE  /\ SameSchema /\ Tables'
         /\ \A m \in M : models'[m].avail = up[m]
         /\ \A m \in Present \ M : models'[m] = models[m]
         /\ \A f \in F : fields'[f].avail = ok[f]
         /\ \A f \in FieldSet \ F : fields'[f] = fields[f]
<1>0. /\ Present \subseteq ModelIds /\ FieldSet \subseteq FieldIds
      /\ \A m \in Present : models[m] \in ModelRows
      /\ \A f \in FieldSet : fields[f] \in FieldRows
  BY Rows
<1>1. ASSUME NEW m \in M
      PROVE  models'[m] \in ModelRows /\ models'[m].status = models[m].status
             /\ models'[m].avail = up[m]
  BY <1>0 DEF ModelRows, Judging
<1>2. \A m \in ModelIds \ M : models'[m] = models[m]
  BY DEF Judging
<1>3. ASSUME NEW f \in F
      PROVE  /\ fields'[f] \in FieldRows /\ fields'[f].avail = ok[f]
             /\ fields'[f].model = fields[f].model /\ fields'[f].code = fields[f].code
             /\ fields'[f].kind = fields[f].kind /\ fields'[f].target = fields[f].target
  BY <1>0 DEF FieldRows, Judging
<1>4. \A f \in FieldIds \ F : fields'[f] = fields[f]
  BY DEF Judging
<1>5. models' \in [ModelIds -> ModelRows \cup {None}]
      /\ fields' \in [FieldIds -> FieldRows \cup {None}]
  BY <1>1, <1>2, <1>3, <1>4 DEF Tables, Judging
<1>6. Present' = Present
  <2>1. \A m \in M : models'[m] # None /\ models[m] # None
    BY <1>0, <1>1
  <2>2. QED
    BY <1>2, <2>1 DEF Present
<1>7. FieldSet' = FieldSet
  <2>1. \A f \in F : fields'[f] # None /\ fields[f] # None
    BY <1>0, <1>3
  <2>2. QED
    BY <1>4, <2>1 DEF FieldSet
<1>8. SameSchema
  BY <1>0, <1>1, <1>2, <1>3, <1>4, <1>6, <1>7 DEF SameSchema, Judging
<1>9. QED
  BY <1>0, <1>1, <1>2, <1>3, <1>4, <1>5, <1>8 DEF Tables, Judging

LEMMA RecordFieldEffect ==
  ASSUME Types, NEW p \in Requests, RecordField(p)
  PROVE  /\ SameSchema /\ Tables' /\ req' = req /\ models' = models
         /\ \E f \in scan[p].news :
              /\ scan' = [scan EXCEPT ![p].news = @ \ {f}]
              /\ f \in FieldSet => fields'[f].avail = Health(f \notin scan[p].down)
              /\ \A g \in FieldSet \ {f} : fields'[g] = fields[g]
<1>1. PICK f \in scan[p].news :
        /\ fields' = IF f \in FieldSet
                     THEN [fields EXCEPT ![f].avail = Health(f \notin scan[p].down)] ELSE fields
        /\ scan' = [scan EXCEPT ![p].news = @ \ {f}]
  BY DEF RecordField
<1>2. UNCHANGED <<req, models, tables, columns, joins, built>>
  BY DEF RecordField
<1> DEFINE F == {f} \cap FieldSet
           up == [m \in ModelIds |-> "available"]
           ok == [g \in FieldIds |-> Health(g \notin scan[p].down)]
<1>3. Tables /\ Present \subseteq ModelIds /\ FieldSet \subseteq FieldIds
  BY Rows DEF Types
<1>4. up \in [ModelIds -> Availability] /\ ok \in [FieldIds -> Availability]
  BY HealthIs DEF Availability
<1>5. models' = [m \in ModelIds |-> IF m \in {} THEN [models[m] EXCEPT !.avail = up[m]] ELSE models[m]]
  BY <1>2, <1>3 DEF Tables
<1>6. fields' = [g \in FieldIds |-> IF g \in F THEN [fields[g] EXCEPT !.avail = ok[g]] ELSE fields[g]]
  <2>1. fields = [g \in FieldIds |-> fields[g]]
    BY <1>3 DEF Tables
  <2>2. CASE f \in FieldSet
    BY <1>1, <1>3, <2>1, <2>2
  <2>3. CASE f \notin FieldSet
    BY <1>1, <2>1, <2>3
  <2>4. QED
    BY <2>2, <2>3
<1>7. {} \in SUBSET Present /\ F \in SUBSET FieldSet
  OBVIOUS
<1> HIDE DEF F, up, ok
<1>8. Judging({}, F, up, ok)
  BY <1>2, <1>5, <1>6 DEF Judging
<1>9. /\ SameSchema /\ Tables' /\ \A g \in F : fields'[g].avail = ok[g]
      /\ \A g \in FieldSet \ F : fields'[g] = fields[g]
  BY <1>3, <1>4, <1>7, <1>8, Judged
<1>10. f \in FieldSet => fields'[f].avail = Health(f \notin scan[p].down)
  BY <1>3, <1>9 DEF F, ok
<1>11. \A g \in FieldSet \ {f} : fields'[g] = fields[g]
  BY <1>9 DEF F
<1>12. QED
  BY <1>1, <1>2, <1>9, <1>10, <1>11

LEMMA RecordModelEffect ==
  ASSUME Types, NEW p \in Requests, RecordModel(p)
  PROVE  /\ SameSchema /\ Tables' /\ req' = To(p, "inspect") /\ fields' = fields
         /\ \E t \in scan[p].todo :
              /\ Earliest(p, t)
              /\ scan' = [scan EXCEPT ![p].todo = @ \ {t}, ![p].down = {}, ![p].up = TRUE]
              /\ \/ models' = models
                 \/ /\ t.id \in Present => models'[t.id].avail = Health(scan[p].up)
                    /\ \A m \in Present \ {t.id} : models'[m] = models[m]
<1>1. PICK t \in scan[p].todo :
        /\ Earliest(p, t)
        /\ models' = IF t.avail # Health(scan[p].up) /\ t.id \in Present
                     THEN [models EXCEPT ![t.id].avail = Health(scan[p].up)] ELSE models
        /\ scan' = [scan EXCEPT ![p].todo = @ \ {t}, ![p].down = {}, ![p].up = TRUE]
  BY DEF RecordModel
<1>2. req' = To(p, "inspect") /\ UNCHANGED <<fields, tables, columns, joins, built>>
  BY DEF RecordModel
<1> DEFINE news == t.avail # Health(scan[p].up)
           M == IF news THEN {t.id} \cap Present ELSE {}
           up == [m \in ModelIds |-> Health(scan[p].up)]
           ok == [f \in FieldIds |-> "available"]
<1>3. Tables /\ Present \subseteq ModelIds /\ FieldSet \subseteq FieldIds
  BY Rows DEF Types
<1>4. up \in [ModelIds -> Availability] /\ ok \in [FieldIds -> Availability]
  BY HealthIs DEF Availability
<1>5. models' = [m \in ModelIds |->
                   IF m \in M THEN [models[m] EXCEPT !.avail = up[m]] ELSE models[m]]
  <2>1. models = [m \in ModelIds |-> models[m]]
    BY <1>3 DEF Tables
  <2>2. CASE news /\ t.id \in Present
    BY <1>1, <1>3, <2>1, <2>2
  <2>3. CASE ~(news /\ t.id \in Present)
    BY <1>1, <2>1, <2>3
  <2>4. QED
    BY <2>2, <2>3
<1>6. fields' = [f \in FieldIds |-> IF f \in {} THEN [fields[f] EXCEPT !.avail = ok[f]] ELSE fields[f]]
  BY <1>2, <1>3 DEF Tables
<1>7. M \in SUBSET Present /\ {} \in SUBSET FieldSet
  OBVIOUS
<1> HIDE DEF up, ok
<1>8. Judging(M, {}, up, ok)
  BY <1>2, <1>5, <1>6 DEF Judging
<1>9. /\ SameSchema /\ Tables' /\ \A m \in M : models'[m].avail = up[m]
      /\ \A m \in Present \ M : models'[m] = models[m]
  <2> HIDE DEF M
  <2>1. QED
    BY <1>3, <1>4, <1>7, <1>8, Judged
<1>10. \/ models' = models
       \/ /\ t.id \in Present => models'[t.id].avail = Health(scan[p].up)
          /\ \A m \in Present \ {t.id} : models'[m] = models[m]
  BY <1>1, <1>3, <1>9 DEF up
<1>11. QED
  BY <1>1, <1>2, <1>9, <1>10

LEMMA MarkUnavailableEffect ==
  ASSUME Types, NEW p \in Requests, MarkUnavailable(p)
  PROVE  SameSchema /\ Tables'
<1>0. Tables /\ Present \subseteq ModelIds /\ FieldSet \subseteq FieldIds
  BY Rows DEF Types
<1> DEFINE m0 == req[p].model
           M == {m0} \cap Present
           up == [m \in ModelIds |-> "unavailable"]
           ok == [f \in FieldIds |-> "unavailable"]
<1>1. up \in [ModelIds -> Availability] /\ ok \in [FieldIds -> Availability]
  BY DEF Availability
<1>2. models' = [m \in ModelIds |->
                   IF m \in M THEN [models[m] EXCEPT !.avail = up[m]] ELSE models[m]]
  <2>1. models = [m \in ModelIds |-> models[m]]
    BY <1>0 DEF Tables
  <2>2. CASE m0 \in Present
    BY <1>0, <2>1, <2>2 DEF MarkUnavailable
  <2>3. CASE m0 \notin Present
    BY <2>1, <2>3 DEF MarkUnavailable
  <2>4. QED
    BY <2>2, <2>3
<1>3. fields' = [f \in FieldIds |->
                   IF f \in FieldsOf(m0) THEN [fields[f] EXCEPT !.avail = ok[f]] ELSE fields[f]]
  BY DEF MarkUnavailable
<1>4. M \in SUBSET Present /\ FieldsOf(m0) \in SUBSET FieldSet
  BY DEF FieldsOf
<1>5. UNCHANGED <<tables, columns, joins, built>>
  BY DEF MarkUnavailable
<1> HIDE DEF M, up, ok, m0
<1>6. Judging(M, FieldsOf(m0), up, ok)
  BY <1>2, <1>3, <1>5 DEF Judging
<1>7. QED
  BY <1>0, <1>1, <1>4, <1>6, Judged

LEMMA RestartEffect ==
  ASSUME Types, Restart
  PROVE  SameSchema /\ Tables'
<1>0. Tables /\ Present \subseteq ModelIds /\ FieldSet \subseteq FieldIds
  BY Rows DEF Types
<1> DEFINE up == [m \in ModelIds |-> Health(ModelUp(m))]
           ok == [f \in FieldIds |-> Health(FieldUp(f))]
<1>1. up \in [ModelIds -> Availability] /\ ok \in [FieldIds -> Availability]
  BY HealthIs
<1>2. models' = [m \in ModelIds |->
                   IF m \in Present THEN [models[m] EXCEPT !.avail = up[m]] ELSE models[m]]
  BY DEF Restart, Present
<1>3. fields' = [f \in FieldIds |->
                   IF f \in FieldSet THEN [fields[f] EXCEPT !.avail = ok[f]] ELSE fields[f]]
  BY DEF Restart, FieldSet
<1>4. UNCHANGED <<tables, columns, joins, built>>
  BY DEF Restart
<1> HIDE DEF up, ok
<1>5. Judging(Present, FieldSet, up, ok)
  BY <1>2, <1>3, <1>4 DEF Judging
<1>6. QED
  BY <1>0, <1>1, <1>5, Judged


\* A model row is written: created, or its status changed.
LEMMA CreateEffect ==
  ASSUME Types, NEW p \in Requests, CreateModel(p) \/ CreateModelFails(p)
  PROVE  /\ req[p].model \in ModelIds /\ Tables' /\ fields' = fields /\ FieldSet' = FieldSet
         /\ Present' = Present \cup {req[p].model}
         /\ \A n \in ModelIds \ {req[p].model} : models'[n] = models[n]
         /\ models'[req[p].model] # None
         /\ columns' = columns /\ joins' = joins
<1>1. Tables /\ req[p].model \in ModelIds /\ req[p].status \in Statuses
  BY DEF Types, Handlers, Prepared, CreateModel, CreateModelFails
<1>2. CASE CreateModel(p)
  <2> DEFINE row == [status |-> req[p].status, avail |-> "available"]
  <2>1. row \in ModelRows /\ models' = [models EXCEPT ![req[p].model] = row]
    BY <1>1, <1>2 DEF CreateModel, ModelRows, Availability
  <2> HIDE DEF row
  <2>2. UNCHANGED <<fields, columns, joins>> /\ tables' = tables \cup {req[p].model}
    BY <1>2 DEF CreateModel
  <2>3. /\ models' \in [ModelIds -> ModelRows \cup {None}]
        /\ Present' = Present \cup {req[p].model} /\ models'[req[p].model] = row
        /\ \A n \in ModelIds \ {req[p].model} : models'[n] = models[n]
    BY <1>1, <2>1, PutModel
  <2>4. /\ fields' \in [FieldIds -> FieldRows \cup {None}] /\ tables' \subseteq ModelIds
        /\ columns' \subseteq tables' \X Codes /\ joins' \subseteq tables' \X tables'
    BY <1>1, <2>2 DEF Tables
  <2>5. row # None /\ FieldSet' = FieldSet
    BY <2>1, <2>2 DEF FieldSet
  <2>6. QED
    BY <1>1, <2>2, <2>3, <2>4, <2>5 DEF Tables
<1>3. CASE CreateModelFails(p)
  <2> DEFINE row == [status |-> req[p].status, avail |-> "broken"]
  <2>1. row \in ModelRows /\ models' = [models EXCEPT ![req[p].model] = row]
    BY <1>1, <1>3 DEF CreateModelFails, ModelRows, Availability
  <2> HIDE DEF row
  <2>2. UNCHANGED <<fields, tables, columns, joins>>
    BY <1>3 DEF CreateModelFails
  <2>3. /\ models' \in [ModelIds -> ModelRows \cup {None}]
        /\ Present' = Present \cup {req[p].model} /\ models'[req[p].model] = row
        /\ \A n \in ModelIds \ {req[p].model} : models'[n] = models[n]
    BY <1>1, <2>1, PutModel
  <2>4. row # None /\ FieldSet' = FieldSet
    BY <2>1, <2>2 DEF FieldSet
  <2>5. QED
    BY <1>1, <2>2, <2>3, <2>4 DEF Tables
<1>4. QED
  BY <1>2, <1>3

LEMMA StatusEffect ==
  ASSUME Types, NEW p \in Requests, UpdateStatus(p)
  PROVE  /\ Tables' /\ fields' = fields /\ FieldSet' = FieldSet /\ Present' = Present
         /\ UNCHANGED <<tables, columns, joins, built>>
<1>1. Tables /\ req[p].model \in ModelIds /\ req[p].status \in Statuses
  BY DEF Types, Handlers, Prepared, UpdateStatus
<1>2. UNCHANGED <<fields, tables, columns, joins, built>>
  BY DEF UpdateStatus
<1>3. CASE req[p].model \in Present
  <2> DEFINE row == [models[req[p].model] EXCEPT !.status = req[p].status]
  <2>1. row \in ModelRows
    BY <1>1, <1>3, Rows DEF ModelRows
  <2>2. models' = [models EXCEPT ![req[p].model] = row]
    BY <1>3 DEF UpdateStatus
  <2> HIDE DEF row
  <2>3. /\ models' \in [ModelIds -> ModelRows \cup {None}]
        /\ Present' = Present \cup {req[p].model}
    BY <1>1, <2>1, <2>2, PutModel
  <2>4. QED
    BY <1>1, <1>2, <1>3, <2>3 DEF Tables, FieldSet
<1>4. CASE req[p].model \notin Present
  BY <1>1, <1>2, <1>4 DEF UpdateStatus, Tables, FieldSet, Present
<1>5. QED
  BY <1>3, <1>4

LEMMA RowOf ==
  ASSUME NEW p \in Requests, req[p] \in Orders, Prepared(req[p]), req[p].op = "add",
         NEW a \in Availability
  PROVE  /\ FieldRow(p, a) \in FieldRows /\ FieldRow(p, a).model = req[p].model
         /\ FieldRow(p, a).code = req[p].code /\ FieldRow(p, a).kind = req[p].kind
         /\ FieldRow(p, a).target = req[p].target
<1>1. /\ req[p].model \in ModelIds /\ req[p].code \in Codes /\ req[p].kind \in Kinds
      /\ req[p].target \in ModelIds \cup {None}
  BY DEF Orders, Prepared
<1>2. QED
  BY <1>1 DEF FieldRow, FieldRows

\* A field is added, with its objects or broken.
Adds(p) == AddField(p) \/ (FieldAfterFailure(p) /\ fields' # fields)

LEMMA AddEffect ==
  ASSUME Types, Held, NEW p \in Requests, Adds(p)
  PROVE  /\ req[p].op = "add" /\ req[p].field \in FieldIds /\ req[p].model \in Present
         /\ req[p].target # None => req[p].target \in Present
         /\ Tables' /\ models' = models /\ Present' = Present /\ tables' = tables
         /\ FieldSet' = FieldSet \cup {req[p].field}
         /\ \A g \in FieldIds \ {req[p].field} : fields'[g] = fields[g]
         /\ fields'[req[p].field].model = req[p].model
         /\ fields'[req[p].field].code = req[p].code
         /\ fields'[req[p].field].kind = req[p].kind
         /\ fields'[req[p].field].target = req[p].target
         /\ \A f \in FieldsOf(req[p].model) : fields[f].code # req[p].code
<1>0. Tables /\ req[p] \in Orders /\ Prepared(req[p])
  BY DEF Types, Handlers
<1>1. req[p].op = "add" /\ req[p].field \in FieldIds /\ req[p].model \in ModelIds
      /\ req[p].code \in Codes /\ req[p].kind \in Kinds
      /\ (req[p].target # None <=> req[p].kind \in Relations)
  <2>1. req[p].op = "add" /\ req[p].phase \in {"commit", "broken"}
    BY <1>0 DEF Adds, AddField, FieldAfterFailure, Prepared
  <2>2. QED
    BY <1>0, <2>1 DEF Prepared
<1> DEFINE f == req[p].field
<1>2. PICK a \in Availability : fields' = [fields EXCEPT ![f] = FieldRow(p, a)]
  BY DEF Adds, AddField, FieldAfterFailure, Availability
<1>3. /\ fields' \in [FieldIds -> FieldRows \cup {None}] /\ FieldSet' = FieldSet \cup {f}
      /\ fields'[f] = FieldRow(p, a) /\ \A g \in FieldIds \ {f} : fields'[g] = fields[g]
  BY <1>0, <1>1, <1>2, RowOf, PutField
<1>4. /\ fields'[f].model = req[p].model /\ fields'[f].code = req[p].code
      /\ fields'[f].kind = req[p].kind /\ fields'[f].target = req[p].target
  BY <1>0, <1>1, <1>3, RowOf
<1>5. models' = models /\ Present' = Present /\ tables' = tables
  BY DEF Adds, AddField, FieldAfterFailure, Present
<1>6. columns' \subseteq tables \X Codes /\ joins' \subseteq tables \X tables
  <2>1. CASE AddField(p)
    <3>0. req[p].model # None
      BY <1>1 DEF ModelIds
    <3>1. CreatesColumn(req[p].kind) => req[p].model \in tables
      BY <2>1, <3>0 DEF Adds, AddField, Conflicts, CreatesColumn
    <3>2. req[p].kind = "many_to_many" => req[p].model \in tables /\ req[p].target \in tables
      <4>1. req[p].kind = "many_to_many" => req[p].target # None
        BY <1>1 DEF Relations
      <4>2. QED
        BY <2>1, <3>0, <4>1 DEF Adds, AddField, Conflicts
    <3>3. /\ columns' = columns \cup (IF CreatesColumn(req[p].kind)
                                      THEN {<<req[p].model, req[p].code>>} ELSE {})
          /\ joins' = joins \cup (IF req[p].kind = "many_to_many"
                                  THEN {<<req[p].model, req[p].target>>} ELSE {})
      BY <2>1 DEF AddField
    <3>4. QED
      BY <1>0, <1>1, <3>1, <3>2, <3>3 DEF Tables
  <2>2. CASE FieldAfterFailure(p)
    BY <1>0, <2>2 DEF FieldAfterFailure, Tables
  <2>3. QED
    BY <2>1, <2>2 DEF Adds
<1>7. req[p].target # None => req[p].target \in Present
  BY DEF Adds, AddField, FieldAfterFailure, TargetReady, Missing
<1>8. \A g \in FieldsOf(req[p].model) : fields[g].code # req[p].code
  BY DEF Adds, AddField, FieldAfterFailure, Conflicts
<1>9. req[p].model \in Present
  BY DEF Adds, AddField, FieldAfterFailure, Missing, Held
<1>10. QED
  BY <1>0, <1>1, <1>3, <1>4, <1>5, <1>6, <1>7, <1>8, <1>9 DEF Tables

LEMMA DeleteFieldEffect ==
  ASSUME Types, NEW p \in Requests, DeleteField(p)
  PROVE  /\ Tables' /\ models' = models /\ Present' = Present /\ tables' = tables /\ built' = built
         /\ FieldSet' = FieldSet \ {req[p].field}
         /\ \A g \in FieldSet' : fields'[g] = fields[g]
<1>1. Tables /\ req[p].field \in FieldIds
  BY DEF Types, Handlers, Prepared, DeleteField
<1>2. fields' = [f \in FieldIds |-> IF f \in {req[p].field} THEN None ELSE fields[f]]
  BY <1>1 DEF DeleteField, Tables
<1>3. UNCHANGED <<models, tables, built>> /\ columns' \subseteq columns /\ joins' \subseteq joins
  BY DEF DeleteField, ColumnsWithout
<1>4. QED
  BY <1>1, <1>2, <1>3, DropFields DEF Tables, Present

LEMMA DeleteModelEffect ==
  ASSUME Types, NEW p \in Requests, DeleteModel(p)
  PROVE  /\ Tables' /\ req[p].model \in ModelIds /\ built' = built
         /\ Present' = Present \ {req[p].model} /\ FieldSet' = FieldSet \ FieldsOf(req[p].model)
         /\ \A n \in Present' : models'[n] = models[n]
         /\ \A g \in FieldSet' : fields'[g] = fields[g]
<1>1. Tables /\ req[p].model \in ModelIds
  BY DEF Types, Handlers, Prepared, DeleteModel
<1> DEFINE m == req[p].model
<1>2. fields' = [f \in FieldIds |-> IF f \in FieldsOf(m) THEN None ELSE fields[f]]
  BY DEF DeleteModel
<1>3. /\ models' \in [ModelIds -> ModelRows \cup {None}] /\ models'[m] = None
      /\ \A n \in ModelIds \ {m} : models'[n] = models[n]
  BY <1>1 DEF DeleteModel, Tables
<1>4. Present' = Present \ {m} /\ \A n \in Present' : models'[n] = models[n]
  BY <1>1, <1>3 DEF Present
<1>5. built' = built /\ tables' = tables \ {m} /\ columns' = {c \in columns : c[1] # m}
      /\ joins' = joins \ JoinTablesOf(m)
  BY DEF DeleteModel
<1>6. columns' \subseteq tables' \X Codes
  BY <1>1, <1>5 DEF Tables
<1>7. joins' \subseteq tables' \X tables'
  BY <1>1, <1>5 DEF Tables, JoinTablesOf
<1>8. QED
  BY <1>1, <1>2, <1>3, <1>4, <1>5, <1>6, <1>7, DropFields DEF Tables

-----------------------------------------------------------------------------
\* Rebuilds

Mine(p, t) == {r \in scan[p].rows : r.model = t.id}
Lost(p, t) == Down(Mine(p, t))
Well(p, t) == Up(t.id, Lost(p, t))
EntryOf(p, t) == [model |-> t.id, status |-> t.status,
                  fields |-> {<<r.id, r.code, r.kind>> : r \in Mine(p, t)}]
Keeps(p, t) == IF Well(p, t) THEN {EntryOf(p, t)} ELSE {}

LEMMA Listings ==
  ASSUME Tables
  PROVE  {Row(f) : f \in FieldSet} \subseteq ScanRows /\ {ModelRow(m) : m \in Present} \subseteq TodoRows
<1>1. ASSUME NEW f \in FieldSet
      PROVE  Row(f) \in ScanRows
  BY Rows DEF Row, ScanRows, FieldRows
<1>2. ASSUME NEW m \in Present
      PROVE  ModelRow(m) \in TodoRows
  BY Rows DEF ModelRow, TodoRows, ModelRows
<1>3. QED
  BY <1>1, <1>2

LEMMA EntryTyped ==
  ASSUME Tables, NEW m \in Present
  PROVE  Entry(m) \in Entries /\ Entry(m).model = m
<1>1. {<<f, fields[f].code, fields[f].kind>> : f \in FieldsOf(m)} \in FieldEntries
  BY Rows DEF FieldEntries, FieldsOf, FieldRows
<1>2. m \in ModelIds /\ models[m].status \in Statuses
  BY Rows DEF ModelRows
<1>3. QED
  BY <1>1, <1>2 DEF Entry, Entries

LEMMA KeepsTyped ==
  ASSUME Types, NEW p \in Requests, NEW t \in scan[p].todo
  PROVE  /\ Lost(p, t) \subseteq FieldIds /\ Well(p, t) \in BOOLEAN
         /\ Keeps(p, t) \subseteq Entries /\ \A e \in Keeps(p, t) : e.model = t.id
<1>1. /\ scan[p].todo \subseteq TodoRows /\ scan[p].rows \subseteq ScanRows
  BY DEF Types, Handlers, Scans
<1>2. t.id \in ModelIds /\ t.status \in Statuses
  BY <1>1 DEF TodoRows
<1>3. \A r \in Mine(p, t) : r.id \in FieldIds /\ r.code \in Codes /\ r.kind \in Kinds
  BY <1>1 DEF Mine, ScanRows
<1>4. {<<r.id, r.code, r.kind>> : r \in Mine(p, t)} \in FieldEntries
  BY <1>3 DEF FieldEntries
<1>5. EntryOf(p, t) \in Entries /\ EntryOf(p, t).model = t.id
  BY <1>2, <1>4 DEF EntryOf, Entries
<1>6. Lost(p, t) \subseteq FieldIds /\ Well(p, t) \in BOOLEAN
  BY <1>3 DEF Lost, Well, Down, Up
<1>7. QED
  BY <1>5, <1>6 DEF Keeps

\* What an inspection makes of the rebuild, with and without news
LEMMA InspectEffect ==
  ASSUME Types, NEW p \in Requests, InspectModel(p)
  PROVE  \E t \in scan[p].todo :
           /\ Earliest(p, t)
           /\ scan' = [scan EXCEPT ![p] = scan'[p]] /\ scan'[p] \in Scans
           /\ scan'[p].rows = scan[p].rows /\ scan'[p].kept = scan[p].kept \cup Keeps(p, t)
           /\ \/ /\ scan'[p].todo = scan[p].todo /\ req' = To(p, "record")
                 /\ scan'[p].down = Lost(p, t) /\ scan'[p].up = Well(p, t)
                 /\ scan'[p].news \subseteq {r.id : r \in Mine(p, t)}
              \/ scan'[p].todo = scan[p].todo \ {t} /\ req' = req
<1>1. PICK t \in scan[p].todo :
        /\ Earliest(p, t)
        /\ \/ /\ scan' = [scan EXCEPT ![p].kept = @ \cup Keeps(p, t), ![p].todo = @ \ {t}]
              /\ req' = req
           \/ /\ \E news \in SUBSET {r.id : r \in Mine(p, t)} :
                    scan' = [scan EXCEPT ![p].kept = @ \cup Keeps(p, t), ![p].down = Lost(p, t),
                                         ![p].up = Well(p, t), ![p].news = news]
              /\ req' = To(p, "record")
  <2>1. PICK t \in scan[p].todo :
          /\ Earliest(p, t)
          /\ LET news == {r.id : r \in {f \in Mine(p, t) : f.avail # Health(f.id \notin Lost(p, t))}} IN
             \/ /\ scan' = [scan EXCEPT ![p].kept = @ \cup Keeps(p, t), ![p].todo = @ \ {t}]
                /\ req' = req
             \/ /\ scan' = [scan EXCEPT ![p].kept = @ \cup Keeps(p, t), ![p].down = Lost(p, t),
                                         ![p].up = Well(p, t), ![p].news = news]
                /\ req' = To(p, "record")
    BY DEF InspectModel, Mine, Lost, Well, Keeps, EntryOf
  <2>2. {r.id : r \in {f \in Mine(p, t) : f.avail # Health(f.id \notin Lost(p, t))}}
          \in SUBSET {r.id : r \in Mine(p, t)}
    OBVIOUS
  <2>3. QED
    BY <2>1, <2>2
<1>2. scan \in [Requests -> Scans]
  BY DEF Types, Handlers
<1> DEFINE lost == Lost(p, t)
           well == Well(p, t)
           keeps == Keeps(p, t)
           ids == {r.id : r \in Mine(p, t)}
<1>3. lost \subseteq FieldIds /\ well \in BOOLEAN /\ keeps \subseteq Entries
  BY KeepsTyped
<1>4. ids \subseteq FieldIds
  BY <1>2 DEF Mine, Scans, ScanRows
<1> HIDE DEF lost, well, keeps, ids
<1>5. CASE /\ scan' = [scan EXCEPT ![p].kept = @ \cup keeps, ![p].todo = @ \ {t}]
           /\ req' = req
  <2> DEFINE s == [scan[p] EXCEPT !.kept = @ \cup keeps, !.todo = @ \ {t}]
  <2>1. scan' = [scan EXCEPT ![p] = s]
    BY <1>2, <1>5
  <2>2. s \in Scans /\ s.rows = scan[p].rows /\ s.kept = scan[p].kept \cup keeps
        /\ s.todo = scan[p].todo \ {t}
    BY <1>2, <1>3 DEF Scans
  <2> HIDE DEF s
  <2>3. scan'[p] = s
    BY <1>2, <2>1
  <2>4. QED
    BY <1>1, <1>5, <2>1, <2>2, <2>3 DEF keeps
<1>6. ASSUME NEW news \in SUBSET ids, req' = To(p, "record"),
             scan' = [scan EXCEPT ![p].kept = @ \cup keeps, ![p].down = lost, ![p].up = well,
                                  ![p].news = news]
      PROVE  /\ scan' = [scan EXCEPT ![p] = scan'[p]] /\ scan'[p] \in Scans
             /\ scan'[p].rows = scan[p].rows /\ scan'[p].kept = scan[p].kept \cup keeps
             /\ scan'[p].todo = scan[p].todo /\ req' = To(p, "record")
             /\ scan'[p].down = lost /\ scan'[p].up = well /\ scan'[p].news \subseteq ids
  <2> DEFINE s == [scan[p] EXCEPT !.kept = @ \cup keeps, !.down = lost, !.up = well, !.news = news]
  <2>1. scan' = [scan EXCEPT ![p] = s]
    BY <1>2, <1>6
  <2>2. s \in Scans /\ s.rows = scan[p].rows /\ s.kept = scan[p].kept \cup keeps
        /\ s.todo = scan[p].todo /\ s.down = lost /\ s.up = well /\ s.news = news
    BY <1>2, <1>3, <1>4, <1>6 DEF Scans
  <2> HIDE DEF s
  <2>3. scan'[p] = s
    BY <1>2, <2>1
  <2>4. QED
    BY <1>6, <2>1, <2>2, <2>3
<1>7. CASE /\ \E news \in SUBSET ids :
                scan' = [scan EXCEPT ![p].kept = @ \cup keeps, ![p].down = lost,
                                     ![p].up = well, ![p].news = news]
           /\ req' = To(p, "record")
  BY <1>1, <1>6, <1>7 DEF lost, well, keeps, ids
<1>8. QED
  BY <1>1, <1>5, <1>7 DEF lost, well, keeps, ids

\* The steps that touch a rebuild
Rebuilds(p) ==
  ListFields(p) \/ ListModels(p) \/ InspectModel(p) \/ RecordField(p) \/ RecordModel(p)

LEMMA ScansKept ==
  ASSUME Types, NEW p \in Requests, Start(p) \/ LoadMetadata(p) \/ Step(p) \/ Cut(p)
  PROVE  /\ scan' \in [Requests -> Scans] /\ registry' \subseteq Entries
         /\ \A e \in registry' : e.model \in 1..minted.model
         /\ \A q \in Requests \ {p} : scan'[q] = scan[q]
         /\ \A e \in scan'[p].kept : e.model \in 1..minted.model
         /\ \A t \in scan'[p].todo : t.id \in 1..minted.model
<1>0. /\ scan \in [Requests -> Scans] /\ registry \subseteq Entries /\ Tables
      /\ \A e \in registry : e.model \in 1..minted.model
      /\ \A e \in scan[p].kept : e.model \in 1..minted.model
      /\ \A t \in scan[p].todo : t.id \in 1..minted.model
      /\ Present \subseteq 1..minted.model
  BY DEF Types, Handlers, Issued
<1>1. NoScan \in Scans /\ NoScan.kept = {} /\ NoScan.todo = {}
  BY IdlePrepared DEF NoScan
<1>2. CASE ListFields(p)
  <2> DEFINE s == [NoScan EXCEPT !.rows = {Row(f) : f \in FieldSet}]
  <2>1. scan' = [scan EXCEPT ![p] = s] /\ registry' = registry
    BY <1>2 DEF ListFields
  <2>2. s \in Scans /\ s.kept = {} /\ s.todo = {}
    BY <1>0, Listings DEF NoScan, Scans
  <2> HIDE DEF s
  <2>3. QED
    BY <1>0, <2>1, <2>2
<1>3. CASE ListModels(p)
  <2> DEFINE L == {ModelRow(m) : m \in Present}
             s == [scan[p] EXCEPT !.todo = L]
  <2>1. scan' = [scan EXCEPT ![p] = s] /\ registry' = registry
    BY <1>0, <1>3 DEF ListModels
  <2>2. L \subseteq TodoRows /\ \A t \in L : t.id \in 1..minted.model
    BY <1>0, Listings DEF ModelRow
  <2> HIDE DEF L
  <2>3. s \in Scans /\ s.kept = scan[p].kept /\ s.todo = L
    BY <1>0, <2>2 DEF Scans
  <2> HIDE DEF s
  <2>4. QED
    BY <1>0, <2>1, <2>2, <2>3
<1>4. CASE InspectModel(p)
  <2>1. PICK t \in scan[p].todo :
           /\ scan'[p].kept = scan[p].kept \cup Keeps(p, t)
           /\ scan'[p].todo \subseteq scan[p].todo
           /\ scan' = [scan EXCEPT ![p] = scan'[p]] /\ scan'[p] \in Scans
    BY <1>4, InspectEffect
  <2>2. \A e \in Keeps(p, t) : e.model = t.id
    BY KeepsTyped
  <2>3. \A q \in Requests \ {p} : scan'[q] = scan[q]
    BY <1>0, <2>1
  <2>4. scan' \in [Requests -> Scans]
    BY <1>0, <2>1
  <2>5. registry' = registry
    BY <1>4 DEF InspectModel
  <2>6. \A e \in scan'[p].kept : e.model \in 1..minted.model
    BY <1>0, <2>1, <2>2
  <2>7. \A u \in scan'[p].todo : u.id \in 1..minted.model
    BY <1>0, <2>1
  <2>8. QED
    BY <1>0, <2>3, <2>4, <2>5, <2>6, <2>7
<1>5. CASE RecordField(p) \/ RecordModel(p)
  <2>1. PICK s \in Scans : /\ scan' = [scan EXCEPT ![p] = s] /\ s.kept = scan[p].kept
                           /\ s.todo \subseteq scan[p].todo
    <3>1. CASE RecordField(p)
      <4>1. PICK f \in scan[p].news : scan' = [scan EXCEPT ![p].news = @ \ {f}]
        BY <3>1, RecordFieldEffect
      <4> DEFINE s == [scan[p] EXCEPT !.news = @ \ {f}]
      <4>2. s \in Scans /\ s.kept = scan[p].kept /\ s.todo = scan[p].todo
        BY <1>0 DEF Scans
      <4>3. scan' = [scan EXCEPT ![p] = s]
        BY <1>0, <4>1
      <4> HIDE DEF s
      <4>4. QED
        BY <4>2, <4>3
    <3>2. CASE RecordModel(p)
      <4>1. PICK t \in scan[p].todo :
              scan' = [scan EXCEPT ![p].todo = @ \ {t}, ![p].down = {}, ![p].up = TRUE]
        BY <3>2, RecordModelEffect
      <4> DEFINE s == [scan[p] EXCEPT !.todo = @ \ {t}, !.down = {}, !.up = TRUE]
      <4>2. s \in Scans /\ s.kept = scan[p].kept /\ s.todo = scan[p].todo \ {t}
        BY <1>0 DEF Scans
      <4>3. scan' = [scan EXCEPT ![p] = s]
        BY <1>0, <4>1
      <4> HIDE DEF s
      <4>4. QED
        BY <4>2, <4>3
    <3>3. QED
      BY <1>5, <3>1, <3>2
  <2>2. registry' = registry
    BY <1>5 DEF RecordField, RecordModel
  <2>3. QED
    BY <1>0, <2>1, <2>2
<1>6. CASE Publish(p)
  <2>1. registry' = scan[p].kept /\ scan' = [scan EXCEPT ![p] = NoScan]
    BY <1>6 DEF Publish, Published
  <2>2. QED
    BY <1>0, <1>1, <2>1 DEF Scans
<1>7. CASE Cut(p)
  <2>1. registry' = registry /\ scan' = [scan EXCEPT ![p] = NoScan]
    BY <1>7 DEF Cut
  <2>2. QED
    BY <1>0, <1>1, <2>1
<1>8. CASE ~(Rebuilds(p) \/ Publish(p) \/ Cut(p))
  <2>1. CASE Start(p) \/ LoadMetadata(p)
    <3>1. registry' = registry /\ scan' = scan
      BY <2>1, Started DEF Begins
    <3>2. QED
      BY <1>0, <3>1
  <2>2. CASE Step(p)
    <3>1. registry' = registry /\ scan' = scan
      BY <1>8, <2>2 DEF Rebuilds, Step, CreateModel, CreateModelFails, GrantModel, LockModel,
         AddField, AddFieldFails, FieldAfterFailure, DeleteField, DeleteModel, DeletionFails,
         UpdateStatus, QueryRecords, MarkUnavailable
    <3>2. QED
      BY <1>0, <3>1
  <2>3. QED
    BY <1>8, <2>1, <2>2
<1>9. QED
  BY <1>2, <1>3, <1>4, <1>5, <1>6, <1>7, <1>8 DEF Rebuilds

-----------------------------------------------------------------------------
\* Types

\* The steps that change what a reading may have seen
Changes(p) ==
  \/ CreateModel(p) \/ CreateModelFails(p) \/ AddField(p) \/ FieldAfterFailure(p)
  \/ DeleteField(p) \/ DeleteModel(p) \/ UpdateStatus(p)

LEMMA Calm ==
  ASSUME Types, NEW p \in Requests, Start(p) \/ LoadMetadata(p) \/ Step(p) \/ Cut(p), ~Changes(p)
  PROVE  SameSchema /\ Tables'
<1>1. CASE RecordField(p) \/ RecordModel(p)
  BY <1>1, RecordFieldEffect, RecordModelEffect
<1>2. CASE MarkUnavailable(p)
  BY <1>2, MarkUnavailableEffect
<1>3. CASE ~RecordField(p) /\ ~RecordModel(p) /\ ~MarkUnavailable(p)
  <2>1. UNCHANGED rows
    <3>1. CASE Start(p) \/ LoadMetadata(p)
      BY <3>1, Started DEF Begins
    <3>2. CASE Step(p) \/ Cut(p)
      BY <1>3, <3>2 DEF Changes, Step, Cut, GrantModel, LockModel, AddFieldFails, DeletionFails,
         ListFields, ListModels, InspectModel, Publish, QueryRecords, store
    <3>3. QED
      BY <3>1, <3>2
  <2>2. QED
    BY <2>1, SameRows DEF Types
<1>4. QED
  BY <1>1, <1>2, <1>3

\* A request either begins or continues.
LEMMA Taken ==
  ASSUME Types, NEW p \in Requests, Start(p) \/ LoadMetadata(p) \/ Step(p) \/ Cut(p)
  PROVE  \E r : Takes(p, r) /\ (Begins(p, r) \/ Continues(p, r))
BY Started, Stepped DEF Begins, Continues

LEMMA StopsCounted ==
  ASSUME Types, NEW p \in Requests, Step(p) \/ Cut(p)
  PROVE  lapped' \subseteq Requests /\ fresh' \in BOOLEAN /\ faults' \in 0..MaxFaults
<1>1. lapped \subseteq Requests /\ fresh \in BOOLEAN /\ faults \in 0..MaxFaults /\ MaxFaults \in Nat
  BY DEF Types, Counters
<1>2. lapped' \subseteq Requests /\ fresh' \in BOOLEAN
  BY <1>1 DEF Step, Cut, CreateModel, CreateModelFails, GrantModel, LockModel, AddField,
         AddFieldFails, FieldAfterFailure, DeleteField, DeleteModel, DeletionFails, UpdateStatus,
         ListFields, ListModels, InspectModel, RecordField, RecordModel, Publish, QueryRecords,
         MarkUnavailable, Overtake, Leave
<1>3. faults' = faults \/ (faults < MaxFaults /\ faults' = faults + 1)
  BY DEF Step, Cut, CreateModel, CreateModelFails, GrantModel, LockModel, AddField,
         AddFieldFails, FieldAfterFailure, DeleteField, DeleteModel, DeletionFails, UpdateStatus,
         ListFields, ListModels, InspectModel, RecordField, RecordModel, Publish, QueryRecords,
         MarkUnavailable
<1>4. QED
  BY <1>1, <1>2, <1>3

LEMMA CountersKept ==
  ASSUME Types, NEW p \in Requests, Start(p) \/ LoadMetadata(p) \/ Step(p) \/ Cut(p)
  PROVE  /\ Counters' /\ minted'.model >= minted.model /\ minted'.field >= minted.field
         /\ minted.model \in Nat /\ minted.field \in Nat
         /\ minted'.model \in Nat /\ minted'.field \in Nat
<1>1. Counters
  BY DEF Types
<1>2. CASE Start(p) \/ LoadMetadata(p)
  BY <1>1, <1>2, Started DEF Begins, Counters
<1>3. CASE Step(p) \/ Cut(p)
  <2>1. minted' = minted
    BY <1>3, Stepped DEF Continues
  <2>2. QED
    BY <1>1, <1>3, <2>1, StopsCounted DEF Counters
<1>4. QED
  BY <1>2, <1>3

LEMMA HandlersKept ==
  ASSUME Types, NEW p \in Requests, Start(p) \/ LoadMetadata(p) \/ Step(p) \/ Cut(p)
  PROVE  Handlers'
<1>1. PICK r : Takes(p, r)
  BY Taken
<1>2. Handlers
  BY DEF Types
<1>3. QED
  BY <1>1, <1>2, TakesOthers, ScansKept DEF Handlers

LEMMA TablesKept ==
  ASSUME Types, Held, NEW p \in Requests, Start(p) \/ LoadMetadata(p) \/ Step(p) \/ Cut(p)
  PROVE  /\ Tables'
         /\ Present' \subseteq Present \cup (IF req[p].phase = "insert" THEN {req[p].model} ELSE {})
         /\ tables' \subseteq tables \cup (IF req[p].phase = "insert" THEN {req[p].model} ELSE {})
         /\ FieldSet' \subseteq FieldSet \cup (IF Adding(p) THEN {req[p].field} ELSE {})
         /\ built' \subseteq built
              \cup (IF req[p].phase = "insert" THEN {<<"model", req[p].model>>} ELSE {})
              \cup (IF Adding(p) THEN {<<"field", req[p].field>>} ELSE {})
<1>1. CASE CreateModel(p) \/ CreateModelFails(p)
  <2>1. /\ req[p].phase = "insert" /\ tables' \subseteq tables \cup {req[p].model}
        /\ built' \subseteq built \cup {<<"model", req[p].model>>}
    BY <1>1 DEF CreateModel, CreateModelFails
  <2>2. QED
    BY <1>1, <2>1, CreateEffect
<1>2. CASE AddField(p) \/ FieldAfterFailure(p)
  <2>1. /\ UNCHANGED <<models, tables>> /\ built' \subseteq built \cup {<<"field", req[p].field>>}
        /\ req[p].op = "add"
    BY <1>2 DEF AddField, FieldAfterFailure, Types, Handlers, Prepared
  <2>2. CASE ~Adds(p)
    <3>1. UNCHANGED rows
      BY <1>2, <2>2 DEF Adds, FieldAfterFailure, rows
    <3>2. QED
      BY <3>1, SameRows DEF Types, SameSchema
  <2>3. CASE Adds(p)
    BY <2>1, <2>3, AddEffect DEF Adding
  <2>4. QED
    BY <2>2, <2>3
<1>3. CASE DeleteField(p)
  BY <1>3, DeleteFieldEffect
<1>4. CASE DeleteModel(p)
  <2>1. tables' \subseteq tables
    BY <1>4 DEF DeleteModel
  <2>2. QED
    BY <1>4, <2>1, DeleteModelEffect
<1>5. CASE UpdateStatus(p)
  BY <1>5, StatusEffect
<1>6. CASE ~Changes(p)
  BY <1>6, Calm DEF SameSchema
<1>7. QED
  BY <1>1, <1>2, <1>3, <1>4, <1>5, <1>6 DEF Changes

LEMMA IssuedKept ==
  ASSUME Types, Held, NEW p \in Requests, Start(p) \/ LoadMetadata(p) \/ Step(p) \/ Cut(p)
  PROVE  Issued'
<1> DEFINE a == minted.model
           b == minted.field
<1>0. Issued
  BY DEF Types
<1>1. a \in Nat /\ b \in Nat /\ minted'.model \in Nat /\ minted'.field \in Nat
      /\ minted'.model >= a /\ minted'.field >= b
  BY CountersKept
<1>2. (req[p].phase = "insert" => req[p].model \in 1..a) /\ (Adding(p) => req[p].field \in 1..b)
  <2>1. Adding(p) => req[p].field # None
    BY DEF Adding, Types, Handlers, Prepared, FieldIds
  <2>2. QED
    BY <1>0, <2>1 DEF Issued
<1>3. Present' \subseteq 1..a /\ tables' \subseteq 1..a /\ FieldSet' \subseteq 1..b
  BY <1>0, <1>2, TablesKept DEF Issued
<1>4. built' \subseteq ({"model"} \X (1..a)) \cup ({"field"} \X (1..b))
  <2>1. req[p].phase = "insert" => <<"model", req[p].model>> \in {"model"} \X (1..a)
    BY <1>2
  <2>2. Adding(p) => <<"field", req[p].field>> \in {"field"} \X (1..b)
    BY <1>2
  <2>3. QED
    BY <1>0, <2>1, <2>2, TablesKept DEF Issued
<1>5. /\ \A e \in registry' : e.model \in 1..a
      /\ \A q \in Requests : /\ \A e \in scan'[q].kept : e.model \in 1..a
                             /\ \A t \in scan'[q].todo : t.id \in 1..a
  BY <1>0, ScansKept DEF Issued
<1>6. \A q \in Requests : /\ req'[q].phase = "insert" => req'[q].model \in 1..minted'.model
                          /\ req'[q].field # None => req'[q].field \in 1..minted'.field
  <2>1. PICK r : Takes(p, r) /\ (Begins(p, r) \/ Continues(p, r))
    BY Taken
  <2>2. req'[p] = r /\ \A q \in Requests \ {p} : req'[q] = req[q]
    BY <2>1, TakesOthers DEF Types
  <2>3. r.phase = "insert" => r.model \in 1..minted'.model
    BY <1>1, <2>1 DEF Begins, Continues
  <2>4. r.field # None => r.field \in 1..minted'.field
    <3>1. r.op \in {"add", "delete_field"} \/ r.field = None
      BY <2>1 DEF Takes, Prepared
    <3>2. CASE r.op = "add"
      BY <1>0, <1>1, <2>1, <3>2 DEF Begins, Continues, Issued
    <3>3. CASE r.op = "delete_field"
      <4>1. Begins(p, r) => r.field \in 1..b
        BY <1>0, <3>3 DEF Begins, Issued
      <4>2. Continues(p, r) => r.field = req[p].field
        BY <3>3 DEF Continues
      <4>3. r.field # None => r.field \in 1..b
        BY <1>0, <2>1, <4>1, <4>2 DEF Issued
      <4>4. QED
        BY <1>1, <4>3
    <3>4. QED
      BY <3>1, <3>2, <3>3
  <2>5. QED
    BY <1>0, <1>1, <2>2, <2>3, <2>4 DEF Issued
<1>7. QED
  BY <1>1, <1>3, <1>4, <1>5, <1>6 DEF Issued

LEMMA TypesKept ==
  ASSUME Types, Held, NEW p \in Requests, Start(p) \/ LoadMetadata(p) \/ Step(p) \/ Cut(p)
  PROVE  Types'
BY TablesKept, CountersKept, HandlersKept, IssuedKept DEF Types

LEMMA RestartTypes ==
  ASSUME Types, Restart
  PROVE  Types'
<1>1. Tables' /\ SameSchema
  BY RestartEffect
<1>2. Counters'
  <2>1. minted' = minted /\ lapped' = {} /\ fresh' = TRUE /\ faults < MaxFaults
        /\ faults' = faults + 1
    BY DEF Restart
  <2>2. QED
    BY <2>1 DEF Types, Counters
<1>3. /\ req' = [p \in Requests |-> Idle] /\ scan' = [p \in Requests |-> NoScan]
      /\ registry' = {Entry(m) : m \in {n \in Present : ModelUp(n)}}
      /\ minted' = minted /\ built' = built /\ tables' = tables
  BY DEF Restart
<1>4. registry' \subseteq Entries /\ \A e \in registry' : e.model \in Present
  BY <1>3, EntryTyped DEF Types
<1>5. Handlers'
  BY <1>3, <1>4, IdlePrepared DEF Handlers
<1>6. Issued'
  <2>1. Idle.phase = "idle" /\ Idle.field = None /\ NoScan.kept = {} /\ NoScan.todo = {}
    BY DEF Idle, NoScan
  <2>2. Issued
    BY DEF Types
  <2>3. \A p \in Requests : req'[p] = Idle /\ scan'[p] = NoScan
    BY <1>3
  <2>4. QED
    BY <1>1, <1>3, <1>4, <2>1, <2>2, <2>3 DEF Issued, SameSchema
<1>7. QED
  BY <1>1, <1>2, <1>5, <1>6 DEF Types

-----------------------------------------------------------------------------
\* Ownership

LEMMA ChangesEnd ==
  ASSUME Types, NEW p \in Requests, Changes(p)
  PROVE  req'[p].phase # "commit" /\ req'[p].op \notin {"add", "delete_field"}
<1>0. req \in [Requests -> Orders] /\ Prepared(req[p]) /\ req[p] \in Orders
  BY DEF Types, Handlers
<1>1. CASE CreateModel(p)
  <2>1. req' = To(p, "grant") /\ req[p].phase = "insert"
    BY <1>1 DEF CreateModel
  <2>2. req'[p].phase = "grant" /\ req'[p].op = req[p].op
    BY <1>0, <2>1 DEF To, Orders
  <2>3. req[p].op \notin {"add", "delete_field"}
    BY <1>0, <2>1 DEF Prepared
  <2>4. QED
    BY <2>2, <2>3
<1>2. CASE ~CreateModel(p)
  <2>1. req' = Done(p) \/ req' = Rebuild(p)
    BY <1>2 DEF Changes, CreateModelFails, AddField, FieldAfterFailure, DeleteField, DeleteModel,
                UpdateStatus
  <2>2. req'[p] = Idle \/ req'[p] = [Idle EXCEPT !.phase = "list_fields"]
    BY <1>0, <2>1 DEF Done, Rebuild
  <2>3. QED
    BY <2>2 DEF Idle
<1>3. QED
  BY <1>1, <1>2

SameField(f) ==
  /\ fields'[f].model = fields[f].model /\ fields'[f].code = fields[f].code
  /\ fields'[f].kind = fields[f].kind /\ fields'[f].target = fields[f].target

\* Rows are lost to the transaction that holds their model only.
LEMMA RowsMove ==
  ASSUME Types, Ownership, NEW p \in Requests, Start(p) \/ LoadMetadata(p) \/ Step(p) \/ Cut(p)
  PROVE  /\ \A m \in Present \ Present' : req[p].phase = "commit" /\ m = req[p].model
         /\ \A f \in FieldSet \cap FieldSet' : SameField(f)
         /\ \A f \in FieldSet \ FieldSet' : req[p].phase = "commit" /\ fields[f].model = req[p].model
<1>0. Held /\ FreshFields /\ Condemned /\ FieldSet \subseteq FieldIds
  BY Rows DEF Ownership, Types
<1>1. CASE CreateModel(p) \/ CreateModelFails(p)
  BY <1>1, CreateEffect DEF SameField
<1>2. CASE Adds(p)
  <2>1. /\ req[p].op = "add" /\ Present' = Present /\ FieldSet' = FieldSet \cup {req[p].field}
        /\ \A g \in FieldIds \ {req[p].field} : fields'[g] = fields[g]
    BY <1>0, <1>2, AddEffect
  <2>2. \A g \in FieldSet : g \in FieldIds \ {req[p].field}
    BY <1>0, <2>1 DEF FreshFields, Adding
  <2>3. \A g \in FieldSet : fields'[g] = fields[g]
    BY <2>1, <2>2
  <2>4. QED
    BY <2>1, <2>3 DEF SameField
<1>3. CASE FieldAfterFailure(p) /\ ~Adds(p)
  BY <1>3 DEF FieldAfterFailure, Adds, Present, FieldSet, SameField
<1>4. CASE DeleteField(p)
  BY <1>0, <1>4, DeleteFieldEffect DEF DeleteField, Condemned, SameField
<1>5. CASE DeleteModel(p)
  BY <1>5, DeleteModelEffect DEF DeleteModel, FieldsOf, SameField
<1>6. CASE UpdateStatus(p)
  BY <1>6, StatusEffect DEF SameField
<1>7. CASE ~Changes(p)
  BY <1>7, Calm DEF SameSchema, SameField
<1>8. QED
  BY <1>1, <1>2, <1>3, <1>4, <1>5, <1>6, <1>7 DEF Changes, Adds

LEMMA FreshModelsKept ==
  ASSUME Types, Ownership, NEW p \in Requests, Start(p) \/ LoadMetadata(p) \/ Step(p) \/ Cut(p)
  PROVE  FreshModels'
<1>1. PICK r : Takes(p, r) /\ (Begins(p, r) \/ Continues(p, r))
  BY Taken
<1>2. req'[p] = r /\ \A q \in Requests \ {p} : req'[q] = req[q]
  BY <1>1, TakesOthers DEF Types
<1>3. Held /\ FreshModels /\ minted.model \in Nat
  BY CountersKept DEF Ownership
<1>4. /\ Present \subseteq 1..minted.model
      /\ \A m : <<"model", m>> \in built => m \in 1..minted.model
      /\ \A q \in Requests : req[q].phase = "insert" => req[q].model \in 1..minted.model
  BY DEF Types, Issued
<1>5. r.phase = "insert" => r.model = minted.model + 1 /\ Present' = Present /\ built' = built
  BY <1>1 DEF Begins, Continues, rows, Present
<1>6. \A m \in 1..minted.model : m # minted.model + 1
  BY <1>3
<1>7. /\ \A m \in Present' : m \in Present \/ (req[p].phase = "insert" /\ m = req[p].model)
      /\ \A m : <<"model", m>> \in built' =>
           <<"model", m>> \in built \/ (req[p].phase = "insert" /\ m = req[p].model)
  <2>1. /\ Present' \subseteq Present \cup (IF req[p].phase = "insert" THEN {req[p].model} ELSE {})
        /\ built' \subseteq built
              \cup (IF req[p].phase = "insert" THEN {<<"model", req[p].model>>} ELSE {})
              \cup (IF Adding(p) THEN {<<"field", req[p].field>>} ELSE {})
    BY <1>3, TablesKept
  <2>2. QED
    BY <2>1
<1>8. ASSUME NEW q \in Requests, req'[q].phase = "insert"
      PROVE  /\ req'[q].model \notin Present' /\ <<"model", req'[q].model>> \notin built'
             /\ \A s \in Requests \ {q} : req'[s].phase = "insert" => req'[s].model # req'[q].model
  <2>1. CASE q = p
    BY <1>2, <1>4, <1>5, <1>6, <1>8, <2>1
  <2>2. CASE q # p
    <3>1. /\ req'[q] = req[q] /\ req[q].model \notin Present /\ <<"model", req[q].model>> \notin built
          /\ \A s \in Requests \ {q} : req[s].phase = "insert" => req[s].model # req[q].model
      BY <1>2, <1>3, <1>8, <2>2 DEF FreshModels
    <3>2. req[q].model \in 1..minted.model
      BY <1>4, <1>8, <3>1
    <3>3. req'[q].model \notin Present' /\ <<"model", req'[q].model>> \notin built'
      BY <1>7, <2>2, <3>1
    <3>4. ASSUME NEW s \in Requests \ {q}, req'[s].phase = "insert"
          PROVE  req'[s].model # req'[q].model
      BY <1>2, <1>5, <1>6, <3>1, <3>2, <3>4
    <3>5. QED
      BY <3>3, <3>4
  <2>3. QED
    BY <2>1, <2>2
<1>9. QED
  BY <1>8 DEF FreshModels

LEMMA FreshFieldsKept ==
  ASSUME Types, Ownership, NEW p \in Requests, Start(p) \/ LoadMetadata(p) \/ Step(p) \/ Cut(p)
  PROVE  FreshFields'
<1>1. PICK r : Takes(p, r) /\ (Begins(p, r) \/ Continues(p, r))
  BY Taken
<1>2. req'[p] = r /\ \A q \in Requests \ {p} : req'[q] = req[q]
  BY <1>1, TakesOthers DEF Types
<1>3. Held /\ FreshFields /\ minted.field \in Nat /\ FieldSet \subseteq FieldIds
      /\ None \notin FieldIds
  BY CountersKept, Rows DEF Ownership, Types, FieldIds
<1>4. /\ FieldSet \subseteq 1..minted.field
      /\ \A f : <<"field", f>> \in built => f \in 1..minted.field
      /\ \A q \in Requests : req[q].field # None => req[q].field \in 1..minted.field
      /\ \A q \in Requests : Adding(q) => req[q].field \in FieldIds
  BY DEF Types, Issued, Handlers, Prepared, Adding
<1>5. r.op = "add" => \/ r.field = minted.field + 1 /\ FieldSet' = FieldSet /\ built' = built
                      \/ Adding(p) /\ r.field = req[p].field /\ FieldSet' = FieldSet /\ built' = built
  <2>1. CASE Begins(p, r)
    BY <2>1 DEF Begins, rows, FieldSet
  <2>2. CASE Continues(p, r) /\ r.op = "add"
    <3>1. ~Changes(p)
      BY <1>2, <2>2, ChangesEnd
    <3>2. SameSchema
      BY <3>1, Calm
    <3>3. QED
      BY <2>2, <3>2 DEF Continues, Adding, SameSchema
  <2>3. QED
    BY <1>1, <2>1, <2>2
<1>6. r.field # None => \/ r.field = minted.field + 1 /\ r.op = "add"
                        \/ r.field \in FieldSet
                        \/ r.field = req[p].field
  BY <1>1 DEF Takes, Prepared, Begins, Continues
<1>7. \A f \in 1..minted.field : f # minted.field + 1
  BY <1>3
<1>8. /\ \A f \in FieldSet' : f \in FieldSet \/ (Adding(p) /\ f = req[p].field)
      /\ \A f : <<"field", f>> \in built' =>
           <<"field", f>> \in built \/ (Adding(p) /\ f = req[p].field)
  <2>1. /\ FieldSet' \subseteq FieldSet \cup (IF Adding(p) THEN {req[p].field} ELSE {})
        /\ built' \subseteq built
              \cup (IF req[p].phase = "insert" THEN {<<"model", req[p].model>>} ELSE {})
              \cup (IF Adding(p) THEN {<<"field", req[p].field>>} ELSE {})
    BY <1>3, TablesKept
  <2>2. QED
    BY <2>1
<1>9. ASSUME NEW q \in Requests, req'[q].op = "add"
      PROVE  /\ req'[q].field \notin FieldSet' /\ <<"field", req'[q].field>> \notin built'
             /\ \A s \in Requests \ {q} : req'[s].field # req'[q].field
  <2>1. CASE q = p
    <3>1. CASE r.field = minted.field + 1 /\ FieldSet' = FieldSet /\ built' = built
      <4>1. \A s \in Requests \ {p} : req[s].field # minted.field + 1
        <5>1. minted.field + 1 # None
          BY <1>1, <1>2, <1>9, <2>1, <1>3, <3>1 DEF Takes, Prepared
        <5>2. QED
          BY <1>4, <1>7, <5>1
      <4>2. QED
        BY <1>2, <1>4, <1>7, <2>1, <3>1, <4>1
    <3>2. CASE Adding(p) /\ r.field = req[p].field /\ FieldSet' = FieldSet /\ built' = built
      BY <1>2, <1>3, <2>1, <3>2 DEF FreshFields
    <3>3. QED
      BY <1>2, <1>5, <1>9, <2>1, <3>1, <3>2
  <2>2. CASE q # p
    <3>1. /\ req'[q] = req[q] /\ Adding(q)
          /\ req[q].field \notin FieldSet /\ <<"field", req[q].field>> \notin built
          /\ \A s \in Requests \ {q} : req[s].field # req[q].field
      BY <1>2, <1>3, <1>9, <2>2 DEF FreshFields, Adding
    <3>2. req[q].field \in FieldIds /\ req[q].field # None /\ req[q].field \in 1..minted.field
      BY <1>3, <1>4, <3>1
    <3>3. req'[q].field \notin FieldSet' /\ <<"field", req'[q].field>> \notin built'
      BY <1>8, <2>2, <3>1
    <3>4. ASSUME NEW s \in Requests \ {q}
          PROVE  req'[s].field # req'[q].field
      <4>1. CASE s # p
        BY <1>2, <3>1, <4>1
      <4>2. CASE s = p
        BY <1>2, <1>6, <1>7, <2>2, <3>1, <3>2, <4>2
      <4>3. QED
        BY <4>1, <4>2
    <3>5. QED
      BY <3>3, <3>4
  <2>3. QED
    BY <2>1, <2>2
<1>10. QED
  BY <1>9 DEF FreshFields, Adding

LEMMA HeldKept ==
  ASSUME Types, Ownership, NEW p \in Requests, Start(p) \/ LoadMetadata(p) \/ Step(p) \/ Cut(p)
  PROVE  Held'
<1>1. PICK r : Takes(p, r) /\ (Begins(p, r) \/ Continues(p, r))
  BY Taken
<1>2. req'[p] = r /\ \A q \in Requests \ {p} : req'[q] = req[q]
  BY <1>1, TakesOthers DEF Types
<1>3. Held
  BY DEF Ownership
<1>4. r.phase = "commit" => /\ r.model \in Present' /\ r.model = req[p].model
                            /\ \A q \in Requests \ {p} : req[q].phase = "commit" =>
                                                           req[q].model # r.model
  <2>1. SUFFICES ASSUME r.phase = "commit"
                 PROVE  /\ r.model \in Present' /\ r.model = req[p].model
                        /\ \A q \in Requests \ {p} : req[q].phase = "commit" =>
                                                       req[q].model # r.model
    OBVIOUS
  <2>2. Continues(p, r)
    BY <1>1, <2>1 DEF Begins
  <2>3. ~Changes(p)
    BY <1>2, <2>1, ChangesEnd
  <2>4. QED
    BY <2>1, <2>2, <2>3, Calm DEF Continues, SameSchema, LockedByOther, Locks
<1>5. ASSUME NEW q \in Requests, req'[q].phase = "commit"
      PROVE  /\ req'[q].model \in Present'
             /\ \A s \in Requests \ {q} : req'[s].phase = "commit" => req'[s].model # req'[q].model
  <2>1. CASE q = p
    BY <1>2, <1>4, <1>5, <2>1
  <2>2. CASE q # p
    <3>1. req'[q] = req[q] /\ req[q].model \in Present
      BY <1>2, <1>3, <1>5, <2>2 DEF Held
    <3>2. req[q].model \in Present'
      BY <1>3, <1>5, <2>2, <3>1, RowsMove DEF Held
    <3>3. ASSUME NEW s \in Requests \ {q}, req'[s].phase = "commit"
          PROVE  req'[s].model # req'[q].model
      BY <1>2, <1>3, <1>4, <1>5, <2>2, <3>1, <3>3 DEF Held
    <3>4. QED
      BY <3>1, <3>2, <3>3
  <2>3. QED
    BY <2>1, <2>2
<1>6. QED
  BY <1>5 DEF Held

LEMMA CondemnedKept ==
  ASSUME Types, Ownership, NEW p \in Requests, Start(p) \/ LoadMetadata(p) \/ Step(p) \/ Cut(p)
  PROVE  Condemned'
<1>1. PICK r : Takes(p, r) /\ (Begins(p, r) \/ Continues(p, r))
  BY Taken
<1>2. req'[p] = r /\ \A q \in Requests \ {p} : req'[q] = req[q]
  BY <1>1, TakesOthers DEF Types
<1>3. Held /\ Condemned /\ FreshFields
  BY DEF Ownership
<1>4. \A f \in FieldSet' : f \in FieldSet \/ (Adding(p) /\ f = req[p].field)
  BY <1>3, TablesKept
<1>5. ASSUME NEW q \in Requests, req'[q].op = "delete_field"
      PROVE  /\ req'[q].field \in FieldSet' => fields'[req'[q].field].model = req'[q].model
             /\ req'[q].phase = "commit" => req'[q].field \in FieldSet'
  <2>1. CASE q = p
    <3>1. ~Changes(p)
      BY <1>2, <1>5, <2>1, ChangesEnd
    <3>2. SameSchema
      BY <3>1, Calm
    <3>3. CASE Begins(p, r)
      BY <1>2, <1>5, <2>1, <3>2, <3>3 DEF Begins, SameSchema
    <3>4. CASE Continues(p, r)
      BY <1>2, <1>3, <1>5, <2>1, <3>2, <3>4 DEF Continues, SameSchema, Condemned
    <3>5. QED
      BY <1>1, <3>3, <3>4
  <2>2. CASE q # p
    <3>1. /\ req'[q] = req[q] /\ req[q].op = "delete_field"
          /\ req[q].field \in FieldSet => fields[req[q].field].model = req[q].model
          /\ req[q].phase = "commit" => req[q].field \in FieldSet
      BY <1>2, <1>3, <1>5, <2>2 DEF Condemned
    <3>2. req[q].field \in FieldSet' => req[q].field \in FieldSet
      BY <1>3, <1>4, <2>2 DEF FreshFields
    <3>3. req[q].field \in FieldSet' => fields'[req[q].field].model = req[q].model
      BY <3>1, <3>2, RowsMove DEF SameField
    <3>4. req[q].phase = "commit" => req[q].field \in FieldSet'
      BY <1>3, <2>2, <3>1, RowsMove DEF Held
    <3>5. QED
      BY <3>1, <3>3, <3>4
  <2>3. QED
    BY <2>1, <2>2
<1>6. QED
  BY <1>5 DEF Condemned

LEMMA OwnershipKept ==
  ASSUME Types, Ownership, NEW p \in Requests, Start(p) \/ LoadMetadata(p) \/ Step(p) \/ Cut(p)
  PROVE  Ownership'
BY FreshModelsKept, FreshFieldsKept, HeldKept, CondemnedKept DEF Ownership

LEMMA RestartOwnership ==
  ASSUME Types, Restart
  PROVE  Ownership'
<1>1. \A p \in Requests : req'[p] = Idle
  BY DEF Restart
<1>2. Idle.phase = "idle" /\ Idle.op = "none"
  BY DEF Idle
<1>3. QED
  BY <1>1, <1>2 DEF Ownership, FreshModels, FreshFields, Held, Condemned, Adding

-----------------------------------------------------------------------------
\* Schema

LEMMA SameFields ==
  ASSUME SameSchema
  PROVE  \A m : FieldsOf(m)' = FieldsOf(m)
BY DEF SameSchema, FieldsOf

LEMMA CalmSchema ==
  ASSUME Tables, Schema, SameSchema
  PROVE  Schema'
<1>1. /\ Present' = Present /\ FieldSet' = FieldSet
      /\ \A m : FieldsOf(m)' = FieldsOf(m)
      /\ \A f \in FieldSet : SameField(f)
      /\ UNCHANGED <<tables, columns, joins, built>>
  BY SameFields DEF SameSchema, SameField
<1>2. \A m : FieldsOf(m) \subseteq FieldSet
  BY DEF FieldsOf
<1>3. NoOrphans'
  BY <1>1, <1>2 DEF Schema, NoOrphans, SameField
<1>4. BuiltRowsHaveObjects'
  BY <1>1 DEF Schema, BuiltRowsHaveObjects, SameField, Built, BuiltField
<1>5. RelationsResolve'
  BY <1>1 DEF Schema, RelationsResolve, SameField
<1>6. UniqueCodes'
  BY <1>1 DEF Schema, UniqueCodes, SameField
<1>7. QED
  BY <1>3, <1>4, <1>5, <1>6 DEF Schema

LEMMA CreateSchema ==
  ASSUME Types, Ownership, Schema, NEW p \in Requests, CreateModel(p) \/ CreateModelFails(p)
  PROVE  Schema'
<1> DEFINE m == req[p].model
<1>1. /\ m \in ModelIds /\ fields' = fields /\ FieldSet' = FieldSet /\ Present' = Present \cup {m}
      /\ columns' = columns /\ joins' = joins
  BY CreateEffect
<1>2. /\ m \notin Present /\ <<"model", m>> \notin built /\ req[p].phase = "insert"
  BY DEF CreateModel, CreateModelFails, Ownership, FreshModels
<1>3. \/ tables' = tables \cup {m} /\ built' = built \cup {<<"model", m>>}
      \/ tables' = tables /\ built' = built
  BY DEF CreateModel, CreateModelFails
<1>4. \A n : FieldsOf(n)' = FieldsOf(n)
  BY <1>1 DEF FieldsOf
<1>5. NoOrphans'
  BY <1>1, <1>3, <1>4 DEF Schema, NoOrphans
<1>6. BuiltRowsHaveObjects'
  <2>1. m \notin tables
    BY <1>2 DEF Schema, NoOrphans
  <2>2. \A n \in Present' : Built(n)' <=> n \in tables'
    BY <1>1, <1>2, <1>3, <2>1 DEF Schema, BuiltRowsHaveObjects, Built
  <2>3. \A f \in FieldSet : BuiltField(f)' <=> BuiltField(f)
    BY <1>3 DEF BuiltField
  <2>4. QED
    BY <1>1, <2>2, <2>3 DEF Schema, BuiltRowsHaveObjects
<1>7. RelationsResolve' /\ UniqueCodes'
  BY <1>1 DEF Schema, RelationsResolve, UniqueCodes
<1>8. QED
  BY <1>5, <1>6, <1>7 DEF Schema

LEMMA AddSchema ==
  ASSUME Types, Ownership, Schema, NEW p \in Requests, Adds(p)
  PROVE  Schema'
<1>a. PICK f, m, c, k, t : /\ f = req[p].field /\ m = req[p].model /\ c = req[p].code
                           /\ k = req[p].kind /\ t = req[p].target
  OBVIOUS
<1> DEFINE at == <<m, c>>
           pair == <<m, t>>
<1>0. Held /\ FreshFields /\ FieldSet \subseteq FieldIds /\ Tables
  BY Rows DEF Ownership, Types
<1>1. /\ req[p].op = "add" /\ f \in FieldIds /\ m \in Present
      /\ t # None => t \in Present
      /\ models' = models /\ Present' = Present /\ tables' = tables
      /\ FieldSet' = FieldSet \cup {f}
      /\ \A g \in FieldIds \ {f} : fields'[g] = fields[g]
      /\ fields'[f].model = m /\ fields'[f].code = c
      /\ fields'[f].kind = k /\ fields'[f].target = t
      /\ \A g \in FieldsOf(m) : fields[g].code # c
  BY <1>0, <1>a, AddEffect
<1>2. f \notin FieldSet /\ <<"field", f>> \notin built
  BY <1>0, <1>1, <1>a DEF FreshFields, Adding
<1>3. \A g \in FieldSet : g # f /\ fields'[g] = fields[g]
  BY <1>0, <1>1, <1>2
<1>4. \/ /\ columns' = columns \cup (IF CreatesColumn(k) THEN {at} ELSE {})
         /\ joins' = joins \cup (IF k = "many_to_many" THEN {pair} ELSE {})
         /\ built' = built \cup {<<"field", f>>}
      \/ columns' = columns /\ joins' = joins /\ built' = built
  BY <1>a DEF Adds, AddField, FieldAfterFailure
<1>5. \A n : FieldsOf(n) \subseteq FieldsOf(n)'
  BY <1>1, <1>3 DEF FieldsOf
<1>6. f \in FieldsOf(m)'
  BY <1>1 DEF FieldsOf
<1>7. NoOrphans'
  <2>1. tables' \subseteq Present'
    BY <1>1 DEF Schema, NoOrphans
  <2>2. ASSUME NEW l \in columns'
        PROVE  \E g \in FieldsOf(l[1])' : fields'[g].code = l[2] /\ CreatesColumn(fields'[g].kind)
    <3>1. CASE l \in columns
      <4>1. PICK g \in FieldsOf(l[1]) : fields[g].code = l[2] /\ CreatesColumn(fields[g].kind)
        BY <3>1 DEF Schema, NoOrphans
      <4>2. fields'[g] = fields[g] /\ g \in FieldsOf(l[1])'
        BY <1>3, <1>5, <4>1 DEF FieldsOf
      <4>3. QED
        BY <4>1, <4>2
    <3>2. CASE l = at /\ CreatesColumn(k)
      BY <1>1, <1>6, <3>2
    <3>3. QED
      BY <1>4, <3>1, <3>2
  <2>3. ASSUME NEW j \in joins'
        PROVE  \E g \in FieldsOf(j[1])' : fields'[g].target = j[2] /\ fields'[g].kind = "many_to_many"
    <3>1. CASE j \in joins
      <4>1. PICK g \in FieldsOf(j[1]) : fields[g].target = j[2] /\ fields[g].kind = "many_to_many"
        BY <3>1 DEF Schema, NoOrphans
      <4>2. fields'[g] = fields[g] /\ g \in FieldsOf(j[1])'
        BY <1>3, <1>5, <4>1 DEF FieldsOf
      <4>3. QED
        BY <4>1, <4>2
    <3>2. CASE j = pair /\ k = "many_to_many"
      BY <1>1, <1>6, <3>2
    <3>3. QED
      BY <1>4, <3>1, <3>2
  <2>4. QED
    BY <2>1, <2>2, <2>3 DEF NoOrphans
<1>8. at \notin columns
  <2>1. SUFFICES ASSUME at \in columns
                 PROVE  FALSE
    OBVIOUS
  <2>2. PICK g \in FieldsOf(at[1]) : fields[g].code = at[2]
    BY <2>1 DEF Schema, NoOrphans
  <2>3. QED
    BY <1>1, <2>2
<1>9. BuiltRowsHaveObjects'
  <2>1. \A n \in Present : Built(n)' <=> Built(n)
    BY <1>4 DEF Built
  <2>2. \A g \in FieldSet : BuiltField(g)' <=> BuiltField(g)
    BY <1>3, <1>4 DEF BuiltField
  <2>3. \A g \in FieldSet : <<fields[g].model, fields[g].code>> # at
    <3>1. \A g \in FieldSet : fields[g].model = m => fields[g].code # c
      BY <1>1 DEF FieldsOf
    <3>2. QED
      BY <3>1
  <2>4. \A g \in FieldSet : <<fields[g].model, fields[g].code>> \in columns' <=>
                            <<fields[g].model, fields[g].code>> \in columns
    BY <1>4, <2>3
  <2>5. CreatesColumn(k) => (BuiltField(f)' <=> at \in columns')
    BY <1>2, <1>4, <1>8 DEF BuiltField
  <2>6. \A n \in Present' : Built(n)' <=> n \in tables'
    BY <1>1, <2>1 DEF Schema, BuiltRowsHaveObjects
  <2>7. ASSUME NEW g \in FieldSet', CreatesColumn(fields'[g].kind)
        PROVE  BuiltField(g)' <=> <<fields'[g].model, fields'[g].code>> \in columns'
    <3>1. CASE g = f
      BY <1>1, <2>5, <2>7, <3>1
    <3>2. CASE g \in FieldSet
      BY <1>3, <2>2, <2>4, <2>7, <3>2 DEF Schema, BuiltRowsHaveObjects
    <3>3. QED
      BY <1>1, <3>1, <3>2
  <2>8. QED
    BY <2>6, <2>7 DEF BuiltRowsHaveObjects
<1>10. RelationsResolve'
  <2>1. ASSUME NEW g \in FieldSet'
        PROVE  fields'[g].model \in Present' /\ (fields'[g].target # None => fields'[g].target \in Present')
    BY <1>1, <1>3 DEF Schema, RelationsResolve
  <2>2. QED
    BY <2>1 DEF RelationsResolve
<1>11. UniqueCodes'
  <2>1. \A g \in FieldSet : fields[g].model = m => fields[g].code # c
    BY <1>1 DEF FieldsOf
  <2>2. QED
    BY <1>1, <1>3, <2>1 DEF Schema, UniqueCodes
<1>12. QED
  BY <1>7, <1>9, <1>10, <1>11 DEF Schema


LEMMA DeleteFieldSchema ==
  ASSUME Types, Ownership, Schema, NEW p \in Requests, DeleteField(p)
  PROVE  Schema'
<1>a. PICK f : f = req[p].field
  OBVIOUS
<1>0. Tables /\ f \in FieldSet /\ FieldSet \subseteq FieldIds
  BY <1>a, Rows DEF Types, Ownership, Condemned, DeleteField
<1>1. /\ Present' = Present /\ tables' = tables /\ built' = built /\ FieldSet' = FieldSet \ {f}
      /\ \A g \in FieldSet' : fields'[g] = fields[g]
  BY <1>a, DeleteFieldEffect
<1> DEFINE at == <<fields[f].model, fields[f].code>>
           pair == <<fields[f].model, fields[f].target>>
<1>2. /\ columns' = IF CreatesColumn(fields[f].kind) THEN columns \ {at} ELSE columns
      /\ joins' = IF fields[f].kind = "many_to_many" THEN joins \ {pair} ELSE joins
  BY <1>a DEF DeleteField, ColumnsWithout
<1>3. \A n, g : g \in FieldsOf(n) /\ g # f => g \in FieldsOf(n)' /\ fields'[g] = fields[g]
  BY <1>1 DEF FieldsOf
<1>4. NoOrphans'
  <2>1. ASSUME NEW l \in columns'
        PROVE  \E g \in FieldsOf(l[1])' : fields'[g].code = l[2] /\ CreatesColumn(fields'[g].kind)
    <3>1. PICK g \in FieldsOf(l[1]) : fields[g].code = l[2] /\ CreatesColumn(fields[g].kind)
      BY <1>2, <2>1 DEF Schema, NoOrphans
    <3>2. l = <<l[1], l[2]>>
      BY <1>0, <1>2, <2>1 DEF Tables
    <3>3. g # f
      BY <1>2, <2>1, <3>1, <3>2 DEF FieldsOf
    <3>4. QED
      BY <1>3, <3>1, <3>3
  <2>2. ASSUME NEW j \in joins'
        PROVE  \E g \in FieldsOf(j[1])' : fields'[g].target = j[2] /\ fields'[g].kind = "many_to_many"
    <3>1. PICK g \in FieldsOf(j[1]) : fields[g].target = j[2] /\ fields[g].kind = "many_to_many"
      BY <1>2, <2>2 DEF Schema, NoOrphans
    <3>2. j = <<j[1], j[2]>>
      BY <1>0, <1>2, <2>2 DEF Tables
    <3>3. g # f
      BY <1>2, <2>2, <3>1, <3>2 DEF FieldsOf
    <3>4. QED
      BY <1>3, <3>1, <3>3
  <2>3. tables' \subseteq Present'
    BY <1>1 DEF Schema, NoOrphans
  <2>4. QED
    BY <2>1, <2>2, <2>3 DEF NoOrphans
<1>5. BuiltRowsHaveObjects'
  <2>1. \A n \in Present' : Built(n)' <=> n \in tables'
    BY <1>1 DEF Schema, BuiltRowsHaveObjects, Built
  <2>2. ASSUME NEW g \in FieldSet', CreatesColumn(fields'[g].kind)
        PROVE  BuiltField(g)' <=> <<fields'[g].model, fields'[g].code>> \in columns'
    <3>1. g \in FieldSet /\ g # f /\ fields'[g] = fields[g]
      BY <1>1
    <3>2. <<fields[g].model, fields[g].code>> # at
      BY <1>0, <3>1 DEF Schema, UniqueCodes
    <3>3. QED
      BY <1>1, <1>2, <2>2, <3>1, <3>2 DEF Schema, BuiltRowsHaveObjects, BuiltField
  <2>3. QED
    BY <2>1, <2>2 DEF BuiltRowsHaveObjects
<1>6. RelationsResolve' /\ UniqueCodes'
  BY <1>1 DEF Schema, RelationsResolve, UniqueCodes
<1>7. QED
  BY <1>4, <1>5, <1>6 DEF Schema

LEMMA DeleteModelSchema ==
  ASSUME Types, Schema, NEW p \in Requests, DeleteModel(p)
  PROVE  Schema'
<1>a. PICK m : m = req[p].model
  OBVIOUS
<1>0. Tables
  BY DEF Types
<1>1. /\ Present' = Present \ {m} /\ FieldSet' = FieldSet \ FieldsOf(m) /\ built' = built
      /\ \A g \in FieldSet' : fields'[g] = fields[g]
  BY <1>a, DeleteModelEffect
<1>2. /\ tables' = tables \ {m} /\ columns' = {c \in columns : c[1] # m}
      /\ joins' = joins \ JoinTablesOf(m)
      /\ \A f \in FieldSet : fields[f].target = m => fields[f].model = m
  BY <1>a DEF DeleteModel, Referenced
<1>3. ASSUME NEW n, n # m, NEW g \in FieldsOf(n)
      PROVE  g \in FieldsOf(n)' /\ fields'[g] = fields[g]
  BY <1>1, <1>3 DEF FieldsOf
<1>4. NoOrphans'
  <2>1. tables' \subseteq Present'
    BY <1>1, <1>2 DEF Schema, NoOrphans
  <2>2. ASSUME NEW l \in columns'
        PROVE  \E g \in FieldsOf(l[1])' : fields'[g].code = l[2] /\ CreatesColumn(fields'[g].kind)
    BY <1>2, <1>3, <2>2 DEF Schema, NoOrphans
  <2>3. ASSUME NEW j \in joins'
        PROVE  \E g \in FieldsOf(j[1])' : fields'[g].target = j[2] /\ fields'[g].kind = "many_to_many"
    BY <1>2, <1>3, <2>3 DEF Schema, NoOrphans, JoinTablesOf
  <2>4. QED
    BY <2>1, <2>2, <2>3 DEF NoOrphans
<1>5. BuiltRowsHaveObjects'
  <2>1. \A n \in Present' : Built(n)' <=> n \in tables'
    BY <1>1, <1>2 DEF Schema, BuiltRowsHaveObjects, Built
  <2>2. ASSUME NEW g \in FieldSet', CreatesColumn(fields'[g].kind)
        PROVE  BuiltField(g)' <=> <<fields'[g].model, fields'[g].code>> \in columns'
    <3>1. g \in FieldSet /\ fields[g].model # m /\ fields'[g] = fields[g]
      BY <1>1 DEF FieldsOf
    <3>2. <<fields[g].model, fields[g].code>> \in columns' <=>
            <<fields[g].model, fields[g].code>> \in columns
      BY <1>2, <3>1
    <3>3. QED
      BY <1>1, <2>2, <3>1, <3>2 DEF Schema, BuiltRowsHaveObjects, BuiltField
  <2>3. QED
    BY <2>1, <2>2 DEF BuiltRowsHaveObjects
<1>6. RelationsResolve'
  <2>1. ASSUME NEW g \in FieldSet'
        PROVE  fields'[g].model \in Present' /\ (fields'[g].target # None => fields'[g].target \in Present')
    <3>1. g \in FieldSet /\ fields[g].model # m /\ fields'[g] = fields[g]
      BY <1>1 DEF FieldsOf
    <3>2. QED
      BY <1>1, <1>2, <3>1 DEF Schema, RelationsResolve
  <2>2. QED
    BY <2>1 DEF RelationsResolve
<1>7. UniqueCodes'
  BY <1>1 DEF Schema, UniqueCodes
<1>8. QED
  BY <1>4, <1>5, <1>6, <1>7 DEF Schema

LEMMA StatusSchema ==
  ASSUME Types, Schema, NEW p \in Requests, UpdateStatus(p)
  PROVE  Schema'
<1>1. /\ fields' = fields /\ FieldSet' = FieldSet /\ Present' = Present
      /\ UNCHANGED <<tables, columns, joins, built>>
  BY StatusEffect
<1>2. \A m : FieldsOf(m)' = FieldsOf(m)
  BY <1>1 DEF FieldsOf
<1>3. NoOrphans'
  BY <1>1, <1>2 DEF Schema, NoOrphans
<1>4. BuiltRowsHaveObjects'
  BY <1>1 DEF Schema, BuiltRowsHaveObjects, Built, BuiltField
<1>5. RelationsResolve' /\ UniqueCodes'
  BY <1>1 DEF Schema, RelationsResolve, UniqueCodes
<1>6. QED
  BY <1>3, <1>4, <1>5 DEF Schema

LEMMA SchemaKept ==
  ASSUME Types, Ownership, Schema, NEW p \in Requests,
         Start(p) \/ LoadMetadata(p) \/ Step(p) \/ Cut(p)
  PROVE  Schema'
<1>1. CASE FieldAfterFailure(p) /\ ~Adds(p)
  <2>1. UNCHANGED rows
    BY <1>1 DEF FieldAfterFailure, Adds, rows
  <2>2. QED
    BY <2>1, SameRows, CalmSchema DEF Types
<1>2. CASE ~Changes(p)
  BY <1>2, Calm, CalmSchema DEF Types
<1>3. QED
  BY <1>1, <1>2, CreateSchema, AddSchema, DeleteFieldSchema, DeleteModelSchema, StatusSchema
     DEF Changes, Adds

LEMMA GrantsKept ==
  ASSUME Types, Ownership, GrantedUnlessCut, NEW p \in Requests,
         Start(p) \/ LoadMetadata(p) \/ Step(p) \/ Cut(p)
  PROVE  GrantedUnlessCut'
<1>1. PICK r : Takes(p, r) /\ (Begins(p, r) \/ Continues(p, r))
  BY Taken
<1>2. req'[p] = r /\ \A q \in Requests \ {p} : req'[q] = req[q]
  BY <1>1, TakesOthers DEF Types
<1>3. \A m \in Present' \ grants' :
        \/ m \in Present \ grants
        \/ m \in ungranted'
        \/ r.phase = "grant" /\ m = r.model
  <2>1. CASE CreateModel(p)
    <3>1. /\ req[p].phase = "insert" /\ req' = To(p, "grant") /\ grants' = grants
      BY <2>1 DEF CreateModel
    <3>2. req'[p].phase = "grant" /\ req'[p].model = req[p].model
      BY <3>1 DEF To, Types, Handlers, Orders
    <3>3. QED
      BY <1>2, <2>1, <3>1, <3>2, CreateEffect
  <2>2. CASE CreateModelFails(p)
    <3>1. ungranted' = ungranted \cup {req[p].model} /\ grants' = grants
      BY <2>2 DEF CreateModelFails
    <3>2. QED
      BY <2>2, <3>1, CreateEffect
  <2>3. CASE DeleteModel(p)
    <3>1. grants' = grants \ {req[p].model}
      BY <2>3 DEF DeleteModel
    <3>2. QED
      BY <2>3, <3>1, DeleteModelEffect
  <2>4. CASE ~CreateModel(p) /\ ~CreateModelFails(p) /\ ~DeleteModel(p)
    <3>1. Present' = Present
      <4>1. CASE FieldAfterFailure(p) /\ ~Adds(p)
        BY <4>1 DEF FieldAfterFailure, Adds, Present
      <4>2. QED
        BY <2>4, <4>1, AddEffect, DeleteFieldEffect, StatusEffect, Calm
           DEF Changes, Adds, Ownership, SameSchema
    <3>2. grants \subseteq grants'
      <4>1. CASE Start(p) \/ LoadMetadata(p)
        BY <4>1, Started DEF Begins
      <4>2. CASE Step(p) \/ Cut(p)
        BY <2>4, <4>2 DEF Step, Cut, GrantModel, LockModel, AddField, AddFieldFails,
           FieldAfterFailure, DeleteField, DeletionFails, UpdateStatus, ListFields, ListModels,
           InspectModel, RecordField, RecordModel, Publish, QueryRecords, MarkUnavailable
      <4>3. QED
        BY <4>1, <4>2
    <3>3. QED
      BY <3>1, <3>2
  <2>5. QED
    BY <2>1, <2>2, <2>3, <2>4
<1>4. ungranted \subseteq ungranted'
  <2>1. CASE Start(p) \/ LoadMetadata(p)
    BY <2>1, Started DEF Begins
  <2>2. CASE Step(p) \/ Cut(p)
    BY <2>2 DEF Step, Cut, CreateModel, CreateModelFails, GrantModel, LockModel, AddField,
       AddFieldFails, FieldAfterFailure, DeleteField, DeleteModel, DeletionFails, UpdateStatus,
       ListFields, ListModels, InspectModel, RecordField, RecordModel, Publish, QueryRecords, MarkUnavailable
  <2>3. QED
    BY <2>1, <2>2
\* A request that leaves the grant has granted its model, or lost it, or was cut.
<1>5. req[p].phase = "grant" =>
        req[p].model \in grants' \/ req[p].model \notin Present' \/ req[p].model \in ungranted'
  <2>1. SUFFICES ASSUME req[p].phase = "grant"
                 PROVE  \/ req[p].model \in grants' \/ req[p].model \notin Present'
                        \/ req[p].model \in ungranted'
    OBVIOUS
  <2>2. GrantModel(p) \/ Cut(p)
    BY <2>1 DEF Start, StartCreate, StartAdd, StartDeleteField, StartDelete, StartStatus,
       StartTouch, Begin, Accept, LoadMetadata, Step, CreateModel, CreateModelFails, LockModel,
       AddField, AddFieldFails, FieldAfterFailure, DeleteField, DeleteModel, DeletionFails,
       UpdateStatus, ListFields, ListModels, InspectModel, RecordField, RecordModel, Publish, QueryRecords,
       MarkUnavailable
  <2>3. CASE GrantModel(p)
    BY <2>3 DEF GrantModel, store, rows, Present
  <2>4. CASE Cut(p)
    BY <2>1, <2>4 DEF Cut
  <2>5. QED
    BY <2>2, <2>3, <2>4
<1>6. ASSUME NEW m \in Present' \ grants'
      PROVE  m \in ungranted' \/ \E q \in Requests : req'[q].phase = "grant" /\ req'[q].model = m
  <2>1. CASE r.phase = "grant" /\ m = r.model
    BY <1>2, <2>1
  <2>2. CASE m \in Present \ grants
    <3>1. CASE m \in ungranted
      BY <1>4, <3>1
    <3>2. CASE \E q \in Requests : req[q].phase = "grant" /\ req[q].model = m
      BY <1>2, <1>5, <1>6, <3>2
    <3>3. QED
      BY <2>2, <3>1, <3>2 DEF GrantedUnlessCut
  <2>3. QED
    BY <1>3, <2>1, <2>2
<1>7. QED
  BY <1>6 DEF GrantedUnlessCut

LEMMA RestartSchema ==
  ASSUME Types, Schema, GrantedUnlessCut, Restart
  PROVE  Schema' /\ GrantedUnlessCut'
<1>1. SameSchema
  BY RestartEffect
<1>2. Schema'
  BY <1>1, CalmSchema DEF Types
<1>3. /\ grants' = grants
      /\ ungranted' = ungranted \cup {req[p].model : p \in {q \in Requests : req[q].phase = "grant"}}
  BY DEF Restart
<1>4. QED
  BY <1>1, <1>2, <1>3 DEF SameSchema, GrantedUnlessCut

-----------------------------------------------------------------------------
\* Registry, verdicts and record operations

\* What the health check says of a model is what its history says.
LEMMA UpMeansServable ==
  ASSUME Tables, Schema, NEW m \in Present
  PROVE  ModelUp(m) <=> Servable(m)
<1>1. Built(m) <=> m \in tables
  BY DEF Schema, BuiltRowsHaveObjects
<1>2. ASSUME NEW f \in FieldsOf(m), m \in tables
      PROVE  FieldUp(f) <=> /\ fields[f].kind # "many_to_many"
                            /\ BuiltField(f) \/ fields[f].kind = "one_to_many"
  <2>1. f \in FieldSet /\ fields[f].model = m /\ fields[f].kind \in AllKinds
    BY Rows DEF FieldsOf, FieldRows
  <2>2. FieldUp(f) <=> (fields[f].kind = "one_to_many" \/ <<m, fields[f].code>> \in columns)
    BY <1>2, <2>1 DEF FieldUp, HasObject, Row, RequiresColumn
  <2>3. CASE CreatesColumn(fields[f].kind)
    <3>1. BuiltField(f) <=> <<m, fields[f].code>> \in columns
      BY <2>1, <2>3 DEF Schema, BuiltRowsHaveObjects
    <3>2. fields[f].kind # "many_to_many"
      BY <2>3 DEF CreatesColumn
    <3>3. QED
      BY <2>2, <3>1, <3>2
  <2>4. CASE fields[f].kind = "one_to_many"
    BY <2>2, <2>4
  <2>5. CASE fields[f].kind = "many_to_many"
    <3>1. <<m, fields[f].code>> \notin columns
      <4>1. SUFFICES ASSUME <<m, fields[f].code>> \in columns
                     PROVE  FALSE
        OBVIOUS
      <4>2. PICK g \in FieldsOf(m) : fields[g].code = fields[f].code /\ CreatesColumn(fields[g].kind)
        BY <4>1 DEF Schema, NoOrphans
      <4>3. g = f
        BY <2>1, <4>2 DEF Schema, UniqueCodes, FieldsOf
      <4>4. QED
        BY <2>5, <4>2, <4>3 DEF CreatesColumn
    <3>2. QED
      BY <2>2, <2>5, <3>1
  <2>6. QED
    BY <2>1, <2>3, <2>4, <2>5 DEF AllKinds, CreatesColumn
<1>3. QED
  BY <1>1, <1>2 DEF ModelUp, Servable

LEMMA SameMeans ==
  ASSUME SameSchema
  PROVE  /\ \A m : FieldsOf(m)' = FieldsOf(m)
         /\ \A f \in FieldSet : FieldUp(f)' <=> FieldUp(f)
         /\ \A m : ModelUp(m)' <=> ModelUp(m)
         /\ \A m : Servable(m)' <=> Servable(m)
         /\ \A m \in Present : Entry(m)' = Entry(m)
<1>1. /\ Present' = Present /\ FieldSet' = FieldSet /\ \A f \in FieldSet : SameField(f)
      /\ \A m \in Present : models'[m].status = models[m].status
      /\ UNCHANGED <<tables, columns, built>>
  BY DEF SameSchema, SameField
<1>2. \A m : FieldsOf(m)' = FieldsOf(m)
  BY SameFields
<1>3. \A m : FieldsOf(m) \subseteq FieldSet
  BY DEF FieldsOf
<1>4. \A f \in FieldSet : FieldUp(f)' <=> FieldUp(f)
  BY <1>1 DEF FieldUp, HasObject, Row, SameField
<1>5. \A m : ModelUp(m)' <=> ModelUp(m)
  BY <1>1, <1>2, <1>3, <1>4 DEF ModelUp
<1>6. \A m : Servable(m)' <=> Servable(m)
  BY <1>1, <1>2, <1>3 DEF Servable, Built, BuiltField, SameField
<1>7. ASSUME NEW m \in Present
      PROVE  Entry(m)' = Entry(m)
  <2>1. {<<f, fields[f].code, fields[f].kind>> : f \in FieldsOf(m)}'
          = {<<f, fields[f].code, fields[f].kind>> : f \in FieldsOf(m)}
    BY <1>1, <1>2, <1>3 DEF SameField
  <2>2. QED
    BY <1>1, <2>1 DEF Entry
<1>8. QED
  BY <1>2, <1>4, <1>5, <1>6, <1>7

LEMMA SameEntries ==
  ASSUME SameSchema
  PROVE  ServableEntries' = ServableEntries
<1>1. Present' = Present
  BY DEF SameSchema
<1>2. QED
  BY <1>1, SameMeans DEF ServableEntries

\* A reading that is left alone, or loses a piece of news, still holds when only
\* health was written.
LEMMA StillSees ==
  ASSUME SameSchema, NEW q \in Requests, Sees(q), req'[q] = req[q],
         scan'[q].rows = scan[q].rows, scan'[q].todo = scan[q].todo,
         scan'[q].kept = scan[q].kept, scan'[q].down = scan[q].down,
         scan'[q].up = scan[q].up, scan'[q].news \subseteq scan[q].news
  PROVE  Sees(q)'
<1>1. /\ Present' = Present /\ FieldSet' = FieldSet /\ \A f \in FieldSet : SameField(f)
      /\ \A m \in Present : models'[m].status = models[m].status
      /\ UNCHANGED <<tables, columns>>
  BY DEF SameSchema, SameField
<1>2. /\ \A m : FieldsOf(m)' = FieldsOf(m)
      /\ \A f \in FieldSet : FieldUp(f)' <=> FieldUp(f)
      /\ \A m : ModelUp(m)' <=> ModelUp(m)
      /\ \A m : Servable(m)' <=> Servable(m)
      /\ \A m \in Present : Entry(m)' = Entry(m)
  BY SameMeans
<1>3. SeesFields(q) => SeesFields(q)'
  BY <1>1 DEF SeesFields, SameField
<1>4. Inspected(q)' = Inspected(q)
  BY <1>1 DEF Inspected, Earliest
<1>5. {Entry(m) : m \in {n \in Inspected(q) : Servable(n)}}'
        = {Entry(m) : m \in {n \in Inspected(q) : Servable(n)}}
  BY <1>2, <1>4 DEF Inspected
<1>6. SeesModels(q) => SeesModels(q)'
  BY <1>1, <1>5 DEF SeesModels
<1>7. Judges(q) => Judges(q)'
  <2>0. Judges(q) => (\E t \in scan[q].todo : Earliest(q, t))'
    BY DEF Judges, Earliest
  <2>1. SUFFICES ASSUME Judges(q), NEW t \in scan[q].todo, Earliest(q, t)
                 PROVE  /\ scan'[q].up = ModelUp(t.id)'
                        /\ scan'[q].down = {f \in FieldsOf(t.id) : ~FieldUp(f)}'
                        /\ scan'[q].news \subseteq FieldsOf(t.id)'
    BY <2>0 DEF Judges, Earliest
  <2>2. scan[q].up = ModelUp(t.id) /\ scan[q].down = {f \in FieldsOf(t.id) : ~FieldUp(f)}
        /\ scan[q].news \subseteq FieldsOf(t.id)
    BY <2>1 DEF Judges
  <2>3. {f \in FieldsOf(t.id) : ~FieldUp(f)}' = {f \in FieldsOf(t.id) : ~FieldUp(f)}
    BY <1>2 DEF FieldsOf
  <2>4. ModelUp(t.id)' = ModelUp(t.id)
    BY <1>2 DEF ModelUp
  <2>5. QED
    BY <1>2, <2>2, <2>3, <2>4
<1>8. Finds(q) => Finds(q)'
  BY <1>1 DEF Finds
<1>9. QED
  BY <1>3, <1>6, <1>7, <1>8 DEF Sees

\* A reading that has not begun, or is over, sees nothing.
LEMMA SeesNothing ==
  ASSUME NEW q \in Requests,
         req[q].phase \notin {"list_models", "inspect", "record", "query", "mark"}
  PROVE  Sees(q)
BY DEF Sees


\* A change overtakes the readings in progress.
LEMMA OvertakenCurrent ==
  ASSUME Types, Current, NEW p \in Requests, Changes(p), Overtake(p)
  PROVE  Current'
<1>1. CASE req'[p].phase \in {"idle", "grant", "list_fields"}
  <2>1. PICK r : Takes(p, r)
    BY Taken DEF Changes, Step
  <2>2. \A q \in Requests \ {p} : req'[q] = req[q]
    BY <2>1, TakesOthers DEF Types
  <2>3. fresh' = FALSE /\ \A q \in Requests \ {p} : req[q].phase \in Reading => q \in lapped'
    BY DEF Overtake
  <2>4. lapped \subseteq lapped'
    BY DEF Overtake
  <2>5. ASSUME NEW q \in Requests \ lapped'
        PROVE  Sees(q)'
    <3>1. CASE q = p
      BY <1>1, <3>1 DEF Sees
    <3>2. CASE q # p
      <4>1. req'[q] = req[q] /\ req[q].phase \notin Reading
        BY <2>2, <2>3, <2>5, <3>2
      <4>2. Sees(q)
        BY <2>4, <2>5 DEF Current
      <4>3. QED
        BY <4>1, <4>2 DEF Sees, Reading
    <3>3. QED
      BY <3>1, <3>2
  <2>6. QED
    BY <2>3, <2>5 DEF Current, Served
<1>2. CASE req'[p].phase \notin {"idle", "grant", "list_fields"}
  <2>1. req' = To(p, "grant") \/ req' = Done(p) \/ req' = Rebuild(p)
    BY DEF Changes, CreateModel, CreateModelFails, AddField, FieldAfterFailure, DeleteField,
           DeleteModel, UpdateStatus
  <2>2. QED
    BY <1>2, <2>1 DEF To, Done, Rebuild, Idle, Types, Handlers, Orders
<1>3. QED
  BY <1>1, <1>2

\* A calm step of p that publishes nothing keeps everything current if what p
\* itself sees after it is so.
LEMMA CalmCurrent ==
  ASSUME Types, Current, NEW p \in Requests, SameSchema,
         fresh' = fresh, registry' = registry,
         \A q \in Requests \ {p} : req'[q] = req[q] /\ scan'[q] = scan[q],
         lapped \subseteq lapped' \cup {p},
         p \notin lapped' => Sees(p)'
  PROVE  Current'
<1>1. Served'
  BY SameEntries DEF Current, Served
<1>2. ASSUME NEW q \in Requests \ lapped'
      PROVE  Sees(q)'
  <2>1. CASE q = p
    BY <1>2, <2>1
  <2>2. CASE q # p
    <3>1. Sees(q)
      BY <1>2, <2>2 DEF Current
    <3>2. QED
      BY <2>2, <3>1, StillSees
  <2>3. QED
    BY <2>1, <2>2
<1>3. QED
  BY <1>1, <1>2 DEF Current

LEMMA BeginsCurrent ==
  ASSUME Types, Schema, Current, NEW p \in Requests, Start(p) \/ LoadMetadata(p)
  PROVE  Current'
<1>1. PICK r : Begins(p, r)
  BY Started
<1>2. /\ SameSchema /\ fresh' = fresh /\ registry' = registry /\ scan' = scan
      /\ lapped \subseteq lapped' /\ req'[p] = r
      /\ \A q \in Requests \ {p} : req'[q] = req[q]
  BY <1>1, SameRows, TakesOthers DEF Begins, Types
<1>3. CASE r.phase # "query"
  <2>1. Sees(p)'
    BY <1>1, <1>2, <1>3 DEF Begins, Sees
  <2>2. QED
    BY <1>2, <2>1, CalmCurrent
<1>4. CASE LoadMetadata(p)
  <2>1. PICK e \in registry :
          LET o == Order("crud", "query", e.model) IN
          \/ req' = [req EXCEPT ![p] = o]
          \/ \E f \in e.fields : req' = [req EXCEPT ![p] = [o EXCEPT !.code = f[2], !.kind = f[3]]]
    BY <1>4 DEF LoadMetadata
  <2> DEFINE c == req'[p].code
             k == req'[p].kind
  <2> DEFINE o == Order("crud", "query", e.model)
  <2>1a. o \in Orders /\ o.phase = "query" /\ o.model = e.model /\ o.code = None
    <3>1. e.model \in ModelIds
      BY DEF Types, Handlers, Entries
    <3>2. QED
      BY <3>1, Ordered DEF Ops, Phases
  <2>1b. /\ o.phase = "query" /\ o.model = e.model /\ o.code = None
        /\ \A f \in e.fields : LET x == [o EXCEPT !.code = f[2], !.kind = f[3]] IN
             x.phase = "query" /\ x.model = e.model /\ x.code = f[2] /\ x.kind = f[3]
    <3> HIDE DEF o
    <3>1. QED
      BY <2>1a DEF Orders
  <2>1c. req'[p] = o \/ \E f \in e.fields : req'[p] = [o EXCEPT !.code = f[2], !.kind = f[3]]
    <3> HIDE DEF o
    <3>1. \/ req' = [req EXCEPT ![p] = o]
          \/ \E f \in e.fields : req' = [req EXCEPT ![p] = [o EXCEPT !.code = f[2], !.kind = f[3]]]
      BY <2>1 DEF o
    <3>2. req \in [Requests -> Orders]
      BY DEF Types, Handlers
    <3>3. CASE req' = [req EXCEPT ![p] = o]
      BY <3>2, <3>3
    <3>4. ASSUME NEW f \in e.fields, req' = [req EXCEPT ![p] = [o EXCEPT !.code = f[2], !.kind = f[3]]]
          PROVE  req'[p] = [o EXCEPT !.code = f[2], !.kind = f[3]]
      <4> DEFINE x == [o EXCEPT !.code = f[2], !.kind = f[3]]
      <4>1. req' = [req EXCEPT ![p] = x]
        BY <3>4
      <4> HIDE DEF x
      <4>2. req'[p] = x
        BY <3>2, <4>1
      <4>3. QED
        BY <4>2 DEF x
    <3>5. QED
      BY <3>1, <3>3, <3>4
  <2> HIDE DEF o, c, k
  <2>2. c # None => \E f \in e.fields : c = f[2] /\ k = f[3]
    BY <2>1b, <2>1c DEF c, k
  <2>3. req'[p].phase = "query" /\ req'[p].model = e.model
    BY <2>1b, <2>1c
  <2>4. ASSUME p \notin lapped'
        PROVE  /\ e.model \in tables
               /\ c # None /\ k # "one_to_many" => <<e.model, c>> \in columns
    <3>1. fresh
      BY <1>4, <2>4 DEF LoadMetadata
    <3>2. PICK m \in Present : Servable(m) /\ e = Entry(m)
      BY <3>1 DEF Current, Served, ServableEntries
    <3>3. e.model = m /\ e.fields = {<<f, fields[f].code, fields[f].kind>> : f \in FieldsOf(m)}
      BY <3>2 DEF Entry
    <3>4. m \in tables
      BY <3>2 DEF Servable, Schema, BuiltRowsHaveObjects
    <3>5. ASSUME NEW f \in FieldsOf(m), fields[f].kind # "one_to_many"
          PROVE  <<m, fields[f].code>> \in columns
      <4>1. f \in FieldSet /\ fields[f].model = m /\ BuiltField(f) /\ fields[f].kind # "many_to_many"
        BY <3>2, <3>5 DEF FieldsOf, Servable
      <4>2. fields[f].kind \in AllKinds
        BY <4>1, Rows DEF Types, FieldRows
      <4>3. CreatesColumn(fields[f].kind)
        BY <3>5, <4>1, <4>2 DEF CreatesColumn, AllKinds
      <4>4. QED
        BY <4>1, <4>3 DEF Schema, BuiltRowsHaveObjects
    <3>6. c # None /\ k # "one_to_many" => <<m, c>> \in columns
      BY <2>2, <3>3, <3>5
    <3>7. QED
      BY <3>3, <3>4, <3>6
  <2>5. tables' = tables /\ columns' = columns
    BY <1>2 DEF SameSchema
  <2>6. p \notin lapped' => Sees(p)'
    BY <2>3, <2>4, <2>5 DEF Sees, Finds, c, k
  <2>7. QED
    BY <1>2, <2>6, CalmCurrent
<1>5. QED
  BY <1>1, <1>3, <1>4 DEF Begins


\* What an inspection finds out, when the fields listed are those there are.
LEMMA InspectionIsTrue ==
  ASSUME Types, Schema, NEW p \in Requests, SeesFields(p), SeesModels(p), NEW t \in scan[p].todo
  PROVE  /\ Lost(p, t) = {f \in FieldsOf(t.id) : ~FieldUp(f)} /\ Well(p, t) = ModelUp(t.id)
         /\ Well(p, t) <=> Servable(t.id)
         /\ EntryOf(p, t) = Entry(t.id)
         /\ {r.id : r \in Mine(p, t)} \subseteq FieldsOf(t.id)
<1>1. \A r \in scan[p].rows : /\ r.id \in FieldSet /\ r.model = fields[r.id].model
                              /\ r.code = fields[r.id].code /\ r.kind = fields[r.id].kind
  BY DEF SeesFields
<1>2. \A f \in FieldSet : \E r \in scan[p].rows : r.id = f
  BY DEF SeesFields
<1>3. \A r \in Mine(p, t) : /\ r.id \in FieldsOf(t.id)
                            /\ r.code = fields[r.id].code /\ r.kind = fields[r.id].kind
  BY <1>1 DEF Mine, FieldsOf
<1>4. \A f \in FieldsOf(t.id) : \E r \in Mine(p, t) : r.id = f
  BY <1>1, <1>2 DEF Mine, FieldsOf
<1>5. \A r \in Mine(p, t) : HasObject(r) <=> FieldUp(r.id)
  BY <1>1 DEF Mine, HasObject, FieldUp, Row
<1>6. Lost(p, t) = {f \in FieldsOf(t.id) : ~FieldUp(f)}
  <2>1. ASSUME NEW f \in Lost(p, t)
        PROVE  f \in FieldsOf(t.id) /\ ~FieldUp(f)
    <3>1. PICK r \in Mine(p, t) : r.id = f /\ ~HasObject(r)
      BY <2>1 DEF Lost, Down
    <3>2. QED
      BY <1>3, <1>5, <3>1
  <2>2. ASSUME NEW f \in FieldsOf(t.id), ~FieldUp(f)
        PROVE  f \in Lost(p, t)
    <3>1. PICK r \in Mine(p, t) : r.id = f
      BY <1>4
    <3>2. ~HasObject(r)
      BY <1>5, <2>2, <3>1
    <3>3. QED
      BY <3>1, <3>2 DEF Lost, Down
  <2>3. QED
    BY <2>1, <2>2
<1>7. Well(p, t) = ModelUp(t.id)
  BY <1>6 DEF Well, Up, ModelUp
<1>8. t.id \in Present /\ t.status = models[t.id].status
  BY DEF SeesModels
<1>9. Well(p, t) <=> Servable(t.id)
  BY <1>7, <1>8, UpMeansServable DEF Types
<1>10. {<<r.id, r.code, r.kind>> : r \in Mine(p, t)}
         = {<<f, fields[f].code, fields[f].kind>> : f \in FieldsOf(t.id)}
  <2>1. ASSUME NEW r \in Mine(p, t)
        PROVE  <<r.id, r.code, r.kind>> \in
                 {<<f, fields[f].code, fields[f].kind>> : f \in FieldsOf(t.id)}
    BY <1>3
  <2>2. ASSUME NEW f \in FieldsOf(t.id)
        PROVE  <<f, fields[f].code, fields[f].kind>> \in
                 {<<r.id, r.code, r.kind>> : r \in Mine(p, t)}
    BY <1>3, <1>4
  <2>3. QED
    BY <2>1, <2>2
<1>11. EntryOf(p, t) = Entry(t.id)
  BY <1>8, <1>10 DEF EntryOf, Entry
<1>12. QED
  BY <1>3, <1>6, <1>7, <1>9, <1>11

\* The rows to inspect have ids of their own, so that one of them is next.
LEMMA OneEarliest ==
  ASSUME Types, NEW p \in Requests, SeesModels(p), NEW t, NEW u, Earliest(p, t), Earliest(p, u)
  PROVE  t = u
<1>1. t \in scan[p].todo /\ u \in scan[p].todo /\ t.id <= u.id /\ u.id <= t.id
  BY DEF Earliest
<1>2. t.id \in Nat /\ u.id \in Nat
  BY <1>1 DEF Types, Handlers, Scans, TodoRows, ModelIds
<1>3. t.id = u.id
  BY <1>1, <1>2
<1>4. QED
  BY <1>1, <1>3 DEF SeesModels

LEMMA ListFieldsCurrent ==
  ASSUME Types, Current, NEW p \in Requests, ListFields(p)
  PROVE  Sees(p)'
<1>1. scan'[p].rows = {Row(f) : f \in FieldSet} /\ scan'[p].kept = {}
      /\ req'[p].phase = "list_models"
  BY DEF ListFields, Types, Handlers, Orders, Scans, NoScan, To
<1>2. UNCHANGED fields /\ FieldSet' = FieldSet
  BY DEF ListFields, store, rows, FieldSet
<1>3. SeesFields(p)'
  <2>1. \A f \in FieldSet :
          /\ Row(f) \in scan'[p].rows /\ Row(f).id = f /\ Row(f).model = fields[f].model
          /\ Row(f).code = fields[f].code /\ Row(f).kind = fields[f].kind
    BY <1>1 DEF Row
  <2>2. \A r \in scan'[p].rows : \E f \in FieldSet : r = Row(f)
    BY <1>1
  <2>3. QED
    BY <1>2, <2>1, <2>2 DEF SeesFields
<1>4. QED
  BY <1>1, <1>3 DEF Sees

LEMMA ListModelsCurrent ==
  ASSUME Types, Current, NEW p \in Requests \ lapped, ListModels(p)
  PROVE  Sees(p)'
<1>0. p \in Requests /\ Sees(p) /\ req[p].phase = "list_models"
  BY DEF Current, ListModels
<1>1. /\ scan'[p].rows = scan[p].rows /\ scan'[p].kept = scan[p].kept
      /\ scan'[p].todo = {ModelRow(m) : m \in Present}
  BY DEF ListModels, Types, Handlers, Scans
<1>2. UNCHANGED <<models, fields>> /\ FieldSet' = FieldSet /\ Present' = Present
  BY DEF ListModels, store, rows, FieldSet, Present
<1>3. req'[p].phase = "inspect"
  BY DEF ListModels, Types, Handlers, Orders, To
<1>4. SeesFields(p)'
  BY <1>0, <1>1, <1>2 DEF Sees, SeesFields
<1>5. /\ \A t \in scan'[p].todo : t.id \in Present' /\ t.status = models'[t.id].status
      /\ \A t, u \in scan'[p].todo : t.id = u.id => t = u
  BY <1>1, <1>2 DEF ModelRow
<1>6. Inspected(p)' = {}
  <2>1. \A m \in Present : ModelRow(m) \in scan'[p].todo /\ ModelRow(m).id = m
    BY <1>1 DEF ModelRow
  <2>2. QED
    BY <1>2, <1>3, <2>1 DEF Inspected
<1>7. scan'[p].kept = {}
  BY <1>0, <1>1 DEF Sees
<1>8. SeesModels(p)'
  BY <1>5, <1>6, <1>7 DEF SeesModels
<1>9. QED
  BY <1>3, <1>4, <1>8 DEF Sees

LEMMA InspectCurrent ==
  ASSUME Types, Schema, Current, NEW p \in Requests \ lapped, InspectModel(p)
  PROVE  Sees(p)'
<1>0. p \in Requests /\ SeesFields(p) /\ SeesModels(p) /\ req[p].phase = "inspect"
  BY DEF Current, Sees, InspectModel
<1>1. PICK t \in scan[p].todo :
        /\ Earliest(p, t)
        /\ scan'[p].rows = scan[p].rows /\ scan'[p].kept = scan[p].kept \cup Keeps(p, t)
        /\ \/ /\ scan'[p].todo = scan[p].todo /\ req' = To(p, "record")
              /\ scan'[p].down = Lost(p, t) /\ scan'[p].up = Well(p, t)
              /\ scan'[p].news \subseteq {r.id : r \in Mine(p, t)}
           \/ scan'[p].todo = scan[p].todo \ {t} /\ req' = req
  BY InspectEffect
<1>2. UNCHANGED rows
  BY DEF InspectModel, store
<1>3. SameSchema
  BY <1>2, SameRows
<1>4. /\ Lost(p, t) = {f \in FieldsOf(t.id) : ~FieldUp(f)} /\ Well(p, t) = ModelUp(t.id)
      /\ Well(p, t) <=> Servable(t.id)
      /\ EntryOf(p, t) = Entry(t.id)
      /\ {r.id : r \in Mine(p, t)} \subseteq FieldsOf(t.id)
  BY <1>0, InspectionIsTrue
<1>5. \/ /\ scan'[p].todo = scan[p].todo /\ req'[p].phase = "record"
         /\ scan'[p].down = Lost(p, t) /\ scan'[p].up = Well(p, t)
         /\ scan'[p].news \subseteq FieldsOf(t.id)
      \/ scan'[p].todo = scan[p].todo \ {t} /\ req'[p].phase = "inspect"
  BY <1>0, <1>1, <1>4 DEF Types, Handlers, Orders, To
<1>6. SeesFields(p)'
  BY <1>0, <1>1, <1>2 DEF SeesFields, rows, FieldSet
<1>7. /\ \A u \in scan[p].todo : u.id \in Present /\ u.status = models[u.id].status
      /\ \A u, v \in scan[p].todo : u.id = v.id => u = v
      /\ scan[p].kept = {Entry(m) : m \in {n \in Inspected(p) : Servable(n)}}
  BY <1>0 DEF SeesModels
<1>8. /\ \A u \in scan'[p].todo : u.id \in Present' /\ u.status = models'[u.id].status
      /\ \A u, v \in scan'[p].todo : u.id = v.id => u = v
  BY <1>2, <1>5, <1>7 DEF rows, Present
<1>9. Inspected(p)' = Inspected(p) \cup {t.id}
  <2>1. Present' = Present /\ t.id \in Present
    BY <1>3, <1>7 DEF SameSchema
  <2>2. \A m : m \in Inspected(p) <=> m \in Present /\ \A u \in scan[p].todo : u.id # m
    BY <1>0 DEF Inspected
  <2>3. CASE scan'[p].todo = scan[p].todo /\ req'[p].phase = "record"
    <3>1. \A u \in scan[p].todo : Earliest(p, u)' <=> u = t
      <4>1. \A u : Earliest(p, u)' <=> Earliest(p, u)
        BY <2>3 DEF Earliest
      <4>2. QED
        BY <1>0, <1>1, <4>1, OneEarliest
    <3>2. \A m : m \in Inspected(p)' <=> m \in Present /\ \A u \in scan[p].todo : u.id = m => u = t
      BY <2>1, <2>3, <3>1 DEF Inspected
    <3>3. QED
      BY <1>7, <2>1, <2>2, <3>2
  <2>4. CASE scan'[p].todo = scan[p].todo \ {t} /\ req'[p].phase = "inspect"
    <3>1. \A m : m \in Inspected(p)' <=> m \in Present /\ \A u \in scan[p].todo \ {t} : u.id # m
      BY <2>1, <2>4 DEF Inspected
    <3>2. QED
      BY <1>7, <2>1, <2>2, <3>1
  <2>5. QED
    BY <1>5, <2>3, <2>4
<1>10. scan'[p].kept = {Entry(m) : m \in {n \in Inspected(p) \cup {t.id} : Servable(n)}}
  BY <1>1, <1>4, <1>7 DEF Keeps
<1>11. {Entry(m) : m \in {n \in Inspected(p) \cup {t.id} : Servable(n)}}'
         = {Entry(m) : m \in {n \in Inspected(p) : Servable(n)}}'
  BY <1>9
<1>12. SeesModels(p)'
  <2>1. \A m \in Present : (Entry(m)' = Entry(m)) /\ (Servable(m)' <=> Servable(m))
    BY <1>3, SameMeans
  <2>2. Inspected(p) \cup {t.id} \subseteq Present
    BY <1>7 DEF Inspected
  <2>3. scan'[p].kept = {Entry(m) : m \in {n \in Inspected(p) : Servable(n)}}'
    BY <1>9, <1>10, <2>1, <2>2
  <2>4. QED
    BY <1>8, <2>3 DEF SeesModels
<1>13. req'[p].phase = "record" => Judges(p)'
  <2>0. scan'[p].todo = scan[p].todo => (\E u \in scan[p].todo : Earliest(p, u))'
    BY <1>1 DEF Earliest
  <2>1. SUFFICES ASSUME scan'[p].todo = scan[p].todo, NEW u \in scan'[p].todo, Earliest(p, u)',
                        scan'[p].down = Lost(p, t), scan'[p].up = Well(p, t),
                        scan'[p].news \subseteq FieldsOf(t.id)
                 PROVE  /\ scan'[p].up = ModelUp(u.id)'
                        /\ scan'[p].down = {f \in FieldsOf(u.id) : ~FieldUp(f)}'
                        /\ scan'[p].news \subseteq FieldsOf(u.id)'
    BY <1>5, <2>0 DEF Judges
  <2>2. Earliest(p, u)
    BY <2>1 DEF Earliest
  <2>3. u = t
    BY <1>0, <1>1, <2>2, OneEarliest
  <2>4. /\ \A m : ModelUp(m)' <=> ModelUp(m)
        /\ \A m : FieldsOf(m)' = FieldsOf(m)
        /\ \A f \in FieldSet : FieldUp(f)' <=> FieldUp(f)
    BY <1>3, SameMeans
  <2>5. {f \in FieldsOf(u.id) : ~FieldUp(f)}' = {f \in FieldsOf(u.id) : ~FieldUp(f)}
    BY <2>4 DEF FieldsOf
  <2>6. ModelUp(u.id)' = ModelUp(u.id)
    BY <2>4 DEF ModelUp
  <2>7. QED
    BY <1>4, <2>1, <2>3, <2>4, <2>5, <2>6
<1>14. QED
  BY <1>5, <1>6, <1>12, <1>13 DEF Sees


LEMMA RecordFieldCurrent ==
  ASSUME Types, Current, NEW p \in Requests \ lapped, RecordField(p)
  PROVE  Sees(p)'
<1>1. Sees(p) /\ p \in Requests /\ scan[p] \in Scans
  BY DEF Current, Types, Handlers
<1>2. PICK f \in scan[p].news :
        SameSchema /\ req' = req /\ scan' = [scan EXCEPT ![p].news = @ \ {f}]
  BY <1>1, RecordFieldEffect
<1>3. /\ scan'[p].rows = scan[p].rows /\ scan'[p].todo = scan[p].todo
      /\ scan'[p].kept = scan[p].kept /\ scan'[p].down = scan[p].down
      /\ scan'[p].up = scan[p].up /\ scan'[p].news \subseteq scan[p].news
  BY <1>1, <1>2 DEF Types, Handlers, Scans
<1>4. QED
  BY <1>1, <1>2, <1>3, StillSees

LEMMA RecordModelCurrent ==
  ASSUME Types, Current, NEW p \in Requests \ lapped, RecordModel(p)
  PROVE  Sees(p)'
<1>0. p \in Requests /\ SeesFields(p) /\ SeesModels(p) /\ req[p].phase = "record"
  BY DEF Current, Sees, RecordModel
<1>1. PICK t \in scan[p].todo :
        /\ Earliest(p, t) /\ SameSchema /\ req' = To(p, "inspect")
        /\ scan' = [scan EXCEPT ![p].todo = @ \ {t}, ![p].down = {}, ![p].up = TRUE]
  BY RecordModelEffect
<1>2. /\ req'[p].phase = "inspect" /\ scan'[p].rows = scan[p].rows /\ scan'[p].kept = scan[p].kept
      /\ scan'[p].todo = scan[p].todo \ {t}
  BY <1>1 DEF Types, Handlers, Orders, Scans, To
<1>3. /\ Present' = Present /\ FieldSet' = FieldSet /\ \A f \in FieldSet : SameField(f)
      /\ \A m \in Present : models'[m].status = models[m].status
      /\ \A m : Servable(m)' <=> Servable(m)
      /\ \A m \in Present : Entry(m)' = Entry(m)
  BY <1>1, SameMeans DEF SameSchema, SameField
<1>4. SeesFields(p)'
  BY <1>0, <1>2, <1>3 DEF SeesFields, SameField
<1>5. /\ \A u \in scan[p].todo : u.id \in Present /\ u.status = models[u.id].status
      /\ \A u, v \in scan[p].todo : u.id = v.id => u = v
      /\ scan[p].kept = {Entry(m) : m \in {n \in Inspected(p) : Servable(n)}}
  BY <1>0 DEF SeesModels
<1>6. Inspected(p)' = Inspected(p)
  <2>1. \A u \in scan[p].todo : Earliest(p, u) <=> u = t
    BY <1>0, <1>1, OneEarliest
  <2>2. \A m : m \in Inspected(p) <=> m \in Present /\ \A u \in scan[p].todo : u.id = m => u = t
    BY <1>0, <2>1 DEF Inspected
  <2>3. \A m : m \in Inspected(p)' <=> m \in Present /\ \A u \in scan[p].todo \ {t} : u.id # m
    BY <1>2, <1>3 DEF Inspected
  <2>4. QED
    BY <2>2, <2>3
<1>7. SeesModels(p)'
  <2>1. Inspected(p) \subseteq Present
    BY DEF Inspected
  <2>2. scan'[p].kept = {Entry(m) : m \in {n \in Inspected(p) : Servable(n)}}'
    BY <1>2, <1>3, <1>5, <1>6, <2>1
  <2>3. QED
    BY <1>2, <1>3, <1>5, <2>2 DEF SeesModels
<1>8. QED
  BY <1>2, <1>4, <1>7 DEF Sees

LEMMA PublishCurrent ==
  ASSUME Types, Current, NEW p \in Requests, Publish(p)
  PROVE  Current'
<1>1. /\ req[p].phase = "inspect" /\ scan[p].todo = {} /\ registry' = scan[p].kept
      /\ fresh' = (p \notin lapped) /\ lapped' = lapped \ {p} /\ UNCHANGED rows
      /\ req' = Done(p) /\ scan' = [scan EXCEPT ![p] = NoScan]
  BY DEF Publish, Published, Leave, store
<1>2. SameSchema
  BY <1>1, SameRows
<1>3. Served'
  <2>1. SUFFICES ASSUME p \notin lapped
                 PROVE  registry' = ServableEntries'
    BY <1>1 DEF Served
  <2>2. scan[p].kept = {Entry(m) : m \in {n \in Inspected(p) : Servable(n)}}
    BY <1>1, <2>1 DEF Current, Sees, SeesModels
  <2>3. Inspected(p) = Present
    BY <1>1 DEF Inspected
  <2>4. QED
    BY <1>1, <1>2, <2>2, <2>3, SameEntries DEF ServableEntries
<1>4. /\ req'[p].phase = "idle"
      /\ \A q \in Requests \ {p} : req'[q] = req[q] /\ scan'[q] = scan[q]
  BY <1>1 DEF Done, Idle, Types, Handlers
<1>5. ASSUME NEW q \in Requests \ lapped'
      PROVE  Sees(q)'
  <2>1. CASE q = p
    BY <1>4, <2>1 DEF Sees
  <2>2. CASE q # p
    <3>1. Sees(q)
      BY <1>1, <1>5, <2>2 DEF Current
    <3>2. QED
      BY <1>2, <1>4, <2>2, <3>1, StillSees
  <2>3. QED
    BY <2>1, <2>2
<1>6. QED
  BY <1>3, <1>5 DEF Current

LEMMA QueryCurrent ==
  ASSUME Types, Current, NEW p \in Requests, QueryRecords(p), p \notin lapped'
  PROVE  Sees(p)'
<1>1. req[p].phase = "query"
  BY DEF QueryRecords
<1>2. CASE ObjectMissing(p)
  <2>1. p \notin lapped /\ req' = To(p, "mark")
    BY <1>2 DEF QueryRecords
  <2>2. Finds(p)
    BY <1>1, <2>1 DEF Current, Sees
  <2>3. req[p].kind = "one_to_many"
    BY <1>2, <2>2 DEF Finds, ObjectMissing
  <2>4. req'[p].phase = "mark" /\ req'[p].kind = "one_to_many"
    BY <2>1, <2>3 DEF To, Types, Handlers, Orders
  <2>5. QED
    BY <2>4 DEF Sees
<1>3. CASE ~ObjectMissing(p)
  <2>1. req'[p].phase = "idle"
    BY <1>3 DEF QueryRecords, Leave, Done, Idle, Types, Handlers
  <2>2. QED
    BY <2>1 DEF Sees
<1>4. QED
  BY <1>2, <1>3

LEMMA StepCurrent ==
  ASSUME Types, Schema, Current, NEW p \in Requests, Step(p) \/ Cut(p)
  PROVE  Current'
<1>1. PICK r : Takes(p, r) /\ Continues(p, r)
  BY Stepped DEF Continues
<1>2. req'[p] = r /\ \A q \in Requests \ {p} : req'[q] = req[q]
  BY <1>1, TakesOthers DEF Types
<1>3. \A q \in Requests \ {p} : scan'[q] = scan[q]
  BY ScansKept
<1>4. CASE Overtake(p) /\ Changes(p)
  BY <1>4, OvertakenCurrent
<1>5. CASE Changes(p) /\ ~Overtake(p)
  <2>1. /\ FieldAfterFailure(p) \/ UpdateStatus(p)
        /\ UNCHANGED <<rows, registry, lapped, fresh>> /\ req' = Done(p)
    BY <1>5 DEF Changes, CreateModel, CreateModelFails, AddField, FieldAfterFailure,
       DeleteField, DeleteModel, UpdateStatus, rows
  <2>2. req'[p].phase = "idle"
    BY <2>1 DEF Done, Idle, Types, Handlers
  <2>3. QED
    BY <1>2, <1>3, <2>1, <2>2, SameRows, CalmCurrent DEF Sees
<1>6. CASE Publish(p)
  BY <1>6, PublishCurrent
<1>7. CASE ~Changes(p) /\ ~Publish(p)
  <2>1. SameSchema
    BY <1>7, Calm
  <2>2. fresh' = fresh /\ registry' = registry /\ lapped \subseteq lapped' \cup {p}
        /\ (Rebuilds(p) => lapped' = lapped)
    BY <1>7 DEF Changes, Step, Cut, GrantModel, LockModel, AddFieldFails, DeletionFails,
       ListFields, ListModels, InspectModel, RecordField, RecordModel, QueryRecords, MarkUnavailable,
       Leave, Rebuilds
  <2>3. ASSUME p \notin lapped'
        PROVE  Sees(p)'
    <3>1. CASE Rebuilds(p)
      BY <2>2, <2>3, <3>1, ListFieldsCurrent, ListModelsCurrent, InspectCurrent,
         RecordFieldCurrent, RecordModelCurrent
         DEF Rebuilds
    <3>2. CASE QueryRecords(p)
      BY <2>3, <3>2, QueryCurrent
    <3>3. CASE ~Rebuilds(p) /\ ~QueryRecords(p)
      <4>1. req'[p].phase \in {"idle", "list_fields", "commit", "broken"}
        <5>1. req' = Done(p) \/ req' = Rebuild(p) \/ req' = To(p, "commit") \/ req' = To(p, "broken")
          BY <1>7, <3>3 DEF Rebuilds, Changes, Step, Cut, GrantModel, LockModel, AddFieldFails,
             DeletionFails, MarkUnavailable, Leave
        <5>2. QED
          BY <5>1 DEF Done, Rebuild, To, Idle, Types, Handlers, Orders
      <4>2. QED
        BY <4>1 DEF Sees
    <3>4. QED
      BY <3>1, <3>2, <3>3
  <2>4. QED
    BY <1>2, <1>3, <2>1, <2>2, <2>3, CalmCurrent
<1>8. QED
  BY <1>4, <1>5, <1>6, <1>7

LEMMA RestartCurrent ==
  ASSUME Types, Schema, Restart
  PROVE  Current'
<1>1. SameSchema
  BY RestartEffect
<1>2. registry' = {Entry(m) : m \in {n \in Present : ModelUp(n)}}
      /\ \A p \in Requests : req'[p] = Idle
  BY DEF Restart
<1>3. registry' = ServableEntries
  BY <1>2, UpMeansServable DEF ServableEntries, Types
<1>4. Served'
  BY <1>1, <1>3, SameEntries DEF Served
<1>5. \A p \in Requests : Sees(p)'
  BY <1>2 DEF Sees, Idle
<1>6. QED
  BY <1>4, <1>5 DEF Current

-----------------------------------------------------------------------------
\* The invariant

LEMMA InitRows ==
  ASSUME Init
  PROVE  /\ Present = 1..OldModels /\ FieldSet = {} /\ Tables /\ 1..OldModels \subseteq ModelIds
         /\ \A m \in Present : models[m] = [status |-> "published", avail |-> "available"]
<1>1. OldModels \in Nat /\ MaxModels \in Nat /\ OldModels <= MaxModels
  OBVIOUS
<1>2. 1..OldModels \subseteq ModelIds /\ \A m \in ModelIds : m <= OldModels <=> m \in 1..OldModels
  BY <1>1 DEF ModelIds
<1> DEFINE row == [status |-> "published", avail |-> "available"]
<1>3. row \in ModelRows
  BY DEF ModelRows, Availability
<1>4. models = [m \in ModelIds |-> IF m <= OldModels THEN row ELSE None]
  BY DEF Init
<1> HIDE DEF row
<1>5. row # None
  BY <1>3
<1>6. Present = 1..OldModels /\ \A m \in Present : models[m] = row
  BY <1>2, <1>4, <1>5 DEF Present
<1>7. fields = [f \in FieldIds |-> None] /\ FieldSet = {}
  BY DEF Init, FieldSet
<1>8. models \in [ModelIds -> ModelRows \cup {None}]
  BY <1>3, <1>4
<1>9. tables = 1..OldModels /\ columns = {} /\ joins = {}
  BY DEF Init
<1>10. Tables
  BY <1>2, <1>7, <1>8, <1>9 DEF Tables
<1>11. QED
  BY <1>2, <1>6, <1>7, <1>10 DEF row

LEMMA InitInv ==
  ASSUME Init
  PROVE  Inv
<1>1. /\ Present = 1..OldModels /\ FieldSet = {} /\ Tables /\ 1..OldModels \subseteq ModelIds
      /\ \A m : FieldsOf(m) = {}
  BY InitRows DEF FieldsOf
<1>2. /\ minted = [model |-> OldModels, field |-> 0, order |-> 0]
      /\ tables = 1..OldModels /\ columns = {} /\ joins = {} /\ grants = 1..OldModels
      /\ registry = {Entry(m) : m \in Present}
      /\ built = {"model"} \X (1..OldModels) /\ lapped = {} /\ fresh = TRUE /\ faults = 0
      /\ \A p \in Requests : req[p] = Idle /\ scan[p] = NoScan
      /\ req = [p \in Requests |-> Idle] /\ scan = [p \in Requests |-> NoScan]
  BY DEF Init
<1>3. Counters
  BY <1>2 DEF Counters
<1>4. \A m \in Present : Entry(m) \in Entries /\ Entry(m).model = m
  BY <1>1, EntryTyped
<1>5. Handlers
  BY <1>2, <1>4, IdlePrepared DEF Handlers
<1>6. Idle.phase = "idle" /\ Idle.op = "none" /\ Idle.field = None /\ NoScan.kept = {}
      /\ NoScan.todo = {}
  BY DEF Idle, NoScan
<1>7. Issued
  <2>1. minted.model = OldModels /\ minted.field = 0
    BY <1>2
  <2>2. /\ Present \subseteq 1..minted.model /\ FieldSet \subseteq 1..minted.field
        /\ tables \subseteq 1..minted.model
        /\ built \subseteq ({"model"} \X (1..minted.model)) \cup ({"field"} \X (1..minted.field))
    BY <1>1, <1>2, <2>1
  <2>3. \A e \in registry : e.model \in 1..minted.model
    BY <1>1, <1>2, <1>4, <2>1
  <2>4. QED
    BY <1>2, <1>6, <2>2, <2>3 DEF Issued
<1>8. Ownership
  BY <1>2, <1>6 DEF Ownership, FreshModels, FreshFields, Held, Condemned, Adding
<1>9. Schema
  BY <1>1, <1>2 DEF Schema, NoOrphans, BuiltRowsHaveObjects, RelationsResolve, UniqueCodes,
                    Built
<1>10. GrantedUnlessCut
  BY <1>1, <1>2 DEF GrantedUnlessCut
<1>11. Current
  <2>1. \A m \in Present : Servable(m)
    BY <1>1, <1>2 DEF Servable, Built
  <2>2. registry = ServableEntries
    BY <1>2, <2>1 DEF ServableEntries
  <2>3. \A p \in Requests : Sees(p)
    BY <1>2, <1>6 DEF Sees
  <2>4. QED
    BY <2>2, <2>3 DEF Current, Served
<1>12. QED
  BY <1>1, <1>3, <1>5, <1>7, <1>8, <1>9, <1>10, <1>11 DEF Inv, Types

LEMMA Kept ==
  ASSUME Inv, [Next]_vars
  PROVE  Inv'
<1>0. Types /\ Ownership /\ Schema /\ GrantedUnlessCut /\ Current /\ Held
  BY DEF Inv, Ownership
<1>1. ASSUME NEW p \in Requests, Start(p) \/ LoadMetadata(p) \/ Step(p) \/ Cut(p)
      PROVE  Inv'
  <2>1. Types' /\ Ownership' /\ Schema' /\ GrantedUnlessCut'
    BY <1>0, <1>1, TypesKept, OwnershipKept, SchemaKept, GrantsKept
  <2>2. Current'
    BY <1>0, <1>1, BeginsCurrent, StepCurrent
  <2>3. QED
    BY <2>1, <2>2 DEF Inv
<1>2. CASE Restart
  BY <1>0, <1>2, RestartTypes, RestartOwnership, RestartSchema, RestartCurrent DEF Inv
<1>3. CASE UNCHANGED vars
  <2>1. UNCHANGED <<models, fields, minted, tables, columns, joins, grants, registry,
                    req, scan, built, ungranted, lapped, fresh, faults>>
    BY <1>3 DEF vars
  <2>2. Types'
    BY <1>0, <2>1 DEF Types, Tables, Counters, Handlers, Issued, Present, FieldSet
  <2>3. Ownership'
    BY <1>0, <2>1 DEF Ownership, FreshModels, FreshFields, Held, Condemned, Present, FieldSet, Adding
  <2>4. SameSchema
    BY <2>1, SameRows DEF rows
  <2>5. Schema'
    BY <1>0, <2>4, CalmSchema DEF Types
  <2>6. GrantedUnlessCut'
    BY <1>0, <2>1 DEF GrantedUnlessCut, Present
  <2>7. Current'
    <3>1. Served'
      BY <1>0, <2>1, <2>4, SameEntries DEF Current, Served
    <3>2. \A q \in Requests : Sees(q) => Sees(q)'
      BY <2>1, <2>4, StillSees
    <3>3. QED
      BY <1>0, <2>1, <3>1, <3>2 DEF Current
  <2>8. QED
    BY <2>2, <2>3, <2>5, <2>6, <2>7 DEF Inv
<1>4. QED
  BY <1>1, <1>2, <1>3 DEF Next

\* The invariant holds of every behaviour of the registry, whatever commits,
\* fails, deadlocks, hangs up or restarts in whatever order.
THEOREM Invariant == Spec => []Inv
<1>1. Init => Inv
  BY InitInv
<1>2. Inv /\ [Next]_vars => Inv'
  BY Kept
<1>3. QED
  BY <1>1, <1>2, PTL DEF Spec

\* Rows, physical objects, requests and registry keep their shapes, and no id
\* is in use before it was issued.
THEOREM TypeCorrect == Spec => []TypeOK
<1>1. Inv => TypeOK
  <2>1. SUFFICES ASSUME Inv
                 PROVE  TypeOK
    OBVIOUS
  <2>2. Tables /\ Counters /\ Handlers /\ Issued
    BY <2>1 DEF Inv, Types
  <2>3. \A p \in Requests : req[p].phase \in Phases
    BY <2>2 DEF Handlers, Orders
  <2>4. \A e \in registry : e.status \in Statuses
    BY <2>2 DEF Handlers, Entries
  <2>5. QED
    BY <2>2, <2>3, <2>4 DEF TypeOK, Tables, Counters, Issued
<1>2. QED
  BY <1>1, Invariant, PTL

\* Metadata and physical schema agree: no orphaned table, column or join
\* table, no committed row without its objects, no dangling relation, no
\* model left without its grant unless its creation was cut short
\* (model_definition_repository/mod.rs, physical_schema_repository.rs).
THEOREM SchemaAgrees == Spec => []MetadataMatchesSchema
<1>1. Inv => MetadataMatchesSchema
  BY DEF Inv, Schema, MetadataMatchesSchema
<1>2. QED
  BY <1>1, Invariant, PTL

\* A registry whose rebuild no change overtook serves exactly the models that
\* should be served, with their statuses and fields (runtime_registry_sync.rs).
THEOREM RegistryCurrent == Spec => []RegistryCurrentUnlessOvertaken
<1>1. Inv => RegistryCurrentUnlessOvertaken
  BY DEF Inv, Current, Served, ServableEntries, RegistryCurrentUnlessOvertaken
<1>2. QED
  BY <1>1, Invariant, PTL

\* The many-to-many kind alone keeps built models from being served: without
\* it, a registry that is up to date holds every model that was built with all
\* of its fields (RequiresColumn against CreatesColumn).
THEOREM ServedWithoutManyToMany ==
  ASSUME "many_to_many" \notin Kinds
  PROVE  Spec => []BuiltModelsAreServed
<1>1. TypeOK /\ RegistryCurrentUnlessOvertaken => BuiltModelsAreServed
  <2>. SUFFICES ASSUME TypeOK, RegistryCurrentUnlessOvertaken, fresh, NEW m \in Present,
                       Built(m), \A f \in FieldsOf(m) : BuiltField(f)
                PROVE  \E e \in registry : e.model = m
    BY DEF BuiltModelsAreServed
  <2>1. \A f \in FieldsOf(m) : fields[f].kind \in Kinds
    BY DEF TypeOK, FieldsOf, FieldSet, FieldIds, FieldRows
  <2>2. Servable(m)
    BY <2>1 DEF Servable
  <2>3. Entry(m) \in registry
    BY <2>2 DEF RegistryCurrentUnlessOvertaken
  <2>. QED
    BY <2>3 DEF Entry
<1>. QED
  BY <1>1, TypeCorrect, RegistryCurrent, PTL

\* A record operation finds its table or column missing only if a change
\* overtook it or the registry it read, or if it asked for the records in the
\* order of a one_to_many field, which has no column (map_runtime_storage_error).
THEOREM RecordsReach == Spec => []RecordsReachTheirTables
<1>1. Inv => RecordsReachTheirTables
  BY DEF Inv, Current, Sees, RecordsReachTheirTables
<1>2. QED
  BY <1>1, Invariant, PTL

LEMMA TrueVerdicts ==
  ASSUME Inv, NEW p \in Requests \ lapped, RecordField(p) \/ RecordModel(p)
  PROVE  /\ \A m \in Present : models'[m].avail # models[m].avail =>
              models'[m].avail = Health(ModelUp(m))
         /\ \A f \in FieldSet : fields'[f].avail # fields[f].avail =>
              fields'[f].avail = Health(FieldUp(f))
<1>0. p \in Requests /\ Types /\ SeesModels(p) /\ Judges(p)
  BY DEF Inv, Current, Sees, RecordField, RecordModel
<1>1. CASE RecordField(p)
  <2>1. PICK f \in scan[p].news :
          /\ f \in FieldSet => fields'[f].avail = Health(f \notin scan[p].down)
          /\ \A g \in FieldSet \ {f} : fields'[g] = fields[g]
    BY <1>0, <1>1, RecordFieldEffect
  <2>2. models' = models
    BY <1>0, <1>1, RecordFieldEffect
  <2>3. PICK t \in scan[p].todo : Earliest(p, t)
    BY <1>0 DEF Judges
  <2>4. scan[p].down = {g \in FieldsOf(t.id) : ~FieldUp(g)} /\ f \in FieldsOf(t.id)
    BY <1>0, <2>3 DEF Judges
  <2>5. f \notin scan[p].down <=> FieldUp(f)
    BY <2>4
  <2>6. QED
    BY <2>1, <2>2, <2>5 DEF Health
<1>2. CASE RecordModel(p)
  <2>1. fields' = fields
    BY <1>0, <1>2, RecordModelEffect
  <2>2. PICK t \in scan[p].todo :
          /\ Earliest(p, t)
          /\ \/ models' = models
             \/ /\ t.id \in Present => models'[t.id].avail = Health(scan[p].up)
                /\ \A m \in Present \ {t.id} : models'[m] = models[m]
    BY <1>0, <1>2, RecordModelEffect
  <2>3. scan[p].up = ModelUp(t.id)
    BY <1>0, <2>2 DEF Judges
  <2>4. QED
    BY <2>1, <2>2, <2>3
<1>3. QED
  BY <1>1, <1>2

\* A rebuild that no change overtook writes only true verdicts on the models
\* and fields it marks (refresh_runtime_model_health).
THEOREM VerdictsTrue == Spec => VerdictsAreTrue
<1>1. Inv /\ [Next]_vars =>
        [\A p \in Requests \ lapped : RecordField(p) \/ RecordModel(p) =>
           /\ \A m \in Present : models'[m].avail # models[m].avail =>
                models'[m].avail = Health(ModelUp(m))
           /\ \A f \in FieldSet : fields'[f].avail # fields[f].avail =>
                fields'[f].avail = Health(FieldUp(f))]_vars
  BY TrueVerdicts
<1>2. QED
  BY <1>1, Invariant, PTL DEF Spec, VerdictsAreTrue
=============================================================================
