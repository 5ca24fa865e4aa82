------------------------ MODULE PluginLifecycleProofs ------------------------
(***************************************************************************)
(* That overlapping, failing and dropped requests leave no dangling        *)
(* reference, no second row of a version and no forgotten task, that an    *)
(* availability nobody overlapped is the one its row derives, that startup *)
(* leaves true rows behind, that a task's success says what was done, and  *)
(* that the tasks are a TaskBoard: for any requests, versions, workspaces  *)
(* and instances.                                                          *)
(***************************************************************************)
EXTENDS PluginLifecycle, TLAPS

USE PluginAssumption, RowAssumption

TaskOps == {"install", "enable", "assign", "switch", "delete"}
TaskPcs == {"queued", "archive", "clear", "make", "copy", "fingerprint", "record", "request",
            "load", "active", "load_failed", "migrate", "point", "list", "instances", "rows", "files",
            "removing", "finish", "failing", "next"}
QuietPcs == {"observe", "settle", "insert"}
Pcs == TaskPcs \cup QuietPcs \cup {"idle"}
Ops == TaskOps \cup {"none", "reconcile", "instance"}

\* What a deletion has still to remove
PathSets == SUBSET (Versions \X {"directory", "archive"})

\* What a handler is made of
Handler ==
  [op : Ops, pc : Pcs,
   then : Seq({"enable", "assign", "switch"}), task : Nat, id : Ids \cup {None},
   version : Versions \cup {None}, content : Contents \cup {None}, archived : BOOLEAN,
   ws : Workspaces \cup {None}, inst : Instances \cup {None}, seen : Row \cup {None},
   status : Artifacts, print : Contents \cup {None}, left : SUBSET Files, ids : SUBSET Ids,
   victims : SUBSET Instances, paths : PathSets, clean : BOOLEAN]

\* What it has at hand where it is
Prepared(r, last) ==
  /\ r.pc \in TaskPcs => r.op \in TaskOps /\ r.task \in 1 .. last
  /\ r.pc \notin TaskPcs => r.task = 0
  /\ r.pc = "idle" => r.op = "none"
  /\ r.pc \in {"archive", "clear", "make", "copy", "fingerprint", "record"} => r.op = "install"
  /\ r.pc \in {"request", "load", "active", "load_failed"} => r.op = "enable"
  /\ r.pc = "migrate" => r.op = "switch"
  /\ r.pc = "point" => r.op \in {"assign", "switch"}
  /\ r.pc \in {"list", "instances", "rows", "files", "removing"} => r.op = "delete"
  /\ r.op = "install" => r.version \in Versions /\ r.content \in Contents
  /\ r.op = "enable" \/ r.pc \in {"observe", "settle"} => r.seen \in Row /\ r.id \in Ids
  /\ r.pc \in {"record", "settle"} => r.print \in Contents
  /\ r.op \in {"assign", "switch"} \/ r.then # <<>> => r.ws \in Workspaces
  /\ r.pc = "next" => r.then # <<>>

Tables ==
  /\ rows \in [Ids -> Row \cup {None}]
  /\ issued \in 0 .. MaxIds /\ Installed \subseteq 1 .. issued
  /\ dir \in [Versions -> [Files -> Contents \cup {None}] \cup {None}]
  /\ pkg \in [Versions -> Contents \cup {None}] /\ torn \subseteq Versions
  /\ pointer \in [Workspaces -> Ids \cup {None}]
  /\ home \in [Instances -> Ids \cup {None}]
  /\ mixed \subseteq Ids /\ faults \in 0 .. MaxFaults

Tasks ==
  /\ tasks \in Seq({"queued", "running", "succeeded", "failed"})
  /\ Len(tasks) <= MaxTasks
  /\ lost \subseteq 1 .. Len(tasks)

Booting ==
  /\ phase \in {"boot", "hosts", "request", "validate", "fresh", "serving"}
  /\ todo \subseteq Installed /\ host \in Ids \cup {None}
  /\ phase \in {"request", "validate"} => host \in Installed
  /\ phase \in {"fresh", "serving"} => todo = {}
  /\ phase # "serving" => \A p \in Requests : req[p] = Idle

Handlers == req \in [Requests -> Handler] /\ \A p \in Requests : Prepared(req[p], Len(tasks))

Types == Tables /\ Tasks /\ Handlers /\ Booting

\* What a handler that nobody overlapped has read is still so.
StillSo(r, rs) ==
  /\ r.clean
  /\ \/ r.op = "enable" /\ r.pc \in {"queued", "request", "load", "active", "load_failed"}
     \/ r.pc \in {"observe", "settle"}
  => rs[r.id] = r.seen

\* Between two operations there is no task to end.
Ended(r, ts) == r.pc = "next" => ts[r.task] \in {"succeeded", "failed"}

Knowing == \A p \in Requests : StillSo(req[p], rows) /\ Ended(req[p], tasks)

\* What startup has looked at
Looked(r) ==
  /\ r.availability = Derived(r)
  /\ r.artifact = "ready" => /\ Readable(r.version) /\ dir[r.version][Manifest] = r.manifest
                             /\ r.archive \in {None, pkg[r.version]}
  /\ r.artifact = "missing" => dir[r.version] = None

StartupLooks ==
  /\ phase # "serving" => \A id \in Installed : (phase = "boot" => id \notin todo) => Looked(rows[id])
  /\ phase \in {"hosts", "request", "validate", "fresh"} =>
       \A id \in Installed :
         rows[id].version \in HostVersions /\ rows[id].artifact = "ready" =>
           \/ rows[id].desired # "pending_restart" \/ id \in todo
           \/ phase = "request" /\ id = host

-----------------------------------------------------------------------------
\* The same handler, perhaps overlapped since
Alike(a, b) ==
  /\ b.op = a.op /\ b.pc = a.pc /\ b.then = a.then /\ b.task = a.task /\ b.id = a.id
  /\ b.version = a.version /\ b.content = a.content /\ b.seen = a.seen /\ b.print = a.print
  /\ b.ws = a.ws /\ b.left = a.left /\ b.paths = a.paths
  /\ b.clean => a.clean

LEMMA IdleTyped ==
  Idle \in Handler /\ \A rs, ts, n : Prepared(Idle, n) /\ StillSo(Idle, rs) /\ Ended(Idle, ts)
<1>1. <<>> \in Seq({"enable", "assign", "switch"}) /\ {} \in PathSets
  BY DEF PathSets
<1>2. Idle \in Handler
  BY <1>1 DEF Idle, Handler, Artifacts, Ops, Pcs
<1>3. QED
  BY <1>2 DEF Idle, Prepared, StillSo, Ended, TaskPcs, QuietPcs

\* What setting the fields of a handler does
LEMMA Touched ==
  ASSUME NEW a \in Handler
  PROVE  /\ [a EXCEPT !.clean = FALSE] \in Handler
         /\ ~[a EXCEPT !.clean = FALSE].clean
         /\ Alike(a, [a EXCEPT !.clean = FALSE])
<1>1. [a EXCEPT !.clean = FALSE] \in Handler
  BY ZenonT(40) DEF Handler
<1>2. ~[a EXCEPT !.clean = FALSE].clean
  BY DEF Handler
<1>3. Alike(a, [a EXCEPT !.clean = FALSE])
  BY DEF Handler, Alike
<1>4. QED
  BY <1>1, <1>2, <1>3

\* All that matters but where it is
Kept(a, b) ==
  /\ b.op = a.op /\ b.then = a.then /\ b.task = a.task /\ b.id = a.id
  /\ a.op # "delete" => b.version = a.version
  /\ b.content = a.content /\ b.clean = a.clean /\ b.ws = a.ws

LEMMA Moved ==
  ASSUME NEW a \in Handler, NEW x \in Pcs
  PROVE  LET b == [a EXCEPT !.pc = x]
         IN  b \in Handler /\ b.pc = x /\ Kept(a, b) /\ b.seen = a.seen /\ b.print = a.print
<1>1. [a EXCEPT !.pc = x] \in Handler
  BY ZenonT(40) DEF Handler
<1>2. QED
  BY <1>1 DEF Handler, Kept

LEMMA Printed ==
  ASSUME NEW a \in Handler, NEW x \in Pcs, NEW c \in Contents
  PROVE  LET b == [a EXCEPT !.pc = x, !.print = c]
         IN  b \in Handler /\ b.pc = x /\ Kept(a, b) /\ b.seen = a.seen /\ b.print = c
<1>1. [a EXCEPT !.pc = x, !.print = c] \in Handler
  BY ZenonT(40) DEF Handler
<1>2. QED
  BY <1>1 DEF Handler, Kept

LEMMA Identified ==
  ASSUME NEW a \in Handler, NEW x \in Pcs, NEW i \in Ids
  PROVE  LET b == [a EXCEPT !.pc = x, !.id = i]
         IN  /\ b \in Handler /\ b.pc = x /\ b.op = a.op /\ b.then = a.then /\ b.task = a.task
             /\ b.version = a.version /\ b.content = a.content /\ b.id = i /\ b.ws = a.ws
<1>1. [a EXCEPT !.pc = x, !.id = i] \in Handler
  BY ZenonT(40) DEF Handler
<1>2. QED
  BY <1>1 DEF Handler

LEMMA Sighted ==
  ASSUME NEW a \in Handler, NEW x \in Pcs, NEW s \in Row
  PROVE  LET b == [a EXCEPT !.pc = x, !.seen = s]
         IN  b \in Handler /\ b.pc = x /\ Kept(a, b) /\ b.seen = s
<1>1. [a EXCEPT !.pc = x, !.seen = s] \in Handler
  BY ZenonT(40) DEF Handler
<1>2. QED
  BY <1>1 DEF Handler, Kept

LEMMA Compared ==
  ASSUME NEW a \in Handler, NEW x \in Pcs, NEW s \in Artifacts, NEW c \in Contents
  PROVE  LET b == [a EXCEPT !.pc = x, !.status = s, !.print = c]
         IN  /\ b \in Handler /\ b.pc = x /\ Kept(a, b) /\ b.seen = a.seen /\ b.print = c
             /\ b.status = s
<1>1. [a EXCEPT !.pc = x, !.status = s, !.print = c] \in Handler
  BY ZenonT(40) DEF Handler
<1>2. QED
  BY <1>1 DEF Handler, Kept

DeletePcs == {"instances", "rows", "files", "removing", "finish"}

LEMMA DeletingMoves ==
  ASSUME NEW a \in Handler
  PROVE  /\ Deleting(a) \in Handler /\ Deleting(a).pc \in DeletePcs /\ Kept(a, Deleting(a))
<1>1. PICK x \in DeletePcs : Deleting(a) = [a EXCEPT !.pc = x]
  BY DEF Deleting, DeletePcs
<1>2. x \in Pcs
  BY DEF DeletePcs, Pcs, TaskPcs
<1>3. QED
  BY <1>1, <1>2, Moved

\* What delete_family has still to delete
LEMMA VictimsSet ==
  ASSUME NEW a \in Handler, NEW vs \in SUBSET Instances
  PROVE  [a EXCEPT !.victims = vs] \in Handler /\ Kept(a, [a EXCEPT !.victims = vs])
<1>1. [a EXCEPT !.victims = vs] \in Handler
  BY ZenonT(40) DEF Handler
<1>2. QED
  BY <1>1 DEF Handler, Kept

LEMMA IdsSet ==
  ASSUME NEW a \in Handler, NEW is \in SUBSET Ids
  PROVE  [a EXCEPT !.ids = is] \in Handler /\ Kept(a, [a EXCEPT !.ids = is])
<1>1. [a EXCEPT !.ids = is] \in Handler
  BY ZenonT(40) DEF Handler
<1>2. QED
  BY <1>1 DEF Handler, Kept

LEMMA PathsSet ==
  ASSUME NEW a \in Handler, NEW u \in Versions \cup {None}, NEW ps \in PathSets
  PROVE  LET b == Removing(a, u, ps)
         IN  /\ b \in Handler /\ (a.op = "delete" => Kept(a, b))
             /\ b.pc \in {"removing", "finish"} /\ b.paths = ps
             /\ ps # {} => b.pc = "removing"
             /\ b.ids = a.ids /\ b.victims = a.victims
<1>1. PICK x \in {"removing", "finish"} :
        /\ Removing(a, u, ps) = [a EXCEPT !.pc = x, !.version = u, !.paths = ps]
        /\ ps # {} => x = "removing"
  BY DEF Removing
<1>2. x \in Pcs
  BY DEF Pcs, TaskPcs
<1>3. [a EXCEPT !.pc = x, !.version = u, !.paths = ps] \in Handler
  BY <1>2, ZenonT(40) DEF Handler
<1>4. QED
  BY <1>1, <1>3 DEF Handler, Kept

LEMMA LeftSet ==
  ASSUME NEW a \in Handler, NEW fs \in SUBSET Files, NEW x \in Pcs
  PROVE  /\ [a EXCEPT !.left = fs] \in Handler /\ Kept(a, [a EXCEPT !.left = fs])
         /\ [a EXCEPT !.left = fs].left = fs /\ [a EXCEPT !.left = fs].pc = a.pc
         /\ [a EXCEPT !.pc = x, !.left = fs] = [[a EXCEPT !.left = fs] EXCEPT !.pc = x]
<1>1. [a EXCEPT !.left = fs] \in Handler
  BY ZenonT(40) DEF Handler
<1>2. [a EXCEPT !.pc = x, !.left = fs] = [[a EXCEPT !.left = fs] EXCEPT !.pc = x]
  BY DEF Handler
<1>3. QED
  BY <1>1, <1>2 DEF Handler, Kept

LEMMA Queued ==
  ASSUME NEW a \in Handler, NEW t \in Nat
  PROVE  LET b == [a EXCEPT !.pc = "queued", !.task = t, !.clean = TRUE]
         IN  /\ b \in Handler /\ b.pc = "queued" /\ b.task = t /\ b.op = a.op /\ b.id = a.id
             /\ b.version = a.version /\ b.content = a.content /\ b.seen = a.seen
             /\ b.then = a.then /\ b.ws = a.ws /\ b.ids = a.ids
<1>1. "queued" \in Pcs /\ TRUE \in BOOLEAN
  BY DEF Pcs, TaskPcs
<1>2. [a EXCEPT !.pc = "queued", !.task = t, !.clean = TRUE] \in Handler
  BY <1>1, ZenonT(40) DEF Handler
<1>3. QED
  BY <1>2 DEF Handler

\* A step of one handler changes of the others at most whether they are clean.
LEMMA OthersAlike ==
  ASSUME req \in [Requests -> Handler], NEW p \in Requests, NEW r \in Handler,
         Overlap(p, r) \/ Quietly(p, r)
  PROVE  /\ req' \in [Requests -> Handler] /\ req'[p] = r
         /\ \A q \in Requests \ {p} : Alike(req[q], req'[q])
         /\ Overlap(p, r) => \A q \in Requests \ {p} : req'[q] = Idle \/ ~req'[q].clean
         /\ Quietly(p, r) => \A q \in Requests \ {p} : req'[q] = req[q]
<1>1. ASSUME NEW a \in Handler
      PROVE  [a EXCEPT !.clean = FALSE] \in Handler /\ ~[a EXCEPT !.clean = FALSE].clean
             /\ Alike(a, [a EXCEPT !.clean = FALSE])
  BY Touched
<1>2. CASE Quietly(p, r)
  <2>1. Alike(Idle, Idle) /\ \A q \in Requests : Alike(req[q], req[q])
    BY DEF Alike
  <2>2. /\ req' \in [Requests -> Handler] /\ req'[p] = r
        /\ \A q \in Requests \ {p} : req'[q] = req[q]
    BY <1>2 DEF Quietly
  <2>3. Overlap(p, r) => \A q \in Requests \ {p} : req'[q] = Idle \/ ~req'[q].clean
    <3>1. SUFFICES ASSUME Overlap(p, r), NEW q \in Requests \ {p}, req'[q] # Idle
                   PROVE  ~req'[q].clean
      OBVIOUS
    <3>2. req'[q] = [req[q] EXCEPT !.clean = FALSE]
      BY <3>1 DEF Overlap
    <3>3. QED
      BY <1>1, <3>2
  <2>4. QED
    BY <2>1, <2>2, <2>3
<1>3. CASE Overlap(p, r)
  <2>1. /\ req' = [q \in Requests |-> IF q = p THEN r
                                      ELSE IF req[q] = Idle THEN Idle
                                      ELSE [req[q] EXCEPT !.clean = FALSE]]
    BY <1>3 DEF Overlap
  <2>2. req' \in [Requests -> Handler] /\ req'[p] = r
    <3>1. \A q \in Requests : [req[q] EXCEPT !.clean = FALSE] \in Handler
      BY <1>1
    <3>2. QED
      BY <2>1, <3>1, IdleTyped
  <2>3. ASSUME NEW q \in Requests \ {p}
        PROVE  Alike(req[q], req'[q]) /\ (req'[q] = Idle \/ ~req'[q].clean)
    <3>1. CASE req[q] = Idle
      BY <2>1, <3>1 DEF Alike
    <3>2. CASE req[q] # Idle
      <4>1. req'[q] = [req[q] EXCEPT !.clean = FALSE]
        BY <2>1, <3>2
      <4>2. QED
        BY <1>1, <4>1
    <3>3. QED
      BY <3>1, <3>2
  <2>4. Quietly(p, r) => \A q \in Requests \ {p} : req'[q] = req[q]
    BY DEF Quietly
  <2>5. QED
    BY <2>2, <2>3, <2>4
<1>4. QED
  BY <1>2, <1>3

LEMMA AlikePrepared ==
  ASSUME NEW a, NEW b, NEW m \in Nat, NEW n \in Nat, m <= n, Alike(a, b), Prepared(a, m)
  PROVE  Prepared(b, n)
<1>1. 1 .. m \subseteq 1 .. n
  OBVIOUS
<1>2. QED
  BY <1>1 DEF Alike, Prepared

\* What holds of each handler
Good(r, rs, ts) == Prepared(r, Len(ts)) /\ StillSo(r, rs) /\ Ended(r, ts)

\* Tasks are only added, and one that has ended, or is lost, stays so.
TasksGrow ==
  /\ Len(tasks) <= Len(tasks') /\ lost \subseteq lost'
  /\ \A t \in 1 .. Len(tasks) : tasks[t] \in {"succeeded", "failed"} => tasks'[t] = tasks[t]

\* Where a handler has a task to end
HeldPcs == TaskPcs \ {"next"}

\* A handler lets go of its task only when it has ended or is lost, and takes up
\* every task that is added.
Keeps(p, r) ==
  /\ req[p].pc \in HeldPcs => \/ r.task = req[p].task /\ r.pc \in HeldPcs
                             \/ tasks'[req[p].task] \in {"succeeded", "failed"}
                             \/ req[p].task \in lost'
  /\ \A t \in Len(tasks) + 1 .. Len(tasks') : r.task = t /\ r.pc \in HeldPcs
  /\ r.task \in {0, req[p].task} \cup (Len(tasks) + 1 .. Len(tasks'))

\* A step of one handler
Shape(p) ==
  \E r \in Handler : /\ Good(r, rows', tasks') /\ Keeps(p, r)
                     /\ Overlap(p, r) \/ (Quietly(p, r) /\ UNCHANGED rows)

LEMMA KeepsOn ==
  ASSUME Tasks, NEW p, NEW r, Len(tasks') = Len(tasks), r.task \in {0, req[p].task},
         \/ r.task = req[p].task /\ r.pc \in HeldPcs
         \/ req[p].pc \notin HeldPcs
  PROVE  Keeps(p, r)
BY DEF Keeps, Tasks

\* What a step of one handler has to show to keep all of them as they should be
LEMMA HandlersKept ==
  ASSUME Handlers, Knowing, Tasks, Tasks', TasksGrow, NEW p \in Requests, Shape(p)
  PROVE  Handlers' /\ Knowing'
<1>1. Len(tasks) \in Nat /\ Len(tasks') \in Nat /\ Len(tasks) <= Len(tasks')
  BY DEF Tasks, TasksGrow
<1>2. PICK r \in Handler : /\ Good(r, rows', tasks')
                           /\ Overlap(p, r) \/ (Quietly(p, r) /\ UNCHANGED rows)
  BY DEF Shape
<1>3. ASSUME NEW q \in Requests
      PROVE  Good(req'[q], rows', tasks')
  <2>1. CASE q = p
    BY <1>2, <2>1, OthersAlike DEF Handlers
  <2>2. CASE q # p
    <3>1. Alike(req[q], req'[q]) /\ Prepared(req[q], Len(tasks)) /\ req[q] \in Handler
      BY <1>2, <2>2, OthersAlike DEF Handlers
    <3>2. Prepared(req'[q], Len(tasks'))
      BY <1>1, <3>1, AlikePrepared
    <3>3. StillSo(req'[q], rows')
      <4>1. CASE Overlap(p, r)
        BY <1>2, <2>2, <4>1, OthersAlike, IdleTyped DEF Handlers, StillSo
      <4>2. CASE Quietly(p, r) /\ UNCHANGED rows
        BY <1>2, <2>2, <4>2, OthersAlike DEF Handlers, Knowing
      <4>3. QED
        BY <1>2, <4>1, <4>2
    <3>4. Ended(req'[q], tasks')
      <4>1. req[q].pc = "next" => req[q].task \in 1 .. Len(tasks)
        BY <3>1 DEF Prepared, TaskPcs
      <4>2. QED
        BY <3>1, <4>1 DEF Knowing, Ended, TasksGrow, Alike
    <3>5. QED
      BY <3>2, <3>3, <3>4 DEF Good
  <2>3. QED
    BY <2>1, <2>2
<1>4. QED
  BY <1>2, <1>3, OthersAlike DEF Handlers, Knowing, Good

-----------------------------------------------------------------------------
\* Tasks

LEMMA TurnTyped ==
  ASSUME Tasks, NEW t \in 1 .. Len(tasks), NEW s \in {"running", "succeeded", "failed"},
         Turn(t, s), UNCHANGED lost
  PROVE  Tasks' /\ TasksGrow /\ Len(tasks') = Len(tasks) /\ tasks'[t] = s
         /\ \A u \in 1 .. Len(tasks) : u # t => tasks'[u] = tasks[u]
BY DEF Tasks, Turn, MayTurn, TasksGrow

\* What an operation needs before its task is created
Ready(r) ==
  /\ r.op \in TaskOps
  /\ r.op = "install" => r.version \in Versions /\ r.content \in Contents
  /\ r.op = "enable" => r.seen \in Row /\ r.id \in Ids
  /\ r.op \in {"assign", "switch"} \/ r.then # <<>> => r.ws \in Workspaces

LEMMA QueueEffect ==
  ASSUME Tasks, NEW p \in Requests, NEW r \in Handler, Ready(r), Queue(p, r),
         req[p].pc \notin HeldPcs,
         r.op = "enable" => r.seen = rows[r.id]
  PROVE  /\ Tasks' /\ TasksGrow /\ Shape(p)
         /\ Len(tasks') = Len(tasks) + 1
         /\ \A u \in 1 .. Len(tasks) : tasks'[u] = tasks[u]
         /\ UNCHANGED <<rows, issued, disk, links, mixed, past>>
         /\ \E b \in Handler : Quietly(p, b) /\ b.pc = "queued" /\ b.task = Len(tasks')
<1>1. /\ tasks' = Append(tasks, "queued") /\ Len(tasks) < MaxTasks
      /\ UNCHANGED <<rows, issued, disk, links, mixed, past>>
  BY DEF Queue
<1>2. /\ Tasks' /\ Len(tasks') = Len(tasks) + 1
      /\ \A u \in 1 .. Len(tasks) : tasks'[u] = tasks[u]
  BY <1>1 DEF Tasks, past
<1>3. Len(tasks) \in Nat /\ Len(tasks') \in Nat
  BY <1>2 DEF Tasks
<1>4. PICK b \in Handler :
         /\ b.pc = "queued" /\ b.task = Len(tasks) + 1 /\ b.op = r.op /\ b.id = r.id
         /\ b.version = r.version /\ b.content = r.content /\ b.seen = r.seen
         /\ b.then = r.then /\ b.ws = r.ws
         /\ Quietly(p, b)
  <2> DEFINE b == [r EXCEPT !.pc = "queued", !.task = Len(tasks) + 1, !.clean = TRUE]
  <2>1. Len(tasks) + 1 \in Nat
    BY <1>3
  <2>2. /\ b \in Handler /\ b.pc = "queued" /\ b.task = Len(tasks) + 1 /\ b.op = r.op
        /\ b.id = r.id /\ b.version = r.version /\ b.content = r.content /\ b.seen = r.seen
        /\ b.then = r.then /\ b.ws = r.ws
    BY <2>1, Queued
  <2>3. Quietly(p, b)
    BY DEF Queue
  <2>4. QED
    BY <2>2, <2>3
<1>5. Prepared(b, Len(tasks'))
  BY <1>2, <1>3, <1>4 DEF Ready, Prepared, TaskPcs
<1>6. StillSo(b, rows') /\ Ended(b, tasks')
  BY <1>1, <1>4 DEF StillSo, Ended
<1>7. TasksGrow
  BY <1>1, <1>2, <1>3 DEF TasksGrow, past
<1>8. Shape(p)
  <2>1. Keeps(p, b)
    BY <1>2, <1>3, <1>4 DEF Keeps, HeldPcs, TaskPcs
  <2>2. QED
    BY <1>1, <1>4, <1>5, <1>6, <2>1 DEF Shape, Good
<1>9. QED
  BY <1>1, <1>2, <1>4, <1>7, <1>8

\* The handlers that queue their operations
LEMMA ReadyToInstall ==
  ASSUME NEW r \in Handler, NEW v \in Versions, NEW c \in Contents,
         r.then # <<>> => r.ws \in Workspaces
  PROVE  LET b == [r EXCEPT !.op = "install", !.version = v, !.content = c]
         IN  b \in Handler /\ Ready(b) /\ b.op = "install"
<1>1. "install" \in Ops /\ v \in Versions \cup {None} /\ c \in Contents \cup {None}
  BY DEF Ops, TaskOps
<1>2. [r EXCEPT !.op = "install", !.version = v, !.content = c] \in Handler
  BY <1>1, ZenonT(40) DEF Handler
<1>3. QED
  BY <1>2 DEF Handler, Ready, TaskOps

LEMMA ReadyToEnable ==
  ASSUME Tables, NEW r \in Handler, NEW id \in Installed, r.then # <<>> => r.ws \in Workspaces
  PROVE  LET b == [r EXCEPT !.op = "enable", !.id = id, !.version = rows[id].version,
                            !.seen = rows[id]]
         IN  b \in Handler /\ Ready(b) /\ b.op = "enable" /\ b.id = id /\ b.seen = rows[id]
<1>1. rows[id] \in Row /\ id \in Ids
  BY DEF Tables, Installed
<1>2. rows[id].version \in Versions
  BY <1>1 DEF Row
<1>3. /\ "enable" \in Ops /\ id \in Ids \cup {None} /\ rows[id].version \in Versions \cup {None}
      /\ rows[id] \in Row \cup {None}
  BY <1>1, <1>2 DEF Ops, TaskOps
<1>4. \A v \in Versions \cup {None}, s \in Row \cup {None} :
        [r EXCEPT !.op = "enable", !.id = id, !.version = v, !.seen = s] \in Handler
  BY <1>3, ZenonT(40) DEF Handler
<1> DEFINE b == [r EXCEPT !.op = "enable", !.id = id, !.version = rows[id].version,
                        !.seen = rows[id]]
<1>5. b \in Handler
  BY <1>3, <1>4
<1>6. b.op = "enable" /\ b.id = id /\ b.seen = rows[id] /\ b.then = r.then /\ b.ws = r.ws
  BY DEF Handler
<1>7. QED
  BY <1>1, <1>5, <1>6 DEF Ready, TaskOps

LEMMA ReadyToAssign ==
  ASSUME Tables, NEW r \in Handler, NEW id \in Installed, r.ws \in Workspaces
  PROVE  LET b == [r EXCEPT !.op = "assign", !.id = id, !.version = rows[id].version]
         IN  b \in Handler /\ Ready(b) /\ b.op = "assign"
<1>1. rows[id] \in Row /\ id \in Ids
  BY DEF Tables, Installed
<1>2. rows[id].version \in Versions
  BY <1>1 DEF Row
<1>3. /\ "assign" \in Ops /\ id \in Ids \cup {None} /\ rows[id].version \in Versions \cup {None}
  BY <1>1, <1>2 DEF Ops, TaskOps
<1>4. \A v \in Versions \cup {None} :
        [r EXCEPT !.op = "assign", !.id = id, !.version = v] \in Handler
  BY <1>3, ZenonT(40) DEF Handler
<1> DEFINE b == [r EXCEPT !.op = "assign", !.id = id, !.version = rows[id].version]
<1>5. b \in Handler
  BY <1>3, <1>4
<1>6. b.op = "assign" /\ b.ws = r.ws
  BY DEF Handler
<1>7. QED
  BY <1>5, <1>6 DEF Ready, TaskOps

LEMMA ReadyToSwitch ==
  ASSUME NEW r \in Handler, NEW id \in Installed, r.ws \in Workspaces
  PROVE  LET b == [r EXCEPT !.op = "switch", !.id = id]
         IN  b \in Handler /\ Ready(b) /\ b.op = "switch"
<1>1. "switch" \in Ops /\ id \in Ids \cup {None}
  BY DEF Ops, TaskOps, Installed
<1>2. [r EXCEPT !.op = "switch", !.id = id] \in Handler
  BY <1>1, ZenonT(40) DEF Handler
<1>3. QED
  BY <1>2 DEF Handler, Ready, TaskOps

LEMMA Continued ==
  ASSUME NEW a \in Handler, NEW then \in Seq({"enable", "assign", "switch"})
  PROVE  [a EXCEPT !.then = then] \in Handler
BY ZenonT(40) DEF Handler

\* What a request brings with it
LEMMA Brought ==
  ASSUME NEW ws \in Workspaces
  PROVE  /\ [Idle EXCEPT !.archived = TRUE] \in Handler
         /\ [Idle EXCEPT !.ws = ws] \in Handler
         /\ \A then \in {<<"enable", "assign">>, <<"enable", "switch">>} :
              [Idle EXCEPT !.archived = TRUE, !.ws = ws, !.then = then] \in Handler
         /\ \A v \in Versions : [Idle EXCEPT !.ws = ws, !.version = v] \in Handler
         /\ \A v \in Versions : [[Idle EXCEPT !.ws = ws, !.version = v]
                                   EXCEPT !.then = <<"switch">>] \in Handler
         /\ [Idle EXCEPT !.ws = ws].ws = ws
         /\ \A v : [Idle EXCEPT !.ws = ws, !.version = v].ws = ws
<1>1. /\ Idle \in Handler /\ TRUE \in BOOLEAN /\ ws \in Workspaces \cup {None}
      /\ \A v \in Versions : v \in Versions \cup {None}
  BY IdleTyped
<1>2. /\ <<"enable", "assign">> \in Seq({"enable", "assign", "switch"})
      /\ <<"enable", "switch">> \in Seq({"enable", "assign", "switch"})
      /\ <<"switch">> \in Seq({"enable", "assign", "switch"})
  OBVIOUS
<1>3. [Idle EXCEPT !.archived = TRUE] \in Handler
  BY <1>1, ZenonT(40) DEF Handler
<1>4. [Idle EXCEPT !.ws = ws] \in Handler
  BY <1>1, ZenonT(40) DEF Handler
<1>5. \A then \in Seq({"enable", "assign", "switch"}) :
        [Idle EXCEPT !.archived = TRUE, !.ws = ws, !.then = then] \in Handler
  BY <1>1, ZenonT(40) DEF Handler
<1>6. \A v \in Versions : [Idle EXCEPT !.ws = ws, !.version = v] \in Handler
  BY <1>1, ZenonT(40) DEF Handler
<1>7. \A a \in Handler : [a EXCEPT !.then = <<"switch">>] \in Handler
  BY <1>2, Continued
<1>8. /\ [Idle EXCEPT !.ws = ws].ws = ws
      /\ \A v : [Idle EXCEPT !.ws = ws, !.version = v].ws = ws
  BY DEF Idle
<1>9. QED
  BY <1>2, <1>3, <1>4, <1>5, <1>6, <1>7, <1>8

\* A step that creates the task of an operation
Queues(p) ==
  \E r \in Handler : /\ Ready(r) /\ Queue(p, r)
                     /\ r.op = "enable" => r.id \in Installed /\ r.seen = rows[r.id]
                     /\ r.op = "delete" => r.ids = Installed

LEMMA InstallQueues ==
  ASSUME NEW p \in Requests, NEW r \in Handler, NEW v \in Versions, NEW c \in Contents,
         Install(p, v, c, r), r.then # <<>> => r.ws \in Workspaces
  PROVE  Queues(p)
<1> DEFINE b == [r EXCEPT !.op = "install", !.version = v, !.content = c]
<1>1. b \in Handler /\ Ready(b) /\ b.op = "install"
  BY ReadyToInstall
<1>2. Queue(p, b)
  BY DEF Install
<1>3. QED
  BY <1>1, <1>2 DEF Queues

LEMMA EnableQueues ==
  ASSUME Tables, NEW p \in Requests, NEW r \in Handler, NEW id, Enable(p, id, r),
         r.then # <<>> => r.ws \in Workspaces
  PROVE  Queues(p)
<1> DEFINE b == [r EXCEPT !.op = "enable", !.id = id, !.version = rows[id].version,
                          !.seen = rows[id]]
<1>1. id \in Installed /\ Queue(p, b)
  BY DEF Enable
<1>2. b \in Handler /\ Ready(b) /\ b.op = "enable" /\ b.id = id /\ b.seen = rows[id]
  BY <1>1, ReadyToEnable
<1>3. QED
  BY <1>1, <1>2 DEF Queues

LEMMA AssignQueues ==
  ASSUME Tables, NEW p \in Requests, NEW r \in Handler, NEW id, Assign(p, id, r),
         r.ws \in Workspaces
  PROVE  Queues(p)
<1> DEFINE b == [r EXCEPT !.op = "assign", !.id = id, !.version = rows[id].version]
<1>1. id \in Installed /\ Queue(p, b)
  BY DEF Assign
<1>2. b \in Handler /\ Ready(b) /\ b.op = "assign"
  BY <1>1, ReadyToAssign
<1>3. QED
  BY <1>1, <1>2 DEF Queues

LEMMA SwitchQueues ==
  ASSUME NEW p \in Requests, NEW r \in Handler, NEW id, Switch(p, id, r),
         r.ws \in Workspaces
  PROVE  Queues(p)
<1> DEFINE b == [r EXCEPT !.op = "switch", !.id = id]
<1>1. id \in Installed /\ Queue(p, b)
  BY DEF Switch
<1>2. b \in Handler /\ Ready(b) /\ b.op = "switch"
  BY <1>1, ReadyToSwitch
<1>3. QED
  BY <1>1, <1>2 DEF Queues

\* Every operation that is accepted queues a task.
AcceptsTask(p) ==
  \/ AcceptInstall(p) \/ AcceptUpgrade(p) \/ AcceptEnable(p) \/ AcceptAssign(p) \/ AcceptSwitch(p)
  \/ AcceptDelete(p)

LEMMA Condemned ==
  ASSUME NEW a \in Handler, NEW o \in Ops, NEW is \in SUBSET Ids,
         NEW ps \in PathSets
  PROVE  [a EXCEPT !.op = o, !.ids = is, !.paths = ps] \in Handler
<1>1. [a EXCEPT !.op = o] \in Handler
  BY ZenonT(40) DEF Handler
<1>2. ASSUME NEW b \in Handler
      PROVE  [b EXCEPT !.ids = is] \in Handler
  BY ZenonT(40) DEF Handler
<1>3. ASSUME NEW b \in Handler
      PROVE  [b EXCEPT !.paths = ps] \in Handler
  BY ZenonT(40) DEF Handler
<1>4. QED
  BY <1>1, <1>2, <1>3

LEMMA AcceptQueues ==
  ASSUME Tables, NEW p \in Requests, AcceptsTask(p)
  PROVE  Queues(p) /\ Arrives(p)
<1>1. Arrives(p)
  BY DEF AcceptsTask, AcceptInstall, AcceptUpgrade, AcceptEnable, AcceptAssign, AcceptSwitch,
         AcceptDelete
<1>2. Idle \in Handler
  BY IdleTyped
<1>3. CASE AcceptInstall(p)
  <2>1. PICK v \in Versions, c \in Contents, ws \in Workspaces :
          \/ Install(p, v, c, Idle)
          \/ Install(p, v, c, [Idle EXCEPT !.archived = TRUE])
          \/ Install(p, v, c, [Idle EXCEPT !.archived = TRUE, !.ws = ws,
                                           !.then = <<"enable", "assign">>])
    BY <1>3 DEF AcceptInstall
  <2> DEFINE sent == [Idle EXCEPT !.archived = TRUE]
             full == [Idle EXCEPT !.archived = TRUE, !.ws = ws, !.then = <<"enable", "assign">>]
  <2>2. Install(p, v, c, Idle) \/ Install(p, v, c, sent) \/ Install(p, v, c, full)
    BY <2>1
  <2>3. sent \in Handler /\ full \in Handler
    BY Brought
  <2>4. Idle.then = <<>> /\ sent.then = <<>> /\ full.ws = ws
    BY DEF Idle
  <2> HIDE DEF sent, full
  <2>5. QED
    BY <1>1, <1>2, <2>2, <2>3, <2>4, InstallQueues
<1>4. CASE AcceptUpgrade(p)
  <2>1. PICK v \in Versions \ HostVersions, c \in Contents, ws \in Workspaces :
          Install(p, v, c, [Idle EXCEPT !.archived = TRUE, !.ws = ws,
                                        !.then = <<"enable", "switch">>])
    BY <1>4 DEF AcceptUpgrade
  <2> DEFINE r == [Idle EXCEPT !.archived = TRUE, !.ws = ws, !.then = <<"enable", "switch">>]
  <2>2. Install(p, v, c, r) /\ v \in Versions
    BY <2>1
  <2>3. r \in Handler
    BY Brought
  <2>4. r.ws = ws
    BY DEF Idle
  <2> HIDE DEF r
  <2>5. QED
    BY <1>1, <2>2, <2>3, <2>4, InstallQueues
<1>5. CASE AcceptEnable(p)
  BY <1>1, <1>2, <1>5, EnableQueues DEF AcceptEnable, Idle
<1>6. CASE AcceptAssign(p)
  <2>1. PICK id \in Ids, ws \in Workspaces : Assign(p, id, [Idle EXCEPT !.ws = ws])
    BY <1>6 DEF AcceptAssign
  <2>2. QED
    BY <1>1, <2>1, Brought, AssignQueues
<1>7. CASE AcceptSwitch(p)
  <2>1. PICK id \in Installed, ws \in Workspaces :
          LET r == [Idle EXCEPT !.ws = ws, !.version = rows[id].version] IN
          IF rows[id].desired = "disabled"
          THEN Enable(p, id, [r EXCEPT !.then = <<"switch">>])
          ELSE Switch(p, id, r)
    BY <1>7 DEF AcceptSwitch
  <2>2. rows[id].version \in Versions
    BY DEF Tables, Installed, Row
  <2>3. CASE rows[id].desired = "disabled"
    <3>1. Enable(p, id, [[Idle EXCEPT !.ws = ws, !.version = rows[id].version]
                           EXCEPT !.then = <<"switch">>])
      BY <2>1, <2>3
    <3>2. [[Idle EXCEPT !.ws = ws, !.version = rows[id].version]
             EXCEPT !.then = <<"switch">>] \in Handler
      BY <2>2, Brought
    <3>3. [[Idle EXCEPT !.ws = ws, !.version = rows[id].version]
             EXCEPT !.then = <<"switch">>].ws = ws
      BY DEF Idle
    <3>4. QED
      BY <1>1, <3>1, <3>2, <3>3, EnableQueues
  <2>4. CASE rows[id].desired # "disabled"
    <3>1. Switch(p, id, [Idle EXCEPT !.ws = ws, !.version = rows[id].version])
      BY <2>1, <2>4
    <3>2. /\ [Idle EXCEPT !.ws = ws, !.version = rows[id].version] \in Handler
          /\ [Idle EXCEPT !.ws = ws, !.version = rows[id].version].ws = ws
      BY <2>2, Brought
    <3>3. QED
      BY <1>1, <3>1, <3>2, SwitchQueues
  <2>5. QED
    BY <2>3, <2>4
<1>8. CASE AcceptDelete(p)
  <2> DEFINE ds == {<<rows[id].version, "directory">> : id \in Installed}
             as == {<<rows[id].version, "archive">> : id \in {o \in Installed : rows[o].archive # None}}
             b  == [Idle EXCEPT !.op = "delete", !.ids = Installed, !.paths = ds \cup as]
  <2>1. ds \cup as \in PathSets
    <3>1. \A id \in Installed : rows[id].version \in Versions
      BY DEF Tables, Installed, Row
    <3>2. ds \subseteq Versions \X {"directory", "archive"}
      BY <3>1
    <3>3. as \subseteq Versions \X {"directory", "archive"}
      BY <3>1
    <3>4. QED
      BY <3>2, <3>3 DEF PathSets
  <2>2. Installed \in SUBSET Ids /\ "delete" \in Ops
    BY DEF Installed, Ops, TaskOps
  <2>3. b \in Handler
    BY <1>2, <2>1, <2>2, Condemned
  <2>4. b.op = "delete" /\ b.then = <<>> /\ b.ids = Installed
    BY DEF Idle
  <2>5. Queue(p, b)
    BY <1>8 DEF AcceptDelete
  <2>6. Ready(b)
    BY <2>3, <2>4 DEF Ready, TaskOps
  <2>7. QED
    BY <1>1, <2>3, <2>4, <2>5, <2>6 DEF Queues
<1>9. QED
  BY <1>3, <1>4, <1>5, <1>6, <1>7, <1>8 DEF AcceptsTask

\* So does a chain that goes on.
LEMMA ContinueQueues ==
  ASSUME Tables, Handlers, NEW p \in Requests, Continue(p)
  PROVE  \/ Queues(p) /\ UNCHANGED boot
         \/ Refused(p) /\ UNCHANGED boot
<1>1. CASE Refused(p)
  BY <1>1 DEF Continue
<1>2. CASE Goes(p, Head(req[p].then), [req[p] EXCEPT !.then = Tail(@)])
  <2>1. req[p] \in Handler /\ req[p].then # <<>>
    BY DEF Continue, Handlers, Prepared, TaskPcs
  <2>2. Tail(req[p].then) \in Seq({"enable", "assign", "switch"})
    <3>1. req[p].then \in Seq({"enable", "assign", "switch"})
      BY <2>1 DEF Handler
    <3>2. QED
      BY <2>1, <3>1
  <2>3. [req[p] EXCEPT !.then = Tail(@)] \in Handler
    BY <2>1, <2>2, Continued
  <2>5. [req[p] EXCEPT !.then = Tail(@)].ws \in Workspaces
    BY <2>1 DEF Handler, Handlers, Prepared
  <2>4. QED
    BY <1>2, <2>3, <2>5, EnableQueues, AssignQueues, SwitchQueues DEF Goes, Continue
<1>3. QED
  BY <1>1, <1>2 DEF Continue

-----------------------------------------------------------------------------
\* Rows

LEMMA DeriveTyped ==
  ASSUME NEW d, NEW a, NEW s
  PROVE  Derive(d, a, s) \in Availability
BY DEF Derive, Availability

\* What the disk says of a row
LEMMA ReadableMeans ==
  ASSUME Tables, NEW v \in Versions
  PROVE  /\ Readable(v) <=> dir[v] # None /\ dir[v][Manifest] # None
         /\ dir[v] # None => dir[v] \in [Files -> Contents \cup {None}]
         /\ Readable(v) => dir[v][Manifest] \in Contents
<1>1. dir[v] \in [Files -> Contents \cup {None}] \cup {None}
  BY DEF Tables
<1>2. Readable(v) <=> dir[v] # None /\ dir[v][Manifest] # None
  BY DEF Readable, Present
<1>3. dir[v] # None => dir[v] \in [Files -> Contents \cup {None}]
  BY <1>1
<1>4. QED
  BY <1>2, <1>3

LEMMA ObserveTyped ==
  ASSUME Tables, NEW r \in Row
  PROVE  Observe(r) \in Artifacts /\ Found(r) \in Contents
<1>1. r.version \in Versions /\ r.manifest \in Contents
  BY DEF Row
<1>2. Observe(r) \in Artifacts
  BY DEF Observe, Artifacts
<1>3. Found(r) \in Contents
  BY <1>1, ReadableMeans DEF Found
<1>4. QED
  BY <1>2, <1>3

LEMMA SettledTyped ==
  ASSUME NEW r \in Row, NEW a \in Artifacts, NEW m \in Contents
  PROVE  /\ Settled(r, a, m) \in Row
         /\ Settled(r, a, m).version = r.version /\ Settled(r, a, m).desired = r.desired
         /\ Settled(r, a, m).artifact = a /\ Settled(r, a, m).manifest = m
         /\ Settled(r, a, m).archive = r.archive
         /\ Settled(r, a, m).availability = Derive(r.desired, a, r.runtime)
         /\ Settled(r, a, m).runtime = r.runtime
<1>1. Derive(r.desired, a, r.runtime) \in Availability
  BY DeriveTyped
<1>2. Settled(r, a, m) \in Row
  <2>1. \A v \in Availability : [r EXCEPT !.artifact = a, !.manifest = m, !.availability = v] \in Row
    BY Zenon DEF Row
  <2>2. QED
    BY <1>1, <2>1 DEF Settled
<1>3. QED
  BY <1>2 DEF Settled, Row

\* The row that update_artifact_snapshot leaves: it knows nothing of other columns.
SettledInto(r, s, a, m) ==
  LET t == Settled(s, a, m) IN
  [r EXCEPT !.artifact = t.artifact, !.manifest = t.manifest,
            !.availability = t.availability, !.archive = t.archive]

LEMMA SettleTyped ==
  ASSUME NEW r \in Row, NEW s \in Row, NEW a \in Artifacts, NEW m \in Contents
  PROVE  /\ SettledInto(r, s, a, m) \in Row /\ SettledInto(r, s, a, m).version = r.version
         /\ r = s => SettledInto(r, s, a, m).availability = Derived(SettledInto(r, s, a, m))
<1> DEFINE t == Settled(s, a, m)
           b == [r EXCEPT !.artifact = t.artifact, !.manifest = t.manifest,
                          !.availability = t.availability, !.archive = t.archive]
<1>1. t \in Row /\ t.artifact = a /\ t.manifest = m
      /\ t.availability = Derive(s.desired, a, s.runtime)
  BY SettledTyped
<1>2. /\ t.artifact \in Artifacts /\ t.manifest \in Contents /\ t.availability \in Availability
      /\ t.archive \in Contents \cup {None}
  BY <1>1 DEF Row
<1>3. b \in Row
  <2>1. \A x \in Artifacts, y \in Contents, z \in Availability, w \in Contents \cup {None} :
          [r EXCEPT !.artifact = x, !.manifest = y, !.availability = z, !.archive = w] \in Row
    BY Zenon DEF Row
  <2>2. QED
    BY <1>2, <2>1
<1>4. /\ b.version = r.version /\ b.desired = r.desired /\ b.runtime = r.runtime
      /\ b.artifact = a /\ b.availability = Derive(s.desired, a, s.runtime)
  BY <1>1 DEF Row
<1>5. SettledInto(r, s, a, m) = b
  BY DEF SettledInto
<1>6. QED
  BY <1>3, <1>4, <1>5 DEF Derived

LEMMA RequestedTyped ==
  ASSUME NEW r \in Row, NEW s \in Row
  PROVE  LET b == [r EXCEPT !.desired = "active_requested",
                     !.availability = Derive("active_requested", s.artifact, s.runtime)]
         IN  /\ b \in Row /\ b.version = r.version /\ b.artifact = r.artifact
             /\ b.desired = "active_requested" /\ b.runtime = r.runtime
             /\ r = s => b.availability = Derived(b)
<1> DEFINE b == [r EXCEPT !.desired = "active_requested",
                   !.availability = Derive("active_requested", s.artifact, s.runtime)]
<1>1. /\ Derive("active_requested", s.artifact, s.runtime) \in Availability
      /\ "active_requested" \in Desired
  BY DeriveTyped DEF Desired
<1>2. b \in Row
  <2>1. \A d \in Desired, v \in Availability :
          [r EXCEPT !.desired = d, !.availability = v] \in Row
    BY Zenon DEF Row
  <2>2. QED
    BY <1>1, <2>1
<1>3. /\ b.version = r.version /\ b.artifact = r.artifact /\ b.runtime = r.runtime
      /\ b.desired = "active_requested"
      /\ b.availability = Derive("active_requested", s.artifact, s.runtime)
  BY DEF Row
<1>4. QED
  BY <1>2, <1>3 DEF Derived

LEMMA SnapshotTyped ==
  ASSUME NEW id \in Ids, rows[id] \in Row, NEW s \in Row, NEW status \in {"active", "load_failed"}
  PROVE  LET b == Snapshot(id, s, status)
         IN  /\ b \in Row /\ b.version = rows[id].version /\ b.artifact = rows[id].artifact
             /\ b.desired = rows[id].desired /\ b.manifest = rows[id].manifest
             /\ b.archive = rows[id].archive
             /\ rows[id] = s => b.availability = Derived(b)
<1> DEFINE b == Snapshot(id, s, status)
<1>1. Derive(s.desired, s.artifact, status) \in Availability /\ status \in Runtime
  BY DeriveTyped DEF Runtime
<1>2. b \in Row
  <2>1. \A x \in Runtime, v \in Availability :
          [rows[id] EXCEPT !.runtime = x, !.availability = v] \in Row
    BY Zenon DEF Row
  <2>2. QED
    BY <1>1, <2>1 DEF Snapshot
<1>3. /\ b.version = rows[id].version /\ b.artifact = rows[id].artifact
      /\ b.manifest = rows[id].manifest /\ b.archive = rows[id].archive
      /\ b.desired = rows[id].desired /\ b.runtime = status
      /\ b.availability = Derive(s.desired, s.artifact, status)
  BY DEF Row, Snapshot
<1>4. QED
  BY <1>2, <1>3 DEF Derived

LEMMA NewRowTyped ==
  ASSUME NEW r \in Handler, r.version \in Versions, r.print \in Contents, r.content \in Contents
  PROVE  /\ NewRow(r) \in Row /\ NewRow(r).version = r.version
         /\ NewRow(r).availability = Derived(NewRow(r))
<1> DEFINE d == IF r.version \in HostVersions THEN "pending_restart" ELSE "disabled"
           k == IF r.archived THEN r.content ELSE None
<1>1. d \in Desired /\ k \in Contents \cup {None} /\ Derive(d, "ready", "inactive") \in Availability
      /\ "ready" \in Artifacts /\ "inactive" \in Runtime
  BY DeriveTyped DEF Desired, Artifacts, Runtime
<1>2. NewRow(r) = [version |-> r.version, desired |-> d, artifact |-> "ready",
                   runtime |-> "inactive", availability |-> Derive(d, "ready", "inactive"),
                   manifest |-> r.print, archive |-> k, origin |-> r.content]
  BY DEF NewRow
<1>3. NewRow(r) \in Row
  <2>1. \A w \in Desired, x \in Availability, y \in Contents \cup {None},
           a \in Artifacts, s \in Runtime :
          [version |-> r.version, desired |-> w, artifact |-> a, runtime |-> s,
           availability |-> x, manifest |-> r.print, archive |-> y, origin |-> r.content] \in Row
    BY Zenon DEF Row
  <2>2. QED
    BY <1>1, <1>2, <2>1
<1>4. QED
  BY <1>2, <1>3 DEF Derived

-----------------------------------------------------------------------------
\* Each step of a handler is one, whatever it does to the tables.

Stepped(p) == Tasks' /\ TasksGrow /\ Shape(p)

LEMMA SameTasks ==
  ASSUME Tasks, UNCHANGED tasks, lost \subseteq lost', lost' \subseteq 1 .. Len(tasks)
  PROVE  Tasks' /\ TasksGrow /\ Len(tasks') = Len(tasks)
<1>1. Len(tasks) \in Nat /\ Len(tasks') = Len(tasks)
  BY DEF Tasks
<1>2. QED
  BY <1>1 DEF Tasks, TasksGrow

LEMMA EndsStep ==
  ASSUME Tasks, UNCHANGED <<tasks, lost>>, NEW p \in Requests, req[p].pc \notin HeldPcs,
         Overlap(p, Idle) \/ (Quietly(p, Idle) /\ UNCHANGED rows)
  PROVE  Stepped(p)
<1>0. Idle.task = 0
  BY DEF Idle
<1>1. Tasks' /\ TasksGrow /\ Keeps(p, Idle)
  BY <1>0, SameTasks, KeepsOn DEF Tasks
<1>2. Good(Idle, rows', tasks') /\ Idle \in Handler
  BY IdleTyped DEF Good
<1>3. QED
  BY <1>1, <1>2 DEF Stepped, Shape

LEMMA GivesUpStep ==
  ASSUME Tasks, Handlers, NEW p \in Requests, req[p].pc \in TaskPcs,
         Quietly(p, [req[p] EXCEPT !.pc = "failing"]), UNCHANGED <<rows, tasks, lost>>
  PROVE  Stepped(p)
<1> DEFINE a == req[p]  b == [a EXCEPT !.pc = "failing"]
<1>1. a \in Handler /\ Prepared(a, Len(tasks)) /\ "failing" \in Pcs
  BY DEF Handlers, Pcs, TaskPcs
<1>2. b \in Handler /\ b.pc = "failing" /\ Kept(a, b) /\ b.seen = a.seen
  BY <1>1, Moved
<1>3. Good(b, rows', tasks')
  BY <1>1, <1>2 DEF Good, Prepared, StillSo, Ended, Kept, TaskPcs
<1>4. Tasks' /\ TasksGrow /\ Len(tasks') = Len(tasks)
  BY SameTasks DEF Tasks
<1>5. Keeps(p, b)
  BY <1>2, <1>4, KeepsOn DEF Kept, HeldPcs, TaskPcs
<1>6. QED
  BY <1>2, <1>3, <1>4, <1>5 DEF Stepped, Shape

\* A handler that goes on within its operation
LEMMA MovesStep ==
  ASSUME Tasks, Handlers, NEW p \in Requests, NEW x \in HeldPcs, UNCHANGED <<tasks, lost>>,
         Overlap(p, [req[p] EXCEPT !.pc = x])
           \/ (Quietly(p, [req[p] EXCEPT !.pc = x]) /\ UNCHANGED rows),
         Good([req[p] EXCEPT !.pc = x], rows', tasks)
  PROVE  Stepped(p)
<1> DEFINE b == [req[p] EXCEPT !.pc = x]
<1>1. x \in Pcs /\ req[p] \in Handler
  BY DEF Pcs, HeldPcs, Handlers
<1>2. b \in Handler /\ b.pc = x /\ Kept(req[p], b)
  BY <1>1, Moved
<1>3. Tasks' /\ TasksGrow /\ Len(tasks') = Len(tasks)
  BY SameTasks DEF Tasks
<1>4. Keeps(p, b)
  <2>1. b.task = req[p].task /\ b.pc \in HeldPcs
    BY <1>2 DEF Kept
  <2>2. QED
    BY <1>3, <2>1, KeepsOn
<1>5. QED
  BY <1>2, <1>3, <1>4 DEF Stepped, Shape

LEMMA StartStep ==
  ASSUME Tasks, Handlers, Knowing, NEW p \in Requests, Start(p)
  PROVE  Stepped(p)
<1> DEFINE a == req[p]  x == FirstStep(a.op)  b == [a EXCEPT !.pc = x]
<1>1. a \in Handler /\ Prepared(a, Len(tasks)) /\ StillSo(a, rows) /\ a.pc = "queued"
  BY DEF Handlers, Knowing, Start
<1>2. a.op \in TaskOps /\ a.task \in 1 .. Len(tasks)
  BY <1>1 DEF Prepared, TaskPcs
<1>3. /\ x \in {"archive", "request", "point", "migrate", "list"}
      /\ x = "archive" => a.op = "install"
      /\ x = "request" => a.op = "enable"
      /\ x = "list" => a.op = "delete"
      /\ x = "migrate" => a.op = "switch"
      /\ x = "point" => a.op \in {"assign", "switch"}
  BY <1>2 DEF FirstStep, TaskOps
<1>4. x \in Pcs
  BY <1>3 DEF Pcs, TaskPcs
<1>5. b \in Handler /\ b.pc = x /\ Kept(a, b) /\ b.seen = a.seen /\ b.print = a.print
  BY <1>1, <1>4, Moved
<1>6. Tasks' /\ TasksGrow /\ Len(tasks') = Len(tasks)
  BY <1>2, TurnTyped DEF Start, past
<1>7. Good(b, rows', tasks')
  BY <1>1, <1>2, <1>3, <1>5, <1>6
     DEF Good, Prepared, StillSo, Ended, Kept, TaskPcs, TaskOps, Start
<1>8. Quietly(p, b) /\ UNCHANGED rows
  BY DEF Start
<1>9. Keeps(p, b)
  <2>1. b.task = req[p].task /\ b.pc \in HeldPcs
    BY <1>3, <1>5 DEF Kept, HeldPcs, TaskPcs
  <2>2. QED
    BY <1>6, <2>1, KeepsOn
<1>10. QED
  BY <1>5, <1>6, <1>7, <1>8, <1>9 DEF Stepped, Shape

LEMMA InstallStep ==
  ASSUME Tables, Tasks, Handlers, Knowing, NEW p \in Requests,
         Archive(p) \/ Clear(p) \/ Make(p) \/ Copy(p) \/ Fingerprint(p) \/ Record(p)
  PROVE  Stepped(p)
<1> DEFINE a == req[p]
<1>1. a \in Handler /\ Prepared(a, Len(tasks)) /\ StillSo(a, rows)
  BY DEF Handlers, Knowing
<1>2. /\ a.pc \in {"archive", "clear", "make", "copy", "fingerprint", "record"}
      /\ a.pc \in TaskPcs /\ UNCHANGED <<tasks, lost>>
  BY DEF Archive, Clear, Make, Copy, Fingerprint, Record, GivesUp, Clashes, past, TaskPcs
<1>3. a.op = "install"
  BY <1>1, <1>2 DEF Prepared
<1>4. ASSUME NEW x \in {"clear", "make", "copy", "fingerprint"}, NEW fs \in SUBSET Files,
             Overlap(p, [[a EXCEPT !.left = fs] EXCEPT !.pc = x])
      PROVE  Stepped(p)
  <2> DEFINE c == [a EXCEPT !.left = fs]  b == [c EXCEPT !.pc = x]
  <2>1. x \in Pcs /\ x \in HeldPcs
    BY <1>4 DEF Pcs, HeldPcs, TaskPcs
  <2>2. c \in Handler /\ Kept(a, c)
    BY <1>1, <2>1, LeftSet
  <2>3. b \in Handler /\ b.pc = x /\ Kept(c, b)
    BY <2>1, <2>2, Moved
  <2>4. Good(b, rows', tasks')
    BY <1>1, <1>2, <1>3, <2>2, <2>3 DEF Good, Prepared, StillSo, Ended, Kept, TaskPcs
  <2>5. Tasks' /\ TasksGrow /\ Len(tasks') = Len(tasks)
    BY <1>2, SameTasks DEF Tasks
  <2>6. Keeps(p, b)
    BY <2>1, <2>2, <2>3, <2>5, KeepsOn DEF Kept
  <2>7. QED
    BY <1>4, <2>3, <2>4, <2>5, <2>6 DEF Stepped, Shape
<1>11. a = [a EXCEPT !.left = a.left] /\ a.left \in SUBSET Files
  BY <1>1 DEF Handler
<1>12. ASSUME NEW x \in {"clear", "make"}, Overlap(p, [a EXCEPT !.pc = x])
       PROVE  Stepped(p)
  BY <1>4, <1>11, <1>12
<1>13. ASSUME GivesUp(p) \/ \E v \in Versions : Clashes(p, v)
       PROVE  Stepped(p)
  BY <1>2, <1>13, GivesUpStep DEF GivesUp, Clashes, past
<1>5. CASE Archive(p)
  BY <1>5, <1>12 DEF Archive
<1>6. CASE Clear(p)
  <2>1. CASE Clashes(p, a.version)
    BY <1>1, <1>3, <1>13, <2>1 DEF Prepared
  <2>2. CASE ~Clashes(p, a.version)
    <3>1. PICK x \in {"clear", "make"} : Overlap(p, [a EXCEPT !.pc = x])
      BY <1>6, <2>2 DEF Clear
    <3>2. QED
      BY <1>12, <3>1
  <2>3. QED
    BY <2>1, <2>2
<1>14. CASE Make(p)
  <2>1. "copy" \in Pcs /\ Files \in SUBSET Files
    BY DEF Pcs, TaskPcs
  <2>2. [a EXCEPT !.pc = "copy", !.left = Files] = [[a EXCEPT !.left = Files] EXCEPT !.pc = "copy"]
    BY <1>1, <2>1, LeftSet
  <2>3. QED
    BY <1>4, <1>14, <2>1, <2>2 DEF Make
<1>7. CASE Copy(p)
  <2>1. CASE GivesUp(p)
    BY <1>13, <2>1
  <2>2. CASE ~GivesUp(p)
    <3>1. PICK f \in a.left : Overlap(p, Copied([a EXCEPT !.left = a.left \ {f}]))
      BY <1>7, <2>2 DEF Copy
    <3>2. a.left \ {f} \in SUBSET Files
      BY <1>11
    <3>3. PICK x \in {"copy", "fingerprint"} :
            Copied([a EXCEPT !.left = a.left \ {f}])
              = [[a EXCEPT !.left = a.left \ {f}] EXCEPT !.pc = x]
      BY DEF Copied
    <3>4. Overlap(p, [[a EXCEPT !.left = a.left \ {f}] EXCEPT !.pc = x])
      BY <3>1, <3>3
    <3>5. x \in {"clear", "make", "copy", "fingerprint"}
      OBVIOUS
    <3> DEFINE fs == a.left \ {f}
    <3> HIDE DEF fs
    <3>6. Overlap(p, [[a EXCEPT !.left = fs] EXCEPT !.pc = x]) /\ fs \in SUBSET Files
      BY <3>2, <3>4 DEF fs
    <3>7. QED
      BY <1>4, <3>5, <3>6
  <2>3. QED
    BY <2>1, <2>2
<1>8. CASE Fingerprint(p)
  <2>1. CASE GivesUp(p)
    BY <1>13, <2>1
  <2>2. CASE /\ Readable(a.version) /\ UNCHANGED rows
             /\ Quietly(p, [a EXCEPT !.pc = "record", !.print = dir[a.version][Manifest]])
    <3>0. PICK c \in Contents : Quietly(p, [a EXCEPT !.pc = "record", !.print = c])
      BY <1>1, <1>3, <2>2, ReadableMeans DEF Prepared
    <3> DEFINE b == [a EXCEPT !.pc = "record", !.print = c]
    <3>1. "record" \in Pcs
      BY DEF Pcs, TaskPcs
    <3>2. b \in Handler /\ b.pc = "record" /\ Kept(a, b) /\ b.print \in Contents
          /\ b.seen = a.seen
      <4>1. b \in Handler
        BY <1>1, <3>1, Printed
      <4>2. b.pc = "record" /\ Kept(a, b) /\ b.print \in Contents /\ b.seen = a.seen
        BY <1>1 DEF Handler, Kept
      <4>3. QED
        BY <4>1, <4>2
    <3>3. Good(b, rows', tasks')
      BY <1>1, <1>2, <1>3, <3>2 DEF Good, Prepared, StillSo, Ended, Kept, TaskPcs
    <3>4. Tasks' /\ TasksGrow /\ Len(tasks') = Len(tasks)
      BY <1>2, SameTasks DEF Tasks
    <3>5. Keeps(p, b)
      BY <3>2, <3>4, KeepsOn DEF Kept, HeldPcs, TaskPcs
    <3>6. QED
      BY <2>2, <3>0, <3>2, <3>3, <3>4, <3>5 DEF Stepped, Shape
  <2>3. QED
    BY <1>8, <2>1, <2>2 DEF Fingerprint
<1>9. CASE Record(p)
  <2>1. PICK id \in Ids : Overlap(p, [a EXCEPT !.pc = "finish", !.id = id])
    <3>1. PICK id \in IF Conflicting(a.version) = {} THEN {issued + 1} ELSE Conflicting(a.version) :
            id <= MaxIds /\ Overlap(p, [a EXCEPT !.pc = "finish", !.id = id])
      BY <1>9 DEF Record
    <3>2. id \in Ids
      BY <3>1 DEF Conflicting, Installed, Tables, Ids
    <3>3. QED
      BY <3>1, <3>2
  <2> DEFINE b == [a EXCEPT !.pc = "finish", !.id = id]
  <2>2. "finish" \in Pcs
    BY DEF Pcs, TaskPcs
  <2>3. /\ b \in Handler /\ b.pc = "finish" /\ b.op = a.op /\ b.task = a.task
        /\ b.version = a.version /\ b.content = a.content
    <3>1. b \in Handler
      BY <1>1, <2>2, Identified
    <3>2. /\ b.pc = "finish" /\ b.op = a.op /\ b.task = a.task
          /\ b.version = a.version /\ b.content = a.content
      BY <1>1 DEF Handler
    <3>3. QED
      BY <3>1, <3>2
  <2>4. Good(b, rows', tasks')
    BY <1>1, <1>2, <1>3, <2>3 DEF Good, Prepared, StillSo, Ended, TaskPcs
  <2>5. Tasks' /\ TasksGrow /\ Len(tasks') = Len(tasks)
    BY <1>2, SameTasks DEF Tasks
  <2>6. Keeps(p, b)
    BY <2>3, <2>5, KeepsOn DEF HeldPcs, TaskPcs
  <2>7. QED
    BY <2>1, <2>3, <2>4, <2>5, <2>6 DEF Stepped, Shape
<1>10. QED
  BY <1>5, <1>6, <1>7, <1>8, <1>9, <1>14

LEMMA EnableStep ==
  ASSUME Tables, Tasks, Handlers, Knowing, NEW p \in Requests, Request(p) \/ Load(p) \/ Loaded(p)
  PROVE  Stepped(p)
<1> DEFINE a == req[p]
<1>1. a \in Handler /\ Prepared(a, Len(tasks)) /\ StillSo(a, rows)
  BY DEF Handlers, Knowing
<1>2. /\ a.pc \in {"request", "load", "active", "load_failed"} /\ a.pc \in TaskPcs
      /\ UNCHANGED <<tasks, lost>>
  BY DEF Request, Load, Loaded, GivesUp, past, TaskPcs
<1>3. a.op = "enable" /\ a.seen \in Row /\ a.id \in Ids
  BY <1>1, <1>2 DEF Prepared
<1>4. ASSUME NEW x \in {"active", "load_failed", "finish", "failing"},
             \/ x \in {"finish", "failing"} /\ Overlap(p, [a EXCEPT !.pc = x])
             \/ a.pc = "load" /\ Quietly(p, [a EXCEPT !.pc = x]) /\ UNCHANGED rows
      PROVE  Stepped(p)
  <2>1. x \in Pcs
    BY <1>4 DEF Pcs, TaskPcs
  <2>2. LET b == [a EXCEPT !.pc = x]
        IN  b.pc = x /\ Kept(a, b) /\ b.seen = a.seen /\ b.print = a.print
    BY <1>1, <2>1, Moved
  <2>3. Good([a EXCEPT !.pc = x], rows', tasks)
    BY <1>1, <1>2, <1>3, <1>4, <2>2 DEF Good, Prepared, StillSo, Ended, Kept, TaskPcs
  <2>4. QED
    BY <1>2, <1>4, <2>3, MovesStep DEF HeldPcs, TaskPcs
<1>5. CASE GivesUp(p)
  BY <1>2, <1>5, GivesUpStep DEF GivesUp, past
<1>6. CASE Request(p) /\ ~GivesUp(p)
  <2> DEFINE s == [rows[a.id] EXCEPT !.desired = "active_requested",
                     !.availability = Derive("active_requested", a.seen.artifact, a.seen.runtime)]
             b == [a EXCEPT !.pc = "load", !.seen = s]
  <2>1. a.id \in Installed /\ rows' = [rows EXCEPT ![a.id] = s] /\ Overlap(p, b)
    BY <1>6 DEF Request, Write
  <2>2. rows[a.id] \in Row
    BY <2>1 DEF Tables, Installed
  <2>3. s \in Row
    BY <1>3, <2>2, RequestedTyped
  <2>4. "load" \in Pcs
    BY DEF Pcs, TaskPcs
  <2>5. b \in Handler
    <3>1. \A t \in Row : [a EXCEPT !.pc = "load", !.seen = t] \in Handler
      BY <1>1, <2>4, Sighted
    <3>2. QED
      BY <2>3, <3>1
  <2>6. b.pc = "load" /\ Kept(a, b) /\ b.seen = s
    <3>1. \A t \in Row : LET c == [a EXCEPT !.pc = "load", !.seen = t]
                         IN  c.pc = "load" /\ Kept(a, c) /\ c.seen = t
      BY <1>1 DEF Handler, Kept
    <3>2. QED
      BY <2>3, <3>1
  <2>7. rows'[a.id] = s
    BY <1>3, <2>1 DEF Tables
  <2>8. Good(b, rows', tasks')
    BY <1>1, <1>2, <1>3, <2>3, <2>6, <2>7 DEF Good, Prepared, StillSo, Ended, Kept, TaskPcs
  <2>9. Tasks' /\ TasksGrow /\ Len(tasks') = Len(tasks)
    BY <1>2, SameTasks DEF Tasks
  <2>10. Keeps(p, b)
    BY <2>6, <2>9, KeepsOn DEF Kept, HeldPcs, TaskPcs
  <2>11. QED
    BY <2>1, <2>5, <2>8, <2>9, <2>10 DEF Stepped, Shape
<1>7. CASE Load(p)
  <2>1. a.pc = "load" /\ UNCHANGED rows
    BY <1>7 DEF Load
  <2>2. \E x \in {"active", "load_failed"} : Quietly(p, [a EXCEPT !.pc = x])
    BY <1>7 DEF Load
  <2>3. QED
    BY <1>4, <2>1, <2>2
<1>8. CASE Loaded(p) /\ ~GivesUp(p)
  <2>1. \E x \in {"finish", "failing"} : Overlap(p, [a EXCEPT !.pc = x])
    BY <1>8 DEF Loaded
  <2>2. QED
    BY <1>4, <2>1
<1>9. QED
  BY <1>5, <1>6, <1>7, <1>8

LEMMA SwitchStep ==
  ASSUME Tables, Tasks, Handlers, Knowing, NEW p \in Requests, Migrate(p) \/ Point(p)
  PROVE  Stepped(p)
<1> DEFINE a == req[p]
<1>1. a \in Handler /\ Prepared(a, Len(tasks))
  BY DEF Handlers
<1>2. /\ a.pc \in {"migrate", "point"} /\ a.pc \in TaskPcs /\ UNCHANGED <<tasks, lost>>
  BY DEF Migrate, Point, GivesUp, past, TaskPcs
<1>3. CASE GivesUp(p)
  BY <1>2, <1>3, GivesUpStep DEF GivesUp, past
<1>4. CASE ~GivesUp(p)
  <2>1. PICK x \in {"point", "finish"} : Overlap(p, [a EXCEPT !.pc = x])
    BY <1>4 DEF Migrate, Point
  <2>2. x \in Pcs
    BY <2>1 DEF Pcs, TaskPcs
  <2>3. LET b == [a EXCEPT !.pc = x]
        IN  b.pc = x /\ Kept(a, b) /\ b.seen = a.seen /\ b.print = a.print
    BY <1>1, <2>2, Moved
  <2>4. Good([a EXCEPT !.pc = x], rows', tasks)
    BY <1>1, <1>2, <2>1, <2>3 DEF Good, Prepared, StillSo, Ended, Kept, TaskPcs
  <2>5. QED
    BY <1>2, <2>1, <2>4, MovesStep DEF HeldPcs, TaskPcs
<1>5. QED
  BY <1>3, <1>4

LEMMA DeleteStep ==
  ASSUME Tables, Tasks, Handlers, Knowing, NEW p \in Requests,
         \/ ListInstances(p) \/ DeleteInstance(p) \/ DeleteRow(p)
         \/ RemoveDirectory(p) \/ RemoveArchive(p)
  PROVE  Stepped(p)
<1> DEFINE a == req[p]
<1>1. a \in Handler /\ Prepared(a, Len(tasks))
  BY DEF Handlers
<1>2. /\ a.pc \in {"list", "instances", "rows", "files", "removing"} /\ a.pc \in TaskPcs
      /\ UNCHANGED <<tasks, lost>>
  BY DEF ListInstances, DeleteInstance, DeleteRow, RemoveDirectory, RemoveArchive, GivesUp,
         Clashes, past, TaskPcs
<1>3. a.ids \in SUBSET Ids /\ a.victims \in SUBSET Instances
      /\ a.paths \in PathSets
  BY <1>1 DEF Handler
<1>4. ASSUME NEW b \in Handler, Kept(a, b),
             Overlap(p, Deleting(b)) \/ (Quietly(p, Deleting(b)) /\ UNCHANGED rows)
      PROVE  Stepped(p)
  <2>1. Deleting(b) \in Handler /\ Deleting(b).pc \in DeletePcs /\ Kept(b, Deleting(b))
    BY DeletingMoves
  <2>2. a.op \in TaskOps /\ a.task \in 1 .. Len(tasks)
    BY <1>1, <1>2 DEF Prepared
  <2>3. Deleting(b).op = a.op /\ Deleting(b).task = a.task
        /\ Deleting(b).content = a.content
        /\ Deleting(b).id = a.id /\ Deleting(b).then = a.then /\ Deleting(b).ws = a.ws
    BY <1>4, <2>1 DEF Kept
  <2>4. a.op = "delete"
    BY <1>1, <1>2 DEF Prepared
  <2>5. Good(Deleting(b), rows', tasks')
    BY <1>1, <1>2, <2>1, <2>2, <2>3, <2>4
       DEF Good, Prepared, StillSo, Ended, DeletePcs, TaskPcs
  <2>6. Tasks' /\ TasksGrow /\ Len(tasks') = Len(tasks)
    BY <1>2, SameTasks DEF Tasks
  <2>7. Keeps(p, Deleting(b))
    BY <2>1, <2>3, <2>6, KeepsOn DEF DeletePcs, HeldPcs, TaskPcs
  <2>8. QED
    BY <1>4, <2>1, <2>5, <2>6, <2>7 DEF Stepped, Shape
<1>5. CASE GivesUp(p) \/ \E v \in Versions : Clashes(p, v)
  BY <1>2, <1>5, GivesUpStep DEF GivesUp, Clashes, past
<1>6. CASE ListInstances(p)
  <2>1. {i \in Instances : home[i] # None} \in SUBSET Instances
    OBVIOUS
  <2>2. \A vs \in SUBSET Instances :
          [a EXCEPT !.victims = vs] \in Handler /\ Kept(a, [a EXCEPT !.victims = vs])
    BY <1>1, VictimsSet
  <2>3. Quietly(p, Deleting([a EXCEPT !.victims = {i \in Instances : home[i] # None}]))
        /\ UNCHANGED rows
    BY <1>6 DEF ListInstances
  <2>4. QED
    BY <1>4, <2>1, <2>2, <2>3
<1>7. CASE DeleteInstance(p) /\ ~GivesUp(p)
  <2>1. PICK i \in a.victims : Overlap(p, Deleting([a EXCEPT !.victims = @ \ {i}]))
    BY <1>7 DEF DeleteInstance
  <2>2. a.victims \ {i} \in SUBSET Instances
    BY <1>3
  <2>3. \A vs \in SUBSET Instances :
          [a EXCEPT !.victims = vs] \in Handler /\ Kept(a, [a EXCEPT !.victims = vs])
    BY <1>1, VictimsSet
  <2>4. QED
    BY <1>4, <2>1, <2>2, <2>3
<1>8. CASE DeleteRow(p) /\ ~GivesUp(p)
  <2>1. PICK id \in a.ids : Overlap(p, Deleting([a EXCEPT !.ids = @ \ {id}]))
    BY <1>8 DEF DeleteRow
  <2>2. a.ids \ {id} \in SUBSET Ids
    BY <1>3
  <2>3. \A is \in SUBSET Ids : [a EXCEPT !.ids = is] \in Handler /\ Kept(a, [a EXCEPT !.ids = is])
    BY <1>1, IdsSet
  <2>4. QED
    BY <1>4, <2>1, <2>2, <2>3
<1>11. ASSUME NEW u \in Versions \cup {None}, NEW ps \in PathSets, Overlap(p, Removing(a, u, ps)),
              a.pc \in {"files", "removing"}
       PROVE  Stepped(p)
  <2> DEFINE b == Removing(a, u, ps)
  <2>0. a.op = "delete"
    BY <1>1, <1>2, <1>11 DEF Prepared
  <2>1. b \in Handler /\ Kept(a, b) /\ b.pc \in {"removing", "finish"}
    BY <1>1, <2>0, PathsSet
  <2>2. a.op = "delete" /\ a.task \in 1 .. Len(tasks)
    BY <1>1, <1>2 DEF Prepared
  <2> HIDE DEF b
  <2>3. Good(b, rows', tasks')
    BY <1>1, <1>2, <2>1, <2>2 DEF Good, Prepared, StillSo, Ended, Kept, TaskPcs
  <2>4. Tasks' /\ TasksGrow /\ Len(tasks') = Len(tasks)
    BY <1>2, SameTasks DEF Tasks
  <2>5. Keeps(p, b)
    BY <2>1, <2>4, KeepsOn DEF HeldPcs, TaskPcs, Kept
  <2>6. QED
    BY <1>11, <2>1, <2>3, <2>4, <2>5 DEF Stepped, Shape, b
<1>9. CASE RemoveDirectory(p) /\ ~\E v \in Versions : Clashes(p, v)
  <2>1. PICK v \in Versions : \/ Overlap(p, Removing(a, None, a.paths \ {<<v, "directory">>}))
                             \/ Overlap(p, Removing(a, v, a.paths))
    BY <1>9 DEF RemoveDirectory
  <2>2. a.paths \ {<<v, "directory">>} \in PathSets /\ a.paths \in PathSets
    BY <1>3 DEF PathSets
  <2>3. a.pc \in {"files", "removing"}
    BY <1>9 DEF RemoveDirectory
  <2>4. QED
    BY <1>11, <2>1, <2>2, <2>3
<1>12. CASE RemoveArchive(p)
  <2>1. PICK v \in Versions : Overlap(p, Removing(a, None, a.paths \ {<<v, "archive">>}))
    BY <1>12 DEF RemoveArchive
  <2>2. a.paths \ {<<v, "archive">>} \in PathSets /\ a.pc \in {"files", "removing"}
    BY <1>3, <1>12 DEF PathSets, RemoveArchive
  <2>3. QED
    BY <1>11, <2>1, <2>2
<1>10. QED
  BY <1>5, <1>6, <1>7, <1>8, <1>9, <1>12

\* An idle handler holds no task.
LEMMA IdleHolds == Idle.task = 0
BY DEF Idle

LEMMA EndStep ==
  ASSUME Tables, Tasks, Handlers, Knowing, NEW p \in Requests,
         Finish(p) \/ Fail(p) \/ Continue(p)
  PROVE  Stepped(p)
<1> DEFINE a == req[p]
<1>1. a \in Handler /\ Prepared(a, Len(tasks))
  BY DEF Handlers
<1>2. CASE Finish(p)
  <2>1. a.op \in TaskOps /\ a.task \in 1 .. Len(tasks) /\ a.pc = "finish"
    BY <1>1, <1>2 DEF Prepared, TaskPcs, Finish
  <2>2. /\ Tasks' /\ TasksGrow /\ Len(tasks') = Len(tasks) /\ tasks'[a.task] = "succeeded"
        /\ UNCHANGED rows
    BY <1>2, <2>1, TurnTyped DEF Finish, past
  <2>3. CASE a.then = <<>>
    <3>1. Quietly(p, Idle)
      BY <1>2, <2>3 DEF Finish
    <3>2. Keeps(p, Idle)
      BY <2>2, IdleHolds DEF Keeps, Tasks
    <3>3. QED
      BY <2>2, <3>1, <3>2, IdleTyped DEF Stepped, Shape, Good
  <2>4. CASE a.then # <<>>
    <3> DEFINE b == [a EXCEPT !.pc = "next"]
    <3>1. Quietly(p, b) /\ "next" \in Pcs
      BY <1>2, <2>4 DEF Finish, Pcs, TaskPcs
    <3>2. b \in Handler /\ b.pc = "next" /\ Kept(a, b) /\ b.seen = a.seen
      BY <1>1, <3>1, Moved
    <3>3. Good(b, rows', tasks')
      BY <1>1, <2>1, <2>2, <2>4, <3>2 DEF Good, Prepared, StillSo, Ended, Kept, TaskPcs
    <3>4. Keeps(p, b)
      BY <2>2 DEF Keeps, Tasks
    <3>5. QED
      BY <2>2, <3>1, <3>2, <3>3, <3>4 DEF Stepped, Shape
  <2>5. QED
    BY <2>3, <2>4
<1>3. CASE Fail(p)
  <2>1. a.task \in 1 .. Len(tasks)
    BY <1>1, <1>3 DEF Prepared, TaskPcs, Fail
  <2>2. /\ Tasks' /\ TasksGrow /\ Len(tasks') = Len(tasks) /\ tasks'[a.task] = "failed"
        /\ UNCHANGED rows /\ Quietly(p, Idle)
    BY <1>3, <2>1, TurnTyped DEF Fail, past
  <2>3. Keeps(p, Idle)
    BY <2>2, IdleHolds DEF Keeps, Tasks
  <2>4. QED
    BY <2>2, <2>3, IdleTyped DEF Stepped, Shape, Good
<1>4. CASE Continue(p)
  <2>0. a.pc \notin HeldPcs
    BY <1>4 DEF Continue, HeldPcs
  <2>1. CASE Queues(p)
    BY <2>0, <2>1, QueueEffect DEF Queues, Stepped
  <2>2. CASE Refused(p)
    BY <2>0, <2>2, EndsStep DEF Refused, past
  <2>3. QED
    BY <1>4, <2>1, <2>2, ContinueQueues
<1>5. QED
  BY <1>2, <1>3, <1>4

\* What cuts a handler short
LEMMA CutStep ==
  ASSUME Tables, Tasks, Handlers, Knowing, NEW p \in Requests, Break(p) \/ Drop(p)
  PROVE  Stepped(p)
<1> DEFINE a == req[p]
<1>1. a \in Handler /\ Prepared(a, Len(tasks))
  BY DEF Handlers
<1>2. CASE Break(p)
  <2>1. a.pc \in TaskPcs
    BY <1>1, <1>2 DEF Break, Prepared
  <2>2. QED
    BY <1>2, <2>1, GivesUpStep DEF Break
<1>3. CASE Drop(p)
  <2>1. a.task \in {0} \cup 1 .. Len(tasks)
    BY <1>1 DEF Prepared
  <2>2. UNCHANGED <<rows, tasks>> /\ Quietly(p, Idle)
        /\ lost' = IF a.task = 0 THEN lost ELSE lost \cup {a.task}
    BY <1>3 DEF Drop
  <2>3. lost' \subseteq 1 .. Len(tasks)
    BY <2>1, <2>2 DEF Tasks
  <2>4. Tasks' /\ TasksGrow /\ Len(tasks') = Len(tasks)
    BY <2>2, <2>3, SameTasks
  <2>5. Keeps(p, Idle)
    <3>1. a.pc \in HeldPcs => a.task \in lost'
      BY <1>1, <2>2 DEF HeldPcs, Prepared
    <3>2. QED
      BY <2>4, <3>1, IdleHolds DEF Keeps, Tasks
  <2>6. QED
    BY <2>2, <2>4, <2>5, IdleTyped DEF Stepped, Shape, Good
<1>4. QED
  BY <1>2, <1>3

LEMMA ArrivesIdle ==
  ASSUME NEW p \in Requests, Arrives(p)
  PROVE  req[p] = Idle /\ req[p].pc = "idle" /\ req[p].task = 0
BY DEF Arrives, Idle

\* A handler without a task begins by reading a row.
LEMMA Reads ==
  ASSUME NEW id \in Ids, NEW s \in Row
  PROVE  [Idle EXCEPT !.op = "reconcile", !.pc = "observe", !.id = id, !.seen = s] \in Handler
<1>1. /\ Idle \in Handler /\ "reconcile" \in Ops /\ "observe" \in Pcs
      /\ id \in Ids \cup {None} /\ s \in Row \cup {None}
  BY IdleTyped DEF Ops, Pcs, QuietPcs
<1>2. QED
  BY <1>1, ZenonT(40) DEF Handler

LEMMA Creates ==
  ASSUME NEW id \in Ids, NEW i \in Instances, NEW ws \in Workspaces
  PROVE  [Idle EXCEPT !.op = "instance", !.pc = "insert", !.id = id, !.inst = i, !.ws = ws]
           \in Handler
<1>1. /\ Idle \in Handler /\ "instance" \in Ops /\ "insert" \in Pcs
      /\ id \in Ids \cup {None} /\ i \in Instances \cup {None} /\ ws \in Workspaces \cup {None}
  BY IdleTyped DEF Ops, Pcs, QuietPcs
<1>2. QED
  BY <1>1, ZenonT(40) DEF Handler

LEMMA ReconcileStep ==
  ASSUME Tables, Tasks, Handlers, Knowing, NEW p \in Requests,
         AcceptReconcile(p) \/ See(p) \/ Settle(p)
  PROVE  Stepped(p)
<1>1. UNCHANGED <<tasks, lost>>
  BY DEF AcceptReconcile, See, Settle, past
<1>2. Tasks' /\ TasksGrow /\ Len(tasks') = Len(tasks)
  BY <1>1, SameTasks DEF Tasks
<1>9. req[p].pc \notin HeldPcs
  BY ArrivesIdle DEF AcceptReconcile, See, Settle, HeldPcs, TaskPcs
<1>3. CASE AcceptReconcile(p)
  <2>1. PICK id \in Installed :
          Quietly(p, [Idle EXCEPT !.op = "reconcile", !.pc = "observe", !.id = id,
                                  !.seen = rows[id]])
    BY <1>3 DEF AcceptReconcile
  <2>2. rows[id] \in Row /\ id \in Ids /\ UNCHANGED rows
    BY <1>3, <2>1 DEF Tables, Installed, AcceptReconcile
  <2> DEFINE b == [Idle EXCEPT !.op = "reconcile", !.pc = "observe", !.id = id,
                               !.seen = rows[id]]
  <2>3. b \in Handler
    BY <2>2, Reads
  <2>4. b.op = "reconcile" /\ b.pc = "observe" /\ b.id = id /\ b.seen = rows[id] /\ b.task = 0
        /\ b.then = <<>>
    BY DEF Idle
  <2>5. Good(b, rows', tasks')
    BY <2>2, <2>4 DEF Good, Prepared, StillSo, Ended, TaskPcs
  <2>6. Keeps(p, b)
    BY <1>9, <1>2, <2>4, KeepsOn
  <2>7. QED
    BY <1>2, <2>1, <2>2, <2>3, <2>5, <2>6 DEF Stepped, Shape
<1>4. CASE See(p)
  <2> DEFINE a == req[p]
  <2>1. a \in Handler /\ Prepared(a, Len(tasks)) /\ StillSo(a, rows) /\ a.pc = "observe"
        /\ UNCHANGED rows
    BY <1>4 DEF Handlers, Knowing, See
  <2>2. a.seen \in Row /\ a.id \in Ids /\ a.task = 0
    BY <2>1 DEF Prepared, TaskPcs
  <2>3. Observe(a.seen) \in Artifacts /\ Found(a.seen) \in Contents
    BY <2>2, ObserveTyped
  <2>4. CASE Quietly(p, Idle)
    BY <1>9, <1>1, <2>1, <2>4, EndsStep
  <2>5. CASE Quietly(p, [a EXCEPT !.pc = "settle", !.status = Observe(a.seen),
                                  !.print = Found(a.seen)])
    <3>1. PICK s \in Artifacts, c \in Contents :
            Quietly(p, [a EXCEPT !.pc = "settle", !.status = s, !.print = c])
      BY <2>3, <2>5
    <3> DEFINE b == [a EXCEPT !.pc = "settle", !.status = s, !.print = c]
    <3>2. "settle" \in Pcs
      BY DEF Pcs, QuietPcs
    <3>3. b \in Handler
      BY <2>1, <3>2, Compared
    <3>4. b.pc = "settle" /\ Kept(a, b) /\ b.seen = a.seen /\ b.print \in Contents
      BY <2>1 DEF Handler, Kept
    <3>5. Good(b, rows', tasks')
      BY <2>1, <2>2, <3>4 DEF Good, Prepared, StillSo, Ended, Kept, TaskPcs
    <3>6. b.task = a.task
      BY <3>4 DEF Kept
    <3>7. Keeps(p, b)
      BY <1>9, <1>2, <3>6, KeepsOn
    <3>8. QED
      BY <1>2, <2>1, <3>1, <3>3, <3>5, <3>7 DEF Stepped, Shape
  <2>6. QED
    BY <1>4, <2>4, <2>5 DEF See
<1>5. CASE Settle(p)
  <2>1. Overlap(p, Idle) \/ (Quietly(p, Idle) /\ UNCHANGED rows)
    BY <1>5 DEF Settle
  <2>2. QED
    BY <1>9, <1>1, <2>1, EndsStep
<1>6. QED
  BY <1>3, <1>4, <1>5

LEMMA InstanceStep ==
  ASSUME Tables, Tasks, Handlers, Knowing, NEW p \in Requests, AcceptInstance(p) \/ Insert(p)
  PROVE  Stepped(p)
<1>1. UNCHANGED <<rows, tasks, lost>>
  BY DEF AcceptInstance, Insert, past
<1>2. Tasks' /\ TasksGrow /\ Len(tasks') = Len(tasks)
  BY <1>1, SameTasks DEF Tasks
<1>9. req[p].pc \notin HeldPcs
  BY ArrivesIdle DEF AcceptInstance, Insert, HeldPcs, TaskPcs
<1>3. CASE AcceptInstance(p)
  <2>1. PICK i \in Instances, id \in Installed :
          Quietly(p, [Idle EXCEPT !.op = "instance", !.pc = "insert", !.id = id, !.inst = i,
                                  !.ws = Owner[i]])
    BY <1>3 DEF AcceptInstance
  <2>2. id \in Ids /\ Owner[i] \in Workspaces
    BY DEF Installed
  <2> DEFINE b == [Idle EXCEPT !.op = "instance", !.pc = "insert", !.id = id, !.inst = i,
                               !.ws = Owner[i]]
  <2>3. b \in Handler
    BY <2>2, Creates
  <2>4. b.op = "instance" /\ b.pc = "insert" /\ b.task = 0 /\ b.then = <<>>
    BY DEF Idle
  <2>5. Good(b, rows', tasks')
    BY <2>4 DEF Good, Prepared, StillSo, Ended, TaskPcs
  <2>6. Keeps(p, b)
    BY <1>9, <1>2, <2>4, KeepsOn
  <2>7. QED
    BY <1>1, <1>2, <2>1, <2>3, <2>5, <2>6 DEF Stepped, Shape
<1>4. CASE Insert(p)
  BY <1>9, <1>1, <1>4, EndsStep DEF Insert
<1>5. QED
  BY <1>3, <1>4

\* Every step of a handler
LEMMA HandlerStep ==
  ASSUME Tables, Tasks, Handlers, Knowing, NEW p \in Requests,
         Accepts(p) \/ Works(p) \/ Break(p) \/ Drop(p)
  PROVE  Stepped(p)
<1>1. CASE AcceptsTask(p)
  <2>1. PICK r \in Handler : Ready(r) /\ Queue(p, r) /\ (r.op = "enable" => r.seen = rows[r.id])
    BY <1>1, AcceptQueues DEF Queues
  <2>2. req[p].pc \notin HeldPcs
    BY <1>1, AcceptQueues, ArrivesIdle DEF HeldPcs, TaskPcs
  <2>3. QED
    BY <2>1, <2>2, QueueEffect DEF Stepped
<1>2. CASE ~AcceptsTask(p)
  BY <1>2, StartStep, InstallStep, EnableStep, SwitchStep, DeleteStep, EndStep, CutStep,
     ReconcileStep, InstanceStep DEF Accepts, AcceptsTask, Works
<1>3. QED
  BY <1>1, <1>2

-----------------------------------------------------------------------------
\* What a step writes

WritesRows(p) == Record(p) \/ Request(p) \/ Loaded(p) \/ DeleteRow(p) \/ Settle(p)
WritesLinks(p) == Migrate(p) \/ Point(p) \/ DeleteInstance(p) \/ DeleteRow(p) \/ Insert(p)
WritesDisk(p) == \/ Archive(p) \/ Clear(p) \/ Make(p) \/ Copy(p)
                 \/ RemoveDirectory(p) \/ RemoveArchive(p) \/ Break(p)

\* A handler's step
Handles(p) == Accepts(p) \/ Works(p) \/ Break(p) \/ Drop(p)

LEMMA Leaves ==
  ASSUME Tables, Handlers, NEW p \in Requests, Handles(p)
  PROVE  /\ WritesRows(p) \/ UNCHANGED <<rows, issued, mixed>>
         /\ WritesLinks(p) \/ UNCHANGED links
         /\ WritesDisk(p) \/ UNCHANGED disk
         /\ UNCHANGED faults \/ (faults < MaxFaults /\ faults' = faults + 1)
<1> USE DEF past
<1>1. CASE AcceptsTask(p)
  BY <1>1, AcceptQueues DEF Queues, Queue
<1>2. CASE AcceptReconcile(p) \/ AcceptInstance(p)
  BY <1>2 DEF AcceptReconcile, AcceptInstance, links
<1>3. CASE Start(p)
  BY <1>3 DEF Start
<1>4. CASE Archive(p) \/ Clear(p) \/ Make(p)
  BY <1>4 DEF Archive, Clear, Make, Clashes, WritesDisk
<1>5. CASE Copy(p) \/ Fingerprint(p)
  BY <1>5 DEF Copy, Fingerprint, GivesUp, WritesDisk
<1>6. CASE Record(p) \/ Request(p) \/ Loaded(p) \/ Settle(p)
  BY <1>6 DEF Record, Request, Loaded, Settle, GivesUp, WritesRows
<1>7. CASE Load(p) \/ ListInstances(p) \/ See(p)
  BY <1>7 DEF Load, ListInstances, See
<1>8. CASE Migrate(p) \/ Point(p) \/ DeleteInstance(p) \/ Insert(p)
  BY <1>8 DEF Migrate, Point, DeleteInstance, Insert, GivesUp, WritesLinks
<1>9. CASE DeleteRow(p)
  BY <1>9 DEF DeleteRow, GivesUp, WritesLinks, WritesRows
<1>10. CASE RemoveDirectory(p) \/ RemoveArchive(p)
  BY <1>10 DEF RemoveDirectory, RemoveArchive, Clashes, WritesDisk
<1>11. CASE Finish(p) \/ Fail(p) \/ Break(p) \/ Drop(p)
  BY <1>11 DEF Finish, Fail, Break, Drop, WritesDisk
<1>12. CASE Continue(p)
  <2>1. CASE Queues(p)
    BY <2>1 DEF Queues, Queue
  <2>2. CASE Refused(p)
    BY <2>2 DEF Refused
  <2>3. QED
    BY <1>12, <2>1, <2>2, ContinueQueues
<1>13. QED
  BY <1>1, <1>2, <1>3, <1>4, <1>5, <1>6, <1>7, <1>8, <1>9, <1>10, <1>11, <1>12
     DEF Handles, Accepts, AcceptsTask, Works

\* A row is rewritten under its id and version, or is the first of its version and
\* takes a new id; what its availability is worth is noted.
Rewrites(id, r) ==
  /\ \/ id \in Installed /\ r.version = rows[id].version /\ issued' = issued
     \/ /\ id = issued + 1 /\ issued' = id
        /\ \A o \in Installed : rows[o].version # r.version
  /\ rows' = [rows EXCEPT ![id] = r]
  /\ \/ mixed' = mixed \cup {id}
     \/ mixed' = mixed \ {id} /\ r.availability = Derived(r)

\* A row that no instance refers to goes, and the pointers to it.
Deletes(id) ==
  /\ rows' = [rows EXCEPT ![id] = None] /\ mixed' = mixed \ {id} /\ UNCHANGED <<issued, home>>
  /\ \A i \in Instances : home[i] # id
  /\ pointer' = [ws \in Workspaces |-> IF pointer[ws] = id THEN None ELSE pointer[ws]]

RowsStep ==
  \/ UNCHANGED <<rows, issued, mixed>>
  \/ UNCHANGED links /\ \E id \in Ids, r \in Row : Rewrites(id, r)
  \/ \E id \in Ids : Deletes(id)

LEMMA WriteRewrites ==
  ASSUME Tables, Handlers, Knowing, NEW p \in Requests, UNCHANGED issued,
         NEW id \in Installed, NEW r \in Row, Write(p, id, r), r.version = rows[id].version,
         req[p].clean => r.availability = Derived(r)
  PROVE  Rewrites(id, r)
<1>1. req[p].clean \in BOOLEAN
  BY DEF Handlers, Handler
<1>2. QED
  BY <1>1 DEF Write, Rewrites

LEMMA HandlerRows ==
  ASSUME Tables, Handlers, Knowing, NEW p \in Requests, WritesRows(p)
  PROVE  RowsStep
<1> DEFINE a == req[p]
<1>1. a \in Handler /\ Prepared(a, Len(tasks)) /\ StillSo(a, rows)
  BY DEF Handlers, Knowing
<1>2. CASE GivesUp(p)
  BY <1>2 DEF GivesUp, RowsStep
<1>3. \A id \in Installed : id \in Ids /\ rows[id] \in Row
  BY DEF Tables, Installed
<1>4. CASE Record(p)
  <2>1. a.version \in Versions /\ a.print \in Contents /\ a.content \in Contents
    BY <1>1, <1>4 DEF Prepared, Record
  <2>2. /\ NewRow(a) \in Row /\ NewRow(a).version = a.version
        /\ NewRow(a).availability = Derived(NewRow(a))
    BY <1>1, <2>1, NewRowTyped
  <2>3. UNCHANGED links
    BY <1>4 DEF Record
  <2>4. CASE Conflicting(a.version) = {}
    <3>1. /\ issued + 1 <= MaxIds /\ issued' = issued + 1
          /\ Write(p, issued + 1, NewRow(a))
      BY <1>4, <2>4 DEF Record
    <3>2. issued + 1 \in Ids
      BY <3>1 DEF Tables, Ids
    <3>3. \A o \in Installed : rows[o].version # NewRow(a).version
      BY <2>2, <2>4 DEF Conflicting
    <3>4. Rewrites(issued + 1, NewRow(a))
      BY <2>2, <3>1, <3>3 DEF Rewrites, Write
    <3>5. QED
      BY <2>2, <2>3, <3>2, <3>4 DEF RowsStep
  <2>5. CASE Conflicting(a.version) # {}
    <3>1. PICK id \in Conflicting(a.version) :
            issued' = issued /\ Write(p, id, NewRow(a))
      BY <1>4, <2>5 DEF Record
    <3>2. id \in Installed /\ rows[id].version = a.version
      BY <3>1 DEF Conflicting
    <3>3. Rewrites(id, NewRow(a))
      BY <2>2, <3>1, <3>2, WriteRewrites
    <3>4. QED
      BY <1>3, <2>2, <2>3, <3>2, <3>3 DEF RowsStep
  <2>6. QED
    BY <2>4, <2>5
<1>5. CASE Request(p) /\ ~GivesUp(p)
  <2> DEFINE r == [rows[a.id] EXCEPT !.desired = "active_requested",
                     !.availability = Derive("active_requested", a.seen.artifact, a.seen.runtime)]
  <2>1. a.id \in Installed /\ Write(p, a.id, r) /\ UNCHANGED <<issued, links>>
        /\ a.pc = "request"
    BY <1>5 DEF Request
  <2>2. a.seen \in Row /\ a.op = "enable"
    BY <1>1, <2>1 DEF Prepared
  <2>3. r \in Row /\ r.version = rows[a.id].version
        /\ (rows[a.id] = a.seen => r.availability = Derived(r))
    <3>1. rows[a.id] \in Row
      BY <1>3, <2>1
    <3> HIDE DEF a
    <3>2. QED
      BY <2>2, <3>1, RequestedTyped
  <2>4. a.clean => rows[a.id] = a.seen
    BY <1>1, <2>1, <2>2 DEF StillSo
  <2>5. Rewrites(a.id, r)
    BY <2>1, <2>3, <2>4, WriteRewrites
  <2>6. QED
    BY <1>3, <2>1, <2>3, <2>5 DEF RowsStep
<1>6. CASE Loaded(p) /\ ~GivesUp(p)
  <2> DEFINE r == Snapshot(a.id, a.seen, a.pc)
  <2>1. a.id \in Installed /\ Write(p, a.id, r) /\ UNCHANGED <<issued, links>>
        /\ a.pc \in {"active", "load_failed"}
    BY <1>6 DEF Loaded
  <2>2. a.seen \in Row /\ a.op = "enable"
    BY <1>1, <2>1 DEF Prepared
  <2>3. r \in Row /\ r.version = rows[a.id].version
        /\ (rows[a.id] = a.seen => r.availability = Derived(r))
    BY <1>3, <2>1, <2>2, SnapshotTyped
  <2>4. a.clean => rows[a.id] = a.seen
    BY <1>1, <2>1, <2>2 DEF StillSo
  <2>5. Rewrites(a.id, r)
    BY <2>1, <2>3, <2>4, WriteRewrites
  <2>6. QED
    BY <1>3, <2>1, <2>3, <2>5 DEF RowsStep
<1>7. CASE Settle(p)
  <2>1. CASE UNCHANGED <<rows, mixed, issued>>
    BY <2>1 DEF RowsStep
  <2>2. CASE ~UNCHANGED <<rows, mixed, issued>>
    <3> DEFINE s == Settled(a.seen, a.status, a.print)
               r == [rows[a.id] EXCEPT !.artifact = s.artifact, !.manifest = s.manifest,
                       !.availability = s.availability, !.archive = s.archive]
    <3>1. a.id \in Installed /\ Write(p, a.id, r) /\ UNCHANGED <<issued, links>>
          /\ a.pc = "settle"
      BY <1>7, <2>2 DEF Settle
    <3>2. a.seen \in Row /\ a.print \in Contents /\ a.status \in Artifacts
      BY <1>1, <3>1 DEF Prepared, Handler
    <3>3. r \in Row /\ r.version = rows[a.id].version
          /\ (rows[a.id] = a.seen => r.availability = Derived(r))
      <4>1. rows[a.id] \in Row
        BY <1>3, <3>1
      <4>2. r = SettledInto(rows[a.id], a.seen, a.status, a.print)
        BY DEF SettledInto
      <4> HIDE DEF a, r
      <4>3. QED
        BY <3>2, <4>1, <4>2, SettleTyped
    <3>4. a.clean => rows[a.id] = a.seen
      BY <1>1, <3>1 DEF StillSo
    <3>5. Rewrites(a.id, r)
      BY <3>1, <3>3, <3>4, WriteRewrites
    <3>6. QED
      BY <1>3, <3>1, <3>3, <3>5 DEF RowsStep
  <2>3. QED
    BY <2>1, <2>2
<1>8. CASE DeleteRow(p) /\ ~GivesUp(p)
  <2>1. PICK id \in a.ids :
          /\ Deletable(id) /\ rows' = [rows EXCEPT ![id] = None]
          /\ pointer' = [ws \in Workspaces |-> IF pointer[ws] = id THEN None ELSE pointer[ws]]
          /\ mixed' = mixed \ {id} /\ UNCHANGED <<issued, home>>
    BY <1>8 DEF DeleteRow
  <2>2. id \in Ids
    BY <1>1 DEF Handler
  <2>3. QED
    BY <2>1, <2>2 DEF RowsStep, Deletes, Deletable
<1>9. QED
  BY <1>2, <1>4, <1>5, <1>6, <1>7, <1>8 DEF WritesRows

\* What startup makes of a row
LEMMA StartupRows ==
  ASSUME Tables, Booting, Startups
  PROVE  /\ RowsStep /\ UNCHANGED <<disk, links, tasks, req, past>>
         /\ Installed' = Installed
<1>1. \A id \in Installed : id \in Ids /\ rows[id] \in Row
  BY DEF Tables, Installed
<1>2. ASSUME NEW id \in Installed, NEW r \in Row, Startup(id, r),
             r.version = rows[id].version, r.availability = Derived(r)
      PROVE  RowsStep /\ Installed' = Installed /\ UNCHANGED <<disk, links, tasks, req, past>>
  <2>1. Rewrites(id, r)
    BY <1>2 DEF Startup, Rewrites
  <2>2. Installed' = Installed
    BY <1>1, <1>2, RowAssumption DEF Startup, Installed, Tables
  <2>3. QED
    BY <1>1, <1>2, <2>1, <2>2 DEF Startup, RowsStep
<1>3. ASSUME NEW id \in Installed,
             Startup(id, Settled(rows[id], Observe(rows[id]), Found(rows[id])))
      PROVE  RowsStep /\ Installed' = Installed /\ UNCHANGED <<disk, links, tasks, req, past>>
  <2> DEFINE r == Settled(rows[id], Observe(rows[id]), Found(rows[id]))
  <2>1. Observe(rows[id]) \in Artifacts /\ Found(rows[id]) \in Contents
    BY <1>1, ObserveTyped
  <2>2. r \in Row /\ r.version = rows[id].version /\ r.availability = Derived(r)
    BY <1>1, <2>1, SettledTyped DEF Derived
  <2>3. QED
    BY <1>2, <1>3, <2>2
<1>4. CASE BootReconcile
  BY <1>3, <1>4 DEF BootReconcile, Booting
<1>5. CASE HostReconcile
  BY <1>3, <1>5 DEF HostReconcile, Booting
<1>6. CASE BootHosts \/ Serve
  BY <1>6 DEF BootHosts, Serve, RowsStep, Installed
<1>7. CASE HostRequest
  <2> DEFINE r == [rows[host] EXCEPT !.desired = "active_requested",
                     !.availability = Derive("active_requested", rows[host].artifact,
                                             rows[host].runtime)]
  <2>1. host \in Installed /\ Startup(host, r)
    BY <1>7 DEF HostRequest, Booting
  <2>2. r \in Row /\ r.version = rows[host].version /\ r.availability = Derived(r)
    BY <1>1, <2>1, RequestedTyped
  <2>3. QED
    BY <1>2, <2>1, <2>2
<1>8. CASE HostValidate
  <2>1. PICK status \in {"active", "load_failed"} :
          Startup(host, Snapshot(host, rows[host], status))
    BY <1>8 DEF HostValidate
  <2>2. host \in Installed
    BY <1>8 DEF HostValidate, Booting
  <2> DEFINE r == Snapshot(host, rows[host], status)
  <2>3. r \in Row /\ r.version = rows[host].version /\ r.availability = Derived(r)
    BY <1>1, <2>2, SnapshotTyped
  <2>4. QED
    BY <1>2, <2>1, <2>2, <2>3
<1>9. QED
  BY <1>4, <1>5, <1>6, <1>7, <1>8 DEF Startups

LEMMA InstalledStep ==
  ASSUME Tables, RowsStep
  PROVE  /\ rows' \in [Ids -> Row \cup {None}] /\ issued' \in 0 .. MaxIds
         /\ Installed' \subseteq 1 .. issued' /\ mixed' \subseteq Ids
         /\ UNCHANGED <<rows, issued, mixed>> => Installed' = Installed
         /\ \A id \in Ids, r \in Row : Rewrites(id, r) => Installed' = Installed \cup {id}
         /\ \A id \in Ids : Deletes(id) => Installed' = Installed \ {id}
<1> USE DEF Tables
<1>1. UNCHANGED <<rows, issued, mixed>> => Installed' = Installed
  BY DEF Installed
<1>2. ASSUME NEW id \in Ids, NEW r \in Row, Rewrites(id, r)
      PROVE  /\ rows' \in [Ids -> Row \cup {None}] /\ issued' \in 0 .. MaxIds
             /\ Installed' = Installed \cup {id} /\ id \in 1 .. issued' /\ issued <= issued'
             /\ mixed' \subseteq Ids
  <2>1. rows' = [rows EXCEPT ![id] = r] /\ r # None
    BY <1>2, RowAssumption DEF Rewrites
  <2>2. Installed' = Installed \cup {id} /\ rows' \in [Ids -> Row \cup {None}]
    BY <2>1 DEF Installed
  <2>3. issued' \in 0 .. MaxIds /\ id \in 1 .. issued' /\ issued <= issued'
    BY <1>2 DEF Rewrites, Ids
  <2>4. mixed' \subseteq Ids
    BY <1>2 DEF Rewrites
  <2>5. QED
    BY <2>2, <2>3, <2>4
<1>3. ASSUME NEW id \in Ids, Deletes(id)
      PROVE  /\ rows' \in [Ids -> Row \cup {None}] /\ issued' = issued
             /\ Installed' = Installed \ {id} /\ mixed' \subseteq Ids
  BY <1>3 DEF Deletes, Installed
<1>4. CASE UNCHANGED <<rows, issued, mixed>>
  <2>1. rows' \in [Ids -> Row \cup {None}] /\ issued' \in 0 .. MaxIds /\ mixed' \subseteq Ids
        /\ Installed' \subseteq 1 .. issued'
    BY <1>1, <1>4
  <2>2. QED
    BY <1>1, <1>2, <1>3, <2>1
<1>5. CASE \E id \in Ids, r \in Row : Rewrites(id, r)
  <2>1. PICK id \in Ids, r \in Row : Rewrites(id, r)
    BY <1>5
  <2>2. Installed' = Installed \cup {id} /\ id \in 1 .. issued' /\ issued <= issued'
        /\ rows' \in [Ids -> Row \cup {None}] /\ issued' \in 0 .. MaxIds /\ mixed' \subseteq Ids
    BY <1>2, <2>1
  <2>3. Installed' \subseteq 1 .. issued'
    BY <2>2
  <2>4. QED
    BY <1>1, <1>2, <1>3, <2>2, <2>3
<1>6. CASE \E id \in Ids : Deletes(id)
  <2>1. PICK id \in Ids : Deletes(id)
    BY <1>6
  <2>2. /\ rows' \in [Ids -> Row \cup {None}] /\ issued' \in 0 .. MaxIds /\ mixed' \subseteq Ids
        /\ Installed' \subseteq 1 .. issued'
    BY <1>3, <2>1
  <2>3. QED
    BY <1>1, <1>2, <1>3, <2>2
<1>7. QED
  BY <1>4, <1>5, <1>6 DEF RowsStep

\* The pointers and the instances move to installations that are there.
LinksStep ==
  \/ UNCHANGED links
  \/ /\ UNCHANGED rows
     /\ pointer' \in [Workspaces -> Ids \cup {None}] /\ home' \in [Instances -> Ids \cup {None}]
     /\ \A ws \in Workspaces : pointer'[ws] \in {pointer[ws]} \cup Installed
     /\ \A i \in Instances : home'[i] \in {home[i], None} \cup Installed
  \/ \E id \in Ids : Deletes(id)

LEMMA HandlerLinks ==
  ASSUME Tables, Handlers, NEW p \in Requests, WritesLinks(p)
  PROVE  LinksStep
<1> DEFINE a == req[p]
<1>1. a \in Handler
  BY DEF Handlers
<1>2. CASE GivesUp(p)
  BY <1>2 DEF GivesUp, LinksStep
<1>3. Installed \subseteq Ids
  BY DEF Installed
<1>4. CASE Migrate(p) /\ ~GivesUp(p)
  <2>1. /\ Of(a.ws) # {} => a.id \in Installed
        /\ home' = [i \in Instances |-> IF i \in Of(a.ws) THEN a.id ELSE home[i]]
        /\ UNCHANGED <<rows, pointer>>
    BY <1>4 DEF Migrate
  <2>2. \A i \in Instances : home'[i] \in {home[i], None} \cup Installed
    BY <2>1
  <2>3. home' \in [Instances -> Ids \cup {None}]
    BY <1>3, <2>1 DEF Tables
  <2>4. QED
    BY <2>1, <2>2, <2>3 DEF LinksStep, Tables
<1>5. CASE Point(p) /\ ~GivesUp(p)
  <2>1. a.id \in Installed /\ pointer' = [pointer EXCEPT ![a.ws] = a.id]
        /\ UNCHANGED <<rows, home>>
    BY <1>5 DEF Point, Assigned
  <2>2. QED
    BY <1>3, <2>1 DEF LinksStep, Tables
<1>6. CASE DeleteInstance(p) /\ ~GivesUp(p)
  <2>1. PICK i \in a.victims : home' = [home EXCEPT ![i] = None] /\ UNCHANGED <<rows, pointer>>
    BY <1>6 DEF DeleteInstance
  <2>2. QED
    BY <2>1 DEF LinksStep, Tables
<1>7. CASE Insert(p)
  BY <1>3, <1>7 DEF Insert, LinksStep, Tables
<1>8. CASE DeleteRow(p) /\ ~GivesUp(p)
  <2>1. PICK id \in a.ids :
          /\ Deletable(id) /\ rows' = [rows EXCEPT ![id] = None]
          /\ pointer' = [ws \in Workspaces |-> IF pointer[ws] = id THEN None ELSE pointer[ws]]
          /\ mixed' = mixed \ {id} /\ UNCHANGED <<issued, home>>
    BY <1>8 DEF DeleteRow
  <2>2. id \in Ids
    BY <1>1 DEF Handler
  <2>3. QED
    BY <2>1, <2>2 DEF LinksStep, Deletes, Deletable
<1>9. QED
  BY <1>2, <1>4, <1>5, <1>6, <1>7, <1>8 DEF WritesLinks

\* The shapes of the disk
DiskTyped ==
  /\ dir \in [Versions -> [Files -> Contents \cup {None}] \cup {None}]
  /\ pkg \in [Versions -> Contents \cup {None}] /\ torn \subseteq Versions

LEMMA FileChanged ==
  ASSUME Tables, NEW v \in Versions, dir[v] # None, NEW f \in Files,
         NEW c \in Contents \cup {None}
  PROVE  /\ [dir EXCEPT ![v][f] = c] \in [Versions -> [Files -> Contents \cup {None}] \cup {None}]
         /\ [dir EXCEPT ![v][f] = c][v] # None
         /\ \A g \in Files : [dir EXCEPT ![v][f] = c][v][g] = IF g = f THEN c ELSE dir[v][g]
         /\ \A w \in Versions : w # v => [dir EXCEPT ![v][f] = c][w] = dir[w]
<1> DEFINE d == [dir[v] EXCEPT ![f] = c]  e == [dir EXCEPT ![v] = d]
<1>1. dir[v] \in [Files -> Contents \cup {None}]
  BY ReadableMeans
<1>2. d \in [Files -> Contents \cup {None}] /\ \A g \in Files : d[g] = IF g = f THEN c ELSE dir[v][g]
  BY <1>1
<1>3. d # None
  BY <1>2, PluginAssumption
<1>4. [dir EXCEPT ![v][f] = c] = e
  OBVIOUS
<1> HIDE DEF d
<1>5. e \in [Versions -> [Files -> Contents \cup {None}] \cup {None}] /\ e[v] = d
      /\ \A w \in Versions : w # v => e[w] = dir[w]
  BY <1>2 DEF Tables
<1>6. QED
  BY <1>2, <1>3, <1>4, <1>5

\* A directory that goes, or comes back empty
LEMMA DirectoryChanged ==
  ASSUME Tables, NEW v \in Versions, NEW d \in {Empty, None}
  PROVE  /\ [dir EXCEPT ![v] = d] \in [Versions -> [Files -> Contents \cup {None}] \cup {None}]
         /\ [dir EXCEPT ![v] = d][v] = d
         /\ \A w \in Versions : w # v => [dir EXCEPT ![v] = d][w] = dir[w]
BY DEF Tables, Empty, Package

LEMMA EmptiedTyped ==
  ASSUME Tables, NEW v \in Versions, Emptied(v, dir')
  PROVE  /\ dir' \in [Versions -> [Files -> Contents \cup {None}] \cup {None}]
         /\ \A w \in Versions : w # v => dir'[w] = dir[w]
<1>1. CASE \E f \in Present(v) : dir' = [dir EXCEPT ![v][f] = None]
  BY <1>1, FileChanged DEF Present
<1>2. CASE dir' = [dir EXCEPT ![v] = None]
  BY <1>2, DirectoryChanged
<1>3. QED
  BY <1>1, <1>2 DEF Emptied

LEMMA HandlerDisk ==
  ASSUME Tables, Handlers, NEW p \in Requests, WritesDisk(p)
  PROVE  DiskTyped'
<1> DEFINE a == req[p]
<1>1. a \in Handler /\ Prepared(a, Len(tasks))
  BY DEF Handlers
<1>2. a.pc \in {"archive", "clear", "make", "copy"} =>
        a.version \in Versions /\ a.content \in Contents
  BY <1>1 DEF Prepared
<1>3. CASE Archive(p)
  <2>1. /\ UNCHANGED <<dir, torn>> /\ pkg' \in {pkg, [pkg EXCEPT ![a.version] = a.content]}
        /\ a.pc = "archive"
    BY <1>3 DEF Archive
  <2>2. QED
    BY <1>2, <2>1 DEF Tables, DiskTyped
<1>4. ASSUME UNCHANGED <<dir, pkg>>, Leave({p})
      PROVE  DiskTyped'
  BY <1>4 DEF Tables, DiskTyped, Leave
<1>5. CASE Clear(p)
  <2>1. CASE Clashes(p, a.version)
    BY <1>4, <2>1 DEF Clashes
  <2>2. CASE ~Clashes(p, a.version)
    <3>1. Emptied(a.version, dir') /\ UNCHANGED <<pkg, torn>> /\ a.pc = "clear"
      BY <1>5, <2>2 DEF Clear
    <3>2. QED
      BY <1>2, <3>1, EmptiedTyped DEF Tables, DiskTyped
  <2>3. QED
    BY <2>1, <2>2
<1>6. CASE Make(p)
  <2>1. /\ dir' = dir \/ dir' = [dir EXCEPT ![a.version] = Empty]
        /\ torn' \subseteq torn /\ UNCHANGED pkg /\ a.pc = "make"
    BY <1>6 DEF Make
  <2>2. QED
    BY <1>2, <2>1, DirectoryChanged DEF Tables, DiskTyped
<1>7. CASE Copy(p)
  <2>1. CASE GivesUp(p)
    BY <2>1 DEF GivesUp, disk, Tables, DiskTyped
  <2>2. CASE ~GivesUp(p)
    <3>1. PICK f \in a.left : dir' = [dir EXCEPT ![a.version][f] = a.content]
      BY <1>7, <2>2 DEF Copy
    <3>2. dir[a.version] # None /\ UNCHANGED <<pkg, torn>> /\ a.pc = "copy" /\ f \in Files
      BY <1>1, <1>7, <2>2 DEF Copy, Handler
    <3>3. QED
      BY <1>2, <3>1, <3>2, FileChanged DEF Tables, DiskTyped
  <2>3. QED
    BY <2>1, <2>2
<1>8. CASE RemoveDirectory(p)
  <2>1. CASE \E v \in Versions : Clashes(p, v)
    BY <1>4, <2>1 DEF Clashes
  <2>2. CASE ~\E v \in Versions : Clashes(p, v)
    <3>1. PICK v \in Versions : Emptied(v, dir') /\ torn' \subseteq torn /\ UNCHANGED pkg
      BY <1>8, <2>2 DEF RemoveDirectory
    <3>2. QED
      BY <3>1, EmptiedTyped DEF Tables, DiskTyped
  <2>3. QED
    BY <2>1, <2>2
<1>9. CASE RemoveArchive(p)
  <2>1. PICK v \in Versions : pkg' = [pkg EXCEPT ![v] = None] /\ UNCHANGED <<dir, torn>>
    BY <1>9 DEF RemoveArchive
  <2>2. QED
    BY <2>1 DEF Tables, DiskTyped
<1>10. CASE Break(p)
  BY <1>4, <1>10 DEF Break
<1>11. QED
  BY <1>3, <1>5, <1>6, <1>7, <1>8, <1>9, <1>10 DEF WritesDisk

\* Handlers take steps only when the server serves.
LEMMA HandlerServes ==
  ASSUME Tables, Handlers, Booting, NEW p \in Requests, Handles(p)
  PROVE  phase' = "serving" /\ todo' = {} /\ UNCHANGED host
<1>1. CASE Arrives(p)
  BY <1>1 DEF Arrives, Booting
<1>2. CASE ~Arrives(p)
  <2>1. UNCHANGED boot /\ req[p].pc # "idle"
    <3>1. ~Accepts(p)
      BY <1>2, AcceptQueues DEF Accepts, AcceptsTask, AcceptReconcile, AcceptInstance
    <3>2. CASE \/ Start(p) \/ Archive(p) \/ Clear(p) \/ Make(p) \/ Copy(p)
               \/ Fingerprint(p) \/ Record(p)
      BY <3>2 DEF Start, Archive, Clear, Make, Copy, Fingerprint, Record, GivesUp, Clashes
    <3>3. CASE Request(p) \/ Load(p) \/ Loaded(p) \/ Migrate(p) \/ Point(p)
      BY <3>3 DEF Request, Load, Loaded, Migrate, Point, GivesUp
    <3>4. CASE \/ ListInstances(p) \/ DeleteInstance(p) \/ DeleteRow(p)
               \/ RemoveDirectory(p) \/ RemoveArchive(p)
      BY <3>4 DEF ListInstances, DeleteInstance, DeleteRow, RemoveDirectory, RemoveArchive,
                  GivesUp, Clashes
    <3>5. CASE Finish(p) \/ Continue(p) \/ Fail(p) \/ Break(p) \/ Drop(p)
      BY <3>5 DEF Finish, Continue, Fail, Break, Drop
    <3>6. CASE See(p) \/ Settle(p) \/ Insert(p)
      BY <3>6 DEF See, Settle, Insert
    <3>7. QED
      BY <3>1, <3>2, <3>3, <3>4, <3>5, <3>6 DEF Handles, Works
  <2>2. req[p] # Idle
    BY <2>1 DEF Idle
  <2>3. phase = "serving"
    BY <2>2 DEF Booting
  <2>4. QED
    BY <2>1, <2>3 DEF boot, Booting
<1>3. QED
  BY <1>1, <1>2

-----------------------------------------------------------------------------
\* The invariant of types and of what handlers know

Sound == Types /\ Knowing

LEMMA SoundHandler ==
  ASSUME Sound, NEW p \in Requests, Handles(p)
  PROVE  Sound' /\ RowsStep /\ LinksStep
<1> USE DEF Sound, Types
<1>1. Tasks' /\ Handlers' /\ Knowing'
  BY HandlerStep, HandlersKept DEF Handles, Stepped
<1>2. RowsStep /\ LinksStep
  BY Leaves, HandlerRows, HandlerLinks DEF RowsStep, LinksStep
<1>3. Tables'
  <2>1. /\ rows' \in [Ids -> Row \cup {None}] /\ issued' \in 0 .. MaxIds
        /\ Installed' \subseteq 1 .. issued' /\ mixed' \subseteq Ids
    BY <1>2, InstalledStep
  <2>2. /\ pointer' \in [Workspaces -> Ids \cup {None}]
        /\ home' \in [Instances -> Ids \cup {None}]
    BY <1>2 DEF LinksStep, Deletes, Tables, links
  <2>3. DiskTyped'
    BY Leaves, HandlerDisk DEF Tables, disk, DiskTyped
  <2>4. faults' \in 0 .. MaxFaults
    BY Leaves DEF Tables
  <2>5. QED
    BY <2>1, <2>2, <2>3, <2>4 DEF Tables, DiskTyped
<1>4. Booting'
  BY HandlerServes DEF Booting
<1>5. QED
  BY <1>1, <1>2, <1>3, <1>4

LEMMA SoundStartup ==
  ASSUME Sound, Startups
  PROVE  Sound' /\ RowsStep /\ LinksStep
<1> USE DEF Sound, Types
<1>1. RowsStep /\ UNCHANGED <<disk, links, tasks, req, past>> /\ Installed' = Installed
  BY StartupRows
<1>2. Tables'
  BY <1>1, InstalledStep DEF Tables, disk, links, past
<1>3. Tasks' /\ Handlers'
  BY <1>1 DEF Tasks, Handlers, past
<1>4. phase # "serving" /\ \A p \in Requests : req[p] = Idle
  BY DEF Startups, BootReconcile, BootHosts, HostReconcile, HostRequest, HostValidate, Serve,
         Booting
<1>5. Knowing'
  <2>1. \A p \in Requests : req'[p] = Idle
    BY <1>1, <1>4
  <2>2. QED
    BY <2>1, IdleTyped DEF Knowing
<1>6. Booting'
  <2>1. \A p \in Requests : req'[p] = Idle
    BY <1>1, <1>4
  <2>2. /\ phase' \in {"boot", "hosts", "request", "validate", "fresh", "serving"}
        /\ todo' \subseteq Installed /\ host' \in Ids \cup {None}
        /\ phase' \in {"request", "validate"} => host' \in Installed
        /\ phase' \in {"fresh", "serving"} => todo' = {}
    <3>1. CASE BootReconcile
      BY <3>1 DEF BootReconcile, Booting
    <3>2. CASE BootHosts
      BY <3>2 DEF BootHosts, Booting
    <3>3. CASE HostReconcile
      <4>1. PICK id \in todo :
              /\ todo' = todo \ {id} /\ phase = "hosts"
              /\ \/ phase' = "request" /\ host' = id
                 \/ UNCHANGED <<phase, host>>
        BY <3>3 DEF HostReconcile
      <4>2. QED
        BY <4>1 DEF Booting, Tables, Installed
    <3>4. CASE HostRequest
      BY <3>4 DEF HostRequest, Booting
    <3>5. CASE HostValidate
      BY <3>5 DEF HostValidate, Booting
    <3>6. CASE Serve
      BY <3>6 DEF Serve, Booting
    <3>7. QED
      BY <3>1, <3>2, <3>3, <3>4, <3>5, <3>6 DEF Startups
  <2>3. QED
    BY <1>1, <2>1, <2>2 DEF Booting
<1>7. QED
  BY <1>1, <1>2, <1>3, <1>5, <1>6 DEF LinksStep

LEMMA SoundFault ==
  ASSUME Sound, Tamper \/ Crash
  PROVE  /\ Sound' /\ UNCHANGED <<rows, issued, links, mixed, tasks>>
         /\ \/ Crash /\ \A p \in Requests : req'[p] = Idle
            \/ Tamper /\ \A p \in Requests : Alike(req[p], req'[p])
<1> USE DEF Sound, Types
<1>1. UNCHANGED <<rows, issued, links, mixed, tasks>> /\ Installed' = Installed
      /\ faults' \in 0 .. MaxFaults
  BY DEF Tamper, Crash, Tables, Installed
<1>2. CASE Tamper
  <2>1. /\ UNCHANGED <<pkg, boot, lost>> /\ phase = "serving"
        /\ req' = [q \in Requests |-> IF req[q] = Idle THEN Idle
                                      ELSE [req[q] EXCEPT !.clean = FALSE]]
    BY <1>2 DEF Tamper
  <2>2. DiskTyped'
    <3>1. PICK v \in Versions :
            /\ dir[v] # None
            /\ \/ \E f \in Files, c \in Contents \cup {None} : dir' = [dir EXCEPT ![v][f] = c]
               \/ dir' = [dir EXCEPT ![v] = None]
            /\ torn' \subseteq torn \cup {v}
      BY <1>2 DEF Tamper, Present
    <3>2. dir' \in [Versions -> [Files -> Contents \cup {None}] \cup {None}]
      BY <3>1, FileChanged, DirectoryChanged
    <3>3. QED
      BY <2>1, <3>1, <3>2 DEF DiskTyped, Tables
  <2>3. Tables' /\ Tasks' /\ Booting'
    BY <1>1, <2>1, <2>2 DEF Tables, Tasks, Booting, boot, links, DiskTyped
  <2>4. ASSUME NEW q \in Requests
        PROVE  /\ req'[q] \in Handler /\ Prepared(req'[q], Len(tasks'))
               /\ StillSo(req'[q], rows') /\ Ended(req'[q], tasks') /\ Alike(req[q], req'[q])
    <3>1. req[q] \in Handler /\ Prepared(req[q], Len(tasks)) /\ Ended(req[q], tasks)
      BY DEF Handlers, Knowing
    <3>2. CASE req[q] = Idle
      <4>1. req'[q] = Idle
        BY <2>1, <3>2
      <4>2. QED
        BY <3>2, <4>1, IdleTyped DEF Alike
    <3>3. CASE req[q] # Idle
      <4>1. req'[q] = [req[q] EXCEPT !.clean = FALSE]
        BY <2>1, <3>3
      <4>2. req'[q] \in Handler /\ ~req'[q].clean /\ Alike(req[q], req'[q])
        BY <3>1, <4>1, Touched
      <4>3. Len(tasks) \in Nat /\ Len(tasks') = Len(tasks)
        BY <1>1 DEF Tasks
      <4>4. Prepared(req'[q], Len(tasks'))
        BY <3>1, <4>2, <4>3, AlikePrepared
      <4>5. Ended(req'[q], tasks')
        BY <1>1, <3>1, <4>2 DEF Ended, Alike
      <4>6. QED
        BY <4>2, <4>4, <4>5 DEF StillSo
    <3>4. QED
      BY <3>2, <3>3
  <2>5. Handlers' /\ Knowing'
    BY <2>1, <2>4 DEF Handlers, Knowing
  <2>6. QED
    BY <1>1, <1>2, <2>3, <2>4, <2>5
<1>3. CASE Crash
  <2>1. /\ req' = [q \in Requests |-> Idle] /\ phase' = "boot" /\ todo' = Installed
        /\ host' = None /\ UNCHANGED <<dir, pkg>> /\ torn' \subseteq Versions
        /\ lost' = lost \cup {req[p].task : p \in {q \in Requests : req[q].task # 0}}
    BY <1>3 DEF Crash, Leave, Tables
  <2>2. \A p \in Requests : req[p].task \in {0} \cup 1 .. Len(tasks)
    BY DEF Handlers, Prepared
  <2>3. Tables'
    BY <1>1, <2>1 DEF Tables, disk, links
  <2>4. lost' \subseteq 1 .. Len(tasks)
    BY <2>1, <2>2 DEF Tasks
  <2>5. Tasks'
    BY <1>1, <2>4 DEF Tasks
  <2>6. Booting'
    BY <1>1, <2>1 DEF Booting
  <2>7. Handlers' /\ Knowing'
    BY <2>1, IdleTyped DEF Handlers, Knowing
  <2>8. QED
    BY <1>1, <1>3, <2>1, <2>3, <2>5, <2>6, <2>7
<1>4. QED
  BY <1>2, <1>3

LEMMA SoundNext ==
  ASSUME Sound, [Next]_vars
  PROVE  Sound' /\ RowsStep /\ LinksStep
<1>1. CASE UNCHANGED vars
  <2>1. UNCHANGED <<rows, issued, dir, pkg, torn, pointer, home, tasks, req, phase, todo, host,
                    mixed, lost, faults>>
    BY <1>1 DEF vars
  <2>2. Tables' /\ Tasks' /\ Handlers' /\ Booting' /\ Knowing'
    BY <2>1 DEF Sound, Types, Tables, Tasks, Handlers, Booting, Knowing, Installed
  <2>3. QED
    BY <2>1, <2>2 DEF Sound, Types, RowsStep, LinksStep, links
<1>2. CASE \E p \in Requests : Handles(p)
  BY <1>2, SoundHandler
<1>3. CASE Startups
  BY <1>3, SoundStartup
<1>4. CASE Tamper \/ Crash
  BY <1>4, SoundFault DEF RowsStep, LinksStep
<1>5. QED
  BY <1>1, <1>2, <1>3, <1>4 DEF Next, Handles

LEMMA FreshTyped ==
  ASSUME NEW v \in Versions, NEW c \in Contents, NEW e \in BOOLEAN, NEW a \in BOOLEAN
  PROVE  /\ Fresh(v, c, e, a) \in Row /\ Fresh(v, c, e, a).version = v
         /\ Fresh(v, c, e, a).availability = Derived(Fresh(v, c, e, a))
<1> DEFINE d == IF v \in HostVersions THEN "pending_restart"
                ELSE IF e THEN "active_requested" ELSE "disabled"
           s == IF e /\ v \notin HostVersions THEN "active" ELSE "inactive"
           y == IF v \in HostVersions THEN "pending_restart"
                ELSE IF e THEN "available" ELSE "disabled"
           k == IF a THEN c ELSE None
<1>1. d \in Desired /\ s \in Runtime /\ y \in Availability /\ k \in Contents \cup {None}
      /\ "ready" \in Artifacts
  BY DEF Desired, Runtime, Availability, Artifacts
<1>2. y = Derive(d, "ready", s)
  BY DEF Derive
<1>3. Fresh(v, c, e, a) = [version |-> v, desired |-> d, artifact |-> "ready", runtime |-> s,
                           availability |-> y, manifest |-> c, archive |-> k, origin |-> c]
  BY DEF Fresh
<1>4. Fresh(v, c, e, a) \in Row
  <2>1. \A x \in Desired, f \in Artifacts, g \in Runtime, h \in Availability,
           m \in Contents \cup {None} :
          [version |-> v, desired |-> x, artifact |-> f, runtime |-> g, availability |-> h,
           manifest |-> c, archive |-> m, origin |-> c] \in Row
    BY Zenon DEF Row
  <2>2. QED
    BY <1>1, <1>3, <2>1
<1>5. QED
  BY <1>2, <1>3, <1>4 DEF Derived

LEMMA InitSound ==
  ASSUME Init
  PROVE  /\ Sound /\ OneRowPerVersion /\ AvailabilityUnlessOverlapped
         /\ ReferencesExist /\ tasks = <<>> /\ phase = "serving"
<1>1. /\ issued \in 0 .. MaxIds /\ tasks = <<>> /\ phase = "serving" /\ todo = {} /\ host = None
      /\ torn = {} /\ mixed = {} /\ lost = {} /\ faults = 0 /\ req = [p \in Requests |-> Idle]
      /\ pointer \in [Workspaces -> {None} \cup {id \in Installed : rows[id].runtime = "active"}]
      /\ home \in [Instances -> Ids \cup {None}]
      /\ \A i \in Instances : home[i] \in {None, pointer[Owner[i]]}
  BY DEF Init
<1>2. PICK of \in [1 .. issued -> Versions], what \in [1 .. issued -> Contents],
           enabled \in [1 .. issued -> BOOLEAN], archived \in BOOLEAN :
        /\ \A id, o \in 1 .. issued : of[id] = of[o] => id = o
        /\ rows = [id \in Ids |-> IF id <= issued
                                  THEN Fresh(of[id], what[id], enabled[id], archived)
                                  ELSE None]
        /\ dir = [v \in Versions |->
                    IF \E id \in 1 .. issued : of[id] = v
                    THEN Package(what[CHOOSE id \in 1 .. issued : of[id] = v]) ELSE None]
        /\ pkg = [v \in Versions |->
                    IF \E id \in 1 .. issued : of[id] = v /\ archived
                    THEN what[CHOOSE id \in 1 .. issued : of[id] = v] ELSE None]
  BY DEF Init
<1>3. \A id \in 1 .. issued :
        LET r == Fresh(of[id], what[id], enabled[id], archived)
        IN  r \in Row /\ r.version = of[id] /\ r.availability = Derived(r)
  <2>1. \A id \in 1 .. issued :
          of[id] \in Versions /\ what[id] \in Contents /\ enabled[id] \in BOOLEAN
    OBVIOUS
  <2>2. QED
    BY <2>1, FreshTyped
<1>4. /\ \A id \in Ids : id <= issued => /\ rows[id] \in Row /\ rows[id].version = of[id]
                                         /\ rows[id].availability = Derived(rows[id])
      /\ \A id \in Ids : ~(id <= issued) => rows[id] = None
      /\ rows \in [Ids -> Row \cup {None}]
  <2>1. \A id \in Ids : id <= issued => id \in 1 .. issued
    BY <1>1 DEF Ids
  <2>2. \A id \in Ids : id <= issued => rows[id] = Fresh(of[id], what[id], enabled[id], archived)
    BY <1>2
  <2>3. \A id \in Ids : id <= issued => /\ rows[id] \in Row /\ rows[id].version = of[id]
                                        /\ rows[id].availability = Derived(rows[id])
    BY <1>3, <2>1, <2>2
  <2>4. \A id \in Ids : ~(id <= issued) => rows[id] = None
    BY <1>2
  <2>5. rows \in [Ids -> Row \cup {None}]
    <3>1. rows = [id \in Ids |-> rows[id]]
      BY <1>2
    <3>2. QED
      BY <2>3, <2>4, <3>1
  <2>6. QED
    BY <2>3, <2>4, <2>5
<1>5. Installed \subseteq 1 .. issued
  BY <1>1, <1>4 DEF Installed, Ids
<1>6. DiskTyped
  <2>1. \A v \in Versions : (\E id \in 1 .. issued : of[id] = v) =>
          what[CHOOSE id \in 1 .. issued : of[id] = v] \in Contents
    OBVIOUS
  <2>2. \A c \in Contents : Package(c) \in [Files -> Contents \cup {None}]
    BY DEF Package
  <2>3. dir \in [Versions -> [Files -> Contents \cup {None}] \cup {None}]
    <3>1. \A v \in Versions : (\E id \in 1 .. issued : of[id] = v) =>
            Package(what[CHOOSE id \in 1 .. issued : of[id] = v])
              \in [Files -> Contents \cup {None}]
      BY <2>1, <2>2
    <3>2. QED
      BY <1>2, <3>1, Zenon
  <2>4. pkg \in [Versions -> Contents \cup {None}]
    BY <1>2, <2>1
  <2>5. QED
    BY <1>1, <2>3, <2>4 DEF DiskTyped
<1>7. /\ pointer \in [Workspaces -> Ids \cup {None}]
      /\ \A ws \in Workspaces : pointer[ws] \in Installed \cup {None}
      /\ \A i \in Instances : home[i] \in Installed \cup {None}
  <2>1. Installed \subseteq Ids
    BY DEF Installed
  <2>2. QED
    BY <1>1, <2>1
<1>8. Tables
  BY <1>1, <1>4, <1>5, <1>6, <1>7 DEF Tables, DiskTyped
<1>9. Tasks /\ Handlers /\ Knowing
  <2>1. <<>> \in Seq({"queued", "running", "succeeded", "failed"}) /\ Len(<<>>) = 0
    OBVIOUS
  <2>2. Tasks
    BY <1>1, <2>1 DEF Tasks
  <2>3. Handlers
    BY <1>1, IdleTyped DEF Handlers
  <2>4. Knowing
    BY <1>1, IdleTyped DEF Knowing
  <2>5. QED
    BY <2>2, <2>3, <2>4
<1>10. Booting
  BY <1>1 DEF Booting
<1>11. OneRowPerVersion
  BY <1>2, <1>4, <1>5 DEF OneRowPerVersion, Installed, Ids
<1>12. AvailabilityUnlessOverlapped
  BY <1>4, <1>5 DEF AvailabilityUnlessOverlapped, Installed, Ids
<1>13. QED
  BY <1>1, <1>7, <1>8, <1>9, <1>10, <1>11, <1>12 DEF Sound, Types, ReferencesExist

\* All state has the shapes that the tables, the disk and the handlers have.
THEOREM TypeCorrect == Spec => []TypeOK
<1>1. Init => Sound
  BY InitSound
<1>2. Sound /\ [Next]_vars => Sound'
  BY SoundNext
<1>3. Sound => TypeOK
  <2>1. SUFFICES ASSUME Sound PROVE TypeOK
    OBVIOUS
  <2>2. ASSUME NEW p \in Requests
        PROVE  /\ req[p].task \in 0 .. Len(tasks) /\ req[p].id \in Ids \cup {None}
               /\ req[p].seen \in Row \cup {None}
    <3>1. req[p] \in Handler /\ Prepared(req[p], Len(tasks)) /\ Len(tasks) \in Nat
      BY <2>1 DEF Sound, Types, Handlers, Tasks
    <3>2. QED
      BY <3>1 DEF Handler, Prepared
  <2>3. todo \subseteq Ids
    BY <2>1 DEF Sound, Types, Booting, Installed
  <2>4. QED
    BY <2>1, <2>2, <2>3 DEF Sound, Types, Tables, Tasks, Booting, TypeOK
<1>4. QED
  BY <1>1, <1>2, <1>3, PTL DEF Spec

\* No sequence of overlapping installs, switches, creations and deletions leaves a
\* workspace's pointer or an instance on an installation that is gone.
THEOREM NothingDangles == Spec => []ReferencesExist
<1>1. Init => Sound /\ ReferencesExist
  BY InitSound
<1>2. Sound /\ ReferencesExist /\ [Next]_vars => Sound' /\ ReferencesExist'
  <2>1. SUFFICES ASSUME Sound, ReferencesExist, [Next]_vars
                 PROVE  ReferencesExist'
    BY SoundNext
  <2>2. RowsStep /\ LinksStep /\ Tables
    BY <2>1, SoundNext DEF Sound, Types
  <2>3. CASE \E id \in Ids : Deletes(id)
    <3>1. PICK id \in Ids : Deletes(id)
      BY <2>3
    <3>2. Installed' = Installed \ {id}
      BY <2>2, <3>1, InstalledStep
    <3>3. QED
      BY <2>1, <3>1, <3>2 DEF Deletes, ReferencesExist
  <2>4. CASE UNCHANGED links /\ \E id \in Ids, r \in Row : Rewrites(id, r)
    <3>1. Installed \subseteq Installed'
      BY <2>2, <2>4, InstalledStep
    <3>2. QED
      BY <2>1, <2>4, <3>1 DEF ReferencesExist, links
  <2>5. CASE UNCHANGED <<rows, issued, mixed>> /\ ~\E id \in Ids : Deletes(id)
    <3>1. Installed' = Installed
      BY <2>5 DEF Installed
    <3>2. QED
      BY <2>1, <2>2, <2>5, <3>1 DEF ReferencesExist, LinksStep, links
  <2>6. QED
    BY <2>2, <2>3, <2>4, <2>5 DEF RowsStep
<1>3. QED
  BY <1>1, <1>2, PTL DEF Spec

\* The upsert on plugin_id keeps one row of a version, whoever installs it.
THEOREM OneOwner == Spec => []OneRowPerVersion
<1>1. Init => Sound /\ OneRowPerVersion
  BY InitSound
<1>2. Sound /\ OneRowPerVersion /\ [Next]_vars => Sound' /\ OneRowPerVersion'
  <2>1. SUFFICES ASSUME Sound, OneRowPerVersion, [Next]_vars
                 PROVE  OneRowPerVersion'
    BY SoundNext
  <2>2. RowsStep /\ Tables
    BY <2>1, SoundNext DEF Sound, Types
  <2>3. CASE \E id \in Ids : Deletes(id)
    <3>1. PICK id \in Ids : Deletes(id)
      BY <2>3
    <3>2. Installed' = Installed \ {id} /\ rows' = [rows EXCEPT ![id] = None]
      BY <2>2, <3>1, InstalledStep DEF Deletes
    <3>3. QED
      BY <2>1, <2>2, <3>1, <3>2 DEF OneRowPerVersion, Tables, Installed
  <2>4. CASE \E id \in Ids, r \in Row : Rewrites(id, r)
    <3>1. PICK id \in Ids, r \in Row : Rewrites(id, r)
      BY <2>4
    <3>2. Installed' = Installed \cup {id} /\ rows' = [rows EXCEPT ![id] = r]
      BY <2>2, <3>1, InstalledStep DEF Rewrites
    <3>3. \A o \in Installed : o # id => rows[o].version # r.version
      BY <2>1, <3>1 DEF Rewrites, OneRowPerVersion
    <3>4. \A o \in Installed' : rows'[o] = IF o = id THEN r ELSE rows[o]
      BY <2>2, <3>1, <3>2 DEF Tables, Installed
    <3>5. QED
      BY <2>1, <3>2, <3>3, <3>4 DEF OneRowPerVersion
  <2>5. CASE UNCHANGED <<rows, issued, mixed>>
    BY <2>1, <2>5 DEF OneRowPerVersion, Installed
  <2>6. QED
    BY <2>2, <2>3, <2>4, <2>5 DEF RowsStep
<1>3. QED
  BY <1>1, <1>2, PTL DEF Spec

\* A row whose last writer nobody overlapped has the availability that it derives.
THEOREM AvailabilityIsDerived == Spec => []AvailabilityUnlessOverlapped
<1>1. Init => Sound /\ AvailabilityUnlessOverlapped
  BY InitSound
<1>2. Sound /\ AvailabilityUnlessOverlapped /\ [Next]_vars
        => Sound' /\ AvailabilityUnlessOverlapped'
  <2>1. SUFFICES ASSUME Sound, AvailabilityUnlessOverlapped, [Next]_vars
                 PROVE  AvailabilityUnlessOverlapped'
    BY SoundNext
  <2>2. RowsStep /\ Tables
    BY <2>1, SoundNext DEF Sound, Types
  <2>3. CASE \E id \in Ids : Deletes(id)
    <3>1. PICK id \in Ids : Deletes(id)
      BY <2>3
    <3>2. Installed' = Installed \ {id} /\ rows' = [rows EXCEPT ![id] = None]
          /\ mixed' = mixed \ {id}
      BY <2>2, <3>1, InstalledStep DEF Deletes
    <3>3. \A o \in Installed' \ mixed' : o \in Installed \ mixed /\ rows'[o] = rows[o]
      BY <2>2, <3>2 DEF Tables, Installed
    <3>4. QED
      BY <2>1, <3>3 DEF AvailabilityUnlessOverlapped, Derived
  <2>4. CASE \E id \in Ids, r \in Row : Rewrites(id, r)
    <3>1. PICK id \in Ids, r \in Row : Rewrites(id, r)
      BY <2>4
    <3>2. Installed' = Installed \cup {id} /\ rows' = [rows EXCEPT ![id] = r]
      BY <2>2, <3>1, InstalledStep DEF Rewrites
    <3>3. \A o \in Installed' : rows'[o] = IF o = id THEN r ELSE rows[o]
      BY <2>2, <3>1, <3>2 DEF Tables, Installed
    <3>4. \A o \in Installed' \ mixed' :
            \/ o = id /\ r.availability = Derived(r)
            \/ o # id /\ o \in Installed \ mixed
      BY <3>1, <3>2 DEF Rewrites
    <3>5. QED
      BY <2>1, <3>3, <3>4 DEF AvailabilityUnlessOverlapped, Derived
  <2>5. CASE UNCHANGED <<rows, issued, mixed>>
    BY <2>1, <2>5 DEF AvailabilityUnlessOverlapped, Installed, Derived
  <2>6. QED
    BY <2>2, <2>3, <2>4, <2>5 DEF RowsStep
<1>3. QED
  BY <1>1, <1>2, PTL DEF Spec

\* A task that has not ended has a handler that will end it, unless that handler was
\* dropped: no error branch and no chain forgets one.
THEOREM NoTaskForgotten == Spec => []TasksAreHeld
<1>1. Init => Sound /\ TasksAreHeld
  BY InitSound DEF TasksAreHeld
<1>2. Sound /\ TasksAreHeld /\ [Next]_vars => Sound' /\ TasksAreHeld'
  <2>1. SUFFICES ASSUME Sound, TasksAreHeld, [Next]_vars
                 PROVE  TasksAreHeld'
    BY SoundNext
  <2> USE DEF Sound, Types
  <2>2. \A q \in Requests : req[q].pc \in HeldPcs => req[q].task \in 1 .. Len(tasks)
    BY <2>1 DEF Handlers, Prepared, HeldPcs
  <2>3. \A q \in Requests : req[q].task # 0 => req[q].pc \in TaskPcs
    BY <2>1 DEF Handlers, Prepared
  <2>4. CASE \E p \in Requests : Handles(p)
    <3>1. PICK p \in Requests : Handles(p)
      BY <2>4
    <3>2. Stepped(p)
      BY <2>1, <3>1, HandlerStep DEF Handles
    <3>3. PICK r \in Handler : Keeps(p, r) /\ (Overlap(p, r) \/ Quietly(p, r))
      BY <3>2 DEF Stepped, Shape
    <3>4. req'[p] = r /\ \A q \in Requests \ {p} : Alike(req[q], req'[q])
      BY <2>1, <3>3, OthersAlike DEF Handlers
    <3>5. TasksGrow /\ Tasks'
      BY <3>2 DEF Stepped
    <3>6. SUFFICES ASSUME NEW t \in 1 .. Len(tasks'), tasks'[t] \in {"queued", "running"}
                   PROVE  \/ t \in lost'
                          \/ \E q \in Requests : req'[q].task = t /\ req'[q].pc \notin {"idle", "next"}
      BY DEF TasksAreHeld
    <3>7. CASE t \notin 1 .. Len(tasks)
      <4>1. r.task = t /\ r.pc \in HeldPcs
        BY <2>1, <3>3, <3>5, <3>7 DEF Keeps, Tasks
      <4>2. QED
        BY <3>4, <4>1 DEF HeldPcs, TaskPcs
    <3>8. CASE t \in 1 .. Len(tasks)
      <4>1. tasks[t] \in {"queued", "running"}
        <5>1. tasks[t] \in {"queued", "running", "succeeded", "failed"}
          BY <2>1, <3>8 DEF Tasks
        <5>2. QED
          BY <3>5, <3>6, <3>8, <5>1 DEF TasksGrow
      <4>2. CASE t \in lost
        BY <3>5, <4>2 DEF TasksGrow
      <4>3. CASE \E q \in Requests : req[q].task = t /\ req[q].pc \notin {"idle", "next"}
        <5>1. PICK q \in Requests : req[q].task = t /\ req[q].pc \notin {"idle", "next"}
          BY <4>3
        <5>2. req[q].pc \in HeldPcs
          BY <2>3, <3>8, <5>1 DEF HeldPcs
        <5>3. CASE q = p
          <6>1. (r.task = t /\ r.pc \in HeldPcs) \/ t \in lost'
            BY <3>3, <3>6, <5>1, <5>2, <5>3 DEF Keeps
          <6>2. QED
            BY <3>4, <6>1 DEF HeldPcs, TaskPcs
        <5>4. CASE q # p
          BY <3>4, <5>1, <5>4 DEF Alike
        <5>5. QED
          BY <5>3, <5>4
      <4>4. QED
        BY <2>1, <3>8, <4>1, <4>2, <4>3 DEF TasksAreHeld
    <3>9. QED
      BY <3>7, <3>8
  <2>5. CASE Startups
    BY <2>1, <2>5, StartupRows DEF TasksAreHeld, past
  <2>6. CASE Tamper
    <3>1. UNCHANGED <<tasks, lost>>
      BY <2>6 DEF Tamper
    <3>2. \A q \in Requests : Alike(req[q], req'[q])
      BY <2>1, <2>6, SoundFault DEF Tamper, Crash, boot, Booting
    <3>3. QED
      BY <2>1, <3>1, <3>2 DEF TasksAreHeld, Alike
  <2>7. CASE Crash
    <3>1. UNCHANGED tasks
          /\ lost' = lost \cup {req[p].task : p \in {q \in Requests : req[q].task # 0}}
      BY <2>7 DEF Crash
    <3>2. QED
      BY <2>1, <3>1 DEF TasksAreHeld
  <2>8. CASE UNCHANGED vars
    BY <2>1, <2>8 DEF TasksAreHeld, vars
  <2>9. QED
    BY <2>1, <2>4, <2>5, <2>6, <2>7, <2>8 DEF Next, Handles
<1>3. QED
  BY <1>1, <1>2, PTL DEF Spec

LEMMA LookedSettled ==
  ASSUME Tables, NEW r \in Row
  PROVE  Looked(Settled(r, Observe(r), Found(r)))
<1> DEFINE s == Settled(r, Observe(r), Found(r))
<1>1. Observe(r) \in Artifacts /\ Found(r) \in Contents
  BY ObserveTyped
<1>2. /\ s.version = r.version /\ s.artifact = Observe(r) /\ s.availability = Derived(s)
  BY <1>1, SettledTyped DEF Derived
<1>3. Observe(r) = "ready" => /\ Readable(r.version) /\ r.archive \in {None, pkg[r.version]}
                              /\ dir[r.version][Manifest] = Found(r)
  BY ReadableMeans DEF Observe, Row, Found
<1>4. Observe(r) = "missing" => dir[r.version] = None
  BY DEF Observe
<1>5. s.manifest = Found(r) /\ s.archive = r.archive
  BY <1>1, SettledTyped
<1>6. QED
  BY <1>2, <1>3, <1>4, <1>5 DEF Looked

\* A step of startup leaves a row that it has looked at, and spends a host extension
\* whose package is ready.
LEMMA StartupLooksOn ==
  ASSUME Sound, StartupLooks, Startups
  PROVE  StartupLooks'
<1> USE DEF Sound, Types
<1>1. \A id \in Installed : id \in Ids /\ rows[id] \in Row
  BY DEF Tables, Installed
<1>2. Installed' = Installed /\ UNCHANGED <<dir, pkg>>
  BY StartupRows DEF disk
<1>3. ASSUME NEW r PROVE Looked(r)' <=> Looked(r)
  BY <1>2 DEF Looked, Derived, Derive, Readable, Present
<1>4. CASE BootReconcile
  <2>1. PICK id \in todo : /\ rows' = [rows EXCEPT ![id] =
                                Settled(rows[id], Observe(rows[id]), Found(rows[id]))]
                           /\ todo' = todo \ {id} /\ phase = "boot" /\ phase' = "boot"
    BY <1>4 DEF BootReconcile, Startup
  <2>2. id \in Installed
    BY DEF Booting
  <2>3. Looked(rows'[id])
    BY <1>1, <2>1, <2>2, LookedSettled DEF Tables
  <2>4. \A o \in Installed : o # id => rows'[o] = rows[o]
    BY <1>1, <2>1 DEF Tables
  <2>5. \A o \in Installed : o \notin todo' => Looked(rows'[o])
    BY <2>1, <2>3, <2>4 DEF StartupLooks
  <2>6. QED
    BY <1>2, <1>3, <2>1, <2>5 DEF StartupLooks, Looked, Derived, Readable, Present
<1>5. CASE BootHosts
  <2>1. /\ phase = "boot" /\ todo = {} /\ phase' = "hosts" /\ UNCHANGED rows
        /\ todo' = {id \in Installed : /\ rows[id].desired = "pending_restart"
                                       /\ rows[id].version \in HostVersions}
    BY <1>5 DEF BootHosts
  <2>2. \A o \in Installed : Looked(rows[o])
    BY <2>1 DEF StartupLooks
  <2>3. QED
    BY <1>2, <2>1, <2>2 DEF StartupLooks, Looked, Derived, Readable, Present
<1>6. CASE HostReconcile
  <2>1. PICK id \in todo :
          LET r == Settled(rows[id], Observe(rows[id]), Found(rows[id])) IN
          /\ Startup(id, r) /\ todo' = todo \ {id} /\ phase = "hosts"
          /\ IF r.artifact = "ready" THEN phase' = "request" /\ host' = id
             ELSE UNCHANGED <<phase, host>>
    BY <1>6 DEF HostReconcile
  <2> DEFINE r == Settled(rows[id], Observe(rows[id]), Found(rows[id]))
  <2>2. id \in Installed
    BY DEF Booting
  <2>3. Observe(rows[id]) \in Artifacts /\ Found(rows[id]) \in Contents
    BY <1>1, <2>2, ObserveTyped
  <2>4. Looked(r)
    BY <1>1, <2>2, LookedSettled
  <2>5. rows'[id] = r /\ \A o \in Installed : o # id => rows'[o] = rows[o]
    BY <1>1, <2>1, <2>2 DEF Tables, Startup
  <2>6. \A o \in Installed : Looked(rows'[o])
    BY <2>1, <2>4, <2>5 DEF StartupLooks
  <2>7. /\ todo' = todo \ {id} /\ phase' \in {"hosts", "request"}
        /\ r.artifact = "ready" => phase' = "request" /\ host' = id
    BY <2>1
  <2>8. ASSUME NEW o \in Installed, rows'[o].version \in HostVersions,
               rows'[o].artifact = "ready"
        PROVE  \/ rows'[o].desired # "pending_restart" \/ o \in todo'
               \/ phase' = "request" /\ o = host'
    <3>1. CASE o = id
      BY <2>5, <2>7, <2>8, <3>1
    <3>2. CASE o # id
      <4>1. rows'[o] = rows[o]
        BY <2>5, <3>2
      <4>2. rows[o].desired # "pending_restart" \/ o \in todo
        BY <2>1, <2>8, <4>1 DEF StartupLooks
      <4>3. QED
        BY <2>7, <3>2, <4>1, <4>2
    <3>3. QED
      BY <3>1, <3>2
  <2>9. QED
    BY <1>2, <2>6, <2>7, <2>8 DEF StartupLooks, Looked, Derived, Readable, Present
<1>7. CASE HostRequest
  <2> DEFINE r == [rows[host] EXCEPT !.desired = "active_requested",
                     !.availability = Derive("active_requested", rows[host].artifact,
                                             rows[host].runtime)]
  <2>1. host \in Installed /\ Startup(host, r) /\ phase = "request" /\ phase' = "validate"
        /\ UNCHANGED <<todo, host>>
    BY <1>7 DEF HostRequest, Booting
  <2>2. /\ r.version = rows[host].version /\ r.artifact = rows[host].artifact
        /\ r.availability = Derived(r) /\ r.desired = "active_requested"
    BY <1>1, <2>1, RequestedTyped
  <2>3. rows'[host] = r /\ \A o \in Installed : o # host => rows'[o] = rows[o]
    BY <1>1, <2>1 DEF Tables, Startup
  <2>4. Looked(rows[host])
    BY <2>1 DEF StartupLooks
  <2>5. Looked(r)
    BY <2>2, <2>4 DEF Looked
  <2>6. \A o \in Installed : Looked(rows'[o])
    BY <2>1, <2>3, <2>5 DEF StartupLooks
  <2>7. ASSUME NEW o \in Installed, rows'[o].version \in HostVersions,
               rows'[o].artifact = "ready"
        PROVE  rows'[o].desired # "pending_restart" \/ o \in todo'
    BY <2>1, <2>2, <2>3, <2>7 DEF StartupLooks
  <2>8. QED
    BY <1>2, <2>1, <2>6, <2>7 DEF StartupLooks, Looked, Derived, Readable, Present
<1>8. CASE HostValidate
  <2>1. PICK status \in {"active", "load_failed"} :
          Startup(host, Snapshot(host, rows[host], status))
    BY <1>8 DEF HostValidate
  <2>2. host \in Installed /\ phase = "validate" /\ phase' = "hosts" /\ UNCHANGED todo
    BY <1>8 DEF HostValidate, Booting
  <2> DEFINE r == Snapshot(host, rows[host], status)
  <2>3. /\ r.version = rows[host].version /\ r.artifact = rows[host].artifact
        /\ r.availability = Derived(r) /\ r.desired = rows[host].desired
        /\ r.manifest = rows[host].manifest /\ r.archive = rows[host].archive
    BY <1>1, <2>2, SnapshotTyped
  <2>4. rows'[host] = r /\ \A o \in Installed : o # host => rows'[o] = rows[o]
    BY <1>1, <2>1, <2>2 DEF Tables, Startup
  <2>5. Looked(rows[host])
    BY <2>2 DEF StartupLooks
  <2>6. Looked(r)
    BY <2>3, <2>5 DEF Looked
  <2>7. \A o \in Installed : Looked(rows'[o])
    BY <2>2, <2>4, <2>6 DEF StartupLooks
  <2>8. ASSUME NEW o \in Installed, rows'[o].version \in HostVersions,
               rows'[o].artifact = "ready"
        PROVE  rows'[o].desired # "pending_restart" \/ o \in todo'
    BY <2>2, <2>3, <2>4, <2>8 DEF StartupLooks
  <2>9. QED
    BY <1>2, <2>2, <2>7, <2>8 DEF StartupLooks, Looked, Derived, Readable, Present
<1>9. CASE Serve
  <2>1. phase = "hosts" /\ todo = {} /\ phase' = "fresh" /\ UNCHANGED <<rows, todo>>
    BY <1>9 DEF Serve
  <2>2. QED
    BY <1>2, <2>1 DEF StartupLooks, Looked, Derived, Readable, Present
<1>10. QED
  BY <1>4, <1>5, <1>6, <1>7, <1>8, <1>9 DEF Startups

\* A file that a directory lacks, although nothing stopped there, is one that some
\* handler is still to write, or to remove the directory of.
Owed ==
  \A v \in Versions \ torn : dir[v] # None =>
    \A f \in Files : dir[v][f] = None => \E p \in Requests : f \in Owes(req[p], v)

\* What one handler does to the debts of a version
Settles(p) ==
  \A v \in Versions \ torn', f \in Files :
    dir'[v] # None /\ dir'[v][f] = None =>
      \/ f \in Owes(req'[p], v)
      \/ v \notin torn /\ dir[v] # None /\ dir[v][f] = None /\ f \notin Owes(req[p], v)

LEMMA OwedKept ==
  ASSUME Handlers, Owed, NEW p \in Requests, NEW r \in Handler,
         Overlap(p, r) \/ Quietly(p, r), Settles(p)
  PROVE  Owed'
<1>1. ASSUME NEW v \in Versions \ torn', dir'[v] # None, NEW f \in Files, dir'[v][f] = None
      PROVE  \E q \in Requests : f \in Owes(req'[q], v)
  <2>1. CASE f \in Owes(req'[p], v)
    BY <2>1
  <2>2. CASE f \notin Owes(req'[p], v)
    <3>1. /\ v \notin torn /\ dir[v] # None /\ dir[v][f] = None
          /\ f \notin Owes(req[p], v)
      BY <1>1, <2>2 DEF Settles
    <3>2. PICK q \in Requests : f \in Owes(req[q], v)
      BY <3>1 DEF Owed
    <3>3. q # p
      BY <3>1, <3>2
    <3>4. Alike(req[q], req'[q])
      BY <3>3, OthersAlike DEF Handlers
    <3>5. Owes(req'[q], v) = Owes(req[q], v)
      BY <3>4 DEF Alike, Owes
    <3>6. QED
      BY <3>2, <3>5
  <2>3. QED
    BY <2>1, <2>2
<1>2. QED
  BY <1>1 DEF Owed

\* A handler that owes nothing and leaves the directories alone
LEMMA OwesNothing ==
  ASSUME NEW p \in Requests, UNCHANGED <<dir, torn>>, \A v \in Versions : Owes(req[p], v) = {}
  PROVE  Settles(p)
BY DEF Settles

\* A handler that stops leaves its debts to the torn versions.
LEMMA LeavesTorn ==
  ASSUME NEW p \in Requests, UNCHANGED dir, Leave({p})
  PROVE  Settles(p)
<1>1. ASSUME NEW v \in Versions \ torn', NEW f \in Files, dir'[v] # None, dir'[v][f] = None
      PROVE  v \notin torn /\ dir[v] # None /\ dir[v][f] = None /\ f \notin Owes(req[p], v)
  <2>1. v \notin torn /\ ~(Lacks(v) /\ Owes(req[p], v) # {})
    BY <1>1 DEF Leave
  <2>2. Lacks(v)
    BY <1>1 DEF Lacks
  <2>3. QED
    BY <1>1, <2>1, <2>2
<1>2. QED
  BY <1>1 DEF Settles

FilePcs == {"clear", "make", "copy", "removing"}

LEMMA OwesWhere ==
  ASSUME NEW r, NEW v, r.pc \notin FilePcs
  PROVE  Owes(r, v) = {}
BY DEF Owes, FilePcs

LEMMA InstallSettles ==
  ASSUME Tables, Handlers, NEW p \in Requests, Archive(p) \/ Clear(p) \/ Make(p) \/ Copy(p)
  PROVE  Settles(p)
<1> DEFINE a == req[p]  u == a.version
<1>1. /\ a \in Handler /\ a.pc \in {"archive", "clear", "make", "copy"}
      /\ u \in Versions /\ a.content \in Contents /\ a.op = "install"
  BY DEF Handlers, Prepared, Archive, Clear, Make, Copy
<1>2. ASSUME NEW v \in Versions, v # u
      PROVE  Owes(a, v) = {}
  BY <1>1, <1>2 DEF Owes
<1>3. CASE Archive(p)
  <2>1. a.pc \notin FilePcs /\ UNCHANGED <<dir, torn>>
    BY <1>3 DEF Archive, FilePcs
  <2>2. QED
    BY <2>1, OwesWhere, OwesNothing
<1>4. ASSUME \A v \in Versions : v # u => dir'[v] = dir[v] /\ (v \notin torn' => v \notin torn),
             \A f \in Files : u \notin torn' /\ dir'[u] # None /\ dir'[u][f] = None =>
               \/ f \in Owes(req'[p], u)
               \/ u \notin torn /\ dir[u] # None /\ dir[u][f] = None /\ f \notin Owes(a, u)
      PROVE  Settles(p)
  BY <1>2, <1>4 DEF Settles
<1>5. CASE Clear(p)
  <2>1. CASE Clashes(p, u)
    BY <2>1, LeavesTorn DEF Clashes
  <2>2. CASE ~Clashes(p, u)
    <3>1. PICK x \in {"clear", "make"} : Overlap(p, [a EXCEPT !.pc = x])
      BY <1>5, <2>2 DEF Clear
    <3>2. x \in Pcs
      BY DEF Pcs, TaskPcs
    <3>3. req'[p] = [a EXCEPT !.pc = x]
      BY <3>1 DEF Overlap
    <3>4. req'[p].pc = x /\ req'[p].version = u
      BY <1>1, <3>2, <3>3, Moved DEF Kept
    <3>5. Owes(req'[p], u) = Files
      BY <3>4 DEF Owes
    <3>6. Emptied(u, dir') /\ UNCHANGED torn
      BY <1>5, <2>2 DEF Clear
    <3>7. QED
      BY <1>1, <1>4, <3>5, <3>6, EmptiedTyped
  <2>3. QED
    BY <2>1, <2>2
<1>6. CASE Make(p)
  <2> DEFINE c == [a EXCEPT !.left = Files]  b == [c EXCEPT !.pc = "copy"]
  <2>1. "copy" \in Pcs
    BY DEF Pcs, TaskPcs
  <2>2. c \in Handler /\ Kept(a, c) /\ c.left = Files /\ [a EXCEPT !.pc = "copy", !.left = Files] = b
    BY <1>1, <2>1, LeftSet
  <2>3. b.pc = "copy" /\ Kept(c, b)
    BY <2>1, <2>2, Moved
  <2>4. b.left = Files
    BY <2>2 DEF Handler
  <2>5. req'[p] = b
    BY <1>6, <2>2 DEF Make, Overlap
  <2> HIDE DEF b, c
  <2>6. Owes(req'[p], u) = Files
    BY <1>1, <2>2, <2>3, <2>4, <2>5 DEF Owes, Kept
  <2>7. \A v \in Versions : v # u => dir'[v] = dir[v] /\ (v \notin torn' => v \notin torn)
    BY <1>1, <1>6, DirectoryChanged DEF Make
  <2>8. QED
    BY <1>4, <2>6, <2>7
<1>7. CASE Copy(p)
  <2>1. CASE dir[u] = None
    <3>1. UNCHANGED <<dir, torn>>
      BY <1>7, <2>1 DEF Copy, GivesUp, disk
    <3>2. QED
      BY <1>4, <2>1, <3>1
  <2>2. CASE dir[u] # None
    <3>1. PICK f \in a.left : /\ dir' = [dir EXCEPT ![u][f] = a.content] /\ UNCHANGED torn
                              /\ Overlap(p, Copied([a EXCEPT !.left = a.left \ {f}]))
                              /\ a.pc = "copy"
      BY <1>7, <2>2 DEF Copy
    <3>2. f \in Files /\ a.left \ {f} \in SUBSET Files
      BY <1>1 DEF Handler
    <3>3. /\ \A g \in Files : dir'[u][g] = IF g = f THEN a.content ELSE dir[u][g]
          /\ \A v \in Versions : v # u => dir'[v] = dir[v]
      BY <1>1, <2>2, <3>1, <3>2, FileChanged
    <3> DEFINE c == [a EXCEPT !.left = a.left \ {f}]
    <3>4. PICK x \in {"copy", "fingerprint"} :
            Copied(c) = [c EXCEPT !.pc = x] /\ (c.left # {} => x = "copy")
      BY DEF Copied
    <3>5. x \in Pcs
      BY DEF Pcs, TaskPcs
    <3>6. c \in Handler /\ Kept(a, c) /\ c.left = a.left \ {f}
      BY <1>1, <3>2, <3>5, LeftSet
    <3>7. req'[p] = Copied(c)
      BY <3>1 DEF Overlap
    <3> HIDE DEF c
    <3> DEFINE b == [c EXCEPT !.pc = x]
    <3>8. b.pc = x /\ Kept(c, b)
      BY <3>5, <3>6, Moved
    <3>9. b.left = a.left \ {f}
      BY <3>6 DEF Handler
    <3>10. req'[p] = b
      BY <3>4, <3>7
    <3> HIDE DEF b
    <3>11. Owes(req'[p], u) = a.left \ {f}
      BY <1>1, <3>4, <3>6, <3>8, <3>9, <3>10 DEF Owes, Kept
    <3>12. Owes(a, u) = a.left
      BY <3>1 DEF Owes
    <3>13. ASSUME NEW g \in Files, u \notin torn', dir'[u][g] = None
           PROVE  g \in Owes(req'[p], u) \/
                  (u \notin torn /\ dir[u] # None /\ dir[u][g] = None /\ g \notin Owes(a, u))
      <4>1. g # f /\ dir[u][g] = None
        BY <1>1, <3>3, <3>13
      <4>2. QED
        BY <2>2, <3>1, <3>11, <3>12, <3>13, <4>1
    <3>14. QED
      BY <1>4, <3>1, <3>3, <3>13
  <2>3. QED
    BY <2>1, <2>2
<1>8. QED
  BY <1>3, <1>5, <1>6, <1>7

LEMMA RemovalSettles ==
  ASSUME Tables, Handlers, NEW p \in Requests, RemoveDirectory(p) \/ RemoveArchive(p)
  PROVE  Settles(p)
<1> DEFINE a == req[p]
<1>1. a \in Handler /\ a.paths \in PathSets /\ a.pc \in {"files", "removing"}
  BY DEF Handlers, Handler, RemoveDirectory, RemoveArchive
<1>2. \A v \in Versions : Owes(a, v) # {} => <<v, "directory">> \in a.paths
  BY <1>1 DEF Owes
<1>3. ASSUME NEW u \in Versions \cup {None}, NEW ps \in PathSets, Overlap(p, Removing(a, u, ps)),
             NEW v \in Versions, <<v, "directory">> \in ps
      PROVE  Owes(req'[p], v) = Files
  <2> DEFINE b == Removing(a, u, ps)
  <2>1. req'[p] = b
    BY <1>3 DEF Overlap
  <2>2. b.pc = "removing" /\ b.paths = ps
    BY <1>1, <1>3, PathsSet
  <2> HIDE DEF b
  <2>3. QED
    BY <1>3, <2>1, <2>2 DEF Owes
<1>4. CASE RemoveArchive(p)
  <2>1. PICK u \in Versions : Overlap(p, Removing(a, None, a.paths \ {<<u, "archive">>}))
                             /\ UNCHANGED <<dir, torn>>
    BY <1>4 DEF RemoveArchive
  <2> DEFINE ps == a.paths \ {<<u, "archive">>}
  <2>2. ps \in PathSets
    BY <1>1 DEF PathSets
  <2>3. \A v \in Versions : <<v, "directory">> \in a.paths => <<v, "directory">> \in ps
    OBVIOUS
  <2> HIDE DEF ps
  <2>4. \A v \in Versions : <<v, "directory">> \in ps => Owes(req'[p], v) = Files
    BY <1>3, <2>1, <2>2 DEF ps
  <2>5. QED
    BY <1>2, <2>1, <2>3, <2>4 DEF Settles
<1>5. CASE RemoveDirectory(p)
  <2>1. CASE \E u \in Versions : Clashes(p, u)
    BY <2>1, LeavesTorn DEF Clashes
  <2>2. CASE ~\E u \in Versions : Clashes(p, u)
    <3>1. PICK u \in Versions :
            /\ <<u, "directory">> \in a.paths /\ Emptied(u, dir')
            /\ torn' = IF dir'[u] = None THEN torn \ {u} ELSE torn
            /\ Overlap(p, IF dir'[u] = None THEN Removing(a, None, a.paths \ {<<u, "directory">>})
                                            ELSE Removing(a, u, a.paths))
      BY <1>5, <2>2 DEF RemoveDirectory
    <3> DEFINE ps == IF dir'[u] = None THEN a.paths \ {<<u, "directory">>} ELSE a.paths
               x == IF dir'[u] = None THEN None ELSE u
    <3>2. ps \in PathSets
      BY <1>1 DEF PathSets
    <3>3. /\ \A v \in Versions : v # u /\ <<v, "directory">> \in a.paths => <<v, "directory">> \in ps
          /\ dir'[u] # None => <<u, "directory">> \in ps
      BY <3>1
    <3>7. Overlap(p, Removing(a, x, ps)) /\ x \in Versions \cup {None}
      BY <3>1
    <3> HIDE DEF ps, x
    <3>4. \A v \in Versions : <<v, "directory">> \in ps => Owes(req'[p], v) = Files
      BY <1>3, <3>2, <3>7
    <3>5. \A v \in Versions : v # u => dir'[v] = dir[v] /\ (v \notin torn' => v \notin torn)
      BY <3>1, EmptiedTyped
    <3>6. QED
      BY <1>2, <3>3, <3>4, <3>5 DEF Settles
  <2>3. QED
    BY <2>1, <2>2
<1>6. QED
  BY <1>4, <1>5

\* The steps at which a handler is at work on files are those that change them.
LEMMA ElsewhereSettles ==
  ASSUME Tables, Handlers, NEW p \in Requests, Handles(p), ~WritesDisk(p)
  PROVE  Settles(p)
<1>1. UNCHANGED <<dir, torn>>
  BY Leaves DEF disk
<1>2. req[p].pc \notin FilePcs
  <2>1. CASE AcceptsTask(p) \/ AcceptReconcile(p) \/ AcceptInstance(p)
    BY <2>1, AcceptQueues, ArrivesIdle DEF AcceptReconcile, AcceptInstance, FilePcs
  <2>2. CASE \/ Start(p) \/ Fingerprint(p) \/ Record(p) \/ Request(p) \/ Load(p) \/ Loaded(p)
             \/ Migrate(p) \/ Point(p)
    BY <2>2 DEF Start, Fingerprint, Record, Request, Load, Loaded, Migrate, Point, FilePcs
  <2>3. CASE ListInstances(p) \/ DeleteInstance(p) \/ DeleteRow(p)
    BY <2>3 DEF ListInstances, DeleteInstance, DeleteRow, FilePcs
  <2>4. CASE Finish(p) \/ Continue(p) \/ Fail(p) \/ Drop(p)
    BY <2>4 DEF Finish, Continue, Fail, Drop, FilePcs
  <2>5. CASE See(p) \/ Settle(p) \/ Insert(p)
    BY <2>5 DEF See, Settle, Insert, FilePcs
  <2>6. QED
    BY <2>1, <2>2, <2>3, <2>4, <2>5 DEF Handles, Accepts, AcceptsTask, Works, WritesDisk
<1>3. QED
  BY <1>1, <1>2, OwesWhere, OwesNothing

LEMMA OwedNext ==
  ASSUME Sound, Owed, [Next]_vars
  PROVE  Owed'
<1> USE DEF Sound, Types
<1>1. CASE \E p \in Requests : Handles(p)
  <2>1. PICK p \in Requests : Handles(p)
    BY <1>1
  <2>2. PICK r \in Handler : Overlap(p, r) \/ Quietly(p, r)
    BY <2>1, HandlerStep DEF Handles, Stepped, Shape
  <2>3. Break(p) => Settles(p)
    <3>1. SUFFICES ASSUME Break(p)
                   PROVE  Settles(p)
      OBVIOUS
    <3>2. UNCHANGED dir /\ Leave({p})
      BY <3>1 DEF Break
    <3>3. QED
      BY <3>2, LeavesTorn
  <2>4. Archive(p) \/ Clear(p) \/ Make(p) \/ Copy(p) => Settles(p)
    BY InstallSettles
  <2>5. Settles(p)
    <3>1. CASE RemoveDirectory(p) \/ RemoveArchive(p)
      BY <3>1, RemovalSettles
    <3>2. CASE ~WritesDisk(p)
      BY <2>1, <3>2, ElsewhereSettles
    <3>3. QED
      BY <2>3, <2>4, <3>1, <3>2 DEF WritesDisk
  <2>6. QED
    BY <2>2, <2>5, OwedKept
<1>2. CASE Startups
  <2>1. UNCHANGED <<dir, torn, req>>
    BY <1>2, StartupRows DEF disk, past
  <2>2. \A q \in Requests, v \in Versions : Owes(req'[q], v) = Owes(req[q], v)
    BY <2>1
  <2>3. QED
    BY <2>1, <2>2 DEF Owed
<1>3. CASE Tamper
  <2>1. \A q \in Requests : Alike(req[q], req'[q])
    <3>1. phase' = "serving"
      BY <1>3 DEF Tamper, boot
    <3>2. ~Crash
      BY <3>1 DEF Crash
    <3>3. QED
      BY <1>3, <3>2, SoundFault
  <2>2. \A q \in Requests, v \in Versions : Owes(req'[q], v) = Owes(req[q], v)
    BY <2>1 DEF Alike, Owes
  <2>3. PICK u \in Versions :
          /\ dir[u] # None
          /\ \/ (\E f \in Files, c \in Contents : dir' = [dir EXCEPT ![u][f] = c]) /\ UNCHANGED torn
             \/ (\E f \in Files : dir' = [dir EXCEPT ![u][f] = None]) /\ torn' = torn \cup {u}
             \/ dir' = [dir EXCEPT ![u] = None] /\ torn' = torn \ {u}
    BY <1>3 DEF Tamper, Present
  <2>4. ASSUME NEW v \in Versions \ torn', dir'[v] # None, NEW f \in Files, dir'[v][f] = None
        PROVE  v \notin torn /\ dir[v] # None /\ dir[v][f] = None
    <3>1. CASE (\E g \in Files, c \in Contents : dir' = [dir EXCEPT ![u][g] = c]) /\ UNCHANGED torn
      <4>1. PICK g \in Files, c \in Contents : dir' = [dir EXCEPT ![u][g] = c]
        BY <3>1
      <4>2. /\ \A h \in Files : dir'[u][h] = IF h = g THEN c ELSE dir[u][h]
            /\ \A w \in Versions : w # u => dir'[w] = dir[w]
        BY <2>3, <4>1, FileChanged
      <4>3. QED
        BY <2>3, <2>4, <3>1, <4>2
    <3>2. CASE (\E g \in Files : dir' = [dir EXCEPT ![u][g] = None]) /\ torn' = torn \cup {u}
      BY <2>3, <2>4, <3>2, FileChanged
    <3>3. CASE dir' = [dir EXCEPT ![u] = None] /\ torn' = torn \ {u}
      BY <2>4, <3>3, DirectoryChanged
    <3>4. QED
      BY <2>3, <3>1, <3>2, <3>3
  <2>5. QED
    BY <2>2, <2>4 DEF Owed
<1>4. CASE Crash
  <2>1. UNCHANGED dir /\ Leave(Requests)
    BY <1>4 DEF Crash
  <2>2. ASSUME NEW v \in Versions \ torn', dir'[v] # None, NEW f \in Files, dir'[v][f] = None
        PROVE  FALSE
    <3>1. v \notin torn /\ Lacks(v)
      BY <2>1, <2>2 DEF Leave, Lacks
    <3>2. PICK q \in Requests : f \in Owes(req[q], v)
      BY <2>1, <2>2, <3>1 DEF Owed
    <3>3. v \in torn'
      BY <2>1, <3>1, <3>2 DEF Leave
    <3>4. QED
      BY <2>2, <3>3
  <2>3. QED
    BY <2>2 DEF Owed
<1>5. CASE UNCHANGED vars
  BY <1>5 DEF Owed, Owes, vars
<1>6. QED
  BY <1>1, <1>2, <1>3, <1>4, <1>5 DEF Next, Handles

\* When startup is over and nothing has been asked yet, no row promises what the
\* manifest and the archive on the disk do not hold, between whichever two steps, and
\* whichever two files, the server crashed before; and a ready row's directory lacks
\* a file only if a request was stopped in the midst of its files, or something else
\* changed them.
THEOREM StartupIsTrue == Spec => []StartupTellsTheTruth
<1>1. Init => Sound /\ StartupLooks /\ Owed
  <2>1. Init => Sound /\ StartupLooks
    BY InitSound DEF StartupLooks
  <2>2. ASSUME Init PROVE Owed
    <3>1. \A v \in Versions, f \in Files : dir[v] # None => dir[v][f] # None
      BY <2>2 DEF Init, Package
    <3>2. QED
      BY <3>1 DEF Owed
  <2>3. QED
    BY <2>1, <2>2
<1>2. Sound /\ StartupLooks /\ [Next]_vars => Sound' /\ StartupLooks'
  <2>1. SUFFICES ASSUME Sound, StartupLooks, [Next]_vars
                 PROVE  StartupLooks'
    BY SoundNext
  <2>2. CASE \E p \in Requests : Handles(p)
    <3>1. phase' = "serving"
      BY <2>1, <2>2, HandlerServes DEF Sound, Types
    <3>2. QED
      BY <3>1 DEF StartupLooks
  <2>3. CASE Startups
    BY <2>1, <2>3, StartupLooksOn
  <2>4. CASE Tamper
    <3>1. phase' = "serving"
      BY <2>4 DEF Tamper, boot
    <3>2. QED
      BY <3>1 DEF StartupLooks
  <2>5. CASE Crash
    <3>1. phase' = "boot" /\ todo' = Installed /\ Installed' = Installed
      BY <2>5 DEF Crash, Installed
    <3>2. QED
      BY <3>1 DEF StartupLooks
  <2>6. CASE UNCHANGED vars
    BY <2>1, <2>6 DEF StartupLooks, Looked, Derived, Readable, Present, Installed, vars
  <2>7. QED
    BY <2>1, <2>2, <2>3, <2>4, <2>5, <2>6 DEF Next, Handles
<1>5. Sound /\ Owed /\ [Next]_vars => Owed'
  BY OwedNext
<1>3. Sound /\ StartupLooks /\ Owed => StartupTellsTheTruth
  <2>1. SUFFICES ASSUME Sound, StartupLooks, Owed, phase = "fresh", NEW id \in Installed
                 PROVE  /\ Looked(rows[id])
                        /\ rows[id].version \notin torn => ~Lacks(rows[id].version)
                        /\ rows[id].version \in HostVersions /\ rows[id].artifact = "ready"
                             => rows[id].desired # "pending_restart"
    BY DEF StartupTellsTheTruth, Looked
  <2>2. Looked(rows[id])
    BY <2>1 DEF StartupLooks
  <2>3. rows[id].version \in HostVersions /\ rows[id].artifact = "ready"
          => rows[id].desired # "pending_restart"
    BY <2>1 DEF StartupLooks, Sound, Types, Booting
  <2>4. ASSUME rows[id].version \notin torn PROVE ~Lacks(rows[id].version)
    <3>1. rows[id].version \in Versions
      BY <2>1 DEF Sound, Types, Tables, Installed, Row
    <3>2. \A p \in Requests : req[p].pc = "idle"
      <4>1. \A p \in Requests : req[p] = Idle
        BY <2>1 DEF Sound, Types, Booting
      <4>2. Idle.pc = "idle"
        BY DEF Idle
      <4>3. QED
        BY <4>1, <4>2
    <3>3. \A p \in Requests, v \in Versions : Owes(req[p], v) = {}
      BY <3>2 DEF Owes
    <3>4. QED
      BY <2>1, <2>4, <3>1, <3>3 DEF Owed, Lacks
  <2>5. QED
    BY <2>2, <2>3, <2>4
<1>4. QED
  BY <1>1, <1>2, <1>3, <1>5, SoundNext, PTL DEF Spec

-----------------------------------------------------------------------------
\* What a success means
\* How far an operation that nobody overlapped has come, the rows, directories,
\* pointers and instances being such
Reached(r, rs, ds, ps, hs) ==
  r.clean =>
  /\ r.op = "install" /\ r.pc = "copy" =>
       \A f \in Files \ r.left : ds[r.version] # None /\ ds[r.version][f] = r.content
  /\ r.op = "install" /\ r.pc \in {"fingerprint", "record", "finish"} =>
       ds[r.version] = Package(r.content)
  /\ r.op = "install" /\ r.pc = "finish" =>
       r.id \in Ids /\ rs[r.id] # None /\ rs[r.id].version = r.version /\ rs[r.id].artifact = "ready"
  /\ r.op = "enable" /\ r.pc \in {"load", "active", "finish"} =>
       r.id \in Ids /\ rs[r.id] # None /\ rs[r.id].desired = "active_requested"
  /\ r.op = "enable" /\ r.pc = "finish" => rs[r.id].runtime = "active"
  /\ r.op = "switch" /\ r.pc \in {"point", "finish"} =>
       \A i \in Instances : Owner[i] = r.ws => hs[i] \in {r.id, None}
  /\ r.op \in {"assign", "switch"} /\ r.pc = "finish" => ps[r.ws] = r.id
  /\ r.op = "delete" /\ r.pc \in {"queued", "list"} \cup DeletePcs =>
       \A id \in Ids \ r.ids : rs[id] = None
  /\ r.op = "delete" /\ r.pc \in DeletePcs => \A i \in Instances \ r.victims : hs[i] = None
  /\ r.op = "delete" /\ r.pc \in {"files", "removing", "finish"} => r.ids = {} /\ r.victims = {}

Journeys == \A p \in Requests : Reached(req[p], rows, dir, pointer, home)

\* A step of one handler that leaves it where it says
Advance(p) ==
  \E r \in Handler : /\ Reached(r, rows', dir', pointer', home')
                     /\ \/ Overlap(p, r)
                        \/ Quietly(p, r) /\ UNCHANGED <<rows, dir, links>>

LEMMA NothingReached ==
  ASSUME NEW r, r.pc \notin {"copy", "fingerprint", "record", "load", "active", "point", "queued", "list"}
                            \cup DeletePcs
  PROVE  \A rs, ds, ps, hs : Reached(r, rs, ds, ps, hs)
BY DEF Reached, DeletePcs

LEMMA JourneysKept ==
  ASSUME Handlers, Journeys, NEW p \in Requests, Advance(p)
  PROVE  Journeys'
<1>1. PICK r \in Handler : /\ Reached(r, rows', dir', pointer', home')
                           /\ \/ Overlap(p, r)
                              \/ Quietly(p, r) /\ UNCHANGED <<rows, dir, links>>
  BY DEF Advance
<1>2. ASSUME NEW q \in Requests
      PROVE  Reached(req'[q], rows', dir', pointer', home')
  <2>1. CASE q = p
    <3>1. req'[q] = r
      BY <1>1, <2>1, OthersAlike DEF Handlers
    <3>2. QED
      BY <1>1, <3>1
  <2>2. CASE q # p /\ Overlap(p, r)
    <3>1. req'[q] = Idle \/ ~req'[q].clean
      BY <2>2, OthersAlike DEF Handlers
    <3>2. QED
      BY <3>1 DEF Reached, Idle
  <2>3. CASE q # p /\ Quietly(p, r) /\ UNCHANGED <<rows, dir, links>>
    <3>1. req'[q] = req[q] /\ UNCHANGED <<rows, dir, pointer, home>>
      BY <2>3, OthersAlike DEF Handlers, links
    <3>2. QED
      BY <3>1 DEF Journeys
  <2>4. QED
    BY <1>1, <2>1, <2>2, <2>3
<1>3. QED
  BY <1>2 DEF Journeys

\* A handler that ends, or whose operation fails, promises nothing.
LEMMA LetsGo ==
  ASSUME Handlers, NEW p \in Requests,
         NEW r \in {Idle, [req[p] EXCEPT !.pc = "failing"], [req[p] EXCEPT !.pc = "next"],
                    [req[p] EXCEPT !.pc = "clear"], [req[p] EXCEPT !.pc = "make"],
                    [req[p] EXCEPT !.pc = "load_failed"]},
         Overlap(p, r) \/ (Quietly(p, r) /\ UNCHANGED <<rows, dir, links>>)
  PROVE  Advance(p)
<1>1. req[p] \in Handler
  BY DEF Handlers
<1>2. ASSUME NEW x \in {"failing", "next", "clear", "make", "load_failed"},
             r = [req[p] EXCEPT !.pc = x]
      PROVE  Advance(p)
  <2>1. x \in Pcs
    BY DEF Pcs, TaskPcs
  <2>2. r \in Handler /\ r.pc = x
    BY <1>1, <1>2, <2>1, Moved
  <2>3. Reached(r, rows', dir', pointer', home')
    BY <2>2, NothingReached DEF DeletePcs
  <2>4. QED
    BY <2>2, <2>3 DEF Advance
<1>3. CASE r = Idle
  <2>1. Idle.pc = "idle"
    BY DEF Idle
  <2>2. Reached(Idle, rows', dir', pointer', home')
    BY <2>1, NothingReached DEF DeletePcs
  <2>3. QED
    BY <1>3, <2>2, IdleTyped DEF Advance
<1>4. QED
  BY <1>2, <1>3

LEMMA QueueAdvances ==
  ASSUME Tasks, NEW p \in Requests, Queues(p)
  PROVE  Advance(p)
<1>1. PICK r \in Handler : Queue(p, r) /\ (r.op = "delete" => r.ids = Installed)
  BY DEF Queues
<1> DEFINE b == [r EXCEPT !.pc = "queued", !.task = Len(tasks) + 1, !.clean = TRUE]
<1>2. Len(tasks) + 1 \in Nat
  BY DEF Tasks
<1>3. b \in Handler /\ b.pc = "queued" /\ b.op = r.op /\ b.ids = r.ids
  BY <1>2, Queued
<1>4. Quietly(p, b) /\ UNCHANGED <<rows, dir, links>>
  BY <1>1 DEF Queue, disk
<1> HIDE DEF b
<1>6. Reached(b, rows', dir', pointer', home')
  BY <1>1, <1>3, <1>4 DEF Reached, DeletePcs, Installed
<1>7. QED
  BY <1>3, <1>4, <1>6 DEF Advance

LEMMA EndAdvances ==
  ASSUME Tables, Tasks, Handlers, NEW p \in Requests,
         \/ AcceptsTask(p) \/ AcceptReconcile(p) \/ AcceptInstance(p)
         \/ Archive(p) \/ Clear(p) \/ Finish(p) \/ Continue(p) \/ Fail(p) \/ Break(p) \/ Drop(p)
         \/ See(p) \/ Settle(p) \/ Insert(p) \/ GivesUp(p) \/ \E v \in Versions : Clashes(p, v)
  PROVE  Advance(p)
<1>1. CASE AcceptsTask(p)
  BY <1>1, AcceptQueues, QueueAdvances
<1>2. CASE Continue(p)
  <2>1. CASE Queues(p)
    BY <2>1, QueueAdvances
  <2>2. CASE Refused(p)
    BY <2>2, LetsGo DEF Refused, disk
  <2>3. QED
    BY <1>2, <2>1, <2>2, ContinueQueues
<1>3. CASE AcceptReconcile(p)
  <2>1. PICK id \in Installed :
          Quietly(p, [Idle EXCEPT !.op = "reconcile", !.pc = "observe", !.id = id,
                                  !.seen = rows[id]])
    BY <1>3 DEF AcceptReconcile
  <2> DEFINE b == [Idle EXCEPT !.op = "reconcile", !.pc = "observe", !.id = id,
                               !.seen = rows[id]]
  <2>2. rows[id] \in Row /\ id \in Ids /\ UNCHANGED <<rows, dir, links>>
    BY <1>3, <2>1 DEF Tables, Installed, AcceptReconcile, disk
  <2>3. b \in Handler
    BY <2>2, Reads
  <2>4. b.pc = "observe"
    BY DEF Idle
  <2>5. Reached(b, rows', dir', pointer', home')
    BY <2>4, NothingReached DEF DeletePcs
  <2>6. QED
    BY <2>1, <2>2, <2>3, <2>5 DEF Advance
<1>4. CASE AcceptInstance(p)
  <2>1. PICK i \in Instances, id \in Installed :
          Quietly(p, [Idle EXCEPT !.op = "instance", !.pc = "insert", !.id = id, !.inst = i,
                                  !.ws = Owner[i]])
    BY <1>4 DEF AcceptInstance
  <2> DEFINE b == [Idle EXCEPT !.op = "instance", !.pc = "insert", !.id = id, !.inst = i,
                               !.ws = Owner[i]]
  <2>2. id \in Ids /\ Owner[i] \in Workspaces /\ UNCHANGED <<rows, dir, links>>
    BY <1>4 DEF Installed, AcceptInstance, disk
  <2>3. b \in Handler
    BY <2>2, Creates
  <2>4. b.pc = "insert"
    BY DEF Idle
  <2>5. Reached(b, rows', dir', pointer', home')
    BY <2>4, NothingReached DEF DeletePcs
  <2>6. QED
    BY <2>1, <2>2, <2>3, <2>5 DEF Advance
<1>11. CASE \E v \in Versions : Clashes(p, v)
  BY <1>11, LetsGo DEF Clashes
<1>5. CASE Archive(p) \/ Clear(p)
  <2>1. CASE Clear(p) /\ Clashes(p, req[p].version)
    BY <2>1, LetsGo DEF Clashes
  <2>2. QED
    BY <1>5, <2>1, LetsGo DEF Archive, Clear
<1>6. CASE Finish(p) \/ Fail(p) \/ Break(p) \/ Drop(p) \/ GivesUp(p)
  BY <1>6, LetsGo DEF Finish, Fail, Break, Drop, GivesUp, disk
<1>7. CASE See(p)
  <2> DEFINE a == req[p]
  <2>1. a \in Handler /\ Prepared(a, Len(tasks)) /\ a.pc = "observe"
        /\ UNCHANGED <<rows, dir, links>>
    BY <1>7 DEF Handlers, See, disk
  <2>2. Observe(a.seen) \in Artifacts /\ Found(a.seen) \in Contents
    BY <2>1, ObserveTyped DEF Prepared
  <2>3. CASE Quietly(p, Idle)
    BY <2>1, <2>3, LetsGo
  <2>4. CASE Quietly(p, [a EXCEPT !.pc = "settle", !.status = Observe(a.seen),
                                  !.print = Found(a.seen)])
    <3>1. PICK s \in Artifacts, c \in Contents :
            Quietly(p, [a EXCEPT !.pc = "settle", !.status = s, !.print = c])
      BY <2>2, <2>4
    <3> DEFINE b == [a EXCEPT !.pc = "settle", !.status = s, !.print = c]
    <3>2. "settle" \in Pcs
      BY DEF Pcs, QuietPcs
    <3>3. b \in Handler
      BY <2>1, <3>2, Compared
    <3>4. b.pc = "settle"
      BY <2>1 DEF Handler
    <3>5. Reached(b, rows', dir', pointer', home')
      BY <3>4, NothingReached DEF DeletePcs
    <3>6. QED
      BY <2>1, <3>1, <3>3, <3>5 DEF Advance
  <2>5. QED
    BY <1>7, <2>3, <2>4 DEF See
<1>8. CASE Settle(p)
  <2>1. Overlap(p, Idle) \/ (Quietly(p, Idle) /\ UNCHANGED <<rows, dir, links>>)
    BY <1>8 DEF Settle, disk
  <2>2. QED
    BY <2>1, LetsGo
<1>9. CASE Insert(p)
  <2>1. Overlap(p, Idle) \/ (Quietly(p, Idle) /\ UNCHANGED <<rows, dir, links>>)
    BY <1>9 DEF Insert, disk, links
  <2>2. QED
    BY <2>1, LetsGo
<1>10. QED
  BY <1>1, <1>2, <1>3, <1>4, <1>5, <1>6, <1>7, <1>8, <1>9, <1>11

LEMMA StartAdvances ==
  ASSUME Tables, Tasks, Handlers, Journeys, NEW p \in Requests, Start(p)
  PROVE  Advance(p)
<1> DEFINE a == req[p]  x == FirstStep(a.op)  b == [a EXCEPT !.pc = x]
<1>1. a \in Handler /\ Prepared(a, Len(tasks)) /\ Reached(a, rows, dir, pointer, home) /\ a.pc = "queued"
  BY DEF Handlers, Journeys, Start
<1>2. a.op \in TaskOps
  BY <1>1 DEF Prepared, TaskPcs
<1>3. /\ x \in {"archive", "request", "point", "migrate", "list"}
      /\ x = "point" => a.op = "assign"
      /\ x = "list" => a.op = "delete"
  BY <1>2 DEF FirstStep, TaskOps
<1>4. x \in Pcs
  BY <1>3 DEF Pcs, TaskPcs
<1>5. b \in Handler /\ b.pc = x /\ Kept(a, b)
  BY <1>1, <1>4, Moved
<1>6. b.ids = a.ids
  BY <1>1 DEF Handler
<1>7. Quietly(p, b) /\ UNCHANGED <<rows, dir, links>>
  BY DEF Start, disk
<1> HIDE DEF b, x
<1>9. Reached(b, rows', dir', pointer', home')
  BY <1>1, <1>3, <1>5, <1>6, <1>7 DEF Reached, Kept, DeletePcs
<1>10. QED
  BY <1>5, <1>7, <1>9 DEF Advance

LEMMA InstallAdvances ==
  ASSUME Tables, Tasks, Handlers, Journeys, NEW p \in Requests,
         Make(p) \/ Copy(p) \/ Fingerprint(p) \/ Record(p)
  PROVE  Advance(p)
<1> DEFINE a == req[p]
<1>1. a \in Handler /\ Prepared(a, Len(tasks)) /\ Reached(a, rows, dir, pointer, home)
  BY DEF Handlers, Journeys
<1>2. a.op = "install" /\ a.version \in Versions /\ a.content \in Contents
  BY <1>1 DEF Prepared, Make, Copy, Fingerprint, Record
<1>3. CASE GivesUp(p)
  BY <1>3, EndAdvances
<1>8. CASE Make(p)
  <2> DEFINE c == [a EXCEPT !.left = Files]  b == [c EXCEPT !.pc = "copy"]
  <2>1. "copy" \in Pcs /\ Files \in SUBSET Files
    BY DEF Pcs, TaskPcs
  <2>2. c \in Handler /\ c.left = Files /\ [a EXCEPT !.pc = "copy", !.left = Files] = b
    BY <1>1, <2>1, LeftSet
  <2>3. b \in Handler /\ b.pc = "copy"
    BY <2>1, <2>2, Moved
  <2>4. b.left = Files
    BY <2>2 DEF Handler
  <2>5. Overlap(p, b)
    BY <1>8, <2>2 DEF Make
  <2> HIDE DEF b
  <2>6. Reached(b, rows', dir', pointer', home')
    BY <2>3, <2>4 DEF Reached, DeletePcs
  <2>7. QED
    BY <2>3, <2>5, <2>6 DEF Advance
<1>4. CASE Copy(p) /\ ~GivesUp(p)
  <2>1. PICK f \in a.left : /\ dir' = [dir EXCEPT ![a.version][f] = a.content]
                            /\ Overlap(p, Copied([a EXCEPT !.left = a.left \ {f}]))
    BY <1>4 DEF Copy
  <2>2. a.left \ {f} \in SUBSET Files /\ f \in Files /\ dir[a.version] # None /\ a.pc = "copy"
    BY <1>1, <1>4 DEF Handler, Copy
  <2> DEFINE c == [a EXCEPT !.left = a.left \ {f}]
  <2>3. PICK x \in {"copy", "fingerprint"} :
          Copied(c) = [c EXCEPT !.pc = x] /\ (x = "fingerprint" => c.left = {})
    BY DEF Copied
  <2>4. x \in Pcs
    BY DEF Pcs, TaskPcs
  <2>5. c \in Handler /\ Kept(a, c) /\ c.left = a.left \ {f}
    BY <1>1, <2>2, <2>4, LeftSet
  <2> HIDE DEF c
  <2> DEFINE b == [c EXCEPT !.pc = x]
  <2>6. b \in Handler /\ b.pc = x /\ Kept(c, b)
    BY <2>4, <2>5, Moved
  <2>7. b.left = a.left \ {f}
    BY <2>5 DEF Handler
  <2>8. Overlap(p, b)
    BY <2>1, <2>3 DEF c
  <2> HIDE DEF b
  <2>9. /\ b.op = "install" /\ b.version = a.version /\ b.content = a.content
        /\ b.clean => a.clean
    BY <1>2, <2>5, <2>6 DEF Kept
  <2>10. /\ dir' \in [Versions -> [Files -> Contents \cup {None}] \cup {None}]
         /\ dir'[a.version] # None
         /\ \A g \in Files : dir'[a.version][g] = IF g = f THEN a.content ELSE dir[a.version][g]
    BY <1>2, <2>1, <2>2, FileChanged
  <2>11. a.clean => \A g \in Files \ b.left : dir'[a.version][g] = a.content
    BY <1>1, <1>2, <2>2, <2>7, <2>10 DEF Reached
  <2>12. a.clean /\ x = "fingerprint" => dir'[a.version] = Package(a.content)
    <3>1. dir'[a.version] \in [Files -> Contents \cup {None}]
      BY <1>2, <2>10
    <3>2. QED
      BY <2>3, <2>5, <2>7, <2>11, <3>1 DEF Package
  <2>13. Reached(b, rows', dir', pointer', home')
    BY <2>6, <2>9, <2>10, <2>11, <2>12 DEF Reached, DeletePcs
  <2>14. QED
    BY <2>6, <2>8, <2>13 DEF Advance
<1>5. CASE Fingerprint(p) /\ ~GivesUp(p)
  <2>1. PICK c \in Contents : Quietly(p, [a EXCEPT !.pc = "record", !.print = c])
    BY <1>2, <1>5, ReadableMeans DEF Fingerprint
  <2>2. UNCHANGED <<rows, dir, links>> /\ a.pc = "fingerprint" /\ "record" \in Pcs
    BY <1>5 DEF Fingerprint, disk, Pcs, TaskPcs
  <2> DEFINE b == [a EXCEPT !.pc = "record", !.print = c]
  <2>3. b \in Handler
    BY <1>1, <2>2, Printed
  <2>4. b.pc = "record" /\ Kept(a, b)
    BY <1>1 DEF Handler, Kept
  <2> HIDE DEF b
  <2>5. Reached(b, rows', dir', pointer', home')
    BY <1>1, <1>2, <2>2, <2>4 DEF Reached, Kept, DeletePcs
  <2>6. QED
    BY <2>1, <2>2, <2>3, <2>5 DEF Advance, b
<1>6. CASE Record(p)
  <2>1. PICK id \in Ids : /\ Overlap(p, [a EXCEPT !.pc = "finish", !.id = id])
                          /\ rows' = [rows EXCEPT ![id] = NewRow(a)]
                          /\ UNCHANGED dir /\ a.pc = "record"
    <3>1. PICK id \in IF Conflicting(a.version) = {} THEN {issued + 1} ELSE Conflicting(a.version) :
            id <= MaxIds /\ Overlap(p, [a EXCEPT !.pc = "finish", !.id = id])
            /\ rows' = [rows EXCEPT ![id] = NewRow(a)]
      BY <1>6 DEF Record, Write
    <3>2. id \in Ids
      BY <3>1 DEF Conflicting, Installed, Tables, Ids
    <3>3. QED
      BY <1>6, <3>1, <3>2 DEF Record, disk
  <2> DEFINE b == [a EXCEPT !.pc = "finish", !.id = id]
  <2>2. "finish" \in Pcs
    BY DEF Pcs, TaskPcs
  <2>3. b \in Handler
    BY <1>1, <2>2, Identified
  <2>4. /\ b.pc = "finish" /\ b.op = a.op /\ b.version = a.version /\ b.content = a.content
        /\ b.id = id /\ b.clean = a.clean
    BY <1>1 DEF Handler
  <2>5. a.print \in Contents
    BY <1>1, <2>1 DEF Prepared
  <2>6. rows'[id] = NewRow(a) /\ NewRow(a) \in Row /\ NewRow(a).version = a.version
        /\ NewRow(a).artifact = "ready"
    BY <1>1, <1>2, <2>1, <2>5, NewRowTyped DEF Tables, NewRow
  <2>7. rows'[id] # None
    BY <2>6, RowAssumption
  <2>8. Overlap(p, b)
    BY <2>1
  <2> HIDE DEF b
  <2>9. Reached(b, rows', dir', pointer', home')
    BY <1>1, <1>2, <2>1, <2>4, <2>6, <2>7 DEF Reached, DeletePcs
  <2>10. QED
    BY <2>3, <2>8, <2>9 DEF Advance
<1>7. QED
  BY <1>3, <1>4, <1>5, <1>6, <1>8

LEMMA EnableAdvances ==
  ASSUME Tables, Tasks, Handlers, Journeys, NEW p \in Requests, Request(p) \/ Load(p) \/ Loaded(p)
  PROVE  Advance(p)
<1> DEFINE a == req[p]
<1>1. a \in Handler /\ Prepared(a, Len(tasks)) /\ Reached(a, rows, dir, pointer, home)
  BY DEF Handlers, Journeys
<1>2. a.op = "enable" /\ a.seen \in Row /\ a.id \in Ids
  BY <1>1 DEF Prepared, Request, Load, Loaded
<1>3. CASE GivesUp(p)
  BY <1>3, EndAdvances
<1>4. CASE Request(p) /\ ~GivesUp(p)
  <2> DEFINE s == [rows[a.id] EXCEPT !.desired = "active_requested",
                     !.availability = Derive("active_requested", a.seen.artifact, a.seen.runtime)]
             b == [a EXCEPT !.pc = "load", !.seen = s]
  <2>1. a.id \in Installed /\ rows' = [rows EXCEPT ![a.id] = s] /\ Overlap(p, b)
    BY <1>4 DEF Request, Write
  <2>2. rows[a.id] \in Row
    BY <2>1 DEF Tables, Installed
  <2>3. s \in Row /\ s.desired = "active_requested"
    BY <1>2, <2>2, RequestedTyped
  <2>4. b \in Handler
    <3>1. "load" \in Pcs
      BY DEF Pcs, TaskPcs
    <3>2. \A t \in Row : [a EXCEPT !.pc = "load", !.seen = t] \in Handler
      BY <1>1, <3>1, Sighted
    <3>3. QED
      BY <2>3, <3>2
  <2>5. b.pc = "load" /\ Kept(a, b)
    <3>1. \A t \in Row : LET c == [a EXCEPT !.pc = "load", !.seen = t]
                         IN  c.pc = "load" /\ Kept(a, c)
      BY <1>1 DEF Handler, Kept
    <3>2. QED
      BY <2>3, <3>1
  <2>6. rows'[a.id] = s /\ s # None
    BY <1>2, <2>1, <2>3, RowAssumption DEF Tables
  <2> HIDE DEF b, s
  <2>7. Reached(b, rows', dir', pointer', home')
    BY <1>2, <2>3, <2>5, <2>6 DEF Reached, Kept, DeletePcs
  <2>8. QED
    BY <2>1, <2>4, <2>7 DEF Advance
<1>5. CASE Load(p)
  <2>1. /\ a.pc = "load" /\ UNCHANGED <<rows, dir, links>>
        /\ \E x \in {"active", "load_failed"} : Quietly(p, [a EXCEPT !.pc = x])
    BY <1>5 DEF Load, disk
  <2>2. CASE Quietly(p, [a EXCEPT !.pc = "load_failed"])
    BY <2>1, <2>2, LetsGo
  <2>3. CASE Quietly(p, [a EXCEPT !.pc = "active"])
    <3> DEFINE b == [a EXCEPT !.pc = "active"]
    <3>1. "active" \in Pcs
      BY DEF Pcs, TaskPcs
    <3>2. b \in Handler /\ b.pc = "active" /\ Kept(a, b)
      BY <1>1, <3>1, Moved
    <3>3. Quietly(p, b)
      BY <2>3
    <3> HIDE DEF b
    <3>4. Reached(b, rows', dir', pointer', home')
      BY <1>1, <1>2, <2>1, <3>2 DEF Reached, Kept, DeletePcs
    <3>5. QED
      BY <2>1, <3>2, <3>3, <3>4 DEF Advance
  <2>4. QED
    BY <2>1, <2>2, <2>3
<1>6. CASE Loaded(p) /\ ~GivesUp(p)
  <2>1. /\ a.id \in Installed /\ rows' = [rows EXCEPT ![a.id] = Snapshot(a.id, a.seen, a.pc)]
        /\ \/ a.pc = "active" /\ Overlap(p, [a EXCEPT !.pc = "finish"])
           \/ a.pc = "load_failed" /\ Overlap(p, [a EXCEPT !.pc = "failing"])
    BY <1>6 DEF Loaded, Write
  <2>2. CASE Overlap(p, [a EXCEPT !.pc = "failing"])
    BY <2>2, LetsGo
  <2>3. CASE a.pc = "active" /\ Overlap(p, [a EXCEPT !.pc = "finish"])
    <3> DEFINE b == [a EXCEPT !.pc = "finish"]
    <3>1. "finish" \in Pcs
      BY DEF Pcs, TaskPcs
    <3>2. b \in Handler /\ b.pc = "finish" /\ Kept(a, b)
      BY <1>1, <3>1, Moved
    <3>3. Overlap(p, b)
      BY <2>3
    <3>4. rows[a.id] \in Row
      BY <2>1 DEF Tables, Installed
    <3>5. /\ Snapshot(a.id, a.seen, "active") \in Row
          /\ Snapshot(a.id, a.seen, "active").desired = rows[a.id].desired
      BY <1>2, <3>4, SnapshotTyped
    <3>6. Snapshot(a.id, a.seen, "active").runtime = "active"
      BY <3>4 DEF Snapshot, Row
    <3>7. rows'[a.id] = Snapshot(a.id, a.seen, "active") /\ rows'[a.id] # None
      BY <1>2, <2>1, <2>3, <3>5, RowAssumption DEF Tables
    <3> HIDE DEF b
    <3>8. Reached(b, rows', dir', pointer', home')
      BY <1>1, <1>2, <2>3, <3>2, <3>5, <3>6, <3>7 DEF Reached, Kept, DeletePcs
    <3>9. QED
      BY <3>2, <3>3, <3>8 DEF Advance
  <2>4. QED
    BY <2>1, <2>2, <2>3
<1>7. QED
  BY <1>3, <1>4, <1>5, <1>6

LEMMA SwitchAdvances ==
  ASSUME Tables, Tasks, Handlers, Journeys, NEW p \in Requests, Migrate(p) \/ Point(p)
  PROVE  Advance(p)
<1> DEFINE a == req[p]
<1>1. a \in Handler /\ Prepared(a, Len(tasks)) /\ Reached(a, rows, dir, pointer, home)
  BY DEF Handlers, Journeys
<1>2. CASE GivesUp(p)
  BY <1>2, EndAdvances
<1>3. CASE Migrate(p) /\ ~GivesUp(p)
  <2> DEFINE b == [a EXCEPT !.pc = "point"]
  <2>1. /\ Overlap(p, b) /\ a.pc = "migrate" /\ "point" \in Pcs
        /\ home' = [i \in Instances |-> IF i \in Of(a.ws) THEN a.id ELSE home[i]]
    BY <1>3 DEF Migrate, Pcs, TaskPcs
  <2>2. b \in Handler /\ b.pc = "point" /\ Kept(a, b) /\ a.op = "switch"
    BY <1>1, <2>1, Moved DEF Prepared
  <2>3. \A i \in Instances : Owner[i] = a.ws => home'[i] \in {a.id, None}
    BY <2>1 DEF Of
  <2> HIDE DEF b
  <2>4. Reached(b, rows', dir', pointer', home')
    BY <2>2, <2>3 DEF Reached, Kept, DeletePcs
  <2>5. QED
    BY <2>1, <2>2, <2>4 DEF Advance
<1>4. CASE Point(p) /\ ~GivesUp(p)
  <2> DEFINE b == [a EXCEPT !.pc = "finish"]
  <2>1. /\ Overlap(p, b) /\ a.pc = "point" /\ "finish" \in Pcs
        /\ pointer' = [pointer EXCEPT ![a.ws] = a.id] /\ UNCHANGED home
    BY <1>4 DEF Point, Pcs, TaskPcs, Assigned
  <2>2. /\ b \in Handler /\ b.pc = "finish" /\ Kept(a, b)
        /\ a.op \in {"assign", "switch"} /\ a.ws \in Workspaces
    BY <1>1, <2>1, Moved DEF Prepared
  <2>3. pointer'[a.ws] = a.id
    BY <2>1, <2>2 DEF Tables
  <2> HIDE DEF b
  <2>4. Reached(b, rows', dir', pointer', home')
    BY <1>1, <2>1, <2>2, <2>3 DEF Reached, Kept, DeletePcs
  <2>5. QED
    BY <2>1, <2>2, <2>4 DEF Advance
<1>5. QED
  BY <1>2, <1>3, <1>4

\* What is left to delete decides where the deletion goes on.
LEMMA DeletingLeaves ==
  ASSUME NEW b \in Handler
  PROVE  /\ Deleting(b).ids = b.ids /\ Deleting(b).victims = b.victims
         /\ Deleting(b).pc \in {"files", "removing", "finish"} => b.ids = {} /\ b.victims = {}
BY DEF Deleting, Handler

LEMMA DeleteAdvances ==
  ASSUME Tables, Tasks, Handlers, Journeys, NEW p \in Requests,
         \/ ListInstances(p) \/ DeleteInstance(p) \/ DeleteRow(p)
         \/ RemoveDirectory(p) \/ RemoveArchive(p)
  PROVE  Advance(p)
<1> DEFINE a == req[p]
<1>1. a \in Handler /\ Prepared(a, Len(tasks)) /\ Reached(a, rows, dir, pointer, home)
  BY DEF Handlers, Journeys
<1>2. /\ a.pc \in {"list", "instances", "rows", "files", "removing"}
      /\ a.ids \in SUBSET Ids /\ a.victims \in SUBSET Instances
      /\ a.paths \in PathSets
  BY <1>1 DEF ListInstances, DeleteInstance, DeleteRow, RemoveDirectory, RemoveArchive, Handler
<1>3. a.op = "delete"
  BY <1>1, <1>2 DEF Prepared
<1>4. ASSUME NEW b \in Handler, Kept(a, b),
             a.clean => /\ \A id \in Ids \ b.ids : rows'[id] = None
                        /\ \A i \in Instances \ b.victims : home'[i] = None,
             \/ Overlap(p, Deleting(b))
             \/ Quietly(p, Deleting(b)) /\ UNCHANGED <<rows, dir, links>>
      PROVE  Advance(p)
  <2>1. Deleting(b) \in Handler /\ Deleting(b).pc \in DeletePcs /\ Kept(b, Deleting(b))
    BY DeletingMoves
  <2>2. /\ Deleting(b).ids = b.ids /\ Deleting(b).victims = b.victims
        /\ Deleting(b).pc \in {"files", "removing", "finish"} => b.ids = {} /\ b.victims = {}
    BY DeletingLeaves
  <2>3. Deleting(b).op = "delete" /\ (Deleting(b).clean => a.clean)
    BY <1>3, <1>4, <2>1 DEF Kept
  <2>4. Reached(Deleting(b), rows', dir', pointer', home')
    BY <1>4, <2>2, <2>3 DEF Reached
  <2>5. QED
    BY <1>4, <2>1, <2>4 DEF Advance
<1>5. CASE GivesUp(p)
  BY <1>5, EndAdvances
<1>6. CASE ListInstances(p)
  <2> DEFINE vs == {i \in Instances : home[i] # None}
             b == [a EXCEPT !.victims = vs]
  <2>1. b \in Handler /\ Kept(a, b)
    BY <1>1, VictimsSet
  <2>2. b.victims = vs /\ b.ids = a.ids
    BY <1>1 DEF Handler
  <2>3. a.pc = "list" /\ Quietly(p, Deleting(b)) /\ UNCHANGED <<rows, dir, links, home>>
    BY <1>6 DEF ListInstances, disk, links
  <2>4. a.clean => \A id \in Ids \ a.ids : rows[id] = None
    BY <1>1, <1>3, <2>3 DEF Reached
  <2> HIDE DEF b
  <2>5. QED
    BY <1>4, <2>1, <2>2, <2>3, <2>4
<1>7. CASE DeleteInstance(p) /\ ~GivesUp(p)
  <2>1. PICK i \in a.victims : /\ Overlap(p, Deleting([a EXCEPT !.victims = a.victims \ {i}]))
                               /\ home' = [home EXCEPT ![i] = None] /\ UNCHANGED rows
                               /\ a.pc = "instances"
    BY <1>7 DEF DeleteInstance
  <2> DEFINE b == [a EXCEPT !.victims = a.victims \ {i}]
  <2>2. a.victims \ {i} \in SUBSET Instances
    BY <1>2
  <2>3. b \in Handler /\ Kept(a, b)
    BY <1>1, <2>2, VictimsSet
  <2>4. b.victims = a.victims \ {i} /\ b.ids = a.ids
    BY <1>1 DEF Handler
  <2>5. a.clean => /\ \A id \in Ids \ a.ids : rows[id] = None
                   /\ \A j \in Instances \ a.victims : home[j] = None
    BY <1>1, <1>3, <2>1 DEF Reached, DeletePcs
  <2>6. \A j \in Instances : home'[j] = IF j = i THEN None ELSE home[j]
    BY <2>1 DEF Tables
  <2>7. Overlap(p, Deleting(b))
    BY <2>1
  <2> HIDE DEF b
  <2>8. QED
    BY <1>4, <2>1, <2>3, <2>4, <2>5, <2>6, <2>7
<1>8. CASE DeleteRow(p) /\ ~GivesUp(p)
  <2>1. PICK id \in a.ids : /\ Overlap(p, Deleting([a EXCEPT !.ids = a.ids \ {id}]))
                            /\ rows' = [rows EXCEPT ![id] = None] /\ UNCHANGED home
                            /\ a.pc = "rows"
    BY <1>8 DEF DeleteRow
  <2> DEFINE b == [a EXCEPT !.ids = a.ids \ {id}]
  <2>2. a.ids \ {id} \in SUBSET Ids
    BY <1>2
  <2>3. b \in Handler /\ Kept(a, b)
    BY <1>1, <2>2, IdsSet
  <2>4. b.ids = a.ids \ {id} /\ b.victims = a.victims
    BY <1>1 DEF Handler
  <2>5. a.clean => /\ \A o \in Ids \ a.ids : rows[o] = None
                   /\ \A j \in Instances \ a.victims : home[j] = None
    BY <1>1, <1>3, <2>1 DEF Reached, DeletePcs
  <2>6. \A o \in Ids : rows'[o] = IF o = id THEN None ELSE rows[o]
    BY <2>1 DEF Tables
  <2>7. Overlap(p, Deleting(b))
    BY <2>1
  <2> HIDE DEF b
  <2>8. QED
    BY <1>4, <2>1, <2>3, <2>4, <2>5, <2>6, <2>7
<1>9. CASE (RemoveDirectory(p) \/ RemoveArchive(p)) /\ ~\E v \in Versions : Clashes(p, v)
  <2>1. PICK u \in Versions \cup {None}, ps \in PathSets : Overlap(p, Removing(a, u, ps))
    <3>1. \A path : a.paths \ {path} \in PathSets
      BY <1>2 DEF PathSets
    <3>2. QED
      BY <1>2, <1>9, <3>1 DEF RemoveDirectory, RemoveArchive
  <2>2. UNCHANGED <<rows, home>> /\ a.pc \in {"files", "removing"}
    BY <1>9 DEF RemoveDirectory, RemoveArchive, links
  <2> DEFINE b == Removing(a, u, ps)
  <2>3. /\ b \in Handler /\ Kept(a, b) /\ b.pc \in {"removing", "finish"}
        /\ b.ids = a.ids /\ b.victims = a.victims
    <3>1. a.op = "delete"
      BY <2>2 DEF Handlers, Prepared
    <3>2. QED
      BY <1>1, <3>1, PathsSet
  <2>4. a.clean => /\ \A o \in Ids \ a.ids : rows[o] = None
                   /\ \A j \in Instances \ a.victims : home[j] = None
                   /\ a.ids = {} /\ a.victims = {}
    BY <1>1, <1>3, <2>2 DEF Reached, DeletePcs
  <2> HIDE DEF b
  <2>5. Reached(b, rows', dir', pointer', home')
    BY <1>3, <2>2, <2>3, <2>4 DEF Reached, Kept
  <2>6. QED
    BY <2>1, <2>3, <2>5 DEF Advance, b
<1>11. CASE \E v \in Versions : Clashes(p, v)
  BY <1>11, EndAdvances
<1>10. QED
  BY <1>5, <1>6, <1>7, <1>8, <1>9, <1>11

LEMMA JourneysNext ==
  ASSUME Sound, Journeys, [Next]_vars
  PROVE  Journeys'
<1> USE DEF Sound, Types
<1>1. CASE \E p \in Requests : Handles(p)
  <2>1. PICK p \in Requests : Handles(p)
    BY <1>1
  <2>2. Advance(p)
    BY <2>1, EndAdvances, StartAdvances, InstallAdvances, EnableAdvances, SwitchAdvances,
       DeleteAdvances DEF Handles, Accepts, AcceptsTask, Works
  <2>3. QED
    BY <2>2, JourneysKept
<1>2. CASE Startups
  <2>1. \A p \in Requests : req'[p] = Idle
    BY <1>2, StartupRows DEF Startups, BootReconcile, BootHosts, HostReconcile, HostRequest,
       HostValidate, Serve, Booting
  <2>2. QED
    BY <2>1 DEF Journeys, Reached, Idle
<1>3. CASE Crash
  <2>1. \A p \in Requests : req'[p] = Idle
    BY <1>3 DEF Crash
  <2>2. QED
    BY <2>1 DEF Journeys, Reached, Idle
<1>4. CASE Tamper
  <2>1. ASSUME NEW p \in Requests
        PROVE  req'[p] = Idle \/ ~req'[p].clean
    <3>1. req'[p] = Idle \/ req'[p] = [req[p] EXCEPT !.clean = FALSE]
      BY <1>4 DEF Tamper
    <3>2. req[p] \in Handler
      BY DEF Handlers
    <3>3. QED
      BY <3>1, <3>2, Touched
  <2>2. QED
    BY <2>1 DEF Journeys, Reached, Idle
<1>5. CASE UNCHANGED vars
  BY <1>5 DEF Journeys, vars
<1>6. QED
  BY <1>1, <1>2, <1>3, <1>4, <1>5 DEF Next, Handles

\* No two handlers have one task.
OneHolder ==
  \A p, q \in Requests : p # q /\ req[p].task = req[q].task => req[p].task = 0

LEMMA OneHolderNext ==
  ASSUME Sound, OneHolder, [Next]_vars
  PROVE  OneHolder'
<1> USE DEF Sound, Types
<1>1. CASE \E p \in Requests : Handles(p)
  <2>1. PICK p \in Requests : Handles(p)
    BY <1>1
  <2>2. Stepped(p)
    BY <2>1, HandlerStep DEF Handles
  <2>3. PICK r \in Handler : Keeps(p, r) /\ (Overlap(p, r) \/ Quietly(p, r))
    BY <2>2 DEF Stepped, Shape
  <2>4. req'[p] = r /\ \A q \in Requests \ {p} : req'[q].task = req[q].task
    BY <2>3, OthersAlike DEF Handlers, Alike
  <2>5. r.task \in {0, req[p].task} \cup (Len(tasks) + 1 .. Len(tasks'))
    BY <2>3 DEF Keeps
  <2>6. \A q \in Requests : req[q].task \in {0} \cup 1 .. Len(tasks)
    BY DEF Handlers, Prepared
  <2>7. Len(tasks) \in Nat /\ Len(tasks') \in Nat
    BY <2>2 DEF Stepped, Tasks
  <2>8. QED
    BY <2>4, <2>5, <2>6, <2>7 DEF OneHolder
<1>2. CASE Startups
  BY <1>2, StartupRows DEF OneHolder
<1>3. CASE Tamper \/ Crash
  BY <1>3, SoundFault, IdleTyped DEF OneHolder, Alike, Idle
<1>4. CASE UNCHANGED vars
  BY <1>4 DEF OneHolder, vars
<1>5. QED
  BY <1>1, <1>2, <1>3, <1>4 DEF Next, Handles

\* A task succeeds in no other step.
LEMMA OnlyFinish ==
  ASSUME Sound, Next, NEW t \in 1 .. Len(tasks), tasks[t] = "running", tasks'[t] = "succeeded"
  PROVE  \E q \in Requests : Finish(q) /\ req[q].task = t
<1> USE DEF Sound, Types
<1>1. tasks' # tasks
  OBVIOUS
<1>2. \A q \in Requests : ~AcceptsTask(q) /\ ~Continue(q)
  <2>1. \A q \in Requests : ~Queues(q)
    <3>1. ASSUME NEW q \in Requests, Queues(q)
          PROVE  FALSE
      <4>1. tasks' = Append(tasks, "queued")
        BY <3>1 DEF Queues, Queue
      <4>2. tasks'[t] = tasks[t]
        BY <4>1 DEF Tasks
      <4>3. QED
        BY <4>2
    <3>2. QED
      BY <3>1
  <2>2. \A q \in Requests : ~Refused(q)
    BY <1>1 DEF Refused
  <2>3. QED
    BY <2>1, <2>2, AcceptQueues, ContinueQueues
<1>3. \A q \in Requests : ~Break(q) /\ ~Drop(q) /\ ~AcceptReconcile(q) /\ ~AcceptInstance(q)
  BY <1>1 DEF Break, Drop, AcceptReconcile, AcceptInstance
<1>4. ~Startups /\ ~Tamper /\ ~Crash
  BY <1>1, StartupRows DEF Tamper, Crash
<1>5. PICK q \in Requests : Works(q)
  BY <1>2, <1>3, <1>4 DEF Next, Accepts, AcceptsTask
<1>6. Start(q) \/ Finish(q) \/ Fail(q)
  <2>1. ~Archive(q) /\ ~Clear(q) /\ ~Make(q) /\ ~Copy(q) /\ ~Fingerprint(q) /\ ~Record(q)
    BY <1>1 DEF Archive, Clear, Make, Copy, Fingerprint, Record, GivesUp, Clashes
  <2>2. ~Request(q) /\ ~Load(q) /\ ~Loaded(q) /\ ~Migrate(q) /\ ~Point(q)
    BY <1>1 DEF Request, Load, Loaded, Migrate, Point, GivesUp
  <2>3. /\ ~ListInstances(q) /\ ~DeleteInstance(q) /\ ~DeleteRow(q)
        /\ ~RemoveDirectory(q) /\ ~RemoveArchive(q)
    BY <1>1 DEF ListInstances, DeleteInstance, DeleteRow, RemoveDirectory, RemoveArchive,
                GivesUp, Clashes
  <2>4. ~See(q) /\ ~Settle(q) /\ ~Insert(q)
    BY <1>1 DEF See, Settle, Insert
  <2>5. QED
    BY <1>2, <1>5, <2>1, <2>2, <2>3, <2>4 DEF Works
<1>7. req[q].task \in 1 .. Len(tasks)
  BY <1>6 DEF Start, Finish, Fail, Handlers, Prepared, TaskPcs
<1>8. tasks \in Seq({"queued", "running", "succeeded", "failed"})
  BY DEF Tasks
<1>9. \A s : Turn(req[q].task, s) =>
        tasks'[req[q].task] = s /\ \A u \in 1 .. Len(tasks) : u # req[q].task => tasks'[u] = tasks[u]
  BY <1>7, <1>8 DEF Turn
<1>10. req[q].task = t
  BY <1>6, <1>9 DEF Start, Finish, Fail
<1>11. Start(q) \/ Fail(q) => tasks'[t] # "succeeded"
  BY <1>9, <1>10 DEF Start, Fail
<1>12. QED
  BY <1>6, <1>10, <1>11

\* A task succeeds only when the rows, pointers, instances and files say so, if no
\* other request wrote anything since the operation began.
THEOREM SuccessMeansIt == Spec => SuccessIsTrue
<1>1. Init => Sound /\ Journeys /\ OneHolder
  <2>1. Init => \A p \in Requests : req[p] = Idle
    BY DEF Init
  <2>2. (\A p \in Requests : req[p] = Idle) => Journeys /\ OneHolder
    BY DEF Journeys, Reached, OneHolder, Idle
  <2>3. QED
    BY <2>1, <2>2, InitSound
<1>2. Sound /\ Journeys /\ OneHolder /\ [Next]_vars => Sound' /\ Journeys' /\ OneHolder'
  BY SoundNext, JourneysNext, OneHolderNext
<1>3. Sound /\ Journeys /\ OneHolder /\ [Next]_vars
        => [\A p \in Requests : Succeeds(p) /\ req[p].clean => Achieved(req[p])]_vars
  <2>1. SUFFICES ASSUME Sound, Journeys, OneHolder, Next,
                        NEW p \in Requests, Succeeds(p), req[p].clean
                 PROVE  Achieved(req[p])
    OBVIOUS
  <2> DEFINE a == req[p]
  <2>2. a.task \in 1 .. Len(tasks) /\ tasks[a.task] = "running" /\ tasks'[a.task] = "succeeded"
    BY <2>1 DEF Succeeds, Sound, Types, Handlers, Prepared
  <2>3. Finish(p)
    BY <2>1, <2>2, OnlyFinish DEF OneHolder
  <2>4. a.pc = "finish" /\ a.op \in TaskOps /\ Reached(a, rows, dir, pointer, home)
    BY <2>1, <2>3 DEF Finish, Sound, Types, Handlers, Prepared, TaskPcs, Journeys
  <2>5. CASE a.op = "install"
    BY <2>1, <2>4, <2>5 DEF Reached, Achieved, Installed
  <2>6. CASE a.op = "enable"
    BY <2>1, <2>4, <2>6 DEF Reached, Achieved, Installed
  <2>7. CASE a.op \in {"assign", "switch"}
    BY <2>1, <2>4, <2>7 DEF Reached, Achieved, Of
  <2>8. CASE a.op = "delete"
    BY <2>1, <2>4, <2>8 DEF Reached, Achieved, DeletePcs, Installed
  <2>9. QED
    BY <2>4, <2>5, <2>6, <2>7, <2>8 DEF TaskOps
<1>4. QED
  BY <1>1, <1>2, <1>3, PTL DEF Spec, SuccessIsTrue
-----------------------------------------------------------------------------
(***************************************************************************)
(* The tasks of all handlers together are a TaskBoard.                     *)
(***************************************************************************)
Pending == {"queued", "running"}

\* A handler at work on a task has neither ended nor lost it.
Working ==
  \A p \in Requests :
    req[p].pc \in HeldPcs => tasks[req[p].task] \in Pending /\ req[p].task \notin lost

\* The handler r has the task t to end.
Has(r, t) == r.task = t /\ r.pc # "next"

LEMMA HeldMeans ==
  /\ Posted = [t \in 1 .. MaxTasks |-> IF t <= Len(tasks) THEN tasks[t] ELSE "none"]
  /\ Held = [t \in 1 .. MaxTasks |-> {p \in Requests : Has(req[p], t)}]
  /\ LeftBehind = {t \in lost : tasks[t] \in Pending}
  /\ Posted' = [t \in 1 .. MaxTasks |-> IF t <= Len(tasks') THEN tasks'[t] ELSE "none"]
  /\ Held' = [t \in 1 .. MaxTasks |-> {p \in Requests : Has(req'[p], t)}]
  /\ LeftBehind' = {t \in lost' : tasks'[t] \in Pending}
BY DEF Posted, Held, LeftBehind, Has, Pending

LEMMA HasMeans ==
  ASSUME Handlers, NEW p \in Requests, NEW t \in 1 .. MaxTasks
  PROVE  /\ Has(req[p], t) <=> req[p].pc \in HeldPcs /\ req[p].task = t
         /\ req[p].pc \in HeldPcs => req[p].task \in 1 .. Len(tasks)
BY DEF Handlers, Prepared, Has, HeldPcs

\* What a handler's step does to the task table
LEMMA TaskSteps ==
  ASSUME Sound, NEW p \in Requests, Handles(p)
  PROVE  \/ Queues(p) /\ req[p].pc \notin HeldPcs
         \/ Start(p) \/ Finish(p) \/ Fail(p) \/ Drop(p)
         \/ Refused(p) /\ req[p].pc = "next" /\ UNCHANGED <<tasks, lost>>
         \/ UNCHANGED <<tasks, lost>> /\ req[p].pc # "next"
<1> USE DEF Sound, Types
<1>1. CASE AcceptsTask(p)
  BY <1>1, AcceptQueues, ArrivesIdle DEF HeldPcs, TaskPcs
<1>2. CASE Continue(p)
  BY <1>2, ContinueQueues DEF Continue, HeldPcs, TaskPcs, Refused, past
<1>3. CASE AcceptReconcile(p) \/ AcceptInstance(p)
  BY <1>3, ArrivesIdle DEF AcceptReconcile, AcceptInstance, past
<1>4. CASE Archive(p) \/ Clear(p) \/ Make(p) \/ Copy(p) \/ Fingerprint(p) \/ Record(p)
  BY <1>4 DEF Archive, Clear, Make, Copy, Fingerprint, Record, GivesUp, Clashes, past
<1>5. CASE Request(p) \/ Load(p) \/ Loaded(p) \/ Migrate(p) \/ Point(p)
  BY <1>5 DEF Request, Load, Loaded, Migrate, Point, GivesUp, past
<1>6. CASE \/ ListInstances(p) \/ DeleteInstance(p) \/ DeleteRow(p)
           \/ RemoveDirectory(p) \/ RemoveArchive(p)
  BY <1>6 DEF ListInstances, DeleteInstance, DeleteRow, RemoveDirectory, RemoveArchive, GivesUp,
              Clashes, past
<1>7. CASE See(p) \/ Settle(p) \/ Insert(p) \/ Break(p)
  BY <1>7 DEF See, Settle, Insert, Break, past
<1>8. QED
  BY <1>1, <1>2, <1>3, <1>4, <1>5, <1>6, <1>7 DEF Handles, Accepts, AcceptsTask, Works

LEMMA PostStep ==
  ASSUME Sound, OneHolder, Working, NEW p \in Requests, Queues(p), req[p].pc \notin HeldPcs
  PROVE  Board!Next /\ Working'
<1> USE DEF Sound, Types
<1> DEFINE t == Len(tasks) + 1
<1>1. PICK b : /\ tasks' = Append(tasks, "queued") /\ Len(tasks) < MaxTasks
               /\ Quietly(p, b) /\ b.pc = "queued" /\ b.task = t /\ UNCHANGED lost
  <2>1. PICK r \in Handler : Queue(p, r) /\ Ready(r) /\ (r.op = "enable" => r.seen = rows[r.id])
    BY DEF Queues
  <2>2. tasks' = Append(tasks, "queued") /\ Len(tasks) < MaxTasks /\ UNCHANGED lost
    BY <2>1 DEF Queue, past
  <2>3. Len(tasks') = t
    BY <2>2 DEF Tasks
  <2>. QED
    BY <2>1, <2>2, <2>3, QueueEffect
<1>2. /\ t \in 1 .. MaxTasks /\ Len(tasks) \in Nat /\ Len(tasks') = t
      /\ \A u \in 1 .. Len(tasks) : tasks'[u] = tasks[u]
      /\ tasks'[t] = "queued" /\ lost \subseteq 1 .. Len(tasks)
  BY <1>1 DEF Tasks
<1>3. req'[p] = b /\ \A q \in Requests \ {p} : req'[q] = req[q]
  BY <1>1 DEF Quietly, Handlers
<1>4. Posted' = [Posted EXCEPT ![t] = "queued"] /\ Posted[t] = "none"
  <2>. DEFINE w == Posted'
  <2>1. w = [u \in 1 .. MaxTasks |-> IF u <= Len(tasks') THEN tasks'[u] ELSE "none"]
    BY HeldMeans
  <2>2. \A u \in 1 .. MaxTasks :
           (IF u <= Len(tasks') THEN tasks'[u] ELSE "none") =
             IF u = t THEN "queued" ELSE IF u <= Len(tasks) THEN tasks[u] ELSE "none"
    BY <1>2
  <2>3. w = [u \in 1 .. MaxTasks |-> IF u = t THEN "queued"
                                     ELSE IF u <= Len(tasks) THEN tasks[u] ELSE "none"]
    BY <2>1, <2>2
  <2>4. /\ Posted = [u \in 1 .. MaxTasks |-> IF u <= Len(tasks) THEN tasks[u] ELSE "none"]
        /\ Posted[t] = "none"
    BY <1>2, HeldMeans
  <2>5. w = [u \in 1 .. MaxTasks |-> IF u = t THEN "queued" ELSE Posted[u]]
    BY <2>3, <2>4
  <2>. HIDE DEF w
  <2>6. w = [Posted EXCEPT ![t] = "queued"]
    BY <2>4, <2>5
  <2>. QED
    BY <2>4, <2>6 DEF w
<1>5. \A u \in 1 .. MaxTasks : p \notin Held[u]
  <2>. SUFFICES ASSUME NEW u \in 1 .. MaxTasks PROVE p \notin Held[u]
    OBVIOUS
  <2>1. ~Has(req[p], u)
    BY HasMeans
  <2>2. Held[u] = {q \in Requests : Has(req[q], u)}
    BY HeldMeans
  <2>. QED
    BY <2>1, <2>2
<1>6. ASSUME NEW q \in Requests, NEW u \in 1 .. MaxTasks
      PROVE  Has(req'[q], u) <=> IF u = t THEN q = p ELSE Has(req[q], u)
  <2>1. CASE q = p
    <3>1. ~Has(req[p], u)
      BY HasMeans
    <3>. QED
      BY <1>1, <1>3, <2>1, <3>1 DEF Has
  <2>2. CASE q # p
    <3>1. ~Has(req[q], t)
      BY <1>2, HasMeans
    <3>. QED
      BY <1>3, <2>2, <3>1
  <2>. QED
    BY <2>1, <2>2
<1>7. Held' = [Held EXCEPT ![t] = {p}]
  <2>. DEFINE h == Held'
  <2>1. h = [u \in 1 .. MaxTasks |-> {q \in Requests : Has(req'[q], u)}]
    BY HeldMeans
  <2>2. h = [u \in 1 .. MaxTasks |-> IF u = t THEN {p} ELSE {q \in Requests : Has(req[q], u)}]
    <3>1. \A u \in 1 .. MaxTasks : {q \in Requests : Has(req'[q], u)} =
             IF u = t THEN {p} ELSE {q \in Requests : Has(req[q], u)}
      BY <1>6
    <3>. QED
      BY <2>1, <3>1
  <2>. HIDE DEF h
  <2>3. h = [Held EXCEPT ![t] = {p}]
    BY <1>2, <2>2, HeldMeans
  <2>. QED
    BY <2>3 DEF h
<1>8. LeftBehind' = LeftBehind
  BY <1>1, <1>2, HeldMeans
<1>9. Board!Post(p, t)
  BY <1>4, <1>5, <1>7, <1>8 DEF Board!Post
<1>10. Working'
  <2>. SUFFICES ASSUME NEW q \in Requests, req'[q].pc \in HeldPcs
                PROVE  tasks'[req'[q].task] \in Pending /\ req'[q].task \notin lost'
    BY DEF Working
  <2>1. CASE q = p
    BY <1>1, <1>2, <1>3, <2>1 DEF Pending
  <2>2. CASE q # p
    BY <1>1, <1>2, <1>3, <2>2, HasMeans DEF Working
  <2>. QED
    BY <2>1, <2>2
<1>. QED
  BY <1>2, <1>9, <1>10 DEF Board!Next

\* What a handler does to its running or queued task
LEMMA TurnStep ==
  ASSUME Sound, OneHolder, Working, NEW p \in Requests, Start(p) \/ Finish(p) \/ Fail(p)
  PROVE  Board!Next /\ Working'
<1> USE DEF Sound, Types
<1> DEFINE t == req[p].task
<1>1. /\ req[p].pc \in HeldPcs /\ t \in 1 .. Len(tasks) /\ Len(tasks) \in Nat
      /\ Len(tasks) <= MaxTasks /\ t \in 1 .. MaxTasks /\ UNCHANGED lost /\ t \notin lost
      /\ tasks[t] \in Pending
  BY HasMeans DEF Start, Finish, Fail, HeldPcs, TaskPcs, Handlers, Prepared, Tasks, Working, past
<1>2. \E x \in {"running", "succeeded", "failed"} :
        /\ Turn(t, x)
        /\ IF x = "running" THEN tasks[t] = "queued" ELSE tasks[t] = "running"
        /\ IF x = "running" THEN Start(p) ELSE Finish(p) \/ Fail(p)
  BY DEF Start, Finish, Fail, Turn, MayTurn
<1>3. PICK x \in {"running", "succeeded", "failed"} :
        /\ Turn(t, x)
        /\ IF x = "running" THEN tasks[t] = "queued" ELSE tasks[t] = "running"
        /\ IF x = "running" THEN Start(p) ELSE Finish(p) \/ Fail(p)
  BY <1>2
<1>4. /\ Len(tasks') = Len(tasks) /\ tasks'[t] = x
      /\ \A u \in 1 .. Len(tasks) : u # t => tasks'[u] = tasks[u]
  BY <1>1, <1>3, TurnTyped
<1>5. PICK b \in Handler :
        /\ Quietly(p, b)
        /\ IF x = "running" THEN b.pc \in HeldPcs /\ b.task = t
           ELSE b.pc \notin HeldPcs /\ (b.pc = "next" \/ b.task = 0)
  <2>1. CASE x = "running"
    <3>1. req[p] \in Handler /\ req[p].op \in TaskOps
      BY <1>1 DEF Handlers, Prepared, HeldPcs
    <3>2. FirstStep(req[p].op) \in HeldPcs
      BY <3>1 DEF FirstStep, TaskOps, HeldPcs, TaskPcs
    <3>. DEFINE c == [req[p] EXCEPT !.pc = FirstStep(req[p].op)]
    <3>3. c \in Handler /\ c.pc = FirstStep(req[p].op) /\ c.task = t
      BY <3>1, <3>2 DEF Handler, HeldPcs, Pcs
    <3>. QED
      BY <1>3, <2>1, <3>2, <3>3 DEF Start
  <2>2. CASE x # "running"
    <3>1. Idle \in Handler /\ Idle.task = 0 /\ Idle.pc \notin HeldPcs
      BY IdleTyped DEF Idle, HeldPcs, TaskPcs
    <3>2. req[p] \in Handler
      BY DEF Handlers
    <3>. DEFINE c == [req[p] EXCEPT !.pc = "next"]
    <3>3. c \in Handler /\ c.pc = "next" /\ c.pc \notin HeldPcs
      BY <3>2 DEF Handler, Pcs, HeldPcs, TaskPcs
    <3>4. Quietly(p, Idle) \/ Quietly(p, c)
      BY <1>3, <2>2 DEF Finish, Fail
    <3>. QED
      BY <2>2, <3>1, <3>3, <3>4
  <2>. QED
    BY <2>1, <2>2
<1>6. req'[p] = b /\ \A q \in Requests \ {p} : req'[q] = req[q]
  BY <1>5 DEF Quietly, Handlers
<1>7. Posted' = [Posted EXCEPT ![t] = x] /\ Posted[t] = tasks[t]
  <2>. DEFINE w == Posted'
  <2>1. w = [u \in 1 .. MaxTasks |-> IF u <= Len(tasks') THEN tasks'[u] ELSE "none"]
    BY HeldMeans
  <2>2. \A u \in 1 .. MaxTasks :
           (IF u <= Len(tasks') THEN tasks'[u] ELSE "none") =
             IF u = t THEN x ELSE IF u <= Len(tasks) THEN tasks[u] ELSE "none"
    BY <1>1, <1>4
  <2>3. w = [u \in 1 .. MaxTasks |-> IF u = t THEN x
                                     ELSE IF u <= Len(tasks) THEN tasks[u] ELSE "none"]
    BY <2>1, <2>2
  <2>4. /\ Posted = [u \in 1 .. MaxTasks |-> IF u <= Len(tasks) THEN tasks[u] ELSE "none"]
        /\ Posted[t] = tasks[t]
    BY <1>1, HeldMeans
  <2>5. w = [u \in 1 .. MaxTasks |-> IF u = t THEN x ELSE Posted[u]]
    BY <2>3, <2>4
  <2>. HIDE DEF w
  <2>6. w = [Posted EXCEPT ![t] = x]
    BY <2>4, <2>5
  <2>. QED
    BY <2>4, <2>6 DEF w
<1>8. p \in Held[t]
  <2>1. Has(req[p], t)
    BY <1>1, HasMeans
  <2>. QED
    BY <1>1, <2>1, HeldMeans
<1>9. LeftBehind' = LeftBehind
  <2>1. \A u \in lost : tasks'[u] = tasks[u]
    BY <1>1, <1>4 DEF Tasks
  <2>. QED
    BY <1>1, <2>1, HeldMeans
<1>10. ASSUME NEW q \in Requests, NEW u \in 1 .. MaxTasks
       PROVE  Has(req'[q], u) <=> Has(req[q], u) /\ (x = "running" \/ u # t)
  <2>1. CASE q = p /\ x = "running"
    BY <1>1, <1>5, <1>6, <2>1 DEF Has, HeldPcs
  <2>2. CASE q = p /\ x # "running"
    <3>1. Has(req[p], u) <=> u = t
      BY <1>1, HasMeans
    <3>2. ~Has(b, u)
      BY <1>5, <2>2 DEF Has
    <3>. QED
      BY <1>6, <2>2, <3>1, <3>2
  <2>3. CASE q # p
    <3>1. ~Has(req[q], t)
      BY <1>1, <2>3 DEF Has, OneHolder
    <3>. QED
      BY <1>6, <2>3, <3>1
  <2>. QED
    BY <2>1, <2>2, <2>3
<1>11. Held' = IF x = "running" THEN Held ELSE [Held EXCEPT ![t] = {}]
  <2>. DEFINE h == Held'
  <2>1. h = [u \in 1 .. MaxTasks |-> {q \in Requests : Has(req'[q], u)}]
    BY HeldMeans
  <2>2. h = [u \in 1 .. MaxTasks |->
               IF x # "running" /\ u = t THEN {} ELSE {q \in Requests : Has(req[q], u)}]
    <3>1. \A u \in 1 .. MaxTasks : {q \in Requests : Has(req'[q], u)} =
             IF x # "running" /\ u = t THEN {} ELSE {q \in Requests : Has(req[q], u)}
      BY <1>10
    <3>. QED
      BY <2>1, <3>1
  <2>. HIDE DEF h
  <2>3. h = IF x = "running" THEN Held ELSE [Held EXCEPT ![t] = {}]
    BY <1>1, <2>2, HeldMeans
  <2>. QED
    BY <2>3 DEF h
<1>12. Board!Begin(p, t) \/ Board!End(p, t)
  <2>1. CASE x = "running"
    BY <1>3, <1>7, <1>8, <1>9, <1>11, <2>1 DEF Board!Begin
  <2>2. CASE x # "running"
    BY <1>3, <1>7, <1>8, <1>9, <1>11, <2>2 DEF Board!End
  <2>. QED
    BY <2>1, <2>2
<1>13. Working'
  <2>. SUFFICES ASSUME NEW q \in Requests, req'[q].pc \in HeldPcs
                PROVE  tasks'[req'[q].task] \in Pending /\ req'[q].task \notin lost'
    BY DEF Working
  <2>1. CASE q = p
    BY <1>1, <1>4, <1>5, <1>6, <2>1 DEF Pending
  <2>2. CASE q # p
    <3>1. req[q].task # t
      BY <1>1, <2>2 DEF OneHolder
    <3>. QED
      BY <1>1, <1>4, <1>6, <2>2, <3>1, HasMeans DEF Working
  <2>. QED
    BY <2>1, <2>2
<1>. QED
  BY <1>1, <1>12, <1>13 DEF Board!Next

\* A step in which nobody takes up or leaves a task is none on the board.
LEMMA NobodyMoves ==
  ASSUME Sound, Working, UNCHANGED <<tasks, lost>>,
         \A q \in Requests :
           IF req[q].pc \in HeldPcs THEN req'[q].pc \in HeldPcs /\ req'[q].task = req[q].task
           ELSE req'[q].pc \notin HeldPcs /\ (req'[q].pc = "next" \/ req'[q].task = 0)
  PROVE  UNCHANGED Board!vars /\ Working'
<1> USE DEF Sound, Types
<1>1. ASSUME NEW q \in Requests, NEW t \in 1 .. MaxTasks
      PROVE  Has(req'[q], t) <=> Has(req[q], t)
  <2>1. Has(req[q], t) <=> req[q].pc \in HeldPcs /\ req[q].task = t
    BY HasMeans
  <2>2. CASE req[q].pc \in HeldPcs
    BY <2>1, <2>2 DEF Has, HeldPcs
  <2>3. CASE req[q].pc \notin HeldPcs
    BY <2>1, <2>3 DEF Has
  <2>. QED
    BY <2>2, <2>3
<1>2. Held' = Held
  <2>. DEFINE h == Held'
  <2>1. h = [t \in 1 .. MaxTasks |-> {q \in Requests : Has(req'[q], t)}]
    BY HeldMeans
  <2>2. h = [t \in 1 .. MaxTasks |-> {q \in Requests : Has(req[q], t)}]
    <3>1. \A t \in 1 .. MaxTasks :
            {q \in Requests : Has(req'[q], t)} = {q \in Requests : Has(req[q], t)}
      BY <1>1
    <3>. QED
      BY <2>1, <3>1
  <2>. QED
    BY <2>2, HeldMeans
<1>3. Posted' = Posted /\ LeftBehind' = LeftBehind
  BY HeldMeans
<1>4. Working'
  BY DEF Working
<1>. QED
  BY <1>2, <1>3, <1>4 DEF Board!vars

\* Handlers are gone: all of them, or the one that was dropped.
LEMMA LeaveStep ==
  ASSUME Sound, Working, NEW gone \in SUBSET Requests, UNCHANGED tasks,
         \A q \in Requests : req'[q] = IF q \in gone THEN Idle ELSE req[q],
         lost' = lost \cup {req[q].task : q \in {h \in gone : req[h].task # 0}},
         \A q \in Requests \ gone : req[q].pc \in HeldPcs => req[q].task \notin lost'
  PROVE  Board!Next /\ Working'
<1> USE DEF Sound, Types
<1>1. Idle.task = 0 /\ Idle.pc \notin HeldPcs
  BY DEF Idle, HeldPcs, TaskPcs
<1>2. ASSUME NEW q \in Requests, NEW t \in 1 .. MaxTasks
      PROVE  Has(req'[q], t) <=> Has(req[q], t) /\ q \notin gone
  BY <1>1 DEF Has
<1>3. Held' = [t \in 1 .. MaxTasks |-> Held[t] \ gone]
  <2>. DEFINE h == Held'
  <2>1. h = [t \in 1 .. MaxTasks |-> {q \in Requests : Has(req'[q], t)}]
    BY HeldMeans
  <2>2. \A t \in 1 .. MaxTasks : Held[t] = {q \in Requests : Has(req[q], t)}
    BY HeldMeans
  <2>3. \A t \in 1 .. MaxTasks : {q \in Requests : Has(req'[q], t)} = Held[t] \ gone
    BY <1>2, <2>2
  <2>4. h = [t \in 1 .. MaxTasks |-> Held[t] \ gone]
    BY <2>1, <2>3
  <2>. QED
    BY <2>4
<1>4. Posted' = Posted
  BY HeldMeans
<1>5. LeftBehind' = LeftBehind \cup {t \in 1 .. MaxTasks : Held[t] \cap gone # {}}
  <2>1. /\ LeftBehind = {t \in lost : tasks[t] \in Pending}
        /\ LeftBehind' = {t \in lost' : tasks[t] \in Pending}
    BY HeldMeans
  <2>2. ASSUME NEW q \in gone, req[q].task # 0, tasks[req[q].task] \in Pending
        PROVE  req[q].task \in 1 .. MaxTasks /\ Has(req[q], req[q].task)
    <3>1. req[q].pc \in TaskPcs /\ req[q].task \in 1 .. Len(tasks)
      BY <2>2 DEF Handlers, Prepared
    <3>2. req[q].pc # "next"
      BY <2>2 DEF Knowing, Ended, Pending
    <3>. QED
      BY <3>1, <3>2 DEF Has, Tasks
  <2>3. ASSUME NEW t \in 1 .. MaxTasks, NEW q \in gone, Has(req[q], t)
        PROVE  t \in lost' /\ tasks[t] \in Pending
    <3>1. req[q].pc \in HeldPcs /\ req[q].task = t
      BY <2>3, HasMeans
    <3>2. t # 0
      OBVIOUS
    <3>. QED
      BY <3>1, <3>2 DEF Working
  <2>4. \A t \in 1 .. MaxTasks : Held[t] \cap gone # {} <=> \E q \in gone : Has(req[q], t)
    <3>1. \A t \in 1 .. MaxTasks : Held[t] = {q \in Requests : Has(req[q], t)}
      BY HeldMeans
    <3>. QED
      BY <3>1
  <2>5. ASSUME NEW t \in LeftBehind'
        PROVE  t \in LeftBehind \/ (t \in 1 .. MaxTasks /\ \E q \in gone : Has(req[q], t))
    BY <2>1, <2>2
  <2>6. LeftBehind \subseteq LeftBehind'
    BY <2>1
  <2>7. \A t \in 1 .. MaxTasks : (\E q \in gone : Has(req[q], t)) => t \in LeftBehind'
    BY <2>1, <2>3
  <2>. QED
    BY <2>4, <2>5, <2>6, <2>7
<1>6. Board!Lose(gone)
  BY <1>3, <1>4, <1>5 DEF Board!Lose
<1>7. Working'
  <2>. SUFFICES ASSUME NEW q \in Requests, req'[q].pc \in HeldPcs
                PROVE  tasks'[req'[q].task] \in Pending /\ req'[q].task \notin lost'
    BY DEF Working
  <2>1. q \notin gone /\ req'[q] = req[q]
    BY <1>1
  <2>. QED
    BY <2>1 DEF Working
<1>. QED
  BY <1>6, <1>7 DEF Board!Next

LEMMA HandlerOnBoard ==
  ASSUME Sound, OneHolder, Working, NEW p \in Requests, Handles(p)
  PROVE  [Board!Next]_(Board!vars) /\ Working'
<1> USE DEF Sound, Types
<1>1. CASE Queues(p) /\ req[p].pc \notin HeldPcs
  BY <1>1, PostStep
<1>2. CASE Start(p) \/ Finish(p) \/ Fail(p)
  BY <1>2, TurnStep
<1>3. CASE Drop(p)
  <2>1. /\ UNCHANGED tasks /\ Quietly(p, Idle)
        /\ lost' = IF req[p].task = 0 THEN lost ELSE lost \cup {req[p].task}
    BY <1>3 DEF Drop
  <2>2. \A q \in Requests : req'[q] = IF q \in {p} THEN Idle ELSE req[q]
    BY <2>1 DEF Quietly, Handlers
  <2>3. lost' = lost \cup {req[q].task : q \in {h \in {p} : req[h].task # 0}}
    BY <2>1
  <2>4. ASSUME NEW q \in Requests \ {p}, req[q].pc \in HeldPcs
        PROVE  req[q].task \notin lost'
    BY <2>1, <2>4, HasMeans DEF Working, OneHolder
  <2>. QED
    BY <2>1, <2>2, <2>3, <2>4, LeaveStep
<1>4. CASE Refused(p) /\ req[p].pc = "next" /\ UNCHANGED <<tasks, lost>>
  <2>1. Idle.task = 0 /\ Idle.pc \notin HeldPcs /\ req[p].pc \notin HeldPcs
    BY <1>4 DEF Idle, HeldPcs, TaskPcs
  <2>2. \A q \in Requests : req'[q] = IF q = p THEN Idle ELSE req[q]
    BY <1>4 DEF Refused, Quietly, Handlers
  <2>3. \A q \in Requests : req[q].pc \notin HeldPcs => req[q].pc = "next" \/ req[q].task = 0
    BY DEF Handlers, Prepared, HeldPcs
  <2>. QED
    BY <1>4, <2>1, <2>2, <2>3, NobodyMoves
<1>5. CASE UNCHANGED <<tasks, lost>> /\ req[p].pc # "next"
  <2>1. Stepped(p)
    BY HandlerStep DEF Handles
  <2>2. PICK r \in Handler : Keeps(p, r) /\ (Overlap(p, r) \/ Quietly(p, r))
    BY <2>1 DEF Stepped, Shape
  <2>3. req'[p] = r /\ \A q \in Requests \ {p} : Alike(req[q], req'[q])
    BY <2>2, OthersAlike DEF Handlers
  <2>4. \A q \in Requests : req[q].pc \notin HeldPcs => req[q].pc = "next" \/ req[q].task = 0
    BY DEF Handlers, Prepared, HeldPcs
  <2>5. CASE req[p].pc \in HeldPcs
    <3>1. r.task = req[p].task /\ r.pc \in HeldPcs
      BY <1>5, <2>2, <2>5 DEF Keeps, Working, Pending
    <3>. QED
      BY <1>5, <2>3, <2>4, <2>5, <3>1, NobodyMoves DEF Alike
  <2>6. CASE req[p].pc \notin HeldPcs
    <3>1. Len(tasks') = Len(tasks) /\ Len(tasks) \in Nat
      BY <1>5 DEF Tasks
    <3>2. r.task = 0
      BY <1>5, <2>2, <2>4, <2>6, <3>1 DEF Keeps
    <3>3. Prepared(r, Len(tasks'))
      BY <2>1, <2>3, HandlersKept DEF Stepped, Handlers
    <3>4. r.pc \notin HeldPcs
      BY <3>1, <3>2, <3>3 DEF Prepared, HeldPcs
    <3>. QED
      BY <1>5, <2>3, <2>4, <2>6, <3>2, <3>4, NobodyMoves DEF Alike
  <2>. QED
    BY <2>5, <2>6
<1>. QED
  BY <1>1, <1>2, <1>3, <1>4, <1>5, TaskSteps

LEMMA BoardNext ==
  ASSUME Sound, OneHolder, Working, [Next]_vars
  PROVE  [Board!Next]_(Board!vars) /\ Working'
<1> USE DEF Sound, Types
<1>0. \A q \in Requests : req[q].pc \notin HeldPcs => req[q].pc = "next" \/ req[q].task = 0
  BY DEF Handlers, Prepared, HeldPcs
<1>1. CASE \E p \in Requests : Handles(p)
  BY <1>1, HandlerOnBoard
<1>2. CASE Startups
  <2>1. UNCHANGED <<tasks, lost, req>>
    BY <1>2, StartupRows DEF past
  <2>. QED
    BY <1>0, <2>1, NobodyMoves
<1>3. CASE Tamper
  <2>1. UNCHANGED <<tasks, lost>> /\ phase = "serving" /\ phase' = phase
    BY <1>3 DEF Tamper, boot
  <2>2. \A q \in Requests : Alike(req[q], req'[q])
    BY <1>3, <2>1, SoundFault DEF Crash
  <2>. QED
    BY <1>0, <2>1, <2>2, NobodyMoves DEF Alike
<1>4. CASE Crash
  <2>1. /\ UNCHANGED tasks /\ \A q \in Requests : req'[q] = IF q \in Requests THEN Idle ELSE req[q]
        /\ lost' = lost \cup {req[q].task : q \in {h \in Requests : req[h].task # 0}}
    BY <1>4 DEF Crash
  <2>. QED
    BY <2>1, LeaveStep
<1>5. CASE UNCHANGED vars
  <2>1. UNCHANGED <<tasks, lost, req>>
    BY <1>5 DEF vars
  <2>. QED
    BY <1>0, <2>1, NobodyMoves
<1>. QED
  BY <1>1, <1>2, <1>3, <1>4, <1>5 DEF Next, Handles

\* However requests overlap, chain their operations, fail, are dropped and die with
\* the server, a task is begun and ended once, by the request that posted it, and
\* one that lost its request is never taken up again.
THEOREM OneOwnerPerTask == Spec => TasksHaveOneOwner
<1>1. Init => Sound /\ OneHolder /\ Working /\ Board!Init
  <2>1. SUFFICES ASSUME Init
                 PROVE  OneHolder /\ Working /\ Board!Init
    BY InitSound
  <2>2. tasks = <<>> /\ lost = {} /\ \A p \in Requests : req[p] = Idle
    BY <2>1 DEF Init
  <2>3. Idle.task = 0 /\ Idle.pc \notin HeldPcs
    BY DEF Idle, HeldPcs, TaskPcs
  <2>4. OneHolder /\ Working
    BY <2>2, <2>3 DEF OneHolder, Working
  <2>5. Posted = [t \in 1 .. MaxTasks |-> "none"]
    <3>1. Len(tasks) = 0
      BY <2>2
    <3>2. \A t \in 1 .. MaxTasks : (IF t <= Len(tasks) THEN tasks[t] ELSE "none") = "none"
      BY <3>1
    <3>. QED
      BY <3>2 DEF Posted
  <2>6. Held = [t \in 1 .. MaxTasks |-> {}]
    <3>1. \A t \in 1 .. MaxTasks : {p \in Requests : Has(req[p], t)} = {}
      BY <2>2, <2>3 DEF Has
    <3>. QED
      BY <3>1, HeldMeans
  <2>7. LeftBehind = {}
    BY <2>2 DEF LeftBehind
  <2>. QED
    BY <2>4, <2>5, <2>6, <2>7 DEF Board!Init
<1>2. Sound /\ OneHolder /\ Working /\ [Next]_vars
        => Sound' /\ OneHolder' /\ Working' /\ [Board!Next]_(Board!vars)
  BY SoundNext, OneHolderNext, BoardNext
<1>. QED
  BY <1>1, <1>2, PTL DEF Spec, TasksHaveOneOwner, Board!Spec
=============================================================================
