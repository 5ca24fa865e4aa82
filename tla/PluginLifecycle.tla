-------------------------- MODULE PluginLifecycle --------------------------
(***************************************************************************)
(* The life of one plugin family (one provider_code): packages on the      *)
(* disk, rows in plugin_installations, the workspaces' version pointers in *)
(* plugin_assignments, the model provider instances that refer to an       *)
(* installation, and the plugin tasks that report what each request did.   *)
(*                                                                         *)
(* A request is an HTTP handler: it may be dropped at any await.  Each     *)
(* repository call is one statement, hence one step; the reads that open a *)
(* handler are one step with the creation of its task, which nothing       *)
(* between them depends on.  No statement is conditional on what the       *)
(* handler read before, so requests write from old readings.  Directories  *)
(* are cleared, written and removed one file a step, in any order; a file  *)
(* that is being written counts as missing.                                *)
(***************************************************************************)
EXTENDS Naturals, Sequences

CONSTANTS
  Requests,     \* handlers that may be in progress
  Versions,     \* versions of the plugin; plugin_id is unique per version
  HostVersions, \* those whose package is a host extension
  Contents,     \* what a package may contain; its manifest tells it
  Files,        \* the files of a package
  Manifest,     \* the one that is compared, manifest.yaml
  Workspaces, Instances,
  Owner,        \* the workspace of each model provider instance
  None,         \* no installation, no value
  MaxIds,       \* bound of the model: installation ids
  MaxTasks,     \* bound of the model: plugin tasks
  MaxFaults     \* bound of the model: crashes, dropped requests, changes of the disk

ASSUME PluginAssumption ==
  /\ HostVersions \subseteq Versions
  /\ Owner \in [Instances -> Workspaces]
  /\ None \notin Contents \cup Instances \cup Versions \cup Workspaces
  /\ Manifest \in Files
  /\ None \notin [Files -> Contents \cup {None}]
  /\ MaxIds \in Nat /\ MaxTasks \in Nat /\ MaxFaults \in Nat
  /\ None \notin 1 .. MaxIds

VARIABLES
  rows,     \* plugin_installations
  issued,   \* ids handed out so far; now_v7 never repeats one
  dir,      \* installed_path of each version: its files, or no directory
  pkg,      \* package_path of each version
  torn,     \* history: versions whose directory was left half cleared or half written
  pointer,  \* plugin_assignments: workspace -> installation
  home,     \* model_provider_instances: instance -> installation
  tasks,    \* plugin_tasks: status of each
  req,      \* the handlers' local state
  phase,    \* startup of the server, then serving
  todo,     \* installations that startup has still to look at
  host,     \* the host extension that startup is activating
  mixed,    \* history: rows last written by a request that others overlapped
  lost,     \* history: tasks whose handler was dropped, or died with the server
  faults    \* history: faults so far

vars == <<rows, issued, dir, pkg, torn, pointer, home, tasks, req, phase, todo, host, mixed, lost, faults>>
disk == <<dir, pkg, torn>>
links == <<pointer, home>>
boot == <<phase, todo, host>>
past == <<lost, faults>>

Ids == 1 .. MaxIds

Artifacts == {"missing", "install_incomplete", "ready", "corrupted"}
Desired == {"disabled", "pending_restart", "active_requested"}
Runtime == {"inactive", "active", "load_failed"}
Availability == {"disabled", "pending_restart", "artifact_missing",
                 "install_incomplete", "load_failed", "available"}

\* manifest is manifest_fingerprint, archive is checksum; origin, the content
\* that the installation was made from, is history.
Row == [version : Versions, desired : Desired, artifact : Artifacts,
        runtime : Runtime, availability : Availability, manifest : Contents,
        archive : Contents \cup {None}, origin : Contents]

ASSUME RowAssumption == None \notin Row

Installed == {id \in Ids : rows[id] # None}

\* The handler's local state when there is no handler.
Idle == [op |-> "none", pc |-> "idle", then |-> <<>>, task |-> 0, id |-> None,
         version |-> None, content |-> None, archived |-> FALSE, ws |-> None,
         inst |-> None, seen |-> None, status |-> "ready", print |-> None,
         left |-> {}, ids |-> {}, victims |-> {}, paths |-> {}, clean |-> TRUE]

-----------------------------------------------------------------------------
\* The directory of a version

\* A whole package of this content, and a directory with no file in it
Package(c) == [f \in Files |-> c]

Empty == Package(None)

\* Files of the version that are there, and that are not
Present(v) == {f \in Files : dir[v] # None /\ dir[v][f] # None}

Lacks(v) == dir[v] # None /\ \E f \in Files : dir[v][f] = None

\* A package is read from its manifest; what else is missing may be noticed.
Readable(v) == Manifest \in Present(v)

\* The files of v that the handler r will still write, or else remove with the rest.
Owes(r, v) ==
  IF r.version = v /\ r.pc \in {"clear", "make"} THEN Files
  ELSE IF r.version = v /\ r.pc = "copy" THEN r.left
  ELSE IF r.pc = "removing" /\ <<v, "directory">> \in r.paths THEN Files
  ELSE {}

\* Another request is at work in the same directory.
Contended(p, v) == \E q \in Requests \ {p} : Owes(req[q], v) # {}

\* The handlers stop, and what they leave half done is torn.
Leave(stopped) ==
  torn' = torn \cup {v \in Versions : Lacks(v) /\ \E q \in stopped : Owes(req[q], v) # {}}

-----------------------------------------------------------------------------
\* derive_availability_status

Derive(desired, artifact, runtime) ==
  CASE desired = "disabled" -> "disabled"
    [] desired = "pending_restart" ->
         IF artifact = "ready" THEN "pending_restart" ELSE "artifact_missing"
    [] desired = "active_requested" /\ artifact = "missing" -> "artifact_missing"
    [] desired = "active_requested" /\ artifact \in {"install_incomplete", "corrupted"} ->
         "install_incomplete"
    [] OTHER -> IF runtime = "active" THEN "available"
                ELSE IF runtime = "load_failed" THEN "load_failed"
                ELSE "install_incomplete"

Derived(r) == Derive(r.desired, r.artifact, r.runtime)

\* reconcile_provider_artifact: what the disk says of the row r.
Observe(r) ==
  LET d == dir[r.version]  a == pkg[r.version] IN
  IF d = None THEN "missing"
  ELSE IF d[Manifest] = None THEN "install_incomplete"
  ELSE IF d[Manifest] # r.manifest THEN "corrupted"
  ELSE IF r.archive = None THEN "ready"
  ELSE IF a = None THEN "install_incomplete"
  ELSE IF a # r.archive THEN "corrupted"
  ELSE "ready"

\* Mutant of Found: what is found is written, manifest or not.
FoundAnything(r) == IF dir[r.version] = None THEN None ELSE dir[r.version][Manifest]

\* The fingerprint that reconcile writes: of the manifest it found, if any.
Found(r) == IF Readable(r.version) THEN dir[r.version][Manifest] ELSE r.manifest

-----------------------------------------------------------------------------
\* How a step changes the handlers

\* The request goes on; whoever else is in progress was overlapped by a write.
Overlap(p, r) ==
  req' = [q \in Requests |->
            IF q = p THEN r
            ELSE IF req[q] = Idle THEN Idle ELSE [req[q] EXCEPT !.clean = FALSE]]

\* The request goes on without having written anything that others read.
Quietly(p, r) == req' = [req EXCEPT ![p] = r]

\* Mutant of MayTurn: a running task can only succeed.
MayTurnWell(from, to) == <<from, to>> \in {<<"queued", "running">>, <<"running", "succeeded">>}

\* ensure_plugin_task_transition
MayTurn(from, to) ==
  \/ from = "queued" /\ to = "running"
  \/ from = "running" /\ to \in {"succeeded", "failed"}

\* update_task_status, after the check
Turn(t, status) ==
  /\ MayTurn(tasks[t], status)
  /\ tasks' = [tasks EXCEPT ![t] = status]

\* The row as the request leaves it, and whether others overlapped the request.
Write(p, id, r) ==
  /\ rows' = [rows EXCEPT ![id] = r]
  /\ mixed' = IF req[p].clean THEN mixed \ {id} ELSE mixed \cup {id}

\* get_installation found no row, or a statement failed: the error is recorded.
GivesUp(p) ==
  /\ Quietly(p, [req[p] EXCEPT !.pc = "failing"])
  /\ UNCHANGED <<rows, issued, disk, links, tasks, boot, mixed, past>>

\* The file system refuses: it may when another request is at work there too.
Clashes(p, v) ==
  /\ Contended(p, v)
  /\ Quietly(p, [req[p] EXCEPT !.pc = "failing"])
  /\ Leave({p})
  /\ UNCHANGED <<rows, issued, dir, pkg, links, tasks, boot, mixed, past>>

\* create_task for an operation that was found admissible.
Queue(p, r) ==
  /\ Len(tasks) < MaxTasks
  /\ tasks' = Append(tasks, "queued")
  /\ Quietly(p, [r EXCEPT !.pc = "queued", !.task = Len(tasks) + 1, !.clean = TRUE])
  /\ UNCHANGED <<rows, issued, disk, links, mixed, past>>

\* A handler starts when startup is over.
Arrives(p) ==
  /\ req[p] = Idle
  /\ phase \in {"fresh", "serving"}
  /\ phase' = "serving" /\ UNCHANGED <<todo, host>>

\* The first step of each operation after its task is running.
FirstStep(op) ==
  CASE op = "install" -> "archive"
    [] op = "enable" -> "request"
    [] op = "assign" -> "point"
    [] op = "switch" -> "migrate"
    [] op = "delete" -> "list"

Start(p) ==
  /\ req[p].pc = "queued"
  /\ Turn(req[p].task, "running")
  /\ Quietly(p, [req[p] EXCEPT !.pc = FirstStep(req[p].op)])
  /\ UNCHANGED <<rows, issued, disk, links, boot, mixed, past>>

-----------------------------------------------------------------------------
\* install_plugin, install_uploaded_plugin, install_official_plugin

\* Bound of the model: a version that is not installed finds an id left.
Install(p, v, c, r) ==
  /\ issued < MaxIds \/ \E id \in Installed : rows[id].version = v
  /\ Queue(p, [r EXCEPT !.op = "install", !.version = v, !.content = c])

\* From a directory of the server, uploaded, or from the official source, which
\* also enables the installation and assigns it.
AcceptInstall(p) ==
  /\ Arrives(p)
  /\ \E v \in Versions, c \in Contents, ws \in Workspaces :
       \/ Install(p, v, c, Idle)
       \/ Install(p, v, c, [Idle EXCEPT !.archived = TRUE])
       \/ Install(p, v, c, [Idle EXCEPT !.archived = TRUE, !.ws = ws,
                                        !.then = <<"enable", "assign">>])

\* upgrade_latest, when the latest version is not installed
AcceptUpgrade(p) ==
  /\ Arrives(p)
  /\ \E v \in Versions \ HostVersions, c \in Contents, ws \in Workspaces :
       /\ pointer[ws] # None /\ \A id \in Installed : rows[id].version # v
       /\ Install(p, v, c, [Idle EXCEPT !.archived = TRUE, !.ws = ws,
                                        !.then = <<"enable", "switch">>])

\* fs::write of the package archive, when the package came as bytes
Archive(p) ==
  /\ req[p].pc = "archive"
  /\ pkg' = IF req[p].archived THEN [pkg EXCEPT ![req[p].version] = req[p].content] ELSE pkg
  /\ Overlap(p, [req[p] EXCEPT !.pc = "clear"])
  /\ UNCHANGED <<rows, issued, dir, torn, links, tasks, boot, mixed, past>>

\* remove_dir_all: one file, or the last one and the directory with it.
Emptied(v, d) ==
  \/ \E f \in Present(v) : Present(v) # {f} /\ d = [dir EXCEPT ![v][f] = None]
  \/ (\A f, g \in Present(v) : f = g) /\ d = [dir EXCEPT ![v] = None]

\* copy_installation_artifact: the old directory goes first, if there is one.
Clear(p) ==
  /\ req[p].pc = "clear"
  /\ LET v == req[p].version IN
     \/ /\ Emptied(v, dir')
        /\ Overlap(p, [req[p] EXCEPT !.pc = IF dir'[v] = None THEN "make" ELSE "clear"])
        /\ UNCHANGED <<rows, issued, pkg, torn, links, tasks, boot, mixed, past>>
     \/ Clashes(p, v)

\* create_dir_all, which takes a directory that is there again
Make(p) ==
  /\ req[p].pc = "make"
  /\ LET v == req[p].version IN
     /\ dir' = IF dir[v] = None THEN [dir EXCEPT ![v] = Empty] ELSE dir
     /\ torn' = torn \ {v}
  /\ Overlap(p, [req[p] EXCEPT !.pc = "copy", !.left = Files])
  /\ UNCHANGED <<rows, issued, pkg, links, tasks, boot, mixed, past>>

\* Mutant of Copied: the last file is not written.
CopiedButOne(r) == [r EXCEPT !.pc = IF \E f \in Files : r.left \subseteq {f}
                                    THEN "fingerprint" ELSE "copy"]

\* copy_dir is over when no file is left.
Copied(r) == [r EXCEPT !.pc = IF r.left = {} THEN "fingerprint" ELSE "copy"]

\* copy_dir: one file goes over what is there; without the directory it fails.
Copy(p) ==
  /\ req[p].pc = "copy"
  /\ LET v == req[p].version IN
     \/ /\ dir[v] # None
        /\ \E f \in req[p].left :
             /\ dir' = [dir EXCEPT ![v][f] = req[p].content]
             /\ Overlap(p, Copied([req[p] EXCEPT !.left = @ \ {f}]))
        /\ UNCHANGED <<rows, issued, pkg, torn, links, tasks, boot, mixed, past>>
     \/ dir[v] = None /\ GivesUp(p)

\* compute_manifest_fingerprint and the loading of the package, from the disk
Fingerprint(p) ==
  /\ req[p].pc = "fingerprint"
  /\ LET v == req[p].version IN
     \/ /\ Readable(v)
        /\ Quietly(p, [req[p] EXCEPT !.pc = "record", !.print = dir[v][Manifest]])
        /\ UNCHANGED <<rows, issued, disk, links, tasks, boot, mixed, past>>
     \/ Present(v) # Files /\ GivesUp(p)

NewRow(r) ==
  LET desired == IF r.version \in HostVersions THEN "pending_restart" ELSE "disabled" IN
  [version |-> r.version, desired |-> desired, artifact |-> "ready",
   runtime |-> "inactive", availability |-> Derive(desired, "ready", "inactive"),
   manifest |-> r.print, archive |-> IF r.archived THEN r.content ELSE None,
   origin |-> r.content]

\* Mutant of Conflicting: plugin_id is not unique.
ConflictingNever(v) == {}

\* The row that an upsert of this plugin_id meets.
Conflicting(v) == {id \in Installed : rows[id].version = v}

\* upsert_installation: on conflict the row keeps its id, all else is overwritten.
Record(p) ==
  /\ req[p].pc = "record"
  /\ LET old == Conflicting(req[p].version) IN
     \E id \in IF old = {} THEN {issued + 1} ELSE old :
       /\ id <= MaxIds
       /\ issued' = IF old = {} THEN id ELSE issued
       /\ Write(p, id, NewRow(req[p]))
       /\ Overlap(p, [req[p] EXCEPT !.pc = "finish", !.id = id])
  /\ UNCHANGED <<disk, links, tasks, boot, past>>

-----------------------------------------------------------------------------
\* enable_plugin

\* get_installation and create_task; a host extension is refused.
Enable(p, id, r) ==
  /\ id \in Installed /\ rows[id].version \notin HostVersions
  /\ Queue(p, [r EXCEPT !.op = "enable", !.id = id, !.version = rows[id].version,
                        !.seen = rows[id]])

AcceptEnable(p) == Arrives(p) /\ \E id \in Ids : Enable(p, id, Idle)

\* update_desired_state: the availability comes from the row as it was read.
Request(p) ==
  /\ req[p].pc = "request"
  /\ LET id == req[p].id  seen == req[p].seen IN
     \/ /\ id \in Installed
        /\ LET r == [rows[id] EXCEPT !.desired = "active_requested",
                       !.availability = Derive("active_requested", seen.artifact, seen.runtime)]
           IN /\ Write(p, id, r)
              /\ Overlap(p, [req[p] EXCEPT !.pc = "load", !.seen = r])
        /\ UNCHANGED <<issued, disk, links, tasks, boot, past>>
     \/ id \notin Installed /\ GivesUp(p)

\* ensure_loaded: the manifest must be on the disk, and the package may be unusable.
Load(p) ==
  /\ req[p].pc = "load"
  /\ \/ /\ Readable(req[p].version)
        /\ Quietly(p, [req[p] EXCEPT !.pc = "active"])
     \/ Quietly(p, [req[p] EXCEPT !.pc = "load_failed"])
  /\ UNCHANGED <<rows, issued, disk, links, tasks, boot, mixed, past>>

\* Mutant of Snapshot: the availability is that of the row before the request.
SnapshotUnderived(id, seen, status) ==
  [rows[id] EXCEPT !.runtime = status, !.availability = seen.availability]

\* The row as update_runtime_snapshot leaves it.
Snapshot(id, seen, status) ==
  [rows[id] EXCEPT !.runtime = status,
     !.availability = Derive(seen.desired, seen.artifact, status)]

\* update_runtime_snapshot after the loading; an error is returned afterwards.
Loaded(p) ==
  /\ req[p].pc \in {"active", "load_failed"}
  /\ LET id == req[p].id IN
     \/ /\ id \in Installed
        /\ Write(p, id, Snapshot(id, req[p].seen, req[p].pc))
        /\ Overlap(p, [req[p] EXCEPT !.pc = IF @ = "active" THEN "finish" ELSE "failing"])
        /\ UNCHANGED <<issued, disk, links, tasks, boot, past>>
     \/ id \notin Installed /\ GivesUp(p)

-----------------------------------------------------------------------------
\* assign_plugin and switch_family_installation

Assign(p, id, r) ==
  /\ id \in Installed /\ rows[id].version \notin HostVersions
  /\ rows[id].desired # "disabled"
  /\ Queue(p, [r EXCEPT !.op = "assign", !.id = id, !.version = rows[id].version])

AcceptAssign(p) ==
  /\ Arrives(p)
  /\ \E id \in Ids, ws \in Workspaces : Assign(p, id, [Idle EXCEPT !.ws = ws])

\* create_task of the switch; the target is the record that was read at first.
Switch(p, id, r) == id \in Installed /\ Queue(p, [r EXCEPT !.op = "switch", !.id = id])

\* switch_version, and upgrade_latest when the version is installed: the target
\* differs from the current installation; if disabled, it is enabled first.
AcceptSwitch(p) ==
  /\ Arrives(p)
  /\ \E id \in Installed, ws \in Workspaces :
       /\ pointer[ws] # None /\ pointer[ws] # id
       /\ LET r == [Idle EXCEPT !.ws = ws, !.version = rows[id].version] IN
          IF rows[id].desired = "disabled"
          THEN Enable(p, id, [r EXCEPT !.then = <<"switch">>])
          ELSE Switch(p, id, r)

Of(ws) == {i \in Instances : Owner[i] = ws /\ home[i] # None}

\* load_provider_package and reassign_instances_to_installation; the foreign key
\* refuses an installation that is gone.  The resetting of the instances' model
\* catalogs, which follows, is left out.
Migrate(p) ==
  /\ req[p].pc = "migrate"
  /\ LET id == req[p].id  ws == req[p].ws
         fails == \/ ~Readable(req[p].version) \/ req[p].version \in HostVersions
                  \/ Of(ws) # {} /\ id \notin Installed
     IN \/ /\ ~fails
           /\ home' = [i \in Instances |->
                         IF i \in Of(ws) THEN id ELSE home[i]]
           /\ Overlap(p, [req[p] EXCEPT !.pc = "point"])
           /\ UNCHANGED <<rows, issued, disk, pointer, tasks, boot, mixed, past>>
        \/ (fails \/ Lacks(req[p].version)) /\ GivesUp(p)

\* Mutant of Assigned: a conflict leaves the pointer where it is.
AssignedOnce(ws, id) == IF pointer[ws] = None THEN [pointer EXCEPT ![ws] = id] ELSE pointer

\* One pointer for each workspace and provider_code; a conflict moves it.
Assigned(ws, id) == [pointer EXCEPT ![ws] = id]

\* create_assignment
Point(p) ==
  /\ req[p].pc = "point"
  /\ LET id == req[p].id IN
     \/ /\ id \in Installed
        /\ pointer' = Assigned(req[p].ws, id)
        /\ Overlap(p, [req[p] EXCEPT !.pc = "finish"])
        /\ UNCHANGED <<rows, issued, disk, home, tasks, boot, mixed, past>>
     \/ id \notin Installed /\ GivesUp(p)

-----------------------------------------------------------------------------
\* delete_family

\* list_installations; a family without installations is not found.
AcceptDelete(p) ==
  /\ Arrives(p)
  /\ Installed # {}
  /\ Queue(p, [Idle EXCEPT !.op = "delete", !.ids = Installed,
                 !.paths = {<<rows[id].version, "directory">> : id \in Installed}
                   \cup {<<rows[id].version, "archive">> :
                           id \in {o \in Installed : rows[o].archive # None}}])

\* What delete_family does next: instances, then rows, then files, then the end.
Deleting(r) ==
  [r EXCEPT !.pc = IF r.victims # {} THEN "instances" ELSE IF r.ids # {} THEN "rows" ELSE "files"]

\* The paths left, and the version whose directory is half removed
Removing(r, v, paths) ==
  [r EXCEPT !.pc = IF paths # {} THEN "removing" ELSE "finish", !.version = v, !.paths = paths]

\* list_instances_by_provider_code, in every workspace
ListInstances(p) ==
  /\ req[p].pc = "list"
  /\ Quietly(p, Deleting([req[p] EXCEPT !.victims = {i \in Instances : home[i] # None}]))
  /\ UNCHANGED <<rows, issued, disk, links, tasks, boot, mixed, past>>

\* delete_instance, one after the other; one that is gone is an error.
DeleteInstance(p) ==
  /\ req[p].pc = "instances"
  /\ \E i \in req[p].victims :
       \/ /\ home[i] # None
          /\ home' = [home EXCEPT ![i] = None]
          /\ Overlap(p, Deleting([req[p] EXCEPT !.victims = @ \ {i}]))
          /\ UNCHANGED <<rows, issued, disk, pointer, tasks, boot, mixed, past>>
       \/ home[i] = None /\ GivesUp(p)

\* Mutant of Deletable: the foreign key of the instances is not there.
DeletableAlways(id) == id \in Installed

\* The row is there, and no instance refers to it (on delete restrict).
Deletable(id) == id \in Installed /\ \A i \in Instances : home[i] # id

\* delete_installation; the pointers to it go with it (on delete cascade).
DeleteRow(p) ==
  /\ req[p].pc = "rows"
  /\ \E id \in req[p].ids :
       \/ /\ Deletable(id)
          /\ rows' = [rows EXCEPT ![id] = None]
          /\ pointer' = [ws \in Workspaces |->
                           IF pointer[ws] = id THEN None ELSE pointer[ws]]
          /\ mixed' = mixed \ {id}
          /\ Overlap(p, Deleting([req[p] EXCEPT !.ids = @ \ {id}]))
          /\ UNCHANGED <<issued, disk, home, tasks, boot, past>>
       \/ ~Deletable(id) /\ GivesUp(p)

\* remove_path_if_exists of an installed_path, when all rows are gone; one
\* directory is removed before the next path.
RemoveDirectory(p) ==
  /\ req[p].pc \in {"files", "removing"}
  /\ \E v \in Versions :
       /\ <<v, "directory">> \in req[p].paths /\ req[p].version \in {None, v}
       /\ \/ /\ Emptied(v, dir')
             /\ torn' = IF dir'[v] = None THEN torn \ {v} ELSE torn
             /\ Overlap(p, IF dir'[v] = None
                           THEN Removing(req[p], None, req[p].paths \ {<<v, "directory">>})
                           ELSE Removing(req[p], v, req[p].paths))
             /\ UNCHANGED <<rows, issued, pkg, links, tasks, boot, mixed, past>>
          \/ Clashes(p, v)

\* and of a package_path, in any order
RemoveArchive(p) ==
  /\ req[p].pc \in {"files", "removing"} /\ req[p].version = None
  /\ \E v \in Versions :
       /\ <<v, "archive">> \in req[p].paths
       /\ pkg' = [pkg EXCEPT ![v] = None]
       /\ Overlap(p, Removing(req[p], None, req[p].paths \ {<<v, "archive">>}))
  /\ UNCHANGED <<rows, issued, dir, torn, links, tasks, boot, mixed, past>>

-----------------------------------------------------------------------------
\* How an operation ends, and what a failure leaves

\* The task succeeds; the handler returns, or goes on with the next operation.
Finish(p) ==
  /\ req[p].pc = "finish"
  /\ Turn(req[p].task, "succeeded")
  /\ Quietly(p, IF req[p].then = <<>> THEN Idle ELSE [req[p] EXCEPT !.pc = "next"])
  /\ UNCHANGED <<rows, issued, disk, links, boot, mixed, past>>

\* The next operation, on the same installation
Goes(p, op, r) ==
  \/ op = "enable" /\ Enable(p, r.id, r)
  \/ op = "assign" /\ Assign(p, r.id, r)
  \/ op = "switch" /\ Switch(p, r.id, r)

\* It refuses: the request ends without a task for it.
Admissible(op, id) ==
  /\ id \in Installed
  /\ op \in {"enable", "assign"} => rows[id].version \notin HostVersions
  /\ op = "assign" => rows[id].desired # "disabled"

Refused(p) ==
  /\ ~Admissible(Head(req[p].then), req[p].id)
  /\ Quietly(p, Idle)
  /\ UNCHANGED <<rows, issued, disk, links, tasks, mixed, past>>

Continue(p) ==
  /\ req[p].pc = "next"
  /\ \/ Goes(p, Head(req[p].then), [req[p] EXCEPT !.then = Tail(@)])
     \/ Refused(p)
  /\ UNCHANGED boot

\* Any call of an operation may fail; what it has written stays.
Break(p) ==
  /\ req[p].task # 0
  /\ req[p].pc \notin {"idle", "queued", "finish", "failing", "next"}
  /\ faults < MaxFaults /\ faults' = faults + 1
  /\ Quietly(p, [req[p] EXCEPT !.pc = "failing"])
  /\ Leave({p})
  /\ UNCHANGED <<rows, issued, dir, pkg, links, tasks, boot, mixed, lost>>

\* Mutant of Fail: the error returns before the task is told.
FailSilently(p) ==
  /\ req[p].pc = "failing"
  /\ Quietly(p, Idle)
  /\ UNCHANGED <<rows, issued, disk, links, tasks, boot, mixed, past>>

\* The error branch: the task fails and the request returns the error.
Fail(p) ==
  /\ req[p].pc = "failing"
  /\ Turn(req[p].task, "failed")
  /\ Quietly(p, Idle)
  /\ UNCHANGED <<rows, issued, disk, links, boot, mixed, past>>

\* The client hangs up, and the handler is dropped at an await; the work on files
\* has none.
Drop(p) ==
  /\ req[p].pc \notin {"idle", "clear", "make", "copy", "fingerprint", "removing"}
  /\ faults < MaxFaults /\ faults' = faults + 1
  /\ Quietly(p, Idle)
  /\ lost' = IF req[p].task = 0 THEN lost ELSE lost \cup {req[p].task}
  /\ UNCHANGED <<rows, issued, disk, links, tasks, boot, mixed>>

-----------------------------------------------------------------------------
\* reconcile_installation_snapshot, by every listing and every use of a provider

AcceptReconcile(p) ==
  /\ Arrives(p)
  /\ \E id \in Installed :
       Quietly(p, [Idle EXCEPT !.op = "reconcile", !.pc = "observe", !.id = id,
                               !.seen = rows[id]])
  /\ UNCHANGED <<rows, issued, disk, links, tasks, mixed, past>>

\* Mutant of Settled: the row keeps its availability.
SettledArtifact(r, status, print) == [r EXCEPT !.artifact = status, !.manifest = print]

\* What reconciling makes of the row seen, if that is the row still.
Settled(r, status, print) ==
  [r EXCEPT !.artifact = status, !.manifest = print,
            !.availability = Derive(r.desired, status, r.runtime)]

\* The disk is compared with the row read before; no difference, no write.
See(p) ==
  /\ req[p].pc = "observe"
  /\ LET seen == req[p].seen IN
     Quietly(p, IF Settled(seen, Observe(seen), Found(seen)) = seen THEN Idle
                ELSE [req[p] EXCEPT !.pc = "settle", !.status = Observe(seen),
                                    !.print = Found(seen)])
  /\ UNCHANGED <<rows, issued, disk, links, tasks, boot, mixed, past>>

\* update_artifact_snapshot: three columns, whatever the row has become; the
\* availability is that of the row as it was read.
Settle(p) ==
  /\ req[p].pc = "settle"
  /\ LET id == req[p].id  r == Settled(req[p].seen, req[p].status, req[p].print) IN
     \/ /\ id \in Installed
        /\ Write(p, id, [rows[id] EXCEPT !.artifact = r.artifact, !.manifest = r.manifest,
                           !.availability = r.availability, !.archive = r.archive])
        /\ Overlap(p, Idle)
     \/ id \notin Installed /\ Quietly(p, Idle) /\ UNCHANGED <<rows, mixed>>
  /\ UNCHANGED <<issued, disk, links, tasks, boot, past>>

-----------------------------------------------------------------------------
\* create_instance of a model provider

\* The installation is assigned to the workspace, not disabled, and loadable.
AcceptInstance(p) ==
  /\ Arrives(p)
  /\ \E i \in Instances, id \in Installed :
       /\ home[i] = None
       /\ pointer[Owner[i]] = id
       /\ rows[id].desired # "disabled" /\ Readable(rows[id].version)
       /\ Quietly(p, [Idle EXCEPT !.op = "instance", !.pc = "insert", !.id = id, !.inst = i,
                                  !.ws = Owner[i]])
  /\ UNCHANGED <<rows, issued, disk, links, tasks, mixed, past>>

\* create_instance; the foreign key refuses an installation that is gone.
Insert(p) ==
  /\ req[p].pc = "insert"
  /\ LET id == req[p].id  i == req[p].inst IN
     \/ /\ id \in Installed /\ home[i] = None
        /\ home' = [home EXCEPT ![i] = id]
        /\ Overlap(p, Idle)
     \/ (id \notin Installed \/ home[i] # None) /\ Quietly(p, Idle) /\ UNCHANGED home
  /\ UNCHANGED <<rows, issued, disk, pointer, tasks, boot, mixed, past>>

-----------------------------------------------------------------------------
\* The world outside, and the startup of the server

\* Something else changes or removes a file of a version, or removes its directory
\* (bound of the model: not while the server starts).
Tamper ==
  /\ phase = "serving"
  /\ faults < MaxFaults /\ faults' = faults + 1
  /\ \E v \in Versions :
       /\ dir[v] # None
       /\ \/ /\ \E f \in Files, c \in Contents :
                  dir[v][f] # c /\ dir' = [dir EXCEPT ![v][f] = c]
             /\ UNCHANGED torn
          \/ /\ \E f \in Present(v) : dir' = [dir EXCEPT ![v][f] = None]
             /\ torn' = torn \cup {v}
          \/ /\ dir' = [dir EXCEPT ![v] = None]
             /\ torn' = torn \ {v}
  /\ req' = [q \in Requests |-> IF req[q] = Idle THEN Idle
                                ELSE [req[q] EXCEPT !.clean = FALSE]]
  /\ UNCHANGED <<rows, issued, pkg, links, tasks, boot, mixed, lost>>

\* The server dies, while it starts as often as it likes.
Crash ==
  /\ \/ phase \in {"fresh", "serving"} /\ faults < MaxFaults /\ faults' = faults + 1
     \/ phase \notin {"fresh", "serving"} /\ UNCHANGED faults
  /\ Leave(Requests)
  /\ req' = [q \in Requests |-> Idle]
  /\ phase' = "boot" /\ todo' = Installed /\ host' = None
  /\ lost' = lost \cup {req[p].task : p \in {q \in Requests : req[q].task # 0}}
  /\ UNCHANGED <<rows, issued, dir, pkg, links, tasks, mixed>>

Startup(id, r) ==
  /\ rows' = [rows EXCEPT ![id] = r]
  /\ mixed' = mixed \ {id}
  /\ UNCHANGED <<issued, disk, links, tasks, req, past>>

\* reconcile_all_installations
BootReconcile ==
  /\ phase = "boot"
  /\ \E id \in todo :
       /\ Startup(id, Settled(rows[id], Observe(rows[id]), Found(rows[id])))
       /\ todo' = todo \ {id}
  /\ UNCHANGED <<phase, host>>

\* load_host_extensions_at_startup: list_pending_restart_host_extensions
BootHosts ==
  /\ phase = "boot" /\ todo = {}
  /\ phase' = "hosts"
  /\ todo' = {id \in Installed : /\ rows[id].desired = "pending_restart"
                                 /\ rows[id].version \in HostVersions}
  /\ UNCHANGED <<rows, issued, disk, links, tasks, req, host, mixed, past>>

\* activate_pending_restart_installation looks at the artifact again.
HostReconcile ==
  /\ phase = "hosts"
  /\ \E id \in todo :
       LET r == Settled(rows[id], Observe(rows[id]), Found(rows[id])) IN
       /\ Startup(id, r)
       /\ todo' = todo \ {id}
       /\ IF r.artifact = "ready" THEN phase' = "request" /\ host' = id
          ELSE UNCHANGED <<phase, host>>

HostRequest ==
  /\ phase = "request"
  /\ Startup(host, [rows[host] EXCEPT !.desired = "active_requested",
                      !.availability = Derive("active_requested", rows[host].artifact,
                                              rows[host].runtime)])
  /\ phase' = "validate"
  /\ UNCHANGED <<todo, host>>

\* validate_host_extension_installation, which a package may fail
HostValidate ==
  /\ phase = "validate"
  /\ \E status \in {"active", "load_failed"} :
       /\ status = "active" => Readable(rows[host].version)
       /\ Startup(host, Snapshot(host, rows[host], status))
  /\ phase' = "hosts" /\ host' = None
  /\ UNCHANGED todo

Serve ==
  /\ phase = "hosts" /\ todo = {}
  /\ phase' = "fresh"
  /\ UNCHANGED <<rows, issued, disk, links, tasks, req, todo, host, mixed, past>>

-----------------------------------------------------------------------------
\* A family as earlier requests have left it: each version was installed and
\* perhaps enabled, the workspaces use one that is enabled, and their instances
\* are on it.
Fresh(v, c, enabled, archived) ==
  [version |-> v,
   desired |-> IF v \in HostVersions THEN "pending_restart"
               ELSE IF enabled THEN "active_requested" ELSE "disabled",
   artifact |-> "ready",
   runtime |-> IF enabled /\ v \notin HostVersions THEN "active" ELSE "inactive",
   availability |-> IF v \in HostVersions THEN "pending_restart"
                    ELSE IF enabled THEN "available" ELSE "disabled",
   manifest |-> c, archive |-> IF archived THEN c ELSE None, origin |-> c]

Init ==
  /\ issued \in 0 .. MaxIds
  /\ \E of \in [1 .. issued -> Versions], what \in [1 .. issued -> Contents],
        enabled \in [1 .. issued -> BOOLEAN], archived \in BOOLEAN :
       /\ \A id, o \in 1 .. issued : of[id] = of[o] => id = o
       /\ rows = [id \in Ids |-> IF id <= issued
                                 THEN Fresh(of[id], what[id], enabled[id], archived)
                                 ELSE None]
       /\ dir = [v \in Versions |->
                   IF \E id \in 1 .. issued : of[id] = v
                   THEN Package(what[CHOOSE id \in 1 .. issued : of[id] = v]) ELSE None]
       /\ pkg = [v \in Versions |->
                   IF \E id \in 1 .. issued : of[id] = v /\ archived
                   THEN what[CHOOSE id \in 1 .. issued : of[id] = v] ELSE None]
  /\ torn = {}
  /\ pointer \in [Workspaces -> {None} \cup {id \in Installed : rows[id].runtime = "active"}]
  /\ home \in [Instances -> Ids \cup {None}]
  /\ \A i \in Instances : home[i] \in {None, pointer[Owner[i]]}
  /\ tasks = <<>>
  /\ req = [p \in Requests |-> Idle]
  /\ phase = "serving" /\ todo = {} /\ host = None
  /\ mixed = {} /\ lost = {} /\ faults = 0

\* The steps that a handler takes of itself.
Works(p) ==
  \/ Start(p) \/ Archive(p) \/ Clear(p) \/ Make(p) \/ Copy(p) \/ Fingerprint(p) \/ Record(p)
  \/ Request(p) \/ Load(p) \/ Loaded(p) \/ Migrate(p) \/ Point(p)
  \/ ListInstances(p) \/ DeleteInstance(p) \/ DeleteRow(p)
  \/ RemoveDirectory(p) \/ RemoveArchive(p)
  \/ Finish(p) \/ Continue(p) \/ Fail(p) \/ See(p) \/ Settle(p) \/ Insert(p)

Accepts(p) ==
  \/ AcceptInstall(p) \/ AcceptUpgrade(p) \/ AcceptEnable(p) \/ AcceptAssign(p) \/ AcceptSwitch(p)
  \/ AcceptDelete(p) \/ AcceptReconcile(p) \/ AcceptInstance(p)

Startups ==
  BootReconcile \/ BootHosts \/ HostReconcile \/ HostRequest \/ HostValidate \/ Serve

Next ==
  \/ \E p \in Requests : Accepts(p) \/ Works(p) \/ Break(p) \/ Drop(p)
  \/ Startups \/ Tamper \/ Crash

\* A handler that is not dropped goes on, and so does startup.
Spec == /\ Init /\ [][Next]_vars
        /\ \A p \in Requests : WF_vars(Works(p))
        /\ WF_vars(Startups)

-----------------------------------------------------------------------------
\* Type invariant

\* The variables have the shapes that the tables, the disk and the handlers have.
TypeOK ==
  /\ rows \in [Ids -> Row \cup {None}]
  /\ issued \in 0 .. MaxIds /\ Installed \subseteq 1 .. issued
  /\ dir \in [Versions -> [Files -> Contents \cup {None}] \cup {None}]
  /\ pkg \in [Versions -> Contents \cup {None}]
  /\ torn \subseteq Versions
  /\ pointer \in [Workspaces -> Ids \cup {None}]
  /\ home \in [Instances -> Ids \cup {None}]
  /\ tasks \in Seq({"queued", "running", "succeeded", "failed"})
  /\ Len(tasks) <= MaxTasks
  /\ \A p \in Requests : /\ req[p].task \in 0 .. Len(tasks)
                         /\ req[p].id \in Ids \cup {None}
                         /\ req[p].seen \in Row \cup {None}
  /\ phase \in {"boot", "hosts", "request", "validate", "fresh", "serving"}
  /\ todo \subseteq Ids /\ host \in Ids \cup {None}
  /\ mixed \subseteq Ids /\ lost \subseteq 1 .. Len(tasks) /\ faults \in 0 .. MaxFaults

-----------------------------------------------------------------------------
\* Safety

\* Whatever requests overlap, a workspace never points to an installation that was
\* deleted, and no model provider instance refers to one: the migrations, the
\* inserts and the deletion of a family meet in the foreign keys.
ReferencesExist ==
  /\ \A ws \in Workspaces : pointer[ws] \in Installed \cup {None}
  /\ \A i \in Instances : home[i] \in Installed \cup {None}

\* There is never more than one row of a version, so its files have one owner.
OneRowPerVersion ==
  \A id, o \in Installed : rows[id].version = rows[o].version => id = o

\* Each of the five writers derives the availability from columns that it read
\* before. A row whose last writer nobody overlapped has the availability that its
\* own columns derive, after failures, dropped requests, and restarts too.
AvailabilityUnlessOverlapped ==
  \A id \in Installed \ mixed : rows[id].availability = Derived(rows[id])

\* When startup is over and nothing has been asked yet, no row promises what the
\* manifest and the archive on the disk do not hold: the last crash may have come
\* between any two steps, two files included. Of the other files one may be missing
\* from a ready row's directory, but only if a request was stopped in the midst of
\* clearing, writing or removing it, or something else changed it.
StartupTellsTheTruth ==
  phase = "fresh" =>
    \A id \in Installed :
      LET r == rows[id] IN
      /\ r.availability = Derived(r)
      /\ r.artifact = "ready" =>
           /\ Readable(r.version) /\ dir[r.version][Manifest] = r.manifest
           /\ r.archive \in {None, pkg[r.version]}
           /\ r.version \notin torn => ~Lacks(r.version)
      /\ r.artifact = "missing" => dir[r.version] = None
      /\ r.version \in HostVersions /\ r.artifact = "ready" => r.desired # "pending_restart"

\* A task that has not ended has a handler that will end it, unless that handler
\* was dropped: neither an error branch nor a chain of operations forgets one.
TasksAreHeld ==
  \A t \in 1 .. Len(tasks) :
    tasks[t] \in {"queued", "running"} =>
      t \in lost \/ \E p \in Requests : req[p].task = t /\ req[p].pc \notin {"idle", "next"}

-----------------------------------------------------------------------------
\* Action and temporal properties

\* What the success of an operation means to a reader of the tables.
Achieved(r) ==
  CASE r.op = "install" ->
         /\ r.id \in Installed /\ rows[r.id].version = r.version
         /\ rows[r.id].artifact = "ready" /\ dir[r.version] = Package(r.content)
    [] r.op = "enable" ->
         /\ r.id \in Installed /\ rows[r.id].desired = "active_requested"
         /\ rows[r.id].runtime = "active"
    [] r.op = "assign" -> pointer[r.ws] = r.id
    [] r.op = "switch" -> pointer[r.ws] = r.id /\ \A i \in Of(r.ws) : home[i] = r.id
    [] r.op = "delete" -> Installed = {} /\ \A i \in Instances : home[i] = None

Succeeds(p) ==
  /\ req[p].task # 0
  /\ tasks[req[p].task] = "running" /\ tasks'[req[p].task] = "succeeded"

\* A task succeeds only when the rows, pointers, instances and files say so, if no
\* other request wrote anything since the operation began.
SuccessIsTrue == [][\A p \in Requests : Succeeds(p) /\ req[p].clean => Achieved(req[p])]_vars

\* The tasks as a reader of plugin_tasks sees them, who works on each, and which
\* of them nobody will end
Posted == [t \in 1 .. MaxTasks |-> IF t <= Len(tasks) THEN tasks[t] ELSE "none"]

Held == [t \in 1 .. MaxTasks |-> {p \in Requests : req[p].task = t /\ req[p].pc # "next"}]

LeftBehind == {t \in lost : tasks[t] \in {"queued", "running"}}

Board == INSTANCE TaskBoard WITH
  Tasks <- 1 .. MaxTasks, Handlers <- Requests, board <- Posted, held <- Held,
  lost <- LeftBehind

\* However requests overlap, chain their operations, fail, are dropped and die with
\* the server, a task is begun and ended once, by the request that posted it, and
\* one that lost its request is never taken up again.
TasksHaveOneOwner == Board!Spec

\* Every operation whose handler is not dropped ends its task, in success or failure.
EveryTaskEnds ==
  \A t \in 1 .. MaxTasks :
    (t <= Len(tasks)) ~>
      (t \in lost \/ (t <= Len(tasks) /\ tasks[t] \in {"succeeded", "failed"}))

\* What the lifecycle design promises of a tampered package: after a startup has
\* compared everything, a row is ready only if the disk holds the manifest of what
\* was installed.
ReadyIsWhatWasInstalled ==
  phase = "fresh" =>
    \A id \in Installed :
      rows[id].artifact = "ready" => dir[rows[id].version][Manifest] = rows[id].origin

\* What it promises of an installation that a crash cut short: a directory that
\* lacks a file is install_incomplete, not ready.
IncompleteIsNoticed ==
  phase = "fresh" =>
    \A id \in Installed : rows[id].artifact = "ready" => ~Lacks(rows[id].version)
=============================================================================
