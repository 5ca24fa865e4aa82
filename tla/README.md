# 1flowse — a TLA+ verification development

1flowse is a workflow platform: a Rust API server (`src/api`) in which users
draft flows, debug-run them, install plugins that provide models and tools, and
define data models; a separate plugin runner hosts the plugins' processes. This
directory holds TLA+ modules translated from that source, TLC configurations
that check them on small instances, and TLAPS proofs that hold for every
instance. `PROJECT.json` maps every definition to the lines it stands for.

Paths below are relative to `src/api/` unless they start with `src/`.

## 1. The system

| component | state | operations | interacts with | hard part |
|---|---|---|---|---|
| **Runtime event stream** `apps/api-server/src/host_infrastructure/local_runtime_event_stream.rs` | per run: sequence counter, bounded ring, broadcast channel, closed flag; per subscription: receiver, `last_sent_sequence` | open, append, subscribe, replay, close, trim | written by executor, canceller, route; read by SSE sender and persister | the ring lock is released before the broadcast; receivers lag; ring overflows; snapshot races with appends |
| **Flow debug run lifecycle** `crates/control-plane/src/orchestration_runtime/{live_debug_run,persistence}.rs`, `orchestration_runtime.rs`, `state_transition.rs` | rows: run status, compiled plan id, node runs, checkpoints, callback tasks | start, prepare, continue, fail, cancel, resume, complete callback | database, event stream, execution engine | read-check-write without a condition; several requests on one run; failure between two writes; restart |
| **Flow execution engine** `crates/orchestration-runtime` | variable pool, index in the plan | execute from a node until wait, failure or end; fail over between model targets | run lifecycle, plugin runner | two executors (live, resume) that differ; failover after partial output |
| **Debug run streaming** `apps/api-server/src/routes/applications/{application_runtime,debug_run_stream}.rs`, `debug_event_persister.rs`, `debug_stream_events.rs` | SSE channel; persister's batch and cursor | spawn the worker, fallback terminal event, forward to the browser, persist in batches, wait 2 s | event stream, run lifecycle, database | a batch is lost when its write fails; writers race for sequence numbers; a run that ends without a terminal event |
| **Compiler and bindings** `crates/orchestration-runtime/src/{compiler,binding_runtime}.rs` | none | document to plan: topological order, dependencies, bindings | run lifecycle | cycles, order |
| **Run events, usage ledger, audit chain** `crates/storage-durable/postgres/src/orchestration_runtime_repository.rs`, `audit.rs` | event rows numbered by `max(sequence) + 1`, hash of the previous audit row | append | every writer of a run | a read and an insert with nothing locked between them |
| **Task queue** `crates/storage-ephemeral/src/local/memory_task_queue.rs` | per queue the ids in order; tasks with claimant and deadline; idempotency index | enqueue, claim, ack, fail | any workers, behind the `TaskQueue` port | a claim expiring under its worker; takeover; late ack or fail; three collections kept in step |
| **Ephemeral stores** the rest of `crates/storage-ephemeral` | leases, sessions, rate counters, caches, with time to live | acquire, renew, release, touch, hit | many services | expiry racing with the owner; read-modify-write |
| **Plugin lifecycle** `crates/control-plane/src/plugin_lifecycle.rs`, `plugin_management/`, `apps/api-server/src/host_extension_loader.rs` | rows of installations, assignments, model provider instances and tasks; the package directories | install, upgrade, enable, assign, switch, delete, reconcile, create an instance; startup | database, plugin runner, file system | handlers write from rows they read several statements before; files and rows change separately; a restart between two of the steps |
| **Plugin runner hosts** `apps/plugin-runner` | loaded packages, child processes | load, reload, validate, invoke with timeout | child process over stdio | reload during an invocation, timeout racing an answer |
| **Model definitions and registry** `crates/control-plane/src/model_definition.rs`, `crates/storage-durable/postgres/src/{model_definition_repository,physical_schema_repository,runtime_record_repository}`, `apps/api-server/src/runtime_registry_sync.rs`, `crates/runtime-core` | metadata rows, physical tables, columns and join tables, in-memory registry | create, grant, add and delete fields, change status, delete; rebuild; record CRUD | database | the registry is rebuilt from several reads that no lock orders; row locks and deadlocks; a failed transaction leaves a row behind |
| **Model providers, auth, access control, host extensions, data sources, object storage, plugin framework, observability** | configuration rows | request and response services | database | little: one request at a time over a transactional database |

What makes each modelled component correct:

* *Event stream*: a consumer gets each event at most once and in order; no
  required event is skipped; nothing retained is left behind when the forwarding
  task is idle; a required event eventually arrives; only required events let
  the ring outgrow its limit.
* *Flow run*: a waiting run can be resumed; a run reported as succeeded has a
  succeeded node run for every node; an ended shell is never executed; a settled
  run stays settled; a cancelled run stops; a closed stream holds a terminal
  event; a run does not stay running with nobody at work.
* *Task queue*: a worker holds a task for as long as it was told; a task leaves
  only by the ack of its holder, and never becomes unclaimable; a repeated key
  finds its task while it lives.
* *Debug run streaming*: the history accounts for every event it has taken, once
  and in order; browser and history hear of one ending, the same one, and it is
  what became of the run; both consumers end once the run has.
* *Plugin lifecycle*: no reference to an installation that is gone; one row for
  each version; an availability that follows from the row's other columns; a
  task that succeeded has done what was asked; every task ends; after a start
  no row promises a manifest or an archive that the disk does not hold.
* *Model registry*: metadata and physical schema agree, whatever fails or
  deadlocks; the registry is what the metadata says; record operations reach
  their tables; a health verdict that is written is true; every request ends.

## 2. The modules

```
OrderedFeed                    what a consumer of an event stream may rely on
   ^ implemented by
RuntimeEventStream             ring, broadcast channel, forwarding tasks
   |- MCRuntimeEventStream     the instance TLC checks
   |- RuntimeEventStreamProofs the theorems
StatusRecord                   what writers that lock nothing keep to
   ^ implemented by FlowRun and by DebugRunStream
FlowRun                        one run: worker, cancel, resume, callback, restart
   |- MCFlowRun                the instance TLC checks
   |- FlowRunProofs            types, and the control state they depend on
      <- FlowRunSafetyProofs   who may write when: cancel, shell, stream
         <- FlowRunRowsProofs  what the rows say of the status
ClaimQueue                     what the users of a task queue may rely on
   ^ implemented by
TaskQueue                      deques, tasks, idempotency index, expiring claims
   |- MCTaskQueue              the instance TLC checks
   |- TaskQueueProofs          the theorems
DebugRunStream                 worker, trace, cancel or resume; browser and history
   |- MCDebugRunStream         the instance TLC checks
   |- DebugRunStreamProofs     the theorems
TaskBoard                      whose the plugin tasks are, and how they end
   ^ implemented by
PluginLifecycle                overlapping requests on one plugin family; startup
   |- MCPluginLifecycle        the instances TLC checks
   |- PluginLifecycleProofs    the theorems
ModelRegistry                  metadata, tables, registry, record operations
   |- MCModelRegistry          the instances TLC checks
   |- ModelRegistryProofs      the theorems
```

`DebugRunStream` composes what the first two components offer: it uses the
stream through the promise of `OrderedFeed` (every required event, in order), which
`RuntimeEventStream` is proved to keep, and the run through the statuses that
`FlowRun` has in full.

### RuntimeEventStream

One `LocalRunEventStream`. `fetch_add` and `push_back` share a critical section,
so the deque is sorted by sequence and is modelled as the set `ring` of the
sequence numbers in it; `log[n]` records whether event n is `is_required_event`.

| code | model |
|---|---|
| `open_run` | `OpenRun` |
| `append`: lock, closed test, `fetch_add`, `push_back`, `trim_overflow` | `AppendEvent(p, required)` |
| `append`: `broadcaster.send` after the lock is released | `Broadcast(p)` |
| `close_run`, `trim` | `CloseRun`, `TrimRun` |
| `subscribe`: `broadcaster.subscribe()` | `Attach` |
| `subscribe`: `replay_from_ring` and the spawned task | `Refuse`, `Snapshot` |
| `recv` yields `Lagged` or an event | `RecvLagged`, `RecvEvent` |
| `send_retained_after_sequence`: clone under the ring lock | `ReadRing` |
| its loop, one `sender.send` per turn | `SendRetained` |
| the received event afterwards, with its second sequence test | `SendCurrent` |
| the consumer drops `live_events` | `DropConsumer` |

A receiver and the ring are separate objects, so receiving, looking at the ring
and every send are steps of their own and producers may run between any two.
The tokio channel is external: a receiver keeps the newest `BroadcastCapacity`
messages and is told once, before its next message, that it lost some. `replay`
is a pure read and is the snapshot without the subscription. `discarded` is a
history variable: the required events an explicit trim removed.

`OrderedFeed` is the abstract feed: `Publish`, `Discard`, `Join` (answer a
subscription with everything required after its position) and `Deliver` (send
one event later than the cursor that leaves out no required one). `FeedSpec`
is that module under the mapping joined = the phase, cursor =
`last_sent_sequence`, replayed = `replay`, delivered = `live`.

### FlowRun

The row of one run and the rows hanging from it are the shared state. Each
repository call is one atomic step, because the services hold no transaction
across calls; `worker.pc`, `canceller[c].pc`, `resumer[r].pc` name the call made
next. Reads are steps of their own wherever the result is used later
(`fail_flow_run`, `cancel_flow_run`, `resume_flow_run`).

| code | model |
|---|---|
| `start_flow_debug_run[_stream]`, `open_flow_debug_run_shell` | `Init`, `WorkerOpenStream` |
| `prepare_flow_debug_run_from_shell` | `WorkerPrepare`, `WorkerCompile`, `WorkerAttach`, `WorkerStarted` |
| `fail_queued_flow_run_shell` | `WorkerFailQueued` |
| `continue_flow_debug_run_inner` | `WorkerContinue` .. `WorkerReturn`, `WorkerNodeError`, `WorkerCallFails` |
| `fail_flow_run`: read and check, write, emit, close | `WorkerFailRead`, `WorkerFailWrite`, `WorkerEmit`, `WorkerClose` |
| `fail_runtime_event_stream_if_missing_terminal` | `WorkerFallback` |
| `cancel_flow_run` | `CancelRead`, `CancelWrite`, `CancelEmit`, `CancelClose` |
| `resume_flow_run`, `complete_callback_task` | `ResumeRead`, `ResumeDetail`, `CompleteTask`, `CallbackDetail` |
| `execute_from` | `ResumeExecute`: how far it gets and why it stops |
| `persist_flow_debug_outcome`, `persist_flow_debug_node_traces` | `ResumeNode`, `ResumeTrace`, `ResumeTracesEnd`, `ResumeCheckpoint`, `ResumeCreateTask`, `ResumeFinish` |
| any repository call returning `Err` | `WorkerCallFails`, `CancelFails`, `ResumeFails` and the failing disjuncts |
| a client hanging up while its request runs on the connection | `WorkerDropped`, `CancelFails`, `ResumeFails` |
| the API server restarting | `Crash`: tasks, requests and the event stream go, the rows stay |

The status is read and written by several parties that lock nothing, so its
history does not follow `ensure_flow_run_transition` (finding 2). `StatusRecord`
says what it does follow. A writer looks at the record (`Look`), which gives it
some of the moves that are legal from there, and may write one of them, once,
whatever the record has become (`Write`); a conditional update is a legal move
(`Move`); writers finish or are lost (`GiveUp`). `WritesAreLicensed` is that module
under the mapping status = the row's, `may` = what the worker and the requests
that resume may still write where they are (`May`): a worker between its look at
the run and its last write, everything `running` leads to; one that is about to
fail the run, `failed`; a request, whatever the status it read leads to. Cancels,
attaches and the final success are conditional.

### TaskQueue

Every operation takes the one mutex before its first look at the state, reads
the clock under it and writes everything before it releases it, so each is one
step: `enqueue` is `Enqueue`, `claim` is `Claim`, `ack` is `Ack`, `fail` is
`Fail`; refusals (`Ok(false)`, `Ok(None)`) change nothing. `Tick` is time passing
between operations. The queue identifies a claim by its worker's name, so the
model lets any worker ack or fail any task under any queue name whenever it
likes: a late worker needs no action of its own. A worker learns its deadline
from `unix_timestamp()`, in whole seconds (`Told`), while the queue compares exact
instants; `promised` is a history variable with what each worker was last told.

`Offered(q, i)` is the task that the loop of `claim` stops at: the first in the
deque that exists and that nobody holds. `fail` and expiry leave a task where it is.

`ClaimQueue` is the abstract queue, at least once and oldest first: `Submit` (tasks
are numbered in the order they come), `Take` (the oldest task of a queue that
nobody holds), `Finish` (by the holder only) and `GiveBack`. It has no deque: a
task that is given back is free again with the place its number gives it.
`ClaimQueueSpec` is that module with live = the queue of each task (`QueueOf`) and
holder = the claimant while its deadline is in the future. A `Fail` of a claim
that had already expired, and a `Claim` with a zero timeout, are stutters of it.

### DebugRunStream

What the streaming route starts: the worker, the SSE sender and the persister.
The provider trace of an LLM node and one request that cancels or resumes the
run write the same status, stream and table. A row of `flow_run_events` gets its
number by a read that locks nothing, so a write is two steps, `BeginTx` and
`Commit`; a commit makes the others' open transactions stale, and the unique key
then refuses them (`Refused`).

| code | model |
|---|---|
| `prepare_flow_debug_run_from_shell`, `attach_compiled_plan_to_flow_run` | `WorkerPrepares`, `WorkerAttaches`, `WorkerRecordsStart`, `WorkerAnnounces` |
| `fail_queued_flow_run_shell` | `WorkerFailsShell` |
| `continue_flow_debug_run_inner` | `WorkerChooses` .. `WorkerReturns`, `WorkerCallFails` |
| the forwarding task of an LLM node, `run_live_event_persister`, its join | `NodeStreams`, `TracerStep`, `WorkerJoins` |
| terminal event, `close_run`, the durable row of the end | `WorkerEmits`, `WorkerCloses`, `WorkerRecordsEnd` |
| `fail_flow_run`, `fail_runtime_event_stream_if_missing_terminal` | `WorkerFailsRun`, `WorkerFallsBack` |
| `wait_for_debug_event_persister` | `WorkerWaits` |
| `cancel_flow_run`, `resume_flow_run` | `CancelBegins`, `CancelSets`, `CancelEmits`, `ResumeBegins`, `ResumeSets`, `RequestRecords` |
| `push_debug_event_for_persistence`, `flush_debug_event_batch` | `PersisterTakes`, `PersisterWrites` |
| `send_runtime_event_stream` | `SseSends` |

`persisted` and `lost` are history variables: the events written, in the order of
their rows, and those of batches whose write failed.

The status is a `StatusRecord` here too (`WritesAreLicensed`), with the worker and
the request as its writers. The worker of this module fails for reasons that
`FlowRun` does not have (a refused row, the error of a trace), so both modules
are shown to keep the same promise about the status they share.

### PluginLifecycle

One family (one `provider_code`). A handler is a record with the operation and
the call it makes next; it may be dropped at any await (`Drop`), any call of it
may fail (`Break`), the server may restart (`Crash`) and something else may change
a package directory (`Tamper`). Nothing a handler writes is conditional on what it
read, so `seen` keeps the row it read, and it writes from that. Contents of
packages are model values; a manifest tells its content. A package is a set of
`Files`, `Manifest` among them, and a directory has some content, or none, for each.
`remove_dir_all` and `copy_dir` take one file a step in any order (`read_dir`
promises none), so a crash finds any part of a directory. A file that is being
written counts as missing, and the last file goes with its directory. The archive is
one write: half of one has another hash, and reconciling compares hashes.
Two requests in the same directory may each get an error from the file system
(`Clashes`); the work on files has no await, so nobody can drop it (`Drop`).

| code | model |
|---|---|
| `install_plugin`, `install_uploaded_plugin`, `install_official_plugin`, `upgrade_latest` | `AcceptInstall`, `AcceptUpgrade`, then `Archive`, `Clear` (a file a step), `Make`, `Copy` (a file a step), `Fingerprint`, `Record` |
| `enable_plugin` | `AcceptEnable`, then `Request`, `Load`, `Loaded` |
| `assign_plugin`, `switch_version` | `AcceptAssign`, `AcceptSwitch`, then `Migrate`, `Point` |
| `delete_family` | `AcceptDelete`, then `ListInstances`, `DeleteInstance`, `DeleteRow`, `RemoveDirectory` (a file a step), `RemoveArchive`: the paths are a hash set, so in any order |
| the task of each operation and its error branch | `Start`, `Finish`, `Fail`; a chain of operations: `Continue` |
| `reconcile_installation_snapshot` | `AcceptReconcile`, `See`, `Settle` |
| `create_instance` | `AcceptInstance`, `Insert` |
| `reconcile_all_installations`, `load_host_extensions_at_startup` | `BootReconcile`, `BootHosts`, `HostReconcile`, `HostRequest`, `HostValidate`, `Serve` |

`mixed` and a handler's `clean` are history: which rows were last written by a
request that another one's write overlapped, and whether a handler has been.
`torn` is history too: the versions in whose directory a request was stopped while
it still had files to clear, write or remove (`Owes`), or from which something else
took a file; a directory made anew is not torn.
`derive_availability_status` is `Derive`, `reconcile_provider_artifact` is `Observe`.

`TaskBoard` is what a reader of `plugin_tasks` may conclude: a handler that has no
task posts one (`Post`), begins it (`Begin`) and ends it (`End`); a handler that is
gone leaves its task behind (`Lose`), and then nobody touches it again.
`TasksHaveOneOwner` is that module under the mapping board = the statuses, held =
the handlers that are at work on a task (one between two operations of a chain
holds none), lost = the tasks that had not ended when their handler was dropped
or died with the server.

### ModelRegistry

A mutation is a transaction on metadata rows and physical objects, followed by a
rebuild of the registry. `LockModel` is `select ... for update`; from there to the
commit the model is locked, and what references or updates it waits. A rebuild
reads fields, then models, then each table, and swaps the map; a record
operation takes an entry from the map and goes to its table later. The field it
names may be any of the entry's: a value or a filter needs a column and is refused
without one, but `parse_sorts` (`runtime_models.rs:126`) and `append_sort_clause`
(`runtime_record_repository.rs:629`) let a list be sorted by every field, so
`LoadMetadata` does. Verdicts are written one statement each, and only those that
differ from what was listed (`news`).

| code | model |
|---|---|
| `create_model`: transaction, broken row on failure, grant | `CreateModel`, `CreateModelFails`, `GrantModel` |
| `add_model_field`: transaction, broken row on failure | `LockModel`, `AddField`, `AddFieldFails`, `FieldAfterFailure` |
| `delete_model_field`, `delete_model_definition` | `LockModel`, `DeleteField`, `DeleteModel`, `DeletionFails` |
| `update_model_definition_status` | `UpdateStatus` |
| mutations whose rows steer nothing, but which rebuild | `StartTouch` |
| `ApiRuntimeRegistrySync::rebuild`, `refresh_runtime_model_health` | `ListFields`, `ListModels`, `InspectModel`, `RecordField`, `RecordModel`, `Publish` |
| `load_available_metadata`, the query, `mark_runtime_model_unavailable` | `LoadMetadata`, `QueryRecords`, `MarkUnavailable` |
| a dropped request or a failing statement; the process restarting | `Cut`, `Restart` |

`lapped` and `fresh` are history: which requests were overtaken by a commit since
they read, and whether the map that is served was published by a rebuild that
was not overtaken and is still current.

## 3. The runs

| run | what it shows |
|---|---|
| `stream` | `TypeOK`, `NoRequiredSkipped`, `CaughtUpWhenQuiet`, `RingBound`, the refinement `FeedSpec` and the liveness `RequiredEventuallyDelivered`: two producers overtake each other between `push_back` and `send`, the one subscription lags, the ring overflows, is trimmed and closed, and the consumer may go away |
| `stream_trim` | finding 1 |
| `flow_run` | `TypeOK`, `WaitingHasCheckpoint`, `SucceededCoversPlan`, `ClosedHasTerminal`, `StopsAfterCancel`, `EndedShellIsFinal`, the refinement `WritesAreLicensed` and, under fairness of the worker, `RunSettles`: a worker, a cancel and two resumes or callbacks in every interleaving, with one failure and one restart, over six plans |
| `flow_run_transitions` | finding 2 |
| `task_queue` | `TypeOK`, `ClaimsHonoured`, `QueuesHoldLiveTasks`, `IndexMatchesTasks`, `NoTaskStuck` and the refinement `ClaimQueueSpec`: claims expire, are taken over, acknowledged and failed in time and too late, keys are reused while their task lives and after it was acknowledged |
| `debug_run_stream` | `TypeOK`, `PersisterAccountsForAll`, `ConsumersAgree`, `ToldTheTruth`, the refinement `WritesAreLicensed` and the liveness `EveryReaderEnds`: a streamed run with its trace, sender and persister, a cancel or a resume at any point, one failing call |
| `plugin_lifecycle` | `TypeOK`, `ReferencesExist`, `OneRowPerVersion`, `AvailabilityUnlessOverlapped`, `SuccessIsTrue`: two requests of any kind overlap on two versions |
| `plugin_restart` | `StartupTellsTheTruth`, the refinement `TasksHaveOneOwner` and the liveness `EveryTaskEnds`: one request at a time, a provider or a host extension of two files, one fault at every step, a crash between two files included, and crashes in startup as often as may be |
| `plugin_tampered` | finding 3 |
| `plugin_incomplete` | finding 5 |
| `model_registry` | `TypeOK`, `MetadataMatchesSchema`, `RegistryCurrentUnlessOvertaken`, `RecordsReachTheirTables`, `VerdictsAreTrue` and the liveness `EveryRequestEnds`: two requests at a time, three in all, relations of all three kinds in both directions, records sorted by any field, deadlocks, one fault |
| `model_registry_many_to_many` | finding 4 |

Three properties that the modules state are in no run, because one in it is
stronger: `OrderedDelivery` follows from `FeedSpec`, `SettledIsFinal` from
`WritesAreLicensed`, and `TasksAreHeld` from `TasksHaveOneOwner`. All three are
theorems (§4).

**Bounds.** `MaxSequence = 3` events with `MaxEvents = BroadcastCapacity = 1`:
three events are the fewest with which one is dropped from the ring, one is lost
from the channel and one still arrives; two producers are the fewest that can
overtake each other. Subscriptions share nothing but the ring, which they only
read, so one is enough for TLC, and the proofs remove the bound. `StartPositions =
{0, 1}` has a position before and one after the first event. The six plans reach
every arm of both executors: waits of both kinds, an invoked node before and
after a wait, a callback behind a human wait (in the other order it is left to the
proofs), `data_model` first and behind either wait, an unknown node type; the safety
proofs hold for every plan. Two resumers let two resumes of one checkpoint, a resume and
a callback, or two successive resumes race; one failure and one restart
(`MaxFailures`, `MaxCrashes`) strike at every step. The task queue has two workers and two
queues (a worker may name the wrong one), three tasks (two of a queue and a
successor under the same key), a clock of four instants, and timeouts of zero
and of two instants: with seconds of two instants one deadline is told
exactly and one is rounded down, and a claim can expire, be taken over and
expire again. Names of workers and queues are only compared, so they are
symmetric.

`DebugRunStream`: one node (`MaxNodes = 1`) is the shortest run that can stream,
fail, wait and succeed; what a second node repeats is the first's loop, and the
proofs remove the bound. Its provider streams nothing, or reasoning and then
text: the first opens a batch and has a trace, the second cuts the batch short.
One fault strikes at every call; sequence numbers collide without one.
`PluginLifecycle`: two requests are the fewest that overlap; two versions
are the fewest between which a switch moves; `MaxIds = 2` lets both be
installed; `MaxTasks = 2` gives each request one task, or one request a chain of
two. Packages have one file in `plugin_lifecycle`, where nothing is interrupted, and
two in `plugin_restart`, the manifest and one more: that is the least of which a
crash can leave a part. `plugin_restart` has one request at a time, one row (of a
provider or of a host extension), three tasks for a chain of operations, and one
fault: a crash, a failing call, a dropped request or a change of the disk, at
every step. A crash in startup is not counted, so that a restart can itself be cut
short any number of times. Sequences of two faults are left to the proofs, which
have no bound (`StartupIsTrue`), and to `plugin_tampered`, which needs two. Two
contents tell a tampered package from the installed one. `Tamper` happens only
while the server serves (bound of the model). `TasksHaveOneOwner`
is checked there as well: a request and the ones before it that died with the
server, or that a chain of operations makes of it, are enough for one to end
another's task, and the proof removes the bound. Requests are only compared, and
so are versions where none is a host extension: both are symmetric in
`plugin_lifecycle`, which checks no liveness.
`ModelRegistry`: every kind of relation (a scalar field is a many_to_one without
a target, as far as the model sees), one model that exists and one that may be created, two fields
under one code (they collide in one model and relate the two models both ways),
two requests at a time for a rebuild to be overtaken or two to cross, three in
all so that a third one sees what they left; two statuses, one fault. Every
model has a code of its own, so its id names its table.
`model_registry_many_to_many` needs one request.

Deadlock is not checked: a stream with all events sent, a run that has ended and
a server that was asked all that the bounds allow do stop, and a bounded clock
does too. That requests do not wait for each other for ever is a property of its
own (`EveryRequestEnds`, `EveryTaskEnds`).

**Fairness.** `RuntimeEventStream`: `append` has no await between the lock and
`send`, and tokio polls a spawned task whose receiver is ready, so `Broadcast`
and `Forward` are weakly fair; nobody has to append. `FlowRun`: the streaming
worker is a spawned task and each of its awaits returns, so `WorkerStep` is
weakly fair. Cancel, resume and callback requests get no fairness, and the
plain route's worker, which runs inside the request, may be dropped at any
point before it is spawned. `RunSettles` exempts executions with a failed call,
a dropped request or a restart: the code has nothing that would settle such a
run.

`DebugRunStream`: worker, trace, persister and sender are spawned tasks, and a
cancel or resume that has begun runs to its end unless it is the one dropped
request; nobody has to begin one. A sender whose browser is there is not blocked
by the bounded channel for ever. `EveryReaderEnds` exempts what the code cannot
mend: a cancel dropped after its update, and a run that a resume ended.
`PluginLifecycle`: `Works(p)` and startup are weakly fair; dropping a request is a
fault of its own and `EveryTaskEnds` exempts the tasks of dropped handlers.
`ModelRegistry`: a request's steps are weakly fair. That is enough where it waits
for a row lock as well: requests are bounded, so the locks in its way are few,
and PostgreSQL grants a lock in the order of asking.

## 4. The proofs

`RuntimeEventStreamProofs` proves, for all sets of producers and subscribers,
every `MaxEvents`, `BroadcastCapacity` and `MaxSequence`:

* `TypeCorrect`: `Spec => []TypeOK`, the capacity of each receiver included;
* `DeliversInOrder` (`OrderedDelivery`), `SkipsNoRequired`, `QuietMeansCaughtUp`:
  what consumers rely on;
* `RingIsBounded`: `Spec => []RingBound`;
* `Implements`: `Spec => FeedSpec`.

The only assumption is `StreamAssumption` (the bounds are naturals and the
channel holds at least one message).

`RingBound` is inductive, because `append` and `trim` end with `trim_overflow`, and
rests on what that loop leaves (`TrimOverflowBounds`): if an ephemeral event x
stayed, take the oldest such x (`Least`, from the well-foundedness of the naturals);
more ephemeral events than the excess lie up to x, and all but x went, so the
rest is at most `max_events`.

None of the other properties is inductive: they speak of what a consumer has got, and
are preserved only because of what its forwarding task still holds. `Inv`
therefore adds: a required event leaves the ring only through an explicit trim
(`RequiredRetained`); the clones the task holds lie after `last_sent_sequence`
(`Ordered`), and no required event is missing among those before the one it
will send (`NoGap`), except while it is about to look at the ring (`Looking`); and a
retained event the consumer lacks is *on its way* (`OnItsWay`): held by the
task, in the receiver's queue, announced by a pending lag, about to be found by
a look at the ring, or appended by a producer that has yet to broadcast it.
`Pending` is what a broken lag arm violates: the code's `Lagged` arm looks at the
ring because nothing else would. There is one lemma per action; a step of
one subscriber leaves the others' conjuncts alone (`OthersUnaffected`).
`Implements` maps appends to `Publish`, trims to `Discard`, the snapshot to
`Join`, sends to `Deliver` (using `NoGap`), and everything else to a stutter.

`FlowRunProofs`, `FlowRunSafetyProofs` and `FlowRunRowsProofs` prove every safety
property of the `flow_run` run, for all sets of plans, cancel requests and
resume requests and every number of failures and restarts:

* `FlowTypeCorrect`: `Spec => []TypeOK`. Indices are only in range because of
  where the program is, so `Control` says what the worker and a request hold at
  each call; a request's checkpoint exists because checkpoints are never removed.
* `EndedShellStays`, `SettledStays`, `WorkerStopsAfterCancel`,
  `ClosedStreamsEnded` rest on `Ownership`: until the plan is attached the run is
  a shell without rows (`Shell`); until the worker has created a checkpoint only
  it and the cancel requests write to the run, because a resume needs a
  checkpoint and a callback a task (`Early`, `NoRowsNoRequest`); and a cancel
  writes only over a status that had not ended (`CancelControl`). `LateInv` adds
  that a worker late by one node finds the run still cancelled at its next
  `is_run_cancelled`; `StreamInv` that whoever is about to close the stream has
  seen to it that it holds a terminal event (`Covered`).
* `WaitingRunsResumable`, `SuccessIsComplete` rest on `Rows`: a checkpoint stands
  behind a node that waits and everything before that node has succeeded
  (`CheckpointSound`); the worker, and a request that persists its traces, have
  the nodes before their own behind them (`WorkerRows`, `RequestRows`). It is
  kept by the others' steps because rows only grow and a node run that succeeded
  stays so (`RowsGrow`); the one step that could undo that, `WorkerExecute`,
  happens while nobody else may touch its node run (`Ownership`).

`FlowRunSafetyProofs` also proves `WritesLicensed` (`Spec => WritesAreLicensed`): the
run implements `StatusRecord`. One lemma says what the actions of the worker do to
the status and to what it may still write (`WorkerLicence`), one the same of a
request (`RequestLicence`); `OneWriter` turns either into a look, a write, a
conditional move or a writer giving up, and a restart makes all of them give up
(`CrashGivesUp`). Beside the types it needs `CancelControl`: a cancel about to write
has read a status that had not ended, so its conditional update is a legal move.

Their only assumption is `FlowAssumption` (plans are sequences of node types, the
bounds are naturals, and no request is called "worker": the two are told apart by
name in `RunWriters`). `OnlyAllowedTransitions` is not among them: it is false
(finding 2).

`TaskQueueProofs` proves, for all queues, workers, keys, timeouts and lengths of
a second, `HonoursClaims`, `IndexAgrees` and `Implements`
(`Spec => ClaimQueueSpec`). `ClaimsHonoured` is inductive given the types, because
its own statement makes the task a worker relies on unclaimable for others
(`OneBeliever`: whoever passes the name test of ack or fail is the one worker
that may rely on the claim); `IndexMatchesTasks` is inductive given that ids are
fresh. What the deques hold is not needed for these: `claim` offers nothing that is
not in `tasks`. `TypeCorrect` (`TypeOK`), `QueuesAgree` (`QueuesHoldLiveTasks`),
`NothingStuck` (`NoTaskStuck`) and `Implements`, for its order, are about the
deques. `QueueInv` adds to `Inv` what they hold and what kinds of thing the tasks
are made of. Its lemma about `retain` (`RetainProperties`) is proved without
induction: counting the kept positions up to each of them numbers these from 1 in
order (`RanksNumber`, an injection between finite sets of one size is onto), so the
result holds each kept id once and in order. `NothingStuck` then
takes the least position that `claim` could stop at (`Least`): it is the one it does
stop at. Because ids increase along a deque, nothing older could be claimed
(`ClaimTakesOldest`), so that the step is a `Take` of `ClaimQueue`.
The assumption is `TaskQueueAssumption` (`None` is no key and no worker,
timeouts are naturals, a second has at least one instant).

`DebugRunStreamProofs` proves, for any number of nodes, any deltas and any number
of faults, the four safety properties of the `debug_run_stream` run and the
refinement of `StatusRecord`. The assumption is `DebugAssumption` (naturals, and sequences of deltas).

* `TypeCorrect`, with `NodesLeft`: the worker starts a node only while there is
  one left.
* `NothingUnaccounted`: `Accounting` adds to the types that nothing is being
  written but by a write (`PersisterControl`), and states the property for
  history, write and batch one by one (`Accounted`).
* `OneEnding`: `Accounting`, `EndsAtTerminal` (a terminal event is the last the
  persister takes, and ends it once its write is over) and `SenderControl` (the sender has
  told the first ending or none).
* `ToldSo`: `Truth` ties the status to the first terminal event of the stream:
  who may still change the status of a closed run, and what each of worker,
  cancel and resume is about to do (`ClosedEnded`, `WorkerControl`,
  `CancelControl`, `ResumeControl`, `FinishedMeans`, `FailedMeans`,
  `SucceededMeans`).
* `WritesLicensed` (`WritesAreLicensed`) uses the types and `CancelControl`, a part of
  `Truth` (`TruthInvariant`), and goes as in `FlowRun`.

`PluginLifecycleProofs` proves every safety property of the plugin runs that
holds, for all requests, versions, contents, workspaces, instances and bounds:
`TypeCorrect`, `NothingDangles` (`ReferencesExist`), `OneOwner`
(`OneRowPerVersion`), `AvailabilityIsDerived`, `NoTaskForgotten` (`TasksAreHeld`),
`StartupIsTrue`, `SuccessMeansIt` (`SuccessIsTrue`) and `OneOwnerPerTask`
(`TasksHaveOneOwner`, the refinement of `TaskBoard`). It assumes
`PluginAssumption` (sorts are disjoint, an instance has a workspace) and
`RowAssumption` (a row is not `None`).

* All rest on `Sound`: `Types`, which says what a handler has at hand where it is
  (`Handler`, `Prepared`, `Booting`), and `Knowing`: what a handler that nobody
  overlapped has read is still so (`StillSo`), and its task is where it thinks it
  is (`Ended`). Nothing else is inductive, because handlers write from `seen`.
* One lemma per action first shows its `Shape`: it changes its own handler, and
  either leaves the tables alone or marks everybody else as overlapped
  (`Stepped`). `RowsStep` and `LinksStep` classify what happens to the tables, and
  the theorems about them then have a handful of cases instead of thirty actions.
* `NoTaskForgotten` adds that a handler lets go of its task only when it has
  ended or is lost (`Keeps`). `StartupIsTrue` adds `StartupLooks`: rows startup
  has looked at tell the truth; and `Owed`: a file that is missing from a directory
  that is not torn is owed by a handler at work there (`Owes`), so that once there
  are no handlers only torn directories lack files. `Settles` says of each step
  that it leaves no debt without a debtor. `SuccessMeansIt` adds `Journeys`: what an
  operation that nobody overlapped has reached where it is (`Reached`), and
  `OneHolder`: no two handlers have the same task, so that the one that succeeds
  belongs to the handler that finishes.
* `OneOwnerPerTask` adds `Working`: a handler at work on a task has neither ended
  nor lost it. A step creates a task (`PostStep`), begins or ends the handler's own
  (`TurnStep`), loses some (`LeaveStep`: a dropped handler, a crash), or moves no task
  and no handler to or from one (`NobodyMoves`): `TaskSteps` says which actions are
  which.

`ModelRegistryProofs` proves every safety property of the `model_registry` run, for
all requests, models, fields, codes, kinds in use, statuses and bounds: `TypeCorrect`,
`SchemaAgrees` (`MetadataMatchesSchema`), `RegistryCurrent`
(`RegistryCurrentUnlessOvertaken`), `RecordsReach` (`RecordsReachTheirTables`) and
`VerdictsTrue` (`VerdictsAreTrue`). It assumes `ModelRegistryAssumption` and
`RowAssumption` (sorts are disjoint from `None`, the bounds are naturals).

* `Inv` is inductive. `Types` says what a request has at hand where it is
  (`Prepared`) and that ids are issued before they are used (`Issued`);
  `Ownership` that what a request is about to create, add or delete is its own:
  new ids are nowhere else (`FreshModels`, `FreshFields`), a model is locked by
  one transaction (`Held`) and a condemned field belongs to the locked model
  (`Condemned`). `SchemaAgrees` then needs `UniqueCodes` only: no two fields of
  one model share a code, or deleting one would drop the column of the other.
* `Current` says that what a request no change overtook has read is so (`Sees`):
  the listed fields (`SeesFields`), the models listed and inspected
  (`SeesModels`), the verdicts about to be written (`Judges`), the table of a
  query (`Finds`). What has been judged and is not yet written is still to be
  written (`news`), so the verdicts may go out one by one. A query by a
  one_to_many field finds no column, however current its reading; `Finds` and
  `RecordsReach` say that this is the only one. A step either overtakes all who read (`OvertakenCurrent`), or
  changes the health of rows at most (`SameSchema`), which disturbs no reading
  (`StillSees`).
* `UpMeansServable` is the bridge: what the health check finds in the physical
  schema is what the history of the rows says, a many_to_many field never being
  up (finding 4).
* `ServedWithoutManyToMany` says that finding 4 has no other cause: if
  `many_to_many` is not among the kinds, `BuiltModelsAreServed` holds, for every
  interleaving and fault. It follows from `RegistryCurrent`, because every other
  kind that wants a column gets one.

**Only model-checked.** `RequiredEventuallyDelivered`, `RunSettles`,
`EveryReaderEnds`, `EveryTaskEnds` and `EveryRequestEnds`, because
liveness under fairness is out of the prover's reach, and the five properties
that are false (section 5). Every other property of a run is a theorem. The
library's induction theorems cannot be instantiated by the installed provers;
where a proof wants induction over the naturals it takes a least element
(`Least`), which the library's `WFMin` gives for sets, or compares cardinalities.

## 5. Findings

1. `stream_trim`: the design document
   (`src/docs/superpowers/specs/2026-05-02-runtime-event-stream-fast-debug-design.md:391`)
   says a subscription from a trimmed position fails with
   `RuntimeEventReplayExpired`. `replay_from_ring` compares with the front of
   the ring only, and `trim_overflow` removes ephemeral events from behind a
   required front, so such a subscription can be answered with a silent gap. The
   gap holds ephemeral events only (`NoRequiredSkipped`).
2. `flow_run_transitions`: `fail_flow_run` checks the transition on the status
   it read and then updates without a condition. A cancel in between is
   overwritten: `cancelled` becomes `failed`, which `ensure_flow_run_transition`
   forbids. The same shape occurs wherever `is_run_cancelled` precedes
   `update_flow_run`. `StopsAfterCancel` and `SettledIsFinal` state what does
   survive: at most one more node starts, and the status is final once the
   writers that raced with its end are gone.
3. `plugin_tampered`: the trust design
   (`src/docs/superpowers/specs/1flowbase/2026-04-19-plugin-trust-source-install-design.md:484`)
   promises that a tampered package is `corrupted` after startup's comparison.
   The first comparison that fails also overwrites the fingerprint it compares
   with (`plugin_lifecycle.rs:74`), so the next one calls the same files `ready`.
4. `model_registry_many_to_many`: a `many_to_many` field that was added without an
   error takes its model out of the registry at the rebuild that follows, because
   the health check wants a column for it (`runtime_record_repository.rs:769`)
   and the creation makes a join table
   (`model_definition_repository/mod.rs:496`). The design
   (`src/docs/superpowers/specs/2026-04-29-data-source-data-model-runtime-crud-design.md:387`,
   `:703`) says both exist and a published model is served.

5. `plugin_incomplete`: the same design (`:483`) lists an unpacking that was not
   finished as `install_incomplete`. `copy_dir` (`filesystem.rs:36`) writes a package
   file by file and `reconcile_provider_artifact` (`artifact_reconcile.rs:45`) looks at
   `manifest.yaml` and the archive only, so a crash behind the manifest leaves a
   version that was installed before, and is installed again, `ready` with files
   missing. `StartupTellsTheTruth` states what does survive: the manifest and the
   archive are what the row records, and another file is missing only where a
   request was stopped in that directory or something else changed it (`torn`).

Smaller observations, met while stating properties that hold; each is why a
property has the condition it has:

* Two requests that overlap can leave an availability that its row does not
  derive, and nobody repairs it before the next reconcile that sees a difference
  (`AvailabilityUnlessOverlapped`; the trust design, lines 442 and 453, calls it
  derived). Two switches that cross leave the instances on one version and the
  pointer on the other (`family.rs:556`, `:581`; `SuccessIsTrue`).
* Of an installation that waits for a restart and whose directory is incomplete or
  corrupted, `derive_availability_status` (`plugin_lifecycle.rs:22`) says
  `artifact_missing`; the trust design, line 461, says `install_incomplete`. `Derive`
  does as the code does.
* A crash between `host_extension_loader.rs:101` and `:114` leaves a host
  extension `active_requested` and `inactive`: startup lists `pending_restart`
  only and does not try it again (`StartupTellsTheTruth` asks nothing of such a row
  but a derived availability).
* Two registry rebuilds can cross, and the older reading wins until the next
  mutation or restart (`RegistryCurrentUnlessOvertaken`; the CRUD design, line
  707). A mutation whose handler returns an error after its commit rebuilds
  nothing. `mark_runtime_model_unavailable` writes the rows and not the registry.
  `map_resource_to_model` (`data_source.rs:459`, route `data_sources.rs:508`)
  creates models and never rebuilds.
* A list of records that is sorted by a healthy one_to_many field names a column
  that does not exist (`runtime_record_repository.rs:629`), and the error that comes
  back takes the model for broken: its rows say unavailable, although nothing was
  changed, until the next rebuild finds it healthy again
  (`RecordsReachTheirTables` exempts this case and no other that is not overtaken).
* A failed `add_model_field`, a deadlock's victim included, leaves a broken row
  that takes its model out of the registry at the next rebuild. Deleting the
  broken duplicate of a `many_to_many` field drops the join table of the working
  one (`BuiltRowsHaveObjects` speaks of columns for this reason).
* Writers of one run race for sequence numbers. A loser that is the worker fails
  a healthy run; one that is the persister loses its batch with a log line. The
  stream design (`2026-05-02-runtime-event-stream-fast-debug-design.md:451`)
  promises idempotent writes with retries and a `persist_warning`.
* The service that resumes a run has no event stream: sender and persister of a
  run that waited and was resumed never end. A cancel dropped after its update
  leaves a cancelled run without a terminal event: a worker that notices the
  cancel returns without emitting one (`EveryReaderEnds`).
* In streaming mode reasoning deltas are stored twice: the trace filters out
  text deltas only (`live_debug_run.rs:1588`). `ThinkTagStreamSplitter` never
  flushes the text it holds back at the end of a stream
  (`orchestration_runtime.rs:770`). Neither is a property of a module.

## 6. What is not modelled

* A wall clock that is set back, and negative visibility timeouts: `TaskQueue`'s
  clock only goes forward and `Timeouts` are naturals. `now_utc` is not monotonic,
  so `ClaimsHonoured` holds of the code only while the clock is not turned back.
* The map from run ids to streams: runs share nothing. Its entries are never
  removed, and the policy's `ttl` and `max_bytes` are read by nobody.
* Node previews, spans, usage, billing, audit rows and node outputs: they do not
  steer the run. A call that writes only those is a call that may fail.
* The status `paused`, which nothing assigns.
* Of the plugin lifecycle: signatures and the contents of packages, capability
  plugins and data sources, node contributions, audit rows, and the resetting of
  the instances' model catalogues after a switch.
* Of the model registry: external data sources, scope grants of their own, API
  exposure, the change log, the contents of records, self relations, the health
  checks of the targets a record list expands, and `sort_order`, which is read
  before the lock and only orders a display.
* Of the stream's consumers: payloads, the wording of coalesced deltas, and the
  splitting of `<think>` tags.
* The plugin runner. One lock orders loading, reloading and invoking, so one slow
  child delays all other calls; the timeout covers the answer and not the write
  to the child's stdin (`stdio_runtime.rs`). What could go wrong beyond that
  depends on the child and the operating system.
* The ephemeral stores other than the task queue. Each operation is one step
  under one lock or one cache call, except the session store's `touch`, a read
  and a write, and the rate limiter's `reset`, which a `consume` in flight
  overwrites.
* The compiler: a sequential function from a document to a plan.
* The services that answer one request from a transactional database (model
  provider configuration, authentication, access control, host extension
  inventories, data sources), object storage, the plugin framework's manifests,
  observability, and all of `src/web`. Most of the repository's lines are of this
  kind, or tests and queries, and the modules stand for about 7 % of the
  implementation's lines: what is modelled was chosen for its control, not for
  its length.

## 7. Where to go on

The plan's components with concurrency or failure of their own are built:
`DebugRunStream`, `PluginLifecycle` and `ModelRegistry` followed `RuntimeEventStream`,
`FlowRun` and `TaskQueue`. What would add most now:

1. a refinement from `FlowRun` to the worker of `DebugRunStream`, which repeats its
   control with the payloads and the rows cut down: both implement `StatusRecord`,
   which is what they have in common of the status, but not of the stream;
2. the runtime cache of the provider hosts, once invocations no longer hold the
   one lock.
