------------------------------ MODULE FlowRun ------------------------------
(***************************************************************************)
(* One debug run of a flow, from its queued shell to its end: the worker   *)
(* task that prepares and executes it (live_debug_run.rs), the requests    *)
(* that cancel it, and the requests that resume it from a checkpoint or    *)
(* complete one of its callback tasks (orchestration_runtime.rs,           *)
(* persistence.rs).  They share only the database row of the run and the   *)
(* rows that hang from it; every repository call is a step of its own, and *)
(* may fail.                                                               *)
(*                                                                         *)
(* Of the run's event stream only the terminal events and the closed flag  *)
(* are kept; RuntimeEventStream has the rest.  Payloads, spans, usage and  *)
(* billing rows are left out: a call that writes only those is present as  *)
(* a call that may fail.                                                   *)
(***************************************************************************)
EXTENDS Integers, Sequences

CONSTANTS
  Plans,        \* compiled plans: topological orders, as sequences of node types
  Cancellers,   \* cancel requests; each is served once
  Resumers,     \* resume and callback requests; each is served once
  MaxFailures,  \* bound of the model: repository calls that fail, requests that drop
  MaxCrashes    \* bound of the model: restarts of the API server

Pure      == {"start", "template_transform", "answer"}
Invoked   == {"llm", "plugin_node"}
Human     == {"human_input"}
Callback  == {"tool", "http_request"}
Waiting   == Human \cup Callback
NodeTypes == Pure \cup Invoked \cup Waiting \cup {"data_model", "unsupported"}

ASSUME FlowAssumption ==
  /\ Plans \subseteq Seq(NodeTypes)
  /\ "worker" \notin Resumers
  /\ MaxFailures \in Nat
  /\ MaxCrashes \in Nat

VARIABLES
  plan,         \* the plan the draft compiles to
  streaming,    \* started by the streaming route?
  status,       \* flow_runs.status
  attached,     \* flow_runs.compiled_plan_id is set
  nodeRuns,     \* node_runs: [node: index in the plan, status]
  checkpoints,  \* flow_run_checkpoints: [nodeRun, next: next_node_index]
  tasks,        \* flow_run_callback_tasks: [nodeRun, status]
  opened,       \* the run has an entry in the runtime event stream
  closed,       \* and it is closed
  terminals,    \* the terminal events it holds, oldest first
  worker,       \* the background task of the run
  canceller,    \* per cancel request
  resumer,      \* per resume or callback request
  failures,     \* repository calls that failed and requests that dropped so far
  crashes,      \* restarts so far
  late          \* history: node runs the worker created in a cancelled run

stream   == <<opened, closed, terminals>>
durable  == <<status, attached, nodeRuns, checkpoints, tasks>>
requests == <<canceller, resumer>>
fixed    == <<plan, streaming>>
vars == <<fixed, durable, stream, worker, requests, failures, crashes, late>>

FlowStatuses == {"queued", "running", "waiting_human", "waiting_callback",
                 "succeeded", "failed", "cancelled"}
TerminalStatuses == {"succeeded", "failed", "cancelled"}
WaitingStatuses  == {"waiting_human", "waiting_callback"}
NodeStatuses == {"running", "waiting_human", "waiting_callback", "succeeded", "failed"}

\* ensure_flow_run_transition, without the status "paused" that nothing assigns
FlowTransitionAllowed(from, to) ==
  \/ from = "queued"  /\ to \in {"running", "failed", "cancelled"}
  \/ from = "running" /\ to \in WaitingStatuses \cup TerminalStatuses
  \/ from \in WaitingStatuses /\ to \in WaitingStatuses \cup TerminalStatuses

\* ensure_node_run_transition(from, succeeded), over the statuses runs assign
MaySucceed(from) == from \in {"running", "waiting_human", "waiting_callback"}

WaitingStatus(type) == IF type \in Human THEN "waiting_human" ELSE "waiting_callback"

-----------------------------------------------------------------------------
(***************************************************************************)
(* The worker.  pc names the call it is about to make; at is its place in  *)
(* topological_order, run the node run it works on.  why says on whose     *)
(* behalf it emits a terminal event or fails the run: "queued" (a shell    *)
(* that could not be prepared), "prepare" and "continue" (fail_flow_run    *)
(* from either), "node" (a node failed), "finished", "fallback" (the       *)
(* route's fail_runtime_event_stream_if_missing_terminal).                 *)
(***************************************************************************)
Reasons == {"queued", "prepare", "continue", "node", "finished", "fallback"}

\* Where a call in continue_flow_debug_run_inner may fail with `?`
InnerCalls == {"continue", "loop", "create", "exec", "checkSucceeded", "checkFailed",
               "checkWaiting", "failNode", "checkpoint", "task", "wait", "succeed", "return"}

WorkerPcs == InnerCalls \cup {"open", "prepare", "compile", "attach", "started", "failQueued",
                              "failRead", "failWrite", "emit", "close", "fallback", "done"}

CancellerPcs == {"idle", "cas", "emit", "close", "done"}
ResumerPcs == {"idle", "detail", "callback", "exec", "node", "traces", "checkpoint", "task",
               "finish", "done"}

\* A resume or callback request that has not begun, or is over
NoRequest(pc) == [pc |-> pc, read |-> "none", checkpoint |-> 0, task |-> 0, from |-> "none",
                  at |-> 0, stop |-> 0, run |-> 0, result |-> "none"]

Init ==
  /\ plan \in Plans
  /\ streaming \in BOOLEAN
  /\ status = "queued"
  /\ attached = FALSE
  /\ nodeRuns = <<>>
  /\ checkpoints = <<>>
  /\ tasks = <<>>
  /\ opened = FALSE
  /\ closed = FALSE
  /\ terminals = <<>>
  /\ worker = [pc |-> IF streaming THEN "open" ELSE "prepare", at |-> 1, run |-> 0,
               why |-> "continue"]
  /\ canceller = [c \in Cancellers |-> [pc |-> "idle", read |-> "queued"]]
  /\ resumer = [r \in Resumers |-> NoRequest("idle")]
  /\ failures = 0
  /\ crashes = 0
  /\ late = 0

RepositoryFails == failures < MaxFailures /\ failures' = failures + 1

Goto(pc) == worker' = [worker EXCEPT !.pc = pc]

\* The route gets an error; the streaming one then looks at the event stream.
EndWithError == Goto(IF streaming THEN "fallback" ELSE "done")

FailRunBecause(reason) == worker' = [worker EXCEPT !.pc = "failRead", !.why = reason]

EmitBecause(reason) == worker' = [worker EXCEPT !.pc = "emit", !.why = reason]

NextNode == worker' = [worker EXCEPT !.pc = "loop", !.at = @ + 1]

\* update_node_run
SetNodeRun(n, st) == nodeRuns' = [nodeRuns EXCEPT ![n].status = st]

\* append_runtime_event of a terminal event: refused, and only logged, when
\* the stream is closed or was never opened
EmitTerminal(event) ==
  terminals' = IF opened /\ ~closed THEN Append(terminals, event) ELSE terminals

\* close_runtime_event_stream: an error only when the stream is not open
CloseStream == closed' = (closed \/ opened)

\* The streaming route opens the stream before it spawns the worker.
WorkerOpenStream ==
  /\ worker.pc = "open"
  /\ opened' = TRUE
  /\ Goto("prepare")
  /\ UNCHANGED <<fixed, durable, closed, terminals, requests, failures, crashes, late>>

\* prepare_flow_debug_run_from_shell: read the shell and validate it
WorkerPrepare ==
  /\ worker.pc = "prepare"
  /\ \/ status = "queued" /\ ~attached /\ Goto("compile") /\ UNCHANGED failures
     \/ status # "queued" /\ EndWithError /\ UNCHANGED failures
     \/ RepositoryFails /\ EndWithError
  /\ UNCHANGED <<fixed, durable, stream, requests, crashes, late>>

\* compile, freeze routes, check and store the plan: any of it may fail
WorkerCompile ==
  /\ worker.pc = "compile"
  /\ \/ Goto("attach")
     \/ Goto("failQueued")
  /\ UNCHANGED <<fixed, durable, stream, requests, failures, crashes, late>>

\* attach_compiled_plan_to_flow_run: queued -> running, or an error
WorkerAttach ==
  /\ worker.pc = "attach"
  /\ \/ /\ status = "queued" /\ ~attached
        /\ status' = "running"
        /\ attached' = TRUE
        /\ Goto("started")
        /\ UNCHANGED failures
     \/ /\ status # "queued" \/ attached
        /\ Goto("failQueued")
        /\ UNCHANGED <<status, attached, failures>>
     \/ /\ RepositoryFails
        /\ Goto("failQueued")
        /\ UNCHANGED <<status, attached>>
  /\ UNCHANGED <<fixed, nodeRuns, checkpoints, tasks, stream, requests, crashes, late>>

\* Mutant of WorkerFailQueued: the update lacks its `where status = 'queued'`.
WorkerFailQueuedAlways ==
  /\ worker.pc = "failQueued"
  /\ status' = "failed"
  /\ EmitBecause("queued")
  /\ UNCHANGED <<fixed, attached, nodeRuns, checkpoints, tasks, stream, requests, failures,
                 crashes, late>>

\* fail_queued_flow_run_shell: only a run that is still queued fails
WorkerFailQueued ==
  /\ worker.pc = "failQueued"
  /\ \/ /\ status = "queued" /\ ~attached
        /\ status' = "failed"
        /\ EmitBecause("queued")
        /\ UNCHANGED failures
     \/ /\ status # "queued" \/ attached
        /\ EndWithError
        /\ UNCHANGED <<status, failures>>
     \/ /\ RepositoryFails
        /\ EndWithError
        /\ UNCHANGED status
  /\ UNCHANGED <<fixed, attached, nodeRuns, checkpoints, tasks, stream, requests, crashes, late>>

\* after the attach: run event, billing rows, run detail
WorkerStarted ==
  /\ worker.pc = "started"
  /\ \/ Goto("continue") /\ UNCHANGED failures
     \/ RepositoryFails /\ FailRunBecause("prepare")
  /\ UNCHANGED <<fixed, durable, stream, requests, crashes, late>>

\* continue_flow_debug_run_inner starts only a run that is running
WorkerContinue ==
  /\ worker.pc = "continue"
  /\ Goto(IF status = "running" THEN "loop" ELSE "done")
  /\ UNCHANGED <<fixed, durable, stream, requests, failures, crashes, late>>

\* Mutant of WorkerLoop: is_run_cancelled is not asked before every node.
WorkerLoopUnchecked ==
  /\ worker.pc = "loop"
  /\ Goto(IF worker.at > Len(plan) THEN "succeed" ELSE "create")
  /\ UNCHANGED <<fixed, durable, stream, requests, failures, crashes, late>>

\* Mutant of WorkerLoop: the last index is one too high.
WorkerLoopTooFar ==
  /\ worker.pc = "loop"
  /\ Goto(IF status = "cancelled" THEN "done"
          ELSE IF worker.at > Len(plan) + 1 THEN "succeed" ELSE "create")
  /\ UNCHANGED <<fixed, durable, stream, requests, failures, crashes, late>>

\* is_run_cancelled before every node, and once more after the last
WorkerLoop ==
  /\ worker.pc = "loop"
  /\ Goto(IF status = "cancelled" THEN "done"
          ELSE IF worker.at > Len(plan) THEN "succeed" ELSE "create")
  /\ UNCHANGED <<fixed, durable, stream, requests, failures, crashes, late>>

WorkerCreateNodeRun ==
  /\ worker.pc = "create"
  /\ nodeRuns' = Append(nodeRuns, [node |-> worker.at, status |-> "running"])
  /\ worker' = [worker EXCEPT !.pc = "exec", !.run = Len(nodeRuns) + 1]
  /\ late' = IF status = "cancelled" THEN late + 1 ELSE late
  /\ UNCHANGED <<fixed, status, attached, checkpoints, tasks, stream, requests, failures,
                 crashes>>

\* Execute the node and record how it ended.  Only some types report an error
\* payload; a node that waits gets its waiting status here.
WorkerExecute ==
  /\ worker.pc = "exec"
  /\ LET type == plan[worker.at] IN
     \/ type \in Pure /\ SetNodeRun(worker.run, "succeeded") /\ NextNode
     \/ type \in Invoked /\ SetNodeRun(worker.run, "succeeded") /\ Goto("checkSucceeded")
     \/ type \in Invoked /\ SetNodeRun(worker.run, "failed") /\ Goto("checkFailed")
     \/ type = "data_model" /\ SetNodeRun(worker.run, "succeeded") /\ NextNode
     \/ type = "data_model" /\ SetNodeRun(worker.run, "failed") /\ Goto("failNode")
     \/ type \in Waiting /\ SetNodeRun(worker.run, WaitingStatus(type)) /\ Goto("checkWaiting")
  /\ UNCHANGED <<fixed, status, attached, checkpoints, tasks, stream, requests, failures,
                 crashes, late>>

\* Mutant of WorkerNodeError: the error of a node is only logged.
WorkerNodeErrorLogged ==
  /\ \/ worker.pc = "create"
     \/ worker.pc = "exec" /\ plan[worker.at] \in Invoked \cup {"unsupported"}
  /\ Goto("done")
  /\ UNCHANGED <<fixed, durable, stream, requests, failures, crashes, late>>

\* Inputs that do not resolve, a provider that cannot be invoked, and a node
\* type the live executor does not know end in an Err.
WorkerNodeError ==
  /\ \/ worker.pc = "create"
     \/ worker.pc = "exec" /\ plan[worker.at] \in Invoked \cup {"unsupported"}
  /\ FailRunBecause("continue")
  /\ UNCHANGED <<fixed, durable, stream, requests, failures, crashes, late>>

\* is_run_cancelled after an invoked node or before a wait
WorkerCheckCancelled ==
  /\ worker.pc \in {"checkSucceeded", "checkFailed", "checkWaiting"}
  /\ \/ status = "cancelled" /\ Goto("done")
     \/ status # "cancelled" /\ worker.pc = "checkSucceeded" /\ NextNode
     \/ status # "cancelled" /\ worker.pc = "checkFailed" /\ Goto("failNode")
     \/ status # "cancelled" /\ worker.pc = "checkWaiting" /\ Goto("checkpoint")
  /\ UNCHANGED <<fixed, durable, stream, requests, failures, crashes, late>>

\* The run fails with its node: update_flow_run has no condition.
WorkerFailNode ==
  /\ worker.pc = "failNode"
  /\ status' = "failed"
  /\ EmitBecause("node")
  /\ UNCHANGED <<fixed, attached, nodeRuns, checkpoints, tasks, stream, requests, failures,
                 crashes, late>>

\* Mutant of WorkerCheckpoint: the run is set waiting before its checkpoint exists.
WorkerCheckpointLate ==
  /\ worker.pc = "checkpoint"
  /\ status' = WaitingStatus(plan[worker.at])
  /\ Goto("task")
  /\ UNCHANGED <<fixed, attached, nodeRuns, checkpoints, tasks, stream, requests, failures,
                 crashes, late>>

WorkerCheckpoint ==
  /\ worker.pc = "checkpoint"
  /\ checkpoints' = Append(checkpoints, [nodeRun |-> worker.run, next |-> worker.at + 1])
  /\ Goto(IF plan[worker.at] \in Callback THEN "task" ELSE "wait")
  /\ UNCHANGED <<fixed, status, attached, nodeRuns, tasks, stream, requests, failures, crashes,
                 late>>

WorkerCreateTask ==
  /\ worker.pc = "task"
  /\ tasks' = Append(tasks, [nodeRun |-> worker.run, status |-> "pending"])
  /\ Goto("wait")
  /\ UNCHANGED <<fixed, status, attached, nodeRuns, checkpoints, stream, requests, failures,
                 crashes, late>>

\* update_flow_run to the waiting status, again without a condition
WorkerWait ==
  /\ worker.pc = "wait"
  /\ status' = WaitingStatus(plan[worker.at])
  /\ Goto("return")
  /\ UNCHANGED <<fixed, attached, nodeRuns, checkpoints, tasks, stream, requests, failures,
                 crashes, late>>

\* update_flow_run_if_status(succeeded, running)
WorkerSucceed ==
  /\ worker.pc = "succeed"
  /\ \/ status = "running" /\ status' = "succeeded" /\ EmitBecause("finished")
     \/ status # "running" /\ UNCHANGED status /\ Goto("return")
  /\ UNCHANGED <<fixed, attached, nodeRuns, checkpoints, tasks, stream, requests, failures,
                 crashes, late>>

\* load_run_detail, the last call of every branch
WorkerReturn ==
  /\ worker.pc = "return"
  /\ Goto("done")
  /\ UNCHANGED <<fixed, durable, stream, requests, failures, crashes, late>>

\* Any call of continue_flow_debug_run_inner may fail.
WorkerCallFails ==
  /\ worker.pc \in InnerCalls
  /\ RepositoryFails
  /\ FailRunBecause("continue")
  /\ UNCHANGED <<fixed, durable, stream, requests, crashes, late>>

\* Mutant of WorkerFailRead: a run that has ended is not left alone.
WorkerFailReadAnyway ==
  /\ worker.pc = "failRead"
  /\ \/ Goto("failWrite") /\ UNCHANGED failures
     \/ RepositoryFails /\ EndWithError
  /\ UNCHANGED <<fixed, durable, stream, requests, crashes, late>>

\* fail_flow_run: read the run and leave it alone when it has ended
WorkerFailRead ==
  /\ worker.pc = "failRead"
  /\ \/ /\ status \in TerminalStatuses
        /\ IF worker.why = "prepare" THEN EndWithError ELSE Goto("done")
        /\ UNCHANGED failures
     \/ /\ FlowTransitionAllowed(status, "failed")
        /\ Goto("failWrite")
        /\ UNCHANGED failures
     \/ RepositoryFails /\ EndWithError
  /\ UNCHANGED <<fixed, durable, stream, requests, crashes, late>>

\* fail_flow_run: update_flow_run, whatever the status has become
WorkerFailWrite ==
  /\ worker.pc = "failWrite"
  /\ \/ status' = "failed" /\ Goto("emit") /\ UNCHANGED failures
     \/ RepositoryFails /\ EndWithError /\ UNCHANGED status
  /\ UNCHANGED <<fixed, attached, nodeRuns, checkpoints, tasks, stream, requests, crashes, late>>

\* Mutant of WorkerEmit: the stream is closed first, so it refuses the event.
WorkerEmitTooLate ==
  /\ worker.pc = "emit"
  /\ IF streaming THEN CloseStream ELSE UNCHANGED closed
  /\ Goto("close")
  /\ UNCHANGED <<fixed, durable, opened, terminals, requests, failures, crashes, late>>

\* A service of the plain route has no stream; appends to it never reach the run's.
WorkerEmit ==
  /\ worker.pc = "emit"
  /\ IF streaming
     THEN EmitTerminal(IF worker.why = "finished" THEN "flow_finished" ELSE "flow_failed")
     ELSE UNCHANGED terminals
  /\ Goto("close")
  /\ UNCHANGED <<fixed, durable, opened, closed, requests, failures, crashes, late>>

\* Close the stream, then append the run event and return.
WorkerClose ==
  /\ worker.pc = "close"
  /\ IF streaming THEN CloseStream ELSE UNCHANGED closed
  /\ \/ /\ worker.why \in {"continue", "fallback"}
        /\ Goto("done")
        /\ UNCHANGED failures
     \/ /\ worker.why \in {"queued", "prepare"}
        /\ EndWithError
        /\ UNCHANGED failures
     \/ /\ worker.why = "continue"
        /\ RepositoryFails
        /\ EndWithError
     \/ /\ worker.why \in {"node", "finished"}
        /\ Goto("return")
        /\ UNCHANGED failures
  /\ UNCHANGED <<fixed, durable, opened, terminals, requests, crashes, late>>

\* fail_runtime_event_stream_if_missing_terminal.  A replay that the stream
\* refuses, as it does once the ring dropped its first event, counts as none.
WorkerFallback ==
  /\ worker.pc = "fallback"
  /\ \/ terminals # <<>> /\ Goto("done")
     \/ EmitBecause("fallback")
  /\ UNCHANGED <<fixed, durable, stream, requests, failures, crashes, late>>

\* The plain route prepares the run in the request's own future, which is gone
\* when the client hangs up during a call; the streaming one only opens it there.
WorkerDropped ==
  /\ \/ worker.pc = "open"
     \/ /\ ~streaming
        /\ \/ worker.pc \in {"prepare", "compile", "attach", "started", "failQueued"}
           \/ worker.pc \in {"failRead", "failWrite"} /\ worker.why = "prepare"
  /\ RepositoryFails
  /\ Goto("done")
  /\ UNCHANGED <<fixed, durable, stream, requests, crashes, late>>

WorkerStep ==
  \/ WorkerOpenStream \/ WorkerPrepare \/ WorkerCompile \/ WorkerAttach \/ WorkerFailQueued
  \/ WorkerStarted \/ WorkerContinue \/ WorkerLoop \/ WorkerCreateNodeRun \/ WorkerExecute
  \/ WorkerNodeError \/ WorkerCheckCancelled \/ WorkerFailNode \/ WorkerCheckpoint
  \/ WorkerCreateTask \/ WorkerWait \/ WorkerSucceed \/ WorkerReturn \/ WorkerCallFails
  \/ WorkerFailRead \/ WorkerFailWrite \/ WorkerEmit \/ WorkerClose \/ WorkerFallback

-----------------------------------------------------------------------------
(***************************************************************************)
(* cancel_flow_run.  Its service always has the runtime event stream.      *)
(***************************************************************************)
CancellerTo(c, pc) == canceller' = [canceller EXCEPT ![c].pc = pc]

CancelRead(c) ==
  /\ canceller[c].pc = "idle"
  /\ canceller' = [canceller EXCEPT
       ![c] = [pc |-> IF FlowTransitionAllowed(status, "cancelled") THEN "cas" ELSE "done",
               read |-> status]]
  /\ UNCHANGED <<fixed, durable, stream, worker, resumer, failures, crashes, late>>

\* update_flow_run_if_status(cancelled, the status that was read)
CancelWrite(c) ==
  /\ canceller[c].pc = "cas"
  /\ \/ status = canceller[c].read /\ status' = "cancelled" /\ CancellerTo(c, "emit")
     \/ status # canceller[c].read /\ UNCHANGED status /\ CancellerTo(c, "done")
  /\ UNCHANGED <<fixed, attached, nodeRuns, checkpoints, tasks, stream, worker, resumer,
                 failures, crashes, late>>

CancelEmit(c) ==
  /\ canceller[c].pc = "emit"
  /\ EmitTerminal("flow_cancelled")
  /\ CancellerTo(c, "close")
  /\ UNCHANGED <<fixed, durable, opened, closed, worker, resumer, failures, crashes, late>>

CancelClose(c) ==
  /\ canceller[c].pc = "close"
  /\ CloseStream
  /\ CancellerTo(c, "done")
  /\ UNCHANGED <<fixed, durable, opened, terminals, worker, resumer, failures, crashes, late>>

\* A call fails, or the client hangs up while the update is under way, which
\* takes effect or not; the two calls to the stream never suspend the request.
CancelFails(c) ==
  /\ canceller[c].pc \in {"idle", "cas", "emit"}
  /\ RepositoryFails
  /\ CancellerTo(c, "done")
  /\ UNCHANGED <<fixed, durable, stream, worker, resumer, crashes, late>>

CancelStep(c) ==
  CancelRead(c) \/ CancelWrite(c) \/ CancelEmit(c) \/ CancelClose(c) \/ CancelFails(c)

-----------------------------------------------------------------------------
(***************************************************************************)
(* resume_flow_run and complete_callback_task, then                        *)
(* persist_flow_debug_outcome.  Neither looks at the run's status before   *)
(* it executes; read is the status that the last transition check uses.    *)
(***************************************************************************)
ResumerTo(r, pc) == resumer' = [resumer EXCEPT ![r].pc = pc]

ResumerEnds(r) == resumer' = [resumer EXCEPT ![r] = NoRequest("done")]

\* resume_flow_run: get_flow_run, for a checkpoint the client has seen
ResumeRead(r) ==
  /\ resumer[r].pc = "idle"
  /\ \E c \in 1 .. Len(checkpoints) :
       resumer' = [resumer EXCEPT ![r] =
                     [@ EXCEPT !.pc = "detail", !.read = status, !.checkpoint = c]]
  /\ UNCHANGED <<fixed, durable, stream, worker, canceller, failures, crashes, late>>

\* resume_flow_run: get_checkpoint and get_application_run_detail
ResumeDetail(r) ==
  /\ resumer[r].pc = "detail"
  /\ resumer' = [resumer EXCEPT ![r] =
       [@ EXCEPT !.pc = "exec",
                 !.from = nodeRuns[checkpoints[resumer[r].checkpoint].nodeRun].status]]
  /\ UNCHANGED <<fixed, durable, stream, worker, canceller, failures, crashes, late>>

\* complete_callback_task: the task is completed whatever its status is
CompleteTask(r) ==
  /\ resumer[r].pc = "idle"
  /\ \E t \in 1 .. Len(tasks) :
       /\ tasks' = [tasks EXCEPT ![t].status = "completed"]
       /\ resumer' = [resumer EXCEPT ![r] = [@ EXCEPT !.pc = "callback", !.task = t]]
  /\ UNCHANGED <<fixed, status, attached, nodeRuns, checkpoints, stream, worker, canceller,
                 failures, crashes, late>>

\* complete_callback_task: the run detail, and the task's latest checkpoint in it
CallbackDetail(r) ==
  /\ resumer[r].pc = "callback"
  /\ \E c \in 1 .. Len(checkpoints) :
       LET run == tasks[resumer[r].task].nodeRun IN
       /\ checkpoints[c].nodeRun = run
       /\ \A d \in 1 .. Len(checkpoints) : checkpoints[d].nodeRun = run => d <= c
       /\ resumer' = [resumer EXCEPT ![r] =
            [@ EXCEPT !.pc = "exec", !.read = status, !.checkpoint = c,
                      !.from = nodeRuns[run].status]]
  /\ UNCHANGED <<fixed, durable, stream, worker, canceller, failures, crashes, late>>

\* The nodes execute_from gets through from position n to the one before j
RunsThrough(n, j) == \A i \in n .. j - 1 : plan[i] \in Pure \cup Invoked

\* execute_from: no data_model arm, so such a node ends the request with an Err
ResumeExecute(r) ==
  /\ resumer[r].pc = "exec"
  /\ LET next == checkpoints[resumer[r].checkpoint].next IN
     \E j \in next .. Len(plan) + 1 :
       /\ RunsThrough(next, j)
       /\ \/ \E result \in {"waiting", "failed", "completed"} :
               /\ \/ result = "waiting" /\ j <= Len(plan) /\ plan[j] \in Waiting
                  \/ result = "failed" /\ j <= Len(plan) /\ plan[j] \in Invoked
                  \/ result = "completed" /\ j = Len(plan) + 1
               /\ resumer' = [resumer EXCEPT ![r] =
                    [@ EXCEPT !.pc = "node", !.at = next, !.stop = j, !.result = result]]
          \/ j <= Len(plan) /\ ResumerEnds(r)
  /\ UNCHANGED <<fixed, durable, stream, worker, canceller, failures, crashes, late>>

\* Mutant of ResumeNode: the node run that waited is left as it is.
ResumeNodeSkipped(r) ==
  /\ resumer[r].pc = "node"
  /\ MaySucceed(resumer[r].from)
  /\ ResumerTo(r, "traces")
  /\ UNCHANGED <<fixed, durable, stream, worker, canceller, failures, crashes, late>>

\* persist_flow_debug_outcome: the trigger event, then the node that waited
ResumeNode(r) ==
  /\ resumer[r].pc = "node"
  /\ \/ /\ MaySucceed(resumer[r].from)
        /\ SetNodeRun(checkpoints[resumer[r].checkpoint].nodeRun, "succeeded")
        /\ ResumerTo(r, "traces")
     \/ /\ ~MaySucceed(resumer[r].from)
        /\ UNCHANGED nodeRuns
        /\ ResumerEnds(r)
  /\ UNCHANGED <<fixed, status, attached, checkpoints, tasks, stream, worker, canceller,
                 failures, crashes, late>>

\* The last node that left a trace
LastTrace(r) == IF resumer[r].result = "completed" THEN Len(plan) ELSE resumer[r].stop

TraceStatus(r, n) ==
  IF n < resumer[r].stop THEN "succeeded"
  ELSE IF resumer[r].result = "failed" THEN "failed" ELSE WaitingStatus(plan[n])

\* persist_flow_debug_node_traces: create and then update the node run; the
\* update may fail after the creation
ResumeTrace(r) ==
  /\ resumer[r].pc = "traces"
  /\ resumer[r].at <= LastTrace(r)
  /\ LET n == resumer[r].at IN
     \/ /\ nodeRuns' = Append(nodeRuns, [node |-> n, status |-> TraceStatus(r, n)])
        /\ resumer' = [resumer EXCEPT ![r] = [@ EXCEPT !.at = n + 1, !.run = Len(nodeRuns) + 1]]
        /\ UNCHANGED failures
     \/ /\ nodeRuns' = Append(nodeRuns, [node |-> n, status |-> "running"])
        /\ ResumerEnds(r)
        /\ RepositoryFails
  /\ UNCHANGED <<fixed, status, attached, checkpoints, tasks, stream, worker, canceller,
                 crashes, late>>

ResumeTracesEnd(r) ==
  /\ resumer[r].pc = "traces"
  /\ resumer[r].at > LastTrace(r)
  /\ ResumerTo(r, IF resumer[r].result = "waiting" THEN "checkpoint" ELSE "finish")
  /\ UNCHANGED <<fixed, durable, stream, worker, canceller, failures, crashes, late>>

ResumeCheckpoint(r) ==
  /\ resumer[r].pc = "checkpoint"
  /\ checkpoints' = Append(checkpoints, [nodeRun |-> resumer[r].run,
                                         next |-> resumer[r].stop + 1])
  /\ ResumerTo(r, IF plan[resumer[r].stop] \in Callback THEN "task" ELSE "finish")
  /\ UNCHANGED <<fixed, status, attached, nodeRuns, tasks, stream, worker, canceller, failures,
                 crashes, late>>

ResumeCreateTask(r) ==
  /\ resumer[r].pc = "task"
  /\ tasks' = Append(tasks, [nodeRun |-> resumer[r].run, status |-> "pending"])
  /\ ResumerTo(r, "finish")
  /\ UNCHANGED <<fixed, status, attached, nodeRuns, checkpoints, stream, worker, canceller,
                 failures, crashes, late>>

\* The status the outcome gives the run
OutcomeStatus(r) ==
  CASE resumer[r].result = "waiting"   -> WaitingStatus(plan[resumer[r].stop])
    [] resumer[r].result = "completed" -> "succeeded"
    [] resumer[r].result = "failed"    -> "failed"

\* Mutant of ResumeFinish: no ensure_flow_run_transition before the update.
ResumeFinishUnchecked(r) ==
  /\ resumer[r].pc = "finish"
  /\ status' = OutcomeStatus(r)
  /\ ResumerEnds(r)
  /\ UNCHANGED <<fixed, attached, nodeRuns, checkpoints, tasks, stream, worker, canceller,
                 failures, crashes, late>>

\* ensure_flow_run_transition on the status read at the start, then
\* update_flow_run without a condition
ResumeFinish(r) ==
  /\ resumer[r].pc = "finish"
  /\ status' = IF FlowTransitionAllowed(resumer[r].read, OutcomeStatus(r))
               THEN OutcomeStatus(r) ELSE status
  /\ ResumerEnds(r)
  /\ UNCHANGED <<fixed, attached, nodeRuns, checkpoints, tasks, stream, worker, canceller,
                 failures, crashes, late>>

\* A failed call, or the client hanging up, ends the request; what it wrote
\* before stays.
ResumeFails(r) ==
  /\ resumer[r].pc \notin {"idle", "done"}
  /\ RepositoryFails
  /\ ResumerEnds(r)
  /\ UNCHANGED <<fixed, durable, stream, worker, canceller, crashes, late>>

ResumeStep(r) ==
  \/ ResumeRead(r) \/ ResumeDetail(r) \/ CompleteTask(r) \/ CallbackDetail(r)
  \/ ResumeExecute(r) \/ ResumeNode(r) \/ ResumeTrace(r) \/ ResumeTracesEnd(r)
  \/ ResumeCheckpoint(r) \/ ResumeCreateTask(r) \/ ResumeFinish(r) \/ ResumeFails(r)

-----------------------------------------------------------------------------
\* The API server restarts: tasks and requests in flight are gone and so is
\* the in-process event stream; nothing picks the run up again.
Crash ==
  /\ crashes < MaxCrashes
  /\ crashes' = crashes + 1
  /\ worker' = [worker EXCEPT !.pc = "done"]
  /\ canceller' = [c \in Cancellers |->
       IF canceller[c].pc = "idle" THEN canceller[c] ELSE [canceller[c] EXCEPT !.pc = "done"]]
  /\ resumer' = [r \in Resumers |->
       IF resumer[r].pc = "idle" THEN resumer[r] ELSE NoRequest("done")]
  /\ opened' = FALSE
  /\ closed' = FALSE
  /\ terminals' = <<>>
  /\ UNCHANGED <<fixed, durable, failures, late>>

Next ==
  \/ WorkerStep
  \/ WorkerDropped
  \/ \E c \in Cancellers : CancelStep(c)
  \/ \E r \in Resumers : ResumeStep(r)
  \/ Crash

Spec == Init /\ [][Next]_vars

(***************************************************************************)
(* The worker is a spawned task: tokio keeps polling it, and each of its   *)
(* awaits returns (the database pool and the plugin runtime have           *)
(* timeouts).  While it is part of a request it may be dropped with the    *)
(* connection: WorkerDropped.  The other requests get no fairness at all.  *)
(***************************************************************************)
FairSpec == Spec /\ WF_vars(WorkerStep)

-----------------------------------------------------------------------------
\* Properties

NodeRunIds == 1 .. Len(nodeRuns)

\* Every variable has its type, and rows refer to rows that exist.
TypeOK ==
  /\ plan \in Seq(NodeTypes)
  /\ streaming \in BOOLEAN
  /\ status \in FlowStatuses
  /\ attached \in BOOLEAN
  /\ nodeRuns \in Seq([node : 1 .. Len(plan), status : NodeStatuses])
  /\ checkpoints \in Seq([nodeRun : NodeRunIds, next : 1 .. Len(plan) + 1])
  /\ tasks \in Seq([nodeRun : NodeRunIds, status : {"pending", "completed"}])
  /\ opened \in BOOLEAN
  /\ closed \in BOOLEAN
  /\ terminals \in Seq({"flow_finished", "flow_failed", "flow_cancelled"})
  /\ worker \in [pc : WorkerPcs, at : 1 .. Len(plan) + 1, run : NodeRunIds \cup {0},
                 why : Reasons]
  /\ canceller \in [Cancellers -> [pc : CancellerPcs, read : FlowStatuses]]
  /\ resumer \in [Resumers ->
       [pc : ResumerPcs, read : FlowStatuses \cup {"none"},
        checkpoint : 1 .. Len(checkpoints) \cup {0}, task : 1 .. Len(tasks) \cup {0},
        from : NodeStatuses \cup {"none"}, at : 0 .. Len(plan) + 1, stop : 0 .. Len(plan) + 1,
        run : NodeRunIds \cup {0}, result : {"none", "waiting", "failed", "completed"}]]
  /\ failures \in 0 .. MaxFailures
  /\ crashes \in 0 .. MaxCrashes
  /\ late \in Nat

\* A run that waits can be resumed: the checkpoint behind a node of the kind it
\* waits for was stored first, so that neither a restart nor a failed call
\* between the two leaves a waiting run nobody can continue.
WaitingHasCheckpoint ==
  status \in WaitingStatuses =>
    \E c \in 1 .. Len(checkpoints) :
      LET node == nodeRuns[checkpoints[c].nodeRun].node IN
      /\ plan[node] \in Waiting
      /\ WaitingStatus(plan[node]) = status
      /\ checkpoints[c].next = node + 1

Done(n) == \E i \in NodeRunIds : nodeRuns[i].node = n /\ nodeRuns[i].status = "succeeded"

\* A run is only reported as succeeded when every node of its plan has a node
\* run that succeeded, whoever ran it and however often the run was resumed,
\* failed half-way or was overtaken by another request.
SucceededCoversPlan == status = "succeeded" => \A n \in 1 .. Len(plan) : Done(n)

\* A stream is not closed without a terminal event, so no reader waits for one
\* that cannot come any more.  The exception is a run cancelled before its
\* plan was attached: the cancel may have been refused by a stream that was
\* about to be opened.
ClosedHasTerminal ==
  closed /\ ~(status = "cancelled" /\ ~attached) => terminals # <<>>

\* A run that ended before its plan was attached never leaves that status and
\* never executes a node, although its worker is still preparing it.
EndedShellIsFinal ==
  [][(~attached /\ status \in TerminalStatuses) =>
       /\ nodeRuns' = <<>>
       /\ ~attached'
       /\ status' = status]_vars

\* After a cancel the worker starts at most the node it was about to start
\* (docs/superpowers/plans/2026-04-25-agent-flow-debug-console-live-runtime.md:
\* a run marked cancelled stops executing).
StopsAfterCancel == late <= 1

\* The worker has ended and every request in flight that has read the run read
\* it after it ended.
Settled ==
  /\ status \in TerminalStatuses
  /\ worker.pc = "done"
  /\ \A r \in Resumers :
       resumer[r].pc # "done" => resumer[r].read \in TerminalStatuses \cup {"none"}

\* Once the writers that raced with its end are gone, a run that ended keeps its
\* status: no later resume, callback or cancel revives or relabels it.
SettledIsFinal == [][Settled => status' = status]_vars

\* A run does not stay queued or running while the database answers, the client
\* that started it stays connected and the server stays up.
RunSettles ==
  status \in {"queued", "running"} ~>
    (status \notin {"queued", "running"} \/ failures > 0 \/ crashes > 0)

\* Every change of the status is one that ensure_flow_run_transition allows
\* (state_transition.rs), which each write in live_debug_run.rs and
\* persistence.rs is preceded by.
OnlyAllowedTransitions ==
  [][status' # status => FlowTransitionAllowed(status, status')]_vars

\* Between continue_flow_debug_run_inner's look at the run and its last write
AtNodes == {"loop", "create", "exec", "checkSucceeded", "checkFailed", "checkWaiting", "failNode",
            "checkpoint", "task", "wait"}

\* The moves ensure_flow_run_transition allows, none for a request that read nothing
FlowMoves ==
  [from \in FlowStatuses \cup {"none"} |-> {to \in FlowStatuses : FlowTransitionAllowed(from, to)}]

\* The statuses the worker may still write without looking at the run again
WorkerMay ==
  IF worker.pc \in AtNodes THEN FlowMoves["running"]
  ELSE IF worker.pc = "failWrite" THEN {"failed"} ELSE {}

RunWriters == Resumers \cup {"worker"}

May == [w \in RunWriters |-> IF w = "worker" THEN WorkerMay ELSE FlowMoves[resumer[w].read]]

Record == INSTANCE StatusRecord WITH
  Writers <- RunWriters, Moves <- FlowMoves, First <- "queued", may <- May

\* The worker and the resume requests write over statuses they have not seen
\* (OnlyAllowedTransitions is false), but each write is one the last look of its
\* own writer allowed, and there is at most one per look; cancels, attaches and
\* the final success are conditional updates.
WritesAreLicensed == Record!Spec
=============================================================================
