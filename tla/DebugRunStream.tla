--------------------------- MODULE DebugRunStream ---------------------------
(***************************************************************************)
(* The two consumers of a streamed debug run and everybody they depend on: *)
(* the SSE sender, which forwards the run's events to the browser through  *)
(* a bounded channel, and the debug event persister, which turns them into *)
(* rows of flow_run_events (application_runtime.rs, debug_run_stream.rs,   *)
(* debug_event_persister.rs).  The worker that executes the run, a cancel  *)
(* request, a resume request and the provider trace of an LLM node write   *)
(* the same event stream, the same status and the same table.              *)
(*                                                                         *)
(* The stream is used through what OrderedFeed promises a reader: every    *)
(* event that must be kept, in order; the two ephemeral ones, which the    *)
(* persister skips, are left out.  A row gets the next sequence number of  *)
(* its run by a read that locks nothing; the unique key on (flow_run_id,   *)
(* sequence) refuses the slower of two writers.  FlowRun has the statuses, *)
(* nodes and checkpoints in full; payloads are left out.                   *)
(***************************************************************************)
EXTENDS Integers, Sequences

CONSTANTS
  MaxNodes,   \* bound of the model: nodes a run executes
  Streams,    \* what a provider may stream to a node: sequences of delta types
  MaxFaults   \* bound of the model: repository calls that fail, dropped requests

Deltas == {"text_delta", "reasoning_delta"}

ASSUME DebugAssumption ==
  MaxNodes \in Nat /\ Streams \subseteq Seq(Deltas) /\ MaxFaults \in Nat

VARIABLES
  status,     \* flow_runs.status
  log,        \* the events of the run's stream, by sequence number
  closed,     \* the stream accepts no more events
  tx,         \* per writer, its open transaction on flow_run_events: see TxStates
  worker,     \* the background task that the streaming route spawns
  tracer,     \* run_live_event_persister of the node that runs
  request,    \* one request to cancel the run or to resume it
  checkpoint, \* the run has a checkpoint to resume from
  persister,  \* the durable consumer: cursor, unwritten batch, batch being written
  persisted,  \* history: the events it wrote, in the order of their rows
  lost,       \* history: the events of batches whose write failed
  sse,        \* the live consumer, and the endings it has sent to the browser
  faults      \* faults so far

stream    == <<log, closed>>
consumers == <<persister, persisted, lost, sse>>
vars == <<status, stream, tx, worker, tracer, request, checkpoint, consumers, faults>>

Terminals   == {"flow_finished", "flow_failed", "flow_cancelled"}
Events      == {"flow_started", "node_started", "node_finished"} \cup Deltas \cup Terminals
Ended       == {"succeeded", "failed", "cancelled"}
Statuses    == Ended \cup {"queued", "running", "waiting"}
Writers     == {"worker", "tracer", "request", "persister"}

\* none open; the max(sequence) it read is still the last; another writer's
\* rows have taken the numbers it is about to use
TxStates    == {"none", "current", "stale"}

\* Why the worker emits a terminal event, or fails the run
Reasons == {"shell", "prepare", "continue", "node", "finished", "fallback"}

\* Where a call of continue_flow_debug_run_inner may fail with `?`
InnerCalls == {"continue", "loop", "start", "nodeDone", "check", "failNode", "suspend", "wait",
               "finish", "return"}

WorkerPcs == {"prepare", "compile", "attach", "failShell", "started", "announce", "continue",
              "loop", "start", "run", "join", "nodeDone", "check", "failNode", "suspend", "wait",
              "finish", "return", "emit", "close", "record", "failRead", "failWrite",
              "fallback", "over", "done"}

\* ensure_flow_run_transition, with one status for both kinds of waiting
MayBecome(from, to) ==
  \/ from = "queued" /\ to \in {"running", "failed", "cancelled"}
  \/ from \in {"running", "waiting"} /\ to \in Ended \cup {"waiting"}

\* The route has opened the stream and spawned the persister, the sender and
\* the worker.
Init ==
  /\ status = "queued"
  /\ log = <<>>
  /\ closed = FALSE
  /\ tx = [w \in Writers |-> "none"]
  /\ worker = [pc |-> "prepare", why |-> "continue", nodes |-> 0, stream |-> <<>>,
               outcome |-> "succeeded"]
  /\ tracer = [pending |-> FALSE, failed |-> FALSE]
  /\ request = [pc |-> "idle", read |-> "queued"]
  /\ checkpoint = FALSE
  /\ persister = [pc |-> "read", cursor |-> 0, batch |-> <<>>, writing |-> <<>>]
  /\ persisted = <<>>
  /\ lost = {}
  /\ sse = [pc |-> "read", told |-> <<>>]
  /\ faults = 0

-----------------------------------------------------------------------------
\* A repository call fails, or the future of a request is dropped.
Fault == faults < MaxFaults /\ faults' = faults + 1

\* append: refused once the stream is closed, which callers only log
Emit(event) == log' = IF closed THEN log ELSE Append(log, event)

\* append_run_event, append_run_events: read max(sequence), insert behind it
BeginTx(w) ==
  /\ tx[w] = "none"
  /\ tx' = [tx EXCEPT ![w] = "current"]
  /\ UNCHANGED faults

Commit(w) ==
  /\ tx[w] = "current"
  /\ tx' = [v \in Writers |-> IF v = w THEN "none" ELSE IF tx[v] = "none" THEN "none" ELSE "stale"]
  /\ UNCHANGED faults

\* The unique key refuses a number that another writer took since, or the
\* statement fails; the transaction is gone either way.
Refused(w) ==
  /\ \/ tx[w] = "stale" /\ UNCHANGED faults
     \/ tx[w] = "current" /\ Fault
  /\ tx' = [tx EXCEPT ![w] = "none"]

-----------------------------------------------------------------------------
Goto(pc) == worker' = [worker EXCEPT !.pc = pc]

\* The task is over, whatever it did before.
Rest == worker' = [pc |-> "over", why |-> "continue", nodes |-> 0, stream |-> <<>>,
                   outcome |-> "succeeded"]

EmitBecause(reason) == worker' = [worker EXCEPT !.pc = "emit", !.why = reason]

FailBecause(reason) == worker' = [worker EXCEPT !.pc = "failRead", !.why = reason]

\* prepare_flow_debug_run_from_shell up to the plan; an error of the first
\* part leaves the run alone, a plan that cannot be made fails the shell.
WorkerPrepares ==
  /\ worker.pc \in {"prepare", "compile"}
  /\ \/ worker.pc = "prepare" /\ status = "queued" /\ Goto("compile") /\ UNCHANGED faults
     \/ worker.pc = "prepare" /\ status # "queued" /\ Goto("fallback") /\ UNCHANGED faults
     \/ worker.pc = "prepare" /\ Fault /\ Goto("fallback")
     \/ worker.pc = "compile" /\ Goto("attach") /\ UNCHANGED faults
     \/ worker.pc = "compile" /\ Goto("failShell") /\ UNCHANGED faults
  /\ UNCHANGED <<status, stream, tx, tracer, request, checkpoint, consumers>>

\* attach_compiled_plan_to_flow_run
WorkerAttaches ==
  /\ worker.pc = "attach"
  /\ \/ /\ status = "queued"
        /\ status' = "running"
        /\ Goto("started")
        /\ UNCHANGED faults
     \/ /\ (status # "queued" /\ UNCHANGED faults) \/ Fault
        /\ Goto("failShell")
        /\ UNCHANGED status
  /\ UNCHANGED <<stream, tx, tracer, request, checkpoint, consumers>>

\* fail_queued_flow_run_shell: only while it is queued
WorkerFailsShell ==
  /\ worker.pc = "failShell"
  /\ \/ /\ status = "queued"
        /\ status' = "failed"
        /\ EmitBecause("shell")
        /\ UNCHANGED faults
     \/ /\ (status # "queued" /\ UNCHANGED faults) \/ Fault
        /\ Goto("fallback")
        /\ UNCHANGED status
  /\ UNCHANGED <<stream, tx, tracer, request, checkpoint, consumers>>

\* The durable flow_run_started; an error fails the run from "prepare".
WorkerRecordsStart ==
  /\ worker.pc = "started"
  /\ \/ BeginTx("worker") /\ UNCHANGED worker
     \/ Commit("worker") /\ Goto("announce")
     \/ Refused("worker") /\ FailBecause("prepare")
  /\ UNCHANGED <<status, stream, tracer, request, checkpoint, consumers>>

\* flow_started on the stream, then the billing rows and the run detail
WorkerAnnounces ==
  /\ worker.pc = "announce"
  /\ Emit("flow_started")
  /\ \/ Goto("continue") /\ UNCHANGED faults
     \/ Fault /\ FailBecause("prepare")
  /\ UNCHANGED <<status, closed, tx, tracer, request, checkpoint, consumers>>

\* continue_flow_debug_run_inner: only a running run; is_run_cancelled before
\* every node and after the last
WorkerChooses ==
  /\ worker.pc \in {"continue", "loop"}
  /\ \/ worker.pc = "continue" /\ Goto(IF status = "running" THEN "loop" ELSE "return")
     \/ worker.pc = "loop" /\ status = "cancelled" /\ Goto("return")
     \/ worker.pc = "loop" /\ status # "cancelled" /\ worker.nodes < MaxNodes /\ Goto("start")
     \/ worker.pc = "loop" /\ status # "cancelled" /\ Goto("finish")
  /\ UNCHANGED <<status, stream, tx, tracer, request, checkpoint, consumers, faults>>

WorkerStartsNode ==
  /\ worker.pc = "start"
  /\ Emit("node_started")
  /\ \E deltas \in Streams :
       worker' = [worker EXCEPT !.pc = "run", !.nodes = @ + 1, !.stream = deltas]
  /\ UNCHANGED <<status, closed, tx, tracer, request, checkpoint, consumers, faults>>

\* The forwarding task of an LLM node: a delta goes to the stream, then to the
\* trace, which keeps it as a run event of its own unless it is text.
NodeStreams ==
  /\ worker.pc = "run"
  /\ worker.stream # <<>>
  /\ Emit(Head(worker.stream))
  /\ tracer' = [tracer EXCEPT !.pending =
                  @ \/ (Head(worker.stream) # "text_delta" /\ ~tracer.failed)]
  /\ worker' = [worker EXCEPT !.stream = Tail(@)]
  /\ UNCHANGED <<status, closed, tx, request, checkpoint, consumers, faults>>

NodeEnds ==
  /\ worker.pc = "run"
  /\ worker.stream = <<>>
  /\ \E result \in {"succeeded", "failed", "waiting"} :
       worker' = [worker EXCEPT !.pc = "join", !.outcome = result]
  /\ UNCHANGED <<status, stream, tx, tracer, request, checkpoint, consumers, faults>>

\* Mutant of WorkerJoins: the node does not wait for its trace.
WorkerJoinsNothing ==
  /\ worker.pc = "join"
  /\ Goto("nodeDone")
  /\ UNCHANGED <<status, stream, tx, tracer, request, checkpoint, consumers, faults>>

\* The node joins its trace, whose error becomes the node's; a node whose
\* runtime is missing or whose type is unknown is an error as well.
WorkerJoins ==
  /\ worker.pc = "join"
  /\ tx["tracer"] = "none" /\ ~tracer.pending
  /\ tracer' = [tracer EXCEPT !.failed = FALSE]
  /\ \/ ~tracer.failed /\ Goto("nodeDone")
     \/ FailBecause("continue")
  /\ UNCHANGED <<status, stream, tx, request, checkpoint, consumers, faults>>

\* update_node_run_and_emit
WorkerEndsNode ==
  /\ worker.pc = "nodeDone"
  /\ Emit("node_finished")
  /\ Goto("check")
  /\ UNCHANGED <<status, closed, tx, tracer, request, checkpoint, consumers, faults>>

\* is_run_cancelled once more, then whatever the node ended in
WorkerChecks ==
  /\ worker.pc = "check"
  /\ \/ status = "cancelled" /\ Goto("return")
     \/ status # "cancelled" /\ worker.outcome = "succeeded" /\ Goto("loop")
     \/ status # "cancelled" /\ worker.outcome = "failed" /\ Goto("failNode")
     \/ status # "cancelled" /\ worker.outcome = "waiting" /\ Goto("suspend")
  /\ UNCHANGED <<status, stream, tx, tracer, request, checkpoint, consumers, faults>>

\* update_flow_run has no condition on the status it overwrites.
WorkerFailsNode ==
  /\ worker.pc = "failNode"
  /\ status' = "failed"
  /\ EmitBecause("node")
  /\ UNCHANGED <<stream, tx, tracer, request, checkpoint, consumers, faults>>

\* A node that waits: a checkpoint, the waiting status, and no terminal event
WorkerSuspends ==
  /\ \/ /\ worker.pc = "suspend"
        /\ checkpoint' = TRUE
        /\ Goto("wait")
        /\ UNCHANGED status
     \/ /\ worker.pc = "wait"
        /\ status' = "waiting"
        /\ Goto("return")
        /\ UNCHANGED checkpoint
  /\ UNCHANGED <<stream, tx, tracer, request, consumers, faults>>

\* Mutant of WorkerFinishes: the update lacks its `and status = 'running'`.
WorkerFinishesAnyway ==
  /\ worker.pc = "finish"
  /\ status' = "succeeded"
  /\ EmitBecause("finished")
  /\ UNCHANGED <<stream, tx, tracer, request, checkpoint, consumers, faults>>

\* update_flow_run_if_status(succeeded, running)
WorkerFinishes ==
  /\ worker.pc = "finish"
  /\ \/ status = "running" /\ status' = "succeeded" /\ EmitBecause("finished")
     \/ status # "running" /\ Goto("return") /\ UNCHANGED status
  /\ UNCHANGED <<stream, tx, tracer, request, checkpoint, consumers, faults>>

\* load_run_detail, the last call of every branch
WorkerReturns ==
  /\ worker.pc = "return"
  /\ Rest
  /\ UNCHANGED <<status, stream, tx, tracer, request, checkpoint, consumers, faults>>

WorkerCallFails ==
  /\ worker.pc \in InnerCalls
  /\ Fault
  /\ FailBecause("continue")
  /\ UNCHANGED <<status, stream, tx, tracer, request, checkpoint, consumers>>

\* Mutant of WorkerEmits: the stream is closed before its last event.
WorkerClosesFirst ==
  /\ worker.pc = "emit"
  /\ closed' = TRUE
  /\ Goto("close")
  /\ UNCHANGED <<status, log, tx, tracer, request, checkpoint, consumers, faults>>

WorkerEmits ==
  /\ worker.pc = "emit"
  /\ Emit(IF worker.why = "finished" THEN "flow_finished" ELSE "flow_failed")
  /\ Goto("close")
  /\ UNCHANGED <<status, closed, tx, tracer, request, checkpoint, consumers, faults>>

WorkerCloses ==
  /\ worker.pc = "close"
  /\ closed' = TRUE
  /\ IF worker.why = "fallback" THEN Rest ELSE Goto("record")
  /\ UNCHANGED <<status, log, tx, tracer, request, checkpoint, consumers, faults>>

\* The durable flow_run_completed or flow_run_failed.  The preparation returns
\* its error in any case, fail_flow_run only if it fails itself; where it does
\* not, the fallback would find its terminal event and do nothing.
WorkerRecordsEnd ==
  /\ worker.pc = "record"
  /\ \/ BeginTx("worker") /\ UNCHANGED worker
     \/ Commit("worker") /\ Goto(IF worker.why \in {"node", "finished"} THEN "return"
                                    ELSE "fallback")
     \/ /\ Refused("worker")
        /\ IF worker.why \in {"node", "finished"} THEN FailBecause("continue")
           ELSE Goto("fallback")
  /\ UNCHANGED <<status, stream, tracer, request, checkpoint, consumers>>

\* fail_flow_run: leave an ended run alone, otherwise update it to failed
WorkerFailsRun ==
  /\ worker.pc \in {"failRead", "failWrite"}
  /\ \/ /\ worker.pc = "failRead"
        /\ \/ status \notin Ended /\ Goto("failWrite")
           \/ status \in Ended /\ worker.why = "prepare" /\ Goto("fallback")
           \/ status \in Ended /\ worker.why # "prepare" /\ Rest
        /\ UNCHANGED <<status, faults>>
     \/ /\ worker.pc = "failWrite"
        /\ status' = "failed"
        /\ Goto("emit")
        /\ UNCHANGED faults
     \/ /\ Fault
        /\ Goto("fallback")
        /\ UNCHANGED status
  /\ UNCHANGED <<stream, tx, tracer, request, checkpoint, consumers>>

\* fail_runtime_event_stream_if_missing_terminal
WorkerFallsBack ==
  /\ worker.pc = "fallback"
  /\ IF \E n \in DOMAIN log : log[n] \in Terminals THEN Rest ELSE EmitBecause("fallback")
  /\ UNCHANGED <<status, stream, tx, tracer, request, checkpoint, consumers, faults>>

\* wait_for_debug_event_persister: until it is done, or two seconds.  A dropped
\* JoinHandle detaches the persister; it does not stop it.
WorkerWaits ==
  /\ worker.pc = "over"
  /\ Goto("done")
  /\ UNCHANGED <<status, stream, tx, tracer, request, checkpoint, consumers, faults>>

WorkerStep ==
  \/ WorkerPrepares \/ WorkerAttaches \/ WorkerFailsShell \/ WorkerRecordsStart
  \/ WorkerAnnounces \/ WorkerChooses \/ WorkerStartsNode \/ NodeStreams \/ NodeEnds
  \/ WorkerJoins \/ WorkerEndsNode \/ WorkerChecks \/ WorkerFailsNode \/ WorkerSuspends
  \/ WorkerFinishes \/ WorkerReturns \/ WorkerCallFails \/ WorkerEmits \/ WorkerCloses
  \/ WorkerRecordsEnd \/ WorkerFailsRun \/ WorkerFallsBack \/ WorkerWaits

\* run_live_event_persister: what it coalesced becomes one write; its first
\* error ends it, and what comes later has no receiver.
TracerStep ==
  /\ ~tracer.failed
  /\ \/ tracer.pending /\ BeginTx("tracer") /\ UNCHANGED tracer
     \/ Commit("tracer") /\ tracer' = [tracer EXCEPT !.pending = FALSE]
     \/ Refused("tracer") /\ tracer' = [pending |-> FALSE, failed |-> TRUE]
  /\ UNCHANGED <<status, stream, worker, request, checkpoint, consumers>>

-----------------------------------------------------------------------------
\* cancel_flow_run reads the status, for its compare-and-set.  A request that
\* finds the run ended is refused and changes nothing.
CancelBegins ==
  /\ request.pc = "idle"
  /\ status \notin Ended
  /\ request' = [pc |-> "cancel", read |-> status]
  /\ UNCHANGED <<status, stream, tx, worker, tracer, checkpoint, consumers, faults>>

AtRequest(pc) == request' = [pc |-> pc, read |-> IF pc = "set" THEN request.read ELSE "queued"]

\* A dropped request may leave its update behind and nothing else.
CancelSets ==
  /\ request.pc = "cancel"
  /\ \/ /\ status = request.read
        /\ status' = "cancelled"
        /\ \/ AtRequest("emit") /\ UNCHANGED faults
           \/ AtRequest("dropped") /\ Fault
     \/ /\ status # request.read
        /\ AtRequest("done")
        /\ UNCHANGED <<status, faults>>
  /\ UNCHANGED <<stream, tx, worker, tracer, checkpoint, consumers>>

CancelEmits ==
  /\ \/ request.pc = "emit" /\ Emit("flow_cancelled") /\ AtRequest("close") /\ UNCHANGED closed
     \/ request.pc = "close" /\ closed' = TRUE /\ AtRequest("record") /\ UNCHANGED log
  /\ UNCHANGED <<status, tx, worker, tracer, checkpoint, consumers, faults>>

\* resume_flow_run reads the run and its checkpoint.  Its service has no event
\* stream: nothing it does from here on reaches a consumer.
ResumeBegins ==
  /\ request.pc = "idle"
  /\ checkpoint
  /\ request' = [pc |-> "resume", read |-> status]
  /\ UNCHANGED <<status, stream, tx, worker, tracer, checkpoint, consumers, faults>>

\* Mutant of ResumeSets: no ensure_flow_run_transition before the update.
ResumeSetsAnyway ==
  /\ request.pc = "set"
  /\ \E outcome \in {"waiting", "succeeded", "failed"} :
       /\ status' = outcome
       /\ AtRequest(IF outcome = "waiting" THEN "resumed" ELSE "outcome")
  /\ UNCHANGED <<stream, tx, worker, tracer, checkpoint, consumers, faults>>

\* persist_flow_debug_outcome: an update without condition, if the status read
\* allows the outcome
ResumeSets ==
  /\ request.pc = "set"
  /\ \E outcome \in {"waiting", "succeeded", "failed"} :
       \/ /\ MayBecome(request.read, outcome)
          /\ status' = outcome
          /\ AtRequest(IF outcome = "waiting" THEN "resumed" ELSE "outcome")
       \/ /\ ~MayBecome(request.read, outcome)
          /\ AtRequest("done")
          /\ UNCHANGED status
  /\ UNCHANGED <<stream, tx, worker, tracer, checkpoint, consumers, faults>>

\* flow_run_resumed before, and the row of the outcome or of the cancellation
\* after the update; an error is the request's answer and nothing else.
RequestRecords ==
  /\ request.pc \in {"record", "resume", "outcome"}
  /\ \/ BeginTx("request") /\ UNCHANGED request
     \/ /\ Commit("request")
        /\ \/ request.pc = "record" /\ AtRequest("done")
           \/ request.pc = "resume" /\ AtRequest("set")
           \/ request.pc = "outcome" /\ AtRequest("resumed")
     \/ /\ Refused("request")
        /\ AtRequest(IF request.pc = "outcome" THEN "resumed" ELSE "done")
  /\ UNCHANGED <<status, stream, worker, tracer, checkpoint, consumers>>

RequestStep == CancelSets \/ CancelEmits \/ ResumeSets \/ RequestRecords

-----------------------------------------------------------------------------
\* push_debug_event_for_persistence: a delta waits in the batch unless it is
\* of another kind than the last; everything else is written at once.
PersisterTakes ==
  /\ persister.pc = "read"
  /\ persister.cursor < Len(log)
  /\ LET n     == persister.cursor + 1
         batch == persister.batch
         other == batch # <<>> /\ log[batch[Len(batch)]] # log[n]
     IN persister' =
          IF log[n] \notin Deltas
          THEN [pc |-> "write", cursor |-> n, batch |-> <<>>, writing |-> Append(batch, n)]
          ELSE IF other
          THEN [pc |-> "write", cursor |-> n, batch |-> <<n>>, writing |-> batch]
          ELSE [pc |-> "read", cursor |-> n, batch |-> Append(batch, n), writing |-> <<>>]
  /\ UNCHANGED <<status, stream, tx, worker, tracer, request, checkpoint, persisted, lost,
                 sse, faults>>

\* Mutant of AfterWrite: the batch is cloned, not taken.
AfterWriteKept ==
  persister' = [persister EXCEPT !.writing = <<>>,
                  !.batch = persister.writing \o @,
                  !.pc = IF \E i \in DOMAIN persister.writing :
                              log[persister.writing[i]] \in Terminals
                         THEN "done" ELSE "read"]

\* The batch was taken before it was written: it is gone whatever became of
\* it, and a terminal event in it ends the persister.
AfterWrite ==
  persister' = [persister EXCEPT !.writing = <<>>,
                  !.pc = IF \E i \in DOMAIN persister.writing :
                              log[persister.writing[i]] \in Terminals
                         THEN "done" ELSE "read"]

\* flush_debug_event_batch: a failed write is only logged.
PersisterWrites ==
  /\ persister.pc = "write"
  /\ \/ /\ BeginTx("persister")
        /\ UNCHANGED <<persister, persisted, lost>>
     \/ /\ Commit("persister")
        /\ persisted' = persisted \o persister.writing
        /\ AfterWrite
        /\ UNCHANGED lost
     \/ /\ Refused("persister")
        /\ lost' = lost \cup {persister.writing[i] : i \in DOMAIN persister.writing}
        /\ AfterWrite
        /\ UNCHANGED persisted
  /\ UNCHANGED <<status, stream, worker, tracer, request, checkpoint, sse>>

PersisterStep == PersisterTakes \/ PersisterWrites

\* The n-th event is the first terminal one.
FirstEnding(n) == log[n] \in Terminals /\ \A i \in 1 .. n - 1 : log[i] \notin Terminals

\* Mutant of SseSends: the sender goes on after a terminal event.
SseSendsOn ==
  /\ sse.pc = "read"
  /\ LET endings == SelectSeq(log, LAMBDA e : e \in Terminals) IN
     /\ Len(sse.told) < Len(endings)
     /\ sse' = [sse EXCEPT !.told = Append(@, endings[Len(@) + 1])]
  /\ UNCHANGED <<status, stream, tx, worker, tracer, request, checkpoint, persister,
                 persisted, lost, faults>>

\* send_runtime_event_stream: every event up to the first terminal one, of
\* which only that one is kept.  A full channel delays the sender; a browser
\* that left ends it at its next event, which nobody else would see.
SseSends ==
  /\ sse.pc = "read"
  /\ \E n \in DOMAIN log : FirstEnding(n) /\ sse' = [pc |-> "done", told |-> <<log[n]>>]
  /\ UNCHANGED <<status, stream, tx, worker, tracer, request, checkpoint, persister,
                 persisted, lost, faults>>

-----------------------------------------------------------------------------
Next ==
  \/ WorkerStep \/ TracerStep
  \/ CancelBegins \/ ResumeBegins \/ RequestStep
  \/ PersisterStep \/ SseSends

\* Tasks and requests that have begun run; a browser that is there drains the
\* channel.
Fairness ==
  /\ WF_vars(WorkerStep) /\ WF_vars(TracerStep) /\ WF_vars(RequestStep)
  /\ WF_vars(PersisterStep) /\ WF_vars(SseSends)

Spec == Init /\ [][Next]_vars
FairSpec == Spec /\ Fairness
-----------------------------------------------------------------------------
\* The state is of its type; a trace is at work only while its node is, so
\* that no two nodes' traces ever write at once (the join of live_debug_run).
TypeOK ==
  /\ status \in Statuses
  /\ log \in Seq(Events)
  /\ closed \in BOOLEAN
  /\ tx \in [Writers -> TxStates]
  /\ worker \in [pc : WorkerPcs, why : Reasons, nodes : 0 .. MaxNodes, stream : Seq(Deltas),
                 outcome : {"succeeded", "failed", "waiting"}]
  /\ tracer \in [pending : BOOLEAN, failed : BOOLEAN]
  /\ request \in [pc : {"idle", "cancel", "emit", "close", "record", "dropped", "resume", "set",
                         "outcome", "resumed", "done"}, read : Statuses]
  /\ checkpoint \in BOOLEAN
  /\ persister \in [pc : {"read", "write", "done"}, cursor : 0 .. Len(log),
                    batch : Seq(1 .. Len(log)), writing : Seq(1 .. Len(log))]
  /\ persisted \in Seq(1 .. Len(log))
  /\ lost \subseteq 1 .. Len(log)
  /\ sse \in [pc : {"read", "done"}, told : Seq(Terminals)]
  /\ faults \in 0 .. MaxFaults
  /\ tracer.pending \/ tx["tracer"] # "none" => worker.pc \in {"run", "join"}

ElementsOf(s) == {s[i] : i \in DOMAIN s}

Increasing(s) == \A i, j \in DOMAIN s : i < j => s[i] < s[j]

\* Every event that must be kept and that the persister has taken from the
\* stream is written, waits in its batch, is being written, or was in a batch
\* whose write failed; and it is written once, in the order of the stream.
\* That the route's wait for the persister times out changes nothing in this.
PersisterAccountsForAll ==
  LET kept == persisted \o persister.writing \o persister.batch IN
  /\ Increasing(kept)
  /\ ElementsOf(kept) \cap lost = {}
  /\ ElementsOf(kept) \cup lost = 1 .. persister.cursor

\* Whatever cancels, fails and finishes at the same time, and however many
\* terminal events the stream holds: browser and history get one, the same one.
ConsumersAgree ==
  /\ Len(sse.told) <= 1
  /\ \A n \in 1 .. persister.cursor - 1 : log[n] \notin Terminals
  /\ persister.pc = "done" /\ sse.told # <<>> => sse.told = <<log[persister.cursor]>>

Resumed == request.pc \in {"outcome", "resumed"}

\* A browser that was told the run finished will find it succeeded, and one
\* that was told it failed or was cancelled will not, unless a resume request
\* goes on with the run.
ToldTheTruth ==
  \A i \in DOMAIN sse.told :
    IF sse.told[i] = "flow_finished"
    THEN status = "succeeded"
    ELSE status # "succeeded" \/ Resumed

\* Once the run has ended both consumers end, although a closed stream never
\* ends its subscriptions: only a terminal event does.  Nobody emits one when
\* the cancel request was dropped after its update, or a resume ended the run.
EveryReaderEnds ==
  status \in Ended ~> \/ persister.pc = "done" /\ sse.pc = "done"
                      \/ request.pc = "dropped" \/ Resumed

\* Between continue_flow_debug_run_inner's look at the run and its last write
AtNodes == {"loop", "start", "run", "join", "nodeDone", "check", "failNode", "suspend", "wait"}

RunMoves == [from \in Statuses |-> {to \in Statuses : MayBecome(from, to)}]

\* The statuses the worker, or the resume request, may still write without
\* looking at the run again
WorkerMay ==
  IF worker.pc \in AtNodes THEN RunMoves["running"]
  ELSE IF worker.pc = "failWrite" THEN {"failed"} ELSE {}

RequestMay == IF request.pc \in {"resume", "set"} THEN RunMoves[request.read] ELSE {}

May == [w \in {"worker", "request"} |-> IF w = "worker" THEN WorkerMay ELSE RequestMay]

Record == INSTANCE StatusRecord WITH
  Writers <- {"worker", "request"}, Moves <- RunMoves, First <- "queued", may <- May

\* The status is a StatusRecord here as well, where the worker fails for more
\* reasons than in FlowRun (a refused row, the error of a trace): a writer writes
\* what its own last look at the run allowed, once, or by a conditional update.
WritesAreLicensed == Record!Spec
=============================================================================
