--------------------------- MODULE FlowRunProofs ---------------------------
(***************************************************************************)
(* What FlowRun guarantees for every set of plans, every number of cancel, *)
(* resume and callback requests, and every number of failures and          *)
(* restarts.                                                               *)
(***************************************************************************)
EXTENDS FlowRun, TLAPS

USE FlowAssumption

-----------------------------------------------------------------------------
(***************************************************************************)
(* Types.  An index is only in range because of where the program is: the  *)
(* worker has a node and a node run while it works on one, and a request   *)
(* has the checkpoint or the task it looked up.                            *)
(***************************************************************************)
NodeRows       == [node : 1 .. Len(plan), status : NodeStatuses]
CheckpointRows == [nodeRun : NodeRunIds, next : 1 .. Len(plan) + 1]
TaskRows       == [nodeRun : NodeRunIds, status : {"pending", "completed"}]
TerminalEvents == {"flow_finished", "flow_failed", "flow_cancelled"}
WorkerStates   == [pc : WorkerPcs, at : 1 .. Len(plan) + 1, run : NodeRunIds \cup {0},
                   why : Reasons]
ResumerStates ==
  [pc : ResumerPcs, read : FlowStatuses \cup {"none"},
   checkpoint : 1 .. Len(checkpoints) \cup {0}, task : 1 .. Len(tasks) \cup {0},
   from : NodeStatuses \cup {"none"}, at : 0 .. Len(plan) + 1, stop : 0 .. Len(plan) + 1,
   run : NodeRunIds \cup {0}, result : {"none", "waiting", "failed", "completed"}]

\* The worker's calls on behalf of a node, and those after its node run exists
NodeRunCalls == {"exec", "checkSucceeded", "checkFailed", "checkWaiting", "failNode",
                 "checkpoint", "task", "wait"}
NodeCalls == NodeRunCalls \cup {"create"}

WorkerControl ==
  /\ worker.pc \in NodeCalls => worker.at <= Len(plan)
  /\ worker.pc \in NodeRunCalls => worker.run # 0

\* A request's calls once it has a checkpoint, and once it has executed
AfterLookup  == {"detail", "exec", "node", "traces", "checkpoint", "task", "finish"}
AfterExecute == {"node", "traces", "checkpoint", "task", "finish"}

ResumerControl(r) ==
  /\ resumer[r].pc \in AfterLookup => resumer[r].checkpoint # 0
  /\ resumer[r].pc = "callback" => resumer[r].task # 0
  /\ resumer[r].pc \in AfterExecute =>
       /\ resumer[r].result # "none"
       /\ resumer[r].result # "completed" => resumer[r].stop <= Len(plan)
       /\ resumer[r].at >= 1
  /\ resumer[r].pc \in {"node", "traces"} /\ resumer[r].at > resumer[r].stop => resumer[r].run # 0
  /\ resumer[r].pc \in {"checkpoint", "task"} => resumer[r].result = "waiting" /\ resumer[r].run # 0

Control == WorkerControl /\ \A r \in Resumers : ResumerControl(r)

\* A sequence over a set is one over every larger set.
LEMMA SeqWiden ==
  ASSUME NEW S, NEW T, S \subseteq T, NEW q \in Seq(S)
  PROVE  q \in Seq(T)
  OBVIOUS

\* Changing one place of a sequence keeps its length and its type.
LEMMA SeqUpdate ==
  ASSUME NEW S, NEW q \in Seq(S), NEW n \in 1 .. Len(q), NEW x \in S
  PROVE  [q EXCEPT ![n] = x] \in Seq(S) /\ Len([q EXCEPT ![n] = x]) = Len(q)
  OBVIOUS

\* The durable rows and everything that refers to them stay typed when a node
\* run, a checkpoint or a task is added.
LEMMA NodeRunAdded ==
  ASSUME TypeOK, NEW row \in NodeRows,
         plan' = plan, nodeRuns' = Append(nodeRuns, row),
         checkpoints' = checkpoints, tasks' = tasks
  PROVE  /\ nodeRuns' \in Seq(NodeRows)'
         /\ NodeRunIds' = NodeRunIds \cup {Len(nodeRuns) + 1}
         /\ checkpoints' \in Seq(CheckpointRows)'
         /\ tasks' \in Seq(TaskRows)'
         /\ WorkerStates \subseteq WorkerStates'
         /\ ResumerStates \subseteq ResumerStates'
<1>1. nodeRuns \in Seq(NodeRows) /\ checkpoints \in Seq(CheckpointRows) /\ tasks \in Seq(TaskRows)
  BY DEF TypeOK, NodeRows, CheckpointRows, TaskRows
<1>2. NodeRows' = NodeRows
  BY DEF NodeRows
<1>3. nodeRuns' \in Seq(NodeRows)' /\ NodeRunIds' = NodeRunIds \cup {Len(nodeRuns) + 1}
  BY <1>1, <1>2 DEF NodeRunIds
<1>4. CheckpointRows \subseteq CheckpointRows' /\ TaskRows \subseteq TaskRows'
  BY <1>3 DEF CheckpointRows, TaskRows
<1>5. checkpoints' \in Seq(CheckpointRows)' /\ tasks' \in Seq(TaskRows)'
  BY <1>1, <1>4, SeqWiden
<1>6. WorkerStates \subseteq WorkerStates' /\ ResumerStates \subseteq ResumerStates'
  BY <1>3 DEF WorkerStates, ResumerStates
<1>. QED
  BY <1>3, <1>5, <1>6

LEMMA CheckpointAdded ==
  ASSUME TypeOK, NEW row \in CheckpointRows,
         plan' = plan, nodeRuns' = nodeRuns,
         checkpoints' = Append(checkpoints, row), tasks' = tasks
  PROVE  /\ nodeRuns' \in Seq(NodeRows') /\ checkpoints' \in Seq(CheckpointRows')
         /\ tasks' \in Seq(TaskRows')
         /\ WorkerStates' = WorkerStates /\ ResumerStates \subseteq ResumerStates'
<1>1. nodeRuns \in Seq(NodeRows) /\ checkpoints \in Seq(CheckpointRows) /\ tasks \in Seq(TaskRows)
  BY DEF TypeOK, NodeRows, CheckpointRows, TaskRows
<1>2. /\ NodeRows' = NodeRows /\ CheckpointRows' = CheckpointRows /\ TaskRows' = TaskRows
      /\ NodeRunIds' = NodeRunIds /\ WorkerStates' = WorkerStates
  BY DEF NodeRows, CheckpointRows, TaskRows, NodeRunIds, WorkerStates
<1>3. Len(checkpoints') = Len(checkpoints) + 1
  BY <1>1
<1>4. ResumerStates \subseteq ResumerStates'
  BY <1>1, <1>2, <1>3 DEF ResumerStates
<1>. QED
  BY <1>1, <1>2, <1>4

LEMMA TaskAdded ==
  ASSUME TypeOK, NEW row \in TaskRows,
         plan' = plan, nodeRuns' = nodeRuns,
         checkpoints' = checkpoints, tasks' = Append(tasks, row)
  PROVE  /\ nodeRuns' \in Seq(NodeRows') /\ checkpoints' \in Seq(CheckpointRows')
         /\ tasks' \in Seq(TaskRows')
         /\ WorkerStates' = WorkerStates /\ ResumerStates \subseteq ResumerStates'
<1>1. nodeRuns \in Seq(NodeRows) /\ checkpoints \in Seq(CheckpointRows) /\ tasks \in Seq(TaskRows)
  BY DEF TypeOK, NodeRows, CheckpointRows, TaskRows
<1>2. /\ NodeRows' = NodeRows /\ CheckpointRows' = CheckpointRows /\ TaskRows' = TaskRows
      /\ NodeRunIds' = NodeRunIds /\ WorkerStates' = WorkerStates
  BY DEF NodeRows, CheckpointRows, TaskRows, NodeRunIds, WorkerStates
<1>3. Len(tasks') = Len(tasks) + 1
  BY <1>1
<1>4. ResumerStates \subseteq ResumerStates'
  BY <1>1, <1>2, <1>3 DEF ResumerStates
<1>. QED
  BY <1>1, <1>2, <1>4

LEMMA NodeRunSet ==
  ASSUME TypeOK, NEW n \in NodeRunIds, NEW st \in NodeStatuses, SetNodeRun(n, st)
  PROVE  nodeRuns' \in Seq(NodeRows) /\ Len(nodeRuns') = Len(nodeRuns)
<1>1. nodeRuns \in Seq(NodeRows)
  BY DEF TypeOK, NodeRows
<1>2. [nodeRuns[n] EXCEPT !.status = st] \in NodeRows
  <2>1. nodeRuns[n] \in NodeRows
    BY <1>1 DEF NodeRunIds
  <2>. QED
    BY <2>1 DEF NodeRows
<1>3. nodeRuns' = [nodeRuns EXCEPT ![n] = [nodeRuns[n] EXCEPT !.status = st]]
  BY DEF SetNodeRun
<1>. QED
  BY <1>1, <1>2, <1>3, SeqUpdate DEF NodeRunIds

\* What the rows are typed by, when no row is added
LEMMA RowsKept ==
  ASSUME TypeOK, plan' = plan, Len(nodeRuns') = Len(nodeRuns),
         checkpoints' = checkpoints, tasks' = tasks
  PROVE  /\ NodeRunIds' = NodeRunIds
         /\ checkpoints' \in Seq(CheckpointRows)' /\ tasks' \in Seq(TaskRows)'
         /\ WorkerStates' = WorkerStates /\ ResumerStates' = ResumerStates
         /\ NodeRows' = NodeRows
  BY DEF TypeOK, NodeRows, CheckpointRows, TaskRows, WorkerStates, ResumerStates, NodeRunIds

\* The type invariant, by the named types
LEMMA TypeParts ==
  TypeOK <=> /\ plan \in Seq(NodeTypes) /\ streaming \in BOOLEAN
             /\ status \in FlowStatuses /\ attached \in BOOLEAN
             /\ nodeRuns \in Seq(NodeRows) /\ checkpoints \in Seq(CheckpointRows)
             /\ tasks \in Seq(TaskRows)
             /\ opened \in BOOLEAN /\ closed \in BOOLEAN /\ terminals \in Seq(TerminalEvents)
             /\ worker \in WorkerStates
             /\ canceller \in [Cancellers -> [pc : CancellerPcs, read : FlowStatuses]]
             /\ resumer \in [Resumers -> ResumerStates]
             /\ failures \in 0 .. MaxFailures /\ crashes \in 0 .. MaxCrashes /\ late \in Nat
  BY DEF TypeOK, NodeRows, CheckpointRows, TaskRows, WorkerStates, ResumerStates, TerminalEvents

\* The same of the next state, for one that changes neither plan nor rows' places
LEMMA TypesNext ==
  ASSUME plan' \in Seq(NodeTypes), streaming' \in BOOLEAN,
         status' \in FlowStatuses, attached' \in BOOLEAN,
         nodeRuns' \in Seq(NodeRows'), checkpoints' \in Seq(CheckpointRows'),
         tasks' \in Seq(TaskRows'),
         opened' \in BOOLEAN, closed' \in BOOLEAN, terminals' \in Seq(TerminalEvents),
         worker' \in WorkerStates',
         canceller' \in [Cancellers -> [pc : CancellerPcs, read : FlowStatuses]],
         resumer' \in [Resumers -> ResumerStates'],
         failures' \in 0 .. MaxFailures, crashes' \in 0 .. MaxCrashes, late' \in Nat
  PROVE  TypeOK'
  BY DEF TypeOK, NodeRows, CheckpointRows, TaskRows, WorkerStates, ResumerStates, TerminalEvents

\* What the rows refer to exists.
LEMMA References ==
  ASSUME TypeOK
  PROVE  /\ \A n \in NodeRunIds : /\ nodeRuns[n].node \in 1 .. Len(plan)
                                 /\ nodeRuns[n].status \in NodeStatuses
         /\ \A c \in 1 .. Len(checkpoints) : /\ checkpoints[c].nodeRun \in NodeRunIds
                                            /\ checkpoints[c].next \in 1 .. Len(plan) + 1
         /\ \A t \in 1 .. Len(tasks) : tasks[t].nodeRun \in NodeRunIds
<1>1. nodeRuns \in Seq(NodeRows) /\ checkpoints \in Seq(CheckpointRows) /\ tasks \in Seq(TaskRows)
  BY TypeParts
<1>2. /\ \A n \in NodeRunIds : nodeRuns[n] \in NodeRows
      /\ \A c \in 1 .. Len(checkpoints) : checkpoints[c] \in CheckpointRows
      /\ \A t \in 1 .. Len(tasks) : tasks[t] \in TaskRows
  BY <1>1 DEF NodeRunIds
<1>. QED
  BY <1>2 DEF NodeRows, CheckpointRows, TaskRows

LEMMA InitTypes == Init => TypeOK /\ Control
<1>. SUFFICES ASSUME Init PROVE TypeOK /\ Control
  OBVIOUS
<1>1. \A S : <<>> \in Seq(S)
  OBVIOUS
<1>2. /\ plan \in Seq(NodeTypes) /\ Len(plan) \in Nat
      /\ nodeRuns \in Seq(NodeRows) /\ checkpoints \in Seq(CheckpointRows)
      /\ tasks \in Seq(TaskRows) /\ terminals \in Seq(TerminalEvents)
  BY <1>1 DEF Init
<1>3. worker \in WorkerStates
  BY <1>2 DEF Init, WorkerStates, WorkerPcs, Reasons
<1>4. resumer \in [Resumers -> ResumerStates]
  BY <1>2 DEF Init, ResumerStates, NoRequest, ResumerPcs
<1>5. canceller \in [Cancellers -> [pc : CancellerPcs, read : FlowStatuses]]
  BY DEF Init, CancellerPcs, FlowStatuses
<1>6. Control
  BY DEF Init, Control, WorkerControl, ResumerControl, NoRequest, NodeCalls, NodeRunCalls,
     AfterLookup, AfterExecute
<1>7. /\ failures \in 0 .. MaxFailures /\ crashes \in 0 .. MaxCrashes /\ late \in Nat
      /\ status \in FlowStatuses
  BY DEF Init, FlowStatuses
<1>8. streaming \in BOOLEAN /\ attached \in BOOLEAN /\ opened \in BOOLEAN /\ closed \in BOOLEAN
  BY DEF Init
<1>. QED
  BY <1>2, <1>3, <1>4, <1>5, <1>6, <1>7, <1>8, TypeParts

\* The worker goes on with the node after one of the plan.
LEMMA NextNodeTypes ==
  ASSUME worker \in WorkerStates, Len(plan) \in Nat, worker.at <= Len(plan), NextNode
  PROVE  worker' \in WorkerStates /\ worker'.pc = "loop"
<1>1. worker.at + 1 \in 1 .. Len(plan) + 1
  BY DEF WorkerStates
<1>2. worker' = [worker EXCEPT !.pc = "loop", !.at = worker.at + 1]
  BY DEF NextNode
<1>3. "loop" \in WorkerPcs
  BY DEF WorkerPcs, InnerCalls
<1>. HIDE DEF WorkerPcs
<1>. QED
  BY <1>1, <1>2, <1>3 DEF WorkerStates

\* Steps of the worker that touch only the status, the stream and itself
LEMMA WorkerMoves ==
  ASSUME TypeOK, Control,
         \/ WorkerOpenStream \/ WorkerPrepare \/ WorkerCompile \/ WorkerAttach
         \/ WorkerFailQueued \/ WorkerStarted \/ WorkerContinue \/ WorkerLoop
         \/ WorkerNodeError \/ WorkerCheckCancelled \/ WorkerFailNode \/ WorkerWait
         \/ WorkerSucceed \/ WorkerReturn \/ WorkerCallFails \/ WorkerFailRead
         \/ WorkerFailWrite \/ WorkerEmit \/ WorkerClose \/ WorkerFallback \/ WorkerDropped
  PROVE  TypeOK' /\ Control'
<1>1. /\ plan' = plan /\ streaming' = streaming /\ nodeRuns' = nodeRuns
      /\ checkpoints' = checkpoints /\ tasks' = tasks
      /\ canceller' = canceller /\ resumer' = resumer /\ crashes' = crashes /\ late' = late
  BY DEF WorkerOpenStream, WorkerPrepare, WorkerCompile, WorkerAttach, WorkerFailQueued,
     WorkerStarted, WorkerContinue, WorkerLoop, WorkerNodeError, WorkerCheckCancelled,
     WorkerFailNode, WorkerWait, WorkerSucceed, WorkerReturn, WorkerCallFails, WorkerFailRead,
     WorkerFailWrite, WorkerEmit, WorkerClose, WorkerFallback, WorkerDropped, fixed, durable,
     requests
<1>2. status' \in FlowStatuses
  <2>1. status \in FlowStatuses
    BY DEF TypeOK
  <2>. QED
    BY <2>1 DEF WorkerOpenStream, WorkerPrepare, WorkerCompile, WorkerAttach, WorkerFailQueued,
     WorkerStarted, WorkerContinue, WorkerLoop, WorkerNodeError, WorkerCheckCancelled,
     WorkerFailNode, WorkerWait, WorkerSucceed, WorkerReturn, WorkerCallFails, WorkerFailRead,
     WorkerFailWrite, WorkerEmit, WorkerClose, WorkerFallback, WorkerDropped, FlowStatuses, WaitingStatus, durable
<1>3. attached' \in BOOLEAN /\ opened' \in BOOLEAN /\ closed' \in BOOLEAN
  <2>1. attached \in BOOLEAN /\ opened \in BOOLEAN /\ closed \in BOOLEAN
    BY DEF TypeOK
  <2>. QED
    BY <2>1 DEF WorkerOpenStream, WorkerPrepare, WorkerCompile, WorkerAttach, WorkerFailQueued,
     WorkerStarted, WorkerContinue, WorkerLoop, WorkerNodeError, WorkerCheckCancelled,
     WorkerFailNode, WorkerWait, WorkerSucceed, WorkerReturn, WorkerCallFails, WorkerFailRead,
     WorkerFailWrite, WorkerEmit, WorkerClose, WorkerFallback, WorkerDropped, CloseStream, durable, stream
<1>4. terminals' \in Seq(TerminalEvents)
  <2>1. terminals \in Seq(TerminalEvents)
    BY DEF TypeOK, TerminalEvents
  <2>2. terminals' = terminals \/ \E e \in TerminalEvents : terminals' = Append(terminals, e)
    BY DEF WorkerOpenStream, WorkerPrepare, WorkerCompile, WorkerAttach, WorkerFailQueued,
     WorkerStarted, WorkerContinue, WorkerLoop, WorkerNodeError, WorkerCheckCancelled,
     WorkerFailNode, WorkerWait, WorkerSucceed, WorkerReturn, WorkerCallFails, WorkerFailRead,
     WorkerFailWrite, WorkerEmit, WorkerClose, WorkerFallback, WorkerDropped, EmitTerminal, stream, TerminalEvents
  <2>. QED
    BY <2>1, <2>2
<1>5. failures' \in 0 .. MaxFailures
  <2>1. failures \in 0 .. MaxFailures
    BY DEF TypeOK
  <2>2. failures' = failures \/ RepositoryFails
    BY DEF WorkerOpenStream, WorkerPrepare, WorkerCompile, WorkerAttach, WorkerFailQueued,
     WorkerStarted, WorkerContinue, WorkerLoop, WorkerNodeError, WorkerCheckCancelled,
     WorkerFailNode, WorkerWait, WorkerSucceed, WorkerReturn, WorkerCallFails, WorkerFailRead,
     WorkerFailWrite, WorkerEmit, WorkerClose, WorkerFallback, WorkerDropped
  <2>. QED
    BY <2>1, <2>2 DEF RepositoryFails
<1>6. worker' \in WorkerStates /\ WorkerControl'
  <2>1. /\ worker \in WorkerStates /\ Len(plan) \in Nat /\ streaming \in BOOLEAN
        /\ worker.pc \in NodeCalls => worker.at <= Len(plan)
        /\ worker.pc \in NodeRunCalls => worker.run # 0
    BY DEF TypeOK, WorkerStates, Control, WorkerControl
  <2>2. CASE WorkerOpenStream
    BY <2>2, <2>1, <1>1 DEF WorkerOpenStream, WorkerStates, WorkerPcs, InnerCalls, Reasons, Goto,
       EndWithError, FailRunBecause, EmitBecause, NextNode, WorkerControl, NodeCalls, NodeRunCalls
  <2>3. CASE WorkerPrepare
    BY <2>3, <2>1, <1>1 DEF WorkerPrepare, WorkerStates, WorkerPcs, InnerCalls, Reasons, Goto,
       EndWithError, FailRunBecause, EmitBecause, NextNode, WorkerControl, NodeCalls, NodeRunCalls
  <2>4. CASE WorkerCompile
    BY <2>4, <2>1, <1>1 DEF WorkerCompile, WorkerStates, WorkerPcs, InnerCalls, Reasons, Goto,
       EndWithError, FailRunBecause, EmitBecause, NextNode, WorkerControl, NodeCalls, NodeRunCalls
  <2>5. CASE WorkerAttach
    BY <2>5, <2>1, <1>1 DEF WorkerAttach, WorkerStates, WorkerPcs, InnerCalls, Reasons, Goto,
       EndWithError, FailRunBecause, EmitBecause, NextNode, WorkerControl, NodeCalls, NodeRunCalls
  <2>6. CASE WorkerFailQueued
    BY <2>6, <2>1, <1>1 DEF WorkerFailQueued, WorkerStates, WorkerPcs, InnerCalls, Reasons, Goto,
       EndWithError, FailRunBecause, EmitBecause, NextNode, WorkerControl, NodeCalls, NodeRunCalls
  <2>7. CASE WorkerStarted
    BY <2>7, <2>1, <1>1 DEF WorkerStarted, WorkerStates, WorkerPcs, InnerCalls, Reasons, Goto,
       EndWithError, FailRunBecause, EmitBecause, NextNode, WorkerControl, NodeCalls, NodeRunCalls
  <2>8. CASE WorkerContinue
    BY <2>8, <2>1, <1>1 DEF WorkerContinue, WorkerStates, WorkerPcs, InnerCalls, Reasons, Goto,
       EndWithError, FailRunBecause, EmitBecause, NextNode, WorkerControl, NodeCalls, NodeRunCalls
  <2>9. CASE WorkerLoop
    BY <2>9, <2>1, <1>1 DEF WorkerLoop, WorkerStates, WorkerPcs, InnerCalls, Reasons, Goto,
       EndWithError, FailRunBecause, EmitBecause, NextNode, WorkerControl, NodeCalls, NodeRunCalls
  <2>10. CASE WorkerNodeError
    BY <2>10, <2>1, <1>1 DEF WorkerNodeError, WorkerStates, WorkerPcs, InnerCalls, Reasons, Goto,
       EndWithError, FailRunBecause, EmitBecause, NextNode, WorkerControl, NodeCalls, NodeRunCalls
  <2>11. CASE WorkerCheckCancelled
    <3>1. worker.at <= Len(plan) /\ worker.run # 0
      BY <2>11, <2>1 DEF WorkerCheckCancelled, NodeRunCalls, NodeCalls
    <3>2. CASE NextNode
      BY <3>1, <3>2, <2>1, <1>1, NextNodeTypes DEF WorkerControl, NodeCalls, NodeRunCalls
    <3>3. CASE \E pc \in {"done", "failNode", "checkpoint"} : Goto(pc)
      BY <3>1, <3>3, <2>1, <1>1 DEF WorkerStates, WorkerPcs, InnerCalls, Goto, WorkerControl
    <3>. QED
      BY <2>11, <3>2, <3>3 DEF WorkerCheckCancelled
  <2>12. CASE WorkerFailNode
    BY <2>12, <2>1, <1>1 DEF WorkerFailNode, WorkerStates, WorkerPcs, InnerCalls, Reasons, Goto,
       EndWithError, FailRunBecause, EmitBecause, NextNode, WorkerControl, NodeCalls, NodeRunCalls
  <2>13. CASE WorkerWait
    BY <2>13, <2>1, <1>1 DEF WorkerWait, WorkerStates, WorkerPcs, InnerCalls, Reasons, Goto,
       EndWithError, FailRunBecause, EmitBecause, NextNode, WorkerControl, NodeCalls, NodeRunCalls
  <2>14. CASE WorkerSucceed
    BY <2>14, <2>1, <1>1 DEF WorkerSucceed, WorkerStates, WorkerPcs, InnerCalls, Reasons, Goto,
       EndWithError, FailRunBecause, EmitBecause, NextNode, WorkerControl, NodeCalls, NodeRunCalls
  <2>15. CASE WorkerReturn
    BY <2>15, <2>1, <1>1 DEF WorkerReturn, WorkerStates, WorkerPcs, InnerCalls, Reasons, Goto,
       EndWithError, FailRunBecause, EmitBecause, NextNode, WorkerControl, NodeCalls, NodeRunCalls
  <2>16. CASE WorkerCallFails
    BY <2>16, <2>1, <1>1 DEF WorkerCallFails, WorkerStates, WorkerPcs, InnerCalls, Reasons, Goto,
       EndWithError, FailRunBecause, EmitBecause, NextNode, WorkerControl, NodeCalls, NodeRunCalls
  <2>17. CASE WorkerFailRead
    BY <2>17, <2>1, <1>1 DEF WorkerFailRead, WorkerStates, WorkerPcs, InnerCalls, Reasons, Goto,
       EndWithError, FailRunBecause, EmitBecause, NextNode, WorkerControl, NodeCalls, NodeRunCalls
  <2>18. CASE WorkerFailWrite
    BY <2>18, <2>1, <1>1 DEF WorkerFailWrite, WorkerStates, WorkerPcs, InnerCalls, Reasons, Goto,
       EndWithError, FailRunBecause, EmitBecause, NextNode, WorkerControl, NodeCalls, NodeRunCalls
  <2>19. CASE WorkerEmit
    BY <2>19, <2>1, <1>1 DEF WorkerEmit, WorkerStates, WorkerPcs, InnerCalls, Reasons, Goto,
       EndWithError, FailRunBecause, EmitBecause, NextNode, WorkerControl, NodeCalls, NodeRunCalls
  <2>20. CASE WorkerClose
    BY <2>20, <2>1, <1>1 DEF WorkerClose, WorkerStates, WorkerPcs, InnerCalls, Reasons, Goto,
       EndWithError, FailRunBecause, EmitBecause, NextNode, WorkerControl, NodeCalls, NodeRunCalls
  <2>21. CASE WorkerFallback
    BY <2>21, <2>1, <1>1 DEF WorkerFallback, WorkerStates, WorkerPcs, InnerCalls, Reasons, Goto,
       EndWithError, FailRunBecause, EmitBecause, NextNode, WorkerControl, NodeCalls, NodeRunCalls
  <2>22. CASE WorkerDropped
    BY <2>22, <2>1, <1>1 DEF WorkerDropped, WorkerStates, WorkerPcs, InnerCalls, Reasons, Goto,
       EndWithError, FailRunBecause, EmitBecause, NextNode, WorkerControl, NodeCalls, NodeRunCalls
  <2>. QED
    BY <2>2, <2>3, <2>4, <2>5, <2>6, <2>7, <2>8, <2>9, <2>10, <2>11, <2>12, <2>13, <2>14, <2>15, <2>16, <2>17, <2>18, <2>19, <2>20, <2>21, <2>22
<1>7. Control'
  BY <1>1, <1>6 DEF Control, ResumerControl
<1>8. /\ nodeRuns' \in Seq(NodeRows') /\ checkpoints' \in Seq(CheckpointRows')
      /\ tasks' \in Seq(TaskRows') /\ plan' \in Seq(NodeTypes) /\ streaming' \in BOOLEAN
      /\ resumer' \in [Resumers -> ResumerStates'] /\ worker' \in WorkerStates'
      /\ canceller' \in [Cancellers -> [pc : CancellerPcs, read : FlowStatuses]]
      /\ crashes' \in 0 .. MaxCrashes /\ late' \in Nat
  BY <1>1, <1>6, TypeParts, RowsKept
<1>. QED
  BY <1>2, <1>3, <1>4, <1>5, <1>7, <1>8, TypesNext
LEMMA CreateNodeRunTypes ==
  ASSUME TypeOK, Control, WorkerCreateNodeRun
  PROVE  TypeOK' /\ Control'
<1>. DEFINE row == [node |-> worker.at, status |-> "running"]
<1>1. /\ worker \in WorkerStates /\ Len(plan) \in Nat /\ Len(nodeRuns) \in Nat
      /\ worker.at <= Len(plan)
  BY DEF TypeOK, WorkerStates, Control, WorkerControl, WorkerCreateNodeRun, NodeCalls
<1>2. row \in NodeRows
  BY <1>1 DEF NodeRows, NodeStatuses, WorkerStates
<1>3. /\ plan' = plan /\ nodeRuns' = Append(nodeRuns, row)
      /\ checkpoints' = checkpoints /\ tasks' = tasks
  BY DEF WorkerCreateNodeRun, fixed
<1>4. /\ nodeRuns' \in Seq(NodeRows') /\ checkpoints' \in Seq(CheckpointRows')
      /\ tasks' \in Seq(TaskRows')
      /\ NodeRunIds' = NodeRunIds \cup {Len(nodeRuns) + 1}
      /\ WorkerStates \subseteq WorkerStates' /\ ResumerStates \subseteq ResumerStates'
  BY <1>2, <1>3, NodeRunAdded
<1>5. worker' \in WorkerStates'
  BY <1>1, <1>3, <1>4 DEF WorkerCreateNodeRun, WorkerStates, WorkerPcs, InnerCalls
<1>6. WorkerControl'
  BY <1>1, <1>3 DEF WorkerCreateNodeRun, WorkerControl, WorkerStates
<1>7. /\ plan' \in Seq(NodeTypes) /\ streaming' \in BOOLEAN
      /\ status' \in FlowStatuses /\ attached' \in BOOLEAN
      /\ opened' \in BOOLEAN /\ closed' \in BOOLEAN /\ terminals' \in Seq(TerminalEvents)
      /\ canceller' \in [Cancellers -> [pc : CancellerPcs, read : FlowStatuses]]
      /\ resumer' \in [Resumers -> ResumerStates'] /\ resumer' = resumer
      /\ failures' \in 0 .. MaxFailures /\ crashes' \in 0 .. MaxCrashes /\ late' \in Nat
  BY <1>4, TypeParts DEF WorkerCreateNodeRun, fixed, stream, requests
<1>8. Control'
  BY <1>3, <1>6, <1>7 DEF Control, ResumerControl
<1>. QED
  BY <1>4, <1>5, <1>7, <1>8, TypesNext

LEMMA ExecuteTypes ==
  ASSUME TypeOK, Control, WorkerExecute
  PROVE  TypeOK' /\ Control'
<1>1. /\ worker \in WorkerStates /\ Len(plan) \in Nat
      /\ worker.at <= Len(plan) /\ worker.run \in NodeRunIds /\ worker.run # 0
  BY DEF TypeOK, WorkerStates, Control, WorkerControl, WorkerExecute, NodeRunCalls, NodeCalls
<1>2. PICK st \in NodeStatuses : SetNodeRun(worker.run, st)
  BY DEF WorkerExecute, NodeStatuses, WaitingStatus
<1>3. plan' = plan /\ checkpoints' = checkpoints /\ tasks' = tasks
  BY DEF WorkerExecute, fixed
<1>4. nodeRuns' \in Seq(NodeRows) /\ Len(nodeRuns') = Len(nodeRuns)
  BY <1>1, <1>2, NodeRunSet
<1>5. /\ nodeRuns' \in Seq(NodeRows') /\ checkpoints' \in Seq(CheckpointRows')
      /\ tasks' \in Seq(TaskRows')
      /\ WorkerStates' = WorkerStates /\ ResumerStates' = ResumerStates
  BY <1>3, <1>4, RowsKept
<1>6. worker' \in WorkerStates /\ WorkerControl'
  <2>1. CASE NextNode
    BY <2>1, <1>1, <1>3, NextNodeTypes DEF WorkerControl, NodeCalls, NodeRunCalls
  <2>2. CASE \E pc \in {"checkSucceeded", "checkFailed", "checkWaiting", "failNode"} : Goto(pc)
    BY <2>2, <1>1, <1>3 DEF WorkerStates, WorkerPcs, InnerCalls, Goto, WorkerControl
  <2>. QED
    BY <2>1, <2>2 DEF WorkerExecute
<1>7. /\ plan' \in Seq(NodeTypes) /\ streaming' \in BOOLEAN
      /\ status' \in FlowStatuses /\ attached' \in BOOLEAN
      /\ opened' \in BOOLEAN /\ closed' \in BOOLEAN /\ terminals' \in Seq(TerminalEvents)
      /\ canceller' \in [Cancellers -> [pc : CancellerPcs, read : FlowStatuses]]
      /\ resumer' \in [Resumers -> ResumerStates'] /\ resumer' = resumer
      /\ failures' \in 0 .. MaxFailures /\ crashes' \in 0 .. MaxCrashes /\ late' \in Nat
  BY <1>5, TypeParts DEF WorkerExecute, fixed, stream, requests
<1>8. Control'
  BY <1>3, <1>6, <1>7 DEF Control, ResumerControl
<1>. QED
  BY <1>5, <1>6, <1>7, <1>8, TypesNext

LEMMA CheckpointTypes ==
  ASSUME TypeOK, Control, WorkerCheckpoint \/ WorkerCreateTask
  PROVE  TypeOK' /\ Control'
<1>1. /\ worker \in WorkerStates /\ Len(plan) \in Nat
      /\ worker.at <= Len(plan) /\ worker.run \in NodeRunIds /\ worker.run # 0
  BY DEF TypeOK, WorkerStates, Control, WorkerControl, WorkerCheckpoint, WorkerCreateTask,
     NodeRunCalls, NodeCalls
<1>2. plan' = plan /\ nodeRuns' = nodeRuns
  BY DEF WorkerCheckpoint, WorkerCreateTask, fixed
<1>3. /\ nodeRuns' \in Seq(NodeRows') /\ checkpoints' \in Seq(CheckpointRows')
      /\ tasks' \in Seq(TaskRows')
      /\ WorkerStates' = WorkerStates /\ ResumerStates \subseteq ResumerStates'
  <2>1. CASE WorkerCheckpoint
    <3>1. worker.at + 1 \in 1 .. Len(plan) + 1
      BY <1>1 DEF WorkerStates
    <3>2. [nodeRun |-> worker.run, next |-> worker.at + 1] \in CheckpointRows
      BY <1>1, <3>1 DEF CheckpointRows
    <3>. QED
      BY <2>1, <1>2, <3>2, CheckpointAdded DEF WorkerCheckpoint
  <2>2. CASE WorkerCreateTask
    <3>1. [nodeRun |-> worker.run, status |-> "pending"] \in TaskRows
      BY <1>1 DEF TaskRows
    <3>. QED
      BY <2>2, <1>2, <3>1, TaskAdded DEF WorkerCreateTask
  <2>. QED
    BY <2>1, <2>2
<1>4. worker' \in WorkerStates /\ WorkerControl'
  BY <1>1, <1>2 DEF WorkerCheckpoint, WorkerCreateTask, WorkerStates, WorkerPcs, InnerCalls, Goto,
     WorkerControl
<1>5. /\ plan' \in Seq(NodeTypes) /\ streaming' \in BOOLEAN
      /\ status' \in FlowStatuses /\ attached' \in BOOLEAN
      /\ opened' \in BOOLEAN /\ closed' \in BOOLEAN /\ terminals' \in Seq(TerminalEvents)
      /\ canceller' \in [Cancellers -> [pc : CancellerPcs, read : FlowStatuses]]
      /\ resumer' \in [Resumers -> ResumerStates'] /\ resumer' = resumer
      /\ failures' \in 0 .. MaxFailures /\ crashes' \in 0 .. MaxCrashes /\ late' \in Nat
  BY <1>3, TypeParts DEF WorkerCheckpoint, WorkerCreateTask, fixed, stream, requests
<1>6. Control'
  BY <1>2, <1>4, <1>5 DEF Control, ResumerControl
<1>. QED
  BY <1>3, <1>4, <1>5, <1>6, TypesNext

\* Cancel requests change the status, the stream and themselves.
LEMMA CancelTypes ==
  ASSUME TypeOK, Control, NEW c \in Cancellers, CancelStep(c)
  PROVE  TypeOK' /\ Control'
<1>1. /\ plan' = plan /\ streaming' = streaming /\ attached' = attached
      /\ nodeRuns' = nodeRuns /\ checkpoints' = checkpoints /\ tasks' = tasks
      /\ worker' = worker /\ resumer' = resumer /\ crashes' = crashes /\ late' = late
      /\ opened' = opened
  BY DEF CancelStep, CancelRead, CancelWrite, CancelEmit, CancelClose, CancelFails, fixed,
     durable, stream
<1>2. status' \in FlowStatuses /\ canceller[c] \in [pc : CancellerPcs, read : FlowStatuses]
  BY DEF TypeOK, CancelStep, CancelRead, CancelWrite, CancelEmit, CancelClose, CancelFails,
     durable, FlowStatuses
<1>3. canceller' \in [Cancellers -> [pc : CancellerPcs, read : FlowStatuses]]
  <2>1. CASE CancelRead(c)
    <3>1. [pc |-> IF FlowTransitionAllowed(status, "cancelled") THEN "cas" ELSE "done",
           read |-> status] \in [pc : CancellerPcs, read : FlowStatuses]
      BY DEF TypeOK, CancellerPcs
    <3>. QED
      BY <2>1, <3>1 DEF TypeOK, CancelRead
  <2>2. CASE \E pc \in CancellerPcs : CancellerTo(c, pc)
    <3>1. PICK pc \in CancellerPcs : canceller' = [canceller EXCEPT
                                       ![c] = [canceller[c] EXCEPT !.pc = pc]]
      BY <2>2 DEF CancellerTo
    <3>2. [canceller[c] EXCEPT !.pc = pc] \in [pc : CancellerPcs, read : FlowStatuses]
      BY <1>2
    <3>. QED
      BY <3>1, <3>2 DEF TypeOK
  <2>. QED
    BY <2>1, <2>2 DEF CancelStep, CancelWrite, CancelEmit, CancelClose, CancelFails, CancellerPcs
<1>4. closed' \in BOOLEAN
  BY DEF TypeOK, CancelStep, CancelRead, CancelWrite, CancelEmit, CancelClose, CancelFails,
     CloseStream, stream
<1>5. terminals' \in Seq(TerminalEvents)
  <2>1. terminals \in Seq(TerminalEvents) /\ "flow_cancelled" \in TerminalEvents
    BY DEF TypeOK, TerminalEvents
  <2>2. terminals' = terminals \/ terminals' = Append(terminals, "flow_cancelled")
    BY DEF CancelStep, CancelRead, CancelWrite, CancelEmit, CancelClose, CancelFails,
       EmitTerminal, stream
  <2>. QED
    BY <2>1, <2>2
<1>6. failures' \in 0 .. MaxFailures
  BY DEF TypeOK, CancelStep, CancelRead, CancelWrite, CancelEmit, CancelClose, CancelFails,
     RepositoryFails
<1>7. /\ nodeRuns' \in Seq(NodeRows') /\ checkpoints' \in Seq(CheckpointRows')
      /\ tasks' \in Seq(TaskRows') /\ plan' \in Seq(NodeTypes) /\ streaming' \in BOOLEAN
      /\ attached' \in BOOLEAN /\ opened' \in BOOLEAN
      /\ resumer' \in [Resumers -> ResumerStates'] /\ worker' \in WorkerStates'
      /\ crashes' \in 0 .. MaxCrashes /\ late' \in Nat
  BY <1>1, TypeParts, RowsKept
<1>8. Control'
  BY <1>1 DEF Control, WorkerControl, ResumerControl
<1>. QED
  BY <1>2, <1>3, <1>4, <1>5, <1>6, <1>7, <1>8, TypesNext

LEMMA CrashTypes ==
  ASSUME TypeOK, Control, Crash
  PROVE  TypeOK' /\ Control'
<1>1. /\ plan' = plan /\ streaming' = streaming /\ status' = status /\ attached' = attached
      /\ nodeRuns' = nodeRuns /\ checkpoints' = checkpoints /\ tasks' = tasks
      /\ failures' = failures /\ late' = late
  BY DEF Crash, fixed, durable
<1>2. worker' \in WorkerStates /\ WorkerControl'
  BY DEF TypeOK, Crash, WorkerStates, WorkerPcs, WorkerControl, NodeCalls, NodeRunCalls
<1>3. canceller' \in [Cancellers -> [pc : CancellerPcs, read : FlowStatuses]]
  <2>1. ASSUME NEW c \in Cancellers
        PROVE  canceller'[c] \in [pc : CancellerPcs, read : FlowStatuses]
    <3>1. canceller[c] \in [pc : CancellerPcs, read : FlowStatuses]
      BY DEF TypeOK
    <3>. QED
      BY <3>1 DEF Crash, CancellerPcs
  <2>. QED
    BY <2>1 DEF Crash
<1>4. NoRequest("done") \in ResumerStates
  BY DEF NoRequest, ResumerStates, ResumerPcs, TypeOK
<1>5. resumer' \in [Resumers -> ResumerStates]
  BY <1>4, TypeParts DEF Crash
<1>6. \A r \in Resumers : ResumerControl(r)'
  BY <1>1 DEF Crash, Control, ResumerControl, NoRequest, AfterLookup, AfterExecute
<1>7. /\ nodeRuns' \in Seq(NodeRows') /\ checkpoints' \in Seq(CheckpointRows')
      /\ tasks' \in Seq(TaskRows') /\ plan' \in Seq(NodeTypes) /\ streaming' \in BOOLEAN
      /\ status' \in FlowStatuses /\ attached' \in BOOLEAN
      /\ resumer' \in [Resumers -> ResumerStates'] /\ worker' \in WorkerStates'
      /\ failures' \in 0 .. MaxFailures /\ late' \in Nat
  BY <1>1, <1>2, <1>5, TypeParts, RowsKept
<1>8. /\ crashes' \in 0 .. MaxCrashes /\ opened' \in BOOLEAN /\ closed' \in BOOLEAN
      /\ terminals' \in Seq(TerminalEvents)
  <2>1. terminals' = <<>> /\ <<>> \in Seq(TerminalEvents)
    BY DEF Crash
  <2>2. crashes' \in 0 .. MaxCrashes
    BY DEF Crash, TypeOK
  <2>3. opened' \in BOOLEAN /\ closed' \in BOOLEAN
    BY DEF Crash
  <2>. QED
    BY <2>1, <2>2, <2>3
<1>. QED
  BY <1>2, <1>3, <1>6, <1>7, <1>8, TypesNext DEF Control

\* Steps of a resume or callback request that leave the rows alone
LEMMA ResumeMoves ==
  ASSUME TypeOK, Control, NEW r \in Resumers,
         \/ ResumeRead(r) \/ ResumeDetail(r) \/ CallbackDetail(r) \/ ResumeExecute(r)
         \/ ResumeTracesEnd(r) \/ ResumeFinish(r) \/ ResumeFails(r)
  PROVE  TypeOK' /\ Control'
<1>1. /\ plan' = plan /\ streaming' = streaming /\ attached' = attached
      /\ nodeRuns' = nodeRuns /\ checkpoints' = checkpoints /\ tasks' = tasks
      /\ opened' = opened /\ closed' = closed /\ terminals' = terminals
      /\ worker' = worker /\ canceller' = canceller /\ crashes' = crashes /\ late' = late
  BY DEF ResumeRead, ResumeDetail, CallbackDetail, ResumeExecute, ResumeTracesEnd, ResumeFinish,
     ResumeFails, fixed, durable, stream
<1>2. /\ resumer[r] \in ResumerStates /\ ResumerControl(r)
      /\ checkpoints \in Seq(CheckpointRows) /\ nodeRuns \in Seq(NodeRows)
      /\ tasks \in Seq(TaskRows) /\ Len(plan) \in Nat /\ status \in FlowStatuses
  BY TypeParts DEF Control
<1>3. \E x \in ResumerStates : resumer' = [resumer EXCEPT ![r] = x]
  <2>1. CASE ResumeRead(r)
    BY <2>1, <1>2 DEF ResumeRead, ResumerStates, ResumerPcs
  <2>2. CASE ResumeDetail(r)
    <3>1. resumer[r].checkpoint \in 1 .. Len(checkpoints)
      BY <2>2, <1>2 DEF ResumeDetail, ResumerControl, AfterLookup, ResumerStates
    <3>2. nodeRuns[checkpoints[resumer[r].checkpoint].nodeRun].status \in NodeStatuses
      BY <3>1, References
    <3>. QED
      BY <2>2, <3>2, <1>2 DEF ResumeDetail, ResumerStates, ResumerPcs
  <2>3. CASE CallbackDetail(r)
    <3>1. resumer[r].task \in 1 .. Len(tasks)
      BY <2>3, <1>2 DEF CallbackDetail, ResumerControl, ResumerStates
    <3>2. nodeRuns[tasks[resumer[r].task].nodeRun].status \in NodeStatuses
      BY <3>1, References
    <3>. QED
      BY <2>3, <3>2, <1>2 DEF CallbackDetail, ResumerStates, ResumerPcs
  <2>4. CASE ResumeExecute(r)
    <3>1. resumer[r].checkpoint \in 1 .. Len(checkpoints)
      BY <2>4, <1>2 DEF ResumeExecute, ResumerControl, AfterLookup, ResumerStates
    <3>. DEFINE next == checkpoints[resumer[r].checkpoint].next
                Stopped(j, result) == [resumer[r] EXCEPT !.pc = "node", !.at = next, !.stop = j,
                                                         !.result = result]
    <3>2. next \in 1 .. Len(plan) + 1
      BY <3>1, References
    <3>3. CASE ResumerEnds(r)
      <4>1. NoRequest("done") \in ResumerStates
        BY <1>2 DEF NoRequest, ResumerStates, ResumerPcs
      <4>. QED
        BY <3>3, <4>1 DEF ResumerEnds
    <3>4. CASE \E j \in next .. Len(plan) + 1, result \in {"waiting", "failed", "completed"} :
                 resumer' = [resumer EXCEPT ![r] = Stopped(j, result)]
      <4>1. ASSUME NEW j \in next .. Len(plan) + 1, NEW result \in {"waiting", "failed", "completed"}
            PROVE  Stopped(j, result) \in ResumerStates
        <5>1. j \in 0 .. Len(plan) + 1 /\ next \in 0 .. Len(plan) + 1
          BY <3>2, <1>2
        <5>. HIDE DEF next
        <5>. QED
          BY <5>1, <1>2 DEF ResumerStates, ResumerPcs
      <4>. QED
        BY <3>4, <4>1
    <3>. QED
      BY <2>4, <3>3, <3>4 DEF ResumeExecute
  <2>5. CASE ResumeTracesEnd(r)
    <3>1. PICK pc \in ResumerPcs : resumer' = [resumer EXCEPT ![r] = [resumer[r] EXCEPT !.pc = pc]]
      BY <2>5 DEF ResumeTracesEnd, ResumerTo, ResumerPcs
    <3>2. [resumer[r] EXCEPT !.pc = pc] \in ResumerStates
      BY <1>2 DEF ResumerStates
    <3>. QED
      BY <3>1, <3>2
  <2>6. CASE ResumeFinish(r) \/ ResumeFails(r)
    <3>1. NoRequest("done") \in ResumerStates
      BY <1>2 DEF NoRequest, ResumerStates, ResumerPcs
    <3>. QED
      BY <2>6, <3>1 DEF ResumeFinish, ResumeFails, ResumerEnds
  <2>. QED
    BY <2>1, <2>2, <2>3, <2>4, <2>5, <2>6
<1>4. ResumerControl(r)'
  <2>. USE DEF ResumerControl, AfterLookup, AfterExecute
  <2>. resumer \in [Resumers -> ResumerStates]
    BY TypeParts
  <2>1. CASE ResumeRead(r)
    <3>1. PICK c \in 1 .. Len(checkpoints) :
            resumer' = [resumer EXCEPT ![r] = [resumer[r] EXCEPT !.pc = "detail", !.read = status,
                                                                 !.checkpoint = c]]
      BY <2>1 DEF ResumeRead
    <3>2. resumer'[r].pc = "detail" /\ resumer'[r].checkpoint # 0
      BY <3>1, <1>2 DEF ResumerStates
    <3>. QED
      BY <3>2
  <2>2. CASE ResumeDetail(r)
    <3>1. /\ resumer'[r].pc = "exec" /\ resumer'[r].checkpoint = resumer[r].checkpoint
          /\ resumer[r].pc = "detail"
      BY <2>2, <1>2 DEF ResumeDetail, ResumerStates
    <3>. QED
      BY <3>1, <1>2
  <2>6. CASE CallbackDetail(r)
    <3>1. resumer'[r].pc = "exec" /\ resumer'[r].checkpoint # 0
      <4>1. PICK c \in 1 .. Len(checkpoints) :
              resumer' = [resumer EXCEPT ![r] =
                [resumer[r] EXCEPT !.pc = "exec", !.read = status, !.checkpoint = c,
                                   !.from = nodeRuns[tasks[resumer[r].task].nodeRun].status]]
        BY <2>6 DEF CallbackDetail
      <4>. QED
        BY <4>1, <1>2 DEF ResumerStates
    <3>. QED
      BY <3>1, <1>2
  <2>3. CASE ResumeExecute(r)
    <3>. DEFINE next == checkpoints[resumer[r].checkpoint].next
    <3>1. resumer[r].checkpoint # 0 /\ resumer[r].checkpoint \in 1 .. Len(checkpoints)
      BY <2>3, <1>2 DEF ResumeExecute, ResumerStates
    <3>2. next \in 1 .. Len(plan) + 1
      BY <3>1, References
    <3>3. \/ resumer'[r] = NoRequest("done")
          \/ \E j \in next .. Len(plan) + 1, result \in {"waiting", "failed", "completed"} :
               /\ resumer'[r].pc = "node" /\ resumer'[r].at = next /\ resumer'[r].stop = j
               /\ resumer'[r].result = result
               /\ resumer'[r].checkpoint = resumer[r].checkpoint
               /\ result # "completed" => j <= Len(plan)
      <4>1. CASE ResumerEnds(r)
        BY <4>1 DEF ResumerEnds
      <4>2. ASSUME NEW j \in next .. Len(plan) + 1, NEW result \in {"waiting", "failed", "completed"},
                   result # "completed" => j <= Len(plan),
                   resumer' = [resumer EXCEPT ![r] =
                      [resumer[r] EXCEPT !.pc = "node", !.at = next, !.stop = j, !.result = result]]
            PROVE  /\ resumer'[r].pc = "node" /\ resumer'[r].at = next /\ resumer'[r].stop = j
                   /\ resumer'[r].result = result
                   /\ resumer'[r].checkpoint = resumer[r].checkpoint
        BY <4>2, <1>2 DEF ResumerStates
      <4>. QED
        BY <2>3, <4>1, <4>2 DEF ResumeExecute
    <3>. HIDE DEF next
    <3>. QED
      BY <3>1, <3>2, <3>3, <1>1, <1>2 DEF NoRequest
  <2>4. CASE ResumeTracesEnd(r)
    BY <2>4, <1>1, <1>2, TypeParts DEF ResumeTracesEnd, ResumerTo, LastTrace, ResumerStates
  <2>5. CASE ResumeFinish(r) \/ ResumeFails(r)
    BY <2>5, TypeParts DEF ResumeFinish, ResumeFails, ResumerEnds, NoRequest
  <2>. QED
    BY <2>1, <2>2, <2>3, <2>4, <2>5, <2>6
<1>5. status' \in FlowStatuses
  BY <1>2 DEF ResumeRead, ResumeDetail, CallbackDetail, ResumeExecute, ResumeTracesEnd,
     ResumeFinish, ResumeFails, durable, OutcomeStatus, WaitingStatus, FlowStatuses,
     ResumerStates, ResumerControl, AfterExecute
<1>6. failures' \in 0 .. MaxFailures
  <2>1. failures' = failures \/ RepositoryFails
    BY DEF ResumeRead, ResumeDetail, CallbackDetail, ResumeExecute, ResumeTracesEnd,
       ResumeFinish, ResumeFails
  <2>. QED
    BY <2>1 DEF RepositoryFails, TypeOK
<1>7. resumer' \in [Resumers -> ResumerStates]
  BY <1>3, TypeParts
<1>8. /\ nodeRuns' \in Seq(NodeRows') /\ checkpoints' \in Seq(CheckpointRows')
      /\ tasks' \in Seq(TaskRows') /\ plan' \in Seq(NodeTypes) /\ streaming' \in BOOLEAN
      /\ attached' \in BOOLEAN /\ opened' \in BOOLEAN /\ closed' \in BOOLEAN
      /\ terminals' \in Seq(TerminalEvents)
      /\ resumer' \in [Resumers -> ResumerStates'] /\ worker' \in WorkerStates'
      /\ canceller' \in [Cancellers -> [pc : CancellerPcs, read : FlowStatuses]]
      /\ crashes' \in 0 .. MaxCrashes /\ late' \in Nat
  BY <1>1, <1>7, TypeParts, RowsKept
<1>9. Control'
  <2>1. \A q \in Resumers \ {r} : resumer'[q] = resumer[q]
    BY <1>3, TypeParts
  <2>. QED
    BY <1>1, <1>4, <2>1 DEF Control, WorkerControl, ResumerControl
<1>. QED
  BY <1>5, <1>6, <1>8, <1>9, TypesNext

\* A step of one request leaves the control of the others and of the worker alone.
LEMMA OthersControl ==
  ASSUME TypeOK, Control, NEW r \in Resumers, NEW x,
         plan' = plan, worker' = worker, resumer' = [resumer EXCEPT ![r] = x],
         ResumerControl(r)'
  PROVE  Control'
<1>1. \A q \in Resumers \ {r} : resumer'[q] = resumer[q]
  BY TypeParts
<1>. QED
  BY <1>1 DEF Control, WorkerControl, ResumerControl

LEMMA CompleteTaskTypes ==
  ASSUME TypeOK, Control, NEW r \in Resumers, CompleteTask(r)
  PROVE  TypeOK' /\ Control'
<1>1. /\ plan' = plan /\ nodeRuns' = nodeRuns /\ checkpoints' = checkpoints
      /\ worker' = worker
  BY DEF CompleteTask, fixed
<1>2. /\ resumer \in [Resumers -> ResumerStates] /\ tasks \in Seq(TaskRows)
  BY TypeParts
<1>3. PICK t \in 1 .. Len(tasks) :
        /\ tasks' = [tasks EXCEPT ![t] = [tasks[t] EXCEPT !.status = "completed"]]
        /\ resumer' = [resumer EXCEPT ![r] = [resumer[r] EXCEPT !.pc = "callback", !.task = t]]
  BY DEF CompleteTask
<1>4. tasks' \in Seq(TaskRows) /\ Len(tasks') = Len(tasks)
  <2>1. tasks[t] \in TaskRows
    BY <1>2
  <2>2. [tasks[t] EXCEPT !.status = "completed"] \in TaskRows
    BY <2>1 DEF TaskRows
  <2>. QED
    BY <1>2, <1>3, <2>2, SeqUpdate
<1>5. /\ nodeRuns' \in Seq(NodeRows') /\ checkpoints' \in Seq(CheckpointRows')
      /\ tasks' \in Seq(TaskRows')
      /\ WorkerStates' = WorkerStates /\ ResumerStates' = ResumerStates
  BY <1>1, <1>4 DEF TypeOK, NodeRows, CheckpointRows, TaskRows, WorkerStates, ResumerStates,
     NodeRunIds
<1>6. /\ [resumer[r] EXCEPT !.pc = "callback", !.task = t] \in ResumerStates
      /\ [resumer[r] EXCEPT !.pc = "callback", !.task = t].pc = "callback"
      /\ [resumer[r] EXCEPT !.pc = "callback", !.task = t].task # 0
  <2>1. resumer[r] \in ResumerStates /\ t \in Nat /\ t # 0
    BY <1>2
  <2>2. "callback" \in ResumerPcs
    BY DEF ResumerPcs
  <2>. QED
    BY <2>1, <2>2 DEF ResumerStates
<1>7. resumer' \in [Resumers -> ResumerStates] /\ resumer'[r].pc = "callback" /\ resumer'[r].task # 0
  BY <1>2, <1>3, <1>6
<1>8. Control'
  <2>1. ResumerControl(r)'
    BY <1>7 DEF ResumerControl, AfterLookup, AfterExecute
  <2>. QED
    BY <1>1, <1>3, <2>1, OthersControl
<1>9. /\ plan' \in Seq(NodeTypes) /\ streaming' \in BOOLEAN
      /\ status' \in FlowStatuses /\ attached' \in BOOLEAN
      /\ opened' \in BOOLEAN /\ closed' \in BOOLEAN /\ terminals' \in Seq(TerminalEvents)
      /\ canceller' \in [Cancellers -> [pc : CancellerPcs, read : FlowStatuses]]
      /\ worker' \in WorkerStates'
      /\ failures' \in 0 .. MaxFailures /\ crashes' \in 0 .. MaxCrashes /\ late' \in Nat
  BY <1>5, TypeParts DEF CompleteTask, fixed, stream
<1>. QED
  BY <1>5, <1>7, <1>8, <1>9, TypesNext

LEMMA ResumeNodeTypes ==
  ASSUME TypeOK, Control, NEW r \in Resumers, ResumeNode(r)
  PROVE  TypeOK' /\ Control'
<1>1. /\ plan' = plan /\ checkpoints' = checkpoints /\ tasks' = tasks /\ worker' = worker
  BY DEF ResumeNode, fixed
<1>2. /\ resumer \in [Resumers -> ResumerStates] /\ resumer[r] \in ResumerStates
      /\ ResumerControl(r) /\ nodeRuns \in Seq(NodeRows)
  BY TypeParts DEF Control
<1>3. resumer[r].checkpoint \in 1 .. Len(checkpoints)
  BY <1>2 DEF ResumeNode, ResumerControl, AfterLookup, ResumerStates
<1>4. checkpoints[resumer[r].checkpoint].nodeRun \in NodeRunIds
  BY <1>3, References
<1>5. nodeRuns' \in Seq(NodeRows) /\ Len(nodeRuns') = Len(nodeRuns)
  BY <1>2, <1>4, NodeRunSet DEF ResumeNode, NodeStatuses
<1>6. /\ nodeRuns' \in Seq(NodeRows') /\ checkpoints' \in Seq(CheckpointRows')
      /\ tasks' \in Seq(TaskRows')
      /\ WorkerStates' = WorkerStates /\ ResumerStates' = ResumerStates
  BY <1>1, <1>5, RowsKept
<1>7. resumer' \in [Resumers -> ResumerStates] /\ Control'
  <2>1. CASE ResumerEnds(r)
    <3>1. NoRequest("done") \in ResumerStates
      BY DEF NoRequest, ResumerStates, ResumerPcs, TypeOK
    <3>2. ResumerControl(r)'
      BY <2>1, <1>2 DEF ResumerEnds, NoRequest, ResumerControl, AfterLookup, AfterExecute
    <3>. QED
      BY <2>1, <3>1, <3>2, <1>1, <1>2, OthersControl DEF ResumerEnds
  <2>2. CASE ResumerTo(r, "traces")
    <3>1. resumer' = [resumer EXCEPT ![r] = [resumer[r] EXCEPT !.pc = "traces"]]
      BY <2>2 DEF ResumerTo
    <3>2. [resumer[r] EXCEPT !.pc = "traces"] \in ResumerStates
      BY <1>2 DEF ResumerStates, ResumerPcs
    <3>3. resumer[r].pc = "node"
      BY DEF ResumeNode
    <3>4. ResumerControl(r)'
      BY <3>1, <3>3, <1>1, <1>2 DEF ResumerControl, AfterLookup, AfterExecute, ResumerStates
    <3>. QED
      BY <3>1, <3>2, <3>4, <1>1, <1>2, OthersControl
  <2>. QED
    BY <2>1, <2>2 DEF ResumeNode
<1>8. /\ plan' \in Seq(NodeTypes) /\ streaming' \in BOOLEAN
      /\ status' \in FlowStatuses /\ attached' \in BOOLEAN
      /\ opened' \in BOOLEAN /\ closed' \in BOOLEAN /\ terminals' \in Seq(TerminalEvents)
      /\ canceller' \in [Cancellers -> [pc : CancellerPcs, read : FlowStatuses]]
      /\ worker' \in WorkerStates'
      /\ failures' \in 0 .. MaxFailures /\ crashes' \in 0 .. MaxCrashes /\ late' \in Nat
  BY <1>6, TypeParts DEF ResumeNode, fixed, stream
<1>. QED
  BY <1>6, <1>7, <1>8, TypesNext

LEMMA ResumeTraceTypes ==
  ASSUME TypeOK, Control, NEW r \in Resumers, ResumeTrace(r)
  PROVE  TypeOK' /\ Control'
<1>. DEFINE n == resumer[r].at
<1>1. /\ plan' = plan /\ checkpoints' = checkpoints /\ tasks' = tasks /\ worker' = worker
  BY DEF ResumeTrace, fixed
<1>2. /\ resumer \in [Resumers -> ResumerStates] /\ resumer[r] \in ResumerStates
      /\ ResumerControl(r) /\ Len(plan) \in Nat /\ Len(nodeRuns) \in Nat
  BY TypeParts DEF Control
<1>3. n \in 1 .. Len(plan) /\ resumer[r].pc = "traces"
  BY <1>2 DEF ResumeTrace, ResumerControl, AfterExecute, ResumerStates, LastTrace
<1>4. PICK st \in NodeStatuses :
        /\ nodeRuns' = Append(nodeRuns, [node |-> n, status |-> st])
        /\ \/ /\ resumer' = [resumer EXCEPT ![r] =
                               [resumer[r] EXCEPT !.at = n + 1, !.run = Len(nodeRuns) + 1]]
              /\ failures' = failures
           \/ ResumerEnds(r) /\ RepositoryFails
  <2>1. TraceStatus(r, n) \in NodeStatuses /\ "running" \in NodeStatuses
    BY DEF TraceStatus, NodeStatuses, WaitingStatus
  <2>. QED
    BY <2>1 DEF ResumeTrace
<1>5. [node |-> n, status |-> st] \in NodeRows
  BY <1>3 DEF NodeRows
<1>6. /\ nodeRuns' \in Seq(NodeRows') /\ checkpoints' \in Seq(CheckpointRows')
      /\ tasks' \in Seq(TaskRows')
      /\ NodeRunIds' = NodeRunIds \cup {Len(nodeRuns) + 1}
      /\ WorkerStates \subseteq WorkerStates' /\ ResumerStates \subseteq ResumerStates'
  BY <1>1, <1>4, <1>5, NodeRunAdded
<1>7. resumer' \in [Resumers -> ResumerStates'] /\ Control' /\ failures' \in 0 .. MaxFailures
  <2>1. CASE ResumerEnds(r) /\ RepositoryFails
    <3>1. NoRequest("done") \in ResumerStates
      BY DEF NoRequest, ResumerStates, ResumerPcs, TypeOK
    <3>2. ResumerControl(r)'
      BY <2>1, <1>2 DEF ResumerEnds, NoRequest, ResumerControl, AfterLookup, AfterExecute
    <3>3. failures' \in 0 .. MaxFailures
      BY <2>1 DEF RepositoryFails, TypeOK
    <3>. QED
      BY <2>1, <3>1, <3>2, <3>3, <1>1, <1>2, <1>6, OthersControl DEF ResumerEnds
  <2>2. CASE /\ resumer' = [resumer EXCEPT ![r] =
                              [resumer[r] EXCEPT !.at = n + 1, !.run = Len(nodeRuns) + 1]]
             /\ failures' = failures
    <3>. DEFINE next == [resumer[r] EXCEPT !.at = n + 1, !.run = Len(nodeRuns) + 1]
    <3>1. n + 1 \in 1 .. Len(plan) + 1 /\ Len(nodeRuns) + 1 # 0
      BY <1>2, <1>3
    <3>2. next \in ResumerStates'
      <4>1. resumer[r] \in ResumerStates'
        BY <1>2, <1>6
      <4>2. n + 1 \in 0 .. Len(plan') + 1 /\ Len(nodeRuns) + 1 \in NodeRunIds' \cup {0}
        BY <3>1, <1>1, <1>2, <1>6
      <4>. HIDE DEF n
      <4>. QED
        BY <4>1, <4>2 DEF ResumerStates
    <3>3. /\ next.at = n + 1 /\ next.run = Len(nodeRuns) + 1 /\ next.pc = "traces"
          /\ next.checkpoint = resumer[r].checkpoint /\ next.result = resumer[r].result
          /\ next.stop = resumer[r].stop
      BY <1>2, <1>3 DEF ResumerStates
    <3>4. resumer'[r] = next
      BY <2>2, <1>2
    <3>5. ResumerControl(r)'
      <4>. HIDE DEF next, n
      <4>. QED
        BY <3>1, <3>3, <3>4, <1>1, <1>2, <1>3 DEF ResumerControl, AfterLookup, AfterExecute
    <3>6. resumer' \in [Resumers -> ResumerStates']
      BY <2>2, <3>2, <1>2, <1>6
    <3>7. Control'
      BY <2>2, <3>5, <1>1, OthersControl
    <3>. QED
      BY <2>2, <3>6, <3>7, TypeParts
  <2>. QED
    BY <1>4, <2>1, <2>2
<1>8. /\ plan' \in Seq(NodeTypes) /\ streaming' \in BOOLEAN
      /\ status' \in FlowStatuses /\ attached' \in BOOLEAN
      /\ opened' \in BOOLEAN /\ closed' \in BOOLEAN /\ terminals' \in Seq(TerminalEvents)
      /\ canceller' \in [Cancellers -> [pc : CancellerPcs, read : FlowStatuses]]
      /\ worker' \in WorkerStates'
      /\ crashes' \in 0 .. MaxCrashes /\ late' \in Nat
  BY <1>6, TypeParts DEF ResumeTrace, fixed, stream
<1>. QED
  BY <1>6, <1>7, <1>8, TypesNext

LEMMA ResumeCheckpointTypes ==
  ASSUME TypeOK, Control, NEW r \in Resumers, ResumeCheckpoint(r) \/ ResumeCreateTask(r)
  PROVE  TypeOK' /\ Control'
<1>1. plan' = plan /\ nodeRuns' = nodeRuns /\ worker' = worker
  BY DEF ResumeCheckpoint, ResumeCreateTask, fixed
<1>2. /\ resumer \in [Resumers -> ResumerStates] /\ resumer[r] \in ResumerStates
      /\ ResumerControl(r) /\ Len(plan) \in Nat
  BY TypeParts DEF Control
<1>3. /\ resumer[r].run \in NodeRunIds /\ resumer[r].result = "waiting"
      /\ resumer[r].stop + 1 \in 1 .. Len(plan) + 1
      /\ resumer[r].pc \in {"checkpoint", "task"}
  BY <1>2 DEF ResumeCheckpoint, ResumeCreateTask, ResumerControl, AfterExecute, ResumerStates
<1>4. /\ nodeRuns' \in Seq(NodeRows') /\ checkpoints' \in Seq(CheckpointRows')
      /\ tasks' \in Seq(TaskRows')
      /\ WorkerStates' = WorkerStates /\ ResumerStates \subseteq ResumerStates'
  <2>1. CASE ResumeCheckpoint(r)
    <3>1. [nodeRun |-> resumer[r].run, next |-> resumer[r].stop + 1] \in CheckpointRows
      BY <1>3 DEF CheckpointRows
    <3>. QED
      BY <2>1, <3>1, <1>1, CheckpointAdded DEF ResumeCheckpoint
  <2>2. CASE ResumeCreateTask(r)
    <3>1. [nodeRun |-> resumer[r].run, status |-> "pending"] \in TaskRows
      BY <1>3 DEF TaskRows
    <3>. QED
      BY <2>2, <3>1, <1>1, TaskAdded DEF ResumeCreateTask
  <2>. QED
    BY <2>1, <2>2
<1>5. PICK pc \in {"task", "finish"} :
        resumer' = [resumer EXCEPT ![r] = [resumer[r] EXCEPT !.pc = pc]]
  BY DEF ResumeCheckpoint, ResumeCreateTask, ResumerTo
<1>6. [resumer[r] EXCEPT !.pc = pc] \in ResumerStates
  BY <1>2 DEF ResumerStates, ResumerPcs
<1>7. resumer' \in [Resumers -> ResumerStates']
  BY <1>2, <1>4, <1>5, <1>6
<1>8. ResumerControl(r)'
  BY <1>1, <1>2, <1>3, <1>5 DEF ResumerControl, AfterLookup, AfterExecute, ResumerStates
<1>9. Control'
  BY <1>1, <1>5, <1>8, OthersControl
<1>10. /\ plan' \in Seq(NodeTypes) /\ streaming' \in BOOLEAN
      /\ status' \in FlowStatuses /\ attached' \in BOOLEAN
      /\ opened' \in BOOLEAN /\ closed' \in BOOLEAN /\ terminals' \in Seq(TerminalEvents)
      /\ canceller' \in [Cancellers -> [pc : CancellerPcs, read : FlowStatuses]]
      /\ worker' \in WorkerStates'
      /\ failures' \in 0 .. MaxFailures /\ crashes' \in 0 .. MaxCrashes /\ late' \in Nat
  BY <1>1, <1>4, TypeParts DEF ResumeCheckpoint, ResumeCreateTask, fixed, stream
<1>. QED
  BY <1>4, <1>7, <1>9, <1>10, TypesNext

LEMMA NextTypes == TypeOK /\ Control /\ [Next]_vars => TypeOK' /\ Control'
<1>. SUFFICES ASSUME TypeOK, Control, [Next]_vars PROVE TypeOK' /\ Control'
  OBVIOUS
<1>1. CASE WorkerStep \/ WorkerDropped
  BY <1>1, WorkerMoves, CreateNodeRunTypes, ExecuteTypes, CheckpointTypes DEF WorkerStep
<1>2. CASE \E c \in Cancellers : CancelStep(c)
  BY <1>2, CancelTypes
<1>3. CASE \E r \in Resumers : ResumeStep(r)
  BY <1>3, ResumeMoves, CompleteTaskTypes, ResumeNodeTypes, ResumeTraceTypes,
     ResumeCheckpointTypes DEF ResumeStep
<1>4. CASE UNCHANGED vars
  <2>1. TypeOK'
    BY <1>4 DEF vars, fixed, durable, stream, requests, TypeOK, NodeRunIds
  <2>2. Control'
    BY <1>4 DEF vars, fixed, durable, stream, requests, Control, WorkerControl, ResumerControl
  <2>. QED
    BY <2>1, <2>2
<1>. QED
  BY <1>1, <1>2, <1>3, <1>4, CrashTypes DEF Next

\* Every row refers to rows that exist, and every index a request or the worker
\* uses is in range, for every set of plans and any number of requests.
THEOREM FlowTypeCorrect == Spec => []TypeOK
<1>1. Spec => [](TypeOK /\ Control)
  BY InitTypes, NextTypes, PTL DEF Spec
<1>. QED
  BY <1>1, PTL
=============================================================================
