------------------------- MODULE FlowRunRowsProofs -------------------------
(***************************************************************************)
(* What the rows of a run say about its status, for every set of plans,    *)
(* every number of requests and every number of failures and restarts: a   *)
(* waiting run has a checkpoint to go on from, and a succeeded one has     *)
(* gone through its whole plan.                                            *)
(***************************************************************************)
EXTENDS FlowRunSafetyProofs

-----------------------------------------------------------------------------
\* The node a checkpoint was stored behind, and the nodes that have one
NodeOf(c) == nodeRuns[checkpoints[c].nodeRun].node

CheckpointFor(n) == \E c \in 1 .. Len(checkpoints) : NodeOf(c) = n

DoneBefore(n) == \A m \in 1 .. n - 1 : Done(m)

\* A checkpoint stands behind a node that waits, and everything before that
\* node has succeeded.
CheckpointSound(c) ==
  /\ plan[NodeOf(c)] \in Waiting
  /\ checkpoints[c].next = NodeOf(c) + 1
  /\ DoneBefore(NodeOf(c))

CheckpointsSound == \A c \in 1 .. Len(checkpoints) : CheckpointSound(c)

Preparing == {"open", "prepare", "compile", "attach", "started", "continue"}
WaitCalls == {"checkWaiting", "checkpoint", "task", "wait"}

\* The worker has the nodes before its own behind it.
WorkerRows ==
  /\ worker.pc \in Preparing => worker.at = 1
  /\ worker.pc \in NodeRunCalls => nodeRuns[worker.run].node = worker.at
  /\ worker.pc = "exec" => nodeRuns[worker.run].status = "running"
  /\ worker.pc \in WaitCalls => plan[worker.at] \in Waiting
  /\ worker.pc \in {"task", "wait"} => CheckpointFor(worker.at)
  /\ worker.pc \in {"loop", "create", "succeed"} \cup NodeRunCalls => DoneBefore(worker.at)
  /\ worker.pc = "checkSucceeded" => Done(worker.at)
  /\ worker.pc = "succeed" => worker.at > Len(plan)

\* What the outcome of an execution says of where it stopped
OutcomeSound(q) ==
  /\ q.result = "waiting" => q.stop \in 1 .. Len(plan) /\ plan[q.stop] \in Waiting
  /\ q.result = "completed" => q.stop = Len(plan) + 1

\* A request persists the traces in order, and its checkpoint after them.
RequestRows(q) ==
  /\ q.pc \in AfterExecute => OutcomeSound(q)
  /\ q.pc = "node" => q.at = checkpoints[q.checkpoint].next /\ q.at <= q.stop
  /\ q.pc = "traces" =>
       /\ \A n \in 1 .. q.at - 1 : n < q.stop => Done(n)
       /\ q.at <= q.stop + 1
       /\ q.at > q.stop => nodeRuns[q.run].node = q.stop
  /\ q.pc \in {"checkpoint", "task"} => nodeRuns[q.run].node = q.stop
  /\ q.pc \in {"checkpoint", "task", "finish"} => DoneBefore(q.stop)
  /\ q.pc = "task" \/ (q.pc = "finish" /\ q.result = "waiting") => CheckpointFor(q.stop)

StatusRows ==
  /\ status = "succeeded" => \A n \in 1 .. Len(plan) : Done(n)
  /\ status \in WaitingStatuses =>
       \E n \in 1 .. Len(plan) :
         plan[n] \in Waiting /\ WaitingStatus(plan[n]) = status /\ CheckpointFor(n)

Rows ==
  /\ CheckpointsSound /\ WorkerRows /\ StatusRows
  /\ \A r \in Resumers : RequestRows(resumer[r])

-----------------------------------------------------------------------------
(***************************************************************************)
(* Rows are only added, a node run keeps its node, and one that succeeded  *)
(* stays so.                                                               *)
(***************************************************************************)
RowsGrow ==
  /\ plan' = plan
  /\ NodeRunIds \subseteq NodeRunIds'
  /\ \A i \in NodeRunIds :
       /\ nodeRuns'[i].node = nodeRuns[i].node
       /\ nodeRuns[i].status = "succeeded" => nodeRuns'[i].status = "succeeded"
  /\ 1 .. Len(checkpoints) \subseteq 1 .. Len(checkpoints')
  /\ \A c \in 1 .. Len(checkpoints) : checkpoints'[c] = checkpoints[c]

LEMMA NodeOfKept ==
  ASSUME TypeOK, RowsGrow, NEW c \in 1 .. Len(checkpoints)
  PROVE  NodeOf(c)' = NodeOf(c)
  BY References DEF RowsGrow, NodeOf

LEMMA DoneKept ==
  ASSUME RowsGrow, NEW n, Done(n)
  PROVE  Done(n)'
  BY DEF RowsGrow, Done

LEMMA DoneBeforeKept ==
  ASSUME RowsGrow, NEW n, DoneBefore(n)
  PROVE  DoneBefore(n)'
  BY DoneKept DEF DoneBefore

LEMMA CheckpointForKept ==
  ASSUME TypeOK, RowsGrow, NEW n, CheckpointFor(n)
  PROVE  CheckpointFor(n)'
  BY NodeOfKept DEF RowsGrow, CheckpointFor

LEMMA CheckpointSoundKept ==
  ASSUME TypeOK, RowsGrow, NEW c \in 1 .. Len(checkpoints), CheckpointSound(c)
  PROVE  CheckpointSound(c)'
<1>1. NodeOf(c)' = NodeOf(c) /\ plan' = plan /\ checkpoints'[c] = checkpoints[c]
  BY NodeOfKept DEF RowsGrow
<1>2. DoneBefore(NodeOf(c))'
  BY <1>1, DoneKept DEF CheckpointSound, DoneBefore
<1>. QED
  BY <1>1, <1>2 DEF CheckpointSound

LEMMA RequestKept ==
  ASSUME TypeOK, Control, RowsGrow, NEW r \in Resumers, RequestRows(resumer[r]),
         resumer'[r] = resumer[r]
  PROVE  RequestRows(resumer[r])'
<1>. DEFINE q == resumer[r]
<1>1. q \in ResumerStates /\ ResumerControl(r)
  BY TypeParts DEF Control
<1>2. q.pc \in AfterExecute => OutcomeSound(q)'
  BY DEF RequestRows, OutcomeSound, RowsGrow
<1>3. q.pc = "node" => checkpoints'[q.checkpoint] = checkpoints[q.checkpoint]
  BY <1>1 DEF RowsGrow, ResumerControl, ResumerStates, AfterLookup
<1>4. q.pc \in {"checkpoint", "task"} \/ (q.pc = "traces" /\ q.at > q.stop) =>
        nodeRuns'[q.run].node = nodeRuns[q.run].node
  BY <1>1 DEF RowsGrow, ResumerControl, ResumerStates
<1>. HIDE DEF q
<1>5. q.pc = "traces" => \A n \in 1 .. q.at - 1 : n < q.stop => Done(n)'
  BY DoneKept DEF RequestRows, q
<1>6. q.pc \in {"checkpoint", "task", "finish"} => DoneBefore(q.stop)'
  BY DoneBeforeKept DEF RequestRows, q
<1>7. q.pc = "task" \/ (q.pc = "finish" /\ q.result = "waiting") => CheckpointFor(q.stop)'
  BY CheckpointForKept DEF RequestRows, q
<1>. QED
  BY <1>2, <1>3, <1>4, <1>5, <1>6, <1>7 DEF RequestRows, q

LEMMA StatusKept ==
  ASSUME TypeOK, RowsGrow, StatusRows, status' = status
  PROVE  StatusRows'
<1>1. plan' = plan
  BY DEF RowsGrow
<1>2. status = "succeeded" => \A n \in 1 .. Len(plan) : Done(n)'
  BY DoneKept DEF StatusRows
<1>3. status \in WaitingStatuses =>
        \E n \in 1 .. Len(plan) :
          plan[n] \in Waiting /\ WaitingStatus(plan[n]) = status /\ CheckpointFor(n)'
  BY CheckpointForKept DEF StatusRows
<1>. QED
  BY <1>1, <1>2, <1>3 DEF StatusRows

\* The worker's part, when somebody else takes a step
LEMMA WorkerKept ==
  ASSUME TypeOK, Control, RowsGrow, WorkerRows, worker' = worker,
         worker.pc = "exec" => nodeRuns' = nodeRuns
  PROVE  WorkerRows'
<1>1. worker \in WorkerStates /\ WorkerControl
  BY TypeParts DEF Control
<1>2. worker.pc \in NodeRunCalls => nodeRuns'[worker.run].node = nodeRuns[worker.run].node
  BY <1>1 DEF RowsGrow, WorkerControl, WorkerStates
<1>3. /\ worker.pc \in {"task", "wait"} => CheckpointFor(worker.at)'
      /\ worker.pc \in {"loop", "create", "succeed"} \cup NodeRunCalls => DoneBefore(worker.at)'
      /\ worker.pc = "checkSucceeded" => Done(worker.at)'
  BY CheckpointForKept, DoneBeforeKept, DoneKept DEF WorkerRows
<1>4. plan' = plan
  BY DEF RowsGrow
<1>. QED
  BY <1>2, <1>3, <1>4 DEF WorkerRows

-----------------------------------------------------------------------------
\* How the rows change
LEMMA RowsSame ==
  ASSUME TypeOK, plan' = plan, nodeRuns' = nodeRuns, checkpoints' = checkpoints
  PROVE  RowsGrow
  BY DEF RowsGrow, NodeRunIds

LEMMA NodeRunCreated ==
  ASSUME TypeOK, NEW row \in NodeRows, nodeRuns' = Append(nodeRuns, row),
         plan' = plan, checkpoints' = checkpoints
  PROVE  /\ RowsGrow
         /\ Len(nodeRuns) + 1 \in NodeRunIds'
         /\ nodeRuns'[Len(nodeRuns) + 1] = row
<1>1. nodeRuns \in Seq(NodeRows) /\ Len(nodeRuns) \in Nat
  BY TypeParts
<1>2. /\ Len(nodeRuns') = Len(nodeRuns) + 1
      /\ nodeRuns'[Len(nodeRuns) + 1] = row
      /\ \A i \in 1 .. Len(nodeRuns) : nodeRuns'[i] = nodeRuns[i]
  BY <1>1
<1>. QED
  BY <1>1, <1>2 DEF RowsGrow, NodeRunIds

LEMMA NodeRunUpdated ==
  ASSUME TypeOK, NEW n \in NodeRunIds, NEW st \in NodeStatuses, SetNodeRun(n, st),
         st = "succeeded" \/ nodeRuns[n].status # "succeeded",
         plan' = plan, checkpoints' = checkpoints
  PROVE  /\ RowsGrow
         /\ n \in NodeRunIds'
         /\ nodeRuns'[n].node = nodeRuns[n].node
         /\ nodeRuns'[n].status = st
<1>1. nodeRuns \in Seq(NodeRows)
  BY TypeParts
<1>2. nodeRuns[n] \in NodeRows
  BY <1>1 DEF NodeRunIds
<1>3. /\ Len(nodeRuns') = Len(nodeRuns)
      /\ nodeRuns'[n] = [nodeRuns[n] EXCEPT !.status = st]
      /\ \A i \in NodeRunIds \ {n} : nodeRuns'[i] = nodeRuns[i]
  BY <1>1 DEF SetNodeRun, NodeRunIds
<1>4. nodeRuns'[n].node = nodeRuns[n].node /\ nodeRuns'[n].status = st
  BY <1>2, <1>3 DEF NodeRows
<1>5. \A i \in NodeRunIds :
        /\ nodeRuns'[i].node = nodeRuns[i].node
        /\ nodeRuns[i].status = "succeeded" => nodeRuns'[i].status = "succeeded"
  BY <1>3, <1>4
<1>. QED
  BY <1>3, <1>4, <1>5 DEF RowsGrow, NodeRunIds

\* A checkpoint stored behind a node run that waits is sound.
LEMMA CheckpointStored ==
  ASSUME TypeOK, CheckpointsSound, NEW run \in NodeRunIds, NEW n \in 1 .. Len(plan),
         nodeRuns[run].node = n, plan[n] \in Waiting, DoneBefore(n),
         checkpoints' = Append(checkpoints, [nodeRun |-> run, next |-> n + 1]),
         plan' = plan, nodeRuns' = nodeRuns
  PROVE  RowsGrow /\ CheckpointsSound' /\ CheckpointFor(n)'
<1>1. checkpoints \in Seq(CheckpointRows) /\ Len(checkpoints) \in Nat
  BY TypeParts
<1>. PICK new \in Nat : new = Len(checkpoints) + 1
  BY <1>1
<1>2. [nodeRun |-> run, next |-> n + 1] \in CheckpointRows
  BY DEF CheckpointRows
<1>3. /\ Len(checkpoints') = new
      /\ checkpoints'[new].nodeRun = run /\ checkpoints'[new].next = n + 1
      /\ \A c \in 1 .. Len(checkpoints) : checkpoints'[c] = checkpoints[c]
  BY <1>1, <1>2
<1>4. RowsGrow
  BY <1>1, <1>3 DEF RowsGrow, NodeRunIds
<1>5. NodeOf(new)' = n
  BY <1>3 DEF NodeOf
<1>6. CheckpointSound(new)'
  BY <1>3, <1>4, <1>5, DoneBeforeKept DEF CheckpointSound, DoneBefore
<1>7. \A c \in 1 .. Len(checkpoints) : CheckpointSound(c)'
  BY <1>4, CheckpointSoundKept DEF CheckpointsSound
<1>8. \A c \in 1 .. Len(checkpoints') : c = new \/ c \in 1 .. Len(checkpoints)
  BY <1>1, <1>3
<1>9. CheckpointsSound'
  BY <1>6, <1>7, <1>8 DEF CheckpointsSound
<1>10. new \in 1 .. Len(checkpoints')
  BY <1>1, <1>3
<1>. QED
  BY <1>4, <1>5, <1>9, <1>10 DEF CheckpointFor

\* A step that adds no checkpoint and touches no request
LEMMA OthersRows ==
  ASSUME TypeOK, Control, Rows, RowsGrow, checkpoints' = checkpoints, resumer' = resumer
  PROVE  CheckpointsSound' /\ \A r \in Resumers : RequestRows(resumer[r])'
<1>1. \A c \in 1 .. Len(checkpoints) : CheckpointSound(c)'
  BY CheckpointSoundKept DEF Rows, CheckpointsSound
<1>2. CheckpointsSound'
  BY <1>1 DEF CheckpointsSound
<1>. QED
  BY <1>2, RequestKept DEF Rows

-----------------------------------------------------------------------------
(***************************************************************************)
(* Steps of the worker                                                     *)
(***************************************************************************)
\* Calls at which the worker claims nothing of the rows
Elsewhere == {"failQueued", "failRead", "failWrite", "emit", "close", "return", "fallback", "done"}

LEMMA ElsewhereRows ==
  ASSUME worker'.pc \in Elsewhere
  PROVE  WorkerRows'
  BY DEF Elsewhere, WorkerRows, Preparing, NodeRunCalls, WaitCalls

\* Those that keep the rows end elsewhere, prepare the run, or go on in the loop.
LEMMA WorkerMoveRows ==
  ASSUME TypeOK, Control, Rows, WorkerStep \/ WorkerDropped,
         ~WorkerCreateNodeRun, ~WorkerExecute, ~WorkerCheckpoint
  PROVE  WorkerRows' /\ nodeRuns' = nodeRuns /\ checkpoints' = checkpoints
<1>1. worker \in WorkerStates /\ plan' = plan
  BY TypeParts, WorkerFrame DEF fixed
<1>2. nodeRuns' = nodeRuns /\ checkpoints' = checkpoints
  BY WorkerCases DEF durable, WorkerOpenStream, WorkerPrepare, WorkerCompile, WorkerAttach,
     WorkerFailQueued, WorkerStarted, WorkerContinue, WorkerLoop, WorkerNodeError,
     WorkerCheckCancelled, WorkerFailNode, WorkerCreateTask, WorkerWait, WorkerSucceed,
     WorkerReturn, WorkerCallFails, WorkerFailRead, WorkerFailWrite, WorkerEmit, WorkerClose,
     WorkerFallback, WorkerDropped
<1>3. /\ \A n : Done(n) => Done(n)'
      /\ \A n : DoneBefore(n) => DoneBefore(n)'
      /\ \A n : CheckpointFor(n) => CheckpointFor(n)'
  BY <1>1, <1>2, RowsSame, DoneKept, DoneBeforeKept, CheckpointForKept
<1>4. CASE worker'.pc \in Elsewhere
  BY <1>2, <1>4, ElsewhereRows
<1>5. CASE worker'.pc \in Preparing
  <2>1. worker.pc \in Preparing /\ worker'.at = worker.at
    BY <1>1, <1>5, WorkerCases DEF Preparing, InnerCalls, Goto, EndWithError, FailRunBecause,
     EmitBecause, NextNode, WorkerStates, WorkerOpenStream, WorkerPrepare, WorkerCompile,
     WorkerAttach, WorkerFailQueued, WorkerStarted, WorkerContinue, WorkerLoop, WorkerNodeError,
     WorkerCheckCancelled, WorkerFailNode, WorkerCreateTask, WorkerWait, WorkerSucceed,
     WorkerReturn, WorkerCallFails, WorkerFailRead, WorkerFailWrite, WorkerEmit, WorkerClose,
     WorkerFallback, WorkerDropped
  <2>. QED
    BY <1>2, <1>5, <2>1 DEF Rows, WorkerRows, Preparing, NodeRunCalls, WaitCalls
<1>6. CASE worker'.pc \notin Elsewhere \cup Preparing
  <2>1. WorkerContinue \/ WorkerLoop \/ WorkerCheckCancelled \/ WorkerCreateTask
    BY <1>1, <1>6, WorkerCases DEF Elsewhere, Preparing, InnerCalls, Goto, EndWithError,
     FailRunBecause, EmitBecause, NextNode, WorkerStates, WorkerOpenStream, WorkerPrepare,
     WorkerCompile, WorkerAttach, WorkerFailQueued, WorkerStarted, WorkerNodeError,
     WorkerFailNode, WorkerWait, WorkerSucceed, WorkerReturn, WorkerCallFails, WorkerFailRead,
     WorkerFailWrite, WorkerEmit, WorkerClose, WorkerFallback, WorkerDropped
  <2>2. WorkerRows /\ worker.at \in Nat /\ worker.at + 1 - 1 = worker.at
    BY <1>1 DEF Rows, WorkerStates
  <2>3. CASE WorkerContinue
    <3>1. worker'.at = 1 /\ worker'.pc = "loop"
      BY <1>1, <1>6, <2>2, <2>3 DEF WorkerContinue, WorkerRows, Goto, WorkerStates, Preparing,
         Elsewhere
    <3>2. DoneBefore(worker.at)'
      BY <3>1 DEF DoneBefore
    <3>. QED
      BY <1>2, <3>1, <3>2 DEF WorkerRows, NodeRunCalls, WaitCalls, Preparing
  <2>4. CASE WorkerLoop
    <3>1. /\ worker'.at = worker.at /\ worker.pc = "loop"
          /\ \/ worker'.pc = "create"
             \/ worker'.pc = "succeed" /\ worker.at > Len(plan)
      BY <1>1, <1>6, <2>4 DEF WorkerLoop, Goto, WorkerStates, Elsewhere
    <3>. QED
      BY <1>1, <1>2, <1>3, <2>2, <3>1 DEF WorkerRows, NodeRunCalls, WaitCalls, Preparing
  <2>5. CASE WorkerCheckCancelled /\ worker.pc = "checkSucceeded"
    <3>1. worker'.at = worker.at + 1 /\ worker'.pc = "loop"
      BY <1>1, <1>6, <2>5 DEF WorkerCheckCancelled, NextNode, Goto, WorkerStates, Elsewhere
    <3>2. \A n \in 1 .. worker.at : Done(n)'
      BY <1>3, <2>2, <2>5 DEF WorkerRows, NodeRunCalls, DoneBefore
    <3>3. DoneBefore(worker.at)'
      BY <2>2, <3>1, <3>2 DEF DoneBefore
    <3>. QED
      BY <1>2, <3>1, <3>3 DEF WorkerRows, NodeRunCalls, WaitCalls, Preparing
  <2>6. CASE WorkerCheckCancelled /\ worker.pc # "checkSucceeded"
    <3>1. /\ worker'.at = worker.at /\ worker'.run = worker.run
          /\ \/ worker'.pc = "failNode" /\ worker.pc = "checkFailed"
             \/ worker'.pc = "checkpoint" /\ worker.pc = "checkWaiting"
      BY <1>1, <1>6, <2>6 DEF WorkerCheckCancelled, NextNode, Goto, WorkerStates, Elsewhere
    <3>. QED
      BY <1>1, <1>2, <1>3, <2>2, <3>1 DEF WorkerRows, NodeRunCalls, WaitCalls, Preparing
  <2>7. CASE WorkerCreateTask
    <3>1. /\ worker'.at = worker.at /\ worker'.run = worker.run
          /\ worker'.pc = "wait" /\ worker.pc = "task"
      BY <1>1, <2>7 DEF WorkerCreateTask, Goto, WorkerStates
    <3>. QED
      BY <1>1, <1>2, <1>3, <2>2, <3>1 DEF WorkerRows, NodeRunCalls, WaitCalls, Preparing
  <2>. QED
    BY <1>2, <2>1, <2>3, <2>4, <2>5, <2>6, <2>7
<1>. QED
  BY <1>4, <1>5, <1>6

\* The status the worker writes is one its rows account for.
LEMMA WorkerStatusRows ==
  ASSUME TypeOK, Control, Rows, RowsGrow, WorkerStep \/ WorkerDropped
  PROVE  StatusRows'
<1>1. worker \in WorkerStates /\ plan' = plan /\ WorkerControl
  BY TypeParts DEF RowsGrow, Control
<1>2. CASE status' = status
  BY <1>2, StatusKept DEF Rows
<1>3. CASE status' \in {"running", "failed"}
  BY <1>3 DEF StatusRows, WaitingStatuses
<1>4. CASE WorkerWait
  <2>1. /\ worker.at \in 1 .. Len(plan) /\ plan[worker.at] \in Waiting
        /\ CheckpointFor(worker.at)
    BY <1>1, <1>4 DEF WorkerWait, Rows, WorkerRows, WorkerControl, WorkerStates, NodeCalls,
       NodeRunCalls, WaitCalls
  <2>2. \A n : CheckpointFor(n) => CheckpointFor(n)'
    BY CheckpointForKept
  <2>3. status' = WaitingStatus(plan[worker.at]) /\ status' # "succeeded"
    BY <1>4 DEF WorkerWait, WaitingStatus
  <2>. QED
    BY <1>1, <2>1, <2>2, <2>3 DEF StatusRows
<1>5. CASE WorkerSucceed /\ status' # status
  <2>1. worker.at > Len(plan) /\ DoneBefore(worker.at) /\ status' = "succeeded"
    BY <1>5 DEF WorkerSucceed, Rows, WorkerRows
  <2>2. \A n \in 1 .. Len(plan) : n \in 1 .. worker.at - 1
    BY <1>1, <2>1, TypeParts DEF WorkerStates
  <2>3. \A n \in 1 .. Len(plan) : Done(n)'
    BY <2>1, <2>2, DoneKept DEF DoneBefore
  <2>. QED
    BY <1>1, <2>1, <2>3 DEF StatusRows, WaitingStatuses
<1>6. status' = status \/ status' \in {"running", "failed"} \/ WorkerWait \/ WorkerSucceed
  BY WorkerCases DEF durable, WorkerOpenStream, WorkerPrepare, WorkerCompile, WorkerAttach,
     WorkerFailQueued, WorkerStarted, WorkerContinue, WorkerLoop, WorkerCreateNodeRun,
     WorkerExecute, WorkerNodeError, WorkerCheckCancelled, WorkerFailNode, WorkerCheckpoint,
     WorkerCreateTask, WorkerReturn, WorkerCallFails, WorkerFailRead, WorkerFailWrite,
     WorkerEmit, WorkerClose, WorkerFallback, WorkerDropped
<1>. QED
  BY <1>2, <1>3, <1>4, <1>5, <1>6

LEMMA CreateNodeRunRows ==
  ASSUME TypeOK, Control, Rows, WorkerCreateNodeRun
  PROVE  RowsGrow /\ WorkerRows' /\ checkpoints' = checkpoints
<1>1. /\ worker \in WorkerStates /\ plan' = plan /\ checkpoints' = checkpoints
      /\ worker.at \in 1 .. Len(plan)
      /\ nodeRuns' = Append(nodeRuns, [node |-> worker.at, status |-> "running"])
      /\ Len(nodeRuns) \in Nat
  BY TypeParts DEF WorkerCreateNodeRun, fixed, Control, WorkerControl, NodeCalls, WorkerStates
<1>2. [node |-> worker.at, status |-> "running"] \in NodeRows
  BY <1>1 DEF NodeRows, NodeStatuses
<1>3. RowsGrow /\ nodeRuns'[Len(nodeRuns) + 1] = [node |-> worker.at, status |-> "running"]
  BY <1>1, <1>2, NodeRunCreated
<1>4. worker'.pc = "exec" /\ worker'.at = worker.at /\ worker'.run = Len(nodeRuns) + 1
  BY <1>1 DEF WorkerCreateNodeRun, WorkerStates
<1>5. DoneBefore(worker.at)
  BY DEF WorkerCreateNodeRun, Rows, WorkerRows
<1>6. \A n : DoneBefore(n) => DoneBefore(n)'
  BY <1>3, DoneBeforeKept
<1>. QED
  BY <1>1, <1>3, <1>4, <1>5, <1>6 DEF WorkerRows, Preparing, NodeRunCalls, WaitCalls

\* Executing a node overwrites the status of a node run that has not succeeded.
LEMMA ExecuteRows ==
  ASSUME TypeOK, Control, Rows, WorkerExecute
  PROVE  RowsGrow /\ WorkerRows' /\ checkpoints' = checkpoints
<1>1. /\ worker \in WorkerStates /\ plan' = plan /\ checkpoints' = checkpoints
      /\ worker.at \in 1 .. Len(plan) /\ worker.run \in NodeRunIds /\ worker.pc = "exec"
  BY TypeParts DEF WorkerExecute, fixed, Control, WorkerControl, NodeCalls, NodeRunCalls,
     WorkerStates
<1>2. /\ nodeRuns[worker.run].node = worker.at /\ nodeRuns[worker.run].status = "running"
      /\ DoneBefore(worker.at)
  BY <1>1 DEF Rows, WorkerRows, NodeRunCalls
<1>3. PICK st \in NodeStatuses :
        /\ SetNodeRun(worker.run, st)
        /\ \/ st = "succeeded" /\ NextNode
           \/ st = "succeeded" /\ Goto("checkSucceeded")
           \/ Goto("checkFailed")
           \/ Goto("failNode")
           \/ plan[worker.at] \in Waiting /\ Goto("checkWaiting")
  BY DEF WorkerExecute, NodeStatuses, WaitingStatus
<1>4. /\ RowsGrow /\ worker.run \in NodeRunIds' /\ nodeRuns'[worker.run].node = worker.at
      /\ nodeRuns'[worker.run].status = st
  BY <1>1, <1>2, <1>3, NodeRunUpdated
<1>5. st = "succeeded" => \E i \in NodeRunIds' :
        nodeRuns'[i].node = worker.at /\ nodeRuns'[i].status = "succeeded"
  BY <1>4
<1>6. \A n : DoneBefore(n) => DoneBefore(n)'
  BY <1>4, DoneBeforeKept
<1>7. CASE st = "succeeded" /\ NextNode
  <2>1. worker'.at = worker.at + 1 /\ worker'.pc = "loop" /\ worker.at \in Nat
    BY <1>1, <1>7 DEF NextNode, WorkerStates
  <2>2. \A n \in 1 .. worker.at - 1 : Done(n)'
    BY <1>2, <1>6 DEF DoneBefore
  <2>3. \A n : n = worker.at => Done(n)'
    BY <1>5, <1>7 DEF Done
  <2>4. \A n \in 1 .. worker.at : n \in 1 .. worker.at - 1 \/ n = worker.at
    BY <2>1
  <2>5. DoneBefore(worker.at)'
    BY <2>1, <2>2, <2>3, <2>4 DEF DoneBefore
  <2>. QED
    BY <1>1, <1>4, <2>1, <2>5 DEF WorkerRows, Preparing, NodeRunCalls, WaitCalls
<1>8. CASE \/ st = "succeeded" /\ Goto("checkSucceeded")
           \/ Goto("checkFailed")
           \/ Goto("failNode")
           \/ plan[worker.at] \in Waiting /\ Goto("checkWaiting")
  <2>1. /\ worker'.at = worker.at /\ worker'.run = worker.run
        /\ \/ st = "succeeded" /\ worker'.pc = "checkSucceeded"
           \/ worker'.pc \in {"checkFailed", "failNode"}
           \/ plan[worker.at] \in Waiting /\ worker'.pc = "checkWaiting"
    BY <1>1, <1>8 DEF Goto, WorkerStates
  <2>2. DoneBefore(worker.at)' /\ (st = "succeeded" => Done(worker.at)')
    BY <1>2, <1>5, <1>6, <2>1 DEF Done
  <2>. QED
    BY <1>1, <1>4, <2>1, <2>2 DEF WorkerRows, Preparing, NodeRunCalls, WaitCalls
<1>. QED
  BY <1>1, <1>3, <1>4, <1>7, <1>8

LEMMA WorkerCheckpointRows ==
  ASSUME TypeOK, Control, Rows, WorkerCheckpoint
  PROVE  RowsGrow /\ WorkerRows' /\ CheckpointsSound'
<1>1. /\ worker \in WorkerStates /\ plan' = plan /\ nodeRuns' = nodeRuns
      /\ worker.at \in 1 .. Len(plan) /\ worker.run \in NodeRunIds
      /\ worker.pc = "checkpoint"
  BY TypeParts DEF WorkerCheckpoint, fixed, Control, WorkerControl, NodeCalls, NodeRunCalls,
     WorkerStates
<1>2. /\ nodeRuns[worker.run].node = worker.at /\ DoneBefore(worker.at)
      /\ plan[worker.at] \in Waiting
  BY <1>1 DEF Rows, WorkerRows, NodeRunCalls, WaitCalls
<1>3. RowsGrow /\ CheckpointsSound' /\ CheckpointFor(worker.at)'
  <2>1. PICK n \in 1 .. Len(plan), run \in NodeRunIds : n = worker.at /\ run = worker.run
    BY <1>1
  <2>2. RowsGrow /\ CheckpointsSound' /\ CheckpointFor(n)'
    BY <1>1, <1>2, <2>1, CheckpointStored DEF WorkerCheckpoint, Rows
  <2>3. worker'.at = n
    BY <1>1, <2>1 DEF WorkerCheckpoint, Goto, WorkerStates
  <2>. QED
    BY <2>2, <2>3 DEF CheckpointFor
<1>4. /\ worker'.at = worker.at /\ worker'.run = worker.run /\ worker'.pc \in {"task", "wait"}
  BY <1>1 DEF WorkerCheckpoint, Goto, WorkerStates
<1>5. DoneBefore(worker.at)'
  BY <1>2, <1>3, <1>4, DoneBeforeKept DEF DoneBefore
<1>. QED
  BY <1>1, <1>2, <1>3, <1>4, <1>5 DEF WorkerRows, Preparing, NodeRunCalls, WaitCalls

LEMMA WorkerStepRows ==
  ASSUME TypeOK, Control, Rows, WorkerStep \/ WorkerDropped
  PROVE  Rows'
<1>1. plan' = plan /\ resumer' = resumer
  BY WorkerFrame DEF fixed
<1>2. CASE ~WorkerCheckpoint
  <2>1. RowsGrow /\ WorkerRows' /\ checkpoints' = checkpoints
    BY <1>1, <1>2, CreateNodeRunRows, ExecuteRows, WorkerMoveRows, RowsSame
  <2>. QED
    BY <1>1, <2>1, OthersRows, WorkerStatusRows DEF Rows
<1>3. CASE WorkerCheckpoint
  <2>1. RowsGrow /\ WorkerRows' /\ CheckpointsSound'
    BY <1>3, WorkerCheckpointRows
  <2>2. \A r \in Resumers : RequestRows(resumer[r])'
    BY <1>1, <2>1, RequestKept DEF Rows
  <2>. QED
    BY <2>1, <2>2, WorkerStatusRows DEF Rows
<1>. QED
  BY <1>2, <1>3

-----------------------------------------------------------------------------
(***************************************************************************)
(* Steps of the requests                                                   *)
(***************************************************************************)
\* The other requests, when one takes a step
LEMMA OtherRequests ==
  ASSUME TypeOK, Control, Rows, RowsGrow, NEW r \in Resumers, NEW x,
         resumer' = [resumer EXCEPT ![r] = x],
         RequestRows(resumer[r])'
  PROVE  \A q \in Resumers : RequestRows(resumer[q])'
<1>1. \A q \in Resumers \ {r} : resumer'[q] = resumer[q]
  BY TypeParts
<1>2. \A q \in Resumers \ {r} : RequestRows(resumer[q])'
  BY <1>1, RequestKept DEF Rows
<1>. QED
  BY <1>2

\* A request that ends claims nothing.
LEMMA EndRows ==
  ASSUME TypeOK, Control, Rows, RowsGrow, NEW r \in Resumers, ResumerEnds(r)
  PROVE  \A q \in Resumers : RequestRows(resumer[q])'
<1>1. resumer' = [resumer EXCEPT ![r] = NoRequest("done")] /\ resumer'[r] = NoRequest("done")
  BY TypeParts DEF ResumerEnds
<1>2. RequestRows(resumer[r])'
  BY <1>1 DEF NoRequest, RequestRows, AfterExecute
<1>. QED
  BY <1>1, <1>2, OtherRequests

\* The request that takes a step, after it
LEMMA RequestMoves ==
  ASSUME TypeOK, NEW r \in Resumers, NEW x, resumer' = [resumer EXCEPT ![r] = x]
  PROVE  resumer'[r] = x
  BY TypeParts

\* What holds of a request, and of the indices it uses
LEMMA RequestNow ==
  ASSUME TypeOK, Control, Rows, NEW r \in Resumers
  PROVE  /\ resumer[r] \in ResumerStates /\ ResumerControl(r) /\ RequestRows(resumer[r])
         /\ Len(plan) \in Nat
         /\ resumer[r].pc \in AfterLookup => resumer[r].checkpoint \in 1 .. Len(checkpoints)
  BY TypeParts DEF Control, Rows, ResumerControl, ResumerStates

\* A request that has not executed claims nothing.
LEMMA LookedUp ==
  ASSUME TypeOK, Control, Rows, RowsGrow, NEW r \in Resumers, NEW x,
         resumer' = [resumer EXCEPT ![r] = x], x.pc \notin AfterExecute
  PROVE  \A q \in Resumers : RequestRows(resumer[q])'
<1>1. resumer'[r].pc \notin AfterExecute
  BY RequestMoves
<1>2. RequestRows(resumer[r])'
  BY <1>1 DEF RequestRows, AfterExecute
<1>. QED
  BY <1>2, OtherRequests

LEMMA LookupRows ==
  ASSUME TypeOK, Control, Rows, RowsGrow, NEW r \in Resumers,
         ResumeRead(r) \/ ResumeDetail(r) \/ CompleteTask(r) \/ CallbackDetail(r)
  PROVE  \A q \in Resumers : RequestRows(resumer[q])'
<1>1. resumer[r] \in ResumerStates
  BY RequestNow
<1>2. CASE ResumeRead(r)
  <2>1. PICK c \in 1 .. Len(checkpoints) :
          resumer' = [resumer EXCEPT ![r] =
            [resumer[r] EXCEPT !.pc = "detail", !.read = status, !.checkpoint = c]]
    BY <1>2 DEF ResumeRead
  <2>. QED
    BY <1>1, <2>1, LookedUp DEF AfterExecute, ResumerStates
<1>3. CASE CompleteTask(r)
  <2>1. PICK t \in 1 .. Len(tasks) :
          resumer' = [resumer EXCEPT ![r] = [resumer[r] EXCEPT !.pc = "callback", !.task = t]]
    BY <1>3 DEF CompleteTask
  <2>. QED
    BY <1>1, <2>1, LookedUp DEF AfterExecute, ResumerStates
<1>4. CASE ResumeDetail(r)
  <2>1. PICK st : resumer' = [resumer EXCEPT ![r] = [resumer[r] EXCEPT !.pc = "exec", !.from = st]]
    BY <1>4 DEF ResumeDetail
  <2>. QED
    BY <1>1, <2>1, LookedUp DEF AfterExecute, ResumerStates
<1>5. CASE CallbackDetail(r)
  <2>1. PICK c \in 1 .. Len(checkpoints) : \E st :
          resumer' = [resumer EXCEPT ![r] =
            [resumer[r] EXCEPT !.pc = "exec", !.read = status, !.checkpoint = c, !.from = st]]
    BY <1>5 DEF CallbackDetail
  <2>2. PICK st :
          resumer' = [resumer EXCEPT ![r] =
            [resumer[r] EXCEPT !.pc = "exec", !.read = status, !.checkpoint = c, !.from = st]]
    BY <2>1
  <2>. QED
    BY <1>1, <2>2, LookedUp DEF AfterExecute, ResumerStates
<1>. QED
  BY <1>2, <1>3, <1>4, <1>5

LEMMA ResumeExecuteRows ==
  ASSUME TypeOK, Control, Rows, RowsGrow, NEW r \in Resumers, ResumeExecute(r),
         checkpoints' = checkpoints
  PROVE  \A q \in Resumers : RequestRows(resumer[q])'
<1>1. CASE ResumerEnds(r)
  BY <1>1, EndRows
<1>2. CASE ~ResumerEnds(r)
  <2>. DEFINE next == checkpoints[resumer[r].checkpoint].next
  <2>1. resumer[r].pc = "exec" /\ resumer[r] \in ResumerStates /\ Len(plan) \in Nat
    BY RequestNow DEF ResumeExecute
  <2>2. next \in 1 .. Len(plan) + 1
    BY <2>1, RequestNow, References DEF AfterLookup
  <2>3. PICK j \in next .. Len(plan) + 1, result \in {"waiting", "failed", "completed"} :
          /\ \/ result = "waiting" /\ j <= Len(plan) /\ plan[j] \in Waiting
             \/ result = "failed" /\ j <= Len(plan) /\ plan[j] \in Invoked
             \/ result = "completed" /\ j = Len(plan) + 1
          /\ resumer' = [resumer EXCEPT ![r] =
               [resumer[r] EXCEPT !.pc = "node", !.at = next, !.stop = j, !.result = result]]
    BY <1>2 DEF ResumeExecute
  <2>. HIDE DEF next
  <2>4. resumer'[r] =
          [resumer[r] EXCEPT !.pc = "node", !.at = next, !.stop = j, !.result = result]
    BY <2>3, RequestMoves
  <2>5. /\ resumer'[r].pc = "node" /\ resumer'[r].at = next /\ resumer'[r].stop = j
        /\ resumer'[r].result = result /\ resumer'[r].checkpoint = resumer[r].checkpoint
    BY <2>1, <2>4 DEF ResumerStates
  <2>6. j \in 1 .. Len(plan) + 1 /\ next <= j /\ plan' = plan
    BY <2>1, <2>2, <2>3 DEF RowsGrow
  <2>7. OutcomeSound(resumer[r])'
    BY <2>1, <2>3, <2>5, <2>6 DEF OutcomeSound
  <2>8. checkpoints'[resumer'[r].checkpoint].next = next
    BY <2>5 DEF next
  <2>9. RequestRows(resumer[r])'
    BY <2>5, <2>6, <2>7, <2>8 DEF RequestRows
  <2>. QED
    BY <2>3, <2>9, OtherRequests
<1>. QED
  BY <1>1, <1>2

\* The node that waited has succeeded, so everything before the node the
\* execution began with has.
LEMMA ResumeNodeRows ==
  ASSUME TypeOK, Control, Rows, NEW r \in Resumers, ResumeNode(r)
  PROVE  RowsGrow /\ checkpoints' = checkpoints /\ \A q \in Resumers : RequestRows(resumer[q])'
<1>. DEFINE c == resumer[r].checkpoint
            n == checkpoints[c].nodeRun
<1>1. /\ plan' = plan /\ checkpoints' = checkpoints /\ resumer[r].pc = "node"
      /\ resumer[r] \in ResumerStates /\ RequestRows(resumer[r])
      /\ c \in 1 .. Len(checkpoints) /\ n \in NodeRunIds
  BY RequestNow, References DEF ResumeNode, fixed, AfterLookup
<1>2. CASE ResumerEnds(r) /\ nodeRuns' = nodeRuns
  BY <1>1, <1>2, EndRows, RowsSame
<1>3. CASE SetNodeRun(n, "succeeded") /\ ResumerTo(r, "traces")
  <2>1. RowsGrow /\ n \in NodeRunIds' /\ nodeRuns'[n].node = nodeRuns[n].node
        /\ nodeRuns'[n].status = "succeeded"
    <3>. HIDE DEF n
    <3>. QED
      BY <1>1, <1>3, NodeRunUpdated DEF NodeStatuses
  <2>2. resumer' = [resumer EXCEPT ![r] = [resumer[r] EXCEPT !.pc = "traces"]]
    BY <1>3 DEF ResumerTo
  <2>3. resumer'[r] = [resumer[r] EXCEPT !.pc = "traces"]
    BY <2>2, RequestMoves
  <2>4. /\ resumer'[r].pc = "traces" /\ resumer'[r].at = resumer[r].at
        /\ resumer'[r].stop = resumer[r].stop /\ resumer'[r].result = resumer[r].result
        /\ resumer'[r].run = resumer[r].run
    BY <1>1, <2>3 DEF ResumerStates
  <2>5. /\ resumer[r].at = checkpoints[c].next /\ resumer[r].at <= resumer[r].stop
        /\ resumer[r].at \in Nat /\ resumer[r].stop \in Nat
        /\ OutcomeSound(resumer[r])
    BY <1>1 DEF RequestRows, ResumerStates, AfterExecute
  <2>6. CheckpointSound(c) /\ NodeOf(c) \in Nat
    BY <1>1, References DEF Rows, CheckpointsSound, NodeOf
  <2>7. PICK k \in Nat : k = NodeOf(c)
    BY <2>6
  <2>8. DoneBefore(k)' /\ Done(k)'
    BY <1>1, <2>1, <2>6, <2>7, DoneBeforeKept DEF CheckpointSound, Done, NodeOf
  <2>9. resumer[r].at = k + 1
    BY <2>5, <2>6, <2>7 DEF CheckpointSound
  <2>10. \A m \in 1 .. k : Done(m)'
    <3>1. \A m \in 1 .. k : m \in 1 .. k - 1 \/ m = k
      OBVIOUS
    <3>. QED
      BY <2>8, <3>1 DEF DoneBefore
  <2>11. \A m \in 1 .. resumer'[r].at - 1 : Done(m)'
    BY <2>4, <2>9, <2>10
  <2>12. OutcomeSound(resumer[r])'
    BY <1>1, <2>4, <2>5 DEF OutcomeSound
  <2>13. RequestRows(resumer[r])'
    BY <2>4, <2>5, <2>11, <2>12 DEF RequestRows
  <2>. QED
    BY <1>1, <2>1, <2>2, <2>13, OtherRequests
<1>. QED
  BY <1>2, <1>3 DEF ResumeNode

LEMMA ResumeTraceRows ==
  ASSUME TypeOK, Control, Rows, NEW r \in Resumers, ResumeTrace(r)
  PROVE  RowsGrow /\ checkpoints' = checkpoints /\ \A q \in Resumers : RequestRows(resumer[q])'
<1>1. /\ plan' = plan /\ checkpoints' = checkpoints /\ resumer[r].pc = "traces"
      /\ resumer[r] \in ResumerStates /\ RequestRows(resumer[r]) /\ ResumerControl(r)
      /\ Len(nodeRuns) \in Nat /\ Len(plan) \in Nat
  BY RequestNow, TypeParts DEF ResumeTrace, fixed
<1>2. PICK n \in 1 .. Len(plan) : n = resumer[r].at
  BY <1>1 DEF ResumeTrace, ResumerControl, AfterExecute, ResumerStates, LastTrace
<1>3. /\ n <= resumer[r].stop /\ resumer[r].stop \in Nat /\ OutcomeSound(resumer[r])
      /\ \A m \in 1 .. n - 1 : m < resumer[r].stop => Done(m)
  BY <1>1, <1>2 DEF ResumeTrace, LastTrace, RequestRows, OutcomeSound, AfterExecute,
     ResumerStates
<1>4. CASE /\ nodeRuns' = Append(nodeRuns, [node |-> n, status |-> "running"])
           /\ ResumerEnds(r)
  <2>1. [node |-> n, status |-> "running"] \in NodeRows
    BY DEF NodeRows, NodeStatuses
  <2>. QED
    BY <1>1, <1>4, <2>1, NodeRunCreated, EndRows
<1>5. CASE /\ nodeRuns' = Append(nodeRuns, [node |-> n, status |-> TraceStatus(r, n)])
           /\ resumer' = [resumer EXCEPT ![r] =
                            [resumer[r] EXCEPT !.at = n + 1, !.run = Len(nodeRuns) + 1]]
  <2>1. [node |-> n, status |-> TraceStatus(r, n)] \in NodeRows
    BY DEF NodeRows, NodeStatuses, TraceStatus, WaitingStatus
  <2>2. PICK new \in Nat : new = Len(nodeRuns) + 1
    BY <1>1
  <2>3. /\ RowsGrow /\ new \in NodeRunIds'
        /\ nodeRuns'[new].node = n /\ nodeRuns'[new].status = TraceStatus(r, n)
    BY <1>1, <1>5, <2>1, <2>2, NodeRunCreated
  <2>4. resumer'[r] = [resumer[r] EXCEPT !.at = n + 1, !.run = Len(nodeRuns) + 1]
    BY <1>5, RequestMoves
  <2>5. /\ resumer'[r].pc = "traces" /\ resumer'[r].at = n + 1
        /\ resumer'[r].stop = resumer[r].stop /\ resumer'[r].result = resumer[r].result
        /\ resumer'[r].run = new
    BY <1>1, <2>2, <2>4 DEF ResumerStates
  <2>6. n < resumer[r].stop => Done(n)'
    BY <2>3 DEF Done, TraceStatus
  <2>7. \A m \in 1 .. n - 1 : m < resumer[r].stop => Done(m)'
    BY <1>3, <2>3, DoneKept
  <2>8. \A m \in 1 .. n : m < resumer[r].stop => Done(m)'
    <3>1. \A m \in 1 .. n : m \in 1 .. n - 1 \/ m = n
      OBVIOUS
    <3>. QED
      BY <2>6, <2>7, <3>1
  <2>9. \A m \in 1 .. resumer'[r].at - 1 : m < resumer'[r].stop => Done(m)'
    BY <2>5, <2>8
  <2>10. OutcomeSound(resumer[r])'
    BY <1>1, <1>3, <2>5 DEF OutcomeSound
  <2>11. RequestRows(resumer[r])'
    BY <1>3, <2>3, <2>5, <2>9, <2>10 DEF RequestRows
  <2>. QED
    BY <1>1, <1>5, <2>3, <2>11, OtherRequests
<1>. QED
  BY <1>2, <1>4, <1>5 DEF ResumeTrace

LEMMA TracesEndRows ==
  ASSUME TypeOK, Control, Rows, RowsGrow, NEW r \in Resumers, ResumeTracesEnd(r)
  PROVE  \A q \in Resumers : RequestRows(resumer[q])'
<1>1. /\ plan' = plan /\ nodeRuns' = nodeRuns /\ resumer[r].pc = "traces"
      /\ resumer[r] \in ResumerStates /\ RequestRows(resumer[r]) /\ Len(plan) \in Nat
      /\ resumer[r].at > LastTrace(r) /\ ResumerControl(r)
  BY RequestNow DEF ResumeTracesEnd, fixed, durable
<1>2. PICK pc \in {"checkpoint", "finish"} :
        /\ resumer' = [resumer EXCEPT ![r] = [resumer[r] EXCEPT !.pc = pc]]
        /\ IF resumer[r].result = "waiting" THEN pc = "checkpoint" ELSE pc = "finish"
  BY DEF ResumeTracesEnd, ResumerTo
<1>3. /\ resumer'[r].pc = pc /\ resumer'[r].stop = resumer[r].stop
      /\ resumer'[r].result = resumer[r].result /\ resumer'[r].run = resumer[r].run
  <2>1. resumer'[r] = [resumer[r] EXCEPT !.pc = pc]
    BY <1>2, RequestMoves
  <2>. QED
    BY <2>1, <1>1 DEF ResumerStates
<1>4. /\ OutcomeSound(resumer[r]) /\ resumer[r].at \in Nat /\ resumer[r].stop \in Nat
      /\ resumer[r].at >= resumer[r].stop
      /\ resumer[r].result = "waiting" => nodeRuns[resumer[r].run].node = resumer[r].stop
  BY <1>1 DEF RequestRows, OutcomeSound, AfterExecute, LastTrace, ResumerStates
<1>5. \A m \in 1 .. resumer[r].stop - 1 : Done(m)'
  <2>1. \A m \in 1 .. resumer[r].stop - 1 : m \in 1 .. resumer[r].at - 1 /\ m < resumer[r].stop
    BY <1>4
  <2>. QED
    BY <1>1, <2>1, DoneKept DEF RequestRows
<1>6. DoneBefore(resumer[r].stop)' /\ OutcomeSound(resumer[r])'
  BY <1>1, <1>3, <1>4, <1>5 DEF DoneBefore, OutcomeSound
<1>7. RequestRows(resumer[r])'
  BY <1>1, <1>2, <1>3, <1>4, <1>6 DEF RequestRows
<1>. QED
  BY <1>2, <1>7, OtherRequests

LEMMA ResumeCheckpointRows ==
  ASSUME TypeOK, Control, Rows, NEW r \in Resumers, ResumeCheckpoint(r)
  PROVE  RowsGrow /\ CheckpointsSound' /\ \A q \in Resumers : RequestRows(resumer[q])'
<1>1. /\ plan' = plan /\ nodeRuns' = nodeRuns /\ resumer[r].pc = "checkpoint"
      /\ resumer[r] \in ResumerStates /\ RequestRows(resumer[r]) /\ ResumerControl(r)
  BY RequestNow DEF ResumeCheckpoint, fixed
<1>2. /\ resumer[r].result = "waiting" /\ resumer[r].run \in NodeRunIds
      /\ OutcomeSound(resumer[r]) /\ nodeRuns[resumer[r].run].node = resumer[r].stop
      /\ DoneBefore(resumer[r].stop)
  BY <1>1 DEF ResumerControl, ResumerStates, RequestRows, AfterExecute
<1>3. PICK n \in 1 .. Len(plan), run \in NodeRunIds :
        n = resumer[r].stop /\ run = resumer[r].run /\ plan[n] \in Waiting
  BY <1>2 DEF OutcomeSound
<1>4. RowsGrow /\ CheckpointsSound' /\ CheckpointFor(n)'
  BY <1>1, <1>2, <1>3, CheckpointStored DEF ResumeCheckpoint, Rows
<1>5. PICK pc \in {"task", "finish"} :
        resumer' = [resumer EXCEPT ![r] = [resumer[r] EXCEPT !.pc = pc]]
  BY DEF ResumeCheckpoint, ResumerTo
<1>6. /\ resumer'[r].pc = pc /\ resumer'[r].stop = n
      /\ resumer'[r].result = resumer[r].result /\ resumer'[r].run = resumer[r].run
  <2>1. resumer'[r] = [resumer[r] EXCEPT !.pc = pc]
    BY <1>5, RequestMoves
  <2>. QED
    BY <2>1, <1>1, <1>3 DEF ResumerStates
<1>7. DoneBefore(n)'
  BY <1>2, <1>3, <1>4, DoneBeforeKept
<1>8. DoneBefore(resumer[r].stop)' /\ OutcomeSound(resumer[r])' /\ CheckpointFor(resumer[r].stop)'
  BY <1>1, <1>2, <1>3, <1>4, <1>6, <1>7 DEF DoneBefore, OutcomeSound, CheckpointFor
<1>9. RequestRows(resumer[r])'
  BY <1>1, <1>2, <1>3, <1>6, <1>8 DEF RequestRows
<1>. QED
  BY <1>4, <1>5, <1>9, OtherRequests

LEMMA ResumeCreateTaskRows ==
  ASSUME TypeOK, Control, Rows, RowsGrow, NEW r \in Resumers, ResumeCreateTask(r)
  PROVE  \A q \in Resumers : RequestRows(resumer[q])'
<1>1. /\ plan' = plan /\ resumer[r].pc = "task"
      /\ resumer[r] \in ResumerStates /\ RequestRows(resumer[r])
  BY RequestNow DEF ResumeCreateTask, fixed
<1>2. resumer' = [resumer EXCEPT ![r] = [resumer[r] EXCEPT !.pc = "finish"]]
  BY DEF ResumeCreateTask, ResumerTo
<1>3. /\ resumer'[r].pc = "finish" /\ resumer'[r].stop = resumer[r].stop
      /\ resumer'[r].result = resumer[r].result
  <2>1. resumer'[r] = [resumer[r] EXCEPT !.pc = "finish"]
    BY <1>2, RequestMoves
  <2>. QED
    BY <2>1, <1>1 DEF ResumerStates
<1>4. PICK n : n = resumer[r].stop
  OBVIOUS
<1>5. DoneBefore(n)' /\ CheckpointFor(n)' /\ OutcomeSound(resumer[r])
  BY <1>1, <1>4, DoneBeforeKept, CheckpointForKept DEF RequestRows, AfterExecute
<1>6. DoneBefore(resumer[r].stop)' /\ OutcomeSound(resumer[r])' /\ CheckpointFor(resumer[r].stop)'
  BY <1>1, <1>3, <1>4, <1>5 DEF DoneBefore, OutcomeSound, CheckpointFor
<1>7. RequestRows(resumer[r])'
  BY <1>3, <1>6 DEF RequestRows
<1>. QED
  BY <1>2, <1>7, OtherRequests

\* The status a request writes is one its rows account for.
LEMMA OutcomeRows ==
  ASSUME TypeOK, Control, Rows, RowsGrow, NEW r \in Resumers, ResumeStep(r)
  PROVE  StatusRows'
<1>1. /\ plan' = plan /\ resumer[r] \in ResumerStates /\ RequestRows(resumer[r])
      /\ ResumerControl(r) /\ Len(plan) \in Nat
  BY RequestNow DEF RowsGrow
<1>2. CASE status' = status
  BY <1>2, StatusKept DEF Rows
<1>3. CASE resumer[r].pc = "finish" /\ status' = OutcomeStatus(r)
  <2>1. OutcomeSound(resumer[r]) /\ DoneBefore(resumer[r].stop) /\ resumer[r].result # "none"
    BY <1>1, <1>3 DEF RequestRows, AfterExecute, ResumerControl
  <2>2. CASE resumer[r].result = "failed"
    BY <1>3, <2>2 DEF OutcomeStatus, StatusRows, WaitingStatuses
  <2>3. CASE resumer[r].result = "completed"
    <3>1. status' = "succeeded" /\ resumer[r].stop - 1 = Len(plan)
      BY <1>1, <1>3, <2>1, <2>3 DEF OutcomeStatus, OutcomeSound
    <3>2. \A n \in 1 .. Len(plan) : Done(n)'
      BY <2>1, <3>1, DoneKept DEF DoneBefore
    <3>. QED
      BY <1>1, <3>1, <3>2 DEF StatusRows, WaitingStatuses
  <2>4. CASE resumer[r].result = "waiting"
    <3>1. PICK n \in 1 .. Len(plan) : n = resumer[r].stop /\ plan[n] \in Waiting
      BY <2>1, <2>4 DEF OutcomeSound
    <3>2. CheckpointFor(n)'
      BY <1>1, <1>3, <2>4, <3>1, CheckpointForKept DEF RequestRows
    <3>3. status' = WaitingStatus(plan[n]) /\ status' # "succeeded"
      BY <1>3, <2>4, <3>1 DEF OutcomeStatus, WaitingStatus
    <3>. QED
      BY <1>1, <3>1, <3>2, <3>3 DEF StatusRows
  <2>. QED
    BY <1>1, <2>1, <2>2, <2>3, <2>4 DEF ResumerStates
<1>. QED
  BY <1>2, <1>3, ResumeFrame

LEMMA ResumeStepRows ==
  ASSUME TypeOK, Control, Rows, NEW r \in Resumers, ResumeStep(r),
         worker.pc = "exec" => nodeRuns' = nodeRuns
  PROVE  Rows'
<1>1. worker' = worker /\ plan' = plan
  BY ResumeFrame DEF fixed
<1>2. CASE ResumeNode(r) \/ ResumeTrace(r)
  <2>1. /\ RowsGrow /\ checkpoints' = checkpoints
        /\ \A q \in Resumers : RequestRows(resumer[q])'
    BY <1>2, ResumeNodeRows, ResumeTraceRows
  <2>2. \A c \in 1 .. Len(checkpoints) : CheckpointSound(c)'
    BY <2>1, CheckpointSoundKept DEF Rows, CheckpointsSound
  <2>. QED
    BY <1>1, <2>1, <2>2, WorkerKept, OutcomeRows DEF Rows, CheckpointsSound
<1>3. CASE ResumeCheckpoint(r)
  BY <1>1, <1>3, ResumeCheckpointRows, WorkerKept, OutcomeRows DEF Rows
<1>4. CASE ~ResumeNode(r) /\ ~ResumeTrace(r) /\ ~ResumeCheckpoint(r)
  <2>1. nodeRuns' = nodeRuns /\ checkpoints' = checkpoints
    BY <1>4 DEF ResumeStep, ResumeRead, ResumeDetail, CompleteTask, CallbackDetail,
       ResumeExecute, ResumeTracesEnd, ResumeCreateTask, ResumeFinish, ResumeFails, durable
  <2>2. RowsGrow
    BY <1>1, <2>1, RowsSame
  <2>3. \A c \in 1 .. Len(checkpoints) : CheckpointSound(c)'
    BY <2>2, CheckpointSoundKept DEF Rows, CheckpointsSound
  <2>4. ResumeFinish(r) \/ ResumeFails(r) => ResumerEnds(r)
    BY DEF ResumeFinish, ResumeFails
  <2>5. \A q \in Resumers : RequestRows(resumer[q])'
    BY <1>4, <2>1, <2>2, <2>4, LookupRows, ResumeExecuteRows, TracesEndRows,
       ResumeCreateTaskRows, EndRows DEF ResumeStep
  <2>. QED
    BY <1>1, <2>1, <2>2, <2>3, <2>5, WorkerKept, OutcomeRows DEF Rows, CheckpointsSound
<1>. QED
  BY <1>2, <1>3, <1>4

-----------------------------------------------------------------------------
LEMMA InitRows == Init => Rows
<1>. SUFFICES ASSUME Init PROVE Rows
  OBVIOUS
<1>1. checkpoints = <<>> /\ Len(checkpoints) = 0 /\ status = "queued"
  BY DEF Init
<1>2. worker.pc \in {"open", "prepare"} /\ worker.at = 1
  BY DEF Init
<1>3. \A r \in Resumers : resumer[r].pc = "idle"
  BY DEF Init, NoRequest
<1>4. WorkerRows
  BY <1>2 DEF WorkerRows, Preparing, NodeRunCalls, WaitCalls
<1>. QED
  BY <1>1, <1>3, <1>4 DEF Rows, CheckpointsSound, RequestRows, AfterExecute, StatusRows,
     WaitingStatuses

LEMMA NextRows ==
  ASSUME TypeOK, Control, Ownership, Rows, [Next]_vars
  PROVE  Rows'
<1>1. ASSUME NEW c \in Cancellers, CancelStep(c) PROVE Rows'
  <2>1. /\ plan' = plan /\ nodeRuns' = nodeRuns /\ checkpoints' = checkpoints
        /\ worker' = worker /\ resumer' = resumer
        /\ status' = status \/ status' = "cancelled"
    BY <1>1, CancelFrame DEF fixed
  <2>2. RowsGrow
    BY <2>1, RowsSame
  <2>3. StatusRows'
    <3>1. CASE status' = status
      BY <2>2, <3>1, StatusKept DEF Rows
    <3>2. CASE status' = "cancelled"
      BY <3>2 DEF StatusRows, WaitingStatuses
    <3>. QED
      BY <2>1, <3>1, <3>2
  <2>. QED
    BY <2>1, <2>2, <2>3, OthersRows, WorkerKept DEF Rows
<1>2. ASSUME NEW r \in Resumers, ResumeStep(r) PROVE Rows'
  <2>1. worker.pc # "exec"
    BY <1>2, NoRowsNoRequest DEF Ownership, Early, EarlyCalls
  <2>. QED
    BY <1>2, <2>1, ResumeStepRows
<1>3. CASE Crash
  <2>1. /\ worker \in WorkerStates /\ plan' = plan /\ nodeRuns' = nodeRuns
        /\ checkpoints' = checkpoints /\ status' = status
    BY <1>3, TypeParts DEF Crash, fixed, durable
  <2>2. RowsGrow
    BY <2>1, RowsSame
  <2>3. worker'.pc = "done" /\ \A r \in Resumers : resumer'[r].pc \in {"idle", "done"}
    BY <1>3, <2>1 DEF Crash, WorkerStates, NoRequest
  <2>4. WorkerRows' /\ \A r \in Resumers : RequestRows(resumer[r])'
    BY <2>3, ElsewhereRows DEF Elsewhere, RequestRows, AfterExecute
  <2>5. \A c \in 1 .. Len(checkpoints) : CheckpointSound(c)'
    BY <2>2, CheckpointSoundKept DEF Rows, CheckpointsSound
  <2>. QED
    BY <2>1, <2>2, <2>4, <2>5, StatusKept DEF Rows, CheckpointsSound
<1>4. CASE UNCHANGED vars
  <2>1. /\ plan' = plan /\ nodeRuns' = nodeRuns /\ checkpoints' = checkpoints
        /\ status' = status /\ worker' = worker /\ resumer' = resumer
    BY <1>4 DEF vars, fixed, durable, requests
  <2>2. RowsGrow
    BY <2>1, RowsSame
  <2>. QED
    BY <2>1, <2>2, OthersRows, WorkerKept, StatusKept DEF Rows
<1>. QED
  BY <1>1, <1>2, <1>3, <1>4, WorkerStepRows DEF Next

LEMMA RowsAlways == Spec => [](TypeOK /\ Rows)
<1>1. TypeOK /\ Control /\ Ownership /\ Rows /\ [Next]_vars => Rows'
  BY NextRows
<1>. QED
  BY <1>1, InitRows, OwnershipAlways, PTL DEF Spec

\* A run that waits has a checkpoint behind a node of the kind it waits for,
\* whichever worker, resume or callback set it waiting and whatever failed.
THEOREM WaitingRunsResumable == Spec => []WaitingHasCheckpoint
<1>1. TypeOK /\ Rows => WaitingHasCheckpoint
  <2>. SUFFICES ASSUME TypeOK, Rows, status \in WaitingStatuses
                PROVE  \E c \in 1 .. Len(checkpoints) :
                         /\ plan[NodeOf(c)] \in Waiting
                         /\ WaitingStatus(plan[NodeOf(c)]) = status
                         /\ checkpoints[c].next = NodeOf(c) + 1
    BY DEF WaitingHasCheckpoint, NodeOf
  <2>1. PICK n \in 1 .. Len(plan) :
          plan[n] \in Waiting /\ WaitingStatus(plan[n]) = status /\ CheckpointFor(n)
    BY DEF Rows, StatusRows
  <2>2. PICK c \in 1 .. Len(checkpoints) : NodeOf(c) = n
    BY <2>1 DEF CheckpointFor
  <2>. QED
    BY <2>1, <2>2 DEF Rows, CheckpointsSound, CheckpointSound
<1>. QED
  BY <1>1, RowsAlways, PTL

\* Only a run whose every node has a node run that succeeded is reported as
\* succeeded, however many workers and requests had a part in it.
THEOREM SuccessIsComplete == Spec => []SucceededCoversPlan
<1>1. Rows => SucceededCoversPlan
  BY DEF Rows, StatusRows, SucceededCoversPlan
<1>. QED
  BY <1>1, RowsAlways, PTL
=============================================================================
