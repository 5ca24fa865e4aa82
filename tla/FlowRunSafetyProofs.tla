------------------------ MODULE FlowRunSafetyProofs ------------------------
(***************************************************************************)
(* The safety properties of FlowRun, for every set of plans, every number  *)
(* of requests and every number of failures and restarts.                  *)
(***************************************************************************)
EXTENDS FlowRunProofs

-----------------------------------------------------------------------------
(***************************************************************************)
(* Who may touch the run when.  Until its plan is attached the run is a    *)
(* shell: it has no rows and its worker is preparing it.  Until the worker *)
(* has created a checkpoint nobody but it and the cancel requests writes   *)
(* to the run.                                                             *)
(***************************************************************************)
ShellCalls == {"open", "prepare", "compile", "attach", "failQueued", "emit", "close", "fallback",
               "done"}

ShellState ==
  /\ status \in {"queued", "failed", "cancelled"}
  /\ nodeRuns = <<>> /\ checkpoints = <<>> /\ tasks = <<>>
  /\ worker.pc \in ShellCalls
  /\ worker.pc \in {"emit", "close"} => worker.why \in {"queued", "fallback"}

Shell == ~attached => ShellState

EarlyCalls == {"started", "continue", "loop", "create", "exec", "checkSucceeded", "checkFailed",
               "checkWaiting", "failNode", "checkpoint", "succeed"}

Early ==
  worker.pc \in EarlyCalls =>
    status \in {"running", "cancelled"} /\ checkpoints = <<>> /\ tasks = <<>>

\* A cancel writes only over a status that had not ended, and once it has
\* written, only a run whose plan is attached leaves the status again.
CancelControl(c) ==
  /\ canceller[c].pc = "cas" => canceller[c].read \notin TerminalStatuses
  /\ canceller[c].pc \in {"emit", "close"} => attached \/ status = "cancelled"

Ownership == Shell /\ Early /\ \A c \in Cancellers : CancelControl(c)

\* The worker's actions by name
LEMMA WorkerCases ==
  ASSUME WorkerStep
  PROVE  \/ WorkerOpenStream \/ WorkerPrepare \/ WorkerCompile \/ WorkerAttach
         \/ WorkerFailQueued \/ WorkerStarted \/ WorkerContinue \/ WorkerLoop
         \/ WorkerCreateNodeRun \/ WorkerExecute \/ WorkerNodeError \/ WorkerCheckCancelled
         \/ WorkerFailNode \/ WorkerCheckpoint \/ WorkerCreateTask \/ WorkerWait
         \/ WorkerSucceed \/ WorkerReturn \/ WorkerCallFails \/ WorkerFailRead
         \/ WorkerFailWrite \/ WorkerEmit \/ WorkerClose \/ WorkerFallback
  BY DEF WorkerStep

\* A request needs a checkpoint or a task.
LEMMA NoRowsNoRequest ==
  ASSUME TypeOK, Control, NEW r \in Resumers, ResumeStep(r)
  PROVE  checkpoints # <<>> \/ tasks # <<>>
<1>. SUFFICES ASSUME checkpoints = <<>>, tasks = <<>> PROVE FALSE
  OBVIOUS
<1>1. Len(checkpoints) = 0 /\ Len(tasks) = 0
  OBVIOUS
<1>2. resumer[r] \in ResumerStates /\ ResumerControl(r)
  BY TypeParts DEF Control
<1>3. resumer[r].checkpoint = 0 /\ resumer[r].task = 0
  BY <1>1, <1>2 DEF ResumerStates
<1>4. resumer[r].pc \in {"idle", "done"}
  BY <1>2, <1>3 DEF ResumerStates, ResumerPcs, ResumerControl, AfterLookup
<1>5. ~ResumeRead(r) /\ ~CompleteTask(r)
  BY <1>1 DEF ResumeRead, CompleteTask
<1>6. /\ ~ResumeDetail(r) /\ ~CallbackDetail(r) /\ ~ResumeExecute(r) /\ ~ResumeNode(r)
      /\ ~ResumeTrace(r) /\ ~ResumeTracesEnd(r) /\ ~ResumeCheckpoint(r)
      /\ ~ResumeCreateTask(r) /\ ~ResumeFinish(r) /\ ~ResumeFails(r)
  BY <1>4 DEF ResumeDetail, CallbackDetail, ResumeExecute, ResumeNode, ResumeTrace,
     ResumeTracesEnd, ResumeCheckpoint, ResumeCreateTask, ResumeFinish, ResumeFails
<1>. QED
  BY <1>5, <1>6 DEF ResumeStep

\* Steps of the worker on a shell
LEMMA ShellStep ==
  ASSUME TypeOK, Control, Ownership, WorkerStep \/ WorkerDropped
  PROVE  Shell'
<1>. SUFFICES ASSUME ~attached' PROVE ShellState'
  BY DEF Shell
<1>1. ~attached /\ worker \in WorkerStates
  BY TypeParts, WorkerCases DEF durable, WorkerOpenStream, WorkerPrepare, WorkerCompile,
     WorkerAttach, WorkerFailQueued, WorkerStarted, WorkerContinue, WorkerLoop,
     WorkerCreateNodeRun, WorkerExecute, WorkerNodeError, WorkerCheckCancelled, WorkerFailNode,
     WorkerCheckpoint, WorkerCreateTask, WorkerWait, WorkerSucceed, WorkerReturn,
     WorkerCallFails, WorkerFailRead, WorkerFailWrite, WorkerEmit, WorkerClose, WorkerFallback,
     WorkerDropped
<1>2. ShellState
  BY <1>1 DEF Ownership, Shell
<1>3. CASE WorkerDropped
  BY <1>1, <1>2, <1>3 DEF WorkerDropped, durable, Goto, WorkerStates, ShellState,
     ShellCalls
<1>4. CASE WorkerOpenStream \/ WorkerPrepare \/ WorkerCompile \/ WorkerAttach
  BY <1>1, <1>2, <1>4 DEF WorkerOpenStream, WorkerPrepare, WorkerCompile, WorkerAttach, durable,
     Goto, EndWithError, WorkerStates, ShellState, ShellCalls
<1>5. CASE WorkerFailQueued \/ WorkerFallback
  BY <1>1, <1>2, <1>5 DEF WorkerFailQueued, WorkerFallback, durable, Goto, EndWithError,
     EmitBecause, WorkerStates, ShellState, ShellCalls
<1>6. CASE WorkerEmit \/ WorkerClose
  BY <1>1, <1>2, <1>6 DEF WorkerEmit, WorkerClose, durable, Goto, EndWithError, WorkerStates,
     ShellState, ShellCalls
<1>7. \/ WorkerOpenStream \/ WorkerPrepare \/ WorkerCompile \/ WorkerAttach
      \/ WorkerFailQueued \/ WorkerFallback \/ WorkerEmit \/ WorkerClose \/ WorkerDropped
  BY <1>2, WorkerCases DEF ShellState, ShellCalls, InnerCalls, WorkerStarted, WorkerContinue, WorkerLoop,
     WorkerCreateNodeRun, WorkerExecute, WorkerNodeError, WorkerCheckCancelled, WorkerFailNode,
     WorkerCheckpoint, WorkerCreateTask, WorkerWait, WorkerSucceed, WorkerReturn,
     WorkerCallFails, WorkerFailRead, WorkerFailWrite
<1>. QED
  BY <1>3, <1>4, <1>5, <1>6, <1>7

LEMMA InitOwnership == Init => Ownership
  BY DEF Init, Ownership, Shell, ShellState, ShellCalls, Early, EarlyCalls, CancelControl

\* What a step of the worker leaves alone
LEMMA WorkerFrame ==
  ASSUME WorkerStep \/ WorkerDropped
  PROVE  fixed' = fixed /\ canceller' = canceller /\ resumer' = resumer
  BY WorkerCases DEF requests, WorkerOpenStream, WorkerPrepare, WorkerCompile, WorkerAttach,
     WorkerFailQueued, WorkerStarted, WorkerContinue, WorkerLoop, WorkerCreateNodeRun,
     WorkerExecute, WorkerNodeError, WorkerCheckCancelled, WorkerFailNode, WorkerCheckpoint,
     WorkerCreateTask, WorkerWait, WorkerSucceed, WorkerReturn, WorkerCallFails, WorkerFailRead,
     WorkerFailWrite, WorkerEmit, WorkerClose, WorkerFallback, WorkerDropped

\* A run that ended as a shell keeps its status, whatever its worker does.
LEMMA EndedShellStep ==
  ASSUME TypeOK, Ownership, WorkerStep \/ WorkerDropped, ~attached, status # "queued"
  PROVE  status' = status /\ ~attached' /\ nodeRuns' = nodeRuns
<1>1. ShellState /\ worker \in WorkerStates
  BY TypeParts DEF Ownership, Shell
<1>2. \/ WorkerOpenStream \/ WorkerPrepare \/ WorkerCompile \/ WorkerAttach
      \/ WorkerFailQueued \/ WorkerFallback \/ WorkerEmit \/ WorkerClose \/ WorkerDropped
  BY <1>1, WorkerCases DEF ShellState, ShellCalls, InnerCalls, WorkerStarted, WorkerContinue,
     WorkerLoop, WorkerCreateNodeRun, WorkerExecute, WorkerNodeError, WorkerCheckCancelled,
     WorkerFailNode, WorkerCheckpoint, WorkerCreateTask, WorkerWait, WorkerSucceed,
     WorkerReturn, WorkerCallFails, WorkerFailRead, WorkerFailWrite
<1>. QED
  BY <1>2 DEF WorkerOpenStream, WorkerPrepare, WorkerCompile, WorkerAttach, WorkerFailQueued,
     WorkerFallback, WorkerEmit, WorkerClose, WorkerDropped, durable

LEMMA AttachedStays ==
  ASSUME WorkerStep \/ WorkerDropped, attached
  PROVE  attached'
  BY WorkerCases DEF durable, WorkerOpenStream, WorkerPrepare, WorkerCompile, WorkerAttach,
     WorkerFailQueued, WorkerStarted, WorkerContinue, WorkerLoop, WorkerCreateNodeRun,
     WorkerExecute, WorkerNodeError, WorkerCheckCancelled, WorkerFailNode, WorkerCheckpoint,
     WorkerCreateTask, WorkerWait, WorkerSucceed, WorkerReturn, WorkerCallFails, WorkerFailRead,
     WorkerFailWrite, WorkerEmit, WorkerClose, WorkerFallback, WorkerDropped

\* Only a successful attach makes the worker the owner of the rows, and while it
\* is, it does not write the status.
LEMMA OnlyAttachStarts ==
  ASSUME TypeOK, WorkerStep \/ WorkerDropped, ~WorkerAttach, worker'.pc \in EarlyCalls
  PROVE  worker.pc \in EarlyCalls /\ status' = status
<1>1. worker \in WorkerStates
  BY TypeParts
<1>. QED
  BY <1>1, WorkerCases DEF EarlyCalls, InnerCalls, Goto, EndWithError, FailRunBecause,
     EmitBecause, NextNode, WorkerStates, durable, WorkerOpenStream, WorkerPrepare,
     WorkerCompile, WorkerFailQueued, WorkerStarted, WorkerContinue, WorkerLoop,
     WorkerCreateNodeRun, WorkerExecute, WorkerNodeError, WorkerCheckCancelled, WorkerFailNode,
     WorkerCheckpoint, WorkerCreateTask, WorkerWait, WorkerSucceed, WorkerReturn,
     WorkerCallFails, WorkerFailRead, WorkerFailWrite, WorkerEmit, WorkerClose, WorkerFallback,
     WorkerDropped

LEMMA EarlyStep ==
  ASSUME TypeOK, Ownership, WorkerStep \/ WorkerDropped
  PROVE  Early'
<1>. SUFFICES ASSUME worker'.pc \in EarlyCalls
              PROVE  /\ status' \in {"running", "cancelled"}
                     /\ checkpoints' = <<>> /\ tasks' = <<>>
  BY DEF Early
<1>1. worker \in WorkerStates
  BY TypeParts
<1>2. CASE WorkerAttach
  BY <1>1, <1>2 DEF Ownership, Shell, ShellState, WorkerAttach, Goto, WorkerStates, EarlyCalls
<1>3. CASE ~WorkerAttach
  <2>1. worker.pc \in EarlyCalls /\ status' = status
    BY <1>3, OnlyAttachStarts
  <2>2. checkpoints' = checkpoints /\ tasks' = tasks
    BY <1>1, <1>3, <2>1, WorkerCases DEF EarlyCalls, InnerCalls, Goto, EndWithError,
     FailRunBecause, EmitBecause, NextNode, WorkerStates, durable, WorkerOpenStream,
     WorkerPrepare, WorkerCompile, WorkerFailQueued, WorkerStarted, WorkerContinue, WorkerLoop,
     WorkerCreateNodeRun, WorkerExecute, WorkerNodeError, WorkerCheckCancelled, WorkerFailNode,
     WorkerCheckpoint, WorkerCreateTask, WorkerWait, WorkerSucceed, WorkerReturn,
     WorkerCallFails, WorkerFailRead, WorkerFailWrite, WorkerEmit, WorkerClose, WorkerFallback,
     WorkerDropped
  <2>. QED
    BY <2>1, <2>2 DEF Ownership, Early
<1>. QED
  BY <1>2, <1>3

LEMMA WorkerOwnership ==
  ASSUME TypeOK, Control, Ownership, WorkerStep \/ WorkerDropped
  PROVE  Ownership'
<1>1. ASSUME NEW c \in Cancellers PROVE CancelControl(c)'
  <2>1. CancelControl(c) /\ canceller' = canceller
    BY WorkerFrame DEF Ownership
  <2>2. CASE attached
    BY <2>1, <2>2, AttachedStays DEF CancelControl
  <2>3. CASE ~attached /\ status = "cancelled"
    BY <2>1, <2>3, EndedShellStep DEF CancelControl
  <2>4. CASE canceller[c].pc \notin {"emit", "close"}
    BY <2>1, <2>4 DEF CancelControl
  <2>. QED
    BY <2>1, <2>2, <2>3, <2>4 DEF CancelControl
<1>. QED
  BY <1>1, ShellStep, EarlyStep DEF Ownership

\* What a cancel request leaves alone, and when it writes the status
LEMMA CancelFrame ==
  ASSUME TypeOK, NEW c \in Cancellers, CancelStep(c)
  PROVE  /\ fixed' = fixed /\ attached' = attached /\ nodeRuns' = nodeRuns
         /\ checkpoints' = checkpoints /\ tasks' = tasks /\ worker' = worker
         /\ resumer' = resumer /\ late' = late /\ opened' = opened
         /\ \A d \in Cancellers \ {c} : canceller'[d] = canceller[d]
         /\ \/ status' = status
            \/ canceller[c].pc = "cas" /\ status = canceller[c].read /\ status' = "cancelled"
  BY TypeParts DEF CancelStep, CancelRead, CancelWrite, CancelEmit, CancelClose, CancelFails,
     CancellerTo, durable, stream

LEMMA CancelOwnership ==
  ASSUME TypeOK, Ownership, NEW c \in Cancellers, CancelStep(c)
  PROVE  Ownership'
<1>1. Shell' /\ Early'
  BY CancelFrame DEF Ownership, Shell, ShellState, Early
<1>2. ASSUME NEW d \in Cancellers PROVE CancelControl(d)'
  <2>1. CASE d # c
    BY <2>1, CancelFrame DEF Ownership, CancelControl
  <2>2. CASE d = c
    <3>1. /\ canceller \in [Cancellers -> [pc : CancellerPcs, read : FlowStatuses]]
          /\ canceller[c] \in [pc : CancellerPcs, read : FlowStatuses]
      BY TypeParts
    <3>2. CASE CancelRead(c)
      BY <2>2, <3>1, <3>2 DEF CancelRead, CancelControl, FlowTransitionAllowed,
         TerminalStatuses, WaitingStatuses
    <3>3. CASE CancelWrite(c) \/ CancelClose(c) \/ CancelFails(c)
      BY <2>2, <3>1, <3>3 DEF CancelWrite, CancelClose, CancelFails, CancelControl, CancellerTo
    <3>4. CASE CancelEmit(c)
      BY <2>2, <3>1, <3>4 DEF CancelEmit, CancelControl, CancellerTo, Ownership, durable
    <3>. QED
      BY <3>2, <3>3, <3>4 DEF CancelStep
  <2>. QED
    BY <2>1, <2>2
<1>. QED
  BY <1>1, <1>2 DEF Ownership

\* What a resume or callback request leaves alone, and when it writes the status
LEMMA ResumeFrame ==
  ASSUME TypeOK, NEW r \in Resumers, ResumeStep(r)
  PROVE  /\ fixed' = fixed /\ attached' = attached /\ worker' = worker
         /\ canceller' = canceller /\ stream' = stream /\ late' = late
         /\ \/ status' = status
            \/ /\ resumer[r].pc = "finish"
               /\ FlowTransitionAllowed(resumer[r].read, OutcomeStatus(r))
               /\ status' = OutcomeStatus(r)
  BY DEF ResumeStep, ResumeRead, ResumeDetail, CompleteTask, CallbackDetail, ResumeExecute,
     ResumeNode, ResumeTrace, ResumeTracesEnd, ResumeCheckpoint, ResumeCreateTask, ResumeFinish,
     ResumeFails, durable

LEMMA ResumeOwnership ==
  ASSUME TypeOK, Control, Ownership, NEW r \in Resumers, ResumeStep(r)
  PROVE  Ownership'
<1>1. attached /\ worker.pc \notin EarlyCalls
  BY NoRowsNoRequest DEF Ownership, Shell, ShellState, Early
<1>. QED
  BY <1>1, ResumeFrame DEF Ownership, Shell, Early, CancelControl

LEMMA CrashOwnership ==
  ASSUME TypeOK, Ownership, Crash
  PROVE  Ownership'
<1>1. worker \in WorkerStates
      /\ canceller \in [Cancellers -> [pc : CancellerPcs, read : FlowStatuses]]
  BY TypeParts
<1>2. Shell' /\ Early'
  BY <1>1 DEF Crash, Ownership, Shell, ShellState, ShellCalls, Early, EarlyCalls, durable,
     WorkerStates
<1>3. ASSUME NEW c \in Cancellers PROVE CancelControl(c)'
  BY <1>1 DEF Crash, CancelControl
<1>. QED
  BY <1>2, <1>3 DEF Ownership

LEMMA NextOwnership ==
  ASSUME TypeOK, Control, Ownership, [Next]_vars
  PROVE  Ownership'
<1>1. CASE UNCHANGED vars
  BY <1>1 DEF vars, fixed, durable, stream, requests, Ownership, Shell, ShellState, Early,
     CancelControl
<1>. QED
  BY <1>1, WorkerOwnership, CancelOwnership, ResumeOwnership, CrashOwnership DEF Next

LEMMA OwnershipAlways == Spec => [](TypeOK /\ Control /\ Ownership)
<1>1. Init => TypeOK /\ Control /\ Ownership
  BY InitTypes, InitOwnership
<1>2. TypeOK /\ Control /\ Ownership /\ [Next]_vars => (TypeOK /\ Control /\ Ownership)'
  BY NextTypes, NextOwnership
<1>. QED
  BY <1>1, <1>2, PTL DEF Spec

-----------------------------------------------------------------------------
LEMMA EndedShellIsFinalStep ==
  ASSUME TypeOK, Control, Ownership, [Next]_vars, ~attached, status \in TerminalStatuses
  PROVE  nodeRuns' = <<>> /\ ~attached' /\ status' = status
<1>1. ShellState /\ status # "queued"
  BY DEF Ownership, Shell, TerminalStatuses
<1>2. CASE WorkerStep \/ WorkerDropped
  BY <1>1, <1>2, EndedShellStep DEF ShellState
<1>3. ASSUME NEW c \in Cancellers, CancelStep(c)
      PROVE  nodeRuns' = <<>> /\ ~attached' /\ status' = status
  BY <1>1, <1>3, CancelFrame DEF Ownership, CancelControl, ShellState
<1>4. ASSUME NEW r \in Resumers, ResumeStep(r) PROVE FALSE
  BY <1>1, <1>4, NoRowsNoRequest DEF ShellState
<1>5. CASE Crash \/ UNCHANGED vars
  BY <1>1, <1>5 DEF Crash, vars, durable, ShellState
<1>. QED
  BY <1>2, <1>3, <1>4, <1>5 DEF Next

\* A run that ended before its plan was attached keeps its status and never gets
\* a node run, whatever its worker and the requests do.
THEOREM EndedShellStays == Spec => EndedShellIsFinal
<1>1. TypeOK /\ Control /\ Ownership /\ [Next]_vars =>
        [(~attached /\ status \in TerminalStatuses) =>
           /\ nodeRuns' = <<>>
           /\ ~attached'
           /\ status' = status]_vars
  BY EndedShellIsFinalStep
<1>. QED
  BY <1>1, OwnershipAlways, PTL DEF Spec, EndedShellIsFinal

LEMMA SettledIsFinalStep ==
  ASSUME TypeOK, Control, Ownership, [Next]_vars, Settled
  PROVE  status' = status
<1>1. status \in TerminalStatuses /\ worker.pc = "done"
  BY DEF Settled
<1>2. CASE WorkerStep \/ WorkerDropped
  <2>1. FALSE
    BY <1>1, <1>2, WorkerCases DEF InnerCalls, WorkerOpenStream, WorkerPrepare, WorkerCompile,
     WorkerAttach, WorkerFailQueued, WorkerStarted, WorkerContinue, WorkerLoop,
     WorkerCreateNodeRun, WorkerExecute, WorkerNodeError, WorkerCheckCancelled, WorkerFailNode,
     WorkerCheckpoint, WorkerCreateTask, WorkerWait, WorkerSucceed, WorkerReturn,
     WorkerCallFails, WorkerFailRead, WorkerFailWrite, WorkerEmit, WorkerClose, WorkerFallback,
     WorkerDropped
  <2>. QED
    BY <2>1
<1>3. ASSUME NEW c \in Cancellers, CancelStep(c) PROVE status' = status
  BY <1>1, <1>3, CancelFrame DEF Ownership, CancelControl
<1>4. ASSUME NEW r \in Resumers, ResumeStep(r) PROVE status' = status
  <2>1. CASE resumer[r].pc = "finish"
    <3>1. resumer[r].read \in TerminalStatuses \cup {"none"}
      BY <2>1 DEF Settled
    <3>2. ~FlowTransitionAllowed(resumer[r].read, OutcomeStatus(r))
      BY <3>1 DEF FlowTransitionAllowed, TerminalStatuses, WaitingStatuses
    <3>. QED
      BY <1>4, <3>2, ResumeFrame
  <2>2. CASE resumer[r].pc # "finish"
    BY <1>4, <2>2, ResumeFrame
  <2>. QED
    BY <2>1, <2>2
<1>5. CASE Crash \/ UNCHANGED vars
  BY <1>5 DEF Crash, vars, durable
<1>. QED
  BY <1>2, <1>3, <1>4, <1>5 DEF Next

\* A settled run keeps its status: every request that still writes read a status
\* from which ensure_flow_run_transition allows nothing.
THEOREM SettledStays == Spec => SettledIsFinal
<1>1. TypeOK /\ Control /\ Ownership /\ [Next]_vars => [Settled => status' = status]_vars
  BY SettledIsFinalStep
<1>. QED
  BY <1>1, OwnershipAlways, PTL DEF Spec, SettledIsFinal

-----------------------------------------------------------------------------
(***************************************************************************)
(* A worker that has created a node run in a cancelled run meets           *)
(* is_run_cancelled before it creates another, and the run is still        *)
(* cancelled then: until there is a checkpoint only a cancel writes to it. *)
(***************************************************************************)
LateInv ==
  /\ late <= 1
  /\ ~attached => late = 0
  /\ late = 1 /\ worker.pc \in EarlyCalls => status = "cancelled" /\ worker.pc # "create"

LEMMA NextLate ==
  ASSUME TypeOK, Control, Ownership, LateInv, [Next]_vars
  PROVE  LateInv'
<1>1. worker \in WorkerStates /\ late \in Nat
  BY TypeParts
<1>2. CASE WorkerCreateNodeRun
  <2>1. late = 0 /\ status' = status
    BY <1>1, <1>2 DEF WorkerCreateNodeRun, LateInv, EarlyCalls
  <2>2. worker'.pc = "exec" /\ late' = IF status = "cancelled" THEN 1 ELSE 0
    BY <1>1, <1>2, <2>1 DEF WorkerCreateNodeRun, WorkerStates
  <2>3. attached /\ attached'
    BY <1>2 DEF WorkerCreateNodeRun, Ownership, Shell, ShellState, ShellCalls
  <2>. QED
    BY <2>1, <2>2, <2>3 DEF LateInv
<1>3. CASE (WorkerStep \/ WorkerDropped) /\ ~WorkerCreateNodeRun
  <2>1. late' = late
    BY <1>3, WorkerCases DEF WorkerOpenStream, WorkerPrepare, WorkerCompile, WorkerAttach,
     WorkerFailQueued, WorkerStarted, WorkerContinue, WorkerLoop, WorkerExecute,
     WorkerNodeError, WorkerCheckCancelled, WorkerFailNode, WorkerCheckpoint, WorkerCreateTask,
     WorkerWait, WorkerSucceed, WorkerReturn, WorkerCallFails, WorkerFailRead, WorkerFailWrite,
     WorkerEmit, WorkerClose, WorkerFallback, WorkerDropped
  <2>2. ~attached' => late' = 0
    BY <2>1, <1>3, AttachedStays DEF LateInv
  <2>3. CASE WorkerAttach
    BY <1>1, <2>1, <2>2, <2>3 DEF LateInv, WorkerAttach, Goto, WorkerStates, EarlyCalls
  <2>4. CASE ~WorkerAttach /\ worker'.pc \in EarlyCalls
    <3>1. worker.pc \in EarlyCalls /\ status' = status
      BY <1>3, <2>4, OnlyAttachStarts
    <3>2. status = "cancelled" => worker'.pc # "create"
      BY <1>1, <1>3, <3>1, WorkerCases DEF EarlyCalls, InnerCalls, Goto, EndWithError,
         FailRunBecause, EmitBecause, NextNode, WorkerStates, WorkerOpenStream, WorkerPrepare,
         WorkerCompile, WorkerAttach, WorkerFailQueued, WorkerStarted, WorkerContinue,
         WorkerLoop, WorkerExecute, WorkerNodeError, WorkerCheckCancelled, WorkerFailNode,
         WorkerCheckpoint, WorkerCreateTask, WorkerWait, WorkerSucceed, WorkerReturn,
         WorkerCallFails, WorkerFailRead, WorkerFailWrite, WorkerEmit, WorkerClose,
         WorkerFallback, WorkerDropped
    <3>. QED
      BY <2>1, <2>2, <3>1, <3>2 DEF LateInv
  <2>. QED
    BY <2>1, <2>2, <2>3, <2>4 DEF LateInv
<1>4. ASSUME NEW c \in Cancellers, CancelStep(c) PROVE LateInv'
  BY <1>4, CancelFrame DEF LateInv
<1>5. ASSUME NEW r \in Resumers, ResumeStep(r) PROVE LateInv'
  BY <1>5, ResumeFrame, NoRowsNoRequest DEF LateInv, Ownership, Early
<1>6. CASE Crash
  BY <1>1, <1>6 DEF Crash, durable, LateInv, EarlyCalls, WorkerStates
<1>7. CASE UNCHANGED vars
  BY <1>7 DEF vars, durable, LateInv
<1>. QED
  BY <1>2, <1>3, <1>4, <1>5, <1>6, <1>7 DEF Next

\* However a cancel falls between the worker's calls, the worker creates at most
\* one more node run.
THEOREM WorkerStopsAfterCancel == Spec => []StopsAfterCancel
<1>1. Init => LateInv
  BY DEF Init, LateInv, EarlyCalls
<1>2. TypeOK /\ Control /\ Ownership /\ LateInv /\ [Next]_vars => LateInv'
  BY NextLate
<1>3. LateInv => StopsAfterCancel
  BY DEF LateInv, StopsAfterCancel
<1>. QED
  BY <1>1, <1>2, <1>3, OwnershipAlways, PTL DEF Spec

-----------------------------------------------------------------------------
(***************************************************************************)
(* The stream.  Whoever is about to close it has seen to it that it holds  *)
(* a terminal event: its own, if the stream took it.  An event is refused  *)
(* by a closed stream, which holds one already, or by a stream that is not *)
(* open, which either stays so or belongs to a shell that was cancelled.   *)
(***************************************************************************)
Covered ==
  \/ terminals # <<>>
  \/ status = "cancelled" /\ ~attached
  \/ ~opened /\ worker.pc # "open"

StreamInv ==
  /\ ~opened => ~closed /\ terminals = <<>>
  /\ worker.pc = "open" => ~opened /\ ~attached /\ streaming
  /\ streaming /\ worker.pc \notin {"open", "done"} => opened
  /\ worker.pc = "close" /\ streaming => Covered
  /\ \A c \in Cancellers : canceller[c].pc = "close" => Covered
  /\ ClosedHasTerminal

\* A worker never goes back to opening its stream.
LEMMA OpensOnce ==
  ASSUME TypeOK, WorkerStep \/ WorkerDropped
  PROVE  worker'.pc # "open" /\ worker.pc # "done"
<1>1. worker \in WorkerStates
  BY TypeParts
<1>. QED
  BY <1>1, WorkerCases DEF InnerCalls, Goto, EndWithError, FailRunBecause, EmitBecause,
     NextNode, WorkerStates, WorkerOpenStream, WorkerPrepare, WorkerCompile, WorkerAttach,
     WorkerFailQueued, WorkerStarted, WorkerContinue, WorkerLoop, WorkerCreateNodeRun,
     WorkerExecute, WorkerNodeError, WorkerCheckCancelled, WorkerFailNode, WorkerCheckpoint,
     WorkerCreateTask, WorkerWait, WorkerSucceed, WorkerReturn, WorkerCallFails, WorkerFailRead,
     WorkerFailWrite, WorkerEmit, WorkerClose, WorkerFallback, WorkerDropped

\* Only three of the worker's calls touch the stream.
LEMMA WorkerStream ==
  ASSUME TypeOK, WorkerStep \/ WorkerDropped,
         ~WorkerOpenStream, ~WorkerEmit, ~WorkerClose
  PROVE  stream' = stream /\ worker'.pc # "close"
<1>1. worker \in WorkerStates
  BY TypeParts
<1>. QED
  BY <1>1, WorkerCases DEF InnerCalls, Goto, EndWithError, FailRunBecause, EmitBecause,
     NextNode, WorkerStates, WorkerPrepare, WorkerCompile, WorkerAttach,
     WorkerFailQueued, WorkerStarted, WorkerContinue, WorkerLoop, WorkerCreateNodeRun,
     WorkerExecute, WorkerNodeError, WorkerCheckCancelled, WorkerFailNode, WorkerCheckpoint,
     WorkerCreateTask, WorkerWait, WorkerSucceed, WorkerReturn, WorkerCallFails, WorkerFailRead,
     WorkerFailWrite, WorkerFallback, WorkerDropped

\* A shell that was cancelled stays so.
LEMMA CancelledShellStays ==
  ASSUME TypeOK, Control, Ownership, [Next]_vars, status = "cancelled", ~attached
  PROVE  status' = "cancelled" /\ ~attached'
  BY EndedShellIsFinalStep DEF TerminalStatuses

\* A step that keeps the stream and neither begins to close it nor opens it
LEMMA StreamKept ==
  ASSUME TypeOK, Control, Ownership, StreamInv, [Next]_vars, stream' = stream,
         streaming' = streaming,
         worker'.pc \in {"open", "close"} => worker' = worker,
         worker.pc = "open" => worker'.pc \in {"open", "done"} /\ attached' = attached,
         worker.pc = "done" => worker' = worker,
         \A c \in Cancellers : canceller'[c].pc = "close" => canceller[c].pc = "close"
  PROVE  StreamInv'
<1>1. opened' = opened /\ closed' = closed /\ terminals' = terminals
  BY DEF stream
<1>2. Covered => Covered'
  BY <1>1, CancelledShellStays DEF Covered
<1>3. ClosedHasTerminal'
  BY <1>1, CancelledShellStays DEF StreamInv, ClosedHasTerminal
<1>4. worker'.pc = "open" => ~opened' /\ ~attached' /\ streaming'
  BY <1>1 DEF StreamInv
<1>. QED
  BY <1>1, <1>2, <1>3, <1>4 DEF StreamInv

\* What becomes of a terminal event that is appended
LEMMA EventKept ==
  ASSUME TypeOK, NEW e \in TerminalEvents, EmitTerminal(e)
  PROVE  \/ opened /\ ~closed /\ terminals' # <<>>
         \/ (~opened \/ closed) /\ terminals' = terminals
<1>1. terminals \in Seq(TerminalEvents)
  BY TypeParts
<1>2. Len(Append(terminals, e)) = Len(terminals) + 1 /\ Len(terminals) \in Nat
  BY <1>1
<1>3. Append(terminals, e) # <<>>
  BY <1>2
<1>. QED
  BY <1>3 DEF EmitTerminal

LEMMA WorkerStreamInv ==
  ASSUME TypeOK, Control, Ownership, StreamInv, WorkerStep \/ WorkerDropped
  PROVE  StreamInv'
<1>1. /\ worker \in WorkerStates /\ streaming \in BOOLEAN /\ opened \in BOOLEAN
      /\ closed \in BOOLEAN /\ terminals \in Seq(TerminalEvents)
  BY TypeParts
<1>2. [Next]_vars
  BY DEF Next
<1>3. streaming' = streaming /\ canceller' = canceller /\ worker'.pc # "open"
  BY WorkerFrame, OpensOnce DEF fixed
<1>4. CASE WorkerOpenStream
  <2>1. /\ opened' = TRUE /\ terminals' = terminals /\ closed' = closed
        /\ status' = status /\ attached' = attached /\ worker'.pc = "prepare"
        /\ worker.pc = "open"
    BY <1>1, <1>4 DEF WorkerOpenStream, Goto, WorkerStates, durable
  <2>2. Covered => Covered'
    BY <2>1 DEF Covered, StreamInv
  <2>. QED
    BY <1>3, <2>1, <2>2 DEF StreamInv, ClosedHasTerminal
<1>5. CASE WorkerEmit
  <2>1. /\ opened' = opened /\ closed' = closed /\ status' = status /\ attached' = attached
        /\ worker'.pc = "close" /\ worker.pc = "emit"
    BY <1>1, <1>5 DEF WorkerEmit, Goto, WorkerStates, durable
  <2>2. CASE streaming
    <3>1. opened
      BY <2>1, <2>2 DEF StreamInv
    <3>2. terminals' # <<>> \/ (closed /\ terminals' = terminals)
      <4>1. PICK e \in TerminalEvents : EmitTerminal(e)
        BY <1>5, <2>2 DEF WorkerEmit, TerminalEvents
      <4>. QED
        BY <1>1, <3>1, <4>1, EventKept
    <3>3. Covered' /\ ClosedHasTerminal'
      BY <2>1, <3>2 DEF Covered, StreamInv, ClosedHasTerminal
    <3>. QED
      BY <1>3, <2>1, <3>1, <3>3 DEF StreamInv
  <2>3. CASE ~streaming
    <3>1. terminals' = terminals
      BY <1>5, <2>3 DEF WorkerEmit
    <3>. QED
      BY <1>3, <2>1, <2>3, <3>1 DEF StreamInv, Covered, ClosedHasTerminal
  <2>. QED
    BY <2>2, <2>3
<1>6. CASE WorkerClose
  <2>1. /\ opened' = opened /\ terminals' = terminals /\ status' = status
        /\ attached' = attached /\ worker.pc = "close" /\ worker'.pc # "close"
    BY <1>1, <1>6 DEF WorkerClose, Goto, EndWithError, WorkerStates, durable
  <2>2. CASE streaming
    <3>1. opened /\ Covered /\ closed'
      BY <1>6, <2>1, <2>2 DEF StreamInv, WorkerClose, CloseStream
    <3>. QED
      BY <1>3, <2>1, <3>1 DEF StreamInv, Covered, ClosedHasTerminal
  <2>3. CASE ~streaming
    <3>1. closed' = closed
      BY <1>6, <2>3 DEF WorkerClose
    <3>. QED
      BY <1>3, <2>1, <2>3, <3>1 DEF StreamInv, Covered, ClosedHasTerminal
  <2>. QED
    BY <2>2, <2>3, <1>1
<1>7. CASE ~WorkerOpenStream /\ ~WorkerEmit /\ ~WorkerClose
  <2>1. stream' = stream /\ worker'.pc # "close" /\ worker.pc # "done"
    BY <1>7, WorkerStream, OpensOnce
  <2>2. worker.pc = "open" => worker'.pc = "done" /\ attached' = attached
    BY <1>1, <1>7, WorkerCases DEF InnerCalls, Goto, WorkerStates, durable, WorkerPrepare,
       WorkerCompile, WorkerAttach, WorkerFailQueued, WorkerStarted, WorkerContinue, WorkerLoop,
       WorkerCreateNodeRun, WorkerExecute, WorkerNodeError, WorkerCheckCancelled,
       WorkerFailNode, WorkerCheckpoint, WorkerCreateTask, WorkerWait, WorkerSucceed,
       WorkerReturn, WorkerCallFails, WorkerFailRead, WorkerFailWrite, WorkerFallback,
       WorkerDropped
  <2>. QED
    BY <1>2, <1>3, <2>1, <2>2, StreamKept
<1>. QED
  BY <1>4, <1>5, <1>6, <1>7

LEMMA CancelStreamInv ==
  ASSUME TypeOK, Control, Ownership, StreamInv, NEW c \in Cancellers, CancelStep(c)
  PROVE  StreamInv'
<1>1. /\ canceller \in [Cancellers -> [pc : CancellerPcs, read : FlowStatuses]]
      /\ canceller[c] \in [pc : CancellerPcs, read : FlowStatuses]
      /\ opened \in BOOLEAN /\ closed \in BOOLEAN /\ terminals \in Seq(TerminalEvents)
  BY TypeParts
<1>2. /\ [Next]_vars /\ streaming' = streaming /\ worker' = worker /\ attached' = attached
      /\ opened' = opened
      /\ \A d \in Cancellers \ {c} : canceller'[d] = canceller[d]
  BY CancelFrame DEF Next, fixed
<1>3. CASE CancelRead(c) \/ CancelWrite(c) \/ CancelFails(c)
  <2>1. stream' = stream /\ canceller'[c].pc # "close"
    BY <1>1, <1>3 DEF CancelRead, CancelWrite, CancelFails, CancellerTo, stream
  <2>. QED
    BY <1>2, <2>1, StreamKept
<1>4. CASE CancelEmit(c)
  <2>1. closed' = closed /\ status' = status
    BY <1>4 DEF CancelEmit, durable
  <2>2. terminals' # <<>> \/ ((~opened \/ closed) /\ terminals' = terminals)
    <3>1. PICK e \in TerminalEvents : EmitTerminal(e)
      BY <1>4 DEF CancelEmit, TerminalEvents
    <3>. QED
      BY <1>1, <3>1, EventKept
  <2>3. attached \/ status = "cancelled"
    BY <1>4 DEF CancelEmit, Ownership, CancelControl
  <2>4. Covered' /\ ClosedHasTerminal'
    BY <1>2, <2>1, <2>2, <2>3 DEF Covered, StreamInv, ClosedHasTerminal
  <2>. QED
    BY <1>2, <1>4, <2>1, <2>4 DEF StreamInv, CancelEmit, EmitTerminal
<1>5. CASE CancelClose(c)
  <2>1. /\ terminals' = terminals /\ status' = status /\ closed' = (closed \/ opened)
        /\ canceller'[c].pc # "close" /\ Covered
    BY <1>1, <1>5 DEF CancelClose, CancellerTo, CloseStream, durable, StreamInv
  <2>2. Covered' /\ ClosedHasTerminal'
    BY <1>1, <1>2, <2>1 DEF Covered, StreamInv, ClosedHasTerminal
  <2>. QED
    BY <1>1, <1>2, <2>1, <2>2 DEF StreamInv
<1>. QED
  BY <1>3, <1>4, <1>5 DEF CancelStep

LEMMA NextStreamInv ==
  ASSUME TypeOK, Control, Ownership, StreamInv, [Next]_vars
  PROVE  StreamInv'
<1>1. ASSUME NEW r \in Resumers, ResumeStep(r) PROVE StreamInv'
  BY <1>1, ResumeFrame, StreamKept DEF fixed
<1>2. CASE Crash
  <2>1. worker \in WorkerStates
        /\ canceller \in [Cancellers -> [pc : CancellerPcs, read : FlowStatuses]]
    BY TypeParts
  <2>2. /\ ~opened' /\ ~closed' /\ terminals' = <<>> /\ worker'.pc = "done"
        /\ \A c \in Cancellers : canceller'[c].pc # "close"
    BY <1>2, <2>1 DEF Crash
  <2>. QED
    BY <2>2 DEF StreamInv, ClosedHasTerminal
<1>3. CASE UNCHANGED vars
  BY <1>3 DEF vars, fixed, durable, stream, requests, StreamInv, Covered, ClosedHasTerminal
<1>. QED
  BY <1>1, <1>2, <1>3, WorkerStreamInv, CancelStreamInv DEF Next

\* Nobody closes the stream of a run before it holds a terminal event, whoever
\* closes it and however the appends and closes of worker and cancels interleave.
THEOREM ClosedStreamsEnded == Spec => []ClosedHasTerminal
<1>1. Init => StreamInv
  BY DEF Init, StreamInv, ClosedHasTerminal
<1>2. TypeOK /\ Control /\ Ownership /\ StreamInv /\ [Next]_vars => StreamInv'
  BY NextStreamInv
<1>3. StreamInv => ClosedHasTerminal
  BY DEF StreamInv
<1>. QED
  BY <1>1, <1>2, <1>3, OwnershipAlways, PTL DEF Spec
-----------------------------------------------------------------------------
(***************************************************************************)
(* The run is a StatusRecord: what its writers may still write is known    *)
(* from where they are, and every step looks, writes once, moves the       *)
(* status by a conditional update, gives up, or does not matter.           *)
(***************************************************************************)
LEMMA MovesOf ==
  ASSUME NEW from \in FlowStatuses \cup {"none"}
  PROVE  FlowMoves[from] = {to \in FlowStatuses : FlowTransitionAllowed(from, to)}
BY DEF FlowMoves

LEMMA MayOf ==
  /\ May = [w \in RunWriters |-> May[w]]
  /\ May["worker"] = WorkerMay
  /\ \A r \in Resumers : May[r] = FlowMoves[resumer[r].read]
BY FlowAssumption DEF May, RunWriters

\* The worker looks when it starts to execute and when it is about to fail the
\* run; its unconditional writes are those of a failed node, of a wait and of
\* fail_flow_run.
LEMMA WorkerLicence ==
  ASSUME TypeOK, Control, WorkerStep \/ WorkerDropped
  PROVE  \/ status' = status /\ WorkerMay' \in {WorkerMay, {}}
         \/ status' = status /\ WorkerMay' \subseteq FlowMoves[status]
         \/ status' \in FlowMoves[status] /\ WorkerMay' = WorkerMay
         \/ status' \in WorkerMay /\ WorkerMay' = {}
<1>. USE DEF WorkerMay, AtNodes
<1>1. worker \in WorkerStates /\ status \in FlowStatuses
  BY TypeParts DEF TypeOK
<1>2. /\ FlowMoves[status] = {to \in FlowStatuses : FlowTransitionAllowed(status, to)}
      /\ FlowMoves["running"] = {to \in FlowStatuses : FlowTransitionAllowed("running", to)}
  BY <1>1, MovesOf DEF FlowStatuses
<1>3. CASE WorkerOpenStream \/ WorkerPrepare \/ WorkerCompile \/ WorkerStarted \/ WorkerDropped
  BY <1>1, <1>3 DEF WorkerOpenStream, WorkerPrepare, WorkerCompile, WorkerStarted, WorkerDropped,
     durable, Goto, EndWithError, FailRunBecause, WorkerStates
<1>4. CASE WorkerAttach \/ WorkerFailQueued \/ WorkerSucceed
  BY <1>1, <1>2, <1>4 DEF WorkerAttach, WorkerFailQueued, WorkerSucceed, Goto, EndWithError,
     EmitBecause, WorkerStates, FlowTransitionAllowed, FlowStatuses, TerminalStatuses
<1>5. CASE WorkerContinue
  BY <1>1, <1>5 DEF WorkerContinue, durable, Goto, WorkerStates
<1>6. CASE \/ WorkerLoop \/ WorkerCreateNodeRun \/ WorkerExecute \/ WorkerNodeError
           \/ WorkerCheckCancelled \/ WorkerCheckpoint \/ WorkerCreateTask
  BY <1>1, <1>6 DEF WorkerLoop, WorkerCreateNodeRun, WorkerExecute, WorkerNodeError,
     WorkerCheckCancelled, WorkerCheckpoint, WorkerCreateTask, durable, Goto, NextNode,
     FailRunBecause, WorkerStates
<1>7. CASE WorkerFailNode \/ WorkerWait
  BY <1>1, <1>2, <1>7 DEF WorkerFailNode, WorkerWait, Goto, EmitBecause, WorkerStates,
     FlowTransitionAllowed, FlowStatuses, TerminalStatuses, WaitingStatuses, WaitingStatus
<1>8. CASE WorkerReturn \/ WorkerCallFails \/ WorkerEmit \/ WorkerClose \/ WorkerFallback
  BY <1>1, <1>8 DEF WorkerReturn, WorkerCallFails, WorkerEmit, WorkerClose, WorkerFallback,
     durable, Goto, EndWithError, EmitBecause, FailRunBecause, WorkerStates
<1>9. CASE WorkerFailRead
  BY <1>1, <1>2, <1>9 DEF WorkerFailRead, durable, Goto, EndWithError, WorkerStates, FlowStatuses
<1>10. CASE WorkerFailWrite
  BY <1>1, <1>10 DEF WorkerFailWrite, Goto, EndWithError, WorkerStates
<1>. QED
  BY <1>3, <1>4, <1>5, <1>6, <1>7, <1>8, <1>9, <1>10, WorkerCases

\* A request looks when it reads the run, and writes when it has executed the
\* rest of the plan.
LEMMA RequestLicence ==
  ASSUME TypeOK, NEW r \in Resumers, ResumeStep(r)
  PROVE  /\ \A q \in Resumers \ {r} : resumer'[q] = resumer[q]
         /\ \/ status' = status /\ resumer'[r].read \in {resumer[r].read, status, "none"}
            \/ status' \in FlowMoves[resumer[r].read] /\ resumer'[r].read = "none"
<1>1. resumer \in [Resumers -> ResumerStates] /\ resumer[r] \in ResumerStates
  BY TypeParts
<1>2. CASE ResumeRead(r) \/ CallbackDetail(r)
  <2>1. CASE ResumeRead(r)
    <3>1. PICK c \in 1 .. Len(checkpoints) :
            resumer' = [resumer EXCEPT ![r] =
              [@ EXCEPT !.pc = "detail", !.read = status, !.checkpoint = c]]
      BY <2>1 DEF ResumeRead
    <3>2. /\ resumer'[r].read = status
          /\ \A q \in Resumers \ {r} : resumer'[q] = resumer[q]
      BY <1>1, <3>1 DEF ResumerStates
    <3>. QED
      BY <2>1, <3>2 DEF ResumeRead, durable
  <2>2. CASE CallbackDetail(r)
    <3>1. PICK c \in 1 .. Len(checkpoints) :
            resumer' = [resumer EXCEPT ![r] =
              [@ EXCEPT !.pc = "exec", !.read = status, !.checkpoint = c,
                        !.from = nodeRuns[tasks[resumer[r].task].nodeRun].status]]
      BY <2>2 DEF CallbackDetail
    <3>2. /\ resumer'[r].read = status
          /\ \A q \in Resumers \ {r} : resumer'[q] = resumer[q]
      BY <1>1, <3>1 DEF ResumerStates
    <3>. QED
      BY <2>2, <3>2 DEF CallbackDetail, durable
  <2>. QED
    BY <1>2, <2>1, <2>2
<1>3. CASE \/ ResumeDetail(r) \/ CompleteTask(r) \/ ResumeExecute(r) \/ ResumeNode(r)
           \/ ResumeTrace(r) \/ ResumeTracesEnd(r) \/ ResumeCheckpoint(r)
           \/ ResumeCreateTask(r) \/ ResumeFails(r)
  <2>1. CASE ResumeDetail(r)
    BY <1>1, <2>1 DEF ResumeDetail, durable, ResumerStates
  <2>2. CASE CompleteTask(r)
    <3>1. PICK t \in 1 .. Len(tasks) :
            resumer' = [resumer EXCEPT ![r] = [@ EXCEPT !.pc = "callback", !.task = t]]
      BY <2>2 DEF CompleteTask
    <3>2. /\ resumer'[r].read = resumer[r].read
          /\ \A q \in Resumers \ {r} : resumer'[q] = resumer[q]
      BY <1>1, <3>1 DEF ResumerStates
    <3>. QED
      BY <2>2, <3>2 DEF CompleteTask
  <2>3. CASE ResumeExecute(r)
    <3>1. CASE ResumerEnds(r)
      BY <1>1, <2>3, <3>1 DEF ResumeExecute, ResumerEnds, NoRequest, durable, ResumerStates
    <3>2. CASE ~ResumerEnds(r)
      <4>1. PICK n, j, result :
              resumer' = [resumer EXCEPT ![r] =
                [@ EXCEPT !.pc = "node", !.at = n, !.stop = j, !.result = result]]
        BY <2>3, <3>2 DEF ResumeExecute
      <4>2. /\ resumer'[r].read = resumer[r].read
            /\ \A q \in Resumers \ {r} : resumer'[q] = resumer[q]
        BY <1>1, <4>1 DEF ResumerStates
      <4>. QED
        BY <2>3, <4>2 DEF ResumeExecute, durable
    <3>. QED
      BY <3>1, <3>2
  <2>4. CASE ResumeNode(r) \/ ResumeFails(r)
    BY <1>1, <2>4 DEF ResumeNode, ResumeFails, ResumerTo, ResumerEnds, NoRequest, durable,
       ResumerStates
  <2>5. CASE ResumeTrace(r)
    <3>1. /\ resumer'[r].read \in {resumer[r].read, "none"}
          /\ \A q \in Resumers \ {r} : resumer'[q] = resumer[q]
      <4>1. \/ resumer' = [resumer EXCEPT ![r] =
                            [@ EXCEPT !.at = resumer[r].at + 1, !.run = Len(nodeRuns) + 1]]
            \/ resumer' = [resumer EXCEPT ![r] = NoRequest("done")]
        BY <2>5 DEF ResumeTrace, ResumerEnds
      <4>2. CASE resumer' = [resumer EXCEPT ![r] = NoRequest("done")]
        BY <1>1, <4>2 DEF NoRequest
      <4>3. CASE resumer' = [resumer EXCEPT ![r] =
                   [@ EXCEPT !.at = resumer[r].at + 1, !.run = Len(nodeRuns) + 1]]
        BY <1>1, <4>3 DEF ResumerStates
      <4>. QED
        BY <4>1, <4>2, <4>3
    <3>. QED
      BY <2>5, <3>1 DEF ResumeTrace
  <2>6. CASE ResumeTracesEnd(r) \/ ResumeCheckpoint(r) \/ ResumeCreateTask(r)
    BY <1>1, <2>6 DEF ResumeTracesEnd, ResumeCheckpoint, ResumeCreateTask, ResumerTo, durable,
       ResumerStates
  <2>. QED
    BY <1>3, <2>1, <2>2, <2>3, <2>4, <2>5, <2>6
<1>4. CASE ResumeFinish(r)
  <2>1. /\ resumer'[r].read = "none"
        /\ \A q \in Resumers \ {r} : resumer'[q] = resumer[q]
    BY <1>1, <1>4 DEF ResumeFinish, ResumerEnds, NoRequest
  <2>2. CASE FlowTransitionAllowed(resumer[r].read, OutcomeStatus(r))
    <3>1. status' = OutcomeStatus(r) /\ resumer[r].read \in FlowStatuses \cup {"none"}
      BY <1>1, <1>4, <2>2 DEF ResumeFinish, ResumerStates
    <3>2. OutcomeStatus(r) \in FlowStatuses
      BY <2>2 DEF FlowTransitionAllowed, FlowStatuses, WaitingStatuses, TerminalStatuses
    <3>. QED
      BY <2>1, <2>2, <3>1, <3>2, MovesOf
  <2>3. CASE ~FlowTransitionAllowed(resumer[r].read, OutcomeStatus(r))
    BY <1>4, <2>1, <2>3 DEF ResumeFinish
  <2>. QED
    BY <2>2, <2>3
<1>. QED
  BY <1>2, <1>3, <1>4 DEF ResumeStep

\* A change of what one writer may write is a step of the record.
LEMMA OneWriter ==
  ASSUME NEW w \in RunWriters, \A v \in RunWriters \ {w} : May'[v] = May[v],
         \/ status' = status /\ May'[w] \in {May[w], {}}
         \/ status' = status /\ May'[w] \subseteq FlowMoves[status]
         \/ status' \in FlowMoves[status] /\ May'[w] = May[w]
         \/ status' \in May[w] /\ May'[w] = {}
  PROVE  Record!Next
<1>. DEFINE m == May'
<1>1. May = [v \in RunWriters |-> May[v]] /\ m = [v \in RunWriters |-> m[v]]
  BY DEF May
<1>2. \A v \in RunWriters \ {w} : m[v] = May[v]
  OBVIOUS
<1>. HIDE DEF m
<1>3. m = [May EXCEPT ![w] = m[w]]
  BY <1>1, <1>2
<1>4. CASE status' = status /\ m[w] = May[w]
  <2>1. Record!GiveUp({})
    BY <1>1, <1>2, <1>4 DEF Record!GiveUp, m
  <2>. QED
    BY <2>1 DEF Record!Next
<1>5. CASE status' = status /\ m[w] = {}
  <2>1. Record!GiveUp({w})
    BY <1>1, <1>2, <1>5 DEF Record!GiveUp, m
  <2>. QED
    BY <2>1 DEF Record!Next
<1>6. CASE status' = status /\ m[w] \subseteq FlowMoves[status]
  <2>1. Record!Look(w)
    BY <1>3, <1>6 DEF Record!Look, m
  <2>. QED
    BY <2>1 DEF Record!Next
<1>7. CASE status' \in FlowMoves[status] /\ m[w] = May[w]
  <2>1. m = May
    BY <1>1, <1>2, <1>7
  <2>2. Record!Move
    BY <1>7, <2>1 DEF Record!Move, m
  <2>. QED
    BY <2>2 DEF Record!Next
<1>8. CASE status' \in May[w] /\ m[w] = {}
  <2>1. Record!Write(w)
    BY <1>3, <1>8 DEF Record!Write, m
  <2>. QED
    BY <2>1 DEF Record!Next
<1>. QED
  BY <1>4, <1>5, <1>6, <1>7, <1>8 DEF m

LEMMA MovesAreFixed == FlowMoves' = FlowMoves
BY DEF FlowMoves, FlowTransitionAllowed, FlowStatuses, WaitingStatuses, TerminalStatuses

\* A restart takes away what the worker and the requests in flight could write.
LEMMA CrashGivesUp ==
  ASSUME TypeOK, Crash
  PROVE  Record!Next
<1>. DEFINE gone == {"worker"} \cup {r \in Resumers : resumer[r].pc # "idle"}
<1>1. worker'.pc = "done" /\ status' = status
  BY TypeParts DEF Crash, durable, WorkerStates
<1>2. \A r \in Resumers : resumer'[r].read = IF r \in gone THEN "none" ELSE resumer[r].read
  BY FlowAssumption DEF Crash, NoRequest
<1>3. FlowMoves["none"] = {}
  BY MovesOf DEF FlowTransitionAllowed, WaitingStatuses
<1>4. WorkerMay' = {}
  BY <1>1 DEF WorkerMay, AtNodes
<1>5. May' = [w \in RunWriters |-> IF w = "worker" THEN WorkerMay' ELSE FlowMoves[resumer'[w].read]]
  BY MovesAreFixed DEF May, RunWriters
<1>6. \A w \in RunWriters : w # "worker" => w \in Resumers
  BY DEF RunWriters
<1>7. \A w \in RunWriters : May'[w] = IF w \in gone THEN {} ELSE May[w]
  <2>. SUFFICES ASSUME NEW w \in RunWriters PROVE May'[w] = IF w \in gone THEN {} ELSE May[w]
    OBVIOUS
  <2>1. CASE w = "worker"
    BY <1>4, <1>5, <2>1
  <2>2. CASE w # "worker"
    BY <1>2, <1>3, <1>5, <1>6, <2>2 DEF May
  <2>. QED
    BY <2>1, <2>2
<1>8. Record!GiveUp(gone)
  <2>1. May' = [w \in RunWriters |-> IF w \in gone THEN {} ELSE May[w]]
    BY <1>5, <1>7
  <2>. QED
    BY <1>1, <2>1 DEF Record!GiveUp
<1>9. gone \in SUBSET RunWriters
  BY DEF RunWriters
<1>. QED
  BY <1>8, <1>9 DEF Record!Next

LEMMA NextIsLicensed ==
  ASSUME TypeOK, Control, Ownership, [Next]_vars
  PROVE  [Record!Next]_(Record!vars)
<1>1. CASE WorkerStep \/ WorkerDropped
  <2>1. resumer' = resumer
    BY <1>1, WorkerFrame
  <2>2. /\ \A v \in RunWriters \ {"worker"} : May'[v] = May[v]
        /\ May'["worker"] = WorkerMay' /\ May["worker"] = WorkerMay /\ "worker" \in RunWriters
    BY <2>1, MovesAreFixed DEF May, RunWriters
  <2>3. Record!Next
    BY <1>1, <2>2, WorkerLicence, OneWriter
  <2>. QED
    BY <2>3
<1>2. ASSUME NEW c \in Cancellers, CancelStep(c) PROVE [Record!Next]_(Record!vars)
  <2>1. worker' = worker /\ resumer' = resumer
    BY <1>2, CancelFrame
  <2>2. May' = May
    BY <2>1, MovesAreFixed DEF May, WorkerMay, RunWriters
  <2>3. CASE status' = status
    BY <2>2, <2>3 DEF Record!vars
  <2>4. CASE canceller[c].pc = "cas" /\ status = canceller[c].read /\ status' = "cancelled"
    <3>1. FlowTransitionAllowed(status, "cancelled")
      BY <2>4, TypeParts DEF Ownership, CancelControl, FlowTransitionAllowed, FlowStatuses,
         TerminalStatuses, WaitingStatuses
    <3>2. status' \in FlowMoves[status]
      BY <2>4, <3>1, MovesOf, TypeParts DEF FlowStatuses
    <3>3. Record!Move
      BY <2>2, <3>2 DEF Record!Move
    <3>. QED
      BY <3>3 DEF Record!Next
  <2>. QED
    BY <1>2, <2>3, <2>4, CancelFrame
<1>3. ASSUME NEW r \in Resumers, ResumeStep(r) PROVE [Record!Next]_(Record!vars)
  <2>1. worker' = worker
    BY <1>3, ResumeFrame
  <2>2. /\ r \in RunWriters /\ r # "worker"
        /\ \A w \in RunWriters : w # "worker" => w \in Resumers
    BY FlowAssumption DEF RunWriters
  <2>3. May' = [w \in RunWriters |-> IF w = "worker" THEN WorkerMay ELSE FlowMoves[resumer'[w].read]]
    BY <2>1, MovesAreFixed DEF May, WorkerMay, RunWriters
  <2>4. \A v \in RunWriters \ {r} : May'[v] = May[v]
    BY <1>3, <2>2, <2>3, RequestLicence DEF May
  <2>5. May'[r] = FlowMoves[resumer'[r].read] /\ May[r] = FlowMoves[resumer[r].read]
    BY <2>2, <2>3 DEF May
  <2>6. FlowMoves["none"] = {}
    BY MovesOf DEF FlowTransitionAllowed, WaitingStatuses
  <2>7. \/ status' = status /\ May'[r] \in {May[r], {}}
        \/ status' = status /\ May'[r] \subseteq FlowMoves[status]
        \/ status' \in May[r] /\ May'[r] = {}
    BY <1>3, <2>5, <2>6, RequestLicence
  <2>8. Record!Next
    BY <2>2, <2>4, <2>7, OneWriter
  <2>. QED
    BY <2>8
<1>4. CASE Crash
  BY <1>4, CrashGivesUp
<1>5. CASE UNCHANGED vars
  <2>1. status' = status /\ worker' = worker /\ resumer' = resumer
    BY <1>5 DEF vars, durable, requests
  <2>2. May' = May
    BY <2>1, MovesAreFixed DEF May, WorkerMay, RunWriters
  <2>. QED
    BY <2>1, <2>2 DEF Record!vars
<1>. QED
  BY <1>1, <1>2, <1>3, <1>4, <1>5 DEF Next

LEMMA InitIsLicensed ==
  ASSUME Init
  PROVE  Record!Init
<1>1. WorkerMay = {} /\ status = "queued"
  BY DEF Init, WorkerMay, AtNodes
<1>2. \A r \in Resumers : resumer[r].read = "none"
  BY DEF Init, NoRequest
<1>3. FlowMoves["none"] = {}
  BY MovesOf DEF FlowTransitionAllowed, WaitingStatuses
<1>4. May = [w \in RunWriters |-> {}]
  BY <1>1, <1>2, <1>3 DEF May, RunWriters
<1>. QED
  BY <1>1, <1>4 DEF Record!Init

\* However worker, cancels and resumes interleave, fail and are lost, the run's
\* status is only ever changed by a conditional update that makes a legal move,
\* or by a writer whose own last look allowed that status, once per look.
THEOREM WritesLicensed == Spec => WritesAreLicensed
<1>1. Init => Record!Init
  BY InitIsLicensed
<1>2. TypeOK /\ Control /\ Ownership /\ [Next]_vars => [Record!Next]_(Record!vars)
  BY NextIsLicensed
<1>. QED
  BY <1>1, <1>2, OwnershipAlways, PTL DEF Spec, Record!Spec, WritesAreLicensed
=============================================================================
