------------------------ MODULE DebugRunStreamProofs ------------------------
(***************************************************************************)
(* That the persister accounts for every event it takes, that browser and  *)
(* history are told the same ending, and that it is a true one, for any    *)
(* number of nodes, any deltas and any number of failing calls.            *)
(***************************************************************************)
EXTENDS DebugRunStream, TLAPS

USE DebugAssumption

\* TypeOK in the parts that different actors disturb
RunTypes ==
  /\ status \in Statuses
  /\ closed \in BOOLEAN
  /\ tx \in [Writers -> TxStates]
  /\ tracer \in [pending : BOOLEAN, failed : BOOLEAN]
  /\ request \in [pc : {"idle", "cancel", "emit", "close", "record", "dropped", "resume", "set",
                         "outcome", "resumed", "done"}, read : Statuses]
  /\ checkpoint \in BOOLEAN
  /\ faults \in 0 .. MaxFaults

TracerJoined == tracer.pending \/ tx["tracer"] # "none" => worker.pc \in {"run", "join"}

\* Another node starts only while there is one.
NodesLeft == worker.pc = "start" => worker.nodes < MaxNodes

WorkerTypes ==
  worker \in [pc : WorkerPcs, why : Reasons, nodes : 0 .. MaxNodes, stream : Seq(Deltas),
              outcome : {"succeeded", "failed", "waiting"}]

ConsumerTypes ==
  /\ persister \in [pc : {"read", "write", "done"}, cursor : 0 .. Len(log),
                    batch : Seq(1 .. Len(log)), writing : Seq(1 .. Len(log))]
  /\ persisted \in Seq(1 .. Len(log))
  /\ lost \subseteq 1 .. Len(log)
  /\ sse \in [pc : {"read", "done"}, told : Seq(Terminals)]

InLog(event) == \E n \in DOMAIN log : log[n] = event

\* Where the worker is once it can no longer finish the run
Past == worker.pc \in {"emit", "close", "record", "failRead", "failWrite", "fallback",
                       "return", "over", "done"}

\* Nothing is being written but by a write.
PersisterControl == persister.pc # "write" => persister.writing = <<>>

\* A terminal event is the last one the persister takes, and ends it as soon
\* as it is written.
EndsAtTerminal ==
  /\ \A n \in 1 .. persister.cursor - 1 : log[n] \notin Terminals
  /\ persister.cursor > 0 /\ log[persister.cursor] \in Terminals =>
       \/ persister.pc = "write" /\ persister.cursor \in ElementsOf(persister.writing)
       \/ persister.pc = "done"
  /\ persister.pc = "done" => persister.cursor > 0 /\ log[persister.cursor] \in Terminals

\* The sender has sent the first terminal event, or none.
SenderControl ==
  IF sse.pc = "read" THEN sse.told = <<>>
  ELSE \E n \in DOMAIN log : FirstEnding(n) /\ sse.told = <<log[n]>>

HasEnding == InLog("flow_finished") \/ InLog("flow_failed") \/ InLog("flow_cancelled")

\* A stream is closed only after a terminal event.
ClosedEnded == closed \/ worker.pc = "close" \/ request.pc = "close" => HasEnding

\* Only a suspended run is resumed, and the worker that suspended it is done.
ResumeControl ==
  /\ checkpoint => worker.pc = "wait" \/ Past
  /\ request.pc \in {"resume", "set", "outcome", "resumed"} => checkpoint

\* After a successful cancel the run does not succeed, nor run again.
CancelControl ==
  /\ request.pc = "cancel" => request.read \notin Ended
  /\ request.pc \in {"emit", "close", "record", "dropped"} \/ InLog("flow_cancelled")
       => status \in {"cancelled", "failed", "waiting"}
  /\ InLog("flow_cancelled") => request.pc \in {"close", "record", "done"}

\* What the worker is about to report is so.
WorkerControl ==
  /\ worker.pc \in {"failRead", "failWrite"} => worker.why \in {"prepare", "continue"}
  /\ worker.pc = "failWrite" => status # "succeeded" \/ Resumed
  /\ worker.pc = "emit" =>
       IF worker.why = "finished" THEN status = "succeeded" /\ ~checkpoint
       ELSE status # "succeeded" \/ Resumed

\* The events of the stream against the status of the run
FinishedMeans == InLog("flow_finished") => status = "succeeded" /\ ~checkpoint /\ Past

FailedMeans == InLog("flow_failed") => (status # "succeeded" \/ Resumed) /\ Past

SucceededMeans ==
  status = "succeeded" /\ ~Resumed =>
    \/ InLog("flow_finished")
    \/ worker.pc = "emit" /\ worker.why = "finished" /\ ~HasEnding

Truth == /\ ClosedEnded /\ ResumeControl /\ CancelControl /\ WorkerControl
         /\ FinishedMeans /\ FailedMeans /\ SucceededMeans

-----------------------------------------------------------------------------
LEMMA TypesSplit ==
  TypeOK <=> /\ log \in Seq(Events)
             /\ RunTypes /\ TracerJoined /\ WorkerTypes /\ ConsumerTypes
BY DEF TypeOK, RunTypes, TracerJoined, WorkerTypes, ConsumerTypes

\* The log only grows.
LogGrows ==
  /\ log' \in Seq(Events)
  /\ Len(log) <= Len(log')
  /\ \A n \in DOMAIN log : n \in DOMAIN log' /\ log'[n] = log[n]

\* What append does: nothing to a closed stream, otherwise one event more.
LEMMA EmitEffect ==
  ASSUME log \in Seq(Events), NEW e \in Events, Emit(e)
  PROVE  /\ LogGrows
         /\ closed => log' = log
         /\ ~closed => \E n \in DOMAIN log' : log'[n] = e
         /\ \A n \in DOMAIN log' : n \in DOMAIN log \/ log'[n] = e
<1>1. CASE closed
  BY <1>1 DEF Emit, LogGrows
<1>2. CASE ~closed
  <2>1. log' = Append(log, e) /\ log' \in Seq(Events) /\ Len(log') = Len(log) + 1
    BY <1>2 DEF Emit
  <2>2. log'[Len(log) + 1] = e /\ \A n \in 1 .. Len(log) : log'[n] = log[n]
    BY <2>1
  <2>3. DOMAIN log = 1 .. Len(log) /\ DOMAIN log' = 1 .. Len(log) + 1 /\ Len(log) \in Nat
    BY <2>1
  <2>4. LogGrows
    BY <2>1, <2>2, <2>3 DEF LogGrows
  <2>5. \A n \in DOMAIN log' : n \in DOMAIN log \/ n = Len(log) + 1
    BY <2>3
  <2>6. Len(log) + 1 \in DOMAIN log'
    BY <2>3
  <2>7. QED
    BY <1>2, <2>2, <2>4, <2>5, <2>6
<1>3. QED
  BY <1>1, <1>2

\* A longer log leaves what the consumers hold of its type.
LEMMA ConsumersKept ==
  ASSUME TypeOK, UNCHANGED consumers, LogGrows
  PROVE  ConsumerTypes'
<1>1. 1 .. Len(log) \subseteq 1 .. Len(log') /\ 0 .. Len(log) \subseteq 0 .. Len(log')
  BY DEF TypeOK, LogGrows
<1>2. ASSUME NEW s \in Seq(1 .. Len(log))
      PROVE  s \in Seq(1 .. Len(log'))
  <2>1. s \in [1 .. Len(s) -> 1 .. Len(log')] /\ Len(s) \in Nat
    BY <1>1
  <2>2. QED
    BY <2>1
<1>3. QED
  BY <1>1, <1>2 DEF TypeOK, ConsumerTypes, consumers

\* Where the worker goes, and why
LEMMA WorkerMoves ==
  ASSUME WorkerTypes
  PROVE  /\ \A pc \in WorkerPcs :
              Goto(pc) => WorkerTypes' /\ worker'.pc = pc /\ worker'.why = worker.why
         /\ \A why \in Reasons :
              EmitBecause(why) => WorkerTypes' /\ worker'.pc = "emit" /\ worker'.why = why
         /\ \A why \in Reasons :
              FailBecause(why) => WorkerTypes' /\ worker'.pc = "failRead" /\ worker'.why = why
         /\ Rest => WorkerTypes' /\ worker'.pc = "over" /\ worker'.why = "continue"
         /\ UNCHANGED worker => WorkerTypes'
         /\ worker.pc \in WorkerPcs /\ worker.why \in Reasons
<1>1. "emit" \in WorkerPcs /\ "failRead" \in WorkerPcs /\ "over" \in WorkerPcs
  BY DEF WorkerPcs
<1>2. ASSUME NEW pc \in WorkerPcs, Goto(pc)
      PROVE  WorkerTypes' /\ worker'.pc = pc /\ worker'.why = worker.why
  BY <1>2 DEF WorkerTypes, Goto
<1>3. ASSUME NEW why \in Reasons, EmitBecause(why)
      PROVE  WorkerTypes' /\ worker'.pc = "emit" /\ worker'.why = why
  BY <1>1, <1>3 DEF WorkerTypes, EmitBecause
<1>4. ASSUME NEW why \in Reasons, FailBecause(why)
      PROVE  WorkerTypes' /\ worker'.pc = "failRead" /\ worker'.why = why
  BY <1>1, <1>4 DEF WorkerTypes, FailBecause
<1>5. ASSUME Rest
      PROVE  WorkerTypes' /\ worker'.pc = "over" /\ worker'.why = "continue"
  <2>1. "continue" \in Reasons /\ <<>> \in Seq(Deltas)
    BY DEF Reasons
  <2>2. QED
    BY <1>1, <1>5, <2>1 DEF WorkerTypes, Rest
<1>6. QED
  BY <1>2, <1>3, <1>4, <1>5 DEF WorkerTypes

\* What a transaction on flow_run_events leaves behind
LEMMA TxTyped ==
  ASSUME RunTypes, NEW w \in Writers, BeginTx(w) \/ Commit(w) \/ Refused(w)
  PROVE  /\ tx' \in [Writers -> TxStates] /\ faults' \in 0 .. MaxFaults
         /\ \A v \in Writers \ {w} : tx'[v] # "none" => tx[v] # "none"
<1>1. CASE BeginTx(w)
  BY <1>1 DEF RunTypes, BeginTx, TxStates
<1>2. CASE Commit(w)
  BY <1>2 DEF RunTypes, Commit, TxStates
<1>3. CASE Refused(w)
  <2>1. faults' \in 0 .. MaxFaults
    BY <1>3 DEF RunTypes, Refused, Fault
  <2>2. QED
    BY <1>3, <2>1 DEF RunTypes, Refused, TxStates
<1>4. QED
  BY <1>1, <1>2, <1>3

LEMMA FaultTyped ==
  ASSUME RunTypes, Fault
  PROVE  faults' \in 0 .. MaxFaults
BY DEF RunTypes, Fault

\* The parts of the types a worker's step does not keep by leaving all alone
LEMMA WorkerKeepsTypes ==
  ASSUME log \in Seq(Events), RunTypes, TracerJoined, WorkerTypes, NodesLeft, WorkerStep
  PROVE  RunTypes' /\ TracerJoined' /\ WorkerTypes' /\ NodesLeft' /\ LogGrows /\ UNCHANGED consumers
<1>1. UNCHANGED log => LogGrows
  BY DEF LogGrows
<1>2. CASE WorkerPrepares
  <2>1. LogGrows
    BY <1>1, <1>2 DEF WorkerPrepares, stream
  <2>2. WorkerTypes'
    BY <1>2, WorkerMoves DEF WorkerPrepares, WorkerPcs, Reasons
  <2>3. RunTypes'
    BY <1>2, FaultTyped DEF WorkerPrepares, RunTypes, stream
  <2>4. TracerJoined'
    BY <1>2, WorkerMoves DEF WorkerPrepares, TracerJoined, RunTypes, WorkerTypes, Goto, Rest,
       InnerCalls
  <2>5. NodesLeft'
    BY <1>2, WorkerMoves DEF WorkerPrepares, NodesLeft, WorkerTypes, Goto, Rest, EmitBecause,
       FailBecause, WorkerPcs, Reasons
  <2>6. UNCHANGED consumers
    BY <1>2 DEF WorkerPrepares
  <2>7. QED
    BY <2>1, <2>2, <2>3, <2>4, <2>5, <2>6
<1>3. CASE WorkerAttaches
  <2>1. LogGrows
    BY <1>1, <1>3 DEF WorkerAttaches, stream
  <2>2. WorkerTypes'
    BY <1>3, WorkerMoves DEF WorkerAttaches, WorkerPcs, Reasons
  <2>3. RunTypes'
    BY <1>3, FaultTyped DEF WorkerAttaches, RunTypes, stream, Statuses, Ended
  <2>4. TracerJoined'
    BY <1>3, WorkerMoves DEF WorkerAttaches, TracerJoined, RunTypes, WorkerTypes, Goto, Rest,
       InnerCalls
  <2>5. NodesLeft'
    BY <1>3, WorkerMoves DEF WorkerAttaches, NodesLeft, WorkerTypes, Goto, Rest, EmitBecause,
       FailBecause, WorkerPcs, Reasons
  <2>6. UNCHANGED consumers
    BY <1>3 DEF WorkerAttaches
  <2>7. QED
    BY <2>1, <2>2, <2>3, <2>4, <2>5, <2>6
<1>4. CASE WorkerFailsShell
  <2>1. LogGrows
    BY <1>1, <1>4 DEF WorkerFailsShell, stream
  <2>2. WorkerTypes'
    BY <1>4, WorkerMoves DEF WorkerFailsShell, WorkerPcs, Reasons
  <2>3. RunTypes'
    BY <1>4, FaultTyped DEF WorkerFailsShell, RunTypes, stream, Statuses, Ended
  <2>4. TracerJoined'
    BY <1>4, WorkerMoves DEF WorkerFailsShell, TracerJoined, RunTypes, WorkerTypes, Goto, Rest,
       InnerCalls
  <2>5. NodesLeft'
    BY <1>4, WorkerMoves DEF WorkerFailsShell, NodesLeft, WorkerTypes, Goto, Rest, EmitBecause,
       FailBecause, WorkerPcs, Reasons
  <2>6. UNCHANGED consumers
    BY <1>4 DEF WorkerFailsShell
  <2>7. QED
    BY <2>1, <2>2, <2>3, <2>4, <2>5, <2>6
<1>5. CASE WorkerRecordsStart
  <2>1. LogGrows
    BY <1>1, <1>5 DEF WorkerRecordsStart, stream
  <2>2. WorkerTypes'
    BY <1>5, WorkerMoves DEF WorkerRecordsStart, WorkerPcs, Reasons
  <2>3. RunTypes'
    BY <1>5, TxTyped DEF WorkerRecordsStart, RunTypes, stream, Writers
  <2>4. TracerJoined'
    BY <1>5, TxTyped, WorkerMoves DEF WorkerRecordsStart, TracerJoined, Writers, RunTypes,
       WorkerPcs
  <2>5. NodesLeft'
    BY <1>5, WorkerMoves DEF WorkerRecordsStart, NodesLeft, WorkerTypes, Goto, Rest,
       EmitBecause, FailBecause, WorkerPcs, Reasons
  <2>6. UNCHANGED consumers
    BY <1>5 DEF WorkerRecordsStart
  <2>7. QED
    BY <2>1, <2>2, <2>3, <2>4, <2>5, <2>6
<1>6. CASE WorkerAnnounces
  <2>1. LogGrows
    BY <1>6, EmitEffect DEF WorkerAnnounces, Events, Terminals
  <2>2. WorkerTypes'
    BY <1>6, WorkerMoves DEF WorkerAnnounces, WorkerPcs, Reasons
  <2>3. RunTypes'
    BY <1>6, FaultTyped DEF WorkerAnnounces, RunTypes, stream
  <2>4. TracerJoined'
    BY <1>6, WorkerMoves DEF WorkerAnnounces, TracerJoined, RunTypes, WorkerTypes, Goto, Rest,
       InnerCalls
  <2>5. NodesLeft'
    BY <1>6, WorkerMoves DEF WorkerAnnounces, NodesLeft, WorkerTypes, Goto, Rest, EmitBecause,
       FailBecause, WorkerPcs, Reasons
  <2>6. UNCHANGED consumers
    BY <1>6 DEF WorkerAnnounces
  <2>7. QED
    BY <2>1, <2>2, <2>3, <2>4, <2>5, <2>6
<1>7. CASE WorkerChooses
  <2>1. LogGrows
    BY <1>1, <1>7 DEF WorkerChooses, stream
  <2>2. WorkerTypes'
    BY <1>7, WorkerMoves DEF WorkerChooses, WorkerPcs, Reasons
  <2>3. RunTypes'
    BY <1>7, FaultTyped DEF WorkerChooses, RunTypes, stream
  <2>4. TracerJoined'
    BY <1>7, WorkerMoves DEF WorkerChooses, TracerJoined, RunTypes, WorkerTypes, Goto, Rest,
       InnerCalls
  <2>5. NodesLeft'
    BY <1>7, WorkerMoves DEF WorkerChooses, NodesLeft, WorkerTypes, Goto, Rest, EmitBecause,
       FailBecause, WorkerPcs, Reasons
  <2>6. UNCHANGED consumers
    BY <1>7 DEF WorkerChooses
  <2>7. QED
    BY <2>1, <2>2, <2>3, <2>4, <2>5, <2>6
<1>8. CASE WorkerStartsNode
  <2>1. LogGrows
    BY <1>8, EmitEffect DEF WorkerStartsNode, Events, Terminals
  <2>2. WorkerTypes'
    <3>1. worker.nodes + 1 \in 0 .. MaxNodes
      BY <1>8 DEF WorkerStartsNode, WorkerTypes, NodesLeft
    <3>2. QED
      BY <1>8, <3>1 DEF WorkerStartsNode, WorkerTypes, WorkerPcs
  <2>3. RunTypes'
    BY <1>8, FaultTyped DEF WorkerStartsNode, RunTypes, stream
  <2>4. TracerJoined'
    BY <1>8, WorkerMoves DEF WorkerStartsNode, TracerJoined, RunTypes, WorkerTypes, Goto, Rest,
       InnerCalls
  <2>5. NodesLeft'
    BY <1>8, WorkerMoves DEF WorkerStartsNode, NodesLeft, WorkerTypes, Goto, Rest, EmitBecause,
       FailBecause, WorkerPcs, Reasons
  <2>6. UNCHANGED consumers
    BY <1>8 DEF WorkerStartsNode
  <2>7. QED
    BY <2>1, <2>2, <2>3, <2>4, <2>5, <2>6
<1>9. CASE NodeStreams
  <2>1. LogGrows
    BY <1>9, EmitEffect DEF NodeStreams, Events, Terminals, WorkerTypes
  <2>2. WorkerTypes'
    <3>1. Tail(worker.stream) \in Seq(Deltas)
      BY <1>9 DEF NodeStreams, WorkerTypes
    <3>2. QED
      BY <1>9, <3>1 DEF NodeStreams, WorkerTypes
  <2>3. RunTypes'
    BY <1>9, FaultTyped DEF NodeStreams, RunTypes, stream
  <2>4. TracerJoined'
    BY <1>9, WorkerMoves DEF NodeStreams, TracerJoined, RunTypes, WorkerTypes, Goto, Rest,
       InnerCalls
  <2>5. NodesLeft'
    BY <1>9, WorkerMoves DEF NodeStreams, NodesLeft, WorkerTypes, Goto, Rest, EmitBecause,
       FailBecause, WorkerPcs, Reasons
  <2>6. UNCHANGED consumers
    BY <1>9 DEF NodeStreams
  <2>7. QED
    BY <2>1, <2>2, <2>3, <2>4, <2>5, <2>6
<1>10. CASE NodeEnds
  <2>1. LogGrows
    BY <1>1, <1>10 DEF NodeEnds, stream
  <2>2. WorkerTypes'
    BY <1>10, DebugAssumption DEF NodeEnds, WorkerTypes, WorkerPcs
  <2>3. RunTypes'
    BY <1>10, FaultTyped DEF NodeEnds, RunTypes, stream
  <2>4. TracerJoined'
    BY <1>10, WorkerMoves DEF NodeEnds, TracerJoined, RunTypes, WorkerTypes, Goto, Rest,
       InnerCalls
  <2>5. NodesLeft'
    BY <1>10, WorkerMoves DEF NodeEnds, NodesLeft, WorkerTypes, Goto, Rest, EmitBecause,
       FailBecause, WorkerPcs, Reasons
  <2>6. UNCHANGED consumers
    BY <1>10 DEF NodeEnds
  <2>7. QED
    BY <2>1, <2>2, <2>3, <2>4, <2>5, <2>6
<1>11. CASE WorkerJoins
  <2>1. LogGrows
    BY <1>1, <1>11 DEF WorkerJoins, stream
  <2>2. WorkerTypes'
    BY <1>11, WorkerMoves DEF WorkerJoins, WorkerPcs, Reasons
  <2>3. RunTypes'
    BY <1>11, FaultTyped DEF WorkerJoins, RunTypes, stream
  <2>4. TracerJoined'
    BY <1>11, WorkerMoves DEF WorkerJoins, TracerJoined, RunTypes, WorkerTypes, Goto, Rest,
       InnerCalls
  <2>5. NodesLeft'
    BY <1>11, WorkerMoves DEF WorkerJoins, NodesLeft, WorkerTypes, Goto, Rest, EmitBecause,
       FailBecause, WorkerPcs, Reasons
  <2>6. UNCHANGED consumers
    BY <1>11 DEF WorkerJoins
  <2>7. QED
    BY <2>1, <2>2, <2>3, <2>4, <2>5, <2>6
<1>12. CASE WorkerEndsNode
  <2>1. LogGrows
    BY <1>12, EmitEffect DEF WorkerEndsNode, Events, Terminals
  <2>2. WorkerTypes'
    BY <1>12, WorkerMoves DEF WorkerEndsNode, WorkerPcs, Reasons
  <2>3. RunTypes'
    BY <1>12, FaultTyped DEF WorkerEndsNode, RunTypes, stream
  <2>4. TracerJoined'
    BY <1>12, WorkerMoves DEF WorkerEndsNode, TracerJoined, RunTypes, WorkerTypes, Goto, Rest,
       InnerCalls
  <2>5. NodesLeft'
    BY <1>12, WorkerMoves DEF WorkerEndsNode, NodesLeft, WorkerTypes, Goto, Rest, EmitBecause,
       FailBecause, WorkerPcs, Reasons
  <2>6. UNCHANGED consumers
    BY <1>12 DEF WorkerEndsNode
  <2>7. QED
    BY <2>1, <2>2, <2>3, <2>4, <2>5, <2>6
<1>13. CASE WorkerChecks
  <2>1. LogGrows
    BY <1>1, <1>13 DEF WorkerChecks, stream
  <2>2. WorkerTypes'
    BY <1>13, WorkerMoves DEF WorkerChecks, WorkerPcs, Reasons
  <2>3. RunTypes'
    BY <1>13, FaultTyped DEF WorkerChecks, RunTypes, stream
  <2>4. TracerJoined'
    BY <1>13, WorkerMoves DEF WorkerChecks, TracerJoined, RunTypes, WorkerTypes, Goto, Rest,
       InnerCalls
  <2>5. NodesLeft'
    BY <1>13, WorkerMoves DEF WorkerChecks, NodesLeft, WorkerTypes, Goto, Rest, EmitBecause,
       FailBecause, WorkerPcs, Reasons
  <2>6. UNCHANGED consumers
    BY <1>13 DEF WorkerChecks
  <2>7. QED
    BY <2>1, <2>2, <2>3, <2>4, <2>5, <2>6
<1>14. CASE WorkerFailsNode
  <2>1. LogGrows
    BY <1>1, <1>14 DEF WorkerFailsNode, stream
  <2>2. WorkerTypes'
    BY <1>14, WorkerMoves DEF WorkerFailsNode, WorkerPcs, Reasons
  <2>3. RunTypes'
    BY <1>14, FaultTyped DEF WorkerFailsNode, RunTypes, stream, Statuses, Ended
  <2>4. TracerJoined'
    BY <1>14, WorkerMoves DEF WorkerFailsNode, TracerJoined, RunTypes, WorkerTypes, Goto, Rest,
       InnerCalls
  <2>5. NodesLeft'
    BY <1>14, WorkerMoves DEF WorkerFailsNode, NodesLeft, WorkerTypes, Goto, Rest, EmitBecause,
       FailBecause, WorkerPcs, Reasons
  <2>6. UNCHANGED consumers
    BY <1>14 DEF WorkerFailsNode
  <2>7. QED
    BY <2>1, <2>2, <2>3, <2>4, <2>5, <2>6
<1>15. CASE WorkerSuspends
  <2>1. LogGrows
    BY <1>1, <1>15 DEF WorkerSuspends, stream
  <2>2. WorkerTypes'
    BY <1>15, WorkerMoves DEF WorkerSuspends, WorkerPcs, Reasons
  <2>3. RunTypes'
    <3>1. CASE worker.pc = "suspend"
      BY <1>15, <3>1 DEF WorkerSuspends, RunTypes, stream
    <3>2. CASE worker.pc = "wait"
      BY <1>15, <3>2 DEF WorkerSuspends, RunTypes, stream, Statuses
    <3>3. QED
      BY <1>15, <3>1, <3>2 DEF WorkerSuspends
  <2>4. TracerJoined'
    BY <1>15, WorkerMoves DEF WorkerSuspends, TracerJoined, RunTypes, WorkerTypes, Goto, Rest,
       InnerCalls
  <2>5. NodesLeft'
    BY <1>15, WorkerMoves DEF WorkerSuspends, NodesLeft, WorkerTypes, Goto, Rest, EmitBecause,
       FailBecause, WorkerPcs, Reasons
  <2>6. UNCHANGED consumers
    BY <1>15 DEF WorkerSuspends
  <2>7. QED
    BY <2>1, <2>2, <2>3, <2>4, <2>5, <2>6
<1>16. CASE WorkerFinishes
  <2>1. LogGrows
    BY <1>1, <1>16 DEF WorkerFinishes, stream
  <2>2. WorkerTypes'
    BY <1>16, WorkerMoves DEF WorkerFinishes, WorkerPcs, Reasons
  <2>3. RunTypes'
    BY <1>16, FaultTyped DEF WorkerFinishes, RunTypes, stream, Statuses, Ended
  <2>4. TracerJoined'
    BY <1>16, WorkerMoves DEF WorkerFinishes, TracerJoined, RunTypes, WorkerTypes, Goto, Rest,
       InnerCalls
  <2>5. NodesLeft'
    BY <1>16, WorkerMoves DEF WorkerFinishes, NodesLeft, WorkerTypes, Goto, Rest, EmitBecause,
       FailBecause, WorkerPcs, Reasons
  <2>6. UNCHANGED consumers
    BY <1>16 DEF WorkerFinishes
  <2>7. QED
    BY <2>1, <2>2, <2>3, <2>4, <2>5, <2>6
<1>17. CASE WorkerReturns
  <2>1. LogGrows
    BY <1>1, <1>17 DEF WorkerReturns, stream
  <2>2. WorkerTypes'
    BY <1>17, WorkerMoves DEF WorkerReturns, WorkerPcs, Reasons
  <2>3. RunTypes'
    BY <1>17, FaultTyped DEF WorkerReturns, RunTypes, stream
  <2>4. TracerJoined'
    BY <1>17, WorkerMoves DEF WorkerReturns, TracerJoined, RunTypes, WorkerTypes, Goto, Rest,
       InnerCalls
  <2>5. NodesLeft'
    BY <1>17, WorkerMoves DEF WorkerReturns, NodesLeft, WorkerTypes, Goto, Rest, EmitBecause,
       FailBecause, WorkerPcs, Reasons
  <2>6. UNCHANGED consumers
    BY <1>17 DEF WorkerReturns
  <2>7. QED
    BY <2>1, <2>2, <2>3, <2>4, <2>5, <2>6
<1>18. CASE WorkerCallFails
  <2>1. LogGrows
    BY <1>1, <1>18 DEF WorkerCallFails, stream
  <2>2. WorkerTypes'
    BY <1>18, WorkerMoves DEF WorkerCallFails, WorkerPcs, Reasons
  <2>3. RunTypes'
    BY <1>18, FaultTyped DEF WorkerCallFails, RunTypes, stream
  <2>4. TracerJoined'
    BY <1>18, WorkerMoves DEF WorkerCallFails, TracerJoined, RunTypes, WorkerTypes, Goto, Rest,
       InnerCalls
  <2>5. NodesLeft'
    BY <1>18, WorkerMoves DEF WorkerCallFails, NodesLeft, WorkerTypes, Goto, Rest, EmitBecause,
       FailBecause, WorkerPcs, Reasons
  <2>6. UNCHANGED consumers
    BY <1>18 DEF WorkerCallFails
  <2>7. QED
    BY <2>1, <2>2, <2>3, <2>4, <2>5, <2>6
<1>19. CASE WorkerEmits
  <2>1. LogGrows
    BY <1>19, EmitEffect DEF WorkerEmits, Events, Terminals
  <2>2. WorkerTypes'
    BY <1>19, WorkerMoves DEF WorkerEmits, WorkerPcs, Reasons
  <2>3. RunTypes'
    BY <1>19, FaultTyped DEF WorkerEmits, RunTypes, stream
  <2>4. TracerJoined'
    BY <1>19, WorkerMoves DEF WorkerEmits, TracerJoined, RunTypes, WorkerTypes, Goto, Rest,
       InnerCalls
  <2>5. NodesLeft'
    BY <1>19, WorkerMoves DEF WorkerEmits, NodesLeft, WorkerTypes, Goto, Rest, EmitBecause,
       FailBecause, WorkerPcs, Reasons
  <2>6. UNCHANGED consumers
    BY <1>19 DEF WorkerEmits
  <2>7. QED
    BY <2>1, <2>2, <2>3, <2>4, <2>5, <2>6
<1>20. CASE WorkerCloses
  <2>1. LogGrows
    BY <1>1, <1>20 DEF WorkerCloses, stream
  <2>2. WorkerTypes'
    BY <1>20, WorkerMoves DEF WorkerCloses, WorkerPcs, Reasons
  <2>3. RunTypes'
    BY <1>20, FaultTyped DEF WorkerCloses, RunTypes, stream
  <2>4. TracerJoined'
    BY <1>20, WorkerMoves DEF WorkerCloses, TracerJoined, RunTypes, WorkerTypes, Goto, Rest,
       InnerCalls
  <2>5. NodesLeft'
    BY <1>20, WorkerMoves DEF WorkerCloses, NodesLeft, WorkerTypes, Goto, Rest, EmitBecause,
       FailBecause, WorkerPcs, Reasons
  <2>6. UNCHANGED consumers
    BY <1>20 DEF WorkerCloses
  <2>7. QED
    BY <2>1, <2>2, <2>3, <2>4, <2>5, <2>6
<1>21. CASE WorkerRecordsEnd
  <2>1. LogGrows
    BY <1>1, <1>21 DEF WorkerRecordsEnd, stream
  <2>2. WorkerTypes'
    BY <1>21, WorkerMoves DEF WorkerRecordsEnd, WorkerPcs, Reasons
  <2>3. RunTypes'
    BY <1>21, TxTyped DEF WorkerRecordsEnd, RunTypes, stream, Writers
  <2>4. TracerJoined'
    BY <1>21, TxTyped, WorkerMoves DEF WorkerRecordsEnd, TracerJoined, Writers, RunTypes,
       WorkerPcs
  <2>5. NodesLeft'
    BY <1>21, WorkerMoves DEF WorkerRecordsEnd, NodesLeft, WorkerTypes, Goto, Rest, EmitBecause,
       FailBecause, WorkerPcs, Reasons
  <2>6. UNCHANGED consumers
    BY <1>21 DEF WorkerRecordsEnd
  <2>7. QED
    BY <2>1, <2>2, <2>3, <2>4, <2>5, <2>6
<1>22. CASE WorkerFailsRun
  <2>1. LogGrows
    BY <1>1, <1>22 DEF WorkerFailsRun, stream
  <2>2. WorkerTypes'
    BY <1>22, WorkerMoves DEF WorkerFailsRun, WorkerPcs, Reasons
  <2>3. RunTypes'
    BY <1>22, FaultTyped DEF WorkerFailsRun, RunTypes, stream, Statuses, Ended
  <2>4. TracerJoined'
    BY <1>22, WorkerMoves DEF WorkerFailsRun, TracerJoined, RunTypes, WorkerTypes, Goto, Rest,
       InnerCalls
  <2>5. NodesLeft'
    BY <1>22, WorkerMoves DEF WorkerFailsRun, NodesLeft, WorkerTypes, Goto, Rest, EmitBecause,
       FailBecause, WorkerPcs, Reasons
  <2>6. UNCHANGED consumers
    BY <1>22 DEF WorkerFailsRun
  <2>7. QED
    BY <2>1, <2>2, <2>3, <2>4, <2>5, <2>6
<1>23. CASE WorkerFallsBack
  <2>1. LogGrows
    BY <1>1, <1>23 DEF WorkerFallsBack, stream
  <2>2. WorkerTypes'
    BY <1>23, WorkerMoves DEF WorkerFallsBack, WorkerPcs, Reasons
  <2>3. RunTypes'
    BY <1>23, FaultTyped DEF WorkerFallsBack, RunTypes, stream
  <2>4. TracerJoined'
    BY <1>23, WorkerMoves DEF WorkerFallsBack, TracerJoined, RunTypes, WorkerTypes, Goto, Rest,
       InnerCalls
  <2>5. NodesLeft'
    BY <1>23, WorkerMoves DEF WorkerFallsBack, NodesLeft, WorkerTypes, Goto, Rest, EmitBecause,
       FailBecause, WorkerPcs, Reasons
  <2>6. UNCHANGED consumers
    BY <1>23 DEF WorkerFallsBack
  <2>7. QED
    BY <2>1, <2>2, <2>3, <2>4, <2>5, <2>6
<1>24. CASE WorkerWaits
  <2>1. LogGrows
    BY <1>1, <1>24 DEF WorkerWaits, stream
  <2>2. WorkerTypes'
    BY <1>24, WorkerMoves DEF WorkerWaits, WorkerPcs, Reasons
  <2>3. RunTypes'
    BY <1>24, FaultTyped DEF WorkerWaits, RunTypes, stream
  <2>4. TracerJoined'
    BY <1>24, WorkerMoves DEF WorkerWaits, TracerJoined, RunTypes, WorkerTypes, Goto, Rest,
       InnerCalls
  <2>5. NodesLeft'
    BY <1>24, WorkerMoves DEF WorkerWaits, NodesLeft, WorkerTypes, Goto, Rest, EmitBecause,
       FailBecause, WorkerPcs, Reasons
  <2>6. UNCHANGED consumers
    BY <1>24 DEF WorkerWaits
  <2>7. QED
    BY <2>1, <2>2, <2>3, <2>4, <2>5, <2>6
<1>25. QED
  BY <1>2, <1>3, <1>4, <1>5, <1>6, <1>7, <1>8, <1>9, <1>10, <1>11, <1>12, <1>13, <1>14, <1>15,
     <1>16, <1>17, <1>18, <1>19, <1>20, <1>21, <1>22, <1>23, <1>24 DEF WorkerStep

LEMMA TracerKeepsTypes ==
  ASSUME log \in Seq(Events), RunTypes, TracerJoined, TracerStep
  PROVE  RunTypes' /\ TracerJoined'
<1>1. CASE tracer.pending /\ BeginTx("tracer") /\ UNCHANGED tracer
  <2>1. RunTypes'
    BY <1>1, TxTyped DEF TracerStep, RunTypes, stream, Writers
  <2>2. QED
    BY <1>1, <2>1 DEF TracerStep, TracerJoined
<1>2. CASE Commit("tracer") /\ tracer' = [tracer EXCEPT !.pending = FALSE]
  <2>1. RunTypes' /\ tx["tracer"] # "none"
    BY <1>2, TxTyped DEF TracerStep, RunTypes, stream, Writers, Commit
  <2>2. QED
    BY <1>2, <2>1 DEF TracerStep, TracerJoined, RunTypes
<1>3. CASE Refused("tracer") /\ tracer' = [pending |-> FALSE, failed |-> TRUE]
  <2>1. RunTypes' /\ tx["tracer"] # "none"
    BY <1>3, TxTyped DEF TracerStep, RunTypes, stream, Writers, Refused
  <2>2. QED
    BY <1>3, <2>1 DEF TracerStep, TracerJoined, RunTypes
<1>4. QED
  BY <1>1, <1>2, <1>3 DEF TracerStep

\* Where a request goes
LEMMA RequestMoves ==
  ASSUME RunTypes,
         NEW pc \in {"emit", "close", "record", "dropped", "resume", "set", "outcome",
                     "resumed", "done"},
         AtRequest(pc)
  PROVE  /\ request' \in [pc : {"idle", "cancel", "emit", "close", "record", "dropped",
                                "resume", "set", "outcome", "resumed", "done"},
                          read : Statuses]
         /\ request'.pc = pc
BY DEF RunTypes, AtRequest, Statuses

LEMMA RequestKeepsTypes ==
  ASSUME log \in Seq(Events), RunTypes, TracerJoined,
         CancelBegins \/ ResumeBegins \/ RequestStep
  PROVE  RunTypes' /\ TracerJoined' /\ LogGrows
<1>1. UNCHANGED log => LogGrows
  BY DEF LogGrows
<1>2. CASE CancelBegins \/ ResumeBegins
  BY <1>1, <1>2 DEF CancelBegins, ResumeBegins, RunTypes, TracerJoined, stream
<1>3. CASE CancelSets
  <2>1. RunTypes'
    BY <1>3, RequestMoves, FaultTyped DEF CancelSets, RunTypes, stream, Statuses, Ended
  <2>2. QED
    BY <1>1, <1>3, <2>1 DEF CancelSets, TracerJoined, stream
<1>4. CASE CancelEmits
  <2>1. LogGrows
    BY <1>1, <1>4, EmitEffect DEF CancelEmits, Events, Terminals
  <2>2. RunTypes'
    BY <1>4, RequestMoves DEF CancelEmits, RunTypes
  <2>3. QED
    BY <1>4, <2>1, <2>2 DEF CancelEmits, TracerJoined
<1>5. CASE ResumeSets
  <2>1. RunTypes'
    BY <1>5, RequestMoves DEF ResumeSets, RunTypes, stream, Statuses, Ended
  <2>2. QED
    BY <1>1, <1>5, <2>1 DEF ResumeSets, TracerJoined, stream
<1>6. CASE RequestRecords
  <2>1. RunTypes'
    BY <1>6, RequestMoves, TxTyped DEF RequestRecords, RunTypes, stream, Writers
  <2>2. QED
    BY <1>1, <1>6, <2>1, TxTyped DEF RequestRecords, TracerJoined, stream, Writers
<1>7. QED
  BY <1>2, <1>3, <1>4, <1>5, <1>6 DEF RequestStep

\* The three things taking an event can do to the persister
TakesEnd(n) ==
  /\ log[n] \notin Deltas
  /\ persister' = [pc |-> "write", cursor |-> n, batch |-> <<>>,
                   writing |-> Append(persister.batch, n)]

TakesOther(n) ==
  /\ log[n] \in Deltas
  /\ persister' = [pc |-> "write", cursor |-> n, batch |-> <<n>>, writing |-> persister.batch]

TakesMore(n) ==
  /\ log[n] \in Deltas
  /\ persister' = [pc |-> "read", cursor |-> n, batch |-> Append(persister.batch, n),
                   writing |-> <<>>]

LEMMA TakesCases ==
  ASSUME PersisterTakes, NEW n, n = persister.cursor + 1
  PROVE  TakesEnd(n) \/ TakesOther(n) \/ TakesMore(n)
BY DEF PersisterTakes, TakesEnd, TakesOther, TakesMore

LEMMA PersisterTakesTyped ==
  ASSUME log \in Seq(Events), ConsumerTypes, PersisterTakes
  PROVE  ConsumerTypes'
<1> DEFINE n == persister.cursor + 1
<1>1. n \in 1 .. Len(log) /\ n \in 0 .. Len(log) /\ UNCHANGED <<log, persisted, lost, sse>>
  BY DEF PersisterTakes, ConsumerTypes, stream
<1>2. persister.batch \in Seq(1 .. Len(log))
  BY DEF ConsumerTypes
<1>3. Append(persister.batch, n) \in Seq(1 .. Len(log)) /\ <<n>> \in Seq(1 .. Len(log))
      /\ <<>> \in Seq(1 .. Len(log))
  BY <1>1, <1>2
<1>4. persister' \in [pc : {"read", "write", "done"}, cursor : 0 .. Len(log),
                      batch : Seq(1 .. Len(log)), writing : Seq(1 .. Len(log))]
  <2>1. CASE TakesEnd(n)
    BY <1>1, <1>3, <2>1 DEF TakesEnd
  <2>2. CASE TakesOther(n)
    BY <1>1, <1>2, <1>3, <2>2 DEF TakesOther
  <2>3. CASE TakesMore(n)
    BY <1>1, <1>3, <2>3 DEF TakesMore
  <2>4. QED
    BY <2>1, <2>2, <2>3, TakesCases
<1>5. QED
  BY <1>1, <1>4 DEF ConsumerTypes

\* What a write does to the persister: it has nothing to write any more.
LEMMA AfterWriteEffect ==
  ASSUME ConsumerTypes, AfterWrite
  PROVE  /\ persister' \in [pc : {"read", "write", "done"}, cursor : 0 .. Len(log),
                             batch : Seq(1 .. Len(log)), writing : Seq(1 .. Len(log))]
         /\ persister'.writing = <<>>
         /\ persister'.cursor = persister.cursor
         /\ persister'.batch = persister.batch
         /\ persister'.pc = IF \E i \in DOMAIN persister.writing :
                                 log[persister.writing[i]] \in Terminals
                            THEN "done" ELSE "read"
<1>1. <<>> \in Seq(1 .. Len(log))
  OBVIOUS
<1>2. QED
  BY <1>1 DEF ConsumerTypes, AfterWrite

LEMMA PersisterWritesTyped ==
  ASSUME log \in Seq(Events), RunTypes, TracerJoined, ConsumerTypes, PersisterWrites
  PROVE  RunTypes' /\ TracerJoined' /\ ConsumerTypes'
<1>1. RunTypes' /\ TracerJoined'
  <2>1. UNCHANGED <<status, log, closed, worker, tracer, request, checkpoint, sse>>
    BY DEF PersisterWrites, stream
  <2>2. BeginTx("persister") \/ Commit("persister") \/ Refused("persister")
    BY DEF PersisterWrites
  <2>3. QED
    BY <2>1, <2>2, TxTyped DEF RunTypes, TracerJoined, Writers
<1>2. CASE BeginTx("persister") /\ UNCHANGED <<persister, persisted, lost>>
  <2>1. UNCHANGED <<log, sse>>
    BY DEF PersisterWrites, stream
  <2>2. QED
    BY <1>1, <1>2, <2>1 DEF ConsumerTypes
<1>3. CASE persisted' = persisted \o persister.writing /\ AfterWrite /\ UNCHANGED lost
  <2>1. persisted \o persister.writing \in Seq(1 .. Len(log))
    BY DEF ConsumerTypes
  <2>2. UNCHANGED <<log, sse>>
    BY DEF PersisterWrites, stream
  <2>3. persister' \in [pc : {"read", "write", "done"}, cursor : 0 .. Len(log),
                        batch : Seq(1 .. Len(log)), writing : Seq(1 .. Len(log))]
    BY <1>3, AfterWriteEffect
  <2>4. QED
    BY <1>1, <1>3, <2>1, <2>2, <2>3 DEF ConsumerTypes
<1>4. CASE /\ lost' = lost \cup {persister.writing[i] : i \in DOMAIN persister.writing}
           /\ AfterWrite
           /\ UNCHANGED persisted
  <2>1. \A i \in DOMAIN persister.writing : persister.writing[i] \in 1 .. Len(log)
    BY DEF ConsumerTypes
  <2>2. UNCHANGED <<log, sse>>
    BY DEF PersisterWrites, stream
  <2>3. persister' \in [pc : {"read", "write", "done"}, cursor : 0 .. Len(log),
                        batch : Seq(1 .. Len(log)), writing : Seq(1 .. Len(log))]
    BY <1>4, AfterWriteEffect
  <2>4. lost' \subseteq 1 .. Len(log)
    BY <1>4, <2>1 DEF ConsumerTypes
  <2>5. QED
    BY <1>1, <1>4, <2>2, <2>3, <2>4 DEF ConsumerTypes
<1>5. QED
  BY <1>1, <1>2, <1>3, <1>4 DEF PersisterWrites

LEMMA SseSendsTyped ==
  ASSUME log \in Seq(Events), ConsumerTypes, SseSends
  PROVE  ConsumerTypes'
<1>1. PICK n \in DOMAIN log : FirstEnding(n) /\ sse' = [pc |-> "done", told |-> <<log[n]>>]
  BY DEF SseSends
<1>2. <<log[n]>> \in Seq(Terminals)
  BY <1>1 DEF FirstEnding
<1>3. QED
  BY <1>1, <1>2 DEF SseSends, ConsumerTypes, stream

\* The types hold at the start and are kept by every step, given that another
\* node is started only while there is one.
Types == TypeOK /\ NodesLeft

LEMMA TypesInit == Init => Types
<1> SUFFICES ASSUME Init PROVE Types
  OBVIOUS
<1>1. log = <<>> /\ Len(log) = 0 /\ <<>> \in Seq(Deltas) /\ <<>> \in Seq(1 .. Len(log))
      /\ <<>> \in Seq(Terminals) /\ log \in Seq(Events)
  BY DEF Init
<1>2. RunTypes /\ TracerJoined
  <2>1. tx \in [Writers -> TxStates] /\ tx["tracer"] = "none" /\ ~tracer.pending
    BY DEF Init, Writers, TxStates
  <2>2. "queued" \in Statuses /\ 0 \in 0 .. MaxFaults
    BY DEF Statuses
  <2>3. QED
    BY <2>1, <2>2 DEF Init, RunTypes, TracerJoined
<1>3. WorkerTypes /\ NodesLeft
  BY <1>1 DEF Init, WorkerTypes, NodesLeft, WorkerPcs, Reasons
<1>4. ConsumerTypes
  BY <1>1 DEF Init, ConsumerTypes
<1>5. QED
  BY <1>1, <1>2, <1>3, <1>4, TypesSplit DEF Types

LEMMA TypesKept ==
  ASSUME Types, [Next]_vars
  PROVE  Types' /\ LogGrows
<1>1. log \in Seq(Events) /\ RunTypes /\ TracerJoined /\ WorkerTypes /\ NodesLeft
      /\ ConsumerTypes /\ TypeOK
  BY TypesSplit DEF Types
<1>2. UNCHANGED log => LogGrows
  BY <1>1 DEF LogGrows
<1>3. UNCHANGED worker => WorkerTypes' /\ NodesLeft'
  BY <1>1 DEF WorkerTypes, NodesLeft
<1>4. SUFFICES /\ LogGrows
               /\ RunTypes' /\ TracerJoined' /\ WorkerTypes' /\ NodesLeft' /\ ConsumerTypes'
  <2>1. LogGrows => log' \in Seq(Events)
    BY DEF LogGrows
  <2>2. QED
    BY <1>4, <2>1 DEF Types, TypeOK, RunTypes, TracerJoined, WorkerTypes, ConsumerTypes
<1>5. CASE WorkerStep
  BY <1>1, <1>5, WorkerKeepsTypes, ConsumersKept
<1>6. CASE TracerStep
  <2>1. UNCHANGED <<log, worker>> /\ UNCHANGED consumers
    BY <1>6 DEF TracerStep, stream
  <2>2. QED
    BY <1>1, <1>2, <1>3, <1>6, <2>1, TracerKeepsTypes, ConsumersKept
<1>7. CASE CancelBegins \/ ResumeBegins \/ RequestStep
  <2>1. UNCHANGED worker /\ UNCHANGED consumers
    BY <1>7 DEF CancelBegins, ResumeBegins, RequestStep, CancelSets, CancelEmits, ResumeSets,
                RequestRecords
  <2>2. QED
    BY <1>1, <1>3, <1>7, <2>1, RequestKeepsTypes, ConsumersKept
<1>8. CASE PersisterTakes \/ SseSends
  <2>1. UNCHANGED <<status, log, closed, tx, worker, tracer, request, checkpoint, faults>>
    BY <1>8 DEF PersisterTakes, SseSends, stream
  <2>2. RunTypes' /\ TracerJoined'
    BY <1>1, <2>1 DEF RunTypes, TracerJoined
  <2>3. QED
    BY <1>1, <1>2, <1>3, <1>8, <2>1, <2>2, PersisterTakesTyped, SseSendsTyped
<1>9. CASE PersisterWrites
  <2>1. UNCHANGED <<log, worker>>
    BY <1>9 DEF PersisterWrites, stream
  <2>2. QED
    BY <1>1, <1>2, <1>3, <1>9, <2>1, PersisterWritesTyped
<1>10. CASE UNCHANGED vars
  BY <1>1, <1>2, <1>3, <1>10, ConsumersKept DEF vars, stream, consumers, RunTypes, TracerJoined
<1>11. QED
  BY <1>5, <1>6, <1>7, <1>8, <1>9, <1>10 DEF Next, PersisterStep

\* For any nodes, streams and faults the state is of its type, and a trace is
\* at work only while its node is (run_live_event_persister and its join).
THEOREM TypeCorrect == Spec => []TypeOK
<1>1. Init => Types
  BY TypesInit
<1>2. Types /\ [Next]_vars => Types'
  BY TypesKept
<1>3. Types => TypeOK
  BY DEF Types
<1>4. QED
  BY <1>1, <1>2, <1>3, PTL DEF Spec

-----------------------------------------------------------------------------
\* The events two batches hold together, and when they are in order
LEMMA ConcatElements ==
  ASSUME NEW m \in Nat, NEW s \in Seq(1 .. m), NEW t \in Seq(1 .. m)
  PROVE  ElementsOf(s \o t) = ElementsOf(s) \cup ElementsOf(t)
<1>1. Len(s) \in Nat /\ Len(t) \in Nat /\ Len(s \o t) = Len(s) + Len(t)
  OBVIOUS
<1>2. /\ DOMAIN s = 1 .. Len(s) /\ DOMAIN t = 1 .. Len(t)
      /\ DOMAIN (s \o t) = 1 .. Len(s) + Len(t)
  BY <1>1
<1>3. \A i \in 1 .. Len(s) : (s \o t)[i] = s[i]
  BY <1>1
<1>4. \A i \in 1 .. Len(t) : (s \o t)[Len(s) + i] = t[i]
  BY <1>1
<1>5. ASSUME NEW x \in ElementsOf(s \o t)
      PROVE  x \in ElementsOf(s) \cup ElementsOf(t)
  <2>1. PICK i \in 1 .. Len(s) + Len(t) : x = (s \o t)[i]
    BY <1>2 DEF ElementsOf
  <2>2. CASE i <= Len(s)
    BY <1>1, <1>2, <1>3, <2>1, <2>2 DEF ElementsOf
  <2>3. CASE i > Len(s)
    <3>1. i - Len(s) \in 1 .. Len(t) /\ Len(s) + (i - Len(s)) = i
      BY <1>1, <2>3
    <3>2. x = t[i - Len(s)]
      BY <1>4, <2>1, <3>1
    <3>3. QED
      BY <1>2, <3>1, <3>2 DEF ElementsOf
  <2>4. QED
    BY <1>1, <2>2, <2>3
<1>6. ElementsOf(s) \subseteq ElementsOf(s \o t)
  BY <1>1, <1>2, <1>3 DEF ElementsOf
<1>7. ASSUME NEW i \in 1 .. Len(t)
      PROVE  t[i] \in ElementsOf(s \o t)
  <2>1. Len(s) + i \in 1 .. Len(s) + Len(t)
    BY <1>1
  <2>2. QED
    BY <1>2, <1>4, <2>1 DEF ElementsOf
<1>8. QED
  BY <1>2, <1>5, <1>6, <1>7 DEF ElementsOf

Before(A, B) == \A x \in A, y \in B : x < y

LEMMA ConcatIncreasing ==
  ASSUME NEW m \in Nat, NEW s \in Seq(1 .. m), NEW t \in Seq(1 .. m)
  PROVE  Increasing(s \o t) <=> /\ Increasing(s) /\ Increasing(t)
                                /\ Before(ElementsOf(s), ElementsOf(t))
<1>1. Len(s) \in Nat /\ Len(t) \in Nat /\ Len(s \o t) = Len(s) + Len(t)
  OBVIOUS
<1>2. /\ DOMAIN s = 1 .. Len(s) /\ DOMAIN t = 1 .. Len(t)
      /\ DOMAIN (s \o t) = 1 .. Len(s) + Len(t)
  BY <1>1
<1>3. \A i \in 1 .. Len(s) : (s \o t)[i] = s[i]
  BY <1>1
<1>4. \A i \in 1 .. Len(t) : (s \o t)[Len(s) + i] = t[i]
  BY <1>1
<1>5. ASSUME Increasing(s), Increasing(t), Before(ElementsOf(s), ElementsOf(t))
      PROVE  Increasing(s \o t)
  <2>1. SUFFICES ASSUME NEW i \in 1 .. Len(s) + Len(t), NEW j \in 1 .. Len(s) + Len(t), i < j
                 PROVE  (s \o t)[i] < (s \o t)[j]
    BY <1>2 DEF Increasing
  <2>2. CASE j <= Len(s)
    <3>1. i \in 1 .. Len(s) /\ j \in 1 .. Len(s)
      BY <1>1, <2>1, <2>2
    <3>2. QED
      BY <1>2, <1>3, <1>5, <2>1, <3>1 DEF Increasing
  <2>3. CASE i <= Len(s) /\ j > Len(s)
    <3>1. i \in 1 .. Len(s) /\ j - Len(s) \in 1 .. Len(t) /\ Len(s) + (j - Len(s)) = j
      BY <1>1, <2>3
    <3>2. s[i] \in ElementsOf(s) /\ t[j - Len(s)] \in ElementsOf(t)
      BY <1>2, <3>1 DEF ElementsOf
    <3>3. s[i] < t[j - Len(s)]
      BY <1>5, <3>2 DEF Before
    <3>4. (s \o t)[j] = t[j - Len(s)]
      BY <1>4, <3>1
    <3>5. QED
      BY <1>3, <3>1, <3>3, <3>4
  <2>4. CASE i > Len(s)
    <3>1. /\ i - Len(s) \in 1 .. Len(t) /\ Len(s) + (i - Len(s)) = i
          /\ j - Len(s) \in 1 .. Len(t) /\ Len(s) + (j - Len(s)) = j
          /\ i - Len(s) < j - Len(s)
      BY <1>1, <2>1, <2>4
    <3>2. (s \o t)[i] = t[i - Len(s)] /\ (s \o t)[j] = t[j - Len(s)]
      BY <1>4, <3>1
    <3>3. t[i - Len(s)] < t[j - Len(s)]
      BY <1>2, <1>5, <3>1 DEF Increasing
    <3>4. QED
      BY <3>2, <3>3
  <2>5. QED
    BY <1>1, <2>2, <2>3, <2>4
<1>6. ASSUME Increasing(s \o t)
      PROVE  Increasing(s) /\ Increasing(t) /\ Before(ElementsOf(s), ElementsOf(t))
  <2>1. Increasing(s)
    <3>1. SUFFICES ASSUME NEW i \in 1 .. Len(s), NEW j \in 1 .. Len(s), i < j
                   PROVE  s[i] < s[j]
      BY <1>2 DEF Increasing
    <3>2. i \in 1 .. Len(s) + Len(t) /\ j \in 1 .. Len(s) + Len(t)
      BY <1>1
    <3>3. (s \o t)[i] < (s \o t)[j]
      BY <1>2, <1>6, <3>1, <3>2 DEF Increasing
    <3>4. QED
      BY <1>3, <3>3
  <2>2. ASSUME NEW i \in 1 .. Len(t), NEW j \in 1 .. Len(t), i < j
        PROVE  t[i] < t[j]
    <3>1. /\ Len(s) + i \in 1 .. Len(s) + Len(t) /\ Len(s) + j \in 1 .. Len(s) + Len(t)
          /\ Len(s) + i < Len(s) + j
      BY <1>1, <2>2
    <3>2. (s \o t)[Len(s) + i] < (s \o t)[Len(s) + j]
      BY <1>2, <1>6, <3>1 DEF Increasing
    <3>3. QED
      BY <1>4, <3>2
  <2>3. ASSUME NEW i \in 1 .. Len(s), NEW j \in 1 .. Len(t)
        PROVE  s[i] < t[j]
    <3>1. /\ i \in 1 .. Len(s) + Len(t) /\ Len(s) + j \in 1 .. Len(s) + Len(t)
          /\ i < Len(s) + j
      BY <1>1
    <3>2. (s \o t)[i] < (s \o t)[Len(s) + j]
      BY <1>2, <1>6, <3>1 DEF Increasing
    <3>3. QED
      BY <1>3, <1>4, <3>2
  <2>4. QED
    BY <1>2, <2>1, <2>2, <2>3 DEF Increasing, Before, ElementsOf
<1>7. QED
  BY <1>5, <1>6

\* A batch without events, and one of one event
LEMMA EmptyBatch == ElementsOf(<<>>) = {} /\ Increasing(<<>>)
BY DEF ElementsOf, Increasing

LEMMA SingleBatch ==
  ASSUME NEW n
  PROVE  ElementsOf(<<n>>) = {n} /\ Increasing(<<n>>)
<1>1. DOMAIN <<n>> = {1} /\ <<n>>[1] = n
  OBVIOUS
<1>2. QED
  BY <1>1 DEF ElementsOf, Increasing

LEMMA BatchGrows ==
  ASSUME NEW m \in Nat, NEW b \in Seq(1 .. m), NEW n \in 1 .. m
  PROVE  /\ ElementsOf(Append(b, n)) = ElementsOf(b) \cup {n}
         /\ Increasing(b) /\ Before(ElementsOf(b), {n}) => Increasing(Append(b, n))
<1>1. <<n>> \in Seq(1 .. m) /\ Append(b, n) = b \o <<n>>
  OBVIOUS
<1>2. ElementsOf(<<n>>) = {n} /\ Increasing(<<n>>)
  BY SingleBatch
<1>3. ElementsOf(b \o <<n>>) = ElementsOf(b) \cup ElementsOf(<<n>>)
  <2>1. \A t \in Seq(1 .. m) : ElementsOf(b \o t) = ElementsOf(b) \cup ElementsOf(t)
    BY ConcatElements
  <2>2. QED
    BY <1>1, <2>1
<1>4. Increasing(b \o <<n>>) <=> /\ Increasing(b) /\ Increasing(<<n>>)
                                /\ Before(ElementsOf(b), ElementsOf(<<n>>))
  BY <1>1, ConcatIncreasing
<1>5. QED
  BY <1>1, <1>2, <1>3, <1>4

LEMMA LastIn ==
  ASSUME NEW m \in Nat, NEW b \in Seq(1 .. m), NEW k \in 1 .. m
  PROVE  k \in ElementsOf(Append(b, k))
<1>1. ElementsOf(Append(b, k)) = ElementsOf(b) \cup {k}
  BY BatchGrows
<1>2. QED
  BY <1>1

\* PersisterAccountsForAll without concatenations
Accounted ==
  /\ Increasing(persisted) /\ Increasing(persister.writing) /\ Increasing(persister.batch)
  /\ Before(ElementsOf(persisted), ElementsOf(persister.writing))
  /\ Before(ElementsOf(persisted) \cup ElementsOf(persister.writing),
            ElementsOf(persister.batch))
  /\ ElementsOf(persisted) \cup ElementsOf(persister.writing) \cup ElementsOf(persister.batch)
       \cup lost = 1 .. persister.cursor
  /\ (ElementsOf(persisted) \cup ElementsOf(persister.writing) \cup ElementsOf(persister.batch))
       \cap lost = {}

LEMMA AccountedMeans ==
  ASSUME log \in Seq(Events), ConsumerTypes
  PROVE  PersisterAccountsForAll <=> Accounted
<1>1. Len(log) \in Nat /\ persisted \in Seq(1 .. Len(log))
      /\ persister.writing \in Seq(1 .. Len(log)) /\ persister.batch \in Seq(1 .. Len(log))
  BY DEF ConsumerTypes
<1>2. persisted \o persister.writing \in Seq(1 .. Len(log))
  BY <1>1
<1>3. /\ ElementsOf(persisted \o persister.writing) =
             ElementsOf(persisted) \cup ElementsOf(persister.writing)
      /\ Increasing(persisted \o persister.writing) <=>
           /\ Increasing(persisted) /\ Increasing(persister.writing)
           /\ Before(ElementsOf(persisted), ElementsOf(persister.writing))
  BY <1>1, ConcatElements, ConcatIncreasing
<1>4. /\ ElementsOf((persisted \o persister.writing) \o persister.batch) =
             ElementsOf(persisted \o persister.writing) \cup ElementsOf(persister.batch)
      /\ Increasing((persisted \o persister.writing) \o persister.batch) <=>
           /\ Increasing(persisted \o persister.writing) /\ Increasing(persister.batch)
           /\ Before(ElementsOf(persisted \o persister.writing), ElementsOf(persister.batch))
  <2>1. \A s \in Seq(1 .. Len(log)) :
          /\ ElementsOf(s \o persister.batch) = ElementsOf(s) \cup ElementsOf(persister.batch)
          /\ Increasing(s \o persister.batch) <=>
               /\ Increasing(s) /\ Increasing(persister.batch)
               /\ Before(ElementsOf(s), ElementsOf(persister.batch))
    BY <1>1, ConcatElements, ConcatIncreasing
  <2>2. QED
    BY <1>2, <2>1
<1>5. QED
  BY <1>3, <1>4 DEF PersisterAccountsForAll, Accounted

LEMMA TakesAccounted ==
  ASSUME log \in Seq(Events), ConsumerTypes, PersisterControl, Accounted, PersisterTakes
  PROVE  PersisterControl' /\ Accounted'
<1> DEFINE n == persister.cursor + 1
           taken == ElementsOf(persisted) \cup ElementsOf(persister.batch)
<1>1. n \in 1 .. Len(log) /\ persister.writing = <<>> /\ UNCHANGED <<persisted, lost>>
      /\ persister.cursor \in Nat
  <2>1. persister.pc = "read" /\ persister.cursor < Len(log) /\ UNCHANGED <<persisted, lost>>
    BY DEF PersisterTakes
  <2>2. persister.cursor \in 0 .. Len(log) /\ Len(log) \in Nat
    BY DEF ConsumerTypes
  <2>3. QED
    BY <2>1, <2>2 DEF PersisterControl
<1>2. Len(log) \in Nat /\ persister.batch \in Seq(1 .. Len(log))
  BY DEF ConsumerTypes
<1>3. /\ Increasing(persisted) /\ Increasing(persister.batch)
      /\ Before(ElementsOf(persisted), ElementsOf(persister.batch))
      /\ taken \cup lost = 1 .. persister.cursor /\ taken \cap lost = {}
  BY <1>1, EmptyBatch DEF Accounted
<1>4. 1 .. n = 1 .. persister.cursor \cup {n} /\ n \notin 1 .. persister.cursor
  BY <1>1
<1>5. Before(taken, {n}) /\ n \notin lost
  BY <1>1, <1>3, <1>4 DEF Before
<1>6. /\ ElementsOf(Append(persister.batch, n)) = ElementsOf(persister.batch) \cup {n}
      /\ Increasing(Append(persister.batch, n))
  BY <1>1, <1>2, <1>3, <1>5, BatchGrows DEF Before
<1>7. /\ ElementsOf(<<n>>) = {n} /\ Increasing(<<n>>)
      /\ ElementsOf(<<>>) = {} /\ Increasing(<<>>)
  BY SingleBatch, EmptyBatch
<1>8. /\ taken \cup {n} \cup lost = 1 .. n /\ (taken \cup {n}) \cap lost = {}
      /\ Before(ElementsOf(persisted), ElementsOf(persister.batch) \cup {n})
  BY <1>3, <1>4, <1>5 DEF Before
<1>9. CASE TakesEnd(n)
  <2>1. /\ persister'.pc = "write" /\ persister'.writing = Append(persister.batch, n)
        /\ persister'.batch = <<>> /\ persister'.cursor = n
    BY <1>9 DEF TakesEnd
  <2>2. QED
    BY <1>1, <1>3, <1>6, <1>7, <1>8, <2>1 DEF PersisterControl, Accounted, Before
<1>10. CASE TakesOther(n)
  <2>1. /\ persister'.pc = "write" /\ persister'.writing = persister.batch
        /\ persister'.batch = <<n>> /\ persister'.cursor = n
    BY <1>10 DEF TakesOther
  <2>2. QED
    BY <1>1, <1>3, <1>5, <1>7, <1>8, <2>1 DEF PersisterControl, Accounted
<1>11. CASE TakesMore(n)
  <2>1. /\ persister'.pc = "read" /\ persister'.writing = <<>>
        /\ persister'.batch = Append(persister.batch, n) /\ persister'.cursor = n
    BY <1>11 DEF TakesMore
  <2>2. QED
    BY <1>1, <1>3, <1>6, <1>7, <1>8, <2>1 DEF PersisterControl, Accounted, Before
<1>12. QED
  BY <1>9, <1>10, <1>11, TakesCases

LEMMA WritesAccounted ==
  ASSUME log \in Seq(Events), ConsumerTypes, PersisterControl, Accounted, PersisterWrites
  PROVE  PersisterControl' /\ Accounted'
<1> DEFINE written == ElementsOf(persister.writing)
<1>1. Len(log) \in Nat /\ persisted \in Seq(1 .. Len(log))
      /\ persister.writing \in Seq(1 .. Len(log))
      /\ ElementsOf(<<>>) = {} /\ Increasing(<<>>)
  BY EmptyBatch DEF ConsumerTypes
<1>2. CASE UNCHANGED <<persister, persisted, lost>>
  BY <1>2 DEF PersisterControl, Accounted
<1>3. CASE persisted' = persisted \o persister.writing /\ AfterWrite /\ UNCHANGED lost
  <2>1. ElementsOf(persisted') = ElementsOf(persisted) \cup written /\ Increasing(persisted')
    BY <1>1, <1>3, ConcatElements, ConcatIncreasing DEF Accounted
  <2>2. /\ persister'.writing = <<>> /\ persister'.batch = persister.batch
        /\ persister'.cursor = persister.cursor
    BY <1>3, AfterWriteEffect
  <2>3. QED
    BY <1>1, <1>3, <2>1, <2>2 DEF PersisterControl, Accounted, Before
<1>4. CASE lost' = lost \cup written /\ AfterWrite /\ UNCHANGED persisted
  <2>1. /\ persister'.writing = <<>> /\ persister'.batch = persister.batch
        /\ persister'.cursor = persister.cursor
    BY <1>4, AfterWriteEffect
  <2>2. written \cap (ElementsOf(persisted) \cup ElementsOf(persister.batch)) = {}
    <3>1. written \subseteq Nat /\ ElementsOf(persister.batch) \subseteq Nat
      BY <1>1 DEF ElementsOf, ConsumerTypes
    <3>2. Before(ElementsOf(persisted), written) /\ Before(written, ElementsOf(persister.batch))
      BY DEF Accounted, Before
    <3>3. \A x \in Nat : ~(x < x)
      OBVIOUS
    <3>4. QED
      BY <3>1, <3>2, <3>3 DEF Before
  <2>3. QED
    BY <1>1, <1>4, <2>1, <2>2 DEF PersisterControl, Accounted, Before
<1>5. QED
  BY <1>2, <1>3, <1>4 DEF PersisterWrites, ElementsOf

Accounting == Types /\ PersisterControl /\ Accounted

LEMMA AccountingKept ==
  ASSUME Accounting, [Next]_vars
  PROVE  Accounting'
<1>1. Types' /\ log \in Seq(Events) /\ ConsumerTypes
  BY TypesKept, TypesSplit DEF Accounting, Types
<1>2. CASE UNCHANGED <<persister, persisted, lost>>
  BY <1>1, <1>2 DEF Accounting, PersisterControl, Accounted
<1>3. CASE PersisterTakes
  BY <1>1, <1>3, TakesAccounted DEF Accounting
<1>4. CASE PersisterWrites
  BY <1>1, <1>4, WritesAccounted DEF Accounting
<1>5. CASE WorkerStep
  BY <1>1, <1>2, <1>5, WorkerKeepsTypes, TypesSplit DEF Accounting, Types, consumers
<1>6. CASE TracerStep \/ CancelBegins \/ ResumeBegins \/ RequestStep \/ SseSends
  BY <1>2, <1>6 DEF TracerStep, CancelBegins, ResumeBegins, RequestStep, CancelSets,
     CancelEmits, ResumeSets, RequestRecords, SseSends, consumers
<1>7. CASE UNCHANGED vars
  BY <1>2, <1>7 DEF vars, consumers
<1>8. QED
  BY <1>3, <1>4, <1>5, <1>6, <1>7 DEF Next, PersisterStep

LEMMA AccountingInvariant == Spec => []Accounting
<1>1. Init => Accounting
  <2>1. SUFFICES ASSUME Init PROVE Accounting
    OBVIOUS
  <2>2. /\ persister.cursor = 0 /\ persister.batch = <<>> /\ persister.writing = <<>>
        /\ persisted = <<>> /\ lost = {}
    BY <2>1 DEF Init
  <2>3. QED
    BY <2>1, <2>2, TypesInit, EmptyBatch
       DEF Accounting, PersisterControl, Accounted, Before
<1>2. Accounting /\ [Next]_vars => Accounting'
  BY AccountingKept
<1>3. QED
  BY <1>1, <1>2, PTL DEF Spec

\* Whatever is refused for its sequence number or fails, and however long it
\* takes: an event the persister took (push_debug_event_for_persistence) is
\* written once and in order, waits, or was in a batch whose write failed.
THEOREM NothingUnaccounted == Spec => []PersisterAccountsForAll
<1>1. Accounting => PersisterAccountsForAll
  BY AccountedMeans, TypesSplit DEF Accounting, Types
<1>2. QED
  BY <1>1, AccountingInvariant, PTL

-----------------------------------------------------------------------------
LEMMA LogKept ==
  ASSUME log \in Seq(Events), ConsumerTypes, LogGrows
  PROVE  /\ \A n \in 1 .. persister.cursor : n \in DOMAIN log /\ log'[n] = log[n]
         /\ \A n \in DOMAIN log : FirstEnding(n) => FirstEnding(n)'
<1>1. Len(log) \in Nat /\ DOMAIN log = 1 .. Len(log) /\ persister.cursor \in 0 .. Len(log)
  BY DEF ConsumerTypes
<1>2. \A n \in DOMAIN log : log'[n] = log[n]
  BY DEF LogGrows
<1>3. \A n \in 1 .. persister.cursor : n \in DOMAIN log
  BY <1>1
<1>4. ASSUME NEW n \in DOMAIN log, FirstEnding(n)
      PROVE  FirstEnding(n)'
  <2>1. \A i \in 1 .. n - 1 : i \in DOMAIN log
    BY <1>1
  <2>2. QED
    BY <1>2, <1>4, <2>1 DEF FirstEnding
<1>5. QED
  BY <1>2, <1>3, <1>4

LEMMA EndsStill ==
  ASSUME log \in Seq(Events), ConsumerTypes, EndsAtTerminal, LogGrows, UNCHANGED persister
  PROVE  EndsAtTerminal'
<1>1. \A n \in 1 .. persister.cursor : log'[n] = log[n]
  BY LogKept
<1>2. /\ persister.cursor \in Nat
      /\ \A n \in 1 .. persister.cursor - 1 : n \in 1 .. persister.cursor
      /\ persister.cursor > 0 => persister.cursor \in 1 .. persister.cursor
  BY DEF ConsumerTypes
<1>3. QED
  BY <1>1, <1>2 DEF EndsAtTerminal

LEMMA TakesEndsAtTerminal ==
  ASSUME log \in Seq(Events), ConsumerTypes, EndsAtTerminal, PersisterTakes
  PROVE  EndsAtTerminal'
<1> DEFINE n == persister.cursor + 1
<1>1. persister.pc = "read" /\ UNCHANGED log /\ persister.cursor < Len(log)
  BY DEF PersisterTakes, stream
<1>2. Len(log) \in Nat /\ persister.cursor \in Nat /\ persister.batch \in Seq(1 .. Len(log))
      /\ n \in 1 .. Len(log)
  BY <1>1 DEF ConsumerTypes
<1>3. \A i \in 1 .. n - 1 : log[i] \notin Terminals
  <2>1. SUFFICES ASSUME NEW i \in 1 .. n - 1 PROVE log[i] \notin Terminals
    OBVIOUS
  <2>2. CASE i = persister.cursor
    BY <1>1, <1>2, <2>2 DEF EndsAtTerminal
  <2>3. CASE i # persister.cursor
    <3>1. i \in 1 .. persister.cursor - 1
      BY <1>2, <2>3
    <3>2. QED
      BY <3>1 DEF EndsAtTerminal
  <2>4. QED
    BY <2>2, <2>3
<1>4. log[n] \in Terminals => log[n] \notin Deltas
  BY DEF Terminals, Deltas
<1>5. n \in ElementsOf(Append(persister.batch, n))
  <2>1. Len(log) \in Nat
    BY <1>2
  <2>2. \A b \in Seq(1 .. Len(log)) : \A k \in 1 .. Len(log) : k \in ElementsOf(Append(b, k))
    BY <2>1, LastIn
  <2>3. QED
    BY <1>2, <2>2
<1>6. CASE TakesEnd(n)
  <2>1. persister'.pc = "write" /\ persister'.cursor = n
        /\ persister'.writing = Append(persister.batch, n)
    BY <1>6 DEF TakesEnd
  <2>2. QED
    BY <1>1, <1>2, <1>3, <1>5, <2>1 DEF EndsAtTerminal
<1>7. CASE TakesOther(n) \/ TakesMore(n)
  <2>1. persister'.pc # "done" /\ persister'.cursor = n /\ log[n] \notin Terminals
    BY <1>4, <1>7 DEF TakesOther, TakesMore
  <2>2. QED
    BY <1>1, <1>2, <1>3, <2>1 DEF EndsAtTerminal
<1>8. QED
  BY <1>6, <1>7, TakesCases

LEMMA WritesEndsAtTerminal ==
  ASSUME log \in Seq(Events), ConsumerTypes, Accounted, EndsAtTerminal, PersisterWrites
  PROVE  EndsAtTerminal'
<1>1. UNCHANGED log /\ persister.pc = "write"
  BY DEF PersisterWrites, stream
<1>2. CASE UNCHANGED persister
  BY <1>1, <1>2 DEF EndsAtTerminal
<1>3. CASE AfterWrite
  <2>1. /\ persister'.cursor = persister.cursor
        /\ persister'.pc = IF \E i \in DOMAIN persister.writing :
                                log[persister.writing[i]] \in Terminals
                           THEN "done" ELSE "read"
    BY <1>3, AfterWriteEffect
  <2>2. persister.cursor \in Nat
    BY DEF ConsumerTypes
  <2>3. ASSUME NEW i \in DOMAIN persister.writing, log[persister.writing[i]] \in Terminals
        PROVE  persister.cursor > 0 /\ log[persister.cursor] \in Terminals
    <3>1. persister.writing[i] \in 1 .. persister.cursor
      BY DEF Accounted, ElementsOf
    <3>2. persister.writing[i] \notin 1 .. persister.cursor - 1
      BY <2>3 DEF EndsAtTerminal
    <3>3. persister.writing[i] = persister.cursor
      BY <2>2, <3>1, <3>2
    <3>4. QED
      BY <2>2, <2>3, <3>1, <3>3
  <2>4. ASSUME persister.cursor > 0, log[persister.cursor] \in Terminals
        PROVE  persister'.pc = "done"
    <3>1. persister.cursor \in ElementsOf(persister.writing)
      BY <1>1, <2>4 DEF EndsAtTerminal
    <3>2. QED
      BY <2>1, <2>4, <3>1 DEF ElementsOf
  <2>5. QED
    BY <1>1, <2>1, <2>3, <2>4 DEF EndsAtTerminal
<1>4. QED
  BY <1>2, <1>3 DEF PersisterWrites

Ending == Accounting /\ EndsAtTerminal /\ SenderControl

LEMMA SenderKept ==
  ASSUME log \in Seq(Events), ConsumerTypes, SenderControl, LogGrows,
         UNCHANGED sse \/ SseSends
  PROVE  SenderControl'
<1>1. \A n \in DOMAIN log : /\ n \in DOMAIN log' /\ log'[n] = log[n]
                            /\ FirstEnding(n) => FirstEnding(n)'
  BY LogKept DEF LogGrows
<1>2. CASE UNCHANGED sse
  BY <1>1, <1>2 DEF SenderControl
<1>3. CASE SseSends
  <2>1. PICK n \in DOMAIN log : FirstEnding(n) /\ sse' = [pc |-> "done", told |-> <<log[n]>>]
    BY <1>3 DEF SseSends
  <2>2. QED
    BY <1>1, <2>1 DEF SenderControl
<1>4. QED
  BY <1>2, <1>3

LEMMA EndingKept ==
  ASSUME Ending, [Next]_vars
  PROVE  Ending'
<1>1. Accounting' /\ LogGrows /\ log \in Seq(Events) /\ ConsumerTypes /\ Accounted
  BY AccountingKept, TypesKept, TypesSplit DEF Ending, Accounting, Types
<1>2. EndsAtTerminal'
  <2>1. CASE UNCHANGED persister
    BY <1>1, <2>1, EndsStill DEF Ending
  <2>2. CASE PersisterStep
    BY <1>1, <2>2, TakesEndsAtTerminal, WritesEndsAtTerminal DEF Ending, PersisterStep
  <2>3. CASE WorkerStep
    BY <1>1, <2>1, <2>3, WorkerKeepsTypes, TypesSplit DEF Ending, Accounting, Types, consumers
  <2>4. CASE TracerStep \/ CancelBegins \/ ResumeBegins \/ RequestStep \/ SseSends
    BY <2>1, <2>4 DEF TracerStep, CancelBegins, ResumeBegins, RequestStep, CancelSets,
       CancelEmits, ResumeSets, RequestRecords, SseSends, consumers
  <2>5. CASE UNCHANGED vars
    BY <2>1, <2>5 DEF vars, consumers
  <2>6. QED
    BY <2>2, <2>3, <2>4, <2>5 DEF Next
<1>3. SenderControl'
  <2>1. CASE UNCHANGED sse \/ SseSends
    BY <1>1, <2>1, SenderKept DEF Ending
  <2>2. CASE WorkerStep
    BY <1>1, <2>1, <2>2, WorkerKeepsTypes, TypesSplit DEF Ending, Accounting, Types, consumers
  <2>3. CASE TracerStep \/ CancelBegins \/ ResumeBegins \/ RequestStep \/ PersisterStep
    BY <2>1, <2>3 DEF TracerStep, CancelBegins, ResumeBegins, RequestStep, CancelSets,
       CancelEmits, ResumeSets, RequestRecords, PersisterStep, PersisterTakes,
       PersisterWrites, consumers
  <2>4. CASE UNCHANGED vars
    BY <2>1, <2>4 DEF vars, consumers
  <2>5. QED
    BY <2>1, <2>2, <2>3, <2>4 DEF Next
<1>4. QED
  BY <1>1, <1>2, <1>3 DEF Ending

LEMMA EndingInvariant == Spec => []Ending
<1>1. Init => Ending
  <2>1. SUFFICES ASSUME Init PROVE Ending
    OBVIOUS
  <2>2. persister.cursor = 0 /\ persister.pc = "read" /\ sse = [pc |-> "read", told |-> <<>>]
    BY <2>1 DEF Init
  <2>3. Accounting
    <3>1. /\ persister.batch = <<>> /\ persister.writing = <<>>
          /\ persisted = <<>> /\ lost = {}
      BY <2>1 DEF Init
    <3>2. QED
      BY <2>1, <2>2, <3>1, TypesInit, EmptyBatch
         DEF Accounting, PersisterControl, Accounted, Before
  <2>4. QED
    BY <2>2, <2>3 DEF Ending, EndsAtTerminal, SenderControl
<1>2. Ending /\ [Next]_vars => Ending'
  BY EndingKept
<1>3. QED
  BY <1>1, <1>2, PTL DEF Spec

\* However many terminal events the writers of a run append: the persister
\* (flush_debug_event_batch) and the sender (send_runtime_event_stream) both
\* stop at the first.
THEOREM OneEnding == Spec => []ConsumersAgree
<1>1. Ending => ConsumersAgree
  <2>1. SUFFICES ASSUME Ending PROVE ConsumersAgree
    OBVIOUS
  <2>2. log \in Seq(Events) /\ ConsumerTypes
    BY <2>1, TypesSplit DEF Ending, Accounting, Types
  <2>3. persister.cursor \in Nat /\ Len(log) \in Nat /\ DOMAIN log = 1 .. Len(log)
        /\ sse.pc \in {"read", "done"}
    BY <2>2 DEF ConsumerTypes
  <2>4. sse.told = <<>> \/ \E n \in DOMAIN log : FirstEnding(n) /\ sse.told = <<log[n]>>
    BY <2>1, <2>3 DEF Ending, SenderControl
  <2>5. Len(sse.told) <= 1
    <3>1. CASE sse.told = <<>>
      BY <3>1
    <3>2. CASE \E n \in DOMAIN log : FirstEnding(n) /\ sse.told = <<log[n]>>
      <4>1. PICK n \in DOMAIN log : sse.told = <<log[n]>>
        BY <3>2
      <4>2. QED
        BY <4>1
    <3>3. QED
      BY <2>4, <3>1, <3>2
  <2>6. ASSUME persister.pc = "done", NEW n \in DOMAIN log, FirstEnding(n)
        PROVE  n = persister.cursor
    <3>1. persister.cursor > 0 /\ log[persister.cursor] \in Terminals
      BY <2>1, <2>6 DEF Ending, EndsAtTerminal
    <3>2. n \notin 1 .. persister.cursor - 1
      BY <2>1, <2>6 DEF Ending, EndsAtTerminal, FirstEnding
    <3>3. persister.cursor \notin 1 .. n - 1
      BY <2>6, <3>1 DEF FirstEnding
    <3>4. QED
      BY <2>3, <3>1, <3>2, <3>3
  <2>7. persister.pc = "done" /\ sse.told # <<>> => sse.told = <<log[persister.cursor]>>
    BY <2>4, <2>6
  <2>8. QED
    BY <2>1, <2>5, <2>7 DEF Ending, EndsAtTerminal, ConsumersAgree
<1>2. QED
  BY <1>1, EndingInvariant, PTL

-----------------------------------------------------------------------------
\* A step that adds no terminal event
SameEndings ==
  /\ InLog("flow_finished")' <=> InLog("flow_finished")
  /\ InLog("flow_failed")' <=> InLog("flow_failed")
  /\ InLog("flow_cancelled")' <=> InLog("flow_cancelled")

LEMMA LogUnchanged == ASSUME UNCHANGED log PROVE SameEndings
BY DEF SameEndings, InLog

LEMMA LogGains ==
  ASSUME log \in Seq(Events), NEW e \in Events, Emit(e)
  PROVE  /\ \A x \in Events : InLog(x)' <=> InLog(x) \/ (x = e /\ InLog(e)')
         /\ closed => SameEndings
         /\ ~closed => InLog(e)'
<1>1. /\ LogGrows
      /\ closed => log' = log
      /\ ~closed => \E n \in DOMAIN log' : log'[n] = e
      /\ \A n \in DOMAIN log' : n \in DOMAIN log \/ log'[n] = e
  BY EmitEffect
<1>2. \A x \in Events : InLog(x)' <=> InLog(x) \/ (x = e /\ InLog(e)')
  BY <1>1 DEF LogGrows, InLog
<1>3. QED
  BY <1>1, <1>2, LogUnchanged DEF InLog

\* Events that do not end the run
LEMMA NoEndingGained ==
  ASSUME log \in Seq(Events), NEW e \in Events \ Terminals, Emit(e)
  PROVE  SameEndings
<1>1. /\ "flow_finished" \in Events /\ "flow_failed" \in Events /\ "flow_cancelled" \in Events
      /\ e # "flow_finished" /\ e # "flow_failed" /\ e # "flow_cancelled"
  BY DEF Events, Terminals
<1>2. \A x \in Events : InLog(x)' <=> InLog(x) \/ (x = e /\ InLog(e)')
  BY LogGains
<1>3. QED
  BY <1>1, <1>2 DEF SameEndings

LEMMA HasEndingMeans == HasEnding <=> \E n \in DOMAIN log : log[n] \in Terminals
BY DEF HasEnding, InLog, Terminals

LEMMA EmitsKeepsTruth ==
  ASSUME log \in Seq(Events), WorkerTypes, Truth, WorkerEmits
  PROVE  Truth'
<1>1. /\ "flow_finished" \in Events /\ "flow_failed" \in Events /\ "flow_cancelled" \in Events
  BY DEF Events, Terminals
<1>2. /\ worker.pc = "emit" /\ worker'.pc = "close" /\ worker'.why = worker.why
      /\ UNCHANGED <<status, closed, request, checkpoint>>
  BY WorkerMoves DEF WorkerEmits, WorkerPcs
<1>3. CASE worker.why = "finished"
  <2>1. Emit("flow_finished")
    BY <1>3 DEF WorkerEmits
  <2>2. ~closed \/ InLog("flow_finished")
    BY <1>2, <1>3 DEF Truth, WorkerControl, FinishedMeans, SucceededMeans, ClosedEnded,
       ResumeControl, Resumed
  <2>3. InLog("flow_finished")' /\ (InLog("flow_failed")' <=> InLog("flow_failed"))
        /\ (InLog("flow_cancelled")' <=> InLog("flow_cancelled"))
    BY <1>1, <2>1, <2>2, LogGains
  <2>4. QED
    BY <1>2, <1>3, <2>3 DEF ClosedEnded, ResumeControl, CancelControl, WorkerControl,
     FinishedMeans, FailedMeans, SucceededMeans, Truth, HasEnding, Resumed, Past
<1>4. CASE worker.why # "finished"
  <2>1. Emit("flow_failed")
    BY <1>4 DEF WorkerEmits
  <2>2. /\ InLog("flow_finished")' <=> InLog("flow_finished")
        /\ InLog("flow_cancelled")' <=> InLog("flow_cancelled")
        /\ InLog("flow_failed") => InLog("flow_failed")'
        /\ ~closed => InLog("flow_failed")'
        /\ closed => SameEndings
    BY <1>1, <2>1, LogGains
  <2>3. HasEnding'
    BY <1>2, <2>2 DEF Truth, ClosedEnded, HasEnding, SameEndings
  <2>4. QED
    BY <1>2, <1>4, <2>2, <2>3 DEF ClosedEnded, ResumeControl, CancelControl, WorkerControl,
     FinishedMeans, FailedMeans, SucceededMeans, Truth, HasEnding, Resumed, Past
<1>5. QED
  BY <1>3, <1>4

LEMMA WorkerKeepsTruth ==
  ASSUME log \in Seq(Events), WorkerTypes, Truth, WorkerStep
  PROVE  Truth'
<1>1. CASE WorkerEmits
  BY <1>1, EmitsKeepsTruth
<1>2. CASE WorkerPrepares
  <2>1. SameEndings
    BY <1>2, LogUnchanged DEF WorkerPrepares, stream
  <2>2. QED
    BY <1>2, <2>1, WorkerMoves DEF WorkerPrepares, stream, SameEndings, WorkerPcs, Reasons,
     ClosedEnded, ResumeControl, CancelControl, WorkerControl,
     FinishedMeans, FailedMeans, SucceededMeans, Truth, HasEnding, Resumed, Past
<1>3. CASE WorkerAttaches
  <2>1. SameEndings
    BY <1>3, LogUnchanged DEF WorkerAttaches, stream
  <2>2. QED
    BY <1>3, <2>1, WorkerMoves DEF WorkerAttaches, stream, SameEndings, WorkerPcs, Reasons,
       Ended,
     ClosedEnded, ResumeControl, CancelControl, WorkerControl,
     FinishedMeans, FailedMeans, SucceededMeans, Truth, HasEnding, Resumed, Past
<1>4. CASE WorkerFailsShell
  <2>1. SameEndings
    BY <1>4, LogUnchanged DEF WorkerFailsShell, stream
  <2>2. QED
    BY <1>4, <2>1, WorkerMoves DEF WorkerFailsShell, stream, SameEndings, WorkerPcs, Reasons,
     ClosedEnded, ResumeControl, CancelControl, WorkerControl,
     FinishedMeans, FailedMeans, SucceededMeans, Truth, HasEnding, Resumed, Past
<1>5. CASE WorkerRecordsStart
  <2>1. SameEndings
    BY <1>5, LogUnchanged DEF WorkerRecordsStart, stream
  <2>2. QED
    BY <1>5, <2>1, WorkerMoves DEF WorkerRecordsStart, stream, SameEndings, WorkerPcs, Reasons,
     ClosedEnded, ResumeControl, CancelControl, WorkerControl,
     FinishedMeans, FailedMeans, SucceededMeans, Truth, HasEnding, Resumed, Past
<1>6. CASE WorkerAnnounces
  <2>1. SameEndings
    <3>1. "flow_started" \in Events \ Terminals /\ Emit("flow_started")
      BY <1>6 DEF WorkerAnnounces, Events, Terminals
    <3>2. QED
      BY <3>1, NoEndingGained
  <2>2. QED
    BY <1>6, <2>1, WorkerMoves DEF WorkerAnnounces, stream, SameEndings, WorkerPcs, Reasons,
     ClosedEnded, ResumeControl, CancelControl, WorkerControl,
     FinishedMeans, FailedMeans, SucceededMeans, Truth, HasEnding, Resumed, Past
<1>7. CASE WorkerChooses
  <2>1. SameEndings
    BY <1>7, LogUnchanged DEF WorkerChooses, stream
  <2>2. QED
    BY <1>7, <2>1, WorkerMoves DEF WorkerChooses, stream, SameEndings, WorkerPcs, Reasons,
     ClosedEnded, ResumeControl, CancelControl, WorkerControl,
     FinishedMeans, FailedMeans, SucceededMeans, Truth, HasEnding, Resumed, Past
<1>8. CASE WorkerStartsNode
  <2>1. SameEndings
    <3>1. "node_started" \in Events \ Terminals /\ Emit("node_started")
      BY <1>8 DEF WorkerStartsNode, Events, Terminals
    <3>2. QED
      BY <3>1, NoEndingGained
  <2>2. QED
    BY <1>8, <2>1, WorkerMoves DEF WorkerStartsNode, stream, SameEndings, WorkerPcs, Reasons,
       WorkerTypes,
     ClosedEnded, ResumeControl, CancelControl, WorkerControl,
     FinishedMeans, FailedMeans, SucceededMeans, Truth, HasEnding, Resumed, Past
<1>9. CASE NodeStreams
  <2>1. SameEndings
    <3>1. Head(worker.stream) \in Events \ Terminals /\ Emit(Head(worker.stream))
      BY <1>9 DEF NodeStreams, WorkerTypes, Events, Deltas, Terminals
    <3>2. QED
      BY <3>1, NoEndingGained
  <2>2. QED
    BY <1>9, <2>1, WorkerMoves DEF NodeStreams, stream, SameEndings, WorkerPcs, Reasons,
       WorkerTypes,
     ClosedEnded, ResumeControl, CancelControl, WorkerControl,
     FinishedMeans, FailedMeans, SucceededMeans, Truth, HasEnding, Resumed, Past
<1>10. CASE NodeEnds
  <2>1. SameEndings
    BY <1>10, LogUnchanged DEF NodeEnds, stream
  <2>2. QED
    BY <1>10, <2>1, WorkerMoves DEF NodeEnds, stream, SameEndings, WorkerPcs, Reasons,
       WorkerTypes,
     ClosedEnded, ResumeControl, CancelControl, WorkerControl,
     FinishedMeans, FailedMeans, SucceededMeans, Truth, HasEnding, Resumed, Past
<1>11. CASE WorkerJoins
  <2>1. SameEndings
    BY <1>11, LogUnchanged DEF WorkerJoins, stream
  <2>2. QED
    BY <1>11, <2>1, WorkerMoves DEF WorkerJoins, stream, SameEndings, WorkerPcs, Reasons,
     ClosedEnded, ResumeControl, CancelControl, WorkerControl,
     FinishedMeans, FailedMeans, SucceededMeans, Truth, HasEnding, Resumed, Past
<1>12. CASE WorkerEndsNode
  <2>1. SameEndings
    <3>1. "node_finished" \in Events \ Terminals /\ Emit("node_finished")
      BY <1>12 DEF WorkerEndsNode, Events, Terminals
    <3>2. QED
      BY <3>1, NoEndingGained
  <2>2. QED
    BY <1>12, <2>1, WorkerMoves DEF WorkerEndsNode, stream, SameEndings, WorkerPcs, Reasons,
     ClosedEnded, ResumeControl, CancelControl, WorkerControl,
     FinishedMeans, FailedMeans, SucceededMeans, Truth, HasEnding, Resumed, Past
<1>13. CASE WorkerChecks
  <2>1. SameEndings
    BY <1>13, LogUnchanged DEF WorkerChecks, stream
  <2>2. QED
    BY <1>13, <2>1, WorkerMoves DEF WorkerChecks, stream, SameEndings, WorkerPcs, Reasons,
     ClosedEnded, ResumeControl, CancelControl, WorkerControl,
     FinishedMeans, FailedMeans, SucceededMeans, Truth, HasEnding, Resumed, Past
<1>14. CASE WorkerFailsNode
  <2>1. SameEndings
    BY <1>14, LogUnchanged DEF WorkerFailsNode, stream
  <2>2. QED
    BY <1>14, <2>1, WorkerMoves DEF WorkerFailsNode, stream, SameEndings, WorkerPcs, Reasons,
     ClosedEnded, ResumeControl, CancelControl, WorkerControl,
     FinishedMeans, FailedMeans, SucceededMeans, Truth, HasEnding, Resumed, Past
<1>15. CASE WorkerSuspends
  <2>1. SameEndings
    BY <1>15, LogUnchanged DEF WorkerSuspends, stream
  <2>2. QED
    BY <1>15, <2>1, WorkerMoves DEF WorkerSuspends, stream, SameEndings, WorkerPcs, Reasons,
     ClosedEnded, ResumeControl, CancelControl, WorkerControl,
     FinishedMeans, FailedMeans, SucceededMeans, Truth, HasEnding, Resumed, Past
<1>16. CASE WorkerFinishes
  <2>1. SameEndings
    BY <1>16, LogUnchanged DEF WorkerFinishes, stream
  <2>2. QED
    BY <1>16, <2>1, WorkerMoves DEF WorkerFinishes, stream, SameEndings, WorkerPcs, Reasons,
     ClosedEnded, ResumeControl, CancelControl, WorkerControl,
     FinishedMeans, FailedMeans, SucceededMeans, Truth, HasEnding, Resumed, Past
<1>17. CASE WorkerReturns
  <2>1. SameEndings
    BY <1>17, LogUnchanged DEF WorkerReturns, stream
  <2>2. QED
    BY <1>17, <2>1, WorkerMoves DEF WorkerReturns, stream, SameEndings, WorkerPcs, Reasons,
     ClosedEnded, ResumeControl, CancelControl, WorkerControl,
     FinishedMeans, FailedMeans, SucceededMeans, Truth, HasEnding, Resumed, Past
<1>18. CASE WorkerCallFails
  <2>1. SameEndings
    BY <1>18, LogUnchanged DEF WorkerCallFails, stream
  <2>2. QED
    BY <1>18, <2>1, WorkerMoves DEF WorkerCallFails, stream, SameEndings, WorkerPcs, Reasons,
       InnerCalls,
     ClosedEnded, ResumeControl, CancelControl, WorkerControl,
     FinishedMeans, FailedMeans, SucceededMeans, Truth, HasEnding, Resumed, Past
<1>19. CASE WorkerCloses
  <2>1. SameEndings
    BY <1>19, LogUnchanged DEF WorkerCloses, stream
  <2>2. QED
    BY <1>19, <2>1, WorkerMoves DEF WorkerCloses, stream, SameEndings, WorkerPcs, Reasons,
     ClosedEnded, ResumeControl, CancelControl, WorkerControl,
     FinishedMeans, FailedMeans, SucceededMeans, Truth, HasEnding, Resumed, Past
<1>20. CASE WorkerRecordsEnd
  <2>1. SameEndings
    BY <1>20, LogUnchanged DEF WorkerRecordsEnd, stream
  <2>2. QED
    BY <1>20, <2>1, WorkerMoves DEF WorkerRecordsEnd, stream, SameEndings, WorkerPcs, Reasons,
     ClosedEnded, ResumeControl, CancelControl, WorkerControl,
     FinishedMeans, FailedMeans, SucceededMeans, Truth, HasEnding, Resumed, Past
<1>21. CASE WorkerFailsRun
  <2>1. SameEndings
    BY <1>21, LogUnchanged DEF WorkerFailsRun, stream
  <2>2. QED
    BY <1>21, <2>1, WorkerMoves DEF WorkerFailsRun, stream, SameEndings, WorkerPcs, Reasons,
       Ended,
     ClosedEnded, ResumeControl, CancelControl, WorkerControl,
     FinishedMeans, FailedMeans, SucceededMeans, Truth, HasEnding, Resumed, Past
<1>22. CASE WorkerFallsBack
  <2>1. SameEndings
    BY <1>22, LogUnchanged DEF WorkerFallsBack, stream
  <2>2. QED
    BY <1>22, <2>1, WorkerMoves, HasEndingMeans DEF WorkerFallsBack, stream, SameEndings,
       WorkerPcs, Reasons,
     ClosedEnded, ResumeControl, CancelControl, WorkerControl,
     FinishedMeans, FailedMeans, SucceededMeans, Truth, HasEnding, Resumed, Past
<1>23. CASE WorkerWaits
  <2>1. SameEndings
    BY <1>23, LogUnchanged DEF WorkerWaits, stream
  <2>2. QED
    BY <1>23, <2>1, WorkerMoves DEF WorkerWaits, stream, SameEndings, WorkerPcs, Reasons,
     ClosedEnded, ResumeControl, CancelControl, WorkerControl,
     FinishedMeans, FailedMeans, SucceededMeans, Truth, HasEnding, Resumed, Past
<1>24. QED
  BY <1>1, <1>2, <1>3, <1>4, <1>5, <1>6, <1>7, <1>8, <1>9, <1>10, <1>11, <1>12, <1>13, <1>14,
     <1>15, <1>16, <1>17, <1>18, <1>19, <1>20, <1>21, <1>22, <1>23 DEF WorkerStep

LEMMA RequestKeepsTruth ==
  ASSUME log \in Seq(Events), RunTypes, WorkerTypes, Truth,
         CancelBegins \/ ResumeBegins \/ RequestStep
  PROVE  Truth'
<1>1. CASE CancelBegins \/ ResumeBegins
  <2>1. SameEndings
    BY <1>1, LogUnchanged DEF CancelBegins, ResumeBegins, stream
  <2>2. QED
    BY <1>1, <2>1 DEF CancelBegins, ResumeBegins, stream, SameEndings, ClosedEnded,
       ResumeControl, CancelControl, WorkerControl,
     FinishedMeans, FailedMeans, SucceededMeans, Truth, HasEnding, Resumed, Past
<1>2. CASE CancelSets
  <2>1. SameEndings
    BY <1>2, LogUnchanged DEF CancelSets, stream
  <2>2. QED
    BY <1>2, <2>1, RequestMoves DEF CancelSets, stream, SameEndings, Ended, ClosedEnded,
       ResumeControl, CancelControl, WorkerControl,
     FinishedMeans, FailedMeans, SucceededMeans, Truth, HasEnding, Resumed, Past
<1>3. CASE CancelEmits
  <2>1. CASE request.pc = "emit"
    <3>1. Emit("flow_cancelled") /\ request'.pc = "close"
          /\ UNCHANGED <<status, worker, closed, checkpoint>>
      BY <1>3, <2>1, RequestMoves DEF CancelEmits
    <3>2. "flow_finished" \in Events /\ "flow_failed" \in Events /\ "flow_cancelled" \in Events
      BY DEF Events, Terminals
    <3>3. /\ InLog("flow_finished")' <=> InLog("flow_finished")
          /\ InLog("flow_failed")' <=> InLog("flow_failed")
          /\ InLog("flow_cancelled") => InLog("flow_cancelled")'
          /\ ~closed => InLog("flow_cancelled")'
          /\ closed => SameEndings
      BY <3>1, <3>2, LogGains
    <3>4. HasEnding'
      BY <3>1, <3>3 DEF Truth, ClosedEnded, HasEnding, SameEndings
    <3>5. QED
      BY <2>1, <3>1, <3>3, <3>4 DEF ClosedEnded, ResumeControl, CancelControl, WorkerControl,
     FinishedMeans, FailedMeans, SucceededMeans, Truth, HasEnding, Resumed, Past
  <2>2. CASE request.pc = "close"
    <3>1. UNCHANGED <<status, log, worker, checkpoint>> /\ request'.pc = "record"
      BY <1>3, <2>2, RequestMoves DEF CancelEmits
    <3>2. SameEndings
      BY <3>1, LogUnchanged
    <3>3. QED
      BY <2>2, <3>1, <3>2 DEF SameEndings, ClosedEnded, ResumeControl, CancelControl,
         WorkerControl,
     FinishedMeans, FailedMeans, SucceededMeans, Truth, HasEnding, Resumed, Past
  <2>3. QED
    BY <1>3, <2>1, <2>2 DEF CancelEmits
<1>4. CASE ResumeSets
  <2>1. SameEndings
    BY <1>4, LogUnchanged DEF ResumeSets, stream
  <2>2. QED
    BY <1>4, <2>1, RequestMoves DEF ResumeSets, stream, SameEndings, ClosedEnded, ResumeControl,
       CancelControl, WorkerControl,
     FinishedMeans, FailedMeans, SucceededMeans, Truth, HasEnding, Resumed, Past
<1>5. CASE RequestRecords
  <2>1. SameEndings
    BY <1>5, LogUnchanged DEF RequestRecords, stream
  <2>2. QED
    BY <1>5, <2>1, RequestMoves DEF RequestRecords, stream, SameEndings, ClosedEnded,
       ResumeControl, CancelControl, WorkerControl,
     FinishedMeans, FailedMeans, SucceededMeans, Truth, HasEnding, Resumed, Past
<1>6. QED
  BY <1>1, <1>2, <1>3, <1>4, <1>5 DEF RequestStep

LEMMA TruthKept ==
  ASSUME Ending, Truth, [Next]_vars
  PROVE  Truth'
<1>1. log \in Seq(Events) /\ RunTypes /\ WorkerTypes
  BY TypesSplit DEF Ending, Accounting, Types
<1>2. CASE UNCHANGED <<status, log, closed, worker, request, checkpoint>>
  <2>1. SameEndings
    BY <1>2, LogUnchanged
  <2>2. QED
    BY <1>2, <2>1 DEF SameEndings, ClosedEnded, ResumeControl, CancelControl, WorkerControl,
     FinishedMeans, FailedMeans, SucceededMeans, Truth, HasEnding, Resumed, Past
<1>3. CASE WorkerStep
  BY <1>1, <1>3, WorkerKeepsTruth
<1>4. CASE CancelBegins \/ ResumeBegins \/ RequestStep
  BY <1>1, <1>4, RequestKeepsTruth
<1>5. CASE TracerStep \/ PersisterStep \/ SseSends
  BY <1>2, <1>5 DEF TracerStep, PersisterStep, PersisterTakes, PersisterWrites, SseSends, stream
<1>6. CASE UNCHANGED vars
  BY <1>2, <1>6 DEF vars, stream
<1>7. QED
  BY <1>3, <1>4, <1>5, <1>6 DEF Next

LEMMA TruthInvariant == Spec => []Truth
<1>1. Init => Truth
  <2>1. SUFFICES ASSUME Init PROVE Truth
    OBVIOUS
  <2>2. /\ status = "queued" /\ log = <<>> /\ closed = FALSE /\ worker.pc = "prepare"
        /\ request.pc = "idle" /\ checkpoint = FALSE
    BY <2>1 DEF Init
  <2>3. ~InLog("flow_finished") /\ ~InLog("flow_failed") /\ ~InLog("flow_cancelled")
    BY <2>2 DEF InLog
  <2>4. QED
    BY <2>2, <2>3 DEF ClosedEnded, ResumeControl, CancelControl, WorkerControl,
     FinishedMeans, FailedMeans, SucceededMeans, Truth, HasEnding, Resumed, Past
<1>2. Ending /\ Truth /\ [Next]_vars => Truth'
  BY TruthKept
<1>3. QED
  BY <1>1, <1>2, EndingInvariant, PTL DEF Spec

\* What the stream says of the run and what its row says agree: the worker
\* emits after its update, fail_flow_run leaves an ended run alone, and the
\* fallback looks for a terminal event first.
THEOREM ToldSo == Spec => []ToldTheTruth
<1>1. Ending /\ Truth => ToldTheTruth
  <2>1. SUFFICES ASSUME Ending, Truth, NEW i \in DOMAIN sse.told
                 PROVE  IF sse.told[i] = "flow_finished" THEN status = "succeeded"
                        ELSE status # "succeeded" \/ Resumed
    BY DEF ToldTheTruth
  <2>2. sse.told = <<>> \/ \E n \in DOMAIN log : FirstEnding(n) /\ sse.told = <<log[n]>>
    BY <2>1 DEF Ending, SenderControl
  <2>3. PICK n \in DOMAIN log : FirstEnding(n) /\ sse.told = <<log[n]>>
    BY <2>1, <2>2
  <2>4. sse.told[i] = log[n] /\ log[n] \in Terminals
    BY <2>1, <2>3 DEF FirstEnding
  <2>5. QED
    BY <2>1, <2>4 DEF InLog, Terminals, Truth, FinishedMeans, FailedMeans, CancelControl
<1>. QED
  BY <1>1, EndingInvariant, TruthInvariant, PTL
-----------------------------------------------------------------------------
(***************************************************************************)
(* The run's status is a StatusRecord.                                     *)
(***************************************************************************)
LEMMA MovesOf ==
  /\ \A from \in Statuses : RunMoves[from] = {to \in Statuses : MayBecome(from, to)}
  /\ RunMoves' = RunMoves
BY DEF RunMoves, MayBecome, Statuses, Ended

LEMMA MayOf ==
  /\ May = [w \in {"worker", "request"} |-> May[w]]
  /\ May["worker"] = WorkerMay /\ May["request"] = RequestMay
  /\ May' = [w \in {"worker", "request"} |-> May'[w]]
  /\ May'["worker"] = WorkerMay' /\ May'["request"] = RequestMay'
BY DEF May

\* The worker looks when it starts to execute and when it is about to fail the
\* run; it writes for a failed node, a wait, and in fail_flow_run.
LEMMA WorkerLicence ==
  ASSUME RunTypes, WorkerTypes, WorkerStep
  PROVE  /\ request' = request
         /\ \/ status' = status /\ WorkerMay' \in {WorkerMay, {}}
            \/ status' = status /\ WorkerMay' \subseteq RunMoves[status]
            \/ status' \in RunMoves[status] /\ WorkerMay' = WorkerMay
            \/ status' \in WorkerMay /\ WorkerMay' = {}
<1>. USE DEF WorkerMay, AtNodes
<1>1. /\ status \in Statuses
      /\ RunMoves[status] = {to \in Statuses : MayBecome(status, to)}
      /\ RunMoves["running"] = {to \in Statuses : MayBecome("running", to)}
      /\ RunMoves' = RunMoves
  BY MovesOf DEF RunTypes, Statuses
<1>2. CASE WorkerPrepares \/ WorkerRecordsStart \/ WorkerAnnounces
  BY <1>1, <1>2 DEF WorkerPrepares, WorkerRecordsStart, WorkerAnnounces, Goto, FailBecause,
     WorkerTypes
<1>3. CASE WorkerAttaches \/ WorkerFailsShell \/ WorkerFinishes
  BY <1>1, <1>3 DEF WorkerAttaches, WorkerFailsShell, WorkerFinishes, Goto, EmitBecause,
     WorkerTypes, MayBecome, Statuses, Ended
<1>4. CASE WorkerChooses
  BY <1>1, <1>4 DEF WorkerChooses, Goto, WorkerTypes
<1>5. CASE \/ WorkerStartsNode \/ NodeStreams \/ NodeEnds \/ WorkerJoins \/ WorkerEndsNode
           \/ WorkerChecks
  <2>1. CASE WorkerStartsNode \/ NodeStreams \/ NodeEnds
    <3>1. request' = request /\ status' = status /\ worker.pc \in AtNodes /\ worker'.pc \in AtNodes
      BY <2>1 DEF WorkerStartsNode, NodeStreams, NodeEnds, WorkerTypes
    <3>. QED
      BY <1>1, <3>1
  <2>2. CASE WorkerJoins \/ WorkerEndsNode \/ WorkerChecks
    BY <1>1, <2>2 DEF WorkerJoins, WorkerEndsNode, WorkerChecks, Goto, FailBecause, WorkerTypes
  <2>. QED
    BY <1>5, <2>1, <2>2
<1>6. CASE WorkerFailsNode \/ WorkerSuspends
  BY <1>1, <1>6 DEF WorkerFailsNode, WorkerSuspends, Goto, EmitBecause, WorkerTypes, MayBecome,
     Statuses, Ended
<1>7. CASE \/ WorkerReturns \/ WorkerCallFails \/ WorkerEmits \/ WorkerCloses \/ WorkerRecordsEnd
           \/ WorkerFallsBack \/ WorkerWaits
  <2>1. /\ request' = request /\ status' = status
        /\ \/ worker'.pc \in {"failRead", "over", "done", "close", "record", "fallback", "return",
                            "emit"}
           \/ worker' = worker
    BY <1>7, WorkerMoves DEF WorkerReturns, WorkerCallFails, WorkerEmits, WorkerCloses,
       WorkerRecordsEnd, WorkerFallsBack, WorkerWaits, Reasons, WorkerPcs
  <2>. QED
    BY <1>1, <2>1
<1>8. CASE WorkerFailsRun
  BY <1>1, <1>8 DEF WorkerFailsRun, Goto, Rest, WorkerTypes, MayBecome, Statuses, Ended
<1>. QED
  BY <1>2, <1>3, <1>4, <1>5, <1>6, <1>7, <1>8 DEF WorkerStep

\* The request looks when it begins; a cancel writes by a conditional update.
LEMMA RequestLicence ==
  ASSUME RunTypes, CancelControl, CancelBegins \/ ResumeBegins \/ RequestStep
  PROVE  /\ worker' = worker
         /\ \/ status' = status /\ RequestMay' \in {RequestMay, {}}
            \/ status' = status /\ RequestMay' \subseteq RunMoves[status]
            \/ status' \in RunMoves[status] /\ RequestMay' = RequestMay
            \/ status' \in RequestMay /\ RequestMay' = {}
<1>. USE DEF RequestMay
<1>1. /\ status \in Statuses
      /\ RunMoves[status] = {to \in Statuses : MayBecome(status, to)}
      /\ RunMoves[request.read] = {to \in Statuses : MayBecome(request.read, to)}
      /\ RunMoves' = RunMoves
  BY MovesOf DEF RunTypes, Statuses
<1>2. CASE CancelBegins \/ ResumeBegins
  BY <1>1, <1>2 DEF CancelBegins, ResumeBegins, RunTypes
<1>3. CASE CancelSets
  BY <1>1, <1>3 DEF CancelSets, AtRequest, CancelControl, MayBecome, Statuses, Ended
<1>4. CASE CancelEmits
  BY <1>1, <1>4 DEF CancelEmits, AtRequest
<1>5. CASE ResumeSets
  <2>1. PICK outcome \in {"waiting", "succeeded", "failed"} :
          \/ MayBecome(request.read, outcome) /\ status' = outcome
          \/ ~MayBecome(request.read, outcome) /\ UNCHANGED status
    BY <1>5 DEF ResumeSets
  <2>2. request.pc = "set" /\ request'.pc \in {"resumed", "outcome", "done"} /\ worker' = worker
    BY <1>5 DEF ResumeSets, AtRequest
  <2>3. outcome \in Statuses
    BY DEF Statuses, Ended
  <2>. QED
    BY <1>1, <2>1, <2>2, <2>3
<1>6. CASE RequestRecords
  <2>1. /\ worker' = worker /\ status' = status
        /\ \/ request' = request
           \/ request.pc = "resume" /\ request' = [pc |-> "set", read |-> request.read]
           \/ request'.pc \in {"done", "resumed"}
    BY <1>6 DEF RequestRecords, AtRequest
  <2>2. RequestMay' \in {RequestMay, {}}
    <3>1. CASE request' = request
      BY <1>1, <3>1
    <3>2. CASE request.pc = "resume" /\ request' = [pc |-> "set", read |-> request.read]
      <4>1. request'.pc = "set" /\ request'.read = request.read
        BY <3>2
      <4>. QED
        BY <1>1, <3>2, <4>1
    <3>3. CASE request'.pc \in {"done", "resumed"}
      BY <3>3
    <3>. QED
      BY <2>1, <3>1, <3>2, <3>3
  <2>. QED
    BY <2>1, <2>2
<1>. QED
  BY <1>2, <1>3, <1>4, <1>5, <1>6 DEF RequestStep

\* A change of what one of the two may write is a step of the record.
LEMMA OneWriter ==
  ASSUME NEW w \in {"worker", "request"},
         \A v \in {"worker", "request"} \ {w} : May'[v] = May[v],
         \/ status' = status /\ May'[w] \in {May[w], {}}
         \/ status' = status /\ May'[w] \subseteq RunMoves[status]
         \/ status' \in RunMoves[status] /\ May'[w] = May[w]
         \/ status' \in May[w] /\ May'[w] = {}
  PROVE  Record!Next
<1>. DEFINE m == May'
<1>1. May = [v \in {"worker", "request"} |-> May[v]] /\ m = [v \in {"worker", "request"} |-> m[v]]
  BY DEF May
<1>2. \A v \in {"worker", "request"} \ {w} : m[v] = May[v]
  OBVIOUS
<1>. HIDE DEF m
<1>3. m = [May EXCEPT ![w] = m[w]]
  BY <1>1, <1>2
<1>4. CASE status' = status /\ m[w] = May[w]
  <2>1. Record!GiveUp({})
    BY <1>1, <1>2, <1>4 DEF Record!GiveUp, m
  <2>. QED
    BY <2>1 DEF Record!Next
<1>5. CASE status' = status /\ m[w] = {}
  <2>1. Record!GiveUp({w})
    BY <1>1, <1>2, <1>5 DEF Record!GiveUp, m
  <2>. QED
    BY <2>1 DEF Record!Next
<1>6. CASE status' = status /\ m[w] \subseteq RunMoves[status]
  <2>1. Record!Look(w)
    BY <1>3, <1>6 DEF Record!Look, m
  <2>. QED
    BY <2>1 DEF Record!Next
<1>7. CASE status' \in RunMoves[status] /\ m[w] = May[w]
  <2>1. m = May
    BY <1>1, <1>2, <1>7
  <2>2. Record!Move
    BY <1>7, <2>1 DEF Record!Move, m
  <2>. QED
    BY <2>2 DEF Record!Next
<1>8. CASE status' \in May[w] /\ m[w] = {}
  <2>1. Record!Write(w)
    BY <1>3, <1>8 DEF Record!Write, m
  <2>. QED
    BY <2>1 DEF Record!Next
<1>. QED
  BY <1>4, <1>5, <1>6, <1>7, <1>8 DEF m

LEMMA NextIsLicensed ==
  ASSUME Ending, Truth, [Next]_vars
  PROVE  [Record!Next]_(Record!vars)
<1>1. RunTypes /\ WorkerTypes /\ CancelControl
  BY TypesSplit DEF Ending, Accounting, Types, Truth
<1>2. CASE WorkerStep
  <2>1. RequestMay' = RequestMay
    BY <1>1, <1>2, WorkerLicence, MovesOf DEF RequestMay
  <2>2. Record!Next
    BY <1>1, <1>2, <2>1, WorkerLicence, MayOf, OneWriter
  <2>. QED
    BY <2>2
<1>3. CASE CancelBegins \/ ResumeBegins \/ RequestStep
  <2>1. WorkerMay' = WorkerMay
    BY <1>1, <1>3, RequestLicence, MovesOf DEF WorkerMay
  <2>2. Record!Next
    BY <1>1, <1>3, <2>1, RequestLicence, MayOf, OneWriter
  <2>. QED
    BY <2>2
<1>4. CASE UNCHANGED <<status, worker, request>>
  <2>1. May' = May
    BY <1>4, MovesOf DEF May, WorkerMay, RequestMay
  <2>. QED
    BY <1>4, <2>1 DEF Record!vars
<1>5. CASE TracerStep \/ PersisterStep \/ SseSends
  BY <1>4, <1>5 DEF TracerStep, PersisterStep, PersisterTakes, PersisterWrites, SseSends
<1>6. CASE UNCHANGED vars
  BY <1>4, <1>6 DEF vars
<1>. QED
  BY <1>2, <1>3, <1>5, <1>6 DEF Next

\* Whatever rows are refused and requests lost, the status is only changed by
\* a conditional update that makes a legal move, or by a writer whose own last
\* look allowed the new status, once per look.
THEOREM WritesLicensed == Spec => WritesAreLicensed
<1>1. Init => Record!Init
  <2>. SUFFICES ASSUME Init PROVE Record!Init
    OBVIOUS
  <2>1. WorkerMay = {} /\ RequestMay = {} /\ status = "queued"
    BY DEF Init, WorkerMay, RequestMay, AtNodes
  <2>2. May = [w \in {"worker", "request"} |-> {}]
    BY <2>1 DEF May
  <2>. QED
    BY <2>1, <2>2 DEF Record!Init
<1>2. Ending /\ Truth /\ [Next]_vars => [Record!Next]_(Record!vars)
  BY NextIsLicensed
<1>. QED
  BY <1>1, <1>2, EndingInvariant, TruthInvariant, PTL DEF Spec, Record!Spec, WritesAreLicensed
=============================================================================
