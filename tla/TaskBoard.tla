----------------------------- MODULE TaskBoard -----------------------------
(***************************************************************************)
(* What a reader of the task table may conclude.  A task belongs to the    *)
(* handler that posted it: only that one begins it, and ends it once, and  *)
(* a handler has at most one task that has not ended.  A handler that is   *)
(* gone leaves its task behind as it is, for good: nobody takes it over,   *)
(* and nobody else's task is affected.  So a task that is queued or        *)
(* running either has its handler or is lost.                              *)
(* PluginLifecycle is shown to implement this.                             *)
(***************************************************************************)
CONSTANTS
  Tasks,
  Handlers

VARIABLES
  board,  \* per task: "none" before it is posted, then its status
  held,   \* per task: the handlers that work on it
  lost    \* tasks that were left behind

vars == <<board, held, lost>>

Init ==
  /\ board = [t \in Tasks |-> "none"]
  /\ held = [t \in Tasks |-> {}]
  /\ lost = {}

\* A handler that has no task takes up a new one.
Post(h, t) ==
  /\ board[t] = "none"
  /\ \A u \in Tasks : h \notin held[u]
  /\ board' = [board EXCEPT ![t] = "queued"]
  /\ held' = [held EXCEPT ![t] = {h}]
  /\ UNCHANGED lost

Begin(h, t) ==
  /\ h \in held[t]
  /\ board[t] = "queued"
  /\ board' = [board EXCEPT ![t] = "running"]
  /\ UNCHANGED <<held, lost>>

End(h, t) ==
  /\ h \in held[t]
  /\ board[t] = "running"
  /\ \E result \in {"succeeded", "failed"} : board' = [board EXCEPT ![t] = result]
  /\ held' = [held EXCEPT ![t] = {}]
  /\ UNCHANGED lost

\* Handlers are gone, with what they worked on.
Lose(gone) ==
  /\ held' = [t \in Tasks |-> held[t] \ gone]
  /\ lost' = lost \cup {t \in Tasks : held[t] \cap gone # {}}
  /\ UNCHANGED board

Next ==
  \/ \E h \in Handlers, t \in Tasks : Post(h, t) \/ Begin(h, t) \/ End(h, t)
  \/ \E gone \in SUBSET Handlers : Lose(gone)

Spec == Init /\ [][Next]_vars
=============================================================================
