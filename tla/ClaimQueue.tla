----------------------------- MODULE ClaimQueue -----------------------------
(***************************************************************************)
(* What the users of some task queues may rely on, whatever implements     *)
(* them: at-least-once delivery, oldest first.  A task that was submitted  *)
(* stays until the worker that holds it finishes it; it has one holder at  *)
(* a time, and is free again when the holder gives it up or is too late.   *)
(* Free again it has its old place: a worker takes the oldest free task.   *)
(***************************************************************************)
EXTENDS Naturals

CONSTANTS
  Tasks,     \* numbered in the order in which they are submitted
  Queues,
  Workers,
  Nobody     \* the holder of a task nobody works on

VARIABLES
  live,      \* the queue of each task that was submitted and not finished
  finished,  \* tasks that were finished
  holder     \* per task: the worker that holds it

vars == <<live, finished, holder>>

Init ==
  /\ live = <<>>
  /\ finished = {}
  /\ holder = [t \in Tasks |-> Nobody]

Submit(q, t) ==
  /\ \A u \in DOMAIN live \cup finished : u < t
  /\ live' = [u \in DOMAIN live \cup {t} |-> IF u = t THEN q ELSE live[u]]
  /\ UNCHANGED <<finished, holder>>

Free(q) == {t \in DOMAIN live : live[t] = q /\ holder[t] = Nobody}

Take(q, w, t) ==
  /\ t \in Free(q) /\ \A u \in Free(q) : t <= u
  /\ holder' = [holder EXCEPT ![t] = w]
  /\ UNCHANGED <<live, finished>>

\* Only the holder finishes a task.
Finish(w, t) ==
  /\ t \in DOMAIN live
  /\ holder[t] = w
  /\ live' = [u \in DOMAIN live \ {t} |-> live[u]]
  /\ finished' = finished \cup {t}
  /\ holder' = [holder EXCEPT ![t] = Nobody]

\* Holders give up their tasks, or lose them to the passing of time.
GiveBack(lost) ==
  /\ holder' = [t \in Tasks |-> IF t \in lost THEN Nobody ELSE holder[t]]
  /\ UNCHANGED <<live, finished>>

Next ==
  \/ \E q \in Queues, t \in Tasks : Submit(q, t)
  \/ \E q \in Queues, w \in Workers, t \in Tasks : Take(q, w, t)
  \/ \E w \in Workers, t \in Tasks : Finish(w, t)
  \/ \E lost \in SUBSET Tasks : GiveBack(lost)

Spec == Init /\ [][Next]_vars
=============================================================================
