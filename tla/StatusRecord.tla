---------------------------- MODULE StatusRecord ----------------------------
(***************************************************************************)
(* What the writers of a record keep to although none of them locks it and *)
(* each may act on a status it read long ago.  A writer looks at the       *)
(* record, and may then, once, give it a status that a legal move leads to *)
(* from the one it saw, whatever the record has become; a conditional      *)
(* update makes a legal move from what the record is.  So the record never *)
(* gets a status that was not a legal move when its writer looked: one     *)
(* that has only seen the record ended changes nothing, and once the       *)
(* others are gone the record stays as it is.                              *)
(* FlowRun and DebugRunStream are shown to implement this.                 *)
(***************************************************************************)
CONSTANTS
  Writers,  \* who may write without a condition
  Moves,    \* per status, the statuses a legal move leads to
  First     \* the status of a new record

VARIABLES
  status,   \* the record's status
  may       \* per writer, the statuses it may still give the record

vars == <<status, may>>

Init ==
  /\ status = First
  /\ may = [w \in Writers |-> {}]

\* A writer reads the status, and keeps some of the moves it allows in mind.
Look(w) ==
  /\ UNCHANGED status
  /\ \E allowed \in SUBSET Moves[status] : may' = [may EXCEPT ![w] = allowed]

\* It writes one of them, whatever the status is now.
Write(w) ==
  /\ status' \in may[w]
  /\ may' = [may EXCEPT ![w] = {}]

\* Anybody's conditional update
Move ==
  /\ status' \in Moves[status]
  /\ UNCHANGED may

\* Writers finish without a write, or are lost.
GiveUp(gone) ==
  /\ UNCHANGED status
  /\ may' = [w \in Writers |-> IF w \in gone THEN {} ELSE may[w]]

Next ==
  \/ \E gone \in SUBSET Writers : GiveUp(gone)
  \/ Move
  \/ \E w \in Writers : Write(w) \/ Look(w)

Spec == Init /\ [][Next]_vars
=============================================================================
