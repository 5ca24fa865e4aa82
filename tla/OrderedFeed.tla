---------------------------- MODULE OrderedFeed ----------------------------
(***************************************************************************)
(* What a run's event stream promises to one reader, whatever carries it:  *)
(* events are numbered in the order they are published; a reader gets them *)
(* in increasing order, each at most once; and it may miss an event only   *)
(* if that event was published as droppable (ephemeral) or was discarded   *)
(* by an explicit trim.  RuntimeEventStream is shown to implement this.    *)
(***************************************************************************)
EXTENDS Integers, Sequences

CONSTANTS
  Subscribers,   \* the readers of one run's stream
  Positions      \* the positions a reader may ask to start from

VARIABLES
  log,        \* log[n] = TRUE iff event n was published as required
  discarded,  \* events removed by an explicit trim that spared no required event
  joined,     \* has the reader's subscription been answered?
  cursor,     \* highest sequence handed to the reader (or its start position)
  replayed,   \* the events handed over at once when it joined
  delivered   \* the events handed over one by one since, oldest first

vars == <<log, discarded, joined, cursor, replayed, delivered>>

Init ==
  /\ log = <<>>
  /\ discarded = {}
  /\ joined = [s \in Subscribers |-> FALSE]
  /\ cursor = [s \in Subscribers |-> 0]
  /\ replayed = [s \in Subscribers |-> {}]
  /\ delivered = [s \in Subscribers |-> <<>>]

\* The events a reader at position c must not jump over to reach n.
Owed(c, n) == {m \in 1 .. Len(log) : c < m /\ m < n /\ log[m] /\ m \notin discarded}

Publish ==
  /\ \E required \in BOOLEAN : log' = Append(log, required)
  /\ UNCHANGED <<discarded, joined, cursor, replayed, delivered>>

Discard ==
  /\ discarded' \in SUBSET (1 .. Len(log))
  /\ discarded \subseteq discarded'
  /\ UNCHANGED <<log, joined, cursor, replayed, delivered>>

\* A reader joins at position `from` and gets what is retained after it.
Join(s) ==
  /\ ~joined[s]
  /\ \E from \in Positions, R \in SUBSET (1 .. Len(log)) :
       /\ \A n \in R : from < n
       /\ Owed(from, Len(log) + 1) \subseteq R
       /\ \/ R = {} /\ cursor' = [cursor EXCEPT ![s] = from]
          \/ \E last \in R : /\ \A n \in R : n <= last
                             /\ cursor' = [cursor EXCEPT ![s] = last]
       /\ replayed' = [replayed EXCEPT ![s] = R]
  /\ joined' = [joined EXCEPT ![s] = TRUE]
  /\ UNCHANGED <<log, discarded, delivered>>

Deliver(s) ==
  /\ joined[s]
  /\ \E n \in 1 .. Len(log) :
       /\ cursor[s] < n
       /\ Owed(cursor[s], n) = {}
       /\ cursor' = [cursor EXCEPT ![s] = n]
       /\ delivered' = [delivered EXCEPT ![s] = Append(@, n)]
  /\ UNCHANGED <<log, discarded, joined, replayed>>

Next ==
  \/ Publish
  \/ Discard
  \/ \E s \in Subscribers : Join(s) \/ Deliver(s)

Spec == Init /\ [][Next]_vars
=============================================================================
