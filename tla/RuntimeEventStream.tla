------------------------ MODULE RuntimeEventStream ------------------------
(***************************************************************************)
(* LocalRuntimeEventStream: the in-process stream of one run's debug       *)
(* events.  Producers append under the ring lock and broadcast after       *)
(* releasing it; a subscription first registers a broadcast receiver, then *)
(* snapshots the ring, and a task of its own forwards what follows.        *)
(*                                                                         *)
(* The state is that of one LocalRunEventStream.  fetch_add and push_back  *)
(* happen in the same critical section, so the deque is ordered by         *)
(* sequence: it is modelled as the set of sequence numbers it retains.     *)
(***************************************************************************)
EXTENDS Integers, Sequences, FiniteSets

CONSTANTS
  Producers,          \* tasks that append: the executor, a canceller, the route
  Subscribers,        \* subscriptions: the SSE sender, the persister
  StartPositions,     \* from_sequence values a subscription may ask for
  MaxEvents,          \* RuntimeEventStreamPolicy.max_events
  BroadcastCapacity,  \* capacity of the tokio broadcast channel
  MaxSequence         \* bound of the model: events appended in a behaviour

ASSUME StreamAssumption ==
  /\ StartPositions \subseteq Nat
  /\ MaxEvents \in Nat
  /\ BroadcastCapacity \in Nat \ {0}
  /\ MaxSequence \in Nat

VARIABLES
  opened,     \* the run has an entry in `runs`
  closed,     \* the AtomicBool
  log,        \* history: log[n] = TRUE iff event n is_required_event
  ring,       \* sequence numbers retained in the VecDeque
  discarded,  \* history: events removed by trim(keep_required = false)
  sending,    \* per producer, the sequence appended and not yet broadcast (0: none)
  phase,      \* per subscriber, see Phases
  from,       \* from_sequence of the subscription (None is 0)
  chan,       \* the broadcast receiver's unread messages, oldest first
  lagged,     \* the receiver lost messages it has not been told about
  last,       \* last_sent_sequence
  looking,    \* send_retained_after_sequence is called and has not read the ring yet
  backfill,   \* send_retained_after_sequence: the clones still to be sent
  current,    \* the received event still to be sent after them (0: none)
  replay,     \* RuntimeEventSubscription.replay
  live        \* what live_events yielded to the consumer, oldest first

subVars == <<phase, from, chan, lagged, last, looking, backfill, current, replay, live>>
vars == <<opened, closed, log, ring, discarded, sending, subVars>>

(***************************************************************************)
(* idle: not subscribed; attached: broadcast receiver created, ring not    *)
(* read yet; expired: subscribe returned "replay expired"; live: the       *)
(* forwarding task runs; gone: the consumer dropped live_events; stopped:  *)
(* the task found that out on a send.                                      *)
(***************************************************************************)
Phases == {"idle", "attached", "expired", "live", "gone", "stopped"}

Init ==
  /\ opened = FALSE
  /\ closed = FALSE
  /\ log = <<>>
  /\ ring = {}
  /\ discarded = {}
  /\ sending = [p \in Producers |-> 0]
  /\ phase = [s \in Subscribers |-> "idle"]
  /\ from = [s \in Subscribers |-> 0]
  /\ chan = [s \in Subscribers |-> <<>>]
  /\ lagged = [s \in Subscribers |-> FALSE]
  /\ last = [s \in Subscribers |-> 0]
  /\ looking = [s \in Subscribers |-> FALSE]
  /\ backfill = [s \in Subscribers |-> {}]
  /\ current = [s \in Subscribers |-> 0]
  /\ replay = [s \in Subscribers |-> {}]
  /\ live = [s \in Subscribers |-> <<>>]

-----------------------------------------------------------------------------
\* The ring

\* Mutant of TrimOverflow: the loop runs while ring.len() > max_events + 1.
TrimOverflowLate(r, lg) ==
  LET excess == Cardinality(r) - MaxEvents - 1
  IN {n \in r : lg[n] \/ Cardinality({m \in r : ~lg[m] /\ m <= n}) > excess}

\* Mutant of TrimOverflow: pop_front, whatever the event is.
TrimOverflowOldest(r, lg) ==
  {n \in r : Cardinality({m \in r : m <= n}) > Cardinality(r) - MaxEvents}

\* trim_overflow: while the ring is too long, drop the oldest event that is
\* not required; stop when only required events are left.
TrimOverflow(r, lg) ==
  LET droppable == {n \in r : ~lg[n]}
      excess == Cardinality(r) - MaxEvents
  IN {n \in r : lg[n] \/ Cardinality({m \in droppable : m <= n}) > excess}

\* events_after_sequence, and what replay_from_ring returns when it succeeds
RetainedAfter(n) == {m \in ring : m > n}

\* replay_from_ring refuses a position before the front's predecessor
ReplayExpired(f) ==
  \/ ring # {} /\ \A n \in ring : f < n - 1
  \/ ring = {} /\ f < Len(log)

\* Mutant of Enqueue: an unbounded channel.
EnqueueUnbounded(q, n) == Append(q, n)

\* A broadcast receiver keeps the newest BroadcastCapacity messages.
Enqueue(q, n) ==
  IF Len(q) < BroadcastCapacity THEN Append(q, n) ELSE Append(Tail(q), n)

\* Subscribers whose broadcast receiver exists
Receiving == {s \in Subscribers : phase[s] \in {"attached", "live", "gone"}}

-----------------------------------------------------------------------------
\* Producer operations

\* open_run: or_insert_with, so opening again changes nothing
OpenRun ==
  /\ opened' = TRUE
  /\ UNCHANGED <<closed, log, ring, discarded, sending, subVars>>

\* append, the part under the ring lock
AppendEvent(p, required) ==
  /\ opened
  /\ ~closed
  /\ sending[p] = 0
  /\ Len(log) < MaxSequence
  /\ log' = Append(log, required)
  /\ ring' = TrimOverflow(ring \cup {Len(log) + 1}, log')
  /\ sending' = [sending EXCEPT ![p] = Len(log) + 1]
  /\ UNCHANGED <<opened, closed, discarded, subVars>>

\* append, after the lock is released: broadcaster.send
Broadcast(p) ==
  /\ sending[p] # 0
  /\ chan' = [s \in Subscribers |->
                IF s \in Receiving THEN Enqueue(chan[s], sending[p]) ELSE chan[s]]
  /\ lagged' = [s \in Subscribers |->
                  lagged[s] \/ (s \in Receiving /\ Len(chan[s]) = BroadcastCapacity)]
  /\ sending' = [sending EXCEPT ![p] = 0]
  /\ UNCHANGED <<opened, closed, log, ring, discarded, phase, from, last, looking, backfill,
                 current, replay, live>>

CloseRun ==
  /\ opened
  /\ closed' = TRUE
  /\ UNCHANGED <<opened, log, ring, discarded, sending, subVars>>

\* trim: events before `before` go, required ones too unless they are kept
TrimRun(before, keepRequired) ==
  LET kept == {n \in ring : n >= before \/ (keepRequired /\ log[n])}
  IN /\ opened
     /\ ring' = TrimOverflow(kept, log)
     /\ discarded' = discarded \cup {n \in ring \ kept : log[n]}
     /\ UNCHANGED <<opened, closed, log, sending, subVars>>

-----------------------------------------------------------------------------
\* Subscriber operations

\* subscribe, first half: broadcaster.subscribe()
Attach(s, f) ==
  /\ opened
  /\ phase[s] = "idle"
  /\ phase' = [phase EXCEPT ![s] = "attached"]
  /\ from' = [from EXCEPT ![s] = f]
  /\ UNCHANGED <<opened, closed, log, ring, discarded, sending, chan, lagged, last,
                 looking, backfill, current, replay, live>>

\* subscribe, second half: replay_from_ring fails and the receiver is dropped
Refuse(s) ==
  /\ phase[s] = "attached"
  /\ ReplayExpired(from[s])
  /\ phase' = [phase EXCEPT ![s] = "expired"]
  /\ chan' = [chan EXCEPT ![s] = <<>>]
  /\ lagged' = [lagged EXCEPT ![s] = FALSE]
  /\ UNCHANGED <<opened, closed, log, ring, discarded, sending, from, last, looking,
                 backfill, current, replay, live>>

\* subscribe, second half: the snapshot, and the forwarding task starts
Snapshot(s) ==
  /\ phase[s] = "attached"
  /\ ~ReplayExpired(from[s])
  /\ phase' = [phase EXCEPT ![s] = "live"]
  /\ replay' = [replay EXCEPT ![s] = RetainedAfter(from[s])]
  /\ \/ RetainedAfter(from[s]) = {} /\ last' = [last EXCEPT ![s] = from[s]]
     \/ \E m \in RetainedAfter(from[s]) :
          /\ \A n \in RetainedAfter(from[s]) : n <= m
          /\ last' = [last EXCEPT ![s] = m]
  /\ UNCHANGED <<opened, closed, log, ring, discarded, sending, from, chan, lagged,
                 looking, backfill, current, live>>

\* The task is at `live_receiver.recv().await`.
AtRecv(s) ==
  phase[s] \in {"live", "gone"} /\ ~looking[s] /\ backfill[s] = {} /\ current[s] = 0

\* Mutant of RecvLagged: go on with the next message and do not look at the ring.
RecvLaggedIgnored(s) ==
  /\ AtRecv(s)
  /\ lagged[s]
  /\ lagged' = [lagged EXCEPT ![s] = FALSE]
  /\ UNCHANGED <<opened, closed, log, ring, discarded, sending, phase, from, chan, last,
                 looking, backfill, current, replay, live>>

\* recv yields Lagged: the ring may still have what was lost
RecvLagged(s) ==
  /\ AtRecv(s)
  /\ lagged[s]
  /\ lagged' = [lagged EXCEPT ![s] = FALSE]
  /\ looking' = [looking EXCEPT ![s] = TRUE]
  /\ UNCHANGED <<opened, closed, log, ring, discarded, sending, phase, from, chan, last,
                 backfill, current, replay, live>>

\* Mutant of RecvEvent: forward the event at once, without what precedes it.
RecvEventAlone(s) ==
  /\ AtRecv(s)
  /\ ~lagged[s]
  /\ chan[s] # <<>>
  /\ chan' = [chan EXCEPT ![s] = Tail(@)]
  /\ current' = [current EXCEPT ![s] = IF Head(chan[s]) <= last[s] THEN 0 ELSE Head(chan[s])]
  /\ UNCHANGED <<opened, closed, log, ring, discarded, sending, phase, from, lagged, last,
                 looking, backfill, replay, live>>

\* recv yields an event: skipped when already sent, otherwise everything the
\* ring retains after last_sent_sequence goes first
RecvEvent(s) ==
  /\ AtRecv(s)
  /\ ~lagged[s]
  /\ chan[s] # <<>>
  /\ chan' = [chan EXCEPT ![s] = Tail(@)]
  /\ \/ /\ Head(chan[s]) <= last[s]
        /\ UNCHANGED <<looking, current>>
     \/ /\ Head(chan[s]) > last[s]
        /\ looking' = [looking EXCEPT ![s] = TRUE]
        /\ current' = [current EXCEPT ![s] = Head(chan[s])]
  /\ UNCHANGED <<opened, closed, log, ring, discarded, sending, phase, from, lagged, last,
                 backfill, replay, live>>

\* send_retained_after_sequence: clone what the ring retains, under its lock
ReadRing(s) ==
  /\ looking[s]
  /\ looking' = [looking EXCEPT ![s] = FALSE]
  /\ backfill' = [backfill EXCEPT ![s] = RetainedAfter(last[s])]
  /\ UNCHANGED <<opened, closed, log, ring, discarded, sending, phase, from, chan, lagged, last,
                 current, replay, live>>

\* One turn of the loop in send_retained_after_sequence.  Sending to a
\* consumer that dropped its end fails and ends the task.
SendRetained(s) ==
  /\ \E n \in backfill[s] :
       /\ \A m \in backfill[s] : n <= m
       /\ \/ /\ phase[s] = "live"
             /\ live' = [live EXCEPT ![s] = Append(@, n)]
             /\ last' = [last EXCEPT ![s] = n]
             /\ backfill' = [backfill EXCEPT ![s] = @ \ {n}]
             /\ UNCHANGED <<phase, chan, lagged, current>>
          \/ /\ phase[s] = "gone"
             /\ phase' = [phase EXCEPT ![s] = "stopped"]
             /\ chan' = [chan EXCEPT ![s] = <<>>]
             /\ lagged' = [lagged EXCEPT ![s] = FALSE]
             /\ backfill' = [backfill EXCEPT ![s] = {}]
             /\ current' = [current EXCEPT ![s] = 0]
             /\ UNCHANGED <<live, last>>
  /\ UNCHANGED <<opened, closed, log, ring, discarded, sending, from, looking, replay>>

\* Mutant of SendCurrent: the second `<= last_sent_sequence` test is missing.
SendCurrentAlways(s) ==
  /\ ~looking[s] /\ backfill[s] = {}
  /\ current[s] # 0
  /\ phase[s] = "live"
  /\ current' = [current EXCEPT ![s] = 0]
  /\ live' = [live EXCEPT ![s] = Append(@, current[s])]
  /\ last' = [last EXCEPT ![s] = current[s]]
  /\ UNCHANGED <<opened, closed, log, ring, discarded, sending, phase, from, chan, lagged,
                 looking, backfill, replay>>

\* After the retained events: the received event itself, unless it was one of them
SendCurrent(s) ==
  /\ ~looking[s] /\ backfill[s] = {}
  /\ current[s] # 0
  /\ current' = [current EXCEPT ![s] = 0]
  /\ \/ /\ current[s] <= last[s]
        /\ UNCHANGED <<phase, chan, lagged, last, live>>
     \/ /\ current[s] > last[s]
        /\ phase[s] = "live"
        /\ live' = [live EXCEPT ![s] = Append(@, current[s])]
        /\ last' = [last EXCEPT ![s] = current[s]]
        /\ UNCHANGED <<phase, chan, lagged>>
     \/ /\ current[s] > last[s]
        /\ phase[s] = "gone"
        /\ phase' = [phase EXCEPT ![s] = "stopped"]
        /\ chan' = [chan EXCEPT ![s] = <<>>]
        /\ lagged' = [lagged EXCEPT ![s] = FALSE]
        /\ UNCHANGED <<live, last>>
  /\ UNCHANGED <<opened, closed, log, ring, discarded, sending, from, looking, backfill,
                 replay>>

\* The consumer (an SSE client, a persister past its terminal event) drops live_events.
DropConsumer(s) ==
  /\ phase[s] = "live"
  /\ phase' = [phase EXCEPT ![s] = "gone"]
  /\ UNCHANGED <<opened, closed, log, ring, discarded, sending, from, chan, lagged, last,
                 looking, backfill, current, replay, live>>

-----------------------------------------------------------------------------
Produce(p) == Broadcast(p) \/ \E required \in BOOLEAN : AppendEvent(p, required)

Forward(s) ==
  RecvLagged(s) \/ RecvEvent(s) \/ ReadRing(s) \/ SendRetained(s) \/ SendCurrent(s)

Next ==
  \/ OpenRun
  \/ CloseRun
  \/ \E before \in 1 .. MaxSequence + 1, keepRequired \in BOOLEAN :
       TrimRun(before, keepRequired)
  \/ \E p \in Producers : Produce(p)
  \/ \E s \in Subscribers :
       \/ \E f \in StartPositions : Attach(s, f)
       \/ Refuse(s)
       \/ Snapshot(s)
       \/ Forward(s)
       \/ DropConsumer(s)

Spec == Init /\ [][Next]_vars

(***************************************************************************)
(* append has no await between the lock and broadcaster.send, and tokio    *)
(* keeps polling a spawned task whose receiver is ready: both make         *)
(* progress once enabled.  Nothing forces a producer to append.            *)
(***************************************************************************)
Fairness ==
  /\ \A p \in Producers : WF_vars(Broadcast(p))
  /\ \A s \in Subscribers : WF_vars(Forward(s))

FairSpec == Spec /\ Fairness

-----------------------------------------------------------------------------
\* Properties

Sequences1 == 1 .. Len(log)

\* Every variable has its type; the broadcast queue never exceeds its capacity.
TypeOK ==
  /\ opened \in BOOLEAN
  /\ closed \in BOOLEAN
  /\ log \in Seq(BOOLEAN)
  /\ ring \subseteq Sequences1
  /\ discarded \subseteq Sequences1
  /\ sending \in [Producers -> Sequences1 \cup {0}]
  /\ phase \in [Subscribers -> Phases]
  /\ from \in [Subscribers -> Nat]
  /\ chan \in [Subscribers -> Seq(Sequences1)]
  /\ \A s \in Subscribers : Len(chan[s]) <= BroadcastCapacity
  /\ lagged \in [Subscribers -> BOOLEAN]
  /\ last \in [Subscribers -> Nat]
  /\ looking \in [Subscribers -> BOOLEAN]
  /\ backfill \in [Subscribers -> SUBSET Sequences1]
  /\ current \in [Subscribers -> Sequences1 \cup {0}]
  /\ replay \in [Subscribers -> SUBSET Sequences1]
  /\ live \in [Subscribers -> Seq(Sequences1)]

Holds(q, n) == \E i \in 1 .. Len(q) : q[i] = n

Received(s, n) == n \in replay[s] \/ Holds(live[s], n)

\* A consumer sees every event at most once and in sequence order, across the
\* replay and the live part, although producers broadcast outside the ring
\* lock and so in any order.
OrderedDelivery ==
  \A s \in Subscribers :
    /\ \A n \in replay[s] : \A i \in 1 .. Len(live[s]) : n < live[s][i]
    /\ \A i, j \in 1 .. Len(live[s]) : i < j => live[s][i] < live[s][j]

\* No required event before last_sent_sequence was skipped: lag, overflow and
\* the window between the broadcast subscription and the snapshot lose only
\* ephemeral events.
NoRequiredSkipped ==
  \A s \in Subscribers : phase[s] \in {"live", "gone", "stopped"} =>
    \A n \in Sequences1 :
      from[s] < n /\ n <= last[s] /\ log[n] /\ n \notin discarded => Received(s, n)

\* When a forwarding task has nothing left to do and no producer is between
\* push_back and send, the ring retains nothing its consumer has not got.
\* A terminal event appended last is therefore never left behind.
CaughtUpWhenQuiet ==
  \A s \in Subscribers :
    /\ phase[s] = "live"
    /\ AtRecv(s)
    /\ chan[s] = <<>>
    /\ ~lagged[s]
    /\ \A p \in Producers : sending[p] = 0
    => \A n \in ring : n <= last[s]

\* The ring outgrows max_events only with required events.
RingBound == Cardinality(ring) > MaxEvents => \A n \in ring : log[n]

\* A required event appended while a consumer listens reaches it, unless the
\* consumer goes away or the event is trimmed away first.
RequiredEventuallyDelivered ==
  \A s \in Subscribers : \A n \in 1 .. MaxSequence :
    (phase[s] = "live" /\ n \in Sequences1 /\ log[n] /\ from[s] < n)
      ~> (Received(s, n) \/ phase[s] # "live" \/ n \in discarded)

\* docs/superpowers/specs/2026-05-02-runtime-event-stream-fast-debug-design.md
\* 8.2: a subscription whose start has been trimmed gets an explicit error.
\* So when one is answered, the event right after its position is still there
\* (or has not been published yet).
TrimmedReplayIsRefused ==
  [][\A s \in Subscribers : phase[s] = "attached" /\ phase'[s] = "live" =>
       from[s] + 1 \in ring \/ from[s] >= Len(log)]_vars

\* The stream implements the feed its consumers rely on.
Feed == INSTANCE OrderedFeed WITH
  Positions <- StartPositions,
  joined <- [s \in Subscribers |-> phase[s] \in {"live", "gone", "stopped"}],
  cursor <- last, replayed <- replay, delivered <- live

FeedSpec == Feed!Spec
=============================================================================
