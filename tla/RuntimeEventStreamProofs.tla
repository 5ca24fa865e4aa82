---------------------- MODULE RuntimeEventStreamProofs ----------------------
(***************************************************************************)
(* What RuntimeEventStream guarantees for every number of producers and    *)
(* subscribers, every ring and broadcast capacity and every bound on the   *)
(* number of events.                                                       *)
(***************************************************************************)
EXTENDS RuntimeEventStream, FiniteSetTheorems, TLAPS

-----------------------------------------------------------------------------
\* The data

\* Trimming only removes events, and never a required one.
LEMMA TrimOverflowKeepsRequired ==
  ASSUME NEW r, NEW lg
  PROVE  /\ TrimOverflow(r, lg) \subseteq r
         /\ \A n \in r : lg[n] => n \in TrimOverflow(r, lg)
  BY DEF TrimOverflow

\* A sequence over a set is one over every larger set.
LEMMA SeqWiden ==
  ASSUME NEW S, NEW T, S \subseteq T, NEW q \in Seq(S)
  PROVE  q \in Seq(T)
  OBVIOUS

\* A receiver's queue stays within its capacity, holds the message sent, and
\* loses at most its oldest message, only when it was full.
LEMMA EnqueueProperties ==
  ASSUME NEW S, NEW q \in Seq(S), NEW n \in S, Len(q) <= BroadcastCapacity
  PROVE  /\ Enqueue(q, n) \in Seq(S)
         /\ Len(Enqueue(q, n)) <= BroadcastCapacity
         /\ Holds(Enqueue(q, n), n)
         /\ Len(q) # BroadcastCapacity => \A m : Holds(q, m) => Holds(Enqueue(q, n), m)
<1>. BroadcastCapacity \in Nat \ {0}
  BY StreamAssumption
<1>1. CASE Len(q) < BroadcastCapacity
  <2>1. Enqueue(q, n) = Append(q, n)
    BY <1>1 DEF Enqueue
  <2>2. /\ Append(q, n) \in Seq(S)
        /\ Len(Append(q, n)) = Len(q) + 1
        /\ Append(q, n)[Len(q) + 1] = n
        /\ \A i \in 1 .. Len(q) : Append(q, n)[i] = q[i]
    OBVIOUS
  <2>. QED
    BY <1>1, <2>1, <2>2 DEF Holds
<1>2. CASE Len(q) = BroadcastCapacity
  <2>1. Enqueue(q, n) = Append(Tail(q), n)
    BY <1>2 DEF Enqueue
  <2>2. /\ Tail(q) \in Seq(S)
        /\ Len(Tail(q)) = Len(q) - 1
    BY <1>2
  <2>3. /\ Append(Tail(q), n) \in Seq(S)
        /\ Len(Append(Tail(q), n)) = Len(q)
        /\ Append(Tail(q), n)[Len(q)] = n
    BY <2>2, <1>2
  <2>. QED
    BY <1>2, <2>1, <2>3 DEF Holds
<1>. QED
  BY <1>1, <1>2

-----------------------------------------------------------------------------
\* Types

\* The sequences over the numbers used so far are typed whatever is appended.
LEMMA TypesGrow ==
  ASSUME TypeOK, NEW b \in BOOLEAN
  PROVE  /\ Append(log, b) \in Seq(BOOLEAN)
         /\ Len(Append(log, b)) = Len(log) + 1
         /\ Sequences1 \subseteq 1 .. Len(log) + 1
         /\ chan \in [Subscribers -> Seq(1 .. Len(log) + 1)]
         /\ live \in [Subscribers -> Seq(1 .. Len(log) + 1)]
<1>1. Append(log, b) \in Seq(BOOLEAN) /\ Len(Append(log, b)) = Len(log) + 1
  BY DEF TypeOK
<1>2. Sequences1 \subseteq 1 .. Len(log) + 1
  BY DEF TypeOK, Sequences1
<1>3. ASSUME NEW f \in [Subscribers -> Seq(Sequences1)]
      PROVE  f \in [Subscribers -> Seq(1 .. Len(log) + 1)]
  <2>1. ASSUME NEW s \in Subscribers PROVE f[s] \in Seq(1 .. Len(log) + 1)
    <3>1. f[s] \in Seq(Sequences1)
      OBVIOUS
    <3>. QED
      BY <3>1, <1>2, SeqWiden
  <2>. QED
    BY <2>1
<1>. QED
  BY <1>1, <1>2, <1>3 DEF TypeOK

LEMMA InitTypeOK == Init => TypeOK
<1>. SUFFICES ASSUME Init PROVE TypeOK
  OBVIOUS
<1>1. \A S : <<>> \in Seq(S)
  OBVIOUS
<1>2. log \in Seq(BOOLEAN) /\ chan \in [Subscribers -> Seq(Sequences1)]
      /\ live \in [Subscribers -> Seq(Sequences1)]
  BY <1>1 DEF Init
<1>3. \A s \in Subscribers : Len(chan[s]) <= BroadcastCapacity
  BY StreamAssumption DEF Init
<1>. QED
  BY <1>2, <1>3 DEF Init, TypeOK, Phases

LEMMA AppendTypeOK ==
  ASSUME TypeOK, NEW p \in Producers, NEW required \in BOOLEAN, AppendEvent(p, required)
  PROVE  TypeOK'
<1>1. /\ log' \in Seq(BOOLEAN)
      /\ Sequences1' = 1 .. Len(log) + 1
      /\ Sequences1 \subseteq Sequences1'
      /\ chan' \in [Subscribers -> Seq(Sequences1')]
      /\ live' \in [Subscribers -> Seq(Sequences1')]
  BY TypesGrow DEF AppendEvent, Sequences1, subVars
<1>2. ring' \subseteq Sequences1'
  <2>1. ring \cup {Len(log) + 1} \subseteq Sequences1'
    <3>1. Len(log) + 1 \in 1 .. Len(log) + 1
      BY DEF TypeOK
    <3>. QED
      BY <3>1, <1>1 DEF TypeOK
  <2>. QED
    BY <2>1, TrimOverflowKeepsRequired DEF AppendEvent
<1>3. sending' \in [Producers -> Sequences1' \cup {0}]
  <2>1. Len(log) + 1 \in Sequences1'
    BY <1>1 DEF TypeOK
  <2>. QED
    BY <2>1, <1>1 DEF AppendEvent, TypeOK
<1>4. /\ backfill' \in [Subscribers -> SUBSET Sequences1']
      /\ current' \in [Subscribers -> Sequences1' \cup {0}]
      /\ replay' \in [Subscribers -> SUBSET Sequences1']
      /\ discarded' \subseteq Sequences1'
  BY <1>1 DEF AppendEvent, TypeOK, subVars
<1>. QED
  BY <1>1, <1>2, <1>3, <1>4 DEF AppendEvent, TypeOK, subVars

LEMMA BroadcastTypeOK ==
  ASSUME TypeOK, NEW p \in Producers, Broadcast(p)
  PROVE  TypeOK'
<1>1. sending[p] \in Sequences1
  BY DEF TypeOK, Broadcast
<1>2. ASSUME NEW s \in Subscribers
      PROVE  chan'[s] \in Seq(Sequences1) /\ Len(chan'[s]) <= BroadcastCapacity
  BY <1>1, EnqueueProperties DEF TypeOK, Broadcast
<1>3. chan' \in [Subscribers -> Seq(Sequences1)]
  BY <1>2 DEF Broadcast
<1>4. lagged' \in [Subscribers -> BOOLEAN] /\ sending' \in [Producers -> Sequences1 \cup {0}]
  BY DEF TypeOK, Broadcast
<1>. QED
  BY <1>2, <1>3, <1>4 DEF TypeOK, Broadcast, Sequences1

LEMMA TrimTypeOK ==
  ASSUME TypeOK, NEW before, NEW keepRequired, TrimRun(before, keepRequired)
  PROVE  TypeOK'
  BY TrimOverflowKeepsRequired DEF TypeOK, TrimRun, Sequences1, subVars

\* A receiver that is dropped leaves an empty queue.
LEMMA ForgetChan ==
  ASSUME TypeOK, NEW s \in Subscribers
  PROVE  /\ [chan EXCEPT ![s] = <<>>] \in [Subscribers -> Seq(Sequences1)]
         /\ \A t \in Subscribers : Len([chan EXCEPT ![s] = <<>>][t]) <= BroadcastCapacity
<1>1. <<>> \in Seq(Sequences1) /\ Len(<<>>) = 0
  OBVIOUS
<1>. QED
  BY <1>1, StreamAssumption DEF TypeOK

LEMMA RecvEventTypeOK ==
  ASSUME TypeOK, NEW s \in Subscribers, RecvEvent(s)
  PROVE  TypeOK'
<1>1. /\ chan[s] \in Seq(Sequences1)
      /\ chan[s] # <<>>
      /\ Len(chan[s]) <= BroadcastCapacity
  BY DEF TypeOK, RecvEvent
<1>2. /\ Head(chan[s]) \in Sequences1
      /\ Tail(chan[s]) \in Seq(Sequences1)
      /\ Len(Tail(chan[s])) = Len(chan[s]) - 1
  BY <1>1
<1>3. chan' \in [Subscribers -> Seq(Sequences1)]
  BY <1>2 DEF TypeOK, RecvEvent
<1>4. \A t \in Subscribers : Len(chan'[t]) <= BroadcastCapacity
  BY <1>1, <1>2, StreamAssumption DEF TypeOK, RecvEvent
<1>5. /\ looking' \in [Subscribers -> BOOLEAN]
      /\ current' \in [Subscribers -> Sequences1 \cup {0}]
  BY <1>2 DEF TypeOK, RecvEvent
<1>. QED
  BY <1>3, <1>4, <1>5 DEF TypeOK, RecvEvent, Sequences1

LEMMA SendRetainedTypeOK ==
  ASSUME TypeOK, NEW s \in Subscribers, SendRetained(s)
  PROVE  TypeOK'
<1>1. PICK n \in backfill[s] : SendRetained(s)!1!(n)
  BY DEF SendRetained
<1>2. n \in Sequences1 /\ n \in Nat
  BY DEF TypeOK, Sequences1
<1>3. Append(live[s], n) \in Seq(Sequences1)
  BY <1>2 DEF TypeOK
<1>4. CASE phase[s] = "live"
  <2>1. /\ live' = [live EXCEPT ![s] = Append(live[s], n)]
        /\ last' = [last EXCEPT ![s] = n]
        /\ backfill' = [backfill EXCEPT ![s] = backfill[s] \ {n}]
        /\ UNCHANGED <<phase, chan, lagged, current>>
    BY <1>1, <1>4
  <2>2. /\ live \in [Subscribers -> Seq(Sequences1)] /\ last \in [Subscribers -> Nat]
        /\ backfill \in [Subscribers -> SUBSET Sequences1]
    BY DEF TypeOK
  <2>3. live' \in [Subscribers -> Seq(Sequences1)]
    BY <2>1, <2>2, <1>3
  <2>4. last' \in [Subscribers -> Nat]
    BY <2>1, <2>2, <1>2
  <2>5. backfill' \in [Subscribers -> SUBSET Sequences1]
    BY <2>1, <2>2
  <2>. QED
    BY <2>1, <2>3, <2>4, <2>5 DEF TypeOK, SendRetained, Sequences1
<1>5. CASE phase[s] = "gone"
  <2>1. /\ phase' \in [Subscribers -> Phases]
        /\ lagged' \in [Subscribers -> BOOLEAN]
        /\ backfill' \in [Subscribers -> SUBSET Sequences1]
        /\ current' \in [Subscribers -> Sequences1 \cup {0}]
    BY <1>1, <1>5 DEF TypeOK, Phases
  <2>2. /\ chan' \in [Subscribers -> Seq(Sequences1)]
        /\ \A t \in Subscribers : Len(chan'[t]) <= BroadcastCapacity
    <3>1. chan' = [chan EXCEPT ![s] = <<>>]
      BY <1>1, <1>5
    <3>. QED
      BY <3>1, ForgetChan
  <2>. QED
    BY <1>1, <1>5, <2>1, <2>2 DEF TypeOK, SendRetained, Sequences1
<1>. QED
  BY <1>1, <1>4, <1>5

LEMMA SendCurrentTypeOK ==
  ASSUME TypeOK, NEW s \in Subscribers, SendCurrent(s)
  PROVE  TypeOK'
<1>1. current[s] \in Sequences1 /\ current[s] \in Nat
  BY DEF TypeOK, SendCurrent, Sequences1
<1>2. Append(live[s], current[s]) \in Seq(Sequences1)
  BY <1>1 DEF TypeOK
<1>3. /\ live' \in [Subscribers -> Seq(Sequences1)]
      /\ last' \in [Subscribers -> Nat]
      /\ current' \in [Subscribers -> Sequences1 \cup {0}]
      /\ phase' \in [Subscribers -> Phases]
      /\ lagged' \in [Subscribers -> BOOLEAN]
  BY <1>1, <1>2 DEF TypeOK, SendCurrent, Phases
<1>4. /\ chan' \in [Subscribers -> Seq(Sequences1)]
      /\ \A t \in Subscribers : Len(chan'[t]) <= BroadcastCapacity
  <2>1. chan' = chan \/ chan' = [chan EXCEPT ![s] = <<>>]
    BY DEF SendCurrent
  <2>2. CASE chan' = chan
    BY <2>2 DEF TypeOK
  <2>3. CASE chan' = [chan EXCEPT ![s] = <<>>]
    BY <2>3, ForgetChan
  <2>. QED
    BY <2>1, <2>2, <2>3
<1>. QED
  BY <1>3, <1>4 DEF TypeOK, SendCurrent, Sequences1

LEMMA SubscriberTypeOK ==
  ASSUME TypeOK, NEW s \in Subscribers,
         \/ \E f \in StartPositions : Attach(s, f)
         \/ Refuse(s)
         \/ Snapshot(s)
         \/ RecvLagged(s)
         \/ ReadRing(s)
         \/ DropConsumer(s)
  PROVE  TypeOK'
<1>1. CASE \E f \in StartPositions : Attach(s, f)
  BY <1>1, StreamAssumption DEF TypeOK, Attach, Sequences1, Phases
<1>2. CASE Refuse(s)
  BY <1>2, StreamAssumption DEF TypeOK, Refuse, Sequences1, Phases
<1>3. CASE Snapshot(s)
  <2>1. RetainedAfter(from[s]) \subseteq Sequences1
    BY DEF RetainedAfter, TypeOK
  <2>2. RetainedAfter(from[s]) \subseteq Nat
    BY <2>1 DEF Sequences1
  <2>3. last' \in [Subscribers -> Nat]
    <3>1. CASE last' = [last EXCEPT ![s] = from[s]]
      BY <3>1 DEF TypeOK
    <3>2. CASE \E m \in RetainedAfter(from[s]) : last' = [last EXCEPT ![s] = m]
      BY <3>2, <2>2 DEF TypeOK
    <3>. QED
      BY <1>3, <3>1, <3>2 DEF Snapshot
  <2>. QED
    BY <1>3, <2>1, <2>3 DEF TypeOK, Snapshot, Sequences1, Phases
<1>4. CASE RecvLagged(s)
  BY <1>4 DEF TypeOK, RecvLagged, Sequences1
<1>5. CASE ReadRing(s)
  <2>1. RetainedAfter(last[s]) \subseteq Sequences1
    BY DEF RetainedAfter, TypeOK
  <2>. QED
    BY <1>5, <2>1 DEF TypeOK, ReadRing, Sequences1
<1>6. CASE DropConsumer(s)
  BY <1>6 DEF TypeOK, DropConsumer, Sequences1, Phases
<1>. QED
  BY <1>1, <1>2, <1>3, <1>4, <1>5, <1>6

LEMMA NextTypeOK == TypeOK /\ [Next]_vars => TypeOK'
<1>. SUFFICES ASSUME TypeOK, [Next]_vars PROVE TypeOK'
  OBVIOUS
<1>1. CASE OpenRun \/ CloseRun
  BY <1>1 DEF OpenRun, CloseRun, TypeOK, Sequences1, subVars
<1>2. CASE \E before \in 1 .. MaxSequence + 1, keepRequired \in BOOLEAN :
             TrimRun(before, keepRequired)
  BY <1>2, TrimTypeOK
<1>3. CASE \E p \in Producers : Produce(p)
  BY <1>3, AppendTypeOK, BroadcastTypeOK DEF Produce
<1>4. ASSUME NEW s \in Subscribers,
             \/ \E f \in StartPositions : Attach(s, f)
             \/ Refuse(s) \/ Snapshot(s) \/ Forward(s) \/ DropConsumer(s)
      PROVE  TypeOK'
  BY <1>4, SubscriberTypeOK, RecvEventTypeOK, SendRetainedTypeOK, SendCurrentTypeOK DEF Forward
<1>5. CASE UNCHANGED vars
  BY <1>5 DEF vars, subVars, TypeOK, Sequences1
<1>. QED
  BY <1>1, <1>2, <1>3, <1>4, <1>5 DEF Next

\* The type invariant, for every value of the constants.
THEOREM TypeCorrect == Spec => []TypeOK
  BY InitTypeOK, NextTypeOK, PTL DEF Spec

-----------------------------------------------------------------------------
(***************************************************************************)
(* The inductive invariant.  OrderedDelivery and NoRequiredSkipped speak   *)
(* of what a consumer has received; to be preserved they need what the     *)
(* forwarding task still holds: the clones it took from the ring lie after *)
(* last_sent_sequence, and, once it has looked at the ring, no required    *)
(* one is missing among the events it is about to send.  CaughtUpWhenQuiet *)
(* needs to know where an event the consumer lacks can be: in the ring     *)
(* only while a message or a pending lag will make the task look there.    *)
(***************************************************************************)
Joined(s) == phase[s] \in {"live", "gone", "stopped"}

\* A required event stays in the ring unless an explicit trim removed it.
RequiredRetained == \A n \in Sequences1 : log[n] => n \in ring \/ n \in discarded

\* Nothing was sent before the subscription was answered.
NothingBefore(s) ==
  ~Joined(s) => backfill[s] = {} /\ current[s] = 0 /\ replay[s] = {} /\ live[s] = <<>>

\* The task looks at the ring only when it holds no clones.
Looking(s) == looking[s] => Joined(s) /\ backfill[s] = {}

\* What was sent is in order, and what is to be sent comes after it.
Ordered(s) ==
  Joined(s) =>
    /\ from[s] <= last[s]
    /\ last[s] = from[s] \/ last[s] \in Sequences1
    /\ \A n \in replay[s] : from[s] < n /\ n <= last[s]
    /\ \A i \in 1 .. Len(live[s]) : live[s][i] <= last[s]
    /\ \A n \in replay[s] : \A i \in 1 .. Len(live[s]) : n < live[s][i]
    /\ \A i, j \in 1 .. Len(live[s]) : i < j => live[s][i] < live[s][j]
    /\ \A n \in backfill[s] : last[s] < n

\* The events the task is about to pass by on its way to what it holds
Ahead(s, n) == last[s] < n /\ (n < current[s] \/ \E m \in backfill[s] : n < m)

NoGap(s) ==
  Joined(s) /\ ~looking[s] =>
    \A n \in Sequences1 : log[n] /\ n \notin discarded /\ Ahead(s, n) => n \in backfill[s]

Complete(s) ==
  Joined(s) =>
    \A n \in Sequences1 :
      from[s] < n /\ n <= last[s] /\ log[n] /\ n \notin discarded => Received(s, n)

\* A retained event the consumer lacks is on its way to the task.
OnItsWay(s, n) ==
  \/ n \in backfill[s]
  \/ lagged[s] \/ looking[s]
  \/ Holds(chan[s], n)
  \/ \E p \in Producers : sending[p] = n

Pending(s) == phase[s] = "live" => \A n \in ring : last[s] < n => OnItsWay(s, n)

SubscriberInv(s) ==
  NothingBefore(s) /\ Looking(s) /\ Ordered(s) /\ NoGap(s) /\ Complete(s) /\ Pending(s)

Inv == RequiredRetained /\ \A s \in Subscribers : SubscriberInv(s)

USE DEF Joined

\* A step that leaves the ring and a subscriber alone keeps its invariant.
LEMMA Unaffected ==
  ASSUME NEW s \in Subscribers, SubscriberInv(s),
         log' = log, ring' = ring, discarded' = discarded, sending' = sending,
         phase'[s] = phase[s], from'[s] = from[s], chan'[s] = chan[s],
         lagged'[s] = lagged[s], last'[s] = last[s], looking'[s] = looking[s],
         backfill'[s] = backfill[s], current'[s] = current[s], replay'[s] = replay[s],
         live'[s] = live[s]
  PROVE  SubscriberInv(s)'
<1>1. NothingBefore(s)' /\ Looking(s)' /\ Ordered(s)'
  BY DEF SubscriberInv, NothingBefore, Looking, Ordered, Sequences1
<1>2. NoGap(s)'
  BY DEF SubscriberInv, NoGap, Ahead, Sequences1
<1>3. Complete(s)'
  BY DEF SubscriberInv, Complete, Received, Holds, Sequences1
<1>4. Pending(s)'
  BY DEF SubscriberInv, Pending, OnItsWay, Holds
<1>. QED
  BY <1>1, <1>2, <1>3, <1>4 DEF SubscriberInv

\* The same for a step of one subscriber, seen from the others.
LEMMA OthersUnaffected ==
  ASSUME TypeOK, Inv, NEW s \in Subscribers,
         log' = log, ring' = ring, discarded' = discarded, sending' = sending,
         \A t \in Subscribers \ {s} :
           /\ phase'[t] = phase[t] /\ from'[t] = from[t] /\ chan'[t] = chan[t]
           /\ lagged'[t] = lagged[t] /\ last'[t] = last[t] /\ looking'[t] = looking[t]
           /\ backfill'[t] = backfill[t] /\ current'[t] = current[t]
           /\ replay'[t] = replay[t] /\ live'[t] = live[t],
         SubscriberInv(s)'
  PROVE  Inv'
<1>1. RequiredRetained'
  BY DEF Inv, RequiredRetained, Sequences1
<1>2. ASSUME NEW t \in Subscribers \ {s} PROVE SubscriberInv(t)'
  BY <1>2, Unaffected DEF Inv
<1>. QED
  BY <1>1, <1>2 DEF Inv

LEMMA InitInv == Init => Inv
  BY DEF Init, Inv, RequiredRetained, SubscriberInv, NothingBefore, Looking, Ordered, NoGap,
         Complete, Pending, Sequences1

LEMMA AppendInv ==
  ASSUME TypeOK, Inv, NEW p \in Producers, NEW required \in BOOLEAN, AppendEvent(p, required)
  PROVE  Inv'
<1>. DEFINE new == Len(log) + 1
<1>1. /\ log \in Seq(BOOLEAN)
      /\ log' = Append(log, required)
      /\ Len(log) \in Nat
  BY DEF TypeOK, AppendEvent
<1>2. /\ Sequences1' = Sequences1 \cup {new}
      /\ \A n \in Sequences1 : log'[n] = log[n] /\ n < new
      /\ new \notin Sequences1
  BY <1>1 DEF Sequences1
<1>3. /\ ring' \subseteq ring \cup {new}
      /\ \A n \in ring \cup {new} : log'[n] => n \in ring'
  <2>1. ring' = TrimOverflow(ring \cup {new}, log')
    BY DEF AppendEvent
  <2>. QED
    BY <2>1, TrimOverflowKeepsRequired
<1>4. RequiredRetained'
  BY <1>2, <1>3 DEF Inv, RequiredRetained, AppendEvent
<1>5. ASSUME NEW s \in Subscribers PROVE SubscriberInv(s)'
  <2>1. SubscriberInv(s)
    BY DEF Inv
  <2>2. NothingBefore(s)' /\ Looking(s)' /\ Ordered(s)'
    BY <2>1, <1>2 DEF SubscriberInv, NothingBefore, Looking, Ordered, AppendEvent, subVars
  <2>3. NoGap(s)'
    <3>1. ~Ahead(s, new)
      <4>1. current[s] \in Sequences1 \cup {0} /\ backfill[s] \subseteq Sequences1
        BY DEF TypeOK
      <4>2. \A m \in Sequences1 \cup {0} : ~(new < m)
        BY <1>1 DEF Sequences1
      <4>. QED
        BY <4>1, <4>2 DEF Ahead
    <3>. QED
      BY <2>1, <3>1, <1>2 DEF SubscriberInv, NoGap, Ahead, AppendEvent, subVars
  <2>4. Complete(s)'
    <3>. SUFFICES ASSUME Joined(s), NEW n \in Sequences1',
                         from[s] < n, n <= last[s], log'[n], n \notin discarded
                  PROVE  Received(s, n)
      BY DEF Complete, Received, Holds, AppendEvent, subVars
    <3>1. n # new
      <4>1. last[s] = from[s] \/ last[s] \in Sequences1
        BY <2>1 DEF SubscriberInv, Ordered
      <4>2. from[s] \in Nat
        BY DEF TypeOK
      <4>. QED
        BY <1>1, <4>1, <4>2 DEF Sequences1
    <3>. QED
      BY <2>1, <3>1, <1>2 DEF SubscriberInv, Complete
  <2>5. Pending(s)'
    <3>. SUFFICES ASSUME phase[s] = "live", NEW n \in ring', last[s] < n
                  PROVE  OnItsWay(s, n)'
      BY DEF Pending, AppendEvent, subVars
    <3>1. sending' = [sending EXCEPT ![p] = new] /\ sending[p] = 0
          /\ sending \in [Producers -> Sequences1 \cup {0}]
      BY DEF AppendEvent, TypeOK
    <3>2. CASE n = new
      BY <3>1, <3>2 DEF OnItsWay
    <3>3. CASE n \in ring
      <4>1. OnItsWay(s, n) /\ n # 0
        BY <2>1, <3>3 DEF SubscriberInv, Pending, TypeOK, Sequences1
      <4>2. (\E q \in Producers : sending[q] = n) => \E q \in Producers : sending'[q] = n
        BY <3>1, <4>1
      <4>. QED
        BY <4>1, <4>2 DEF OnItsWay, Holds, AppendEvent, subVars
    <3>. QED
      BY <1>3, <3>2, <3>3
  <2>. QED
    BY <2>2, <2>3, <2>4, <2>5 DEF SubscriberInv
<1>. QED
  BY <1>4, <1>5 DEF Inv

LEMMA BroadcastInv ==
  ASSUME TypeOK, Inv, NEW p \in Producers, Broadcast(p)
  PROVE  Inv'
<1>1. RequiredRetained'
  BY DEF Inv, RequiredRetained, Broadcast, Sequences1
<1>2. ASSUME NEW s \in Subscribers PROVE SubscriberInv(s)'
  <2>1. SubscriberInv(s)
    BY DEF Inv
  <2>2. NothingBefore(s)' /\ Looking(s)' /\ Ordered(s)'
    BY <2>1 DEF SubscriberInv, NothingBefore, Looking, Ordered, Broadcast, Sequences1
  <2>3. NoGap(s)'
    BY <2>1 DEF SubscriberInv, NoGap, Ahead, Broadcast, Sequences1
  <2>4. Complete(s)'
    BY <2>1 DEF SubscriberInv, Complete, Received, Holds, Broadcast, Sequences1
  <2>5. Pending(s)'
    <3>. SUFFICES ASSUME phase[s] = "live", NEW n \in ring, last[s] < n
                  PROVE  OnItsWay(s, n)'
      BY DEF Pending, Broadcast
    <3>1. s \in Receiving
      BY DEF Receiving
    <3>2. /\ chan'[s] = Enqueue(chan[s], sending[p])
          /\ lagged'[s] = (lagged[s] \/ Len(chan[s]) = BroadcastCapacity)
      BY <3>1 DEF Broadcast
    <3>3. /\ Holds(chan'[s], sending[p])
          /\ Len(chan[s]) # BroadcastCapacity =>
               \A m : Holds(chan[s], m) => Holds(chan'[s], m)
      <4>1. /\ chan[s] \in Seq(Sequences1) /\ Len(chan[s]) <= BroadcastCapacity
            /\ sending[p] \in Sequences1
        BY DEF TypeOK, Broadcast
      <4>. QED
        BY <4>1, <3>2, EnqueueProperties
    <3>4. OnItsWay(s, n)
      BY <2>1 DEF SubscriberInv, Pending
    <3>5. CASE n \in backfill[s] \/ lagged[s] \/ looking[s]
      BY <3>5, <3>2 DEF OnItsWay, Broadcast
    <3>6. CASE Holds(chan[s], n)
      BY <3>6, <3>2, <3>3 DEF OnItsWay
    <3>7. CASE \E q \in Producers : sending[q] = n
      <4>1. PICK q \in Producers : sending[q] = n
        BY <3>7
      <4>2. CASE q = p
        BY <4>1, <4>2, <3>3 DEF OnItsWay
      <4>3. CASE q # p
        BY <4>1, <4>3 DEF OnItsWay, Broadcast, TypeOK
      <4>. QED
        BY <4>2, <4>3
    <3>. QED
      BY <3>4, <3>5, <3>6, <3>7 DEF OnItsWay
  <2>. QED
    BY <2>2, <2>3, <2>4, <2>5 DEF SubscriberInv
<1>. QED
  BY <1>1, <1>2 DEF Inv

LEMMA TrimInv ==
  ASSUME TypeOK, Inv, NEW before, NEW keepRequired, TrimRun(before, keepRequired)
  PROVE  Inv'
<1>1. /\ ring' \subseteq ring
      /\ discarded \subseteq discarded'
      /\ \A n \in ring : log[n] => n \in ring' \/ n \in discarded'
  BY TrimOverflowKeepsRequired DEF TrimRun
<1>2. RequiredRetained'
  BY <1>1 DEF Inv, RequiredRetained, TrimRun, Sequences1
<1>3. ASSUME NEW s \in Subscribers PROVE SubscriberInv(s)'
  <2>1. SubscriberInv(s)
    BY DEF Inv
  <2>2. NothingBefore(s)' /\ Looking(s)' /\ Ordered(s)'
    BY <2>1 DEF SubscriberInv, NothingBefore, Looking, Ordered, TrimRun, subVars, Sequences1
  <2>3. NoGap(s)'
    BY <2>1, <1>1 DEF SubscriberInv, NoGap, Ahead, TrimRun, subVars, Sequences1
  <2>4. Complete(s)'
    BY <2>1, <1>1 DEF SubscriberInv, Complete, Received, Holds, TrimRun, subVars, Sequences1
  <2>5. Pending(s)'
    BY <2>1, <1>1 DEF SubscriberInv, Pending, OnItsWay, Holds, TrimRun, subVars
  <2>. QED
    BY <2>2, <2>3, <2>4, <2>5 DEF SubscriberInv
<1>. QED
  BY <1>2, <1>3 DEF Inv

\* Steps of one subscriber before its subscription is answered
LEMMA SubscribingInv ==
  ASSUME TypeOK, Inv, NEW s \in Subscribers,
         (\E f \in StartPositions : Attach(s, f)) \/ Refuse(s)
  PROVE  Inv'
<1>1. /\ phase[s] \in {"idle", "attached"}
      /\ phase'[s] \in {"attached", "expired"}
      /\ log' = log /\ ring' = ring /\ discarded' = discarded /\ sending' = sending
      /\ backfill' = backfill /\ current' = current /\ replay' = replay /\ live' = live
      /\ last' = last /\ looking' = looking
      /\ \A t \in Subscribers \ {s} :
           /\ phase'[t] = phase[t] /\ from'[t] = from[t] /\ chan'[t] = chan[t]
           /\ lagged'[t] = lagged[t]
  BY DEF Attach, Refuse, TypeOK
<1>2. SubscriberInv(s)
  BY DEF Inv
<1>3. SubscriberInv(s)'
  BY <1>1, <1>2 DEF SubscriberInv, NothingBefore, Looking, Ordered, NoGap, Complete, Pending
<1>. QED
  BY <1>1, <1>3, OthersUnaffected

\* The snapshot holds every retained event after the start position, so
\* everything required is either in it or discarded.
LEMMA SnapshotInv ==
  ASSUME TypeOK, Inv, NEW s \in Subscribers, Snapshot(s)
  PROVE  Inv'
<1>. DEFINE R == RetainedAfter(from[s])
<1>1. /\ phase'[s] = "live" /\ phase[s] = "attached"
      /\ replay'[s] = R
      /\ from' = from /\ looking' = looking /\ backfill' = backfill /\ current' = current
      /\ live' = live
      /\ log' = log /\ ring' = ring /\ discarded' = discarded /\ sending' = sending
  BY DEF Snapshot, TypeOK
<1>2. /\ backfill[s] = {} /\ current[s] = 0 /\ live[s] = <<>> /\ ~looking[s]
  BY <1>1 DEF Inv, SubscriberInv, NothingBefore, Looking
<1>3. /\ from[s] \in Nat
      /\ R \subseteq Sequences1
      /\ \A n \in Sequences1 : n \in Nat /\ n # 0
  <2>1. Len(log) \in Nat
    BY DEF TypeOK
  <2>2. R \subseteq Sequences1
    BY DEF TypeOK, RetainedAfter
  <2>. QED
    BY <2>1, <2>2 DEF TypeOK, Sequences1
<1>4. /\ last'[s] = from[s] \/ last'[s] \in R
      /\ from[s] <= last'[s]
      /\ \A n \in R : from[s] < n /\ n <= last'[s]
  BY <1>3 DEF Snapshot, TypeOK, RetainedAfter
<1>5. NothingBefore(s)' /\ Looking(s)'
  BY <1>1, <1>2 DEF NothingBefore, Looking
<1>6. Ordered(s)'
  BY <1>1, <1>2, <1>3, <1>4 DEF Ordered, Sequences1
<1>7. NoGap(s)'
  BY <1>1, <1>2, <1>3 DEF NoGap, Ahead, Sequences1
<1>8. Complete(s)'
  <2>. SUFFICES ASSUME NEW n \in Sequences1, from[s] < n, log[n], n \notin discarded
                PROVE  n \in R
    BY <1>1 DEF Complete, Received, Sequences1
  <2>. QED
    BY DEF Inv, RequiredRetained, RetainedAfter
<1>9. Pending(s)'
  <2>. SUFFICES ASSUME NEW n \in ring PROVE ~(last'[s] < n)
    BY <1>1 DEF Pending
  <2>1. n \in Nat /\ last'[s] \in Nat
    BY <1>3, <1>4 DEF TypeOK
  <2>2. CASE n \in R
    BY <2>1, <2>2, <1>4
  <2>3. CASE n \notin R
    BY <2>1, <2>3, <1>3, <1>4 DEF RetainedAfter
  <2>. QED
    BY <2>2, <2>3
<1>10. SubscriberInv(s)'
  BY <1>5, <1>6, <1>7, <1>8, <1>9 DEF SubscriberInv
<1>11. \A t \in Subscribers \ {s} :
         /\ phase'[t] = phase[t] /\ chan'[t] = chan[t] /\ lagged'[t] = lagged[t]
         /\ last'[t] = last[t] /\ replay'[t] = replay[t]
  BY DEF Snapshot, TypeOK
<1>. QED
  BY <1>1, <1>10, <1>11, OthersUnaffected

\* A task that has yet to look at the ring misses nothing.
LEMMA AboutToLook ==
  ASSUME TypeOK, NEW s \in Subscribers, SubscriberInv(s), Joined(s), backfill[s] = {},
         log' = log, discarded' = discarded, from' = from, last' = last,
         replay' = replay, live' = live, phase' = phase, backfill' = backfill,
         looking'[s]
  PROVE  SubscriberInv(s)'
<1>1. NothingBefore(s)' /\ Looking(s)' /\ Ordered(s)'
  BY DEF SubscriberInv, NothingBefore, Looking, Ordered, Sequences1
<1>2. NoGap(s)' /\ Pending(s)'
  BY DEF NoGap, Pending, OnItsWay
<1>3. Complete(s)'
  BY DEF SubscriberInv, Complete, Received, Holds, Sequences1
<1>. QED
  BY <1>1, <1>2, <1>3 DEF SubscriberInv

LEMMA RecvLaggedInv ==
  ASSUME TypeOK, Inv, NEW s \in Subscribers, RecvLagged(s)
  PROVE  Inv'
<1>1. SubscriberInv(s)'
  BY AboutToLook DEF RecvLagged, AtRecv, TypeOK, Inv
<1>2. \A t \in Subscribers \ {s} : lagged'[t] = lagged[t] /\ looking'[t] = looking[t]
  BY DEF RecvLagged, TypeOK
<1>. QED
  BY <1>1, <1>2, OthersUnaffected DEF RecvLagged

\* What the ring retains after last_sent_sequence is everything required.
LEMMA ReadRingInv ==
  ASSUME TypeOK, Inv, NEW s \in Subscribers, ReadRing(s)
  PROVE  Inv'
<1>1. SubscriberInv(s) /\ looking[s] /\ Joined(s)
  BY DEF Inv, SubscriberInv, Looking, ReadRing
<1>2. /\ backfill'[s] = RetainedAfter(last[s])
      /\ ~looking'[s]
      /\ \A t \in Subscribers \ {s} : looking'[t] = looking[t] /\ backfill'[t] = backfill[t]
  BY DEF ReadRing, TypeOK
<1>3. NothingBefore(s)' /\ Looking(s)' /\ Ordered(s)'
  BY <1>1, <1>2 DEF SubscriberInv, NothingBefore, Looking, Ordered, RetainedAfter, ReadRing,
     Sequences1
<1>4. NoGap(s)'
  BY <1>2 DEF Inv, RequiredRetained, NoGap, Ahead, RetainedAfter, ReadRing, Sequences1
<1>5. Complete(s)'
  BY <1>1 DEF SubscriberInv, Complete, Received, Holds, ReadRing, Sequences1
<1>6. Pending(s)'
  BY <1>2 DEF Pending, OnItsWay, RetainedAfter, ReadRing
<1>7. SubscriberInv(s)'
  BY <1>3, <1>4, <1>5, <1>6 DEF SubscriberInv
<1>. QED
  BY <1>2, <1>7, OthersUnaffected DEF ReadRing

\* Receiving an event: one already sent leaves everything as it was; another
\* makes the task look at the ring.
LEMMA RecvEventInv ==
  ASSUME TypeOK, Inv, NEW s \in Subscribers, RecvEvent(s)
  PROVE  Inv'
<1>1. SubscriberInv(s)
  BY DEF Inv
<1>2. /\ log' = log /\ ring' = ring /\ discarded' = discarded /\ sending' = sending
      /\ phase' = phase /\ from' = from /\ lagged' = lagged /\ last' = last
      /\ replay' = replay /\ live' = live
      /\ backfill' = backfill
      /\ Joined(s) /\ backfill[s] = {} /\ current[s] = 0 /\ ~looking[s]
      /\ chan'[s] = Tail(chan[s])
  BY DEF RecvEvent, AtRecv, TypeOK
<1>3. CASE Head(chan[s]) <= last[s] /\ UNCHANGED <<looking, current>>
  <2>1. NothingBefore(s)' /\ Looking(s)' /\ Ordered(s)' /\ NoGap(s)' /\ Complete(s)'
    BY <1>1, <1>2, <1>3 DEF SubscriberInv, NothingBefore, Looking, Ordered, NoGap, Ahead, Complete,
       Received, Holds, Sequences1
  <2>2. Pending(s)'
    <3>. SUFFICES ASSUME phase[s] = "live", NEW n \in ring, last[s] < n
                  PROVE  OnItsWay(s, n)'
      BY <1>2 DEF Pending
    <3>1. OnItsWay(s, n)
      BY <1>1 DEF SubscriberInv, Pending
    <3>2. ASSUME Holds(chan[s], n) PROVE Holds(chan'[s], n)
      <4>1. chan[s] \in Seq(Sequences1) /\ chan[s] # <<>>
        BY DEF TypeOK, RecvEvent
      <4>2. PICK i \in 1 .. Len(chan[s]) : chan[s][i] = n
        BY <3>2 DEF Holds
      <4>3. n \in Nat /\ last[s] \in Nat /\ chan[s][1] <= last[s]
        BY <1>3, <4>1 DEF TypeOK, Sequences1
      <4>4. i # 1
        BY <4>2, <4>3
      <4>5. /\ i - 1 \in 1 .. Len(Tail(chan[s]))
            /\ Tail(chan[s])[i - 1] = chan[s][i]
        BY <4>1, <4>4
      <4>. QED
        BY <4>2, <4>5, <1>2 DEF Holds
    <3>. QED
      BY <1>2, <1>3, <3>1, <3>2 DEF OnItsWay
  <2>3. SubscriberInv(s)'
    BY <2>1, <2>2 DEF SubscriberInv
  <2>. QED
    BY <1>2, <1>3, <2>3, OthersUnaffected DEF RecvEvent
<1>4. CASE /\ looking' = [looking EXCEPT ![s] = TRUE]
           /\ current' = [current EXCEPT ![s] = Head(chan[s])]
  <2>1. looking'[s]
    BY <1>4 DEF TypeOK
  <2>2. SubscriberInv(s)'
    BY <1>1, <1>2, <2>1, AboutToLook
  <2>3. \A t \in Subscribers \ {s} : /\ looking'[t] = looking[t]
                                     /\ current'[t] = current[t]
                                     /\ chan'[t] = chan[t]
    BY <1>4 DEF RecvEvent, TypeOK
  <2>. QED
    BY <1>2, <2>2, <2>3, OthersUnaffected
<1>. QED
  BY <1>3, <1>4 DEF RecvEvent

\* Appending a larger number keeps a sequence increasing.
LEMMA AppendIncreasing ==
  ASSUME NEW S \in SUBSET Nat, NEW q \in Seq(S), NEW n \in S,
         \A i \in 1 .. Len(q) : q[i] < n,
         \A i, j \in 1 .. Len(q) : i < j => q[i] < q[j]
  PROVE  \A i, j \in 1 .. Len(Append(q, n)) : i < j => Append(q, n)[i] < Append(q, n)[j]
<1>1. /\ Len(Append(q, n)) = Len(q) + 1
      /\ Len(q) \in Nat
      /\ Append(q, n)[Len(q) + 1] = n
      /\ \A i \in 1 .. Len(q) : Append(q, n)[i] = q[i]
  OBVIOUS
<1>. SUFFICES ASSUME NEW i \in 1 .. Len(q) + 1, NEW j \in 1 .. Len(q) + 1, i < j
              PROVE  Append(q, n)[i] < Append(q, n)[j]
  BY <1>1
<1>2. i \in 1 .. Len(q)
  BY <1>1
<1>3. CASE j = Len(q) + 1
  BY <1>1, <1>2, <1>3
<1>4. CASE j \in 1 .. Len(q)
  BY <1>1, <1>2, <1>4
<1>. QED
  BY <1>1, <1>3, <1>4

\* One retained event is sent: the smallest, so the required events between
\* last_sent_sequence and it are none.
LEMMA SendRetainedInv ==
  ASSUME TypeOK, Inv, NEW s \in Subscribers, SendRetained(s)
  PROVE  Inv'
<1>1. PICK n \in backfill[s] : SendRetained(s)!1!(n)
  BY DEF SendRetained
<1>2. /\ log' = log /\ ring' = ring /\ discarded' = discarded /\ sending' = sending
      /\ from' = from /\ replay' = replay /\ looking' = looking
  BY DEF SendRetained
<1>3. SubscriberInv(s) /\ ~looking[s]
  BY DEF Inv, SubscriberInv, Looking
<1>4. /\ \A m \in Sequences1 : m \in Nat /\ m # 0
      /\ n \in Sequences1 /\ last[s] \in Nat /\ from[s] \in Nat /\ current[s] \in Nat
      /\ backfill[s] \subseteq Sequences1 /\ replay[s] \subseteq Sequences1
      /\ live[s] \in Seq(Sequences1)
      /\ \A i \in 1 .. Len(live[s]) : live[s][i] \in Nat
  <2>1. Len(log) \in Nat
    BY DEF TypeOK
  <2>2. \A m \in Sequences1 : m \in Nat /\ m # 0
    BY <2>1 DEF Sequences1
  <2>3. live[s] \in Seq(Sequences1) /\ backfill[s] \subseteq Sequences1
    BY DEF TypeOK
  <2>. QED
    BY <2>2, <2>3 DEF TypeOK
<1>5. CASE phase[s] = "live"
  <2>1. /\ live' = [live EXCEPT ![s] = Append(@, n)]
        /\ last' = [last EXCEPT ![s] = n]
        /\ backfill' = [backfill EXCEPT ![s] = @ \ {n}]
        /\ phase' = phase /\ chan' = chan /\ lagged' = lagged /\ current' = current
        /\ \A m \in backfill[s] : n <= m
    BY <1>1, <1>5
  <2>2. /\ live'[s] = Append(live[s], n)
        /\ last'[s] = n
        /\ backfill'[s] = backfill[s] \ {n}
    BY <2>1 DEF TypeOK
  <2>3. /\ Len(live'[s]) = Len(live[s]) + 1
        /\ live'[s][Len(live[s]) + 1] = n
        /\ \A i \in 1 .. Len(live[s]) : live'[s][i] = live[s][i]
        /\ Len(live[s]) \in Nat
    BY <1>4, <2>2
  <2>4. last[s] < n
    BY <1>3, <1>5 DEF SubscriberInv, Ordered
  <2>5. NothingBefore(s)' /\ Looking(s)'
    BY <1>2, <1>3, <1>5, <2>1 DEF NothingBefore, Looking
  <2>6. Ordered(s)'
    <3>1. Ordered(s)!2
      BY <1>3, <1>5 DEF SubscriberInv, Ordered
    <3>2. from'[s] <= last'[s] /\ last'[s] \in Sequences1'
      BY <3>1, <1>2, <1>4, <2>2, <2>4 DEF Sequences1
    <3>3. \A m \in replay'[s] : from'[s] < m /\ m <= last'[s]
      BY <3>1, <1>2, <1>4, <2>2, <2>4
    <3>4. \A i \in 1 .. Len(live'[s]) : live'[s][i] <= last'[s]
      BY <3>1, <1>4, <2>2, <2>3, <2>4
    <3>5. \A m \in replay'[s] : \A i \in 1 .. Len(live'[s]) : m < live'[s][i]
      BY <3>1, <1>2, <1>4, <2>2, <2>3, <2>4
    <3>6. \A i, j \in 1 .. Len(live'[s]) : i < j => live'[s][i] < live'[s][j]
      <4>1. \A i \in 1 .. Len(live[s]) : live[s][i] < n
        BY <3>1, <1>4, <2>4
      <4>2. Sequences1 \in SUBSET Nat
        BY <1>4
      <4>. QED
        BY <3>1, <4>1, <4>2, <1>4, <2>2, AppendIncreasing
    <3>7. \A m \in backfill'[s] : last'[s] < m
      BY <1>4, <2>1, <2>2
    <3>. QED
      BY <3>2, <3>3, <3>4, <3>5, <3>6, <3>7 DEF Ordered
  <2>7. NoGap(s)'
    <3>1. NoGap(s) /\ Joined(s)
      BY <1>3, <1>5 DEF SubscriberInv, Joined
    <3>2. Sequences1' = Sequences1
      BY <1>2 DEF Sequences1
    <3>. SUFFICES ASSUME NEW m \in Sequences1, log[m], m \notin discarded, n < m,
                         m < current[s] \/ \E k \in backfill[s] : m < k
                  PROVE  m \in backfill'[s]
      BY <1>2, <2>1, <2>2, <3>2 DEF NoGap, Ahead
    <3>3. m \in Nat /\ last[s] < m /\ m # n
      BY <1>4, <2>4
    <3>4. m \in backfill[s]
      BY <1>3, <3>1, <3>3 DEF NoGap, Ahead
    <3>. QED
      BY <2>2, <3>3, <3>4
  <2>8. Complete(s)'
    <3>. SUFFICES ASSUME NEW m \in Sequences1, from[s] < m, m <= n, log[m], m \notin discarded
                  PROVE  Received(s, m)'
      BY <1>2, <2>1, <2>2 DEF Complete, Sequences1
    <3>1. CASE m = n
      BY <3>1, <2>3 DEF Received, Holds
    <3>2. CASE last[s] < m /\ m < n
      <4>1. m \in backfill[s]
        BY <1>3, <1>5, <3>2 DEF SubscriberInv, NoGap, Ahead
      <4>. QED
        BY <4>1, <3>2, <2>1, <1>4
    <3>3. CASE m <= last[s]
      <4>1. Received(s, m)
        BY <1>3, <1>5, <3>3 DEF SubscriberInv, Complete
      <4>. QED
        BY <4>1, <1>2, <2>3 DEF Received, Holds
    <3>. QED
      BY <3>1, <3>2, <3>3, <1>4
  <2>9. Pending(s)'
    <3>. SUFFICES ASSUME NEW m \in ring, n < m PROVE OnItsWay(s, m)'
      BY <1>2, <2>1, <2>2 DEF Pending
    <3>1. m \in Nat /\ last[s] < m
      BY <1>4, <2>4 DEF TypeOK
    <3>2. OnItsWay(s, m)
      BY <1>3, <1>5, <3>1 DEF SubscriberInv, Pending
    <3>. QED
      BY <1>2, <1>4, <2>1, <2>2, <3>1, <3>2 DEF OnItsWay, Holds
  <2>10. SubscriberInv(s)'
    BY <2>5, <2>6, <2>7, <2>8, <2>9 DEF SubscriberInv
  <2>. QED
    BY <1>2, <2>1, <2>10, OthersUnaffected DEF TypeOK
<1>6. CASE phase[s] = "gone"
  <2>1. /\ phase' = [phase EXCEPT ![s] = "stopped"]
        /\ chan' = [chan EXCEPT ![s] = <<>>]
        /\ lagged' = [lagged EXCEPT ![s] = FALSE]
        /\ backfill' = [backfill EXCEPT ![s] = {}]
        /\ current' = [current EXCEPT ![s] = 0]
        /\ live' = live /\ last' = last
    BY <1>1, <1>6
  <2>2. phase'[s] = "stopped" /\ backfill'[s] = {} /\ current'[s] = 0
    BY <2>1 DEF TypeOK
  <2>3. SubscriberInv(s)'
    <3>1. NothingBefore(s)' /\ Looking(s)' /\ Pending(s)'
      BY <1>2, <1>3, <2>2 DEF NothingBefore, Looking, Pending
    <3>2. Ordered(s)'
      BY <1>2, <1>3, <1>6, <2>1, <2>2 DEF SubscriberInv, Ordered, Sequences1
    <3>3. NoGap(s)'
      BY <1>2, <1>4, <2>2 DEF NoGap, Ahead, Sequences1
    <3>4. Complete(s)'
      BY <1>2, <1>3, <1>6, <2>1 DEF SubscriberInv, Complete, Received, Holds, Sequences1
    <3>. QED
      BY <3>1, <3>2, <3>3, <3>4 DEF SubscriberInv
  <2>. QED
    BY <1>2, <2>1, <2>3, OthersUnaffected DEF TypeOK
<1>. QED
  BY <1>1, <1>5, <1>6

\* The received event is sent after everything retained before it, or not at
\* all when it was among them.
LEMMA SendCurrentInv ==
  ASSUME TypeOK, Inv, NEW s \in Subscribers, SendCurrent(s)
  PROVE  Inv'
<1>. DEFINE n == current[s]
<1>1. /\ log' = log /\ ring' = ring /\ discarded' = discarded /\ sending' = sending
      /\ from' = from /\ replay' = replay /\ looking' = looking /\ backfill' = backfill
      /\ current' = [current EXCEPT ![s] = 0] /\ current'[s] = 0
      /\ ~looking[s] /\ backfill[s] = {} /\ n # 0
  BY DEF SendCurrent, TypeOK
<1>2. SubscriberInv(s)
  BY DEF Inv
<1>3. /\ \A m \in Sequences1 : m \in Nat /\ m # 0
      /\ n \in Sequences1 /\ last[s] \in Nat /\ from[s] \in Nat
      /\ replay[s] \subseteq Sequences1
      /\ live[s] \in Seq(Sequences1)
      /\ \A i \in 1 .. Len(live[s]) : live[s][i] \in Nat
  <2>1. Len(log) \in Nat
    BY DEF TypeOK
  <2>2. \A m \in Sequences1 : m \in Nat /\ m # 0
    BY <2>1 DEF Sequences1
  <2>3. live[s] \in Seq(Sequences1)
    BY DEF TypeOK
  <2>. QED
    BY <1>1, <2>2, <2>3 DEF TypeOK
<1>4. Joined(s)
  BY <1>1, <1>2 DEF SubscriberInv, NothingBefore
<1>5. CASE n <= last[s] /\ UNCHANGED <<phase, chan, lagged, last, live>>
  <2>1. SubscriberInv(s)'
    BY <1>1, <1>2, <1>3, <1>4, <1>5 DEF SubscriberInv, NothingBefore, Looking, Ordered,
       NoGap, Ahead, Complete, Received, Holds, Pending, OnItsWay, Sequences1
  <2>. QED
    BY <1>1, <1>5, <2>1, OthersUnaffected DEF TypeOK
<1>6. CASE n > last[s] /\ phase[s] = "live"
  <2>1. /\ live' = [live EXCEPT ![s] = Append(@, n)]
        /\ last' = [last EXCEPT ![s] = n]
        /\ phase' = phase /\ chan' = chan /\ lagged' = lagged
    BY <1>3, <1>6 DEF SendCurrent
  <2>2. /\ live'[s] = Append(live[s], n)
        /\ last'[s] = n
    BY <2>1 DEF TypeOK
  <2>3. /\ Len(live'[s]) = Len(live[s]) + 1
        /\ live'[s][Len(live[s]) + 1] = n
        /\ \A i \in 1 .. Len(live[s]) : live'[s][i] = live[s][i]
        /\ Len(live[s]) \in Nat
    BY <1>3, <2>2
  <2>4. NothingBefore(s)' /\ Looking(s)'
    BY <1>1, <1>4, <2>1 DEF NothingBefore, Looking
  <2>5. Ordered(s)'
    <3>1. Ordered(s)!2
      BY <1>2, <1>4 DEF SubscriberInv, Ordered
    <3>2. from'[s] <= last'[s] /\ last'[s] \in Sequences1'
      BY <3>1, <1>1, <1>3, <1>6, <2>2 DEF Sequences1
    <3>3. \A m \in replay'[s] : from'[s] < m /\ m <= last'[s]
      BY <3>1, <1>1, <1>3, <1>6, <2>2
    <3>4. \A i \in 1 .. Len(live'[s]) : live'[s][i] <= last'[s]
      BY <3>1, <1>3, <1>6, <2>2, <2>3
    <3>5. \A m \in replay'[s] : \A i \in 1 .. Len(live'[s]) : m < live'[s][i]
      BY <3>1, <1>1, <1>3, <1>6, <2>2, <2>3
    <3>6. \A i, j \in 1 .. Len(live'[s]) : i < j => live'[s][i] < live'[s][j]
      <4>1. \A i \in 1 .. Len(live[s]) : live[s][i] < n
        BY <3>1, <1>3, <1>6
      <4>2. Sequences1 \in SUBSET Nat
        BY <1>3
      <4>. QED
        BY <3>1, <4>1, <4>2, <1>3, <2>2, AppendIncreasing
    <3>. QED
      BY <3>2, <3>3, <3>4, <3>5, <3>6, <1>1 DEF Ordered
  <2>6. NoGap(s)'
    BY <1>1, <1>3 DEF NoGap, Ahead, Sequences1
  <2>7. Complete(s)'
    <3>. SUFFICES ASSUME NEW m \in Sequences1, from[s] < m, m <= n, log[m], m \notin discarded
                  PROVE  Received(s, m)'
      BY <1>1, <2>1, <2>2 DEF Complete, Sequences1
    <3>1. CASE m = n
      BY <3>1, <2>3 DEF Received, Holds
    <3>2. ~(last[s] < m /\ m < n)
      BY <1>1, <1>2, <1>4 DEF SubscriberInv, NoGap, Ahead
    <3>3. CASE m <= last[s]
      <4>1. Received(s, m)
        BY <1>2, <1>4, <3>3 DEF SubscriberInv, Complete
      <4>. QED
        BY <4>1, <1>1, <2>3 DEF Received, Holds
    <3>. QED
      BY <3>1, <3>2, <3>3, <1>3
  <2>8. Pending(s)'
    <3>. SUFFICES ASSUME NEW m \in ring, n < m PROVE OnItsWay(s, m)'
      BY <1>1, <2>1, <2>2 DEF Pending
    <3>1. m \in Nat /\ last[s] < m
      BY <1>3, <1>6 DEF TypeOK
    <3>2. OnItsWay(s, m)
      BY <1>2, <1>6, <3>1 DEF SubscriberInv, Pending
    <3>. QED
      BY <1>1, <1>3, <2>1, <2>2, <3>1, <3>2 DEF OnItsWay, Holds
  <2>9. SubscriberInv(s)'
    BY <2>4, <2>5, <2>6, <2>7, <2>8 DEF SubscriberInv
  <2>. QED
    BY <1>1, <2>1, <2>9, OthersUnaffected DEF TypeOK
<1>7. CASE /\ phase' = [phase EXCEPT ![s] = "stopped"]
           /\ chan' = [chan EXCEPT ![s] = <<>>]
           /\ lagged' = [lagged EXCEPT ![s] = FALSE]
           /\ UNCHANGED <<live, last>>
  <2>1. phase'[s] = "stopped"
    BY <1>7 DEF TypeOK
  <2>2. NothingBefore(s)' /\ Looking(s)' /\ Pending(s)'
    BY <1>1, <2>1 DEF NothingBefore, Looking, Pending
  <2>3. Ordered(s)'
    BY <1>1, <1>2, <1>4, <1>7, <2>1 DEF SubscriberInv, Ordered, Sequences1
  <2>4. NoGap(s)'
    BY <1>1, <1>3 DEF NoGap, Ahead, Sequences1
  <2>5. Complete(s)'
    BY <1>1, <1>2, <1>4, <1>7 DEF SubscriberInv, Complete, Received, Holds, Sequences1
  <2>6. SubscriberInv(s)'
    BY <2>2, <2>3, <2>4, <2>5 DEF SubscriberInv
  <2>. QED
    BY <1>1, <1>7, <2>6, OthersUnaffected DEF TypeOK
<1>. QED
  BY <1>5, <1>6, <1>7 DEF SendCurrent

LEMMA DropConsumerInv ==
  ASSUME TypeOK, Inv, NEW s \in Subscribers, DropConsumer(s)
  PROVE  Inv'
<1>1. /\ phase[s] = "live" /\ phase'[s] = "gone"
      /\ \A t \in Subscribers \ {s} : phase'[t] = phase[t]
  BY DEF DropConsumer, TypeOK
<1>2. SubscriberInv(s)'
  BY <1>1 DEF Inv, DropConsumer, SubscriberInv, NothingBefore, Looking, Ordered, NoGap, Ahead,
     Complete, Received, Holds, Pending, Sequences1
<1>. QED
  BY <1>1, <1>2, OthersUnaffected DEF DropConsumer

LEMMA NextInv == TypeOK /\ Inv /\ [Next]_vars => Inv'
<1>. SUFFICES ASSUME TypeOK, Inv, [Next]_vars PROVE Inv'
  OBVIOUS
<1>1. CASE OpenRun \/ CloseRun \/ UNCHANGED vars
  <2>1. /\ RequiredRetained'
        /\ \A s \in Subscribers : SubscriberInv(s)'
    BY <1>1, Unaffected DEF OpenRun, CloseRun, vars, subVars, Inv, RequiredRetained, Sequences1
  <2>. QED
    BY <2>1 DEF Inv
<1>2. CASE \E before \in 1 .. MaxSequence + 1, keepRequired \in BOOLEAN :
             TrimRun(before, keepRequired)
  BY <1>2, TrimInv
<1>3. CASE \E p \in Producers : Produce(p)
  BY <1>3, AppendInv, BroadcastInv DEF Produce
<1>4. ASSUME NEW s \in Subscribers,
             \/ \E f \in StartPositions : Attach(s, f)
             \/ Refuse(s) \/ Snapshot(s) \/ Forward(s) \/ DropConsumer(s)
      PROVE  Inv'
  BY <1>4, SubscribingInv, SnapshotInv, RecvLaggedInv, RecvEventInv, ReadRingInv,
     SendRetainedInv, SendCurrentInv, DropConsumerInv DEF Forward
<1>. QED
  BY <1>1, <1>2, <1>3, <1>4 DEF Next

\* The inductive invariant holds in every reachable state.
THEOREM InvHolds == Spec => [](TypeOK /\ Inv)
<1>1. Init => TypeOK /\ Inv
  BY InitTypeOK, InitInv
<1>2. TypeOK /\ Inv /\ [Next]_vars => TypeOK' /\ Inv'
  BY NextTypeOK, NextInv
<1>. QED
  BY <1>1, <1>2, PTL DEF Spec

-----------------------------------------------------------------------------
\* The properties

\* Producers broadcast outside the ring lock, in any order; a consumer still
\* sees increasing sequence numbers, each once, across replay and live part.
THEOREM DeliversInOrder == Spec => []OrderedDelivery
<1>1. TypeOK /\ Inv => OrderedDelivery
  BY DEF Inv, SubscriberInv, NothingBefore, Ordered, OrderedDelivery
<1>. QED
  BY <1>1, InvHolds, PTL

\* Lag, ring overflow and the window between registering the receiver and
\* taking the snapshot lose only ephemeral events.
THEOREM SkipsNoRequired == Spec => []NoRequiredSkipped
<1>1. TypeOK /\ Inv => NoRequiredSkipped
  BY DEF Inv, SubscriberInv, Complete, NoRequiredSkipped
<1>. QED
  BY <1>1, InvHolds, PTL

\* A forwarding task with nothing left to do has sent everything retained.
THEOREM QuietMeansCaughtUp == Spec => []CaughtUpWhenQuiet
<1>1. ASSUME TypeOK, Inv PROVE CaughtUpWhenQuiet
  <2>. SUFFICES ASSUME NEW s \in Subscribers, phase[s] = "live", AtRecv(s), chan[s] = <<>>,
                       ~lagged[s], \A p \in Producers : sending[p] = 0,
                       NEW n \in ring
                PROVE  n <= last[s]
    BY DEF CaughtUpWhenQuiet
  <2>1. Len(log) \in Nat /\ ring \subseteq Sequences1 /\ last[s] \in Nat
    BY <1>1 DEF TypeOK
  <2>2. n \in Nat /\ n # 0
    BY <2>1 DEF Sequences1
  <2>3. ~OnItsWay(s, n)
    BY <2>2 DEF OnItsWay, AtRecv, Holds
  <2>4. ~(last[s] < n)
    BY <1>1, <2>3 DEF Inv, SubscriberInv, Pending
  <2>. QED
    BY <2>1, <2>2, <2>4
<1>. QED
  BY <1>1, InvHolds, PTL

-----------------------------------------------------------------------------
\* The bound of the ring

\* `<` on the natural numbers as a set of pairs, well-founded by the library.
Less == OpToRel(<, Nat)

\* A set of natural numbers that is not empty has a least element.
LEMMA Least ==
  ASSUME NEW T, T \subseteq Nat, T # {}
  PROVE  \E x \in T : \A y \in T : x <= y
<1>1. IsWellFoundedOn(Less, Nat)
  BY NatLessThanWellFounded DEF Less
<1>2. PICK x \in T : \A y \in T : ~ (<<y, x>> \in Less)
  BY <1>1, WFMin
<1>3. \A m, n \in Nat : <<m, n>> \in Less <=> m < n
  BY DEF Less, OpToRel
<1>4. \A y \in T : x \in Nat /\ y \in Nat /\ ~ (y < x)
  BY <1>2, <1>3
<1>. QED
  BY <1>4

\* After the loop the ring is within max_events, or only required events are
\* left.  The oldest droppable event that stayed has at least `excess`
\* droppable ones before it, and they went.
LEMMA TrimOverflowBounds ==
  ASSUME NEW r, r \subseteq Nat, IsFiniteSet(r), NEW lg
  PROVE  Cardinality(TrimOverflow(r, lg)) > MaxEvents => \A n \in TrimOverflow(r, lg) : lg[n]
<1>. DEFINE droppable == {n \in r : ~lg[n]}
            excess == Cardinality(r) - MaxEvents
            Upto(n) == {m \in droppable : m <= n}
            left == TrimOverflow(r, lg)
<1>1. left = {n \in r : lg[n] \/ Cardinality(Upto(n)) > excess}
  BY DEF TrimOverflow
<1>2. SUFFICES ASSUME NEW y \in left, ~lg[y] PROVE Cardinality(left) <= MaxEvents
  <2>1. IsFiniteSet(left) /\ Cardinality(left) \in Nat /\ MaxEvents \in Nat
    BY <1>1, FS_Subset, FS_CardinalityType, StreamAssumption
  <2>2. TrimOverflow(r, lg) = left
    OBVIOUS
  <2>. HIDE DEF left
  <2>. QED
    BY <1>2, <2>1, <2>2
<1>. DEFINE stayed == {n \in left : ~lg[n]}
<1>3. PICK x \in stayed : \A z \in stayed : x <= z
  <2>1. stayed \subseteq Nat /\ stayed # {}
    BY <1>1, <1>2
  <2>. HIDE DEF stayed
  <2>. QED
    BY <2>1, Least
<1>4. x \in r /\ x \in Nat /\ ~lg[x] /\ Cardinality(Upto(x)) > excess
  BY <1>1, <1>3
<1>. DEFINE before == Upto(x) \ {x}
<1>5. before \cap left = {}
  <2>. SUFFICES ASSUME NEW z \in before, z \in left PROVE FALSE
    OBVIOUS
  <2>1. z \in stayed /\ z \in Nat /\ z <= x /\ z # x
    OBVIOUS
  <2>. QED
    BY <1>3, <1>4, <2>1
<1>6. /\ before \in SUBSET r /\ left \in SUBSET r /\ Upto(x) \in SUBSET r
      /\ x \in Upto(x)
  BY <1>1, <1>4
<1>. HIDE DEF left, before, stayed, Upto, droppable
<1>7. /\ IsFiniteSet(left) /\ IsFiniteSet(before) /\ IsFiniteSet(Upto(x))
      /\ Cardinality(r) \in Nat /\ Cardinality(left) \in Nat /\ Cardinality(before) \in Nat
      /\ Cardinality(Upto(x)) \in Nat
  BY <1>6, FS_Subset, FS_CardinalityType
<1>8. Cardinality(before) = Cardinality(Upto(x)) - 1
  BY <1>6, <1>7, FS_RemoveElement DEF before
<1>9. Cardinality(left) + Cardinality(before) <= Cardinality(r)
  <2>1. Cardinality(before \cup left)
          = Cardinality(before) + Cardinality(left) - Cardinality(before \cap left)
    BY <1>7, FS_Union
  <2>2. Cardinality(before \cap left) = 0
    BY <1>5, FS_EmptySet
  <2>3. Cardinality(before \cup left) <= Cardinality(r)
    <3>1. before \cup left \in SUBSET r
      BY <1>6
    <3>. QED
      BY <3>1, FS_Subset
  <2>. QED
    BY <1>7, <2>1, <2>2, <2>3
<1>. QED
  BY <1>4, <1>7, <1>8, <1>9, StreamAssumption

\* The ring is a finite set of natural numbers.
LEMMA RingIsFinite ==
  ASSUME TypeOK
  PROVE  ring \subseteq 1 .. Len(log) /\ ring \subseteq Nat /\ IsFiniteSet(ring)
<1>1. Len(log) \in Nat /\ ring \in SUBSET (1 .. Len(log))
  BY DEF TypeOK, Sequences1
<1>2. IsFiniteSet(1 .. Len(log))
  BY <1>1, FS_Interval
<1>3. IsFiniteSet(ring)
  BY <1>1, <1>2, FS_Subset
<1>. QED
  BY <1>1, <1>3

\* append and trim end with trim_overflow.
LEMMA TrimmedIsBound ==
  ASSUME NEW r, r \subseteq Nat, IsFiniteSet(r), ring' = TrimOverflow(r, log')
  PROVE  RingBound'
BY TrimOverflowBounds DEF RingBound

LEMMA RingBoundNext == TypeOK /\ RingBound /\ [Next]_vars => RingBound'
<1>. SUFFICES ASSUME TypeOK, RingBound, [Next]_vars PROVE RingBound'
  OBVIOUS
<1>1. ASSUME NEW p \in Producers, NEW required \in BOOLEAN, AppendEvent(p, required)
      PROVE  RingBound'
  <2>1. Len(log) + 1 \in Nat
    BY DEF TypeOK
  <2>2. ring \cup {Len(log) + 1} \subseteq Nat /\ IsFiniteSet(ring \cup {Len(log) + 1})
    BY <2>1, RingIsFinite, FS_AddElement
  <2>3. ring' = TrimOverflow(ring \cup {Len(log) + 1}, log')
    BY <1>1 DEF AppendEvent
  <2>. QED
    BY <2>2, <2>3, TrimmedIsBound
<1>2. ASSUME NEW before \in 1 .. MaxSequence + 1, NEW keepRequired \in BOOLEAN,
             TrimRun(before, keepRequired)
      PROVE  RingBound'
  <2>. DEFINE kept == {n \in ring : n >= before \/ (keepRequired /\ log[n])}
  <2>1. kept \in SUBSET ring
    OBVIOUS
  <2>2. kept \subseteq Nat /\ IsFiniteSet(kept)
    BY <2>1, RingIsFinite, FS_Subset
  <2>3. ring' = TrimOverflow(kept, log')
    BY <1>2 DEF TrimRun
  <2>. QED
    BY <2>2, <2>3, TrimmedIsBound
<1>3. CASE UNCHANGED <<ring, log>>
  BY <1>3 DEF RingBound
<1>4. ASSUME \/ OpenRun \/ CloseRun \/ UNCHANGED vars
             \/ \E p \in Producers : Broadcast(p)
             \/ \E s \in Subscribers :
                  \/ \E f \in StartPositions : Attach(s, f)
                  \/ Refuse(s) \/ Snapshot(s) \/ Forward(s) \/ DropConsumer(s)
      PROVE  UNCHANGED <<ring, log>>
  BY <1>4 DEF OpenRun, CloseRun, vars, Broadcast, Attach, Refuse, Snapshot, Forward,
     DropConsumer, RecvLagged, RecvEvent, ReadRing, SendRetained, SendCurrent
<1>. QED
  BY <1>1, <1>2, <1>3, <1>4 DEF Next, Produce

\* However events are appended and trimmed, the ring outgrows max_events only
\* when every event in it is required.
THEOREM RingIsBounded == Spec => []RingBound
<1>1. Init => RingBound
  BY DEF Init, RingBound
<1>. QED
  BY <1>1, RingBoundNext, TypeCorrect, PTL DEF Spec

-----------------------------------------------------------------------------
\* The stream implements the feed: appending publishes, an explicit trim
\* discards, the snapshot joins, a send delivers, and every other step of the
\* ring, the broadcast channel and the forwarding task is invisible.

LEMMA FeedInit == Init => Feed!Init
<1>. SUFFICES ASSUME Init PROVE Feed!Init
  OBVIOUS
<1>1. \A s \in Subscribers : (phase[s] \in {"live", "gone", "stopped"}) = FALSE
  BY DEF Init
<1>2. [s \in Subscribers |-> phase[s] \in {"live", "gone", "stopped"}]
        = [s \in Subscribers |-> FALSE]
  BY <1>1, Zenon
<1>. QED
  BY <1>2, Zenon DEF Init, Feed!Init

\* What Deliver asks of an event the task sends
LEMMA FeedDeliver ==
  ASSUME TypeOK, Inv, NEW s \in Subscribers, NEW n \in Sequences1, Joined(s), Joined(s)',
         last[s] < n,
         \A m \in Sequences1 : log[m] /\ m \notin discarded /\ last[s] < m => n <= m,
         \A t \in Subscribers \ {s} : Joined(t)' <=> Joined(t),
         last' = [last EXCEPT ![s] = n],
         live' = [live EXCEPT ![s] = Append(@, n)],
         log' = log, discarded' = discarded, replay' = replay
  PROVE  Feed!Deliver(s)
<1>1. Feed!Owed(last[s], n) = {}
  <2>1. Len(log) \in Nat
    BY DEF TypeOK
  <2>. QED
    BY <2>1 DEF Feed!Owed, Sequences1
<1>2. [t \in Subscribers |-> phase[t] \in {"live", "gone", "stopped"}]'
        = [t \in Subscribers |-> phase[t] \in {"live", "gone", "stopped"}]
  <2>1. \A t \in Subscribers : (phase[t] \in {"live", "gone", "stopped"})'
                               = (phase[t] \in {"live", "gone", "stopped"})
    OBVIOUS
  <2>. QED
    BY <2>1, Zenon
<1>3. n \in 1 .. Len(log)
  BY DEF Sequences1
<1>4. [t \in Subscribers |-> phase[t] \in {"live", "gone", "stopped"}][s]
  OBVIOUS
<1>. QED
  BY <1>1, <1>2, <1>3, <1>4, Zenon DEF Feed!Deliver

LEMMA FeedJoin ==
  ASSUME TypeOK, Inv, NEW s \in Subscribers, Snapshot(s), from[s] \in StartPositions
  PROVE  Feed!Join(s)
<1>. DEFINE R == RetainedAfter(from[s])
<1>1. R \in SUBSET (1 .. Len(log)) /\ \A n \in R : from[s] < n
  BY DEF RetainedAfter, TypeOK, Sequences1
<1>2. Feed!Owed(from[s], Len(log) + 1) \subseteq R
  BY DEF Feed!Owed, Inv, RequiredRetained, RetainedAfter, Sequences1
<1>3. \/ R = {} /\ last' = [last EXCEPT ![s] = from[s]]
      \/ \E m \in R : (\A n \in R : n <= m) /\ last' = [last EXCEPT ![s] = m]
  BY DEF Snapshot
<1>4. /\ ~Joined(s)
      /\ [t \in Subscribers |-> Joined(t)]' = [[t \in Subscribers |-> Joined(t)] EXCEPT ![s] = TRUE]
      /\ replay' = [replay EXCEPT ![s] = R]
      /\ log' = log /\ discarded' = discarded /\ live' = live
  BY DEF Snapshot, TypeOK
<1>. QED
  BY <1>1, <1>2, <1>3, <1>4 DEF Feed!Join

\* A subscription that was made started at a position that was asked for.
FromAsked == \A s \in Subscribers : phase[s] # "idle" => from[s] \in StartPositions

LEMMA FromAskedHolds == Spec => [](TypeOK /\ FromAsked)
<1>1. Init => FromAsked
  BY DEF Init, FromAsked
<1>2. TypeOK /\ FromAsked /\ [Next]_vars => FromAsked'
  <2>. SUFFICES ASSUME TypeOK, FromAsked, [Next]_vars PROVE FromAsked'
    OBVIOUS
  <2>1. ASSUME NEW s \in Subscribers, NEW f \in StartPositions, Attach(s, f)
        PROVE  FromAsked'
    BY <2>1 DEF Attach, FromAsked, TypeOK
  <2>2. ASSUME from' = from, \A t \in Subscribers : phase[t] = "idle" => phase'[t] = "idle"
        PROVE  FromAsked'
    BY <2>2 DEF FromAsked
  <2>3. CASE \/ OpenRun \/ CloseRun \/ UNCHANGED vars
             \/ \E before \in 1 .. MaxSequence + 1, keepRequired \in BOOLEAN :
                  TrimRun(before, keepRequired)
             \/ \E p \in Producers : Produce(p)
    BY <2>2, <2>3 DEF OpenRun, CloseRun, vars, subVars, TrimRun, Produce, AppendEvent, Broadcast
  <2>4. ASSUME NEW s \in Subscribers,
               Refuse(s) \/ Snapshot(s) \/ Forward(s) \/ DropConsumer(s)
        PROVE  FromAsked'
    <3>1. SendRetained(s) => UNCHANGED from /\ \/ UNCHANGED phase
                                               \/ /\ phase[s] = "gone"
                                                  /\ phase' = [phase EXCEPT ![s] = "stopped"]
      BY DEF SendRetained
    <3>. QED
      BY <2>2, <2>4, <3>1 DEF Refuse, Snapshot, Forward, DropConsumer, RecvLagged, RecvEvent,
         ReadRing, SendCurrent, TypeOK
  <2>. QED
    BY <2>1, <2>3, <2>4 DEF Next
<1>. QED
  BY <1>1, <1>2, InitTypeOK, NextTypeOK, PTL DEF Spec

\* A step that changes nothing the feed shows is a stutter of it.
LEMMA FeedStutter ==
  ASSUME log' = log, discarded' = discarded, last' = last, replay' = replay, live' = live,
         \A s \in Subscribers : Joined(s)' <=> Joined(s)
  PROVE  UNCHANGED Feed!vars
<1>1. [s \in Subscribers |-> phase[s] \in {"live", "gone", "stopped"}]'
        = [s \in Subscribers |-> phase[s] \in {"live", "gone", "stopped"}]
  <2>1. \A s \in Subscribers : (phase[s] \in {"live", "gone", "stopped"})'
                               = (phase[s] \in {"live", "gone", "stopped"})
    OBVIOUS
  <2>. QED
    BY <2>1, Zenon
<1>. QED
  BY <1>1, Zenon DEF Feed!vars

LEMMA FeedForward ==
  ASSUME TypeOK, Inv, NEW s \in Subscribers, Forward(s)
  PROVE  Feed!Deliver(s) \/ UNCHANGED Feed!vars
<1>. SubscriberInv(s) /\ Len(log) \in Nat
  BY DEF Inv, TypeOK
<1>1. CASE RecvLagged(s) \/ RecvEvent(s) \/ ReadRing(s)
  <2>1. log' = log /\ discarded' = discarded /\ last' = last /\ replay' = replay /\ live' = live
        /\ phase' = phase
    BY <1>1 DEF RecvLagged, RecvEvent, ReadRing
  <2>. QED
    BY <2>1, FeedStutter
<1>2. CASE SendRetained(s)
  <2>1. PICK n \in backfill[s] : SendRetained(s)!1!(n)
    BY <1>2 DEF SendRetained
  <2>2. log' = log /\ discarded' = discarded /\ replay' = replay
    BY <1>2 DEF SendRetained
  <2>3. CASE phase[s] = "live"
    <3>1. /\ live' = [live EXCEPT ![s] = Append(@, n)]
          /\ last' = [last EXCEPT ![s] = n]
          /\ phase' = phase
          /\ \A m \in backfill[s] : n <= m
      BY <2>1, <2>3
    <3>2. n \in Sequences1 /\ last[s] < n /\ ~looking[s]
      BY <2>3 DEF TypeOK, SubscriberInv, Ordered, Looking
    <3>3. ASSUME NEW m \in Sequences1, log[m], m \notin discarded, last[s] < m
          PROVE  n <= m
      <4>1. m < n => m \in backfill[s]
        BY <3>2, <3>3, <2>3 DEF SubscriberInv, NoGap, Ahead
      <4>. QED
        BY <4>1, <3>1, <3>2 DEF Sequences1
    <3>. QED
      BY <2>2, <2>3, <3>1, <3>2, <3>3, FeedDeliver
  <2>4. CASE phase[s] = "gone"
    <3>1. live' = live /\ last' = last /\ \A t \in Subscribers : Joined(t)' <=> Joined(t)
      BY <2>1, <2>4 DEF TypeOK
    <3>. QED
      BY <2>2, <3>1, FeedStutter
  <2>. QED
    BY <2>1, <2>3, <2>4
<1>3. CASE SendCurrent(s)
  <2>1. /\ log' = log /\ discarded' = discarded /\ replay' = replay
        /\ ~looking[s] /\ backfill[s] = {} /\ current[s] \in Sequences1
    BY <1>3 DEF SendCurrent, TypeOK
  <2>2. Joined(s)
    BY <2>1, <1>3 DEF SubscriberInv, NothingBefore, SendCurrent
  <2>3. CASE live' = live /\ last' = last
    <3>1. \A t \in Subscribers : Joined(t)' <=> Joined(t)
      BY <1>3, <2>2 DEF SendCurrent, TypeOK
    <3>. QED
      BY <2>1, <2>3, <3>1, FeedStutter
  <2>4. CASE /\ current[s] > last[s]
             /\ phase' = phase
             /\ live' = [live EXCEPT ![s] = Append(@, current[s])]
             /\ last' = [last EXCEPT ![s] = current[s]]
    <3>1. last[s] < current[s]
      BY <2>1, <2>4 DEF TypeOK, Sequences1
    <3>2. ASSUME NEW m \in Sequences1, log[m], m \notin discarded, last[s] < m
          PROVE  current[s] <= m
      <4>1. ~(m < current[s])
        BY <3>2, <2>1, <2>2 DEF SubscriberInv, NoGap, Ahead
      <4>. QED
        BY <4>1, <2>1 DEF Sequences1
    <3>. QED
      BY <2>1, <2>2, <2>4, <3>1, <3>2, FeedDeliver
  <2>. QED
    BY <1>3, <2>3, <2>4 DEF SendCurrent
<1>. QED
  BY <1>1, <1>2, <1>3 DEF Forward

LEMMA FeedNext == TypeOK /\ Inv /\ FromAsked /\ [Next]_vars => [Feed!Next]_(Feed!vars)
<1>. SUFFICES ASSUME TypeOK, Inv, FromAsked, [Next]_vars
              PROVE  Feed!Next \/ UNCHANGED Feed!vars
  BY Zenon
<1>1. CASE OpenRun \/ CloseRun \/ UNCHANGED vars
  <2>1. log' = log /\ discarded' = discarded /\ last' = last /\ replay' = replay /\ live' = live
        /\ phase' = phase
    BY <1>1 DEF OpenRun, CloseRun, vars, subVars
  <2>. QED
    BY <2>1, FeedStutter
<1>2. ASSUME NEW before \in 1 .. MaxSequence + 1, NEW keepRequired \in BOOLEAN,
             TrimRun(before, keepRequired)
      PROVE  Feed!Next
  <2>1. /\ discarded' \in SUBSET (1 .. Len(log)) /\ discarded \subseteq discarded'
        /\ log' = log /\ phase' = phase /\ last' = last /\ replay' = replay /\ live' = live
    BY <1>2 DEF TrimRun, TypeOK, subVars, Sequences1
  <2>2. Feed!Discard
    BY <2>1, Zenon DEF Feed!Discard
  <2>. QED
    BY <2>2 DEF Feed!Next
<1>3. ASSUME NEW p \in Producers, NEW required \in BOOLEAN, AppendEvent(p, required)
      PROVE  Feed!Next
  <2>1. /\ log' = Append(log, required) /\ discarded' = discarded /\ phase' = phase
        /\ last' = last /\ replay' = replay /\ live' = live
    BY <1>3 DEF AppendEvent, subVars
  <2>2. Feed!Publish
    BY <2>1, Zenon DEF Feed!Publish
  <2>. QED
    BY <2>2 DEF Feed!Next
<1>4. CASE \E p \in Producers : Broadcast(p)
  BY <1>4, FeedStutter DEF Broadcast
<1>5. ASSUME NEW s \in Subscribers,
             \/ \E f \in StartPositions : Attach(s, f)
             \/ Refuse(s)
             \/ DropConsumer(s)
      PROVE  UNCHANGED Feed!vars
  <2>1. /\ log' = log /\ discarded' = discarded /\ last' = last /\ replay' = replay /\ live' = live
        /\ \A t \in Subscribers : Joined(t)' <=> Joined(t)
    BY <1>5 DEF Attach, Refuse, DropConsumer, TypeOK
  <2>. QED
    BY <2>1, FeedStutter
<1>6. ASSUME NEW s \in Subscribers, Snapshot(s) PROVE Feed!Next
  <2>1. from[s] \in StartPositions
    BY <1>6 DEF FromAsked, Snapshot
  <2>2. Feed!Join(s)
    BY <1>6, <2>1, FeedJoin
  <2>. QED
    BY <2>2 DEF Feed!Next
<1>7. ASSUME NEW s \in Subscribers, Forward(s) PROVE Feed!Next \/ UNCHANGED Feed!vars
  BY <1>7, FeedForward DEF Feed!Next
<1>. QED
  BY <1>1, <1>2, <1>3, <1>4, <1>5, <1>6, <1>7 DEF Next, Produce

\* LocalRuntimeEventStream implements OrderedFeed.
THEOREM Implements == Spec => FeedSpec
<1>1. Spec => [](TypeOK /\ Inv /\ FromAsked)
  BY InvHolds, FromAskedHolds, PTL
<1>. QED
  BY <1>1, FeedInit, FeedNext, PTL DEF Spec, FeedSpec, Feed!Spec

=============================================================================
