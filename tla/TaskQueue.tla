----------------------------- MODULE TaskQueue -----------------------------
(***************************************************************************)
(* MemoryTaskQueue: named queues of tasks that workers claim for a while   *)
(* (the visibility timeout) and then acknowledge or fail.  Each operation  *)
(* holds the one mutex from its first look at the state to its last write  *)
(* and reads the clock once, under the mutex: it is one step, and time     *)
(* passes between steps.  A claim is known by its worker's name only, so   *)
(* any worker may acknowledge or fail any task at any time.                *)
(***************************************************************************)
EXTENDS Integers, Sequences, FiniteSets, Functions

CONSTANTS
  Queues,     \* queue names
  Workers,    \* worker names
  Keys,       \* idempotency keys
  NoKey,      \* the key of a task without one, None or empty
  Nobody,     \* claimed_by is None
  Timeouts,   \* visibility timeouts that workers ask for
  Second,     \* instants of the clock in a second
  MaxTasks,   \* bound of the model: tasks that are created
  MaxTime     \* bound of the model: the last instant of the clock

\* A timeout is a signed Duration in the code; a caller asks for no negative one.
ASSUME TaskQueueAssumption ==
  /\ NoKey \notin Keys
  /\ Nobody \notin Workers
  /\ Timeouts \subseteq Nat
  /\ Second \in Nat \ {0}
  /\ MaxTasks \in Nat
  /\ MaxTime \in Nat \ {0}

VARIABLES
  queued,    \* queues: the ids in each, oldest first
  tasks,     \* tasks: id -> entry
  index,     \* idempotency_index: <<queue, key>> -> id
  issued,    \* ids handed out so far; now_v7 never repeats one
  now,       \* the clock, which never goes back
  promised,  \* history: until when each worker was told that it holds a task
  finished   \* history: the tasks that were acknowledged

vars == <<queued, tasks, index, issued, now, promised, finished>>

Ids == 1 .. MaxTasks

Live == DOMAIN tasks

\* claim_expires_at is None; the clock starts after it
Never == 0

Entry == [queue : Queues, key : Keys \cup {NoKey},
          claimedBy : Workers \cup {Nobody}, expires : Nat]

Init ==
  /\ queued = [q \in Queues |-> <<>>]
  /\ tasks = [t \in {} |-> Never]
  /\ index = [slot \in {} |-> Never]
  /\ issued = 0
  /\ now = 1
  /\ promised = [w \in Workers |-> [t \in Ids |-> Never]]
  /\ finished = {}

\* HashMap::insert
Put(map, x, v) == [y \in DOMAIN map \cup {x} |-> IF y = x THEN v ELSE map[y]]

-----------------------------------------------------------------------------
\* enqueue

\* The key names a task that is still there.
Known(q, k) == k # NoKey /\ <<q, k>> \in DOMAIN index /\ index[<<q, k>>] \in Live

\* A new task at the end of its queue.
Insert(q, k) ==
  /\ issued < MaxTasks
  /\ issued' = issued + 1
  /\ queued' = [queued EXCEPT ![q] = Append(@, issued')]
  /\ index' = IF k = NoKey THEN index ELSE Put(index, <<q, k>>, issued')
  /\ tasks' = Put(tasks, issued',
                  [queue |-> q, key |-> k, claimedBy |-> Nobody, expires |-> Never])
  /\ UNCHANGED <<now, promised, finished>>

\* Mutant of Enqueue: the index is not asked.
EnqueueAlways(q, k) == Insert(q, k)

Enqueue(q, k) ==
  \/ Known(q, k) /\ UNCHANGED vars
  \/ ~Known(q, k) /\ Insert(q, k)

-----------------------------------------------------------------------------
\* claim

Active(t) == tasks[t].claimedBy # Nobody /\ tasks[t].expires > now

\* Mutant of Claimable: a claim is never taken over.
ClaimableOnce(t) == tasks[t].claimedBy = Nobody

Claimable(t) == ~Active(t)

\* ClaimedTask carries the deadline as unix_timestamp(), in whole seconds.
Told(deadline) == deadline - (deadline % Second)

\* Mutant of Offered: whichever claimable task.
OfferedAny(q, i) == queued[q][i] \in Live /\ Claimable(queued[q][i])

\* The i-th task is the first one of the queue that is there and claimable.
Offered(q, i) ==
  /\ queued[q][i] \in Live /\ Claimable(queued[q][i])
  /\ \A j \in 1 .. i - 1 : queued[q][j] \in Live => ~Claimable(queued[q][j])

\* The first claimable task of the queue goes to the worker.
Claim(q, w, timeout) ==
  \E i \in DOMAIN queued[q] :
    LET t == queued[q][i]  deadline == now + timeout IN
    /\ Offered(q, i)
    /\ tasks' = [tasks EXCEPT ![t] = [@ EXCEPT !.claimedBy = w, !.expires = deadline]]
    /\ promised' = [promised EXCEPT ![w][t] = Told(deadline)]
    /\ UNCHANGED <<queued, index, issued, now, finished>>

-----------------------------------------------------------------------------
\* ack and fail

\* The claim is the worker's, whether or not it has expired.
OwnClaim(q, w, t) == tasks[t].queue = q /\ tasks[t].claimedBy = w

\* The worker has said what became of the task and relies on its claim no more.
Report(w, t) == promised' = [promised EXCEPT ![w][t] = Never]

\* Mutant of MayAck: a claim that expired is as good.
MayAckLate(q, w, t) == OwnClaim(q, w, t)

MayAck(q, w, t) == OwnClaim(q, w, t) /\ tasks[t].expires > now

\* The index without the task's key.
Unindexed(t) ==
  Restrict(index, DOMAIN index \ {<<tasks[t].queue, tasks[t].key>>})

\* Mutant of Retain: the id stays in its queue.
RetainAll(ids, t) == ids

\* Vec::retain: the other ids, in their order.
Retain(ids, t) ==
  LET kept == {i \in DOMAIN ids : ids[i] # t}
      Rank(i) == Cardinality({j \in kept : j <= i})
  IN [n \in 1 .. Cardinality(kept) |-> ids[CHOOSE i \in kept : Rank(i) = n]]

Ack(q, w, t) ==
  /\ t \in Live /\ MayAck(q, w, t)
  /\ tasks' = Restrict(tasks, Live \ {t})
  /\ queued' = [queued EXCEPT ![tasks[t].queue] = Retain(@, t)]
  /\ index' = IF tasks[t].key = NoKey THEN index ELSE Unindexed(t)
  /\ finished' = finished \cup {t}
  /\ Report(w, t)
  /\ UNCHANGED <<issued, now>>

\* Mutant of MayFail: whoever holds the task now.
MayFailAny(q, w, t) == tasks[t].queue = q

MayFail(q, w, t) == OwnClaim(q, w, t)

\* Mutant of Released: the deadline is left behind.
ReleasedByName(entry) == [entry EXCEPT !.claimedBy = Nobody]

Released(entry) == [entry EXCEPT !.claimedBy = Nobody, !.expires = Never]

Fail(q, w, t) ==
  /\ t \in Live /\ MayFail(q, w, t)
  /\ tasks' = [tasks EXCEPT ![t] = Released(@)]
  /\ Report(w, t)
  /\ UNCHANGED <<queued, index, issued, now, finished>>

-----------------------------------------------------------------------------
Tick ==
  /\ now < MaxTime
  /\ now' = now + 1
  /\ UNCHANGED <<queued, tasks, index, issued, promised, finished>>

Next ==
  \/ \E q \in Queues, k \in Keys \cup {NoKey} : Enqueue(q, k)
  \/ \E q \in Queues, w \in Workers, timeout \in Timeouts : Claim(q, w, timeout)
  \/ \E q \in Queues, w \in Workers, t \in Ids : Ack(q, w, t) \/ Fail(q, w, t)
  \/ Tick

Spec == Init /\ [][Next]_vars

-----------------------------------------------------------------------------
\* Types; a task has a deadline exactly when somebody claimed it (fail resets
\* both, claim sets both), and no id is used twice.
TypeOK ==
  /\ queued \in [Queues -> Seq(Ids)]
  /\ Live \subseteq 1 .. issued /\ tasks \in [Live -> Entry]
  /\ \A t \in Live : tasks[t].claimedBy = Nobody <=> tasks[t].expires = Never
  /\ index \in [DOMAIN index -> Ids] /\ DOMAIN index \subseteq Queues \X Keys
  /\ issued \in 0 .. MaxTasks
  /\ now \in 1 .. MaxTime
  /\ promised \in [Workers -> [Ids -> Nat]]
  /\ finished \subseteq 1 .. issued /\ finished \cap Live = {}

\* A worker that was told it holds a task until some moment holds it until
\* then, unless it reports: no claim, ack, fail or repeated enqueue of another
\* worker, and no clock tick, takes it away.  Hence two workers never both
\* rely on a claim of the same task (claim, ack and fail, lines 109-193).
ClaimsHonoured ==
  \A w \in Workers, t \in Ids : promised[w][t] > now =>
    /\ t \in Live
    /\ tasks[t].claimedBy = w
    /\ tasks[t].expires >= promised[w][t]

\* The queues hold exactly the live tasks, each once, oldest first: none is
\* lost from its queue while it lives, none is offered after its ack (the two
\* collections are updated separately in enqueue and ack).
QueuesHoldLiveTasks ==
  \A q \in Queues :
    /\ Range(queued[q]) = {t \in Live : tasks[t].queue = q}
    /\ \A i, j \in DOMAIN queued[q] : i < j => queued[q][i] < queued[q][j]

\* The index names exactly the live tasks that have a key: a repeated enqueue
\* finds its task as long as it lives, two live tasks of a queue never share a
\* key, and an entry never outlives its task (so line 78 has nothing to do).
IndexMatchesTasks ==
  /\ \A t \in Live : tasks[t].key # NoKey =>
       LET slot == <<tasks[t].queue, tasks[t].key>> IN
       slot \in DOMAIN index /\ index[slot] = t
  /\ \A slot \in DOMAIN index :
       index[slot] \in Live /\ slot = <<tasks[index[slot]].queue, tasks[index[slot]].key>>

\* Every live task is held by somebody or waits in a queue that offers a task to
\* the next worker that asks: a claim that expired or was failed hides neither
\* its task nor the ones behind it (claim, lines 119-138).
NoTaskStuck ==
  \A t \in Live : Active(t) \/
    \E i \in DOMAIN queued[tasks[t].queue] : Offered(tasks[t].queue, i)

\* Who holds each task, by the clock.
Holder == [t \in Ids |-> IF t \in Live /\ Active(t) THEN tasks[t].claimedBy ELSE Nobody]

QueueOf == [t \in Live |-> tasks[t].queue]

Abstract == INSTANCE ClaimQueue WITH Tasks <- Ids, live <- QueueOf, holder <- Holder

\* MemoryTaskQueue delivers at least once and oldest first: a task leaves only by
\* the ack of the worker that holds it, is held by one worker at a time, and keeps
\* its place before later ones while it is claimed, failed and left to expire.
ClaimQueueSpec == Abstract!Spec
=============================================================================
