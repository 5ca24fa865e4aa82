-------------------------- MODULE TaskQueueProofs --------------------------
(***************************************************************************)
(* That claims are honoured, that the idempotency index and the queues     *)
(* agree with the tasks, that no task is stuck, and that MemoryTaskQueue   *)
(* delivers at least once and oldest first, for any queues, workers, keys  *)
(* and timeouts.  The first invariant does not use what `queued` holds:    *)
(* claim offers no task that is not in `tasks`.                            *)
(***************************************************************************)
EXTENDS TaskQueue, FiniteSetTheorems, TLAPS

USE TaskQueueAssumption

\* TypeOK without the contents of the queues.
Types ==
  /\ Live \subseteq 1 .. issued
  /\ tasks \in [Live -> Entry]
  /\ index \in [DOMAIN index -> Ids]
  /\ DOMAIN index \subseteq Queues \X Keys
  /\ issued \in 0 .. MaxTasks
  /\ now \in 1 .. MaxTime
  /\ promised \in [Workers -> [Ids -> Nat]]
  /\ finished \subseteq 1 .. issued
  /\ finished \cap Live = {}

Inv == Types /\ ClaimsHonoured /\ IndexMatchesTasks

-----------------------------------------------------------------------------
\* A worker is never told a later moment than its deadline.
LEMMA ToldIsInTime ==
  ASSUME NEW deadline \in Nat
  PROVE  Told(deadline) \in Nat /\ Told(deadline) <= deadline
<1>1. deadline % Second \in 0 .. Second - 1 /\ deadline % Second <= deadline
  OBVIOUS
<1>2. QED
  BY <1>1 DEF Told

\* What enqueue changes: a task without a claim, and its key in the index.
LEMMA InsertEffect ==
  ASSUME Inv, NEW q \in Queues, NEW k \in Keys \cup {NoKey}, ~Known(q, k), Insert(q, k)
  PROVE  LET n == issued + 1 IN
         /\ n \in Ids /\ n \notin Live /\ issued' = n
         /\ Live' = Live \cup {n}
         /\ tasks' \in [Live' -> Entry]
         /\ tasks'[n] = [queue |-> q, key |-> k, claimedBy |-> Nobody, expires |-> Never]
         /\ \A t \in Live : tasks'[t] = tasks[t]
         /\ k = NoKey => index' = index
         /\ k # NoKey =>
              /\ <<q, k>> \notin DOMAIN index
              /\ DOMAIN index' = DOMAIN index \cup {<<q, k>>}
              /\ index' = [slot \in DOMAIN index' |-> index'[slot]]
              /\ index'[<<q, k>>] = n
              /\ \A slot \in DOMAIN index : index'[slot] = index[slot]
<1> DEFINE n == issued + 1
           entry == [queue |-> q, key |-> k, claimedBy |-> Nobody, expires |-> Never]
<1>1. n \in Ids /\ n \notin Live /\ issued' = n
  BY DEF Inv, Types, Insert, Ids
<1>2. entry \in Entry
  BY DEF Entry, Never
<1>3. tasks' = Put(tasks, n, entry)
  BY <1>1 DEF Insert
<1>4. /\ Live' = Live \cup {n}
      /\ tasks' = [t \in Live \cup {n} |-> tasks'[t]]
      /\ tasks'[n] = entry
      /\ \A t \in Live : tasks'[t] = tasks[t]
  <2> HIDE DEF n, entry
  <2>1. QED
    BY <1>1, <1>3 DEF Live, Put
<1>5. tasks' \in [Live' -> Entry]
  <2> HIDE DEF n, entry
  <2>1. QED
    BY <1>2, <1>4 DEF Inv, Types
<1>6. k = NoKey => index' = index
  BY DEF Insert
<1>7. ASSUME k # NoKey
      PROVE  /\ <<q, k>> \notin DOMAIN index
             /\ DOMAIN index' = DOMAIN index \cup {<<q, k>>}
             /\ index' = [slot \in DOMAIN index' |-> index'[slot]]
             /\ index'[<<q, k>>] = n
             /\ \A slot \in DOMAIN index : index'[slot] = index[slot]
  <2>1. <<q, k>> \notin DOMAIN index
    BY <1>7 DEF Known, Inv, IndexMatchesTasks
  <2>2. index' = Put(index, <<q, k>>, n)
    BY <1>1, <1>7 DEF Insert
  <2> HIDE DEF n
  <2>3. QED
    BY <2>1, <2>2 DEF Put
<1>8. QED
  BY <1>1, <1>4, <1>5, <1>6, <1>7

\* A task that nobody held goes to the worker.
TakesOver(w, t, timeout) ==
  /\ t \in Live /\ t \in Ids /\ ~Active(t)
  /\ tasks' = [tasks EXCEPT ![t] =
                 [tasks[t] EXCEPT !.claimedBy = w, !.expires = now + timeout]]
  /\ promised' = [promised EXCEPT ![w][t] = Told(now + timeout)]
  /\ UNCHANGED <<index, issued, now, finished>>

\* What claim changes: the claim of one task.
LEMMA ClaimEffect ==
  ASSUME Inv, NEW q \in Queues, NEW w \in Workers, NEW timeout \in Timeouts, Claim(q, w, timeout)
  PROVE  \E t \in Live : TakesOver(w, t, timeout)
<1>1. PICK i \in DOMAIN queued[q] :
        /\ Offered(q, i)
        /\ tasks' = [tasks EXCEPT ![queued[q][i]] =
                       [@ EXCEPT !.claimedBy = w, !.expires = now + timeout]]
        /\ promised' = [promised EXCEPT ![w][queued[q][i]] = Told(now + timeout)]
        /\ UNCHANGED <<queued, index, issued, now, finished>>
  BY DEF Claim
<1>2. queued[q][i] \in Live /\ ~Active(queued[q][i])
  BY <1>1 DEF Offered, Claimable
<1>3. queued[q][i] \in Ids
  BY <1>2 DEF Inv, Types, Ids
<1>4. QED
  BY <1>1, <1>2, <1>3 DEF TakesOver

-----------------------------------------------------------------------------
\* The initial state.
LEMMA InvInit == Init => Inv
BY DEF Init, Inv, Types, ClaimsHonoured, IndexMatchesTasks, Live, Ids, Never

LEMMA EnqueueInv ==
  ASSUME Inv, NEW q \in Queues, NEW k \in Keys \cup {NoKey}, Enqueue(q, k)
  PROVE  Inv'
<1>1. CASE UNCHANGED vars
  BY <1>1 DEF Inv, Types, ClaimsHonoured, IndexMatchesTasks, Live, vars
<1>2. CASE ~Known(q, k) /\ Insert(q, k)
  <2> PICK n \in Nat : n = issued + 1
    BY DEF Inv, Types
  <2>1. /\ n \in Ids /\ n \notin Live /\ issued' = n
        /\ Live' = Live \cup {n}
        /\ tasks' \in [Live' -> Entry]
        /\ tasks'[n] = [queue |-> q, key |-> k, claimedBy |-> Nobody, expires |-> Never]
        /\ \A t \in Live : tasks'[t] = tasks[t]
    BY <1>2, InsertEffect
  <2>2. k = NoKey => index' = index
    BY <1>2, InsertEffect
  <2>3. k # NoKey =>
          /\ <<q, k>> \notin DOMAIN index
          /\ DOMAIN index' = DOMAIN index \cup {<<q, k>>}
          /\ index' = [slot \in DOMAIN index' |-> index'[slot]]
          /\ index'[<<q, k>>] = n
          /\ \A slot \in DOMAIN index : index'[slot] = index[slot]
    BY <1>2, InsertEffect
  <2>4. UNCHANGED <<now, promised, finished>>
    BY <1>2 DEF Insert
  <2>5. index' \in [DOMAIN index' -> Ids] /\ DOMAIN index' \subseteq Queues \X Keys
    BY <2>1, <2>2, <2>3 DEF Inv, Types
  <2>6. Types'
    BY <2>1, <2>4, <2>5 DEF Inv, Types, Ids
  <2>7. ClaimsHonoured'
    BY <2>1, <2>4 DEF Inv, ClaimsHonoured
  <2>8. ASSUME NEW t \in Live', tasks'[t].key # NoKey
        PROVE  /\ <<tasks'[t].queue, tasks'[t].key>> \in DOMAIN index'
               /\ index'[<<tasks'[t].queue, tasks'[t].key>>] = t
    BY <2>1, <2>2, <2>3, <2>8 DEF Inv, IndexMatchesTasks
  <2>9. ASSUME NEW slot \in DOMAIN index'
        PROVE  /\ index'[slot] \in Live'
               /\ slot = <<tasks'[index'[slot]].queue, tasks'[index'[slot]].key>>
    BY <2>1, <2>2, <2>3 DEF Inv, IndexMatchesTasks
  <2>10. IndexMatchesTasks'
    BY <2>8, <2>9 DEF IndexMatchesTasks
  <2>11. QED
    BY <2>6, <2>7, <2>10 DEF Inv
<1>3. QED
  BY <1>1, <1>2 DEF Enqueue

LEMMA ClaimInv ==
  ASSUME Inv, NEW q \in Queues, NEW w \in Workers, NEW timeout \in Timeouts, Claim(q, w, timeout)
  PROVE  Inv'
<1> PICK t \in Live : TakesOver(w, t, timeout)
  BY ClaimEffect
<1>1. /\ t \in Live /\ t \in Ids /\ ~Active(t)
      /\ tasks' = [tasks EXCEPT ![t] =
                     [tasks[t] EXCEPT !.claimedBy = w, !.expires = now + timeout]]
      /\ promised' = [promised EXCEPT ![w][t] = Told(now + timeout)]
      /\ UNCHANGED <<index, issued, now, finished>>
  BY DEF TakesOver
<1>2. now + timeout \in Nat /\ Told(now + timeout) \in Nat /\ Told(now + timeout) <= now + timeout
  BY ToldIsInTime DEF Inv, Types
<1>3. /\ Live' = Live
      /\ tasks'[t] \in Entry
      /\ tasks'[t].queue = tasks[t].queue /\ tasks'[t].key = tasks[t].key
      /\ tasks'[t].claimedBy = w /\ tasks'[t].expires = now + timeout
      /\ \A u \in Live \ {t} : tasks'[u] = tasks[u]
  BY <1>1, <1>2 DEF Inv, Types, Live, Entry
<1>4. Types'
  BY <1>1, <1>2, <1>3 DEF Inv, Types
<1>5. ASSUME NEW v \in Workers, promised[v][t] > now
      PROVE  FALSE
  <2>1. tasks[t].claimedBy = v /\ tasks[t].expires >= promised[v][t]
    BY <1>1, <1>5 DEF Inv, ClaimsHonoured
  <2>2. promised[v][t] \in Nat /\ now \in Nat /\ tasks[t].expires \in Nat
    BY <1>1 DEF Inv, Types, Entry
  <2>3. tasks[t].claimedBy # Nobody /\ tasks[t].expires > now
    BY <1>5, <2>1, <2>2
  <2>4. QED
    BY <1>1, <2>3 DEF Active
<1>6. ASSUME NEW v \in Workers, NEW u \in Ids, promised'[v][u] > now'
      PROVE  u \in Live' /\ tasks'[u].claimedBy = v /\ tasks'[u].expires >= promised'[v][u]
  <2>1. CASE u = t
    BY <1>1, <1>2, <1>3, <1>5, <1>6, <2>1 DEF Inv, Types
  <2>2. CASE u # t
    <3>1. promised'[v][u] = promised[v][u]
      BY <1>1, <2>2 DEF Inv, Types
    <3>2. QED
      BY <1>1, <1>3, <1>6, <2>2, <3>1 DEF Inv, ClaimsHonoured
  <2>3. QED
    BY <2>1, <2>2
<1>7. ClaimsHonoured'
  BY <1>6 DEF ClaimsHonoured
<1>8. IndexMatchesTasks'
  BY <1>1, <1>3 DEF Inv, IndexMatchesTasks
<1>9. QED
  BY <1>4, <1>7, <1>8 DEF Inv

\* No other worker relies on a claim that is this worker's.
LEMMA OneBeliever ==
  ASSUME Inv, NEW q, NEW w \in Workers, NEW t \in Live \cap Ids, OwnClaim(q, w, t),
         NEW v \in Workers, promised[v][t] > now
  PROVE  v = w
BY DEF Inv, ClaimsHonoured, OwnClaim

LEMMA AckInv ==
  ASSUME Inv, NEW q \in Queues, NEW w \in Workers, NEW t \in Ids, Ack(q, w, t)
  PROVE  Inv'
<1>1. /\ t \in Live /\ OwnClaim(q, w, t)
      /\ UNCHANGED <<issued, now>>
      /\ finished' = finished \cup {t}
      /\ promised' = [promised EXCEPT ![w][t] = Never]
  BY DEF Ack, MayAck, Report
<1>2. /\ Live' = Live \ {t}
      /\ tasks' \in [Live' -> Entry]
      /\ \A u \in Live' : tasks'[u] = tasks[u]
  BY DEF Ack, Restrict, Live, Inv, Types
<1>3. /\ DOMAIN index' = DOMAIN index \ {<<tasks[t].queue, tasks[t].key>>}
      /\ index' \in [DOMAIN index' -> Ids]
      /\ \A slot \in DOMAIN index' : index'[slot] = index[slot]
  <2>1. CASE tasks[t].key = NoKey
    <3>1. <<tasks[t].queue, NoKey>> \notin DOMAIN index
      BY DEF Inv, Types
    <3>2. index' = index
      BY <2>1 DEF Ack
    <3>3. QED
      BY <2>1, <3>1, <3>2 DEF Inv, Types
  <2>2. CASE tasks[t].key # NoKey
    BY <2>2 DEF Ack, Unindexed, Restrict, Inv, Types
  <2>3. QED
    BY <2>1, <2>2
<1>4. Types'
  <2>1. promised' \in [Workers -> [Ids -> Nat]]
    BY <1>1 DEF Inv, Types, Never
  <2>2. QED
    BY <1>1, <1>2, <1>3, <2>1 DEF Inv, Types
<1>5. ASSUME NEW v \in Workers, NEW u \in Ids, promised'[v][u] > now'
      PROVE  u \in Live' /\ tasks'[u].claimedBy = v /\ tasks'[u].expires >= promised'[v][u]
  <2>1. promised'[v][u] = promised[v][u] /\ ~(v = w /\ u = t)
    BY <1>1, <1>5 DEF Inv, Types, Never
  <2>2. u # t
    BY <1>1, <1>5, <2>1, OneBeliever
  <2>3. QED
    BY <1>1, <1>2, <1>5, <2>1, <2>2 DEF Inv, ClaimsHonoured
<1>6. ClaimsHonoured'
  BY <1>5 DEF ClaimsHonoured
<1>7. IndexMatchesTasks'
  <2>1. ASSUME NEW u \in Live', tasks'[u].key # NoKey
        PROVE  /\ <<tasks'[u].queue, tasks'[u].key>> \in DOMAIN index'
               /\ index'[<<tasks'[u].queue, tasks'[u].key>>] = u
    <3>1. <<tasks[u].queue, tasks[u].key>> # <<tasks[t].queue, tasks[t].key>>
      <4>1. u \in Live /\ u # t /\ tasks'[u] = tasks[u]
        BY <1>2
      <4>2. tasks[u].key # NoKey => index[<<tasks[u].queue, tasks[u].key>>] = u
        BY <4>1 DEF Inv, IndexMatchesTasks
      <4>3. tasks[t].key # NoKey => index[<<tasks[t].queue, tasks[t].key>>] = t
        BY <1>1 DEF Inv, IndexMatchesTasks
      <4>4. QED
        BY <2>1, <4>1, <4>2, <4>3
    <3>2. QED
      BY <1>2, <1>3, <2>1, <3>1 DEF Inv, IndexMatchesTasks
  <2>2. ASSUME NEW slot \in DOMAIN index'
        PROVE  /\ index'[slot] \in Live'
               /\ slot = <<tasks'[index'[slot]].queue, tasks'[index'[slot]].key>>
    BY <1>1, <1>2, <1>3 DEF Inv, IndexMatchesTasks
  <2>3. QED
    BY <2>1, <2>2 DEF IndexMatchesTasks
<1>8. QED
  BY <1>4, <1>6, <1>7 DEF Inv

LEMMA FailInv ==
  ASSUME Inv, NEW q \in Queues, NEW w \in Workers, NEW t \in Ids, Fail(q, w, t)
  PROVE  Inv'
<1>1. /\ t \in Live /\ OwnClaim(q, w, t)
      /\ UNCHANGED <<index, issued, now, finished>>
      /\ tasks' = [tasks EXCEPT ![t] = Released(tasks[t])]
      /\ promised' = [promised EXCEPT ![w][t] = Never]
  BY DEF Fail, MayFail, Report
<1>2. /\ Live' = Live
      /\ tasks'[t] \in Entry
      /\ tasks'[t].queue = tasks[t].queue /\ tasks'[t].key = tasks[t].key
      /\ \A u \in Live \ {t} : tasks'[u] = tasks[u]
  BY <1>1 DEF Inv, Types, Live, Entry, Released, Never
<1>3. Types'
  <2>1. promised' \in [Workers -> [Ids -> Nat]]
    BY <1>1 DEF Inv, Types, Never
  <2>2. QED
    BY <1>1, <1>2, <2>1 DEF Inv, Types
<1>4. ASSUME NEW v \in Workers, NEW u \in Ids, promised'[v][u] > now'
      PROVE  u \in Live' /\ tasks'[u].claimedBy = v /\ tasks'[u].expires >= promised'[v][u]
  <2>1. promised'[v][u] = promised[v][u] /\ ~(v = w /\ u = t)
    BY <1>1, <1>4 DEF Inv, Types, Never
  <2>2. u # t
    BY <1>1, <1>4, <2>1, OneBeliever
  <2>3. QED
    BY <1>1, <1>2, <1>4, <2>1, <2>2 DEF Inv, ClaimsHonoured
<1>5. ClaimsHonoured'
  BY <1>4 DEF ClaimsHonoured
<1>6. IndexMatchesTasks'
  BY <1>1, <1>2 DEF Inv, IndexMatchesTasks
<1>7. QED
  BY <1>3, <1>5, <1>6 DEF Inv

LEMMA TickInv ==
  ASSUME Inv, Tick
  PROVE  Inv'
<1>1. Live' = Live /\ now' = now + 1 /\ UNCHANGED <<tasks, index, issued, promised, finished>>
  BY DEF Tick, Live
<1>2. Types'
  BY <1>1 DEF Tick, Inv, Types
<1>3. ClaimsHonoured'
  BY <1>1 DEF Inv, Types, ClaimsHonoured
<1>4. IndexMatchesTasks'
  BY <1>1 DEF Inv, IndexMatchesTasks
<1>5. QED
  BY <1>2, <1>3, <1>4 DEF Inv

\* Every step keeps the invariant.
LEMMA InvNext == Inv /\ [Next]_vars => Inv'
<1> SUFFICES ASSUME Inv, [Next]_vars PROVE Inv'
  OBVIOUS
<1>1. CASE UNCHANGED vars
  BY <1>1 DEF Inv, Types, ClaimsHonoured, IndexMatchesTasks, Live, vars
<1>2. CASE Next
  BY <1>2, EnqueueInv, ClaimInv, AckInv, FailInv, TickInv DEF Next
<1>3. QED
  BY <1>1, <1>2

\* The invariant the theorems below rest on.
THEOREM InvHolds == Spec => []Inv
BY InvInit, InvNext, PTL DEF Spec

\* A worker that was told it holds a task holds it until then or until it
\* reports, whatever the other workers and the clock do.
THEOREM HonoursClaims == Spec => []ClaimsHonoured
<1>1. Inv => ClaimsHonoured
  BY DEF Inv
<1>2. QED
  BY <1>1, InvHolds, PTL

\* The idempotency index names exactly the live tasks that have a key.
THEOREM IndexAgrees == Spec => []IndexMatchesTasks
<1>1. Inv => IndexMatchesTasks
  BY DEF Inv
<1>2. QED
  BY <1>1, InvHolds, PTL

-----------------------------------------------------------------------------
\* The queues

\* Counting the members of K up to each of them numbers K from 1, in order.
LEMMA RanksNumber ==
  ASSUME NEW N \in Nat, NEW K, K \subseteq 1 .. N,
         NEW rank, rank = [i \in K |-> Cardinality({j \in K : j <= i})]
  PROVE  /\ IsFiniteSet(K) /\ Cardinality(K) \in Nat
         /\ \A i, j \in K : i < j => rank[i] < rank[j]
         /\ \A i \in K : rank[i] \in 1 .. Cardinality(K)
         /\ \A n \in 1 .. Cardinality(K) : \E i \in K : rank[i] = n
<1>. DEFINE Upto(i) == {j \in K : j <= i}
<1>1. IsFiniteSet(K) /\ Cardinality(K) \in Nat
  <2>1. IsFiniteSet(1 .. N) /\ K \in SUBSET (1 .. N)
    BY FS_Interval
  <2>. QED
    BY <2>1, FS_Subset, FS_CardinalityType
<1>2. \A i \in K : Upto(i) \in SUBSET K /\ i \in Upto(i)
  OBVIOUS
<1>3. ASSUME NEW i \in K, NEW j \in K, i < j
      PROVE  Upto(i) \in SUBSET Upto(j) /\ j \notin Upto(i)
  <2>1. \A m \in K : m \in Nat
    OBVIOUS
  <2>2. (\A m \in K : m <= i => m <= j) /\ ~ (j <= i)
    BY <1>3, <2>1
  <2>. QED
    BY <2>2
<1>4. \A i \in K : rank[i] = Cardinality(Upto(i))
  OBVIOUS
<1>. HIDE DEF Upto
<1>5. ASSUME NEW i \in K
      PROVE  IsFiniteSet(Upto(i)) /\ Cardinality(Upto(i)) \in 1 .. Cardinality(K)
  <2>1. IsFiniteSet(Upto(i)) /\ Cardinality(Upto(i)) <= Cardinality(K)
    BY <1>1, <1>2, FS_Subset
  <2>2. Cardinality(Upto(i)) \in Nat /\ Cardinality(Upto(i)) # 0
    BY <1>2, <2>1, FS_CardinalityType, FS_EmptySet
  <2>. QED
    BY <1>1, <2>1, <2>2
<1>6. ASSUME NEW i \in K, NEW j \in K, i < j
      PROVE  rank[i] < rank[j]
  <2>1. Cardinality(Upto(i)) <= Cardinality(Upto(j)) /\ Cardinality(Upto(i)) # Cardinality(Upto(j))
    BY <1>2, <1>3, <1>5, <1>6, FS_Subset
  <2>. QED
    BY <1>4, <1>5, <2>1
<1>7. \A i \in K : rank[i] \in 1 .. Cardinality(K)
  BY <1>4, <1>5
<1>8. rank \in Injection(K, 1 .. Cardinality(K))
  <2>1. rank \in [K -> 1 .. Cardinality(K)]
    BY <1>7
  <2>2. ASSUME NEW i \in K, NEW j \in K, rank[i] = rank[j]
        PROVE  i = j
    <3>1. i \in Nat /\ j \in Nat /\ ~ (rank[i] < rank[j]) /\ ~ (rank[j] < rank[i])
      BY <1>1, <1>7, <2>2
    <3>. QED
      BY <1>6, <3>1
  <2>. QED
    BY <2>1, <2>2 DEF Injection, IsInjective
<1>9. rank \in Surjection(K, 1 .. Cardinality(K))
  <2>1. IsFiniteSet(1 .. Cardinality(K)) /\ Cardinality(1 .. Cardinality(K)) = Cardinality(K)
    BY <1>1, FS_Interval
  <2>. QED
    BY <1>8, <2>1, FS_Injection
<1>. QED
  BY <1>1, <1>6, <1>7, <1>9 DEF Surjection

Increasing(ids) == \A i, j \in DOMAIN ids : i < j => ids[i] < ids[j]

\* retain drops the task and keeps the order of the others.
LEMMA RetainProperties ==
  ASSUME NEW ids \in Seq(Ids), NEW t
  PROVE  /\ Retain(ids, t) \in Seq(Ids)
         /\ Range(Retain(ids, t)) = Range(ids) \ {t}
         /\ Increasing(ids) => Increasing(Retain(ids, t))
<1>. DEFINE kept == {i \in DOMAIN ids : ids[i] # t}
            rank == [i \in kept |-> Cardinality({j \in kept : j <= i})]
            At(n) == CHOOSE i \in kept : Cardinality({j \in kept : j <= i}) = n
            size == Cardinality(kept)
<1>1. /\ DOMAIN ids = 1 .. Len(ids) /\ Len(ids) \in Nat /\ kept \subseteq 1 .. Len(ids)
      /\ \A i \in DOMAIN ids : ids[i] \in Ids
  OBVIOUS
<1>2. /\ size \in Nat
      /\ \A i, j \in kept : i < j => rank[i] < rank[j]
      /\ \A i \in kept : rank[i] \in 1 .. size
      /\ \A n \in 1 .. size : \E i \in kept : rank[i] = n
  <2>. HIDE DEF kept
  <2>. QED
    BY <1>1, RanksNumber
<1>3. Retain(ids, t) = [n \in 1 .. size |-> ids[At(n)]]
  BY DEF Retain
<1>4. \A n \in 1 .. size : At(n) \in kept /\ rank[At(n)] = n
  <2>1. \A i \in kept : rank[i] = Cardinality({j \in kept : j <= i})
    OBVIOUS
  <2>. HIDE DEF kept, rank, size
  <2>. QED
    BY <1>2, <2>1
<1>5. \A i \in kept : i \in DOMAIN ids /\ ids[i] # t /\ ids[i] \in Ids /\ i \in Nat
  BY <1>1
<1>6. \A i \in DOMAIN ids : ids[i] # t => i \in kept
  OBVIOUS
<1>. HIDE DEF kept, rank, size, At
<1>7. ASSUME NEW i \in kept
      PROVE  rank[i] \in 1 .. size /\ At(rank[i]) = i
  <2>1. rank[i] \in 1 .. size /\ At(rank[i]) \in kept /\ rank[At(rank[i])] = rank[i]
    BY <1>2, <1>4
  <2>2. ~ (At(rank[i]) < i) /\ ~ (i < At(rank[i]))
    BY <1>2, <2>1
  <2>. QED
    BY <1>5, <2>1, <2>2
<1>8. Retain(ids, t) \in Seq(Ids)
  BY <1>2, <1>3, <1>4, <1>5
<1>9. Range(Retain(ids, t)) = Range(ids) \ {t}
  BY <1>3, <1>4, <1>5, <1>6, <1>7 DEF Range
<1>10. ASSUME Increasing(ids) PROVE Increasing(Retain(ids, t))
  <2>. SUFFICES ASSUME NEW m \in 1 .. size, NEW n \in 1 .. size, m < n
                PROVE  ids[At(m)] < ids[At(n)]
    BY <1>3 DEF Increasing
  <2>1. /\ At(m) \in kept /\ At(n) \in kept /\ At(m) \in Nat /\ At(n) \in Nat
        /\ rank[At(m)] = m /\ rank[At(n)] = n
    BY <1>4, <1>5
  <2>2. ~ (At(n) < At(m)) /\ At(m) # At(n)
    BY <1>2, <2>1
  <2>. QED
    BY <1>5, <1>10, <2>1, <2>2 DEF Increasing
<1>. QED
  BY <1>8, <1>9, <1>10

\* Every queue is a sequence of ids; a task has a deadline exactly when somebody
\* claimed it.
QueueTypes ==
  /\ queued \in [Queues -> Seq(Ids)]
  /\ \A t \in Live : tasks[t].claimedBy = Nobody <=> tasks[t].expires = Never

QueueInv == QueueTypes /\ QueuesHoldLiveTasks

\* QueuesHoldLiveTasks of one queue
QueueHolds(q) ==
  /\ Range(queued[q]) = {t \in Live : tasks[t].queue = q}
  /\ Increasing(queued[q])

LEMMA QueueByQueue == QueuesHoldLiveTasks <=> \A q \in Queues : QueueHolds(q)
BY DEF QueuesHoldLiveTasks, QueueHolds, Increasing

\* The new id is larger than every id in a queue.
LEMMA AppendKeepsOrder ==
  ASSUME NEW n \in Ids, NEW ids \in Seq(Ids), Increasing(ids), \A t \in Range(ids) : t < n
  PROVE  /\ Append(ids, n) \in Seq(Ids)
         /\ Range(Append(ids, n)) = Range(ids) \cup {n}
         /\ Increasing(Append(ids, n))
<1>1. /\ Append(ids, n) \in Seq(Ids) /\ Len(Append(ids, n)) = Len(ids) + 1
      /\ DOMAIN Append(ids, n) = 1 .. Len(ids) + 1 /\ DOMAIN ids = 1 .. Len(ids)
      /\ Len(ids) \in Nat
      /\ Append(ids, n)[Len(ids) + 1] = n
      /\ \A i \in 1 .. Len(ids) : Append(ids, n)[i] = ids[i]
  OBVIOUS
<1>2. Range(Append(ids, n)) = Range(ids) \cup {n}
  <2>1. 1 .. Len(ids) + 1 = (1 .. Len(ids)) \cup {Len(ids) + 1}
    BY <1>1
  <2>. QED
    BY <1>1, <2>1 DEF Range
<1>3. Increasing(Append(ids, n))
  <2>. SUFFICES ASSUME NEW i \in 1 .. Len(ids) + 1, NEW j \in 1 .. Len(ids) + 1, i < j
                PROVE  Append(ids, n)[i] < Append(ids, n)[j]
    BY <1>1 DEF Increasing
  <2>1. i \in 1 .. Len(ids) /\ ids[i] \in Range(ids)
    BY <1>1 DEF Range
  <2>2. CASE j \in 1 .. Len(ids)
    BY <1>1, <2>1, <2>2 DEF Increasing
  <2>3. CASE j = Len(ids) + 1
    BY <1>1, <2>1, <2>3
  <2>. QED
    BY <1>1, <2>2, <2>3
<1>. QED
  BY <1>1, <1>2, <1>3

\* What the other steps leave of the queues: the ids, each in its queue.
LEMMA QueuesUnaffected ==
  ASSUME QueuesHoldLiveTasks, queued' = queued, Live' = Live,
         \A t \in Live : tasks'[t].queue = tasks[t].queue
  PROVE  QueuesHoldLiveTasks'
BY DEF QueuesHoldLiveTasks

LEMMA InsertQueues ==
  ASSUME Inv, QueueInv, NEW q \in Queues, NEW k \in Keys \cup {NoKey}, ~Known(q, k), Insert(q, k)
  PROVE  QueueInv'
<1> PICK n \in Nat : n = issued + 1
  BY DEF Inv, Types
<1>1. /\ n \in Ids /\ n \notin Live /\ Live' = Live \cup {n}
      /\ tasks'[n] = [queue |-> q, key |-> k, claimedBy |-> Nobody, expires |-> Never]
      /\ \A t \in Live : tasks'[t] = tasks[t]
  BY InsertEffect
<1>2. queued' = [queued EXCEPT ![q] = Append(queued[q], n)]
  BY DEF Insert
<1>3. \A t \in Live : t < n
  BY DEF Inv, Types
<1>4. ASSUME NEW p \in Queues
      PROVE  queued'[p] \in Seq(Ids) /\ QueueHolds(p)'
  <2>1. queued[p] \in Seq(Ids) /\ QueueHolds(p)
    BY QueueByQueue DEF QueueInv, QueueTypes
  <2>2. CASE p = q
    <3>1. queued'[p] = Append(queued[p], n)
      BY <1>2, <2>2 DEF QueueInv, QueueTypes
    <3>2. Increasing(queued[p]) /\ \A t \in Range(queued[p]) : t < n
      BY <1>3, <2>1 DEF QueueHolds
    <3>3. /\ Append(queued[p], n) \in Seq(Ids)
          /\ Range(Append(queued[p], n)) = Range(queued[p]) \cup {n}
          /\ Increasing(Append(queued[p], n))
      BY <1>1, <2>1, <3>2, AppendKeepsOrder
    <3>4. Range(queued[p]) \cup {n} = {t \in Live' : tasks'[t].queue = p}
      BY <1>1, <2>1, <2>2 DEF QueueHolds
    <3>5. QED
      BY <3>1, <3>3, <3>4 DEF QueueHolds
  <2>3. CASE p # q
    <3>1. queued'[p] = queued[p]
      BY <1>2, <2>3 DEF QueueInv, QueueTypes
    <3>2. {t \in Live' : tasks'[t].queue = p} = {t \in Live : tasks[t].queue = p}
      BY <1>1, <2>3
    <3>3. QED
      BY <2>1, <3>1, <3>2 DEF QueueHolds
  <2>4. QED
    BY <2>2, <2>3
<1>5. queued' \in [Queues -> Seq(Ids)]
  BY <1>2, <1>4 DEF QueueInv, QueueTypes
<1>6. QueuesHoldLiveTasks'
  BY <1>4 DEF QueuesHoldLiveTasks, QueueHolds, Increasing
<1>7. QED
  BY <1>1, <1>5, <1>6 DEF QueueInv, QueueTypes

LEMMA ClaimQueues ==
  ASSUME Inv, QueueInv, NEW q \in Queues, NEW w \in Workers, NEW timeout \in Timeouts,
         Claim(q, w, timeout)
  PROVE  QueueInv'
<1> PICK t \in Live : TakesOver(w, t, timeout)
  BY ClaimEffect
<1>1. /\ Live' = Live
      /\ tasks'[t].queue = tasks[t].queue
      /\ tasks'[t].claimedBy = w /\ tasks'[t].expires = now + timeout
      /\ \A u \in Live \ {t} : tasks'[u] = tasks[u]
  BY DEF TakesOver, Inv, Types, Live, Entry
<1>2. w # Nobody /\ now + timeout # Never
  BY DEF Inv, Types, Never
<1>3. queued' = queued
  BY DEF Claim
<1>4. QueuesHoldLiveTasks'
  BY <1>1, <1>3, QueuesUnaffected DEF QueueInv
<1>5. QED
  BY <1>1, <1>2, <1>3, <1>4 DEF QueueInv, QueueTypes

\* The task leaves `tasks` and its queue in one step.
LEMMA AckQueues ==
  ASSUME Inv, QueueInv, NEW q \in Queues, NEW w \in Workers, NEW t \in Ids, Ack(q, w, t)
  PROVE  QueueInv'
<1>1. t \in Live /\ tasks[t].queue = q
  BY DEF Ack, MayAck, OwnClaim
<1>2. /\ Live' = Live \ {t}
      /\ \A u \in Live' : tasks'[u] = tasks[u]
  BY DEF Ack, Restrict, Live
<1>3. queued' = [queued EXCEPT ![q] = Retain(queued[q], t)]
  BY <1>1 DEF Ack
<1>4. ASSUME NEW p \in Queues
      PROVE  queued'[p] \in Seq(Ids) /\ QueueHolds(p)'
  <2>1. queued[p] \in Seq(Ids) /\ QueueHolds(p)
    BY QueueByQueue DEF QueueInv, QueueTypes
  <2>2. CASE p = q
    <3>1. queued'[p] = Retain(queued[p], t)
      BY <1>3, <2>2 DEF QueueInv, QueueTypes
    <3>2. /\ Retain(queued[p], t) \in Seq(Ids)
          /\ Range(Retain(queued[p], t)) = Range(queued[p]) \ {t}
          /\ Increasing(Retain(queued[p], t))
      BY <2>1, RetainProperties DEF QueueHolds
    <3>3. Range(queued[p]) \ {t} = {u \in Live' : tasks'[u].queue = p}
      BY <1>2, <2>1 DEF QueueHolds
    <3>4. QED
      BY <3>1, <3>2, <3>3 DEF QueueHolds
  <2>3. CASE p # q
    <3>1. queued'[p] = queued[p]
      BY <1>3, <2>3 DEF QueueInv, QueueTypes
    <3>2. {u \in Live' : tasks'[u].queue = p} = {u \in Live : tasks[u].queue = p}
      BY <1>1, <1>2, <2>3
    <3>3. QED
      BY <2>1, <3>1, <3>2 DEF QueueHolds
  <2>4. QED
    BY <2>2, <2>3
<1>5. queued' \in [Queues -> Seq(Ids)]
  BY <1>3, <1>4 DEF QueueInv, QueueTypes
<1>6. QueuesHoldLiveTasks'
  BY <1>4 DEF QueuesHoldLiveTasks, QueueHolds, Increasing
<1>7. QED
  BY <1>2, <1>5, <1>6 DEF QueueInv, QueueTypes

LEMMA FailQueues ==
  ASSUME Inv, QueueInv, NEW q \in Queues, NEW w \in Workers, NEW t \in Ids, Fail(q, w, t)
  PROVE  QueueInv'
<1>1. t \in Live /\ queued' = queued /\ tasks' = [tasks EXCEPT ![t] = Released(tasks[t])]
  BY DEF Fail
<1>2. /\ Live' = Live
      /\ tasks'[t].queue = tasks[t].queue
      /\ tasks'[t].claimedBy = Nobody /\ tasks'[t].expires = Never
      /\ \A u \in Live \ {t} : tasks'[u] = tasks[u]
  BY <1>1 DEF Inv, Types, Live, Entry, Released
<1>3. QueuesHoldLiveTasks'
  BY <1>1, <1>2, QueuesUnaffected DEF QueueInv
<1>4. QED
  BY <1>1, <1>2, <1>3 DEF QueueInv, QueueTypes

LEMMA QueueInvNext == Inv /\ QueueInv /\ [Next]_vars => QueueInv'
<1> SUFFICES ASSUME Inv, QueueInv, [Next]_vars PROVE QueueInv'
  OBVIOUS
<1>1. CASE UNCHANGED <<queued, tasks>>
  BY <1>1 DEF QueueInv, QueueTypes, QueuesHoldLiveTasks, Live
<1>2. CASE \E q \in Queues, k \in Keys \cup {NoKey} : ~Known(q, k) /\ Insert(q, k)
  BY <1>2, InsertQueues
<1>3. CASE \E q \in Queues, w \in Workers, timeout \in Timeouts : Claim(q, w, timeout)
  BY <1>3, ClaimQueues
<1>4. CASE \E q \in Queues, w \in Workers, t \in Ids : Ack(q, w, t) \/ Fail(q, w, t)
  BY <1>4, AckQueues, FailQueues
<1>5. QED
  BY <1>1, <1>2, <1>3, <1>4 DEF Next, Enqueue, Tick, vars

\* The queues hold exactly the live tasks, each once and oldest first.
THEOREM QueueInvHolds == Spec => [](Inv /\ QueueInv)
<1>1. Init => QueueInv
  <2> SUFFICES ASSUME Init PROVE QueueInv
    OBVIOUS
  <2>1. \A q \in Queues : queued[q] = <<>>
    BY DEF Init
  <2>2. Live = {}
    BY DEF Init, Live
  <2>3. QueueTypes
    BY <2>2 DEF Init, QueueTypes
  <2>4. QueuesHoldLiveTasks
    BY <2>1, <2>2 DEF QueuesHoldLiveTasks, Range
  <2>5. QED
    BY <2>3, <2>4 DEF QueueInv
<1>2. QED
  BY <1>1, QueueInvNext, InvHolds, PTL DEF Spec

\* Everything has its type; a task has a deadline exactly when it is claimed.
THEOREM TypeCorrect == Spec => []TypeOK
<1>1. Inv /\ QueueInv => TypeOK
  BY DEF Inv, QueueInv, Types, QueueTypes, TypeOK
<1>2. QED
  BY <1>1, QueueInvHolds, PTL

\* `tasks` and `queues`, updated one after the other, never disagree.
THEOREM QueuesAgree == Spec => []QueuesHoldLiveTasks
<1>1. QueueInv => QueuesHoldLiveTasks
  BY DEF QueueInv
<1>2. QED
  BY <1>1, QueueInvHolds, PTL

\* `<` on the natural numbers as a set of pairs, well-founded by the library.
Less == OpToRel(<, Nat)

\* A set of natural numbers that is not empty has a least element.
LEMMA Least ==
  ASSUME NEW T, T \subseteq Nat, T # {}
  PROVE  \E x \in T : \A y \in T : x <= y
<1>1. IsWellFoundedOn(Less, Nat)
  BY NatLessThanWellFounded DEF Less
<1>2. PICK x \in T : \A y \in T : ~ (<<y, x>> \in Less)
  BY <1>1, WFMin
<1>3. \A m, n \in Nat : <<m, n>> \in Less <=> m < n
  BY DEF Less, OpToRel
<1>4. \A y \in T : x \in Nat /\ y \in Nat /\ ~ (y < x)
  BY <1>2, <1>3
<1>5. QED
  BY <1>4

\* A live task that nobody holds is in its queue, so the first claimable task of
\* that queue is offered: it, or one before it.
LEMMA UnheldIsOffered ==
  ASSUME Inv, QueueInv, NEW t \in Live, ~Active(t)
  PROVE  \E i \in DOMAIN queued[tasks[t].queue] : Offered(tasks[t].queue, i)
<1>1. tasks[t].queue \in Queues
  BY DEF Inv, Types, Entry
<1> PICK q \in Queues : q = tasks[t].queue
  BY <1>1
<1> DEFINE free == {i \in DOMAIN queued[q] : queued[q][i] \in Live /\ Claimable(queued[q][i])}
<1>2. /\ DOMAIN queued[q] = 1 .. Len(queued[q]) /\ Len(queued[q]) \in Nat
      /\ t \in Range(queued[q])
  <2>1. queued[q] \in Seq(Ids)
    BY DEF QueueInv, QueueTypes
  <2>2. t \in Range(queued[q])
    BY DEF QueueInv, QueuesHoldLiveTasks
  <2>3. QED
    BY <2>1, <2>2
<1>3. free \subseteq Nat /\ free # {}
  BY <1>2 DEF Range, Claimable
<1>4. PICK i \in free : \A j \in free : i <= j
  <2> HIDE DEF free
  <2>1. QED
    BY <1>3, Least
<1>5. \A j \in 1 .. i - 1 : j \in DOMAIN queued[q] /\ ~ (i <= j)
  BY <1>2, <1>4
<1>6. \A j \in 1 .. i - 1 : queued[q][j] \in Live => ~Claimable(queued[q][j])
  BY <1>4, <1>5
<1>7. QED
  BY <1>4, <1>6 DEF Offered

\* No task is stuck: whatever is not held is offered, or something before it.
THEOREM NothingStuck == Spec => []NoTaskStuck
<1>1. Inv /\ QueueInv => NoTaskStuck
  BY UnheldIsOffered DEF NoTaskStuck
<1>2. QED
  BY <1>1, QueueInvHolds, PTL

\* The task a claim takes is the oldest of its queue that nobody holds.
LEMMA ClaimTakesOldest ==
  ASSUME Inv, QueueInv, NEW q \in Queues, NEW w \in Workers, NEW timeout \in Timeouts,
         Claim(q, w, timeout)
  PROVE  \E t \in Live :
           /\ TakesOver(w, t, timeout)
           /\ tasks[t].queue = q
           /\ \A u \in Live : u < t /\ tasks[u].queue = q => Active(u)
<1>1. PICK i \in DOMAIN queued[q] :
        /\ Offered(q, i)
        /\ tasks' = [tasks EXCEPT ![queued[q][i]] =
                       [@ EXCEPT !.claimedBy = w, !.expires = now + timeout]]
        /\ promised' = [promised EXCEPT ![w][queued[q][i]] = Told(now + timeout)]
        /\ UNCHANGED <<queued, index, issued, now, finished>>
  BY DEF Claim
<1> DEFINE t == queued[q][i]
<1>2. t \in Live /\ ~Active(t)
  BY <1>1 DEF Offered, Claimable
<1>3. /\ DOMAIN queued[q] = 1 .. Len(queued[q]) /\ Len(queued[q]) \in Nat
      /\ QueueHolds(q)
  BY QueueByQueue DEF QueueInv, QueueTypes
<1>4. tasks[t].queue = q
  BY <1>2, <1>3 DEF QueueHolds, Range
<1>5. ASSUME NEW u \in Live, u < t, tasks[u].queue = q
      PROVE  Active(u)
  <2>1. PICK j \in DOMAIN queued[q] : queued[q][j] = u
    BY <1>3, <1>5 DEF QueueHolds, Range
  <2>2. t \in Nat /\ u \in Nat
    BY <1>2 DEF Inv, Types
  <2>3. ~ (i < j) /\ i # j
    BY <1>3, <1>5, <2>1, <2>2 DEF QueueHolds, Increasing
  <2>4. j \in 1 .. i - 1
    BY <1>1, <1>3, <2>1, <2>3
  <2>5. QED
    BY <1>1, <2>1, <2>4 DEF Offered, Claimable
<1>6. t \in Ids
  BY <1>2 DEF Inv, Types, Ids
<1>7. TakesOver(w, t, timeout)
  BY <1>1, <1>2, <1>6 DEF TakesOver
<1>8. QED
  BY <1>2, <1>4, <1>5, <1>7

-----------------------------------------------------------------------------
LEMMA QueueOfDomain == DOMAIN QueueOf = Live /\ \A t \in Live : QueueOf[t] = tasks[t].queue
BY DEF QueueOf

\* A new task is submitted, and nobody holds it.
LEMMA EnqueueSubmits ==
  ASSUME Inv, NEW q \in Queues, NEW k \in Keys \cup {NoKey}, Enqueue(q, k)
  PROVE  [Abstract!Next]_(Abstract!vars)
<1>1. CASE UNCHANGED vars
  BY <1>1 DEF Abstract!vars, vars, QueueOf, Holder, Live, Active
<1>2. CASE ~Known(q, k) /\ Insert(q, k)
  <2> PICK n \in Nat : n = issued + 1
    BY DEF Inv, Types
  <2>1. /\ n \in Ids /\ n \notin Live
        /\ Live' = Live \cup {n}
        /\ tasks'[n] = [queue |-> q, key |-> k, claimedBy |-> Nobody, expires |-> Never]
        /\ \A t \in Live : tasks'[t] = tasks[t]
    BY <1>2, InsertEffect
  <2>2. (\A u \in Live \cup finished : u < n) /\ UNCHANGED <<now, finished>>
    BY <1>2 DEF Inv, Types, Insert
  <2>3. ASSUME NEW u \in Ids
        PROVE  Holder'[u] = Holder[u]
    BY <2>1, <2>2 DEF Holder, Active
  <2>4. Holder' = Holder
    BY <2>3 DEF Holder
  <2>5. QueueOf' = [u \in Live \cup {n} |-> IF u = n THEN q ELSE QueueOf[u]]
    BY <2>1 DEF QueueOf
  <2>6. Abstract!Submit(q, n)
    BY <2>2, <2>4, <2>5, QueueOfDomain DEF Abstract!Submit
  <2>7. QED
    BY <2>1, <2>6 DEF Abstract!Next
<1>3. QED
  BY <1>1, <1>2 DEF Enqueue

\* A claim takes the oldest free task of its queue, unless it expires at once.
LEMMA ClaimTakes ==
  ASSUME Inv, QueueInv, NEW q \in Queues, NEW w \in Workers, NEW timeout \in Timeouts, Claim(q, w, timeout)
  PROVE  [Abstract!Next]_(Abstract!vars)
<1> PICK t \in Live :
      /\ TakesOver(w, t, timeout)
      /\ tasks[t].queue = q
      /\ \A u \in Live : u < t /\ tasks[u].queue = q => Active(u)
  BY ClaimTakesOldest
<1>1. /\ t \in Live /\ t \in Ids /\ ~Active(t)
      /\ tasks' = [tasks EXCEPT ![t] =
                     [tasks[t] EXCEPT !.claimedBy = w, !.expires = now + timeout]]
      /\ UNCHANGED <<now, finished>>
  BY DEF TakesOver
<1>2. /\ Live' = Live
      /\ tasks'[t].claimedBy = w /\ tasks'[t].expires = now + timeout
      /\ tasks'[t].queue = tasks[t].queue
      /\ \A u \in Live \ {t} : tasks'[u] = tasks[u]
  BY <1>1 DEF Inv, Types, Live, Entry
<1>3. now \in Nat /\ timeout \in Nat
  BY DEF Inv, Types
<1>4. QueueOf' = QueueOf
  <2>1. \A u \in Live : tasks'[u].queue = tasks[u].queue
    BY <1>2
  <2>2. QED
    BY <1>2, <2>1 DEF QueueOf
<1>5. Holder[t] = Nobody
  BY <1>1 DEF Holder
<1>6. ASSUME NEW u \in Ids, u # t
      PROVE  Holder'[u] = Holder[u]
  BY <1>1, <1>2, <1>6 DEF Holder, Active
<1>7. CASE timeout = 0
  <2>1. Holder'[t] = Nobody
    BY <1>1, <1>2, <1>3, <1>7 DEF Holder, Active
  <2>2. \A u \in Ids : Holder'[u] = Holder[u]
    BY <1>5, <1>6, <2>1
  <2>3. Holder' = Holder
    BY <2>2 DEF Holder
  <2>4. QED
    BY <1>1, <1>4, <2>3 DEF Abstract!vars
<1>8. CASE timeout > 0
  <2>1. Holder'[t] = w
    BY <1>1, <1>2, <1>3, <1>8 DEF Holder, Active
  <2>2. Holder' = [Holder EXCEPT ![t] = w]
    BY <1>1, <1>6, <2>1 DEF Holder
  <2>3. t \in Abstract!Free(q)
    BY <1>5, QueueOfDomain DEF Abstract!Free
  <2>4. ASSUME NEW u \in Abstract!Free(q)
        PROVE  t <= u
    <3>1. u \in Live /\ tasks[u].queue = q /\ Holder[u] = Nobody
      BY QueueOfDomain DEF Abstract!Free
    <3>2. u \in Ids /\ u \in Nat /\ t \in Nat
      BY <3>1 DEF Inv, Types, Ids
    <3>3. ~Active(u)
      BY <3>1, <3>2 DEF Holder, Active
    <3>4. QED
      BY <3>1, <3>2, <3>3
  <2>5. Abstract!Take(q, w, t)
    BY <1>1, <1>4, <2>2, <2>3, <2>4 DEF Abstract!Take
  <2>6. QED
    BY <1>1, <2>5 DEF Abstract!Next
<1>9. QED
  BY <1>3, <1>7, <1>8

\* An acknowledged task is finished by its holder.
LEMMA AckFinishes ==
  ASSUME Inv, NEW q \in Queues, NEW w \in Workers, NEW t \in Ids, Ack(q, w, t)
  PROVE  Abstract!Next
<1>1. /\ t \in Live /\ MayAck(q, w, t)
      /\ finished' = finished \cup {t} /\ now' = now
      /\ tasks' = Restrict(tasks, Live \ {t})
  BY DEF Ack
<1>2. /\ Live' = Live \ {t}
      /\ \A u \in Live' : tasks'[u] = tasks[u]
  BY <1>1 DEF Restrict, Live
<1>3. Holder[t] = w /\ Holder'[t] = Nobody
  BY <1>1, <1>2 DEF MayAck, OwnClaim, Holder, Active
<1>4. ASSUME NEW u \in Ids, u # t
      PROVE  Holder'[u] = Holder[u]
  BY <1>1, <1>2, <1>4 DEF Holder, Active
<1>5. Holder' = [Holder EXCEPT ![t] = Nobody]
  BY <1>3, <1>4 DEF Holder
<1>6. QueueOf' = [u \in Live \ {t} |-> QueueOf[u]]
  BY <1>2 DEF QueueOf
<1>7. Abstract!Finish(w, t)
  BY <1>1, <1>3, <1>5, <1>6, QueueOfDomain DEF Abstract!Finish
<1>8. QED
  BY <1>7 DEF Abstract!Next

\* A failed task is given back.
LEMMA FailGivesBack ==
  ASSUME Inv, NEW q \in Queues, NEW w \in Workers, NEW t \in Ids, Fail(q, w, t)
  PROVE  Abstract!Next
<1>1. /\ t \in Live
      /\ UNCHANGED <<now, finished>>
      /\ tasks' = [tasks EXCEPT ![t] = Released(tasks[t])]
  BY DEF Fail
<1>2. /\ Live' = Live
      /\ tasks'[t].claimedBy = Nobody /\ tasks'[t].queue = tasks[t].queue
      /\ \A u \in Live \ {t} : tasks'[u] = tasks[u]
  BY <1>1 DEF Inv, Types, Live, Entry, Released
<1>3. ASSUME NEW u \in Ids
      PROVE  Holder'[u] = IF u \in {t} THEN Nobody ELSE Holder[u]
  BY <1>1, <1>2 DEF Holder, Active
<1>4. Holder' = [u \in Ids |-> IF u \in {t} THEN Nobody ELSE Holder[u]]
  BY <1>3 DEF Holder
<1>5. QueueOf' = QueueOf
  BY <1>2 DEF QueueOf
<1>6. Abstract!GiveBack({t})
  BY <1>1, <1>4, <1>5 DEF Abstract!GiveBack
<1>7. QED
  BY <1>1, <1>6 DEF Abstract!Next, Ids

\* When time passes, the tasks whose claims expire are given back.
LEMMA TickGivesBack ==
  ASSUME Inv, Tick
  PROVE  Abstract!Next
<1>1. Live' = Live /\ now' = now + 1 /\ now \in Nat /\ UNCHANGED <<tasks, finished>>
  BY DEF Tick, Live, Inv, Types
<1> DEFINE lost == {u \in Ids : Holder'[u] # Holder[u]}
<1>2. ASSUME NEW u \in Live, Active(u)'
      PROVE  Active(u)
  <2>1. tasks[u].expires \in Nat
    BY DEF Inv, Types, Entry
  <2>2. QED
    BY <1>1, <1>2, <2>1 DEF Active
<1>3. ASSUME NEW u \in Ids
      PROVE  Holder'[u] = IF Holder'[u] # Holder[u] THEN Nobody ELSE Holder[u]
  BY <1>1, <1>2 DEF Holder
<1>4. Holder' = [u \in Ids |-> IF u \in lost THEN Nobody ELSE Holder[u]]
  BY <1>3 DEF Holder
<1>5. QueueOf' = QueueOf
  BY <1>1 DEF QueueOf
<1>6. Abstract!GiveBack(lost)
  BY <1>1, <1>4, <1>5 DEF Abstract!GiveBack
<1>7. QED
  BY <1>6 DEF Abstract!Next

\* MemoryTaskQueue delivers at least once and oldest first: a task stays until
\* the worker that holds it finishes it, one worker at a time holds it, and a
\* claim takes the oldest task of its queue that nobody holds.
THEOREM Implements == Spec => ClaimQueueSpec
<1>1. Init => Abstract!Init
  BY DEF Init, Abstract!Init, QueueOf, Holder, Live
<1>2. ASSUME Inv, QueueInv, [Next]_vars
      PROVE  [Abstract!Next]_(Abstract!vars)
  <2>1. CASE UNCHANGED vars
    BY <2>1 DEF Abstract!vars, vars, QueueOf, Holder, Live, Active
  <2>2. CASE Next
    BY <1>2, <2>2, EnqueueSubmits, ClaimTakes, AckFinishes, FailGivesBack, TickGivesBack DEF Next
  <2>3. QED
    BY <1>2, <2>1, <2>2
<1>3. QED
  BY <1>1, <1>2, QueueInvHolds, PTL DEF Spec, ClaimQueueSpec, Abstract!Spec
=============================================================================
