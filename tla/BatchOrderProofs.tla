-------------------------- MODULE BatchOrderProofs -------------------------
(* BatchDispatcher implements TtsService, for every set of calls and keys,   *)
(* every --parallel, MAX_BATCH and bound on losses: a batch serves the       *)
(* oldest call and overtakes no call of its key, although requeue_front puts *)
(* calls back before older ones of other keys.                               *)
EXTENDS BatchDispatcherProofs

-----------------------------------------------------------------------------
(* The order of the queue.                                                   *)

\* A call that came before another.
Older(q, r) == ticket[q] < ticket[r]

\* The item at i may have been requeued: it and all before it are of the batch's
\* key (of the head's, while there is no batch), and the batch has room for them.
Requeued(i) ==
    /\ Len(batch) + i <= Parallel
    /\ \A h \in 1..i : key[queue[h]] = IF batch = <<>> THEN key[queue[1]] ELSE BatchKey

\* The queue is in the order of arrival, except that items that may have been
\* requeued stand before older ones of other keys, until they are drained again.
QueueOrder ==
    \A i \in 1..Len(queue), j \in 1..Len(queue) : i < j =>
        \/ Older(queue[i], queue[j])
        \/ /\ dpc \notin {"grace", "dispatch"}
           /\ Requeued(i) /\ key[queue[j]] # key[queue[i]]

\* The batch is in order, and before what is left of its key in the queue.
BatchOrder ==
    /\ \A i \in 1..Len(batch), j \in 1..Len(batch) : i < j => Older(batch[i], batch[j])
    /\ \A b \in ToSet(batch), q \in ToSet(queue) :
          key[q] = BatchKey => Older(b, q)

\* The head of the batch is the oldest call; without a batch, the queue's head.
HeadOldest ==
    /\ batch # <<>> => \A q \in ToSet(batch) \union ToSet(queue) :
                          ticket[batch[1]] <= ticket[q]
    /\ batch = <<>> => \A q \in ToSet(queue) : ticket[queue[1]] <= ticket[q]

\* No call has a ticket that is yet to be given.
TicketsGiven == \A r \in Pending : ticket[r] <= arrivals

\* The inductive invariant.  HeadOldest needs QueueOrder when a batch is over, and
\* QueueOrder needs Scanned and the size of the batch, to know that every item that
\* was requeued is in the batch again before the grace window.
OrderInv ==
    /\ TypeOK /\ DispatcherInv
    /\ QueueOrder /\ BatchOrder /\ HeadOldest /\ TicketsGiven

\* An empty queue is in order.
LEMMA InitOrderInv == Init => OrderInv
<1> SUFFICES ASSUME Init PROVE OrderInv
  OBVIOUS
<1>1. TypeOK /\ DispatcherInv
  BY InitTypeOK, InitDispatcherInv
<1>2. Len(queue) = 0 /\ Len(batch) = 0 /\ ToSet(queue) = {} /\ ToSet(batch) = {}
      /\ Pending = {}
  BY DEF Init, ToSet, Pending
<1> QED
  BY <1>1, <1>2 DEF Init, OrderInv, QueueOrder, BatchOrder, HeadOldest, TicketsGiven

\* The items of the queue and of the batch, by position.
LEMMA Positions ==
    ASSUME TypeOK
    PROVE  /\ Len(queue) \in Nat /\ Len(batch) \in Nat
           /\ \A i \in 1..Len(queue) : queue[i] \in Requests /\ queue[i] \in ToSet(queue)
           /\ \A i \in 1..Len(batch) : batch[i] \in Requests /\ batch[i] \in ToSet(batch)
           /\ \A q \in ToSet(queue) : \E i \in 1..Len(queue) : q = queue[i]
           /\ \A q \in ToSet(batch) : \E i \in 1..Len(batch) : q = batch[i]
           /\ \A r \in Requests : ticket[r] \in Nat
           /\ batch # <<>> => 1 \in 1..Len(batch)
           /\ queue # <<>> => 1 \in 1..Len(queue)
<1>1. queue \in Seq(Requests) /\ batch \in Seq(Requests) /\ ticket \in [Requests -> Nat]
  BY DEF TypeOK
<1>2. /\ Len(queue) \in Nat /\ DOMAIN queue = 1..Len(queue)
      /\ Len(batch) \in Nat /\ DOMAIN batch = 1..Len(batch)
  BY <1>1, LenProperties
<1>3. /\ batch # <<>> => Len(batch) \in Nat \ {0}
      /\ queue # <<>> => Len(queue) \in Nat \ {0}
  BY <1>1, EmptySeq
<1>4. /\ \A i \in 1..Len(queue) : queue[i] \in Requests
      /\ \A i \in 1..Len(batch) : batch[i] \in Requests
  BY <1>1, ElementOfSeq
<1>5. /\ ToSet(queue) = {queue[i] : i \in 1..Len(queue)}
      /\ ToSet(batch) = {batch[i] : i \in 1..Len(batch)}
  BY <1>2 DEF ToSet
<1>6. /\ batch # <<>> => 1 \in 1..Len(batch)
      /\ queue # <<>> => 1 \in 1..Len(queue)
  BY <1>3
<1>7. /\ \A i \in 1..Len(queue) : queue[i] \in ToSet(queue)
      /\ \A q \in ToSet(queue) : \E i \in 1..Len(queue) : q = queue[i]
      /\ \A i \in 1..Len(batch) : batch[i] \in ToSet(batch)
      /\ \A q \in ToSet(batch) : \E i \in 1..Len(batch) : q = batch[i]
  BY <1>5
<1> QED
  BY <1>1, <1>2, <1>4, <1>6, <1>7

-----------------------------------------------------------------------------
(* The steps that change the queue or the batch.                             *)

\* A new call is the youngest.
LEMMA EnqueueKeepsOrder ==
    ASSUME OrderInv, NEW r \in Requests, NEW k \in Keys, Enqueue(r, k)
    PROVE  QueueOrder' /\ BatchOrder' /\ HeadOldest' /\ TicketsGiven'
<1> USE DEF OrderInv
<1>1. Unmade(r) /\ dpc' = dpc /\ batch' = batch /\ queue' = Append(queue, r)
      /\ arrivals' = arrivals + 1
  BY DEF Enqueue
<1>2. r \notin ToSet(queue) /\ r \notin ToSet(batch)
  BY <1>1, UnmadeNotHeld DEF DispatcherInv
<1>3. /\ ticket'[r] = arrivals + 1 /\ key'[r] = k
      /\ \A q \in Requests : q # r => ticket'[q] = ticket[q] /\ key'[q] = key[q]
  BY DEF Enqueue, TypeOK
<1>4. arrivals \in Nat /\ queue \in Seq(Requests)
  BY DEF TypeOK
<1>5. /\ Len(queue') = Len(queue) + 1 /\ queue'[Len(queue) + 1] = r
      /\ \A i \in 1..Len(queue) : queue'[i] = queue[i]
      /\ ToSet(queue') = ToSet(queue) \union {r}
  BY <1>1, <1>4, AppendProperties, AppendItems
<1>6. \A q \in ToSet(queue) \union ToSet(batch) :
         q \in Requests /\ q # r /\ ticket[q] <= arrivals /\ ticket[q] \in Nat
  BY <1>2, Positions DEF DispatcherInv, Placement, Pending, TicketsGiven
<1>7. \A q \in ToSet(queue) \union ToSet(batch) :
         ticket'[q] = ticket[q] /\ key'[q] = key[q] /\ ticket'[q] < ticket'[r]
  BY <1>3, <1>4, <1>6
<1>8. QueueOrder'
  <2> SUFFICES ASSUME NEW i \in 1..Len(queue'), NEW j \in 1..Len(queue'), i < j
               PROVE  \/ Older(queue[i], queue[j])'
                      \/ /\ dpc' \notin {"grace", "dispatch"}
                         /\ Requeued(i)' /\ key'[queue'[j]] # key'[queue'[i]]
    BY DEF QueueOrder
  <2>1. i \in 1..Len(queue) /\ (j \in 1..Len(queue) \/ queue'[j] = r)
    BY <1>5, Positions
  <2>2. queue'[i] = queue[i] /\ queue[i] \in ToSet(queue)
    BY <1>5, <2>1, Positions
  <2>3. CASE queue'[j] = r
    BY <1>7, <2>2, <2>3 DEF Older
  <2>4. CASE j \in 1..Len(queue)
    <3>1. queue'[j] = queue[j] /\ queue[j] \in ToSet(queue)
      BY <1>5, <2>4, Positions
    <3>2. CASE Older(queue[i], queue[j])
      BY <1>7, <2>2, <3>1, <3>2 DEF Older
    <3>3. CASE /\ dpc \notin {"grace", "dispatch"}
               /\ Requeued(i) /\ key[queue[j]] # key[queue[i]]
      <4>1. \A h \in 1..i : queue'[h] = queue[h] /\ key'[queue[h]] = key[queue[h]]
        BY <1>5, <1>7, <2>1, Positions
      <4>2. key'[queue'[1]] = key[queue[1]]
        BY <2>1, <4>1
      <4>3. batch # <<>> => BatchKey' = BatchKey
        BY <1>1, <1>7, Positions DEF BatchKey
      <4>4. Requeued(i)'
        BY <1>1, <3>3, <4>1, <4>2, <4>3 DEF Requeued
      <4> QED
        BY <1>1, <1>7, <2>2, <3>1, <3>3, <4>4
    <3> QED
      BY <2>1, <2>4, <3>2, <3>3 DEF QueueOrder
  <2> QED
    BY <2>1, <2>3, <2>4
<1>9. BatchOrder'
  <2>1. ASSUME NEW b \in ToSet(batch) PROVE batch # <<>> /\ BatchKey' = BatchKey
    <3>1. batch # <<>>
      BY <2>1 DEF ToSet
    <3> QED
      BY <1>1, <1>7, <3>1, Positions DEF BatchKey
  <2>2. \A i \in 1..Len(batch), j \in 1..Len(batch) :
           i < j => ticket'[batch[i]] < ticket'[batch[j]]
    BY <1>7, Positions DEF BatchOrder, Older
  <2>3. ASSUME NEW b \in ToSet(batch), NEW q \in ToSet(queue'), key'[q] = BatchKey'
        PROVE  ticket'[b] < ticket'[q]
    <3>1. CASE q = r
      BY <1>7, <3>1
    <3>2. CASE q \in ToSet(queue)
      BY <1>7, <2>1, <2>3, <3>2 DEF BatchOrder, Older
    <3> QED
      BY <1>5, <3>1, <3>2
  <2> QED
    BY <1>1, <2>2, <2>3 DEF BatchOrder, Older
<1>10. HeadOldest'
  <2>1. batch # <<>> => \A q \in ToSet(batch') \union ToSet(queue') :
                           ticket'[batch'[1]] <= ticket'[q]
    BY <1>1, <1>3, <1>4, <1>5, <1>6, <1>7, Positions DEF HeadOldest
  <2>2. ASSUME batch = <<>>
        PROVE  \A q \in ToSet(queue') : ticket'[queue'[1]] <= ticket'[q]
    <3>1. CASE queue = <<>>
      <4>1. Len(queue) = 0 /\ ToSet(queue) = {}
        BY <3>1 DEF ToSet
      <4>2. queue'[1] = r /\ ToSet(queue') = {r}
        BY <1>5, <4>1
      <4> QED
        BY <1>3, <1>4, <4>2
    <3>2. CASE queue # <<>>
      <4>1. queue'[1] = queue[1] /\ queue[1] \in ToSet(queue)
        BY <1>5, <3>2, Positions
      <4> QED
        BY <1>3, <1>4, <1>5, <1>6, <1>7, <2>2, <4>1 DEF HeadOldest
    <3> QED
      BY <3>1, <3>2
  <2> QED
    BY <1>1, <2>1, <2>2 DEF HeadOldest
<1>11. TicketsGiven'
  <2>1. Pending' \subseteq Pending \union {r}
    BY <1>3 DEF Enqueue, Pending
  <2> QED
    BY <1>1, <1>3, <1>4, <2>1, Positions DEF TicketsGiven, Pending
<1> QED
  BY <1>8, <1>9, <1>10, <1>11

\* The head of the queue is popped: what was requeued behind it may still follow.
LEMMA PopFrontKeepsOrder ==
    ASSUME OrderInv, PopFront
    PROVE  QueueOrder' /\ BatchOrder' /\ HeadOldest'
<1> USE DEF OrderInv
<1>1. queue # <<>> /\ queue \in Seq(Requests) /\ UNCHANGED <<key, ticket>>
  BY DEF PopFront, TypeOK, callVars
<1>2. batch = <<>> /\ IsInjective(queue)
  BY DEF PopFront, DispatcherInv, BatchShape, Placement
<1>3. /\ batch' = <<queue[1]>> /\ queue' = Tail(queue)
      /\ dpc' = IF Parallel > 1 THEN "drain" ELSE "dispatch"
  BY DEF PopFront
<1>4. /\ Len(batch) = 0 /\ Len(batch') = 1 /\ batch'[1] = queue[1] /\ batch' # <<>>
      /\ ToSet(batch') = {queue[1]}
  BY <1>2, <1>3 DEF ToSet
<1>5. /\ Len(queue') = Len(queue) - 1
      /\ \A i \in 1..Len(queue') : queue'[i] = queue[i + 1]
      /\ ToSet(queue') = ToSet(queue) \ {queue[1]}
  BY <1>1, <1>2, <1>3, HeadTailProperties, TailItems
<1>6. Len(queue) \in Nat /\ 1 \in 1..Len(queue)
  BY <1>1, Positions
<1>7. ASSUME NEW j \in 1..Len(queue), j > 1, key[queue[j]] = key[queue[1]]
      PROVE  Older(queue[1], queue[j])
  BY <1>6, <1>7 DEF QueueOrder
<1>8. QueueOrder'
  <2> SUFFICES ASSUME NEW i \in 1..Len(queue'), NEW j \in 1..Len(queue'), i < j
               PROVE  \/ Older(queue[i], queue[j])'
                      \/ /\ dpc' \notin {"grace", "dispatch"}
                         /\ Requeued(i)' /\ key'[queue'[j]] # key'[queue'[i]]
    BY DEF QueueOrder
  <2>1. /\ i + 1 \in 1..Len(queue) /\ j + 1 \in 1..Len(queue) /\ i + 1 < j + 1
        /\ queue'[i] = queue[i + 1] /\ queue'[j] = queue[j + 1]
    BY <1>5, <1>6
  <2>2. CASE Older(queue[i + 1], queue[j + 1])
    BY <1>1, <2>1, <2>2 DEF Older
  <2>3. CASE Requeued(i + 1) /\ key[queue[j + 1]] # key[queue[i + 1]]
    <3>1. 1 + i <= Parallel
      BY <1>4, <1>6, <2>3 DEF Requeued
    <3>2. \A h \in 1..i : queue'[h] = queue[h + 1] /\ key[queue[h + 1]] = key[queue[1]]
      <4> SUFFICES ASSUME NEW h \in 1..i
                   PROVE  queue'[h] = queue[h + 1] /\ key[queue[h + 1]] = key[queue[1]]
        OBVIOUS
      <4>1. h \in 1..Len(queue') /\ h + 1 \in 1..(i + 1)
        BY <1>5, <1>6
      <4> QED
        BY <1>2, <1>5, <2>3, <4>1 DEF Requeued
    <3>3. BatchKey' = key[queue[1]]
      BY <1>1, <1>4 DEF BatchKey
    <3>4. Requeued(i)'
      BY <1>1, <1>4, <3>1, <3>2, <3>3 DEF Requeued
    <3>5. dpc' = "drain"
      BY <1>3, <3>1, ParallelAssumption
    <3> QED
      BY <1>1, <2>1, <2>3, <3>4, <3>5
  <2> QED
    BY <2>1, <2>2, <2>3 DEF QueueOrder
<1>9. BatchOrder'
  <2>1. ASSUME NEW q \in ToSet(queue'), key[q] = key[queue[1]]
        PROVE  Older(queue[1], q)
    <3>1. PICK j \in 1..Len(queue) : q = queue[j]
      BY <1>5, Positions
    <3>2. j # 1
      BY <1>5, <3>1
    <3> QED
      BY <1>6, <1>7, <2>1, <3>1, <3>2
  <2>2. BatchKey' = key[queue[1]]
    BY <1>1, <1>4 DEF BatchKey
  <2> QED
    BY <1>1, <1>4, <2>1, <2>2 DEF BatchOrder, Older
<1>10. HeadOldest'
  <2>1. \A q \in ToSet(queue) : ticket[queue[1]] <= ticket[q]
    BY <1>2 DEF HeadOldest
  <2>2. queue[1] \in ToSet(queue)
    BY <1>6, Positions
  <2> QED
    BY <1>1, <1>4, <1>5, <2>1, <2>2 DEF HeadOldest
<1> QED
  BY <1>8, <1>9, <1>10

\* drain_matching takes the first item of the batch's key.
LEMMA DrainItemKeepsOrder ==
    ASSUME OrderInv, DrainItem
    PROVE  QueueOrder' /\ BatchOrder' /\ HeadOldest'
<1> USE DEF OrderInv
<1> DEFINE x == queue[idx]
<1>1. /\ queue \in Seq(Requests) /\ batch \in Seq(Requests) /\ idx \in 1..Len(queue)
      /\ IsInjective(queue)
  BY DEF DrainItem, Draining, TypeOK, DispatcherInv, Placement
<1>2. /\ dpc = "drain" /\ dpc' = "drain" /\ Len(batch) < Parallel /\ key[x] = BatchKey
      /\ batch' = Append(batch, x) /\ queue' = RemoveAt(queue, idx)
      /\ UNCHANGED <<key, ticket>>
  BY DEF DrainItem, Draining, callVars
<1>3. Len(queue) \in Nat /\ Len(batch) \in Nat /\ batch # <<>> /\ 1 \in 1..Len(batch)
  BY <1>2, Positions DEF DispatcherInv, BatchShape
<1>4. x \in Requests /\ x \in ToSet(queue)
  BY <1>1, Positions
<1>5. /\ Len(queue') = Len(queue) - 1
      /\ \A i \in 1..(Len(queue) - 1) :
            queue'[i] = IF i < idx THEN queue[i] ELSE queue[i + 1]
      /\ ToSet(queue') = ToSet(queue) \ {x}
  BY <1>1, <1>2, RemoveAtProperties, RemoveAtItems
<1>6. /\ Len(batch') = Len(batch) + 1 /\ batch'[Len(batch) + 1] = x
      /\ \A i \in 1..Len(batch) : batch'[i] = batch[i]
      /\ ToSet(batch') = ToSet(batch) \union {x} /\ batch' # <<>>
  BY <1>1, <1>2, <1>4, AppendProperties, AppendItems
<1>7. batch'[1] = batch[1] /\ BatchKey' = BatchKey
  BY <1>2, <1>3, <1>6 DEF BatchKey
<1>8. \A i \in 1..(idx - 1) : key[queue[i]] # BatchKey
  BY <1>2 DEF DispatcherInv, Scanned
<1> HIDE DEF x
<1>9. ASSUME NEW i \in 1..Len(queue), Requeued(i) PROVE idx = 1
  <2>1. key[queue[1]] = BatchKey
    BY <1>3, <1>9 DEF Requeued
  <2> QED
    BY <1>1, <1>8, <2>1
<1>10. QueueOrder'
  <2> SUFFICES ASSUME NEW i \in 1..Len(queue'), NEW j \in 1..Len(queue'), i < j
               PROVE  \/ Older(queue[i], queue[j])'
                      \/ /\ dpc' \notin {"grace", "dispatch"}
                         /\ Requeued(i)' /\ key'[queue'[j]] # key'[queue'[i]]
    BY DEF QueueOrder
  <2> DEFINE p == IF i < idx THEN i ELSE i + 1
             q == IF j < idx THEN j ELSE j + 1
  <2>1. /\ p \in 1..Len(queue) /\ q \in 1..Len(queue) /\ p < q
        /\ queue'[i] = queue[p] /\ queue'[j] = queue[q]
    BY <1>1, <1>3, <1>5
  <2>2. idx = 1 => p = i + 1
    OBVIOUS
  <2> HIDE DEF p, q
  <2>3. CASE Older(queue[p], queue[q])
    BY <1>2, <2>1, <2>3 DEF Older
  <2>4. CASE Requeued(p) /\ key[queue[q]] # key[queue[p]]
    <3>1. idx = 1 /\ p = i + 1
      BY <1>9, <2>1, <2>2, <2>4
    <3>2. Len(batch') + i <= Parallel
      BY <1>3, <1>5, <1>6, <2>4, <3>1, ParallelAssumption DEF Requeued
    <3>3. \A h \in 1..i : key[queue'[h]] = BatchKey
      <4> SUFFICES ASSUME NEW h \in 1..i PROVE key[queue'[h]] = BatchKey
        OBVIOUS
      <4>1. h + 1 \in 1..p /\ h \in 1..(Len(queue) - 1) /\ ~(h < idx)
        BY <1>3, <1>5, <3>1
      <4>2. queue'[h] = queue[h + 1]
        BY <1>5, <4>1
      <4> QED
        BY <1>3, <2>4, <4>1, <4>2 DEF Requeued
    <3>4. Requeued(i)'
      BY <1>2, <1>6, <1>7, <3>2, <3>3 DEF Requeued
    <3> QED
      BY <1>2, <2>1, <2>4, <3>4
  <2> QED
    BY <2>1, <2>3, <2>4 DEF QueueOrder
<1>11. BatchOrder'
  <2>1. \A b \in ToSet(batch) : Older(b, x)
    BY <1>2, <1>4 DEF BatchOrder
  <2>2. ASSUME NEW i \in 1..Len(batch'), NEW j \in 1..Len(batch'), i < j
        PROVE  Older(batch[i], batch[j])'
    <3>1. i \in 1..Len(batch) /\ batch'[i] = batch[i] /\ batch[i] \in ToSet(batch)
      BY <1>3, <1>6, <2>2, Positions
    <3>2. CASE j \in 1..Len(batch)
      BY <1>2, <1>6, <2>2, <3>1, <3>2 DEF BatchOrder, Older
    <3>3. CASE j \notin 1..Len(batch)
      <4>1. batch'[j] = x
        BY <1>3, <1>6, <3>3
      <4> QED
        BY <1>2, <2>1, <3>1, <4>1 DEF Older
    <3> QED
      BY <3>2, <3>3
  <2>3. ASSUME NEW q \in ToSet(queue'), key[q] = BatchKey PROVE Older(x, q)
    <3>1. PICK j \in 1..Len(queue) : q = queue[j]
      BY <1>5, Positions
    <3>2. j # idx
      BY <1>5, <3>1 DEF x
    <3>3. idx < j
      BY <1>1, <1>3, <1>8, <2>3, <3>1, <3>2
    <3>4. key[queue[j]] = key[queue[idx]]
      BY <1>2, <2>3, <3>1 DEF x
    <3> QED
      BY <1>1, <3>1, <3>3, <3>4 DEF QueueOrder, x
  <2>4. \A b \in ToSet(batch), q \in ToSet(queue') : key[q] = BatchKey => Older(b, q)
    BY <1>5 DEF BatchOrder
  <2> QED
    BY <1>2, <1>6, <1>7, <2>2, <2>3, <2>4 DEF BatchOrder, Older
<1>12. HeadOldest'
  BY <1>2, <1>3, <1>4, <1>5, <1>6, <1>7 DEF HeadOldest
<1> QED
  BY <1>10, <1>11, <1>12

-----------------------------------------------------------------------------
(* The steps that leave queue, batch and tickets alone.                      *)

\* The order only becomes stricter where a drain ends: not in any of these steps.
LEMMA WaitKeepsOrder ==
    ASSUME OrderInv, UNCHANGED <<queue, batch, key, ticket>>,
           dpc' \in {"grace", "dispatch"} => dpc \in {"grace", "dispatch"}
    PROVE  QueueOrder' /\ BatchOrder' /\ HeadOldest'
BY DEF OrderInv, QueueOrder, BatchOrder, HeadOldest, Requeued, Older, BatchKey

\* The scan is over: nothing that was requeued is left in the queue.
LEMMA DrainDoneKeepsOrder ==
    ASSUME OrderInv, DrainDone
    PROVE  QueueOrder' /\ BatchOrder' /\ HeadOldest'
<1> USE DEF OrderInv
<1>1. UNCHANGED <<queue, batch, key, ticket>> /\ dpc = "drain"
  BY DEF DrainDone, callVars
<1>2. /\ Len(queue) \in Nat /\ Len(batch) \in Nat /\ batch # <<>>
      /\ idx \in 1..(Len(queue) + 1)
  BY <1>1, Positions DEF DispatcherInv, BatchShape, TypeOK
<1>3. ASSUME NEW i \in 1..Len(queue) PROVE ~Requeued(i)
  <2>1. CASE Len(batch) < Parallel
    <3>1. idx = Len(queue) + 1
      BY <1>1, <1>2, <2>1 DEF DrainDone, Draining
    <3>2. 1 \in 1..(idx - 1) /\ 1 \in 1..i
      BY <1>2, <3>1
    <3> QED
      BY <1>1, <1>2, <3>2 DEF DispatcherInv, Scanned, Requeued
  <2>2. CASE ~(Len(batch) < Parallel)
    BY <1>2, <2>2, ParallelAssumption DEF Requeued
  <2> QED
    BY <2>1, <2>2
<1>4. QueueOrder'
  BY <1>1, <1>3 DEF QueueOrder, Older
<1> QED
  BY <1>1, <1>4 DEF BatchOrder, HeadOldest, Older, BatchKey

-----------------------------------------------------------------------------
(* The end of a batch.                                                       *)

\* When a batch is dispatched the queue is in order, so that the next head is the
\* oldest of what is left.
LEMMA AnswerKeepsOrder ==
    ASSUME OrderInv, NEW Allowed \in SUBSET Results, AnswerBatch(Allowed)
    PROVE  QueueOrder' /\ BatchOrder' /\ HeadOldest' /\ TicketsGiven'
<1> USE DEF OrderInv
<1>1. /\ UNCHANGED <<queue, key, ticket, arrivals>> /\ batch' = <<>>
      /\ dpc = "dispatch"
  BY DEF AnswerBatch
<1>2. Len(batch') = 0 /\ ToSet(batch') = {}
  BY <1>1 DEF ToSet
<1>3. \A i \in 1..Len(queue), j \in 1..Len(queue) : i < j => Older(queue[i], queue[j])
  BY <1>1 DEF QueueOrder
<1>4. QueueOrder' /\ BatchOrder'
  BY <1>1, <1>2, <1>3 DEF QueueOrder, BatchOrder, Older
<1>5. HeadOldest'
  <2> SUFFICES ASSUME NEW q \in ToSet(queue)
               PROVE  ticket[queue[1]] <= ticket[q]
    BY <1>1 DEF HeadOldest
  <2>1. PICK j \in 1..Len(queue) : q = queue[j]
    BY Positions
  <2>2. Len(queue) \in Nat /\ 1 \in 1..Len(queue) /\ (j = 1 \/ 1 < j)
    BY <2>1, Positions
  <2>3. ticket[queue[1]] \in Nat /\ ticket[queue[j]] \in Nat
    BY <2>1, <2>2, Positions
  <2> QED
    BY <1>3, <2>1, <2>2, <2>3 DEF Older
<1>6. Pending' = Pending \ ToSet(batch)
  <2>1. Placement /\ Placement' /\ ToSet(queue') = ToSet(queue)
    BY <1>1, AnswerKeepsInv DEF DispatcherInv
  <2> QED
    BY <1>2, <2>1 DEF Placement
<1>7. TicketsGiven'
  BY <1>1, <1>6 DEF TicketsGiven
<1> QED
  BY <1>4, <1>5, <1>7

\* requeue_front: the batch is again before everything, as a run of one key.
LEMMA RequeueKeepsOrder ==
    ASSUME OrderInv, RequeueFront
    PROVE  QueueOrder' /\ BatchOrder' /\ HeadOldest'
<1> USE DEF OrderInv
<1>1. /\ UNCHANGED <<key, ticket>> /\ batch' = <<>> /\ queue' = batch \o queue
      /\ dpc = "dispatch" /\ dpc' = "take"
  BY DEF RequeueFront, callVars
<1>2. /\ Len(batch) \in Nat /\ Len(queue) \in Nat /\ Len(batch) <= Parallel
      /\ batch # <<>> /\ 1 \in 1..Len(batch)
      /\ queue \in Seq(Requests) /\ batch \in Seq(Requests)
  BY <1>1, Positions DEF TypeOK, DispatcherInv, BatchShape
<1>3. /\ Len(queue') = Len(batch) + Len(queue)
      /\ \A i \in 1..(Len(batch) + Len(queue)) :
            queue'[i] = IF i <= Len(batch) THEN batch[i] ELSE queue[i - Len(batch)]
  BY <1>1, <1>2, ConcatProperties
<1>4. ToSet(queue') = ToSet(batch) \union ToSet(queue)
  BY <1>1, <1>2, ConcatItems
<1>5. Len(batch') = 0 /\ ToSet(batch') = {}
  BY <1>1 DEF ToSet
<1>6. \A i \in 1..Len(batch) : /\ queue'[i] = batch[i] /\ batch[i] \in ToSet(batch)
                               /\ key[batch[i]] = BatchKey
  BY <1>2, <1>3, Positions DEF DispatcherInv, BatchShape
<1>7. queue'[1] = batch[1]
  BY <1>2, <1>6
<1>8. QueueOrder'
  <2> SUFFICES ASSUME NEW i \in 1..Len(queue'), NEW j \in 1..Len(queue'), i < j
               PROVE  \/ Older(queue[i], queue[j])'
                      \/ /\ dpc' \notin {"grace", "dispatch"}
                         /\ Requeued(i)' /\ key'[queue'[j]] # key'[queue'[i]]
    BY DEF QueueOrder
  <2>1. CASE i \in 1..Len(batch) /\ j \in 1..Len(batch)
    BY <1>1, <1>6, <2>1 DEF BatchOrder, Older
  <2>2. CASE i \in 1..Len(batch) /\ j \notin 1..Len(batch)
    <3>1. j - Len(batch) \in 1..Len(queue) /\ queue'[j] = queue[j - Len(batch)]
      BY <1>2, <1>3, <2>2
    <3>2. queue'[j] \in ToSet(queue)
      BY <3>1, Positions
    <3>3. CASE key[queue'[j]] = BatchKey
      BY <1>1, <1>6, <2>2, <3>2, <3>3 DEF BatchOrder, Older
    <3>4. CASE key[queue'[j]] # BatchKey
      <4>1. 0 + i <= Parallel
        BY <1>2, <2>2, ParallelAssumption
      <4>2. \A h \in 1..i : key[queue'[h]] = key[queue'[1]]
        BY <1>2, <1>6, <1>7, <2>2
      <4>3. Requeued(i)'
        BY <1>1, <1>5, <4>1, <4>2 DEF Requeued
      <4> QED
        BY <1>1, <1>6, <2>2, <3>4, <4>3
    <3> QED
      BY <3>3, <3>4
  <2>3. CASE i \notin 1..Len(batch)
    <3>1. /\ i - Len(batch) \in 1..Len(queue) /\ j - Len(batch) \in 1..Len(queue)
          /\ i - Len(batch) < j - Len(batch)
          /\ queue'[i] = queue[i - Len(batch)] /\ queue'[j] = queue[j - Len(batch)]
      BY <1>2, <1>3, <2>3
    <3>2. Older(queue[i - Len(batch)], queue[j - Len(batch)])
      BY <1>1, <3>1 DEF QueueOrder
    <3> QED
      BY <1>1, <3>1, <3>2 DEF Older
  <2> QED
    BY <2>1, <2>2, <2>3
<1>9. BatchOrder'
  BY <1>1, <1>5 DEF BatchOrder
<1>10. HeadOldest'
  BY <1>1, <1>2, <1>4, <1>7 DEF HeadOldest
<1> QED
  BY <1>8, <1>9, <1>10

-----------------------------------------------------------------------------

\* Every step keeps the order.
LEMMA NextOrderInv == OrderInv /\ [Next]_vars => OrderInv'
<1> SUFFICES ASSUME OrderInv, [Next]_vars
             PROVE  QueueOrder' /\ BatchOrder' /\ HeadOldest' /\ TicketsGiven'
  BY NextTypeOK, NextDispatcherInv DEF OrderInv
<1>1. ASSUME UNCHANGED <<key, ticket, arrivals, answer>> PROVE TicketsGiven'
  BY <1>1 DEF OrderInv, TicketsGiven, Pending
<1>2. CASE \E r \in Requests, k \in Keys : Enqueue(r, k)
  BY <1>2, EnqueueKeepsOrder
<1>3. CASE PopFront
  BY <1>1, <1>3, PopFrontKeepsOrder DEF PopFront, callVars
<1>4. CASE DrainItem
  BY <1>1, <1>4, DrainItemKeepsOrder DEF DrainItem, callVars
<1>5. CASE DrainDone
  BY <1>1, <1>5, DrainDoneKeepsOrder DEF DrainDone, callVars
<1>6. CASE RequeueFront
  BY <1>1, <1>6, RequeueKeepsOrder DEF RequeueFront, callVars
<1>7. CASE SpawnFailed \/ WriteRejected \/ WorkerLost \/ Misread \/ Respond
  BY <1>7, OutcomesAnswer, AnswerKeepsOrder
<1>8. CASE \/ \E r \in Requests : NotifyOne(r)
           \/ FindEmpty \/ Park \/ Wake \/ DrainSkip \/ GraceNotified \/ GraceOver
           \/ UNCHANGED vars
  <2>1. /\ UNCHANGED <<queue, batch, key, ticket, arrivals, answer>>
        /\ dpc' \in {"grace", "dispatch"} => dpc \in {"grace", "dispatch"}
    BY <1>8 DEF NotifyOne, FindEmpty, Park, Wake, DrainSkip, Draining, GraceNotified,
                GraceOver, vars, callVars
  <2> QED
    BY <1>1, <2>1, WaitKeepsOrder
<1> QED
  BY <1>2, <1>3, <1>4, <1>5, <1>6, <1>7, <1>8
     DEF Next, Connection, Dispatcher, Dispatch, Quiescent

\* The order holds in every state.
LEMMA OrderInvariance == Spec => []OrderInv
<1> QED
  BY InitOrderInv, NextOrderInv, PTL DEF Spec

-----------------------------------------------------------------------------
(* The implementation of TtsService.                                         *)

\* A batch may be served: it holds the oldest call, one key, at most --parallel
\* calls, and no call of its key is older and left behind.
LEMMA BatchServable ==
    ASSUME OrderInv, dpc = "dispatch"
    PROVE  Service!Servable(ToSet(batch))
<1> USE DEF OrderInv
<1>1. batch # <<>> /\ 1 \in 1..Len(batch) /\ Len(batch) \in Nat
      /\ batch \in Seq(Requests) /\ Len(batch) <= Parallel /\ IsInjective(batch)
  BY Positions DEF TypeOK, DispatcherInv, BatchShape, Placement
<1>2. Service!Cardinality(ToSet(batch)) \in 1..Parallel
  <2>1. Cardinality(ToSet(batch)) \in 1..Parallel
    BY <1>1, ItemsCounted, ParallelAssumption
  <2> QED
    BY <2>1 DEF Cardinality, Service!Cardinality
<1>3. Pending = ToSet(queue) \union ToSet(batch)
      /\ Service!Pending = Pending
  BY DEF DispatcherInv, Placement, Service!Pending, Pending
<1>4. batch[1] \in ToSet(batch)
  BY <1>1, Positions
<1>5. batch[1] \in Service!Oldest(Service!Pending)
  BY <1>1, <1>3, <1>4 DEF HeadOldest, Service!Oldest
<1>6. \A r \in ToSet(batch) : key[r] = BatchKey
  BY DEF DispatcherInv, BatchShape
<1>7. \A r \in ToSet(batch), q \in Pending \ ToSet(batch) :
         key[q] = key[r] => ticket[r] < ticket[q]
  BY <1>3, <1>6 DEF BatchOrder, Older
<1>8. \A r \in ToSet(batch), q \in ToSet(batch) : key[r] = key[q]
  BY <1>6
<1>9. \E r \in ToSet(batch) : r \in Service!Oldest(Service!Pending)
  BY <1>4, <1>5
<1>10. \A r \in ToSet(batch), q \in Service!Pending \ ToSet(batch) :
          key[q] = key[r] => ticket[r] < ticket[q]
  BY <1>3, <1>7
<1> QED
  BY <1>2, <1>8, <1>9, <1>10 DEF Service!Servable

\* An answer to the batch is a step of TtsService: it holds the oldest call, and
\* overtakes none of its key.
LEMMA AnswerServes ==
    ASSUME OrderInv, NEW Allowed \in SUBSET Results, AnswerBatch(Allowed)
    PROVE  Service!Next
<1>1. PICK result \in [ToSet(batch) -> Allowed] :
          answer' = [r \in Requests |->
                        IF r \in ToSet(batch) THEN result[r] ELSE answer[r]]
  BY DEF AnswerBatch
<1>2. result \in [ToSet(batch) -> Service!Results]
  BY <1>1 DEF Results, Service!Results
<1>3. Service!Servable(ToSet(batch))
  BY BatchServable DEF AnswerBatch
<1>4. Service!Answer(ToSet(batch))
  BY <1>1, <1>2, <1>3 DEF Service!Answer, AnswerBatch
<1>5. ToSet(batch) \in SUBSET Service!Pending
  BY DEF OrderInv, DispatcherInv, Placement, Pending, Service!Pending
<1> QED
  BY <1>4, <1>5 DEF Service!Next

\* The dispatcher implements the service its callers are promised: every batch
\* serves the oldest call that waits, is of one key and at most --parallel, and
\* never overtakes a call of its key; and this whatever the notifications, the
\* grace window and the batches put back after a crash.
THEOREM ServiceImplemented == Spec => ServesInOrder
<1>1. Init => Service!Init
  BY DEF Init, Service!Init
<1>2. OrderInv /\ [Next]_vars => [Service!Next]_(Service!vars)
  <2> SUFFICES ASSUME OrderInv, [Next]_vars, ~(UNCHANGED Service!vars)
               PROVE  Service!Next
    OBVIOUS
  <2>1. ~(UNCHANGED callVars)
    BY DEF Service!vars, callVars
  <2>2. ASSUME NEW r \in Requests, NEW k \in Keys, Enqueue(r, k)
        PROVE  Service!Next
    <3>1. Service!Accept(r, k)
      BY <2>2 DEF Enqueue, Unmade, Service!Accept, Service!Unmade
    <3> QED
      BY <3>1 DEF Service!Next
  <2>3. CASE SpawnFailed \/ WriteRejected \/ WorkerLost \/ Misread \/ Respond
    BY <2>3, OutcomesAnswer, AnswerServes
  <2>4. \/ \E r \in Requests, k \in Keys : Enqueue(r, k)
        \/ SpawnFailed \/ WriteRejected \/ WorkerLost \/ Misread \/ Respond
    BY <2>1 DEF Next, Connection, Dispatcher, Dispatch, Quiescent, vars, NotifyOne,
                PopFront, FindEmpty, Park, Wake, DrainItem, DrainSkip, DrainDone,
                GraceNotified, GraceOver, RequeueFront
  <2> QED
    BY <2>2, <2>3, <2>4
<1> QED
  BY <1>1, <1>2, OrderInvariance, PTL DEF Spec, ServesInOrder, Service!Spec

=============================================================================
