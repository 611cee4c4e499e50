----------------------- MODULE BatchDispatcherProofs -----------------------
(* Proofs about BatchDispatcher for every set of calls and keys, every       *)
(* --parallel, MAX_BATCH and bound on losses.                                *)
EXTENDS BatchDispatcher, SequenceItems, TLAPS

-----------------------------------------------------------------------------
(* Type correctness.                                                         *)

\* The first state is of the types.
LEMMA InitTypeOK == Init => TypeOK
<1> SUFFICES ASSUME Init PROVE TypeOK
  OBVIOUS
<1>1. /\ queue \in Seq(Requests) /\ Len(queue) = 0
      /\ batch \in Seq(Requests) /\ Len(batch) = 0
  BY DEF Init
<1>2. idx \in 1..(Len(queue) + 1) /\ Len(batch) <= Parallel
  BY <1>1, ParallelAssumption DEF Init
<1>3. answer \in [Requests -> Answers] /\ key \in [Requests -> Keys \union {NoKey}]
  BY DEF Init, Answers
<1>4. losses \in 0..MaxLosses
  BY BoundAssumption DEF Init
<1> QED
  BY <1>1, <1>2, <1>3, <1>4 DEF Init, TypeOK

\* AnswerBatch only writes results into the answers of the calls.
LEMMA AnswerBatchTypes ==
    ASSUME TypeOK, NEW Allowed, Allowed \subseteq Results, AnswerBatch(Allowed)
    PROVE  answer' \in [Requests -> Answers]
<1>1. PICK result \in [ToSet(batch) -> Allowed] :
          answer' = [r \in Requests |->
                        IF r \in ToSet(batch) THEN result[r] ELSE answer[r]]
  BY DEF AnswerBatch
<1>2. \A r \in ToSet(batch) : result[r] \in Answers
  BY <1>1 DEF Answers
<1> QED
  BY <1>1, <1>2 DEF TypeOK

\* Every step keeps the types, the cursor and the size of the batch included.
LEMMA NextTypeOK == TypeOK /\ [Next]_vars => TypeOK'
<1> SUFFICES ASSUME TypeOK, [Next]_vars PROVE TypeOK'
  OBVIOUS
<1> USE DEF TypeOK
<1> Len(queue) \in Nat /\ Len(batch) \in Nat
  BY LenProperties
<1>2. CASE \E r \in Requests, k \in Keys : Enqueue(r, k)
  <2>1. PICK r \in Requests, k \in Keys : Enqueue(r, k)
    BY <1>2
  <2>2. queue' \in Seq(Requests) /\ Len(queue') = Len(queue) + 1
    BY <2>1, AppendProperties DEF Enqueue
  <2> QED
    BY <2>1, <2>2 DEF Enqueue
<1>3. CASE \E r \in Requests : NotifyOne(r)
  BY <1>3 DEF NotifyOne, callVars
<1>4. CASE PopFront
  <2>1. /\ Head(queue) \in Requests
        /\ Tail(queue) \in Seq(Requests)
        /\ Len(Tail(queue)) \in Nat
    BY <1>4, HeadTailProperties DEF PopFront
  <2>2. batch' \in Seq(Requests) /\ Len(batch') = 1
    BY <1>4, <2>1 DEF PopFront
  <2> QED
    BY <1>4, <2>1, <2>2, ParallelAssumption DEF PopFront, callVars
<1>5. CASE FindEmpty \/ Park
  BY <1>5 DEF FindEmpty, Park, callVars
<1>6. CASE Wake
  BY <1>6 DEF Wake, callVars
<1>7. CASE DrainItem
  <2>1. idx \in 1..Len(queue) /\ Len(batch) < Parallel
    BY <1>7 DEF DrainItem, Draining
  <2>2. queue' \in Seq(Requests) /\ Len(queue') = Len(queue) - 1
    BY <1>7, <2>1, RemoveAtProperties DEF DrainItem
  <2>3. queue[idx] \in Requests
    BY <2>1, ElementOfSeq
  <2>4. batch' \in Seq(Requests) /\ Len(batch') = Len(batch) + 1
    BY <1>7, <2>3, AppendProperties DEF DrainItem
  <2> QED
    BY <1>7, <2>1, <2>2, <2>4, ParallelAssumption DEF DrainItem, callVars
<1>8. CASE DrainSkip
  BY <1>8 DEF DrainSkip, Draining, callVars
<1>9. CASE DrainDone
  BY <1>9 DEF DrainDone, callVars
<1>10. CASE GraceNotified
  <2>1. idx' \in 1..(Len(queue) + 1)
    BY <1>10 DEF GraceNotified
  <2> QED
    BY <1>10, <2>1 DEF GraceNotified, callVars
<1>11. CASE GraceOver
  BY <1>11 DEF GraceOver, callVars
<1>12. CASE RequeueFront
  <2>1. queue' \in Seq(Requests) /\ Len(queue') = Len(batch) + Len(queue)
    BY <1>12, ConcatProperties DEF RequeueFront
  <2>2. losses' \in 0..MaxLosses
    BY <1>12, BoundAssumption DEF RequeueFront
  <2>3. batch' \in Seq(Requests) /\ Len(batch') <= Parallel
    BY <1>12, ParallelAssumption DEF RequeueFront
  <2> QED
    BY <1>12, <2>1, <2>2, <2>3 DEF RequeueFront, callVars
<1>13. CASE \E Allowed \in SUBSET Results :
               AnswerBatch(Allowed) /\ losses' \in 0..MaxLosses
  <2>1. answer' \in [Requests -> Answers]
    BY <1>13, AnswerBatchTypes
  <2>2. batch' \in Seq(Requests) /\ Len(batch') <= Parallel
    BY <1>13, ParallelAssumption DEF AnswerBatch
  <2> QED
    BY <1>13, <2>1, <2>2 DEF AnswerBatch
<1>14. CASE SpawnFailed \/ WriteRejected \/ WorkerLost \/ Misread \/ Respond
  <2>1. SpawnFailed => AnswerBatch({"model_missing"}) /\ losses' = losses
    BY DEF SpawnFailed
  <2>2. WriteRejected => AnswerBatch({"pipe_error"}) /\ losses' = losses
    BY DEF WriteRejected
  <2>3. WorkerLost => AnswerBatch({"pipe_error"}) /\ losses' \in 0..MaxLosses
    BY BoundAssumption DEF WorkerLost
  <2>4. Respond => AnswerBatch(WorkerResults) /\ losses' = losses
    BY DEF Respond
  <2>5. Misread => AnswerBatch({"garbled"}) /\ losses' = losses
    BY DEF Misread
  <2>6. {"model_missing"} \in SUBSET Results /\ {"pipe_error"} \in SUBSET Results
        /\ {"garbled"} \in SUBSET Results /\ WorkerResults \in SUBSET Results
    BY DEF Results, WorkerResults
  <2> QED
    BY <1>13, <1>14, <2>1, <2>2, <2>3, <2>4, <2>5, <2>6
<1>15. CASE UNCHANGED vars
  BY <1>15 DEF vars, callVars
<1> QED
  BY <1>2, <1>3, <1>4, <1>5, <1>6, <1>7, <1>8, <1>9, <1>10, <1>11, <1>12, <1>14,
     <1>15
     DEF Next, Connection, Dispatcher, Dispatch, Quiescent

\* The dispatcher never leaves its types: in particular the cursor of
\* drain_matching stays within the queue it shrinks, and no batch exceeds
\* --parallel, whatever the number of calls.
THEOREM TypeCorrect == Spec => []TypeOK
<1> QED
  BY InitTypeOK, NextTypeOK, PTL DEF Spec

-----------------------------------------------------------------------------
(* Placement, batch shape and wakeups.                                       *)

\* drain_matching has left behind, up to its cursor, no item of the batch's key.
Scanned ==
    dpc = "drain" => \A i \in 1..(idx - 1) : key[queue[i]] # BatchKey

\* The inductive invariant.  NoLostWakeup needs Scanned, to know that a drain
\* which leads to the grace window left no item of the key unseen; it needs
\* Placement, to know that accepting a call changes no key of an item held; and
\* Placement needs BatchShape, to know that a head is popped into an empty batch.
DispatcherInv == Placement /\ BatchShape /\ Scanned /\ NoLostWakeup

\* The dispatcher starts with nothing queued and no permit stored.
LEMMA InitDispatcherInv == Init => DispatcherInv
<1> SUFFICES ASSUME Init PROVE DispatcherInv
  OBVIOUS
<1>1. ToSet(queue) = {} /\ IsInjective(queue) /\ ToSet(batch) = {} /\ IsInjective(batch)
  BY DEF Init, ToSet, IsInjective
<1>2. Pending = {}
  BY DEF Init, Pending
<1> QED
  BY <1>1, <1>2
     DEF Init, DispatcherInv, Placement, BatchShape, Scanned, NoLostWakeup

\* A call that has not been made is held nowhere.
LEMMA UnmadeNotHeld ==
    ASSUME Placement, NEW r \in Requests, Unmade(r)
    PROVE  r \notin ToSet(queue) /\ r \notin ToSet(batch)
BY DEF Placement, Pending, Unmade

\* The key of the batch is the key of its first item, which the batch holds.
LEMMA BatchHead ==
    ASSUME TypeOK, batch # <<>>
    PROVE  Len(batch) \in Nat \ {0} /\ batch[1] \in ToSet(batch)
<1>1. batch \in Seq(Requests)
  BY DEF TypeOK
<1>2. Len(batch) \in Nat /\ Len(batch) # 0 /\ DOMAIN batch = 1..Len(batch)
  BY <1>1, LenProperties, EmptySeq
<1> QED
  BY <1>2 DEF ToSet

\* generate, before it waits for its answer.
LEMMA EnqueueKeepsInv ==
    ASSUME TypeOK, DispatcherInv, NEW r \in Requests, NEW k \in Keys, Enqueue(r, k)
    PROVE  DispatcherInv'
<1> USE DEF DispatcherInv
<1>1. Unmade(r) /\ dpc # "drain" /\ dpc' = dpc /\ batch' = batch
  BY DEF Enqueue
<1>2. r \notin ToSet(queue) /\ r \notin ToSet(batch)
  BY <1>1, UnmadeNotHeld
<1>3. ToSet(queue') = ToSet(queue) \union {r} /\ IsInjective(queue')
  BY <1>2, AppendItems DEF Enqueue, TypeOK, Placement
<1>4. Pending' = Pending \union {r}
  BY KeysAssumption DEF Enqueue, Unmade, Pending, TypeOK
<1>5. \A q \in Requests : q # r => key'[q] = key[q]
  BY DEF Enqueue, TypeOK
<1>6. ToSet(batch) \subseteq Requests /\ ToSet(queue) \subseteq Requests
  BY DEF Placement, Pending
<1>7. batch # <<>> => BatchKey' = BatchKey
  BY <1>1, <1>2, <1>5, <1>6, BatchHead DEF BatchKey
<1>8. Placement'
  BY <1>1, <1>2, <1>3, <1>4 DEF Placement
<1>9. BatchShape'
  <2>1. batch = <<>> => ToSet(batch) = {}
    BY DEF ToSet
  <2> QED
    BY <1>1, <1>2, <1>5, <1>6, <1>7, <2>1 DEF BatchShape
<1>10. Scanned'
  BY <1>1 DEF Scanned
<1>11. NoLostWakeup'
  <2>1. permit' = permit /\ notifying' = notifying \union {r}
    BY DEF Enqueue
  <2>2. dpc = "grace" => batch # <<>>
    BY DEF BatchShape
  <2> QED
    BY <1>1, <1>3, <1>5, <1>6, <1>7, <2>1, <2>2 DEF NoLostWakeup
<1> QED
  BY <1>8, <1>9, <1>10, <1>11

\* notify_one: its call is either seen, or the permit tells of it.
LEMMA NotifyKeepsInv ==
    ASSUME TypeOK, DispatcherInv, NEW r \in Requests, NotifyOne(r)
    PROVE  DispatcherInv'
BY DEF NotifyOne, callVars, DispatcherInv, Placement, Pending, BatchShape, Scanned,
       NoLostWakeup, BatchKey

\* The dispatcher, between its head and the end of the grace window.
LEMMA PopFrontKeepsInv ==
    ASSUME TypeOK, DispatcherInv, PopFront
    PROVE  DispatcherInv'
<1> USE DEF DispatcherInv
<1>1. queue # <<>> /\ queue \in Seq(Requests) /\ IsInjective(queue)
  BY DEF PopFront, TypeOK, Placement
<1>2. /\ ToSet(queue') = ToSet(queue) \ {Head(queue)} /\ IsInjective(queue')
      /\ Head(queue) \in ToSet(queue)
  BY <1>1, TailItems DEF PopFront
<1>3. batch = <<>>
  BY DEF PopFront, BatchShape
<1>4. ToSet(batch) = {}
  BY <1>3 DEF ToSet
<1>5. ToSet(batch') = {Head(queue)} /\ IsInjective(batch') /\ batch'[1] = Head(queue)
      /\ batch' # <<>>
  BY DEF PopFront, ToSet, IsInjective
<1>6. Pending' = Pending /\ key' = key
  BY DEF PopFront, callVars, Pending
<1>7. Placement'
  BY <1>2, <1>4, <1>5, <1>6 DEF Placement
<1>8. BatchShape'
  BY <1>5, <1>6 DEF BatchShape, PopFront, BatchKey
<1>9. Scanned' /\ NoLostWakeup'
  BY DEF Scanned, NoLostWakeup, PopFront
<1> QED
  BY <1>7, <1>8, <1>9

\* Parking, waking up and the grace window.
LEMMA WaitKeepsInv ==
    ASSUME TypeOK, DispatcherInv, FindEmpty \/ Park \/ Wake \/ GraceNotified \/ GraceOver
    PROVE  DispatcherInv'
<1> USE DEF DispatcherInv
<1>1. queue' = queue /\ batch' = batch /\ key' = key /\ answer' = answer
      /\ notifying' = notifying
  BY DEF FindEmpty, Park, Wake, GraceNotified, GraceOver, callVars
<1>2. Placement'
  BY <1>1 DEF Placement, Pending
<1>3. BatchShape'
  BY <1>1 DEF BatchShape, BatchKey, FindEmpty, Park, Wake, GraceNotified, GraceOver
<1>4. NoLostWakeup'
  <2>1. queue = <<>> => ToSet(queue) = {}
    BY DEF ToSet
  <2> QED
    BY <1>1, <2>1
       DEF NoLostWakeup, BatchKey, FindEmpty, Park, Wake, GraceNotified, GraceOver
<1>5. Scanned'
  BY DEF Scanned, FindEmpty, Park, Wake, GraceNotified, GraceOver
<1> QED
  BY <1>2, <1>3, <1>4, <1>5

\* drain_matching: one item moved, one passed over, the scan over.
LEMMA DrainItemKeepsInv ==
    ASSUME TypeOK, DispatcherInv, DrainItem
    PROVE  DispatcherInv'
<1> USE DEF DispatcherInv
<1>1. /\ queue \in Seq(Requests) /\ batch \in Seq(Requests)
      /\ idx \in 1..Len(queue) /\ queue[idx] \in Requests
  <2>1. queue \in Seq(Requests) /\ batch \in Seq(Requests) /\ idx \in 1..Len(queue)
    BY DEF DrainItem, Draining, TypeOK
  <2> QED
    BY <2>1, ElementOfSeq
<1>2. /\ ToSet(queue') = ToSet(queue) \ {queue[idx]} /\ IsInjective(queue')
      /\ queue[idx] \in ToSet(queue)
  BY <1>1, RemoveAtItems DEF DrainItem, Placement
<1>3. ToSet(batch') = ToSet(batch) \union {queue[idx]} /\ IsInjective(batch')
  BY <1>1, <1>2, AppendItems DEF DrainItem, Placement
<1>4. key' = key /\ answer' = answer /\ dpc = "drain" /\ dpc' = dpc /\ idx' = idx
      /\ permit' = permit /\ notifying' = notifying
  BY DEF DrainItem, Draining, callVars
<1>5. Len(batch) \in Nat \ {0} /\ batch # <<>>
  BY <1>4, BatchHead DEF BatchShape
<1>6. batch'[1] = batch[1] /\ batch' # <<>>
  <2>1. /\ Len(batch') = Len(batch) + 1
        /\ \A j \in 1..Len(batch) : batch'[j] = batch[j]
    BY <1>1, AppendProperties DEF DrainItem
  <2>2. batch'[1] = batch[1] /\ Len(batch') # 0
    BY <1>5, <2>1
  <2> QED
    BY <2>2
<1>7. Placement'
  BY <1>2, <1>3, <1>4 DEF Placement, Pending
<1>8. BatchShape'
  BY <1>3, <1>4, <1>6 DEF BatchShape, BatchKey, DrainItem
<1>9. Scanned'
  <2>1. \A j \in 1..(idx - 1) : queue'[j] = queue[j]
    <3>1. \A j \in 1..(Len(queue) - 1) :
             queue'[j] = IF j < idx THEN queue[j] ELSE queue[j + 1]
      BY <1>1, RemoveAtProperties DEF DrainItem
    <3>2. \A j \in 1..(idx - 1) : j \in 1..(Len(queue) - 1) /\ j < idx
      BY <1>1, LenProperties
    <3> QED
      BY <3>1, <3>2
  <2> QED
    BY <1>4, <1>6, <2>1 DEF Scanned, BatchKey
<1>10. NoLostWakeup'
  BY <1>4 DEF NoLostWakeup
<1> QED
  BY <1>7, <1>8, <1>9, <1>10

\* A call of another key stays in the queue, before the cursor.
LEMMA DrainSkipKeepsInv ==
    ASSUME TypeOK, DispatcherInv, DrainSkip
    PROVE  DispatcherInv'
<1> USE DEF DispatcherInv
<1>1. /\ queue' = queue /\ batch' = batch /\ key' = key /\ answer' = answer
      /\ dpc = "drain" /\ dpc' = dpc /\ idx' = idx + 1
      /\ permit' = permit /\ notifying' = notifying
  BY DEF DrainSkip, Draining, callVars
<1>2. Placement' /\ BatchShape' /\ NoLostWakeup'
  BY <1>1 DEF Placement, Pending, BatchShape, BatchKey, NoLostWakeup
<1>3. Scanned'
  <2>1. idx \in Nat /\ key[queue[idx]] # BatchKey
    BY DEF DrainSkip, TypeOK
  <2>2. \A i \in 1..idx : i \in 1..(idx - 1) \/ i = idx
    BY <2>1
  <2>3. idx' - 1 = idx
    BY <1>1, <2>1
  <2> QED
    BY <1>1, <2>1, <2>2, <2>3 DEF Scanned, BatchKey
<1> QED
  BY <1>2, <1>3

\* A drain that ends with room in the batch left nothing of its key.
LEMMA DrainDoneKeepsInv ==
    ASSUME TypeOK, DispatcherInv, DrainDone
    PROVE  DispatcherInv'
<1> USE DEF DispatcherInv
<1>1. /\ queue' = queue /\ batch' = batch /\ key' = key /\ answer' = answer
      /\ dpc = "drain" /\ dpc' \in {"grace", "dispatch"}
      /\ permit' = permit /\ notifying' = notifying
  BY DEF DrainDone, callVars
<1>2. Placement' /\ BatchShape' /\ Scanned'
  BY <1>1 DEF Placement, Pending, BatchShape, BatchKey, Scanned
<1>3. dpc' = "grace" => \A q \in ToSet(queue) : key[q] # BatchKey
  <2> SUFFICES ASSUME dpc' = "grace", NEW q \in ToSet(queue)
               PROVE  key[q] # BatchKey
    OBVIOUS
  <2>1. ~(idx <= Len(queue)) /\ idx \in 1..(Len(queue) + 1) /\ Len(queue) \in Nat
    BY DEF DrainDone, Draining, TypeOK
  <2>2. PICK i \in DOMAIN queue : q = queue[i]
    BY DEF ToSet
  <2>3. DOMAIN queue = 1..Len(queue)
    BY DEF TypeOK
  <2>4. i \in 1..(idx - 1)
    BY <2>1, <2>2, <2>3
  <2> QED
    BY <1>1, <2>2, <2>4 DEF Scanned
<1>4. NoLostWakeup'
  BY <1>1, <1>3 DEF NoLostWakeup, BatchKey
<1> QED
  BY <1>2, <1>4

\* dispatch_batch: the batch goes back to the queue, or every item is answered.
LEMMA RequeueKeepsInv ==
    ASSUME TypeOK, DispatcherInv, RequeueFront
    PROVE  DispatcherInv'
<1> USE DEF DispatcherInv
<1>1. ToSet(queue') = ToSet(batch) \union ToSet(queue) /\ IsInjective(queue')
  BY ConcatItems DEF RequeueFront, TypeOK, Placement
<1>2. ToSet(batch') = {} /\ IsInjective(batch') /\ batch' = <<>> /\ dpc' = "take"
  BY DEF RequeueFront, ToSet, IsInjective
<1>3. Pending' = Pending
  BY DEF RequeueFront, callVars, Pending
<1>4. Placement'
  BY <1>1, <1>2, <1>3 DEF Placement
<1> QED
  BY <1>2, <1>4 DEF BatchShape, Scanned, NoLostWakeup

\* An answered batch leaves the dispatcher's hands.
LEMMA AnswerKeepsInv ==
    ASSUME TypeOK, DispatcherInv, NEW Allowed \in SUBSET Results,
           AnswerBatch(Allowed)
    PROVE  DispatcherInv'
<1> USE DEF DispatcherInv
<1>1. PICK result \in [ToSet(batch) -> Allowed] :
          answer' = [r \in Requests |->
                        IF r \in ToSet(batch) THEN result[r] ELSE answer[r]]
  BY DEF AnswerBatch
<1>2. \A r \in ToSet(batch) : result[r] # "none"
  BY <1>1 DEF Results
<1>3. Pending' = Pending \ ToSet(batch)
  BY <1>1, <1>2 DEF AnswerBatch, Pending
<1>4. ToSet(batch') = {} /\ IsInjective(batch') /\ batch' = <<>> /\ dpc' = "take"
      /\ queue' = queue
  BY DEF AnswerBatch, ToSet, IsInjective
<1>5. Placement'
  BY <1>3, <1>4 DEF Placement
<1> QED
  BY <1>4, <1>5 DEF BatchShape, Scanned, NoLostWakeup

\* Each outcome of dispatch_batch other than a requeue answers the batch.
LEMMA OutcomesAnswer ==
    ASSUME SpawnFailed \/ WriteRejected \/ WorkerLost \/ Misread \/ Respond
    PROVE  \E Allowed \in SUBSET Results : AnswerBatch(Allowed)
<1>1. {"model_missing"} \in SUBSET Results /\ {"pipe_error"} \in SUBSET Results
      /\ {"garbled"} \in SUBSET Results /\ WorkerResults \in SUBSET Results
  BY DEF Results, WorkerResults
<1> QED
  BY <1>1 DEF SpawnFailed, WriteRejected, WorkerLost, Misread, Respond

\* Every step keeps the invariant.
LEMMA NextDispatcherInv == TypeOK /\ DispatcherInv /\ [Next]_vars => DispatcherInv'
<1> SUFFICES ASSUME TypeOK, DispatcherInv, [Next]_vars PROVE DispatcherInv'
  OBVIOUS
<1>1. CASE \E r \in Requests : Connection(r)
  BY <1>1, EnqueueKeepsInv, NotifyKeepsInv DEF Connection
<1>2. CASE PopFront
  BY <1>2, PopFrontKeepsInv
<1>3. CASE FindEmpty \/ Park \/ Wake \/ GraceNotified \/ GraceOver
  BY <1>3, WaitKeepsInv
<1>4. CASE DrainItem
  BY <1>4, DrainItemKeepsInv
<1>5. CASE DrainSkip
  BY <1>5, DrainSkipKeepsInv
<1>6. CASE DrainDone
  BY <1>6, DrainDoneKeepsInv
<1>7. CASE RequeueFront
  BY <1>7, RequeueKeepsInv
<1>8. CASE SpawnFailed \/ WriteRejected \/ WorkerLost \/ Misread \/ Respond
  BY <1>8, OutcomesAnswer, AnswerKeepsInv
<1>9. CASE UNCHANGED vars
  BY <1>9 DEF vars, callVars, DispatcherInv, Placement, Pending, BatchShape,
              Scanned, NoLostWakeup, BatchKey
<1> QED
  BY <1>1, <1>2, <1>3, <1>4, <1>5, <1>6, <1>7, <1>8, <1>9
     DEF Next, Dispatcher, Dispatch, Quiescent

\* The invariant holds in every state.
LEMMA DispatcherInvariant == Spec => []DispatcherInv
<1> QED
  BY InitDispatcherInv, NextDispatcherInv, TypeCorrect, PTL DEF Spec

\* No wakeup is lost between the queue mutex and the Notify, however many
\* connections push and notify in whatever order.
THEOREM WakeupsReachDispatcher == Spec => []NoLostWakeup
<1>1. DispatcherInv => NoLostWakeup
  BY DEF DispatcherInv
<1> QED
  BY <1>1, DispatcherInvariant, PTL

\* A pending call is held exactly once, by the queue or by the batch, and a call
\* that was answered by neither.
THEOREM CallsHeldOnce == Spec => []Placement
<1>1. DispatcherInv => Placement
  BY DEF DispatcherInv
<1> QED
  BY <1>1, DispatcherInvariant, PTL

\* Batches are of one key and never empty.
THEOREM BatchesShareKey == Spec => []BatchShape
<1>1. DispatcherInv => BatchShape
  BY DEF DispatcherInv
<1> QED
  BY <1>1, DispatcherInvariant, PTL

=============================================================================
