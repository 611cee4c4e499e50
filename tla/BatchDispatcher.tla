-------------------------- MODULE BatchDispatcher --------------------------
(* The request queue and the dispatcher task of server/tts.rs: generate,     *)
(* dispatcher_loop, drain_matching, dispatch_batch and requeue_front.        *)
(*                                                                           *)
(* Connection tasks push items under the queue mutex and signal the          *)
(* dispatcher through a tokio Notify, whose only memory is one permit.  The  *)
(* dispatcher pops a head, drains items of the head's key, holds a grace     *)
(* window for more, and hands the batch to the worker.  Between two awaits   *)
(* of the dispatcher any connection task may run.                            *)
(*                                                                           *)
(* The worker is seen here only by the ways in which dispatch_batch returns; *)
(* WorkerSupervisor models what is behind them.                              *)
EXTENDS Naturals, Sequences, SequencesExt

CONSTANTS
    Requests,   \* calls to TtsEngine::generate
    Keys,       \* values of BatchKey
    NoKey,      \* the key of a call that has not been made
    Parallel,   \* --parallel, after max(1) in TtsEngine::new
    MaxBatch,   \* proto::MAX_BATCH
    MaxLosses   \* bound: how often a worker is lost

ASSUME KeysAssumption == NoKey \notin Keys
ASSUME ParallelAssumption == Parallel \in Nat \ {0}
ASSUME BoundAssumption == MaxBatch \in Nat /\ MaxLosses \in Nat

VARIABLES
    queue,      \* Inner::queue, the VecDeque of pending items
    batch,      \* the batch the dispatcher task owns
    dpc,        \* the await or the loop the dispatcher task is at
    idx,        \* i of drain_matching
    permit,     \* the permit stored in Inner::queue_notify
    notifying,  \* calls between push_back and notify_one
    key,        \* PendingItem::key of each call
    ticket,     \* arrival number of each call
    arrivals,   \* how many calls were queued
    answer,     \* what the oneshot channel of each call delivered
    losses      \* how often the dispatcher lost a worker

callVars == <<key, ticket, arrivals, answer>>
vars == <<queue, batch, dpc, idx, permit, notifying, callVars, losses>>

\* "garbled" is whatever a batch makes of bytes that were not written for it: any
\* TtsResult, with a payload that answers nothing the client asked.
Results == {"ok", "failed", "cancelled", "model_missing", "pipe_error", "garbled"}
Answers == Results \union {"none"}
\* The statuses a worker sends back for an item of a batch.
WorkerResults == {"ok", "failed", "cancelled"}

Pending == {r \in Requests : key[r] # NoKey /\ answer[r] = "none"}
Unmade(r) == key[r] = NoKey /\ answer[r] = "none"
BatchKey == key[batch[1]]

Init ==
    /\ queue = <<>> /\ batch = <<>>
    /\ dpc = "take" /\ idx = 1
    /\ permit = FALSE /\ notifying = {}
    /\ key = [r \in Requests |-> NoKey]
    /\ ticket = [r \in Requests |-> 0]
    /\ arrivals = 0
    /\ answer = [r \in Requests |-> "none"]
    /\ losses = 0

-----------------------------------------------------------------------------
(* generate, in the task of a connection.  The json was parsed by dispatch   *)
(* already, so that it parses here.                                          *)

\* push_back under the queue mutex, which drain_matching holds while it scans.
Enqueue(r, k) ==
    /\ Unmade(r)
    /\ dpc # "drain"
    /\ queue' = Append(queue, r)
    /\ key' = [key EXCEPT ![r] = k]
    /\ ticket' = [ticket EXCEPT ![r] = arrivals + 1]
    /\ arrivals' = arrivals + 1
    /\ notifying' = notifying \union {r}
    /\ UNCHANGED <<batch, dpc, idx, permit, answer, losses>>

\* Faulty variant: only a dispatcher that waits is told (notify_waiters).
NotifyIfParked(r) ==
    /\ r \in notifying
    /\ notifying' = notifying \ {r}
    /\ permit' = (permit \/ dpc \in {"parked", "grace"})
    /\ UNCHANGED <<queue, batch, dpc, idx, callVars, losses>>

\* notify_one, after the mutex was released: a permit is kept, never two.
NotifyOne(r) ==
    /\ r \in notifying
    /\ notifying' = notifying \ {r}
    /\ permit' = TRUE
    /\ UNCHANGED <<queue, batch, dpc, idx, callVars, losses>>

-----------------------------------------------------------------------------
(* dispatcher_loop up to the call of dispatch_batch.                         *)

PopFront ==
    /\ dpc = "take"
    /\ queue # <<>>
    /\ batch' = <<Head(queue)>>
    /\ queue' = Tail(queue)
    /\ dpc' = IF Parallel > 1 THEN "drain" ELSE "dispatch"
    /\ idx' = 1
    /\ UNCHANGED <<permit, notifying, callVars, losses>>

\* The queue was empty under the mutex, which is released before ...
FindEmpty ==
    /\ dpc = "take"
    /\ queue = <<>>
    /\ dpc' = "empty"
    /\ UNCHANGED <<queue, batch, idx, permit, notifying, callVars, losses>>

\* ... the dispatcher waits for a notification.
Park ==
    /\ dpc = "empty"
    /\ ~permit
    /\ dpc' = "parked"
    /\ UNCHANGED <<queue, batch, idx, permit, notifying, callVars, losses>>

\* notified() completes, at once if a permit was stored before it was called.
Wake ==
    /\ dpc \in {"empty", "parked"}
    /\ permit
    /\ permit' = FALSE
    /\ dpc' = "take"
    /\ UNCHANGED <<queue, batch, idx, notifying, callVars, losses>>

Draining ==
    /\ dpc = "drain"
    /\ Len(batch) < Parallel
    /\ idx <= Len(queue)

\* Faulty variants: the cursor moves on after a removal; any key is taken.
DrainItemAdvancing ==
    /\ Draining
    /\ key[queue[idx]] = BatchKey
    /\ batch' = Append(batch, queue[idx])
    /\ queue' = RemoveAt(queue, idx)
    /\ idx' = idx + 1
    /\ UNCHANGED <<dpc, permit, notifying, callVars, losses>>

DrainItemAnyKey ==
    /\ Draining
    /\ batch' = Append(batch, queue[idx])
    /\ queue' = RemoveAt(queue, idx)
    /\ UNCHANGED <<dpc, idx, permit, notifying, callVars, losses>>

\* drain_matching moves the item at idx into the batch ...
DrainItem ==
    /\ Draining
    /\ key[queue[idx]] = BatchKey
    /\ batch' = Append(batch, queue[idx])
    /\ queue' = RemoveAt(queue, idx)
    /\ UNCHANGED <<dpc, idx, permit, notifying, callVars, losses>>

\* ... or leaves it where it is.
DrainSkip ==
    /\ Draining
    /\ key[queue[idx]] # BatchKey
    /\ idx' = idx + 1
    /\ UNCHANGED <<queue, batch, dpc, permit, notifying, callVars, losses>>

DrainDone ==
    /\ dpc = "drain"
    /\ ~Draining
    /\ dpc' = IF Len(batch) < Parallel THEN "grace" ELSE "dispatch"
    /\ idx' = 1
    /\ UNCHANGED <<queue, batch, permit, notifying, callVars, losses>>

\* The grace window: a notification makes the dispatcher drain again,
GraceNotified ==
    /\ dpc = "grace"
    /\ permit
    /\ permit' = FALSE
    /\ dpc' = "drain" /\ idx' = 1
    /\ UNCHANGED <<queue, batch, notifying, callVars, losses>>

\* and at the deadline the batch goes out as it is.
GraceOver ==
    /\ dpc = "grace"
    /\ dpc' = "dispatch"
    /\ UNCHANGED <<queue, batch, idx, permit, notifying, callVars, losses>>

-----------------------------------------------------------------------------
(* dispatch_batch, by its outcomes; that it returns is assumed.              *)

\* Every item of the batch is answered, item r with a member of Allowed.
AnswerBatch(Allowed) ==
    /\ dpc = "dispatch"
    /\ \E result \in [ToSet(batch) -> Allowed] :
          answer' = [r \in Requests |->
                        IF r \in ToSet(batch) THEN result[r] ELSE answer[r]]
    /\ batch' = <<>>
    /\ dpc' = "take"
    /\ UNCHANGED <<queue, idx, permit, notifying, key, ticket, arrivals>>

\* No worker was loaded and none could be started.
SpawnFailed ==
    /\ AnswerBatch({"model_missing"})
    /\ UNCHANGED losses

\* Faulty variants: the batch of a dead worker is dropped, or goes to the back.
RequeueForgotten ==
    /\ dpc = "dispatch"
    /\ losses < MaxLosses
    /\ losses' = losses + 1
    /\ batch' = <<>> /\ permit' = TRUE /\ dpc' = "take"
    /\ UNCHANGED <<queue, idx, notifying, callVars>>

RequeueBack ==
    /\ dpc = "dispatch"
    /\ losses < MaxLosses
    /\ losses' = losses + 1
    /\ queue' = queue \o batch
    /\ batch' = <<>> /\ permit' = TRUE /\ dpc' = "take"
    /\ UNCHANGED <<idx, notifying, callVars>>

\* The worker died since its last request: requeue_front puts the batch back,
\* its head first again, and the next round starts a fresh worker.
RequeueFront ==
    /\ dpc = "dispatch"
    /\ losses < MaxLosses
    /\ losses' = losses + 1
    /\ queue' = batch \o queue
    /\ batch' = <<>>
    /\ permit' = TRUE
    /\ dpc' = "take"
    /\ UNCHANGED <<idx, notifying, callVars>>

\* write_batch_request refuses a batch above MAX_BATCH; the worker, which
\* saw nothing of it, is dropped and every item fails.
WriteRejected ==
    /\ Len(batch) > MaxBatch
    /\ AnswerBatch({"pipe_error"})
    /\ UNCHANGED losses

\* The worker is lost while it has the batch: it died, or what its pipe holds is no
\* batch response (torn by a cancelled stream, or a payload above MAX_PAYLOAD), for
\* which a living worker is dropped as well.
WorkerLost ==
    /\ Len(batch) <= MaxBatch
    /\ losses < MaxLosses
    /\ losses' = losses + 1
    /\ AnswerBatch({"pipe_error"})

\* The worker's responses are handed out, one per item.
Respond ==
    /\ Len(batch) <= MaxBatch
    /\ AnswerBatch(WorkerResults)
    /\ UNCHANGED losses

\* What a torn pipe holds can be read as a response too.  An item for which it has
\* none is told that the dispatcher dropped it.
Misread ==
    /\ Len(batch) <= MaxBatch
    /\ AnswerBatch({"garbled"})
    /\ UNCHANGED losses

\* Every call of the model was made and answered; the dispatcher waits for ever.
Quiescent ==
    /\ dpc = "parked" /\ ~permit /\ notifying = {}
    /\ \A r \in Requests : answer[r] # "none"
    /\ UNCHANGED vars

Dispatch == \/ SpawnFailed \/ RequeueFront \/ WriteRejected
            \/ WorkerLost \/ Misread \/ Respond

Dispatcher ==
    \/ PopFront \/ FindEmpty \/ Park \/ Wake
    \/ DrainItem \/ DrainSkip \/ DrainDone
    \/ GraceNotified \/ GraceOver
    \/ Dispatch

Connection(r) ==
    \/ \E k \in Keys : Enqueue(r, k)
    \/ NotifyOne(r)

Next == (\E r \in Requests : Connection(r)) \/ Dispatcher \/ Quiescent

Spec == Init /\ [][Next]_vars

\* tokio keeps polling a task that is ready: the dispatcher takes its steps,
\* timers fire, and a call that was pushed gets to its notify_one.  Nothing
\* obliges a client to make a call.
Fairness == WF_vars(Dispatcher) /\ \A r \in Requests : WF_vars(NotifyOne(r))
FairSpec == Spec /\ Fairness

-----------------------------------------------------------------------------
(* Properties.                                                               *)

\* Types, with drain_matching's cursor never past one beyond the queue's end
\* and the batch never above --parallel.
TypeOK ==
    /\ queue \in Seq(Requests)
    /\ batch \in Seq(Requests) /\ Len(batch) <= Parallel
    /\ dpc \in {"take", "empty", "parked", "drain", "grace", "dispatch"}
    /\ idx \in 1..(Len(queue) + 1)
    /\ permit \in BOOLEAN
    /\ notifying \subseteq Requests
    /\ key \in [Requests -> Keys \union {NoKey}]
    /\ ticket \in [Requests -> Nat]
    /\ arrivals \in Nat
    /\ answer \in [Requests -> Answers]
    /\ losses \in 0..MaxLosses

\* No wakeup of the dispatcher is lost between the queue mutex and the Notify.
\* When it waits and no permit is stored, whatever it would want from the queue
\* belongs to a call that has yet to notify: any item once it found no work,
\* an item of the batch's key while it waits in the grace window.
NoLostWakeup ==
    ~permit =>
        /\ dpc \in {"empty", "parked"} => ToSet(queue) \subseteq notifying
        /\ dpc = "grace" => \A q \in ToSet(queue) :
                                key[q] = BatchKey => q \in notifying

\* A pending call is in exactly one place, once: in the queue or in the batch;
\* a call that was answered is in neither.  Draining, requeueing after a crash
\* and answering neither lose nor duplicate a call.
Placement ==
    /\ IsInjective(queue) /\ IsInjective(batch)
    /\ ToSet(queue) \intersect ToSet(batch) = {}
    /\ ToSet(queue) \union ToSet(batch) = Pending

\* The batch only mixes calls whose cfg and steps agree (one forward pass of the
\* model has one setting), and is never empty when it is dispatched.
BatchShape ==
    /\ \A q \in ToSet(batch) : key[q] = BatchKey
    /\ (batch # <<>>) <=> dpc \in {"drain", "grace", "dispatch"}

\* Every call of generate is answered, whatever the batches it waits behind and
\* however its batch is requeued, as long as dispatch_batch returns.
EveryCallAnswered ==
    \A r \in Requests : (r \in Pending) ~> (answer[r] # "none")

\* The dispatcher implements the service its callers are promised: groups of one
\* key, at most --parallel, the oldest pending call in each, FIFO within a key.
Service == INSTANCE TtsService WITH
    Requests <- Requests, Keys <- Keys, Parallel <- Parallel, NoKey <- NoKey,
    key <- key, ticket <- ticket, arrivals <- arrivals, answer <- answer
ServesInOrder == Service!Spec

=============================================================================
