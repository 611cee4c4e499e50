------------------------- MODULE WorkerSupervisor --------------------------
(* The worker process of TtsEngine and the tasks that share it: the batch    *)
(* half of server/tts.rs (dispatch_batch), its streaming half (stream_relay),*)
(* spawn_worker, the eviction task, and worker.rs itself, with the cancel    *)
(* slot that SIGUSR1 reaches.                                                *)
(*                                                                           *)
(* A job is one request written to the worker: a batch, with one client per  *)
(* item, or a stream, with one client.  Jobs and the eviction task take the  *)
(* mutex Inner::state; the worker process, its signal handler and the        *)
(* clients that hang up do not.  Of a stream only the terminal frame is      *)
(* modelled: the others come before it and only keep the task reading.  A    *)
(* pipe holds whole messages, unless a read was given up in the middle of    *)
(* one: what is read after that is not modelled byte by byte but as whatever *)
(* it may be taken for.  A batch is no larger than MAX_BATCH (what happens   *)
(* to a larger one is in BatchDispatcher).                                   *)
EXTENDS Naturals, Sequences, SequencesExt

CONSTANTS
    BatchJobs,      \* batches the dispatcher hands to dispatch_batch
    StreamJobs,     \* calls to generate_stream
    Width,          \* items in a batch
    NoJob,          \* no job
    Evictor,        \* the eviction task, as a waiter for the mutex
    HoldsForever,   \* ttl zero: there is no eviction task
    MayPanic,       \* whether synthesis can panic
    MaxCrashes      \* bound: how often the worker process dies by itself

ASSUME JobsAssumption ==
    /\ BatchJobs \intersect StreamJobs = {}
    /\ {NoJob, Evictor} \intersect (BatchJobs \union StreamJobs) = {}
    /\ NoJob # Evictor
ASSUME SizesAssumption == Width \in Nat \ {0} /\ MaxCrashes \in Nat
ASSUME SwitchAssumption == HoldsForever \in BOOLEAN /\ MayPanic \in BOOLEAN

VARIABLES
    lockq,      \* Inner::state's mutex: waiters in order, the holder first
    handle,     \* whether Inner::state holds a RunningWorker
    jpc,        \* where the task of each job is
    verdict,    \* what the job's clients were told
    gone,       \* clients whose connection died (their cancel Notify has a permit)
    counted,    \* clients whose batch watcher has counted them
    killing,    \* jobs whose last watcher is about to call kill
    signalled,  \* jobs whose cancellation signal was sent
    cancelled,  \* jobs whose CancelToken was flipped
    wk,         \* the worker process and its two pipes
    evictor,    \* the eviction task
    crashes     \* how often the worker died by itself

clientVars == <<gone, counted, killing, signalled>>
vars == <<lockq, handle, jpc, verdict, clientVars, cancelled, wk, evictor, crashes>>

Jobs == BatchJobs \union StreamJobs
Members(j) == {j} \X (IF j \in StreamJobs THEN {1} ELSE 1..Width)
Clients == UNION {Members(j) : j \in Jobs}
Deserted(j) == Members(j) \subseteq gone

Replies == {"ok", "failed", "cancelled"}
\* "garbled" is what a job makes of bytes that were not written for it.
Verdicts == Replies \union
    {"none", "model_missing", "pipe_error", "worker_exited", "garbled"}

\* No process.  job is the job in the main task's hands; slot is current_cancel;
\* signal a SIGUSR1 the handler task has yet to see; poisoned the model mutex;
\* torn whether a read of stdout was given up in the middle of a frame.
NoProcess == [proc |-> "none", handler |-> FALSE, pc |-> "idle", job |-> NoJob,
              slot |-> NoJob, signal |-> FALSE, poisoned |-> FALSE,
              stdin |-> <<>>, open |-> TRUE, stdout |-> <<>>, torn |-> FALSE]
\* What is left of a process that ended: what it wrote can still be read.
Dead(w) == [NoProcess EXCEPT !.proc = "dead", !.stdout = w.stdout, !.open = w.open,
                             !.torn = w.torn]

Init ==
    /\ lockq = <<>> /\ handle = FALSE
    /\ jpc = [j \in Jobs |-> "new"]
    /\ verdict = [j \in Jobs |-> "none"]
    /\ gone = {} /\ counted = {} /\ killing = {} /\ signalled = {}
    /\ cancelled = {}
    /\ wk = NoProcess
    /\ evictor = "sleep"
    /\ crashes = 0

Holds(t) == lockq # <<>> /\ Head(lockq) = t
Goto(j, at) == jpc' = [jpc EXCEPT ![j] = at]

\* The job's task tells its clients and drops the guard.
Finish(j, v) ==
    /\ Goto(j, "done")
    /\ verdict' = [verdict EXCEPT ![j] = v]
    /\ lockq' = Tail(lockq)

\* *guard = None: kill_on_drop takes the process, if it lives, with the handle.
DropWorker == handle' = FALSE /\ wk' = NoProcess

\* What kill(pid, SIGUSR1) makes of the process: it ends one that has not installed
\* its handler.
Delivered(w) == CASE w.proc # "up" -> w
                  [] w.proc = "up" /\ w.handler -> [w EXCEPT !.signal = TRUE]
                  [] w.proc = "up" /\ ~w.handler -> Dead(w)

-----------------------------------------------------------------------------
(* Clients.                                                                  *)

Disconnect(c) ==
    /\ c \notin gone
    /\ gone' = gone \union {c}
    /\ UNCHANGED <<lockq, handle, jpc, verdict, counted, killing, signalled,
                   cancelled, wk, evictor, crashes>>

\* A batch goes to dispatch_batch only when the dispatcher is done with the last.
Submit(j) ==
    /\ jpc[j] = "new"
    /\ j \in BatchJobs => \A i \in BatchJobs : jpc[i] \in {"new", "done"}
    /\ Goto(j, "start")
    /\ UNCHANGED <<lockq, handle, verdict, clientVars, cancelled, wk, evictor, crashes>>

-----------------------------------------------------------------------------
(* dispatch_batch and stream_relay, which agree up to the marked differences.*)

AskLock(j) ==
    /\ jpc[j] = "start"
    /\ lockq' = Append(lockq, j)
    /\ Goto(j, "lock")
    /\ UNCHANGED <<handle, verdict, clientVars, cancelled, wk, evictor, crashes>>

\* spawn_worker finds no executable, cannot start it, or gets no pid.
SpawnRefused(j) ==
    /\ jpc[j] = "lock" /\ Holds(j) /\ ~handle
    /\ Finish(j, "model_missing")
    /\ UNCHANGED <<handle, clientVars, cancelled, wk, evictor, crashes>>

\* spawn_worker starts a process and waits for its ready byte.  Its pid is new,
\* so that a kill still to come for an older worker does not reach it.
StartSpawn(j) ==
    /\ jpc[j] = "lock" /\ Holds(j) /\ ~handle
    /\ wk' = [NoProcess EXCEPT !.proc = "loading"]
    /\ killing' = {}
    /\ Goto(j, "spawn")
    /\ UNCHANGED <<lockq, handle, verdict, gone, counted, signalled, cancelled,
                   evictor, crashes>>

SpawnReady(j) ==
    /\ jpc[j] = "spawn" /\ wk.stdout # <<>>
    /\ wk' = [wk EXCEPT !.stdout = Tail(wk.stdout)]
    /\ handle' = TRUE
    /\ Goto(j, "lock")
    /\ UNCHANGED <<lockq, verdict, clientVars, cancelled, evictor, crashes>>

SpawnFailed(j) ==
    /\ jpc[j] = "spawn" /\ wk.proc = "dead" /\ wk.stdout = <<>>
    /\ wk' = NoProcess
    /\ Finish(j, "model_missing")
    /\ UNCHANGED <<handle, clientVars, cancelled, evictor, crashes>>

\* Faulty variant: the dead worker stays in Inner::state.
WorkerGoneKept(j) ==
    /\ jpc[j] = "lock" /\ Holds(j) /\ handle
    /\ wk.proc = "dead"
    /\ IF j \in BatchJobs
         THEN Goto(j, "start") /\ lockq' = Tail(lockq) /\ UNCHANGED verdict
         ELSE Finish(j, "worker_exited")
    /\ UNCHANGED <<handle, wk, clientVars, cancelled, evictor, crashes>>

\* try_wait finds that the worker exited: a batch is requeued, and comes back to
\* the mutex; a stream fails.
WorkerGone(j) ==
    /\ jpc[j] = "lock" /\ Holds(j) /\ handle
    /\ wk.proc = "dead"
    /\ DropWorker
    /\ IF j \in BatchJobs
         THEN Goto(j, "start") /\ lockq' = Tail(lockq) /\ UNCHANGED verdict
         ELSE Finish(j, "worker_exited")
    /\ UNCHANGED <<clientVars, cancelled, evictor, crashes>>

WorkerAlive(j) ==
    /\ jpc[j] = "lock" /\ Holds(j) /\ handle
    /\ wk.proc = "up"
    /\ Goto(j, "write")
    /\ UNCHANGED <<lockq, handle, verdict, clientVars, cancelled, wk, evictor, crashes>>

Write(j) ==
    /\ jpc[j] = "write" /\ wk.proc = "up"
    /\ wk' = [wk EXCEPT !.stdin = Append(wk.stdin, j)]
    /\ Goto(j, "read")
    /\ UNCHANGED <<lockq, handle, verdict, clientVars, cancelled, evictor, crashes>>

WriteFailed(j) ==
    /\ jpc[j] = "write" /\ wk.proc = "dead"
    /\ DropWorker
    /\ Finish(j, "pipe_error")
    /\ UNCHANGED <<clientVars, cancelled, evictor, crashes>>

\* Faulty variants: a watcher counts a client that is there, or signals for the first.
WatcherCountsEarly(c) ==
    LET j == c[1] IN
    /\ j \in BatchJobs /\ jpc[j] = "read"
    /\ c \notin counted
    /\ counted' = counted \union {c}
    /\ killing' = IF Members(j) \subseteq counted' THEN killing \union {j} ELSE killing
    /\ UNCHANGED <<lockq, handle, jpc, verdict, gone, signalled, cancelled, wk,
                   evictor, crashes>>

WatcherKillsForFirst(c) ==
    LET j == c[1] IN
    /\ j \in BatchJobs /\ jpc[j] = "read"
    /\ c \in gone \ counted
    /\ counted' = counted \union {c}
    /\ killing' = killing \union {j}
    /\ UNCHANGED <<lockq, handle, jpc, verdict, gone, signalled, cancelled, wk,
                   evictor, crashes>>

\* A batch watcher is notified: the last one of the batch will send the signal.
WatcherCounts(c) ==
    LET j == c[1] IN
    /\ j \in BatchJobs /\ jpc[j] = "read"
    /\ c \in gone \ counted
    /\ counted' = counted \union {c}
    /\ killing' = IF Members(j) \subseteq counted' THEN killing \union {j} ELSE killing
    /\ UNCHANGED <<lockq, handle, jpc, verdict, gone, signalled, cancelled, wk,
                   evictor, crashes>>

\* send_cancel_signal.  abort() does not stop a watcher that is past its await,
\* so the job may be done by now.
WatcherKills(j) ==
    /\ j \in killing
    /\ killing' = killing \ {j}
    /\ signalled' = signalled \union {j}
    /\ wk' = Delivered(wk)
    /\ UNCHANGED <<lockq, handle, jpc, verdict, gone, counted, cancelled, evictor,
                   crashes>>

\* Faulty variant: the task returns with its cancellation and does not drain the pipe.
StreamCancelReturning(j) ==
    /\ j \in StreamJobs /\ jpc[j] = "read"
    /\ Deserted(j) /\ j \notin signalled
    /\ signalled' = signalled \union {j}
    /\ wk' = Delivered(wk)
    /\ Finish(j, "cancelled")
    /\ UNCHANGED <<handle, gone, counted, killing, cancelled, evictor, crashes>>

\* The cancel branch of stream_relay's select, taken at most once.  It gives up the
\* read of the next frame, with what that read has taken from the pipe: once the
\* worker writes frames, part of one may be lost.
StreamCancel(j) ==
    /\ j \in StreamJobs /\ jpc[j] = "read"
    /\ Deserted(j) /\ j \notin signalled
    /\ signalled' = signalled \union {j}
    /\ LET writing == wk.stdin = <<>> /\ wk.pc # "read" IN
       \E lost \in {FALSE, writing} : wk' = [Delivered(wk) EXCEPT !.torn = @ \/ lost]
    /\ UNCHANGED <<lockq, handle, jpc, verdict, gone, counted, killing, cancelled,
                   evictor, crashes>>

\* The response, or a stream's terminal frame: whatever comes next in the pipe.
ReadReply(j) ==
    /\ jpc[j] = "read" /\ wk.stdout # <<>> /\ Head(wk.stdout).kind \in Replies
    /\ wk' = [wk EXCEPT !.stdout = Tail(wk.stdout)]
    /\ Finish(j, Head(wk.stdout).kind)
    /\ UNCHANGED <<handle, clientVars, cancelled, evictor, crashes>>

\* Faulty variant: the worker is kept, with the rest of the response in its pipe.
ReadOversizeKeeping(j) ==
    /\ jpc[j] = "read" /\ wk.stdout # <<>> /\ Head(wk.stdout).kind = "oversize"
    /\ Finish(j, "pipe_error")
    /\ UNCHANGED <<handle, wk, clientVars, cancelled, evictor, crashes>>

\* A response with a payload above MAX_PAYLOAD: a worker that lives is dropped.
ReadOversize(j) ==
    /\ jpc[j] = "read" /\ wk.stdout # <<>> /\ Head(wk.stdout).kind = "oversize"
    /\ DropWorker
    /\ Finish(j, "pipe_error")
    /\ UNCHANGED <<clientVars, cancelled, evictor, crashes>>

Misreading(j) == jpc[j] = "read" /\ wk.torn

\* Out of sync, the bytes in the pipe, among them frames of the stream that was
\* cancelled, are taken for a whole response or a terminal frame,
MisreadReply(j) ==
    /\ Misreading(j)
    /\ Finish(j, "garbled")
    /\ UNCHANGED <<handle, clientVars, cancelled, wk, evictor, crashes>>

\* or a message of the worker is taken for part of something else,
MisreadPart(j) ==
    /\ Misreading(j) /\ wk.stdout # <<>>
    /\ wk' = [wk EXCEPT !.stdout = Tail(wk.stdout)]
    /\ UNCHANGED <<lockq, handle, jpc, verdict, clientVars, cancelled, evictor, crashes>>

\* or they make a length above the limit.
MisreadTooLarge(j) ==
    /\ Misreading(j)
    /\ DropWorker
    /\ Finish(j, "pipe_error")
    /\ UNCHANGED <<clientVars, cancelled, evictor, crashes>>

ReadEof(j) ==
    /\ jpc[j] = "read" /\ wk.proc = "dead" /\ wk.stdout = <<>>
    /\ DropWorker
    /\ Finish(j, "pipe_error")
    /\ UNCHANGED <<clientVars, cancelled, evictor, crashes>>

-----------------------------------------------------------------------------
(* spawn_eviction_task.                                                      *)

EvictTick ==
    /\ ~HoldsForever
    /\ evictor = "sleep"
    /\ lockq' = Append(lockq, Evictor)
    /\ evictor' = "lock"
    /\ UNCHANGED <<handle, jpc, verdict, clientVars, cancelled, wk, crashes>>

\* No worker, or one used less than ttl ago.
EvictSkip ==
    /\ evictor = "lock" /\ Holds(Evictor)
    /\ lockq' = Tail(lockq)
    /\ evictor' = "sleep"
    /\ UNCHANGED <<handle, jpc, verdict, clientVars, cancelled, wk, crashes>>

\* Faulty variants: the mutex is not taken, or given back before the process is gone.
EvictTakeUnlocked ==
    /\ evictor = "lock" /\ handle
    /\ handle' = FALSE
    /\ wk' = [wk EXCEPT !.open = FALSE]
    /\ evictor' = "closing"
    /\ UNCHANGED <<lockq, jpc, verdict, clientVars, cancelled, crashes>>

EvictTakeReleasing ==
    /\ evictor = "lock" /\ Holds(Evictor) /\ handle
    /\ handle' = FALSE
    /\ wk' = [wk EXCEPT !.open = FALSE]
    /\ lockq' = Tail(lockq)
    /\ evictor' = "sleep"
    /\ UNCHANGED <<jpc, verdict, clientVars, cancelled, crashes>>

\* guard.take() and drop(stdin); the guard is kept while the process exits.
EvictTake ==
    /\ evictor = "lock" /\ Holds(Evictor) /\ handle
    /\ handle' = FALSE
    /\ wk' = [wk EXCEPT !.open = FALSE]
    /\ evictor' = "closing"
    /\ UNCHANGED <<lockq, jpc, verdict, clientVars, cancelled, crashes>>

\* The process has exited, or is killed after three seconds.
EvictDone ==
    /\ evictor = "closing"
    /\ wk' = NoProcess
    /\ lockq' = Tail(lockq)
    /\ evictor' = "sleep"
    /\ UNCHANGED <<handle, jpc, verdict, clientVars, cancelled, crashes>>

-----------------------------------------------------------------------------
(* worker.rs.  wk.pc is its main task; synthesis runs while pc = "running".  *)

Worker(w) ==
    /\ wk' = w
    /\ UNCHANGED <<lockq, handle, jpc, verdict, clientVars, cancelled, evictor, crashes>>

\* The model is loaded, the handler task is spawned, the ready byte is written.
Load ==
    /\ wk.proc = "loading"
    /\ Worker([wk EXCEPT !.proc = "up",
                         !.stdout = Append(@, [job |-> NoJob, kind |-> "ready"])])

\* synth::load fails, and the process ends.
LoadFails ==
    /\ wk.proc = "loading"
    /\ Worker(Dead(wk))

\* The handler task runs for the first time.
InstallHandler ==
    /\ wk.proc = "up" /\ ~wk.handler
    /\ Worker([wk EXCEPT !.handler = TRUE])

\* sig.recv() returns: the token in the slot, if any, is flipped.
HandleSignal ==
    /\ wk.signal
    /\ wk' = [wk EXCEPT !.signal = FALSE]
    /\ cancelled' = cancelled \union ({wk.slot} \ {NoJob})
    /\ UNCHANGED <<lockq, handle, jpc, verdict, clientVars, evictor, crashes>>

Idle == wk.proc = "up" /\ wk.pc = "idle"

ReadRequest ==
    /\ Idle /\ wk.stdin # <<>>
    /\ Worker([wk EXCEPT !.pc = "read", !.job = Head(wk.stdin), !.stdin = Tail(@)])

StdinClosed ==
    /\ Idle /\ wk.stdin = <<>> /\ ~wk.open
    /\ Worker(Dead(wk))

\* The request parses, as it did in the server, and its token is put in the slot.
Begin ==
    /\ wk.pc = "read"
    /\ Worker([wk EXCEPT !.pc = "running", !.slot = wk.job])

\* How a synthesis can end: the model mutex is poisoned by an earlier panic, the
\* synthesis panics now, or it returns; "cancelled" only if its token was flipped.
\* The audio of a batch item may be more than a response can hold.
Outcomes ==
    IF wk.poisoned THEN {"panic"}
    ELSE {"ok", "failed"} \union (IF MayPanic THEN {"panic"} ELSE {})
                          \union (IF wk.job \in BatchJobs THEN {"oversize"} ELSE {})
                          \union (IF wk.job \in cancelled THEN {"cancelled"} ELSE {})

\* handle_batch_request: a panic is reported like any failure, to every item.
FinishBatch ==
    /\ wk.pc = "running" /\ wk.job \in BatchJobs
    /\ \E how \in Outcomes :
         LET kind == IF how = "panic" THEN "failed" ELSE how IN
         Worker([wk EXCEPT !.pc = "idle", !.job = NoJob, !.slot = NoJob,
                           !.poisoned = how = "panic",
                           !.stdout = Append(@, [job |-> wk.job, kind |-> kind])])

\* Faulty variant: a cancelled synthesis ends without a frame.
FinishStreamSilently ==
    /\ wk.pc = "running" /\ wk.job \in StreamJobs
    /\ \E how \in Outcomes :
         LET last == IF how \in {"panic", "cancelled"}
                       THEN <<>> ELSE <<[job |-> wk.job, kind |-> how]>> IN
         Worker([wk EXCEPT !.pc = "tail", !.job = NoJob,
                           !.poisoned = how = "panic",
                           !.stdout = @ \o last])

\* handle_stream_request: the frames end when the synthesis thread drops its
\* sender, and after a panic they end without a terminal one.
FinishStream ==
    /\ wk.pc = "running" /\ wk.job \in StreamJobs
    /\ \E how \in Outcomes :
         LET last == IF how = "panic" THEN <<>>
                                      ELSE <<[job |-> wk.job, kind |-> how]>> IN
         Worker([wk EXCEPT !.pc = "tail", !.job = NoJob,
                           !.poisoned = how = "panic",
                           !.stdout = @ \o last])

\* The slot is cleared after the terminal frame is out.
StreamTail ==
    /\ wk.pc = "tail"
    /\ Worker([wk EXCEPT !.pc = "idle", !.slot = NoJob])

Crash ==
    /\ wk.proc \in {"loading", "up"}
    /\ crashes < MaxCrashes
    /\ crashes' = crashes + 1
    /\ wk' = Dead(wk)
    /\ UNCHANGED <<lockq, handle, jpc, verdict, clientVars, cancelled, evictor>>

-----------------------------------------------------------------------------

JobTask(j) ==
    \/ AskLock(j) \/ SpawnRefused(j) \/ StartSpawn(j) \/ SpawnReady(j) \/ SpawnFailed(j)
    \/ WorkerGone(j) \/ WorkerAlive(j) \/ Write(j) \/ WriteFailed(j)
    \/ StreamCancel(j) \/ ReadReply(j) \/ ReadOversize(j) \/ ReadEof(j)

\* What a torn pipe may do to a job; nothing says that it does.
Misread(j) == MisreadReply(j) \/ MisreadPart(j) \/ MisreadTooLarge(j)

Watchers == \/ \E c \in Clients : WatcherCounts(c)
            \/ \E j \in BatchJobs : WatcherKills(j)

EvictionTask == EvictSkip \/ EvictTake \/ EvictDone

WorkerTask == \/ Load \/ LoadFails \/ ReadRequest \/ StdinClosed \/ Begin
              \/ FinishBatch \/ FinishStream \/ StreamTail

Next ==
    \/ \E c \in Clients : Disconnect(c)
    \/ \E j \in Jobs : Submit(j) \/ JobTask(j) \/ Misread(j)
    \/ Watchers
    \/ EvictTick \/ EvictionTask
    \/ WorkerTask \/ InstallHandler \/ HandleSignal \/ Crash

Spec == Init /\ [][Next]_vars

\* The server's and the worker's tasks are polled when they are ready, and a
\* synthesis ends.  Clients, crashes, the clock and what is in a torn pipe owe
\* nothing.
Fairness ==
    /\ \A j \in Jobs : WF_vars(JobTask(j))
    /\ WF_vars(EvictionTask)
    /\ WF_vars(WorkerTask)
FairSpec == Spec /\ Fairness

-----------------------------------------------------------------------------
(* Properties.                                                               *)

Messages == [job : Jobs \union {NoJob}, kind : Replies \union {"ready", "oversize"}]
Processes == [proc : {"none", "loading", "up", "dead"}, handler : BOOLEAN,
              pc : {"idle", "read", "running", "tail"}, job : Jobs \union {NoJob},
              slot : Jobs \union {NoJob}, signal : BOOLEAN, poisoned : BOOLEAN,
              stdin : Seq(Jobs), open : BOOLEAN, stdout : Seq(Messages), torn : BOOLEAN]

\* Types.
TypeOK ==
    /\ lockq \in Seq(Jobs \union {Evictor})
    /\ handle \in BOOLEAN
    /\ jpc \in [Jobs -> {"new", "start", "lock", "spawn", "write", "read", "done"}]
    /\ verdict \in [Jobs -> Verdicts]
    /\ gone \subseteq Clients /\ counted \subseteq gone
    /\ killing \subseteq BatchJobs
    /\ signalled \subseteq Jobs
    /\ cancelled \subseteq Jobs
    /\ wk \in Processes
    /\ evictor \in {"sleep", "lock", "closing"}
    /\ crashes \in 0..MaxCrashes

\* The jobs that are somewhere between the two ends of the worker's pipes.
InWorker == (ToSet(wk.stdin) \union {wk.job} \union {m.job : m \in ToSet(wk.stdout)})
                \ {NoJob}

\* The pipes stay in sync: whatever is in them or in the worker's hands belongs
\* to one job, whose task holds the mutex and is reading.  So the next frame a
\* task reads answers its own request, also after a response that was too large,
\* after a crash that left one behind, and after a worker was replaced; unless a
\* cancelled read tore the pipe of this worker.
PipesInSync ==
    ~wk.torn =>
        /\ \A j \in InWorker : jpc[j] = "read" /\ Holds(j)
        /\ Len(wk.stdin) + Len(wk.stdout) + (IF wk.job = NoJob THEN 0 ELSE 1) <= 1

\* The worker a job was checked against stays its worker until the job is over:
\* neither eviction nor another job closes or replaces it in between.
WorkerHeld == \A j \in Jobs : jpc[j] \in {"write", "read"} => handle /\ wk.open

\* At most one model is loaded: a process lives only while Inner::state holds it,
\* a job is starting it, or the eviction task is closing it under the mutex.  (One
\* that was killed with its handle counts as gone.)
OneWorker ==
    wk.proc \in {"loading", "up"} =>
        \/ handle
        \/ \E j \in Jobs : jpc[j] = "spawn" /\ Holds(j)
        \/ evictor = "closing" /\ Holds(Evictor)

\* The token of a job under way is flipped only on behalf of a job all of whose
\* clients hung up: itself or, the signal being late, one that is over.  One item of a batch
\* losing its client never costs the others their answer.
CancelNeedsDesertion ==
    \A j \in cancelled : jpc[j] = "read" =>
        Deserted(j) \/ \E i \in signalled \ {j} : Deserted(i) /\ jpc[i] = "done"

\* A job under way is cancelled only when nobody listens to it any more.
CancelOnlyDeserted == \A j \in cancelled : jpc[j] = "read" => Deserted(j)

\* A worker that may fail its job: dead, out of sync, or with an answer too large.
Harmed == \/ wk.proc = "dead" \/ wk.torn
          \/ \E m \in ToSet(wk.stdout) : m.kind = "oversize"

Service == INSTANCE WorkerService WITH
    BatchJobs  <- BatchJobs,
    StreamJobs <- StreamJobs,
    waiting    <- {j \in Jobs : jpc[j] \in {"start", "lock", "spawn"}},
    serving    <- {j \in Jobs : jpc[j] \in {"write", "read"}},
    verdict    <- verdict,
    deserted   <- {j \in Jobs : Deserted(j)},
    worker     <- IF ~handle THEN "none" ELSE IF Harmed THEN "harmed" ELSE "well"

\* The supervisor and the worker implement the service that the dispatcher and the
\* streams rely on: jobs are served one at a time, each outcome of dispatch_batch
\* and stream_relay comes only in the circumstances that explain it, and a worker
\* that failed a job is replaced, so that the next job gets a worker as it should be.
JobsAsPromised == Service!Spec

\* A generation whose cancellation was signalled, and the signal handled, is
\* cancelled: a client that hangs up ends its generation.
CancelReachesJob ==
    \A j \in signalled :
        wk.pc = "running" /\ wk.slot = j /\ ~wk.signal => j \in cancelled

\* A job whose request the worker is done with has its answer in the pipe: unless
\* the pipe is torn, the task that holds the mutex never reads from a worker that
\* waits for a request.
NoReadFromIdleWorker ==
    ~wk.torn => \A j \in Jobs :
        ~(jpc[j] = "read" /\ Idle /\ wk.stdin = <<>> /\ wk.stdout = <<>>)

\* Every job that asks for the worker is over one day, through crashes, evictions
\* and requeues: the clients get a verdict and the mutex goes to the next.  The
\* exception is a worker whose pipe a cancelled stream has torn: whoever reads from
\* it may wait, with the mutex, for bytes that never come, and all others for it.
EveryJobEnds ==
    \A j \in Jobs : (jpc[j] # "new") ~> (verdict[j] # "none" \/ wk.torn)

=============================================================================
