# A verification project for mii-sound

mii-sound is a text-to-speech server and its client. The server keeps one
*worker* process with the model loaded, batches requests, streams audio,
unloads the worker when it is idle, or relays everything to an HTTP upstream.
The specifications here are about the part that is hard to test: several tokio
tasks, one queue, one child process, its two pipes and one signal.

Line numbers refer to `src/src/...`; `PROJECT.json` maps every definition to its
lines.

## 1. Inventory

| component | source | state | operations | model |
|---|---|---|---|---|
| Batching dispatcher | `server/tts.rs` | `Inner::queue` (deque under a mutex), `queue_notify` (one permit), the dispatcher's batch, one oneshot channel per call | `generate`, `dispatcher_loop`, `drain_matching`, `dispatch_batch`, `requeue_front` | `BatchDispatcher`, `TtsService` |
| Worker supervisor | `server/tts.rs` | `Inner::state` (the worker's handle under a mutex), cancel notifications, watchers' counter | `spawn_worker`, `dispatch_batch`, `stream_relay`, `send_cancel_signal`, eviction task | `WorkerSupervisor` |
| Worker process | `worker.rs` | the request in hand, `current_cancel`, model mutex (can be poisoned), stdin, stdout | `run`, `handle_batch_request`, `handle_stream_request`, `install_cancel_handler` | `WorkerSupervisor` |
| Relay streaming | `server/mod.rs`, `server/relay.rs` | WAV header buffer, carried byte, channel of 8 frames, `final_kind` | `handle_stream_relay`, `tts_stream`, `relay_wav_stream`, `forward_pcm_chunk` | `RelayStream` |
| Relay requests | `server/relay.rs`, `server/mod.rs` | the call's watcher | `Relay::tts`, `Relay::status`, `dispatch_relay` | `Connection` |
| Connection handling | `server/mod.rs` | one request per connection, disconnect watcher | token check, `dispatch`, `handle_stream` | `Connection`, `StreamPipe` |
| Client | `client/*.rs` | WAV file or stdout sink | validation, request, `StreamSink`, exit codes | `Connection` |
| Wire protocol | `proto.rs` | none | framing, limits | frames in parts, refusals; no bytes |
| Synthesis | `synth.rs` | none | `synthesize*`, `build_prompt` | its outcomes |
| Exit codes | `exit.rs` | none | the table | `Connection` |
| Transport, CLI | `transport.rs`, `cli.rs`, `main.rs` | none | names, arguments | no |

**Interactions.** A connection task calls `generate` (push, notify, wait on a
oneshot) or `generate_stream` (spawn a task, read a channel). The dispatcher task
and the stream tasks meet at the mutex `Inner::state`, held while the worker
serves a request; the eviction task takes the same mutex. The worker is reached
by its stdin and stdout and, for cancellation, by SIGUSR1, which takes no lock.
A connection's watcher turns a hang-up into a permit of the request's `cancel`
Notify; in relay mode the handler reads the connection itself and aborts the
forwarding task.

**What is hard.** Wakeups between a mutex and a Notify; a batch that is put
back in front of younger and older calls; a signal that is neither ordered with
the request it means nor with the handler that is to receive it; a worker that
dies between any two steps; a stream that must be drained before the next
request may use the pipe; a panic that skips a terminal frame; a bounded channel
between two tasks that also wait for each other; chunk boundaries inside a
header or a sample; a read that is dropped in the middle of a frame; a response to a
client that expects frames; an upstream that ends before its generation does.
`PROJECT.json` lists 37 hazards with their lines.

**What makes each component correct.**

* *Dispatcher*: no wakeup is lost; a call is in one place, once; a batch has one
  key; the oldest call is in the next group and order within a key is kept; every
  call is answered.
* *Supervisor and worker*: pipes hold one job's messages, whose task holds the
  mutex; the worker of a job is not taken away; one model is loaded; only a batch
  that lost *all* its clients is cancelled, and it is; a worker that failed a job
  is replaced; every job ends.
* *Relay*: each sample once and in order, one terminal frame and nothing after
  it, an end only after everything the upstream sent; the handler returns and the upstream call
  ends with it.
* *Connection, client*: an exit code of zero means that everything is there;
  any other is that of the server's last word or, without one, says so; no
  partial file of a stream is taken for a complete one; a hang-up cancels the
  call; every client exits, unless one of three waits without a limit keeps it.
* *Wire*: what is written is what is read back (not modelled), and a reader that is
  dropped between two parts of a frame leaves the pipe in sync (it does not).

## 2. Modules

```
TtsService    <-- implemented by --  BatchDispatcher   <-- MCBatchDispatcher
                                            ^---- BatchDispatcherProofs <-- BatchOrderProofs
WorkerService <-- implemented by --  WorkerSupervisor  <-- MCWorkerSupervisor
                                            ^---- WorkerSupervisorProofs
StreamService <-- implemented by --  StreamPipe        <-- MCStreamPipe
              |                             ^---- StreamPipeProofs
              <-- implemented by --  RelayStream       <-- MCRelayStream
              |                             ^---- RelayStreamProofs <-- RelayOrderProofs
              <-- used by ---------  Connection        <-- MCConnection
                                            ^---- ConnectionProofs

SequenceItems: lemmas about sequences, used by all the proofs
```

The abstract modules are where the others meet. BatchDispatcher lets
`dispatch_batch` have every outcome that WorkerService allows a batch (the requeue
included), and WorkerSupervisor shows that the worker and its supervisor deliver no
others, for batches within `MAX_BATCH`. Connection takes the
frames of a stream from StreamService's actions, and StreamPipe and RelayStream
show that the local worker and an upstream deliver no others. (A stream read from a
torn pipe is outside StreamService, and so outside Connection.)

Operators commented as *faulty variant* are no part of a specification. Each
changes one definition in the way a slip in the code would (a permit that is
stored only for a waiter, a batch put at the wrong end of the queue, a lock
released early), and is there
to show that the property it is paired with in `PROJECT.json` notices.

### TtsService
The promise, without queue or worker: calls are accepted with a key and a ticket
(arrival number), and answered in groups. A group contains the oldest pending
call, has one key and at most `Parallel` members, and overtakes no older call of
its key.

### BatchDispatcher
`queue` and `batch` are the deque and the vector; `dpc` is the await or the loop
the dispatcher is at (`take`, `empty`, `parked`, `drain`, `grace`, `dispatch`); `idx` is
the cursor of `drain_matching`; `permit` is the Notify's memory; `notifying` are the
calls between `push_back` and `notify_one`, two steps in the code because the
mutex is released in between. `key`, `ticket` and `arrivals` identify calls;
`answer` is what came out of each oneshot.

`Enqueue` and `NotifyOne` are `generate`; `PopFront`, `FindEmpty`, `Park`, `Wake`,
`GraceNotified` and `GraceOver` are `dispatcher_loop`; `DrainItem`, `DrainSkip`
and `DrainDone` are `drain_matching`, item by item, with `Enqueue` shut out by
the mutex. `FindEmpty` and `Park` are two steps because the mutex is released
between them: a call pushed and notified there is remembered by the permit only.
`dispatch_batch` appears by its outcomes: no worker can be started
(`SpawnFailed`), the worker died since its last request (`RequeueFront`), the write is
refused for size (`WriteRejected`), the worker is lost with the batch (`WorkerLost`),
the worker answers (`Respond`), or what a torn pipe holds passes for an answer
(`Misread`). `losses` counts the workers that died or whose pipe broke. That
`dispatch_batch` returns is assumed here; `WorkerSupervisor` is about when it does
(section 4, nos. 3 and 4, are when it does not).

Parsing errors are not modelled: `dispatch` parsed the same bytes to the same
type before it called `generate`, so the branches are not reachable, here and in
the worker.

### WorkerSupervisor
A *job* is one request to the worker: a batch, with `Width` clients, or a stream,
with one. `lockq` is the fair mutex `Inner::state`, holder first. `jpc` follows
the task of each job through `dispatch_batch` or `stream_relay`, which differ
where the code differs: who sends the signal (the last of the batch's watchers,
or the `select!` of the stream) and what a dead worker leads to (requeue, or an
error frame). `wk` is the process: whether it loads, runs or is dead; whether its
signal handler is installed; where its main loop is; the cancel slot; a pending
signal; the poisoned model mutex; the messages in its pipes; and whether a read of
them was given up in the middle of a frame (`torn`). A spawn may be refused before
there is a process (`SpawnRefused`), and loading may fail (`LoadFails`); the audio of a
batch item may exceed what a response may hold (`oversize`, `ReadOversize`).
`killing` holds the jobs whose last watcher is past its await: `abort()` does not
stop it, so it may kill later than its job ends.

`StreamCancel` is the cancel branch of the `select!`: it sends the signal and gives up
the read, which tears the pipe if it was in the middle of a frame; where it was is a
choice, once the worker may have written. What is read from a torn pipe is not
spelled out in bytes: a job may take it for its answer (`MisreadReply`, told as
`garbled`), for a length above the limit (`MisreadTooLarge`, which drops a worker that
lives), for part of something else (`MisreadPart`), or wait for more for ever.

Abstractions: pipes hold whole messages (but for `torn`), and of a stream only the
terminal frame; `kill_on_drop` takes effect at once, for a process that lives too, so
that `OneWorker` counts one that was killed as gone; a batch is within `MAX_BATCH`
(BatchDispatcher has the larger ones); the clock is nondeterministic (the
eviction task may find the worker idle for long enough, or not); the
process dies by itself at most `MaxCrashes` times; a client whose job is over may
still hang up, as it may in the code. `handle_request` (op 1) is not modelled:
the server sends the worker batches and streams only.

### WorkerService
The promise to a job: it waits, is served alone by a worker that is `well` or
`harmed`, and is told one of the outcomes. A worker that is well answers; "cancelled"
needs a job whose clients all hung up; "garbled" and a pipe error need a worker
that is harmed *now*, and a pipe error leaves none, so that the next job gets a new
one; a batch that finds the worker harmed before it has it gets another, a stream is
told "worker exited"; "model missing" is for a job that found no worker and got none.

`JobsAsPromised` maps WorkerSupervisor to it: a job waits from its request for the
mutex and is served from the write to the end; the worker is that of
`Inner::state`, and harmed while it is dead, torn, or has a response above the limit
in its pipe.

### StreamService
The promise to the client of a stream: its source makes audio until it says that
this is all; the client gets one header, chunks that extend a prefix of the audio,
one terminal frame, and `end` only when the source said so, after everything. For
the local worker the source is the synthesis, complete from the start; for a relay it
is what the upstream sends, complete when the upstream ends its response, which is
not to say that the upstream's generation is (section 4, no. 7).

### StreamPipe
Two streams after one another through one worker. A frame is what `proto.rs`
makes of it: a kind, a length, and a payload if there is one, written and read one
after the other; `pipe` holds such parts. `part` is how far `read_stream_frame` of
the mutex' holder is. `Cancel` is the other branch of the `select!`: it starts the
read anew, and if it was in the middle of a frame the pipe is `torn` from then on.
What is read from a torn pipe is not spelled out in bytes: `Misread` may find
nothing yet, a frame that is noise, or one that seems to end the stream, and
`MisreadTooLarge` a length above `MAX_PAYLOAD`. `misled` remembers the streams that
read there, so that the properties say what holds of all others.

`hpc` is `handle_stream`, `rpc` is `stream_relay`, `chan` the channel between them,
`watched` the connections whose watcher lives (it outlives a handler that left by
`?`). The `None` arm of `handle_stream` (channel closed without a terminal frame)
needs a panic in `stream_relay`, which has no step that can; it is left out. A
panic of the synthesis is in WorkerSupervisor.

### Connection
One invocation of the client against one server, in every `scene`: the server's
mode, socket or TCP, the token, the operation, file or pipe, an output that may
fail, a request that is good, refused by the client, refused by the server's
parser (a `cfg` that is not a number) or too large, a generation without samples,
a server that does not run. `cpc` is the client, `spc` the connection's task,
`inbox` and `outbox` what is in the socket. A close with unread data resets the
connection: what was sent may be lost (`ConnectionReset`). The server may be stopped
and the client killed at any step.

`told` is the exit code that the server's last word stands for, and the
properties relate the client's `code` and `output` to it. The engine and the
upstream are their results; a stream's frames are StreamService's, so that a stream
without samples may end without a header (the client leaves the empty file as it is,
and `ExitZeroMeansComplete` asks for no header there), and a relayed stream is complete when its
upstream says so.

### RelayStream
The forwarding task (`fpc`, header bytes seen, body position, carried byte,
frames of the current chunk still to be sent), the channel, and the handler
(`pc`, `frame`, `final`). A byte of the body is its number, so that a sample is the
pair of its bytes' numbers and a sample put together from the wrong bytes is
visible. The upstream cuts the stream anywhere, fails, sends a bad header, or ends its
response, at any position (`closed`); the client hangs up at any time, and a write to it then fails or is lost.

## 3. What is checked

| run | instance | shows |
|---|---|---|
| `dispatcher_safety` | 4 calls, 2 keys, batches of 3, 1 worker lost, symmetry | `NoLostWakeup`, `Placement`, `BatchShape`, and `ServesInOrder`: BatchDispatcher implements TtsService |
| `dispatcher_live` | 3 calls, 2 keys, batches of 2 with a limit of 1, 1 worker lost | every call is answered |
| `supervisor_safety` | 2 batches of 1, a stream, eviction, panics, 1 crash, symmetry | `PipesInSync`, `WorkerHeld`, `OneWorker`, `CancelNeedsDesertion`, and `JobsAsPromised`: WorkerSupervisor implements WorkerService |
| `supervisor_live` | a batch of 2 and a stream, eviction, 1 crash, no panics | `CancelNeedsDesertion` where one of two clients hangs up; no task reads from an idle worker, and every job ends, unless the pipe is torn |
| `supervisor_spurious` | 2 batches of 1 | *violation*: a late signal cancels the next batch |
| `supervisor_lostcancel` | 1 batch of 1 | *violation*: an early signal is lost |
| `supervisor_streampanic` | 1 stream, panics | *violation*: no terminal frame after a panic |
| `relay_forward` | header of 3, body of 7, chunks of 1 to 4, channel of 2 | samples in order, an end after all that was sent, terminal frame, `FramesAsPromised`: RelayStream implements StreamService; the handler returns and the forwarding task ends |
| `relay_hangup` | the same, body of 3 | *violation*: the forwarding task outlives a hang-up |
| `stream_pipe` | 2 streams of 0 and 1 chunks, a pipe of 2 parts, a channel of 1, 1 crash | the pipe is drained, `FramesAsPromised`: StreamPipe implements StreamService, every stream ends; all but for torn pipes |
| `pipe_desync` | the same | *violation*: a cancellation in the middle of a frame leaves the rest of the stream to the next request |
| `connection` | 555 scenes, 2 samples in one chunk or two | exit code and output say what happened, a hang-up cancels the call, every client exits that no call, probe or silent stream keeps |

**Why the bounds are enough.** Four calls of two keys with batches of three let
a batch be partial, leave calls of both keys behind it, wait in the grace window
while another call is between its push and its notification, and be requeued in
front of younger calls of its own key and of an older one of the other key; a
second crash repeats the requeue from a queue of the same kind. In
WorkerSupervisor a second batch is what a late signal can hit, and it or the stream
what finds a torn pipe or the rest of a response; the stream and the eviction task are
the other two users of the mutex. Two clients are what separates *one* hung up from
*all*, which only `CancelNeedsDesertion` tells apart: the batch of `supervisor_live`
has two. In RelayStream a header of three and a body of
seven bytes are cut at every offset and parity, with an odd byte left over, and a
channel of two fills. In StreamPipe the stream of no chunks is the one without a
header, the other has every kind of frame; a pipe of two parts is smaller than a
frame, so that the worker blocks in the middle of one; a channel of one fills at
once; a second stream is who finds what the first left. Connection has one client
and one connection because connections share nothing there; two samples allow
a stream to break off between chunks. Symmetry permutes calls, keys or batches and is used in
safety runs only, over sets no formula distinguishes. `TtsService!Spec` is a
safety property, and symmetric too.

**Deadlock.** `Quiescent` (all calls answered, dispatcher parked) and `Ended` (the
handler returned, its task is over or dropped) are the states in which those
systems rightly stop, so that any other stop is reported. In the
WorkerSupervisor runs with `CHECK_DEADLOCK FALSE` the system may stop: a
stream's panic or a torn pipe leaves it waiting for ever (the findings), and without
an eviction task a run simply ends. StreamPipe has `Ended` too, and `Starved`: the reader of a
torn pipe waits for bytes that nobody writes. Connection ends when the client is
gone and the connection closed.

**Fairness.** Weak fairness of the dispatcher and of each call's `notify_one`
(tokio polls ready tasks and timers fire); of each job's task, the eviction task
and the worker's main task (the same, and the assumption that loading and
synthesis end); of the relay's forwarding task (the upstream sends or ends) and
handler (a client that listens reads). `HandlerReturns` and `ForwarderEnds` rest on the
upstream going on, which is assumed there and not in Connection. In StreamPipe a handler's write ends: its
client reads, or is gone and the write fails. A client that does neither would hold
the mutex for ever through a full channel; no timeout in the code prevents it. In
Connection the client and the server's own steps are fair, but a call to the engine or
the upstream, a probe of the upstream's status, and the frames of a stream may never
come: neither `stream_relay` nor `relay_wav_stream` has a timeout, a panic or a torn
pipe leaves a local stream silent, and an upstream may stall. `EveryClientExits` says
that these three waits are all that can keep a client. Only a call to
the upstream whose watcher fired must end (`CallCancelled`), because the `select!` of
`dispatch_relay` drops it. The client's output takes what is written or fails. Clients'
wishes, crashes, the eviction tick, signal delivery, the installation of the handler
and what is read from a torn pipe owe nothing. The mutex is
the queue `lockq`, as tokio's mutex is FIFO, so no strong fairness is needed.
Crashes are bounded: a worker that dies before *every* request is retried for
ever by the code, without a limit, and liveness excludes that.

## 4. What the code does otherwise than it says

1. **A late signal cancels the wrong batch** (`tts.rs:413`,
   `supervisor_spurious`). Aborting the watchers does not stop one that is past
   its await, and the worker handles the signal when it gets to it. If the first
   batch is over by then, the token in the slot is that of the next, whose
   clients are told "cancelled". What does hold is `CancelNeedsDesertion`.
2. **An early signal is lost** (`worker.rs:433`, `supervisor_lostcancel`). A client
   that hung up while its request was queued makes the signal follow the write at
   once; the worker may handle it before the slot is filled, and it is not
   repeated.
3. **A cancelled read desynchronises the pipe** (`tts.rs:241`, `pipe_desync`). When
   the client of a stream hangs up while `read_stream_frame` is in the middle of a
   frame, what was read of it is lost. Most often the next "length" is then too
   large and a healthy worker is dropped with "worker pipe error", or the reader
   waits, with the mutex, for bytes that never come; but what is read may also
   look like a terminal frame, and then the next request reads the rest.
   `DrainedUnlessTorn`, `PipesInSync` and `FramesAsPromised` say that nothing else
   desynchronises it; `EveryJobEnds` and `NoReadFromIdleWorker` make it their
   exception, and so does the assumption of `EveryCallAnswered` that
   `dispatch_batch` returns, for this and for no. 4.
4. **A panic in a streaming synthesis stops the server** (`worker.rs:387`,
   `supervisor_streampanic`). No terminal frame is written and the worker waits
   for a request, while `stream_relay` waits for a frame with the mutex held.
5. **A relay client that hangs up during a write** (`server/mod.rs:561`,
   `relay_hangup`): the handler returns by `?` and does not abort the
   forwarding task, which reads the upstream to its end (`ForwarderEnds` says that it
   does end).

Two more are part of the models, and of what the properties allow, without a run that
shows them as violations:

6. **`--parallel` has a maximum** (`proto.rs:197`, `WriteRejected`). `specs.md:41` says
   that it "is not defined", and nothing limits the option; but a batch of more than
   `MAX_BATCH` items is refused, all its calls fail with "worker pipe error", and a
   worker that is well is dropped. No property says that a pipe error means a lost
   worker, as it does not.
7. **A relayed generation that breaks off looks complete** (`server/relay.rs:285`,
   `UpstreamEnds`). The upstream is this program's client behind an HTTP facade
   (`mii-sound.http`): a generation that fails after some audio shows in its exit code,
   which comes after the response has begun. If the response then ends cleanly, the
   relay sends `KIND_END`, and the local client finalizes its file and exits with
   zero. Generated locally (`specs.md:34`) it would have ended with `KIND_ERROR`. What
   does hold is `EndIsComplete`: the end comes after all that the upstream sent.

Behaviour worth knowing that contradicts no text, visible in the models:

* A signal that comes before the worker's handler is installed (a spawned task,
  `worker.rs:425`, which nothing orders before the ready byte) ends the worker.
* An answer whose audio is above `MAX_PAYLOAD` costs the worker its place: the supervisor
  stops reading in the middle and drops it (`proto.rs:277`, `ReadOversize`).
* A stream with a wrong token exits with 5, "unknown stream frame kind 4", not 4
  (`server/mod.rs:201`, `client/mod.rs:209`); a request above `MAX_JSON` or `MAX_AUDIO` is
  never answered and exits with 1, or 5 if it is a stream (`proto.rs:158`).
  `ExitTellsVerdict` exempts both: it promises no code where the server's word, if
  there is one, is not to the request.
* A status of a relay whose upstream never answers waits for ever
  (`server/mod.rs:417`), and a relayed stream whose upstream stalls waits until its
  client hangs up (`server/relay.rs:283`).
* Only streams mark a partial file: that of a one-shot request is written
  with its full sizes in the header, and a client killed during the write leaves
  it so.

## 5. What is proved

Every invariant, and every safety and refinement property, of the passing runs is a
theorem about its module, for every value of the constants that the module's
assumptions allow. The `*Proofs` modules hold the theorems and name
their steps after the actions.

| theorem | property | |
|---|---|---|
| `BatchDispatcherProofs!TypeCorrect` | `TypeOK` | the cursor stays within the shrinking queue, no batch above `Parallel` |
| `WakeupsReachDispatcher` | `NoLostWakeup` | |
| `CallsHeldOnce` | `Placement` | |
| `BatchesShareKey` | `BatchShape` | |
| `BatchOrderProofs!ServiceImplemented` | `ServesInOrder` | BatchDispatcher implements TtsService |
| `WorkerSupervisorProofs!TypeCorrect` | `TypeOK` | what a job is told is one of the outcomes |
| `PipesStayInSync` | `PipesInSync` | until a cancelled read tears the pipe; the next worker starts in sync |
| `WorkerStaysHeld` | `WorkerHeld` | |
| `OneWorkerAtATime` | `OneWorker` | |
| `CancellationNeedsDesertion` | `CancelNeedsDesertion` | |
| `ReaderIsAnswered` | `NoReadFromIdleWorker` | while the pipe is not torn, assuming `~MayPanic`; section 4, nos. 3 and 4 are the other cases |
| `ServiceIsKept` | `JobsAsPromised` | WorkerSupervisor implements WorkerService: a worker that failed a job is replaced |
| `RelayStreamProofs!TypeCorrect` | `TypeOK` | |
| `RelayOrderProofs!SamplesKeepOrder` | `SamplesInOrder` | |
| `EndIsLast` | `EndIsComplete` | wherever the upstream ends its response |
| `StayingClientIsTold` | `StayingClientGetsTerminal` | |
| `ServiceRelayed` | `FramesAsPromised` | RelayStream implements StreamService |
| `StreamPipeProofs!TypeCorrect` | `TypeOK` | |
| `PipeStaysDrained` | `DrainedUnlessTorn` | |
| `ServiceStreamed` | `FramesAsPromised` | StreamPipe implements StreamService, but for streams read from a torn pipe |
| `ConnectionProofs!TypeCorrect` | `TypeOK` | |
| `ZeroMeansComplete` | `ExitZeroMeansComplete` | |
| `CodeTellsVerdict` | `ExitTellsVerdict` | |
| `PartialFileStaysMarked` | `PartialFileIsMarked` | |

**Assumptions.** Those on constants are in the modules and evaluated by the
runs: sizes, capacities and bounds are naturals (positive where a queue, a chunk, a
header or a batch of size 0 has no meaning); `NoKey`, `NoStream`, `NoJob` and
`Evictor` are none of the things they stand beside; batches and streams are different
jobs; the audio of a Connection is a sequence of `Sounds`. One theorem has a
hypothesis of its own, `ReaderIsAnswered`: a panic leaves a reader without an answer
(section 4, no. 4). Two have an exception in the property itself, the torn pipe.

**The dispatcher.** `TypeOK` is inductive by itself. The other invariants follow from
`DispatcherInv == Placement /\ BatchShape /\ Scanned /\ NoLostWakeup`. `Scanned`
is the strengthening `NoLostWakeup` needs: during a drain no item of the batch's
key is left before the cursor. When the drain ends with room in the batch, the
cursor is past the queue, so nothing of the key is left in it; a call pushed
afterwards is in `notifying` until it stores the permit.

That a group overtakes nobody (`ServesInOrder`) needs to know how far the queue is
from the order of arrival. `QueueOrder`: an item stands before an older one only if
it may have been requeued, so that the older is of another key, all before the item
are of the batch's key, and the batch has room for them. `BatchOrder` and
`HeadOldest`: the batch is in order, before what the queue has of its key, and begins
with the oldest call of all. The argument is that the next drain takes all that was
requeued back before the grace window, which is where `Scanned` and the room
in the batch come in; from then on the queue is in order until the next requeue.

**The supervisor.** `SupervisorInv` is one invariant over mutex, handle, process,
pipes and signals. `Mutex` and `Ownership` say who may touch the worker and who
answers for its process at each await (a spawning task, the handle, the eviction
task). `MainTask`, and `Pipes` as long as the pipe is not torn, say that a job writes
into empty pipes of a worker that nobody else reads from. `Strays` is what is left of
that when it is: a torn worker is held by `Inner::state` or being evicted, so that a
new one starts in sync, and what is in its pipes is of jobs that wrote a request.
`Signals` and `Told` relate a cancellation to the clients that hung up, even if the
signal is late. The properties follow. `JobsAsPromised` is a case for each kind of
step (`KindsOfSteps`): those that drop the worker, spare it, or take a message from it;
that a signal or a crash makes a worker `harmed` and nothing makes it well again
(`HarmStays`) is what the mapping of the worker rests on. `AnswerInSight` adds, without
panics, that what a reader of an untorn pipe waits for is in a pipe or in the worker's
hands.

**The relay.** `MadeInv` is about the forwarding task alone: the carried byte is the
last of an odd position, nothing is made of the body before the header is whole, a
terminal frame is the last of what is made. `LineInv` puts what the client received,
what is being written, the channel and the frames not yet sent into one line: its
samples are those of the body up to the position, its kinds are where a
stream has them, and after a terminal frame there is nothing. Neither the handler
nor the channel changes the line, which is the reason for it: they move frames
along. `ClosedLast` and `Concluded` say that an end is made only when the upstream
has ended its response, and that nothing is read after it: the position is then that
of the end. Of a client that hung up only `EndIsComplete` says something.

**The pipe.** `PipeInv` says that worker and reader are at the same part of the
same frame: `Writing` orders the parts written and yet to be written, `Synchronised` says
that the first of them is the one read next, that a terminal frame is the last, and
that a pipe nobody reads is drained. All of it holds until the pipe is `torn`.
`LineInv` adds which frames: for every stream whose client is there and that was not
read from a torn pipe, what was read of it (`Lined`) is a prefix of the generation or
ends in an error, and what is in the pipe and the worker goes on where that stops
(`Ahead`).

**The connection.** `ConnectionInv` relates the two ends: how far one can be while the
other is where it is (`Order`), that the server has read all when it
answers, so that its close does not reset the connection (`Unread`), that its last word
comes last (`Answered`), and that the output, continued by what is on its way, is
what was sent, which is a prefix of the audio (`Streamed`, `Sent`). `Exited` holds the
properties, and that a client which exits while the server goes on has lost its
output.

**Lemmas about sequences.** `SequenceItems` states once what `RemoveAt`, `Append`, `Tail` and
concatenation do to the items of a queue and to their being distinct. It also proves
that `FlattenSeq` and the data of a sequence of messages are additive over
concatenation. As these are recursive functions, that takes an induction, done over
a set (`LeastNatural`, `SequencesByAppend`: a set of sequences that holds the
empty one and is closed under `Append` holds all).

**Model-checked only.** Liveness: `EveryCallAnswered`, `EveryJobEnds`, `HandlerReturns`,
`ForwarderEnds`, `EveryStreamEnds`, `HangUpCancelsCall` and `EveryClientExits` (fairness and
ENABLED are beyond the proof system's backends). And that a state without a
successor is one in which the system may stop.

**Not modelled.** Values of samples (`/ 32768`, `* 32767`), JSON, the bytes of frames
and what they may be mistaken for one by one, socket names, logging, WAV encoding,
voxcpm-rs and `build_prompt`, the Windows variant (which does not forward
cancellation), time: that `--holds` counts from the end of the last job, and that a
batch waits for its window.

## 6. Plan

In order.

1. `TtsService`, `BatchDispatcher`: the queue, which every call passes. *Done.*
2. `BatchDispatcherProofs`: types, wakeups, placement, shape. *Done.*
3. `WorkerSupervisor`: the mutex, the process, cancellation, eviction. *Done.*
4. `RelayStream`. *Done.*
5. `StreamPipe`, with StreamService: partial reads, the slow client, the
   cancellation in the middle of a frame. *Done.*
6. `Connection`: token, dispatch, one request in relay mode, exit codes and
   `StreamSink`. *Done.*
7. `WorkerService`, so that BatchDispatcher's assumptions about `dispatch_batch` are
   what WorkerSupervisor shows. *Done.*
8. The refinements, and all invariants of the runs, as theorems. *Done.*
9. The values of samples: a relayed sample loses one step at most,
   `(x * 32767) \div 32768` against `x` over the integers of 16 bits, and the sizes
   in the header of a file whose byte counter saturates. A module of its own, with
   a run, and a theorem if the solvers' arithmetic with these constants allows it.
10. What is listed under "hazards" without a property and is not exempt by design:
    `last_used` of a call in the grace window, an unlimited requeue, a worker that is
    never ready.
