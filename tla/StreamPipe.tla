----------------------------- MODULE StreamPipe ----------------------------
(* Streams through one worker: handle_stream of server/mod.rs, its hang-up   *)
(* watcher, stream_relay of server/tts.rs, the pipe the worker writes its    *)
(* frames to, and the streaming half of worker.rs.                           *)
(*                                                                           *)
(* proto.rs writes and reads a frame in parts: the kind, the length, and a   *)
(* payload if there is one.  The reader sits in a select! with the           *)
(* cancellation, which drops it wherever it is; the bytes it had read are    *)
(* lost.  Eviction, batches and the cancel signal's way into the worker are  *)
(* in WorkerSupervisor; here a cancelled generation may fail like any other. *)
EXTENDS Naturals, Sequences, SequencesExt

CONSTANTS
    Streams,    \* streaming requests
    NoStream,   \* no streaming request
    Chunks,     \* Chunks[s]: how many chunks the generation of s makes
    PipeCap,    \* frame parts the worker's stdout holds
    ChanCap,    \* capacity of the channel of frames
    MaxCrashes  \* bound: how often a worker dies by itself

ASSUME NoStreamAssumption == NoStream \notin Streams
ASSUME SizesAssumption ==
    /\ Chunks \in [Streams -> Nat] /\ MaxCrashes \in Nat
    /\ PipeCap \in Nat \ {0} /\ ChanCap \in Nat \ {0}

VARIABLES
    lockq,      \* Inner::state's mutex: waiters in order, the holder first
    handle,     \* whether Inner::state holds a RunningWorker
    worker,     \* the worker process
    pipe,       \* its stdout: parts of frames
    torn,       \* whether a part of a frame was dropped from this pipe
    rpc,        \* where each stream_relay is
    part,       \* what the holder's read_stream_frame reads next
    relayed,    \* the frame each stream_relay sends
    chan,       \* chan[s]: the channel between stream_relay and handle_stream
    hpc,        \* where each handle_stream is
    frame,      \* the frame each handle_stream writes
    received,   \* frames each client got
    gone,       \* clients that hung up
    watched,    \* connections whose hang-up watcher runs
    cancel,     \* requests whose cancel Notify has a permit
    misled,     \* history: streams that were read from a torn pipe
    crashes     \* how often a worker died by itself

relayVars == <<lockq, handle, rpc, part, relayed>>
handlerVars == <<hpc, frame, received, watched>>
signalVars == <<cancel, misled>>
vars == <<relayVars, worker, pipe, torn, chan, handlerVars, gone,
          signalVars, crashes>>

Frame(s, kind, n) == [stream |-> s, kind |-> kind, n |-> n]
NoFrame == Frame(NoStream, "none", 0)
ErrorFrame(s) == Frame(s, "error", 0)
Terminal == {"end", "error"}
Kinds == Terminal \union {"header", "chunk"}

\* write_stream_frame: an end frame has no payload.
Parts(f) == LET fields == IF f.kind = "end" THEN <<"kind", "len">>
                                            ELSE <<"kind", "len", "payload">>
            IN [i \in DOMAIN fields |-> [part |-> fields[i], frame |-> f]]

\* stdin and what is done of the current request: frames made, parts unwritten.
NoWorker == [proc |-> "none", stdin |-> <<>>, job |-> NoStream, made |-> 0,
             unwritten |-> <<>>]
IdleWorker == [NoWorker EXCEPT !.proc = "up"]

Init ==
    /\ lockq = <<>> /\ handle = FALSE
    /\ worker = NoWorker /\ pipe = <<>> /\ torn = FALSE
    /\ rpc = [s \in Streams |-> "new"] /\ part = "kind"
    /\ relayed = [s \in Streams |-> NoFrame]
    /\ chan = [s \in Streams |-> <<>>]
    /\ hpc = [s \in Streams |-> "new"]
    /\ frame = [s \in Streams |-> NoFrame]
    /\ received = [s \in Streams |-> <<>>]
    /\ gone = {} /\ watched = {} /\ cancel = {} /\ misled = {}
    /\ crashes = 0

Holds(s) == lockq # <<>> /\ Head(lockq) = s

-----------------------------------------------------------------------------
(* The client, and handle_stream with its watcher.                           *)

\* handle_stream starts the watcher and calls generate_stream, whose task asks
\* for the mutex.
Submit(s) ==
    /\ hpc[s] = "new"
    /\ hpc' = [hpc EXCEPT ![s] = "recv"]
    /\ watched' = watched \union {s}
    /\ rpc' = [rpc EXCEPT ![s] = "lock"]
    /\ lockq' = Append(lockq, s)
    /\ UNCHANGED <<handle, worker, pipe, torn, part, relayed, chan, frame,
                   received, gone, signalVars, crashes>>

HangUp(s) ==
    /\ hpc[s] \in {"recv", "write"} /\ s \notin gone
    /\ gone' = gone \union {s}
    /\ UNCHANGED <<relayVars, worker, pipe, torn, chan, handlerVars,
                   signalVars, crashes>>

\* The watcher reads end of file and stores a permit.
WatcherSeesEof(s) ==
    /\ s \in watched \intersect gone
    /\ watched' = watched \ {s}
    /\ cancel' = cancel \union {s}
    /\ UNCHANGED <<relayVars, worker, pipe, torn, chan, hpc, frame, received,
                   gone, misled, crashes>>

Recv(s) ==
    /\ hpc[s] = "recv" /\ chan[s] # <<>>
    /\ frame' = [frame EXCEPT ![s] = Head(chan[s])]
    /\ chan' = [chan EXCEPT ![s] = Tail(@)]
    /\ hpc' = [hpc EXCEPT ![s] = "write"]
    /\ UNCHANGED <<relayVars, worker, pipe, torn, received, watched, gone,
                   signalVars, crashes>>

\* The client reads what is written, or is gone and it is lost.  After a terminal
\* frame the watcher is aborted and the handler returns.
WriteFrame(s) ==
    /\ hpc[s] = "write"
    /\ received' = IF s \in gone THEN received
                   ELSE [received EXCEPT ![s] = Append(@, frame[s])]
    /\ IF frame[s].kind \in Terminal
         THEN hpc' = [hpc EXCEPT ![s] = "done"] /\ watched' = watched \ {s}
         ELSE hpc' = [hpc EXCEPT ![s] = "recv"] /\ UNCHANGED watched
    /\ frame' = [frame EXCEPT ![s] = NoFrame]
    /\ UNCHANGED <<relayVars, worker, pipe, torn, chan, gone, signalVars, crashes>>

\* `?` leaves handle_stream, drops the receiver and forgets the watcher, which
\* goes on.
WriteFails(s) ==
    /\ hpc[s] = "write" /\ s \in gone
    /\ hpc' = [hpc EXCEPT ![s] = "done"]
    /\ chan' = [chan EXCEPT ![s] = <<>>]
    /\ frame' = [frame EXCEPT ![s] = NoFrame]
    /\ UNCHANGED <<relayVars, worker, pipe, torn, received, watched, gone,
                   signalVars, crashes>>

-----------------------------------------------------------------------------
(* stream_relay.                                                             *)

Relay(s, at) == rpc' = [rpc EXCEPT ![s] = at]
Relays(s, f) == Relay(s, "send") /\ relayed' = [relayed EXCEPT ![s] = f]

\* *guard = None: the process and what it wrote are gone with the handle.
DropWorker == /\ handle' = FALSE
              /\ worker' = NoWorker /\ pipe' = <<>> /\ torn' = FALSE

Spawn(s) ==
    /\ rpc[s] = "lock" /\ Holds(s) /\ ~handle
    /\ handle' = TRUE
    /\ worker' = IdleWorker
    /\ UNCHANGED <<lockq, pipe, torn, rpc, part, relayed, chan, handlerVars,
                   gone, signalVars, crashes>>

SpawnFailed(s) ==
    /\ rpc[s] = "lock" /\ Holds(s) /\ ~handle
    /\ Relays(s, ErrorFrame(s))
    /\ UNCHANGED <<lockq, handle, worker, pipe, torn, part, chan, handlerVars,
                   gone, signalVars, crashes>>

\* try_wait says that the worker runs.
WorkerAlive(s) ==
    /\ rpc[s] = "lock" /\ Holds(s) /\ handle
    /\ worker.proc = "up"
    /\ Relay(s, "write")
    /\ UNCHANGED <<lockq, handle, worker, pipe, torn, part, relayed, chan,
                   handlerVars, gone, signalVars, crashes>>

WriteRequest(s) ==
    /\ rpc[s] = "write" /\ worker.proc = "up"
    /\ worker' = [worker EXCEPT !.stdin = Append(@, s)]
    /\ Relay(s, "read") /\ part' = "kind"
    /\ UNCHANGED <<lockq, handle, pipe, torn, relayed, chan, handlerVars, gone,
                   signalVars, crashes>>

\* The worker died before the request, while it is written, or before its
\* terminal frame: it is dropped, and the client gets an error frame.
WorkerLost(s) ==
    /\ worker.proc = "dead" /\ handle
    /\ \/ rpc[s] = "lock" /\ Holds(s)
       \/ rpc[s] = "write"
       \/ rpc[s] = "read" /\ pipe = <<>>
    /\ DropWorker
    /\ Relays(s, ErrorFrame(s))
    /\ UNCHANGED <<lockq, part, chan, handlerVars, gone, signalVars, crashes>>

\* The cancel branch of the select!: the read is dropped where it is and started
\* anew.  Whatever it had read of a frame is lost.
Cancel(s) ==
    /\ rpc[s] = "read" /\ s \in cancel
    /\ cancel' = cancel \ {s}
    /\ torn' = (torn \/ part # "kind")
    /\ misled' = IF torn' THEN misled \union {s} ELSE misled
    /\ part' = "kind"
    /\ UNCHANGED <<lockq, handle, worker, pipe, rpc, relayed, chan, handlerVars,
                   gone, crashes>>

\* read_stream_frame on a pipe in sync: the next part of a frame, or its last.
ReadPart(s) ==
    /\ rpc[s] = "read" /\ ~torn /\ pipe # <<>>
    /\ LET f == Head(pipe).frame
           i == CHOOSE k \in DOMAIN Parts(f) : Parts(f)[k].part = part
       IN IF i = Len(Parts(f))
            THEN Relays(s, f) /\ part' = "kind"
            ELSE part' = Parts(f)[i + 1].part /\ UNCHANGED <<rpc, relayed>>
    /\ pipe' = Tail(pipe)
    /\ UNCHANGED <<lockq, handle, worker, torn, chan, handlerVars, gone,
                   signalVars, crashes>>

\* On a torn pipe the rest of one frame and the frames behind it are taken for a
\* kind, a length and a payload of that length, and sooner or later for a frame:
\* one that seems to end the stream, or one the client makes nothing or noise of.
Misread(s) ==
    /\ rpc[s] = "read" /\ torn /\ pipe # <<>>
    /\ pipe' = Tail(pipe)
    /\ \/ UNCHANGED <<rpc, relayed>>
       \/ \E kind \in {"garbled", "end"} : Relays(s, Frame(NoStream, kind, 0))
    /\ misled' = misled \union {s}
    /\ UNCHANGED <<lockq, handle, worker, torn, part, chan, handlerVars, gone,
                   cancel, crashes>>

\* The length read there exceeds MAX_PAYLOAD.
MisreadTooLarge(s) ==
    /\ rpc[s] = "read" /\ torn /\ pipe # <<>>
    /\ DropWorker
    /\ Relays(s, ErrorFrame(s))
    /\ misled' = misled \union {s}
    /\ UNCHANGED <<lockq, part, chan, handlerVars, gone, cancel, crashes>>

\* Faulty variant: without a receiver the task returns at once.
SentReturning(s) ==
    IF relayed[s].kind \in Terminal \/ hpc[s] = "done"
      THEN Relay(s, "done") /\ lockq' = Tail(lockq)
      ELSE Relay(s, "read") /\ UNCHANGED lockq

\* After a terminal frame the guard is dropped.
Sent(s) ==
    IF relayed[s].kind \in Terminal
      THEN Relay(s, "done") /\ lockq' = Tail(lockq)
      ELSE Relay(s, "read") /\ UNCHANGED lockq

\* Faulty variants: a full channel grows (unbounded_channel), or loses audio (try_send).
SendUnbounded(s) ==
    /\ rpc[s] = "send" /\ hpc[s] # "done"
    /\ chan' = [chan EXCEPT ![s] = Append(@, relayed[s])]
    /\ Sent(s)
    /\ relayed' = [relayed EXCEPT ![s] = NoFrame]
    /\ UNCHANGED <<handle, worker, pipe, torn, part, handlerVars, gone,
                   signalVars, crashes>>

SendDropping(s) ==
    /\ rpc[s] = "send" /\ hpc[s] # "done"
    /\ relayed[s].kind \in Terminal => Len(chan[s]) < ChanCap
    /\ chan' = IF Len(chan[s]) < ChanCap
                 THEN [chan EXCEPT ![s] = Append(@, relayed[s])] ELSE chan
    /\ Sent(s)
    /\ relayed' = [relayed EXCEPT ![s] = NoFrame]
    /\ UNCHANGED <<handle, worker, pipe, torn, part, handlerVars, gone,
                   signalVars, crashes>>

\* tx.send waits for room in the channel, blind to a cancellation; ...
Send(s) ==
    /\ rpc[s] = "send" /\ hpc[s] # "done"
    /\ Len(chan[s]) < ChanCap
    /\ chan' = [chan EXCEPT ![s] = Append(@, relayed[s])]
    /\ Sent(s)
    /\ relayed' = [relayed EXCEPT ![s] = NoFrame]
    /\ UNCHANGED <<handle, worker, pipe, torn, part, handlerVars, gone,
                   signalVars, crashes>>

\* Faulty variant: it is sent again until someone takes it.
SendLostRetrying(s) ==
    /\ rpc[s] = "send" /\ hpc[s] = "done"
    /\ UNCHANGED vars

\* ... without a receiver the frame is dropped and the pipe drained.
SendLost(s) ==
    /\ rpc[s] = "send" /\ hpc[s] = "done"
    /\ Sent(s)
    /\ relayed' = [relayed EXCEPT ![s] = NoFrame]
    /\ UNCHANGED <<handle, worker, pipe, torn, part, chan, handlerVars, gone,
                   signalVars, crashes>>

-----------------------------------------------------------------------------
(* The worker.                                                               *)

Worker(w) ==
    /\ worker' = w
    /\ UNCHANGED <<relayVars, pipe, torn, chan, handlerVars, gone, signalVars,
                   crashes>>

Begin ==
    /\ worker.proc = "up" /\ worker.job = NoStream /\ worker.stdin # <<>>
    /\ Worker([worker EXCEPT !.job = Head(worker.stdin), !.stdin = Tail(@), !.made = 0])

Ready == worker.proc = "up" /\ worker.job # NoStream /\ worker.unwritten = <<>>

\* The frames of a generation that succeeds: a header before the first chunk.
Generation(s) ==
    (IF Chunks[s] = 0 THEN <<>> ELSE <<Frame(s, "header", 0)>>)
        \o [n \in 1..Chunks[s] |-> Frame(s, "chunk", n)]
        \o <<Frame(s, "end", 0)>>

\* A part goes out as soon as the pipe has room; after the last of a terminal
\* frame the worker turns to its next request.
WritePart(parts) ==
    /\ Len(pipe) < PipeCap
    /\ pipe' = Append(pipe, Head(parts))
    /\ worker' = [worker EXCEPT
          !.unwritten = Tail(parts),
          !.made = IF Head(parts).part = "kind" THEN @ + 1 ELSE @,
          !.job = IF Tail(parts) = <<>> /\ Head(parts).frame.kind \in Terminal
                    THEN NoStream ELSE @]
    /\ UNCHANGED <<relayVars, torn, chan, handlerVars, gone, signalVars, crashes>>

WriteFrameKind == Ready /\ WritePart(Parts(Generation(worker.job)[worker.made + 1]))

\* The synthesis fails or is cancelled.
WriteErrorKind == Ready /\ WritePart(Parts(ErrorFrame(worker.job)))

WriteRest == /\ worker.proc = "up" /\ worker.unwritten # <<>>
             /\ WritePart(worker.unwritten)

\* What it wrote can still be read.
Crash ==
    /\ worker.proc = "up" /\ crashes < MaxCrashes
    /\ crashes' = crashes + 1
    /\ worker' = [NoWorker EXCEPT !.proc = "dead"]
    /\ UNCHANGED <<relayVars, pipe, torn, chan, handlerVars, gone, signalVars>>

-----------------------------------------------------------------------------

HandlerTask(s) == Recv(s) \/ WriteFrame(s) \/ WriteFails(s)

RelayTask(s) ==
    \/ Spawn(s) \/ SpawnFailed(s) \/ WorkerAlive(s) \/ WriteRequest(s) \/ WorkerLost(s)
    \/ Cancel(s) \/ ReadPart(s) \/ Misread(s) \/ MisreadTooLarge(s)
    \/ Send(s) \/ SendLost(s)

WorkerTask == Begin \/ WriteFrameKind \/ WriteErrorKind \/ WriteRest

\* Every stream is over: its handler and its relay task returned.
Ended ==
    /\ \A s \in Streams : hpc[s] = "done" /\ rpc[s] = "done"
    /\ UNCHANGED vars

\* A torn pipe can leave the task that reads it waiting for bytes no one writes.
Starved ==
    /\ torn /\ pipe = <<>>
    /\ worker.job = NoStream /\ worker.stdin = <<>>
    /\ \E s \in Streams : rpc[s] = "read"
    /\ UNCHANGED vars

Next ==
    \/ \E s \in Streams : Submit(s) \/ HangUp(s) \/ WatcherSeesEof(s)
                          \/ HandlerTask(s) \/ RelayTask(s)
    \/ WorkerTask \/ Crash \/ Ended \/ Starved

Spec == Init /\ [][Next]_vars

\* Tasks are polled when ready, a generation ends, and a client reads the frames
\* written to it or hangs up.  Nobody is obliged to ask, hang up or crash.
Fairness ==
    /\ \A s \in Streams : WF_vars(HandlerTask(s)) /\ WF_vars(RelayTask(s))
    /\ WF_vars(WorkerTask)
FairSpec == Spec /\ Fairness

-----------------------------------------------------------------------------
(* Properties.                                                               *)

FrameSet == [stream : Streams \union {NoStream},
             kind : Kinds \union {"none", "garbled"}, n : Nat]
PartSet == [part : {"kind", "len", "payload"}, frame : FrameSet]

\* Types, with the capacities of the pipe and of the channels.
TypeOK ==
    /\ lockq \in Seq(Streams) /\ IsInjective(lockq)
    /\ handle \in BOOLEAN /\ torn \in BOOLEAN
    /\ worker \in [proc : {"none", "up", "dead"}, stdin : Seq(Streams),
                   job : Streams \union {NoStream}, made : Nat,
                   unwritten : Seq(PartSet)]
    /\ pipe \in Seq(PartSet) /\ Len(pipe) <= PipeCap
    /\ rpc \in [Streams -> {"new", "lock", "write", "read", "send", "done"}]
    /\ part \in {"kind", "len", "payload"}
    /\ relayed \in [Streams -> FrameSet]
    /\ chan \in [Streams -> Seq(FrameSet)]
    /\ \A s \in Streams : Len(chan[s]) <= ChanCap
    /\ hpc \in [Streams -> {"new", "recv", "write", "done"}]
    /\ frame \in [Streams -> FrameSet]
    /\ received \in [Streams -> Seq(FrameSet)]
    /\ gone \subseteq Streams /\ watched \subseteq Streams
    /\ cancel \subseteq gone /\ misled \subseteq Streams
    /\ crashes \in 0..MaxCrashes

\* Nobody is at work on the pipe: the mutex is free, or its holder has yet to write.
Released == lockq = <<>> \/ rpc[Head(lockq)] = "lock"
WorkerKept == handle /\ worker.proc = "up"
Drained == pipe = <<>> /\ worker.job = NoStream /\ worker.stdin = <<>>

\* stream_relay drains what the client does not want, "so the worker pipe stays in
\* sync for the next request": whoever gets the mutex finds the worker idle and
\* its pipe empty.
LeavesPipeInSync == Released /\ WorkerKept => Drained

\* That is so whatever the client, the worker and the channel do, except where a
\* cancellation fell into the middle of a frame.
DrainedUnlessTorn == Released /\ WorkerKept /\ ~torn => Drained

KindsOf(frames) == {frames[i].kind : i \in DOMAIN frames}
ChunksOf(frames) ==
    FlattenSeq([i \in DOMAIN frames |-> IF frames[i].kind = "chunk" THEN <<frames[i]>> ELSE <<>>])
LastOf(frames) == CASE "end" \in KindsOf(frames) -> "end"
                    [] "end" \notin KindsOf(frames) /\ "error" \in KindsOf(frames) -> "error"
                    [] OTHER -> "none"

Service == INSTANCE StreamService WITH
    Clients <- Streams,
    whole   <- [s \in Streams |-> ChunksOf(Generation(s))],
    complete <- [s \in Streams |-> TRUE],
    header  <- [s \in Streams |-> "header" \in KindsOf(received[s])],
    audio   <- [s \in Streams |-> ChunksOf(received[s])],
    last    <- [s \in Streams |-> LastOf(received[s])]

\* Every frame a client gets is one its request may get next, StreamService says:
\* no frame of another stream, none lost, repeated or late, and an end only after
\* all the audio; again except for the streams read from a torn pipe.
FramesAsPromised ==
    /\ Service!Init
    /\ [][ \/ Service!Next
           \/ \E s \in misled : received'[s] # received[s] ]_(Service!vars)

\* Every stream ends, and gives the mutex back, although it may be blocked on a
\* full channel, on a dead client or on a dead worker; a torn pipe excepted.
EveryStreamEnds ==
    \A s \in Streams :
        (hpc[s] = "recv") ~> (hpc[s] = "done" /\ rpc[s] = "done") \/ misled # {}

=============================================================================
