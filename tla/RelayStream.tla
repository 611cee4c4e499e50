---------------------------- MODULE RelayStream ----------------------------
(* One streaming request in relay mode: handle_stream_relay of server/mod.rs *)
(* and the task it spawns, Relay::tts_stream of server/relay.rs, joined by a *)
(* bounded channel of frames.                                                *)
(*                                                                           *)
(* The upstream answers with a WAV in chunks of any size: a header and 16-bit*)
(* samples.  A byte of the body is its number, so that a sample is the pair  *)
(* of its bytes' numbers.  The client may hang up at any time.               *)
EXTENDS Naturals, Sequences, SequencesExt

CONSTANTS
    HeaderLen,  \* WAV_HEADER_LEN
    BodyLen,    \* bytes of PCM in the upstream's whole generation
    MaxChunk,   \* bytes in an upstream chunk, at most
    ChanCap     \* capacity of the channel of frames

ASSUME SizesAssumption ==
    /\ HeaderLen \in Nat \ {0} /\ BodyLen \in Nat
    /\ MaxChunk \in Nat \ {0} /\ ChanCap \in Nat \ {0}

VARIABLES
    fpc,        \* where the forwarding task is
    header,     \* header_buf.len()
    pos,        \* bytes of the body read from upstream
    carry,      \* the carried byte, 0 when have_carry is false
    closed,     \* whether the upstream ended its response, without an error
    outbox,     \* frames of the current chunk that are still to be sent
    chan,       \* the mpsc channel
    rxOpen,     \* whether its receiver exists
    pc,         \* where handle_stream_relay is
    frame,      \* the frame it writes
    final,      \* final_kind
    gone,       \* whether the client hung up
    received    \* frames the client got

forwardVars == <<header, pos, carry, closed, outbox>>
vars == <<fpc, forwardVars, chan, rxOpen, pc, frame, final, gone, received>>

Pairs == (1..BodyLen) \X (1..BodyLen)
Frame(k, d) == [kind |-> k, data |-> d]
NoFrame == Frame("none", <<>>)
Terminal == {"end", "error"}

Init ==
    /\ fpc = "request"
    /\ header = 0 /\ pos = 0 /\ carry = 0 /\ closed = FALSE /\ outbox = <<>>
    /\ chan = <<>> /\ rxOpen = TRUE
    /\ pc = "select" /\ frame = NoFrame /\ final = "none"
    /\ gone = FALSE /\ received = <<>>

-----------------------------------------------------------------------------
(* The forwarding task.                                                      *)

Forwarder(at, frames) ==
    /\ fpc' = at
    /\ outbox' = frames
    /\ UNCHANGED <<chan, rxOpen, pc, frame, final, gone, received>>

Connected ==
    /\ fpc = "request"
    /\ Forwarder("read", <<>>)
    /\ UNCHANGED <<header, pos, carry, closed>>

\* The reference cannot be built, or the upstream refuses: one error frame.
Refused ==
    /\ fpc = "request"
    /\ Forwarder("send", <<Frame("error", <<>>)>>)
    /\ UNCHANGED <<header, pos, carry, closed>>

\* forward_pcm_chunk: pair the bytes, the carried one first, and carry an odd rest.
Shift(bytes) == IF carry # 0 /\ bytes # <<>> THEN 1 ELSE 0
Samples(bytes) ==
    LET s == Shift(bytes) IN
    (IF s = 1 THEN << <<carry, bytes[1]>> >> ELSE <<>>)
      \o [i \in 1..((Len(bytes) - s) \div 2) |-> <<bytes[s + 2*i - 1], bytes[s + 2*i]>>]
\* Faulty variant: have_carry is not reset once the carried byte is paired.
CarryKept(bytes) ==
    IF (Len(bytes) - Shift(bytes)) % 2 = 1 THEN bytes[Len(bytes)] ELSE carry

CarryAfter(bytes) ==
    IF (Len(bytes) - Shift(bytes)) % 2 = 1 THEN bytes[Len(bytes)]
    ELSE IF bytes = <<>> THEN carry ELSE 0
Pcm(bytes) ==
    IF Samples(bytes) = <<>> THEN <<>> ELSE <<Frame("chunk", Samples(bytes))>>

\* A chunk of h bytes of the header and b bytes of the body.
Read(h, b, frames) ==
    LET bytes == [i \in 1..b |-> pos + i] IN
    /\ fpc = "read"
    /\ header' = header + h
    /\ pos' = pos + b
    /\ carry' = CarryAfter(bytes)
    /\ UNCHANGED closed
    /\ LET all == frames \o Pcm(bytes) IN
       Forwarder(IF all = <<>> THEN "read" ELSE "send", all)

HeaderPart == \E h \in 1..MaxChunk :
    /\ header + h < HeaderLen
    /\ Read(h, 0, <<>>)

HeaderComplete == \E b \in 0..BodyLen :
    /\ header < HeaderLen
    /\ (HeaderLen - header) + b <= MaxChunk
    /\ Read(HeaderLen - header, b, <<Frame("header", <<>>)>>)

\* parse_wav_sample_rate fails on the completed header.
BadHeader ==
    /\ fpc = "read" /\ header < HeaderLen /\ HeaderLen - header <= MaxChunk
    /\ header' = HeaderLen
    /\ Forwarder("send", <<Frame("error", <<>>)>>)
    /\ UNCHANGED <<pos, carry, closed>>

BodyPart == \E b \in 1..MaxChunk :
    /\ header = HeaderLen
    /\ pos + b <= BodyLen
    /\ Read(0, b, <<>>)

\* Faulty variant: an upstream error ends the stream like its end.
UpstreamFailsSilently ==
    /\ fpc = "read"
    /\ Forwarder("send", <<Frame("end", <<>>)>>)
    /\ UNCHANGED <<header, pos, carry, closed>>

UpstreamFails ==
    /\ fpc = "read"
    /\ Forwarder("send", <<Frame("error", <<>>)>>)
    /\ UNCHANGED <<header, pos, carry, closed>>

\* The upstream's response ends, wherever its generation is: after the header with
\* the end of the stream, before it with an error.  A byte still carried is dropped.
UpstreamEnds ==
    /\ fpc = "read"
    /\ closed' = TRUE
    /\ Forwarder("send", <<Frame(IF header < HeaderLen THEN "error" ELSE "end", <<>>)>>)
    /\ UNCHANGED <<header, pos, carry>>

AfterSend ==
    IF Head(outbox).kind \in Terminal THEN "done"
    ELSE IF Len(outbox) = 1 THEN "read" ELSE "send"

\* Faulty variants: a frame is dropped when the channel is full, or the channel has
\* no capacity.
SendDropping ==
    /\ fpc = "send" /\ rxOpen
    /\ chan' = IF Len(chan) < ChanCap THEN Append(chan, Head(outbox)) ELSE chan
    /\ outbox' = Tail(outbox)
    /\ fpc' = AfterSend
    /\ UNCHANGED <<header, pos, carry, closed, rxOpen, pc, frame, final, gone, received>>

SendUnbounded ==
    /\ fpc = "send" /\ rxOpen
    /\ chan' = Append(chan, Head(outbox))
    /\ outbox' = Tail(outbox)
    /\ fpc' = AfterSend
    /\ UNCHANGED <<header, pos, carry, closed, rxOpen, pc, frame, final, gone, received>>

Send ==
    /\ fpc = "send" /\ rxOpen
    /\ Len(chan) < ChanCap
    /\ chan' = Append(chan, Head(outbox))
    /\ outbox' = Tail(outbox)
    /\ fpc' = AfterSend
    /\ UNCHANGED <<header, pos, carry, closed, rxOpen, pc, frame, final, gone, received>>

\* The receiver is dropped: a lost header ends the task quietly, any other frame
\* is lost without notice and the task goes on.
SendLost ==
    /\ fpc = "send" /\ ~rxOpen
    /\ IF Head(outbox).kind = "header"
         THEN Forwarder("done", <<>>)
         ELSE Forwarder(AfterSend, Tail(outbox))
    /\ UNCHANGED <<header, pos, carry, closed>>

\* The task dies without a terminal frame (in the HTTP client).
ForwarderPanics ==
    /\ fpc \in {"request", "read"}
    /\ Forwarder("done", <<>>)
    /\ UNCHANGED <<header, pos, carry, closed>>

-----------------------------------------------------------------------------
(* handle_stream_relay.                                                      *)

HangUp ==
    /\ ~gone
    /\ gone' = TRUE
    /\ UNCHANGED <<fpc, forwardVars, chan, rxOpen, pc, frame, final, received>>

\* Faulty variant: the receiver outlives the handler.
ReturnKeeping == pc' = "done" /\ UNCHANGED <<rxOpen, chan>>

Return == pc' = "done" /\ rxOpen' = FALSE /\ chan' = <<>>

\* The select is biased: end of file comes before a frame, and aborts the task,
\* which drops the upstream response.
ClientEof ==
    /\ pc = "select" /\ gone
    /\ fpc' = IF fpc = "done" THEN "done" ELSE "dropped"
    /\ outbox' = <<>>
    /\ Return
    /\ UNCHANGED <<header, pos, carry, closed, frame, final, gone, received>>

TakeFrame ==
    /\ pc = "select" /\ ~gone
    /\ chan # <<>>
    /\ frame' = Head(chan)
    /\ chan' = Tail(chan)
    /\ pc' = "write"
    /\ UNCHANGED <<fpc, forwardVars, rxOpen, final, gone, received>>

\* Faulty variant: the handler keeps a sender, and recv() never returns None.
ChannelKeptOpen ==
    /\ pc = "select" /\ ~rxOpen
    /\ UNCHANGED vars

\* recv() returns None: the channel is empty and its sender is dropped.
ChannelClosed ==
    /\ pc = "select" /\ ~gone
    /\ chan = <<>> /\ fpc = "done"
    /\ pc' = "join"
    /\ UNCHANGED <<fpc, forwardVars, chan, rxOpen, frame, final, gone, received>>

\* What is written to a client that hung up is lost, if the write succeeds.
Deliver(f) == received' = IF gone THEN received ELSE Append(received, f)

WriteFrame ==
    /\ pc = "write"
    /\ Deliver(frame)
    /\ IF frame.kind \in Terminal
         THEN final' = frame.kind /\ pc' = "join"
         ELSE pc' = "select" /\ UNCHANGED final
    /\ frame' = NoFrame
    /\ UNCHANGED <<fpc, forwardVars, chan, rxOpen, gone>>

\* write_stream_frame fails and `?` leaves the function.
WriteFails ==
    /\ pc = "write" /\ gone
    /\ Return
    /\ frame' = NoFrame
    /\ UNCHANGED <<fpc, forwardVars, final, gone, received>>

Join ==
    /\ pc = "join" /\ fpc = "done"
    /\ pc' = "finish"
    /\ UNCHANGED <<fpc, forwardVars, chan, rxOpen, frame, final, gone, received>>

\* Faulty variant: nothing is made up for the client.
ConcludeSilently ==
    /\ pc = "finish"
    /\ Return
    /\ UNCHANGED <<fpc, forwardVars, frame, final, gone, received>>

\* Without a terminal frame from the task, one is made up for the client.
Conclude ==
    /\ pc = "finish"
    /\ IF final = "none" THEN Deliver(Frame("error", <<>>)) ELSE UNCHANGED received
    /\ Return
    /\ UNCHANGED <<fpc, forwardVars, frame, final, gone>>

Ended ==
    /\ pc = "done" /\ fpc \in {"done", "dropped"}
    /\ UNCHANGED vars

ForwardTask ==
    \/ Connected \/ Refused
    \/ HeaderPart \/ HeaderComplete \/ BadHeader \/ BodyPart
    \/ UpstreamFails \/ UpstreamEnds
    \/ Send \/ SendLost \/ ForwarderPanics

HandlerTask ==
    \/ ClientEof \/ TakeFrame \/ ChannelClosed
    \/ WriteFrame \/ WriteFails \/ Join \/ Conclude

Next == ForwardTask \/ HandlerTask \/ HangUp \/ Ended

Spec == Init /\ [][Next]_vars

\* Both tasks are polled when ready; the upstream goes on sending until it ends,
\* and a client that listens reads.
FairSpec == Spec /\ WF_vars(ForwardTask) /\ WF_vars(HandlerTask)

-----------------------------------------------------------------------------
(* Properties.                                                               *)

Frames == [kind : Terminal \union {"none", "header", "chunk"}, data : Seq(Pairs)]

\* Types.
TypeOK ==
    /\ fpc \in {"request", "read", "send", "done", "dropped"}
    /\ header \in 0..HeaderLen /\ pos \in 0..BodyLen /\ carry \in 0..BodyLen
    /\ closed \in BOOLEAN
    /\ outbox \in Seq(Frames)
    /\ (fpc = "send") <=> (outbox # <<>>)
    /\ chan \in Seq(Frames) /\ Len(chan) <= ChanCap
    /\ rxOpen \in BOOLEAN /\ gone \in BOOLEAN
    /\ pc \in {"select", "write", "join", "finish", "done"}
    /\ frame \in Frames /\ final \in Terminal \union {"none"}
    /\ received \in Seq(Frames)

\* The samples of a sequence of frames, in order, and the first n of the upstream.
SamplesOf(frames) == FlattenSeq([i \in DOMAIN frames |-> frames[i].data])
Upstream(n) == [i \in 1..n |-> <<2*i - 1, 2*i>>]
InFlight == (IF frame = NoFrame THEN <<>> ELSE <<frame>>) \o chan \o outbox

\* Wherever the upstream cuts its chunks, inside the header or inside a sample,
\* the frames of a client that stays, followed by those on their way, hold every
\* complete sample read so far, once and in order.
SamplesInOrder == ~gone => SamplesOf(received \o InFlight) = Upstream(pos \div 2)

\* A client that still listens gets an end frame only when the upstream ended its
\* response, and after every sample of it; and after a terminal frame nothing more:
\* no second terminal frame, no late chunk.
EndIsComplete ==
    \A i \in DOMAIN received :
        received[i].kind \in Terminal =>
            /\ i = Len(received)
            /\ received[i].kind = "end" =>
                  closed /\ SamplesOf(received) = Upstream(pos \div 2)

KindsOf(frames) == {frames[i].kind : i \in DOMAIN frames}

Service == INSTANCE StreamService WITH
    Clients <- {"client"},
    whole   <- [c \in {"client"} |-> Upstream(pos \div 2)],
    complete <- [c \in {"client"} |-> closed],
    header  <- [c \in {"client"} |-> "header" \in KindsOf(received)],
    audio   <- [c \in {"client"} |-> SamplesOf(received)],
    last    <- [c \in {"client"} |->
                  IF received = <<>> \/ Last(received).kind \notin Terminal
                    THEN "none" ELSE Last(received).kind]

\* A relayed stream has the form of one of the local worker: a header first, the
\* audio in order as the upstream sends it, one terminal frame, and an end only where
\* the upstream's response ended.  Relaying implements the same service.
FramesAsPromised == Service!Spec

\* A client that stays is never left without a terminal frame when the handler
\* returns, even if the forwarding task died.
StayingClientGetsTerminal ==
    (pc = "done" /\ ~gone) => received # <<>> /\ Last(received).kind \in Terminal

\* When the client hangs up, the forwarding task is aborted and the upstream call
\* ends: once the handler has returned, nobody reads from the upstream.
HangUpEndsUpstream == pc = "done" => fpc \in {"done", "dropped"}

\* The handler returns, whatever the client, the upstream and the bounded channel
\* between its two tasks do; it never waits for the task it is to drain.
HandlerReturns == <>(pc = "done")

\* The forwarding task ends too: it is never left waiting for room in a channel
\* nobody reads, also when the handler left early without aborting it.
ForwarderEnds == <>(fpc \in {"done", "dropped"})

=============================================================================
