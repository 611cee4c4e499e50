----------------------------- MODULE Connection ----------------------------
(* One invocation of the client and the connection that serves it:           *)
(* client/mod.rs and client/tts.rs on one side, handle, dispatch,            *)
(* dispatch_relay and handle_stream of server/mod.rs on the other, and the   *)
(* socket between them.  What it is about is what the client's exit code and *)
(* output say of what happened.                                              *)
(*                                                                           *)
(* The engine and the upstream appear by their results; the frames of a      *)
(* stream come from StreamService, which StreamPipe and RelayStream          *)
(* implement, the former while its pipe is not torn.  A message on the       *)
(* socket is read whole or not at all; how far a write got is told by        *)
(* whether the other end read it.                                            *)
EXTENDS Naturals, Sequences

CONSTANTS
    Audio       \* the audio of a generation that makes any: a sequence of samples

Sounds == {Audio[i] : i \in DOMAIN Audio}

ASSUME AudioAssumption == Audio \in Seq(Sounds)

VARIABLES
    scene,      \* the circumstances of the invocation
    cpc,        \* where the client is
    code,       \* its exit code
    output,     \* the file or the pipe it writes
    inbox,      \* what was sent to the server and not read
    outbox,     \* what was sent to the client and not read
    spc,        \* where the server's connection task is
    told,       \* the exit code the server's last word stands for, NoCode if none
    cancel,     \* what the hang-up watcher does: off, watching, fired
    stream      \* what was sent of a stream

clientVars == <<cpc, code, output>>
serverVars == <<spc, told, cancel, stream>>
vars == <<scene, clientVars, inbox, outbox, serverVars>>

\* The table of exit.rs; a process that is killed has none.
Ok == 0
Unreachable == 1
ModelMissing == 2
GenerationFailed == 3
BadRequest == 4
Unknown == 5
NoCode == 6
Killed == 7

\* mode: --relay, --tts-dir or neither.  tcp: --network and --url instead of a
\* local socket.  request: "user" one the client refuses, "json" one it can write
\* but the server cannot parse (a cfg that is not a number), "oversize" one above
\* MAX_JSON or MAX_AUDIO.  full: the output may fail.  silent: the generation makes
\* no samples.
Scenes == [mode : {"none", "engine", "relay"}, tcp : BOOLEAN, token : BOOLEAN,
           op : {"status", "tts", "stream"}, file : BOOLEAN, full : BOOLEAN,
           request : {"good", "user", "json", "oversize"}, up : BOOLEAN,
           silent : BOOLEAN]

\* Circumstances that do not matter are fixed.
Init ==
    /\ scene \in {s \in Scenes :
          /\ ~s.tcp => s.token
          /\ s.op = "status" => s.request = "good" /\ s.file /\ ~s.full /\ ~s.silent
          /\ ~s.up => s.mode = "none" /\ s.token
          /\ s.mode = "none" => ~s.silent}
    /\ cpc = "start" /\ code = NoCode
    /\ output = [head |-> "none", data |-> <<>>]
    /\ inbox = <<>> /\ outbox = <<>>
    /\ spc = "none" /\ told = NoCode /\ cancel = "off"
    /\ stream = [header |-> FALSE, audio |-> <<>>, last |-> "none"]

\* What the worker's synthesis made, or what the upstream sent before it closed.
Generated == IF scene.silent THEN <<>> ELSE Audio
Gone == cpc = "exit"
Closed == spc = "closed"
Message(kind, c, data) == [kind |-> kind, code |-> c, data |-> data]

-----------------------------------------------------------------------------
(* The client.  An exit closes the connection.                               *)

Exit(c) == cpc' = "exit" /\ code' = c

\* run: --json, stdin, the text and the reference are looked at first.
Validate ==
    /\ cpc = "start"
    /\ IF scene.request = "user" THEN Exit(BadRequest)
                                 ELSE cpc' = "connect" /\ UNCHANGED code
    /\ UNCHANGED <<scene, output, inbox, outbox, serverVars>>

Connect ==
    /\ cpc = "connect" /\ scene.up
    /\ cpc' = IF scene.tcp THEN "token" ELSE "request"
    /\ spc' = IF scene.tcp THEN "token" ELSE "request"
    /\ UNCHANGED <<scene, code, output, inbox, outbox, told, cancel, stream>>

ConnectFails ==
    /\ cpc = "connect" /\ ~scene.up
    /\ Exit(Unreachable)
    /\ UNCHANGED <<scene, output, inbox, outbox, serverVars>>

WriteToken ==
    /\ cpc = "token"
    /\ inbox' = Append(inbox, "token")
    /\ cpc' = "request"
    /\ UNCHANGED <<scene, code, output, outbox, serverVars>>

\* A write to a connection the server closed may still seem to succeed.
WriteRequest ==
    /\ cpc = "request"
    /\ inbox' = Append(inbox, "request")
    /\ cpc' = IF scene.op = "stream" THEN "create" ELSE "response"
    /\ UNCHANGED <<scene, code, output, outbox, serverVars>>

\* A write or a read fails once the server closed a connection with something in
\* it that it did not read: also a read of what it had sent before.
Lost == IF scene.op = "stream" /\ cpc # "token" THEN Unknown ELSE Unreachable

ConnectionReset ==
    /\ cpc \in {"token", "request", "create", "response", "frames"}
    /\ Closed
    /\ cpc \in {"token", "request"} \/ inbox # <<>>
    /\ Exit(Lost)
    /\ UNCHANGED <<scene, output, inbox, outbox, serverVars>>

\* Faulty variant: the end of the connection is taken for the end of the stream.
EndOfFileClean ==
    /\ cpc \in {"response", "frames"} /\ Closed /\ outbox = <<>>
    /\ Exit(IF scene.op = "stream" THEN Ok ELSE Lost)
    /\ UNCHANGED <<scene, output, inbox, outbox, serverVars>>

EndOfFile ==
    /\ cpc \in {"response", "frames"} /\ Closed /\ outbox = <<>>
    /\ Exit(Lost)
    /\ UNCHANGED <<scene, output, inbox, outbox, serverVars>>

StatusToExit(status) ==
    IF status \in {Ok, ModelMissing, GenerationFailed, BadRequest} THEN status ELSE Unknown

\* run_status has two answers.
ReadStatus ==
    /\ cpc = "response" /\ outbox # <<>> /\ scene.op = "status"
    /\ Exit(IF Head(outbox).code = Ok THEN Ok ELSE Unreachable)
    /\ UNCHANGED <<scene, output, inbox, outbox, serverVars>>

ReadResponse ==
    /\ cpc = "response" /\ outbox # <<>> /\ scene.op = "tts"
    /\ IF Head(outbox).code # Ok
         THEN Exit(StatusToExit(Head(outbox).code))
         ELSE cpc' = "payload" /\ UNCHANGED code
    /\ UNCHANGED <<scene, output, inbox, outbox, serverVars>>

WritePayload ==
    /\ cpc = "payload"
    /\ output' = [head |-> "final", data |-> Head(outbox).data]
    /\ Exit(Ok)
    /\ UNCHANGED <<scene, inbox, outbox, serverVars>>

\* StreamSink::file creates the file before the first frame is there.
CreateSink ==
    /\ cpc = "create"
    /\ cpc' = "frames"
    /\ UNCHANGED <<scene, code, output, inbox, outbox, serverVars>>

\* A payload is not written at once: its header, with the sizes, comes first.
CutShort ==
    \/ UNCHANGED output
    \/ /\ cpc = "payload"
       /\ \E n \in 0..Len(Generated) :
             output' = [head |-> "final", data |-> SubSeq(Generated, 1, n)]

OutputFails ==
    /\ scene.full
    /\ \/ cpc \in {"payload", "create"}
       \/ cpc = "frames" /\ outbox # <<>> /\ Head(outbox).kind \in {"header", "chunk", "end"}
    /\ CutShort
    /\ Exit(Unknown)
    /\ UNCHANGED <<scene, inbox, outbox, serverVars>>

Frame(kind) == cpc = "frames" /\ outbox # <<>> /\ Head(outbox).kind = kind

\* A file has sizes of zero in its header until the stream ends, a pipe the
\* conventional sizes of a stream.
ReadHeader ==
    /\ Frame("header")
    /\ IF output.head = "none"
         THEN output' = [output EXCEPT !.head = "placeholder"] /\ UNCHANGED <<cpc, code>>
         ELSE Exit(Unknown) /\ UNCHANGED output
    /\ outbox' = Tail(outbox)
    /\ UNCHANGED <<scene, inbox, serverVars>>

ReadChunk ==
    /\ Frame("chunk")
    /\ IF output.head = "none"
         THEN Exit(Unknown) /\ UNCHANGED output
         ELSE output' = [output EXCEPT !.data = @ \o Head(outbox).data] /\ UNCHANGED <<cpc, code>>
    /\ outbox' = Tail(outbox)
    /\ UNCHANGED <<scene, inbox, serverVars>>

\* finalize: the header of a file gets its sizes.
Finalize == output' = IF scene.file /\ output.head = "placeholder"
                        THEN [output EXCEPT !.head = "final"] ELSE output

ReadEnd ==
    /\ Frame("end")
    /\ Finalize
    /\ Exit(Ok)
    /\ outbox' = Tail(outbox)
    /\ UNCHANGED <<scene, inbox, serverVars>>

\* Faulty variants: the status is not looked at; the file is closed like after an end.
ReadErrorBlindly ==
    /\ Frame("error")
    /\ Exit(GenerationFailed)
    /\ outbox' = Tail(outbox)
    /\ UNCHANGED <<scene, output, inbox, serverVars>>

ReadErrorFinalizing ==
    /\ Frame("error")
    /\ Finalize
    /\ Exit(StatusToExit(Head(outbox).code))
    /\ outbox' = Tail(outbox)
    /\ UNCHANGED <<scene, inbox, serverVars>>

ReadError ==
    /\ Frame("error")
    /\ Exit(StatusToExit(Head(outbox).code))
    /\ outbox' = Tail(outbox)
    /\ UNCHANGED <<scene, output, inbox, serverVars>>

\* The response that refuses a token, read as a frame: status 4 is no kind.
ReadUnknownKind ==
    /\ Frame("response")
    /\ Exit(Unknown)
    /\ outbox' = Tail(outbox)
    /\ UNCHANGED <<scene, output, inbox, serverVars>>

Kill ==
    /\ ~Gone
    /\ CutShort
    /\ Exit(Killed)
    /\ UNCHANGED <<scene, inbox, outbox, serverVars>>

-----------------------------------------------------------------------------
(* The server.                                                               *)

\* What is written to a client that is gone is lost.
Send(m) == outbox' = IF Gone THEN outbox ELSE Append(outbox, m)
Close == spc' = "closed"

\* handle: a wrong token is answered with a response, whatever the op will be.
ReadToken ==
    /\ spc = "token" /\ inbox # <<>>
    /\ inbox' = Tail(inbox)
    /\ IF scene.token
         THEN spc' = "request" /\ UNCHANGED <<outbox, told>>
         ELSE Close /\ told' = BadRequest /\ Send(Message("response", BadRequest, <<>>))
    /\ UNCHANGED <<scene, clientVars, cancel, stream>>

ReadRequest ==
    /\ spc = "request" /\ inbox # <<>>
    /\ scene.request # "oversize"
    /\ inbox' = Tail(inbox)
    /\ spc' = "dispatch"
    /\ UNCHANGED <<scene, clientVars, outbox, told, cancel, stream>>

\* Faulty variant: the rest of the request is waited for.
RefuseOversizeWaiting ==
    /\ spc = "request" /\ inbox # <<>>
    /\ scene.request = "oversize"
    /\ UNCHANGED vars

\* read_request_body bails at the length, without an answer.
RefuseOversize ==
    /\ spc = "request" /\ inbox # <<>>
    /\ scene.request = "oversize"
    /\ Close
    /\ UNCHANGED <<scene, clientVars, inbox, outbox, told, cancel, stream>>

ReadEof ==
    /\ spc \in {"token", "request"} /\ inbox = <<>> /\ Gone
    /\ Close
    /\ UNCHANGED <<scene, clientVars, inbox, outbox, told, cancel, stream>>

\* The last word: a response, or the terminal frame of a stream.
LastWord(c, data) ==
    /\ LET kind == IF scene.op # "stream" THEN "response"
                   ELSE IF c = Ok THEN "end" ELSE "error"
       IN Send(Message(kind, c, data))
    /\ told' = c
    /\ Close

\* dispatch and handle_stream look for an engine before they parse, their relay
\* counterparts only parse.
Refusal ==
    CASE scene.op # "status" /\ scene.mode = "none" -> ModelMissing
      [] scene.op # "status" /\ scene.mode # "none" /\ scene.request = "json" -> BadRequest
      [] OTHER -> NoCode

DispatchRefused ==
    /\ spc = "dispatch" /\ Refusal # NoCode
    /\ LastWord(Refusal, <<>>)
    /\ UNCHANGED <<scene, clientVars, inbox, cancel, stream>>

DispatchStatus ==
    /\ spc = "dispatch" /\ scene.op = "status" /\ scene.mode # "relay"
    /\ LastWord(Ok, <<>>)
    /\ UNCHANGED <<scene, clientVars, inbox, cancel, stream>>

\* In relay mode a status is that of the upstream, which is asked without a watcher.
Probing == spc = "dispatch" /\ scene.op = "status" /\ scene.mode = "relay"

RelayStatus ==
    /\ Probing
    /\ \E c \in {Ok, BadRequest} : LastWord(c, <<>>)
    /\ UNCHANGED <<scene, clientVars, inbox, cancel, stream>>

\* Faulty variant: only streams are watched.
DispatchCallUnwatched ==
    /\ spc = "dispatch" /\ Refusal = NoCode /\ scene.op # "status"
    /\ spc' = IF scene.op = "tts" THEN "call" ELSE "stream"
    /\ cancel' = IF scene.op = "tts" THEN "off" ELSE "watching"
    /\ UNCHANGED <<scene, clientVars, inbox, outbox, told, stream>>

\* The watcher is started, and the engine or the upstream called.  (The handler of
\* a relayed stream is its own watcher.)
DispatchCall ==
    /\ spc = "dispatch" /\ Refusal = NoCode /\ scene.op # "status"
    /\ spc' = IF scene.op = "tts" THEN "call" ELSE "stream"
    /\ cancel' = "watching"
    /\ UNCHANGED <<scene, clientVars, inbox, outbox, told, stream>>

WatcherFires ==
    /\ cancel = "watching" /\ Gone
    /\ cancel' = "fired"
    /\ UNCHANGED <<scene, clientVars, inbox, outbox, spc, told, stream>>

\* Faulty variant: a status of the upstream is passed on as it is.
FailuresUnmapped == {ModelMissing, GenerationFailed}
                \union (IF scene.mode = "relay" THEN {400, 503} ELSE {})

\* TtsResult or RelayError; of the upstream's statuses 400 and 401 stand for a bad
\* request and 503 for a missing model.
Failures == {ModelMissing, GenerationFailed}
                \union (IF scene.mode = "relay" THEN {BadRequest} ELSE {})

\* The watcher is aborted.
Answer(c, data) ==
    /\ LastWord(c, data)
    /\ cancel' = IF cancel = "watching" THEN "off" ELSE cancel
    /\ UNCHANGED <<scene, clientVars, inbox, stream>>

\* The engine, told of a hang-up, answers "cancelled" or what it had ready.
EngineReturns ==
    /\ spc = "call" /\ scene.mode = "engine"
    /\ Answer(Ok, Generated) \/ \E c \in Failures : Answer(c, <<>>)

UpstreamReturns ==
    /\ spc = "call" /\ scene.mode = "relay"
    /\ Answer(Ok, Generated) \/ \E c \in Failures : Answer(c, <<>>)

\* The select! of dispatch_relay drops the request to the upstream.
CallCancelled ==
    /\ spc = "call" /\ scene.mode = "relay" /\ cancel = "fired"
    /\ Answer(GenerationFailed, <<>>)

Source == INSTANCE StreamService WITH
    Clients <- {"client"},
    whole   <- [c \in {"client"} |-> Generated],
    complete <- [c \in {"client"} |-> TRUE],
    header  <- [c \in {"client"} |-> stream.header],
    audio   <- [c \in {"client"} |-> stream.audio],
    last    <- [c \in {"client"} |-> stream.last]

StreamHeader ==
    /\ spc = "stream"
    /\ UNCHANGED <<scene, clientVars, inbox, spc, told, cancel>>
    /\ stream' = [stream EXCEPT !.header = TRUE]
    /\ Source!Header("client")
    /\ Send(Message("header", Ok, <<>>))

StreamChunk ==
    /\ spc = "stream"
    /\ UNCHANGED <<scene, clientVars, inbox, spc, told, cancel>>
    /\ \E n \in 1..Len(Generated) : stream' = [stream EXCEPT !.audio = SubSeq(Generated, 1, n)]
    /\ Source!Chunk("client")
    /\ Send(Message("chunk", Ok,
                    SubSeq(stream'.audio, Len(stream.audio) + 1, Len(stream'.audio))))

StreamEnd ==
    /\ spc = "stream"
    /\ UNCHANGED <<scene, clientVars, inbox>>
    /\ stream' = [stream EXCEPT !.last = "end"]
    /\ Source!End("client")
    /\ LastWord(Ok, <<>>)
    /\ cancel' = IF cancel = "watching" THEN "off" ELSE cancel

StreamError ==
    /\ spc = "stream"
    /\ UNCHANGED <<scene, clientVars, inbox>>
    /\ stream' = [stream EXCEPT !.last = "error"]
    /\ Source!Error("client")
    /\ \E c \in Failures : LastWord(c, <<>>)
    /\ cancel' = IF cancel = "watching" THEN "off" ELSE cancel

\* write_stream_frame fails: handle_stream returns, and forgets its watcher.
StreamBroken ==
    /\ spc = "stream" /\ Gone
    /\ Close
    /\ UNCHANGED <<scene, clientVars, inbox, outbox, told, cancel, stream>>

\* SIGTERM, SIGINT or worse: the connection's task is dropped where it is.
ServerDies ==
    /\ spc \notin {"none", "closed"}
    /\ Close
    /\ cancel' = "off"
    /\ UNCHANGED <<scene, clientVars, inbox, outbox, told, stream>>

-----------------------------------------------------------------------------

Client ==
    \/ Validate \/ Connect \/ ConnectFails \/ WriteToken \/ WriteRequest
    \/ ConnectionReset \/ EndOfFile \/ ReadStatus \/ ReadResponse \/ WritePayload
    \/ CreateSink \/ OutputFails
    \/ ReadHeader \/ ReadChunk \/ ReadEnd \/ ReadError \/ ReadUnknownKind

Handle ==
    \/ ReadToken \/ ReadRequest \/ RefuseOversize \/ ReadEof
    \/ DispatchRefused \/ DispatchStatus \/ DispatchCall

Streaming == StreamHeader \/ StreamChunk \/ StreamEnd \/ StreamError \/ StreamBroken

Call == EngineReturns \/ UpstreamReturns \/ CallCancelled \/ RelayStatus

Ended ==
    /\ Gone /\ spc \in {"none", "closed"} /\ cancel # "watching"
    /\ UNCHANGED vars

Next == \/ Client \/ Kill
        \/ Handle \/ Streaming \/ Call \/ WatcherFires \/ ServerDies
        \/ Ended

Spec == Init /\ [][Next]_vars

\* Both programs run.  Nothing makes a call return or a stream go on: neither
\* stream_relay nor relay_wav_stream has a timeout.  But a request to the upstream
\* is dropped when its watcher says so.
Fairness ==
    /\ WF_vars(Client) /\ WF_vars(Handle)
    /\ WF_vars(WatcherFires) /\ WF_vars(CallCancelled)
FairSpec == Spec /\ Fairness

-----------------------------------------------------------------------------
(* Properties.                                                               *)

Messages == [kind : {"response", "header", "chunk", "end", "error"},
             code : Ok..Unknown, data : Seq(Sounds)]

\* Types: the codes are those of exit.rs, and what the server says last is one.
TypeOK ==
    /\ scene \in Scenes
    /\ cpc \in {"start", "connect", "token", "request", "create", "response",
               "payload", "frames", "exit"}
    /\ code \in Ok..Killed
    /\ (cpc = "exit") <=> (code # NoCode)
    /\ output.head \in {"none", "placeholder", "final"}
    /\ inbox \in Seq({"token", "request"}) /\ outbox \in Seq(Messages)
    /\ spc \in {"none", "token", "request", "dispatch", "call", "stream", "closed"}
    /\ told \in Ok..NoCode
    /\ cancel \in {"off", "watching", "fired"}
    /\ stream.header \in BOOLEAN /\ stream.last \in {"none", "end", "error"}

\* An exit code of zero says that everything asked for is there: the server or its
\* upstream runs, or the whole audio was written and its header is right.  No
\* early end of the connection, no failure at either end passes for it.
ExitZeroMeansComplete ==
    code = Ok =>
        /\ told = Ok
        /\ scene.op # "status" => output.data = Generated
        /\ scene.op = "tts" \/ (scene.op = "stream" /\ scene.file /\ Generated # <<>>)
              => output.head = "final"

Expected == IF scene.op = "status" /\ told # Ok THEN Unreachable ELSE told

\* The exit code is what the server's last word stands for.  A client whose output
\* failed, or whose token was refused before its request was read, may say less;
\* and one that heard no last word claims none.
ExitTellsVerdict ==
    code \notin {NoCode, Killed} =>
        \/ told # NoCode /\ code = Expected
        \/ told = NoCode /\ code \in {Unreachable, Unknown}
        \/ scene.full /\ code = Unknown
        \/ ~scene.token /\ code \in {Unreachable, Unknown}
        \/ scene.request = "user" /\ code = BadRequest /\ spc = "none"

\* The file of a stream that was not received to its end, because a side failed,
\* was killed or has yet to go on, has sizes of zero in its header: it is not
\* taken for a complete one.
PartialFileIsMarked ==
    scene.op = "stream" /\ output.head = "final" =>
        output.data = Generated /\ stream.last = "end"

\* A hang-up during a call reaches the engine's cancel Notify, and in relay mode
\* ends the call.
HangUpCancelsCall ==
    (Gone /\ spc = "call") ~>
        (spc = "closed" \/ (scene.mode = "engine" /\ cancel = "fired"))

\* A client that is not killed exits, with whatever code, whether it is refused,
\* its server dies or its stream fails.  Three things may keep it, as nothing in the
\* code limits them: a call, a probe of the upstream, and a stream that goes silent
\* (a panic in the worker, a torn pipe, an upstream that stalls).
EveryClientExits == <>(cpc = "exit") \/ <>[](spc \in {"call", "stream"} \/ Probing)

=============================================================================
