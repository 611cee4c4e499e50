-------------------------- MODULE ConnectionProofs --------------------------
(* Proofs about Connection: what the client's exit code and its output say of *)
(* what happened, whatever the audio and wherever it is cut into chunks.     *)
EXTENDS Connection, SequenceItems, TLAPS

-----------------------------------------------------------------------------
(* The inductive invariant.                                                  *)

\* Messages after which the server sends nothing, and the codes it answers with.
LastWords == {"end", "error", "response"}
Answers == {Ok, ModelMissing, GenerationFailed, BadRequest, NoCode}

\* Types, those of the client's output and of the stream included.
Types ==
    /\ TypeOK
    /\ output \in [head : {"none", "placeholder", "final"}, data : Seq(Sounds)]
    /\ stream \in [header : BOOLEAN, audio : Seq(Sounds), last : {"none", "end", "error"}]

\* How far either side can be while the other is where it is.
Order ==
    /\ told \in Answers /\ (told # NoCode => Closed)
    /\ spc = "none" => cpc \in {"start", "connect", "exit"}
    /\ cpc \in {"start", "connect"} => spc = "none" /\ outbox = <<>> /\ inbox = <<>>
    /\ cpc = "token" => spc \in {"token", "closed"}
    /\ cpc \in {"response", "payload"} => scene.op # "stream"
    /\ cpc = "payload" => scene.op = "tts" /\ told = Ok
    /\ cpc \in {"create", "frames"} => scene.op = "stream"
    /\ spc = "call" => scene.op = "tts"
    /\ spc = "stream" => scene.op = "stream"
    /\ ~scene.tcp => scene.token
    /\ spc \in {"request", "dispatch", "call", "stream"} => scene.token

\* What was sent of a stream is a start of its audio, and all of it at its end.
Sent ==
    /\ Len(stream.audio) <= Len(Generated)
    /\ stream.audio = SubSeq(Generated, 1, Len(stream.audio))
    /\ stream.last # "none" => Closed
    /\ stream.last = "end" => stream.audio = Generated

\* What the server has yet to read: nothing once it gave an answer to a request,
\* so that its answer is not lost when it closes the connection.
Unread == ~Gone =>
    /\ spc = "token" => inbox = IF cpc = "token" THEN <<>>
                                ELSE IF cpc = "request" THEN <<"token">>
                                ELSE <<"token", "request">>
    /\ spc = "request" => inbox = IF cpc = "request" THEN <<>> ELSE <<"request">>
    /\ spc \in {"dispatch", "call", "stream"} \/ (told # NoCode /\ scene.token) =>
          inbox = <<>> /\ cpc \notin {"start", "connect", "token", "request"}

\* What the client has yet to read: the server's last word comes last.
Answered == ~Gone =>
    /\ told # NoCode => outbox # <<>> /\ outbox[Len(outbox)].kind \in LastWords
                        /\ outbox[Len(outbox)].code = told
    /\ \A i \in 1..Len(outbox) :
          outbox[i].kind \in LastWords => i = Len(outbox) /\ told # NoCode
    /\ scene.op # "stream" =>
          \A i \in 1..Len(outbox) :
             /\ outbox[i].kind = "response"
             /\ scene.op = "tts" /\ told = Ok => outbox[i].data = Generated

\* The frames of a stream that the client has yet to read go on where its output
\* ends: a header if it has none, then chunks, and an end only after all of them.
FrameFits(m, first) ==
    /\ m.kind \in IF first THEN {"header", "end", "error", "response"}
                           ELSE {"chunk", "end", "error", "response"}
    /\ m.kind # "chunk" => m.data = <<>>
    /\ m.kind \in {"header", "chunk"} => stream.header
    /\ m.kind = "response" => ~scene.token
    /\ m.kind = "end" => stream.last = "end" /\ told = Ok
    /\ m.kind = "error" => told # Ok

\* What a client of a stream has and what it is yet to read are what was sent.
Streamed == ~Gone /\ scene.op = "stream" =>
    /\ output.data \o DataOf(outbox) = stream.audio
    /\ output.head # "final" /\ (output.head = "none" => output.data = <<>>)
    /\ \A i \in 1..Len(outbox) : FrameFits(outbox[i], i = 1 /\ output.head = "none")
    /\ IF stream.header THEN output.head # "none" \/ outbox # <<>>
       ELSE output.head = "none" /\ (outbox # <<>> => told # NoCode)

\* A client that exited by itself did so when nothing more could be told it, unless
\* its output failed.
Exited ==
    /\ code \notin {NoCode, Killed} =>
          spc \in {"none", "closed"} \/ (scene.full /\ code = Unknown)
    /\ ExitZeroMeansComplete /\ ExitTellsVerdict /\ PartialFileIsMarked

\* The inductive invariant.
ConnectionInv == Types /\ Order /\ Sent /\ Unread /\ Answered /\ Streamed /\ Exited

-----------------------------------------------------------------------------

\* The exit codes are distinct.
LEMMA Codes ==
    /\ Ok..Killed = {Ok, Unreachable, ModelMissing, GenerationFailed, BadRequest, Unknown,
                     NoCode, Killed}
    /\ Ok..Unknown = {Ok, Unreachable, ModelMissing, GenerationFailed, BadRequest, Unknown}
    /\ Ok..NoCode = {Ok, Unreachable, ModelMissing, GenerationFailed, BadRequest, Unknown,
                     NoCode}
    /\ Unreachable # Ok /\ Unknown # Ok /\ Killed # Ok /\ NoCode # Ok /\ BadRequest # Ok
    /\ ModelMissing # Ok /\ GenerationFailed # Ok
    /\ NoCode \notin {Ok, Unreachable, ModelMissing, GenerationFailed, BadRequest, Unknown,
                      Killed}
    /\ Killed \notin {Ok, Unreachable, ModelMissing, GenerationFailed, BadRequest, Unknown}
    /\ Unreachable \notin {ModelMissing, GenerationFailed, BadRequest, Unknown}
    /\ Unknown \notin {ModelMissing, GenerationFailed, BadRequest}
BY DEF Ok, Unreachable, ModelMissing, GenerationFailed, BadRequest, Unknown, NoCode, Killed

\* What is sent is a sequence of sounds.
LEMMA GeneratedSounds == Generated \in Seq(Sounds) /\ <<>> \in Seq(Sounds)
<1>1. <<>> \in Seq(Sounds)
  BY EmptySeq
<1> QED
  BY <1>1, AudioAssumption DEF Generated

\* The parts of the types that steps change.
LEMMA TypesOf ==
    ASSUME ConnectionInv
    PROVE  /\ scene \in Scenes /\ code \in Ok..Killed /\ (Gone <=> code # NoCode)
           /\ outbox \in Seq(Messages) /\ inbox \in Seq({"token", "request"})
           /\ output = [head |-> output.head, data |-> output.data]
           /\ output.head \in {"none", "placeholder", "final"} /\ output.data \in Seq(Sounds)
           /\ stream = [header |-> stream.header, audio |-> stream.audio, last |-> stream.last]
           /\ stream.header \in BOOLEAN /\ stream.audio \in Seq(Sounds)
           /\ stream.last \in {"none", "end", "error"}
           /\ told \in Ok..NoCode
<1>1. TypeOK /\ output \in [head : {"none", "placeholder", "final"}, data : Seq(Sounds)]
      /\ stream \in [header : BOOLEAN, audio : Seq(Sounds), last : {"none", "end", "error"}]
  BY DEF ConnectionInv, Types
<1>2. /\ output = [head |-> output.head, data |-> output.data]
      /\ output.head \in {"none", "placeholder", "final"} /\ output.data \in Seq(Sounds)
  BY <1>1
<1>3. /\ stream = [header |-> stream.header, audio |-> stream.audio, last |-> stream.last]
      /\ stream.audio \in Seq(Sounds)
  BY <1>1
<1>4. /\ scene \in Scenes /\ code \in Ok..Killed
      /\ outbox \in Seq(Messages) /\ inbox \in Seq({"token", "request"})
      /\ told \in Ok..NoCode
  BY <1>1 DEF TypeOK
<1>5. stream.header \in BOOLEAN /\ stream.last \in {"none", "end", "error"}
  BY <1>1
<1>6. Gone <=> code # NoCode
  BY <1>1 DEF TypeOK, Gone
<1> QED
  BY <1>2, <1>3, <1>4, <1>5, <1>6

\* While the server is at work a client that exited by itself did so because its
\* output failed: what the server does then cannot make its exit code wrong.
LEMMA ServerKeepsExited ==
    ASSUME ConnectionInv, spc \notin {"none", "closed"}, UNCHANGED <<scene, clientVars>>
    PROVE  Exited'
<1>1. code \in {NoCode, Killed} \/ (scene.full /\ code = Unknown)
  BY DEF ConnectionInv, Exited
<1>2. code' = code /\ scene' = scene /\ output' = output
  BY DEF clientVars
<1>3. code # Ok
  BY <1>1, Codes
<1>4. ExitZeroMeansComplete'
  BY <1>2, <1>3 DEF ExitZeroMeansComplete
<1>5. ExitTellsVerdict'
  BY <1>1, <1>2 DEF ExitTellsVerdict
<1>6. PartialFileIsMarked'
  BY <1>2 DEF PartialFileIsMarked, ConnectionInv, Exited, Sent, Closed
<1> QED
  BY <1>1, <1>2, <1>4, <1>5, <1>6 DEF Exited

\* The end of the server's task without a word: the client reads what is there.
LEMMA CloseKeeps ==
    ASSUME ConnectionInv, spc \notin {"none", "closed"}, Close,
           UNCHANGED <<scene, clientVars, inbox, outbox, told, stream>>,
           cancel' \in {"off", "watching", "fired"}
    PROVE  ConnectionInv'
<1>1. spc' = "closed" /\ told = NoCode /\ told' = NoCode
      /\ UNCHANGED <<scene, cpc, code, output, inbox, outbox, stream>>
  BY DEF Close, clientVars, ConnectionInv, Order, Closed
<1>2. Types'
  BY <1>1 DEF ConnectionInv, Types, TypeOK
<1>3. Order' /\ Sent' /\ Unread'
  <2>1. Order'
    BY <1>1 DEF ConnectionInv, Order, Closed
  <2>2. Sent'
    BY <1>1 DEF ConnectionInv, Sent, Closed, Generated
  <2>3. Unread'
    BY <1>1 DEF ConnectionInv, Unread, Gone
  <2> QED
    BY <2>1, <2>2, <2>3
<1>4. Answered'
  BY <1>1 DEF ConnectionInv, Answered, Gone, Generated
<1>5. Streamed'
  BY <1>1 DEF ConnectionInv, Streamed, Gone, FrameFits, DataOf
<1>6. Exited'
  BY ServerKeepsExited
<1> QED
  BY <1>2, <1>3, <1>4, <1>5, <1>6 DEF ConnectionInv

\* A client that exits leaves nothing to be told to it.
LEMMA ExitKeeps ==
    ASSUME ConnectionInv, NEW c \in Ok..Killed, c # NoCode, Exit(c),
           UNCHANGED <<scene, inbox, serverVars>>, outbox' \in Seq(Messages),
           output'.head \in {"none", "placeholder", "final"}, output'.data \in Seq(Sounds),
           output' = [head |-> output'.head, data |-> output'.data],
           c # Killed => spc \in {"none", "closed"} \/ (scene.full /\ c = Unknown),
           (ExitZeroMeansComplete /\ ExitTellsVerdict /\ PartialFileIsMarked)'
    PROVE  ConnectionInv'
<1>1. cpc' = "exit" /\ code' = c
      /\ UNCHANGED <<scene, inbox, spc, told, cancel, stream>>
  BY DEF Exit, serverVars
<1>2. Types'
  <2>1. output' \in [head : {"none", "placeholder", "final"}, data : Seq(Sounds)]
    OBVIOUS
  <2>2. TypeOK'
    BY <1>1, Codes DEF ConnectionInv, Types, TypeOK
  <2> QED
    BY <1>1, <2>1, <2>2 DEF ConnectionInv, Types
<1>3. Order'
  BY <1>1 DEF ConnectionInv, Order, Closed
<1>4. Sent'
  BY <1>1 DEF ConnectionInv, Sent, Closed, Generated
<1>5. Unread' /\ Answered' /\ Streamed'
  BY <1>1 DEF Unread, Answered, Streamed, Gone
<1>6. Exited'
  BY <1>1 DEF Exited
<1> QED
  BY <1>2, <1>3, <1>4, <1>5, <1>6 DEF ConnectionInv

-----------------------------------------------------------------------------
(* The server's last word.                                                   *)

\* A message and its parts.
LEMMA MessageMade ==
    ASSUME NEW kind \in {"response", "header", "chunk", "end", "error"},
           NEW c \in Ok..Unknown, NEW data \in Seq(Sounds)
    PROVE  /\ Message(kind, c, data) \in Messages
           /\ Message(kind, c, data).kind = kind /\ Message(kind, c, data).code = c
           /\ Message(kind, c, data).data = data
BY DEF Message, Messages

\* A message at the end of what the client has yet to read.
LEMMA OutboxGrows ==
    ASSUME outbox \in Seq(Messages), NEW m \in Messages, Send(m)
    PROVE  /\ outbox' \in Seq(Messages)
           /\ ~Gone => /\ outbox' # <<>> /\ Len(outbox') = Len(outbox) + 1
                       /\ \A i \in 1..Len(outbox) : outbox'[i] = outbox[i]
                       /\ outbox'[Len(outbox')] = m
                       /\ \A i \in 1..Len(outbox') :
                             i \in 1..Len(outbox) \/ i = Len(outbox) + 1
                       /\ DataOf(outbox') = DataOf(outbox) \o m.data
                       /\ DataOf(outbox) \in Seq(Sounds)
                       /\ outbox = <<>> <=> Len(outbox) = 0
           /\ Len(outbox) \in Nat
<1> DEFINE grown == Append(outbox, m)
<1>1. /\ grown \in Seq(Messages) /\ grown # <<>> /\ Len(grown) = Len(outbox) + 1
      /\ \A i \in 1..Len(outbox) : grown[i] = outbox[i]
      /\ grown[Len(outbox) + 1] = m /\ Len(outbox) \in Nat
  BY AppendProperties, LenProperties
<1>2. outbox = <<>> <=> Len(outbox) = 0
  BY EmptySeq
<1>3. DataOf(grown) = DataOf(outbox) \o m.data /\ DataOf(outbox) \in Seq(Sounds)
  <2> DEFINE one == <<m>>
  <2>1. Carry(Messages, Sounds) /\ one \in Seq(Messages) /\ m.data \in Seq(Sounds)
    BY DEF Carry, Messages
  <2>2. grown = outbox \o one
    BY AppendIsConcat
  <2>3. DataOf(one) = m.data
    BY <2>1, DataOfOne
  <2> HIDE DEF one
  <2>4. DataOf(outbox \o one) = DataOf(outbox) \o DataOf(one)
    BY <2>1, DataConcat
  <2>5. DataOf(outbox) \in Seq(Sounds)
    BY <2>1, DataConcat
  <2> QED
    BY <2>2, <2>3, <2>4, <2>5
<1>4. outbox' = IF Gone THEN outbox ELSE grown
  BY DEF Send
<1> HIDE DEF grown
<1> QED
  BY <1>1, <1>2, <1>3, <1>4

\* Before the server's last word a call has got nothing.
LEMMA NothingYet ==
    ASSUME ConnectionInv, told = NoCode, ~Gone, scene.op # "stream"
    PROVE  outbox = <<>>
<1>1. outbox \in Seq(Messages)
  BY TypesOf
<1>2. \A i \in 1..Len(outbox) : outbox[i].kind = "response" /\ outbox[i].kind \notin LastWords
  BY DEF ConnectionInv, Answered
<1>3. Len(outbox) \in Nat \ {0} => FALSE
  BY <1>2 DEF LastWords
<1> QED
  BY <1>1, <1>3, EmptySeq

\* The last word of a call or of a stream, or the answer that refuses a token.
LEMMA LastWordKeeps ==
    ASSUME ConnectionInv, spc \notin {"none", "closed"},
           NEW c \in Answers \ {NoCode}, NEW data \in Seq(Sounds),
           NEW kind \in {"response", "end", "error"},
           Send(Message(kind, c, data)), told' = c, Close,
           UNCHANGED <<scene, clientVars>>,
           UNCHANGED inbox \/ (~scene.token /\ spc = "token" /\ inbox' \in Seq({"token", "request"})),
           cancel' \in {"off", "watching", "fired"},
           scene.token => spc \in {"dispatch", "call", "stream"},
           stream' = [stream EXCEPT !.last = @] \/ stream' = [stream EXCEPT !.last = "end"]
              \/ stream' = [stream EXCEPT !.last = "error"],
           stream'.last = "end" => stream.audio = Generated,
           scene.op # "stream" => kind = "response",
           scene.op = "stream" => data = <<>>,
           scene.op = "stream" /\ kind = "response" => ~scene.token,
           kind = "end" => c = Ok /\ stream'.last = "end",
           kind = "error" => c # Ok,
           scene.op = "tts" /\ c = Ok => data = Generated
    PROVE  ConnectionInv'
<1> DEFINE m == Message(kind, c, data)
<1>1. /\ spc' = "closed" /\ told = NoCode /\ told' = c /\ c # NoCode
      /\ UNCHANGED <<scene, cpc, code, output>>
  BY DEF Close, clientVars, ConnectionInv, Order, Closed
<1>2. c \in Ok..Unknown /\ c \in Ok..NoCode
  BY Codes DEF Answers
<1>3. m \in Messages /\ m.kind = kind /\ m.code = c /\ m.data = data
  BY <1>2, MessageMade
<1>4. /\ scene \in Scenes /\ outbox \in Seq(Messages) /\ inbox \in Seq({"token", "request"})
      /\ stream.header \in BOOLEAN /\ stream.audio \in Seq(Sounds)
      /\ stream = [header |-> stream.header, audio |-> stream.audio, last |-> stream.last]
      /\ stream.last \in {"none", "end", "error"} /\ output.data \in Seq(Sounds)
  BY TypesOf
<1>5. Send(m)
  OBVIOUS
<1> HIDE DEF m
<1>6. /\ outbox' \in Seq(Messages) /\ Len(outbox) \in Nat
      /\ ~Gone => /\ outbox' # <<>> /\ Len(outbox') = Len(outbox) + 1
                  /\ \A i \in 1..Len(outbox) : outbox'[i] = outbox[i]
                  /\ outbox'[Len(outbox')] = m
                  /\ \A i \in 1..Len(outbox') : i \in 1..Len(outbox) \/ i = Len(outbox) + 1
                  /\ DataOf(outbox') = DataOf(outbox) \o m.data
                  /\ DataOf(outbox) \in Seq(Sounds)
                  /\ outbox = <<>> <=> Len(outbox) = 0
  BY <1>3, <1>4, <1>5, OutboxGrows
<1>7. /\ stream' \in [header : BOOLEAN, audio : Seq(Sounds), last : {"none", "end", "error"}]
      /\ stream'.header = stream.header /\ stream'.audio = stream.audio
  BY <1>4
<1>8. Types'
  <2>1. TypeOK'
    BY <1>1, <1>2, <1>4, <1>6, <1>7 DEF ConnectionInv, Types, TypeOK
  <2> QED
    BY <1>1, <1>7, <2>1 DEF ConnectionInv, Types
<1>9. Order'
  BY <1>1, Codes DEF ConnectionInv, Order, Closed
<1>10. Sent'
  BY <1>1, <1>7 DEF ConnectionInv, Sent, Closed, Generated
<1>11. Unread'
  BY <1>1 DEF ConnectionInv, Unread, Gone
<1>12. Answered'
  <2> SUFFICES ASSUME ~Gone
               PROVE  /\ outbox' # <<>> /\ outbox'[Len(outbox')].kind \in LastWords
                      /\ outbox'[Len(outbox')].code = told'
                      /\ \A i \in 1..Len(outbox') :
                            outbox'[i].kind \in LastWords => i = Len(outbox')
                      /\ scene.op # "stream" =>
                            \A i \in 1..Len(outbox') :
                               /\ outbox'[i].kind = "response"
                               /\ scene.op = "tts" /\ told' = Ok => outbox'[i].data = Generated
    BY <1>1 DEF Answered, Gone, Generated
  <2>1. outbox' # <<>> /\ outbox'[Len(outbox')].kind \in LastWords
        /\ outbox'[Len(outbox')].code = told'
    BY <1>1, <1>3, <1>6 DEF LastWords
  <2>2. \A i \in 1..Len(outbox') : outbox'[i].kind \in LastWords => i = Len(outbox')
    BY <1>1, <1>6 DEF ConnectionInv, Answered
  <2>3. ASSUME scene.op # "stream", NEW i \in 1..Len(outbox')
        PROVE  /\ outbox'[i].kind = "response"
               /\ scene.op = "tts" /\ told' = Ok => outbox'[i].data = Generated
    <3>1. outbox = <<>>
      BY <1>1, <2>3, NothingYet
    <3>2. i = Len(outbox')
      BY <1>6, <3>1
    <3> QED
      BY <1>1, <1>3, <1>6, <2>3, <3>2
  <2> QED
    BY <2>1, <2>2, <2>3
<1>13. Streamed'
  <2> SUFFICES ASSUME ~Gone, scene.op = "stream" PROVE Streamed'
    BY <1>1 DEF Streamed, Gone
  <2>1. /\ output.data \o DataOf(outbox) = stream.audio
        /\ output.head # "final" /\ (output.head = "none" => output.data = <<>>)
        /\ \A i \in 1..Len(outbox) : FrameFits(outbox[i], i = 1 /\ output.head = "none")
        /\ IF stream.header THEN output.head # "none" \/ outbox # <<>>
           ELSE output.head = "none" /\ (outbox # <<>> => told # NoCode)
    BY DEF ConnectionInv, Streamed
  <2>2. DataOf(outbox') = DataOf(outbox)
    BY <1>3, <1>6, ConcatEmptySeq
  <2>3. \A i \in 1..Len(outbox) : outbox[i].kind \notin LastWords
    BY <1>1 DEF ConnectionInv, Answered
  <2>4. ASSUME NEW i \in 1..Len(outbox')
        PROVE  FrameFits(outbox[i], i = 1 /\ output.head = "none")'
    <3>1. CASE i \in 1..Len(outbox)
      <4>1. FrameFits(outbox[i], i = 1 /\ output.head = "none") /\ outbox'[i] = outbox[i]
            /\ outbox[i].kind \notin LastWords
        BY <1>6, <2>1, <2>3, <3>1
      <4> QED
        BY <1>1, <1>7, <4>1 DEF FrameFits, LastWords
    <3>2. CASE i = Len(outbox) + 1
      <4>1. outbox'[i] = m
        BY <1>6, <3>2
      <4> QED
        BY <1>1, <1>3, <4>1 DEF FrameFits
    <3> QED
      BY <1>6, <3>1, <3>2
  <2> QED
    BY <1>1, <1>6, <1>7, <2>1, <2>2, <2>4 DEF Streamed
<1>14. Exited'
  BY ServerKeepsExited
<1> QED
  BY <1>8, <1>9, <1>10, <1>11, <1>12, <1>13, <1>14 DEF ConnectionInv

-----------------------------------------------------------------------------
(* Other steps of the server.                                                *)

\* Steps that say nothing to the client.
LEMMA ServerMoves ==
    ASSUME ConnectionInv, spc \notin {"none", "closed"},
           spc' \in {"token", "request", "dispatch", "call", "stream"},
           UNCHANGED <<scene, clientVars, outbox, told, stream>>,
           inbox' \in Seq({"token", "request"}), cancel' \in {"off", "watching", "fired"},
           Unread', scene.token, cpc = "token" => spc' = "token",
           spc' = "call" => scene.op = "tts", spc' = "stream" => scene.op = "stream"
    PROVE  ConnectionInv'
<1>1. told = NoCode /\ told' = NoCode
      /\ UNCHANGED <<scene, cpc, code, output, outbox, stream>>
  BY DEF clientVars, ConnectionInv, Order, Closed
<1>2. Types'
  BY <1>1 DEF ConnectionInv, Types, TypeOK
<1>3. Order'
  BY <1>1 DEF ConnectionInv, Order, Closed
<1>4. Sent'
  BY <1>1 DEF ConnectionInv, Sent, Closed, Generated
<1>5. Answered'
  BY <1>1 DEF ConnectionInv, Answered, Gone, Generated
<1>6. Streamed'
  BY <1>1 DEF ConnectionInv, Streamed, Gone, FrameFits, DataOf
<1>7. Exited'
  BY ServerKeepsExited
<1> QED
  BY <1>2, <1>3, <1>4, <1>5, <1>6, <1>7 DEF ConnectionInv

\* A header or a chunk is sent.
LEMMA FrameKeeps ==
    ASSUME ConnectionInv, spc = "stream", UNCHANGED <<scene, clientVars, inbox, spc, told, cancel>>,
           NEW m \in Messages, m.kind \in {"header", "chunk"}, Send(m),
           stream' = [header |-> TRUE, audio |-> stream.audio \o m.data, last |-> "none"],
           stream.last = "none",
           Len(stream'.audio) <= Len(Generated),
           stream'.audio = SubSeq(Generated, 1, Len(stream'.audio)),
           IF m.kind = "header" THEN ~stream.header /\ m.data = <<>> ELSE stream.header
    PROVE  ConnectionInv'
<1>1. told = NoCode /\ told' = NoCode
      /\ UNCHANGED <<scene, cpc, code, output, inbox, spc, cancel>>
  BY DEF clientVars, ConnectionInv, Order, Closed
<1>2. /\ outbox \in Seq(Messages) /\ stream.audio \in Seq(Sounds) /\ m.data \in Seq(Sounds)
      /\ output.data \in Seq(Sounds) /\ scene.op = "stream"
  BY TypesOf DEF Messages, ConnectionInv, Order
<1>3. /\ outbox' \in Seq(Messages) /\ Len(outbox) \in Nat
      /\ ~Gone => /\ outbox' # <<>> /\ Len(outbox') = Len(outbox) + 1
                  /\ \A i \in 1..Len(outbox) : outbox'[i] = outbox[i]
                  /\ outbox'[Len(outbox')] = m
                  /\ \A i \in 1..Len(outbox') : i \in 1..Len(outbox) \/ i = Len(outbox) + 1
                  /\ DataOf(outbox') = DataOf(outbox) \o m.data
                  /\ DataOf(outbox) \in Seq(Sounds)
                  /\ outbox = <<>> <=> Len(outbox) = 0
  BY <1>2, OutboxGrows
<1>4. /\ stream'.header = TRUE /\ stream'.audio = stream.audio \o m.data
      /\ stream'.last = "none"
      /\ stream' \in [header : BOOLEAN, audio : Seq(Sounds), last : {"none", "end", "error"}]
  <2>1. stream.audio \o m.data \in Seq(Sounds)
    BY <1>2, ConcatProperties
  <2> QED
    BY <2>1
<1>5. Types'
  <2>1. TypeOK'
    BY <1>1, <1>3, <1>4 DEF ConnectionInv, Types, TypeOK
  <2> QED
    BY <1>1, <1>4, <2>1 DEF ConnectionInv, Types
<1>6. Order'
  BY <1>1 DEF ConnectionInv, Order, Closed
<1>7. Sent'
  BY <1>1, <1>4 DEF Sent, Closed, Generated
<1>8. Unread'
  BY <1>1 DEF ConnectionInv, Unread, Gone
<1>9. \A i \in 1..Len(outbox) : ~Gone => outbox[i].kind \notin LastWords
  BY <1>1 DEF ConnectionInv, Answered
<1>10. Answered'
  <2> SUFFICES ASSUME ~Gone, NEW i \in 1..Len(outbox') PROVE outbox'[i].kind \notin LastWords
    BY <1>1, <1>2 DEF Answered, Gone
  <2>1. CASE i \in 1..Len(outbox)
    BY <1>3, <1>9, <2>1
  <2>2. CASE i = Len(outbox) + 1
    BY <1>3, <2>2 DEF LastWords
  <2> QED
    BY <1>3, <2>1, <2>2
<1>11. Streamed'
  <2> SUFFICES ASSUME ~Gone PROVE Streamed'
    BY <1>1 DEF Streamed, Gone
  <2>1. /\ output.data \o DataOf(outbox) = stream.audio
        /\ output.head # "final" /\ (output.head = "none" => output.data = <<>>)
        /\ \A i \in 1..Len(outbox) : FrameFits(outbox[i], i = 1 /\ output.head = "none")
        /\ IF stream.header THEN output.head # "none" \/ outbox # <<>>
           ELSE output.head = "none" /\ (outbox # <<>> => told # NoCode)
    BY <1>2 DEF ConnectionInv, Streamed
  <2>2. output.data \o DataOf(outbox') = stream'.audio
    <3> DEFINE a == output.data
               b == DataOf(outbox)
               d == m.data
    <3>1. a \in Seq(Sounds) /\ b \in Seq(Sounds) /\ d \in Seq(Sounds)
      BY <1>2, <1>3
    <3> HIDE DEF a, b, d
    <3>2. a \o (b \o d) = (a \o b) \o d
      BY <3>1, ConcatAssociative, SMTT(20)
    <3>3. DataOf(outbox') = b \o d
      BY <1>3 DEF b, d
    <3>4. stream'.audio = (a \o b) \o d
      BY <1>4, <2>1 DEF a, b, d
    <3> QED
      BY <3>2, <3>3, <3>4 DEF a
  <2>3. ASSUME NEW i \in 1..Len(outbox')
        PROVE  FrameFits(outbox[i], i = 1 /\ output.head = "none")'
    <3>1. CASE i \in 1..Len(outbox)
      <4>1. FrameFits(outbox[i], i = 1 /\ output.head = "none") /\ outbox'[i] = outbox[i]
            /\ outbox[i].kind \notin LastWords
        BY <1>3, <1>9, <2>1, <3>1
      <4> QED
        BY <1>1, <1>4, <4>1 DEF FrameFits, LastWords
    <3>2. CASE i = Len(outbox) + 1
      <4>1. outbox'[i] = m
        BY <1>3, <3>2
      <4>2. m.kind = "header" <=> (i = 1 /\ output.head = "none")
        BY <1>1, <1>3, <2>1, <3>2
      <4> QED
        BY <1>1, <1>4, <4>1, <4>2 DEF FrameFits
    <3> QED
      BY <1>3, <3>1, <3>2
  <2> QED
    BY <1>1, <1>3, <1>4, <2>1, <2>2, <2>3 DEF Streamed
<1>12. Exited'
  BY ServerKeepsExited
<1> QED
  BY <1>5, <1>6, <1>7, <1>8, <1>10, <1>11, <1>12 DEF ConnectionInv

-----------------------------------------------------------------------------
(* Steps of the client.                                                      *)

\* What the client reads first.
LEMMA OutboxRead ==
    ASSUME outbox \in Seq(Messages), outbox # <<>>
    PROVE  /\ Head(outbox) \in Messages /\ Head(outbox) = outbox[1] /\ 1 \in 1..Len(outbox)
           /\ Tail(outbox) \in Seq(Messages) /\ Len(Tail(outbox)) = Len(outbox) - 1
           /\ \A i \in 1..Len(Tail(outbox)) :
                 i + 1 \in 1..Len(outbox) /\ Tail(outbox)[i] = outbox[i + 1]
           /\ DataOf(outbox) = Head(outbox).data \o DataOf(Tail(outbox))
           /\ Head(outbox).data \in Seq(Sounds) /\ DataOf(Tail(outbox)) \in Seq(Sounds)
           /\ Tail(outbox) = <<>> <=> Len(outbox) = 1
           /\ Len(outbox) \in Nat \ {0}
<1> DEFINE t == Tail(outbox)
<1>1. /\ Head(outbox) \in Messages /\ t \in Seq(Messages) /\ Len(t) = Len(outbox) - 1
      /\ \A i \in 1..Len(t) : t[i] = outbox[i + 1]
      /\ Len(outbox) \in Nat \ {0}
  BY HeadTailProperties, EmptySeq
<1>2. 1 \in 1..Len(outbox) /\ Head(outbox) = outbox[1]
  BY <1>1
<1>3. \A i \in 1..Len(t) : i + 1 \in 1..Len(outbox)
  <2> HIDE DEF t
  <2> QED
    BY <1>1
<1>4. t = <<>> <=> Len(outbox) = 1
  <2> HIDE DEF t
  <2> QED
    BY <1>1, EmptySeq
<1>5. DataOf(outbox) = Head(outbox).data \o DataOf(t) /\ DataOf(t) \in Seq(Sounds)
      /\ Head(outbox).data \in Seq(Sounds)
  <2> DEFINE one == <<Head(outbox)>>
  <2>1. /\ Carry(Messages, Sounds)
        /\ one \in Seq(Messages) /\ t \in Seq(Messages) /\ Head(outbox).data \in Seq(Sounds)
    BY <1>1 DEF Carry, Messages
  <2>2. outbox = one \o t
    BY HeadFirst
  <2>3. DataOf(one) = Head(outbox).data
    BY <2>1, DataOfOne
  <2> HIDE DEF one, t
  <2>4. DataOf(one \o t) = DataOf(one) \o DataOf(t) /\ DataOf(t) \in Seq(Sounds)
    BY <2>1, DataConcat
  <2> QED
    BY <2>1, <2>2, <2>3, <2>4
<1> QED
  BY <1>1, <1>2, <1>3, <1>4, <1>5

-----------------------------------------------------------------------------
(* The first state, and the steps of the server.                             *)

\* Nothing was sent, and nothing is claimed.
LEMMA InitConnectionInv == Init => ConnectionInv
<1> SUFFICES ASSUME Init PROVE ConnectionInv
  OBVIOUS
<1>1. scene \in Scenes /\ (~scene.tcp => scene.token)
  BY DEF Init
<1>2. /\ cpc = "start" /\ code = NoCode /\ output = [head |-> "none", data |-> <<>>]
      /\ inbox = <<>> /\ outbox = <<>> /\ spc = "none" /\ told = NoCode /\ cancel = "off"
      /\ stream = [header |-> FALSE, audio |-> <<>>, last |-> "none"]
  BY DEF Init
<1>3. <<>> \in Seq(Sounds) /\ Generated \in Seq(Sounds) /\ inbox \in Seq({"token", "request"})
      /\ outbox \in Seq(Messages)
  BY <1>2, GeneratedSounds, EmptySeq
<1>4. Types
  <2>1. code \in Ok..Killed /\ told \in Ok..NoCode
    BY <1>2, Codes
  <2> QED
    BY <1>1, <1>2, <1>3, <2>1 DEF Types, TypeOK
<1>5. Order
  BY <1>1, <1>2 DEF Order, Answers
<1>6. Sent
  <2>1. Len(stream.audio) = 0 /\ Len(Generated) \in Nat
    BY <1>2, <1>3, LenProperties
  <2>2. SubSeq(Generated, 1, 0) = <<>>
    BY <1>3, SubSeqEmpty
  <2> QED
    BY <1>2, <2>1, <2>2 DEF Sent
<1>7. Unread
  BY <1>2 DEF Unread
<1>8. Len(outbox) = 0
  BY <1>2
<1>9. Answered
  BY <1>2, <1>8 DEF Answered
<1>10. Streamed
  <2>1. output.data \o DataOf(outbox) = stream.audio
    BY <1>2, <1>3, DataOfNone, ConcatEmptySeq
  <2> QED
    BY <1>2, <1>8, <2>1 DEF Streamed
<1>11. Exited
  BY <1>2, Codes DEF Exited, ExitZeroMeansComplete, ExitTellsVerdict, PartialFileIsMarked
<1> QED
  BY <1>4, <1>5, <1>6, <1>7, <1>9, <1>10, <1>11 DEF ConnectionInv

\* A token is read, and perhaps refused.
LEMMA ReadTokenKeeps == ConnectionInv /\ ReadToken => ConnectionInv'
<1> SUFFICES ASSUME ConnectionInv, ReadToken PROVE ConnectionInv'
  OBVIOUS
<1>1. /\ spc = "token" /\ inbox # <<>> /\ inbox' = Tail(inbox)
      /\ UNCHANGED <<scene, clientVars, cancel, stream>>
      /\ cpc' = cpc
  BY DEF ReadToken, clientVars
<1>2. inbox \in Seq({"token", "request"})
  BY TypesOf
<1>3. inbox' \in Seq({"token", "request"})
  BY <1>1, <1>2, HeadTailProperties
<1>4. cancel' \in {"off", "watching", "fired"}
  BY <1>1 DEF ConnectionInv, Types, TypeOK
<1>5. CASE scene.token
  <2>1. spc' = "request" /\ UNCHANGED <<outbox, told>>
    BY <1>5 DEF ReadToken
  <2>2. ~Gone => inbox = IF cpc = "token" THEN <<>>
                         ELSE IF cpc = "request" THEN <<"token">> ELSE <<"token", "request">>
    BY <1>1 DEF ConnectionInv, Unread
  <2>3. Tail(<<"token">>) = <<>> /\ Tail(<<"token", "request">>) = <<"request">>
    OBVIOUS
  <2>4. ~Gone => inbox' = IF cpc = "request" THEN <<>> ELSE <<"request">>
    BY <1>1, <2>2, <2>3
  <2>5. told = NoCode
    BY <1>1 DEF ConnectionInv, Order, Closed
  <2>6. Unread'
    BY <1>1, <2>1, <2>4, <2>5 DEF Unread, Gone
  <2>7. cpc # "token"
    BY <1>1, <2>2 DEF Gone
  <2> QED
    BY <1>1, <1>3, <1>4, <1>5, <2>1, <2>6, <2>7, ServerMoves
<1>6. CASE ~scene.token
  <2>1. Close /\ told' = BadRequest /\ Send(Message("response", BadRequest, <<>>))
    BY <1>6 DEF ReadToken
  <2>2. BadRequest \in Answers \ {NoCode} /\ <<>> \in Seq(Sounds) /\ BadRequest # Ok
    BY Codes, GeneratedSounds DEF Answers
  <2>3. stream' = [stream EXCEPT !.last = @] /\ stream'.last = stream.last /\ stream.last # "end"
    <3>1. stream.last = "none"
      BY <1>1, TypesOf DEF ConnectionInv, Sent, Closed
    <3>2. stream = [stream EXCEPT !.last = @]
      BY TypesOf
    <3> QED
      BY <1>1, <3>1, <3>2
  <2> QED
    BY <1>1, <1>3, <1>4, <1>6, <2>1, <2>2, <2>3, LastWordKeeps
<1> QED
  BY <1>5, <1>6

\* A request is read.
LEMMA ReadRequestKeeps == ConnectionInv /\ ReadRequest => ConnectionInv'
<1> SUFFICES ASSUME ConnectionInv, ReadRequest PROVE ConnectionInv'
  OBVIOUS
<1>1. /\ spc = "request" /\ inbox # <<>> /\ inbox' = Tail(inbox) /\ spc' = "dispatch"
      /\ UNCHANGED <<scene, clientVars, outbox, told, cancel, stream>>
      /\ cpc' = cpc
  BY DEF ReadRequest, clientVars
<1>2. inbox \in Seq({"token", "request"})
  BY TypesOf
<1>3. inbox' \in Seq({"token", "request"})
  BY <1>1, <1>2, HeadTailProperties
<1>4. cancel' \in {"off", "watching", "fired"}
  BY <1>1 DEF ConnectionInv, Types, TypeOK
<1>5. scene.token /\ cpc \notin {"token", "start", "connect"} /\ told = NoCode
  BY <1>1 DEF ConnectionInv, Order, Closed
<1>6. ~Gone => cpc # "request" /\ inbox' = <<>>
  <2>1. ~Gone => inbox = IF cpc = "request" THEN <<>> ELSE <<"request">>
    BY <1>1 DEF ConnectionInv, Unread
  <2>2. Tail(<<"request">>) = <<>>
    OBVIOUS
  <2> QED
    BY <1>1, <2>1, <2>2
<1>7. Unread'
  BY <1>1, <1>5, <1>6 DEF Unread, Gone
<1> QED
  BY <1>1, <1>3, <1>4, <1>5, <1>7, ServerMoves

\* The engine or the upstream is called.
LEMMA DispatchCallKeeps == ConnectionInv /\ DispatchCall => ConnectionInv'
<1> SUFFICES ASSUME ConnectionInv, DispatchCall PROVE ConnectionInv'
  OBVIOUS
<1>1. /\ spc = "dispatch" /\ scene.op # "status"
      /\ spc' = IF scene.op = "tts" THEN "call" ELSE "stream"
      /\ cancel' = "watching"
      /\ UNCHANGED <<scene, clientVars, inbox, outbox, told, stream>> /\ cpc' = cpc
  BY DEF DispatchCall, clientVars
<1>2. scene.op \in {"status", "tts", "stream"}
  BY TypesOf DEF Scenes
<1>3. inbox' \in Seq({"token", "request"})
  BY <1>1, TypesOf
<1>4. scene.token /\ cpc \notin {"token", "start", "connect"} /\ told = NoCode
  BY <1>1 DEF ConnectionInv, Order, Closed
<1>5. ~Gone => inbox = <<>> /\ cpc \notin {"start", "connect", "token", "request"}
  BY <1>1 DEF ConnectionInv, Unread
<1>6. Unread'
  BY <1>1, <1>5 DEF Unread, Gone
<1> QED
  BY <1>1, <1>2, <1>3, <1>4, <1>6, ServerMoves

\* The watcher only has its Notify to tell.
LEMMA WatcherKeeps == ConnectionInv /\ WatcherFires => ConnectionInv'
<1> SUFFICES ASSUME ConnectionInv, WatcherFires PROVE ConnectionInv'
  OBVIOUS
<1>1. /\ cancel' = "fired"
      /\ UNCHANGED <<scene, cpc, code, output, inbox, outbox, spc, told, stream>>
  BY DEF WatcherFires, clientVars
<1>2. Types'
  BY <1>1 DEF ConnectionInv, Types, TypeOK
<1>3. Order' /\ Sent' /\ Unread'
  BY <1>1 DEF ConnectionInv, Order, Sent, Unread, Closed, Gone, Generated
<1>4. Answered' /\ Streamed'
  BY <1>1 DEF ConnectionInv, Answered, Streamed, Gone, Generated, FrameFits, DataOf
<1>5. Exited'
  BY <1>1 DEF ConnectionInv, Exited, ExitZeroMeansComplete, ExitTellsVerdict, Expected,
              PartialFileIsMarked, Generated
<1> QED
  BY <1>2, <1>3, <1>4, <1>5 DEF ConnectionInv

\* The connection ends without an answer.
LEMMA SilentEndKeeps ==
    ConnectionInv /\ (RefuseOversize \/ ReadEof \/ StreamBroken \/ ServerDies)
        => ConnectionInv'
<1> SUFFICES ASSUME ConnectionInv, RefuseOversize \/ ReadEof \/ StreamBroken \/ ServerDies
             PROVE ConnectionInv'
  OBVIOUS
<1>1. /\ spc \notin {"none", "closed"} /\ Close
      /\ UNCHANGED <<scene, clientVars, inbox, outbox, told, stream>>
      /\ cancel' \in {cancel, "off"}
  BY DEF RefuseOversize, ReadEof, StreamBroken, ServerDies
<1>2. cancel' \in {"off", "watching", "fired"}
  BY <1>1 DEF ConnectionInv, Types, TypeOK
<1> QED
  BY <1>1, <1>2, CloseKeeps

\* A last word after a request was read: a response, or the end of a stream.
LEMMA LastWordGiven ==
    ASSUME ConnectionInv, spc \in {"dispatch", "call", "stream"},
           NEW c \in Answers \ {NoCode}, NEW data \in Seq(Sounds), LastWord(c, data),
           UNCHANGED <<scene, clientVars, inbox>>,
           cancel' \in {"off", "watching", "fired"},
           stream' = [stream EXCEPT !.last = @] \/ stream' = [stream EXCEPT !.last = "end"]
              \/ stream' = [stream EXCEPT !.last = "error"],
           stream'.last = "end" => stream.audio = Generated,
           scene.op = "stream" => data = <<>>,
           scene.op = "stream" /\ c = Ok => stream'.last = "end",
           scene.op = "tts" /\ c = Ok => data = Generated
    PROVE  ConnectionInv'
<1>1. CASE scene.op # "stream"
  <2>1. Send(Message("response", c, data)) /\ told' = c /\ Close
    BY <1>1 DEF LastWord
  <2> QED
    BY <1>1, <2>1, LastWordKeeps
<1>2. CASE scene.op = "stream" /\ c = Ok
  <2>1. Send(Message("end", c, data)) /\ told' = c /\ Close
    BY <1>2 DEF LastWord
  <2> QED
    BY <1>2, <2>1, LastWordKeeps
<1>3. CASE scene.op = "stream" /\ c # Ok
  <2>1. Send(Message("error", c, data)) /\ told' = c /\ Close
    BY <1>3 DEF LastWord
  <2> QED
    BY <1>3, <2>1, LastWordKeeps
<1> QED
  BY <1>1, <1>2, <1>3

\* The types of the answers, and what a step that sends no frame leaves of a stream.
LEMMA AnswerTypes ==
    ASSUME ConnectionInv
    PROVE  /\ Ok \in Answers \ {NoCode} /\ Failures \subseteq Answers \ {NoCode, Ok}
           /\ ModelMissing \in Answers \ {NoCode, Ok} /\ BadRequest \in Answers \ {NoCode, Ok}
           /\ GenerationFailed \in Answers \ {NoCode, Ok}
           /\ cancel \in {"off", "watching", "fired"}
           /\ spc # "closed" => stream.last = "none" /\ told = NoCode
           /\ stream = [stream EXCEPT !.last = @]
           /\ <<>> \in Seq(Sounds) /\ Generated \in Seq(Sounds)
<1>1. /\ Ok \in Answers \ {NoCode}
      /\ ModelMissing \in Answers \ {NoCode, Ok} /\ BadRequest \in Answers \ {NoCode, Ok}
      /\ GenerationFailed \in Answers \ {NoCode, Ok}
  BY Codes DEF Answers
<1>2. Failures \subseteq Answers \ {NoCode, Ok}
  BY <1>1 DEF Failures
<1>3. cancel \in {"off", "watching", "fired"}
  BY DEF ConnectionInv, Types, TypeOK
<1>4. spc # "closed" => stream.last = "none" /\ told = NoCode
  BY DEF ConnectionInv, Sent, Order, Closed
<1>5. stream = [stream EXCEPT !.last = @]
  BY TypesOf
<1> QED
  BY <1>1, <1>2, <1>3, <1>4, <1>5, GeneratedSounds

\* The answers of dispatch that need no engine.
LEMMA DispatchAnswerKeeps ==
    ConnectionInv /\ (DispatchRefused \/ DispatchStatus \/ RelayStatus) => ConnectionInv'
<1> SUFFICES ASSUME ConnectionInv, DispatchRefused \/ DispatchStatus \/ RelayStatus
             PROVE ConnectionInv'
  OBVIOUS
<1>1. /\ spc = "dispatch" /\ UNCHANGED <<scene, clientVars, inbox>>
      /\ cancel' = cancel /\ stream' = stream
  BY DEF DispatchRefused, DispatchStatus, RelayStatus, Probing
<1>2. \E c \in Answers \ {NoCode} : /\ LastWord(c, <<>>)
                                    /\ scene.op # "status" => c # Ok
  <2>1. CASE DispatchRefused
    <3>1. Refusal \in {ModelMissing, BadRequest} /\ LastWord(Refusal, <<>>)
      BY <2>1 DEF DispatchRefused, Refusal
    <3> QED
      BY <3>1, AnswerTypes
  <2>2. CASE DispatchStatus
    BY <2>2, AnswerTypes DEF DispatchStatus
  <2>3. CASE RelayStatus
    BY <2>3, AnswerTypes DEF RelayStatus, Probing
  <2> QED
    BY <2>1, <2>2, <2>3
<1>3. PICK c \in Answers \ {NoCode} : LastWord(c, <<>>) /\ (scene.op # "status" => c # Ok)
  BY <1>2
<1>4. /\ cancel' \in {"off", "watching", "fired"} /\ stream' = [stream EXCEPT !.last = @]
      /\ stream'.last = "none" /\ <<>> \in Seq(Sounds)
  BY <1>1, AnswerTypes
<1> QED
  BY <1>1, <1>3, <1>4, LastWordGiven

\* The answers of a call, of the engine or of the upstream.
LEMMA CallAnswerKeeps ==
    ConnectionInv /\ (EngineReturns \/ UpstreamReturns \/ CallCancelled) => ConnectionInv'
<1> SUFFICES ASSUME ConnectionInv, EngineReturns \/ UpstreamReturns \/ CallCancelled
             PROVE ConnectionInv'
  OBVIOUS
<1>1. /\ spc = "call" /\ UNCHANGED <<scene, clientVars, inbox>>
      /\ cancel' = (IF cancel = "watching" THEN "off" ELSE cancel) /\ stream' = stream
  BY DEF EngineReturns, UpstreamReturns, CallCancelled, Answer
<1>2. scene.op = "tts"
  BY <1>1 DEF ConnectionInv, Order
<1>3. \E c \in Answers \ {NoCode} : \E data \in Seq(Sounds) :
         LastWord(c, data) /\ (c = Ok => data = Generated)
  <2>1. CASE \E c \in Failures : Answer(c, <<>>)
    <3>1. PICK c \in Failures : LastWord(c, <<>>)
      BY <2>1 DEF Answer
    <3> QED
      BY <3>1, AnswerTypes
  <2>2. CASE Answer(Ok, Generated)
    BY <2>2, AnswerTypes DEF Answer
  <2>3. CASE Answer(GenerationFailed, <<>>)
    BY <2>3, AnswerTypes DEF Answer
  <2> QED
    BY <2>1, <2>2, <2>3 DEF EngineReturns, UpstreamReturns, CallCancelled
<1>4. PICK c \in Answers \ {NoCode}, data \in Seq(Sounds) :
         LastWord(c, data) /\ (c = Ok => data = Generated)
  BY <1>3
<1>5. /\ cancel' \in {"off", "watching", "fired"} /\ stream' = [stream EXCEPT !.last = @]
      /\ stream'.last = "none"
  BY <1>1, AnswerTypes
<1> QED
  BY <1>1, <1>2, <1>4, <1>5, LastWordGiven

\* The end of a stream, which StreamService gives after all of the audio, or its error.
LEMMA StreamLastKeeps == ConnectionInv /\ (StreamEnd \/ StreamError) => ConnectionInv'
<1> SUFFICES ASSUME ConnectionInv, StreamEnd \/ StreamError PROVE ConnectionInv'
  OBVIOUS
<1>1. /\ spc = "stream" /\ UNCHANGED <<scene, clientVars, inbox>>
      /\ cancel' = (IF cancel = "watching" THEN "off" ELSE cancel)
  BY DEF StreamEnd, StreamError
<1>2. scene.op = "stream"
  BY <1>1 DEF ConnectionInv, Order
<1>3. cancel' \in {"off", "watching", "fired"}
  BY <1>1, AnswerTypes
<1>4. CASE StreamEnd
  <2>1. LastWord(Ok, <<>>) /\ stream' = [stream EXCEPT !.last = "end"]
    BY <1>4 DEF StreamEnd
  <2>2. stream.audio = Generated
    BY <1>4 DEF StreamEnd, Source!End
  <2>3. stream'.last = "end"
    BY <2>1, TypesOf
  <2> QED
    BY <1>1, <1>2, <1>3, <2>1, <2>2, <2>3, AnswerTypes, LastWordGiven
<1>5. CASE StreamError
  <2>1. stream' = [stream EXCEPT !.last = "error"]
    BY <1>5 DEF StreamError
  <2>2. PICK c \in Failures : LastWord(c, <<>>)
    BY <1>5 DEF StreamError
  <2>3. stream'.last = "error"
    BY <2>1, TypesOf
  <2>4. c \in Answers \ {NoCode} /\ c # Ok
    BY <2>2, AnswerTypes
  <2> QED
    BY <1>1, <1>2, <1>3, <2>1, <2>2, <2>3, <2>4, AnswerTypes, LastWordGiven
<1> QED
  BY <1>4, <1>5

\* A header, and then chunks that go on where the last one ended.
LEMMA StreamFrameKeeps == ConnectionInv /\ (StreamHeader \/ StreamChunk) => ConnectionInv'
<1> SUFFICES ASSUME ConnectionInv, StreamHeader \/ StreamChunk PROVE ConnectionInv'
  OBVIOUS
<1>1. spc = "stream" /\ UNCHANGED <<scene, clientVars, inbox, spc, told, cancel>>
  BY DEF StreamHeader, StreamChunk
<1>2. /\ stream = [header |-> stream.header, audio |-> stream.audio, last |-> stream.last]
      /\ stream.audio \in Seq(Sounds) /\ Generated \in Seq(Sounds) /\ <<>> \in Seq(Sounds)
      /\ Len(stream.audio) \in Nat /\ Len(Generated) \in Nat
  BY TypesOf, AnswerTypes, LenProperties
<1>3. Len(stream.audio) <= Len(Generated)
      /\ stream.audio = SubSeq(Generated, 1, Len(stream.audio))
  BY DEF ConnectionInv, Sent
<1>4. Ok \in Ok..Unknown
  BY Codes
<1>5. stream.last = "none"
  BY <1>1, AnswerTypes
<1>6. CASE StreamHeader
  <2>1. stream' = [stream EXCEPT !.header = TRUE] /\ Send(Message("header", Ok, <<>>))
    BY <1>6 DEF StreamHeader
  <2>2. ~stream.header
    BY <1>6 DEF StreamHeader, Source!Header
  <2>3. stream.audio \o <<>> = stream.audio
    BY <1>2, ConcatEmptySeq
  <2>4. stream' = [header |-> TRUE, audio |-> stream.audio \o <<>>, last |-> "none"]
    BY <1>2, <1>5, <2>1, <2>3
  <2>5. stream'.audio = stream.audio
    BY <2>3, <2>4
  <2> DEFINE m == Message("header", Ok, <<>>)
  <2>6. m \in Messages /\ m.kind = "header" /\ m.data = <<>>
    BY <1>2, <1>4 DEF Message, Messages
  <2>7. Send(m)
    BY <2>1
  <2> HIDE DEF m
  <2> QED
    BY <1>1, <1>3, <1>5, <2>2, <2>4, <2>5, <2>6, <2>7, FrameKeeps
<1>7. CASE StreamChunk
  <2>1. PICK n \in 1..Len(Generated) : stream' = [stream EXCEPT !.audio = SubSeq(Generated, 1, n)]
    BY <1>7 DEF StreamChunk
  <2> DEFINE k == Len(stream.audio)
             more == SubSeq(Generated, k + 1, n)
  <2>2. stream' = [header |-> stream.header, audio |-> SubSeq(Generated, 1, n), last |-> "none"]
    BY <1>2, <1>5, <2>1
  <2>3. stream.header /\ n > k
    <3>1. /\ stream.header
          /\ \E i \in k + 1 .. Len(Generated) :
                [c \in {"client"} |-> stream'.audio] =
                  [[c \in {"client"} |-> stream.audio] EXCEPT !["client"] = SubSeq(Generated, 1, i)]
      BY <1>7 DEF StreamChunk, Source!Chunk
    <3>2. PICK i \in k + 1 .. Len(Generated) : stream'.audio = SubSeq(Generated, 1, i)
      BY <3>1
    <3>3. Len(SubSeq(Generated, 1, i)) = i /\ Len(SubSeq(Generated, 1, n)) = n
      BY <1>2, SubSeqProperties
    <3> QED
      BY <1>2, <2>2, <3>1, <3>2, <3>3
  <2>4. SubSeq(Generated, 1, n) \in Seq(Sounds) /\ Len(SubSeq(Generated, 1, n)) = n
    BY <1>2, SubSeqProperties
  <2>5. SubSeq(stream'.audio, k + 1, Len(stream'.audio)) = more /\ more \in Seq(Sounds)
    <3>1. SubSeq(SubSeq(Generated, 1, n), k + 1, n) = SubSeq(Generated, k + 1, n)
      BY <1>2, <2>3
    <3>2. more \in Seq(Sounds)
      BY <1>2, <1>3, <2>3, SubSeqProperties
    <3> QED
      BY <2>2, <2>4, <3>1, <3>2
  <2>6. stream.audio \o more = SubSeq(Generated, 1, n)
    <3>1. SubSeq(Generated, 1, k) \o SubSeq(Generated, k + 1, n) = SubSeq(Generated, 1, n)
      <4>1. 1 \in 1..Len(Generated) + 1 /\ k \in 1 - 1 .. Len(Generated)
            /\ n \in k .. Len(Generated)
        BY <1>2, <1>3, <2>3
      <4> HIDE DEF k
      <4> QED
        BY <1>2, <4>1, ConcatAdjacentSubSeq
    <3> QED
      BY <1>3, <3>1
  <2> DEFINE m == Message("chunk", Ok, more)
  <2>7. m \in Messages /\ m.kind = "chunk" /\ m.data = more
    <3> HIDE DEF more
    <3> QED
      BY <1>4, <2>5 DEF Message, Messages
  <2>8. Send(m)
    BY <1>7, <2>5 DEF StreamChunk
  <2> HIDE DEF m, more
  <2>9. stream' = [header |-> TRUE, audio |-> stream.audio \o m.data, last |-> "none"]
    BY <2>2, <2>3, <2>6, <2>7
  <2>10. /\ Len(stream'.audio) <= Len(Generated)
         /\ stream'.audio = SubSeq(Generated, 1, Len(stream'.audio))
    BY <1>2, <2>2, <2>4
  <2> QED
    BY <1>1, <1>5, <2>3, <2>7, <2>8, <2>9, <2>10, FrameKeeps
<1> QED
  BY <1>6, <1>7

\* A client that goes on exits with nothing yet.
LEMMA ClientMoves ==
    ASSUME ConnectionInv, ~Gone,
           cpc' \in {"connect", "token", "request", "create", "response", "payload", "frames"},
           UNCHANGED <<scene, code, output, outbox, told, cancel, stream>>,
           spc' = spc \/ (spc = "none" /\ spc' \in {"token", "request"}),
           inbox' \in Seq({"token", "request"}), Order', Unread'
    PROVE  ConnectionInv'
<1>1. code = NoCode
  BY TypesOf
<1>2. ~Gone'
  BY DEF Gone
<1>3. Types'
  BY <1>1 DEF ConnectionInv, Types, TypeOK
<1>4. Sent'
  BY DEF ConnectionInv, Sent, Order, Closed, Generated
<1>5. Answered'
  BY <1>2 DEF ConnectionInv, Answered, Generated
<1>6. Streamed'
  BY <1>2 DEF ConnectionInv, Streamed, FrameFits, DataOf
<1>7. Exited'
  BY <1>1, Codes DEF ConnectionInv, Exited, ExitZeroMeansComplete, ExitTellsVerdict,
                     PartialFileIsMarked, Generated
<1> QED
  BY <1>3, <1>4, <1>5, <1>6, <1>7 DEF ConnectionInv

\* An exit of its own, with the output as it is and no audio claimed.
LEMMA ExitsAsItIs ==
    ASSUME ConnectionInv, NEW c \in {Unreachable, ModelMissing, GenerationFailed, BadRequest,
                                     Unknown, Ok},
           Exit(c), UNCHANGED <<scene, output, inbox, serverVars>>, outbox' \in Seq(Messages),
           spc \in {"none", "closed"}, c = Ok => told = Ok /\ scene.op = "status",
           \/ told # NoCode /\ c = Expected
           \/ told = NoCode /\ c \in {Unreachable, Unknown}
           \/ ~scene.token /\ c \in {Unreachable, Unknown}
           \/ scene.request = "user" /\ c = BadRequest /\ spc = "none"
    PROVE  ConnectionInv'
<1>1. /\ code' = c /\ c \in Ok..Killed /\ c # NoCode /\ c # Killed
      /\ UNCHANGED <<spc, told, cancel, stream>> /\ scene' = scene /\ output' = output
  BY Codes DEF Exit, serverVars
<1>2. ExitZeroMeansComplete'
  BY <1>1 DEF ExitZeroMeansComplete
<1>3. ExitTellsVerdict'
  BY <1>1 DEF ExitTellsVerdict, Expected
<1>4. PartialFileIsMarked'
  BY <1>1 DEF ConnectionInv, Exited, PartialFileIsMarked, Generated
<1>5. output' = [head |-> output'.head, data |-> output'.data]
      /\ output'.head \in {"none", "placeholder", "final"} /\ output'.data \in Seq(Sounds)
  BY <1>1, TypesOf
<1> QED
  BY <1>1, <1>2, <1>3, <1>4, <1>5, ExitKeeps

\* Before the request is written.
LEMMA StartKeeps ==
    ConnectionInv /\ (Validate \/ Connect \/ ConnectFails) => ConnectionInv'
<1> SUFFICES ASSUME ConnectionInv, Validate \/ Connect \/ ConnectFails PROVE ConnectionInv'
  OBVIOUS
<1>1. cpc \in {"start", "connect"} /\ ~Gone /\ outbox' = outbox /\ inbox' = inbox
  BY DEF Validate, Connect, ConnectFails, Gone
<1>2. spc = "none" /\ outbox = <<>> /\ inbox = <<>> /\ told = NoCode
  BY <1>1 DEF ConnectionInv, Order, Closed
<1>3. outbox' \in Seq(Messages) /\ inbox' \in Seq({"token", "request"})
  BY <1>1, TypesOf
<1>4. CASE Validate /\ scene.request = "user"
  <2>1. Exit(BadRequest) /\ UNCHANGED <<scene, output, inbox, serverVars>>
    BY <1>4 DEF Validate
  <2> QED
    BY <1>2, <1>3, <1>4, <2>1, Codes, ExitsAsItIs
<1>5. CASE Validate /\ scene.request # "user"
  <2>1. cpc' = "connect" /\ UNCHANGED <<scene, code, output, inbox, outbox, spc, told, cancel, stream>>
    BY <1>5 DEF Validate, serverVars
  <2>2. Order' /\ Unread'
    BY <1>2, <2>1 DEF ConnectionInv, Order, Unread, Closed, Gone
  <2> QED
    BY <1>1, <1>3, <2>1, <2>2, ClientMoves
<1>6. CASE Connect
  <2>1. /\ cpc' = IF scene.tcp THEN "token" ELSE "request"
        /\ spc' = IF scene.tcp THEN "token" ELSE "request"
        /\ UNCHANGED <<scene, code, output, inbox, outbox, told, cancel, stream>>
    BY <1>6 DEF Connect
  <2>2. Order'
    BY <1>2, <2>1 DEF ConnectionInv, Order, Closed
  <2>3. Unread'
    BY <1>2, <2>1 DEF Unread
  <2> QED
    BY <1>1, <1>2, <1>3, <2>1, <2>2, <2>3, ClientMoves
<1>7. CASE ConnectFails
  <2>1. Exit(Unreachable) /\ UNCHANGED <<scene, output, inbox, serverVars>>
    BY <1>7 DEF ConnectFails
  <2> QED
    BY <1>2, <1>3, <2>1, Codes, ExitsAsItIs
<1> QED
  BY <1>4, <1>5, <1>6, <1>7

\* A second item in a sequence.
LEMMA AppendSecond ==
    ASSUME NEW a, NEW b
    PROVE  Append(<<a>>, b) = <<a, b>>
<1> DEFINE s == <<a>>
           t == Append(s, b)
           u == <<a, b>>
<1>1. s \in Seq({a, b}) /\ u \in Seq({a, b}) /\ Len(s) = 1 /\ Len(u) = 2
      /\ s[1] = a /\ u[1] = a /\ u[2] = b
  OBVIOUS
<1>2. t \in Seq({a, b}) /\ Len(t) = 2 /\ t[1] = a /\ t[2] = b
  <2>1. b \in {a, b}
    OBVIOUS
  <2> HIDE DEF s
  <2>2. /\ t \in Seq({a, b}) /\ Len(t) = Len(s) + 1 /\ t[Len(s) + 1] = b
        /\ \A i \in 1..Len(s) : t[i] = s[i]
    <3>1. s \in Seq({a, b})
      BY <1>1
    <3> QED
      BY <2>1, <3>1, AppendProperties
  <2> HIDE DEF t
  <2> QED
    BY <1>1, <2>2
<1> HIDE DEF t, u
<1>3. t = u
  BY <1>1, <1>2, SeqEqual
<1> QED
  BY <1>3 DEF t, u, s

\* The token and the request are written, whoever still reads them.
LEMMA WriteKeeps == ConnectionInv /\ (WriteToken \/ WriteRequest \/ CreateSink) => ConnectionInv'
<1> SUFFICES ASSUME ConnectionInv, WriteToken \/ WriteRequest \/ CreateSink PROVE ConnectionInv'
  OBVIOUS
<1>1. inbox \in Seq({"token", "request"})
  BY TypesOf
<1>2. CASE WriteToken
  <2>1. /\ cpc = "token" /\ cpc' = "request" /\ inbox' = Append(inbox, "token")
        /\ UNCHANGED <<scene, code, output, outbox, spc, told, cancel, stream>>
    BY <1>2 DEF WriteToken, serverVars
  <2>2. inbox' \in Seq({"token", "request"})
    BY <1>1, <2>1, AppendProperties
  <2>3. Order'
    <3>1. spc \in {"token", "closed"}
      BY <2>1 DEF ConnectionInv, Order
    <3> QED
      BY <2>1, <3>1 DEF ConnectionInv, Order, Closed
  <2>4. Unread'
    <3>1. spc \in {"token", "closed"}
      BY <2>1 DEF ConnectionInv, Order
    <3>2. spc = "token" => inbox = <<>>
      BY <2>1 DEF ConnectionInv, Unread, Gone
    <3>3. ~(told # NoCode /\ scene.token)
      BY <2>1 DEF ConnectionInv, Unread, Gone
    <3>4. Append(<<>>, "token") = <<"token">>
      OBVIOUS
    <3> QED
      BY <2>1, <3>1, <3>2, <3>3, <3>4 DEF Unread
  <2> QED
    BY <2>1, <2>2, <2>3, <2>4, ClientMoves DEF Gone
<1>3. CASE WriteRequest
  <2>1. /\ cpc = "request" /\ inbox' = Append(inbox, "request")
        /\ cpc' = IF scene.op = "stream" THEN "create" ELSE "response"
        /\ UNCHANGED <<scene, code, output, outbox, spc, told, cancel, stream>>
    BY <1>3 DEF WriteRequest, serverVars
  <2>2. inbox' \in Seq({"token", "request"})
    BY <1>1, <2>1, AppendProperties
  <2>3. Order'
    <3>1. spc # "none"
      BY <2>1 DEF ConnectionInv, Order
    <3> QED
      BY <2>1, <3>1 DEF ConnectionInv, Order, Closed
  <2>4. Unread'
    <3>1. /\ spc = "token" => inbox = <<"token">>
          /\ spc = "request" => inbox = <<>>
          /\ spc \notin {"dispatch", "call", "stream"} /\ ~(told # NoCode /\ scene.token)
      BY <2>1 DEF ConnectionInv, Unread, Gone
    <3>2. Append(<<>>, "request") = <<"request">>
          /\ Append(<<"token">>, "request") = <<"token", "request">>
      BY AppendSecond
    <3> QED
      BY <2>1, <3>1, <3>2 DEF Unread
  <2> QED
    BY <2>1, <2>2, <2>3, <2>4, ClientMoves DEF Gone
<1>4. CASE CreateSink
  <2>1. /\ cpc = "create" /\ cpc' = "frames"
        /\ UNCHANGED <<scene, code, output, inbox, outbox, spc, told, cancel, stream>>
    BY <1>4 DEF CreateSink, serverVars
  <2>2. Order' /\ Unread'
    BY <2>1 DEF ConnectionInv, Order, Unread, Closed, Gone
  <2> QED
    BY <1>1, <2>1, <2>2, ClientMoves DEF Gone
<1> QED
  BY <1>2, <1>3, <1>4

\* A connection that ends early: an answer to the request that was read is not lost.
LEMMA ConnectionEndKeeps ==
    ConnectionInv /\ (ConnectionReset \/ EndOfFile) => ConnectionInv'
<1> SUFFICES ASSUME ConnectionInv, ConnectionReset \/ EndOfFile PROVE ConnectionInv'
  OBVIOUS
<1>1. /\ ~Gone /\ spc = "closed" /\ Exit(Lost)
      /\ UNCHANGED <<scene, output, inbox, serverVars>> /\ outbox' = outbox
  BY DEF ConnectionReset, EndOfFile, Gone, Closed
<1>2. Lost \in {Unreachable, Unknown} /\ Lost # Ok
  BY Codes DEF Lost
<1>3. told = NoCode \/ ~scene.token
  <2>1. CASE ConnectionReset
    <3>1. cpc \in {"token", "request"} \/ inbox # <<>>
      BY <2>1 DEF ConnectionReset
    <3> QED
      BY <1>1, <3>1 DEF ConnectionInv, Unread
  <2>2. CASE EndOfFile
    BY <1>1, <2>2 DEF EndOfFile, ConnectionInv, Answered
  <2> QED
    BY <2>1, <2>2
<1>4. outbox' \in Seq(Messages)
  BY <1>1, TypesOf
<1> QED
  BY <1>1, <1>2, <1>3, <1>4, ExitsAsItIs

\* A client at the end of what was sent, with a last word before it, knows it.
LEMMA HeadIsLastWord ==
    ASSUME ConnectionInv, ~Gone, outbox # <<>>, Head(outbox).kind \in LastWords
    PROVE  told # NoCode /\ spc = "closed" /\ Head(outbox).code = told /\ Len(outbox) = 1
<1>1. outbox \in Seq(Messages)
  BY TypesOf
<1>2. Head(outbox) = outbox[1] /\ 1 \in 1..Len(outbox)
  BY <1>1, OutboxRead
<1>3. 1 = Len(outbox) /\ told # NoCode
  BY <1>2 DEF ConnectionInv, Answered
<1>4. outbox[Len(outbox)].code = told
  BY <1>3 DEF ConnectionInv, Answered
<1>5. spc = "closed"
  BY <1>3 DEF ConnectionInv, Order, Closed
<1> QED
  BY <1>2, <1>3, <1>4, <1>5

\* The answer to a call.
LEMMA ResponseRead ==
    ASSUME ConnectionInv, ~Gone, outbox # <<>>, scene.op # "stream"
    PROVE  /\ told # NoCode /\ spc = "closed" /\ Head(outbox).code = told
           /\ scene.op = "tts" /\ told = Ok => Head(outbox).data = Generated
<1>1. Head(outbox) = outbox[1] /\ 1 \in 1..Len(outbox)
  BY TypesOf, OutboxRead
<1>2. Head(outbox).kind = "response"
      /\ (scene.op = "tts" /\ told = Ok => Head(outbox).data = Generated)
  BY <1>1 DEF ConnectionInv, Answered
<1> QED
  BY <1>2, HeadIsLastWord DEF LastWords

\* A last word is a code of the table, which the client knows.
LEMMA VerdictKept ==
    ASSUME ConnectionInv, told # NoCode
    PROVE  /\ told \in {Ok, ModelMissing, GenerationFailed, BadRequest}
           /\ StatusToExit(told) = told /\ StatusToExit(told) \in Ok..Killed
<1>1. told \in {Ok, ModelMissing, GenerationFailed, BadRequest}
  BY DEF ConnectionInv, Order, Answers
<1> QED
  BY <1>1, Codes DEF StatusToExit

\* A response is read; the payload of one that is Ok is yet to be written.
LEMMA ReadResponseKeeps ==
    ConnectionInv /\ (ReadStatus \/ ReadResponse) => ConnectionInv'
<1> SUFFICES ASSUME ConnectionInv, ReadStatus \/ ReadResponse PROVE ConnectionInv'
  OBVIOUS
<1>1. /\ cpc = "response" /\ ~Gone /\ outbox # <<>> /\ scene.op \in {"status", "tts"}
      /\ UNCHANGED <<scene, output, inbox, outbox, serverVars>>
  BY DEF ReadStatus, ReadResponse, Gone
<1>2. told # NoCode /\ spc = "closed" /\ Head(outbox).code = told
  BY <1>1, ResponseRead
<1>3. outbox' \in Seq(Messages) /\ inbox' \in Seq({"token", "request"})
  BY <1>1, TypesOf
<1>4. CASE ReadStatus
  <2>1. scene.op = "status" /\ Exit(IF told = Ok THEN Ok ELSE Unreachable)
    BY <1>2, <1>4 DEF ReadStatus
  <2> DEFINE c == IF told = Ok THEN Ok ELSE Unreachable
  <2>2. c \in {Ok, Unreachable} /\ c = Expected /\ (c = Ok => told = Ok)
    BY <2>1, Codes DEF Expected
  <2>3. Exit(c)
    BY <2>1
  <2> HIDE DEF c
  <2> QED
    BY <1>1, <1>2, <1>3, <2>1, <2>2, <2>3, ExitsAsItIs
<1>5. CASE ReadResponse /\ told # Ok
  <2>1. scene.op = "tts" /\ Exit(told)
    BY <1>2, <1>5, VerdictKept DEF ReadResponse
  <2>2. told \in {ModelMissing, GenerationFailed, BadRequest} /\ told = Expected
    BY <1>2, <1>5, <2>1, VerdictKept DEF Expected
  <2> QED
    BY <1>1, <1>2, <1>3, <1>5, <2>1, <2>2, ExitsAsItIs
<1>6. CASE ReadResponse /\ told = Ok
  <2>1. scene.op = "tts" /\ cpc' = "payload" /\ code' = code
    BY <1>2, <1>6 DEF ReadResponse
  <2>2. UNCHANGED <<scene, output, inbox, outbox, spc, told, cancel, stream>>
    BY <1>1 DEF serverVars
  <2>3. Order' /\ Unread'
    BY <1>1, <1>2, <1>6, <2>1, <2>2 DEF ConnectionInv, Order, Unread, Closed, Gone
  <2> QED
    BY <1>1, <1>3, <2>1, <2>2, <2>3, ClientMoves
<1> QED
  BY <1>4, <1>5, <1>6

\* The payload of a response, all of it.
LEMMA WritePayloadKeeps == ConnectionInv /\ WritePayload => ConnectionInv'
<1> SUFFICES ASSUME ConnectionInv, WritePayload PROVE ConnectionInv'
  OBVIOUS
<1>1. /\ cpc = "payload" /\ ~Gone /\ Exit(Ok)
      /\ output' = [head |-> "final", data |-> Head(outbox).data]
      /\ UNCHANGED <<scene, inbox, outbox, serverVars>>
  BY DEF WritePayload, Gone
<1>2. scene.op = "tts" /\ told = Ok /\ told # NoCode
  BY <1>1, Codes DEF ConnectionInv, Order
<1>3. outbox # <<>>
  BY <1>1, <1>2 DEF ConnectionInv, Answered
<1>4. spc = "closed" /\ Head(outbox).data = Generated
  BY <1>1, <1>2, <1>3, ResponseRead
<1>5. /\ output'.head = "final" /\ output'.data = Generated /\ Generated \in Seq(Sounds)
      /\ output' = [head |-> output'.head, data |-> output'.data]
  BY <1>1, <1>4, GeneratedSounds
<1>6. /\ code' = Ok /\ Ok \in Ok..Killed /\ Ok # NoCode
      /\ UNCHANGED <<scene, told, spc, stream>>
  BY <1>1, Codes DEF Exit, serverVars
<1>7. ExitZeroMeansComplete'
  BY <1>2, <1>5, <1>6 DEF ExitZeroMeansComplete, Generated
<1>8. ExitTellsVerdict'
  BY <1>2, <1>6 DEF ExitTellsVerdict, Expected
<1>9. PartialFileIsMarked'
  BY <1>2, <1>6 DEF PartialFileIsMarked
<1>10. outbox' \in Seq(Messages)
  BY <1>1, TypesOf
<1> QED
  BY <1>1, <1>4, <1>5, <1>6, <1>7, <1>8, <1>9, <1>10, ExitKeeps

\* An output that fails, and a client that is killed, leave at most a part of a
\* payload; the file of a stream stays as it is.
LEMMA CutShortKeeps == ConnectionInv /\ (OutputFails \/ Kill) => ConnectionInv'
<1> SUFFICES ASSUME ConnectionInv, OutputFails \/ Kill PROVE ConnectionInv'
  OBVIOUS
<1>1. \E c \in {Unknown, Killed} : Exit(c) /\ (c # Killed => scene.full /\ c = Unknown)
  BY Codes DEF OutputFails, Kill
<1>2. PICK c \in {Unknown, Killed} : Exit(c) /\ (c # Killed => scene.full /\ c = Unknown)
  BY <1>1
<1>3. CutShort /\ UNCHANGED <<scene, inbox, outbox, serverVars>>
  BY DEF OutputFails, Kill
<1>4. /\ output'.head \in {"none", "placeholder", "final"} /\ output'.data \in Seq(Sounds)
      /\ output' = [head |-> output'.head, data |-> output'.data]
      /\ output' = output \/ cpc = "payload"
  <2>1. CASE UNCHANGED output
    BY <2>1, TypesOf
  <2>2. CASE cpc = "payload" /\ \E n \in 0..Len(Generated) :
                output' = [head |-> "final", data |-> SubSeq(Generated, 1, n)]
    <3>1. PICK n \in 0..Len(Generated) :
                output' = [head |-> "final", data |-> SubSeq(Generated, 1, n)]
      BY <2>2
    <3>2. SubSeq(Generated, 1, n) \in Seq(Sounds)
      BY GeneratedSounds, LenProperties, SubSeqProperties
    <3> QED
      BY <2>2, <3>1, <3>2
  <2> QED
    BY <1>3, <2>1, <2>2 DEF CutShort
<1>5. /\ code' = c /\ c \in Ok..Killed /\ c # NoCode /\ c # Ok
      /\ UNCHANGED <<scene, told, spc, stream>>
  BY <1>2, <1>3, Codes DEF Exit, serverVars
<1>6. ExitZeroMeansComplete'
  BY <1>5 DEF ExitZeroMeansComplete
<1>7. ExitTellsVerdict'
  BY <1>2, <1>5 DEF ExitTellsVerdict
<1>8. PartialFileIsMarked'
  <2>1. scene.op = "stream" => cpc # "payload"
    BY DEF ConnectionInv, Order
  <2> QED
    BY <1>4, <1>5, <2>1 DEF ConnectionInv, Exited, PartialFileIsMarked, Generated
<1>9. outbox' \in Seq(Messages)
  BY <1>3, TypesOf
<1> QED
  BY <1>2, <1>3, <1>4, <1>5, <1>6, <1>7, <1>8, <1>9, ExitKeeps

\* What a client that reads frames has before it.
LEMMA FrameBefore ==
    ASSUME ConnectionInv, cpc = "frames", outbox # <<>>
    PROVE  /\ ~Gone /\ scene.op = "stream" /\ code = NoCode
           /\ FrameFits(Head(outbox), output.head = "none")
           /\ output.data \o DataOf(outbox) = stream.audio
           /\ output.head # "final" /\ (output.head = "none" => output.data = <<>>)
           /\ DataOf(outbox) = Head(outbox).data \o DataOf(Tail(outbox))
           /\ Tail(outbox) \in Seq(Messages)
           /\ output.data \in Seq(Sounds) /\ Head(outbox).data \in Seq(Sounds)
           /\ DataOf(Tail(outbox)) \in Seq(Sounds)
<1>1. ~Gone /\ scene.op = "stream" /\ code = NoCode
  BY TypesOf DEF Gone, ConnectionInv, Order
<1>2. /\ Head(outbox) = outbox[1] /\ 1 \in 1..Len(outbox)
      /\ DataOf(outbox) = Head(outbox).data \o DataOf(Tail(outbox))
      /\ Tail(outbox) \in Seq(Messages) /\ output.data \in Seq(Sounds)
      /\ Head(outbox).data \in Seq(Sounds) /\ DataOf(Tail(outbox)) \in Seq(Sounds)
  BY TypesOf, OutboxRead
<1>3. /\ output.data \o DataOf(outbox) = stream.audio
      /\ output.head # "final" /\ (output.head = "none" => output.data = <<>>)
      /\ \A i \in 1..Len(outbox) : FrameFits(outbox[i], i = 1 /\ output.head = "none")
  BY <1>1 DEF ConnectionInv, Streamed
<1>4. FrameFits(outbox[1], output.head = "none")
  <2>1. FrameFits(outbox[1], 1 = 1 /\ output.head = "none")
    BY <1>2, <1>3
  <2> QED
    BY <2>1 DEF FrameFits
<1> QED
  BY <1>1, <1>2, <1>3, <1>4

\* A header or a chunk moves from the socket to the output.
LEMMA FrameReadKeeps ==
    ASSUME ConnectionInv, cpc = "frames", outbox # <<>>,
           Head(outbox).kind \in {"header", "chunk"},
           output' = [head |-> "placeholder", data |-> output.data \o Head(outbox).data],
           outbox' = Tail(outbox), UNCHANGED <<scene, cpc, code, inbox, serverVars>>
    PROVE  ConnectionInv'
<1>1. /\ ~Gone /\ scene.op = "stream" /\ code = NoCode
      /\ FrameFits(Head(outbox), output.head = "none")
      /\ output.data \o DataOf(outbox) = stream.audio
      /\ DataOf(outbox) = Head(outbox).data \o DataOf(Tail(outbox))
      /\ Tail(outbox) \in Seq(Messages)
      /\ output.data \in Seq(Sounds) /\ Head(outbox).data \in Seq(Sounds)
      /\ DataOf(Tail(outbox)) \in Seq(Sounds)
  BY FrameBefore
<1>2. UNCHANGED <<spc, told, cancel, stream>>
  BY DEF serverVars
<1>3. /\ output'.head = "placeholder" /\ output'.data = output.data \o Head(outbox).data
      /\ output' \in [head : {"none", "placeholder", "final"}, data : Seq(Sounds)]
  <2>1. output.data \o Head(outbox).data \in Seq(Sounds)
    BY <1>1, ConcatProperties
  <2> QED
    BY <2>1
<1>4. stream.header
  BY <1>1 DEF FrameFits
<1>5. /\ outbox' \in Seq(Messages) /\ Len(outbox) \in Nat \ {0}
      /\ Len(outbox') = Len(outbox) - 1
      /\ \A i \in 1..Len(outbox') : i + 1 \in 1..Len(outbox) /\ outbox'[i] = outbox[i + 1]
      /\ outbox' = <<>> <=> Len(outbox) = 1
      /\ Head(outbox) = outbox[1]
  BY TypesOf, OutboxRead
<1>6. Types'
  <2>1. TypeOK'
    BY <1>1, <1>2, <1>3, <1>5 DEF ConnectionInv, Types, TypeOK
  <2> QED
    BY <1>2, <1>3, <2>1 DEF ConnectionInv, Types
<1>7. Order' /\ Sent' /\ Unread'
  <2>1. Order'
    BY <1>2 DEF ConnectionInv, Order, Closed
  <2>2. Sent'
    BY <1>2 DEF ConnectionInv, Sent, Closed, Generated
  <2>3. Unread'
    BY <1>2 DEF ConnectionInv, Unread, Gone
  <2> QED
    BY <2>1, <2>2, <2>3
<1>8. Answered'
  <2>1. /\ told # NoCode => outbox[Len(outbox)].kind \in LastWords
                            /\ outbox[Len(outbox)].code = told
        /\ \A i \in 1..Len(outbox) :
              outbox[i].kind \in LastWords => i = Len(outbox) /\ told # NoCode
    BY <1>1 DEF ConnectionInv, Answered
  <2>2. told # NoCode => Len(outbox) # 1
    BY <1>5, <2>1 DEF LastWords
  <2>3. told # NoCode => outbox' # <<>> /\ outbox'[Len(outbox')] = outbox[Len(outbox)]
    <3> SUFFICES ASSUME told # NoCode
                 PROVE  outbox' # <<>> /\ outbox'[Len(outbox')] = outbox[Len(outbox)]
      OBVIOUS
    <3>1. outbox' # <<>> /\ Len(outbox') \in 1..Len(outbox') /\ Len(outbox') + 1 = Len(outbox)
      BY <1>5, <2>2
    <3> QED
      BY <1>5, <3>1
  <2>4. ASSUME NEW i \in 1..Len(outbox'), outbox'[i].kind \in LastWords
        PROVE  i = Len(outbox') /\ told # NoCode
    <3>1. i + 1 \in 1..Len(outbox) /\ outbox[i + 1].kind \in LastWords
      BY <1>5, <2>4
    <3>2. i + 1 = Len(outbox) /\ told # NoCode
      BY <2>1, <3>1
    <3>3. i \in Nat /\ Len(outbox') = Len(outbox) - 1 /\ Len(outbox) \in Nat
      BY <1>5
    <3> QED
      BY <3>2, <3>3
  <2> QED
    BY <1>1, <1>2, <2>1, <2>3, <2>4 DEF Answered
<1>9. Streamed'
  <2>1. output'.data \o DataOf(outbox') = stream'.audio
    <3> DEFINE a == output.data
               b == Head(outbox).data
               d == DataOf(Tail(outbox))
    <3>1. a \in Seq(Sounds) /\ b \in Seq(Sounds) /\ d \in Seq(Sounds)
      BY <1>1
    <3>2. a \o (b \o d) = stream.audio
      BY <1>1
    <3>3. output'.data = a \o b /\ DataOf(outbox') = d
      BY <1>3
    <3> HIDE DEF a, b, d
    <3>4. (a \o b) \o d = a \o (b \o d)
      BY <3>1, ConcatAssociative
    <3> QED
      BY <1>2, <3>2, <3>3, <3>4
  <2>2. ASSUME NEW i \in 1..Len(outbox')
        PROVE  FrameFits(outbox[i], i = 1 /\ output.head = "none")'
    <3>1. i + 1 \in 1..Len(outbox) /\ outbox'[i] = outbox[i + 1] /\ i + 1 # 1
      BY <1>5
    <3>2. FrameFits(outbox[i + 1], i + 1 = 1 /\ output.head = "none")
      BY <1>1, <3>1 DEF ConnectionInv, Streamed
    <3>3. FrameFits(outbox'[i], FALSE)
      BY <3>1, <3>2 DEF FrameFits
    <3> QED
      BY <1>2, <1>3, <3>3 DEF FrameFits
  <2> QED
    BY <1>2, <1>3, <1>4, <2>1, <2>2 DEF Streamed
<1>10. Exited'
  BY <1>1, <1>3, Codes DEF Exited, ExitZeroMeansComplete, ExitTellsVerdict, PartialFileIsMarked
<1> QED
  BY <1>6, <1>7, <1>8, <1>9, <1>10 DEF ConnectionInv

\* A header comes once and first, a chunk never before it.
LEMMA ReadFrameKeeps == ConnectionInv /\ (ReadHeader \/ ReadChunk) => ConnectionInv'
<1> SUFFICES ASSUME ConnectionInv, ReadHeader \/ ReadChunk PROVE ConnectionInv'
  OBVIOUS
<1>1. /\ cpc = "frames" /\ outbox # <<>> /\ Head(outbox).kind \in {"header", "chunk"}
      /\ outbox' = Tail(outbox) /\ UNCHANGED <<scene, inbox, serverVars>>
  BY DEF ReadHeader, ReadChunk, Frame
<1>2. /\ FrameFits(Head(outbox), output.head = "none") /\ output.head # "final"
      /\ output = [head |-> output.head, data |-> output.data]
      /\ output.head \in {"none", "placeholder", "final"} /\ output.data \in Seq(Sounds)
  BY <1>1, FrameBefore, TypesOf
<1>3. CASE ReadHeader
  <2>1. output.head = "none" /\ Head(outbox).data = <<>>
    BY <1>2, <1>3 DEF ReadHeader, Frame, FrameFits
  <2>2. output' = [output EXCEPT !.head = "placeholder"] /\ UNCHANGED <<cpc, code>>
    BY <1>3, <2>1 DEF ReadHeader
  <2>3. output.data \o <<>> = output.data
    BY <1>2, ConcatEmptySeq
  <2>4. output' = [head |-> "placeholder", data |-> output.data]
    BY <1>2, <2>2
  <2> QED
    BY <1>1, <2>1, <2>2, <2>3, <2>4, FrameReadKeeps
<1>4. CASE ReadChunk
  <2>1. output.head = "placeholder"
    BY <1>2, <1>4 DEF ReadChunk, Frame, FrameFits
  <2>2. output' = [output EXCEPT !.data = @ \o Head(outbox).data] /\ UNCHANGED <<cpc, code>>
    BY <1>4, <2>1 DEF ReadChunk
  <2>3. output' = [head |-> "placeholder", data |-> output.data \o Head(outbox).data]
    BY <1>2, <2>1, <2>2
  <2> QED
    BY <1>1, <2>2, <2>3, FrameReadKeeps
<1> QED
  BY <1>3, <1>4

\* An end comes after all of the audio.
LEMMA ReadEndKeeps == ConnectionInv /\ ReadEnd => ConnectionInv'
<1> SUFFICES ASSUME ConnectionInv, ReadEnd PROVE ConnectionInv'
  OBVIOUS
<1>1. /\ cpc = "frames" /\ outbox # <<>> /\ Head(outbox).kind = "end"
      /\ Finalize /\ Exit(Ok) /\ outbox' = Tail(outbox)
      /\ UNCHANGED <<scene, inbox, serverVars>>
  BY DEF ReadEnd, Frame
<1>2. /\ ~Gone /\ scene.op = "stream"
      /\ FrameFits(Head(outbox), output.head = "none")
      /\ output.data \o DataOf(outbox) = stream.audio
      /\ output.head # "final" /\ (output.head = "none" => output.data = <<>>)
      /\ DataOf(outbox) = Head(outbox).data \o DataOf(Tail(outbox))
      /\ Tail(outbox) \in Seq(Messages) /\ output.data \in Seq(Sounds)
  BY <1>1, FrameBefore
<1>3. told # NoCode /\ spc = "closed" /\ Len(outbox) = 1
  BY <1>1, <1>2, HeadIsLastWord DEF LastWords
<1>4. told = Ok /\ stream.last = "end" /\ Head(outbox).data = <<>>
  BY <1>1, <1>2 DEF FrameFits
<1>5. output.data = Generated
  <2>1. Tail(outbox) = <<>>
    BY <1>1, <1>3, TypesOf, OutboxRead
  <2>2. DataOf(outbox) = <<>> \o <<>>
    BY <1>2, <1>4, <2>1, DataOfNone
  <2>3. <<>> \o <<>> = <<>>
    BY GeneratedSounds, ConcatEmptySeq
  <2>4. output.data \o <<>> = output.data
    BY <1>2, ConcatEmptySeq
  <2>5. stream.audio = Generated
    BY <1>4 DEF ConnectionInv, Sent
  <2> QED
    BY <1>2, <2>2, <2>3, <2>4, <2>5
<1>6. /\ output' = [head |-> output'.head, data |-> output'.data]
      /\ output'.head \in {"none", "placeholder", "final"} /\ output'.data = output.data
      /\ scene.file /\ output.head # "none" => output'.head = "final"
  <2>1. /\ output = [head |-> output.head, data |-> output.data]
        /\ output.head \in {"none", "placeholder", "final"}
    BY TypesOf
  <2>2. output' = IF scene.file /\ output.head = "placeholder"
                    THEN [output EXCEPT !.head = "final"] ELSE output
    BY <1>1 DEF Finalize
  <2>3. CASE scene.file /\ output.head = "placeholder"
    <3>1. output' = [head |-> "final", data |-> output.data]
      BY <2>1, <2>2, <2>3
    <3> QED
      BY <2>3, <3>1
  <2>4. CASE ~(scene.file /\ output.head = "placeholder")
    BY <1>2, <2>1, <2>2, <2>4
  <2> QED
    BY <2>3, <2>4
<1>7. /\ code' = Ok /\ Ok \in Ok..Killed /\ Ok # NoCode
      /\ UNCHANGED <<scene, told, spc, stream>>
  BY <1>1, Codes DEF Exit, serverVars
<1>8. ExitZeroMeansComplete'
  BY <1>2, <1>4, <1>5, <1>6, <1>7 DEF ExitZeroMeansComplete, Generated
<1>9. ExitTellsVerdict'
  BY <1>2, <1>3, <1>4, <1>7 DEF ExitTellsVerdict, Expected
<1>10. PartialFileIsMarked'
  BY <1>4, <1>5, <1>6, <1>7 DEF PartialFileIsMarked, Generated
<1>11. output'.data \in Seq(Sounds) /\ outbox' \in Seq(Messages)
  BY <1>1, <1>2, <1>6
<1> QED
  BY <1>1, <1>3, <1>6, <1>7, <1>8, <1>9, <1>10, <1>11, ExitKeeps

\* An error frame, or the response that refused a token.
LEMMA ReadErrorKeeps == ConnectionInv /\ (ReadError \/ ReadUnknownKind) => ConnectionInv'
<1> SUFFICES ASSUME ConnectionInv, ReadError \/ ReadUnknownKind PROVE ConnectionInv'
  OBVIOUS
<1>1. /\ cpc = "frames" /\ outbox # <<>> /\ outbox' = Tail(outbox)
      /\ UNCHANGED <<scene, output, inbox, serverVars>>
      /\ Head(outbox).kind \in {"error", "response"}
  BY DEF ReadError, ReadUnknownKind, Frame
<1>2. /\ ~Gone /\ scene.op = "stream" /\ FrameFits(Head(outbox), output.head = "none")
      /\ outbox' \in Seq(Messages)
  BY <1>1, FrameBefore
<1>3. told # NoCode /\ spc = "closed" /\ Head(outbox).code = told
  BY <1>1, <1>2, HeadIsLastWord DEF LastWords
<1>4. CASE ReadError
  <2>1. Head(outbox).kind = "error" /\ Exit(StatusToExit(told))
    BY <1>3, <1>4 DEF ReadError, Frame
  <2>2. told # Ok
    BY <1>2, <2>1 DEF FrameFits
  <2>3. Exit(told) /\ told \in {ModelMissing, GenerationFailed, BadRequest} /\ told = Expected
    BY <1>2, <1>3, <2>1, <2>2, VerdictKept DEF Expected
  <2> QED
    BY <1>1, <1>2, <1>3, <2>2, <2>3, ExitsAsItIs
<1>5. CASE ReadUnknownKind
  <2>1. Head(outbox).kind = "response" /\ Exit(Unknown)
    BY <1>5 DEF ReadUnknownKind, Frame
  <2>2. ~scene.token
    BY <1>2, <2>1 DEF FrameFits
  <2> QED
    BY <1>1, <1>2, <1>3, <2>1, <2>2, Codes, ExitsAsItIs
<1> QED
  BY <1>4, <1>5

-----------------------------------------------------------------------------
(* Every state.                                                              *)

\* Every step keeps the invariant.
LEMMA NextConnectionInv == ConnectionInv /\ [Next]_vars => ConnectionInv'
<1> SUFFICES ASSUME ConnectionInv, [Next]_vars PROVE ConnectionInv'
  OBVIOUS
<1>1. CASE Client
  BY <1>1, StartKeeps, WriteKeeps, ConnectionEndKeeps, ReadResponseKeeps, WritePayloadKeeps,
     CutShortKeeps, ReadFrameKeeps, ReadEndKeeps, ReadErrorKeeps DEF Client
<1>2. CASE Kill
  BY <1>2, CutShortKeeps
<1>3. CASE Handle
  BY <1>3, ReadTokenKeeps, ReadRequestKeeps, SilentEndKeeps, DispatchAnswerKeeps,
     DispatchCallKeeps DEF Handle
<1>4. CASE Streaming
  BY <1>4, StreamFrameKeeps, StreamLastKeeps, SilentEndKeeps DEF Streaming
<1>5. CASE Call
  BY <1>5, CallAnswerKeeps, DispatchAnswerKeeps DEF Call
<1>6. CASE WatcherFires
  BY <1>6, WatcherKeeps
<1>7. CASE ServerDies
  BY <1>7, SilentEndKeeps
<1>8. CASE Ended \/ UNCHANGED vars
  <2>1. UNCHANGED <<scene, cpc, code, output, inbox, outbox, spc, told, cancel, stream>>
    BY <1>8 DEF Ended, vars, clientVars, serverVars
  <2>2. Types'
    BY <2>1 DEF ConnectionInv, Types, TypeOK
  <2>3. Order' /\ Sent' /\ Unread'
    BY <2>1 DEF ConnectionInv, Order, Sent, Unread, Closed, Gone, Generated
  <2>4. Answered' /\ Streamed'
    BY <2>1 DEF ConnectionInv, Answered, Streamed, Gone, Generated, FrameFits, DataOf
  <2>5. Exited'
    BY <2>1 DEF ConnectionInv, Exited, ExitZeroMeansComplete, ExitTellsVerdict, Expected,
                PartialFileIsMarked, Generated
  <2> QED
    BY <2>2, <2>3, <2>4, <2>5 DEF ConnectionInv
<1> QED
  BY <1>1, <1>2, <1>3, <1>4, <1>5, <1>6, <1>7, <1>8 DEF Next

\* The invariant holds in every state, whatever the audio.
THEOREM ConnectionInvariance == Spec => []ConnectionInv
<1>1. Init => ConnectionInv
  BY InitConnectionInv
<1>2. ConnectionInv /\ [Next]_vars => ConnectionInv'
  BY NextConnectionInv
<1> QED
  BY <1>1, <1>2, PTL DEF Spec

\* The types of the connection: the exit codes are those of exit.rs, and a client
\* has one exactly when it exited.
THEOREM TypeCorrect == Spec => []TypeOK
<1>1. ConnectionInv => TypeOK
  BY DEF ConnectionInv, Types
<1> QED
  BY <1>1, ConnectionInvariance, PTL

\* An exit code of zero is never given for less than all that was asked for.
THEOREM ZeroMeansComplete == Spec => []ExitZeroMeansComplete
<1>1. ConnectionInv => ExitZeroMeansComplete
  BY DEF ConnectionInv, Exited
<1> QED
  BY <1>1, ConnectionInvariance, PTL

\* The exit code of a client is the last word of its server, if it had one.
THEOREM CodeTellsVerdict == Spec => []ExitTellsVerdict
<1>1. ConnectionInv => ExitTellsVerdict
  BY DEF ConnectionInv, Exited
<1> QED
  BY <1>1, ConnectionInvariance, PTL

\* A file whose stream did not come to its end keeps the sizes that say so.
THEOREM PartialFileStaysMarked == Spec => []PartialFileIsMarked
<1>1. ConnectionInv => PartialFileIsMarked
  BY DEF ConnectionInv, Exited
<1> QED
  BY <1>1, ConnectionInvariance, PTL

=============================================================================
