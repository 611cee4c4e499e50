--------------------------- MODULE StreamPipeProofs --------------------------
(* Proofs about StreamPipe: what a stream leaves in the worker's pipe, and   *)
(* what its client gets, for any number of streams of any length and any     *)
(* capacity of the pipe and of the channels.                                 *)
EXTENDS StreamPipe, SequenceItems, TLAPS

-----------------------------------------------------------------------------
(* The first part of the inductive invariant.                                *)

\* What was written and not read: the parts in the pipe and those still to be written.
Flow == pipe \o worker.unwritten

\* The last part of a frame,
Final(p) == p.part = IF p.frame.kind = "end" THEN "len" ELSE "payload"

\* and the part q that comes right after p.
Follows(p, q) ==
    IF Final(p) THEN q.part = "kind"
    ELSE q.frame = p.frame /\ q.part = IF p.part = "kind" THEN "len" ELSE "payload"

\* The parts of frames that a worker writes.
Written == {p \in PartSet : /\ p.frame.kind \in Kinds /\ p.frame.stream \in Streams
                            /\ p.frame.kind = "end" => p.part # "payload"}

\* The mutex: who waits in its queue, and who must be first in it.
Working == {"write", "read", "send"}

Mutex ==
    /\ \A s \in Streams : s \in ToSet(lockq) <=> rpc[s] \in {"lock"} \union Working
    /\ \A s \in Streams : rpc[s] \in Working => Holds(s)
    /\ \A s \in Streams : hpc[s] = "new" <=> rpc[s] = "new"

\* A task works with a worker until it has a terminal frame.
Unfinished(s) == rpc[s] \in {"write", "read"} \/ (rpc[s] = "send" /\ relayed[s].kind \notin Terminal)

Ownership ==
    /\ handle <=> worker.proc # "none"
    /\ \A s \in Streams : Unfinished(s) => handle
    /\ worker.proc = "none" => pipe = <<>> /\ ~torn
    /\ worker.proc # "up" => worker = [NoWorker EXCEPT !.proc = worker.proc]

\* The worker writes the parts of a frame in their order, frame after frame, and
\* has one to write as long as it has a request.
Writing ==
    /\ pipe \in Seq(Written) /\ worker.unwritten \in Seq(Written)
    /\ \A i \in 1..(Len(Flow) - 1) : Follows(Flow[i], Flow[i + 1])
    /\ worker.proc = "up" /\ Flow # <<>> => Final(Flow[Len(Flow)])
    /\ LET u == worker.unwritten
       IN /\ \A i \in 1..Len(u) : u[i].frame = u[Len(u)].frame
          /\ \A i \in 1..Len(u) : Final(u[i]) <=> i = Len(u)
          /\ \A i \in 1..Len(u) : u[i].part # "kind"
          /\ u # <<>> => worker.job # NoStream
          /\ worker.job # NoStream =>
                worker.made < Len(Generation(worker.job))
                    \/ (u # <<>> /\ u[Len(u)].frame.kind \in Terminal)

\* On a pipe that is not torn, the next part is the one that is read next, a
\* terminal frame is the last one, and it comes after a request that was written.
EndsFlow(i) == Flow[i].frame.kind \in Terminal /\ Final(Flow[i])

InSync(s) ==
    /\ Flow # <<>> => Flow[1].part = part
    /\ \A i \in 1..Len(Flow) : EndsFlow(i) => i = Len(Flow)
    /\ worker.proc = "up" =>
          /\ Flow = <<>> => part = "kind"
          /\ worker.stdin # <<>> => /\ worker.stdin = <<s>> /\ worker.job = NoStream
                                    /\ Flow = <<>>
          /\ worker.stdin = <<>> /\ worker.job = NoStream =>
                Flow # <<>> /\ EndsFlow(Len(Flow))
          /\ worker.job # NoStream =>
                \A i \in 1..Len(pipe) : ~EndsFlow(i)

\* A task reads the frames of its stream, up to the terminal one.
Reading(s) == rpc[s] = "read" \/ (rpc[s] = "send" /\ relayed[s].kind \notin Terminal)

\* The reader of a pipe that is not torn is in sync with the worker, and nobody
\* leaves anything in it.
Synchronised ==
    ~torn =>
        /\ \A s \in Streams : Reading(s) => InSync(s) /\ (rpc[s] = "send" => part = "kind")
        /\ worker.proc = "up" /\ (\A s \in Streams : ~Reading(s)) => Drained

\* The first part of the inductive invariant.  TypeOK needs Writing and Synchronised,
\* to know that the parts that are read make frames; Synchronised needs Mutex and
\* Ownership, to know that a request is written to a drained pipe.
PipeInv == TypeOK /\ Mutex /\ Ownership /\ Writing /\ Synchronised

-----------------------------------------------------------------------------
(* Frames and their parts.                                                   *)

\* The frames of this module are in the types.
LEMMA FrameTypes ==
    /\ \A s \in Streams \union {NoStream}, kind \in Kinds \union {"none", "garbled"}, n \in Nat :
          /\ Frame(s, kind, n) \in FrameSet
          /\ Frame(s, kind, n).stream = s /\ Frame(s, kind, n).kind = kind
          /\ Frame(s, kind, n).n = n
    /\ \A s \in Streams : ErrorFrame(s) \in FrameSet /\ ErrorFrame(s).stream = s
                          /\ ErrorFrame(s).kind = "error"
    /\ NoFrame \in FrameSet /\ NoFrame.kind = "none"
BY DEF Frame, FrameSet, ErrorFrame, NoFrame, Kinds, Terminal

\* The parts of a frame: its kind, its length, and a payload unless it ends a stream.
LEMMA PartsOf ==
    ASSUME NEW f \in FrameSet, f.kind \in Kinds, f.stream \in Streams
    PROVE  /\ Parts(f) \in Seq(Written) /\ Parts(f) # <<>>
           /\ Len(Parts(f)) = IF f.kind = "end" THEN 2 ELSE 3
           /\ \A i \in 1..Len(Parts(f)) :
                 /\ Parts(f)[i].frame = f
                 /\ Parts(f)[i].part = IF i = 1 THEN "kind" ELSE IF i = 2 THEN "len" ELSE "payload"
                 /\ Final(Parts(f)[i]) <=> i = Len(Parts(f))
<1> DEFINE p(x) == [part |-> x, frame |-> f]
<1>1. p("kind") \in Written /\ p("len") \in Written /\ (f.kind # "end" => p("payload") \in Written)
  BY DEF Written, PartSet
<1>2. CASE f.kind = "end"
  <2>1. Parts(f) = <<p("kind"), p("len")>>
    BY <1>2 DEF Parts
  <2> QED
    BY <1>1, <1>2, <2>1 DEF Final
<1>3. CASE f.kind # "end"
  <2>1. Parts(f) = <<p("kind"), p("len"), p("payload")>>
    BY <1>3 DEF Parts
  <2> QED
    BY <1>1, <1>3, <2>1 DEF Final
<1> QED
  BY <1>2, <1>3

\* The frames of a generation: the end is the last one, and the only terminal one.
LEMMA GenerationFrames ==
    ASSUME NEW s \in Streams
    PROVE  /\ Generation(s) \in Seq(FrameSet)
           /\ Len(Generation(s)) = IF Chunks[s] = 0 THEN 1 ELSE Chunks[s] + 2
           /\ Len(Generation(s)) \in Nat \ {0} /\ Chunks[s] \in Nat
           /\ \A i \in 1..Len(Generation(s)) :
                 /\ Generation(s)[i] = IF i = Len(Generation(s)) THEN Frame(s, "end", 0)
                                       ELSE IF i = 1 THEN Frame(s, "header", 0)
                                       ELSE Frame(s, "chunk", i - 1)
                 /\ Generation(s)[i] \in FrameSet /\ Generation(s)[i].stream = s
                 /\ Generation(s)[i].kind \in Kinds \ {"error"}
                 /\ Generation(s)[i].kind \in Terminal <=> i = Len(Generation(s))
<1>1. Chunks[s] \in Nat
  BY SizesAssumption
<1> DEFINE h == IF Chunks[s] = 0 THEN <<>> ELSE <<Frame(s, "header", 0)>>
           c == [n \in 1..Chunks[s] |-> Frame(s, "chunk", n)]
           e == <<Frame(s, "end", 0)>>
<1>2. /\ Frame(s, "header", 0) \in FrameSet /\ Frame(s, "end", 0) \in FrameSet
      /\ \A n \in 1..Chunks[s] : Frame(s, "chunk", n) \in FrameSet
  BY <1>1, FrameTypes DEF Kinds, Terminal
<1>3. /\ h \in Seq(FrameSet) /\ Len(h) = IF Chunks[s] = 0 THEN 0 ELSE 1
      /\ Chunks[s] # 0 => h[1] = Frame(s, "header", 0)
  BY <1>2
<1>4. /\ c \in Seq(FrameSet) /\ Len(c) = Chunks[s]
      /\ \A n \in 1..Chunks[s] : c[n] = Frame(s, "chunk", n)
  BY <1>1, <1>2
<1>5. e \in Seq(FrameSet) /\ Len(e) = 1 /\ e[1] = Frame(s, "end", 0)
  BY <1>2
<1>6. Generation(s) = (h \o c) \o e
  BY DEF Generation
<1> HIDE DEF h, c, e
<1> DEFINE hc == h \o c
<1>7. /\ hc \in Seq(FrameSet) /\ Len(hc) = Len(h) + Len(c)
      /\ \A i \in 1..(Len(h) + Len(c)) : hc[i] = IF i <= Len(h) THEN h[i] ELSE c[i - Len(h)]
  BY <1>3, <1>4, ConcatProperties
<1> HIDE DEF hc
<1> DEFINE g == hc \o e
<1>8. /\ g \in Seq(FrameSet) /\ Len(g) = Len(hc) + Len(e)
      /\ \A i \in 1..(Len(hc) + Len(e)) : g[i] = IF i <= Len(hc) THEN hc[i] ELSE e[i - Len(hc)]
  <2>1. hc \in Seq(FrameSet) /\ e \in Seq(FrameSet)
    BY <1>5, <1>7
  <2> QED
    BY <2>1, ConcatProperties
<1>9. Generation(s) = g
  BY <1>6 DEF hc, g
<1> HIDE DEF g
<1>10. Len(hc) = IF Chunks[s] = 0 THEN 0 ELSE Chunks[s] + 1
  BY <1>1, <1>3, <1>4, <1>7
<1>11. Len(g) = IF Chunks[s] = 0 THEN 1 ELSE Chunks[s] + 2
  BY <1>1, <1>5, <1>8, <1>10
<1>12. ASSUME NEW i \in 1..Len(g)
       PROVE  /\ g[i] = IF i = Len(g) THEN Frame(s, "end", 0)
                        ELSE IF i = 1 THEN Frame(s, "header", 0)
                        ELSE Frame(s, "chunk", i - 1)
  <2>1. CASE i = Len(g)
    BY <1>1, <1>5, <1>8, <1>10, <1>11, <2>1
  <2>2. CASE i # Len(g)
    <3>1. Chunks[s] # 0 /\ i \in 1..(Chunks[s] + 1) /\ i <= Len(hc) /\ g[i] = hc[i]
      BY <1>1, <1>5, <1>8, <1>10, <1>11, <2>2
    <3>2. CASE i = 1
      BY <1>1, <1>3, <1>4, <1>7, <2>2, <3>1, <3>2
    <3>3. CASE i # 1
      <4>1. hc[i] = c[i - 1] /\ i - 1 \in 1..Chunks[s]
        BY <1>1, <1>3, <1>4, <1>7, <3>1, <3>3
      <4> QED
        BY <1>4, <2>2, <3>1, <3>3, <4>1
    <3> QED
      BY <3>2, <3>3
  <2> QED
    BY <2>1, <2>2
<1>13. ASSUME NEW i \in 1..Len(g)
       PROVE  /\ g[i] \in FrameSet /\ g[i].stream = s
              /\ g[i].kind \in Kinds \ {"error"}
              /\ g[i].kind \in Terminal <=> i = Len(g)
  <2>1. g[i] \in FrameSet
    BY <1>8, <1>11
  <2>2. g[i] = Frame(s, IF i = Len(g) THEN "end" ELSE IF i = 1 THEN "header" ELSE "chunk",
                     IF i = Len(g) \/ i = 1 THEN 0 ELSE i - 1)
    BY <1>12
  <2> DEFINE kind == IF i = Len(g) THEN "end" ELSE IF i = 1 THEN "header" ELSE "chunk"
  <2>3. g[i].stream = s /\ g[i].kind = kind
    BY <2>2 DEF Frame
  <2>4. kind \in Kinds \ {"error"} /\ (kind \in Terminal <=> i = Len(g))
    BY DEF Kinds, Terminal
  <2> QED
    BY <2>1, <2>3, <2>4
<1> QED
  BY <1>1, <1>8, <1>9, <1>11, <1>12, <1>13

-----------------------------------------------------------------------------
(* The handlers and their clients, who leave the pipe alone.                 *)

\* Nothing the invariant speaks of changes, but for a handler that goes on.
LEMMA PipeUntouched ==
    ASSUME PipeInv, TypeOK', UNCHANGED <<lockq, handle, rpc, part, relayed, worker, pipe, torn>>,
           \A s \in Streams : hpc'[s] = "new" <=> hpc[s] = "new"
    PROVE  PipeInv'
<1>1. Mutex'
  BY DEF PipeInv, Mutex, Holds
<1>2. Ownership'
  BY DEF PipeInv, Ownership, Unfinished
<1>3. Flow' = Flow
  BY DEF Flow
<1>4. Writing'
  BY <1>3 DEF PipeInv, Writing
<1>5. Synchronised'
  <2>1. \A s \in Streams : Reading(s)' <=> Reading(s)
    BY DEF Reading
  <2>2. \A s \in Streams : InSync(s)' <=> InSync(s)
    BY <1>3 DEF InSync, EndsFlow
  <2> QED
    BY <2>1, <2>2 DEF PipeInv, Synchronised, Drained
<1> QED
  BY <1>1, <1>2, <1>4, <1>5 DEF PipeInv

\* Hang-ups, and the frames that go from the channel to the client.
LEMMA HandlerKeepsPipe ==
    ASSUME PipeInv, NEW s \in Streams, HangUp(s) \/ WatcherSeesEof(s) \/ HandlerTask(s)
    PROVE  PipeInv'
<1>1. TypeOK
  BY DEF PipeInv
<1>2. CASE HangUp(s)
  <2>1. TypeOK'
    BY <1>1, <1>2 DEF TypeOK, HangUp, relayVars, handlerVars, signalVars
  <2> QED
    BY <1>2, <2>1, PipeUntouched DEF HangUp, relayVars, handlerVars
<1>3. CASE WatcherSeesEof(s)
  <2>1. TypeOK'
    BY <1>1, <1>3 DEF TypeOK, WatcherSeesEof, relayVars
  <2> QED
    BY <1>3, <2>1, PipeUntouched DEF WatcherSeesEof, relayVars
<1>4. CASE Recv(s)
  <2>1. /\ hpc[s] = "recv" /\ chan[s] # <<>> /\ hpc' = [hpc EXCEPT ![s] = "write"]
        /\ frame' = [frame EXCEPT ![s] = Head(chan[s])]
        /\ chan' = [chan EXCEPT ![s] = Tail(chan[s])]
        /\ UNCHANGED <<lockq, handle, rpc, part, relayed, worker, pipe, torn, received,
                       watched, gone, cancel, misled, crashes>>
    BY <1>4 DEF Recv, relayVars, signalVars
  <2>2. chan[s] \in Seq(FrameSet) /\ Len(chan[s]) <= ChanCap /\ ChanCap \in Nat
    BY <1>1, SizesAssumption DEF TypeOK
  <2>3. /\ Head(chan[s]) \in FrameSet /\ Tail(chan[s]) \in Seq(FrameSet)
        /\ Len(Tail(chan[s])) <= ChanCap
    BY <2>1, <2>2, HeadTailProperties, LenProperties
  <2>4. TypeOK'
    BY <1>1, <2>1, <2>3 DEF TypeOK
  <2>5. \A i \in Streams : hpc'[i] = "new" <=> hpc[i] = "new"
    BY <1>1, <2>1 DEF TypeOK
  <2> QED
    BY <2>1, <2>4, <2>5, PipeUntouched
<1>5. CASE WriteFrame(s)
  <2>1. /\ hpc[s] = "write"
        /\ received' = IF s \in gone THEN received
                       ELSE [received EXCEPT ![s] = Append(received[s], frame[s])]
        /\ \/ hpc' = [hpc EXCEPT ![s] = "done"] /\ watched' = watched \ {s}
           \/ hpc' = [hpc EXCEPT ![s] = "recv"] /\ UNCHANGED watched
        /\ frame' = [frame EXCEPT ![s] = NoFrame]
        /\ UNCHANGED <<lockq, handle, rpc, part, relayed, worker, pipe, torn, chan,
                       gone, cancel, misled, crashes>>
    BY <1>5 DEF WriteFrame, relayVars, signalVars
  <2>2. received[s] \in Seq(FrameSet) /\ frame[s] \in FrameSet /\ NoFrame \in FrameSet
    BY <1>1, FrameTypes DEF TypeOK
  <2>3. Append(received[s], frame[s]) \in Seq(FrameSet)
    BY <2>2, AppendProperties
  <2>4. /\ received' \in [Streams -> Seq(FrameSet)] /\ frame' \in [Streams -> FrameSet]
        /\ watched' \subseteq Streams
        /\ hpc' \in [Streams -> {"new", "recv", "write", "done"}]
    BY <1>1, <2>1, <2>2, <2>3 DEF TypeOK
  <2>5. TypeOK'
    BY <1>1, <2>1, <2>4 DEF TypeOK
  <2>6. \A i \in Streams : hpc'[i] = "new" <=> hpc[i] = "new"
    BY <1>1, <2>1 DEF TypeOK
  <2> QED
    BY <2>1, <2>5, <2>6, PipeUntouched
<1>6. CASE WriteFails(s)
  <2>1. /\ hpc[s] = "write" /\ hpc' = [hpc EXCEPT ![s] = "done"]
        /\ chan' = [chan EXCEPT ![s] = <<>>]
        /\ frame' = [frame EXCEPT ![s] = NoFrame]
        /\ UNCHANGED <<lockq, handle, rpc, part, relayed, worker, pipe, torn, received,
                       watched, gone, cancel, misled, crashes>>
    BY <1>6 DEF WriteFails, relayVars, signalVars
  <2>2. NoFrame \in FrameSet /\ <<>> \in Seq(FrameSet) /\ Len(<<>>) <= ChanCap
    BY FrameTypes, SizesAssumption, EmptySeq
  <2>3. TypeOK'
    BY <1>1, <2>1, <2>2 DEF TypeOK
  <2>4. \A i \in Streams : hpc'[i] = "new" <=> hpc[i] = "new"
    BY <1>1, <2>1 DEF TypeOK
  <2> QED
    BY <2>1, <2>3, <2>4, PipeUntouched
<1> QED
  BY <1>2, <1>3, <1>4, <1>5, <1>6 DEF HandlerTask

-----------------------------------------------------------------------------
(* The mutex.                                                                *)

\* Only one task works with the worker.
LEMMA OneWorks ==
    ASSUME Mutex, NEW s \in Streams, Holds(s)
    PROVE  \A t \in Streams : t # s => rpc[t] \notin Working /\ ~Reading(t) /\ ~Unfinished(t)
BY DEF Mutex, Holds, Working, Reading, Unfinished

\* The holder goes on with its stream,
LEMMA GoesOn ==
    ASSUME TypeOK, Mutex, NEW s \in Streams, NEW at \in Working, Holds(s),
           Relay(s, at), UNCHANGED <<lockq, hpc>>
    PROVE  Mutex'
<1>1. \A t \in Streams : rpc'[t] = IF t = s THEN at ELSE rpc[t]
  BY DEF Relay, TypeOK
<1>2. s \in ToSet(lockq) /\ rpc[s] \in {"lock"} \union Working
  BY DEF Mutex, Holds, TypeOK, ToSet
<1>3. hpc[s] # "new" /\ at # "new"
  BY <1>2 DEF Mutex, Working
<1> QED
  BY <1>1, <1>2, <1>3 DEF Mutex, Holds, Working

\* or leaves.
LEMMA Leaves ==
    ASSUME TypeOK, Mutex, NEW s \in Streams, rpc[s] \in Working,
           Relay(s, "done"), lockq' = Tail(lockq), UNCHANGED hpc
    PROVE  Mutex' /\ lockq' \in Seq(Streams) /\ IsInjective(lockq')
<1>1. \A t \in Streams : rpc'[t] = IF t = s THEN "done" ELSE rpc[t]
  BY DEF Relay, TypeOK
<1>2. Holds(s) /\ lockq # <<>> /\ Head(lockq) = s /\ lockq \in Seq(Streams)
      /\ IsInjective(lockq)
  BY DEF Mutex, Holds, TypeOK
<1>3. /\ ToSet(lockq') = ToSet(lockq) \ {s} /\ IsInjective(lockq')
      /\ lockq' \in Seq(Streams)
  BY <1>2, TailItems, HeadTailProperties
<1>4. \A t \in Streams : t # s => rpc[t] \notin Working
  BY <1>2, OneWorks
<1>5. hpc[s] # "new"
  BY DEF Mutex, Working
<1> QED
  BY <1>1, <1>3, <1>4, <1>5 DEF Mutex, Holds, Working

\* A new stream waits in line.
LEMMA SubmitKeepsPipe ==
    ASSUME PipeInv, NEW s \in Streams, Submit(s)
    PROVE  PipeInv'
<1>1. TypeOK /\ Mutex
  BY DEF PipeInv
<1>2. /\ hpc[s] = "new" /\ hpc' = [hpc EXCEPT ![s] = "recv"]
      /\ watched' = watched \union {s} /\ rpc' = [rpc EXCEPT ![s] = "lock"]
      /\ lockq' = Append(lockq, s)
      /\ UNCHANGED <<handle, worker, pipe, torn, part, relayed, chan, frame, received,
                     gone, cancel, misled, crashes>>
  BY DEF Submit, signalVars
<1>3. rpc[s] = "new" /\ s \notin ToSet(lockq) /\ lockq \in Seq(Streams) /\ IsInjective(lockq)
  BY <1>1, <1>2 DEF Mutex, Working, TypeOK
<1>4. /\ lockq' \in Seq(Streams) /\ IsInjective(lockq') /\ ToSet(lockq') = ToSet(lockq) \union {s}
  BY <1>2, <1>3, AppendItems, AppendProperties
<1>5. TypeOK'
  BY <1>1, <1>2, <1>4 DEF TypeOK
<1>6. \A t \in Streams : /\ rpc'[t] = IF t = s THEN "lock" ELSE rpc[t]
                         /\ hpc'[t] = IF t = s THEN "recv" ELSE hpc[t]
  BY <1>1, <1>2 DEF TypeOK
<1>7. \A t \in Streams : Holds(t) => Holds(t)'
  <2> SUFFICES ASSUME NEW t \in Streams, lockq # <<>>, Head(lockq) = t
               PROVE  lockq' # <<>> /\ Head(lockq') = t
    BY DEF Holds
  <2>1. Len(lockq) \in Nat \ {0} /\ Head(lockq) = lockq[1]
    BY <1>3, EmptySeq
  <2>2. lockq' # <<>> /\ lockq'[1] = lockq[1] /\ Head(lockq') = lockq'[1]
    BY <1>2, <1>3, <2>1, AppendProperties
  <2> QED
    BY <2>1, <2>2
<1>8. Mutex'
  BY <1>1, <1>3, <1>4, <1>6, <1>7 DEF Mutex, Working
<1>9. Flow' = Flow /\ UNCHANGED <<worker, pipe, torn, part, handle>>
  BY <1>2 DEF Flow
<1>10. \A t \in Streams : /\ Reading(t)' <=> Reading(t)
                          /\ Unfinished(t)' <=> Unfinished(t)
                          /\ (rpc[t] = "send")' <=> rpc[t] = "send"
                          /\ InSync(t)' <=> InSync(t)
  <2>1. \A t \in Streams : InSync(t)' <=> InSync(t)
    BY <1>9 DEF InSync, EndsFlow
  <2> QED
    BY <1>2, <1>3, <1>6, <2>1 DEF Reading, Unfinished
<1>11. Ownership'
  BY <1>9, <1>10 DEF PipeInv, Ownership
<1>12. Writing'
  BY <1>9 DEF PipeInv, Writing
<1>13. Synchronised'
  BY <1>9, <1>10 DEF PipeInv, Synchronised, Drained
<1> QED
  BY <1>5, <1>8, <1>11, <1>12, <1>13 DEF PipeInv

-----------------------------------------------------------------------------
(* stream_relay.                                                             *)

\* The parts of the invariant's types.
LEMMA PipeTypes ==
    ASSUME PipeInv
    PROVE  /\ worker = [proc |-> worker.proc, stdin |-> worker.stdin, job |-> worker.job,
                        made |-> worker.made, unwritten |-> worker.unwritten]
           /\ worker.proc \in {"none", "up", "dead"} /\ worker.stdin \in Seq(Streams)
           /\ worker.job \in Streams \union {NoStream} /\ worker.made \in Nat
           /\ worker.unwritten \in Seq(Written) /\ pipe \in Seq(Written)
           /\ Flow \in Seq(Written) /\ Len(Flow) = Len(pipe) + Len(worker.unwritten)
           /\ Len(pipe) \in Nat /\ Len(worker.unwritten) \in Nat /\ Len(Flow) \in Nat
           /\ Len(pipe) <= PipeCap
           /\ NoStream \notin Streams /\ PipeCap \in Nat \ {0} /\ ChanCap \in Nat \ {0}
           /\ TypeOK /\ Mutex /\ Ownership /\ Writing /\ Synchronised
<1>1. TypeOK /\ Mutex /\ Ownership /\ Writing /\ Synchronised
  BY DEF PipeInv
<1>2. worker \in [proc : {"none", "up", "dead"}, stdin : Seq(Streams),
                  job : Streams \union {NoStream}, made : Nat, unwritten : Seq(PartSet)]
      /\ Len(pipe) <= PipeCap
  BY <1>1 DEF TypeOK
<1>3. worker.unwritten \in Seq(Written) /\ pipe \in Seq(Written)
  BY <1>1 DEF Writing
<1>4. Flow \in Seq(Written) /\ Len(Flow) = Len(pipe) + Len(worker.unwritten)
  BY <1>3, ConcatProperties DEF Flow
<1>5. Len(pipe) \in Nat /\ Len(worker.unwritten) \in Nat /\ Len(Flow) \in Nat
  BY <1>3, <1>4, LenProperties
<1> QED
  BY <1>1, <1>2, <1>3, <1>4, <1>5, NoStreamAssumption, SizesAssumption

\* Workers that do nothing are of the types, and have nothing in their pipe.
LEMMA QuietWorkers ==
    /\ \A x \in {"none", "up", "dead"} : \A w :
          w = [NoWorker EXCEPT !.proc = x] =>
             /\ w \in [proc : {"none", "up", "dead"}, stdin : Seq(Streams),
                       job : Streams \union {NoStream}, made : Nat, unwritten : Seq(PartSet)]
             /\ w.proc = x /\ w.stdin = <<>> /\ w.job = NoStream /\ w.unwritten = <<>>
    /\ NoWorker = [NoWorker EXCEPT !.proc = "none"] /\ IdleWorker = [NoWorker EXCEPT !.proc = "up"]
    /\ <<>> \in Seq(PartSet) /\ Len(<<>>) = 0
<1>1. <<>> \in Seq(Streams) /\ <<>> \in Seq(PartSet) /\ Len(<<>>) = 0
  BY EmptySeq
<1>2. ASSUME NEW x \in {"none", "up", "dead"}, NEW w, w = [NoWorker EXCEPT !.proc = x]
      PROVE  /\ w \in [proc : {"none", "up", "dead"}, stdin : Seq(Streams),
                       job : Streams \union {NoStream}, made : Nat, unwritten : Seq(PartSet)]
             /\ w.proc = x /\ w.stdin = <<>> /\ w.job = NoStream /\ w.unwritten = <<>>
  BY <1>1, <1>2 DEF NoWorker
<1>3. \A x \in {"none", "up", "dead"} :
         [NoWorker EXCEPT !.proc = x] = [proc |-> x, stdin |-> <<>>, job |-> NoStream,
                                         made |-> 0, unwritten |-> <<>>]
  BY DEF NoWorker
<1>4. NoWorker = [NoWorker EXCEPT !.proc = "none"] /\ IdleWorker = [NoWorker EXCEPT !.proc = "up"]
  BY <1>3 DEF NoWorker, IdleWorker
<1> QED
  BY <1>1, <1>2, <1>3, <1>4

\* An empty pipe of a worker with nothing to write is in order.
LEMMA NothingWritten ==
    ASSUME pipe' = <<>>, worker'.unwritten = <<>>, worker'.job = NoStream
    PROVE  Writing' /\ Flow' = <<>>
<1>1. Flow' = <<>> /\ Len(<<>>) = 0 /\ \A S : <<>> \in Seq(S)
  BY QuietWorkers, EmptySeq, ConcatEmptySeq DEF Flow
<1> QED
  BY <1>1 DEF Writing

\* The worker is dropped with what it wrote.
LEMMA DropKeepsPipe ==
    ASSUME PipeInv, NEW s \in Streams, Holds(s), DropWorker, Relays(s, ErrorFrame(s)),
           misled' \subseteq Streams,
           UNCHANGED <<lockq, part, chan, handlerVars, gone, cancel, crashes>>
    PROVE  PipeInv'
<1>1. /\ handle' = FALSE /\ worker' = NoWorker /\ pipe' = <<>> /\ torn' = FALSE
      /\ rpc' = [rpc EXCEPT ![s] = "send"] /\ relayed' = [relayed EXCEPT ![s] = ErrorFrame(s)]
      /\ UNCHANGED <<hpc, frame, received, watched>>
  BY DEF DropWorker, Relays, Relay, handlerVars
<1>2. TypeOK /\ Mutex
  BY DEF PipeInv
<1>3. NoWorker \in [proc : {"none", "up", "dead"}, stdin : Seq(Streams),
                    job : Streams \union {NoStream}, made : Nat, unwritten : Seq(PartSet)]
      /\ NoWorker.proc = "none" /\ NoWorker.job = NoStream /\ NoWorker.unwritten = <<>>
      /\ NoWorker = [NoWorker EXCEPT !.proc = "none"]
  BY QuietWorkers
<1>4. /\ ErrorFrame(s) \in FrameSet /\ ErrorFrame(s).kind \in Terminal
      /\ <<>> \in Seq(PartSet) /\ Len(<<>>) <= PipeCap
  BY FrameTypes, QuietWorkers, SizesAssumption DEF Terminal
<1>5. TypeOK'
  BY <1>1, <1>2, <1>3, <1>4 DEF TypeOK
<1>6. Mutex'
  <2>1. Relay(s, "send") /\ "send" \in Working
    BY <1>1 DEF Relay, Working
  <2> QED
    BY <1>1, <1>2, <2>1, GoesOn
<1>7. \A t \in Streams : ~Unfinished(t)' /\ ~Reading(t)'
  <2>1. \A t \in Streams : t # s => rpc[t] \notin Working
    BY <1>2, OneWorks
  <2>2. \A t \in Streams : /\ rpc'[t] = IF t = s THEN "send" ELSE rpc[t]
                           /\ t = s => relayed'[t] = ErrorFrame(s)
    BY <1>1, <1>2 DEF TypeOK
  <2> QED
    BY <1>4, <2>1, <2>2 DEF Unfinished, Reading, Working
<1>8. Ownership'
  BY <1>1, <1>3, <1>7 DEF Ownership
<1>9. Writing'
  BY <1>1, <1>3, NothingWritten
<1>10. Synchronised'
  BY <1>1, <1>3, <1>7 DEF Synchronised
<1> QED
  BY <1>5, <1>6, <1>8, <1>9, <1>10 DEF PipeInv

\* Steps before the request is written: a worker is started,
LEMMA SpawnKeepsPipe ==
    ASSUME PipeInv, NEW s \in Streams, Spawn(s)
    PROVE  PipeInv'
<1>1. /\ Holds(s) /\ ~handle /\ handle' = TRUE /\ worker' = IdleWorker
      /\ UNCHANGED <<lockq, pipe, torn, rpc, part, relayed, chan, hpc, frame, received,
                     watched, gone, cancel, misled, crashes>>
  BY DEF Spawn, handlerVars, signalVars
<1>2. TypeOK /\ Mutex /\ Ownership
  BY DEF PipeInv
<1>3. /\ IdleWorker \in [proc : {"none", "up", "dead"}, stdin : Seq(Streams),
                         job : Streams \union {NoStream}, made : Nat, unwritten : Seq(PartSet)]
      /\ IdleWorker.proc = "up" /\ IdleWorker.job = NoStream /\ IdleWorker.stdin = <<>>
      /\ IdleWorker.unwritten = <<>>
  BY QuietWorkers
<1>4. pipe = <<>> /\ ~torn /\ \A t \in Streams : ~Unfinished(t)
  BY <1>1, <1>2 DEF Ownership
<1>5. TypeOK'
  BY <1>1, <1>2, <1>3 DEF TypeOK
<1>6. Mutex'
  BY <1>1, <1>2 DEF Mutex, Holds
<1>7. Ownership'
  BY <1>1, <1>3 DEF Ownership
<1>8. Writing'
  BY <1>1, <1>3, <1>4, NothingWritten
<1>9. Synchronised'
  BY <1>1, <1>3, <1>4 DEF Synchronised, Reading, Unfinished, Drained
<1> QED
  BY <1>5, <1>6, <1>7, <1>8, <1>9 DEF PipeInv

\* or cannot be, or runs already.
LEMMA BeforeWriteKeepsPipe ==
    ASSUME PipeInv, NEW s \in Streams, SpawnFailed(s) \/ WorkerAlive(s)
    PROVE  PipeInv'
<1>1. /\ rpc[s] = "lock" /\ Holds(s) /\ UNCHANGED hpc
      /\ UNCHANGED <<lockq, handle, worker, pipe, torn, part, chan, frame, received,
                     watched, gone, cancel, misled, crashes>>
  BY DEF SpawnFailed, WorkerAlive, handlerVars, signalVars
<1>2. PICK at \in {"send", "write"} :
         /\ rpc' = [rpc EXCEPT ![s] = at]
         /\ at = "send" => relayed' = [relayed EXCEPT ![s] = ErrorFrame(s)]
         /\ at = "write" => handle /\ relayed' = relayed
  BY DEF SpawnFailed, WorkerAlive, Relays, Relay
<1>3. TypeOK /\ Mutex
  BY DEF PipeInv
<1>4. ErrorFrame(s) \in FrameSet /\ ErrorFrame(s).kind \in Terminal
  BY FrameTypes DEF Terminal
<1>5. TypeOK'
  <2>1. rpc' \in [Streams -> {"new", "lock", "write", "read", "send", "done"}]
    BY <1>2, <1>3 DEF TypeOK
  <2>2. relayed' \in [Streams -> FrameSet]
    BY <1>2, <1>3, <1>4 DEF TypeOK
  <2> QED
    BY <1>1, <1>3, <2>1, <2>2 DEF TypeOK
<1>6. Mutex'
  <2>1. Relay(s, at) /\ at \in Working
    BY <1>2 DEF Relay, Working
  <2> QED
    BY <1>1, <1>3, <2>1, GoesOn
<1>7. \A t \in Streams : ~Reading(t)' /\ ~Reading(t) /\ (Unfinished(t)' => handle)
  <2>1. \A t \in Streams : t # s => rpc[t] \notin Working
    BY <1>1, <1>3, OneWorks
  <2>2. \A t \in Streams : /\ rpc'[t] = IF t = s THEN at ELSE rpc[t]
                           /\ t = s /\ at = "send" => relayed'[t] = ErrorFrame(s)
    BY <1>2, <1>3 DEF TypeOK
  <2> QED
    BY <1>1, <1>2, <1>4, <2>1, <2>2 DEF Unfinished, Reading, Working
<1>8. Ownership'
  BY <1>1, <1>7 DEF PipeInv, Ownership
<1>9. Flow' = Flow
  BY <1>1 DEF Flow
<1>10. Writing'
  BY <1>1, <1>9 DEF PipeInv, Writing
<1>11. Synchronised'
  BY <1>1, <1>7 DEF PipeInv, Synchronised, Drained
<1> QED
  BY <1>5, <1>6, <1>8, <1>10, <1>11 DEF PipeInv

\* The request is written to a worker that has nothing else to do.
LEMMA RequestKeepsPipe ==
    ASSUME PipeInv, NEW s \in Streams, WriteRequest(s)
    PROVE  PipeInv'
<1>1. /\ rpc[s] = "write" /\ worker.proc = "up" /\ part' = "kind"
      /\ worker' = [worker EXCEPT !.stdin = Append(worker.stdin, s)]
      /\ rpc' = [rpc EXCEPT ![s] = "read"]
      /\ UNCHANGED <<lockq, handle, pipe, torn, relayed, chan, hpc, frame, received,
                     watched, gone, cancel, misled, crashes>>
  BY DEF WriteRequest, Relay, handlerVars, signalVars
<1>2. TypeOK /\ Mutex /\ Holds(s) /\ worker.stdin \in Seq(Streams)
  BY <1>1, PipeTypes DEF Mutex, Working
<1>3. Append(worker.stdin, s) \in Seq(Streams)
  BY <1>2, AppendProperties
<1>4. /\ worker' = [proc |-> "up", stdin |-> Append(worker.stdin, s), job |-> worker.job,
                    made |-> worker.made, unwritten |-> worker.unwritten]
      /\ worker' \in [proc : {"none", "up", "dead"}, stdin : Seq(Streams),
                      job : Streams \union {NoStream}, made : Nat, unwritten : Seq(PartSet)]
  <2>1. worker \in [proc : {"none", "up", "dead"}, stdin : Seq(Streams),
                    job : Streams \union {NoStream}, made : Nat, unwritten : Seq(PartSet)]
    BY <1>2 DEF TypeOK
  <2> QED
    BY <1>1, <1>3, <2>1
<1>5. TypeOK'
  BY <1>1, <1>2, <1>4 DEF TypeOK
<1>6. Mutex'
  BY <1>1, <1>2, GoesOn DEF Relay, Working
<1>7. \A t \in Streams : /\ rpc'[t] = IF t = s THEN "read" ELSE rpc[t]
                         /\ t # s => rpc[t] \notin Working
                         /\ Reading(t)' <=> t = s
                         /\ ~Reading(t)
                         /\ Unfinished(t)' <=> Unfinished(t)
  <2>1. \A t \in Streams : t # s => rpc[t] \notin Working
    BY <1>2, OneWorks
  <2>2. \A t \in Streams : rpc'[t] = IF t = s THEN "read" ELSE rpc[t]
    BY <1>1, <1>2 DEF TypeOK
  <2> QED
    BY <1>1, <2>1, <2>2 DEF Reading, Unfinished, Working
<1>8. Ownership'
  BY <1>1, <1>4, <1>7 DEF PipeInv, Ownership
<1>9. Flow' = Flow
  BY <1>1, <1>4 DEF Flow
<1>10. Writing'
  BY <1>1, <1>4, <1>9 DEF PipeInv, Writing
<1>11. Synchronised'
  <2> SUFFICES ASSUME ~torn PROVE InSync(s)'
    BY <1>1, <1>4, <1>7 DEF Synchronised
  <2>1. pipe = <<>> /\ worker.job = NoStream /\ worker.stdin = <<>>
    BY <1>1, <1>7 DEF PipeInv, Synchronised, Drained
  <2>2. worker.unwritten = <<>>
    BY <2>1, PipeTypes DEF Writing
  <2>3. Flow = <<>> /\ Len(<<>>) = 0
    BY <2>1, <2>2, EmptySeq, ConcatEmptySeq DEF Flow
  <2>4. Append(<<>>, s) = <<s>>
    OBVIOUS
  <2> QED
    BY <1>1, <1>4, <1>9, <2>1, <2>3, <2>4 DEF InSync
<1> QED
  BY <1>5, <1>6, <1>8, <1>10, <1>11 DEF PipeInv

\* The worker, and what of it the holder of the mutex finds.
LEMMA WorkerLostKeepsPipe ==
    ASSUME PipeInv, NEW s \in Streams, WorkerLost(s) \/ MisreadTooLarge(s)
    PROVE  PipeInv'
<1>1. TypeOK /\ Mutex
  BY DEF PipeInv
<1>2. Holds(s)
  BY <1>1 DEF WorkerLost, MisreadTooLarge, Mutex, Working
<1>3. /\ DropWorker /\ Relays(s, ErrorFrame(s)) /\ misled' \subseteq Streams
      /\ UNCHANGED <<lockq, part, chan, handlerVars, gone, cancel, crashes>>
  BY <1>1 DEF WorkerLost, MisreadTooLarge, signalVars, TypeOK
<1> QED
  BY <1>2, <1>3, DropKeepsPipe

\* A cancellation that falls into a frame tears the pipe; another changes nothing.
LEMMA CancelKeepsPipe ==
    ASSUME PipeInv, NEW s \in Streams, Cancel(s)
    PROVE  PipeInv'
<1>1. /\ rpc[s] = "read" /\ cancel' = cancel \ {s} /\ part' = "kind"
      /\ torn' = (torn \/ part # "kind")
      /\ misled' = IF torn' THEN misled \union {s} ELSE misled
      /\ UNCHANGED <<lockq, handle, worker, pipe, rpc, relayed, chan, hpc, frame,
                     received, watched, gone, crashes>>
  BY DEF Cancel, handlerVars
<1>2. TypeOK /\ Mutex /\ Ownership
  BY DEF PipeInv
<1>3. torn' \in BOOLEAN /\ misled' \subseteq Streams /\ cancel' \subseteq gone
  BY <1>1, <1>2 DEF TypeOK
<1>4. TypeOK'
  BY <1>1, <1>2, <1>3 DEF TypeOK
<1>5. Mutex'
  BY <1>1, <1>2 DEF Mutex, Holds
<1>6. worker.proc # "none"
  BY <1>1, <1>2 DEF Ownership, Unfinished
<1>7. Ownership'
  BY <1>1, <1>2, <1>6 DEF Ownership, Unfinished
<1>8. Flow' = Flow
  BY <1>1 DEF Flow
<1>9. Writing'
  BY <1>1, <1>8 DEF PipeInv, Writing
<1>10. Synchronised'
  <2>1. CASE torn'
    BY <2>1 DEF Synchronised
  <2>2. CASE ~torn'
    <3>1. ~torn /\ part' = part
      BY <1>1, <1>2, <2>2 DEF TypeOK
    <3>2. \A t \in Streams : Reading(t)' <=> Reading(t)
      BY <1>1 DEF Reading
    <3>3. \A t \in Streams : InSync(t)' <=> InSync(t)
      BY <1>1, <1>8, <3>1 DEF InSync, EndsFlow
    <3> QED
      BY <1>1, <3>1, <3>2, <3>3 DEF PipeInv, Synchronised, Drained
  <2> QED
    BY <2>1, <2>2
<1> QED
  BY <1>4, <1>5, <1>7, <1>9, <1>10 DEF PipeInv

\* Reading takes the first part away.
LEMMA TakesPart ==
    ASSUME PipeInv, pipe # <<>>, pipe' = Tail(pipe), UNCHANGED worker
    PROVE  /\ Flow' \in Seq(Written) /\ Len(Flow) # 0 /\ Len(Flow') = Len(Flow) - 1
           /\ \A i \in 1..(Len(Flow) - 1) : Flow'[i] = Flow[i + 1]
           /\ Flow[1] = Head(pipe) /\ Head(pipe) \in Written
           /\ Len(pipe') = Len(pipe) - 1 /\ pipe' \in Seq(Written)
           /\ Writing'
<1> DEFINE u == worker.unwritten
<1>1. /\ pipe \in Seq(Written) /\ u \in Seq(Written) /\ Flow = pipe \o u
      /\ Len(pipe) \in Nat /\ Len(u) \in Nat /\ Writing
  BY PipeTypes DEF Flow
<1>2. /\ pipe' \in Seq(Written) /\ Len(pipe') = Len(pipe) - 1 /\ Len(pipe) # 0
      /\ \A i \in 1..(Len(pipe) - 1) : pipe'[i] = pipe[i + 1]
      /\ Head(pipe) = pipe[1]
  BY <1>1, HeadTailProperties, EmptySeq
<1>3. Head(pipe) \in Written
  BY <1>1, HeadTailProperties
<1>4. /\ Flow \in Seq(Written) /\ Len(Flow) = Len(pipe) + Len(u)
      /\ \A i \in 1..(Len(pipe) + Len(u)) :
            Flow[i] = IF i <= Len(pipe) THEN pipe[i] ELSE u[i - Len(pipe)]
  BY <1>1, ConcatProperties
<1>5. Flow' = pipe' \o u
  BY DEF Flow
<1>6. /\ Flow' \in Seq(Written) /\ Len(Flow') = Len(pipe') + Len(u)
      /\ \A i \in 1..(Len(pipe') + Len(u)) :
            Flow'[i] = IF i <= Len(pipe') THEN pipe'[i] ELSE u[i - Len(pipe')]
  <2>1. /\ pipe' \o u \in Seq(Written) /\ Len(pipe' \o u) = Len(pipe') + Len(u)
        /\ \A i \in 1..(Len(pipe') + Len(u)) :
              (pipe' \o u)[i] = IF i <= Len(pipe') THEN pipe'[i] ELSE u[i - Len(pipe')]
    BY <1>1, <1>2, ConcatProperties
  <2> QED
    BY <1>5, <2>1
<1> DEFINE F == Flow
           G == Flow'
           n == Len(pipe)
           m == Len(u)
<1>7. Len(G) = Len(F) - 1 /\ Len(F) # 0 /\ Len(F) \in Nat
  BY <1>1, <1>2, <1>4, <1>6
<1>8. ASSUME NEW i \in 1..(Len(F) - 1) PROVE G[i] = F[i + 1]
  <2>1. i \in 1..(n - 1 + m) /\ i + 1 \in 1..(n + m)
    BY <1>1, <1>2, <1>4
  <2>2. CASE i <= n - 1
    <3>1. G[i] = pipe'[i] /\ pipe'[i] = pipe[i + 1]
      BY <1>1, <1>2, <1>6, <2>1, <2>2
    <3>2. F[i + 1] = pipe[i + 1]
      BY <1>1, <1>4, <2>1, <2>2
    <3> QED
      BY <3>1, <3>2
  <2>3. CASE i > n - 1
    <3>1. G[i] = u[i - (n - 1)]
      BY <1>1, <1>2, <1>6, <2>1, <2>3
    <3>2. F[i + 1] = u[(i + 1) - n]
      BY <1>1, <1>4, <2>1, <2>3
    <3>3. i - (n - 1) = (i + 1) - n
      BY <1>1, <2>1
    <3> QED
      BY <3>1, <3>2, <3>3
  <2> QED
    BY <1>1, <2>1, <2>2, <2>3
<1>9. F[1] = Head(pipe)
  BY <1>1, <1>2, <1>4
<1>10. Writing'
  <2>1. \A i \in 1..(Len(G) - 1) : Follows(G[i], G[i + 1])
    <3> SUFFICES ASSUME NEW i \in 1..(Len(G) - 1) PROVE Follows(G[i], G[i + 1])
      OBVIOUS
    <3>1. i + 1 \in 1..(Len(F) - 1) /\ i \in 1..(Len(F) - 1)
      BY <1>7
    <3>2. G[i] = F[i + 1] /\ G[i + 1] = F[(i + 1) + 1]
      BY <1>8, <3>1
    <3>3. Follows(F[i + 1], F[(i + 1) + 1])
      BY <1>1, <3>1 DEF Writing
    <3> QED
      BY <3>2, <3>3
  <2>2. worker.proc = "up" /\ G # <<>> => Final(G[Len(G)])
    <3> SUFFICES ASSUME worker.proc = "up", G # <<>> PROVE Final(G[Len(G)])
      OBVIOUS
    <3>1. Len(G) \in 1..(Len(F) - 1) /\ Len(G) + 1 = Len(F)
      BY <1>6, <1>7, EmptySeq
    <3>2. G[Len(G)] = F[Len(F)]
      BY <1>8, <3>1
    <3>3. F # <<>>
      BY <1>7, EmptySeq
    <3>4. Final(F[Len(F)])
      BY <1>1, <3>3 DEF Writing
    <3> QED
      BY <3>2, <3>4
  <2> QED
    BY <1>1, <1>2, <2>1, <2>2 DEF Writing
<1> QED
  BY <1>2, <1>3, <1>6, <1>7, <1>8, <1>9, <1>10

\* The reader of a pipe in sync knows where in the frame it is.
LEMMA PartRead ==
    ASSUME NEW p \in Written
    PROVE  LET f == p.frame
               i == CHOOSE k \in DOMAIN Parts(f) : Parts(f)[k].part = p.part
           IN /\ i = Len(Parts(f)) <=> Final(p)
              /\ ~Final(p) => Parts(f)[i + 1].part = IF p.part = "kind" THEN "len" ELSE "payload"
<1> DEFINE f == p.frame
           P == Parts(f)
           i == CHOOSE k \in DOMAIN P : P[k].part = p.part
           j == IF p.part = "kind" THEN 1 ELSE IF p.part = "len" THEN 2 ELSE 3
<1>1. /\ f \in FrameSet /\ f.kind \in Kinds /\ f.stream \in Streams
      /\ p.part \in {"kind", "len", "payload"}
  BY DEF Written, PartSet
<1>2. /\ P \in Seq(Written) /\ Len(P) = IF f.kind = "end" THEN 2 ELSE 3
      /\ \A k \in 1..Len(P) :
            P[k].part = IF k = 1 THEN "kind" ELSE IF k = 2 THEN "len" ELSE "payload"
  BY <1>1, PartsOf
<1>3. DOMAIN P = 1..Len(P)
  BY <1>2, LenProperties
<1>4. f.kind = "end" => p.part # "payload"
  BY DEF Written
<1>5. j \in 1..Len(P) /\ P[j].part = p.part
  BY <1>1, <1>2, <1>4
<1>6. \A k \in 1..Len(P) : P[k].part = p.part => k = j
  BY <1>1, <1>2, <1>4
<1>7. i = j
  BY <1>3, <1>5, <1>6
<1>8. j = Len(P) <=> Final(p)
  BY <1>1, <1>2, <1>4 DEF Final
<1>9. ~Final(p) => P[j + 1].part = IF p.part = "kind" THEN "len" ELSE "payload"
  <2> SUFFICES ASSUME ~Final(p) PROVE P[j + 1].part = IF p.part = "kind" THEN "len" ELSE "payload"
    OBVIOUS
  <2>1. j + 1 \in 1..Len(P) /\ j \in {1, 2} /\ (p.part = "kind" <=> j = 1)
    BY <1>1, <1>2, <1>4 DEF Final
  <2>2. P[j + 1].part = IF j + 1 = 1 THEN "kind" ELSE IF j + 1 = 2 THEN "len" ELSE "payload"
    BY <1>2, <2>1
  <2> QED
    BY <2>1, <2>2
<1> HIDE DEF i, j, P, f
<1> QED
  BY <1>7, <1>8, <1>9 DEF i, P, f

\* After a part that does not end the stream the reader goes on with the next.
LEMMA ReadsOn ==
    ASSUME PipeInv, NEW s \in Streams, InSync(s), pipe # <<>>, pipe' = Tail(pipe),
           UNCHANGED worker, ~EndsFlow(1),
           part' = IF Final(Flow[1]) THEN "kind"
                   ELSE IF Flow[1].part = "kind" THEN "len" ELSE "payload"
    PROVE  InSync(s)'
<1> DEFINE F == Flow
           G == Flow'
<1>1. /\ G \in Seq(Written) /\ Len(F) # 0 /\ Len(G) = Len(F) - 1
      /\ \A i \in 1..(Len(F) - 1) : G[i] = F[i + 1]
      /\ Len(pipe') = Len(pipe) - 1
  BY TakesPart
<1>2. Len(F) \in Nat /\ Len(pipe) \in Nat /\ F \in Seq(Written) /\ Writing
      /\ Len(F) = Len(pipe) + Len(worker.unwritten) /\ Len(worker.unwritten) \in Nat
  BY PipeTypes
<1>3. F # <<>>
  BY <1>1, EmptySeq
<1>4. \A i \in 1..(Len(F) - 1) : EndsFlow(i)' <=> EndsFlow(i + 1)
  BY <1>1 DEF EndsFlow, Final
<1>5. G # <<>> => G[1].part = part'
  <2> SUFFICES ASSUME G # <<>> PROVE G[1].part = part'
    OBVIOUS
  <2>1. 1 \in 1..(Len(F) - 1)
    BY <1>1, <1>2, EmptySeq
  <2>2. G[1] = F[2] /\ Follows(F[1], F[2])
    BY <1>1, <1>2, <2>1 DEF Writing
  <2> QED
    BY <2>2 DEF Follows
<1>6. \A i \in 1..Len(G) : EndsFlow(i)' => i = Len(G)
  <2> SUFFICES ASSUME NEW i \in 1..Len(G), EndsFlow(i)' PROVE i = Len(G)
    OBVIOUS
  <2>1. i \in 1..(Len(F) - 1) /\ i + 1 \in 1..Len(F)
    BY <1>1, <1>2
  <2>2. i + 1 = Len(F)
    BY <1>4, <2>1 DEF InSync
  <2> QED
    BY <1>1, <1>2, <2>1, <2>2
<1>7. worker.stdin = <<>>  \/ worker.proc # "up"
  BY <1>3 DEF InSync
<1>8. worker.proc = "up" /\ G = <<>> => part' = "kind"
  <2> SUFFICES ASSUME worker.proc = "up", G = <<>> PROVE Final(F[1])
    OBVIOUS
  <2>1. Len(F) = 1
    BY <1>1, <1>2, EmptySeq
  <2> QED
    BY <1>2, <1>3, <2>1 DEF Writing
<1>9. worker.proc = "up" /\ worker.stdin = <<>> /\ worker.job = NoStream =>
        G # <<>> /\ EndsFlow(Len(Flow))'
  <2> SUFFICES ASSUME worker.proc = "up", worker.stdin = <<>>, worker.job = NoStream
               PROVE  G # <<>> /\ EndsFlow(Len(Flow))'
    OBVIOUS
  <2>1. EndsFlow(Len(F))
    BY DEF InSync
  <2>2. Len(F) # 1
    BY <2>1
  <2>3. PICK n \in Nat : n = Len(F) - 1
    BY <1>1, <1>2
  <2>4. n \in 1..(Len(F) - 1) /\ n + 1 = Len(F) /\ Len(G) = n /\ n # 0
    BY <1>1, <1>2, <2>2, <2>3
  <2>5. EndsFlow(n + 1)
    BY <2>1, <2>4
  <2>6. EndsFlow(n)'
    BY <1>4, <2>4, <2>5
  <2> QED
    BY <2>4, <2>6, EmptySeq
<1>10. worker.proc = "up" /\ worker.job # NoStream =>
        \A i \in 1..Len(pipe') : ~EndsFlow(i)'
  <2> SUFFICES ASSUME worker.proc = "up", worker.job # NoStream, NEW i \in 1..Len(pipe')
               PROVE  ~EndsFlow(i)'
    OBVIOUS
  <2>1. i \in 1..(Len(F) - 1) /\ i + 1 \in 1..Len(pipe)
    BY <1>1, <1>2
  <2> QED
    BY <1>4, <2>1 DEF InSync
<1> HIDE DEF F
<1> QED
  BY <1>5, <1>6, <1>7, <1>8, <1>9, <1>10 DEF InSync

\* What reading a part does: the pipe is in sync, so it is the part that is expected.
LEMMA ReadPartStep ==
    ASSUME PipeInv, NEW s \in Streams, ReadPart(s)
    PROVE  /\ rpc[s] = "read" /\ ~torn /\ pipe # <<>> /\ pipe' = Tail(pipe)
           /\ UNCHANGED <<lockq, handle, worker, torn, chan, hpc, frame, received, watched,
                          gone, cancel, misled, crashes>>
           /\ InSync(s) /\ Reading(s) /\ Flow[1].part = part /\ Flow[1].frame \in FrameSet
           /\ Final(Flow[1]) => /\ rpc' = [rpc EXCEPT ![s] = "send"]
                                /\ relayed' = [relayed EXCEPT ![s] = Flow[1].frame]
           /\ ~Final(Flow[1]) => UNCHANGED <<rpc, relayed>>
           /\ part' = IF Final(Flow[1]) THEN "kind"
                      ELSE IF part = "kind" THEN "len" ELSE "payload"
<1> DEFINE p == Head(pipe)
           f == p.frame
           i == CHOOSE k \in DOMAIN Parts(f) : Parts(f)[k].part = part
<1>1. /\ rpc[s] = "read" /\ ~torn /\ pipe # <<>> /\ pipe' = Tail(pipe)
      /\ UNCHANGED <<lockq, handle, worker, torn, chan, hpc, frame, received, watched,
                     gone, cancel, misled, crashes>>
  BY DEF ReadPart, handlerVars, signalVars
<1>2. IF i = Len(Parts(f))
        THEN /\ rpc' = [rpc EXCEPT ![s] = "send"] /\ relayed' = [relayed EXCEPT ![s] = f]
             /\ part' = "kind"
        ELSE part' = Parts(f)[i + 1].part /\ UNCHANGED <<rpc, relayed>>
  BY DEF ReadPart, Relays, Relay
<1>3. Len(Flow) # 0 /\ Flow[1] = p /\ p \in Written
  BY <1>1, TakesPart
<1>4. InSync(s) /\ Reading(s)
  BY <1>1, PipeTypes DEF Synchronised, Reading
<1>5. p.part = part
  BY <1>3, <1>4, EmptySeq DEF InSync
<1>6. /\ i = Len(Parts(f)) <=> Final(p)
      /\ ~Final(p) => Parts(f)[i + 1].part = IF part = "kind" THEN "len" ELSE "payload"
  BY <1>3, <1>5, PartRead
<1> HIDE DEF i
<1>7. f \in FrameSet
  BY <1>3 DEF Written, PartSet
<1> QED
  BY <1>1, <1>2, <1>3, <1>4, <1>5, <1>6, <1>7

\* A part is read from a pipe in sync: the reader goes on with the frame, or sends it;
\* after a terminal frame the worker is left with nothing in its pipe.
LEMMA ReadPartKeepsPipe ==
    ASSUME PipeInv, NEW s \in Streams, ReadPart(s)
    PROVE  PipeInv'
<1> DEFINE p == Flow[1]
           f == p.frame
<1>1. /\ rpc[s] = "read" /\ ~torn /\ pipe # <<>> /\ pipe' = Tail(pipe)
      /\ UNCHANGED <<lockq, handle, worker, torn, chan, hpc, frame, received, watched,
                     gone, cancel, misled, crashes>>
  BY ReadPartStep
<1>2. /\ Flow' \in Seq(Written) /\ Len(Flow) # 0 /\ Len(Flow') = Len(Flow) - 1
      /\ Flow[1] = p /\ Writing'
      /\ Len(pipe') = Len(pipe) - 1 /\ pipe' \in Seq(Written)
  BY <1>1, TakesPart
<1>3. /\ TypeOK /\ Mutex /\ Ownership /\ Synchronised
      /\ Len(Flow) \in Nat /\ Len(pipe) \in Nat /\ Len(pipe) <= PipeCap /\ PipeCap \in Nat
  BY PipeTypes
<1>4. InSync(s) /\ Reading(s) /\ p.part = part /\ f \in FrameSet
  BY ReadPartStep
<1>5. /\ Final(p) => /\ rpc' = [rpc EXCEPT ![s] = "send"]
                     /\ relayed' = [relayed EXCEPT ![s] = f]
      /\ ~Final(p) => UNCHANGED <<rpc, relayed>>
      /\ part' = IF Final(p) THEN "kind" ELSE IF part = "kind" THEN "len" ELSE "payload"
  BY ReadPartStep
<1> HIDE DEF p
<1>6. TypeOK'
  <2>1. pipe' \in Seq(PartSet) /\ Len(pipe') <= PipeCap
    <3>1. pipe \in Seq(PartSet) /\ Tail(pipe) \in Seq(PartSet)
      BY <1>1, <1>3, HeadTailProperties DEF TypeOK
    <3> QED
      BY <1>1, <1>2, <1>3, <3>1
  <2>2. rpc' \in [Streams -> {"new", "lock", "write", "read", "send", "done"}]
        /\ relayed' \in [Streams -> FrameSet] /\ part' \in {"kind", "len", "payload"}
    BY <1>3, <1>4, <1>5 DEF TypeOK
  <2> QED
    BY <1>1, <1>3, <2>1, <2>2 DEF TypeOK
<1>7. \A t \in Streams : /\ rpc'[t] = IF t = s /\ Final(p) THEN "send" ELSE rpc[t]
                         /\ relayed'[t] = IF t = s /\ Final(p) THEN f ELSE relayed[t]
  BY <1>3, <1>5 DEF TypeOK
<1>8. Holds(s) /\ \A t \in Streams : t # s => rpc[t] \notin Working
  BY <1>1, <1>3, OneWorks DEF Mutex, Working
<1>9. Mutex'
  BY <1>1, <1>3, <1>7, <1>8 DEF Mutex, Working, Holds
<1>10. handle /\ worker.proc # "none"
  BY <1>1, <1>3 DEF Ownership, Unfinished
<1>11. Ownership'
  <2>1. worker' = worker /\ handle' = handle
    BY <1>1
  <2> QED
    BY <1>3, <1>10, <2>1 DEF Ownership
<1>12. \A t \in Streams : Reading(t)' <=> t = s /\ (Final(p) => f.kind \notin Terminal)
  BY <1>1, <1>7, <1>8 DEF Reading, Working
<1>13. EndsFlow(1) <=> f.kind \in Terminal /\ Final(p)
  BY <1>2 DEF EndsFlow
<1>14. Synchronised'
  <2>1. CASE EndsFlow(1)
    <3>1. \A t \in Streams : ~Reading(t)'
      BY <1>12, <1>13, <2>1
    <3>2. worker.proc = "up" => Drained'
      <4> SUFFICES ASSUME worker.proc = "up" PROVE Drained'
        OBVIOUS
      <4>1. 1 \in 1..Len(Flow) /\ Len(Flow) = 1
        BY <1>2, <1>3, <1>4, <2>1 DEF InSync
      <4>2. Len(pipe) = 1
        BY <1>1, <1>3, <4>1, EmptySeq, PipeTypes
      <4>3. worker.job = NoStream
        BY <1>4, <2>1, <4>2 DEF InSync
      <4>4. worker.stdin = <<>>
        BY <1>2, <1>4, EmptySeq DEF InSync
      <4>5. pipe' = <<>>
        BY <1>2, <4>2, EmptySeq
      <4> QED
        BY <1>1, <4>3, <4>4, <4>5 DEF Drained
    <3>3. worker' = worker
      BY <1>1
    <3> QED
      BY <3>1, <3>2, <3>3 DEF Synchronised
  <2>2. CASE ~EndsFlow(1)
    <3>1. InSync(s)'
      BY <1>1, <1>2, <1>4, <1>5, <2>2, ReadsOn
    <3>2. Reading(s)' /\ (rpc'[s] = "send" => part' = "kind")
      BY <1>1, <1>5, <1>7, <1>12, <1>13, <2>2
    <3> QED
      BY <1>12, <3>1, <3>2 DEF Synchronised
  <2> QED
    BY <2>1, <2>2
<1> QED
  BY <1>2, <1>6, <1>9, <1>11, <1>14 DEF PipeInv

\* What is read from a torn pipe is of the types, and is all the invariant says of it.
LEMMA MisreadKeepsPipe ==
    ASSUME PipeInv, NEW s \in Streams, Misread(s)
    PROVE  PipeInv'
<1>1. /\ rpc[s] = "read" /\ torn /\ pipe # <<>> /\ pipe' = Tail(pipe)
      /\ misled' = misled \union {s}
      /\ UNCHANGED <<lockq, handle, worker, torn, part, chan, hpc, frame, received,
                     watched, gone, cancel, crashes>>
  BY DEF Misread, handlerVars
<1>2. PICK at \in {"read", "send"}, g \in FrameSet :
         /\ rpc' = [rpc EXCEPT ![s] = at]
         /\ relayed' = [relayed EXCEPT ![s] = g]
  <2>1. TypeOK
    BY PipeTypes
  <2>2. CASE UNCHANGED <<rpc, relayed>>
    <3>1. /\ rpc' = [rpc EXCEPT ![s] = "read"] /\ relayed' = [relayed EXCEPT ![s] = relayed[s]]
          /\ relayed[s] \in FrameSet
      BY <1>1, <2>1, <2>2 DEF TypeOK
    <3> QED
      BY <3>1
  <2>3. CASE \E kind \in {"garbled", "end"} : Relays(s, Frame(NoStream, kind, 0))
    <3>1. PICK kind \in {"garbled", "end"} : Relays(s, Frame(NoStream, kind, 0))
      BY <2>3
    <3>2. Frame(NoStream, kind, 0) \in FrameSet
      BY FrameTypes DEF Kinds, Terminal
    <3> QED
      BY <3>1, <3>2 DEF Relays, Relay
  <2> QED
    BY <2>2, <2>3 DEF Misread
<1>3. /\ Writing' /\ Len(pipe') = Len(pipe) - 1 /\ Len(pipe) \in Nat /\ Len(pipe) <= PipeCap
      /\ TypeOK /\ Mutex /\ Ownership /\ PipeCap \in Nat
  BY <1>1, TakesPart, PipeTypes
<1>4. pipe' \in Seq(PartSet) /\ Len(pipe') <= PipeCap
  <2>1. pipe \in Seq(PartSet) /\ Tail(pipe) \in Seq(PartSet)
    BY <1>1, <1>3, HeadTailProperties DEF TypeOK
  <2> QED
    BY <1>1, <1>3, <2>1
<1>5. TypeOK'
  BY <1>1, <1>2, <1>3, <1>4 DEF TypeOK
<1>6. \A t \in Streams : /\ rpc'[t] = IF t = s THEN at ELSE rpc[t]
                         /\ relayed'[t] = IF t = s THEN g ELSE relayed[t]
  BY <1>2, <1>3 DEF TypeOK
<1>7. Mutex'
  BY <1>1, <1>3, <1>6 DEF Mutex, Working, Holds
<1>8. handle /\ worker.proc # "none"
  BY <1>1, <1>3 DEF Ownership, Unfinished
<1>9. Ownership'
  <2>1. worker' = worker /\ handle' = handle
    BY <1>1
  <2> QED
    BY <1>3, <1>8, <2>1 DEF Ownership
<1>10. Synchronised'
  BY <1>1 DEF Synchronised
<1> QED
  BY <1>3, <1>5, <1>7, <1>9, <1>10 DEF PipeInv

\* A frame is handed over, or lost: the task reads on, or gives the mutex back.
LEMMA SentKeepsPipe ==
    ASSUME PipeInv, NEW s \in Streams, rpc[s] = "send", Sent(s),
           relayed' = [relayed EXCEPT ![s] = NoFrame],
           chan' \in [Streams -> Seq(FrameSet)], \A t \in Streams : Len(chan'[t]) <= ChanCap,
           UNCHANGED <<handle, worker, pipe, torn, part, hpc, frame, received, watched,
                       gone, cancel, misled, crashes>>
    PROVE  PipeInv'
<1>1. TypeOK /\ Mutex /\ Ownership /\ Writing /\ Synchronised
  BY DEF PipeInv
<1>2. Holds(s) /\ \A t \in Streams : t # s => rpc[t] \notin Working
  BY <1>1, OneWorks DEF Mutex, Working
<1>3. PICK at \in {"read", "done"} :
         /\ rpc' = [rpc EXCEPT ![s] = at]
         /\ at = "done" <=> relayed[s].kind \in Terminal
         /\ Relay(s, at)
         /\ at = "done" => lockq' = Tail(lockq)
         /\ at = "read" => lockq' = lockq
  BY DEF Sent, Relay
<1>4. Mutex' /\ lockq' \in Seq(Streams) /\ IsInjective(lockq')
  <2>1. CASE at = "done"
    BY <1>1, <1>3, <2>1, Leaves DEF Working
  <2>2. CASE at = "read"
    <3>1. Relay(s, "read") /\ "read" \in Working /\ UNCHANGED <<lockq, hpc>>
      BY <1>3, <2>2 DEF Working
    <3>2. Mutex'
      BY <1>1, <1>2, <3>1, GoesOn
    <3> QED
      BY <1>1, <3>1, <3>2 DEF TypeOK
  <2> QED
    BY <2>1, <2>2
<1>5. TypeOK'
  <2>1. NoFrame \in FrameSet
    BY FrameTypes
  <2>2. rpc' \in [Streams -> {"new", "lock", "write", "read", "send", "done"}]
        /\ relayed' \in [Streams -> FrameSet]
    BY <1>1, <1>3, <2>1 DEF TypeOK
  <2> QED
    BY <1>1, <1>4, <2>2 DEF TypeOK
<1>6. \A t \in Streams : /\ rpc'[t] = IF t = s THEN at ELSE rpc[t]
                         /\ t # s => relayed'[t] = relayed[t]
  BY <1>1, <1>3 DEF TypeOK
<1>7. \A t \in Streams : /\ Reading(t)' <=> Reading(t)
                         /\ Unfinished(t)' <=> Unfinished(t)
                         /\ rpc'[t] = "send" => ~Reading(t)
  BY <1>2, <1>3, <1>6 DEF Reading, Unfinished, Working
<1>8. Ownership'
  BY <1>1, <1>7 DEF Ownership
<1>9. Flow' = Flow
  BY DEF Flow
<1>10. Writing'
  BY <1>1, <1>9 DEF Writing
<1>11. Synchronised'
  <2>1. \A t \in Streams : InSync(t)' <=> InSync(t)
    BY <1>9 DEF InSync, EndsFlow
  <2> QED
    BY <1>1, <1>7, <2>1 DEF Synchronised, Drained
<1> QED
  BY <1>4, <1>5, <1>8, <1>10, <1>11 DEF PipeInv

\* A frame is sent to the handler, or nobody receives it.
LEMMA SendKeepsPipe ==
    ASSUME PipeInv, NEW s \in Streams, Send(s) \/ SendLost(s)
    PROVE  PipeInv'
<1>1. TypeOK /\ ChanCap \in Nat
  BY PipeTypes
<1>2. CASE Send(s)
  <2>1. /\ rpc[s] = "send" /\ Sent(s) /\ Len(chan[s]) < ChanCap
        /\ chan' = [chan EXCEPT ![s] = Append(chan[s], relayed[s])]
        /\ relayed' = [relayed EXCEPT ![s] = NoFrame]
        /\ UNCHANGED <<handle, worker, pipe, torn, part, hpc, frame, received, watched,
                       gone, cancel, misled, crashes>>
    BY <1>2 DEF Send, handlerVars, signalVars
  <2>2. chan[s] \in Seq(FrameSet) /\ relayed[s] \in FrameSet
    BY <1>1 DEF TypeOK
  <2>3. /\ Append(chan[s], relayed[s]) \in Seq(FrameSet)
        /\ Len(Append(chan[s], relayed[s])) = Len(chan[s]) + 1 /\ Len(chan[s]) \in Nat
    BY <2>2, AppendProperties, LenProperties
  <2>4. Len(Append(chan[s], relayed[s])) <= ChanCap
    BY <1>1, <2>1, <2>3
  <2>5. chan' \in [Streams -> Seq(FrameSet)] /\ \A t \in Streams : Len(chan'[t]) <= ChanCap
    BY <1>1, <2>1, <2>3, <2>4 DEF TypeOK
  <2> QED
    BY <2>1, <2>5, SentKeepsPipe
<1>3. CASE SendLost(s)
  <2>1. /\ rpc[s] = "send" /\ Sent(s) /\ relayed' = [relayed EXCEPT ![s] = NoFrame]
        /\ UNCHANGED <<handle, worker, pipe, torn, part, chan, hpc, frame, received,
                       watched, gone, cancel, misled, crashes>>
    BY <1>3 DEF SendLost, handlerVars, signalVars
  <2>2. chan' \in [Streams -> Seq(FrameSet)] /\ \A t \in Streams : Len(chan'[t]) <= ChanCap
    BY <1>1, <2>1 DEF TypeOK
  <2> QED
    BY <2>1, <2>2, SentKeepsPipe
<1> QED
  BY <1>2, <1>3

-----------------------------------------------------------------------------
(* The worker.                                                               *)

\* Steps of the worker leave the mutex alone, and who has it.
LEMMA WorkerStep ==
    ASSUME PipeInv, worker.proc = "up",
           UNCHANGED <<lockq, handle, rpc, part, relayed, torn, chan, hpc, frame,
                       received, watched, gone, cancel, misled>>
    PROVE  /\ Mutex'
           /\ \A s \in Streams : Reading(s)' <=> Reading(s)
           /\ worker'.proc = "up" => Ownership'
<1>1. Mutex /\ Ownership
  BY DEF PipeInv
<1>2. Mutex'
  BY <1>1 DEF Mutex, Holds
<1> QED
  BY <1>1, <1>2 DEF Ownership, Unfinished, Reading

\* It takes the request that was written to it, to which it has not answered.
LEMMA BeginKeepsPipe ==
    ASSUME PipeInv, Begin
    PROVE  PipeInv'
<1>1. /\ worker.proc = "up" /\ worker.job = NoStream /\ worker.stdin # <<>>
      /\ worker' = [worker EXCEPT !.job = Head(worker.stdin), !.stdin = Tail(worker.stdin),
                                  !.made = 0]
      /\ UNCHANGED <<lockq, handle, rpc, part, relayed, pipe, torn, chan, hpc, frame,
                     received, watched, gone, cancel, misled, crashes>>
  BY DEF Begin, Worker, relayVars, handlerVars, signalVars
<1>2. TypeOK /\ worker.stdin \in Seq(Streams) /\ Synchronised /\ Writing
  BY PipeTypes
<1>3. Head(worker.stdin) \in Streams /\ Tail(worker.stdin) \in Seq(Streams)
  BY <1>1, <1>2, HeadTailProperties
<1>4. worker' = [proc |-> "up", stdin |-> Tail(worker.stdin), job |-> Head(worker.stdin),
                 made |-> 0, unwritten |-> worker.unwritten]
  BY <1>1, PipeTypes
<1>5. worker'.proc = "up" /\ worker'.stdin = Tail(worker.stdin) /\ worker'.made = 0
      /\ worker'.job = Head(worker.stdin) /\ worker'.unwritten = worker.unwritten
  BY <1>4
<1>6. TypeOK'
  <2>1. worker.unwritten \in Seq(PartSet)
    BY <1>2 DEF TypeOK
  <2>2. worker' \in [proc : {"none", "up", "dead"}, stdin : Seq(Streams),
                     job : Streams \union {NoStream}, made : Nat, unwritten : Seq(PartSet)]
    BY <1>3, <1>4, <2>1
  <2> QED
    BY <1>1, <1>2, <2>2 DEF TypeOK
<1>7. Mutex' /\ Ownership' /\ \A s \in Streams : Reading(s)' <=> Reading(s)
  BY <1>1, <1>5, WorkerStep
<1>8. Flow' = Flow
  BY <1>1, <1>5 DEF Flow
<1>9. Writing'
  <2>1. 0 < Len(Generation(Head(worker.stdin)))
    BY <1>3, GenerationFrames
  <2>2. worker.unwritten = <<>>
    BY <1>1, <1>2 DEF Writing
  <2>3. Len(<<>>) = 0
    BY EmptySeq
  <2> QED
    BY <1>1, <1>2, <1>5, <1>8, <2>1, <2>2, <2>3 DEF Writing
<1>10. Synchronised'
  <2> SUFFICES ASSUME ~torn PROVE Synchronised'
    BY <1>1 DEF Synchronised
  <2>1. PICK s \in Streams : Reading(s)
    BY <1>1, <1>2 DEF Synchronised, Drained
  <2>2. \A t \in Streams : Reading(t) => t = s
    BY <2>1, PipeTypes, OneWorks DEF Reading, Mutex, Working
  <2>3. InSync(s) /\ (rpc[s] = "send" => part = "kind")
    BY <1>2, <2>1 DEF Synchronised
  <2>4. worker.stdin = <<s>> /\ Flow = <<>>
    BY <1>1, <2>3 DEF InSync
  <2>5. Tail(<<s>>) = <<>> /\ Head(<<s>>) = s /\ s # NoStream
    BY PipeTypes
  <2>6. Len(Flow) = 0 /\ Len(pipe) = 0
    BY <2>4, EmptySeq, PipeTypes
  <2>7. InSync(s)'
    BY <1>1, <1>5, <1>8, <2>3, <2>4, <2>5, <2>6 DEF InSync
  <2> QED
    BY <1>1, <1>7, <2>1, <2>2, <2>3, <2>7 DEF Synchronised
<1> QED
  BY <1>6, <1>7, <1>9, <1>10 DEF PipeInv

\* The parts that the worker writes next: the rest of a frame, or all of the frame
\* that its generation makes next, or of an error frame.
Writes(parts) ==
    /\ parts \in Seq(Written) /\ parts # <<>>
    /\ \A i \in 1..Len(parts) : /\ parts[i].frame = parts[Len(parts)].frame
                                /\ Final(parts[i]) <=> i = Len(parts)
                                /\ i # 1 => parts[i].part # "kind"
    /\ \A i \in 1..(Len(parts) - 1) : Follows(parts[i], parts[i + 1])
    /\ \/ parts = worker.unwritten
       \/ /\ worker.unwritten = <<>> /\ parts[1].part = "kind" /\ Len(parts) > 1
          /\ parts[1].frame.kind \in Terminal
                \/ worker.made + 1 < Len(Generation(worker.job))

\* Writing brings the next part to the end of the pipe, and nothing out of order.
LEMMA PutsPart ==
    ASSUME PipeInv, NEW parts, Writes(parts), worker.proc = "up", worker.job # NoStream,
           pipe' = Append(pipe, Head(parts)), worker'.unwritten = Tail(parts)
    PROVE  /\ Flow' = pipe \o parts /\ Flow' \in Seq(Written)
           /\ Len(Flow') = Len(pipe) + Len(parts)
           /\ \A i \in 1..Len(pipe) : Flow'[i] = Flow[i] /\ pipe[i] = Flow[i]
           /\ \A i \in 1..Len(parts) : Flow'[Len(pipe) + i] = parts[i]
           /\ parts = worker.unwritten => Flow' = Flow
           /\ worker.unwritten = <<>> => Flow = pipe
           /\ pipe' \in Seq(Written) /\ Len(pipe') = Len(pipe) + 1
           /\ Tail(parts) \in Seq(Written) /\ Len(Tail(parts)) = Len(parts) - 1
           /\ \A i \in 1..(Len(parts) - 1) : Tail(parts)[i] = parts[i + 1]
           /\ Len(parts) \in Nat \ {0} /\ Head(parts) = parts[1]
           /\ \A i \in 1..(Len(Flow') - 1) : Follows(Flow'[i], Flow'[i + 1])
<1>1. /\ parts \in Seq(Written) /\ parts # <<>> /\ pipe \in Seq(Written) /\ Len(pipe) \in Nat
      /\ worker.unwritten \in Seq(Written) /\ Writing
      /\ Flow = pipe \o worker.unwritten /\ Flow \in Seq(Written)
      /\ Len(Flow) = Len(pipe) + Len(worker.unwritten) /\ Len(worker.unwritten) \in Nat
  BY PipeTypes DEF Writes, Flow
<1>2. Flow' = pipe \o parts
  <2>1. Flow' = Append(pipe, Head(parts)) \o Tail(parts)
    BY DEF Flow
  <2> QED
    BY <1>1, <2>1, HeadMoves
<1>3. /\ pipe \o parts \in Seq(Written) /\ Len(pipe \o parts) = Len(pipe) + Len(parts)
      /\ \A i \in 1..(Len(pipe) + Len(parts)) :
            (pipe \o parts)[i] = IF i <= Len(pipe) THEN pipe[i] ELSE parts[i - Len(pipe)]
  BY <1>1, ConcatProperties
<1>4. /\ Tail(parts) \in Seq(Written) /\ Len(Tail(parts)) = Len(parts) - 1
      /\ \A i \in 1..(Len(parts) - 1) : Tail(parts)[i] = parts[i + 1]
      /\ Len(parts) \in Nat \ {0} /\ Head(parts) = parts[1] /\ Head(parts) \in Written
  <2>1. Len(parts) \in Nat /\ Len(parts) # 0
    BY <1>1, LenProperties, EmptySeq
  <2> QED
    BY <1>1, <2>1, HeadTailProperties
<1>5. pipe' \in Seq(Written) /\ Len(pipe') = Len(pipe) + 1
  BY <1>1, <1>4, AppendProperties
<1>6. \A i \in 1..(Len(pipe) + Len(worker.unwritten)) :
         Flow[i] = IF i <= Len(pipe) THEN pipe[i] ELSE worker.unwritten[i - Len(pipe)]
  BY <1>1, ConcatProperties
<1> DEFINE G == Flow'
           n == Len(pipe)
           m == Len(parts)
<1>7. /\ Flow' \in Seq(Written) /\ Len(G) = n + m
      /\ \A i \in 1..(n + m) : G[i] = IF i <= n THEN pipe[i] ELSE parts[i - n]
  BY <1>2, <1>3
<1>8. \A i \in 1..n : G[i] = Flow[i] /\ pipe[i] = Flow[i]
  BY <1>1, <1>4, <1>6, <1>7
<1>9. \A i \in 1..m : G[n + i] = parts[i]
  BY <1>1, <1>4, <1>7
<1>10. worker.unwritten = <<>> => Flow = pipe
  BY <1>1, ConcatEmptySeq
<1>11. parts = worker.unwritten => Flow' = Flow
  BY <1>1, <1>2
<1>12. ASSUME NEW i \in 1..(Len(G) - 1) PROVE Follows(G[i], G[i + 1])
  <2>1. CASE parts = worker.unwritten
    BY <1>1, <1>11, <2>1 DEF Writing
  <2>2. CASE parts # worker.unwritten
    <3>1. worker.unwritten = <<>> /\ parts[1].part = "kind" /\ Flow = pipe
      BY <2>2, <1>10 DEF Writes
    <3>2. CASE i < n
      <4>1. i \in 1..(Len(Flow) - 1) /\ i \in 1..n /\ i + 1 \in 1..n
        BY <1>1, <1>4, <1>7, <3>1, <3>2
      <4>2. G[i] = Flow[i] /\ G[i + 1] = Flow[i + 1]
        BY <1>8, <4>1
      <4>3. Follows(Flow[i], Flow[i + 1])
        BY <1>1, <4>1 DEF Writing
      <4> QED
        BY <4>2, <4>3
    <3>3. CASE i = n
      <4>1. n \in 1..n /\ 1 \in 1..m /\ Flow # <<>>
        BY <1>1, <1>4, <3>1, <3>3, EmptySeq
      <4>2. G[i] = Flow[n] /\ G[i + 1] = parts[1]
        BY <1>8, <1>9, <3>3, <4>1
      <4>3. Final(Flow[n])
        BY <1>1, <3>1, <4>1 DEF Writing
      <4> QED
        BY <3>1, <4>2, <4>3 DEF Follows
    <3>4. CASE i > n
      <4>1. PICK j \in 1..(m - 1) : i = n + j
        <5>1. i - n \in 1..(m - 1) /\ i = n + (i - n)
          BY <1>1, <1>4, <1>7, <3>4
        <5> QED
          BY <5>1
      <4>2. j \in 1..m /\ j + 1 \in 1..m /\ i + 1 = n + (j + 1)
        BY <1>1, <1>4, <4>1
      <4>3. G[i] = parts[j] /\ G[i + 1] = parts[j + 1]
        BY <1>9, <4>1, <4>2
      <4>4. Follows(parts[j], parts[j + 1])
        BY <4>1 DEF Writes
      <4> QED
        BY <4>3, <4>4
    <3> QED
      BY <1>1, <1>4, <1>7, <3>2, <3>3, <3>4
  <2> QED
    BY <2>1, <2>2
<1> HIDE DEF G
<1> QED
  BY <1>1, <1>2, <1>4, <1>5, <1>7, <1>8, <1>9, <1>10, <1>11, <1>12 DEF G

\* A written part keeps what the worker and the reader agree on.
LEMMA WritePartKeepsPipe ==
    ASSUME PipeInv, NEW parts, Writes(parts), worker.proc = "up", worker.job # NoStream,
           WritePart(parts)
    PROVE  PipeInv'
<1> DEFINE ends == Tail(parts) = <<>> /\ Head(parts).frame.kind \in Terminal
           u == Tail(parts)
           n == Len(pipe)
           m == Len(parts)
<1>1. /\ Len(pipe) < PipeCap /\ pipe' = Append(pipe, Head(parts))
      /\ worker' = [worker EXCEPT
            !.unwritten = Tail(parts),
            !.made = IF Head(parts).part = "kind" THEN @ + 1 ELSE @,
            !.job = IF Tail(parts) = <<>> /\ Head(parts).frame.kind \in Terminal
                      THEN NoStream ELSE @]
      /\ UNCHANGED <<lockq, handle, rpc, part, relayed, torn, chan, hpc, frame, received,
                     watched, gone, cancel, misled, crashes>>
  BY DEF WritePart, relayVars, handlerVars, signalVars
<1>2. /\ worker'.proc = "up" /\ worker'.stdin = worker.stdin /\ worker'.unwritten = u
      /\ worker'.made = IF Head(parts).part = "kind" THEN worker.made + 1 ELSE worker.made
      /\ worker'.job = IF ends THEN NoStream ELSE worker.job
      /\ worker' = [proc |-> worker'.proc, stdin |-> worker'.stdin, job |-> worker'.job,
                    made |-> worker'.made, unwritten |-> worker'.unwritten]
  BY <1>1, PipeTypes
<1>3. /\ TypeOK /\ Writing /\ Synchronised /\ Len(pipe) \in Nat /\ PipeCap \in Nat
      /\ worker.made \in Nat /\ worker.job \in Streams \union {NoStream}
      /\ worker.stdin \in Seq(Streams) /\ NoStream \notin Streams
      /\ Flow \in Seq(Written) /\ Len(Flow) = Len(pipe) + Len(worker.unwritten)
  BY PipeTypes
<1>4. /\ Flow' \in Seq(Written) /\ Len(Flow') = n + m
      /\ \A i \in 1..n : Flow'[i] = Flow[i] /\ pipe[i] = Flow[i]
      /\ \A i \in 1..m : Flow'[n + i] = parts[i]
      /\ parts = worker.unwritten => Flow' = Flow
      /\ worker.unwritten = <<>> => Flow = pipe
      /\ pipe' \in Seq(Written) /\ Len(pipe') = n + 1
      /\ u \in Seq(Written) /\ Len(u) = m - 1
      /\ \A i \in 1..(m - 1) : u[i] = parts[i + 1]
      /\ m \in Nat \ {0} /\ Head(parts) = parts[1]
      /\ \A i \in 1..(Len(Flow') - 1) : Follows(Flow'[i], Flow'[i + 1])
  BY <1>1, <1>2, PutsPart
<1>5. \A i \in 1..m : /\ parts[i].frame = parts[m].frame
                      /\ Final(parts[i]) <=> i = m
                      /\ i # 1 => parts[i].part # "kind"
  BY DEF Writes
<1>6. 1 \in 1..m /\ m \in 1..m /\ (u = <<>> <=> m = 1)
  <2>1. 1 \in 1..m /\ m \in 1..m
    BY <1>4
  <2>2. u \in Seq(Written) /\ Len(u) = m - 1 /\ m \in Nat
    BY <1>4
  <2> HIDE DEF u
  <2>3. u = <<>> <=> Len(u) = 0
    BY <2>2, EmptySeq
  <2> QED
    BY <2>1, <2>2, <2>3
<1>7. ends <=> m = 1 /\ parts[m].frame.kind \in Terminal
  BY <1>4, <1>5, <1>6
<1> HIDE DEF u, ends
<1>8. TypeOK'
  <2>1. pipe' \in Seq(PartSet) /\ u \in Seq(PartSet)
    <3>1. Written \subseteq PartSet
      BY DEF Written
    <3> QED
      BY <1>4, <3>1
  <2>2. worker'.made \in Nat /\ worker'.job \in Streams \union {NoStream}
    BY <1>2, <1>3
  <2>3. worker' \in [proc : {"none", "up", "dead"}, stdin : Seq(Streams),
                     job : Streams \union {NoStream}, made : Nat, unwritten : Seq(PartSet)]
    BY <1>2, <1>3, <2>1, <2>2
  <2>4. Len(pipe') <= PipeCap
    BY <1>1, <1>3, <1>4
  <2> QED
    BY <1>1, <1>3, <2>1, <2>3, <2>4 DEF TypeOK
<1>9. Mutex' /\ Ownership' /\ \A s \in Streams : Reading(s)' <=> Reading(s)
  BY <1>1, <1>2, WorkerStep
<1>10. Writing'
  <2>1. Flow' # <<>> /\ Final(Flow'[Len(Flow')])
    <3>1. Flow'[n + m] = parts[m] /\ Final(parts[m])
      BY <1>4, <1>5, <1>6
    <3> QED
      BY <1>3, <1>4, <3>1, EmptySeq
  <2>2. \A i \in 1..Len(u) : /\ u[i].frame = u[Len(u)].frame
                             /\ Final(u[i]) <=> i = Len(u)
                             /\ u[i].part # "kind"
    <3> SUFFICES ASSUME NEW i \in 1..Len(u)
                 PROVE  /\ u[i].frame = u[Len(u)].frame
                        /\ Final(u[i]) <=> i = Len(u)
                        /\ u[i].part # "kind"
      OBVIOUS
    <3>1. i \in 1..(m - 1) /\ m - 1 \in 1..(m - 1) /\ i + 1 \in 1..m /\ i + 1 # 1
      BY <1>4
    <3>2. u[i] = parts[i + 1] /\ u[Len(u)] = parts[(m - 1) + 1]
      BY <1>4, <3>1
    <3>3. (m - 1) + 1 = m /\ (i = Len(u) <=> i + 1 = m)
      BY <1>4, <3>1
    <3> QED
      BY <1>5, <3>1, <3>2, <3>3
  <2>3. worker'.job # NoStream =>
           \/ worker'.made < Len(Generation(worker'.job))
           \/ u # <<>> /\ u[Len(u)].frame.kind \in Terminal
    <3> SUFFICES ASSUME ~ends
                 PROVE  \/ worker'.made < Len(Generation(worker.job))
                        \/ u # <<>> /\ u[Len(u)].frame.kind \in Terminal
      BY <1>2
    <3>1. CASE parts[m].frame.kind \in Terminal
      <4>1. m # 1 /\ m - 1 \in 1..(m - 1) /\ (m - 1) + 1 = m
        BY <1>4, <1>7, <3>1
      <4>2. u # <<>> /\ u[m - 1] = parts[(m - 1) + 1]
        BY <1>4, <1>6, <4>1
      <4> QED
        BY <1>4, <3>1, <4>1, <4>2
    <3>2. CASE parts[m].frame.kind \notin Terminal
      <4>1. CASE parts = worker.unwritten
        <5>1. parts[1].part # "kind"
          BY <1>3, <1>6, <4>1 DEF Writing
        <5>2. worker.made < Len(Generation(worker.job))
          BY <1>3, <3>2, <4>1 DEF Writing
        <5> QED
          BY <1>2, <1>4, <5>1, <5>2
      <4>2. CASE parts # worker.unwritten
        <5>1. parts[1].part = "kind" /\ worker.made + 1 < Len(Generation(worker.job))
          BY <1>5, <1>6, <3>2, <4>2 DEF Writes
        <5> QED
          BY <1>2, <1>4, <5>1
      <4> QED
        BY <4>1, <4>2
    <3> QED
      BY <3>1, <3>2
  <2>4. u # <<>> => worker'.job # NoStream
    BY <1>2, <1>6, <1>7
  <2> QED
    BY <1>2, <1>4, <2>1, <2>2, <2>3, <2>4 DEF Writing
<1>11. ASSUME NEW s \in Streams, InSync(s) PROVE InSync(s)'
  <2> DEFINE G == Flow'
  <2>1. worker.stdin = <<>> /\ \A i \in 1..n : ~EndsFlow(i)
    BY <1>11 DEF InSync
  <2>2. \A i \in 1..n : ~(G[i].frame.kind \in Terminal /\ Final(G[i]))
    BY <1>4, <2>1 DEF EndsFlow
  <2>3. \A i \in 1..m : G[n + i].frame.kind \in Terminal /\ Final(G[n + i]) =>
           i = m /\ parts[m].frame.kind \in Terminal
    BY <1>4, <1>5
  <2>4. G # <<>> /\ G[1].part = part
    <3>1. CASE Flow # <<>> /\ parts = worker.unwritten
      BY <1>4, <1>11, <3>1 DEF InSync
    <3>2. CASE Flow # <<>> /\ parts # worker.unwritten
      <4>1. Flow = pipe /\ Len(pipe) # 0
        BY <1>3, <1>4, <3>2, EmptySeq DEF Writes
      <4>2. 1 \in 1..n
        BY <1>3, <4>1
      <4>3. G[1] = Flow[1] /\ Flow[1].part = part
        BY <1>4, <1>11, <3>2, <4>2 DEF InSync
      <4> QED
        BY <1>3, <1>4, <4>3, EmptySeq
    <3>3. CASE Flow = <<>>
      <4>1. n = 0 /\ Len(worker.unwritten) = 0
        BY <1>3, <3>3, EmptySeq, PipeTypes
      <4>2. parts # worker.unwritten
        BY <1>4, <4>1
      <4>3. parts[1].part = "kind" /\ part = "kind"
        BY <1>11, <3>3, <4>2 DEF InSync, Writes
      <4>4. G[n + 1] = parts[1] /\ n + 1 = 1
        BY <1>4, <1>6, <4>1
      <4> QED
        BY <1>3, <1>4, <4>3, <4>4, EmptySeq
    <3> QED
      BY <3>1, <3>2, <3>3
  <2>5. ASSUME NEW i \in 1..(n + m), G[i].frame.kind \in Terminal /\ Final(G[i])
        PROVE  i = n + m /\ parts[m].frame.kind \in Terminal
    <3>1. i \notin 1..n
      BY <2>2, <2>5
    <3>2. PICK j \in 1..m : i = n + j
      <4>1. i - n \in 1..m /\ i = n + (i - n)
        BY <1>3, <1>4, <3>1
      <4> QED
        BY <4>1
    <3> QED
      BY <2>3, <2>5, <3>2
  <2>6. ends => G[n + m].frame.kind \in Terminal /\ Final(G[n + m])
    BY <1>4, <1>5, <1>6, <1>7
  <2>7. ~ends => \A i \in 1..(n + 1) : ~(G[i].frame.kind \in Terminal /\ Final(G[i]))
    <3> SUFFICES ASSUME NEW i \in 1..(n + 1), G[i].frame.kind \in Terminal, Final(G[i])
                 PROVE  ends
      OBVIOUS
    <3>1. i \in 1..(n + m)
      BY <1>3, <1>4
    <3>2. i = n + m /\ parts[m].frame.kind \in Terminal
      BY <2>5, <3>1
    <3> QED
      BY <1>3, <1>4, <1>7, <3>2
  <2> QED
    BY <1>1, <1>2, <1>4, <2>1, <2>4, <2>5, <2>6, <2>7 DEF InSync, EndsFlow
<1>12. Synchronised'
  <2> SUFFICES ASSUME ~torn PROVE Synchronised'
    BY <1>1 DEF Synchronised
  <2>1. \E s \in Streams : Reading(s)
    BY <1>3 DEF Synchronised, Drained
  <2> QED
    BY <1>1, <1>3, <1>9, <1>11, <2>1 DEF Synchronised
<1> QED
  BY <1>8, <1>9, <1>10, <1>12 DEF PipeInv

\* All the parts of a frame, or what is left of them, may be written.
LEMMA FrameWrites ==
    ASSUME PipeInv, NEW f \in FrameSet, f.kind \in Kinds, f.stream \in Streams,
           worker.unwritten = <<>>,
           f.kind \in Terminal \/ worker.made + 1 < Len(Generation(worker.job))
    PROVE  Writes(Parts(f))
<1> DEFINE P == Parts(f)
<1>1. /\ P \in Seq(Written) /\ P # <<>> /\ Len(P) = IF f.kind = "end" THEN 2 ELSE 3
      /\ \A i \in 1..Len(P) :
            /\ P[i].frame = f
            /\ P[i].part = IF i = 1 THEN "kind" ELSE IF i = 2 THEN "len" ELSE "payload"
            /\ Final(P[i]) <=> i = Len(P)
  BY PartsOf
<1> HIDE DEF P
<1>2. \A i \in 1..Len(P) : /\ P[i].frame = P[Len(P)].frame
                           /\ Final(P[i]) <=> i = Len(P)
                           /\ i # 1 => P[i].part # "kind"
  BY <1>1
<1>3. ASSUME NEW i \in 1..(Len(P) - 1) PROVE Follows(P[i], P[i + 1])
  <2>1. i \in 1..Len(P) /\ i + 1 \in 1..Len(P) /\ i \in {1, 2} /\ i # Len(P)
    BY <1>1
  <2>2. /\ ~Final(P[i]) /\ P[i + 1].frame = P[i].frame
        /\ P[i].part = IF i = 1 THEN "kind" ELSE "len"
        /\ P[i + 1].part = IF i = 1 THEN "len" ELSE "payload"
    BY <1>1, <2>1
  <2> QED
    BY <2>1, <2>2 DEF Follows
<1>4. P[1].part = "kind" /\ Len(P) > 1 /\ P[1].frame = f
  BY <1>1
<1>5. Writes(P)
  BY <1>1, <1>2, <1>3, <1>4 DEF Writes
<1> QED
  BY <1>5 DEF P

\* So may the next frame of a generation,
LEMMA FrameKindWrites ==
    ASSUME PipeInv, WriteFrameKind
    PROVE  LET f == Generation(worker.job)[worker.made + 1]
           IN Writes(Parts(f)) /\ Parts(f)[1].frame = f
<1> DEFINE g == Generation(worker.job)
           f == g[worker.made + 1]
<1>1. /\ Writing /\ worker.made \in Nat /\ worker.job \in Streams /\ worker.job # NoStream
      /\ worker.unwritten = <<>>
  BY PipeTypes DEF WriteFrameKind, Ready
<1>2. Len(<<>>) = 0
  BY EmptySeq
<1>3. worker.made < Len(g)
  BY <1>1, <1>2 DEF Writing
<1>4. /\ Len(g) \in Nat
      /\ \A i \in 1..Len(g) : /\ g[i] \in FrameSet /\ g[i].stream = worker.job
                              /\ g[i].kind \in Kinds \ {"error"}
                              /\ g[i].kind \in Terminal <=> i = Len(g)
  BY <1>1, GenerationFrames
<1> HIDE DEF g
<1>5. worker.made + 1 \in 1..Len(g)
  BY <1>1, <1>3, <1>4
<1>6. f \in FrameSet /\ f.stream \in Streams /\ f.kind \in Kinds
      /\ (f.kind \in Terminal \/ worker.made + 1 < Len(g))
  BY <1>1, <1>3, <1>4, <1>5
<1>7. Writes(Parts(f))
  BY <1>1, <1>6, FrameWrites DEF g
<1>8. Parts(f)[1].frame = f
  <2>1. /\ Len(Parts(f)) = IF f.kind = "end" THEN 2 ELSE 3
        /\ \A i \in 1..Len(Parts(f)) : Parts(f)[i].frame = f
    BY <1>6, PartsOf
  <2> QED
    BY <2>1
<1> QED
  BY <1>7, <1>8 DEF g

\* an error frame,
LEMMA ErrorKindWrites ==
    ASSUME PipeInv, WriteErrorKind
    PROVE  LET f == ErrorFrame(worker.job)
           IN Writes(Parts(f)) /\ Parts(f)[1].frame = f
<1> DEFINE f == ErrorFrame(worker.job)
<1>1. worker.job \in Streams /\ worker.unwritten = <<>>
  BY PipeTypes DEF WriteErrorKind, Ready
<1>2. f \in FrameSet /\ f.stream \in Streams /\ f.kind \in Terminal /\ f.kind \in Kinds
      /\ f.kind # "end"
  BY <1>1, FrameTypes DEF Kinds, Terminal
<1> HIDE DEF f
<1>3. Writes(Parts(f))
  BY <1>1, <1>2, FrameWrites
<1>4. /\ Len(Parts(f)) = IF f.kind = "end" THEN 2 ELSE 3
      /\ \A i \in 1..Len(Parts(f)) : Parts(f)[i].frame = f
  BY <1>2, PartsOf
<1>5. Parts(f)[1].frame = f
  BY <1>2, <1>4
<1> QED
  BY <1>3, <1>5 DEF f

\* and what is left of a frame.
LEMMA RestWrites ==
    ASSUME PipeInv, worker.unwritten # <<>>
    PROVE  Writes(worker.unwritten) /\ worker.job # NoStream
<1> DEFINE u == worker.unwritten
<1>1. /\ Writing /\ u \in Seq(Written) /\ Len(u) \in Nat
      /\ Flow = pipe \o u /\ Len(pipe) \in Nat /\ pipe \in Seq(Written)
      /\ Len(Flow) = Len(pipe) + Len(u)
  BY PipeTypes DEF Flow
<1>2. /\ \A i \in 1..Len(u) : /\ u[i].frame = u[Len(u)].frame
                              /\ Final(u[i]) <=> i = Len(u)
                              /\ u[i].part # "kind"
      /\ worker.job # NoStream
  BY <1>1 DEF Writing
<1>3. ASSUME NEW i \in 1..(Len(u) - 1) PROVE Follows(u[i], u[i + 1])
  <2>1. \A k \in 1..(Len(pipe) + Len(u)) :
           Flow[k] = IF k <= Len(pipe) THEN pipe[k] ELSE u[k - Len(pipe)]
    BY <1>1, ConcatProperties
  <2>2. PICK k \in 1..(Len(Flow) - 1) : k = Len(pipe) + i
    BY <1>1
  <2>3. Flow[k] = u[i] /\ Flow[k + 1] = u[i + 1]
    <3>1. k \in 1..(Len(pipe) + Len(u)) /\ k + 1 \in 1..(Len(pipe) + Len(u))
          /\ ~(k <= Len(pipe)) /\ ~(k + 1 <= Len(pipe))
          /\ k - Len(pipe) = i /\ (k + 1) - Len(pipe) = i + 1
      BY <1>1, <2>2
    <3> QED
      BY <2>1, <3>1
  <2>4. Follows(Flow[k], Flow[k + 1])
    BY <1>1, <2>2 DEF Writing
  <2> QED
    BY <2>3, <2>4
<1> QED
  BY <1>1, <1>2, <1>3 DEF Writes

\* Every step of the worker keeps the invariant.
LEMMA WorkerTaskKeepsPipe ==
    ASSUME PipeInv, WorkerTask
    PROVE  PipeInv'
<1>1. CASE WriteFrameKind
  BY <1>1, FrameKindWrites, WritePartKeepsPipe DEF WriteFrameKind, Ready
<1>2. CASE WriteErrorKind
  BY <1>2, ErrorKindWrites, WritePartKeepsPipe DEF WriteErrorKind, Ready
<1>3. CASE WriteRest
  BY <1>3, RestWrites, WritePartKeepsPipe DEF WriteRest
<1> QED
  BY <1>1, <1>2, <1>3, BeginKeepsPipe DEF WorkerTask

\* It dies with the parts it has not written; what is in the pipe can still be read.
LEMMA CrashKeepsPipe ==
    ASSUME PipeInv, Crash
    PROVE  PipeInv'
<1>1. /\ worker.proc = "up" /\ crashes < MaxCrashes /\ crashes' = crashes + 1
      /\ worker' = [NoWorker EXCEPT !.proc = "dead"]
      /\ UNCHANGED <<lockq, handle, rpc, part, relayed, pipe, torn, chan, hpc, frame,
                     received, watched, gone, cancel, misled>>
  BY DEF Crash, relayVars, handlerVars, signalVars
<1>2. /\ worker' \in [proc : {"none", "up", "dead"}, stdin : Seq(Streams),
                      job : Streams \union {NoStream}, made : Nat, unwritten : Seq(PartSet)]
      /\ worker'.proc = "dead" /\ worker'.job = NoStream /\ worker'.unwritten = <<>>
  BY <1>1, QuietWorkers
<1>3. /\ TypeOK /\ Writing /\ Mutex /\ Ownership /\ Synchronised
      /\ pipe \in Seq(Written) /\ Len(pipe) \in Nat
      /\ worker.unwritten \in Seq(Written) /\ Len(worker.unwritten) \in Nat
      /\ Flow = pipe \o worker.unwritten
      /\ Len(Flow) = Len(pipe) + Len(worker.unwritten)
  BY PipeTypes DEF Flow
<1>4. TypeOK'
  <2>1. crashes' \in 0..MaxCrashes
    BY <1>1, <1>3, SizesAssumption DEF TypeOK
  <2> QED
    BY <1>1, <1>2, <1>3, <2>1 DEF TypeOK
<1>5. Mutex' /\ \A s \in Streams : Reading(s)' <=> Reading(s)
  BY <1>1, WorkerStep
<1>6. Ownership'
  <2>1. worker' = [NoWorker EXCEPT !.proc = worker'.proc]
    BY <1>1, <1>2
  <2> QED
    BY <1>1, <1>2, <1>3, <2>1 DEF Ownership, Unfinished
<1>7. Flow' = pipe
  BY <1>1, <1>2, <1>3, ConcatEmptySeq DEF Flow
<1>8. \A i \in 1..Len(pipe) : Flow[i] = pipe[i]
  <2>1. \A i \in 1..(Len(pipe) + Len(worker.unwritten)) :
           Flow[i] = IF i <= Len(pipe) THEN pipe[i] ELSE worker.unwritten[i - Len(pipe)]
    BY <1>3, ConcatProperties
  <2> QED
    BY <1>3, <2>1
<1>9. Writing'
  <2>1. \A i \in 1..(Len(pipe) - 1) : Follows(pipe[i], pipe[i + 1])
    <3> SUFFICES ASSUME NEW i \in 1..(Len(pipe) - 1) PROVE Follows(pipe[i], pipe[i + 1])
      OBVIOUS
    <3>1. i \in 1..(Len(Flow) - 1) /\ i \in 1..Len(pipe) /\ i + 1 \in 1..Len(pipe)
      BY <1>3
    <3>2. Follows(Flow[i], Flow[i + 1])
      BY <1>3, <3>1 DEF Writing
    <3> QED
      BY <1>8, <3>1, <3>2
  <2>2. <<>> \in Seq(Written) /\ Len(<<>>) = 0
    BY EmptySeq
  <2>3. /\ pipe' \in Seq(Written) /\ worker'.unwritten \in Seq(Written)
        /\ worker'.proc = "dead" /\ worker'.unwritten = <<>> /\ worker'.job = NoStream
    BY <1>1, <1>2, <1>3, <2>2
  <2>4. \A i \in 1..(Len(Flow') - 1) : Follows(Flow'[i], Flow'[i + 1])
    BY <1>7, <2>1
  <2> QED
    BY <2>2, <2>3, <2>4 DEF Writing
<1>10. ASSUME NEW s \in Streams, InSync(s) PROVE InSync(s)'
  <2>1. pipe # <<>> => pipe[1].part = part
    <3> SUFFICES ASSUME pipe # <<>> PROVE pipe[1].part = part
      OBVIOUS
    <3>1. 1 \in 1..Len(pipe) /\ Flow # <<>>
      BY <1>3, EmptySeq
    <3> QED
      BY <1>8, <1>10, <3>1 DEF InSync
  <2>2. \A i \in 1..Len(pipe) : pipe[i].frame.kind \in Terminal /\ Final(pipe[i]) => i = Len(pipe)
    <3> SUFFICES ASSUME NEW i \in 1..Len(pipe), pipe[i].frame.kind \in Terminal, Final(pipe[i])
                 PROVE  i = Len(pipe)
      OBVIOUS
    <3>1. i \in 1..Len(Flow) /\ EndsFlow(i)
      BY <1>3, <1>8 DEF EndsFlow
    <3>2. i = Len(Flow)
      BY <1>10, <3>1 DEF InSync
    <3> QED
      BY <1>3, <3>2
  <2> QED
    BY <1>1, <1>2, <1>7, <2>1, <2>2 DEF InSync, EndsFlow
<1>11. Synchronised'
  BY <1>1, <1>2, <1>3, <1>5, <1>10 DEF Synchronised
<1> QED
  BY <1>4, <1>5, <1>6, <1>9, <1>11 DEF PipeInv

-----------------------------------------------------------------------------
(* The theorems.                                                             *)

\* The invariant holds at the start, with nobody at work,
LEMMA PipeInitially == Init => PipeInv
<1> SUFFICES ASSUME Init PROVE PipeInv
  OBVIOUS
<1>1. /\ lockq = <<>> /\ handle = FALSE /\ worker = NoWorker /\ pipe = <<>> /\ torn = FALSE
      /\ rpc = [s \in Streams |-> "new"] /\ part = "kind"
      /\ relayed = [s \in Streams |-> NoFrame] /\ chan = [s \in Streams |-> <<>>]
      /\ hpc = [s \in Streams |-> "new"] /\ frame = [s \in Streams |-> NoFrame]
      /\ received = [s \in Streams |-> <<>>]
      /\ gone = {} /\ watched = {} /\ cancel = {} /\ misled = {} /\ crashes = 0
  BY DEF Init
<1>2. /\ worker \in [proc : {"none", "up", "dead"}, stdin : Seq(Streams),
                     job : Streams \union {NoStream}, made : Nat, unwritten : Seq(PartSet)]
      /\ worker.proc = "none" /\ worker.job = NoStream /\ worker.unwritten = <<>>
      /\ worker = [NoWorker EXCEPT !.proc = "none"]
  BY <1>1, QuietWorkers
<1>3. /\ <<>> \in Seq(Streams) /\ <<>> \in Seq(PartSet) /\ <<>> \in Seq(FrameSet)
      /\ <<>> \in Seq(Written) /\ Len(<<>>) = 0 /\ IsInjective(<<>>) /\ ToSet(<<>>) = {}
      /\ NoFrame \in FrameSet
  BY EmptySeq, FrameTypes DEF IsInjective, ToSet
<1>4. TypeOK
  <2>1. /\ PipeCap \in Nat \ {0} /\ ChanCap \in Nat \ {0} /\ MaxCrashes \in Nat
        /\ Len(pipe) <= PipeCap /\ crashes \in 0..MaxCrashes
    BY <1>1, <1>3, SizesAssumption
  <2>2. /\ chan \in [Streams -> Seq(FrameSet)] /\ received \in [Streams -> Seq(FrameSet)]
        /\ \A s \in Streams : Len(chan[s]) <= ChanCap
    BY <1>1, <1>3, <2>1
  <2>3. /\ rpc \in [Streams -> {"new", "lock", "write", "read", "send", "done"}]
        /\ relayed \in [Streams -> FrameSet] /\ frame \in [Streams -> FrameSet]
        /\ hpc \in [Streams -> {"new", "recv", "write", "done"}]
        /\ part \in {"kind", "len", "payload"} /\ handle \in BOOLEAN /\ torn \in BOOLEAN
    BY <1>1, <1>3
  <2>4. lockq \in Seq(Streams) /\ IsInjective(lockq) /\ pipe \in Seq(PartSet)
    BY <1>1, <1>3
  <2>5. /\ gone \subseteq Streams /\ watched \subseteq Streams /\ cancel \subseteq gone
        /\ misled \subseteq Streams
    BY <1>1
  <2> QED
    BY <1>2, <2>1, <2>2, <2>3, <2>4, <2>5 DEF TypeOK
<1>5. Mutex
  BY <1>1, <1>3 DEF Mutex, Working
<1>6. Ownership
  BY <1>1, <1>2 DEF Ownership, Unfinished
<1>7. Flow = <<>>
  BY <1>1, <1>2, <1>3, ConcatEmptySeq DEF Flow
<1>8. Writing
  BY <1>1, <1>2, <1>3, <1>7 DEF Writing
<1>9. Synchronised
  BY <1>1, <1>2 DEF Synchronised, Reading
<1> QED
  BY <1>4, <1>5, <1>6, <1>8, <1>9 DEF PipeInv

\* and every step keeps it.
LEMMA PipeStep ==
    ASSUME PipeInv, [Next]_vars
    PROVE  PipeInv'
<1>1. CASE UNCHANGED vars
  <2>1. UNCHANGED <<lockq, handle, rpc, part, relayed, worker, pipe, torn, chan, hpc, frame,
                    received, watched, gone, cancel, misled, crashes>>
    BY <1>1 DEF vars, relayVars, handlerVars, signalVars
  <2>2. TypeOK'
    BY <2>1 DEF PipeInv, TypeOK
  <2> QED
    BY <2>1, <2>2, PipeUntouched
<1>2. ASSUME NEW s \in Streams, RelayTask(s) PROVE PipeInv'
  BY <1>2, SpawnKeepsPipe, BeforeWriteKeepsPipe, RequestKeepsPipe, WorkerLostKeepsPipe,
     CancelKeepsPipe, ReadPartKeepsPipe, MisreadKeepsPipe, SendKeepsPipe DEF RelayTask
<1>3. ASSUME NEW s \in Streams,
             Submit(s) \/ HangUp(s) \/ WatcherSeesEof(s) \/ HandlerTask(s)
      PROVE  PipeInv'
  BY <1>3, SubmitKeepsPipe, HandlerKeepsPipe
<1>4. Ended \/ Starved => UNCHANGED vars
  BY DEF Ended, Starved
<1> QED
  BY <1>1, <1>2, <1>3, <1>4, WorkerTaskKeepsPipe, CrashKeepsPipe DEF Next

\* PipeInv is inductive: it holds in every behaviour of streams, clients and worker.
THEOREM PipeInvariance == Spec => []PipeInv
<1>1. PipeInv /\ [Next]_vars => PipeInv'
  BY PipeStep
<1> QED
  BY PipeInitially, <1>1, PTL DEF Spec

\* The pipe and the channels keep within their capacities, and only those that hung
\* up are cancelled.
THEOREM TypeCorrect == Spec => []TypeOK
<1>1. PipeInv => TypeOK
  BY DEF PipeInv
<1> QED
  BY PipeInvariance, <1>1, PTL

\* Whoever gets the mutex finds the worker idle and its pipe empty, unless a
\* cancellation fell into the middle of a frame: stream_relay drains what an absent
\* client does not take, for every number and length of streams.
THEOREM PipeStaysDrained == Spec => []DrainedUnlessTorn
<1>1. PipeInv => DrainedUnlessTorn
  <2> SUFFICES ASSUME PipeInv, Released, WorkerKept, ~torn PROVE Drained
    BY DEF DrainedUnlessTorn
  <2>1. \A s \in Streams : ~Reading(s)
    <3> SUFFICES ASSUME NEW s \in Streams, rpc[s] \in Working PROVE FALSE
      BY DEF Reading, Working
    <3>1. lockq # <<>> /\ Head(lockq) = s
      BY DEF PipeInv, Mutex, Holds
    <3> QED
      BY <3>1 DEF Released, Working
  <2> QED
    BY <2>1 DEF PipeInv, Synchronised, WorkerKept
<1> QED
  BY PipeInvariance, <1>1, PTL

-----------------------------------------------------------------------------
(* The frames of a stream, in their order: the second part of the inductive  *)
(* invariant.                                                                *)

\* Every frame of a stream that its task has read, in order: those the client got
\* and those on their way to it.
One(is, f) == IF is THEN <<f>> ELSE <<>>
Line(s) == (received[s] \o One(hpc[s] = "write", frame[s]))
              \o (chan[s] \o One(rpc[s] = "send", relayed[s]))

\* The frames that may be the k-th of a stream, and those that may follow f in it.
May(s, k, f) == f = ErrorFrame(s) \/ (k \in 1..Len(Generation(s)) /\ f = Generation(s)[k])
Succeeds(s, f, g) ==
    \E k \in 1..(Len(Generation(s)) - 1) : f = Generation(s)[k] /\ May(s, k + 1, g)

\* The streams whose clients are there, and that were not read from a torn pipe.
Honest == Streams \ (gone \union misled)

\* What has been read of a stream is a beginning of it.
Lined(s) ==
    /\ \A i \in 1..Len(Line(s)) : May(s, i, Line(s)[i])
    /\ \A i \in 1..Len(Line(s)) : Line(s)[i].kind \in Terminal => i = Len(Line(s))
    /\ rpc[s] \in {"new", "lock", "write"} => Line(s) = <<>>
    /\ Reading(s) => \A i \in 1..Len(Line(s)) : Line(s)[i].kind \notin Terminal
    /\ hpc[s] = "done" => rpc[s] = "done"

\* What is in the pipe goes on where that stops, and the worker goes on with
\* what comes after what is in the pipe.
Ahead(s) ==
    /\ Flow # <<>> => May(s, Len(Line(s)) + 1, Flow[1].frame)
    /\ \A i \in 1..(Len(Flow) - 1) :
          Final(Flow[i]) => Succeeds(s, Flow[i].frame, Flow[i + 1].frame)
    /\ worker.stdin # <<>> => Line(s) = <<>>
    /\ worker.job # NoStream =>
          /\ worker.job = s
          /\ Flow = <<>> => worker.made = Len(Line(s))
          /\ Flow # <<>> =>
                \/ Flow[Len(Flow)].frame = ErrorFrame(s)
                \/ /\ worker.made \in 1..Len(Generation(s))
                   /\ Flow[Len(Flow)].frame = Generation(s)[worker.made]

InLine(s) == Lined(s) /\ (~torn /\ Reading(s) => Ahead(s))
LineInv == \A s \in Honest : InLine(s)

\* The frames of a generation are distinct.
LEMMA GenerationDistinct ==
    ASSUME NEW s \in Streams, NEW i \in 1..Len(Generation(s)), NEW j \in 1..Len(Generation(s)),
           Generation(s)[i] = Generation(s)[j]
    PROVE  i = j
<1> DEFINE g == Generation(s)
<1>1. /\ Len(g) = IF Chunks[s] = 0 THEN 1 ELSE Chunks[s] + 2
      /\ Len(g) \in Nat \ {0} /\ Chunks[s] \in Nat
      /\ \A k \in 1..Len(g) : g[k] = IF k = Len(g) THEN Frame(s, "end", 0)
                                     ELSE IF k = 1 THEN Frame(s, "header", 0)
                                     ELSE Frame(s, "chunk", k - 1)
  BY GenerationFrames
<1> HIDE DEF g
<1>2. ASSUME NEW k \in 1..Len(g)
      PROVE  /\ g[k].kind = IF k = Len(g) THEN "end" ELSE IF k = 1 THEN "header" ELSE "chunk"
             /\ g[k].n = IF k = Len(g) \/ k = 1 THEN 0 ELSE k - 1
  <2> DEFINE kind == IF k = Len(g) THEN "end" ELSE IF k = 1 THEN "header" ELSE "chunk"
             n == IF k = Len(g) \/ k = 1 THEN 0 ELSE k - 1
  <2>1. g[k] = Frame(s, kind, n)
    BY <1>1
  <2>2. g[k].kind = kind /\ g[k].n = n
    BY <2>1 DEF Frame
  <2> QED
    BY <2>2
<1>3. g[i].kind = g[j].kind /\ g[i].n = g[j].n
  BY DEF g
<1> QED
  BY <1>1, <1>2, <1>3 DEF g

\* The pieces of a line.
LEMMA LineTypes ==
    ASSUME TypeOK, NEW s \in Streams
    PROVE  /\ received[s] \in Seq(FrameSet) /\ chan[s] \in Seq(FrameSet)
           /\ frame[s] \in FrameSet /\ relayed[s] \in FrameSet
           /\ \A is \in BOOLEAN : /\ One(is, frame[s]) \in Seq(FrameSet)
                                  /\ One(is, relayed[s]) \in Seq(FrameSet)
           /\ Line(s) \in Seq(FrameSet) /\ Len(Line(s)) \in Nat
<1>1. /\ received[s] \in Seq(FrameSet) /\ chan[s] \in Seq(FrameSet)
      /\ frame[s] \in FrameSet /\ relayed[s] \in FrameSet
  BY DEF TypeOK
<1>2. \A is \in BOOLEAN : /\ One(is, frame[s]) \in Seq(FrameSet)
                          /\ One(is, relayed[s]) \in Seq(FrameSet)
  BY <1>1 DEF One
<1>3. /\ One(hpc[s] = "write", frame[s]) \in Seq(FrameSet)
      /\ One(rpc[s] = "send", relayed[s]) \in Seq(FrameSet)
  BY <1>2
<1>4. /\ received[s] \o One(hpc[s] = "write", frame[s]) \in Seq(FrameSet)
      /\ chan[s] \o One(rpc[s] = "send", relayed[s]) \in Seq(FrameSet)
  BY <1>1, <1>3, ConcatProperties
<1>5. Line(s) \in Seq(FrameSet)
  BY <1>4, ConcatProperties DEF Line
<1>6. Len(Line(s)) \in Nat
  BY <1>5, LenProperties
<1> QED
  BY <1>1, <1>2, <1>5, <1>6

\* The handler takes a frame from the channel: the line is the same.
LEMMA RecvLine ==
    ASSUME TypeOK, NEW s \in Streams, Recv(s)
    PROVE  Line(s)' = Line(s)
<1> DEFINE r == received[s]
           c == chan[s]
           o == One(rpc[s] = "send", relayed[s])
           h == Head(c)
<1>1. /\ hpc[s] = "recv" /\ c # <<>> /\ frame'[s] = h /\ chan'[s] = Tail(c)
      /\ hpc'[s] = "write" /\ UNCHANGED <<received, rpc, relayed>>
  BY DEF Recv, TypeOK, relayVars
<1>2. r \in Seq(FrameSet) /\ c \in Seq(FrameSet) /\ o \in Seq(FrameSet)
  BY LineTypes
<1>3. Line(s) = (r \o <<>>) \o (c \o o) /\ Line(s)' = (r \o <<h>>) \o (Tail(c) \o o)
  BY <1>1 DEF Line, One
<1> HIDE DEF r, o, c, h
<1>4. <<h>> \in Seq(FrameSet) /\ Tail(c) \in Seq(FrameSet) /\ <<h>> \o Tail(c) = c
  BY <1>1, <1>2, HeadFirst DEF h
<1>5. Tail(c) \o o \in Seq(FrameSet) /\ c \o o \in Seq(FrameSet)
  BY <1>2, <1>4, ConcatProperties
<1>6. (r \o <<h>>) \o (Tail(c) \o o) = r \o (<<h>> \o (Tail(c) \o o))
  <2> DEFINE x == <<h>>
             y == Tail(c) \o o
  <2>1. r \in Seq(FrameSet) /\ x \in Seq(FrameSet) /\ y \in Seq(FrameSet)
    BY <1>2, <1>4, <1>5
  <2> HIDE DEF x, y
  <2>2. (r \o x) \o y = r \o (x \o y)
    BY <2>1, ConcatAssociative
  <2> QED
    BY <2>2 DEF x, y
<1>7. <<h>> \o (Tail(c) \o o) = (<<h>> \o Tail(c)) \o o
  BY <1>2, <1>4, ConcatAssociative
<1>8. r \o <<>> = r
  BY <1>2, ConcatEmptySeq
<1> QED
  BY <1>3, <1>4, <1>6, <1>7, <1>8

\* A client that is there gets the frame: the line is the same.
LEMMA WriteLine ==
    ASSUME TypeOK, NEW s \in Streams, WriteFrame(s), s \notin gone
    PROVE  /\ Line(s)' = Line(s)
           /\ received'[s] = Append(received[s], frame[s])
           /\ Line(s) = Append(received[s], frame[s])
                           \o (chan[s] \o One(rpc[s] = "send", relayed[s]))
<1> DEFINE r == received[s]
           f == frame[s]
           x == chan[s] \o One(rpc[s] = "send", relayed[s])
<1>1. /\ hpc[s] = "write" /\ received'[s] = Append(r, f) /\ hpc'[s] # "write"
      /\ UNCHANGED <<chan, rpc, relayed>>
  BY DEF WriteFrame, TypeOK, relayVars
<1>2. /\ r \in Seq(FrameSet) /\ f \in FrameSet
  BY LineTypes
<1>3. Line(s) = (r \o <<f>>) \o x /\ Line(s)' = (Append(r, f) \o <<>>) \o x
  BY <1>1 DEF Line, One
<1>4. Append(r, f) = r \o <<f>> /\ Append(r, f) \in Seq(FrameSet)
  BY <1>2, AppendIsConcat, AppendProperties
<1>5. Append(r, f) \o <<>> = Append(r, f)
  BY <1>4, ConcatEmptySeq
<1> QED
  BY <1>1, <1>3, <1>4, <1>5

\* The task puts the frame into the channel: the line is the same.
LEMMA SendLine ==
    ASSUME TypeOK, NEW s \in Streams, Send(s)
    PROVE  Line(s)' = Line(s)
<1> DEFINE q == received[s] \o One(hpc[s] = "write", frame[s])
           c == chan[s]
           g == relayed[s]
<1>1. /\ rpc[s] = "send" /\ rpc'[s] # "send" /\ chan'[s] = Append(c, g)
      /\ UNCHANGED <<received, hpc, frame>>
  BY DEF Send, Sent, Relay, TypeOK, handlerVars
<1>2. c \in Seq(FrameSet) /\ g \in FrameSet
  BY LineTypes
<1>3. Line(s) = q \o (c \o <<g>>) /\ Line(s)' = q \o (Append(c, g) \o <<>>)
  BY <1>1 DEF Line, One
<1>4. Append(c, g) = c \o <<g>> /\ Append(c, g) \in Seq(FrameSet)
  BY <1>2, AppendIsConcat, AppendProperties
<1>5. Append(c, g) \o <<>> = Append(c, g)
  BY <1>4, ConcatEmptySeq
<1> QED
  BY <1>3, <1>4, <1>5

\* The task has read a frame, or made one of an error: it is the last of the line.
LEMMA RelaysLine ==
    ASSUME TypeOK, NEW s \in Streams, NEW f \in FrameSet, rpc[s] # "send",
           rpc' = [rpc EXCEPT ![s] = "send"], relayed' = [relayed EXCEPT ![s] = f],
           UNCHANGED <<received, hpc, frame, chan>>
    PROVE  Line(s)' = Append(Line(s), f)
<1> DEFINE q == received[s] \o One(hpc[s] = "write", frame[s])
           c == chan[s]
<1>1. rpc'[s] = "send" /\ relayed'[s] = f
  BY DEF TypeOK
<1>2. c \in Seq(FrameSet) /\ q \in Seq(FrameSet)
  <2>1. received[s] \in Seq(FrameSet) /\ One(hpc[s] = "write", frame[s]) \in Seq(FrameSet)
        /\ c \in Seq(FrameSet)
    BY LineTypes
  <2> QED
    BY <2>1, ConcatProperties
<1>3. Line(s) = q \o (c \o <<>>) /\ Line(s)' = q \o (c \o <<f>>)
  BY <1>1 DEF Line, One
<1> HIDE DEF q, c
<1>4. c \o <<>> = c /\ q \o c \in Seq(FrameSet) /\ <<f>> \in Seq(FrameSet)
  BY <1>2, ConcatEmptySeq, ConcatProperties
<1>5. q \o (c \o <<f>>) = (q \o c) \o <<f>>
  BY <1>2, <1>4, ConcatAssociative
<1>6. Append(q \o c, f) = (q \o c) \o <<f>>
  BY <1>4, AppendIsConcat
<1> QED
  BY <1>3, <1>4, <1>5, <1>6

\* What a handler writes to a client that is there is the frame that comes next; a
\* terminal one is the last of its task.
LEMMA WritesNext ==
    ASSUME TypeOK, NEW s \in Streams, Lined(s), WriteFrame(s), s \notin gone
    PROVE  /\ \A i \in 1..Len(received[s]) : /\ received[s][i].kind \notin Terminal
                                             /\ May(s, i, received[s][i])
           /\ May(s, Len(received[s]) + 1, frame[s])
           /\ frame[s].kind \in Terminal => rpc[s] = "done"
<1> DEFINE r == received[s]
           f == frame[s]
           o == One(rpc[s] = "send", relayed[s])
           x == chan[s] \o o
           a == Append(r, f)
           l == Line(s)
           k == Len(r) + 1
<1>1. /\ r \in Seq(FrameSet) /\ f \in FrameSet /\ chan[s] \in Seq(FrameSet)
      /\ o \in Seq(FrameSet)
  BY LineTypes
<1>2. l = a \o x
  BY WriteLine
<1>3. x \in Seq(FrameSet) /\ Len(x) = Len(chan[s]) + Len(o)
      /\ Len(chan[s]) \in Nat /\ Len(o) \in Nat /\ Len(r) \in Nat
  BY <1>1, ConcatProperties, LenProperties
<1>4. /\ a \in Seq(FrameSet) /\ Len(a) = k /\ a[k] = f
      /\ \A i \in 1..Len(r) : a[i] = r[i]
  BY <1>1, AppendProperties
<1>5. rpc[s] = "send" => Len(o) = 1
  BY DEF One
<1> HIDE DEF x, a, o, r, f, l
<1>6. /\ a \o x \in Seq(FrameSet) /\ Len(a \o x) = Len(a) + Len(x)
      /\ \A i \in 1..(Len(a) + Len(x)) :
            (a \o x)[i] = IF i <= Len(a) THEN a[i] ELSE x[i - Len(a)]
  <2>1. a \in Seq(FrameSet)
    BY <1>4
  <2>2. x \in Seq(FrameSet)
    BY <1>3
  <2> HIDE DEF k
  <2> QED
    BY <2>1, <2>2, ConcatProperties
<1>7. Len(l) = k + Len(x) /\ Len(x) \in Nat
  BY <1>2, <1>3, <1>4, <1>6
<1>k. Len(r) \in Nat /\ k = Len(r) + 1
  BY <1>3
<1> HIDE DEF k
<1>8. ASSUME NEW i \in 1..k PROVE l[i] = a[i] /\ i \in 1..Len(l)
  <2>1. i \in 1..(Len(a) + Len(x)) /\ i <= Len(a) /\ i \in 1..Len(l)
    BY <1>4, <1>7, <1>k
  <2> QED
    BY <1>2, <1>6, <2>1
<1>9. k \in 1..k /\ k \in 1..Len(l) /\ l[k] = f
  BY <1>4, <1>7, <1>8, <1>k
<1>10. /\ \A i \in 1..Len(l) : May(s, i, l[i])
       /\ \A i \in 1..Len(l) : l[i].kind \in Terminal => i = Len(l)
       /\ rpc[s] \in {"new", "lock", "write"} => l = <<>>
       /\ Reading(s) => \A i \in 1..Len(l) : l[i].kind \notin Terminal
  BY DEF Lined, l
<1>11. ASSUME NEW i \in 1..Len(r) PROVE r[i].kind \notin Terminal /\ May(s, i, r[i])
  <2>1. i \in 1..k /\ i # Len(l) /\ l[i] = r[i] /\ i \in 1..Len(l)
    BY <1>4, <1>7, <1>8, <1>k
  <2> QED
    BY <1>10, <2>1
<1>12. ASSUME f.kind \in Terminal PROVE rpc[s] = "done"
  <2>1. k = Len(l)
    BY <1>9, <1>10, <1>12
  <2> DEFINE c == chan[s]
  <2>7. Len(x) = 0
    BY <1>7, <1>k, <2>1
  <2>8. Len(x) = Len(c) + Len(o) /\ Len(c) \in Nat /\ Len(o) \in Nat
    BY <1>3
  <2> HIDE DEF c
  <2>2. Len(o) = 0
    BY <2>7, <2>8
  <2>3. rpc[s] # "send"
    BY <1>5, <2>2
  <2>4. rpc[s] # "read"
    BY <1>9, <1>10, <1>12 DEF Reading
  <2>5. l # <<>>
    BY <1>7, <1>k, EmptySeq
  <2>6. rpc[s] \in {"new", "lock", "write", "read", "send", "done"}
    BY DEF TypeOK
  <2> QED
    BY <1>10, <2>3, <2>4, <2>5, <2>6
<1>13. May(s, k, f)
  BY <1>9, <1>10
<1> QED
  BY <1>11, <1>12, <1>13, <1>k DEF r, f

\* A stream stays in line when its line and the pipe are the same.
LEMMA StaysInLine ==
    ASSUME NEW t \in Streams, InLine(t), Line(t)' = Line(t), rpc'[t] = rpc[t],
           relayed'[t] = relayed[t], hpc'[t] = "done" => rpc'[t] = "done",
           UNCHANGED <<worker, pipe, torn>> \/ ~Reading(t)
    PROVE  InLine(t)'
<1>1. Reading(t)' <=> Reading(t)
  BY DEF Reading
<1>2. Lined(t)'
  BY <1>1 DEF Lined, InLine
<1>3. CASE ~Reading(t)
  BY <1>1, <1>2, <1>3 DEF InLine
<1>4. CASE UNCHANGED <<worker, pipe, torn>>
  <2>1. Flow' = Flow
    BY <1>4 DEF Flow
  <2>2. Ahead(t) => Ahead(t)'
    BY <1>4, <2>1 DEF Ahead
  <2> QED
    BY <1>1, <1>2, <1>4, <2>2 DEF InLine
<1> QED
  BY <1>3, <1>4

\* So does every stream but the one that does something with the mutex.
LEMMA OthersInLine ==
    ASSUME PipeInv, NEW s \in Streams, NEW t \in Streams \ {s}, InLine(t),
           received'[t] = received[t], hpc'[t] = hpc[t], frame'[t] = frame[t],
           chan'[t] = chan[t], rpc'[t] = rpc[t], relayed'[t] = relayed[t],
           Holds(s) \/ UNCHANGED <<worker, pipe, torn>>
    PROVE  InLine(t)'
<1>1. Line(t)' = Line(t)
  BY DEF Line
<1>2. hpc'[t] = "done" => rpc'[t] = "done"
  BY DEF InLine, Lined
<1>3. Holds(s) => ~Reading(t)
  BY PipeTypes, OneWorks
<1> QED
  BY <1>1, <1>2, <1>3, StaysInLine

\* Steps of clients and handlers, and a new stream.
LEMMA HandlerKeepsLine ==
    ASSUME PipeInv, LineInv, NEW s \in Streams,
           Submit(s) \/ HangUp(s) \/ WatcherSeesEof(s) \/ HandlerTask(s)
    PROVE  LineInv'
<1>1. TypeOK
  BY PipeTypes
<1>2. /\ UNCHANGED <<worker, pipe, torn, misled, relayed>> /\ gone \subseteq gone'
      /\ \A t \in Streams \ {s} :
            /\ received'[t] = received[t] /\ hpc'[t] = hpc[t] /\ frame'[t] = frame[t]
            /\ chan'[t] = chan[t] /\ rpc'[t] = rpc[t] /\ relayed'[t] = relayed[t]
  <2>1. CASE Submit(s) \/ HangUp(s) \/ WatcherSeesEof(s)
    BY <1>1, <2>1 DEF Submit, HangUp, WatcherSeesEof, TypeOK, relayVars, handlerVars, signalVars
  <2>2. CASE Recv(s)
    BY <1>1, <2>2 DEF Recv, TypeOK, relayVars, handlerVars, signalVars
  <2>3. CASE WriteFrame(s)
    <3>1. /\ received' \in {received, [received EXCEPT ![s] = Append(@, frame[s])]}
          /\ \E at \in {"done", "recv"} : hpc' = [hpc EXCEPT ![s] = at]
          /\ frame' = [frame EXCEPT ![s] = NoFrame]
          /\ UNCHANGED <<lockq, rpc, relayed, worker, pipe, torn, chan, gone, misled>>
      BY <2>3 DEF WriteFrame, relayVars, signalVars
    <3> QED
      BY <1>1, <3>1 DEF TypeOK
  <2>4. CASE WriteFails(s)
    BY <1>1, <2>4 DEF WriteFails, TypeOK, relayVars, handlerVars, signalVars
  <2> QED
    BY <2>1, <2>2, <2>3, <2>4 DEF HandlerTask
<1> SUFFICES ASSUME NEW t \in Streams, t \in Honest' PROVE InLine(t)'
  BY DEF LineInv, Honest
<1>3. InLine(t)
  BY <1>2 DEF Honest, LineInv
<1>4. CASE t # s
  BY <1>2, <1>3, <1>4, OthersInLine
<1>5. CASE t = s
  <2>1. s \notin gone' /\ s \notin gone
    BY <1>2, <1>5 DEF Honest
  <2>2. CASE Submit(s)
    <3>1. /\ rpc[s] = "new" /\ hpc'[s] = "recv" /\ hpc[s] = "new" /\ rpc'[s] = "lock"
          /\ UNCHANGED <<received, frame, chan, relayed>>
      BY <1>1, <2>2, PipeTypes DEF Submit, TypeOK, Mutex
    <3>2. Line(s)' = Line(s) /\ Line(s) = <<>>
      BY <1>3, <1>5, <3>1 DEF Line, InLine, Lined
    <3>3. ~Reading(s)'
      BY <3>1 DEF Reading
    <3>4. Len(<<>>) = 0
      BY EmptySeq
    <3> QED
      BY <1>3, <1>5, <3>1, <3>2, <3>3, <3>4 DEF InLine, Lined
  <2>3. CASE HangUp(s)
    BY <2>1, <2>3 DEF HangUp
  <2>4. CASE WatcherSeesEof(s)
    BY <2>1, <2>4 DEF WatcherSeesEof
  <2>5. CASE Recv(s)
    <3>1. Line(s)' = Line(s)
      BY <1>1, <2>5, RecvLine
    <3>2. hpc'[s] = "write" /\ rpc' = rpc
      BY <1>1, <2>5 DEF Recv, TypeOK, relayVars
    <3> QED
      BY <1>2, <1>3, <1>5, <3>1, <3>2, StaysInLine
  <2>6. CASE WriteFrame(s)
    <3>1. Line(s)' = Line(s)
      BY <1>1, <2>1, <2>6, WriteLine
    <3>2. Lined(s)
      BY <1>3, <1>5 DEF InLine
    <3>3. frame[s].kind \in Terminal => rpc[s] = "done"
      BY <1>1, <2>1, <2>6, <3>2, WritesNext
    <3>4. hpc'[s] = "done" => frame[s].kind \in Terminal
      BY <1>1, <2>6 DEF WriteFrame, TypeOK
    <3>5. rpc' = rpc
      BY <2>6 DEF WriteFrame, relayVars
    <3> QED
      BY <1>2, <1>3, <1>5, <3>1, <3>3, <3>4, <3>5, StaysInLine
  <2>7. CASE WriteFails(s)
    BY <2>1, <2>7 DEF WriteFails
  <2> QED
    BY <2>2, <2>3, <2>4, <2>5, <2>6, <2>7 DEF HandlerTask
<1> QED
  BY <1>4, <1>5

\* Only the task with the mutex changes; the other streams stay in line.
LEMMA TaskKeepsOthers ==
    ASSUME PipeInv, LineInv, NEW s \in Streams, RelayTask(s), s \in Honest' => InLine(s)'
    PROVE  LineInv'
<1>1. TypeOK /\ Mutex
  BY PipeTypes
<1>2. Holds(s)
  BY <1>1 DEF RelayTask, Spawn, SpawnFailed, WorkerAlive, WriteRequest, WorkerLost, Cancel,
              ReadPart, Misread, MisreadTooLarge, Send, SendLost, Mutex, Working
<1>3. /\ UNCHANGED <<received, hpc, frame, gone>> /\ misled \subseteq misled'
      /\ \E x : rpc' \in {rpc, [rpc EXCEPT ![s] = x]}
      /\ \E x : relayed' \in {relayed, [relayed EXCEPT ![s] = x]}
      /\ \E x : chan' \in {chan, [chan EXCEPT ![s] = x]}
  <2>1. CASE Spawn(s) \/ SpawnFailed(s) \/ WorkerAlive(s) \/ WriteRequest(s) \/ WorkerLost(s)
    BY <2>1 DEF Spawn, SpawnFailed, WorkerAlive, WriteRequest, WorkerLost, Relays, Relay,
                handlerVars, signalVars
  <2>2. CASE Cancel(s) \/ ReadPart(s) \/ Misread(s) \/ MisreadTooLarge(s)
    BY <2>2 DEF Cancel, ReadPart, Misread, MisreadTooLarge, Relays, Relay, handlerVars, signalVars
  <2>3. CASE Send(s) \/ SendLost(s)
    BY <2>3 DEF Send, SendLost, Sent, Relay, handlerVars, signalVars
  <2> QED
    BY <2>1, <2>2, <2>3 DEF RelayTask
<1> SUFFICES ASSUME NEW t \in Streams \ {s}, t \in Honest' PROVE InLine(t)'
  BY DEF LineInv, Honest
<1>4. InLine(t)
  BY <1>3 DEF Honest, LineInv
<1>5. rpc'[t] = rpc[t] /\ relayed'[t] = relayed[t] /\ chan'[t] = chan[t]
  BY <1>1, <1>3 DEF TypeOK
<1> QED
  BY <1>2, <1>3, <1>4, <1>5, OthersInLine

\* A frame that may be next is put at the end of the line.
LEMMA Extends ==
    ASSUME TypeOK, NEW s \in Streams, Lined(s), NEW f \in FrameSet, rpc[s] # "send",
           \A i \in 1..Len(Line(s)) : Line(s)[i].kind \notin Terminal,
           May(s, Len(Line(s)) + 1, f), hpc[s] # "done",
           rpc' = [rpc EXCEPT ![s] = "send"], relayed' = [relayed EXCEPT ![s] = f],
           UNCHANGED <<received, hpc, frame, chan>>
    PROVE  Lined(s)' /\ Len(Line(s))' = Len(Line(s)) + 1
<1> DEFINE l == Line(s)
           n == Len(l)
           m == Append(l, f)
<1>1. l \in Seq(FrameSet) /\ n \in Nat
  BY LineTypes
<1>2. Line(s)' = m
  BY RelaysLine
<1>3. /\ Len(m) = n + 1 /\ m[n + 1] = f /\ \A i \in 1..n : m[i] = l[i]
  BY <1>1, AppendProperties
<1>4. /\ rpc'[s] = "send" /\ relayed'[s] = f /\ hpc'[s] # "done"
  BY DEF TypeOK
<1>5. Reading(s)' => f.kind \notin Terminal
  BY <1>4 DEF Reading
<1>6. \A i \in 1..n : May(s, i, l[i]) /\ l[i].kind \notin Terminal
  BY DEF Lined
<1>7. May(s, n + 1, f)
  OBVIOUS
<1> HIDE DEF l, m
<1>8. ASSUME NEW i \in 1..(n + 1)
      PROVE  May(s, i, m[i]) /\ (m[i].kind \in Terminal => i = n + 1)
             /\ (Reading(s)' => m[i].kind \notin Terminal)
  <2>1. CASE i = n + 1
    BY <1>3, <1>5, <1>7, <2>1
  <2>2. CASE i # n + 1
    <3>1. i \in 1..n
      BY <1>1, <2>2
    <3> QED
      BY <1>3, <1>6, <3>1
  <2> QED
    BY <2>1, <2>2
<1>9. Lined(s)'
  BY <1>2, <1>3, <1>4, <1>8 DEF Lined
<1> QED
  BY <1>2, <1>3, <1>9 DEF l

\* An error frame may always be next, and is the last.
LEMMA ErrorKeepsLine ==
    ASSUME PipeInv, LineInv, NEW s \in Streams, RelayTask(s), rpc[s] \in {"lock", "write", "read"},
           Relays(s, ErrorFrame(s)), UNCHANGED <<received, hpc, frame, chan, gone>>,
           misled \subseteq misled'
    PROVE  LineInv'
<1>1. TypeOK
  BY PipeTypes
<1>2. ErrorFrame(s) \in FrameSet /\ ErrorFrame(s).kind \in Terminal
  BY FrameTypes DEF Terminal
<1>3. rpc' = [rpc EXCEPT ![s] = "send"] /\ relayed' = [relayed EXCEPT ![s] = ErrorFrame(s)]
  BY DEF Relays, Relay
<1>4. ASSUME s \in Honest' PROVE InLine(s)'
  <2>1. InLine(s) /\ Lined(s) /\ hpc[s] # "done"
    BY <1>4 DEF Honest, LineInv, InLine, Lined
  <2>2. \A i \in 1..Len(Line(s)) : Line(s)[i].kind \notin Terminal
    <3>1. CASE rpc[s] = "read"
      BY <2>1, <3>1 DEF Lined, Reading
    <3>2. CASE rpc[s] # "read"
      <4>1. Line(s) = <<>> /\ Len(<<>>) = 0
        BY <2>1, <3>2, EmptySeq DEF Lined
      <4> QED
        BY <4>1
    <3> QED
      BY <3>1, <3>2
  <2>3. May(s, Len(Line(s)) + 1, ErrorFrame(s))
    BY DEF May
  <2>4. Lined(s)'
    BY <1>1, <1>2, <1>3, <2>1, <2>2, <2>3, Extends
  <2>5. ~Reading(s)'
    BY <1>1, <1>2, <1>3 DEF Reading, TypeOK
  <2> QED
    BY <2>4, <2>5 DEF InLine
<1> QED
  BY <1>4, TaskKeepsOthers

\* The steps up to the reading of the stream, and those that fail.
LEMMA RequestKeepsLine ==
    ASSUME PipeInv, LineInv, NEW s \in Streams,
           Spawn(s) \/ SpawnFailed(s) \/ WorkerAlive(s) \/ WriteRequest(s) \/ WorkerLost(s)
              \/ Cancel(s) \/ Misread(s) \/ MisreadTooLarge(s)
    PROVE  LineInv'
<1>1. TypeOK /\ RelayTask(s)
  BY PipeTypes DEF RelayTask
<1>2. CASE Spawn(s)
  <2>1. /\ UNCHANGED <<received, hpc, frame, chan, rpc, relayed, gone, misled>>
        /\ rpc[s] = "lock"
    BY <1>2 DEF Spawn, handlerVars, signalVars
  <2>2. ASSUME s \in Honest' PROVE InLine(s)'
    <3>1. InLine(s) /\ Line(s)' = Line(s) /\ ~Reading(s)
      BY <2>1, <2>2 DEF Honest, LineInv, Line, Reading
    <3> QED
      BY <2>1, <3>1, StaysInLine DEF InLine, Lined
  <2> QED
    BY <1>1, <2>2, TaskKeepsOthers
<1>3. CASE SpawnFailed(s)
  BY <1>1, <1>3, ErrorKeepsLine DEF SpawnFailed, handlerVars, signalVars
<1>4. CASE WorkerLost(s)
  BY <1>1, <1>4, ErrorKeepsLine DEF WorkerLost, handlerVars, signalVars
<1>5. CASE MisreadTooLarge(s)
  BY <1>1, <1>5, ErrorKeepsLine DEF MisreadTooLarge, handlerVars, signalVars
<1>6. CASE Misread(s)
  BY <1>1, <1>6, TaskKeepsOthers DEF Misread, Honest
<1>7. CASE Cancel(s)
  <2>1. s \in gone /\ gone' = gone
    BY <1>1, <1>7 DEF Cancel, TypeOK
  <2> QED
    BY <1>1, <2>1, TaskKeepsOthers DEF Honest
<1>8. CASE WorkerAlive(s)
  <2>1. /\ rpc[s] = "lock" /\ rpc' = [rpc EXCEPT ![s] = "write"]
        /\ UNCHANGED <<received, hpc, frame, chan, relayed, gone, misled>>
    BY <1>8 DEF WorkerAlive, Relay, handlerVars, signalVars
  <2>2. ASSUME s \in Honest' PROVE InLine(s)'
    <3>1. InLine(s) /\ Line(s) = <<>> /\ rpc'[s] = "write"
      BY <1>1, <2>1, <2>2 DEF Honest, LineInv, InLine, Lined, TypeOK
    <3>2. Line(s)' = Line(s) /\ ~Reading(s)' /\ Len(<<>>) = 0 /\ hpc'[s] # "done"
      BY <2>1, <3>1, EmptySeq DEF Line, Reading, InLine, Lined
    <3> QED
      BY <2>1, <3>1, <3>2 DEF InLine, Lined
  <2> QED
    BY <1>1, <2>2, TaskKeepsOthers
<1>9. CASE WriteRequest(s)
  <2>1. /\ rpc[s] = "write" /\ rpc' = [rpc EXCEPT ![s] = "read"] /\ worker.proc = "up"
        /\ worker' = [worker EXCEPT !.stdin = Append(worker.stdin, s)]
        /\ UNCHANGED <<received, hpc, frame, chan, relayed, gone, misled, pipe, torn>>
    BY <1>9 DEF WriteRequest, Relay, handlerVars, signalVars
  <2>2. ASSUME s \in Honest' PROVE InLine(s)'
    <3>1. InLine(s) /\ Line(s) = <<>> /\ rpc'[s] = "read" /\ hpc[s] # "done"
      BY <1>1, <2>1, <2>2 DEF Honest, LineInv, InLine, Lined, TypeOK
    <3>2. Line(s)' = <<>> /\ Len(<<>>) = 0
      BY <2>1, <3>1, EmptySeq DEF Line
    <3>3. Lined(s)'
      BY <2>1, <3>1, <3>2 DEF Lined
    <3>4. ASSUME ~torn PROVE Ahead(s)'
      <4>1. \A t \in Streams : ~Reading(t)
        <5>1. Holds(s)
          BY <2>1, PipeTypes DEF Mutex, Working
        <5>2. \A t \in Streams \ {s} : ~Reading(t)
          BY <5>1, PipeTypes, OneWorks
        <5> QED
          BY <2>1, <5>2 DEF Reading
      <4>2. pipe = <<>> /\ worker.job = NoStream
        BY <2>1, <3>4, <4>1, PipeTypes DEF Synchronised, Drained
      <4>3. worker.unwritten = <<>>
        BY <4>2, PipeTypes DEF Writing
      <4>4. worker'.job = NoStream /\ worker'.unwritten = <<>> /\ pipe' = <<>>
        BY <2>1, <4>2, <4>3, PipeTypes
      <4>5. Flow' = <<>>
        BY <4>4, EmptySeq, ConcatEmptySeq DEF Flow
      <4> QED
        BY <3>2, <4>4, <4>5 DEF Ahead
    <3> QED
      BY <2>1, <3>3, <3>4 DEF InLine
  <2> QED
    BY <1>1, <2>2, TaskKeepsOthers
<1> QED
  BY <1>2, <1>3, <1>4, <1>5, <1>6, <1>7, <1>8, <1>9

\* Reading a part moves along the frames, and at the end of one to the next.
LEMMA ReadPartKeepsLine ==
    ASSUME PipeInv, LineInv, NEW s \in Streams, ReadPart(s)
    PROVE  LineInv'
<1> DEFINE p == Flow[1]
           f == p.frame
           F == Flow
           G == Flow'
           l == Line(s)
           g == Generation(s)
<1>1. /\ rpc[s] = "read" /\ ~torn /\ pipe # <<>> /\ pipe' = Tail(pipe)
      /\ UNCHANGED <<lockq, handle, worker, torn, chan, hpc, frame, received, watched,
                     gone, cancel, misled, crashes>>
      /\ InSync(s) /\ Reading(s) /\ f \in FrameSet
      /\ Final(p) => /\ rpc' = [rpc EXCEPT ![s] = "send"]
                     /\ relayed' = [relayed EXCEPT ![s] = f]
      /\ ~Final(p) => UNCHANGED <<rpc, relayed>>
  BY ReadPartStep
<1>2. RelayTask(s)
  BY DEF RelayTask
<1>3. /\ G \in Seq(Written) /\ Len(F) # 0 /\ Len(G) = Len(F) - 1
      /\ \A i \in 1..(Len(F) - 1) : G[i] = F[i + 1]
      /\ Len(F) \in Nat /\ Writing /\ TypeOK /\ F # <<>>
  BY <1>1, TakesPart, PipeTypes, EmptySeq
<1> HIDE DEF G, F
<1>4. G # <<>> <=> Len(F) # 1
  <2>1. G = <<>> <=> Len(G) = 0
    BY <1>3, EmptySeq
  <2> QED
    BY <1>3, <2>1
<1>5. Len(F) # 1 => /\ 1 \in 1..(Len(F) - 1) /\ G[1] = F[2] /\ Follows(F[1], F[2])
                    /\ Len(G) \in 1..(Len(F) - 1) /\ G[Len(G)] = F[Len(F)]
  <2> SUFFICES ASSUME Len(F) # 1
               PROVE  /\ 1 \in 1..(Len(F) - 1) /\ G[1] = F[2] /\ Follows(F[1], F[2])
                      /\ Len(G) \in 1..(Len(F) - 1) /\ G[Len(G)] = F[Len(F)]
    OBVIOUS
  <2>1. 1 \in 1..(Len(F) - 1) /\ Len(G) \in 1..(Len(F) - 1) /\ Len(G) + 1 = Len(F)
    BY <1>3
  <2>2. Follows(F[1], F[2])
    BY <1>3, <2>1 DEF Writing, F
  <2> QED
    BY <1>3, <2>1, <2>2
<1>6. ASSUME NEW i \in 1..(Len(G) - 1)
      PROVE  /\ i + 1 \in 1..(Len(F) - 1) /\ G[i] = F[i + 1] /\ G[i + 1] = F[(i + 1) + 1]
  <2>1. i + 1 \in 1..(Len(F) - 1) /\ i \in 1..(Len(F) - 1)
    BY <1>3
  <2> QED
    BY <1>3, <2>1
<1>7. worker.stdin = <<>>
  <2>1. worker.proc = "up" => worker.stdin = <<>>
    BY <1>1, <1>3 DEF InSync, F
  <2>2. worker.proc # "up" => worker.stdin = <<>>
    BY PipeTypes DEF Ownership, NoWorker
  <2> QED
    BY <2>1, <2>2
<1>8. ASSUME s \in Honest' PROVE InLine(s)'
  <2>1. Lined(s) /\ Ahead(s) /\ hpc[s] # "done"
    BY <1>1, <1>8 DEF Honest, LineInv, InLine, Lined
  <2>2. l \in Seq(FrameSet) /\ Len(l) \in Nat
    BY <1>3, LineTypes
  <2>3. May(s, Len(l) + 1, f)
    BY <1>3, <2>1 DEF Ahead, F
  <2>4. /\ \A i \in 1..(Len(F) - 1) : Final(F[i]) => Succeeds(s, F[i].frame, F[i + 1].frame)
        /\ worker.job # NoStream =>
              /\ worker.job = s
              /\ \/ F[Len(F)].frame = ErrorFrame(s)
                 \/ /\ worker.made \in 1..Len(g)
                    /\ F[Len(F)].frame = g[worker.made]
    BY <1>3, <2>1 DEF Ahead, F
  <2>5. \A i \in 1..(Len(G) - 1) : Final(G[i]) => Succeeds(s, G[i].frame, G[i + 1].frame)
    BY <1>6, <2>4
  <2>6. worker.job # NoStream /\ G # <<>> =>
              /\ worker.job = s
              /\ \/ G[Len(G)].frame = ErrorFrame(s)
                 \/ /\ worker.made \in 1..Len(g)
                    /\ G[Len(G)].frame = g[worker.made]
    BY <1>4, <1>5, <2>4
  <2>7. CASE ~Final(p)
    <3>1. UNCHANGED <<rpc, relayed>>
      BY <1>1, <2>7
    <3>2. Line(s)' = l /\ (Reading(s)' <=> Reading(s))
      BY <1>1, <3>1 DEF Line, Reading
    <3>3. Lined(s)'
      BY <1>1, <2>1, <3>1, <3>2 DEF Lined
    <3>4. G # <<>> => May(s, Len(l) + 1, G[1].frame)
      BY <1>4, <1>5, <2>3, <2>7 DEF Follows, F
    <3>5. worker.job # NoStream => G # <<>>
      <4> SUFFICES ASSUME G = <<>> PROVE worker.proc # "up"
        BY PipeTypes DEF Ownership, NoWorker
      <4>1. Len(F) = 1
        BY <1>4
      <4> QED
        BY <1>3, <2>7, <4>1 DEF Writing, F
    <3>6. Ahead(s)'
      BY <1>1, <1>7, <2>5, <2>6, <3>2, <3>4, <3>5 DEF Ahead, G
    <3> QED
      BY <3>3, <3>6 DEF InLine
  <2>8. CASE Final(p)
    <3>1. rpc' = [rpc EXCEPT ![s] = "send"] /\ relayed' = [relayed EXCEPT ![s] = f]
      BY <1>1, <2>8
    <3>2. rpc[s] # "send" /\ \A i \in 1..Len(Line(s)) : Line(s)[i].kind \notin Terminal
      BY <1>1, <2>1 DEF Lined
    <3>3. Lined(s)' /\ Len(Line(s))' = Len(Line(s)) + 1
      BY <1>1, <1>3, <2>1, <2>3, <3>1, <3>2, Extends
    <3>4. CASE f.kind \in Terminal
      <4>1. ~Reading(s)'
        BY <1>3, <3>1, <3>4 DEF Reading, TypeOK
      <4> QED
        BY <3>3, <4>1 DEF InLine
    <3>5. CASE f.kind \notin Terminal
      <4>1. Len(l) + 1 \in 1..Len(g) /\ f = g[Len(l) + 1]
        <5>1. f # ErrorFrame(s)
          BY <3>5, FrameTypes DEF Terminal
        <5> QED
          BY <2>3, <5>1 DEF May
      <4>2. G # <<>> => May(s, (Len(l) + 1) + 1, G[1].frame)
        <5> SUFFICES ASSUME G # <<>> PROVE May(s, (Len(l) + 1) + 1, G[1].frame)
          OBVIOUS
        <5>1. Succeeds(s, f, G[1].frame)
          <6>1. 1 \in 1..(Len(F) - 1) /\ G[1] = F[2] /\ f = F[1].frame /\ Final(F[1])
            BY <1>4, <1>5, <2>8 DEF F
          <6>2. Final(F[1]) => Succeeds(s, F[1].frame, F[1 + 1].frame)
            BY <2>4, <6>1
          <6> QED
            BY <6>1, <6>2
        <5>2. PICK k \in 1..(Len(g) - 1) : f = g[k] /\ May(s, k + 1, G[1].frame)
          BY <5>1 DEF Succeeds
        <5>3. k \in 1..Len(g)
          BY GenerationFrames
        <5>4. k = Len(l) + 1
          BY <4>1, <5>2, <5>3, GenerationDistinct
        <5> QED
          BY <5>2, <5>4
      <4>3. worker.job # NoStream /\ G = <<>> => worker.job = s /\ worker.made = Len(l) + 1
        <5> SUFFICES ASSUME worker.job # NoStream, G = <<>>
                     PROVE  worker.job = s /\ worker.made = Len(l) + 1
          OBVIOUS
        <5>1. F[Len(F)].frame = f
          BY <1>4 DEF F
        <5>2. worker.job = s /\ worker.made \in 1..Len(g) /\ f = g[worker.made]
          BY <2>4, <3>5, <5>1, FrameTypes DEF Terminal
        <5> QED
          BY <4>1, <5>2, GenerationDistinct
      <4>4. Ahead(s)'
        BY <1>1, <1>7, <2>5, <2>6, <3>3, <4>2, <4>3 DEF Ahead, G
      <4> QED
        BY <3>3, <4>4 DEF InLine
    <3> QED
      BY <3>4, <3>5
  <2> QED
    BY <2>7, <2>8
<1> QED
  BY <1>2, <1>8, TaskKeepsOthers

\* Sending a frame leaves the line as it is.
LEMMA SendKeepsLine ==
    ASSUME PipeInv, LineInv, NEW s \in Streams, Send(s) \/ SendLost(s)
    PROVE  LineInv'
<1>1. TypeOK /\ RelayTask(s)
  BY PipeTypes DEF RelayTask
<1>2. /\ rpc[s] = "send" /\ relayed' = [relayed EXCEPT ![s] = NoFrame]
      /\ \E at \in {"read", "done"} : rpc' = [rpc EXCEPT ![s] = at]
      /\ rpc'[s] = "read" <=> relayed[s].kind \notin Terminal
      /\ UNCHANGED <<worker, pipe, torn, hpc, gone, misled>>
  BY <1>1 DEF Send, SendLost, Sent, Relay, TypeOK, handlerVars, signalVars
<1>3. CASE SendLost(s)
  <2>1. s \notin Honest'
    BY <1>2, <1>3 DEF SendLost, Honest, LineInv, InLine, Lined
  <2> QED
    BY <1>1, <2>1, TaskKeepsOthers
<1>4. CASE Send(s)
  <2>1. ASSUME s \in Honest' PROVE InLine(s)'
    <3>1. InLine(s)
      BY <1>2, <2>1 DEF Honest, LineInv
    <3>2. Line(s)' = Line(s)
      BY <1>1, <1>4, SendLine
    <3>3. Reading(s)' <=> Reading(s)
      BY <1>1, <1>2 DEF Reading, TypeOK
    <3>4. rpc'[s] \in {"read", "done"} /\ hpc'[s] # "done"
      BY <1>1, <1>2, <1>4 DEF TypeOK, Send
    <3>5. Lined(s)'
      BY <3>1, <3>2, <3>3, <3>4 DEF InLine, Lined
    <3>6. Flow' = Flow
      BY <1>2 DEF Flow
    <3>7. Ahead(s) => Ahead(s)'
      BY <1>2, <3>2, <3>6 DEF Ahead
    <3> QED
      BY <1>2, <3>1, <3>3, <3>5, <3>7 DEF InLine
  <2> QED
    BY <1>1, <2>1, TaskKeepsOthers
<1> QED
  BY <1>3, <1>4

\* Steps of the worker change what is ahead only.
LEMMA WorkerInLine ==
    ASSUME LineInv, PipeInv,
           UNCHANGED <<rpc, relayed, torn, chan, hpc, frame, received, gone, misled>>,
           \A s \in Streams : ~torn /\ Reading(s) /\ InSync(s) /\ Lined(s) /\ Ahead(s) => Ahead(s)'
    PROVE  LineInv'
<1> SUFFICES ASSUME NEW s \in Streams, s \in Honest PROVE InLine(s)'
  BY DEF LineInv, Honest
<1>1. InLine(s)
  BY DEF LineInv
<1>2. Line(s)' = Line(s) /\ (Reading(s)' <=> Reading(s))
  BY DEF Line, Reading
<1>3. Lined(s)'
  BY <1>1, <1>2 DEF InLine, Lined
<1>4. ~torn /\ Reading(s) => InSync(s)
  BY PipeTypes DEF Synchronised
<1> QED
  BY <1>1, <1>2, <1>3, <1>4 DEF InLine

\* The request that it takes is that of the stream that is read.
LEMMA BeginKeepsLine ==
    ASSUME PipeInv, LineInv, Begin
    PROVE  LineInv'
<1>1. /\ worker.proc = "up" /\ worker.job = NoStream /\ worker.stdin # <<>>
      /\ worker' = [worker EXCEPT !.job = Head(worker.stdin), !.stdin = Tail(worker.stdin),
                                  !.made = 0]
      /\ UNCHANGED <<lockq, handle, rpc, part, relayed, pipe, torn, chan, hpc, frame,
                     received, watched, gone, cancel, misled, crashes>>
  BY DEF Begin, Worker, relayVars, handlerVars, signalVars
<1>2. /\ worker'.stdin = Tail(worker.stdin) /\ worker'.job = Head(worker.stdin)
      /\ worker'.made = 0 /\ worker'.unwritten = worker.unwritten
  BY <1>1, PipeTypes
<1>3. Flow' = Flow
  BY <1>1, <1>2 DEF Flow
<1>4. ASSUME NEW s \in Streams, InSync(s), Ahead(s) PROVE Ahead(s)'
  <2>1. worker.stdin = <<s>> /\ Flow = <<>>
    BY <1>1, <1>4 DEF InSync
  <2>2. Line(s) = <<>> /\ Len(<<>>) = 0
    BY <1>1, <1>4, EmptySeq DEF Ahead
  <2>3. Line(s)' = Line(s)
    BY <1>1 DEF Line
  <2>4. Tail(<<s>>) = <<>> /\ Head(<<s>>) = s
    OBVIOUS
  <2> QED
    BY <1>2, <1>3, <2>1, <2>2, <2>3, <2>4 DEF Ahead
<1> QED
  BY <1>1, <1>4, WorkerInLine

\* The frame that it begins to write is the one that its generation makes next.
LEMMA WritePartKeepsLine ==
    ASSUME PipeInv, LineInv, NEW parts, Writes(parts), worker.proc = "up",
           worker.job # NoStream, WritePart(parts),
           parts # worker.unwritten =>
              \/ parts[1].frame = ErrorFrame(worker.job)
              \/ parts[1].frame = Generation(worker.job)[worker.made + 1]
    PROVE  LineInv'
<1> DEFINE n == Len(pipe)
           m == Len(parts)
           G == Flow'
<1>1. /\ pipe' = Append(pipe, Head(parts))
      /\ worker' = [worker EXCEPT
            !.unwritten = Tail(parts),
            !.made = IF Head(parts).part = "kind" THEN @ + 1 ELSE @,
            !.job = IF Tail(parts) = <<>> /\ Head(parts).frame.kind \in Terminal
                      THEN NoStream ELSE @]
      /\ UNCHANGED <<lockq, handle, rpc, part, relayed, torn, chan, hpc, frame, received,
                     watched, gone, cancel, misled, crashes>>
  BY DEF WritePart, relayVars, handlerVars, signalVars
<1>2. /\ worker'.stdin = worker.stdin /\ worker'.unwritten = Tail(parts)
      /\ worker'.made = IF Head(parts).part = "kind" THEN worker.made + 1 ELSE worker.made
      /\ worker'.job \in {NoStream, worker.job}
  BY <1>1, PipeTypes
<1>3. /\ Writing /\ n \in Nat /\ worker.made \in Nat /\ worker.job \in Streams
      /\ Flow \in Seq(Written) /\ Len(Flow) = n + Len(worker.unwritten)
      /\ Len(worker.unwritten) \in Nat
  BY PipeTypes
<1>4. /\ G \in Seq(Written) /\ Len(G) = n + m
      /\ \A i \in 1..n : G[i] = Flow[i]
      /\ \A i \in 1..m : G[n + i] = parts[i]
      /\ parts = worker.unwritten => G = Flow
      /\ worker.unwritten = <<>> => Flow = pipe
      /\ m \in Nat \ {0} /\ Head(parts) = parts[1]
  BY <1>1, <1>2, PutsPart
<1> HIDE DEF G
<1>5. G # <<>>
  BY <1>3, <1>4, EmptySeq
<1>6. ASSUME NEW s \in Streams, InSync(s), Lined(s), Reading(s), Ahead(s) PROVE Ahead(s)'
  <2>1. Line(s)' = Line(s)
    BY <1>1 DEF Line
  <2>2. Line(s) \in Seq(FrameSet) /\ Len(Line(s)) \in Nat
    BY LineTypes, PipeTypes
  <2>3. worker.stdin = <<>> /\ \A i \in 1..n : ~EndsFlow(i)
    BY <1>6 DEF InSync
  <2>4. worker.job = s
    BY <1>6 DEF Ahead
  <2>5. CASE parts = worker.unwritten
    <3>1. worker'.made = worker.made
      <4>1. 1 \in 1..m
        BY <1>4
      <4> QED
        BY <1>2, <1>3, <1>4, <2>5, <4>1 DEF Writing
    <3>2. G = Flow
      BY <1>4, <2>5
    <3> QED
      BY <1>2, <1>6, <2>1, <3>1, <3>2 DEF Ahead, G
  <2>6. CASE parts # worker.unwritten
    <3> DEFINE f == parts[1].frame
               g == Generation(s)
    <3>1. /\ worker.unwritten = <<>> /\ parts[1].part = "kind" /\ Flow = pipe
          /\ \A i \in 1..m : parts[i].frame = parts[m].frame /\ (Final(parts[i]) <=> i = m)
      BY <1>4, <2>6 DEF Writes
    <3>2. 1 \in 1..m /\ m \in 1..m
      BY <1>4
    <3>3. worker.made < Len(g) /\ Len(g) \in Nat
      <4>1. Len(g) \in Nat
        BY GenerationFrames
      <4> QED
        BY <1>3, <2>4, <3>1, <4>1 DEF Writing
    <3>4. worker'.made = worker.made + 1 /\ worker.made + 1 \in 1..Len(g)
      BY <1>2, <1>3, <1>4, <3>1, <3>3
    <3>5. f = ErrorFrame(s) \/ f = g[worker.made + 1]
      BY <2>4, <2>6
    <3>6. Len(Flow) = n /\ (Flow = <<>> <=> n = 0)
      BY <1>3, <3>1, EmptySeq
    <3>7. n # 0 => worker.made \in 1..Len(g) /\ Flow[n].frame = g[worker.made]
      <4> SUFFICES ASSUME n # 0 PROVE worker.made \in 1..Len(g) /\ Flow[n].frame = g[worker.made]
        OBVIOUS
      <4>1. Final(Flow[n])
        BY <1>3, <3>6 DEF Writing
      <4>2. n \in 1..n
        BY <1>3
      <4>3. Flow[n].frame.kind \notin Terminal
        BY <2>3, <4>1, <4>2 DEF EndsFlow
      <4>4. Flow[n].frame # ErrorFrame(s)
        BY <4>3, FrameTypes DEF Terminal
      <4> QED
        BY <1>6, <3>6, <4>4 DEF Ahead
    <3>8. G[1].frame = IF n = 0 THEN f ELSE Flow[1].frame
      <4>1. CASE n = 0
        BY <1>4, <3>2, <4>1
      <4>2. CASE n # 0
        <5>1. 1 \in 1..n
          BY <1>3, <4>2
        <5> QED
          BY <1>4, <4>2, <5>1
      <4> QED
        BY <4>1, <4>2
    <3>9. May(s, Len(Line(s)) + 1, G[1].frame)
      <4>1. CASE n = 0
        <5>1. worker.made = Len(Line(s))
          BY <1>6, <3>6, <4>1 DEF Ahead
        <5> QED
          BY <3>4, <3>5, <3>8, <4>1, <5>1 DEF May
      <4>2. CASE n # 0
        BY <1>6, <3>6, <3>8, <4>2 DEF Ahead
      <4> QED
        BY <4>1, <4>2
    <3>10. ASSUME NEW i \in 1..(Len(G) - 1), Final(G[i])
           PROVE  Succeeds(s, G[i].frame, G[i + 1].frame)
      <4>1. CASE i < n
        <5>1. i \in 1..n /\ i + 1 \in 1..n /\ i \in 1..(Len(Flow) - 1)
          BY <1>3, <3>6, <4>1
        <5>2. G[i] = Flow[i] /\ G[i + 1] = Flow[i + 1]
          BY <1>4, <5>1
        <5> QED
          BY <1>6, <3>10, <5>1, <5>2 DEF Ahead
      <4>2. CASE i = n
        <5>1. n # 0 /\ n \in 1..n
          BY <1>3, <4>2
        <5>2. G[i].frame = g[worker.made] /\ G[i + 1].frame = f
          BY <1>4, <3>2, <3>7, <4>2, <5>1
        <5>3. worker.made \in 1..(Len(g) - 1)
          BY <1>3, <3>3, <3>7, <5>1
        <5>4. May(s, worker.made + 1, f)
          BY <3>4, <3>5 DEF May
        <5> QED
          BY <5>2, <5>3, <5>4 DEF Succeeds
      <4>3. CASE i > n
        <5>1. PICK j \in 1..(m - 1) : i = n + j
          <6>1. i - n \in 1..(m - 1) /\ i = n + (i - n)
            BY <1>3, <1>4, <4>3
          <6> QED
            BY <6>1
        <5>2. j \in 1..m /\ j # m
          BY <1>4, <5>1
        <5>3. G[i] = parts[j] /\ ~Final(parts[j])
          BY <1>4, <3>1, <5>1, <5>2
        <5> QED
          BY <3>10, <5>3
      <4> QED
        BY <1>3, <4>1, <4>2, <4>3
    <3>11. G[Len(G)].frame = f
      BY <1>4, <3>1, <3>2
    <3> HIDE DEF f
    <3>12. G[Len(G)].frame = ErrorFrame(s) \/ G[Len(G)].frame = g[worker'.made]
      BY <3>4, <3>5, <3>11
    <3> QED
      BY <1>2, <1>5, <2>1, <2>3, <2>4, <3>4, <3>9, <3>10, <3>12 DEF Ahead, G
  <2> QED
    BY <2>5, <2>6
<1> QED
  BY <1>1, <1>6, WorkerInLine

\* Every step of the worker keeps the streams in line.
LEMMA WorkerTaskKeepsLine ==
    ASSUME PipeInv, LineInv, WorkerTask
    PROVE  LineInv'
<1>1. /\ Writing /\ worker.made \in Nat /\ worker.job \in Streams \union {NoStream}
      /\ worker.unwritten \in Seq(Written) /\ Len(worker.unwritten) \in Nat
  BY PipeTypes
<1>2. CASE WriteFrameKind
  <2> DEFINE g == Generation(worker.job)
             f == g[worker.made + 1]
  <2>1. worker.proc = "up" /\ worker.job # NoStream /\ WritePart(Parts(f))
    BY <1>2 DEF WriteFrameKind, Ready
  <2>2. Writes(Parts(f)) /\ Parts(f)[1].frame = f
    BY <1>2, FrameKindWrites
  <2> QED
    BY <2>1, <2>2, WritePartKeepsLine
<1>3. CASE WriteErrorKind
  <2>1. worker.proc = "up" /\ worker.job # NoStream /\ WritePart(Parts(ErrorFrame(worker.job)))
    BY <1>3 DEF WriteErrorKind, Ready
  <2>2. /\ Writes(Parts(ErrorFrame(worker.job)))
        /\ Parts(ErrorFrame(worker.job))[1].frame = ErrorFrame(worker.job)
    BY <1>3, ErrorKindWrites
  <2> QED
    BY <2>1, <2>2, WritePartKeepsLine
<1>4. CASE WriteRest
  BY <1>1, <1>4, RestWrites, WritePartKeepsLine DEF WriteRest
<1> QED
  BY <1>2, <1>3, <1>4, BeginKeepsLine DEF WorkerTask

\* After its death what is in the pipe is still what comes next.
LEMMA CrashKeepsLine ==
    ASSUME PipeInv, LineInv, Crash
    PROVE  LineInv'
<1>1. /\ worker' = [NoWorker EXCEPT !.proc = "dead"]
      /\ UNCHANGED <<lockq, handle, rpc, part, relayed, pipe, torn, chan, hpc, frame,
                     received, watched, gone, cancel, misled>>
  BY DEF Crash, relayVars, handlerVars, signalVars
<1>2. worker'.job = NoStream /\ worker'.unwritten = <<>> /\ worker'.stdin = <<>>
  BY <1>1, QuietWorkers
<1>3. /\ pipe \in Seq(Written) /\ Len(pipe) \in Nat
      /\ worker.unwritten \in Seq(Written) /\ Len(worker.unwritten) \in Nat
      /\ Flow = pipe \o worker.unwritten
      /\ Len(Flow) = Len(pipe) + Len(worker.unwritten)
  BY PipeTypes DEF Flow
<1>4. Flow' = pipe
  BY <1>1, <1>2, <1>3, ConcatEmptySeq DEF Flow
<1>5. \A i \in 1..Len(pipe) : Flow[i] = pipe[i]
  <2>1. \A i \in 1..(Len(pipe) + Len(worker.unwritten)) :
           Flow[i] = IF i <= Len(pipe) THEN pipe[i] ELSE worker.unwritten[i - Len(pipe)]
    BY <1>3, ConcatProperties
  <2> QED
    BY <1>3, <2>1
<1>6. ASSUME NEW s \in Streams, Ahead(s) PROVE Ahead(s)'
  <2>1. Line(s)' = Line(s)
    BY <1>1 DEF Line
  <2>2. pipe # <<>> => May(s, Len(Line(s)) + 1, pipe[1].frame)
    <3> SUFFICES ASSUME pipe # <<>> PROVE May(s, Len(Line(s)) + 1, pipe[1].frame)
      OBVIOUS
    <3>1. 1 \in 1..Len(pipe) /\ Len(Flow) # 0
      BY <1>3, EmptySeq
    <3>2. Flow # <<>>
      BY <3>1, EmptySeq
    <3> QED
      BY <1>5, <1>6, <3>1, <3>2 DEF Ahead
  <2>3. ASSUME NEW i \in 1..(Len(pipe) - 1), Final(pipe[i])
        PROVE  Succeeds(s, pipe[i].frame, pipe[i + 1].frame)
    <3>1. i \in 1..Len(pipe) /\ i + 1 \in 1..Len(pipe) /\ i \in 1..(Len(Flow) - 1)
      BY <1>3
    <3> QED
      BY <1>5, <1>6, <2>3, <3>1 DEF Ahead
  <2> QED
    BY <1>2, <1>4, <2>1, <2>2, <2>3 DEF Ahead
<1> QED
  BY <1>1, <1>6, WorkerInLine

\* LineInv holds at first,
LEMMA LineInitially == Init => LineInv
<1> SUFFICES ASSUME Init, NEW s \in Streams PROVE InLine(s)
  BY DEF LineInv, Honest
<1>1. /\ received[s] = <<>> /\ chan[s] = <<>> /\ hpc[s] = "new" /\ rpc[s] = "new"
  BY DEF Init
<1>2. (<<>> \o <<>>) \o (<<>> \o <<>>) = <<>> /\ Len(<<>>) = 0
  <2>1. <<>> \in Seq(FrameSet)
    BY EmptySeq
  <2>2. <<>> \o <<>> = <<>>
    BY <2>1, ConcatEmptySeq
  <2> QED
    BY <2>2, EmptySeq
<1>3. Line(s) = <<>>
  BY <1>1, <1>2 DEF Line, One
<1> QED
  BY <1>1, <1>2, <1>3 DEF InLine, Lined, Reading

\* and every step keeps it.
LEMMA LineStep ==
    ASSUME PipeInv, LineInv, [Next]_vars
    PROVE  LineInv'
<1>1. CASE UNCHANGED vars
  <2>1. UNCHANGED <<rpc, relayed, worker, pipe, torn, chan, hpc, frame, received, gone, misled>>
    BY <1>1 DEF vars, relayVars, handlerVars, signalVars
  <2>2. \A s \in Streams : Ahead(s) => Ahead(s)'
    BY <2>1 DEF Ahead, Line, Flow
  <2> QED
    BY <2>1, <2>2, WorkerInLine
<1>2. ASSUME NEW s \in Streams, RelayTask(s) PROVE LineInv'
  BY <1>2, RequestKeepsLine, ReadPartKeepsLine, SendKeepsLine DEF RelayTask
<1>3. ASSUME NEW s \in Streams,
             Submit(s) \/ HangUp(s) \/ WatcherSeesEof(s) \/ HandlerTask(s)
      PROVE  LineInv'
  BY <1>3, HandlerKeepsLine
<1>4. Ended \/ Starved => UNCHANGED vars
  BY DEF Ended, Starved
<1> QED
  BY <1>1, <1>2, <1>3, <1>4, WorkerTaskKeepsLine, CrashKeepsLine DEF Next

\* The two parts of the invariant are inductive together: in every behaviour, what
\* was read for a client that is there, from a pipe in sync, is a beginning of its
\* stream, and what is in the pipe goes on with it.
THEOREM LineInvariance == Spec => [](PipeInv /\ LineInv)
<1>1. PipeInv /\ LineInv /\ [Next]_vars => PipeInv' /\ LineInv'
  BY PipeStep, LineStep
<1> QED
  BY PipeInitially, LineInitially, <1>1, PTL DEF Spec

-----------------------------------------------------------------------------
(* The refinement: what clients get is what StreamService allows.            *)

\* The chunks of frames one after the other are those of the first, then those of
\* the second.
LEMMA ChunksConcat ==
    ASSUME NEW a \in Seq(FrameSet), NEW b \in Seq(FrameSet)
    PROVE  /\ ChunksOf(b) \in Seq(FrameSet)
           /\ ChunksOf(a \o b) = ChunksOf(a) \o ChunksOf(b)
<1> DEFINE C(u) == [i \in DOMAIN u |-> IF u[i].kind = "chunk" THEN <<u[i]>> ELSE <<>>]
<1>1. ASSUME NEW u \in Seq(FrameSet)
      PROVE  C(u) \in Seq(Seq(FrameSet)) /\ Len(C(u)) = Len(u)
             /\ \A i \in 1..Len(u) : C(u)[i] = IF u[i].kind = "chunk" THEN <<u[i]>> ELSE <<>>
  <2>1. DOMAIN u = 1..Len(u) /\ Len(u) \in Nat /\ \A i \in 1..Len(u) : u[i] \in FrameSet
    BY LenProperties, ElementOfSeq
  <2>2. \A x \in FrameSet : <<x>> \in Seq(FrameSet) /\ <<>> \in Seq(FrameSet)
    BY EmptySeq
  <2>3. \A i \in 1..Len(u) : (IF u[i].kind = "chunk" THEN <<u[i]>> ELSE <<>>) \in Seq(FrameSet)
    BY <2>1, <2>2
  <2>4. C(u) \in [1..Len(u) -> Seq(FrameSet)]
    BY <2>1, <2>3
  <2>5. C(u) \in Seq(Seq(FrameSet)) /\ DOMAIN C(u) = 1..Len(u)
    BY <2>1, <2>4, SeqDef
  <2> HIDE DEF C
  <2>6. Len(C(u)) = Len(u)
    BY <2>1, <2>5, LenProperties
  <2> QED
    BY <2>1, <2>5, <2>6 DEF C
<1>2. /\ a \o b \in Seq(FrameSet) /\ Len(a \o b) = Len(a) + Len(b)
      /\ \A i \in 1..(Len(a) + Len(b)) : (a \o b)[i] = IF i <= Len(a) THEN a[i] ELSE b[i - Len(a)]
      /\ Len(a) \in Nat /\ Len(b) \in Nat
  <2>1. Len(a) \in Nat /\ Len(b) \in Nat
    BY LenProperties
  <2>2. /\ a \o b \in Seq(FrameSet) /\ Len(a \o b) = Len(a) + Len(b)
        /\ \A i \in 1..(Len(a) + Len(b)) :
              (a \o b)[i] = IF i <= Len(a) THEN a[i] ELSE b[i - Len(a)]
    BY ConcatProperties
  <2> QED
    BY <2>1, <2>2
<1>3. \A u : ChunksOf(u) = FlattenSeq(C(u))
  BY DEF ChunksOf
<1> HIDE DEF C
<1>4. C(a) \in Seq(Seq(FrameSet)) /\ C(b) \in Seq(Seq(FrameSet))
      /\ C(a \o b) \in Seq(Seq(FrameSet))
  BY <1>1, <1>2
<1>5. C(a \o b) = C(a) \o C(b)
  <2>1. /\ C(a) \o C(b) \in Seq(Seq(FrameSet))
        /\ Len(C(a) \o C(b)) = Len(C(a)) + Len(C(b))
        /\ \A i \in 1..(Len(C(a)) + Len(C(b))) :
              (C(a) \o C(b))[i] = IF i <= Len(C(a)) THEN C(a)[i] ELSE C(b)[i - Len(C(a))]
    BY <1>4, ConcatProperties
  <2>2. Len(C(a)) = Len(a) /\ Len(C(b)) = Len(b) /\ Len(C(a \o b)) = Len(a) + Len(b)
    BY <1>1, <1>2
  <2>3. ASSUME NEW i \in 1..(Len(a) + Len(b)) PROVE C(a \o b)[i] = (C(a) \o C(b))[i]
    <3>1. CASE i <= Len(a)
      <4>1. i \in 1..Len(a)
        BY <1>2, <3>1
      <4>2. C(a \o b)[i] = C(a)[i]
        BY <1>1, <1>2, <3>1, <4>1
      <4> QED
        BY <2>1, <2>2, <3>1, <4>2
    <3>2. CASE ~(i <= Len(a))
      <4>1. i - Len(a) \in 1..Len(b)
        BY <1>2, <3>2
      <4>2. C(a \o b)[i] = IF (a \o b)[i].kind = "chunk" THEN <<(a \o b)[i]>> ELSE <<>>
        BY <1>1, <1>2
      <4>3. (a \o b)[i] = b[i - Len(a)]
        BY <1>2, <3>2
      <4>4. C(b)[i - Len(a)] = IF b[i - Len(a)].kind = "chunk" THEN <<b[i - Len(a)]>> ELSE <<>>
        BY <1>1, <4>1
      <4>5. C(a \o b)[i] = C(b)[i - Len(a)]
        BY <4>2, <4>3, <4>4
      <4> QED
        BY <2>1, <2>2, <3>2, <4>5
    <3> QED
      BY <3>1, <3>2
  <2> QED
    BY <1>4, <2>1, <2>2, <2>3, SeqEqual
<1> QED
  BY <1>3, <1>4, <1>5, FlattenConcat

\* One more frame.
LEMMA FrameAppended ==
    ASSUME NEW r \in Seq(FrameSet), NEW f \in FrameSet
    PROVE  /\ KindsOf(Append(r, f)) = KindsOf(r) \union {f.kind}
           /\ f.kind = "chunk" => ChunksOf(Append(r, f)) = Append(ChunksOf(r), f)
           /\ f.kind # "chunk" => ChunksOf(Append(r, f)) = ChunksOf(r)
           /\ ChunksOf(r) \in Seq(FrameSet)
<1>1. <<f>> \in Seq(FrameSet) /\ Append(r, f) = r \o <<f>>
  BY AppendIsConcat
<1>2. /\ Append(r, f) \in Seq(FrameSet) /\ Len(Append(r, f)) = Len(r) + 1
      /\ \A i \in 1..Len(r) : Append(r, f)[i] = r[i]
      /\ Append(r, f)[Len(r) + 1] = f
  BY AppendProperties
<1>3. ChunksOf(r) \in Seq(FrameSet) /\ ChunksOf(Append(r, f)) = ChunksOf(r) \o ChunksOf(<<f>>)
  BY <1>1, ChunksConcat
<1>4. ChunksOf(<<f>>) = IF f.kind = "chunk" THEN <<f>> ELSE <<>>
  <2> DEFINE c == IF f.kind = "chunk" THEN <<f>> ELSE <<>>
             u == <<f>>
             d == [i \in DOMAIN u |-> IF u[i].kind = "chunk" THEN <<u[i]>> ELSE <<>>]
  <2>1. d = <<c>>
    OBVIOUS
  <2>2. c \in Seq(FrameSet) /\ <<>> \in Seq(Seq(FrameSet)) /\ <<>> \in Seq(FrameSet)
    BY EmptySeq
  <2>3. FlattenSeq(d) = FlattenSeq(<<>>) \o c
    <3>1. <<c>> = Append(<<>>, c)
      OBVIOUS
    <3> HIDE DEF c, d
    <3> QED
      BY <2>1, <2>2, <3>1, FlattenAppend
  <2>4. <<>> \o c = c
    BY <2>2, ConcatEmptySeq
  <2> QED
    BY <2>3, <2>4, FlattenEmpty DEF ChunksOf
<1>5. KindsOf(Append(r, f)) = KindsOf(r) \union {f.kind}
  <2> DEFINE a == Append(r, f)
  <2>1. a \in Seq(FrameSet) /\ DOMAIN r = 1..Len(r) /\ Len(r) \in Nat
    BY <1>2, LenProperties
  <2>2. DOMAIN a = 1..(Len(r) + 1)
    BY <1>2, <2>1, LenProperties
  <2>3. /\ \A i \in 1..Len(r) : a[i] = r[i]
        /\ a[Len(r) + 1] = f
    BY <1>2
  <2> HIDE DEF a
  <2>4. DOMAIN a = DOMAIN r \union {Len(r) + 1}
    BY <2>1, <2>2
  <2> QED
    BY <2>1, <2>3, <2>4 DEF KindsOf, a
<1>6. f.kind = "chunk" => ChunksOf(r) \o <<f>> = Append(ChunksOf(r), f)
  BY <1>3, AppendIsConcat
<1>7. ChunksOf(r) \o <<>> = ChunksOf(r)
  BY <1>3, ConcatEmptySeq
<1> QED
  BY <1>3, <1>4, <1>5, <1>6, <1>7

\* The frames that a client got are the first of its generation, and so is the next:
\* the chunks among them are a prefix of all the chunks, and all of them at the end.
LEMMA GenerationServed ==
    ASSUME NEW s \in Streams, NEW n \in Seq(FrameSet), Len(n) \in 1..Len(Generation(s)),
           \A i \in 1..Len(n) : n[i] = Generation(s)[i]
    PROVE  /\ ChunksOf(Generation(s)) \in Seq(FrameSet)
           /\ Len(ChunksOf(n)) \in 0..Len(ChunksOf(Generation(s)))
           /\ ChunksOf(n) = SubSeq(ChunksOf(Generation(s)), 1, Len(ChunksOf(n)))
           /\ Len(n) = Len(Generation(s)) => n = Generation(s)
<1> DEFINE g == Generation(s)
           k == Len(n)
           t == SubSeq(g, k + 1, Len(g))
<1>1. g \in Seq(FrameSet) /\ Len(g) \in Nat
  BY GenerationFrames, LenProperties
<1>2. k \in Nat /\ k <= Len(g)
  BY <1>1
<1> HIDE DEF g
<1>3. t \in Seq(FrameSet) /\ Len(t) = Len(g) - k
      /\ \A i \in 1..(Len(g) - k) : t[i] = g[k + i]
  <2>1. t \in Seq(FrameSet)
    BY <1>1, <1>2, SubSeqProperties
  <2> QED
    BY <1>1, <1>2, <2>1, SubSeqProperties
<1> HIDE DEF t
<1>4. g = n \o t
  <2>1. /\ n \o t \in Seq(FrameSet) /\ Len(n \o t) = Len(n) + Len(t)
        /\ \A i \in 1..(Len(n) + Len(t)) : (n \o t)[i] = IF i <= Len(n) THEN n[i] ELSE t[i - Len(n)]
    BY <1>3, ConcatProperties
  <2>2. Len(n \o t) = Len(g)
    BY <1>1, <1>2, <1>3, <2>1
  <2>3. ASSUME NEW i \in 1..Len(g) PROVE (n \o t)[i] = g[i]
    <3>1. CASE i <= k
      BY <1>1, <1>2, <1>3, <2>1, <3>1 DEF g
    <3>2. CASE ~(i <= k)
      <4>1. i - k \in 1..(Len(g) - k) /\ k + (i - k) = i
        BY <1>1, <1>2, <3>2
      <4>2. t[i - k] = g[i]
        BY <1>3, <4>1
      <4>3. i \in 1..(Len(n) + Len(t)) /\ ~(i <= Len(n))
        BY <1>1, <1>2, <1>3, <3>2
      <4> QED
        BY <2>1, <4>2, <4>3
    <3> QED
      BY <3>1, <3>2
  <2> QED
    BY <1>1, <2>1, <2>2, <2>3, SeqEqual
<1>5. /\ ChunksOf(n) \in Seq(FrameSet) /\ ChunksOf(t) \in Seq(FrameSet)
      /\ ChunksOf(g) = ChunksOf(n) \o ChunksOf(t)
  <2>1. <<>> \in Seq(FrameSet)
    BY EmptySeq
  <2> QED
    BY <1>3, <1>4, <2>1, ChunksConcat
<1>6. Len(n) = Len(g) => n = g
  BY <1>1, SeqEqual DEF g
<1> DEFINE x == ChunksOf(n)
           y == ChunksOf(t)
<1>7. x \in Seq(FrameSet) /\ y \in Seq(FrameSet) /\ ChunksOf(g) = x \o y
  BY <1>5
<1> HIDE DEF x, y
<1>8. x \o y \in Seq(FrameSet) /\ Len(x \o y) = Len(x) + Len(y) /\ Len(x) \in Nat /\ Len(y) \in Nat
  <2>1. Len(x) \in Nat /\ Len(y) \in Nat
    BY <1>7, LenProperties
  <2> QED
    BY <1>7, <2>1, ConcatProperties
<1>9. Len(x) \in 0..Len(x \o y)
  BY <1>8
<1>10. x = SubSeq(x \o y, 1, Len(x))
  <2> DEFINE z == SubSeq(x \o y, 1, Len(x))
  <2>1. z \in Seq(FrameSet) /\ Len(z) = Len(x) /\ \A i \in 1..Len(x) : z[i] = (x \o y)[i]
    <3> DEFINE w == x \o y
    <3>1. w \in Seq(FrameSet) /\ Len(x) \in 0..Len(w) /\ Len(x) \in Nat
      BY <1>8, <1>9
    <3> HIDE DEF w
    <3>2. z \in Seq(FrameSet) /\ Len(z) = Len(x) /\ \A i \in 1..Len(x) : z[i] = w[i]
      <4> DEFINE m == Len(x)
      <4>1. w \in Seq(FrameSet) /\ m \in Nat /\ m <= Len(w) /\ Len(w) \in Nat
        BY <3>1, LenProperties
      <4> HIDE DEF m
      <4>2. SubSeq(w, 1, m) \in Seq(FrameSet) /\ Len(SubSeq(w, 1, m)) = m
            /\ \A i \in 1..m : SubSeq(w, 1, m)[i] = w[i]
        BY <4>1, SMT
      <4> QED
        BY <4>2 DEF m, w
    <3> QED
      BY <3>2 DEF w
  <2>2. \A i \in 1..Len(x) : (x \o y)[i] = x[i]
    <3>1. \A i \in 1..(Len(x) + Len(y)) : (x \o y)[i] = IF i <= Len(x) THEN x[i] ELSE y[i - Len(x)]
      BY <1>7, ConcatProperties
    <3> QED
      BY <1>8, <3>1
  <2> HIDE DEF z
  <2>3. z = x
    BY <1>7, <2>1, <2>2, SeqEqual
  <2> QED
    BY <2>3 DEF z
<1> QED
  BY <1>6, <1>7, <1>8, <1>9, <1>10 DEF g, x

\* A client that gets the next frame of its stream sees a step of the service.
LEMMA DeliveryServes ==
    ASSUME TypeOK, NEW s \in Streams, NEW f \in FrameSet,
           received' = [received EXCEPT ![s] = Append(@, f)],
           \A i \in 1..Len(received[s]) : /\ received[s][i].kind \notin Terminal
                                          /\ May(s, i, received[s][i]),
           May(s, Len(received[s]) + 1, f)
    PROVE  Service!Next
<1> DEFINE r == received[s]
           n == Append(r, f)
           g == Generation(s)
           k == Len(r) + 1
           whole == [t \in Streams |-> ChunksOf(Generation(t))]
           header == [t \in Streams |-> "header" \in KindsOf(received[t])]
           audio == [t \in Streams |-> ChunksOf(received[t])]
           last == [t \in Streams |-> LastOf(received[t])]
<1>1. r \in Seq(FrameSet) /\ Len(r) \in Nat
  BY LineTypes, LenProperties
<1>2. /\ n \in Seq(FrameSet) /\ Len(n) = k /\ n[k] = f
      /\ \A i \in 1..Len(r) : n[i] = r[i]
  BY <1>1, AppendProperties
<1>3. /\ KindsOf(n) = KindsOf(r) \union {f.kind}
      /\ f.kind = "chunk" => ChunksOf(n) = Append(ChunksOf(r), f)
      /\ f.kind # "chunk" => ChunksOf(n) = ChunksOf(r)
      /\ ChunksOf(r) \in Seq(FrameSet)
  BY <1>1, FrameAppended
\* How the four variables of the service change.
<1>4. /\ received \in [Streams -> Seq(FrameSet)]
      /\ received'[s] = n /\ \A t \in Streams \ {s} : received'[t] = received[t]
  BY DEF TypeOK
<1>5. whole' = whole
  OBVIOUS
<1>6. audio' = [audio EXCEPT ![s] = ChunksOf(n)]
  <2>1. \A t \in Streams : ChunksOf(received'[t]) = IF t = s THEN ChunksOf(n) ELSE audio[t]
    BY <1>4
  <2> QED
    BY <2>1
<1>7. last' = [last EXCEPT ![s] = LastOf(n)]
  <2>1. \A t \in Streams : LastOf(received'[t]) = IF t = s THEN LastOf(n) ELSE last[t]
    BY <1>4
  <2> QED
    BY <2>1
<1>8. header' = [header EXCEPT ![s] = ("header" \in KindsOf(n))]
  <2>1. \A t \in Streams :
           ("header" \in KindsOf(received'[t])) = IF t = s THEN ("header" \in KindsOf(n)) ELSE header[t]
    BY <1>4
  <2> QED
    BY <2>1
<1>9. Terminal \intersect KindsOf(r) = {} /\ last[s] = "none"
  <2>1. DOMAIN r = 1..Len(r)
    BY <1>1, LenProperties
  <2>2. Terminal \intersect KindsOf(r) = {}
    BY <2>1 DEF KindsOf
  <2> QED
    BY <2>2 DEF LastOf, Terminal
<1> HIDE DEF whole, header, audio, last
<1>10. audio[s] = ChunksOf(r) /\ (header[s] <=> "header" \in KindsOf(r)) /\ whole[s] = ChunksOf(g)
  BY DEF audio, header, whole
<1>11. "header" \in KindsOf(n) <=> "header" \in KindsOf(r) \/ f.kind = "header"
  BY <1>3
<1>12. LastOf(n) = IF f.kind \in Terminal THEN f.kind ELSE "none"
  <2>1. KindsOf(n) = KindsOf(r) \union {f.kind} /\ Terminal \intersect KindsOf(r) = {}
    BY <1>3, <1>9
  <2> HIDE DEF n
  <2> QED
    BY <2>1 DEF LastOf, Terminal
<1>13. f.kind # "header" => UNCHANGED header
  <2> SUFFICES ASSUME f.kind # "header" PROVE header' = header
    OBVIOUS
  <2>1. ("header" \in KindsOf(n)) = ("header" \in KindsOf(r))
    BY <1>11
  <2>2. ("header" \in KindsOf(n)) = header[s]
    BY <2>1 DEF header
  <2> QED
    BY <1>8, <2>2 DEF header
<1>14. f.kind \notin Terminal => UNCHANGED last
  BY <1>7, <1>9, <1>12 DEF last
<1>15. f.kind # "chunk" => UNCHANGED audio
  BY <1>3, <1>6, <1>10 DEF audio
<1>16. Service!Next <=> \E c \in Streams : \/ Service!Make(c) \/ Service!Header(c)
                                         \/ Service!Chunk(c)
                                         \/ Service!End(c) \/ Service!Error(c)
  BY DEF Service!Next
\* The frame is an error, or the next of the generation.
<1>17. CASE f = ErrorFrame(s)
  <2>1. f.kind = "error" /\ "error" \in Terminal
    BY <1>17 DEF ErrorFrame, Frame, Terminal
  <2>2. last' = [last EXCEPT ![s] = "error"]
    BY <1>7, <1>12, <2>1
  <2>3. Service!Error(s)
    BY <1>5, <1>9, <1>13, <1>15, <2>1, <2>2 DEF Service!Error, whole, header, audio, last
  <2> QED
    BY <1>16, <2>3
<1>18. ASSUME k \in 1..Len(g), f = g[k] PROVE Service!Next
  <2>1. /\ Len(g) = IF Chunks[s] = 0 THEN 1 ELSE Chunks[s] + 2
        /\ Len(g) \in Nat \ {0} /\ Chunks[s] \in Nat
        /\ \A i \in 1..Len(g) : g[i] = IF i = Len(g) THEN Frame(s, "end", 0)
                                       ELSE IF i = 1 THEN Frame(s, "header", 0)
                                       ELSE Frame(s, "chunk", i - 1)
    BY GenerationFrames
  <2>2. \A i \in 1..Len(r) : r[i] = g[i]
    <3> SUFFICES ASSUME NEW i \in 1..Len(r), r[i] = ErrorFrame(s) PROVE FALSE
      BY DEF May
    <3>1. r[i].kind = "error"
      BY DEF ErrorFrame, Frame
    <3> QED
      BY <3>1 DEF Terminal
  <2>3. \A i \in 1..Len(n) : n[i] = g[i]
    <3> SUFFICES ASSUME NEW i \in 1..k PROVE n[i] = g[i]
      BY <1>2
    <3>1. i = k \/ i \in 1..Len(r)
      BY <1>1
    <3> HIDE DEF n, g, r
    <3> QED
      BY <1>2, <1>18, <2>2, <3>1
  <2>4. /\ ChunksOf(g) \in Seq(FrameSet)
        /\ Len(ChunksOf(n)) \in 0..Len(ChunksOf(g))
        /\ ChunksOf(n) = SubSeq(ChunksOf(g), 1, Len(ChunksOf(n)))
        /\ Len(n) = Len(g) => n = g
    BY <1>2, <1>18, <2>3, GenerationServed
  <2>5. CASE k = Len(g)
    <3> HIDE DEF n, g, r
    <3>a. f = Frame(s, "end", 0) /\ n = g
      BY <1>2, <1>18, <2>1, <2>4, <2>5
    <3>1. f.kind = "end" /\ "end" \in Terminal /\ n = g
      BY <3>a DEF Frame, Terminal
    <3>2. last' = [last EXCEPT ![s] = "end"] /\ UNCHANGED <<header, audio>>
      BY <1>7, <1>12, <1>13, <1>15, <3>1
    <3>3. audio[s] = whole[s]
      BY <1>3, <1>10, <3>1
    <3>4. Service!End(s)
      BY <1>5, <1>9, <3>2, <3>3 DEF Service!End, whole, header, audio, last
    <3> QED
      BY <1>16, <3>4
  <2>6. CASE k # Len(g) /\ k = 1
    <3>a. f = Frame(s, "header", 0)
      <4> HIDE DEF g, r
      <4> QED
        BY <1>18, <2>1, <2>6
    <3>1. f.kind = "header" /\ "header" \notin Terminal
      BY <3>a DEF Frame, Terminal
    <3>2. ~header[s]
      <4>1. DOMAIN r = {}
        BY <1>1, <2>6, LenProperties
      <4> QED
        BY <1>10, <4>1 DEF KindsOf
    <3>3. header' = [header EXCEPT ![s] = TRUE]
      <4>1. ("header" \in KindsOf(n)) = TRUE
        BY <1>11, <3>1
      <4> QED
        BY <1>8, <4>1
    <3>4. UNCHANGED <<audio, last>>
      BY <1>14, <1>15, <3>1
    <3>5. Service!Header(s)
      BY <1>5, <1>9, <3>2, <3>3, <3>4 DEF Service!Header, whole, header, audio, last
    <3> QED
      BY <1>16, <3>5
  <2>7. CASE k # Len(g) /\ k # 1
    <3>a. f = Frame(s, "chunk", k - 1)
      <4> HIDE DEF g, r
      <4> QED
        BY <1>18, <2>1, <2>7
    <3>1. f.kind = "chunk" /\ "chunk" \notin Terminal
      BY <3>a DEF Frame, Terminal
    <3>2. header[s]
      <4>1. 1 \in 1..Len(r) /\ 1 \in 1..Len(g) /\ 1 # Len(g)
        BY <1>1, <1>18, <2>1, <2>7
      <4>a. r[1] = Frame(s, "header", 0)
        <5> HIDE DEF g, r
        <5> QED
          BY <2>1, <2>2, <4>1
      <4>2. r[1].kind = "header"
        BY <4>a DEF Frame
      <4>3. 1 \in DOMAIN r
        BY <1>1, <4>1, LenProperties
      <4> QED
        BY <1>10, <4>2, <4>3 DEF KindsOf
    <3>3. Len(ChunksOf(n)) = Len(audio[s]) + 1
      BY <1>3, <1>10, <3>1, AppendProperties
    <3>4. Len(ChunksOf(n)) \in Len(audio[s]) + 1 .. Len(whole[s])
      <4>1. Len(ChunksOf(g)) \in Nat /\ Len(audio[s]) \in Nat
        BY <1>3, <1>10, <2>4, LenProperties
      <4> QED
        BY <1>10, <2>4, <3>3, <4>1
    <3>5. audio' = [audio EXCEPT ![s] = SubSeq(whole[s], 1, Len(ChunksOf(n)))]
      BY <1>6, <1>10, <2>4
    <3>6. UNCHANGED <<header, last>>
      BY <1>13, <1>14, <3>1
    <3>7. Service!Chunk(s)
      BY <1>5, <1>9, <3>2, <3>4, <3>5, <3>6 DEF Service!Chunk, whole, header, audio, last
    <3> QED
      BY <1>16, <3>7
  <2> QED
    BY <2>5, <2>6, <2>7
<1> QED
  BY <1>17, <1>18 DEF May

\* Every stream from a pipe in sync implements the service that RelayStream implements
\* for relayed ones: for any number of streams of any length, clients that hang up,
\* workers that die, and whatever the channels and the pipe hold, each client gets a
\* header, the audio in order and one terminal frame, an end only after all of it.
THEOREM ServiceStreamed == Spec => FramesAsPromised
<1>1. Init => Service!Init
  <2> SUFFICES ASSUME Init PROVE Service!Init
    OBVIOUS
  <2>1. \A t \in Streams : received[t] = <<>>
    BY DEF Init
  <2>2. KindsOf(<<>>) = {}
    BY DEF KindsOf
  <2>3. ChunksOf(<<>>) = <<>>
    <3>1. [i \in DOMAIN <<>> |-> IF <<>>[i].kind = "chunk" THEN <<<<>>[i]>> ELSE <<>>] = <<>>
      OBVIOUS
    <3> QED
      BY <3>1, FlattenEmpty DEF ChunksOf
  <2>4. LastOf(<<>>) = "none"
    BY <2>2 DEF LastOf
  <2>5. ("header" \in KindsOf(<<>>)) = FALSE
    BY <2>2
  <2>6. [t \in Streams |-> "header" \in KindsOf(received[t])] = [t \in Streams |-> FALSE]
    BY <2>1, <2>5
  <2>7. [t \in Streams |-> ChunksOf(received[t])] = [t \in Streams |-> <<>>]
    BY <2>1, <2>3
  <2>8. [t \in Streams |-> LastOf(received[t])] = [t \in Streams |-> "none"]
    BY <2>1, <2>4
  <2>9. DOMAIN [t \in Streams |-> ChunksOf(Generation(t))] = Streams
    OBVIOUS
  <2> QED
    BY <2>6, <2>7, <2>8, <2>9 DEF Service!Init
<1>2. ASSUME PipeInv, LineInv, [Next]_vars, received' # received
      PROVE  Service!Next \/ \E s \in misled : received'[s] # received[s]
  <2>1. PICK s \in Streams : WriteFrame(s)
    BY <1>2 DEF Next, HandlerTask, Submit, HangUp, WatcherSeesEof, Recv, WriteFails,
                RelayTask, Spawn, SpawnFailed, WorkerAlive, WriteRequest, WorkerLost, Cancel,
                ReadPart, Misread, MisreadTooLarge, Send, SendLost, WorkerTask, Begin, Worker,
                WriteFrameKind, WriteErrorKind, WriteRest, WritePart, Crash, Ended, Starved,
                vars, relayVars, handlerVars, signalVars
  <2>2. /\ s \notin gone /\ received' = [received EXCEPT ![s] = Append(@, frame[s])]
    BY <1>2, <2>1 DEF WriteFrame
  <2>3. TypeOK
    BY <1>2 DEF PipeInv
  <2>4. received[s] \in Seq(FrameSet) /\ frame[s] \in FrameSet
    BY <2>3, LineTypes
  <2>5. CASE s \in misled
    <3>1. received'[s] = Append(received[s], frame[s])
      BY <2>2, <2>3 DEF TypeOK
    <3>2. Len(Append(received[s], frame[s])) = Len(received[s]) + 1 /\ Len(received[s]) \in Nat
      BY <2>4, AppendProperties, LenProperties
    <3>3. received'[s] # received[s]
      BY <3>1, <3>2
    <3> QED
      BY <2>5, <3>3
  <2>6. CASE s \notin misled
    <3>1. Lined(s)
      BY <1>2, <2>2, <2>6 DEF LineInv, Honest, InLine
    <3>2. /\ \A i \in 1..Len(received[s]) : /\ received[s][i].kind \notin Terminal
                                           /\ May(s, i, received[s][i])
          /\ May(s, Len(received[s]) + 1, frame[s])
      BY <2>1, <2>2, <2>3, <3>1, WritesNext
    <3> QED
      BY <2>2, <2>3, <2>4, <3>2, DeliveryServes
  <2> QED
    BY <2>5, <2>6
<1>3. received' = received => UNCHANGED Service!vars
  BY DEF Service!vars
<1>4. PipeInv /\ LineInv /\ [Next]_vars
         => [Service!Next \/ \E s \in misled : received'[s] # received[s]]_(Service!vars)
  BY <1>2, <1>3
<1> QED
  BY LineInvariance, <1>1, <1>4, PTL DEF Spec, FramesAsPromised

=============================================================================
