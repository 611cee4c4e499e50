-------------------------- MODULE RelayOrderProofs --------------------------
(* Proofs about what the client of a relayed stream gets: the samples in the *)
(* order of the upstream, an end only where its response ended, one terminal  *)
(* frame.                                                                    *)
EXTENDS RelayStreamProofs

-----------------------------------------------------------------------------
(* Frames on their way.                                                      *)

\* The frame the handler writes, and all frames of the stream in their order:
\* received, being written, in the channel.
Writing == IF frame = NoFrame THEN <<>> ELSE <<frame>>
Line == received \o InFlight

\* The second part of the inductive invariant, about the frames a client that
\* listens got or will get, in their order.  The place of a frame tells its kind,
\* nothing follows a terminal one, and the forwarding task goes on reading only
\* while it has made none.
Shape(line) ==
    \A i \in 1..Len(line) :
        /\ line[i].kind \in IF i = 1 THEN {"header", "error"} ELSE {"chunk", "end", "error"}
        /\ line[i].kind \in Terminal => i = Len(line)

\* One header first, chunks of samples, a terminal frame last.
LineShape(line) ==
    /\ Shape(line)
    /\ fpc \in {"request", "read"} => \A i \in 1..Len(line) : line[i].kind \notin Terminal
    /\ \A i \in 1..Len(line) : line[i].kind = "end" => closed
    /\ \A i \in 1..Len(line) : line[i].kind = "header" => header = HeaderLen
    /\ fpc = "request" => line = <<>> /\ header = 0
    /\ fpc = "read" /\ line = <<>> => header < HeaderLen
    /\ fpc # "dropped"

\* What handle_stream_relay knows of them.
Handled ==
    /\ pc \in {"join", "finish", "done"} => chan = <<>> /\ fpc = "done"
    /\ final = "none" /\ pc # "done" =>
          \A i \in 1..Len(received) : received[i].kind \notin Terminal
    /\ final # "none" \/ pc = "done" => received # <<>> /\ Last(received).kind \in Terminal
    /\ pc \in {"select", "write"} => final = "none"

\* A terminal frame that the client got is the end of what is read.
Concluded ==
    /\ EndIsComplete
    /\ \A i \in DOMAIN received : received[i].kind \in Terminal => fpc = "done"

\* The line and what the client got of it.
LineInv ==
    /\ received \in Seq(Sendable)
    /\ rxOpen <=> pc # "done"
    /\ ~gone => /\ LineShape(Line)
                /\ SamplesOf(Line) = Upstream(pos \div 2)
                /\ Handled
    /\ Concluded

\* The inductive invariant.
RelayInv == MadeInv /\ LineInv

\* It stays so while the client gets nothing more.
LEMMA ConcludedStays ==
    ASSUME Concluded, received' = received,
           fpc = "done" => fpc' = "done" /\ UNCHANGED <<pos, closed>>
    PROVE  Concluded'
<1>1. CASE \A i \in DOMAIN received : received[i].kind \notin Terminal
  BY <1>1 DEF Concluded, EndIsComplete
<1>2. CASE fpc = "done"
  <2>1. SamplesOf(received)' = SamplesOf(received)
    BY DEF SamplesOf
  <2>2. pos' = pos /\ closed' = closed /\ fpc' = "done"
    BY <1>2
  <2> QED
    BY <2>1, <2>2 DEF Concluded, EndIsComplete
<1> QED
  BY <1>1, <1>2 DEF Concluded

\* The line's parts.
LEMMA LineParts ==
    ASSUME MadeInv, received \in Seq(Sendable)
    PROVE  /\ Writing \in Seq(Sendable) /\ chan \in Seq(Sendable) /\ outbox \in Seq(Sendable)
           /\ Writing = IF pc = "write" THEN <<frame>> ELSE <<>>
           /\ InFlight = (Writing \o chan) \o outbox
           /\ Line = (received \o (Writing \o chan)) \o outbox
           /\ Line = (received \o Writing) \o (chan \o outbox)
           /\ Line \in Seq(Sendable) /\ received \o (Writing \o chan) \in Seq(Sendable)
           /\ received \o Writing \in Seq(Sendable) /\ chan \o outbox \in Seq(Sendable)
           /\ InFlight \in Seq(Sendable)
<1>1. /\ chan \in Seq(Sendable) /\ outbox \in Seq(Sendable)
      /\ IF pc = "write" THEN frame \in Sendable ELSE frame = NoFrame
      /\ <<>> \in Seq(Sendable)
  BY EmptySeq DEF MadeInv
<1>2. Writing = IF pc = "write" THEN <<frame>> ELSE <<>>
  BY <1>1, FramesAreSendable DEF Writing
<1>3. Writing \in Seq(Sendable)
  <2>1. pc = "write" => <<frame>> \in Seq(Sendable)
    BY <1>1
  <2> QED
    BY <1>1, <1>2, <2>1
<1>4. InFlight = (Writing \o chan) \o outbox
  BY DEF InFlight, Writing
<1>5. Line = received \o ((Writing \o chan) \o outbox)
  BY <1>4 DEF Line
<1> HIDE DEF Writing
<1>6. Writing \o chan \in Seq(Sendable) /\ chan \o outbox \in Seq(Sendable)
      /\ received \o Writing \in Seq(Sendable)
  BY <1>1, <1>3, ConcatProperties
<1>7. (Writing \o chan) \o outbox \in Seq(Sendable)
      /\ received \o (Writing \o chan) \in Seq(Sendable)
  BY <1>1, <1>3, <1>6, ConcatProperties
<1>8. Line \in Seq(Sendable)
  BY <1>5, <1>7, ConcatProperties
<1>9. Line = (received \o (Writing \o chan)) \o outbox
  <2>1. (received \o (Writing \o chan)) \o outbox = received \o ((Writing \o chan) \o outbox)
    BY <1>1, <1>6, ConcatAssociative, SMTT(20)
  <2> QED
    BY <1>5, <2>1
<1>10. (received \o (Writing \o chan)) = (received \o Writing) \o chan
  BY <1>1, <1>3, ConcatAssociative, SMTT(20)
<1>11. ((received \o Writing) \o chan) \o outbox = (received \o Writing) \o (chan \o outbox)
  BY <1>1, <1>6, ConcatAssociative, SMTT(20)
<1> QED
  BY <1>1, <1>2, <1>3, <1>4, <1>6, <1>7, <1>8, <1>9, <1>10, <1>11

\* Adding frames at the end of a line without a terminal frame.
LEMMA ShapeExtended ==
    ASSUME NEW line \in Seq(Sendable), NEW more \in Seq(Sendable), Shape(line),
           \A i \in 1..Len(line) : line[i].kind \notin Terminal,
           \A i \in 1..Len(more) :
              /\ more[i].kind \in IF Len(line) + i = 1 THEN {"header", "error"}
                                  ELSE {"chunk", "end", "error"}
              /\ more[i].kind \in Terminal => i = Len(more)
    PROVE  /\ Shape(line \o more)
           /\ line \o more \in Seq(Sendable)
           /\ Len(line \o more) = Len(line) + Len(more)
           /\ \A i \in 1..Len(line \o more) :
                 \/ i \in 1..Len(line) /\ (line \o more)[i] = line[i]
                 \/ i - Len(line) \in 1..Len(more) /\ (line \o more)[i] = more[i - Len(line)]
<1> DEFINE all == line \o more
<1>1. /\ all \in Seq(Sendable) /\ Len(all) = Len(line) + Len(more)
      /\ \A i \in 1..(Len(line) + Len(more)) :
            all[i] = IF i <= Len(line) THEN line[i] ELSE more[i - Len(line)]
      /\ Len(line) \in Nat /\ Len(more) \in Nat
  BY ConcatProperties, LenProperties
<1> HIDE DEF all
<1>2. ASSUME NEW i \in 1..Len(all)
      PROVE  \/ i \in 1..Len(line) /\ all[i] = line[i]
             \/ i - Len(line) \in 1..Len(more) /\ all[i] = more[i - Len(line)]
  BY <1>1
<1>3. ASSUME NEW i \in 1..Len(all)
      PROVE  /\ all[i].kind \in IF i = 1 THEN {"header", "error"} ELSE {"chunk", "end", "error"}
             /\ all[i].kind \in Terminal => i = Len(all)
  <2>1. CASE i \in 1..Len(line) /\ all[i] = line[i]
    BY <2>1 DEF Shape
  <2>2. CASE i - Len(line) \in 1..Len(more) /\ all[i] = more[i - Len(line)]
    <3> DEFINE j == i - Len(line)
    <3>1. i = Len(line) + j /\ j \in 1..Len(more)
      BY <1>1, <2>2
    <3> HIDE DEF j
    <3>2. all[i] = more[j]
      BY <2>2 DEF j
    <3> QED
      BY <1>1, <3>1, <3>2
  <2> QED
    BY <1>2, <2>1, <2>2
<1>4. Shape(all)
  BY <1>3 DEF Shape
<1> QED
  BY <1>1, <1>2, <1>4 DEF all

-----------------------------------------------------------------------------
(* Steps of the forwarding task.                                             *)

\* Frames that may follow those of a line.
Fits(line, frames) ==
    \A i \in 1..Len(frames) :
        /\ frames[i].kind \in IF Len(line) + i = 1 THEN {"header", "error"}
                              ELSE {"chunk", "end", "error"}
        /\ frames[i].kind \in Terminal => i = Len(frames)

\* Frames put into an empty outbox go to the end of the line.
LEMMA LineAdds ==
    ASSUME MadeInv, received \in Seq(Sendable), outbox = <<>>,
           NEW at, NEW frames \in Seq(Sendable), Forwarder(at, frames)
    PROVE  Line' = Line \o frames
<1> DEFINE before == received \o (Writing \o chan)
<1>1. Line' = received \o ((Writing \o chan) \o frames)
  BY DEF Forwarder, Line, InFlight, Writing
<1>2. /\ Line = before \o <<>> /\ before \in Seq(Sendable)
      /\ Writing \in Seq(Sendable) /\ chan \in Seq(Sendable)
  BY LineParts
<1>3. before \o <<>> = before
  <2> HIDE DEF before
  <2> QED
    BY <1>2, ConcatEmptySeq
<1>4. Writing \o chan \in Seq(Sendable)
  BY <1>2, ConcatProperties
<1>5. before \o frames = received \o ((Writing \o chan) \o frames)
  BY <1>4, ConcatAssociative, SMTT(20)
<1> QED
  BY <1>1, <1>2, <1>3, <1>5

\* The task puts what it makes of an answer of the upstream into its outbox.
LEMMA ForwarderAdds ==
    ASSUME RelayInv, outbox = <<>>, fpc \in {"request", "read"},
           NEW at \in {"read", "send", "done"},
           NEW frames \in Seq(Sendable), Forwarder(at, frames),
           header = HeaderLen => header' = HeaderLen,
           ~gone => /\ Fits(Line, frames)
                    /\ \A i \in 1..Len(frames) :
                          /\ frames[i].kind \in Terminal => at # "read"
                          /\ frames[i].kind = "end" => closed'
                          /\ frames[i].kind = "header" => header' = HeaderLen
                    /\ at = "read" /\ Line = <<>> /\ frames = <<>> => header' < HeaderLen
                    /\ SamplesOf(Line \o frames) = Upstream(pos' \div 2)
    PROVE  LineInv'
<1>1. received \in Seq(Sendable) /\ MadeInv
  BY DEF RelayInv, LineInv
<1>2. /\ fpc' = at /\ outbox' = frames
      /\ UNCHANGED <<chan, rxOpen, pc, frame, final, gone, received>>
  BY DEF Forwarder
<1>3. Concluded'
  BY <1>2, ConcludedStays DEF RelayInv, LineInv
<1>4. received' \in Seq(Sendable) /\ (rxOpen' <=> pc' # "done")
  BY <1>2 DEF RelayInv, LineInv
<1>5. ASSUME ~gone'
      PROVE  LineShape(Line)' /\ (SamplesOf(Line) = Upstream(pos \div 2))' /\ Handled'
  <2>1. ~gone /\ LineShape(Line) /\ Handled
    BY <1>2, <1>5 DEF RelayInv, LineInv
  <2>2. Line' = Line \o frames
    BY <1>1, LineAdds
  <2>3. Handled'
    BY <1>2, <2>1 DEF Handled
  <2>4. /\ Line \in Seq(Sendable) /\ Shape(Line) /\ Fits(Line, frames)
        /\ \A i \in 1..Len(Line) : Line[i].kind \notin Terminal
        /\ \A i \in 1..Len(Line) : Line[i].kind = "header" => header = HeaderLen
    BY <1>1, <2>1, LineParts DEF LineShape
  <2> DEFINE all == Line \o frames
  <2>5. /\ Shape(all) /\ all \in Seq(Sendable) /\ Len(all) = Len(Line) + Len(frames)
        /\ \A i \in 1..Len(all) :
                 \/ i \in 1..Len(Line) /\ all[i] = Line[i]
                 \/ i - Len(Line) \in 1..Len(frames) /\ all[i] = frames[i - Len(Line)]
    BY <2>4, ShapeExtended DEF Fits
  <2>6. all = <<>> => Line = <<>> /\ frames = <<>>
    BY <2>4, ConcatEqualIffEmpty
  <2> HIDE DEF all
  <2>7. ASSUME NEW i \in 1..Len(all)
        PROVE  /\ fpc' = "read" => all[i].kind \notin Terminal
               /\ all[i].kind = "end" => closed'
               /\ all[i].kind = "header" => header' = HeaderLen
    <3>1. CASE i \in 1..Len(Line) /\ all[i] = Line[i]
      BY <2>4, <3>1 DEF Terminal
    <3>2. CASE i - Len(Line) \in 1..Len(frames) /\ all[i] = frames[i - Len(Line)]
      <4>1. PICK j \in 1..Len(frames) : all[i] = frames[j]
        BY <3>2
      <4> QED
        BY <1>2, <2>1, <4>1
    <3> QED
      BY <2>5, <3>1, <3>2
  <2>8. fpc' = "read" /\ all = <<>> => header' < HeaderLen
    BY <1>2, <2>1, <2>6
  <2>9. Line' = all
    BY <2>2 DEF all
  <2>10. LineShape(Line)'
    BY <1>2, <2>5, <2>7, <2>8, <2>9 DEF LineShape, Shape
  <2> QED
    BY <2>1, <2>2, <2>3, <2>10
<1> QED
  BY <1>3, <1>4, <1>5 DEF LineInv

\* An answer without a frame: the line is the same.
LEMMA AddsNothing ==
    ASSUME RelayInv, outbox = <<>>, fpc \in {"request", "read"},
           NEW at \in {"read", "done"}, Forwarder(at, <<>>),
           header = HeaderLen => header' = HeaderLen, pos' = pos,
           at = "read" /\ ~gone /\ Line = <<>> => header' < HeaderLen
    PROVE  LineInv'
<1>1. Fits(Line, <<>>) /\ <<>> \in Seq(Sendable) /\ Len(<<>>) = 0 /\ 1..0 = {}
  BY EmptySeq DEF Fits
<1>2. ~gone => SamplesOf(Line \o <<>>) = Upstream(pos' \div 2)
  <2>1. Line \in Seq(Sendable)
    BY LineParts DEF RelayInv, LineInv
  <2>2. Line \o <<>> = Line
    BY <2>1, ConcatEmptySeq
  <2>3. ~gone => SamplesOf(Line) = Upstream(pos \div 2)
    BY DEF RelayInv, LineInv
  <2> HIDE DEF Line
  <2> QED
    BY <2>2, <2>3
<1>3. at \in {"read", "send", "done"}
  OBVIOUS
<1>4. \A i \in 1..Len(<<>>) :
          /\ <<>>[i].kind \in Terminal => at # "read"
          /\ <<>>[i].kind = "end" => closed'
          /\ <<>>[i].kind = "header" => header' = HeaderLen
  BY <1>1
<1> DEFINE frames == <<>>
<1>5. /\ Fits(Line, frames) /\ frames \in Seq(Sendable) /\ Forwarder(at, frames)
      /\ ~gone => SamplesOf(Line \o frames) = Upstream(pos' \div 2)
      /\ \A i \in 1..Len(frames) :
          /\ frames[i].kind \in Terminal => at # "read"
          /\ frames[i].kind = "end" => closed'
          /\ frames[i].kind = "header" => header' = HeaderLen
  BY <1>1, <1>2, <1>4
<1> HIDE DEF frames
<1> QED
  BY <1>3, <1>5, ForwarderAdds

\* A terminal frame: nothing can follow it, since the task reads no more.
LEMMA AddsTerminal ==
    ASSUME RelayInv, outbox = <<>>, fpc \in {"request", "read"},
           NEW kind \in Terminal, Forwarder("send", <<Frame(kind, <<>>)>>),
           header = HeaderLen => header' = HeaderLen, pos' = pos,
           kind = "end" => closed',
           kind = "end" /\ ~gone => Line # <<>>
    PROVE  LineInv'
<1> DEFINE f == Frame(kind, <<>>)
           frames == <<f>>
<1>1. /\ f \in Sendable /\ f \in Frames /\ f.kind = kind /\ f.data = <<>>
  BY FramesAreSendable DEF Frame
<1>2. Line \in Seq(Sendable)
  BY LineParts DEF RelayInv, LineInv
<1>3. Forwarder("send", frames)
  OBVIOUS
<1> HIDE DEF f
<1>4. frames \in Seq(Sendable) /\ Len(frames) = 1 /\ \A i \in 1..Len(frames) : frames[i] = f
  BY <1>1
<1>5. frames \in Seq(Frames) /\ Line \in Seq(Frames)
  BY <1>2, <1>4, FramesAreSendable, SeqMonotonic
<1>6. SamplesOf(frames) = <<>>
  BY <1>1, SamplesOfOne
<1> HIDE DEF frames
<1>7. ~gone => SamplesOf(Line \o frames) = Upstream(pos' \div 2)
  <2>1. SamplesOf(Line \o frames) = SamplesOf(Line) \o SamplesOf(frames)
        /\ SamplesOf(Line) \in Seq(Pairs)
    BY <1>5, SamplesConcat
  <2>2. SamplesOf(Line) \o <<>> = SamplesOf(Line)
    BY <2>1, ConcatEmptySeq
  <2>3. ~gone => SamplesOf(Line) = Upstream(pos \div 2)
    BY DEF RelayInv, LineInv
  <2> HIDE DEF Line
  <2> QED
    BY <1>6, <2>1, <2>2, <2>3
<1>8. ~gone => Fits(Line, frames)
  <2>1. Line # <<>> => Len(Line) \in Nat \ {0}
    BY <1>2, EmptySeq
  <2>2. Len(Line) \in Nat
    BY <1>2, LenProperties
  <2> HIDE DEF Line
  <2> QED
    BY <1>1, <1>4, <2>1, <2>2 DEF Fits, Terminal
<1>9. \A i \in 1..Len(frames) :
          /\ frames[i].kind \in Terminal => "send" # "read"
          /\ frames[i].kind = "end" => closed'
          /\ frames[i].kind = "header" => header' = HeaderLen
  BY <1>1, <1>4 DEF Terminal
<1> QED
  BY <1>3, <1>4, <1>7, <1>8, <1>9, ForwarderAdds

\* The frames of a chunk of the upstream: the header in the first place, samples
\* after it.
LEMMA AddsRead ==
    ASSUME RelayInv, NEW h \in Nat, NEW b \in Nat, pos + b <= BodyLen,
           NEW frames \in {<<>>, <<HeaderFrame>>}, Read(h, b, frames),
           frames # <<>> => header < HeaderLen /\ header + h = HeaderLen,
           frames = <<>> => IF header < HeaderLen THEN header + h < HeaderLen /\ b = 0
                            ELSE header = HeaderLen /\ h = 0
    PROVE  LineInv'
<1>1. MadeInv /\ received \in Seq(Sendable)
      /\ (~gone => LineShape(Line) /\ SamplesOf(Line) = Upstream(pos \div 2))
  BY DEF RelayInv, LineInv
<1>2. /\ outbox = <<>> /\ fpc = "read" /\ pos' = pos + b /\ header' = header + h
      /\ fpc' = IF outbox' = <<>> THEN "read" ELSE "send"
      /\ Forwarder(fpc', outbox')
  BY <1>1, ReadMakes DEF Forwarder
<1>3. PICK d \in Seq(Pairs) : /\ Upstream(pos \div 2) \o d = Upstream(pos' \div 2)
                              /\ outbox' = frames \o ChunkOf(d)
  BY <1>1, ReadMakes
<1> DEFINE made == frames \o ChunkOf(d)
<1>4. /\ made \in Seq(Sendable) /\ Len(made) <= 2
      /\ made = <<>> <=> frames = <<>> /\ d = <<>>
      /\ SamplesOf(made) = d
      /\ \A i \in 1..Len(made) :
            /\ made[i].kind \notin Terminal
            /\ made[i].kind = IF i = 1 /\ frames # <<>> THEN "header" ELSE "chunk"
  BY OutboxMade
<1> HIDE DEF made
<1>5. made = outbox' /\ Len(made) \in Nat /\ made \in Seq(Frames)
  BY <1>3, <1>4, LenProperties, FramesAreSendable, SeqMonotonic DEF made
<1>6. Line \in Seq(Sendable) /\ Line \in Seq(Frames) /\ Len(Line) \in Nat
      /\ (Line # <<>> => Len(Line) \in Nat \ {0})
  <2>1. Line \in Seq(Sendable)
    BY <1>1, LineParts
  <2> QED
    BY <2>1, EmptySeq, LenProperties, FramesAreSendable, SeqMonotonic
<1>7. header \in 0..HeaderLen /\ HeaderLen \in Nat \ {0} /\ pos \in Nat
  BY <1>1, SizesAssumption DEF MadeInv, TypeOK
<1> HIDE DEF Line
<1>8. ASSUME ~gone PROVE SamplesOf(Line \o made) = Upstream(pos' \div 2)
  <2>1. SamplesOf(Line \o made) = SamplesOf(Line) \o SamplesOf(made)
    BY <1>5, <1>6, SamplesConcat
  <2> QED
    BY <1>1, <1>3, <1>4, <1>8, <2>1
\* Before the header is complete nothing was made.
<1>9. ~gone /\ header < HeaderLen => Line = <<>>
  <2> SUFFICES ASSUME ~gone, header < HeaderLen, Line # <<>> PROVE FALSE
    OBVIOUS
  <2>1. 1 \in 1..Len(Line)
    BY <1>6
  <2>2. Line[1].kind \in {"header", "error"} /\ Line[1].kind \notin Terminal
        /\ Line[1].kind # "header"
    BY <1>1, <1>2, <1>7, <2>1 DEF LineShape, Shape
  <2> QED
    BY <2>2 DEF Terminal
<1>10. ~gone /\ header = HeaderLen => Line # <<>>
  BY <1>1, <1>2, <1>7 DEF LineShape
<1>11. b = 0 => d = <<>>
  <2> SUFFICES ASSUME b = 0 PROVE d = <<>>
    OBVIOUS
  <2>1. Upstream(pos \div 2) \o d = Upstream(pos \div 2)
    BY <1>2, <1>3, <1>7
  <2>2. Upstream(pos \div 2) \in Seq(Nat \X Nat)
    <3>1. pos \div 2 \in Nat /\ \A i \in 1..(pos \div 2) : <<2*i - 1, 2*i>> \in Nat \X Nat
      BY <1>7
    <3>2. Upstream(pos \div 2) \in [1..(pos \div 2) -> Nat \X Nat]
      BY <3>1 DEF Upstream
    <3> QED
      BY <3>1, <3>2
  <2>3. d \in Seq(Nat \X Nat)
    <3>1. Pairs \subseteq Nat \X Nat
      BY SizesAssumption DEF Pairs
    <3> QED
      BY <3>1, SeqMonotonic
  <2> QED
    BY <2>1, <2>2, <2>3, ConcatEqualIffEmpty
<1>12. ~gone => Fits(Line, made)
  <2> SUFFICES ASSUME ~gone, NEW i \in 1..Len(made)
               PROVE  made[i].kind \in IF Len(Line) + i = 1 THEN {"header", "error"}
                                       ELSE {"chunk", "end", "error"}
    BY <1>4 DEF Fits
  <2>1. CASE frames # <<>>
    <3>1. Len(Line) = 0
      BY <1>9, <2>1
    <3> QED
      BY <1>4, <1>5, <2>1, <3>1
  <2>2. CASE frames = <<>>
    <3>1. made # <<>>
      BY <1>4, <1>5, EmptySeq
    <3>2. header = HeaderLen
      BY <1>4, <1>7, <1>11, <2>2, <3>1
    <3>3. Len(Line) + i # 1
      BY <1>6, <1>10, <3>2
    <3> QED
      BY <1>4, <2>2, <3>3
  <2> QED
    BY <2>1, <2>2
<1>13. \A i \in 1..Len(made) :
          /\ made[i].kind \in Terminal => fpc' # "read"
          /\ made[i].kind = "end" => closed'
          /\ made[i].kind = "header" => header' = HeaderLen
  <2>1. frames # <<>> => header' = HeaderLen
    BY <1>2
  <2> QED
    BY <1>4, <2>1 DEF Terminal
<1>14. ~gone /\ fpc' = "read" /\ Line = <<>> /\ made = <<>> => header' < HeaderLen
  BY <1>2, <1>4, <1>7, <1>10
<1>15. header = HeaderLen => header' = HeaderLen
  BY <1>2, <1>7
<1>16. fpc' \in {"read", "send", "done"} /\ Forwarder(fpc', made)
  BY <1>2, <1>5
<1> QED
  BY <1>2, <1>4, <1>8, <1>12, <1>13, <1>14, <1>15, <1>16, ForwarderAdds

-----------------------------------------------------------------------------
(* Steps of the channel and of the handler.                                  *)

\* The start of a line that ends as it should.
LEMMA StartOfLine ==
    ASSUME NEW got \in Seq(Sendable), NEW rest \in Seq(Sendable), NEW n,
           Shape(got \o rest), SamplesOf(got \o rest) = Upstream(n \div 2),
           NEW c, \A i \in 1..Len(got \o rest) : (got \o rest)[i].kind = "end" => c
    PROVE  \A i \in DOMAIN got :
              got[i].kind \in Terminal =>
                 /\ i = Len(got) /\ rest = <<>>
                 /\ got[i].kind = "end" => c /\ SamplesOf(got) = Upstream(n \div 2)
<1> SUFFICES ASSUME NEW i \in DOMAIN got, got[i].kind \in Terminal
             PROVE  /\ i = Len(got) /\ rest = <<>>
                    /\ got[i].kind = "end" => c /\ SamplesOf(got) = Upstream(n \div 2)
  OBVIOUS
<1> DEFINE line == got \o rest
<1>1. /\ line \in Seq(Sendable) /\ Len(line) = Len(got) + Len(rest)
      /\ \A j \in 1..(Len(got) + Len(rest)) :
            line[j] = IF j <= Len(got) THEN got[j] ELSE rest[j - Len(got)]
      /\ Len(got) \in Nat /\ Len(rest) \in Nat /\ DOMAIN got = 1..Len(got)
  BY ConcatProperties, LenProperties
<1> HIDE DEF line
<1>2. i \in 1..Len(line) /\ line[i] = got[i]
  BY <1>1
<1>3. i = Len(line)
  <2>1. Shape(line)
    BY DEF line
  <2> QED
    BY <1>2, <2>1 DEF Shape
<1>4. i = Len(got) /\ rest = <<>>
  <2>1. i \in 1..Len(got)
    BY <1>1
  <2>2. Len(line) = Len(got) + Len(rest) /\ Len(got) \in Nat /\ Len(rest) \in Nat
    BY <1>1
  <2>3. i = Len(got) /\ Len(rest) = 0
    BY <1>3, <2>1, <2>2
  <2> QED
    BY <2>3, EmptySeq
<1>5. line = got
  BY <1>4, ConcatEmptySeq DEF line
<1>6. got[i].kind = "end" => c
  <2>1. line[i].kind = "end" => c
    BY <1>2 DEF line
  <2> QED
    BY <1>2, <2>1
<1>7. SamplesOf(line) = Upstream(n \div 2)
  BY DEF line
<1> QED
  BY <1>4, <1>5, <1>6, <1>7

\* Once the client hung up nothing is promised but what it got before.
LEMMA GoneKeeps ==
    ASSUME LineInv, gone', received' = received, rxOpen' <=> pc' # "done",
           fpc = "done" => fpc' = "done" /\ UNCHANGED <<pos, closed>>
    PROVE  LineInv'
<1>1. Concluded'
  BY ConcludedStays DEF LineInv
<1> QED
  BY <1>1 DEF LineInv

\* Steps that move frames along the line.
LEMMA LineMoves ==
    ASSUME RelayInv, Line' = Line, UNCHANGED <<pos, closed, header, received, rxOpen, gone>>,
           pc' # "done" <=> pc # "done", fpc = "done" => fpc' = "done",
           ~gone => LineShape(Line)' /\ Handled'
    PROVE  LineInv'
<1>1. Concluded'
  BY ConcludedStays DEF RelayInv, LineInv
<1>2. ~gone' => (SamplesOf(Line) = Upstream(pos \div 2))'
  <2>1. ~gone => SamplesOf(Line) = Upstream(pos \div 2)
    BY DEF RelayInv, LineInv
  <2> HIDE DEF Line
  <2> QED
    BY <2>1
<1> QED
  BY <1>1, <1>2 DEF RelayInv, LineInv

\* A frame into the channel: the line grows at its end.
LEMMA SendKeepsLine == RelayInv /\ Send => LineInv'
<1> SUFFICES ASSUME RelayInv, Send PROVE LineInv'
  OBVIOUS
<1>1. /\ fpc = "send" /\ chan' = Append(chan, Head(outbox))
      /\ outbox' = Tail(outbox) /\ fpc' = AfterSend
      /\ UNCHANGED <<header, pos, carry, closed, rxOpen, pc, frame, final, gone, received>>
  BY DEF Send
<1>2. MadeInv /\ received \in Seq(Sendable)
  BY DEF RelayInv, LineInv
<1>3. /\ outbox # <<>> /\ Len(outbox) \in Nat \ {0} /\ Head(outbox) = outbox[1]
      /\ AfterSend \in {"done", "read", "send"}
      /\ AfterSend = "send" <=> Tail(outbox) # <<>>
      /\ Tail(outbox) = <<>> <=> Len(outbox) = 1
      /\ Head(outbox).kind \in Terminal <=> AfterSend = "done"
  BY <1>1, <1>2, OutboxSent
<1>4. /\ Writing \in Seq(Sendable) /\ chan \in Seq(Sendable) /\ outbox \in Seq(Sendable)
      /\ received \o Writing \in Seq(Sendable)
      /\ Line = (received \o Writing) \o (chan \o outbox)
      /\ Line = (received \o (Writing \o chan)) \o outbox
      /\ received \o (Writing \o chan) \in Seq(Sendable) /\ Line \in Seq(Sendable)
  BY <1>2, LineParts
<1>5. Line' = Line
  <2>1. Line' = received \o ((Writing \o chan') \o outbox')
    BY <1>1 DEF Line, InFlight, Writing
  <2>2. chan' \o outbox' = chan \o outbox
    BY <1>1, <1>3, <1>4, HeadMoves
  <2>3. Head(outbox) \in Sendable /\ Tail(outbox) \in Seq(Sendable)
    BY <1>3, <1>4, HeadTailProperties
  <2>4. chan' \in Seq(Sendable) /\ outbox' \in Seq(Sendable)
    BY <1>1, <1>4, <2>3, AppendProperties
  <2> DEFINE c == chan'
             o == outbox'
  <2>5. c \in Seq(Sendable) /\ o \in Seq(Sendable)
    BY <2>4
  <2> HIDE DEF c, o
  <2>6. (Writing \o c) \o o = Writing \o (c \o o) /\ c \o o \in Seq(Sendable)
    <3> DEFINE w == Writing
    <3>1. w \in Seq(Sendable)
      BY <1>4
    <3> HIDE DEF w
    <3>2. (w \o c) \o o = w \o (c \o o)
      BY <2>5, <3>1, ConcatAssociative
    <3>3. c \o o \in Seq(Sendable)
      BY <2>5, ConcatProperties
    <3> QED
      BY <3>2, <3>3 DEF w
  <2>7. received \o (Writing \o (c \o o)) = (received \o Writing) \o (c \o o)
    <3> DEFINE r == received
               w == Writing
               t == c \o o
    <3>1. r \in Seq(Sendable) /\ w \in Seq(Sendable) /\ t \in Seq(Sendable)
      BY <1>2, <1>4, <2>6
    <3> HIDE DEF r, w, t
    <3>2. r \o (w \o t) = (r \o w) \o t
      BY <3>1, ConcatAssociative
    <3> QED
      BY <3>2 DEF r, w, t
  <2> QED
    BY <1>4, <2>1, <2>2, <2>6, <2>7 DEF c, o
<1>6. ASSUME ~gone PROVE LineShape(Line)' /\ Handled'
  <2>1. LineShape(Line) /\ Handled
    BY <1>6 DEF RelayInv, LineInv
  <2>2. Handled'
    BY <1>1, <2>1 DEF Handled
  <2> DEFINE before == received \o (Writing \o chan)
  <2>3. /\ Len(Line) = Len(before) + Len(outbox) /\ Len(before) \in Nat
        /\ \A i \in 1..(Len(before) + Len(outbox)) :
              Line[i] = IF i <= Len(before) THEN before[i] ELSE outbox[i - Len(before)]
    <3>1. before \in Seq(Sendable) /\ Line = before \o outbox
      BY <1>4
    <3> HIDE DEF before, Line
    <3> QED
      BY <1>4, <3>1, ConcatProperties, LenProperties
  <2> HIDE DEF before, Line
  <2>4. ASSUME fpc' \in {"request", "read"}, NEW i \in 1..Len(Line)
        PROVE  Line[i].kind \notin Terminal
    <3>1. Len(outbox) = 1 /\ outbox[1].kind \notin Terminal
      BY <1>1, <1>3, <2>4
    <3>2. i = Len(Line) => Line[i] = outbox[1]
      BY <2>3, <3>1
    <3>3. Line[i].kind \in Terminal => i = Len(Line)
      BY <2>1 DEF LineShape, Shape
    <3> QED
      BY <3>1, <3>2, <3>3
  <2>5. Line # <<>>
    BY <1>3, <2>3
  <2>6. LineShape(Line)'
    BY <1>1, <1>3, <1>5, <2>1, <2>4, <2>5 DEF LineShape
  <2> QED
    BY <2>2, <2>6
<1>7. UNCHANGED <<pos, header, received, rxOpen, gone, pc>>
  BY <1>1
<1> HIDE DEF Line
<1> QED
  BY <1>1, <1>5, <1>6, <1>7, LineMoves

\* A frame out of the channel: the line stays as it is.
LEMMA TakeKeepsLine == RelayInv /\ TakeFrame => LineInv'
<1> SUFFICES ASSUME RelayInv, TakeFrame PROVE LineInv'
  OBVIOUS
<1>1. /\ pc = "select" /\ ~gone /\ chan # <<>> /\ frame' = Head(chan) /\ chan' = Tail(chan)
      /\ pc' = "write"
      /\ UNCHANGED <<fpc, header, pos, carry, closed, outbox, rxOpen, final, gone, received>>
  BY DEF TakeFrame, forwardVars
<1>2. MadeInv /\ received \in Seq(Sendable) /\ LineShape(Line) /\ Handled
  BY <1>1 DEF RelayInv, LineInv
<1>3. chan \in Seq(Sendable) /\ Writing = <<>>
  BY <1>1, <1>2, LineParts
<1>4. Head(chan) \in Sendable /\ Head(chan) # NoFrame /\ <<Head(chan)>> \o Tail(chan) = chan
  BY <1>1, <1>3, HeadFirst, HeadTailProperties, FramesAreSendable
<1>5. Line' = Line
  <2>1. Line = received \o ((<<>> \o chan) \o outbox)
    BY <1>3 DEF Line, InFlight, Writing
  <2>2. <<>> \o chan = chan
    BY <1>3, ConcatEmptySeq
  <2>3. Line' = received \o ((<<Head(chan)>> \o Tail(chan)) \o outbox)
    BY <1>1, <1>4 DEF Line, InFlight
  <2> QED
    BY <1>4, <2>1, <2>2, <2>3
<1> HIDE DEF Line
<1>6. LineShape(Line)'
  BY <1>1, <1>2, <1>5 DEF LineShape
<1>7. Handled'
  BY <1>1, <1>2 DEF Handled
<1> QED
  BY <1>1, <1>5, <1>6, <1>7, LineMoves

\* A frame to the client: for one that listens, the line stays as it is.
LEMMA WriteKeepsLine == RelayInv /\ WriteFrame => LineInv'
<1> SUFFICES ASSUME RelayInv, WriteFrame PROVE LineInv'
  OBVIOUS
<1>1. /\ pc = "write" /\ frame' = NoFrame /\ pc' \in {"select", "join"}
      /\ received' = IF gone THEN received ELSE Append(received, frame)
      /\ IF frame.kind \in Terminal THEN final' = frame.kind /\ pc' = "join"
                                    ELSE final' = final /\ pc' = "select"
      /\ UNCHANGED <<fpc, header, pos, carry, closed, outbox, chan, rxOpen, gone>>
  BY DEF WriteFrame, Deliver, forwardVars
<1>2. MadeInv /\ received \in Seq(Sendable) /\ rxOpen
  BY <1>1 DEF RelayInv, LineInv
<1>3. /\ chan \in Seq(Sendable) /\ outbox \in Seq(Sendable) /\ Writing = <<frame>>
      /\ chan \o outbox \in Seq(Sendable) /\ Line = (received \o Writing) \o (chan \o outbox)
  BY <1>1, <1>2, LineParts
<1>4. frame \in Sendable
  BY <1>1, <1>2 DEF MadeInv
<1>5. CASE gone
  BY <1>1, <1>2, <1>5, GoneKeeps DEF RelayInv
<1>6. CASE ~gone
  <2>1. LineShape(Line) /\ Handled /\ SamplesOf(Line) = Upstream(pos \div 2)
    BY <1>6 DEF RelayInv, LineInv
  <2> DEFINE got == received'
             rest == chan \o outbox
  <2>2. /\ got \in Seq(Sendable) /\ got # <<>> /\ Len(got) = Len(received) + 1
        /\ \A i \in 1..Len(received) : got[i] = received[i]
        /\ got[Len(received) + 1] = frame /\ Len(received) \in Nat
    BY <1>1, <1>2, <1>4, <1>6, AppendProperties, LenProperties
  <2>3. Last(got) = frame
    BY <2>2 DEF Last
  <2>4. Line = got \o rest
    <3>1. received \o <<frame>> = Append(received, frame)
      BY <1>2, <1>4, AppendIsConcat
    <3> QED
      BY <1>1, <1>3, <1>6, <3>1
  <2>5. Line' = Line
    <3>1. Line' = received' \o ((<<>> \o chan) \o outbox)
      BY <1>1 DEF Line, InFlight
    <3>2. <<>> \o chan = chan
      BY <1>3, ConcatEmptySeq
    <3> QED
      BY <2>4, <3>1, <3>2
  <2> HIDE DEF Line
  <2>6. Len(Line) = Len(got) + Len(rest) /\ Len(rest) \in Nat
        /\ \A i \in 1..Len(got) : Line[i] = got[i]
    <3>1. rest \in Seq(Sendable) /\ Line = got \o rest
      BY <1>3, <2>4
    <3> HIDE DEF got, rest
    <3>2. Len(rest) \in Nat /\ Len(got) \in Nat
      BY <2>2, <3>1, LenProperties
    <3>3. \A i \in 1..Len(got) : i \in 1..(Len(got) + Len(rest)) /\ i <= Len(got)
      BY <3>2
    <3> QED
      BY <2>2, <3>1, <3>2, <3>3, ConcatProperties
  <2>7. LineShape(Line)'
    BY <1>1, <2>1, <2>5 DEF LineShape
\* The line ends with a terminal frame, so that nothing is left of it and the
\* task that made it is done.
  <2>8. ASSUME frame.kind \in Terminal PROVE chan = <<>> /\ fpc = "done"
    <3>1. Len(got) \in 1..Len(Line) /\ Line[Len(got)].kind \in Terminal
      BY <2>2, <2>6, <2>8
    <3>2. Len(got) = Len(Line)
      BY <2>1, <3>1 DEF LineShape, Shape
    <3>3. Len(rest) = 0
      BY <2>2, <2>6, <3>2
    <3>4. rest = <<>>
      BY <1>3, <3>3, EmptySeq
    <3>5. chan = <<>> /\ outbox = <<>>
      BY <1>3, <3>4, ConcatEqualIffEmpty
    <3>6. fpc # "send" /\ fpc \in {"request", "read", "send", "done", "dropped"}
      BY <1>2, <3>5 DEF MadeInv, TypeOK
    <3> QED
      BY <2>1, <3>1, <3>5, <3>6 DEF LineShape
  <2>9. ASSUME frame.kind \notin Terminal, NEW i \in 1..Len(got)
        PROVE  got[i].kind \notin Terminal
    <3>1. final = "none"
      BY <1>1, <2>1 DEF Handled
    <3>2. i \in 1..Len(received) \/ i = Len(received) + 1
      BY <2>2
    <3> QED
      BY <1>1, <2>1, <2>2, <2>9, <3>1, <3>2 DEF Handled
  <2>10. Handled'
    <3>1. CASE frame.kind \in Terminal
      <4>1. final' # "none" /\ pc' = "join" /\ final' = frame.kind
        BY <1>1, <3>1 DEF Terminal
      <4> QED
        BY <1>1, <2>2, <2>3, <2>8, <3>1, <4>1 DEF Handled
    <3>2. CASE frame.kind \notin Terminal
      <4>1. final' = "none" /\ pc' = "select"
        BY <1>1, <2>1, <3>2 DEF Handled
      <4> QED
        BY <2>9, <3>2, <4>1 DEF Handled
    <3> QED
      BY <3>1, <3>2
  <2>11. Concluded'
    <3>1. rest \in Seq(Sendable) /\ Shape(got \o rest)
          /\ SamplesOf(got \o rest) = Upstream(pos \div 2)
          /\ \A i \in 1..Len(got \o rest) : (got \o rest)[i].kind = "end" => closed
      BY <1>3, <2>1, <2>4 DEF LineShape
    <3> HIDE DEF rest
    <3>2. \A i \in DOMAIN got :
              got[i].kind \in Terminal =>
                 /\ i = Len(got)
                 /\ got[i].kind = "end" => closed /\ SamplesOf(got) = Upstream(pos \div 2)
      <4>1. got \in Seq(Sendable)
        BY <2>2
      <4> HIDE DEF got
      <4> QED
        BY <3>1, <4>1, StartOfLine
    <3>3. \A i \in DOMAIN got : got[i].kind \in Terminal => fpc = "done"
      <4>1. \A i \in DOMAIN got : got[i].kind \in Terminal => i = Len(received) + 1
        BY <2>2, <3>2
      <4> QED
        BY <2>2, <2>8, <4>1
    <3> QED
      BY <1>1, <3>2, <3>3 DEF Concluded, EndIsComplete
  <2>12. (SamplesOf(Line) = Upstream(pos \div 2))'
    BY <1>1, <2>1, <2>5
  <2>13. received' \in Seq(Sendable) /\ (rxOpen' <=> pc' # "done")
    BY <1>1, <1>2, <2>2
  <2> QED
    BY <2>7, <2>10, <2>11, <2>12, <2>13 DEF LineInv
<1> QED
  BY <1>5, <1>6

\* The terminal frame the handler writes itself.
LEMMA ConcludeKeepsLine == RelayInv /\ Conclude => LineInv'
<1> SUFFICES ASSUME RelayInv, Conclude PROVE LineInv'
  OBVIOUS
<1> DEFINE f == Frame("error", <<>>)
<1>1. /\ pc = "finish" /\ pc' = "done" /\ rxOpen' = FALSE /\ chan' = <<>>
      /\ received' = IF final = "none" /\ ~gone THEN Append(received, f) ELSE received
      /\ UNCHANGED <<fpc, header, pos, carry, closed, outbox, frame, final, gone>>
  BY DEF Conclude, Return, Deliver, forwardVars
<1>2. MadeInv /\ received \in Seq(Sendable)
  BY DEF RelayInv, LineInv
<1>3. CASE gone
  BY <1>1, <1>2, <1>3, GoneKeeps DEF RelayInv
<1>4. CASE ~gone
  <2>1. LineShape(Line) /\ Handled /\ SamplesOf(Line) = Upstream(pos \div 2)
        /\ Concluded
    BY <1>4 DEF RelayInv, LineInv
  <2>2. /\ chan = <<>> /\ fpc = "done" /\ outbox = <<>> /\ frame = NoFrame
    BY <1>1, <1>2, <2>1 DEF Handled, MadeInv, TypeOK
  <2>3. \A r \in Seq(Sendable) : r \o ((<<>> \o <<>>) \o <<>>) = r
    <3>1. (<<>> \o <<>>) \o <<>> = <<>>
      <4>1. <<>> \in Seq(Sendable)
        BY EmptySeq
      <4>2. <<>> \o <<>> = <<>>
        BY <4>1, ConcatEmptySeq
      <4> QED
        BY <4>2
    <3> QED
      BY <3>1, ConcatEmptySeq
  <2>4. f \in Sendable /\ f \in Frames /\ f.kind = "error" /\ f.data = <<>>
    BY FramesAreSendable DEF Frame, Terminal
  <2> HIDE DEF f
  <2>5. received' \in Seq(Sendable)
    BY <1>1, <1>2, <2>4, AppendProperties
  <2>6. Line = received /\ Line' = received'
    <3>1. Line = received \o ((<<>> \o <<>>) \o <<>>)
      BY <2>2 DEF Line, InFlight
    <3>2. Line' = received' \o ((<<>> \o <<>>) \o <<>>)
      BY <1>1, <2>2 DEF Line, InFlight
    <3>3. received' \o ((<<>> \o <<>>) \o <<>>) = received'
      BY <2>3, <2>5
    <3> QED
      BY <1>2, <2>3, <3>1, <3>2, <3>3
  <2> HIDE DEF Line
  <2>7. CASE final # "none"
    <3>1. received' = received
      BY <1>1, <2>7
    <3>2. Concluded'
      BY <1>1, <2>1, <3>1, ConcludedStays
    <3>3. Handled'
      BY <1>1, <2>1, <2>2, <2>7, <3>1 DEF Handled
    <3>4. LineShape(Line)' /\ (SamplesOf(Line) = Upstream(pos \div 2))'
      BY <1>1, <2>1, <2>6, <3>1 DEF LineShape
    <3> QED
      BY <1>1, <2>5, <3>2, <3>3, <3>4 DEF LineInv
  <2>8. CASE final = "none"
    <3> DEFINE one == <<f>>
    <3>1. one \in Seq(Sendable) /\ Len(one) = 1 /\ \A i \in 1..Len(one) : one[i] = f
      BY <2>4
    <3>2. received' = received \o one
      BY <1>1, <1>2, <1>4, <2>4, <2>8, AppendIsConcat
    <3>3. SamplesOf(one) = <<>>
      BY <2>4, SamplesOfOne
    <3> HIDE DEF one
    <3>4. \A i \in 1..Len(received) : received[i].kind \notin Terminal
      BY <1>1, <2>1, <2>8 DEF Handled
    <3>5. Shape(received)
      BY <2>1, <2>6 DEF LineShape
    <3>6. \A i \in 1..Len(one) :
              /\ one[i].kind \in IF Len(received) + i = 1 THEN {"header", "error"}
                                 ELSE {"chunk", "end", "error"}
              /\ one[i].kind \in Terminal => i = Len(one)
      BY <2>4, <3>1
    <3>7. /\ Shape(received')
          /\ Len(received') = Len(received) + 1
          /\ \A i \in 1..Len(received') :
                 \/ i \in 1..Len(received) /\ received'[i] = received[i]
                 \/ i - Len(received) \in 1..Len(one)
                    /\ received'[i] = one[i - Len(received)]
      BY <1>2, <3>1, <3>2, <3>4, <3>5, <3>6, ShapeExtended
    <3>8. ASSUME NEW i \in 1..Len(received')
          PROVE  /\ received'[i].kind # "end"
                 /\ received'[i].kind = "header" => header' = HeaderLen
      <4>1. CASE i \in 1..Len(received) /\ received'[i] = received[i]
        BY <1>1, <2>1, <2>6, <3>4, <4>1 DEF LineShape, Terminal
      <4>2. CASE received'[i] = f
        BY <2>4, <4>2
      <4> QED
        BY <3>1, <3>7, <4>1, <4>2
    <3>9. LineShape(Line)'
      BY <1>1, <2>2, <2>6, <3>7, <3>8 DEF LineShape
    <3>10. (SamplesOf(Line) = Upstream(pos \div 2))'
      <4>1. received \in Seq(Frames) /\ one \in Seq(Frames)
        BY <1>2, <3>1, FramesAreSendable, SeqMonotonic
      <4>2. SamplesOf(received \o one) = SamplesOf(received) \o SamplesOf(one)
            /\ SamplesOf(received) \in Seq(Pairs)
        BY <4>1, SamplesConcat
      <4>3. SamplesOf(received) \o <<>> = SamplesOf(received)
        BY <4>2, ConcatEmptySeq
      <4> QED
        BY <1>1, <2>1, <2>6, <3>2, <3>3, <4>2, <4>3
    <3>11. received' # <<>> /\ Last(received') = f
      <4>1. received' = Append(received, f) /\ Len(received) \in Nat
        BY <1>1, <1>2, <1>4, <2>8, LenProperties
      <4> QED
        BY <1>2, <2>4, <4>1, AppendProperties DEF Last
    <3>12. Handled'
      BY <1>1, <2>2, <2>4, <3>11 DEF Handled, Terminal
    <3>13. Concluded'
      <4>1. DOMAIN received' = 1..Len(received')
        BY <2>5, LenProperties
      <4> QED
        BY <1>1, <2>2, <3>7, <3>8, <4>1 DEF Concluded, EndIsComplete, Shape
    <3> QED
      BY <1>1, <2>5, <3>9, <3>10, <3>12, <3>13 DEF LineInv
  <2> QED
    BY <2>7, <2>8
<1> QED
  BY <1>3, <1>4

-----------------------------------------------------------------------------
(* The inductive invariant.                                                  *)

\* An empty line.
LEMMA InitLineInv == Init => LineInv
<1> SUFFICES ASSUME Init PROVE LineInv
  OBVIOUS
<1>1. /\ <<>> \in Seq(Sendable) /\ <<>> \in Seq(Frames) /\ Len(<<>>) = 0
      /\ 1..0 = {} /\ DOMAIN <<>> = {}
  BY EmptySeq
<1>2. /\ received = <<>> /\ fpc = "request" /\ header = 0 /\ pos = 0 /\ rxOpen
      /\ pc = "select" /\ final = "none"
  BY DEF Init
<1>3. Line = <<>>
  <2>1. Line = <<>> \o ((<<>> \o <<>>) \o <<>>)
    BY DEF Init, Line, InFlight
  <2>2. <<>> \o <<>> = <<>>
    BY <1>1, ConcatEmptySeq
  <2> QED
    BY <2>1, <2>2
<1> HIDE DEF Line
<1>4. LineShape(Line)
  BY <1>1, <1>2, <1>3, SizesAssumption DEF LineShape, Shape
<1>5. Handled
  BY <1>1, <1>2 DEF Handled
<1>6. SamplesOf(Line) = Upstream(pos \div 2)
  <2>1. [i \in DOMAIN <<>> |-> <<>>[i].data] = <<>>
    OBVIOUS
  <2>2. SamplesOf(<<>>) = <<>>
    BY <2>1, FlattenEmpty DEF SamplesOf
  <2>3. 0 \div 2 = 0 /\ Upstream(0) = <<>>
    BY DEF Upstream
  <2> QED
    BY <1>2, <1>3, <2>2, <2>3
<1>7. Concluded
  BY <1>1, <1>2 DEF Concluded, EndIsComplete
<1> QED
  BY <1>1, <1>2, <1>4, <1>5, <1>6, <1>7 DEF LineInv

\* Every step keeps the line.
LEMMA NextLineInv == RelayInv /\ [Next]_vars => LineInv'
<1> SUFFICES ASSUME RelayInv, [Next]_vars PROVE LineInv'
  OBVIOUS
<1>1. /\ MadeInv /\ received \in Seq(Sendable) /\ (rxOpen <=> pc # "done")
      /\ (~gone => LineShape(Line) /\ Handled)
  BY DEF RelayInv, LineInv
<1>2. /\ header \in 0..HeaderLen /\ pos \in 0..BodyLen /\ HeaderLen \in Nat \ {0}
      /\ BodyLen \in Nat /\ MaxChunk \in Nat /\ pos + 0 = pos /\ header + 0 = header
      /\ (fpc = "send" <=> outbox # <<>>)
  BY <1>1, SizesAssumption DEF MadeInv, TypeOK
\* In fpc = "read" the header is complete if and only if something was made.
<1>3. ~gone /\ fpc = "read" /\ header = HeaderLen => Line # <<>>
  BY <1>1, <1>2 DEF LineShape
<1>4. CASE Connected
  <2>1. /\ fpc = "request" /\ outbox = <<>> /\ Forwarder("read", <<>>)
        /\ UNCHANGED <<header, pos, carry, closed>>
    BY <1>2, <1>4 DEF Connected
  <2>2. ~gone => header' < HeaderLen
    BY <1>1, <1>2, <2>1 DEF LineShape
  <2> QED
    BY <2>1, <2>2, AddsNothing
<1>5. CASE ForwarderPanics
  <2>1. /\ fpc \in {"request", "read"} /\ outbox = <<>> /\ Forwarder("done", <<>>)
        /\ UNCHANGED <<header, pos, carry, closed>>
    BY <1>2, <1>5 DEF ForwarderPanics
  <2> QED
    BY <2>1, AddsNothing
<1>6. CASE Refused \/ BadHeader \/ UpstreamFails \/ UpstreamEnds
  <2>1. PICK kind \in Terminal :
           /\ Forwarder("send", <<Frame(kind, <<>>)>>)
           /\ kind = "end" => fpc = "read" /\ header = HeaderLen /\ closed'
    BY <1>2, <1>6 DEF Refused, BadHeader, UpstreamFails, UpstreamEnds, Terminal
  <2>2. /\ fpc \in {"request", "read"} /\ outbox = <<>> /\ pos' = pos
        /\ header = HeaderLen => header' = HeaderLen
    BY <1>2, <1>6 DEF Refused, BadHeader, UpstreamFails, UpstreamEnds
  <2>3. kind = "end" /\ ~gone => Line # <<>>
    BY <1>3, <2>1
  <2> HIDE DEF Line
  <2> QED
    BY <2>1, <2>2, <2>3, AddsTerminal
<1>7. CASE HeaderPart
  <2>1. PICK h \in 1..MaxChunk : header + h < HeaderLen /\ Read(h, 0, <<>>)
    BY <1>7 DEF HeaderPart
  <2>2. h \in Nat /\ 0 \in Nat /\ pos + 0 <= BodyLen /\ header < HeaderLen
    BY <1>2, <2>1
  <2> DEFINE frames == <<>>
  <2>3. Read(h, 0, frames) /\ frames \in {<<>>, <<HeaderFrame>>} /\ frames = <<>>
    BY <2>1
  <2> HIDE DEF frames
  <2> QED
    BY <2>1, <2>2, <2>3, AddsRead
<1>8. CASE HeaderComplete
  <2>1. PICK b \in 0..BodyLen :
           header < HeaderLen /\ Read(HeaderLen - header, b, <<HeaderFrame>>)
    BY <1>8 DEF HeaderComplete, HeaderFrame
  <2>2. /\ HeaderLen - header \in Nat /\ header + (HeaderLen - header) = HeaderLen
        /\ b \in Nat /\ pos + b <= BodyLen
    BY <1>1, <1>2, <2>1 DEF MadeInv
  <2>3. <<HeaderFrame>> # <<>>
    OBVIOUS
  <2> DEFINE frames == <<HeaderFrame>>
             h == HeaderLen - header
  <2>4. Read(h, b, frames) /\ frames \in {<<>>, <<HeaderFrame>>} /\ frames # <<>>
        /\ h \in Nat /\ header + h = HeaderLen
    BY <2>1, <2>2, <2>3
  <2> HIDE DEF frames, h
  <2> QED
    BY <2>1, <2>2, <2>4, AddsRead
<1>9. CASE BodyPart
  <2>1. PICK b \in 1..MaxChunk : header = HeaderLen /\ pos + b <= BodyLen /\ Read(0, b, <<>>)
    BY <1>9 DEF BodyPart
  <2>2. b \in Nat /\ 0 \in Nat /\ ~(header < HeaderLen)
    BY <1>2, <2>1
  <2> DEFINE frames == <<>>
  <2>3. Read(0, b, frames) /\ frames \in {<<>>, <<HeaderFrame>>} /\ frames = <<>>
    BY <2>1
  <2> HIDE DEF frames
  <2> QED
    BY <2>1, <2>2, <2>3, AddsRead
<1>10. CASE Send
  BY <1>10, SendKeepsLine
\* The receiver is gone only when the handler returned, and a handler that returns
\* to a client that listens has seen the task end.
<1>11. CASE SendLost
  <2>1. fpc = "send" /\ ~rxOpen
    BY <1>11 DEF SendLost
  <2>2. gone
    BY <1>1, <2>1 DEF Handled
  <2>3. UNCHANGED <<chan, rxOpen, pc, frame, final, gone, received>> /\ fpc # "done"
    BY <1>11 DEF SendLost, Forwarder
  <2> QED
    BY <1>1, <2>2, <2>3, GoneKeeps DEF RelayInv
<1>12. CASE HangUp
  <2>1. gone' /\ UNCHANGED <<fpc, pos, closed, rxOpen, pc, received>>
    BY <1>12 DEF HangUp, forwardVars
  <2> QED
    BY <1>1, <2>1, GoneKeeps DEF RelayInv
<1>13. CASE ClientEof \/ WriteFails
  <2>1. /\ gone' /\ rxOpen' = FALSE /\ pc' = "done" /\ received' = received
        /\ UNCHANGED <<pos, closed>> /\ (fpc = "done" => fpc' = "done")
    BY <1>13 DEF ClientEof, WriteFails, Return, forwardVars
  <2> QED
    BY <2>1, GoneKeeps DEF RelayInv
<1>14. CASE TakeFrame
  BY <1>14, TakeKeepsLine
<1>15. CASE ChannelClosed \/ Join
  <2>1. /\ UNCHANGED <<fpc, header, pos, closed, outbox, chan, rxOpen, frame, final, gone, received>>
        /\ fpc = "done" /\ pc # "done" /\ pc' # "done"
        /\ pc' \in {"join", "finish"} /\ (pc = "select" => chan = <<>>)
        /\ pc \in {"select", "join"}
    BY <1>15 DEF ChannelClosed, Join, forwardVars
  <2>2. Line' = Line
    BY <2>1 DEF Line, InFlight
  <2> HIDE DEF Line
  <2>3. ~gone => LineShape(Line)'
    BY <1>1, <2>1, <2>2 DEF LineShape
  <2>4. ~gone => Handled'
    BY <1>1, <2>1 DEF Handled
  <2> QED
    BY <2>1, <2>2, <2>3, <2>4, LineMoves
<1>16. CASE WriteFrame
  BY <1>16, WriteKeepsLine
<1>17. CASE Conclude
  BY <1>17, ConcludeKeepsLine
<1>18. CASE UNCHANGED vars
  <2>1. UNCHANGED <<fpc, header, pos, closed, outbox, chan, rxOpen, pc, frame, final, gone, received>>
    BY <1>18 DEF vars, forwardVars
  <2>2. Line' = Line
    BY <2>1 DEF Line, InFlight
  <2> HIDE DEF Line
  <2>3. ~gone => LineShape(Line)' /\ Handled'
    BY <1>1, <2>1, <2>2 DEF LineShape, Handled
  <2> QED
    BY <2>1, <2>2, <2>3, LineMoves
<1> QED
  BY <1>4, <1>5, <1>6, <1>7, <1>8, <1>9, <1>10, <1>11, <1>12, <1>13, <1>14, <1>15,
     <1>16, <1>17, <1>18 DEF Next, ForwardTask, HandlerTask, Ended

\* The invariant holds in every state, however the upstream cuts the stream.
THEOREM RelayInvariance == Spec => []RelayInv
<1>1. Init => RelayInv
  BY InitMadeInv, InitLineInv DEF RelayInv
<1>2. RelayInv /\ [Next]_vars => RelayInv'
  BY NextMadeInv, NextLineInv DEF RelayInv
<1> QED
  BY <1>1, <1>2, PTL DEF Spec

\* The client's frames and those on their way hold every complete sample read so
\* far, once and in order, whatever the sizes and the cut of the chunks.
THEOREM SamplesKeepOrder == Spec => []SamplesInOrder
<1>1. RelayInv => SamplesInOrder
  BY DEF RelayInv, LineInv, Line, SamplesInOrder
<1> QED
  BY <1>1, RelayInvariance, PTL

\* An end frame comes only where the upstream's response ended, after every sample
\* of it, and nothing comes after a terminal frame.
THEOREM EndIsLast == Spec => []EndIsComplete
<1>1. RelayInv => EndIsComplete
  BY DEF RelayInv, LineInv, Concluded
<1> QED
  BY <1>1, RelayInvariance, PTL

\* A client that stays has a terminal frame when the handler returns, also when
\* the forwarding task died.
THEOREM StayingClientIsTold == Spec => []StayingClientGetsTerminal
<1>1. RelayInv => StayingClientGetsTerminal
  BY DEF RelayInv, LineInv, Handled, StayingClientGetsTerminal
<1> QED
  BY <1>1, RelayInvariance, PTL

-----------------------------------------------------------------------------
(* The service StreamService: relaying implements it.                        *)

\* The terminal frame among what a client got.
Verdict(got) ==
    IF got = <<>> \/ Last(got).kind \notin Terminal THEN "none" ELSE Last(got).kind

\* What a frame changes of what the client has.
LEMMA FrameGot ==
    ASSUME NEW got \in Seq(Sendable), NEW f \in Sendable,
           \A i \in 1..Len(got) : got[i].kind \notin Terminal
    PROVE  /\ KindsOf(Append(got, f)) = KindsOf(got) \union {f.kind}
           /\ SamplesOf(Append(got, f)) = SamplesOf(got) \o f.data
           /\ SamplesOf(got) \in Seq(Pairs) /\ f.data \in Seq(Pairs)
           /\ Verdict(got) = "none"
           /\ Verdict(Append(got, f)) = IF f.kind \in Terminal THEN f.kind ELSE "none"
<1> DEFINE next == Append(got, f)
<1>1. /\ next \in Seq(Sendable) /\ next # <<>> /\ Len(next) = Len(got) + 1
      /\ \A i \in 1..Len(got) : next[i] = got[i]
      /\ next[Len(got) + 1] = f
      /\ Len(got) \in Nat /\ DOMAIN got = 1..Len(got)
      /\ DOMAIN next = 1..Len(next)
  BY AppendProperties, LenProperties
<1> HIDE DEF next
<1>2. KindsOf(next) = KindsOf(got) \union {f.kind}
  <2>1. \A i \in 1..Len(next) : i \in 1..Len(got) \/ i = Len(got) + 1
    BY <1>1
  <2>2. KindsOf(next) \subseteq KindsOf(got) \union {f.kind}
    BY <1>1, <2>1 DEF KindsOf
  <2>3. f.kind \in KindsOf(next)
    <3>1. Len(got) + 1 \in DOMAIN next
      BY <1>1
    <3> QED
      BY <1>1, <3>1 DEF KindsOf
  <2>4. KindsOf(got) \subseteq KindsOf(next)
    <3>1. \A i \in DOMAIN got : i \in DOMAIN next /\ next[i] = got[i]
      BY <1>1
    <3> QED
      BY <3>1 DEF KindsOf
  <2> QED
    BY <2>2, <2>3, <2>4
<1>3. SamplesOf(next) = SamplesOf(got) \o f.data /\ SamplesOf(got) \in Seq(Pairs)
      /\ f.data \in Seq(Pairs)
  <2> DEFINE one == <<f>>
  <2>1. f \in Frames /\ got \in Seq(Frames)
    BY FramesAreSendable, SeqMonotonic
  <2>2. one \in Seq(Frames)
    BY <2>1
  <2>3. next = got \o one
    BY AppendIsConcat DEF next
  <2>4. SamplesOf(one) = f.data /\ f.data \in Seq(Pairs)
    BY <2>1, SamplesOfOne
  <2> HIDE DEF one
  <2>5. SamplesOf(got \o one) = SamplesOf(got) \o SamplesOf(one)
    BY <2>1, <2>2, SamplesConcat
  <2>6. SamplesOf(got) \in Seq(Pairs)
    BY <2>1, SamplesConcat
  <2> QED
    BY <2>3, <2>4, <2>5, <2>6
<1>4. Verdict(got) = "none"
  <2>1. CASE got = <<>>
    BY <2>1 DEF Verdict
  <2>2. CASE got # <<>>
    <3>1. Len(got) \in 1..Len(got)
      BY <1>1, <2>2, EmptySeq
    <3>2. Last(got).kind \notin Terminal
      BY <3>1 DEF Last
    <3> QED
      BY <3>2 DEF Verdict
  <2> QED
    BY <2>1, <2>2
<1>5. Verdict(next) = IF f.kind \in Terminal THEN f.kind ELSE "none"
  <2>1. Last(next) = f
    BY <1>1 DEF Last
  <2> QED
    BY <1>1, <2>1 DEF Verdict
<1> QED
  BY <1>2, <1>3, <1>4, <1>5 DEF next

\* The upstream's samples, and a start of them.
LEMMA UpstreamStarts ==
    ASSUME NEW m \in Nat, m <= BodyLen, NEW n \in Nat, n <= m, NEW s \in Seq(Pairs), NEW t \in Seq(Pairs),
           s \o t = Upstream(n \div 2)
    PROVE  /\ Upstream(m \div 2) \in Seq(Pairs)
           /\ Len(s) <= Len(Upstream(m \div 2))
           /\ s = SubSeq(Upstream(m \div 2), 1, Len(s))
<1> BodyLen \in Nat
  BY SizesAssumption
<1>1. ASSUME NEW k \in Nat, k <= BodyLen \div 2
      PROVE  Upstream(k) \in Seq(Pairs) /\ Len(Upstream(k)) = k
             /\ \A i \in 1..k : Upstream(k)[i] = <<2*i - 1, 2*i>>
  <2>1. \A i \in 1..k : 2*i - 1 \in 1..BodyLen /\ 2*i \in 1..BodyLen
    BY <1>1
  <2>2. Upstream(k) \in [1..k -> Pairs]
    BY <2>1 DEF Upstream, Pairs
  <2> QED
    BY <2>2 DEF Upstream
<1> DEFINE u == Upstream(n \div 2)
           w == Upstream(m \div 2)
<1>2. /\ n \div 2 \in Nat /\ m \div 2 \in Nat
      /\ n \div 2 <= m \div 2 /\ m \div 2 <= BodyLen \div 2
  <2>1. \A x, y \in Nat : x <= y => x \div 2 \in Nat /\ x \div 2 <= y \div 2
    OBVIOUS
  <2> QED
    BY <2>1
<1>3. /\ u \in Seq(Pairs) /\ Len(u) = n \div 2
      /\ \A i \in 1..(n \div 2) : u[i] = <<2*i - 1, 2*i>>
  <2> DEFINE half == n \div 2
  <2>1. half \in Nat /\ half <= BodyLen \div 2
    BY <1>2
  <2> HIDE DEF half
  <2>2. /\ Upstream(half) \in Seq(Pairs) /\ Len(Upstream(half)) = half
        /\ \A i \in 1..half : Upstream(half)[i] = <<2*i - 1, 2*i>>
    BY <1>1, <2>1
  <2> QED
    BY <2>2 DEF half
<1>4. /\ w \in Seq(Pairs) /\ Len(w) = m \div 2
      /\ \A i \in 1..(m \div 2) : w[i] = <<2*i - 1, 2*i>>
  <2> DEFINE half == m \div 2
  <2>1. half \in Nat /\ half <= BodyLen \div 2
    BY <1>2
  <2> HIDE DEF half
  <2>2. /\ Upstream(half) \in Seq(Pairs) /\ Len(Upstream(half)) = half
        /\ \A i \in 1..half : Upstream(half)[i] = <<2*i - 1, 2*i>>
    BY <1>1, <2>1
  <2> QED
    BY <2>2 DEF half
<1>5. u = s \o t
  OBVIOUS
<1> HIDE DEF u, w
<1>6. /\ Len(s) \in Nat /\ Len(t) \in Nat /\ Len(u) = Len(s) + Len(t)
      /\ \A i \in 1..(Len(s) + Len(t)) : u[i] = IF i <= Len(s) THEN s[i] ELSE t[i - Len(s)]
  BY <1>5, LenProperties, ConcatProperties
<1>7. Len(s) <= n \div 2 /\ Len(s) <= Len(w)
  BY <1>2, <1>3, <1>4, <1>6
<1>8. \A i \in 1..Len(s) : s[i] = w[i]
  <2> SUFFICES ASSUME NEW i \in 1..Len(s) PROVE s[i] = w[i]
    OBVIOUS
  <2>1. i \in 1..(n \div 2) /\ i \in 1..(m \div 2) /\ i \in 1..(Len(s) + Len(t))
    BY <1>2, <1>6, <1>7
  <2>2. u[i] = s[i]
    BY <1>6, <2>1
  <2>3. u[i] = w[i]
    BY <1>3, <1>4, <2>1
  <2> QED
    BY <2>2, <2>3
<1> DEFINE v == SubSeq(w, 1, Len(s))
<1>9. /\ v \in Seq(Pairs) /\ Len(v) = Len(s)
      /\ \A i \in 1..Len(s) : v[i] = w[i]
  <2>1. \A i \in 1..Len(s) : w[i] \in Pairs
    BY <1>8, ElementOfSeq
  <2>2. /\ v \in Seq(Pairs)
        /\ Len(v) = IF 1 <= Len(s) THEN Len(s) - 1 + 1 ELSE 0
        /\ \A i \in 1..(Len(s) - 1 + 1) : v[i] = w[1 + i - 1]
    BY <1>6, <2>1, SubSeqProperties
  <2> QED
    BY <1>6, <2>2
<1> HIDE DEF v
<1>10. v = s
  BY <1>8, <1>9, SeqEqual
<1> QED
  BY <1>4, <1>7, <1>10 DEF v, w

\* The client's view, before and after.
LEMMA ViewOf ==
    /\ Service!vars = << [c \in {"client"} |-> Upstream(pos \div 2)],
                         [c \in {"client"} |-> closed],
                         [c \in {"client"} |-> "header" \in KindsOf(received)],
                         [c \in {"client"} |-> SamplesOf(received)],
                         [c \in {"client"} |-> Verdict(received)] >>
    /\ UNCHANGED <<received, pos, closed>> => UNCHANGED Service!vars
BY DEF Service!vars, Verdict, KindsOf, SamplesOf

\* Every frame that a client that listens gets is a step of the service.
LEMMA DeliveryServes ==
    ASSUME RelayInv, RelayInv', ~gone', NEW f \in Sendable, received' = Append(received, f),
           \A i \in 1..Len(received) : received[i].kind \notin Terminal,
           pos' = pos, closed' = closed
    PROVE  Service!Next
<1> DEFINE got == received
           next == Append(received, f)
           all == Upstream(pos \div 2)
<1>1. /\ KindsOf(next) = KindsOf(got) \union {f.kind}
      /\ SamplesOf(next) = SamplesOf(got) \o f.data
      /\ SamplesOf(got) \in Seq(Pairs) /\ f.data \in Seq(Pairs)
      /\ Verdict(got) = "none"
      /\ Verdict(next) = IF f.kind \in Terminal THEN f.kind ELSE "none"
      /\ got \in Seq(Sendable)
  <2>1. received \in Seq(Sendable)
    BY DEF RelayInv, LineInv
  <2> QED
    BY <2>1, FrameGot
<1>2. /\ f.kind \in {"header", "chunk", "end", "error"}
      /\ f.kind = "chunk" <=> f.data # <<>>
  BY DEF Sendable, Frames, Terminal
<1>3. /\ next \in Seq(Sendable) /\ Len(next) = Len(got) + 1
      /\ \A i \in 1..Len(got) : next[i] = got[i]
      /\ next[Len(got) + 1] = f /\ Len(got) \in Nat
      /\ DOMAIN next = 1..Len(next) /\ DOMAIN got = 1..Len(got)
  BY <1>1, AppendProperties, LenProperties
<1>4. PICK rest \in Seq(Sendable) :
         Shape(next \o rest) /\ SamplesOf(next \o rest) = Upstream(pos \div 2)
  <2>1. MadeInv' /\ received' \in Seq(Sendable) /\ Shape(Line)'
        /\ (SamplesOf(Line) = Upstream(pos \div 2))'
    BY DEF RelayInv, LineInv, LineShape
  <2>2. /\ chan' \in Seq(Sendable) /\ outbox' \in Seq(Sendable)
        /\ frame' \in Sendable \/ frame' = NoFrame
    BY <2>1, SizesAssumption DEF MadeInv, TypeOK
  <2> DEFINE w == IF frame' = NoFrame THEN <<>> ELSE <<frame'>>
             rest == (w \o chan') \o outbox'
  <2>3. w \in Seq(Sendable)
    <3>1. <<>> \in Seq(Sendable)
      BY EmptySeq
    <3>2. frame' \in Sendable => <<frame'>> \in Seq(Sendable)
      OBVIOUS
    <3> QED
      BY <2>2, <3>1, <3>2
  <2>4. Line' = next \o rest
    BY DEF Line, InFlight
  <2> HIDE DEF w
  <2>5. rest \in Seq(Sendable)
    <3>1. w \o chan' \in Seq(Sendable)
      BY <2>2, <2>3, ConcatProperties
    <3> QED
      BY <2>2, <3>1, ConcatProperties
  <2> HIDE DEF rest, next, Line
  <2> QED
    BY <2>1, <2>2, <2>4, <2>5
<1>5. \A i \in 1..Len(next) :
         next[i].kind \in IF i = 1 THEN {"header", "error"} ELSE {"chunk", "end", "error"}
  <2> HIDE DEF next
  <2>1. /\ Len(next \o rest) = Len(next) + Len(rest) /\ Len(next) \in Nat /\ Len(rest) \in Nat
        /\ \A i \in 1..(Len(next) + Len(rest)) :
              (next \o rest)[i] = IF i <= Len(next) THEN next[i] ELSE rest[i - Len(next)]
    BY <1>3, <1>4, ConcatProperties, LenProperties
  <2> SUFFICES ASSUME NEW i \in 1..Len(next)
               PROVE  next[i].kind \in IF i = 1 THEN {"header", "error"}
                                       ELSE {"chunk", "end", "error"}
    OBVIOUS
  <2>2. i \in 1..Len(next \o rest) /\ (next \o rest)[i] = next[i]
    BY <2>1
  <2> QED
    BY <1>4, <2>2 DEF Shape
<1>6. /\ SamplesOf(next) \in Seq(Pairs)
      /\ SamplesOf(next) \o SamplesOf(rest) = Upstream(pos \div 2)
      /\ SamplesOf(rest) \in Seq(Pairs)
  <2>1. next \in Seq(Frames) /\ rest \in Seq(Frames)
    BY <1>3, <1>4, FramesAreSendable, SeqMonotonic
  <2> HIDE DEF next
  <2> QED
    BY <1>4, <2>1, SamplesConcat
<1>7. /\ all \in Seq(Pairs) /\ Len(SamplesOf(next)) <= Len(all)
      /\ SamplesOf(next) = SubSeq(all, 1, Len(SamplesOf(next)))
  <2> HIDE DEF next, all
  <2>1. pos \in Nat /\ pos <= BodyLen /\ pos <= pos
    BY SizesAssumption DEF RelayInv, MadeInv, TypeOK
  <2> QED
    BY <1>6, <2>1, UpstreamStarts DEF all
<1>8. f.kind = "header" <=> Len(got) = 0 /\ f.kind # "error"
  <2>1. f.kind \in IF Len(got) + 1 = 1 THEN {"header", "error"} ELSE {"chunk", "end", "error"}
    <3>1. Len(got) + 1 \in 1..Len(next)
      BY <1>3
    <3> HIDE DEF next, got
    <3> QED
      BY <1>3, <1>5, <3>1
  <2> QED
    BY <1>3, <2>1
<1>9. "header" \in KindsOf(got) <=> Len(got) # 0
  <2>1. \A i \in 1..Len(got) : i \in 1..Len(next) /\ got[i].kind = next[i].kind
    BY <1>3
  <2>2. Len(got) # 0 => got[1].kind = "header" /\ 1 \in DOMAIN got
    <3> SUFFICES ASSUME Len(got) # 0 PROVE got[1].kind = "header" /\ 1 \in DOMAIN got
      OBVIOUS
    <3>1. 1 \in 1..Len(got)
      BY <1>3
    <3>2. got[1].kind \in {"header", "error"} /\ got[1].kind \notin Terminal
      BY <1>5, <2>1, <3>1
    <3> QED
      BY <1>3, <3>1, <3>2 DEF Terminal
  <2>3. "header" \in KindsOf(got) => Len(got) # 0
    BY <1>3 DEF KindsOf
  <2> HIDE DEF got
  <2> QED
    BY <2>2, <2>3 DEF KindsOf
<1>10. f.kind = "end" => closed /\ SamplesOf(next) = all
  <2>1. EndIsComplete'
    BY DEF RelayInv, LineInv, Concluded
  <2>2. \A i \in DOMAIN next : next[i].kind = "end" => closed /\ SamplesOf(next) = all
    BY <2>1 DEF EndIsComplete, Terminal, SamplesOf
  <2>3. Len(got) + 1 \in DOMAIN next
    BY <1>3
  <2> HIDE DEF next, all
  <2> QED
    BY <1>3, <2>2, <2>3
<1>11. f.kind # "chunk" => SamplesOf(next) = SamplesOf(got)
  BY <1>1, <1>2, ConcatEmptySeq
<1>12. f.kind = "chunk" => Len(SamplesOf(next)) \in Len(SamplesOf(got)) + 1 .. Len(all)
  <2> SUFFICES ASSUME f.kind = "chunk"
               PROVE  Len(SamplesOf(next)) \in Len(SamplesOf(got)) + 1 .. Len(all)
    OBVIOUS
  <2> DEFINE a == SamplesOf(got)
             d == f.data
  <2>1. a \in Seq(Pairs) /\ d \in Seq(Pairs) /\ SamplesOf(next) = a \o d /\ d # <<>>
    BY <1>1, <1>2
  <2> HIDE DEF a, d, next, all
  <2>2. Len(d) \in Nat \ {0} /\ Len(a) \in Nat /\ Len(a \o d) = Len(a) + Len(d)
    BY <2>1, EmptySeq, LenProperties, ConcatProperties
  <2>3. Len(all) \in Nat
    BY <1>7, LenProperties
  <2> QED
    BY <1>7, <2>1, <2>2, <2>3 DEF a
\* The variables of the service, before and after.
<1>13. CASE f.kind = "header"
  <2>1. /\ "header" \notin KindsOf(got) /\ "header" \in KindsOf(next)
        /\ SamplesOf(next) = SamplesOf(got) /\ Verdict(got) = "none" /\ Verdict(next) = "none"
    BY <1>1, <1>8, <1>9, <1>11, <1>13 DEF Terminal
  <2>2. Service!Header("client")
    BY <2>1 DEF Service!Header, Verdict
  <2> QED
    BY <2>2 DEF Service!Next
<1>14. CASE f.kind = "chunk"
  <2>1. /\ "header" \in KindsOf(got) /\ "header" \in KindsOf(next)
        /\ Verdict(got) = "none" /\ Verdict(next) = "none"
    BY <1>1, <1>8, <1>9, <1>14 DEF Terminal
  <2>2. Service!Chunk("client")
    BY <1>7, <1>12, <1>14, <2>1 DEF Service!Chunk, Verdict
  <2> QED
    BY <2>2 DEF Service!Next
<1>15. CASE f.kind = "end"
  <2>1. /\ "header" \in KindsOf(next) <=> "header" \in KindsOf(got)
        /\ SamplesOf(next) = SamplesOf(got) /\ SamplesOf(got) = all /\ closed
        /\ Verdict(got) = "none" /\ Verdict(next) = "end"
    BY <1>1, <1>10, <1>11, <1>15 DEF Terminal
  <2>2. Service!End("client")
    BY <2>1 DEF Service!End, Verdict
  <2> QED
    BY <2>2 DEF Service!Next
<1>16. CASE f.kind = "error"
  <2>1. /\ "header" \in KindsOf(next) <=> "header" \in KindsOf(got)
        /\ SamplesOf(next) = SamplesOf(got)
        /\ Verdict(got) = "none" /\ Verdict(next) = "error"
    BY <1>1, <1>11, <1>16 DEF Terminal
  <2>2. Service!Error("client")
    BY <2>1 DEF Service!Error, Verdict
  <2> QED
    BY <2>2 DEF Service!Next
<1> QED
  BY <1>2, <1>13, <1>14, <1>15, <1>16

\* What the upstream sends, and its end, are steps of the service too.
LEMMA ReadingServes ==
    ASSUME RelayInv, RelayInv', [Next]_vars, received' = received
    PROVE  [Service!Next]_(Service!vars)
<1>1. CASE UNCHANGED <<pos, closed>>
  BY <1>1, ViewOf
<1>2. CASE ~UNCHANGED <<pos, closed>>
  <2>1. /\ pos \in Nat /\ pos' \in Nat /\ pos' <= BodyLen /\ BodyLen \in Nat
        /\ closed \in BOOLEAN /\ closed' \in BOOLEAN
    BY SizesAssumption DEF RelayInv, MadeInv, TypeOK
  <2>2. fpc = "read" /\ pos <= pos'
    <3>1. HeaderPart \/ HeaderComplete \/ BodyPart \/ UpstreamEnds
      BY <1>2 DEF Next, ForwardTask, HandlerTask, Ended, vars, forwardVars, Connected, Refused,
             BadHeader, UpstreamFails, Send, SendLost, ForwarderPanics, HangUp, ClientEof,
             TakeFrame, ChannelClosed, WriteFrame, WriteFails, Join, Conclude
    <3>2. CASE UpstreamEnds
      BY <2>1, <3>2 DEF UpstreamEnds
    <3>3. CASE HeaderPart \/ HeaderComplete \/ BodyPart
      <4>1. CASE HeaderPart
        BY <2>1, <4>1 DEF HeaderPart, Read
      <4>2. CASE HeaderComplete
        BY <2>1, <4>2 DEF HeaderComplete, Read
      <4>3. CASE BodyPart
        BY <2>1, <4>3 DEF BodyPart, Read
      <4> QED
        BY <3>3, <4>1, <4>2, <4>3
    <3> QED
      BY <3>1, <3>2, <3>3
  <2>3. ~closed
    BY <2>2 DEF RelayInv, MadeInv, ClosedLast
  <2>4. Verdict(received) = "none"
    <3>1. received \in Seq(Sendable) /\ \A i \in DOMAIN received : received[i].kind \notin Terminal
      BY <2>2 DEF RelayInv, LineInv, Concluded
    <3>2. received # <<>> => Len(received) \in DOMAIN received
      BY <3>1, EmptySeq, LenProperties
    <3> QED
      BY <3>1, <3>2 DEF Verdict, Last
  <2> DEFINE u == Upstream(pos \div 2)
             w == Upstream(pos' \div 2)
  <2>5. u \in Seq(Pairs) /\ <<>> \in Seq(Pairs) /\ u \o <<>> = u
    <3>1. pos \div 2 \in Nat /\ \A i \in 1..(pos \div 2) : 2*i - 1 \in 1..BodyLen /\ 2*i \in 1..BodyLen
      BY <2>1, <2>2
    <3>2. u \in [1..(pos \div 2) -> Pairs]
      BY <3>1 DEF Upstream, Pairs
    <3>3. u \in Seq(Pairs)
      BY <3>1, <3>2
    <3> QED
      BY <3>3, EmptySeq, ConcatEmptySeq
  <2>6. SubSeq(w, 1, Len(u)) = u
    <3> HIDE DEF w
    <3>1. u \o <<>> = Upstream(pos \div 2)
      BY <2>5
    <3> HIDE DEF u
    <3> QED
      BY <2>1, <2>2, <2>5, <3>1, UpstreamStarts DEF w
  <2>7. Service!Make("client")
    <3>1. [c \in {"client"} |-> closed'] \in
             { [c \in {"client"} |-> closed],
               [[c \in {"client"} |-> closed] EXCEPT !["client"] = TRUE] }
      BY <2>1, <2>3
    <3> HIDE DEF u, w
    <3>2. /\ SubSeq([c \in {"client"} |-> w]["client"], 1, Len([c \in {"client"} |-> u]["client"]))
                = [c \in {"client"} |-> u]["client"]
          /\ [c \in {"client"} |-> w] =
                [[c \in {"client"} |-> u] EXCEPT !["client"] = [c \in {"client"} |-> w]["client"]]
      BY <2>6
    <3> QED
      BY <2>3, <2>4, <3>1, <3>2 DEF Service!Make, Verdict, KindsOf, SamplesOf, u, w
  <2> QED
    BY <2>7 DEF Service!Next
<1> QED
  BY <1>1, <1>2

\* Relaying implements the service that the local worker's streams implement too:
\* a header first, the audio in order, one terminal frame.
THEOREM ServiceRelayed == Spec => FramesAsPromised
<1>1. Init => Service!Init
  <2> SUFFICES ASSUME Init PROVE Service!Init
    OBVIOUS
  <2>1. received = <<>>
    BY DEF Init
  <2>2. KindsOf(received) = {}
    BY <2>1 DEF KindsOf
  <2>3. SamplesOf(received) = <<>>
    <3>1. [i \in DOMAIN <<>> |-> <<>>[i].data] = <<>>
      OBVIOUS
    <3> QED
      BY <2>1, <3>1, FlattenEmpty DEF SamplesOf
  <2>4. [c \in {"client"} |-> "header" \in KindsOf(received)] = [c \in {"client"} |-> FALSE]
    <3>1. ("header" \in KindsOf(received)) = FALSE
      BY <2>2
    <3> QED
      BY <3>1
  <2>5. [c \in {"client"} |-> SamplesOf(received)] = [c \in {"client"} |-> <<>>]
    BY <2>3
  <2>6. (IF received = <<>> \/ Last(received).kind \notin Terminal
           THEN "none" ELSE Last(received).kind) = "none"
    BY <2>1
  <2> QED
    BY <2>4, <2>5, <2>6 DEF Service!Init
<1>2. RelayInv /\ RelayInv' /\ [Next]_vars => [Service!Next]_(Service!vars)
  <2> SUFFICES ASSUME RelayInv, RelayInv', [Next]_vars, received' # received
               PROVE  Service!Next
    BY ReadingServes
  <2>1. WriteFrame \/ Conclude
    BY DEF Next, ForwardTask, HandlerTask, Ended, vars, forwardVars, Connected, Refused,
           HeaderPart, HeaderComplete, BodyPart, BadHeader, Read, UpstreamFails,
           UpstreamEnds, Send, SendLost, ForwarderPanics, Forwarder, HangUp, ClientEof,
           TakeFrame, ChannelClosed, WriteFails, Join
  <2>2. CASE WriteFrame
    <3>1. /\ pc = "write" /\ ~gone' /\ ~gone /\ received' = Append(received, frame)
          /\ pos' = pos /\ closed' = closed
      BY <2>2 DEF WriteFrame, Deliver, forwardVars
    <3>2. frame \in Sendable
      BY <3>1 DEF RelayInv, MadeInv
    <3>3. \A i \in 1..Len(received) : received[i].kind \notin Terminal
      BY <3>1 DEF RelayInv, LineInv, Handled
    <3> QED
      BY <3>1, <3>2, <3>3, DeliveryServes
  <2>3. CASE Conclude
    <3>1. /\ pc = "finish" /\ final = "none" /\ ~gone' /\ ~gone
          /\ received' = Append(received, Frame("error", <<>>))
          /\ pos' = pos /\ closed' = closed
      BY <2>3 DEF Conclude, Deliver, forwardVars
    <3>2. Frame("error", <<>>) \in Sendable
      BY FramesAreSendable DEF Terminal
    <3>3. \A i \in 1..Len(received) : received[i].kind \notin Terminal
      BY <3>1 DEF RelayInv, LineInv, Handled
    <3> QED
      BY <3>1, <3>2, <3>3, DeliveryServes
  <2> QED
    BY <2>1, <2>2, <2>3
<1> QED
  BY <1>1, <1>2, RelayInvariance, PTL DEF Spec, FramesAsPromised, Service!Spec

=============================================================================
