-------------------------- MODULE RelayStreamProofs -------------------------
(* Proofs about RelayStream, for every length of header and body, every cut  *)
(* of the upstream's chunks and every capacity of the channel.               *)
EXTENDS RelayStream, SequenceItems, TLAPS

-----------------------------------------------------------------------------
(* The samples in frames.                                                    *)

\* The samples of frames, one sequence after the other.
LEMMA SamplesConcat ==
    ASSUME NEW s \in Seq(Frames), NEW t \in Seq(Frames)
    PROVE  /\ SamplesOf(t) \in Seq(Pairs)
           /\ SamplesOf(s \o t) = SamplesOf(s) \o SamplesOf(t)
<1>1. Carry(Frames, Pairs)
  BY DEF Carry, Frames
<1>2. \A u : SamplesOf(u) = DataOf(u)
  BY DEF SamplesOf, DataOf
<1>3. DataOf(t) \in Seq(Pairs) /\ DataOf(s \o t) = DataOf(s) \o DataOf(t)
  BY <1>1, DataConcat
<1> QED
  BY <1>2, <1>3

\* The samples of one frame.
LEMMA SamplesOfOne ==
    ASSUME NEW f \in Frames
    PROVE  SamplesOf(<<f>>) = f.data /\ f.data \in Seq(Pairs)
<1>1. f.data \in Seq(Pairs)
  BY DEF Frames
<1>2. SamplesOf(<<f>>) = DataOf(<<f>>)
  BY DEF SamplesOf, DataOf
<1> QED
  BY <1>1, <1>2, DataOfOne

-----------------------------------------------------------------------------
(* Pairing the bytes of a chunk.                                             *)

\* A byte is carried if and only if an odd number of them was read: the last one.
Carried == carry = IF pos % 2 = 1 THEN pos ELSE 0

\* forward_pcm_chunk: however many bytes a chunk has, the samples made so far and
\* those it makes are the first of the upstream, and the byte it may carry is the
\* one that follows them.
LEMMA ChunkSamples ==
    ASSUME Carried, pos \in Nat, NEW b \in Nat, pos + b <= BodyLen,
           NEW bytes, bytes = [i \in 1..b |-> pos + i]
    PROVE  /\ Samples(bytes) \in Seq(Pairs)
           /\ Upstream(pos \div 2) \o Samples(bytes) = Upstream((pos + b) \div 2)
           /\ CarryAfter(bytes) = IF (pos + b) % 2 = 1 THEN pos + b ELSE 0
<1> BodyLen \in Nat
  BY SizesAssumption
<1> DEFINE q == pos \div 2
           s == IF pos % 2 = 1 /\ b > 0 THEN 1 ELSE 0
           n == (b - s) \div 2
           head == IF s = 1 THEN << <<pos, pos + 1>> >> ELSE <<>>
           tail == [i \in 1..n |-> <<pos + s + 2*i - 1, pos + s + 2*i>>]
<1>1. bytes \in Seq(Nat) /\ Len(bytes) = b /\ (bytes = <<>> <=> b = 0)
      /\ \A i \in 1..b : bytes[i] = pos + i
  <2>1. bytes \in [1..b -> Nat]
    OBVIOUS
  <2>2. bytes \in Seq(Nat) /\ Len(bytes) = b
    BY <2>1
  <2>3. bytes = <<>> <=> b = 0
    BY <2>2, EmptySeq
  <2> QED
    BY <2>2, <2>3
<1>2. Shift(bytes) = s
  BY <1>1 DEF Shift, Carried
<1>3. s \in {0, 1} /\ b - s \in Nat /\ n \in Nat /\ 2 * n <= b - s /\ s <= b
  OBVIOUS
<1>4. Samples(bytes) = head \o tail
  <2>1. s = 1 => carry = pos /\ bytes[1] = pos + 1
    BY <1>1 DEF Carried
  <2>2. (IF s = 1 THEN << <<carry, bytes[1]>> >> ELSE <<>>) = head
    <3> HIDE DEF s
    <3> QED
      BY <2>1
  <2>3. \A i \in 1..n : /\ s + 2*i - 1 \in 1..b /\ s + 2*i \in 1..b
    BY <1>3
  <2>4. \A i \in 1..n : /\ bytes[s + 2*i - 1] = pos + s + 2*i - 1
                        /\ bytes[s + 2*i] = pos + s + 2*i
    <3> HIDE DEF s, n
    <3> QED
      BY <1>1, <1>3, <2>3
  <2> HIDE DEF s
  <2>5. (Len(bytes) - s) \div 2 = n
    BY <1>1
  <2> HIDE DEF n
  <2>6. [i \in 1..((Len(bytes) - s) \div 2) |-> <<bytes[s + 2*i - 1], bytes[s + 2*i]>>]
        = tail
    BY <2>4, <2>5
  <2> HIDE DEF head, tail
  <2> DEFINE First(k) == IF k = 1 THEN << <<carry, bytes[1]>> >> ELSE <<>>
             Rest(k) == [i \in 1..((Len(bytes) - k) \div 2) |->
                            <<bytes[k + 2*i - 1], bytes[k + 2*i]>>]
  <2>7. Samples(bytes) = First(Shift(bytes)) \o Rest(Shift(bytes))
    BY DEF Samples
  <2>8. First(s) = head /\ Rest(s) = tail
    BY <2>2, <2>6
  <2> HIDE DEF First, Rest
  <2> QED
    BY <1>2, <2>7, <2>8
<1>5. head \in Seq(Pairs) /\ Len(head) = s /\ (s = 1 => head[1] = <<pos, pos + 1>>)
  <2>1. CASE s = 1
    <3>1. <<pos, pos + 1>> \in Pairs
      BY <2>1 DEF Pairs
    <3> QED
      BY <2>1, <3>1
  <2>2. CASE s = 0
    BY <2>2
  <2> QED
    BY <1>3, <2>1, <2>2
<1>6. tail \in Seq(Pairs) /\ Len(tail) = n
      /\ \A i \in 1..n : tail[i] = <<pos + s + 2*i - 1, pos + s + 2*i>>
  <2>1. ASSUME NEW i \in 1..n
        PROVE  <<pos + s + 2*i - 1, pos + s + 2*i>> \in Pairs
    <3>1. pos + s + 2*i - 1 \in 1..BodyLen /\ pos + s + 2*i \in 1..BodyLen
      BY <1>3
    <3> QED
      BY <3>1 DEF Pairs
  <2>2. tail \in [1..n -> Pairs]
    BY <2>1
  <2> HIDE DEF s, n
  <2>3. \A i \in 1..n : tail[i] = <<pos + s + 2*i - 1, pos + s + 2*i>>
    OBVIOUS
  <2> HIDE DEF tail
  <2>4. tail \in Seq(Pairs) /\ Len(tail) = n
    BY <1>3, <2>2
  <2> QED
    BY <2>3, <2>4
<1>7. Len(head) \in Nat /\ Len(tail) \in Nat
  BY <1>5, <1>6, LenProperties
<1>8. q \in Nat /\ (pos + b) \div 2 = q + s + n
      /\ pos + s = IF pos % 2 = 1 /\ b = 0 THEN 2*q + 1 ELSE 2*(q + s)
  OBVIOUS
<1>9. ASSUME NEW m \in Nat, m <= (pos + b) \div 2
      PROVE  Upstream(m) \in Seq(Pairs) /\ Len(Upstream(m)) = m
             /\ \A i \in 1..m : Upstream(m)[i] = <<2*i - 1, 2*i>>
  <2>1. \A i \in 1..m : 2*i - 1 \in 1..BodyLen /\ 2*i \in 1..BodyLen
    BY <1>9
  <2>2. Upstream(m) \in [1..m -> Pairs]
    BY <2>1 DEF Upstream, Pairs
  <2> QED
    BY <2>2 DEF Upstream
<1>10. CarryAfter(bytes) = IF (pos + b) % 2 = 1 THEN pos + b ELSE 0
  <2>1. b > 0 => bytes[Len(bytes)] = pos + b
    BY <1>1
  <2>2. (b - s) % 2 = 1 <=> (b > 0 /\ (pos + b) % 2 = 1)
    OBVIOUS
  <2>3. CarryAfter(bytes) = IF (b - s) % 2 = 1 THEN bytes[Len(bytes)]
                            ELSE IF b = 0 THEN carry ELSE 0
    BY <1>1, <1>2 DEF CarryAfter
  <2> QED
    BY <2>1, <2>2, <2>3 DEF Carried
<1> HIDE DEF q, s, n, head, tail
<1>11. /\ head \o tail \in Seq(Pairs) /\ Len(head \o tail) = s + n
       /\ \A i \in 1..(s + n) : (head \o tail)[i] =
             IF i <= s THEN head[i] ELSE tail[i - s]
  <2>1. /\ head \o tail \in Seq(Pairs) /\ Len(head \o tail) = Len(head) + Len(tail)
        /\ \A i \in 1..(Len(head) + Len(tail)) : (head \o tail)[i] =
              IF i <= Len(head) THEN head[i] ELSE tail[i - Len(head)]
    BY <1>5, <1>6, ConcatProperties
  <2> QED
    BY <1>5, <1>6, <2>1
<1>12. \A i \in 1..(s + n) : (head \o tail)[i] = <<2*(q + i) - 1, 2*(q + i)>>
  <2> SUFFICES ASSUME NEW i \in 1..(s + n)
               PROVE  (head \o tail)[i] = <<2*(q + i) - 1, 2*(q + i)>>
    OBVIOUS
  <2>1. pos + s = 2*(q + s)
    <3>1. ~(pos % 2 = 1 /\ b = 0)
      BY <1>3
    <3> QED
      BY <1>8, <3>1
  <2>2. CASE i <= s
    <3>1. s = 1 /\ i = 1
      BY <1>3, <2>2
    <3>2. (head \o tail)[i] = <<pos, pos + 1>>
      BY <1>5, <1>11, <2>2, <3>1
    <3>3. pos = 2*(q + i) - 1 /\ pos + 1 = 2*(q + i)
      BY <1>8, <2>1, <3>1
    <3> QED
      BY <3>2, <3>3
  <2>3. CASE ~(i <= s)
    <3>1. i - s \in 1..n
      BY <1>3, <2>3
    <3>2. (head \o tail)[i] = <<pos + s + 2*(i - s) - 1, pos + s + 2*(i - s)>>
      BY <1>6, <1>11, <2>3, <3>1
    <3>3. pos + s + 2*(i - s) = 2*(q + i)
      BY <1>3, <1>8, <2>1
    <3> QED
      BY <1>3, <3>2, <3>3
  <2> QED
    BY <2>2, <2>3
<1>13. Upstream(q) \o (head \o tail) = Upstream((pos + b) \div 2)
  <2> DEFINE u == Upstream(q)
             v == head \o tail
             w == Upstream((pos + b) \div 2)
  <2>1. u \in Seq(Pairs) /\ Len(u) = q /\ \A i \in 1..q : u[i] = <<2*i - 1, 2*i>>
    <3>1. q <= (pos + b) \div 2
      BY <1>3, <1>8
    <3> QED
      BY <1>8, <1>9, <3>1
  <2>2. w \in Seq(Pairs) /\ Len(w) = q + s + n
        /\ \A i \in 1..(q + s + n) : w[i] = <<2*i - 1, 2*i>>
    <3> DEFINE m == (pos + b) \div 2
    <3>1. m = q + s + n /\ m \in Nat
      BY <1>3, <1>8
    <3> HIDE DEF m
    <3>2. /\ Upstream(m) \in Seq(Pairs) /\ Len(Upstream(m)) = m
          /\ \A i \in 1..m : Upstream(m)[i] = <<2*i - 1, 2*i>>
      <4>1. m <= (pos + b) \div 2
        BY <1>3, <1>8, <3>1
      <4> QED
        BY <1>9, <3>1, <4>1
    <3>3. w = Upstream(m)
      BY DEF m
    <3> QED
      BY <3>1, <3>2, <3>3
  <2>3. v \in Seq(Pairs) /\ Len(v) = s + n
        /\ \A i \in 1..(s + n) : v[i] = <<2*(q + i) - 1, 2*(q + i)>>
    BY <1>11, <1>12
  <2> HIDE DEF u, v, w
  <2>4. u \o v \in Seq(Pairs) /\ Len(u \o v) = Len(u) + Len(v)
        /\ \A i \in 1..(Len(u) + Len(v)) :
              (u \o v)[i] = IF i <= Len(u) THEN u[i] ELSE v[i - Len(u)]
    BY <2>1, <2>3, ConcatProperties
  <2>5. Len(u \o v) = Len(w)
    BY <1>3, <1>8, <2>1, <2>2, <2>3, <2>4
  <2>6. ASSUME NEW i \in 1..Len(w) PROVE (u \o v)[i] = w[i]
    <3>1. i \in 1..(q + s + n) /\ i \in 1..(Len(u) + Len(v))
      BY <1>3, <1>8, <2>1, <2>2, <2>3
    <3>2. CASE i <= q
      <4>1. i \in 1..q
        BY <3>1, <3>2
      <4>2. u[i] = <<2*i - 1, 2*i>> /\ w[i] = <<2*i - 1, 2*i>>
        BY <2>1, <2>2, <3>1, <4>1
      <4> QED
        BY <2>1, <2>4, <3>1, <3>2, <4>2
    <3>3. CASE ~(i <= q)
      <4>1. i - q \in 1..(s + n) /\ q + (i - q) = i
        BY <1>3, <1>8, <3>1, <3>3
      <4>2. v[i - q] = <<2*i - 1, 2*i>>
        BY <2>3, <4>1
      <4> QED
        BY <2>1, <2>2, <2>4, <3>1, <3>3, <4>2
    <3> QED
      BY <3>2, <3>3
  <2>7. u \o v = w
    BY <2>2, <2>4, <2>5, <2>6, SeqEqual
  <2> QED
    BY <2>7 DEF u, v, w
<1> QED
  BY <1>4, <1>10, <1>11, <1>13 DEF q

-----------------------------------------------------------------------------
(* Types, and the frames that are made.                                      *)

\* The frames the forwarding task sends: never an empty chunk.
Sendable == {f \in Frames : /\ f.kind # "none"
                            /\ f.kind = "chunk" <=> f.data # <<>>}

\* After the end of the upstream's response there is one frame to send, a terminal one.
ClosedLast ==
    closed => /\ fpc \in {"send", "done", "dropped"}
              /\ fpc = "send" => Head(outbox).kind \in Terminal

\* The first part of the inductive invariant: types need that no byte of the body
\* comes before the header is complete, and the task's place follows from what is
\* in its outbox because a terminal frame is the last one made.
MadeInv ==
    /\ TypeOK
    /\ Carried
    /\ header < HeaderLen => pos = 0
    /\ outbox \in Seq(Sendable) /\ chan \in Seq(Sendable)
    /\ \A i \in 1..Len(outbox) : outbox[i].kind \in Terminal => i = Len(outbox)
    /\ IF pc = "write" THEN frame \in Sendable ELSE frame = NoFrame
    /\ ClosedLast

\* The frame made of some samples, if there are any, and the header.
ChunkOf(d) == IF d = <<>> THEN <<>> ELSE <<Frame("chunk", d)>>
HeaderFrame == Frame("header", <<>>)

\* What the forwarding task makes can be sent.
LEMMA FramesAreSendable ==
    /\ \A kind \in Terminal \union {"header"} : Frame(kind, <<>>) \in Sendable
    /\ \A d \in Seq(Pairs) : d # <<>> => Frame("chunk", d) \in Sendable
    /\ NoFrame \in Frames /\ NoFrame \notin Sendable
    /\ Sendable \subseteq Frames
<1>1. <<>> \in Seq(Pairs)
  BY EmptySeq
<1> QED
  BY <1>1 DEF Frame, NoFrame, Sendable, Frames, Terminal

\* A chunk of the upstream becomes at most a header frame and one frame of samples.
LEMMA ReadMakes ==
    ASSUME MadeInv, NEW h \in Nat, NEW b \in Nat, pos + b <= BodyLen,
           NEW frames \in {<<>>, <<HeaderFrame>>}, Read(h, b, frames)
    PROVE  /\ outbox = <<>> /\ fpc = "read"
           /\ pos' = pos + b /\ header' = header + h
           /\ ~closed /\ ~closed'
           /\ UNCHANGED <<chan, rxOpen, pc, frame, final, gone, received>>
           /\ Carried'
           /\ fpc' = IF outbox' = <<>> THEN "read" ELSE "send"
           /\ \E d \in Seq(Pairs) :
                 /\ Upstream(pos \div 2) \o d = Upstream(pos' \div 2)
                 /\ outbox' = frames \o ChunkOf(d)
<1> DEFINE bytes == [i \in 1..b |-> pos + i]
           all == frames \o Pcm(bytes)
<1>1. /\ fpc = "read" /\ header' = header + h /\ pos' = pos + b
      /\ carry' = CarryAfter(bytes) /\ closed' = closed
      /\ Forwarder(IF all = <<>> THEN "read" ELSE "send", all)
  BY DEF Read
<1>2. pos \in Nat /\ Carried /\ outbox = <<>>
  BY <1>1, SizesAssumption DEF MadeInv, TypeOK
<1>3. /\ Samples(bytes) \in Seq(Pairs)
      /\ Upstream(pos \div 2) \o Samples(bytes) = Upstream((pos + b) \div 2)
      /\ CarryAfter(bytes) = IF (pos + b) % 2 = 1 THEN pos + b ELSE 0
  BY <1>2, ChunkSamples
<1> HIDE DEF bytes
<1>4. all = frames \o ChunkOf(Samples(bytes))
  BY DEF Pcm, ChunkOf
<1>5. Carried'
  BY <1>1, <1>3 DEF Carried
<1>6. ~closed /\ ~closed'
  BY <1>1 DEF MadeInv, ClosedLast
<1> QED
  BY <1>1, <1>2, <1>3, <1>4, <1>5, <1>6 DEF Forwarder

\* What such an outbox holds.
LEMMA OutboxMade ==
    ASSUME NEW frames \in {<<>>, <<HeaderFrame>>}, NEW d \in Seq(Pairs)
    PROVE  LET made == frames \o ChunkOf(d)
           IN  /\ made \in Seq(Sendable)
               /\ Len(made) <= 2
               /\ made = <<>> <=> frames = <<>> /\ d = <<>>
               /\ SamplesOf(made) = d
               /\ \A i \in 1..Len(made) :
                     /\ made[i].kind \notin Terminal
                     /\ made[i].kind = IF i = 1 /\ frames # <<>> THEN "header" ELSE "chunk"
<1> DEFINE made == frames \o ChunkOf(d)
<1>1. HeaderFrame \in Sendable /\ HeaderFrame \in Frames /\ HeaderFrame.kind = "header"
      /\ HeaderFrame.data = <<>>
  BY FramesAreSendable DEF HeaderFrame, Frame
<1>2. d # <<>> => /\ Frame("chunk", d) \in Sendable /\ Frame("chunk", d) \in Frames
                  /\ Frame("chunk", d).kind = "chunk" /\ Frame("chunk", d).data = d
  BY FramesAreSendable DEF Frame
<1>3. frames \in Seq(Sendable) /\ frames \in Seq(Frames) /\ SamplesOf(frames) = <<>>
  <2>1. SamplesOf(<<>>) = <<>>
    BY FlattenEmpty DEF SamplesOf
  <2>2. SamplesOf(<<HeaderFrame>>) = <<>>
    BY <1>1, SamplesOfOne
  <2>3. CASE frames = <<>>
    BY <2>1, <2>3
  <2>4. CASE frames = <<HeaderFrame>>
    <3>1. <<HeaderFrame>> \in Seq(Sendable) /\ <<HeaderFrame>> \in Seq(Frames)
      BY <1>1
    <3> QED
      BY <2>2, <2>4, <3>1
  <2> QED
    BY <2>3, <2>4
<1>4. ChunkOf(d) \in Seq(Sendable) /\ ChunkOf(d) \in Seq(Frames) /\ SamplesOf(ChunkOf(d)) = d
  <2>1. CASE d = <<>>
    BY <2>1, FlattenEmpty DEF SamplesOf, ChunkOf
  <2>2. CASE d # <<>>
    BY <2>2, <1>2, SamplesOfOne DEF ChunkOf
  <2> QED
    BY <2>1, <2>2
<1>5. SamplesOf(made) = d
  <2>1. SamplesOf(made) = SamplesOf(frames) \o SamplesOf(ChunkOf(d))
    BY <1>3, <1>4, SamplesConcat
  <2> QED
    BY <1>3, <1>4, <2>1, ConcatEmptySeq
<1>6. made \in Seq(Sendable)
  BY <1>3, <1>4, ConcatProperties
<1>7. \/ made = <<>> /\ frames = <<>> /\ d = <<>>
      \/ made = <<HeaderFrame>> /\ frames # <<>> /\ d = <<>>
      \/ made = <<Frame("chunk", d)>> /\ frames = <<>> /\ d # <<>>
      \/ made = <<HeaderFrame, Frame("chunk", d)>> /\ frames # <<>> /\ d # <<>>
  <2>1. CASE frames = <<>> /\ d = <<>>
    BY <2>1 DEF ChunkOf
  <2>2. CASE frames # <<>> /\ d = <<>>
    <3>1. frames = <<HeaderFrame>> /\ ChunkOf(d) = <<>>
      BY <2>2 DEF ChunkOf
    <3>2. made = frames
      BY <1>3, <3>1, ConcatEmptySeq
    <3> QED
      BY <2>2, <3>1, <3>2
  <2>3. CASE frames = <<>> /\ d # <<>>
    <3>1. ChunkOf(d) = <<Frame("chunk", d)>>
      BY <2>3 DEF ChunkOf
    <3> QED
      BY <2>3, <3>1
  <2>4. CASE frames # <<>> /\ d # <<>>
    <3>1. frames = <<HeaderFrame>> /\ ChunkOf(d) = <<Frame("chunk", d)>>
      BY <2>4 DEF ChunkOf
    <3>2. ASSUME NEW f, NEW g PROVE <<f>> \o <<g>> = <<f, g>>
      <4> DEFINE S == {f, g}
      <4>1. /\ <<f>> \in Seq(S) /\ Len(<<f>>) = 1 /\ <<f>>[1] = f
            /\ <<g>> \in Seq(S) /\ Len(<<g>>) = 1 /\ <<g>>[1] = g
            /\ <<f, g>> \in Seq(S) /\ Len(<<f, g>>) = 2
            /\ <<f, g>>[1] = f /\ <<f, g>>[2] = g
        OBVIOUS
      <4> HIDE DEF S
      <4>2. /\ <<f>> \o <<g>> \in Seq(S) /\ Len(<<f>> \o <<g>>) = 2
            /\ (<<f>> \o <<g>>)[1] = f /\ (<<f>> \o <<g>>)[2] = g
        BY <4>1, ConcatProperties
      <4> DEFINE u == <<f>> \o <<g>>
                 v == <<f, g>>
      <4>3. u \in Seq(S) /\ v \in Seq(S) /\ Len(u) = 2 /\ Len(v) = 2
            /\ u[1] = v[1] /\ u[2] = v[2]
        BY <4>1, <4>2
      <4> HIDE DEF u, v
      <4>4. \A i \in 1..Len(u) : u[i] = v[i]
        <5>1. \A i \in 1..2 : i = 1 \/ i = 2
          OBVIOUS
        <5> QED
          BY <4>3, <5>1
      <4>5. u = v
        BY <4>3, <4>4, SeqEqual
      <4> QED
        BY <4>5 DEF u, v
    <3>3. made = <<HeaderFrame, Frame("chunk", d)>>
      BY <3>1, <3>2
    <3> QED
      BY <2>4, <3>3
  <2> QED
    BY <2>1, <2>2, <2>3, <2>4
<1> HIDE DEF made
<1>8. Len(made) <= 2 /\ (made = <<>> <=> frames = <<>> /\ d = <<>>)
  <2>1. made = <<>> => Len(made) = 0
    OBVIOUS
  <2>2. \A f : <<f>> # <<>> /\ Len(<<f>>) = 1
    OBVIOUS
  <2>3. \A f, g : <<f, g>> # <<>> /\ Len(<<f, g>>) = 2
    OBVIOUS
  <2>4. CASE made = <<>>
    BY <1>7, <2>1, <2>2, <2>3, <2>4
  <2>5. CASE made # <<>>
    <3>1. ~(frames = <<>> /\ d = <<>>)
      BY <1>7, <2>2, <2>3, <2>5
    <3>2. Len(made) <= 2
      BY <1>7, <2>2, <2>3, <2>5
    <3> QED
      BY <2>5, <3>1, <3>2
  <2> QED
    BY <2>4, <2>5
<1>9. ASSUME NEW i \in 1..Len(made)
      PROVE  /\ made[i].kind \notin Terminal
             /\ made[i].kind = IF i = 1 /\ frames # <<>> THEN "header" ELSE "chunk"
  BY <1>1, <1>2, <1>7 DEF Terminal
<1> QED
  BY <1>5, <1>6, <1>8, <1>9 DEF made

\* Nothing is made yet.
LEMMA InitMadeInv == Init => MadeInv
<1> SUFFICES ASSUME Init PROVE MadeInv
  OBVIOUS
<1>1. /\ <<>> \in Seq(Sendable) /\ <<>> \in Seq(Frames) /\ Len(<<>>) = 0
      /\ NoFrame \in Frames
  BY EmptySeq, FramesAreSendable
<1>2. header \in 0..HeaderLen /\ pos \in 0..BodyLen /\ carry \in 0..BodyLen
  BY SizesAssumption DEF Init
<1>3. chan \in Seq(Frames) /\ outbox \in Seq(Frames) /\ received \in Seq(Frames)
      /\ Len(chan) <= ChanCap /\ outbox = <<>>
  BY <1>1, SizesAssumption DEF Init
<1>4. TypeOK
  BY <1>1, <1>2, <1>3 DEF Init, TypeOK
<1>5. Carried /\ (header < HeaderLen => pos = 0)
  BY DEF Init, Carried
<1>6. \A i \in 1..Len(outbox) : outbox[i].kind \in Terminal => i = Len(outbox)
  BY <1>1, <1>3
<1> QED
  BY <1>1, <1>4, <1>5, <1>6 DEF Init, MadeInv, ClosedLast

\* The end of a send: the first frame leaves the outbox.
LEMMA OutboxSent ==
    ASSUME MadeInv, fpc = "send"
    PROVE  /\ outbox # <<>> /\ Len(outbox) \in Nat \ {0}
           /\ Head(outbox) \in Sendable /\ Head(outbox) = outbox[1]
           /\ Tail(outbox) \in Seq(Sendable) /\ Len(Tail(outbox)) = Len(outbox) - 1
           /\ \A i \in 1..Len(Tail(outbox)) :
                 Tail(outbox)[i].kind \in Terminal => i = Len(Tail(outbox))
           /\ Tail(outbox) = <<>> <=> Len(outbox) = 1
           /\ AfterSend \in {"done", "read", "send"}
           /\ AfterSend = "send" <=> Tail(outbox) # <<>>
           /\ Head(outbox).kind \in Terminal <=> AfterSend = "done"
<1> DEFINE t == Tail(outbox)
<1>1. outbox # <<>> /\ outbox \in Seq(Sendable)
      /\ \A i \in 1..Len(outbox) : outbox[i].kind \in Terminal => i = Len(outbox)
  BY DEF MadeInv, TypeOK
<1>2. Len(outbox) \in Nat \ {0} /\ Head(outbox) \in Sendable /\ Head(outbox) = outbox[1]
      /\ t \in Seq(Sendable) /\ Len(t) = Len(outbox) - 1
      /\ \A i \in 1..Len(t) : t[i] = outbox[i + 1]
  BY <1>1, EmptySeq, HeadTailProperties
<1> HIDE DEF t
<1>3. t = <<>> <=> Len(outbox) = 1
  BY <1>2, EmptySeq
<1>4. \A i \in 1..Len(t) : t[i].kind \in Terminal => i = Len(t)
  <2> SUFFICES ASSUME NEW i \in 1..Len(t), t[i].kind \in Terminal PROVE i = Len(t)
    OBVIOUS
  <2>1. i + 1 \in 1..Len(outbox) /\ outbox[i + 1].kind \in Terminal
    BY <1>2
  <2>2. i + 1 = Len(outbox)
    BY <1>1, <2>1
  <2> QED
    BY <1>2, <2>2
<1>5. Head(outbox).kind \in Terminal => Len(outbox) = 1
  <2>1. 1 \in 1..Len(outbox)
    BY <1>2
  <2> QED
    BY <1>1, <1>2, <2>1
<1>6. /\ AfterSend \in {"done", "read", "send"}
      /\ AfterSend = "send" <=> t # <<>>
      /\ Head(outbox).kind \in Terminal <=> AfterSend = "done"
  BY <1>3, <1>5 DEF AfterSend
<1> QED
  BY <1>1, <1>2, <1>3, <1>4, <1>6 DEF t

\* Steps of the forwarding task that replace its outbox.
LEMMA ForwarderKeepsMade ==
    ASSUME MadeInv, NEW at, NEW frames, Forwarder(at, frames),
           at \in {"request", "read", "send", "done", "dropped"},
           (at = "send") <=> (frames # <<>>),
           frames \in Seq(Sendable),
           \A i \in 1..Len(frames) : frames[i].kind \in Terminal => i = Len(frames),
           header' \in 0..HeaderLen, pos' \in 0..BodyLen, Carried',
           header' < HeaderLen => pos' = 0,
           closed' \in BOOLEAN, ClosedLast'
    PROVE  MadeInv'
<1>1. carry' \in 0..BodyLen
  <2>1. carry' = IF pos' % 2 = 1 THEN pos' ELSE 0
    BY DEF Carried
  <2>2. pos' \in 0..BodyLen /\ 0 \in 0..BodyLen
    BY SizesAssumption
  <2>3. carry' = pos' \/ carry' = 0
    BY <2>1
  <2> QED
    BY <2>2, <2>3
<1>2. frames \in Seq(Frames)
  BY FramesAreSendable, SeqMonotonic
<1>3. TypeOK'
  BY <1>1, <1>2 DEF Forwarder, MadeInv, TypeOK
<1> QED
  BY <1>3 DEF Forwarder, MadeInv

\* What is read of the body is sent, or about to be, or its last odd byte carried.
LEMMA ReadKeepsMade ==
    ASSUME MadeInv, NEW h \in Nat, NEW b \in Nat, pos + b <= BodyLen,
           NEW frames \in {<<>>, <<HeaderFrame>>}, Read(h, b, frames),
           header + h <= HeaderLen, header + h < HeaderLen => b = 0
    PROVE  MadeInv'
<1>1. /\ pos' = pos + b /\ header' = header + h /\ Carried'
      /\ UNCHANGED <<chan, rxOpen, pc, frame, final, gone, received>>
      /\ fpc' = IF outbox' = <<>> THEN "read" ELSE "send"
      /\ ~closed'
  BY ReadMakes
<1>2. PICK d \in Seq(Pairs) : outbox' = frames \o ChunkOf(d)
  BY ReadMakes
<1>3. outbox' \in Seq(Sendable) /\ \A i \in 1..Len(outbox') : outbox'[i].kind \notin Terminal
  BY <1>2, OutboxMade
<1>4. header \in Nat /\ pos \in Nat /\ (header < HeaderLen => pos = 0) /\ BodyLen \in Nat
      /\ HeaderLen \in Nat
  BY SizesAssumption DEF MadeInv, TypeOK
<1>5. header' \in 0..HeaderLen /\ pos' \in 0..BodyLen /\ (header' < HeaderLen => pos' = 0)
  BY <1>1, <1>4
<1>6. Forwarder(fpc', outbox')
  BY <1>1 DEF Forwarder
<1>7. /\ (fpc' = "send") <=> (outbox' # <<>>)
      /\ fpc' \in {"request", "read", "send", "done", "dropped"}
  BY <1>1
<1>8. closed' \in BOOLEAN
  BY DEF Read, MadeInv, TypeOK
<1>9. closed' \in BOOLEAN /\ ClosedLast'
  BY <1>1, <1>8 DEF ClosedLast
<1> QED
  BY <1>1, <1>3, <1>5, <1>6, <1>7, <1>9, ForwarderKeepsMade

\* An error frame is one frame.
LEMMA SingleError ==
    ASSUME NEW kind \in Terminal
    PROVE  /\ <<Frame(kind, <<>>)>> \in Seq(Sendable)
           /\ <<Frame(kind, <<>>)>> # <<>>
           /\ Len(<<Frame(kind, <<>>)>>) = 1
           /\ \A i \in 1..1 : <<Frame(kind, <<>>)>>[i] = Frame(kind, <<>>)
<1>1. Frame(kind, <<>>) \in Sendable
  BY FramesAreSendable
<1> QED
  BY <1>1

\* Every step keeps the invariant.
LEMMA NextMadeInv == MadeInv /\ [Next]_vars => MadeInv'
<1> SUFFICES ASSUME MadeInv, [Next]_vars PROVE MadeInv'
  OBVIOUS
<1>1. header \in 0..HeaderLen /\ pos \in 0..BodyLen /\ HeaderLen \in Nat \ {0}
      /\ BodyLen \in Nat /\ MaxChunk \in Nat /\ Carried /\ (header < HeaderLen => pos = 0)
      /\ <<>> \in Seq(Sendable) /\ Len(<<>>) = 0
  BY SizesAssumption, EmptySeq DEF MadeInv, TypeOK
<1>0. \A i \in 1..Len(<<>>) : <<>>[i].kind \in Terminal => i = Len(<<>>)
  OBVIOUS
<1>2. ASSUME UNCHANGED <<header, pos, carry>>
      PROVE  /\ header' \in 0..HeaderLen /\ pos' \in 0..BodyLen /\ Carried'
             /\ header' < HeaderLen => pos' = 0
  BY <1>1, <1>2 DEF Carried
<1>closed. closed \in BOOLEAN /\ ClosedLast
  BY DEF MadeInv, TypeOK
<1>3. CASE Connected \/ ForwarderPanics
  <2>1. UNCHANGED <<header, pos, carry, closed>> /\ \E at \in {"read", "done"} : Forwarder(at, <<>>)
    BY <1>3 DEF Connected, ForwarderPanics
  <2>2. PICK at \in {"read", "done"} : Forwarder(at, <<>>)
    BY <2>1
  <2>3. (at = "send") <=> (<<>> # <<>>)
    OBVIOUS
  <2>4. closed' \in BOOLEAN /\ ClosedLast'
    BY <1>3, <1>closed DEF Connected, ForwarderPanics, ClosedLast
  <2> QED
    BY <1>0, <1>1, <1>2, <2>1, <2>2, <2>3, <2>4, ForwarderKeepsMade
<1>4. CASE Refused \/ BadHeader \/ UpstreamFails \/ UpstreamEnds
  <2>1. \E kind \in Terminal : Forwarder("send", <<Frame(kind, <<>>)>>)
    BY <1>4 DEF Refused, BadHeader, UpstreamFails, UpstreamEnds, Terminal
  <2>2. /\ header' \in 0..HeaderLen /\ pos' \in 0..BodyLen /\ Carried'
        /\ header' < HeaderLen => pos' = 0
    BY <1>1, <1>2, <1>4
       DEF Refused, BadHeader, UpstreamFails, UpstreamEnds, Carried
  <2>3. PICK kind \in Terminal : Forwarder("send", <<Frame(kind, <<>>)>>)
    BY <2>1
  <2> DEFINE error == <<Frame(kind, <<>>)>>
  <2>4. /\ error \in Seq(Sendable) /\ error # <<>>
        /\ \A i \in 1..Len(error) : error[i].kind \in Terminal => i = Len(error)
    BY SingleError
  <2>5. Forwarder("send", error)
    BY <2>3
  <2>6. closed' \in BOOLEAN
    BY <1>4, <1>closed DEF Refused, BadHeader, UpstreamFails, UpstreamEnds
  <2>7. ClosedLast'
    BY <2>3, SingleError DEF ClosedLast, Forwarder, Frame
  <2> HIDE DEF error
  <2> QED
    BY <2>2, <2>4, <2>5, <2>6, <2>7, ForwarderKeepsMade
<1>5. CASE HeaderPart
  <2>1. PICK h \in 1..MaxChunk : header + h < HeaderLen /\ Read(h, 0, <<>>)
    BY <1>5 DEF HeaderPart
  <2> QED
    BY <1>1, <2>1, ReadKeepsMade
<1>6. CASE HeaderComplete
  <2>1. PICK b \in 0..BodyLen :
           header < HeaderLen /\ Read(HeaderLen - header, b, <<HeaderFrame>>)
    BY <1>6 DEF HeaderComplete, HeaderFrame
  <2>2. HeaderLen - header \in Nat /\ header + (HeaderLen - header) = HeaderLen
        /\ pos + b <= BodyLen
    BY <1>1, <2>1
  <2> QED
    BY <1>1, <2>1, <2>2, ReadKeepsMade
<1>7. CASE BodyPart
  <2>1. PICK b \in 1..MaxChunk : header = HeaderLen /\ pos + b <= BodyLen /\ Read(0, b, <<>>)
    BY <1>7 DEF BodyPart
  <2> QED
    BY <1>1, <2>1, ReadKeepsMade
<1>8. CASE Send
  <2>1. /\ fpc = "send" /\ Len(chan) < ChanCap /\ chan' = Append(chan, Head(outbox))
        /\ outbox' = Tail(outbox) /\ fpc' = AfterSend
        /\ UNCHANGED <<header, pos, carry, closed, rxOpen, pc, frame, final, gone, received>>
    BY <1>8 DEF Send
  <2>2. chan \in Seq(Sendable) /\ Head(outbox) \in Sendable
    BY <2>1, OutboxSent DEF MadeInv
  <2>3. chan' \in Seq(Sendable) /\ Len(chan') <= ChanCap
    <3>1. Len(chan) \in Nat /\ Len(chan') = Len(chan) + 1
      BY <2>1, <2>2, LenProperties, AppendProperties
    <3> QED
      BY <2>1, <2>2, <3>1, AppendProperties, SizesAssumption
  <2>4. /\ outbox' \in Seq(Sendable) /\ (fpc' = "send" <=> outbox' # <<>>)
        /\ fpc' \in {"request", "read", "send", "done", "dropped"}
        /\ \A i \in 1..Len(outbox') : outbox'[i].kind \in Terminal => i = Len(outbox')
    BY <2>1, OutboxSent
  <2>5. outbox' \in Seq(Frames) /\ chan' \in Seq(Frames)
    BY <2>3, <2>4, FramesAreSendable, SeqMonotonic
  <2>6. TypeOK'
    BY <2>1, <2>3, <2>4, <2>5 DEF MadeInv, TypeOK
  <2>7. ClosedLast'
    BY <1>closed, <2>1, OutboxSent DEF ClosedLast
  <2> QED
    BY <1>2, <2>1, <2>3, <2>4, <2>6, <2>7 DEF MadeInv
<1>9. CASE SendLost
  <2>1. UNCHANGED <<header, pos, carry, closed>> /\ fpc = "send"
        /\ (Forwarder("done", <<>>) \/ Forwarder(AfterSend, Tail(outbox)))
    BY <1>9 DEF SendLost
  <2>2. CASE Forwarder("done", <<>>)
    <3>1. ("done" = "send") <=> (<<>> # <<>>)
      OBVIOUS
    <3>2. closed' \in BOOLEAN /\ ClosedLast'
      BY <1>closed, <2>1, <2>2 DEF Forwarder, ClosedLast
    <3> QED
      BY <1>0, <1>1, <1>2, <2>1, <2>2, <3>1, <3>2, ForwarderKeepsMade
  <2>3. CASE Forwarder(AfterSend, Tail(outbox))
    <3>1. closed' \in BOOLEAN /\ ClosedLast'
      BY <1>closed, <2>1, <2>3, OutboxSent DEF Forwarder, ClosedLast
    <3> QED
      BY <1>2, <2>1, <2>3, <3>1, OutboxSent, ForwarderKeepsMade
  <2> QED
    BY <2>1, <2>2, <2>3
<1>10. CASE HangUp
  BY <1>10 DEF HangUp, forwardVars, MadeInv, TypeOK, Carried, ClosedLast
<1>11. CASE ClientEof
  <2>1. /\ fpc' \in {"done", "dropped"} /\ outbox' = <<>> /\ pc' = "done"
        /\ rxOpen' = FALSE /\ chan' = <<>>
        /\ UNCHANGED <<header, pos, carry, closed, frame, final, gone, received>>
    BY <1>11 DEF ClientEof, Return
  <2>2. <<>> \in Seq(Frames) /\ 0 <= ChanCap
    BY SizesAssumption
  <2>3. TypeOK'
    BY <1>1, <2>1, <2>2 DEF MadeInv, TypeOK
  <2>4. frame' = NoFrame
    BY <1>11, <2>1 DEF ClientEof, MadeInv
  <2> QED
    BY <1>0, <1>1, <1>2, <2>1, <2>3, <2>4 DEF MadeInv, ClosedLast
<1>12. CASE TakeFrame
  <2>1. chan \in Seq(Sendable) /\ chan # <<>>
    BY <1>12 DEF TakeFrame, MadeInv
  <2>2. frame' \in Sendable /\ chan' \in Seq(Sendable) /\ Len(chan') = Len(chan) - 1
        /\ Len(chan) \in Nat
    BY <1>12, <2>1, HeadTailProperties, LenProperties DEF TakeFrame
  <2>3. frame' \in Frames /\ chan' \in Seq(Frames)
    BY <2>2, FramesAreSendable, SeqMonotonic
  <2>4. TypeOK'
    BY <1>12, <2>2, <2>3, SizesAssumption DEF TakeFrame, forwardVars, MadeInv, TypeOK
  <2> QED
    BY <1>2, <1>12, <2>2, <2>4 DEF TakeFrame, forwardVars, MadeInv, ClosedLast
<1>13. CASE ChannelClosed \/ Join
  BY <1>13 DEF ChannelClosed, Join, forwardVars, MadeInv, TypeOK, Carried, ClosedLast
<1>14. CASE WriteFrame
  <2>1. pc = "write" /\ frame \in Sendable /\ frame \in Frames /\ frame' = NoFrame
        /\ UNCHANGED <<fpc, header, pos, carry, closed, outbox, chan, rxOpen, gone>>
        /\ pc' \in {"select", "join"}
    BY <1>14, FramesAreSendable DEF WriteFrame, forwardVars, MadeInv
  <2>2. received' \in Seq(Frames)
    BY <1>14, <2>1, AppendProperties DEF WriteFrame, Deliver, MadeInv, TypeOK
  <2>3. final' \in Terminal \union {"none"}
    BY <1>14 DEF WriteFrame, MadeInv, TypeOK
  <2>4. TypeOK'
    BY <2>1, <2>2, <2>3, FramesAreSendable DEF MadeInv, TypeOK
  <2> QED
    BY <1>2, <2>1, <2>4 DEF MadeInv, ClosedLast
<1>15. CASE WriteFails
  <2>1. /\ pc' = "done" /\ rxOpen' = FALSE /\ chan' = <<>> /\ frame' = NoFrame
        /\ UNCHANGED <<fpc, header, pos, carry, closed, outbox, final, gone, received>>
    BY <1>15 DEF WriteFails, Return, forwardVars
  <2>2. <<>> \in Seq(Frames) /\ 0 <= ChanCap
    BY SizesAssumption
  <2>3. TypeOK'
    BY <1>1, <2>1, <2>2, FramesAreSendable DEF MadeInv, TypeOK
  <2> QED
    BY <1>1, <1>2, <2>1, <2>3 DEF MadeInv, ClosedLast
<1>16. CASE Conclude
  <2>1. /\ pc = "finish" /\ pc' = "done" /\ chan' = <<>> /\ rxOpen' = FALSE
        /\ UNCHANGED <<fpc, header, pos, carry, closed, outbox, frame, final, gone>>
    BY <1>16 DEF Conclude, Return, forwardVars
  <2>2. Frame("error", <<>>) \in Frames
    BY FramesAreSendable DEF Terminal
  <2>3. received' \in Seq(Frames)
    <3>1. received \in Seq(Frames)
      BY DEF MadeInv, TypeOK
    <3>2. received' = received \/ received' = Append(received, Frame("error", <<>>))
      BY <1>16 DEF Conclude, Deliver
    <3> QED
      BY <2>2, <3>1, <3>2, AppendProperties
  <2>4. <<>> \in Seq(Frames) /\ 0 <= ChanCap
    BY SizesAssumption
  <2>5. TypeOK'
    BY <1>1, <2>1, <2>3, <2>4 DEF MadeInv, TypeOK
  <2> QED
    BY <1>1, <1>2, <2>1, <2>5 DEF MadeInv, ClosedLast
<1>17. CASE UNCHANGED vars
  BY <1>17 DEF vars, forwardVars, MadeInv, TypeOK, Carried, ClosedLast
<1> QED
  BY <1>3, <1>4, <1>5, <1>6, <1>7, <1>8, <1>9, <1>10, <1>11, <1>12, <1>13, <1>14,
     <1>15, <1>16, <1>17
     DEF Next, ForwardTask, HandlerTask, Ended

\* Types, with the capacity of the channel, for every size and every cut of the
\* upstream's chunks.
THEOREM TypeCorrect == Spec => []TypeOK
<1>1. MadeInv => TypeOK
  BY DEF MadeInv
<1> QED
  BY <1>1, InitMadeInv, NextMadeInv, PTL DEF Spec

=============================================================================
